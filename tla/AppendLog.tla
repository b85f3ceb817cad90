----------------------------- MODULE AppendLog -----------------------------
(***************************************************************************)
(* FileAppendLogStore (src/rt/append_log_file.cpp): one log file, its      *)
(* writers, and what a crash, a power loss or bit rot leaves of it.  The   *)
(* file is a sequence of 4-byte cells, so that the magic is 2 cells and a  *)
(* record header 3; checksums are ideal (two contents never share one).    *)
(* Only the format this version creates (v3) is modelled.                  *)
(***************************************************************************)
EXTENDS Naturals, Sequences, FiniteSets

CONSTANTS Writers,      \* threads and processes that append to this log
          Records,      \* what they append
          NoRecord,     \* rec[w] between two calls
          SizeOf(_),    \* cells a record's payload takes, at least 1
          Granule,      \* zero_fill_granule, in cells
          MaxRecords,   \* bound: records in the log and under way
          MaxFaults     \* bound: failed I/O calls, dead processes, power losses, rot

\* A block is longer than the magic, and no record is empty.
ASSUME FormatAssumption ==
    /\ Granule \in Nat /\ Granule > 2
    /\ \A r \in Records : SizeOf(r) \in Nat \ {0}

VARIABLES
    sync,      \* append_log_sync of the store
    file,      \* the log file as every process sees it
    disk,      \* what the last fsync (or power loss) left on the disk
    clean,     \* cells at the front of the file that are on the disk
    call,      \* call[w]: where w's append_blocking() is
    rec,       \* rec[w]: the record it appends
    cut,       \* cut[w]: scan.valid_end when w scanned
    count,     \* count[w]: scan.record_count then
    promised,  \* <<seq, record>> of every append that returned success
    faults,    \* faults so far
    torn2,     \* a power loss took more than the tail of one frame (see Lossy)
    rotten,    \* some cell was damaged at rest
    outage     \* some power loss happened

storeVars == <<sync, file, disk, clean, call, rec, cut, count, promised>>
faultVars == <<faults, torn2, rotten, outage>>
fileVars == <<storeVars, faultVars>>

-----------------------------------------------------------------------------
\* The on-disk format.

Zero == <<"zero", 0>>
Bad == <<"bad", 0>>
Magic == <<<<"magic", 1>>, <<"magic", 2>>>>
magic_size == 2
v3_header_size == 3

Payload(r) == [i \in 1..SizeOf(r) |-> <<"pay", <<r, i>>>>]
crc32(cells) == <<"crc", cells>>
v3_header_crc(len, crc) == <<"hcrc", <<len, crc>>>>

Frame(r) ==
    LET len == <<"len", SizeOf(r)>>
        crc == crc32(Payload(r))
    IN <<len, crc, v3_header_crc(len, crc)>> \o Payload(r)

\* Where the lost cells of b begin after position p; Len(b) when the file does
\* not end in zeros the way a power loss leaves it.
lost_from(b, p) ==
    LET zeros == CHOOSE z \in p..Len(b) :
                    /\ \A i \in (z + 1)..Len(b) : b[i] = Zero
                    /\ z > p => b[z] # Zero
        aligned == ((zeros + Granule - 1) \div Granule) * Granule
    IN IF zeros = Len(b) \/ zeros = p THEN zeros
       ELSE IF aligned < Len(b) THEN aligned ELSE Len(b)

\* Mutant: the claimed frame must end exactly where the file does.
TornOnlyAtEnd(b, p) ==
    LET lost == lost_from(b, p)
    IN /\ lost < Len(b)
       /\ lost < p + v3_header_size
       /\ IF lost >= p + 1
          THEN b[p + 1][1] = "len" /\ p + v3_header_size + b[p + 1][2] = Len(b)
          ELSE Len(b) - p < 2 * v3_header_size

\* Mutant: every bad header counts as torn.
TornAlways(b, p) == TRUE

\* A header that fails its checksum was cut short by the one torn write.
v3_bad_header_is_torn(b, p) ==
    LET lost == lost_from(b, p)
    IN /\ lost < Len(b)
       /\ lost < p + v3_header_size
       /\ IF lost >= p + 1
          THEN b[p + 1][1] = "len" /\ p + v3_header_size + b[p + 1][2] >= Len(b)
          ELSE Len(b) - p < 2 * v3_header_size

Scanned(tail, end, recs) == [tail |-> tail, valid_end |-> end, records |-> recs]

\* What the loop checks of the record that starts after position p.
EndOf(b, p) == p + v3_header_size + b[p + 1][2]
HeaderOk(b, p) == b[p + 3] = v3_header_crc(b[p + 1], b[p + 2])
PayloadOk(b, p) == crc32(SubSeq(b, p + v3_header_size + 1, EndOf(b, p))) = b[p + 2]

\* None of the loop's early returns is taken at p: the record is whole and exact.
Intact(b, p) ==
    /\ Len(b) - p >= v3_header_size
    /\ HeaderOk(b, p)
    /\ EndOf(b, p) <= Len(b)
    /\ PayloadOk(b, p)

\* The early return taken where the loop stops.
TailAt(b, p) ==
    IF Len(b) = p THEN "clean"
    ELSE IF Len(b) - p < v3_header_size THEN "torn"
    ELSE IF ~HeaderOk(b, p)
    THEN IF v3_bad_header_is_torn(b, p) THEN "torn" ELSE "corrupt"
    ELSE IF EndOf(b, p) > Len(b) THEN "torn"
    ELSE IF EndOf(b, p) = Len(b) /\ lost_from(b, p) < Len(b) THEN "torn" ELSE "corrupt"

\* The loop of scan_log: from[p] is what it returns, of the records after p, once
\* it stands at p.
ScanFrom(b) ==
    LET from[p \in magic_size..Len(b)] ==
            IF Intact(b, p)
            THEN [from[EndOf(b, p)] EXCEPT !.records = <<b[p + 4][2][1]>> \o @]
            ELSE Scanned(TailAt(b, p), p, <<>>)
    IN from

\* read_magic: no record can be read before it is whole and exact.
NoMagic(b) ==
    IF Len(b) < magic_size /\ b = SubSeq(Magic, 1, Len(b)) THEN "torn"
    ELSE IF /\ \A i \in 1..Len(b) : b[i] = Zero
            /\ Len(b) < magic_size + 2 * v3_header_size THEN "torn"
    ELSE "unknown_format"

scan_log(b) ==
    IF b = <<>> THEN Scanned("clean", 0, <<>>)
    ELSE IF Len(b) >= magic_size /\ SubSeq(b, 1, magic_size) = Magic
    THEN ScanFrom(b)[magic_size]
    ELSE Scanned(NoMagic(b), 0, <<>>)

damage_error(scan) == scan.tail \in {"corrupt", "unknown_format"}

-----------------------------------------------------------------------------
FileInit ==
    /\ sync \in {"disk", "os_buffer"}
    /\ file = <<>>
    /\ disk = <<>>
    /\ clean = 0
    /\ call = [w \in Writers |-> "idle"]
    /\ rec = [w \in Writers |-> NoRecord]
    /\ cut = [w \in Writers |-> 0]
    /\ count = [w \in Writers |-> 0]
    /\ promised = {}
    /\ faults = 0
    /\ torn2 = FALSE
    /\ rotten = FALSE
    /\ outage = FALSE

Fault == faults < MaxFaults /\ faults' = faults + 1

\* The caller enters append_blocking(), which opens the file and asks for the lock.
AppendBegin(w, r) ==
    /\ call[w] = "idle"
    /\ Len(scan_log(file).records) + Cardinality({v \in Writers : call[v] # "idle"}) < MaxRecords
    /\ call' = [call EXCEPT ![w] = "opening"]
    /\ rec' = [rec EXCEPT ![w] = r]
    /\ UNCHANGED <<sync, file, disk, clean, cut, count, promised, faultVars>>

Holders == {w \in Writers : call[w] \in {"locked", "writing", "written"}}

\* flock(LOCK_EX): waits while another writer holds the file.
Lock(w) ==
    /\ call[w] = "opening"
    /\ Holders = {}
    /\ call' = [call EXCEPT ![w] = "locked"]
    /\ UNCHANGED <<sync, file, disk, clean, rec, cut, count, promised, faultVars>>

\* The call ends, its locals with it; closing the file releases the lock.
Ended(w) ==
    /\ call' = [call EXCEPT ![w] = "idle"]
    /\ rec' = [rec EXCEPT ![w] = NoRecord]
    /\ cut' = [cut EXCEPT ![w] = 0]
    /\ count' = [count EXCEPT ![w] = 0]

\* read_all(), scan_log(): a damaged log is not appended to.
ScanRefuses(w) ==
    /\ call[w] = "locked"
    /\ damage_error(scan_log(file))
    /\ Ended(w)
    /\ UNCHANGED <<sync, file, disk, clean, promised, faultVars>>

\* Mutant: the torn tail is left in place and written behind.
ScanUncut(w) ==
    LET scan == scan_log(file)
    IN /\ call[w] = "locked"
       /\ ~damage_error(scan)
       /\ cut' = [cut EXCEPT ![w] = Len(file)]
       /\ count' = [count EXCEPT ![w] = Len(scan.records)]
       /\ call' = [call EXCEPT ![w] = "writing"]
       /\ UNCHANGED <<sync, file, disk, clean, rec, promised, faultVars>>

\* read_all(), scan_log(), truncate_and_seek(): a torn tail is dropped first.
ScanAndCut(w) ==
    LET scan == scan_log(file)
    IN /\ call[w] = "locked"
       /\ ~damage_error(scan)
       /\ file' = SubSeq(file, 1, scan.valid_end)
       /\ clean' = IF clean < scan.valid_end THEN clean ELSE scan.valid_end
       /\ cut' = [cut EXCEPT ![w] = scan.valid_end]
       /\ count' = [count EXCEPT ![w] = Len(scan.records)]
       /\ call' = [call EXCEPT ![w] = "writing"]
       /\ UNCHANGED <<sync, disk, rec, promised, faultVars>>

\* What w writes, in one write: the magic of a new log, then the frame.
Written(w) == (IF cut[w] = 0 THEN Magic ELSE <<>>) \o Frame(rec[w])
Done(w) == Len(file) - cut[w]

\* write_all(): some more of it reaches the file.
WriteSome(w) ==
    /\ call[w] = "writing"
    /\ file' = Append(file, Written(w)[Done(w) + 1])
    /\ call' = [call EXCEPT ![w] = IF Done(w) + 1 = Len(Written(w)) THEN "written" ELSE @]
    /\ UNCHANGED <<sync, disk, clean, rec, cut, count, promised, faultVars>>

\* write_all() fails: the file is cut back, unless that fails too.
WriteFails(w) ==
    /\ call[w] = "writing"
    /\ Fault
    /\ file' \in {file, SubSeq(file, 1, cut[w])}
    /\ Ended(w)
    /\ UNCHANGED <<sync, disk, clean, promised, torn2, rotten, outage>>

\* open, flock, read_all or ftruncate fails: nothing was changed.
OpenFails(w) ==
    /\ call[w] \in {"opening", "locked"}
    /\ Fault
    /\ Ended(w)
    /\ UNCHANGED <<sync, file, disk, clean, promised, torn2, rotten, outage>>

\* Mutant: the sequence number is returned before anything is synced.
ReturnUnsynced(w) ==
    /\ call[w] = "written"
    /\ promised' = promised \cup {<<count[w] + 1, rec[w]>>}
    /\ Ended(w)
    /\ UNCHANGED <<sync, file, disk, clean, faultVars>>

\* sync_to_disk() in disk mode, then the sequence number is returned.
Return(w) ==
    /\ call[w] = "written"
    /\ disk' = IF sync = "disk" THEN file ELSE disk
    /\ clean' = IF sync = "disk" THEN Len(file) ELSE clean
    /\ promised' = promised \cup {<<count[w] + 1, rec[w]>>}
    /\ Ended(w)
    /\ UNCHANGED <<sync, file, faultVars>>

\* sync_to_disk() fails: an error, and the record stays in the file.
SyncFails(w) ==
    /\ call[w] = "written"
    /\ sync = "disk"
    /\ Fault
    /\ Ended(w)
    /\ UNCHANGED <<sync, file, disk, clean, promised, torn2, rotten, outage>>

-----------------------------------------------------------------------------
\* Faults of the environment.

\* w's process dies: its lock goes, what it wrote stays.
ProcessDies(w) ==
    /\ call[w] # "idle"
    /\ Fault
    /\ Ended(w)
    /\ UNCHANGED <<sync, file, disk, clean, promised, torn2, rotten, outage>>

\* What a power loss can leave of the file: the size reached the disk up to k, the
\* data only up to z, the first cell not yet on the disk or the start of a block.
Lossy(k, z) == [i \in 1..k |-> IF i <= z THEN file[i] ELSE Zero]
LossPoints(k) == {z \in clean..k : z = clean \/ z = k \/ z % Granule = 0}

\* More than one frame starts in the cells that are not on the disk yet.
UnsyncedFrames ==
    \E i, j \in (clean + 1)..Len(file) : i < j /\ file[i][1] = "len" /\ file[j][1] = "len"

PowerLossTo(b, excuse) ==
    /\ Fault
    /\ file' = b
    /\ disk' = b
    /\ clean' = Len(b)
    /\ call' = [w \in Writers |-> "idle"]
    /\ rec' = [w \in Writers |-> NoRecord]
    /\ cut' = [w \in Writers |-> 0]
    /\ count' = [w \in Writers |-> 0]
    /\ torn2' = (torn2 \/ excuse)
    /\ outage' = TRUE
    /\ UNCHANGED <<sync, promised, rotten>>

PowerFails ==
    \/ PowerLossTo(disk, FALSE)
    \/ \E k \in clean..Len(file) : \E z \in LossPoints(k) :
          PowerLossTo(Lossy(k, z),
             \/ UnsyncedFrames
             \/ /\ z = clean       \* the length of the frame was lost with the rest
                /\ k - z >= 2 * v3_header_size)

\* Bit rot in a file no writer has open.
BitRot ==
    /\ Holders = {}
    /\ ~rotten
    /\ Fault
    /\ \E i \in 1..Len(file) : /\ file' = [file EXCEPT ![i] = Bad]
                               /\ disk' = IF i <= Len(disk) THEN [disk EXCEPT ![i] = Bad] ELSE disk
    /\ rotten' = TRUE
    /\ UNCHANGED <<sync, clean, call, rec, cut, count, promised, torn2, outage>>

AppendError(w) == WriteFails(w) \/ OpenFails(w) \/ SyncFails(w)

-----------------------------------------------------------------------------
(***************************************************************************)
(* Only what the format says it cannot tell apart makes a log unusable:    *)
(* with no rotten cell, a scan reports damage only after a power loss that *)
(* took the length of a frame of two headers or more, or reached back over *)
(* more than one frame.  No process crash, failed write or failed sync, at *)
(* any point of an append, ever does (scan_log's torn and corrupt rules).  *)
(***************************************************************************)
CrashIsNotDamage == damage_error(scan_log(file)) => rotten \/ torn2

\* Some whole frame lies in the cells of b after position p.
HoldsFrame(b, p) ==
    \E r \in Records : \E q \in p..(Len(b) - Len(Frame(r))) :
        SubSeq(b, q + 1, q + Len(Frame(r))) = Frame(r)

(***************************************************************************)
(* The cut before an append never removes an intact record, whatever       *)
(* crashes, power losses and damage came before ("this never cuts one",    *)
(* append_blocking).                                                       *)
(***************************************************************************)
CutNeverRemovesARecord ==
    [][\A w \in Writers : call[w] = "locked" /\ call'[w] = "writing" =>
          ~HoldsFrame(file, Len(file'))]_fileVars
=============================================================================
