----------------------------- MODULE DurableLog -----------------------------
(***************************************************************************)
(* What an AppendLogStore promises its callers: the abstract log that      *)
(* AppendLog implements at the level of the file's contents.  An append    *)
(* adds its record at the end, then its caller is told the sequence        *)
(* number.  A fault may drop records from the end, and may leave a log     *)
(* that refuses every call; it may not take back a promise.                *)
(***************************************************************************)
EXTENDS Naturals, Sequences

CONSTANT Writers       \* threads and processes that append to this log

Modes == {"disk", "os_buffer"}

VARIABLES
    mode,      \* append_log_sync of the store
    log,       \* the records read_from() would return, or would have returned
    refused,   \* the log is damaged: read_from() and append() return an error
    waived,    \* a power loss hit a store that only promises to survive a crash
    promised,  \* <<seq, record>> of every append that reported success
    at         \* at[w]: the sequence number w's record got, 0 when it has none

logVars == <<mode, log, refused, waived, promised, at>>

LogInit ==
    /\ mode \in Modes
    /\ log = <<>>
    /\ refused = FALSE
    /\ waived = FALSE
    /\ promised = {}
    /\ at = [w \in Writers |-> 0]

\* w's record becomes part of the log: from here a reader sees it.
Commit(w, r) ==
    /\ at[w] = 0
    /\ at' = [at EXCEPT ![w] = Len(log) + 1]
    /\ log' = Append(log, r)
    /\ ~refused
    /\ UNCHANGED <<mode, refused, waived, promised>>

\* append() returns the sequence number.
Promise(w, r) ==
    /\ at[w] # 0
    /\ promised' = promised \cup {<<at[w], r>>}
    /\ at' = [at EXCEPT ![w] = 0]
    /\ UNCHANGED <<mode, log, refused, waived>>

\* append() returns an error, or w's process dies; the record may be in the log.
Abandon(w) ==
    /\ at' = [at EXCEPT ![w] = 0]
    /\ UNCHANGED <<mode, log, refused, waived, promised>>

\* Every promise is still kept: the record is at its sequence number.
Kept(l) == \A p \in promised : p[1] \in 1..Len(l) /\ l[p[1]] = p[2]

\* The machine loses power.
PowerLoss ==
    /\ \E n \in 0..Len(log) :
          /\ log' = SubSeq(log, 1, n)
          /\ refused' \in BOOLEAN
          /\ waived' \in BOOLEAN
          /\ waived => waived'
          /\ waived' => mode = "os_buffer"
          /\ refused' \/ waived' \/ Kept(log')
    /\ at' = [w \in Writers |-> 0]
    /\ UNCHANGED <<mode, promised>>

\* Bytes of the file at rest change: the log refuses every call from now on.
Damage ==
    /\ \A w \in Writers : at[w] = 0
    /\ refused' = TRUE
    /\ \E n \in 0..Len(log) : log' = SubSeq(log, 1, n)
    /\ UNCHANGED <<mode, waived, promised, at>>

-----------------------------------------------------------------------------
(***************************************************************************)
(* The log keeps its word: unless it refuses calls, every record whose     *)
(* append reported success is at the sequence number that was returned, so *)
(* no number is ever given to two records (SeqNo, append_log_store.hpp:    *)
(* never reused, even across a store restart).                             *)
(***************************************************************************)
PromisesKept ==
    refused \/ waived \/
        /\ Kept(log)
        /\ \A p, q \in promised : p[1] = q[1] => p = q
=============================================================================
