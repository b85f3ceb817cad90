------------------------ MODULE BackgroundJobsProofs ------------------------
(***************************************************************************)
(* The background job runner (rt/background_job_runner.hpp) for every set  *)
(* of jobs, owners and workers, every ceiling and every bound on pending   *)
(* jobs: the per-owner ceiling and the global bound are never exceeded,    *)
(* the sink is silent after shutdown, a stopped run's cancel reaches every *)
(* linked job, and the events of a job can be put in order by their        *)
(* numbers. The invariant behind them says that every book of the runner   *)
(* is exact: live counts the unfinished jobs, the queue holds the queued   *)
(* ones, each busy worker has a job of its own.                            *)
(***************************************************************************)
EXTENDS BackgroundJobs, FiniteSetTheorems, TLAPS

(* What shutdown() establishes about the sink before it returns.           *)
SinkInv ==
    /\ down \in {"draining", "returned"} => ~sinkOn
    /\ down = "returned" => calling = {}

(* w holds a job.                                                          *)
Busy(w) == wpc[w] \in {"invoke", "finish"}

(* The jobs that live counts.                                              *)
Unfinished == {j \in Jobs : st[j] \in Active}

(* Those that count against the ceiling of o.                              *)
UnfinishedOf(o) == {j \in Jobs : OwnerOf[j] = o /\ st[j] \in Active}

(* The types the proof needs.                                              *)
JobsTypeOK ==
    /\ st \in [Jobs -> {"none"} \cup Active \cup Terminal]
    /\ seq \in [Jobs -> Nat] /\ stopReq \in [Jobs -> BOOLEAN]
    /\ cascade \in [Jobs -> {"none", "armed", "dropped"}]
    /\ known \subseteq Jobs /\ fired \subseteq Jobs
    /\ queue \in Seq(Jobs) /\ terminalOrder \in Seq(Jobs) /\ live \in Nat
    /\ spc \in [Jobs -> {"new", "registering", "done"}]
    /\ wpc \in [Workers -> {"idle", "invoke", "finish", "exited"}]
    /\ wjob \in [Workers -> Jobs \cup {NoJob}]

(* The queue holds the queued jobs, each once.                             *)
QueueExact ==
    /\ \A j \in Jobs : st[j] = "queued" <=> \E i \in 1..Len(queue) : queue[i] = j
    /\ \A i, k \in 1..Len(queue) : queue[i] = queue[k] => i = k

(* A busy worker has an unfinished job, and nobody else has the same one.  *)
WorkersHold ==
    /\ \A w \in Workers : Busy(w) =>
         wjob[w] \in Jobs /\ st[wjob[w]] \in {"running", "cancel_requested"}
    /\ \A v, w \in Workers : Busy(v) /\ Busy(w) /\ wjob[v] = wjob[w] => v = w

(* Unfinished jobs are in the table; retention only ever forgets ended     *)
(* ones.                                                                   *)
KnownExact ==
    /\ \A j \in Jobs : st[j] \in Active => j \in known
    /\ \A j \in known : st[j] # "none"
    /\ \A i \in 1..Len(terminalOrder) : st[terminalOrder[i]] \in Terminal

(* A job not submitted yet has no state, no number and no callback.        *)
Fresh ==
    \A j \in Jobs : /\ spc[j] = "new" <=> st[j] = "none"
                    /\ st[j] = "none" => /\ j \notin fired /\ cascade[j] # "armed"
                                         /\ seq[j] = 0

(* live is exact and both bounds hold.                                     *)
Counts ==
    /\ IsFiniteSet(Unfinished) /\ live = Cardinality(Unfinished) /\ live <= MaxPending
    /\ \A o \in Owners : Cardinality(UnfinishedOf(o)) <= Ceiling[o]

(* A fired cascade has asked its job to stop, and a linked job's callback  *)
(* stays armed until the job ends.                                         *)
CascadeKept ==
    \A j \in Jobs :
        /\ st[j] = "cancel_requested" => stopReq[j]
        /\ st[j] \in Active /\ j \in fired => stopReq[j]
        /\ j \in Linked /\ st[j] \in Active /\ spc[j] = "done" => cascade[j] = "armed"

(* The inductive invariant of the table.                                   *)
JobsInv ==
    /\ JobsTypeOK /\ QueueExact /\ WorkersHold /\ KnownExact /\ Fresh /\ Counts
    /\ CascadeKept

-----------------------------------------------------------------------------
(* SinkInv is an invariant.                                                *)
LEMMA SinkInvariance == Spec => []SinkInv
<1>1. Init => SinkInv
  BY Zenon DEF Init, SinkInv
<1>2. SinkInv /\ [Next]_vars => SinkInv'
  <2> SUFFICES ASSUME SinkInv, [Next]_vars PROVE SinkInv'
    BY Zenon
  <2>1. CASE UNCHANGED <<sinkOn, calling, down>>
    BY <2>1, Zenon DEF SinkInv
  <2>2. ASSUME NEW b \in outbox, EmitBegin(b) PROVE SinkInv'
    BY <2>2, Zenon DEF EmitBegin, SinkInv
  <2>3. ASSUME NEW b \in calling, EmitEnd(b) PROVE SinkInv'
    BY <2>3, Zenon DEF EmitEnd, SinkInv
  <2>4. CASE ShutdownBegin
    <3>1. down' = "waiting"
      BY <2>4, Zenon DEF ShutdownBegin
    <3> QED BY <3>1, Zenon DEF SinkInv
  <2>5. CASE ShutdownDisablesSink
    BY <2>5, Zenon DEF ShutdownDisablesSink, SinkInv
  <2>6. CASE ShutdownReturns
    BY <2>6, Zenon DEF ShutdownReturns, SinkInv, sinkVars
  <2>7. ASSUME NEW j \in Jobs, Submit(j) \/ Cancel(j) \/ FireCascade(j) \/ RegisterCascade(j)
        PROVE  UNCHANGED <<sinkOn, calling, down>>
    BY <2>7, Zenon DEF Submit, Cancel, FireCascade, RegisterCascade
  <2>8. ASSUME NEW o \in Owners, StopRun(o) PROVE UNCHANGED <<sinkOn, calling, down>>
    BY <2>8, ZenonT(60) DEF StopRun, sinkVars
  <2>9. ASSUME NEW w \in Workers, WorkerStep(w) \/ ReportProgress(w)
        PROVE  UNCHANGED <<sinkOn, calling, down>>
    BY <2>9, Zenon DEF WorkerStep, TakeJob, FinishJob, WorkerExits, ToolReturns,
                       ReportProgress, sinkVars
  <2>10. CASE UNCHANGED vars
    BY <2>1, <2>10, ZenonT(60) DEF vars, sinkVars
  <2> QED BY <2>1, <2>2, <2>3, <2>4, <2>5, <2>6, <2>7, <2>8, <2>9, <2>10, ZenonT(60) DEF Next
<1> QED BY <1>1, <1>2, PTL DEF Spec

(* Once shutdown() has returned nobody is inside the sink and nobody calls *)
(* it again (sink_enabled and sink_calls_in_flight of emit and shutdown).  *)
THEOREM SilentAfterShutdown == Spec => []SinkSilent
<1>1. SinkInv => SinkSilent
  BY Zenon DEF SinkInv, SinkSilent
<1> QED BY <1>1, SinkInvariance, PTL

-----------------------------------------------------------------------------
(* What is left of a sequence when its first k elements are dropped.       *)
LEMMA SuffixElements ==
  ASSUME NEW S, NEW q \in Seq(S), NEW k \in 0..Len(q)
  PROVE  /\ SubSeq(q, k + 1, Len(q)) \in Seq(S)
         /\ Len(SubSeq(q, k + 1, Len(q))) = Len(q) - k
         /\ \A i \in 1..(Len(q) - k) :
                i + k \in 1..Len(q) /\ SubSeq(q, k + 1, Len(q))[i] = q[i + k]
OBVIOUS

(* The first k elements of a sequence.                                     *)
LEMMA PrefixElements ==
  ASSUME NEW S, NEW q \in Seq(S), NEW k \in 0..Len(q)
  PROVE  /\ SubSeq(q, 1, k) \in Seq(S) /\ Len(SubSeq(q, 1, k)) = k
         /\ \A i \in 1..k : SubSeq(q, 1, k)[i] = q[i]
OBVIOUS

(* An element of a concatenation comes from one of its parts.              *)
LEMMA JoinedElements ==
  ASSUME NEW S, NEW a \in Seq(S), NEW b \in Seq(S)
  PROVE  \A i \in 1..Len(a \o b) : \/ \E n \in 1..Len(a) : (a \o b)[i] = a[n]
                                   \/ \E n \in 1..Len(b) : (a \o b)[i] = b[n]
<1>1. a \o b \in Seq(S) /\ Len(a \o b) = Len(a) + Len(b)
  BY SMTT(60)
<1>2. ASSUME NEW i \in 1..Len(a \o b)
      PROVE  \/ \E n \in 1..Len(a) : (a \o b)[i] = a[n]
             \/ \E n \in 1..Len(b) : (a \o b)[i] = b[n]
  <2>1. CASE i <= Len(a)
    BY <1>1, <2>1, SMTT(60)
  <2>2. CASE i > Len(a)
    <3>1. i - Len(a) \in 1..Len(b) /\ (a \o b)[i] = b[i - Len(a)]
      BY <1>1, <2>2, SMTT(60)
    <3> QED BY <3>1, ZenonT(60)
  <2> QED BY <1>1, <2>1, <2>2, SMTT(60)
<1> QED BY <1>2, Zenon

(* Where it comes from.                                                    *)
LEMMA ConcatElements ==
  ASSUME NEW S, NEW a \in Seq(S), NEW b \in Seq(S)
  PROVE  /\ a \o b \in Seq(S) /\ Len(a \o b) = Len(a) + Len(b)
         /\ \A i \in 1..(Len(a) + Len(b)) :
                (a \o b)[i] = IF i <= Len(a) THEN a[i] ELSE b[i - Len(a)]
BY SMTT(60)

(* q without its element at `at`.                                          *)
Cut(q, at) == SubSeq(q, 1, at - 1) \o SubSeq(q, at + 1, Len(q))

(* The elements of the cut sequence.                                       *)
LEMMA CutElements ==
  ASSUME NEW S, NEW q \in Seq(S), NEW at \in 1..Len(q)
  PROVE  /\ Cut(q, at) \in Seq(S) /\ Len(Cut(q, at)) = Len(q) - 1
         /\ \A i \in 1..Len(Cut(q, at)) : Cut(q, at)[i] = IF i < at THEN q[i] ELSE q[i + 1]
<1>0. PICK t : t = Cut(q, at)
  BY Zenon
<1>1. PICK u, v : u = SubSeq(q, 1, at - 1) /\ v = SubSeq(q, at + 1, Len(q)) /\ t = u \o v
  BY <1>0, Zenon DEF Cut
<1>2. at - 1 \in 0..Len(q) /\ at \in 0..Len(q) /\ Len(q) \in Nat /\ at \in Nat
  OBVIOUS
<1>3. /\ u \in Seq(S) /\ Len(u) = at - 1
      /\ \A i \in 1..(at - 1) : u[i] = q[i]
  BY ONLY q \in Seq(S), <1>1, <1>2, PrefixElements, ZenonT(60)
<1>4. /\ v \in Seq(S) /\ Len(v) = Len(q) - at
      /\ \A i \in 1..(Len(q) - at) : v[i] = q[i + at]
  BY ONLY q \in Seq(S), <1>1, <1>2, SuffixElements, ZenonT(60)
<1>5. /\ u \o v \in Seq(S) /\ Len(u \o v) = Len(u) + Len(v)
      /\ \A i \in 1..(Len(u) + Len(v)) : (u \o v)[i] = IF i <= Len(u) THEN u[i] ELSE v[i - Len(u)]
  BY ONLY <1>3, <1>4, ConcatElements, ZenonT(60)
<1>6. t \in Seq(S) /\ Len(t) = Len(q) - 1
  <2>1. t \in Seq(S) /\ Len(t) = Len(u) + Len(v)
    BY <1>1, <1>5, ZenonT(60)
  <2> QED BY ONLY <1>2, <1>3, <1>4, <2>1, SMTT(60)
<1>7. ASSUME NEW i \in 1..Len(t) PROVE t[i] = IF i < at THEN q[i] ELSE q[i + 1]
  <2>1. i \in 1..(Len(u) + Len(v)) /\ i \in 1..(Len(q) - 1)
    BY ONLY <1>2, <1>3, <1>4, <1>6, <1>7, SMTT(60)
  <2>2. t[i] = IF i <= Len(u) THEN u[i] ELSE v[i - Len(u)]
    BY <1>1, <1>5, <2>1, ZenonT(60)
  <2>3. CASE i < at
    <3>1. i \in 1..(at - 1) /\ i <= Len(u)
      BY ONLY <1>2, <1>3, <2>1, <2>3, SMTT(60)
    <3> QED BY <1>3, <2>2, <2>3, <3>1, ZenonT(60)
  <2>4. CASE ~(i < at)
    <3>1. ~(i <= Len(u)) /\ i - Len(u) \in 1..(Len(q) - at) /\ (i - Len(u)) + at = i + 1
      BY ONLY <1>2, <1>3, <2>1, <2>4, SMTT(60)
    <3> QED BY <1>4, <2>2, <2>4, <3>1, ZenonT(60)
  <2> QED BY <2>3, <2>4, SMTT(60)
<1> QED BY <1>0, <1>6, <1>7, ZenonT(60)

(* finish_locked's retention: the jobs js join the ended ones, and the     *)
(* oldest beyond the bound are forgotten.                                  *)
Retires(js) ==
    LET order == terminalOrder \o js
        over == Over(order)
    IN  /\ terminalOrder' = SubSeq(order, over + 1, Len(order))
        /\ known' = known \ {order[i] : i \in 1..over}

(* Retention forgets ended jobs only.                                      *)
LEMMA RetireKnown ==
  ASSUME JobsTypeOK, KnownExact, NEW js \in Seq(Jobs),
         st' \in [Jobs -> {"none"} \cup Active \cup Terminal],
         \A i \in 1..Len(js) : st'[js[i]] \in Terminal,
         \A j \in Jobs : /\ st[j] \in Terminal => st'[j] \in Terminal
                         /\ st'[j] \in Active => st[j] \in Active
                         /\ st[j] # "none" => st'[j] # "none",
         Retires(js)
  PROVE  KnownExact' /\ terminalOrder' \in Seq(Jobs) /\ known' \subseteq Jobs
<1>0. PICK order, over :
        /\ order = terminalOrder \o js /\ over = Over(order)
        /\ terminalOrder' = SubSeq(order, over + 1, Len(order))
        /\ known' = known \ {order[i] : i \in 1..over}
  BY Zenon DEF Retires
<1>1. terminalOrder \in Seq(Jobs) /\ known \subseteq Jobs
  BY Zenon DEF JobsTypeOK
<1>2. order \in Seq(Jobs)
  BY <1>0, <1>1, SMTT(60)
<1>3. over \in 0..Len(order)
  BY <1>0, <1>2, JobsAssumption, SMTT(60) DEF Over
<1>4. /\ terminalOrder' \in Seq(Jobs)
      /\ \A i \in 1..Len(order) : \/ \E n \in 1..Len(terminalOrder) : order[i] = terminalOrder[n]
                                  \/ \E n \in 1..Len(js) : order[i] = js[n]
      /\ \A i \in 1..Len(terminalOrder') :
             i + over \in 1..Len(order) /\ terminalOrder'[i] = order[i + over]
  <2>1. /\ terminalOrder' \in Seq(Jobs) /\ Len(terminalOrder') = Len(order) - over
        /\ \A i \in 1..(Len(order) - over) :
             i + over \in 1..Len(order) /\ terminalOrder'[i] = order[i + over]
    BY ONLY <1>2, <1>3, SuffixElements, <1>0, ZenonT(60)
  <2>2. \A i \in 1..Len(order) : \/ \E n \in 1..Len(terminalOrder) : order[i] = terminalOrder[n]
                                 \/ \E n \in 1..Len(js) : order[i] = js[n]
    <3>1. \A i \in 1..Len(terminalOrder \o js) :
            \/ \E n \in 1..Len(terminalOrder) : (terminalOrder \o js)[i] = terminalOrder[n]
            \/ \E n \in 1..Len(js) : (terminalOrder \o js)[i] = js[n]
      BY ONLY <1>1, js \in Seq(Jobs), JoinedElements, SMT
    <3> QED BY <1>0, <3>1, Zenon
  <2> QED BY ONLY <2>1, <2>2, Zenon
<1>5. \A i \in 1..Len(terminalOrder) : terminalOrder[i] \in Jobs
  BY <1>1
<1>6. \A i \in 1..Len(order) : st'[order[i]] \in Terminal
  <2> SUFFICES ASSUME NEW i \in 1..Len(order) PROVE st'[order[i]] \in Terminal
    BY Zenon
  <2>1. CASE \E n \in 1..Len(terminalOrder) : order[i] = terminalOrder[n]
    <3>1. PICK n \in 1..Len(terminalOrder) : order[i] = terminalOrder[n]
      BY <2>1, Zenon
    <3>2. st[terminalOrder[n]] \in Terminal
      BY Zenon DEF KnownExact
    <3> QED BY <1>5, <3>1, <3>2, Zenon
  <2>2. CASE \E n \in 1..Len(js) : order[i] = js[n]
    BY <2>2, ZenonT(60)
  <2> QED BY <1>4, <2>1, <2>2, Zenon
<1>7. \A i \in 1..over : i \in 1..Len(order)
  BY <1>2, <1>3
<1>8. \A j \in Jobs : st'[j] \in Active => j \in known'
  BY <1>0, <1>6, <1>7, ZenonT(60) DEF KnownExact, Active, Terminal
<1>9. \A j \in known' : st'[j] # "none"
  BY <1>0, <1>1, Zenon DEF KnownExact
<1>10. \A i \in 1..Len(terminalOrder') : st'[terminalOrder'[i]] \in Terminal
  BY ONLY <1>4, <1>6, Zenon
<1> QED BY <1>0, <1>1, <1>4, <1>8, <1>9, <1>10, ZenonT(60) DEF KnownExact

(* A sequence without repetitions is as long as its set of elements.       *)
LEMMA DistinctLength ==
  ASSUME NEW S, NEW q \in Seq(S), \A i, k \in 1..Len(q) : q[i] = q[k] => i = k
  PROVE  Cardinality({q[i] : i \in 1..Len(q)}) = Len(q)
<1>0. PICK Q : Q = {q[i] : i \in 1..Len(q)}
  BY Zenon
<1>1. Len(q) \in Nat /\ q = [i \in 1..Len(q) |-> q[i]] /\ DOMAIN q = 1..Len(q)
  OBVIOUS
<1>2. 1 \in Int /\ Len(q) \in Int
  BY <1>1
<1>3. IsFiniteSet(1..Len(q)) /\ Cardinality(1..Len(q)) = IF 1 > Len(q) THEN 0 ELSE Len(q) - 1 + 1
  BY <1>2, FS_Interval, ZenonT(60)
<1>4. Cardinality(1..Len(q)) = Len(q)
  BY ONLY <1>1, <1>3, SMTT(60)
<1>5. q \in [1..Len(q) -> Q]
  BY <1>0, <1>1, ZenonT(60)
<1>6. q \in Injection(1..Len(q), Q)
  BY <1>1, <1>5, ZenonT(60) DEF Injection, IsInjective
<1>7. q \in Surjection(1..Len(q), Q)
  BY <1>0, <1>5, Zenon DEF Surjection
<1>8. ExistsBijection(1..Len(q), Q)
  BY <1>6, <1>7, ZenonT(60) DEF ExistsBijection, Bijection
<1> QED BY <1>0, <1>3, <1>4, <1>8, FS_Bijection, Zenon

(* The jobs Q end and live is stepped down by their number.                *)
LEMMA FewerCounts ==
  ASSUME Counts, NEW Q, Q \subseteq Unfinished,
         Unfinished' = Unfinished \ Q, live' = live - Cardinality(Q)
  PROVE  Counts' /\ live' \in Nat
<1>1. /\ IsFiniteSet(Unfinished) /\ IsFiniteSet(Q)
      /\ live = Cardinality(Unfinished) /\ live <= MaxPending /\ MaxPending \in Nat
  BY FS_Subset, JobsAssumption, ZenonT(60) DEF Counts
<1>2. /\ IsFiniteSet(Unfinished') /\ Cardinality(Unfinished') \in Nat
      /\ Cardinality(Q) \in Nat /\ Cardinality(Unfinished) \in Nat
      /\ Cardinality(Unfinished \ Q) = Cardinality(Unfinished) - Cardinality(Unfinished \cap Q)
  BY <1>1, FS_Difference, FS_CardinalityType, ZenonT(60)
<1>3. Unfinished \cap Q = Q
  BY Zenon
<1>4. live' = Cardinality(Unfinished') /\ live' <= MaxPending
  <2>1. Cardinality(Unfinished') = live - Cardinality(Q) /\ live \in Nat
    BY <1>1, <1>2, <1>3, Zenon
  <2> QED BY ONLY <1>1, <1>2, <2>1, live' = live - Cardinality(Q), SMTT(60)
<1>5. ASSUME NEW o \in Owners PROVE Cardinality(UnfinishedOf(o)') <= Ceiling[o]
  <2>1. UnfinishedOf(o) \subseteq Unfinished /\ UnfinishedOf(o)' \subseteq UnfinishedOf(o)
    BY Zenon DEF Unfinished, UnfinishedOf
  <2>2. IsFiniteSet(UnfinishedOf(o)) /\ IsFiniteSet(UnfinishedOf(o)')
    BY <1>1, <2>1, FS_Subset, Zenon
  <2>3. Cardinality(UnfinishedOf(o)') <= Cardinality(UnfinishedOf(o))
    BY <2>1, <2>2, FS_Subset, Zenon
  <2>4. /\ Cardinality(UnfinishedOf(o)') \in Nat /\ Cardinality(UnfinishedOf(o)) \in Nat
        /\ Ceiling[o] \in Nat /\ Cardinality(UnfinishedOf(o)) <= Ceiling[o]
    BY <2>2, FS_CardinalityType, JobsAssumption, Zenon DEF Counts
  <2> QED BY <2>3, <2>4, SMTT(60)
<1> QED BY <1>2, <1>4, <1>5, ZenonT(60) DEF Counts

(* No job starts or ends.                                                  *)
LEMMA SameCounts ==
  ASSUME Counts, live' = live, \A j \in Jobs : st'[j] \in Active <=> st[j] \in Active
  PROVE  Counts'
<1>1. Unfinished' = Unfinished /\ \A o \in Owners : UnfinishedOf(o)' = UnfinishedOf(o)
  BY Zenon DEF Unfinished, UnfinishedOf, Active
<1> QED BY <1>1, Zenon DEF Counts

(* No job joins or leaves the queue.                                       *)
LEMMA SameQueue ==
  ASSUME QueueExact, queue' = queue, \A k \in Jobs : st'[k] = "queued" <=> st[k] = "queued"
  PROVE  QueueExact'
<1>1. \A i, k \in 1..Len(queue') : queue'[i] = queue'[k] => i = k
  BY ZenonT(60) DEF QueueExact
<1>2. \A j \in Jobs : st'[j] = "queued" <=> \E i \in 1..Len(queue') : queue'[i] = j
  BY Zenon DEF QueueExact
<1> QED BY <1>1, <1>2, Zenon DEF QueueExact

(* The workers keep their jobs.                                            *)
LEMMA SameHold ==
  ASSUME WorkersHold, UNCHANGED <<wpc, wjob>>,
         \A k \in Jobs : st[k] \in {"running", "cancel_requested"}
                         => st'[k] \in {"running", "cancel_requested"}
  PROVE  WorkersHold'
BY Zenon DEF WorkersHold, Busy

(* The table is left alone.                                                *)
LEMMA SameJobs ==
  ASSUME JobsInv, UNCHANGED <<st, queue, live, terminalOrder, known, wpc, wjob>>
  PROVE  QueueExact' /\ WorkersHold' /\ KnownExact' /\ Counts'
<1> USE DEF JobsInv
<1>1. QueueExact'
  BY SameQueue, Zenon
<1>2. WorkersHold'
  BY Zenon DEF WorkersHold, Busy
<1>3. KnownExact'
  BY Zenon DEF KnownExact
<1>4. Counts'
  BY SameCounts, Zenon
<1> QED BY <1>1, <1>2, <1>3, <1>4, ZenonT(60)

(* finish_locked for one job.                                              *)
LEMMA FinishOne ==
  ASSUME JobsInv, NEW j \in Jobs, st[j] \in Active, NEW to \in Terminal, FinishLocked(<<j>>, to)
  PROVE  /\ st' \in [Jobs -> {"none"} \cup Active \cup Terminal] /\ st'[j] = to
         /\ \A k \in Jobs \ {j} : st'[k] = st[k] /\ cascade'[k] = cascade[k] /\ seq'[k] = seq[k]
         /\ seq' \in [Jobs -> Nat]
         /\ cascade' \in [Jobs -> {"none", "armed", "dropped"}]
         /\ terminalOrder' \in Seq(Jobs) /\ known' \subseteq Jobs /\ live' \in Nat
         /\ KnownExact' /\ Counts'
<1> USE DEF JobsInv
<1>1. <<j>> \in Seq(Jobs) /\ Len(<<j>>) = 1 /\ 1..1 = {1} /\ <<j>>[1] = j
  OBVIOUS
<1>2. {<<j>>[i] : i \in 1..Len(<<j>>)} = {j}
  BY <1>1, Zenon
<1>3. /\ st' = [k \in Jobs |-> IF k \in {j} THEN to ELSE st[k]]
      /\ seq' = Bump({j})
      /\ live' = live - Len(<<j>>)
      /\ cascade' = [k \in Jobs |-> IF k \in {j} THEN "dropped" ELSE cascade[k]]
  BY <1>2, Zenon DEF FinishLocked
<1>4. Retires(<<j>>)
  BY Zenon DEF FinishLocked, Retires
<1>6. /\ st' \in [Jobs -> {"none"} \cup Active \cup Terminal] /\ st'[j] = to
      /\ \A k \in Jobs \ {j} : st'[k] = st[k] /\ cascade'[k] = cascade[k]
      /\ cascade' \in [Jobs -> {"none", "armed", "dropped"}]
  BY <1>3, Zenon DEF JobsTypeOK
<1>7. seq' \in [Jobs -> Nat] /\ \A k \in Jobs \ {j} : seq'[k] = seq[k]
  <2>1. seq \in [Jobs -> Nat]
    BY Zenon DEF JobsTypeOK
  <2> QED BY <1>3, <2>1, SMTT(60) DEF Bump
<1>8. \A k \in Jobs : /\ st[k] \in Terminal => st'[k] \in Terminal
                      /\ st'[k] \in Active => st[k] \in Active
                      /\ st[k] # "none" => st'[k] # "none"
  BY <1>6, Zenon DEF Active, Terminal
<1>9. \A i \in 1..Len(<<j>>) : st'[<<j>>[i]] \in Terminal
  BY <1>1, <1>6, Zenon
<1>10. KnownExact' /\ terminalOrder' \in Seq(Jobs) /\ known' \subseteq Jobs
  BY <1>1, <1>4, <1>6, <1>8, <1>9, RetireKnown, ZenonT(60)
<1>11. Unfinished' = Unfinished \ {j} /\ {j} \subseteq Unfinished
  BY <1>6, Zenon DEF Unfinished, Active, Terminal
<1>12. live' = live - Cardinality({j})
  BY <1>1, <1>3, FS_Singleton, Zenon
<1>13. Counts' /\ live' \in Nat
  BY <1>11, <1>12, FewerCounts, ZenonT(60)
<1> QED BY <1>6, <1>7, <1>10, <1>13, ZenonT(60)

(* It numbers and changes that job only.                                   *)
LEMMA FinishedAlone ==
  ASSUME NEW j \in Jobs, NEW to, FinishLocked(<<j>>, to)
  PROVE  seq' = Bump({j}) /\ \A k \in Jobs \ {j} : st'[k] = st[k]
<1>1. Len(<<j>>) = 1 /\ 1..1 = {1} /\ <<j>>[1] = j
  OBVIOUS
<1>2. {<<j>>[i] : i \in 1..Len(<<j>>)} = {j}
  BY <1>1, Zenon
<1> QED BY <1>2, Zenon DEF FinishLocked

(* A job cancelled while queued leaves the queue, and nobody else does.    *)
LEMMA QueueCut ==
  ASSUME JobsInv, NEW j \in Jobs, st[j] = "queued", queue' = QueueWithout(j)
  PROVE  /\ queue' \in Seq(Jobs)
         /\ \A k \in Jobs : (\E i \in 1..Len(queue') : queue'[i] = k) <=> st[k] = "queued" /\ k # j
         /\ \A i, k \in 1..Len(queue') : queue'[i] = queue'[k] => i = k
<1> USE DEF JobsInv
<1>1. \E i \in 1..Len(queue) : queue[i] = j
  BY Zenon DEF QueueExact
<1>2. PICK at : at = CHOOSE i \in 1..Len(queue) : queue[i] = j
  BY Zenon
<1>3. at \in 1..Len(queue) /\ queue[at] = j
  BY <1>1, <1>2, ZenonT(60)
<1>4. queue \in Seq(Jobs) /\ Len(queue) \in Nat /\ at \in Nat
  BY <1>3 DEF JobsTypeOK
<1>5. queue' = Cut(queue, at)
  BY <1>2, Zenon DEF QueueWithout, Cut
<1>6. /\ queue' \in Seq(Jobs) /\ Len(queue') = Len(queue) - 1
      /\ \A i \in 1..Len(queue') : queue'[i] = IF i < at THEN queue[i] ELSE queue[i + 1]
  BY ONLY <1>3, <1>4, <1>5, CutElements, ZenonT(60)
<1>7. \A i, k \in 1..Len(queue) : queue[i] = queue[k] => i = k
  BY Zenon DEF QueueExact
<1>8. \A i \in 1..Len(queue') : /\ i \in 1..Len(queue) /\ i + 1 \in 1..Len(queue) /\ i \in Nat
                                /\ (i < at => i # at) /\ (~(i < at) => i + 1 # at)
  BY ONLY <1>4, <1>6, SMTT(60)
<1>9. ASSUME NEW i \in 1..Len(queue'), NEW k \in 1..Len(queue'), queue'[i] = queue'[k]
      PROVE  i = k
  BY ONLY <1>3, <1>4, <1>6, <1>7, <1>8, <1>9, SMTT(60)
<1>10. ASSUME NEW k \in Jobs, NEW i \in 1..Len(queue'), queue'[i] = k
       PROVE  st[k] = "queued" /\ k # j
  <2>1. PICK n \in 1..Len(queue) : queue[n] = k /\ n # at
    BY <1>6, <1>8, <1>10, ZenonT(60)
  <2> QED BY <1>3, <1>7, <2>1, Zenon DEF QueueExact
<1>11. ASSUME NEW k \in Jobs, st[k] = "queued", k # j
       PROVE  \E i \in 1..Len(queue') : queue'[i] = k
  <2>1. PICK n \in 1..Len(queue) : queue[n] = k
    BY <1>11, ZenonT(60) DEF QueueExact
  <2>2. n # at
    BY <1>3, <1>11, <2>1, ZenonT(60)
  <2>3. CASE n < at
    <3>1. n \in 1..Len(queue')
      BY ONLY <1>3, <1>4, <1>6, <2>3, n \in 1..Len(queue), SMTT(60)
    <3> QED BY <1>6, <2>1, <2>3, <3>1, ZenonT(60)
  <2>4. CASE ~(n < at)
    <3>1. n - 1 \in 1..Len(queue') /\ ~(n - 1 < at) /\ (n - 1) + 1 = n
      BY ONLY <1>3, <1>4, <1>6, <2>2, <2>4, n \in 1..Len(queue), SMTT(60)
    <3> QED BY <1>6, <2>1, <3>1, ZenonT(60)
  <2> QED BY <2>3, <2>4, SMTT(60)
<1> QED BY <1>6, <1>9, <1>10, <1>11, ZenonT(60)

(* request_cancel, from cancel() or from a fired cascade.                  *)
LEMMA RequestInv ==
  ASSUME JobsInv, NEW j \in Jobs, RequestCancel(j),
         UNCHANGED <<spc, wpc, wjob>>, fired' \in {fired, fired \cup {j}}
  PROVE  JobsInv'
<1> USE DEF JobsInv
<1>1. fired' \subseteq Jobs /\ \A k \in Jobs \ {j} : k \in fired' <=> k \in fired
  BY Zenon DEF JobsTypeOK
<1>2. CASE st[j] = "queued"
  <2>1. /\ queue' = QueueWithout(j) /\ stopReq' = [stopReq EXCEPT ![j] = TRUE]
        /\ FinishLocked(<<j>>, "canceled")
    BY <1>2, Zenon DEF RequestCancel
  <2>2. st[j] \in Active /\ "canceled" \in Terminal
    BY <1>2, Zenon DEF Active, Terminal
  <2>3. /\ st' \in [Jobs -> {"none"} \cup Active \cup Terminal] /\ st'[j] = "canceled"
        /\ \A k \in Jobs \ {j} : st'[k] = st[k] /\ cascade'[k] = cascade[k] /\ seq'[k] = seq[k]
        /\ seq' \in [Jobs -> Nat]
        /\ cascade' \in [Jobs -> {"none", "armed", "dropped"}]
        /\ terminalOrder' \in Seq(Jobs) /\ known' \subseteq Jobs /\ live' \in Nat
        /\ KnownExact' /\ Counts'
    BY <2>1, <2>2, FinishOne, ZenonT(60)
  <2>4. /\ queue' \in Seq(Jobs)
        /\ \A k \in Jobs : (\E i \in 1..Len(queue') : queue'[i] = k) <=> st[k] = "queued" /\ k # j
        /\ \A i, k \in 1..Len(queue') : queue'[i] = queue'[k] => i = k
    BY <1>2, <2>1, QueueCut, ZenonT(60)
  <2>5. stopReq' \in [Jobs -> BOOLEAN] /\ \A k \in Jobs \ {j} : stopReq'[k] = stopReq[k]
    BY <2>1, Zenon DEF JobsTypeOK
  <2>6. JobsTypeOK'
    BY <1>1, <2>3, <2>4, <2>5, ZenonT(60) DEF JobsTypeOK
  <2>7. QueueExact'
    BY <2>3, <2>4, ZenonT(60) DEF QueueExact
  <2>8. WorkersHold'
    <3>1. \A w \in Workers : Busy(w) => wjob[w] # j
      BY <1>2, Zenon DEF WorkersHold
    <3> QED BY <2>3, <3>1, ZenonT(60) DEF WorkersHold, Busy
  <2>9. Fresh'
    BY <1>1, <1>2, <2>3, ZenonT(60) DEF Fresh
  <2>10. CascadeKept'
    BY <1>1, <2>3, <2>5, ZenonT(60) DEF CascadeKept, Active
  <2> QED BY <2>3, <2>6, <2>7, <2>8, <2>9, <2>10, ZenonT(60)
<1>3. CASE st[j] = "running"
  <2>1. /\ st' = [st EXCEPT ![j] = "cancel_requested"] /\ seq' = Bump({j})
        /\ stopReq' = [stopReq EXCEPT ![j] = TRUE]
        /\ UNCHANGED <<queue, live, terminalOrder, known, cascade>>
    BY <1>3, Zenon DEF RequestCancel
  <2>2. /\ st' \in [Jobs -> {"none"} \cup Active \cup Terminal] /\ st'[j] = "cancel_requested"
        /\ \A k \in Jobs \ {j} : st'[k] = st[k] /\ stopReq'[k] = stopReq[k]
        /\ stopReq' \in [Jobs -> BOOLEAN] /\ stopReq'[j]
    BY <2>1, ZenonT(60) DEF JobsTypeOK, Active
  <2>3. seq' \in [Jobs -> Nat] /\ \A k \in Jobs \ {j} : seq'[k] = seq[k]
    <3>1. seq \in [Jobs -> Nat]
      BY Zenon DEF JobsTypeOK
    <3> QED BY <2>1, <3>1, SMTT(60) DEF Bump
  <2>4. JobsTypeOK'
    BY <1>1, <2>1, <2>2, <2>3, ZenonT(60) DEF JobsTypeOK
  <2>5. QueueExact'
    <3>1. \A k \in Jobs : st'[k] = "queued" <=> st[k] = "queued"
      BY <1>3, <2>2, Zenon
    <3> QED BY <2>1, <3>1, SameQueue, Zenon
  <2>6. WorkersHold'
    BY <1>3, <2>1, <2>2, ZenonT(60) DEF WorkersHold, Busy
  <2>7. KnownExact'
    <3>1. terminalOrder \in Seq(Jobs)
      BY Zenon DEF JobsTypeOK
    <3>2. \A i \in 1..Len(terminalOrder) : terminalOrder[i] \in Jobs
      BY <3>1
    <3>3. \A i \in 1..Len(terminalOrder) : terminalOrder[i] # j
      BY <1>3, <3>1, ZenonT(60) DEF KnownExact, Terminal
    <3>4. \A i \in 1..Len(terminalOrder) : st'[terminalOrder[i]] \in Terminal
      BY <2>2, <3>2, <3>3, ZenonT(60) DEF KnownExact
    <3>5. j \in known
      BY <1>3, Zenon DEF KnownExact, Active
    <3>6. \A k \in Jobs : st'[k] \in Active => k \in known
      BY <2>2, <3>5, Zenon DEF KnownExact
    <3>7. \A k \in known : st'[k] # "none"
      BY <2>2, Zenon DEF KnownExact, JobsTypeOK
    <3> QED BY <2>1, <3>4, <3>6, <3>7, ZenonT(60) DEF KnownExact
  <2>8. Fresh'
    BY <1>1, <1>3, <2>1, <2>2, <2>3, ZenonT(60) DEF Fresh
  <2>9. Counts'
    <3>1. \A k \in Jobs : st'[k] \in Active <=> st[k] \in Active
      BY <1>3, <2>2, Zenon DEF Active
    <3> QED BY <2>1, <3>1, SameCounts, Zenon
  <2>10. CascadeKept'
    BY <1>1, <1>3, <2>1, <2>2, ZenonT(60) DEF CascadeKept, Active
  <2> QED BY <2>4, <2>5, <2>6, <2>7, <2>8, <2>9, <2>10, ZenonT(60)
<1> QED BY <1>2, <1>3, Zenon DEF RequestCancel

(* A cascade that fires on an ended or forgotten job only leaves its mark. *)
LEMMA FiredInv ==
  ASSUME JobsInv, NEW j \in Jobs, st[j] # "none", fired' = fired \cup {j},
         j \notin known \/ st[j] \notin {"queued", "running"},
         UNCHANGED <<st, seq, stopReq, queue, live, terminalOrder, known, cascade, spc, wpc, wjob>>
  PROVE  JobsInv'
<1> USE DEF JobsInv
<1>1. fired' \subseteq Jobs /\ \A k \in Jobs \ {j} : k \in fired' <=> k \in fired
  BY Zenon DEF JobsTypeOK
<1>2. JobsTypeOK'
  BY <1>1, Zenon DEF JobsTypeOK
<1>3. Fresh'
  BY <1>1, Zenon DEF Fresh
<1>4. st[j] \in Active => stopReq[j]
  BY Zenon DEF CascadeKept, KnownExact, Active
<1>5. CascadeKept'
  BY <1>1, <1>4, Zenon DEF CascadeKept
<1> QED BY <1>2, <1>3, <1>5, SameJobs, ZenonT(60)

(* submit's second part keeps the callback, or drops it for an ended job.  *)
LEMMA ArmInv ==
  ASSUME JobsInv, NEW j \in Jobs, spc[j] = "registering", spc' = [spc EXCEPT ![j] = "done"],
         cascade' = [cascade EXCEPT ![j] = IF st[j] \in Terminal THEN "dropped" ELSE "armed"],
         UNCHANGED <<st, seq, stopReq, queue, live, terminalOrder, known, fired, wpc, wjob>>
  PROVE  JobsInv'
<1> USE DEF JobsInv
<1>1. /\ spc' \in [Jobs -> {"new", "registering", "done"}] /\ spc'[j] = "done"
      /\ cascade' \in [Jobs -> {"none", "armed", "dropped"}]
      /\ \A k \in Jobs \ {j} : spc'[k] = spc[k] /\ cascade'[k] = cascade[k]
      /\ cascade'[j] = IF st[j] \in Terminal THEN "dropped" ELSE "armed"
  BY Zenon DEF JobsTypeOK
<1>2. JobsTypeOK'
  BY <1>1, Zenon DEF JobsTypeOK
<1>3. Fresh'
  BY <1>1, ZenonT(60) DEF Fresh
<1>4. CascadeKept'
  BY <1>1, Zenon DEF CascadeKept, Active, Terminal
<1> QED BY <1>2, <1>3, <1>4, SameJobs, Zenon

(* Admission: both bounds are checked before the job is counted.           *)
LEMMA SubmitInv == ASSUME JobsInv, NEW j \in Jobs, Submit(j) PROVE JobsInv'
<1> USE DEF JobsInv
<1> DEFINE o == OwnerOf[j]
<1>1. /\ spc[j] = "new" /\ live < MaxPending /\ OwnerLive(o) < Ceiling[o]
      /\ known' = known \cup {j} /\ live' = live + 1
      /\ st' = [st EXCEPT ![j] = "queued"] /\ seq' = [seq EXCEPT ![j] = 1]
      /\ queue' = Append(queue, j)
      /\ spc' = [spc EXCEPT ![j] = IF j \in Linked THEN "registering" ELSE "done"]
      /\ UNCHANGED <<stopReq, cascade, terminalOrder, fired, wpc, wjob>>
  BY Zenon DEF Submit, workerVars
<1>2. st[j] = "none" /\ j \notin fired /\ cascade[j] # "armed"
  BY <1>1, Zenon DEF Fresh
<1>3. /\ st' \in [Jobs -> {"none"} \cup Active \cup Terminal] /\ st'[j] = "queued"
      /\ spc' \in [Jobs -> {"new", "registering", "done"}]
      /\ spc'[j] \in {"registering", "done"} /\ (j \in Linked => spc'[j] = "registering")
      /\ \A k \in Jobs \ {j} : st'[k] = st[k] /\ spc'[k] = spc[k] /\ seq'[k] = seq[k]
  BY <1>1, Zenon DEF JobsTypeOK, Active
<1>4. /\ queue \in Seq(Jobs) /\ live \in Nat /\ seq \in [Jobs -> Nat]
      /\ terminalOrder \in Seq(Jobs)
  BY Zenon DEF JobsTypeOK
<1>5. /\ queue' \in Seq(Jobs) /\ live' \in Nat /\ seq' \in [Jobs -> Nat]
      /\ Len(queue') = Len(queue) + 1 /\ Len(queue) \in Nat
      /\ queue'[Len(queue) + 1] = j /\ Len(queue) + 1 \in 1..Len(queue')
      /\ \A i \in 1..Len(queue) : queue'[i] = queue[i] /\ queue[i] \in Jobs /\ i \in 1..Len(queue')
      /\ \A i \in 1..Len(queue') : i \in 1..Len(queue) \/ i = Len(queue) + 1
      /\ \A i \in 1..Len(terminalOrder) : terminalOrder[i] \in Jobs
  BY <1>1, <1>4, SMTT(60)
<1>6. JobsTypeOK'
  BY <1>1, <1>3, <1>5, ZenonT(60) DEF JobsTypeOK
<1>7. QueueExact'
  <2>1. \A i \in 1..Len(queue) : queue[i] # j
    BY <1>2, <1>5, Zenon DEF QueueExact
  <2>2. ASSUME NEW i \in 1..Len(queue'), NEW k \in 1..Len(queue'), queue'[i] = queue'[k]
        PROVE  i = k
    <3>1. \A m, n \in 1..Len(queue) : queue[m] = queue[n] => m = n
      BY Zenon DEF QueueExact
    <3>2. CASE i \in 1..Len(queue) /\ k \in 1..Len(queue)
      BY <1>5, <2>2, <3>1, <3>2, Zenon
    <3>3. CASE i = Len(queue) + 1
      BY <1>5, <2>1, <2>2, <3>3, ZenonT(60)
    <3>4. CASE k = Len(queue) + 1
      BY <1>5, <2>1, <2>2, <3>4, ZenonT(60)
    <3> QED BY <1>5, <3>2, <3>3, <3>4, Zenon
  <2>3. ASSUME NEW k \in Jobs PROVE st'[k] = "queued" <=> \E i \in 1..Len(queue') : queue'[i] = k
    <3>1. CASE k = j
      BY <1>3, <1>5, <3>1, Zenon
    <3>2. CASE k # j
      <4>1. (\E i \in 1..Len(queue') : queue'[i] = k) <=> \E i \in 1..Len(queue) : queue[i] = k
        BY <1>5, <3>2, Zenon
      <4> QED BY <1>3, <3>2, <4>1, ZenonT(60) DEF QueueExact
    <3> QED BY <3>1, <3>2
  <2> QED BY <2>2, <2>3, Zenon DEF QueueExact
<1>8. WorkersHold'
  <2>2. \A k \in Jobs : st[k] \in {"running", "cancel_requested"}
                           => st'[k] \in {"running", "cancel_requested"}
    BY <1>2, <1>3, Zenon
  <2> QED BY <1>1, <2>2, SameHold, Zenon
<1>9. KnownExact'
  <2>1. \A i \in 1..Len(terminalOrder) : terminalOrder[i] # j
    BY <1>2, Zenon DEF KnownExact, Terminal
  <2>2. \A i \in 1..Len(terminalOrder) : st'[terminalOrder[i]] \in Terminal
    BY <1>3, <1>5, <2>1, Zenon DEF KnownExact
  <2>3. \A k \in Jobs : st'[k] \in Active => k \in known'
    BY <1>1, <1>3, ZenonT(60) DEF KnownExact
  <2>4. \A k \in known' : st'[k] # "none"
    BY <1>1, <1>3, ZenonT(60) DEF KnownExact, JobsTypeOK
  <2> QED BY <1>1, <2>2, <2>3, <2>4, Zenon DEF KnownExact
<1>10. Fresh'
  <2>1. UNCHANGED <<fired, cascade>>
    BY <1>1, Zenon
  <2> QED BY <1>3, <2>1, ZenonT(60) DEF Fresh
<1>11. Counts'
  <2>1. Unfinished' = Unfinished \cup {j} /\ j \notin Unfinished
    BY <1>2, <1>3, Zenon DEF Unfinished, Active
  <2>2. /\ IsFiniteSet(Unfinished') /\ Cardinality(Unfinished') = Cardinality(Unfinished) + 1
        /\ live = Cardinality(Unfinished)
    BY <2>1, FS_AddElement, Zenon DEF Counts
  <2>3. live' <= MaxPending
    BY <1>1, <1>4, JobsAssumption, SMTT(60)
  <2>4. ASSUME NEW p \in Owners PROVE Cardinality(UnfinishedOf(p)') <= Ceiling[p]
    <3>1. UnfinishedOf(p) \subseteq Unfinished
      BY Zenon DEF Unfinished, UnfinishedOf
    <3>2. IsFiniteSet(UnfinishedOf(p)) /\ Cardinality(UnfinishedOf(p)) \in Nat
      BY <3>1, FS_Subset, FS_CardinalityType, Zenon DEF Counts
    <3>3. CASE p # o
      <4>1. UnfinishedOf(p)' = UnfinishedOf(p)
        BY <1>2, <1>3, <3>3, Zenon DEF UnfinishedOf, Active
      <4> QED BY <4>1, Zenon DEF Counts
    <3>4. CASE p = o
      <4>1. UnfinishedOf(p)' = UnfinishedOf(p) \cup {j} /\ j \notin UnfinishedOf(p)
        BY <1>2, <1>3, <3>4, Zenon DEF UnfinishedOf, Active
      <4>2. {k \in known : OwnerOf[k] = p /\ st[k] \notin Terminal} = UnfinishedOf(p)
        BY ZenonT(60) DEF UnfinishedOf, KnownExact, JobsTypeOK, Active, Terminal
      <4>3. Cardinality(UnfinishedOf(p)) < Ceiling[p]
        BY <1>1, <3>4, <4>2, Zenon DEF OwnerLive
      <4>4. Cardinality(UnfinishedOf(p)') = Cardinality(UnfinishedOf(p)) + 1
        BY <3>2, <4>1, FS_AddElement, Zenon
      <4>5. Ceiling[p] \in Nat
        BY JobsAssumption, Zenon
      <4> QED BY <3>2, <4>3, <4>4, <4>5, SMTT(60)
    <3> QED BY <3>3, <3>4, SMTT(60)
  <2> QED BY <1>1, <2>2, <2>3, <2>4, ZenonT(60) DEF Counts
<1>12. CascadeKept'
  BY <1>1, <1>2, <1>3, ZenonT(60) DEF CascadeKept
<1> QED BY <1>6, <1>7, <1>8, <1>9, <1>10, <1>11, <1>12, Zenon

(* A worker takes the oldest queued job.                                   *)
LEMMA TakeInv == ASSUME JobsInv, NEW w \in Workers, TakeJob(w) PROVE JobsInv'
<1> USE DEF JobsInv
<1>0. PICK j : j = Head(queue)
  BY Zenon
<1>1. /\ wpc[w] = "idle" /\ queue # <<>> /\ queue' = Tail(queue)
      /\ wjob' = [wjob EXCEPT ![w] = j] /\ wpc' = [wpc EXCEPT ![w] = "invoke"]
      /\ st' = [st EXCEPT ![j] = "running"] /\ seq' = Bump({j})
      /\ UNCHANGED <<stopReq, cascade, known, terminalOrder, live, spc, fired>>
  BY <1>0, Zenon DEF TakeJob, runVars
<1>2. queue \in Seq(Jobs) /\ seq \in [Jobs -> Nat] /\ terminalOrder \in Seq(Jobs)
  BY Zenon DEF JobsTypeOK
<1>3. /\ j \in Jobs /\ j = queue[1] /\ 1 \in 1..Len(queue) /\ queue' \in Seq(Jobs)
      /\ \A i \in 1..Len(queue') : /\ i + 1 \in 1..Len(queue) /\ queue'[i] = queue[i + 1]
                                   /\ i + 1 # 1 /\ i \in Nat
      /\ \A i \in 1..Len(queue) : i = 1 \/ (i - 1 \in 1..Len(queue') /\ (i - 1) + 1 = i)
      /\ \A i, k \in 1..Len(queue') : i + 1 = k + 1 => i = k
      /\ \A i \in 1..Len(terminalOrder) : terminalOrder[i] \in Jobs
  BY <1>0, <1>1, <1>2, SMTT(60)
<1>4. st[j] = "queued"
  BY <1>3, Zenon DEF QueueExact
<1>5. /\ st' \in [Jobs -> {"none"} \cup Active \cup Terminal] /\ st'[j] = "running"
      /\ \A k \in Jobs \ {j} : st'[k] = st[k]
      /\ wjob' \in [Workers -> Jobs \cup {NoJob}] /\ wjob'[w] = j
      /\ wpc' \in [Workers -> {"idle", "invoke", "finish", "exited"}] /\ wpc'[w] = "invoke"
      /\ \A v \in Workers \ {w} : wpc'[v] = wpc[v] /\ wjob'[v] = wjob[v]
  BY <1>1, <1>3, ZenonT(60) DEF JobsTypeOK, Active
<1>6. seq' \in [Jobs -> Nat] /\ \A k \in Jobs \ {j} : seq'[k] = seq[k]
  BY <1>1, <1>2, <1>3, SMTT(60) DEF Bump
<1>7. JobsTypeOK'
  BY <1>1, <1>3, <1>5, <1>6, Zenon DEF JobsTypeOK
<1>8. QueueExact'
  <2>1. \A m, n \in 1..Len(queue) : queue[m] = queue[n] => m = n
    BY Zenon DEF QueueExact
  <2>2. \A i, k \in 1..Len(queue') : queue'[i] = queue'[k] => i = k
    BY ONLY <1>3, <2>1, SMTT(60)
  <2>4. \A i \in 1..Len(queue') : queue'[i] # j
    BY ONLY <1>3, <2>1, SMT
  <2>3. ASSUME NEW k \in Jobs PROVE st'[k] = "queued" <=> \E i \in 1..Len(queue') : queue'[i] = k
    <3>1. CASE k = j
      BY <1>5, <2>4, <3>1, Zenon
    <3>2. CASE k # j
      <4>1. ASSUME NEW i \in 1..Len(queue), queue[i] = k
            PROVE  \E n \in 1..Len(queue') : queue'[n] = k
        <5>1. i - 1 \in 1..Len(queue') /\ (i - 1) + 1 = i
          BY <1>3, <3>2, <4>1, Zenon
        <5>2. queue'[i - 1] = queue[(i - 1) + 1]
          BY <1>3, <5>1, Zenon
        <5> QED BY <4>1, <5>1, <5>2, Zenon
      <4>2. ASSUME NEW i \in 1..Len(queue'), queue'[i] = k
            PROVE  \E n \in 1..Len(queue) : queue[n] = k
        BY <1>3, <4>2, Zenon
      <4>3. st[k] = "queued" <=> \E i \in 1..Len(queue) : queue[i] = k
        BY Zenon DEF QueueExact
      <4> QED BY <1>5, <3>2, <4>1, <4>2, <4>3, ZenonT(60)
    <3> QED BY <3>1, <3>2
  <2> QED BY <2>2, <2>3, Zenon DEF QueueExact
<1>9. WorkersHold'
  <2>1. \A v \in Workers \ {w} : Busy(v)' <=> Busy(v)
    BY <1>5, Zenon DEF Busy
  <2>2. \A v \in Workers : Busy(v) => wjob[v] # j
    BY <1>4, Zenon DEF WorkersHold
  <2>3. \A v \in Workers : Busy(v)' =>
          wjob'[v] \in Jobs /\ st'[wjob'[v]] \in {"running", "cancel_requested"}
    <3> SUFFICES ASSUME NEW v \in Workers, Busy(v)'
                 PROVE  wjob'[v] \in Jobs /\ st'[wjob'[v]] \in {"running", "cancel_requested"}
      BY Zenon
    <3>1. CASE v = w
      BY <1>3, <1>5, <3>1, Zenon
    <3>2. CASE v # w
      <4>1. Busy(v) /\ wjob'[v] = wjob[v] /\ wjob[v] # j
        BY <1>5, <2>1, <2>2, <3>2, ZenonT(60)
      <4>2. wjob[v] \in Jobs /\ st[wjob[v]] \in {"running", "cancel_requested"}
        BY <4>1, Zenon DEF WorkersHold
      <4>3. st'[wjob[v]] = st[wjob[v]]
        BY <1>5, <4>1, <4>2, Zenon
      <4> QED BY <4>1, <4>2, <4>3, Zenon
    <3> QED BY <3>1, <3>2, SMTT(60)
  <2>4. ASSUME NEW u \in Workers, NEW v \in Workers, Busy(u)', Busy(v)', wjob'[u] = wjob'[v]
        PROVE  u = v
    BY <1>5, <2>1, <2>2, <2>4, ZenonT(60) DEF WorkersHold
  <2> QED BY <2>3, <2>4, Zenon DEF WorkersHold, Busy
<1>10. KnownExact'
  <2>1. \A i \in 1..Len(terminalOrder) : terminalOrder[i] # j
    BY <1>4, Zenon DEF KnownExact, Terminal
  <2>2. \A i \in 1..Len(terminalOrder) : st'[terminalOrder[i]] \in Terminal
    BY <1>3, <1>5, <2>1, Zenon DEF KnownExact
  <2>3. \A k \in Jobs : st'[k] \in Active => k \in known'
    BY <1>1, <1>4, <1>5, ZenonT(60) DEF KnownExact, Active
  <2>4. \A k \in known' : st'[k] # "none"
    BY <1>1, <1>5, ZenonT(60) DEF KnownExact, JobsTypeOK
  <2> QED BY <1>1, <2>2, <2>3, <2>4, Zenon DEF KnownExact
<1>11. Fresh'
  <2>1. UNCHANGED <<spc, fired, cascade>> /\ \A k \in Jobs : st'[k] = "none" <=> st[k] = "none"
    BY <1>1, <1>4, <1>5, Zenon
  <2>2. \A k \in Jobs : st[k] = "none" => seq'[k] = seq[k]
    BY <1>4, <1>6, Zenon
  <2> QED BY <2>1, <2>2, Zenon DEF Fresh
<1>12. Counts'
  <2>1. \A k \in Jobs : st'[k] \in Active <=> st[k] \in Active
    BY <1>4, <1>5, Zenon DEF Active
  <2> QED BY <1>1, <2>1, SameCounts, Zenon
<1>13. CascadeKept'
  <2>1. /\ UNCHANGED <<spc, fired, cascade, stopReq>>
        /\ \A k \in Jobs : /\ st'[k] \in Active <=> st[k] \in Active
                           /\ st'[k] = "cancel_requested" => st[k] = "cancel_requested"
    BY <1>1, <1>4, <1>5, Zenon DEF Active
  <2> QED BY <2>1, Zenon DEF CascadeKept
<1> QED BY <1>7, <1>8, <1>9, <1>10, <1>11, <1>12, <1>13, Zenon

(* A progress report numbers an event of a running job.                    *)
LEMMA ReportInv == ASSUME JobsInv, NEW w \in Workers, ReportProgress(w) PROVE JobsInv'
<1> USE DEF JobsInv
<1>1. /\ wjob[w] \in known /\ st[wjob[w]] \notin Terminal /\ seq' = Bump({wjob[w]})
      /\ UNCHANGED <<st, stopReq, cascade, known, queue, terminalOrder, live, spc, fired,
                     wpc, wjob>>
  BY Zenon DEF ReportProgress, runVars
<1>2. seq \in [Jobs -> Nat]
  BY Zenon DEF JobsTypeOK
<1>3. seq' \in [Jobs -> Nat] /\ \A k \in Jobs : k # wjob[w] => seq'[k] = seq[k]
  BY <1>1, <1>2 DEF Bump
<1>4. JobsTypeOK'
  BY <1>1, <1>3, Zenon DEF JobsTypeOK
<1>5. st[wjob[w]] # "none"
  BY <1>1, Zenon DEF KnownExact
<1>6. Fresh'
  BY <1>1, <1>3, <1>5, Zenon DEF Fresh
<1>7. CascadeKept'
  BY <1>1, Zenon DEF CascadeKept
<1> QED BY <1>1, <1>4, <1>6, <1>7, SameJobs, Zenon

(* A tool returns, or a worker leaves.                                     *)
LEMMA WorkerMoves ==
  ASSUME JobsInv, NEW w \in Workers, WorkerExits(w) \/ \E r : ToolReturns(w, r)
  PROVE  JobsInv'
<1> USE DEF JobsInv
<1>1. /\ UNCHANGED <<jobVars, runVars, wjob>>
      /\ \/ wpc[w] = "idle" /\ wpc' = [wpc EXCEPT ![w] = "exited"]
         \/ wpc[w] = "invoke" /\ wpc' = [wpc EXCEPT ![w] = "finish"]
  BY Zenon DEF WorkerExits, ToolReturns
<1>2. UNCHANGED <<st, seq, stopReq, cascade, known, queue, terminalOrder, live, spc, fired, wjob>>
  BY <1>1, Zenon DEF jobVars, runVars
<1>3. /\ wpc' \in [Workers -> {"idle", "invoke", "finish", "exited"}]
      /\ \A v \in Workers : Busy(v)' <=> Busy(v)
  BY <1>1, ZenonT(60) DEF JobsTypeOK, Busy
<1>4. JobsTypeOK'
  BY <1>2, <1>3, Zenon DEF JobsTypeOK
<1>5. WorkersHold'
  BY <1>2, <1>3, Zenon DEF WorkersHold
<1>6. QueueExact'
  BY <1>2, SameQueue, Zenon
<1>7. KnownExact' /\ Fresh' /\ CascadeKept'
  BY <1>2, Zenon DEF KnownExact, Fresh, CascadeKept
<1>8. Counts'
  BY <1>2, SameCounts, Zenon
<1> QED BY <1>4, <1>5, <1>6, <1>7, <1>8, Zenon

(* A worker ends its job.                                                  *)
LEMMA FinishInv == ASSUME JobsInv, NEW w \in Workers, FinishJob(w) PROVE JobsInv'
<1> USE DEF JobsInv
<1>0. PICK j : j = wjob[w]
  BY Zenon
<1>1. /\ wpc[w] = "finish" /\ FinishLocked(<<j>>, TerminalOf(w))
      /\ wpc' = [wpc EXCEPT ![w] = "idle"] /\ wjob' = [wjob EXCEPT ![w] = NoJob]
      /\ UNCHANGED <<stopReq, queue, spc, fired>>
  BY <1>0, Zenon DEF FinishJob, runVars
<1>2. j \in Jobs /\ st[j] \in {"running", "cancel_requested"} /\ Busy(w)
  BY <1>0, <1>1, Zenon DEF WorkersHold, Busy
<1>3. st[j] \in Active /\ TerminalOf(w) \in Terminal
  BY <1>2 DEF Active, Terminal, TerminalOf
<1>4. PICK to \in Terminal : to = TerminalOf(w)
  BY <1>3, Zenon
<1>5. /\ st' \in [Jobs -> {"none"} \cup Active \cup Terminal] /\ st'[j] = to
      /\ \A k \in Jobs \ {j} : st'[k] = st[k] /\ cascade'[k] = cascade[k] /\ seq'[k] = seq[k]
      /\ seq' \in [Jobs -> Nat]
      /\ cascade' \in [Jobs -> {"none", "armed", "dropped"}]
      /\ terminalOrder' \in Seq(Jobs) /\ known' \subseteq Jobs /\ live' \in Nat
      /\ KnownExact' /\ Counts'
  BY <1>1, <1>2, <1>3, <1>4, FinishOne, Zenon
<1>6. /\ wpc' \in [Workers -> {"idle", "invoke", "finish", "exited"}] /\ wpc'[w] = "idle"
      /\ wjob' \in [Workers -> Jobs \cup {NoJob}]
      /\ \A v \in Workers \ {w} : wpc'[v] = wpc[v] /\ wjob'[v] = wjob[v]
  BY <1>1, Zenon DEF JobsTypeOK
<1>7. JobsTypeOK'
  BY <1>1, <1>5, <1>6, Zenon DEF JobsTypeOK
<1>8. QueueExact'
  <2>1. \A k \in Jobs : st'[k] = "queued" <=> st[k] = "queued"
    BY <1>2, <1>5, Zenon DEF Terminal
  <2> QED BY <1>1, <2>1, SameQueue, Zenon
<1>9. WorkersHold'
  <2>1. \A v \in Workers : Busy(v)' => v # w /\ Busy(v) /\ wjob'[v] = wjob[v]
    BY <1>6, Zenon DEF Busy
  <2>2. \A v \in Workers : Busy(v)' => wjob[v] # j
    BY <1>0, <1>2, <2>1, Zenon DEF WorkersHold
  <2>3. \A v \in Workers : Busy(v)' =>
          wjob'[v] \in Jobs /\ st'[wjob'[v]] \in {"running", "cancel_requested"}
    <3> SUFFICES ASSUME NEW v \in Workers, Busy(v)'
                 PROVE  wjob'[v] \in Jobs /\ st'[wjob'[v]] \in {"running", "cancel_requested"}
      BY Zenon
    <3>1. wjob[v] \in Jobs /\ st[wjob[v]] \in {"running", "cancel_requested"}
      BY <2>1, Zenon DEF WorkersHold
    <3>2. wjob'[v] = wjob[v] /\ st'[wjob[v]] = st[wjob[v]]
      BY <1>5, <2>1, <2>2, <3>1, Zenon
    <3> QED BY <3>1, <3>2, Zenon
  <2>4. ASSUME NEW u \in Workers, NEW v \in Workers, Busy(u)', Busy(v)', wjob'[u] = wjob'[v]
        PROVE  u = v
    BY <2>1, <2>4, Zenon DEF WorkersHold
  <2> QED BY <2>3, <2>4, Zenon DEF WorkersHold, Busy
<1>10. Fresh'
  <2>1. /\ UNCHANGED <<spc, fired>>
        /\ \A k \in Jobs : st'[k] = "none" <=> k # j /\ st[k] = "none"
    BY <1>1, <1>2, <1>5, Zenon DEF Terminal
  <2> QED BY <1>2, <1>5, <2>1, ZenonT(60) DEF Fresh
<1>11. CascadeKept'
  <2>1. /\ UNCHANGED <<spc, fired, stopReq>>
        /\ st'[j] \notin Active /\ st'[j] # "cancel_requested"
    BY <1>1, <1>5, Zenon DEF Active, Terminal
  <2> QED BY <1>5, <2>1, Zenon DEF CascadeKept
<1> QED BY <1>5, <1>7, <1>8, <1>9, <1>10, <1>11, ZenonT(60)

(* shutdown() ends every queued job and asks the running ones to stop.     *)
LEMMA ShutdownInv == ASSUME JobsInv, ShutdownBegin PROVE JobsInv'
<1> USE DEF JobsInv
<1>0. PICK Q, R : /\ Q = {queue[i] : i \in 1..Len(queue)}
                  /\ R = {j \in known : st[j] = "running"}
  BY Zenon
<1>1. /\ queue' = <<>>
      /\ st' = [j \in Jobs |-> IF j \in Q THEN "canceled"
                               ELSE IF j \in R THEN "cancel_requested" ELSE st[j]]
      /\ seq' = Bump(Q \cup R)
      /\ stopReq' = [j \in Jobs |-> stopReq[j] \/ (j \in known /\ st[j] \notin Terminal)]
      /\ live' = live - Len(queue)
      /\ cascade' = [j \in Jobs |-> IF j \in Q THEN "dropped" ELSE cascade[j]]
      /\ UNCHANGED <<spc, fired, wpc, wjob>>
  BY <1>0, Zenon DEF ShutdownBegin, runVars, workerVars
<1>2. Retires(queue)
  BY Zenon DEF ShutdownBegin, Retires
<1>3. queue \in Seq(Jobs) /\ seq \in [Jobs -> Nat]
  BY Zenon DEF JobsTypeOK
<1>4. Q \subseteq Jobs /\ \A j \in Jobs : j \in Q <=> st[j] = "queued"
  <2>1. \A i \in 1..Len(queue) : queue[i] \in Jobs
    BY <1>3
  <2>2. \A j \in Jobs : st[j] = "queued" <=> \E i \in 1..Len(queue) : queue[i] = j
    BY Zenon DEF QueueExact
  <2> QED BY <1>0, <2>1, <2>2, Zenon
<1>5. \A j \in Jobs : j \in R <=> st[j] = "running"
  BY <1>0, Zenon DEF KnownExact, Active
<1>6. /\ st' \in [Jobs -> {"none"} \cup Active \cup Terminal]
      /\ stopReq' \in [Jobs -> BOOLEAN] /\ cascade' \in [Jobs -> {"none", "armed", "dropped"}]
  BY <1>1, Zenon DEF JobsTypeOK, Active, Terminal
<1>7. \A j \in Jobs : /\ st[j] = "queued" => st'[j] = "canceled"
                      /\ st[j] = "running" => st'[j] = "cancel_requested"
                      /\ st[j] \notin {"queued", "running"} => st'[j] = st[j]
                      /\ st[j] # "queued" => cascade'[j] = cascade[j]
                      /\ st[j] \in {"running", "cancel_requested"} => stopReq'[j]
                      /\ stopReq[j] => stopReq'[j]
  BY <1>1, <1>4, <1>5, ZenonT(60) DEF KnownExact, Active, Terminal
<1>8. seq' \in [Jobs -> Nat] /\ \A j \in Jobs : j \notin Q \cup R => seq'[j] = seq[j]
  BY <1>1, <1>3 DEF Bump
<1>9. /\ \A i \in 1..Len(queue) : st'[queue[i]] \in Terminal
      /\ \A j \in Jobs : /\ st[j] \in Terminal => st'[j] \in Terminal
                         /\ st'[j] \in Active => st[j] \in Active
                         /\ st[j] # "none" => st'[j] # "none"
  <2>1. \A i \in 1..Len(queue) : queue[i] \in Q /\ queue[i] \in Jobs
    BY <1>0, <1>4, Zenon
  <2>2. \A i \in 1..Len(queue) : st'[queue[i]] \in Terminal
    BY <1>4, <1>7, <2>1, Zenon DEF Terminal
  <2>3. \A j \in Jobs : /\ st[j] \in Terminal => st'[j] \in Terminal
                        /\ st'[j] \in Active => st[j] \in Active
                        /\ st[j] # "none" => st'[j] # "none"
    BY <1>7, Zenon DEF Active, Terminal
  <2> QED BY <2>2, <2>3, Zenon
<1>10. KnownExact' /\ terminalOrder' \in Seq(Jobs) /\ known' \subseteq Jobs
  BY <1>2, <1>3, <1>6, <1>9, RetireKnown, ZenonT(60)
<1>11. Counts' /\ live' \in Nat
  <2>1. Q \subseteq Unfinished /\ Unfinished' = Unfinished \ Q
    BY <1>4, <1>7, <1>9, Zenon DEF Unfinished, Active, Terminal
  <2>2. Cardinality(Q) = Len(queue)
    <3>1. \A i, k \in 1..Len(queue) : queue[i] = queue[k] => i = k
      BY Zenon DEF QueueExact
    <3> QED BY <1>0, <1>3, <3>1, DistinctLength, ZenonT(60)
  <2> QED BY <1>1, <2>1, <2>2, FewerCounts, ZenonT(60)
<1>12. JobsTypeOK'
  <2>1. queue' \in Seq(Jobs)
    BY <1>1
  <2> QED BY <1>1, <1>6, <1>8, <1>10, <1>11, <2>1, ZenonT(60) DEF JobsTypeOK
<1>13. QueueExact'
  <2>1. \A j \in Jobs : st'[j] # "queued"
    BY <1>7, Zenon
  <2>2. 1..Len(queue') = {}
    BY <1>1
  <2> QED BY <2>1, <2>2, Zenon DEF QueueExact
<1>14. WorkersHold'
  <2>1. \A k \in Jobs : st[k] \in {"running", "cancel_requested"}
                         => st'[k] \in {"running", "cancel_requested"}
    BY <1>7, Zenon
  <2> QED BY <1>1, <2>1, SameHold, Zenon
<1>15. Fresh'
  <2>1. \A j \in Jobs : st'[j] = "none" <=> st[j] = "none"
    BY <1>7, Zenon
  <2>2. \A j \in Jobs : st[j] = "none" => cascade'[j] = cascade[j] /\ seq'[j] = seq[j]
    BY <1>4, <1>5, <1>7, <1>8, ZenonT(60)
  <2>3. UNCHANGED <<spc, fired>>
    BY <1>1, Zenon
  <2> QED BY <2>1, <2>2, <2>3, Zenon DEF Fresh
<1>16. CascadeKept'
  <2>1. UNCHANGED <<spc, fired>>
    BY <1>1, Zenon
  <2>2. \A j \in Jobs : st'[j] \in Active => /\ st[j] \in {"running", "cancel_requested"}
                                             /\ cascade'[j] = cascade[j] /\ stopReq'[j]
    BY <1>7, Zenon DEF Active
  <2> QED BY <2>1, <2>2, ZenonT(60) DEF CascadeKept, Active
<1> QED BY <1>10, <1>11, <1>12, <1>13, <1>14, <1>15, <1>16, ZenonT(60)

(* The invariant holds at the start.                                       *)
LEMMA InitJobs == Init => JobsInv
<1> SUFFICES ASSUME Init PROVE JobsInv
  BY Zenon
<1>0. 0 \in Nat /\ <<>> \in Seq(Jobs) /\ 1..Len(<<>>) = {}
  OBVIOUS
<1>1. JobsTypeOK
  BY <1>0, Zenon DEF Init, JobsTypeOK
<1>2. QueueExact /\ WorkersHold /\ Fresh
  BY <1>0, Zenon DEF Init, QueueExact, WorkersHold, Fresh, Busy
<1>3. KnownExact /\ CascadeKept
  BY <1>0, Zenon DEF Init, KnownExact, CascadeKept, Active
<1>4. Counts
  <2>1. live = 0 /\ Unfinished = {} /\ \A o \in Owners : UnfinishedOf(o) = {}
    BY Zenon DEF Init, Unfinished, UnfinishedOf, Active
  <2>2. IsFiniteSet({}) /\ Cardinality({}) = 0
    BY FS_EmptySet, Zenon
  <2>3. 0 <= MaxPending /\ \A o \in Owners : 0 <= Ceiling[o]
    BY JobsAssumption
  <2> QED BY <2>1, <2>2, <2>3, Zenon DEF Counts
<1> QED BY <1>1, <1>2, <1>3, <1>4, Zenon DEF JobsInv

(* Cancellation, and the cascade's registration.                           *)
LEMMA RegisterInv ==
  ASSUME JobsInv, NEW j \in Jobs, Cancel(j) \/ FireCascade(j) \/ RegisterCascade(j)
  PROVE  JobsInv'
<1>1. UNCHANGED <<wpc, wjob>>
  BY Zenon DEF Cancel, FireCascade, RegisterCascade, workerVars
<1>2. st[j] = "none" => spc[j] = "new" /\ cascade[j] # "armed"
  BY Zenon DEF JobsInv, Fresh
<1>3. CASE Cancel(j)
  BY <1>1, <1>3, RequestInv, Zenon DEF Cancel, runVars
<1>4. CASE FireCascade(j)
  <2>1. spc' = spc /\ fired' = fired \cup {j} /\ st[j] # "none"
    BY <1>2, <1>4, Zenon DEF FireCascade
  <2>2. CASE RequestCancel(j)
    BY <1>1, <2>1, <2>2, RequestInv, Zenon
  <2>3. CASE ~RequestCancel(j)
    BY <1>1, <1>4, <2>1, <2>3, FiredInv, ZenonT(60) DEF FireCascade
  <2> QED BY <2>2, <2>3
<1>5. CASE RegisterCascade(j)
  <2>1. spc[j] = "registering" /\ st[j] # "none"
    BY <1>2, <1>5, Zenon DEF RegisterCascade
  <2>2. CASE spc' = spc /\ fired' = fired \cup {j} /\ RequestCancel(j)
    BY <1>1, <2>2, RequestInv, Zenon
  <2>3. CASE /\ spc' = spc /\ fired' = fired \cup {j}
             /\ j \notin known \/ st[j] \notin {"queued", "running"}
             /\ UNCHANGED <<st, seq, stopReq, queue, live, terminalOrder, known, cascade>>
    BY <1>1, <2>1, <2>3, FiredInv, Zenon
  <2>4. CASE /\ cascade' = [cascade EXCEPT ![j] = IF st[j] \in Terminal THEN "dropped" ELSE "armed"]
             /\ spc' = [spc EXCEPT ![j] = "done"]
             /\ UNCHANGED <<st, seq, stopReq, queue, live, terminalOrder, known, fired>>
    BY <1>1, <2>1, <2>4, ArmInv, Zenon
  <2> QED BY <1>5, <2>2, <2>3, <2>4, Zenon DEF RegisterCascade
<1> QED BY <1>3, <1>4, <1>5

(* Steps of the sink and of shutdown that leave the table alone.           *)
LEMMA UntouchedInv ==
  ASSUME JobsInv,
         UNCHANGED <<st, seq, stopReq, cascade, known, queue, terminalOrder, live, spc, fired,
                     wpc, wjob>>
  PROVE  JobsInv'
<1> USE DEF JobsInv
<1>1. JobsTypeOK'
  BY Zenon DEF JobsTypeOK
<1>2. Fresh' /\ CascadeKept'
  BY Zenon DEF Fresh, CascadeKept
<1> QED BY <1>1, <1>2, SameJobs, Zenon

(* Every step keeps the invariant.                                         *)
LEMMA NextJobs == JobsInv /\ [Next]_vars => JobsInv'
<1> SUFFICES ASSUME JobsInv, [Next]_vars PROVE JobsInv'
  BY Zenon
<1>1. CASE \E j \in Jobs : Submit(j) \/ Cancel(j) \/ FireCascade(j) \/ RegisterCascade(j)
  BY <1>1, SubmitInv, RegisterInv, Zenon
<1>2. CASE \E w \in Workers : WorkerStep(w) \/ ReportProgress(w)
  BY <1>2, TakeInv, FinishInv, WorkerMoves, ReportInv, Zenon DEF WorkerStep
<1>3. CASE ShutdownBegin
  BY <1>3, ShutdownInv, Zenon
<1>4. CASE \/ \E o \in Owners : StopRun(o)
           \/ \E b \in outbox : EmitBegin(b)
           \/ \E b \in calling : EmitEnd(b)
           \/ ShutdownDisablesSink \/ ShutdownReturns \/ UNCHANGED vars
  <2>1. UNCHANGED <<st, seq, stopReq, cascade, known, queue, terminalOrder, live, spc, fired,
                    wpc, wjob>>
    BY <1>4, ZenonT(60) DEF StopRun, EmitBegin, EmitEnd, ShutdownDisablesSink, ShutdownReturns, vars,
                       jobVars, runVars, workerVars
  <2> QED BY <2>1, UntouchedInv, Zenon
<1> QED BY <1>1, <1>2, <1>3, <1>4, ZenonT(60) DEF Next

(* JobsInv is an invariant of the job table.                               *)
LEMMA JobsInvariance == Spec => []JobsInv
BY InitJobs, NextJobs, PTL DEF Spec

(* No owner ever has more unfinished jobs than its capability allows and   *)
(* the runner no more than max_pending, `live` being exact, however        *)
(* submissions, endings and shutdown interleave (submit and                *)
(* finish_locked).                                                         *)
THEOREM CeilingRespected == Spec => []CeilingHolds
<1>1. JobsInv => CeilingHolds
  BY Zenon DEF JobsInv, Counts, Unfinished, UnfinishedOf, CeilingHolds
<1> QED BY <1>1, JobsInvariance, PTL

(* A stopped run takes its jobs along: an unfinished linked job was asked  *)
(* to stop, or its callback is still to run, registered or about to be,    *)
(* also when the stop falls between the two parts of submit.               *)
THEOREM CascadeReachesJobs == Spec => []CascadeNotLost
<1>1. JobsInv => CascadeNotLost
  <2> SUFFICES ASSUME JobsInv, NEW j \in Linked, st[j] \in Active, ~stopReq[j]
               PROVE  j \notin fired /\ (spc[j] = "registering" \/ cascade[j] = "armed")
    BY Zenon DEF CascadeNotLost
  <2>1. j \in Jobs
    BY JobsAssumption, Zenon
  <2>2. j \notin fired /\ (spc[j] = "done" => cascade[j] = "armed")
    BY <2>1, Zenon DEF JobsInv, CascadeKept
  <2>3. spc[j] \in {"registering", "done"}
    BY <2>1, Zenon DEF JobsInv, JobsTypeOK, Fresh, Active
  <2> QED BY <2>2, <2>3, Zenon
<1> QED BY <1>1, JobsInvariance, PTL

-----------------------------------------------------------------------------
(* The step an observer of the events can trust: new events have new       *)
(* numbers, a change of state has a new number, and an ended job neither   *)
(* changes nor speaks again.                                               *)
Ordered ==
    /\ \A b \in outbox' \ outbox : \A e \in b.events : e[2] > seq[e[1]]
    /\ \A j \in Jobs : /\ st'[j] # st[j] => seq'[j] > seq[j]
                       /\ st[j] \in Terminal => st'[j] = st[j]
                       /\ st[j] \in Terminal => seq'[j] = seq[j]

(* The jobs J get a new number and an event that carries it.               *)
LEMMA Numbered ==
  ASSUME JobsInv, NEW by, NEW J \in SUBSET Jobs, \A j \in J : st[j] \notin Terminal,
         seq' = Bump(J), MakeEvents(by, J), \A j \in Jobs \ J : st'[j] = st[j]
  PROVE  Ordered
<1>1. seq \in [Jobs -> Nat]
  BY Zenon DEF JobsInv, JobsTypeOK
<1>2. /\ \A j \in J : seq'[j] > seq[j]
      /\ \A j \in Jobs \ J : seq'[j] = seq[j]
  BY <1>1 DEF Bump
<1>3. ASSUME NEW b \in outbox' \ outbox, NEW e \in b.events PROVE e[2] > seq[e[1]]
  <2>1. b = [by |-> by, events |-> {<<j, seq'[j]>> : j \in J}]
    BY <1>3, Zenon DEF MakeEvents
  <2>2. b.events = {<<j, seq'[j]>> : j \in J}
    BY <2>1, Zenon
  <2>3. PICK j \in J : e = <<j, seq'[j]>>
    BY <2>2, Zenon
  <2>4. e[1] = j /\ e[2] = seq'[j]
    BY <2>3, Zenon
  <2> QED BY <1>2, <2>4, Zenon
<1> QED BY <1>2, <1>3, Zenon DEF Ordered

(* A step without events.                                                  *)
LEMMA Silent == ASSUME UNCHANGED <<st, seq>>, outbox' \subseteq outbox PROVE Ordered
BY Zenon DEF Ordered

(* request_cancel numbers what it reports.                                 *)
LEMMA RequestNumbered == ASSUME JobsInv, NEW j \in Jobs, RequestCancel(j) PROVE Ordered
<1>1. st[j] \notin Terminal
  BY Zenon DEF RequestCancel, Terminal
<1>2. seq' = Bump({j}) /\ MakeEvents("canceler", {j}) /\ \A k \in Jobs \ {j} : st'[k] = st[k]
  <2>1. CASE FinishLocked(<<j>>, "canceled") /\ MakeEvents("canceler", {j})
    BY <2>1, FinishedAlone, Zenon
  <2>2. CASE /\ st' = [st EXCEPT ![j] = "cancel_requested"] /\ seq' = Bump({j})
             /\ MakeEvents("canceler", {j})
    BY <2>2, Zenon DEF JobsInv, JobsTypeOK
  <2> QED BY <2>1, <2>2, Zenon DEF RequestCancel
<1> QED BY <1>1, <1>2, Numbered, Zenon

(* Every step is one an observer can trust.                                *)
LEMMA StepsOrdered == JobsInv /\ [Next]_vars => [Ordered]_vars
<1> SUFFICES ASSUME JobsInv, Next PROVE Ordered
  BY Zenon
<1>1. ASSUME NEW j \in Jobs, Submit(j) PROVE Ordered
  <2>1. spc[j] = "new" /\ seq' = [seq EXCEPT ![j] = 1] /\ st' = [st EXCEPT ![j] = "queued"]
        /\ MakeEvents("submitter", {j})
    BY <1>1, Zenon DEF Submit
  <2>2. seq \in [Jobs -> Nat] /\ st \in [Jobs -> {"none"} \cup Active \cup Terminal]
    BY Zenon DEF JobsInv, JobsTypeOK
  <2>3. st[j] = "none" /\ seq[j] = 0
    BY <2>1, Zenon DEF JobsInv, Fresh
  <2>4. seq' = Bump({j})
    <3>1. seq[j] + 1 = 1
      BY <2>3
    <3>2. Bump({j}) = [k \in Jobs |-> IF k = j THEN 1 ELSE seq[k]]
      BY <3>1, Zenon DEF Bump
    <3> QED BY <2>1, <2>2, <3>2, Zenon
  <2>5. st[j] \notin Terminal /\ \A k \in Jobs \ {j} : st'[k] = st[k]
    BY <2>1, <2>2, <2>3, Zenon DEF Terminal
  <2>6. MakeEvents("submitter", {j})
    BY <2>1, Zenon
  <2> QED BY <2>4, <2>5, <2>6, Numbered, Zenon
<1>2. ASSUME NEW j \in Jobs, Cancel(j) \/ FireCascade(j) \/ RegisterCascade(j) PROVE Ordered
  <2>1. RequestCancel(j) \/ UNCHANGED <<st, seq, outbox>>
    BY <1>2, Zenon DEF Cancel, FireCascade, RegisterCascade
  <2> QED BY <2>1, RequestNumbered, Silent, Zenon
<1>3. ASSUME NEW w \in Workers, TakeJob(w) PROVE Ordered
  <2>1. PICK j : /\ j = Head(queue) /\ queue # <<>> /\ st' = [st EXCEPT ![j] = "running"]
                 /\ seq' = Bump({j}) /\ MakeEvents(w, {j})
    BY <1>3, Zenon DEF TakeJob
  <2>2. queue \in Seq(Jobs)
    BY Zenon DEF JobsInv, JobsTypeOK
  <2>3. j \in Jobs /\ 1 \in 1..Len(queue) /\ j = queue[1]
    BY <2>1, <2>2
  <2>4. st[j] = "queued"
    BY <2>3, Zenon DEF JobsInv, QueueExact
  <2>5. st[j] \notin Terminal /\ \A k \in Jobs \ {j} : st'[k] = st[k]
    BY <2>1, <2>4, Zenon DEF Terminal, JobsInv, JobsTypeOK
  <2> QED BY <2>1, <2>3, <2>5, Numbered, Zenon
<1>4. ASSUME NEW w \in Workers, FinishJob(w) PROVE Ordered
  <2>1. PICK j : /\ j = wjob[w] /\ wpc[w] = "finish" /\ FinishLocked(<<j>>, TerminalOf(w))
                 /\ MakeEvents(w, {j})
    BY <1>4, Zenon DEF FinishJob
  <2>2. j \in Jobs /\ st[j] \in {"running", "cancel_requested"}
    BY <2>1, Zenon DEF JobsInv, WorkersHold, Busy
  <2>3. st[j] \notin Terminal
    BY <2>2, Zenon DEF Terminal
  <2>4. seq' = Bump({j}) /\ \A k \in Jobs \ {j} : st'[k] = st[k]
    BY <2>1, <2>2, FinishedAlone, Zenon
  <2> QED BY <2>1, <2>2, <2>3, <2>4, Numbered, Zenon
<1>5. ASSUME NEW w \in Workers, ReportProgress(w) PROVE Ordered
  <2>1. PICK j : /\ j \in known /\ st[j] \notin Terminal /\ seq' = Bump({j}) /\ st' = st
                 /\ MakeEvents(w, {j})
    BY <1>5, Zenon DEF ReportProgress
  <2>2. j \in Jobs
    BY <2>1, Zenon DEF JobsInv, JobsTypeOK
  <2> QED BY <2>1, <2>2, Numbered, ZenonT(60)
<1>6. CASE ShutdownBegin
  <2>1. PICK Q, R :
          /\ Q = {queue[i] : i \in 1..Len(queue)} /\ R = {j \in known : st[j] = "running"}
          /\ st' = [j \in Jobs |-> IF j \in Q THEN "canceled"
                                   ELSE IF j \in R THEN "cancel_requested" ELSE st[j]]
          /\ seq' = Bump(Q \cup R) /\ MakeEvents("shutdown", Q \cup R)
    BY <1>6, Zenon DEF ShutdownBegin
  <2>2. queue \in Seq(Jobs) /\ known \subseteq Jobs
    BY Zenon DEF JobsInv, JobsTypeOK
  <2>3. \A i \in 1..Len(queue) : queue[i] \in Jobs
    BY <2>2
  <2>4. \A i \in 1..Len(queue) : st[queue[i]] = "queued"
    BY <2>3, Zenon DEF JobsInv, QueueExact
  <2>5. Q \cup R \in SUBSET Jobs /\ \A j \in Q \cup R : st[j] \notin Terminal
    BY <2>1, <2>2, <2>3, <2>4, Zenon DEF Terminal
  <2>6. \A j \in Jobs \ (Q \cup R) : st'[j] = st[j]
    BY <2>1, Zenon
  <2>7. seq' = Bump(Q \cup R) /\ MakeEvents("shutdown", Q \cup R)
    BY <2>1, Zenon
  <2> QED BY <2>5, <2>6, <2>7, Numbered, ZenonT(60)
<1>7. CASE \/ \E o \in Owners : StopRun(o)
           \/ \E b \in outbox : EmitBegin(b)
           \/ \E b \in calling : EmitEnd(b)
           \/ \E w \in Workers : WorkerExits(w) \/ \E r : ToolReturns(w, r)
           \/ ShutdownDisablesSink \/ ShutdownReturns
  <2>1. UNCHANGED <<st, seq>> /\ outbox' \subseteq outbox
    BY <1>7, Zenon DEF StopRun, EmitBegin, EmitEnd, WorkerExits, ToolReturns,
                       ShutdownDisablesSink, ShutdownReturns, jobVars, sinkVars
  <2> QED BY <2>1, Silent, Zenon
<1> QED BY <1>1, <1>2, <1>3, <1>4, <1>5, <1>6, <1>7, ZenonT(60) DEF Next, WorkerStep

(* The events of a job can be put in order by their sequence numbers       *)
(* although they are delivered outside the lock, and nothing follows the   *)
(* terminal one (make_event and its callers).                              *)
THEOREM EventsCanBeOrdered == Spec => EventsOrdered
<1>1. Spec => [][Ordered]_vars
  BY JobsInvariance, StepsOrdered, PTL DEF Spec
<1> QED BY <1>1, PTL DEF EventsOrdered, Ordered

=============================================================================
