--------------------------- MODULE RecoveryProofs ---------------------------
(***************************************************************************)
(* What a crash or a cancellation may cost. The workflow run (Workflow):   *)
(* no vendor job it paid for is dropped silently, and a cancelled run      *)
(* stays closed. The effect journal (EffectJournal as E): the sequence     *)
(* numbers it returned stand, and on resume every effect is accounted for. *)
(***************************************************************************)
EXTENDS Workflow, TLAPS

CONSTANTS Writers, Keys, NoKey
VARIABLES mode, log, refused, waived, promised, at, stage, key, performed

(* The effect journal, beside the workflow.                                *)
E == INSTANCE EffectJournal

(* Every item of S names its job.                                          *)
Jobbed(S) == \A i \in S : "job" \in DOMAIN i

(* The record of a cancelled run is closed like the run.                   *)
ClosedRecord(rec) ==
    /\ Jobbed(rec.items) /\ rec.cancelled \in BOOLEAN
    /\ rec.cancelled =>
          rec.ports = {} /\ rec.items = {} /\ rec.pending = <<>> /\ rec.held = {}

(* The inductive invariant of a run: the jobs are accounted for, a         *)
(* cancelled run is closed and not driven, and so is its record; the jobs  *)
(* kept by the record are in it.                                           *)
WorkflowInv ==
    /\ jobs \in Nat /\ cancelled \in BOOLEAN
    /\ Jobbed(items)
    /\ JobsAccounted
    /\ CancelledClosed
    /\ cancelled => pc \in {"free", "unlock"}
    /\ saved # NoRecord => ClosedRecord(saved)
    /\ kept \subseteq Recorded

(* It holds at the start.                                                  *)
LEMMA InitInv == Init => WorkflowInv
<1> SUFFICES ASSUME Init PROVE WorkflowInv
  BY Zenon
<1>1. 1..jobs = {} /\ jobs \in Nat
  BY DEF Init
<1> QED BY <1>1, Zenon DEF Init, WorkflowInv, Jobbed, JobsAccounted, CancelledClosed, JobsOf

(* A poll's answers, written into the items it was asked about.            *)
Answered(S, f) == {[i EXCEPT !.state = f[i]] : i \in S}

(* Answering the items of a run changes none of their jobs.                *)
LEMMA SameJobs ==
  ASSUME NEW S, Jobbed(S), NEW f
  PROVE  Jobbed(Answered(S, f)) /\ JobsOf(Answered(S, f)) = JobsOf(S)
<1>0. PICK T : T = Answered(S, f)
  BY Zenon
<1>1. \A i \in S : /\ "job" \in DOMAIN [i EXCEPT !.state = f[i]]
                   /\ [i EXCEPT !.state = f[i]].job = i.job
  BY DEF Jobbed
<1>2. \A j \in T : \E i \in S : j = [i EXCEPT !.state = f[i]]
  BY <1>0, Zenon DEF Answered
<1>3. \A i \in S : [i EXCEPT !.state = f[i]] \in T
  BY <1>0, Zenon DEF Answered
<1>4. Jobbed(T)
  BY <1>1, <1>2, Zenon DEF Jobbed
<1>5. ASSUME NEW x \in JobsOf(T) PROVE x \in JobsOf(S)
  <2>1. PICK j \in T : x = j.job
    BY Zenon DEF JobsOf
  <2>2. PICK i \in S : j = [i EXCEPT !.state = f[i]]
    BY <1>2, Zenon
  <2>3. x = i.job
    BY ONLY <1>1, <2>1, <2>2, i \in S, ZenonT(60)
  <2> QED BY <2>3, Zenon DEF JobsOf
<1>6. ASSUME NEW x \in JobsOf(S) PROVE x \in JobsOf(T)
  <2>1. PICK i \in S : x = i.job
    BY Zenon DEF JobsOf
  <2>2. PICK j \in T : j = [i EXCEPT !.state = f[i]]
    BY <1>3, Zenon
  <2> QED BY <1>1, <2>1, <2>2, Zenon DEF JobsOf
<1> QED BY <1>0, <1>4, <1>5, <1>6, ZenonT(60)

(* Nor does writing them to the record.                                    *)
LEMMA SavedJobs ==
  ASSUME NEW S, Jobbed(S), NEW T, T = {[i EXCEPT !.state = "pending"] : i \in S}
  PROVE  Jobbed(T) /\ (S = {} => T = {})
<1>1. \A i \in S : "job" \in DOMAIN [i EXCEPT !.state = "pending"]
  BY DEF Jobbed
<1> QED BY <1>1, Zenon DEF Jobbed

(* What to_record writes of a run is closed if the run is.                 *)
LEMMA RecordClosed == ASSUME WorkflowInv PROVE ClosedRecord(to_record)
<1>1. /\ to_record.items = {[i EXCEPT !.state = "pending"] : i \in items}
      /\ to_record.cancelled = cancelled /\ to_record.ports = ports
      /\ to_record.pending = pending /\ to_record.held = held
  BY Zenon DEF to_record
<1>2. Jobbed(to_record.items) /\ (items = {} => to_record.items = {})
  BY <1>1, SavedJobs, ZenonT(60) DEF WorkflowInv
<1> QED BY <1>1, <1>2, Zenon DEF ClosedRecord, WorkflowInv, CancelledClosed

(* What no action but the ones below touches.                              *)
AccountKept ==
    /\ JobsOf(items) \union owed \union concluded \union lost \union kept
         \subseteq JobsOf(items') \union owed' \union concluded' \union lost' \union kept'
    /\ jobs' = jobs

(* A step that keeps the accounts keeps every job accounted for.           *)
LEMMA Accounted == ASSUME WorkflowInv, AccountKept PROVE JobsAccounted' /\ jobs' \in Nat
BY Zenon DEF WorkflowInv, AccountKept, JobsAccounted

(* The run is ended, by whoever holds the lock, or by cancel() on a run    *)
(* nobody holds.                                                           *)
LEMMA ClosedInv ==
  ASSUME WorkflowInv, NEW result, Closed(result), AccountKept,
         pc' \in {"free", "unlock"},
         UNCHANGED <<saved, kept>>, result = "cancelled" \/ ~cancelled
  PROVE  WorkflowInv'
<1> USE DEF WorkflowInv, Closed
<1>1. JobsAccounted' /\ jobs' \in Nat
  BY Accounted, Zenon
<1>2. Jobbed(items') /\ items' = {}
  BY Zenon DEF Jobbed
<1>3. CancelledClosed' /\ cancelled' \in BOOLEAN
  BY <1>2, Zenon DEF CancelledClosed
<1>4. Recorded' = Recorded
  BY Zenon DEF Recorded
<1> QED BY <1>1, <1>2, <1>3, <1>4, ZenonT(60)

(* An action of the entry point that holds the lock, on a run that is not  *)
(* cancelled.                                                              *)
LEMMA DrivenInv ==
  ASSUME WorkflowInv, AccountKept, Jobbed(items'),
         ~cancelled, UNCHANGED <<cancelled, saved, kept>>
  PROVE  WorkflowInv'
<1> USE DEF WorkflowInv
<1>1. JobsAccounted' /\ jobs' \in Nat
  BY Accounted, Zenon
<1>2. CancelledClosed' /\ cancelled' \in BOOLEAN
  BY Zenon DEF CancelledClosed
<1>3. Recorded' = Recorded
  BY Zenon DEF Recorded
<1> QED BY <1>1, <1>2, <1>3, Zenon

(* An action that touches nothing of the run.                              *)
LEMMA ApartInv ==
  ASSUME WorkflowInv, UNCHANGED <<ports, pending, held, items, cancelled, saved,
                                  jobs, lost, kept>>,
         pc' = pc \/ (pc = "unlock" /\ pc' = "free"),
         owed \union concluded \subseteq owed' \union concluded'
  PROVE  WorkflowInv'
<1> USE DEF WorkflowInv
<1>1. AccountKept
  BY ZenonT(60) DEF AccountKept
<1>2. JobsAccounted' /\ jobs' \in Nat
  BY <1>1, Accounted, Zenon
<1>3. CancelledClosed'
  BY Zenon DEF CancelledClosed
<1>4. Recorded' = Recorded
  BY Zenon DEF Recorded
<1> QED BY <1>2, <1>3, <1>4, Zenon

(* The run is recorded, by the round loop or by a host.                    *)
LEMMA SaveInv ==
  ASSUME WorkflowInv, Save, ~cancelled \/ pc' = pc,
         UNCHANGED <<ports, pending, held, items, owed, cancelled, jobs, concluded>>
  PROVE  WorkflowInv'
<1> USE DEF WorkflowInv
<1>1. /\ saved' = to_record /\ kept' = kept \intersect Recorded'
      /\ lost' = lost \union (kept \ Recorded')
  BY Zenon DEF Save
<1>2. AccountKept
  BY <1>1, ZenonT(60) DEF AccountKept
<1>3. JobsAccounted' /\ jobs' \in Nat
  BY <1>2, Accounted, Zenon
<1>4. ClosedRecord(saved')
  BY <1>1, RecordClosed, Zenon
<1>5. CancelledClosed' /\ kept' \subseteq Recorded'
  BY <1>1, Zenon DEF CancelledClosed
<1> QED BY <1>3, <1>4, <1>5, Zenon

(* The entry points that take the run's lock, or are refused.              *)
LEMMA EntryInv ==
  ASSUME WorkflowInv,
         \/ run_workflow \/ refuse_if_cancelled \/ continue_workflow
         \/ \E p \in ports : resume_workflow(p)
         \/ poll_batches \/ poll_refused \/ poll_nothing
  PROVE  WorkflowInv'
<1> USE DEF WorkflowInv
<1>0. JobsOf({}) = {} /\ Jobbed({})
  BY Zenon DEF JobsOf, Jobbed
<1>1. CASE run_workflow
  <2>1. /\ items' = {} /\ owed' = owed \union JobsOf(items) /\ cancelled' = FALSE
        /\ UNCHANGED <<saved, jobs, concluded, lost, kept>>
    BY <1>1, Zenon DEF run_workflow, durable, account
  <2>2. AccountKept
    BY <2>1, Zenon DEF AccountKept
  <2>3. JobsAccounted' /\ jobs' \in Nat
    BY <2>2, Accounted, ZenonT(60)
  <2>4. CancelledClosed' /\ Recorded' = Recorded
    BY <2>1, Zenon DEF CancelledClosed, Recorded
  <2> QED BY <1>0, <2>1, <2>3, <2>4, ZenonT(60)
<1>2. CASE refuse_if_cancelled
  <2>1. /\ Closed("cancelled") /\ owed' = owed \union JobsOf(items) /\ pc = "free"
        /\ UNCHANGED <<pc, saved, jobs, concluded, lost, kept>>
    BY <1>2, Zenon DEF refuse_if_cancelled, finish, Free, durable, account
  <2>2. AccountKept
    BY <2>1, Zenon DEF AccountKept
  <2> QED BY <2>1, <2>2, ClosedInv, ZenonT(60)
<1>3. ASSUME continue_workflow \/ \E p \in ports : resume_workflow(p) PROVE WorkflowInv'
  <2>1. /\ ~cancelled
        /\ UNCHANGED <<items, owed, cancelled, saved, jobs, concluded, lost, kept>>
    BY <1>3, Zenon DEF continue_workflow, resume_workflow, NotCancelled, durable, account
  <2>2. AccountKept
    BY <2>1, Zenon DEF AccountKept
  <2>3. Jobbed(items')
    BY <2>1, Zenon
  <2> QED BY <2>1, <2>2, <2>3, DrivenInv, ZenonT(60)
<1>4. CASE poll_batches
  <2>1. /\ ~cancelled /\ UNCHANGED <<cancelled, saved, jobs, lost, kept>>
        /\ concluded' = concluded \union owed
    BY <1>4, Zenon DEF poll_batches, NotCancelled, durable, cancel_abandoned_batches
  <2>2. PICK answer : items' = Answered(items, answer)
    BY <1>4, Zenon DEF poll_batches, Answered
  <2>3. Jobbed(items') /\ JobsOf(items') = JobsOf(items)
    BY <2>2, SameJobs, Zenon
  <2>4. AccountKept
    BY <2>1, <2>3, Zenon DEF AccountKept
  <2> QED BY <2>1, <2>3, <2>4, DrivenInv, ZenonT(60)
<1>5. CASE poll_refused
  <2>1. /\ Closed("cancelled") /\ pc = "free"
        /\ concluded' = concluded \union owed \union JobsOf(items)
        /\ UNCHANGED <<pc, saved, jobs, lost, kept>>
    BY <1>5, Zenon DEF poll_refused, poll_cancelled, Free, durable
  <2>2. AccountKept
    BY <2>1, Zenon DEF AccountKept
  <2> QED BY <2>1, <2>2, ClosedInv, ZenonT(60)
<1>6. CASE poll_nothing
  <2>1. /\ UNCHANGED <<pc, ports, pending, held, items, cancelled, saved, jobs, lost,
                       kept>>
        /\ concluded' = concluded \union owed
    BY <1>6, Zenon DEF poll_nothing, cancel_abandoned_batches, state, durable
  <2>2. owed \union concluded \subseteq owed' \union concluded'
    BY <2>1, Zenon
  <2> QED BY <2>1, <2>2, ApartInv, Zenon
<1> QED BY <1>1, <1>2, <1>3, <1>4, <1>5, <1>6, ZenonT(60)

(* The run ends in the hands of its driver.                                *)
LEMMA EndsInv ==
  ASSUME WorkflowInv, NEW result, Ends(result), ~cancelled,
         UNCHANGED <<saved, jobs, concluded, lost, kept>>
  PROVE  WorkflowInv'
<1>1. Closed(result) /\ owed' = owed \union JobsOf(items) /\ pc' = "unlock"
  BY Zenon DEF Ends, finish
<1>2. AccountKept
  BY <1>1, Zenon DEF AccountKept
<1> QED BY <1>1, <1>2, ClosedInv, Zenon

(* The item submit_batch_chunks makes of a delivery of the round.          *)
Item(i) == [node |-> wave[i].delivery.to, input |-> wave[i].delivery.from,
            job |-> jobs + 1, state |-> "pending"]

(* A wave's batched deliveries are submitted as vendor jobs.               *)
LEMMA SubmitInv == ASSUME WorkflowInv, Submit PROVE WorkflowInv'
<1> USE DEF WorkflowInv
<1>1. /\ ~cancelled
      /\ UNCHANGED <<cancelled, owed, saved, concluded, lost, kept>>
  BY Zenon DEF Submit, durable
<1>2. CASE UNCHANGED <<items, jobs>>
  <2>1. AccountKept /\ Jobbed(items')
    BY <1>1, <1>2, Zenon DEF AccountKept
  <2> QED BY <1>1, <2>1, DrivenInv, Zenon
<1>3. ASSUME ~UNCHANGED <<items, jobs>> PROVE WorkflowInv'
  <2>1. /\ Chunk # {} /\ jobs' = jobs + 1
        /\ items' = items \union {Item(i) : i \in Chunk}
    BY <1>3, Zenon DEF Submit, submit_batch_chunks, Item
  <2>0. \A i : "job" \in DOMAIN Item(i) /\ Item(i).job = jobs + 1
    BY DEF Item
  <2>2. \A x \in items' : x \in items \/ "job" \in DOMAIN x
    BY <2>0, <2>1, Zenon
  <2>3. PICK x \in items' : x.job = jobs + 1
    BY <2>0, <2>1, Zenon
  <2>4. Jobbed(items')
    BY <2>2, Zenon DEF Jobbed
  <2>5. JobsOf(items) \subseteq JobsOf(items') /\ jobs + 1 \in JobsOf(items')
    <3>1. items \subseteq items'
      BY <2>1, Zenon
    <3> QED BY <2>3, <3>1, Zenon DEF JobsOf
  <2>6. jobs' \in Nat /\ \A n \in 1..jobs' : n \in 1..jobs \/ n = jobs + 1
    BY <2>1
  <2>7. JobsAccounted'
    BY <1>1, <2>5, <2>6, Zenon DEF JobsAccounted
  <2>8. CancelledClosed' /\ Recorded' = Recorded
    BY <1>1, Zenon DEF CancelledClosed, Recorded
  <2> QED BY <1>1, <2>4, <2>6, <2>7, <2>8, Zenon
<1> QED BY <1>2, <1>3, Zenon

(* The steps of the driving loop.                                          *)
LEMMA ExecuteInv ==
  ASSUME WorkflowInv, Prologue \/ LoopEnds \/ Gather \/ Wave \/ Route
  PROVE  WorkflowInv'
<1> USE DEF WorkflowInv
<1>0. JobsOf({}) = {} /\ Jobbed({})
  BY Zenon DEF JobsOf, Jobbed
<1>1. pc \in {"prologue", "round", "wave", "route"}
  BY Zenon DEF Prologue, LoopEnds, Gather, Wave, Route
<1>2. ~cancelled
  BY <1>1, Zenon
<1>3. CASE Prologue
  <2>1. PICK unanswered :
          /\ items' = {} /\ owed' = owed \union JobsOf(unanswered)
          /\ concluded' = concluded \union JobsOf(items \ unanswered)
    BY <1>3, Zenon DEF Prologue
  <2>2. UNCHANGED <<cancelled, saved, jobs, lost, kept>>
    BY <1>3, Zenon DEF Prologue, durable
  <2>3. \A x \in JobsOf(items) : x \in JobsOf(unanswered) \/ x \in JobsOf(items \ unanswered)
    BY Zenon DEF JobsOf
  <2>4. AccountKept
    BY <2>1, <2>2, <2>3, ZenonT(60) DEF AccountKept
  <2> QED BY <1>0, <1>2, <2>1, <2>2, <2>4, DrivenInv, ZenonT(60)
<1>4. CASE LoopEnds
  <2>1. PICK result : Ends(result)
    BY <1>4, Zenon DEF LoopEnds
  <2>2. UNCHANGED <<saved, jobs, concluded, lost, kept>>
    BY <1>4, Zenon DEF LoopEnds, durable, account
  <2> QED BY <1>2, <2>1, <2>2, EndsInv, Zenon
<1>5. ASSUME UNCHANGED <<batch, cancelled, saved, account>> PROVE WorkflowInv'
  <2>1. UNCHANGED <<items, owed, cancelled, jobs, concluded, lost, kept>>
    BY <1>5, Zenon DEF batch, account
  <2>2. AccountKept /\ Jobbed(items')
    BY <2>1, Zenon DEF AccountKept
  <2> QED BY <1>2, <1>5, <2>1, <2>2, DrivenInv, ZenonT(60)
<1>6. CASE Gather \/ Wave
  BY <1>5, <1>6, Zenon DEF Gather, Wave, durable
<1>7. CASE Route
  <2>1. UNCHANGED <<saved, account>>
    BY <1>7, Zenon DEF Route, durable
  <2>2. ASSUME NEW result, Ends(result) PROVE WorkflowInv'
    BY <1>2, <2>1, <2>2, EndsInv, ZenonT(60) DEF account
  <2>3. CASE owed' = owed \union JobsOf(items) /\ items' = {} /\ UNCHANGED cancelled
    <3>1. AccountKept
      BY <2>1, <2>3, Zenon DEF AccountKept, account
    <3> QED BY <1>0, <1>2, <2>1, <2>3, <3>1, DrivenInv, ZenonT(60) DEF account
  <2>4. CASE UNCHANGED <<batch, cancelled>>
    BY <1>5, <2>1, <2>4, ZenonT(60)
  <2> QED BY <1>7, <2>2, <2>3, <2>4, ZenonT(60) DEF Route
<1> QED BY <1>3, <1>4, <1>6, <1>7, ZenonT(60)

(* The record taken at the end of a round, and one a host asks for.        *)
LEMMA CheckpointInv ==
  ASSUME WorkflowInv, Checkpoint \/ save_workflow_checkpoint
  PROVE  WorkflowInv'
<1>1. UNCHANGED <<ports, pending, held, items, owed, cancelled, jobs, concluded>>
  BY Zenon DEF Checkpoint, save_workflow_checkpoint, state, batch
<1>2. ~cancelled \/ pc' = pc
  BY Zenon DEF Checkpoint, save_workflow_checkpoint, WorkflowInv
<1>3. CASE Save
  BY <1>1, <1>2, <1>3, SaveInv, Zenon
<1>4. CASE Checkpoint /\ UNCHANGED <<saved, kept, lost>>
  <2>1. ~cancelled
    BY <1>4, Zenon DEF Checkpoint, WorkflowInv
  <2>2. AccountKept /\ Jobbed(items')
    BY <1>1, <1>4, Zenon DEF AccountKept, WorkflowInv
  <2> QED BY <1>1, <1>4, <2>1, <2>2, DrivenInv, Zenon
<1> QED BY <1>3, <1>4, Zenon DEF Checkpoint, save_workflow_checkpoint

(* Suspension, unlocking, and cancel() in its three steps.                 *)
LEMMA StopInv ==
  ASSUME WorkflowInv,
         Suspend \/ Unlock
         \/ \E k \in Cancellers : CancelCopies(k) \/ CancelStops(k) \/ CancelSettles(k)
  PROVE  WorkflowInv'
<1> USE DEF WorkflowInv
<1>1. CASE Suspend
  <2>0. ~cancelled /\ UNCHANGED <<saved, jobs, lost, kept>>
    <3>1. pc \in {"suspend", "return"}
      BY <1>1, Zenon DEF Suspend
    <3>2. ~cancelled
      BY <3>1, Zenon
    <3> QED BY <1>1, <3>2, Zenon DEF Suspend, durable
  <2>1. CASE UNCHANGED <<state, batch, wave, cancelled, concluded>>
    <3>1. AccountKept /\ Jobbed(items')
      BY <2>0, <2>1, Zenon DEF AccountKept, batch
    <3> QED BY <2>0, <2>1, <3>1, DrivenInv, Zenon
  <2>2. CASE Ends("cancelled") /\ UNCHANGED concluded
    BY <2>0, <2>2, EndsInv, Zenon
  <2>3. CASE poll_cancelled /\ pc' = "unlock"
    <3>1. Closed("cancelled") /\ concluded' = concluded \union owed \union JobsOf(items)
      BY <2>3, Zenon DEF poll_cancelled
    <3>2. AccountKept
      BY <2>0, <3>1, Zenon DEF AccountKept
    <3> QED BY <2>0, <2>3, <3>1, <3>2, ClosedInv, Zenon
  <2> QED BY <1>1, <2>1, <2>2, <2>3, Zenon DEF Suspend
<1>2. CASE Unlock
  <2>1. /\ UNCHANGED <<ports, pending, held, items, cancelled, saved, jobs, lost, kept,
                       owed, concluded>>
        /\ pc = "unlock" /\ pc' = "free"
    BY <1>2, Zenon DEF Unlock, state, batch, durable, account
  <2> QED BY <2>1, ApartInv, Zenon
<1>3. ASSUME UNCHANGED <<pc, state, batch, cancelled, durable, account>>
      PROVE  WorkflowInv'
  <2>1. UNCHANGED <<pc, ports, pending, held, items, cancelled, saved, jobs, lost, kept,
                    owed, concluded>>
    BY <1>3, Zenon DEF state, batch, durable, account
  <2> QED BY <2>1, ApartInv, ZenonT(60)
<1>4. ASSUME NEW k \in Cancellers, CancelCopies(k) \/ CancelStops(k) PROVE WorkflowInv'
  BY <1>3, <1>4, Zenon DEF CancelCopies, CancelStops
<1>5. ASSUME NEW k \in Cancellers, CancelSettles(k) PROVE WorkflowInv'
  <2>1. CASE Free /\ ~cancelled /\ awaiting_outside
    <3>1. /\ Closed("cancelled") /\ owed' = owed \union JobsOf(items) /\ pc = "free"
          /\ UNCHANGED <<pc, saved, jobs, concluded, lost, kept>>
      BY <1>5, <2>1, Zenon DEF CancelSettles, finish, Free, durable, account
    <3>2. AccountKept
      BY <3>1, Zenon DEF AccountKept
    <3> QED BY <3>1, <3>2, ClosedInv, Zenon
  <2>2. CASE ~(Free /\ ~cancelled /\ awaiting_outside)
    BY <1>3, <1>5, <2>2, Zenon DEF CancelSettles
  <2> QED BY <2>1, <2>2, Zenon
<1> QED BY <1>1, <1>2, <1>4, <1>5, ZenonT(60)

(* A crash, and a record read back.                                        *)
LEMMA RestartInv == ASSUME WorkflowInv, restore_from_record \/ Crash PROVE WorkflowInv'
<1> USE DEF WorkflowInv
<1>0. JobsOf({}) = {} /\ Jobbed({})
  BY Zenon DEF JobsOf, Jobbed
<1>1. CASE restore_from_record
  <2>1. /\ saved # NoRecord /\ items' = saved.items /\ cancelled' = saved.cancelled
        /\ ports' = saved.ports /\ pending' = saved.pending /\ held' = saved.held
        /\ owed' = owed \union (JobsOf(items) \ JobsOf(saved.items)) \union saved.owed
        /\ pc' = "free" /\ kept' = {} /\ UNCHANGED <<saved, jobs, concluded, lost>>
    BY <1>1, Zenon DEF restore_from_record, durable, Free
  <2>2. kept \subseteq JobsOf(saved.items) \union saved.owed
    BY <2>1, Zenon DEF Recorded
  <2>3. AccountKept
    BY <2>1, <2>2, Zenon DEF AccountKept
  <2>4. JobsAccounted' /\ jobs' \in Nat
    BY <2>3, Accounted, Zenon
  <2>5. ClosedRecord(saved)
    BY <2>1, Zenon
  <2>6. CancelledClosed' /\ cancelled' \in BOOLEAN /\ Jobbed(items')
    BY <2>1, <2>5, Zenon DEF CancelledClosed, ClosedRecord
  <2> QED BY <2>1, <2>4, <2>5, <2>6, Zenon
<1>2. CASE Crash
  <2>1. PICK known :
          /\ known = JobsOf(items) \union owed \union kept
          /\ kept' = known \intersect Recorded /\ lost' = lost \union (known \ Recorded)
    BY <1>2, Zenon DEF Crash
  <2>2. /\ pc' = "free" /\ ports' = {} /\ items' = {} /\ owed' = {} /\ cancelled' = FALSE
        /\ UNCHANGED <<saved, jobs, concluded>>
    BY <1>2, Zenon DEF Crash
  <2>3. AccountKept
    BY <2>1, <2>2, Zenon DEF AccountKept
  <2>4. JobsAccounted' /\ jobs' \in Nat
    BY <2>3, Accounted, Zenon
  <2>5. CancelledClosed'
    BY <2>2, Zenon DEF CancelledClosed
  <2>6. Recorded' = Recorded
    BY <2>2, Zenon DEF Recorded
  <2> QED BY <1>0, <2>1, <2>2, <2>4, <2>5, <2>6, ZenonT(60)
<1> QED BY <1>1, <1>2, Zenon

(* WorkflowInv is an invariant of the run.                                 *)
LEMMA WorkflowInvariance == Spec => []WorkflowInv
<1>1. WorkflowInv /\ [Next]_vars => WorkflowInv'
  <2> SUFFICES ASSUME WorkflowInv, [Next]_vars PROVE WorkflowInv'
    BY Zenon
  <2>1. CASE UNCHANGED vars
    <3>1. UNCHANGED <<pc, ports, pending, held, items, cancelled, saved, jobs, lost,
                      kept, owed, concluded>>
      BY <2>1, Zenon DEF vars, state, batch, durable, account
    <3> QED BY <3>1, ApartInv, Zenon
  <2> QED BY <2>1, EntryInv, ExecuteInv, CheckpointInv, SubmitInv, StopInv, RestartInv, ZenonT(60) DEF Next
<1> QED BY <1>1, InitInv, PTL DEF Spec

(* No paid vendor job is silently dropped: each one is held by an item of  *)
(* the run, or was folded or cancelled, or is owed a cancel; only a crash  *)
(* makes the program forget one, and the checkpoint still knows it unless  *)
(* it was written before the job, or is never restored                     *)
(* (abandon_batch_items, finish, restore_from_record).                     *)
THEOREM NoJobDropped == Spec => []JobsAccounted
<1>1. WorkflowInv => JobsAccounted
  BY Zenon DEF WorkflowInv
<1> QED BY <1>1, WorkflowInvariance, PTL

(* A cancelled run never moves again: it has no port to answer, no item to *)
(* poll and no delivery to make, whichever of cancel() and the entry       *)
(* points settled it (close_run_for_cancel, refuse_if_cancelled).          *)
THEOREM CancelIsFinal == Spec => []CancelledClosed
<1>1. WorkflowInv => CancelledClosed
  BY Zenon DEF WorkflowInv
<1> QED BY <1>1, WorkflowInvariance, PTL

-----------------------------------------------------------------------------
\* The record w's append put in the log is still there, under its number.
(* A writer that has a place in the log finds its record there.            *)
Placed(w) == at[w] # 0 => at[w] \in 1..Len(log) /\ log[at[w]] = E!EntryOf(w)

(* The promises stand and every writer's record is where it was put.       *)
Sound == E!Kept(log) /\ \A w \in Writers : Placed(w)

(* The intent of k was promised.                                           *)
IntentPromised(k) == \E p \in promised : p[2] = E!Entry(k, "intent")

(* The types the proof needs.                                              *)
JTypeOK ==
    /\ log \in Seq(E!JournalRecords)
    /\ refused \in BOOLEAN /\ waived \in BOOLEAN
    /\ promised \subseteq (Nat \X E!JournalRecords)
    /\ at \in [Writers -> Nat]
    /\ stage \in [Writers -> E!Stages]
    /\ key \in [Writers -> Keys \cup {NoKey}]
    /\ performed \subseteq Keys

(* A writer at work has a key, and performs only what it promised.         *)
Working ==
    \A w \in Writers :
        /\ stage[w] # "idle" => key[w] \in Keys
        /\ at[w] # 0 => E!Appending(w)
        /\ stage[w] \in {"intended", "done", "concluding"} => IntentPromised(key[w])

\* The inductive invariant.
(* The inductive invariant of the journal.                                 *)
JInv ==
    /\ JTypeOK
    /\ Working
    /\ refused \/ waived \/ Sound
    /\ \A k \in performed : IntentPromised(k)

(* It holds at the start.                                                  *)
LEMMA JournalInit == E!Init => JInv
<1> SUFFICES ASSUME E!Init PROVE JInv
  BY Zenon
<1> USE DEF E!Init, E!LogInit
<1>01. <<>> \in Seq(E!JournalRecords)
  OBVIOUS
<1>02. /\ at \in [Writers -> Nat]
       /\ stage \in [Writers -> E!Stages]
       /\ key \in [Writers -> Keys \cup {NoKey}]
  BY Zenon DEF E!Stages
<1>1. JTypeOK
  BY <1>01, <1>02, Zenon DEF JTypeOK
<1>2. Working
  BY Zenon DEF Working
<1>3. Sound
  BY Zenon DEF Sound, E!Kept, Placed
<1> QED BY <1>1, <1>2, <1>3 DEF JInv

\* A record added at the end leaves the others where they are.
(* Appending moves nothing.                                                *)
LEMMA AppendKeeps ==
    ASSUME NEW S, NEW s \in Seq(S), NEW e \in S
    PROVE  /\ Append(s, e) \in Seq(S)
           /\ Len(Append(s, e)) = Len(s) + 1
           /\ Append(s, e)[Len(s) + 1] = e
           /\ \A i \in 1..Len(s) : Append(s, e)[i] = s[i]
OBVIOUS

\* Cutting the end leaves a log.
(* A prefix of a log is a log.                                             *)
LEMMA CutKeepsType ==
    ASSUME NEW S, NEW s \in Seq(S), NEW n \in 0..Len(s)
    PROVE  SubSeq(s, 1, n) \in Seq(S)
OBVIOUS

\* An entry of a working executor is a record of the journal.
(* A writer at work writes a record.                                       *)
LEMMA EntryTyped ==
    ASSUME JInv, NEW w \in Writers, stage[w] # "idle"
    PROVE  E!EntryOf(w) \in E!JournalRecords
BY Zenon DEF JInv, Working, E!EntryOf, E!Entry, E!JournalRecords

(* The intent is written before the effect.                                *)
LEMMA IntentStep ==
    ASSUME JInv, NEW w \in Writers, NEW k \in Keys, E!JournalIntent(w, k)
    PROVE  JInv'
<1> USE DEF JInv, E!JournalIntent, E!logVars
<1>1. JTypeOK'
  BY Zenon DEF JTypeOK, E!Stages
<1>2. at[w] = 0
  BY Zenon DEF Working, E!Appending
<1>3. Working'
  BY <1>2, ZenonT(60) DEF Working, E!Appending, IntentPromised, JTypeOK
<1>4. ASSUME Sound PROVE Sound'
  BY <1>2, <1>4, ZenonT(60) DEF Sound, E!Kept, Placed, E!EntryOf, E!Entry, JTypeOK
<1> QED BY <1>1, <1>3, <1>4 DEF IntentPromised

(* The effect takes place.                                                 *)
LEMMA PerformStep ==
    ASSUME JInv, NEW w \in Writers, E!Perform(w)
    PROVE  JInv'
<1> USE DEF JInv, E!Perform, E!logVars
<1>1. key[w] \in Keys /\ IntentPromised(key[w]) /\ at[w] = 0
  BY Zenon DEF Working, E!Appending
<1>2. JTypeOK'
  BY <1>1, Zenon DEF JTypeOK, E!Stages
<1>3. Working'
  BY <1>1, Zenon DEF Working, E!Appending, IntentPromised, JTypeOK
<1>4. ASSUME Sound PROVE Sound'
  BY <1>1, <1>4, Zenon DEF Sound, E!Kept, Placed, E!EntryOf, E!Entry, JTypeOK
<1> QED BY <1>1, <1>2, <1>3, <1>4, SMTT(60) DEF IntentPromised

(* The outcome is written after it.                                        *)
LEMMA OutcomeStep ==
    ASSUME JInv, NEW w \in Writers, E!JournalOutcome(w)
    PROVE  JInv'
<1> USE DEF JInv, E!JournalOutcome, E!logVars
<1>1. key[w] \in Keys /\ IntentPromised(key[w]) /\ at[w] = 0
  BY Zenon DEF Working, E!Appending
<1>2. JTypeOK'
  BY <1>1, Zenon DEF JTypeOK, E!Stages
<1>3. Working'
  BY <1>1, Zenon DEF Working, E!Appending, IntentPromised, JTypeOK
<1>4. ASSUME Sound PROVE Sound'
  BY <1>1, <1>4, Zenon DEF Sound, E!Kept, Placed, E!EntryOf, E!Entry, JTypeOK
<1> QED BY <1>1, <1>2, <1>3, <1>4, SMTT(60) DEF IntentPromised

(* The record gets its place.                                              *)
LEMMA CommitStep ==
    ASSUME JInv, NEW w \in Writers, E!EntryCommitted(w)
    PROVE  JInv'
<1> DEFINE r == E!EntryOf(w)
<1> USE DEF JInv, E!EntryCommitted, E!Commit, E!journalVars
<1>1. r \in E!JournalRecords
  BY EntryTyped, Zenon DEF E!Appending
<1>2. log \in Seq(E!JournalRecords)
  BY Zenon DEF JTypeOK
<1>3. /\ log' \in Seq(E!JournalRecords)
      /\ Len(log') = Len(log) + 1
      /\ log'[Len(log) + 1] = r
      /\ \A i \in 1..Len(log) : log'[i] = log[i]
  BY <1>1, <1>2, AppendKeeps, SMTT(60)
<1>4. Len(log) \in Nat
  BY <1>2, SMTT(60)
<1>5. JTypeOK'
  BY <1>3, <1>4, SMTT(60) DEF JTypeOK
<1>6. Working'
  BY <1>4, Zenon DEF Working, E!Appending, IntentPromised, JTypeOK
<1>7. \A v \in Writers : E!EntryOf(v)' = E!EntryOf(v)
  BY Zenon DEF E!EntryOf, E!Entry
<1>8. ASSUME Sound PROVE Sound'
  <2>1. E!Kept(log)'
    BY <1>3, <1>4, <1>8, SMTT(60) DEF Sound, E!Kept
  <2>2. ASSUME NEW v \in Writers PROVE Placed(v)'
    <3>1. CASE v = w
      BY <1>3, <1>4, <1>7, <3>1, SMTT(60) DEF Placed, JTypeOK
    <3>2. CASE v # w
      BY <1>3, <1>4, <1>7, <1>8, <3>2, SMTT(60) DEF Placed, Sound, JTypeOK
    <3> QED BY <3>1, <3>2, SMTT(60)
  <2> QED BY <2>1, <2>2, SMTT(60) DEF Sound
<1> QED BY <1>5, <1>6, <1>8, SMTT(60) DEF IntentPromised

(* The record's number is returned.                                        *)
LEMMA PromiseStep ==
    ASSUME JInv, NEW w \in Writers, E!EntryPromised(w)
    PROVE  JInv'
<1> DEFINE r == E!EntryOf(w)
           new == <<at[w], r>>
<1> USE DEF JInv
<1>1. /\ at[w] # 0 /\ promised' = promised \cup {new}
      /\ at' = [at EXCEPT ![w] = 0]
      /\ UNCHANGED <<mode, log, refused, waived, performed>>
      /\ E!Appending(w)
  BY Zenon DEF E!EntryPromised, E!Promise
<1>2. r \in E!JournalRecords /\ at[w] \in Nat
  BY <1>1, EntryTyped, Zenon DEF E!Appending, JTypeOK
<1>3. /\ stage' \in [Writers -> E!Stages]
      /\ key' \in [Writers -> Keys \cup {NoKey}]
  BY <1>1, Zenon DEF E!EntryPromised, E!Leave, JTypeOK, E!Stages
<1>31. new \in Nat \X E!JournalRecords
  BY <1>2, Zenon
<1>32. promised' \subseteq (Nat \X E!JournalRecords)
  BY <1>1, <1>31, Zenon DEF JTypeOK
<1>4. JTypeOK'
  BY <1>1, <1>3, <1>32, Zenon DEF JTypeOK
<1>5. \A k \in Keys : IntentPromised(k) => IntentPromised(k)'
  BY <1>1, ZenonT(60) DEF IntentPromised
<1>6. ASSUME stage[w] = "intending" PROVE IntentPromised(key[w])'
  <2>1. new \in promised' /\ new[2] = r
    BY <1>1, Zenon
  <2>2. r = E!Entry(key[w], "intent") /\ key' = key
    BY <1>6, Zenon DEF E!EntryOf, E!EntryPromised
  <2> QED BY <2>1, <2>2, SMTT(60) DEF IntentPromised
<1>7. \A v \in Writers \ {w} : stage'[v] = stage[v] /\ key'[v] = key[v] /\ at'[v] = at[v]
  BY Zenon DEF E!EntryPromised, E!Promise, E!Leave, JTypeOK
<1>8. /\ at'[w] = 0
      /\ stage'[w] \in {"intended", "idle"}
      /\ stage'[w] = "intended" => stage[w] = "intending" /\ key'[w] = key[w]
  BY <1>1, ZenonT(60) DEF E!EntryPromised, E!Leave, JTypeOK
<1>9. Working'
  <2> SUFFICES ASSUME NEW v \in Writers
               PROVE  /\ stage'[v] # "idle" => key'[v] \in Keys
                      /\ at'[v] # 0 => E!Appending(v)'
                      /\ stage'[v] \in {"intended", "done", "concluding"} =>
                            IntentPromised(key[v])'
    BY Zenon DEF Working
  <2>1. CASE v = w
    BY <1>6, <1>8, <2>1, ZenonT(60) DEF Working, IntentPromised
  <2>2. CASE v # w
    BY <1>5, <1>7, <2>2, SMTT(60) DEF Working, E!Appending, IntentPromised
  <2> QED BY <2>1, <2>2, SMTT(60)
<1>10. ASSUME Sound PROVE Sound'
  <2>1. at[w] \in 1..Len(log) /\ log[at[w]] = r
    BY <1>1, <1>10, Zenon DEF Sound, Placed
  <2>2. E!Kept(log)'
    BY <1>1, <1>10, <2>1, SMTT(60) DEF Sound, E!Kept
  <2>3. \A v \in Writers \ {w} : E!EntryOf(v)' = E!EntryOf(v)
    BY <1>7, Zenon DEF E!EntryOf, E!Entry
  <2>4. \A v \in Writers : Placed(v)'
    BY <1>1, <1>7, <1>8, <1>10, <2>3, ZenonT(60) DEF Sound, Placed
  <2> QED BY <2>2, <2>4, SMTT(60) DEF Sound
<1>11. \A k \in performed' : IntentPromised(k)'
  BY <1>1, <1>5, Zenon DEF JTypeOK
<1> QED BY <1>1, <1>4, <1>9, <1>10, <1>11, SMTT(60)

(* A writer stops.                                                         *)
LEMMA StoppedStep ==
    ASSUME JInv, NEW w \in Writers, E!Stopped(w)
    PROVE  JInv'
<1> USE DEF JInv, E!Stopped, E!Abandon, E!Leave
<1>1. JTypeOK'
  BY Zenon DEF JTypeOK, E!Stages
<1>2. Working'
  BY Zenon DEF Working, E!Appending, IntentPromised, JTypeOK
<1>3. ASSUME Sound PROVE Sound'
  BY <1>3, ZenonT(60) DEF Sound, E!Kept, Placed, E!EntryOf, E!Entry, JTypeOK
<1> QED BY <1>1, <1>2, <1>3 DEF IntentPromised

(* A crash or a power loss.                                                *)
LEMMA OutageStep ==
    ASSUME JInv, E!Outage
    PROVE  JInv'
<1> USE DEF JInv, E!Outage
<1>1. log' \in Seq(E!JournalRecords)
  BY CutKeepsType DEF E!PowerLoss, JTypeOK
<1>2. JTypeOK'
  BY <1>1, Zenon DEF E!PowerLoss, JTypeOK, E!Stages
<1>3. Working'
  BY Zenon DEF E!PowerLoss, Working, E!Appending
<1>4. refused' \/ waived' \/ Sound'
  BY Zenon DEF E!PowerLoss, Sound, E!Kept, Placed
<1> QED BY <1>2, <1>3, <1>4, SMTT(60) DEF E!PowerLoss, IntentPromised

(* The file is damaged.                                                    *)
LEMMA RotStep ==
    ASSUME JInv, E!Rot
    PROVE  JInv'
<1> USE DEF JInv, E!Rot, E!journalVars
<1>1. log' \in Seq(E!JournalRecords)
  BY CutKeepsType DEF E!Damage, JTypeOK
<1>2. JTypeOK'
  BY <1>1, Zenon DEF E!Damage, JTypeOK
<1>3. Working'
  BY Zenon DEF E!Damage, Working, E!Appending, IntentPromised
<1> QED BY <1>2, <1>3 DEF E!Damage, IntentPromised

(* Every step keeps the invariant.                                         *)
LEMMA JournalNext == JInv /\ [E!Next]_(E!vars) => JInv'
<1> SUFFICES ASSUME JInv, [E!Next]_(E!vars) PROVE JInv'
  BY Zenon
<1>1. CASE UNCHANGED E!vars
  BY <1>1, ZenonT(60) DEF E!vars, E!logVars, E!journalVars, JInv, JTypeOK, Working, Sound, E!Kept, Placed,
              E!EntryOf, E!Entry, E!Appending, IntentPromised
<1>2. ASSUME NEW w \in Writers, NEW k \in Keys, E!JournalIntent(w, k) PROVE JInv'
  BY <1>2, IntentStep, Zenon
<1>3. ASSUME NEW w \in Writers, E!Perform(w) \/ E!JournalOutcome(w) PROVE JInv'
  BY <1>3, PerformStep, OutcomeStep, ZenonT(60)
<1>4. ASSUME NEW w \in Writers, E!EntryCommitted(w) \/ E!EntryPromised(w) \/ E!Stopped(w) PROVE JInv'
  BY <1>4, CommitStep, PromiseStep, StoppedStep, ZenonT(60)
<1>5. CASE E!Outage \/ E!Rot
  BY <1>5, OutageStep, RotStep, ZenonT(60)
<1> QED BY <1>1, <1>2, <1>3, <1>4, <1>5, SMTT(60) DEF E!Next

(* JInv is an invariant of the journal.                                    *)
LEMMA JournalInvariance == E!Spec => []JInv
<1> QED BY JournalInit, JournalNext, PTL DEF E!Spec

\* Kept promises give each number to one record.
(* A number was promised once.                                             *)
LEMMA NumbersUnique ==
    ASSUME JInv, E!Kept(log), NEW p \in promised, NEW q \in promised, p[1] = q[1]
    PROVE  p = q
<1>1. p \in Nat \X E!JournalRecords /\ q \in Nat \X E!JournalRecords
  BY Zenon DEF JInv, JTypeOK
<1>2. p[2] = q[2]
  BY DEF E!Kept
<1> QED BY <1>1, <1>2

(***************************************************************************)
(* An append log never goes back on a sequence number it returned: it is   *)
(* still the number of that record, and of no other, after any crash, and  *)
(* after any power loss in disk mode, unless the log refuses to be read    *)
(* (append_blocking and read_from_blocking of append_log_file.cpp).        *)
(***************************************************************************)
THEOREM SequenceNumbersStand == E!Spec => []E!PromisesKept
<1>1. JInv => E!PromisesKept
  BY NumbersUnique, ZenonT(60) DEF JInv, Sound, E!PromisesKept
<1> QED BY <1>1, JournalInvariance, PTL

(***************************************************************************)
(* On resume the journal accounts for every effect that took place, and    *)
(* never asks again about one whose outcome it confirmed                   *)
(* (unconfirmed_effect_intents of effect_journal.hpp).                     *)
(***************************************************************************)
THEOREM EveryEffectAccounted == E!Spec => []E!EffectsAccounted
<1>1. ASSUME JInv, Sound, NEW k, NEW ph, NEW p \in promised, p[2] = E!Entry(k, ph)
      PROVE  \E i \in 1..Len(log) : log[i] = E!Entry(k, ph)
  BY <1>1, Zenon DEF Sound, E!Kept
<1>2. ASSUME JInv, Sound PROVE performed \subseteq E!Journaled("intent")
  BY <1>1, <1>2, Zenon DEF JInv, JTypeOK, IntentPromised, E!Journaled
<1>3. ASSUME JInv, Sound, NEW k \in Keys, NEW p \in promised, p[2] = E!Entry(k, "outcome")
      PROVE  k \notin E!unconfirmed_effect_intents
  BY <1>1, <1>3, Zenon DEF E!Journaled, E!unconfirmed_effect_intents
<1>4. JInv => E!EffectsAccounted
  BY <1>2, <1>3, Zenon DEF JInv, E!EffectsAccounted
<1> QED BY <1>4, JournalInvariance, PTL

=============================================================================
