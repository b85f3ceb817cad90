-------------------------- MODULE OffloadPoolProofs -------------------------
(***************************************************************************)
(* OffloadPool for any set of jobs and any number of workers: a caller is  *)
(* resumed at most once and a canceled body never runs.  The argument is   *)
(* that JobBase::state_ alone says what was done to a job: each ending     *)
(* transition leaves the states from which another one could start.        *)
(***************************************************************************)
EXTENDS OffloadPool, TLAPS

(* What the state word says of the body.                                   *)
NotStarted == {"Arming", "Queued", "CanceledArming", "CanceledQueued", "AbandonedQueued"}

(* A body was started exactly once in every other state.                   *)
BodyCounted ==
    \A j \in Jobs : IF state[j] \in NotStarted THEN bodies[j] = 0 ELSE bodies[j] = 1

(* Nobody was resumed while the job may still end.                         *)
OpenUndelivered ==
    \A j \in Jobs : state[j] \in {"Arming", "Queued", "Running"} => resumes[j] = 0

(* Until try_arm, await_suspend alone may resume, and a racing cancel      *)
(* leaves the job to it.                                                   *)
ArmingUndelivered ==
    \A j \in Jobs : sus[j] \in {"new", "arming"} =>
        state[j] \in {"Arming", "CanceledArming"} /\ resumes[j] = 0

WorkerHolds == \A w \in Workers : wpc[w] \in {"took", "body"} => wjob[w] \in Jobs

Inv ==
    /\ JobTypeOK /\ PoolTypeOK /\ WorkerTypeOK /\ WorkerHolds
    /\ BodyCounted /\ OpenUndelivered /\ ArmingUndelivered /\ DeliveredOnce

(* Before anything happens no caller was resumed and no body started.      *)
LEMMA InitInv == Init => Inv
<1> SUFFICES ASSUME Init PROVE Inv
  BY Zenon
<1>1. JobTypeOK /\ WorkerTypeOK
  BY Zenon DEF Init, JobTypeOK, WorkerTypeOK, States
<1>2. PoolTypeOK
  <2>1. shut \in BOOLEAN
    BY Zenon DEF Init
  <2> QED
    BY <2>1 DEF Init, PoolTypeOK
<1>3. WorkerHolds /\ BodyCounted
  BY Zenon DEF Init, WorkerHolds, BodyCounted, NotStarted
<1>4. OpenUndelivered /\ ArmingUndelivered /\ DeliveredOnce
  BY DEF Init, OpenUndelivered, ArmingUndelivered, DeliveredOnce
<1> QED
  BY <1>1, <1>2, <1>3, <1>4, Zenon DEF Inv

(* cancel() of a job (by a stop callback or by shutdown) keeps the         *)
(* invariant whatever it finds.                                            *)
LEMMA CancelInv ==
  ASSUME Inv, NEW j \in Jobs, Cancel(j), UNCHANGED <<sus, bodies, result>>
  PROVE  JobTypeOK' /\ BodyCounted' /\ OpenUndelivered' /\ ArmingUndelivered' /\ DeliveredOnce'
<1> USE DEF JobTypeOK, States, BodyCounted, NotStarted, OpenUndelivered, ArmingUndelivered,
            DeliveredOnce
<1>1. CASE state[j] = "Arming"
  BY <1>1 DEF Cancel, Inv
<1>2. CASE state[j] = "Queued"
  <2>1. state' = [state EXCEPT ![j] = "CanceledQueued"] /\ Deliver(j)
    BY <1>2, Zenon DEF Cancel
  <2> QED
    BY <1>2, <2>1 DEF Deliver, Inv
<1>3. CASE state[j] = "Running"
  <2>1. state' = [state EXCEPT ![j] = "CanceledRunning"] /\ Deliver(j)
    BY <1>3, Zenon DEF Cancel
  <2> QED
    BY <1>3, <2>1 DEF Deliver, Inv
<1>4. CASE state[j] \notin {"Arming", "Queued", "Running"}
  BY <1>4, ZenonT(60) DEF Cancel, Inv
<1> QED
  BY <1>1, <1>2, <1>3, <1>4, Zenon

(* Every step of every actor keeps the invariant.                          *)
LEMMA NextInv == Inv /\ [Next]_vars => Inv'
<1> SUFFICES ASSUME Inv, [Next]_vars PROVE Inv'
  BY Zenon
<1> USE DEF Inv
<1>1. CASE UNCHANGED vars
  <2>1. PoolTypeOK'
    BY <1>1, Zenon DEF vars, jobVars, poolVars, workerVars, PoolTypeOK
  <2>2. JobTypeOK' /\ WorkerTypeOK' /\ WorkerHolds'
    BY <1>1, Zenon DEF vars, jobVars, poolVars, workerVars, JobTypeOK, States, WorkerTypeOK,
                WorkerHolds
  <2>3. BodyCounted' /\ OpenUndelivered' /\ ArmingUndelivered' /\ DeliveredOnce'
    BY <1>1, Zenon DEF vars, jobVars, poolVars, workerVars, BodyCounted, NotStarted, OpenUndelivered,
                ArmingUndelivered, DeliveredOnce, JobTypeOK, WorkerTypeOK, States
  <2> QED
    BY <2>1, <2>2, <2>3, Zenon
<1>2. ASSUME NEW j \in Jobs, Register(j) PROVE Inv'
  <2>1. PoolTypeOK'
    BY <1>2, Zenon DEF Register, poolVars, workerVars, PoolTypeOK
  <2>2. JobTypeOK' /\ WorkerTypeOK' /\ WorkerHolds'
    BY <1>2, Zenon DEF Register, poolVars, workerVars, JobTypeOK, States, WorkerTypeOK, WorkerHolds
  <2>3. BodyCounted' /\ OpenUndelivered' /\ ArmingUndelivered' /\ DeliveredOnce'
    BY <1>2, ZenonT(60) DEF Register, poolVars, workerVars, BodyCounted, NotStarted, OpenUndelivered,
                ArmingUndelivered, DeliveredOnce, JobTypeOK, WorkerTypeOK, States
  <2> QED
    BY <2>1, <2>2, <2>3, Zenon
<1>3. ASSUME NEW j \in Jobs, TryArm(j) PROVE Inv'
  <2>1. PoolTypeOK'
    BY <1>3, Zenon DEF TryArm, ResumeInline, poolVars, workerVars, PoolTypeOK
  <2>2. JobTypeOK' /\ WorkerTypeOK' /\ WorkerHolds'
    BY <1>3, SMTT(60) DEF TryArm, ResumeInline, poolVars, workerVars, JobTypeOK, States, WorkerTypeOK,
                WorkerHolds
  <2>3. BodyCounted' /\ OpenUndelivered' /\ ArmingUndelivered' /\ DeliveredOnce'
    BY <1>3, SMTT(60) DEF TryArm, ResumeInline, poolVars, workerVars, BodyCounted, NotStarted,
                OpenUndelivered, ArmingUndelivered, DeliveredOnce, JobTypeOK, WorkerTypeOK,
                States
  <2> QED
    BY <2>1, <2>2, <2>3, Zenon
<1>4. ASSUME NEW j \in Jobs, Submit(j) PROVE Inv'
  <2>1. PoolTypeOK'
    BY <1>4, SMTT(60) DEF Submit, workerVars, PoolTypeOK
  <2>2. JobTypeOK' /\ WorkerTypeOK' /\ WorkerHolds'
    BY <1>4, ZenonT(60) DEF Submit, workerVars, JobTypeOK, States, WorkerTypeOK, WorkerHolds
  <2>3. BodyCounted' /\ OpenUndelivered' /\ ArmingUndelivered' /\ DeliveredOnce'
    BY <1>4 DEF Submit, workerVars, BodyCounted, NotStarted, OpenUndelivered, ArmingUndelivered,
                DeliveredOnce, JobTypeOK, WorkerTypeOK, States
  <2> QED
    BY <2>1, <2>2, <2>3, Zenon
<1>5. ASSUME NEW j \in Jobs, CancelUnsubmitted(j) PROVE Inv'
  <2>1. PoolTypeOK'
    BY <1>5, Zenon DEF CancelUnsubmitted, ResumeInline, poolVars, workerVars, PoolTypeOK
  <2>2. JobTypeOK' /\ WorkerTypeOK' /\ WorkerHolds'
    BY <1>5, SMTT(60) DEF CancelUnsubmitted, ResumeInline, poolVars, workerVars, JobTypeOK, States,
                WorkerTypeOK, WorkerHolds
  <2>3. BodyCounted' /\ OpenUndelivered' /\ ArmingUndelivered' /\ DeliveredOnce'
    BY <1>5, SMTT(60) DEF CancelUnsubmitted, ResumeInline, poolVars, workerVars, BodyCounted, NotStarted,
                OpenUndelivered, ArmingUndelivered, DeliveredOnce, JobTypeOK, WorkerTypeOK,
                States
  <2> QED
    BY <2>1, <2>2, <2>3, Zenon
<1>6. ASSUME NEW j \in Jobs, AwaitResume(j) PROVE Inv'
  <2>1. PoolTypeOK'
    BY <1>6, Zenon DEF AwaitResume, poolVars, workerVars, PoolTypeOK
  <2>2. JobTypeOK' /\ WorkerTypeOK' /\ WorkerHolds'
    BY <1>6, Zenon DEF AwaitResume, poolVars, workerVars, JobTypeOK, States, WorkerTypeOK, WorkerHolds
  <2>3. BodyCounted' /\ OpenUndelivered' /\ ArmingUndelivered' /\ DeliveredOnce'
    BY <1>6, Zenon DEF AwaitResume, poolVars, workerVars, BodyCounted, NotStarted, OpenUndelivered,
                ArmingUndelivered, DeliveredOnce, JobTypeOK, WorkerTypeOK, States
  <2> QED
    BY <2>1, <2>2, <2>3, Zenon
<1>7. ASSUME NEW j \in Jobs, StopRequested(j) PROVE Inv'
  <2>1. Cancel(j) /\ UNCHANGED <<sus, poolVars, workerVars, result>>
    BY <1>7, Zenon DEF StopRequested
  <2>2. PoolTypeOK' /\ WorkerTypeOK' /\ WorkerHolds'
    BY <2>1, Zenon DEF poolVars, workerVars, PoolTypeOK, WorkerTypeOK, WorkerHolds
  <2> QED
    BY <2>1, <2>2, CancelInv, Zenon DEF workerVars
<1>8. ASSUME NEW j \in Jobs, Abandon(j) PROVE Inv'
  <2>1. PoolTypeOK'
    BY <1>8, Zenon DEF Abandon, poolVars, workerVars, PoolTypeOK
  <2>2. JobTypeOK' /\ WorkerTypeOK' /\ WorkerHolds'
    BY <1>8, Zenon DEF Abandon, poolVars, workerVars, JobTypeOK, States, WorkerTypeOK, WorkerHolds
  <2>3. BodyCounted' /\ OpenUndelivered' /\ ArmingUndelivered' /\ DeliveredOnce'
    BY <1>8 DEF Abandon, poolVars, workerVars, BodyCounted, NotStarted, OpenUndelivered,
                ArmingUndelivered, DeliveredOnce, JobTypeOK, WorkerTypeOK, States
  <2> QED
    BY <2>1, <2>2, <2>3, Zenon
<1>9. ASSUME NEW w \in Workers, TakeJob(w) PROVE Inv'
  <2>1. Head(queue) \in Jobs /\ Tail(queue) \in Seq(Jobs)
    BY <1>9 DEF TakeJob, PoolTypeOK
  <2>2. PoolTypeOK'
    BY <1>9, <2>1, Zenon DEF TakeJob, jobVars, PoolTypeOK
  <2>3. JobTypeOK' /\ WorkerTypeOK' /\ WorkerHolds'
    BY <1>9, <2>1, ZenonT(60) DEF TakeJob, jobVars, JobTypeOK, States, WorkerTypeOK, WorkerHolds
  <2>4. BodyCounted' /\ OpenUndelivered' /\ ArmingUndelivered' /\ DeliveredOnce'
    BY <1>9, <2>1, Zenon DEF TakeJob, jobVars, BodyCounted, NotStarted, OpenUndelivered,
                      ArmingUndelivered, DeliveredOnce, JobTypeOK, WorkerTypeOK, States
  <2> QED
    BY <2>2, <2>3, <2>4, Zenon
<1>10. ASSUME NEW w \in Workers, StartBody(w) PROVE Inv'
  <2>1. wjob[w] \in Jobs
    BY <1>10, Zenon DEF StartBody, WorkerHolds
  <2>2. PoolTypeOK'
    BY <1>10, <2>1, Zenon DEF StartBody, poolVars, PoolTypeOK
  <2>3. JobTypeOK' /\ WorkerTypeOK' /\ WorkerHolds'
    BY <1>10, <2>1, SMTT(60) DEF StartBody, poolVars, JobTypeOK, States, WorkerTypeOK, WorkerHolds
  <2>4. BodyCounted' /\ OpenUndelivered' /\ ArmingUndelivered' /\ DeliveredOnce'
    BY <1>10, <2>1 DEF StartBody, poolVars, BodyCounted, NotStarted, OpenUndelivered,
                       ArmingUndelivered, DeliveredOnce, JobTypeOK, WorkerTypeOK, States
  <2> QED
    BY <2>2, <2>3, <2>4, Zenon
<1>11. ASSUME NEW w \in Workers, EndBody(w) PROVE Inv'
  <2>1. wjob[w] \in Jobs
    BY <1>11, Zenon DEF EndBody, WorkerHolds
  <2>2. PoolTypeOK'
    BY <1>11, <2>1, Zenon DEF EndBody, Deliver, poolVars, PoolTypeOK
  <2>3. JobTypeOK' /\ WorkerTypeOK' /\ WorkerHolds'
    BY <1>11, <2>1, SMTT(60) DEF EndBody, Deliver, poolVars, JobTypeOK, States, WorkerTypeOK, WorkerHolds
  <2>4. BodyCounted' /\ OpenUndelivered' /\ ArmingUndelivered' /\ DeliveredOnce'
    BY <1>11, <2>1, SMTT(60) DEF EndBody, Deliver, poolVars, BodyCounted, NotStarted, OpenUndelivered,
                       ArmingUndelivered, DeliveredOnce, JobTypeOK, WorkerTypeOK, States
  <2> QED
    BY <2>2, <2>3, <2>4, Zenon
<1>12. ASSUME NEW w \in Workers, WorkerExits(w) PROVE Inv'
  <2>1. PoolTypeOK'
    BY <1>12, Zenon DEF WorkerExits, jobVars, poolVars, PoolTypeOK
  <2>2. JobTypeOK' /\ WorkerTypeOK' /\ WorkerHolds'
    BY <1>12, ZenonT(60) DEF WorkerExits, jobVars, poolVars, JobTypeOK, States, WorkerTypeOK, WorkerHolds
  <2>3. BodyCounted' /\ OpenUndelivered' /\ ArmingUndelivered' /\ DeliveredOnce'
    BY <1>12, Zenon DEF WorkerExits, jobVars, poolVars, BodyCounted, NotStarted, OpenUndelivered,
                 ArmingUndelivered, DeliveredOnce, JobTypeOK, WorkerTypeOK, States
  <2> QED
    BY <2>1, <2>2, <2>3, Zenon
<1>13. CASE Shutdown
  <2>1. PoolTypeOK'
    BY <1>13 DEF Shutdown, jobVars, workerVars, PoolTypeOK
  <2>2. JobTypeOK' /\ WorkerTypeOK' /\ WorkerHolds'
    BY <1>13, Zenon DEF Shutdown, jobVars, workerVars, JobTypeOK, States, WorkerTypeOK, WorkerHolds
  <2>3. BodyCounted' /\ OpenUndelivered' /\ ArmingUndelivered' /\ DeliveredOnce'
    BY <1>13, Zenon DEF Shutdown, jobVars, workerVars, BodyCounted, NotStarted, OpenUndelivered,
                 ArmingUndelivered, DeliveredOnce, JobTypeOK, WorkerTypeOK, States
  <2> QED
    BY <2>1, <2>2, <2>3, Zenon
<1>14. CASE CancelDrained
  <2>1. Head(drained) \in Jobs /\ Tail(drained) \in Seq(Jobs)
    BY <1>14 DEF CancelDrained, PoolTypeOK
  <2>2. /\ Cancel(Head(drained)) /\ drained' = Tail(drained)
        /\ UNCHANGED <<sus, queue, shut, down, workerVars, result>>
    BY <1>14, Zenon DEF CancelDrained
  <2>3. PoolTypeOK' /\ WorkerTypeOK' /\ WorkerHolds'
    BY <2>1, <2>2, Zenon DEF workerVars, PoolTypeOK, WorkerTypeOK, WorkerHolds
  <2> QED
    BY <2>1, <2>2, <2>3, CancelInv, Zenon DEF workerVars
<1>15. CASE JoinWorkers
  <2>1. PoolTypeOK'
    BY <1>15, Zenon DEF JoinWorkers, jobVars, workerVars, PoolTypeOK
  <2>2. JobTypeOK' /\ WorkerTypeOK' /\ WorkerHolds'
    BY <1>15, Zenon DEF JoinWorkers, jobVars, workerVars, JobTypeOK, States, WorkerTypeOK, WorkerHolds
  <2>3. BodyCounted' /\ OpenUndelivered' /\ ArmingUndelivered' /\ DeliveredOnce'
    BY <1>15, Zenon DEF JoinWorkers, jobVars, workerVars, BodyCounted, NotStarted, OpenUndelivered,
                 ArmingUndelivered, DeliveredOnce, JobTypeOK, WorkerTypeOK, States
  <2> QED
    BY <2>1, <2>2, <2>3, Zenon
<1> QED
  BY Zenon, <1>1, <1>2, <1>3, <1>4, <1>5, <1>6, <1>7, <1>8, <1>9, <1>10, <1>11, <1>12, <1>13,
     <1>14, <1>15 DEF Next, JobStep, WorkerStep

(* The invariant holds throughout.                                         *)
THEOREM InvAlways == Spec => []Inv
  BY InitInv, NextInv, PTL DEF Spec

(* The pool's variables keep their types.                                  *)
THEOREM TypeCorrect == Spec => []TypeOK
<1>1. Inv => TypeOK
  BY Zenon DEF Inv, TypeOK
<1> QED
  BY <1>1, InvAlways, PTL

(* However cancel(), the worker, the refused submit and the destructor     *)
(* race, a coroutine is resumed or posted at most once.                    *)
THEOREM ResumedAtMostOnce == Spec => []DeliveredOnce
<1>1. Inv => DeliveredOnce
  BY Zenon DEF Inv
<1> QED
  BY <1>1, InvAlways, PTL

(* A body starts at most once, and never after its caller was resumed      *)
(* `canceled` or destroyed while the job was queued.                       *)
THEOREM CanceledBodiesNeverRun == Spec => []CanceledNeverRuns
<1>1. ASSUME Inv PROVE CanceledNeverRuns
  <2> SUFFICES ASSUME NEW j \in Jobs
               PROVE  bodies[j] <= 1 /\ (state[j] \in NotStarted => bodies[j] = 0)
    BY Zenon DEF CanceledNeverRuns, NotStarted
  <2> QED
    BY <1>1 DEF Inv, BodyCounted
<1> QED
  BY <1>1, InvAlways, PTL

=============================================================================
