----------------------------- MODULE OffloadPool ----------------------------
(***************************************************************************)
(* rt/offload.hpp: `co_await rt::offload(pool, stop, fn)`.                 *)
(*                                                                         *)
(* A job is shared by its awaiter, a worker thread, the stop callback and  *)
(* the pool's shutdown, all of which race on one atomic state.  Whoever    *)
(* wins the transition that ends the job delivers the continuation.  The   *)
(* thread inside await_suspend and the coroutine it suspends are two       *)
(* actors: once the job is armed, the coroutine may be resumed elsewhere   *)
(* while await_suspend is still submitting.  Workers sleep on a predicate  *)
(* wait, so a worker's step is enabled exactly when the predicate holds.   *)
(***************************************************************************)
EXTENDS Naturals, Sequences

CONSTANTS
    Jobs, Workers,
    Home,    \* Home[j]: "strand" (or block_on), "host" (a Resumer), "none"
    NoJob

ASSUME OffloadAssumption ==
    /\ Home \in [Jobs -> {"strand", "host", "none"}]
    /\ NoJob \notin Jobs

VARIABLES
    state,     \* JobBase::state_
    sus,       \* the thread inside await_suspend
    cont,      \* the awaiting coroutine
    queue,     \* head_ .. tail_
    shut,      \* shut_
    drained,   \* jobs shutdown() took out and still has to cancel
    down,      \* shutdown(): not called, draining, joining, returned
    wpc, wjob, \* each worker and the job it holds
    resumes,   \* how often each coroutine was posted or resumed
    bodies,    \* how often each body was started
    ended,     \* jobs whose body returned or threw
    result,    \* what await_resume returned
    discarded  \* discarded_results_: jobs counted there

jobVars == <<state, sus, cont, resumes>>
poolVars == <<queue, shut, drained, down>>
workerVars == <<wpc, wjob, bodies, ended, discarded>>
vars == <<jobVars, poolVars, workerVars, result>>

States == {"Arming", "Queued", "Running", "Done", "CanceledArming",
           "CanceledQueued", "CanceledRunning", "AbandonedQueued",
           "AbandonedRunning"}

-----------------------------------------------------------------------------
(* JobBase::deliver, by the winner of an ending transition: a homeless     *)
(* waiter is refused, any other one is posted to its home.                 *)
Deliver(j) ==
    IF Home[j] = "none"
    THEN UNCHANGED <<cont, resumes>>
    ELSE /\ cont' = [cont EXCEPT ![j] = IF @ = "suspended" THEN "posted" ELSE @]
         /\ resumes' = [resumes EXCEPT ![j] = @ + 1]

(* await_suspend returns false: the coroutine goes on at once.             *)
ResumeInline(j) ==
    /\ cont' = [cont EXCEPT ![j] = "posted"]
    /\ resumes' = [resumes EXCEPT ![j] = @ + 1]

(* await_suspend up to the registration of the stop callback: the frame is *)
(* suspended and the job is Arming.                                        *)
Register(j) ==
    /\ sus[j] = "new"
    /\ sus' = [sus EXCEPT ![j] = "arming"]
    /\ cont' = [cont EXCEPT ![j] = "suspended"]
    /\ UNCHANGED <<state, resumes, poolVars, workerVars, result>>

(* JobBase::try_arm.                                                       *)
TryArm(j) ==
    /\ sus[j] = "arming"
    /\ \/ /\ state[j] = "Arming"
          /\ state' = [state EXCEPT ![j] = "Queued"]
          /\ sus' = [sus EXCEPT ![j] = "armed"]
          /\ UNCHANGED <<cont, resumes>>
       \/ /\ state[j] # "Arming"
          /\ sus' = [sus EXCEPT ![j] = "out"]
          /\ ResumeInline(j)
          /\ UNCHANGED state
    /\ UNCHANGED <<poolVars, workerVars, result>>

(* Mutant: a closed pool drops the job without a word.                     *)
SubmitDropped(j) ==
    /\ sus[j] = "armed"
    /\ queue' = IF shut THEN queue ELSE Append(queue, j)
    /\ sus' = [sus EXCEPT ![j] = "out"]
    /\ UNCHANGED <<state, cont, resumes, shut, drained, down, workerVars, result>>

(* OffloadPool::submit.                                                    *)
Submit(j) ==
    /\ sus[j] = "armed"
    /\ \/ /\ ~shut
          /\ queue' = Append(queue, j)
          /\ sus' = [sus EXCEPT ![j] = "out"]
       \/ /\ shut
          /\ sus' = [sus EXCEPT ![j] = "refused"]
          /\ UNCHANGED queue
    /\ UNCHANGED <<state, cont, resumes, shut, drained, down, workerVars, result>>

(* Mutant: resumes without winning the state.                              *)
ResumeUnsubmitted(j) ==
    /\ sus[j] = "refused"
    /\ sus' = [sus EXCEPT ![j] = "out"]
    /\ state' = [state EXCEPT ![j] = "CanceledQueued"]
    /\ ResumeInline(j)
    /\ UNCHANGED <<poolVars, workerVars, result>>

(* JobBase::cancel_unsubmitted: resume here, unless a racing cancel (or an *)
(* abandon) already ended the job.                                         *)
CancelUnsubmitted(j) ==
    /\ sus[j] = "refused"
    /\ sus' = [sus EXCEPT ![j] = "out"]
    /\ \/ /\ state[j] = "Queued"
          /\ state' = [state EXCEPT ![j] = "CanceledQueued"]
          /\ ResumeInline(j)
       \/ /\ state[j] # "Queued"
          /\ UNCHANGED <<state, cont, resumes>>
    /\ UNCHANGED <<poolVars, workerVars, result>>

(* JobBase::cancel.                                                        *)
Cancel(j) ==
    \/ /\ state[j] = "Arming"
       /\ state' = [state EXCEPT ![j] = "CanceledArming"]
       /\ UNCHANGED <<cont, resumes>>
    \/ /\ state[j] = "Queued"
       /\ state' = [state EXCEPT ![j] = "CanceledQueued"]
       /\ Deliver(j)
    \/ /\ state[j] = "Running"
       /\ state' = [state EXCEPT ![j] = "CanceledRunning"]
       /\ Deliver(j)
    \/ /\ state[j] \notin {"Arming", "Queued", "Running"}
       /\ UNCHANGED <<state, cont, resumes>>

(* The stop callback: registered from Register until await_resume or the   *)
(* awaiter's destructor resets it.                                         *)
StopRequested(j) ==
    /\ sus[j] # "new" /\ cont[j] \in {"suspended", "posted"}
    /\ state[j] \in {"Arming", "Queued", "Running"}
    /\ Cancel(j)
    /\ UNCHANGED <<sus, poolVars, workerVars, result>>

(* OffloadAwaiter::await_resume with take_result, at the coroutine's home. *)
AwaitResume(j) ==
    /\ cont[j] = "posted"
    /\ cont' = [cont EXCEPT ![j] = "resumed"]
    /\ result' = [result EXCEPT ![j] = IF state[j] = "Done" THEN "completed"
                                       ELSE "canceled"]
    /\ UNCHANGED <<state, sus, resumes, poolVars, workerVars>>

(* ~OffloadAwaiter: a host destroys the frame mid-wait; abandon.  A        *)
(* continuation already at a host Resumer is claimed and never runs.       *)
Abandon(j) ==
    /\ cont[j] \in {"suspended", "posted"} /\ sus[j] = "out"
    /\ Home[j] \in {"host", "none"}
    /\ cont' = [cont EXCEPT ![j] = "destroyed"]
    /\ state' = [state EXCEPT ![j] = CASE @ = "Queued" -> "AbandonedQueued"
                                       [] @ = "Running" -> "AbandonedRunning"
                                       [] OTHER -> @]
    /\ UNCHANGED <<sus, resumes, poolVars, workerVars, result>>

-----------------------------------------------------------------------------
(* The workers: worker_loop and JobBase::run.                              *)

TakeJob(w) ==
    /\ wpc[w] = "idle" /\ queue # <<>>
    /\ wjob' = [wjob EXCEPT ![w] = Head(queue)]
    /\ queue' = Tail(queue)
    /\ wpc' = [wpc EXCEPT ![w] = "took"]
    /\ UNCHANGED <<jobVars, shut, drained, down, bodies, ended, discarded, result>>

(* Queued -> Running starts the body; a job that was ended before is       *)
(* dropped.                                                                *)
StartBody(w) ==
    LET j == wjob[w] IN
    /\ wpc[w] = "took"
    /\ \/ /\ state[j] = "Queued"
          /\ state' = [state EXCEPT ![j] = "Running"]
          /\ bodies' = [bodies EXCEPT ![j] = @ + 1]
          /\ wpc' = [wpc EXCEPT ![w] = "body"]
          /\ UNCHANGED wjob
       \/ /\ state[j] # "Queued"
          /\ wpc' = [wpc EXCEPT ![w] = "idle"]
          /\ wjob' = [wjob EXCEPT ![w] = NoJob]
          /\ UNCHANGED <<state, bodies>>
    /\ UNCHANGED <<sus, cont, resumes, poolVars, ended, discarded, result>>

(* The body returned or threw.                                             *)
EndBody(w) ==
    LET j == wjob[w] IN
    /\ wpc[w] = "body"
    /\ ended' = ended \cup {j}
    /\ wpc' = [wpc EXCEPT ![w] = "idle"]
    /\ wjob' = [wjob EXCEPT ![w] = NoJob]
    /\ \/ /\ state[j] = "Running"
          /\ state' = [state EXCEPT ![j] = "Done"]
          /\ Deliver(j)
          /\ UNCHANGED discarded
       \/ /\ state[j] # "Running"
          /\ discarded' = IF state[j] = "CanceledRunning" THEN discarded \cup {j}
                                                          ELSE discarded
          /\ UNCHANGED <<state, cont, resumes>>
    /\ UNCHANGED <<sus, poolVars, bodies, result>>

WorkerExits(w) ==
    /\ wpc[w] = "idle" /\ shut /\ queue = <<>>
    /\ wpc' = [wpc EXCEPT ![w] = "exited"]
    /\ UNCHANGED <<jobVars, poolVars, wjob, bodies, ended, discarded, result>>

-----------------------------------------------------------------------------
(* OffloadPool::shutdown.                                                  *)

Shutdown ==
    /\ down = "no"
    /\ shut' = TRUE
    /\ drained' = queue
    /\ queue' = <<>>
    /\ down' = "draining"
    /\ UNCHANGED <<jobVars, workerVars, result>>

(* Mutant: the drained list never shrinks.                                 *)
CancelSameDrained ==
    /\ down = "draining" /\ drained # <<>>
    /\ Cancel(Head(drained))
    /\ UNCHANGED <<sus, poolVars, workerVars, result>>

CancelDrained ==
    /\ down = "draining" /\ drained # <<>>
    /\ Cancel(Head(drained))
    /\ drained' = Tail(drained)
    /\ UNCHANGED <<sus, queue, shut, down, workerVars, result>>

JoinWorkers ==
    /\ down = "draining" /\ drained = <<>>
    /\ \A w \in Workers : wpc[w] = "exited"
    /\ down' = "returned"
    /\ UNCHANGED <<jobVars, queue, shut, drained, workerVars, result>>

-----------------------------------------------------------------------------

Init ==
    /\ state = [j \in Jobs |-> "Arming"]
    /\ sus = [j \in Jobs |-> "new"]
    /\ cont = [j \in Jobs |-> "running"]
    /\ queue = <<>> /\ shut = FALSE /\ drained = <<>> /\ down = "no"
    /\ wpc = [w \in Workers |-> "idle"]
    /\ wjob = [w \in Workers |-> NoJob]
    /\ resumes = [j \in Jobs |-> 0]
    /\ bodies = [j \in Jobs |-> 0]
    /\ ended = {} /\ discarded = {}
    /\ result = [j \in Jobs |-> "none"]

JobStep(j) ==
    Register(j) \/ TryArm(j) \/ Submit(j) \/ CancelUnsubmitted(j) \/ AwaitResume(j)

WorkerStep(w) == TakeJob(w) \/ StartBody(w) \/ EndBody(w) \/ WorkerExits(w)

Next ==
    \/ \E j \in Jobs : JobStep(j) \/ StopRequested(j) \/ Abandon(j)
    \/ \E w \in Workers : WorkerStep(w)
    \/ Shutdown \/ CancelDrained \/ JoinWorkers

Spec == Init /\ [][Next]_vars

(* Threads run, posted continuations run at their homes, bodies end, and   *)
(* a shutdown that began goes on.                                          *)
Fairness ==
    /\ \A j \in Jobs : WF_vars(JobStep(j))
    /\ \A w \in Workers : WF_vars(WorkerStep(w))
    /\ WF_vars(CancelDrained) /\ WF_vars(JoinWorkers)

FairSpec == Spec /\ Fairness

-----------------------------------------------------------------------------
(* Properties.                                                             *)

JobTypeOK ==
    /\ state \in [Jobs -> States]
    /\ sus \in [Jobs -> {"new", "arming", "armed", "refused", "out"}]
    /\ cont \in [Jobs -> {"running", "suspended", "posted", "resumed", "destroyed"}]
    /\ resumes \in [Jobs -> Nat]
    /\ result \in [Jobs -> {"none", "completed", "canceled"}]

PoolTypeOK ==
    /\ queue \in Seq(Jobs) /\ drained \in Seq(Jobs)
    /\ shut \in BOOLEAN
    /\ down \in {"no", "draining", "returned"}

WorkerTypeOK ==
    /\ wpc \in [Workers -> {"idle", "took", "body", "exited"}]
    /\ wjob \in [Workers -> Jobs \cup {NoJob}]
    /\ bodies \in [Jobs -> Nat]
    /\ ended \subseteq Jobs /\ discarded \subseteq Jobs

TypeOK == JobTypeOK /\ PoolTypeOK /\ WorkerTypeOK

(* Exactly one winner: however cancel(), the worker, the refused submit    *)
(* and the abandoning destructor race, a coroutine is resumed or posted at *)
(* most once.                                                              *)
DeliveredOnce == \A j \in Jobs : resumes[j] <= 1

(* A body starts at most once, and never for a caller that was resumed     *)
(* `canceled` (or destroyed) before the start.                             *)
CanceledNeverRuns ==
    \A j \in Jobs :
        /\ bodies[j] <= 1
        /\ state[j] \in {"Arming", "Queued", "CanceledArming", "CanceledQueued",
                         "AbandonedQueued"} => bodies[j] = 0

(* Every suspended caller that has a home gets its answer (or is           *)
(* destroyed), also when the pool shuts down under it.                     *)
CallersAnswered ==
    \A j \in Jobs : Home[j] # "none" =>
        (cont[j] = "suspended" ~> cont[j] \in {"resumed", "destroyed"})

(* shutdown() returns once the running bodies end.                         *)
ShutdownReturns == down = "draining" ~> down = "returned"

=============================================================================
