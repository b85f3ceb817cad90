--------------------------- MODULE BackgroundJobs ---------------------------
(***************************************************************************)
(* rt/background_job_runner.hpp: BackgroundJobRunner.                      *)
(*                                                                         *)
(* One mutex guards the runner; each action below is one critical section  *)
(* or one step between two.  Submitters, cancelers, the cascade from a     *)
(* stopped run, worker threads and shutdown() interleave; events are       *)
(* handed to the host's sink outside the lock, by whichever thread made    *)
(* them.  Refusals of submit() that look only at its argument (approval,   *)
(* capabilities, tool flags) are left out: a job here passed them.         *)
(***************************************************************************)
EXTENDS Naturals, Sequences, FiniteSets

CONSTANTS
    Jobs, Owners, Workers,
    OwnerOf,      \* OwnerOf[j]: owner_key
    Ceiling,      \* Ceiling[o]: Background<max_concurrent> of the owner
    MaxPending,   \* max_pending_jobs
    Retain,       \* retain_terminal
    AtMostOnce,   \* the jobs whose tool is effect_class::at_most_once
    Linked,       \* the jobs whose spec.cascade_from can be stopped
    HasSink,      \* the host configured a sink
    MaxProgress,  \* bound on progress reports per job
    NoJob

ASSUME JobsAssumption ==
    /\ OwnerOf \in [Jobs -> Owners]
    /\ Ceiling \in [Owners -> Nat]
    /\ MaxPending \in Nat /\ Retain \in Nat /\ MaxProgress \in Nat
    /\ HasSink \in BOOLEAN
    /\ AtMostOnce \subseteq Jobs /\ Linked \subseteq Jobs /\ NoJob \notin Jobs

VARIABLES
    st, seq,       \* Job::state, Job::seq
    stopReq,       \* Job::stop was requested
    tooLate,       \* Job::cancel_too_late
    cascade,       \* Job::cascade: none, armed, or dropped
    known,         \* Core::jobs
    queue, terminalOrder, live, stopping,
    sinkOn,        \* Core::sink_enabled
    outbox,        \* batches of events made, their emit() still to come
    calling,       \* batches inside the sink: sink_calls_in_flight of them
    spc,           \* each job's submitter: new, registering, done
    runStopped,    \* the owner's run token was stopped
    fired,         \* jobs whose cascade callback ran
    wpc, wjob,     \* each worker, and the job it runs
    outcome,       \* what the worker's tool returned
    sawStop,       \* run_job's local copy of stop_requested()
    progress,      \* progress reports made by each job
    down           \* shutdown(): no, waiting, draining, returned

jobVars == <<st, seq, stopReq, tooLate, cascade, known, queue, terminalOrder, live>>
sinkVars == <<sinkOn, calling, outbox>>
runVars == <<spc, runStopped, fired>>
workerVars == <<wpc, wjob, outcome, sawStop, progress>>
vars == <<jobVars, stopping, sinkVars, runVars, workerVars, down>>

Terminal == {"succeeded", "failed", "canceled", "indeterminate"}
Active == {"queued", "running", "cancel_requested"}

-----------------------------------------------------------------------------
(* make_event: the events a critical section of thread `by` produces, for  *)
(* the jobs J in their new state.  The thread emits them as one batch;     *)
(* without a sink emit() returns at once.                                  *)
MakeEvents(by, J) ==
    outbox' = IF J = {} \/ ~HasSink THEN outbox
              ELSE outbox \cup {[by |-> by, events |-> {<<j, seq'[j]>> : j \in J}]}

(* A worker or shutdown() goes on only after its emit() returned.          *)
Emitted(by) == \A b \in outbox \cup calling : b.by # by

(* Mutant: the sequence number stays.                                      *)
BumpNothing(J) == seq

(* ++job.seq for the jobs J.                                               *)
Bump(J) == [j \in Jobs |-> IF j \in J THEN seq[j] + 1 ELSE seq[j]]

(* How many of the finished jobs, oldest first, are forgotten.             *)
Over(order) == IF Len(order) > Retain THEN Len(order) - Retain ELSE 0

(* finish_locked for the jobs J (in the order given), each into the state  *)
(* to[j]: the oldest finished jobs beyond retain_terminal are forgotten.   *)
FinishLocked(js, to) ==
    LET J == {js[i] : i \in 1..Len(js)}
        order == terminalOrder \o js
        over == Over(order)
    IN
    /\ st' = [j \in Jobs |-> IF j \in J THEN to ELSE st[j]]
    /\ seq' = Bump(J)
    /\ live' = live - Len(js)
    /\ terminalOrder' = SubSeq(order, over + 1, Len(order))
    /\ known' = known \ {order[i] : i \in 1..over}
    /\ cascade' = [j \in Jobs |-> IF j \in J THEN "dropped" ELSE cascade[j]]

(* Mutant: a job whose cancel was requested frees its slot.                *)
OwnerRunning(o) ==
    Cardinality({j \in known : OwnerOf[j] = o /\ st[j] \in {"queued", "running"}})

(* submit(): the critical section that admits the job.                     *)
OwnerLive(o) == Cardinality({j \in known : OwnerOf[j] = o /\ st[j] \notin Terminal})

Submit(j) ==
    /\ spc[j] = "new"
    /\ j \in Linked => ~runStopped[OwnerOf[j]]
    /\ ~stopping
    /\ live < MaxPending
    /\ OwnerLive(OwnerOf[j]) < Ceiling[OwnerOf[j]]
    /\ known' = known \cup {j}
    /\ live' = live + 1
    /\ st' = [st EXCEPT ![j] = "queued"]
    /\ seq' = [seq EXCEPT ![j] = 1]
    /\ queue' = Append(queue, j)
    /\ MakeEvents("submitter", {j})
    /\ spc' = [spc EXCEPT ![j] = IF j \in Linked THEN "registering" ELSE "done"]
    /\ UNCHANGED <<stopReq, tooLate, cascade, terminalOrder, stopping, sinkOn, calling,
                   runStopped, fired, workerVars, down>>

(* The queue without a queued job.  std::remove drops every occurrence; a  *)
(* queued job has exactly one (its id is pushed once, by submit()).        *)
QueueWithout(j) ==
    LET at == CHOOSE i \in 1..Len(queue) : queue[i] = j
    IN  SubSeq(queue, 1, at - 1) \o SubSeq(queue, at + 1, Len(queue))

(* request_cancel, for a job that is known.  A finished job is an error    *)
(* and an already canceled one a no-op: neither changes anything.          *)
RequestCancel(j) ==
    \/ /\ st[j] = "queued"
       /\ queue' = QueueWithout(j)
       /\ stopReq' = [stopReq EXCEPT ![j] = TRUE]
       /\ FinishLocked(<<j>>, "canceled")
       /\ MakeEvents("canceler", {j})
    \/ /\ st[j] = "running"
       /\ st' = [st EXCEPT ![j] = "cancel_requested"]
       /\ seq' = Bump({j})
       /\ stopReq' = [stopReq EXCEPT ![j] = TRUE]
       /\ MakeEvents("canceler", {j})
       /\ UNCHANGED <<queue, live, terminalOrder, known, cascade>>

Cancel(j) ==
    /\ j \in known
    /\ RequestCancel(j)
    /\ UNCHANGED <<tooLate, stopping, sinkOn, calling, runVars, workerVars, down>>

(* The submitting run is canceled: its stop token calls the registered     *)
(* callbacks, each of which is one request_cancel.                         *)
StopRun(o) ==
    /\ ~runStopped[o] /\ \E j \in Linked : OwnerOf[j] = o
    /\ runStopped' = [runStopped EXCEPT ![o] = TRUE]
    /\ UNCHANGED <<jobVars, stopping, sinkVars, spc, fired, workerVars, down>>

(* Mutant: the callback outlived nothing it could cancel.                  *)
FireNothing(j) ==
    /\ runStopped[OwnerOf[j]] /\ cascade[j] = "armed" /\ j \notin fired
    /\ fired' = fired \cup {j}
    /\ UNCHANGED <<jobVars, stopping, sinkVars, spc, runStopped, workerVars, down>>

FireCascade(j) ==
    /\ runStopped[OwnerOf[j]] /\ cascade[j] = "armed" /\ j \notin fired
    /\ fired' = fired \cup {j}
    /\ \/ j \in known /\ RequestCancel(j)
       \/ /\ j \notin known \/ st[j] \notin {"queued", "running"}
          /\ UNCHANGED <<st, seq, stopReq, queue, live, terminalOrder, known, cascade,
                         outbox>>
    /\ UNCHANGED <<tooLate, stopping, sinkOn, calling, spc, runStopped, workerVars, down>>

(* submit(), after admission: the cascade callback is constructed outside  *)
(* the lock (it runs inline if the run was stopped meanwhile) and kept if  *)
(* the job is not finished yet.                                            *)
RegisterCascade(j) ==
    /\ spc[j] = "registering"
    /\ \/ /\ runStopped[OwnerOf[j]] /\ j \notin fired
          /\ fired' = fired \cup {j}
          /\ \/ j \in known /\ RequestCancel(j)
             \/ /\ j \notin known \/ st[j] \notin {"queued", "running"}
                /\ UNCHANGED <<st, seq, stopReq, queue, live, terminalOrder, known,
                               cascade, outbox>>
          /\ UNCHANGED spc
       \/ /\ ~runStopped[OwnerOf[j]] \/ j \in fired
          /\ cascade' = [cascade EXCEPT ![j] = IF st[j] \in Terminal THEN "dropped"
                                               ELSE "armed"]
          /\ spc' = [spc EXCEPT ![j] = "done"]
          /\ UNCHANGED <<st, seq, stopReq, queue, live, terminalOrder, known,
                         outbox, fired>>
    /\ UNCHANGED <<tooLate, stopping, sinkOn, calling, runStopped, workerVars, down>>

-----------------------------------------------------------------------------
(* emit(): the sink is copied and the call counted under the lock, the     *)
(* call itself is made outside it.                                         *)
EmitBegin(b) ==
    /\ b \in outbox
    /\ b.by = "submitter" => \A e \in b.events : spc[e[1]] = "done"
    /\ outbox' = outbox \ {b}
    /\ calling' = IF sinkOn THEN calling \cup {b} ELSE calling
    /\ UNCHANGED <<jobVars, stopping, sinkOn, runVars, workerVars, down>>

EmitEnd(b) ==
    /\ b \in calling
    /\ calling' = calling \ {b}
    /\ UNCHANGED <<jobVars, stopping, sinkOn, outbox, runVars, workerVars, down>>

-----------------------------------------------------------------------------
(* worker_loop and run_job.                                                *)

TakeJob(w) ==
    /\ wpc[w] = "idle" /\ Emitted(w) /\ queue # <<>>
    /\ queue' = Tail(queue)
    /\ LET j == Head(queue) IN
       /\ wjob' = [wjob EXCEPT ![w] = j]
       /\ st' = [st EXCEPT ![j] = "running"]
       /\ seq' = Bump({j})
       /\ MakeEvents(w, {j})
    /\ wpc' = [wpc EXCEPT ![w] = "invoke"]
    /\ UNCHANGED <<stopReq, tooLate, cascade, known, terminalOrder, live, stopping,
                   sinkOn, calling, runVars, outcome, sawStop, progress, down>>

(* ctx.report_progress, from the running tool.                             *)
ReportProgress(w) ==
    LET j == wjob[w] IN
    /\ wpc[w] = "invoke" /\ Emitted(w)
    /\ progress[j] < MaxProgress
    /\ progress' = [progress EXCEPT ![j] = @ + 1]
    /\ j \in known /\ st[j] \notin Terminal
    /\ seq' = Bump({j})
    /\ st' = st
    /\ MakeEvents(w, {j})
    /\ UNCHANGED <<stopReq, tooLate, cascade, known, queue, terminalOrder, live,
                   stopping, sinkOn, calling, runVars, wpc, wjob, outcome, sawStop, down>>

(* The tool returns: success, its "no effect" cancel code, or an error;    *)
(* run_job then reads the stop flag, without the lock ...                  *)
ToolReturns(w, r) ==
    /\ wpc[w] = "invoke" /\ Emitted(w)
    /\ outcome' = [outcome EXCEPT ![w] = r]
    /\ sawStop' = [sawStop EXCEPT ![w] = stopReq[wjob[w]]]
    /\ wpc' = [wpc EXCEPT ![w] = "finish"]
    /\ UNCHANGED <<jobVars, stopping, sinkVars, runVars, wjob, progress, down>>

TerminalOf(w) ==
    CASE outcome[w] = "ok"        -> "succeeded"
      [] outcome[w] # "ok" /\ ~sawStop[w] -> "failed"
      [] outcome[w] = "no_effect" /\ sawStop[w] -> "canceled"
      [] OTHER -> IF wjob[w] \in AtMostOnce THEN "indeterminate" ELSE "canceled"

(* ... and finishes the job under it.                                      *)
FinishJob(w) ==
    LET j == wjob[w] IN
    /\ wpc[w] = "finish"
    /\ FinishLocked(<<j>>, TerminalOf(w))
    /\ tooLate' = [tooLate EXCEPT ![j] = outcome[w] = "ok" /\ sawStop[w]]
    /\ MakeEvents(w, {j})
    /\ wpc' = [wpc EXCEPT ![w] = "idle"]
    /\ wjob' = [wjob EXCEPT ![w] = NoJob]
    /\ outcome' = [outcome EXCEPT ![w] = "none"]
    /\ sawStop' = [sawStop EXCEPT ![w] = FALSE]
    /\ UNCHANGED <<stopReq, queue, stopping, sinkOn, calling, runVars, progress, down>>

WorkerExits(w) ==
    /\ wpc[w] = "idle" /\ Emitted(w) /\ stopping /\ queue = <<>>
    /\ wpc' = [wpc EXCEPT ![w] = "exited"]
    /\ UNCHANGED <<jobVars, stopping, sinkVars, runVars, wjob, outcome, sawStop, progress,
                   down>>

-----------------------------------------------------------------------------
(* shutdown().                                                             *)

ShutdownBegin ==
    LET Q == {queue[i] : i \in 1..Len(queue)}
        R == {j \in known : st[j] = "running"}
        order == terminalOrder \o queue
        over == Over(order)
    IN
    /\ down = "no"
    /\ down' = "waiting"
    /\ stopping' = TRUE
    /\ queue' = <<>>
    /\ st' = [j \in Jobs |-> IF j \in Q THEN "canceled"
                             ELSE IF j \in R THEN "cancel_requested" ELSE st[j]]
    /\ seq' = Bump(Q \cup R)
    /\ stopReq' = [j \in Jobs |-> stopReq[j] \/ (j \in known /\ st[j] \notin Terminal)]
    /\ live' = live - Len(queue)
    /\ terminalOrder' = SubSeq(order, over + 1, Len(order))
    /\ known' = known \ {order[i] : i \in 1..over}
    /\ cascade' = [j \in Jobs |-> IF j \in Q THEN "dropped" ELSE cascade[j]]
    /\ MakeEvents("shutdown", Q \cup R)
    /\ UNCHANGED <<tooLate, sinkOn, calling, runVars, workerVars>>

(* The workers are gone, or the deadline passed: the sink is disabled.     *)
ShutdownDisablesSink ==
    /\ down = "waiting" /\ Emitted("shutdown")
    /\ sinkOn' = FALSE
    /\ down' = "draining"
    /\ UNCHANGED <<jobVars, stopping, calling, outbox, runVars, workerVars>>

(* Mutant: returns with a sink call in flight.                             *)
ReturnsAtOnce ==
    /\ down = "draining"
    /\ down' = "returned"
    /\ UNCHANGED <<jobVars, stopping, sinkVars, runVars, workerVars>>

ShutdownReturns ==
    /\ down = "draining" /\ calling = {}
    /\ down' = "returned"
    /\ UNCHANGED <<jobVars, stopping, sinkVars, runVars, workerVars>>

-----------------------------------------------------------------------------

Init ==
    /\ st = [j \in Jobs |-> "none"] /\ seq = [j \in Jobs |-> 0]
    /\ stopReq = [j \in Jobs |-> FALSE] /\ tooLate = [j \in Jobs |-> FALSE]
    /\ cascade = [j \in Jobs |-> "none"]
    /\ known = {} /\ queue = <<>> /\ terminalOrder = <<>> /\ live = 0
    /\ stopping = FALSE
    /\ sinkOn = TRUE /\ calling = {} /\ outbox = {}
    /\ spc = [j \in Jobs |-> "new"]
    /\ runStopped = [o \in Owners |-> FALSE] /\ fired = {}
    /\ wpc = [w \in Workers |-> "idle"] /\ wjob = [w \in Workers |-> NoJob]
    /\ outcome = [w \in Workers |-> "none"] /\ sawStop = [w \in Workers |-> FALSE]
    /\ progress = [j \in Jobs |-> 0]
    /\ down = "no"

WorkerStep(w) ==
    \/ TakeJob(w) \/ FinishJob(w) \/ WorkerExits(w)
    \/ \E r \in {"ok", "no_effect", "error"} : ToolReturns(w, r)

Next ==
    \/ \E j \in Jobs : Submit(j) \/ Cancel(j) \/ FireCascade(j) \/ RegisterCascade(j)
    \/ \E o \in Owners : StopRun(o)
    \/ \E b \in outbox : EmitBegin(b)
    \/ \E b \in calling : EmitEnd(b)
    \/ \E w \in Workers : WorkerStep(w) \/ ReportProgress(w)
    \/ ShutdownBegin \/ ShutdownDisablesSink \/ ShutdownReturns

Spec == Init /\ [][Next]_vars

-----------------------------------------------------------------------------
(* Properties.                                                             *)

(* Background<N> holds: an owner never has more unfinished jobs than its   *)
(* capability allows, a job whose cancel was requested but whose tool has  *)
(* not returned included; and `live` is exactly the unfinished jobs.       *)
CeilingHolds ==
    /\ \A o \in Owners :
        Cardinality({j \in Jobs : OwnerOf[j] = o /\ st[j] \in Active}) <= Ceiling[o]
    /\ live = Cardinality({j \in Jobs : st[j] \in Active})
    /\ live <= MaxPending

(* Events can be ordered, in whatever order the threads deliver them: a    *)
(* new event's sequence number is above every earlier one of its job,      *)
(* every change of state takes a new number, and a finished job's state    *)
(* and number never change again, so its terminal event is the last.       *)
EventsOrdered ==
    [][/\ \A b \in outbox' \ outbox : \A e \in b.events : e[2] > seq[e[1]]
       /\ \A j \in Jobs : /\ st'[j] # st[j] => seq'[j] > seq[j]
                          /\ st[j] \in Terminal => st'[j] = st[j]
                          /\ st[j] \in Terminal => seq'[j] = seq[j]]_vars

(* After shutdown() returned the sink is never called again, although      *)
(* detached workers and late submitters still hold events.                 *)
SinkSilent == down = "returned" => calling = {} /\ ~sinkOn

(* cancel_too_late reports every success of a job whose cancel had been    *)
(* accepted.                                                               *)
TooLateTruthful ==
    \A j \in Jobs : st[j] = "succeeded" /\ stopReq[j] => tooLate[j]

(* A stopped run takes its jobs along: as long as one is unfinished and    *)
(* its cancel was not requested, its callback is still to run, registered  *)
(* or about to be, even when the stop races with the registration.         *)
CascadeNotLost ==
    \A j \in Linked :
        st[j] \in Active /\ runStopped[OwnerOf[j]] =>
            \/ stopReq[j]
            \/ j \notin fired /\ (spc[j] = "registering" \/ cascade[j] = "armed")

=============================================================================
