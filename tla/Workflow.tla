------------------------------ MODULE Workflow ------------------------------
(***************************************************************************)
(* WorkflowSupervisor: a graph of executors run in rounds.  An entry point *)
(* (run, resume, continue, poll_batches) holds run_mutex_ to its end, `pc' *)
(* says where it stands; cancel() runs beside it and only try_locks.  A    *)
(* run stops for request ports a host answers and for vendor batch jobs a  *)
(* host polls, is checkpointed after each round, and may be restored from  *)
(* its checkpoint by this process or by the next one after a crash.        *)
(*                                                                         *)
(* A payload is the sequence of executors whose outputs it joins.  Edges   *)
(* are unconditional (switch edges are left out), an executor's retries    *)
(* are part of its reply, and nested workflows are left out.               *)
(***************************************************************************)
EXTENDS Naturals, Sequences, FiniteSets, FiniteSetsExt

CONSTANTS Nodes, Start,
          Kind,        \* Kind[n]: "function", "request_port" or "batch"
          Direct,      \* <<from, to>> edges that deliver at once
          FanIn,       \* <<from, to>> edges of kind fan_in
          OnFailure,   \* OnFailure[n]: "fail", "propagate" or "fallback"
          Fallback,    \* Fallback[n]: the recovery executor of a fallback edge
          on_unbatchable, \* BatchPolicy: "sync" or "fail"
          Branched,    \* executors whose worktree is merged when they succeed
          Cancellers,  \* threads that call cancel()
          max_rounds,  \* the graph's bound
          NoRecord,    \* no checkpoint was saved
          MaxEpochs,   \* bound: runs started and checkpoints restored
          MaxJobs,     \* bound: batch jobs submitted
          MaxCrashes   \* bound: processes that die

ASSUME GraphAssumption ==
    /\ Start \in Nodes
    /\ Branched \subseteq Nodes
    /\ Direct \subseteq Nodes \X Nodes /\ FanIn \subseteq Nodes \X Nodes
    /\ \A n \in Nodes : OnFailure[n] = "fallback" => Fallback[n] \in Nodes

VARIABLES
    pc,         \* "free", or where the entry point that holds run_mutex_ stands
    entry,      \* which entry point it is: "run", "resume" (or continue) or "poll"
    rounds,     \* rounds_
    pending,    \* state_.pending: the deliveries of the next round
    held,       \* state_.held_fan_in
    ports,      \* ports_: the ports the run stopped on, answered or not
    items,      \* batch_items_
    owed,       \* abandoned_batches_: jobs the vendor is still to be told to cancel
    wave,       \* the round under way: its deliveries, then their replies
    cancelled,  \* run_cancelled_
    epoch,      \* cancel_source_
    stopped,    \* sources that were asked to stop
    ck,         \* each cancel() call: the source it copied, and how far it is
    status,     \* what that entry point is about to return
    saved,      \* the last checkpoint
    crashes

\* What the properties speak of and the code does not keep.
VARIABLES run,       \* what the supervisor holds: "none", a "whole" run, or one
                     \* "torn" by a round that failed
          jobs,      \* jobs the vendor accepted so far: 1 .. jobs
          concluded, \* jobs whose results were folded in, or that were cancelled
          lost,      \* jobs no process knows of, nor the last checkpoint
          kept       \* jobs only the checkpoint still knows of, after a crash

state == <<rounds, pending, held, ports>>
batch == <<items, owed>>
cancelVars == <<epoch, stopped, ck>>
durable == <<saved, crashes>>
account == <<jobs, concluded, lost, kept>>
vars == <<pc, entry, state, batch, wave, cancelled, cancelVars, status, run,
          durable, account>>

cancel_requested == epoch \in stopped

JobsOf(batch_items) == {i.job : i \in batch_items}

-----------------------------------------------------------------------------
(* Routing.  `st' is what a routing pass has built: the deliveries of the  *)
(* next round, the joins still held and whether the run fails.             *)

Delivery(n, payload, sync) == [to |-> n, from |-> payload, no_batch |-> sync]

\* Appended to the delivery its target already has, or a delivery of its own.
deliver_or_merge(next, n, payload) ==
    IF \E i \in DOMAIN next : next[i].to = n
       THEN LET i == CHOOSE k \in DOMAIN next : next[k].to = n
            IN [next EXCEPT ![i].from = @ \o payload]
       ELSE Append(next, Delivery(n, payload, FALSE))

Sources(n) == {e[1] : e \in {f \in FanIn : f[2] = n}}

\* A join with several declared sources is held from before the first round.
seed_fan_in_holds ==
    {[to |-> n, from |-> <<>>, seeded |-> FALSE, awaiting |-> Sources(n)] :
        n \in {m \in Nodes : Cardinality(Sources(m)) > 1}}

\* Source n of the join h is settled; the last one releases what has gathered.
Settled(st, h, n, payload, seeded) ==
    LET left == h.awaiting \ {n}
        gathered == h.from \o payload
    IN IF left # {}
          THEN [st EXCEPT !.held = (@ \ {h}) \union
                  {[h EXCEPT !.from = gathered, !.awaiting = left,
                             !.seeded = h.seeded \/ seeded]}]
          ELSE [st EXCEPT !.held = @ \ {h},
                          !.next = IF h.seeded \/ seeded
                                      THEN deliver_or_merge(@, h.to, gathered)
                                      ELSE @]

\* Mutant: a join runs as soon as one source delivers.
deliver_at_once(st, n, target, payload) ==
    [st EXCEPT !.next = deliver_or_merge(@, target, payload),
               !.held = {h \in @ : h.to # target}]

deliver_to_fan_in(st, n, target, payload) ==
    IF \E h \in st.held : h.to = target
       THEN Settled(st, CHOOSE h \in st.held : h.to = target, n, payload, TRUE)
       ELSE [st EXCEPT !.next = deliver_or_merge(@, target, payload)]

\* n will never deliver to the join; nothing is contributed.
resolve_fan_in_await(st, n, target) ==
    IF \E h \in st.held : h.to = target
       THEN Settled(st, CHOOSE h \in st.held : h.to = target, n, <<>>, FALSE)
       ELSE st

\* Every outgoing edge of n carries the payload; only a marker is merged into
\* the delivery a direct edge's target already has.
Fire(st, n, marker) ==
    LET joined == FoldSet(LAMBDA e, acc : deliver_to_fan_in(acc, n, e[2], <<n>>),
                          st, {e \in FanIn : e[1] = n})
    IN FoldSet(LAMBDA e, acc :
                 [acc EXCEPT !.next = IF marker
                    THEN deliver_or_merge(@, e[2], <<n>>)
                    ELSE Append(@, Delivery(e[2], <<n>>, FALSE))],
               joined, {e \in Direct : e[1] = n})

\* A failure marker goes to the recovery executor instead, and n's place in the
\* joins it feeds is given up.
Reroute(st, n) ==
    FoldSet(LAMBDA e, acc :
              LET marked == [acc EXCEPT !.next = deliver_or_merge(@, Fallback[n], <<n>>)]
              IN IF e \in FanIn THEN resolve_fan_in_await(marked, n, e[2]) ELSE marked,
            st, {e \in Direct \union FanIn : e[1] = n})

\* route_from(): a failed executor follows the policy of its edges; a step that
\* was canceled on request ends the run whatever they declare.
route_from(st, n, reply) ==
    CASE st.failed -> st
      [] ~st.failed /\ reply = "ok" -> Fire(st, n, FALSE)
      [] ~st.failed /\ reply = "failed" /\ OnFailure[n] = "propagate" -> Fire(st, n, TRUE)
      [] ~st.failed /\ reply = "failed" /\ OnFailure[n] = "fallback" -> Reroute(st, n)
      [] OTHER -> [st EXCEPT !.failed = TRUE]

-----------------------------------------------------------------------------

Init ==
    /\ pc = "free" /\ entry = "none"
    /\ rounds = 0 /\ pending = <<>> /\ held = {} /\ ports = {}
    /\ items = {} /\ owed = {} /\ wave = <<>>
    /\ cancelled = FALSE
    /\ epoch = 0 /\ stopped = {}
    /\ ck = [k \in Cancellers |-> [at |-> "idle", source |-> 0]]
    /\ status = "none" /\ run = "none"
    /\ saved = NoRecord /\ crashes = 0
    /\ jobs = 0 /\ concluded = {} /\ lost = {} /\ kept = {}

\* Mutant: each suspension looks for its own kind of waiting only.
awaiting_ports == \E p \in ports : ~p.resolved

\* Something outside must answer before the run can go on.
awaiting_outside ==
    \/ \E p \in ports : ~p.resolved
    \/ \E i \in items : i.state = "pending"

run_is_live == ports # {} \/ items # {} \/ pending # <<>>

\* finish() of a run that ends: its batch items are abandoned, and a cancelled
\* run is closed (close_run_for_cancel).  The callers say what becomes of the
\* jobs, and move pc.
Closed(result) ==
    /\ status' = result
    /\ items' = {}
    /\ IF result = "cancelled"
          THEN /\ ports' = {} /\ pending' = <<>> /\ held' = {}
               /\ cancelled' = TRUE
          ELSE UNCHANGED <<ports, pending, held, cancelled>>
    /\ UNCHANGED rounds

\* abandon_batch_items(): nobody will fold these jobs, they are owed a cancel.
finish(result) ==
    /\ Closed(result)
    /\ owed' = owed \union JobsOf(items)

Ends(result) ==
    /\ finish(result)
    /\ wave' = <<>> /\ pc' = "unlock"

-----------------------------------------------------------------------------
(* The entry points.                                                       *)

Free == pc = "free"

\* Mutant: the jobs the previous run waited for are dropped.
run_workflow_forgetting ==
    /\ Free /\ epoch < MaxEpochs
    /\ epoch' = epoch + 1 /\ cancelled' = FALSE
    /\ rounds' = 0 /\ ports' = {} /\ held' = seed_fan_in_holds
    /\ pending' = <<Delivery(Start, <<>>, FALSE)>>
    /\ items' = {} /\ owed' = owed
    /\ status' = "running" /\ run' = "whole"
    /\ entry' = "run" /\ pc' = "prologue"
    /\ UNCHANGED <<wave, stopped, ck, durable, account>>

\* A new run replaces whatever the supervisor held, and execute() is entered.
run_workflow ==
    /\ Free /\ epoch < MaxEpochs
    /\ epoch' = epoch + 1 /\ cancelled' = FALSE
    /\ rounds' = 0 /\ ports' = {} /\ held' = seed_fan_in_holds
    /\ pending' = <<Delivery(Start, <<>>, FALSE)>>
    /\ owed' = owed \union JobsOf(items) /\ items' = {}
    /\ status' = "running" /\ run' = "whole"
    /\ entry' = "run" /\ pc' = "prologue"
    /\ UNCHANGED <<wave, stopped, ck, durable, account>>

\* An entry point other than run_workflow was admitted: it drives the run on, or
\* reports that it still waits, and looks for a cancel before it returns.
Admitted(call) ==
    /\ entry' = call
    /\ IF awaiting_outside' THEN pc' = "return" /\ status' = "suspended"
                            ELSE pc' = "prologue" /\ status' = "running"

\* refuse_if_cancelled() lets the call through.
NotCancelled == ~cancelled /\ ~(cancel_requested /\ run_is_live)

\* It settles a run somebody cancelled, and the call answers `cancelled'.
refuse_if_cancelled ==
    /\ Free /\ ~cancelled /\ cancel_requested /\ run_is_live
    /\ finish("cancelled")
    /\ UNCHANGED <<pc, entry, wave, cancelVars, run, durable, account>>

resume_workflow(p) ==
    /\ Free /\ NotCancelled
    /\ p \in ports /\ ~p.resolved
    /\ ports' = (ports \ {p}) \union {[p EXCEPT !.resolved = TRUE]}
    /\ UNCHANGED items
    /\ Admitted("resume")
    /\ UNCHANGED <<rounds, pending, held, owed, wave, cancelled, cancelVars,
                   run, durable, account>>

\* Whatever the supervisor holds is driven on: a run that was restored, but one
\* that ended on a bound, completed or failed as well.
continue_workflow ==
    /\ Free /\ NotCancelled
    /\ UNCHANGED <<ports, items>>
    /\ Admitted("resume")
    /\ UNCHANGED <<rounds, pending, held, owed, wave, cancelled, cancelVars,
                   run, durable, account>>

\* What a poll makes of an item: nothing yet, an answer, a failure that ends the
\* item, or one that sends its executor through the next round synchronously.
Polled == {"pending", "ok", "failed", "canceled", "fallback"}

\* poll_batches(): the cancels owed go out first, on an ended run too, and are
\* tried once.
cancel_abandoned_batches ==
    /\ concluded' = concluded \union owed
    /\ owed' = {}

poll_batches ==
    /\ Free /\ NotCancelled /\ items # {}
    /\ \E answer \in [items -> Polled] :
          /\ \A i \in items : i.state # "pending" => answer[i] = i.state
          /\ items' = {[i EXCEPT !.state = answer[i]] : i \in items}
    /\ cancel_abandoned_batches
    /\ UNCHANGED ports
    /\ Admitted("poll")
    /\ UNCHANGED <<rounds, pending, held, wave, cancelled, cancelVars, run,
                   durable, jobs, lost, kept>>

\* It settles a run somebody cancelled, and cancels the jobs that were part of it.
poll_cancelled ==
    /\ Closed("cancelled")
    /\ concluded' = concluded \union owed \union JobsOf(items)
    /\ owed' = {}

poll_refused ==
    /\ Free /\ ~cancelled /\ cancel_requested /\ run_is_live
    /\ poll_cancelled
    /\ UNCHANGED <<pc, entry, wave, cancelVars, run, durable, jobs, lost, kept>>

\* The same call on a run that has nothing to poll, or is cancelled.
poll_nothing ==
    /\ Free /\ owed # {}
    /\ cancelled \/ (NotCancelled /\ items = {})
    /\ cancel_abandoned_batches
    /\ UNCHANGED <<pc, entry, state, items, wave, cancelled, cancelVars, status,
                   run, durable, jobs, lost, kept>>

-----------------------------------------------------------------------------
(* execute().                                                              *)

\* Executors to be rerun are queued first, then the resolved items are routed.
fold_batch_items(st) ==
    LET queued == FoldSet(LAMBDA i, acc :
                            [acc EXCEPT !.next = Append(@, Delivery(i.node, i.input, TRUE))],
                          st, {i \in items : i.state = "fallback"})
    IN FoldSet(LAMBDA i, acc : route_from(acc, i.node, i.state),
               queued, {i \in items : i.state \notin {"pending", "fallback"}})

\* What was answered outside is folded in like a round's own results.
Prologue ==
    /\ pc = "prologue"
    /\ LET start == [next |-> pending, held |-> held, failed |-> FALSE]
           answered == FoldSet(LAMBDA p, st : route_from(st, p.node, "ok"),
                               start, {p \in ports : p.resolved})
           unanswered == {i \in items : i.state = "pending"}
           folded == fold_batch_items(answered)
           conflict == \E i \in items : i.state = "ok" /\ i.node \in Branched
       IN /\ ports' = {} /\ items' = {}
          /\ owed' = owed \union JobsOf(unanswered)
          /\ concluded' = concluded \union JobsOf(items \ unanswered)
          /\ \/ /\ folded.failed
                /\ status' = "executor_failed" /\ pc' = "unlock"
                /\ run' = "torn"
                /\ held' = folded.held /\ UNCHANGED pending
             \/ /\ conflict
                /\ status' = "merge_conflict" /\ pc' = "unlock"
                /\ run' = "torn"
                /\ held' = answered.held /\ UNCHANGED pending
             \/ /\ ~folded.failed
                /\ held' = folded.held
                /\ pending' = folded.next /\ pc' = "round"
                /\ UNCHANGED <<status, run>>
    /\ UNCHANGED <<entry, rounds, wave, cancelled, cancelVars, durable, jobs,
                   lost, kept>>

\* The top of the round loop: nothing left, a bound (the deadline may pass at any
\* time), a cancel.
LoopEnds ==
    /\ pc = "round"
    /\ \/ pending = <<>> /\ Ends("completed")
       \/ pending # <<>> /\ rounds >= max_rounds /\ Ends("bound_max_rounds")
       \/ pending # <<>> /\ rounds < max_rounds /\ Ends("bound_deadline")
       \/ /\ pending # <<>> /\ rounds < max_rounds /\ cancel_requested
          /\ Ends("cancelled")
    /\ UNCHANGED <<entry, cancelVars, run, durable, account>>

\* The deliveries are moved out of state_.pending, which keeps its length.
Gather ==
    /\ pc = "round" /\ pending # <<>> /\ rounds < max_rounds /\ ~cancel_requested
    /\ wave' = pending
    /\ pending' = [i \in DOMAIN pending |-> [pending[i] EXCEPT !.from = <<>>]]
    /\ pc' = "wave"
    /\ UNCHANGED <<entry, rounds, held, ports, batch, cancelled, cancelVars,
                   status, run, durable, account>>

IsPort(d) == Kind[d.to] = "request_port"
Batched(d) == Kind[d.to] = "batch" /\ ~d.no_batch
Runs(d) == ~IsPort(d) /\ ~Batched(d)

\* What an executor's job may come back with; once the run is cancelled its body
\* is not started.
run_executor_job ==
    IF cancel_requested THEN {"failed"} ELSE {"ok", "failed", "canceled"}

\* A batched delivery leaves the round for a chunk; one that cannot be built,
\* admitted or grouped stays, and is run or failed with the others.
gather_batch_candidates ==
    {"none"} \union IF on_unbatchable = "fail" THEN {"failed"} ELSE run_executor_job

\* Every executor of the round is run and waited for.
Wave ==
    /\ pc = "wave"
    /\ \E reply \in [DOMAIN wave -> {"ok", "failed", "canceled", "none"}] :
          /\ \A i \in DOMAIN wave :
                reply[i] \in IF Runs(wave[i]) THEN run_executor_job
                            ELSE IF Batched(wave[i]) THEN gather_batch_candidates
                            ELSE {"none"}
          /\ wave' = [i \in DOMAIN wave |->
                        [delivery |-> wave[i], reply |-> reply[i]]]
    /\ pc' = "submit"
    /\ UNCHANGED <<entry, state, batch, cancelled, cancelVars, status, run,
                   durable, account>>

Chunk == {i \in DOMAIN wave : Batched(wave[i].delivery) /\ wave[i].reply = "none"}

\* One job for the batchable deliveries of the round; a refused one fails its
\* executors or is left for the next round ("deferred").
submit_batch_chunks ==
    \/ /\ jobs < MaxJobs
       /\ jobs' = jobs + 1
       /\ items' = items \union
            {[node |-> wave[i].delivery.to, input |-> wave[i].delivery.from,
              job |-> jobs + 1, state |-> "pending"] : i \in Chunk}
       /\ UNCHANGED wave
    \/ /\ wave' = [i \in DOMAIN wave |->
            IF i \in Chunk
               THEN [wave[i] EXCEPT !.reply = IF on_unbatchable = "fail"
                                                 THEN "failed" ELSE "deferred"]
               ELSE wave[i]]
       /\ UNCHANGED <<items, jobs>>

\* After the round's executors, unless the run was cancelled meanwhile.
Submit ==
    /\ pc = "submit"
    /\ rounds' = rounds + 1
    /\ IF Chunk # {} /\ ~cancel_requested
          THEN submit_batch_chunks
          ELSE UNCHANGED <<wave, items, jobs>>
    /\ pc' = "route"
    /\ UNCHANGED <<entry, pending, held, ports, owed, cancelled, cancelVars,
                   status, run, durable, concluded, lost, kept>>

Replied(w) == w.reply \in {"ok", "failed", "canceled"}

\* The round's results are merged (a conflict ends the run) and routed, then its
\* ports open; a round that ends the run opens none.
Route ==
    /\ pc = "route"
    /\ LET replies == SelectSeq(wave, Replied)
           routed[i \in 0 .. Len(replies)] ==
               IF i = 0 THEN [next |-> <<>>, held |-> held, failed |-> FALSE]
               ELSE route_from(routed[i - 1], replies[i].delivery.to, replies[i].reply)
           st == routed[Len(replies)]
           deferred == SelectSeq(wave, LAMBDA w : w.reply = "deferred")
       IN \/ /\ \E i \in DOMAIN wave :
                   wave[i].reply = "ok" /\ wave[i].delivery.to \in Branched
             /\ Ends("merge_conflict") /\ run' = "torn"
          \/ cancel_requested /\ Ends("cancelled") /\ UNCHANGED run
          \/ /\ ~cancel_requested /\ st.failed
             /\ status' = "executor_failed" /\ pc' = "unlock" /\ wave' = <<>>
             /\ run' = "torn" /\ held' = st.held
             /\ owed' = owed \union JobsOf(items) /\ items' = {}
             /\ UNCHANGED <<rounds, pending, ports, cancelled>>
          \/ /\ ~cancel_requested /\ ~st.failed
             /\ held' = st.held
             /\ pending' = st.next \o
                  [i \in DOMAIN deferred |-> [deferred[i].delivery EXCEPT !.no_batch = TRUE]]
             /\ ports' = {[node |-> wave[i].delivery.to, round |-> rounds, nth |-> i,
                           resolved |-> FALSE] :
                             i \in {k \in DOMAIN wave : IsPort(wave[k].delivery)}}
             /\ wave' = <<>> /\ pc' = "checkpoint"
             /\ UNCHANGED <<rounds, batch, cancelled, status, run>>
    /\ UNCHANGED <<entry, cancelVars, durable, account>>

\* to_record(): an item is written as pending whatever this process knows of it.
to_record ==
    [rounds |-> rounds, pending |-> pending, held |-> held, ports |-> ports,
     items |-> {[i EXCEPT !.state = "pending"] : i \in items},
     owed |-> owed, cancelled |-> cancelled, run |-> run]

\* Jobs the checkpoint names.
Recorded == IF saved = NoRecord THEN {} ELSE JobsOf(saved.items) \union saved.owed

\* The record replaces the one before it, and what only that one knew is lost.
Save ==
    /\ saved' = to_record
    /\ kept' = kept \intersect Recorded'
    /\ lost' = lost \union (kept \ Recorded')

\* The round is over and recorded; a save that fails does not stop the run.
Checkpoint ==
    /\ pc = "checkpoint"
    /\ Save \/ UNCHANGED <<saved, kept, lost>>
    /\ pc' = IF awaiting_outside THEN "suspend" ELSE "round"
    /\ UNCHANGED <<entry, state, batch, wave, cancelled, cancelVars, status, run,
                   crashes, jobs, concluded>>

\* A host records the run between two calls, as it stands: suspended, ended,
\* failed or cancelled.  Without a run the record is nobody's and replaces none.
save_workflow_checkpoint ==
    /\ Free /\ run # "none"
    /\ Save
    /\ UNCHANGED <<pc, entry, state, batch, wave, cancelled, cancelVars, status,
                   run, crashes, jobs, concluded>>

\* The run stops for the outside, unless it was cancelled meanwhile.  Every
\* entry point but run_workflow asks that once more before it returns.
Suspend ==
    /\ pc \in {"suspend", "return"}
    /\ \/ /\ ~cancel_requested
          /\ status' = "suspended"
          /\ pc' = IF pc = "suspend" /\ entry # "run" THEN "return" ELSE "unlock"
          /\ UNCHANGED <<state, batch, wave, cancelled, concluded>>
       \/ /\ cancel_requested /\ ~(pc = "return" /\ entry = "poll")
          /\ Ends("cancelled")
          /\ UNCHANGED concluded
       \/ /\ cancel_requested /\ pc = "return" /\ entry = "poll"
          /\ poll_cancelled
          /\ pc' = "unlock" /\ UNCHANGED wave
    /\ UNCHANGED <<entry, cancelVars, run, durable, jobs, lost, kept>>

Unlock ==
    /\ pc = "unlock"
    /\ pc' = "free" /\ entry' = "none" /\ status' = "none"
    /\ UNCHANGED <<state, batch, wave, cancelled, cancelVars, run, durable,
                   account>>

-----------------------------------------------------------------------------
(* cancel(), on a thread of its own: copy the source, ask it to stop, and   *)
(* settle a run that is suspended if nobody holds the lock.                *)

CancelCopies(k) ==
    /\ ck[k].at = "idle"
    /\ ck' = [ck EXCEPT ![k] = [at |-> "copied", source |-> epoch]]
    /\ UNCHANGED <<pc, entry, state, batch, wave, cancelled, epoch, stopped,
                   status, run, durable, account>>

CancelStops(k) ==
    /\ ck[k].at = "copied"
    /\ stopped' = stopped \union {ck[k].source}
    /\ ck' = [ck EXCEPT ![k].at = "settling"]
    /\ UNCHANGED <<pc, entry, state, batch, wave, cancelled, epoch, status,
                   run, durable, account>>

\* Mutant: the run is settled whoever holds the lock.
CancelSettlesUnlocked(k) ==
    /\ ck[k].at = "settling"
    /\ ck' = [ck EXCEPT ![k].at = "done"]
    /\ IF ~cancelled /\ awaiting_outside
          THEN finish("cancelled")
          ELSE UNCHANGED <<state, batch, cancelled, status>>
    /\ UNCHANGED <<pc, entry, wave, epoch, stopped, run, durable, account>>

CancelSettles(k) ==
    /\ ck[k].at = "settling"
    /\ ck' = [ck EXCEPT ![k].at = "done"]
    /\ IF Free /\ ~cancelled /\ awaiting_outside
          THEN finish("cancelled")
          ELSE UNCHANGED <<state, batch, cancelled, status>>
    /\ UNCHANGED <<pc, entry, wave, epoch, stopped, run, durable, account>>

-----------------------------------------------------------------------------
(* Restart.  restore_from_record() runs on a supervisor nobody drives.     *)

restore_from_record ==
    /\ Free /\ saved # NoRecord /\ epoch < MaxEpochs
    /\ rounds' = saved.rounds /\ pending' = saved.pending
    /\ held' = saved.held /\ ports' = saved.ports
    /\ items' = saved.items
    /\ owed' = owed \union (JobsOf(items) \ JobsOf(saved.items)) \union saved.owed
    /\ epoch' = epoch + 1 /\ cancelled' = saved.cancelled
    /\ status' = "none" /\ run' = saved.run
    /\ kept' = {}
    /\ UNCHANGED <<pc, entry, wave, stopped, ck, durable, jobs, concluded, lost>>

\* The process dies at any point.  What it owed or waited for and no checkpoint
\* records, nobody knows of any more; what one records, the next process knows
\* if it restores it.
Crash ==
    /\ crashes < MaxCrashes
    /\ crashes' = crashes + 1
    /\ LET known == JobsOf(items) \union owed \union kept
       IN /\ kept' = known \intersect Recorded
          /\ lost' = lost \union (known \ Recorded)
    /\ pc' = "free" /\ entry' = "none"
    /\ rounds' = 0 /\ pending' = <<>> /\ held' = {} /\ ports' = {}
    /\ items' = {} /\ owed' = {} /\ wave' = <<>> /\ cancelled' = FALSE
    /\ stopped' = stopped \ {epoch} /\ status' = "none" /\ run' = "none"
    /\ ck' = [k \in Cancellers |->
                IF ck[k].at = "idle" THEN ck[k] ELSE [ck[k] EXCEPT !.at = "done"]]
    /\ UNCHANGED <<epoch, saved, jobs, concluded>>

Next ==
    \/ run_workflow \/ refuse_if_cancelled \/ continue_workflow
    \/ \E p \in ports : resume_workflow(p)
    \/ poll_batches \/ poll_refused \/ poll_nothing
    \/ Prologue \/ LoopEnds \/ Gather \/ Wave \/ Submit \/ Route
    \/ Checkpoint \/ save_workflow_checkpoint \/ Suspend \/ Unlock
    \/ \E k \in Cancellers : CancelCopies(k) \/ CancelStops(k) \/ CancelSettles(k)
    \/ restore_from_record \/ Crash

Spec == Init /\ [][Next]_vars

-----------------------------------------------------------------------------

\* A join is dispatched once, with the contribution of each declared source
\* exactly once -- in whatever rounds, through whatever suspensions, bounds, batch
\* jobs and restarts they arrive -- and never while it is still held; only a
\* source that failed over to its recovery executor may be missing (route_from,
\* deliver_to_fan_in, HeldFanIn).  Of a run that a failed round has torn this is
\* not so: its deliveries were moved out of state_.pending, and continue_workflow,
\* which does not refuse it, dispatches them again without their contributions.
JoinedOnce ==
    pc = "wave" /\ run # "torn" => \A i \in DOMAIN wave :
        LET d == wave[i]
        IN Cardinality(Sources(d.to)) > 1 =>
             /\ \A n \in Sources(d.to) :
                   LET times == Cardinality({k \in DOMAIN d.from : d.from[k] = n})
                   IN times = 1 \/ (times = 0 /\ OnFailure[n] = "fallback")
             /\ \A h \in held : h.to # d.to
             /\ \A k \in DOMAIN wave : wave[k].to = d.to => k = i

\* A run does not end `completed' with a join still waiting for a source, as it
\* would if execute() were entered before every port and batch item is answered.
\* (The sources of a join are unconditional here and none recovers for another;
\* one that a switch or a fallback never takes starves its join.)  A torn run
\* that is continued may: it finds nothing left to deliver.
CompletedJoined ==
    pc = "unlock" /\ status = "completed" /\ run # "torn" => held = {}

\* No paid vendor job is silently dropped: each one was folded or cancelled, or
\* the run waits for it, or it is owed a cancel -- after a crash too, once the
\* checkpoint that records it is restored (abandon_batch_items, finish,
\* restore_from_record).
JobsAccounted ==
    1 .. jobs \subseteq JobsOf(items) \union owed \union concluded \union lost \union kept

\* A cancelled run never moves again: nothing of it can be answered, delivered
\* or polled, whichever of cancel() and the entry points settled it.
CancelledClosed ==
    cancelled => ports = {} /\ items = {} /\ pending = <<>> /\ held = {}

=============================================================================
