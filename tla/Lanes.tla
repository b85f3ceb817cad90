------------------------------- MODULE Lanes --------------------------------
(***************************************************************************)
(* rt/lanes.hpp: the scheduler that runs strands on a pool of lane         *)
(* workers.  A strand runs its continuations one at a time, in the order   *)
(* they were posted; groups ("sessions") share the workers round-robin;    *)
(* a strand with a queued priority item is picked first; stop() drains.    *)
(*                                                                         *)
(* An item stands for one continuation (a coroutine handle).  It is queued *)
(* at most once at a time, but may be posted again while its own slice is  *)
(* still running: that is what rt::reschedule() does, and what happens     *)
(* when another thread wakes a coroutine that has just parked.             *)
(***************************************************************************)
EXTENDS Naturals, Sequences, FiniteSets

CONSTANTS
    Workers, Strands, Groups, Items,
    GroupOf,          \* GroupOf[s]: the group of strand s
    StrandOf,         \* StrandOf[i]: the strand item i runs on
    MaxPriorityPosts, \* bound on priority posts (cancels and approvals are rare)
    MaxPosters,       \* bound on threads between post()'s unlock and its notify
    NoItem

ASSUME LanesAssumption ==
    /\ GroupOf \in [Strands -> Groups]
    /\ StrandOf \in [Items -> Strands]
    /\ MaxPriorityPosts \in Nat /\ MaxPosters \in Nat \ {0}
    /\ NoItem \notin Items /\ IsFiniteSet(Workers)

VARIABLES
    queue,        \* StrandCore::queue_: posted items, each with its priority
    prioItems,    \* StrandCore::priority_items_
    running,      \* StrandCore::running_
    inReady,      \* StrandCore::in_ready_
    inPriority,   \* StrandCore::in_priority_
    ready,        \* GroupCore::ready_
    groupInReady, \* GroupCore::in_ready_
    readyGroups,  \* Scheduler::ready_groups_
    priority,     \* Scheduler::priority_
    runningCount, \* Scheduler::running_
    stopping, stopped,
    wpc,          \* each worker: at its queue, asleep, in a slice, gone
    cur,          \* the item of each worker's slice
    notifies,     \* posts whose notify_one() is still to come
    dropped,      \* items posted after the pool stopped
    prioPosts     \* priority posts made so far

strandVars == <<queue, prioItems, running, inReady, inPriority>>
readyVars == <<ready, groupInReady, readyGroups, priority>>
stopVars == <<stopping, stopped>>
workerVars == <<wpc, cur>>
vars == <<strandVars, readyVars, runningCount, stopVars, workerVars, notifies,
          dropped, prioPosts>>

Entry == [item : Items, priority : BOOLEAN]
NoEntry == [item |-> NoItem, priority |-> FALSE]

Elems(s) == {s[i] : i \in 1..Len(s)}

(* find_if and erase: the list without x, which it holds at most once.     *)
Without(s, x) ==
    IF x \notin Elems(s) THEN s
    ELSE LET at == CHOOSE i \in 1..Len(s) : s[i] = x
         IN  SubSeq(s, 1, at - 1) \o SubSeq(s, at + 1, Len(s))

Queued(i) == \E j \in 1..Len(queue[StrandOf[i]]) : queue[StrandOf[i]][j].item = i

Asleep == {w \in Workers : wpc[w] = "wait"}

-----------------------------------------------------------------------------
(* A group is in ready_groups_ once, however many strands it has ready.    *)
WithGroup(g) == IF groupInReady[g] THEN readyGroups ELSE Append(readyGroups, g)

(* make_ready_locked, on the state in which strand s counts n priority     *)
(* items: s joins its group's ready list, the group the ready groups, and  *)
(* s the priority list if it has priority items.                           *)
MakeReady(s, n) ==
    LET g == GroupOf[s] IN
    /\ inReady' = [inReady EXCEPT ![s] = TRUE]
    /\ ready' = [ready EXCEPT ![g] = Append(@, s)]
    /\ groupInReady' = [groupInReady EXCEPT ![g] = TRUE]
    /\ readyGroups' = WithGroup(g)
    /\ IF n > 0 /\ ~inPriority[s]
       THEN /\ inPriority' = [inPriority EXCEPT ![s] = TRUE]
            /\ priority' = Append(priority, s)
       ELSE UNCHANGED <<inPriority, priority>>

(* Scheduler::post.                                                        *)
Post(i, p) ==
    LET s == StrandOf[i]
        n == prioItems[s] + IF p THEN 1 ELSE 0
    IN
    /\ ~Queued(i) /\ i \notin dropped
    /\ notifies < MaxPosters
    /\ p => prioPosts < MaxPriorityPosts
    /\ prioPosts' = IF p THEN prioPosts + 1 ELSE prioPosts
    /\ \/ /\ stopped
          /\ dropped' = dropped \cup {i}
          /\ UNCHANGED <<strandVars, readyVars, notifies>>
       \/ /\ ~stopped
          /\ prioItems' = [prioItems EXCEPT ![s] = n]
          /\ queue' = [queue EXCEPT ![s] = Append(@, [item |-> i, priority |-> p])]
          /\ UNCHANGED <<running, dropped>>
          /\ \/ /\ running[s]
                /\ UNCHANGED <<inReady, inPriority, readyVars, notifies>>
             \/ /\ ~running[s] /\ ~inReady[s]
                /\ MakeReady(s, n)
                /\ notifies' = notifies + 1
             \/ /\ ~running[s] /\ inReady[s]
                /\ IF n > 0 /\ ~inPriority[s]
                   THEN /\ inPriority' = [inPriority EXCEPT ![s] = TRUE]
                        /\ priority' = Append(priority, s)
                   ELSE UNCHANGED <<inPriority, priority>>
                /\ notifies' = notifies + 1
                /\ UNCHANGED <<inReady, ready, groupInReady, readyGroups>>
    /\ UNCHANGED <<runningCount, stopVars, workerVars>>

(* Mutant: the notification wakes nobody.                                  *)
NotifyLost ==
    /\ notifies > 0
    /\ notifies' = notifies - 1
    /\ UNCHANGED <<strandVars, readyVars, runningCount, stopVars, workerVars, dropped,
                   prioPosts>>

(* work_cv_.notify_one(), after post() released the lock.                  *)
Notify ==
    /\ notifies > 0
    /\ notifies' = notifies - 1
    /\ IF Asleep = {} THEN UNCHANGED wpc
       ELSE \E w \in Asleep : wpc' = [wpc EXCEPT ![w] = "pick"]
    /\ UNCHANGED <<strandVars, readyVars, runningCount, stopVars, cur, dropped,
                   prioPosts>>

-----------------------------------------------------------------------------
(* Mutant: off by one.                                                     *)
ServableLate(s) == inReady[s] /\ prioItems[s] > 1

(* pick_locked.  The priority list may name strands that are running or    *)
(* already served: they are skipped and forgotten.                         *)
Servable(s) == inReady[s] /\ prioItems[s] > 0

Skipped ==
    CHOOSE n \in 0..Len(priority) :
        /\ \A j \in 1..n : ~Servable(priority[j])
        /\ n < Len(priority) => Servable(priority[n + 1])

(* pick_locked with unready_locked: a strand with a pending priority item. *)
PickPriority(s) ==
    LET g == GroupOf[s] IN
    /\ Skipped < Len(priority)
    /\ s = priority[Skipped + 1]
    /\ priority' = SubSeq(priority, Skipped + 2, Len(priority))
    /\ inPriority' = [x \in Strands |->
                        inPriority[x] /\ \A j \in 1..(Skipped + 1) : priority[j] # x]
    /\ ready' = [ready EXCEPT ![g] = Without(@, s)]
    /\ groupInReady' = [groupInReady EXCEPT ![g] = ready'[g] # <<>>]
    /\ readyGroups' = IF ready'[g] = <<>> THEN Without(readyGroups, g) ELSE readyGroups

(* Mutant: the group that was served stays in front.                       *)
PickSameGroup(s) ==
    /\ Skipped = Len(priority)
    /\ priority' = <<>>
    /\ inPriority' = [x \in Strands |-> inPriority[x] /\ x \notin Elems(priority)]
    /\ readyGroups # <<>>
    /\ LET g == Head(readyGroups) IN
       /\ s = Head(ready[g])
       /\ ready' = [ready EXCEPT ![g] = Tail(@)]
       /\ groupInReady' = [groupInReady EXCEPT ![g] = Len(ready[g]) > 1]
       /\ readyGroups' = IF Len(ready[g]) > 1 THEN readyGroups ELSE Tail(readyGroups)

(* pick_locked without one: the next group, that group's next strand.      *)
PickRoundRobin(s) ==
    /\ Skipped = Len(priority)
    /\ priority' = <<>>
    /\ inPriority' = [x \in Strands |-> inPriority[x] /\ x \notin Elems(priority)]
    /\ readyGroups # <<>>
    /\ LET g == Head(readyGroups) IN
       /\ s = Head(ready[g])
       /\ ready' = [ready EXCEPT ![g] = Tail(@)]
       /\ groupInReady' = [groupInReady EXCEPT ![g] = Len(ready[g]) > 1]
       /\ readyGroups' = IF Len(ready[g]) > 1 THEN Append(Tail(readyGroups), g)
                                              ELSE Tail(readyGroups)

(* Mutant: the strand is not marked running.                               *)
StartUnmarked(w) ==
    /\ wpc[w] = "pick"
    /\ \E s \in Strands :
        /\ PickPriority(s) \/ PickRoundRobin(s)
        /\ inReady' = [inReady EXCEPT ![s] = FALSE]
        /\ cur' = [cur EXCEPT ![w] = Head(queue[s])]
        /\ queue' = [queue EXCEPT ![s] = Tail(@)]
    /\ runningCount' = runningCount + 1
    /\ wpc' = [wpc EXCEPT ![w] = "slice"]
    /\ UNCHANGED <<running, prioItems, stopVars, notifies, dropped, prioPosts>>

(* run_worker: take the front item of the picked strand and start a slice. *)
StartSlice(w) ==
    /\ wpc[w] = "pick"
    /\ \E s \in Strands :
        /\ PickPriority(s) \/ PickRoundRobin(s)
        /\ inReady' = [inReady EXCEPT ![s] = FALSE]
        /\ cur' = [cur EXCEPT ![w] = Head(queue[s])]
        /\ queue' = [queue EXCEPT ![s] = Tail(@)]
        /\ running' = [running EXCEPT ![s] = TRUE]
    /\ runningCount' = runningCount + 1
    /\ wpc' = [wpc EXCEPT ![w] = "slice"]
    /\ UNCHANGED <<prioItems, stopVars, notifies, dropped, prioPosts>>

(* A worker with nothing to pick may end the pool: no slice is running.    *)
DrainedStop == stopping /\ runningCount = 0

(* run_worker with nothing to pick: exit, or be the one that declares the  *)
(* pool stopped, or sleep.                                                 *)
NothingReady(w) ==
    /\ wpc[w] = "pick"
    /\ Skipped = Len(priority) /\ readyGroups = <<>>
    /\ priority' = <<>>
    /\ inPriority' = [x \in Strands |-> inPriority[x] /\ x \notin Elems(priority)]
    /\ \/ /\ stopped
          /\ wpc' = [wpc EXCEPT ![w] = "exit"]
          /\ UNCHANGED stopped
       \/ /\ ~stopped /\ DrainedStop
          /\ stopped' = TRUE
          /\ wpc' = [v \in Workers |-> IF v = w THEN "exit"
                                       ELSE IF v \in Asleep THEN "pick" ELSE wpc[v]]
       \/ /\ ~stopped /\ ~DrainedStop
          /\ wpc' = [wpc EXCEPT ![w] = "wait"]
          /\ UNCHANGED stopped
    /\ UNCHANGED <<queue, prioItems, running, inReady, ready, groupInReady,
                   readyGroups, runningCount, stopping, cur, notifies, dropped,
                   prioPosts>>

(* priority_items_ of a strand after its item e ran.                       *)
PriorityLeft(e) == prioItems[StrandOf[e.item]] - IF e.priority THEN 1 ELSE 0

(* run_worker after the continuation returned: the strand is ready again   *)
(* if anything was posted to it meanwhile.                                 *)
EndSlice(w) ==
    LET e == cur[w]
        s == StrandOf[e.item]
        n == PriorityLeft(e)
    IN
    /\ wpc[w] = "slice"
    /\ runningCount' = runningCount - 1
    /\ running' = [running EXCEPT ![s] = FALSE]
    /\ prioItems' = [prioItems EXCEPT ![s] = n]
    /\ cur' = [cur EXCEPT ![w] = NoEntry]
    /\ IF queue[s] # <<>>
       THEN MakeReady(s, n)
       ELSE UNCHANGED <<inReady, inPriority, readyVars>>
    /\ wpc' = [v \in Workers |->
                 IF v = w \/ (v \in Asleep /\ stopping /\ runningCount = 1)
                 THEN "pick" ELSE wpc[v]]
    /\ UNCHANGED <<queue, stopVars, notifies, dropped, prioPosts>>

(* LanePool::stop: begin_stop.                                             *)
BeginStop ==
    /\ ~stopping
    /\ stopping' = TRUE
    /\ wpc' = [w \in Workers |-> IF w \in Asleep THEN "pick" ELSE wpc[w]]
    /\ UNCHANGED <<strandVars, readyVars, runningCount, stopped, cur, notifies,
                   dropped, prioPosts>>

(* LanePool::stop once the workers are joined: mark_stopped.               *)
MarkStopped ==
    /\ stopping /\ \A w \in Workers : wpc[w] = "exit"
    /\ stopped' = TRUE
    /\ readyGroups' = <<>> /\ priority' = <<>>
    /\ UNCHANGED <<strandVars, ready, groupInReady, runningCount, stopping,
                   workerVars, notifies, dropped, prioPosts>>

-----------------------------------------------------------------------------

Init ==
    /\ queue = [s \in Strands |-> <<>>]
    /\ prioItems = [s \in Strands |-> 0]
    /\ running = [s \in Strands |-> FALSE]
    /\ inReady = [s \in Strands |-> FALSE]
    /\ inPriority = [s \in Strands |-> FALSE]
    /\ ready = [g \in Groups |-> <<>>]
    /\ groupInReady = [g \in Groups |-> FALSE]
    /\ readyGroups = <<>> /\ priority = <<>>
    /\ runningCount = 0
    /\ stopping = FALSE /\ stopped = FALSE
    /\ wpc = [w \in Workers |-> "pick"]
    /\ cur = [w \in Workers |-> NoEntry]
    /\ notifies = 0 /\ dropped = {} /\ prioPosts = 0

Next ==
    \/ \E i \in Items, p \in BOOLEAN : Post(i, p)
    \/ Notify
    \/ \E w \in Workers : StartSlice(w) \/ NothingReady(w) \/ EndSlice(w)
    \/ BeginStop
    \/ MarkStopped

Spec == Init /\ [][Next]_vars

(* The operating system runs every worker, notify_one() is called, and a   *)
(* slice returns (lanes never block: rt.block_on_on_lane).                 *)
Fairness ==
    /\ WF_vars(Notify)
    /\ \A w \in Workers : WF_vars(StartSlice(w) \/ NothingReady(w) \/ EndSlice(w))

FairSpec == Spec /\ Fairness

-----------------------------------------------------------------------------
(* Properties.                                                             *)

(* A strand is serial: two workers never run slices of the same strand at  *)
(* once, although items keep being posted to it (its own included) while   *)
(* it runs.                                                                *)
StrandSerial ==
    \A v, w \in Workers :
        wpc[v] = "slice" /\ wpc[w] = "slice" /\ v # w
            => StrandOf[cur[v].item] # StrandOf[cur[w].item]

(* Priority first: a slice that starts while some ready strand has a       *)
(* queued priority item is a slice of such a strand.                       *)
PriorityFirst ==
    [][\A w \in Workers :
          StartSlice(w) /\ (\E s \in Strands : inReady[s] /\ \E j \in 1..Len(queue[s]) :
                                                               queue[s][j].priority)
          => \E s \in Strands :
                /\ running'[s] /\ ~running[s]
                /\ \E j \in 1..Len(queue[s]) : queue[s][j].priority]_vars

(* No lost wake-up: while a worker sleeps un-notified, every ready strand  *)
(* has a worker on its way to the queue or a notify_one() still coming.    *)
NoLostWakeup ==
    Asleep # {} =>
        Cardinality({s \in Strands : inReady[s]})
            <= Cardinality({w \in Workers : wpc[w] = "pick"}) + notifies

(* Every queued continuation is run, even when the other strands keep      *)
(* rescheduling themselves (round-robin over groups and strands).          *)
PostedRuns ==
    \A i \in Items : Queued(i) ~> \E w \in Workers : cur[w].item = i

=============================================================================
