----------------------------- MODULE AsyncMutex -----------------------------
(***************************************************************************)
(* rt::AsyncMutex: the lock that makes "one session, one executor" true.   *)
(*                                                                         *)
(* The state of one mutex (held_, owner_, draining_, pending_release_,     *)
(* waiters_, loans_) together with the logical tasks that use it.  A task  *)
(* stands for one holder id.  Tasks fork children (rt::on_strand, when_all,*)
(* with_scope); rt/await_chain.hpp keeps, for each forked task, the task   *)
(* it was forked from and whether that edge is awaited right now.  A       *)
(* contended lock() consults those links: it lends the lock to a           *)
(* descendant of an awaiting holder, refuses one that could never be       *)
(* served, and queues everyone else in FIFO order.                         *)
(*                                                                         *)
(* Every action is one critical section of the mutex's own std::mutex, or  *)
(* one step of a task between two of them.                                 *)
(***************************************************************************)
EXTENDS Naturals, Sequences

CONSTANTS
    Tasks,            \* holder ids
    Roots,            \* the tasks that start on fresh chains
    Home,             \* Home[t]: who resumes t when it is woken
    NoTask,           \* owner_ == 0
    AwaitWhilePending \* may a task await children while its own release is
                      \* still pending in another thread's hand-off loop?

Homes == {"strand", "host", "blockon", "none"}

Kinds == {"mutating", "lend_safe"}

ASSUME TasksAssumption == NoTask \notin Tasks
ASSUME RootsAssumption == Roots \subseteq Tasks
ASSUME HomeAssumption ==
    /\ Home \in [Tasks -> Homes]
    /\ \A t \in Tasks \ Roots : Home[t] = "strand"
ASSUME AwaitAssumption == AwaitWhilePending \in BOOLEAN

VARIABLES
    held,      \* held_
    owner,     \* owner_, NoTask for 0
    draining,  \* draining_
    pending,   \* pending_release_
    waiters,   \* waiters_
    loans,     \* loans_: the loan stack, its last element the active loan
    drainer,   \* the task inside unlock()'s loop, NoTask for a foreign thread
    inline,    \* the task that loop resumed on its own stack, if any
    pc,        \* where each task is
    guard,     \* guard[t]: t holds a Guard
    depth,     \* granted_depth_ of t's awaiter, then of its Guard
    kind,      \* the lock_entry t asks with
    parent,    \* Link::parent
    anc,       \* the ids a walk of the links from t meets
    awaited,   \* *Link::awaited
    scoped,    \* has t an open with_scope, and did it hold the lock then?
    violated   \* detail::checked_violation was reached

mutexVars == <<held, owner, draining, pending, waiters, loans, drainer>>
taskVars == <<inline, pc, guard, depth, kind>>
chainVars == <<parent, anc, awaited, scoped>>
vars == <<mutexVars, taskVars, chainVars, violated>>

Frames == [lender : Tasks, borrower : Tasks, queue : Seq(Tasks)]

-----------------------------------------------------------------------------
(* Tasks and their chains.                                                 *)

Live(t) == pc[t] \notin {"unborn", "done"}

Children(t) == {c \in Tasks : Live(c) /\ parent[c] = t}

(* Registry::relate: how requester `me` relates to holder `h`.  The edge   *)
(* that counts is the one right below h on me's chain.                     *)
relate(me, h) ==
    IF me = h THEN "self"
    ELSE IF h \notin anc[me] THEN "unrelated"
    ELSE IF \E e \in {me} \cup anc[me] : parent[e] = h /\ awaited[e]
         THEN "awaiting_ancestor"
         ELSE "other_ancestor"

-----------------------------------------------------------------------------
(* classify_locked.                                                        *)

Decision(d, i) == [decision |-> d, frame |-> i]

(* The loan frames whose lender is an ancestor of `me`; the search runs    *)
(* from the top of the stack down, so the topmost one decides.             *)
LenderFrames(me) ==
    {i \in 1..Len(loans) :
        relate(me, loans[i].lender) \in {"awaiting_ancestor", "other_ancestor"}}

Borrows(me, i) ==
    /\ \A j \in LenderFrames(me) : j <= i
    /\ relate(me, loans[i].lender) = "awaiting_ancestor"

classify(me, k) ==
    IF ~held THEN Decision("take", 0)
    ELSE LET top == relate(me, owner) IN
         IF top = "awaiting_ancestor"
         THEN Decision(IF k = "lend_safe" THEN "lend" ELSE "refuse", 0)
         ELSE IF top = "other_ancestor" THEN Decision("refuse", 0)
         ELSE IF LenderFrames(me) = {} THEN Decision("queue_fifo", 0)
         ELSE IF k = "lend_safe" /\ \E i \in LenderFrames(me) : Borrows(me, i)
         THEN Decision("queue_loan", CHOOSE i \in LenderFrames(me) : Borrows(me, i))
         ELSE Decision("refuse", 0)

(* decide_locked: a request that needs no suspension.                      *)
Take(t) ==
    /\ held' = TRUE
    /\ owner' = t
    /\ guard' = [guard EXCEPT ![t] = TRUE]
    /\ depth' = [depth EXCEPT ![t] = 0]
    /\ UNCHANGED <<waiters, loans>>

Lend(t) ==
    /\ loans' = Append(loans, [lender |-> owner, borrower |-> t, queue |-> <<>>])
    /\ owner' = t
    /\ guard' = [guard EXCEPT ![t] = TRUE]
    /\ depth' = [depth EXCEPT ![t] = Len(loans) + 1]
    /\ UNCHANGED <<held, waiters>>

Refuse == UNCHANGED <<held, owner, guard, depth, waiters, loans>>

Decide(t, d) ==
    \/ d = "take" /\ Take(t)
    \/ d = "lend" /\ Lend(t)
    \/ d = "refuse" /\ Refuse

-----------------------------------------------------------------------------
(* The entry points a running task calls.                                  *)

(* LockAwaiter::await_ready.  A task does not ask again for a lock it      *)
(* holds: lock() is not recursive.                                         *)
AwaitReady(t, k) ==
    /\ pc[t] = "run" /\ ~guard[t]
    /\ LET d == classify(t, k).decision IN
       \/ /\ Decide(t, d)
          /\ UNCHANGED <<pc, kind>>
       \/ /\ d \in {"queue_fifo", "queue_loan"}
          /\ pc' = [pc EXCEPT ![t] = "suspending"]
          /\ kind' = [kind EXCEPT ![t] = k]
          /\ UNCHANGED <<held, owner, guard, depth, waiters, loans>>
    /\ UNCHANGED <<draining, pending, drainer, inline, chainVars, violated>>

(* A task that parks leaves the stack it ran on: if the hand-off loop was  *)
(* running it inline, that resume() returns.                               *)
LeaveStack(t) == inline' = IF inline = t THEN NoTask ELSE inline

(* LockAwaiter::await_suspend classifies again, since the lock may have    *)
(* moved in between, and only then parks.                                  *)
AwaitSuspend(t) ==
    /\ pc[t] = "suspending"
    /\ LET c == classify(t, kind[t]) IN
       \/ /\ Decide(t, c.decision)
          /\ pc' = [pc EXCEPT ![t] = "run"]
          /\ UNCHANGED inline
       \/ /\ c.decision = "queue_fifo"
          /\ waiters' = Append(waiters, t)
          /\ pc' = [pc EXCEPT ![t] = "parked"]
          /\ LeaveStack(t)
          /\ UNCHANGED <<held, owner, guard, depth, loans>>
       \/ /\ c.decision = "queue_loan"
          /\ loans' = [loans EXCEPT ![c.frame].queue = Append(@, t)]
          /\ pc' = [pc EXCEPT ![t] = "parked"]
          /\ LeaveStack(t)
          /\ UNCHANGED <<held, owner, guard, depth, waiters>>
    /\ UNCHANGED <<draining, pending, drainer, kind, chainVars, violated>>

(* Mutant: takes a held lock.                                              *)
TryLockAnyway(t) ==
    /\ pc[t] = "run" /\ ~guard[t]
    /\ Take(t)
    /\ UNCHANGED <<draining, pending, drainer, inline, pc, kind, chainVars,
                   violated>>

(* AsyncMutex::try_lock, when the lock is free; otherwise it changes       *)
(* nothing.                                                                *)
TryLock(t) ==
    /\ pc[t] = "run" /\ ~guard[t]
    /\ ~held
    /\ Take(t)
    /\ UNCHANGED <<draining, pending, drainer, inline, pc, kind, chainVars,
                   violated>>

(* LockAwaiter::await_resume, on the stack the wake-up chose.              *)
AwaitResume(t) ==
    /\ pc[t] = "granted"
    /\ pc' = [pc EXCEPT ![t] = "run"]
    /\ guard' = [guard EXCEPT ![t] = TRUE]
    /\ UNCHANGED <<mutexVars, inline, depth, kind, chainVars, violated>>

-----------------------------------------------------------------------------
(* Releasing.                                                              *)

(* grant_next_locked, then detail::wake.  A waiter parked under a          *)
(* block_on() is posted to that call's home and the loop ends; any other   *)
(* one goes through the loop: handed to its strand or its host, or, with   *)
(* no home (or a closed one), resumed on the loop's own stack.             *)
GrantNext(by, pc0) ==
    LET w == Head(waiters) IN
    /\ waiters' = Tail(waiters)
    /\ owner' = w
    /\ depth' = [depth EXCEPT ![w] = 0]
    /\ held' = held
    /\ IF Home[w] = "blockon"
       THEN /\ draining' = FALSE
            /\ inline' = NoTask
            /\ drainer' = NoTask
            /\ pc' = [pc0 EXCEPT ![w] = "granted"]
       ELSE /\ draining' = TRUE
            /\ inline' = IF Home[w] = "none" THEN w ELSE NoTask
            /\ drainer' = by
            /\ pc' = [t \in Tasks |-> IF t = w THEN "granted"
                                      ELSE IF t = by THEN "draining"
                                      ELSE pc0[t]]

(* Mutants: held_ stays set; the released depth is stepped down.           *)
ReleaseStillHeld ==
    /\ owner' = NoTask
    /\ UNCHANGED <<held, waiters, depth>>

(* release_locked.                                                         *)
ReleaseLocked ==
    /\ held' = FALSE
    /\ owner' = NoTask
    /\ UNCHANGED <<waiters, depth>>

(* release_loan with depth > 0: the lock goes back to the lender, or to    *)
(* the next borrower under the same lender -- never to the FIFO.           *)
ReleaseLoan(d, pc0) ==
    LET f == loans[d] IN
    \/ /\ f.queue = <<>>
       /\ owner' = f.lender
       /\ loans' = SubSeq(loans, 1, d - 1)
       /\ pc' = pc0
       /\ depth' = depth
    \/ /\ f.queue # <<>>
       /\ LET w == Head(f.queue) IN
          /\ owner' = w
          /\ loans' = [loans EXCEPT ![d] = [lender |-> f.lender, borrower |-> w,
                                            queue |-> Tail(f.queue)]]
          /\ depth' = [depth EXCEPT ![w] = d]
          /\ pc' = [pc0 EXCEPT ![w] = "granted"]

(* unlock(d), called by task `by` or, with NoTask, by a host thread that   *)
(* destroys a coroutine.  pc0 is pc with the caller's own step applied.    *)
Unlock(by, d, pc0) ==
    \/ /\ d # Len(loans)
       /\ violated' = TRUE
       /\ pc' = pc0
       /\ UNCHANGED <<mutexVars, inline, depth>>
    \/ /\ d = Len(loans) /\ d > 0
       /\ ReleaseLoan(d, pc0)
       /\ UNCHANGED <<held, draining, pending, waiters, drainer, inline, violated>>
    \/ /\ d = Len(loans) /\ d = 0
       /\ \/ /\ draining
             /\ pending' = TRUE
             /\ pc' = pc0
             /\ UNCHANGED <<held, owner, draining, waiters, drainer, inline, depth>>
          \/ /\ ~draining /\ waiters = <<>>
             /\ ReleaseLocked
             /\ pc' = pc0
             /\ UNCHANGED <<draining, pending, drainer, inline>>
          \/ /\ ~draining /\ waiters # <<>>
             /\ GrantNext(by, pc0)
             /\ UNCHANGED pending
       /\ UNCHANGED <<loans, violated>>

(* Guard::release.  A guard taken before a with_scope was opened outlives  *)
(* that scope.                                                             *)
Release(t) ==
    /\ pc[t] = "run" /\ guard[t]
    /\ scoped[t] # "held"
    /\ guard' = [guard EXCEPT ![t] = FALSE]
    /\ Unlock(t, depth[t], pc)
    /\ UNCHANGED <<kind, chainVars>>

(* Mutant: the loop turns without granting to anyone.                      *)
DrainSpins == draining /\ inline = NoTask /\ UNCHANGED vars

(* One turn of unlock()'s loop, after the wake-up it made has returned.    *)
DrainLoop ==
    /\ draining /\ inline = NoTask
    /\ LET back == [t \in Tasks |-> IF t = drainer THEN "run" ELSE pc[t]] IN
       \/ /\ ~pending
          /\ draining' = FALSE
          /\ drainer' = NoTask
          /\ pc' = back
          /\ UNCHANGED <<held, owner, waiters, depth, inline>>
       \/ /\ pending /\ waiters = <<>>
          /\ ReleaseLocked
          /\ draining' = FALSE
          /\ drainer' = NoTask
          /\ pc' = back
          /\ UNCHANGED inline
       \/ /\ pending /\ waiters # <<>>
          /\ GrantNext(drainer, back)
    /\ pending' = FALSE
    /\ UNCHANGED <<loans, guard, kind, chainVars, violated>>

-----------------------------------------------------------------------------
(* ~LockAwaiter: a host or raw coroutine destroyed while it waits.         *)

(* Still queued: erase_waiter_locked.                                      *)
DropParked(t) ==
    /\ pc[t] = "parked"
    /\ t \in Roots /\ Home[t] \in {"host", "none"}
    /\ Children(t) = {}
    /\ pc' = [pc EXCEPT ![t] = "done"]
    /\ \E i \in 1..Len(waiters) :
          /\ waiters[i] = t
          /\ waiters' = SubSeq(waiters, 1, i - 1) \o SubSeq(waiters, i + 1, Len(waiters))
    /\ UNCHANGED <<held, owner, draining, pending, loans, drainer, inline, guard,
                   depth, kind, chainVars, violated>>

(* Already granted, its continuation still in the host's hands: the        *)
(* destructor claims it (abandon_woken) and releases what was granted.     *)
DropGranted(t) ==
    /\ pc[t] = "granted"
    /\ t \in Roots /\ Home[t] = "host"
    /\ Children(t) = {}
    /\ Unlock(NoTask, depth[t], [pc EXCEPT ![t] = "done"])
    /\ UNCHANGED <<guard, kind, chainVars>>

-----------------------------------------------------------------------------
(* Structured concurrency around the mutex: rt::on_strand, when_all and    *)
(* with_scope fork, the parent joins, a child ends only after its own      *)
(* children.                                                               *)

MayAwait(t) == AwaitWhilePending \/ ~(pending /\ owner = t)

Fork(p, S, aw) ==
    /\ S # {} /\ \A c \in S : pc[c] = "unborn"
    /\ parent' = [t \in Tasks |-> IF t \in S THEN p ELSE parent[t]]
    /\ anc' = [t \in Tasks |-> IF t \in S THEN anc[p] \cup {p} ELSE anc[t]]
    /\ awaited' = [t \in Tasks |-> IF t \in S THEN aw ELSE awaited[t]]
    /\ UNCHANGED <<mutexVars, guard, depth, kind, violated>>

(* rt::on_strand (one child, refused to a homeless awaiter) and when_all   *)
(* (on a strand): the edge is awaited from the start.                      *)
ForkAwaited(p, S) ==
    /\ pc[p] = "run" /\ Home[p] # "none"
    /\ Home[p] = "strand" \/ \E c \in Tasks : S = {c}
    /\ MayAwait(p)
    /\ Fork(p, S, TRUE)
    /\ pc' = [t \in Tasks |-> IF t \in S THEN "run"
                              ELSE IF t = p THEN "joining" ELSE pc[t]]
    /\ LeaveStack(p)
    /\ UNCHANGED scoped

(* with_scope: the owner's body runs on, so the edge is not awaited yet.   *)
ForkScoped(p, c) ==
    /\ pc[p] = "run" /\ Home[p] = "strand"
    /\ scoped[p] = "none"
    /\ Fork(p, {c}, FALSE)
    /\ pc' = [pc EXCEPT ![c] = "run"]
    /\ scoped' = [scoped EXCEPT ![p] = IF guard[p] THEN "held" ELSE "free"]
    /\ UNCHANGED inline

(* JoinAwaiter: the body of a with_scope ended; guards of its own are gone.*)
Join(p) ==
    /\ pc[p] = "run"
    /\ scoped[p] # "none"
    /\ guard[p] <=> scoped[p] = "held"
    /\ MayAwait(p)
    /\ pc' = [pc EXCEPT ![p] = "joining"]
    /\ awaited' = [t \in Tasks |-> awaited[t] \/ t \in Children(p)]
    /\ scoped' = [scoped EXCEPT ![p] = "none"]
    /\ LeaveStack(p)
    /\ UNCHANGED <<mutexVars, guard, depth, kind, parent, anc, violated>>

(* The last awaited child ended: the parent runs again.                    *)
Joined(p) ==
    /\ pc[p] = "joining"
    /\ \A c \in Children(p) : ~awaited[c]
    /\ pc' = [pc EXCEPT ![p] = "run"]
    /\ UNCHANGED <<mutexVars, inline, guard, depth, kind, chainVars, violated>>

(* A task ends: its guards are gone with its frame, its children before it.*)
Finish(t) ==
    /\ pc[t] = "run" /\ ~guard[t]
    /\ Children(t) = {} /\ scoped[t] = "none"
    /\ pc' = [pc EXCEPT ![t] = "done"]
    /\ LeaveStack(t)
    /\ UNCHANGED <<mutexVars, guard, depth, kind, chainVars, violated>>

(* A task resumed inline suspends on something other than this mutex; the  *)
(* resume() on the hand-off loop's stack returns and the task goes on      *)
(* elsewhere.                                                              *)
SuspendElsewhere(t) ==
    /\ pc[t] = "run" /\ inline = t
    /\ LeaveStack(t)
    /\ UNCHANGED <<mutexVars, pc, guard, depth, kind, chainVars, violated>>

-----------------------------------------------------------------------------

Init ==
    /\ held = FALSE /\ owner = NoTask
    /\ draining = FALSE /\ pending = FALSE
    /\ waiters = <<>> /\ loans = <<>>
    /\ drainer = NoTask /\ inline = NoTask
    /\ pc = [t \in Tasks |-> IF t \in Roots THEN "run" ELSE "unborn"]
    /\ guard = [t \in Tasks |-> FALSE]
    /\ depth = [t \in Tasks |-> 0]
    /\ kind = [t \in Tasks |-> "mutating"]
    /\ parent = [t \in Tasks |-> NoTask]
    /\ anc = [t \in Tasks |-> {}]
    /\ awaited = [t \in Tasks |-> FALSE]
    /\ scoped = [t \in Tasks |-> "none"]
    /\ violated = FALSE

(* Every task has ended: nothing more happens.                             *)
Quiet == (\A t \in Tasks : ~Live(t)) /\ UNCHANGED vars

Step(t) ==
    \/ \E k \in Kinds : AwaitReady(t, k)
    \/ AwaitSuspend(t)
    \/ TryLock(t)
    \/ AwaitResume(t)
    \/ Release(t)
    \/ DropParked(t)
    \/ DropGranted(t)
    \/ \E S \in SUBSET (Tasks \ Roots) : ForkAwaited(t, S)
    \/ \E c \in Tasks \ Roots : ForkScoped(t, c)
    \/ Join(t)
    \/ Joined(t)
    \/ Finish(t)
    \/ SuspendElsewhere(t)

Next == (\E t \in Tasks : Step(t)) \/ DrainLoop \/ Quiet

Spec == Init /\ [][Next]_vars

(* A runnable task is run, the hand-off loop goes on, and callers keep     *)
(* their side: a critical section ends, a body reaches its join, a task    *)
(* that could join or end again and again does.                            *)
Fairness ==
    /\ WF_vars(DrainLoop)
    /\ \A t \in Tasks :
        /\ WF_vars(AwaitSuspend(t)) /\ WF_vars(AwaitResume(t))
        /\ WF_vars(Release(t)) /\ WF_vars(Joined(t))
        /\ SF_vars(Join(t) \/ Finish(t))

FairSpec == Spec /\ Fairness

-----------------------------------------------------------------------------
(* Properties.                                                             *)

Pcs == {"unborn", "run", "suspending", "parked", "granted", "draining", "joining", "done"}

MutexTypeOK ==
    /\ owner \in Tasks \cup {NoTask}
    /\ drainer \in Tasks \cup {NoTask}
    /\ inline \in Tasks \cup {NoTask}
    /\ waiters \in Seq(Tasks)
    /\ loans \in Seq(Frames)

FlagTypeOK ==
    /\ held \in BOOLEAN /\ draining \in BOOLEAN /\ pending \in BOOLEAN
    /\ violated \in BOOLEAN

TaskTypeOK ==
    /\ pc \in [Tasks -> Pcs]
    /\ guard \in [Tasks -> BOOLEAN]
    /\ depth \in [Tasks -> Nat]
    /\ kind \in [Tasks -> Kinds]

ChainTypeOK ==
    /\ parent \in [Tasks -> Tasks \cup {NoTask}]
    /\ anc \in [Tasks -> SUBSET Tasks]
    /\ awaited \in [Tasks -> BOOLEAN]
    /\ scoped \in [Tasks -> {"none", "free", "held"}]

TypeOK == MutexTypeOK /\ FlagTypeOK /\ TaskTypeOK /\ ChainTypeOK

(* t was granted the lock and has not given it back.                       *)
Owns(t) == guard[t] \/ pc[t] = "granted"

(* I1, one session, one executor: of all tasks that were granted the lock  *)
(* and have not released it, at most one is not suspended awaiting its     *)
(* children -- whatever mix of lock(), try_lock(), loans, hand-offs on     *)
(* other threads and destroyed waiters led there.                          *)
OneExecutor ==
    \A t, u \in Tasks :
        /\ Owns(t) /\ pc[t] # "joining"
        /\ Owns(u) /\ pc[u] # "joining"
        => t = u

(* No hand-off is lost: while the mutex is held, somebody is still going   *)
(* to release it (the owner, or a hand-off loop that has the owner's       *)
(* release recorded), and nobody waits in a queue of a free mutex.         *)
NoLostHandoff ==
    /\ held => (owner \in Tasks /\ Owns(owner)) \/ (draining /\ pending)
    /\ ~held => waiters = <<>> /\ loans = <<>>

(* The loan stack is nested: each borrower is the next loan's lender and   *)
(* the last one is owner_; each lender still owns its guard, is suspended, *)
(* and awaits an ancestor of (or the very) borrower, so it cannot run      *)
(* before the loan comes back.  Hence release_loan's check that a guard    *)
(* is released on top of the stack (depth == loans_.size()) never fires.   *)
LoansNested ==
    /\ ~violated
    /\ \A i \in 1..Len(loans) :
           LET b == loans[i].borrower
               l == loans[i].lender
           IN  /\ b = IF i = Len(loans) THEN owner ELSE loans[i + 1].lender
               /\ guard[l] /\ pc[l] = "joining" /\ depth[l] = i - 1
               /\ \E e \in {b} \cup anc[b] : parent[e] = l /\ awaited[e] /\ Live(e)

(* No barging: a task that comes to own the lock at depth 0 found the FIFO *)
(* empty or was its head (lock()'s fast path, try_lock() and the drops     *)
(* included).                                                              *)
NoBarging ==
    [][\A t \in Tasks :
          ~Owns(t) /\ Owns(t)' /\ depth'[t] = 0
              => waiters = <<>> \/ t = Head(waiters)]_vars

(* A task that waits in either queue is granted the lock or destroyed.     *)
WaitersServed ==
    \A t \in Tasks : pc[t] = "parked" ~> pc[t] # "parked"

=============================================================================
