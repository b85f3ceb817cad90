----------------------------- MODULE TaskScope ------------------------------
(***************************************************************************)
(* rt/scope.hpp: one task_scope as with_scope and when_all use it.         *)
(*                                                                         *)
(* The owner's body spawns children on strands of their own, at most Cap   *)
(* of them started at once; the first failure (a child's or the body's)    *)
(* and every stop forwarded from outside request stop on the scope; the    *)
(* owner goes on only after the last child, and then rethrows or returns.  *)
(* A finishing child touches the scope in several steps while the owner,   *)
(* who destroys the scope, runs on another lane.                           *)
(***************************************************************************)
EXTENDS Naturals, Sequences, FiniteSets

CONSTANTS
    Children,  \* the tasks the body may spawn
    Cap,       \* ScopeOptions::max_concurrency
    AlwaysAwaited, \* always_awaited_: the scope is when_all's own
    None

ASSUME ScopeAssumption ==
    /\ Cap \in Nat \ {0} /\ AlwaysAwaited \in BOOLEAN
    /\ None \notin Children /\ IsFiniteSet(Children)

VARIABLES
    live,       \* live_
    running,    \* running_
    pending,    \* pending_: spawned, not started
    waiter,     \* waiter_: the owner is parked in join()
    stop,       \* the scope's stop_source
    fault,      \* first_fault_: the child whose exception came first
    awaiting,   \* owner_awaiting_
    cpc,        \* each child: unspawned, pending, run, faulting, thrown,
                \* ended, post, done
    handed,     \* what a child that left child_done's lock still has to post
    opc,        \* the owner: body, joining (await_suspend), parked, resumed,
                \* woken, joined, done
    final,      \* the owner is in the last join (its body ended)
    bodyFault,  \* the body threw
    outcome,    \* what with_scope delivered: "", "value", "body" or a child
    spawned     \* history: the children in spawn order

scopeVars == <<live, running, pending, waiter, stop, fault, awaiting>>
ownerVars == <<opc, final, bodyFault, outcome>>
vars == <<scopeVars, cpc, handed, ownerVars, spawned>>

Started == {"run", "faulting", "thrown", "ended"}

-----------------------------------------------------------------------------
(* The owner.                                                              *)

(* A child over the cap waits behind those spawned before it.              *)
Behind(c) == Append(pending, c)

(* task_scope::spawn_void: starts the child, or queues it behind the cap.  *)
Spawn(c) ==
    /\ opc = "body" /\ cpc[c] = "unspawned"
    /\ live' = live + 1
    /\ spawned' = Append(spawned, c)
    /\ IF running < Cap
       THEN /\ running' = running + 1
            /\ cpc' = [cpc EXCEPT ![c] = "run"]
            /\ UNCHANGED pending
       ELSE /\ pending' = Behind(c)
            /\ cpc' = [cpc EXCEPT ![c] = "pending"]
            /\ UNCHANGED running
    /\ UNCHANGED <<waiter, stop, fault, awaiting, handed, ownerVars>>

(* Mutant: a body that throws does not join.                               *)
BodyThrowsOut(throws) ==
    /\ opc = "body"
    /\ final' = TRUE
    /\ bodyFault' = throws
    /\ stop' = (stop \/ throws)
    /\ opc' = IF live = 0 \/ throws THEN "joined" ELSE "joining"
    /\ UNCHANGED <<live, running, pending, waiter, fault, awaiting, cpc, handed,
                   outcome, spawned>>

(* with_scope_impl: the body returns, or throws and requests stop; either  *)
(* way the last join follows.  The body may also join on its own.          *)
BodyEnds(throws) ==
    /\ opc = "body"
    /\ final' = TRUE
    /\ bodyFault' = throws
    /\ stop' = (stop \/ throws)
    /\ opc' = IF live = 0 THEN "joined" ELSE "joining"
    /\ UNCHANGED <<live, running, pending, waiter, fault, awaiting, cpc, handed,
                   outcome, spawned>>

(* JoinAwaiter::await_ready, called by the body itself (when_all's body    *)
(* only spawns).                                                           *)
BodyJoins ==
    /\ opc = "body" /\ live > 0 /\ ~AlwaysAwaited
    /\ opc' = "joining"
    /\ UNCHANGED <<scopeVars, cpc, handed, final, bodyFault, outcome, spawned>>

(* Mutant: parks without looking at live_ again.                           *)
JoinUnchecked ==
    /\ opc = "joining"
    /\ waiter' = TRUE
    /\ awaiting' = TRUE
    /\ opc' = "parked"
    /\ UNCHANGED <<live, running, pending, stop, fault, cpc, handed, final,
                   bodyFault, outcome, spawned>>

(* JoinAwaiter::await_suspend.                                             *)
JoinSuspend ==
    /\ opc = "joining"
    /\ IF live = 0
       THEN /\ opc' = "resumed"
            /\ UNCHANGED <<waiter, awaiting>>
       ELSE /\ waiter' = TRUE
            /\ awaiting' = TRUE
            /\ opc' = "parked"
    /\ UNCHANGED <<live, running, pending, stop, fault, cpc, handed, final,
                   bodyFault, outcome, spawned>>

(* Mutant: owner_awaiting_ is not reset.                                   *)
JoinResumeStale ==
    /\ opc \in {"resumed", "woken"}
    /\ opc' = IF final THEN "joined" ELSE "body"
    /\ UNCHANGED <<scopeVars, cpc, handed, final, bodyFault, outcome, spawned>>

(* Mutant: a join the body made itself starts over.                        *)
JoinResumeAgain ==
    /\ opc \in {"resumed", "woken"}
    /\ awaiting' = FALSE
    /\ opc' = IF final THEN "joined" ELSE "joining"
    /\ UNCHANGED <<live, running, pending, waiter, stop, fault, cpc, handed, final,
                   bodyFault, outcome, spawned>>

(* JoinAwaiter::await_resume, once the owner's post (or a refused          *)
(* suspension) runs it.                                                    *)
JoinResume ==
    /\ opc \in {"resumed", "woken"}
    /\ awaiting' = (awaiting /\ AlwaysAwaited)
    /\ opc' = IF final THEN "joined" ELSE "body"
    /\ UNCHANGED <<live, running, pending, waiter, stop, fault, cpc, handed, final,
                   bodyFault, outcome, spawned>>

(* with_scope_impl after the join: rethrow the body's exception, else the  *)
(* first child's, else return; ~task_scope runs.                           *)
Deliver ==
    /\ opc = "joined"
    /\ opc' = "done"
    /\ outcome' = IF bodyFault THEN "body"
                  ELSE IF fault # None THEN fault ELSE "value"
    /\ UNCHANGED <<scopeVars, cpc, handed, final, bodyFault, spawned>>

(* A stop forwarded from the owner's own scope or from ScopeOptions::stop, *)
(* or task_scope::request_stop(), any time before the scope is destroyed.  *)
ForwardStop ==
    /\ ~stop /\ opc # "done"
    /\ stop' = TRUE
    /\ UNCHANGED <<live, running, pending, waiter, fault, awaiting, cpc, handed,
                   ownerVars, spawned>>

-----------------------------------------------------------------------------
(* A child: run_child.                                                     *)

(* The child's task ends and its frame is destroyed; with an exception,    *)
(* note_fault comes next.                                                  *)
ChildBody(c, throws) ==
    /\ cpc[c] = "run"
    /\ cpc' = [cpc EXCEPT ![c] = IF throws THEN "faulting" ELSE "ended"]
    /\ UNCHANGED <<scopeVars, handed, ownerVars, spawned>>

(* note_fault, its two parts: remember the first, then stop the siblings.  *)
NoteFault(c) ==
    /\ cpc[c] = "faulting"
    /\ fault' = IF fault = None THEN c ELSE fault
    /\ cpc' = [cpc EXCEPT ![c] = "thrown"]
    /\ UNCHANGED <<live, running, pending, waiter, stop, awaiting, handed, ownerVars,
                   spawned>>

StopSiblings(c) ==
    /\ cpc[c] = "thrown"
    /\ stop' = TRUE
    /\ cpc' = [cpc EXCEPT ![c] = "ended"]
    /\ UNCHANGED <<live, running, pending, waiter, fault, awaiting, handed, ownerVars,
                   spawned>>

(* A finished child frees its slot, unless the next pending one takes it.  *)
RunningAfter == IF pending = <<>> THEN running - 1 ELSE running

(* child_done, under the scope's lock: the next pending child gets the     *)
(* slot, and the last child takes the parked owner.                        *)
ChildDone(c) ==
    /\ cpc[c] = "ended"
    /\ live' = live - 1
    /\ running' = RunningAfter
    /\ pending' = IF pending = <<>> THEN pending ELSE Tail(pending)
    /\ waiter' = (waiter /\ live > 1)
    /\ handed' = [handed EXCEPT ![c] =
                    [next |-> IF pending = <<>> THEN None ELSE Head(pending),
                     owner |-> waiter /\ live = 1]]
    /\ cpc' = [cpc EXCEPT ![c] = "post"]
    /\ UNCHANGED <<stop, fault, awaiting, ownerVars, spawned>>

(* child_done after the lock: post what it took, from locals only.         *)
ChildPosts(c) ==
    /\ cpc[c] = "post"
    /\ cpc' = [x \in Children |-> IF x = c THEN "done"
                                  ELSE IF x = handed[c].next THEN "run" ELSE cpc[x]]
    /\ opc' = IF handed[c].owner THEN "woken" ELSE opc
    /\ UNCHANGED <<scopeVars, handed, final, bodyFault, outcome, spawned>>

-----------------------------------------------------------------------------

Init ==
    /\ live = 0 /\ running = 0 /\ pending = <<>> /\ waiter = FALSE
    /\ stop = FALSE /\ fault = None /\ awaiting = AlwaysAwaited
    /\ cpc = [c \in Children |-> "unspawned"]
    /\ handed = [c \in Children |-> [next |-> None, owner |-> FALSE]]
    /\ opc = "body" /\ final = FALSE /\ bodyFault = FALSE /\ outcome = ""
    /\ spawned = <<>>

Finished == opc = "done" /\ UNCHANGED vars

Next ==
    \/ \E c \in Children :
        \/ Spawn(c)
        \/ \E throws \in BOOLEAN : ChildBody(c, throws)
        \/ NoteFault(c) \/ StopSiblings(c) \/ ChildDone(c) \/ ChildPosts(c)
    \/ \E throws \in BOOLEAN : BodyEnds(throws)
    \/ BodyJoins \/ JoinSuspend \/ JoinResume \/ Deliver
    \/ ForwardStop
    \/ Finished

Spec == Init /\ [][Next]_vars

(* Lanes run every posted continuation, and every child's task ends.       *)
Fairness ==
    /\ WF_vars(JoinSuspend) /\ WF_vars(JoinResume) /\ WF_vars(Deliver)
    /\ \A c \in Children :
        /\ WF_vars(\E throws \in BOOLEAN : ChildBody(c, throws))
        /\ WF_vars(NoteFault(c) \/ StopSiblings(c) \/ ChildDone(c) \/ ChildPosts(c))

FairSpec == Spec /\ Fairness

-----------------------------------------------------------------------------
(* Properties.                                                             *)

(* No child outlives its scope: when the owner goes past its last join,    *)
(* every spawned child has made its last touch of the scope (child_done's  *)
(* critical section); so ~task_scope never finds live children and no      *)
(* child uses a destroyed scope.                                           *)
NoChildOutlivesScope ==
    opc \in {"joined", "done"} =>
        /\ live = 0
        /\ \A c \in Children : cpc[c] \in {"unspawned", "post", "done"}

(* Nobody is forgotten: live_ counts exactly the children that have not    *)
(* made their last touch, those queued behind the cap included, and a      *)
(* parked owner has one of them, or a post on its way.                     *)
NobodyForgotten ==
    /\ live = Cardinality({c \in Children : cpc[c] \in Started \cup {"pending"}})
    /\ opc = "parked" =>
        \/ waiter /\ live > 0
        \/ \E c \in Children : cpc[c] = "post" /\ handed[c].owner

(* The edge that lock lending relies on is truthful: while owner_awaiting_ *)
(* reads true the owner is suspended in its join, not running its body     *)
(* (when_all has no body: it sets the flag for good before it spawns).     *)
AwaitedEdgeTruthful == awaiting => AlwaysAwaited \/ opc \in {"parked", "woken"}

(* A join ends: an owner in a join goes on once its children end.          *)
JoinEnds == (opc \in {"joining", "parked"}) ~> (opc \in {"body", "done"})

=============================================================================
