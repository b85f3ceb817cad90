---------------------------- MODULE RuntimeRoots ----------------------------
(***************************************************************************)
(* rt/runtime.hpp: the roots of a Runtime.                                 *)
(*                                                                         *)
(* A root is an engine task started by run() (the host thread blocks),     *)
(* spawn() (owned, not awaited) or enter() (a foreign coroutine awaits it  *)
(* and is handed back to a host Resumer, or to a CompletionThread).  The   *)
(* host may destroy the coroutine that awaits an enter() at any moment,    *)
(* drop its continuation, destroy the CompletionThread and the Runtime;    *)
(* lanes finish roots meanwhile.  A "checked violation" aborts the         *)
(* process: `aborted` is that, and nothing happens after it.               *)
(***************************************************************************)
EXTENDS Naturals, FiniteSets

CONSTANTS
    Roots,     \* the tasks the host and the engine may start
    KindOf     \* KindOf[r]: "run", "spawn", "enter_host", "enter_thread"

Kinds == {"run", "spawn", "enter_host", "enter_thread"}

ASSUME RootsAssumption == KindOf \in [Roots -> Kinds] /\ IsFiniteSet(Roots)

VARIABLES
    pc,           \* each root: new, running, finishing, handing, releasing, released, refused
    stop,         \* its stop_source was asked to stop
    phase,        \* EnterState::phase: running, finished, adopted
    ticket,       \* ResumerTicket::state: pending, resumed, abandoned
    cont,         \* its ParkedContinuation: none, queued, gone
    awaiter,      \* the foreign coroutine: none, parked, resumed, destroyed
    done,         \* SpawnState::done
    accepting, roots, liveRoots,
    toStop,       \* ~Runtime: the copied stop sources still to be requested
    runtime,      \* up, stopping, waiting, gone
    thread,       \* the CompletionThread: open, closed, gone
    outstanding,  \* CompletionThread::outstanding_
    adopted, adoptedFinished, dropped,
    aborted

rootVars == <<pc, stop, phase, ticket, cont, awaiter, done>>
countVars == <<adopted, adoptedFinished, dropped>>
vars == <<rootVars, accepting, roots, liveRoots, toStop, runtime, thread, outstanding,
          countVars, aborted>>

IsEnter(r) == KindOf[r] \in {"enter_host", "enter_thread"}
OnThread(r) == KindOf[r] = "enter_thread"
Finishing == {"finishing", "handing", "releasing"}

-----------------------------------------------------------------------------
(* run(), spawn(), and the await_suspend of enter(): admit() refuses when  *)
(* the Runtime is shutting down.  Until then anyone may start a root;      *)
(* during shutdown only a running root still can.                          *)
Start(r) ==
    /\ pc[r] = "new"
    /\ runtime = "up" \/ (runtime # "gone" /\ \E q \in Roots : pc[q] = "running")
    /\ OnThread(r) => thread = "open"
    /\ \/ /\ accepting
          /\ roots' = roots + 1
          /\ liveRoots' = liveRoots \cup {r}
          /\ pc' = [pc EXCEPT ![r] = "running"]
          /\ awaiter' = [awaiter EXCEPT ![r] = IF IsEnter(r) THEN "parked" ELSE @]
          /\ outstanding' = IF OnThread(r) THEN outstanding + 1 ELSE outstanding
       \/ /\ ~accepting
          /\ pc' = [pc EXCEPT ![r] = "refused"]
          /\ UNCHANGED <<roots, liveRoots, awaiter, outstanding>>
    /\ UNCHANGED <<stop, phase, ticket, cont, done, accepting, toStop, runtime, thread,
                   countVars, aborted>>

(* The root's body ends on its lane.                                       *)
EndBody(r) ==
    /\ pc[r] = "running"
    /\ pc' = [pc EXCEPT ![r] = "finishing"]
    /\ UNCHANGED <<stop, phase, ticket, cont, awaiter, done, accepting, roots, liveRoots,
                   toStop, runtime, thread, outstanding, countVars, aborted>>

(* finish_enter: exactly one of the root's end and the awaiter's           *)
(* destruction decides who owns the end of the root.                       *)
FinishEnter(r) ==
    /\ pc[r] = "finishing" /\ IsEnter(r)
    /\ \/ /\ phase[r] = "running"
          /\ phase' = [phase EXCEPT ![r] = "finished"]
          /\ pc' = [pc EXCEPT ![r] = "handing"]
          /\ UNCHANGED adoptedFinished
       \/ /\ phase[r] = "adopted"
          /\ adoptedFinished' = adoptedFinished + 1
          /\ pc' = [pc EXCEPT ![r] = "releasing"]
          /\ UNCHANGED phase
    /\ UNCHANGED <<stop, ticket, cont, awaiter, done, accepting, roots, liveRoots, toStop,
                   runtime, thread, outstanding, adopted, dropped, aborted>>

(* Mutant: nobody claims the continuation.                                 *)
ClaimNothing(t) == t

(* ResumerTicket::try_take(kAbandoned).                                    *)
Claim(t) == IF t = "pending" THEN "abandoned" ELSE t

(* A coroutine stops waiting for the CompletionThread.                     *)
Leave(r) == outstanding' = IF OnThread(r) THEN outstanding - 1 ELSE outstanding

(* drop_or_resume for an enter continuation: never resumed, and counted    *)
(* unless the awaiter's destructor claimed it first.                       *)
Drop(r) ==
    /\ cont' = [cont EXCEPT ![r] = "gone"]
    /\ ticket' = [ticket EXCEPT ![r] = Claim(@)]
    /\ dropped' = IF ticket[r] = "pending" THEN dropped + 1 ELSE dropped

(* Mutant: the continuation is forgotten.                                  *)
HandNobody(r) ==
    /\ pc[r] = "handing"
    /\ pc' = [pc EXCEPT ![r] = "releasing"]
    /\ UNCHANGED <<stop, phase, ticket, cont, awaiter, done, accepting, roots, liveRoots,
                   toStop, runtime, thread, outstanding, countVars, aborted>>

(* hand_to_resumer: the host's post() queues the continuation or drops it; *)
(* a closed CompletionThread drops it.                                     *)
Hand(r) ==
    /\ pc[r] = "handing"
    /\ \/ /\ OnThread(r) => thread = "open"
          /\ cont' = [cont EXCEPT ![r] = "queued"]
          /\ UNCHANGED <<ticket, dropped>>
       \/ /\ OnThread(r) => thread # "open"
          /\ Drop(r)
    /\ pc' = [pc EXCEPT ![r] = "releasing"]
    /\ UNCHANGED <<stop, phase, awaiter, done, accepting, roots, liveRoots, toStop,
                   runtime, thread, outstanding, adopted, adoptedFinished, aborted>>

(* finish_spawn, and the wake-up of the thread blocked in run().           *)
FinishOwned(r) ==
    /\ pc[r] = "finishing" /\ ~IsEnter(r)
    /\ done' = [done EXCEPT ![r] = TRUE]
    /\ pc' = [pc EXCEPT ![r] = "releasing"]
    /\ UNCHANGED <<stop, phase, ticket, cont, awaiter, accepting, roots, liveRoots, toStop,
                   runtime, thread, outstanding, countVars, aborted>>

(* Mutant: roots_ is not decremented.                                      *)
ReleaseUncounted(r) ==
    /\ pc[r] = "releasing"
    /\ liveRoots' = liveRoots \ {r}
    /\ pc' = [pc EXCEPT ![r] = "released"]
    /\ UNCHANGED <<stop, phase, ticket, cont, awaiter, done, accepting, roots, toStop,
                   runtime, thread, outstanding, countVars, aborted>>

(* release_root: the root's last touch on the Runtime.                     *)
ReleaseRoot(r) ==
    /\ pc[r] = "releasing"
    /\ liveRoots' = liveRoots \ {r}
    /\ roots' = roots - 1
    /\ pc' = [pc EXCEPT ![r] = "released"]
    /\ UNCHANGED <<stop, phase, ticket, cont, awaiter, done, accepting, toStop, runtime,
                   thread, outstanding, countVars, aborted>>

-----------------------------------------------------------------------------
(* The host resumes a queued continuation: a no-op once it was claimed.    *)
(* await_resume is the first thing the foreign coroutine does.             *)
ResumeContinuation(r) ==
    /\ cont[r] = "queued"
    /\ OnThread(r) => thread # "gone"
    /\ cont' = [cont EXCEPT ![r] = "gone"]
    /\ \/ /\ ticket[r] = "pending"
          /\ ticket' = [ticket EXCEPT ![r] = "resumed"]
          /\ awaiter' = [awaiter EXCEPT ![r] = "resumed"]
          /\ Leave(r)
       \/ /\ ticket[r] # "pending"
          /\ UNCHANGED <<ticket, awaiter, outstanding>>
    /\ UNCHANGED <<pc, stop, phase, done, accepting, roots, liveRoots, toStop, runtime,
                   thread, countVars, aborted>>

(* A host Resumer drops what it had queued.                                *)
DropQueued(r) ==
    /\ cont[r] = "queued" /\ ~OnThread(r)
    /\ Drop(r)
    /\ UNCHANGED <<pc, stop, phase, awaiter, done, accepting, roots, liveRoots, toStop,
                   runtime, thread, outstanding, adopted, adoptedFinished, aborted>>

(* ~EnterAwaiter, of a coroutine the host destroys while it is parked: the *)
(* root is adopted and asked to stop, or its continuation is claimed.      *)
DestroyAwaiter(r) ==
    /\ awaiter[r] = "parked"
    /\ awaiter' = [awaiter EXCEPT ![r] = "destroyed"]
    /\ \/ /\ phase[r] = "running"
          /\ phase' = [phase EXCEPT ![r] = "adopted"]
          /\ adopted' = adopted + 1
          /\ stop' = [stop EXCEPT ![r] = TRUE]
          /\ UNCHANGED ticket
       \/ /\ phase[r] = "finished"
          /\ ticket' = [ticket EXCEPT ![r] = Claim(@)]
          /\ UNCHANGED <<phase, adopted, stop>>
    /\ Leave(r)
    /\ UNCHANGED <<pc, cont, done, accepting, roots, liveRoots, toStop, runtime, thread,
                   adoptedFinished, dropped, aborted>>

-----------------------------------------------------------------------------
(* ~CompletionThread: closes its queue, and joins the thread, which first  *)
(* runs what is queued.                                                    *)
CloseThread ==
    /\ thread = "open"
    /\ \/ outstanding # 0 /\ aborted' = TRUE /\ UNCHANGED thread
       \/ outstanding = 0 /\ thread' = "closed" /\ UNCHANGED aborted
    /\ UNCHANGED <<rootVars, accepting, roots, liveRoots, toStop, runtime, outstanding,
                   countVars>>

JoinThread ==
    /\ thread = "closed"
    /\ \A r \in Roots : OnThread(r) => cont[r] # "queued"
    /\ thread' = "gone"
    /\ UNCHANGED <<rootVars, accepting, roots, liveRoots, toStop, runtime, outstanding,
                   countVars, aborted>>

(* ~Runtime.                                                               *)
Shutdown ==
    /\ runtime = "up"
    /\ accepting' = FALSE
    /\ \/ thread # "gone" /\ aborted' = TRUE /\ UNCHANGED <<toStop, runtime>>
       \/ /\ thread = "gone"
          /\ toStop' = liveRoots
          /\ runtime' = "stopping"
          /\ UNCHANGED aborted
    /\ UNCHANGED <<rootVars, roots, liveRoots, thread, outstanding, countVars>>

RequestStop(r) ==
    /\ runtime = "stopping" /\ r \in toStop
    /\ toStop' = toStop \ {r}
    /\ stop' = [stop EXCEPT ![r] = TRUE]
    /\ UNCHANGED <<pc, phase, ticket, cont, awaiter, done, accepting, roots, liveRoots,
                   runtime, thread, outstanding, countVars, aborted>>

AwaitIdle ==
    /\ runtime = "stopping" /\ toStop = {}
    /\ runtime' = "waiting"
    /\ UNCHANGED <<rootVars, accepting, roots, liveRoots, toStop, thread, outstanding,
                   countVars, aborted>>

(* Mutant: does not wait for the roots.                                    *)
DestroyedEarly ==
    /\ runtime = "waiting"
    /\ runtime' = "gone"
    /\ UNCHANGED <<rootVars, accepting, roots, liveRoots, toStop, thread, outstanding,
                   countVars, aborted>>

(* roots_ = 0: the pools and the lanes are stopped and the Runtime is gone. *)
Destroyed ==
    /\ runtime = "waiting" /\ roots = 0
    /\ runtime' = "gone"
    /\ UNCHANGED <<rootVars, accepting, roots, liveRoots, toStop, thread, outstanding,
                   countVars, aborted>>

-----------------------------------------------------------------------------

Init ==
    /\ pc = [r \in Roots |-> "new"]
    /\ stop = [r \in Roots |-> FALSE]
    /\ phase = [r \in Roots |-> "running"]
    /\ ticket = [r \in Roots |-> "pending"]
    /\ cont = [r \in Roots |-> "none"]
    /\ awaiter = [r \in Roots |-> "none"]
    /\ done = [r \in Roots |-> FALSE]
    /\ accepting = TRUE /\ roots = 0 /\ liveRoots = {} /\ toStop = {}
    /\ runtime = "up" /\ thread = "open" /\ outstanding = 0
    /\ adopted = 0 /\ adoptedFinished = 0 /\ dropped = 0
    /\ aborted = FALSE

EndSteps(r) == FinishEnter(r) \/ Hand(r) \/ FinishOwned(r) \/ ReleaseRoot(r)

EndStoppedBody(r) == stop[r] /\ EndBody(r)

Step ==
    \/ \E r \in Roots :
        \/ Start(r) \/ EndBody(r) \/ EndSteps(r) \/ ResumeContinuation(r) \/ DropQueued(r)
        \/ DestroyAwaiter(r) \/ RequestStop(r)
    \/ CloseThread \/ JoinThread \/ Shutdown \/ AwaitIdle \/ Destroyed

Next == ~aborted /\ Step

Spec == Init /\ [][Next]_vars

(* Lanes make progress; a body that was asked to stop ends (others may run *)
(* for ever); the completion thread and the host's executor run what is    *)
(* queued; a destructor that began goes on.                                *)
Fairness ==
    /\ \A r \in Roots :
        /\ WF_vars(~aborted /\ EndSteps(r))
        /\ WF_vars(~aborted /\ EndStoppedBody(r))
        /\ WF_vars(~aborted /\ ResumeContinuation(r))
        /\ WF_vars(~aborted /\ RequestStop(r))
    /\ WF_vars(~aborted /\ JoinThread)
    /\ WF_vars(~aborted /\ AwaitIdle) /\ WF_vars(~aborted /\ Destroyed)

FairSpec == Spec /\ Fairness

-----------------------------------------------------------------------------
(* Properties.                                                             *)

RootTypeOK ==
    /\ pc \in [Roots -> {"new", "running", "released", "refused"} \cup Finishing]
    /\ phase \in [Roots -> {"running", "finished", "adopted"}]
    /\ ticket \in [Roots -> {"pending", "resumed", "abandoned"}]
    /\ cont \in [Roots -> {"none", "queued", "gone"}]
    /\ awaiter \in [Roots -> {"none", "parked", "resumed", "destroyed"}]

FlagTypeOK ==
    /\ stop \in [Roots -> BOOLEAN] /\ done \in [Roots -> BOOLEAN]
    /\ accepting \in BOOLEAN /\ aborted \in BOOLEAN

HostTypeOK ==
    /\ roots \in Nat /\ outstanding \in Nat
    /\ adopted \in Nat /\ adoptedFinished \in Nat /\ dropped \in Nat
    /\ liveRoots \subseteq Roots /\ toStop \subseteq Roots
    /\ runtime \in {"up", "stopping", "waiting", "gone"}
    /\ thread \in {"open", "closed", "gone"}

TypeOK == RootTypeOK /\ FlagTypeOK /\ HostTypeOK

InFlight == {r \in Roots : pc[r] \in {"running"} \cup Finishing}

(* The Runtime is not destroyed under a root: once ~Runtime is past its    *)
(* wait no root is left that could still touch it, adopted ones included.  *)
NoRootOutlivesRuntime == runtime = "gone" => InFlight = {}

(* A foreign coroutine is resumed only while it is parked and its root     *)
(* finished: never after the host destroyed it, never twice.               *)
ResumedOnlyWhileParked ==
    [][\A r \in Roots :
        (ticket[r] # "resumed" /\ ticket'[r] = "resumed") =>
            awaiter[r] = "parked" /\ phase[r] = "finished"]_vars

(* ~Runtime returns.                                                       *)
ShutdownReturns == (runtime = "stopping") ~> (runtime = "gone")

(* Whoever awaits an enter() whose root ended is answered: resumed, unless *)
(* the host destroyed it or dropped its continuation.                      *)
EnterAnswered ==
    \A r \in Roots :
        (awaiter[r] = "parked" /\ pc[r] = "finishing") ~>
            (awaiter[r] # "parked" \/ ticket[r] = "abandoned" \/ aborted)

=============================================================================
