------------------------------ MODULE Channel -------------------------------
(***************************************************************************)
(* rt/channel.hpp: a bounded single-producer, single-consumer stream.      *)
(*                                                                         *)
(* The producer is an OS thread that blocks in push() on a condition       *)
(* variable while the queue is full; the consumer is a coroutine that      *)
(* parks its handle in waiting_consumer while it is empty.  Either side    *)
(* may end the stream; the first terminal wins.  The consumer object may   *)
(* be canceled or destroyed by other code while the coroutine is parked,   *)
(* and the parked coroutine itself may be destroyed.                       *)
(***************************************************************************)
EXTENDS Naturals, Sequences

CONSTANTS
    Capacity, \* channel_state::capacity
    MaxPush   \* bound: the producer pushes the values 1..MaxPush, in order

ASSUME ChannelAssumption == Capacity \in Nat \ {0} /\ MaxPush \in Nat

VARIABLES
    queue, terminal,
    waiting,   \* waiting_consumer holds the coroutine's handle
    ppc,       \* producer: idle, blocked in not_full.wait, or gone
    cpc,       \* consumer coroutine: idle, suspending, parked, woken, gone
    notify,    \* notifications of not_full sent after the lock was released
    next,      \* the value the producer's next push() carries
    accepted,  \* values for which push() returned ok
    received,  \* values the consumer got
    ended      \* the consumer was told "drained and terminal" (nullopt)

vars == <<queue, terminal, waiting, ppc, cpc, notify, next, accepted, received, ended>>

Open == terminal = "open"

-----------------------------------------------------------------------------
(* The producer.                                                           *)

(* Mutant: the parked handle is taken but never posted.                    *)
WakeNobody ==
    /\ waiting' = FALSE
    /\ cpc' = cpc

(* The handle parked in waiting_consumer is taken and, once the lock is    *)
(* released, woken (posted to its home).                                   *)
WakeConsumer ==
    /\ waiting' = FALSE
    /\ cpc' = IF waiting THEN "woken" ELSE cpc

Enqueue ==
    /\ queue' = Append(queue, next)
    /\ accepted' = Append(accepted, next)
    /\ next' = next + 1
    /\ WakeConsumer

(* push(): with room it enqueues, on a terminal it returns `terminated`,   *)
(* otherwise it waits for not_full.                                        *)
Push ==
    /\ ppc = "idle" /\ next <= MaxPush
    /\ \/ /\ Open /\ Len(queue) < Capacity
          /\ Enqueue
          /\ UNCHANGED ppc
       \/ /\ ~Open
          /\ next' = next + 1
          /\ UNCHANGED <<queue, accepted, waiting, cpc, ppc>>
       \/ /\ Open /\ Len(queue) >= Capacity
          /\ ppc' = "blocked"
          /\ UNCHANGED <<queue, accepted, waiting, cpc, next>>
    /\ UNCHANGED <<terminal, notify, received, ended>>

(* A notification reaches push()'s wait: the predicate is evaluated again. *)
PushWakes ==
    /\ ppc = "blocked" /\ notify > 0
    /\ notify' = notify - 1
    /\ \/ /\ Open /\ Len(queue) < Capacity
          /\ Enqueue
          /\ ppc' = "idle"
       \/ /\ ~Open
          /\ next' = next + 1
          /\ ppc' = "idle"
          /\ UNCHANGED <<queue, accepted, waiting, cpc>>
       \/ /\ Open /\ Len(queue) >= Capacity
          /\ UNCHANGED <<queue, accepted, waiting, cpc, next, ppc>>
    /\ UNCHANGED <<terminal, received, ended>>

(* A notification nobody waits for is lost.                                *)
NotifyNobody ==
    /\ ppc # "blocked" /\ notify > 0
    /\ notify' = notify - 1
    /\ UNCHANGED <<queue, terminal, waiting, ppc, cpc, next, accepted, received, ended>>

(* try_push(): the full-and-open case changes nothing.                     *)
TryPush ==
    /\ ppc = "idle" /\ next <= MaxPush
    /\ \/ /\ Open /\ Len(queue) < Capacity
          /\ Enqueue
       \/ /\ ~Open
          /\ next' = next + 1
          /\ UNCHANGED <<queue, accepted, waiting, cpc>>
    /\ UNCHANGED <<terminal, ppc, notify, received, ended>>

(* finish_terminal: the first terminal wins; both kinds of waiters are     *)
(* woken even when it was set already.                                     *)
FinishTerminal(which) ==
    /\ terminal' = IF Open THEN which ELSE terminal
    /\ notify' = notify + 1
    /\ WakeConsumer

(* close() and fail().  On a stream that has ended they only notify again; *)
(* ~channel_producer, below, takes that path.                              *)
Finish(which) ==
    /\ ppc = "idle"
    /\ Open
    /\ FinishTerminal(which)
    /\ UNCHANGED <<queue, ppc, next, accepted, received, ended>>

(* ~channel_producer closes.                                               *)
DropProducer ==
    /\ ppc = "idle"
    /\ ppc' = "gone"
    /\ FinishTerminal("closed")
    /\ UNCHANGED <<queue, next, accepted, received, ended>>

-----------------------------------------------------------------------------
(* The consumer.                                                           *)

(* Mutants: the newest item first; no notification of not_full.            *)
DequeueNewest ==
    /\ queue' = SubSeq(queue, 1, Len(queue) - 1)
    /\ received' = Append(received, queue[Len(queue)])
    /\ notify' = notify + 1

Dequeue ==
    /\ queue' = Tail(queue)
    /\ received' = Append(received, Head(queue))
    /\ notify' = notify + 1

(* try_pop().                                                              *)
TryPop ==
    /\ cpc = "idle" /\ queue # <<>>
    /\ Dequeue
    /\ UNCHANGED <<terminal, waiting, ppc, cpc, next, accepted, ended>>

(* next_awaiter::await_ready.                                              *)
AwaitReady ==
    /\ cpc = "idle"
    /\ \/ /\ queue # <<>>
          /\ Dequeue
          /\ UNCHANGED <<cpc, ended>>
       \/ /\ queue = <<>> /\ ~Open
          /\ ended' = TRUE
          /\ UNCHANGED <<queue, received, notify, cpc>>
       \/ /\ queue = <<>> /\ Open
          /\ cpc' = "suspending"
          /\ UNCHANGED <<queue, received, notify, ended>>
    /\ UNCHANGED <<terminal, waiting, ppc, next, accepted>>

(* next_awaiter::await_suspend: re-checks under the lock before parking.   *)
AwaitSuspend ==
    /\ cpc = "suspending"
    /\ IF queue # <<>> \/ ~Open
       THEN cpc' = "woken" /\ UNCHANGED waiting
       ELSE cpc' = "parked" /\ waiting' = TRUE
    /\ UNCHANGED <<queue, terminal, ppc, notify, next, accepted, received, ended>>

(* next_awaiter::await_resume after a suspension (or a refused one).       *)
AwaitResume ==
    /\ cpc = "woken"
    /\ cpc' = "idle"
    /\ IF queue # <<>>
       THEN Dequeue /\ UNCHANGED ended
       ELSE ended' = TRUE /\ UNCHANGED <<queue, received, notify>>
    /\ UNCHANGED <<terminal, waiting, ppc, next, accepted>>

(* ~next_awaiter: still registered, it clears its own registration;        *)
(* already woken, it claims the continuation the host holds.               *)
DestroyAwaiter ==
    /\ cpc \in {"parked", "woken"}
    /\ waiting' = FALSE
    /\ cpc' = "idle"
    /\ UNCHANGED <<queue, terminal, ppc, notify, next, accepted, received, ended>>

(* cancel() and ~channel_consumer, by whoever owns the consumer object.    *)
Cancel ==
    /\ Open
    /\ FinishTerminal("cancelled")
    /\ UNCHANGED <<queue, ppc, next, accepted, received, ended>>

-----------------------------------------------------------------------------

Init ==
    /\ queue = <<>> /\ terminal = "open" /\ waiting = FALSE
    /\ ppc = "idle" /\ cpc = "idle" /\ notify = 0
    /\ next = 1 /\ accepted = <<>> /\ received = <<>> /\ ended = FALSE

Next ==
    \/ Push \/ PushWakes \/ NotifyNobody \/ TryPush
    \/ \E which \in {"closed", "failed"} : Finish(which)
    \/ DropProducer
    \/ TryPop \/ AwaitReady \/ AwaitSuspend \/ AwaitResume \/ DestroyAwaiter
    \/ Cancel

Spec == Init /\ [][Next]_vars

(* Threads and posted continuations run; a producer thread ends (and its   *)
(* destructor fires), a consumer keeps reading until it is told the end.   *)
Fairness ==
    /\ WF_vars(PushWakes) /\ WF_vars(NotifyNobody) /\ WF_vars(DropProducer)
    /\ WF_vars(AwaitSuspend) /\ WF_vars(AwaitResume)

FairSpec == Spec /\ Fairness

-----------------------------------------------------------------------------
(* Properties.                                                             *)

(* Nothing is lost, duplicated or reordered: what the consumer received,   *)
(* followed by what is still buffered, is exactly what push() accepted --  *)
(* through terminals, cancels and destroyed awaiters.                      *)
ZeroDataLoss == received \o queue = accepted

(* A producer blocked in push() gets out if the stream is ended, and a     *)
(* parked consumer is resumed or destroyed once the producer is gone.      *)
BothSidesGetOut ==
    /\ (ppc = "blocked" /\ ~Open) ~> ppc # "blocked"
    /\ (cpc = "parked" /\ ppc = "idle") ~> cpc # "parked"

=============================================================================
