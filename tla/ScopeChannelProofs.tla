------------------------- MODULE ScopeChannelProofs -------------------------
(***************************************************************************)
(* Two components proved for every value of their constants. The channel   *)
(* (rt/channel.hpp, Channel as Ch): nothing accepted is lost, duplicated   *)
(* or reordered, no side sleeps through the change it waits for, and the   *)
(* end of the stream is reported only when it is true, for every capacity  *)
(* and any number of items. The task scope (rt/scope.hpp, TaskScope): the  *)
(* scope ends after its children, nobody waits unnoticed, and the cap      *)
(* holds, for every finite set of children and every cap.                  *)
(***************************************************************************)
EXTENDS TaskScope, FiniteSetTheorems, TLAPS

CONSTANTS Capacity, MaxPush
VARIABLES queue, terminal, waiting, ppc, reader, notify, next, accepted, received, ended

(* The channel's cpc is called reader here: TaskScope has a cpc of its     *)
(* own.                                                                    *)
Ch == INSTANCE Channel WITH cpc <- reader

(* Both sides' wake-ups are kept: a consumer is parked only where whoever  *)
(* changes its reason to sleep (an item, a terminal) still finds its       *)
(* handle in waiting_consumer; a producer blocked in push() for a reason   *)
(* that is gone has a notification of not_full still to come.              *)
BothSidesWoken ==
    /\ reader = "parked" => waiting /\ queue = <<>> /\ Ch!Open
    /\ ppc = "blocked" /\ ~(Ch!Open /\ Len(queue) >= Capacity) => notify > 0

(* next() answers "ended" only at the end: the stream is terminal, and the *)
(* consumer already received every value push() accepted.                  *)
EndTruthful == ended => ~Ch!Open /\ received = accepted

(* The channel's inductive invariant.  A woken consumer has something to   *)
(* be woken for: no other reader may have taken the item meanwhile.        *)
ChannelInv ==
    /\ queue \in Seq(Nat) /\ received \in Seq(Nat) /\ next \in Nat /\ notify \in Nat
    /\ waiting \in BOOLEAN
    /\ Ch!ZeroDataLoss
    /\ reader = "parked" => waiting /\ queue = <<>> /\ Ch!Open
    /\ ppc = "blocked" /\ ~(Ch!Open /\ Len(queue) >= Capacity) => notify > 0
    /\ reader = "woken" => queue # <<>> \/ ~Ch!Open
    /\ ended => ~Ch!Open /\ queue = <<>>

(* The item a pop takes from the queue goes to the end of what was         *)
(* received.                                                               *)
LEMMA DequeueMoves ==
  ASSUME NEW S, NEW q \in Seq(S), NEW r \in Seq(S), q # <<>>
  PROVE  /\ Append(r, Head(q)) \o Tail(q) = r \o q
         /\ Append(r, Head(q)) \in Seq(S) /\ Tail(q) \in Seq(S)
         /\ Len(Tail(q)) = Len(q) - 1
BY SMTT(60)

(* A push adds its item at the end of received and queued items together.  *)
LEMMA EnqueueAdds ==
  ASSUME NEW q \in Seq(Nat), NEW r \in Seq(Nat), NEW x \in Nat
  PROVE  /\ r \o Append(q, x) = Append(r \o q, x)
         /\ Append(q, x) \in Seq(Nat) /\ Append(q, x) # <<>>
         /\ Len(Append(q, x)) = Len(q) + 1
<1>1. Append(q, x) \in Seq(Nat) /\ Len(Append(q, x)) = Len(q) + 1
  BY SMTT(60)
<1>2. Append(q, x) # <<>>
  <2>1. Len(q) \in Nat /\ Len(<<>>) = 0
    BY SMTT(60)
  <2>2. Len(Append(q, x)) # Len(<<>>)
    BY ONLY <1>1, <2>1, SMTT(60)
  <2> QED BY <2>2, Zenon
<1>3. r \o Append(q, x) = Append(r \o q, x)
  BY SMTT(60)
<1> QED BY <1>1, <1>2, <1>3, Zenon

(* An accepted push keeps the channel's invariant.                         *)
LEMMA EnqueueInv ==
  ASSUME ChannelInv, Ch!Enqueue, Ch!Open,
         UNCHANGED <<terminal, received, ended>>, notify' \in Nat, ppc' # "blocked"
  PROVE  ChannelInv'
<1> USE DEF ChannelInv, Ch!Enqueue
<1>1. /\ received \o queue' = accepted'
      /\ queue' \in Seq(Nat) /\ next' \in Nat /\ queue' # <<>>
  <2>0. queue \in Seq(Nat) /\ received \in Seq(Nat) /\ next \in Nat
    BY Zenon
  <2>1. received \o Append(queue, next) = Append(received \o queue, next)
    BY ONLY <2>0, EnqueueAdds, ZenonT(60)
  <2>2. Append(queue, next) \in Seq(Nat) /\ Append(queue, next) # <<>>
    BY ONLY <2>0, EnqueueAdds, ZenonT(60)
  <2>3. next + 1 \in Nat
    BY ONLY <2>0, SMT
  <2> QED BY <2>1, <2>2, <2>3, Zenon DEF Ch!ZeroDataLoss
<1>2. waiting' \in BOOLEAN /\ reader' # "parked"
  BY ZenonT(60) DEF Ch!WakeConsumer
<1> QED BY <1>1, <1>2, SMTT(60) DEF Ch!ZeroDataLoss

(* So does taking the head of the queue.                                   *)
LEMMA DequeueInv ==
  ASSUME ChannelInv, Ch!Dequeue, queue # <<>>,
         UNCHANGED <<terminal, waiting, ppc, next, accepted, ended>>,
         reader \in {"idle", "woken"}, reader' = "idle"
  PROVE  ChannelInv'
<1> USE DEF ChannelInv, Ch!Dequeue
<1>1. /\ received' \o queue' = received \o queue
      /\ queue' \in Seq(Nat) /\ received' \in Seq(Nat)
  BY DequeueMoves, ZenonT(60)
<1>2. reader' # "parked"
  OBVIOUS
<1> QED BY <1>1, <1>2, SMTT(60) DEF Ch!ZeroDataLoss

(* finish_terminal: the terminal is set and a parked consumer woken.       *)
LEMMA TerminalInv ==
  ASSUME ChannelInv, NEW which, which # "open", Ch!FinishTerminal(which),
         UNCHANGED <<queue, next, accepted, received, ended>>
  PROVE  ChannelInv'
<1> USE DEF ChannelInv, Ch!FinishTerminal, Ch!WakeConsumer
<1>1. waiting' \in BOOLEAN /\ reader' # "parked"
  BY Zenon
<1>2. notify' \in Nat /\ notify' > 0
  OBVIOUS
<1>3. ~Ch!Open'
  BY Zenon DEF Ch!Open
<1> QED BY <1>1, <1>2, <1>3, Zenon DEF Ch!ZeroDataLoss

(* The producer's side: push(), its wake-up, try_push(), and a             *)
(* notification nobody waits for.                                          *)
LEMMA ProducerInv ==
  ASSUME ChannelInv, Ch!Push \/ Ch!PushWakes \/ Ch!TryPush \/ Ch!NotifyNobody
  PROVE  ChannelInv'
<1>1. CASE Ch!Enqueue /\ Ch!Open /\ UNCHANGED <<terminal, received, ended>> /\ notify' \in Nat
           /\ ppc' # "blocked"
  BY <1>1, EnqueueInv, ZenonT(60)
<1>2. CASE /\ UNCHANGED <<queue, accepted, received, terminal, waiting, reader, ppc, notify, ended>>
           /\ next' = next + 1
  BY <1>2, SMTT(60) DEF ChannelInv, Ch!ZeroDataLoss, Ch!Open
<1>3. CASE Ch!Push
  <2>1. CASE Ch!Open /\ Len(queue) >= Capacity /\ ppc' = "blocked"
             /\ UNCHANGED <<queue, accepted, waiting, reader, next>>
    BY <1>3, <2>1, SMTT(60) DEF ChannelInv, Ch!Push, Ch!ZeroDataLoss, Ch!Open
  <2> QED BY <1>1, <1>2, <1>3, <2>1, SMTT(60) DEF Ch!Push, ChannelInv
<1>4. CASE Ch!PushWakes
  <2>1. CASE Ch!Open /\ Len(queue) >= Capacity
             /\ UNCHANGED <<queue, accepted, waiting, reader, next, ppc>>
    BY <1>4, <2>1, SMTT(60) DEF ChannelInv, Ch!PushWakes, Ch!ZeroDataLoss, Ch!Open
  <2>2. CASE ~Ch!Open /\ next' = next + 1 /\ ppc' = "idle"
             /\ UNCHANGED <<queue, accepted, waiting, reader>>
    BY <1>4, <2>2, SMTT(60) DEF ChannelInv, Ch!PushWakes, Ch!ZeroDataLoss, Ch!Open
  <2> QED BY <1>1, <1>4, <2>1, <2>2, SMTT(60) DEF Ch!PushWakes, ChannelInv
<1>5. CASE Ch!TryPush
  BY <1>1, <1>2, <1>5, SMTT(60) DEF Ch!TryPush, ChannelInv
<1>6. CASE Ch!NotifyNobody
  BY <1>6, SMTT(60) DEF Ch!NotifyNobody, ChannelInv, Ch!ZeroDataLoss, Ch!Open
<1> QED BY <1>3, <1>4, <1>5, <1>6, SMTT(60)

(* The consumer's side: try_pop(), the awaiter's three steps, its          *)
(* destructor.                                                             *)
LEMMA ConsumerInv ==
  ASSUME ChannelInv,
         Ch!TryPop \/ Ch!AwaitReady \/ Ch!AwaitSuspend \/ Ch!AwaitResume \/ Ch!DestroyAwaiter
  PROVE  ChannelInv'
<1>1. CASE /\ Ch!Dequeue /\ queue # <<>>
           /\ UNCHANGED <<terminal, waiting, ppc, next, accepted, ended>>
           /\ reader \in {"idle", "woken"} /\ reader' = "idle"
  BY <1>1, DequeueInv, ZenonT(60)
<1>2. CASE /\ UNCHANGED <<queue, terminal, waiting, ppc, notify, next, accepted, received>>
           /\ reader' = reader \/ reader' \notin {"parked", "woken"}
           /\ ended' = ended \/ (~Ch!Open /\ queue = <<>>)
  BY <1>2 DEF ChannelInv, Ch!ZeroDataLoss, Ch!Open
<1>3. CASE Ch!TryPop
  BY <1>1, <1>3, SMTT(60) DEF Ch!TryPop
<1>4. CASE Ch!AwaitReady
  BY <1>1, <1>2, <1>4, SMTT(60) DEF Ch!AwaitReady
<1>5. CASE Ch!AwaitSuspend
  BY <1>2, <1>5, ZenonT(60) DEF Ch!AwaitSuspend, ChannelInv, Ch!ZeroDataLoss, Ch!Open
<1>6. CASE Ch!AwaitResume
  BY <1>1, <1>2, <1>6, SMTT(60) DEF Ch!AwaitResume, ChannelInv
<1>7. CASE Ch!DestroyAwaiter
  BY <1>7, ZenonT(60) DEF Ch!DestroyAwaiter, ChannelInv, Ch!ZeroDataLoss, Ch!Open
<1> QED BY <1>3, <1>4, <1>5, <1>6, <1>7, SMTT(60)

(* ChannelInv is an invariant of the channel.                              *)
LEMMA ChannelInvariance == Ch!Spec => []ChannelInv
<1>1. Ch!Init => ChannelInv
  <2>1. <<>> \in Seq(Nat) /\ <<>> \o <<>> = <<>> /\ 0 \in Nat /\ 1 \in Nat
    OBVIOUS
  <2> QED BY <2>1, Zenon DEF Ch!Init, ChannelInv, Ch!ZeroDataLoss, Ch!Open
<1>2. ChannelInv /\ [Ch!Next]_(Ch!vars) => ChannelInv'
  <2> SUFFICES ASSUME ChannelInv, [Ch!Next]_(Ch!vars) PROVE ChannelInv'
    BY SMTT(60)
  <2>1. CASE UNCHANGED Ch!vars
    BY <2>1, SMTT(60) DEF Ch!vars, ChannelInv, Ch!ZeroDataLoss, Ch!Open
  <2>2. ASSUME NEW which \in {"closed", "failed"}, Ch!Finish(which) PROVE ChannelInv'
    BY <2>2, TerminalInv, SMTT(60) DEF Ch!Finish
  <2>3. CASE Ch!DropProducer
    BY <2>3, TerminalInv, SMTT(60) DEF Ch!DropProducer
  <2>4. CASE Ch!Cancel
    BY <2>4, TerminalInv, SMTT(60) DEF Ch!Cancel
  <2> QED BY <2>1, <2>2, <2>3, <2>4, ProducerInv, ConsumerInv, SMTT(60) DEF Ch!Next
<1> QED BY <1>1, <1>2, PTL DEF Ch!Spec

(* Zero data loss: what was received, followed by what is queued, is what  *)
(* was accepted, in order (push, try_push, try_pop and next_awaiter of     *)
(* rt/channel.hpp).                                                        *)
THEOREM NothingLost == Ch!Spec => []Ch!ZeroDataLoss
<1>1. ChannelInv => Ch!ZeroDataLoss
  BY SMTT(60) DEF ChannelInv
<1> QED BY <1>1, ChannelInvariance, PTL

(* A wake-up is never lost on either side of the channel: next_awaiter     *)
(* re-checks under the lock before it parks, and every pop and terminal    *)
(* notifies not_full after the state it reports has changed.               *)
THEOREM ChannelWakeups == Ch!Spec => []BothSidesWoken
<1>1. ChannelInv => BothSidesWoken
  BY SMTT(60) DEF ChannelInv, BothSidesWoken
<1> QED BY <1>1, ChannelInvariance, PTL

(* The end of the stream is told only at the end: whichever of close(),    *)
(* fail(), cancel() and the destructors ended it, and however often the    *)
(* reading coroutine was destroyed and started again, a consumer that sees *)
(* nullopt has every value push() accepted.                                *)
THEOREM EndOfStream == Ch!Spec => []EndTruthful
<1>1. ChannelInv => EndTruthful
  <2>1. ASSUME received \in Seq(Nat), queue = <<>> PROVE received \o queue = received
    BY <2>1
  <2> QED BY <2>1, ZenonT(60) DEF ChannelInv, EndTruthful, Ch!ZeroDataLoss
<1> QED BY <1>1, ChannelInvariance, PTL

-----------------------------------------------------------------------------
(* Where a child can be.                                                   *)
ChildStates ==
    {"unspawned", "pending", "run", "faulting", "thrown", "ended", "post", "done"}

(* The types the proof needs.                                              *)
ScopeTypeOK ==
    /\ live \in Nat /\ running \in Nat /\ pending \in Seq(Children)
    /\ waiter \in BOOLEAN /\ awaiting \in BOOLEAN /\ final \in BOOLEAN
    /\ cpc \in [Children -> ChildStates]
    /\ handed \in [Children -> [next : Children \cup {None}, owner : BOOLEAN]]
    /\ opc \in {"body", "joining", "parked", "resumed", "woken", "joined", "done"}

(* The children that live_ counts.                                         *)
Touching == {c \in Children : cpc[c] \in Started \cup {"pending"}}

(* c ended and is about to post n, which it took from the pending queue.   *)
Hands(c, n) == cpc[c] = "post" /\ handed[c].next = n

(* The children that hold a slot of the cap: started, or on their way from *)
(* the pending queue to their strand.                                      *)
Slots == {n \in Children : cpc[n] \in Started \/ \E c \in Children : Hands(c, n)}

(* live_ and running_ are exact, and running_ stays under the cap.         *)
Counted ==
    /\ live = Cardinality(Touching)
    /\ running = Cardinality(Slots) /\ running <= Cap

(* The pending queue holds children that wait for a slot, each once.       *)
Waiting ==
    /\ \A i \in 1..Len(pending) : /\ cpc[pending[i]] = "pending"
                                  /\ \A c \in Children : ~Hands(c, pending[i])
    /\ \A i, j \in 1..Len(pending) : pending[i] = pending[j] => i = j

(* A child on its way is posted by one ended sibling only.                 *)
Handing ==
    \A c, n \in Children : Hands(c, n) =>
        cpc[n] = "pending" /\ \A d \in Children : Hands(d, n) => d = c

(* c ended last and is about to resume the owner.                          *)
Wakes(c) == cpc[c] = "post" /\ handed[c].owner

(* The owner is parked while live_ > 0 with its handle in waiter_, or      *)
(* exactly one child has the handle and is about to resume it; past the    *)
(* join nobody is live.                                                    *)
OwnerParked ==
    /\ waiter => opc = "parked" /\ live > 0
    /\ \A c \in Children : Wakes(c) => opc = "parked" /\ live = 0
    /\ \A c, d \in Children : Wakes(c) /\ Wakes(d) => c = d
    /\ opc \in {"resumed", "woken", "joined", "done"} => live = 0
    /\ opc = "parked" => (waiter /\ live > 0) \/ \E c \in Children : Wakes(c)

(* The inductive invariant of the scope.                                   *)
ScopeInv ==
    /\ ScopeTypeOK /\ Counted /\ Waiting /\ Handing /\ OwnerParked
    /\ AwaitedEdgeTruthful

(* It holds at the start.                                                  *)
LEMMA InitScope == Init => ScopeInv
<1> SUFFICES ASSUME Init PROVE ScopeInv
  BY ZenonT(60)
<1>0. 0 \in Nat /\ <<>> \in Seq(Children) /\ Len(<<>>) = 0 /\ 1..0 = {} /\ ~(0 > 0)
  OBVIOUS
<1>1. ScopeTypeOK
  <2>2. /\ cpc \in [Children -> ChildStates]
        /\ handed \in [Children -> [next : Children \cup {None}, owner : BOOLEAN]]
    BY ZenonT(60) DEF Init, ChildStates
  <2> QED BY <1>0, <2>2, ScopeAssumption, ZenonT(60) DEF Init, ScopeTypeOK
<1>2. Touching = {} /\ Slots = {}
  BY Zenon DEF Init, Touching, Slots, Started, Hands
<1>3. Counted
  <2>1. live = 0 /\ running = 0
    BY Zenon DEF Init
  <2> QED BY <1>2, <2>1, FS_EmptySet, ScopeAssumption, SMTT(60) DEF Counted
<1>4. Waiting
  BY <1>0, ZenonT(60) DEF Init, Waiting
<1>5. Handing
  BY Zenon DEF Init, Handing, Hands
<1>6. OwnerParked
  BY <1>0, ZenonT(60) DEF Init, OwnerParked, Wakes
<1> QED BY <1>1, <1>3, <1>4, <1>5, <1>6, ZenonT(60) DEF Init, ScopeInv, AwaitedEdgeTruthful

(* The two counted sets are finite.                                        *)
LEMMA FiniteCounts == IsFiniteSet(Touching) /\ IsFiniteSet(Slots)
BY ScopeAssumption, FS_Subset, SMTT(60) DEF Touching, Slots

(* spawn(): under the cap the child starts, otherwise it is queued.        *)
LEMMA SpawnScope == ASSUME ScopeInv, NEW c \in Children, Spawn(c) PROVE ScopeInv'
<1> USE DEF ScopeInv
<1>1. /\ opc = "body" /\ cpc[c] = "unspawned" /\ live' = live + 1
      /\ UNCHANGED <<waiter, awaiting, handed, opc, final>>
  BY Zenon DEF Spawn, ownerVars
<1>2. PICK to \in {"run", "pending"} :
        /\ cpc' = [cpc EXCEPT ![c] = to]
        /\ to = "run" => running < Cap /\ running' = running + 1 /\ pending' = pending
        /\ to = "pending" => running' = running /\ pending' = Append(pending, c)
  BY Zenon DEF Spawn, Behind
<1>3. /\ cpc' \in [Children -> ChildStates] /\ cpc'[c] = to
      /\ \A d \in Children \ {c} : cpc'[d] = cpc[d]
  BY <1>2, ZenonT(60) DEF ScopeTypeOK, ChildStates
<1>4. \A d, n \in Children : Hands(d, n)' <=> Hands(d, n)
  BY <1>1, <1>2, <1>3, Zenon DEF Hands
<1>5. \A d \in Children : Wakes(d)' <=> Wakes(d)
  BY <1>1, <1>2, <1>3, Zenon DEF Wakes
<1>6. \A d \in Children : ~Hands(d, c)
  BY <1>1, Zenon DEF Handing
<1>7. pending \in Seq(Children) /\ running \in Nat /\ live \in Nat
  BY Zenon DEF ScopeTypeOK
<1>8. ScopeTypeOK'
  <2>1. running' \in Nat /\ live' \in Nat
    BY <1>1, <1>2, <1>7, SMTT(60)
  <2>2. pending' \in Seq(Children)
    BY <1>2, <1>7, SMTT(60)
  <2> QED BY <1>1, <1>3, <2>1, <2>2, ZenonT(60) DEF ScopeTypeOK
<1>9. Counted'
  <2>1. Touching' = Touching \cup {c} /\ c \notin Touching
    BY <1>1, <1>3, ZenonT(60) DEF Touching, Started
  <2>2. live' = Cardinality(Touching')
    BY <1>1, <2>1, FiniteCounts, FS_AddElement, ZenonT(60) DEF Counted
  <2>3. CASE to = "run"
    <3>1. Slots' = Slots \cup {c} /\ c \notin Slots
      BY <1>1, <1>3, <1>4, <1>6, <2>3, ZenonT(60) DEF Slots, Started
    <3>2. Cardinality(Slots') = Cardinality(Slots) + 1
      BY <3>1, FiniteCounts, FS_AddElement, ZenonT(60)
    <3> QED BY <1>2, <1>7, <2>2, <2>3, <3>2, ScopeAssumption, SMTT(60) DEF Counted
  <2>4. CASE to = "pending"
    <3>1. Slots' = Slots
      BY <1>1, <1>3, <1>4, <1>6, <2>4, ZenonT(60) DEF Slots, Started
    <3> QED BY <1>2, <2>2, <2>4, <3>1, SMTT(60) DEF Counted
  <2> QED BY <2>3, <2>4, SMTT(60)
<1>10. Waiting'
  <2>1. CASE to = "run"
    BY <1>1, <1>2, <1>3, <1>4, <1>7, <2>1, SMTT(60) DEF Waiting
  <2>2. CASE to = "pending"
    <3>1. \A i \in 1..Len(pending) : pending[i] # c /\ pending[i] \in Children
      BY <1>1, <1>7, SMTT(60) DEF Waiting
    <3>2. /\ Len(pending') = Len(pending) + 1 /\ pending'[Len(pending) + 1] = c
          /\ \A i \in 1..Len(pending) : pending'[i] = pending[i]
      BY <1>2, <1>7, <2>2, SMTT(60)
    <3>3. Len(pending) \in Nat
      BY <1>7
    <3> QED BY <1>3, <1>4, <1>6, <2>2, <3>1, <3>2, <3>3, SMTT(60) DEF Waiting
  <2> QED BY <2>1, <2>2, SMTT(60)
<1>11. Handing'
  BY <1>1, <1>3, <1>4, ZenonT(60) DEF Handing
<1>12. OwnerParked'
  BY <1>1, <1>5, <1>7, SMTT(60) DEF OwnerParked
<1>13. AwaitedEdgeTruthful'
  BY <1>1, Zenon DEF AwaitedEdgeTruthful
<1> QED BY <1>8, <1>9, <1>10, <1>11, <1>12, <1>13, ZenonT(60)

(* The owner's own steps leave the children's books alone.                 *)
LEMMA OwnerFrame ==
  ASSUME ScopeInv, UNCHANGED <<live, running, pending, cpc, handed>>
  PROVE  /\ Counted' /\ Waiting' /\ Handing'
         /\ \A c \in Children : Wakes(c)' <=> Wakes(c)
<1>1. Touching' = Touching /\ Slots' = Slots
  BY Zenon DEF Touching, Slots, Hands
<1>2. Counted'
  BY <1>1, Zenon DEF ScopeInv, Counted
<1>3. Waiting'
  BY ZenonT(60) DEF ScopeInv, Waiting, Hands
<1>4. Handing'
  BY ZenonT(60) DEF ScopeInv, Handing, Hands
<1> QED BY <1>2, <1>3, <1>4, ZenonT(60) DEF Wakes

(* The body ends or reaches the join.                                      *)
LEMMA BodyScope ==
  ASSUME ScopeInv, BodyJoins \/ \E throws \in BOOLEAN : BodyEnds(throws)
  PROVE  ScopeInv'
<1>1. /\ UNCHANGED <<live, running, pending, cpc, handed, waiter, awaiting>>
      /\ opc = "body" /\ opc' \in {"joined", "joining"} /\ final' \in BOOLEAN
      /\ opc' = "joined" => live = 0
  BY Zenon DEF BodyJoins, BodyEnds, scopeVars, ScopeInv, ScopeTypeOK
<1>2. ScopeTypeOK'
  BY <1>1, Zenon DEF ScopeInv, ScopeTypeOK
<1>3. OwnerParked'
  BY <1>1, OwnerFrame, Zenon DEF ScopeInv, OwnerParked
<1>4. AwaitedEdgeTruthful'
  BY <1>1, Zenon DEF ScopeInv, AwaitedEdgeTruthful
<1> QED BY <1>1, <1>2, <1>3, <1>4, OwnerFrame, Zenon DEF ScopeInv

(* The join parks the owner under the lock that a last child takes too.    *)
LEMMA JoinScope == ASSUME ScopeInv, JoinSuspend PROVE ScopeInv'
<1>1. /\ UNCHANGED <<live, running, pending, cpc, handed, final>>
      /\ opc = "joining"
      /\ \/ live = 0 /\ opc' = "resumed" /\ UNCHANGED <<waiter, awaiting>>
         \/ live # 0 /\ opc' = "parked" /\ waiter' /\ waiter' \in BOOLEAN /\ awaiting' \in BOOLEAN
  BY Zenon DEF JoinSuspend
<1>2. ScopeTypeOK'
  BY <1>1, ZenonT(60) DEF ScopeInv, ScopeTypeOK
<1>3. live' = live /\ (live # 0 => live' > 0)
  BY <1>1, SMTT(60) DEF ScopeInv, ScopeTypeOK
<1>4. OwnerParked'
  <2>1. ~waiter /\ \A c \in Children : ~Wakes(c)'
    BY <1>1, OwnerFrame, Zenon DEF ScopeInv, OwnerParked
  <2> QED BY <1>1, <1>3, <2>1, SMTT(60) DEF OwnerParked
<1>5. AwaitedEdgeTruthful'
  BY <1>1, Zenon DEF ScopeInv, AwaitedEdgeTruthful
<1> QED BY <1>1, <1>2, <1>4, <1>5, OwnerFrame, Zenon DEF ScopeInv

(* The owner goes on after the join.                                       *)
LEMMA GoesOnScope ==
  ASSUME ScopeInv, JoinResume \/ Deliver \/ ForwardStop \/ UNCHANGED vars
  PROVE  ScopeInv'
<1>1. /\ UNCHANGED <<live, running, pending, cpc, handed, final, waiter>>
      /\ \/ opc' = opc /\ awaiting' = awaiting
         \/ /\ opc \in {"resumed", "woken"} /\ opc' \in {"joined", "body"}
            /\ awaiting' = (awaiting /\ AlwaysAwaited)
         \/ opc = "joined" /\ opc' = "done" /\ awaiting' = awaiting
  BY Zenon DEF JoinResume, Deliver, ForwardStop, vars, scopeVars, ownerVars
<1>2. ScopeTypeOK'
  BY <1>1, ScopeAssumption, ZenonT(60) DEF ScopeInv, ScopeTypeOK
<1>3. OwnerParked'
  BY <1>1, OwnerFrame, ZenonT(60) DEF ScopeInv, OwnerParked
<1>4. AwaitedEdgeTruthful'
  BY <1>1, Zenon DEF ScopeInv, AwaitedEdgeTruthful
<1> QED BY <1>1, <1>2, <1>3, <1>4, OwnerFrame, ZenonT(60) DEF ScopeInv

(* A child runs, fails, and asks its siblings to stop.                     *)
LEMMA ChildScope ==
  ASSUME ScopeInv, NEW c \in Children,
         (\E throws \in BOOLEAN : ChildBody(c, throws)) \/ NoteFault(c) \/ StopSiblings(c)
  PROVE  ScopeInv'
<1> USE DEF ScopeInv
<1>1. /\ UNCHANGED <<live, running, pending, handed, opc, final, waiter, awaiting>>
      /\ cpc[c] \in Started
      /\ \E to \in {"faulting", "thrown", "ended"} : cpc' = [cpc EXCEPT ![c] = to]
  BY Zenon DEF ChildBody, NoteFault, StopSiblings, scopeVars, ownerVars, Started
<1>2. /\ cpc' \in [Children -> ChildStates]
      /\ cpc'[c] \in Started /\ \A d \in Children \ {c} : cpc'[d] = cpc[d]
  BY <1>1, Zenon DEF ScopeTypeOK, ChildStates, Started
<1>3. \A d, n \in Children : Hands(d, n)' <=> Hands(d, n)
  BY <1>1, <1>2, ZenonT(60) DEF Hands, Started
<1>4. \A d \in Children : Wakes(d)' <=> Wakes(d)
  BY <1>1, <1>2, ZenonT(60) DEF Wakes, Started
<1>5. Touching' = Touching /\ Slots' = Slots
  BY <1>1, <1>2, <1>3, ZenonT(60) DEF Touching, Slots
<1>6. ScopeTypeOK'
  BY <1>1, <1>2, ZenonT(60) DEF ScopeTypeOK
<1>7. Counted'
  BY <1>1, <1>5, ZenonT(60) DEF Counted
<1>8. \A i \in 1..Len(pending) : pending[i] \in Children
  BY DEF ScopeTypeOK
<1>9. Waiting'
  BY <1>1, <1>2, <1>3, <1>8, ZenonT(60) DEF Waiting, Started
<1>10. Handing'
  BY <1>1, <1>2, <1>3, Zenon DEF Handing, Started
<1>11. OwnerParked'
  BY <1>1, <1>4, Zenon DEF OwnerParked
<1> QED BY <1>1, <1>6, <1>7, <1>9, <1>10, <1>11, ZenonT(60) DEF AwaitedEdgeTruthful

(* A child ends: live_ is stepped down, and the next pending child or the  *)
(* owner's handle is taken under the same lock.                            *)
LEMMA ChildDoneScope == ASSUME ScopeInv, NEW c \in Children, ChildDone(c) PROVE ScopeInv'
<1> USE DEF ScopeInv
<1>0. PICK n : n = IF pending = <<>> THEN None ELSE Head(pending)
  BY Zenon
<1>1. /\ cpc[c] = "ended" /\ live' = live - 1
      /\ waiter' = (waiter /\ live > 1)
      /\ UNCHANGED <<opc, final, awaiting>>
      /\ cpc' = [cpc EXCEPT ![c] = "post"]
      /\ handed' = [handed EXCEPT ![c] = [next |-> n, owner |-> waiter /\ live = 1]]
  BY <1>0, Zenon DEF ChildDone, ownerVars
<1>2. /\ running' = IF pending = <<>> THEN running - 1 ELSE running
      /\ pending' = IF pending = <<>> THEN pending ELSE Tail(pending)
  BY Zenon DEF ChildDone, RunningAfter
<1>3. pending \in Seq(Children) /\ running \in Nat /\ live \in Nat
  BY Zenon DEF ScopeTypeOK
<1>4. pending # <<>> =>
        /\ n = pending[1] /\ n \in Children /\ 1 \in 1..Len(pending)
        /\ pending' \in Seq(Children) /\ Len(pending') = Len(pending) - 1
        /\ \A i \in 1..Len(pending') : pending'[i] = pending[i + 1] /\ i + 1 \in 1..Len(pending)
  BY <1>0, <1>2, <1>3, SMTT(60)
<1>5. /\ n \in Children \cup {None} /\ pending' \in Seq(Children)
      /\ pending = <<>> => n \notin Children
  BY <1>0, <1>2, <1>3, <1>4, ScopeAssumption, ZenonT(60)
<1>6. /\ cpc' \in [Children -> ChildStates] /\ cpc'[c] = "post"
      /\ \A d \in Children \ {c} : cpc'[d] = cpc[d] /\ handed'[d] = handed[d]
      /\ handed'[c].next = n /\ handed'[c].owner = (waiter /\ live = 1)
      /\ handed' \in [Children -> [next : Children \cup {None}, owner : BOOLEAN]]
  BY <1>1, <1>5, Zenon DEF ScopeTypeOK, ChildStates
<1>7. \A d, m \in Children : Hands(d, m)' <=> (d = c /\ m = n) \/ (d # c /\ Hands(d, m))
  BY <1>6, Zenon DEF Hands
<1>8. \A d \in Children : ~Hands(c, d) /\ ~Hands(d, c)
  BY <1>1, ZenonT(60) DEF Hands, Handing
<1>9. n \in Children => cpc[n] = "pending" /\ n # c /\ \A d \in Children : ~Hands(d, n)
  <2> SUFFICES ASSUME n \in Children
               PROVE  cpc[n] = "pending" /\ n # c /\ \A d \in Children : ~Hands(d, n)
    BY Zenon
  <2>1. n = pending[1] /\ 1 \in 1..Len(pending)
    BY <1>4, <1>5, Zenon
  <2>2. cpc[pending[1]] = "pending" /\ \A d \in Children : ~Hands(d, pending[1])
    BY <2>1, Zenon DEF Waiting
  <2> QED BY <1>1, <2>1, <2>2, ZenonT(60)
<1>10. c \in Touching /\ Touching' = Touching \ {c}
  BY <1>1, <1>6, ZenonT(60) DEF Touching, Started
<1>11. live > 0 /\ live' \in Nat /\ live' = Cardinality(Touching')
  <2>1. live = Cardinality(Touching) /\ Touching # {}
    BY <1>10, ZenonT(60) DEF Counted
  <2>2. Cardinality(Touching) # 0 /\ Cardinality(Touching') = Cardinality(Touching) - 1
    BY <1>10, <2>1, FiniteCounts, FS_EmptySet, FS_RemoveElement, ZenonT(60)
  <2> QED BY <1>1, <1>3, <2>1, <2>2, SMTT(60)
<1>12. c \in Slots /\ Slots' = IF pending = <<>> THEN Slots \ {c} ELSE (Slots \ {c}) \cup {n}
  <2>1. c \in Slots
    BY <1>1, ZenonT(60) DEF Slots, Started
  <2>2. CASE pending = <<>>
    <3>1. n \notin Children
      BY <1>5, <2>2, ZenonT(60)
    <3>2. \A m \in Children : cpc'[m] \in Started <=> m # c /\ cpc[m] \in Started
      BY <1>1, <1>6, Zenon DEF Started
    <3>3. \A m \in Children : (\E d \in Children : Hands(d, m)')
                               <=> m # c /\ \E d \in Children : Hands(d, m)
      BY <1>7, <1>8, <3>1, Zenon
    <3>4. Slots' = Slots \ {c}
      BY <3>2, <3>3, ZenonT(60) DEF Slots, Started
    <3> QED BY <2>1, <2>2, <3>4, ZenonT(60)
  <2>3. CASE pending # <<>>
    <3>1. n \in Children /\ n # c
      BY <1>4, <1>9, <2>3, ZenonT(60)
    <3>2. \A m \in Children : cpc'[m] \in Started <=> m # c /\ cpc[m] \in Started
      BY <1>1, <1>6, Zenon DEF Started
    <3>3. \A m \in Children : (\E d \in Children : Hands(d, m)')
                               <=> m = n \/ (m # c /\ \E d \in Children : Hands(d, m))
      BY <1>7, <1>8, <3>1, ZenonT(60)
    <3>4. Slots' = (Slots \ {c}) \cup {n}
      BY <3>1, <3>2, <3>3, SMTT(60) DEF Slots, Started
    <3> QED BY <2>1, <2>3, <3>4, ZenonT(60)
  <2> QED BY <2>1, <2>2, <2>3, ZenonT(60)
<1>13. running' \in Nat /\ running' <= Cap /\ running' = Cardinality(Slots')
  <2>1. /\ running = Cardinality(Slots) /\ running <= Cap /\ Slots # {}
        /\ IsFiniteSet(Slots)
    BY <1>12, FiniteCounts, ZenonT(60) DEF Counted
  <2>2. running # 0 /\ IsFiniteSet(Slots \ {c}) /\ Cardinality(Slots \ {c}) = running - 1
    BY <1>12, <2>1, FS_EmptySet, FS_RemoveElement, ZenonT(60)
  <2>3. CASE pending = <<>>
    BY <1>2, <1>3, <1>12, <2>1, <2>2, <2>3, ScopeAssumption, SMTT(60)
  <2>4. CASE pending # <<>>
    <3>1. n \notin Slots \ {c}
      BY <1>4, <1>9, <2>4, Zenon DEF Slots, Started
    <3>2. Cardinality((Slots \ {c}) \cup {n}) = running - 1 + 1
      BY <2>2, <3>1, FS_AddElement, ZenonT(60)
    <3> QED BY <1>2, <1>3, <1>12, <2>1, <2>4, <3>2, SMTT(60)
  <2> QED BY <2>3, <2>4
<1>14. ScopeTypeOK'
  BY <1>1, <1>5, <1>6, <1>11, <1>13, ZenonT(60) DEF ScopeTypeOK
<1>15. Waiting'
  <2>1. CASE pending = <<>>
    BY <1>2, <2>1, SMTT(60) DEF Waiting
  <2>2. CASE pending # <<>>
    <3>1. ASSUME NEW i \in 1..Len(pending')
          PROVE  /\ cpc'[pending'[i]] = "pending"
                 /\ \A d \in Children : ~(cpc'[d] = "post" /\ handed'[d].next = pending'[i])
      <4>1. /\ pending'[i] = pending[i + 1] /\ i + 1 \in 1..Len(pending) /\ i + 1 # 1
            /\ 1 \in 1..Len(pending) /\ pending[i + 1] \in Children
        BY <1>3, <1>4, <2>2, <3>1, SMTT(60)
      <4>2. PICK m \in Children : m = pending[i + 1]
        BY <4>1, Zenon
      <4>3. cpc[m] = "pending" /\ m # n /\ \A d \in Children : ~Hands(d, m)
        BY <1>4, <2>2, <4>1, <4>2, ZenonT(60) DEF Waiting
      <4>4. cpc'[m] = "pending" /\ \A d \in Children : ~Hands(d, m)'
        BY <1>1, <1>6, <1>7, <4>3, ZenonT(60)
      <4> QED BY <4>1, <4>2, <4>4, ZenonT(60) DEF Hands
    <3>2. ASSUME NEW i \in 1..Len(pending'), NEW j \in 1..Len(pending'), pending'[i] = pending'[j]
          PROVE  i = j
      BY <1>3, <1>4, <2>2, <3>2 DEF Waiting
    <3> QED BY <3>1, <3>2, ZenonT(60) DEF Waiting, Hands
  <2> QED BY <2>1, <2>2, SMTT(60)
<1>16. Handing'
  <2> SUFFICES ASSUME NEW d \in Children, NEW m \in Children, Hands(d, m)'
               PROVE  cpc'[m] = "pending" /\ \A e \in Children : Hands(e, m)' => e = d
    BY Zenon DEF Handing
  <2>1. CASE d = c /\ m = n
    <3>1. cpc[n] = "pending" /\ n # c /\ \A e \in Children : ~Hands(e, n)
      BY <1>9, <2>1, Zenon
    <3> QED BY <1>6, <1>7, <2>1, <3>1, ZenonT(60)
  <2>2. CASE d # c /\ Hands(d, m)
    <3>1. cpc[m] = "pending" /\ m # n /\ \A e \in Children : Hands(e, m) => e = d
      BY <1>9, <2>2, ZenonT(60) DEF Handing
    <3> QED BY <1>1, <1>6, <1>7, <2>2, <3>1, ZenonT(60)
  <2> QED BY <1>7, <2>1, <2>2, Zenon
<1>17. Counted'
  BY <1>11, <1>13, Zenon DEF Counted
<1>18. OwnerParked'
  <2>1. \A d \in Children : Wakes(d)' <=> (d # c /\ Wakes(d)) \/ (d = c /\ waiter /\ live = 1)
    BY <1>6, Zenon DEF Wakes
  <2>2. \A d \in Children : ~Wakes(d)
    BY <1>3, <1>11, SMTT(60) DEF OwnerParked
  <2>3. \A d \in Children : Wakes(d)' <=> d = c /\ waiter /\ live = 1
    BY <2>1, <2>2, Zenon
  <2>4. waiter' => opc' = "parked" /\ live' > 0
    <3>1. waiter' => waiter /\ live > 1
      BY <1>1, Zenon
    <3>2. waiter' => opc' = "parked"
      BY <1>1, <3>1, Zenon DEF OwnerParked
    <3>3. live > 1 => live' > 0
      BY <1>1, <1>3, SMTT(60)
    <3> QED BY <3>1, <3>2, <3>3, Zenon
  <2>5. \A d \in Children : Wakes(d)' => opc' = "parked" /\ live' = 0
    BY <1>1, <2>3, SMTT(60) DEF OwnerParked
  <2>6. opc' \in {"resumed", "woken", "joined", "done"} => live' = 0
    BY <1>1, <1>11, <1>3, SMTT(60) DEF OwnerParked
  <2>7. opc' = "parked" => (waiter' /\ live' > 0) \/ \E d \in Children : Wakes(d)'
    <3> SUFFICES ASSUME opc' = "parked" PROVE (waiter' /\ live' > 0) \/ Wakes(c)'
      BY Zenon
    <3>1. waiter
      BY <1>1, <2>2, Zenon DEF OwnerParked
    <3>2. CASE live = 1
      BY <2>3, <3>1, <3>2, Zenon
    <3>3. CASE live # 1
      <4>1. live > 1 /\ live' > 0
        BY <1>1, <1>3, <1>11, <3>3, SMTT(60)
      <4> QED BY <1>1, <3>1, <4>1, Zenon
    <3> QED BY <3>2, <3>3
  <2> QED BY <2>3, <2>4, <2>5, <2>6, <2>7, ZenonT(60) DEF OwnerParked
<1>19. AwaitedEdgeTruthful'
  BY <1>1, Zenon DEF AwaitedEdgeTruthful
<1> QED BY <1>14, <1>15, <1>16, <1>17, <1>18, <1>19, ZenonT(60)

(* The ended child posts, outside the lock, what it took inside it.        *)
LEMMA ChildPostsScope == ASSUME ScopeInv, NEW c \in Children, ChildPosts(c) PROVE ScopeInv'
<1> USE DEF ScopeInv
<1>0. PICK n : n = handed[c].next
  BY Zenon
<1>1. /\ cpc[c] = "post" /\ UNCHANGED <<live, running, pending, waiter, awaiting, handed, final>>
      /\ cpc' = [x \in Children |-> IF x = c THEN "done" ELSE IF x = n THEN "run" ELSE cpc[x]]
      /\ opc' = IF Wakes(c) THEN "woken" ELSE opc
  BY <1>0, Zenon DEF ChildPosts, scopeVars, Wakes
<1>2. \A m \in Children : Hands(c, m) <=> m = n
  BY <1>0, <1>1, Zenon DEF Hands
<1>3. n \in Children => cpc[n] = "pending" /\ n # c /\ \A d \in Children : Hands(d, n) => d = c
  BY <1>1, <1>2, Zenon DEF Handing
<1>4. /\ cpc' \in [Children -> ChildStates] /\ cpc'[c] = "done"
      /\ n \in Children => cpc'[n] = "run"
      /\ \A d \in Children : d # c /\ d # n => cpc'[d] = cpc[d]
  BY <1>1, <1>3, Zenon DEF ScopeTypeOK, ChildStates
<1>5. \A d, m \in Children : Hands(d, m)' <=> d # c /\ Hands(d, m)
  BY <1>1, <1>3, <1>4, Zenon DEF Hands
<1>6. \A d \in Children : Wakes(d)' <=> d # c /\ Wakes(d)
  BY <1>1, <1>3, <1>4, Zenon DEF Wakes
<1>7. Touching' = Touching
  BY <1>1, <1>3, <1>4, Zenon DEF Touching, Started
<1>8. Slots' = Slots
  <2>1. \A m \in Children : cpc'[m] \in Started <=> m = n \/ cpc[m] \in Started
    BY <1>1, <1>3, <1>4, Zenon DEF Started
  <2>2. \A m \in Children : (\E d \in Children : Hands(d, m)')
                             <=> m # n /\ \E d \in Children : Hands(d, m)
    BY <1>2, <1>3, <1>5, Zenon
  <2>3. \A m \in Children : m = n => \E d \in Children : Hands(d, m)
    BY <1>2, Zenon
  <2> QED BY <2>1, <2>2, <2>3, Zenon DEF Slots, Started
<1>9. ScopeTypeOK'
  BY <1>1, <1>4, Zenon DEF ScopeTypeOK
<1>10. Counted'
  BY <1>1, <1>7, <1>8, Zenon DEF Counted
<1>11. Waiting'
  <2>1. ASSUME NEW i \in 1..Len(pending)
        PROVE  /\ cpc'[pending[i]] = "pending"
               /\ \A d \in Children : ~(cpc'[d] = "post" /\ handed'[d].next = pending[i])
    <3>0. pending \in Seq(Children)
      BY Zenon DEF ScopeTypeOK
    <3>1. PICK m \in Children : m = pending[i]
      BY <2>1, <3>0, SMT
    <3>2. cpc[m] = "pending" /\ \A d \in Children : ~Hands(d, m)
      BY <3>1, Zenon DEF Waiting
    <3>3. cpc'[m] = "pending" /\ \A d \in Children : ~Hands(d, m)'
      BY <1>1, <1>2, <1>4, <1>5, <3>2, Zenon
    <3> QED BY <3>1, <3>3, Zenon DEF Hands
  <2> QED BY <1>1, <2>1, ZenonT(60) DEF Waiting, Hands
<1>12. Handing'
  BY <1>1, <1>2, <1>4, <1>5, ZenonT(60) DEF Handing
<1>13. OwnerParked'
  <2>1. CASE Wakes(c)
    <3>1. opc' = "woken" /\ live' = 0 /\ live = 0
      BY <1>1, <2>1, Zenon DEF OwnerParked
    <3>2. ~waiter'
      BY <1>1, <3>1 DEF OwnerParked
    <3>3. \A d \in Children : ~Wakes(d)'
      BY <1>6, <2>1, Zenon DEF OwnerParked
    <3> QED BY <3>1, <3>2, <3>3, Zenon DEF OwnerParked
  <2>2. CASE ~Wakes(c)
    <3>1. opc' = opc /\ \A d \in Children : Wakes(d)' <=> Wakes(d)
      BY <1>1, <1>6, <2>2, Zenon
    <3> QED BY <1>1, <3>1, Zenon DEF OwnerParked
  <2> QED BY <2>1, <2>2
<1>14. AwaitedEdgeTruthful'
  BY <1>1, Zenon DEF AwaitedEdgeTruthful
<1> QED BY <1>9, <1>10, <1>11, <1>12, <1>13, <1>14, Zenon

(* Every step keeps the invariant.                                         *)
LEMMA NextScope == ScopeInv /\ [Next]_vars => ScopeInv'
<1> SUFFICES ASSUME ScopeInv, [Next]_vars PROVE ScopeInv'
  BY Zenon
<1>1. CASE \E c \in Children : Spawn(c)
  BY <1>1, SpawnScope, Zenon
<1>2. CASE \E c \in Children : \/ \E throws \in BOOLEAN : ChildBody(c, throws)
                               \/ NoteFault(c) \/ StopSiblings(c)
  BY <1>2, ChildScope, ZenonT(60)
<1>3. CASE \E c \in Children : ChildDone(c)
  BY <1>3, ChildDoneScope, Zenon
<1>4. CASE \E c \in Children : ChildPosts(c)
  BY <1>4, ChildPostsScope, Zenon
<1>5. CASE BodyJoins \/ \E throws \in BOOLEAN : BodyEnds(throws)
  BY <1>5, BodyScope, ZenonT(60)
<1>6. CASE JoinSuspend
  BY <1>6, JoinScope, Zenon
<1>7. CASE JoinResume \/ Deliver \/ ForwardStop \/ UNCHANGED vars
  BY <1>7, GoesOnScope, ZenonT(60)
<1> QED BY <1>1, <1>2, <1>3, <1>4, <1>5, <1>6, <1>7, ZenonT(60) DEF Next, Finished

(* ScopeInv is an invariant of the scope.                                  *)
LEMMA ScopeInvariance == Spec => []ScopeInv
BY InitScope, NextScope, PTL DEF Spec

(* Once the owner has gone past its last join, every spawned child has     *)
(* made its last touch of the scope, for any number of children behind any *)
(* cap (JoinAwaiter and child_done of rt/scope.hpp).                       *)
THEOREM ScopeOutlivesChildren == Spec => []NoChildOutlivesScope
<1>1. ScopeInv => NoChildOutlivesScope
  <2> SUFFICES ASSUME ScopeInv, opc \in {"joined", "done"} PROVE NoChildOutlivesScope
    BY Zenon DEF NoChildOutlivesScope
  <2>1. live = 0 /\ Cardinality(Touching) = 0
    BY Zenon DEF ScopeInv, OwnerParked, Counted
  <2>2. Touching = {}
    BY <2>1, FiniteCounts, FS_EmptySet, ZenonT(60)
  <2>3. \A c \in Children : cpc[c] \in {"unspawned", "post", "done"}
    BY <2>2, ZenonT(60) DEF Touching, Started, ScopeInv, ScopeTypeOK, ChildStates
  <2> QED BY <2>1, <2>3, Zenon DEF NoChildOutlivesScope
<1> QED BY <1>1, ScopeInvariance, PTL

(* live_ counts exactly the children that have not made their last touch,  *)
(* those queued behind the cap included, and a parked owner has one of     *)
(* them, or the post of its handle, still to come (spawn_void, JoinAwaiter *)
(* and child_done).                                                        *)
THEOREM EveryChildCounted == Spec => []NobodyForgotten
<1>1. ScopeInv => NobodyForgotten
  BY Zenon DEF ScopeInv, Counted, Touching, OwnerParked, Wakes, NobodyForgotten
<1> QED BY <1>1, ScopeInvariance, PTL

(* While owner_awaiting_ reads true the owner is suspended in its join     *)
(* (when_all, which has no body, aside), so a lock lent over that edge is  *)
(* lent by a suspended owner.                                              *)
THEOREM EdgeTruthful == Spec => []AwaitedEdgeTruthful
<1>1. ScopeInv => AwaitedEdgeTruthful
  BY Zenon DEF ScopeInv
<1> QED BY <1>1, ScopeInvariance, PTL

(* No more children run than the cap allows.                               *)
CapHeld == Cardinality({c \in Children : cpc[c] \in Started}) <= Cap

(* max_concurrency holds at every moment, a pending child taking over the  *)
(* slot of the sibling that ended included (spawn_void and child_done of   *)
(* rt/scope.hpp).                                                          *)
THEOREM CapRespected == Spec => []CapHeld
<1>1. ScopeInv => CapHeld
  <2> SUFFICES ASSUME ScopeInv PROVE CapHeld
    BY Zenon
  <2> DEFINE S == {c \in Children : cpc[c] \in Started}
  <2>1. S \subseteq Slots
    BY Zenon DEF Slots
  <2>2. Cardinality(S) <= Cardinality(Slots) /\ IsFiniteSet(S)
    BY <2>1, FiniteCounts, FS_Subset, Zenon
  <2>3. Cardinality(Slots) <= Cap /\ Cardinality(Slots) \in Nat /\ Cardinality(S) \in Nat
    BY <2>2, FiniteCounts, FS_CardinalityType, Zenon DEF ScopeInv, Counted
  <2>4. Cardinality(S) <= Cap
    BY <2>2, <2>3, ScopeAssumption
  <2> QED BY <2>4, Zenon DEF CapHeld
<1> QED BY <1>1, ScopeInvariance, PTL

=============================================================================
