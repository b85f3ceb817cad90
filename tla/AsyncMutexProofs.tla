-------------------------- MODULE AsyncMutexProofs --------------------------
(***************************************************************************)
(* "One session, one executor" and "no barging" for any set of tasks,      *)
(* forked and joined in any shape, as long as no task awaits children      *)
(* while its own release is pending in another thread's hand-off loop      *)
(* (~AwaitWhilePending). The run mutex_pending shows what happens without  *)
(* that condition.                                                         *)
(*                                                                         *)
(* Every task that owns the lock is owner_ or a lender of the loan stack   *)
(* (OwnersKnown), and every lender is suspended until the loan comes back  *)
(* (LoansNested), so whoever owns the lock and runs is owner_.  That       *)
(* lenders stay suspended rests on the awaited edges (Chains).             *)
(***************************************************************************)
EXTENDS AsyncMutex, TLAPS

(* l awaits t or an ancestor of t, which has not ended.                    *)
Awaits(l, t) ==
    \E e \in {t} \cup anc[t] : parent[e] = l /\ awaited[e] /\ Live(e)

(* An awaited edge has a suspended parent; the ancestors of a live task    *)
(* live, each with a live child on the task's chain.                       *)
AwaitedEdges ==
    \A e \in Tasks : Live(e) /\ awaited[e] =>
        parent[e] \in Tasks /\ pc[parent[e]] = "joining"

Ancestry ==
    \A t \in Tasks : Live(t) => \A a \in anc[t] :
        /\ Live(a)
        /\ \E c \in {t} \cup anc[t] : Live(c) /\ parent[c] = a

(* Whoever owns the lock is owner_ or a lender, and owner_ owns it unless  *)
(* its release is pending.  A task that asks owns nothing.                 *)
OwnersKnown ==
    /\ \A t \in Tasks : Owns(t) =>
          t = owner \/ \E i \in 1..Len(loans) : loans[i].lender = t
    /\ \A t \in Tasks : guard[t] => pc[t] \in {"run", "draining", "joining"}

OwnerOwns ==
    /\ held => owner \in Tasks /\ (pending \/ Owns(owner))
    /\ ~held => owner = NoTask /\ loans = <<>> /\ waiters = <<>>
    /\ owner \in Tasks /\ Owns(owner) => depth[owner] = Len(loans)

(* A pending release: nobody owns the lock, and owner_ awaits nobody.      *)
ReleaseRecorded ==
    pending => /\ draining /\ loans = <<>> /\ pc[owner] # "joining"
               /\ \A t \in Tasks : ~Owns(t)

LoopOutside ==
    /\ draining => held
    /\ drainer \in Tasks => draining /\ pc[drainer] = "draining"

(* A parked task is in one place of one queue; in a loan's queue, it is    *)
(* awaited by the lender.                                                  *)
FifoParked ==
    \A i \in 1..Len(waiters) :
        /\ pc[waiters[i]] = "parked"
        /\ \A j \in 1..Len(waiters) : waiters[i] = waiters[j] => i = j

BorrowersParked ==
    \A i \in 1..Len(loans) : \A k \in 1..Len(loans[i].queue) :
        /\ pc[loans[i].queue[k]] = "parked"
        /\ Awaits(loans[i].lender, loans[i].queue[k])

BorrowersApart ==
    \A i \in 1..Len(loans) : \A k \in 1..Len(loans[i].queue) :
        /\ \A j \in 1..Len(waiters) : waiters[j] # loans[i].queue[k]
        /\ \A j \in 1..Len(loans) : \A m \in 1..Len(loans[j].queue) :
              loans[i].queue[k] = loans[j].queue[m] => i = j /\ k = m

Types == MutexTypeOK /\ FlagTypeOK /\ TaskTypeOK /\ ChainTypeOK
Chains == AwaitedEdges /\ Ancestry
Ownership == OwnersKnown /\ OwnerOwns /\ ReleaseRecorded /\ LoopOutside
Queues == FifoParked /\ BorrowersParked /\ BorrowersApart

Inv == Types /\ Chains /\ Ownership /\ LoansNested /\ Queues

-----------------------------------------------------------------------------
(* A step that only moves tasks between live states, joining ones staying, *)
(* keeps the chains.                                                       *)
LEMMA ChainsKept ==
  ASSUME ChainTypeOK, AwaitedEdges, Ancestry, UNCHANGED <<parent, anc, awaited>>,
         \A u \in Tasks : Live(u)' <=> Live(u),
         \A u \in Tasks : pc[u] = "joining" => pc'[u] = "joining"
  PROVE  /\ AwaitedEdges' /\ Ancestry'
         /\ \A l, t \in Tasks : Awaits(l, t) => Awaits(l, t)'
<1> USE DEF ChainTypeOK
<1>1. AwaitedEdges'
  BY Zenon DEF AwaitedEdges
<1>2. Ancestry'
  BY DEF Ancestry
<1>3. ASSUME NEW l \in Tasks, NEW t \in Tasks, Awaits(l, t) PROVE Awaits(l, t)'
  BY <1>3, Zenon DEF Awaits
<1> QED
  BY <1>1, <1>2, <1>3, Zenon

(* A task without live children may end: no chain of a live task has it.   *)
LEMMA ChainsCut ==
  ASSUME ChainTypeOK, AwaitedEdges, Ancestry, UNCHANGED <<parent, anc, awaited>>,
         NEW d \in Tasks, Live(d), ~Live(d)', Children(d) = {}, pc[d] # "joining",
         \A u \in Tasks \ {d} : Live(u)' <=> Live(u),
         \A u \in Tasks : pc[u] = "joining" => pc'[u] = "joining"
  PROVE  /\ AwaitedEdges' /\ Ancestry'
         /\ \A l, t \in Tasks : t # d /\ Live(t) /\ Awaits(l, t) => Awaits(l, t)'
<1> USE DEF ChainTypeOK
<1>1. ASSUME NEW u \in Tasks, Live(u) PROVE d \notin anc[u]
  BY <1>1 DEF Ancestry, Children
<1>2. AwaitedEdges'
  BY Zenon DEF AwaitedEdges
<1>3. Ancestry'
  BY <1>1 DEF Ancestry
<1>4. ASSUME NEW l \in Tasks, NEW t \in Tasks, t # d, Live(t), Awaits(l, t)
      PROVE  Awaits(l, t)'
  BY <1>1, <1>4, ZenonT(60) DEF Awaits
<1> QED
  BY <1>2, <1>3, <1>4, Zenon

(* Every frame of the loan stack names two tasks and a queue of tasks.     *)
LEMMA FrameTypes ==
  ASSUME MutexTypeOK
  PROVE  \A i \in 1..Len(loans) :
             /\ loans[i].lender \in Tasks /\ loans[i].borrower \in Tasks
             /\ loans[i].queue \in Seq(Tasks)
             /\ \A k \in 1..Len(loans[i].queue) : loans[i].queue[k] \in Tasks
<1> SUFFICES ASSUME NEW i \in 1..Len(loans)
             PROVE  /\ loans[i].lender \in Tasks /\ loans[i].borrower \in Tasks
                    /\ loans[i].queue \in Seq(Tasks)
                    /\ \A k \in 1..Len(loans[i].queue) : loans[i].queue[k] \in Tasks
  BY Zenon
<1>1. loans[i] \in Frames
  BY DEF MutexTypeOK
<1>2. /\ loans[i].lender \in Tasks /\ loans[i].borrower \in Tasks
      /\ loans[i].queue \in Seq(Tasks)
  BY <1>1, Zenon DEF Frames
<1> QED
  BY <1>2

(* Borrowers are the lenders above them or owner_, and own the lock.       *)
LEMMA BorrowersOwn ==
  ASSUME MutexTypeOK, Ownership, LoansNested
  PROVE  \A i \in 1..Len(loans) :
             /\ Owns(loans[i].borrower) /\ Live(loans[i].borrower)
             /\ Awaits(loans[i].lender, loans[i].borrower)
             /\ guard[loans[i].lender] /\ pc[loans[i].lender] = "joining"
             /\ depth[loans[i].lender] = i - 1
             /\ loans[i].borrower = IF i = Len(loans) THEN owner ELSE loans[i + 1].lender
<1> SUFFICES ASSUME NEW i \in 1..Len(loans)
             PROVE  /\ Owns(loans[i].borrower) /\ Live(loans[i].borrower)
                    /\ Awaits(loans[i].lender, loans[i].borrower)
                    /\ guard[loans[i].lender] /\ pc[loans[i].lender] = "joining"
                    /\ depth[loans[i].lender] = i - 1
                    /\ loans[i].borrower = IF i = Len(loans) THEN owner ELSE loans[i + 1].lender
  BY Zenon
<1>1. Len(loans) \in Nat /\ loans # <<>>
  BY DEF MutexTypeOK
<1>2. held /\ ~pending /\ owner \in Tasks /\ Owns(owner)
  BY <1>1, Zenon DEF Ownership, OwnerOwns, ReleaseRecorded
<1>3. /\ Awaits(loans[i].lender, loans[i].borrower)
      /\ guard[loans[i].lender] /\ pc[loans[i].lender] = "joining"
      /\ depth[loans[i].lender] = i - 1
      /\ loans[i].borrower = IF i = Len(loans) THEN owner ELSE loans[i + 1].lender
  BY Zenon DEF LoansNested, Awaits
<1>4. Owns(loans[i].borrower)
  <2>1. CASE i = Len(loans)
    BY <1>2, <1>3, <2>1, Zenon
  <2>2. CASE i # Len(loans)
    <3>1. i + 1 \in 1..Len(loans)
      BY <1>1, <2>2
    <3> QED
      BY <1>3, <2>2, <3>1, Zenon DEF LoansNested, Owns
  <2> QED
    BY <2>1, <2>2, Zenon
<1>5. Live(loans[i].borrower)
  BY <1>4, FrameTypes, ZenonT(60) DEF Owns, Live, Ownership, OwnersKnown
<1> QED
  BY <1>3, <1>4, <1>5, Zenon

(* A step that leaves the mutex and the guards alone and keeps waiters     *)
(* waiting, lenders suspended and grants granted.                          *)
LEMMA MutexKept ==
  ASSUME MutexTypeOK, TaskTypeOK, Ownership, LoansNested, Queues,
         UNCHANGED <<mutexVars, guard, depth, violated>>,
         \A u \in Tasks : pc'[u] = "granted" <=> pc[u] = "granted",
         \A u \in Tasks : pc[u] \in {"parked", "draining"} => pc'[u] = pc[u],
         \A u \in Tasks : guard[u] => pc'[u] \in {"run", "draining", "joining"},
         \A i \in 1..Len(loans) : pc'[loans[i].lender] = "joining",
         pending => pc'[owner] # "joining",
         \A l, t \in Tasks :
             Awaits(l, t) /\ Live(t) /\ (Owns(t) \/ pc[t] = "parked") => Awaits(l, t)'
  PROVE  Ownership' /\ LoansNested' /\ Queues'
<1>0. /\ loans' = loans /\ waiters' = waiters /\ owner' = owner /\ drainer' = drainer
      /\ held' = held /\ draining' = draining /\ pending' = pending
  BY Zenon DEF mutexVars
<1>1. \A u \in Tasks : Owns(u)' <=> Owns(u)
  BY Zenon DEF Owns
<1>2. OwnersKnown'
  BY <1>0, <1>1 DEF Ownership, OwnersKnown
<1>3. OwnerOwns'
  BY <1>0, <1>1, Zenon DEF Ownership, OwnerOwns
<1>4. ReleaseRecorded'
  BY <1>0, <1>1, Zenon DEF Ownership, ReleaseRecorded
<1>5. LoopOutside'
  BY <1>0, Zenon DEF Ownership, LoopOutside
<1>6. FifoParked'
  BY <1>0 DEF Queues, FifoParked, MutexTypeOK
<1>7. BorrowersParked'
  <2> SUFFICES ASSUME NEW i \in 1..Len(loans), NEW k \in 1..Len(loans[i].queue)
               PROVE  /\ pc'[loans[i].queue[k]] = "parked"
                      /\ Awaits(loans[i].lender, loans[i].queue[k])'
    BY <1>0 DEF BorrowersParked
  <2>1. /\ loans[i].lender \in Tasks /\ loans[i].queue[k] \in Tasks
        /\ pc[loans[i].queue[k]] = "parked"
        /\ Awaits(loans[i].lender, loans[i].queue[k])
    BY FrameTypes, ZenonT(60) DEF Queues, BorrowersParked
  <2>2. Live(loans[i].queue[k])
    BY <2>1, Zenon DEF Live
  <2> QED
    BY <2>1, <2>2, <1>0, ZenonT(60)
<1>8. BorrowersApart'
  <2>1. BorrowersApart /\ loans' = loans /\ waiters' = waiters
    BY <1>0, Zenon DEF Queues
  <2> QED BY ONLY <2>1, SMTT(60) DEF BorrowersApart
<1>9. LoansNested'
  <2> SUFFICES ASSUME NEW i \in 1..Len(loans)
               PROVE  /\ pc'[loans[i].lender] = "joining"
                      /\ Awaits(loans[i].lender, loans[i].borrower)'
    BY <1>0, ZenonT(60) DEF LoansNested, Awaits
  <2> QED
    BY <1>0, FrameTypes, BorrowersOwn, ZenonT(60)
<1> QED
  BY <1>2, <1>3, <1>4, <1>5, <1>6, <1>7, <1>8, <1>9, Zenon DEF Ownership, Queues

(* Parking: t, which is in no queue, goes to the end of one.               *)
LEMMA NotQueued ==
  ASSUME Queues, NEW t, pc[t] # "parked"
  PROVE  /\ \A i \in 1..Len(waiters) : waiters[i] # t
         /\ \A i \in 1..Len(loans) : \A m \in 1..Len(loans[i].queue) : loans[i].queue[m] # t
  BY ZenonT(60) DEF Queues, FifoParked, BorrowersParked

(* BorrowersApart of the next state, from what its queues hold: nobody     *)
(* waits in the FIFO and under a loan, and nobody waits twice under loans. *)
LEMMA ApartNext ==
  ASSUME \A i \in 1..Len(loans') : \A m \in 1..Len(loans'[i].queue) :
             \A j \in 1..Len(waiters') : waiters'[j] # loans'[i].queue[m],
         \A i \in 1..Len(loans') : \A m \in 1..Len(loans'[i].queue) :
             \A j \in 1..Len(loans') : \A q \in 1..Len(loans'[j].queue) :
                 loans'[i].queue[m] = loans'[j].queue[q] => i = j /\ m = q
  PROVE  BorrowersApart'
  BY ZenonT(60) DEF BorrowersApart

(* BorrowersApart survives a step that leaves the loans alone and adds     *)
(* nobody to the FIFO.                                                     *)
LEMMA ApartKept ==
  ASSUME BorrowersApart, loans' = loans,
         \A j \in 1..Len(waiters') : \E y \in 1..Len(waiters) : waiters'[j] = waiters[y]
  PROVE  BorrowersApart'
<1>1. ASSUME NEW i \in 1..Len(loans), NEW m \in 1..Len(loans[i].queue), NEW j \in 1..Len(waiters')
      PROVE  waiters'[j] # loans[i].queue[m]
  <2>1. PICK y \in 1..Len(waiters) : waiters'[j] = waiters[y]
    BY Zenon
  <2> QED
    BY ONLY BorrowersApart, i \in 1..Len(loans), m \in 1..Len(loans[i].queue), <2>1,
            ZenonT(60) DEF BorrowersApart
<1>2. ASSUME NEW i \in 1..Len(loans), NEW m \in 1..Len(loans[i].queue),
             NEW j \in 1..Len(loans), NEW q \in 1..Len(loans[j].queue),
             loans[i].queue[m] = loans[j].queue[q]
      PROVE  i = j /\ m = q
  BY ONLY BorrowersApart, <1>2, ZenonT(60) DEF BorrowersApart
<1>3. \A i \in 1..Len(loans') : \A m \in 1..Len(loans'[i].queue) :
          \A j \in 1..Len(waiters') : waiters'[j] # loans'[i].queue[m]
  BY <1>1, ZenonT(60)
<1>4. \A i \in 1..Len(loans') : \A m \in 1..Len(loans'[i].queue) :
          \A j \in 1..Len(loans') : \A q \in 1..Len(loans'[j].queue) :
              loans'[i].queue[m] = loans'[j].queue[q] => i = j /\ m = q
  BY <1>2, SMTT(60)
<1> QED
  BY <1>3, <1>4, ApartNext, Zenon

(* A step of one live task that does not end it and is not a join keeps    *)
(* every chain.                                                            *)
LEMMA ChainsOfStep ==
  ASSUME TaskTypeOK, ChainTypeOK, Chains, UNCHANGED chainVars, NEW t \in Tasks, Live(t),
         pc[t] # "joining", NEW q \in Pcs \ {"unborn", "done"}, pc' = [pc EXCEPT ![t] = q]
  PROVE  ChainTypeOK' /\ Chains' /\ \A l, u \in Tasks : Awaits(l, u) => Awaits(l, u)'
<1>1. /\ \A u \in Tasks : Live(u)' <=> Live(u)
      /\ \A u \in Tasks : pc[u] = "joining" => pc'[u] = "joining"
  BY Zenon DEF Live, TaskTypeOK
<1>2. UNCHANGED <<parent, anc, awaited>> /\ ChainTypeOK'
  BY Zenon DEF chainVars, ChainTypeOK
<1> QED
  BY <1>1, <1>2, ChainsKept, Zenon DEF Chains

-----------------------------------------------------------------------------
(* Steps that do not touch the mutex.                                      *)

(* A parent that has joined its children runs on; it lends nothing any     *)
(* more, since a borrower below it would still be live.                    *)
LEMMA JoinedInv == ASSUME Inv, NEW p \in Tasks, Joined(p) PROVE Inv'
<1> USE DEF Inv, Types, Chains
<1>1. Types'
  BY ZenonT(60) DEF Joined, mutexVars, chainVars, MutexTypeOK, FlagTypeOK, TaskTypeOK, ChainTypeOK, Pcs
<1>2. pc' = [pc EXCEPT ![p] = "run"] /\ pc[p] = "joining"
  BY Zenon DEF Joined
<1>3. \A u \in Tasks : Live(u)' <=> Live(u)
  BY <1>2, Zenon DEF Live, TaskTypeOK
<1>4. \A e \in Tasks : Live(e) /\ awaited[e] => parent[e] # p
  BY Zenon DEF Joined, Children
<1>5. AwaitedEdges' /\ Ancestry'
  <2>1. AwaitedEdges'
    BY <1>2, <1>3, <1>4, Zenon DEF Joined, chainVars, AwaitedEdges, ChainTypeOK, TaskTypeOK
  <2>2. Ancestry'
    BY <1>3 DEF Joined, chainVars, Ancestry, ChainTypeOK
  <2> QED
    BY <2>1, <2>2, Zenon
<1>6. \A i \in 1..Len(loans) : loans[i].lender # p
  <2> SUFFICES ASSUME NEW i \in 1..Len(loans), loans[i].lender = p PROVE FALSE
    BY Zenon
  <2>1. /\ loans[i].borrower \in Tasks /\ Live(loans[i].borrower)
        /\ Awaits(p, loans[i].borrower)
    BY BorrowersOwn, FrameTypes, Zenon
  <2> QED
    BY <1>4, <2>1 DEF Awaits, ChainTypeOK
<1>7. \A l, t \in Tasks : Awaits(l, t) => Awaits(l, t)'
  BY <1>3, Zenon DEF Joined, chainVars, Awaits, ChainTypeOK
<1>8. Ownership' /\ LoansNested' /\ Queues'
  <2>1. UNCHANGED <<mutexVars, guard, depth, violated>>
    BY Zenon DEF Joined
  <2>2. /\ \A u \in Tasks : pc'[u] = "granted" <=> pc[u] = "granted"
        /\ \A u \in Tasks : pc[u] \in {"parked", "draining"} => pc'[u] = pc[u]
    BY <1>2, Zenon DEF TaskTypeOK
  <2>3. \A u \in Tasks : guard[u] => pc'[u] \in {"run", "draining", "joining"}
    BY <1>2, Zenon DEF TaskTypeOK, Ownership, OwnersKnown
  <2>4. \A i \in 1..Len(loans) : pc'[loans[i].lender] = "joining"
    BY <1>2, <1>6, BorrowersOwn, FrameTypes, Zenon DEF TaskTypeOK
  <2>5. pending => pc'[owner] # "joining"
    BY <1>2 DEF TaskTypeOK, Ownership, ReleaseRecorded
  <2> QED
    BY <1>7, <2>1, <2>2, <2>3, <2>4, <2>5, MutexKept, Zenon
<1> QED
  BY <1>1, <1>5, <1>8, Zenon

(* A task that ends holds no guard and waits nowhere, so nothing of the    *)
(* mutex names it.                                                         *)
LEMMA FinishInv == ASSUME Inv, NEW t \in Tasks, Finish(t) PROVE Inv'
<1> USE DEF Inv, Types, Chains
<1>1. Types'
  BY Zenon DEF Finish, LeaveStack, mutexVars, chainVars, MutexTypeOK, FlagTypeOK, TaskTypeOK,
         ChainTypeOK, Pcs
<1>2. pc' = [pc EXCEPT ![t] = "done"] /\ pc[t] = "run" /\ ~guard[t]
  BY Zenon DEF Finish
<1>3. /\ AwaitedEdges' /\ Ancestry'
      /\ \A l, u \in Tasks : u # t /\ Live(u) /\ Awaits(l, u) => Awaits(l, u)'
  <2>1. Live(t) /\ ~Live(t)' /\ \A u \in Tasks \ {t} : Live(u)' <=> Live(u)
    BY <1>2, Zenon DEF Live, TaskTypeOK
  <2>2. \A u \in Tasks : pc[u] = "joining" => pc'[u] = "joining"
    BY <1>2, Zenon DEF TaskTypeOK
  <2>3. UNCHANGED <<parent, anc, awaited>> /\ Children(t) = {}
    BY Zenon DEF Finish, chainVars
  <2> QED
    BY <1>2, <2>1, <2>2, <2>3, ChainsCut, Zenon
<1>4. Ownership' /\ LoansNested' /\ Queues'
  <2>1. UNCHANGED <<mutexVars, guard, depth, violated>>
    BY Zenon DEF Finish
  <2>2. /\ \A u \in Tasks : pc'[u] = "granted" <=> pc[u] = "granted"
        /\ \A u \in Tasks : pc[u] \in {"parked", "draining"} => pc'[u] = pc[u]
    BY <1>2, Zenon DEF TaskTypeOK
  <2>3. \A u \in Tasks : guard[u] => pc'[u] \in {"run", "draining", "joining"}
    BY <1>2, Zenon DEF TaskTypeOK, Ownership, OwnersKnown
  <2>4. \A i \in 1..Len(loans) : pc'[loans[i].lender] = "joining"
    BY <1>2, BorrowersOwn, FrameTypes, ZenonT(30) DEF TaskTypeOK
  <2>5. pending => pc'[owner] # "joining"
    BY <1>2 DEF TaskTypeOK, Ownership, ReleaseRecorded
  <2>6. ~Owns(t)
    BY <1>2, Zenon DEF Owns
  <2> QED
    BY <1>2, <1>3, <2>1, <2>2, <2>3, <2>4, <2>5, <2>6, MutexKept, Zenon
<1> QED
  BY <1>1, <1>3, <1>4, Zenon

(* Waiting for something other than the mutex leaves the mutex as it is.   *)
LEMMA SuspendElsewhereInv == ASSUME Inv, NEW t \in Tasks, SuspendElsewhere(t) PROVE Inv'
<1> USE DEF Inv, Types, Chains
<1>1. Types'
  BY Zenon DEF SuspendElsewhere, LeaveStack, mutexVars, chainVars, MutexTypeOK, FlagTypeOK,
         TaskTypeOK, ChainTypeOK
<1>2. pc' = pc /\ UNCHANGED <<parent, anc, awaited>>
  BY Zenon DEF SuspendElsewhere, chainVars
<1>3. AwaitedEdges' /\ Ancestry' /\ \A l, u \in Tasks : Awaits(l, u) => Awaits(l, u)'
  BY <1>2, ChainsKept, Zenon DEF Live
<1>4. Ownership' /\ LoansNested' /\ Queues'
  <2>1. UNCHANGED <<mutexVars, guard, depth, violated>>
    BY Zenon DEF SuspendElsewhere
  <2>2. /\ \A u \in Tasks : pc'[u] = "granted" <=> pc[u] = "granted"
        /\ \A u \in Tasks : pc[u] \in {"parked", "draining"} => pc'[u] = pc[u]
    BY <1>2, Zenon DEF TaskTypeOK
  <2>3. \A u \in Tasks : guard[u] => pc'[u] \in {"run", "draining", "joining"}
    BY <1>2, Zenon DEF TaskTypeOK, Ownership, OwnersKnown
  <2>4. \A i \in 1..Len(loans) : pc'[loans[i].lender] = "joining"
    BY <1>2, BorrowersOwn, FrameTypes, Zenon DEF TaskTypeOK
  <2>5. pending => pc'[owner] # "joining"
    BY <1>2, Zenon DEF TaskTypeOK, Ownership, ReleaseRecorded
  <2> QED
    BY <1>3, <2>1, <2>2, <2>3, <2>4, <2>5, MutexKept, Zenon
<1> QED
  BY <1>1, <1>3, <1>4, Zenon

(* Forked tasks extend the chain of their parent.                          *)
LEMMA ChainsForked ==
  ASSUME TaskTypeOK, ChainTypeOK, Chains, NEW p \in Tasks, NEW S \in SUBSET Tasks,
         NEW aw \in BOOLEAN, Fork(p, S, aw), Live(p), aw => pc'[p] = "joining",
         \A u \in Tasks : Live(u)' <=> Live(u) \/ u \in S,
         \A u \in Tasks : pc[u] = "joining" => pc'[u] = "joining"
  PROVE  /\ AwaitedEdges' /\ Ancestry'
         /\ \A l, t \in Tasks : Live(t) /\ Awaits(l, t) => Awaits(l, t)'
<1> USE DEF Chains
<1>1. /\ \A u \in S : ~Live(u)
      /\ \A u \in Tasks : u \in S => parent'[u] = p /\ anc'[u] = anc[p] \cup {p} /\ awaited'[u] = aw
      /\ \A u \in Tasks : u \notin S => parent'[u] = parent[u] /\ anc'[u] = anc[u] /\ awaited'[u] = awaited[u]
  BY Zenon DEF Fork, Live
<1>2. AwaitedEdges'
  BY <1>1 DEF AwaitedEdges, ChainTypeOK
<1>3. Ancestry'
  <2> SUFFICES ASSUME NEW t \in Tasks, Live(t)', NEW a \in anc'[t]
               PROVE  Live(a)' /\ \E c \in {t} \cup anc'[t] : Live(c)' /\ parent'[c] = a
    BY Zenon DEF Ancestry
  <2>1. CASE t \notin S
    <3>1. Live(t) /\ a \in anc[t]
      BY <1>1, <2>1, Zenon
    <3>2. PICK c \in {t} \cup anc[t] : Live(c) /\ parent[c] = a
      BY <3>1, Zenon DEF Ancestry
    <3>3. c \in Tasks /\ c \notin S /\ a \in Tasks /\ Live(a)
      BY <1>1, <3>1, <3>2, ZenonT(60) DEF Ancestry, ChainTypeOK
    <3> QED
      BY <1>1, <2>1, <3>2, <3>3, Zenon
  <2>2. CASE t \in S /\ a = p
    BY <1>1, <2>2, Zenon
  <2>3. CASE t \in S /\ a # p
    <3>1. a \in anc[p]
      BY <1>1, <2>3
    <3>2. PICK c \in {p} \cup anc[p] : Live(c) /\ parent[c] = a
      BY <3>1, Zenon DEF Ancestry
    <3>3. c \in Tasks /\ c \notin S /\ a \in Tasks /\ Live(a) /\ c \in anc'[t]
      BY <1>1, <2>3, <3>1, <3>2 DEF Ancestry, ChainTypeOK
    <3> QED
      BY <1>1, <3>2, <3>3, Zenon
  <2> QED
    BY <2>1, <2>2, <2>3, Zenon
<1>4. ASSUME NEW l \in Tasks, NEW t \in Tasks, Live(t), Awaits(l, t) PROVE Awaits(l, t)'
  <2>1. PICK e \in {t} \cup anc[t] : parent[e] = l /\ awaited[e] /\ Live(e)
    BY <1>4, Zenon DEF Awaits
  <2>2. e \in Tasks /\ e \notin S /\ t \notin S
    BY <1>1, <1>4, <2>1, Zenon DEF ChainTypeOK
  <2> QED
    BY <1>1, <2>1, <2>2, Zenon DEF Awaits
<1> QED
  BY <1>2, <1>3, <1>4, Zenon

(* Forking a child that will be awaited adds an edge of the await chain    *)
(* that nobody owns or borrows through yet.                                *)
LEMMA ForkAwaitedInv ==
  ASSUME Inv, ~AwaitWhilePending, NEW p \in Tasks, NEW S \in SUBSET (Tasks \ Roots), ForkAwaited(p, S)
  PROVE  Inv'
<1> USE DEF Inv, Types
<1>1. Types'
  <2>1. MutexTypeOK' /\ FlagTypeOK'
    BY Zenon DEF ForkAwaited, Fork, LeaveStack, mutexVars, MutexTypeOK, FlagTypeOK
  <2>2. TaskTypeOK'
    BY Zenon DEF ForkAwaited, Fork, TaskTypeOK, Pcs
  <2>3. ChainTypeOK'
    BY ZenonT(30) DEF ForkAwaited, Fork, ChainTypeOK
  <2> QED
    BY <2>1, <2>2, <2>3, Zenon
<1>2. /\ pc[p] = "run" /\ pc'[p] = "joining" /\ p \notin S
      /\ \A u \in Tasks : u \in S => pc[u] = "unborn" /\ pc'[u] = "run"
      /\ \A u \in Tasks \ {p} : u \notin S => pc'[u] = pc[u]
      /\ ~(pending /\ owner = p)
  BY Zenon DEF ForkAwaited, Fork, MayAwait
<1>3. AwaitedEdges' /\ Ancestry' /\ \A l, t \in Tasks : Live(t) /\ Awaits(l, t) => Awaits(l, t)'
  <2>1. Fork(p, S, TRUE)
    BY ZenonT(30) DEF ForkAwaited
  <2>2. Live(p) /\ \A u \in Tasks : Live(u)' <=> Live(u) \/ u \in S
    BY <1>2, Zenon DEF Live
  <2>3. \A u \in Tasks : pc[u] = "joining" => pc'[u] = "joining"
    BY <1>2, Zenon
  <2> QED
    BY <1>2, <2>1, <2>2, <2>3, ChainsForked, ZenonT(30)
<1>4. Ownership' /\ LoansNested' /\ Queues'
  <2>1. UNCHANGED <<mutexVars, guard, depth, violated>>
    BY Zenon DEF ForkAwaited, Fork
  <2>2. /\ \A u \in Tasks : pc'[u] = "granted" <=> pc[u] = "granted"
        /\ \A u \in Tasks : pc[u] \in {"parked", "draining"} => pc'[u] = pc[u]
    BY <1>2, Zenon DEF TaskTypeOK
  <2>3. \A u \in Tasks : guard[u] => pc'[u] \in {"run", "draining", "joining"}
    BY <1>2, Zenon DEF TaskTypeOK, Ownership, OwnersKnown
  <2>4. \A i \in 1..Len(loans) : pc'[loans[i].lender] = "joining"
    BY <1>2, BorrowersOwn, FrameTypes DEF TaskTypeOK
  <2>5. pending => pc'[owner] # "joining"
    BY <1>2, Zenon DEF TaskTypeOK, Ownership, ReleaseRecorded, OwnerOwns, LoopOutside
  <2> QED
    BY <1>3, <2>1, <2>2, <2>3, <2>4, <2>5, MutexKept, Zenon
<1> QED
  BY <1>1, <1>3, <1>4, Zenon DEF Chains

(* A scope's child has a parent but no awaited edge before the join, so    *)
(* until then it cannot borrow from that parent.                           *)
LEMMA ForkScopedInv ==
  ASSUME Inv, NEW p \in Tasks, NEW c \in Tasks \ Roots, ForkScoped(p, c)
  PROVE  Inv'
<1> USE DEF Inv, Types
<1>1. Types'
  <2>1. MutexTypeOK' /\ FlagTypeOK'
    BY Zenon DEF ForkScoped, Fork, mutexVars, MutexTypeOK, FlagTypeOK
  <2>2. TaskTypeOK'
    BY Zenon DEF ForkScoped, Fork, TaskTypeOK, Pcs
  <2>3. ChainTypeOK'
    BY ZenonT(60) DEF ForkScoped, Fork, ChainTypeOK
  <2> QED
    BY <2>1, <2>2, <2>3, Zenon
<1>2. pc[p] = "run" /\ pc[c] = "unborn" /\ pc' = [pc EXCEPT ![c] = "run"]
  BY Zenon DEF ForkScoped, Fork
<1>3. AwaitedEdges' /\ Ancestry' /\ \A l, t \in Tasks : Live(t) /\ Awaits(l, t) => Awaits(l, t)'
  <2>1. Fork(p, {c}, FALSE)
    BY ZenonT(30) DEF ForkScoped
  <2>2. Live(p) /\ \A u \in Tasks : Live(u)' <=> Live(u) \/ u \in {c}
    BY <1>2, Zenon DEF Live, TaskTypeOK
  <2>3. \A u \in Tasks : pc[u] = "joining" => pc'[u] = "joining"
    BY <1>2, Zenon DEF TaskTypeOK
  <2> QED
    BY <2>1, <2>2, <2>3, ChainsForked, ZenonT(30)
<1>4. Ownership' /\ LoansNested' /\ Queues'
  <2>1. UNCHANGED <<mutexVars, guard, depth, violated>>
    BY Zenon DEF ForkScoped, Fork
  <2>2. /\ \A u \in Tasks : pc'[u] = "granted" <=> pc[u] = "granted"
        /\ \A u \in Tasks : pc[u] \in {"parked", "draining"} => pc'[u] = pc[u]
    BY <1>2, Zenon DEF TaskTypeOK
  <2>3. \A u \in Tasks : guard[u] => pc'[u] \in {"run", "draining", "joining"}
    BY <1>2, Zenon DEF TaskTypeOK, Ownership, OwnersKnown
  <2>4. \A i \in 1..Len(loans) : pc'[loans[i].lender] = "joining"
    BY <1>2, BorrowersOwn, FrameTypes, Zenon DEF TaskTypeOK
  <2>5. pending => pc'[owner] # "joining"
    BY <1>2 DEF TaskTypeOK, Ownership, ReleaseRecorded
  <2> QED
    BY <1>3, <2>1, <2>2, <2>3, <2>4, <2>5, MutexKept, Zenon
<1> QED
  BY <1>1, <1>3, <1>4, Zenon DEF Chains

(* Joining makes the edges to the children awaited ones. This is where a   *)
(* recorded release matters: a task that only set pending_release_ may not *)
(* wait for a child while owner_ still names it.                           *)
LEMMA JoinInv == ASSUME Inv, ~AwaitWhilePending, NEW p \in Tasks, Join(p) PROVE Inv'
<1> USE DEF Inv, Types, Chains
<1>1. Types'
  <2>1. MutexTypeOK' /\ FlagTypeOK'
    BY Zenon DEF Join, LeaveStack, mutexVars, MutexTypeOK, FlagTypeOK
  <2>2. TaskTypeOK'
    BY Zenon DEF Join, TaskTypeOK, Pcs
  <2>3. ChainTypeOK'
    BY Zenon DEF Join, ChainTypeOK
  <2> QED
    BY <2>1, <2>2, <2>3, Zenon
<1>2. pc[p] = "run" /\ pc' = [pc EXCEPT ![p] = "joining"] /\ ~(pending /\ owner = p)
  BY Zenon DEF Join, MayAwait
<1>3. \A u \in Tasks : Live(u)' <=> Live(u)
  BY <1>2, Zenon DEF Live, TaskTypeOK
<1>4. /\ UNCHANGED <<parent, anc>>
      /\ \A u \in Tasks : awaited[u] => awaited'[u]
      /\ \A u \in Tasks : awaited'[u] => awaited[u] \/ parent[u] = p
  BY ZenonT(30) DEF Join, Children
<1>5. AwaitedEdges'
  BY <1>2, <1>3, <1>4, SMTT(60) DEF AwaitedEdges, TaskTypeOK, ChainTypeOK
<1>6. Ancestry'
  BY <1>3, <1>4 DEF Ancestry, ChainTypeOK
<1>7. \A l, t \in Tasks : Awaits(l, t) => Awaits(l, t)'
  BY <1>3, <1>4, ZenonT(60) DEF Awaits, ChainTypeOK
<1>8. Ownership' /\ LoansNested' /\ Queues'
  <2>1. UNCHANGED <<mutexVars, guard, depth, violated>>
    BY Zenon DEF Join
  <2>2. /\ \A u \in Tasks : pc'[u] = "granted" <=> pc[u] = "granted"
        /\ \A u \in Tasks : pc[u] \in {"parked", "draining"} => pc'[u] = pc[u]
    BY <1>2, Zenon DEF TaskTypeOK
  <2>3. \A u \in Tasks : guard[u] => pc'[u] \in {"run", "draining", "joining"}
    BY <1>2, Zenon DEF TaskTypeOK, Ownership, OwnersKnown
  <2>4. \A i \in 1..Len(loans) : pc'[loans[i].lender] = "joining"
    BY <1>2, BorrowersOwn, FrameTypes, ZenonT(30) DEF TaskTypeOK
  <2>5. pending => pc'[owner] # "joining"
    BY <1>2 DEF TaskTypeOK, Ownership, ReleaseRecorded
  <2> QED
    BY <1>7, <2>1, <2>2, <2>3, <2>4, <2>5, MutexKept, Zenon
<1> QED
  BY <1>1, <1>5, <1>6, <1>8, Zenon

-----------------------------------------------------------------------------
(* Asking for the lock: lock(), try_lock(), the second look of             *)
(* await_suspend, waking up with the lock, and a waiter destroyed in the   *)
(* FIFO.                                                                   *)

(* What a decision of classify_locked rests on.                            *)
LEMMA Related ==
  ASSUME TaskTypeOK, ChainTypeOK, Chains, NEW t \in Tasks, Live(t), NEW h,
         relate(t, h) = "awaiting_ancestor"
  PROVE  h \in Tasks /\ h # t /\ Awaits(h, t) /\ pc[h] = "joining"
<1>1. h # t /\ h \in anc[t] /\ \E e \in {t} \cup anc[t] : parent[e] = h /\ awaited[e]
  BY Zenon DEF relate
<1>2. PICK e \in {t} \cup anc[t] : parent[e] = h /\ awaited[e]
  BY <1>1, Zenon
<1>3. e \in Tasks /\ Live(e) /\ h \in Tasks
  BY <1>1, <1>2, ZenonT(60) DEF Chains, Ancestry, ChainTypeOK
<1> QED
  BY <1>1, <1>2, <1>3, Zenon DEF Awaits, Chains, AwaitedEdges

(* What the answers of classify_locked mean: take finds the mutex free,    *)
(* lend finds an owner that awaits the requester, and queueing under a     *)
(* loan finds such a lender in the stack.                                  *)
LEMMA Decisions ==
  ASSUME NEW t \in Tasks, NEW k \in Kinds, NEW c, c = classify(t, k)
  PROVE  /\ c.decision = "take" => ~held
         /\ c.decision = "lend" => held /\ relate(t, owner) = "awaiting_ancestor"
         /\ c.decision = "queue_fifo" => held
         /\ c.decision = "queue_loan" =>
                held /\ c.frame \in 1..Len(loans)
                     /\ relate(t, loans[c.frame].lender) = "awaiting_ancestor"
<1>1. CASE ~held
  BY <1>1, Zenon DEF classify, Decision
<1>2. CASE held /\ relate(t, owner) = "awaiting_ancestor"
  BY <1>2, Zenon DEF classify, Decision
<1>3. CASE held /\ relate(t, owner) = "other_ancestor"
  BY <1>3, Zenon DEF classify, Decision
<1>4. CASE /\ held /\ relate(t, owner) \notin {"awaiting_ancestor", "other_ancestor"}
           /\ LenderFrames(t) = {}
  BY <1>4, Zenon DEF classify, Decision
<1>5. CASE /\ held /\ relate(t, owner) \notin {"awaiting_ancestor", "other_ancestor"}
           /\ LenderFrames(t) # {}
  <2> DEFINE i == CHOOSE i \in LenderFrames(t) : Borrows(t, i)
  <2>1. CASE k = "lend_safe" /\ \E j \in LenderFrames(t) : Borrows(t, j)
    <3>1. i \in LenderFrames(t) /\ Borrows(t, i)
      BY <2>1, Zenon
    <3>2. c = Decision("queue_loan", i)
      BY <1>5, <2>1, Zenon DEF classify
    <3>3. i \in 1..Len(loans) /\ relate(t, loans[i].lender) = "awaiting_ancestor"
      BY <3>1, ZenonT(30) DEF LenderFrames, Borrows
    <3> QED
      BY <1>5, <3>2, <3>3 DEF Decision
  <2>2. CASE ~(k = "lend_safe" /\ \E j \in LenderFrames(t) : Borrows(t, j))
    <3>1. c = Decision("refuse", 0)
      BY <1>5, <2>2, Zenon DEF classify
    <3> QED
      BY <3>1 DEF Decision
  <2> QED
    BY <2>1, <2>2, Zenon
<1> QED
  BY <1>1, <1>2, <1>3, <1>4, <1>5, Zenon

(* Taking a free mutex.                                                    *)
LEMMA TakeInv ==
  ASSUME Inv, NEW t \in Tasks, ~held, Take(t), pc[t] \in {"run", "suspending"},
         pc' = [pc EXCEPT ![t] = "run"], UNCHANGED <<draining, pending, drainer, violated>>
  PROVE  Ownership' /\ LoansNested' /\ Queues'
<1> USE TasksAssumption DEF Inv, Types
<1>1. loans = <<>> /\ waiters = <<>> /\ owner = NoTask /\ ~pending /\ ~draining
  BY Zenon DEF Ownership, OwnerOwns, ReleaseRecorded, LoopOutside
<1>2. \A u \in Tasks : ~Owns(u)
  BY <1>1 DEF Ownership, OwnersKnown
<1>3. /\ loans' = <<>> /\ waiters' = <<>> /\ owner' = t /\ held' /\ guard'[t] /\ depth'[t] = 0
      /\ pc'[t] = "run" /\ ~pending' /\ ~draining'
      /\ \A u \in Tasks \ {t} : pc'[u] = pc[u] /\ guard'[u] = guard[u]
  BY <1>1, Zenon DEF Take, TaskTypeOK
<1>4. Owns(t)' /\ \A u \in Tasks \ {t} : ~Owns(u)'
  BY <1>2, <1>3, Zenon DEF Owns
<1>5. OwnersKnown' /\ OwnerOwns'
  BY <1>3, <1>4, ZenonT(60) DEF Ownership, OwnersKnown, OwnerOwns
<1>6. ReleaseRecorded' /\ LoopOutside'
  BY <1>1, <1>3, ZenonT(60) DEF Ownership, ReleaseRecorded, LoopOutside
<1>7. LoansNested' /\ Queues'
  BY <1>3 DEF LoansNested, Queues, FifoParked, BorrowersParked, BorrowersApart
<1> QED
  BY <1>5, <1>6, <1>7, Zenon DEF Ownership

(* A loan: the owner awaits the borrower, hence is suspended and goes on   *)
(* the stack.                                                              *)
LEMMA LendInv ==
  ASSUME Inv, NEW t \in Tasks, held, relate(t, owner) = "awaiting_ancestor", Lend(t),
         pc[t] \in {"run", "suspending"}, ~guard[t], pc' = [pc EXCEPT ![t] = "run"],
         UNCHANGED <<draining, pending, drainer, violated, parent, anc, awaited>>
  PROVE  Ownership' /\ LoansNested' /\ Queues'
<1> USE DEF Inv, Types
<1> DEFINE n == Len(loans)
<1>1. owner \in Tasks /\ owner # t /\ Awaits(owner, t) /\ pc[owner] = "joining"
  BY Related, Zenon DEF Live
<1>2. ~pending /\ Owns(owner) /\ guard[owner] /\ depth[owner] = n
  BY <1>1, Zenon DEF Ownership, OwnerOwns, ReleaseRecorded, Owns
<1>3. /\ n \in Nat /\ Len(loans') = n + 1
      /\ loans'[n + 1] = [lender |-> owner, borrower |-> t, queue |-> <<>>]
      /\ \A i \in 1..n : loans'[i] = loans[i]
  BY DEF Lend, MutexTypeOK
<1>4. /\ owner' = t /\ guard'[t] /\ depth'[t] = n + 1 /\ pc'[t] = "run"
      /\ \A u \in Tasks \ {t} : guard'[u] = guard[u] /\ depth'[u] = depth[u] /\ pc'[u] = pc[u]
      /\ held' /\ waiters' = waiters
  BY Zenon DEF Lend, TaskTypeOK
<1>5. \A u \in Tasks : Live(u)' <=> Live(u)
  BY <1>4, Zenon DEF Live
<1>6. \A l, u \in Tasks : Awaits(l, u) => Awaits(l, u)'
  BY <1>5, Zenon DEF Awaits, ChainTypeOK
<1>7. Owns(t)' /\ \A u \in Tasks \ {t} : Owns(u)' <=> Owns(u)
  BY <1>4, Zenon DEF Owns
<1>8. OwnersKnown'
  <2>1. ASSUME NEW u \in Tasks, Owns(u)', u # t
        PROVE  \E i \in 1..Len(loans') : loans'[i].lender = u
    <3>1. CASE u = owner
      BY <1>3, <3>1, SMTT(60)
    <3>2. CASE u # owner
      <4>1. PICK i \in 1..n : loans[i].lender = u
        BY <1>7, <2>1, <3>2, Zenon DEF Ownership, OwnersKnown
      <4> QED
        BY <1>3, <4>1
    <3> QED
      BY <3>1, <3>2, Zenon
  <2>2. \A u \in Tasks : guard'[u] => pc'[u] \in {"run", "draining", "joining"}
    BY <1>4, Zenon DEF Ownership, OwnersKnown
  <2> QED
    BY <1>4, <2>1, <2>2, Zenon DEF OwnersKnown
<1>9. OwnerOwns' /\ ReleaseRecorded'
  BY <1>2, <1>3, <1>4, <1>7, Zenon DEF OwnerOwns, ReleaseRecorded
<1>10. LoopOutside'
  BY <1>4, Zenon DEF Ownership, LoopOutside
<1>11. LoansNested'
  <2>1. ~violated'
    BY Zenon DEF LoansNested
  <2>2. ASSUME NEW i \in 1..Len(loans')
        PROVE  /\ loans'[i].borrower = IF i = Len(loans') THEN owner' ELSE loans'[i + 1].lender
               /\ guard'[loans'[i].lender] /\ pc'[loans'[i].lender] = "joining"
               /\ depth'[loans'[i].lender] = i - 1
               /\ Awaits(loans[i].lender, loans[i].borrower)'
    <3>1. CASE i = n + 1
      BY <1>1, <1>2, <1>3, <1>4, <1>6, <3>1, SMTT(60)
    <3>2. CASE i # n + 1
      <4>1. i \in 1..n
        BY <1>3, <3>2
      <4>2. /\ loans[i].lender \in Tasks /\ loans[i].borrower \in Tasks
            /\ loans[i].lender # t
            /\ guard[loans[i].lender] /\ pc[loans[i].lender] = "joining"
            /\ depth[loans[i].lender] = i - 1
            /\ Awaits(loans[i].lender, loans[i].borrower)
        BY <4>1, FrameTypes, BorrowersOwn, Zenon
      <4>3. loans'[i].borrower = loans'[i + 1].lender
        <5>1. CASE i = n
          BY <1>3, <4>1, <5>1, BorrowersOwn, SMTT(60)
        <5>2. CASE i # n
          BY <1>3, <4>1, <5>2, BorrowersOwn, SMTT(60)
        <5> QED
          BY <5>1, <5>2, ZenonT(60)
      <4> QED
        BY <1>3, <1>4, <1>6, <3>2, <4>1, <4>2, <4>3, SMTT(60)
    <3> QED
      BY <3>1, <3>2, Zenon
  <2> QED
    BY <2>1, <2>2, Zenon DEF LoansNested, Awaits
<1>12. FifoParked'
  BY <1>4, SMTT(60) DEF Queues, FifoParked, MutexTypeOK
<1>13. ASSUME NEW i \in 1..Len(loans'), NEW m \in 1..Len(loans'[i].queue)
       PROVE  i \in 1..n /\ m \in 1..Len(loans[i].queue) /\ loans'[i] = loans[i]
  BY <1>3, SMTT(60)
<1>14. BorrowersParked'
  <2> SUFFICES ASSUME NEW i \in 1..Len(loans'), NEW m \in 1..Len(loans'[i].queue)
               PROVE  /\ pc'[loans'[i].queue[m]] = "parked"
                      /\ Awaits(loans[i].lender, loans[i].queue[m])'
    BY Zenon DEF BorrowersParked
  <2>1. /\ loans[i].lender \in Tasks /\ loans[i].queue[m] \in Tasks
        /\ pc[loans[i].queue[m]] = "parked" /\ Awaits(loans[i].lender, loans[i].queue[m])
    BY <1>13, FrameTypes, Zenon DEF Queues, BorrowersParked
  <2> QED
    BY <1>4, <1>6, <1>13, <2>1, SMTT(60)
<1>15. BorrowersApart'
  <2> SUFFICES ASSUME NEW i \in 1..Len(loans'), NEW m \in 1..Len(loans'[i].queue)
               PROVE  /\ \A j \in 1..Len(waiters') : waiters'[j] # loans'[i].queue[m]
                      /\ \A j \in 1..Len(loans') : \A q \in 1..Len(loans'[j].queue) :
                            loans'[i].queue[m] = loans'[j].queue[q] => i = j /\ m = q
    BY Zenon DEF BorrowersApart
  <2>1. i \in 1..n /\ m \in 1..Len(loans[i].queue) /\ loans'[i] = loans[i]
    BY <1>13, ZenonT(60)
  <2>2. \A j \in 1..Len(waiters') : waiters'[j] # loans'[i].queue[m]
    <3>1. BorrowersApart /\ waiters' = waiters /\ i \in 1..Len(loans)
      BY <1>4, <2>1, Zenon DEF Queues
    <3> QED BY ONLY <2>1, <3>1, SMTT(60) DEF BorrowersApart
  <2>3. ASSUME NEW j \in 1..Len(loans'), NEW q \in 1..Len(loans'[j].queue),
               loans'[i].queue[m] = loans'[j].queue[q]
        PROVE  i = j /\ m = q
    <3>1. j \in 1..n /\ q \in 1..Len(loans[j].queue) /\ loans'[j] = loans[j]
      BY <1>13, Zenon
    <3>2. loans[i].queue[m] = loans[j].queue[q] /\ BorrowersApart
      BY <2>1, <2>3, <3>1, Zenon DEF Queues
    <3> QED
      BY ONLY <2>1, <3>1, <3>2, ZenonT(60) DEF BorrowersApart
  <2> QED
    BY <2>2, <2>3, Zenon
<1> QED
  BY <1>8, <1>9, <1>10, <1>11, <1>12, <1>14, <1>15, Zenon DEF Ownership, Queues

(* A waiter pushed on waiters_ by await_suspend.                           *)
LEMMA ParkFifoInv ==
  ASSUME Inv, NEW t \in Tasks, held, pc[t] = "suspending", waiters' = Append(waiters, t),
         pc' = [pc EXCEPT ![t] = "parked"],
         UNCHANGED <<held, owner, loans, guard, depth, draining, pending, drainer, violated,
                     parent, anc, awaited>>
  PROVE  Ownership' /\ LoansNested' /\ Queues'
<1> USE DEF Inv, Types
<1>1. /\ pc'[t] = "parked" /\ ~guard[t]
      /\ \A u \in Tasks \ {t} : pc'[u] = pc[u]
  BY ZenonT(30) DEF Ownership, OwnersKnown, TaskTypeOK
<1>2. \A u \in Tasks : (Live(u)' <=> Live(u)) /\ (Owns(u)' <=> Owns(u))
  BY <1>1, Zenon DEF Live, Owns
<1>3. \A l, u \in Tasks : Awaits(l, u) => Awaits(l, u)'
  BY <1>2, Zenon DEF Awaits, ChainTypeOK
<1>4. OwnersKnown' /\ OwnerOwns'
  BY <1>1, <1>2, ZenonT(60) DEF Ownership, OwnersKnown, OwnerOwns
<1>5. ReleaseRecorded' /\ LoopOutside'
  BY <1>1, <1>2, Zenon DEF Ownership, ReleaseRecorded, LoopOutside, OwnerOwns
<1>6. LoansNested'
  <2> SUFFICES ASSUME NEW i \in 1..Len(loans)
               PROVE  /\ pc'[loans[i].lender] = "joining"
                      /\ Awaits(loans[i].lender, loans[i].borrower)'
    BY SMTT(60) DEF LoansNested, Awaits
  <2> QED
    BY <1>1, <1>3, FrameTypes, BorrowersOwn, ZenonT(60)
<1>7. /\ Len(waiters) \in Nat /\ Len(waiters') = Len(waiters) + 1
      /\ waiters'[Len(waiters) + 1] = t
      /\ \A i \in 1..Len(waiters) : waiters'[i] = waiters[i] /\ waiters[i] \in Tasks
  BY DEF MutexTypeOK
<1>8. FifoParked'
  BY <1>1, <1>7, NotQueued, SMTT(30) DEF Queues, FifoParked
<1>9. BorrowersParked'
  <2> SUFFICES ASSUME NEW i \in 1..Len(loans), NEW m \in 1..Len(loans[i].queue)
               PROVE  /\ pc'[loans[i].queue[m]] = "parked"
                      /\ Awaits(loans[i].lender, loans[i].queue[m])'
    BY SMTT(60) DEF BorrowersParked
  <2>1. /\ loans[i].lender \in Tasks /\ loans[i].queue[m] \in Tasks
        /\ pc[loans[i].queue[m]] = "parked" /\ Awaits(loans[i].lender, loans[i].queue[m])
    BY FrameTypes, Zenon DEF Queues, BorrowersParked
  <2> QED
    BY <1>1, <1>3, <2>1, ZenonT(60)
<1>10. BorrowersApart'
  <2> SUFFICES ASSUME NEW i \in 1..Len(loans), NEW m \in 1..Len(loans[i].queue),
                      NEW j \in 1..Len(waiters')
               PROVE  waiters'[j] # loans[i].queue[m]
    BY SMTT(60) DEF Queues, BorrowersApart
  <2>1. CASE j = Len(waiters) + 1
    BY <1>7, <2>1, NotQueued, ZenonT(60)
  <2>2. CASE j # Len(waiters) + 1
    <3>1. j \in 1..Len(waiters)
      BY <1>7, <2>2, SMTT(60)
    <3> QED
      BY <1>7, <3>1 DEF Queues, BorrowersApart
  <2> QED
    BY <2>1, <2>2, ZenonT(60)
<1> QED
  BY <1>4, <1>5, <1>6, <1>8, <1>9, <1>10, Zenon DEF Ownership, Queues

(* A waiter pushed on the queue of the loan whose lender awaits it.        *)
LEMMA ParkLoanInv ==
  ASSUME Inv, NEW t \in Tasks, pc[t] = "suspending", NEW f \in 1..Len(loans),
         Awaits(loans[f].lender, t), loans' = [loans EXCEPT ![f].queue = Append(@, t)],
         pc' = [pc EXCEPT ![t] = "parked"],
         UNCHANGED <<held, owner, waiters, guard, depth, draining, pending, drainer, violated,
                     parent, anc, awaited>>
  PROVE  Ownership' /\ LoansNested' /\ Queues'
<1> USE DEF Inv, Types
<1>1. /\ pc'[t] = "parked" /\ ~guard[t]
      /\ \A u \in Tasks \ {t} : pc'[u] = pc[u]
  BY ZenonT(30) DEF Ownership, OwnersKnown, TaskTypeOK
<1>2. \A u \in Tasks : (Live(u)' <=> Live(u)) /\ (Owns(u)' <=> Owns(u))
  BY <1>1, Zenon DEF Live, Owns
<1>3. \A l, u \in Tasks : Awaits(l, u) => Awaits(l, u)'
  BY <1>2, Zenon DEF Awaits, ChainTypeOK
<1>4. /\ Len(loans) \in Nat /\ Len(loans') = Len(loans) /\ loans # <<>>
      /\ \A i \in 1..Len(loans) : loans'[i].lender = loans[i].lender /\ loans'[i].borrower = loans[i].borrower
      /\ \A i \in 1..Len(loans) : i # f => loans'[i].queue = loans[i].queue
      /\ loans'[f].queue = Append(loans[f].queue, t)
  BY SMTT(60) DEF MutexTypeOK, Frames
<1>5. /\ Len(loans[f].queue) \in Nat /\ Len(loans'[f].queue) = Len(loans[f].queue) + 1
      /\ loans'[f].queue[Len(loans[f].queue) + 1] = t
      /\ \A m \in 1..Len(loans[f].queue) : loans'[f].queue[m] = loans[f].queue[m]
  <2>1. loans[f].queue \in Seq(Tasks)
    BY FrameTypes, Zenon
  <2> QED
    BY <1>4, <2>1
<1>6. OwnersKnown'
  BY <1>1, <1>2, <1>4 DEF Ownership, OwnersKnown
<1>7. held /\ ~pending
  BY <1>4, Zenon DEF Ownership, OwnerOwns, ReleaseRecorded
<1>8. OwnerOwns' /\ ReleaseRecorded'
  BY <1>2, <1>4, <1>7, Zenon DEF Ownership, OwnerOwns, ReleaseRecorded
<1>9. LoopOutside'
  BY <1>1, Zenon DEF Ownership, LoopOutside
<1>10. LoansNested'
  <2>1. ~violated'
    BY Zenon DEF LoansNested
  <2>2. ASSUME NEW i \in 1..Len(loans')
        PROVE  /\ loans'[i].borrower = IF i = Len(loans') THEN owner' ELSE loans'[i + 1].lender
               /\ guard'[loans'[i].lender] /\ pc'[loans'[i].lender] = "joining"
               /\ depth'[loans'[i].lender] = i - 1
               /\ Awaits(loans[i].lender, loans[i].borrower)'
    <3>1. /\ i \in 1..Len(loans) /\ loans[i].lender \in Tasks /\ loans[i].borrower \in Tasks
          /\ loans[i].lender # t
      BY <1>4, FrameTypes, BorrowersOwn, Zenon
    <3>2. /\ guard[loans[i].lender] /\ pc[loans[i].lender] = "joining"
          /\ depth[loans[i].lender] = i - 1
          /\ Awaits(loans[i].lender, loans[i].borrower)
      BY <3>1, BorrowersOwn, Zenon
    <3>3. loans'[i].borrower = IF i = Len(loans') THEN owner' ELSE loans'[i + 1].lender
      BY <1>4, <3>1, BorrowersOwn, SMTT(60)
    <3> QED
      BY <1>1, <1>3, <1>4, <3>1, <3>2, <3>3, SMTT(60)
  <2> QED
    BY <2>1, <2>2, ZenonT(60) DEF LoansNested, Awaits
<1>11. FifoParked'
  BY <1>1, NotQueued DEF Queues, FifoParked, MutexTypeOK
<1>12. ASSUME NEW i \in 1..Len(loans'), NEW m \in 1..Len(loans'[i].queue)
       PROVE  /\ i \in 1..Len(loans)
              /\ \/ i = f /\ m = Len(loans[f].queue) + 1 /\ loans'[i].queue[m] = t
                 \/ /\ m \in 1..Len(loans[i].queue) /\ loans'[i].queue[m] = loans[i].queue[m]
                    /\ loans[i].queue[m] \in Tasks /\ loans[i].queue[m] # t
  <2>1. i \in 1..Len(loans)
    BY <1>4, Zenon
  <2>2. CASE i = f /\ m = Len(loans[f].queue) + 1
    BY <1>5, <2>1, <2>2, Zenon
  <2>3. CASE ~(i = f /\ m = Len(loans[f].queue) + 1)
    <3>1. m \in 1..Len(loans[i].queue) /\ loans'[i].queue[m] = loans[i].queue[m]
      BY <1>4, <1>5, <2>1, <2>3, SMTT(30)
    <3> QED
      BY <2>1, <3>1, FrameTypes, NotQueued, ZenonT(30)
  <2> QED
    BY <2>2, <2>3, Zenon
<1>13. BorrowersParked'
  <2> SUFFICES ASSUME NEW i \in 1..Len(loans'), NEW m \in 1..Len(loans'[i].queue)
               PROVE  /\ pc'[loans'[i].queue[m]] = "parked"
                      /\ Awaits(loans[i].lender, loans[i].queue[m])'
    BY ZenonT(60) DEF BorrowersParked
  <2>1. CASE i = f /\ m = Len(loans[f].queue) + 1
    BY <1>1, <1>3, <1>4, <1>12, <2>1, FrameTypes, SMTT(60)
  <2>2. CASE m \in 1..Len(loans[i].queue) /\ loans'[i].queue[m] = loans[i].queue[m]
    <3>1. /\ loans[i].lender \in Tasks /\ loans[i].queue[m] \in Tasks /\ loans[i].queue[m] # t
          /\ pc[loans[i].queue[m]] = "parked" /\ Awaits(loans[i].lender, loans[i].queue[m])
      BY <1>12, <2>2, FrameTypes, NotQueued, ZenonT(60) DEF Queues, BorrowersParked
    <3> QED
      BY <1>1, <1>3, <1>4, <1>12, <2>2, <3>1, SMTT(60)
  <2> QED
    BY <1>12, <2>1, <2>2, ZenonT(60)
<1>14. BorrowersApart'
  <2>1. ASSUME NEW i \in 1..Len(loans'), NEW m \in 1..Len(loans'[i].queue),
               NEW j \in 1..Len(waiters')
        PROVE  waiters'[j] # loans'[i].queue[m]
    <3>1. CASE loans'[i].queue[m] = t
      BY <3>1, NotQueued, ZenonT(60)
    <3>2. CASE m \in 1..Len(loans[i].queue) /\ loans'[i].queue[m] = loans[i].queue[m]
      <4>1. /\ i \in 1..Len(loans) /\ j \in 1..Len(waiters)
            /\ waiters'[j] = waiters[j] /\ BorrowersApart
        BY <1>12, Zenon DEF Queues
      <4>2. waiters[j] # loans[i].queue[m]
        BY ONLY <3>2, <4>1, ZenonT(60) DEF BorrowersApart
      <4> QED BY <3>2, <4>1, <4>2, Zenon
    <3> QED
      BY <1>12, <3>1, <3>2, Zenon
  <2>2. ASSUME NEW i \in 1..Len(loans'), NEW m \in 1..Len(loans'[i].queue),
               NEW j \in 1..Len(loans'), NEW q \in 1..Len(loans'[j].queue),
               loans'[i].queue[m] = loans'[j].queue[q]
        PROVE  i = j /\ m = q
    <3>1. CASE loans'[i].queue[m] = t
      <4>1. i = f /\ m = Len(loans[f].queue) + 1
        BY <1>12, <3>1, SMTT(60)
      <4>2. j = f /\ q = Len(loans[f].queue) + 1
        BY <1>12, <2>2, <3>1, SMTT(60)
      <4> QED
        BY <4>1, <4>2, Zenon
    <3>2. CASE loans'[i].queue[m] # t
      <4>1. /\ i \in 1..Len(loans) /\ m \in 1..Len(loans[i].queue)
            /\ loans'[i].queue[m] = loans[i].queue[m]
        BY <1>12, <3>2, ZenonT(60)
      <4>2. /\ j \in 1..Len(loans) /\ q \in 1..Len(loans[j].queue)
            /\ loans'[j].queue[q] = loans[j].queue[q]
        BY <1>12, <2>2, <3>2, ZenonT(60)
      <4>3. loans[i].queue[m] = loans[j].queue[q]
        BY <2>2, <4>1, <4>2, Zenon
      <4>4. BorrowersApart
        BY Zenon DEF Queues
      <4> QED
        BY ONLY <4>1, <4>2, <4>3, <4>4, ZenonT(60) DEF BorrowersApart
    <3> QED
      BY <3>1, <3>2, Zenon
  <2> QED
    BY <2>1, <2>2, ApartNext, ZenonT(30)
<1> QED
  BY <1>6, <1>8, <1>9, <1>10, <1>11, <1>13, <1>14, Zenon DEF Ownership, Queues

(* try_lock that succeeds takes a free mutex.                              *)
LEMMA TryLockInv == ASSUME Inv, NEW t \in Tasks, TryLock(t) PROVE Inv'
<1> USE DEF Inv, Types
<1>1. pc[t] = "run" /\ pc' = [pc EXCEPT ![t] = "run"] /\ ~held /\ Take(t)
  BY Zenon DEF TryLock, TaskTypeOK
<1>2. MutexTypeOK' /\ FlagTypeOK'
  BY Zenon DEF TryLock, Take, MutexTypeOK, FlagTypeOK
<1>3. TaskTypeOK'
  BY Zenon DEF TryLock, Take, TaskTypeOK
<1>4. ChainTypeOK' /\ Chains'
  BY <1>1, ChainsOfStep, ZenonT(30) DEF TryLock, Live, Pcs
<1>5. Ownership' /\ LoansNested' /\ Queues'
  BY <1>1, TakeInv, ZenonT(30) DEF TryLock
<1> QED
  BY <1>2, <1>3, <1>4, <1>5, Zenon

(* A request answered at once (decide_locked).                             *)
LEMMA DecideInv ==
  ASSUME Inv, NEW t \in Tasks, NEW k \in Kinds, Decide(t, classify(t, k).decision),
         pc[t] \in {"run", "suspending"}, ~guard[t], pc' = [pc EXCEPT ![t] = "run"],
         kind' \in [Tasks -> Kinds], UNCHANGED <<draining, pending, drainer, inline, chainVars, violated>>
  PROVE  Inv'
<1> USE DEF Inv, Types
<1>1. ChainTypeOK' /\ Chains' /\ \A l, u \in Tasks : Awaits(l, u) => Awaits(l, u)'
  BY ChainsOfStep, ZenonT(30) DEF Live, Pcs
<1>2. UNCHANGED <<parent, anc, awaited>>
  BY Zenon DEF chainVars
<1>3. pc' \in [Tasks -> Pcs]
  BY Zenon DEF TaskTypeOK, Pcs
<1>4. CASE ~held /\ Take(t)
  <2>1. MutexTypeOK' /\ FlagTypeOK'
    BY <1>4, Zenon DEF Take, MutexTypeOK, FlagTypeOK
  <2>2. TaskTypeOK'
    BY <1>3, <1>4, Zenon DEF Take, TaskTypeOK
  <2>3. Ownership' /\ LoansNested' /\ Queues'
    BY <1>4, TakeInv, ZenonT(30)
  <2> QED
    BY <1>1, <2>1, <2>2, <2>3, Zenon
<1>5. CASE held /\ relate(t, owner) = "awaiting_ancestor" /\ Lend(t)
  <2>1. owner \in Tasks
    BY <1>5, Related, Zenon DEF Live
  <2>2. MutexTypeOK' /\ FlagTypeOK'
    BY <1>5, <2>1, SMTT(30) DEF Lend, MutexTypeOK, FlagTypeOK, Frames
  <2>3. TaskTypeOK'
    <3>1. Len(loans) + 1 \in Nat
      BY DEF MutexTypeOK
    <3> QED
      BY <1>3, <1>5, <3>1, Zenon DEF Lend, TaskTypeOK
  <2>4. Ownership' /\ LoansNested' /\ Queues'
    BY <1>2, <1>5, LendInv, ZenonT(30)
  <2> QED
    BY <1>1, <2>2, <2>3, <2>4, Zenon
<1>6. CASE Refuse
  <2>1. MutexTypeOK' /\ FlagTypeOK'
    BY <1>6, Zenon DEF Refuse, MutexTypeOK, FlagTypeOK
  <2>2. TaskTypeOK'
    BY <1>3, <1>6, Zenon DEF Refuse, TaskTypeOK
  <2>3. Ownership' /\ LoansNested' /\ Queues'
    <3>1. UNCHANGED <<mutexVars, guard, depth, violated>>
      BY <1>6, Zenon DEF Refuse, mutexVars
    <3>2. /\ \A u \in Tasks : pc'[u] = "granted" <=> pc[u] = "granted"
          /\ \A u \in Tasks : pc[u] \in {"parked", "draining"} => pc'[u] = pc[u]
      BY Zenon DEF TaskTypeOK
    <3>3. \A u \in Tasks : guard[u] => pc'[u] \in {"run", "draining", "joining"}
      BY Zenon DEF TaskTypeOK, Ownership, OwnersKnown
    <3>4. \A i \in 1..Len(loans) : pc'[loans[i].lender] = "joining"
      BY BorrowersOwn, FrameTypes, Zenon DEF TaskTypeOK
    <3>5. pending => pc'[owner] # "joining"
      BY DEF TaskTypeOK, Ownership, ReleaseRecorded
    <3> QED
      BY <1>1, <3>1, <3>2, <3>3, <3>4, <3>5, MutexKept, Zenon
  <2> QED
    BY <1>1, <2>1, <2>2, <2>3, Zenon
<1> QED
  BY <1>4, <1>5, <1>6, Decisions, Zenon DEF Decide

(* The first look of lock(): answered at once, or on to await_suspend.     *)
LEMMA AwaitReadyInv == ASSUME Inv, NEW t \in Tasks, NEW k \in Kinds, AwaitReady(t, k) PROVE Inv'
<1> USE DEF Inv, Types
<1>1. pc[t] = "run" /\ ~guard[t] /\ UNCHANGED <<draining, pending, drainer, inline, chainVars, violated>>
  BY Zenon DEF AwaitReady
<1>2. CASE Decide(t, classify(t, k).decision) /\ UNCHANGED <<pc, kind>>
  <2>1. pc' = [pc EXCEPT ![t] = "run"] /\ kind' \in [Tasks -> Kinds]
    BY <1>1, <1>2, Zenon DEF TaskTypeOK
  <2> QED
    BY <1>1, <1>2, <2>1, DecideInv, ZenonT(30)
<1>3. CASE /\ pc' = [pc EXCEPT ![t] = "suspending"]
           /\ kind' = [kind EXCEPT ![t] = k]
           /\ UNCHANGED <<held, owner, guard, depth, waiters, loans>>
  <2>1. ChainTypeOK' /\ Chains' /\ \A l, u \in Tasks : Awaits(l, u) => Awaits(l, u)'
    BY <1>1, <1>3, ChainsOfStep, ZenonT(30) DEF Live, Pcs
  <2>2. MutexTypeOK' /\ FlagTypeOK'
    BY <1>1, <1>3, Zenon DEF MutexTypeOK, FlagTypeOK
  <2>3. TaskTypeOK'
    BY <1>3, Zenon DEF TaskTypeOK, Pcs
  <2>4. Ownership' /\ LoansNested' /\ Queues'
    <3>1. UNCHANGED <<mutexVars, guard, depth, violated>>
      BY <1>1, <1>3, Zenon DEF mutexVars
    <3>2. /\ \A u \in Tasks : pc'[u] = "granted" <=> pc[u] = "granted"
          /\ \A u \in Tasks : pc[u] \in {"parked", "draining"} => pc'[u] = pc[u]
      BY <1>1, <1>3, Zenon DEF TaskTypeOK
    <3>3. \A u \in Tasks : guard[u] => pc'[u] \in {"run", "draining", "joining"}
      BY <1>1, <1>3, Zenon DEF TaskTypeOK, Ownership, OwnersKnown
    <3>4. \A i \in 1..Len(loans) : pc'[loans[i].lender] = "joining"
      BY <1>1, <1>3, BorrowersOwn, FrameTypes, Zenon DEF TaskTypeOK
    <3>5. pending => pc'[owner] # "joining"
      BY <1>3, SMTT(30) DEF TaskTypeOK, Ownership, ReleaseRecorded
    <3> QED
      BY <2>1, <3>1, <3>2, <3>3, <3>4, <3>5, MutexKept, Zenon
  <2> QED
    BY <2>1, <2>2, <2>3, <2>4, Zenon
<1> QED
  BY <1>2, <1>3, Zenon DEF AwaitReady

(* The second look, under the same lock as the parking: the answer may     *)
(* have changed since await_ready.                                         *)
LEMMA AwaitSuspendInv == ASSUME Inv, NEW t \in Tasks, AwaitSuspend(t) PROVE Inv'
<1> USE DEF Inv, Types
<1> DEFINE c == classify(t, kind[t])
<1>1. /\ pc[t] = "suspending" /\ ~guard[t] /\ kind[t] \in Kinds
      /\ UNCHANGED <<draining, pending, drainer, kind, chainVars, violated>>
  BY ZenonT(30) DEF AwaitSuspend, Ownership, OwnersKnown, TaskTypeOK
<1>2. CASE Decide(t, c.decision) /\ pc' = [pc EXCEPT ![t] = "run"] /\ UNCHANGED inline
  <2>1. kind' \in [Tasks -> Kinds]
    BY <1>1, Zenon DEF TaskTypeOK
  <2> QED
    BY <1>1, <1>2, <2>1, DecideInv, ZenonT(30)
<1>3. CASE /\ c.decision = "queue_fifo" /\ waiters' = Append(waiters, t)
           /\ pc' = [pc EXCEPT ![t] = "parked"] /\ LeaveStack(t)
           /\ UNCHANGED <<held, owner, guard, depth, loans>>
  <2>1. held
    BY <1>1, <1>3, Decisions, Zenon
  <2>2. ChainTypeOK' /\ Chains' /\ UNCHANGED <<parent, anc, awaited>>
    BY <1>1, <1>3, ChainsOfStep, ZenonT(60) DEF Live, Pcs, chainVars
  <2>3. MutexTypeOK' /\ FlagTypeOK'
    BY <1>1, <1>3 DEF LeaveStack, MutexTypeOK, FlagTypeOK
  <2>4. TaskTypeOK'
    BY <1>1, <1>3, Zenon DEF TaskTypeOK, Pcs
  <2>5. Ownership' /\ LoansNested' /\ Queues'
    BY <1>1, <1>3, <2>1, <2>2, ParkFifoInv, ZenonT(30)
  <2> QED
    BY <2>2, <2>3, <2>4, <2>5, Zenon
<1>4. CASE /\ c.decision = "queue_loan"
           /\ loans' = [loans EXCEPT ![c.frame].queue = Append(@, t)]
           /\ pc' = [pc EXCEPT ![t] = "parked"] /\ LeaveStack(t)
           /\ UNCHANGED <<held, owner, guard, depth, waiters>>
  <2> DEFINE f == c.frame
  <2>1. f \in 1..Len(loans) /\ relate(t, loans[f].lender) = "awaiting_ancestor"
    BY <1>1, <1>4, Decisions, Zenon
  <2>2. loans' = [loans EXCEPT ![f].queue = Append(@, t)]
    BY <1>4, Zenon
  <2>3. ChainTypeOK' /\ Chains' /\ UNCHANGED <<parent, anc, awaited>>
    BY <1>1, <1>4, ChainsOfStep, ZenonT(30) DEF Live, Pcs, chainVars
  <2>4. TaskTypeOK' /\ FlagTypeOK'
    BY <1>1, <1>4, Zenon DEF TaskTypeOK, FlagTypeOK, Pcs
  <2>5. Live(t)
    BY <1>1, Zenon DEF Live
  <2> HIDE DEF f, c
  <2>6. Awaits(loans[f].lender, t)
    BY <2>1, <2>5, Related, Zenon
  <2>7. loans' \in Seq(Frames)
    <3>1. loans[f].queue \in Seq(Tasks) /\ Append(loans[f].queue, t) \in Seq(Tasks)
      BY <2>1, FrameTypes
    <3>2. loans[f] \in Frames
      BY <2>1 DEF MutexTypeOK
    <3>3. [loans[f] EXCEPT !.queue = Append(loans[f].queue, t)] \in Frames
      BY <3>1, <3>2, Zenon DEF Frames
    <3> QED
      BY <2>1, <2>2, <3>3, SMTT(30) DEF MutexTypeOK
  <2>8. MutexTypeOK'
    BY <1>1, <1>4, <2>7, Zenon DEF LeaveStack, MutexTypeOK
  <2>9. Ownership' /\ LoansNested' /\ Queues'
    BY <1>1, <1>4, <2>1, <2>2, <2>3, <2>6, ParkLoanInv, ZenonT(30)
  <2> QED
    BY <2>3, <2>4, <2>8, <2>9, Zenon
<1> QED
  BY <1>2, <1>3, <1>4, Zenon DEF AwaitSuspend

(* A granted waiter wakes up and becomes the guard's holder.               *)
LEMMA AwaitResumeInv == ASSUME Inv, NEW t \in Tasks, AwaitResume(t) PROVE Inv'
<1> USE DEF Inv, Types
<1>1. pc[t] = "granted" /\ pc' = [pc EXCEPT ![t] = "run"] /\ guard' = [guard EXCEPT ![t] = TRUE]
  BY Zenon DEF AwaitResume
<1>2. /\ loans' = loans /\ waiters' = waiters /\ owner' = owner /\ drainer' = drainer
      /\ held' = held /\ draining' = draining /\ pending' = pending /\ depth' = depth
      /\ violated' = violated /\ inline' = inline /\ kind' = kind /\ UNCHANGED chainVars
  BY Zenon DEF AwaitResume, mutexVars
<1>3. ChainTypeOK' /\ Chains' /\ \A l, u \in Tasks : Awaits(l, u) => Awaits(l, u)'
  BY <1>1, <1>2, ChainsOfStep, ZenonT(30) DEF Live, Pcs
<1>4. MutexTypeOK' /\ FlagTypeOK'
  BY <1>2, Zenon DEF MutexTypeOK, FlagTypeOK
<1>5. TaskTypeOK'
  BY <1>1, <1>2, Zenon DEF TaskTypeOK, Pcs
<1>6. /\ pc'[t] = "run" /\ guard'[t] /\ Owns(t)
      /\ \A u \in Tasks \ {t} : pc'[u] = pc[u] /\ guard'[u] = guard[u]
  BY <1>1, Zenon DEF TaskTypeOK, Owns
<1>7. \A u \in Tasks : Owns(u)' <=> Owns(u)
  BY <1>6, Zenon DEF Owns
<1>8. OwnersKnown' /\ OwnerOwns' /\ ReleaseRecorded' /\ LoopOutside'
  <2>1. OwnersKnown'
    BY <1>2, <1>6, <1>7, ZenonT(30) DEF Ownership, OwnersKnown
  <2>2. OwnerOwns'
    BY <1>2, <1>7, Zenon DEF Ownership, OwnerOwns
  <2>3. ReleaseRecorded' /\ LoopOutside'
    BY <1>1, <1>2, <1>6, <1>7, ZenonT(60) DEF Ownership, ReleaseRecorded, LoopOutside
  <2> QED
    BY <2>1, <2>2, <2>3, Zenon
<1>9. LoansNested'
  <2> SUFFICES ASSUME NEW i \in 1..Len(loans)
               PROVE  /\ guard'[loans[i].lender] /\ pc'[loans[i].lender] = "joining"
                      /\ Awaits(loans[i].lender, loans[i].borrower)'
    BY <1>2, Zenon DEF LoansNested, Awaits
  <2> QED
    BY <1>1, <1>2, <1>3, <1>6, FrameTypes, BorrowersOwn, SMTT(30)
<1>10. FifoParked'
  BY <1>1, <1>2, <1>6, SMTT(30) DEF Queues, FifoParked, MutexTypeOK
<1>11. BorrowersParked'
  <2> SUFFICES ASSUME NEW i \in 1..Len(loans), NEW m \in 1..Len(loans[i].queue)
               PROVE  /\ pc'[loans[i].queue[m]] = "parked"
                      /\ Awaits(loans[i].lender, loans[i].queue[m])'
    BY <1>2, ZenonT(30) DEF BorrowersParked
  <2>1. /\ loans[i].lender \in Tasks /\ loans[i].queue[m] \in Tasks
        /\ pc[loans[i].queue[m]] = "parked" /\ Awaits(loans[i].lender, loans[i].queue[m])
    BY FrameTypes, ZenonT(30) DEF Queues, BorrowersParked
  <2> QED
    BY <1>1, <1>2, <1>3, <1>6, <2>1, ZenonT(30)
<1>12. BorrowersApart'
  <2>1. BorrowersApart
    BY Zenon DEF Queues
  <2> QED
    BY <1>2, <2>1, ApartKept, ZenonT(30)
<1> QED
  BY <1>3, <1>4, <1>5, <1>8, <1>9, <1>10, <1>11, <1>12, Zenon DEF Ownership, Queues

(* erase_waiter_locked: the waiter leaves the FIFO, the others keep their  *)
(* order.                                                                  *)
LEMMA DropParkedInv == ASSUME Inv, NEW t \in Tasks, DropParked(t) PROVE Inv'
<1> USE DEF Inv, Types
<1>1. PICK x \in 1..Len(waiters) :
         /\ waiters[x] = t
         /\ waiters' = SubSeq(waiters, 1, x - 1) \o SubSeq(waiters, x + 1, Len(waiters))
  BY ZenonT(30) DEF DropParked
<1>2. /\ pc[t] = "parked" /\ Children(t) = {} /\ pc' = [pc EXCEPT ![t] = "done"]
      /\ loans' = loans /\ owner' = owner /\ drainer' = drainer /\ guard' = guard
      /\ held' = held /\ draining' = draining /\ pending' = pending /\ depth' = depth
      /\ violated' = violated /\ inline' = inline /\ kind' = kind /\ UNCHANGED chainVars
  BY Zenon DEF DropParked
<1>3. /\ Len(waiters) \in Nat /\ waiters' \in Seq(Tasks) /\ Len(waiters') = Len(waiters) - 1
      /\ \A j \in 1..Len(waiters') :
            waiters'[j] = waiters[IF j < x THEN j ELSE j + 1]
  <2> DEFINE a == SubSeq(waiters, 1, x - 1)
             b == SubSeq(waiters, x + 1, Len(waiters))
  <2>1. waiters \in Seq(Tasks) /\ Len(waiters) \in Nat
    BY DEF MutexTypeOK
  <2>2. a \in Seq(Tasks) /\ Len(a) = x - 1 /\ \A j \in 1..x - 1 : a[j] = waiters[j]
    BY <2>1
  <2>3. /\ b \in Seq(Tasks) /\ Len(b) = Len(waiters) - x
        /\ \A j \in 1..Len(waiters) - x : b[j] = waiters[j + x]
    BY <2>1
  <2>4. waiters' = a \o b
    BY <1>1, Zenon
  <2> HIDE DEF a, b
  <2>5. waiters' \in Seq(Tasks) /\ Len(waiters') = Len(waiters) - 1
    <3>0. a \in Seq(Tasks) /\ b \in Seq(Tasks)
      BY <2>2, <2>3, Zenon
    <3>1. a \o b \in Seq(Tasks) /\ Len(a \o b) = Len(a) + Len(b)
      BY <3>0
    <3>2. Len(a) + Len(b) = Len(waiters) - 1
      BY <2>1, <2>2, <2>3
    <3> QED
      BY <2>4, <3>1, <3>2, Zenon
  <2>6. ASSUME NEW j \in 1..Len(waiters')
        PROVE  waiters'[j] = waiters[IF j < x THEN j ELSE j + 1]
    <3>1. CASE j < x
      BY <2>1, <2>2, <2>3, <2>4, <2>5, <3>1, SMTT(30)
    <3>2. CASE ~(j < x)
      <4>1. waiters'[j] = b[j - (x - 1)] /\ j - (x - 1) \in 1..Len(waiters) - x
        BY <2>1, <2>2, <2>3, <2>4, <2>5, <3>2, SMTT(60)
      <4> QED
        BY <2>1, <2>3, <3>2, <4>1, SMTT(30)
    <3> QED
      BY <3>1, <3>2, Zenon
  <2> QED
    BY <2>1, <2>5, <2>6, Zenon
<1>4. /\ pc'[t] = "done" /\ ~guard[t]
      /\ \A u \in Tasks \ {t} : pc'[u] = pc[u]
  BY <1>2, Zenon DEF Ownership, OwnersKnown, TaskTypeOK
<1>5. /\ Live(t) /\ ~Live(t)' /\ \A u \in Tasks \ {t} : Live(u)' <=> Live(u)
      /\ \A u \in Tasks : Owns(u)' <=> Owns(u)
      /\ \A u \in Tasks : pc[u] = "joining" => pc'[u] = "joining"
  BY <1>2, <1>4, Zenon DEF Live, Owns
<1>6. UNCHANGED <<parent, anc, awaited>> /\ ChainTypeOK'
  BY <1>2, Zenon DEF chainVars, ChainTypeOK
<1>7. /\ AwaitedEdges' /\ Ancestry'
      /\ \A l, u \in Tasks : u # t /\ Live(u) /\ Awaits(l, u) => Awaits(l, u)'
  BY <1>2, <1>5, <1>6, ChainsCut, Zenon DEF Chains
<1>8. MutexTypeOK' /\ FlagTypeOK'
  BY <1>2, <1>3, Zenon DEF MutexTypeOK, FlagTypeOK
<1>9. TaskTypeOK'
  BY <1>2, Zenon DEF TaskTypeOK, Pcs
<1>10. OwnersKnown'
  BY <1>2, <1>4, <1>5, ZenonT(30) DEF Ownership, OwnersKnown
<1>11. OwnerOwns' /\ ReleaseRecorded' /\ LoopOutside'
  <2>1. held
    BY <1>1, SMTT(30) DEF Ownership, OwnerOwns
  <2>2. OwnerOwns'
    BY <1>2, <1>5, <2>1, Zenon DEF Ownership, OwnerOwns
  <2>3. ReleaseRecorded' /\ LoopOutside'
    BY <1>2, <1>4, <1>5, ZenonT(30) DEF Ownership, ReleaseRecorded, LoopOutside, OwnerOwns
  <2> QED
    BY <2>2, <2>3, Zenon
<1>12. LoansNested'
  <2> SUFFICES ASSUME NEW i \in 1..Len(loans)
               PROVE  /\ pc'[loans[i].lender] = "joining"
                      /\ Awaits(loans[i].lender, loans[i].borrower)'
    BY <1>2, ZenonT(60) DEF LoansNested, Awaits
  <2>1. /\ loans[i].lender \in Tasks /\ loans[i].borrower \in Tasks /\ Live(loans[i].borrower)
        /\ Owns(loans[i].borrower) /\ Awaits(loans[i].lender, loans[i].borrower)
        /\ pc[loans[i].lender] = "joining"
    BY FrameTypes, BorrowersOwn, ZenonT(30)
  <2>2. loans[i].borrower # t
    BY <1>2, <1>4, <2>1, ZenonT(30) DEF Owns
  <2> QED
    BY <1>2, <1>4, <1>7, <2>1, <2>2, ZenonT(30)
<1>13. ASSUME NEW j \in 1..Len(waiters')
       PROVE  \E y \in 1..Len(waiters) : /\ waiters'[j] = waiters[y] /\ y # x
                                         /\ y = IF j < x THEN j ELSE j + 1
  BY <1>3, SMTT(60)
<1>14. FifoParked'
  <2>1. ASSUME NEW i \in 1..Len(waiters')
        PROVE  pc'[waiters'[i]] = "parked"
    <3>1. PICK y \in 1..Len(waiters) : waiters'[i] = waiters[y] /\ y # x
      BY <1>13, Zenon
    <3>2. waiters[y] # t /\ waiters[y] \in Tasks /\ pc[waiters[y]] = "parked"
      BY <1>1, <3>1, SMTT(60) DEF Queues, FifoParked, MutexTypeOK
    <3> QED
      BY <1>4, <3>1, <3>2, Zenon
  <2>2. ASSUME NEW i \in 1..Len(waiters'), NEW j \in 1..Len(waiters'), waiters'[i] = waiters'[j]
        PROVE  i = j
    <3>1. PICK y \in 1..Len(waiters) : waiters'[i] = waiters[y] /\ y = IF i < x THEN i ELSE i + 1
      BY <1>13, Zenon
    <3>2. PICK z \in 1..Len(waiters) : waiters'[j] = waiters[z] /\ z = IF j < x THEN j ELSE j + 1
      BY <1>13, Zenon
    <3>3. y = z
      BY <2>2, <3>1, <3>2, ZenonT(60) DEF Queues, FifoParked
    <3> QED
      BY <1>3, <3>1, <3>2, <3>3, SMTT(60)
  <2> QED
    BY <2>1, <2>2, Zenon DEF FifoParked
<1>15. BorrowersParked'
  <2> SUFFICES ASSUME NEW i \in 1..Len(loans), NEW m \in 1..Len(loans[i].queue)
               PROVE  /\ pc'[loans[i].queue[m]] = "parked"
                      /\ Awaits(loans[i].lender, loans[i].queue[m])'
    BY <1>2, ZenonT(60) DEF BorrowersParked
  <2>1. /\ loans[i].lender \in Tasks /\ loans[i].queue[m] \in Tasks
        /\ pc[loans[i].queue[m]] = "parked" /\ Awaits(loans[i].lender, loans[i].queue[m])
    BY FrameTypes, Zenon DEF Queues, BorrowersParked
  <2>2. loans[i].queue[m] # t
    BY <1>1, Zenon DEF Queues, BorrowersApart
  <2>3. Live(loans[i].queue[m])
    BY <2>1, ZenonT(30) DEF Live
  <2> QED
    BY <1>2, <1>4, <1>7, <2>1, <2>2, <2>3, ZenonT(30)
<1>16. BorrowersApart'
  <2>1. BorrowersApart
    BY Zenon DEF Queues
  <2>2. \A j \in 1..Len(waiters') : \E y \in 1..Len(waiters) : waiters'[j] = waiters[y]
    BY <1>13, ZenonT(30)
  <2> QED
    BY <1>2, <2>1, <2>2, ApartKept, ZenonT(30)
<1> QED
  BY <1>6, <1>7, <1>8, <1>9, <1>10, <1>11, <1>12, <1>14, <1>15, <1>16, ZenonT(60)
  DEF Chains, Ownership, Queues

-----------------------------------------------------------------------------
(* What each branch of unlock() does to the invariant: the lock goes back  *)
(* to a lender, on to the next borrower, to the head of the FIFO, to       *)
(* nobody, or the release is left to another thread's hand-off loop.       *)

(* Releasing.  LetsGo(t) is what every branch of unlock() shares: owner_   *)
(* gives up its guard (or its unclaimed grant) and everybody else's        *)
(* ownership and chain stay.                                               *)
LetsGo(t) ==
    /\ t = owner /\ Owns(t) /\ pc[t] \in {"run", "granted"} /\ ~pending
    /\ ~guard'[t] /\ pc'[t] \in {"run", "draining", "done"}
    /\ \A u \in Tasks \ {t} : guard'[u] = guard[u]
    /\ \A l, u \in Tasks : u # t /\ Live(u) /\ Awaits(l, u) => Awaits(l, u)'

(* release_locked: nobody is left who owns or waits.                       *)
LEMMA ReleasedInv ==
  ASSUME LoansNested, loans = <<>>, waiters = <<>>, loans' = loans, waiters' = waiters,
         violated' = violated, ~held', owner' = NoTask, ~pending', ~draining',
         drainer' \notin Tasks, \A u \in Tasks : ~Owns(u)'
  PROVE  Ownership' /\ LoansNested' /\ Queues'
<1>1. OwnersKnown'
  BY Zenon DEF OwnersKnown, Owns
<1>2. OwnerOwns'
  BY TasksAssumption, Zenon DEF OwnerOwns
<1>3. ReleaseRecorded' /\ LoopOutside'
  BY Zenon DEF ReleaseRecorded, LoopOutside
<1>4. LoansNested' /\ Queues'
  BY DEF LoansNested, Queues, FifoParked, BorrowersParked, BorrowersApart
<1> QED
  BY <1>1, <1>2, <1>3, <1>4, Zenon DEF Ownership

(* grant_next_locked: the head of the FIFO is the only owner.              *)
LEMMA GrantedInv ==
  ASSUME MutexTypeOK, Ownership, LoansNested, Queues, loans = <<>>, waiters # <<>>,
         NEW w \in Tasks, w = Head(waiters), waiters' = Tail(waiters), loans' = loans,
         violated' = violated, held' = held, owner' = w, ~pending', depth'[w] = 0,
         pc'[w] = "granted", \A u \in Tasks : ~guard'[u],
         \A u \in Tasks \ {w} : pc'[u] # "granted",
         \A u \in Tasks \ {w} : pc[u] = "parked" => pc'[u] = "parked",
         drainer' \in Tasks => draining' /\ pc'[drainer'] = "draining"
  PROVE  Ownership' /\ LoansNested' /\ Queues'
<1>1. held /\ Owns(w)' /\ \A u \in Tasks \ {w} : ~Owns(u)'
  BY Zenon DEF Ownership, OwnerOwns, Owns
<1>2. OwnersKnown'
  BY <1>1, Zenon DEF OwnersKnown
<1>3. OwnerOwns'
  BY <1>1, Zenon DEF OwnerOwns
<1>4. ReleaseRecorded' /\ LoopOutside'
  BY <1>1, ZenonT(60) DEF ReleaseRecorded, LoopOutside
<1>5. /\ Len(waiters) \in Nat /\ Len(waiters') = Len(waiters) - 1 /\ waiters[1] = w
      /\ \A j \in 1..Len(waiters') : waiters'[j] = waiters[j + 1]
      /\ \A j \in 1..Len(waiters) : waiters[j] \in Tasks
  BY SMTT(60) DEF MutexTypeOK
<1>6. FifoParked'
  <2> SUFFICES ASSUME NEW i \in 1..Len(waiters')
               PROVE  /\ pc'[waiters'[i]] = "parked"
                      /\ \A j \in 1..Len(waiters') : waiters'[i] = waiters'[j] => i = j
    BY ZenonT(60) DEF FifoParked
  <2>1. i + 1 \in 1..Len(waiters) /\ 1 \in 1..Len(waiters)
    BY <1>5, SMTT(60)
  <2>2. waiters[i + 1] # w /\ pc[waiters[i + 1]] = "parked"
    BY <1>5, <2>1, SMTT(60) DEF Queues, FifoParked
  <2>3. ASSUME NEW j \in 1..Len(waiters'), waiters'[i] = waiters'[j] PROVE i = j
    <3>1. j + 1 \in 1..Len(waiters) /\ waiters[i + 1] = waiters[j + 1]
      BY <1>5, <2>3
    <3>2. i + 1 = j + 1
      BY <2>1, <3>1, ZenonT(60) DEF Queues, FifoParked
    <3> QED
      BY <1>5, <3>2, SMTT(60)
  <2> QED
    BY <1>5, <2>1, <2>2, <2>3
<1>7. LoansNested' /\ BorrowersParked' /\ BorrowersApart'
  BY DEF LoansNested, BorrowersParked, BorrowersApart
<1> QED
  BY <1>2, <1>3, <1>4, <1>6, <1>7, Zenon DEF Ownership, Queues

(* unlock() under another thread's loop: the release is recorded.          *)
LEMMA RecordedInv ==
  ASSUME MutexTypeOK, Ownership, LoansNested, Queues, NEW t \in Tasks, LetsGo(t), loans = <<>>,
         draining, pending', \A u \in Tasks \ {t} : pc'[u] = pc[u],
         UNCHANGED <<held, owner, draining, waiters, loans, drainer, depth, violated>>
  PROVE  Ownership' /\ LoansNested' /\ Queues'
<1> USE DEF LetsGo
<1>1. \A u \in Tasks : ~Owns(u)'
  BY DEF Ownership, OwnersKnown, Owns
<1>2. OwnersKnown'
  BY <1>1, Zenon DEF OwnersKnown, Owns
<1>3. held
  BY Zenon DEF Ownership, LoopOutside
<1>4. OwnerOwns' /\ ReleaseRecorded'
  BY <1>1, <1>3, Zenon DEF OwnerOwns, ReleaseRecorded
<1>5. LoopOutside'
  BY ZenonT(60) DEF Ownership, LoopOutside
<1>6. FifoParked'
  BY SMTT(60) DEF Queues, FifoParked, MutexTypeOK
<1>7. LoansNested' /\ BorrowersParked' /\ BorrowersApart'
  BY DEF LoansNested, BorrowersParked, BorrowersApart
<1> QED
  BY <1>2, <1>4, <1>5, <1>6, <1>7, ZenonT(60) DEF Ownership, Queues

(* release_loan, nobody queued under the lender: the lender owns again.    *)
Returned(t, d) ==
    /\ d = Len(loans) /\ d > 0 /\ owner' = loans[d].lender
    /\ loans' = SubSeq(loans, 1, d - 1) /\ \A u \in Tasks \ {t} : pc'[u] = pc[u]
    /\ UNCHANGED <<held, draining, pending, waiters, drainer, depth, violated>>

(* A loan given back with nobody queued under it: the frame is popped and  *)
(* its lender owns the mutex again.                                        *)
LEMMA LoanReturnedInv ==
  ASSUME MutexTypeOK, Ownership, LoansNested, Queues, NEW t \in Tasks, LetsGo(t),
         NEW d \in Nat, Returned(t, d)
  PROVE  Ownership' /\ LoansNested' /\ Queues'
<1>a. t = owner /\ Owns(t) /\ pc[t] \in {"run", "granted"} /\ ~pending
  BY Zenon DEF LetsGo
<1>b. ~guard'[t] /\ pc'[t] # "granted" /\ \A u \in Tasks \ {t} : guard'[u] = guard[u]
  BY Zenon DEF LetsGo
<1>c. \A l, u \in Tasks : u # t /\ Live(u) /\ Awaits(l, u) => Awaits(l, u)'
  BY Zenon DEF LetsGo
<1>d. d = Len(loans) /\ d > 0 /\ owner' = loans[d].lender
  BY Zenon DEF Returned
<1>e. \A u \in Tasks \ {t} : pc'[u] = pc[u]
  BY Zenon DEF Returned
<1>f. /\ held' = held /\ draining' = draining /\ pending' = pending /\ waiters' = waiters
      /\ drainer' = drainer /\ depth' = depth /\ violated' = violated
  BY Zenon DEF Returned
<1>1. /\ d \in 1..d /\ loans # <<>> /\ Len(loans') = d - 1
      /\ \A i \in 1..d - 1 : loans'[i] = loans[i]
  BY SMTT(60) DEF Returned, MutexTypeOK
<1>2. /\ \A i \in 1..d : loans[i].lender \in Tasks /\ loans[i].borrower \in Tasks
      /\ \A i \in 1..d : loans[i].lender # t /\ guard[loans[i].lender]
                         /\ pc[loans[i].lender] = "joining" /\ depth[loans[i].lender] = i - 1
      /\ \A i \in 1..d : Awaits(loans[i].lender, loans[i].borrower)
      /\ \A i \in 1..d - 1 : loans[i].borrower = loans[i + 1].lender
  BY <1>a, <1>d, FrameTypes, BorrowersOwn, SMTT(30)
<1>3. held /\ ~pending' /\ owner' \in Tasks /\ Owns(owner')
  BY <1>1, <1>2, <1>a, <1>d, <1>f, Zenon DEF Ownership, OwnerOwns, Owns
<1>4. \A u \in Tasks : Owns(u)' <=> u # t /\ Owns(u)
  BY <1>b, <1>e, Zenon DEF Owns
<1>5. OwnersKnown'
  <2>1. ASSUME NEW u \in Tasks, Owns(u)', u # owner'
        PROVE  \E i \in 1..Len(loans') : loans'[i].lender = u
    <3>1. PICK i \in 1..d : loans[i].lender = u
      BY <1>4, <1>a, <1>d, <2>1, Zenon DEF Ownership, OwnersKnown
    <3>2. i \in 1..d - 1
      BY <1>d, <2>1, <3>1
    <3> QED
      BY <1>1, <3>1, <3>2, Zenon
  <2>2. \A u \in Tasks : guard'[u] => pc'[u] \in {"run", "draining", "joining"}
    BY <1>b, <1>e, Zenon DEF Ownership, OwnersKnown
  <2> QED
    BY <2>1, <2>2, Zenon DEF OwnersKnown
<1>6. OwnerOwns' /\ ReleaseRecorded'
  <2>1. owner' # t /\ depth'[owner'] = d - 1
    BY <1>1, <1>2, <1>d, <1>f, Zenon
  <2>2. owner' \in Tasks /\ Owns(owner)'
    BY <1>3, <1>4, <2>1, Zenon
  <2> QED
    BY <1>1, <1>3, <1>f, <2>1, <2>2, Zenon DEF OwnerOwns, ReleaseRecorded
<1>7. LoopOutside'
  BY <1>a, <1>e, <1>f, Zenon DEF Ownership, LoopOutside
<1>8. LoansNested'
  <2> SUFFICES ASSUME NEW i \in 1..Len(loans')
               PROVE  /\ loans'[i].borrower = IF i = Len(loans') THEN owner' ELSE loans'[i + 1].lender
                      /\ guard'[loans'[i].lender] /\ pc'[loans'[i].lender] = "joining"
                      /\ depth'[loans'[i].lender] = i - 1
                      /\ Awaits(loans[i].lender, loans[i].borrower)'
    BY <1>f, Zenon DEF LoansNested, Awaits
  <2>1. i \in 1..d /\ i \in 1..d - 1 /\ i + 1 \in 1..d /\ loans'[i] = loans[i]
    BY <1>1
  <2>2. loans[i].borrower = loans[i + 1].lender /\ loans[i].borrower # t
    BY <1>2, <2>1, Zenon
  <2>3. /\ loans[i].lender \in Tasks /\ loans[i].borrower \in Tasks
        /\ Live(loans[i].borrower) /\ Awaits(loans[i].lender, loans[i].borrower)
    BY <1>2, <1>d, <2>1, BorrowersOwn, Zenon
  <2>4. Awaits(loans[i].lender, loans[i].borrower)'
    BY <1>c, <2>1, <2>2, <2>3, ZenonT(60)
  <2>5. loans'[i].borrower = IF i = Len(loans') THEN owner' ELSE loans'[i + 1].lender
    BY <1>1, <1>d, <2>1, <2>2, SMTT(60)
  <2>6. /\ guard'[loans'[i].lender] /\ pc'[loans'[i].lender] = "joining"
        /\ depth'[loans'[i].lender] = i - 1
    <3>1. /\ loans[i].lender \in Tasks \ {t} /\ guard[loans[i].lender]
          /\ pc[loans[i].lender] = "joining" /\ depth[loans[i].lender] = i - 1
      BY <1>2, <2>1, ZenonT(60)
    <3> QED
      BY <1>b, <1>e, <1>f, <2>1, <3>1, Zenon
  <2> QED
    BY <2>4, <2>5, <2>6, Zenon
<1>9. FifoParked'
  <2>1. \A i \in 1..Len(waiters) : waiters[i] \in Tasks
    BY SMTT(60) DEF MutexTypeOK
  <2> QED BY <1>a, <1>e, <1>f, <2>1, ZenonT(60) DEF Queues, FifoParked
<1>10. ASSUME NEW i \in 1..Len(loans') PROVE i \in 1..Len(loans) /\ loans'[i] = loans[i]
  BY <1>1, <1>d
<1>11. BorrowersParked'
  <2> SUFFICES ASSUME NEW i \in 1..Len(loans'), NEW m \in 1..Len(loans'[i].queue)
               PROVE  /\ pc'[loans'[i].queue[m]] = "parked"
                      /\ Awaits(loans[i].lender, loans[i].queue[m])'
    BY Zenon DEF BorrowersParked
  <2>1. i \in 1..Len(loans) /\ loans'[i] = loans[i]
    BY <1>10, Zenon
  <2>2. /\ loans[i].lender \in Tasks /\ loans[i].queue[m] \in Tasks
        /\ pc[loans[i].queue[m]] = "parked" /\ Awaits(loans[i].lender, loans[i].queue[m])
    BY <2>1, FrameTypes, Zenon DEF Queues, BorrowersParked
  <2>3. Live(loans[i].queue[m]) /\ loans[i].queue[m] # t
    BY <1>a, <2>2, Zenon DEF Live
  <2> QED
    BY <1>c, <1>e, <2>1, <2>2, <2>3, Zenon
<1>12. BorrowersApart'
  <2>1. ASSUME NEW i \in 1..Len(loans'), NEW m \in 1..Len(loans'[i].queue),
               NEW j \in 1..Len(waiters')
        PROVE  waiters'[j] # loans'[i].queue[m]
    <3>1. i \in 1..Len(loans) /\ loans'[i] = loans[i]
      BY <1>10, Zenon
    <3>2. m \in 1..Len(loans[i].queue) /\ loans'[i].queue[m] = loans[i].queue[m]
      BY <3>1, Zenon
    <3>3. j \in 1..Len(waiters) /\ waiters'[j] = waiters[j]
      BY <1>f, Zenon
    <3>4. \A a \in 1..Len(loans) : \A k \in 1..Len(loans[a].queue) :
              \A b \in 1..Len(waiters) : waiters[b] # loans[a].queue[k]
      BY Zenon DEF Queues, BorrowersApart
    <3>5. waiters[j] # loans[i].queue[m]
      BY ONLY <3>1, <3>2, <3>3, <3>4, ZenonT(60)
    <3> QED
      BY <3>2, <3>3, <3>5, Zenon
  <2>2. ASSUME NEW i \in 1..Len(loans'), NEW m \in 1..Len(loans'[i].queue),
               NEW j \in 1..Len(loans'), NEW q \in 1..Len(loans'[j].queue),
               loans'[i].queue[m] = loans'[j].queue[q]
        PROVE  i = j /\ m = q
    <3>1. i \in 1..Len(loans) /\ loans'[i] = loans[i]
      BY <1>10, Zenon
    <3>2. j \in 1..Len(loans) /\ loans'[j] = loans[j]
      BY <1>10, Zenon
    <3>3. /\ m \in 1..Len(loans[i].queue) /\ q \in 1..Len(loans[j].queue)
          /\ loans[i].queue[m] = loans[j].queue[q]
      BY <2>2, <3>1, <3>2, Zenon
    <3>4. BorrowersApart
      BY Zenon DEF Queues
    <3> QED
      BY ONLY <3>1, <3>2, <3>3, <3>4, ZenonT(60) DEF BorrowersApart
  <2> QED
    BY <2>1, <2>2, ApartNext, ZenonT(60)
<1> QED
  BY <1>5, <1>6, <1>7, <1>8, <1>9, <1>11, <1>12, Zenon DEF Ownership, Queues

(* release_loan, a borrower queued under the same lender: the loan is its. *)
PassedOn(t, d, w) ==
    /\ d = Len(loans) /\ d > 0 /\ loans[d].queue # <<>> /\ w = loans[d].queue[1]
    /\ owner' = w /\ Len(loans') = d /\ \A i \in 1..d - 1 : loans'[i] = loans[i]
    /\ loans'[d].lender = loans[d].lender /\ loans'[d].borrower = w
    /\ loans'[d].queue = Tail(loans[d].queue)
    /\ depth'[w] = d /\ \A u \in Tasks \ {w} : depth'[u] = depth[u]
    /\ pc'[w] = "granted" /\ \A u \in Tasks \ {t, w} : pc'[u] = pc[u]
    /\ UNCHANGED <<held, draining, pending, waiters, drainer, violated>>

(* A loan given back with a waiter queued under it: the next borrower      *)
(* takes the place of the one that left.                                   *)
LEMMA LoanPassedOnInv ==
  ASSUME MutexTypeOK, Ownership, LoansNested, Queues, NEW t \in Tasks, LetsGo(t),
         NEW d \in Nat, NEW w \in Tasks, PassedOn(t, d, w)
  PROVE  Ownership' /\ LoansNested' /\ Queues'
<1>a. t = owner /\ Owns(t) /\ pc[t] \in {"run", "granted"} /\ ~pending
  BY Zenon DEF LetsGo
<1>b. ~guard'[t] /\ pc'[t] # "granted" /\ \A u \in Tasks \ {t} : guard'[u] = guard[u]
  BY Zenon DEF LetsGo
<1>c. \A l, u \in Tasks : u # t /\ Live(u) /\ Awaits(l, u) => Awaits(l, u)'
  BY Zenon DEF LetsGo
<1>d. d = Len(loans) /\ d > 0 /\ loans[d].queue # <<>> /\ w = loans[d].queue[1]
  BY Zenon DEF PassedOn
<1>e. owner' = w /\ Len(loans') = d /\ \A i \in 1..d - 1 : loans'[i] = loans[i]
  BY Zenon DEF PassedOn
<1>f. /\ loans'[d].lender = loans[d].lender /\ loans'[d].borrower = w
      /\ loans'[d].queue = Tail(loans[d].queue)
  BY Zenon DEF PassedOn
<1>g. depth'[w] = d /\ \A u \in Tasks \ {w} : depth'[u] = depth[u]
  BY Zenon DEF PassedOn
<1>h. pc'[w] = "granted" /\ \A u \in Tasks \ {t, w} : pc'[u] = pc[u]
  BY Zenon DEF PassedOn
<1>k. /\ held' = held /\ draining' = draining /\ pending' = pending /\ waiters' = waiters
      /\ drainer' = drainer /\ violated' = violated
  BY Zenon DEF PassedOn
<1>0. d \in 1..d /\ loans # <<>>
  BY <1>d, SMTT(60) DEF MutexTypeOK
<1>1. /\ loans[d].queue \in Seq(Tasks) /\ Len(loans[d].queue) \in Nat /\ 1 \in 1..Len(loans[d].queue)
      /\ Len(loans'[d].queue) = Len(loans[d].queue) - 1
      /\ \A m \in 1..Len(loans'[d].queue) : loans'[d].queue[m] = loans[d].queue[m + 1]
  <2>1. loans[d].queue \in Seq(Tasks)
    BY <1>0, <1>d, FrameTypes, Zenon
  <2> QED
    BY <1>d, <1>f, <2>1
<1>2. /\ pc[w] = "parked" /\ Awaits(loans[d].lender, w) /\ w # t /\ ~guard[w]
      /\ Live(w) /\ ~Owns(w)
  <2>1. pc[w] = "parked" /\ Awaits(loans[d].lender, w)
    BY <1>0, <1>1, <1>d, Zenon DEF Queues, BorrowersParked
  <2> QED
    BY <1>a, <2>1, Zenon DEF Ownership, OwnersKnown, Live, Owns
<1>3. /\ \A i \in 1..d : loans'[i].lender = loans[i].lender
      /\ \A i \in 1..d - 1 : loans'[i].borrower = loans[i].borrower
  BY <1>0, <1>e, <1>f, SMTT(30)
<1>4. /\ \A i \in 1..d : loans[i].lender \in Tasks /\ loans[i].borrower \in Tasks
      /\ \A i \in 1..d : loans[i].lender # t /\ loans[i].lender # w /\ guard[loans[i].lender]
                         /\ pc[loans[i].lender] = "joining" /\ depth[loans[i].lender] = i - 1
      /\ \A i \in 1..d : Awaits(loans[i].lender, loans[i].borrower)
      /\ \A i \in 1..d - 1 : loans[i].borrower = loans[i + 1].lender
  <2>1. \A i \in 1..d : pc[loans[i].lender] = "joining"
    BY <1>d, BorrowersOwn, Zenon
  <2>2. \A i \in 1..d : loans[i].lender # t /\ loans[i].lender # w
    BY <1>2, <1>a, <2>1, Zenon
  <2>3. /\ \A i \in 1..d : loans[i].lender \in Tasks /\ loans[i].borrower \in Tasks
        /\ \A i \in 1..d : guard[loans[i].lender] /\ depth[loans[i].lender] = i - 1
        /\ \A i \in 1..d : Awaits(loans[i].lender, loans[i].borrower)
    BY <1>d, FrameTypes, BorrowersOwn, Zenon
  <2>4. ASSUME NEW i \in 1..d - 1 PROVE loans[i].borrower = loans[i + 1].lender
    <3>1. i \in 1..Len(loans) /\ i # Len(loans)
      BY <1>d
    <3> QED
      BY <3>1, BorrowersOwn, Zenon
  <2> QED
    BY <2>1, <2>2, <2>3, <2>4, Zenon
<1>5. held /\ ~pending'
  BY <1>0, <1>a, <1>k, Zenon DEF Ownership, OwnerOwns
<1>6. \A u \in Tasks : Owns(u)' <=> u = w \/ (u # t /\ Owns(u))
  BY <1>2, <1>b, <1>h, Zenon DEF Owns
<1>7. OwnersKnown'
  <2>1. ASSUME NEW u \in Tasks, Owns(u)', u # owner'
        PROVE  \E i \in 1..Len(loans') : loans'[i].lender = u
    <3>1. PICK i \in 1..d : loans[i].lender = u
      BY <1>6, <1>a, <1>d, <1>e, <2>1, Zenon DEF Ownership, OwnersKnown
    <3> QED
      BY <1>3, <1>e, <3>1, Zenon
  <2>2. \A u \in Tasks : guard'[u] => pc'[u] \in {"run", "draining", "joining"}
    BY <1>2, <1>b, <1>h, Zenon DEF Ownership, OwnersKnown
  <2> QED
    BY <2>1, <2>2, Zenon DEF OwnersKnown
<1>8. OwnerOwns' /\ ReleaseRecorded'
  BY <1>5, <1>6, <1>e, <1>g, <1>k, Zenon DEF OwnerOwns, ReleaseRecorded
<1>9. LoopOutside'
  BY <1>2, <1>a, <1>h, <1>k, Zenon DEF Ownership, LoopOutside
<1>10. LoansNested'
  <2> SUFFICES ASSUME NEW i \in 1..Len(loans')
               PROVE  /\ loans'[i].borrower = IF i = Len(loans') THEN owner' ELSE loans'[i + 1].lender
                      /\ guard'[loans'[i].lender] /\ pc'[loans'[i].lender] = "joining"
                      /\ depth'[loans'[i].lender] = i - 1
                      /\ Awaits(loans[i].lender, loans[i].borrower)'
    BY <1>k, Zenon DEF LoansNested, Awaits
  <2>1. /\ guard'[loans'[i].lender] /\ pc'[loans'[i].lender] = "joining"
        /\ depth'[loans'[i].lender] = i - 1
    <3>1. i \in 1..d /\ loans'[i].lender = loans[i].lender
      BY <1>3, <1>e, Zenon
    <3>2. /\ loans[i].lender \in Tasks /\ loans[i].lender \notin {t, w}
          /\ guard[loans[i].lender] /\ pc[loans[i].lender] = "joining"
          /\ depth[loans[i].lender] = i - 1
      BY <1>4, <3>1, Zenon
    <3>3. guard'[loans[i].lender] /\ pc'[loans[i].lender] = "joining"
      BY <1>b, <1>h, <3>2, Zenon
    <3>4. depth'[loans[i].lender] = i - 1
      BY <1>g, <3>2, Zenon
    <3> QED
      BY <3>1, <3>3, <3>4, Zenon
  <2>2. CASE i = d
    <3>1. loans'[i].lender = loans[d].lender /\ loans'[i].borrower = w
      BY <1>f, <2>2, Zenon
    <3>2. Awaits(loans[i].lender, loans[i].borrower)'
      BY <1>0, <1>2, <1>4, <1>c, <3>1, Zenon
    <3> QED
      BY <1>e, <2>1, <2>2, <3>1, <3>2, Zenon
  <2>3. CASE i # d
    <3>1. i \in 1..d /\ i \in 1..d - 1 /\ i + 1 \in 1..d /\ loans'[i] = loans[i]
      BY <1>e, <2>3
    <3>2. loans[i].borrower = loans[i + 1].lender /\ loans[i].borrower # t
      BY <1>4, <3>1, Zenon
    <3>3. Awaits(loans[i].lender, loans[i].borrower)'
      <4>1. /\ loans[i].lender \in Tasks /\ loans[i].borrower \in Tasks
            /\ Live(loans[i].borrower) /\ Awaits(loans[i].lender, loans[i].borrower)
        BY <1>4, <1>d, <3>1, BorrowersOwn, Zenon
      <4> QED
        BY <1>c, <3>1, <3>2, <4>1, Zenon
    <3>4. loans'[i].borrower = loans'[i + 1].lender
      BY <1>3, <3>1, <3>2, Zenon
    <3> QED
      BY <1>e, <2>1, <2>3, <3>3, <3>4, ZenonT(60)
  <2> QED
    BY <2>2, <2>3, Zenon
<1>11. FifoParked'
  <2>1. \A j \in 1..Len(waiters) : waiters[j] # w /\ waiters[j] \in Tasks
    BY <1>0, <1>1, <1>d DEF Queues, BorrowersApart, MutexTypeOK
  <2>2. \A j \in 1..Len(waiters) : pc[waiters[j]] = "parked" /\ waiters[j] # t
    BY <1>a, Zenon DEF Queues, FifoParked
  <2> QED
    BY <1>h, <1>k, <2>1, <2>2, SMTT(60) DEF Queues, FifoParked
<1>12. ASSUME NEW i \in 1..Len(loans'), NEW m \in 1..Len(loans'[i].queue)
       PROVE  \E k \in 1..Len(loans[i].queue) :
                 /\ i \in 1..d /\ loans'[i].queue[m] = loans[i].queue[k]
                 /\ k = IF i = d THEN m + 1 ELSE m
  <2>1. CASE i = d
    <3>1. m + 1 \in 1..Len(loans[i].queue) /\ loans'[i].queue[m] = loans[i].queue[m + 1]
      <4>1. m \in 1..Len(loans'[d].queue)
        BY <2>1, Zenon
      <4>2. loans'[d].queue[m] = loans[d].queue[m + 1]
        BY <1>1, <4>1, Zenon
      <4>3. m \in 1..Len(loans[d].queue) - 1
        BY <1>1, <4>1, Zenon
      <4>4. m + 1 \in 1..Len(loans[d].queue)
        BY <1>1, <4>3
      <4> QED
        BY <2>1, <4>2, <4>4, Zenon
    <3> QED
      BY <1>0, <2>1, <3>1, Zenon
  <2>2. CASE i # d
    <3>1. loans'[i] = loans[i] /\ i \in 1..d
      BY <1>e, <2>2, SMTT(30)
    <3> QED
      BY <2>2, <3>1, Zenon
  <2> QED
    BY <2>1, <2>2, Zenon
<1>13. BorrowersParked'
  <2> SUFFICES ASSUME NEW i \in 1..Len(loans'), NEW m \in 1..Len(loans'[i].queue)
               PROVE  /\ pc'[loans'[i].queue[m]] = "parked"
                      /\ Awaits(loans[i].lender, loans[i].queue[m])'
    BY Zenon DEF BorrowersParked
  <2>1. PICK k \in 1..Len(loans[i].queue) :
                 /\ i \in 1..d /\ loans'[i].queue[m] = loans[i].queue[k]
                 /\ k = IF i = d THEN m + 1 ELSE m
    BY <1>12, Zenon
  <2>2. /\ loans[i].lender \in Tasks /\ loans[i].queue[k] \in Tasks
        /\ pc[loans[i].queue[k]] = "parked" /\ Awaits(loans[i].lender, loans[i].queue[k])
    BY <1>d, <2>1, FrameTypes, Zenon DEF Queues, BorrowersParked
  <2>3. i = d => k # 1
    BY <2>1
  <2>4. loans[i].queue[k] # w
    <3>1. d \in 1..Len(loans) /\ 1 \in 1..Len(loans[d].queue) /\ i \in 1..Len(loans)
      BY <1>0, <1>1, <1>d, <2>1, Zenon
    <3>2. loans[i].queue[k] = loans[d].queue[1] => i = d /\ k = 1
      BY <3>1, Zenon DEF Queues, BorrowersApart
    <3> QED
      BY <1>d, <2>3, <3>2, Zenon
  <2>5. Live(loans[i].queue[k]) /\ loans[i].queue[k] # t
    BY <1>a, <2>2, Zenon DEF Live
  <2>6. pc'[loans[i].queue[k]] = "parked" /\ loans'[i].lender = loans[i].lender
    BY <1>3, <1>h, <2>1, <2>2, <2>4, <2>5, Zenon
  <2> QED
    BY <1>c, <2>1, <2>2, <2>5, <2>6, Zenon
<1>14. BorrowersApart'
  <2>1. ASSUME NEW i \in 1..Len(loans'), NEW m \in 1..Len(loans'[i].queue),
               NEW j \in 1..Len(waiters')
        PROVE  waiters'[j] # loans'[i].queue[m]
    <3>1. PICK k \in 1..Len(loans[i].queue) : i \in 1..d /\ loans'[i].queue[m] = loans[i].queue[k]
      BY <1>12, Zenon
    <3>2. waiters[j] # loans[i].queue[k]
      BY <1>d, <1>k, <3>1, ZenonT(60) DEF Queues, BorrowersApart
    <3> QED
      BY <1>k, <3>1, <3>2, Zenon
  <2>2. ASSUME NEW i \in 1..Len(loans'), NEW m \in 1..Len(loans'[i].queue),
               NEW j \in 1..Len(loans'), NEW q \in 1..Len(loans'[j].queue),
               loans'[i].queue[m] = loans'[j].queue[q]
        PROVE  i = j /\ m = q
    <3>1. PICK k \in 1..Len(loans[i].queue) :
                 /\ i \in 1..d /\ loans'[i].queue[m] = loans[i].queue[k]
                 /\ k = IF i = d THEN m + 1 ELSE m
      BY <1>12, Zenon
    <3>2. PICK r \in 1..Len(loans[j].queue) :
                 /\ j \in 1..d /\ loans'[j].queue[q] = loans[j].queue[r]
                 /\ r = IF j = d THEN q + 1 ELSE q
      BY <1>12, Zenon
    <3>3. i = j /\ k = r
      <4>1. loans[i].queue[k] = loans[j].queue[r]
        BY <2>2, <3>1, <3>2, ZenonT(30)
      <4>2. i \in 1..Len(loans) /\ j \in 1..Len(loans)
        BY <1>d, <3>1, <3>2, Zenon
      <4> QED
        BY <4>1, <4>2, Zenon DEF Queues, BorrowersApart
    <3> QED
      BY <3>1, <3>2, <3>3
  <2> QED
    BY <2>1, <2>2, ApartNext, ZenonT(30)
<1> QED
  BY <1>7, <1>8, <1>9, <1>10, <1>11, <1>13, <1>14, Zenon DEF Ownership, Queues

-----------------------------------------------------------------------------
(* unlock() as a whole, and the theorems.                                  *)

(* The releasing task goes on, or is destroyed and leaves no child behind. *)
LEMMA UnlockChains ==
  ASSUME ChainTypeOK, Chains, UNCHANGED chainVars, NEW t \in Tasks, Live(t), pc[t] # "joining",
         pc'[t] \in {"run", "draining", "done"}, pc'[t] = "done" => Children(t) = {},
         \A u \in Tasks \ {t} : Live(u)' <=> Live(u),
         \A u \in Tasks \ {t} : pc[u] = "joining" => pc'[u] = "joining"
  PROVE  /\ ChainTypeOK' /\ Chains'
         /\ \A l, u \in Tasks : u # t /\ Live(u) /\ Awaits(l, u) => Awaits(l, u)'
<1>1. UNCHANGED <<parent, anc, awaited>> /\ ChainTypeOK'
  BY Zenon DEF chainVars, ChainTypeOK
<1>2. \A u \in Tasks : pc[u] = "joining" => pc'[u] = "joining"
  BY Zenon
<1>3. CASE pc'[t] = "done"
  <2>1. ~Live(t)' /\ Children(t) = {}
    BY <1>3, Zenon DEF Live
  <2> QED
    BY <1>1, <1>2, <2>1, ChainsCut, Zenon DEF Chains
<1>4. CASE pc'[t] # "done"
  <2>1. \A u \in Tasks : Live(u)' <=> Live(u)
    BY <1>4, Zenon DEF Live
  <2> QED
    BY <1>1, <1>2, <2>1, ChainsKept, Zenon DEF Chains
<1> QED
  BY <1>3, <1>4, Zenon

(* What grant_next_locked and the wake-up do to the tasks.                 *)
Granted(by, pc0) ==
  /\ Head(waiters) \in Tasks /\ waiters' = Tail(waiters) /\ waiters' \in Seq(Tasks)
  /\ owner' = Head(waiters) /\ held' = held /\ draining' \in BOOLEAN
  /\ inline' \in Tasks \cup {NoTask} /\ drainer' \in Tasks \cup {NoTask}
  /\ depth' \in [Tasks -> Nat] /\ depth'[Head(waiters)] = 0
  /\ pc' \in [Tasks -> Pcs] /\ pc'[Head(waiters)] = "granted"
  /\ \A u \in Tasks \ {by, Head(waiters)} : pc'[u] = pc0[u]
  /\ by \in Tasks \ {Head(waiters)} => pc'[by] \in {pc0[by], "draining"}
  /\ drainer' \in Tasks \ {Head(waiters)} => draining' /\ pc'[drainer'] = "draining"
  /\ drainer' \in {by, NoTask}

(* The hand-off makes the head of the FIFO the owner, wherever it resumes. *)
LEMMA GrantNextFacts ==
  ASSUME MutexTypeOK, TaskTypeOK, waiters # <<>>, NEW by \in Tasks \cup {NoTask},
         NEW pc0 \in [Tasks -> Pcs], GrantNext(by, pc0)
  PROVE  Granted(by, pc0)
<1> DEFINE w == Head(waiters)
<1>1. w \in Tasks /\ Tail(waiters) \in Seq(Tasks)
  BY DEF MutexTypeOK
<1>2. /\ waiters' = Tail(waiters) /\ owner' = w /\ held' = held
      /\ depth' = [depth EXCEPT ![w] = 0]
  BY Zenon DEF GrantNext
<1>3. depth' \in [Tasks -> Nat] /\ depth'[w] = 0
  BY <1>1, <1>2, Zenon DEF TaskTypeOK
<1>4. CASE Home[w] = "blockon"
  <2>1. /\ draining' = FALSE /\ inline' = NoTask /\ drainer' = NoTask
        /\ pc' = [pc0 EXCEPT ![w] = "granted"]
    BY <1>4, Zenon DEF GrantNext
  <2>2. /\ pc' \in [Tasks -> Pcs] /\ pc'[w] = "granted"
        /\ \A u \in Tasks \ {w} : pc'[u] = pc0[u]
    BY <1>1, <2>1, Zenon DEF Pcs
  <2> QED
    BY <1>1, <1>2, <1>3, <2>1, <2>2, TasksAssumption, ZenonT(30) DEF Granted
<1>5. CASE Home[w] # "blockon"
  <2>1. /\ draining' = TRUE /\ drainer' = by
        /\ pc' = [t \in Tasks |-> IF t = w THEN "granted"
                                  ELSE IF t = by THEN "draining" ELSE pc0[t]]
    BY <1>5, Zenon DEF GrantNext
  <2>2. inline' \in Tasks \cup {NoTask}
    BY <1>1, <1>5, Zenon DEF GrantNext
  <2>3. /\ pc' \in [Tasks -> Pcs] /\ pc'[w] = "granted"
        /\ \A u \in Tasks \ {by, w} : pc'[u] = pc0[u]
        /\ by \in Tasks \ {w} => pc'[by] = "draining"
    BY <1>1, <2>1, ZenonT(60) DEF Pcs
  <2> QED
    BY <1>1, <1>2, <1>3, <2>1, <2>2, <2>3, Zenon DEF Granted
<1> QED
  BY <1>4, <1>5, Zenon

(* unlock(): a task that runs and owns the lock is owner_, at the depth of *)
(* the stack, so release_loan's check cannot fire; q is what becomes of    *)
(* the caller.                                                             *)
LEMMA UnlockInv ==
  ASSUME Inv, NEW t \in Tasks, Owns(t), pc[t] \in {"run", "granted"}, NEW q \in {"run", "done"},
         NEW by \in Tasks \cup {NoTask}, by \in Tasks => by = t /\ q = "run",
         q = "done" => Children(t) = {}, guard' \in [Tasks -> BOOLEAN], ~guard'[t],
         \A u \in Tasks \ {t} : guard'[u] = guard[u],
         Unlock(by, depth[t], [pc EXCEPT ![t] = q]), UNCHANGED <<kind, chainVars>>
  PROVE  Inv'
<1> USE DEF Inv, Types
<1> DEFINE d == Len(loans)
           pc0 == [pc EXCEPT ![t] = q]
<1>1. \A i \in 1..d : loans[i].lender # t
  BY BorrowersOwn, ZenonT(60)
<1>2. t = owner /\ depth[t] = d /\ ~pending /\ d \in Nat
  BY <1>1 DEF Ownership, OwnersKnown, OwnerOwns, ReleaseRecorded, MutexTypeOK
<1>3. Live(t) /\ held
  BY <1>2, TasksAssumption, Zenon DEF Live, Ownership, OwnerOwns
<1>4. pc0[t] = q /\ pc0 \in [Tasks -> Pcs] /\ \A u \in Tasks \ {t} : pc0[u] = pc[u]
  BY Zenon DEF TaskTypeOK, Pcs
<1>5. ASSUME pc' = pc0
      PROVE  ChainTypeOK' /\ Chains' /\ LetsGo(t) /\ \A u \in Tasks \ {t} : pc'[u] = pc[u]
  <2>1. /\ pc'[t] = q /\ \A u \in Tasks \ {t} : pc'[u] = pc[u]
        /\ \A u \in Tasks \ {t} : Live(u)' <=> Live(u)
    BY <1>4, <1>5, Zenon DEF Live
  <2>2. /\ ChainTypeOK' /\ Chains'
        /\ \A l, u \in Tasks : u # t /\ Live(u) /\ Awaits(l, u) => Awaits(l, u)'
    BY <1>3, <2>1, UnlockChains, Zenon
  <2> QED
    BY <1>2, <2>1, <2>2, Zenon DEF LetsGo
<1> HIDE DEF pc0
<1>6. CASE /\ d > 0 /\ loans[d].queue = <<>> /\ owner' = loans[d].lender
           /\ loans' = SubSeq(loans, 1, d - 1) /\ pc' = pc0 /\ depth' = depth
           /\ UNCHANGED <<held, draining, pending, waiters, drainer, inline, violated>>
  <2>1. loans[d].lender \in Tasks
    BY <1>2, <1>6, FrameTypes, SMTT(60)
  <2>2. MutexTypeOK' /\ FlagTypeOK'
    BY <1>2, <1>6, <2>1 DEF MutexTypeOK, FlagTypeOK
  <2>3. TaskTypeOK'
    BY <1>4, <1>6, Zenon DEF TaskTypeOK
  <2>4. Returned(t, d)
    BY <1>5, <1>6, Zenon DEF Returned
  <2>5. Ownership' /\ LoansNested' /\ Queues'
    BY <1>2, <1>5, <1>6, <2>4, LoanReturnedInv, Zenon
  <2> QED
    BY <1>5, <1>6, <2>2, <2>3, <2>5, ZenonT(60)
<1>7. CASE /\ d = 0 /\ draining /\ pending' /\ pc' = pc0
           /\ UNCHANGED <<held, owner, draining, waiters, drainer, inline, depth, loans, violated>>
           /\ pending' \in BOOLEAN
  <2>1. loans = <<>>
    BY <1>7, SMTT(60) DEF MutexTypeOK
  <2>2. MutexTypeOK' /\ FlagTypeOK'
    BY <1>7, Zenon DEF MutexTypeOK, FlagTypeOK
  <2>3. TaskTypeOK'
    BY <1>4, <1>7, Zenon DEF TaskTypeOK
  <2>4. Ownership' /\ LoansNested' /\ Queues'
    BY <1>5, <1>7, <2>1, RecordedInv, Zenon
  <2> QED
    BY <1>5, <1>7, <2>2, <2>3, <2>4, ZenonT(60)
<1>8. CASE /\ d = 0 /\ ~draining /\ waiters = <<>> /\ ReleaseLocked /\ pc' = pc0
           /\ UNCHANGED <<draining, pending, drainer, inline, loans, violated>>
  <2>1. loans = <<>> /\ drainer \notin Tasks
    <3>1. loans \in Seq(Frames) /\ Len(loans) = 0
      BY <1>8, Zenon DEF MutexTypeOK
    <3>2. loans = <<>>
      BY ONLY <3>1, SMTT(60)
    <3> QED BY <1>8, <3>2, ZenonT(60) DEF Ownership, LoopOutside
  <2>2. MutexTypeOK' /\ FlagTypeOK'
    BY <1>8, ZenonT(30) DEF ReleaseLocked, MutexTypeOK, FlagTypeOK
  <2>3. TaskTypeOK'
    BY <1>4, <1>8, ZenonT(60) DEF ReleaseLocked, TaskTypeOK
  <2>4. \A u \in Tasks : ~Owns(u)'
    <3>1. LetsGo(t) /\ \A u \in Tasks \ {t} : pc'[u] = pc[u]
      BY <1>5, <1>8, Zenon
    <3>2. 1..Len(loans) = {}
      BY ONLY <2>1, SMT
    <3>3. \A u \in Tasks \ {t} : ~Owns(u)
      BY <1>2, <3>2, ZenonT(60) DEF Ownership, OwnersKnown
    <3>4. ~Owns(t)'
      BY <3>1, ZenonT(60) DEF LetsGo, Owns
    <3> QED BY <3>1, <3>3, <3>4, ZenonT(60) DEF LetsGo, Owns
  <2>5. Ownership' /\ LoansNested' /\ Queues'
    BY <1>2, <1>8, <2>1, <2>4, ReleasedInv, Zenon DEF ReleaseLocked
  <2> QED
    BY <1>5, <1>8, <2>2, <2>3, <2>5, ZenonT(60)
<1>9. CASE /\ d > 0 /\ loans[d].queue # <<>> /\ owner' = Head(loans[d].queue)
           /\ loans' = [loans EXCEPT ![d] = [lender |-> loans[d].lender,
                                             borrower |-> Head(loans[d].queue),
                                             queue |-> Tail(loans[d].queue)]]
           /\ depth' = [depth EXCEPT ![Head(loans[d].queue)] = d]
           /\ pc' = [pc0 EXCEPT ![Head(loans[d].queue)] = "granted"]
           /\ UNCHANGED <<held, draining, pending, waiters, drainer, inline, violated>>
  <2> DEFINE f == loans[d]
             w == Head(f.queue)
             g == [lender |-> f.lender, borrower |-> w, queue |-> Tail(f.queue)]
  <2>1. d \in 1..Len(loans) /\ f.lender \in Tasks /\ f.queue \in Seq(Tasks)
    BY <1>2, <1>9, FrameTypes, SMTT(60)
  <2>2. /\ w \in Tasks /\ w = f.queue[1] /\ 1 \in 1..Len(f.queue)
        /\ Tail(f.queue) \in Seq(Tasks)
    BY <1>9, <2>1, SMTT(30)
  <2>3. g \in Frames /\ g.lender = f.lender /\ g.borrower = w /\ g.queue = Tail(f.queue)
    BY <2>1, <2>2, Zenon DEF Frames
  <2>4. owner' = w /\ loans' = [loans EXCEPT ![d] = g] /\ depth' = [depth EXCEPT ![w] = d]
        /\ pc' = [pc0 EXCEPT ![w] = "granted"]
    BY <1>9, ZenonT(60)
  <2>5. pc[w] = "parked"
    BY <2>1, <2>2, SMTT(60) DEF Queues, BorrowersParked
  <2> HIDE DEF g, w
  <2>6. /\ loans' \in Seq(Frames) /\ Len(loans') = d /\ loans'[d] = g
        /\ \A i \in 1..d - 1 : loans'[i] = loans[i]
    BY <1>2, <2>1, <2>3, <2>4, SMTT(30) DEF MutexTypeOK
  <2>7. /\ depth' \in [Tasks -> Nat] /\ depth'[w] = d
        /\ \A u \in Tasks \ {w} : depth'[u] = depth[u]
    BY <1>2, <2>2, <2>4, Zenon DEF TaskTypeOK
  <2>8. /\ pc' \in [Tasks -> Pcs] /\ pc'[w] = "granted" /\ pc'[t] = q /\ w # t
        /\ \A u \in Tasks \ {t, w} : pc'[u] = pc[u]
    BY <1>4, <2>2, <2>4, <2>5, Zenon DEF Pcs
  <2>9. MutexTypeOK' /\ FlagTypeOK'
    BY <1>9, <2>2, <2>4, <2>6, Zenon DEF MutexTypeOK, FlagTypeOK
  <2>10. TaskTypeOK'
    BY <2>7, <2>8, Zenon DEF TaskTypeOK
  <2>11. /\ ChainTypeOK' /\ Chains'
         /\ \A l, u \in Tasks : u # t /\ Live(u) /\ Awaits(l, u) => Awaits(l, u)'
    <3>1. /\ \A u \in Tasks \ {t} : Live(u)' <=> Live(u)
          /\ \A u \in Tasks \ {t} : pc[u] = "joining" => pc'[u] = "joining"
      BY <2>2, <2>5, <2>8, Zenon DEF Live
    <3>2. pc'[t] \in {"run", "draining", "done"} /\ (pc'[t] = "done" => Children(t) = {})
      BY <2>8, ZenonT(30)
    <3> QED
      BY <1>3, <3>1, <3>2, UnlockChains, ZenonT(30)
  <2>12. LetsGo(t)
    BY <1>2, <2>8, <2>11, Zenon DEF LetsGo
  <2>13. Ownership' /\ LoansNested' /\ Queues'
    <3>1. /\ loans'[d].lender = loans[d].lender /\ loans'[d].borrower = w
          /\ loans'[d].queue = Tail(loans[d].queue)
      BY <2>3, <2>6, Zenon
    <3>2. UNCHANGED <<held, draining, pending, waiters, drainer, violated>>
      BY <1>9, Zenon
    <3>3. /\ d \in Nat /\ d = Len(loans) /\ d > 0 /\ loans[d].queue # <<>>
          /\ w = loans[d].queue[1] /\ owner' = w /\ Len(loans') = d
          /\ \A i \in 1..d - 1 : loans'[i] = loans[i]
      BY <1>2, <1>9, <2>2, <2>4, <2>6, Zenon
    <3> HIDE DEF d, f
    <3>4. PassedOn(t, d, w)
      BY <2>7, <2>8, <3>1, <3>2, <3>3, Zenon DEF PassedOn
    <3> QED
      BY <2>2, <2>12, <3>3, <3>4, LoanPassedOnInv, Zenon
  <2> QED
    BY <2>9, <2>10, <2>11, <2>13, ZenonT(60)
<1>10. CASE /\ d = 0 /\ ~draining /\ waiters # <<>> /\ GrantNext(by, pc0)
            /\ UNCHANGED <<pending, loans, violated>>
  <2> DEFINE w == Head(waiters)
  <2>0. Granted(by, pc0)
    BY <1>4, <1>10, GrantNextFacts, ZenonT(60)
  <2>1. loans = <<>> /\ w \in Tasks /\ w = waiters[1] /\ 1 \in 1..Len(waiters)
    BY <1>10, SMTT(30) DEF MutexTypeOK
  <2>2. pc[w] = "parked" /\ w # t
    BY <2>1, ZenonT(60) DEF Queues, FifoParked
  <2>3. \A u \in Tasks \ {t} : ~Owns(u)
    BY <1>2, <2>1, SMTT(30) DEF Ownership, OwnersKnown
  <2>4. /\ pc' \in [Tasks -> Pcs] /\ pc'[w] = "granted" /\ pc'[t] \in {q, "draining"}
        /\ \A u \in Tasks \ {t, w} : pc'[u] = pc[u]
        /\ pc'[t] = "done" => q = "done"
    <3>1. /\ pc' \in [Tasks -> Pcs] /\ pc'[w] = "granted"
          /\ \A u \in Tasks \ {by, w} : pc'[u] = pc0[u]
          /\ by \in Tasks \ {w} => pc'[by] \in {pc0[by], "draining"}
      BY <2>0, Zenon DEF Granted
    <3> HIDE DEF w
    <3>2. pc'[t] \in {q, "draining"}
      <4>1. CASE by = t
        BY <1>4, <2>2, <3>1, <4>1, Zenon
      <4>2. CASE by # t
        BY <1>4, <2>2, <3>1, <4>2, Zenon
      <4> QED
        BY <4>1, <4>2, Zenon
    <3>3. \A u \in Tasks \ {t, w} : pc'[u] = pc[u]
      BY <1>4, <3>1, Zenon
    <3> QED
      BY <3>1, <3>2, <3>3, Zenon
  <2>5. MutexTypeOK' /\ FlagTypeOK' /\ TaskTypeOK'
    <3>1. MutexTypeOK'
      BY <1>4, <1>10, <2>1, <2>0, Zenon DEF Granted, MutexTypeOK
    <3>2. FlagTypeOK'
      BY <1>4, <1>10, <2>0, Zenon DEF Granted, FlagTypeOK
    <3>3. TaskTypeOK'
      BY <1>4, <1>10, <2>0, Zenon DEF Granted, TaskTypeOK
    <3> QED
      BY <3>1, <3>2, <3>3, Zenon
  <2>6. ChainTypeOK' /\ Chains'
    <3>1. /\ \A u \in Tasks \ {t} : Live(u)' <=> Live(u)
          /\ \A u \in Tasks \ {t} : pc[u] = "joining" => pc'[u] = "joining"
      BY <2>1, <2>2, <2>4, Zenon DEF Live
    <3> QED
      BY <1>3, <2>4, <3>1, UnlockChains, ZenonT(30)
  <2>7. /\ \A u \in Tasks : ~guard'[u]
        /\ \A u \in Tasks \ {w} : pc'[u] # "granted"
        /\ \A u \in Tasks \ {w} : pc[u] = "parked" => pc'[u] = "parked"
    BY <2>3, <2>4, ZenonT(60) DEF Owns
  <2>8. drainer' \in Tasks => draining' /\ pc'[drainer'] = "draining"
    BY <1>4, <1>10, <2>2, <2>0, TasksAssumption, SMTT(30) DEF Granted
  <2>9. Ownership' /\ LoansNested' /\ Queues'
    <3>1. /\ waiters' = Tail(waiters) /\ owner' = w /\ held' = held /\ depth'[w] = 0
      BY <2>0, Zenon DEF Granted
    <3>2. loans' = loans /\ violated' = violated /\ ~pending' /\ waiters # <<>>
      BY <1>2, <1>10, Zenon
    <3> HIDE DEF w
    <3>3. w = Head(waiters)
      BY Zenon DEF w
    <3> QED
      BY <2>1, <2>4, <2>7, <2>8, <3>1, <3>2, <3>3, GrantedInv, Zenon
  <2> QED
    BY <2>5, <2>6, <2>9, Zenon
<1>11. Unlock(by, d, pc0)
  BY <1>2, Zenon DEF pc0
<1>12. CASE d > 0
  <2>0. d # 0
    BY ONLY <1>12, SMT
  <2>1. /\ ReleaseLoan(d, pc0)
        /\ UNCHANGED <<held, draining, pending, waiters, drainer, inline, violated>>
    BY <1>11, <2>0, Zenon DEF Unlock
  <2> QED
    BY <1>6, <1>9, <1>12, <2>1, Zenon DEF ReleaseLoan
<1>13. CASE d = 0
  <2>0. ~(d > 0)
    BY ONLY <1>13, SMT
  <2>1. /\ \/ /\ draining /\ pending' = TRUE /\ pc' = pc0
              /\ UNCHANGED <<held, owner, draining, waiters, drainer, inline, depth>>
           \/ /\ ~draining /\ waiters = <<>> /\ ReleaseLocked /\ pc' = pc0
              /\ UNCHANGED <<draining, pending, drainer, inline>>
           \/ /\ ~draining /\ waiters # <<>> /\ GrantNext(by, pc0)
              /\ UNCHANGED pending
        /\ loans' = loans /\ violated' = violated
    BY <1>11, <1>13, <2>0, Zenon DEF Unlock
  <2> QED
    BY <1>7, <1>8, <1>10, <1>13, <2>1, ZenonT(30)
<1> QED
  BY <1>2, <1>12, <1>13

(* Guard::release calls unlock for the depth the guard was given.          *)
LEMMA ReleaseInv == ASSUME Inv, NEW t \in Tasks, Release(t) PROVE Inv'
<1> USE DEF Inv, Types
<1>1. pc[t] = "run" /\ guard[t] /\ Owns(t) /\ UNCHANGED <<kind, chainVars>>
  BY Zenon DEF Release, Owns
<1>2. /\ guard' \in [Tasks -> BOOLEAN] /\ ~guard'[t]
      /\ \A u \in Tasks \ {t} : guard'[u] = guard[u]
  BY Zenon DEF Release, TaskTypeOK
<1>3. Unlock(t, depth[t], [pc EXCEPT ![t] = "run"])
  <2>1. pc = [pc EXCEPT ![t] = "run"]
    BY <1>1, Zenon DEF TaskTypeOK
  <2>2. Unlock(t, depth[t], pc)
    BY Zenon DEF Release
  <2> QED
    BY <2>1, <2>2, Zenon
<1> QED
  BY <1>1, <1>2, <1>3, UnlockInv, ZenonT(30)

(* A waiter destroyed after it was granted gives the mutex back as its     *)
(* guard would.                                                            *)
LEMMA DropGrantedInv == ASSUME Inv, NEW t \in Tasks, DropGranted(t) PROVE Inv'
<1> USE DEF Inv, Types
<1>1. /\ pc[t] = "granted" /\ Owns(t) /\ Children(t) = {} /\ UNCHANGED <<kind, chainVars>>
      /\ guard' = guard /\ Unlock(NoTask, depth[t], [pc EXCEPT ![t] = "done"])
  BY Zenon DEF DropGranted, Owns
<1>2. /\ guard' \in [Tasks -> BOOLEAN] /\ ~guard'[t]
      /\ \A u \in Tasks \ {t} : guard'[u] = guard[u]
  BY <1>1, Zenon DEF TaskTypeOK, Ownership, OwnersKnown
<1> QED
  BY <1>1, <1>2, UnlockInv, TasksAssumption, ZenonT(30)

(* One turn of the hand-off loop: a pending release is nobody's any more.  *)
LEMMA DrainLoopInv == ASSUME Inv, DrainLoop PROVE Inv'
<1> USE DEF Inv, Types
<1> DEFINE back == [t \in Tasks |-> IF t = drainer THEN "run" ELSE pc[t]]
<1>1. /\ draining /\ held /\ ~pending' /\ pending' \in BOOLEAN
      /\ loans' = loans /\ guard' = guard /\ kind' = kind /\ violated' = violated
      /\ UNCHANGED chainVars
  BY ZenonT(30) DEF DrainLoop, Ownership, LoopOutside
<1>2. /\ back \in [Tasks -> Pcs] /\ drainer \in Tasks \cup {NoTask}
      /\ \A u \in Tasks : u # drainer => back[u] = pc[u]
      /\ drainer \in Tasks => pc[drainer] = "draining" /\ back[drainer] = "run"
  BY Zenon DEF TaskTypeOK, MutexTypeOK, Pcs, Ownership, LoopOutside
<1>3. ASSUME \A u \in Tasks \ {drainer} : Live(u)' <=> Live(u),
             \A u \in Tasks \ {drainer} : pc[u] = "joining" => pc'[u] = "joining",
             drainer \in Tasks => pc'[drainer] \in {"run", "draining"}
      PROVE  ChainTypeOK' /\ Chains' /\ \A l, u \in Tasks : Awaits(l, u) => Awaits(l, u)'
  <2>1. /\ \A u \in Tasks : Live(u)' <=> Live(u)
        /\ \A u \in Tasks : pc[u] = "joining" => pc'[u] = "joining"
    BY <1>2, <1>3, Zenon DEF Live
  <2>2. UNCHANGED <<parent, anc, awaited>> /\ ChainTypeOK'
    BY <1>1, Zenon DEF chainVars, ChainTypeOK
  <2> QED
    BY <2>1, <2>2, ChainsKept, Zenon DEF Chains
<1>4. ASSUME pc' = back
      PROVE  ChainTypeOK' /\ Chains' /\ \A l, u \in Tasks : Awaits(l, u) => Awaits(l, u)'
  BY <1>2, <1>3, <1>4, Zenon DEF Live
<1> HIDE DEF back
<1>5. CASE /\ ~pending /\ ~draining' /\ draining' \in BOOLEAN /\ drainer' = NoTask /\ pc' = back
           /\ UNCHANGED <<held, owner, waiters, depth, inline>>
  <2>1. MutexTypeOK' /\ FlagTypeOK'
    BY <1>1, <1>5, Zenon DEF MutexTypeOK, FlagTypeOK
  <2>2. TaskTypeOK'
    BY <1>1, <1>2, <1>5, Zenon DEF TaskTypeOK
  <2>3. /\ \A u \in Tasks : pc[u] # "draining" => pc'[u] = pc[u]
        /\ \A u \in Tasks : pc'[u] \in {pc[u], "run"}
        /\ \A u \in Tasks : Owns(u)' <=> Owns(u)
    BY <1>1, <1>2, <1>5, Zenon DEF Owns
  <2>4. OwnersKnown'
    BY <1>1, <1>5, <2>3, Zenon DEF Ownership, OwnersKnown
  <2>5. OwnerOwns'
    BY <1>1, <1>5, <2>3, Zenon DEF Ownership, OwnerOwns
  <2>6. ReleaseRecorded' /\ LoopOutside'
    BY <1>1, <1>5, TasksAssumption, Zenon DEF ReleaseRecorded, LoopOutside
  <2>7. LoansNested'
    <3> SUFFICES ASSUME NEW i \in 1..Len(loans)
                 PROVE  /\ pc'[loans[i].lender] = "joining"
                        /\ Awaits(loans[i].lender, loans[i].borrower)'
      BY <1>1, <1>5, Zenon DEF LoansNested, Awaits
    <3>1. /\ loans[i].lender \in Tasks /\ loans[i].borrower \in Tasks
          /\ pc[loans[i].lender] = "joining" /\ Awaits(loans[i].lender, loans[i].borrower)
      BY FrameTypes, BorrowersOwn, ZenonT(60)
    <3> QED
      BY <1>1, <1>4, <1>5, <2>3, <3>1, Zenon
  <2>8. FifoParked'
    BY <1>5, <2>3, SMTT(30) DEF Queues, FifoParked, MutexTypeOK
  <2>9. BorrowersParked'
    <3> SUFFICES ASSUME NEW i \in 1..Len(loans), NEW m \in 1..Len(loans[i].queue)
                 PROVE  /\ pc'[loans[i].queue[m]] = "parked"
                        /\ Awaits(loans[i].lender, loans[i].queue[m])'
      BY <1>1, ZenonT(60) DEF BorrowersParked
    <3>1. /\ loans[i].lender \in Tasks /\ loans[i].queue[m] \in Tasks
          /\ pc[loans[i].queue[m]] = "parked" /\ Awaits(loans[i].lender, loans[i].queue[m])
      BY FrameTypes, ZenonT(60) DEF Queues, BorrowersParked
    <3> QED
      BY <1>1, <1>4, <1>5, <2>3, <3>1, Zenon
  <2>10. BorrowersApart'
    <3>1. loans' = loans /\ waiters' = waiters
      BY <1>1, <1>5, Zenon
    <3>2. BorrowersApart
      BY Zenon DEF Queues
    <3> QED
      BY ONLY <3>1, <3>2, SMTT(60) DEF BorrowersApart
  <2> QED
    BY <1>4, <1>5, <2>1, <2>2, <2>4, <2>5, <2>6, <2>7, <2>8, <2>9, <2>10, Zenon DEF Ownership, Queues
<1>6. CASE /\ pending /\ waiters = <<>> /\ ReleaseLocked /\ ~draining' /\ draining' \in BOOLEAN
           /\ drainer' = NoTask /\ pc' = back /\ inline' = inline
  <2>1. loans = <<>> /\ \A u \in Tasks : ~Owns(u)
    BY <1>6, Zenon DEF Ownership, ReleaseRecorded
  <2>2. \A u \in Tasks : ~Owns(u)'
    BY <1>1, <1>2, <1>6, <2>1, Zenon DEF Owns
  <2>3. MutexTypeOK' /\ FlagTypeOK'
    BY <1>1, <1>6, ZenonT(30) DEF ReleaseLocked, MutexTypeOK, FlagTypeOK
  <2>4. TaskTypeOK'
    BY <1>1, <1>2, <1>6, Zenon DEF ReleaseLocked, TaskTypeOK
  <2>5. Ownership' /\ LoansNested' /\ Queues'
    BY <1>1, <1>6, <2>1, <2>2, ReleasedInv, TasksAssumption, Zenon DEF ReleaseLocked
  <2> QED
    BY <1>4, <1>6, <2>3, <2>4, <2>5, Zenon
<1>7. CASE pending /\ waiters # <<>> /\ GrantNext(drainer, back)
  <2> DEFINE w == Head(waiters)
  <2>0. Granted(drainer, back)
    BY <1>2, <1>7, GrantNextFacts, ZenonT(30)
  <2>1. w \in Tasks /\ w = waiters[1] /\ 1 \in 1..Len(waiters)
    BY <1>7, SMTT(30) DEF MutexTypeOK
  <2>2. pc[w] = "parked" /\ w # drainer
    BY <1>2, <2>1, Zenon DEF Queues, FifoParked
  <2>3. loans = <<>> /\ \A u \in Tasks : ~Owns(u)
    BY <1>7, Zenon DEF Ownership, ReleaseRecorded
  <2>4. /\ pc' \in [Tasks -> Pcs] /\ pc'[w] = "granted"
        /\ drainer \in Tasks => pc'[drainer] \in {"run", "draining"}
        /\ \A u \in Tasks \ {drainer, w} : pc'[u] = pc[u]
    BY <1>2, <2>0, <2>2, Zenon DEF Granted
  <2>5. MutexTypeOK'
    BY <1>1, <1>2, <1>7, <2>0, Zenon DEF Granted, MutexTypeOK
  <2>6. FlagTypeOK'
    BY <1>1, <1>2, <1>7, <2>0, Zenon DEF Granted, FlagTypeOK
  <2>7. TaskTypeOK'
    BY <1>1, <1>2, <1>7, <2>0, Zenon DEF Granted, TaskTypeOK
  <2>8. ChainTypeOK' /\ Chains'
    <3>1. /\ \A u \in Tasks \ {drainer} : Live(u)' <=> Live(u)
          /\ \A u \in Tasks \ {drainer} : pc[u] = "joining" => pc'[u] = "joining"
      BY <2>1, <2>2, <2>4, Zenon DEF Live
    <3> QED
      BY <1>3, <2>4, <3>1, Zenon
  <2>9. /\ \A u \in Tasks : ~guard'[u]
        /\ \A u \in Tasks \ {w} : pc'[u] # "granted"
        /\ \A u \in Tasks \ {w} : pc[u] = "parked" => pc'[u] = "parked"
    BY <1>1, <1>2, <2>3, <2>4, ZenonT(60) DEF Owns
  <2>10. drainer' \in Tasks => draining' /\ pc'[drainer'] = "draining"
    BY <1>2, <1>7, <2>2, <2>0, TasksAssumption, SMTT(30) DEF Granted
  <2>11. Ownership' /\ LoansNested' /\ Queues'
    <3>1. /\ waiters' = Tail(waiters) /\ owner' = w /\ held' = held /\ depth'[w] = 0
      BY <2>0, Zenon DEF Granted
    <3>2. waiters # <<>> /\ w = Head(waiters)
      BY <1>7, Zenon
    <3> HIDE DEF w
    <3> QED
      BY <1>1, <2>1, <2>3, <2>4, <2>9, <2>10, <3>1, <3>2, GrantedInv, Zenon
  <2> QED
    BY <2>5, <2>6, <2>7, <2>8, <2>11, Zenon
<1> QED
  BY <1>5, <1>6, <1>7, ZenonT(30) DEF DrainLoop, back

-----------------------------------------------------------------------------

(* A free mutex and the root tasks satisfy the invariant.                  *)
LEMMA InitInv == Init => Inv
<1> SUFFICES ASSUME Init PROVE Inv
  BY Zenon
<1> USE DEF Init
<1>1. MutexTypeOK /\ FlagTypeOK
  <2>1. waiters \in Seq(Tasks) /\ loans \in Seq(Frames)
    OBVIOUS
  <2>2. MutexTypeOK
    BY <2>1, Zenon DEF MutexTypeOK
  <2>3. FlagTypeOK
    BY ZenonT(30) DEF FlagTypeOK
  <2> QED
    BY <2>2, <2>3, Zenon
<1>2. TaskTypeOK
  BY Zenon DEF TaskTypeOK, Pcs, Kinds
<1>3. ChainTypeOK
  BY Zenon DEF ChainTypeOK
<1>4. Chains
  BY Zenon DEF Chains, AwaitedEdges, Ancestry
<1>5. \A t \in Tasks : ~guard[t] /\ ~Owns(t)
  BY ZenonT(30) DEF Owns
<1>6. Ownership
  BY <1>5, TasksAssumption, ZenonT(60) DEF Ownership, OwnersKnown, OwnerOwns, ReleaseRecorded, LoopOutside
<1>7. LoansNested /\ Queues
  BY SMTT(30) DEF LoansNested, Queues, FifoParked, BorrowersParked, BorrowersApart
<1> QED
  BY <1>1, <1>2, <1>3, <1>4, <1>6, <1>7, Zenon DEF Inv, Types

(* A step that leaves all variables alone keeps the invariant.             *)
LEMMA UnchangedInv == ASSUME Inv, UNCHANGED vars PROVE Inv'
<1> USE DEF Inv, Types, vars, mutexVars, taskVars, chainVars
<1>1. Types'
  BY Zenon DEF MutexTypeOK, FlagTypeOK, TaskTypeOK, ChainTypeOK
<1>2. AwaitedEdges' /\ Ancestry'
  <2>1. AwaitedEdges'
    BY Zenon DEF Chains, AwaitedEdges, Live
  <2>2. Ancestry'
    BY SMTT(30) DEF Chains, Ancestry, Live
  <2> QED
    BY <2>1, <2>2, Zenon
<1>3. Ownership'
  BY Zenon DEF Ownership, OwnersKnown, OwnerOwns, ReleaseRecorded, LoopOutside, Owns
<1>4. LoansNested'
  BY ZenonT(60) DEF LoansNested, Live
<1>5. Queues'
  <2>1. FifoParked'
    BY Zenon DEF Queues, FifoParked
  <2>2. BorrowersParked'
    BY ZenonT(60) DEF Queues, BorrowersParked, Awaits, Live
  <2>3. loans' = loans /\ waiters' = waiters /\ BorrowersApart
    BY Zenon DEF Queues
  <2>4. BorrowersApart'
    BY <2>3, ApartKept, Zenon
  <2> QED
    BY <2>1, <2>2, <2>4, Zenon DEF Queues
<1> QED
  BY <1>1, <1>2, <1>3, <1>4, <1>5, Zenon DEF Chains

(* Every step keeps the invariant, provided no task awaits a child while   *)
(* its release is only recorded (pending_release_).                        *)
LEMMA NextInv == ASSUME ~AwaitWhilePending, Inv, [Next]_vars PROVE Inv'
<1>1. ASSUME NEW t \in Tasks, Step(t) PROVE Inv'
  <2>1. ASSUME NEW k \in Kinds, AwaitReady(t, k) PROVE Inv'
    BY <2>1, AwaitReadyInv, Zenon
  <2>2. CASE AwaitSuspend(t)
    BY <2>2, AwaitSuspendInv, Zenon
  <2>3. CASE TryLock(t)
    BY <2>3, TryLockInv, Zenon
  <2>4. CASE AwaitResume(t)
    BY <2>4, AwaitResumeInv, Zenon
  <2>5. CASE Release(t)
    BY <2>5, ReleaseInv, Zenon
  <2>6. CASE DropParked(t)
    BY <2>6, DropParkedInv, Zenon
  <2>7. CASE DropGranted(t)
    BY <2>7, DropGrantedInv, Zenon
  <2>8. ASSUME NEW S \in SUBSET (Tasks \ Roots), ForkAwaited(t, S) PROVE Inv'
    BY <2>8, ForkAwaitedInv, Zenon
  <2>9. ASSUME NEW c \in Tasks \ Roots, ForkScoped(t, c) PROVE Inv'
    BY <2>9, ForkScopedInv, Zenon
  <2>10. CASE Join(t)
    BY <2>10, JoinInv, ZenonT(60)
  <2>11. CASE Joined(t)
    BY <2>11, JoinedInv, Zenon
  <2>12. CASE Finish(t)
    BY <2>12, FinishInv, Zenon
  <2>13. CASE SuspendElsewhere(t)
    BY <2>13, SuspendElsewhereInv, Zenon
  <2> QED
    BY <1>1, <2>1, <2>2, <2>3, <2>4, <2>5, <2>6, <2>7, <2>8, <2>9, <2>10, <2>11, <2>12, <2>13, Zenon
    DEF Step
<1>2. CASE DrainLoop
  BY <1>2, DrainLoopInv, Zenon
<1>3. CASE Quiet \/ UNCHANGED vars
  BY <1>3, UnchangedInv, Zenon DEF Quiet
<1> QED
  BY <1>1, <1>2, <1>3, Zenon DEF Next

(* Inv is an invariant, for any tasks, roots and homes.                    *)
THEOREM Invariance == ASSUME ~AwaitWhilePending PROVE Spec => []Inv
<1>1. Inv /\ [Next]_vars => Inv'
  BY NextInv, Zenon
<1> QED
  BY <1>1, InitInv, PTL DEF Spec

(* Every variable of the mutex and of its tasks keeps its type.            *)
THEOREM TypeCorrect == ASSUME ~AwaitWhilePending PROVE Spec => []TypeOK
<1>1. Inv => TypeOK
  BY Zenon DEF Inv, Types, TypeOK
<1> QED
  BY <1>1, Invariance, PTL

(* "One session, one executor": whatever mix of lock(), try_lock(), loans, *)
(* hand-offs and destroyed waiters, at most one task that was granted the  *)
(* lock and has not released it is not suspended awaiting its children.    *)
THEOREM OneSessionOneExecutor == ASSUME ~AwaitWhilePending PROVE Spec => []OneExecutor
<1>1. ASSUME Inv PROVE OneExecutor
  <2>1. ASSUME NEW t \in Tasks, Owns(t), pc[t] # "joining" PROVE t = owner
    <3>1. \A i \in 1..Len(loans) : loans[i].lender # t
      BY <1>1, <2>1, BorrowersOwn, Zenon DEF Inv, Types
    <3> QED
      BY <1>1, <2>1, <3>1, Zenon DEF Inv, Ownership, OwnersKnown
  <2> QED
    BY <2>1, Zenon DEF OneExecutor
<1> QED
  BY <1>1, Invariance, PTL

(* The loan stack stays nested, so release_loan's check that a guard is    *)
(* released on top of the stack never fires.                               *)
THEOREM LoanStackNested == ASSUME ~AwaitWhilePending PROVE Spec => []LoansNested
<1>1. Inv => LoansNested
  BY Zenon DEF Inv
<1> QED
  BY <1>1, Invariance, PTL

(* While the mutex is held, its owner or a hand-off loop with the owner's  *)
(* release recorded is still going to release it; a free one has no queue. *)
THEOREM HandoffNotLost == ASSUME ~AwaitWhilePending PROVE Spec => []NoLostHandoff
<1>1. Inv => NoLostHandoff
  BY Zenon DEF Inv, Ownership, OwnerOwns, ReleaseRecorded, NoLostHandoff
<1> QED
  BY <1>1, Invariance, PTL

-----------------------------------------------------------------------------
(* No barging.                                                             *)

(* t does not come to own the lock at depth 0 ahead of the FIFO's head.    *)
InTurn(t) ==
    ~Owns(t) /\ Owns(t)' /\ depth'[t] = 0 => waiters = <<>> \/ t = Head(waiters)

(* unlock() makes nobody an owner at depth 0 but the head of the FIFO: a   *)
(* loan passed on is owned at the depth of its frame, and everybody else   *)
(* is left where the caller's own step pc0 put them.                       *)
LEMMA UnlockInTurn ==
  ASSUME Types, NEW d \in Nat, NEW by \in Tasks \cup {NoTask}, NEW pc0 \in [Tasks -> Pcs],
         Unlock(by, d, pc0), \A u \in Tasks : pc0[u] = "granted" => pc[u] = "granted",
         \A u \in Tasks : guard'[u] => guard[u]
  PROVE  \A t \in Tasks : InTurn(t)
<1> USE DEF Types
<1>1. CASE pc' = pc0
  BY <1>1, Zenon DEF InTurn, Owns
<1>2. CASE d = Len(loans) /\ d > 0 /\ ReleaseLoan(d, pc0) /\ loans[d].queue # <<>>
  <2> DEFINE w == Head(loans[d].queue)
  <2>1. loans[d].queue \in Seq(Tasks)
    BY <1>2, FrameTypes, SMTT(60)
  <2>2. w \in Tasks
    BY <1>2, <2>1
  <2>3. depth' = [depth EXCEPT ![w] = d] /\ pc' = [pc0 EXCEPT ![w] = "granted"]
    BY <1>2, Zenon DEF ReleaseLoan
  <2>4. d # 0
    BY ONLY <1>2, SMT
  <2> HIDE DEF w
  <2>5. depth'[w] = d /\ \A u \in Tasks \ {w} : pc'[u] = pc0[u]
    BY <2>2, <2>3, Zenon DEF TaskTypeOK
  <2> QED
    BY <2>4, <2>5, ZenonT(60) DEF InTurn, Owns
<1>3. CASE waiters # <<>> /\ GrantNext(by, pc0)
  <2>1. Granted(by, pc0)
    BY <1>3, GrantNextFacts, Zenon
  <2>2. \A u \in Tasks \ {Head(waiters)} : pc'[u] \in {pc0[u], "draining"}
    BY <2>1, Zenon DEF Granted
  <2> QED
    BY <2>2, Zenon DEF InTurn, Owns
<1> QED
  BY <1>1, <1>2, <1>3, Zenon DEF Unlock, ReleaseLoan

(* A request answered at once takes a free mutex, whose FIFO is empty, or  *)
(* borrows at a depth above 0.                                             *)
LEMMA DecideInTurn ==
  ASSUME Inv, NEW t \in Tasks, NEW k \in Kinds, Decide(t, classify(t, k).decision),
         \A u \in Tasks : pc'[u] = "granted" => pc[u] = "granted"
  PROVE  \A u \in Tasks : InTurn(u)
<1> USE DEF Inv, Types
<1>1. CASE ~held
  BY <1>1, Zenon DEF InTurn, Ownership, OwnerOwns
<1>2. CASE Lend(t)
  <2>1. Len(loans) + 1 \in Nat /\ Len(loans) + 1 # 0
    BY DEF MutexTypeOK
  <2>2. depth'[t] = Len(loans) + 1 /\ guard' = [guard EXCEPT ![t] = TRUE]
    BY <1>2, Zenon DEF Lend, TaskTypeOK
  <2>3. \A u \in Tasks \ {t} : guard'[u] = guard[u]
    BY <2>2, Zenon DEF TaskTypeOK
  <2> QED
    BY <2>1, <2>2, <2>3, Zenon DEF InTurn, Owns
<1>3. CASE Refuse
  BY <1>3, Zenon DEF Refuse, InTurn, Owns
<1> QED
  BY <1>1, <1>2, <1>3, Decisions, Zenon DEF Decide

(* Every step of the mutex and of its tasks serves the FIFO in turn.       *)
LEMMA NextInTurn == ASSUME Inv, [Next]_vars PROVE \A t \in Tasks : InTurn(t)
<1> USE DEF Inv, Types
<1>1. ASSUME guard' = guard, \A u \in Tasks : pc'[u] = "granted" => pc[u] = "granted"
      PROVE  \A u \in Tasks : InTurn(u)
  BY <1>1, Zenon DEF InTurn, Owns
<1>2. ASSUME NEW t \in Tasks, Step(t) PROVE \A u \in Tasks : InTurn(u)
  <2>1. ASSUME NEW k \in Kinds, AwaitReady(t, k) PROVE \A u \in Tasks : InTurn(u)
    <3>1. CASE Decide(t, classify(t, k).decision) /\ pc' = pc
      BY <3>1, DecideInTurn, Zenon
    <3>2. CASE pc' = [pc EXCEPT ![t] = "suspending"] /\ guard' = guard
      BY <1>1, <3>2, Zenon DEF TaskTypeOK
    <3> QED
      BY <2>1, <3>1, <3>2, Zenon DEF AwaitReady
  <2>2. CASE AwaitSuspend(t)
    <3>1. CASE Decide(t, classify(t, kind[t]).decision) /\ pc' = [pc EXCEPT ![t] = "run"]
      <4>1. kind[t] \in Kinds /\ \A u \in Tasks : pc'[u] = "granted" => pc[u] = "granted"
        BY <3>1, Zenon DEF TaskTypeOK
      <4> QED
        BY <3>1, <4>1, DecideInTurn, Zenon
    <3>2. CASE pc' = [pc EXCEPT ![t] = "parked"] /\ guard' = guard
      BY <1>1, <3>2, Zenon DEF TaskTypeOK
    <3> QED
      BY <2>2, <3>1, <3>2, Zenon DEF AwaitSuspend
  <2>3. CASE TryLock(t)
    BY <2>3, Zenon DEF TryLock, InTurn, Ownership, OwnerOwns
  <2>4. CASE AwaitResume(t)
    <3>1. /\ \A u \in Tasks : pc'[u] = "granted" => pc[u] = "granted"
          /\ \A u \in Tasks \ {t} : guard'[u] = guard[u]
          /\ Owns(t)
      BY <2>4, Zenon DEF AwaitResume, TaskTypeOK, Owns
    <3> QED
      BY <3>1, Zenon DEF InTurn, Owns
  <2>5. CASE Release(t)
    <3>1. Unlock(t, depth[t], pc) /\ \A u \in Tasks : guard'[u] => guard[u]
      BY <2>5, Zenon DEF Release, TaskTypeOK
    <3>2. depth[t] \in Nat /\ pc \in [Tasks -> Pcs]
      BY Zenon DEF TaskTypeOK
    <3> QED
      BY <3>1, <3>2, UnlockInTurn, Zenon
  <2>6. CASE DropParked(t)
    BY <1>1, <2>6, Zenon DEF DropParked, TaskTypeOK
  <2>7. CASE DropGranted(t)
    <3> DEFINE pc0 == [pc EXCEPT ![t] = "done"]
    <3>1. Unlock(NoTask, depth[t], pc0) /\ \A u \in Tasks : guard'[u] => guard[u]
      BY <2>7, Zenon DEF DropGranted
    <3>2. depth[t] \in Nat /\ pc0 \in [Tasks -> Pcs]
          /\ \A u \in Tasks : pc0[u] = "granted" => pc[u] = "granted"
      BY Zenon DEF TaskTypeOK, Pcs
    <3> HIDE DEF pc0
    <3> QED
      BY <3>1, <3>2, UnlockInTurn, Zenon
  <2>8. ASSUME NEW S \in SUBSET (Tasks \ Roots), ForkAwaited(t, S)
        PROVE  \A u \in Tasks : InTurn(u)
    BY <1>1, <2>8, Zenon DEF ForkAwaited, Fork
  <2>9. ASSUME NEW c \in Tasks \ Roots, ForkScoped(t, c) PROVE \A u \in Tasks : InTurn(u)
    BY <1>1, <2>9, Zenon DEF ForkScoped, Fork, TaskTypeOK
  <2>10. CASE Join(t) \/ Joined(t) \/ Finish(t) \/ SuspendElsewhere(t)
    BY <1>1, <2>10, Zenon DEF Join, Joined, Finish, SuspendElsewhere, TaskTypeOK
  <2> QED
    BY <1>2, <2>1, <2>2, <2>3, <2>4, <2>5, <2>6, <2>7, <2>8, <2>9, <2>10, ZenonT(60) DEF Step
<1>3. CASE DrainLoop
  <2> DEFINE back == [t \in Tasks |-> IF t = drainer THEN "run" ELSE pc[t]]
  <2>1. guard' = guard /\ drainer \in Tasks \cup {NoTask}
    BY <1>3, Zenon DEF DrainLoop, MutexTypeOK
  <2>2. back \in [Tasks -> Pcs] /\ \A u \in Tasks : back[u] = "granted" => pc[u] = "granted"
    BY Zenon DEF TaskTypeOK, Pcs
  <2>3. pc' = back \/ (waiters # <<>> /\ GrantNext(drainer, back))
    BY <1>3, Zenon DEF DrainLoop
  <2> HIDE DEF back
  <2>4. CASE pc' = back
    BY <1>1, <2>1, <2>2, <2>4, Zenon
  <2>5. CASE waiters # <<>> /\ GrantNext(drainer, back)
    <3>1. Granted(drainer, back)
      BY <2>1, <2>2, <2>5, GrantNextFacts, Zenon
    <3>2. \A u \in Tasks \ {Head(waiters)} : pc'[u] \in {back[u], "draining"}
      BY <3>1, Zenon DEF Granted
    <3> QED
      BY <2>1, <2>2, <3>2, Zenon DEF InTurn, Owns
  <2> QED
    BY <2>3, <2>4, <2>5, Zenon
<1>4. CASE Quiet \/ UNCHANGED vars
  BY <1>1, <1>4, Zenon DEF Quiet, vars, taskVars
<1> QED
  BY <1>2, <1>3, <1>4, Zenon DEF Next

(* No barging: lock()'s fast path, try_lock(), the hand-off loop and the   *)
(* destroyed waiters give the lock at depth 0 to the head of the FIFO, or  *)
(* to anybody when nobody waits.                                           *)
THEOREM ServedInTurn == ASSUME ~AwaitWhilePending PROVE Spec => NoBarging
<1>1. Inv /\ [Next]_vars => [\A t \in Tasks :
          ~Owns(t) /\ Owns(t)' /\ depth'[t] = 0
              => waiters = <<>> \/ t = Head(waiters)]_vars
  BY NextInTurn, Zenon DEF InTurn
<1> QED
  BY <1>1, Invariance, PTL DEF Spec, NoBarging

=============================================================================
