----------------------------- MODULE LanesProofs ----------------------------
(***************************************************************************)
(* The strand scheduler (rt/lanes.hpp) for every set of strands, groups,   *)
(* items and workers: a strand is served by at most one worker, no work    *)
(* that could run is left without a worker that is awake or about to be    *)
(* notified, and a worker that finds priority work takes it before         *)
(* anything else. The invariant behind them says that the four queues      *)
(* agree with their flags: a group's ready_ with the strands' in_ready_,   *)
(* ready_groups_ with the groups' in_ready_, priority_ with the ready      *)
(* strands that have priority items, and priority_items_ with those items. *)
(***************************************************************************)
EXTENDS Lanes, FiniteSetTheorems, WellFoundedInduction, TLAPS

(* q holds nothing twice.                                                  *)
Distinct(q) == \A i, k \in 1..Len(q) : q[i] = q[k] => i = k

(* The priority items of a strand's queue.                                 *)
Count(q) == Cardinality({j \in 1..Len(q) : q[j].priority})

(* Some worker has not left.                                               *)
Alive == \E w \in Workers : wpc[w] # "exit"

(* The strands that wait for a worker.                                     *)
ReadySet == {s \in Strands : inReady[s]}

(* The workers that are about to look for work.                            *)
Pickers == {w \in Workers : wpc[w] = "pick"}

(* The types the proof needs.                                              *)
LanesTypeOK ==
    /\ queue \in [Strands -> Seq(Entry)] /\ prioItems \in [Strands -> Nat]
    /\ running \in [Strands -> BOOLEAN] /\ inReady \in [Strands -> BOOLEAN]
    /\ inPriority \in [Strands -> BOOLEAN]
    /\ ready \in [Groups -> Seq(Strands)] /\ groupInReady \in [Groups -> BOOLEAN]
    /\ readyGroups \in Seq(Groups) /\ priority \in Seq(Strands)
    /\ wpc \in [Workers -> {"pick", "wait", "slice", "exit"}]
    /\ cur \in [Workers -> Entry \cup {NoEntry}] /\ notifies \in Nat

(* A strand's queue holds its own items.                                   *)
QueuesOwn == \A s \in Strands : \A j \in 1..Len(queue[s]) : StrandOf[queue[s][j].item] = s

(* A worker in a slice serves a strand marked running.                     *)
SlicesRun ==
    \A w \in Workers : wpc[w] = "slice" => cur[w] \in Entry /\ running[StrandOf[cur[w].item]]

(* priority_items_ counts the queued priority items and the one being      *)
(* served.                                                                 *)
PriorityCounted ==
    /\ \A s \in Strands : ~running[s] => prioItems[s] = Count(queue[s])
    /\ \A w \in Workers : wpc[w] = "slice" =>
         prioItems[StrandOf[cur[w].item]] =
             Count(queue[StrandOf[cur[w].item]]) + IF cur[w].priority THEN 1 ELSE 0

(* A group's ready list holds its ready strands, each once, each idle and  *)
(* with work.                                                              *)
ReadyExact ==
    /\ \A s \in Strands : inReady[s] <=> s \in Elems(ready[GroupOf[s]])
    /\ \A g \in Groups : /\ Distinct(ready[g])
                         /\ \A s \in Elems(ready[g]) : GroupOf[s] = g
                         /\ groupInReady[g] <=> ready[g] # <<>>
    /\ \A s \in Strands : inReady[s] => ~running[s] /\ queue[s] # <<>>
    /\ IsFiniteSet(ReadySet)

(* The ready groups are listed once each, while anybody serves them.       *)
GroupsExact ==
    Alive => /\ Distinct(readyGroups)
             /\ \A g \in Groups : groupInReady[g] <=> g \in Elems(readyGroups)

(* A strand with priority work that waits for a worker is in priority_.    *)
PriorityListed ==
    Alive => \A s \in Strands :
                /\ inPriority[s] => s \in Elems(priority)
                /\ Servable(s) => s \in Elems(priority)

(* The inductive invariant of the scheduler.                               *)
LanesInv ==
    /\ LanesTypeOK /\ QueuesOwn /\ SlicesRun /\ PriorityCounted /\ ReadyExact
    /\ GroupsExact /\ PriorityListed /\ StrandSerial /\ NoLostWakeup

-----------------------------------------------------------------------------
(* A set of numbers has a least element.                                   *)
LEMMA LeastNumber ==
  ASSUME NEW T, T \subseteq Nat, T # {}
  PROVE  \E x \in T : \A y \in T : x <= y
<1>1. PICK R : R = OpToRel(<, Nat)
  BY Zenon
<1>2. IsWellFoundedOn(R, Nat)
  BY <1>1, NatLessThanWellFounded, Zenon
<1>3. PICK x \in T : \A y \in T : ~(<<y, x>> \in R)
  BY <1>2, WFMin, ZenonT(60)
<1>4. ASSUME NEW y \in T PROVE x <= y
  <2>1. <<y, x>> \in Nat \X Nat /\ <<y, x>>[1] = y /\ <<y, x>>[2] = x
    BY <1>4
  <2>2. ~(y < x)
    BY <1>1, <1>3, <2>1, Zenon DEF OpToRel
  <2> QED BY <2>2
<1> QED BY <1>4

(* Only the empty sequence has no elements.                                *)
LEMMA NoElements == ASSUME NEW S, NEW q \in Seq(S) PROVE Elems(q) = {} <=> q = <<>>
<1>1. q # <<>> => 1 \in 1..Len(q)
  OBVIOUS
<1>2. q = <<>> => 1..Len(q) = {}
  OBVIOUS
<1> QED BY <1>1, <1>2, Zenon DEF Elems

(* The elements of a sequence that grows at its end.                       *)
LEMMA AppendElements ==
  ASSUME NEW S, NEW q \in Seq(S), NEW x \in S
  PROVE  /\ Append(q, x) \in Seq(S) /\ Append(q, x) # <<>>
         /\ Elems(Append(q, x)) = Elems(q) \cup {x}
         /\ Distinct(q) /\ x \notin Elems(q) => Distinct(Append(q, x))
<1>1. PICK t : t = Append(q, x)
  BY Zenon
<1>2. /\ t \in Seq(S) /\ t # <<>> /\ Len(t) = Len(q) + 1 /\ Len(q) \in Nat
      /\ \A i \in 1..Len(q) : t[i] = q[i] /\ i \in 1..Len(t)
      /\ t[Len(q) + 1] = x /\ Len(q) + 1 \in 1..Len(t)
      /\ \A i \in 1..Len(t) : i \in 1..Len(q) \/ i = Len(q) + 1
  BY <1>1
<1>3. Elems(t) = Elems(q) \cup {x}
  BY ONLY <1>2, Zenon DEF Elems
<1>4. ASSUME Distinct(q), x \notin Elems(q), NEW i \in 1..Len(t), NEW k \in 1..Len(t), t[i] = t[k]
      PROVE  i = k
  <2>1. \A n \in 1..Len(q) : q[n] # x
    BY <1>4, ZenonT(60) DEF Elems
  <2>2. CASE i \in 1..Len(q) /\ k \in 1..Len(q)
    BY <1>2, <1>4, <2>2, ZenonT(60) DEF Distinct
  <2>3. CASE i = Len(q) + 1
    BY <1>2, <1>4, <2>1, <2>3, ZenonT(60)
  <2>4. CASE k = Len(q) + 1
    BY <1>2, <1>4, <2>1, <2>4, ZenonT(60)
  <2> QED BY <1>2, <2>2, <2>3, <2>4, ZenonT(60)
<1> QED BY <1>1, <1>2, <1>3, <1>4, ZenonT(60) DEF Distinct

(* The elements of a sequence that loses its head.                         *)
LEMMA TailElements ==
  ASSUME NEW S, NEW q \in Seq(S), q # <<>>
  PROVE  /\ Head(q) \in S /\ Head(q) \in Elems(q) /\ Tail(q) \in Seq(S)
         /\ Elems(q) = Elems(Tail(q)) \cup {Head(q)}
         /\ Tail(q) # <<>> <=> Len(q) > 1
         /\ Distinct(q) => Distinct(Tail(q)) /\ Head(q) \notin Elems(Tail(q))
<1>1. PICK t, h : t = Tail(q) /\ h = Head(q)
  BY Zenon
<1>2. /\ h \in S /\ h = q[1] /\ 1 \in 1..Len(q) /\ t \in Seq(S)
      /\ \A i \in 1..Len(t) : /\ i + 1 \in 1..Len(q) /\ t[i] = q[i + 1] /\ i + 1 # 1 /\ i \in Nat
      /\ \A i \in 1..Len(q) : i = 1 \/ (i - 1 \in 1..Len(t) /\ (i - 1) + 1 = i)
      /\ t # <<>> <=> Len(q) > 1
  <2>1. h \in S /\ h = q[1] /\ 1 \in 1..Len(q) /\ t \in Seq(S) /\ Len(q) \in Nat
    BY <1>1
  <2>2. Len(t) = Len(q) - 1 /\ \A i \in 1..Len(t) : t[i] = q[i + 1]
    BY <1>1
  <2>3. t # <<>> <=> Len(t) # 0
    BY <2>1
  <2> QED BY ONLY <2>1, <2>2, <2>3, SMT
<1>3. h \in Elems(q)
  BY <1>2, Zenon DEF Elems
<1>4. \A x \in Elems(t) : x \in Elems(q)
  <2> SUFFICES ASSUME NEW x \in Elems(t) PROVE x \in Elems(q)
    BY Zenon
  <2>1. PICK i \in 1..Len(t) : x = t[i]
    BY Zenon DEF Elems
  <2>2. x = q[i + 1] /\ i + 1 \in 1..Len(q)
    BY <1>2, <2>1, Zenon
  <2> QED BY <2>2, Zenon DEF Elems
<1>5. ASSUME NEW x \in Elems(q) PROVE x \in Elems(t) \cup {h}
  <2>1. PICK i \in 1..Len(q) : x = q[i]
    BY <1>5, Zenon DEF Elems
  <2>2. CASE i = 1
    BY <1>2, <2>1, <2>2, Zenon
  <2>3. CASE i # 1
    <3>1. i - 1 \in 1..Len(t) /\ (i - 1) + 1 = i
      BY <1>2, <2>3, ZenonT(60)
    <3>2. t[i - 1] = x
      BY <1>2, <2>1, <3>1, ZenonT(60)
    <3> QED BY <3>1, <3>2, Zenon DEF Elems
  <2> QED BY <2>2, <2>3
<1>6. ASSUME Distinct(q) PROVE Distinct(t) /\ h \notin Elems(t)
  <2>1. \A i, k \in 1..Len(q) : q[i] = q[k] => i = k
    BY <1>6, Zenon DEF Distinct
  <2>2. \A i, k \in 1..Len(t) : t[i] = t[k] => i = k
    BY ONLY <1>2, <2>1, SMTT(60)
  <2>3. \A i \in 1..Len(t) : t[i] # h
    BY ONLY <1>2, <2>1, SMTT(60)
  <2> QED BY <2>2, <2>3, Zenon DEF Distinct, Elems
<1> QED BY <1>1, <1>2, <1>3, <1>4, <1>5, <1>6, ZenonT(60)

(* What is left of a sequence when its first k elements are dropped.       *)
LEMMA SuffixElements ==
  ASSUME NEW S, NEW q \in Seq(S), NEW k \in 0..Len(q)
  PROVE  /\ SubSeq(q, k + 1, Len(q)) \in Seq(S)
         /\ Len(SubSeq(q, k + 1, Len(q))) = Len(q) - k
         /\ \A i \in 1..(Len(q) - k) :
                i + k \in 1..Len(q) /\ SubSeq(q, k + 1, Len(q))[i] = q[i + k]
BY SMTT(60)

(* The first k elements of a sequence.                                     *)
LEMMA PrefixElements ==
  ASSUME NEW S, NEW q \in Seq(S), NEW k \in 0..Len(q)
  PROVE  /\ SubSeq(q, 1, k) \in Seq(S) /\ Len(SubSeq(q, 1, k)) = k
         /\ \A i \in 1..k : SubSeq(q, 1, k)[i] = q[i]
OBVIOUS

(* The elements of a concatenation.                                        *)
LEMMA ConcatElements ==
  ASSUME NEW S, NEW a \in Seq(S), NEW b \in Seq(S)
  PROVE  /\ a \o b \in Seq(S) /\ Len(a \o b) = Len(a) + Len(b)
         /\ \A i \in 1..(Len(a) + Len(b)) :
                (a \o b)[i] = IF i <= Len(a) THEN a[i] ELSE b[i - Len(a)]
OBVIOUS

(* q without its element at `at`.                                          *)
Cut(q, at) == SubSeq(q, 1, at - 1) \o SubSeq(q, at + 1, Len(q))

(* The elements of the cut sequence.                                       *)
LEMMA CutElements ==
  ASSUME NEW S, NEW q \in Seq(S), NEW at \in 1..Len(q)
  PROVE  /\ Cut(q, at) \in Seq(S) /\ Len(Cut(q, at)) = Len(q) - 1
         /\ \A i \in 1..Len(Cut(q, at)) : Cut(q, at)[i] = IF i < at THEN q[i] ELSE q[i + 1]
<1>0. PICK t : t = Cut(q, at)
  BY Zenon
<1>1. PICK u, v : u = SubSeq(q, 1, at - 1) /\ v = SubSeq(q, at + 1, Len(q)) /\ t = u \o v
  BY <1>0, Zenon DEF Cut
<1>2. at - 1 \in 0..Len(q) /\ at \in 0..Len(q) /\ Len(q) \in Nat /\ at \in Nat
  OBVIOUS
<1>3. /\ u \in Seq(S) /\ Len(u) = at - 1
      /\ \A i \in 1..(at - 1) : u[i] = q[i]
  BY ONLY q \in Seq(S), <1>1, <1>2, PrefixElements, ZenonT(60)
<1>4. /\ v \in Seq(S) /\ Len(v) = Len(q) - at
      /\ \A i \in 1..(Len(q) - at) : v[i] = q[i + at]
  BY ONLY q \in Seq(S), <1>1, <1>2, SuffixElements, ZenonT(60)
<1>5. /\ u \o v \in Seq(S) /\ Len(u \o v) = Len(u) + Len(v)
      /\ \A i \in 1..(Len(u) + Len(v)) : (u \o v)[i] = IF i <= Len(u) THEN u[i] ELSE v[i - Len(u)]
  BY ONLY <1>3, <1>4, ConcatElements, ZenonT(60)
<1>6. t \in Seq(S) /\ Len(t) = Len(q) - 1
  <2>1. t \in Seq(S) /\ Len(t) = Len(u) + Len(v)
    BY <1>1, <1>5, Zenon
  <2> QED BY ONLY <1>2, <1>3, <1>4, <2>1, SMTT(60)
<1>7. ASSUME NEW i \in 1..Len(t) PROVE t[i] = IF i < at THEN q[i] ELSE q[i + 1]
  <2>1. i \in 1..(Len(u) + Len(v)) /\ i \in 1..(Len(q) - 1)
    BY ONLY <1>2, <1>3, <1>4, <1>6, <1>7, SMTT(60)
  <2>2. t[i] = IF i <= Len(u) THEN u[i] ELSE v[i - Len(u)]
    BY <1>1, <1>5, <2>1, ZenonT(60)
  <2>3. CASE i < at
    <3>1. i \in 1..(at - 1) /\ i <= Len(u)
      BY ONLY <1>2, <1>3, <2>1, <2>3, SMTT(60)
    <3> QED BY <1>3, <2>2, <2>3, <3>1, ZenonT(60)
  <2>4. CASE ~(i < at)
    <3>1. ~(i <= Len(u)) /\ i - Len(u) \in 1..(Len(q) - at) /\ (i - Len(u)) + at = i + 1
      BY ONLY <1>2, <1>3, <2>1, <2>4, SMTT(60)
    <3> QED BY <1>4, <2>2, <2>4, <3>1, ZenonT(60)
  <2> QED BY <2>3, <2>4, SMTT(60)
<1> QED BY <1>0, <1>6, <1>7, Zenon

(* Erasing x from a list without repetitions takes x and nothing else.     *)
LEMMA WithoutElements ==
  ASSUME NEW S, NEW q \in Seq(S), Distinct(q), NEW x \in Elems(q)
  PROVE  /\ Without(q, x) \in Seq(S) /\ Distinct(Without(q, x))
         /\ Elems(Without(q, x)) = Elems(q) \ {x}
<1>1. PICK at : at = CHOOSE i \in 1..Len(q) : q[i] = x
  BY Zenon
<1>2. at \in 1..Len(q) /\ q[at] = x
  BY <1>1, Zenon DEF Elems
<1>3. PICK t : t = Cut(q, at)
  BY Zenon
<1>4. Without(q, x) = t
  BY <1>1, <1>3, Zenon DEF Without, Cut
<1>5. /\ t \in Seq(S) /\ Len(t) = Len(q) - 1
      /\ \A i \in 1..Len(t) : t[i] = IF i < at THEN q[i] ELSE q[i + 1]
  BY <1>2, <1>3, CutElements, ZenonT(60)
<1>6. Len(q) \in Nat /\ at \in Nat
  BY <1>2
<1>7. \A i, k \in 1..Len(q) : q[i] = q[k] => i = k
  BY Zenon DEF Distinct
<1>8. \A i \in 1..Len(t) : /\ i \in 1..Len(q) /\ i + 1 \in 1..Len(q) /\ i \in Nat
                           /\ (i < at => i # at) /\ (~(i < at) => i + 1 # at)
  BY ONLY <1>5, <1>6, SMTT(60)
<1>9. ASSUME NEW i \in 1..Len(t), NEW k \in 1..Len(t), t[i] = t[k] PROVE i = k
  <2>1. PICK n \in 1..Len(q) : t[i] = q[n] /\ ((n = i /\ i < at) \/ (n = i + 1 /\ ~(i < at)))
    <3>1. CASE i < at
      BY <1>5, <1>8, <3>1, ZenonT(60)
    <3>2. CASE ~(i < at)
      BY <1>5, <1>8, <3>2, ZenonT(60)
    <3> QED BY <3>1, <3>2, Zenon
  <2>2. PICK m \in 1..Len(q) : t[k] = q[m] /\ ((m = k /\ k < at) \/ (m = k + 1 /\ ~(k < at)))
    <3>1. CASE k < at
      BY <1>5, <1>8, <3>1, ZenonT(60)
    <3>2. CASE ~(k < at)
      BY <1>5, <1>8, <3>2, ZenonT(60)
    <3> QED BY <3>1, <3>2, Zenon
  <2>3. n = m
    BY <1>7, <1>9, <2>1, <2>2, ZenonT(60)
  <2>4. i \in Nat /\ k \in Nat
    BY <1>8, Zenon
  <2> QED BY ONLY <1>6, <2>1, <2>2, <2>3, <2>4, SMTT(60)
<1>10. ASSUME NEW i \in 1..Len(t) PROVE t[i] \in Elems(q) \ {x}
  <2>1. PICK n \in 1..Len(q) : t[i] = q[n] /\ n # at
    BY <1>5, <1>8, ZenonT(60)
  <2> QED BY <1>2, <1>7, <2>1, Zenon DEF Elems
<1>11. ASSUME NEW y \in Elems(q), y # x PROVE \E i \in 1..Len(t) : t[i] = y
  <2>1. PICK n \in 1..Len(q) : q[n] = y
    BY Zenon DEF Elems
  <2>2. n # at
    BY <1>2, <1>11, <2>1, ZenonT(60)
  <2>3. CASE n < at
    <3>1. n \in 1..Len(t)
      BY ONLY <1>2, <1>5, <1>6, <2>3, n \in 1..Len(q), SMTT(60)
    <3> QED BY <1>5, <2>1, <2>3, <3>1, ZenonT(60)
  <2>4. CASE ~(n < at)
    <3>1. n - 1 \in 1..Len(t) /\ ~(n - 1 < at) /\ (n - 1) + 1 = n
      BY ONLY <1>2, <1>5, <1>6, <2>2, <2>4, n \in 1..Len(q), SMTT(60)
    <3> QED BY <1>5, <2>1, <3>1, ZenonT(60)
  <2> QED BY <2>3, <2>4, SMTT(60)
<1>12. Elems(t) = Elems(q) \ {x}
  <2>1. \A y : y \in Elems(t) <=> \E i \in 1..Len(t) : t[i] = y
    BY Zenon DEF Elems
  <2> QED BY <1>10, <1>11, <2>1, Zenon
<1> QED BY <1>4, <1>5, <1>9, <1>12, ZenonT(60) DEF Distinct

(* Where the priority items of a queue are.                                *)
Marks(q) == {j \in 1..Len(q) : q[j].priority}

(* They are finitely many.                                                 *)
LEMMA CountFacts ==
  ASSUME NEW q \in Seq(Entry)
  PROVE  /\ IsFiniteSet(Marks(q)) /\ Count(q) \in Nat /\ Count(q) = Cardinality(Marks(q))
         /\ Count(q) > 0 <=> \E j \in 1..Len(q) : q[j].priority
<1>1. Len(q) \in Nat /\ 1 \in Int /\ Len(q) \in Int
  OBVIOUS
<1>2. IsFiniteSet(1..Len(q))
  BY <1>1, FS_Interval, Zenon
<1>3. Marks(q) \subseteq 1..Len(q)
  BY Zenon DEF Marks
<1>4. IsFiniteSet(Marks(q))
  BY <1>2, <1>3, FS_Subset, ZenonT(60)
<1>5. Count(q) = Cardinality(Marks(q))
  BY Zenon DEF Count, Marks
<1>6. Cardinality(Marks(q)) \in Nat
  BY <1>4, FS_CardinalityType, Zenon
<1>7. Cardinality(Marks(q)) = 0 <=> Marks(q) = {}
  BY <1>4, FS_EmptySet, Zenon
<1>8. Count(q) > 0 <=> Marks(q) # {}
  BY ONLY <1>5, <1>6, <1>7, SMTT(60)
<1>9. Marks(q) # {} <=> \E j \in 1..Len(q) : q[j].priority
  BY Zenon DEF Marks
<1> QED BY <1>4, <1>5, <1>6, <1>8, <1>9, ZenonT(60)

(* Posting adds the new item's mark.                                       *)
LEMMA CountAppend ==
  ASSUME NEW q \in Seq(Entry), NEW e \in Entry
  PROVE  Count(Append(q, e)) = Count(q) + IF e.priority THEN 1 ELSE 0
<1>1. PICK t : t = Append(q, e)
  BY Zenon
<1>2. /\ t \in Seq(Entry) /\ Len(t) = Len(q) + 1 /\ Len(q) \in Nat
      /\ \A i \in 1..Len(q) : t[i] = q[i] /\ i \in 1..Len(t) /\ i # Len(q) + 1
      /\ t[Len(q) + 1] = e /\ Len(q) + 1 \in 1..Len(t) /\ Len(q) + 1 \notin 1..Len(q)
      /\ \A i \in 1..Len(t) : i \in 1..Len(q) \/ i = Len(q) + 1
  BY <1>1, SMTT(60)
<1>3. Marks(t) = IF e.priority THEN Marks(q) \cup {Len(q) + 1} ELSE Marks(q)
  <2>1. CASE e.priority
    <3>1. \A i \in 1..Len(t) : t[i].priority <=> (i \in 1..Len(q) /\ q[i].priority) \/ i = Len(q) + 1
      BY <1>2, <2>1, Zenon
    <3> QED BY <1>2, <2>1, <3>1, Zenon DEF Marks
  <2>2. CASE ~e.priority
    <3>1. \A i \in 1..Len(t) : t[i].priority <=> (i \in 1..Len(q) /\ q[i].priority)
      BY <1>2, <2>2, Zenon
    <3> QED BY <1>2, <2>2, <3>1, Zenon DEF Marks
  <2> QED BY <2>1, <2>2, SMTT(60)
<1>4. Len(q) + 1 \notin Marks(q)
  BY <1>2, Zenon DEF Marks
<1>5. /\ IsFiniteSet(Marks(q)) /\ Count(q) \in Nat /\ Count(q) = Cardinality(Marks(q))
      /\ Count(t) = Cardinality(Marks(t))
  BY <1>2, CountFacts, Zenon
<1>6. CASE e.priority
  <2>1. Cardinality(Marks(t)) = Cardinality(Marks(q)) + 1
    BY <1>3, <1>4, <1>5, <1>6, FS_AddElement, ZenonT(60)
  <2> QED BY <1>1, <1>5, <1>6, <2>1, Zenon
<1>7. CASE ~e.priority
  <2>1. Count(q) + 0 = Count(q)
    BY <1>5
  <2> QED BY <1>1, <1>3, <1>5, <1>7, <2>1, Zenon
<1> QED BY <1>6, <1>7, SMTT(60)

(* Taking the head takes the head's mark.                                  *)
LEMMA CountTail ==
  ASSUME NEW q \in Seq(Entry), q # <<>>
  PROVE  Count(q) = Count(Tail(q)) + IF Head(q).priority THEN 1 ELSE 0
<1>1. PICK t, h : t = Tail(q) /\ h = Head(q)
  BY Zenon
<1>2. /\ h = q[1] /\ 1 \in 1..Len(q) /\ t \in Seq(Entry)
      /\ \A i \in 1..Len(t) : i + 1 \in 1..Len(q) /\ t[i] = q[i + 1] /\ i + 1 # 1 /\ i \in Nat
      /\ \A i \in 1..Len(q) : i = 1 \/ (i - 1 \in 1..Len(t) /\ (i - 1) + 1 = i)
  <2>1. h = q[1] /\ 1 \in 1..Len(q) /\ t \in Seq(Entry) /\ Len(q) \in Nat
    BY <1>1
  <2>2. Len(t) = Len(q) - 1 /\ \A i \in 1..Len(t) : t[i] = q[i + 1]
    BY <1>1
  <2> QED BY ONLY <2>1, <2>2, SMTT(60)
<1> DEFINE f == [i \in Marks(t) |-> i + 1]
           M == Marks(q) \ {1}
<1>3. f \in Bijection(Marks(t), M)
  <2>1. \A i \in Marks(t) : f[i] = i + 1 /\ i + 1 \in M /\ i \in Nat
    BY <1>2, Zenon DEF Marks
  <2>2. f \in [Marks(t) -> M]
    BY <2>1, Zenon
  <2>3. \A i, k \in Marks(t) : f[i] = f[k] => i = k
    BY ONLY <2>1, SMTT(60)
  <2>4. ASSUME NEW n \in M PROVE \E i \in Marks(t) : f[i] = n
    <3>1. n \in 1..Len(q) /\ n # 1 /\ q[n].priority
      BY Zenon DEF Marks
    <3>2. n - 1 \in 1..Len(t) /\ (n - 1) + 1 = n
      BY <1>2, <3>1, Zenon
    <3>3. t[n - 1] = q[n]
      BY <1>2, <3>2, Zenon
    <3>4. n - 1 \in Marks(t)
      BY <3>1, <3>2, <3>3, ZenonT(60) DEF Marks
    <3> QED BY <2>1, <3>2, <3>4, Zenon
  <2>5. DOMAIN f = Marks(t)
    BY Zenon
  <2> QED BY <2>2, <2>3, <2>4, <2>5, ZenonT(60) DEF Bijection, Injection, Surjection, IsInjective
<1>4. /\ IsFiniteSet(Marks(q)) /\ Count(q) \in Nat /\ Count(q) = Cardinality(Marks(q))
      /\ IsFiniteSet(Marks(t)) /\ Count(t) \in Nat /\ Count(t) = Cardinality(Marks(t))
  BY <1>2, CountFacts, Zenon
<1>5. Cardinality(M) = Count(t)
  BY <1>3, <1>4, FS_Bijection, ZenonT(60) DEF ExistsBijection
<1>6. CASE h.priority
  <2>1. 1 \in Marks(q)
    BY <1>2, <1>6, Zenon DEF Marks
  <2>2. Cardinality(M) = Cardinality(Marks(q)) - 1
    BY <1>4, <2>1, FS_RemoveElement, ZenonT(60)
  <2>3. Count(q) = Count(t) + 1
    BY ONLY <1>4, <1>5, <2>2, SMTT(60)
  <2> QED BY <1>1, <1>6, <2>3, Zenon
<1>7. CASE ~h.priority
  <2>1. M = Marks(q)
    BY <1>2, <1>7, Zenon DEF Marks
  <2>2. Count(t) + 0 = Count(t)
    BY <1>4, SMT
  <2> QED BY <1>1, <1>4, <1>5, <1>7, <2>1, <2>2, ZenonT(60)
<1> QED BY <1>6, <1>7

(* The scan of priority_ passes over entries nobody can serve, and stops   *)
(* at one somebody can.                                                    *)
LEMMA SkippedFacts ==
  ASSUME priority \in Seq(Strands)
  PROVE  /\ Skipped \in 0..Len(priority)
         /\ \A j \in 1..Skipped : ~Servable(priority[j])
         /\ Skipped < Len(priority) => Servable(priority[Skipped + 1])
<1> DEFINE T == {n \in 0..Len(priority) : n < Len(priority) => Servable(priority[n + 1])}
<1>1. Len(priority) \in Nat /\ ~(Len(priority) < Len(priority)) /\ Len(priority) \in 0..Len(priority)
  OBVIOUS
<1>2. T \subseteq Nat /\ T # {}
  <2>1. \A n \in 0..Len(priority) : n \in Nat
    BY <1>1
  <2> QED BY <1>1, <2>1, ZenonT(60)
<1>3. PICK x \in T : \A y \in T : x <= y
  BY <1>2, LeastNumber, Zenon
<1>4. ASSUME NEW j \in 1..x PROVE ~Servable(priority[j])
  <2>1. /\ x \in 0..Len(priority)
        /\ \A y \in 0..Len(priority) : (y < Len(priority) => Servable(priority[y + 1])) => x <= y
    BY <1>3, Zenon
  <2>2. j - 1 \in 0..Len(priority) /\ ~(x <= j - 1) /\ (j - 1) + 1 = j
    BY ONLY <1>1, <2>1, j \in 1..x, SMTT(60)
  <2> QED BY <2>1, <2>2, Zenon
<1>5. \E n \in 0..Len(priority) : /\ \A j \in 1..n : ~Servable(priority[j])
                                  /\ n < Len(priority) => Servable(priority[n + 1])
  BY <1>3, <1>4, Zenon
<1> QED BY <1>5, Zenon DEF Skipped

-----------------------------------------------------------------------------
(* A strand with priority work joins priority_ unless it is there.         *)
LEMMA PriorityJoins ==
  ASSUME LanesInv, NEW s \in Strands, NEW n \in Nat,
         IF n > 0 /\ ~inPriority[s]
         THEN /\ inPriority' = [inPriority EXCEPT ![s] = TRUE]
              /\ priority' = Append(priority, s)
         ELSE UNCHANGED <<inPriority, priority>>,
         Alive' => Alive, prioItems'[s] = n,
         \A x \in Strands \ {s} : prioItems'[x] = prioItems[x] /\ inReady'[x] = inReady[x]
  PROVE  /\ inPriority' \in [Strands -> BOOLEAN] /\ priority' \in Seq(Strands)
         /\ PriorityListed'
<1>1. priority \in Seq(Strands) /\ inPriority \in [Strands -> BOOLEAN]
  BY Zenon DEF LanesInv, LanesTypeOK
<1>2. /\ Append(priority, s) \in Seq(Strands)
      /\ Elems(Append(priority, s)) = Elems(priority) \cup {s}
  BY ONLY <1>1, s \in Strands, AppendElements, SMTT(60)
<1>3. CASE n > 0 /\ ~inPriority[s]
  <2>1. /\ inPriority' \in [Strands -> BOOLEAN] /\ priority' \in Seq(Strands)
        /\ Elems(priority') = Elems(priority) \cup {s}
        /\ \A x \in Strands \ {s} : inPriority'[x] = inPriority[x]
    BY <1>1, <1>2, <1>3, ZenonT(60)
  <2>2. ASSUME Alive', NEW x \in Strands
        PROVE  /\ inPriority'[x] => x \in Elems(priority')
               /\ Servable(x)' => x \in Elems(priority')
    <3>1. CASE x = s
      BY <2>1, <3>1, Zenon
    <3>2. CASE x # s
      BY <2>1, <2>2, <3>2, Zenon DEF LanesInv, PriorityListed, Servable
    <3> QED BY <3>1, <3>2
  <2> QED BY <2>1, <2>2, Zenon DEF PriorityListed
<1>4. CASE ~(n > 0 /\ ~inPriority[s])
  <2>1. UNCHANGED <<inPriority, priority>>
    BY <1>4, Zenon
  <2>2. ASSUME Alive', NEW x \in Strands
        PROVE  /\ inPriority'[x] => x \in Elems(priority')
               /\ Servable(x)' => x \in Elems(priority')
    <3>1. inPriority'[x] => x \in Elems(priority')
      BY <2>1, <2>2, Zenon DEF LanesInv, PriorityListed
    <3>2. CASE x = s
      BY <1>4, <3>1, <2>1, <3>2, ZenonT(60) DEF Servable
    <3>3. CASE x # s
      BY <2>1, <2>2, <3>3, ZenonT(60) DEF LanesInv, PriorityListed, Servable
    <3> QED BY <3>1, <3>2, <3>3
  <2> QED BY <1>1, <2>1, <2>2, Zenon DEF PriorityListed
<1> QED BY <1>3, <1>4

(* make_ready_locked keeps the ready lists, the groups and priority_       *)
(* exact.                                                                  *)
LEMMA MadeReady ==
  ASSUME LanesInv, NEW s \in Strands, NEW n \in Nat, MakeReady(s, n), ~inReady[s],
         Alive' => Alive, prioItems'[s] = n,
         ~running'[s], queue'[s] # <<>>,
         \A x \in Strands \ {s} : /\ prioItems'[x] = prioItems[x] /\ running'[x] = running[x]
                                  /\ queue'[x] = queue[x]
  PROVE  /\ inReady' \in [Strands -> BOOLEAN] /\ inPriority' \in [Strands -> BOOLEAN]
         /\ ready' \in [Groups -> Seq(Strands)] /\ groupInReady' \in [Groups -> BOOLEAN]
         /\ readyGroups' \in Seq(Groups) /\ priority' \in Seq(Strands)
         /\ ReadyExact' /\ GroupsExact' /\ PriorityListed'
         /\ s \notin ReadySet /\ ReadySet' = ReadySet \cup {s}
<1> USE DEF LanesInv
<1>0. PICK g \in Groups : g = GroupOf[s]
  BY LanesAssumption, Zenon
<1>1. /\ inReady' = [inReady EXCEPT ![s] = TRUE]
      /\ ready' = [ready EXCEPT ![g] = Append(@, s)]
      /\ groupInReady' = [groupInReady EXCEPT ![g] = TRUE]
      /\ readyGroups' = IF groupInReady[g] THEN readyGroups ELSE Append(readyGroups, g)
      /\ IF n > 0 /\ ~inPriority[s]
         THEN /\ inPriority' = [inPriority EXCEPT ![s] = TRUE]
              /\ priority' = Append(priority, s)
         ELSE UNCHANGED <<inPriority, priority>>
  BY <1>0, Zenon DEF MakeReady, WithGroup
<1>2. /\ inReady' \in [Strands -> BOOLEAN] /\ inReady'[s]
      /\ \A x \in Strands \ {s} : inReady'[x] = inReady[x]
      /\ groupInReady' \in [Groups -> BOOLEAN] /\ groupInReady'[g]
      /\ \A h \in Groups \ {g} : groupInReady'[h] = groupInReady[h]
  BY <1>1, ZenonT(60) DEF LanesTypeOK
<1>3. /\ inPriority' \in [Strands -> BOOLEAN] /\ priority' \in Seq(Strands)
      /\ PriorityListed'
  BY <1>1, <1>2, PriorityJoins, ZenonT(60)
<1>4. ready[g] \in Seq(Strands) /\ readyGroups \in Seq(Groups) /\ s \notin Elems(ready[g])
  BY <1>0, ZenonT(60) DEF LanesTypeOK, ReadyExact
<1>5. /\ Append(ready[g], s) \in Seq(Strands) /\ Append(ready[g], s) # <<>>
      /\ Elems(Append(ready[g], s)) = Elems(ready[g]) \cup {s}
      /\ Distinct(Append(ready[g], s))
  <2>1. Distinct(ready[g])
    BY Zenon DEF ReadyExact
  <2> QED BY ONLY <1>4, <2>1, s \in Strands, AppendElements, SMTT(60)
<1>6. /\ ready' \in [Groups -> Seq(Strands)] /\ ready'[g] = Append(ready[g], s)
      /\ \A h \in Groups \ {g} : ready'[h] = ready[h]
  BY <1>1, <1>5, Zenon DEF LanesTypeOK
<1>7. s \notin ReadySet /\ ReadySet' = ReadySet \cup {s}
  BY <1>2, Zenon DEF ReadySet
<1>8. ReadyExact'
  <2>1. ASSUME NEW x \in Strands PROVE inReady'[x] <=> x \in Elems(ready'[GroupOf[x]])
    <3>1. GroupOf[x] \in Groups
      BY LanesAssumption, ZenonT(60)
    <3>2. CASE x = s
      BY <1>0, <1>2, <1>5, <1>6, <3>2, ZenonT(60)
    <3>3. CASE x # s
      <4>1. x \in Elems(ready'[GroupOf[x]]) <=> x \in Elems(ready[GroupOf[x]])
        BY <1>5, <1>6, <3>1, <3>3, ZenonT(60)
      <4> QED BY <1>2, <3>3, <4>1, ZenonT(60) DEF ReadyExact
    <3> QED BY <3>2, <3>3
  <2>2. ASSUME NEW h \in Groups
        PROVE  /\ Distinct(ready'[h])
               /\ \A x \in Elems(ready'[h]) : GroupOf[x] = h
               /\ groupInReady'[h] <=> ready'[h] # <<>>
    <3>0. /\ Distinct(ready[h]) /\ (groupInReady[h] <=> ready[h] # <<>>)
          /\ \A x \in Elems(ready[h]) : GroupOf[x] = h
      BY ONLY ReadyExact, h \in Groups, Zenon DEF ReadyExact
    <3>1. CASE h = g
      BY ONLY <1>0, <1>2, <1>5, <1>6, <3>0, <3>1, ZenonT(60)
    <3>2. CASE h # g
      <4>1. ready'[h] = ready[h] /\ (groupInReady'[h] <=> groupInReady[h])
        BY ONLY <1>2, <1>6, h \in Groups, <3>2, ZenonT(60)
      <4> QED BY ONLY <3>0, <4>1, Zenon
    <3> QED BY <3>1, <3>2
  <2>3. ASSUME NEW x \in Strands, inReady'[x] PROVE ~running'[x] /\ queue'[x] # <<>>
    <3>1. inReady[x] => ~running[x] /\ queue[x] # <<>>
      BY ONLY ReadyExact, x \in Strands, Zenon DEF ReadyExact
    <3>2. CASE x = s
      BY <3>2, Zenon
    <3>3. CASE x # s
      BY <1>2, <2>3, <3>1, <3>3, ZenonT(60)
    <3> QED BY <3>2, <3>3
  <2>4. IsFiniteSet(ReadySet')
    BY <1>7, FS_AddElement, ZenonT(60) DEF ReadyExact
  <2> QED BY <2>1, <2>2, <2>3, <2>4, ZenonT(60) DEF ReadyExact
<1>9. readyGroups' \in Seq(Groups) /\ GroupsExact'
  <2>1. CASE groupInReady[g]
    <3>1. readyGroups' = readyGroups /\ \A h \in Groups : groupInReady'[h] <=> groupInReady[h]
      BY <1>1, <1>2, <2>1, ZenonT(60)
    <3> QED BY <1>4, <3>1, Zenon DEF GroupsExact
  <2>2. CASE ~groupInReady[g]
    <3>1. readyGroups' = Append(readyGroups, g)
      BY <1>1, <2>2, Zenon
    <3>2. /\ readyGroups' \in Seq(Groups) /\ Elems(readyGroups') = Elems(readyGroups) \cup {g}
          /\ Distinct(readyGroups) /\ g \notin Elems(readyGroups) => Distinct(readyGroups')
      BY ONLY <1>4, <3>1, g \in Groups, AppendElements, ZenonT(60)
    <3>3. ASSUME Alive'
          PROVE  /\ Distinct(readyGroups')
                 /\ \A h \in Groups : groupInReady'[h] <=> h \in Elems(readyGroups')
      BY <1>2, <2>2, <3>2, <3>3, Zenon DEF GroupsExact
    <3> QED BY <3>2, <3>3, Zenon DEF GroupsExact
  <2> QED BY <2>1, <2>2, SMTT(60)
<1> QED BY <1>2, <1>3, <1>6, <1>7, <1>8, <1>9, ZenonT(60)

(* Workers are finitely many.                                              *)
LEMMA PickersFinite ==
  /\ IsFiniteSet(Pickers) /\ Cardinality(Pickers) \in Nat
  /\ IsFiniteSet(Pickers') /\ Cardinality(Pickers') \in Nat
<1>1. Pickers \subseteq Workers /\ Pickers' \subseteq Workers
  BY Zenon DEF Pickers
<1> QED BY <1>1, LanesAssumption, FS_Subset, FS_CardinalityType, Zenon

(* No wake-up is lost when at least as many workers look for work, or are  *)
(* about to be notified, as strands became ready.                          *)
LEMMA WakeKept ==
  ASSUME LanesInv, notifies' \in Nat, NEW a \in Int, IsFiniteSet(ReadySet'),
         Asleep' # {} => Asleep # {},
         Cardinality(ReadySet') = Cardinality(ReadySet) + a,
         Cardinality(Pickers) + notifies + a <= Cardinality(Pickers') + notifies'
  PROVE  NoLostWakeup'
<1>1. IsFiniteSet(ReadySet) /\ notifies \in Nat
  BY Zenon DEF LanesInv, ReadyExact, LanesTypeOK
<1>2. Cardinality(ReadySet) \in Nat /\ Cardinality(ReadySet') \in Nat
  BY <1>1, FS_CardinalityType, Zenon
<1>3. ASSUME Asleep' # {} PROVE Cardinality(ReadySet') <= Cardinality(Pickers') + notifies'
  <2>1. Cardinality(ReadySet) <= Cardinality(Pickers) + notifies
    BY <1>3, Zenon DEF LanesInv, NoLostWakeup, ReadySet, Pickers
  <2> QED BY <1>1, <1>2, <2>1, PickersFinite, SMT
<1> QED BY <1>3, Zenon DEF NoLostWakeup, ReadySet, Pickers

(* Nor when nothing became ready and nobody fell asleep.                   *)
LEMMA WakeFrame ==
  ASSUME LanesInv, UNCHANGED <<inReady, wpc>>, notifies' \in Nat, notifies' >= notifies
  PROVE  NoLostWakeup'
<1>1. ReadySet' = ReadySet /\ Pickers' = Pickers /\ Asleep' = Asleep
  BY Zenon DEF ReadySet, Pickers, Asleep
<1>2. IsFiniteSet(ReadySet) /\ notifies \in Nat
  BY Zenon DEF LanesInv, ReadyExact, LanesTypeOK
<1>3. Cardinality(ReadySet) \in Nat
  BY <1>2, FS_CardinalityType, Zenon
<1>4. /\ Cardinality(ReadySet) = Cardinality(ReadySet) + 0 /\ 0 \in Int
      /\ Cardinality(Pickers) + notifies + 0 <= Cardinality(Pickers) + notifies'
  BY <1>2, <1>3, PickersFinite, SMT
<1> QED BY <1>1, <1>2, <1>4, WakeKept, Zenon

(* The ready lists are left alone.                                         *)
LEMMA ReadyFrame ==
  ASSUME ReadyExact, UNCHANGED <<inReady, ready, groupInReady>>,
         \A x \in Strands : inReady[x] => ~running'[x] /\ queue'[x] # <<>>
  PROVE  ReadyExact'
<1>1. ReadySet' = ReadySet
  BY Zenon DEF ReadySet
<1>2. \A x \in Strands : inReady'[x] <=> x \in Elems(ready'[GroupOf[x]])
  BY Zenon DEF ReadyExact
<1>3. \A g \in Groups : /\ Distinct(ready'[g])
                        /\ \A x \in Elems(ready'[g]) : GroupOf[x] = g
                        /\ groupInReady'[g] <=> ready'[g] # <<>>
  BY Zenon DEF ReadyExact
<1>4. \A x \in Strands : inReady'[x] => ~running'[x] /\ queue'[x] # <<>>
  BY Zenon
<1>5. IsFiniteSet(ReadySet')
  BY <1>1, Zenon DEF ReadyExact
<1> QED BY <1>2, <1>3, <1>4, <1>5, ZenonT(60) DEF ReadyExact

(* Everything but the notifications is left alone.                         *)
LEMMA FrameInv ==
  ASSUME LanesInv,
         UNCHANGED <<queue, prioItems, running, inReady, inPriority, ready, groupInReady,
                     readyGroups, priority, wpc, cur>>,
         notifies' \in Nat, notifies' >= notifies
  PROVE  LanesInv'
<1> USE DEF LanesInv
<1>1. LanesTypeOK'
  BY Zenon DEF LanesTypeOK
<1>2. QueuesOwn' /\ SlicesRun' /\ StrandSerial'
  BY Zenon DEF QueuesOwn, SlicesRun, StrandSerial
<1>3. PriorityCounted'
  BY Zenon DEF PriorityCounted
<1>4. ReadyExact'
  BY ReadyFrame, Zenon DEF ReadyExact
<1>5. GroupsExact' /\ PriorityListed'
  BY Zenon DEF GroupsExact, PriorityListed, Alive, Servable
<1>6. NoLostWakeup'
  BY WakeFrame, Zenon
<1> QED BY <1>1, <1>2, <1>3, <1>4, <1>5, <1>6, ZenonT(60)

(* post(): the item is queued, and an idle strand becomes ready.           *)
LEMMA PostInv == ASSUME LanesInv, NEW i \in Items, NEW p \in BOOLEAN, Post(i, p) PROVE LanesInv'
<1> USE DEF LanesInv
<1>0. PICK s \in Strands : s = StrandOf[i]
  BY LanesAssumption, Zenon
<1>1. PICK n : n = prioItems[s] + IF p THEN 1 ELSE 0
  BY Zenon
<1>2. UNCHANGED <<wpc, cur>>
  BY Zenon DEF Post, workerVars
<1>3. CASE UNCHANGED <<strandVars, readyVars, notifies>>
  <2>1. notifies' \in Nat /\ notifies' >= notifies
    <3>1. notifies' = notifies /\ notifies \in Nat
      BY <1>3, Zenon DEF LanesTypeOK
    <3> QED BY <3>1
  <2> QED BY <1>2, <1>3, <2>1, FrameInv, ZenonT(60) DEF strandVars, readyVars
<1>4. ASSUME prioItems' = [prioItems EXCEPT ![s] = n],
             queue' = [queue EXCEPT ![s] = Append(@, [item |-> i, priority |-> p])],
             UNCHANGED running
      PROVE  /\ queue' \in [Strands -> Seq(Entry)] /\ prioItems' \in [Strands -> Nat]
             /\ n \in Nat /\ prioItems'[s] = n /\ queue'[s] # <<>>
             /\ \A x \in Strands \ {s} : prioItems'[x] = prioItems[x] /\ queue'[x] = queue[x]
             /\ QueuesOwn' /\ SlicesRun' /\ StrandSerial' /\ PriorityCounted'
  <2>0. PICK e : e = [item |-> i, priority |-> p]
    BY Zenon
  <2>1. e \in Entry /\ e.item = i /\ e.priority = p
    BY <2>0, Zenon DEF Entry
  <2>2. prioItems[s] \in Nat /\ queue[s] \in Seq(Entry)
    BY Zenon DEF LanesTypeOK
  <2>3. n \in Nat
    BY <1>1, <2>2, SMTT(60)
  <2>4. PICK t : t = Append(queue[s], e)
    BY Zenon
  <2>10. PICK q \in Seq(Entry) : q = queue[s]
    BY <2>2, ZenonT(60)
  <2>11. /\ t \in Seq(Entry) /\ t # <<>>
         /\ \A j \in 1..Len(t) : t[j] = e \/ (j \in 1..Len(q) /\ t[j] = q[j])
    BY ONLY <2>1, <2>4, <2>10, q \in Seq(Entry), SMTT(60)
  <2>5. /\ queue' \in [Strands -> Seq(Entry)] /\ queue'[s] = t
        /\ prioItems' \in [Strands -> Nat] /\ prioItems'[s] = n
        /\ \A x \in Strands \ {s} : prioItems'[x] = prioItems[x] /\ queue'[x] = queue[x]
    BY <1>4, <2>0, <2>3, <2>4, <2>11, ZenonT(60) DEF LanesTypeOK
  <2>6. Count(queue'[s]) = Count(queue[s]) + IF p THEN 1 ELSE 0
    BY <2>1, <2>2, <2>4, <2>5, CountAppend, ZenonT(60)
  <2>7. QueuesOwn'
    <3>1. ASSUME NEW x \in Strands, NEW j \in 1..Len(queue'[x])
          PROVE  StrandOf[queue'[x][j].item] = x
      <4>1. CASE x # s
        BY <2>5, <3>1, <4>1, ZenonT(60) DEF QueuesOwn
      <4>2. CASE x = s
        <5>1. queue'[s][j] = e \/ (j \in 1..Len(queue[s]) /\ queue'[s][j] = queue[s][j])
          BY <2>5, <2>10, <2>11, <3>1, <4>2, ZenonT(60)
        <5>2. \A k \in 1..Len(queue[s]) : StrandOf[queue[s][k].item] = s
          BY Zenon DEF QueuesOwn
        <5>3. CASE queue'[s][j] = e
          BY ONLY <1>0, <2>1, <4>2, <5>3, Zenon
        <5>4. CASE j \in 1..Len(queue[s]) /\ queue'[s][j] = queue[s][j]
          BY ONLY <4>2, <5>2, <5>4, Zenon
        <5> QED BY <5>1, <5>3, <5>4
      <4> QED BY <4>1, <4>2
    <3> QED BY <3>1, Zenon DEF QueuesOwn
  <2>8. SlicesRun' /\ StrandSerial'
    BY <1>2, <1>4, Zenon DEF SlicesRun, StrandSerial
  <2>9. PriorityCounted'
    <3>0. Count(queue[s]) \in Nat
      BY <2>2, CountFacts, Zenon
    <3>1. ASSUME NEW x \in Strands, ~running'[x] PROVE prioItems'[x] = Count(queue'[x])
      <4>1. prioItems[x] = Count(queue[x])
        BY <1>4, <3>1, Zenon DEF PriorityCounted
      <4> QED BY <1>1, <2>5, <2>6, <4>1, ZenonT(60)
    <3>2. ASSUME NEW w \in Workers, wpc'[w] = "slice"
          PROVE  prioItems'[StrandOf[cur'[w].item]] =
                   Count(queue'[StrandOf[cur'[w].item]]) + IF cur'[w].priority THEN 1 ELSE 0
      <4>1. wpc[w] = "slice" /\ cur'[w] = cur[w]
        BY <1>2, <3>2, Zenon
      <4>2. PICK x \in Strands : x = StrandOf[cur[w].item]
        <5>1. cur[w] \in Entry
          BY <4>1, Zenon DEF SlicesRun
        <5>2. cur[w].item \in Items
          BY <5>1 DEF Entry
        <5> QED BY <5>2, LanesAssumption, Zenon
      <4>3. PICK d : d = IF cur[w].priority THEN 1 ELSE 0
        BY Zenon
      <4>4. prioItems[x] = Count(queue[x]) + d /\ d \in Nat
        BY <4>1, <4>2, <4>3, Zenon DEF PriorityCounted
      <4>5. prioItems'[x] = Count(queue'[x]) + d
        <5>1. CASE x # s
          BY <2>5, <4>4, <5>1, Zenon
        <5>2. CASE x = s
          <6>1. PICK c \in Nat : c = IF p THEN 1 ELSE 0
            BY Zenon
          <6>2. /\ prioItems'[s] = prioItems[s] + c /\ Count(queue'[s]) = Count(queue[s]) + c
                /\ prioItems[s] = Count(queue[s]) + d
            BY <1>1, <2>5, <2>6, <4>4, <5>2, <6>1, ZenonT(60)
          <6>3. prioItems'[s] = Count(queue'[s]) + d
            BY ONLY <2>2, <3>0, <4>4, <6>1, <6>2, SMTT(60)
          <6> QED BY <5>2, <6>3, Zenon
        <5> QED BY <5>1, <5>2, SMTT(60)
      <4> QED BY <4>1, <4>2, <4>3, <4>5, Zenon
    <3> QED BY <3>1, <3>2, Zenon DEF PriorityCounted
  <2> QED BY <2>3, <2>11, <2>5, <2>7, <2>8, <2>9, ZenonT(60)
<1>5. Alive' <=> Alive
  BY <1>2, Zenon DEF Alive
<1>6. notifies \in Nat /\ notifies + 1 \in Nat /\ notifies + 1 >= notifies /\ notifies >= notifies
  <2>1. notifies \in Nat
    BY Zenon DEF LanesTypeOK
  <2> QED BY <2>1
<1> DEFINE Pushed == /\ prioItems' = [prioItems EXCEPT ![s] = n]
                     /\ queue' = [queue EXCEPT ![s] = Append(@, [item |-> i, priority |-> p])]
                     /\ UNCHANGED running
<1>7. CASE Pushed /\ running[s] /\ UNCHANGED <<inReady, inPriority, readyVars, notifies>>
  <2>1. LanesTypeOK'
    BY <1>2, <1>4, <1>7, Zenon DEF LanesTypeOK, readyVars
  <2>2. \A x \in Strands : inReady[x] => ~running'[x] /\ queue'[x] # <<>>
    BY <1>4, <1>7, Zenon DEF ReadyExact
  <2>3. ReadyExact'
    BY <1>7, <2>2, ReadyFrame, Zenon DEF readyVars
  <2>4. GroupsExact'
    BY <1>5, <1>7, Zenon DEF GroupsExact, readyVars
  <2>5. PriorityListed'
    <3>1. ~inReady[s]
      BY <1>7, Zenon DEF ReadyExact
    <3>2. \A x \in Strands : Servable(x)' => Servable(x)
      BY <1>4, <1>7, <3>1, Zenon DEF Servable
    <3> QED BY <1>5, <1>7, <3>2, Zenon DEF PriorityListed, readyVars
  <2>6. NoLostWakeup'
    BY <1>2, <1>6, <1>7, WakeFrame, Zenon
  <2> QED BY <1>4, <1>7, <2>1, <2>3, <2>4, <2>5, <2>6, ZenonT(60)
<1>8. CASE Pushed /\ ~running[s] /\ ~inReady[s] /\ MakeReady(s, n) /\ notifies' = notifies + 1
  <2>1. /\ inReady' \in [Strands -> BOOLEAN] /\ inPriority' \in [Strands -> BOOLEAN]
        /\ ready' \in [Groups -> Seq(Strands)] /\ groupInReady' \in [Groups -> BOOLEAN]
        /\ readyGroups' \in Seq(Groups) /\ priority' \in Seq(Strands)
        /\ ReadyExact' /\ GroupsExact' /\ PriorityListed'
        /\ s \notin ReadySet /\ ReadySet' = ReadySet \cup {s}
    <3>1. /\ ~running'[s] /\ \A x \in Strands \ {s} : /\ prioItems'[x] = prioItems[x]
                                                      /\ running'[x] = running[x]
                                                      /\ queue'[x] = queue[x]
      BY <1>4, <1>8, Zenon
    <3> QED BY <1>4, <1>5, <1>8, <3>1, MadeReady, Zenon
  <2>2. LanesTypeOK'
    BY <1>2, <1>4, <1>6, <1>8, <2>1, Zenon DEF LanesTypeOK
  <2>3. NoLostWakeup'
    <3>1. IsFiniteSet(ReadySet) /\ IsFiniteSet(ReadySet')
      BY <2>1, Zenon DEF ReadyExact
    <3>2. Cardinality(ReadySet') = Cardinality(ReadySet) + 1
      BY <2>1, <3>1, FS_AddElement, Zenon
    <3>5. 1 \in Int
      OBVIOUS
    <3>3. Pickers' = Pickers /\ Asleep' = Asleep
      BY <1>2, Zenon DEF Pickers, Asleep
    <3>4. Cardinality(Pickers) + notifies + 1 <= Cardinality(Pickers) + (notifies + 1)
      BY <1>6, PickersFinite, SMT
    <3> QED BY <1>6, <1>8, <3>1, <3>2, <3>3, <3>4, <3>5, WakeKept, ZenonT(60)
  <2> QED BY <1>4, <1>8, <2>1, <2>2, <2>3, Zenon
<1>9. CASE /\ Pushed /\ ~running[s] /\ inReady[s]
           /\ IF n > 0 /\ ~inPriority[s]
              THEN /\ inPriority' = [inPriority EXCEPT ![s] = TRUE]
                   /\ priority' = Append(priority, s)
              ELSE UNCHANGED <<inPriority, priority>>
           /\ notifies' = notifies + 1
           /\ UNCHANGED <<inReady, ready, groupInReady, readyGroups>>
  <2>1. /\ inPriority' \in [Strands -> BOOLEAN] /\ priority' \in Seq(Strands) /\ PriorityListed'
    <3>1. \A x \in Strands \ {s} : prioItems'[x] = prioItems[x] /\ inReady'[x] = inReady[x]
      BY <1>4, <1>9, Zenon
    <3> QED BY <1>4, <1>5, <1>9, <3>1, PriorityJoins, ZenonT(60)
  <2>2. LanesTypeOK'
    BY <1>2, <1>4, <1>6, <1>9, <2>1, ZenonT(60) DEF LanesTypeOK
  <2>3. \A x \in Strands : inReady[x] => ~running'[x] /\ queue'[x] # <<>>
    BY <1>4, <1>9, Zenon DEF ReadyExact
  <2>4. ReadyExact'
    BY <1>9, <2>3, ReadyFrame, ZenonT(60)
  <2>5. GroupsExact'
    BY <1>5, <1>9, Zenon DEF GroupsExact
  <2>6. NoLostWakeup'
    BY <1>2, <1>6, <1>9, WakeFrame, ZenonT(60)
  <2> QED BY <1>4, <1>9, <2>1, <2>2, <2>4, <2>5, <2>6, ZenonT(60)
<1> QED BY <1>0, <1>1, <1>3, <1>7, <1>8, <1>9, ZenonT(60) DEF Post

(* A worker moves and takes no strand.                                     *)
LEMMA WorkersFrame ==
  ASSUME LanesInv,
         UNCHANGED <<queue, prioItems, running, inReady, ready, groupInReady, readyGroups, cur>>,
         wpc' \in [Workers -> {"pick", "wait", "slice", "exit"}],
         \A w \in Workers : wpc'[w] = "slice" => wpc[w] = "slice",
         Alive' => Alive, notifies' \in Nat,
         inPriority' \in [Strands -> BOOLEAN], priority' \in Seq(Strands),
         PriorityListed', NoLostWakeup'
  PROVE  LanesInv'
<1> USE DEF LanesInv
<1>1. LanesTypeOK'
  BY Zenon DEF LanesTypeOK
<1>2. QueuesOwn' /\ SlicesRun' /\ StrandSerial'
  BY Zenon DEF QueuesOwn, SlicesRun, StrandSerial
<1>3. PriorityCounted'
  BY Zenon DEF PriorityCounted
<1>4. ReadyExact'
  BY ReadyFrame, Zenon DEF ReadyExact
<1>5. GroupsExact'
  BY Zenon DEF GroupsExact
<1> QED BY <1>1, <1>2, <1>3, <1>4, <1>5, ZenonT(60)

(* A notification wakes a sleeper, or nobody.                              *)
LEMMA NotifyInv == ASSUME LanesInv, Notify PROVE LanesInv'
<1> USE DEF LanesInv
<1>1. notifies \in Nat /\ notifies > 0 /\ notifies' = notifies - 1
  BY Zenon DEF Notify, LanesTypeOK
<1>2. notifies' \in Nat
  BY <1>1
<1>3. /\ UNCHANGED <<queue, prioItems, running, inReady, inPriority, ready, groupInReady,
                     readyGroups, priority, cur>>
  BY Zenon DEF Notify, strandVars, readyVars
<1>4. CASE Asleep = {}
  <2>1. wpc' = wpc
    BY <1>4, Zenon DEF Notify
  <2>2. NoLostWakeup'
    BY <1>4, <2>1, Zenon DEF NoLostWakeup, Asleep
  <2>3. PriorityListed'
    BY <1>3, <2>1, Zenon DEF PriorityListed, Alive, Servable
  <2>4. Alive' => Alive
    BY <2>1, Zenon DEF Alive
  <2> QED BY <1>2, <1>3, <2>1, <2>2, <2>3, <2>4, WorkersFrame, ZenonT(60) DEF LanesTypeOK
<1>5. CASE Asleep # {}
  <2>1. PICK w \in Asleep : wpc' = [wpc EXCEPT ![w] = "pick"]
    BY <1>5, Zenon DEF Notify
  <2>2. w \in Workers /\ wpc[w] = "wait"
    BY Zenon DEF Asleep
  <2>3. /\ wpc' \in [Workers -> {"pick", "wait", "slice", "exit"}] /\ wpc'[w] = "pick"
        /\ \A v \in Workers \ {w} : wpc'[v] = wpc[v]
    BY <2>1, <2>2, Zenon DEF LanesTypeOK
  <2>4. \A v \in Workers : wpc'[v] = "slice" => wpc[v] = "slice"
    BY <2>2, <2>3, Zenon
  <2>5. Alive
    BY <2>2, Zenon DEF Alive
  <2>6. PriorityListed'
    BY <1>3, <2>5, Zenon DEF PriorityListed, Servable
  <2>7. NoLostWakeup'
    <3>1. Pickers' = Pickers \cup {w} /\ w \notin Pickers
      BY <2>2, <2>3, Zenon DEF Pickers
    <3>2. Cardinality(Pickers') = Cardinality(Pickers) + 1
      BY <3>1, PickersFinite, FS_AddElement, Zenon
    <3>3. ReadySet' = ReadySet /\ IsFiniteSet(ReadySet)
      BY <1>3, Zenon DEF ReadySet, ReadyExact
    <3>4. Cardinality(ReadySet) \in Nat
      BY <3>3, FS_CardinalityType, Zenon
    <3>5. /\ Cardinality(ReadySet) = Cardinality(ReadySet) + 0 /\ 0 \in Int
          /\ Cardinality(Pickers) + notifies + 0 <= Cardinality(Pickers') + notifies'
      BY ONLY <1>1, <3>2, <3>4, PickersFinite, SMTT(60)
    <3> QED BY <1>2, <1>5, <3>3, <3>5, WakeKept, Zenon
  <2> QED BY <1>2, <1>3, <2>3, <2>4, <2>5, <2>6, <2>7, WorkersFrame, ZenonT(60) DEF LanesTypeOK
<1> QED BY <1>4, <1>5, SMTT(60)

(* A scan of priority_ that finds nobody overlooked nobody.                *)
LEMMA NoneServable ==
  ASSUME LanesInv, Alive, Skipped = Len(priority), NEW x \in Strands
  PROVE  ~Servable(x)
<1>1. priority \in Seq(Strands)
  BY Zenon DEF LanesInv, LanesTypeOK
<1>2. \A j \in 1..Len(priority) : ~Servable(priority[j])
  BY <1>1, SkippedFacts, Zenon
<1>3. Servable(x) => x \in Elems(priority)
  BY Zenon DEF LanesInv, PriorityListed
<1> QED BY <1>2, <1>3, Zenon DEF Elems

(* A worker finds nothing and falls asleep, or leaves a stopped pool.      *)
LEMMA NothingReadyInv == ASSUME LanesInv, NEW w \in Workers, NothingReady(w) PROVE LanesInv'
<1> USE DEF LanesInv
<1>1. Alive
  BY Zenon DEF NothingReady, Alive
<1>2. /\ UNCHANGED <<queue, prioItems, running, inReady, ready, groupInReady, readyGroups, cur,
                     notifies>>
      /\ readyGroups = <<>> /\ priority' = <<>>
      /\ inPriority' = [x \in Strands |-> inPriority[x] /\ x \notin Elems(priority)]
  BY Zenon DEF NothingReady
<1>3. /\ wpc' \in [Workers -> {"pick", "wait", "slice", "exit"}]
      /\ \A v \in Workers : wpc'[v] = "slice" => wpc[v] = "slice"
  <2>1. wpc \in [Workers -> {"pick", "wait", "slice", "exit"}]
    BY Zenon DEF LanesTypeOK
  <2>2. CASE wpc' = [wpc EXCEPT ![w] = "exit"]
    BY <2>1, <2>2
  <2>3. CASE wpc' = [v \in Workers |-> IF v = w THEN "exit"
                                       ELSE IF v \in Asleep THEN "pick" ELSE wpc[v]]
    BY <2>1, <2>3
  <2>4. CASE wpc' = [wpc EXCEPT ![w] = "wait"]
    BY <2>1, <2>4
  <2> QED BY <2>2, <2>3, <2>4, Zenon DEF NothingReady
<1>4. \A x \in Strands : ~inReady[x]
  <2>1. Elems(readyGroups) = {}
    <3>1. readyGroups \in Seq(Groups)
      BY Zenon DEF LanesTypeOK
    <3> QED BY <1>2, <3>1, NoElements, Zenon
  <2>2. ASSUME NEW x \in Strands PROVE ~inReady[x]
    <3>1. GroupOf[x] \in Groups
      BY LanesAssumption, Zenon
    <3>2. ~groupInReady[GroupOf[x]]
      BY <1>1, <2>1, <3>1, Zenon DEF GroupsExact
    <3>3. ready[GroupOf[x]] = <<>> /\ ready[GroupOf[x]] \in Seq(Strands)
      BY <3>1, <3>2, Zenon DEF ReadyExact, LanesTypeOK
    <3>4. Elems(ready[GroupOf[x]]) = {}
      BY <3>3, NoElements, Zenon
    <3> QED BY <3>4, Zenon DEF ReadyExact
  <2> QED BY <2>2, Zenon
<1>5. PriorityListed'
  <2>1. \A x \in Strands : ~inPriority'[x]
    BY <1>1, <1>2, Zenon DEF PriorityListed
  <2> QED BY <1>2, <1>4, <2>1, Zenon DEF PriorityListed, Servable
<1>6. NoLostWakeup'
  <2>1. ReadySet' = {}
    BY <1>2, <1>4, Zenon DEF ReadySet
  <2>2. Cardinality(ReadySet') = 0
    BY <2>1, FS_EmptySet, Zenon
  <2>3. notifies' \in Nat
    BY <1>2, Zenon DEF LanesTypeOK
  <2>4. Cardinality(ReadySet') <= Cardinality(Pickers') + notifies'
    BY ONLY <2>2, <2>3, PickersFinite, SMT
  <2> QED BY <2>4, Zenon DEF NoLostWakeup, ReadySet, Pickers
<1>7. inPriority' \in [Strands -> BOOLEAN] /\ priority' \in Seq(Strands) /\ notifies' \in Nat
  <2>1. priority' \in Seq(Strands)
    BY <1>2
  <2> QED BY <1>2, <2>1, Zenon DEF LanesTypeOK
<1> QED BY <1>1, <1>2, <1>3, <1>5, <1>6, <1>7, WorkersFrame, ZenonT(60)

(* begin_stop asks the workers to leave and wakes them.                    *)
LEMMA BeginStopInv == ASSUME LanesInv, BeginStop PROVE LanesInv'
<1> USE DEF LanesInv
<1>1. /\ UNCHANGED <<queue, prioItems, running, inReady, inPriority, ready, groupInReady,
                     readyGroups, priority, cur, notifies>>
      /\ wpc' = [w \in Workers |-> IF w \in Asleep THEN "pick" ELSE wpc[w]]
  BY Zenon DEF BeginStop, strandVars, readyVars
<1>2. /\ wpc' \in [Workers -> {"pick", "wait", "slice", "exit"}]
      /\ \A w \in Workers : wpc'[w] = IF w \in Asleep THEN "pick" ELSE wpc[w]
  <2>1. wpc \in [Workers -> {"pick", "wait", "slice", "exit"}]
    BY Zenon DEF LanesTypeOK
  <2> QED BY <1>1, <2>1
<1>3. \A w \in Workers : wpc'[w] = "slice" => wpc[w] = "slice"
  BY <1>2
<1>4. Alive' => Alive
  <2>1. \A w \in Workers : w \in Asleep => wpc[w] # "exit"
    BY DEF Asleep
  <2> QED BY <1>2, <2>1, Zenon DEF Alive
<1>5. Asleep' = {}
  BY <1>2 DEF Asleep
<1>6. NoLostWakeup' /\ PriorityListed'
  BY <1>1, <1>4, <1>5, Zenon DEF NoLostWakeup, PriorityListed, Servable
<1> QED BY <1>1, <1>2, <1>3, <1>4, <1>6, WorkersFrame, ZenonT(60) DEF LanesTypeOK

(* Once the last worker has left, mark_stopped empties the lists.          *)
LEMMA MarkStoppedInv == ASSUME LanesInv, MarkStopped PROVE LanesInv'
<1> USE DEF LanesInv
<1>1. /\ UNCHANGED <<queue, prioItems, running, inReady, inPriority, ready, groupInReady, wpc,
                     cur, notifies>>
      /\ readyGroups' = <<>> /\ priority' = <<>>
  BY Zenon DEF MarkStopped, strandVars, workerVars
<1>2. ~Alive'
  BY <1>1, Zenon DEF MarkStopped, Alive
<1>3. readyGroups' \in Seq(Groups) /\ priority' \in Seq(Strands)
  BY <1>1
<1>4. LanesTypeOK'
  BY <1>1, <1>3, Zenon DEF LanesTypeOK
<1>5. QueuesOwn' /\ SlicesRun' /\ StrandSerial'
  BY <1>1, Zenon DEF QueuesOwn, SlicesRun, StrandSerial
<1>6. PriorityCounted'
  BY <1>1, Zenon DEF PriorityCounted
<1>7. ReadyExact'
  BY <1>1, ReadyFrame, Zenon DEF ReadyExact
<1>8. GroupsExact' /\ PriorityListed'
  BY <1>2, Zenon DEF GroupsExact, PriorityListed
<1>9. NoLostWakeup'
  BY <1>1, Zenon DEF NoLostWakeup, Asleep
<1> QED BY <1>4, <1>5, <1>6, <1>7, <1>8, <1>9, ZenonT(60)

(* What both ways to pick a strand s leave behind.                         *)
PickedFacts(s) ==
    /\ inReady[s]
    /\ ready' \in [Groups -> Seq(Strands)] /\ groupInReady' \in [Groups -> BOOLEAN]
    /\ readyGroups' \in Seq(Groups) /\ priority' \in Seq(Strands)
    /\ inPriority' \in [Strands -> BOOLEAN]
    /\ Elems(ready'[GroupOf[s]]) = Elems(ready[GroupOf[s]]) \ {s}
    /\ Distinct(ready'[GroupOf[s]])
    /\ \A h \in Groups \ {GroupOf[s]} : ready'[h] = ready[h]
    /\ \A h \in Groups : groupInReady'[h] <=> ready'[h] # <<>>
    /\ Distinct(readyGroups')
    /\ \A h \in Groups : groupInReady'[h] <=> h \in Elems(readyGroups')
    /\ \A x \in Strands : inPriority'[x] => x \in Elems(priority')
    /\ \A x \in Strands \ {s} : Servable(x) => x \in Elems(priority')

(* Picking from priority_ erases the strand from its group's list.         *)
LEMMA PickedByPriority ==
  ASSUME LanesInv, Alive, NEW s \in Strands, PickPriority(s)
  PROVE  PickedFacts(s)
<1> USE DEF LanesInv
<1>0. PICK g \in Groups : g = GroupOf[s]
  BY LanesAssumption, Zenon
<1>1. PICK k : k = Skipped
  BY Zenon
<1>2. /\ k < Len(priority) /\ s = priority[k + 1]
      /\ priority' = SubSeq(priority, k + 2, Len(priority))
      /\ inPriority' = [x \in Strands |->
                          inPriority[x] /\ \A j \in 1..(k + 1) : priority[j] # x]
      /\ ready' = [ready EXCEPT ![g] = Without(@, s)]
      /\ groupInReady' = [groupInReady EXCEPT ![g] = ready'[g] # <<>>]
      /\ readyGroups' = IF ready'[g] = <<>> THEN Without(readyGroups, g) ELSE readyGroups
  BY <1>0, <1>1, Zenon DEF PickPriority
<1>3. /\ priority \in Seq(Strands) /\ ready \in [Groups -> Seq(Strands)]
      /\ groupInReady \in [Groups -> BOOLEAN] /\ readyGroups \in Seq(Groups)
  BY Zenon DEF LanesTypeOK
<1>4. /\ k \in 0..Len(priority) /\ \A j \in 1..k : ~Servable(priority[j])
      /\ Servable(s)
  BY <1>1, <1>2, <1>3, SkippedFacts, Zenon
<1>5. inReady[s]
  BY <1>4, Zenon DEF Servable
<1>6. s \in Elems(ready[g]) /\ Distinct(ready[g]) /\ ready[g] \in Seq(Strands)
  BY <1>0, <1>3, <1>5, Zenon DEF ReadyExact
<1>7. PICK r : r = Without(ready[g], s)
  BY Zenon
<1>8. r \in Seq(Strands) /\ Distinct(r) /\ Elems(r) = Elems(ready[g]) \ {s}
  BY <1>6, <1>7, WithoutElements, Zenon
<1>9. /\ ready' \in [Groups -> Seq(Strands)] /\ ready'[g] = r
      /\ \A h \in Groups \ {g} : ready'[h] = ready[h]
  BY <1>2, <1>3, <1>7, <1>8, Zenon
<1>10. /\ groupInReady' \in [Groups -> BOOLEAN] /\ (groupInReady'[g] <=> r # <<>>)
       /\ \A h \in Groups \ {g} : groupInReady'[h] <=> groupInReady[h]
  BY <1>2, <1>3, <1>9, Zenon
<1>11. \A h \in Groups : groupInReady[h] <=> ready[h] # <<>>
  BY Zenon DEF ReadyExact
<1>12. \A h \in Groups : groupInReady'[h] <=> ready'[h] # <<>>
  BY ONLY <1>9, <1>10, <1>11, g \in Groups, Zenon
<1>13. /\ Distinct(readyGroups)
       /\ \A h \in Groups : groupInReady[h] <=> h \in Elems(readyGroups)
  BY Zenon DEF GroupsExact
<1>14. ready[g] # <<>>
  BY <1>6, NoElements, Zenon
<1>15. g \in Elems(readyGroups)
  BY <1>11, <1>13, <1>14, ZenonT(60)
<1>16. /\ readyGroups' \in Seq(Groups) /\ Distinct(readyGroups')
       /\ \A h \in Groups : groupInReady'[h] <=> h \in Elems(readyGroups')
  <2>1. CASE r = <<>>
    <3>1. readyGroups' = Without(readyGroups, g)
      BY <1>2, <1>9, <2>1, Zenon
    <3>2. /\ readyGroups' \in Seq(Groups) /\ Distinct(readyGroups')
          /\ Elems(readyGroups') = Elems(readyGroups) \ {g}
      BY <1>3, <1>13, <1>15, <3>1, WithoutElements, ZenonT(60)
    <3>3. \A h \in Groups : groupInReady'[h] <=> h \in Elems(readyGroups')
      BY ONLY <1>10, <1>13, <2>1, <3>2, g \in Groups, ZenonT(60)
    <3> QED BY <3>2, <3>3
  <2>2. CASE r # <<>>
    <3>1. readyGroups' = readyGroups
      BY <1>2, <1>9, <2>2, Zenon
    <3>2. \A h \in Groups : groupInReady'[h] <=> h \in Elems(readyGroups')
      BY ONLY <1>10, <1>13, <1>15, <2>2, <3>1, g \in Groups, ZenonT(60)
    <3> QED BY <1>3, <1>13, <3>1, <3>2, ZenonT(60)
  <2> QED BY <2>1, <2>2
<1>17. PICK t : t = SubSeq(priority, k + 2, Len(priority))
  BY Zenon
<1>18. k + 1 \in 0..Len(priority) /\ (k + 1) + 1 = k + 2 /\ Len(priority) \in Nat /\ k \in Nat
  <2>1. Len(priority) \in Nat
    BY <1>3
  <2> QED BY ONLY <1>2, <1>4, <2>1, SMTT(60)
<1>19. /\ t \in Seq(Strands) /\ Len(t) = Len(priority) - (k + 1)
       /\ \A i \in 1..(Len(priority) - (k + 1)) : t[i] = priority[i + (k + 1)]
  <2>1. t = SubSeq(priority, (k + 1) + 1, Len(priority))
    BY <1>17, <1>18, Zenon
  <2> QED BY ONLY <1>3, <1>18, <2>1, SuffixElements, ZenonT(60)
<1>20. ASSUME NEW i \in 1..Len(priority), ~(i <= k + 1) PROVE priority[i] \in Elems(t)
  <2>1. /\ i - (k + 1) \in 1..(Len(priority) - (k + 1)) /\ (i - (k + 1)) + (k + 1) = i
    BY ONLY <1>18, <1>20, SMTT(60)
  <2>2. t[i - (k + 1)] = priority[i] /\ i - (k + 1) \in 1..Len(t)
    BY ONLY <1>19, <2>1, Zenon
  <2> QED BY <2>2, Zenon DEF Elems
<1>21. \A i \in 1..Len(priority) : i <= k + 1 => i \in 1..(k + 1) /\ (i \in 1..k \/ i = k + 1)
  BY ONLY <1>18, SMT
<1>22. ASSUME NEW x \in Strands PROVE inPriority'[x] => x \in Elems(priority')
  <2>1. ASSUME inPriority'[x] PROVE x \in Elems(t)
    <3>1. inPriority[x] /\ \A j \in 1..(k + 1) : priority[j] # x
      BY <1>2, <2>1, Zenon
    <3>2. x \in Elems(priority)
      BY <3>1, Zenon DEF PriorityListed
    <3>3. PICK i \in 1..Len(priority) : x = priority[i]
      BY <3>2, Zenon DEF Elems
    <3> QED BY <1>20, <1>21, <3>1, <3>3, Zenon
  <2> QED BY <1>2, <1>17, <2>1, Zenon
<1>23. ASSUME NEW x \in Strands, x # s, Servable(x) PROVE x \in Elems(priority')
  <2>1. x \in Elems(priority)
    BY <1>23, Zenon DEF PriorityListed
  <2>2. PICK i \in 1..Len(priority) : x = priority[i]
    BY <2>1, Zenon DEF Elems
  <2>3. ~(i <= k + 1)
    BY <1>2, <1>4, <1>21, <1>23, <2>2, ZenonT(60)
  <2> QED BY <1>2, <1>17, <1>20, <2>2, <2>3, ZenonT(60)
<1>24. inPriority' \in [Strands -> BOOLEAN]
  BY <1>2, Zenon
<1>25. priority' \in Seq(Strands)
  BY <1>2, <1>17, <1>19, Zenon
<1> QED BY <1>0, <1>5, <1>8, <1>9, <1>10, <1>12, <1>16, <1>22, <1>23, <1>24, <1>25, ZenonT(60)
        DEF PickedFacts

(* Picking in turn rotates the groups and takes the list's head.           *)
LEMMA PickedInTurn ==
  ASSUME LanesInv, Alive, NEW s \in Strands, PickRoundRobin(s)
  PROVE  PickedFacts(s)
<1> USE DEF LanesInv
<1>1. PICK g : g = Head(readyGroups)
  BY Zenon
<1>2. /\ Skipped = Len(priority) /\ priority' = <<>> /\ readyGroups # <<>>
      /\ inPriority' = [x \in Strands |-> inPriority[x] /\ x \notin Elems(priority)]
      /\ s = Head(ready[g])
      /\ ready' = [ready EXCEPT ![g] = Tail(@)]
      /\ groupInReady' = [groupInReady EXCEPT ![g] = Len(ready[g]) > 1]
      /\ readyGroups' = IF Len(ready[g]) > 1 THEN Append(Tail(readyGroups), g)
                                             ELSE Tail(readyGroups)
  BY <1>1, Zenon DEF PickRoundRobin
<1>3. /\ ready \in [Groups -> Seq(Strands)]
      /\ groupInReady \in [Groups -> BOOLEAN] /\ readyGroups \in Seq(Groups)
  BY Zenon DEF LanesTypeOK
<1>4. PICK t : t = Tail(readyGroups)
  BY Zenon
<1>5. /\ Distinct(readyGroups)
      /\ \A h \in Groups : groupInReady[h] <=> h \in Elems(readyGroups)
  BY Zenon DEF GroupsExact
<1>6. /\ g \in Groups /\ g \in Elems(readyGroups) /\ t \in Seq(Groups)
      /\ Elems(readyGroups) = Elems(t) \cup {g} /\ Distinct(t) /\ g \notin Elems(t)
  BY <1>1, <1>2, <1>3, <1>4, <1>5, TailElements, Zenon
<1>7. \A h \in Groups : groupInReady[h] <=> ready[h] # <<>>
  BY Zenon DEF ReadyExact
<1>8. ready[g] # <<>> /\ ready[g] \in Seq(Strands) /\ Distinct(ready[g])
  BY <1>3, <1>5, <1>6, <1>7, Zenon DEF ReadyExact
<1>9. PICK r : r = Tail(ready[g])
  BY Zenon
<1>10. /\ s \in Elems(ready[g]) /\ r \in Seq(Strands) /\ Elems(ready[g]) = Elems(r) \cup {s}
       /\ (r # <<>> <=> Len(ready[g]) > 1) /\ Distinct(r) /\ s \notin Elems(r)
  BY <1>2, <1>8, <1>9, TailElements, Zenon
<1>11. g = GroupOf[s] /\ inReady[s]
  BY <1>6, <1>10, Zenon DEF ReadyExact
<1>12. Elems(r) = Elems(ready[g]) \ {s}
  BY <1>10, Zenon
<1>13. /\ ready' \in [Groups -> Seq(Strands)] /\ ready'[g] = r
       /\ \A h \in Groups \ {g} : ready'[h] = ready[h]
  BY <1>2, <1>3, <1>6, <1>9, <1>10, ZenonT(60)
<1>14. (Len(ready[g]) > 1) \in BOOLEAN
  BY <1>8
<1>15. /\ groupInReady' \in [Groups -> BOOLEAN] /\ (groupInReady'[g] <=> r # <<>>)
       /\ \A h \in Groups \ {g} : groupInReady'[h] <=> groupInReady[h]
  BY <1>2, <1>3, <1>6, <1>10, <1>14, Zenon
<1>16. \A h \in Groups : groupInReady'[h] <=> ready'[h] # <<>>
  BY ONLY <1>6, <1>7, <1>13, <1>15, ZenonT(60)
<1>17. /\ readyGroups' \in Seq(Groups) /\ Distinct(readyGroups')
       /\ \A h \in Groups : groupInReady'[h] <=> h \in Elems(readyGroups')
  <2>1. CASE r # <<>>
    <3>1. readyGroups' = Append(t, g)
      BY <1>2, <1>4, <1>10, <2>1, ZenonT(60)
    <3>2. /\ readyGroups' \in Seq(Groups) /\ Distinct(readyGroups')
          /\ Elems(readyGroups') = Elems(t) \cup {g}
      BY ONLY <1>6, <3>1, AppendElements, SMTT(60)
    <3>3. \A h \in Groups : groupInReady'[h] <=> h \in Elems(readyGroups')
      BY ONLY <1>5, <1>6, <1>15, <2>1, <3>2, Zenon
    <3> QED BY <3>2, <3>3, SMTT(60)
  <2>2. CASE r = <<>>
    <3>1. readyGroups' = t
      BY <1>2, <1>4, <1>10, <2>2, ZenonT(60)
    <3>2. \A h \in Groups : groupInReady'[h] <=> h \in Elems(readyGroups')
      BY ONLY <1>5, <1>6, <1>15, <2>2, <3>1, Zenon
    <3> QED BY <1>6, <3>1, <3>2, Zenon
  <2> QED BY <2>1, <2>2, SMTT(60)
<1>18. \A x \in Strands : ~inPriority'[x] /\ ~Servable(x)
  <2>1. \A x \in Strands : ~inPriority'[x]
    BY <1>2, Zenon DEF PriorityListed
  <2> QED BY <1>2, <2>1, NoneServable, Zenon
<1>19. inPriority' \in [Strands -> BOOLEAN]
  BY <1>2, Zenon
<1>20. priority' \in Seq(Strands)
  BY <1>2
<1> QED BY <1>10, <1>11, <1>12, <1>13, <1>15, <1>16, <1>17, <1>18, <1>19, <1>20, ZenonT(60)
        DEF PickedFacts

(* A worker picks a strand and takes its first item.                       *)
LEMMA StartSliceInv == ASSUME LanesInv, NEW w \in Workers, StartSlice(w) PROVE LanesInv'
<1> USE DEF LanesInv
<1>0. Alive /\ wpc[w] = "pick"
  BY Zenon DEF StartSlice, Alive
<1>1. PICK s \in Strands :
        /\ PickPriority(s) \/ PickRoundRobin(s)
        /\ inReady' = [inReady EXCEPT ![s] = FALSE]
        /\ cur' = [cur EXCEPT ![w] = Head(queue[s])]
        /\ queue' = [queue EXCEPT ![s] = Tail(@)]
        /\ running' = [running EXCEPT ![s] = TRUE]
  BY Zenon DEF StartSlice
<1>2. wpc' = [wpc EXCEPT ![w] = "slice"] /\ UNCHANGED <<prioItems, notifies>>
  BY Zenon DEF StartSlice
<1>3. PickedFacts(s)
  BY <1>0, <1>1, PickedByPriority, PickedInTurn, Zenon
<1>4. inReady[s] /\ ~running[s] /\ queue[s] # <<>> /\ queue[s] \in Seq(Entry)
  BY <1>3, ZenonT(60) DEF PickedFacts, ReadyExact, LanesTypeOK
<1>5. PICK q, t, h : /\ q = queue[s] /\ q \in Seq(Entry)
                     /\ t = Tail(queue[s]) /\ h = Head(queue[s])
  BY <1>4, Zenon
<1>6. /\ t \in Seq(Entry) /\ h \in Entry /\ h = q[1] /\ 1 \in 1..Len(q)
      /\ \A j \in 1..Len(t) : j + 1 \in 1..Len(q) /\ t[j] = q[j + 1]
  <2>1. q \in Seq(Entry) /\ q # <<>> /\ t = Tail(q) /\ h = Head(q)
    BY <1>4, <1>5, Zenon
  <2> QED BY ONLY <2>1, SMT
<1>7. Count(q) = Count(t) + IF h.priority THEN 1 ELSE 0
  BY <1>4, <1>5, CountTail, Zenon
<1>8. /\ inReady' \in [Strands -> BOOLEAN] /\ ~inReady'[s]
      /\ \A x \in Strands \ {s} : inReady'[x] <=> inReady[x]
      /\ cur' \in [Workers -> Entry \cup {NoEntry}] /\ cur'[w] = h
      /\ \A v \in Workers \ {w} : cur'[v] = cur[v]
  BY <1>1, <1>5, <1>6, Zenon DEF LanesTypeOK
<1>9. /\ queue' \in [Strands -> Seq(Entry)] /\ queue'[s] = t
      /\ \A x \in Strands \ {s} : queue'[x] = queue[x]
      /\ running' \in [Strands -> BOOLEAN] /\ running'[s]
      /\ \A x \in Strands \ {s} : running'[x] <=> running[x]
      /\ wpc' \in [Workers -> {"pick", "wait", "slice", "exit"}] /\ wpc'[w] = "slice"
      /\ \A v \in Workers \ {w} : wpc'[v] = wpc[v]
  BY <1>1, <1>2, <1>5, <1>6, ZenonT(60) DEF LanesTypeOK
<1>10. StrandOf[h.item] = s
  BY <1>5, <1>6, ZenonT(60) DEF QueuesOwn
<1>11. ASSUME NEW v \in Workers, v # w, wpc'[v] = "slice"
       PROVE  /\ wpc[v] = "slice" /\ cur'[v] = cur[v] /\ cur[v] \in Entry
              /\ StrandOf[cur[v].item] \in Strands \ {s} /\ running[StrandOf[cur[v].item]]
  <2>1. wpc[v] = "slice" /\ cur'[v] = cur[v]
    BY <1>8, <1>9, <1>11, ZenonT(60)
  <2>2. cur[v] \in Entry /\ running[StrandOf[cur[v].item]]
    BY <2>1, ZenonT(60) DEF SlicesRun
  <2>3. cur[v].item \in Items
    BY <2>2 DEF Entry
  <2>4. StrandOf[cur[v].item] \in Strands
    BY <2>3, LanesAssumption, Zenon
  <2> QED BY <1>4, <2>1, <2>2, <2>4, Zenon
<1>12. LanesTypeOK'
  <2>1. prioItems' \in [Strands -> Nat] /\ notifies' \in Nat
    BY <1>2, Zenon DEF LanesTypeOK
  <2> QED BY <1>3, <1>8, <1>9, <2>1, ZenonT(60) DEF LanesTypeOK, PickedFacts
<1>13. QueuesOwn'
  <2>1. ASSUME NEW x \in Strands, NEW j \in 1..Len(queue'[x])
        PROVE  StrandOf[queue'[x][j].item] = x
    <3>1. CASE x # s
      <4>1. queue'[x] = queue[x]
        BY <1>9, <3>1, Zenon
      <4> QED BY <2>1, <4>1, Zenon DEF QueuesOwn
    <3>2. CASE x = s
      <4>1. j + 1 \in 1..Len(queue[s]) /\ queue'[s][j] = queue[s][j + 1]
        BY <1>5, <1>6, <1>9, <2>1, <3>2, ZenonT(60)
      <4> QED BY <3>2, <4>1, Zenon DEF QueuesOwn
    <3> QED BY <3>1, <3>2
  <2> QED BY <2>1, Zenon DEF QueuesOwn
<1>14. SlicesRun'
  <2>1. ASSUME NEW v \in Workers, wpc'[v] = "slice"
        PROVE  cur'[v] \in Entry /\ running'[StrandOf[cur'[v].item]]
    <3>1. CASE v = w
      BY <1>6, <1>8, <1>9, <1>10, <3>1, ZenonT(60)
    <3>2. CASE v # w
      BY <1>9, <1>11, <2>1, <3>2, Zenon
    <3> QED BY <3>1, <3>2, SMTT(60)
  <2> QED BY <2>1, ZenonT(60) DEF SlicesRun
<1>15. StrandSerial'
  <2>1. \A v \in Workers : v # w /\ wpc'[v] = "slice" => StrandOf[cur'[v].item] # s
    BY <1>11, Zenon
  <2>2. ASSUME NEW u \in Workers, NEW v \in Workers, u # w, v # w, u # v,
               wpc'[u] = "slice", wpc'[v] = "slice"
        PROVE  StrandOf[cur'[u].item] # StrandOf[cur'[v].item]
    <3>1. wpc[u] = "slice" /\ cur'[u] = cur[u] /\ wpc[v] = "slice" /\ cur'[v] = cur[v]
      BY <1>11, <2>2, Zenon
    <3>2. StrandOf[cur[u].item] # StrandOf[cur[v].item]
      BY ONLY StrandSerial, u \in Workers, v \in Workers, <2>2, <3>1, Zenon DEF StrandSerial
    <3> QED BY ONLY <3>1, <3>2, Zenon
  <2>3. StrandOf[cur'[w].item] = s
    BY <1>8, <1>10, Zenon
  <2>4. ASSUME NEW u \in Workers, NEW v \in Workers, wpc'[u] = "slice", wpc'[v] = "slice", u # v
        PROVE  StrandOf[cur'[u].item] # StrandOf[cur'[v].item]
    BY ONLY <2>1, <2>2, <2>3, <2>4, u \in Workers, v \in Workers, ZenonT(60)
  <2> QED BY ONLY <2>4, Zenon DEF StrandSerial
<1>16. PriorityCounted'
  <2>1. ASSUME NEW x \in Strands, ~running'[x] PROVE prioItems'[x] = Count(queue'[x])
    BY <1>2, <1>9, <2>1, ZenonT(60) DEF PriorityCounted
  <2>2. ASSUME NEW v \in Workers, wpc'[v] = "slice"
        PROVE  prioItems'[StrandOf[cur'[v].item]] =
                 Count(queue'[StrandOf[cur'[v].item]]) + IF cur'[v].priority THEN 1 ELSE 0
    <3>1. CASE v = w
      <4>1. prioItems[s] = Count(queue[s])
        BY <1>4, Zenon DEF PriorityCounted
      <4> QED BY <1>2, <1>5, <1>7, <1>8, <1>9, <1>10, <3>1, <4>1, ZenonT(60)
    <3>2. CASE v # w
      <4>0. StrandOf[cur[v].item] \in Strands \ {s}
        BY <1>11, <2>2, <3>2, Zenon
      <4>1. PICK x \in Strands : x = StrandOf[cur[v].item] /\ x # s
        BY ONLY <4>0, Zenon
      <4>2. wpc[v] = "slice" /\ cur'[v] = cur[v]
        BY <1>11, <2>2, <3>2, ZenonT(60)
      <4>3. prioItems[x] = Count(queue[x]) + IF cur[v].priority THEN 1 ELSE 0
        BY <4>1, <4>2, Zenon DEF PriorityCounted
      <4> QED BY <1>2, <1>9, <4>1, <4>2, <4>3, ZenonT(60)
    <3> QED BY <3>1, <3>2, SMTT(60)
  <2> QED BY <2>1, <2>2, Zenon DEF PriorityCounted
<1>17. ReadySet' = ReadySet \ {s} /\ s \in ReadySet /\ IsFiniteSet(ReadySet)
  <2>1. IsFiniteSet(ReadySet)
    BY Zenon DEF ReadyExact
  <2>2. s \in ReadySet
    BY <1>4, Zenon DEF ReadySet
  <2>3. ReadySet' = ReadySet \ {s}
    BY ONLY <1>8, Zenon DEF ReadySet
  <2> QED BY <2>1, <2>2, <2>3, SMTT(60)
<1>18. ReadyExact'
  <2>1. PICK g \in Groups : g = GroupOf[s]
    BY LanesAssumption, Zenon
  <2>2. /\ Elems(ready'[g]) = Elems(ready[g]) \ {s} /\ Distinct(ready'[g])
        /\ \A h1 \in Groups \ {g} : ready'[h1] = ready[h1]
        /\ \A h1 \in Groups : groupInReady'[h1] <=> ready'[h1] # <<>>
    BY <1>3, <2>1, ZenonT(60) DEF PickedFacts
  <2>3. ASSUME NEW x \in Strands PROVE inReady'[x] <=> x \in Elems(ready'[GroupOf[x]])
    <3>1. GroupOf[x] \in Groups
      BY LanesAssumption, Zenon
    <3>2. CASE x = s
      BY <1>8, <2>1, <2>2, <3>2, ZenonT(60)
    <3>3. CASE x # s
      <4>1. x \in Elems(ready'[GroupOf[x]]) <=> x \in Elems(ready[GroupOf[x]])
        BY <2>2, <3>1, <3>3, Zenon
      <4> QED BY <1>8, <3>3, <4>1, Zenon DEF ReadyExact
    <3> QED BY <3>2, <3>3, SMTT(60)
  <2>4. ASSUME NEW h1 \in Groups
        PROVE  /\ Distinct(ready'[h1])
               /\ \A x \in Elems(ready'[h1]) : GroupOf[x] = h1
               /\ groupInReady'[h1] <=> ready'[h1] # <<>>
    <3>1. Distinct(ready[h1]) /\ \A x \in Elems(ready[h1]) : GroupOf[x] = h1
      BY Zenon DEF ReadyExact
    <3> QED BY ONLY <2>2, <3>1, h1 \in Groups, ZenonT(60)
  <2>5. ASSUME NEW x \in Strands, inReady'[x] PROVE ~running'[x] /\ queue'[x] # <<>>
    <3>1. x # s /\ inReady[x]
      BY <1>8, <2>5, Zenon
    <3> QED BY <1>9, <3>1, Zenon DEF ReadyExact
  <2>6. IsFiniteSet(ReadySet')
    BY <1>17, FS_RemoveElement, Zenon
  <2> QED BY <2>3, <2>4, <2>5, <2>6, ZenonT(60) DEF ReadyExact
<1>19. GroupsExact'
  BY <1>3, Zenon DEF GroupsExact, PickedFacts
<1>20. PriorityListed'
  <2>1. ASSUME NEW x \in Strands, Servable(x)' PROVE x \in Elems(priority')
    <3>1. x # s /\ Servable(x)
      BY <1>2, <1>8, <2>1, ZenonT(60) DEF Servable
    <3> QED BY <1>3, <3>1, Zenon DEF PickedFacts
  <2> QED BY <1>3, <2>1, Zenon DEF PriorityListed, PickedFacts
<1>21. NoLostWakeup'
  <2>1. Pickers' = Pickers \ {w} /\ w \in Pickers /\ Asleep' = Asleep
    BY <1>0, <1>9, Zenon DEF Pickers, Asleep
  <2>2. /\ Cardinality(Pickers') = Cardinality(Pickers) - 1
        /\ Cardinality(ReadySet') = Cardinality(ReadySet) - 1 /\ IsFiniteSet(ReadySet')
    BY <1>17, <2>1, PickersFinite, FS_RemoveElement, ZenonT(60)
  <2>3. Cardinality(ReadySet) \in Nat /\ notifies \in Nat /\ notifies' = notifies
    BY <1>2, <1>17, FS_CardinalityType, ZenonT(60) DEF LanesTypeOK
  <2>4. PICK a \in Int : a = 0 - 1
    OBVIOUS
  <2>5. /\ Cardinality(ReadySet') = Cardinality(ReadySet) + a
        /\ Cardinality(Pickers) + notifies + a <= Cardinality(Pickers') + notifies'
    BY ONLY <2>2, <2>3, <2>4, PickersFinite, SMTT(60)
  <2> QED BY <2>1, <2>2, <2>3, <2>5, WakeKept, ZenonT(60)
<1> QED BY <1>12, <1>13, <1>14, <1>15, <1>16, <1>18, <1>19, <1>20, <1>21, ZenonT(60)

(* The slice ends: the strand is idle, or ready again behind the others.   *)
LEMMA EndSliceInv == ASSUME LanesInv, NEW w \in Workers, EndSlice(w) PROVE LanesInv'
<1> USE DEF LanesInv
<1>0. PICK e, s, n : e = cur[w] /\ s = StrandOf[e.item] /\ n = PriorityLeft(e)
  BY Zenon
<1>1. /\ wpc[w] = "slice"
      /\ running' = [running EXCEPT ![s] = FALSE]
      /\ prioItems' = [prioItems EXCEPT ![s] = n]
      /\ cur' = [cur EXCEPT ![w] = NoEntry]
      /\ IF queue[s] # <<>> THEN MakeReady(s, n)
         ELSE UNCHANGED <<inReady, inPriority, readyVars>>
      /\ wpc' = [v \in Workers |->
                   IF v = w \/ (v \in Asleep /\ stopping /\ runningCount = 1)
                   THEN "pick" ELSE wpc[v]]
      /\ UNCHANGED <<queue, notifies>>
  BY <1>0, Zenon DEF EndSlice
<1>2. e \in Entry /\ running[s]
  BY <1>0, <1>1, Zenon DEF SlicesRun
<1>3. s \in Strands
  <2>1. e.item \in Items
    BY <1>2 DEF Entry
  <2> QED BY <1>0, <2>1, LanesAssumption, Zenon
<1>4. n \in Nat /\ n = Count(queue[s])
  <2>1. queue[s] \in Seq(Entry)
    BY <1>3, Zenon DEF LanesTypeOK
  <2>2. Count(queue[s]) \in Nat
    BY <2>1, CountFacts, Zenon
  <2>3. PICK d \in Nat : d = IF e.priority THEN 1 ELSE 0
    BY Zenon
  <2>4. prioItems[s] = Count(queue[s]) + d
    BY <1>0, <1>1, <2>3, Zenon DEF PriorityCounted
  <2>5. n = prioItems[s] - d
    BY <1>0, <2>3, Zenon DEF PriorityLeft
  <2> QED BY ONLY <2>2, <2>4, <2>5, d \in Nat, SMTT(60)
<1>5. Alive /\ ~inReady[s]
  BY <1>1, <1>2, <1>3, Zenon DEF Alive, ReadyExact
<1>6. /\ running' \in [Strands -> BOOLEAN] /\ ~running'[s]
      /\ \A x \in Strands \ {s} : running'[x] = running[x]
      /\ prioItems' \in [Strands -> Nat] /\ prioItems'[s] = n
      /\ \A x \in Strands \ {s} : prioItems'[x] = prioItems[x]
      /\ cur' \in [Workers -> Entry \cup {NoEntry}]
      /\ \A v \in Workers \ {w} : cur'[v] = cur[v]
  BY <1>1, <1>3, <1>4, ZenonT(60) DEF LanesTypeOK
<1>7. /\ wpc' \in [Workers -> {"pick", "wait", "slice", "exit"}] /\ wpc'[w] = "pick"
      /\ \A v \in Workers : wpc'[v] = "slice" => v # w /\ wpc[v] = "slice"
      /\ \A v \in Workers : wpc[v] = "pick" => wpc'[v] = "pick"
      /\ \A v \in Workers : wpc'[v] = "wait" => wpc[v] = "wait"
  <2>1. wpc \in [Workers -> {"pick", "wait", "slice", "exit"}]
    BY Zenon DEF LanesTypeOK
  <2> QED BY <1>1, <2>1
<1>8. ASSUME NEW v \in Workers, wpc'[v] = "slice"
      PROVE  /\ wpc[v] = "slice" /\ cur'[v] = cur[v] /\ cur[v] \in Entry
             /\ StrandOf[cur[v].item] \in Strands \ {s} /\ running[StrandOf[cur[v].item]]
  <2>1. v # w /\ wpc[v] = "slice" /\ cur'[v] = cur[v]
    BY <1>6, <1>7, <1>8, Zenon
  <2>2. cur[v] \in Entry /\ running[StrandOf[cur[v].item]]
    BY <2>1, Zenon DEF SlicesRun
  <2>3. cur[v].item \in Items
    BY <2>2 DEF Entry
  <2>4. StrandOf[cur[v].item] \in Strands
    BY <2>3, LanesAssumption, Zenon
  <2>5. StrandOf[cur[v].item] # s
    BY <1>0, <1>1, <2>1, ZenonT(60) DEF StrandSerial
  <2> QED BY <2>1, <2>2, <2>4, <2>5, Zenon
<1>9. QueuesOwn' /\ SlicesRun' /\ StrandSerial'
  <2>1. QueuesOwn'
    BY <1>1, Zenon DEF QueuesOwn
  <2>2. SlicesRun'
    BY <1>6, <1>8, ZenonT(60) DEF SlicesRun
  <2>3. ASSUME NEW u \in Workers, NEW v \in Workers, wpc'[u] = "slice", wpc'[v] = "slice", u # v
        PROVE  StrandOf[cur'[u].item] # StrandOf[cur'[v].item]
    <3>1. wpc[u] = "slice" /\ cur'[u] = cur[u] /\ wpc[v] = "slice" /\ cur'[v] = cur[v]
      BY <1>8, <2>3, Zenon
    <3>2. StrandOf[cur[u].item] # StrandOf[cur[v].item]
      BY ONLY StrandSerial, u \in Workers, v \in Workers, <2>3, <3>1, SMTT(60) DEF StrandSerial
    <3> QED BY ONLY <3>1, <3>2, Zenon
  <2>4. StrandSerial'
    BY ONLY <2>3, Zenon DEF StrandSerial
  <2> QED BY <2>1, <2>2, <2>4
<1>10. PriorityCounted'
  <2>1. ASSUME NEW x \in Strands, ~running'[x] PROVE prioItems'[x] = Count(queue'[x])
    BY <1>1, <1>4, <1>6, <2>1, ZenonT(60) DEF PriorityCounted
  <2>2. ASSUME NEW v \in Workers, wpc'[v] = "slice"
        PROVE  prioItems'[StrandOf[cur'[v].item]] =
                 Count(queue'[StrandOf[cur'[v].item]]) + IF cur'[v].priority THEN 1 ELSE 0
    <3>0. StrandOf[cur[v].item] \in Strands \ {s}
      BY <1>8, <2>2, Zenon
    <3>1. PICK x \in Strands : x = StrandOf[cur[v].item] /\ x # s
      BY ONLY <3>0, Zenon
    <3>2. wpc[v] = "slice" /\ cur'[v] = cur[v]
      BY <1>8, <2>2, Zenon
    <3>3. prioItems[x] = Count(queue[x]) + IF cur[v].priority THEN 1 ELSE 0
      BY <3>1, <3>2, Zenon DEF PriorityCounted
    <3> QED BY <1>1, <1>6, <3>1, <3>2, <3>3, ZenonT(60)
  <2> QED BY <2>1, <2>2, Zenon DEF PriorityCounted
<1>11. /\ notifies \in Nat /\ notifies' = notifies /\ (Asleep' # {} => Asleep # {})
       /\ IsFiniteSet(ReadySet) /\ Cardinality(ReadySet) \in Nat
  <2>1. Asleep' # {} => Asleep # {}
    BY <1>7, Zenon DEF Asleep
  <2>2. IsFiniteSet(ReadySet)
    BY Zenon DEF ReadyExact
  <2>3. Cardinality(ReadySet) \in Nat
    BY <2>2, FS_CardinalityType, Zenon
  <2> QED BY <1>1, <2>1, <2>2, <2>3, Zenon DEF LanesTypeOK
<1>12. Cardinality(Pickers) + 1 <= Cardinality(Pickers')
  <2>1. w \notin Pickers /\ Pickers \cup {w} \subseteq Pickers'
    BY <1>1, <1>7, Zenon DEF Pickers
  <2>2. Cardinality(Pickers \cup {w}) = Cardinality(Pickers) + 1
    BY <2>1, PickersFinite, FS_AddElement, Zenon
  <2>3. Cardinality(Pickers \cup {w}) <= Cardinality(Pickers')
    BY <2>1, PickersFinite, FS_Subset, Zenon
  <2> QED BY <2>2, <2>3, Zenon
<1>13. CASE queue[s] # <<>>
  <2>1. /\ inReady' \in [Strands -> BOOLEAN] /\ inPriority' \in [Strands -> BOOLEAN]
        /\ ready' \in [Groups -> Seq(Strands)] /\ groupInReady' \in [Groups -> BOOLEAN]
        /\ readyGroups' \in Seq(Groups) /\ priority' \in Seq(Strands)
        /\ ReadyExact' /\ GroupsExact' /\ PriorityListed'
        /\ s \notin ReadySet /\ ReadySet' = ReadySet \cup {s}
    <3>1. MakeReady(s, n) /\ queue'[s] # <<>>
      BY <1>1, <1>13, Zenon
    <3>2. \A x \in Strands \ {s} : /\ prioItems'[x] = prioItems[x] /\ running'[x] = running[x]
                                   /\ queue'[x] = queue[x]
      BY <1>1, <1>6, Zenon
    <3> QED BY <1>3, <1>4, <1>5, <1>6, <3>1, <3>2, MadeReady, ZenonT(60)
  <2>2. LanesTypeOK'
    BY <1>1, <1>6, <1>7, <1>11, <2>1, ZenonT(60) DEF LanesTypeOK
  <2>3. NoLostWakeup'
    <3>1. Cardinality(ReadySet') = Cardinality(ReadySet) + 1 /\ IsFiniteSet(ReadySet')
      BY <1>11, <2>1, FS_AddElement, Zenon
    <3>2. Cardinality(Pickers) + notifies + 1 <= Cardinality(Pickers') + notifies' /\ 1 \in Int
      BY ONLY <1>11, <1>12, PickersFinite, SMTT(60)
    <3> QED BY <1>11, <3>1, <3>2, WakeKept, Zenon
  <2> QED BY <1>9, <1>10, <2>1, <2>2, <2>3, Zenon
<1>14. CASE queue[s] = <<>>
  <2>1. UNCHANGED <<inReady, inPriority, ready, groupInReady, readyGroups, priority>>
    BY <1>1, <1>14, Zenon DEF readyVars
  <2>2. LanesTypeOK'
    BY <1>1, <1>6, <1>7, <1>11, <2>1, ZenonT(60) DEF LanesTypeOK
  <2>3. \A x \in Strands : inReady[x] => ~running'[x] /\ queue'[x] # <<>>
    BY <1>1, <1>5, <1>6, Zenon DEF ReadyExact
  <2>4. ReadyExact'
    BY <2>1, <2>3, ReadyFrame, Zenon
  <2>5. GroupsExact'
    BY <1>5, <2>1, Zenon DEF GroupsExact
  <2>6. PriorityListed'
    <3>1. \A x \in Strands : Servable(x)' => Servable(x)
      BY <1>5, <1>6, <2>1, Zenon DEF Servable
    <3> QED BY <1>5, <2>1, <3>1, Zenon DEF PriorityListed
  <2>7. NoLostWakeup'
    <3>1. ReadySet' = ReadySet
      BY <2>1, Zenon DEF ReadySet
    <3>2. /\ Cardinality(ReadySet) = Cardinality(ReadySet) + 0 /\ 0 \in Int
          /\ Cardinality(Pickers) + notifies + 0 <= Cardinality(Pickers') + notifies'
      BY ONLY <1>11, <1>12, PickersFinite, SMTT(60)
    <3> QED BY <1>11, <3>1, <3>2, WakeKept, Zenon
  <2> QED BY <1>9, <1>10, <2>2, <2>4, <2>5, <2>6, <2>7, ZenonT(60)
<1> QED BY <1>13, <1>14

(* The invariant holds at the start.                                       *)
LEMMA InitInv == ASSUME Init PROVE LanesInv
<1> USE DEF Init
<1>1. LanesTypeOK
  <2>1. <<>> \in Seq(Entry) /\ <<>> \in Seq(Strands) /\ <<>> \in Seq(Groups) /\ 0 \in Nat
    OBVIOUS
  <2> QED BY <2>1, Zenon DEF LanesTypeOK
<1>2. \A j \in 1..Len(<<>>) : FALSE
  OBVIOUS
<1>3. QueuesOwn /\ SlicesRun /\ StrandSerial
  <2>1. \A w \in Workers : wpc[w] # "slice"
    OBVIOUS
  <2> QED BY <1>2, <2>1, Zenon DEF QueuesOwn, SlicesRun, StrandSerial
<1>4. PriorityCounted
  <2>1. <<>> \in Seq(Entry)
    OBVIOUS
  <2>2. Count(<<>>) \in Nat /\ ~(Count(<<>>) > 0)
    BY <1>2, <2>1, CountFacts, Zenon
  <2>3. Count(<<>>) = 0
    BY ONLY <2>2, SMT
  <2>4. \A w \in Workers : wpc[w] # "slice"
    OBVIOUS
  <2> QED BY <2>3, <2>4, Zenon DEF PriorityCounted
<1>5. ReadySet = {}
  BY Zenon DEF ReadySet
<1>6. Elems(<<>>) = {} /\ Distinct(<<>>)
  BY <1>2, Zenon DEF Elems, Distinct
<1>7. ReadyExact
  <2>1. \A s \in Strands : ~inReady[s] /\ ready[GroupOf[s]] = <<>>
    BY LanesAssumption, Zenon
  <2>2. \A g \in Groups : ready[g] = <<>> /\ ~groupInReady[g]
    BY Zenon
  <2>3. IsFiniteSet(ReadySet)
    BY <1>5, FS_EmptySet, Zenon
  <2> QED BY <1>6, <2>1, <2>2, <2>3, Zenon DEF ReadyExact
<1>8. GroupsExact
  <2>1. \A g \in Groups : ~groupInReady[g]
    BY Zenon
  <2> QED BY <1>6, <2>1, Zenon DEF GroupsExact
<1>9. PriorityListed
  BY Zenon DEF PriorityListed, Servable
<1>10. NoLostWakeup
  BY Zenon DEF NoLostWakeup, Asleep
<1> QED BY <1>1, <1>3, <1>4, <1>7, <1>8, <1>9, <1>10, ZenonT(60) DEF LanesInv

(* Every step keeps it.                                                    *)
LEMMA NextInv == ASSUME LanesInv, [Next]_vars PROVE LanesInv'
<1>1. CASE UNCHANGED vars
  <2>1. notifies' \in Nat /\ notifies' >= notifies
    <3>1. notifies' = notifies /\ notifies \in Nat
      BY <1>1, Zenon DEF vars, LanesInv, LanesTypeOK
    <3> QED BY <3>1
  <2> QED BY <1>1, <2>1, FrameInv, Zenon DEF vars, strandVars, readyVars, workerVars
<1>2. CASE Next
  BY ZenonT(60), <1>2, PostInv, NotifyInv, StartSliceInv, NothingReadyInv, EndSliceInv, BeginStopInv,
     MarkStoppedInv, Zenon DEF Next
<1> QED BY <1>1, <1>2

(* LanesInv is an invariant of the scheduler: its lists and its flags      *)
(* agree at every moment, for any number of workers.                       *)
THEOREM LanesInvariant == Spec => []LanesInv
<1>1. Init => LanesInv
  BY InitInv
<1>2. LanesInv /\ [Next]_vars => LanesInv'
  BY NextInv
<1> QED BY <1>1, <1>2, PTL DEF Spec

(* The items of a strand run one at a time, whatever is posted to it while *)
(* it runs (running_ of run_worker).                                       *)
THEOREM StrandsAreSerial == Spec => []StrandSerial
<1>1. LanesInv => StrandSerial
  BY SMTT(60) DEF LanesInv
<1> QED BY <1>1, LanesInvariant, PTL

(* While a worker sleeps there are at least as many workers awake, or      *)
(* notifications under way, as strands that wait: post()'s notify_one      *)
(* outside the lock loses nothing.                                         *)
THEOREM WakeupsKept == Spec => []NoLostWakeup
<1>1. LanesInv => NoLostWakeup
  BY DEF LanesInv
<1> QED BY <1>1, LanesInvariant, PTL

(* A slice that starts while a ready strand has priority work starts such  *)
(* a strand.                                                               *)
LEMMA PriorityStep ==
  ASSUME LanesInv, NEW w \in Workers, StartSlice(w), NEW x \in Strands, inReady[x],
         \E j \in 1..Len(queue[x]) : queue[x][j].priority
  PROVE  \E s \in Strands : /\ running'[s] /\ ~running[s]
                            /\ \E j \in 1..Len(queue[s]) : queue[s][j].priority
<1> USE DEF LanesInv
<1>0. Alive
  BY Zenon DEF StartSlice, Alive
<1>1. PICK s \in Strands :
        /\ PickPriority(s) \/ PickRoundRobin(s)
        /\ running' = [running EXCEPT ![s] = TRUE]
  BY Zenon DEF StartSlice
<1>2. ASSUME NEW y \in Strands, inReady[y]
      PROVE  Servable(y) <=> \E j \in 1..Len(queue[y]) : queue[y][j].priority
  <2>1. prioItems[y] = Count(queue[y]) /\ queue[y] \in Seq(Entry)
    BY <1>2, ZenonT(60) DEF ReadyExact, PriorityCounted, LanesTypeOK
  <2> QED BY <1>2, <2>1, CountFacts, Zenon DEF Servable
<1>3. PickPriority(s)
  <2>1. Servable(x)
    BY <1>2, Zenon
  <2>2. Skipped # Len(priority)
    BY <1>0, <2>1, NoneServable, Zenon
  <2> QED BY <1>1, <2>2, Zenon DEF PickRoundRobin
<1>4. Servable(s)
  <2>1. priority \in Seq(Strands)
    BY Zenon DEF LanesTypeOK
  <2> QED BY <1>3, <2>1, SkippedFacts, Zenon DEF PickPriority
<1>5. inReady[s] /\ ~running[s] /\ running'[s]
  <2>1. inReady[s]
    BY <1>4, Zenon DEF Servable
  <2>2. ~running[s]
    BY <2>1, Zenon DEF ReadyExact
  <2>3. running \in [Strands -> BOOLEAN]
    BY Zenon DEF LanesTypeOK
  <2> QED BY ONLY <1>1, <2>1, <2>2, <2>3, s \in Strands, Zenon
<1> QED BY <1>2, <1>4, <1>5, Zenon

(* Priority work that is ready is served before other work, whatever stale *)
(* entries priority_ holds (pick_locked drops them as it meets them).      *)
THEOREM PriorityServedFirst == Spec => PriorityFirst
<1> DEFINE A == \A w \in Workers :
          StartSlice(w) /\ (\E s \in Strands : inReady[s] /\ \E j \in 1..Len(queue[s]) :
                                                               queue[s][j].priority)
          => \E s \in Strands :
                /\ running'[s] /\ ~running[s]
                /\ \E j \in 1..Len(queue[s]) : queue[s][j].priority
<1>1. LanesInv /\ [Next]_vars => [A]_vars
  BY PriorityStep, Zenon
<1>2. PriorityFirst <=> [][A]_vars
  BY DEF PriorityFirst
<1> QED BY <1>1, <1>2, LanesInvariant, PTL DEF Spec

=============================================================================
