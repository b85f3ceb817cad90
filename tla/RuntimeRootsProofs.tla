------------------------- MODULE RuntimeRootsProofs -------------------------
(***************************************************************************)
(* RuntimeRoots for any finite set of roots of any kinds: ~Runtime does    *)
(* not return under a root, and a foreign coroutine is resumed only while  *)
(* it is parked.  roots_ and outstanding_ are shown to count what they     *)
(* stand for, and EnterState::phase to decide the race between the end of  *)
(* the root and the destruction of the coroutine that awaits it.           *)
(***************************************************************************)
EXTENDS RuntimeRoots, FiniteSetTheorems, TLAPS

Waiting == {r \in Roots : OnThread(r) /\ awaiter[r] = "parked"}

(* roots_ and live_roots_ are the roots between admit and release_root;    *)
(* outstanding_ is the parked coroutines of the CompletionThread.          *)
Counted ==
    /\ liveRoots = InFlight /\ roots = Cardinality(InFlight)
    /\ outstanding = Cardinality(Waiting)

(* ~Runtime closes admission before anything else.                         *)
ClosedWhenStopping == runtime # "up" => accepting = FALSE

(* Who is parked, by the phase the root and its awaiter agreed on.         *)
PhaseDecides ==
    \A r \in Roots :
        /\ pc[r] = "new" => awaiter[r] = "none"
        /\ pc[r] \in {"running", "finishing"} /\ IsEnter(r) /\ phase[r] = "running"
              => awaiter[r] = "parked"
        /\ pc[r] = "handing" => phase[r] = "finished"
        /\ cont[r] = "queued" => phase[r] = "finished"
        /\ phase[r] = "finished" /\ ticket[r] = "pending" => awaiter[r] = "parked"

Inv ==
    /\ RootTypeOK /\ FlagTypeOK /\ HostTypeOK
    /\ Counted /\ ClosedWhenStopping /\ PhaseDecides /\ NoRootOutlivesRuntime

(* Sets of roots are finite, so removing and adding one root counts by one. *)
LEMMA FiniteCounts ==
  ASSUME NEW S \in SUBSET Roots
  PROVE  /\ IsFiniteSet(S) /\ Cardinality(S) \in Nat
         /\ Cardinality(S) = 0 => S = {}
         /\ \A r \in S : Cardinality(S) > 0 /\ Cardinality(S \ {r}) = Cardinality(S) - 1
         /\ \A r \in Roots \ S : Cardinality(S \cup {r}) = Cardinality(S) + 1
<1>1. IsFiniteSet(S)
  BY RootsAssumption, FS_Subset, Zenon
<1>2. Cardinality(S) \in Nat /\ (Cardinality(S) = 0 => S = {})
  BY <1>1, FS_CardinalityType, FS_EmptySet, Zenon
<1>3. ASSUME NEW r \in S PROVE Cardinality(S) > 0 /\ Cardinality(S \ {r}) = Cardinality(S) - 1
  <2>1. Cardinality(S) > 0
    BY <1>2
  <2>2. Cardinality(S \ {r}) = Cardinality(S) - 1
    BY <1>1, FS_RemoveElement, Zenon
  <2> QED
    BY <2>1, <2>2, Zenon
<1>4. ASSUME NEW r \in Roots \ S PROVE Cardinality(S \cup {r}) = Cardinality(S) + 1
  BY <1>1, FS_AddElement, Zenon
<1> QED
  BY <1>1, <1>2, <1>3, <1>4, Zenon

(* Nothing is in flight and nobody is parked at first.                     *)
LEMMA InitInv == Init => Inv
<1> SUFFICES ASSUME Init PROVE Inv
  BY Zenon
<1>1. RootTypeOK /\ HostTypeOK
  BY Zenon DEF Init, RootTypeOK, HostTypeOK, Finishing
<1>2. FlagTypeOK
  BY Zenon DEF Init, FlagTypeOK
<1>3. InFlight = {} /\ Waiting = {}
  BY Zenon DEF Init, InFlight, Finishing, Waiting
<1>4. Counted
  BY <1>3, FS_EmptySet, Zenon DEF Init, Counted
<1>5. ClosedWhenStopping /\ PhaseDecides /\ NoRootOutlivesRuntime
  BY Zenon DEF Init, ClosedWhenStopping, PhaseDecides, NoRootOutlivesRuntime
<1> QED
  BY <1>1, <1>2, <1>4, <1>5, Zenon DEF Inv

(* Every step of a root, a coroutine, a host thread or a destructor keeps  *)
(* the invariant.                                                          *)
LEMMA NextInv == Inv /\ [Next]_vars => Inv'
<1> SUFFICES ASSUME Inv, [Next]_vars PROVE Inv'
  BY Zenon
<1> USE DEF Inv
<1> DEFINE Same == InFlight' = InFlight /\ Waiting' = Waiting
<1>0. ASSUME Same, UNCHANGED <<roots, liveRoots, outstanding>> PROVE Counted'
  BY <1>0, Zenon DEF Counted
<1>1. CASE UNCHANGED vars
  <2>1. RootTypeOK'
    BY <1>1, Zenon DEF vars, rootVars, countVars, RootTypeOK, Finishing
  <2>2. FlagTypeOK'
    BY <1>1, Zenon DEF vars, rootVars, countVars, FlagTypeOK
  <2>3. Same
    BY <1>1, ZenonT(60) DEF vars, rootVars, countVars, InFlight, Waiting, OnThread, RootTypeOK, Finishing
  <2>4. Counted'
    BY <1>1, <1>0, <2>3, Zenon DEF vars, rootVars, countVars
  <2>5. HostTypeOK'
    BY <1>1, <2>4, Zenon DEF vars, rootVars, countVars, HostTypeOK
  <2>6. ClosedWhenStopping' /\ NoRootOutlivesRuntime'
    BY <1>1, <2>3, Zenon DEF vars, rootVars, countVars, ClosedWhenStopping, NoRootOutlivesRuntime
  <2>7. PhaseDecides'
    BY <1>1, Zenon DEF vars, rootVars, countVars, PhaseDecides, RootTypeOK, Finishing, IsEnter
  <2> QED
    BY <2>1, <2>2, <2>4, <2>5, <2>6, <2>7, ZenonT(60)
<1>2. ASSUME NEW r \in Roots, Start(r) PROVE Inv'
  <2>1. RootTypeOK'
    BY <1>2, ZenonT(60) DEF Start, countVars, RootTypeOK, Finishing
  <2>2. FlagTypeOK'
    BY <1>2, Zenon DEF Start, countVars, FlagTypeOK
  <2>3. Counted'
    <3>1. CASE accepting
      <4>1. InFlight' = InFlight \cup {r} /\ r \notin InFlight
        BY <1>2, <3>1 DEF Start, InFlight, RootTypeOK, Finishing
      <4>2. Cardinality(InFlight') = Cardinality(InFlight) + 1
        BY <4>1, FiniteCounts, ZenonT(60) DEF InFlight
      <4>3. outstanding' = Cardinality(Waiting')
        <5>1. CASE OnThread(r)
          <6>1. Waiting' = Waiting \cup {r} /\ r \notin Waiting
            BY <1>2, <3>1, <5>1, SMTT(60) DEF Start, Waiting, OnThread, IsEnter, RootTypeOK, PhaseDecides
          <6> QED
            BY <1>2, <3>1, <5>1, <6>1, FiniteCounts, SMTT(60) DEF Start, Counted, Waiting
        <5>2. CASE ~OnThread(r)
          <6>1. Waiting' = Waiting
            BY <1>2, <3>1, <5>2, ZenonT(60) DEF Start, Waiting, OnThread, RootTypeOK
          <6> QED
            BY <1>2, <3>1, <5>2, <6>1, ZenonT(60) DEF Start, Counted
        <5> QED
          BY <5>1, <5>2, ZenonT(60)
      <4> QED
        BY <1>2, <3>1, <4>1, <4>2, <4>3, Zenon DEF Start, Counted
    <3>2. CASE ~accepting
      <4>1. Same
        BY <1>2, <3>2 DEF Start, InFlight, Waiting, OnThread, RootTypeOK, Finishing
      <4> QED
        BY <1>0, <1>2, <3>2, <4>1, Zenon DEF Start
    <3> QED
      BY <3>1, <3>2, Zenon
  <2>4. roots' \in Nat /\ outstanding' \in Nat
    BY <2>3, FiniteCounts, Zenon DEF Counted, InFlight, Waiting
  <2>5. HostTypeOK'
    BY <1>2, <2>4, Zenon DEF Start, countVars, HostTypeOK
  <2>6. ClosedWhenStopping' /\ NoRootOutlivesRuntime'
    BY <1>2, Zenon DEF Start, countVars, ClosedWhenStopping, InFlight, RootTypeOK, Finishing, NoRootOutlivesRuntime
  <2>7. PhaseDecides'
    BY <1>2, SMTT(60) DEF Start, countVars, PhaseDecides, RootTypeOK, Finishing, IsEnter
  <2> QED
    BY <2>1, <2>2, <2>3, <2>5, <2>6, <2>7, ZenonT(60)
<1>3. ASSUME NEW r \in Roots, EndBody(r) PROVE Inv'
  <2>1. RootTypeOK'
    BY <1>3, Zenon DEF EndBody, countVars, RootTypeOK, Finishing
  <2>2. FlagTypeOK'
    BY <1>3, Zenon DEF EndBody, countVars, FlagTypeOK
  <2>3. Same
    BY <1>3, ZenonT(60) DEF EndBody, countVars, InFlight, Waiting, OnThread, RootTypeOK, Finishing
  <2>4. Counted'
    BY <1>3, <1>0, <2>3, Zenon DEF EndBody, countVars
  <2>5. HostTypeOK'
    BY <1>3, <2>4, Zenon DEF EndBody, countVars, HostTypeOK
  <2>6. ClosedWhenStopping' /\ NoRootOutlivesRuntime'
    BY <1>3, <2>3, Zenon DEF EndBody, countVars, ClosedWhenStopping, NoRootOutlivesRuntime
  <2>7. PhaseDecides'
    BY <1>3, SMTT(60) DEF EndBody, countVars, PhaseDecides, RootTypeOK, Finishing, IsEnter
  <2> QED
    BY <2>1, <2>2, <2>4, <2>5, <2>6, <2>7, Zenon
<1>4. ASSUME NEW r \in Roots, FinishEnter(r) PROVE Inv'
  <2>1. RootTypeOK'
    BY <1>4, ZenonT(60) DEF FinishEnter, RootTypeOK, Finishing
  <2>2. FlagTypeOK'
    BY <1>4, Zenon DEF FinishEnter, FlagTypeOK
  <2>3. Same
    BY <1>4, ZenonT(60) DEF FinishEnter, InFlight, Waiting, OnThread, RootTypeOK, Finishing
  <2>4. Counted'
    BY <1>4, <1>0, <2>3, Zenon DEF FinishEnter
  <2>5. HostTypeOK'
    BY <1>4, <2>4 DEF FinishEnter, HostTypeOK
  <2>6. ClosedWhenStopping' /\ NoRootOutlivesRuntime'
    BY <1>4, <2>3, Zenon DEF FinishEnter, ClosedWhenStopping, NoRootOutlivesRuntime
  <2>7. PhaseDecides'
    BY <1>4, SMTT(60) DEF FinishEnter, PhaseDecides, RootTypeOK, Finishing, IsEnter
  <2> QED
    BY <2>1, <2>2, <2>4, <2>5, <2>6, <2>7, Zenon
<1>5. ASSUME NEW r \in Roots, Hand(r) PROVE Inv'
  <2>1. RootTypeOK'
    BY <1>5, ZenonT(60) DEF Hand, Drop, Claim, RootTypeOK, Finishing
  <2>2. FlagTypeOK'
    BY <1>5, Zenon DEF Hand, Drop, Claim, FlagTypeOK
  <2>3. Same
    BY <1>5, ZenonT(60) DEF Hand, Drop, Claim, InFlight, Waiting, OnThread, RootTypeOK, Finishing
  <2>4. Counted'
    BY <1>5, <1>0, <2>3, Zenon DEF Hand, Drop, Claim
  <2>5. HostTypeOK'
    BY <1>5, <2>4 DEF Hand, Drop, Claim, HostTypeOK
  <2>6. ClosedWhenStopping' /\ NoRootOutlivesRuntime'
    BY <1>5, <2>3, ZenonT(60) DEF Hand, Drop, Claim, ClosedWhenStopping, NoRootOutlivesRuntime
  <2>7. PhaseDecides'
    BY <1>5, SMTT(60) DEF Hand, Drop, Claim, PhaseDecides, RootTypeOK, Finishing, IsEnter
  <2> QED
    BY <2>1, <2>2, <2>4, <2>5, <2>6, <2>7, Zenon
<1>6. ASSUME NEW r \in Roots, FinishOwned(r) PROVE Inv'
  <2>1. RootTypeOK'
    BY <1>6, Zenon DEF FinishOwned, countVars, RootTypeOK, Finishing
  <2>2. FlagTypeOK'
    BY <1>6, Zenon DEF FinishOwned, countVars, FlagTypeOK
  <2>3. Same
    BY <1>6, ZenonT(60) DEF FinishOwned, countVars, InFlight, Waiting, OnThread, RootTypeOK, Finishing
  <2>4. Counted'
    BY <1>6, <1>0, <2>3, Zenon DEF FinishOwned, countVars
  <2>5. HostTypeOK'
    BY <1>6, <2>4, Zenon DEF FinishOwned, countVars, HostTypeOK
  <2>6. ClosedWhenStopping' /\ NoRootOutlivesRuntime'
    BY <1>6, <2>3, Zenon DEF FinishOwned, countVars, ClosedWhenStopping, NoRootOutlivesRuntime
  <2>7. PhaseDecides'
    BY <1>6, ZenonT(60) DEF FinishOwned, countVars, PhaseDecides, RootTypeOK, Finishing, IsEnter
  <2> QED
    BY <2>1, <2>2, <2>4, <2>5, <2>6, <2>7, Zenon
<1>7. ASSUME NEW r \in Roots, ReleaseRoot(r) PROVE Inv'
  <2>1. RootTypeOK'
    BY <1>7, Zenon DEF ReleaseRoot, countVars, RootTypeOK, Finishing
  <2>2. FlagTypeOK'
    BY <1>7, Zenon DEF ReleaseRoot, countVars, FlagTypeOK
  <2>3. Counted'
    <3>1. InFlight' = InFlight \ {r} /\ r \in InFlight
      BY <1>7, Zenon DEF ReleaseRoot, InFlight, RootTypeOK, Finishing
    <3>2. Cardinality(InFlight') = Cardinality(InFlight) - 1
      BY <3>1, FiniteCounts, Zenon DEF InFlight
    <3>3. Waiting' = Waiting
      BY <1>7, Zenon DEF ReleaseRoot, Waiting, OnThread
    <3> QED
      BY <1>7, <3>1, <3>2, <3>3, Zenon DEF ReleaseRoot, Counted
  <2>4. roots' \in Nat /\ outstanding' \in Nat
    BY <2>3, FiniteCounts, Zenon DEF Counted, InFlight, Waiting
  <2>5. HostTypeOK'
    BY <1>7, <2>4, Zenon DEF ReleaseRoot, countVars, HostTypeOK
  <2>6. ClosedWhenStopping' /\ NoRootOutlivesRuntime'
    BY <1>7, Zenon DEF ReleaseRoot, countVars, ClosedWhenStopping, InFlight, RootTypeOK, Finishing, NoRootOutlivesRuntime
  <2>7. PhaseDecides'
    BY <1>7, ZenonT(60) DEF ReleaseRoot, countVars, PhaseDecides, RootTypeOK, Finishing, IsEnter
  <2> QED
    BY <2>1, <2>2, <2>3, <2>5, <2>6, <2>7, Zenon
<1>8. ASSUME NEW r \in Roots, ResumeContinuation(r) PROVE Inv'
  <2>1. RootTypeOK'
    BY <1>8, ZenonT(60) DEF ResumeContinuation, Leave, countVars, RootTypeOK, Finishing
  <2>2. FlagTypeOK'
    BY <1>8, Zenon DEF ResumeContinuation, Leave, countVars, FlagTypeOK
  <2>3. Counted'
    <3>1. InFlight' = InFlight
      BY <1>8, Zenon DEF ResumeContinuation, InFlight
    <3>2. outstanding' = Cardinality(Waiting')
      <4>1. CASE OnThread(r) /\ ticket[r] = "pending"
        <5>1. Waiting' = Waiting \ {r} /\ r \in Waiting
          BY <1>8, <4>1, SMTT(60) DEF ResumeContinuation, Waiting, OnThread, RootTypeOK, PhaseDecides
        <5> QED
          BY <1>8, <4>1, <5>1, FiniteCounts, SMTT(60) DEF ResumeContinuation, Leave, Counted, Waiting
      <4>2. CASE ~(OnThread(r) /\ ticket[r] = "pending")
        <5>1. Waiting' = Waiting
          BY <1>8, <4>2, ZenonT(60) DEF ResumeContinuation, Waiting, OnThread, RootTypeOK
        <5> QED
          BY <1>8, <4>2, <5>1, Zenon DEF ResumeContinuation, Leave, Counted
      <4> QED
        BY <4>1, <4>2, ZenonT(60)
    <3> QED
      BY <1>8, <3>1, <3>2, Zenon DEF ResumeContinuation, Counted
  <2>4. roots' \in Nat /\ outstanding' \in Nat
    BY <2>3, FiniteCounts, Zenon DEF Counted, InFlight, Waiting
  <2>5. HostTypeOK'
    BY <1>8, <2>4, Zenon DEF ResumeContinuation, Leave, countVars, HostTypeOK
  <2>6. ClosedWhenStopping' /\ NoRootOutlivesRuntime'
    BY <1>8, Zenon DEF ResumeContinuation, ClosedWhenStopping, NoRootOutlivesRuntime, InFlight
  <2>7. PhaseDecides'
    BY <1>8, SMTT(60) DEF ResumeContinuation, Leave, countVars, PhaseDecides, RootTypeOK, Finishing,
                IsEnter
  <2> QED
    BY <2>1, <2>2, <2>3, <2>5, <2>6, <2>7, Zenon
<1>9. ASSUME NEW r \in Roots, DropQueued(r) PROVE Inv'
  <2>1. RootTypeOK'
    BY <1>9, Zenon DEF DropQueued, Drop, Claim, RootTypeOK, Finishing
  <2>2. FlagTypeOK'
    BY <1>9, Zenon DEF DropQueued, Drop, Claim, FlagTypeOK
  <2>3. Same
    BY <1>9, ZenonT(60) DEF DropQueued, Drop, Claim, InFlight, Waiting, OnThread, RootTypeOK, Finishing
  <2>4. Counted'
    BY <1>9, <1>0, <2>3, Zenon DEF DropQueued, Drop, Claim
  <2>5. HostTypeOK'
    BY <1>9, <2>4 DEF DropQueued, Drop, Claim, HostTypeOK
  <2>6. ClosedWhenStopping' /\ NoRootOutlivesRuntime'
    BY <1>9, <2>3, Zenon DEF DropQueued, Drop, Claim, ClosedWhenStopping, NoRootOutlivesRuntime
  <2>7. PhaseDecides'
    BY <1>9, SMTT(60) DEF DropQueued, Drop, Claim, PhaseDecides, RootTypeOK, Finishing, IsEnter
  <2> QED
    BY <2>1, <2>2, <2>4, <2>5, <2>6, <2>7, Zenon
<1>10. ASSUME NEW r \in Roots, DestroyAwaiter(r) PROVE Inv'
  <2>1. RootTypeOK'
    BY <1>10, ZenonT(60) DEF DestroyAwaiter, Leave, Claim, RootTypeOK, Finishing
  <2>2. FlagTypeOK'
    BY <1>10, Zenon DEF DestroyAwaiter, Leave, Claim, FlagTypeOK
  <2>3. Counted'
    <3>1. InFlight' = InFlight
      BY <1>10, Zenon DEF DestroyAwaiter, InFlight
    <3>2. outstanding' = Cardinality(Waiting')
      <4>1. CASE OnThread(r)
        <5>1. Waiting' = Waiting \ {r} /\ r \in Waiting
          BY <1>10, <4>1, Zenon DEF DestroyAwaiter, Waiting, OnThread, RootTypeOK
        <5> QED
          BY <1>10, <4>1, <5>1, FiniteCounts, Zenon DEF DestroyAwaiter, Leave, Counted, Waiting
      <4>2. CASE ~OnThread(r)
        <5>1. Waiting' = Waiting
          BY <1>10, <4>2, Zenon DEF DestroyAwaiter, Waiting, OnThread, RootTypeOK
        <5> QED
          BY <1>10, <4>2, <5>1, Zenon DEF DestroyAwaiter, Leave, Counted
      <4> QED
        BY <4>1, <4>2, Zenon
    <3> QED
      BY <1>10, <3>1, <3>2, Zenon DEF DestroyAwaiter, Counted
  <2>4. roots' \in Nat /\ outstanding' \in Nat
    BY <2>3, FiniteCounts, Zenon DEF Counted, InFlight, Waiting
  <2>5. HostTypeOK'
    BY <1>10, <2>4 DEF DestroyAwaiter, Leave, Claim, HostTypeOK
  <2>6. ClosedWhenStopping' /\ NoRootOutlivesRuntime'
    BY <1>10, Zenon DEF DestroyAwaiter, Leave, Claim, ClosedWhenStopping, NoRootOutlivesRuntime,
                    InFlight
  <2>7. PhaseDecides'
    BY <1>10, SMTT(60) DEF DestroyAwaiter, Leave, Claim, PhaseDecides, RootTypeOK, Finishing, IsEnter
  <2> QED
    BY <2>1, <2>2, <2>3, <2>5, <2>6, <2>7, Zenon
<1>11. ASSUME NEW r \in Roots, RequestStop(r) PROVE Inv'
  <2>1. RootTypeOK'
    BY <1>11, Zenon DEF RequestStop, countVars, RootTypeOK, Finishing
  <2>2. FlagTypeOK'
    BY <1>11, Zenon DEF RequestStop, countVars, FlagTypeOK
  <2>3. Same
    BY <1>11, ZenonT(60) DEF RequestStop, countVars, InFlight, Waiting, OnThread, RootTypeOK, Finishing
  <2>4. Counted'
    BY <1>11, <1>0, <2>3, Zenon DEF RequestStop, countVars
  <2>5. HostTypeOK'
    BY <1>11, <2>4, Zenon DEF RequestStop, countVars, HostTypeOK
  <2>6. ClosedWhenStopping' /\ NoRootOutlivesRuntime'
    BY <1>11, <2>3, Zenon DEF RequestStop, countVars, ClosedWhenStopping, NoRootOutlivesRuntime
  <2>7. PhaseDecides'
    BY <1>11, Zenon DEF RequestStop, countVars, PhaseDecides, RootTypeOK, Finishing, IsEnter
  <2> QED
    BY <2>1, <2>2, <2>4, <2>5, <2>6, <2>7, Zenon
<1>12. CASE CloseThread
  <2>1. RootTypeOK'
    BY <1>12, Zenon DEF CloseThread, rootVars, countVars, RootTypeOK, Finishing
  <2>2. FlagTypeOK'
    BY <1>12, Zenon DEF CloseThread, rootVars, countVars, FlagTypeOK
  <2>3. Same
    BY <1>12, Zenon DEF CloseThread, rootVars, countVars, InFlight, Waiting, OnThread, RootTypeOK,
                 Finishing
  <2>4. Counted'
    BY <1>12, <1>0, <2>3, Zenon DEF CloseThread, rootVars, countVars
  <2>5. HostTypeOK'
    BY <1>12, <2>4, Zenon DEF CloseThread, rootVars, countVars, HostTypeOK
  <2>6. ClosedWhenStopping' /\ NoRootOutlivesRuntime'
    BY <1>12, <2>3, Zenon DEF CloseThread, rootVars, countVars, ClosedWhenStopping,
                       NoRootOutlivesRuntime
  <2>7. PhaseDecides'
    BY <1>12, ZenonT(60) DEF CloseThread, rootVars, countVars, PhaseDecides, RootTypeOK, Finishing, IsEnter
  <2> QED
    BY <2>1, <2>2, <2>4, <2>5, <2>6, <2>7, Zenon
<1>13. CASE JoinThread
  <2>1. RootTypeOK'
    BY <1>13, Zenon DEF JoinThread, rootVars, countVars, RootTypeOK, Finishing
  <2>2. FlagTypeOK'
    BY <1>13, Zenon DEF JoinThread, rootVars, countVars, FlagTypeOK
  <2>3. Same
    BY <1>13, Zenon DEF JoinThread, rootVars, countVars, InFlight, Waiting, OnThread, RootTypeOK,
                 Finishing
  <2>4. Counted'
    BY <1>13, <1>0, <2>3, Zenon DEF JoinThread, rootVars, countVars
  <2>5. HostTypeOK'
    BY <1>13, <2>4, Zenon DEF JoinThread, rootVars, countVars, HostTypeOK
  <2>6. ClosedWhenStopping' /\ NoRootOutlivesRuntime'
    BY <1>13, <2>3, Zenon DEF JoinThread, rootVars, countVars, ClosedWhenStopping,
                       NoRootOutlivesRuntime
  <2>7. PhaseDecides'
    BY <1>13, Zenon DEF JoinThread, rootVars, countVars, PhaseDecides, RootTypeOK, Finishing, IsEnter
  <2> QED
    BY <2>1, <2>2, <2>4, <2>5, <2>6, <2>7, Zenon
<1>14. CASE Shutdown
  <2>1. RootTypeOK'
    BY <1>14, Zenon DEF Shutdown, rootVars, countVars, RootTypeOK, Finishing
  <2>2. FlagTypeOK'
    BY <1>14, Zenon DEF Shutdown, rootVars, countVars, FlagTypeOK
  <2>3. Same
    BY <1>14, Zenon DEF Shutdown, rootVars, countVars, InFlight, Waiting, OnThread, RootTypeOK,
                 Finishing
  <2>4. Counted'
    BY <1>14, <1>0, <2>3, Zenon DEF Shutdown, rootVars, countVars
  <2>5. HostTypeOK'
    BY <1>14, <2>4, Zenon DEF Shutdown, rootVars, countVars, HostTypeOK
  <2>6. ClosedWhenStopping' /\ NoRootOutlivesRuntime'
    BY <1>14, <2>3, Zenon DEF Shutdown, rootVars, countVars, ClosedWhenStopping, NoRootOutlivesRuntime
  <2>7. PhaseDecides'
    BY <1>14, Zenon DEF Shutdown, rootVars, countVars, PhaseDecides, RootTypeOK, Finishing, IsEnter
  <2> QED
    BY <2>1, <2>2, <2>4, <2>5, <2>6, <2>7, Zenon
<1>15. CASE AwaitIdle
  <2>1. RootTypeOK'
    BY <1>15, Zenon DEF AwaitIdle, rootVars, countVars, RootTypeOK, Finishing
  <2>2. FlagTypeOK'
    BY <1>15, Zenon DEF AwaitIdle, rootVars, countVars, FlagTypeOK
  <2>3. Same
    BY <1>15, ZenonT(60) DEF AwaitIdle, rootVars, countVars, InFlight, Waiting, OnThread, RootTypeOK,
                 Finishing
  <2>4. Counted'
    BY <1>15, <1>0, <2>3, Zenon DEF AwaitIdle, rootVars, countVars
  <2>5. HostTypeOK'
    BY <1>15, <2>4, Zenon DEF AwaitIdle, rootVars, countVars, HostTypeOK
  <2>6. ClosedWhenStopping' /\ NoRootOutlivesRuntime'
    BY <1>15, <2>3, Zenon DEF AwaitIdle, rootVars, countVars, ClosedWhenStopping, NoRootOutlivesRuntime
  <2>7. PhaseDecides'
    BY <1>15, ZenonT(60) DEF AwaitIdle, rootVars, countVars, PhaseDecides, RootTypeOK, Finishing, IsEnter
  <2> QED
    BY <2>1, <2>2, <2>4, <2>5, <2>6, <2>7, Zenon
<1>16. CASE Destroyed
  <2>1. RootTypeOK'
    BY <1>16, Zenon DEF Destroyed, rootVars, countVars, RootTypeOK, Finishing
  <2>2. FlagTypeOK'
    BY <1>16, Zenon DEF Destroyed, rootVars, countVars, FlagTypeOK
  <2>3. Same
    BY <1>16, ZenonT(60) DEF Destroyed, rootVars, countVars, InFlight, Waiting, OnThread, RootTypeOK,
                 Finishing
  <2>4. Counted'
    BY <1>16, <1>0, <2>3, Zenon DEF Destroyed, rootVars, countVars
  <2>5. HostTypeOK'
    BY <1>16, <2>4, Zenon DEF Destroyed, rootVars, countVars, HostTypeOK
  <2>6. ClosedWhenStopping' /\ NoRootOutlivesRuntime'
    BY <1>16, <2>3, FiniteCounts, Zenon DEF Destroyed, ClosedWhenStopping, NoRootOutlivesRuntime,
                              Counted, InFlight
  <2>7. PhaseDecides'
    BY <1>16, Zenon DEF Destroyed, rootVars, countVars, PhaseDecides, RootTypeOK, Finishing, IsEnter
  <2> QED
    BY <2>1, <2>2, <2>4, <2>5, <2>6, <2>7, Zenon
<1> QED
  BY ZenonT(60), <1>1, <1>2, <1>3, <1>4, <1>5, <1>6, <1>7, <1>8, <1>9, <1>10, <1>11, <1>12, <1>13,
     <1>14, <1>15, <1>16 DEF Next, Step, EndSteps

(* The invariant holds throughout.                                         *)
THEOREM InvAlways == Spec => []Inv
  BY InitInv, NextInv, PTL DEF Spec

(* The Runtime's state keeps its types; in particular roots_ and           *)
(* outstanding_ never go below zero.                                       *)
THEOREM TypeCorrect == Spec => []TypeOK
<1>1. Inv => TypeOK
  BY Zenon DEF Inv, TypeOK
<1> QED
  BY <1>1, InvAlways, PTL

(* ~Runtime returns only when no root, adopted ones included, can still    *)
(* touch the Runtime.                                                      *)
THEOREM RootsEndFirst == Spec => []NoRootOutlivesRuntime
<1>1. Inv => NoRootOutlivesRuntime
  BY Zenon DEF Inv
<1> QED
  BY <1>1, InvAlways, PTL

(* A foreign coroutine is resumed only while it is parked and its root has *)
(* finished, whatever the host destroys or drops meanwhile.                *)
THEOREM ResumedWhileParked == Spec => ResumedOnlyWhileParked
<1> DEFINE A ==
      \A r \in Roots :
          (ticket[r] # "resumed" /\ ticket'[r] = "resumed") =>
              awaiter[r] = "parked" /\ phase[r] = "finished"
<1>1. Inv /\ [Next]_vars => [A]_vars
  <2> SUFFICES ASSUME Inv, Next, NEW r \in Roots,
                      ticket[r] # "resumed", ticket'[r] = "resumed"
               PROVE  awaiter[r] = "parked" /\ phase[r] = "finished"
    BY Zenon
  <2> USE DEF Inv, RootTypeOK
  <2>1. ASSUME NEW q \in Roots, ResumeContinuation(q)
        PROVE  awaiter[r] = "parked" /\ phase[r] = "finished"
    BY <2>1, ZenonT(60) DEF ResumeContinuation, PhaseDecides
  <2>2. ASSUME NEW q \in Roots, Hand(q) \/ DropQueued(q) \/ DestroyAwaiter(q) PROVE FALSE
    BY <2>2, ZenonT(60) DEF Hand, DropQueued, DestroyAwaiter, Drop, Claim
  <2>3. ASSUME NEW q \in Roots,
               Start(q) \/ EndBody(q) \/ FinishEnter(q) \/ FinishOwned(q) \/ ReleaseRoot(q)
                 \/ RequestStop(q)
        PROVE  FALSE
    BY <2>3, Zenon DEF Start, EndBody, FinishEnter, FinishOwned, ReleaseRoot, RequestStop
  <2>4. CASE CloseThread \/ JoinThread \/ Shutdown \/ AwaitIdle \/ Destroyed
    BY <2>4, Zenon DEF CloseThread, JoinThread, Shutdown, AwaitIdle, Destroyed, rootVars
  <2> QED
    BY <2>1, <2>2, <2>3, <2>4, Zenon DEF Next, Step, EndSteps
<1> QED
  BY <1>1, InvAlways, PTL DEF Spec, ResumedOnlyWhileParked

=============================================================================
