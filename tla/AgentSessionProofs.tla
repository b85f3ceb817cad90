------------------------- MODULE AgentSessionProofs -------------------------
(***************************************************************************)
(* The safety of the session for any number of runs, tool calls,           *)
(* cancellers and any bounds on turns, retries and tokens.                 *)
(*                                                                         *)
(* The invariant joins what the code keeps in different members: the run   *)
(* counter with the stop source and the charge account (Aimed, Account),   *)
(* the open interaction with the last message of the history (Questions),  *)
(* run_in_flight_ and pending_run_end_ with the hook calls made (Ends), and*)
(* the calls to dispatch with the approvals of their round (Gate).         *)
(***************************************************************************)
EXTENDS AgentSession, TLAPS

Pcs == {"free", "rounds", "context", "model", "dispatch", "redispatch",
        "ending", "resume", "recheck", "answer", "replay"}

Kinds == {"approval", "hook_decision", "codeact_ask"}

Interactions == [kind : Kinds, at : Nat, calls : SUBSET Calls,
                 asked : SUBSET Calls]

WatchedRounds == [gated : SUBSET Calls, approved : SUBSET Calls,
                  ran : SUBSET Calls, again : BOOLEAN,
                  answered : BOOLEAN, redacted : BOOLEAN]

\* The call in progress and the counters of its run.
CallTypes ==
    /\ pc \in Pcs
    /\ run \in Nat /\ run <= MaxRuns
    /\ inflight \in BOOLEAN /\ pending_end \in BOOLEAN
    /\ charges \in [run : Nat, tokens : Nat]
    /\ owed \in Nat /\ late_calls \in Nat

\* The conversation and what it waits for.
RecordTypes ==
    /\ history \in [size : Nat, asks : SUBSET Calls]
    /\ open \subseteq Interactions
    /\ todo \subseteq Calls

\* What cancellers hold, and what is watched of runs and rounds.
WatchTypes ==
    /\ grabbed \in [Cancellers -> Nat \union {NoSource}]
    /\ fired \in [Runs -> Nat]
    /\ round \in WatchedRounds

\* The charge account belongs to the current run.
Account == charges.run = run /\ charges.tokens = owed

\* The stop source is the current run's; a stop that reached it, or is about
\* to, comes from a cancel() made while the run was in flight.
Aimed ==
    /\ source = run /\ stopped \subseteq 0 .. run
    /\ \A c \in Cancellers : grabbed[c] # NoSource => grabbed[c] <= run
    /\ inflight /\ run \in stopped => run \in aimed
    /\ \A c \in Cancellers : inflight /\ grabbed[c] = run => run \in aimed
    /\ canceled \subseteq aimed

\* After the one late model call the run can only end.
Late ==
    late_calls # 0 => /\ late_calls = 1 /\ stop_requested /\ open = {}
                      /\ pc \in {"model", "ending", "free"}

\* At most one interaction is open, and it is about the last message.
Questions ==
    /\ \A i, j \in open : i = j
    /\ pc \notin {"ending", "free", "answer", "replay"} => open = {}
    /\ pc \in {"answer", "replay"} => open # {}
    /\ pc \in {"dispatch", "recheck"} => history.asks # {}
    /\ \A i \in open : /\ i.at = history.size
                       /\ history.asks # {} \/ round.redacted

\* Every earlier run reported its end; the current one has, is about to or
\* is in flight, and at the end of a call only a question keeps it so.
Ends ==
    /\ \A r \in Runs : r < run => fired[r] = 1
    /\ \A r \in Runs : r > run => fired[r] = 0
    /\ run = 0 => ~inflight /\ ~pending_end
    /\ run # 0 => IF inflight \/ pending_end THEN fired[run] = 0
                                             ELSE fired[run] = 1
    /\ ~(inflight /\ pending_end)
    /\ pending_end => pc = "ending"
    /\ pc \in {"ending", "free"} /\ inflight => open # {}

\* Until the calls of a round are dispatched none of them ran, and those that
\* wait for dispatch, or for the replay of their script, were approved if anyone
\* was asked.  A replay has an answer no run of the script has used.
Gate ==
    /\ ~round.again
    /\ round.ran \intersect round.gated \subseteq round.approved
    /\ pc \in {"dispatch", "redispatch", "resume", "recheck"} =>
          /\ round.ran = {}
          /\ todo \intersect round.gated \subseteq round.approved
    /\ pc = "replay" =>
          /\ round.answered
          /\ todo \intersect round.gated \subseteq round.approved
    /\ pc \in {"answer", "replay"} => \A i \in open : i.kind = "codeact_ask"
    /\ \A i \in open : IF i.kind = "codeact_ask"
          THEN i.calls \intersect round.gated \subseteq round.approved
          ELSE round.ran = {}
    /\ \A i \in open : i.kind = "approval" => i.asked = round.gated
    /\ \A i \in open : i.kind = "hook_decision" => round.gated = {}

Types == CallTypes /\ RecordTypes /\ WatchTypes

Inv == Types /\ Account /\ Aimed /\ Late /\ Questions /\ Ends /\ Gate

-----------------------------------------------------------------------------
(* Every action preserves the invariant.                                   *)

\* A new run starts with a source and an account of its own.
LEMMA StartRunKeeps ==
    ASSUME Inv, start_run
    PROVE  Inv'
<1> USE SessionAssumption
    DEF Inv, Types, Lifecycle, Cancelling, Spending, session, watched,
    start_run, FreshSource, Pushed, NewRound
<1>1. CallTypes'
  <2>1. (pc \in Pcs /\ run \in Nat /\ run <= MaxRuns)'
    BY DEF CallTypes, Pcs
  <2>2. (inflight \in BOOLEAN /\ pending_end \in BOOLEAN)'
    BY ZenonT(30) DEF CallTypes
  <2>3. (charges \in [run : Nat, tokens : Nat])'
    BY DEF CallTypes
  <2>4. (owed \in Nat /\ late_calls \in Nat)'
    BY Zenon DEF CallTypes
  <2> QED
    BY <2>1, <2>2, <2>3, <2>4, Zenon DEF CallTypes
<1>2. RecordTypes'
  BY DEF RecordTypes, Interactions, Kinds
<1>3. WatchTypes'
  BY Zenon DEF RecordTypes, WatchTypes, WatchedRounds, CallTypes, Aimed, Runs
<1>4. Account'
  BY Zenon DEF CallTypes, Account
<1>5. Aimed'
  BY SMTT(60) DEF CallTypes, WatchTypes, Aimed, Ends, Runs
<1>6. Late'
  BY Zenon DEF CallTypes, Aimed, Late, Questions, stop_requested
<1>7. Questions'
  BY Zenon DEF CallTypes, RecordTypes, Interactions, Questions
<1>8. Ends'
  BY SMTT(60) DEF CallTypes, WatchTypes, Ends, Questions, Runs
<1>9. Gate'
  BY Zenon DEF RecordTypes, WatchTypes, WatchedRounds, Interactions, Questions,
     Gate
<1> QED
  BY <1>1, <1>2, <1>3, <1>4, <1>5, <1>6, <1>7, <1>8, <1>9, Zenon

\* The head of the round loop.
LEMMA RoundBeginsKeeps ==
    ASSUME Inv, RoundBegins
    PROVE  Inv'
<1> USE SessionAssumption
    DEF Inv, Types, Lifecycle, Cancelling, Spending, session, watched,
    RoundBegins, NewRound, stop_requested, note_run_lifecycle, Terminal
<1>1. CallTypes'
  BY ZenonT(30) DEF CallTypes, Pcs
<1>2. RecordTypes'
  BY Zenon DEF RecordTypes, Interactions, Kinds
<1>3. WatchTypes'
  BY Zenon DEF RecordTypes, WatchTypes, WatchedRounds, CallTypes, Aimed, Runs
<1>4. Account'
  BY Zenon DEF CallTypes, Account
<1>5. Aimed'
  BY SMTT(60) DEF CallTypes, WatchTypes, Aimed, Ends, Runs
<1>6. Late'
  BY Zenon DEF CallTypes, Aimed, Late, Questions, stop_requested
<1>7. Questions'
  BY Zenon DEF CallTypes, RecordTypes, Interactions, Questions
<1>8. Ends'
  BY DEF CallTypes, WatchTypes, Ends, Questions, Runs
<1>9. Gate'
  BY Zenon DEF RecordTypes, WatchTypes, WatchedRounds, Interactions, Questions,
     Gate
<1> QED
  BY <1>1, <1>2, <1>3, <1>4, <1>5, <1>6, <1>7, <1>8, <1>9, Zenon

\* The one await between the check of the stop token and the model call.
LEMMA ContextAnswersKeeps ==
    ASSUME Inv, ContextAnswers
    PROVE  Inv'
<1> USE SessionAssumption
    DEF Inv, Types, Lifecycle, Cancelling, Spending, session, watched,
    ContextAnswers, fold_delegated_usage, BeginModelCall, stop_requested, note_run_lifecycle, Terminal
<1>1. CallTypes'
  <2>1. (pc \in Pcs /\ run \in Nat /\ run <= MaxRuns)'
    BY Zenon DEF CallTypes, Pcs
  <2>2. (inflight \in BOOLEAN /\ pending_end \in BOOLEAN)'
    BY ZenonT(30) DEF CallTypes
  <2>3. (charges \in [run : Nat, tokens : Nat])'
    BY DEF CallTypes
  <2>4. (owed \in Nat /\ late_calls \in Nat)'
    BY DEF CallTypes
  <2> QED
    BY <2>1, <2>2, <2>3, <2>4, Zenon DEF CallTypes
<1>2. RecordTypes'
  BY Zenon DEF RecordTypes, Interactions, Kinds
<1>3. WatchTypes'
  BY Zenon DEF RecordTypes, WatchTypes, WatchedRounds, CallTypes, Aimed, Runs
<1>4. Account'
  BY Zenon DEF CallTypes, Account
<1>5. Aimed'
  BY Zenon DEF CallTypes, WatchTypes, Aimed, Ends, Runs
<1>6. Late'
  BY DEF CallTypes, Aimed, Late, Questions, stop_requested
<1>7. Questions'
  BY Zenon DEF CallTypes, RecordTypes, Interactions, Questions
<1>8. Ends'
  BY Zenon DEF CallTypes, WatchTypes, Ends, Questions, Runs
<1>9. Gate'
  BY Zenon DEF RecordTypes, WatchTypes, WatchedRounds, Interactions, Questions,
     Gate
<1> QED
  BY <1>1, <1>2, <1>3, <1>4, <1>5, <1>6, <1>7, <1>8, <1>9, Zenon

\* A stream is sent again only while the run was not told to stop.
LEMMA StreamBreaksKeeps ==
    ASSUME Inv, StreamBreaks
    PROVE  Inv'
<1> USE SessionAssumption
    DEF Inv, Types, Lifecycle, Cancelling, Spending, session, watched,
    StreamBreaks, should_retry_stream, BeginModelCall, stop_requested, note_run_lifecycle, Terminal
<1>1. CallTypes'
  <2>1. (pc \in Pcs /\ run \in Nat /\ run <= MaxRuns)'
    BY Zenon DEF CallTypes, Pcs
  <2>2. (inflight \in BOOLEAN /\ pending_end \in BOOLEAN)'
    BY ZenonT(30) DEF CallTypes
  <2>3. (charges \in [run : Nat, tokens : Nat])'
    BY Zenon DEF CallTypes
  <2>4. (owed \in Nat /\ late_calls \in Nat)'
    BY DEF CallTypes
  <2> QED
    BY <2>1, <2>2, <2>3, <2>4, Zenon DEF CallTypes
<1>2. RecordTypes'
  BY Zenon DEF RecordTypes, Interactions, Kinds
<1>3. WatchTypes'
  BY Zenon DEF RecordTypes, WatchTypes, WatchedRounds, CallTypes, Aimed, Runs
<1>4. Account'
  BY Zenon DEF CallTypes, Account
<1>5. Aimed'
  BY Zenon DEF CallTypes, WatchTypes, Aimed, Ends, Runs
<1>6. Late'
  BY DEF CallTypes, Aimed, Late, Questions, stop_requested
<1>7. Questions'
  BY Zenon DEF CallTypes, RecordTypes, Interactions, Questions
<1>8. Ends'
  BY Zenon DEF CallTypes, WatchTypes, Ends, Questions, Runs
<1>9. Gate'
  BY Zenon DEF RecordTypes, WatchTypes, WatchedRounds, Interactions, Questions,
     Gate
<1> QED
  BY <1>1, <1>2, <1>3, <1>4, <1>5, <1>6, <1>7, <1>8, <1>9, ZenonT(60)

\* A failed model call ends the run.
LEMMA ModelFailsKeeps ==
    ASSUME Inv, ModelFails
    PROVE  Inv'
<1> USE SessionAssumption
    DEF Inv, Types, Lifecycle, Cancelling, Spending, session, watched,
    ModelFails, stop_requested, note_run_lifecycle, Terminal
<1>1. CallTypes'
  BY ZenonT(30) DEF CallTypes, Pcs
<1>2. RecordTypes'
  BY Zenon DEF RecordTypes, Interactions, Kinds
<1>3. WatchTypes'
  BY Zenon DEF RecordTypes, WatchTypes, WatchedRounds, CallTypes, Aimed, Runs
<1>4. Account'
  BY Zenon DEF CallTypes, Account
<1>5. Aimed'
  BY Zenon DEF CallTypes, WatchTypes, Aimed, Ends, Runs
<1>6. Late'
  BY Zenon DEF CallTypes, Aimed, Late, Questions, stop_requested
<1>7. Questions'
  BY Zenon DEF CallTypes, RecordTypes, Interactions, Questions
<1>8. Ends'
  BY Zenon DEF CallTypes, WatchTypes, Ends, Questions, Runs
<1>9. Gate'
  BY Zenon DEF RecordTypes, WatchTypes, WatchedRounds, Interactions, Questions,
     Gate
<1> QED
  BY <1>1, <1>2, <1>3, <1>4, <1>5, <1>6, <1>7, <1>8, <1>9, Zenon

\* The answer ends the run, opens one question or is dispatched.
LEMMA ModelAnswersKeeps ==
    ASSUME Inv, ModelAnswers
    PROVE  Inv'
<1> USE SessionAssumption
    DEF Inv, Types
<1>1. /\ pc = "model" /\ open = {} /\ round \in WatchedRounds
      /\ pc' \in {"ending", "dispatch"}
      /\ UNCHANGED <<run, charges, owed, late_calls, fired, source, stopped,
                     grabbed, aimed>>
  BY ZenonT(60) DEF Questions, WatchTypes, Terminal, SuspendOrDispatch, ModelAnswers,
     Cancelling
<1>2. CASE /\ pc' = "ending" /\ inflight' = FALSE
           /\ pending_end' = (pending_end \/ inflight)
           /\ canceled' \subseteq canceled \union
                 (IF inflight /\ stop_requested THEN {run} ELSE {})
           /\ \/ UNCHANGED history
              \/ Pushed({})
           /\ UNCHANGED <<open, todo, round>>
  <2> USE <1>1, <1>2 DEF Pushed
  <2>1. CallTypes'
    BY ZenonT(30) DEF CallTypes, Pcs
  <2>2. RecordTypes' /\ WatchTypes'
    BY DEF RecordTypes, WatchTypes
  <2>3. Account' /\ Late' /\ Questions'
    BY Zenon DEF CallTypes, Account, Late, Questions, stop_requested
  <2>4. Aimed'
    BY Zenon DEF CallTypes, Aimed, stop_requested
  <2>5. Ends' /\ Gate'
    BY Zenon DEF CallTypes, Ends, Gate
  <2> QED
    BY <2>1, <2>2, <2>3, <2>4, <2>5, Zenon
<1>3. CASE /\ \E calls \in (SUBSET Calls) \ {{}} :
                /\ Pushed(calls)
                /\ \E left \in SUBSET calls :
                     \E external, gated \in SUBSET left :
                        SuspendOrDispatch(left, external, gated)
           /\ UNCHANGED <<inflight, pending_end, canceled>>
           /\ ~stop_requested
  <2>1. PICK calls \in (SUBSET Calls) \ {{}} :
           /\ Pushed(calls)
           /\ \E left \in SUBSET calls : \E external, gated \in SUBSET left :
                 SuspendOrDispatch(left, external, gated)
    BY <1>3, Zenon
  <2> PICK left \in SUBSET calls :
         \E external, gated \in SUBSET left :
            SuspendOrDispatch(left, external, gated)
    BY <2>1, Zenon
  <2>2. PICK external, gated \in SUBSET left :
           SuspendOrDispatch(left, external, gated)
    BY Zenon
  <2>3. /\ history' = [size |-> history.size + 1, asks |-> calls]
        /\ history'.size = history.size + 1 /\ history'.asks = calls
        /\ history'.size \in Nat /\ calls # {} /\ calls \subseteq Calls
    <3>1. calls # {} /\ calls \subseteq Calls
      BY Zenon
    <3>2. history' = [size |-> history.size + 1, asks |-> calls]
      BY <2>1, Zenon DEF Pushed
    <3>3. history.size \in Nat
      BY Zenon DEF RecordTypes
    <3> QED
      BY <3>1, <3>2, <3>3
  <2>4. /\ round' \in WatchedRounds /\ ~round'.again /\ round'.ran = {}
        /\ pc' = "dispatch" => round'.gated = {} /\ open' = {}
        /\ todo' \subseteq Calls
    <3> USE <1>1, <2>2, <2>3
    <3> NewRound \in WatchedRounds
      BY Zenon DEF NewRound, WatchedRounds
    <3> ~NewRound.again /\ NewRound.ran = {} /\ NewRound.gated = {}
      BY Zenon DEF NewRound
    <3>1. CASE external # {}
      BY <3>1, Zenon DEF SuspendOrDispatch
    <3>2. CASE external = {} /\ gated # {}
      BY <3>2, ZenonT(60) DEF SuspendOrDispatch, NewRound, WatchedRounds
    <3>3. CASE external = {} /\ gated = {}
      BY <3>3, Zenon DEF SuspendOrDispatch
    <3> QED
      BY <3>1, <3>2, <3>3, Zenon
  <2>5. pc' = "ending" =>
           \E i \in Interactions :
              /\ open' = {i} /\ i.at = history'.size /\ i.kind # "codeact_ask"
              /\ i.kind = "approval" => i.asked = round'.gated
              /\ i.kind = "hook_decision" => round'.gated = {}
    <3> USE <1>1, <2>2, <2>3
    <3> DEFINE Asked(k, c) == [kind |-> k, at |-> history'.size,
                               calls |-> left, asked |-> c]
    <3>1. CASE external # {}
      <4>1. Asked("hook_decision", external) \in Interactions
        BY Zenon DEF Interactions, Kinds
      <4>2. open' = {Asked("hook_decision", external)} /\ round'.gated = {}
        BY <3>1, SMTT(30) DEF SuspendOrDispatch, open_interaction, NewRound
      <4> QED
        BY <4>1, <4>2, Zenon
    <3>2. CASE external = {} /\ gated # {}
      <4>1. Asked("approval", gated) \in Interactions
        BY Zenon DEF Interactions, Kinds
      <4>2. open' = {Asked("approval", gated)} /\ round'.gated = gated
        BY <3>2, ZenonT(60) DEF SuspendOrDispatch, open_interaction, NewRound
      <4> QED
        BY <4>1, <4>2, Zenon
    <3> QED
      BY <3>1, <3>2, Zenon DEF SuspendOrDispatch
  <2>6. CallTypes' /\ Account' /\ Aimed'
    BY <1>1, <1>3, Zenon DEF CallTypes, Pcs, Account, Aimed
  <2>7. RecordTypes' /\ WatchTypes'
    BY <1>1, <2>3, <2>4, <2>5, Zenon DEF RecordTypes, WatchTypes, WatchedRounds
  <2>8. Late' /\ Questions'
    BY <1>1, <1>3, <2>3, <2>4, <2>5, Zenon DEF Late, Questions, Aimed, stop_requested
  <2>9. Ends' /\ Gate'
    BY <1>1, <1>3, <2>3, <2>4, <2>5, ZenonT(60) DEF Ends, Gate, CallTypes
  <2> QED
    BY <2>6, <2>7, <2>8, <2>9, Zenon
<1> QED
  BY <1>2, <1>3, ZenonT(30) DEF ModelAnswers, Terminal, note_run_lifecycle, Lifecycle

\* The calls of a round ran.
LEMMA DispatchReturnsKeeps ==
    ASSUME Inv, DispatchReturns
    PROVE  Inv'
<1> USE SessionAssumption
    DEF Inv, Types, Lifecycle, Cancelling, Spending, session, watched,
    DispatchReturns, RunTools, TurnFinished, Pushed
<1>1. CallTypes'
  BY Zenon DEF CallTypes, Pcs
<1>2. RecordTypes'
  BY DEF RecordTypes, Interactions, Kinds
<1>3. WatchTypes'
  <2>1. (grabbed \in [Cancellers -> Nat \union {NoSource}])'
    BY Zenon DEF WatchTypes, CallTypes, Aimed
  <2>2. (fired \in [Runs -> Nat])'
    BY Zenon DEF WatchTypes, CallTypes
  <2>3. (round \in WatchedRounds)'
    BY ZenonT(30) DEF RecordTypes, WatchTypes, WatchedRounds
  <2> QED
    BY <2>1, <2>2, <2>3, Zenon DEF WatchTypes
<1>4. Account'
  BY Zenon DEF CallTypes, Account
<1>5. Aimed'
  BY Zenon DEF CallTypes, WatchTypes, Aimed, Ends, Runs
<1>6. Late'
  BY Zenon DEF CallTypes, Aimed, Late, Questions, stop_requested
<1>7. Questions'
  BY Zenon DEF CallTypes, RecordTypes, Interactions, Questions
<1>8. Ends'
  BY Zenon DEF CallTypes, WatchTypes, Ends, Questions, Runs
<1>9. Gate'
  BY ZenonT(60) DEF RecordTypes, WatchTypes, WatchedRounds, Interactions, Questions,
     Gate
<1> QED
  BY <1>1, <1>2, <1>3, <1>4, <1>5, <1>6, <1>7, <1>8, <1>9, Zenon

\* A script stops on a question of its own.
LEMMA ScriptAsksKeeps ==
    ASSUME Inv, ScriptAsks
    PROVE  Inv'
<1> USE SessionAssumption
    DEF Inv, Types, Lifecycle, Cancelling, Spending, session, watched,
    ScriptAsks, RunTools, open_interaction, note_run_lifecycle, Terminal
<1>1. CallTypes'
  BY ZenonT(30) DEF CallTypes, Pcs
<1>2. RecordTypes'
  BY DEF RecordTypes, Interactions, Kinds
<1>3. WatchTypes'
  <2>1. (grabbed \in [Cancellers -> Nat \union {NoSource}])'
    BY Zenon DEF WatchTypes, CallTypes, Aimed
  <2>2. (fired \in [Runs -> Nat])'
    BY Zenon DEF WatchTypes, CallTypes
  <2>3. (round \in WatchedRounds)'
    BY ZenonT(30) DEF RecordTypes, WatchTypes, WatchedRounds
  <2> QED
    BY <2>1, <2>2, <2>3, Zenon DEF WatchTypes
<1>4. Account'
  BY Zenon DEF CallTypes, Account
<1>5. Aimed'
  BY Zenon DEF CallTypes, WatchTypes, Aimed, Ends, Runs
<1>6. Late'
  BY Zenon DEF CallTypes, Aimed, Late, Questions, stop_requested
<1>7. Questions'
  BY DEF CallTypes, RecordTypes, Interactions, Questions
<1>8. Ends'
  BY ZenonT(60) DEF CallTypes, WatchTypes, Ends, Questions, Runs
<1>9. Gate'
  BY DEF RecordTypes, WatchTypes, WatchedRounds, Interactions, Questions,
     Gate
<1> QED
  BY <1>1, <1>2, <1>3, <1>4, <1>5, <1>6, <1>7, <1>8, <1>9, Zenon

\* An approval closes its question and releases what it approved.
LEMMA ResolveApprovalKeeps ==
    ASSUME NEW i \in open, Inv, resolve_approval(i)
    PROVE  Inv'
<1> USE SessionAssumption
    DEF Inv, Types, Lifecycle, Cancelling, Spending, session, watched,
    resolve_approval, Answerable, resolve_interaction_record
<1>1. CallTypes'
  BY Zenon DEF CallTypes, Pcs
<1>2. RecordTypes'
  BY Zenon DEF RecordTypes, Interactions, Kinds
<1>3. WatchTypes'
  <2>1. (grabbed \in [Cancellers -> Nat \union {NoSource}])'
    BY Zenon DEF WatchTypes, CallTypes, Aimed
  <2>2. (fired \in [Runs -> Nat])'
    BY Zenon DEF WatchTypes, CallTypes
  <2>3. (round \in WatchedRounds)'
    BY DEF RecordTypes, WatchTypes, WatchedRounds, Interactions
  <2> QED
    BY <2>1, <2>2, <2>3, Zenon DEF WatchTypes
<1>4. Account'
  BY Zenon DEF CallTypes, Account
<1>5. Aimed'
  BY Zenon DEF CallTypes, WatchTypes, Aimed, Ends, Runs
<1>6. Late'
  BY Zenon DEF CallTypes, Aimed, Late, Questions, stop_requested
<1>7. Questions'
  BY Zenon DEF CallTypes, RecordTypes, Interactions, Questions
<1>8. Ends'
  BY Zenon DEF CallTypes, WatchTypes, Ends, Questions, Runs
<1>9. Gate'
  BY SMTT(30) DEF RecordTypes, WatchTypes, WatchedRounds, Interactions, Questions,
     Gate
<1> QED
  BY <1>1, <1>2, <1>3, <1>4, <1>5, <1>6, <1>7, <1>8, <1>9, Zenon

\* A hook decision closes its question.
LEMMA ResolveHookDecisionKeeps ==
    ASSUME NEW i \in open, Inv, resolve_hook_decision(i)
    PROVE  Inv'
<1> USE SessionAssumption
    DEF Inv, Types, Lifecycle, Cancelling, Spending, session, watched,
    resolve_hook_decision, Answerable, resolve_interaction_record
<1>1. CallTypes'
  BY Zenon DEF CallTypes, Pcs
<1>2. RecordTypes'
  BY Zenon DEF RecordTypes, Interactions, Kinds
<1>3. WatchTypes'
  BY Zenon DEF RecordTypes, WatchTypes, WatchedRounds, CallTypes, Aimed, Runs
<1>4. Account'
  BY Zenon DEF CallTypes, Account
<1>5. Aimed'
  BY Zenon DEF CallTypes, WatchTypes, Aimed, Ends, Runs
<1>6. Late'
  BY Zenon DEF CallTypes, Aimed, Late, Questions, stop_requested
<1>7. Questions'
  BY Zenon DEF CallTypes, RecordTypes, Interactions, Questions
<1>8. Ends'
  BY Zenon DEF CallTypes, WatchTypes, Ends, Questions, Runs
<1>9. Gate'
  BY Zenon DEF RecordTypes, WatchTypes, WatchedRounds, Interactions, Questions,
     Gate
<1> QED
  BY <1>1, <1>2, <1>3, <1>4, <1>5, <1>6, <1>7, <1>8, <1>9, Zenon

\* An answer to a script leaves its question open.
LEMMA ResolveCodeactAskKeeps ==
    ASSUME NEW i \in open, Inv, resolve_codeact_ask(i)
    PROVE  Inv'
<1> USE SessionAssumption
    DEF Inv, Types, Lifecycle, Cancelling, Spending, session, watched,
    resolve_codeact_ask, Answerable
<1>1. CallTypes'
  BY Zenon DEF CallTypes, Pcs
<1>2. RecordTypes'
  BY Zenon DEF RecordTypes, Interactions, Kinds
<1>3. WatchTypes'
  BY Zenon DEF RecordTypes, WatchTypes, WatchedRounds, CallTypes, Aimed, Runs
<1>4. Account'
  BY Zenon DEF CallTypes, Account
<1>5. Aimed'
  BY Zenon DEF CallTypes, WatchTypes, Aimed, Ends, Runs
<1>6. Late'
  BY Zenon DEF CallTypes, Aimed, Late, Questions, stop_requested
<1>7. Questions'
  BY Zenon DEF CallTypes, RecordTypes, Interactions, Questions
<1>8. Ends'
  BY Zenon DEF CallTypes, WatchTypes, Ends, Questions, Runs
<1>9. Gate'
  BY Zenon DEF RecordTypes, WatchTypes, WatchedRounds, Interactions, Questions,
     Gate
<1> QED
  BY <1>1, <1>2, <1>3, <1>4, <1>5, <1>6, <1>7, <1>8, <1>9, Zenon

\* A round that cannot be resumed ends the run.
LEMMA ResumeFailsKeeps ==
    ASSUME Inv, ResumeFails
    PROVE  Inv'
<1> USE SessionAssumption
    DEF Inv, Types, Lifecycle, Cancelling, Spending, session, watched,
    ResumeFails, note_run_lifecycle, Terminal
<1>1. CallTypes'
  BY ZenonT(30) DEF CallTypes, Pcs
<1>2. RecordTypes'
  BY Zenon DEF RecordTypes, Interactions, Kinds
<1>3. WatchTypes'
  BY Zenon DEF RecordTypes, WatchTypes, WatchedRounds, CallTypes, Aimed, Runs
<1>4. Account'
  BY Zenon DEF CallTypes, Account
<1>5. Aimed'
  BY Zenon DEF CallTypes, WatchTypes, Aimed, Ends, Runs
<1>6. Late'
  BY Zenon DEF CallTypes, Aimed, Late, Questions, stop_requested
<1>7. Questions'
  BY Zenon DEF CallTypes, RecordTypes, Interactions, Questions
<1>8. Ends'
  BY Zenon DEF CallTypes, WatchTypes, Ends, Questions, Runs
<1>9. Gate'
  BY Zenon DEF RecordTypes, WatchTypes, WatchedRounds, Interactions, Questions,
     Gate
<1> QED
  BY <1>1, <1>2, <1>3, <1>4, <1>5, <1>6, <1>7, <1>8, <1>9, Zenon

\* A resumed round is dispatched or asks for approvals.
LEMMA ResumeSucceedsKeeps ==
    ASSUME Inv, ResumeSucceeds
    PROVE  Inv'
<1> USE SessionAssumption
    DEF Inv, Types, Lifecycle, Cancelling, Spending, session, watched,
    ResumeSucceeds, open_interaction
<1>1. CallTypes'
  BY Zenon DEF CallTypes, Pcs
<1>2. RecordTypes'
  BY DEF RecordTypes, Interactions, Kinds
<1>3. WatchTypes'
  BY ZenonT(60) DEF RecordTypes, WatchTypes, WatchedRounds, CallTypes, Aimed, Runs
<1>4. Account'
  BY Zenon DEF CallTypes, Account
<1>5. Aimed'
  BY Zenon DEF CallTypes, WatchTypes, Aimed, Ends, Runs
<1>6. Late'
  BY Zenon DEF CallTypes, Aimed, Late, Questions, stop_requested
<1>7. Questions'
  BY DEF CallTypes, RecordTypes, Interactions, Questions
<1>8. Ends'
  BY ZenonT(30) DEF CallTypes, WatchTypes, Ends, Questions, Runs
<1>9. Gate'
  BY SMTT(30) DEF RecordTypes, WatchTypes, WatchedRounds, Interactions, Questions,
     Gate
<1> QED
  BY <1>1, <1>2, <1>3, <1>4, <1>5, <1>6, <1>7, <1>8, <1>9, Zenon

\* The answer is kept and its call invoked again.
LEMMA ReplayBeginsKeeps ==
    ASSUME Inv, ReplayBegins
    PROVE  Inv'
<1> USE SessionAssumption
    DEF Inv, Types, Lifecycle, Cancelling, Spending, session, watched,
    ReplayBegins
<1>1. CallTypes'
  BY Zenon DEF CallTypes, Pcs
<1>2. RecordTypes'
  BY DEF RecordTypes, Interactions, Kinds
<1>3. WatchTypes'
  BY ZenonT(60) DEF RecordTypes, WatchTypes, WatchedRounds, CallTypes, Aimed, Runs
<1>4. Account'
  BY Zenon DEF CallTypes, Account
<1>5. Aimed'
  BY Zenon DEF CallTypes, WatchTypes, Aimed, Ends, Runs
<1>6. Late'
  BY Zenon DEF CallTypes, Aimed, Late, Questions, stop_requested
<1>7. Questions'
  BY SMTT(30) DEF CallTypes, RecordTypes, WatchTypes, WatchedRounds, Interactions,
     Questions
<1>8. Ends'
  BY Zenon DEF CallTypes, WatchTypes, Ends, Questions, Runs
<1>9. Gate'
  BY SMTT(30) DEF RecordTypes, WatchTypes, WatchedRounds, Interactions, Questions,
     Gate
<1> QED
  BY <1>1, <1>2, <1>3, <1>4, <1>5, <1>6, <1>7, <1>8, <1>9, Zenon

\* A replayed script asks again, or used up the turns.
LEMMA ScriptAsksAgainKeeps ==
    ASSUME Inv, ScriptAsksAgain
    PROVE  Inv'
<1> USE SessionAssumption
    DEF Inv, Types, Lifecycle, Cancelling, Spending, session, watched,
    ScriptAsksAgain, RunTools, resolve_interaction_record, note_run_lifecycle, Terminal
<1>1. CallTypes'
  BY ZenonT(30) DEF CallTypes, Pcs
<1>2. RecordTypes'
  BY Zenon DEF RecordTypes, Interactions, Kinds
<1>3. WatchTypes'
  BY Zenon DEF RecordTypes, WatchTypes, WatchedRounds, CallTypes, Aimed, Runs
<1>4. Account'
  BY Zenon DEF CallTypes, Account
<1>5. Aimed'
  BY Zenon DEF CallTypes, WatchTypes, Aimed, Ends, Runs
<1>6. Late'
  BY Zenon DEF CallTypes, Aimed, Late, Questions, stop_requested
<1>7. Questions'
  <2>1. round'.redacted = round.redacted
    BY SMTT(30) DEF WatchTypes, WatchedRounds
  <2> QED
    BY <2>1, SMTT(30) DEF RecordTypes, Interactions, Questions
<1>8. Ends'
  BY Zenon DEF CallTypes, WatchTypes, Ends, Questions, Runs
<1>9. Gate'
  BY SMTT(30) DEF RecordTypes, WatchTypes, WatchedRounds, Interactions, Questions,
     Gate
<1> QED
  BY <1>1, <1>2, <1>3, <1>4, <1>5, <1>6, <1>7, <1>8, <1>9, Zenon

\* A replayed script completes.
LEMMA ScriptCompletesKeeps ==
    ASSUME Inv, ScriptCompletes
    PROVE  Inv'
<1> USE SessionAssumption
    DEF Inv, Types, Lifecycle, Cancelling, Spending, session, watched,
    ScriptCompletes, RunTools, TurnFinished, Pushed, resolve_interaction_record
<1>1. CallTypes'
  BY Zenon DEF CallTypes, Pcs
<1>2. RecordTypes'
  BY SMTT(30) DEF RecordTypes, Interactions, Kinds
<1>3. WatchTypes'
  <2>1. (grabbed \in [Cancellers -> Nat \union {NoSource}])'
    BY Zenon DEF WatchTypes, CallTypes, Aimed
  <2>2. (fired \in [Runs -> Nat])'
    BY Zenon DEF WatchTypes, CallTypes
  <2>3. (round \in WatchedRounds)'
    <3>1. CASE UNCHANGED round
      BY <3>1, Zenon DEF WatchTypes
    <3>2. CASE RunTools
      BY <3>2, ZenonT(30) DEF RecordTypes, WatchTypes, WatchedRounds
    <3> QED
      BY <3>1, <3>2, Zenon
  <2> QED
    BY <2>1, <2>2, <2>3, Zenon DEF WatchTypes
<1>4. Account'
  BY Zenon DEF CallTypes, Account
<1>5. Aimed'
  BY Zenon DEF CallTypes, WatchTypes, Aimed, Ends, Runs
<1>6. Late'
  BY Zenon DEF CallTypes, Aimed, Late, Questions, stop_requested
<1>7. Questions'
  BY Zenon DEF CallTypes, RecordTypes, Interactions, Questions
<1>8. Ends'
  BY Zenon DEF CallTypes, WatchTypes, Ends, Questions, Runs
<1>9. Gate'
  <2>1. open' = {} /\ pc' = "rounds"
    BY Zenon DEF Questions
  <2>2. ~round'.again /\ round'.ran \intersect round'.gated \subseteq round'.approved
    <3>1. CASE UNCHANGED round
      BY <3>1, Zenon DEF Gate
    <3>2. CASE RunTools
      BY <3>2, SMTT(30) DEF WatchTypes, WatchedRounds, Gate
    <3> QED
      BY <3>1, <3>2, Zenon
  <2> QED
    BY <2>1, <2>2, Zenon DEF Gate
<1> QED
  BY <1>1, <1>2, <1>3, <1>4, <1>5, <1>6, <1>7, <1>8, <1>9, Zenon

\* An awaited call throws.
LEMMA ThrowsKeeps ==
    ASSUME Inv, Throws
    PROVE  Inv'
<1> USE SessionAssumption
    DEF Inv, Types, Lifecycle, Cancelling, Spending, session, watched,
    Throws, RunTools, note_run_lifecycle, Terminal
<1>1. CallTypes'
  BY ZenonT(30) DEF CallTypes, Pcs
<1>2. RecordTypes'
  BY Zenon DEF RecordTypes, Interactions, Kinds
<1>3. WatchTypes'
  <2>1. (grabbed \in [Cancellers -> Nat \union {NoSource}])'
    BY Zenon DEF WatchTypes, CallTypes, Aimed
  <2>2. (fired \in [Runs -> Nat])'
    BY Zenon DEF WatchTypes, CallTypes
  <2>3. (round \in WatchedRounds)'
    <3>1. CASE UNCHANGED round
      BY <3>1, Zenon DEF WatchTypes
    <3>2. CASE RunTools
      BY <3>2, ZenonT(30) DEF RecordTypes, WatchTypes, WatchedRounds
    <3> QED
      BY <3>1, <3>2, Zenon
  <2> QED
    BY <2>1, <2>2, <2>3, Zenon DEF WatchTypes
<1>4. Account'
  BY Zenon DEF CallTypes, Account
<1>5. Aimed'
  BY Zenon DEF CallTypes, WatchTypes, Aimed, Ends, Runs
<1>6. Late'
  BY Zenon DEF CallTypes, Aimed, Late, Questions, stop_requested
<1>7. Questions'
  <2>1. round'.redacted = round.redacted
    <3>1. CASE RunTools
      BY <3>1, SMTT(30) DEF WatchTypes, WatchedRounds
    <3> QED
      BY <3>1, Zenon
  <2> QED
    BY <2>1, SMTT(30) DEF RecordTypes, Interactions, Questions
<1>8. Ends'
  BY Zenon DEF CallTypes, WatchTypes, Ends, Questions, Runs
<1>9. Gate'
  BY ZenonT(60) DEF RecordTypes, WatchTypes, WatchedRounds, Interactions, Questions,
     Gate
<1> QED
  BY <1>1, <1>2, <1>3, <1>4, <1>5, <1>6, <1>7, <1>8, <1>9, Zenon

\* The end of a call reports the end of the run, once.
LEMMA FireRunEndIfCompletedKeeps ==
    ASSUME Inv, fire_run_end_if_completed
    PROVE  Inv'
<1> USE SessionAssumption
    DEF Inv, Types, Lifecycle, Cancelling, Spending, session, watched,
    fire_run_end_if_completed, NewRound
<1>1. CallTypes'
  BY ZenonT(30) DEF CallTypes, Pcs
<1>2. RecordTypes'
  BY Zenon DEF RecordTypes, Interactions, Kinds
<1>3. WatchTypes'
  <2>1. (grabbed \in [Cancellers -> Nat \union {NoSource}])'
    BY Zenon DEF WatchTypes, CallTypes, Aimed
  <2>2. (fired \in [Runs -> Nat])'
    <3>1. pending_end => run \in Runs /\ fired[run] + 1 \in Nat
      BY SMTT(30) DEF WatchTypes, CallTypes, Ends, Runs
    <3> QED
      BY <3>1, Zenon DEF WatchTypes
  <2>3. (round \in WatchedRounds)'
    BY Zenon DEF RecordTypes, WatchTypes, WatchedRounds
  <2> QED
    BY <2>1, <2>2, <2>3, Zenon DEF WatchTypes
<1>4. Account'
  BY Zenon DEF CallTypes, Account
<1>5. Aimed'
  BY Zenon DEF CallTypes, WatchTypes, Aimed, Ends, Runs
<1>6. Late'
  BY Zenon DEF CallTypes, Aimed, Late, Questions, stop_requested
<1>7. Questions'
  BY Zenon DEF CallTypes, RecordTypes, Interactions, Questions
<1>8. Ends'
  BY SMTT(60) DEF CallTypes, WatchTypes, Ends, Questions, Runs
<1>9. Gate'
  BY Zenon DEF RecordTypes, WatchTypes, WatchedRounds, Interactions, Questions,
     Gate
<1> QED
  BY <1>1, <1>2, <1>3, <1>4, <1>5, <1>6, <1>7, <1>8, <1>9, Zenon

\* A canceller copies the source of the run it is called in.
LEMMA CancelKeeps ==
    ASSUME NEW c \in Cancellers, Inv, cancel(c)
    PROVE  Inv'
<1> USE SessionAssumption
    DEF Inv, Types, Lifecycle, Cancelling, Spending, session, watched,
    cancel
<1>1. CallTypes'
  BY Zenon DEF CallTypes, Pcs
<1>2. RecordTypes'
  BY Zenon DEF RecordTypes, Interactions, Kinds
<1>3. WatchTypes'
  BY Zenon DEF RecordTypes, WatchTypes, WatchedRounds, CallTypes, Aimed, Runs
<1>4. Account'
  BY Zenon DEF CallTypes, Account
<1>5. Aimed'
  BY SMTT(30) DEF CallTypes, WatchTypes, Aimed, Ends, Runs
<1>6. Late'
  BY Zenon DEF CallTypes, Aimed, Late, Questions, stop_requested
<1>7. Questions'
  BY Zenon DEF CallTypes, RecordTypes, Interactions, Questions
<1>8. Ends'
  BY Zenon DEF CallTypes, WatchTypes, Ends, Questions, Runs
<1>9. Gate'
  BY Zenon DEF RecordTypes, WatchTypes, WatchedRounds, Interactions, Questions,
     Gate
<1> QED
  BY <1>1, <1>2, <1>3, <1>4, <1>5, <1>6, <1>7, <1>8, <1>9, Zenon

\* A copied source is asked to stop.
LEMMA RequestStopKeeps ==
    ASSUME NEW c \in Cancellers, Inv, request_stop(c)
    PROVE  Inv'
<1> USE SessionAssumption
    DEF Inv, Types, Lifecycle, Cancelling, Spending, session, watched,
    request_stop
<1>1. CallTypes'
  BY Zenon DEF CallTypes, Pcs
<1>2. RecordTypes'
  BY Zenon DEF RecordTypes, Interactions, Kinds
<1>3. WatchTypes'
  BY Zenon DEF RecordTypes, WatchTypes, WatchedRounds, CallTypes, Aimed, Runs
<1>4. Account'
  BY Zenon DEF CallTypes, Account
<1>5. Aimed'
  <2>1. grabbed[c] \in 0 .. run /\ run \in Nat
    BY SMTT(30) DEF CallTypes, WatchTypes, Aimed
  <2>2. \A k \in Cancellers : grabbed'[k] # NoSource =>
             grabbed'[k] = grabbed[k] /\ k # c
    BY Zenon DEF WatchTypes
  <2>3. (source = run /\ stopped \subseteq 0 .. run /\ canceled \subseteq aimed)'
    BY <2>1, ZenonT(30) DEF Aimed
  <2>4. (\A k \in Cancellers : grabbed[k] # NoSource => grabbed[k] <= run)'
    BY <2>2, Zenon DEF Aimed
  <2>5. (inflight /\ run \in stopped => run \in aimed)'
    BY <2>1, Zenon DEF Aimed
  <2>6. (\A k \in Cancellers : inflight /\ grabbed[k] = run => run \in aimed)'
    BY <2>1, <2>2, Zenon DEF Aimed
  <2> QED
    BY <2>1, <2>2, <2>3, <2>4, <2>5, <2>6, Zenon DEF Aimed
<1>6. Late'
  BY Zenon DEF CallTypes, Aimed, Late, Questions, stop_requested
<1>7. Questions'
  BY Zenon DEF CallTypes, RecordTypes, Interactions, Questions
<1>8. Ends'
  BY Zenon DEF CallTypes, WatchTypes, Ends, Questions, Runs
<1>9. Gate'
  BY Zenon DEF RecordTypes, WatchTypes, WatchedRounds, Interactions, Questions,
     Gate
<1> QED
  BY <1>1, <1>2, <1>3, <1>4, <1>5, <1>6, <1>7, <1>8, <1>9, Zenon

\* A child's report reaches the account of its own run only.
LEMMA ChargeKeeps ==
    ASSUME NEW r \in Runs, Inv, charge(r)
    PROVE  Inv'
<1> USE SessionAssumption
    DEF Inv, Types, Lifecycle, Cancelling, Spending, session, watched,
    charge
<1>1. CallTypes'
  BY DEF CallTypes, Pcs
<1>2. RecordTypes'
  BY Zenon DEF RecordTypes, Interactions, Kinds
<1>3. WatchTypes'
  BY Zenon DEF RecordTypes, WatchTypes, WatchedRounds, CallTypes, Aimed, Runs
<1>4. Account'
  BY Zenon DEF CallTypes, Account
<1>5. Aimed'
  BY Zenon DEF CallTypes, WatchTypes, Aimed, Ends, Runs
<1>6. Late'
  BY Zenon DEF CallTypes, Aimed, Late, Questions, stop_requested
<1>7. Questions'
  BY Zenon DEF CallTypes, RecordTypes, Interactions, Questions
<1>8. Ends'
  BY Zenon DEF CallTypes, WatchTypes, Ends, Questions, Runs
<1>9. Gate'
  BY Zenon DEF RecordTypes, WatchTypes, WatchedRounds, Interactions, Questions,
     Gate
<1> QED
  BY <1>1, <1>2, <1>3, <1>4, <1>5, <1>6, <1>7, <1>8, <1>9, Zenon

\* A redacted message no longer says what its question is about.
LEMMA RedactKeeps ==
    ASSUME Inv, redact
    PROVE  Inv'
<1> USE SessionAssumption
    DEF Inv, Types, Lifecycle, Cancelling, Spending, session, watched,
    redact
<1>1. CallTypes'
  BY Zenon DEF CallTypes, Pcs
<1>2. RecordTypes'
  BY DEF RecordTypes, Interactions, Kinds
<1>3. WatchTypes'
  BY ZenonT(60) DEF RecordTypes, WatchTypes, WatchedRounds, CallTypes, Aimed, Runs
<1>4. Account'
  BY Zenon DEF CallTypes, Account
<1>5. Aimed'
  BY Zenon DEF CallTypes, WatchTypes, Aimed, Ends, Runs
<1>6. Late'
  BY Zenon DEF CallTypes, Aimed, Late, Questions, stop_requested
<1>7. Questions'
  BY SMTT(30) DEF CallTypes, RecordTypes, WatchTypes, WatchedRounds, Interactions,
     Questions
<1>8. Ends'
  BY Zenon DEF CallTypes, WatchTypes, Ends, Questions, Runs
<1>9. Gate'
  BY SMTT(30) DEF RecordTypes, WatchTypes, WatchedRounds, Interactions, Questions,
     Gate
<1> QED
  BY <1>1, <1>2, <1>3, <1>4, <1>5, <1>6, <1>7, <1>8, <1>9, Zenon

-----------------------------------------------------------------------------
(* The invariant and what follows from it.                                 *)

\* A new session satisfies the invariant.
LEMMA InitKeeps == Init => Inv
<1> SUFFICES ASSUME Init PROVE Inv
  BY Zenon
<1> USE SessionAssumption DEF Init, NewRound
<1>1. Types
  <2>1. CallTypes
    <3>1. pc \in Pcs /\ run \in Nat /\ run <= MaxRuns
      BY SMTT(30) DEF Pcs
    <3>2. charges \in [run : Nat, tokens : Nat]
      BY Zenon
    <3> QED
      BY <3>1, <3>2, ZenonT(30) DEF CallTypes
  <2>2. RecordTypes
    BY Zenon DEF RecordTypes
  <2>3. WatchTypes
    BY Zenon DEF WatchTypes, WatchedRounds
  <2> QED
    BY <2>1, <2>2, <2>3, Zenon DEF Types
<1>2. Account /\ Aimed /\ Late
  BY Zenon DEF Account, Aimed, Late
<1>3. Questions
  BY Zenon DEF Questions
<1>4. Ends
  BY SMTT(30) DEF Ends, Runs
<1>5. Gate
  BY Zenon DEF Gate
<1> QED
  BY <1>1, <1>2, <1>3, <1>4, <1>5, Zenon DEF Inv

\* A step that changes none of the variables.
LEMMA StutterKeeps == ASSUME Inv, UNCHANGED vars PROVE Inv'
<1> USE DEF vars, session, watched
<1>1. Types'
  BY Zenon DEF Inv, Types, CallTypes, RecordTypes, WatchTypes
<1>2. Account' /\ Aimed' /\ Late' /\ Questions'
  BY Zenon DEF Inv, Account, Aimed, Late, Questions, stop_requested
<1>3. Ends' /\ Gate'
  BY Zenon DEF Inv, Ends, Gate
<1> QED
  BY <1>1, <1>2, <1>3, Zenon DEF Inv

\* Every step of the call that holds the session.
LEMMA CallKeeps == ASSUME Inv, CallStep PROVE Inv'
<1>1. CASE RoundSteps
  BY Zenon, <1>1, RoundBeginsKeeps, ContextAnswersKeeps, StreamBreaksKeeps,
     ModelFailsKeeps, ModelAnswersKeeps, DispatchReturnsKeeps, ScriptAsksKeeps
     DEF RoundSteps
<1>2. CASE ResumeSteps
  BY Zenon, <1>2, ResumeFailsKeeps, ResumeSucceedsKeeps, ReplayBeginsKeeps,
     ScriptAsksAgainKeeps, ScriptCompletesKeeps DEF ResumeSteps
<1> QED
  BY <1>1, <1>2, ThrowsKeeps, FireRunEndIfCompletedKeeps, Zenon DEF CallStep

\* The invariant holds in every reachable state of the session.
THEOREM SessionInvariant == Spec => []Inv
<1>1. Inv /\ [Next]_vars => Inv'
  <2> SUFFICES ASSUME Inv, [Next]_vars PROVE Inv'
    BY Zenon
  <2>1. CASE start_run
    BY <2>1, StartRunKeeps, Zenon
  <2>2. CASE \E i \in open : \/ resolve_approval(i)
                             \/ resolve_hook_decision(i)
                             \/ resolve_codeact_ask(i)
    BY Zenon, <2>2, ResolveApprovalKeeps, ResolveHookDecisionKeeps,
       ResolveCodeactAskKeeps
  <2>3. CASE CallStep
    BY <2>3, CallKeeps, Zenon
  <2>4. CASE \E c \in Cancellers : cancel(c) \/ request_stop(c)
    BY <2>4, CancelKeeps, RequestStopKeeps, Zenon
  <2>5. CASE \E r \in Runs : charge(r)
    BY <2>5, ChargeKeeps, Zenon
  <2>6. CASE redact
    BY <2>6, RedactKeeps, Zenon
  <2>7. CASE UNCHANGED vars
    BY <2>7, StutterKeeps, Zenon
  <2> QED
    BY <2>1, <2>2, <2>3, <2>4, <2>5, <2>6, <2>7, Zenon DEF Next
<1> QED
  BY <1>1, InitKeeps, PTL DEF Spec

\* on_run_end fires once for every run that started, and before the session
\* is free again unless the run waits for an answer (note_run_lifecycle and
\* fire_run_end_if_completed), for any number of runs.
THEOREM RunEndsOnce == Spec => []OneRunEnd
<1>1. Inv => OneRunEnd
  <2> SUFFICES ASSUME Inv, NEW r \in 1 .. run
               PROVE  /\ fired[r] <= 1
                      /\ pc = "free" => (fired[r] = 0 <=> r = run /\ inflight)
    BY Zenon DEF OneRunEnd
  <2> r \in Runs /\ run \in Nat /\ run # 0
    BY SessionAssumption DEF Inv, Types, CallTypes, Runs
  <2>1. CASE r < run
    BY <2>1 DEF Inv, Ends
  <2>2. CASE r = run
    BY <2>2 DEF Inv, Ends
  <2> QED
    BY <2>1, <2>2
<1> QED
  BY <1>1, SessionInvariant, PTL

\* A run ends canceled only if cancel() was called while it was in flight: the
\* copy a canceller took of cancel_source_ never stops a later run.
THEOREM CancelsHitTheirRun == Spec => []CancelStaysInRun
<1>1. Inv => CancelStaysInRun
  BY Zenon DEF Inv, Aimed, CancelStaysInRun
<1> QED
  BY <1>1, SessionInvariant, PTL

\* After a stop at most one more model call begins, whatever the bounds on
\* turns and stream retries.
THEOREM StopLeavesOneCall == Spec => []OneCallAfterStop
<1>1. Inv => OneCallAfterStop
  BY SMTT(30) DEF Inv, Late, OneCallAfterStop
<1> QED
  BY <1>1, SessionInvariant, PTL

\* Between two runs of a call lies an answer to the question its script stopped
\* on (resolve_codeact_ask), and a gated call runs only with the approval of its
\* own round, through any mix of approvals, hook decisions, asks and failures.
THEOREM GateHolds == Spec => []GatedOnce
<1>1. Inv => GatedOnce
  BY Zenon DEF Inv, Gate, GatedOnce
<1> QED
  BY <1>1, SessionInvariant, PTL

\* Every question that is open while the session is free can be answered, unless
\* redact() took the message it is about.
THEOREM SessionNeverWedged == Spec => []NeverWedged
<1>1. Inv => NeverWedged
  BY Zenon DEF Inv, Questions, NeverWedged, Answerable
<1> QED
  BY <1>1, SessionInvariant, PTL

\* The charge account holds what children of the current run reported: the
\* tag on delegated_charges_ keeps late reports out.
THEOREM LateChargesDropped == Spec => []ChargesStayInRun
<1>1. Inv => ChargesStayInRun
  BY Zenon DEF Inv, Account, ChargesStayInRun
<1> QED
  BY <1>1, SessionInvariant, PTL

=============================================================================
