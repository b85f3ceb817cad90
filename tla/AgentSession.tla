---------------------------- MODULE AgentSession ----------------------------
(***************************************************************************)
(* AgentSessionCore: one conversation of one agent, driven by hosts that   *)
(* start runs, answer the questions a run stops on and cancel it.  A call  *)
(* of start_run or resolve_interaction holds the session's AsyncMutex to   *)
(* its end, across every await; `pc' says at which await it stands.        *)
(* cancel() takes no session lock, and a child agent a tool started may    *)
(* report what it spent at any time, long after its run.                   *)
(*                                                                         *)
(* A round is one model response and the calls it asks for.  The history   *)
(* is its length and the tool calls its last message asks for (none, when  *)
(* that message is not the model's).  Token counts are units: a model      *)
(* call, a discarded attempt and a child's report cost one each.           *)
(***************************************************************************)
EXTENDS Naturals, FiniteSets

CONSTANTS Calls,      \* the tool calls one model response may ask for
          Cancellers, \* threads that call cancel()
          NoSource,   \* a canceller that holds no stop source
          max_turns,  \* the agent's bound on rounds of a run
          stream_retries, \* re-sends of a broken stream, per run
          token_budget,   \* tokens a run may spend
          MaxRuns,    \* bound: start_run calls
          MaxOwed     \* bound: children's reports the account may hold

ASSUME SessionAssumption ==
    /\ max_turns \in Nat \ {0} /\ stream_retries \in Nat
    /\ token_budget \in Nat /\ MaxRuns \in Nat /\ MaxOwed \in Nat
    /\ NoSource \notin Nat

VARIABLES pc,         \* "free", or where the call that holds the session stands
          run,        \* run_counter_
          turn,       \* effect_context_.turn_index
          retries,    \* stream_retries_used_
          spent,      \* run_tokens_consumed_
          charges,    \* delegated_charges_: the run it is for and its tokens
          inflight,   \* run_in_flight_
          pending_end,\* pending_run_end_ holds a reason
          history,    \* history_: its length, the calls its last message asks for
          open,       \* open interactions, with their suspended-round record
          todo,       \* the calls of the round that are to be dispatched
          source,     \* cancel_source_: the run it was made for (0: none yet)
          stopped,    \* sources that were asked to stop
          grabbed,    \* the copy of cancel_source_ each canceller holds
          children    \* runs with a child agent still to report a charge

\* What the properties speak of and the code does not keep.
VARIABLES fired,      \* how often on_run_end fired, for each run
          aimed,      \* runs some cancel() was called in
          canceled,   \* runs that ended canceled
          late_calls, \* model calls the run began after it was told to stop
          round,      \* the last round: the calls gated, approved and run;
                      \* whether a call ran again without a fresh answer, an
                      \* answer waits for its replay, its message was redacted
          owed        \* tokens children of this run reported, not yet folded in

session == <<run, turn, retries, spent, charges, inflight, pending_end,
             history, open, todo, source, children>>
watched == <<fired, aimed, canceled, late_calls, round, owed>>
vars == <<pc, session, stopped, grabbed, watched>>

Runs == 1 .. MaxRuns

stop_requested == source \in stopped

NewRound == [gated |-> {}, approved |-> {}, ran |-> {}, again |-> FALSE,
             answered |-> FALSE, redacted |-> FALSE]

Init ==
    /\ pc = "free"
    /\ run = 0 /\ turn = 0 /\ retries = 0 /\ spent = 0
    /\ charges = [run |-> 0, tokens |-> 0]
    /\ inflight = FALSE /\ pending_end = FALSE
    /\ history = [size |-> 0, asks |-> {}]
    /\ open = {} /\ todo = {}
    /\ source = 0 /\ stopped = {}
    /\ grabbed = [c \in Cancellers |-> NoSource]
    /\ children = {}
    /\ fired = [r \in Runs |-> 0]
    /\ aimed = {} /\ canceled = {}
    /\ late_calls = 0
    /\ round = NewRound
    /\ owed = 0

-----------------------------------------------------------------------------
(* The history, events and interactions.                                   *)

\* history_.push_back of a message that asks for `calls'.
Pushed(calls) == history' = [size |-> history.size + 1, asks |-> calls]

\* Mutant: a terminal event counts although the run is over.
NoteAnyTerminal(kind) ==
    /\ inflight' = FALSE
    /\ pending_end' = TRUE
    /\ canceled' = IF kind = "canceled" THEN canceled \union {run} ELSE canceled

\* A terminal event of the run (note_run_lifecycle): it counts only while the
\* run is in flight, and leaves its reason for fire_run_end_if_completed.
note_run_lifecycle(kind) ==
    /\ inflight' = FALSE
    /\ pending_end' = (pending_end \/ inflight)
    /\ canceled' = IF kind = "canceled" /\ inflight
                      THEN canceled \union {run} ELSE canceled

\* The call in progress ends by emitting a terminal event.
Terminal(kind) ==
    /\ note_run_lifecycle(kind)
    /\ pc' = "ending"

\* Opens an interaction about the round whose assistant message is the
\* at-th of the history.
open_interaction(kind, at, calls, asked) ==
    open' = open \union
        {[kind |-> kind, at |-> at, calls |-> calls, asked |-> asked]}

Lifecycle == <<inflight, pending_end, canceled>>
Cancelling == <<source, stopped, grabbed, aimed>>
Spending == <<retries, spent, charges, children, owed, late_calls>>

-----------------------------------------------------------------------------
(* start_run and the round loop.                                           *)

\* Mutant: the next run inherits the source of the last one.
KeptSource == UNCHANGED source

\* The run gets a stop source of its own.
FreshSource == source' = run + 1

\* start_run: refused while an approval, an ask or a hook decision is open.
\* Everything that is counted per run starts afresh, the charge account and
\* the stop source included.
start_run ==
    /\ pc = "free" /\ run < MaxRuns
    /\ open = {}
    /\ run' = run + 1
    /\ turn' = 0 /\ retries' = 0 /\ spent' = 0
    /\ charges' = [run |-> run + 1, tokens |-> 0]
    /\ FreshSource
    /\ inflight' = TRUE /\ pending_end' = FALSE
    /\ Pushed({})
    /\ pc' = "rounds"
    /\ late_calls' = 0 /\ owed' = 0 /\ round' = NewRound
    /\ UNCHANGED <<open, todo, stopped, grabbed, children, fired, aimed,
                   canceled>>

\* The head of the round loop: the turn bound, then the stop token, then the
\* context provider is awaited.
RoundBegins ==
    /\ pc = "rounds"
    /\ \/ turn >= max_turns /\ Terminal("failed")
       \/ turn < max_turns /\ stop_requested /\ Terminal("canceled")
       \/ /\ turn < max_turns /\ ~stop_requested
          /\ pc' = "context"
          /\ UNCHANGED Lifecycle
    /\ round' = NewRound
    /\ UNCHANGED <<run, turn, history, open, todo, Cancelling, Spending,
                   fired>>

\* What child agents reported joins what the run has spent.
fold_delegated_usage ==
    /\ spent' = spent + charges.tokens
    /\ charges' = [charges EXCEPT !.tokens = 0] /\ owed' = 0

BeginModelCall ==
    /\ pc' = "model"
    /\ late_calls' = late_calls + (IF stop_requested THEN 1 ELSE 0)

\* on_context returns: an error fails the run; otherwise what child agents
\* spent is folded in, the budget checked and the model called.  The stop
\* token is not looked at again.
ContextAnswers ==
    /\ pc = "context"
    /\ \/ /\ Terminal("failed")
          /\ UNCHANGED <<spent, charges, owed, late_calls>>
       \/ /\ fold_delegated_usage
          /\ IF charges.tokens > 0 /\ spent' > token_budget
                THEN Terminal("failed") /\ UNCHANGED late_calls
                ELSE BeginModelCall /\ UNCHANGED Lifecycle
    /\ UNCHANGED <<run, turn, retries, history, open, todo, Cancelling,
                   children, fired, round>>

\* Mutant: a run that was told to stop sends the stream again.
RetryRegardless == retries < stream_retries

should_retry_stream == retries < stream_retries /\ ~stop_requested

\* A stream that broke mid-answer is charged and sent again, unless the run
\* was told to stop, its retries are used up or the charge breaks the budget.
StreamBreaks ==
    /\ pc = "model" /\ should_retry_stream
    /\ retries' = retries + 1
    /\ spent' = spent + 1
    /\ IF spent' > token_budget
          THEN Terminal("failed") /\ UNCHANGED late_calls
          ELSE BeginModelCall /\ UNCHANGED Lifecycle
    /\ UNCHANGED <<run, turn, charges, children, owed, history, open, todo,
                   Cancelling, fired, round>>

\* The model call fails for good: canceled if the run's own token fired.
ModelFails ==
    /\ pc = "model"
    /\ Terminal(IF stop_requested THEN "canceled" ELSE "failed")
    /\ UNCHANGED <<run, turn, history, open, todo, Cancelling, Spending,
                   fired, round>>

\* What becomes of the calls of a round that no hook denied: `external' wait
\* for a hook's host, `gated' for a human.  hook_decision wins; its answer has
\* the approvals worked out again.
SuspendOrDispatch(calls, external, gated) ==
    IF external # {}
       THEN /\ open_interaction("hook_decision", history'.size, calls, external)
            /\ pc' = "ending" /\ todo' = {}
            /\ round' = NewRound
       ELSE IF gated # {}
       THEN /\ open_interaction("approval", history'.size, calls, gated)
            /\ pc' = "ending" /\ todo' = {}
            /\ round' = [NewRound EXCEPT !.gated = gated]
       ELSE /\ todo' = calls /\ pc' = "dispatch"
            /\ round' = NewRound
            /\ UNCHANGED open

\* The model answered: its usage is charged and the budget checked, then the
\* stop token; only then does the response enter the history.
ModelAnswers ==
    /\ pc = "model"
    /\ spent' = spent + 1
    /\ IF spent' > token_budget \/ stop_requested
          THEN /\ Terminal(IF spent' > token_budget THEN "failed" ELSE "canceled")
               /\ UNCHANGED <<history, open, todo, round>>
          ELSE \/ /\ \E kind \in {"finished", "failed"} : Terminal(kind)
                  /\ Pushed({})
                  /\ UNCHANGED <<open, todo, round>>
               \/ /\ \E calls \in (SUBSET Calls) \ {{}} :
                       /\ Pushed(calls)
                       /\ \E left \in SUBSET calls :
                            \E external, gated \in SUBSET left :
                               SuspendOrDispatch(left, external, gated)
                  /\ UNCHANGED Lifecycle
    /\ UNCHANGED <<run, turn, retries, charges, children, owed, late_calls,
                   Cancelling, fired>>

-----------------------------------------------------------------------------
(* Tools.                                                                  *)

\* The calls in `todo' run; a tool may leave a child agent behind.
RunTools ==
    /\ todo' = {}
    /\ round' = [round EXCEPT
         !.ran = @ \union todo, !.answered = FALSE,
         !.again = @ \/ (~round.answered /\ round.ran \intersect todo # {})]
    /\ \/ UNCHANGED children
       \/ todo # {} /\ owed < MaxOwed /\ children' = children \union {run}

\* Their results enter the history, the turn is over.
TurnFinished ==
    /\ Pushed({})
    /\ turn' = turn + 1
    /\ pc' = "rounds"

\* dispatch_tool_calls: of the round loop ("dispatch"), or of a resumed round
\* ("redispatch", finish_hook_processed_round).
DispatchReturns ==
    /\ pc \in {"dispatch", "redispatch"}
    /\ RunTools
    /\ TurnFinished
    /\ UNCHANGED <<run, retries, spent, charges, owed, late_calls, open,
                   Lifecycle, Cancelling, fired>>

\* In the round loop a script may instead stop on agent.ask().  That suspends
\* a round of one call and fails any other.
ScriptAsks ==
    /\ pc = "dispatch" /\ todo # {}
    /\ RunTools
    /\ IF Cardinality(history.asks) # 1
          THEN Terminal("failed") /\ UNCHANGED open
          ELSE /\ open_interaction("codeact_ask", history.size, todo, todo)
               /\ pc' = "ending"
               /\ UNCHANGED Lifecycle
    /\ UNCHANGED <<run, turn, retries, spent, charges, owed, late_calls,
                   history, Cancelling, fired>>

-----------------------------------------------------------------------------
(* resolve_interaction.                                                    *)

\* The answer names an open interaction, and its round is still the last
\* message.  Otherwise the call is refused and changes nothing.
Answerable(i) ==
    /\ i \in open
    /\ i.at = history.size /\ history.asks # {}

\* Mutant: the interaction stays open.
KeepRecord(i) == open' = open

resolve_interaction_record(i) == open' = open \ {i}

\* Mutant: one approval lets the whole round run.
ApproveRound(i) ==
    /\ pc = "free" /\ Answerable(i) /\ i.kind = "approval"
    /\ resolve_interaction_record(i)
    /\ \E approved \in (SUBSET i.asked) \ {{}} :
         /\ todo' = i.calls
         /\ round' = [round EXCEPT !.approved = @ \union approved]
    /\ pc' = "resume"
    /\ UNCHANGED <<run, turn, history, Lifecycle, Cancelling, Spending, fired>>

\* An approval: each call asked about is approved or denied.  The interaction
\* closes first; with nothing left to run the context is not asked again.
resolve_approval(i) ==
    /\ pc = "free" /\ Answerable(i) /\ i.kind = "approval"
    /\ resolve_interaction_record(i)
    /\ \E approved \in SUBSET i.asked :
         /\ todo' = (i.calls \ i.asked) \union approved
         /\ round' = [round EXCEPT !.approved = @ \union approved]
    /\ pc' = IF todo' = {} THEN "redispatch" ELSE "resume"
    /\ UNCHANGED <<run, turn, history, Lifecycle, Cancelling, Spending, fired>>

\* A hook's host answers for every call it holds; it may deny some.
resolve_hook_decision(i) ==
    /\ pc = "free" /\ Answerable(i) /\ i.kind = "hook_decision"
    /\ resolve_interaction_record(i)
    /\ \E allowed \in SUBSET i.asked : todo' = (i.calls \ i.asked) \union allowed
    /\ pc' = "recheck"
    /\ UNCHANGED <<run, turn, history, Lifecycle, Cancelling, Spending, fired,
                   round>>

\* An answer to agent.ask(): the interaction stays open until the script is
\* through.
resolve_codeact_ask(i) ==
    /\ pc = "free" /\ Answerable(i) /\ i.kind = "codeact_ask"
    /\ pc' = "answer"
    /\ UNCHANGED <<session, Cancelling, late_calls, owed, fired, canceled, round>>

\* resume_tool_table fails: the run fails.  An ask stays open all the same, and
\* its answer is not kept.
ResumeFails ==
    /\ pc \in {"resume", "recheck", "answer"}
    /\ Terminal("failed")
    /\ todo' = {}
    /\ UNCHANGED <<run, turn, history, open, Cancelling, Spending, fired,
                   round>>

\* The tools are there: an approved round is dispatched; a round a hook held
\* is dispatched, or waits for the approvals it still needs.
ResumeSucceeds ==
    /\ pc \in {"resume", "recheck"}
    /\ \/ /\ pc' = "redispatch"
          /\ UNCHANGED <<todo, open, round>>
       \/ /\ pc = "recheck"
          /\ \E gated \in (SUBSET todo) \ {{}} :
               /\ open_interaction("approval", history.size, todo, gated)
               /\ round' = [round EXCEPT !.gated = gated]
          /\ todo' = {} /\ pc' = "ending"
    /\ UNCHANGED <<run, turn, history, Lifecycle, Cancelling, Spending, fired>>

\* The tools are there: the answer joins the earlier ones and the same call is
\* invoked again, its script from the top.
ReplayBegins ==
    /\ pc = "answer"
    /\ \E i \in open : todo' = i.calls
    /\ round' = [round EXCEPT !.answered = TRUE]
    /\ pc' = "replay"
    /\ UNCHANGED <<run, turn, history, open, Lifecycle, Cancelling, Spending,
                   fired>>

\* The replayed script asks again: that counts as a turn, and the last turn
\* closes the ask and fails the run.
ScriptAsksAgain ==
    /\ pc = "replay"
    /\ RunTools
    /\ turn' = turn + 1
    /\ IF turn' >= max_turns
          THEN /\ \E i \in open : resolve_interaction_record(i)
               /\ Terminal("failed")
          ELSE pc' = "ending" /\ UNCHANGED <<open, Lifecycle>>
    /\ UNCHANGED <<run, retries, spent, charges, owed, late_calls, history,
                   Cancelling, fired>>

\* The replayed script completes, or is denied: unattended mode had approved it
\* and no longer does.  Its interaction closes, its result ends the turn.
ScriptCompletes ==
    /\ pc = "replay"
    /\ \/ RunTools
       \/ todo' = {} /\ UNCHANGED <<children, round>>
    /\ \E i \in open : resolve_interaction_record(i)
    /\ TurnFinished
    /\ UNCHANGED <<run, retries, spent, charges, owed, late_calls, Lifecycle,
                   Cancelling, fired>>

-----------------------------------------------------------------------------
(* The end of a call.                                                      *)

\* Something the call awaited threw, a tool perhaps after its work was done.
\* The run is over if it was in flight.
Throws ==
    /\ \/ /\ pc \in {"context", "model", "resume", "recheck", "answer"}
          /\ todo' = {}
          /\ UNCHANGED <<children, round>>
       \/ pc \in {"dispatch", "redispatch", "replay"} /\ RunTools
    /\ Terminal("failed")
    /\ UNCHANGED <<run, turn, retries, spent, charges, owed, late_calls,
                   history, open, Cancelling, fired>>

\* Mutant: a call that leaves no run end to report keeps the lock.
FireAndUnlock ==
    /\ pc = "ending" /\ pending_end
    /\ fired' = [fired EXCEPT ![run] = @ + 1]
    /\ pending_end' = FALSE
    /\ pc' = "free"
    /\ round' = IF open = {} THEN NewRound ELSE round
    /\ UNCHANGED <<run, turn, inflight, canceled, history, open, todo,
                   Cancelling, Spending>>

\* fire_run_end_if_completed, still under the lock; then the call returns.
fire_run_end_if_completed ==
    /\ pc = "ending"
    /\ fired' = IF pending_end THEN [fired EXCEPT ![run] = @ + 1] ELSE fired
    /\ pending_end' = FALSE
    /\ pc' = "free"
    /\ round' = IF open = {} THEN NewRound ELSE round
    /\ UNCHANGED <<run, turn, inflight, canceled, history, open, todo,
                   Cancelling, Spending>>

-----------------------------------------------------------------------------
(* Beside the lock.                                                        *)

\* cancel(): the source is copied under cancel_mutex_, asked to stop after.
cancel(c) ==
    /\ grabbed[c] = NoSource
    /\ grabbed' = [grabbed EXCEPT ![c] = source]
    /\ aimed' = IF inflight THEN aimed \union {run} ELSE aimed
    /\ UNCHANGED <<pc, session, stopped, fired, canceled, late_calls, round,
                   owed>>

request_stop(c) ==
    /\ grabbed[c] # NoSource
    /\ stopped' = stopped \union {grabbed[c]}
    /\ grabbed' = [grabbed EXCEPT ![c] = NoSource]
    /\ UNCHANGED <<pc, session, watched>>

\* Mutant: a late report is charged to whatever run is on.
ChargeAnyRun(r) ==
    /\ r \in children
    /\ children' = children \ {r}
    /\ charges' = [charges EXCEPT !.tokens = @ + 1]
    /\ owed' = IF r = run THEN owed + 1 ELSE owed
    /\ UNCHANGED <<pc, run, turn, retries, spent, history, open, todo,
                   Lifecycle, Cancelling, late_calls, fired, round>>

\* A child agent of run r reports: the charge is dropped when the account has
\* gone on to another run.
charge(r) ==
    /\ r \in children
    /\ children' = children \ {r}
    /\ charges' = IF charges.run = r THEN [charges EXCEPT !.tokens = @ + 1]
                                     ELSE charges
    /\ owed' = IF r = run THEN owed + 1 ELSE owed
    /\ UNCHANGED <<pc, run, turn, retries, spent, history, open, todo,
                   Lifecycle, Cancelling, late_calls, fired, round>>

\* redact() of the last message, by a host between two calls: its content, the
\* calls it asks for included, becomes a tombstone.  Of any other message, or
\* with no question open, that changes nothing a later step reads.
redact ==
    /\ pc = "free" /\ open # {} /\ history.asks # {}
    /\ history' = [history EXCEPT !.asks = {}]
    /\ round' = [round EXCEPT !.redacted = TRUE]
    /\ UNCHANGED <<pc, run, turn, open, todo, Lifecycle, Cancelling, Spending,
                   fired>>

-----------------------------------------------------------------------------

RoundSteps == RoundBegins \/ ContextAnswers \/ StreamBreaks \/ ModelFails
              \/ ModelAnswers \/ DispatchReturns \/ ScriptAsks

ResumeSteps == ResumeFails \/ ResumeSucceeds \/ ReplayBegins
               \/ ScriptAsksAgain \/ ScriptCompletes

\* What the call that holds the session does next.
CallStep == RoundSteps \/ ResumeSteps \/ Throws \/ fire_run_end_if_completed

Next ==
    \/ start_run
    \/ \E i \in open : \/ resolve_approval(i)
                       \/ resolve_hook_decision(i)
                       \/ resolve_codeact_ask(i)
    \/ CallStep
    \/ \E c \in Cancellers : cancel(c) \/ request_stop(c)
    \/ \E r \in Runs : charge(r)
    \/ redact

Spec == Init /\ [][Next]_vars

\* What a call awaits answers or throws.
FairSpec == Spec /\ WF_vars(CallStep)

-----------------------------------------------------------------------------
(* Properties.                                                             *)

\* on_run_end fires once for every run that emitted run_started, after it
\* ended and before the session is free again, and not for a run that waits
\* for an answer: an exception, a refusal, a resume that fails and a second
\* terminal event included.
OneRunEnd ==
    \A r \in 1 .. run :
       /\ fired[r] <= 1
       /\ pc = "free" => (fired[r] = 0 <=> r = run /\ inflight)

\* A cancel reaches the run it was called in and no other: a run ends canceled
\* only if cancel() was called while that run was in flight, however late the
\* copied source is asked to stop and however often the source was replaced.
CancelStaysInRun == canceled \subseteq aimed

\* A run that was told to stop begins at most one more model call, the one
\* whose context was being gathered when the stop came.
OneCallAfterStop == late_calls <= 1

\* A tool call runs once, and once more only for each answer given to the
\* question its script stopped on (resolve_codeact_ask invokes the call again,
\* earlier effects of the script included): no failed, thrown or repeated resume
\* runs it again without one.  A call a human was asked about runs only if the
\* answer to that round's own question approved it.
GatedOnce ==
    /\ ~round.again
    /\ round.ran \intersect round.gated \subseteq round.approved

\* While nothing runs, the session either takes a new run or an answer to
\* every question it has open: no question outlives its round, which would
\* refuse the answer as stale and every new run as pending.  Only a host that
\* redacts the very message a question is about strands it; redact() does not
\* look for one.
NeverWedged ==
    pc = "free" => \A i \in open : Answerable(i) \/ round.redacted

\* The account a run reads before each model call holds what its own children
\* reported, and nothing a child of an earlier run reports late.
ChargesStayInRun == charges.tokens = owed

\* Every call of the session ends, with the run over or waiting for an answer,
\* when providers, models and tools answer or throw: rounds, retries and
\* repeated questions are all bounded.
CallsEnd == pc # "free" ~> pc = "free"

=============================================================================
