--------------------------- MODULE EffectJournal ---------------------------
(***************************************************************************)
(* The effect journal (rt/effect_journal.hpp) over a DurableLog: each      *)
(* executor journals its intent, performs the effect, journals the         *)
(* outcome.  A crash may come between any two of these steps; afterwards   *)
(* unconfirmed_effect_intents() says which effects need a decision.        *)
(***************************************************************************)
EXTENDS DurableLog

CONSTANTS Keys,        \* idempotency keys
          NoKey        \* key[w] while w works on no effect

JournalRecords == [key : Keys, phase : {"intent", "outcome"}]

VARIABLES
    stage,     \* where each executor is
    key,       \* the effect it works on
    performed  \* effects that took place in the world

journalVars == <<stage, key, performed>>
vars == <<logVars, journalVars>>

Stages == {"idle", "intending", "intended", "done", "concluding"}

Entry(k, ph) == [key |-> k, phase |-> ph]
EntryOf(w) == Entry(key[w], IF stage[w] = "intending" THEN "intent" ELSE "outcome")
Appending(w) == stage[w] \in {"intending", "concluding"}

Init ==
    /\ LogInit
    /\ stage = [w \in Writers |-> "idle"]
    /\ key = [w \in Writers |-> NoKey]
    /\ performed = {}

Leave(w) ==
    /\ stage' = [stage EXCEPT ![w] = "idle"]
    /\ key' = [key EXCEPT ![w] = NoKey]

\* journal_effect_intent(): the append is called before the effect is performed.
JournalIntent(w, k) ==
    /\ stage[w] = "idle"
    /\ k \notin performed
    /\ \A v \in Writers : stage[v] # "idle" => key[v] # k
    /\ stage' = [stage EXCEPT ![w] = "intending"]
    /\ key' = [key EXCEPT ![w] = k]
    /\ UNCHANGED <<performed, logVars>>

\* The effect itself, only after its intent is journaled.
Perform(w) ==
    /\ stage[w] = "intended"
    /\ performed' = performed \cup {key[w]}
    /\ stage' = [stage EXCEPT ![w] = "done"]
    /\ UNCHANGED <<key, logVars>>

\* journal_effect_outcome().
JournalOutcome(w) ==
    /\ stage[w] = "done"
    /\ stage' = [stage EXCEPT ![w] = "concluding"]
    /\ UNCHANGED <<key, performed, logVars>>

\* append_entry() reaches the log ...
EntryCommitted(w) ==
    /\ Appending(w)
    /\ UNCHANGED journalVars
    /\ Commit(w, EntryOf(w))

\* ... and reports success.
EntryPromised(w) ==
    /\ Appending(w)
    /\ IF stage[w] = "intending"
       THEN stage' = [stage EXCEPT ![w] = "intended"] /\ UNCHANGED key
       ELSE Leave(w)
    /\ UNCHANGED performed
    /\ Promise(w, EntryOf(w))

\* An append fails (the error is the caller's), or the executor's process dies.
Stopped(w) ==
    /\ stage[w] # "idle"
    /\ Leave(w)
    /\ UNCHANGED performed
    /\ Abandon(w)

Outage ==
    /\ stage' = [w \in Writers |-> "idle"]
    /\ key' = [w \in Writers |-> NoKey]
    /\ UNCHANGED performed
    /\ PowerLoss

Rot == UNCHANGED journalVars /\ Damage

Next ==
    \/ \E w \in Writers :
          \/ \E k \in Keys : JournalIntent(w, k)
          \/ Perform(w) \/ JournalOutcome(w)
          \/ EntryCommitted(w) \/ EntryPromised(w) \/ Stopped(w)
    \/ Outage
    \/ Rot

Spec == Init /\ [][Next]_vars

-----------------------------------------------------------------------------
\* has_outcome and the journaled intents, over the entries in commit order.
Journaled(ph) == {k \in Keys : \E i \in 1..Len(log) : log[i] = Entry(k, ph)}
unconfirmed_effect_intents == Journaled("intent") \ Journaled("outcome")

(***************************************************************************)
(* After any crash the journal accounts for the world: an effect that took *)
(* place is in it, either confirmed or waiting for a decision, and one     *)
(* whose outcome was journaled successfully is never offered for a second  *)
(* decision.  A log that refuses to be read, or a power loss in os_buffer  *)
(* mode, is outside the promise.                                           *)
(***************************************************************************)
EffectsAccounted ==
    refused \/ waived \/
        /\ performed \subseteq Journaled("intent")
        /\ \A k \in Keys : (\E p \in promised : p[2] = Entry(k, "outcome")) =>
                              k \notin unconfirmed_effect_intents
=============================================================================
