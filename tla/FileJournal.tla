---------------------------- MODULE FileJournal ----------------------------
(***************************************************************************)
(* The effect journal kept in a FileAppendLogStore: the executors of       *)
(* EffectJournal, whose appends are the file operations of AppendLog, and  *)
(* the mapping under which the whole implements EffectJournal.             *)
(***************************************************************************)
EXTENDS AppendLog

CONSTANTS Keys,        \* idempotency keys
          NoKey        \* key[w] while w works on no effect

VARIABLES stage, key, performed

journalVars == <<stage, key, performed>>
vars == <<fileVars, journalVars>>

J == INSTANCE EffectJournal WITH
        mode <- sync,
        log <- scan_log(file).records,
        refused <- damage_error(scan_log(file)),
        waived <- outage /\ sync = "os_buffer",
        at <- [w \in Writers |-> IF call[w] = "written" THEN count[w] + 1 ELSE 0]

Init ==
    /\ FileInit
    /\ stage = [w \in Writers |-> "idle"]
    /\ key = [w \in Writers |-> NoKey]
    /\ performed = {}

Leave(w) ==
    /\ stage' = [stage EXCEPT ![w] = "idle"]
    /\ key' = [key EXCEPT ![w] = NoKey]

\* journal_effect_intent().
JournalIntent(w, k) ==
    /\ stage[w] = "idle"
    /\ k \notin performed
    /\ \A v \in Writers : stage[v] # "idle" => key[v] # k
    /\ stage' = [stage EXCEPT ![w] = "intending"]
    /\ key' = [key EXCEPT ![w] = k]
    /\ AppendBegin(w, J!Entry(k, "intent"))
    /\ UNCHANGED performed

\* The effect, after its intent is journaled.
Perform(w) ==
    /\ stage[w] = "intended"
    /\ performed' = performed \cup {key[w]}
    /\ stage' = [stage EXCEPT ![w] = "done"]
    /\ UNCHANGED <<key, fileVars>>

\* journal_effect_outcome().
JournalOutcome(w) ==
    /\ stage[w] = "done"
    /\ stage' = [stage EXCEPT ![w] = "concluding"]
    /\ AppendBegin(w, J!Entry(key[w], "outcome"))
    /\ UNCHANGED <<key, performed>>

\* append_entry() resumes with the append's result.
StoreStep(w) ==
    \/ /\ Lock(w) \/ ScanAndCut(w) \/ WriteSome(w)
       /\ UNCHANGED journalVars
    \/ /\ Return(w)
       /\ IF stage[w] = "intending"
          THEN stage' = [stage EXCEPT ![w] = "intended"] /\ UNCHANGED key
          ELSE Leave(w)
       /\ UNCHANGED performed
    \/ ScanRefuses(w) /\ Leave(w) /\ UNCHANGED performed

StoreError(w) ==
    /\ AppendError(w) \/ ProcessDies(w)
    /\ Leave(w)
    /\ UNCHANGED performed

\* The executor's process dies between two appends.
ExecutorDies(w) ==
    /\ stage[w] \in {"intended", "done"}
    /\ Fault
    /\ Leave(w)
    /\ UNCHANGED <<performed, storeVars, torn2, rotten, outage>>

Blackout ==
    /\ PowerFails
    /\ stage' = [w \in Writers |-> "idle"]
    /\ key' = [w \in Writers |-> NoKey]
    /\ UNCHANGED performed

Rot == BitRot /\ UNCHANGED journalVars

Next ==
    \/ \E w \in Writers :
          \/ \E k \in Keys : JournalIntent(w, k)
          \/ Perform(w) \/ JournalOutcome(w)
          \/ StoreStep(w) \/ StoreError(w) \/ ExecutorDies(w)
    \/ Blackout
    \/ Rot

Spec == Init /\ [][Next]_vars

-----------------------------------------------------------------------------
(***************************************************************************)
(* The file store keeps what an append log promises: with records read     *)
(* back by scan_log, every step of the writers, of a crash, a power loss   *)
(* or bit rot is a step of EffectJournal over DurableLog, or none.         *)
(***************************************************************************)
FileImplementsLog == J!Spec

\* EffectsAccounted of the journal, on the file: see EffectJournal.
EffectsAccounted == J!EffectsAccounted
=============================================================================
