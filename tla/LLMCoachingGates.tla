---------------------------- MODULE LLMCoachingGates ----------------------------
(***************************************************************************)
(* The two pure gates around the model: whether the labels of a revision   *)
(* justify a retrieval and generation request (llm_decision_gate.py), and  *)
(* whether what the model wrote may become a suggestion                    *)
(* (llm_result_gate.py, llm_suggestion_factory.py).                        *)
(*                                                                         *)
(* An output of the model is a record: the form of its text, the decision  *)
(* it states, whether the schema accepts the payload, the revision and     *)
(* scope it claims, and the passages it cites.                             *)
(***************************************************************************)
EXTENDS Integers, SequencesExt

\* decide: a request needs a label that is new, current and enabled.
RequestsGeneration(current, new, enabled, ragEnabled, llmEnabled) ==
    /\ ~("no_action" \in current /\ current # {"no_action"})
    /\ ~("no_action" \in new /\ new # {"no_action"})
    /\ new \subseteq current
    /\ (new \ {"no_action"}) \cap enabled # {}
    /\ ragEnabled
    /\ llmEnabled

OutputForms == {"blank", "oversized", "repeated_key", "unparsable", "too_deep", "object"}

\* The rejections in the order evaluate() looks for them.
Rejections(output, revision, allowed) ==
    <<[reason |-> "payload_too_large", holds |-> output.form = "oversized"],
      [reason |-> "duplicate_key",     holds |-> output.form = "repeated_key"],
      [reason |-> "invalid_json",      holds |-> output.form \in {"blank", "unparsable"}],
      [reason |-> "payload_too_deep",  holds |-> output.form = "too_deep"],
      [reason |-> "unsupported_decision",
       holds |-> output.decision \notin {"suggestion", "no_suggestion"}],
      [reason |-> "schema_validation_failed", holds |-> ~output.valid],
      [reason |-> "scope_mismatch",
       holds |-> output.foreign \/ output.revision # revision],
      [reason |-> "duplicate_citation",
       holds |-> output.decision = "suggestion" /\ ~IsInjective(output.citations)],
      [reason |-> "citation_not_allowed",
       holds |-> output.decision = "suggestion" /\ ~(Range(output.citations) \subseteq allowed)]>>

\* LLMCoachingResultGate.evaluate
GateStatus(output, revision, allowed) ==
    LET found == SelectSeq(Rejections(output, revision, allowed), LAMBDA r : r.holds)
    IN  CASE found # <<>> -> found[1].reason
          [] found = <<>> /\ output.decision = "suggestion" -> "valid_suggestion"
          [] found = <<>> /\ output.decision = "no_suggestion" -> "valid_no_suggestion"

\* DeterministicLLMCoachingSuggestionFactory.create: only the text is the
\* model's; title, action, priority and label are those of the policy.
CreateSuggestion(policy, output, revision) ==
    [id |-> <<"llm", revision>>,
     label |-> policy.label,
     source |-> "llm",
     lifecycle |-> "confirmed",
     action |-> policy.action,
     priority |-> policy.priority,
     content |-> <<"llm", output.advice>>]

=============================================================================
