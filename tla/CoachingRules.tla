----------------------------- MODULE CoachingRules -----------------------------
(***************************************************************************)
(* RuleBasedCoachingEngine (app/coaching/rule_engine.py): which coaching   *)
(* suggestions the words of an event and the labels of its classification  *)
(* call for.  Texts are sequences of words already folded by _tokens; the  *)
(* rules are the enabled ones, with canonical labels.                      *)
(***************************************************************************)
EXTENDS CallState

CONSTANTS
    Rules,                  \* sequence of [label, action, priority, any, all, exclude]
    Templates,              \* label -> priority of its classification template
    CancellationPhrases,    \* _CANCELLATION_PHRASES
    CancellationNegations,  \* _CANCELLATION_NEGATIONS
    CancellationLabels      \* labels _is_cancellation_label recognises

Cancellation == "cancellation_request"
ActionStrength == [no_action |-> 0, template_action |-> 1, rag_action |-> 2,
                   escalate |-> 3]

ASSUME RulesAssumption ==
    /\ Rules \in Seq(Range(Rules))
    /\ \A i \in DOMAIN Rules : /\ Rules[i].label \in BusinessLabels
                               /\ Rules[i].action \in DOMAIN ActionStrength
                               /\ Rules[i].priority \in DOMAIN PriorityRank
                               /\ Rules[i].any \cup Rules[i].all # {}
    /\ DOMAIN Templates \subseteq BusinessLabels
    /\ \A l \in DOMAIN Templates : Templates[l] \in DOMAIN PriorityRank
    /\ Cancellation \in DOMAIN Templates

ContainsPhrase(words, phrase) ==
    \E i \in 0 .. Len(words) - Len(phrase) :
        SubSeq(words, i + 1, i + Len(phrase)) = phrase

Matches(rule, words) ==
    /\ rule.any # {} => \E p \in rule.any : ContainsPhrase(words, p)
    /\ \A p \in rule.all : ContainsPhrase(words, p)
    /\ \A p \in rule.exclude : ~ContainsPhrase(words, p)

MatchingRules(words) == {i \in DOMAIN Rules : Matches(Rules[i], words)}

\* An explicit request counts unless the caller negates it.
ExplicitCancellation(words) ==
    /\ \E p \in CancellationPhrases : ContainsPhrase(words, p)
    /\ \A p \in CancellationNegations : ~ContainsPhrase(words, p)

RuleLabels(rules) == {Rules[i].label : i \in rules}

\* The built-in cancellation rule steps back for a tenant's own.
CancellationByText(words) ==
    /\ ExplicitCancellation(words)
    /\ RuleLabels(MatchingRules(words)) \cap CancellationLabels = {}

\* classify_partial: labels of the rules alone, none if no rule matches.
ClassifyPartial(words) ==
    RuleLabels(MatchingRules(words))
        \cup IF CancellationByText(words) THEN {Cancellation} ELSE {}

\* _source_for_signals
SourceOf(label, byRule, byModel) ==
    IF label \notin byModel THEN "rule"
    ELSE IF label \in byRule THEN "both" ELSE "classification"

\* The strongest of a label's rules; among equals the one matched first, rules
\* of the text before those the classification adds.
SelectedRule(rules, byText) ==
    LET strength(i) == <<ActionStrength[Rules[i].action], PriorityRank[Rules[i].priority]>>
        above(x, y) == x[1] > y[1] \/ (x[1] = y[1] /\ x[2] > y[2])
        first(i, j) == \/ i \in byText /\ j \notin byText
                       \/ (i \in byText <=> j \in byText) /\ i < j
    IN  CHOOSE i \in rules : \A j \in rules \ {i} :
            \/ above(strength(i), strength(j))
            \/ strength(i) = strength(j) /\ first(i, j)

\* evaluate: the labels that hold and the suggestions, one for a label.  A
\* partial is judged by the labels given with it only.
Evaluate(kind, words, given, givenAreRules, revision) ==
    LET byText == IF kind = "partial" THEN {} ELSE MatchingRules(words)
        matched == byText \cup {i \in DOMAIN Rules : Rules[i].label \in given}
        cancels == kind # "partial" /\ CancellationByText(words)
        spoken == IF cancels THEN {Cancellation} ELSE {}
        templates == (given \cap DOMAIN Templates) \cup spoken
        usable(l) == {i \in matched : /\ Rules[i].label = l
                                      /\ Rules[i].action \in {"template_action", "escalate"}}
        byRule == RuleLabels(byText) \cup spoken \cup (IF givenAreRules THEN given ELSE {})
        byModel == IF givenAreRules THEN {} ELSE given
        suggested == templates \cup {l \in BusinessLabels : usable(l) # {}}
        rule(l) == SelectedRule(usable(l), byText)
        suggestion(l) ==
            [id |-> <<"local", revision, l>>,
             label |-> l,
             source |-> SourceOf(l, byRule, byModel),
             lifecycle |-> IF kind = "partial" THEN "provisional" ELSE "confirmed",
             action |-> IF usable(l) # {} THEN Rules[rule(l)].action ELSE "template_action",
             priority |-> IF usable(l) # {} THEN Rules[rule(l)].priority ELSE Templates[l],
             content |-> IF usable(l) # {} THEN <<"rule", rule(l)>> ELSE <<"template", l>>]
    IN  [labels |-> RuleLabels(matched) \cup templates,
         suggestions |-> [l \in suggested |-> suggestion(l)]]

==============================================================================
