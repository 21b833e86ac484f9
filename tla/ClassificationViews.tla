-------------------------- MODULE ClassificationViews --------------------------
(***************************************************************************)
(* How the scores of the classifier become labels (app/classification:     *)
(* runtime.py, encoding.py, postprocessing.py, streaming.py).  A text is   *)
(* classified twice, alone and after the sentences before it, and the two  *)
(* views are merged; a question about the price does not count as an       *)
(* objection to it; a label of a partial text needs a higher score.        *)
(*                                                                         *)
(* A score is in tenths.  The model is outside the repository: it gives a  *)
(* text any of a set of score vectors.                                     *)
(***************************************************************************)
EXTENDS CoachingRules

CONSTANTS
    Scores,                 \* [label -> score] the model may give a text
    Thresholds,             \* label -> calibrated threshold
    PriceQueries,           \* PRICE_INFORMATION_SIGNALS
    PriceObjections,        \* PRICE_OBJECTION_SIGNALS
    ProvisionalLabelNames,  \* allowed_labels of the provisional policy
    CriticalLabels,         \* critical_labels, with limits of their own
    ProvisionalLimit,       \* [increment, minimum] of the provisional thresholds
    CriticalLimit

PriceObjection == "price_objection"

ASSUME ViewsAssumption ==
    /\ Scores \subseteq [DOMAIN Thresholds -> 0 .. 10]
    /\ DOMAIN Thresholds \subseteq BusinessLabels \cup {NoAction}
    /\ CriticalLabels \subseteq ProvisionalLabelNames
    /\ ProvisionalLabelNames \subseteq BusinessLabels

\* classify: the labels whose score reaches the threshold of the profile.
ActiveLabels(scores) == Canonical({l \in DOMAIN Thresholds : scores[l] >= Thresholds[l]})

\* merge_classification_views
MergedLabels(delta, context) == Canonical(ActiveLabels(delta) \cup ActiveLabels(context))

MergedScores(delta, context) ==
    [l \in DOMAIN Thresholds |-> IF delta[l] >= context[l] THEN delta[l] ELSE context[l]]

Mentions(words, signals) == \E s \in signals : ContainsPhrase(words, s)

\* apply_classification_contrast_guards
Guarded(words, labels) ==
    IF Mentions(words, PriceQueries) /\ ~Mentions(words, PriceObjections)
    THEN labels \ {PriceObjection} ELSE labels

\* _bounded_context: the text after the last few sentences, wherever those begin.
Contexts(preceding, words) ==
    {SubSeq(preceding, i, Len(preceding)) \o words : i \in 1 .. Len(preceding) + 1}

Classified(preceding, words) ==
    {Guarded(text, MergedLabels(delta, context)) :
        text \in Contexts(preceding, words), delta \in Scores, context \in Scores}

\* The threshold a label of a partial text has to reach.
ProvisionalThreshold(l) ==
    LET limit == IF l \in CriticalLabels THEN CriticalLimit ELSE ProvisionalLimit
        raised == Thresholds[l] + limit.increment
    IN  IF raised >= limit.minimum THEN raised ELSE limit.minimum

Admitted(labels, scores) ==
    {l \in labels \cap ProvisionalLabelNames : scores[l] >= ProvisionalThreshold(l)}

ClassifiedPartially(preceding, words) ==
    {Admitted(Guarded(text, MergedLabels(delta, context)), MergedScores(delta, context)) :
        text \in Contexts(preceding, words), delta \in Scores, context \in Scores}
=============================================================================
