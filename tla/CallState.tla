------------------------------- MODULE CallState -------------------------------
(***************************************************************************)
(* CallState (app/calls/models.py): what one call has said, which labels   *)
(* were found in it and which coaching cards were shown, as operators from *)
(* a call record to the next one.                                          *)
(*                                                                         *)
(*   stable, partial   committed words; words still open                   *)
(*   revision          transcript_revision                                 *)
(*   labels            active_labels                                       *)
(*   detected          label -> first and latest revision it was found in  *)
(*   timeline          revision -> labels then active, labels new in it    *)
(*   cards             coaching_suggestions, in the order of admission     *)
(*   active            active_coaching_suggestions, strongest first        *)
(*   history           coaching_suggestion_history                         *)
(*   shown             shown_suggestion_ids                                *)
(*   triggered         last_coaching_trigger_seconds                       *)
(*   coached           coaching_transcript_revision                        *)
(*   classified        classification_transcript_revision                  *)
(*                                                                         *)
(* Scores, model names and inference times are left out.                   *)
(***************************************************************************)
EXTENDS Integers, SequencesExt

CONSTANT LabelOrder     \* the business labels as a sequence, in casefold order

NoAction == "no_action"
NoLabel == "none"
Unset == -1

BusinessLabels == Range(LabelOrder)

ASSUME LabelOrderAssumption ==
    /\ LabelOrder \in Seq(BusinessLabels) /\ IsInjective(LabelOrder)
    /\ NoAction \notin BusinessLabels

PriorityRank == [low |-> 0, medium |-> 1, high |-> 2, critical |-> 3]

EmptyCall ==
    [stable |-> <<>>, partial |-> <<>>, revision |-> 0, labels |-> {},
     detected |-> <<>>, timeline |-> <<>>, cards |-> <<>>, active |-> <<>>,
     history |-> <<>>, shown |-> {}, triggered |-> Unset, coached |-> Unset,
     classified |-> Unset]

\* canonical_labels: no_action gives way to any business label.
Canonical(labels) ==
    IF labels \cap BusinessLabels # {} THEN labels \cap BusinessLabels
                                       ELSE labels \cap {NoAction}

\* Text that the committed transcript already ends with is not appended.
AppendStable(call, text) ==
    IF IsSuffix(text, call.stable) THEN call
                                   ELSE [call EXCEPT !.stable = @ \o text]

\* apply_transcript: a partial replaces the open words, a final empties them.
ApplyTranscript(call, kind, text, revision) ==
    LET spoken == IF kind = "partial" THEN [call EXCEPT !.partial = text]
                                      ELSE AppendStable(call, text)
    IN  [spoken EXCEPT !.revision = revision,
                       !.partial = IF kind = "final" THEN <<>> ELSE @]

MarkClassificationAttempt(call, revision) ==
    [call EXCEPT !.classified = revision]

UpdateActiveLabels(call, labels) == [call EXCEPT !.labels = Canonical(labels)]

-----------------------------------------------------------------------------
\* The diagnostic of a revision keeps what it already knew to be new.
UpsertDiagnostic(call, revision, new) ==
    LET before == IF revision \in DOMAIN call.timeline
                    THEN call.timeline[revision].new ELSE {}
        entry == [current |-> call.labels, new |-> before \cup new]
    IN  [call EXCEPT !.timeline =
            [r \in DOMAIN @ \cup {revision} |->
                IF r = revision THEN entry ELSE @[r]]]

\* record_detected_labels: a business label displaces no_action; no_action is
\* noted only while nothing else was.
RecordDetectedLabels(call, labels, revision) ==
    LET found == Canonical(labels)
        business == found \ {NoAction}
        known == DOMAIN call.detected
        incoming == IF business # {} THEN business
                    ELSE IF known # {} THEN {} ELSE found
        kept == IF business # {} THEN known \ {NoAction} ELSE known
        first(l) == IF l \in kept THEN call.detected[l].first ELSE revision
        latest(l) == IF l \in incoming THEN revision ELSE call.detected[l].latest
    IN  UpsertDiagnostic(
            [call EXCEPT !.detected = [l \in kept \cup incoming |->
                                [first |-> first(l), latest |-> latest(l)]]],
            revision, incoming \ known)

\* apply_classification: the labels of a stable result.
ApplyClassification(call, labels, revision) ==
    RecordDetectedLabels(
        UpdateActiveLabels(MarkClassificationAttempt(call, revision), labels),
        labels, revision)

-----------------------------------------------------------------------------
(* Coaching cards *)

CardOf(s, revision) ==
    [id |-> s.id, label |-> s.label, priority |-> s.priority, source |-> s.source,
     lifecycle |-> s.lifecycle, content |-> s.content, revision |-> revision]

LabelPlace(l) == IF l = NoLabel THEN Len(LabelOrder) + 1
                                ELSE CHOOSE i \in DOMAIN LabelOrder : LabelOrder[i] = l

\* _coaching_rank: priority, then the newer revision, then the earlier label.
Outranks(a, b) ==
    LET pa == PriorityRank[a.priority]
        pb == PriorityRank[b.priority]
    IN  \/ pa > pb
        \/ pa = pb /\ a.revision > b.revision
        \/ pa = pb /\ a.revision = b.revision /\ LabelPlace(a.label) < LabelPlace(b.label)

\* Where a stable descending sort puts a card that was appended last: before
\* the first card it outranks.
Insert(card, ranked) ==
    InsertAt(ranked, Min({i \in 1 .. Len(ranked) + 1 :
                             i <= Len(ranked) => Outranks(card, ranked[i])}), card)

\* Of the cards no other one outranks, the first.
WeakestCard(ranked) ==
    ranked[Min({i \in DOMAIN ranked : ~Outranks(ranked[i], Last(ranked))})]

\* An identity is held once.
Holds(cards, id) == \E i \in DOMAIN cards : cards[i].id = id
PlaceOf(cards, id) == CHOOSE i \in DOMAIN cards : cards[i].id = id

Without(cards, id) ==
    IF Holds(cards, id) THEN RemoveAt(cards, PlaceOf(cards, id)) ELSE cards

ReplaceCard(cards, card) ==
    [i \in DOMAIN cards |-> IF cards[i].id = card.id THEN card ELSE cards[i]]

IsActive(call, id) == Holds(call.active, id)

\* What a confirmed card leaves behind besides itself.
Confirm(call, card) ==
    IF card.lifecycle # "confirmed" THEN call
    ELSE LET noted == IF card.label = NoLabel THEN call
                      ELSE RecordDetectedLabels(call, {card.label}, card.revision)
         IN  [noted EXCEPT !.coached = card.revision]

\* A full board refuses a card that does not outrank its weakest one.
AdmissionRefused(call, card, maximum) ==
    Len(call.active) >= maximum /\ ~Outranks(card, WeakestCard(call.active))

\* admit_coaching_suggestion: the weakest card moves to the history when full.
AdmitCard(call, card, maximum) ==
    LET full == Len(call.active) >= maximum
        weakest == WeakestCard(call.active)
        room == IF full THEN Without(call.active, weakest.id) ELSE call.active
    IN  Confirm([call EXCEPT !.cards = Append(@, card),
                             !.active = Insert(card, room),
                             !.history = IF full THEN Append(@, weakest) ELSE @], card)

\* update_coaching_suggestion of an active card; it raises for any other.
UpdateCard(call, card) ==
    Confirm([call EXCEPT !.active = Insert(card, Without(@, card.id)),
                         !.cards = ReplaceCard(@, card)], card)

\* Mutant of WithdrawCard: the card stays on the board.
WithdrawToHistoryOnly(call, id) ==
    IF Holds(call.cards, id)
    THEN [call EXCEPT !.history = Append(@, call.cards[PlaceOf(call.cards, id)])]
    ELSE call

\* withdraw_coaching_suggestion: also a card no longer active is withdrawn.
WithdrawCard(call, id) ==
    IF ~Holds(call.active, id) /\ ~Holds(call.cards, id) THEN call
    ELSE LET held == IF Holds(call.active, id) THEN call.active ELSE call.cards
             shown == held[PlaceOf(held, id)]
             withdrawn == [shown EXCEPT !.lifecycle = "withdrawn"]
         IN  [call EXCEPT !.active = Without(@, id),
                          !.cards = ReplaceCard(@, withdrawn),
                          !.history = Append(@, withdrawn)]

MarkShown(call, id) == [call EXCEPT !.shown = @ \cup {id}]

MarkTriggered(call, now) == [call EXCEPT !.triggered = now]

=============================================================================
