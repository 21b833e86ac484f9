----------------------------- MODULE CoachingCall -----------------------------
(***************************************************************************)
(* How one call is coached (app/streaming/pipeline.py,                     *)
(* app/classification/streaming.py, app/coaching, app/integration/         *)
(* rag_coaching.py).  The pipeline thread works chunk by chunk: an         *)
(* optional committed event, an optional partial one, then a drain of what *)
(* the background manager finished.  An event is classified, the           *)
(* coordinator turns labels and words into cards, the adapter around it    *)
(* rolls a failed revision back, and the decorator around both may submit  *)
(* a generation request.  The manager works on threads of its own          *)
(* (RagBackground) and is seen here through announce, submit and poll.     *)
(*                                                                         *)
(* Times are chunk numbers: a partial ends with the window, a committed    *)
(* text a stable region earlier, so coaching times go back and forth.      *)
(***************************************************************************)
EXTENDS ClassificationViews, LLMCoachingGates

CONSTANTS
    Utterances,         \* texts an event may carry
    MinimumWords,       \* minimum_words, minimum_growth_words and
    MinimumGrowth,      \*   minimum_interval_seconds (in chunks) of
    MinimumInterval,    \*   ProvisionalClassificationPolicy
    PartialKeyLimit,    \* partial chunks remembered, 64 in the code
    MaxActive,          \* max_active_suggestions
    Cooldown,           \* cooldown_seconds, in chunks
    StableRegion,       \* stable_region_seconds, in chunks
    EnabledLabels,      \* rag_llm_enabled_labels
    Policy,             \* RAGCoachingIntegrationPolicy: [label, action, priority]
    AllowedActions,     \* allowed_actions of the tenant
    Outputs,            \* what the model may write
    Retrieved,          \* passages the orchestration may cite
    MaxChunks           \* bound on the chunks of the call

ASSUME CoachingAssumption ==
    /\ MaxActive \in Nat \ {0}
    /\ Cooldown \in Nat
    /\ StableRegion \in Nat
    /\ PartialKeyLimit \in Nat \ {0}
    /\ MaxChunks \in Nat \ {0}
    /\ Policy.label \in BusinessLabels \cup {NoLabel}
    /\ Policy.priority \in DOMAIN PriorityRank
    /\ \A i \in DOMAIN Rules : Rules[i].action \in AllowedActions

VARIABLES
    classifier,     \* a classifier is configured; else partials use the rules
    call,           \* CallState
    coach,          \* private state of CoachingCoordinator
    cadence,        \* cadence state of StableTranscriptClassificationStage
    pending,        \* _pending_contexts
    manager,        \* the background manager, as the decorator sees it
    phase,          \* where the pipeline is in the chunk
    chunk,          \* number of the chunk being processed
    outcome         \* what the last coaching of an event came to

coachingVars == <<classifier, call, coach, cadence, pending, manager, phase, chunk,
                  outcome>>

NoOutcome == [status |-> "none", revision |-> 0]

EmptyCoach == [prints |-> {}, times |-> <<>>, processed |-> {}, external |-> {},
               provisional |-> <<>>, partialKeys |-> <<>>]

CoachingInit ==
    /\ classifier \in BOOLEAN
    /\ call = EmptyCall
    /\ coach = EmptyCoach
    /\ cadence = [keys |-> <<>>, text |-> <<>>, evaluated |-> Unset]
    /\ pending = {}
    /\ manager = [open |-> TRUE, revision |-> Unset, job |-> <<"none">>]
    /\ phase = "open"
    /\ chunk = 1
    /\ outcome = NoOutcome

LastOf(seq, limit) ==
    IF Len(seq) <= limit THEN seq ELSE SubSeq(seq, Len(seq) - limit + 1, Len(seq))

WithKey(f, key, value) == [k \in DOMAIN f \cup {key} |-> IF k = key THEN value ELSE f[k]]
WithoutKey(f, key) == [k \in DOMAIN f \ {key} |-> f[k]]

-----------------------------------------------------------------------------
(* CoachingCoordinator.  A board is [call, coach, displayed, failed].      *)

Fingerprint(s) == <<s.action, s.content>>
CandidateKey(s) == IF s.label = NoLabel THEN Fingerprint(s) ELSE <<s.label>>

Board(c, k) == [call |-> c, coach |-> k, displayed |-> {}, failed |-> FALSE]

\* Every label of a set in turn, in the order of the labels
\* (_merge_current_candidates, coordinator.py:818).
InLabelOrder(Step(_, _), labels, board) ==
    LET after[n \in 0 .. Len(LabelOrder)] ==
            IF n = 0 THEN board
            ELSE IF LabelOrder[n] \in labels THEN Step(after[n - 1], LabelOrder[n])
            ELSE after[n - 1]
    IN  after[Len(LabelOrder)]

CooldownAvailable(k, key, now) ==
    key \in DOMAIN k.times => now - k.times[key] >= Cooldown

\* A card that is shown uses up its fingerprint and starts a cooldown.
Showing(k, s, now) ==
    [k EXCEPT !.prints = @ \cup {Fingerprint(s)},
              !.times = WithKey(@, CandidateKey(s), now)]

\* _admit_candidate
AdmitCandidate(board, s, revision, now) ==
    LET card == CardOf(s, revision)
    IN  IF \/ Fingerprint(s) \in board.coach.prints
           \/ ~CooldownAvailable(board.coach, CandidateKey(s), now)
           \/ AdmissionRefused(board.call, card, MaxActive)
        THEN board
        ELSE [board EXCEPT !.call = MarkShown(AdmitCard(@, card, MaxActive), s.id),
                           !.coach = Showing(@, s, now),
                           !.displayed = @ \cup {s}]

\* A confirmed candidate counts as detected even when its card is refused.
Noted(board, s, revision) ==
    IF s.label = NoLabel \/ s.lifecycle # "confirmed" THEN board
    ELSE [board EXCEPT !.call = RecordDetectedLabels(@, {s.label}, revision)]

Offer(board, s, revision, now) ==
    AdmitCandidate(Noted(board, s, revision), s, revision, now)

Triggered(shown, now) ==
    IF shown.displayed = {} THEN shown
    ELSE [shown EXCEPT !.call = MarkTriggered(@, now)]

\* _apply_suggestion_policy, of the suggestions by label.
ApplySuggestionPolicy(board, suggestions, revision, now) ==
    LET step(b, l) == Offer(b, suggestions[l], revision, now)
    IN  Triggered(InLabelOrder(step, DOMAIN suggestions, board), now)

\* A candidate with a provisional card is promoted under that card's id;
\* update_coaching_suggestion raises when the card has left the board.
Promote(board, s, revision) ==
    LET id == board.coach.provisional[s.label].id
        popped == [board.coach EXCEPT !.provisional = WithoutKey(@, s.label)]
    IN  IF IsActive(board.call, id)
        THEN [board EXCEPT !.coach = popped,
                           !.call = UpdateCard(@, CardOf([s EXCEPT !.id = id], revision))]
        ELSE [board EXCEPT !.coach = popped, !.failed = TRUE]

PromoteAll(board, suggestions, revision) ==
    LET step(b, l) == IF b.failed \/ l \notin DOMAIN b.coach.provisional THEN b
                      ELSE Promote(b, suggestions[l], revision)
    IN  InLabelOrder(step, DOMAIN suggestions, board)

\* Provisional cards the committed text does not support are withdrawn (label
\* order stands for the order of the dictionary).
WithdrawAll(board) ==
    LET provisional == board.coach.provisional
        step(b, l) == [b EXCEPT !.call = WithdrawCard(@, provisional[l].id)]
        left == InLabelOrder(step, DOMAIN provisional, board)
    IN  [left EXCEPT !.coach = [@ EXCEPT !.provisional = <<>>]]

\* Suggestions whose label has no provisional card.
Fresh(k, suggestions) ==
    [l \in DOMAIN suggestions \ DOMAIN k.provisional |-> suggestions[l]]

AdmitUnlessFailed(promoted, fresh, event) ==
    IF promoted.failed THEN promoted
    ELSE ApplySuggestionPolicy(WithdrawAll(promoted), fresh, event.revision, event.time)

ApplyCommitted(c, k, event, given, evaluation) ==
    LET opened == Board(UpdateActiveLabels(c, given \cup evaluation.labels),
                        [k EXCEPT !.processed = @ \cup {event.revision}])
        suggestions == evaluation.suggestions
    IN  AdmitUnlessFailed(PromoteAll(opened, suggestions, event.revision),
                          Fresh(k, suggestions), event)

\* process() of a committed event.
ProcessCommitted(c, k, event, given) ==
    ApplyCommitted(c, k, event, given,
                   Evaluate(event.kind, event.text, given, FALSE, event.revision))

\* A displayed partial card is tracked under its label.
Tracking(provisional, displayed) ==
    [l \in DOMAIN provisional \cup {s.label : s \in displayed} |->
        IF l \in DOMAIN provisional THEN provisional[l]
        ELSE CHOOSE s \in displayed : s.label = l]

TrackDisplayed(shown) ==
    [shown EXCEPT !.coach.provisional = Tracking(@, shown.displayed)]

\* _process_provisional: labels that already have a card get no second one.
ProcessProvisional(c, k, event, given) ==
    LET evaluation == Evaluate("partial", event.text, given, ~classifier, event.revision)
        opened == Board(c, [k EXCEPT !.partialKeys = LastOf(Append(@, event.chunk), PartialKeyLimit)])
    IN  IF event.chunk \in Range(k.partialKeys) THEN Board(c, k)
        ELSE TrackDisplayed(ApplySuggestionPolicy(opened, Fresh(k, evaluation.suggestions),
                                                  event.revision, event.time))

\* Mutant of Restore: the coordinator's private state is not put back.
RestoreCallOnly(c, k, before) == [call |-> before.call, coach |-> k]

\* restore_coaching_state, field by field as the snapshot lists them.
Restore(c, k, before) ==
    [call |-> [c EXCEPT !.labels = before.call.labels,
                        !.detected = before.call.detected,
                        !.timeline = before.call.timeline,
                        !.shown = before.call.shown,
                        !.triggered = before.call.triggered,
                        !.cards = before.call.cards,
                        !.active = before.call.active,
                        !.history = before.call.history,
                        !.coached = before.call.coached],
     coach |-> [k EXCEPT !.prints = before.coach.prints,
                         !.times = before.coach.times,
                         !.processed = before.coach.processed,
                         !.external = before.coach.external,
                         !.provisional = before.coach.provisional,
                         !.partialKeys = before.coach.partialKeys]]

\* A failed revision is first marked processed, then everything is rolled back.
Settle(board, event, before) ==
    LET dirty == [board.coach EXCEPT !.processed = @ \cup {event.revision}]
        restored == Restore(board.call, dirty, before)
    IN  IF board.failed
        THEN [call |-> restored.call, coach |-> restored.coach, status |-> "failed"]
        ELSE [call |-> board.call, coach |-> board.coach, status |-> "processed"]

\* process_safely of the coordinator and of the adapter around it.
ProcessSafely(c, k, event, given) ==
    IF event.kind # "partial" /\ event.revision \in k.processed
    THEN [call |-> c, coach |-> k, status |-> "duplicate"]
    ELSE Settle(IF event.kind = "partial" THEN ProcessProvisional(c, k, event, given)
                                          ELSE ProcessCommitted(c, k, event, given),
                event, [call |-> c, coach |-> k])

\* process_external_suggestion: one answer of the model per revision.
ProcessExternal(c, k, s, revision, now) ==
    IF s.action \notin AllowedActions \/ revision \in k.external THEN Board(c, k)
    ELSE Triggered(Offer(Board(c, [k EXCEPT !.external = @ \cup {revision}]),
                         s, revision, now), now)

-----------------------------------------------------------------------------
(* RAGCoachingProcessorDecorator *)

\* announce_current_revision: what the manager holds of older revisions is gone.
Announced(m, revision) ==
    IF revision = m.revision THEN m ELSE [m EXCEPT !.revision = revision, !.job = <<"none">>]

Superseded(p, revision) == {q \in p : q.revision = revision}

\* After a committed event: announce it, drop the contexts of older ones, ask
\* the gate and submit; a closed manager ends it before anything changes.
SubmitRequest(event, after, status) ==
    IF status # "processed" \/ ~manager.open THEN UNCHANGED <<pending, manager>>
    ELSE LET announced == Announced(manager, event.revision)
             kept == Superseded(pending, event.revision)
             known == event.revision \in DOMAIN after.timeline
             entry == after.timeline[event.revision]
         IN  IF known /\ RequestsGeneration(entry.current, entry.new, EnabledLabels, TRUE, TRUE)
             THEN \/ /\ manager' = [announced EXCEPT !.job = <<"running">>]
                     /\ pending' = kept \cup {[revision |-> event.revision, time |-> event.time]}
                  \/ manager' = announced /\ pending' = kept
             ELSE manager' = announced /\ pending' = kept

\* What drain_completed does with the contexts still kept: the finished job is
\* gated, turned into a suggestion and offered to the coordinator.
DrainFrom(announced, kept) ==
    LET done == kept # {} /\ announced.job[1] \notin {"none", "running"}
        context == CHOOSE p \in kept : TRUE
        usable == /\ announced.job[1] = "result"
                  /\ GateStatus(announced.job[2], context.revision, Retrieved)
                         = "valid_suggestion"
        suggestion == CreateSuggestion(Policy, announced.job[2], context.revision)
        board == ProcessExternal(call, coach, suggestion, context.revision, context.time)
    IN  /\ pending' = IF done THEN {} ELSE kept
        /\ manager' = IF done THEN [announced EXCEPT !.job = <<"none">>] ELSE announced
        /\ call' = IF done /\ usable THEN board.call ELSE call
        /\ coach' = IF done /\ usable THEN board.coach ELSE coach

\* Mutant of DrainCompleted: the call's revision is not announced first.
DrainUnannounced ==
    IF manager.open THEN DrainFrom(manager, pending)
                    ELSE pending' = {} /\ UNCHANGED <<call, coach, manager>>

\* drain_completed: the call's latest revision is announced, partial or not,
\* so a newer one drops what was requested before it.
DrainCompleted ==
    IF manager.open
    THEN DrainFrom(Announced(manager, call.revision), Superseded(pending, call.revision))
    ELSE pending' = {} /\ UNCHANGED <<call, coach, manager>>

-----------------------------------------------------------------------------
(* StableTranscriptClassificationStage *)

\* The guards of _process_partial: long enough, changed, grown and not too soon.
PartialDue(text) ==
    /\ chunk \notin Range(cadence.keys)
    /\ Len(text) >= MinimumWords
    /\ text # cadence.text
    /\ cadence.text # <<>> /\ IsPrefix(cadence.text, text)
         => Len(text) - Len(cadence.text) >= MinimumGrowth
    /\ cadence.evaluated # Unset => chunk - cadence.evaluated >= MinimumInterval

\* Labels of a partial; none when nothing passes, or the classifier raises.
ProvisionalLabels(text) ==
    IF classifier THEN ClassifiedPartially(call.stable, text) \cup {{}} ELSE {ClassifyPartial(text)}

\* The committed path: the attempt is marked before the classifier may raise.
StableLabels(heard, delta) ==
    IF ~classifier THEN {[call |-> heard, given |-> {}]}
    ELSE {[call |-> ApplyClassification(heard, l, heard.revision), given |-> l] :
             l \in Classified(call.stable, delta)}
         \cup {[call |-> MarkClassificationAttempt(heard, heard.revision), given |-> {}]}

-----------------------------------------------------------------------------
(* StreamingASRPipeline: the events of a chunk, then the drain *)

EventOf(kind, text, time) ==
    [kind |-> kind, text |-> text, revision |-> call.revision + 1, time |-> time, chunk |-> chunk]

\* What process_safely of the decorator does with the coordinator's result.
Conclude(event, result) ==
    /\ call' = result.call
    /\ coach' = result.coach
    /\ outcome' = [status |-> result.status, revision |-> event.revision]
    /\ IF event.kind = "partial" THEN UNCHANGED <<pending, manager>>
                                 ELSE SubmitRequest(event, result.call, result.status)

Coach(event, heard, given) ==
    Conclude(event, ProcessSafely(heard, coach, event, given))

\* Neither classified nor coached: the event only becomes part of the call.
OnlyHeard(heard) ==
    /\ call' = heard
    /\ outcome' = [status |-> "skipped", revision |-> heard.revision]
    /\ UNCHANGED <<coach, pending, manager>>

\* Text that changes nothing in the committed transcript is not classified, so
\* the provisional cards stay as they are.
Committed(event) ==
    LET heard == ApplyTranscript(call, event.kind, event.text, event.revision)
    IN  IF heard.stable = call.stable THEN OnlyHeard(heard)
        ELSE \E c \in StableLabels(heard, event.text) : Coach(event, c.call, c.given)

StableEvent(text) ==
    /\ phase = "open"
    /\ chunk > StableRegion
    /\ Committed(EventOf("stable", text, chunk - StableRegion))
    /\ phase' = "committed"
    /\ UNCHANGED <<classifier, cadence, chunk>>

PartialEvent(text) ==
    /\ phase \in {"open", "committed"}
    /\ text # call.partial
    /\ LET event == EventOf("partial", text, chunk)
           heard == ApplyTranscript(call, "partial", text, event.revision)
       IN  IF PartialDue(text)
           THEN /\ cadence' = [keys |-> LastOf(Append(cadence.keys, chunk), PartialKeyLimit),
                                text |-> text, evaluated |-> chunk]
                /\ \E given \in ProvisionalLabels(text) :
                      IF given = {} THEN OnlyHeard(heard) ELSE Coach(event, heard, given)
           ELSE OnlyHeard(heard) /\ UNCHANGED cadence
    /\ phase' = "heard"
    /\ UNCHANGED <<classifier, chunk>>

Drain ==
    /\ phase \in {"open", "committed", "heard"}
    /\ DrainCompleted
    /\ chunk < MaxChunks
    /\ chunk' = chunk + 1
    /\ phase' = "open"
    /\ UNCHANGED <<classifier, cadence, outcome>>

\* The audio is over: what was still open becomes the final event.
FinalEvent(text) ==
    /\ phase = "open"
    /\ chunk > 1
    /\ Committed(EventOf("final", text, chunk - 1))
    /\ phase' = "final"
    /\ UNCHANGED <<classifier, cadence, chunk>>

FinalDrain ==
    /\ phase \in {"open", "final"}
    /\ chunk > 1
    /\ DrainCompleted
    /\ phase' = "ended"
    /\ UNCHANGED <<classifier, cadence, chunk, outcome>>

\* The background manager finishes its job, or is closed under the call.
BackgroundCompletes(result) ==
    /\ phase # "ended"
    /\ manager.open
    /\ manager.job = <<"running">>
    /\ manager' = [manager EXCEPT !.job = result]
    /\ UNCHANGED <<classifier, call, coach, cadence, pending, phase, chunk, outcome>>

ManagerCloses ==
    /\ phase # "ended"
    /\ manager.open
    /\ manager' = [manager EXCEPT !.open = FALSE, !.job = <<"none">>]
    /\ UNCHANGED <<classifier, call, coach, cadence, pending, phase, chunk, outcome>>

\* Model output claims the revision of the request or another one.
ModelAnswers ==
    {<<"empty">>, <<"failed">>}
        \cup {<<"result", [o EXCEPT !.revision = IF @ = 0 THEN manager.revision ELSE @]>> :
                o \in Outputs}

CoachingNext ==
    \/ \E text \in Utterances : StableEvent(text) \/ PartialEvent(text) \/ FinalEvent(text)
    \/ Drain
    \/ FinalDrain
    \/ \E result \in ModelAnswers : BackgroundCompletes(result)
    \/ ManagerCloses

CoachingSpec == CoachingInit /\ [][CoachingNext]_coachingVars

-----------------------------------------------------------------------------
(* Properties *)

LastCommitted == IF coach.processed = {} THEN 0 ELSE Max(coach.processed)

CardIds(cards) == {cards[i].id : i \in DOMAIN cards}

Statuses == {"none", "skipped", "processed", "duplicate", "failed"}

\* The call, the coordinator and the decorator keep values of their types: the
\* board is never over its limit and is ranked, and every label in use is known.
BoardTypeOK ==
    /\ classifier \in BOOLEAN
    /\ call.labels \subseteq BusinessLabels \cup {NoAction}
    /\ DOMAIN call.detected \subseteq BusinessLabels \cup {NoAction}
    /\ DOMAIN call.timeline \subseteq 0 .. call.revision
    /\ Len(call.active) <= MaxActive
    /\ \A i \in 1 .. Len(call.active) - 1 : ~Outranks(call.active[i + 1], call.active[i])
    /\ coach.processed \cup coach.external \subseteq 1 .. call.revision
    /\ DOMAIN coach.provisional \subseteq BusinessLabels
    /\ Len(coach.partialKeys) <= PartialKeyLimit /\ Len(cadence.keys) <= PartialKeyLimit
    /\ Cardinality(pending) <= 1
    /\ phase \in {"open", "committed", "heard", "final", "ended"}
    /\ chunk \in 1 .. MaxChunks
    /\ outcome.status \in Statuses

\* A promoted card has its text from a later revision than it was admitted in.
IsPromoted(card) == card.revision # card.id[2]

\* Every card ever shown is on the board or in the history and never in both,
\* no text is admitted twice in a call, and what the coordinator holds as shown
\* is what the call state lists: promotion, eviction, withdrawal and rollback
\* neither lose nor duplicate a card between the three lists of CallState.
CardsAreAccounted ==
    /\ CardIds(call.active) \cap CardIds(call.history) = {}
    /\ CardIds(call.active) \cup CardIds(call.history) = CardIds(call.cards)
    /\ call.shown = CardIds(call.cards)
    /\ Cardinality(coach.prints) = Len(call.cards)
    /\ \A i, j \in DOMAIN call.cards :
           call.cards[i].content = call.cards[j].content =>
               i = j \/ IsPromoted(call.cards[i]) \/ IsPromoted(call.cards[j])

\* A provisional card on the board is one the coordinator still tracks, and it
\* came after the last committed revision that was processed: each such
\* revision promotes or withdraws all the provisional cards before it
\* (CoachingCoordinator.process).
ProvisionalIsOpen ==
    /\ \A i \in DOMAIN call.active : call.active[i].lifecycle = "provisional" =>
          \E l \in DOMAIN coach.provisional : coach.provisional[l].id = call.active[i].id
    /\ \A l \in DOMAIN coach.provisional : coach.provisional[l].id[2] > LastCommitted

\* A label is new in exactly one revision of the timeline, the one it was first
\* detected in; the decision gate asks the model only for new labels, so a
\* label new twice would be paid for twice (record_detected_labels).
LabelsAreNewOnce ==
    \A l \in DOMAIN call.detected \ {NoAction} :
        {r \in DOMAIN call.timeline : l \in call.timeline[r].new} = {call.detected[l].first}

\* The books of the call agree: the parts above hold together.
CallIsAccounted ==
    /\ BoardTypeOK
    /\ CardsAreAccounted
    /\ ProvisionalIsOpen
    /\ LabelsAreNewOnce

\* A committed revision whose coaching fails leaves nothing behind but its words
\* and its classification: cards, labels, fingerprints, cooldowns, tracked cards
\* and processed revisions are those from before it (the snapshot and restore
\* of SafeCoachingProcessorAdapter).
FailedRevisionChangesNothing ==
    [][outcome'.status = "failed" /\ outcome' # outcome =>
          /\ coach' = coach
          /\ call'.cards = call.cards
          /\ call'.active = call.active
          /\ call'.history = call.history
          /\ call'.shown = call.shown
          /\ call'.triggered = call.triggered
          /\ call'.coached = call.coached
          /\ ~classifier => /\ call'.labels = call.labels
                            /\ call'.detected = call.detected
                            /\ call'.timeline = call.timeline]_coachingVars

\* A card written by the model is admitted only while the revision it was asked
\* for is still the latest of the call, and once per revision, however late the
\* background manager answers (drain_completed, process_external_suggestion).
GeneratedCardIsCurrent ==
    [][\A i \in DOMAIN call'.cards \ DOMAIN call.cards :
          call'.cards[i].source = "llm" =>
              /\ call'.cards[i].revision = call'.revision
              /\ call'.revision \in coach'.processed
              /\ call'.revision \notin coach.external]_coachingVars

=============================================================================
