--------------------------- MODULE DiarizationCall ---------------------------
(***************************************************************************)
(* Who said what in a call, and what of it reaches the classification.     *)
(*                                                                         *)
(*   OfflineDiarizationComposer.compose  takes one audio window: the       *)
(*     diarizer names local speakers, the identity tracker turns them into *)
(*     speakers of the call, the words of the window are given to the      *)
(*     turns, the speakers get roles from the phrases they use and the     *)
(*     words of trusted customers are projected.  A stage that fails puts  *)
(*     the tracker back to its checkpoint.                                 *)
(*   CustomerOnlyClassificationRouter.prepare  asks a provider for the     *)
(*     projection of the revision being committed and hands only that      *)
(*     text on.                                                            *)
(*                                                                         *)
(* Time is counted in units.  The conversation (who speaks in a unit, and  *)
(* the words the ASR hears) is drawn once, and is what the properties      *)
(* compare the outcomes with: the code never sees it.  A text is a         *)
(* sequence of tokens.  A speaker of the call is the ordinal of its        *)
(* CALL_SPEAKER_nnnn, which is also its creation order.                    *)
(***************************************************************************)
EXTENDS Integers, Sequences, FiniteSets, FiniteSetsExt, SequencesExt

CONSTANTS
    Conversations,        \* the conversations a run looks at
    Ranges,               \* the audio windows, [from, to]
    MaxLocalSpeakers, HistoryWindowLimit,
    AgentPhrases, CustomerPhrases,
    AgentThreshold, CustomerThreshold, MaxTextTokens,
    InferredConfidence, TrustedConfidence,   \* in tenths
    MaxCompositions,      \* bound: calls of compose
    MaxFaults             \* bound: faults of the diarizer and of the ASR

ASSUME ConfigurationAssumption ==
    /\ {MaxLocalSpeakers, HistoryWindowLimit} \subseteq Nat \ {0}
    /\ {AgentThreshold, CustomerThreshold, MaxTextTokens} \subseteq Nat \ {0}
    /\ {InferredConfidence, TrustedConfidence} \subseteq 0 .. 10
    /\ \A r \in Ranges : r.from \in Nat /\ r.to \in Nat /\ r.from < r.to

Persons == {"agent", "customer"}

\* The local names of one window's two people, in lexical order.
Labels == 1 .. 2

VARIABLES
    conversation,   \* who speaks when, and the words heard: fixed, unseen
    tracker,        \* the tracker's state of the call
    checkpoint,     \* its copy while a composition runs
    stage,          \* the next stage of compose, or "idle"
    request,        \* the running request with what its stages produced
    accepted,       \* the outcomes composed so far
    projections,    \* what a provider can answer: revision -> words
    latestRevision, \* call_state.transcript_revision
    processed,      \* _processed_revisions of the call, 0 for none
    routed,         \* what was handed to the classification, in order
    compositions, faults

callVars == <<conversation, tracker, checkpoint, stage, request, accepted,
              projections, latestRevision, processed, routed, compositions,
              faults>>

--------------------------------------------------------------------------
(* Time.                                                                   *)

Covers(r, u) == r.from < u /\ u <= r.to

\* A conversation: who speaks in each unit, and words that whoever says them
\* speaks through.  Where nobody speaks anything may be heard.
IsConversation(c) ==
    /\ c.speech \in Seq(SUBSET Persons)
    /\ \A r \in Ranges : r.to <= Len(c.speech)
    /\ IsFiniteSet(c.words)
    /\ \A w \in c.words :
           /\ DOMAIN w = {"from", "to", "by", "text"}
           /\ w.from \in Nat /\ w.to \in Nat
           /\ \A u \in DOMAIN c.speech :
                  Covers(w, u) => w.by \in c.speech[u] \/ c.speech[u] = {}

ASSUME ConversationsAssumption == \A c \in Conversations : IsConversation(c)

ASSUME PhrasesAssumption ==
    IsFiniteSet(AgentPhrases) /\ IsFiniteSet(CustomerPhrases)

Overlap(a, b) ==
    Max({0, Min({a.to, b.to}) - Max({a.from, b.from})})

SameRange(a, b) == a.from = b.from /\ a.to = b.to

\* The turns of an exact diarizer: the longest stretches of the window in
\* which the same people speak, under the window's own names for them.
TurnsIn(r, names) ==
    LET speaking(u) == conversation.speech[u]
        stretch(f, t) ==
            /\ speaking(f + 1) # {}
            /\ \A u \in (f + 1) .. t : speaking(u) = speaking(f + 1)
            /\ (f = r.from \/ speaking(f) # speaking(f + 1))
            /\ (t = r.to \/ speaking(t + 1) # speaking(f + 1))
    IN  {[from |-> s[1], to |-> s[2],
          locals |-> {names[p] : p \in speaking(s[1] + 1)}] :
            s \in {s \in (r.from .. r.to) \X (r.from .. r.to) :
                     s[1] < s[2] /\ stretch(s[1], s[2])}}

Locals(turns) == UNION {t.locals : t \in turns}

--------------------------------------------------------------------------
(* SpeakerIdentityTracker.                                                 *)

NoHistory == [next |-> 1, windows |-> <<>>]

\* The time a local speaker shares with the retained speech of a speaker of
\* the call: every retained window counts again.
Shared(windows, turns, local, speaker) ==
    LET pairs == UNION {{<<i, t, p>> :
                     t \in {t \in turns : local \in t.locals},
                     p \in {p \in windows[i].turns :
                              \E l \in p.locals : windows[i].ids[l] = speaker}} :
                 i \in DOMAIN windows}
    IN  SumFunction([c \in pairs |-> Overlap(c[2], c[3])])

Candidates(state, turns) ==
    {c \in {[local |-> l, speaker |-> s,
             shared |-> Shared(state.windows, turns, l, s)] :
                l \in Locals(turns), s \in 1 .. (state.next - 1)} :
        c.shared > 0}

\* The order with the overlap left out.
BeforeByCreation(a, b) ==
    a.speaker < b.speaker \/ (a.speaker = b.speaker /\ a.local < b.local)

\* sorted by (-overlap, creation order, local id)
Before(a, b) ==
    \/ a.shared > b.shared
    \/ a.shared = b.shared /\ a.speaker < b.speaker
    \/ a.shared = b.shared /\ a.speaker = b.speaker /\ a.local < b.local

\* The candidate that comes after all others.
Weakest(candidates) ==
    CHOOSE c \in candidates : \A d \in candidates \ {c} : Before(d, c)

Extended(f, key, value) ==
    [k \in DOMAIN f \cup {key} |-> IF k = key THEN value ELSE f[k]]

\* A pair is taken unless one of its two is already matched.
Match(c, m) ==
    IF c.local \in DOMAIN m \/ c.speaker \in {m[l] : l \in DOMAIN m}
    THEN m ELSE Extended(m, c.local, c.speaker)

\* _match_speakers: the best pairs first, each side at most once.
Matched(state, turns) ==
    MapThenFoldSet(Match, <<>>, LAMBDA c : c, Weakest, Candidates(state, turns))

\* The speakers of the call for a window's names: matched, or new in order.
Identified(state, turns) ==
    LET m == Matched(state, turns)
        unmatched == Locals(turns) \ DOMAIN m
    IN  [l \in Locals(turns) |->
            IF l \in DOMAIN m THEN m[l]
            ELSE state.next + Cardinality({k \in unmatched : k < l})]

Newest(state) == Last(state.windows)

IsReprocess(state, r) ==
    state.windows # <<>> /\ SameRange(Newest(state), r)

\* _validate_turns: TOO_MANY_LOCAL_SPEAKERS
TooManySpeakers(turns) == Cardinality(Locals(turns)) > MaxLocalSpeakers

\* ... and CONFLICTING_REPROCESS, NON_MONOTONIC_WINDOW
TrackingFails(state, r, turns) ==
    \/ TooManySpeakers(turns)
    \/ IsReprocess(state, r) /\ turns # Newest(state).turns
    \/ /\ state.windows # <<>>
       /\ ~IsReprocess(state, r)
       /\ r.from <= Newest(state).from

Retained(windows) ==
    SubSeq(windows, Max({1, Len(windows) - HistoryWindowLimit + 1}), Len(windows))

\* The state after a window the tracker took.
Tracked(state, w) ==
    IF IsReprocess(state, w) THEN state
    ELSE LET ids == Identified(state, w.turns)
         IN  [next |-> Max({state.next} \cup {ids[l] + 1 : l \in DOMAIN ids}),
              windows |-> Retained(Append(state.windows,
                  [from |-> w.from, to |-> w.to, turns |-> w.turns, ids |-> ids]))]

--------------------------------------------------------------------------
(* align_words_to_speakers.                                                *)

\* Two words at the same time with different texts: CONFLICTING_DUPLICATE.
AlignmentFails(words) ==
    \E v, w \in words : SameRange(v, w) /\ v.text # w.text

\* The turn a word belongs to: the longest overlap, the earlier, the lower.
WinningTurn(w, turns) ==
    CHOOSE t \in turns :
        \A o \in turns \ {t} :
            \/ Overlap(w, t) > Overlap(w, o)
            \/ /\ Overlap(w, t) = Overlap(w, o)
               /\ \/ t.from < o.from
                  \/ t.from = o.from /\ Min(t.locals) <= Min(o.locals)

\* The speakers of the call a word is given to: none, one, or several.
Speakers(w, turns, ids) ==
    IF \A t \in turns : Overlap(w, t) = 0 THEN {}
    ELSE {ids[l] : l \in WinningTurn(w, turns).locals}

Attributed(w, turns, ids) ==
    [from |-> w.from, to |-> w.to, by |-> w.by, text |-> w.text,
     speakers |-> Speakers(w, turns, ids)]

--------------------------------------------------------------------------
(* RuleBasedSpeakerRoleResolver: one span per word.                        *)

HasPhrase(text, phrase) ==
    \E i \in 1 .. Len(text) :
        /\ i + Len(phrase) - 1 <= Len(text)
        /\ SubSeq(text, i, i + Len(phrase) - 1) = phrase

Hits(phrases, words) ==
    SumFunction([w \in words |->
                    Cardinality({p \in phrases : HasPhrase(w.text, p)})])

\* The words that are evidence for a speaker: overlapped ones are not.
SpokenBy(speaker, words) == {w \in words : w.speakers = {speaker}}

Unknown == [role |-> "UNKNOWN", confidence |-> 0, conflicting |-> FALSE]

\* The assignment that looks for the agent's phrases first.
DirectAgentFirst(agentHits, customerHits) ==
    IF agentHits >= AgentThreshold
    THEN [Unknown EXCEPT !.role = "AGENT", !.confidence = 10]
    ELSE IF customerHits >= CustomerThreshold
    THEN [Unknown EXCEPT !.role = "CUSTOMER", !.confidence = 10]
    ELSE Unknown

\* _direct_assignment
Direct(agentHits, customerHits) ==
    IF agentHits > 0 /\ customerHits > 0
    THEN [Unknown EXCEPT !.conflicting = TRUE]
    ELSE IF agentHits >= AgentThreshold
    THEN [Unknown EXCEPT !.role = "AGENT", !.confidence = 10]
    ELSE IF customerHits >= CustomerThreshold
    THEN [Unknown EXCEPT !.role = "CUSTOMER", !.confidence = 10]
    ELSE Unknown

Opposite(role) == IF role = "AGENT" THEN "CUSTOMER" ELSE "AGENT"

\* _infer_opposite: with two speakers, one of them recognised, the other gets
\* the opposite role unless its own words speak against it.
WithOpposite(direct, agentHits, customerHits) ==
    LET speakers == DOMAIN direct
        resolved == {s \in speakers : /\ direct[s].role # "UNKNOWN"
                                      /\ direct[s].confidence >= InferredConfidence}
        inferred == Opposite(direct[CHOOSE s \in resolved : TRUE].role)
        isInferred(s) ==
            /\ Cardinality(speakers) = 2 /\ Cardinality(resolved) = 1
            /\ direct[s].role = "UNKNOWN" /\ ~direct[s].conflicting
            /\ 0 = IF inferred = "CUSTOMER" THEN agentHits[s] ELSE customerHits[s]
    IN  [s \in speakers |->
            IF isInferred(s)
            THEN [Unknown EXCEPT !.role = inferred, !.confidence = InferredConfidence]
            ELSE direct[s]]

\* resolve: the role of every speaker with words of its own.
Roles(words) ==
    LET speakers == UNION {w.speakers : w \in
                             {v \in words : Cardinality(v.speakers) = 1}}
        agentHits == [s \in speakers |-> Hits(AgentPhrases, SpokenBy(s, words))]
        customerHits == [s \in speakers |-> Hits(CustomerPhrases, SpokenBy(s, words))]
    IN  WithOpposite([s \in speakers |-> Direct(agentHits[s], customerHits[s])],
                     agentHits, customerHits)

ResolutionFails(words) ==
    SumFunction([w \in words |-> Len(w.text)]) > MaxTextTokens

\* CustomerSpeechProjector._apply_role
Applied(w, roles) ==
    IF Cardinality(w.speakers) = 1 THEN roles[CHOOSE s \in w.speakers : TRUE]
    ELSE [Unknown EXCEPT !.role = IF w.speakers = {} THEN "UNKNOWN" ELSE "OVERLAP"]

\* CustomerSpeechProjector.project: the words of trusted customers.
CustomerWords(words, roles) ==
    {w \in words : /\ Applied(w, roles).role = "CUSTOMER"
                   /\ Applied(w, roles).confidence >= TrustedConfidence}

--------------------------------------------------------------------------
NoRequest == [revision |-> 0, from |-> 0, to |-> 0, words |-> {}, turns |-> {},
              names |-> <<>>, ids |-> <<>>, roles |-> <<>>]

CallInit ==
    /\ conversation \in Conversations
    /\ tracker = NoHistory
    /\ checkpoint = NoHistory
    /\ stage = "idle"
    /\ request = NoRequest
    /\ accepted = <<>>
    /\ projections = <<>>
    /\ latestRevision = 1
    /\ processed = 0
    /\ routed = <<>>
    /\ compositions = 0
    /\ faults = 0

\* The words the ASR reports for a window, as it heard them.
Heard(r) == {w \in conversation.words : r.from <= w.from /\ w.to <= r.to}

\* A second text for a time the ASR already has a word for.
Doubled(words) == words \cup {[w EXCEPT !.text = <<"noise">>] : w \in words}

\* The next window of the call, for the latest revision or a new one.
NextRequest(r, words, isNew) ==
    [NoRequest EXCEPT !.revision = latestRevision + (IF isNew THEN 1 ELSE 0),
                      !.from = r.from, !.to = r.to, !.words = words]

\* compose: the request is valid, the tracker's checkpoint is taken.
Compose(r, doubled, isNew) ==
    /\ stage = "idle" /\ compositions < MaxCompositions
    /\ doubled => faults < MaxFaults
    /\ faults' = faults + (IF doubled THEN 1 ELSE 0)
    /\ LET words == IF doubled THEN Doubled(Heard(r)) ELSE Heard(r)
       IN  /\ request' = NextRequest(r, words, isNew)
           /\ latestRevision' = request'.revision
    /\ checkpoint' = tracker
    /\ stage' = "diarize"
    /\ compositions' = compositions + 1
    /\ UNCHANGED <<conversation, tracker, accepted, projections, processed, routed>>

\* compose: a word outside the window is INVALID_INPUT_WORD, nothing is done.
ComposeRejected(r) ==
    /\ stage = "idle" /\ compositions < MaxCompositions
    /\ \E w \in conversation.words : w.from < r.from \/ w.to > r.to
    /\ compositions' = compositions + 1
    /\ UNCHANGED <<conversation, tracker, checkpoint, stage, request, accepted,
                   projections, latestRevision, processed, routed, faults>>

\* The composition ends without a result and the tracker keeps what it took.
FailTracked ==
    /\ stage' = "idle"
    /\ request' = NoRequest
    /\ UNCHANGED <<conversation, tracker, checkpoint, accepted, projections,
                   latestRevision, processed, routed, compositions>>

\* The composition ends without a result; the tracker forgets it.
FailSafe ==
    /\ tracker' = checkpoint
    /\ stage' = "idle"
    /\ request' = NoRequest
    /\ UNCHANGED <<conversation, checkpoint, accepted, projections, latestRevision,
                   processed, routed, compositions>>

\* diarize answers with turns of the window, under names of its own.
Diarize ==
    /\ stage = "diarize"
    /\ \E names \in {n \in [Persons -> Labels] : n["agent"] # n["customer"]} :
           request' = [request EXCEPT !.turns = TurnsIn(request, names),
                                      !.names = names]
    /\ stage' = "track"
    /\ UNCHANGED <<conversation, tracker, checkpoint, accepted, projections,
                   latestRevision, processed, routed, compositions, faults>>

\* One speaker more than the tracker is configured for: the first turn gets a
\* name of its own.
DiarizeOneTooMany ==
    /\ stage = "diarize" /\ faults < MaxFaults
    /\ LET names == [p \in Persons |-> IF p = "agent" THEN 1 ELSE 2]
           turns == TurnsIn(request, names)
           told == {[t EXCEPT !.locals =
                        IF t.from = Min({u.from : u \in turns}) THEN {3} ELSE @] :
                    t \in turns}
       IN  /\ TooManySpeakers(told)
           /\ request' = [request EXCEPT !.turns = told, !.names = names]
    /\ stage' = "track"
    /\ faults' = faults + 1
    /\ UNCHANGED <<conversation, tracker, checkpoint, accepted, projections,
                   latestRevision, processed, routed, compositions>>

\* diarize raises, or answers for another scope or window.
DiarizeFails ==
    /\ stage = "diarize" /\ faults < MaxFaults
    /\ faults' = faults + 1
    /\ FailSafe

Track ==
    /\ stage = "track"
    /\ ~TrackingFails(tracker, request, request.turns)
    /\ tracker' = Tracked(tracker, request)
    /\ request' = [request EXCEPT !.ids = Newest(tracker').ids]
    /\ stage' = "attribute"
    /\ UNCHANGED <<conversation, checkpoint, accepted, projections, latestRevision,
                   processed, routed, compositions, faults>>

TrackFails ==
    /\ stage = "track"
    /\ TrackingFails(tracker, request, request.turns)
    /\ FailSafe
    /\ UNCHANGED faults

AttributionFails ==
    AlignmentFails(request.words) \/ ResolutionFails(request.words)

\* Alignment, role resolution and projection: the outcome is complete.
Attribute ==
    /\ stage = "attribute" /\ ~AttributionFails
    /\ LET words == {Attributed(w, request.turns, request.ids) : w \in request.words}
           roles == Roles(words)
       IN  /\ accepted' = Append(accepted, [request EXCEPT !.words = words,
                                                          !.roles = roles])
           /\ projections' = Extended(projections, request.revision,
                                      CustomerWords(words, roles))
    /\ stage' = "idle"
    /\ request' = NoRequest
    /\ UNCHANGED <<conversation, tracker, checkpoint, latestRevision, processed,
                   routed, compositions, faults>>

AttributeFails ==
    /\ stage = "attribute" /\ AttributionFails
    /\ FailSafe
    /\ UNCHANGED faults

--------------------------------------------------------------------------
(* CustomerOnlyClassificationRouter.prepare, asked for a committed event.  *)

\* The event is of the call's revision and none as new was processed.
IsFresh(event) == event = latestRevision /\ event > processed

\* The provider's answer is the projection of exactly this revision.
IsValid(answer, event) == answer = event

\* A projection is taken: the revision counts as processed, routed or not.
\* The provider answers with the projection of some revision.
Prepare(event, answer) ==
    /\ stage = "idle"
    /\ IsFresh(event) /\ IsValid(answer, event)
    /\ processed' = event
    /\ routed' = IF projections[answer] = {} THEN routed
                 ELSE Append(routed, [revision |-> event,
                                      words |-> projections[answer]])
    /\ UNCHANGED <<conversation, tracker, checkpoint, stage, request, accepted,
                   projections, latestRevision, compositions, faults>>

\* Every other answer, none and an exception included, changes nothing.

CallNext ==
    \/ \E r \in Ranges, doubled, isNew \in BOOLEAN : Compose(r, doubled, isNew)
    \/ \E r \in Ranges : ComposeRejected(r)
    \/ Diarize \/ DiarizeOneTooMany \/ DiarizeFails
    \/ Track \/ TrackFails
    \/ Attribute \/ AttributeFails
    \/ \E event \in 1 .. latestRevision, answer \in DOMAIN projections :
           Prepare(event, answer)

CallSpec == CallInit /\ [][CallNext]_callVars

--------------------------------------------------------------------------
(* What the call promises.                                                 *)

\* The tracker's state is what the accepted windows alone would have built:
\* a composition that failed at any stage leaves no history and no speaker
\* number behind (composition.py, identity_tracker.py checkpoint/restore).
FailuresLeaveNoTrace ==
    stage = "idle" => tracker = FoldLeft(Tracked, NoHistory, accepted)

\* Whoever speaks alone in the time two successive windows share is the same
\* speaker of the call in both, whatever names the diarizer used and
\* whatever failed in between; two people of one window are never one
\* speaker (_match_speakers).
SpeakersKeepTheirIdentity ==
    LET id(k, p) == accepted[k].ids[accepted[k].names[p]]
        heard(k, p) == accepted[k].names[p] \in DOMAIN accepted[k].ids
        aloneInBoth(k, p) ==
            \E u \in DOMAIN conversation.speech :
                /\ Covers(accepted[k], u) /\ Covers(accepted[k + 1], u)
                /\ conversation.speech[u] = {p}
    IN  /\ \A k \in 1 .. Len(accepted) - 1, p \in Persons :
               aloneInBoth(k, p) => id(k, p) = id(k + 1, p)
        /\ \A k \in DOMAIN accepted :
               (\A p \in Persons : heard(k, p)) =>
                   id(k, "agent") # id(k, "customer")

\* Someone whose only phrases in a window are the other's: nothing in the
\* text tells the two apart.
Misleading(o) ==
    LET own(p) == {w \in o.words : w.by = p /\ Cardinality(w.speakers) = 1}
    IN  \/ /\ Hits(CustomerPhrases, own("agent")) > 0
           /\ Hits(AgentPhrases, own("agent")) = 0
        \/ /\ Hits(AgentPhrases, own("customer")) > 0
           /\ Hits(CustomerPhrases, own("customer")) = 0

\* Unless the phrases themselves mislead, only words the customer really said
\* reach the classification, each under the revision its window was composed
\* for, and no revision twice or after a later one (role_resolver.py,
\* routing.py, customer_routing.py).
OnlyCustomerSpeechIsRouted ==
    /\ \A k \in DOMAIN routed :
           \E o \in Range(accepted) :
               /\ o.revision = routed[k].revision
               /\ routed[k].words \subseteq o.words
               /\ Misleading(o) \/ \A w \in routed[k].words : w.by = "customer"
    /\ \A j, k \in DOMAIN routed : j < k => routed[j].revision < routed[k].revision

=============================================================================
