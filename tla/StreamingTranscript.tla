-------------------------- MODULE StreamingTranscript --------------------------
(***************************************************************************)
(* From audio chunks to a committed transcript (app/streaming).  Each chunk *)
(* enters a rolling buffer, the newest seconds of the buffer become one     *)
(* window, the speech recogniser writes the window down again from its      *)
(* start, and the reconciler turns the overlapping texts into events: words *)
(* older than the stable region are committed once, newer ones are partial  *)
(* and replaced.  The pipeline applies the events to the CallState.         *)
(*                                                                         *)
(* A call is heard as a fixed sequence of words with times.  The recogniser *)
(* is outside the repository: it hears the words that lie wholly in the     *)
(* window, groups them into segments as it likes, is late by some ticks     *)
(* about their ends, and may mishear the word that the window cuts.         *)
(***************************************************************************)
EXTENDS Integers, SequencesExt, FiniteSetsExt

CONSTANTS
    Speech,         \* sequence of [word, start, end], in ticks
    Durations,      \* lengths a chunk may have
    Window,         \* rolling_window_seconds
    StableRegion,   \* stable_region_seconds
    Tolerance,      \* timestamp_tolerance_seconds
    Lateness,       \* ticks by which a segment may seem to end late
    SegmentSizes    \* words per segment the recogniser may choose

\* The longest any n words of the speech last.
Span(n) == Max({0} \cup {Speech[i + n - 1].end - Speech[i].start :
                            i \in 1 .. Len(Speech) - n + 1})
MaxSegment == Span(Max(SegmentSizes))

\* Each word outlasts what the clocks may be wrong about, and the window holds
\* its longest segment, the stable region and four committed words besides:
\* that many let _new_suffix recognise an overlap with a misheard word.
ASSUME SpeechAssumption ==
    /\ \A i \in DOMAIN Speech :
          /\ Speech[i].end - Speech[i].start > Tolerance + Max(Lateness)
          /\ i > 1 => Speech[i - 1].end < Speech[i].start
    /\ \A d \in Durations : d > 0
    /\ Span(4) + MaxSegment + Max(Lateness) + StableRegion + Max(Durations) < Window

VARIABLES
    buffer,     \* chunks kept by RollingAudioBuffer: [number, start, end]
    window,     \* the last window: [first, last, start, end]
    rec,        \* TranscriptReconciler
    call,       \* CallState
    phase

vars == <<buffer, window, rec, call, phase>>

Call == INSTANCE CallState WITH LabelOrder <- <<>>

Unset == -1
EmptyWindow == [first |-> Unset, last |-> Unset, start |-> 0, end |-> 0]
EmptyReconciler ==
    [stable |-> <<>>, stableEnd |-> Unset, partial |-> <<>>,
     partialTimes |-> <<0, 0>>, finalTimes |-> <<0, 0>>, revision |-> 0]

Init ==
    /\ buffer = <<>>
    /\ window = EmptyWindow
    /\ rec = EmptyReconciler
    /\ call = Call!EmptyCall
    /\ phase = "running"

-----------------------------------------------------------------------------
(* RollingAudioBuffer and AudioWindowBuilder *)

\* append: chunks that ended before the window are evicted.
Keep(chunks, chunk) ==
    SelectSeq(Append(chunks, chunk), LAMBDA c : c.end > chunk.end - Window)

Length(chunks, n) == FoldLeft(LAMBDA sum, c : sum + c.end - c.start, 0, SubSeq(chunks, 1, n))

\* build: the newest audio of at most one window; chunks whose frames are all
\* trimmed do not count as its first.
Build(chunks) ==
    LET available == Length(chunks, Len(chunks))
        retained == Min({available, Window})
        skipped == available - retained
        first == Min({n \in DOMAIN chunks : skipped < Length(chunks, n)})
        end == Last(chunks).end
    IN  [first |-> chunks[first].number, last |-> Last(chunks).number,
         start |-> end - retained, end |-> end]

-----------------------------------------------------------------------------
(* The recogniser, and WindowTranscriber around it *)

Misheard == "misheard"

\* Words of the speech as the recogniser reports them, with their index.
Heard(w, clear) ==
    LET report(i) ==
            CASE Speech[i].start >= w.start -> <<Speech[i].word>>
              [] Speech[i].start < w.start /\ ~clear -> <<Misheard>>
              [] Speech[i].start < w.start /\ clear -> <<>>
        audible == {i \in DOMAIN Speech : Speech[i].end > w.start /\ Speech[i].end <= w.end}
    IN  [i \in {j \in audible : report(j) # <<>>} |-> report(i)]

\* Segments of n words each (the first and the last may be shorter), with times
\* relative to the window.
Recognise(w, clear, n, shift, late) ==
    LET heard == Heard(w, clear)
        group(i) == (i + shift) \div n
        order == SelectSeq([i \in DOMAIN Speech |-> i], LAMBDA i : i \in DOMAIN heard)
        segment(first) ==
            LET m == SelectSeq(order, LAMBDA i : group(i) = group(first))
            IN  [text |-> FlattenSeq([j \in DOMAIN m |-> heard[m[j]]]),
                 start |-> Speech[m[1]].start - w.start,
                 end |-> Speech[Last(m)].end + late - w.start]
        firsts == SelectSeq(order, LAMBDA i : i - 1 \notin DOMAIN heard
                                                \/ group(i - 1) # group(i))
    IN  [k \in DOMAIN firsts |-> segment(firsts[k])]

\* transcribe: segments outside the window are dropped, the others clamped to
\* it and given the time of the call.
Transcribe(w, segments) ==
    LET duration == w.end - w.start
        inside == SelectSeq(segments, LAMBDA s : s.end > 0 /\ s.start < duration)
    IN  [k \in DOMAIN inside |->
            [inside[k] EXCEPT !.start = w.start + Max({0, @}),
                              !.end = w.start + Min({duration, @})]]

-----------------------------------------------------------------------------
(* TranscriptReconciler *)

Suffix(words, n) == SubSeq(words, Len(words) - n + 1, Len(words))
Prefix(words, n) == SubSeq(words, 1, n)
Rest(words, n) == SubSeq(words, n + 1, Len(words))

\* Words in the matching blocks of difflib.SequenceMatcher: the longest common
\* block, the first of them, and what matches on either side of it.
RECURSIVE Matching(_, _)
Matching(a, b) ==
    LET starts == {<<i, j>> \in (1 .. Len(a)) \X (1 .. Len(b)) : a[i] = b[j]}
        run(i, j) == Max({k \in 1 .. Min({Len(a) - i, Len(b) - j}) + 1 :
                             SubSeq(a, i, i + k - 1) = SubSeq(b, j, j + k - 1)})
        blocks == {<<p[1], p[2], run(p[1], p[2])>> : p \in starts}
        before(p, q) == \/ p[3] > q[3]
                        \/ p[3] = q[3] /\ p[1] < q[1]
                        \/ p[3] = q[3] /\ p[1] = q[1] /\ p[2] <= q[2]
        best == CHOOSE p \in blocks : \A q \in blocks : before(p, q)
    IN  IF blocks = {} THEN 0
        ELSE best[3] + Matching(Prefix(a, best[1] - 1), Prefix(b, best[2] - 1))
                     + Matching(Rest(a, best[1] + best[3] - 1), Rest(b, best[2] + best[3] - 1))

\* Mutant of SimilarPrefix: misheard words are never recognised again.
NoSimilarPrefix(existing, candidate) == 0

\* How many words of the candidate repeat the end of the existing text when no
\* exact overlap does: the best ratio above its threshold, then the closest
\* sizes, then the longer one.
SimilarPrefix(existing, candidate) ==
    LET most == Min({Len(existing), Len(candidate)})
        sizes == {<<e, c>> \in (2 .. most) \X (2 .. Len(candidate)) : c - e \in -2 .. 2}
        matched(p) == Matching(Suffix(existing, p[1]), Prefix(candidate, p[2]))
        required(p) == IF Min({p[1], p[2]}) < 5 THEN 82 ELSE 66
        enough == {x \in {<<p[1], p[2], matched(p)>> : p \in sizes} :
                      200 * x[3] >= required(x) * (x[1] + x[2])}
        score(x, y) == x[3] * (y[1] + y[2])  \* compares the ratios crosswise
        apart(x) == Max({x[1] - x[2], x[2] - x[1]})
        atLeast(x, y) == \/ score(x, y) > score(y, x)
                         \/ score(x, y) = score(y, x) /\ apart(x) < apart(y)
                         \/ score(x, y) = score(y, x) /\ apart(x) = apart(y) /\ x[2] >= y[2]
    IN  IF enough = {} THEN 0
        ELSE (CHOOSE x \in enough : \A y \in enough : atLeast(x, y))[2]

\* _new_suffix: what the candidate adds to the existing text.
NewSuffix(existing, candidate, allowOverlap) ==
    LET exact == {n \in 1 .. Min({Len(existing), Len(candidate)}) :
                    Suffix(existing, n) = Prefix(candidate, n)}
    IN  CASE ~allowOverlap \/ existing = <<>> \/ candidate = <<>> -> candidate
          [] allowOverlap /\ existing # <<>> /\ exact # {} -> Rest(candidate, Max(exact))
          [] allowOverlap /\ existing # <<>> /\ candidate # <<>> /\ exact = {} ->
                Rest(candidate, SimilarPrefix(existing, candidate))

TextOf(segments) == FlattenSeq([k \in DOMAIN segments |-> segments[k].text])
TimesOf(segments) == <<Min({segments[k].start : k \in DOMAIN segments}),
                       Max({segments[k].end : k \in DOMAIN segments})>>

\* Mutant of CommittedBefore: committed time counts for nothing.
NeverCommitted(r, time) == FALSE

\* The time is not after what is already committed.
CommittedBefore(r, time) == r.stableEnd # Unset /\ time <= r.stableEnd + Tolerance

\* The committed part of ingest.
CommitStable(r, segments) ==
    LET times == TimesOf(segments)
        text == IF CommittedBefore(r, times[2]) THEN <<>>
                ELSE NewSuffix(r.stable, TextOf(segments), CommittedBefore(r, times[1]))
    IN  IF segments = <<>> THEN [rec |-> r, text |-> <<>>]
        ELSE [rec |-> [r EXCEPT !.stable = @ \o text,
                                !.stableEnd = Max({@, times[2]})],
              text |-> text]

\* _clear_partial keeps the times of the partial for finalize.
ClearPartial(r) == [r EXCEPT !.finalTimes = r.partialTimes, !.partial = <<>>,
                             !.partialTimes = <<0, 0>>]

\* The partial part of ingest: an unchanged partial is no event, nor is one
\* that disappears.
ReplacePartial(r, segments) ==
    LET text == TextOf(segments)
    IN  CASE text = r.partial -> r
          [] text # r.partial /\ text = <<>> -> ClearPartial(r)
          [] text # r.partial /\ text # <<>> ->
                [r EXCEPT !.partial = text, !.partialTimes = TimesOf(segments)]

Event(kind, text, revision) == [kind |-> kind, text |-> text, revision |-> revision]

\* ingest: the new reconciler and its events.
Ingest(r, w, segments) ==
    LET isStable(s) == s.end <= w.end - StableRegion + Tolerance
        committed == CommitStable(r, SelectSeq(segments, isStable))
        after == ReplacePartial(committed.rec, SelectSeq(segments, LAMBDA s : ~isStable(s)))
        stable == IF committed.text = <<>> THEN <<>>
                  ELSE <<Event("stable", committed.text, r.revision + 1)>>
        partial == IF after.partial \in {r.partial, <<>>} THEN <<>>
                   ELSE <<Event("partial", after.partial, r.revision + Len(stable) + 1)>>
    IN  [rec |-> [after EXCEPT !.revision = @ + Len(stable \o partial)],
         events |-> stable \o partial]

\* Mutant of Finalize: what is still partial is dropped.
FinalizeSilently(r) == [rec |-> ClearPartial(r), events |-> <<>>]

\* finalize: whether the rest may overlap the stable text is decided from the
\* times of the partial cleared before, not of this one.
Finalize(r) ==
    LET text == NewSuffix(r.stable, r.partial, CommittedBefore(r, r.finalTimes[1]))
        cleared == ClearPartial(r)
    IN  CASE r.partial = <<>> -> [rec |-> r, events |-> <<>>]
          [] r.partial # <<>> /\ text = <<>> -> [rec |-> cleared, events |-> <<>>]
          [] r.partial # <<>> /\ text # <<>> ->
                [rec |-> [cleared EXCEPT !.stable = @ \o text,
                                         !.stableEnd = Max({@, r.partialTimes[2]}),
                                         !.revision = @ + 1],
                 events |-> <<Event("final", text, r.revision + 1)>>]

-----------------------------------------------------------------------------
(* StreamingASRPipeline._execute_chunks *)

Apply(c, events) ==
    FoldLeft(LAMBDA s, e : Call!ApplyTranscript(s, e.kind, e.text, e.revision), c, events)

AudioEnd == Max({0} \cup {Speech[i].end : i \in DOMAIN Speech}) + StableRegion

NextChunk(duration) ==
    [number |-> window.last + 1, start |-> window.end, end |-> window.end + duration]

\* One turn of the chunk loop.
ProcessChunk(duration, clear, n, shift, late) ==
    /\ phase = "running"
    /\ window.end + duration <= AudioEnd
    /\ buffer' = Keep(buffer, NextChunk(duration))
    /\ window' = Build(buffer')
    /\ LET segments == Transcribe(window', Recognise(window', clear, n, shift, late))
           result == Ingest(rec, window', segments)
       IN  /\ rec' = result.rec
           /\ call' = Apply(call, result.events)
    /\ UNCHANGED phase

\* The recogniser raises, or reports times that are refused.
TranscriptionFails ==
    /\ phase = "running"
    /\ phase' = "failed"
    /\ UNCHANGED <<buffer, window, rec, call>>

\* The chunks are over, or the live call is cancelled.
EndOfAudio ==
    /\ phase = "running"
    /\ window.last # Unset
    /\ LET result == Finalize(rec)
       IN  rec' = result.rec /\ call' = Apply(call, result.events)
    /\ phase' = "ended"
    /\ UNCHANGED <<buffer, window>>

Next ==
    \/ \E d \in Durations, clear \in BOOLEAN, n \in SegmentSizes, late \in Lateness :
          \E shift \in 0 .. n - 1 : ProcessChunk(d, clear, n, shift, late)
    \/ TranscriptionFails
    \/ EndOfAudio

Spec == Init /\ [][Next]_vars

-----------------------------------------------------------------------------
(* Properties *)

Words == [i \in DOMAIN Speech |-> Speech[i].word]

\* Words the call had heard to their end by then.
SpokenBy(time) == {i \in DOMAIN Speech : Speech[i].end <= time}

\* The window is the newest audio of the call, never more than one window of
\* it, and names the chunk its first frame is in (RollingAudioBuffer.append,
\* AudioWindowBuilder.build).
WindowIsNewestAudio ==
    window.last # Unset =>
        /\ window.start = Max({0, window.end - Window})
        /\ Last(buffer).end = window.end
        /\ \E k \in DOMAIN buffer : /\ buffer[k].number = window.first
                                    /\ buffer[k].start <= window.start
                                    /\ window.start < buffer[k].end

\* However the recogniser groups, delays or mishears words that it hears again
\* and again, every word is committed once and in order, and the call state
\* holds the same text as the reconciler (TranscriptReconciler.ingest and
\* finalize, CallState.apply_transcript).
SpokenOnce ==
    /\ IsPrefix(rec.stable, Words)
    /\ call.stable = rec.stable
    /\ call.revision = rec.revision

\* No audio and no word gets lost: the window is the newest audio, and a word that
\* was heard to its end is committed or still partial, is committed once the
\* longest segment it may be in has left the stable region, and is committed when
\* the call ends.
NothingIsDropped ==
    /\ WindowIsNewestAudio
    /\ phase = "running" =>
          \A i \in SpokenBy(window.end) :
              \/ Speech[i].word \in Range(rec.stable)
              \/ Speech[i].word \in Range(rec.partial) /\ rec.partial = call.partial
    /\ \A i \in SpokenBy(window.end - StableRegion - MaxSegment - Max(Lateness)) :
          Speech[i].word \in Range(rec.stable)
    /\ phase = "ended" => Len(rec.stable) = Cardinality(SpokenBy(window.end))

=============================================================================
