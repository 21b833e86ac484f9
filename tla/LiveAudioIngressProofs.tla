------------------------ MODULE LiveAudioIngressProofs ------------------------
(***************************************************************************)
(* Proofs about LiveAudioIngress: the type invariant, the isolation of the *)
(* scopes, and the account every stream keeps of its audio.  The facts     *)
(* about one stream come first; LocalMicrophoneSessionProofs cites them    *)
(* too.                                                                    *)
(***************************************************************************)
EXTENDS LiveAudioIngress, FiniteSetTheorems, TLAPS

-----------------------------------------------------------------------------
(* The record of one stream. *)


\* A bounded history keeps the youngest entries in order: at most limit of
\* them, and all of them while there are no more.
LEMMA TrimOldestKeepsSuffix ==
    ASSUME NEW S, NEW q \in Seq(S), NEW limit \in Nat
    PROVE  /\ TrimOldest(q, limit) \in Seq(S)
           /\ Len(TrimOldest(q, limit)) =
                 IF Len(q) > limit THEN limit ELSE Len(q)
           /\ \A i \in 1 .. Len(TrimOldest(q, limit)) :
                 TrimOldest(q, limit)[i] =
                    q[Len(q) - Len(TrimOldest(q, limit)) + i]
  <1>1. CASE Len(q) > limit
    <2>1. /\ Len(q) - limit + 1 \in 1 .. Len(q) + 1
          /\ TrimOldest(q, limit) = SubSeq(q, Len(q) - limit + 1, Len(q))
      BY <1>1 DEF TrimOldest
    <2>. QED  BY <1>1, <2>1
  <1>2. CASE ~(Len(q) > limit)
    BY <1>2 DEF TrimOldest
  <1>. QED  BY <1>1, <1>2

\* A START installs a well-formed record.
LEMMA NewStreamType ==
    ASSUME NEW format \in Formats, NEW seq \in Nat
    PROVE  NewStream(format, seq) \in StreamState
  BY DEF NewStream, StreamState

\* Accepting the next chunk keeps the record well formed.
LEMMA AdmitType ==
    ASSUME NEW s \in StreamState, NEW payload \in Payloads
    PROVE  /\ NextChunk(s, payload) \in Chunk
           /\ Admit(s, payload) \in StreamState
           /\ Admit(s, payload).format = s.format
           /\ Admit(s, payload).queue = Append(s.queue, NextChunk(s, payload))
           /\ Admit(s, payload).nextSeq = s.nextSeq + 1
           /\ Admit(s, payload).nextStart = s.nextStart + Duration[payload]
           /\ Admit(s, payload).fingerprints =
                 TrimOldest(Append(s.fingerprints,
                                   [seq |-> s.nextSeq, payload |-> payload]),
                            HistoryLimit)
  <1> DEFINE chunk == NextChunk(s, payload)
             print == [seq |-> s.nextSeq, payload |-> payload]
             queue == Append(s.queue, chunk)
             prints == TrimOldest(Append(s.fingerprints, print), HistoryLimit)
             accepted == s.accepted + 1
             nextSeq == s.nextSeq + 1
             nextStart == s.nextStart + Duration[payload]
  <1>1. chunk \in Chunk /\ print \in Fingerprint
    BY DEF NextChunk, StreamState, Chunk, Fingerprint
  <1>2. queue \in Seq(Chunk)
    BY <1>1 DEF StreamState
  <1>3. Append(s.fingerprints, print) \in Seq(Fingerprint)
    BY <1>1 DEF StreamState
  <1>4. prints \in Seq(Fingerprint)
    BY <1>3, LimitAssumption, TrimOldestKeepsSuffix
  <1>5. accepted \in Nat /\ nextSeq \in Nat /\ nextStart \in Nat
    BY PayloadAssumption DEF StreamState
  <1>6. Admit(s, payload) = [s EXCEPT !.queue = queue,
                                      !.fingerprints = prints,
                                      !.accepted = accepted,
                                      !.nextSeq = nextSeq,
                                      !.nextStart = nextStart]
    BY DEF Admit
  <1> HIDE DEF chunk, queue, prints, accepted, nextSeq, nextStart
  <1>7. Admit(s, payload) \in StreamState
    BY <1>2, <1>4, <1>5, <1>6 DEF StreamState
  <1>8. /\ Admit(s, payload).format = s.format
        /\ Admit(s, payload).queue = queue
        /\ Admit(s, payload).nextSeq = nextSeq
        /\ Admit(s, payload).nextStart = nextStart
        /\ Admit(s, payload).fingerprints = prints
    BY <1>6 DEF StreamState
  <1>. QED  BY <1>1, <1>7, <1>8 DEF chunk, queue, prints, nextSeq, nextStart

\* The six answers to an AUDIO_CHUNK are the only ones.
LEMMA AudioReasonRange ==
    ASSUME NEW s \in StreamState, NEW seq \in Nat, NEW payload \in Payloads
    PROVE  AudioReason(s, seq, payload) \in
              {"stale_sequence", "exact_duplicate", "conflicting_duplicate",
               "sequence_gap", "queue_full", "frame_accepted"}
  <1>1. /\ s.nextSeq \in Nat
        /\ Len(s.queue) \in Nat
        /\ MaxQueue \in Nat
    BY LimitAssumption DEF StreamState
  <1>. QED  BY <1>1 DEF AudioReason

\* An AUDIO_CHUNK is admitted only when it is the expected one and fits; any
\* other answer leaves the record with the same audio, or counts a refusal.
LEMMA AfterAudioCases ==
    ASSUME NEW s \in StreamState, NEW seq \in Nat, NEW payload \in Payloads
    PROVE  LET reason == AudioReason(s, seq, payload)
               after  == AfterAudio(s, seq, payload)
           IN  \/ reason = "frame_accepted" /\ after = Admit(s, payload)
               \/ /\ reason # "frame_accepted"
                  /\ after \in {CountDuplicate(s), CountGap(s),
                                CountRejected(s)}
  BY AudioReasonRange DEF AfterAudio

\* Counting a refusal changes counters only.
LEMMA CountersOnly ==
    ASSUME NEW s \in StreamState,
           NEW t \in {CountDuplicate(s), CountGap(s), CountRejected(s)}
    PROVE  /\ t \in StreamState
           /\ t.format = s.format
           /\ t.nextSeq = s.nextSeq
           /\ t.nextStart = s.nextStart
           /\ t.accepted = s.accepted
           /\ t.queue = s.queue
           /\ t.fingerprints = s.fingerprints
  <1>1. CASE t = CountDuplicate(s)
    BY SMTT(40), <1>1 DEF CountDuplicate, StreamState
  <1>2. CASE t = CountGap(s)
    <2> DEFINE rejected == s.rejected + 1
               gaps == s.gaps + 1
    <2>1. rejected \in Nat /\ gaps \in Nat
      BY DEF StreamState
    <2>2. t = [s EXCEPT !.rejected = rejected, !.gaps = gaps]
      BY <1>2 DEF CountGap
    <2> HIDE DEF rejected, gaps
    <2>. QED  BY <2>1, <2>2 DEF StreamState
  <1>3. CASE t = CountRejected(s)
    <2> DEFINE rejected == s.rejected + 1
    <2>1. rejected \in Nat
      BY DEF StreamState
    <2>2. t = [s EXCEPT !.rejected = rejected]
      BY <1>3 DEF CountRejected
    <2> HIDE DEF rejected
    <2>. QED  BY <2>1, <2>2 DEF StreamState
  <1>. QED  BY <1>1, <1>2, <1>3

\* So does counting the gap in front of an END.
LEMMA EndGapOnly ==
    ASSUME NEW s \in StreamState
    PROVE  LET t == [s EXCEPT !.gaps = @ + 1]
           IN  /\ t \in StreamState
               /\ t.format = s.format
               /\ t.accepted = s.accepted
               /\ t.nextSeq = s.nextSeq
               /\ t.nextStart = s.nextStart
               /\ t.queue = s.queue
               /\ t.fingerprints = s.fingerprints
  <1> DEFINE gaps == s.gaps + 1
  <1>1. gaps \in Nat
    BY DEF StreamState
  <1>. HIDE DEF gaps
  <1>2. LET t == [s EXCEPT !.gaps = gaps]
        IN  /\ t \in StreamState
            /\ t.format = s.format
            /\ t.accepted = s.accepted
            /\ t.nextSeq = s.nextSeq
            /\ t.nextStart = s.nextStart
            /\ t.queue = s.queue
            /\ t.fingerprints = s.fingerprints
    BY <1>1 DEF StreamState
  <1>. QED  BY <1>2 DEF gaps

\* Whatever AUDIO_CHUNK arrives, the record stays well formed.
LEMMA AfterAudioType ==
    ASSUME NEW s \in StreamState, NEW seq \in Nat, NEW payload \in Payloads
    PROVE  AfterAudio(s, seq, payload) \in StreamState
  BY AfterAudioCases, AdmitType, CountersOnly

\* Draining takes the head of the queue and nothing else.
LEMMA AfterDrainType ==
    ASSUME NEW s \in StreamState, NEW n \in 0 .. Len(s.queue)
    PROVE  /\ AfterDrain(s, n) \in StreamState
           /\ AfterDrain(s, n).format = s.format
           /\ AfterDrain(s, n).nextSeq = s.nextSeq
           /\ AfterDrain(s, n).nextStart = s.nextStart
           /\ AfterDrain(s, n).fingerprints = s.fingerprints
           /\ Len(AfterDrain(s, n).queue) = Len(s.queue) - n
           /\ \A i \in 1 .. Len(s.queue) - n :
                 AfterDrain(s, n).queue[i] = s.queue[n + i]
  <1>1. /\ s.queue \in Seq(Chunk)
        /\ AfterDrain(s, n) = [s EXCEPT !.queue =
                                  SubSeq(s.queue, n + 1, Len(s.queue))]
    BY DEF AfterDrain, StreamState
  <1>2. /\ SubSeq(s.queue, n + 1, Len(s.queue)) \in Seq(Chunk)
        /\ Len(SubSeq(s.queue, n + 1, Len(s.queue))) = Len(s.queue) - n
        /\ \A i \in 1 .. Len(s.queue) - n :
              SubSeq(s.queue, n + 1, Len(s.queue))[i] = s.queue[n + i]
    BY <1>1
  <1>. QED  BY <1>1, <1>2 DEF StreamState

-----------------------------------------------------------------------------
(* The record and its history move together. *)

\* The record s is a faithful account of t and of the n chunks drained.
Faithful(s, t, n) == /\ Contiguous(t)
                     /\ QueueIsRest(s, t, n)
                     /\ ExpectsNext(s, t)
                     /\ RemembersLast(s, t)

\* Nothing has happened on a stream that was just started.
LEMMA NewStreamIsFaithful ==
    ASSUME NEW format, NEW seq
    PROVE  Faithful(NewStream(format, seq), <<>>, 0)
  <1>1. HistoryLimit \in Nat \ {0}
    BY LimitAssumption
  <1>2. /\ NewStream(format, seq).queue = <<>>
        /\ NewStream(format, seq).fingerprints = <<>>
        /\ NewStream(format, seq).nextStart = 0
    BY DEF NewStream
  <1>. QED
    BY <1>1, <1>2 DEF Faithful, Contiguous, QueueIsRest, ExpectsNext,
                      RemembersLast

\* What depends on the audio of a record only, survives a change of counters.
LEMMA FaithfulCongruence ==
    ASSUME NEW s, NEW u, NEW t, NEW n, Faithful(s, t, n),
           u.nextSeq = s.nextSeq, u.nextStart = s.nextStart,
           u.queue = s.queue, u.fingerprints = s.fingerprints
    PROVE  Faithful(u, t, n)
  BY DEF Faithful, QueueIsRest, ExpectsNext, RemembersLast

\* Accepting the next chunk extends the history by exactly that chunk.
LEMMA AdmitIsFaithful ==
    ASSUME NEW s \in StreamState, NEW payload \in Payloads,
           NEW t \in Seq(Chunk), NEW n \in Nat, Faithful(s, t, n)
    PROVE  Faithful(Admit(s, payload), Append(t, NextChunk(s, payload)), n)
  <1> DEFINE c == NextChunk(s, payload)
             u == Admit(s, payload)
             v == Append(t, c)
             print == [seq |-> s.nextSeq, payload |-> payload]
  <1>1. /\ c \in Chunk /\ u \in StreamState
        /\ u.queue = Append(s.queue, c)
        /\ u.nextSeq = s.nextSeq + 1
        /\ u.nextStart = s.nextStart + Duration[payload]
        /\ u.fingerprints = TrimOldest(Append(s.fingerprints, print), HistoryLimit)
    BY AdmitType
  <1>2. c.seq = s.nextSeq /\ c.payload = payload /\ c.start = s.nextStart
    BY DEF NextChunk
  <1>3. /\ v \in Seq(Chunk) /\ Len(v) = Len(t) + 1 /\ v # <<>>
        /\ v[Len(v)] = c
        /\ \A i \in 1 .. Len(t) : v[i] = t[i]
    BY <1>1
  <1>4. /\ s.queue \in Seq(Chunk) /\ s.fingerprints \in Seq(Fingerprint)
        /\ print \in Fingerprint
    BY DEF StreamState, Fingerprint
  <1> HIDE DEF c, u, v, print
  <1>5. Contiguous(v)
    <2>1. v[1].start = 0
      <3>1. CASE t = <<>>
        BY <3>1, <1>2, <1>3 DEF Faithful, ExpectsNext
      <3>2. CASE t # <<>>
        <4>1. v[1] = t[1]
          BY <3>2, <1>3
        <4>. QED  BY <3>2, <4>1 DEF Faithful, Contiguous
      <3>. QED  BY <3>1, <3>2
    <2>2. ASSUME NEW i \in 1 .. Len(v) - 1
          PROVE  /\ v[i+1].seq = v[i].seq + 1
                 /\ v[i+1].start = v[i].start + Duration[v[i].payload]
      <3>1. CASE i < Len(t)
        <4>1. i \in 1 .. Len(t) - 1 /\ i + 1 \in 1 .. Len(t)
          BY <3>1, <1>3
        <4>. QED  BY <4>1, <1>3 DEF Faithful, Contiguous
      <3>2. CASE i = Len(t)
        <4>1. t # <<>> /\ v[i] = t[Len(t)] /\ v[i+1] = c
          BY <3>2, <1>3
        <4>. QED  BY <4>1, <1>2, <3>2 DEF Faithful, ExpectsNext
      <3>. QED  BY <1>3, <3>1, <3>2
    <2>. QED  BY <2>1, <2>2 DEF Contiguous
  <1>6. QueueIsRest(u, v, n)
    <2>1. Len(u.queue) + n = Len(v)
      BY <1>1, <1>3, <1>4 DEF Faithful, QueueIsRest
    <2>2. ASSUME NEW i \in 1 .. Len(u.queue)
          PROVE  u.queue[i] = v[n + i]
      <3>1. Len(u.queue) = Len(s.queue) + 1
        BY <1>1, <1>4
      <3>2. CASE i <= Len(s.queue)
        <4>1. u.queue[i] = s.queue[i] /\ s.queue[i] = t[n + i]
          BY <1>1, <1>4, <3>2 DEF Faithful, QueueIsRest
        <4>2. n + i \in 1 .. Len(t)
          BY <1>4, <3>2 DEF Faithful, QueueIsRest
        <4>. QED  BY <4>1, <4>2, <1>3
      <3>3. CASE i = Len(s.queue) + 1
        <4>1. u.queue[i] = c
          BY <1>1, <1>4, <3>3
        <4>2. n + i = Len(v)
          BY <2>1, <3>1, <3>3
        <4>. QED  BY <4>1, <4>2, <1>3
      <3>. QED  BY <3>1, <3>2, <3>3, <1>4
    <2>. QED  BY <2>1, <2>2 DEF QueueIsRest
  <1>7. ExpectsNext(u, v)
    BY <1>1, <1>2, <1>3 DEF ExpectsNext
  <1>8. RemembersLast(u, v)
    <2> DEFINE f == s.fingerprints
               g == Append(f, print)
               h == u.fingerprints
    <2>1. /\ g \in Seq(Fingerprint) /\ Len(g) = Len(f) + 1
          /\ g[Len(g)] = print
          /\ \A i \in 1 .. Len(f) : g[i] = f[i]
      BY <1>4
    <2>2. HistoryLimit \in Nat \ {0}
      BY LimitAssumption
    <2>3. /\ Len(h) = IF Len(g) > HistoryLimit THEN HistoryLimit ELSE Len(g)
          /\ \A i \in 1 .. Len(h) : h[i] = g[Len(g) - Len(h) + i]
      <3>1. h = TrimOldest(g, HistoryLimit)
        BY <1>1
      <3>2. g \in Seq(Fingerprint) /\ HistoryLimit \in Nat
        BY <2>1, <2>2
      <3>. HIDE DEF g, h
      <3>3. /\ Len(TrimOldest(g, HistoryLimit)) =
                  IF Len(g) > HistoryLimit THEN HistoryLimit ELSE Len(g)
            /\ \A i \in 1 .. Len(TrimOldest(g, HistoryLimit)) :
                  TrimOldest(g, HistoryLimit)[i] =
                     g[Len(g) - Len(TrimOldest(g, HistoryLimit)) + i]
        BY <3>2, TrimOldestKeepsSuffix
      <3>. QED  BY <3>1, <3>3
    <2>4. /\ Len(f) = IF Len(t) < HistoryLimit THEN Len(t) ELSE HistoryLimit
          /\ \A i \in 1 .. Len(f) :
                f[i] = [seq |-> t[Len(t) - Len(f) + i].seq,
                        payload |-> t[Len(t) - Len(f) + i].payload]
      BY DEF Faithful, RemembersLast
    <2>5. print = [seq |-> c.seq, payload |-> c.payload]
      BY <1>2 DEF print
    <2>6. Len(f) \in Nat /\ Len(t) \in Nat
      BY <1>4
    <2> HIDE DEF f, g, h
    <2>7. Len(h) = IF Len(v) < HistoryLimit THEN Len(v) ELSE HistoryLimit
      BY <1>3, <2>1, <2>2, <2>3, <2>4
    <2>8. ASSUME NEW i \in 1 .. Len(h)
          PROVE  h[i] = [seq |-> v[Len(v) - Len(h) + i].seq,
                         payload |-> v[Len(v) - Len(h) + i].payload]
      <3> DEFINE j == Len(g) - Len(h) + i
      <3>0. /\ Len(f) \in Nat /\ Len(t) \in Nat /\ Len(h) \in Nat
            /\ Len(g) = Len(f) + 1 /\ Len(v) = Len(t) + 1
            /\ Len(f) <= Len(t) /\ Len(h) <= Len(g)
        BY <1>3, <2>1, <2>2, <2>3, <2>4, <2>6
      <3>1. j \in 1 .. Len(g) /\ h[i] = g[j]
        BY <2>3, <3>0
      <3>2. CASE j = Len(g)
        <4>1. Len(v) - Len(h) + i = Len(v)
          BY <3>0, <3>2
        <4>. QED  BY <3>1, <3>2, <4>1, <2>1, <2>5, <1>3
      <3>3. CASE j < Len(g)
        <4>1. /\ j \in 1 .. Len(f)
              /\ Len(v) - Len(h) + i = Len(t) - Len(f) + j
              /\ Len(t) - Len(f) + j \in 1 .. Len(t)
          BY <3>0, <3>1, <3>3
        <4>. QED  BY ZenonT(60), <3>1, <4>1, <2>1, <2>4, <1>3
      <3>. QED  BY <3>0, <3>1, <3>2, <3>3
    <2>. QED  BY <2>7, <2>8 DEF RemembersLast, h
  <1>. QED  BY <1>5, <1>6, <1>7, <1>8 DEF Faithful, u, v, c

\* Draining k chunks moves them from the queue to the drained ones.
LEMMA AfterDrainIsFaithful ==
    ASSUME NEW s \in StreamState, NEW t \in Seq(Chunk), NEW n \in Nat,
           NEW k \in 0 .. Len(s.queue), Faithful(s, t, n)
    PROVE  Faithful(AfterDrain(s, k), t, n + k)
  <1> DEFINE u == AfterDrain(s, k)
  <1>1. /\ u.nextSeq = s.nextSeq /\ u.nextStart = s.nextStart
        /\ u.fingerprints = s.fingerprints
        /\ Len(u.queue) = Len(s.queue) - k
        /\ \A i \in 1 .. Len(s.queue) - k : u.queue[i] = s.queue[k + i]
    BY AfterDrainType
  <1>2. Len(s.queue) \in Nat
    BY DEF StreamState
  <1> HIDE DEF u
  <1>3. QueueIsRest(u, t, n + k)
    <2>1. Len(u.queue) + (n + k) = Len(t)
      <3>1. Len(s.queue) + n = Len(t)
        BY DEF Faithful, QueueIsRest
      <3>2. Len(u.queue) = Len(s.queue) - k /\ k \in Nat
        BY <1>1, <1>2
      <3>3. ASSUME NEW a \in Nat PROVE (a - k) + (n + k) = a + n
        BY <3>2
      <3>. QED  BY <1>2, <3>1, <3>2, <3>3
    <2>2. ASSUME NEW i \in 1 .. Len(u.queue)
          PROVE  u.queue[i] = t[(n + k) + i]
      <3>1. k + i \in 1 .. Len(s.queue) /\ n + (k + i) = (n + k) + i
        BY <1>1, <1>2
      <3>. QED  BY <3>1, <1>1 DEF Faithful, QueueIsRest
    <2>. QED  BY <2>1, <2>2 DEF QueueIsRest
  <1>4. ExpectsNext(u, t) /\ RemembersLast(u, t)
    BY <1>1 DEF Faithful, ExpectsNext, RemembersLast
  <1>. QED  BY <1>3, <1>4 DEF Faithful, u

-----------------------------------------------------------------------------
(* The boundary. *)

\* Replacing the record of an active stream by another one is type correct.
LEMMA AnswerType ==
    ASSUME TypeOK, NEW key \in ActiveKeys, NEW s \in StreamState,
           NEW reason \in Reasons \cup {"drained"},
           Answer(key, reason, s), timeline' \in [Keys -> Seq(Chunk)],
           delivered' \in [Keys -> Nat]
    PROVE  TypeOK'
  <1>1. active' = [active EXCEPT ![key] = s] /\ reply' = reason
        /\ completed' = completed
    BY DEF Answer
  <1>2. ActiveKeys' = ActiveKeys /\ active' \in [ActiveKeys' -> StreamState]
    BY <1>1 DEF TypeOK, ActiveKeys
  <1>. QED  BY <1>1, <1>2 DEF TypeOK

\* A refusal is type correct.
LEMMA RefuseType ==
    ASSUME TypeOK, NEW reason \in Reasons \cup {"drained"}, Refuse(reason)
    PROVE  TypeOK'
  BY DEF TypeOK, Refuse, ActiveKeys

\* Initially the types are right.
LEMMA InitType == Init => TypeOK
  <1> SUFFICES ASSUME Init PROVE TypeOK
    OBVIOUS
  <1>1. ActiveKeys = {}
    BY DEF Init, ActiveKeys
  <1>2. active \in [ActiveKeys -> StreamState]
    BY <1>1 DEF Init
  <1>. QED  BY <1>1, <1>2 DEF Init, TypeOK

\* Every step keeps the types.
LEMMA NextType == TypeOK /\ [Next]_vars => TypeOK'
  <1> SUFFICES ASSUME TypeOK, [Next]_vars PROVE TypeOK'
    OBVIOUS
  <1> USE ScopeAssumption
  <1>1. CASE UNCHANGED vars
    BY <1>1 DEF vars, TypeOK, ActiveKeys
  <1>2. CASE ForeignEvent
    BY <1>2, RefuseType DEF ForeignEvent, Reasons
  <1>3. ASSUME NEW key \in Keys, StartRefused(key)
        PROVE  TypeOK'
    BY <1>3, RefuseType DEF StartRefused, Reasons
  <1>4. ASSUME NEW key \in Keys, NEW format \in Formats,
               NEW seq \in SequenceNumbers, StartAdmitted(key, format, seq)
        PROVE  TypeOK'
    <2>1. NewStream(format, seq) \in StreamState
      BY NewStreamType
    <2>2. /\ ActiveKeys' = ActiveKeys \cup {key}
          /\ active' \in [ActiveKeys' -> StreamState]
      BY <1>4, <2>1 DEF StartAdmitted, TypeOK, ActiveKeys
    <2>. QED  BY <1>4, <2>2 DEF StartAdmitted, TypeOK, Reasons, AcceptedReasons
  <1>5. ASSUME NEW key \in Keys, NEW isEnd \in BOOLEAN, NoStream(key, isEnd)
        PROVE  TypeOK'
    BY <1>5, RefuseType DEF NoStream, Reasons
  <1>6. ASSUME NEW key \in Keys, NEW format \in Formats, NEW isEnd \in BOOLEAN,
               FormatMismatch(key, format, isEnd)
        PROVE  TypeOK'
    <2>1. key \in ActiveKeys /\ active[key] \in StreamState
      BY <1>6 DEF FormatMismatch, Known, TypeOK
    <2>2. CountRejected(active[key]) \in StreamState
      BY <2>1, CountersOnly
    <2>. QED  BY <1>6, <2>1, <2>2, AnswerType DEF FormatMismatch, TypeOK, Reasons
  <1>7. ASSUME NEW key \in Keys, NEW format \in Formats,
               NEW seq \in SequenceNumbers, NEW payload \in Payloads,
               Audio(key, format, seq, payload)
        PROVE  TypeOK'
    <2>1. key \in ActiveKeys /\ active[key] \in StreamState /\ seq \in Nat
      BY <1>7 DEF Audio, Known, TypeOK
    <2>2. AfterAudio(active[key], seq, payload) \in StreamState
      BY <2>1, AfterAudioType
    <2>3. AudioReason(active[key], seq, payload) \in Reasons
      BY <2>1, AudioReasonRange DEF Reasons, AcceptedReasons
    <2>4. NextChunk(active[key], payload) \in Chunk
      BY <2>1, AdmitType
    <2>5. timeline' \in [Keys -> Seq(Chunk)] /\ delivered' \in [Keys -> Nat]
      BY <1>7, <2>4 DEF Audio, TypeOK
    <2>. QED  BY <1>7, <2>1, <2>2, <2>3, <2>5, AnswerType DEF Audio
  <1>8. ASSUME NEW key \in Keys, NEW format \in Formats,
               NEW seq \in SequenceNumbers, EndRefused(key, format, seq)
        PROVE  TypeOK'
    <2>1. key \in ActiveKeys /\ active[key] \in StreamState
      BY <1>8 DEF EndRefused, Known, TypeOK
    <2>2. [active[key] EXCEPT !.gaps = @ + 1] \in StreamState
      BY <2>1, EndGapOnly
    <2>3. EndReason(active[key], seq) \in Reasons
      BY <2>1 DEF EndReason, Reasons, CompletedReasons, StreamState
    <2>. QED  BY <1>8, <2>1, <2>2, <2>3, AnswerType DEF EndRefused, TypeOK
  <1>9. ASSUME NEW key \in Keys, NEW format \in Formats,
               NEW seq \in SequenceNumbers, NEW cancelled \in BOOLEAN,
               EndAdmitted(key, format, seq, cancelled)
        PROVE  TypeOK'
    <2>1. /\ ActiveKeys' = ActiveKeys \ {key}
          /\ active' \in [ActiveKeys' -> StreamState]
      BY <1>9 DEF EndAdmitted, TypeOK, ActiveKeys
    <2>2. completed' \in Seq(Keys)
      <3>1. Append(completed, key) \in Seq(Keys)
        BY DEF TypeOK
      <3>. QED  BY <1>9, <3>1, TrimOldestKeepsSuffix DEF EndAdmitted
    <2>. QED  BY <1>9, <2>1, <2>2 DEF EndAdmitted, TypeOK, Reasons,
                                      CompletedReasons
  <1>10. ASSUME NEW key \in Keys, NEW limit \in 1 .. MaxQueue, Drain(key, limit)
         PROVE  TypeOK'
    <2> DEFINE waiting == Len(active[key].queue)
               n == IF limit < waiting THEN limit ELSE waiting
    <2>1. key \in ActiveKeys /\ active[key] \in StreamState
      BY <1>10 DEF Drain, TypeOK
    <2>2. n \in 0 .. waiting
      BY <2>1, LimitAssumption DEF StreamState
    <2>3. AfterDrain(active[key], n) \in StreamState
      BY <2>1, <2>2, AfterDrainType
    <2>4. timeline' \in [Keys -> Seq(Chunk)] /\ delivered' \in [Keys -> Nat]
      BY <1>10, <2>2 DEF Drain, TypeOK
    <2>. QED  BY <1>10, <2>1, <2>3, <2>4, AnswerType DEF Drain
  <1>11. CASE DrainNothing
    BY <1>11, RefuseType DEF DrainNothing
  <1>. QED
    BY <1>1, <1>2, <1>3, <1>4, <1>5, <1>6, <1>7, <1>8, <1>9, <1>10, <1>11
    DEF Next, Start, AudioChunk, End

\* Every reachable state of the boundary is well typed, whatever the limits
\* and whatever the providers send.
THEOREM TypeCorrect == Spec => []TypeOK
  BY InitType, NextType, PTL DEF Spec

-----------------------------------------------------------------------------
(* Scopes.  The bound on the active streams needs their finiteness. *)

ScopeInv == ScopeIsolation /\ IsFiniteSet(ActiveKeys)

\* What touches neither table keeps the scopes apart.
LEMMA ScopeCongruence ==
    ASSUME ScopeInv, ActiveKeys' = ActiveKeys, completed' = completed
    PROVE  ScopeInv'
  BY DEF ScopeInv, ScopeIsolation, CompletedKeys

\* An answer keeps both tables.
LEMMA AnswerScopes ==
    ASSUME NEW key, NEW reason, NEW s, Answer(key, reason, s)
    PROVE  ActiveKeys' = ActiveKeys /\ completed' = completed
  BY DEF Answer, ActiveKeys

\* Initially there are no scopes.
LEMMA InitScopes == Init => ScopeInv
  <1> SUFFICES ASSUME Init PROVE ScopeInv
    OBVIOUS
  <1>1. ActiveKeys = {} /\ CompletedKeys = {} /\ Len(completed) = 0
    BY DEF Init, ActiveKeys, CompletedKeys
  <1>. QED  BY <1>1, FS_EmptySet, ScopeAssumption DEF ScopeInv, ScopeIsolation

\* Every step keeps the scopes apart: START admits only a scope that shares
\* neither call nor stream with an active one, END moves its scope over.
LEMMA NextScopes == TypeOK /\ ScopeInv /\ [Next]_vars => ScopeInv'
  <1> SUFFICES ASSUME TypeOK, ScopeInv, [Next]_vars PROVE ScopeInv'
    OBVIOUS
  <1>1. CASE UNCHANGED vars
    BY <1>1, ScopeCongruence DEF vars, ActiveKeys
  <1>2. CASE ForeignEvent \/ DrainNothing
    BY <1>2, ScopeCongruence DEF ForeignEvent, DrainNothing, Refuse, ActiveKeys
  <1>3. ASSUME NEW key \in Keys,
               \/ StartRefused(key)
               \/ \E isEnd \in BOOLEAN : NoStream(key, isEnd)
        PROVE  ScopeInv'
    BY <1>3, ScopeCongruence DEF StartRefused, NoStream, Refuse, ActiveKeys
  <1>4. ASSUME NEW key \in Keys,
               \/ \E format \in Formats, isEnd \in BOOLEAN :
                     FormatMismatch(key, format, isEnd)
               \/ \E format \in Formats, seq \in SequenceNumbers :
                     \/ EndRefused(key, format, seq)
                     \/ \E payload \in Payloads :
                           Audio(key, format, seq, payload)
               \/ \E limit \in 1 .. MaxQueue : Drain(key, limit)
        PROVE  ScopeInv'
    BY <1>4, AnswerScopes, ScopeCongruence
    DEF FormatMismatch, EndRefused, Audio, Drain
  <1>5. ASSUME NEW key \in Keys, NEW format \in Formats,
               NEW seq \in SequenceNumbers, StartAdmitted(key, format, seq)
        PROVE  ScopeInv'
    <2>1. /\ ActiveKeys' = ActiveKeys \cup {key} /\ completed' = completed
          /\ CompletedKeys' = CompletedKeys
      BY <1>5 DEF StartAdmitted, ActiveKeys, CompletedKeys
    <2>2. /\ IsFiniteSet(ActiveKeys')
          /\ Cardinality(ActiveKeys') = Cardinality(ActiveKeys) + 1
      BY <1>5, <2>1, FS_AddElement DEF StartAdmitted, ScopeInv
    <2>3. Cardinality(ActiveKeys') <= MaxActive
      BY <1>5, <2>2, ScopeAssumption, FS_CardinalityType
      DEF StartAdmitted, ScopeInv
    <2>4. ASSUME NEW j \in ActiveKeys', NEW k \in ActiveKeys',
                 j[1] = k[1] \/ j[2] = k[2]
          PROVE  j = k
      BY <1>5, <2>1, <2>4
      DEF StartAdmitted, ScopeActiveElsewhere, ScopeInv, ScopeIsolation
    <2>5. ActiveKeys' \cap CompletedKeys' = {}
      BY <1>5, <2>1 DEF StartAdmitted, ScopeInv, ScopeIsolation
    <2>. QED
      BY <2>1, <2>2, <2>3, <2>4, <2>5 DEF ScopeInv, ScopeIsolation
  <1>6. ASSUME NEW key \in Keys, NEW format \in Formats,
               NEW seq \in SequenceNumbers, NEW cancelled \in BOOLEAN,
               EndAdmitted(key, format, seq, cancelled)
        PROVE  ScopeInv'
    <2> DEFINE ended == Append(completed, key)
    <2>1. /\ ActiveKeys' = ActiveKeys \ {key}
          /\ completed' = TrimOldest(ended, CompletedLimit)
          /\ key \in ActiveKeys
      BY <1>6 DEF EndAdmitted, ActiveKeys, Known
    <2>2. /\ IsFiniteSet(ActiveKeys')
          /\ Cardinality(ActiveKeys') <= MaxActive
      <3>1. /\ IsFiniteSet(ActiveKeys)
            /\ Cardinality(ActiveKeys) \in Nat
            /\ Cardinality(ActiveKeys) <= MaxActive
        BY FS_CardinalityType DEF ScopeInv, ScopeIsolation
      <3>2. /\ IsFiniteSet(ActiveKeys \ {key})
            /\ Cardinality(ActiveKeys \ {key}) = Cardinality(ActiveKeys) - 1
        BY <2>1, <3>1, FS_RemoveElement
      <3>. QED  BY <2>1, <3>1, <3>2, ScopeAssumption
    <2>3. ended \in Seq(Keys)
      BY DEF TypeOK
    <2>4. /\ completed' \in Seq(Keys)
          /\ Len(completed') <= Len(ended)
          /\ Len(completed') <= CompletedLimit
          /\ \A i \in 1 .. Len(completed') :
                completed'[i] = ended[Len(ended) - Len(completed') + i]
      <3>. HIDE DEF ended
      <3>. QED  BY <2>1, <2>3, ScopeAssumption, TrimOldestKeepsSuffix
    <2>5. CompletedKeys' \subseteq CompletedKeys \cup {key}
      <3> SUFFICES ASSUME NEW i \in 1 .. Len(completed')
                   PROVE  completed'[i] \in CompletedKeys \cup {key}
        BY <2>4 DEF CompletedKeys
      <3> DEFINE j == Len(ended) - Len(completed') + i
      <3>1. j \in 1 .. Len(ended) /\ completed'[i] = ended[j]
        BY <2>3, <2>4
      <3>2. Len(ended) = Len(completed) + 1 /\ completed \in Seq(Keys)
        BY DEF TypeOK
      <3>3. CASE j = Len(ended)
        BY <3>1, <3>2, <3>3
      <3>4. CASE j < Len(ended)
        <4>1. j \in 1 .. Len(completed) /\ ended[j] = completed[j]
          BY <3>1, <3>2, <3>4
        <4>. QED  BY <3>1, <3>2, <4>1 DEF CompletedKeys
      <3>. QED  BY <2>3, <3>1, <3>3, <3>4
    <2>6. ActiveKeys' \cap CompletedKeys' = {}
      BY <2>1, <2>5 DEF ScopeInv, ScopeIsolation
    <2>. QED
      BY <2>1, <2>2, <2>4, <2>6 DEF ScopeInv, ScopeIsolation
  <1>. QED
    BY <1>1, <1>2, <1>3, <1>4, <1>5, <1>6 DEF Next, Start, AudioChunk, End

\* A call is carried by at most one active stream and a provider stream by at
\* most one call, in every reachable state, whatever the limits.
THEOREM ScopesStayApart == Spec => []ScopeIsolation
  <1>1. Init => TypeOK /\ ScopeInv
    BY InitType, InitScopes
  <1>2. TypeOK /\ ScopeInv /\ [Next]_vars => (TypeOK /\ ScopeInv)'
    BY NextType, NextScopes
  <1>3. ScopeInv => ScopeIsolation
    BY DEF ScopeInv
  <1>. QED  BY <1>1, <1>2, <1>3, PTL DEF Spec

-----------------------------------------------------------------------------
(* The account each stream keeps of its audio. *)

AccountInv ==
    /\ \A key \in Keys : Contiguous(timeline[key])
    /\ \A key \in ActiveKeys :
          Faithful(active[key], timeline[key], delivered[key])

\* An answer that keeps the audio of the record, and both histories.
LEMMA AnswerAccount ==
    ASSUME TypeOK, AccountInv, NEW key \in ActiveKeys, NEW reason, NEW s,
           Answer(key, reason, s), UNCHANGED <<timeline, delivered>>,
           s.nextSeq = active[key].nextSeq,
           s.nextStart = active[key].nextStart,
           s.queue = active[key].queue,
           s.fingerprints = active[key].fingerprints
    PROVE  AccountInv'
  <1>1. /\ ActiveKeys' = ActiveKeys
        /\ active'[key] = s
        /\ \A k \in ActiveKeys \ {key} : active'[k] = active[k]
    BY DEF Answer, TypeOK, ActiveKeys
  <1>2. Faithful(s, timeline[key], delivered[key])
    BY FaithfulCongruence DEF AccountInv
  <1>. QED  BY <1>1, <1>2 DEF AccountInv

\* Initially there is nothing to account for.
LEMMA InitAccount == Init => AccountInv
  BY DEF Init, AccountInv, ActiveKeys, Contiguous

\* Every step keeps every account: an admitted chunk enters queue, window and
\* timeline together, a drained one leaves the queue and is counted, a START
\* opens an empty account, and a refusal touches counters only.
LEMMA NextAccount == TypeOK /\ AccountInv /\ [Next]_vars => AccountInv'
  <1> SUFFICES ASSUME TypeOK, AccountInv, [Next]_vars PROVE AccountInv'
    OBVIOUS
  <1> USE ScopeAssumption
  <1>1. CASE UNCHANGED vars
    BY <1>1 DEF vars, ActiveKeys, AccountInv
  <1>2. CASE ForeignEvent \/ DrainNothing
    BY <1>2 DEF ForeignEvent, DrainNothing, Refuse, ActiveKeys, AccountInv
  <1>3. ASSUME NEW key \in Keys,
               \/ StartRefused(key)
               \/ \E isEnd \in BOOLEAN : NoStream(key, isEnd)
        PROVE  AccountInv'
    BY <1>3 DEF StartRefused, NoStream, Refuse, ActiveKeys, AccountInv
  <1>4. ASSUME NEW key \in Keys, NEW format \in Formats,
               NEW seq \in SequenceNumbers, StartAdmitted(key, format, seq)
        PROVE  AccountInv'
    <2>1. /\ ActiveKeys' = ActiveKeys \cup {key}
          /\ active'[key] = NewStream(format, seq)
          /\ \A k \in ActiveKeys : active'[k] = active[k]
          /\ key \notin ActiveKeys
      BY <1>4 DEF StartAdmitted, ActiveKeys
    <2>2. /\ timeline'[key] = <<>> /\ delivered'[key] = 0
          /\ \A k \in Keys \ {key} : /\ timeline'[k] = timeline[k]
                                     /\ delivered'[k] = delivered[k]
      BY <1>4 DEF StartAdmitted, TypeOK
    <2>3. Faithful(NewStream(format, seq), <<>>, 0)
      BY NewStreamIsFaithful
    <2>4. Contiguous(<<>>)
      BY <2>3 DEF Faithful
    <2>5. ActiveKeys \subseteq Keys
      BY DEF TypeOK
    <2>. QED  BY <2>1, <2>2, <2>3, <2>4, <2>5 DEF AccountInv
  <1>5. ASSUME NEW key \in Keys, NEW format \in Formats, NEW isEnd \in BOOLEAN,
               FormatMismatch(key, format, isEnd)
        PROVE  AccountInv'
    <2> DEFINE s == IF isEnd THEN active[key] ELSE CountRejected(active[key])
    <2>1. /\ key \in ActiveKeys /\ active[key] \in StreamState
          /\ Answer(key, "format_mismatch", s)
          /\ UNCHANGED <<timeline, delivered>>
      BY <1>5 DEF FormatMismatch, Known, TypeOK
    <2>2. /\ s.nextSeq = active[key].nextSeq
          /\ s.nextStart = active[key].nextStart
          /\ s.queue = active[key].queue
          /\ s.fingerprints = active[key].fingerprints
      BY <2>1, CountersOnly
    <2>. HIDE DEF s
    <2>. QED  BY <2>1, <2>2, AnswerAccount
  <1>6. ASSUME NEW key \in Keys, NEW format \in Formats,
               NEW seq \in SequenceNumbers, EndRefused(key, format, seq)
        PROVE  AccountInv'
    <2> DEFINE reason == EndReason(active[key], seq)
               s == IF reason = "sequence_gap"
                    THEN [active[key] EXCEPT !.gaps = @ + 1]
                    ELSE active[key]
    <2>1. /\ key \in ActiveKeys /\ active[key] \in StreamState
          /\ Answer(key, reason, s)
          /\ UNCHANGED <<timeline, delivered>>
      BY <1>6 DEF EndRefused, Known, TypeOK
    <2>2. /\ s.nextSeq = active[key].nextSeq
          /\ s.nextStart = active[key].nextStart
          /\ s.queue = active[key].queue
          /\ s.fingerprints = active[key].fingerprints
      BY <2>1, EndGapOnly
    <2>. HIDE DEF s, reason
    <2>. QED  BY <2>1, <2>2, AnswerAccount
  <1>7. ASSUME NEW key \in Keys, NEW format \in Formats,
               NEW seq \in SequenceNumbers, NEW payload \in Payloads,
               Audio(key, format, seq, payload)
        PROVE  AccountInv'
    <2> DEFINE s == active[key]
               reason == AudioReason(s, seq, payload)
               after == AfterAudio(s, seq, payload)
               chunk == NextChunk(s, payload)
    <2>1. /\ key \in ActiveKeys /\ s \in StreamState /\ seq \in Nat
          /\ timeline[key] \in Seq(Chunk) /\ delivered[key] \in Nat
          /\ Faithful(s, timeline[key], delivered[key])
      BY <1>7 DEF Audio, Known, TypeOK, AccountInv
    <2>2. /\ Answer(key, reason, after) /\ delivered' = delivered
          /\ timeline' = IF reason = "frame_accepted"
                         THEN [timeline EXCEPT ![key] = Append(@, chunk)]
                         ELSE timeline
      BY <1>7 DEF Audio
    <2>3. CASE reason = "frame_accepted"
      <3>1. after = Admit(s, payload)
        BY <2>1, <2>3, AfterAudioCases DEF AfterAudio
      <3>2. Faithful(after, Append(timeline[key], chunk), delivered[key])
        BY <2>1, <3>1, AdmitIsFaithful
      <3>3. Contiguous(Append(timeline[key], chunk))
        BY <3>2 DEF Faithful
      <3>. HIDE DEF reason, after, chunk
      <3>4. /\ ActiveKeys' = ActiveKeys
            /\ active'[key] = after
            /\ \A k \in ActiveKeys \ {key} : active'[k] = active[k]
        BY <2>1, <2>2 DEF Answer, TypeOK, ActiveKeys
      <3>5. /\ timeline'[key] = Append(timeline[key], chunk)
            /\ \A k \in Keys \ {key} : timeline'[k] = timeline[k]
        BY <2>2, <2>3 DEF TypeOK
      <3>. HIDE DEF s
      <3>6. ActiveKeys \subseteq Keys
        BY DEF TypeOK
      <3>. QED  BY <2>2, <3>2, <3>3, <3>4, <3>5, <3>6 DEF AccountInv
    <2>4. CASE reason # "frame_accepted"
      <3>1. after \in {CountDuplicate(s), CountGap(s), CountRejected(s)}
        BY <2>1, <2>4, AfterAudioCases
      <3>2. /\ after.nextSeq = s.nextSeq
            /\ after.nextStart = s.nextStart
            /\ after.queue = s.queue
            /\ after.fingerprints = s.fingerprints
        BY <2>1, <3>1, CountersOnly
      <3>. HIDE DEF reason, after, chunk
      <3>. QED  BY <2>1, <2>2, <2>4, <3>2, AnswerAccount
    <2>. QED  BY <2>3, <2>4
  <1>8. ASSUME NEW key \in Keys, NEW format \in Formats,
               NEW seq \in SequenceNumbers, NEW cancelled \in BOOLEAN,
               EndAdmitted(key, format, seq, cancelled)
        PROVE  AccountInv'
    <2>1. /\ ActiveKeys' = ActiveKeys \ {key}
          /\ \A k \in ActiveKeys' : active'[k] = active[k]
          /\ UNCHANGED <<timeline, delivered>>
      BY <1>8 DEF EndAdmitted, ActiveKeys
    <2>. QED  BY <2>1 DEF AccountInv
  <1>9. ASSUME NEW key \in Keys, NEW limit \in 1 .. MaxQueue, Drain(key, limit)
        PROVE  AccountInv'
    <2> DEFINE s == active[key]
               waiting == Len(s.queue)
               n == IF limit < waiting THEN limit ELSE waiting
               after == AfterDrain(s, n)
    <2>1. /\ key \in ActiveKeys /\ s \in StreamState
          /\ timeline[key] \in Seq(Chunk) /\ delivered[key] \in Nat
          /\ Faithful(s, timeline[key], delivered[key])
      BY <1>9 DEF Drain, TypeOK, AccountInv
    <2>2. n \in 0 .. waiting
      BY <2>1, LimitAssumption DEF StreamState
    <2>3. /\ Answer(key, "drained", after)
          /\ delivered' = [delivered EXCEPT ![key] = @ + n]
          /\ timeline' = timeline
      BY <1>9 DEF Drain
    <2>. HIDE DEF n
    <2>4. Faithful(after, timeline[key], delivered[key] + n)
      BY <2>1, <2>2, AfterDrainIsFaithful
    <2>. HIDE DEF after
    <2>5. /\ ActiveKeys' = ActiveKeys
          /\ active'[key] = after
          /\ \A k \in ActiveKeys \ {key} : active'[k] = active[k]
      BY <2>1, <2>3 DEF Answer, TypeOK, ActiveKeys
    <2>6. /\ delivered'[key] = delivered[key] + n
          /\ \A k \in Keys \ {key} : delivered'[k] = delivered[k]
      BY <2>3 DEF TypeOK
    <2>. HIDE DEF s
    <2>7. ActiveKeys \subseteq Keys
      BY DEF TypeOK
    <2>. QED  BY <2>3, <2>4, <2>5, <2>6, <2>7 DEF AccountInv
  <1>. QED
    BY <1>1, <1>2, <1>3, <1>4, <1>5, <1>6, <1>7, <1>8, <1>9
    DEF Next, Start, AudioChunk, End

\* The inductive invariant behind the two theorems that follow.
LEMMA AccountsHold == Spec => []AccountInv
  <1>1. Init => TypeOK /\ AccountInv
    BY InitType, InitAccount
  <1>2. TypeOK /\ AccountInv /\ [Next]_vars => (TypeOK /\ AccountInv)'
    BY NextType, NextAccount
  <1>. QED  BY <1>1, <1>2, PTL DEF Spec

\* Admitted audio is one gap-free timeline, of which the consumer was handed
\* all but what is still queued, for any provider and any limits.
THEOREM TimelineIsKept == Spec => []AudioTimeline
  <1>1. AccountInv => AudioTimeline
    BY DEF AccountInv, AudioTimeline, Faithful
  <1>. QED  BY <1>1, AccountsHold, PTL

\* The duplicate window holds exactly the last admitted chunks, for any limit.
THEOREM WindowIsExact == Spec => []DuplicateWindow
  <1>1. AccountInv => DuplicateWindow
    BY DEF AccountInv, DuplicateWindow, Faithful
  <1>. QED  BY <1>1, AccountsHold, PTL

-----------------------------------------------------------------------------
(* A refused event moves no stream. *)

\* An answer about one stream that keeps the progress of its record.
LEMMA AnswerKeepsProgress ==
    ASSUME TypeOK, NEW key \in ActiveKeys, NEW reason, NEW s,
           Answer(key, reason, s), Progress(s) = Progress(active[key])
    PROVE  RefusalKeepsProgress
  <1>1. /\ ActiveKeys' = ActiveKeys /\ completed' = completed
        /\ active'[key] = s
        /\ \A k \in ActiveKeys \ {key} : active'[k] = active[k]
    BY DEF Answer, TypeOK, ActiveKeys
  <1>. QED  BY <1>1 DEF RefusalKeepsProgress

\* Whatever the provider sends out of order, twice, too fast or in the wrong
\* scope, every stream can go on with the chunk it expected before.
THEOREM RefusalsAreHarmless == Spec => RefusalIsHarmless
  <1>1. TypeOK /\ [Next]_vars => [RefusalKeepsProgress]_vars
    <2> SUFFICES ASSUME TypeOK, Next PROVE RefusalKeepsProgress
      OBVIOUS
    <2> USE ScopeAssumption
    <2>1. ASSUME NEW reason, Refuse(reason) PROVE RefusalKeepsProgress
      BY <2>1 DEF Refuse, RefusalKeepsProgress, ActiveKeys
    <2>2. CASE ForeignEvent \/ DrainNothing
      BY <2>1, <2>2 DEF ForeignEvent, DrainNothing
    <2>3. ASSUME NEW key \in Keys,
                 \/ StartRefused(key)
                 \/ \E isEnd \in BOOLEAN : NoStream(key, isEnd)
          PROVE  RefusalKeepsProgress
      BY <2>1, <2>3 DEF StartRefused, NoStream
    <2>4. ASSUME NEW key \in Keys,
                 \/ \E format \in Formats, seq \in SequenceNumbers :
                       StartAdmitted(key, format, seq)
                 \/ \E format \in Formats, seq \in SequenceNumbers,
                       cancelled \in BOOLEAN :
                       EndAdmitted(key, format, seq, cancelled)
                 \/ \E limit \in 1 .. MaxQueue : Drain(key, limit)
          PROVE  RefusalKeepsProgress
      BY <2>4 DEF StartAdmitted, EndAdmitted, Drain, Answer,
                  RefusalKeepsProgress, AcceptedReasons, CompletedReasons
    <2>5. ASSUME NEW key \in Keys, NEW format \in Formats,
                 NEW isEnd \in BOOLEAN, FormatMismatch(key, format, isEnd)
          PROVE  RefusalKeepsProgress
      <3> DEFINE s == IF isEnd THEN active[key] ELSE CountRejected(active[key])
      <3>1. /\ key \in ActiveKeys /\ active[key] \in StreamState
            /\ Answer(key, "format_mismatch", s)
        BY <2>5 DEF FormatMismatch, Known, TypeOK
      <3>2. Progress(s) = Progress(active[key])
        BY <3>1, CountersOnly DEF Progress
      <3>. HIDE DEF s
      <3>. QED  BY <3>1, <3>2, AnswerKeepsProgress
    <2>6. ASSUME NEW key \in Keys, NEW format \in Formats,
                 NEW seq \in SequenceNumbers, EndRefused(key, format, seq)
          PROVE  RefusalKeepsProgress
      <3> DEFINE reason == EndReason(active[key], seq)
                 s == IF reason = "sequence_gap"
                      THEN [active[key] EXCEPT !.gaps = @ + 1]
                      ELSE active[key]
      <3>1. /\ key \in ActiveKeys /\ active[key] \in StreamState
            /\ Answer(key, reason, s)
        BY <2>6 DEF EndRefused, Known, TypeOK
      <3>2. Progress(s) = Progress(active[key])
        BY <3>1, EndGapOnly DEF Progress
      <3>. HIDE DEF s, reason
      <3>. QED  BY <3>1, <3>2, AnswerKeepsProgress
    <2>7. ASSUME NEW key \in Keys, NEW format \in Formats,
                 NEW seq \in SequenceNumbers, NEW payload \in Payloads,
                 Audio(key, format, seq, payload)
          PROVE  RefusalKeepsProgress
      <3> DEFINE s == active[key]
                 reason == AudioReason(s, seq, payload)
                 after == AfterAudio(s, seq, payload)
      <3>1. /\ key \in ActiveKeys /\ s \in StreamState /\ seq \in Nat
            /\ Answer(key, reason, after)
        BY <2>7 DEF Audio, Known, TypeOK
      <3>2. CASE reason = "frame_accepted"
        BY <3>1, <3>2 DEF Answer, RefusalKeepsProgress, AcceptedReasons
      <3>3. CASE reason # "frame_accepted"
        <4>1. after \in {CountDuplicate(s), CountGap(s), CountRejected(s)}
          BY <3>1, <3>3, AfterAudioCases
        <4>2. Progress(after) = Progress(s)
          BY <3>1, <4>1, CountersOnly DEF Progress
        <4>. HIDE DEF reason, after
        <4>. QED  BY <3>1, <4>2, AnswerKeepsProgress
      <3>. QED  BY <3>2, <3>3
    <2>. QED
      BY <2>2, <2>3, <2>4, <2>5, <2>6, <2>7 DEF Next, Start, AudioChunk, End
  <1>2. Spec => []TypeOK
    BY TypeCorrect
  <1>. QED  BY <1>1, <1>2, PTL DEF Spec, RefusalIsHarmless

-----------------------------------------------------------------------------
(* Refinement of CallAudioDelivery, stream by stream. *)

\* What a stream's delivery is made of stays the same.
Still(key) == /\ Phase(key)' = Phase(key)
              /\ timeline'[key] = timeline[key]
              /\ delivered'[key] = delivered[key]

\* Then the abstract delivery stutters.
LEMMA StillStutters ==
    ASSUME NEW key \in Keys, Still(key)
    PROVE  [Delivery(key)!Next]_(Delivery(key)!vars)
  BY DEF Still, Delivery!vars

\* Tables that stay as they are keep every phase.
LEMMA PhaseCongruence ==
    ASSUME ActiveKeys' = ActiveKeys, completed' = completed, NEW key
    PROVE  Phase(key)' = Phase(key)
  BY DEF Phase, CompletedKeys

\* The phases of active, ended and unknown keys.
LEMMA PhaseCases ==
    ASSUME ScopeInv, NEW key
    PROVE  /\ key \in ActiveKeys => Phase(key) = "open"
           /\ key \in CompletedKeys => Phase(key) = "closed"
           /\ key \notin ActiveKeys \cup CompletedKeys => Phase(key) = "unknown"
  <1>1. ~(key \in ActiveKeys /\ key \in CompletedKeys)
    BY DEF ScopeInv, ScopeIsolation
  <1>. QED  BY <1>1 DEF Phase

\* The initial state maps to initial states of the abstract delivery.
LEMMA InitDelivers == Init => \A key \in Keys : Delivery(key)!Init
  <1> SUFFICES ASSUME Init, NEW key \in Keys PROVE Delivery(key)!Init
    OBVIOUS
  <1>1. key \notin ActiveKeys \cup CompletedKeys
    BY DEF Init, ActiveKeys, CompletedKeys
  <1>2. Phase(key) = "unknown"
    BY <1>1, InitScopes, PhaseCases
  <1>. QED  BY <1>2 DEF Init, Delivery!Init

\* Every step is, for every stream, a step of the abstract delivery or none.
LEMMA NextDelivers ==
    ASSUME TypeOK, ScopeInv, ScopeInv', AccountInv, AccountInv', Next
    PROVE  DeliveryStep
  <1> USE ScopeAssumption
  <1>1. ASSUME NEW key \in Keys, UNCHANGED <<timeline, delivered>>,
               ActiveKeys' = ActiveKeys, completed' = completed
        PROVE  Still(key)
    BY <1>1, PhaseCongruence DEF Still
  <1>2. ASSUME UNCHANGED <<timeline, delivered>>,
               ActiveKeys' = ActiveKeys, completed' = completed
        PROVE  DeliveryStep
    BY <1>1, <1>2, StillStutters DEF DeliveryStep
  <1>3. CASE ForeignEvent \/ DrainNothing
    BY <1>2, <1>3 DEF ForeignEvent, DrainNothing, Refuse, ActiveKeys
  <1>4. ASSUME NEW key \in Keys,
               \/ StartRefused(key)
               \/ \E isEnd \in BOOLEAN : NoStream(key, isEnd)
        PROVE  DeliveryStep
    BY <1>2, <1>4 DEF StartRefused, NoStream, Refuse, ActiveKeys
  <1>5. ASSUME NEW key \in Keys,
               \/ \E format \in Formats, isEnd \in BOOLEAN :
                     FormatMismatch(key, format, isEnd)
               \/ \E format \in Formats, seq \in SequenceNumbers :
                     EndRefused(key, format, seq)
        PROVE  DeliveryStep
    BY <1>2, <1>5, AnswerScopes DEF FormatMismatch, EndRefused
  <1>6. ASSUME NEW key \in Keys, NEW format \in Formats,
               NEW seq \in SequenceNumbers, StartAdmitted(key, format, seq)
        PROVE  DeliveryStep
    <2>1. /\ ActiveKeys' = ActiveKeys \cup {key}
          /\ CompletedKeys' = CompletedKeys
          /\ key \notin ActiveKeys \cup CompletedKeys
          /\ timeline'[key] = <<>> /\ delivered'[key] = 0
          /\ \A k \in Keys \ {key} : /\ timeline'[k] = timeline[k]
                                     /\ delivered'[k] = delivered[k]
      BY <1>6 DEF StartAdmitted, TypeOK, ActiveKeys, CompletedKeys
    <2>2. Delivery(key)!Open
      <3>1. Phase(key) = "unknown"
        BY <2>1, PhaseCases
      <3>2. Phase(key)' = "open"
        BY <2>1 DEF Phase
      <3>3. Delivery(key)!GapFree(timeline'[key])
        BY <2>1 DEF Delivery!GapFree
      <3>. QED  BY <2>1, <3>1, <3>2, <3>3 DEF Delivery!Open
    <2>3. ASSUME NEW k \in Keys \ {key} PROVE Still(k)
      BY <2>1, <2>3 DEF Still, Phase
    <2>. QED  BY <2>2, <2>3, StillStutters DEF DeliveryStep, Delivery!Next
  <1>7. ASSUME NEW key \in Keys, NEW format \in Formats,
               NEW seq \in SequenceNumbers, NEW payload \in Payloads,
               Audio(key, format, seq, payload)
        PROVE  DeliveryStep
    <2> DEFINE s == active[key]
               reason == AudioReason(s, seq, payload)
               chunk == NextChunk(s, payload)
    <2>1. /\ key \in ActiveKeys /\ s \in StreamState
          /\ timeline[key] \in Seq(Chunk)
          /\ ActiveKeys' = ActiveKeys /\ completed' = completed
          /\ delivered' = delivered
          /\ timeline' = IF reason = "frame_accepted"
                         THEN [timeline EXCEPT ![key] = Append(@, chunk)]
                         ELSE timeline
      BY <1>7, AnswerScopes DEF Audio, Known, TypeOK
    <2>2. chunk \in Chunk
      BY <2>1, AdmitType
    <2>. HIDE DEF reason, chunk, s
    <2>3. CASE reason = "frame_accepted"
      <3>1. /\ timeline'[key] = Append(timeline[key], chunk)
            /\ \A k \in Keys \ {key} : timeline'[k] = timeline[k]
        BY <2>1, <2>3 DEF TypeOK
      <3>2. ASSUME NEW k \in Keys \ {key} PROVE Still(k)
        BY <2>1, <3>1, PhaseCongruence DEF Still
      <3>3. Delivery(key)!Admit
        <4>1. Phase(key) = "open" /\ Phase(key)' = "open"
          BY <2>1, PhaseCases, PhaseCongruence
        <4>2. Delivery(key)!Extends(timeline'[key], timeline[key])
          BY <2>1, <2>2, <3>1 DEF Delivery!Extends
        <4>3. Delivery(key)!GapFree(timeline'[key])
          BY DEF AccountInv, Contiguous, Delivery!GapFree, Delivery!Follows
        <4>. QED  BY <2>1, <4>1, <4>2, <4>3 DEF Delivery!Admit
      <3>. QED  BY <3>2, <3>3, StillStutters DEF DeliveryStep, Delivery!Next
    <2>4. CASE reason # "frame_accepted"
      BY <1>2, <2>1, <2>4
    <2>. QED  BY <2>3, <2>4
  <1>8. ASSUME NEW key \in Keys, NEW format \in Formats,
               NEW seq \in SequenceNumbers, NEW cancelled \in BOOLEAN,
               EndAdmitted(key, format, seq, cancelled)
        PROVE  DeliveryStep
    <2> DEFINE ended == Append(completed, key)
    <2>1. /\ ActiveKeys' = ActiveKeys \ {key} /\ key \in ActiveKeys
          /\ UNCHANGED <<timeline, delivered>>
          /\ completed' = TrimOldest(ended, CompletedLimit)
      BY <1>8 DEF EndAdmitted, ActiveKeys, Known
    <2>2. ended \in Seq(Keys)
      BY DEF TypeOK
    <2>3. /\ completed \in Seq(Keys)
          /\ Len(ended) = Len(completed) + 1 /\ ended[Len(ended)] = key
          /\ \A i \in 1 .. Len(completed) : ended[i] = completed[i]
      BY DEF TypeOK
    <2>. HIDE DEF ended
    <2>4. /\ completed' \in Seq(Keys)
          /\ Len(completed') \in 1 .. Len(ended)
          /\ \A i \in 1 .. Len(completed') :
                completed'[i] = ended[Len(ended) - Len(completed') + i]
      <3>1. /\ completed' \in Seq(Keys)
            /\ Len(completed') = IF Len(ended) > CompletedLimit
                                 THEN CompletedLimit ELSE Len(ended)
            /\ \A i \in 1 .. Len(completed') :
                  completed'[i] = ended[Len(ended) - Len(completed') + i]
        BY <2>1, <2>2, ScopeAssumption, TrimOldestKeepsSuffix
      <3>2. Len(ended) \in Nat \ {0} /\ CompletedLimit \in Nat \ {0}
        BY <2>2, ScopeAssumption, <2>3
      <3>3. Len(completed') \in 1 .. Len(ended)
        <4>1. CASE Len(ended) > CompletedLimit
          BY <3>1, <3>2, <4>1
        <4>2. CASE ~(Len(ended) > CompletedLimit)
          BY <3>1, <3>2, <4>2
        <4>. QED  BY <4>1, <4>2
      <3>. QED  BY <3>1, <3>3
    <2>5. key \in CompletedKeys'
      <3>1. completed'[Len(completed')] = key
        BY <2>2, <2>3, <2>4
      <3>. QED  BY <2>4, <3>1 DEF CompletedKeys
    <2>6. CompletedKeys' \subseteq CompletedKeys \cup {key}
      <3> SUFFICES ASSUME NEW i \in 1 .. Len(completed')
                   PROVE  completed'[i] \in CompletedKeys \cup {key}
        BY <2>4 DEF CompletedKeys
      <3> DEFINE j == Len(ended) - Len(completed') + i
      <3>1. j \in 1 .. Len(ended) /\ completed'[i] = ended[j]
        BY <2>2, <2>3, <2>4
      <3>2. CASE j = Len(ended)
        BY <2>2, <2>3, <3>1, <3>2
      <3>3. CASE j < Len(ended)
        <4>1. j \in 1 .. Len(completed) /\ ended[j] = completed[j]
          BY <2>2, <2>3, <3>1, <3>3
        <4>. QED  BY <2>2, <2>3, <3>1, <4>1 DEF CompletedKeys
      <3>. QED  BY <2>2, <2>3, <3>1, <3>2, <3>3
    <2>7. Delivery(key)!Close
      <3>1. Phase(key) = "open"
        BY <2>1, PhaseCases
      <3>2. Phase(key)' = "closed"
        BY <2>1, <2>5 DEF Phase
      <3>. QED  BY <2>1, <3>1, <3>2 DEF Delivery!Close
    <2>8. ASSUME NEW k \in Keys \ {key}
          PROVE  Still(k) \/ Delivery(k)!Forget
      <3>0. /\ timeline'[k] = timeline[k] /\ delivered'[k] = delivered[k]
            /\ k \in ActiveKeys' <=> k \in ActiveKeys
            /\ k \in CompletedKeys' => k \in CompletedKeys
            /\ k \in ActiveKeys => k \notin CompletedKeys \cup CompletedKeys'
        BY <2>1, <2>6, <2>8 DEF ScopeInv, ScopeIsolation
      <3>1. CASE k \in ActiveKeys
        <4>1. Phase(k) = "open" /\ Phase(k)' = "open"
          BY <3>0, <3>1 DEF Phase
        <4>. QED  BY <3>0, <4>1 DEF Still
      <3>2. CASE k \notin ActiveKeys /\ k \in CompletedKeys'
        <4>1. Phase(k) = "closed" /\ Phase(k)' = "closed"
          BY <3>0, <3>2 DEF Phase
        <4>. QED  BY <3>0, <4>1 DEF Still
      <3>3. CASE k \notin ActiveKeys \cup CompletedKeys
        <4>1. Phase(k) = "unknown" /\ Phase(k)' = "unknown"
          BY <3>0, <3>3 DEF Phase
        <4>. QED  BY <3>0, <4>1 DEF Still
      <3>4. CASE /\ k \notin ActiveKeys /\ k \in CompletedKeys
                 /\ k \notin CompletedKeys'
        <4>1. Phase(k) = "closed" /\ Phase(k)' = "unknown"
          BY <3>0, <3>4 DEF Phase
        <4>. QED  BY <2>1, <4>1 DEF Delivery!Forget
      <3>. QED  BY <3>1, <3>2, <3>3, <3>4
    <2>. QED  BY <2>7, <2>8, StillStutters DEF DeliveryStep, Delivery!Next
  <1>9. ASSUME NEW key \in Keys, NEW limit \in 1 .. MaxQueue, Drain(key, limit)
        PROVE  DeliveryStep
    <2> DEFINE s == active[key]
               waiting == Len(s.queue)
               n == IF limit < waiting THEN limit ELSE waiting
    <2>1. /\ key \in ActiveKeys /\ s \in StreamState
          /\ delivered[key] \in Nat
          /\ waiting + delivered[key] = Len(timeline[key])
      BY <1>9 DEF Drain, TypeOK, AccountInv, Faithful, QueueIsRest
    <2>2. n \in 0 .. waiting /\ waiting \in Nat
      BY <2>1, LimitAssumption DEF StreamState
    <2>3. /\ ActiveKeys' = ActiveKeys /\ completed' = completed
          /\ delivered' = [delivered EXCEPT ![key] = @ + n]
          /\ timeline' = timeline
      BY <1>9, AnswerScopes DEF Drain
    <2>. HIDE DEF n, waiting, s
    <2>4. /\ delivered'[key] = delivered[key] + n
          /\ \A k \in Keys \ {key} : delivered'[k] = delivered[k]
      BY <2>3 DEF TypeOK
    <2>5. ASSUME NEW k \in Keys \ {key} PROVE Still(k)
      BY <2>3, <2>4, PhaseCongruence DEF Still
    <2>6. Delivery(key)!Deliver
      <3>1. Phase(key) = "open" /\ Phase(key)' = Phase(key)
        BY <2>1, <2>3, PhaseCases, PhaseCongruence
      <3>2. delivered'[key] \in delivered[key] .. Len(timeline[key])
        BY <2>1, <2>2, <2>4
      <3>. QED  BY <2>3, <3>1, <3>2 DEF Delivery!Deliver
    <2>. QED  BY <2>5, <2>6, StillStutters DEF DeliveryStep, Delivery!Next
  <1>. QED
    BY <1>3, <1>4, <1>5, <1>6, <1>7, <1>8, <1>9 DEF Next, Start, AudioChunk, End

\* The boundary implements the delivery promise of every stream at once, with
\* competing scopes, evictions and refusals, for any limits.
THEOREM EveryStreamDelivers == Spec => DeliversEveryStream
  <1>1. Init => TypeOK /\ ScopeInv /\ AccountInv
    BY InitType, InitScopes, InitAccount
  <1>2. TypeOK /\ ScopeInv /\ AccountInv /\ [Next]_vars
           => (TypeOK /\ ScopeInv /\ AccountInv)'
    BY NextType, NextScopes, NextAccount
  <1>3. TypeOK /\ ScopeInv /\ AccountInv /\ (ScopeInv /\ AccountInv)'
           /\ [Next]_vars => [DeliveryStep]_vars
    <2> SUFFICES ASSUME TypeOK, ScopeInv, AccountInv, ScopeInv', AccountInv',
                        Next
                 PROVE  DeliveryStep
      OBVIOUS
    <2>. QED  BY NextDelivers
  <1>. QED  BY <1>1, <1>2, <1>3, InitDelivers, PTL DEF Spec, DeliversEveryStream

=============================================================================
