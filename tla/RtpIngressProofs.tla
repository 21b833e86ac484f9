--------------------------- MODULE RtpIngressProofs ---------------------------
(***************************************************************************)
(* Proofs about RtpIngress: every packet is placed by its number across    *)
(* the wraps of the number space, every position is accounted for, and     *)
(* each source delivers its audio as CallAudioDelivery promises.           *)
(***************************************************************************)
EXTENDS RtpIngress, FiniteSetTheorems, WellFoundedInduction, TLAPS

-----------------------------------------------------------------------------
(* Natural numbers and remainders. *)

\* A set of natural numbers that is not empty has a least element.
LEMMA LeastNumber ==
    ASSUME NEW T \in SUBSET Nat, T # {}
    PROVE  \E x \in T : \A y \in T : x <= y
  <1> DEFINE Less == OpToRel(<, Nat)
  <1>1. \A x, y \in Nat : y < x => <<y, x>> \in Less
    BY DEF OpToRel
  <1>2. IsWellFoundedOn(Less, Nat)
    BY NatLessThanWellFounded
  <1> HIDE DEF Less
  <1>3. PICK x \in T : \A y \in T : ~ (<<y, x>> \in Less)
    BY <1>2, WFMin, Zenon
  <1>4. ASSUME NEW y \in T PROVE x <= y
    <2>1. x \in Nat /\ y \in Nat
      OBVIOUS
    <2>2. ~ (y < x)
      BY <1>1, <1>3, <2>1, Zenon
    <2>. QED  BY <2>1, <2>2
  <1>. QED  BY <1>4

\* Induction, stated of sets: a set that holds 0 and with every number the
\* next one holds them all.
LEMMA Induction ==
    ASSUME NEW A \in SUBSET Nat, 0 \in A, \A n \in A : n + 1 \in A
    PROVE  A = Nat
  <1> SUFFICES ASSUME Nat \ A # {} PROVE FALSE
    OBVIOUS
  <1>1. PICK x \in Nat \ A : \A y \in Nat \ A : x <= y
    BY LeastNumber
  <1>2. x # 0 /\ x - 1 \in Nat /\ x - 1 \in A
    BY <1>1
  <1>. QED  BY <1>1, <1>2

\* Least picks such an element.
LEMMA LeastOf ==
    ASSUME NEW T \in SUBSET Nat, T # {}
    PROVE  Least(T) \in T /\ \A y \in T : Least(T) <= y
  BY LeastNumber DEF Least

\* Division with remainder.
LEMMA Division ==
    ASSUME NEW a \in Int, NEW m \in Nat \ {0}
    PROVE  /\ a \div m \in Int /\ a % m \in 0 .. m - 1
           /\ a = m * (a \div m) + (a % m)
  OBVIOUS

\* Only the multiple 0 lies within a lap of 0.
LEMMA Multiples ==
    ASSUME NEW m \in Nat \ {0}, NEW k \in Int, -m < m * k, m * k < m
    PROVE  k = 0
  <1>1. k >= 1 => m * k >= m
    BY SMT
  <1>2. k <= -1 => m * k <= -m
    BY SMT
  <1>. QED  BY <1>1, <1>2

\* Quotient and remainder are unique.
LEMMA Remainder ==
    ASSUME NEW m \in Nat \ {0}, NEW q \in Int, NEW r \in 0 .. m - 1
    PROVE  (m * q + r) % m = r /\ (m * q + r) \div m = q
  <1> DEFINE a == m * q + r
  <1>1. a \in Int /\ a \div m \in Int /\ a % m \in 0 .. m - 1
        /\ a = m * (a \div m) + (a % m)
    BY Division
  <1>2. m * (a \div m) - m * q = m * ((a \div m) - q)
    BY <1>1
  <1>3. (a \div m) - q = 0
    <2> HIDE DEF a
    <2>1. m * q \in Int /\ m * (a \div m) \in Int
      BY <1>1
    <2>2. r - (a % m) = m * ((a \div m) - q)
      BY <1>1, <1>2, <2>1 DEF a
    <2>. QED  BY <1>1, <2>2, Multiples
  <1>. QED  BY <1>1, <1>3

\* A number that differs by a multiple of m has the same remainder.
LEMMA Shifted ==
    ASSUME NEW m \in Nat \ {0}, NEW a \in Int, NEW k \in Int
    PROVE  (a + m * k) % m = a % m
  <1>1. PICK q \in Int, r \in 0 .. m - 1 : r = a % m /\ a = m * q + r
    BY Division
  <1>2. a + m * k = m * (q + k) + r
    BY <1>1, m * (q + k) = m * q + m * k
  <1>3. (m * (q + k) + r) % m = r
    <2>1. q + k \in Int
      OBVIOUS
    <2>. QED  BY <2>1, Remainder
  <1>. QED  BY <1>1, <1>2, <1>3

\* A remainder may be taken before or after adding.
LEMMA SumOfRemainder ==
    ASSUME NEW m \in Nat \ {0}, NEW a \in Int, NEW b \in Int
    PROVE  ((a % m) + b) % m = (a + b) % m
  <1>1. PICK q \in Int, r \in 0 .. m - 1 : r = a % m /\ a = m * q + r
    BY Division
  <1>2. (r + b + m * q) % m = (r + b) % m
    <2>1. r + b \in Int
      OBVIOUS
    <2>. QED  BY <2>1, Shifted
  <1>3. r + b + m * q = a + b
    BY <1>1
  <1>. QED  BY <1>1, <1>2, <1>3

\* Differences of remainders tell the difference of the numbers.
LEMMA DifferenceOfRemainders ==
    ASSUME NEW m \in Nat \ {0}, NEW a \in Int, NEW b \in Int
    PROVE  ((a % m) - (b % m)) % m = (a - b) % m
  <1>1. PICK q \in Int, r \in 0 .. m - 1 : r = a % m /\ a = m * q + r
    BY Division
  <1>2. PICK p \in Int, s \in 0 .. m - 1 : s = b % m /\ b = m * p + s
    BY Division
  <1>3. (r - s + m * (q - p)) % m = (r - s) % m
    <2>1. r - s \in Int /\ q - p \in Int
      OBVIOUS
    <2>. QED  BY <2>1, Shifted
  <1>4. r - s + m * (q - p) = a - b
    BY <1>1, <1>2, m * (q - p) = m * q - m * p
  <1>. QED  BY <1>1, <1>2, <1>3, <1>4

\* Within one lap the remainder tells ahead from behind.
LEMMA WithinOneLap ==
    ASSUME NEW m \in Nat \ {0}, NEW d \in Int, -m <= d, d < m
    PROVE  d % m = IF d >= 0 THEN d ELSE d + m
  <1>1. CASE d >= 0
    <2>1. (m * 0 + d) % m = d
      BY <1>1, Remainder
    <2>. QED  BY <1>1, <2>1
  <1>2. CASE d < 0
    <2>1. (m * (-1) + (d + m)) % m = d + m
      BY <1>2, Remainder
    <2>2. m * (-1) + (d + m) = d
      OBVIOUS
    <2>. QED  BY <1>2, <2>1, <2>2
  <1>. QED  BY <1>1, <1>2

\* Products grow with their factors.
LEMMA Monotone ==
    ASSUME NEW j \in Nat, NEW k \in Nat, NEW n \in Nat, j <= k
    PROVE  j * n <= k * n /\ j * n \in Nat /\ k * n \in Nat
  OBVIOUS

\* Multiplication distributes, for cases in which the provers need telling.
LEMMA Distributes ==
    ASSUME NEW j \in Int, NEW k \in Int, NEW n \in Int
    PROVE  (j + k) * n = j * n + k * n /\ (j - k) * n = j * n - k * n
           /\ j * n \in Int /\ k * n \in Int
  OBVIOUS

\* Two numbers that differ alike are moved alike.
LEMMA SameDifference ==
    ASSUME NEW a \in Int, NEW b \in Int, NEW c \in Int, NEW d \in Int, NEW i \in Int,
           b - d = a - c
    PROVE  d - b + (a + i) = c + i
  OBVIOUS

\* The length of a sequence is a number.
LEMMA LengthType ==
    ASSUME NEW S, NEW q \in Seq(S)
    PROVE  Len(q) \in Nat
  OBVIOUS
-----------------------------------------------------------------------------
(* The inductive invariant. *)

\* The k-th chunk of a source before its last one.
FullChunk(k) == [seq     |-> k - 1,
                 payload |-> ChunkSamples,
                 start   |-> (k - 1) * ChunkSamples]

\* The expected number and timestamp are those of the playout position.
Placed(s) ==
    /\ s.expected = (FirstSequence + s.position) % Modulus
    /\ s.timestamp = AdvanceTimestamp(FirstTimestamp, s.position * PacketSamples)

\* What is buffered lies in the reorder window, one packet for each position.
Windowed(s) ==
    /\ \A p \in s.buffer : p.index \in s.position .. s.position + MaxReorder
    /\ \A p, q \in s.buffer : p.index = q.index => p = q
    /\ s.buffer \subseteq Remembered(s)

\* How far the source may have come since an entry of the history was taken:
\* every younger entry moved it by at most a window.  A history that is over
\* its limit holds nothing but what was just in the buffer.
Younger(s, e) == {f \in s.prints : f.order > e.order}

Reach(s, e) ==
    e.packet.index + MaxReorder
        + (IF Cardinality(s.prints) > HistoryLimit THEN 0
           ELSE Cardinality(Younger(s, e)) * (MaxReorder + 1))

\* The history is in order of arrival and stays within reach.
Near(s) ==
    /\ IsFiniteSet(s.prints)
    /\ \A e \in s.prints : e.order <= s.accepted
    /\ \A e, f \in s.prints : e.order = f.order => e = f
    /\ \A e \in s.prints :
          /\ e.packet.index <= s.position + MaxReorder
          /\ s.position - 1 <= Reach(s, e)
          /\ \A p \in s.buffer : p.index <= Reach(s, e)

\* Every position is accounted for, and so is every sample.
Counted(s) ==
    /\ s.position = s.accepted - Cardinality(s.buffer) + s.missing
    /\ s.emitted + s.pcm = s.position * PacketSamples

\* The queue holds the youngest of the full chunks cut so far.
Cut(s) ==
    /\ s.emitted = s.chunks * ChunkSamples
    /\ Len(s.queue) <= MaxOutput
    /\ Len(s.queue) <= s.chunks
    /\ \A i \in DOMAIN s.queue :
          s.queue[i] = FullChunk(s.chunks - Len(s.queue) + i)

\* The gap's clock runs exactly while something waits.
Clocked(s) == s.buffer = {} <=> s.gap = NoGap

\* What holds of the record of an active source, also between two turns of
\* the gap loop ...
Sound(s) ==
    s \in Source /\ Placed(s) /\ Windowed(s) /\ Near(s) /\ Counted(s) /\ Cut(s)

\* ... and between two calls: the run is drained and the gap is young.
Rested(s) ==
    /\ Clocked(s)
    /\ \A p \in s.buffer : p.index # s.position
    /\ s.gap # NoGap => s.last - s.gap < MaxWait

\* The history of the deliveries.
HistoryOK ==
    /\ DOMAIN delivered = DOMAIN timeline
    /\ DOMAIN timeline \subseteq 1 .. highest
    /\ \A g \in DOMAIN timeline :
          /\ timeline[g] \in Seq([seq : Nat, payload : SampleCounts, start : Nat])
          /\ delivered[g] \in 0 .. Len(timeline[g])
          /\ Delivery(g)!GapFree(timeline[g])
    /\ phase # "none" => source.generation \in DOMAIN timeline
    /\ phase \in {"active", "ended"} =>
          delivered[source.generation] + Len(source.queue)
              = Len(timeline[source.generation])
    /\ phase = "active" =>
          /\ Len(timeline[source.generation]) = source.chunks
          /\ \A i \in 1 .. source.chunks :
                timeline[source.generation][i] = FullChunk(i)

\* The inductive invariant.
IInv ==
    /\ TypeOK
    /\ HistoryOK
    /\ phase = "active" => Sound(source) /\ Rested(source)
    /\ phase = "ended" => Counted(source) /\ source.buffer = {}
    /\ phase = "failed" => source.queue = <<>>

-----------------------------------------------------------------------------
(* The reorder window. *)

\* What the assumption says of each constant by itself.
LEMMA Limits ==
    /\ Modulus \in Nat \ {0} /\ TimestampModulus \in Nat \ {0}
    /\ FirstSequence \in Nat /\ FirstTimestamp \in Nat
    /\ PacketSamples \in Nat \ {0} /\ ChunkSamples \in Nat \ {0}
    /\ MaxReorder \in Nat \ {0} /\ MaxReorder < Modulus
    /\ MaxOutput \in Nat \ {0} /\ HistoryLimit \in Nat \ {0}
    /\ MaxWait \in Nat /\ MaxTime \in Nat /\ MaxGeneration \in Nat
  BY RtpAssumption

\* The fields of a record.
LEMMA Fields ==
    ASSUME NEW s \in Source
    PROVE  /\ s.generation \in 0 .. MaxGeneration
           /\ s.expected \in 0 .. Modulus - 1
           /\ s.timestamp \in 0 .. TimestampModulus - 1
           /\ s.last \in Times
           /\ s.buffer \in SUBSET Packets
           /\ s.prints \in SUBSET [order : Nat, packet : Packets]
           /\ s.pcm \in 0 .. ChunkSamples - 1
           /\ s.queue \in Seq([seq : Nat, payload : SampleCounts, start : Nat])
           /\ s.gap \in Times \cup {NoGap}
           /\ s.accepted \in Nat /\ s.missing \in Nat /\ s.emitted \in Nat
           /\ s.chunks \in Nat /\ s.position \in Nat
           /\ s.failure = "none"
  BY DEF Source

\* The fields of a packet.
LEMMA PacketFields ==
    ASSUME NEW p \in Packets
    PROVE  p.index \in Nat /\ p.retimed \in BOOLEAN
  <1>1. \A g \in Generations : 0 .. MaxIndex[g] \subseteq Nat
    BY RtpAssumption DEF Generations
  <1>. QED  BY <1>1 DEF Packets, Indices

\* How far ahead of the expected number a packet's own number is.
LEMMA DistanceOf ==
    ASSUME NEW s \in Source, Placed(s), NEW p \in Packets
    PROVE  Distance(SequenceOf(p), s.expected) = (p.index - s.position) % Modulus
  <1> DEFINE a == FirstSequence + p.index
             b == FirstSequence + s.position
  <1>1. p.index \in Nat /\ s.position \in Nat /\ FirstSequence \in Int
        /\ Modulus \in Nat \ {0}
    BY PacketFields, Fields, RtpAssumption
  <1>2. a \in Int /\ b \in Int /\ a - b = p.index - s.position
    BY <1>1
  <1>3. Distance(SequenceOf(p), s.expected) = ((a % Modulus) - (b % Modulus)) % Modulus
    BY DEF Distance, SequenceOf, Placed
  <1> HIDE DEF a, b
  <1>. QED  BY ZenonT(60), <1>1, <1>2, <1>3, DifferenceOfRemainders

\* In the window the distance is the plain difference of the indices.
LEMMA WindowDistance ==
    ASSUME NEW s \in Source, Placed(s), Windowed(s), NEW p \in s.buffer
    PROVE  /\ Distance(SequenceOf(p), s.expected) = p.index - s.position
           /\ p.index - s.position \in 0 .. MaxReorder
           /\ p \in Packets
  <1>1. p \in Packets /\ s.position \in Nat /\ p.index \in Nat
    BY Fields, PacketFields
  <1>2. p.index - s.position \in 0 .. MaxReorder
    BY <1>1, RtpAssumption DEF Windowed
  <1>3. Modulus \in Nat \ {0} /\ MaxReorder < Modulus /\ MaxReorder \in Nat
    BY RtpAssumption
  <1>4. (p.index - s.position) % Modulus = p.index - s.position
    <2> DEFINE d == p.index - s.position
    <2>1. d \in Int /\ -Modulus <= d /\ d < Modulus /\ d >= 0
      BY <1>2, <1>3
    <2> HIDE DEF d
    <2>2. d % Modulus = d
      BY <2>1, <1>3, WithinOneLap
    <2>. QED  BY <2>2 DEF d
  <1>. QED  BY <1>1, <1>2, <1>4, DistanceOf

\* The offsets are the distances from the playout position.
LEMMA OffsetsAre ==
    ASSUME NEW s \in Source, Placed(s), Windowed(s)
    PROVE  /\ Offsets(s) = {p.index - s.position : p \in s.buffer}
           /\ Offsets(s) \subseteq 0 .. MaxReorder
  <1>1. \A p \in s.buffer :
           Distance(SequenceOf(p), s.expected) = p.index - s.position
           /\ p.index - s.position \in 0 .. MaxReorder
    BY WindowDistance
  <1>. QED  BY <1>1 DEF Offsets

\* A set of packets of the window, one for each position, is as large as the
\* set of their offsets.
LEMMA AsManyAsOffsets ==
    ASSUME NEW s \in Source, Placed(s), Windowed(s), NEW B \in SUBSET s.buffer
    PROVE  LET D == {p.index - s.position : p \in B}
           IN  /\ IsFiniteSet(B) /\ IsFiniteSet(D)
               /\ Cardinality(B) \in Nat /\ Cardinality(D) = Cardinality(B)
  <1> DEFINE D == {p.index - s.position : p \in B}
             f == [p \in B |-> p.index - s.position]
  <1>1. \A p \in B : p.index \in Nat /\ p.index - s.position \in 0 .. MaxReorder
    BY WindowDistance, PacketFields
  <1>2. s.position \in Nat /\ MaxReorder \in Nat
    BY Fields, RtpAssumption
  <1>3. D \in SUBSET (0 .. MaxReorder)
    BY <1>1
  <1>4. IsFiniteSet(D)
    <2>1. IsFiniteSet(0 .. MaxReorder)
      BY <1>2, FS_Interval
    <2> HIDE DEF D
    <2>. QED  BY <1>3, <2>1, FS_Subset
  <1>5. f \in Bijection(B, D)
    <2>1. f \in [B -> D]
      OBVIOUS
    <2>2. \A p, q \in B : f[p] = f[q] => p = q
      BY <1>1, <1>2 DEF Windowed
    <2>3. \A d \in D : \E p \in B : f[p] = d
      OBVIOUS
    <2>. QED  BY <2>1, <2>2, <2>3 DEF Bijection, Injection, Surjection, IsInjective
  <1>6. IsFiniteSet(B) /\ Cardinality(B) <= Cardinality(D)
        /\ (Cardinality(B) = Cardinality(D) <=> f \in Surjection(B, D))
    BY <1>4, <1>5, FS_Injection DEF Bijection
  <1>7. Cardinality(D) = Cardinality(B)
    BY <1>5, <1>6 DEF Bijection
  <1>8. Cardinality(B) \in Nat
    BY <1>6, FS_CardinalityType
  <1>. QED  BY <1>4, <1>6, <1>7, <1>8

\* The buffer is finite and as large as the set of its offsets.
LEMMA BufferIsFinite ==
    ASSUME NEW s \in Source, Placed(s), Windowed(s)
    PROVE  IsFiniteSet(s.buffer) /\ Cardinality(s.buffer) \in Nat
           /\ (Cardinality(s.buffer) = 0 <=> s.buffer = {})
           /\ Offsets(s) \in SUBSET Nat
           /\ IsFiniteSet(Offsets(s)) /\ Cardinality(Offsets(s)) = Cardinality(s.buffer)
  <1>1. s.buffer \in SUBSET s.buffer
    OBVIOUS
  <1>2. IsFiniteSet(s.buffer) /\ Cardinality(s.buffer) \in Nat
        /\ IsFiniteSet(Offsets(s)) /\ Cardinality(Offsets(s)) = Cardinality(s.buffer)
    BY <1>1, AsManyAsOffsets, OffsetsAre
  <1>3. Offsets(s) \in SUBSET Nat
    BY OffsetsAre, RtpAssumption
  <1>. QED  BY <1>2, <1>3, FS_EmptySet

\* At rest nothing waits at the playout position, so no more than a window.
LEMMA RestedBuffer ==
    ASSUME NEW s \in Source, Placed(s), Windowed(s),
           \A p \in s.buffer : p.index # s.position
    PROVE  Cardinality(s.buffer) <= MaxReorder
  <1>1. Offsets(s) \in SUBSET (1 .. MaxReorder)
    <2>1. \A p \in s.buffer : p.index \in Nat /\ s.position \in Nat
      BY Fields, PacketFields
    <2>. QED  BY <2>1, OffsetsAre, RtpAssumption
  <1>2. Cardinality(Offsets(s)) <= MaxReorder
    <2>1. IsFiniteSet(1 .. MaxReorder) /\ Cardinality(1 .. MaxReorder) = MaxReorder
      BY FS_Interval, RtpAssumption
    <2>. QED  BY <1>1, <2>1, FS_Subset
  <1>. QED  BY <1>2, BufferIsFinite

\* The run of packets that follow on from the playout position.
LEMMA RunIs ==
    ASSUME NEW s \in Source, Placed(s), Windowed(s)
    PROVE  /\ RunLength(s) \in 0 .. Cardinality(s.buffer)
           /\ RunLength(s) \notin Offsets(s)
           /\ \A d \in 0 .. RunLength(s) - 1 : d \in Offsets(s)
  <1> DEFINE c == Cardinality(s.buffer)
             T == (0 .. c) \ Offsets(s)
  <1>1. c \in Nat /\ IsFiniteSet(Offsets(s)) /\ Cardinality(Offsets(s)) = c
    BY BufferIsFinite
  <1>2. T # {}
    <2> SUFFICES ASSUME (0 .. c) \subseteq Offsets(s) PROVE FALSE
      OBVIOUS
    <2>1. Cardinality(0 .. c) = c + 1
      BY <1>1, FS_Interval
    <2>2. Cardinality(0 .. c) <= c
      BY <1>1, FS_Subset
    <2>. QED  BY <1>1, <2>1, <2>2
  <1>3. T \in SUBSET Nat
    OBVIOUS
  <1>4. RunLength(s) = Least(T)
    BY DEF RunLength
  <1> HIDE DEF c
  <1>5. Least(T) \in T /\ \A d \in T : Least(T) <= d
    <2> HIDE DEF T
    <2>. QED  BY <1>2, <1>3, LeastOf
  <1>6. \A d \in 0 .. RunLength(s) - 1 : d \in Offsets(s)
    BY <1>1, <1>4, <1>5
  <1>. QED  BY <1>1, <1>4, <1>5, <1>6 DEF c

-----------------------------------------------------------------------------
(* Emitting samples. *)

Chunks == [seq : Nat, payload : SampleCounts, start : Nat]

\* A chunk that was cut is a chunk.
LEMMA FullChunkType ==
    ASSUME NEW k \in Nat \ {0}
    PROVE  /\ FullChunk(k) \in [seq : Nat, payload : SampleCounts, start : Nat]
           /\ FullChunk(k).seq = k - 1 /\ FullChunk(k).payload = ChunkSamples
           /\ FullChunk(k).start = (k - 1) * ChunkSamples
  <1>1. k - 1 \in Nat /\ (k - 1) * ChunkSamples \in Nat
    BY RtpAssumption
  <1>2. ChunkSamples \in SampleCounts
    BY RtpAssumption DEF SampleCounts
  <1>. QED  BY <1>1, <1>2 DEF FullChunk

\* What a call may do to the delivery: it goes on cutting chunks.
GoesOn(s, t) ==
    /\ t.generation = s.generation
    /\ t.chunks >= s.chunks
    /\ Len(t.queue) - t.chunks = Len(s.queue) - s.chunks

\* The gap loop goes on, at the time of the call.
Grown(s, t) == t.last = s.last /\ GoesOn(s, t)

\* The fields that say where the source is and what waits.
SameReorder(s, t) ==
    /\ t.expected = s.expected /\ t.timestamp = s.timestamp
    /\ t.buffer = s.buffer /\ t.prints = s.prints /\ t.gap = s.gap
    /\ t.accepted = s.accepted /\ t.missing = s.missing
    /\ t.position = s.position

\* The samples of k full chunks and the rest, with n more samples.
LEMMA CompletedIs ==
    ASSUME NEW s \in Source, NEW n \in Nat
    PROVE  \E k \in Nat, full \in Nat, rest \in 0 .. ChunkSamples - 1 :
              /\ k = Completed(s, n) /\ rest = (s.pcm + n) % ChunkSamples
              /\ full = k * ChunkSamples /\ s.pcm + n = full + rest
  <1>1. s.pcm \in Nat /\ ChunkSamples \in Nat \ {0}
    BY Fields, RtpAssumption
  <1>2. PICK a \in Nat : a = s.pcm + n
    BY <1>1
  <1>3. PICK q \in Int, r \in 0 .. ChunkSamples - 1 :
           q = a \div ChunkSamples /\ r = a % ChunkSamples
           /\ a = ChunkSamples * q + r
    <2>1. a \in Int
      OBVIOUS
    <2>. QED  BY <1>1, <2>1, Division
  <1>4. q >= 0
    <2> SUFFICES ASSUME q <= -1 PROVE FALSE
      OBVIOUS
    <2>1. ChunkSamples * q <= -ChunkSamples
      BY <1>1, SMT
    <2>2. PICK v \in Int : v = ChunkSamples * q
      BY <1>1
    <2>. QED  BY <1>1, <1>3, <2>1, <2>2
  <1>5. PICK full \in Nat : full = ChunkSamples * q
    BY <1>1, <1>4
  <1>6. full = q * ChunkSamples
    BY <1>1, <1>5
  <1>7. q = Completed(s, n) /\ r = (s.pcm + n) % ChunkSamples
    BY <1>2, <1>3 DEF Completed
  <1>8. q \in Nat
    BY <1>4
  <1>9. s.pcm + n = full + r
    BY <1>2, <1>3, <1>5
  <1>. QED  BY <1>6, <1>7, <1>8, <1>9, Zenon

\* What a concatenation holds.
LEMMA Concatenation ==
    ASSUME NEW S, NEW q \in Seq(S), NEW r \in Seq(S)
    PROVE  /\ q \o r \in Seq(S) /\ Len(q) \in Nat /\ Len(r) \in Nat
           /\ Len(q \o r) = Len(q) + Len(r)
           /\ \A i \in 1 .. Len(q \o r) :
                 (q \o r)[i] = IF i <= Len(q) THEN q[i] ELSE r[i - Len(q)]
  OBVIOUS

\* Samples that fit the queue are cut into full chunks, and none is lost.
LEMMA EmitKeepsSamples ==
    ASSUME NEW s \in Source, Cut(s), NEW n \in Nat, ~Overflows(s, n)
    PROVE  LET t == EmitSamples(s, n)
           IN  /\ t \in Source /\ Cut(t) /\ Grown(s, t) /\ SameReorder(s, t)
               /\ t.emitted + t.pcm = s.emitted + s.pcm + n
  <1> DEFINE t == EmitSamples(s, n)
  <1>1. PICK k \in Nat, full \in Nat, rest \in 0 .. ChunkSamples - 1 :
           /\ k = Completed(s, n) /\ rest = (s.pcm + n) % ChunkSamples
           /\ full = k * ChunkSamples /\ s.pcm + n = full + rest
    BY CompletedIs
  <1> DEFINE new == [i \in 1 .. k |-> ChunkAt(s, i, ChunkSamples)]
  <1>2. s.pcm \in Nat /\ s.emitted \in Nat /\ s.chunks \in Nat
        /\ s.queue \in Seq(Chunks)
    <2>1. s.pcm \in 0 .. ChunkSamples - 1 /\ ChunkSamples \in Nat
          /\ s.emitted \in Nat /\ s.chunks \in Nat
      BY Fields, RtpAssumption
    <2>2. s.queue \in Seq(Chunks)
      BY Fields, Zenon DEF Chunks
    <2>. QED  BY <2>1, <2>2
  <1>3. /\ t.queue = s.queue \o new
        /\ t.chunks = s.chunks + k
        /\ t.emitted = s.emitted + full
        /\ t.pcm = rest
        /\ SameReorder(s, t)
        /\ t.generation = s.generation /\ t.last = s.last
        /\ t = [s EXCEPT !.queue = t.queue, !.chunks = t.chunks,
                         !.emitted = t.emitted, !.pcm = t.pcm]
    BY <1>1 DEF EmitSamples, SameReorder, Source
  <1>4. \A i \in 1 .. k : new[i] = FullChunk(s.chunks + i)
    <2> SUFFICES ASSUME NEW i \in 1 .. k PROVE new[i] = FullChunk(s.chunks + i)
      OBVIOUS
    <2>1. PICK j \in Int : j = i - 1
      OBVIOUS
    <2>2. PICK c \in Int : c = s.chunks
      BY <1>2
    <2>3. ChunkSamples \in Int
      BY RtpAssumption
    <2>4. (c + j) * ChunkSamples = c * ChunkSamples + j * ChunkSamples
      BY <2>3, Distributes
    <2>5. s.emitted = c * ChunkSamples
      BY <2>2 DEF Cut
    <2>6. (s.chunks + i) - 1 = c + j /\ s.chunks + i - 1 = c + j
      BY <1>2, <2>1, <2>2
    <2>7. ChunkAt(s, i, ChunkSamples)
             = [seq |-> c + j, payload |-> ChunkSamples,
                start |-> (c + j) * ChunkSamples]
      BY <2>1, <2>4, <2>5, <2>6 DEF ChunkAt
    <2>8. FullChunk(s.chunks + i)
             = [seq |-> c + j, payload |-> ChunkSamples,
                start |-> (c + j) * ChunkSamples]
      BY <2>6 DEF FullChunk
    <2>9. new[i] = ChunkAt(s, i, ChunkSamples)
      OBVIOUS
    <2>. QED  BY <2>7, <2>8, <2>9
  <1>5. new \in Seq(Chunks) /\ Len(new) = k
    <2>1. \A i \in 1 .. k : s.chunks + i \in Nat \ {0}
      BY <1>2
    <2>2. \A i \in 1 .. k : new[i] \in Chunks
      BY <1>4, <2>1, FullChunkType DEF Chunks
    <2>3. new = [i \in 1 .. k |-> new[i]]
      OBVIOUS
    <2> HIDE DEF new
    <2>. QED  BY <2>2, <2>3
  <1> HIDE DEF new, t
  <1>6. /\ t.queue \in Seq(Chunks) /\ Len(t.queue) = Len(s.queue) + k
        /\ Len(s.queue) \in Nat
        /\ \A i \in 1 .. Len(t.queue) :
              t.queue[i] = IF i <= Len(s.queue) THEN s.queue[i]
                           ELSE new[i - Len(s.queue)]
    <2>1. s.queue \in Seq(Chunks) /\ new \in Seq(Chunks) /\ t.queue = s.queue \o new
      BY <1>2, <1>3, <1>5
    <2>2. PICK q \in Seq(Chunks) : q = s.queue
      BY <2>1
    <2>3. PICK u \in Seq(Chunks) : u = new
      BY <2>1
    <2>4. /\ q \o u \in Seq(Chunks) /\ Len(q) \in Nat
          /\ Len(q \o u) = Len(q) + Len(u)
          /\ \A i \in 1 .. Len(q \o u) :
                (q \o u)[i] = IF i <= Len(q) THEN q[i] ELSE u[i - Len(q)]
      BY Concatenation
    <2>5. t.queue = q \o u /\ Len(u) = k
      BY <1>5, <2>1, <2>2, <2>3
    <2>. QED  BY <2>2, <2>3, <2>4, <2>5
  <1>7. Len(t.queue) <= MaxOutput
    <2>1. ~ (Len(s.queue) + k > MaxOutput)
      BY <1>1 DEF Overflows
    <2>. QED  BY <1>6, <2>1, RtpAssumption
  <1>8. t \in Source
    <2>1. /\ t.chunks \in Nat /\ t.emitted \in Nat /\ t.pcm \in 0 .. ChunkSamples - 1
      BY <1>2, <1>3
    <2>. QED  BY ZenonT(60), <1>3, <1>6, <2>1 DEF Source, Chunks
  <1>9. Cut(t)
    <2>1. t.emitted = t.chunks * ChunkSamples
      <3>1. PICK c \in Int : c = s.chunks
        BY <1>2
      <3>2. (c + k) * ChunkSamples = c * ChunkSamples + k * ChunkSamples
        BY Distributes, RtpAssumption
      <3>3. s.emitted = c * ChunkSamples
        BY <3>1 DEF Cut
      <3>4. t.emitted = c * ChunkSamples + k * ChunkSamples
        BY <1>1, <1>3, <3>3
      <3>. QED  BY <1>3, <3>1, <3>2, <3>4
    <2>2. Len(t.queue) <= t.chunks
      <3>1. Len(s.queue) <= s.chunks
        BY DEF Cut
      <3>. QED  BY <1>2, <1>3, <1>6, <3>1
    <2>3. ASSUME NEW i \in DOMAIN t.queue
          PROVE  t.queue[i] = FullChunk(t.chunks - Len(t.queue) + i)
      <3>0. i \in 1 .. Len(t.queue)
        BY <1>6
      <3>1. t.chunks - Len(t.queue) = s.chunks - Len(s.queue)
        BY <1>2, <1>3, <1>6
      <3>2. CASE i <= Len(s.queue)
        <4>1. i \in DOMAIN s.queue
          BY <1>2, <1>6, <3>0, <3>2
        <4>. QED  BY <1>6, <3>0, <3>1, <3>2, <4>1 DEF Cut
      <3>3. CASE i > Len(s.queue)
        <4>1. i - Len(s.queue) \in 1 .. k
          BY <1>6, <3>0, <3>3
        <4>2. t.queue[i] = new[i - Len(s.queue)]
          BY <1>6, <3>0, <3>3
        <4>4. new[i - Len(s.queue)] = FullChunk(s.chunks + (i - Len(s.queue)))
          BY <1>4, <4>1, Zenon
        <4>3. s.chunks + (i - Len(s.queue)) = s.chunks - Len(s.queue) + i
          BY <1>2, <1>6, <3>0
        <4>. QED  BY <3>1, <4>2, <4>3, <4>4
      <3>. QED  BY <1>6, <3>0, <3>2, <3>3
    <2>. QED  BY <1>7, <2>1, <2>2, <2>3 DEF Cut
  <1>10. Grown(s, t)
    BY <1>2, <1>3, <1>6 DEF Grown, GoesOn
  <1>11. t.emitted + t.pcm = s.emitted + s.pcm + n
    <2>1. s.pcm + n = full + rest
      BY <1>1
    <2>2. t.emitted = s.emitted + full /\ t.pcm = rest
      BY <1>3
    <2>. QED  BY <1>2, <2>1, <2>2
  <1>. QED  BY <1>3, <1>8, <1>9, <1>10, <1>11 DEF t

-----------------------------------------------------------------------------
(* Playing out: a run is drained, a gap is skipped. *)

\* Number and timestamp move with the playout position.
LEMMA AdvanceKeepsPlace ==
    ASSUME NEW s \in Source, Placed(s), NEW n \in Nat
    PROVE  /\ AdvanceSequence(s.expected, n)
                 = (FirstSequence + (s.position + n)) % Modulus
           /\ AdvanceSequence(s.expected, n) \in 0 .. Modulus - 1
           /\ AdvanceTimestamp(s.timestamp, n * PacketSamples)
                 = AdvanceTimestamp(FirstTimestamp, (s.position + n) * PacketSamples)
           /\ AdvanceTimestamp(s.timestamp, n * PacketSamples)
                 \in 0 .. TimestampModulus - 1
  <1>1. /\ s.position \in Nat /\ FirstSequence \in Int /\ FirstTimestamp \in Int
        /\ Modulus \in Nat \ {0} /\ TimestampModulus \in Nat \ {0}
        /\ PacketSamples \in Nat
    BY Fields, Limits
  <1>2. PICK a \in Int : a = FirstSequence + s.position
    BY <1>1
  <1>3. s.expected = a % Modulus
    BY <1>2 DEF Placed
  <1>4. ((a % Modulus) + n) % Modulus = (a + n) % Modulus
    <2>1. n \in Int
      OBVIOUS
    <2>. QED  BY <1>1, <2>1, SumOfRemainder
  <1>5. a + n = FirstSequence + (s.position + n)
    BY <1>1, <1>2
  <1>6. (a + n) % Modulus \in 0 .. Modulus - 1
    <2>1. PICK c \in Int : c = a + n
      OBVIOUS
    <2>. QED  BY <1>1, <2>1, Division
  <1>7. PICK v \in Int, w \in Int : v = s.position * PacketSamples /\ w = n * PacketSamples
    BY <1>1
  <1>8. (s.position + n) * PacketSamples = v + w
    <2>1. PICK c \in Int : c = s.position
      BY <1>1
    <2>2. (c + n) * PacketSamples = c * PacketSamples + n * PacketSamples
      BY <1>1, Distributes
    <2>. QED  BY <1>7, <2>1, <2>2
  <1>9. PICK b \in Int : b = FirstTimestamp + v
    BY <1>1, <1>7
  <1>10. ((b % TimestampModulus) + w) % TimestampModulus = (b + w) % TimestampModulus
    BY <1>1, SumOfRemainder
  <1>11. (b + w) % TimestampModulus \in 0 .. TimestampModulus - 1
    <2>1. PICK c \in Int : c = b + w
      OBVIOUS
    <2>. QED  BY <1>1, <2>1, Division
  <1>12. s.timestamp = b % TimestampModulus
    BY <1>7, <1>9 DEF Placed, AdvanceTimestamp
  <1>13. b + w = FirstTimestamp + (v + w)
    BY <1>1, <1>9
  <1>14. AdvanceSequence(s.expected, n) = (a + n) % Modulus
    BY <1>3, <1>4 DEF AdvanceSequence
  <1>15. AdvanceTimestamp(s.timestamp, n * PacketSamples) = (b + w) % TimestampModulus
    BY <1>7, <1>10, <1>12 DEF AdvanceTimestamp
  <1>16. AdvanceTimestamp(FirstTimestamp, (s.position + n) * PacketSamples)
            = (b + w) % TimestampModulus
    BY <1>8, <1>13 DEF AdvanceTimestamp
  <1>. QED  BY <1>5, <1>6, <1>11, <1>14, <1>15, <1>16

\* The types of an entry of the history and of its reach.
LEMMA ReachType ==
    ASSUME NEW s \in Source, IsFiniteSet(s.prints), NEW e \in s.prints
    PROVE  /\ Reach(s, e) \in Int
           /\ e.packet \in Packets /\ e.packet.index \in Nat /\ e.order \in Nat
           /\ Reach(s, e) >= e.packet.index + MaxReorder
           /\ IsFiniteSet(Younger(s, e)) /\ Cardinality(Younger(s, e)) \in Nat
           /\ Cardinality(s.prints) \in Nat
  <1>1. e.packet \in Packets /\ e.packet.index \in Nat /\ e.order \in Nat
    BY Fields, PacketFields
  <1>2. IsFiniteSet(Younger(s, e)) /\ Cardinality(Younger(s, e)) \in Nat
        /\ Cardinality(s.prints) \in Nat
    <2>1. Younger(s, e) \in SUBSET s.prints
      BY DEF Younger
    <2>. QED  BY <2>1, FS_Subset, FS_CardinalityType
  <1>3. MaxReorder \in Nat /\ HistoryLimit \in Nat
    BY Limits
  <1>4. PICK c \in Nat : c = Cardinality(Younger(s, e))
    BY <1>2
  <1>5. PICK v \in Nat : v = c * (MaxReorder + 1)
    BY <1>3
  <1>6. Reach(s, e) = e.packet.index + MaxReorder
                         + (IF Cardinality(s.prints) > HistoryLimit THEN 0 ELSE v)
    BY <1>4, <1>5 DEF Reach
  <1>. QED  BY <1>1, <1>2, <1>3, <1>6

\* The source moves no further than past something it has buffered, so the
\* history stays within reach.
LEMMA MovedStaysNear ==
    ASSUME NEW s \in Source, Near(s), NEW t \in Source,
           t.prints = s.prints, t.accepted = s.accepted,
           t.buffer \subseteq s.buffer, s.position <= t.position,
           t.position = s.position
              \/ \E b \in s.buffer : t.position - 1 <= b.index
    PROVE  Near(t)
  <1>1. s.position \in Nat /\ t.position \in Nat /\ s.accepted \in Nat
        /\ MaxReorder \in Nat
    BY Fields, Limits
  <1>2. \A e \in t.prints : Reach(t, e) = Reach(s, e)
    BY DEF Reach, Younger
  <1>3. ASSUME NEW e \in t.prints
        PROVE  /\ e.packet.index <= t.position + MaxReorder
               /\ t.position - 1 <= Reach(t, e)
               /\ \A p \in t.buffer : p.index <= Reach(t, e)
    <2>1. /\ e \in s.prints /\ Reach(s, e) \in Int /\ e.packet.index \in Nat
          /\ e.packet.index <= s.position + MaxReorder
          /\ s.position - 1 <= Reach(s, e)
          /\ \A p \in s.buffer : p.index <= Reach(s, e)
      BY ReachType DEF Near
    <2>2. e.packet.index <= t.position + MaxReorder
      BY <1>1, <2>1
    <2>3. t.position - 1 <= Reach(s, e)
      <3>1. CASE t.position = s.position
        BY <2>1, <3>1
      <3>2. CASE \E b \in s.buffer : t.position - 1 <= b.index
        <4>1. PICK b \in s.buffer : t.position - 1 <= b.index
          BY <3>2
        <4>2. b.index \in Nat
          BY Fields, PacketFields
        <4>. QED  BY <1>1, <2>1, <4>1, <4>2
      <3>. QED  BY <3>1, <3>2
    <2>. QED  BY <1>2, <2>1, <2>2, <2>3
  <1>. QED  BY <1>3 DEF Near

\* n positions on, with B still waiting and lost positions filled with silence.
Played(s, n, B, lost, gap) ==
    [EmitSamples(s, n * PacketSamples) EXCEPT
        !.missing   = @ + lost,
        !.buffer    = B,
        !.expected  = AdvanceSequence(@, n),
        !.timestamp = AdvanceTimestamp(@, n * PacketSamples),
        !.position  = @ + n,
        !.gap       = gap]

\* Playing out n positions, of which some were buffered and the others not.
LEMMA PlayOut ==
    ASSUME NEW s, Sound(s), NEW n \in Nat, ~Overflows(s, n * PacketSamples),
           NEW B \in SUBSET s.buffer, NEW lost \in Nat, NEW gap \in Times \cup {NoGap},
           \A p \in B : p.index >= s.position + n,
           n = Cardinality(s.buffer) - Cardinality(B) + lost,
           n = 0 \/ \E b \in s.buffer : s.position + n - 1 <= b.index,
           NEW t, t = Played(s, n, B, lost, gap)
    PROVE  /\ Sound(t) /\ Grown(s, t)
           /\ t.position = s.position + n /\ t.buffer = B /\ t.gap = gap
           /\ t.accepted = s.accepted /\ t.missing = s.missing + lost
           /\ t.prints = s.prints
  <1> DEFINE m == EmitSamples(s, n * PacketSamples)
  <1>1. s \in Source /\ Placed(s) /\ Windowed(s) /\ Near(s) /\ Counted(s) /\ Cut(s)
    BY DEF Sound
  <1>2. n * PacketSamples \in Nat
    BY Limits
  <1>3. /\ m \in Source /\ Cut(m) /\ Grown(s, m) /\ SameReorder(s, m)
        /\ m.emitted + m.pcm = s.emitted + s.pcm + n * PacketSamples
    BY <1>1, <1>2, EmitKeepsSamples
  <1> HIDE DEF m
  <1>4. /\ s.position \in Nat /\ s.missing \in Nat /\ s.accepted \in Nat
        /\ s.buffer \in SUBSET Packets
    BY <1>1, Fields
  <1>5. /\ t.missing = s.missing + lost /\ t.buffer = B /\ t.gap = gap
        /\ t.expected = AdvanceSequence(s.expected, n)
        /\ t.timestamp = AdvanceTimestamp(s.timestamp, n * PacketSamples)
        /\ t.position = s.position + n
        /\ t.accepted = s.accepted /\ t.prints = s.prints
        /\ t.queue = m.queue /\ t.chunks = m.chunks
        /\ t.emitted = m.emitted /\ t.pcm = m.pcm
        /\ t.generation = m.generation /\ t.last = m.last
        /\ t = [m EXCEPT !.missing = t.missing, !.buffer = t.buffer, !.gap = t.gap,
                         !.expected = t.expected, !.timestamp = t.timestamp,
                         !.position = t.position]
    <2>1. t = [m EXCEPT !.missing = m.missing + lost, !.buffer = B,
                        !.expected = AdvanceSequence(m.expected, n),
                        !.timestamp = AdvanceTimestamp(m.timestamp, n * PacketSamples),
                        !.position = m.position + n, !.gap = gap]
      BY DEF m, Played
    <2>2. /\ m.expected = s.expected /\ m.timestamp = s.timestamp
          /\ m.accepted = s.accepted /\ m.missing = s.missing
          /\ m.position = s.position /\ m.prints = s.prints
      BY <1>3 DEF SameReorder
    <2> DEFINE ex == AdvanceSequence(s.expected, n)
               ts == AdvanceTimestamp(s.timestamp, n * PacketSamples)
    <2>3. t = [m EXCEPT !.missing = s.missing + lost, !.buffer = B,
                        !.expected = ex, !.timestamp = ts,
                        !.position = s.position + n, !.gap = gap]
      BY <2>1, <2>2
    <2> HIDE DEF ex, ts
    <2>4. /\ t.missing = s.missing + lost /\ t.buffer = B /\ t.gap = gap
          /\ t.expected = ex /\ t.timestamp = ts
          /\ t.position = s.position + n
          /\ t.accepted = m.accepted /\ t.prints = m.prints
          /\ t.queue = m.queue /\ t.chunks = m.chunks
          /\ t.emitted = m.emitted /\ t.pcm = m.pcm
          /\ t.generation = m.generation /\ t.last = m.last
      <3>1. m \in Source
        BY <1>3
      <3> DEFINE mi == s.missing + lost
                 po == s.position + n
      <3>2. t = [m EXCEPT !.missing = mi, !.buffer = B, !.expected = ex,
                          !.timestamp = ts, !.position = po, !.gap = gap]
        BY <2>3
      <3> HIDE DEF mi, po
      <3>3. /\ t.missing = mi /\ t.buffer = B /\ t.gap = gap
            /\ t.expected = ex /\ t.timestamp = ts /\ t.position = po
        <4>2. t.missing = mi
          BY <3>1, <3>2 DEF Source
        <4>3. t.buffer = B
          BY <3>1, <3>2 DEF Source
        <4>4. t.gap = gap
          BY <3>1, <3>2 DEF Source
        <4>5. t.expected = ex
          BY <3>1, <3>2 DEF Source
        <4>6. t.timestamp = ts
          BY <3>1, <3>2 DEF Source
        <4>7. t.position = po
          BY <3>1, <3>2 DEF Source
        <4>. QED  BY <4>2, <4>3, <4>4, <4>5, <4>6, <4>7
      <3>4. /\ t.accepted = m.accepted /\ t.prints = m.prints
            /\ t.queue = m.queue /\ t.chunks = m.chunks
            /\ t.emitted = m.emitted /\ t.pcm = m.pcm
            /\ t.generation = m.generation /\ t.last = m.last
        BY <3>1, <3>2 DEF Source
      <3>. QED  BY <3>3, <3>4 DEF mi, po
    <2>5. t = [m EXCEPT !.missing = t.missing, !.buffer = t.buffer, !.gap = t.gap,
                        !.expected = t.expected, !.timestamp = t.timestamp,
                        !.position = t.position]
      BY <2>3, <2>4
    <2>. QED  BY <2>2, <2>4, <2>5 DEF ex, ts
  <1>6. Placed(t)
    BY <1>1, <1>5, AdvanceKeepsPlace DEF Placed
  <1>7. t \in Source
    <2>1. /\ t.expected \in 0 .. Modulus - 1 /\ t.timestamp \in 0 .. TimestampModulus - 1
      BY <1>1, <1>5, AdvanceKeepsPlace
    <2>2. t.missing \in Nat /\ t.position \in Nat /\ t.buffer \in SUBSET Packets
          /\ t.gap \in Times \cup {NoGap}
      BY <1>4, <1>5
    <2>3. t = [m EXCEPT !.missing = t.missing, !.buffer = t.buffer, !.gap = t.gap,
                        !.expected = t.expected, !.timestamp = t.timestamp,
                        !.position = t.position]
      BY <1>5
    <2>. QED  BY ZenonT(60), <1>3, <2>1, <2>2, <2>3 DEF Source
  <1>8. Windowed(t)
    <2>1. ASSUME NEW p \in B PROVE p.index \in t.position .. t.position + MaxReorder
      <3>1. p.index \in Nat /\ p.index \in s.position .. s.position + MaxReorder
        BY <1>1, <1>4, PacketFields DEF Windowed
      <3>. QED  BY <1>4, <1>5, <3>1, Limits
    <2>2. B \subseteq Remembered(t)
      BY <1>1, <1>5 DEF Windowed, Remembered
    <2>3. \A p, q \in B : p.index = q.index => p = q
      BY <1>1 DEF Windowed
    <2>. QED  BY <1>5, <2>1, <2>2, <2>3 DEF Windowed
  <1>9. Near(t)
    <2>1. s.position <= t.position /\ t.buffer \subseteq s.buffer
      BY <1>4, <1>5
    <2>2. t.position = s.position \/ \E b \in s.buffer : t.position - 1 <= b.index
      BY <1>4, <1>5
    <2>. QED  BY <1>1, <1>5, <1>7, <2>1, <2>2, MovedStaysNear
  <1>10. Counted(t)
    <2>1. t.position = t.accepted - Cardinality(t.buffer) + t.missing
      <3>1. Cardinality(B) \in Nat /\ Cardinality(s.buffer) \in Nat
        BY <1>1, AsManyAsOffsets, BufferIsFinite
      <3>2. s.position = s.accepted - Cardinality(s.buffer) + s.missing
        BY <1>1 DEF Counted
      <3>. QED  BY <1>4, <1>5, <3>1, <3>2
    <2>2. t.emitted + t.pcm = t.position * PacketSamples
      <3>1. PICK c \in Nat : c = s.position
        BY <1>4
      <3>2. (c + n) * PacketSamples = c * PacketSamples + n * PacketSamples
        BY Distributes, Limits
      <3>3. s.emitted + s.pcm = c * PacketSamples
        BY <1>1, <3>1 DEF Counted
      <3>. QED  BY <1>3, <1>5, <3>1, <3>2, <3>3
    <2>. QED  BY <2>1, <2>2 DEF Counted
  <1>11. Cut(t)
    BY <1>3, <1>5 DEF Cut
  <1>12. Grown(s, t)
    BY <1>3, <1>5 DEF Grown, GoesOn
  <1>. QED  BY <1>5, <1>6, <1>7, <1>8, <1>9, <1>10, <1>11, <1>12 DEF Sound

\* The run at the playout position is played and nothing of it is left.
LEMMA DrainPlaysTheRun ==
    ASSUME NEW s, Sound(s), DrainContiguous(s).failure = "none"
    PROVE  LET t == DrainContiguous(s)
           IN  /\ Sound(t) /\ Grown(s, t) /\ Clocked(t)
               /\ t.buffer \subseteq s.buffer
               /\ \A p \in t.buffer : p.index # t.position
               /\ t.gap \in {NoGap, s.gap, s.last}
               /\ s.gap # NoGap => t.gap \in {NoGap, s.gap}
               /\ Cardinality(t.buffer) <= Cardinality(s.buffer)
               /\ 0 \in Offsets(s) =>
                     Cardinality(t.buffer) < Cardinality(s.buffer)
  <1> DEFINE n == RunLength(s)
             rest == {p \in s.buffer : Distance(SequenceOf(p), s.expected) >= n}
             gap == IF rest = {} THEN NoGap ELSE IF s.gap = NoGap THEN s.last ELSE s.gap
             t == DrainContiguous(s)
  <1>1. s \in Source /\ Placed(s) /\ Windowed(s) /\ Cut(s)
    BY DEF Sound
  <1>2. /\ s.position \in Nat /\ s.pcm \in 0 .. ChunkSamples - 1 /\ s.last \in Times
        /\ s.gap \in Times \cup {NoGap} /\ s.missing \in Nat
        /\ s.buffer \in SUBSET Packets
    BY <1>1, Fields
  <1>3. Obstacles(s) = {}
    <2> SUFFICES ASSUME Obstacles(s) # {} PROVE FALSE
      OBVIOUS
    <2>1. t = [s EXCEPT !.failure = DrainFailure(s)]
      BY DEF DrainContiguous
    <2>2. t.failure = DrainFailure(s)
      BY <1>1, <2>1 DEF Source
    <2>3. DrainFailure(s) # "none"
      BY DEF DrainFailure
    <2>. QED  BY <2>2, <2>3
  <1>4. /\ n \in 0 .. Cardinality(s.buffer) /\ n \notin Offsets(s)
        /\ \A d \in 0 .. n - 1 : d \in Offsets(s)
        /\ Cardinality(s.buffer) \in Nat
    BY <1>1, RunIs, BufferIsFinite
  <1>5. rest = {p \in s.buffer : p.index >= s.position + n}
    <2>1. ASSUME NEW p \in s.buffer
          PROVE  Distance(SequenceOf(p), s.expected) >= n <=> p.index >= s.position + n
      <3>1. Distance(SequenceOf(p), s.expected) = p.index - s.position
            /\ p.index \in Nat
        BY <1>1, WindowDistance, PacketFields
      <3>. QED  BY <1>2, <1>4, <3>1
    <2>. QED  BY <2>1
  <1> HIDE DEF n, rest
  <1>6. Cardinality(rest) = Cardinality(s.buffer) - n
    <2> DEFINE run == s.buffer \ rest
               D == {p.index - s.position : p \in run}
    <2>1. \A p \in s.buffer : p.index \in Nat /\ p.index >= s.position
      BY <1>1, <1>2, WindowDistance, PacketFields
    <2>2. D = 0 .. n - 1
      <3>1. ASSUME NEW p \in run PROVE p.index - s.position \in 0 .. n - 1
        BY <1>2, <1>4, <1>5, <2>1
      <3>2. ASSUME NEW d \in 0 .. n - 1 PROVE d \in D
        <4>1. PICK p \in s.buffer : d = p.index - s.position
          BY <1>1, <1>4, OffsetsAre
        <4>2. p \in run
          BY <1>2, <1>4, <1>5, <2>1, <4>1
        <4>. QED  BY <4>1, <4>2
      <3>. QED  BY <3>1, <3>2
    <2>3. run \in SUBSET s.buffer
      OBVIOUS
    <2> HIDE DEF run
    <2>4. IsFiniteSet(run) /\ Cardinality(D) = Cardinality(run)
      BY <1>1, <2>3, AsManyAsOffsets
    <2>5. Cardinality(0 .. n - 1) = n
      BY <1>4, FS_Interval
    <2>6. Cardinality(run) = n
      BY <2>2, <2>4, <2>5
    <2>7. rest \in SUBSET s.buffer /\ s.buffer = run \cup rest /\ run \cap rest = {}
      BY <1>5 DEF run
    <2>8. IsFiniteSet(rest) /\ Cardinality(rest) \in Nat
      BY <1>1, <2>7, AsManyAsOffsets
    <2>9. Cardinality(s.buffer) = Cardinality(run) + Cardinality(rest)
      <3>1. Cardinality(run \cup rest)
               = Cardinality(run) + Cardinality(rest) - Cardinality(run \cap rest)
        BY <2>4, <2>8, FS_Union
      <3>2. Cardinality(run \cap rest) = 0
        BY <2>7, FS_EmptySet
      <3>. QED  BY <1>4, <2>6, <2>7, <2>8, <3>1, <3>2
    <2>. QED  BY <1>4, <2>6, <2>8, <2>9
  <1>7. ~Overflows(s, n * PacketSamples)
    <2>1. CASE n = 0
      <3>1. Completed(s, 0) = 0
        <4>1. ChunkSamples \in Nat \ {0} /\ s.pcm \in 0 .. ChunkSamples - 1
          BY <1>2, Limits
        <4>2. (ChunkSamples * 0 + s.pcm) \div ChunkSamples = 0
          BY <4>1, Remainder
        <4>3. ChunkSamples * 0 + s.pcm = s.pcm + 0
          BY <4>1
        <4>. QED  BY <4>2, <4>3 DEF Completed
      <3>2. Len(s.queue) \in Nat /\ Len(s.queue) <= MaxOutput
        <4>1. s.queue \in Seq([seq : Nat, payload : SampleCounts, start : Nat])
          BY <1>1, Fields
        <4>. QED  BY <1>1, <4>1 DEF Cut
      <3>3. n * PacketSamples = 0
        BY <2>1, Limits
      <3>. QED  BY <3>1, <3>2, <3>3, Limits DEF Overflows
    <2>2. CASE n # 0
      <3>1. n - 1 \in 0 .. n - 1 /\ n - 1 + 1 = n
        BY <1>4, <2>2
      <3>. QED  BY <1>3, <3>1 DEF Obstacles, n
    <2>. QED  BY <2>1, <2>2
  <1>8. n = 0 \/ \E b \in s.buffer : s.position + n - 1 <= b.index
    <2> SUFFICES ASSUME n # 0 PROVE \E b \in s.buffer : s.position + n - 1 <= b.index
      OBVIOUS
    <2>1. n - 1 \in 0 .. n - 1
      BY <1>4
    <2>2. PICK b \in s.buffer : n - 1 = b.index - s.position
      BY <1>1, <1>4, <2>1, OffsetsAre
    <2>3. b.index \in Nat
      BY <1>2, PacketFields
    <2>. QED  BY <1>2, <1>4, <2>2, <2>3
  <1>9. gap \in Times \cup {NoGap}
    BY <1>2
  <1>10. t = Played(s, n, rest, 0, gap)
    <2> DEFINE m == EmitSamples(s, n * PacketSamples)
    <2>1. m \in Source /\ m.gap = s.gap
      <3>1. n * PacketSamples \in Nat
        BY <1>4, Limits
      <3>. QED  BY <1>1, <1>7, <3>1, EmitKeepsSamples DEF SameReorder
    <2> DEFINE u == [m EXCEPT
                 !.buffer    = rest,
                 !.expected  = AdvanceSequence(@, n),
                 !.timestamp = AdvanceTimestamp(@, n * PacketSamples),
                 !.position  = @ + n,
                 !.gap       = IF rest = {} THEN NoGap
                               ELSE IF @ = NoGap THEN s.last ELSE @]
    <2>2. t = u
      BY <1>3 DEF DrainContiguous, n, rest
    <2> HIDE DEF m
    <2>3. m.missing \in Nat /\ m.missing + 0 = m.missing
      BY <2>1, Fields
    <2>4. m = [m EXCEPT !.missing = m.missing]
      BY <2>1 DEF Source
    <2>5. u = [m EXCEPT
                 !.missing   = m.missing,
                 !.buffer    = rest,
                 !.expected  = AdvanceSequence(@, n),
                 !.timestamp = AdvanceTimestamp(@, n * PacketSamples),
                 !.position  = @ + n,
                 !.gap       = gap]
      BY <2>1, <2>4
    <2> HIDE DEF u, gap
    <2>6. u = [m EXCEPT
                 !.missing   = m.missing + 0,
                 !.buffer    = rest,
                 !.expected  = AdvanceSequence(@, n),
                 !.timestamp = AdvanceTimestamp(@, n * PacketSamples),
                 !.position  = @ + n,
                 !.gap       = gap]
      BY <2>3, <2>5
    <2>. QED  BY <2>2, <2>6 DEF m, Played
  <1> HIDE DEF t, gap
  <1>11. rest \in SUBSET s.buffer /\ \A p \in rest : p.index >= s.position + n
    BY <1>5
  <1>12. /\ Sound(t) /\ Grown(s, t)
         /\ t.position = s.position + n /\ t.buffer = rest /\ t.gap = gap
    <2>1. n \in Nat /\ n = Cardinality(s.buffer) - Cardinality(rest) + 0
      BY <1>4, <1>6
    <2>. QED  BY <1>7, <1>8, <1>9, <1>10, <1>11, <2>1, PlayOut
  <1>13. \A p \in t.buffer : p.index # t.position
    <2> SUFFICES ASSUME NEW p \in s.buffer, p.index = s.position + n PROVE FALSE
      BY <1>11, <1>12
    <2>1. n = p.index - s.position
      BY <1>2, <1>4
    <2>. QED  BY <1>1, <1>4, <2>1, OffsetsAre
  <1>14. /\ t.gap \in {NoGap, s.gap, s.last} /\ Clocked(t)
         /\ s.gap # NoGap => t.gap \in {NoGap, s.gap}
    <2>1. NoGap \notin Times
      BY Limits DEF NoGap, Times
    <2>. QED  BY <1>2, <1>12, <2>1 DEF gap, Clocked
  <1>15. /\ Cardinality(t.buffer) <= Cardinality(s.buffer)
         /\ 0 \in Offsets(s) => Cardinality(t.buffer) < Cardinality(s.buffer)
    <2>1. 0 \in Offsets(s) => n # 0
      BY <1>4
    <2>. QED  BY <1>4, <1>6, <1>12, <2>1
  <1>. QED  BY <1>11, <1>12, <1>13, <1>14, <1>15 DEF t

\* A gap in front of a buffered packet is filled, and that packet comes next.
LEMMA SkipFillsTheGap ==
    ASSUME NEW s, Sound(s), s.buffer # {}, NEW now \in Times,
           SkipGap(s, now).failure = "none"
    PROVE  LET t == SkipGap(s, now)
           IN  /\ Sound(t) /\ Grown(s, t) /\ Clocked(t)
               /\ t.buffer = s.buffer /\ t.gap = now
               /\ 0 \in Offsets(t)
  <1> DEFINE n == Least(Offsets(s))
             t == SkipGap(s, now)
  <1>1. s \in Source /\ Placed(s) /\ Windowed(s) /\ Cut(s)
    BY DEF Sound
  <1>2. s.position \in Nat /\ s.buffer \in SUBSET Packets /\ s.missing \in Nat
    BY <1>1, Fields
  <1>3. n \in Offsets(s) /\ n \in Nat /\ \A d \in Offsets(s) : n <= d
    <2>1. Offsets(s) \in SUBSET Nat
      BY <1>1, BufferIsFinite
    <2>2. Offsets(s) # {}
      BY <1>1, OffsetsAre
    <2>. QED  BY <2>1, <2>2, LeastOf
  <1> HIDE DEF n
  <1>4. ~ (n > MaxReorder) /\ ~Overflows(s, n * PacketSamples)
    <2>1. ASSUME NEW f, f # "none" PROVE [s EXCEPT !.failure = f].failure # "none"
      BY <1>1, <2>1 DEF Source
    <2>2. CASE n > MaxReorder
      <3>1. t = [s EXCEPT !.failure = "reorder_window_exceeded"]
        BY <2>2 DEF SkipGap, n
      <3>. QED  BY <2>1, <3>1
    <2>3. CASE ~ (n > MaxReorder) /\ Overflows(s, n * PacketSamples)
      <3>1. t = [s EXCEPT !.failure = "output_queue_full"]
        BY <2>3 DEF SkipGap, n
      <3>. QED  BY <2>1, <3>1
    <2>. QED  BY <2>2, <2>3
  <1>5. t = Played(s, n, s.buffer, n, now)
    <2> DEFINE m == EmitSamples(s, n * PacketSamples)
    <2>1. m \in Source /\ m.buffer = s.buffer
      <3>1. n * PacketSamples \in Nat
        BY <1>3, Limits
      <3>. QED  BY <1>1, <1>4, <3>1, EmitKeepsSamples DEF SameReorder
    <2> DEFINE u == [m EXCEPT
                 !.missing   = @ + n,
                 !.expected  = AdvanceSequence(@, n),
                 !.timestamp = AdvanceTimestamp(@, n * PacketSamples),
                 !.position  = @ + n,
                 !.gap       = now]
    <2>2. t = u
      BY <1>4 DEF SkipGap, n
    <2> HIDE DEF m
    <2>3. m = [m EXCEPT !.buffer = s.buffer]
      BY <2>1 DEF Source
    <2>4. u = [m EXCEPT
                 !.missing   = @ + n,
                 !.buffer    = s.buffer,
                 !.expected  = AdvanceSequence(@, n),
                 !.timestamp = AdvanceTimestamp(@, n * PacketSamples),
                 !.position  = @ + n,
                 !.gap       = now]
      BY <2>1, <2>3
    <2>. QED  BY <2>2, <2>4 DEF m, Played
  <1> HIDE DEF t
  <1>6. PICK b \in s.buffer : n = b.index - s.position
    BY <1>1, <1>3, OffsetsAre
  <1>7. \A p \in s.buffer : p.index >= s.position + n
    <2> SUFFICES ASSUME NEW p \in s.buffer PROVE p.index >= s.position + n
      OBVIOUS
    <2>1. p.index \in Nat /\ p.index - s.position \in Offsets(s)
      BY <1>1, <1>2, OffsetsAre, PacketFields
    <2>2. n <= p.index - s.position
      BY <1>3, <2>1
    <2>. QED  BY <1>2, <1>3, <2>1, <2>2
  <1>8. /\ Sound(t) /\ Grown(s, t)
        /\ t.position = s.position + n /\ t.buffer = s.buffer /\ t.gap = now
    <2>1. s.buffer \in SUBSET s.buffer
      OBVIOUS
    <2>2. n = Cardinality(s.buffer) - Cardinality(s.buffer) + n
      BY <1>1, <1>3, BufferIsFinite
    <2>3. s.position + n - 1 <= b.index
      BY <1>2, <1>3, <1>6, PacketFields
    <2>4. now \in Times \cup {NoGap}
      OBVIOUS
    <2>. QED  BY <1>3, <1>4, <1>5, <1>7, <2>1, <2>2, <2>3, <2>4, PlayOut
  <1>9. 0 \in Offsets(t)
    <2>1. t \in Source /\ Placed(t) /\ Windowed(t)
      BY <1>8 DEF Sound
    <2>2. b.index \in Nat
      BY <1>2, PacketFields
    <2>3. b.index - t.position = 0
      BY <1>2, <1>3, <1>6, <1>8, <2>2
    <2>. QED  BY <1>8, <2>1, <2>3, OffsetsAre
  <1>10. Clocked(t)
    BY <1>8, Limits DEF Clocked, NoGap, Times
  <1>. QED  BY <1>8, <1>9, <1>10 DEF t

-----------------------------------------------------------------------------
(* The gap loop. *)

\* The loop is over: the record failed, nothing waits, or the gap is young.
Settled(s, now, force) ==
    \/ s.failure # "none"
    \/ s.buffer = {}
    \/ 0 \notin Offsets(s) /\ ~force /\ (s.gap = NoGap \/ now - s.gap < MaxWait)

\* At most this many turns are left: a gap and a run for each buffered packet.
Todo(s) ==
    2 * Cardinality(s.buffer) - (IF 0 \in Offsets(s) THEN 1 ELSE 0)

\* What the loop has made of the record it started with.
Reached(s, t) == t.failure # "none" \/ (Sound(t) /\ Clocked(t) /\ Grown(s, t))

\* Going on twice is going on.
LEMMA GoesOnTransitive ==
    ASSUME NEW s, NEW t, NEW u, Sound(s), Sound(t), Sound(u),
           GoesOn(s, t), GoesOn(t, u)
    PROVE  GoesOn(s, u)
  <1> DEFINE Queues == Seq([seq : Nat, payload : SampleCounts, start : Nat])
  <1>1. \A x \in {s, t, u} : x.chunks \in Nat /\ x.queue \in Queues
    BY Fields DEF Sound
  <1>2. \A x \in {s, t, u} : Len(x.queue) \in Nat /\ x.chunks \in Nat
    BY <1>1
  <1>. QED  BY <1>2 DEF GoesOn

\* So it is for turns of the loop.
LEMMA GrownTransitive ==
    ASSUME NEW s, NEW t, NEW u, Sound(s), Sound(t), Sound(u),
           Grown(s, t), Grown(t, u)
    PROVE  Grown(s, u)
  BY GoesOnTransitive DEF Grown

\* The turns left are a number, and none is left of an empty buffer.
LEMMA TodoType ==
    ASSUME NEW s, Sound(s)
    PROVE  /\ Todo(s) \in Nat /\ s.failure = "none"
           /\ Todo(s) = 0 => s.buffer = {}
           /\ Todo(s) <= 2 * Cardinality(s.buffer)
           /\ Cardinality(s.buffer) \in Nat
  <1>1. s \in Source /\ Placed(s) /\ Windowed(s)
    BY DEF Sound
  <1>2. Cardinality(s.buffer) \in Nat /\ (Cardinality(s.buffer) = 0 <=> s.buffer = {})
    BY <1>1, BufferIsFinite
  <1>3. s.buffer = {} => 0 \notin Offsets(s)
    BY DEF Offsets
  <1>4. s.failure = "none"
    BY <1>1, Fields
  <1>. QED  BY <1>2, <1>3, <1>4 DEF Todo

\* A turn leaves a settled record alone and brings every other one nearer.
LEMMA TurnBringsNearer ==
    ASSUME NEW s, Sound(s), Clocked(s), NEW force \in BOOLEAN,
           NEW t, t = ExpireTurn(s, s.last, force)
    PROVE  /\ Reached(s, t)
           /\ Settled(s, s.last, force) => t = s
           /\ ~Settled(s, s.last, force) /\ t.failure = "none" => Todo(t) < Todo(s)
  <1>1. /\ s \in Source /\ s.failure = "none" /\ s.last \in Times
        /\ s.chunks \in Nat /\ Cardinality(s.buffer) \in Nat
    BY Fields, TodoType DEF Sound
  <1>2. CASE Settled(s, s.last, force)
    <2>1. t = s
      BY <1>1, <1>2 DEF Settled, ExpireTurn
    <2>. QED  BY <1>1, <1>2, <2>1 DEF Reached, Grown, GoesOn
  <1>3. CASE ~Settled(s, s.last, force)
    <2>1. s.buffer # {}
      BY <1>3 DEF Settled
    <2>2. CASE t.failure # "none"
      BY <1>3, <2>2 DEF Reached
    <2>3. CASE t.failure = "none" /\ 0 \in Offsets(s)
      <3>1. t = DrainContiguous(s)
        BY <1>1, <2>1, <2>3 DEF ExpireTurn
      <3>2. /\ Sound(t) /\ Grown(s, t) /\ Clocked(t)
            /\ \A p \in t.buffer : p.index # t.position
            /\ Cardinality(t.buffer) < Cardinality(s.buffer)
        BY <2>3, <3>1, DrainPlaysTheRun
      <3>3. Cardinality(t.buffer) \in Nat /\ Todo(t) <= 2 * Cardinality(t.buffer)
            /\ Todo(t) \in Nat
        BY <3>2, TodoType
      <3>4. Todo(s) = 2 * Cardinality(s.buffer) - 1
        BY <2>3 DEF Todo
      <3>. QED  BY <1>1, <1>3, <3>2, <3>3, <3>4 DEF Reached
    <2>4. CASE t.failure = "none" /\ 0 \notin Offsets(s)
      <3>1. ~ (~force /\ (s.gap = NoGap \/ s.last - s.gap < MaxWait))
        BY <1>3, <2>4 DEF Settled
      <3>2. t = SkipGap(s, s.last)
        BY <1>1, <2>1, <2>4, <3>1 DEF ExpireTurn
      <3>3. /\ Sound(t) /\ Grown(s, t) /\ Clocked(t)
            /\ t.buffer = s.buffer /\ 0 \in Offsets(t)
        BY <1>1, <2>1, <2>4, <3>2, SkipFillsTheGap
      <3>4. Todo(s) = 2 * Cardinality(s.buffer) /\ Todo(t) = 2 * Cardinality(s.buffer) - 1
        <4>1. Todo(s) = 2 * Cardinality(s.buffer) - 0
          BY <2>4 DEF Todo
        <4>2. Todo(t) = 2 * Cardinality(t.buffer) - 1
          BY <3>3 DEF Todo
        <4>3. Cardinality(t.buffer) = Cardinality(s.buffer)
          BY <3>3
        <4>. QED  BY <1>1, <4>1, <4>2, <4>3
      <3>. QED  BY <1>1, <1>3, <3>3, <3>4 DEF Reached
    <2>. QED  BY <2>2, <2>3, <2>4
  <1>. QED  BY <1>2, <1>3

\* The loop's function is what its equation says.
LEMMA TurnsUnfold ==
    ASSUME NEW s, NEW now, NEW force, NEW k \in Nat, NEW turn,
           turn = CHOOSE f : f = [n \in 0 .. k |->
                      IF n = 0 THEN s ELSE ExpireTurn(f[n-1], now, force)]
    PROVE  turn = [n \in 0 .. k |->
                      IF n = 0 THEN s ELSE ExpireTurn(turn[n-1], now, force)]
  <1> DEFINE Turned(m, f) == f = [n \in 0 .. m |->
                   IF n = 0 THEN s ELSE ExpireTurn(f[n-1], now, force)]
             A == {m \in Nat : \E f : Turned(m, f)}
  <1>1. 0 \in A
    <2> DEFINE f == [n \in 0 .. 0 |-> s]
    <2>1. Turned(0, f)
      OBVIOUS
    <2> HIDE DEF f, Turned
    <2>. QED  BY <2>1
  <1>2. ASSUME NEW m \in A PROVE m + 1 \in A
    <2>1. m \in Nat
      OBVIOUS
    <2>2. PICK f : Turned(m, f)
      BY <1>2
    <2> DEFINE g == [n \in 0 .. m+1 |-> IF n \in 0 .. m THEN f[n]
                                        ELSE ExpireTurn(f[m], now, force)]
    <2>3. \A n \in 0 .. m : g[n] = f[n]
      BY <2>1
    <2>4. ASSUME NEW n \in 0 .. m+1
          PROVE  g[n] = IF n = 0 THEN s ELSE ExpireTurn(g[n-1], now, force)
      <3>1. CASE n \in 0 .. m
        <4>1. f[n] = IF n = 0 THEN s ELSE ExpireTurn(f[n-1], now, force)
          BY <2>2, <3>1
        <4>2. n # 0 => g[n-1] = f[n-1]
          BY <2>1, <2>3, <3>1
        <4> HIDE DEF g
        <4>. QED  BY <2>3, <3>1, <4>1, <4>2
      <3>2. CASE n = m + 1
        <4>1. g[n] = ExpireTurn(f[m], now, force) /\ n # 0 /\ n - 1 = m
          BY <2>1, <3>2
        <4>2. g[n-1] = f[m]
          BY <2>1, <2>3, <4>1
        <4> HIDE DEF g
        <4>. QED  BY <4>1, <4>2
      <3>. QED  BY <2>1, <3>1, <3>2
    <2>5. g = [n \in 0 .. m+1 |-> g[n]]
      OBVIOUS
    <2>6. Turned(m + 1, g)
      <3> HIDE DEF g
      <3>. QED  BY <2>4, <2>5
    <2> HIDE DEF g, Turned
    <2>. QED  BY <2>1, <2>6
  <1>3. k \in A
    <2>1. A \in SUBSET Nat
      OBVIOUS
    <2> HIDE DEF A
    <2>2. A = Nat
      BY <1>1, <1>2, <2>1, Induction
    <2>. QED  BY <2>2
  <1>4. PICK f : Turned(k, f)
    BY <1>3
  <1>. QED  BY <1>4, Zenon

\* The loop ends with a settled record, whatever the gaps and runs.
LEMMA ExpireSettles ==
    ASSUME NEW s, Sound(s), Clocked(s), NEW force \in BOOLEAN,
           NEW t, t = ExpireGap(s, s.last, force)
    PROVE  Reached(s, t) /\ Settled(t, s.last, force)
  <1> DEFINE k == 2 * Cardinality(s.buffer)
             turn == CHOOSE f : f = [n \in 0 .. k |->
                         IF n = 0 THEN s ELSE ExpireTurn(f[n-1], s.last, force)]
             now == s.last
  <1>1. t = turn[k]
    BY DEF ExpireGap
  <1>2. k \in Nat /\ Todo(s) <= k /\ s.failure = "none"
    BY TodoType
  <1> HIDE DEF k
  <1>3. turn = [n \in 0 .. k |->
                   IF n = 0 THEN s ELSE ExpireTurn(turn[n-1], now, force)]
    <2>1. turn = CHOOSE f : f = [n \in 0 .. k |->
                   IF n = 0 THEN s ELSE ExpireTurn(f[n-1], now, force)]
      OBVIOUS
    <2> HIDE DEF turn, now
    <2>. QED  BY <1>2, <2>1, TurnsUnfold
  <1> HIDE DEF turn
  <1>4. turn[0] = s /\ \A n \in 1 .. k : turn[n] = ExpireTurn(turn[n-1], now, force)
    BY <1>2, <1>3
  <1> DEFINE Near0(n) ==
                /\ Reached(s, turn[n])
                /\ Settled(turn[n], now, force) \/ Todo(turn[n]) <= k - n
             A == {n \in Nat : n <= k => Near0(n)}
  <1>5. 0 \in A
    <2>1. s.chunks \in Nat
      BY Fields DEF Sound
    <2>2. Near0(0)
      BY <1>2, <1>4, <2>1 DEF Reached, Grown, GoesOn
    <2>. QED  BY <2>2
  <1>6. ASSUME NEW n \in A PROVE n + 1 \in A
    <2>0. n \in Nat
      OBVIOUS
    <2> SUFFICES ASSUME n + 1 <= k PROVE Near0(n + 1)
      BY <2>0
    <2> DEFINE u == turn[n]
               v == turn[n + 1]
    <2>1. Reached(s, u) /\ (Settled(u, now, force) \/ Todo(u) <= k - n)
      BY <1>2, <2>0
    <2>2. v = ExpireTurn(u, now, force)
      <3>1. n + 1 \in 1 .. k /\ (n + 1) - 1 = n
        BY <1>2, <2>0
      <3>. QED  BY <1>4, <3>1
    <2>3. Reached(s, v) /\ (Settled(v, now, force) \/ Todo(v) <= k - (n + 1))
      <3> HIDE DEF u, v, A
      <3>1. CASE u.failure # "none"
        <4>1. v = u
          BY <2>2, <3>1 DEF ExpireTurn
        <4>. QED  BY <3>1, <4>1 DEF Reached, Settled
      <3>2. CASE u.failure = "none"
        <4>1. Sound(u) /\ Clocked(u) /\ Grown(s, u) /\ u.last = now
          BY <2>1, <3>2 DEF Reached, Grown, GoesOn
        <4>2. /\ Reached(u, v)
              /\ Settled(u, now, force) => v = u
              /\ ~Settled(u, now, force) /\ v.failure = "none" => Todo(v) < Todo(u)
          BY <2>2, <4>1, TurnBringsNearer
        <4>3. CASE v.failure # "none"
          BY <4>3 DEF Reached, Settled
        <4>4. CASE v.failure = "none"
          <5>1. Sound(v) /\ Clocked(v) /\ Grown(u, v)
            BY <4>2, <4>4 DEF Reached
          <5>2. Reached(s, v)
            BY <4>1, <5>1, GrownTransitive DEF Reached
          <5>3. Todo(u) \in Nat /\ Todo(v) \in Nat
            BY <4>1, <5>1, TodoType
          <5>4. CASE Settled(u, now, force)
            BY <4>2, <5>2, <5>4
          <5>5. CASE ~Settled(u, now, force)
            <6>1. Todo(v) < Todo(u) /\ Todo(u) <= k - n
              BY <2>1, <4>2, <4>4, <5>5
            <6>2. Todo(v) <= k - (n + 1)
              BY <1>2, <2>0, <5>3, <6>1
            <6>. QED  BY <5>2, <6>2
          <5>. QED  BY <5>4, <5>5
        <4>. QED  BY <4>3, <4>4
      <3>. QED  BY <3>1, <3>2
    <2>. QED  BY <2>3
  <1>7. Near0(k)
    <2>1. A \in SUBSET Nat
      OBVIOUS
    <2>2. A = Nat
      <3> HIDE DEF A
      <3>. QED  BY <1>5, <1>6, <2>1, Induction
    <2>. QED  BY <1>2, <2>2
  <1>8. Reached(s, t) /\ (Settled(t, now, force) \/ Todo(t) <= 0)
    BY <1>1, <1>2, <1>7
  <1>9. CASE t.failure # "none"
    BY <1>8, <1>9 DEF Settled
  <1>10. CASE t.failure = "none"
    <2>1. Sound(t)
      BY <1>8, <1>10 DEF Reached
    <2>2. Todo(t) <= 0 => t.buffer = {}
      BY <2>1, TodoType
    <2>. QED  BY <1>8, <2>2 DEF Settled
  <1>. QED  BY <1>9, <1>10

-----------------------------------------------------------------------------
(* A packet is taken in. *)

\* What the history forgets: never a packet that waits, and of the others the
\* oldest first.  Over its limit it holds nothing but what waits.
LEMMA TrimForgetsTheOldest ==
    ASSUME NEW P, IsFiniteSet(P), P \subseteq [order : Nat, packet : Packets],
           \A e, f \in P : e.order = f.order => e = f,
           NEW B, NEW T, T = TrimHistory(P, B)
    PROVE  /\ T \subseteq P /\ IsFiniteSet(T)
           /\ \A e \in P : e.packet \in B => e \in T
           /\ \A e \in T : e.packet \in B
                              \/ {f \in P : f.order > e.order} \subseteq T
           /\ Cardinality(T) > HistoryLimit => \A e \in T : e.packet \in B
  <1> DEFINE idle == {e \in P : e.packet \notin B}
             upTo(e) == {f \in idle : f.order <= e.order}
             surplus == Cardinality(P) - HistoryLimit
  <1>1. T = {e \in P : e \in idle => Cardinality(upTo(e)) > surplus}
    BY DEF TrimHistory
  <1>2. /\ IsFiniteSet(T) /\ T \subseteq P
        /\ Cardinality(T) \in Nat /\ Cardinality(P) \in Nat
    BY <1>1, FS_Subset, FS_CardinalityType
  <1>3. surplus \in Int
    BY <1>2, Limits
  <1>4. \A e \in P : e.order \in Nat
    OBVIOUS
  <1>5. \A e \in idle : IsFiniteSet(upTo(e)) /\ Cardinality(upTo(e)) \in Nat
    <2> SUFFICES ASSUME NEW e \in idle
                 PROVE  IsFiniteSet(upTo(e)) /\ Cardinality(upTo(e)) \in Nat
      OBVIOUS
    <2>1. upTo(e) \in SUBSET P
      OBVIOUS
    <2>. QED  BY <2>1, FS_Subset, FS_CardinalityType
  <1>6. ASSUME NEW e \in T, e.packet \notin B, NEW f \in P, f.order > e.order
        PROVE  f \in T
    <2>1. e \in idle /\ Cardinality(upTo(e)) > surplus
      BY <1>1, <1>6
    <2>2. CASE f \in idle
      <3>1. upTo(e) \in SUBSET upTo(f)
        BY <1>2, <1>4, <1>6
      <3>2. Cardinality(upTo(e)) <= Cardinality(upTo(f))
        BY <1>5, <2>2, <3>1, FS_Subset
      <3>3. Cardinality(upTo(f)) > surplus
        BY <1>3, <1>5, <2>1, <2>2, <3>2
      <3>. QED  BY <1>1, <3>3
    <2>3. CASE f \notin idle
      BY <1>1, <2>3
    <2>. QED  BY <2>2, <2>3
  <1>7. ASSUME Cardinality(T) > HistoryLimit, NEW e0 \in T, e0.packet \notin B
        PROVE  FALSE
    <2> DEFINE left == {e \in T : e.packet \notin B}
               orders == {e.order : e \in left}
    <2>1. orders \in SUBSET Nat /\ orders # {}
      BY <1>2, <1>4, <1>7
    <2>2. PICK m \in orders : \A n \in orders : m <= n
      <3> HIDE DEF orders
      <3>. QED  BY <2>1, LeastNumber
    <2>3. PICK e \in left : e.order = m
      OBVIOUS
    <2>4. e \in P /\ e \in idle /\ Cardinality(upTo(e)) > surplus
      BY <1>1
    <2> DEFINE older == upTo(e) \ {e}
    <2>5. older \in SUBSET (P \ T)
      <3> SUFFICES ASSUME NEW f \in older, f \in T PROVE FALSE
        OBVIOUS
      <3>1. f \in left /\ f.order <= e.order /\ f # e
        OBVIOUS
      <3>2. f.order >= e.order
        BY <2>2, <2>3, <3>1
      <3>. QED  BY <1>2, <1>4, <3>1, <3>2
    <2>6. IsFiniteSet(P \ T) /\ Cardinality(P \ T) = Cardinality(P) - Cardinality(T)
      <3>1. IsFiniteSet(P \ T)
            /\ Cardinality(P \ T) = Cardinality(P) - Cardinality(P \cap T)
        BY FS_Difference
      <3>2. P \cap T = T
        BY <1>2
      <3>. QED  BY <3>1, <3>2
    <2>7. Cardinality(older) <= Cardinality(P \ T)
      BY <2>5, <2>6, FS_Subset
    <2>8. Cardinality(older) = Cardinality(upTo(e)) - 1
      <3>1. e \in upTo(e)
        BY <1>4, <2>4
      <3>. QED  BY <1>5, <2>4, <3>1, FS_RemoveElement
    <2>9. Cardinality(upTo(e)) \in Nat
      BY <1>5, <2>4
    <2> HIDE DEF older, upTo, left, orders
    <2>. QED  BY <1>2, <1>7, <2>4, <2>6, <2>7, <2>8, <2>9, Limits
  <1>. QED  BY <1>1, <1>2, <1>6, <1>7

\* A packet that is taken lies in the window, and nothing waits in its place.
LEMMA TakenIsNew ==
    ASSUME NEW s, Sound(s), NEW p \in Packets, PacketRefusal(s, p) = "none",
           p.index >= s.position - Modulus \div 2,
           p.index < s.position + Modulus \div 2
    PROVE  /\ p.index \in s.position .. s.position + MaxReorder
           /\ \A q \in s.buffer : q.index # p.index
           /\ p \notin s.buffer
  <1> DEFINE d == Distance(SequenceOf(p), s.expected)
  <1>1. s \in Source /\ Placed(s) /\ s.position \in Nat /\ p.index \in Nat
    BY Fields, PacketFields DEF Sound
  <1>2. d = (p.index - s.position) % Modulus
    BY <1>1, DistanceOf
  <1>3. PICK half \in Nat : half = Modulus \div 2 /\ half <= Modulus - half
                            /\ MaxReorder < Modulus - half
    <2>1. 2 * MaxReorder < Modulus
      BY RtpAssumption
    <2>2. Modulus \in Nat /\ MaxReorder \in Nat
      BY Limits
    <2>. QED  BY <2>1, <2>2
  <1>4. PICK diff \in Int : diff = p.index - s.position
    BY <1>1
  <1>5. diff >= -half /\ diff < half
    BY <1>1, <1>3, <1>4
  <1>6. d = IF diff >= 0 THEN diff ELSE diff + Modulus
    <2>1. Modulus \in Nat \ {0} /\ half <= Modulus
      BY <1>3, Limits
    <2>2. diff % Modulus = IF diff >= 0 THEN diff ELSE diff + Modulus
      <3>1. -Modulus <= diff /\ diff < Modulus
        BY <1>5, <2>1
      <3>. QED  BY <2>1, <3>1, WithinOneLap
    <2>. QED  BY <1>2, <1>4, <2>2
  <1> HIDE DEF d
  <1>7. d \in Int
    BY <1>6, Limits
  <1>8. Known(s, p) = {} /\ d <= MaxReorder
    BY <1>7, Limits DEF PacketRefusal, d
  <1>9. diff >= 0
    BY <1>3, <1>5, <1>6, <1>8, Limits
  <1>10. p.index \in s.position .. s.position + MaxReorder
    BY <1>1, <1>4, <1>6, <1>8, <1>9, Limits
  <1>11. ASSUME NEW q \in s.buffer, q.index = p.index PROVE FALSE
    BY <1>8, <1>11 DEF Known, SequenceOf
  <1>. QED  BY <1>10, <1>11

\* Taking a packet in keeps the record sound: it lies in the window, and the
\* history grows by its entry or forgets the oldest.
LEMMA BufferKeepsSound ==
    ASSUME NEW s, Sound(s), NEW p \in Packets, PacketRefusal(s, p) = "none",
           p.index >= s.position - Modulus \div 2,
           p.index < s.position + Modulus \div 2,
           NEW time \in Times, NEW t, t = BufferPacket(s, p, time)
    PROVE  /\ Sound(t) /\ t.last = time /\ t.generation = s.generation
           /\ t.queue = s.queue /\ t.chunks = s.chunks
  <1> DEFINE B == s.buffer \cup {p}
             new == [order |-> s.accepted + 1, packet |-> p]
             P == s.prints \cup {new}
             T == TrimHistory(P, B)
             Entries == [order : Nat, packet : Packets]
  <1>1. s \in Source /\ Placed(s) /\ Windowed(s) /\ Near(s) /\ Counted(s) /\ Cut(s)
    BY DEF Sound
  <1>2. /\ s.position \in Nat /\ s.accepted \in Nat /\ s.missing \in Nat
        /\ s.buffer \in SUBSET Packets /\ s.prints \in SUBSET Entries
        /\ s.gap \in Times \cup {NoGap} /\ p.index \in Nat
    BY <1>1, Fields, PacketFields
  <1>3. /\ p.index \in s.position .. s.position + MaxReorder
        /\ \A q \in s.buffer : q.index # p.index
        /\ p \notin s.buffer
    BY TakenIsNew
  <1>4. /\ t.buffer = B /\ t.prints = T /\ t.accepted = s.accepted + 1
        /\ t.last = time /\ t.gap \in Times \cup {NoGap}
        /\ t.expected = s.expected /\ t.timestamp = s.timestamp
        /\ t.position = s.position /\ t.missing = s.missing
        /\ t.emitted = s.emitted /\ t.pcm = s.pcm /\ t.chunks = s.chunks
        /\ t.queue = s.queue /\ t.generation = s.generation
        /\ t = [s EXCEPT !.buffer = t.buffer, !.prints = t.prints,
                         !.accepted = t.accepted, !.last = t.last, !.gap = t.gap]
    <2> DEFINE gap == IF SequenceOf(p) # s.expected /\ s.gap = NoGap
                      THEN time ELSE s.gap
               acc == s.accepted + 1
    <2>1. t = [s EXCEPT !.buffer = B, !.prints = T, !.accepted = acc,
                        !.last = time, !.gap = gap]
      BY DEF BufferPacket
    <2>2. gap \in Times \cup {NoGap}
      BY <1>2
    <2> HIDE DEF B, T, gap, acc
    <2>3. t.buffer = B /\ t.prints = T
      BY <1>1, <2>1 DEF Source
    <2>4. t.accepted = acc /\ t.last = time /\ t.gap = gap
      BY <1>1, <2>1 DEF Source
    <2>5. /\ t.expected = s.expected /\ t.timestamp = s.timestamp
          /\ t.position = s.position /\ t.missing = s.missing
          /\ t.emitted = s.emitted /\ t.pcm = s.pcm /\ t.chunks = s.chunks
          /\ t.queue = s.queue /\ t.generation = s.generation
      BY <1>1, <2>1 DEF Source
    <2>6. t = [s EXCEPT !.buffer = t.buffer, !.prints = t.prints,
                        !.accepted = t.accepted, !.last = t.last, !.gap = t.gap]
      BY <2>1, <2>3, <2>4
    <2>. QED  BY <2>2, <2>3, <2>4, <2>5, <2>6 DEF acc
  <1>5. /\ P \subseteq Entries /\ IsFiniteSet(P) /\ new \in Entries
        /\ new.order = s.accepted + 1 /\ new.packet = p
        /\ \A e \in s.prints : e.order < new.order /\ e.order \in Nat
        /\ \A e, f \in P : e.order = f.order => e = f
    <2>1. new \in Entries /\ new.order = s.accepted + 1 /\ new.packet = p
      BY <1>2
    <2>2. \A e \in s.prints : e.order < new.order /\ e.order \in Nat
      BY <1>1, <1>2, <2>1 DEF Near
    <2>3. \A e, f \in s.prints : e.order = f.order => e = f
      BY <1>1 DEF Near
    <2>4. IsFiniteSet(P)
      BY <1>1, FS_AddElement DEF Near
    <2> HIDE DEF new
    <2>. QED  BY <1>2, <2>1, <2>2, <2>3, <2>4
  <1> HIDE DEF new
  <1>6. /\ T \subseteq P /\ IsFiniteSet(T)
        /\ \A e \in P : e.packet \in B => e \in T
        /\ \A e \in T : e.packet \in B
                           \/ {f \in P : f.order > e.order} \subseteq T
        /\ Cardinality(T) > HistoryLimit => \A e \in T : e.packet \in B
    <2> HIDE DEF P, B, T
    <2>1. T = TrimHistory(P, B)
      BY DEF T
    <2>. QED  BY <1>5, <2>1, TrimForgetsTheOldest
  <1> HIDE DEF T
  <1>7. t \in Source
    <2>1. /\ t.buffer \in SUBSET Packets /\ t.accepted \in Nat /\ t.last \in Times
          /\ t.gap \in Times \cup {NoGap}
      BY <1>2, <1>4
    <2>2. t.prints \in SUBSET Entries
      BY <1>4, <1>5, <1>6
    <2>3. t = [s EXCEPT !.buffer = t.buffer, !.prints = t.prints,
                        !.accepted = t.accepted, !.last = t.last, !.gap = t.gap]
      BY <1>4
    <2>. QED  BY <1>1, <2>1, <2>2, <2>3 DEF Source
  <1>8. Placed(t)
    BY <1>1, <1>4 DEF Placed
  <1>9. Windowed(t)
    <2>1. \A q \in B : q.index \in s.position .. s.position + MaxReorder
      BY <1>1, <1>3 DEF Windowed
    <2>2. \A q, r \in B : q.index = r.index => q = r
      BY <1>1, <1>3 DEF Windowed
    <2>3. ASSUME NEW q \in B PROVE \E e \in T : e.packet = q
      <3>1. CASE q \in s.buffer
        <4>1. PICK e \in s.prints : e.packet = q
          BY <1>1, <3>1 DEF Windowed, Remembered
        <4>. QED  BY <1>6, <4>1
      <3>2. CASE q = p
        BY <1>5, <1>6, <3>2
      <3>. QED  BY <3>1, <3>2
    <2>4. B \subseteq Remembered(t)
      BY <1>4, <2>3 DEF Remembered
    <2>. QED  BY <1>4, <2>1, <2>2, <2>4 DEF Windowed
  <1>10. ASSUME NEW e \in T
         PROVE  /\ e.packet.index <= s.position + MaxReorder
                /\ s.position - 1 <= Reach(t, e)
                /\ \A q \in B : q.index <= Reach(t, e)
    <2>1. /\ Reach(t, e) \in Int /\ e.packet.index \in Nat
          /\ Reach(t, e) >= e.packet.index + MaxReorder
          /\ e \in P
      BY <1>4, <1>6, <1>7, ReachType
    <2>2. e.packet.index <= s.position + MaxReorder
      <3>1. CASE e \in s.prints
        BY <1>1, <3>1 DEF Near
      <3>2. CASE e = new
        BY <1>2, <1>3, <1>5, <3>2, Limits
      <3>. QED  BY <2>1, <3>1, <3>2
    <2>3. \A q \in B : q.index \in Nat /\ q.index >= s.position
                       /\ q.index <= s.position + MaxReorder
      BY <1>1, <1>2, <1>3, PacketFields, Limits DEF Windowed
    <2>4. CASE e.packet \in B
      <3>1. e.packet.index >= s.position
        BY <2>3, <2>4
      <3>. QED  BY <1>2, <2>1, <2>2, <2>3, <3>1, Limits
    <2>5. CASE e.packet \notin B
      <3>1. e \in s.prints /\ ~ (Cardinality(T) > HistoryLimit)
        BY <1>5, <1>6, <2>1, <2>5
      <3>2. Younger(t, e) = Younger(s, e) \cup {new}
        <4>1. {f \in P : f.order > e.order} \subseteq T
          BY <1>6, <2>5
        <4>2. {f \in T : f.order > e.order} = {f \in P : f.order > e.order}
          BY <1>6, <4>1
        <4>3. new.order > e.order
          BY <1>2, <1>5, <3>1
        <4>. QED  BY <1>4, <4>2, <4>3 DEF Younger
      <3>3. /\ IsFiniteSet(Younger(s, e)) /\ Cardinality(Younger(s, e)) \in Nat
            /\ Reach(s, e) \in Int
            /\ s.position - 1 <= Reach(s, e)
            /\ \A q \in s.buffer : q.index <= Reach(s, e)
        BY <1>1, <3>1, ReachType DEF Near
      <3>4. Cardinality(Younger(t, e)) = Cardinality(Younger(s, e)) + 1
        <4>1. new \notin Younger(s, e)
          BY <1>5 DEF Younger
        <4>. QED  BY <3>2, <3>3, <4>1, FS_AddElement
      <3>5. PICK c \in Nat : c = Cardinality(Younger(s, e))
        BY <3>3
      <3>6. PICK v \in Nat : v = c * (MaxReorder + 1)
        BY Limits
      <3>7. (c + 1) * (MaxReorder + 1) = v + (MaxReorder + 1)
        <4>1. PICK w \in Nat : w = MaxReorder + 1
          BY Limits
        <4>2. (c + 1) * w = c * w + 1 * w /\ 1 * w = w
          BY Distributes
        <4>. QED  BY <3>6, <4>1, <4>2
      <3>8. Reach(t, e) = e.packet.index + MaxReorder + (v + (MaxReorder + 1))
        BY <1>4, <3>1, <3>4, <3>5, <3>7 DEF Reach
      <3>9. Reach(s, e) <= e.packet.index + MaxReorder + v
        <4>1. Reach(s, e) = e.packet.index + MaxReorder
                 + (IF Cardinality(s.prints) > HistoryLimit THEN 0 ELSE v)
          BY <3>5, <3>6 DEF Reach
        <4>. QED  BY <2>1, <4>1, Limits
      <3>10. s.position - 1 <= Reach(t, e)
        BY <1>2, <2>1, <3>3, <3>8, <3>9, Limits
      <3>11. ASSUME NEW q \in B PROVE q.index <= Reach(t, e)
        <4>1. q.index \in Nat /\ q.index <= s.position + MaxReorder
          BY <2>3
        <4>. QED  BY <1>2, <2>1, <3>3, <3>8, <3>9, <4>1, Limits
      <3>. QED  BY <2>2, <3>10, <3>11
    <2>. QED  BY <2>4, <2>5
  <1>11. Near(t)
    <2>1. \A e \in T : e.order <= t.accepted
      BY <1>2, <1>4, <1>5, <1>6
    <2>2. \A e, f \in T : e.order = f.order => e = f
      BY <1>5, <1>6
    <2>. QED  BY <1>4, <1>6, <1>10, <2>1, <2>2 DEF Near
  <1>12. Counted(t)
    <2>1. IsFiniteSet(s.buffer) /\ Cardinality(s.buffer) \in Nat
      BY <1>1, BufferIsFinite
    <2>2. Cardinality(B) = Cardinality(s.buffer) + 1
      BY <1>3, <2>1, FS_AddElement
    <2>3. s.position = s.accepted - Cardinality(s.buffer) + s.missing
          /\ s.emitted + s.pcm = s.position * PacketSamples
      BY <1>1 DEF Counted
    <2>4. t.position = t.accepted - Cardinality(t.buffer) + t.missing
      BY <1>2, <1>4, <2>1, <2>2, <2>3
    <2>5. t.emitted + t.pcm = t.position * PacketSamples
      BY <1>4, <2>3
    <2>. QED  BY <2>4, <2>5 DEF Counted
  <1>13. Cut(t)
    BY <1>1, <1>4 DEF Cut
  <1>. QED  BY <1>4, <1>7, <1>8, <1>9, <1>11, <1>12, <1>13 DEF Sound

-----------------------------------------------------------------------------
(* The calls keep the inductive invariant. *)

\* The record of a new source is sound and at rest.
LEMMA NewSourceIsSound ==
    ASSUME NEW generation \in 0 .. MaxGeneration, NEW time \in Times
    PROVE  LET s == NewSource(generation, time)
           IN  /\ Sound(s) /\ Rested(s) /\ s.generation = generation
               /\ s.queue = <<>> /\ s.chunks = 0 /\ s.buffer = {} /\ s \in Source
  <1> DEFINE s == NewSource(generation, time)
  <1>1. FirstSequence \in 0 .. Modulus - 1 /\ FirstTimestamp \in 0 .. TimestampModulus - 1
    BY RtpAssumption
  <1>2. /\ s.generation = generation /\ s.expected = FirstSequence
        /\ s.timestamp = FirstTimestamp /\ s.last = time /\ s.buffer = {}
        /\ s.prints = {} /\ s.pcm = 0 /\ s.queue = <<>> /\ s.gap = NoGap
        /\ s.accepted = 0 /\ s.missing = 0 /\ s.emitted = 0 /\ s.chunks = 0
        /\ s.position = 0 /\ s.failure = "none"
    BY DEF NewSource
  <1>3. s \in Source
    <2>1. <<>> \in Seq(Chunks) /\ 0 \in 0 .. ChunkSamples - 1
      BY Limits
    <2>2. s \in [generation : 0 .. MaxGeneration, expected : 0 .. Modulus - 1,
                 timestamp : 0 .. TimestampModulus - 1, last : Times,
                 buffer : SUBSET Packets,
                 prints : SUBSET [order : Nat, packet : Packets],
                 pcm : 0 .. ChunkSamples - 1, queue : Seq(Chunks),
                 gap : Times \cup {NoGap}, accepted : Nat, missing : Nat,
                 emitted : Nat, chunks : Nat, position : Nat, failure : {"none"}]
      BY <1>1, <2>1 DEF NewSource
    <2>. QED  BY <2>2 DEF Source, Chunks
  <1> HIDE DEF s
  <1>4. Placed(s)
    <2>1. (FirstSequence + 0) % Modulus = FirstSequence
      <3>1. Modulus \in Nat \ {0} /\ -Modulus <= FirstSequence /\ FirstSequence < Modulus
            /\ FirstSequence \in Int /\ FirstSequence >= 0 /\ FirstSequence + 0 = FirstSequence
        BY <1>1, Limits
      <3>. QED  BY <3>1, WithinOneLap
    <2>2. (FirstTimestamp + 0) % TimestampModulus = FirstTimestamp
      <3>1. /\ TimestampModulus \in Nat \ {0} /\ -TimestampModulus <= FirstTimestamp
            /\ FirstTimestamp < TimestampModulus /\ FirstTimestamp \in Int
            /\ FirstTimestamp >= 0 /\ FirstTimestamp + 0 = FirstTimestamp
        BY <1>1, Limits
      <3>. QED  BY <3>1, WithinOneLap
    <2>3. 0 * PacketSamples = 0
      BY Limits
    <2>. QED  BY <1>2, <2>1, <2>2, <2>3 DEF Placed, AdvanceTimestamp
  <1>5. Windowed(s) /\ Near(s)
    BY <1>2, FS_EmptySet DEF Windowed, Near
  <1>6. Counted(s)
    <2>1. Cardinality({}) = 0 /\ 0 * PacketSamples = 0
      BY FS_EmptySet, Limits
    <2>. QED  BY <1>2, <2>1 DEF Counted
  <1>7. Cut(s)
    <2>1. 0 * ChunkSamples = 0 /\ Len(s.queue) = 0 /\ 0 <= MaxOutput
      BY <1>2, Limits
    <2>. QED  BY <1>2, <2>1 DEF Cut
  <1>8. Rested(s)
    BY <1>2 DEF Rested, Clocked
  <1>. QED  BY <1>2, <1>3, <1>4, <1>5, <1>6, <1>7, <1>8 DEF Sound, s

\* The types of what the history keeps of a source.
LEMMA HistoryTypes ==
    ASSUME IInv, NEW g \in DOMAIN timeline
    PROVE  /\ timeline[g] \in Seq(Chunks) /\ Len(timeline[g]) \in Nat
           /\ delivered[g] \in Nat /\ delivered[g] <= Len(timeline[g])
           /\ g \in DOMAIN delivered /\ g \in Generations
           /\ g <= highest /\ g \in Nat /\ highest \in Nat
  <1> DEFINE t == timeline[g]
  <1>1. t \in Seq(Chunks)
    BY DEF IInv, HistoryOK, Chunks
  <1> HIDE DEF t
  <1>2. Len(t) \in Nat
    BY <1>1
  <1>3. delivered[g] \in 0 .. Len(t)
    BY DEF IInv, HistoryOK, t
  <1>4. g \in 1 .. highest /\ g \in DOMAIN delivered /\ g \in Generations
        /\ highest \in Nat
    BY DEF IInv, HistoryOK, TypeOK
  <1>. QED  BY <1>1, <1>2, <1>3, <1>4 DEF t

\* A step of g's own delivery, and none of another source's.
Still(g) == /\ Phase(g)' = Phase(g)
            /\ g \in DOMAIN timeline' <=> g \in DOMAIN timeline
            /\ g \in DOMAIN delivered' <=> g \in DOMAIN delivered
            /\ g \in DOMAIN timeline => timeline'[g] = timeline[g]
            /\ g \in DOMAIN delivered => delivered'[g] = delivered[g]

\* Where nothing of a delivery moves, it stutters.
LEMMA StillStutters ==
    ASSUME NEW g \in Generations, Still(g)
    PROVE  [Delivery(g)!Next]_(Delivery(g)!vars)
  BY DEF Still, Delivery!vars

\* A call that is refused changes nothing.
LEMMA RefuseIsSafe ==
    ASSUME IInv, NEW reason, Refuse(reason)
    PROVE  IInv' /\ DeliveryStep
  <1>1. IInv'
    BY DEF Refuse, IInv, TypeOK, HistoryOK, Sound, Rested, Clocked, Placed, Windowed,
           Near, Counted, Cut, Remembered, Reach, Younger
  <1>2. \A g \in Generations : Still(g)
    BY DEF Refuse, Still, Phase
  <1>. QED  BY <1>1, <1>2, StillStutters DEF DeliveryStep

\* Open is what has started, is not over and was not given up.
IsOpen(g) == /\ g \in DOMAIN timeline
             /\ phase \in {"active", "ended"}
             /\ g = source.generation

\* The phase of a delivery, case by case ...
LEMMA PhaseIs ==
    ASSUME TypeOK, NEW g \in Generations
    PROVE  /\ g \notin DOMAIN timeline => Phase(g) = "unknown"
           /\ IsOpen(g) => Phase(g) = "open"
           /\ g \in DOMAIN timeline /\ ~IsOpen(g) => Phase(g) = "closed"
  <1>1. phase \in {"none", "active", "ended", "failed"}
    BY DEF TypeOK
  <1>2. CASE g \notin DOMAIN timeline
    BY <1>2 DEF Phase, IsOpen
  <1>3. CASE IsOpen(g)
    BY <1>3 DEF Phase, IsOpen
  <1>4. CASE g \in DOMAIN timeline /\ ~IsOpen(g)
    BY <1>1, <1>4 DEF Phase, IsOpen
  <1>. QED  BY <1>2, <1>3, <1>4

\* ... and after the step.
LEMMA PhaseWillBe ==
    ASSUME TypeOK', NEW g \in Generations
    PROVE  /\ g \notin DOMAIN timeline' => Phase(g)' = "unknown"
           /\ IsOpen(g)' => Phase(g)' = "open"
           /\ g \in DOMAIN timeline' /\ ~IsOpen(g)' => Phase(g)' = "closed"
  <1>1. phase' \in {"none", "active", "ended", "failed"}
    BY DEF TypeOK
  <1>2. CASE g \notin DOMAIN timeline'
    BY <1>2 DEF Phase, IsOpen
  <1>3. CASE IsOpen(g)'
    BY <1>3 DEF Phase, IsOpen
  <1>4. CASE g \in DOMAIN timeline' /\ ~IsOpen(g)'
    BY <1>1, <1>4 DEF Phase, IsOpen
  <1>. QED  BY <1>2, <1>3, <1>4

\* A source that was open is closed, or stays as it is.
LEMMA StopsOrStays ==
    ASSUME TypeOK, TypeOK', UNCHANGED <<timeline, delivered>>,
           DOMAIN delivered = DOMAIN timeline,
           \A g \in Generations : IsOpen(g)' => IsOpen(g)
    PROVE  DeliveryStep
  <1> SUFFICES ASSUME NEW g \in Generations
               PROVE  [Delivery(g)!Next]_(Delivery(g)!vars)
    BY DEF DeliveryStep
  <1>1. CASE g \notin DOMAIN timeline
    BY <1>1, PhaseIs, PhaseWillBe, StillStutters DEF Still, IsOpen
  <1>2. CASE g \in DOMAIN timeline /\ (IsOpen(g)' <=> IsOpen(g))
    BY <1>2, PhaseIs, PhaseWillBe, StillStutters DEF Still
  <1>3. CASE g \in DOMAIN timeline /\ IsOpen(g) /\ ~IsOpen(g)'
    <2>1. Phase(g) = "open" /\ Phase(g)' = "closed"
      BY <1>3, PhaseIs, PhaseWillBe
    <2>2. Delivery(g)!Close
      BY <1>3, <2>1 DEF Delivery!Close
    <2>. QED  BY <2>2 DEF Delivery!Next
  <1>. QED  BY <1>1, <1>2, <1>3

\* Giving a source up closes its delivery.
LEMMA FailIsSafe ==
    ASSUME IInv, phase = "active", NEW reason, Fail(reason)
    PROVE  IInv' /\ DeliveryStep
  <1>1. /\ phase' = "failed" /\ highest' = highest
        /\ timeline' = timeline /\ delivered' = delivered
        /\ source' = [source EXCEPT !.buffer = {}, !.prints = {}, !.pcm = 0,
                                    !.queue = <<>>]
    BY DEF Fail
  <1>2. TypeOK /\ HistoryOK /\ source \in Source
    BY DEF IInv, TypeOK
  <1>3. source'.generation = source.generation /\ source'.queue = <<>>
        /\ source'.buffer = {}
    BY <1>1, <1>2 DEF Source
  <1>4. source' \in Source
    <2>1. <<>> \in Seq(Chunks) /\ 0 \in 0 .. ChunkSamples - 1
      BY Limits
    <2>2. Source = [generation : 0 .. MaxGeneration, expected : 0 .. Modulus - 1,
                 timestamp : 0 .. TimestampModulus - 1, last : Times,
                 buffer : SUBSET Packets,
                 prints : SUBSET [order : Nat, packet : Packets],
                 pcm : 0 .. ChunkSamples - 1, queue : Seq(Chunks),
                 gap : Times \cup {NoGap}, accepted : Nat, missing : Nat,
                 emitted : Nat, chunks : Nat, position : Nat, failure : {"none"}]
      BY DEF Source, Chunks
    <2>. QED  BY <1>1, <1>2, <2>1, <2>2
  <1>5. TypeOK'
    <2>1. Cardinality(source'.buffer) <= MaxReorder /\ Len(source'.queue) <= MaxOutput
      BY <1>3, FS_EmptySet, Limits
    <2>. QED  BY <1>1, <1>2, <1>4, <2>1 DEF TypeOK
  <1>6. HistoryOK'
    BY <1>1, <1>2, <1>3 DEF HistoryOK
  <1>7. IInv'
    BY <1>1, <1>3, <1>5, <1>6 DEF IInv
  <1>8. DeliveryStep
    <2>1. \A g \in Generations : IsOpen(g)' => IsOpen(g)
      BY <1>1 DEF IsOpen
    <2>. QED  BY <1>1, <1>2, <1>5, <2>1, StopsOrStays DEF HistoryOK
  <1>. QED  BY <1>7, <1>8

\* So does a reset.
LEMMA ResetIsSafe ==
    ASSUME IInv, Reset
    PROVE  IInv' /\ DeliveryStep
  <1>1. /\ phase' = "none" /\ source' = NewSource(0, 0) /\ highest' = highest
        /\ timeline' = timeline /\ delivered' = delivered
    BY DEF Reset
  <1>2. TypeOK /\ HistoryOK
    BY DEF IInv
  <1>3. source' \in Source /\ source'.buffer = {} /\ source'.queue = <<>>
    BY <1>1, NewSourceIsSound, Limits DEF Times
  <1>4. TypeOK'
    <2>1. Cardinality(source'.buffer) <= MaxReorder /\ Len(source'.queue) <= MaxOutput
      BY <1>3, FS_EmptySet, Limits
    <2>. QED  BY <1>1, <1>2, <1>3, <2>1 DEF TypeOK
  <1>5. IInv'
    BY <1>1, <1>2, <1>4 DEF IInv, HistoryOK
  <1>6. DeliveryStep
    <2>1. \A g \in Generations : IsOpen(g)' => IsOpen(g)
      BY <1>1 DEF IsOpen
    <2>. QED  BY <1>1, <1>2, <1>4, <2>1, StopsOrStays DEF HistoryOK
  <1>. QED  BY <1>5, <1>6

\* A new generation opens a delivery of its own and closes the one before.
LEMMA InitializeIsSafe ==
    ASSUME IInv, NEW generation \in Generations, NEW time \in Times,
           generation > highest, Initialize(generation, time)
    PROVE  IInv' /\ DeliveryStep
  <1>1. /\ phase' = "active" /\ source' = NewSource(generation, time)
        /\ highest' = generation
        /\ DOMAIN timeline' = DOMAIN timeline \cup {generation}
        /\ DOMAIN delivered' = DOMAIN delivered \cup {generation}
        /\ timeline'[generation] = <<>> /\ delivered'[generation] = 0
        /\ \A g \in DOMAIN timeline : g # generation => timeline'[g] = timeline[g]
        /\ \A g \in DOMAIN delivered : g # generation => delivered'[g] = delivered[g]
    BY DEF Initialize
  <1>2. TypeOK /\ HistoryOK /\ highest \in 0 .. MaxGeneration
    BY DEF IInv, TypeOK
  <1>3. generation \in 1 .. MaxGeneration /\ generation \in 0 .. MaxGeneration
        /\ highest \in Nat
    BY <1>2, Limits DEF Generations
  <1>4. /\ source' \in Source /\ source'.buffer = {} /\ source'.queue = <<>>
        /\ source'.generation = generation /\ source'.chunks = 0
        /\ Sound(source') /\ Rested(source')
    BY <1>1, <1>3, NewSourceIsSound
  <1>5. generation \notin DOMAIN timeline
    BY <1>2, <1>3 DEF HistoryOK
  <1>6. TypeOK'
    <2>1. Cardinality(source'.buffer) <= MaxReorder /\ Len(source'.queue) <= MaxOutput
      BY <1>4, FS_EmptySet, Limits
    <2>. QED  BY <1>1, <1>2, <1>3, <1>4, <2>1 DEF TypeOK
  <1>7. HistoryOK'
    <2>1. DOMAIN delivered' = DOMAIN timeline'
      BY <1>1, <1>2 DEF HistoryOK
    <2>2. DOMAIN timeline' \subseteq 1 .. highest'
      BY <1>1, <1>2, <1>3 DEF HistoryOK
    <2>3. ASSUME NEW g \in DOMAIN timeline'
          PROVE  /\ timeline'[g] \in Seq([seq : Nat, payload : SampleCounts, start : Nat])
                 /\ delivered'[g] \in 0 .. Len(timeline'[g])
                 /\ (Delivery(g)!GapFree(timeline[g]))'
      <3>1. CASE g = generation
        BY <1>1, <3>1 DEF Delivery!GapFree
      <3>2. CASE g # generation
        <4>1. g \in DOMAIN timeline /\ g \in DOMAIN delivered
          BY <1>1, <1>2, <3>2 DEF HistoryOK
        <4>2. timeline'[g] = timeline[g] /\ delivered'[g] = delivered[g]
          BY <1>1, <3>2, <4>1
        <4>3. /\ timeline[g] \in Seq([seq : Nat, payload : SampleCounts, start : Nat])
              /\ delivered[g] \in 0 .. Len(timeline[g])
              /\ Delivery(g)!GapFree(timeline[g])
          BY <1>2, <4>1 DEF HistoryOK
        <4>. QED  BY <4>2, <4>3 DEF Delivery!GapFree, Delivery!Follows
      <3>. QED  BY <3>1, <3>2
    <2>4. source'.generation \in DOMAIN timeline'
      BY <1>1, <1>4
    <2>5. delivered'[source'.generation] + Len(source'.queue)
              = Len(timeline'[source'.generation])
      BY <1>1, <1>4
    <2>6. /\ Len(timeline'[source'.generation]) = source'.chunks
          /\ \A i \in 1 .. source'.chunks :
                (timeline'[source'.generation])[i] = FullChunk(i)
      BY <1>1, <1>4
    <2>. QED  BY <2>1, <2>2, <2>3, <2>4, <2>5, <2>6 DEF HistoryOK
  <1>8. IInv'
    BY <1>1, <1>4, <1>6, <1>7
       DEF IInv, Sound, Rested, Clocked, Placed, Windowed, Near, Counted, Cut,
           Remembered, Reach, Younger
  <1>9. ASSUME NEW g \in Generations
        PROVE  [Delivery(g)!Next]_(Delivery(g)!vars)
    <2>1. IsOpen(g)' <=> g = generation
      BY <1>1, <1>4 DEF IsOpen
    <2>2. CASE g = generation
      <3>1. Phase(g) = "unknown" /\ Phase(g)' = "open"
        BY <1>2, <1>5, <1>6, <2>1, <2>2, PhaseIs, PhaseWillBe
      <3>2. g \in DOMAIN timeline' /\ g \in DOMAIN delivered'
            /\ timeline'[g] = <<>> /\ delivered'[g] = 0
        BY <1>1, <2>2
      <3>3. Delivery(g)!Open
        BY <3>1, <3>2 DEF Delivery!Open, Delivery!GapFree
      <3>. QED  BY <3>3 DEF Delivery!Next
    <2>3. CASE g # generation /\ g \notin DOMAIN timeline
      <3>1. g \notin DOMAIN timeline' /\ g \notin DOMAIN delivered'
            /\ g \notin DOMAIN delivered
        BY <1>1, <1>2, <2>3 DEF HistoryOK
      <3>. QED  BY <1>2, <1>6, <2>3, <3>1, PhaseIs, PhaseWillBe, StillStutters DEF Still
    <2>4. CASE g # generation /\ g \in DOMAIN timeline
      <3>1. /\ g \in DOMAIN timeline' /\ g \in DOMAIN delivered /\ g \in DOMAIN delivered'
            /\ timeline'[g] = timeline[g] /\ delivered'[g] = delivered[g]
        BY <1>1, <1>2, <2>4 DEF HistoryOK
      <3>2. Phase(g)' = "closed"
        BY <1>6, <2>1, <2>4, <3>1, PhaseWillBe
      <3>3. CASE IsOpen(g)
        <4>1. Delivery(g)!Close
          BY <1>2, <3>1, <3>2, <3>3, PhaseIs DEF Delivery!Close
        <4>. QED  BY <4>1 DEF Delivery!Next
      <3>4. CASE ~IsOpen(g)
        BY <1>2, <2>4, <3>1, <3>2, <3>4, PhaseIs, StillStutters DEF Still
      <3>. QED  BY <3>3, <3>4
    <2>. QED  BY <2>2, <2>3, <2>4
  <1>. QED  BY <1>8, <1>9 DEF DeliveryStep

\* A timeline of full chunks has no gap, and a last chunk that is shorter may
\* follow.
LEMMA FullChunksFollow ==
    ASSUME NEW g, NEW t \in Seq(Chunks), NEW n \in Nat, Len(t) >= n,
           \A i \in 1 .. n : t[i] = FullChunk(i),
           \/ Len(t) = n
           \/ /\ Len(t) = n + 1
              /\ t[n + 1].seq = n /\ t[n + 1].start = n * ChunkSamples
    PROVE  Delivery(g)!GapFree(t)
  <1>1. Len(t) \in Nat /\ ChunkSamples \in Nat \ {0}
    BY Limits
  <1>2. \A i \in 1 .. n : /\ t[i].seq = i - 1 /\ t[i].payload = ChunkSamples
                          /\ t[i].start = (i - 1) * ChunkSamples
    <2> TAKE i \in 1 .. n
    <2>1. t[i] = FullChunk(i)
      OBVIOUS
    <2>2. i \in Nat \ {0}
      OBVIOUS
    <2>. QED  BY <2>1, <2>2, FullChunkType
  <1>3. ChunkDuration[ChunkSamples] = ChunkSamples
    BY <1>1 DEF ChunkDuration, SampleCounts
  <1>4. t # <<>> => t[1].start = 0
    <2>1. 0 * ChunkSamples = 0
      BY <1>1
    <2>2. t # <<>> => Len(t) >= 1
      OBVIOUS
    <2>3. CASE n >= 1
      BY <1>2, <2>1, <2>3
    <2>4. CASE n = 0
      BY <1>1, <2>1, <2>2, <2>4
    <2>. QED  BY <2>3, <2>4
  <1>5. ASSUME NEW i \in 1 .. Len(t) - 1
        PROVE  /\ t[i + 1].seq = t[i].seq + 1
               /\ t[i + 1].start = t[i].start + ChunkDuration[t[i].payload]
    <2>1. i \in 1 .. n
      BY <1>1
    <2>2. /\ t[i].seq = i - 1 /\ t[i].payload = ChunkSamples
          /\ t[i].start = (i - 1) * ChunkSamples
      BY <1>2, <2>1
    <2>3. t[i + 1].seq = i /\ t[i + 1].start = i * ChunkSamples
      <3>1. CASE i < n
        <4>1. i + 1 \in 1 .. n /\ (i + 1) - 1 = i
          BY <3>1
        <4>2. t[i + 1].seq = (i + 1) - 1 /\ t[i + 1].start = ((i + 1) - 1) * ChunkSamples
          BY <1>2, <4>1
        <4>. QED  BY <4>1, <4>2
      <3>2. CASE i = n
        BY <1>1, <3>2
      <3>. QED  BY <2>1, <3>1, <3>2
    <2>4. i * ChunkSamples = (i - 1) * ChunkSamples + ChunkSamples
      <3>1. PICK j \in Int, c \in Int : j = i - 1 /\ c = ChunkSamples
        BY <1>1
      <3>2. (j + 1) * c = j * c + 1 * c /\ 1 * c = c
        BY Distributes
      <3>3. j + 1 = i
        BY <3>1
      <3>. QED  BY <3>1, <3>2, <3>3
    <2>5. i = (i - 1) + 1
      OBVIOUS
    <2>. QED  BY <1>3, <2>2, <2>3, <2>4, <2>5
  <1>. QED  BY <1>4, <1>5 DEF Delivery!GapFree, Delivery!Follows

\* A record that went on cutting chunks adds them to the timeline.
LEMMA TimelineGrows ==
    ASSUME IInv, phase = "active", NEW s, Sound(s), GoesOn(source, s)
    PROVE  LET g == source.generation
               new == SubSeq(s.queue, Len(source.queue) + 1, Len(s.queue))
               t == timeline[g] \o new
           IN  /\ g \in DOMAIN timeline /\ s.generation = g
               /\ timeline[g] \in Seq(Chunks) /\ t \in Seq(Chunks)
               /\ Len(timeline[g]) = source.chunks /\ Len(t) = s.chunks
               /\ \A i \in 1 .. Len(timeline[g]) : t[i] = timeline[g][i]
               /\ \A i \in 1 .. s.chunks : t[i] = FullChunk(i)
               /\ delivered[g] + Len(s.queue) = Len(t)
               /\ Len(s.queue) >= Len(source.queue) /\ Len(source.queue) \in Nat
  <1> DEFINE g == source.generation
             new == SubSeq(s.queue, Len(source.queue) + 1, Len(s.queue))
             t == timeline[g] \o new
  <1>1. Sound(source) /\ HistoryOK
    BY DEF IInv
  <1>2. /\ source.chunks \in Nat /\ s.chunks \in Nat
        /\ source.queue \in Seq(Chunks) /\ s.queue \in Seq(Chunks)
    BY <1>1, Fields DEF Sound, Chunks
  <1>3. Len(source.queue) \in Nat /\ Len(s.queue) \in Nat
    BY <1>2
  <1>4. /\ s.generation = g /\ s.chunks >= source.chunks
        /\ Len(s.queue) - s.chunks = Len(source.queue) - source.chunks
    BY DEF Grown, GoesOn
  <1>5. /\ g \in DOMAIN timeline /\ Len(timeline[g]) = source.chunks
        /\ delivered[g] + Len(source.queue) = Len(timeline[g])
        /\ \A i \in 1 .. source.chunks : timeline[g][i] = FullChunk(i)
    BY <1>1 DEF HistoryOK
  <1>6. timeline[g] \in Seq(Chunks) /\ delivered[g] \in Nat
    BY <1>5, HistoryTypes
  <1>7. PICK a \in Nat, b \in Nat, q \in Seq(Chunks) :
           a = Len(source.queue) /\ b = Len(s.queue) /\ q = s.queue
    BY <1>2, <1>3
  <1>8. a <= b /\ b - s.chunks = a - source.chunks
    <2>1. b - s.chunks = a - source.chunks
      BY <1>4, <1>7
    <2>. QED  BY <1>2, <1>4, <2>1
  <1>9. /\ new \in Seq(Chunks) /\ Len(new) = b - a
        /\ \A i \in 1 .. Len(new) : new[i] = s.queue[a + i]
    <2>1. new = SubSeq(q, a + 1, b) /\ Len(q) = b
      BY <1>7
    <2>2. /\ SubSeq(q, a + 1, b) \in Seq(Chunks) /\ Len(SubSeq(q, a + 1, b)) = b - a
          /\ \A i \in 1 .. b - a : SubSeq(q, a + 1, b)[i] = q[a + i]
      <3>. QED  BY <1>8, <2>1
    <2>. QED  BY <1>7, <2>1, <2>2
  <1> HIDE DEF new
  <1>10. \A i \in 1 .. Len(new) : new[i] = FullChunk(source.chunks + i)
    <2> SUFFICES ASSUME NEW i \in 1 .. Len(new)
                 PROVE  new[i] = FullChunk(source.chunks + i)
      OBVIOUS
    <2>1. i \in 1 .. b - a /\ new[i] = s.queue[a + i]
      BY <1>9
    <2>2. a + i \in DOMAIN s.queue
      BY <1>2, <1>7, <1>8, <2>1
    <2>3. s.queue[a + i] = FullChunk(s.chunks - Len(s.queue) + (a + i))
      BY <2>2 DEF Sound, Cut
    <2>4. s.chunks - Len(s.queue) + (a + i) = source.chunks + i
      <3>1. PICK c \in Int, d \in Int : c = source.chunks /\ d = s.chunks
        BY <1>2
      <3>2. b - d = a - c /\ i \in Int /\ a \in Int /\ b \in Int
        BY <1>8, <2>1, <3>1
      <3>3. d - b + (a + i) = c + i
        BY <3>2, SameDifference
      <3>. QED  BY <1>7, <3>1, <3>3
    <2>. QED  BY <2>1, <2>3, <2>4
  <1>11. /\ t \in Seq(Chunks) /\ Len(t) = source.chunks + (b - a)
         /\ \A i \in 1 .. Len(t) :
               t[i] = IF i <= source.chunks THEN timeline[g][i]
                      ELSE new[i - source.chunks]
    <2>1. PICK u \in Seq(Chunks) : u = timeline[g]
      BY <1>6
    <2>2. PICK v \in Seq(Chunks) : v = new
      BY <1>9
    <2>3. /\ u \o v \in Seq(Chunks) /\ Len(u \o v) = Len(u) + Len(v)
          /\ \A i \in 1 .. Len(u \o v) :
                (u \o v)[i] = IF i <= Len(u) THEN u[i] ELSE v[i - Len(u)]
      BY Concatenation
    <2>4. t = u \o v /\ Len(u) = source.chunks /\ Len(v) = b - a
      BY <1>5, <1>9, <2>1, <2>2
    <2>. QED  BY <2>1, <2>2, <2>3, <2>4
  <1> HIDE DEF t
  <1>12. Len(t) = s.chunks
    BY <1>2, <1>8, <1>11
  <1>13. ASSUME NEW i \in 1 .. s.chunks PROVE t[i] = FullChunk(i)
    <2>1. CASE i <= source.chunks
      BY <1>2, <1>5, <1>11, <1>12, <2>1
    <2>2. CASE i > source.chunks
      <3>1. i - source.chunks \in 1 .. Len(new) /\ source.chunks + (i - source.chunks) = i
        <4>1. Len(new) = s.chunks - source.chunks
          <5>1. Len(new) = b - a /\ b - s.chunks = a - source.chunks
            BY <1>8, <1>9
          <5>2. s.chunks \in Nat /\ source.chunks \in Nat
            BY <1>2
          <5>. QED  BY SMTT(40), <5>1, <5>2
        <4>2. s.chunks \in Nat /\ source.chunks \in Nat
          BY <1>2
        <4>. QED  BY <2>2, <4>1, <4>2
      <3>2. t[i] = new[i - source.chunks]
        BY <1>2, <1>11, <1>12, <2>2
      <3>. QED  BY <1>10, <3>1, <3>2
    <2>. QED  BY <1>2, <2>1, <2>2
  <1>14. \A i \in 1 .. Len(timeline[g]) : t[i] = timeline[g][i]
    BY <1>2, <1>4, <1>5, <1>11, <1>12
  <1>15. delivered[g] + Len(s.queue) = Len(t)
    <2>1. PICK d \in Nat : d = delivered[g]
      BY <1>6
    <2>2. d + a = source.chunks
      BY <1>5, <1>7, <2>1
    <2>3. d + b = s.chunks
      BY SMTT(40), <1>2, <1>8, <2>2
    <2>. QED  BY <1>7, <1>12, <2>1, <2>3
  <1>. QED  BY <1>4, <1>5, <1>6, <1>7, <1>8, <1>11, <1>12, <1>13, <1>14, <1>15
            DEF t, new

\* The open source's timeline grows by what was queued; nothing else moves.
LEMMA AdmitIsDelivery ==
    ASSUME TypeOK, TypeOK', HistoryOK,
           phase = "active", phase' \in {"active", "ended"},
           source'.generation = source.generation,
           delivered' = delivered,
           NEW t, timeline' = [timeline EXCEPT ![source.generation] = t],
           t \in Seq(Chunks),
           \A i \in 1 .. Len(timeline[source.generation]) :
               t[i] = timeline[source.generation][i],
           Len(timeline[source.generation]) <= Len(t),
           Delivery(source.generation)!GapFree(t)
    PROVE  DeliveryStep
  <1> DEFINE h == source.generation
  <1>1. h \in DOMAIN timeline /\ DOMAIN delivered = DOMAIN timeline
        /\ timeline[h] \in Seq(Chunks)
    BY DEF HistoryOK, Chunks
  <1>2. /\ DOMAIN timeline' = DOMAIN timeline /\ timeline'[h] = t
        /\ \A k \in DOMAIN timeline : k # h => timeline'[k] = timeline[k]
    BY <1>1
  <1>3. \A g \in Generations : IsOpen(g)' <=> IsOpen(g)
    BY <1>2 DEF IsOpen
  <1>4. ASSUME NEW g \in Generations
        PROVE  [Delivery(g)!Next]_(Delivery(g)!vars)
    <2>1. CASE g # h
      BY <1>1, <1>2, <1>3, <2>1, PhaseIs, PhaseWillBe, StillStutters DEF Still
    <2>2. CASE g = h
      <3>1. Phase(g) = "open" /\ Phase(g)' = "open"
        BY <1>1, <1>3, <2>2, PhaseIs, PhaseWillBe DEF IsOpen
      <3>2. Delivery(g)!Extends(t, timeline[h])
        BY <1>1 DEF Delivery!Extends
      <3>3. Delivery(g)!GapFree(t)
        BY <2>2
      <3>4. g \in DOMAIN timeline /\ g \in DOMAIN timeline' /\ timeline'[g] = t
            /\ g \in DOMAIN delivered
        BY <1>1, <1>2, <2>2
      <3>5. Delivery(g)!Admit
        BY <2>2, <3>1, <3>2, <3>3, <3>4 DEF Delivery!Admit
      <3>. QED  BY <3>5 DEF Delivery!Next
    <2>. QED  BY <2>1, <2>2
  <1>. QED  BY <1>4 DEF DeliveryStep

\* A record whose new chunks follow on in the timeline may take the source's
\* place, as long as its source goes on or has ended.
LEMMA ProceedKeepsHistory ==
    ASSUME IInv, phase = "active",
           NEW s \in Source, s.generation = source.generation,
           Cardinality(s.buffer) <= MaxReorder, Len(s.queue) <= MaxOutput,
           NEW nextPhase \in {"active", "ended"}, NEW reason,
           Proceed(s, nextPhase, reason),
           NEW t \in Seq(Chunks),
           t = timeline[source.generation]
                  \o SubSeq(s.queue, Len(source.queue) + 1, Len(s.queue)),
           Delivery(source.generation)!GapFree(t),
           Len(timeline[source.generation]) <= Len(t),
           \A i \in 1 .. Len(timeline[source.generation]) :
               t[i] = timeline[source.generation][i],
           delivered[source.generation] + Len(s.queue) = Len(t),
           nextPhase = "active" =>
               Len(t) = s.chunks /\ \A i \in 1 .. s.chunks : t[i] = FullChunk(i)
    PROVE  /\ source' = s /\ phase' = nextPhase
           /\ TypeOK' /\ HistoryOK' /\ DeliveryStep
  <1> DEFINE h == source.generation
  <1>1. TypeOK /\ HistoryOK
    BY DEF IInv
  <1>2. h \in DOMAIN timeline /\ DOMAIN delivered = DOMAIN timeline
    BY <1>1 DEF HistoryOK
  <1>3. /\ phase' = nextPhase /\ source' = s /\ highest' = highest
        /\ delivered' = delivered /\ timeline' = [timeline EXCEPT ![h] = t]
    BY DEF Proceed
  <1>4. /\ DOMAIN timeline' = DOMAIN timeline /\ timeline'[h] = t
        /\ \A k \in DOMAIN timeline : k # h => timeline'[k] = timeline[k]
    BY <1>2, <1>3
  <1>5. Len(t) \in Nat /\ delivered[h] \in Nat /\ delivered[h] <= Len(timeline[h])
        /\ Len(timeline[h]) \in Nat
    <2>1. Len(t) \in Nat
      BY LengthType, Zenon
    <2>. QED  BY <1>2, <2>1, HistoryTypes
  <1>6. TypeOK'
    BY <1>1, <1>3, <1>4 DEF TypeOK
  <1>7. HistoryOK'
    <2>1. DOMAIN delivered' = DOMAIN timeline' /\ DOMAIN timeline' \subseteq 1 .. highest'
      BY <1>1, <1>3, <1>4 DEF HistoryOK
    <2>2. ASSUME NEW g \in DOMAIN timeline'
          PROVE  /\ timeline'[g] \in Seq([seq : Nat, payload : SampleCounts, start : Nat])
                 /\ delivered'[g] \in 0 .. Len(timeline'[g])
                 /\ (Delivery(g)!GapFree(timeline[g]))'
      <3>1. CASE g = h
        <4>1. delivered[h] \in 0 .. Len(t)
          <5>1. PICK d \in Nat, a \in Nat, b \in Nat :
                   d = delivered[h] /\ a = Len(timeline[h]) /\ b = Len(t)
            BY <1>5
          <5>2. d <= a /\ a <= b
            BY <1>5, <5>1
          <5>3. d \in 0 .. b
            BY <5>2
          <5>. QED  BY <5>1, <5>3, Zenon
        <4>2. t \in Seq([seq : Nat, payload : SampleCounts, start : Nat])
          BY DEF Chunks
        <4>. QED  BY <1>3, <1>4, <3>1, <4>1, <4>2 DEF Delivery!GapFree, Delivery!Follows
      <3>2. CASE g # h
        <4>1. g \in DOMAIN timeline /\ timeline'[g] = timeline[g]
          BY <1>4, <3>2
        <4>2. /\ timeline[g] \in Seq([seq : Nat, payload : SampleCounts, start : Nat])
              /\ delivered[g] \in 0 .. Len(timeline[g])
              /\ Delivery(g)!GapFree(timeline[g])
          BY <1>1, <4>1 DEF HistoryOK
        <4>. QED  BY <1>3, <4>1, <4>2 DEF Delivery!GapFree, Delivery!Follows
      <3>. QED  BY <3>1, <3>2
    <2>3. source'.generation = h /\ h \in DOMAIN timeline'
      BY <1>2, <1>3, <1>4
    <2>4. delivered'[h] + Len(source'.queue) = Len(timeline'[h])
      BY <1>3, <1>4
    <2>5. phase' = "active" =>
             /\ Len(timeline'[h]) = source'.chunks
             /\ \A i \in 1 .. source'.chunks : (timeline'[h])[i] = FullChunk(i)
      BY <1>3, <1>4
    <2> HIDE DEF h
    <2>. QED  BY <2>1, <2>2, <2>3, <2>4, <2>5 DEF HistoryOK
  <1>8. DeliveryStep
    BY <1>1, <1>3, <1>6, AdmitIsDelivery
  <1>. QED  BY <1>3, <1>6, <1>7, <1>8

\* The source goes on.
LEMMA GoingOnIsSafe ==
    ASSUME IInv, phase = "active", NEW s, Sound(s), Rested(s), GoesOn(source, s),
           NEW reason, Proceed(s, "active", reason)
    PROVE  IInv' /\ DeliveryStep
  <1> DEFINE h == source.generation
             t == timeline[h] \o SubSeq(s.queue, Len(source.queue) + 1, Len(s.queue))
  <1>1. s \in Source /\ Placed(s) /\ Windowed(s) /\ Cut(s)
    BY DEF Sound
  <1>2. Cardinality(s.buffer) <= MaxReorder /\ Len(s.queue) <= MaxOutput
    BY <1>1, RestedBuffer DEF Rested, Cut
  <1>3. /\ h \in DOMAIN timeline /\ s.generation = h
        /\ t \in Seq(Chunks) /\ Len(timeline[h]) = source.chunks /\ Len(t) = s.chunks
        /\ \A i \in 1 .. Len(timeline[h]) : t[i] = timeline[h][i]
        /\ \A i \in 1 .. s.chunks : t[i] = FullChunk(i)
        /\ delivered[h] + Len(s.queue) = Len(t)
    BY TimelineGrows
  <1> HIDE DEF t
  <1>4. s.chunks \in Nat /\ Len(timeline[h]) <= Len(t)
    BY <1>1, <1>3, Fields DEF GoesOn
  <1>5. Delivery(h)!GapFree(t)
    <2>1. PICK n \in Nat : n = s.chunks
      BY <1>4
    <2>2. Len(t) = n /\ Len(t) >= n /\ \A i \in 1 .. n : t[i] = FullChunk(i)
      BY <1>3, <2>1
    <2>. QED  BY <1>3, <2>2, FullChunksFollow
  <1>6. source' = s /\ phase' = "active" /\ TypeOK' /\ HistoryOK' /\ DeliveryStep
    BY <1>1, <1>2, <1>3, <1>4, <1>5, ProceedKeepsHistory DEF t
  <1>7. (Sound(source) /\ Rested(source))'
    BY <1>6
       DEF Sound, Rested, Clocked, Placed, Windowed, Near, Counted, Cut,
           Remembered, Reach, Younger
  <1>. QED  BY <1>6, <1>7 DEF IInv

\* The loop leaves nothing to be drained and no gap that is old.
LEMMA SettledRests ==
    ASSUME NEW s, Sound(s), Clocked(s), Settled(s, s.last, FALSE)
    PROVE  Rested(s)
  <1>1. s \in Source /\ Placed(s) /\ Windowed(s) /\ s.failure = "none"
        /\ s.position \in Nat
    BY Fields DEF Sound
  <1>2. CASE s.buffer = {}
    BY <1>2 DEF Rested, Clocked
  <1>3. CASE s.buffer # {}
    <2>1. 0 \notin Offsets(s) /\ (s.gap = NoGap \/ s.last - s.gap < MaxWait)
      BY <1>1, <1>3 DEF Settled
    <2>2. ASSUME NEW p \in s.buffer, p.index = s.position PROVE FALSE
      <3>1. p.index - s.position \in Offsets(s)
        BY <1>1, OffsetsAre
      <3>. QED  BY <1>1, <2>1, <2>2, <3>1
    <2>. QED  BY <2>1, <2>2 DEF Rested
  <1>. QED  BY <1>2, <1>3

\* What a call has made of the record goes through the gap loop, and then the
\* source fails or goes on.
LEMMA LoopIsSafe ==
    ASSUME IInv, phase = "active", NEW m, Sound(m), Clocked(m), GoesOn(source, m),
           NEW s, s = ExpireGap(m, m.last, FALSE), NEW reason,
           \/ s.failure # "none" /\ Fail(s.failure)
           \/ s.failure = "none" /\ Proceed(s, "active", reason)
    PROVE  IInv' /\ DeliveryStep
  <1>1. CASE s.failure # "none"
    BY <1>1, FailIsSafe
  <1>2. CASE s.failure = "none"
    <2>1. Reached(m, s) /\ Settled(s, m.last, FALSE)
      BY ExpireSettles
    <2>2. Sound(s) /\ Clocked(s) /\ s.last = m.last /\ GoesOn(m, s)
      BY <1>2, <2>1 DEF Reached, Grown
    <2>3. Rested(s)
      BY <2>1, <2>2, SettledRests
    <2>4. GoesOn(source, s)
      BY <2>2, GoesOnTransitive DEF IInv
    <2>. QED  BY <1>2, <2>2, <2>3, <2>4, GoingOnIsSafe
  <1>. QED  BY <1>1, <1>2

\* An arrival time that does not go back is a time.
LEMMA SourceTimes ==
    ASSUME IInv, NEW time \in source.last .. MaxTime
    PROVE  time \in Times
  <1>1. source.last \in 0 .. MaxTime
    BY Fields DEF IInv, TypeOK, Times
  <1>. QED  BY <1>1, Limits DEF Times

\* A packet that is taken is buffered, the run is drained, and then the gap loop
\* runs.
LEMMA AcceptPacketIsSafe ==
    ASSUME IInv, phase = "active", NEW p \in Packets, Plausible(p),
           PacketRefusal(source, p) = "none",
           NEW time \in source.last .. MaxTime, AcceptPacket(p, time)
    PROVE  IInv' /\ DeliveryStep
  <1> DEFINE b == BufferPacket(source, p, time)
             drained == DrainContiguous(b)
             s == IF drained.failure = "none"
                  THEN ExpireGap(drained, time, FALSE) ELSE drained
             reason == IF p \in s.buffer THEN "packet_buffered"
                                         ELSE "packet_accepted"
  <1>1. Sound(source) /\ time \in Times
    BY SourceTimes DEF IInv
  <1>2. /\ Sound(b) /\ b.last = time /\ b.generation = source.generation
        /\ b.queue = source.queue /\ b.chunks = source.chunks
    BY <1>1, BufferKeepsSound DEF Plausible
  <1>3. \/ s.failure # "none" /\ Fail(s.failure)
        \/ s.failure = "none" /\ Proceed(s, "active", reason)
    BY DEF AcceptPacket
  <1> HIDE DEF b, reason
  <1>4. CASE drained.failure # "none"
    <2>1. s = drained
      BY <1>4
    <2>. QED  BY <1>3, <1>4, <2>1, FailIsSafe
  <1>5. CASE drained.failure = "none"
    <2>1. Sound(drained) /\ Clocked(drained) /\ Grown(b, drained)
      BY <1>2, <1>5, DrainPlaysTheRun
    <2>2. drained.last = time /\ GoesOn(source, drained)
      BY <1>2, <2>1 DEF Grown, GoesOn
    <2>3. s = ExpireGap(drained, drained.last, FALSE)
      BY <1>5, <2>2
    <2> HIDE DEF drained, s
    <2>. QED  BY <1>3, <2>1, <2>2, <2>3, LoopIsSafe
  <1>. QED  BY <1>4, <1>5

\* A packet is refused or taken.
LEMMA PacketIsSafe ==
    ASSUME IInv, NEW p \in Packets, Packet(p)
    PROVE  IInv' /\ DeliveryStep
  <1>1. CASE PacketRefusal(source, p) # "none"
    <2>1. Refuse(PacketRefusal(source, p))
      BY <1>1 DEF Packet
    <2>. QED  BY <2>1, RefuseIsSafe
  <1>2. CASE PacketRefusal(source, p) = "none"
    <2>1. /\ phase = "active" /\ Plausible(p)
          /\ \E time \in source.last .. MaxTime : AcceptPacket(p, time)
      BY <1>2 DEF Packet
    <2>. QED  BY <1>2, <2>1, AcceptPacketIsSafe
  <1>. QED  BY <1>1, <1>2

\* A clock tick moves nothing but the time, before the gap loop.
LEMMA AdvanceClockIsSafe ==
    ASSUME IInv, AdvanceClock
    PROVE  IInv' /\ DeliveryStep
  <1>1. CASE phase # "active"
    <2>1. Refuse("start_required")
      BY <1>1 DEF AdvanceClock
    <2>. QED  BY <2>1, RefuseIsSafe
  <1>2. CASE phase = "active"
    <2>1. PICK time \in source.last .. MaxTime :
             LET s == ExpireGap([source EXCEPT !.last = time], time, FALSE)
             IN  \/ s.failure # "none" /\ Fail(s.failure)
                 \/ s.failure = "none" /\ Proceed(s, "active", "packet_accepted")
      BY <1>2 DEF AdvanceClock
    <2> DEFINE m == [source EXCEPT !.last = time]
               s == ExpireGap(m, time, FALSE)
    <2>2. Sound(source) /\ Rested(source) /\ source \in Source /\ time \in Times
      BY <1>2, SourceTimes DEF IInv, Sound
    <2>3. /\ m.generation = source.generation /\ m.expected = source.expected
          /\ m.timestamp = source.timestamp /\ m.last = time
          /\ m.buffer = source.buffer /\ m.prints = source.prints
          /\ m.pcm = source.pcm /\ m.queue = source.queue /\ m.gap = source.gap
          /\ m.accepted = source.accepted /\ m.missing = source.missing
          /\ m.emitted = source.emitted /\ m.chunks = source.chunks
          /\ m.position = source.position
      BY <2>2 DEF Source
    <2>4. m \in Source
      BY <2>2 DEF Source
    <2> HIDE DEF m
    <2>5. Sound(m)
      BY <2>2, <2>3, <2>4
         DEF Sound, Placed, Windowed, Near, Counted, Cut, Remembered, Reach, Younger
    <2>6. Clocked(m) /\ GoesOn(source, m)
      <3>1. source.chunks \in Nat
        BY <2>2, Fields
      <3>. QED  BY <2>2, <2>3, <3>1 DEF Rested, Clocked, GoesOn
    <2>7. s = ExpireGap(m, m.last, FALSE)
      BY <2>3
    <2>8. \/ s.failure # "none" /\ Fail(s.failure)
          \/ s.failure = "none" /\ Proceed(s, "active", "packet_accepted")
      BY <2>1 DEF m
    <2> HIDE DEF s
    <2>. QED  BY <1>2, <2>5, <2>6, <2>7, <2>8, LoopIsSafe
  <1>. QED  BY <1>1, <1>2

\* Audio that is appended to the queue is appended to the timeline.
LEMMA TailOfAppend ==
    ASSUME NEW q \in Seq(Chunks), NEW r \in Seq(Chunks), NEW c \in Chunks,
           NEW a \in Nat, a <= Len(q)
    PROVE  /\ Append(q, c) \in Seq(Chunks) /\ Len(Append(q, c)) = Len(q) + 1
           /\ r \o SubSeq(Append(q, c), a + 1, Len(q) + 1)
                 = Append(r \o SubSeq(q, a + 1, Len(q)), c)
  <1> DEFINE b == Len(q)
             long == Append(q, c)
             tail == SubSeq(long, a + 1, b + 1)
             short == SubSeq(q, a + 1, b)
  <1>1. /\ b \in Nat /\ long \in Seq(Chunks) /\ Len(long) = b + 1
        /\ \A i \in 1 .. b : long[i] = q[i]
        /\ long[b + 1] = c
    OBVIOUS
  <1> HIDE DEF b, long
  <1>2. /\ tail \in Seq(Chunks) /\ Len(tail) = b + 1 - a
        /\ \A i \in 1 .. b + 1 - a : tail[i] = long[a + i]
    BY <1>1 DEF b
  <1>3. /\ short \in Seq(Chunks) /\ Len(short) = b - a
        /\ \A i \in 1 .. b - a : short[i] = q[a + i]
    BY <1>1 DEF b
  <1>4. tail = Append(short, c)
    <2> HIDE DEF tail, short
    <2>1. Append(short, c) \in Seq(Chunks) /\ Len(Append(short, c)) = b + 1 - a
      BY <1>1, <1>3
    <2>2. ASSUME NEW i \in 1 .. b + 1 - a PROVE tail[i] = Append(short, c)[i]
      <3>1. CASE i <= b - a
        <4>1. Append(short, c)[i] = short[i] /\ i \in 1 .. b - a
          BY <1>1, <1>3, <3>1
        <4>2. short[i] = q[a + i] /\ tail[i] = long[a + i] /\ a + i \in 1 .. b
          BY <1>1, <1>2, <1>3, <4>1
        <4>. QED  BY <1>1, <4>1, <4>2
      <3>2. CASE i = b + 1 - a
        <4>1. Append(short, c)[i] = c
          <5>1. Append(short, c)[Len(short) + 1] = c
            BY <1>3
          <5>2. Len(short) + 1 = i
            BY <1>1, <1>3, <3>2
          <5>. QED  BY <5>1, <5>2
        <4>2. tail[i] = long[a + i] /\ a + i = b + 1
          BY <1>1, <1>2, <3>2
        <4>. QED  BY <1>1, <4>1, <4>2
      <3>3. i <= b - a \/ i = b + 1 - a
        BY <1>1
      <3>. QED  BY <3>1, <3>2, <3>3
    <2>. QED  BY <1>2, <2>1, <2>2
  <1> HIDE DEF tail, short
  <1>5. r \o Append(short, c) = Append(r \o short, c)
    BY <1>3
  <1>. QED  BY <1>1, <1>4, <1>5 DEF b, long, tail, short

\* What is left of a chunk at the end of a source becomes its last chunk.
LEMMA FlushKeepsCount ==
    ASSUME NEW s, Sound(s), s.buffer = {}, NEW t, t = FlushFinal(s),
           t.failure = "none"
    PROVE  /\ t \in Source /\ Counted(t) /\ t.buffer = {}
           /\ t.generation = s.generation /\ Len(t.queue) <= MaxOutput
           /\ \/ t.queue = s.queue
              \/ \E c \in Chunks : /\ c.seq = s.chunks
                                   /\ c.start = s.chunks * ChunkSamples
                                   /\ t.queue = Append(s.queue, c)
  <1>1. s \in Source /\ Counted(s) /\ Cut(s) /\ s.failure = "none"
    BY Fields DEF Sound
  <1>2. /\ s.pcm \in 0 .. ChunkSamples - 1 /\ s.emitted \in Nat /\ s.chunks \in Nat
        /\ s.queue \in Seq(Chunks) /\ s.position \in Nat
    BY <1>1, Fields DEF Chunks
  <1>3. CASE s.pcm = 0
    <2>1. t = s
      BY <1>3 DEF FlushFinal
    <2>. QED  BY <1>1, <2>1 DEF Cut
  <1>4. CASE s.pcm # 0
    <2> DEFINE c == ChunkAt(s, 1, s.pcm)
               queue == Append(s.queue, c)
    <2>1. ~ (Len(s.queue) >= MaxOutput)
      <3> SUFFICES ASSUME Len(s.queue) >= MaxOutput PROVE FALSE
        OBVIOUS
      <3>1. t = [s EXCEPT !.failure = "output_queue_full"]
        BY <1>4 DEF FlushFinal
      <3>. QED  BY <1>1, <3>1 DEF Source
    <2>2. t = [s EXCEPT !.queue = queue, !.chunks = s.chunks + 1,
                        !.emitted = s.emitted + s.pcm, !.pcm = 0]
      BY <1>4, <2>1 DEF FlushFinal
    <2>3. c \in Chunks /\ c.seq = s.chunks /\ c.start = s.chunks * ChunkSamples
      <3>1. (1 - 1) * ChunkSamples = 0 /\ s.pcm \in SampleCounts
        BY <1>2, <1>4, Limits DEF SampleCounts
      <3>2. s.chunks + 1 - 1 = s.chunks
            /\ s.emitted + (1 - 1) * ChunkSamples = s.emitted
        BY <1>2, <3>1
      <3>3. c = [seq |-> s.chunks, payload |-> s.pcm, start |-> s.emitted]
        BY <3>2 DEF ChunkAt
      <3>4. s.emitted = s.chunks * ChunkSamples
        BY <1>1 DEF Cut
      <3> HIDE DEF c
      <3>. QED  BY <1>2, <3>1, <3>3, <3>4 DEF Chunks
    <2> HIDE DEF c
    <2>4. queue \in Seq(Chunks) /\ Len(queue) = Len(s.queue) + 1 /\ Len(s.queue) \in Nat
      <3>. QED  BY <1>2, <2>3
    <2> HIDE DEF queue
    <2>5. /\ t.queue = queue /\ t.emitted = s.emitted + s.pcm /\ t.pcm = 0
          /\ t.buffer = s.buffer /\ t.position = s.position
          /\ t.accepted = s.accepted /\ t.missing = s.missing
          /\ t.generation = s.generation
      BY <1>1, <2>2 DEF Source
    <2>6. t \in Source
      <3>1. /\ s.chunks + 1 \in Nat /\ s.emitted + s.pcm \in Nat
            /\ 0 \in 0 .. ChunkSamples - 1
        BY <1>2, Limits
      <3>. QED  BY <1>1, <2>2, <2>4, <3>1 DEF Source, Chunks
    <2>7. Counted(t)
      <3>1. t.emitted + t.pcm = s.emitted + s.pcm
        BY <1>2, <2>5
      <3>. QED  BY <1>1, <2>5, <3>1 DEF Counted
    <2>8. Len(t.queue) <= MaxOutput
      BY <2>1, <2>4, <2>5, Limits
    <2>. QED  BY <2>3, <2>5, <2>6, <2>7, <2>8 DEF queue
  <1>. QED  BY <1>3, <1>4

\* An END plays out what is buffered, and what was played is all delivered.
LEMMA EndIsSafe ==
    ASSUME IInv, NEW generation, End(generation)
    PROVE  IInv' /\ DeliveryStep
  <1>1. CASE phase # "active" \/ generation # source.generation
    <2>1. PICK reason : Refuse(reason)
      BY <1>1 DEF End
    <2>. QED  BY <2>1, RefuseIsSafe
  <1>2. CASE phase = "active" /\ generation = source.generation
    <2> DEFINE out == ExpireGap(source, source.last, TRUE)
               flushed == IF out.failure = "none" THEN FlushFinal(out) ELSE out
               s == [flushed EXCEPT !.prints = {}]
               h == source.generation
               a == Len(source.queue)
    <2>1. \/ flushed.failure # "none" /\ Fail(flushed.failure)
          \/ flushed.failure = "none" /\ Proceed(s, "ended", "ended")
      BY <1>2 DEF End
    <2>2. Sound(source) /\ Clocked(source)
      BY <1>2 DEF IInv, Rested
    <2>3. Reached(source, out) /\ Settled(out, source.last, TRUE)
      BY <2>2, ExpireSettles
    <2> HIDE DEF out
    <2>4. CASE flushed.failure # "none"
      BY <1>2, <2>1, <2>4, FailIsSafe
    <2>5. CASE flushed.failure = "none"
      <3>1. out.failure = "none" /\ flushed = FlushFinal(out)
        BY <2>5
      <3>2. Sound(out) /\ out.buffer = {} /\ GoesOn(source, out)
        BY <2>3, <3>1 DEF Reached, Settled, Grown
      <3> HIDE DEF flushed
      <3>3. /\ flushed \in Source /\ Counted(flushed) /\ flushed.buffer = {}
            /\ flushed.generation = out.generation /\ Len(flushed.queue) <= MaxOutput
            /\ \/ flushed.queue = out.queue
               \/ \E c \in Chunks : /\ c.seq = out.chunks
                                    /\ c.start = out.chunks * ChunkSamples
                                    /\ flushed.queue = Append(out.queue, c)
        BY <2>5, <3>1, <3>2, FlushKeepsCount
      <3>4. /\ s \in Source /\ s.buffer = {} /\ s.queue = flushed.queue
            /\ s.generation = flushed.generation /\ s.position = flushed.position
            /\ s.accepted = flushed.accepted /\ s.missing = flushed.missing
            /\ s.emitted = flushed.emitted /\ s.pcm = flushed.pcm
        BY <3>3 DEF Source
      <3>5. Counted(s)
        BY <3>3, <3>4 DEF Counted
      <3> DEFINE u == timeline[h] \o SubSeq(out.queue, a + 1, Len(out.queue))
      <3>6. /\ h \in DOMAIN timeline /\ out.generation = h
            /\ timeline[h] \in Seq(Chunks) /\ u \in Seq(Chunks)
            /\ Len(u) = out.chunks
            /\ \A i \in 1 .. Len(timeline[h]) : u[i] = timeline[h][i]
            /\ \A i \in 1 .. out.chunks : u[i] = FullChunk(i)
            /\ delivered[h] + Len(out.queue) = Len(u)
            /\ Len(out.queue) >= a /\ a \in Nat
            /\ Len(timeline[h]) = source.chunks
        BY <1>2, <3>2, TimelineGrows
      <3>7. out.chunks \in Nat /\ out.queue \in Seq(Chunks) /\ source.chunks \in Nat
            /\ source.chunks <= out.chunks /\ delivered[h] \in Nat
        <4>1. out.chunks \in Nat /\ out.queue \in Seq(Chunks) /\ source.chunks \in Nat
          BY <2>2, <3>2, Fields DEF Sound, Chunks
        <4>2. source.chunks <= out.chunks
          BY <3>2, <4>1 DEF GoesOn
        <4>3. delivered[h] \in Nat
          BY <3>6, HistoryTypes
        <4>. QED  BY <4>1, <4>2, <4>3
      <3>8. PICK t \in Seq(Chunks) :
               /\ t = timeline[h] \o SubSeq(s.queue, a + 1, Len(s.queue))
               /\ Delivery(h)!GapFree(t)
               /\ Len(timeline[h]) <= Len(t)
               /\ \A i \in 1 .. Len(timeline[h]) : t[i] = timeline[h][i]
               /\ delivered[h] + Len(s.queue) = Len(t)
        <4>1. CASE flushed.queue = out.queue
          <5>1. Delivery(h)!GapFree(u)
            <6> HIDE DEF u
            <6>1. PICK n \in Nat : n = out.chunks
              BY <3>7
            <6>2. Len(u) = n /\ Len(u) >= n /\ \A i \in 1 .. n : u[i] = FullChunk(i)
              BY <3>6, <6>1
            <6>. QED  BY <3>6, <6>2, FullChunksFollow
          <5>2. u = timeline[h] \o SubSeq(s.queue, a + 1, Len(s.queue))
            BY <3>4, <4>1
          <5> HIDE DEF u
          <5>3. Len(timeline[h]) <= Len(u) /\ delivered[h] + Len(s.queue) = Len(u)
            BY <3>4, <3>6, <3>7, <4>1
          <5>. QED  BY <3>6, <5>1, <5>2, <5>3
        <4>2. CASE flushed.queue # out.queue
          <5>1. PICK c \in Chunks : /\ c.seq = out.chunks
                                    /\ c.start = out.chunks * ChunkSamples
                                    /\ flushed.queue = Append(out.queue, c)
            BY <3>3, <4>2
          <5>2. PICK n \in Nat, q \in Seq(Chunks), r \in Seq(Chunks) :
                   n = out.chunks /\ q = out.queue /\ r = timeline[h]
            BY <3>6, <3>7
          <5>3. /\ Len(s.queue) = Len(q) + 1
                /\ r \o SubSeq(Append(q, c), a + 1, Len(q) + 1)
                      = Append(r \o SubSeq(q, a + 1, Len(q)), c)
            <6>1. Len(q) >= a /\ a <= Len(q)
              <7>1. Len(q) \in Nat
                BY LengthType
              <7>. QED  BY <3>6, <5>2, <7>1
            <6>2. s.queue = Append(q, c)
              BY <3>4, <5>1, <5>2
            <6> HIDE DEF a, s
            <6>3. PICK k \in Nat : k = a
              BY <3>6
            <6>5. k <= Len(q)
              BY <6>1, <6>3
            <6>4. /\ Len(Append(q, c)) = Len(q) + 1
                  /\ r \o SubSeq(Append(q, c), k + 1, Len(q) + 1)
                        = Append(r \o SubSeq(q, k + 1, Len(q)), c)
              BY ZenonT(60), <6>5, TailOfAppend
            <6>. QED  BY <6>2, <6>3, <6>4, Zenon
          <5>4. u = r \o SubSeq(q, a + 1, Len(q)) /\ s.queue = Append(q, c)
            BY <3>4, <5>1, <5>2
          <5>5. Append(u, c) = timeline[h] \o SubSeq(s.queue, a + 1, Len(s.queue))
            <6> HIDE DEF a, s, u
            <6>. QED  BY <5>2, <5>3, <5>4
          <5> HIDE DEF u, a, s
          <5>6. /\ Append(u, c) \in Seq(Chunks) /\ Len(Append(u, c)) = n + 1
                /\ \A i \in 1 .. n : Append(u, c)[i] = u[i]
                /\ Append(u, c)[n + 1] = c
            <6>1. u \in Seq(Chunks) /\ Len(u) = n
              BY <3>6, <5>2
            <6>. QED  BY <6>1
          <5>7. Delivery(h)!GapFree(Append(u, c))
            <6>1. \A i \in 1 .. n : Append(u, c)[i] = FullChunk(i)
              BY <3>6, <5>2, <5>6
            <6>2. Len(Append(u, c)) >= n
              BY <5>6
            <6>3. /\ Append(u, c)[n + 1].seq = n
                  /\ Append(u, c)[n + 1].start = n * ChunkSamples
              BY <5>1, <5>2, <5>6
            <6>. QED  BY <5>6, <6>1, <6>2, <6>3, FullChunksFollow
          <5>8. Len(timeline[h]) <= n /\ Len(timeline[h]) \in Nat
            BY <3>6, <3>7, <5>2
          <5>9. \A i \in 1 .. Len(timeline[h]) : Append(u, c)[i] = timeline[h][i]
            <6> TAKE i \in 1 .. Len(timeline[h])
            <6>1. i \in 1 .. n
              BY <5>8
            <6>. QED  BY <3>6, <5>6, <6>1
          <5>10. delivered[h] + Len(s.queue) = n + 1
            <6>1. Len(q) \in Nat
              BY LengthType
            <6>2. delivered[h] + Len(q) = n
              <7>1. delivered[h] + Len(out.queue) = out.chunks
                BY <3>6
              <7>. QED  BY <5>2, <7>1
            <6>3. Len(s.queue) = Len(q) + 1
              BY <5>3, Zenon
            <6>4. PICK d \in Nat : d = delivered[h]
              BY <3>7
            <6>5. PICK m \in Nat : m = Len(q)
              BY <6>1
            <6>6. d + m = n
              BY <6>2, <6>4, <6>5
            <6>7. d + (m + 1) = n + 1
              BY <6>6
            <6>. QED  BY <6>3, <6>4, <6>5, <6>7
          <5>11. Len(timeline[h]) <= Len(Append(u, c))
            BY <5>6, <5>8
          <5>. QED  BY <5>5, <5>6, <5>7, <5>9, <5>10, <5>11
        <4>. QED  BY <4>1, <4>2
      <3>9. Cardinality(s.buffer) <= MaxReorder /\ Len(s.queue) <= MaxOutput
            /\ s.generation = h
        <4> HIDE DEF s
        <4>1. Cardinality(s.buffer) <= MaxReorder
          <5>1. s.buffer = {}
            BY <3>4
          <5>. QED  BY <5>1, FS_EmptySet, Limits
        <4>. QED  BY <3>3, <3>4, <3>6, <4>1
      <3>10. source' = s /\ phase' = "ended" /\ TypeOK' /\ HistoryOK' /\ DeliveryStep
        <4>1. Proceed(s, "ended", "ended")
          BY <2>1, <2>5
        <4> HIDE DEF s
        <4>. QED  BY <1>2, <3>4, <3>8, <3>9, <4>1, ProceedKeepsHistory
      <3>11. (Counted(source) /\ source.buffer = {})'
        BY <3>4, <3>5, <3>10 DEF Counted
      <3>. QED  BY <3>10, <3>11 DEF IInv
    <2>. QED  BY <2>4, <2>5
  <1>. QED  BY <1>1, <1>2

\* What is left of a queue after its head.
LEMMA RestOfQueue ==
    ASSUME NEW q \in Seq(Chunks), NEW n \in Nat, n <= Len(q)
    PROVE  /\ SubSeq(q, n + 1, Len(q)) \in Seq(Chunks)
           /\ Len(SubSeq(q, n + 1, Len(q))) = Len(q) - n
           /\ \A i \in 1 .. Len(q) - n : SubSeq(q, n + 1, Len(q))[i] = q[n + i]
  OBVIOUS

\* Draining moves the oldest chunks of the queue to what was delivered.
LEMMA DrainChunksIsSafe ==
    ASSUME IInv, NEW generation \in Generations, NEW limit \in 1 .. MaxOutput,
           DrainChunks(generation, limit)
    PROVE  IInv' /\ DeliveryStep
  <1>1. CASE phase = "none" \/ generation # source.generation
    <2>1. Refuse("drained")
      BY <1>1 DEF DrainChunks
    <2>. QED  BY <2>1, RefuseIsSafe
  <1>2. CASE phase # "none" /\ generation = source.generation
    <2> DEFINE h == source.generation
               waiting == Len(source.queue)
               n == IF limit < waiting THEN limit ELSE waiting
               rest == SubSeq(source.queue, n + 1, waiting)
    <2>1. /\ source' = [source EXCEPT !.queue = rest]
          /\ delivered' = [delivered EXCEPT ![h] = @ + n]
          /\ phase' = phase /\ highest' = highest /\ timeline' = timeline
      BY <1>2 DEF DrainChunks
    <2>2. TypeOK /\ HistoryOK /\ source \in Source /\ source.queue \in Seq(Chunks)
      BY Fields DEF IInv, TypeOK, Chunks
    <2>3. waiting \in Nat /\ n \in Nat /\ n <= waiting /\ waiting <= MaxOutput
      <3>1. waiting \in Nat
        BY <2>2, LengthType
      <3>2. waiting <= MaxOutput
        BY <2>2 DEF TypeOK
      <3>. QED  BY <3>1, <3>2
    <2>4. /\ rest \in Seq(Chunks) /\ Len(rest) = waiting - n
          /\ \A i \in 1 .. waiting - n : rest[i] = source.queue[n + i]
      <3>1. PICK k \in Nat : k = n /\ k <= waiting
        BY <2>3
      <3> HIDE DEF n
      <3>. QED  BY <2>2, <3>1, RestOfQueue
    <2> HIDE DEF n, rest
    <2>5. /\ h \in DOMAIN timeline /\ DOMAIN delivered = DOMAIN timeline
          /\ delivered[h] \in Nat /\ delivered[h] <= Len(timeline[h])
          /\ Len(timeline[h]) \in Nat
      <3>1. h \in DOMAIN timeline /\ DOMAIN delivered = DOMAIN timeline
        BY <1>2, <2>2 DEF HistoryOK
      <3>. QED  BY <3>1, HistoryTypes
    <2>6. /\ DOMAIN delivered' = DOMAIN delivered /\ delivered'[h] = delivered[h] + n
          /\ \A g \in DOMAIN delivered : g # h => delivered'[g] = delivered[g]
      BY <2>1, <2>5
    <2>7. phase \in {"active", "ended"} => delivered[h] + waiting = Len(timeline[h])
      BY <2>2 DEF HistoryOK
    <2>8. phase = "failed" => n = 0
      <3>1. phase = "failed" => waiting = 0
        BY DEF IInv
      <3>. QED  BY <2>3, <3>1
    <2>9. phase \in {"active", "ended", "failed"}
      BY <1>2, <2>2 DEF TypeOK
    <2>10. delivered'[h] \in Nat /\ delivered'[h] <= Len(timeline[h])
           /\ delivered[h] <= delivered'[h]
      <3>1. PICK d \in Nat, l \in Nat : d = delivered[h] /\ l = Len(timeline[h])
        BY <2>5
      <3>2. d <= l /\ delivered'[h] = d + n
        BY <2>5, <2>6, <3>1
      <3>3. phase = "failed" \/ d + waiting = l
        BY <2>7, <2>9, <3>1
      <3>4. d + n <= l
        BY <2>3, <2>8, <3>2, <3>3
      <3>. QED  BY <2>3, <3>1, <3>2, <3>4
    <2>11. /\ source'.queue = rest /\ source'.generation = h
           /\ source'.expected = source.expected
           /\ source'.timestamp = source.timestamp /\ source'.last = source.last
           /\ source'.buffer = source.buffer /\ source'.prints = source.prints
           /\ source'.pcm = source.pcm /\ source'.gap = source.gap
           /\ source'.accepted = source.accepted /\ source'.missing = source.missing
           /\ source'.emitted = source.emitted /\ source'.chunks = source.chunks
           /\ source'.position = source.position
      BY <2>1, <2>2 DEF Source
    <2>12. source' \in Source
      BY <2>1, <2>2, <2>4 DEF Source, Chunks
    <2>13. TypeOK'
      <3>1. Len(source'.queue) <= MaxOutput
        BY <2>3, <2>4, <2>11, Limits
      <3>. QED  BY <2>1, <2>2, <2>6, <2>11, <2>12, <3>1 DEF TypeOK
    <2>14. HistoryOK'
      <3>1. DOMAIN delivered' = DOMAIN timeline' /\ DOMAIN timeline' \subseteq 1 .. highest'
        BY <2>1, <2>2, <2>6 DEF HistoryOK
      <3>2. ASSUME NEW g \in DOMAIN timeline'
            PROVE  /\ timeline'[g] \in Seq([seq : Nat, payload : SampleCounts, start : Nat])
                   /\ delivered'[g] \in 0 .. Len(timeline'[g])
                   /\ (Delivery(g)!GapFree(timeline[g]))'
        <4>1. /\ timeline[g] \in Seq([seq : Nat, payload : SampleCounts, start : Nat])
              /\ delivered[g] \in 0 .. Len(timeline[g])
              /\ Delivery(g)!GapFree(timeline[g])
          BY <2>1, <2>2 DEF HistoryOK
        <4>2. delivered'[g] \in 0 .. Len(timeline[g])
          <5>1. CASE g = h
            BY <2>5, <2>10, <5>1
          <5>2. CASE g # h
            BY <2>1, <2>5, <2>6, <4>1, <5>2
          <5>. QED  BY <5>1, <5>2
        <4>. QED  BY <2>1, <4>1, <4>2 DEF Delivery!GapFree, Delivery!Follows
      <3>3. source'.generation \in DOMAIN timeline'
        BY <2>1, <2>5, <2>11
      <3>4. phase' \in {"active", "ended"} =>
               delivered'[source'.generation] + Len(source'.queue)
                   = Len(timeline'[source'.generation])
        <4> SUFFICES ASSUME phase \in {"active", "ended"}
                     PROVE  delivered'[h] + Len(rest) = Len(timeline[h])
          BY <2>1, <2>11
        <4>1. PICK d \in Nat, w \in Nat : d = delivered[h] /\ w = waiting
          BY <2>3, <2>5
        <4>2. d + w = Len(timeline[h])
          BY <2>7, <4>1
        <4>3. delivered'[h] = d + n /\ Len(rest) = w - n
          BY <2>4, <2>6, <4>1
        <4>4. (d + n) + (w - n) = d + w
          BY <2>3
        <4>. QED  BY <4>2, <4>3, <4>4
      <3>5. phase' = "active" =>
               /\ Len(timeline'[source'.generation]) = source'.chunks
               /\ \A i \in 1 .. source'.chunks :
                     (timeline'[source'.generation])[i] = FullChunk(i)
        BY <2>1, <2>2, <2>11 DEF HistoryOK
      <3>. QED  BY <3>1, <3>2, <3>3, <3>4, <3>5 DEF HistoryOK
    <2>15. phase' = "active" => (Sound(source) /\ Rested(source))'
      <3> SUFFICES ASSUME phase = "active" PROVE (Sound(source) /\ Rested(source))'
        BY <2>1
      <3>1. Sound(source) /\ Rested(source)
        BY DEF IInv
      <3>2. Cut(source)'
        <4>1. PICK w \in Nat, c \in Nat : w = waiting /\ c = source.chunks
          BY <2>2, <2>3, Fields
        <4>2. /\ source.emitted = c * ChunkSamples /\ w <= c
              /\ \A i \in DOMAIN source.queue :
                    source.queue[i] = FullChunk(c - w + i)
          BY <3>1, <4>1 DEF Sound, Cut
        <4>3. DOMAIN source.queue = 1 .. w /\ DOMAIN rest = 1 .. w - n
              /\ Len(rest) = w - n
          <5>1. DOMAIN source.queue = 1 .. Len(source.queue) /\ DOMAIN rest = 1 .. Len(rest)
            BY <2>2, <2>4
          <5>. QED  BY <2>4, <4>1, <5>1
        <4>4. ASSUME NEW i \in 1 .. w - n
              PROVE  rest[i] = FullChunk(c - (w - n) + i)
          <5>1. rest[i] = source.queue[n + i]
            BY <2>4, <4>1
          <5>2. n + i \in 1 .. w /\ c - w + (n + i) = c - (w - n) + i
            <6>1. PICK m \in Nat : m = n /\ m <= w
              BY <2>3, <4>1
            <6>2. i \in Int /\ 1 <= i /\ i <= w - m
              BY <6>1
            <6>3. m + i \in 1 .. w /\ c - w + (m + i) = c - (w - m) + i
              BY <6>2
            <6>. QED  BY <6>1, <6>3
          <5>3. source.queue[n + i] = FullChunk(c - w + (n + i))
            BY <4>2, <4>3, <5>2
          <5>. QED  BY <5>1, <5>2, <5>3
        <4>5. w - n <= MaxOutput /\ w - n <= c
          BY <2>3, <4>1, <4>2, Limits
        <4>. QED  BY <2>11, <4>1, <4>2, <4>3, <4>4, <4>5 DEF Cut
      <3>3. (Sound(source))'
        BY <2>11, <2>12, <3>1, <3>2
           DEF Sound, Placed, Windowed, Near, Counted, Remembered, Reach, Younger
      <3>4. (Rested(source))'
        BY <2>11, <3>1 DEF Rested, Clocked
      <3>. QED  BY <3>3, <3>4
    <2>16. IInv'
      <3>1. phase' = "ended" => (Counted(source) /\ source.buffer = {})'
        BY <2>1, <2>11 DEF IInv, Counted
      <3>2. phase' = "failed" => source'.queue = <<>>
        <4> SUFFICES ASSUME phase = "failed" PROVE rest = <<>>
          BY <2>1, <2>11
        <4>1. waiting = 0
          BY DEF IInv
        <4>2. Len(rest) = 0
          BY <2>3, <2>4, <4>1
        <4>. QED  BY <2>4, <4>2
      <3>. QED  BY <2>13, <2>14, <2>15, <3>1, <3>2 DEF IInv
    <2>17. ASSUME NEW g \in Generations
           PROVE  [Delivery(g)!Next]_(Delivery(g)!vars)
      <3>1. IsOpen(g)' <=> IsOpen(g)
        BY <2>1, <2>11 DEF IsOpen
      <3>2. CASE g = h /\ IsOpen(g)
        <4>1. Phase(g) = "open" /\ Phase(g)' = "open"
          BY <2>2, <2>13, <3>1, <3>2, PhaseIs, PhaseWillBe
        <4>2. delivered'[g] \in delivered[g] .. Len(timeline[g])
          BY <2>5, <2>10, <3>2
        <4>3. g \in DOMAIN timeline /\ g \in DOMAIN timeline'
              /\ g \in DOMAIN delivered /\ g \in DOMAIN delivered'
              /\ timeline'[g] = timeline[g]
          BY <2>1, <2>5, <2>6, <3>2
        <4>4. Delivery(g)!Deliver
          BY <4>1, <4>2, <4>3 DEF Delivery!Deliver
        <4>. QED  BY <4>4 DEF Delivery!Next
      <3>3. CASE ~ (g = h /\ IsOpen(g))
        <4>1. g \in DOMAIN delivered => delivered'[g] = delivered[g]
          <5>1. CASE g # h
            BY <2>6, <5>1
          <5>2. CASE g = h
            <6>1. n = 0
              BY <2>5, <2>8, <2>9, <3>3, <5>2 DEF IsOpen
            <6>. QED  BY <2>5, <2>6, <5>2, <6>1
          <5>. QED  BY <5>1, <5>2
        <4>2. Phase(g)' = Phase(g)
          <5>1. g \in DOMAIN timeline' <=> g \in DOMAIN timeline
            BY <2>1
          <5>. QED  BY <2>2, <2>13, <3>1, <5>1, PhaseIs, PhaseWillBe
        <4>. QED  BY <2>1, <2>6, <4>1, <4>2, StillStutters DEF Still
      <3>. QED  BY <3>2, <3>3
    <2>. QED  BY <2>16, <2>17 DEF DeliveryStep
  <1>. QED  BY <1>1, <1>2

-----------------------------------------------------------------------------
(* The theorems. *)

\* The adapter starts without a source and with an empty history.
LEMMA InitIInv ==
    ASSUME Init
    PROVE  IInv
  <1>1. /\ phase = "none" /\ source = NewSource(0, 0) /\ highest = 0
        /\ DOMAIN timeline = {} /\ DOMAIN delivered = {}
    BY DEF Init
  <1>2. source \in Source /\ source.buffer = {} /\ source.queue = <<>>
    BY <1>1, NewSourceIsSound, Limits DEF Times
  <1>3. TypeOK
    <2>1. Cardinality(source.buffer) <= MaxReorder /\ Len(source.queue) <= MaxOutput
      BY <1>2, FS_EmptySet, Limits
    <2>. QED  BY <1>1, <1>2, <2>1, Limits DEF TypeOK
  <1>4. HistoryOK
    BY <1>1 DEF HistoryOK
  <1>. QED  BY <1>1, <1>3, <1>4 DEF IInv

\* Every call keeps the invariant and the promise to the consumer.
LEMMA NextIInv ==
    ASSUME IInv, Next
    PROVE  IInv' /\ DeliveryStep
  <1>1. ASSUME NEW g \in Generations, Start(g) \/ ReplaceSource(g)
        PROVE  IInv' /\ DeliveryStep
    <2>1. \/ \E reason : Refuse(reason)
          \/ g > highest /\ \E time \in Times : Initialize(g, time)
      BY <1>1 DEF Start, ReplaceSource
    <2>. QED  BY <2>1, RefuseIsSafe, InitializeIsSafe
  <1>2. ASSUME PacketMismatch \/ TimeRegression PROVE IInv' /\ DeliveryStep
    <2>1. \E reason : Refuse(reason)
      BY <1>2 DEF PacketMismatch, TimeRegression
    <2>. QED  BY <2>1, RefuseIsSafe
  <1>. QED  BY <1>1, <1>2, EndIsSafe, PacketIsSafe, AdvanceClockIsSafe, ResetIsSafe,
               DrainChunksIsSafe DEF Next

\* A step that changes nothing is a call that is refused as the last one was.
LEMMA StutterIInv ==
    ASSUME IInv, UNCHANGED vars
    PROVE  IInv'
  <1>1. Refuse(reply)
    BY DEF vars, Refuse
  <1>. QED  BY <1>1, RefuseIsSafe

\* The inductive invariant holds of every reachable state.
LEMMA Invariance == Spec => []IInv
  <1>1. IInv /\ [Next]_vars => IInv'
    BY NextIInv, StutterIInv
  <1>. QED  BY InitIInv, <1>1, PTL DEF Spec

\* A history that has not gone over its limit reaches back less than a lap.
LEMMA HistoryReaches ==
    ASSUME NEW s, Sound(s), NEW e \in s.prints
    PROVE  /\ e.packet.index + Modulus > s.position + MaxReorder
           /\ e.packet.index < s.position + Modulus
  <1>1. s \in Source /\ Near(s) /\ s.position \in Nat
    BY Fields DEF Sound
  <1>2. /\ e.packet.index <= s.position + MaxReorder
        /\ s.position - 1 <= Reach(s, e)
        /\ e.packet.index \in Nat
        /\ IsFiniteSet(s.prints) /\ Cardinality(s.prints) \in Nat
        /\ Cardinality(Younger(s, e)) \in Nat
    BY <1>1, ReachType DEF Near
  <1>3. PICK i \in Nat, k \in Nat, w \in Nat, c \in Nat, y \in Nat :
           /\ i = e.packet.index /\ k = s.position /\ w = MaxReorder + 1
           /\ c = Cardinality(s.prints) /\ y = Cardinality(Younger(s, e))
    BY <1>1, <1>2, Limits
  <1>4. PICK full \in Nat :
           /\ full = HistoryLimit * w
           /\ full + MaxReorder < Modulus /\ w <= full
    <2>1. HistoryLimit * w \in Nat /\ 1 * w <= HistoryLimit * w /\ 1 * w = w
      BY Monotone, Limits
    <2>2. HistoryLimit * w + MaxReorder < Modulus
      BY <1>3, RtpAssumption
    <2>. QED  BY <2>1, <2>2
  <1>5. CASE c > HistoryLimit
    <2>1. Reach(s, e) = i + MaxReorder
      BY <1>3, <1>5, Limits DEF Reach
    <2>. QED  BY <1>2, <1>3, <1>4, <2>1, Limits
  <1>6. CASE ~ (c > HistoryLimit)
    <2>1. y <= c - 1
      <3>1. Younger(s, e) \subseteq s.prints \ {e}
        <4>1. ~ (e.order > e.order)
          BY <1>1, ReachType DEF Near
        <4>. QED  BY <4>1 DEF Younger
      <3>2. /\ IsFiniteSet(s.prints \ {e})
            /\ Cardinality(s.prints \ {e}) = Cardinality(s.prints) - 1
        BY <1>2, FS_RemoveElement
      <3>3. Cardinality(Younger(s, e)) <= Cardinality(s.prints \ {e})
        BY <3>1, <3>2, FS_Subset
      <3>. QED  BY <1>3, <3>2, <3>3
    <2>2. PICK u \in Nat : u = y * w /\ u + w <= full
      <3>1. y + 1 <= HistoryLimit /\ y + 1 \in Nat
        BY <1>6, <2>1, Limits
      <3>2. (y + 1) * w <= HistoryLimit * w
        BY <3>1, Monotone, Limits
      <3>3. (y + 1) * w = y * w + 1 * w /\ 1 * w = w /\ y * w \in Nat
        BY Distributes
      <3>. QED  BY <1>4, <3>2, <3>3
    <2>3. Reach(s, e) = i + MaxReorder + u
      BY <1>3, <1>6, <2>2 DEF Reach
    <2>. QED  BY <1>2, <1>3, <1>4, <2>2, <2>3, Limits
  <1>. QED  BY <1>5, <1>6

\* TypeOK in every reachable state: the numbers of the source stay within
\* their widths, the reorder window and the output queue within their limits.
THEOREM TypeCorrect == Spec => []TypeOK
  <1>1. IInv => TypeOK
    BY DEF IInv
  <1>. QED  BY Invariance, <1>1, PTL

\* PlacedByNumber in every reachable state: however late, often or out of order
\* packets come and however often their numbers wrap, accept_packet plays each
\* at its own position and the duplicate history never mistakes a new packet
\* for one of an earlier lap.
THEOREM PacketsKeepTheirPlace == Spec => []PlacedByNumber
  <1>1. ASSUME IInv PROVE PlacedByNumber
    <2>1. TypeOK
      BY <1>1 DEF IInv
    <2>2. CASE phase = "active"
      <3>1. Sound(source) /\ Rested(source) /\ source \in Source /\ source.position \in Nat
        BY <1>1, <2>2, Fields DEF IInv, Sound
      <3>2. \A p \in source.buffer :
               p.index > source.position /\ p.index <= source.position + MaxReorder
        <4> TAKE p \in source.buffer
        <4>1. p.index \in source.position .. source.position + MaxReorder
              /\ p.index # source.position
          BY <3>1 DEF Sound, Windowed, Rested
        <4>. QED  BY <3>1, <4>1, Limits
      <3>3. \A p \in Remembered(source) :
               /\ p.index + Modulus > source.position + MaxReorder
               /\ p.index < source.position + Modulus
        BY <3>1, HistoryReaches DEF Remembered
      <3>. QED  BY <2>1, <3>1, <3>2, <3>3 DEF PlacedByNumber, Sound, Placed, Windowed
    <2>3. CASE phase # "active"
      BY <2>1, <2>3 DEF PlacedByNumber
    <2>. QED  BY <2>2, <2>3
  <1>. QED  BY Invariance, <1>1, PTL

\* GapsAreAccounted in every reachable state: whatever run is drained and
\* whatever gap is skipped, by accept_packet, advance or END, each position of
\* the stream counts once as played or as missing, the samples add up to the
\* position, and no packet waits behind a gap past the jitter limit.
THEOREM EveryPositionCounts == Spec => []GapsAreAccounted
  <1>1. ASSUME IInv PROVE GapsAreAccounted
    <2>1. phase \in {"active", "ended"} => Counted(source)
      BY <1>1 DEF IInv, Sound
    <2>2. phase = "active" => Rested(source)
      BY <1>1 DEF IInv
    <2>. QED  BY <2>1, <2>2 DEF GapsAreAccounted, Counted, Rested, Clocked
  <1>. QED  BY Invariance, <1>1, PTL

\* RTPMediaIngressAdapter implements CallAudioDelivery for every generation:
\* the chunks it emits form one gap-free timeline, drain_audio_chunks hands out
\* a growing prefix of it, and a source that was replaced, reset or failed is
\* closed for good.
THEOREM ImplementsDelivery == Spec => DeliversEverySource
  <1>1. Init => \A g \in Generations : Delivery(g)!Init
    <2> SUFFICES ASSUME Init, NEW g \in Generations PROVE Delivery(g)!Init
      OBVIOUS
    <2>1. g \notin DOMAIN timeline /\ g \notin DOMAIN delivered
      BY DEF Init
    <2>2. Phase(g) = "unknown"
      BY <2>1 DEF Phase
    <2>. QED  BY <2>1, <2>2 DEF Delivery!Init
  <1>2. IInv /\ [Next]_vars => [DeliveryStep]_vars
    BY NextIInv
  <1>. QED  BY Invariance, <1>1, <1>2, PTL DEF Spec, DeliversEverySource

=============================================================================
