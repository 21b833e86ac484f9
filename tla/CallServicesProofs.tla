-------------------------- MODULE CallServicesProofs --------------------------
(***************************************************************************)
(* Proofs about what happens to one call, in three parts that share no     *)
(* state: who said what (DiarizationCall), the background manager of the   *)
(* RAG requests (RagBackground) and how the call is coached (CoachingCall).*)
(*                                                                         *)
(* DiarizationCall, for any conversations, windows, phrases, thresholds    *)
(* and limits.  A sum and a matching are folds over finite sets; their     *)
(* properties are proved by induction over the subsets, with the predicate *)
(* as a family of sets.  That makes the best matching of a window give     *)
(* everyone who speaks in the time it shares with the history the speaker  *)
(* of the call they had, because of all retained windows the one that ends *)
(* last has all the time the new one can share with any (the anchor), and  *)
(* the retained windows agree.  The states of the call then keep the       *)
(* history, the outcomes and what is routed in step (CallInv).             *)
(*                                                                         *)
(* RagBackground, for any scopes, revisions, threads, workers and capacity.*)
(*                                                                         *)
(* CoachingCall, for any labels, rules, templates, texts, scores, outputs  *)
(* of the model and limits.  The coordinator works label by label, so what *)
(* it keeps is proved by induction over the labels in order: the books of  *)
(* the call (Kept) agree after every card offered, promoted or withdrawn.  *)
(* An event then leaves nothing provisional behind that is not tracked     *)
(* (Settled), or is rolled back as a whole.                                *)
(***************************************************************************)
EXTENDS DiarizationCall, RagBackground, CoachingCall, FiniteSetTheorems,
        WellFoundedInduction, TLAPS

-----------------------------------------------------------------------------
(* DiarizationCall: finite sets, sums and folds.                            *)

\* A set of natural numbers that is not empty has a least element.
LEMMA LeastNumber ==
    ASSUME NEW T \in SUBSET Nat, T # {}
    PROVE  \E x \in T : \A y \in T : x <= y
  <1> DEFINE Less == OpToRel(<, Nat)
  <1>1. \A x, y \in Nat : y < x => <<y, x>> \in Less
    BY DEF OpToRel
  <1>2. IsWellFoundedOn(Less, Nat)
    BY NatLessThanWellFounded
  <1> HIDE DEF Less
  <1>3. PICK x \in T : \A y \in T : ~ (<<y, x>> \in Less)
    BY <1>2, WFMin, Zenon
  <1>4. ASSUME NEW y \in T PROVE x <= y
    <2>1. x \in Nat /\ y \in Nat
      OBVIOUS
    <2>2. ~ (y < x)
      BY <1>1, <1>3, <2>1, Zenon
    <2>. QED  BY <2>1, <2>2
  <1>. QED  BY <1>4

\* Induction, stated of sets of numbers.
LEMMA Induction ==
    ASSUME NEW A \in SUBSET Nat, 0 \in A, \A n \in A : n + 1 \in A
    PROVE  A = Nat
  <1> SUFFICES ASSUME Nat \ A # {} PROVE FALSE
    OBVIOUS
  <1>1. PICK x \in Nat \ A : \A y \in Nat \ A : x <= y
    BY LeastNumber
  <1>2. x # 0 /\ x - 1 \in Nat /\ x - 1 \in A
    BY <1>1
  <1>. QED  BY <1>1, <1>2

\* Induction over the subsets of a finite set, stated of families of sets.
LEMMA SubsetInduction ==
    ASSUME NEW S, IsFiniteSet(S), NEW F, {} \in F,
           \A T \in SUBSET S : \A x \in S \ T : T \in F => T \cup {x} \in F
    PROVE  \A T \in SUBSET S : T \in F
  <1> DEFINE A == {n \in Nat : \A T \in SUBSET S : Cardinality(T) = n => T \in F}
  <1>1. \A T \in SUBSET S : IsFiniteSet(T) /\ Cardinality(T) \in Nat
    BY FS_Subset, FS_CardinalityType
  <1>2. 0 \in A
    BY <1>1, FS_EmptySet
  <1>3. ASSUME NEW n \in A PROVE n + 1 \in A
    <2> SUFFICES ASSUME NEW T \in SUBSET S, Cardinality(T) = n + 1
                 PROVE  T \in F
      OBVIOUS
    <2>1. PICK x \in T : TRUE
      BY FS_EmptySet
    <2>2. T \ {x} \in SUBSET S /\ Cardinality(T \ {x}) = n
      <3>1. Cardinality(T \ {x}) = Cardinality(T) - 1
        BY <1>1, FS_RemoveElement
      <3>. QED  BY <3>1
    <2>3. T \ {x} \in F /\ (T \ {x}) \cup {x} = T
      BY <2>2
    <2>. QED  BY <2>2, <2>3
  <1>4. A = Nat
    <2> HIDE DEF A
    <2>1. A \in SUBSET Nat
      BY DEF A
    <2>. QED  BY <1>2, <1>3, <2>1, Induction
  <1>. QED  BY <1>1, <1>4

\* A total preorder has a first element in every finite set.
LEMMA FirstOf ==
    ASSUME NEW S, IsFiniteSet(S), S # {}, NEW R,
           \A x, y \in S : x # y => <<x, y>> \in R \/ <<y, x>> \in R,
           \A x, y, z \in S : /\ <<x, y>> \in R /\ <<y, z>> \in R
                              => x = z \/ <<x, z>> \in R
    PROVE  \E x \in S : \A y \in S \ {x} : <<x, y>> \in R
  <1> DEFINE HasFirst(T) == \E x \in T : \A y \in T \ {x} : <<x, y>> \in R
             F == {T \in SUBSET S : T = {} \/ HasFirst(T)}
  <1>1. ASSUME NEW T \in SUBSET S, NEW z \in S \ T, T \in F
        PROVE  T \cup {z} \in F
    <2>1. CASE T = {}
      BY <2>1
    <2>2. CASE T # {}
      <3>1. PICK x \in T : \A y \in T \ {x} : <<x, y>> \in R
        BY <1>1, <2>2
      <3>2. CASE <<x, z>> \in R
        BY <3>1, <3>2
      <3>3. CASE <<z, x>> \in R
        <4>1. \A y \in (T \cup {z}) \ {z} : <<z, y>> \in R
          BY <3>1, <3>3
        <4>. QED  BY <4>1
      <3>. QED  BY <3>2, <3>3
    <2>. QED  BY <2>1, <2>2
  <1>2. \A T \in SUBSET S : T \in F
    <2>1. {} \in F
      OBVIOUS
    <2> HIDE DEF F
    <2>. QED  BY <1>1, <2>1, SubsetInduction
  <1>. QED  BY <1>2

\* A recursion that takes one element after another out of a finite set has
\* a solution.
Picks(S, next) == \A T \in SUBSET S : T # {} => next[T] \in T

Folds(g, S, next, base, op) ==
    g = [T \in SUBSET S |-> IF T = {} THEN base
                            ELSE op[<<next[T], g[T \ {next[T]}]>>]]

LEMMA Recursion ==
    ASSUME NEW S, IsFiniteSet(S), NEW next, Picks(S, next),
           NEW V, NEW base \in V, NEW op \in [S \X V -> V]
    PROVE  \E g \in [SUBSET S -> V] : Folds(g, S, next, base, op)
  <1> DEFINE UpTo(n) == {T \in SUBSET S : Cardinality(T) <= n}
             Value(g, T) == IF T = {} THEN base
                            ELSE op[<<next[T], g[T \ {next[T]}]>>]
             A == {n \in Nat : \E g \in [UpTo(n) -> V] :
                                   \A T \in UpTo(n) : g[T] = Value(g, T)}
  <1>0. \A T \in SUBSET S : T # {} => next[T] \in T
    BY DEF Picks
  <1>1. \A T \in SUBSET S : IsFiniteSet(T) /\ Cardinality(T) \in Nat
    BY FS_Subset, FS_CardinalityType
  <1>2. 0 \in A
    <2>1. UpTo(0) = {{}}
      BY <1>1, FS_EmptySet
    <2>2. [T \in UpTo(0) |-> base] \in [UpTo(0) -> V]
      OBVIOUS
    <2>. QED  BY <2>1, <2>2
  <1>3. ASSUME NEW n \in A PROVE n + 1 \in A
    <2>1. PICK g \in [UpTo(n) -> V] : \A T \in UpTo(n) : g[T] = Value(g, T)
      OBVIOUS
    <2> DEFINE h == [T \in UpTo(n + 1) |-> Value(g, T)]
    <2>2. ASSUME NEW T \in UpTo(n + 1), T # {}
          PROVE  next[T] \in S /\ T \ {next[T]} \in UpTo(n)
      <3>1. T \in SUBSET S /\ next[T] \in T
        BY <1>0, <2>2
      <3>2. Cardinality(T \ {next[T]}) = Cardinality(T) - 1
        BY <1>1, <3>1, FS_RemoveElement
      <3>. QED  BY <1>1, <3>1, <3>2
    <2>3. \A T \in UpTo(n) : T \in UpTo(n + 1) /\ h[T] = g[T]
      BY <1>1, <2>1
    <2>4. \A T \in UpTo(n + 1) : Value(h, T) = Value(g, T)
      BY <2>2, <2>3
    <2>5. \A T \in UpTo(n + 1) : Value(g, T) \in V
      BY <2>2
    <2>6. h \in [UpTo(n + 1) -> V] /\ \A T \in UpTo(n + 1) : h[T] = Value(h, T)
      BY <2>4, <2>5
    <2> HIDE DEF Value, UpTo, h
    <2>. QED  BY <2>6
  <1>4. A = Nat
    <2> HIDE DEF A
    <2>1. A \in SUBSET Nat
      BY DEF A
    <2>. QED  BY <1>2, <1>3, <2>1, Induction
  <1>5. UpTo(Cardinality(S)) = SUBSET S
    BY <1>1, FS_Subset
  <1>6. PICK g \in [SUBSET S -> V] : \A T \in SUBSET S : g[T] = Value(g, T)
    <2> HIDE DEF Value, UpTo
    <2>1. Cardinality(S) \in A
      BY <1>1, <1>4
    <2>. QED  BY <1>5, <2>1
  <1>7. g = [T \in SUBSET S |-> Value(g, T)]
    BY <1>6
  <1>. QED  BY <1>7 DEF Folds

\* Induction along such a recursion, stated of a family of sets.
LEMMA RecursionInduction ==
    ASSUME NEW S, IsFiniteSet(S), NEW next, Picks(S, next), NEW F, {} \in F,
           \A T \in SUBSET S : T # {} /\ T \ {next[T]} \in F => T \in F
    PROVE  \A T \in SUBSET S : T \in F
  <1> DEFINE A == {n \in Nat : \A T \in SUBSET S : Cardinality(T) <= n => T \in F}
  <1>1. \A T \in SUBSET S : IsFiniteSet(T) /\ Cardinality(T) \in Nat
    BY FS_Subset, FS_CardinalityType
  <1>2. 0 \in A
    <2> SUFFICES ASSUME NEW T \in SUBSET S, Cardinality(T) <= 0
                 PROVE  T \in F
      OBVIOUS
    <2>1. T = {}
      BY <1>1, FS_EmptySet
    <2>. QED  BY <2>1
  <1>3. ASSUME NEW n \in A PROVE n + 1 \in A
    <2> SUFFICES ASSUME NEW T \in SUBSET S, Cardinality(T) <= n + 1
                 PROVE  T \in F
      OBVIOUS
    <2>1. CASE T # {}
      <3>1. next[T] \in T /\ T \ {next[T]} \in SUBSET S
        BY <2>1 DEF Picks
      <3>2. Cardinality(T \ {next[T]}) = Cardinality(T) - 1
        BY <1>1, <3>1, FS_RemoveElement
      <3>3. T \ {next[T]} \in F
        BY <1>1, <3>1, <3>2
      <3>. QED  BY <2>1, <3>1, <3>3
    <2>. QED  BY <2>1
  <1>4. A = Nat
    <2> HIDE DEF A
    <2>1. A \in SUBSET Nat
      BY DEF A
    <2>. QED  BY <1>2, <1>3, <2>1, Induction
  <1>. QED  BY <1>1, <1>4

-----------------------------------------------------------------------------
(* Sums *)

\* The sums over the subsets of a set take one element out after another.
LEMMA SumIsFold ==
    ASSUME NEW S, IsFiniteSet(S), NEW f \in [S -> Nat]
    PROVE  \E g \in [SUBSET S -> Nat] :
              \A T \in SUBSET S :
                 /\ T = {} => g[T] = 0
                 /\ T # {} => g[T] = f[CHOOSE x \in T : TRUE]
                                     + g[T \ {CHOOSE x \in T : TRUE}]
                 /\ SumFunctionOnSet(f, T) = g[T]
  <1> DEFINE next == [T \in SUBSET S |-> CHOOSE x \in T : TRUE]
             op == [p \in S \X Nat |-> f[p[1]] + p[2]]
             Value(g, T) == IF T = {} THEN 0
                            ELSE f[CHOOSE x \in T : TRUE]
                                     + g[T \ {CHOOSE x \in T : TRUE}]
  <1>1. Picks(S, next)
    BY DEF Picks
  <1>2. op \in [S \X Nat -> Nat]
    OBVIOUS
  <1>3. PICK g \in [SUBSET S -> Nat] : Folds(g, S, next, 0, op)
    <2> HIDE DEF next, op
    <2>. QED  BY <1>1, <1>2, Recursion
  <1>4. \A T \in SUBSET S : g[T] = Value(g, T)
    BY <1>3 DEF Folds
  <1>5. ASSUME NEW T \in SUBSET S PROVE SumFunctionOnSet(f, T) = g[T]
    <2> DEFINE Body(h) == [U \in SUBSET T |-> Value(h, U)]
               it == CHOOSE h : h = Body(h)
               r == [U \in SUBSET T |-> g[U]]
               F == {U \in SUBSET T : it[U] = g[U]}
               nextT == [U \in SUBSET T |-> CHOOSE x \in U : TRUE]
    <2>1. r = Body(r)
      <3>1. \A U \in SUBSET T : U \in SUBSET S /\ r[U] = g[U]
        OBVIOUS
      <3>2. \A U \in SUBSET T : Value(r, U) = Value(g, U)
        BY <3>1
      <3> HIDE DEF Value
      <3>. QED  BY <1>4, <3>1, <3>2
    <2>2. it = Body(it)
      <3> HIDE DEF Body, r
      <3>. QED  BY <2>1
    <2>3. SumFunctionOnSet(f, T) = it[T]
      BY DEF SumFunctionOnSet, FoldFunctionOnSet, MapThenFoldSet
    <2> HIDE DEF it
    <2>4. \A U \in SUBSET T : it[U] = Value(it, U)
      <3> HIDE DEF Value
      <3>. QED  BY <2>2
    <2>5. {} \in F
      BY <1>4, <2>4
    <2>6. ASSUME NEW U \in SUBSET T, U # {}, U \ {nextT[U]} \in F
          PROVE  U \in F
      BY <1>4, <2>4, <2>6
    <2>7. Picks(T, nextT) /\ IsFiniteSet(T)
      BY FS_Subset DEF Picks
    <2>8. \A U \in SUBSET T : U \in F
      <3> HIDE DEF F, nextT
      <3>. QED  BY <2>5, <2>6, <2>7, RecursionInduction
    <2>. QED  BY <2>3, <2>8
  <1>. QED  BY <1>4, <1>5

\* The sum over a set takes out any of its elements, and goes on.
LEMMA SumStep ==
    ASSUME NEW S, IsFiniteSet(S), NEW f \in [S -> Nat]
    PROVE  /\ SumFunctionOnSet(f, {}) = 0
           /\ \A T \in SUBSET S :
                 /\ SumFunctionOnSet(f, T) \in Nat
                 /\ \A x \in T : SumFunctionOnSet(f, T)
                                   = f[x] + SumFunctionOnSet(f, T \ {x})
  <1>1. PICK g \in [SUBSET S -> Nat] :
              \A T \in SUBSET S :
                 /\ T = {} => g[T] = 0
                 /\ T # {} => g[T] = f[CHOOSE x \in T : TRUE]
                                     + g[T \ {CHOOSE x \in T : TRUE}]
                 /\ SumFunctionOnSet(f, T) = g[T]
    BY ZenonT(60), SumIsFold
  <1> DEFINE A == {n \in Nat : \A T \in SUBSET S : Cardinality(T) <= n =>
                                   \A x \in T : g[T] = f[x] + g[T \ {x}]}
  <1>2. \A T \in SUBSET S : IsFiniteSet(T) /\ Cardinality(T) \in Nat
    BY FS_Subset, FS_CardinalityType
  <1>3. 0 \in A
    BY <1>2, FS_EmptySet
  <1>4. ASSUME NEW n \in A PROVE n + 1 \in A
    <2> SUFFICES ASSUME NEW T \in SUBSET S, Cardinality(T) <= n + 1, NEW x \in T
                 PROVE  g[T] = f[x] + g[T \ {x}]
      OBVIOUS
    <2> DEFINE c == CHOOSE y \in T : TRUE
    <2>0. \A U \in SUBSET S : Cardinality(U) <= n =>
                                   \A y \in U : g[U] = f[y] + g[U \ {y}]
      BY <1>4
    <2>1. c \in T /\ g[T] = f[c] + g[T \ {c}]
      BY <1>1
    <2> HIDE DEF c
    <2>2. CASE c # x
      <3>1. /\ T \ {c} \in SUBSET S /\ T \ {x} \in SUBSET S
            /\ c \in T \ {x} /\ x \in T \ {c}
            /\ (T \ {c}) \ {x} = (T \ {x}) \ {c}
            /\ (T \ {c}) \ {x} \in SUBSET S
        BY <2>1, <2>2
      <3>2. /\ Cardinality(T \ {c}) = Cardinality(T) - 1
            /\ Cardinality(T \ {x}) = Cardinality(T) - 1
        BY <1>2, <2>1, FS_RemoveElement
      <3>3. /\ g[T \ {c}] = f[x] + g[(T \ {c}) \ {x}]
            /\ g[T \ {x}] = f[c] + g[(T \ {x}) \ {c}]
        <4>1. /\ Cardinality(T \ {c}) <= n /\ Cardinality(T \ {x}) <= n
          BY <1>2, <3>2
        <4>. QED  BY <2>0, <3>1, <4>1, Zenon
      <3> DEFINE rest == g[(T \ {c}) \ {x}]
      <3>4. f[x] \in Nat /\ f[c] \in Nat /\ rest \in Nat
        BY <2>1, <3>1
      <3>5. g[T] = f[c] + (f[x] + rest) /\ g[T \ {x}] = f[c] + rest
        BY <2>1, <3>1, <3>3, Zenon
      <3> HIDE DEF rest
      <3>. QED  BY <3>4, <3>5
    <2>. QED  BY <2>1, <2>2
  <1>5. A = Nat
    <2> HIDE DEF A
    <2>1. A \in SUBSET Nat
      BY DEF A
    <2>. QED  BY <1>3, <1>4, <2>1, Induction
  <1>6. \A T \in SUBSET S : \A x \in T : g[T] = f[x] + g[T \ {x}]
    <2> SUFFICES ASSUME NEW T \in SUBSET S
                 PROVE  \A x \in T : g[T] = f[x] + g[T \ {x}]
      OBVIOUS
    <2>1. Cardinality(T) \in A /\ Cardinality(T) <= Cardinality(T)
      BY <1>2, <1>5
    <2>. QED  BY <2>1
  <1>7. {} \in SUBSET S /\ \A T \in SUBSET S : \A x \in T : T \ {x} \in SUBSET S
    OBVIOUS
  <1>8. \A T \in SUBSET S : /\ SumFunctionOnSet(f, T) = g[T]
                            /\ T = {} => g[T] = 0
    BY <1>1
  <1>9. SumFunctionOnSet(f, {}) = 0
    BY <1>7, <1>8
  <1>10. ASSUME NEW T \in SUBSET S
         PROVE  /\ SumFunctionOnSet(f, T) \in Nat
                /\ \A x \in T : SumFunctionOnSet(f, T)
                                   = f[x] + SumFunctionOnSet(f, T \ {x})
    <2>1. SumFunctionOnSet(f, T) = g[T] /\ g[T] \in Nat
      BY <1>8
    <2>2. \A x \in T : SumFunctionOnSet(f, T \ {x}) = g[T \ {x}]
      BY <1>7, <1>8
    <2>. QED  BY <1>6, <2>1, <2>2
  <1>. QED  BY <1>9, <1>10

\* A sum that lacks only zeros is not larger, and smaller if something is
\* missing.
LEMMA SumCompare ==
    ASSUME NEW S, IsFiniteSet(S), NEW f \in [S -> Nat],
           NEW T \in SUBSET S, NEW U \in SUBSET S,
           \A x \in T : f[x] > 0 => x \in U
    PROVE  /\ SumFunctionOnSet(f, T) \in Nat /\ SumFunctionOnSet(f, U) \in Nat
           /\ SumFunctionOnSet(f, T) <= SumFunctionOnSet(f, U)
           /\ (\E y \in U \ T : f[y] > 0) =>
                  SumFunctionOnSet(f, T) < SumFunctionOnSet(f, U)
  <1> DEFINE g == [V \in SUBSET S |-> SumFunctionOnSet(f, V)]
             Within(V, W) == \A x \in V : f[x] > 0 => x \in W
             F == {V \in SUBSET S : \A W \in SUBSET S :
                                        Within(V, W) => g[V] <= g[W]}
  <1>1. /\ g \in [SUBSET S -> Nat] /\ g[{}] = 0
        /\ \A V \in SUBSET S : \A x \in V : g[V] = f[x] + g[V \ {x}]
    <2>1. \A V \in SUBSET S : \A x \in V : V \ {x} \in SUBSET S
      OBVIOUS
    <2>2. {} \in SUBSET S
      OBVIOUS
    <2>. QED  BY <2>1, <2>2, SumStep
  <1> HIDE DEF g
  <1>2. {} \in F
    BY <1>1
  <1>3. ASSUME NEW V \in SUBSET S, NEW z \in S \ V, V \in F
        PROVE  V \cup {z} \in F
    <2> SUFFICES ASSUME NEW W \in SUBSET S, Within(V \cup {z}, W)
                 PROVE  g[V \cup {z}] <= g[W]
      OBVIOUS
    <2>1. V \cup {z} \in SUBSET S /\ (V \cup {z}) \ {z} = V
      BY <1>3
    <2>2. g[V \cup {z}] = f[z] + g[V]
      BY <1>1, <2>1
    <2>3. /\ g[V] \in Nat /\ f[z] \in Nat /\ g[W] \in Nat
          /\ W \ {z} \in SUBSET S /\ g[W \ {z}] \in Nat
      BY <1>1
    <2>4. CASE f[z] = 0
      <3>1. g[V] <= g[W]
        BY <1>3
      <3>. QED  BY <2>2, <2>3, <2>4, <3>1
    <2>5. CASE f[z] > 0
      <3>1. z \in W /\ Within(V, W \ {z})
        BY <2>5
      <3>2. g[V] <= g[W \ {z}]
        BY <1>3, <2>3, <3>1
      <3>3. g[W] = f[z] + g[W \ {z}]
        BY <1>1, <3>1
      <3>. QED  BY <2>2, <2>3, <3>2, <3>3
    <2>. QED  BY <2>3, <2>4, <2>5
  <1>4. \A V \in SUBSET S : V \in F
    <2> HIDE DEF F
    <2>. QED  BY <1>2, <1>3, SubsetInduction
  <1>5. g[T] \in Nat /\ g[U] \in Nat /\ g[T] <= g[U]
    BY <1>1, <1>4
  <1>6. ASSUME NEW y \in U \ T, f[y] > 0 PROVE g[T] < g[U]
    <2>1. U \ {y} \in SUBSET S /\ Within(T, U \ {y})
      OBVIOUS
    <2>2. g[T] <= g[U \ {y}] /\ g[U \ {y}] \in Nat /\ f[y] \in Nat
      BY <1>1, <1>4, <2>1
    <2>3. g[U] = f[y] + g[U \ {y}]
      BY <1>1
    <2>. QED  BY <1>5, <1>6, <2>2, <2>3
  <1>. QED  BY <1>5, <1>6 DEF g

\* A sum is positive when one of its terms is.
LEMMA SumPositive ==
    ASSUME NEW S, IsFiniteSet(S), NEW f \in [S -> Nat]
    PROVE  /\ SumFunctionOnSet(f, S) \in Nat
           /\ SumFunctionOnSet(f, S) > 0 <=> \E x \in S : f[x] > 0
  <1>1. {} \in SUBSET S /\ S \in SUBSET S /\ SumFunctionOnSet(f, {}) = 0
    BY SumStep
  <1>2. ASSUME NEW x \in S, f[x] > 0 PROVE SumFunctionOnSet(f, S) > 0
    <2>1. SumFunctionOnSet(f, {}) < SumFunctionOnSet(f, S)
      BY <1>1, <1>2, SumCompare
    <2>. QED  BY <1>1, <2>1
  <1>3. SumFunctionOnSet(f, S) \in Nat
    BY SumStep
  <1>4. ASSUME \A x \in S : ~(f[x] > 0) PROVE SumFunctionOnSet(f, S) <= 0
    <2>1. SumFunctionOnSet(f, S) <= SumFunctionOnSet(f, {})
      BY <1>1, <1>4, SumCompare
    <2>. QED  BY <1>1, <2>1
  <1>. QED  BY <1>2, <1>3, <1>4

\* The sum over a set depends on the terms of the set alone.
LEMMA SumLocal ==
    ASSUME NEW S, IsFiniteSet(S), NEW f \in [S -> Nat],
           NEW R, IsFiniteSet(R), NEW h \in [R -> Nat],
           R \in SUBSET S, \A x \in R : f[x] = h[x]
    PROVE  SumFunctionOnSet(f, R) = SumFunctionOnSet(h, R)
  <1> DEFINE g == [V \in SUBSET S |-> SumFunctionOnSet(f, V)]
             k == [V \in SUBSET R |-> SumFunctionOnSet(h, V)]
             F == {V \in SUBSET R : g[V] = k[V]}
  <1>1. /\ g[{}] = 0
        /\ \A V \in SUBSET S : \A x \in V : g[V] = f[x] + g[V \ {x}]
    <2>1. \A V \in SUBSET S : \A x \in V : V \ {x} \in SUBSET S
      OBVIOUS
    <2>2. {} \in SUBSET S
      OBVIOUS
    <2>. QED  BY <2>1, <2>2, SumStep
  <1>2. /\ k[{}] = 0
        /\ \A V \in SUBSET R : \A x \in V : k[V] = h[x] + k[V \ {x}]
    <2>1. \A V \in SUBSET R : \A x \in V : V \ {x} \in SUBSET R
      OBVIOUS
    <2>2. {} \in SUBSET R
      OBVIOUS
    <2>. QED  BY <2>1, <2>2, SumStep
  <1>3. \A V \in SUBSET R : V \in SUBSET S
    OBVIOUS
  <1>4. g[R] = SumFunctionOnSet(f, R) /\ k[R] = SumFunctionOnSet(h, R)
    OBVIOUS
  <1> HIDE DEF g, k
  <1>5. {} \in F
    BY <1>1, <1>2
  <1>6. ASSUME NEW V \in SUBSET R, NEW z \in R \ V, V \in F
        PROVE  V \cup {z} \in F
    <2>1. V \cup {z} \in SUBSET R /\ V \cup {z} \in SUBSET S /\ (V \cup {z}) \ {z} = V
      BY <1>6
    <2>2. g[V \cup {z}] = f[z] + g[V] /\ k[V \cup {z}] = h[z] + k[V]
      <3>1. z \in V \cup {z}
        OBVIOUS
      <3>2. g[V \cup {z}] = f[z] + g[V]
        BY <1>1, <2>1, <3>1
      <3>3. k[V \cup {z}] = h[z] + k[V]
        BY <1>2, <2>1, <3>1
      <3>. QED  BY <3>2, <3>3
    <2>. QED  BY <1>6, <2>1, <2>2
  <1>7. \A V \in SUBSET R : V \in F
    <2> HIDE DEF F
    <2>. QED  BY <1>5, <1>6, SubsetInduction
  <1>. QED  BY <1>4, <1>7

-----------------------------------------------------------------------------
(* The tracker's history as a fold over the accepted windows. *)

\* The largest of a finite set of numbers.
LEMMA MaxOf ==
    ASSUME NEW T \in SUBSET Int, IsFiniteSet(T), T # {}
    PROVE  Max(T) \in T /\ \A x \in T : x <= Max(T)
  <1> DEFINE R == {p \in T \X T : p[1] >= p[2]}
  <1>1. \A x, y \in T : <<x, y>> \in R <=> x >= y
    OBVIOUS
  <1>2. \A x, y \in T : x # y => <<x, y>> \in R \/ <<y, x>> \in R
    BY <1>1
  <1>3. \A x, y, z \in T : /\ <<x, y>> \in R /\ <<y, z>> \in R
                           => x = z \/ <<x, z>> \in R
    BY <1>1
  <1>4. PICK x \in T : \A y \in T \ {x} : <<x, y>> \in R
    <2> HIDE DEF R
    <2>. QED  BY <1>2, <1>3, FirstOf
  <1>5. ASSUME NEW y \in T PROVE x >= y
    <2>1. CASE y = x
      BY <2>1
    <2>2. CASE y # x
      BY <1>1, <1>4, <2>2
    <2>. QED  BY <2>1, <2>2
  <1>6. \E m \in T : \A y \in T : m >= y
    BY <1>5
  <1>7. Max(T) \in T /\ \A y \in T : Max(T) >= y
    BY <1>6, Zenon DEF Max
  <1>. QED  BY <1>7

\* The last element of a prefix of the numbers.
LEMMA MaxOfPrefix ==
    ASSUME NEW k \in Nat \ {0}
    PROVE  Max(1 .. k) = k /\ (1 .. k) \ {k} = 1 .. (k - 1)
  <1>1. 1 .. k \in SUBSET Int /\ IsFiniteSet(1 .. k) /\ k \in 1 .. k
    BY FS_Interval
  <1>2. Max(1 .. k) \in 1 .. k /\ k <= Max(1 .. k)
    BY <1>1, MaxOf
  <1>. QED  BY <1>2

\* The steps of the fold over the sequence s.
History(s, g, T) ==
    IF T = {} THEN NoHistory ELSE Tracked(g[T \ {Max(T)}], s[Max(T)])

\* The fold over a sequence has a solution, prefix by prefix.
LEMMA HistoryExists ==
    ASSUME NEW s, NEW n \in Nat
    PROVE  \E g : g = [T \in SUBSET (1 .. n) |-> History(s, g, T)]
  <1> DEFINE S == 1 .. n
             UpTo(m) == {T \in SUBSET S : Cardinality(T) <= m}
             A == {m \in Nat : \E g : \A T \in UpTo(m) : g[T] = History(s, g, T)}
  <1>1. \A T \in SUBSET S : /\ IsFiniteSet(T) /\ Cardinality(T) \in Nat
                            /\ T # {} => Max(T) \in T
    <2>1. IsFiniteSet(S)
      BY FS_Interval
    <2>2. \A T \in SUBSET S : T \in SUBSET Int
      OBVIOUS
    <2> HIDE DEF S
    <2>. QED  BY <2>1, <2>2, FS_Subset, FS_CardinalityType, MaxOf
  <1> HIDE DEF S
  <1>2. 0 \in A
    <2> DEFINE g == [T \in UpTo(0) |-> NoHistory]
    <2>1. \A T \in UpTo(0) : T = {} /\ g[T] = NoHistory
      BY <1>1, FS_EmptySet
    <2>2. \A T \in UpTo(0) : g[T] = History(s, g, T)
      BY <2>1 DEF History
    <2> HIDE DEF g, UpTo
    <2>. QED  BY <2>2
  <1>3. ASSUME NEW m \in A PROVE m + 1 \in A
    <2>1. PICK g : \A T \in UpTo(m) : g[T] = History(s, g, T)
      OBVIOUS
    <2> DEFINE h == [T \in UpTo(m + 1) |-> History(s, g, T)]
    <2>2. ASSUME NEW T \in UpTo(m + 1), T # {}
          PROVE  T \ {Max(T)} \in UpTo(m)
      <3>1. T \in SUBSET S /\ Max(T) \in T
        BY <1>1, <2>2
      <3>2. Cardinality(T \ {Max(T)}) = Cardinality(T) - 1
        BY <1>1, <3>1, FS_RemoveElement
      <3>3. m \in Nat
        OBVIOUS
      <3>. QED  BY <1>1, <3>1, <3>2, <3>3
    <2>3. \A T \in UpTo(m) : T \in UpTo(m + 1) /\ h[T] = g[T]
      BY <1>1, <2>1
    <2>4. \A T \in UpTo(m + 1) : History(s, h, T) = History(s, g, T)
      BY <2>2, <2>3 DEF History
    <2>5. \A T \in UpTo(m + 1) : h[T] = History(s, h, T)
      BY <2>4
    <2> HIDE DEF h, UpTo
    <2>. QED  BY <2>5
  <1>4. A = Nat
    <2> HIDE DEF A
    <2>1. A \in SUBSET Nat
      BY DEF A
    <2>. QED  BY <1>2, <1>3, <2>1, Induction
  <1>5. UpTo(Cardinality(S)) = SUBSET S
    <2>1. IsFiniteSet(S)
      BY FS_Interval DEF S
    <2>. QED  BY <1>1, <2>1, FS_Subset
  <1>6. PICK g : \A T \in SUBSET S : g[T] = History(s, g, T)
    <2>1. Cardinality(S) \in A
      BY <1>1, <1>4
    <2> HIDE DEF UpTo
    <2>. QED  BY <1>5, <2>1
  <1> DEFINE h == [T \in SUBSET S |-> g[T]]
  <1>7. \A T \in SUBSET S : h[T] = g[T] /\ History(s, h, T) = History(s, g, T)
    <2>1. \A T \in SUBSET S : T \ {Max(T)} \in SUBSET S
      OBVIOUS
    <2>. QED  BY <2>1 DEF History
  <1>8. h = [T \in SUBSET S |-> History(s, h, T)]
    BY <1>6, <1>7
  <1>. QED  BY <1>8 DEF S

\* What the fold over a sequence of length n computes.
LEMMA HistoryIsFold ==
    ASSUME NEW n \in Nat, NEW s, DOMAIN s = 1 .. n
    PROVE  \E g : /\ \A T \in SUBSET (1 .. n) : g[T] = History(s, g, T)
                  /\ FoldLeft(Tracked, NoHistory, s) = g[1 .. n]
  <1> DEFINE Body(g) == [T \in SUBSET (1 .. n) |-> History(s, g, T)]
             it == CHOOSE g : g = Body(g)
  <1>1. it = Body(it)
    <2>1. \E g : g = Body(g)
      BY HistoryExists
    <2> HIDE DEF Body
    <2>. QED  BY <2>1
  <1>2. FoldLeft(Tracked, NoHistory, s) = it[1 .. n]
    BY DEF FoldLeft, MapThenFoldSet, History
  <1> HIDE DEF it
  <1>3. \A T \in SUBSET (1 .. n) : it[T] = History(s, it, T)
    BY <1>1
  <1>. QED  BY <1>2, <1>3

\* No accepted window, no history.
LEMMA FoldOfNothing == FoldLeft(Tracked, NoHistory, <<>>) = NoHistory
  <1>1. DOMAIN <<>> = 1 .. 0 /\ 0 \in Nat
    OBVIOUS
  <1>2. PICK g : /\ \A T \in SUBSET (1 .. 0) : g[T] = History(<<>>, g, T)
                 /\ FoldLeft(Tracked, NoHistory, <<>>) = g[1 .. 0]
    BY <1>1, HistoryIsFold
  <1>3. 1 .. 0 = {}
    OBVIOUS
  <1>. QED  BY <1>2, <1>3 DEF History

\* One window more is one step more.
LEMMA FoldOfAppend ==
    ASSUME NEW V, NEW s \in Seq(V), NEW w
    PROVE  FoldLeft(Tracked, NoHistory, Append(s, w))
             = Tracked(FoldLeft(Tracked, NoHistory, s), w)
  <1> DEFINE n == Len(s)
             t == Append(s, w)
  <1>1. /\ n \in Nat /\ DOMAIN s = 1 .. n /\ DOMAIN t = 1 .. (n + 1)
        /\ \A i \in 1 .. n : t[i] = s[i]
        /\ t[n + 1] = w
    OBVIOUS
  <1> HIDE DEF n, t
  <1>2. PICK g : /\ \A T \in SUBSET (1 .. n) : g[T] = History(s, g, T)
                 /\ FoldLeft(Tracked, NoHistory, s) = g[1 .. n]
    BY <1>1, HistoryIsFold
  <1>3. PICK h : /\ \A T \in SUBSET (1 .. (n + 1)) : h[T] = History(t, h, T)
                 /\ FoldLeft(Tracked, NoHistory, t) = h[1 .. (n + 1)]
    <2>1. n + 1 \in Nat
      BY <1>1
    <2>. QED  BY <1>1, <2>1, HistoryIsFold
  <1>4. ASSUME NEW k \in 1 .. n
        PROVE  /\ g[1 .. k] = Tracked(g[1 .. (k - 1)], s[k])
               /\ h[1 .. k] = Tracked(h[1 .. (k - 1)], s[k])
    <2>1. /\ 1 .. k \in SUBSET (1 .. n) /\ 1 .. k \in SUBSET (1 .. (n + 1))
          /\ 1 .. k # {} /\ k \in Nat \ {0} /\ t[k] = s[k]
      <3>1. k \in 1 .. k /\ k \in Nat \ {0} /\ k <= n
        BY <1>1
      <3>2. \A i \in 1 .. k : i \in 1 .. n /\ i \in 1 .. (n + 1)
        BY <1>1, <3>1
      <3>. QED  BY <1>1, <3>1, <3>2
    <2>2. Max(1 .. k) = k /\ (1 .. k) \ {k} = 1 .. (k - 1)
      BY <2>1, MaxOfPrefix
    <2>3. g[1 .. k] = History(s, g, 1 .. k) /\ h[1 .. k] = History(t, h, 1 .. k)
      BY <1>2, <1>3, <2>1
    <2>. QED  BY <2>1, <2>2, <2>3, Zenon DEF History
  <1>5. h[1 .. (n + 1)] = Tracked(h[1 .. n], w)
    <2>1. /\ 1 .. (n + 1) \in SUBSET (1 .. (n + 1)) /\ 1 .. (n + 1) # {}
          /\ n + 1 \in Nat \ {0} /\ (n + 1) - 1 = n
      <3>1. n + 1 \in 1 .. (n + 1) /\ n + 1 \in Nat \ {0} /\ (n + 1) - 1 = n
        BY <1>1
      <3>. QED  BY <3>1
    <2>2. Max(1 .. (n + 1)) = n + 1 /\ (1 .. (n + 1)) \ {n + 1} = 1 .. n
      BY <2>1, MaxOfPrefix
    <2>3. h[1 .. (n + 1)] = History(t, h, 1 .. (n + 1))
      BY <1>3, <2>1
    <2>. QED  BY <1>1, <2>1, <2>2, <2>3, Zenon DEF History
  <1> DEFINE A == {k \in Nat : k <= n => g[1 .. k] = h[1 .. k]}
  <1>6. 0 \in A
    <2>1. 1 .. 0 = {} /\ {} \in SUBSET (1 .. n) /\ {} \in SUBSET (1 .. (n + 1))
      OBVIOUS
    <2>2. g[{}] = History(s, g, {}) /\ h[{}] = History(t, h, {})
      BY <1>2, <1>3, <2>1
    <2>. QED  BY <2>1, <2>2 DEF History
  <1>7. ASSUME NEW k \in A PROVE k + 1 \in A
    <2> SUFFICES ASSUME k + 1 <= n PROVE g[1 .. (k + 1)] = h[1 .. (k + 1)]
      OBVIOUS
    <2>1. k + 1 \in 1 .. n /\ (k + 1) - 1 = k /\ g[1 .. k] = h[1 .. k]
      BY <1>1
    <2>. QED  BY <1>4, <2>1
  <1>8. A = Nat
    <2> HIDE DEF A
    <2>1. A \in SUBSET Nat
      BY DEF A
    <2>. QED  BY <1>6, <1>7, <2>1, Induction
  <1>9. g[1 .. n] = h[1 .. n]
    <2>1. n \in A /\ n <= n
      BY <1>1, <1>8
    <2>. QED  BY <2>1
  <1>. QED  BY <1>2, <1>3, <1>5, <1>9 DEF t

-----------------------------------------------------------------------------
(* Ranges and turns. *)

IsRange(r) == r.from \in Nat /\ r.to \in Nat

\* The greater and the lesser of two numbers.
LEMMA MaxMinPair ==
    ASSUME NEW x \in Int, NEW y \in Int
    PROVE  /\ Max({x, y}) = IF x >= y THEN x ELSE y
           /\ Min({x, y}) = IF x <= y THEN x ELSE y
  <1>1. \E m \in {x, y} : \A z \in {x, y} : m >= z
    OBVIOUS
  <1>2. Max({x, y}) \in {x, y} /\ \A z \in {x, y} : Max({x, y}) >= z
    BY <1>1, Zenon DEF Max
  <1>3. \E m \in {x, y} : \A z \in {x, y} : m <= z
    OBVIOUS
  <1>4. Min({x, y}) \in {x, y} /\ \A z \in {x, y} : Min({x, y}) <= z
    BY <1>3, Zenon DEF Min
  <1>5. x \in {x, y} /\ y \in {x, y}
    OBVIOUS
  <1> DEFINE big == Max({x, y})
             small == Min({x, y})
  <1>6. /\ big = x \/ big = y
        /\ big >= x /\ big >= y
    BY <1>2, <1>5
  <1>7. /\ small = x \/ small = y
        /\ small <= x /\ small <= y
    BY <1>4, <1>5
  <1> HIDE DEF big, small
  <1>8. big = IF x >= y THEN x ELSE y
    BY <1>6
  <1>9. small = IF x <= y THEN x ELSE y
    BY <1>7
  <1>. QED  BY <1>8, <1>9 DEF big, small

\* Two ranges overlap when a unit is in both.
LEMMA OverlapIs ==
    ASSUME NEW a, IsRange(a), NEW b, IsRange(b)
    PROVE  /\ Overlap(a, b) \in Nat
           /\ Overlap(a, b) > 0 <=> \E u \in Nat : Covers(a, u) /\ Covers(b, u)
  <1> DEFINE low == Max({a.from, b.from})
             high == Min({a.to, b.to})
  <1>1. /\ low = IF a.from >= b.from THEN a.from ELSE b.from
        /\ high = IF a.to <= b.to THEN a.to ELSE b.to
    BY MaxMinPair DEF IsRange
  <1> HIDE DEF low, high
  <1>2. low \in Nat /\ high \in Nat
    BY <1>1 DEF IsRange
  <1>3. Overlap(a, b) = IF 0 >= high - low THEN 0 ELSE high - low
    <2>1. high - low \in Int /\ 0 \in Int
      BY <1>2
    <2>2. Max({0, high - low}) = IF 0 >= high - low THEN 0 ELSE high - low
      BY <2>1, MaxMinPair
    <2>. QED  BY <2>2 DEF Overlap, low, high
  <1>4. ASSUME NEW u \in Nat
        PROVE  Covers(a, u) /\ Covers(b, u) <=> low < u /\ u <= high
    BY <1>1 DEF Covers, IsRange
  <1>5. high > low => \E u \in Nat : low < u /\ u <= high
    <2>1. high > low => high \in Nat /\ low < high /\ high <= high
      BY <1>2
    <2>. QED  BY <2>1
  <1>6. (\E u \in Nat : low < u /\ u <= high) => high > low
    BY <1>2
  <1>7. Overlap(a, b) \in Nat /\ (Overlap(a, b) > 0 <=> high > low)
    BY <1>2, <1>3
  <1>. QED  BY <1>4, <1>5, <1>6, <1>7

Speech(u) == conversation.speech[u]

\* A turn is the speech of its people, under the window's names.
LEMMA TurnsAre ==
    ASSUME NEW r, IsRange(r), NEW names, NEW t \in TurnsIn(r, names)
    PROVE  /\ IsRange(t) /\ r.from <= t.from /\ t.from < t.to /\ t.to <= r.to
           /\ t.locals # {}
           /\ t = [from |-> t.from, to |-> t.to, locals |-> t.locals]
           /\ t.locals = {names[p] : p \in Speech(t.from + 1)}
           /\ \A u \in Nat : Covers(t, u) =>
                 /\ Covers(r, u) /\ Speech(u) # {}
                 /\ t.locals = {names[p] : p \in Speech(u)}
  <1>1. PICK s \in (r.from .. r.to) \X (r.from .. r.to) :
           /\ t = [from |-> s[1], to |-> s[2],
                   locals |-> {names[p] : p \in Speech(s[1] + 1)}]
           /\ s[1] < s[2]
           /\ Speech(s[1] + 1) # {}
           /\ \A u \in (s[1] + 1) .. s[2] : Speech(u) = Speech(s[1] + 1)
    BY DEF TurnsIn, Speech
  <1>2. s[1] \in r.from .. r.to /\ s[2] \in r.from .. r.to
    OBVIOUS
  <1>3. /\ t.from = s[1] /\ t.to = s[2]
        /\ t.locals = {names[p] : p \in Speech(t.from + 1)}
        /\ t = [from |-> t.from, to |-> t.to, locals |-> t.locals]
    BY <1>1
  <1>4. /\ IsRange(t) /\ r.from <= t.from /\ t.from < t.to /\ t.to <= r.to
    BY <1>1, <1>2, <1>3 DEF IsRange
  <1>5. t.locals # {}
    BY <1>1, <1>3
  <1>6. ASSUME NEW u \in Nat, Covers(t, u)
        PROVE  /\ Covers(r, u) /\ Speech(u) # {}
               /\ t.locals = {names[p] : p \in Speech(u)}
    <2>1. u \in (s[1] + 1) .. s[2] /\ Covers(r, u)
      BY <1>2, <1>3, <1>4, <1>6 DEF Covers, IsRange
    <2>2. Speech(u) = Speech(s[1] + 1)
      BY <1>1, <2>1
    <2>. QED  BY <1>1, <1>3, <2>1, <2>2
  <1>. QED  BY <1>3, <1>4, <1>5, <1>6

\* Every unit of the window in which somebody speaks is in a turn.
LEMMA TurnExists ==
    ASSUME NEW r, IsRange(r), NEW names, NEW u \in Nat, Covers(r, u),
           Speech(u) # {}
    PROVE  \E t \in TurnsIn(r, names) : Covers(t, u)
  <1> DEFINE Starts == {f \in Nat : /\ r.from <= f /\ f < u
                                    /\ \A v \in (f + 1) .. u : Speech(v) = Speech(u)}
             Ends == {k \in Nat : /\ u <= r.to - k
                                  /\ \A v \in u .. (r.to - k) : Speech(v) = Speech(u)}
  <1>0. r.from \in Nat /\ r.to \in Nat /\ r.from < u /\ u <= r.to
    BY DEF IsRange, Covers
  <1>1. PICK f \in Starts : \A g \in Starts : f <= g
    <2>1. u - 1 \in Starts
      BY <1>0
    <2>. QED  BY <2>1, LeastNumber
  <1>2. PICK k \in Ends : \A g \in Ends : k <= g
    <2>1. r.to - u \in Ends
      BY <1>0
    <2>. QED  BY <2>1, LeastNumber
  <1> DEFINE t == r.to - k
  <1>3. /\ f \in Nat /\ r.from <= f /\ f < u
        /\ \A v \in (f + 1) .. u : Speech(v) = Speech(u)
        /\ k \in Nat /\ t \in Int /\ u <= t /\ t <= r.to
        /\ \A v \in u .. t : Speech(v) = Speech(u)
    BY <1>0
  <1>4. f = r.from \/ Speech(f) # Speech(u)
    <2> SUFFICES ASSUME f # r.from, Speech(f) = Speech(u) PROVE FALSE
      OBVIOUS
    <2>1. f - 1 \in Nat /\ r.from <= f - 1 /\ f - 1 < u
      BY <1>0, <1>3
    <2>2. \A v \in ((f - 1) + 1) .. u : v = f \/ v \in (f + 1) .. u
      BY <1>3
    <2>3. f - 1 \in Starts
      BY <1>3, <2>1, <2>2
    <2>. QED  BY <1>1, <1>3, <2>3
  <1>5. t = r.to \/ Speech(t + 1) # Speech(u)
    <2> SUFFICES ASSUME t # r.to, Speech(t + 1) = Speech(u) PROVE FALSE
      OBVIOUS
    <2>1. k - 1 \in Nat /\ r.to - (k - 1) = t + 1 /\ u <= t + 1
      BY <1>0, <1>3
    <2>2. \A v \in u .. (t + 1) : v = t + 1 \/ v \in u .. t
      BY <1>3
    <2>3. k - 1 \in Ends
      BY <1>3, <2>1, <2>2
    <2>. QED  BY <1>2, <1>3, <2>3
  <1> HIDE DEF t
  <1>6. Speech(f + 1) = Speech(u)
    BY <1>0, <1>3
  <1>7. \A v \in (f + 1) .. t : Speech(v) = Speech(f + 1)
    <2>1. \A v \in (f + 1) .. t : v \in (f + 1) .. u \/ v \in u .. t
      BY <1>0, <1>3
    <2>. QED  BY <1>3, <1>6, <2>1
  <1> DEFINE s == <<f, t>>
             turn == [from |-> s[1], to |-> s[2],
                      locals |-> {names[p] : p \in Speech(s[1] + 1)}]
  <1>8. s \in (r.from .. r.to) \X (r.from .. r.to) /\ s[1] = f /\ s[2] = t /\ f < t
    BY <1>0, <1>3
  <1>9. turn \in TurnsIn(r, names)
    BY <1>4, <1>5, <1>6, <1>7, <1>8 DEF TurnsIn, Speech
  <1>10. Covers(turn, u)
    BY <1>3, <1>8 DEF Covers
  <1>. QED  BY <1>9, <1>10

\* A window has finitely many turns.
LEMMA TurnsFinite ==
    ASSUME NEW r, IsRange(r), NEW names
    PROVE  IsFiniteSet(TurnsIn(r, names))
  <1> DEFINE D == (r.from .. r.to) \X (r.from .. r.to)
             f == [s \in D |-> [from |-> s[1], to |-> s[2],
                                locals |-> {names[p] : p \in Speech(s[1] + 1)}]]
             T == {f[s] : s \in D}
  <1>1. IsFiniteSet(D)
    <2>1. r.from \in Int /\ r.to \in Int
      BY DEF IsRange
    <2>2. IsFiniteSet(r.from .. r.to)
      BY <2>1, FS_Interval
    <2>. QED  BY <2>2, FS_Product
  <1>2. f \in Surjection(D, T)
    BY DEF Surjection
  <1>3. IsFiniteSet(T)
    <2> HIDE DEF D, f, T
    <2>. QED  BY <1>1, <1>2, FS_Surjection
  <1>4. TurnsIn(r, names) \in SUBSET T
    BY DEF TurnsIn, Speech
  <1>. QED  BY <1>3, <1>4, FS_Subset

-----------------------------------------------------------------------------
(* Windows of the tracker. *)

Naming == {n \in [Persons -> Labels] : n["agent"] # n["customer"]}

Held == conversation \in Conversations

\* The window is part of the call, and its turns are those of the call under
\* the names the diarizer used.
InCall(w) == IsRange(w) /\ w.from < w.to /\ w.to <= Len(conversation.speech)

IsDiarized(w, names) ==
    InCall(w) /\ names \in Naming /\ w.turns = TurnsIn(w, names)

\* The speakers of the call the window has in one unit.
At(w, u) == {w.ids[l] : l \in Locals({t \in w.turns : Covers(t, u)})}

\* No two names of the window are one speaker of the call.
Distinct(w) ==
    \A k, l \in Locals(w.turns) : w.ids[k] = w.ids[l] => k = l

Agree(v, w) == \A u \in Nat : Covers(v, u) /\ Covers(w, u) => At(v, u) = At(w, u)

\* Somebody or nobody of the two speaks in a unit of a window.
LEMMA SpeechIs ==
    ASSUME Held, NEW w, InCall(w), NEW u \in Nat, Covers(w, u)
    PROVE  Speech(u) \in SUBSET Persons
  <1>1. conversation.speech \in Seq(SUBSET Persons)
    BY ConversationsAssumption DEF Held, IsConversation
  <1>2. u \in 1 .. Len(conversation.speech)
    BY <1>1 DEF InCall, IsRange, Covers
  <1>. QED  BY <1>1, <1>2 DEF Speech

\* A window names its two people differently.
LEMMA NamesDiffer ==
    ASSUME NEW names \in Naming, NEW p \in Persons, NEW q \in Persons,
           names[p] = names[q]
    PROVE  p = q
  BY DEF Naming, Persons

\* Who speaks is heard under the window's names.
LEMMA HeardIn ==
    ASSUME Held, NEW w, NEW names, IsDiarized(w, names), NEW u \in Nat, Covers(w, u)
    PROVE  /\ Locals({t \in w.turns : Covers(t, u)}) = {names[p] : p \in Speech(u)}
           /\ At(w, u) = {w.ids[names[p]] : p \in Speech(u)}
           /\ \A p \in Speech(u) : names[p] \in Locals(w.turns)
  <1>1. IsRange(w) /\ w.turns = TurnsIn(w, names)
    BY DEF IsDiarized, InCall
  <1>2. \A t \in w.turns : Covers(t, u) =>
           Speech(u) # {} /\ t.locals = {names[p] : p \in Speech(u)}
    BY <1>1, TurnsAre
  <1>3. Speech(u) # {} => \E t \in w.turns : Covers(t, u)
    BY <1>1, TurnExists
  <1>4. Locals({t \in w.turns : Covers(t, u)}) = {names[p] : p \in Speech(u)}
    <2>1. CASE Speech(u) = {}
      BY <1>2, <2>1 DEF Locals
    <2>2. CASE Speech(u) # {}
      BY <1>2, <1>3, <2>2 DEF Locals
    <2>. QED  BY <2>1, <2>2
  <1>5. Locals({t \in w.turns : Covers(t, u)}) \in SUBSET Locals(w.turns)
    BY DEF Locals
  <1>6. At(w, u) = {w.ids[names[p]] : p \in Speech(u)}
    BY <1>4 DEF At
  <1>. QED  BY <1>4, <1>5, <1>6

\* A window's turns bear no names but those of the two people.
LEMMA LocalsAre ==
    ASSUME Held, NEW w, NEW names, IsDiarized(w, names)
    PROVE  Locals(w.turns) \in SUBSET {names[p] : p \in Persons}
  <1> SUFFICES ASSUME NEW t \in w.turns, NEW l \in t.locals
               PROVE  l \in {names[p] : p \in Persons}
    BY DEF Locals
  <1>1. IsRange(w) /\ w.turns = TurnsIn(w, names)
    BY DEF IsDiarized, InCall
  <1>2. /\ IsRange(t) /\ w.from <= t.from /\ t.from < t.to /\ t.to <= w.to
        /\ t.locals = {names[p] : p \in Speech(t.from + 1)}
    BY <1>1, TurnsAre
  <1>3. t.from + 1 \in Nat /\ Covers(w, t.from + 1)
    BY <1>1, <1>2 DEF Covers, IsRange
  <1>4. Speech(t.from + 1) \in SUBSET Persons
    BY <1>3, SpeechIs DEF IsDiarized
  <1>. QED  BY <1>2, <1>4

-----------------------------------------------------------------------------
(* Shared time *)

\* The pairs of turns that Shared looks at.
Pairs(windows, turns, local, speaker) ==
    UNION {{<<i, t, p>> :
                t \in {t \in turns : local \in t.locals},
                p \in {p \in windows[i].turns :
                         \E l \in p.locals : windows[i].ids[l] = speaker}} :
           i \in DOMAIN windows}

\* A pair of turns that may count for a local name and a speaker.
LEMMA PairIs ==
    ASSUME NEW windows, NEW turns, NEW local, NEW speaker, NEW i, NEW t, NEW p
    PROVE  <<i, t, p>> \in Pairs(windows, turns, local, speaker) <=>
              /\ i \in DOMAIN windows /\ t \in turns /\ local \in t.locals
              /\ p \in windows[i].turns
              /\ \E l \in p.locals : windows[i].ids[l] = speaker
  BY DEF Pairs

LEMMA PairForm ==
    ASSUME NEW windows, NEW turns, NEW local, NEW speaker,
           NEW c \in Pairs(windows, turns, local, speaker)
    PROVE  /\ c[1] \in DOMAIN windows /\ c[2] \in turns
           /\ c[3] \in windows[c[1]].turns /\ c = <<c[1], c[2], c[3]>>
  BY DEF Pairs

\* The shared time is a sum over these pairs.
LEMMA SharedIs ==
    ASSUME NEW windows, NEW turns, NEW local, NEW speaker
    PROVE  LET f == [c \in Pairs(windows, turns, local, speaker) |->
                        Overlap(c[2], c[3])]
           IN  Shared(windows, turns, local, speaker)
                 = SumFunctionOnSet(f, Pairs(windows, turns, local, speaker))
  BY DEF Shared, Pairs, SumFunction

\* A sequence of windows as the tracker retains them, and a new one.
Windowed(windows, n, w) ==
    /\ n \in Nat /\ DOMAIN windows = 1 .. n
    /\ \A i \in 1 .. n : \E names : IsDiarized(windows[i], names)
    /\ \E names : IsDiarized(w, names)

\* There are finitely many pairs, and each shares a natural time.
LEMMA PairsFinite ==
    ASSUME NEW windows, NEW n, NEW w, Windowed(windows, n, w),
           NEW local, NEW speaker
    PROVE  /\ IsFiniteSet(Pairs(windows, w.turns, local, speaker))
           /\ \A c \in Pairs(windows, w.turns, local, speaker) :
                 /\ IsRange(c[2]) /\ IsRange(c[3])
                 /\ Overlap(c[2], c[3]) \in Nat
  <1> DEFINE All == UNION {windows[i].turns : i \in 1 .. n}
             Box == (1 .. n) \X (w.turns \X All)
             P == Pairs(windows, w.turns, local, speaker)
             f == [b \in Box |-> <<b[1], b[2][1], b[2][2]>>]
             Im == {f[b] : b \in Box}
  <1>1. IsFiniteSet(w.turns) /\ \A t \in w.turns : IsRange(t)
    BY TurnsFinite, TurnsAre DEF Windowed, IsDiarized, InCall
  <1>2. \A i \in 1 .. n : /\ IsFiniteSet(windows[i].turns)
                          /\ \A t \in windows[i].turns : IsRange(t)
    BY TurnsFinite, TurnsAre DEF Windowed, IsDiarized, InCall
  <1>3. IsFiniteSet(1 .. n) /\ n \in Nat
    BY FS_Interval DEF Windowed
  <1>4. IsFiniteSet(All)
    <2> DEFINE k == [i \in 1 .. n |-> windows[i].turns]
               R == {k[i] : i \in 1 .. n}
    <2>1. k \in Surjection(1 .. n, R)
      BY DEF Surjection
    <2>2. IsFiniteSet(R)
      <3> HIDE DEF k, R
      <3>. QED  BY <1>3, <2>1, FS_Surjection
    <2>3. (\A T \in R : IsFiniteSet(T)) /\ All = UNION R
      BY <1>2
    <2> HIDE DEF R, All
    <2>. QED  BY <2>2, <2>3, FS_UNION
  <1>5. IsFiniteSet(Box)
    <2> HIDE DEF All
    <2>1. IsFiniteSet(w.turns \X All)
      BY <1>1, <1>4, FS_Product
    <2>. QED  BY <1>3, <2>1, FS_Product
  <1>6. IsFiniteSet(Im)
    <2>1. f \in Surjection(Box, Im)
      BY DEF Surjection
    <2> HIDE DEF Box, f, Im
    <2>. QED  BY <1>5, <2>1, FS_Surjection
  <1>7. P \in SUBSET Im
    <2> SUFFICES ASSUME NEW c \in P PROVE c \in Im
      OBVIOUS
    <2>1. /\ c[1] \in 1 .. n /\ c[2] \in w.turns
          /\ c[3] \in windows[c[1]].turns /\ c = <<c[1], c[2], c[3]>>
      BY PairForm DEF Windowed
    <2>2. <<c[1], <<c[2], c[3]>>>> \in Box
      BY <2>1
    <2>3. f[<<c[1], <<c[2], c[3]>>>>] = c
      BY <2>1, <2>2
    <2>. QED  BY <2>2, <2>3
  <1>8. ASSUME NEW c \in P
        PROVE  IsRange(c[2]) /\ IsRange(c[3]) /\ Overlap(c[2], c[3]) \in Nat
    <2>1. c[1] \in 1 .. n /\ c[2] \in w.turns /\ c[3] \in windows[c[1]].turns
      BY PairForm DEF Windowed
    <2>2. IsRange(c[2]) /\ IsRange(c[3])
      BY <1>1, <1>2, <2>1
    <2>. QED  BY <2>2, OverlapIs
  <1>9. IsFiniteSet(P)
    <2> HIDE DEF P, Im
    <2>. QED  BY <1>6, <1>7, FS_Subset
  <1>. QED  BY <1>8, <1>9

\* Time is shared when some pair of turns overlaps.
LEMMA SharedPositive ==
    ASSUME NEW windows, NEW n, NEW w, Windowed(windows, n, w),
           NEW local, NEW speaker
    PROVE  /\ Shared(windows, w.turns, local, speaker) \in Nat
           /\ Shared(windows, w.turns, local, speaker) > 0 <=>
                 \E c \in Pairs(windows, w.turns, local, speaker) :
                     Overlap(c[2], c[3]) > 0
  <1> DEFINE P == Pairs(windows, w.turns, local, speaker)
             f == [c \in P |-> Overlap(c[2], c[3])]
  <1>1. IsFiniteSet(P) /\ f \in [P -> Nat]
    BY PairsFinite
  <1>2. Shared(windows, w.turns, local, speaker) = SumFunctionOnSet(f, P)
    BY SharedIs
  <1>3. \A c \in P : f[c] = Overlap(c[2], c[3])
    OBVIOUS
  <1> HIDE DEF f, P
  <1>4. /\ SumFunctionOnSet(f, P) \in Nat
        /\ SumFunctionOnSet(f, P) > 0 <=> \E c \in P : f[c] > 0
    BY <1>1, SumPositive
  <1>. QED  BY <1>2, <1>3, <1>4 DEF P

\* A pair with less to share.
LEMMA SharedLess ==
    ASSUME NEW windows, NEW n, NEW w, Windowed(windows, n, w),
           NEW l1, NEW s1, NEW l2, NEW s2,
           \A c \in Pairs(windows, w.turns, l1, s1) :
               Overlap(c[2], c[3]) > 0 => c \in Pairs(windows, w.turns, l2, s2),
           NEW y \in Pairs(windows, w.turns, l2, s2),
           y \notin Pairs(windows, w.turns, l1, s1), Overlap(y[2], y[3]) > 0
    PROVE  Shared(windows, w.turns, l1, s1) < Shared(windows, w.turns, l2, s2)
  <1> DEFINE P1 == Pairs(windows, w.turns, l1, s1)
             P2 == Pairs(windows, w.turns, l2, s2)
             f1 == [c \in P1 |-> Overlap(c[2], c[3])]
             f2 == [c \in P2 |-> Overlap(c[2], c[3])]
             S == P1 \cup P2
             f == [c \in S |-> Overlap(c[2], c[3])]
  <1>1. /\ IsFiniteSet(P1) /\ f1 \in [P1 -> Nat]
        /\ IsFiniteSet(P2) /\ f2 \in [P2 -> Nat]
        /\ f \in [S -> Nat]
    BY PairsFinite
  <1>2. /\ Shared(windows, w.turns, l1, s1) = SumFunctionOnSet(f1, P1)
        /\ Shared(windows, w.turns, l2, s2) = SumFunctionOnSet(f2, P2)
    BY SharedIs
  <1>3. /\ \A x \in P1 : f[x] = f1[x]
        /\ \A x \in P2 : f[x] = f2[x]
        /\ P1 \in SUBSET S /\ P2 \in SUBSET S
        /\ \A x \in P1 : f[x] > 0 => x \in P2
        /\ y \in P2 \ P1 /\ f[y] > 0
    OBVIOUS
  <1>4. IsFiniteSet(S)
    <2> HIDE DEF P1, P2
    <2>. QED  BY <1>1, FS_Union
  <1> HIDE DEF f, f1, f2, S, P1, P2
  <1>5. /\ SumFunctionOnSet(f, P1) = SumFunctionOnSet(f1, P1)
        /\ SumFunctionOnSet(f, P2) = SumFunctionOnSet(f2, P2)
    BY <1>1, <1>3, <1>4, SumLocal
  <1>6. SumFunctionOnSet(f, P1) < SumFunctionOnSet(f, P2)
    BY <1>1, <1>3, <1>4, SumCompare
  <1>. QED  BY <1>2, <1>5, <1>6

\* The retained window in which every unit of the new one that any retained
\* window holds is found, with the same speakers.
Anchor(windows, n, w, k) ==
    /\ k \in 1 .. n
    /\ \A i \in 1 .. n, u \in Nat : Covers(w, u) /\ Covers(windows[i], u) =>
          Covers(windows[k], u) /\ At(windows[i], u) = At(windows[k], u)

\* The two turns of c are of the people who speak in unit u.
SameUnit(windows, w, k, kn, wn, c, u) ==
    /\ Covers(w, u) /\ Covers(windows[k], u)
    /\ Speech(u) \in SUBSET Persons
    /\ c[2].locals = {wn[p] : p \in Speech(u)}
    /\ {windows[c[1]].ids[l] : l \in c[3].locals}
         = {windows[k].ids[kn[p]] : p \in Speech(u)}

\* Two turns that overlap are of the same people.
LEMMA OverlapMeans ==
    ASSUME Held, NEW windows, NEW n, NEW w, Windowed(windows, n, w),
           NEW k, Anchor(windows, n, w, k),
           NEW kn, IsDiarized(windows[k], kn), NEW wn, IsDiarized(w, wn),
           NEW local, NEW speaker,
           NEW c \in Pairs(windows, w.turns, local, speaker),
           Overlap(c[2], c[3]) > 0
    PROVE  \E u \in Nat : SameUnit(windows, w, k, kn, wn, c, u)
  <1> DEFINE i == c[1]
  <1>1. /\ i \in 1 .. n /\ c[2] \in w.turns
        /\ c[3] \in windows[i].turns /\ c = <<c[1], c[2], c[3]>>
    BY PairForm DEF Windowed
  <1>2. PICK names : IsDiarized(windows[i], names)
    BY <1>1 DEF Windowed
  <1>3. IsRange(c[2]) /\ IsRange(c[3])
    BY PairsFinite
  <1>4. PICK u \in Nat : Covers(c[2], u) /\ Covers(c[3], u)
    BY <1>3, OverlapIs
  <1>5. Covers(w, u) /\ c[2].locals = {wn[p] : p \in Speech(u)}
    BY <1>1, <1>4, TurnsAre DEF IsDiarized, InCall
  <1>6. Covers(windows[i], u) /\ c[3].locals = {names[p] : p \in Speech(u)}
    BY <1>1, <1>2, <1>4, TurnsAre DEF IsDiarized, InCall
  <1>7. At(windows[i], u) = {windows[i].ids[names[p]] : p \in Speech(u)}
    BY <1>2, <1>6, HeardIn
  <1>8. Covers(windows[k], u) /\ At(windows[i], u) = At(windows[k], u)
    BY <1>1, <1>5, <1>6 DEF Anchor
  <1>9. At(windows[k], u) = {windows[k].ids[kn[p]] : p \in Speech(u)}
    BY <1>8, HeardIn
  <1>10. Speech(u) \in SUBSET Persons
    BY <1>5, SpeechIs DEF IsDiarized
  <1>11. {windows[i].ids[l] : l \in c[3].locals} = At(windows[i], u)
    BY <1>6, <1>7
  <1>. QED  BY <1>5, <1>8, <1>9, <1>10, <1>11 DEF SameUnit

\* The pair of turns of a unit that the new window shares with the anchor.
LEMMA PairOfUnit ==
    ASSUME Held, NEW windows, NEW n, NEW w, Windowed(windows, n, w),
           NEW k, Anchor(windows, n, w, k),
           NEW kn, IsDiarized(windows[k], kn), NEW wn, IsDiarized(w, wn),
           NEW u \in Nat, Covers(w, u), Covers(windows[k], u), Speech(u) # {}
    PROVE  \E c : /\ c[1] = k
                  /\ c[2].locals = {wn[p] : p \in Speech(u)}
                  /\ {windows[k].ids[l] : l \in c[3].locals}
                       = {windows[k].ids[kn[p]] : p \in Speech(u)}
                  /\ Overlap(c[2], c[3]) > 0
                  /\ \A p, q \in Speech(u) :
                        c \in Pairs(windows, w.turns, wn[p], windows[k].ids[kn[q]])
  <1>1. PICK t \in w.turns : Covers(t, u)
    BY TurnExists DEF IsDiarized, InCall
  <1>2. PICK q \in windows[k].turns : Covers(q, u)
    BY TurnExists DEF IsDiarized, InCall
  <1>3. IsRange(t) /\ t.locals = {wn[p] : p \in Speech(u)}
    BY <1>1, TurnsAre DEF IsDiarized, InCall
  <1>4. IsRange(q) /\ q.locals = {kn[p] : p \in Speech(u)}
    BY <1>2, TurnsAre DEF IsDiarized, InCall
  <1>5. Overlap(t, q) > 0
    BY <1>1, <1>2, <1>3, <1>4, OverlapIs
  <1>6. {windows[k].ids[l] : l \in q.locals}
          = {windows[k].ids[kn[p]] : p \in Speech(u)}
    BY <1>4
  <1>7. k \in DOMAIN windows
    BY DEF Anchor, Windowed
  <1> DEFINE c == <<k, t, q>>
  <1>8. ASSUME NEW p \in Speech(u), NEW x \in Speech(u)
        PROVE  c \in Pairs(windows, w.turns, wn[p], windows[k].ids[kn[x]])
    <2>1. wn[p] \in t.locals /\ kn[x] \in q.locals
      BY <1>3, <1>4
    <2>. QED  BY <1>1, <1>2, <1>7, <2>1, PairIs
  <1>9. c[1] = k /\ c[2] = t /\ c[3] = q
    OBVIOUS
  <1> HIDE DEF c
  <1>. QED  BY <1>3, <1>5, <1>6, <1>8, <1>9

\* Somebody who speaks alone in a shared unit: the pair of the two names
\* shares more time than any other pair with one of them.
LEMMA AloneBeats ==
    ASSUME Held, NEW windows, NEW n, NEW w, Windowed(windows, n, w),
           NEW k, Anchor(windows, n, w, k), Distinct(windows[k]),
           NEW kn, IsDiarized(windows[k], kn), NEW wn, IsDiarized(w, wn),
           NEW u \in Nat, Covers(w, u), Covers(windows[k], u),
           NEW p \in Persons, Speech(u) = {p},
           NEW local, NEW speaker,
           \/ local = wn[p] /\ speaker # windows[k].ids[kn[p]]
           \/ local # wn[p] /\ speaker = windows[k].ids[kn[p]]
    PROVE  Shared(windows, w.turns, local, speaker)
             < Shared(windows, w.turns, wn[p], windows[k].ids[kn[p]])
  <1> DEFINE id == windows[k].ids[kn[p]]
  <1>1. PICK y : /\ y[1] = k
                 /\ y[2].locals = {wn[p]}
                 /\ {windows[k].ids[l] : l \in y[3].locals} = {id}
                 /\ Overlap(y[2], y[3]) > 0
                 /\ y \in Pairs(windows, w.turns, wn[p], id)
    <2>1. PICK y : /\ y[1] = k
                   /\ y[2].locals = {wn[q] : q \in Speech(u)}
                   /\ {windows[k].ids[l] : l \in y[3].locals}
                       = {windows[k].ids[kn[q]] : q \in Speech(u)}
                   /\ Overlap(y[2], y[3]) > 0
                   /\ \A q, x \in Speech(u) :
                        y \in Pairs(windows, w.turns, wn[q], windows[k].ids[kn[x]])
      BY PairOfUnit
    <2>2. /\ {wn[q] : q \in Speech(u)} = {wn[p]}
          /\ {windows[k].ids[kn[q]] : q \in Speech(u)} = {id}
      OBVIOUS
    <2>. QED  BY <2>1, <2>2
  <1>2. y \notin Pairs(windows, w.turns, local, speaker)
    <2> SUFFICES ASSUME y \in Pairs(windows, w.turns, local, speaker)
                 PROVE  FALSE
      OBVIOUS
    <2>1. y = <<y[1], y[2], y[3]>>
      BY PairForm
    <2>2. local \in y[2].locals
          /\ \E l \in y[3].locals : windows[k].ids[l] = speaker
      BY <1>1, <2>1, PairIs
    <2>3. local = wn[p]
      BY <1>1, <2>2
    <2>4. speaker \in {windows[k].ids[l] : l \in y[3].locals}
      BY <2>2
    <2>5. speaker = id
      BY <1>1, <2>4
    <2>. QED  BY <2>3, <2>5
  <1>3. ASSUME NEW c \in Pairs(windows, w.turns, local, speaker),
               Overlap(c[2], c[3]) > 0
        PROVE  c \in Pairs(windows, w.turns, wn[p], id)
    <2>1. PICK v \in Nat :
              /\ Covers(w, v) /\ Covers(windows[k], v)
              /\ Speech(v) \in SUBSET Persons
              /\ c[2].locals = {wn[q] : q \in Speech(v)}
              /\ {windows[c[1]].ids[l] : l \in c[3].locals}
                   = {windows[k].ids[kn[q]] : q \in Speech(v)}
      <3>1. PICK v \in Nat : SameUnit(windows, w, k, kn, wn, c, v)
        BY <1>3, OverlapMeans, Zenon
      <3>. QED  BY <3>1 DEF SameUnit
    <2>2. /\ c[1] \in DOMAIN windows /\ c[2] \in w.turns
          /\ c[3] \in windows[c[1]].turns /\ c = <<c[1], c[2], c[3]>>
      BY PairForm
    <2>3. local \in c[2].locals
          /\ \E l \in c[3].locals : windows[c[1]].ids[l] = speaker
      BY <2>2, PairIs
    <2>4. p \in Speech(v)
      <3>1. CASE local = wn[p]
        <4>1. PICK q \in Speech(v) : wn[q] = wn[p]
          BY <2>1, <2>3, <3>1
        <4>2. wn \in Naming /\ q \in Persons
          BY <2>1 DEF IsDiarized
        <4>. QED  BY <4>1, <4>2, NamesDiffer
      <3>2. CASE speaker = id
        <4>1. speaker \in {windows[c[1]].ids[l] : l \in c[3].locals}
          BY <2>3
        <4>2. PICK q \in Speech(v) : windows[k].ids[kn[q]] = id
          BY <2>1, <3>2, <4>1
        <4>3. kn[q] \in Locals(windows[k].turns) /\ kn[p] \in Locals(windows[k].turns)
          BY <2>1, <4>2, HeardIn
        <4>4. kn[q] = kn[p]
          BY <4>2, <4>3 DEF Distinct
        <4>5. kn \in Naming /\ q \in Persons
          BY <2>1 DEF IsDiarized
        <4>. QED  BY <4>2, <4>4, <4>5, NamesDiffer
      <3>. QED  BY <3>1, <3>2
    <2>5. wn[p] \in c[2].locals
      BY <2>1, <2>4
    <2>6. \E l \in c[3].locals : windows[c[1]].ids[l] = id
      <3>1. id \in {windows[c[1]].ids[l] : l \in c[3].locals}
        BY <2>1, <2>4
      <3>. QED  BY <3>1
    <2>. QED  BY <2>2, <2>5, <2>6, PairIs
  <1> HIDE DEF id
  <1>4. Shared(windows, w.turns, local, speaker) < Shared(windows, w.turns, wn[p], id)
    BY <1>1, <1>2, <1>3, SharedLess
  <1>. QED  BY <1>4 DEF id

-----------------------------------------------------------------------------
(* The matching. *)

IsCandidate(c) ==
    /\ c = [local |-> c.local, speaker |-> c.speaker, shared |-> c.shared]
    /\ c.local \in Nat /\ c.speaker \in Nat /\ c.shared \in Nat

\* A window has finitely many names.
LEMMA LocalsFinite ==
    ASSUME Held, NEW w, NEW names, IsDiarized(w, names)
    PROVE  Locals(w.turns) \in SUBSET Labels /\ IsFiniteSet(Locals(w.turns))
  <1>1. \A p \in Persons : names[p] \in Labels
    BY DEF IsDiarized, Naming
  <1>2. Locals(w.turns) \in SUBSET Labels
    BY <1>1, LocalsAre
  <1>3. IsFiniteSet(Labels)
    <2>1. 1 \in Int /\ 2 \in Int
      OBVIOUS
    <2>2. IsFiniteSet(1 .. 2)
      BY <2>1, FS_Interval
    <2>. QED  BY <2>2 DEF Labels
  <1>. QED  BY <1>2, <1>3, FS_Subset

\* The candidates are the pairs that share time.
AreCandidates(state, w) ==
    LET C == Candidates(state, w.turns)
    IN  /\ IsFiniteSet(C)
        /\ \A c \in C :
              /\ IsCandidate(c)
              /\ c.local \in Locals(w.turns)
              /\ c.speaker \in 1 .. (state.next - 1)
              /\ c.shared = Shared(state.windows, w.turns, c.local, c.speaker)
        /\ \A l \in Locals(w.turns), s \in 1 .. (state.next - 1) :
              Shared(state.windows, w.turns, l, s) > 0 =>
                 \E c \in C : c.local = l /\ c.speaker = s

\* The candidates: finitely many, one for each name and speaker that share
\* time.
LEMMA CandidatesAre ==
    ASSUME Held, NEW state, NEW n, NEW w, Windowed(state.windows, n, w),
           state.next \in Nat
    PROVE  AreCandidates(state, w)
  <1> DEFINE C == Candidates(state, w.turns)
             L == Locals(w.turns)
             K == 1 .. (state.next - 1)
             pair(l, s) == [local |-> l, speaker |-> s,
                            shared |-> Shared(state.windows, w.turns, l, s)]
             f == [x \in L \X K |-> pair(x[1], x[2])]
             Im == {f[x] : x \in L \X K}
  <1>1. L \in SUBSET Labels /\ IsFiniteSet(L)
    BY LocalsFinite DEF Windowed
  <1>2. C = {c \in {pair(l, s) : l \in L, s \in K} : c.shared > 0}
    BY DEF Candidates
  <1>3. \A l, s : Shared(state.windows, w.turns, l, s) \in Nat
    BY SharedPositive
  <1> HIDE DEF C, L
  <1>4. IsFiniteSet(C)
    <2>1. f \in Surjection(L \X K, Im)
      BY DEF Surjection
    <2>2. IsFiniteSet(L \X K)
      <3>1. IsFiniteSet(K)
        BY FS_Interval
      <3> HIDE DEF K
      <3>. QED  BY <1>1, <3>1, FS_Product
    <2>3. IsFiniteSet(Im)
      <3> HIDE DEF f, Im, K
      <3>. QED  BY <2>1, <2>2, FS_Surjection
    <2>4. C \in SUBSET Im
      <3>1. ASSUME NEW l \in L, NEW s \in K PROVE pair(l, s) \in Im
        <4>1. <<l, s>> \in L \X K /\ f[<<l, s>>] = pair(l, s)
          OBVIOUS
        <4>. QED  BY <4>1
      <3>2. \A c \in C : \E l \in L, s \in K : c = pair(l, s)
        BY <1>2
      <3> HIDE DEF pair, Im, K
      <3>. QED  BY <3>1, <3>2
    <2> HIDE DEF Im
    <2>. QED  BY <2>3, <2>4, FS_Subset
  <1>5. ASSUME NEW c \in C
        PROVE  /\ IsCandidate(c) /\ c.local \in L /\ c.speaker \in K
               /\ c.shared = Shared(state.windows, w.turns, c.local, c.speaker)
    <2>1. PICK l \in L, s \in K : c = pair(l, s)
      BY <1>2
    <2>2. /\ c.local = l /\ c.speaker = s
          /\ c.shared = Shared(state.windows, w.turns, l, s)
      BY <2>1
    <2>3. l \in Nat /\ s \in Nat
      BY <1>1 DEF Labels
    <2>. QED  BY <1>3, <2>1, <2>2, <2>3 DEF IsCandidate
  <1>6. ASSUME NEW l \in L, NEW s \in K, Shared(state.windows, w.turns, l, s) > 0
        PROVE  \E c \in C : c.local = l /\ c.speaker = s
    <2>1. pair(l, s) \in C
      BY <1>2, <1>6
    <2>. QED  BY <2>1
  <1>. QED  BY <1>4, <1>5, <1>6 DEF C, L, AreCandidates

\* Candidates are ordered totally.
LEMMA BeforeIsTotal ==
    ASSUME NEW C, \A c \in C : IsCandidate(c)
    PROVE  /\ \A a, b \in C : a # b => Before(a, b) \/ Before(b, a)
           /\ \A a, b, c \in C : Before(a, b) /\ Before(b, c) => Before(a, c)
  <1>1. ASSUME NEW a \in C, NEW b \in C, a # b
        PROVE  Before(a, b) \/ Before(b, a)
    <2>1. /\ a = [local |-> a.local, speaker |-> a.speaker, shared |-> a.shared]
          /\ b = [local |-> b.local, speaker |-> b.speaker, shared |-> b.shared]
      BY DEF IsCandidate
    <2>2. a.local # b.local \/ a.speaker # b.speaker \/ a.shared # b.shared
      BY <1>1, <2>1, Zenon
    <2>. QED  BY <2>2 DEF IsCandidate, Before
  <1>2. ASSUME NEW a \in C, NEW b \in C, NEW c \in C, Before(a, b), Before(b, c)
        PROVE  Before(a, c)
    BY <1>2 DEF IsCandidate, Before
  <1>. QED  BY <1>1, <1>2

\* Every set of candidates has one that comes after all others.
LEMMA WeakestIs ==
    ASSUME NEW C, \A c \in C : IsCandidate(c), IsFiniteSet(C),
           NEW T \in SUBSET C, T # {}
    PROVE  Weakest(T) \in T /\ \A d \in T \ {Weakest(T)} : Before(d, Weakest(T))
  <1> DEFINE R == {p \in T \X T : Before(p[2], p[1])}
  <1>1. \A x, y \in T : <<x, y>> \in R <=> Before(y, x)
    OBVIOUS
  <1>2. /\ \A x, y \in T : x # y => <<x, y>> \in R \/ <<y, x>> \in R
        /\ \A x, y, z \in T : /\ <<x, y>> \in R /\ <<y, z>> \in R
                              => x = z \/ <<x, z>> \in R
    <2> HIDE DEF R
    <2>. QED  BY <1>1, BeforeIsTotal
  <1>3. IsFiniteSet(T)
    BY FS_Subset
  <1>4. PICK x \in T : \A y \in T \ {x} : <<x, y>> \in R
    <2> HIDE DEF R
    <2>. QED  BY <1>2, <1>3, FirstOf
  <1>5. \E y \in T : \A d \in T \ {y} : Before(d, y)
    BY <1>1, <1>4
  <1>. QED  BY <1>5, Zenon DEF Weakest

Taken(m, c) == c.local \in DOMAIN m /\ m[c.local] = c.speaker

\* Nobody is matched twice, and who is passed over lost to a better pair.
IsMatching(m, T) ==
    /\ \A l \in DOMAIN m : \E c \in T : c.local = l /\ c.speaker = m[l]
    /\ \A k, l \in DOMAIN m : m[k] = m[l] => k = l
    /\ \A c \in T : \/ Taken(m, c)
                    \/ \E d \in T : /\ Taken(m, d) /\ Before(d, c)
                                    /\ d.local = c.local \/ d.speaker = c.speaker

\* One more pair, weaker than all before it.
LEMMA MatchKeeps ==
    ASSUME NEW T, NEW c \in T, \A d \in T \ {c} : Before(d, c),
           NEW m, IsMatching(m, T \ {c})
    PROVE  IsMatching(Match(c, m), T)
  <1>1. CASE c.local \in DOMAIN m \/ c.speaker \in {m[l] : l \in DOMAIN m}
    <2>1. Match(c, m) = m
      BY <1>1 DEF Match
    <2>2. PICK l \in DOMAIN m : l = c.local \/ m[l] = c.speaker
      BY <1>1
    <2>3. PICK d \in T \ {c} : d.local = l /\ d.speaker = m[l]
      BY DEF IsMatching
    <2>4. /\ Taken(m, d) /\ Before(d, c)
          /\ d.local = c.local \/ d.speaker = c.speaker
      BY <2>2, <2>3 DEF Taken
    <2>. QED  BY <2>1, <2>4 DEF IsMatching
  <1>2. CASE ~(c.local \in DOMAIN m \/ c.speaker \in {m[l] : l \in DOMAIN m})
    <2> DEFINE e == Match(c, m)
    <2>1. /\ DOMAIN e = DOMAIN m \cup {c.local}
          /\ e[c.local] = c.speaker
          /\ \A l \in DOMAIN m : l # c.local /\ e[l] = m[l] /\ m[l] # c.speaker
      BY <1>2 DEF Match, Extended
    <2> HIDE DEF e
    <2>2. \A l \in DOMAIN e : \E d \in T : d.local = l /\ d.speaker = e[l]
      BY <2>1 DEF IsMatching
    <2>3. \A k, l \in DOMAIN e : e[k] = e[l] => k = l
      BY <2>1 DEF IsMatching
    <2>4. Taken(e, c) /\ \A d \in T : Taken(m, d) => Taken(e, d)
      BY <2>1 DEF Taken
    <2>5. ASSUME NEW a \in T
          PROVE  \/ Taken(e, a)
                 \/ \E d \in T : /\ Taken(e, d) /\ Before(d, a)
                                 /\ d.local = a.local \/ d.speaker = a.speaker
      <3>1. CASE a = c
        BY <2>4, <3>1
      <3>2. CASE a # c
        BY <2>4, <3>2 DEF IsMatching
      <3>. QED  BY <3>1, <3>2
    <2>. QED  BY <2>2, <2>3, <2>5 DEF IsMatching, e
  <1>. QED  BY <1>1, <1>2

\* The fold of Match yields a matching that leaves no better pair out.
LEMMA MatchedIsMatching ==
    ASSUME NEW state, NEW turns, IsFiniteSet(Candidates(state, turns)),
           \A c \in Candidates(state, turns) : IsCandidate(c)
    PROVE  IsMatching(Matched(state, turns), Candidates(state, turns))
  <1> DEFINE C == Candidates(state, turns)
             next == [T \in SUBSET C |-> Weakest(T)]
             Step(g, T) == IF T = {} THEN <<>>
                           ELSE Match(Weakest(T), g[T \ {Weakest(T)}])
             Body(g) == [T \in SUBSET C |-> Step(g, T)]
             it == CHOOSE g : g = Body(g)
             Some == {c.local : c \in C}
             V == UNION {[D -> Nat] : D \in SUBSET Some}
             op == [p \in C \X V |-> Match(p[1], p[2])]
  <1>11. IsFiniteSet(C)
    OBVIOUS
  <1>1. Picks(C, next)
    BY WeakestIs DEF Picks
  <1>2. <<>> \in V
    <2>1. <<>> \in [{} -> Nat] /\ {} \in SUBSET Some
      OBVIOUS
    <2>. QED  BY <2>1
  <1>3. op \in [C \X V -> V]
    <2> SUFFICES ASSUME NEW c \in C, NEW m \in V PROVE Match(c, m) \in V
      OBVIOUS
    <2>1. PICK D \in SUBSET Some : m \in [D -> Nat]
      OBVIOUS
    <2>2. c.local \in Some /\ c.speaker \in Nat
      BY DEF IsCandidate
    <2>3. CASE c.local \in DOMAIN m \/ c.speaker \in {m[l] : l \in DOMAIN m}
      BY <2>3 DEF Match
    <2>4. CASE ~(c.local \in DOMAIN m \/ c.speaker \in {m[l] : l \in DOMAIN m})
      <3>1. Match(c, m) = [l \in D \cup {c.local} |->
                              IF l = c.local THEN c.speaker ELSE m[l]]
        BY <2>1, <2>4 DEF Match, Extended
      <3>2. Match(c, m) \in [D \cup {c.local} -> Nat]
        BY <2>1, <2>2, <3>1
      <3>3. D \cup {c.local} \in SUBSET Some
        BY <2>2
      <3> HIDE DEF Some
      <3>. QED  BY <3>2, <3>3
    <2>. QED  BY <2>3, <2>4
  <1>4. PICK g \in [SUBSET C -> V] : Folds(g, C, next, <<>>, op)
    <2> HIDE DEF C, next, op, V
    <2>. QED  BY <1>1, <1>2, <1>3, <1>11, Recursion
  <1>5. g = Body(g)
    <2>1. \A T \in SUBSET C : T # {} =>
             Weakest(T) \in C /\ T \ {Weakest(T)} \in SUBSET C
      BY WeakestIs
    <2>2. \A T \in SUBSET C : T # {} =>
             op[<<next[T], g[T \ {next[T]}]>>]
               = Match(Weakest(T), g[T \ {Weakest(T)}])
      <3> HIDE DEF C, V
      <3>. QED  BY <2>1
    <2> HIDE DEF C, V, op
    <2>3. \A T \in SUBSET C : g[T] = Step(g, T)
      BY <1>4, <2>2 DEF Folds
    <2> HIDE DEF Step
    <2>. QED  BY <2>3
  <1>6. it = Body(it)
    <2> HIDE DEF Body
    <2>. QED  BY <1>5
  <1>7. Matched(state, turns) = it[C]
    BY DEF Matched, MapThenFoldSet
  <1> HIDE DEF it, C
  <1>8. \A T \in SUBSET C : it[T] = Step(it, T)
    <2> HIDE DEF Step
    <2>. QED  BY <1>6
  <1> DEFINE F == {T \in SUBSET C : IsMatching(it[T], T)}
  <1>9. {} \in F
    <2>1. {} \in SUBSET C
      OBVIOUS
    <2>2. it[{}] = <<>>
      BY <1>8, <2>1
    <2>3. DOMAIN <<>> = {}
      OBVIOUS
    <2>. QED  BY <2>2, <2>3 DEF IsMatching
  <1>10. ASSUME NEW T \in SUBSET C, T # {}, T \ {next[T]} \in F
         PROVE  T \in F
    <2>1. /\ Weakest(T) \in T
          /\ \A d \in T \ {Weakest(T)} : Before(d, Weakest(T))
      BY <1>10, WeakestIs DEF C
    <2>2. it[T] = Match(Weakest(T), it[T \ {Weakest(T)}])
      BY <1>8, <1>10
    <2>3. IsMatching(it[T \ {Weakest(T)}], T \ {Weakest(T)})
      BY <1>10
    <2>. QED  BY <2>1, <2>2, <2>3, MatchKeeps
  <1>12. \A T \in SUBSET C : T \in F
    <2> HIDE DEF F, next
    <2>. QED  BY <1>1, <1>9, <1>10, <1>11, RecursionInduction
  <1>. QED  BY <1>7, <1>12 DEF C

-----------------------------------------------------------------------------
(* The tracker takes a window. *)

\* The state covers the window's names with speakers of its own.
IsNaming(ids, turns, m) ==
    /\ DOMAIN ids = Locals(turns)
    /\ \A l \in Locals(turns) : ids[l] \in Nat \ {0}
    /\ \A k, l \in Locals(turns) : ids[k] = ids[l] => k = l
    /\ \A l \in DOMAIN m : l \in Locals(turns) /\ ids[l] = m[l]

\* Names are matched to known speakers or get new ordinals, one each.
LEMMA IdentifiedIs ==
    ASSUME Held, NEW state, NEW n, NEW w, Windowed(state.windows, n, w),
           state.next \in Nat \ {0}
    PROVE  IsNaming(Identified(state, w.turns), w.turns, Matched(state, w.turns))
  <1> DEFINE m == Matched(state, w.turns)
             C == Candidates(state, w.turns)
             L == Locals(w.turns)
             U == L \ DOMAIN m
             Below(l) == {k \in U : k < l}
             ids == Identified(state, w.turns)
  <1>1. /\ IsFiniteSet(C)
        /\ \A c \in C : /\ IsCandidate(c) /\ c.local \in L
                        /\ c.speaker \in 1 .. (state.next - 1)
    BY CandidatesAre DEF AreCandidates
  <1>2. IsMatching(m, C)
    BY <1>1, MatchedIsMatching
  <1>3. L \in SUBSET Nat /\ IsFiniteSet(L)
    BY LocalsFinite DEF Windowed, Labels
  <1> HIDE DEF m, C, L
  <1>4. \A l \in DOMAIN m : l \in L /\ m[l] \in 1 .. (state.next - 1)
    BY <1>1, <1>2 DEF IsMatching
  <1>5. \A l \in L : IsFiniteSet(Below(l)) /\ Cardinality(Below(l)) \in Nat
    <2>1. \A l \in L : Below(l) \in SUBSET L
      OBVIOUS
    <2> HIDE DEF Below, U
    <2>. QED  BY <1>3, <2>1, FS_Subset, FS_CardinalityType
  <1>6. ASSUME NEW k \in U, NEW l \in U, k < l
        PROVE  Cardinality(Below(k)) < Cardinality(Below(l))
    <2>0. /\ U \in SUBSET Nat
          /\ \A j : /\ j \in Below(k) <=> j \in U /\ j < k
                    /\ j \in Below(l) <=> j \in U /\ j < l
      BY <1>3
    <2>1. k \in Below(l) /\ k \notin Below(k) /\ Below(k) \in SUBSET Below(l)
      <3> HIDE DEF Below, U
      <3>1. \A j \in Nat : j < k => j < l
        BY <1>6, <2>0
      <3>2. k \in U /\ l \in U /\ k \in Nat /\ ~ (k < k)
        BY <2>0
      <3>3. \A j : j \in U => j \in Nat
        BY <2>0
      <3>4. k \in Below(l) /\ k \notin Below(k)
        BY <1>6, <2>0, <3>2
      <3>5. ASSUME NEW j \in Below(k)
            PROVE  j \in Below(l)
        BY <2>0, <3>1, <3>3
      <3>. QED  BY <3>4, <3>5
    <2>2. IsFiniteSet(Below(l)) /\ Cardinality(Below(l)) \in Nat
          /\ Cardinality(Below(k)) \in Nat
      BY <1>5
    <2> HIDE DEF Below, U
    <2>3. Cardinality(Below(k)) <= Cardinality(Below(l))
          /\ (Cardinality(Below(l)) = Cardinality(Below(k)) => Below(l) = Below(k))
      BY <2>1, <2>2, FS_Subset
    <2>. QED  BY <2>1, <2>2, <2>3
  <1>7. ids = [l \in L |-> IF l \in DOMAIN m THEN m[l]
                           ELSE state.next + Cardinality(Below(l))]
    BY DEF Identified, m, L
  <1> HIDE DEF ids, Below
  <1>8. DOMAIN ids = L
    BY <1>7
  <1>9. \A l \in L : ids[l] = IF l \in DOMAIN m THEN m[l]
                              ELSE state.next + Cardinality(Below(l))
    BY <1>7
  <1>10. \A l \in L : ids[l] \in Nat \ {0}
    BY <1>4, <1>5, <1>9
  <1>11. ASSUME NEW k \in L, NEW l \in L, ids[k] = ids[l]
         PROVE  k = l
    <2>1. CASE k \in DOMAIN m /\ l \in DOMAIN m
      BY <1>2, <1>9, <1>11, <2>1 DEF IsMatching
    <2>2. CASE k \in DOMAIN m /\ l \notin DOMAIN m
      BY <1>4, <1>5, <1>9, <1>11, <2>2
    <2>3. CASE k \notin DOMAIN m /\ l \in DOMAIN m
      BY <1>4, <1>5, <1>9, <1>11, <2>3
    <2>4. CASE k \notin DOMAIN m /\ l \notin DOMAIN m
      <3>1. Cardinality(Below(k)) = Cardinality(Below(l))
        BY <1>5, <1>9, <1>11, <2>4
      <3>2. ~(k < l) /\ ~(l < k)
        BY <1>5, <1>6, <2>4, <3>1
      <3>. QED  BY <1>3, <3>2
    <2>. QED  BY <2>1, <2>2, <2>3, <2>4
  <1>. QED  BY <1>4, <1>8, <1>9, <1>10, <1>11 DEF IsNaming, ids, m, L

\* The new count of speakers is above every number in use.
LEMMA NextIs ==
    ASSUME NEW n \in Nat \ {0}, NEW ids, NEW D, DOMAIN ids = D, IsFiniteSet(D),
           \A l \in D : ids[l] \in Nat \ {0}
    PROVE  LET next == Max({n} \cup {ids[l] + 1 : l \in DOMAIN ids})
           IN  /\ next \in Nat \ {0} /\ n <= next
               /\ \A l \in D : ids[l] \in 1 .. (next - 1)
  <1> DEFINE f == [l \in D |-> ids[l] + 1]
             Im == {f[l] : l \in D}
             T == {n} \cup Im
  <1>1. \A l \in D : f[l] = ids[l] + 1 /\ f[l] \in Nat
    OBVIOUS
  <1>2. IsFiniteSet(Im)
    <2>1. f \in Surjection(D, Im)
      BY DEF Surjection
    <2> HIDE DEF Im, f
    <2>. QED  BY <2>1, FS_Surjection
  <1>3. IsFiniteSet(T)
    <2> HIDE DEF Im
    <2>1. {n} \cup Im = Im \cup {n}
      OBVIOUS
    <2>2. IsFiniteSet(Im \cup {n})
      BY <1>2, FS_AddElement
    <2>. QED  BY <2>1, <2>2
  <1>4. T \in SUBSET Int /\ T # {} /\ n \in T /\ \A l \in D : ids[l] + 1 \in T
    BY <1>1
  <1>5. {n} \cup {ids[l] + 1 : l \in DOMAIN ids} = T
    BY <1>1
  <1> HIDE DEF T
  <1>6. Max(T) \in T /\ \A x \in T : x <= Max(T)
    BY <1>3, <1>4, MaxOf
  <1>7. Max(T) \in Int /\ n <= Max(T)
    BY <1>4, <1>6
  <1>8. \A l \in D : ids[l] + 1 <= Max(T)
    BY <1>4, <1>6
  <1>9. PICK top \in Int : top = Max(T)
    BY <1>7
  <1>10. top \in Nat \ {0} /\ n <= top
    BY <1>7, <1>9
  <1>11. \A l \in D : ids[l] \in 1 .. (top - 1)
    BY <1>8, <1>9
  <1>. QED  BY <1>5, <1>9, <1>10, <1>11

\* The end of the history, the new window included.
IsEnd(r, s, w, k) ==
    /\ k \in 0 .. Len(s)
    /\ Len(r) = Len(s) + 1 - k /\ DOMAIN r = 1 .. (Len(s) + 1 - k)
    /\ \A i \in 1 .. (Len(s) + 1 - k) :
          r[i] = IF i + k = Len(s) + 1 THEN w ELSE s[i + k]
    /\ r # <<>> /\ Last(r) = w

\* What is retained is the end of the history, with the new window last.
LEMMA RetainedIs ==
    ASSUME NEW V, NEW s \in Seq(V), NEW w \in V
    PROVE  /\ Retained(Append(s, w)) \in Seq(V)
           /\ \E k : IsEnd(Retained(Append(s, w)), s, w, k)
  <1> DEFINE a == Append(s, w)
             f == Max({1, Len(a) - HistoryWindowLimit + 1})
             r == Retained(a)
  <1>1. /\ a \in Seq(V) /\ Len(a) = Len(s) + 1 /\ Len(s) \in Nat
        /\ \A i \in 1 .. Len(a) : a[i] = IF i = Len(s) + 1 THEN w ELSE s[i]
    OBVIOUS
  <1> HIDE DEF a
  <1>2. HistoryWindowLimit \in Nat \ {0}
    BY ConfigurationAssumption
  <1>3. f \in 1 .. Len(a)
    <2>1. f = IF 1 >= Len(a) - HistoryWindowLimit + 1 THEN 1
              ELSE Len(a) - HistoryWindowLimit + 1
      <3>1. 1 \in Int /\ Len(a) - HistoryWindowLimit + 1 \in Int
        BY <1>1, <1>2
      <3>. QED  BY <3>1, MaxMinPair
    <2> HIDE DEF f
    <2>. QED  BY <1>1, <1>2, <2>1
  <1> HIDE DEF f
  <1>4. r = SubSeq(a, f, Len(a))
    BY DEF Retained, f
  <1>5. /\ r \in Seq(V) /\ Len(r) = Len(a) - f + 1 /\ DOMAIN r = 1 .. Len(r)
        /\ \A i \in 1 .. Len(r) : r[i] = a[f + i - 1]
    BY <1>1, <1>3, <1>4
  <1> HIDE DEF r
  <1> DEFINE k == f - 1
  <1>6. k \in 0 .. Len(s) /\ Len(r) = Len(s) + 1 - k /\ Len(r) \in Nat \ {0}
    BY <1>1, <1>3, <1>5
  <1>7. ASSUME NEW i \in 1 .. Len(r)
        PROVE  r[i] = IF i + k = Len(s) + 1 THEN w ELSE s[i + k]
    <2>1. f + i - 1 = i + k /\ i + k \in 1 .. Len(a)
      BY <1>1, <1>3, <1>5
    <2>2. r[i] = a[i + k]
      BY <1>5, <2>1
    <2> HIDE DEF k
    <2>. QED  BY <1>1, <2>1, <2>2
  <1>8. r # <<>> /\ Last(r) = w
    <2>1. Len(r) \in 1 .. Len(r) /\ Len(r) + k = Len(s) + 1
      BY <1>6
    <2>2. r[Len(r)] = w
      BY <1>7, <2>1
    <2>. QED  BY <1>6, <2>2 DEF Last
  <1> HIDE DEF k
  <1>9. IsEnd(r, s, w, k)
    BY <1>5, <1>6, <1>7, <1>8 DEF IsEnd
  <1>. QED  BY <1>5, <1>9 DEF r, a

-----------------------------------------------------------------------------
(* The history stays sound. *)

\* A window of the history: its people are different speakers of the call.
IsWindow(w, next) ==
    /\ \E names : IsDiarized(w, names)
    /\ Distinct(w)
    /\ DOMAIN w.ids = Locals(w.turns)
    /\ \A l \in Locals(w.turns) : w.ids[l] \in 1 .. (next - 1)

\* The retained windows, in the order of the call, agree on who spoke when.
Sound(state) ==
    /\ state.next \in Nat \ {0}
    /\ \E V : state.windows \in Seq(V)
    /\ \A i \in 1 .. Len(state.windows) : IsWindow(state.windows[i], state.next)
    /\ \A i, j \in 1 .. Len(state.windows) :
          /\ Agree(state.windows[i], state.windows[j])
          /\ i < j => state.windows[i].from < state.windows[j].from

\* A sound state holds windows of the call.
LEMMA SoundIsWindowed ==
    ASSUME NEW state, Sound(state), NEW w, NEW names, IsDiarized(w, names)
    PROVE  /\ Windowed(state.windows, Len(state.windows), w)
           /\ Len(state.windows) \in Nat
           /\ DOMAIN state.windows = 1 .. Len(state.windows)
           /\ state.windows = <<>> <=> Len(state.windows) = 0
           /\ Newest(state) = state.windows[Len(state.windows)]
  <1>1. PICK V : state.windows \in Seq(V)
    BY DEF Sound
  <1>2. /\ Len(state.windows) \in Nat
        /\ DOMAIN state.windows = 1 .. Len(state.windows)
        /\ state.windows = <<>> <=> Len(state.windows) = 0
    BY <1>1
  <1>. QED  BY <1>2 DEF Windowed, Sound, IsWindow, Newest, Last

\* Of the retained windows the one that ends last has all a new one can share.
LEMMA AnchorExists ==
    ASSUME Held, NEW state, Sound(state), state.windows # <<>>,
           NEW w, NEW names, IsDiarized(w, names), w.from > Newest(state).from
    PROVE  \E k : Anchor(state.windows, Len(state.windows), w, k)
  <1> DEFINE n == Len(state.windows)
             T == {state.windows[i].to : i \in 1 .. n}
  <1>1. /\ n \in Nat \ {0} /\ Newest(state) = state.windows[n]
        /\ \A i \in 1 .. n : \E v : IsDiarized(state.windows[i], v)
    BY SoundIsWindowed DEF Windowed
  <1>2. Len(conversation.speech) \in Nat
    BY ConversationsAssumption DEF Held, IsConversation
  <1>3. \A i \in 1 .. n : /\ InCall(state.windows[i])
                          /\ IsRange(state.windows[i])
                          /\ state.windows[i].to <= Len(conversation.speech)
    BY <1>1 DEF IsDiarized, InCall
  <1> HIDE DEF n
  <1>4. IsFiniteSet(T) /\ T \in SUBSET Nat
    <2>1. T \in SUBSET Nat /\ \A x \in T : x <= Len(conversation.speech)
      BY <1>3 DEF IsRange
    <2> HIDE DEF T
    <2>. QED  BY <1>2, <2>1, FS_BoundedSetOfNaturals
  <1>5. PICK k \in 1 .. n : \A i \in 1 .. n :
           state.windows[i].to <= state.windows[k].to
    <2>1. T # {} /\ T \in SUBSET Int /\ \A i \in 1 .. n : state.windows[i].to \in T
      BY <1>1, <1>4
    <2>2. \A x \in T : \E i \in 1 .. n : x = state.windows[i].to
      OBVIOUS
    <2> HIDE DEF T
    <2>3. Max(T) \in T /\ \A x \in T : x <= Max(T)
      BY <1>4, <2>1, MaxOf
    <2>. QED  BY <2>1, <2>2, <2>3
  <1>6. \A i \in 1 .. n : state.windows[i].from < w.from
    <2>1. \A i \in 1 .. n : i < n => state.windows[i].from < state.windows[n].from
      BY <1>1 DEF Sound, n
    <2>2. w.from \in Nat
      BY DEF IsDiarized, InCall, IsRange
    <2>. QED  BY <1>1, <1>3, <2>1, <2>2 DEF IsRange
  <1>7. ASSUME NEW i \in 1 .. n, NEW u \in Nat, Covers(w, u),
               Covers(state.windows[i], u)
        PROVE  /\ Covers(state.windows[k], u)
               /\ At(state.windows[i], u) = At(state.windows[k], u)
    <2>1. Covers(state.windows[k], u)
      <3>1. /\ w.from \in Nat /\ w.from < u /\ state.windows[k].from < w.from
            /\ u <= state.windows[i].to
            /\ state.windows[i].to <= state.windows[k].to
        BY <1>5, <1>6, <1>7 DEF Covers, IsDiarized, InCall, IsRange
      <3>2. /\ state.windows[k].from \in Nat
            /\ state.windows[k].to \in Nat /\ state.windows[i].to \in Nat
        BY <1>3 DEF IsRange
      <3>. QED  BY <3>1, <3>2 DEF Covers
    <2>2. Agree(state.windows[i], state.windows[k])
      BY DEF Sound, n
    <2>. QED  BY <1>7, <2>1, <2>2 DEF Agree
  <1>. QED  BY <1>7 DEF Anchor, n

\* Whose ranges, turns and names are the same is diarized as well.
LEMMA SameWindow ==
    ASSUME NEW v, NEW w, v.from = w.from, v.to = w.to, v.turns = w.turns,
           NEW names, IsDiarized(w, names)
    PROVE  /\ IsDiarized(v, names)
           /\ \A u : Covers(v, u) <=> Covers(w, u)
  <1>1. TurnsIn(v, names) = TurnsIn(w, names)
    BY DEF TurnsIn
  <1>2. InCall(v)
    BY DEF IsDiarized, InCall, IsRange
  <1>. QED  BY <1>1, <1>2 DEF IsDiarized, Covers

OfTheTwo(c, state, k, kn, wn) ==
    /\ \E p \in Persons : c.local = wn[p]
    /\ \E p \in Persons : c.speaker = state.windows[k].ids[kn[p]]

\* The candidates are pairs of the two people the anchor and the window share.
LEMMA CandidatesShare ==
    ASSUME Held, NEW state, NEW n, NEW w, Windowed(state.windows, n, w),
           state.next \in Nat,
           NEW k, Anchor(state.windows, n, w, k),
           NEW kn, IsDiarized(state.windows[k], kn), NEW wn, IsDiarized(w, wn),
           NEW c \in Candidates(state, w.turns)
    PROVE  OfTheTwo(c, state, k, kn, wn)
  <1>1. /\ c.local \in Locals(w.turns)
        /\ c.shared = Shared(state.windows, w.turns, c.local, c.speaker)
        /\ c.shared > 0
    BY CandidatesAre DEF AreCandidates, Candidates
  <1>2. PICK d \in Pairs(state.windows, w.turns, c.local, c.speaker) :
           Overlap(d[2], d[3]) > 0
    BY <1>1, SharedPositive
  <1>3. PICK u \in Nat : SameUnit(state.windows, w, k, kn, wn, d, u)
    BY <1>2, OverlapMeans
  <1>4. d = <<d[1], d[2], d[3]>>
    BY PairForm
  <1>5. \E l \in d[3].locals : state.windows[d[1]].ids[l] = c.speaker
    BY <1>4, PairIs
  <1>6. c.speaker \in {state.windows[k].ids[kn[p]] : p \in Speech(u)}
    BY <1>3, <1>5 DEF SameUnit
  <1>7. Speech(u) \in SUBSET Persons
    BY <1>3 DEF SameUnit
  <1>8. \E p \in Persons : c.local = wn[p]
    BY <1>1, LocalsAre
  <1>. QED  BY <1>6, <1>7, <1>8 DEF OfTheTwo

AloneMatched(state, w, k, kn, wn, p) ==
    /\ wn[p] \in DOMAIN Matched(state, w.turns)
    /\ Matched(state, w.turns)[wn[p]] = state.windows[k].ids[kn[p]]

\* Whoever speaks alone in the anchor and in the window is matched.
LEMMA AloneIsMatched ==
    ASSUME Held, NEW state, NEW n, NEW w, Windowed(state.windows, n, w),
           state.next \in Nat,
           NEW k, Anchor(state.windows, n, w, k),
           IsWindow(state.windows[k], state.next),
           NEW kn, IsDiarized(state.windows[k], kn), NEW wn, IsDiarized(w, wn),
           NEW u \in Nat, Covers(w, u), Covers(state.windows[k], u),
           NEW p \in Persons, Speech(u) = {p}
    PROVE  AloneMatched(state, w, k, kn, wn, p)
  <1> DEFINE m == Matched(state, w.turns)
             C == Candidates(state, w.turns)
             speaker == state.windows[k].ids[kn[p]]
  <1>1. /\ IsFiniteSet(C)
        /\ \A c \in C :
              /\ IsCandidate(c)
              /\ c.shared = Shared(state.windows, w.turns, c.local, c.speaker)
        /\ \A l \in Locals(w.turns), s \in 1 .. (state.next - 1) :
              Shared(state.windows, w.turns, l, s) > 0 =>
                 \E c \in C : c.local = l /\ c.speaker = s
    <2>1. AreCandidates(state, w)
      BY CandidatesAre
    <2>. QED  BY <2>1 DEF AreCandidates
  <1>2. IsMatching(m, C)
    BY <1>1, MatchedIsMatching
  <1>3. p \in Speech(u) /\ Speech(u) # {}
    OBVIOUS
  <1>4. /\ wn[p] \in Locals(w.turns) /\ kn[p] \in Locals(state.windows[k].turns)
        /\ speaker \in 1 .. (state.next - 1)
    BY <1>3, HeardIn DEF IsWindow
  <1>5. Shared(state.windows, w.turns, wn[p], speaker) > 0
    <2>1. PICK d : /\ Overlap(d[2], d[3]) > 0
                   /\ \A q, r \in Speech(u) :
                         d \in Pairs(state.windows, w.turns, wn[q],
                                     state.windows[k].ids[kn[r]])
      BY <1>3, PairOfUnit
    <2>2. d \in Pairs(state.windows, w.turns, wn[p], speaker)
      BY <1>3, <2>1
    <2>. QED  BY <2>1, <2>2, SharedPositive
  <1>6. PICK c \in C : c.local = wn[p] /\ c.speaker = speaker
    BY <1>1, <1>4, <1>5
  <1>7. ASSUME NEW d \in C, Before(d, c),
               d.local = c.local \/ d.speaker = c.speaker
        PROVE  FALSE
    <2>1. /\ c.shared \in Nat /\ d.shared \in Nat
          /\ c.shared = Shared(state.windows, w.turns, wn[p], speaker)
          /\ d.shared = Shared(state.windows, w.turns, d.local, d.speaker)
      BY <1>1, <1>6 DEF IsCandidate
    <2>2. CASE d.local = c.local /\ d.speaker = c.speaker
      <3>1. d.shared = c.shared /\ d.local \in Nat /\ d.speaker \in Nat
        BY <1>1, <1>6, <2>1, <2>2 DEF IsCandidate
      <3>. QED  BY <1>7, <2>1, <2>2, <3>1 DEF Before
    <2>3. CASE ~ (d.local = c.local /\ d.speaker = c.speaker)
      <3>1. \/ d.local = wn[p] /\ d.speaker # speaker
            \/ d.local # wn[p] /\ d.speaker = speaker
        BY <1>6, <1>7, <2>3
      <3>2. Distinct(state.windows[k])
        BY DEF IsWindow
      <3>3. d.shared < c.shared
        BY <2>1, <3>1, <3>2, AloneBeats
      <3>. QED  BY <1>7, <2>1, <3>3 DEF Before
    <2>. QED  BY <2>2, <2>3
  <1>8. Taken(m, c)
    BY <1>2, <1>7 DEF IsMatching
  <1>. QED  BY <1>6, <1>8 DEF Taken, AloneMatched

\* Two people together are matched with the two of the anchor.
BothMatched(state, w, k, kn, wn) ==
    LET m == Matched(state, w.turns)
    IN  /\ {wn[p] : p \in Persons} \in SUBSET DOMAIN m
        /\ {m[wn[p]] : p \in Persons}
             = {state.windows[k].ids[kn[p]] : p \in Persons}

\* Two people who speak at once in the anchor are the two of the window.
LEMMA BothAreMatched ==
    ASSUME Held, NEW state, NEW n, NEW w, Windowed(state.windows, n, w),
           state.next \in Nat,
           NEW k, Anchor(state.windows, n, w, k),
           IsWindow(state.windows[k], state.next),
           NEW kn, IsDiarized(state.windows[k], kn), NEW wn, IsDiarized(w, wn),
           NEW u \in Nat, Covers(w, u), Covers(state.windows[k], u),
           Speech(u) = Persons
    PROVE  BothMatched(state, w, k, kn, wn)
  <1> DEFINE m == Matched(state, w.turns)
             C == Candidates(state, w.turns)
             id(q) == state.windows[k].ids[kn[q]]
             A == wn["agent"]
             B == wn["customer"]
             S == id("agent")
             T == id("customer")
  <1>1. /\ IsFiniteSet(C)
        /\ \A c \in C : IsCandidate(c)
        /\ \A l \in Locals(w.turns), s \in 1 .. (state.next - 1) :
              Shared(state.windows, w.turns, l, s) > 0 =>
                 \E c \in C : c.local = l /\ c.speaker = s
    <2>1. AreCandidates(state, w)
      BY CandidatesAre
    <2>. QED  BY <2>1 DEF AreCandidates
  <1>2. IsMatching(m, C)
    BY <1>1, MatchedIsMatching
  <1>3. \A p \in Persons : /\ wn[p] \in Locals(w.turns)
                           /\ kn[p] \in Locals(state.windows[k].turns)
                           /\ id(p) \in 1 .. (state.next - 1)
    BY HeardIn DEF IsWindow
  <1>4. ASSUME NEW p \in Persons, NEW q \in Persons
        PROVE  \E c \in C : c.local = wn[p] /\ c.speaker = id(q)
    <2>1. Speech(u) # {}
      BY <1>4
    <2>2. PICK d : /\ Overlap(d[2], d[3]) > 0
                   /\ \A q2, r \in Speech(u) :
                         d \in Pairs(state.windows, w.turns, wn[q2],
                                     state.windows[k].ids[kn[r]])
      BY <2>1, PairOfUnit
    <2>3. d \in Pairs(state.windows, w.turns, wn[p], id(q))
      BY <2>2
    <2>4. Shared(state.windows, w.turns, wn[p], id(q)) > 0
      BY <2>2, <2>3, SharedPositive
    <2>. QED  BY <1>1, <1>3, <2>4
  <1>5. ASSUME NEW c \in C
        PROVE  (c.local = A \/ c.local = B) /\ (c.speaker = S \/ c.speaker = T)
    <2>1. OfTheTwo(c, state, k, kn, wn)
      BY CandidatesShare
    <2>. QED  BY <2>1 DEF Persons, OfTheTwo
  <1>6. A # B /\ S # T
    <2>1. A # B /\ kn["agent"] # kn["customer"]
      BY DEF IsDiarized, Naming
    <2>. QED  BY <1>3, <2>1 DEF IsWindow, Distinct, Persons
  <1>7. /\ \E c \in C : c.local = A /\ c.speaker = S
        /\ \E c \in C : c.local = A /\ c.speaker = T
        /\ \E c \in C : c.local = B /\ c.speaker = S
        /\ \E c \in C : c.local = B /\ c.speaker = T
    BY <1>4 DEF Persons
  <1> HIDE DEF m, C, A, B, S, T
  <1>8. \A l \in DOMAIN m : (l = A \/ l = B) /\ (m[l] = S \/ m[l] = T)
    BY <1>2, <1>5 DEF IsMatching
  <1>9. \A k1, l \in DOMAIN m : m[k1] = m[l] => k1 = l
    BY <1>2 DEF IsMatching
  <1>10. ASSUME NEW a, NEW s, \E c \in C : c.local = a /\ c.speaker = s
         PROVE  \/ a \in DOMAIN m
                \/ \E l \in DOMAIN m : m[l] = s
    BY <1>2, <1>10 DEF IsMatching, Taken
  <1>11. A \in DOMAIN m
    BY <1>6, <1>7, <1>8, <1>9, <1>10
  <1>12. B \in DOMAIN m
    BY <1>6, <1>7, <1>8, <1>9, <1>10
  <1>13. {m[A], m[B]} = {S, T}
    BY <1>6, <1>8, <1>9, <1>11, <1>12
  <1>14. /\ {wn[p] : p \in Persons} = {A, B}
         /\ {m[wn[p]] : p \in Persons} = {m[A], m[B]}
         /\ {id(p) : p \in Persons} = {S, T}
    BY DEF Persons, A, B, S, T
  <1>. QED  BY <1>11, <1>12, <1>13, <1>14 DEF m, BothMatched

\* A window the tracker took agrees with the anchor.
LEMMA TakenAgrees ==
    ASSUME Held, NEW state, NEW n, NEW w, Windowed(state.windows, n, w),
           state.next \in Nat,
           NEW k, Anchor(state.windows, n, w, k),
           IsWindow(state.windows[k], state.next),
           NEW wn, IsDiarized(w, wn),
           IsNaming(w.ids, w.turns, Matched(state, w.turns))
    PROVE  \A i \in 1 .. n : Agree(w, state.windows[i])
  <1> DEFINE m == Matched(state, w.turns)
             kw == state.windows[k]
  <1>1. PICK kn : IsDiarized(kw, kn)
    BY DEF IsWindow
  <1>2. ASSUME NEW u \in Nat, Covers(w, u), Covers(kw, u)
        PROVE  At(w, u) = At(kw, u)
    <2>1. /\ At(w, u) = {w.ids[wn[p]] : p \in Speech(u)}
          /\ At(kw, u) = {kw.ids[kn[p]] : p \in Speech(u)}
      BY <1>1, <1>2, HeardIn
    <2>2. Speech(u) \in SUBSET Persons
      BY <1>2, SpeechIs DEF IsDiarized
    <2>3. CASE Speech(u) = {}
      BY <2>1, <2>3
    <2>4. CASE Speech(u) = Persons
      <3>0. BothMatched(state, w, k, kn, wn)
        BY <1>1, <1>2, <2>4, BothAreMatched
      <3>1. /\ {wn[p] : p \in Persons} \in SUBSET DOMAIN m
            /\ {m[wn[p]] : p \in Persons} = {kw.ids[kn[p]] : p \in Persons}
        BY <3>0 DEF BothMatched
      <3>2. \A p \in Persons : w.ids[wn[p]] = m[wn[p]]
        BY <3>1 DEF IsNaming
      <3>. QED  BY <2>1, <2>4, <3>1, <3>2
    <2>5. ASSUME NEW p \in Persons, Speech(u) = {p}
          PROVE  At(w, u) = At(kw, u)
      <3>0. AloneMatched(state, w, k, kn, wn, p)
        BY <1>1, <1>2, <2>5, AloneIsMatched
      <3>1. wn[p] \in DOMAIN m /\ m[wn[p]] = kw.ids[kn[p]]
        BY <3>0 DEF AloneMatched
      <3>2. w.ids[wn[p]] = kw.ids[kn[p]]
        BY <3>1 DEF IsNaming
      <3>. QED  BY <2>1, <2>5, <3>2
    <2>6. \/ Speech(u) = {} \/ Speech(u) = Persons
          \/ \E p \in Persons : Speech(u) = {p}
      BY <2>2 DEF Persons
    <2>. QED  BY <2>3, <2>4, <2>5, <2>6
  <1>. QED  BY <1>2 DEF Agree, Anchor

\* The tracker's state t is state with the window w taken.
Extends(state, w, t) ==
    /\ Sound(t) /\ t.windows # <<>>
    /\ Newest(t).from = w.from /\ Newest(t).to = w.to
    /\ Newest(t).turns = w.turns
    /\ state.windows # <<>> => Agree(Newest(state), Newest(t))

\* Agreement of windows is symmetric.
LEMMA AgreeBack ==
    ASSUME NEW v, NEW w, Agree(v, w)
    PROVE  Agree(w, v)
  BY DEF Agree

\* The heart of the proof: a window the tracker takes leaves a sound state
\* whose newest window agrees with all it retains.
LEMMA TrackKeeps ==
    ASSUME Held, NEW state, Sound(state), NEW w, NEW names, IsDiarized(w, names),
           ~ TrackingFails(state, w, w.turns)
    PROVE  Extends(state, w, Tracked(state, w))
  <1> DEFINE n == Len(state.windows)
             ids == Identified(state, w.turns)
             new == [from |-> w.from, to |-> w.to, turns |-> w.turns, ids |-> ids]
             next == Max({state.next} \cup {ids[l] + 1 : l \in DOMAIN ids})
             end == Retained(Append(state.windows, new))
             t == Tracked(state, w)
  <1>1. /\ Windowed(state.windows, n, w) /\ n \in Nat
        /\ DOMAIN state.windows = 1 .. n
        /\ state.windows = <<>> <=> n = 0
        /\ Newest(state) = state.windows[n]
    BY SoundIsWindowed
  <1>2. CASE IsReprocess(state, w)
    <2>1. t = state /\ state.windows # <<>> /\ w.turns = Newest(state).turns
      BY <1>2 DEF Tracked, IsReprocess, TrackingFails
    <2>2. Newest(state).from = w.from /\ Newest(state).to = w.to
      BY <1>2 DEF IsReprocess, SameRange
    <2>3. n \in 1 .. n
      BY <1>1, <2>1
    <2>4. Agree(Newest(state), Newest(state))
      BY <1>1, <2>3 DEF Sound
    <2>. QED  BY <2>1, <2>2, <2>4 DEF Extends
  <1>3. CASE ~ IsReprocess(state, w)
    <2>1. t = [next |-> next, windows |-> end]
      BY <1>3 DEF Tracked
    <2>2. state.windows # <<>> => w.from > Newest(state).from
      <3>1. state.windows # <<>> => ~ (w.from <= Newest(state).from)
        BY <1>3 DEF TrackingFails
      <3>2. n # 0 => Newest(state).from \in Nat
        BY <1>1 DEF Windowed, IsDiarized, InCall, IsRange
      <3>3. w.from \in Nat
        BY DEF IsDiarized, InCall, IsRange
      <3>. QED  BY <1>1, <3>1, <3>2, <3>3
    <2>3. IsNaming(ids, w.turns, Matched(state, w.turns))
      BY <1>1, IdentifiedIs DEF Sound
    <2>4. state.next \in Nat \ {0}
      BY DEF Sound
    <2>5. IsFiniteSet(Locals(w.turns))
      BY LocalsFinite
    <2> HIDE DEF ids
    <2>6. /\ next \in Nat \ {0} /\ state.next <= next
          /\ \A l \in Locals(w.turns) : ids[l] \in 1 .. (next - 1)
      BY <2>3, <2>4, <2>5, NextIs DEF IsNaming
    <2> HIDE DEF next
    <2>7. /\ new.from = w.from /\ new.to = w.to /\ new.turns = w.turns
          /\ new.ids = ids
      OBVIOUS
    <2> HIDE DEF new
    <2>8. /\ IsDiarized(new, names) /\ \A u : Covers(new, u) <=> Covers(w, u)
      BY <2>7, SameWindow
    <2>9. IsWindow(new, next)
      BY <2>3, <2>6, <2>7, <2>8 DEF IsWindow, IsNaming, Distinct
    <2>10. PICK V : state.windows \in Seq(V)
      BY DEF Sound
    <2>11. state.windows \in Seq(V \cup {new}) /\ new \in V \cup {new}
      BY <2>10
    <2>12. /\ end \in Seq(V \cup {new})
           /\ \E k : IsEnd(end, state.windows, new, k)
      BY <2>11, RetainedIs
    <2>13. PICK k : IsEnd(end, state.windows, new, k)
      BY <2>12
    <2> HIDE DEF end
    <2>14. /\ k \in 0 .. n /\ Len(end) = n + 1 - k
           /\ \A i \in 1 .. Len(end) :
                 end[i] = IF i + k = n + 1 THEN new ELSE state.windows[i + k]
           /\ end # <<>> /\ Last(end) = new
      BY <2>13 DEF IsEnd
    <2> HIDE DEF n
    <2>15. ASSUME NEW i \in 1 .. Len(end)
           PROVE  \/ end[i] = new /\ i + k = n + 1
                  \/ i + k \in 1 .. n /\ end[i] = state.windows[i + k]
      BY <1>1, <2>14
    <2>16. \A i \in 1 .. n : Agree(new, state.windows[i])
      <3>1. CASE n = 0
        BY <3>1
      <3>2. CASE n # 0
        <4>1. Windowed(state.windows, n, new)
          BY <1>1, <2>8 DEF Windowed
        <4>2. state.windows # <<>> /\ new.from > Newest(state).from
          BY <1>1, <2>2, <2>7, <3>2
        <4>3. PICK a : Anchor(state.windows, n, new, a)
          BY <2>8, <4>2, AnchorExists DEF n
        <4>4. a \in 1 .. n /\ IsWindow(state.windows[a], state.next)
          BY <4>3 DEF Anchor, Sound, n
        <4>5. IsNaming(new.ids, new.turns, Matched(state, new.turns))
          BY <2>3, <2>7
        <4>6. state.next \in Nat
          BY <2>4
        <4>. QED  BY <2>8, <4>1, <4>3, <4>4, <4>5, <4>6, TakenAgrees
      <3>. QED  BY <3>1, <3>2
    <2>17. Agree(new, new)
      BY DEF Agree
    <2>18. ASSUME NEW i \in 1 .. Len(end), NEW j \in 1 .. Len(end)
           PROVE  /\ Agree(end[i], end[j])
                  /\ i < j => end[i].from < end[j].from
      <3>1. CASE end[i] = new /\ end[j] = new /\ i + k = n + 1 /\ j + k = n + 1
        BY <1>1, <2>14, <2>17, <3>1
      <3>2. CASE /\ end[i] = new /\ i + k = n + 1
                 /\ j + k \in 1 .. n /\ end[j] = state.windows[j + k]
        BY <1>1, <2>14, <2>16, <3>2
      <3>3. CASE /\ i + k \in 1 .. n /\ end[i] = state.windows[i + k]
                 /\ end[j] = new
        <4>1. Agree(state.windows[i + k], new)
          BY <2>16, <3>3, AgreeBack
        <4>2. state.windows[i + k].from <= state.windows[n].from
          <5>1. CASE i + k = n
            <6>1. state.windows[i + k].from \in Nat
              BY <1>1, <3>3 DEF Windowed, IsDiarized, InCall, IsRange
            <6>. QED  BY <5>1, <6>1
          <5>2. CASE i + k # n
            <6>1. i + k < n /\ n \in 1 .. n
              BY <1>1, <2>14, <3>3, <5>2
            <6>2. state.windows[i + k].from < state.windows[n].from
              BY <3>3, <6>1 DEF Sound, n
            <6>3. /\ state.windows[i + k].from \in Nat
                  /\ state.windows[n].from \in Nat
              BY <1>1, <3>3, <6>1 DEF Windowed, IsDiarized, InCall, IsRange
            <6>. QED  BY <6>2, <6>3
          <5>. QED  BY <5>1, <5>2
        <4>3. n \in 1 .. n /\ state.windows[n].from < new.from
          BY <1>1, <2>2, <2>7, <3>3
        <4>4. /\ state.windows[i + k].from \in Nat
              /\ state.windows[n].from \in Nat /\ new.from \in Nat
          BY <1>1, <2>8, <3>3, <4>3 DEF Windowed, IsDiarized, InCall, IsRange
        <4>. QED  BY <3>3, <4>1, <4>2, <4>3, <4>4
      <3>4. CASE /\ i + k \in 1 .. n /\ end[i] = state.windows[i + k]
                 /\ j + k \in 1 .. n /\ end[j] = state.windows[j + k]
        <4>1. i < j => i + k < j + k
          BY <2>14
        <4>. QED  BY <3>4, <4>1 DEF Sound, n
      <3>. QED  BY <2>15, <3>1, <3>2, <3>3, <3>4
    <2>19. ASSUME NEW i \in 1 .. Len(end)
           PROVE  IsWindow(end[i], next)
      <3>1. CASE end[i] = new
        BY <2>9, <3>1
      <3>2. CASE i + k \in 1 .. n /\ end[i] = state.windows[i + k]
        <4>1. IsWindow(end[i], state.next)
          BY <3>2 DEF Sound, n
        <4>. QED  BY <2>4, <2>6, <4>1 DEF IsWindow
      <3>. QED  BY <2>15, <3>1, <3>2
    <2>20. t.next = next /\ t.windows = end
      BY <2>1
    <2> HIDE DEF t
    <2>21. Sound(t)
      BY <2>6, <2>12, <2>18, <2>19, <2>20 DEF Sound
    <2>22. Newest(t) = new
      BY <2>14, <2>20 DEF Newest
    <2>23. state.windows # <<>> => Agree(Newest(state), new)
      <3>1. state.windows # <<>> => n \in 1 .. n
        BY <1>1
      <3>. QED  BY <1>1, <2>16, <3>1, AgreeBack
    <2>. QED  BY <2>7, <2>14, <2>20, <2>21, <2>22, <2>23 DEF Extends, t
  <1>. QED  BY <1>2, <1>3

-----------------------------------------------------------------------------
(* The states of the call. *)

\* What the accepted windows alone would have built.
Past == FoldLeft(Tracked, NoHistory, accepted)

\* A window with the speakers the tracker gave its names.
IsTaken(o) ==
    IsDiarized(o, o.names) /\ Distinct(o) /\ DOMAIN o.ids = Locals(o.turns)

SameSpeakers(v, w) ==
    v.from = w.from /\ v.to = w.to /\ v.turns = w.turns /\ v.ids = w.ids

HistoryInv ==
    /\ \E V : accepted \in Seq(V)
    /\ \A k \in 1 .. Len(accepted) : IsTaken(accepted[k])
    /\ \A k \in 1 .. Len(accepted) - 1 : Agree(accepted[k], accepted[k + 1])
    /\ Sound(Past)
    /\ accepted # <<>> => /\ Past.windows # <<>>
                          /\ SameSpeakers(Newest(Past), accepted[Len(accepted)])

StageInv ==
    /\ stage \in {"idle", "diarize", "track", "attribute"}
    /\ stage # "attribute" => tracker = Past
    /\ stage # "idle" => checkpoint = Past /\ InCall(request)
    /\ stage = "track" => \/ IsDiarized(request, request.names)
                          \/ TooManySpeakers(request.turns)
    /\ stage = "attribute" => /\ tracker = Tracked(Past, request)
                              /\ Extends(Past, request, tracker)
                              /\ request.ids = Newest(tracker).ids
                              /\ IsTaken(request)

Fields == {"revision", "from", "to", "words", "turns", "names", "ids", "roles"}

TrackInv == Held /\ DOMAIN request = Fields /\ HistoryInv /\ StageInv

\* Nothing said of a window depends on more than the conversation.
LEMMA SameCall ==
    ASSUME conversation' = conversation, NEW w, NEW names
    PROVE  /\ InCall(w)' <=> InCall(w)
           /\ IsDiarized(w, names)' <=> IsDiarized(w, names)
  BY DEF IsDiarized, InCall, TurnsIn

LEMMA SameSound ==
    ASSUME conversation' = conversation, NEW state
    PROVE  Sound(state)' <=> Sound(state)
  BY SameCall DEF Sound, IsWindow

LEMMA SameHeld ==
    ASSUME Held, conversation' = conversation
    PROVE  Held'
  BY DEF Held

LEMMA HistoryUntouched ==
    ASSUME HistoryInv, conversation' = conversation, accepted' = accepted
    PROVE  HistoryInv' /\ Past' = Past
  <1>1. Past' = Past
    BY DEF Past
  <1>2. Sound(Past)'
    <2>1. PICK t : t = Past
      OBVIOUS
    <2>2. Sound(t)'
      BY <2>1, SameSound DEF HistoryInv
    <2>. QED  BY <1>1, <2>1, <2>2
  <1>3. \A k \in 1 .. Len(accepted) : IsTaken(accepted[k])'
    <2>1. ASSUME NEW k \in 1 .. Len(accepted), NEW o, o = accepted[k]
          PROVE  IsTaken(accepted[k])'
      <3>1. IsTaken(o)
        BY <2>1 DEF HistoryInv
      <3>2. IsTaken(o)'
        BY <3>1, SameCall DEF IsTaken
      <3>3. accepted'[k] = o
        BY <2>1
      <3>. QED  BY <3>2, <3>3 DEF IsTaken
    <2>. QED  BY <2>1
  <1>4. \A k \in 1 .. Len(accepted) - 1 : Agree(accepted[k], accepted[k + 1])'
    BY DEF HistoryInv
  <1>5. (accepted # <<>> => /\ Past.windows # <<>>
                            /\ SameSpeakers(Newest(Past), accepted[Len(accepted)]))'
    BY <1>1 DEF HistoryInv, SameSpeakers, Newest
  <1>6. (\E V : accepted \in Seq(V))'
    BY DEF HistoryInv
  <1>. QED  BY <1>1, <1>2, <1>3, <1>4, <1>5, <1>6 DEF HistoryInv

\* The history of the call and the outcomes, step by step.
LEMMA InitTrack ==
    ASSUME CallInit
    PROVE  TrackInv
  <1>1. accepted = <<>> /\ Past = NoHistory
    BY FoldOfNothing DEF CallInit, Past
  <1>2. Sound(NoHistory)
    <2>1. NoHistory.windows = <<>> /\ NoHistory.next = 1 /\ Len(<<>>) = 0
          /\ <<>> \in Seq({})
      BY DEF NoHistory
    <2>. QED  BY <2>1 DEF Sound
  <1>3. HistoryInv
    <2>1. <<>> \in Seq({}) /\ Len(<<>>) = 0
      OBVIOUS
    <2>. QED  BY <1>1, <1>2, <2>1 DEF HistoryInv
  <1>4. StageInv
    BY <1>1 DEF CallInit, StageInv
  <1>5. DOMAIN request = Fields
    BY Zenon DEF CallInit, NoRequest, Fields
  <1>. QED  BY <1>3, <1>4, <1>5 DEF CallInit, TrackInv, Held

LEMMA ComposeTrack ==
    ASSUME TrackInv, NEW r \in Ranges, NEW doubled \in BOOLEAN,
           NEW isNew \in BOOLEAN, Compose(r, doubled, isNew)
    PROVE  TrackInv'
  <1>1. HistoryInv' /\ Past' = Past /\ Held'
    BY HistoryUntouched, SameHeld DEF TrackInv, Compose
  <1>2. PICK words : request' = NextRequest(r, words, isNew)
    BY DEF Compose
  <1>3. DOMAIN request' = Fields
    BY <1>2, Zenon DEF NextRequest, NoRequest, Fields
  <1>4. request'.from = r.from /\ request'.to = r.to
    BY <1>2, Zenon DEF NextRequest, NoRequest
  <1>5. InCall(request)'
    <2>1. InCall(r)
      BY ConfigurationAssumption, ConversationsAssumption
         DEF TrackInv, Held, IsConversation, InCall, IsRange
    <2>2. conversation' = conversation
      BY DEF Compose
    <2>. QED  BY <1>4, <2>1, <2>2 DEF InCall, IsRange
  <1>6. stage' = "diarize" /\ tracker' = tracker /\ checkpoint' = tracker
        /\ tracker = Past
    BY DEF Compose, TrackInv, StageInv
  <1>7. StageInv'
    BY <1>1, <1>5, <1>6 DEF StageInv
  <1>. QED  BY <1>1, <1>3, <1>7 DEF TrackInv

LEMMA RejectTrack ==
    ASSUME TrackInv, UNCHANGED <<conversation, tracker, checkpoint, stage,
                                 request, accepted>>
    PROVE  TrackInv'
  <1>1. HistoryInv' /\ Past' = Past /\ Held'
    BY HistoryUntouched, SameHeld DEF TrackInv
  <1>2. PICK q : q = request
    OBVIOUS
  <1>3. request' = q /\ conversation' = conversation
    BY <1>2
  <1>4. stage # "idle" => InCall(request)'
    BY <1>2, <1>3, SameCall DEF TrackInv, StageInv
  <1>5. IsDiarized(request, request.names) => IsDiarized(request, request.names)'
    <2>1. IsDiarized(q, q.names) => IsDiarized(q, q.names)'
      BY <1>3, SameCall
    <2>. QED  BY <1>2, <1>3, <2>1 DEF IsDiarized, InCall, TurnsIn
  <1>6. TooManySpeakers(request.turns) => TooManySpeakers(request.turns)'
    BY <1>2, <1>3 DEF TooManySpeakers
  <1>7. IsTaken(request) => IsTaken(request)'
    BY <1>2, <1>3, <1>5 DEF IsTaken, Distinct
  <1>8. Extends(Past, request, tracker) => Extends(Past, request, tracker)'
    <2>1. PICK t : t = tracker
      OBVIOUS
    <2>2. PICK s : s = Past
      OBVIOUS
    <2>3. Extends(s, q, t) => Extends(s, q, t)'
      BY <1>3, SameSound DEF Extends
    <2>. QED  BY <1>1, <1>2, <1>3, <2>1, <2>2, <2>3 DEF Extends
  <1>9. StageInv'
    BY <1>1, <1>4, <1>5, <1>6, <1>7, <1>8 DEF TrackInv, StageInv
  <1>. QED  BY <1>1, <1>9 DEF TrackInv

\* A composition that fails puts the tracker back.
LEMMA FailTrack ==
    ASSUME TrackInv, stage # "idle", FailSafe
    PROVE  TrackInv'
  <1>1. HistoryInv' /\ Past' = Past /\ Held'
    BY HistoryUntouched, SameHeld DEF TrackInv, FailSafe
  <1>2. DOMAIN request' = Fields
    BY Zenon DEF FailSafe, NoRequest, Fields
  <1>3. tracker' = Past /\ stage' = "idle"
    BY DEF FailSafe, TrackInv, StageInv
  <1>. QED  BY <1>1, <1>2, <1>3 DEF TrackInv, StageInv

LEMMA DiarizeTrack ==
    ASSUME TrackInv, Diarize
    PROVE  TrackInv'
  <1>1. HistoryInv' /\ Past' = Past /\ Held'
    BY HistoryUntouched, SameHeld DEF TrackInv, Diarize
  <1>2. PICK names \in Naming :
           request' = [request EXCEPT !.turns = TurnsIn(request, names),
                                      !.names = names]
    BY DEF Diarize, Naming
  <1>3. /\ DOMAIN request' = Fields
        /\ request'.from = request.from /\ request'.to = request.to
        /\ request'.turns = TurnsIn(request, names) /\ request'.names = names
    BY <1>2, Zenon DEF TrackInv, Fields
  <1>4. InCall(request)
    BY DEF TrackInv, StageInv, Diarize
  <1>5. PICK q : q = request'
    OBVIOUS
  <1>6. conversation' = conversation
    BY DEF Diarize
  <1>7. IsDiarized(q, names)
    <2>1. TurnsIn(q, names) = TurnsIn(request, names)
      BY <1>3, <1>5 DEF TurnsIn
    <2>2. InCall(q)
      BY <1>3, <1>4, <1>5 DEF InCall, IsRange
    <2>. QED  BY <1>3, <1>5, <2>1, <2>2 DEF IsDiarized
  <1>8. IsDiarized(q, names)' /\ InCall(q)'
    BY <1>6, <1>7, SameCall DEF IsDiarized
  <1>9. IsDiarized(request, request.names)' /\ InCall(request)'
    BY <1>3, <1>5, <1>8
  <1>10. stage' = "track" /\ tracker' = Past /\ checkpoint' = Past
    BY DEF Diarize, TrackInv, StageInv
  <1>. QED  BY <1>1, <1>3, <1>9, <1>10 DEF TrackInv, StageInv

LEMMA OneTooManyTrack ==
    ASSUME TrackInv, DiarizeOneTooMany
    PROVE  TrackInv'
  <1>1. HistoryInv' /\ Past' = Past /\ Held'
    BY HistoryUntouched, SameHeld DEF TrackInv, DiarizeOneTooMany
  <1>2. PICK names, told :
           /\ TooManySpeakers(told)
           /\ request' = [request EXCEPT !.turns = told, !.names = names]
    BY Zenon DEF DiarizeOneTooMany
  <1>3. InCall(request)
    BY DEF TrackInv, StageInv, DiarizeOneTooMany
  <1>5. /\ DOMAIN request' = Fields
        /\ request'.from = request.from /\ request'.to = request.to
        /\ request'.turns = told
    BY <1>2, Zenon DEF TrackInv, Fields
  <1>6. conversation' = conversation
    BY DEF DiarizeOneTooMany
  <1>7. InCall(request)'
    BY <1>3, <1>5, <1>6 DEF InCall, IsRange
  <1>8. TooManySpeakers(request.turns)'
    BY <1>2, <1>5 DEF TooManySpeakers
  <1>9. stage' = "track" /\ tracker' = Past /\ checkpoint' = Past
    BY DEF DiarizeOneTooMany, TrackInv, StageInv
  <1>. QED  BY <1>1, <1>5, <1>7, <1>8, <1>9 DEF TrackInv, StageInv

LEMMA TrackTrack ==
    ASSUME TrackInv, Track
    PROVE  TrackInv'
  <1>1. HistoryInv' /\ Past' = Past /\ Held' /\ conversation' = conversation
    BY HistoryUntouched, SameHeld DEF TrackInv, Track
  <1>2. /\ Sound(Past) /\ tracker = Past /\ checkpoint = Past /\ InCall(request)
        /\ ~ TrackingFails(Past, request, request.turns)
        /\ \/ IsDiarized(request, request.names)
           \/ TooManySpeakers(request.turns)
    BY DEF TrackInv, StageInv, HistoryInv, Track
  <1>3. IsDiarized(request, request.names)
    BY <1>2 DEF TrackingFails
  <1>4. PICK s : s = Past
    OBVIOUS
  <1>5. PICK w : w = request
    OBVIOUS
  <1>6. PICK t : t = Tracked(s, w)
    OBVIOUS
  <1>7. Extends(s, w, t)
    BY <1>2, <1>3, <1>4, <1>5, <1>6, TrackKeeps DEF TrackInv
  <1>8. tracker' = t
    BY <1>2, <1>4, <1>5, <1>6 DEF Track
  <1>9. PICK q : q = request'
    OBVIOUS
  <1>10. /\ DOMAIN q = Fields /\ q.from = w.from /\ q.to = w.to
         /\ q.turns = w.turns /\ q.names = w.names /\ q.ids = Newest(t).ids
    BY <1>5, <1>8, <1>9, Zenon DEF Track, TrackInv, Fields
  <1>11. IsDiarized(q, q.names)
    BY <1>3, <1>5, <1>10, SameWindow
  <1>12. IsTaken(q)
    <2>1. Newest(t) = t.windows[Len(t.windows)] /\ Len(t.windows) \in 1 .. Len(t.windows)
      BY <1>7, <1>11, SoundIsWindowed DEF Extends
    <2>2. IsWindow(Newest(t), t.next)
      BY <1>7, <2>1 DEF Extends, Sound
    <2>3. Newest(t).turns = q.turns
      BY <1>7, <1>10 DEF Extends
    <2>. QED  BY <1>10, <1>11, <2>2, <2>3 DEF IsTaken, IsWindow, Distinct
  <1>13. Extends(s, q, t) /\ t = Tracked(s, q)
    <2>1. Tracked(s, q) = Tracked(s, w)
      BY <1>10 DEF Tracked, IsReprocess, SameRange
    <2>. QED  BY <1>6, <1>7, <1>10, <2>1 DEF Extends
  <1>14. /\ IsTaken(q)' /\ InCall(q)' /\ Extends(s, q, t)'
    BY <1>1, <1>11, <1>12, <1>13, SameCall, SameSound
       DEF IsTaken, Extends, IsDiarized
  <1>15. IsTaken(request)' /\ InCall(request)'
    BY <1>9, <1>14 DEF IsTaken, IsDiarized, InCall, TurnsIn
  <1>16. Extends(Past, request, tracker)'
    BY <1>1, <1>4, <1>8, <1>9, <1>14 DEF Extends
  <1>17. /\ (tracker = Tracked(Past, request))'
         /\ (request.ids = Newest(tracker).ids)'
    BY <1>1, <1>4, <1>8, <1>9, <1>10, <1>13
  <1>18. stage' = "attribute" /\ checkpoint' = Past
    BY <1>2 DEF Track
  <1>19. DOMAIN request' = Fields
    BY <1>9, <1>10
  <1>. QED  BY <1>1, <1>15, <1>16, <1>17, <1>18, <1>19 DEF TrackInv, StageInv

-----------------------------------------------------------------------------
(* The words of a window and the roles of its speakers. *)

\* Words that whoever says them speaks through.
AreHeard(words) ==
    /\ IsFiniteSet(words)
    /\ \A w \in words :
          /\ IsRange(w)
          /\ \A u \in DOMAIN conversation.speech :
                Covers(w, u) => w.by \in Speech(u) \/ Speech(u) = {}

\* The image of a finite set is finite.
LEMMA ImageFinite ==
    ASSUME NEW S, IsFiniteSet(S), NEW f, S \in SUBSET DOMAIN f
    PROVE  IsFiniteSet({f[x] : x \in S})
  <1> DEFINE g == [x \in S |-> f[x]]
             T == {f[x] : x \in S}
  <1>1. g \in Surjection(S, T)
    BY DEF Surjection
  <1> HIDE DEF g, T
  <1>2. IsFiniteSet(T)
    BY <1>1, FS_Surjection
  <1>. QED  BY <1>2 DEF T

\* The lowest of the local names.
LEMMA LeastOfLabels ==
    ASSUME NEW T \in SUBSET Labels, T # {}
    PROVE  Min(T) \in Nat
  <1>1. T \in SUBSET Nat
    BY DEF Labels
  <1>2. \E x \in T : \A y \in T : x <= y
    BY <1>1, LeastNumber
  <1>. QED  BY <1>1, <1>2 DEF Min

\* A turn wins that overlaps the word at least as long as any other.
LEMMA WinningIs ==
    ASSUME Held, NEW w, IsRange(w), NEW r, NEW names, IsDiarized(r, names),
           r.turns # {}
    PROVE  /\ WinningTurn(w, r.turns) \in r.turns
           /\ \A o \in r.turns :
                 Overlap(w, o) <= Overlap(w, WinningTurn(w, r.turns))
  <1> DEFINE Better(t, o) ==
                \/ Overlap(w, t) > Overlap(w, o)
                \/ /\ Overlap(w, t) = Overlap(w, o)
                   /\ \/ t.from < o.from
                      \/ t.from = o.from /\ Min(t.locals) <= Min(o.locals)
             T == r.turns
             R == {p \in T \X T : Better(p[1], p[2])}
  <1>1. \A t \in T : /\ Overlap(w, t) \in Nat /\ t.from \in Nat
                     /\ Min(t.locals) \in Nat
    <2>1. ASSUME NEW t \in T
          PROVE  /\ Overlap(w, t) \in Nat /\ t.from \in Nat
                 /\ Min(t.locals) \in Nat
      <3>1. IsRange(r) /\ T = TurnsIn(r, names)
        BY DEF IsDiarized, InCall
      <3>2. IsRange(t) /\ t.locals # {}
        BY <3>1, TurnsAre
      <3>3. t.locals \in SUBSET Labels
        <4>1. t.locals \in SUBSET Locals(T)
          BY DEF Locals
        <4>. QED  BY <4>1, LocalsFinite
      <3>. QED  BY <3>2, <3>3, LeastOfLabels, OverlapIs DEF IsRange
    <2>. QED  BY <2>1
  <1>2. IsFiniteSet(T)
    BY TurnsFinite DEF IsDiarized, InCall
  <1>3. \A t, o \in T : <<t, o>> \in R <=> Better(t, o)
    OBVIOUS
  <1>4. \A t, o \in T : t # o => Better(t, o) \/ Better(o, t)
    BY <1>1
  <1>5. \A t, o, v \in T : Better(t, o) /\ Better(o, v) => Better(t, v)
    BY <1>1
  <1>6. \E t \in T : \A o \in T \ {t} : Better(t, o)
    <2>1. /\ \A t, o \in T : t # o => <<t, o>> \in R \/ <<o, t>> \in R
          /\ \A t, o, v \in T : /\ <<t, o>> \in R /\ <<o, v>> \in R
                                => t = v \/ <<t, v>> \in R
      <3> HIDE DEF R, T, Better
      <3>. QED  BY <1>3, <1>4, <1>5
    <2> HIDE DEF R, T, Better
    <2>2. \E t \in T : \A o \in T \ {t} : <<t, o>> \in R
      BY <1>2, <2>1, FirstOf DEF T
    <2>. QED  BY <1>3, <2>2
  <1>7. WinningTurn(w, T) = CHOOSE t \in T : \A o \in T \ {t} : Better(t, o)
    BY DEF WinningTurn
  <1>8. /\ WinningTurn(w, T) \in T
        /\ \A o \in T \ {WinningTurn(w, T)} : Better(WinningTurn(w, T), o)
    <2> HIDE DEF Better, T
    <2>. QED  BY <1>6, <1>7
  <1>. QED  BY <1>1, <1>8

\* A word given to one speaker is given to the one who says it.
OfItsSpeaker(x, o) ==
    /\ x.by \in Persons /\ o.names[x.by] \in Locals(o.turns)
    /\ x.speakers = {o.ids[o.names[x.by]]}

\* A word that is given to one speaker is given to the one who said it.
LEMMA OneSpeaker ==
    ASSUME Held, NEW o, IsTaken(o), NEW w, AreHeard({w}),
           Cardinality(Speakers(w, o.turns, o.ids)) = 1
    PROVE  OfItsSpeaker(Attributed(w, o.turns, o.ids), o)
  <1> DEFINE t == WinningTurn(w, o.turns)
             names == o.names
  <1>0. IsRange(w) /\ IsDiarized(o, names)
    BY DEF AreHeard, IsTaken
  <1>1. ~ \A v \in o.turns : Overlap(w, v) = 0
    <2>1. Cardinality({}) = 0
      BY FS_EmptySet
    <2>. QED  BY <2>1 DEF Speakers
  <1>2. /\ t \in o.turns
        /\ \A v \in o.turns : Overlap(w, v) <= Overlap(w, t)
    BY <1>0, <1>1, WinningIs
  <1>3. Speakers(w, o.turns, o.ids) = {o.ids[l] : l \in t.locals}
    BY <1>1 DEF Speakers
  <1> HIDE DEF t
  <1>4. IsRange(o) /\ o.turns = TurnsIn(o, names) /\ InCall(o)
    BY <1>0 DEF IsDiarized, InCall
  <1>5. /\ IsRange(t)
        /\ \A u \in Nat : Covers(t, u) =>
              /\ Covers(o, u) /\ Speech(u) # {}
              /\ t.locals = {names[p] : p \in Speech(u)}
    BY <1>2, <1>4, TurnsAre
  <1>6. \A v \in o.turns : Overlap(w, v) \in Nat
    BY <1>0, <1>4, TurnsAre, OverlapIs
  <1>7. Overlap(w, t) > 0
    BY <1>1, <1>2, <1>6
  <1>8. PICK u \in Nat : Covers(w, u) /\ Covers(t, u)
    BY <1>0, <1>5, <1>7, OverlapIs
  <1>9. /\ Covers(o, u) /\ Speech(u) # {} /\ Speech(u) \in SUBSET Persons
        /\ t.locals = {names[p] : p \in Speech(u)}
        /\ \A p \in Speech(u) : names[p] \in Locals(o.turns)
    BY <1>0, <1>4, <1>5, <1>8, SpeechIs, HeardIn
  <1>10. u \in DOMAIN conversation.speech
    <2>1. /\ o.from \in Nat /\ o.to \in Nat /\ o.from < u /\ u <= o.to
          /\ o.to <= Len(conversation.speech)
      BY <1>4, <1>9 DEF InCall, IsRange, Covers
    <2>2. conversation.speech \in Seq(SUBSET Persons)
      BY ConversationsAssumption DEF Held, IsConversation
    <2>. QED  BY <2>1, <2>2
  <1>11. w.by \in Speech(u)
    BY <1>8, <1>9, <1>10 DEF AreHeard
  <1>12. Speakers(w, o.turns, o.ids) = {o.ids[names[p]] : p \in Speech(u)}
    BY <1>3, <1>9
  <1>13. Speakers(w, o.turns, o.ids) = {o.ids[names[w.by]]}
    <2> DEFINE S == {o.ids[names[p]] : p \in Speech(u)}
    <2>1. IsFiniteSet(S)
      <3>1. t.locals \in SUBSET Locals(o.turns)
        BY <1>2 DEF Locals
      <3>2. IsFiniteSet(t.locals)
        BY <1>0, <3>1, LocalsFinite, FS_Subset
      <3>3. IsFiniteSet({o.ids[l] : l \in t.locals})
        BY <3>1, <3>2, ImageFinite DEF IsTaken
      <3>. QED  BY <1>3, <1>12, <3>3
    <2>2. o.ids[names[w.by]] \in S
      BY <1>11
    <2> HIDE DEF S
    <2>3. \E x : S = {x}
      BY <1>12, <2>1, FS_Singleton DEF S
    <2>. QED  BY <1>12, <2>2, <2>3 DEF S
  <1>14. /\ Attributed(w, o.turns, o.ids).by = w.by
         /\ Attributed(w, o.turns, o.ids).speakers = Speakers(w, o.turns, o.ids)
    BY DEF Attributed
  <1>. QED  BY <1>9, <1>11, <1>13, <1>14 DEF OfItsSpeaker

\* An outcome: its words and the roles of the speakers they were given to.
IsAttributed(o) ==
    /\ IsTaken(o) /\ IsFiniteSet(o.words) /\ o.roles = Roles(o.words)
    /\ \A x \in o.words : Cardinality(x.speakers) = 1 => OfItsSpeaker(x, o)

Honest(o) ==
    Misleading(o) \/ \A x \in CustomerWords(o.words, o.roles) : x.by = "customer"

\* A number of hits is a natural number.
LEMMA HitsAre ==
    ASSUME NEW words, IsFiniteSet(words), NEW phrases, IsFiniteSet(phrases)
    PROVE  Hits(phrases, words) \in Nat
  <1> DEFINE f == [w \in words |-> Cardinality({p \in phrases : HasPhrase(w.text, p)})]
  <1>1. ASSUME NEW w \in words
        PROVE  Cardinality({p \in phrases : HasPhrase(w.text, p)}) \in Nat
    <2> DEFINE S == {p \in phrases : HasPhrase(w.text, p)}
    <2>1. S \in SUBSET phrases
      OBVIOUS
    <2> HIDE DEF S
    <2>2. Cardinality(S) \in Nat
      BY <2>1, FS_Subset, FS_CardinalityType
    <2>. QED  BY <2>2 DEF S
  <1>2. f \in [words -> Nat] /\ DOMAIN f = words
    BY <1>1
  <1>3. Hits(phrases, words) = SumFunction(f)
    BY DEF Hits
  <1>4. SumFunction(f) = SumFunctionOnSet(f, words)
    BY <1>2 DEF SumFunction
  <1> HIDE DEF f
  <1>. QED  BY <1>2, <1>3, <1>4, SumPositive

\* What the phrases of a speaker of its own say.
LEMMA DirectIs ==
    ASSUME NEW a \in Nat, NEW c \in Nat
    PROVE  /\ Direct(a, c).role \in {"UNKNOWN", "AGENT", "CUSTOMER"}
           /\ Direct(a, c).role = "AGENT" => a > 0 /\ c = 0
           /\ Direct(a, c).role = "CUSTOMER" => a = 0 /\ c > 0
  <1>1. AgentThreshold \in Nat \ {0} /\ CustomerThreshold \in Nat \ {0}
    BY ConfigurationAssumption
  <1>2. CASE a > 0 /\ c > 0
    <2>1. Direct(a, c).role = "UNKNOWN"
      BY <1>2, Zenon DEF Direct, Unknown
    <2>. QED  BY <2>1
  <1>3. CASE ~ (a > 0 /\ c > 0) /\ a >= AgentThreshold
    <2>1. Direct(a, c).role = "AGENT"
      BY <1>3, Zenon DEF Direct, Unknown
    <2>. QED  BY <1>1, <1>3, <2>1
  <1>4. CASE ~ (a > 0 /\ c > 0) /\ ~ (a >= AgentThreshold) /\ c >= CustomerThreshold
    <2>1. Direct(a, c).role = "CUSTOMER"
      BY <1>4, Zenon DEF Direct, Unknown
    <2>. QED  BY <1>1, <1>4, <2>1
  <1>5. CASE ~ (a > 0 /\ c > 0) /\ ~ (a >= AgentThreshold) /\ ~ (c >= CustomerThreshold)
    <2>1. Direct(a, c).role = "UNKNOWN"
      BY <1>5, Zenon DEF Direct, Unknown
    <2>. QED  BY <2>1
  <1>. QED  BY <1>2, <1>3, <1>4, <1>5

\* A role is a speaker's own, or the opposite of the only other's.
LEMMA OppositeIs ==
    ASSUME NEW direct, NEW a, NEW c, NEW s \in DOMAIN direct,
           \A x \in DOMAIN direct : direct[x].role \in {"UNKNOWN", "AGENT", "CUSTOMER"},
           WithOpposite(direct, a, c)[s].role = "CUSTOMER"
    PROVE  \/ direct[s].role = "CUSTOMER"
           \/ /\ direct[s].role = "UNKNOWN"
              /\ \E x \in DOMAIN direct : direct[x].role = "AGENT"
  <1> DEFINE speakers == DOMAIN direct
             resolved == {x \in speakers : /\ direct[x].role # "UNKNOWN"
                                           /\ direct[x].confidence >= InferredConfidence}
             one == CHOOSE x \in resolved : TRUE
             inferred == Opposite(direct[one].role)
             isInferred(x) ==
                /\ Cardinality(speakers) = 2 /\ Cardinality(resolved) = 1
                /\ direct[x].role = "UNKNOWN" /\ ~direct[x].conflicting
                /\ 0 = IF inferred = "CUSTOMER" THEN a[x] ELSE c[x]
             said == [Unknown EXCEPT !.role = inferred,
                                     !.confidence = InferredConfidence]
  <1>1. WithOpposite(direct, a, c)[s] = IF isInferred(s) THEN said ELSE direct[s]
    BY Zenon DEF WithOpposite
  <1>2. said.role = inferred
    BY Zenon DEF Unknown
  <1>3. CASE isInferred(s)
    <2>1. direct[s].role = "UNKNOWN" /\ Cardinality(resolved) = 1
      BY <1>3
    <2>2. inferred = "CUSTOMER"
      <3> HIDE DEF isInferred, inferred, said
      <3>. QED  BY <1>1, <1>2, <1>3
    <2>3. resolved # {}
      <3>1. Cardinality({}) = 0
        BY FS_EmptySet
      <3> HIDE DEF resolved
      <3>. QED  BY <2>1, <3>1
    <2>4. one \in resolved
      <3> HIDE DEF resolved
      <3>. QED  BY <2>3
    <2>5. one \in speakers /\ direct[one].role \in {"AGENT", "CUSTOMER"}
      <3>1. one \in speakers /\ direct[one].role # "UNKNOWN"
        <4> HIDE DEF one
        <4>. QED  BY <2>4
      <3> HIDE DEF one
      <3>. QED  BY <3>1
    <2>6. direct[one].role = "AGENT"
      <3> HIDE DEF one
      <3>. QED  BY <2>2, <2>5 DEF Opposite
    <2> HIDE DEF one
    <2>. QED  BY <2>1, <2>5, <2>6
  <1>4. CASE ~ isInferred(s)
    <2> HIDE DEF isInferred, said
    <2>. QED  BY <1>1, <1>4
  <1>. QED  BY <1>3, <1>4

\* Unless phrases mislead, a word of a trusted customer is the customer's:
\* directly by phrases, or as the opposite of a recognised agent.
LEMMA RolesAreHonest ==
    ASSUME NEW o, IsAttributed(o)
    PROVE  Honest(o)
  <1> DEFINE W == o.words
             own(p) == {w \in W : w.by = p /\ Cardinality(w.speakers) = 1}
             sp(p) == o.ids[o.names[p]]
             singles == {v \in W : Cardinality(v.speakers) = 1}
             S == UNION {w.speakers : w \in singles}
             aH == [s \in S |-> Hits(AgentPhrases, SpokenBy(s, W))]
             cH == [s \in S |-> Hits(CustomerPhrases, SpokenBy(s, W))]
             direct == [s \in S |-> Direct(aH[s], cH[s])]
  <1>0. IsFiniteSet(W) /\ o.roles = Roles(W)
        /\ \A x \in W : Cardinality(x.speakers) = 1 => OfItsSpeaker(x, o)
    BY DEF IsAttributed
  <1>1. o.roles = WithOpposite(direct, aH, cH)
    BY <1>0 DEF Roles
  <1>2. ASSUME NEW x \in W, Cardinality(x.speakers) = 1
        PROVE  /\ x.by \in Persons /\ x.speakers = {sp(x.by)} /\ sp(x.by) \in S
               /\ SpokenBy(sp(x.by), W) = own(x.by)
    <2>1. OfItsSpeaker(x, o)
      BY <1>0, <1>2
    <2>2. sp(x.by) \in S
      BY <1>2, <2>1 DEF OfItsSpeaker
    <2>3. ASSUME NEW y \in W
          PROVE  y.speakers = {sp(x.by)} <=> y.by = x.by /\ Cardinality(y.speakers) = 1
      <3>1. ASSUME y.speakers = {sp(x.by)}
            PROVE  y.by = x.by /\ Cardinality(y.speakers) = 1
        <4>1. Cardinality(y.speakers) = 1
          BY <3>1, FS_Singleton
        <4>2. OfItsSpeaker(y, o)
          BY <1>0, <4>1
        <4>3. o.ids[o.names[x.by]] = o.ids[o.names[y.by]]
          BY <3>1, <4>2 DEF OfItsSpeaker
        <4>4. o.names[x.by] = o.names[y.by]
          BY <2>1, <4>2, <4>3 DEF OfItsSpeaker, IsAttributed, IsTaken, Distinct
        <4>5. x.by = y.by
          BY <2>1, <4>2, <4>4, NamesDiffer
             DEF OfItsSpeaker, IsAttributed, IsTaken, IsDiarized
        <4>. QED  BY <4>1, <4>5
      <3>2. ASSUME y.by = x.by, Cardinality(y.speakers) = 1
            PROVE  y.speakers = {sp(x.by)}
        BY <1>0, <3>2 DEF OfItsSpeaker
      <3>. QED  BY <3>1, <3>2
    <2>4. SpokenBy(sp(x.by), W) = own(x.by)
      <3> HIDE DEF W, sp
      <3>. QED  BY <2>3 DEF SpokenBy
    <2>. QED  BY <2>1, <2>2, <2>4 DEF OfItsSpeaker
  <1>3. ASSUME NEW s \in S
        PROVE  \E x \in W : Cardinality(x.speakers) = 1 /\ s = sp(x.by)
    <2>1. PICK x \in singles : s \in x.speakers
      OBVIOUS
    <2>. QED  BY <1>2, <2>1
  <1>4. \A p : /\ Hits(AgentPhrases, own(p)) \in Nat
               /\ Hits(CustomerPhrases, own(p)) \in Nat
    <2>1. ASSUME NEW p
          PROVE  /\ Hits(AgentPhrases, own(p)) \in Nat
                 /\ Hits(CustomerPhrases, own(p)) \in Nat
      <3>1. own(p) \in SUBSET W
        OBVIOUS
      <3> HIDE DEF own
      <3>2. IsFiniteSet(own(p))
        BY <1>0, <3>1, FS_Subset
      <3>. QED  BY <3>2, HitsAre, PhrasesAssumption
    <2>. QED  BY <2>1
  <1>5. ASSUME NEW x \in W, Cardinality(x.speakers) = 1
        PROVE  /\ sp(x.by) \in DOMAIN direct
               /\ direct[sp(x.by)] = Direct(Hits(AgentPhrases, own(x.by)),
                                            Hits(CustomerPhrases, own(x.by)))
    <2>1. sp(x.by) \in S /\ SpokenBy(sp(x.by), W) = own(x.by)
      BY <1>2, <1>5
    <2> HIDE DEF S, sp, own, W
    <2>. QED  BY <2>1
  <1> HIDE DEF direct, aH, cH
  <1>6. DOMAIN direct = S
    BY DEF direct
  <1> HIDE DEF S, own, sp
  <1>7. \A s \in DOMAIN direct : direct[s].role \in {"UNKNOWN", "AGENT", "CUSTOMER"}
    BY <1>3, <1>4, <1>5, <1>6, DirectIs
  <1>8. ASSUME NEW x \in CustomerWords(W, o.roles), x.by # "customer"
        PROVE  Misleading(o)
    <2>1. x \in W /\ Applied(x, o.roles).role = "CUSTOMER"
      BY DEF CustomerWords
    <2>2. Cardinality(x.speakers) = 1
      <3>1. SUFFICES ASSUME Cardinality(x.speakers) # 1
                     PROVE  Applied(x, o.roles).role # "CUSTOMER"
        BY <2>1
      <3>2. Applied(x, o.roles).role
              = IF x.speakers = {} THEN "UNKNOWN" ELSE "OVERLAP"
        BY <3>1, Zenon DEF Applied, Unknown
      <3>. QED  BY <3>2
    <2>3. x.by \in Persons /\ x.speakers = {sp(x.by)}
      BY <1>2, <2>1, <2>2
    <2>4. x.by = "agent"
      BY <1>8, <2>3 DEF Persons
    <2>5. Applied(x, o.roles) = o.roles[sp(x.by)]
      BY <2>2, <2>3 DEF Applied
    <2>6. /\ sp(x.by) \in DOMAIN direct
          /\ direct[sp(x.by)] = Direct(Hits(AgentPhrases, own("agent")),
                                       Hits(CustomerPhrases, own("agent")))
      BY <1>5, <2>1, <2>2, <2>4
    <2>7. \/ direct[sp(x.by)].role = "CUSTOMER"
          \/ /\ direct[sp(x.by)].role = "UNKNOWN"
             /\ \E s \in DOMAIN direct : direct[s].role = "AGENT"
      BY <1>1, <1>7, <2>1, <2>5, <2>6, OppositeIs
    <2>8. CASE direct[sp(x.by)].role = "CUSTOMER"
      <3>1. /\ Hits(CustomerPhrases, own("agent")) > 0
            /\ Hits(AgentPhrases, own("agent")) = 0
        BY <1>4, <2>6, <2>8, DirectIs
      <3>. QED  BY <3>1 DEF Misleading, own
    <2>9. CASE /\ direct[sp(x.by)].role = "UNKNOWN"
               /\ \E s \in DOMAIN direct : direct[s].role = "AGENT"
      <3>1. PICK s \in DOMAIN direct : direct[s].role = "AGENT"
        BY <2>9
      <3>2. PICK y \in W : Cardinality(y.speakers) = 1 /\ s = sp(y.by)
        BY <1>3, <1>6
      <3>3. y.by \in Persons /\ y.by # "agent"
        BY <1>2, <2>4, <2>9, <3>1, <3>2
      <3>4. y.by = "customer"
        BY <3>3 DEF Persons
      <3>5. direct[s] = Direct(Hits(AgentPhrases, own("customer")),
                               Hits(CustomerPhrases, own("customer")))
        BY <1>5, <3>2, <3>4
      <3>6. /\ Hits(AgentPhrases, own("customer")) > 0
            /\ Hits(CustomerPhrases, own("customer")) = 0
        BY <1>4, <3>1, <3>5, DirectIs
      <3>. QED  BY <3>6 DEF Misleading, own
    <2>. QED  BY <2>7, <2>8, <2>9
  <1>. QED  BY <1>8 DEF Honest

-----------------------------------------------------------------------------
(* What is composed and what is routed. *)

\* The running request has words of the call.
WordsInv == stage # "idle" => AreHeard(request.words)

\* What is routed under a revision is an outcome of that revision.
IsProjection(words, r) ==
    \E k \in 1 .. Len(accepted) :
        /\ accepted[k].revision = r
        /\ words = CustomerWords(accepted[k].words, accepted[k].roles)

OutcomesInv ==
    /\ \A k \in 1 .. Len(accepted) : Honest(accepted[k])
    /\ \A r \in DOMAIN projections : IsProjection(projections[r], r)

RoutedInv ==
    /\ latestRevision \in Nat /\ processed \in Nat
    /\ \E V : routed \in Seq(V)
    /\ \A j \in 1 .. Len(routed) :
          /\ routed[j].revision \in Nat /\ routed[j].revision <= processed
          /\ IsProjection(routed[j].words, routed[j].revision)
    /\ \A i, j \in 1 .. Len(routed) :
          i < j => routed[i].revision < routed[j].revision

CallInv == TrackInv /\ WordsInv /\ OutcomesInv /\ RoutedInv

\* What was heard depends on the conversation alone.
LEMMA SameWords ==
    ASSUME conversation' = conversation, NEW words, AreHeard(words)
    PROVE  AreHeard(words)'
  BY DEF AreHeard, Speech

LEMMA WordsUntouched ==
    ASSUME WordsInv, conversation' = conversation, stage # "idle",
           request'.words = request.words
    PROVE  WordsInv'
  <1>1. PICK words : words = request.words
    OBVIOUS
  <1>2. AreHeard(words)'
    BY <1>1, SameWords DEF WordsInv
  <1>3. request'.words = words
    BY <1>1
  <1>. QED  BY <1>2, <1>3 DEF WordsInv

LEMMA OutcomesUntouched ==
    ASSUME OutcomesInv, UNCHANGED <<accepted, projections>>
    PROVE  OutcomesInv'
  BY DEF OutcomesInv, IsProjection

LEMMA RoutedUntouched ==
    ASSUME RoutedInv, UNCHANGED <<accepted, processed, routed>>, latestRevision' \in Nat
    PROVE  RoutedInv'
  BY DEF RoutedInv, IsProjection

\* The words of the ASR are words of the call, doubled or not.
LEMMA HeardAre ==
    ASSUME Held, NEW r
    PROVE  AreHeard(Heard(r)) /\ AreHeard(Doubled(Heard(r)))
  <1> DEFINE H == Heard(r)
             f == [w \in H |-> [w EXCEPT !.text = <<"noise">>]]
  <1>1. /\ IsFiniteSet(conversation.words)
        /\ \A w \in conversation.words :
              /\ DOMAIN w = {"from", "to", "by", "text"}
              /\ w.from \in Nat /\ w.to \in Nat
              /\ \A u \in DOMAIN conversation.speech :
                    Covers(w, u) => w.by \in Speech(u) \/ Speech(u) = {}
    BY ConversationsAssumption DEF Held, IsConversation, Speech
  <1>2. H \in SUBSET conversation.words
    BY DEF Heard
  <1> HIDE DEF H
  <1>3. IsFiniteSet(H)
    BY <1>1, <1>2, FS_Subset
  <1>4. AreHeard(H)
    BY <1>1, <1>2, <1>3 DEF AreHeard, IsRange
  <1>5. ASSUME NEW w \in H
        PROVE  f[w].from = w.from /\ f[w].to = w.to /\ f[w].by = w.by
    BY <1>1, <1>2, Zenon
  <1>6. IsFiniteSet({f[w] : w \in H})
    <2>1. H \in SUBSET DOMAIN f
      OBVIOUS
    <2> HIDE DEF f
    <2>. QED  BY <1>3, <2>1, ImageFinite
  <1>7. Doubled(H) = H \cup {f[w] : w \in H}
    BY Zenon DEF Doubled
  <1> HIDE DEF f
  <1>8. IsFiniteSet(Doubled(H))
    BY <1>3, <1>6, <1>7, FS_Union
  <1>9. ASSUME NEW x \in Doubled(H)
        PROVE  /\ IsRange(x)
               /\ \A u \in DOMAIN conversation.speech :
                     Covers(x, u) => x.by \in Speech(u) \/ Speech(u) = {}
    <2>1. PICK w \in H : x.from = w.from /\ x.to = w.to /\ x.by = w.by
      BY <1>5, <1>7
    <2>. QED  BY <1>4, <2>1 DEF AreHeard, IsRange, Covers
  <1>. QED  BY <1>4, <1>8, <1>9 DEF AreHeard, H

\* The invariant of the call, step by step.
LEMMA InitCall ==
    ASSUME CallInit
    PROVE  CallInv
  <1>1. WordsInv /\ RoutedInv /\ OutcomesInv
    <2>1. <<>> \in Seq({}) /\ Len(<<>>) = 0 /\ DOMAIN <<>> = {}
      OBVIOUS
    <2>. QED  BY <2>1 DEF CallInit, WordsInv, RoutedInv, OutcomesInv
  <1>. QED  BY <1>1, InitTrack DEF CallInv

LEMMA ComposeKeeps ==
    ASSUME CallInv, NEW r \in Ranges, NEW doubled \in BOOLEAN,
           NEW isNew \in BOOLEAN, Compose(r, doubled, isNew)
    PROVE  CallInv'
  <1> DEFINE words == IF doubled THEN Doubled(Heard(r)) ELSE Heard(r)
  <1>1. TrackInv'
    BY ComposeTrack DEF CallInv
  <1>2. /\ request' = NextRequest(r, words, isNew)
        /\ latestRevision' = request'.revision /\ conversation' = conversation
    BY DEF Compose
  <1>3. AreHeard(words)
    BY HeardAre DEF CallInv, TrackInv
  <1> HIDE DEF words
  <1>4. /\ request'.words = words
        /\ request'.revision = latestRevision + (IF isNew THEN 1 ELSE 0)
    BY <1>2, Zenon DEF NextRequest, NoRequest
  <1>5. WordsInv'
    <2>1. PICK q : q = words
      OBVIOUS
    <2>2. AreHeard(q)'
      BY <1>2, <1>3, <2>1, SameWords
    <2>3. request'.words = q
      BY <1>4, <2>1
    <2>. QED  BY <2>2, <2>3 DEF WordsInv
  <1>6. OutcomesInv'
    BY OutcomesUntouched DEF CallInv, Compose
  <1>7. RoutedInv'
    <2>1. latestRevision' \in Nat
      BY <1>2, <1>4 DEF CallInv, RoutedInv
    <2>. QED  BY <2>1, RoutedUntouched DEF CallInv, Compose
  <1>. QED  BY <1>1, <1>5, <1>6, <1>7 DEF CallInv

LEMMA FailKeeps ==
    ASSUME CallInv, stage # "idle", FailSafe
    PROVE  CallInv'
  <1>1. TrackInv'
    BY FailTrack DEF CallInv
  <1>2. WordsInv'
    BY DEF FailSafe, WordsInv
  <1>3. OutcomesInv'
    BY OutcomesUntouched DEF CallInv, FailSafe
  <1>4. RoutedInv'
    BY RoutedUntouched DEF CallInv, RoutedInv, FailSafe
  <1>. QED  BY <1>1, <1>2, <1>3, <1>4 DEF CallInv

\* A stage that goes on keeps the words.
LEMMA StageKeeps ==
    ASSUME CallInv, Diarize \/ DiarizeOneTooMany \/ Track
    PROVE  CallInv'
  <1>1. TrackInv'
    BY DiarizeTrack, OneTooManyTrack, TrackTrack DEF CallInv
  <1>2. /\ stage # "idle"
        /\ UNCHANGED <<conversation, accepted, projections, latestRevision, processed,
                       routed>>
    BY DEF Diarize, DiarizeOneTooMany, Track
  <1>3. request'.words = request.words
    <2>1. DOMAIN request = Fields
      BY DEF CallInv, TrackInv
    <2>2. CASE Diarize
      BY <2>1, <2>2, Zenon DEF Diarize, Fields
    <2>3. CASE DiarizeOneTooMany
      BY <2>1, <2>3, Zenon DEF DiarizeOneTooMany, Fields
    <2>4. CASE Track
      BY <2>1, <2>4, Zenon DEF Track, Fields
    <2>. QED  BY <2>2, <2>3, <2>4
  <1>4. WordsInv'
    BY <1>2, <1>3, WordsUntouched DEF CallInv
  <1>5. OutcomesInv'
    BY <1>2, OutcomesUntouched DEF CallInv
  <1>6. RoutedInv'
    BY <1>2, RoutedUntouched DEF CallInv, RoutedInv
  <1>. QED  BY <1>1, <1>4, <1>5, <1>6 DEF CallInv

\* The outcome of the running request.
IsOutcome(o, words) ==
    /\ o.from = request.from /\ o.to = request.to /\ o.turns = request.turns
    /\ o.names = request.names /\ o.ids = request.ids
    /\ o.revision = request.revision
    /\ o.words = words /\ o.roles = Roles(words)
    /\ words = {Attributed(w, request.turns, request.ids) : w \in request.words}
    /\ accepted' = Append(accepted, o)
    /\ projections' = Extended(projections, o.revision,
                               CustomerWords(o.words, o.roles))

\* Attribute makes an outcome of the request.
LEMMA OutcomeExists ==
    ASSUME DOMAIN request = Fields, Attribute
    PROVE  \E o, words : IsOutcome(o, words)
  <1> DEFINE words == {Attributed(w, request.turns, request.ids) : w \in request.words}
             o == [request EXCEPT !.words = words, !.roles = Roles(words)]
  <1>1. /\ o.from = request.from /\ o.to = request.to /\ o.turns = request.turns
        /\ o.names = request.names /\ o.ids = request.ids
        /\ o.revision = request.revision
        /\ o.words = words /\ o.roles = Roles(words)
    <2> HIDE DEF words
    <2>. QED  BY Zenon DEF Fields
  <1>2. /\ accepted' = Append(accepted, o)
        /\ projections' = Extended(projections, request.revision,
                                   CustomerWords(words, Roles(words)))
    BY Zenon DEF Attribute
  <1>3. words = {Attributed(w, request.turns, request.ids) : w \in request.words}
    OBVIOUS
  <1> HIDE DEF o, words
  <1>4. IsOutcome(o, words)
    BY <1>1, <1>2, <1>3, Zenon DEF IsOutcome
  <1>. QED  BY <1>4

\* Agreement depends on range, names and speakers only.
LEMMA SameAgree ==
    ASSUME NEW v, NEW w, Agree(v, w),
           NEW a, SameSpeakers(v, a), NEW b, SameSpeakers(w, b)
    PROVE  Agree(a, b)
  <1>1. \A u : /\ Covers(a, u) <=> Covers(v, u)
               /\ Covers(b, u) <=> Covers(w, u)
    BY DEF SameSpeakers, Covers
  <1>2. \A u : At(a, u) = At(v, u) /\ At(b, u) = At(w, u)
    BY DEF SameSpeakers, At
  <1>. QED  BY <1>1, <1>2 DEF Agree

\* The history of the call goes on with the window the tracker took.
LEMMA AttributeTrack ==
    ASSUME TrackInv, Attribute, NEW o, NEW words, IsOutcome(o, words)
    PROVE  TrackInv' /\ IsTaken(o)
  <1>1. /\ conversation' = conversation /\ Held' /\ tracker' = tracker
        /\ stage' = "idle" /\ accepted' = Append(accepted, o)
    BY SameHeld DEF TrackInv, Attribute, IsOutcome
  <1>2. /\ tracker = Tracked(Past, request) /\ Extends(Past, request, tracker)
        /\ request.ids = Newest(tracker).ids /\ IsTaken(request)
    BY DEF TrackInv, StageInv, Attribute
  <1>3. PICK q : q = request
    OBVIOUS
  <1>4. PICK n : n = Len(accepted)
    OBVIOUS
  <1>5. PICK V : accepted \in Seq(V)
    BY DEF TrackInv, HistoryInv
  <1>6. /\ n \in Nat /\ accepted' \in Seq(V \cup {o}) /\ Len(accepted') = n + 1
        /\ \A k \in 1 .. n : accepted'[k] = accepted[k]
        /\ accepted'[n + 1] = o /\ accepted' # <<>>
        /\ accepted = <<>> <=> n = 0
    BY <1>1, <1>4, <1>5
  <1>7. o.from = q.from /\ o.to = q.to /\ o.turns = q.turns
        /\ o.names = q.names /\ o.ids = q.ids
    BY <1>3 DEF IsOutcome
  <1>8. IsTaken(o)
    <2>1. IsDiarized(o, o.names)
      BY <1>2, <1>3, <1>7, SameWindow DEF IsTaken
    <2>. QED  BY <1>2, <1>3, <1>7, <2>1 DEF IsTaken, Distinct
  <1>9. Past' = tracker
    <2>1. Past' = Tracked(Past, o)
      BY <1>1, <1>5, FoldOfAppend DEF Past
    <2>2. Tracked(Past, o) = Tracked(Past, q)
      BY <1>7 DEF Tracked, IsReprocess, SameRange
    <2>. QED  BY <1>2, <1>3, <2>1, <2>2
  <1>10. SameSpeakers(Newest(tracker), o)
    BY <1>2, <1>3, <1>7 DEF SameSpeakers, Extends
  <1>11. accepted # <<>> => Agree(accepted[n], o)
    <2>1. SUFFICES ASSUME accepted # <<>> PROVE Agree(accepted[n], o)
      OBVIOUS
    <2>2. /\ Past.windows # <<>> /\ SameSpeakers(Newest(Past), accepted[n])
      BY <1>4, <2>1 DEF TrackInv, HistoryInv
    <2>3. Agree(Newest(Past), Newest(tracker))
      BY <1>2, <2>2 DEF Extends
    <2>. QED  BY <1>10, <2>2, <2>3, SameAgree
  <1>12. Sound(Past)'
    <2>1. PICK t : t = tracker
      OBVIOUS
    <2>2. Sound(t)'
      BY <1>1, <1>2, <2>1, SameSound DEF Extends
    <2>. QED  BY <1>9, <2>1, <2>2
  <1>13. \A k \in 1 .. Len(accepted') : IsTaken(accepted[k])'
    <2>1. ASSUME NEW k \in 1 .. Len(accepted'), NEW v, v = accepted'[k]
          PROVE  IsTaken(accepted[k])'
      <3>1. k \in 1 .. n \/ k = n + 1
        BY <1>6, <2>1
      <3>2. IsTaken(v)
        BY <1>4, <1>6, <1>8, <2>1, <3>1 DEF TrackInv, HistoryInv
      <3>3. IsTaken(v)'
        BY <1>1, <3>2, SameCall DEF IsTaken
      <3>. QED  BY <2>1, <3>3
    <2>. QED  BY <2>1
  <1>14. \A k \in 1 .. Len(accepted') - 1 : Agree(accepted'[k], accepted'[k + 1])
    <2>1. ASSUME NEW k \in 1 .. n
          PROVE  Agree(accepted'[k], accepted'[k + 1])
      <3>1. CASE k = n
        BY <1>6, <1>11, <2>1, <3>1
      <3>2. CASE k # n
        <4>1. k \in 1 .. (n - 1) /\ k + 1 \in 1 .. n
          BY <1>6, <3>2
        <4>2. Agree(accepted[k], accepted[k + 1])
          BY <1>4, <4>1 DEF TrackInv, HistoryInv
        <4>. QED  BY <1>6, <4>1, <4>2
      <3>. QED  BY <3>1, <3>2
    <2>2. Len(accepted') - 1 = n
      BY <1>6
    <2>. QED  BY <2>1, <2>2
  <1>15. HistoryInv'
    <2>1. (Past.windows # <<>>)' /\ SameSpeakers(Newest(Past), accepted[Len(accepted)])'
      BY <1>2, <1>6, <1>9, <1>10 DEF Extends
    <2>. QED  BY <1>6, <1>12, <1>13, <1>14, <2>1 DEF HistoryInv
  <1>16. DOMAIN request' = Fields
    BY Zenon DEF Attribute, NoRequest, Fields
  <1>17. StageInv'
    BY <1>1, <1>9 DEF StageInv
  <1>. QED  BY <1>1, <1>8, <1>15, <1>16, <1>17 DEF TrackInv

\* Its words are attributed to speakers of its turns.
LEMMA OutcomeIsAttributed ==
    ASSUME CallInv, stage = "attribute", NEW o, NEW words, IsOutcome(o, words),
           IsTaken(o)
    PROVE  IsAttributed(o)
  <1>1. AreHeard(request.words)
    BY DEF CallInv, WordsInv
  <1>2. /\ o.turns = request.turns /\ o.ids = request.ids /\ o.words = words
        /\ o.roles = Roles(words)
        /\ words = {Attributed(w, request.turns, request.ids) : w \in request.words}
    BY DEF IsOutcome
  <1> DEFINE f == [w \in request.words |-> Attributed(w, request.turns, request.ids)]
  <1>3. IsFiniteSet(words)
    <2>1. request.words \in SUBSET DOMAIN f /\ words = {f[w] : w \in request.words}
      BY <1>2
    <2>2. IsFiniteSet(request.words)
      BY <1>1 DEF AreHeard
    <2> HIDE DEF f
    <2>. QED  BY <2>1, <2>2, ImageFinite
  <1>4. ASSUME NEW x \in words, Cardinality(x.speakers) = 1
        PROVE  OfItsSpeaker(x, o)
    <2>1. PICK w \in request.words : x = Attributed(w, o.turns, o.ids)
      BY <1>2
    <2>2. AreHeard({w})
      BY <1>1, FS_Singleton DEF AreHeard
    <2>3. x.speakers = Speakers(w, o.turns, o.ids)
      BY <2>1 DEF Attributed
    <2>. QED  BY <1>4, <2>1, <2>2, <2>3, OneSpeaker DEF CallInv, TrackInv
  <1>. QED  BY <1>2, <1>3, <1>4 DEF IsAttributed

\* An outcome stays where it is.
LEMMA ProjectionStays ==
    ASSUME NEW V, accepted \in Seq(V), NEW o, accepted' = Append(accepted, o),
           NEW words, NEW r, IsProjection(words, r)
    PROVE  IsProjection(words, r)'
  <1>1. PICK k \in 1 .. Len(accepted) :
           /\ accepted[k].revision = r
           /\ words = CustomerWords(accepted[k].words, accepted[k].roles)
    BY DEF IsProjection
  <1>2. k \in 1 .. Len(accepted') /\ accepted'[k] = accepted[k]
    OBVIOUS
  <1>. QED  BY <1>1, <1>2 DEF IsProjection

LEMMA AttributeKeeps ==
    ASSUME CallInv, Attribute
    PROVE  CallInv'
  <1>1. PICK o, words : IsOutcome(o, words)
    BY OutcomeExists DEF CallInv, TrackInv
  <1>2. TrackInv' /\ IsTaken(o)
    BY <1>1, AttributeTrack DEF CallInv
  <1>3. Honest(o)
    BY <1>1, <1>2, OutcomeIsAttributed, RolesAreHonest DEF Attribute
  <1>4. /\ accepted' = Append(accepted, o)
        /\ projections' = Extended(projections, o.revision,
                                   CustomerWords(o.words, o.roles))
    BY <1>1 DEF IsOutcome
  <1>5. PICK V : accepted \in Seq(V)
    BY DEF CallInv, TrackInv, HistoryInv
  <1>6. WordsInv'
    BY DEF Attribute, WordsInv
  <1>7. OutcomesInv'
    <2>1. ASSUME NEW k \in 1 .. Len(accepted')
          PROVE  Honest(accepted'[k])
      <3>1. \/ k \in 1 .. Len(accepted) /\ accepted'[k] = accepted[k]
            \/ accepted'[k] = o
        BY <1>4, <1>5
      <3>. QED  BY <1>3, <3>1 DEF CallInv, OutcomesInv
    <2>2. ASSUME NEW r \in DOMAIN projections', NEW p, p = projections'[r]
          PROVE  IsProjection(projections[r], r)'
      <3>1. CASE r = o.revision
        <4>1. p = CustomerWords(o.words, o.roles)
          BY <1>4, <2>2, <3>1 DEF Extended
        <4>2. Len(accepted) + 1 \in 1 .. Len(accepted')
              /\ accepted'[Len(accepted) + 1] = o
          BY <1>4, <1>5
        <4>3. IsProjection(p, r)'
          BY <3>1, <4>1, <4>2 DEF IsProjection
        <4>. QED  BY <2>2, <4>3
      <3>2. CASE r # o.revision
        <4>1. r \in DOMAIN projections /\ p = projections[r]
          BY <1>4, <2>2, <3>2 DEF Extended
        <4>2. IsProjection(p, r)
          BY <4>1 DEF CallInv, OutcomesInv
        <4>3. IsProjection(p, r)'
          BY <1>4, <1>5, <4>2, ProjectionStays
        <4>. QED  BY <2>2, <4>3
      <3>. QED  BY <3>1, <3>2
    <2>. QED  BY <2>1, <2>2 DEF OutcomesInv
  <1>8. RoutedInv'
    <2>1. UNCHANGED <<latestRevision, processed, routed>>
      BY DEF Attribute
    <2>2. ASSUME NEW j \in 1 .. Len(routed), NEW p, p = routed[j]
          PROVE  IsProjection(routed[j].words, routed[j].revision)'
      <3>1. IsProjection(p.words, p.revision)
        BY <2>2 DEF CallInv, RoutedInv
      <3>2. IsProjection(p.words, p.revision)'
        BY <1>4, <1>5, <3>1, ProjectionStays
      <3>. QED  BY <2>1, <2>2, <3>2
    <2>. QED  BY <2>1, <2>2 DEF CallInv, RoutedInv
  <1>. QED  BY <1>2, <1>6, <1>7, <1>8 DEF CallInv

LEMMA PrepareKeeps ==
    ASSUME CallInv, NEW event \in 1 .. latestRevision, NEW reply \in DOMAIN projections,
           Prepare(event, reply)
    PROVE  CallInv'
  <1>1. UNCHANGED <<conversation, tracker, checkpoint, stage, request, accepted,
                    projections, latestRevision>>
    BY DEF Prepare
  <1>2. TrackInv'
    BY <1>1, RejectTrack DEF CallInv
  <1>3. WordsInv'
    BY <1>1 DEF WordsInv, Prepare
  <1>4. OutcomesInv'
    BY <1>1, OutcomesUntouched DEF CallInv
  <1>5. /\ event \in Nat /\ event > processed /\ processed' = event
        /\ reply = event /\ processed \in Nat /\ latestRevision \in Nat
    BY DEF CallInv, RoutedInv, Prepare, IsFresh, IsValid
  <1>6. \A words, r : IsProjection(words, r)' <=> IsProjection(words, r)
    BY <1>1 DEF IsProjection
  <1>7. CASE projections[reply] = {}
    <2>1. routed' = routed
      BY <1>7 DEF Prepare
    <2>2. \A j \in 1 .. Len(routed) : routed[j].revision <= event
      BY <1>5 DEF CallInv, RoutedInv
    <2>3. RoutedInv'
      BY <1>1, <1>5, <1>6, <2>1, <2>2 DEF CallInv, RoutedInv
    <2>. QED  BY <1>2, <1>3, <1>4, <2>3 DEF CallInv
  <1>8. CASE projections[reply] # {}
    <2> DEFINE e == [revision |-> event, words |-> projections[reply]]
    <2>1. routed' = Append(routed, e)
      BY <1>8 DEF Prepare
    <2>2. e.revision = event /\ IsProjection(e.words, event)
      BY <1>5 DEF CallInv, OutcomesInv
    <2> HIDE DEF e
    <2>3. PICK V : routed \in Seq(V)
      BY DEF CallInv, RoutedInv
    <2>4. /\ Len(routed) \in Nat /\ routed' \in Seq(V \cup {e})
          /\ Len(routed') = Len(routed) + 1 /\ routed'[Len(routed) + 1] = e
          /\ \A j \in 1 .. Len(routed) : routed'[j] = routed[j]
      BY <2>1, <2>3
    <2>5. ASSUME NEW j \in 1 .. Len(routed'), NEW p, p = routed'[j]
          PROVE  /\ p.revision \in Nat /\ p.revision <= event
                 /\ j \in 1 .. Len(routed) => p.revision < event
                 /\ IsProjection(p.words, p.revision)
      <3>1. CASE j \in 1 .. Len(routed)
        <4>1. /\ p.revision \in Nat /\ p.revision <= processed
              /\ IsProjection(p.words, p.revision)
          BY <2>4, <2>5, <3>1 DEF CallInv, RoutedInv
        <4>. QED  BY <1>5, <4>1
      <3>2. CASE j = Len(routed) + 1
        BY <1>5, <2>2, <2>4, <2>5, <3>2
      <3>. QED  BY <2>4, <3>1, <3>2
    <2>6. ASSUME NEW j \in 1 .. Len(routed')
          PROVE  /\ routed'[j].revision \in Nat /\ routed'[j].revision <= processed'
                 /\ IsProjection(routed[j].words, routed[j].revision)'
      BY <1>5, <1>6, <2>5
    <2>7. ASSUME NEW i \in 1 .. Len(routed'), NEW j \in 1 .. Len(routed'), i < j
          PROVE  routed'[i].revision < routed'[j].revision
      <3>1. i \in 1 .. Len(routed)
        BY <2>4, <2>7
      <3>2. CASE j \in 1 .. Len(routed)
        BY <2>4, <2>7, <3>1, <3>2 DEF CallInv, RoutedInv
      <3>3. CASE j = Len(routed) + 1
        BY <2>2, <2>4, <2>5, <3>1, <3>3
      <3>. QED  BY <2>4, <3>2, <3>3
    <2>8. RoutedInv'
      BY <1>1, <1>5, <2>4, <2>6, <2>7 DEF RoutedInv
    <2>. QED  BY <1>2, <1>3, <1>4, <2>8 DEF CallInv
  <1>. QED  BY <1>7, <1>8

LEMMA RejectKeeps ==
    ASSUME CallInv, UNCHANGED <<conversation, tracker, checkpoint, stage, request,
                                accepted, projections, latestRevision, processed, routed>>
    PROVE  CallInv'
  <1>1. TrackInv'
    BY RejectTrack DEF CallInv
  <1>2. WordsInv'
    BY DEF CallInv, WordsInv, AreHeard, Speech
  <1>3. OutcomesInv'
    BY OutcomesUntouched DEF CallInv
  <1>4. RoutedInv'
    BY RoutedUntouched DEF CallInv, RoutedInv
  <1>. QED  BY <1>1, <1>2, <1>3, <1>4 DEF CallInv

LEMMA CallStepKeeps ==
    ASSUME CallInv, [CallNext]_callVars
    PROVE  CallInv'
  <1>1. CASE \E r \in Ranges, doubled, isNew \in BOOLEAN :
                Compose(r, doubled, isNew)
    BY <1>1, ComposeKeeps
  <1>2. CASE \E r \in Ranges : ComposeRejected(r)
    BY <1>2, RejectKeeps DEF ComposeRejected
  <1>3. CASE Diarize \/ DiarizeOneTooMany \/ Track
    BY <1>3, StageKeeps
  <1>4. CASE DiarizeFails \/ TrackFails \/ AttributeFails
    BY <1>4, FailKeeps DEF DiarizeFails, TrackFails, AttributeFails
  <1>5. CASE Attribute
    BY <1>5, AttributeKeeps
  <1>6. CASE \E event \in 1 .. latestRevision, reply \in DOMAIN projections :
                Prepare(event, reply)
    BY <1>6, PrepareKeeps
  <1>7. CASE UNCHANGED callVars
    BY <1>7, RejectKeeps DEF callVars
  <1>. QED  BY <1>1, <1>2, <1>3, <1>4, <1>5, <1>6, <1>7 DEF CallNext

\* The invariant implies that speakers keep their identity ...
LEMMA InvKeepsIdentity ==
    ASSUME TrackInv
    PROVE  SpeakersKeepTheirIdentity
  <1> DEFINE id(k, p) == accepted[k].ids[accepted[k].names[p]]
  <1>0. \A k \in 1 .. Len(accepted) :
           /\ IsDiarized(accepted[k], accepted[k].names) /\ Distinct(accepted[k])
           /\ DOMAIN accepted[k].ids = Locals(accepted[k].turns)
    BY DEF TrackInv, HistoryInv, IsTaken
  <1>1. ASSUME NEW k \in 1 .. Len(accepted) - 1, NEW p \in Persons,
               NEW u \in DOMAIN conversation.speech,
               Covers(accepted[k], u), Covers(accepted[k + 1], u),
               conversation.speech[u] = {p}
        PROVE  id(k, p) = id(k + 1, p)
    <2>1. PICK V : accepted \in Seq(V)
      BY DEF TrackInv, HistoryInv
    <2>2. k \in 1 .. Len(accepted) /\ k + 1 \in 1 .. Len(accepted)
      BY <2>1
    <2>3. u \in Nat
      BY ConversationsAssumption DEF TrackInv, Held, IsConversation
    <2>4. /\ At(accepted[k], u) = {id(k, q) : q \in Speech(u)}
          /\ At(accepted[k + 1], u) = {id(k + 1, q) : q \in Speech(u)}
      <3>1. ASSUME NEW w, NEW names, IsDiarized(w, names), Covers(w, u)
            PROVE  At(w, u) = {w.ids[names[q]] : q \in Speech(u)}
        BY <2>3, <3>1, HeardIn DEF TrackInv
      <3>2. At(accepted[k], u) = {id(k, q) : q \in Speech(u)}
        BY <1>0, <1>1, <2>2, <3>1
      <3>3. At(accepted[k + 1], u) = {id(k + 1, q) : q \in Speech(u)}
        BY <1>0, <1>1, <2>2, <3>1
      <3>. QED  BY <3>2, <3>3
    <2>5. At(accepted[k], u) = At(accepted[k + 1], u)
      BY <1>1, <2>3 DEF TrackInv, HistoryInv, Agree
    <2>6. Speech(u) = {p}
      BY <1>1 DEF Speech
    <2>7. {id(k, q) : q \in Speech(u)} = {id(k, p)}
          /\ {id(k + 1, q) : q \in Speech(u)} = {id(k + 1, p)}
      BY <2>6
    <2> HIDE DEF id
    <2>. QED  BY <2>4, <2>5, <2>7
  <1>2. ASSUME NEW k \in DOMAIN accepted,
               \A p \in Persons : accepted[k].names[p] \in DOMAIN accepted[k].ids
        PROVE  id(k, "agent") # id(k, "customer")
    <2>1. PICK V : accepted \in Seq(V)
      BY DEF TrackInv, HistoryInv
    <2>2. k \in 1 .. Len(accepted)
      BY <2>1
    <2>3. accepted[k].names["agent"] # accepted[k].names["customer"]
      BY <1>0, <2>2 DEF IsDiarized, Naming
    <2>. QED  BY <1>0, <1>2, <2>2, <2>3 DEF Distinct, Persons
  <1>. QED  BY <1>1, <1>2 DEF SpeakersKeepTheirIdentity

\* ... and that only customer speech is routed.
LEMMA InvRoutes ==
    ASSUME CallInv
    PROVE  OnlyCustomerSpeechIsRouted
  <1>1. PICK V : routed \in Seq(V)
    BY DEF CallInv, RoutedInv
  <1>2. PICK U : accepted \in Seq(U)
    BY DEF CallInv, TrackInv, HistoryInv
  <1>3. DOMAIN routed = 1 .. Len(routed)
    BY <1>1
  <1>4. ASSUME NEW k \in DOMAIN routed
        PROVE  \E o \in Range(accepted) :
                  /\ o.revision = routed[k].revision
                  /\ routed[k].words \subseteq o.words
                  /\ Misleading(o) \/ \A w \in routed[k].words : w.by = "customer"
    <2>1. IsProjection(routed[k].words, routed[k].revision)
      BY <1>3 DEF CallInv, RoutedInv
    <2>2. PICK i \in 1 .. Len(accepted) :
             /\ accepted[i].revision = routed[k].revision
             /\ routed[k].words = CustomerWords(accepted[i].words, accepted[i].roles)
      BY <2>1 DEF IsProjection
    <2>3. Honest(accepted[i])
      BY DEF CallInv, OutcomesInv
    <2>4. accepted[i] \in Range(accepted)
      BY <1>2 DEF Range
    <2>5. routed[k].words \subseteq accepted[i].words
      BY <2>2 DEF CustomerWords
    <2>. QED  BY <2>2, <2>3, <2>4, <2>5 DEF Honest
  <1>5. \A j, k \in DOMAIN routed : j < k => routed[j].revision < routed[k].revision
    BY <1>3 DEF CallInv, RoutedInv
  <1>. QED  BY <1>4, <1>5 DEF OnlyCustomerSpeechIsRouted

\* In every reachable state of a call the tracker, the running composition,
\* the outcomes and what was routed are in step.
THEOREM CallInvariant == CallSpec => []CallInv
  <1>1. CallInit => CallInv
    BY InitCall
  <1>2. CallInv /\ [CallNext]_callVars => CallInv'
    BY CallStepKeeps
  <1>. QED  BY <1>1, <1>2, PTL DEF CallSpec

\* A composition that failed at any stage left nothing in the tracker: its
\* state is what the accepted windows alone build (checkpoint and restore).
THEOREM NoTrace == CallSpec => []FailuresLeaveNoTrace
  <1>1. CallInv => FailuresLeaveNoTrace
    BY DEF CallInv, TrackInv, StageInv, FailuresLeaveNoTrace, Past
  <1>. QED  BY <1>1, CallInvariant, PTL

\* Whoever speaks alone in the time two successive windows share is the same
\* speaker of the call in both, and two people are never one speaker.
THEOREM IdentityKept == CallSpec => []SpeakersKeepTheirIdentity
  <1>1. CallInv => SpeakersKeepTheirIdentity
    BY InvKeepsIdentity DEF CallInv
  <1>. QED  BY <1>1, CallInvariant, PTL

\* Unless the phrases mislead, only the customer's words are routed, each
\* revision at most once and in order.
THEOREM CustomerOnly == CallSpec => []OnlyCustomerSpeechIsRouted
  <1>. QED  BY InvRoutes, CallInvariant, PTL

-----------------------------------------------------------------------------
(* RagBackground. *)

Pending == {"queued", "running", "returned", "cancelled"}

\* Who leads a start attempt, and whether it is failed.
StartInv ==
    /\ StartIsLed
    /\ attempt = "failed" <=> \E c \in Callers : caller[c] = "clearing"

\* What the books say of the life of each request.
BooksInv ==
    /\ ~closed => \A r \in Requests : r \in registered <=> future[r] \in Pending
    /\ \A r \in completions : future[r] = "settled"
    /\ ~closed => \A r \in Requests :
                    future[r] # "none" /\ r \notin submitted => r[2] < revision[r[1]]
    /\ OnlyCurrentIsKept
    /\ ClosedHoldsNothing

\* How often a request was run and delivered, by the state of its future.
RunsInv ==
    \A r \in Requests :
        /\ future[r] \in {"none", "queued", "cancelled"} => runs[r] = 0
        /\ future[r] \in {"running", "returned"} => runs[r] = 1
        /\ runs[r] <= 1
        /\ delivered[r] <= runs[r]
        /\ future[r] # "settled" \/ r \in completions => delivered[r] = 0
        /\ r \in completions => runs[r] = 1

CountInv ==
    /\ IsFiniteSet(registered) /\ IsFiniteSet(completions)
    /\ ReservationsMatch

IInv == TypeOK /\ StartInv /\ BooksInv /\ RunsInv /\ CountInv

-----------------------------------------------------------------------------

\* What a step outside start() does to the threads inside it: nothing.
LEMMA StartUntouched ==
    ASSUME StartInv, UNCHANGED <<caller, attempt>>
    PROVE  StartInv'
BY DEF StartInv, StartIsLed

\* A step inside start() leaves the books alone; only FinishStart opens the
\* pool, and not of a closed manager.
LEMMA BooksUntouched ==
    ASSUME BooksInv, RunsInv, CountInv,
           UNCHANGED <<closed, books, future, toCancel, history>>,
           closed => executor' = executor
    PROVE  BooksInv' /\ RunsInv' /\ CountInv'
<1>1. BooksInv'
  BY DEF BooksInv, OnlyCurrentIsKept, ClosedHoldsNothing, Current, books
<1>2. RunsInv'
  BY DEF RunsInv, books, history
<1>3. CountInv'
  BY DEF CountInv, ReservationsMatch, books
<1> QED
  BY <1>1, <1>2, <1>3

\* The initial states satisfy the invariant.
LEMMA InitHolds == Init => IInv
<1> SUFFICES ASSUME Init PROVE IInv
  OBVIOUS
<1>1. TypeOK
  BY ManagerAssumption DEF Init, TypeOK, CallerSteps, FutureStates, Answers,
     Revisions, Unannounced
<1>2. StartInv
  BY DEF Init, StartInv, StartIsLed
<1>3. BooksInv
  BY DEF Init, BooksInv, OnlyCurrentIsKept, ClosedHoldsNothing, Pending
<1>4. RunsInv
  BY DEF Init, RunsInv
<1>5. CountInv
  BY FS_EmptySet, ManagerAssumption DEF Init, CountInv, ReservationsMatch
<1> QED
  BY <1>1, <1>2, <1>3, <1>4, <1>5 DEF IInv

-----------------------------------------------------------------------------
(* The steps inside start() *)

\* The background manager, step by step.
LEMMA StartSteps ==
    ASSUME IInv, NEW c \in Callers, EnterStart(c) \/ StartStep(c)
    PROVE  IInv'
<1> USE DEF IInv
<1>1. CASE EnterStart(c)
  <2>1. TypeOK'
    BY <1>1 DEF TypeOK, EnterStart, books, history, CallerSteps
  <2>2. StartInv'
    BY <1>1 DEF TypeOK, EnterStart, StartInv, StartIsLed
  <2>3. BooksInv' /\ RunsInv' /\ CountInv'
    BY <1>1, BooksUntouched DEF EnterStart
  <2> QED
    BY <2>1, <2>2, <2>3
<1>2. CASE PrepareFails(c)
  <2>1. caller' \in [Callers -> CallerSteps]
    BY <1>2 DEF TypeOK, PrepareFails, CallerSteps
  <2>2. TypeOK'
    BY <1>2, <2>1 DEF TypeOK, PrepareFails, books, history
  <2>3. StartInv'
    BY <1>2 DEF TypeOK, PrepareFails, StartInv, StartIsLed
  <2>4. BooksInv' /\ RunsInv' /\ CountInv'
    BY <1>2, BooksUntouched DEF PrepareFails
  <2> QED
    BY <2>2, <2>3, <2>4
<1>3. CASE ClearAttempt(c)
  <2>1. TypeOK'
    BY <1>3 DEF TypeOK, ClearAttempt, books, history, CallerSteps
  <2>2. StartInv'
    BY <1>3 DEF TypeOK, ClearAttempt, StartInv, StartIsLed
  <2>3. BooksInv' /\ RunsInv' /\ CountInv'
    BY <1>3, BooksUntouched DEF ClearAttempt
  <2> QED
    BY <2>1, <2>2, <2>3
<1>4. CASE FinishStart(c)
  <2>1. TypeOK'
    BY <1>4 DEF TypeOK, FinishStart, Verdict, books, history, CallerSteps
  <2>2. StartInv'
    BY <1>4 DEF TypeOK, FinishStart, Verdict, StartInv, StartIsLed
  <2>3. BooksInv' /\ RunsInv' /\ CountInv'
    BY <1>4, BooksUntouched DEF FinishStart
  <2> QED
    BY <2>1, <2>2, <2>3
<1> QED
  BY <1>1, <1>2, <1>3, <1>4 DEF StartStep

-----------------------------------------------------------------------------
(* Announcing, submitting, polling and closing *)

LEMMA AnnounceStep ==
    ASSUME IInv, NEW s \in Scopes, NEW rev \in Revisions, Announce(s, rev)
    PROVE  IInv'
<1> USE DEF IInv
<1> DEFINE stale == {r \in Requests : r[1] = s /\ r[2] < rev}
<1>1. StartInv'
  BY StartUntouched DEF Announce, starting
<1>2. CASE UNCHANGED <<revision, completions, reservations, submitted, toCancel>>
  <2>1. TypeOK'
    BY <1>2 DEF TypeOK, Announce, starting, history, Answers
  <2>2. BooksInv' /\ RunsInv' /\ CountInv'
    BY <1>2, BooksUntouched DEF Announce, starting, books
  <2> QED
    BY <1>1, <2>1, <2>2
<1>3. CASE ~closed /\ rev > revision[s] /\ Supersede(s, rev) /\ answer' = "announced"
  <2>1. /\ completions' = completions \ stale
        /\ submitted' = submitted \ stale
        /\ toCancel' = toCancel \cup (registered \cap stale)
        /\ reservations' = reservations - Cardinality(completions \cap stale)
        /\ revision' = [revision EXCEPT ![s] = rev]
        /\ UNCHANGED <<starting, closed, registered, future, history>>
    BY <1>3 DEF Supersede, Announce
  <2>2. \A r \in Requests : r[1] \in Scopes /\ r[2] \in Int /\ revision[r[1]] \in Int
    BY DEF TypeOK, Requests, Revisions, Unannounced
  <2>3. \A r \in Requests : revision'[r[1]] = IF r[1] = s THEN rev ELSE revision[r[1]]
    BY <2>1, <2>2 DEF TypeOK
  <2>4. BooksInv'
    <3>1. (~closed => \A r \in Requests : r \in registered <=> future[r] \in Pending)'
      BY <2>1 DEF BooksInv
    <3>2. (\A r \in completions : future[r] = "settled")'
      BY <2>1 DEF BooksInv
    <3>3. (~closed => \A r \in Requests :
              future[r] # "none" /\ r \notin submitted => r[2] < revision[r[1]])'
      BY <1>3, <2>1, <2>2, <2>3 DEF BooksInv, Revisions
    <3>4. (\A r \in completions \cup submitted : Current(r))'
      BY <1>3, <2>1, <2>2, <2>3 DEF BooksInv, OnlyCurrentIsKept, Current, TypeOK
    <3>5. (\A r \in registered \ submitted : future[r] = "queued" => r \in toCancel)'
      BY <2>1 DEF BooksInv, OnlyCurrentIsKept
    <3>6. ClosedHoldsNothing'
      BY <1>3, <2>1 DEF ClosedHoldsNothing
    <3> QED
      BY <3>1, <3>2, <3>3, <3>4, <3>5, <3>6 DEF BooksInv, OnlyCurrentIsKept
  <2>5. RunsInv'
    BY <2>1 DEF RunsInv, history
  <2>6. CountInv'
    <3>1. /\ IsFiniteSet(completions')
          /\ Cardinality(completions') =
                Cardinality(completions) - Cardinality(completions \cap stale)
      BY <2>1, FS_Difference DEF CountInv
    <3>2. /\ Cardinality(registered) \in Nat /\ Cardinality(completions) \in Nat
          /\ Cardinality(completions \cap stale) \in Nat
      BY FS_CardinalityType, FS_Intersection DEF CountInv
    <3> QED
      BY <2>1, <3>1, <3>2, ManagerAssumption DEF CountInv, ReservationsMatch, TypeOK
  <2>7. TypeOK'
    <3>1. reservations' \in Nat
      BY <2>6, FS_CardinalityType DEF CountInv, ReservationsMatch
    <3> QED
      BY <1>3, <2>1, <3>1 DEF TypeOK, starting, history, Answers
  <2> QED
    BY <1>1, <2>4, <2>5, <2>6, <2>7
<1> QED
  BY <1>2, <1>3 DEF Announce

\* SubmitReason is defined by a complete list of exclusive cases.
LEMMA ReasonOfSubmit ==
    ASSUME TypeOK, NEW r \in Requests
    PROVE  /\ SubmitReason(r) \in Answers
           /\ SubmitReason(r) = "accepted" =>
                 /\ ~closed /\ Current(r) /\ r \notin submitted
                 /\ reservations < Capacity
<1>1. closed \/ (~closed /\ executor = "none") \/ (~closed /\ executor = "open")
  BY DEF TypeOK
<1>2. reservations >= Capacity \/ reservations < Capacity
  BY ManagerAssumption DEF TypeOK
<1>3. CASE closed
  BY <1>3 DEF SubmitReason, Answers
<1>4. CASE ~closed /\ executor = "none"
  BY <1>4 DEF SubmitReason, Answers
<1>5. CASE ~closed /\ executor = "open"
  <2>1. CASE ~Current(r) \/ r \in submitted
    BY <1>5, <2>1 DEF SubmitReason, Answers
  <2>2. CASE Current(r) /\ r \notin submitted
    BY <1>2, <1>5, <2>2, ManagerAssumption DEF SubmitReason, Answers, TypeOK
  <2> QED
    BY <2>1, <2>2
<1> QED
  BY <1>1, <1>3, <1>4, <1>5

LEMMA SubmitStep ==
    ASSUME IInv, NEW r \in Requests, Submit(r)
    PROVE  IInv'
<1> USE DEF IInv
<1>1. StartInv'
  BY StartUntouched DEF Submit, starting
<1>2. CASE UNCHANGED <<reservations, submitted, registered, future>>
  <2>1. answer' \in Answers
    BY ReasonOfSubmit DEF Submit, Answers
  <2>2. TypeOK'
    BY <1>2, <2>1 DEF TypeOK, Submit, starting, history
  <2>3. BooksInv' /\ RunsInv' /\ CountInv'
    BY <1>2, BooksUntouched DEF Submit, starting, books
  <2> QED
    BY <1>1, <2>2, <2>3
<1>3. CASE /\ SubmitReason(r) = "accepted" /\ answer' = "accepted"
           /\ reservations' = reservations + 1
           /\ submitted' = submitted \cup {r}
           /\ registered' = registered \cup {r}
           /\ future' = [future EXCEPT ![r] = "queued"]
  <2>1. ~closed /\ Current(r) /\ r \notin submitted /\ reservations < Capacity
    BY <1>3, ReasonOfSubmit
  <2>2. UNCHANGED <<starting, closed, revision, completions, toCancel, history>>
    BY DEF Submit
  <2>3. revision[r[1]] \in Int /\ r[2] \in Int
    BY DEF TypeOK, Requests, Revisions, Unannounced
  <2>4. future[r] = "none"
    BY <2>1, <2>3 DEF BooksInv, Current, TypeOK
  <2>5. r \notin registered /\ r \notin completions
    BY <2>1, <2>4 DEF BooksInv, Pending
  <2>6. \A q \in Requests : future'[q] = IF q = r THEN "queued" ELSE future[q]
    BY <1>3 DEF TypeOK
  <2>7. BooksInv'
    <3>1. (~closed => \A q \in Requests : q \in registered <=> future[q] \in Pending)'
      BY <1>3, <2>1, <2>2, <2>6 DEF BooksInv, Pending
    <3>2. (\A q \in completions : future[q] = "settled")'
      BY <2>2, <2>5, <2>6 DEF BooksInv, TypeOK
    <3>3. (~closed => \A q \in Requests :
              future[q] # "none" /\ q \notin submitted => q[2] < revision[q[1]])'
      BY <1>3, <2>1, <2>2, <2>6 DEF BooksInv
    <3>4. (\A q \in completions \cup submitted : Current(q))'
      BY <1>3, <2>1, <2>2 DEF BooksInv, OnlyCurrentIsKept, Current
    <3>5. (\A q \in registered \ submitted : future[q] = "queued" => q \in toCancel)'
      BY <1>3, <2>2, <2>6 DEF BooksInv, OnlyCurrentIsKept, TypeOK
    <3>6. ClosedHoldsNothing'
      BY <2>1, <2>2 DEF ClosedHoldsNothing
    <3> QED
      BY <3>1, <3>2, <3>3, <3>4, <3>5, <3>6 DEF BooksInv, OnlyCurrentIsKept
  <2>8. RunsInv'
    BY <2>2, <2>4, <2>5, <2>6 DEF RunsInv, history
  <2>9. CountInv'
    <3>1. /\ IsFiniteSet(registered')
          /\ Cardinality(registered') = Cardinality(registered) + 1
      BY <1>3, <2>5, FS_AddElement DEF CountInv
    <3>2. Cardinality(registered) \in Nat /\ Cardinality(completions) \in Nat
      BY FS_CardinalityType DEF CountInv
    <3>3. (registered \cap completions = {})'
      BY <1>3, <2>2, <2>5 DEF CountInv, ReservationsMatch
    <3> QED
      BY <1>3, <2>1, <2>2, <3>1, <3>2, <3>3, ManagerAssumption
      DEF CountInv, ReservationsMatch
  <2>10. TypeOK'
    BY <1>3, <2>2 DEF TypeOK, starting, history, Answers, FutureStates
  <2> QED
    BY <1>1, <2>7, <2>8, <2>9, <2>10
<1> QED
  BY <1>2, <1>3 DEF Submit

LEMMA PollStep ==
    ASSUME IInv, NEW r \in Requests, Poll(r)
    PROVE  IInv'
<1> USE DEF IInv
<1>1. StartInv'
  BY StartUntouched DEF Poll, starting
<1>2. CASE UNCHANGED <<completions, reservations, delivered>> /\ answer' = "nothing"
  <2>1. TypeOK'
    BY <1>2 DEF TypeOK, Poll, starting, Answers
  <2>2. BooksInv' /\ RunsInv' /\ CountInv'
    BY <1>2, BooksUntouched DEF Poll, starting, books, history
  <2> QED
    BY <1>1, <2>1, <2>2
<1>3. CASE /\ ~closed /\ r \in completions
           /\ completions' = completions \ {r}
           /\ reservations' = reservations - 1
           /\ delivered' = [delivered EXCEPT ![r] = @ + 1]
           /\ answer' = "completion"
  <2>1. UNCHANGED <<starting, closed, revision, submitted, registered, future,
                    toCancel, runs>>
    BY DEF Poll
  <2>2. BooksInv'
    BY <1>3, <2>1 DEF BooksInv, OnlyCurrentIsKept, ClosedHoldsNothing, Current
  <2>3. RunsInv'
    <3>1. \A q \in Requests : delivered'[q] = IF q = r THEN delivered[q] + 1
                                                      ELSE delivered[q]
      BY <1>3 DEF TypeOK
    <3>2. delivered[r] = 0 /\ runs[r] = 1 /\ future[r] = "settled"
      BY <1>3 DEF RunsInv, BooksInv
    <3> QED
      BY <1>3, <2>1, <3>1, <3>2 DEF RunsInv
  <2>4. CountInv'
    <3>1. /\ IsFiniteSet(completions')
          /\ Cardinality(completions') = Cardinality(completions) - 1
      BY <1>3, FS_RemoveElement DEF CountInv
    <3>2. Cardinality(registered) \in Nat /\ Cardinality(completions) \in Nat
      BY FS_CardinalityType DEF CountInv
    <3> QED
      BY <1>3, <2>1, <3>1, <3>2, ManagerAssumption DEF CountInv, ReservationsMatch
  <2>5. TypeOK'
    <3>1. reservations' \in Nat
      BY <2>4, FS_CardinalityType DEF CountInv, ReservationsMatch
    <3>2. delivered' \in [Requests -> Nat]
      BY <1>3 DEF TypeOK
    <3> QED
      BY <1>3, <2>1, <3>1, <3>2 DEF TypeOK, starting, Answers
  <2> QED
    BY <1>1, <2>2, <2>3, <2>4, <2>5
<1> QED
  BY <1>2, <1>3 DEF Poll

LEMMA CloseStep ==
    ASSUME IInv, Close
    PROVE  IInv'
<1> USE DEF IInv
<1>1. TypeOK'
  BY DEF TypeOK, Close, Revisions, Unannounced, history
<1>2. StartInv'
  BY StartUntouched DEF Close
<1>3. BooksInv'
  BY DEF BooksInv, Close, OnlyCurrentIsKept, ClosedHoldsNothing
<1>4. RunsInv'
  BY DEF RunsInv, Close, history
<1>5. CountInv'
  BY FS_EmptySet, ManagerAssumption DEF CountInv, ReservationsMatch, Close
<1> QED
  BY <1>1, <1>2, <1>3, <1>4, <1>5

-----------------------------------------------------------------------------
(* The pool and the callbacks *)

LEMMA CancelStep ==
    ASSUME IInv, NEW r \in Requests, CancelFuture(r)
    PROVE  IInv'
<1> USE DEF IInv
<1>1. UNCHANGED <<starting, closed, books, answer, history>>
  BY DEF CancelFuture
<1>2. StartInv'
  BY <1>1, StartUntouched DEF starting
<1>3. \A q \in Requests : future'[q] = IF q = r /\ future[q] = "queued"
                                       THEN "cancelled" ELSE future[q]
  BY DEF CancelFuture, TypeOK
<1>4. BooksInv'
  BY <1>1, <1>3 DEF BooksInv, CancelFuture, OnlyCurrentIsKept, ClosedHoldsNothing,
     Current, Pending, books, starting, TypeOK
<1>5. RunsInv'
  BY <1>1, <1>3 DEF RunsInv, books, history
<1>6. CountInv'
  BY <1>1 DEF CountInv, ReservationsMatch, books
<1>7. TypeOK'
  BY <1>1 DEF TypeOK, CancelFuture, starting, books, history, FutureStates
<1> QED
  BY <1>2, <1>4, <1>5, <1>6, <1>7

LEMMA RunSteps ==
    ASSUME IInv, NEW r \in Requests, RunStarts(r) \/ RunReturns(r)
    PROVE  IInv'
<1> USE DEF IInv
<1>1. UNCHANGED <<starting, closed, books, toCancel, answer, delivered>>
  BY DEF RunStarts, RunReturns, history
<1>2. StartInv'
  BY <1>1, StartUntouched DEF starting
<1>3. \/ /\ future[r] = "queued"
         /\ \A q \in Requests : future'[q] = IF q = r THEN "running" ELSE future[q]
         /\ \A q \in Requests : runs'[q] = IF q = r THEN runs[q] + 1 ELSE runs[q]
      \/ /\ future[r] = "running"
         /\ \A q \in Requests : future'[q] = IF q = r THEN "returned" ELSE future[q]
         /\ runs' = runs
  BY DEF RunStarts, RunReturns, TypeOK, history
<1>4. BooksInv'
  BY <1>1, <1>3 DEF BooksInv, OnlyCurrentIsKept, ClosedHoldsNothing, Current,
     Pending, books, starting, TypeOK
<1>5. RunsInv'
  BY <1>1, <1>3 DEF RunsInv, books, BooksInv
<1>6. CountInv'
  BY <1>1 DEF CountInv, ReservationsMatch, books
<1>7. TypeOK'
  <2>1. future' \in [Requests -> FutureStates] /\ runs' \in [Requests -> Nat]
    BY DEF TypeOK, RunStarts, RunReturns, FutureStates, history
  <2> QED
    BY <1>1, <2>1 DEF TypeOK, starting, books
<1> QED
  BY <1>2, <1>4, <1>5, <1>6, <1>7

LEMMA CompleteStep ==
    ASSUME IInv, NEW r \in Requests, Complete(r)
    PROVE  IInv'
<1> USE DEF IInv
<1>1. UNCHANGED <<starting, closed, revision, submitted, toCancel, answer, history>>
  BY DEF Complete
<1>2. StartInv'
  BY <1>1, StartUntouched DEF starting
<1>3. \A q \in Requests : future'[q] = IF q = r THEN "settled" ELSE future[q]
  BY DEF Complete, TypeOK
<1>4. future[r] \in {"returned", "cancelled"}
  BY DEF Complete
<1>5. CASE closed
  <2>1. UNCHANGED <<registered, completions, reservations>>
    BY <1>5 DEF Complete
  <2>2. BooksInv'
    BY <1>1, <1>3, <1>5, <2>1
    DEF BooksInv, OnlyCurrentIsKept, ClosedHoldsNothing, starting, Current
  <2>3. RunsInv'
    BY <1>1, <1>3, <1>4, <2>1 DEF RunsInv, history
  <2>4. CountInv'
    BY <2>1 DEF CountInv, ReservationsMatch
  <2>5. TypeOK'
    BY <1>1, <2>1 DEF TypeOK, Complete, starting, history, FutureStates
  <2> QED
    BY <1>2, <2>2, <2>3, <2>4, <2>5
<1>6. CASE ~closed
  <2>1. r \in registered /\ r \notin completions
    BY <1>4, <1>6 DEF BooksInv, Pending
  <2>2. /\ registered' = registered \ {r}
        /\ \/ completions' = completions /\ reservations' = reservations - 1
           \/ /\ completions' = completions \cup {r}
              /\ reservations' = reservations
              /\ Current(r) /\ future[r] = "returned"
    BY <1>4, <1>6 DEF Complete
  <2>3. BooksInv'
    BY <1>1, <1>3, <1>6, <2>1, <2>2
    DEF BooksInv, OnlyCurrentIsKept, ClosedHoldsNothing, Current, Pending, TypeOK
  <2>4. RunsInv'
    BY <1>1, <1>3, <1>4, <2>2 DEF RunsInv, history
  <2>5. CountInv'
    <3>1. /\ IsFiniteSet(registered')
          /\ Cardinality(registered') = Cardinality(registered) - 1
      BY <2>1, <2>2, FS_RemoveElement DEF CountInv
    <3>2. /\ IsFiniteSet(completions \cup {r})
          /\ Cardinality(completions \cup {r}) = Cardinality(completions) + 1
      BY <2>1, FS_AddElement DEF CountInv
    <3>3. Cardinality(registered) \in Nat /\ Cardinality(completions) \in Nat
      BY FS_CardinalityType DEF CountInv
    <3>4. (registered \cap completions = {})'
      BY <2>1, <2>2 DEF CountInv, ReservationsMatch
    <3>5. CASE completions' = completions /\ reservations' = reservations - 1
      BY <3>1, <3>3, <3>4, <3>5, ManagerAssumption DEF CountInv, ReservationsMatch
    <3>6. CASE completions' = completions \cup {r} /\ reservations' = reservations
      <4>1. IsFiniteSet(completions')
        BY <3>2, <3>6
      <4>2. reservations' = Cardinality(registered') + Cardinality(completions')
        BY <3>1, <3>2, <3>3, <3>6 DEF CountInv, ReservationsMatch
      <4> QED
        BY <3>1, <3>4, <3>6, <4>1, <4>2 DEF CountInv, ReservationsMatch
    <3> QED
      BY <2>2, <3>5, <3>6
  <2>6. TypeOK'
    <3>1. reservations' \in Nat
      BY <2>5, FS_CardinalityType DEF CountInv, ReservationsMatch
    <3> QED
      BY <1>1, <2>2, <3>1 DEF TypeOK, Complete, starting, history, FutureStates
  <2> QED
    BY <1>2, <2>3, <2>4, <2>5, <2>6
<1> QED
  BY <1>5, <1>6

-----------------------------------------------------------------------------

\* Every step of the manager keeps its invariant.
LEMMA StepKeeps == IInv /\ [Next]_vars => IInv'
<1> SUFFICES ASSUME IInv, [Next]_vars PROVE IInv'
  OBVIOUS
<1>1. ASSUME NEW c \in Callers, EnterStart(c) \/ StartStep(c) PROVE IInv'
  BY <1>1, StartSteps
<1>2. ASSUME NEW s \in Scopes, NEW rev \in Revisions, Announce(s, rev) PROVE IInv'
  BY <1>2, AnnounceStep
<1>3. ASSUME NEW r \in Requests, Submit(r) PROVE IInv'
  BY <1>3, SubmitStep
<1>4. ASSUME NEW r \in Requests, Poll(r) PROVE IInv'
  BY <1>4, PollStep
<1>5. CASE Close
  BY <1>5, CloseStep
<1>6. ASSUME NEW r \in Requests, FutureStep(r) PROVE IInv'
  BY <1>6, CancelStep, RunSteps, CompleteStep DEF FutureStep
<1>7. CASE UNCHANGED vars
  <2>1. UNCHANGED <<starting, closed, books, future, toCancel, answer, history>>
    BY <1>7 DEF vars
  <2>2. TypeOK'
    BY <2>1 DEF IInv, TypeOK, starting, books, history
  <2>3. StartInv'
    BY <2>1, StartUntouched DEF IInv, starting
  <2>4. BooksInv' /\ RunsInv' /\ CountInv'
    BY <2>1, BooksUntouched DEF IInv, starting
  <2> QED
    BY <2>2, <2>3, <2>4 DEF IInv
<1> QED
  BY <1>1, <1>2, <1>3, <1>4, <1>5, <1>6, <1>7 DEF Next

LEMMA AlwaysIInv == Spec => []IInv
  BY InitHolds, StepKeeps, PTL DEF Spec

-----------------------------------------------------------------------------

\* Every reachable state of the manager is well typed (the fields of
\* BoundedPostgreSQLRAGManager).
THEOREM ManagerTypeCorrect == Spec => []TypeOK
<1>1. IInv => TypeOK
  BY DEF IInv
<1> QED
  BY <1>1, AlwaysIInv, PTL

\* The reservation counter equals what futures and completions hold, and never
\* exceeds the capacity (submit, poll, announce_current_revision, _complete).
THEOREM CapacityIsKept == Spec => []ReservationsMatch
<1>1. IInv => ReservationsMatch
  BY DEF IInv, CountInv
<1> QED
  BY <1>1, AlwaysIInv, PTL

\* Only completions of a scope's newest revision are kept for poll(), and what
\* was superseded in the queue is about to be cancelled.
THEOREM NewestRevisionOnly == Spec => []OnlyCurrentIsKept
<1>1. IInv => OnlyCurrentIsKept
  BY DEF IInv, BooksInv
<1> QED
  BY <1>1, AlwaysIInv, PTL

\* No request is run twice, and none is delivered twice or without a run.
THEOREM RunAndDeliveredOnce == Spec => []AtMostOnce
<1>1. IInv => AtMostOnce
  BY DEF IInv, RunsInv, AtMostOnce
<1> QED
  BY <1>1, AlwaysIInv, PTL

\* close() is final: late starts and late callbacks leave nothing behind.
THEOREM CloseIsFinal == Spec => []ClosedHoldsNothing
<1>1. IInv => ClosedHoldsNothing
  BY DEF IInv, BooksInv
<1> QED
  BY <1>1, AlwaysIInv, PTL

\* start() has one leader at a time, and nobody waits for an attempt that no
\* thread leads.
THEOREM OneLeader == Spec => []StartIsLed
<1>1. IInv => StartIsLed
  BY DEF IInv, StartInv
<1> QED
  BY <1>1, AlwaysIInv, PTL

-----------------------------------------------------------------------------
(* How a call is coached (CoachingCall): records and their fields.          *)

CallFields == {"stable", "partial", "revision", "labels", "detected", "timeline",
               "cards", "active", "history", "shown", "triggered", "coached",
               "classified"}
CoachFields == {"prints", "times", "processed", "external", "provisional",
                "partialKeys"}
BoardFields == {"call", "coach", "displayed", "failed"}

IsCall(c) == c = [f \in CallFields |-> c[f]]
IsCoach(k) == k = [f \in CoachFields |-> k[f]]
IsBoard(b) == b = [f \in BoardFields |-> b[f]]

SameWhatWasSaid(c, d) ==
    d.stable = c.stable /\ d.partial = c.partial /\ d.revision = c.revision
SameLabels(c, d) ==
    d.labels = c.labels /\ d.detected = c.detected /\ d.timeline = c.timeline
SameCards(c, d) ==
    /\ d.cards = c.cards /\ d.active = c.active
    /\ d.history = c.history /\ d.shown = c.shown

\* What the labels of a revision change.
LEMMA RecordFields ==
    ASSUME NEW c, IsCall(c), NEW labels, NEW r
    PROVE  LET d == RecordDetectedLabels(c, labels, r)
           IN  /\ IsCall(d) /\ SameWhatWasSaid(c, d) /\ SameCards(c, d)
               /\ d.labels = c.labels
  <1> DEFINE d == RecordDetectedLabels(c, labels, r)
  <1>1. PICK x, y : d = [[c EXCEPT !.detected = x] EXCEPT !.timeline = y]
    BY DEF RecordDetectedLabels, UpsertDiagnostic
  <1> HIDE DEF d
  <1>2. DOMAIN c = CallFields /\ c = [f \in CallFields |-> c[f]]
    BY DEF IsCall
  <1>3. DOMAIN d = CallFields /\ d = [f \in CallFields |-> d[f]]
    BY <1>1, <1>2
  <1>4. /\ d.stable = c.stable /\ d.partial = c.partial /\ d.revision = c.revision
        /\ d.cards = c.cards /\ d.active = c.active
        /\ d.history = c.history /\ d.shown = c.shown /\ d.labels = c.labels
    BY <1>1, <1>2 DEF CallFields
  <1>. QED  BY <1>3, <1>4 DEF IsCall, SameWhatWasSaid, SameCards, d

\* A confirmed card changes the labels and the last coached revision only
\* (Confirm).
LEMMA ConfirmFields ==
    ASSUME NEW c, IsCall(c), NEW card
    PROVE  LET d == Confirm(c, card)
           IN  /\ IsCall(d) /\ SameWhatWasSaid(c, d) /\ SameCards(c, d)
               /\ d.labels = c.labels
               /\ \/ SameLabels(c, d)
                  \/ LET e == RecordDetectedLabels(c, {card.label}, card.revision)
                     IN  SameLabels(e, d) /\ card.label # NoLabel
  <1> DEFINE d == Confirm(c, card)
             e == IF card.label = NoLabel THEN c
                  ELSE RecordDetectedLabels(c, {card.label}, card.revision)
  <1>1. CASE card.lifecycle # "confirmed"
    BY <1>1 DEF Confirm, SameWhatWasSaid, SameCards, SameLabels
  <1>2. CASE card.lifecycle = "confirmed"
    <2>1. d = [e EXCEPT !.coached = card.revision]
      BY <1>2 DEF Confirm
    <2>2. IsCall(e) /\ SameWhatWasSaid(c, e) /\ SameCards(c, e) /\ e.labels = c.labels
      BY RecordFields DEF SameWhatWasSaid, SameCards
    <2> HIDE DEF e, d
    <2>3. DOMAIN e = CallFields /\ e = [f \in CallFields |-> e[f]]
      BY <2>2 DEF IsCall
    <2>4. IsCall(d)
      BY <2>1, <2>3 DEF IsCall
    <2>5. SameWhatWasSaid(e, d) /\ SameCards(e, d) /\ SameLabels(e, d)
      BY <2>1, <2>3 DEF CallFields, SameWhatWasSaid, SameCards, SameLabels
    <2>6. \/ e = c
          \/ e = RecordDetectedLabels(c, {card.label}, card.revision) /\ card.label # NoLabel
      BY DEF e
    <2>7. SameWhatWasSaid(c, d) /\ SameCards(c, d) /\ d.labels = c.labels
      BY <2>2, <2>5 DEF SameWhatWasSaid, SameCards, SameLabels
    <2>. QED  BY <2>4, <2>5, <2>6, <2>7 DEF d
  <1>. QED  BY <1>1, <1>2

\* The three lists after a card is admitted, and what else changes.
AdmittedLists(c, card) ==
    LET full == Len(c.active) >= MaxActive
        weakest == WeakestCard(c.active)
        room == IF full THEN Without(c.active, weakest.id) ELSE c.active
    IN  [c EXCEPT !.cards = Append(@, card), !.active = Insert(card, room),
                  !.history = IF full THEN Append(@, weakest) ELSE @]

\* Admission changes the three lists and what a confirmed card leaves
\* (admit_coaching_suggestion).
LEMMA AdmitFields ==
    ASSUME NEW c, IsCall(c), NEW card
    PROVE  LET d == AdmitCard(c, card, MaxActive)
               full == Len(c.active) >= MaxActive
               weakest == WeakestCard(c.active)
               room == IF full THEN Without(c.active, weakest.id) ELSE c.active
           IN  /\ IsCall(d) /\ SameWhatWasSaid(c, d) /\ d.labels = c.labels
               /\ d.cards = Append(c.cards, card)
               /\ d.active = Insert(card, room)
               /\ d.history = IF full THEN Append(c.history, weakest) ELSE c.history
               /\ d.shown = c.shown
               /\ \E e : /\ IsCall(e) /\ SameWhatWasSaid(c, e) /\ SameLabels(c, e)
                         /\ d = Confirm(e, card)
  <1> DEFINE e == AdmittedLists(c, card)
             d == AdmitCard(c, card, MaxActive)
             full == Len(c.active) >= MaxActive
             weakest == WeakestCard(c.active)
             room == IF full THEN Without(c.active, weakest.id) ELSE c.active
  <1>1. d = Confirm(e, card)
    BY DEF AdmitCard, AdmittedLists
  <1>2. DOMAIN c = CallFields /\ c = [f \in CallFields |-> c[f]]
    BY DEF IsCall
  <1>3. e = [c EXCEPT !.cards = Append(@, card), !.active = Insert(card, room),
                      !.history = IF full THEN Append(@, weakest) ELSE @]
    BY DEF AdmittedLists
  <1> HIDE DEF e, d, full, weakest, room
  <1>4. IsCall(e)
    BY <1>2, <1>3 DEF IsCall
  <1>5. SameWhatWasSaid(c, e) /\ SameLabels(c, e) /\ e.shown = c.shown
    BY <1>2, <1>3 DEF CallFields, SameWhatWasSaid, SameLabels
  <1>6. /\ e.cards = Append(c.cards, card) /\ e.active = Insert(card, room)
        /\ e.history = IF full THEN Append(c.history, weakest) ELSE c.history
    BY <1>2, <1>3 DEF CallFields
  <1>7. IsCall(d) /\ SameWhatWasSaid(e, d) /\ SameCards(e, d) /\ d.labels = e.labels
    BY <1>1, <1>4, ConfirmFields
  <1>8. SameWhatWasSaid(c, d) /\ d.labels = c.labels
    BY <1>5, <1>7 DEF SameWhatWasSaid, SameLabels
  <1>9. /\ d.cards = e.cards /\ d.active = e.active
        /\ d.history = e.history /\ d.shown = c.shown
    BY <1>5, <1>7 DEF SameCards
  <1>. QED  BY <1>1, <1>4, <1>5, <1>6, <1>7, <1>8, <1>9 DEF d, full, weakest, room

\* A promotion changes two lists and what a confirmed card leaves
\* (update_coaching_suggestion).
LEMMA UpdateFields ==
    ASSUME NEW c, IsCall(c), NEW card
    PROVE  LET d == UpdateCard(c, card)
           IN  /\ IsCall(d) /\ SameWhatWasSaid(c, d) /\ d.labels = c.labels
               /\ d.cards = ReplaceCard(c.cards, card)
               /\ d.active = Insert(card, Without(c.active, card.id))
               /\ d.history = c.history /\ d.shown = c.shown
               /\ \E e : /\ IsCall(e) /\ SameWhatWasSaid(c, e) /\ SameLabels(c, e)
                         /\ d = Confirm(e, card)
  <1> DEFINE e == [c EXCEPT !.active = Insert(card, Without(@, card.id)),
                            !.cards = ReplaceCard(@, card)]
             d == UpdateCard(c, card)
  <1>1. d = Confirm(e, card)
    BY DEF UpdateCard
  <1>2. DOMAIN c = CallFields /\ c = [f \in CallFields |-> c[f]]
    BY DEF IsCall
  <1>3. e = [c EXCEPT !.active = Insert(card, Without(@, card.id)),
                      !.cards = ReplaceCard(@, card)]
    OBVIOUS
  <1> HIDE DEF e, d
  <1>4. IsCall(e)
    BY <1>2, <1>3 DEF IsCall
  <1>5. /\ SameWhatWasSaid(c, e) /\ SameLabels(c, e)
        /\ e.shown = c.shown /\ e.history = c.history
    BY <1>2, <1>3 DEF CallFields, SameWhatWasSaid, SameLabels
  <1>6. /\ e.cards = ReplaceCard(c.cards, card)
        /\ e.active = Insert(card, Without(c.active, card.id))
    BY <1>2, <1>3 DEF CallFields
  <1>7. IsCall(d) /\ SameWhatWasSaid(e, d) /\ SameCards(e, d) /\ d.labels = e.labels
    BY <1>1, <1>4, ConfirmFields
  <1>8. SameWhatWasSaid(c, d) /\ d.labels = c.labels
    BY <1>5, <1>7 DEF SameWhatWasSaid, SameLabels
  <1>9. /\ d.cards = e.cards /\ d.active = e.active
        /\ d.history = c.history /\ d.shown = c.shown
    BY <1>5, <1>7 DEF SameCards
  <1>. QED  BY <1>1, <1>4, <1>5, <1>6, <1>7, <1>8, <1>9 DEF d

\* A card is withdrawn from wherever it is held.
Shown(c, id) == LET held == IF Holds(c.active, id) THEN c.active ELSE c.cards
                IN  held[PlaceOf(held, id)]

\* A withdrawal changes the three lists only (withdraw_coaching_suggestion).
LEMMA WithdrawFields ==
    ASSUME NEW c, IsCall(c), NEW id, Holds(c.active, id) \/ Holds(c.cards, id)
    PROVE  LET d == WithdrawCard(c, id)
               card == [Shown(c, id) EXCEPT !.lifecycle = "withdrawn"]
           IN  /\ IsCall(d) /\ SameWhatWasSaid(c, d) /\ SameLabels(c, d)
               /\ d.cards = ReplaceCard(c.cards, card)
               /\ d.active = Without(c.active, id)
               /\ d.history = Append(c.history, card) /\ d.shown = c.shown
  <1> DEFINE d == WithdrawCard(c, id)
             card == [Shown(c, id) EXCEPT !.lifecycle = "withdrawn"]
  <1>1. d = [c EXCEPT !.active = Without(@, id), !.cards = ReplaceCard(@, card),
                      !.history = Append(@, card)]
    BY DEF WithdrawCard, Shown
  <1>2. DOMAIN c = CallFields /\ c = [f \in CallFields |-> c[f]]
    BY DEF IsCall
  <1> HIDE DEF d, card
  <1>3. IsCall(d)
    BY <1>1, <1>2 DEF IsCall
  <1>4. SameWhatWasSaid(c, d) /\ SameLabels(c, d) /\ d.shown = c.shown
    BY <1>1, <1>2 DEF CallFields, SameWhatWasSaid, SameLabels
  <1>5. /\ d.cards = ReplaceCard(c.cards, card) /\ d.active = Without(c.active, id)
        /\ d.history = Append(c.history, card)
    BY <1>1, <1>2 DEF CallFields
  <1>. QED  BY <1>3, <1>4, <1>5 DEF d, card

\* Marking a card shown, or the call triggered, changes nothing else.
LEMMA MarkFields ==
    ASSUME NEW c, IsCall(c), NEW id, NEW now
    PROVE  /\ LET d == MarkShown(c, id)
              IN  /\ IsCall(d) /\ SameWhatWasSaid(c, d) /\ SameLabels(c, d)
                  /\ d.cards = c.cards /\ d.active = c.active /\ d.history = c.history
                  /\ d.shown = c.shown \cup {id}
           /\ LET d == MarkTriggered(c, now)
              IN  /\ IsCall(d) /\ SameWhatWasSaid(c, d) /\ SameLabels(c, d)
                  /\ SameCards(c, d)
  <1>1. DOMAIN c = CallFields /\ c = [f \in CallFields |-> c[f]]
    BY DEF IsCall
  <1>2. IsCall(MarkShown(c, id)) /\ IsCall(MarkTriggered(c, now))
    BY <1>1 DEF IsCall, MarkShown, MarkTriggered
  <1>. QED  BY <1>1, <1>2 DEF CallFields, MarkShown, MarkTriggered,
                              SameWhatWasSaid, SameLabels, SameCards
-----------------------------------------------------------------------------
(* Sequences of cards.                                                      *)

IsSeq(s) == s \in Seq(Range(s))

\* A sequence is a function on its places.
LEMMA SeqForm ==
    ASSUME NEW s, IsSeq(s)
    PROVE  /\ Len(s) \in Nat /\ DOMAIN s = 1 .. Len(s)
           /\ s = [i \in 1 .. Len(s) |-> s[i]]
  BY DEF IsSeq

\* A sequence of some values is one of its own values.
LEMMA SeqOfValues ==
    ASSUME NEW V, NEW s \in Seq(V)
    PROVE  IsSeq(s)
  <1>1. DOMAIN s = 1 .. Len(s) /\ Len(s) \in Nat
    OBVIOUS
  <1>2. \A i \in 1 .. Len(s) : s[i] \in Range(s)
    BY <1>1 DEF Range
  <1>. QED  BY <1>1, <1>2 DEF IsSeq

\* What a sequence holds is at one of its places.
LEMMA RangeOf ==
    ASSUME NEW s, IsSeq(s)
    PROVE  \A x : x \in Range(s) <=> \E i \in 1 .. Len(s) : s[i] = x
  BY SeqForm DEF Range

\* Length and elements of two sequences in a row.
LEMMA Joined ==
    ASSUME NEW V, NEW a \in Seq(V), NEW b \in Seq(V)
    PROVE  /\ a \o b \in Seq(V) /\ Len(a \o b) = Len(a) + Len(b)
           /\ \A i \in 1 .. Len(a) : (a \o b)[i] = a[i]
           /\ \A i \in 1 .. Len(b) : (a \o b)[Len(a) + i] = b[i]
  OBVIOUS

\* What appending does to a sequence: every place before the new one stays.
LEMMA Appended ==
    ASSUME NEW s, IsSeq(s), NEW x
    PROVE  /\ IsSeq(Append(s, x))
           /\ Len(Append(s, x)) = Len(s) + 1
           /\ \A i \in 1 .. Len(s) : Append(s, x)[i] = s[i]
           /\ Append(s, x)[Len(s) + 1] = x
           /\ Range(Append(s, x)) = Range(s) \cup {x}
  <1> DEFINE V == Range(s) \cup {x}
             d == Append(s, x)
  <1>1. s \in Seq(V)
    <2>1. s \in Seq(Range(s))
      BY DEF IsSeq
    <2>. QED  BY <2>1
  <1>2. d \in Seq(V)
    BY <1>1
  <1>3. IsSeq(d)
    BY <1>2, SeqOfValues
  <1>4. /\ Len(d) = Len(s) + 1 /\ Len(s) \in Nat
        /\ \A i \in 1 .. Len(s) : d[i] = s[i]
        /\ d[Len(s) + 1] = x
    BY <1>1
  <1>5. Range(d) = Range(s) \cup {x}
    <2> HIDE DEF d
    <2>1. ASSUME NEW y PROVE y \in Range(d) <=> y \in Range(s) \cup {x}
      <3>1. y \in Range(d) <=> \E i \in 1 .. Len(d) : d[i] = y
        BY <1>3, RangeOf
      <3>2. y \in Range(s) <=> \E i \in 1 .. Len(s) : s[i] = y
        BY RangeOf
      <3>. QED  BY <1>4, <3>1, <3>2
    <2>. QED  BY <2>1
  <1>. QED  BY <1>3, <1>4, <1>5

\* What inserting does to a sequence: places from there on move up by one.
LEMMA Inserted ==
    ASSUME NEW s, IsSeq(s), NEW x, NEW p \in 1 .. Len(s) + 1
    PROVE  LET d == InsertAt(s, p, x)
           IN  /\ IsSeq(d) /\ Len(d) = Len(s) + 1
               /\ \A i \in 1 .. Len(d) :
                     d[i] = IF i < p THEN s[i] ELSE IF i = p THEN x ELSE s[i - 1]
               /\ Range(d) = Range(s) \cup {x}
  <1> DEFINE V == Range(s) \cup {x}
             a == SubSeq(s, 1, p - 1)
             b == SubSeq(s, p, Len(s))
             d == InsertAt(s, p, x)
  <1>1. s \in Seq(V) /\ Len(s) \in Nat /\ p \in Nat \ {0}
    <2>1. s \in Seq(Range(s))
      BY DEF IsSeq
    <2>. QED  BY <2>1
  <1>2. /\ a \in Seq(V) /\ Len(a) = p - 1
        /\ \A i \in 1 .. p - 1 : a[i] = s[i]
    BY <1>1
  <1>3. /\ b \in Seq(V) /\ Len(b) = Len(s) - p + 1
        /\ \A i \in 1 .. Len(b) : b[i] = s[p + i - 1]
    BY <1>1
  <1>4. d = (a \o <<x>>) \o b
    BY DEF InsertAt
  <1> HIDE DEF a, b, d
  <1> DEFINE ax == a \o <<x>>
  <1>5. /\ ax \in Seq(V) /\ Len(ax) = p
        /\ \A i \in 1 .. p : ax[i] = IF i < p THEN s[i] ELSE x
    BY <1>1, <1>2
  <1> HIDE DEF ax
  <1>6. /\ d \in Seq(V) /\ Len(d) = Len(s) + 1
        /\ \A i \in 1 .. Len(d) : d[i] = IF i <= p THEN ax[i] ELSE b[i - p]
    <2>1. d = ax \o b
      BY <1>4 DEF ax
    <2>2. /\ d \in Seq(V) /\ Len(d) = Len(ax) + Len(b)
          /\ \A i \in 1 .. Len(ax) : d[i] = ax[i]
          /\ \A i \in 1 .. Len(b) : d[Len(ax) + i] = b[i]
      <3>1. ax \in Seq(V) /\ b \in Seq(V)
        BY <1>3, <1>5
      <3> HIDE DEF ax
      <3>. QED  BY <2>1, <3>1, Joined
    <2>3. Len(d) = Len(s) + 1
      BY <1>1, <1>3, <1>5, <2>2
    <2>4. \A i \in 1 .. Len(d) : i > p => i - p \in 1 .. Len(b) /\ p + (i - p) = i
      BY <1>1, <1>3, <2>3
    <2>5. \A i \in 1 .. Len(d) : i <= p => i \in 1 .. Len(ax)
      BY <1>1, <1>5
    <2>6. ASSUME NEW i \in 1 .. Len(d)
          PROVE  d[i] = IF i <= p THEN ax[i] ELSE b[i - p]
      <3>1. CASE i <= p
        BY <2>2, <2>5, <3>1
      <3>2. CASE i > p
        <4>1. i - p \in 1 .. Len(b) /\ p + (i - p) = i /\ Len(ax) = p /\ ~(i <= p)
          BY <1>1, <1>5, <2>4, <3>2
        <4>. QED  BY <2>2, <4>1
      <3>. QED  BY <1>1, <2>3, <3>1, <3>2
    <2>. QED  BY <2>2, <2>3, <2>6
  <1>7. IsSeq(d)
    BY <1>6, SeqOfValues
  <1>8. \A i \in 1 .. Len(d) :
           d[i] = IF i < p THEN s[i] ELSE IF i = p THEN x ELSE s[i - 1]
    <2> TAKE i \in 1 .. Len(d)
    <2>1. CASE i <= p
      BY <1>1, <1>5, <1>6, <2>1
    <2>2. CASE i > p
      <3>1. i - p \in 1 .. Len(b) /\ p + (i - p) - 1 = i - 1
        BY <1>1, <1>3, <1>6, <2>2
      <3>2. b[i - p] = s[i - 1]
        BY <1>3, <3>1
      <3>. QED  BY <1>1, <1>6, <2>2, <3>2
    <2>. QED  BY <1>1, <2>1, <2>2
  <1>9. Range(d) = Range(s) \cup {x}
    <2>1. ASSUME NEW y PROVE y \in Range(d) <=> y \in Range(s) \cup {x}
      <3>1. y \in Range(d) <=> \E i \in 1 .. Len(d) : d[i] = y
        BY <1>7, RangeOf
      <3>2. y \in Range(s) <=> \E i \in 1 .. Len(s) : s[i] = y
        BY RangeOf
      <3>3. ASSUME NEW i \in 1 .. Len(s) PROVE \E j \in 1 .. Len(d) : d[j] = s[i]
        <4>1. CASE i < p
          <5>1. i \in 1 .. Len(d) /\ d[i] = s[i]
            BY <1>1, <1>6, <1>8, <4>1
          <5>. QED  BY <5>1
        <4>2. CASE i >= p
          <5>1. i + 1 \in 1 .. Len(d) /\ ~(i + 1 < p) /\ i + 1 # p /\ (i + 1) - 1 = i
            BY <1>1, <1>6, <4>2
          <5>2. d[i + 1] = s[i]
            BY <1>8, <5>1
          <5>. QED  BY <5>1, <5>2
        <4>. QED  BY <1>1, <4>1, <4>2
      <3>4. ASSUME NEW i \in 1 .. Len(d) PROVE d[i] = x \/ \E j \in 1 .. Len(s) : s[j] = d[i]
        <4>1. CASE i < p
          BY <1>1, <1>8, <4>1
        <4>2. CASE i = p
          BY <1>8, <4>2
        <4>3. CASE i > p
          <5>1. i - 1 \in 1 .. Len(s) /\ ~(i < p) /\ i # p
            BY <1>1, <1>6, <4>3
          <5>. QED  BY <1>8, <5>1
        <4>. QED  BY <1>1, <4>1, <4>2, <4>3
      <3>5. p \in 1 .. Len(d) /\ d[p] = x
        BY <1>1, <1>6, <1>8
      <3>. QED  BY <3>1, <3>2, <3>3, <3>4, <3>5
    <2>. QED  BY <2>1
  <1>. QED  BY <1>6, <1>7, <1>8, <1>9 DEF d

\* What removing does to a sequence: places after it move down by one.
LEMMA Removed ==
    ASSUME NEW s, IsSeq(s), NEW p \in 1 .. Len(s)
    PROVE  LET d == RemoveAt(s, p)
           IN  /\ IsSeq(d) /\ Len(d) = Len(s) - 1
               /\ \A i \in 1 .. Len(d) : d[i] = IF i < p THEN s[i] ELSE s[i + 1]
  <1> DEFINE V == Range(s)
             a == SubSeq(s, 1, p - 1)
             b == SubSeq(s, p + 1, Len(s))
             d == RemoveAt(s, p)
  <1>1. s \in Seq(V) /\ Len(s) \in Nat /\ p \in Nat \ {0}
    BY DEF IsSeq
  <1> HIDE DEF V
  <1>2. /\ a \in Seq(V) /\ Len(a) = p - 1
        /\ \A i \in 1 .. p - 1 : a[i] = s[i]
    BY <1>1
  <1>3. /\ b \in Seq(V) /\ Len(b) = Len(s) - p
        /\ \A i \in 1 .. Len(b) : b[i] = s[p + i]
    BY <1>1
  <1>4. d = a \o b
    BY DEF RemoveAt
  <1> HIDE DEF a, b, d
  <1>5. /\ d \in Seq(V) /\ Len(d) = Len(s) - 1
        /\ \A i \in 1 .. Len(d) : d[i] = IF i < p THEN a[i] ELSE b[i - p + 1]
    <2>1. /\ d \in Seq(V) /\ Len(d) = Len(a) + Len(b)
          /\ \A i \in 1 .. Len(a) : d[i] = a[i]
          /\ \A i \in 1 .. Len(b) : d[Len(a) + i] = b[i]
      <3>1. a \in Seq(V) /\ b \in Seq(V)
        BY <1>2, <1>3
      <3>. QED  BY <1>4, <3>1, Joined
    <2>2. Len(d) = Len(s) - 1
      BY <1>1, <1>2, <1>3, <2>1
    <2>3. \A i \in 1 .. Len(d) : ~(i < p) => /\ i - p + 1 \in 1 .. Len(b)
                                             /\ Len(a) + (i - p + 1) = i
      BY <1>1, <1>2, <1>3, <2>2
    <2>4. \A i \in 1 .. Len(d) : i < p => i \in 1 .. Len(a)
      BY <1>1, <1>2
    <2>. QED  BY <1>1, <2>1, <2>2, <2>3, <2>4
  <1>6. IsSeq(d)
    BY <1>5, SeqOfValues
  <1>7. \A i \in 1 .. Len(d) : d[i] = IF i < p THEN s[i] ELSE s[i + 1]
    <2> TAKE i \in 1 .. Len(d)
    <2>1. CASE i < p
      BY <1>1, <1>2, <1>5, <2>1
    <2>2. CASE i >= p
      <3>1. i - p + 1 \in 1 .. Len(b) /\ p + (i - p + 1) = i + 1 /\ ~(i < p)
        BY <1>1, <1>3, <1>5, <2>2
      <3>2. b[i - p + 1] = s[i + 1]
        BY <1>3, <3>1
      <3>. QED  BY <1>5, <3>1, <3>2
    <2>. QED  BY <1>1, <2>1, <2>2
  <1>. QED  BY <1>5, <1>6, <1>7 DEF d
-----------------------------------------------------------------------------
(* Lists of cards: ranked, with every identity once.                        *)

CardFields == {"id", "label", "priority", "source", "lifecycle", "content", "revision"}

IsCard(x) ==
    /\ x = [f \in CardFields |-> x[f]]
    /\ x.label \in BusinessLabels \cup {NoLabel}
    /\ x.priority \in DOMAIN PriorityRank
    /\ x.revision \in Nat

AreCards(s) == IsSeq(s) /\ \A i \in 1 .. Len(s) : IsCard(s[i])
OneEach(s) == \A i, j \in 1 .. Len(s) : s[i].id = s[j].id => i = j
Ranked(s) == \A i, j \in 1 .. Len(s) : i < j => ~Outranks(s[j], s[i])

\* The order of the cards is a strict weak one.
LEMMA RankIs ==
    ASSUME NEW x, IsCard(x)
    PROVE  /\ PriorityRank[x.priority] \in Int /\ x.revision \in Int
           /\ LabelPlace(x.label) \in Int
  <1>1. PriorityRank[x.priority] \in Int
    BY DEF IsCard, PriorityRank
  <1>2. LabelOrder \in Seq(BusinessLabels)
    BY LabelOrderAssumption
  <1>3. Len(LabelOrder) \in Nat /\ DOMAIN LabelOrder = 1 .. Len(LabelOrder)
    BY <1>2
  <1>4. CASE x.label = NoLabel
    BY <1>1, <1>3, <1>4 DEF IsCard, LabelPlace
  <1>5. CASE x.label # NoLabel
    <2>1. x.label \in BusinessLabels
      BY <1>5 DEF IsCard
    <2>2. \E i \in DOMAIN LabelOrder : LabelOrder[i] = x.label
      BY <2>1 DEF BusinessLabels, Range
    <2>3. LabelPlace(x.label) \in DOMAIN LabelOrder
      BY <1>5, <2>2 DEF LabelPlace
    <2>. QED  BY <1>1, <1>3, <2>3 DEF IsCard
  <1>. QED  BY <1>4, <1>5

\* The rank of cards is irreflexive, transitive and asymmetric (_coaching_rank).
LEMMA Order ==
    ASSUME NEW x, NEW y, NEW z, IsCard(x), IsCard(y), IsCard(z)
    PROVE  /\ ~Outranks(x, x)
           /\ Outranks(x, y) /\ Outranks(y, z) => Outranks(x, z)
           /\ Outranks(x, y) => ~Outranks(y, x)
  <1>1. /\ PriorityRank[x.priority] \in Int /\ x.revision \in Int
        /\ LabelPlace(x.label) \in Int
    BY RankIs
  <1>2. /\ PriorityRank[y.priority] \in Int /\ y.revision \in Int
        /\ LabelPlace(y.label) \in Int
    BY RankIs
  <1>3. /\ PriorityRank[z.priority] \in Int /\ z.revision \in Int
        /\ LabelPlace(z.label) \in Int
    BY RankIs
  <1>. QED  BY <1>1, <1>2, <1>3 DEF Outranks

\* A smallest number of a set is picked by Min.
LEMMA MinOf ==
    ASSUME NEW T \in SUBSET Nat, T # {}
    PROVE  Min(T) \in T /\ \A x \in T : Min(T) <= x
  <1>1. \E x \in T : \A y \in T : x <= y
    BY LeastNumber
  <1>. QED  BY <1>1, Zenon DEF Min

\* The identities of a list are those of its places.
LEMMA IdsOf ==
    ASSUME NEW s, IsSeq(s)
    PROVE  /\ CardIds(s) = {s[i].id : i \in 1 .. Len(s)}
           /\ CardIds(s) = {x.id : x \in Range(s)}
           /\ \A id : Holds(s, id) <=> id \in CardIds(s)
  <1>1. DOMAIN s = 1 .. Len(s)
    BY SeqForm
  <1>. QED  BY <1>1 DEF CardIds, Holds, Range

\* What a list of cards holds are cards.
LEMMA CardsAre ==
    ASSUME NEW s, AreCards(s)
    PROVE  \A x \in Range(s) : IsCard(x)
  BY RangeOf DEF AreCards

\* A card inserted where its rank puts it keeps the list ranked (the sort after
\* admission).
LEMMA InsertKeeps ==
    ASSUME NEW s, AreCards(s), OneEach(s), Ranked(s),
           NEW x, IsCard(x), x.id \notin CardIds(s)
    PROVE  LET d == Insert(x, s)
           IN  /\ AreCards(d) /\ OneEach(d) /\ Ranked(d) /\ Len(d) = Len(s) + 1
               /\ Range(d) = Range(s) \cup {x}
               /\ CardIds(d) = CardIds(s) \cup {x.id}
  <1> DEFINE T == {i \in 1 .. Len(s) + 1 : i <= Len(s) => Outranks(x, s[i])}
             p == Min(T)
             d == Insert(x, s)
  <1>0. IsSeq(s) /\ Len(s) \in Nat /\ \A i \in 1 .. Len(s) : IsCard(s[i])
    BY SeqForm DEF AreCards
  <1>1. p \in T /\ \A i \in T : p <= i
    <2>1. T \in SUBSET Nat /\ Len(s) + 1 \in T
      BY <1>0
    <2> HIDE DEF T
    <2>. QED  BY <2>1, MinOf
  <1>2. d = InsertAt(s, p, x)
    BY DEF Insert
  <1>3. p \in 1 .. Len(s) + 1 /\ (p <= Len(s) => Outranks(x, s[p]))
    BY <1>1
  <1>4. \A i \in 1 .. Len(s) : i < p => ~Outranks(x, s[i])
    <2> TAKE i \in 1 .. Len(s)
    <2>1. Outranks(x, s[i]) => i \in T
      BY <1>0
    <2>. QED  BY <1>0, <1>1, <1>3, <2>1
  <1> HIDE DEF T, p, d
  <1>5. /\ IsSeq(d) /\ Len(d) = Len(s) + 1
        /\ \A i \in 1 .. Len(d) :
              d[i] = IF i < p THEN s[i] ELSE IF i = p THEN x ELSE s[i - 1]
        /\ Range(d) = Range(s) \cup {x}
    BY <1>0, <1>2, <1>3, Inserted
  <1>6. AreCards(d)
    <2>1. \A y \in Range(d) : IsCard(y)
      BY <1>5, CardsAre
    <2>. QED  BY <1>5, <2>1, RangeOf DEF AreCards
  <1>7. \A i \in 1 .. Len(d) : /\ i < p => i \in 1 .. Len(s) /\ d[i] = s[i]
                               /\ i > p => i - 1 \in 1 .. Len(s) /\ d[i] = s[i - 1]
                               /\ i = p => d[i] = x
    BY <1>0, <1>3, <1>5
  <1>8. \A i \in 1 .. Len(s) : s[i].id # x.id
    BY <1>0, IdsOf
  <1>9. OneEach(d)
    <2> SUFFICES ASSUME NEW i \in 1 .. Len(d), NEW j \in 1 .. Len(d), i < j
                 PROVE  d[i].id # d[j].id
      BY <1>0, <1>5 DEF OneEach
    <2>1. CASE j < p
      BY <1>0, <1>3, <1>7, <2>1 DEF OneEach
    <2>2. CASE j = p
      BY <1>0, <1>3, <1>7, <1>8, <2>2
    <2>3. CASE i = p
      BY <1>0, <1>3, <1>7, <1>8, <2>3
    <2>4. CASE i > p
      <3>1. /\ i - 1 \in 1 .. Len(s) /\ d[i] = s[i - 1] /\ j - 1 \in 1 .. Len(s)
            /\ d[j] = s[j - 1] /\ i - 1 # j - 1
        BY <1>0, <1>3, <1>7, <2>4
      <3>. QED  BY <3>1 DEF OneEach
    <2>5. CASE i < p /\ p < j
      <3>1. i \in 1 .. Len(s) /\ j - 1 \in 1 .. Len(s) /\ i # j - 1
        BY <1>0, <1>3, <1>7, <2>5
      <3>. QED  BY <1>7, <2>5, <3>1 DEF OneEach
    <2>. QED  BY <1>0, <1>3, <1>5, <2>1, <2>2, <2>3, <2>4, <2>5
  <1>10. Ranked(d)
    <2> SUFFICES ASSUME NEW i \in 1 .. Len(d), NEW j \in 1 .. Len(d), i < j
                 PROVE  ~Outranks(d[j], d[i])
      BY DEF Ranked
    <2>1. CASE j < p
      BY <1>0, <1>3, <1>7, <2>1 DEF Ranked
    <2>2. CASE j = p
      BY <1>0, <1>3, <1>4, <1>7, <2>2
    <2>3. CASE i = p
      <3>1. /\ j - 1 \in 1 .. Len(s) /\ d[j] = s[j - 1] /\ d[i] = x
            /\ p \in 1 .. Len(s) /\ p <= j - 1
        BY <1>0, <1>3, <1>5, <1>7, <2>3
      <3>2. Outranks(x, s[p]) /\ IsCard(s[p]) /\ IsCard(s[j - 1])
        BY <1>0, <1>3, <3>1
      <3>3. CASE p = j - 1
        BY <3>1, <3>2, <3>3, Order
      <3>4. CASE p < j - 1
        <4>1. ~Outranks(s[j - 1], s[p])
          BY <3>1, <3>4 DEF Ranked
        <4>. QED  BY <3>1, <3>2, <4>1, Order
      <3>. QED  BY <1>0, <1>3, <3>1, <3>3, <3>4
    <2>4. CASE i > p
      <3>1. /\ i - 1 \in 1 .. Len(s) /\ j - 1 \in 1 .. Len(s) /\ i - 1 < j - 1
            /\ d[i] = s[i - 1] /\ d[j] = s[j - 1]
        BY <1>0, <1>3, <1>7, <2>4
      <3>. QED  BY <3>1 DEF Ranked
    <2>5. CASE i < p /\ p < j
      <3>1. i \in 1 .. Len(s) /\ j - 1 \in 1 .. Len(s) /\ i < j - 1
        BY <1>0, <1>3, <1>7, <2>5
      <3>. QED  BY <1>7, <2>5, <3>1 DEF Ranked
    <2>. QED  BY <1>0, <1>3, <1>5, <2>1, <2>2, <2>3, <2>4, <2>5
  <1>11. CardIds(d) = CardIds(s) \cup {x.id}
    BY <1>0, <1>5, IdsOf
  <1>. QED  BY <1>5, <1>6, <1>9, <1>10, <1>11 DEF d

\* A list without one identity stays ranked.
LEMMA WithoutKeeps ==
    ASSUME NEW s, AreCards(s), OneEach(s), Ranked(s), NEW id
    PROVE  LET d == Without(s, id)
           IN  /\ AreCards(d) /\ OneEach(d) /\ Ranked(d)
               /\ Len(d) = IF id \in CardIds(s) THEN Len(s) - 1 ELSE Len(s)
               /\ Range(d) = {x \in Range(s) : x.id # id}
               /\ CardIds(d) = CardIds(s) \ {id}
  <1> DEFINE d == Without(s, id)
             p == PlaceOf(s, id)
  <1>0. IsSeq(s) /\ Len(s) \in Nat /\ \A i \in 1 .. Len(s) : IsCard(s[i])
    BY SeqForm DEF AreCards
  <1>1. CASE ~Holds(s, id)
    <2>1. d = s
      BY <1>1 DEF Without
    <2>2. id \notin CardIds(s) /\ \A x \in Range(s) : x.id # id
      BY <1>0, <1>1, IdsOf
    <2>3. Range(s) = {x \in Range(s) : x.id # id}
      BY <2>2
    <2> HIDE DEF d
    <2>. QED  BY <2>1, <2>2, <2>3 DEF d
  <1>2. CASE Holds(s, id)
    <2>1. p \in 1 .. Len(s) /\ s[p].id = id /\ id \in CardIds(s)
      <3>1. DOMAIN s = 1 .. Len(s)
        BY <1>0, SeqForm
      <3>. QED  BY <1>0, <1>2, <3>1, IdsOf DEF Holds, PlaceOf
    <2>2. d = RemoveAt(s, p)
      BY <1>2 DEF Without
    <2> HIDE DEF d, p
    <2>3. /\ IsSeq(d) /\ Len(d) = Len(s) - 1
          /\ \A i \in 1 .. Len(d) : d[i] = IF i < p THEN s[i] ELSE s[i + 1]
      BY <1>0, <2>1, <2>2, Removed
    <2>4. \A i \in 1 .. Len(d) : /\ i < p => i \in 1 .. Len(s) /\ d[i] = s[i]
                                 /\ ~(i < p) => i + 1 \in 1 .. Len(s) /\ d[i] = s[i + 1]
      BY <1>0, <2>1, <2>3
    <2>5. \A i \in 1 .. Len(s) : i # p => s[i].id # id
      BY <2>1 DEF OneEach
    <2>6. ASSUME NEW x PROVE x \in Range(d) <=> x \in Range(s) /\ x.id # id
      <3>1. x \in Range(d) <=> \E i \in 1 .. Len(d) : d[i] = x
        BY <2>3, RangeOf
      <3>2. x \in Range(s) <=> \E i \in 1 .. Len(s) : s[i] = x
        BY <1>0, RangeOf
      <3>3. ASSUME NEW i \in 1 .. Len(d) PROVE d[i] \in Range(s) /\ d[i].id # id
        <4>1. CASE i < p
          <5>1. i \in 1 .. Len(s) /\ i # p /\ d[i] = s[i]
            BY <1>0, <2>1, <2>4, <4>1
          <5>. QED  BY <1>0, <2>5, <5>1, RangeOf
        <4>2. CASE ~(i < p)
          <5>1. i + 1 \in 1 .. Len(s) /\ i + 1 # p /\ d[i] = s[i + 1]
            BY <1>0, <2>1, <2>4, <4>2
          <5>. QED  BY <1>0, <2>5, <5>1, RangeOf
        <4>. QED  BY <4>1, <4>2
      <3>4. ASSUME NEW i \in 1 .. Len(s), i # p PROVE \E j \in 1 .. Len(d) : d[j] = s[i]
        <4>1. CASE i < p
          <5>1. i \in 1 .. Len(d)
            BY <1>0, <2>1, <2>3, <4>1
          <5>. QED  BY <2>4, <4>1, <5>1
        <4>2. CASE i > p
          <5>1. i - 1 \in 1 .. Len(d) /\ ~(i - 1 < p) /\ (i - 1) + 1 = i
            BY <1>0, <2>1, <2>3, <4>2
          <5>2. d[i - 1] = s[(i - 1) + 1]
            BY <2>4, <5>1
          <5>. QED  BY <5>1, <5>2
        <4>. QED  BY <1>0, <2>1, <3>4, <4>1, <4>2
      <3>. QED  BY <2>1, <3>1, <3>2, <3>3, <3>4
    <2>7. Range(d) = {x \in Range(s) : x.id # id}
      BY <2>6
    <2>8. AreCards(d)
      <3>1. \A y \in Range(d) : IsCard(y)
        BY <2>7, CardsAre
      <3>. QED  BY <2>3, <3>1, RangeOf DEF AreCards
    <2>9. CardIds(d) = CardIds(s) \ {id}
      BY <1>0, <2>3, <2>7, IdsOf
    <2>10. ASSUME NEW i \in 1 .. Len(d), NEW j \in 1 .. Len(d), i < j
           PROVE  \E k, m \in 1 .. Len(s) : k < m /\ d[i] = s[k] /\ d[j] = s[m]
      <3>1. CASE j < p
        BY <1>0, <2>1, <2>4, <2>10, <3>1
      <3>2. CASE i < p /\ ~(j < p)
        <4>1. i < j + 1
          BY <2>3, <2>10
        <4>. QED  BY <2>4, <3>2, <4>1
      <3>3. CASE ~(i < p)
        <4>1. ~(j < p) /\ i + 1 < j + 1
          BY <1>0, <2>1, <2>3, <2>10, <3>3
        <4>. QED  BY <2>4, <3>3, <4>1
      <3>. QED  BY <1>0, <2>1, <2>10, <3>1, <3>2, <3>3
    <2>11. OneEach(d)
      <3> SUFFICES ASSUME NEW i \in 1 .. Len(d), NEW j \in 1 .. Len(d), i < j
                   PROVE  d[i].id # d[j].id
        BY <1>0, <2>3 DEF OneEach
      <3>1. PICK k, m \in 1 .. Len(s) : k < m /\ d[i] = s[k] /\ d[j] = s[m]
        BY <2>10
      <3>2. k # m
        BY <1>0, <3>1
      <3>. QED  BY <3>1, <3>2 DEF OneEach
    <2>12. Ranked(d)
      BY <2>10 DEF Ranked
    <2>. QED  BY <2>1, <2>3, <2>7, <2>8, <2>9, <2>11, <2>12 DEF d
  <1>. QED  BY <1>1, <1>2

\* A card replaced under its identity leaves every identity in its place.
LEMMA ReplaceKeeps ==
    ASSUME NEW s, AreCards(s), OneEach(s), NEW x, IsCard(x)
    PROVE  LET d == ReplaceCard(s, x)
           IN  /\ AreCards(d) /\ OneEach(d) /\ Len(d) = Len(s)
               /\ \A i \in 1 .. Len(s) : d[i] = IF s[i].id = x.id THEN x ELSE s[i]
               /\ \A i \in 1 .. Len(s) : d[i].id = s[i].id
               /\ CardIds(d) = CardIds(s)
  <1> DEFINE d == ReplaceCard(s, x)
             V == Range(s) \cup {x}
  <1>0. IsSeq(s) /\ Len(s) \in Nat /\ \A i \in 1 .. Len(s) : IsCard(s[i])
    BY SeqForm DEF AreCards
  <1>1. /\ DOMAIN s = 1 .. Len(s)
        /\ d = [i \in 1 .. Len(s) |-> IF s[i].id = x.id THEN x ELSE s[i]]
    BY <1>0, SeqForm DEF ReplaceCard
  <1> HIDE DEF d
  <1>2. d \in Seq(V) /\ Len(d) = Len(s)
    <2>1. \A i \in 1 .. Len(s) : d[i] \in V
      BY <1>0, <1>1, RangeOf
    <2> HIDE DEF V
    <2>. QED  BY <1>0, <1>1, <2>1
  <1>3. IsSeq(d)
    BY <1>2, SeqOfValues
  <1>4. \A i \in 1 .. Len(s) : d[i] = IF s[i].id = x.id THEN x ELSE s[i]
    BY <1>1
  <1>5. \A i \in 1 .. Len(s) : d[i].id = s[i].id /\ IsCard(d[i])
    BY <1>0, <1>4
  <1>6. AreCards(d)
    BY <1>2, <1>3, <1>5 DEF AreCards
  <1>7. OneEach(d)
    BY <1>2, <1>5 DEF OneEach
  <1>8. CardIds(d) = CardIds(s)
    <2>1. CardIds(s) = {s[i].id : i \in 1 .. Len(s)}
      BY <1>0, IdsOf
    <2>2. CardIds(d) = {d[i].id : i \in 1 .. Len(s)}
      BY <1>2, <1>3, IdsOf
    <2>. QED  BY <1>5, <2>1, <2>2
  <1>. QED  BY <1>2, <1>4, <1>5, <1>6, <1>7, <1>8 DEF d

\* The weakest card is one of the list.
LEMMA WeakestHeld ==
    ASSUME NEW s, AreCards(s), Len(s) >= 1
    PROVE  WeakestCard(s) \in Range(s)
  <1> DEFINE T == {i \in DOMAIN s : ~Outranks(s[i], Last(s))}
  <1>1. /\ IsSeq(s) /\ Len(s) \in Nat /\ DOMAIN s = 1 .. Len(s)
        /\ \A i \in 1 .. Len(s) : IsCard(s[i])
    BY SeqForm DEF AreCards
  <1>2. Last(s) = s[Len(s)] /\ Len(s) \in 1 .. Len(s)
    BY <1>1 DEF Last
  <1>3. Len(s) \in T /\ T \in SUBSET Nat /\ T \subseteq 1 .. Len(s)
    BY <1>1, <1>2, Order
  <1> HIDE DEF T
  <1>4. Min(T) \in 1 .. Len(s)
    BY <1>3, MinOf
  <1>5. WeakestCard(s) = s[Min(T)]
    BY DEF T, WeakestCard
  <1>. QED  BY <1>1, <1>4, <1>5, RangeOf
-----------------------------------------------------------------------------
(* Which labels were found, and in which revision each was new.             *)

NewIn(c, l) == {r \in DOMAIN c.timeline : l \in c.timeline[r].new}

LabelsInv(c) ==
    /\ c.labels \subseteq BusinessLabels \cup {NoAction}
    /\ DOMAIN c.detected \subseteq BusinessLabels \cup {NoAction}
    /\ DOMAIN c.timeline \subseteq 0 .. c.revision
    /\ \A l \in BusinessLabels :
          NewIn(c, l) = IF l \in DOMAIN c.detected THEN {c.detected[l].first} ELSE {}

\* Canonical labels are known ones (canonical_labels).
LEMMA CanonicalIs ==
    ASSUME NEW labels
    PROVE  Canonical(labels) \subseteq BusinessLabels \cup {NoAction}
  BY DEF Canonical

\* A label recorded as detected is new in one revision (record_detected_labels).
LEMMA RecordKeeps ==
    ASSUME NEW c, IsCall(c), LabelsInv(c), NEW labels, NEW r \in 0 .. c.revision
    PROVE  LabelsInv(RecordDetectedLabels(c, labels, r))
  <1> DEFINE found == Canonical(labels)
             business == found \ {NoAction}
             known == DOMAIN c.detected
             incoming == IF business # {} THEN business
                         ELSE IF known # {} THEN {} ELSE found
             kept == IF business # {} THEN known \ {NoAction} ELSE known
             first(l) == IF l \in kept THEN c.detected[l].first ELSE r
             latest(l) == IF l \in incoming THEN r ELSE c.detected[l].latest
             detected == [l \in kept \cup incoming |->
                             [first |-> first(l), latest |-> latest(l)]]
             b == [c EXCEPT !.detected = detected]
             before == IF r \in DOMAIN b.timeline THEN b.timeline[r].new ELSE {}
             entry == [current |-> b.labels, new |-> before \cup (incoming \ known)]
             timeline == [q \in DOMAIN b.timeline \cup {r} |->
                             IF q = r THEN entry ELSE b.timeline[q]]
             d == RecordDetectedLabels(c, labels, r)
  <1>1. d = [b EXCEPT !.timeline = timeline]
    BY DEF RecordDetectedLabels, UpsertDiagnostic
  <1>2. DOMAIN c = CallFields
    BY DEF IsCall
  <1> HIDE DEF d
  <1>3. b.timeline = c.timeline /\ b.labels = c.labels
    BY <1>2 DEF CallFields
  <1>4. /\ d.detected = detected /\ d.timeline = timeline /\ d.labels = c.labels
        /\ d.revision = c.revision
    <2> HIDE DEF timeline, detected
    <2>. QED  BY <1>1, <1>2 DEF CallFields
  <1>5. found \subseteq BusinessLabels \cup {NoAction}
    BY CanonicalIs
  <1>6. NoAction \notin BusinessLabels
    BY LabelOrderAssumption
  <1>7. DOMAIN d.detected = kept \cup incoming
    BY <1>4
  <1>8. DOMAIN d.detected \subseteq BusinessLabels \cup {NoAction}
    <2> HIDE DEF detected
    <2>. QED  BY <1>5, <1>7 DEF LabelsInv
  <1>9. DOMAIN d.timeline = DOMAIN c.timeline \cup {r}
    BY <1>3, <1>4
  <1>10. DOMAIN d.timeline \subseteq 0 .. d.revision
    BY <1>4, <1>9 DEF LabelsInv
  <1>11. ASSUME NEW l \in BusinessLabels
         PROVE  NewIn(d, l) = IF l \in DOMAIN d.detected THEN {d.detected[l].first} ELSE {}
    <2>1. l # NoAction
      BY <1>6
    <2>2. l \in kept <=> l \in known
      BY <2>1
    <2>3. \A q \in DOMAIN c.timeline \ {r} : d.timeline[q] = c.timeline[q]
      <3> HIDE DEF entry
      <3>. QED  BY <1>3, <1>4
    <2>4. l \in d.timeline[r].new <=> l \in before \/ (l \in incoming /\ l \notin known)
      <3>1. d.timeline[r] = entry
        <4> HIDE DEF entry
        <4>. QED  BY <1>4
      <3>. QED  BY <3>1
    <2>5. l \in before <=> r \in DOMAIN c.timeline /\ l \in c.timeline[r].new
      BY <1>3
    <2> HIDE DEF before, timeline, entry
    <2>6. ASSUME NEW q
          PROVE  q \in NewIn(d, l) <=> q \in NewIn(c, l) \/ (q = r /\ l \in incoming /\ l \notin known)
      BY <1>9, <2>3, <2>4, <2>5 DEF NewIn
    <2>7. CASE l \in known
      <3>1. l \in DOMAIN d.detected /\ d.detected[l].first = c.detected[l].first
        <4>1. l \in kept
          BY <2>2, <2>7
        <4>2. l \in DOMAIN d.detected
          BY <1>7, <4>1
        <4>3. d.detected[l] = [first |-> c.detected[l].first, latest |-> latest(l)]
          <5> HIDE DEF latest, kept, incoming
          <5>. QED  BY <1>4, <4>1
        <4>. QED  BY <4>2, <4>3
      <3>2. NewIn(c, l) = {c.detected[l].first}
        BY <2>7 DEF LabelsInv
      <3>3. NewIn(d, l) = NewIn(c, l)
        BY <2>6, <2>7
      <3>. QED  BY <3>1, <3>2, <3>3
    <2>8. CASE l \notin known
      <3>1. NewIn(c, l) = {}
        BY <2>8 DEF LabelsInv
      <3>2. l \in DOMAIN d.detected <=> l \in incoming
        BY <1>7, <2>2, <2>8
      <3>3. l \in incoming => d.detected[l].first = r
        <4> SUFFICES ASSUME l \in incoming PROVE d.detected[l].first = r
          OBVIOUS
        <4>1. l \notin kept
          BY <2>2, <2>8
        <4>2. d.detected[l] = [first |-> r, latest |-> latest(l)]
          <5> HIDE DEF latest, kept, incoming
          <5>. QED  BY <1>4, <4>1
        <4>. QED  BY <4>2
      <3> HIDE DEF incoming, kept, known
      <3>. QED  BY <2>6, <2>8, <3>1, <3>2, <3>3
    <2>. QED  BY <2>7, <2>8
  <1>12. d.labels \subseteq BusinessLabels \cup {NoAction}
    BY <1>4 DEF LabelsInv
  <1> HIDE DEF detected, timeline
  <1>13. LabelsInv(d)
    BY <1>8, <1>10, <1>11, <1>12 DEF LabelsInv
  <1>. QED  BY <1>13 DEF d

\* Only the labels matter to the books of the labels.
LEMMA LabelsStay ==
    ASSUME NEW c, NEW d, LabelsInv(c), SameLabels(c, d), d.revision = c.revision
    PROVE  LabelsInv(d)
  BY DEF LabelsInv, SameLabels, NewIn

\* A confirmed card keeps the books of the labels.
LEMMA ConfirmLabels ==
    ASSUME NEW c, IsCall(c), LabelsInv(c), NEW card, card.revision \in 0 .. c.revision
    PROVE  LabelsInv(Confirm(c, card))
  <1> DEFINE d == Confirm(c, card)
             e == RecordDetectedLabels(c, {card.label}, card.revision)
  <1>1. SameWhatWasSaid(c, d) /\ (SameLabels(c, d) \/ SameLabels(e, d))
    BY ConfirmFields
  <1>2. LabelsInv(e) /\ SameWhatWasSaid(c, e)
    BY RecordKeeps, RecordFields
  <1> HIDE DEF d, e
  <1>. QED  BY <1>1, <1>2, LabelsStay DEF SameWhatWasSaid, d
-----------------------------------------------------------------------------
(* The three lists of cards, and what was shown.                            *)

IsLocal(id) == id[1] = "local"

CardsInv(c) ==
    /\ AreCards(c.active) /\ OneEach(c.active) /\ Ranked(c.active)
    /\ Len(c.active) <= MaxActive
    /\ AreCards(c.cards) /\ OneEach(c.cards)
    /\ IsSeq(c.history)
    /\ CardIds(c.active) \cap CardIds(c.history) = {}
    /\ CardIds(c.active) \cup CardIds(c.history) = CardIds(c.cards)
    /\ c.shown = CardIds(c.cards)
    /\ Range(c.active) \subseteq Range(c.cards)
    /\ \A i \in 1 .. Len(c.cards) : IsLocal(c.cards[i].id) => c.cards[i].source # "llm"

\* Only the lists matter to the books of the cards.
LEMMA CardsStay ==
    ASSUME NEW c, NEW d, CardsInv(c), SameCards(c, d)
    PROVE  CardsInv(d)
  BY DEF CardsInv, SameCards

\* An admitted card joins the board; the weakest one makes room for it.
LEMMA AdmitCards ==
    ASSUME NEW c, CardsInv(c), NEW card, IsCard(card), card.id \notin CardIds(c.cards),
           IsLocal(card.id) => card.source # "llm",
           NEW d,
           d.cards = Append(c.cards, card),
           d.active = Insert(card, IF Len(c.active) >= MaxActive
                                   THEN Without(c.active, WeakestCard(c.active).id)
                                   ELSE c.active),
           d.history = IF Len(c.active) >= MaxActive
                       THEN Append(c.history, WeakestCard(c.active)) ELSE c.history,
           d.shown = c.shown \cup {card.id}
    PROVE  CardsInv(d) /\ Range(d.active) \subseteq Range(c.active) \cup {card}
  <1> DEFINE full == Len(c.active) >= MaxActive
             weakest == WeakestCard(c.active)
             room == IF full THEN Without(c.active, weakest.id) ELSE c.active
  <1>1. /\ IsSeq(c.active) /\ IsSeq(c.cards) /\ IsSeq(c.history)
        /\ Len(c.active) \in Nat /\ Len(c.cards) \in Nat
    BY SeqForm DEF CardsInv, AreCards
  <1>2. MaxActive \in Nat \ {0}
    BY CoachingAssumption
  <1>3. full => weakest \in Range(c.active) /\ weakest.id \in CardIds(c.active)
    <2> SUFFICES ASSUME full
                 PROVE  weakest \in Range(c.active) /\ weakest.id \in CardIds(c.active)
      OBVIOUS
    <2>1. weakest \in Range(c.active)
      BY <1>1, <1>2, WeakestHeld DEF CardsInv
    <2> HIDE DEF weakest
    <2>. QED  BY <1>1, <2>1, IdsOf
  <1> HIDE DEF weakest
  <1>4. /\ AreCards(room) /\ OneEach(room) /\ Ranked(room)
        /\ Len(room) < MaxActive
        /\ Range(room) \subseteq Range(c.active)
        /\ CardIds(room) = CardIds(c.active) \ (IF full THEN {weakest.id} ELSE {})
    <2>1. CASE full
      <3> DEFINE w == Without(c.active, weakest.id)
      <3>1. /\ AreCards(w) /\ OneEach(w) /\ Ranked(w)
            /\ Len(w) = IF weakest.id \in CardIds(c.active) THEN Len(c.active) - 1
                                                            ELSE Len(c.active)
            /\ Range(w) = {x \in Range(c.active) : x.id # weakest.id}
            /\ CardIds(w) = CardIds(c.active) \ {weakest.id}
        BY WithoutKeeps DEF CardsInv
      <3>2. room = w
        BY <2>1
      <3> HIDE DEF w, room
      <3>3. Len(w) = Len(c.active) - 1 /\ Len(c.active) <= MaxActive
        BY <1>3, <2>1, <3>1 DEF CardsInv
      <3>. QED  BY <1>1, <1>2, <2>1, <3>1, <3>2, <3>3
    <2>2. CASE ~full
      <3>1. room = c.active
        BY <2>2
      <3> HIDE DEF room
      <3>2. Len(c.active) < MaxActive
        BY <1>1, <1>2, <2>2
      <3>. QED  BY <2>2, <3>1, <3>2 DEF CardsInv
    <2>. QED  BY <2>1, <2>2
  <1>5. d.active = Insert(card, room)
    BY DEF weakest
  <1>6. d.history = IF full THEN Append(c.history, weakest) ELSE c.history
    BY DEF weakest
  <1> HIDE DEF full, room
  <1>7. card.id \notin CardIds(room)
    BY <1>4 DEF CardsInv
  <1>8. /\ AreCards(d.active) /\ OneEach(d.active) /\ Ranked(d.active)
        /\ Len(d.active) = Len(room) + 1
        /\ Range(d.active) = Range(room) \cup {card}
        /\ CardIds(d.active) = CardIds(room) \cup {card.id}
    BY <1>4, <1>5, <1>7, InsertKeeps
  <1>9. Len(d.active) <= MaxActive
    <2>1. Len(room) \in Nat
      BY <1>4, SeqForm DEF AreCards
    <2>. QED  BY <1>2, <1>4, <1>8, <2>1
  <1>10. /\ IsSeq(d.cards) /\ Len(d.cards) = Len(c.cards) + 1
         /\ \A i \in 1 .. Len(c.cards) : d.cards[i] = c.cards[i]
         /\ d.cards[Len(c.cards) + 1] = card
         /\ Range(d.cards) = Range(c.cards) \cup {card}
    BY <1>1, Appended
  <1>11. \A i \in 1 .. Len(d.cards) :
            \/ i \in 1 .. Len(c.cards) /\ d.cards[i] = c.cards[i]
            \/ i = Len(c.cards) + 1 /\ d.cards[i] = card
    BY <1>1, <1>10
  <1>12. \A i \in 1 .. Len(c.cards) : c.cards[i].id # card.id /\ IsCard(c.cards[i])
    BY <1>1, IdsOf DEF CardsInv, AreCards
  <1>13. AreCards(d.cards) /\ OneEach(d.cards)
    BY <1>10, <1>11, <1>12 DEF CardsInv, AreCards, OneEach
  <1>14. CardIds(d.cards) = CardIds(c.cards) \cup {card.id}
    BY <1>1, <1>10, IdsOf
  <1>15. /\ IsSeq(d.history)
         /\ CardIds(d.history) = CardIds(c.history) \cup (IF full THEN {weakest.id} ELSE {})
    <2>1. CASE full
      <3>1. d.history = Append(c.history, weakest)
        BY <1>6, <2>1
      <3>2. /\ IsSeq(d.history) /\ Range(d.history) = Range(c.history) \cup {weakest}
        <4>1. IsSeq(c.history)
          BY <1>1
        <4>. QED  BY ONLY <3>1, <4>1, Appended
      <3>. QED  BY <1>1, <2>1, <3>2, IdsOf
    <2>2. CASE ~full
      BY <1>1, <1>6, <2>2
    <2>. QED  BY <2>1, <2>2
  <1>16. /\ CardIds(d.active) \cap CardIds(d.history) = {}
         /\ CardIds(d.active) \cup CardIds(d.history) = CardIds(d.cards)
    BY <1>3, <1>4, <1>8, <1>14, <1>15 DEF CardsInv
  <1>17. d.shown = CardIds(d.cards)
    BY <1>14 DEF CardsInv
  <1>18. Range(d.active) \subseteq Range(d.cards)
    BY <1>4, <1>8, <1>10 DEF CardsInv
  <1>19. \A i \in 1 .. Len(d.cards) : IsLocal(d.cards[i].id) => d.cards[i].source # "llm"
    BY <1>11 DEF CardsInv
  <1>20. Range(d.active) \subseteq Range(c.active) \cup {card}
    BY <1>4, <1>8
  <1>. QED  BY <1>8, <1>9, <1>13, <1>15, <1>16, <1>17, <1>18, <1>19, <1>20 DEF CardsInv

\* The card of an identity that is held.
LEMMA CardAt ==
    ASSUME NEW s, AreCards(s), OneEach(s), NEW id \in CardIds(s)
    PROVE  /\ PlaceOf(s, id) \in 1 .. Len(s) /\ s[PlaceOf(s, id)].id = id
           /\ s[PlaceOf(s, id)] \in Range(s)
           /\ \A i \in 1 .. Len(s) : s[i].id = id => i = PlaceOf(s, id)
  <1>1. IsSeq(s) /\ DOMAIN s = 1 .. Len(s)
    BY SeqForm DEF AreCards
  <1>2. PlaceOf(s, id) \in 1 .. Len(s) /\ s[PlaceOf(s, id)].id = id
    BY <1>1, IdsOf DEF PlaceOf, Holds
  <1>. QED  BY <1>1, <1>2, RangeOf DEF OneEach

\* The card withdrawn is the one the list of all cards has under its identity.
LEMMA ShownIs ==
    ASSUME NEW c, CardsInv(c), NEW id \in CardIds(c.cards)
    PROVE  Shown(c, id) = c.cards[PlaceOf(c.cards, id)]
  <1>1. CASE id \in CardIds(c.active)
    <2>1. Shown(c, id) = c.active[PlaceOf(c.active, id)]
      BY <1>1, IdsOf DEF Shown, CardsInv, AreCards
    <2>2. Shown(c, id) \in Range(c.cards) /\ Shown(c, id).id = id
      BY <1>1, <2>1, CardAt DEF CardsInv
    <2>3. PICK i \in 1 .. Len(c.cards) : c.cards[i] = Shown(c, id)
      BY <2>2, RangeOf DEF CardsInv, AreCards
    <2>4. i = PlaceOf(c.cards, id)
      BY <2>2, <2>3, CardAt DEF CardsInv
    <2>. QED  BY <2>3, <2>4
  <1>2. CASE id \notin CardIds(c.active)
    BY <1>2, IdsOf DEF Shown, CardsInv, AreCards
  <1>. QED  BY <1>1, <1>2

\* A promoted card takes the place of the one it replaces.
LEMMA UpdateCards ==
    ASSUME NEW c, CardsInv(c), NEW card, IsCard(card), card.id \in CardIds(c.active),
           IsLocal(card.id) => card.source # "llm",
           NEW d,
           d.cards = ReplaceCard(c.cards, card),
           d.active = Insert(card, Without(c.active, card.id)),
           d.history = c.history, d.shown = c.shown
    PROVE  /\ CardsInv(d)
           /\ \A x \in Range(d.active) : x = card \/ (x \in Range(c.active) /\ x.id # card.id)
  <1> DEFINE w == Without(c.active, card.id)
  <1>1. Len(c.active) \in Nat /\ IsSeq(c.active) /\ IsSeq(c.cards) /\ IsSeq(c.history)
    BY SeqForm DEF CardsInv, AreCards
  <1>2. /\ AreCards(w) /\ OneEach(w) /\ Ranked(w) /\ Len(w) = Len(c.active) - 1
        /\ Range(w) = {x \in Range(c.active) : x.id # card.id}
        /\ CardIds(w) = CardIds(c.active) \ {card.id}
    BY WithoutKeeps DEF CardsInv
  <1>3. d.active = Insert(card, w)
    OBVIOUS
  <1> HIDE DEF w
  <1>4. /\ AreCards(d.active) /\ OneEach(d.active) /\ Ranked(d.active)
        /\ Len(d.active) = Len(w) + 1
        /\ Range(d.active) = Range(w) \cup {card}
        /\ CardIds(d.active) = CardIds(w) \cup {card.id}
    BY <1>2, <1>3, InsertKeeps
  <1>5. Len(d.active) <= MaxActive
    BY <1>1, <1>2, <1>4 DEF CardsInv
  <1>6. /\ AreCards(d.cards) /\ OneEach(d.cards) /\ Len(d.cards) = Len(c.cards)
        /\ \A i \in 1 .. Len(c.cards) :
              d.cards[i] = IF c.cards[i].id = card.id THEN card ELSE c.cards[i]
        /\ CardIds(d.cards) = CardIds(c.cards)
    BY ReplaceKeeps DEF CardsInv
  <1>7. CardIds(d.active) = CardIds(c.active)
    BY <1>2, <1>4
  <1>8. \A x \in Range(d.active) : x = card \/ (x \in Range(c.active) /\ x.id # card.id)
    BY <1>2, <1>4
  <1>9. Range(d.active) \subseteq Range(d.cards)
    <2> SUFFICES ASSUME NEW x \in Range(d.active) PROVE x \in Range(d.cards)
      OBVIOUS
    <2>1. CASE x = card
      <3>1. card.id \in CardIds(c.cards)
        BY DEF CardsInv
      <3>2. PICK i \in 1 .. Len(c.cards) : c.cards[i].id = card.id
        BY <1>1, <3>1, IdsOf
      <3>. QED  BY <1>6, <2>1, <3>2, RangeOf DEF AreCards
    <2>2. CASE x # card
      <3>1. x \in Range(c.cards) /\ x.id # card.id
        BY <1>8, <2>2 DEF CardsInv
      <3>2. PICK i \in 1 .. Len(c.cards) : c.cards[i] = x
        BY <1>1, <3>1, RangeOf
      <3>. QED  BY <1>6, <3>1, <3>2, RangeOf DEF AreCards
    <2>. QED  BY <2>1, <2>2
  <1>10. \A i \in 1 .. Len(d.cards) : IsLocal(d.cards[i].id) => d.cards[i].source # "llm"
    BY <1>6 DEF CardsInv
  <1>. QED  BY <1>4, <1>5, <1>6, <1>7, <1>8, <1>9, <1>10 DEF CardsInv

Withdrawn(x) == [x EXCEPT !.lifecycle = "withdrawn"]

\* A withdrawn card leaves the board and stays among the cards.
LEMMA WithdrawCards ==
    ASSUME NEW c, CardsInv(c), NEW id \in CardIds(c.cards), NEW card,
           card = Withdrawn(Shown(c, id)),
           NEW d,
           d.cards = ReplaceCard(c.cards, card),
           d.active = Without(c.active, id),
           d.history = Append(c.history, card), d.shown = c.shown
    PROVE  /\ CardsInv(d)
           /\ IsCard(card) /\ card.id = id
           /\ card.content = Shown(c, id).content /\ card.revision = Shown(c, id).revision
           /\ Range(d.active) = {x \in Range(c.active) : x.id # id}
  <1> DEFINE p == PlaceOf(c.cards, id)
  <1>1. /\ IsSeq(c.active) /\ IsSeq(c.cards) /\ IsSeq(c.history)
        /\ Len(c.active) \in Nat
    BY SeqForm DEF CardsInv, AreCards
  <1>2. p \in 1 .. Len(c.cards) /\ c.cards[p].id = id /\ Shown(c, id) = c.cards[p]
    BY CardAt, ShownIs DEF CardsInv
  <1> HIDE DEF p
  <1>3. /\ card.id = id /\ IsCard(card) /\ card.source = c.cards[p].source
        /\ card.content = Shown(c, id).content /\ card.revision = Shown(c, id).revision
    <2>1. IsCard(c.cards[p])
      BY <1>2 DEF CardsInv, AreCards
    <2>2. c.cards[p] = [f \in CardFields |-> c.cards[p][f]]
      BY <2>1 DEF IsCard
    <2>3. DOMAIN c.cards[p] = CardFields
      BY <2>2
    <2>4. /\ card = [f \in CardFields |-> card[f]] /\ card.id = id
          /\ card.label = c.cards[p].label /\ card.priority = c.cards[p].priority
          /\ card.revision = c.cards[p].revision /\ card.source = c.cards[p].source
          /\ card.content = c.cards[p].content
      BY <1>2, <2>3 DEF CardFields, Withdrawn
    <2>. QED  BY <1>2, <2>1, <2>4 DEF IsCard
  <1>4. /\ AreCards(d.active) /\ OneEach(d.active) /\ Ranked(d.active)
        /\ Len(d.active) = IF id \in CardIds(c.active) THEN Len(c.active) - 1
                                                       ELSE Len(c.active)
        /\ Range(d.active) = {x \in Range(c.active) : x.id # id}
        /\ CardIds(d.active) = CardIds(c.active) \ {id}
    BY WithoutKeeps DEF CardsInv
  <1>5. Len(d.active) <= MaxActive
    BY <1>1, <1>4, CoachingAssumption DEF CardsInv
  <1>6. /\ AreCards(d.cards) /\ OneEach(d.cards) /\ Len(d.cards) = Len(c.cards)
        /\ \A i \in 1 .. Len(c.cards) :
              d.cards[i] = IF c.cards[i].id = card.id THEN card ELSE c.cards[i]
        /\ CardIds(d.cards) = CardIds(c.cards)
    <2>1. AreCards(c.cards) /\ OneEach(c.cards) /\ IsCard(card)
      BY <1>3 DEF CardsInv
    <2>2. d.cards = ReplaceCard(c.cards, card)
      OBVIOUS
    <2>. QED  BY ONLY <2>1, <2>2, ReplaceKeeps
  <1>7. /\ IsSeq(d.history) /\ CardIds(d.history) = CardIds(c.history) \cup {id}
    <2>1. IsSeq(d.history) /\ Range(d.history) = Range(c.history) \cup {card}
      <3>1. d.history = Append(c.history, card) /\ IsSeq(c.history)
        BY <1>1
      <3>. QED  BY ONLY <3>1, Appended
    <2>2. /\ CardIds(c.history) = {x.id : x \in Range(c.history)}
          /\ CardIds(d.history) = {x.id : x \in Range(d.history)}
      BY <1>1, <2>1, IdsOf
    <2>3. card.id = id
      BY <1>3
    <2>. QED  BY ONLY <2>1, <2>2, <2>3
  <1>8. /\ CardIds(d.active) \cap CardIds(d.history) = {}
        /\ CardIds(d.active) \cup CardIds(d.history) = CardIds(d.cards)
    BY <1>4, <1>6, <1>7 DEF CardsInv
  <1>9. Range(d.active) \subseteq Range(d.cards)
    <2> SUFFICES ASSUME NEW x \in Range(d.active) PROVE x \in Range(d.cards)
      OBVIOUS
    <2>1. x \in Range(c.cards) /\ x.id # card.id
      BY <1>3, <1>4 DEF CardsInv
    <2>2. PICK i \in 1 .. Len(c.cards) : c.cards[i] = x
      BY <1>1, <2>1, RangeOf
    <2>. QED  BY <1>6, <2>1, <2>2, RangeOf DEF AreCards
  <1>10. \A i \in 1 .. Len(d.cards) : IsLocal(d.cards[i].id) => d.cards[i].source # "llm"
    BY <1>2, <1>3, <1>6 DEF CardsInv
  <1>. QED  BY <1>3, <1>4, <1>5, <1>6, <1>7, <1>8, <1>9, <1>10 DEF CardsInv
-----------------------------------------------------------------------------
(* What the coordinator remembers of the cards.                             *)

\* The action of a card follows from where its text comes from.
ActionFor(content) ==
    IF content[1] = "rule" THEN Rules[content[2]].action
    ELSE IF content[1] = "template" THEN "template_action" ELSE Policy.action

PrintOf(x) == <<ActionFor(x.content), x.content>>

PrintsInv(c, k) ==
    /\ IsFiniteSet(k.prints) /\ Cardinality(k.prints) = Len(c.cards)
    /\ \A i \in 1 .. Len(c.cards) :
          IsPromoted(c.cards[i]) \/ PrintOf(c.cards[i]) \in k.prints
    /\ \A i, j \in 1 .. Len(c.cards) :
          c.cards[i].content = c.cards[j].content =>
              i = j \/ IsPromoted(c.cards[i]) \/ IsPromoted(c.cards[j])

IdsInv(c, k) ==
    \A id \in CardIds(c.cards) :
        \/ \E q \in 1 .. c.revision, l \in BusinessLabels : id = <<"local", q, l>>
        \/ \E q \in k.external : id = <<"llm", q>>

CoachInv(c, k) ==
    /\ k.processed \cup k.external \subseteq 1 .. c.revision
    /\ IsSeq(k.partialKeys) /\ Len(k.partialKeys) <= PartialKeyLimit
    /\ DOMAIN k.provisional \subseteq BusinessLabels
    /\ \A l \in DOMAIN k.provisional :
          \E q \in 1 .. c.revision : k.provisional[l].id = <<"local", q, l>>

Kept(c, k) ==
    /\ IsCall(c) /\ IsCoach(k) /\ c.revision \in Nat
    /\ CardsInv(c) /\ LabelsInv(c) /\ PrintsInv(c, k) /\ IdsInv(c, k) /\ CoachInv(c, k)

SuggestionFields == {"id", "label", "priority", "source", "lifecycle", "action", "content"}

IsSuggestion(s) ==
    /\ s = [f \in SuggestionFields |-> s[f]]
    /\ s.label \in BusinessLabels \cup {NoLabel}
    /\ s.priority \in DOMAIN PriorityRank
    /\ s.action = ActionFor(s.content)
    /\ IsLocal(s.id) => s.source # "llm"

SameTracking(k, m) ==
    /\ m.processed = k.processed /\ m.external = k.external
    /\ m.provisional = k.provisional /\ m.partialKeys = k.partialKeys

\* The card of a suggestion has its identity, text and label, and the revision
\* of the event.
LEMMA CardOfIs ==
    ASSUME NEW s, IsSuggestion(s), NEW r \in Nat
    PROVE  LET x == CardOf(s, r)
           IN  /\ IsCard(x) /\ x.id = s.id /\ x.source = s.source /\ x.revision = r
               /\ x.content = s.content /\ x.lifecycle = s.lifecycle /\ x.label = s.label
  BY DEF CardOf, IsCard, IsSuggestion, CardFields

\* The books only depend on these parts.
LEMMA KeptStays ==
    ASSUME NEW c, NEW k, NEW d, NEW m, Kept(c, k), IsCall(d), IsCoach(m),
           d.revision = c.revision, SameCards(c, d), LabelsInv(d),
           m.prints = k.prints, SameTracking(k, m)
    PROVE  Kept(d, m)
  <1>1. CardsInv(d)
    BY CardsStay DEF Kept
  <1>2. PrintsInv(d, m) /\ IdsInv(d, m) /\ CoachInv(d, m)
    BY DEF Kept, PrintsInv, IdsInv, CoachInv, SameCards, SameTracking
  <1>. QED  BY <1>1, <1>2 DEF Kept

\* A candidate noted as detected.
LEMMA NotedKeeps ==
    ASSUME NEW b, IsBoard(b), Kept(b.call, b.coach), NEW s,
           NEW r \in 0 .. b.call.revision
    PROVE  LET n == Noted(b, s, r)
           IN  /\ IsBoard(n) /\ Kept(n.call, n.coach) /\ n.coach = b.coach
               /\ SameWhatWasSaid(b.call, n.call) /\ SameCards(b.call, n.call)
               /\ n.displayed = b.displayed /\ n.failed = b.failed
  <1> DEFINE n == Noted(b, s, r)
             e == RecordDetectedLabels(b.call, {s.label}, r)
  <1>1. DOMAIN b = BoardFields
    BY DEF IsBoard
  <1>2. CASE n = b
    BY <1>2 DEF SameWhatWasSaid, SameCards
  <1>3. CASE n = [b EXCEPT !.call = e]
    <2>1. IsCall(e) /\ SameWhatWasSaid(b.call, e) /\ SameCards(b.call, e)
      BY RecordFields DEF Kept
    <2>2. LabelsInv(e)
      BY RecordKeeps DEF Kept
    <2> HIDE DEF e, n
    <2>3. /\ IsBoard(n) /\ n.call = e /\ n.coach = b.coach
          /\ n.displayed = b.displayed /\ n.failed = b.failed
      BY <1>1, <1>3 DEF BoardFields, IsBoard
    <2>4. Kept(e, b.coach)
      <3>1. e.revision = b.call.revision
        BY <2>1 DEF SameWhatWasSaid
      <3>2. SameTracking(b.coach, b.coach) /\ IsCoach(b.coach)
        BY DEF SameTracking, Kept
      <3>. QED  BY <2>1, <2>2, <3>1, <3>2, KeptStays
    <2>. QED  BY <2>1, <2>3, <2>4 DEF n
  <1>4. n = b \/ n = [b EXCEPT !.call = e]
    BY DEF Noted
  <1>. QED  BY <1>2, <1>3, <1>4

\* An identity the call has not used yet.
IsNewId(c, k, id) ==
    /\ id \notin CardIds(c.cards)
    /\ \/ \E q \in 1 .. c.revision, l \in BusinessLabels : id = <<"local", q, l>>
       \/ \E q \in k.external : id = <<"llm", q>>

\* A card that is shown adds its fingerprint, and changes nothing tracked.
LEMMA ShowingIs ==
    ASSUME NEW k, IsCoach(k), NEW s, NEW now
    PROVE  LET m == Showing(k, s, now)
           IN  /\ IsCoach(m) /\ SameTracking(k, m)
               /\ m.prints = k.prints \cup {Fingerprint(s)}
  <1>1. DOMAIN k = CoachFields
    BY DEF IsCoach
  <1>2. PICK t : Showing(k, s, now) = [k EXCEPT !.prints = @ \cup {Fingerprint(s)},
                                                !.times = t]
    BY DEF Showing
  <1>. QED  BY <1>1, <1>2 DEF CoachFields, IsCoach, SameTracking

\* An admitted candidate keeps the books of the call (_admit_candidate).
LEMMA AdmitKeeps ==
    ASSUME NEW c, NEW k, Kept(c, k), NEW s, IsSuggestion(s), NEW r \in 0 .. c.revision,
           NEW now, IsNewId(c, k, s.id), Fingerprint(s) \notin k.prints
    PROVE  LET d == MarkShown(AdmitCard(c, CardOf(s, r), MaxActive), s.id)
           IN  /\ Kept(d, Showing(k, s, now)) /\ SameWhatWasSaid(c, d)
               /\ d.cards = Append(c.cards, CardOf(s, r))
               /\ Range(d.active) \subseteq Range(c.active) \cup {CardOf(s, r)}
  <1> DEFINE card == CardOf(s, r)
             a == AdmitCard(c, card, MaxActive)
             d == MarkShown(a, s.id)
             m == Showing(k, s, now)
  <1>0. r \in Nat
    BY DEF Kept
  <1>1. /\ IsCard(card) /\ card.id = s.id /\ card.source = s.source
        /\ card.revision = r /\ card.content = s.content
    BY <1>0, CardOfIs
  <1> HIDE DEF card
  <1>2. /\ IsCall(a) /\ SameWhatWasSaid(c, a)
        /\ a.cards = Append(c.cards, card)
        /\ a.active = Insert(card, IF Len(c.active) >= MaxActive
                                   THEN Without(c.active, WeakestCard(c.active).id)
                                   ELSE c.active)
        /\ a.history = IF Len(c.active) >= MaxActive
                       THEN Append(c.history, WeakestCard(c.active)) ELSE c.history
        /\ a.shown = c.shown
        /\ \E e : /\ IsCall(e) /\ SameWhatWasSaid(c, e) /\ SameLabels(c, e)
                  /\ a = Confirm(e, card)
    BY AdmitFields DEF Kept
  <1>3. LabelsInv(a)
    <2>1. PICK e : /\ IsCall(e) /\ SameWhatWasSaid(c, e) /\ SameLabels(c, e)
                   /\ a = Confirm(e, card)
      BY <1>2
    <2>2. LabelsInv(e) /\ card.revision \in 0 .. e.revision
      BY <1>1, <2>1, LabelsStay DEF Kept, SameWhatWasSaid
    <2> HIDE DEF a
    <2>. QED  BY <2>1, <2>2, ConfirmLabels
  <1> HIDE DEF a
  <1>4. /\ IsCall(d) /\ SameWhatWasSaid(a, d) /\ SameLabels(a, d)
        /\ d.cards = a.cards /\ d.active = a.active /\ d.history = a.history
        /\ d.shown = a.shown \cup {s.id}
    BY <1>2, MarkFields
  <1> HIDE DEF d
  <1>5. SameWhatWasSaid(c, d) /\ d.revision = c.revision /\ LabelsInv(d)
    BY <1>2, <1>3, <1>4, LabelsStay DEF SameWhatWasSaid
  <1>6. CardsInv(d) /\ Range(d.active) \subseteq Range(c.active) \cup {card}
    <2>1. /\ CardsInv(c) /\ IsCard(card) /\ card.id \notin CardIds(c.cards)
          /\ IsLocal(card.id) => card.source # "llm"
      BY <1>1 DEF Kept, IsNewId, IsSuggestion
    <2>2. /\ d.cards = Append(c.cards, card)
          /\ d.active = Insert(card, IF Len(c.active) >= MaxActive
                                     THEN Without(c.active, WeakestCard(c.active).id)
                                     ELSE c.active)
          /\ d.history = IF Len(c.active) >= MaxActive
                         THEN Append(c.history, WeakestCard(c.active)) ELSE c.history
          /\ d.shown = c.shown \cup {card.id}
      BY <1>1, <1>2, <1>4
    <2>. QED  BY ONLY <2>1, <2>2, AdmitCards
  <1>7. IsCoach(m) /\ SameTracking(k, m) /\ m.prints = k.prints \cup {Fingerprint(s)}
    BY ShowingIs DEF Kept
  <1> HIDE DEF m
  <1>8. IsSeq(c.cards) /\ Len(c.cards) \in Nat
    BY SeqForm DEF Kept, CardsInv, AreCards
  <1>9. /\ Len(d.cards) = Len(c.cards) + 1
        /\ \A i \in 1 .. Len(d.cards) :
              \/ i \in 1 .. Len(c.cards) /\ d.cards[i] = c.cards[i]
              \/ i = Len(c.cards) + 1 /\ d.cards[i] = card
        /\ Range(d.cards) = Range(c.cards) \cup {card}
    <2>1. d.cards = Append(c.cards, card)
      BY <1>2, <1>4
    <2>. QED  BY <1>8, <2>1, Appended
  <1>10. Fingerprint(s) = PrintOf(card)
    BY <1>1 DEF Fingerprint, PrintOf, IsSuggestion
  <1>11. PrintsInv(d, m)
    <2>1. IsFiniteSet(m.prints) /\ Cardinality(m.prints) = Len(c.cards) + 1
      BY <1>7, FS_AddElement DEF Kept, PrintsInv
    <2>2. \A i \in 1 .. Len(d.cards) :
             IsPromoted(d.cards[i]) \/ PrintOf(d.cards[i]) \in m.prints
      BY <1>7, <1>9, <1>10 DEF Kept, PrintsInv
    <2>3. \A i \in 1 .. Len(c.cards) :
             c.cards[i].content = card.content => IsPromoted(c.cards[i])
      BY <1>10 DEF Kept, PrintsInv, PrintOf
    <2>4. \A i, j \in 1 .. Len(d.cards) :
             d.cards[i].content = d.cards[j].content =>
                 i = j \/ IsPromoted(d.cards[i]) \/ IsPromoted(d.cards[j])
      BY <1>9, <2>3 DEF Kept, PrintsInv
    <2>. QED  BY <1>9, <2>1, <2>2, <2>4 DEF PrintsInv
  <1>12. IdsInv(d, m)
    <2>1. CardIds(d.cards) = CardIds(c.cards) \cup {s.id}
      BY <1>1, <1>6, <1>8, <1>9, IdsOf DEF CardsInv, AreCards
    <2>. QED  BY <1>5, <1>7, <2>1 DEF IdsInv, IsNewId, Kept, SameTracking
  <1>13. CoachInv(d, m)
    BY <1>5, <1>7 DEF CoachInv, Kept, SameTracking
  <1>. QED  BY <1>2, <1>4, <1>5, <1>6, <1>7, <1>11, <1>12, <1>13 DEF Kept, d, m, card, a

\* A candidate that is offered is shown as a new card, or changes no card.
LEMMA OfferKeeps ==
    ASSUME NEW b, IsBoard(b), Kept(b.call, b.coach), NEW s, IsSuggestion(s),
           NEW r \in 0 .. b.call.revision, NEW now, IsNewId(b.call, b.coach, s.id)
    PROVE  LET d == Offer(b, s, r, now)
           IN  /\ IsBoard(d) /\ Kept(d.call, d.coach)
               /\ SameWhatWasSaid(b.call, d.call) /\ SameTracking(b.coach, d.coach)
               /\ d.failed = b.failed
               /\ \/ /\ d.displayed = b.displayed /\ d.call.cards = b.call.cards
                     /\ Range(d.call.active) = Range(b.call.active)
                  \/ /\ d.displayed = b.displayed \cup {s}
                     /\ d.call.cards = Append(b.call.cards, CardOf(s, r))
                     /\ Range(d.call.active) \subseteq
                            Range(b.call.active) \cup {CardOf(s, r)}
  <1> DEFINE n == Noted(b, s, r)
             a == MarkShown(AdmitCard(n.call, CardOf(s, r), MaxActive), s.id)
             m == Showing(n.coach, s, now)
             d == Offer(b, s, r, now)
  <1>1. /\ IsBoard(n) /\ Kept(n.call, n.coach) /\ n.coach = b.coach
        /\ SameWhatWasSaid(b.call, n.call) /\ SameCards(b.call, n.call)
        /\ n.displayed = b.displayed /\ n.failed = b.failed
    BY NotedKeeps
  <1>2. \/ d = n
        \/ /\ Fingerprint(s) \notin n.coach.prints
           /\ d = [n EXCEPT !.call = a, !.coach = m, !.displayed = @ \cup {s}]
    BY DEF Offer, AdmitCandidate
  <1> HIDE DEF n, d
  <1>3. CASE d = n
    BY <1>1, <1>3 DEF SameTracking, SameCards, d
  <1>4. CASE d # n
    <2>1. r \in 0 .. n.call.revision /\ IsNewId(n.call, n.coach, s.id)
      BY <1>1 DEF SameWhatWasSaid, SameCards, IsNewId
    <2>2. /\ Kept(a, m) /\ SameWhatWasSaid(n.call, a)
          /\ a.cards = Append(n.call.cards, CardOf(s, r))
          /\ Range(a.active) \subseteq Range(n.call.active) \cup {CardOf(s, r)}
      BY <1>1, <1>2, <1>4, <2>1, AdmitKeeps
    <2>3. SameTracking(n.coach, m)
      BY <1>1, ShowingIs DEF Kept
    <2>4. d = [n EXCEPT !.call = a, !.coach = m, !.displayed = @ \cup {s}]
      BY <1>2, <1>4
    <2> HIDE DEF a, m
    <2>5. /\ IsBoard(d) /\ d.call = a /\ d.coach = m /\ d.failed = b.failed
          /\ d.displayed = b.displayed \cup {s}
      <3>1. DOMAIN n = BoardFields
        BY <1>1 DEF IsBoard
      <3>. QED  BY <1>1, <2>4, <3>1 DEF BoardFields, IsBoard
    <2>6. SameWhatWasSaid(b.call, a) /\ SameTracking(b.coach, m)
      BY <1>1, <2>2, <2>3 DEF SameWhatWasSaid, SameTracking
    <2>7. /\ a.cards = Append(b.call.cards, CardOf(s, r))
          /\ Range(a.active) \subseteq Range(b.call.active) \cup {CardOf(s, r)}
      BY <1>1, <2>2 DEF SameCards
    <2>. QED  BY <2>2, <2>5, <2>6, <2>7 DEF d
  <1>. QED  BY <1>3, <1>4
\* The same cards in the same places, by identity.
SameIds(c, d) ==
    /\ Len(d.cards) = Len(c.cards)
    /\ \A i \in 1 .. Len(c.cards) : d.cards[i].id = c.cards[i].id

\* A withdrawn card keeps its text.
LEMMA WithdrawKeeps ==
    ASSUME NEW c, NEW k, Kept(c, k), NEW id
    PROVE  LET d == WithdrawCard(c, id)
           IN  /\ Kept(d, k) /\ SameWhatWasSaid(c, d) /\ SameIds(c, d)
               /\ Range(d.active) = {x \in Range(c.active) : x.id # id}
  <1> DEFINE d == WithdrawCard(c, id)
             card == [Shown(c, id) EXCEPT !.lifecycle = "withdrawn"]
  <1>0. /\ IsSeq(c.cards) /\ IsSeq(c.active) /\ AreCards(c.cards) /\ OneEach(c.cards)
        /\ CardIds(c.active) \subseteq CardIds(c.cards)
    BY DEF Kept, CardsInv, AreCards
  <1>1. CASE id \notin CardIds(c.cards)
    <2>1. ~Holds(c.cards, id) /\ ~Holds(c.active, id)
      BY <1>0, <1>1, IdsOf
    <2>2. d = c
      BY <2>1 DEF WithdrawCard
    <2>3. \A x \in Range(c.active) : x.id # id
      BY <1>0, <1>1, IdsOf
    <2>4. Range(c.active) = {x \in Range(c.active) : x.id # id}
      BY <2>3
    <2> HIDE DEF d
    <2>. QED  BY <2>2, <2>4 DEF SameWhatWasSaid, SameIds, d
  <1>2. CASE id \in CardIds(c.cards)
    <2>1. /\ IsCall(d) /\ SameWhatWasSaid(c, d) /\ SameLabels(c, d)
          /\ d.cards = ReplaceCard(c.cards, card)
          /\ d.active = Without(c.active, id)
          /\ d.history = Append(c.history, card) /\ d.shown = c.shown
      <3>1. Holds(c.cards, id)
        BY <1>0, <1>2, IdsOf
      <3>. QED  BY <3>1, WithdrawFields DEF Kept
    <2> HIDE DEF d
    <2>2. /\ CardsInv(d) /\ IsCard(card) /\ card.id = id
          /\ card.content = Shown(c, id).content /\ card.revision = Shown(c, id).revision
          /\ Range(d.active) = {x \in Range(c.active) : x.id # id}
      <3>1. CardsInv(c) /\ card = Withdrawn(Shown(c, id))
        BY DEF Kept, Withdrawn
      <3> HIDE DEF card
      <3>2. d.cards = ReplaceCard(c.cards, card) /\ d.history = Append(c.history, card)
        BY <2>1
      <3>. QED  BY <1>2, <2>1, <3>1, <3>2, WithdrawCards
    <2> DEFINE p == PlaceOf(c.cards, id)
    <2>3. /\ p \in 1 .. Len(c.cards) /\ Shown(c, id) = c.cards[p]
          /\ \A i \in 1 .. Len(c.cards) : c.cards[i].id = id => i = p
      BY <1>0, <1>2, CardAt, ShownIs DEF Kept
    <2> HIDE DEF card, p
    <2>4. /\ Len(d.cards) = Len(c.cards)
          /\ \A i \in 1 .. Len(c.cards) :
                d.cards[i] = IF c.cards[i].id = card.id THEN card ELSE c.cards[i]
          /\ CardIds(d.cards) = CardIds(c.cards)
      <3>1. AreCards(c.cards) /\ OneEach(c.cards) /\ IsCard(card)
        BY <1>0, <2>2
      <3>2. d.cards = ReplaceCard(c.cards, card)
        BY <2>1
      <3>. QED  BY ONLY <3>1, <3>2, ReplaceKeeps
    <2>5. \A i \in 1 .. Len(c.cards) : /\ d.cards[i].id = c.cards[i].id
                                       /\ d.cards[i].content = c.cards[i].content
                                       /\ d.cards[i].revision = c.cards[i].revision
      BY <2>2, <2>3, <2>4
    <2>6. PrintsInv(d, k)
      <3>1. \A i \in 1 .. Len(c.cards) :
               /\ IsPromoted(d.cards[i]) <=> IsPromoted(c.cards[i])
               /\ PrintOf(d.cards[i]) = PrintOf(c.cards[i])
        BY <2>5 DEF IsPromoted, PrintOf
      <3>. QED  BY <2>4, <2>5, <3>1 DEF Kept, PrintsInv
    <2>7. LabelsInv(d) /\ d.revision = c.revision
      BY <2>1, LabelsStay DEF Kept, SameWhatWasSaid
    <2>8. IdsInv(d, k) /\ CoachInv(d, k)
      BY <2>4, <2>7 DEF Kept, IdsInv, CoachInv
    <2>. QED  BY <2>1, <2>2, <2>4, <2>5, <2>6, <2>7, <2>8 DEF Kept, SameIds, d
  <1>. QED  BY <1>1, <1>2

\* Every tracked card comes from before a revision.
TrackedBefore(c, k, r) ==
    \A l \in DOMAIN k.provisional :
        \E q \in 1 .. c.revision : k.provisional[l].id = <<"local", q, l>> /\ q < r

\* What the promotion by a suggestion comes to.
PromotedBy(b, d, s) ==
    /\ IsBoard(d) /\ Kept(d.call, d.coach)
    /\ SameWhatWasSaid(b.call, d.call) /\ SameIds(b.call, d.call)
    /\ d.displayed = b.displayed /\ d.failed \in {b.failed, TRUE}
    /\ d.coach.processed = b.coach.processed
    /\ d.coach.external = b.coach.external
    /\ d.coach.partialKeys = b.coach.partialKeys
    /\ d.coach.provisional = WithoutKey(b.coach.provisional, s.label)
    /\ \A x \in Range(d.call.active) :
          \/ x.lifecycle = s.lifecycle
          \/ x \in Range(b.call.active) /\ x.id # b.coach.provisional[s.label].id

\* A candidate whose label has a provisional card takes that card over, under
\* its identity, or fails when the card is gone.
LEMMA PromoteKeeps ==
    ASSUME NEW b, IsBoard(b), Kept(b.call, b.coach), NEW s, IsSuggestion(s),
           s.label \in DOMAIN b.coach.provisional, s.source # "llm",
           NEW r \in 1 .. b.call.revision, TrackedBefore(b.call, b.coach, r)
    PROVE  PromotedBy(b, Promote(b, s, r), s)
  <1>. PICK q \in 1 .. b.call.revision :
           b.coach.provisional[s.label].id = <<"local", q, s.label>> /\ q < r
    BY DEF TrackedBefore
  <1> DEFINE id == <<"local", q, s.label>>
             c == b.call
             k == b.coach
             m == [k EXCEPT !.provisional = WithoutKey(@, s.label)]
             card == CardOf([s EXCEPT !.id = id], r)
             a == UpdateCard(c, card)
             d == Promote(b, s, r)
  <1>0. /\ IsSeq(c.cards) /\ IsSeq(c.active) /\ AreCards(c.cards) /\ OneEach(c.cards)
        /\ CardIds(c.active) \subseteq CardIds(c.cards)
        /\ DOMAIN b = BoardFields /\ DOMAIN k = CoachFields /\ IsCall(c) /\ c.revision \in Nat
    BY DEF Kept, CardsInv, AreCards, IsBoard, IsCoach
  <1>1. IF Holds(c.active, id) THEN d = [b EXCEPT !.coach = m, !.call = a]
                               ELSE d = [b EXCEPT !.coach = m, !.failed = TRUE]
    <2>1. b.coach.provisional[s.label].id = id
      OBVIOUS
    <2>. QED  BY <2>1 DEF Promote, IsActive
  <1>2. /\ IsCoach(m) /\ m.prints = k.prints /\ m.processed = k.processed
        /\ m.external = k.external /\ m.partialKeys = k.partialKeys
        /\ m.provisional = WithoutKey(k.provisional, s.label)
    BY <1>0 DEF CoachFields, IsCoach
  <1> HIDE DEF m, d
  <1>3. CoachInv(c, m)
    <2>1. CoachInv(c, k)
      BY DEF Kept
    <2>2. /\ DOMAIN m.provisional = DOMAIN k.provisional \ {s.label}
          /\ \A l \in DOMAIN m.provisional : m.provisional[l] = k.provisional[l]
      BY ONLY <1>2 DEF WithoutKey
    <2>. QED  BY ONLY <1>2, <2>1, <2>2 DEF CoachInv
  <1>4. CASE ~Holds(c.active, id)
    <2>1. /\ IsBoard(d) /\ d.call = c /\ d.coach = m /\ d.failed = TRUE
          /\ d.displayed = b.displayed
      BY <1>0, <1>1, <1>4 DEF BoardFields, IsBoard
    <2>2. Kept(c, m)
      BY <1>2, <1>3 DEF Kept, PrintsInv, IdsInv
    <2>3. \A x \in Range(c.active) : x.id # id
      BY <1>0, <1>4, IdsOf
    <2>. QED  BY <1>2, <2>1, <2>2, <2>3 DEF SameWhatWasSaid, SameIds, PromotedBy, d
  <1>5. CASE Holds(c.active, id)
    <2>1. /\ IsCard(card) /\ card.id = id /\ card.source = s.source /\ card.revision = r
          /\ card.content = s.content /\ card.lifecycle = s.lifecycle
      <3> DEFINE t == [s EXCEPT !.id = id]
      <3>1. DOMAIN s = SuggestionFields
        BY DEF IsSuggestion
      <3>2. /\ t = [f \in SuggestionFields |-> t[f]] /\ t.id = id /\ t.label = s.label
            /\ t.priority = s.priority /\ t.source = s.source /\ t.lifecycle = s.lifecycle
            /\ t.action = s.action /\ t.content = s.content
        BY <3>1 DEF SuggestionFields
      <3> HIDE DEF t
      <3>3. IsSuggestion(t) /\ r \in Nat
        BY <1>0, <3>2 DEF IsSuggestion
      <3>4. card = CardOf(t, r)
        BY DEF t
      <3> HIDE DEF card
      <3>5. /\ IsCard(card) /\ card.id = t.id /\ card.source = t.source
            /\ card.revision = r /\ card.content = t.content
            /\ card.lifecycle = t.lifecycle
        BY <3>3, <3>4, CardOfIs
      <3>. QED  BY <3>2, <3>5
    <2> HIDE DEF card
    <2>2. /\ IsCall(a) /\ SameWhatWasSaid(c, a) /\ a.labels = c.labels
          /\ a.cards = ReplaceCard(c.cards, card)
          /\ a.active = Insert(card, Without(c.active, card.id))
          /\ a.history = c.history /\ a.shown = c.shown
          /\ \E e : /\ IsCall(e) /\ SameWhatWasSaid(c, e) /\ SameLabels(c, e)
                    /\ a = Confirm(e, card)
      BY <1>0, UpdateFields
    <2> HIDE DEF a
    <2>3. LabelsInv(a) /\ a.revision = c.revision
      <3>1. PICK e : /\ IsCall(e) /\ SameWhatWasSaid(c, e) /\ SameLabels(c, e)
                     /\ a = Confirm(e, card)
        BY <2>2
      <3>2. LabelsInv(e) /\ card.revision \in 0 .. e.revision
        BY <1>0, <2>1, <3>1, LabelsStay DEF Kept, SameWhatWasSaid
      <3>. QED  BY <2>2, <3>1, <3>2, ConfirmLabels DEF SameWhatWasSaid
    <2>4. card.id \in CardIds(c.active) /\ card.source # "llm"
      BY <1>0, <1>5, <2>1, IdsOf
    <2>5. /\ CardsInv(a)
          /\ \A x \in Range(a.active) : x = card \/ (x \in Range(c.active) /\ x.id # card.id)
      BY <2>1, <2>2, <2>4, UpdateCards DEF Kept
    <2>6. /\ Len(a.cards) = Len(c.cards)
          /\ \A i \in 1 .. Len(c.cards) :
                a.cards[i] = IF c.cards[i].id = card.id THEN card ELSE c.cards[i]
          /\ CardIds(a.cards) = CardIds(c.cards)
      <3>1. AreCards(c.cards) /\ OneEach(c.cards) /\ IsCard(card)
        BY <1>0, <2>1
      <3>2. a.cards = ReplaceCard(c.cards, card)
        BY <2>2
      <3>. QED  BY ONLY <3>1, <3>2, ReplaceKeeps
    <2>7. IsPromoted(card)
      <3>1. card.id[2] = q /\ q # r
        BY <1>0, <2>1
      <3>. QED  BY <2>1, <3>1 DEF IsPromoted
    <2>8. PrintsInv(a, m)
      BY <1>2, <2>6, <2>7 DEF Kept, PrintsInv
    <2>9. IdsInv(a, m) /\ CoachInv(a, m)
      BY <1>2, <1>3, <2>3, <2>6 DEF Kept, IdsInv, CoachInv
    <2>10. Kept(a, m)
      BY <1>0, <1>2, <2>2, <2>3, <2>5, <2>8, <2>9 DEF Kept
    <2>11. SameIds(c, a)
      BY <2>6 DEF SameIds
    <2>12. /\ IsBoard(d) /\ d.call = a /\ d.coach = m /\ d.failed = b.failed
           /\ d.displayed = b.displayed
      BY <1>0, <1>1, <1>5 DEF BoardFields, IsBoard
    <2>13. \A x \in Range(a.active) : x.lifecycle = s.lifecycle
                                      \/ (x \in Range(c.active) /\ x.id # id)
      BY <2>1, <2>5
    <2>. QED  BY <1>2, <2>2, <2>10, <2>11, <2>12, <2>13 DEF PromotedBy, d
  <1>. QED  BY <1>4, <1>5
-----------------------------------------------------------------------------
(* What is done label by label, in the order of the labels.                 *)

WithdrawOn(b, id) == [b EXCEPT !.call = WithdrawCard(@, id)]

\* The offers of ApplySuggestionPolicy, one after the other.
LEMMA OffersUnfold ==
    ASSUME NEW board, NEW suggestions, NEW r, NEW now
    PROVE  \E f : /\ f[0] = board
                  /\ \A n \in 1 .. Len(LabelOrder) :
                        f[n] = IF LabelOrder[n] \in DOMAIN suggestions
                               THEN Offer(f[n - 1], suggestions[LabelOrder[n]], r, now)
                               ELSE f[n - 1]
                  /\ ApplySuggestionPolicy(board, suggestions, r, now)
                         = Triggered(f[Len(LabelOrder)], now)
  <1> DEFINE N == Len(LabelOrder)
             step(b, n) == IF LabelOrder[n] \in DOMAIN suggestions
                           THEN Offer(b, suggestions[LabelOrder[n]], r, now)
                           ELSE b
             after(f, n) == step(f[n - 1], n)
             IsRun(f, m) == f = [n \in 0 .. m |-> IF n = 0 THEN board ELSE after(f, n)]
             A == {m \in Nat : \E f : IsRun(f, m)}
  <1>1. 0 \in A
    <2>1. IsRun([n \in 0 .. 0 |-> board], 0)
      OBVIOUS
    <2>. QED  BY <2>1
  <1>2. ASSUME NEW m \in A PROVE m + 1 \in A
    <2>1. PICK f : IsRun(f, m)
      OBVIOUS
    <2> DEFINE g == [n \in 0 .. m + 1 |-> IF n = m + 1 THEN after(f, n) ELSE f[n]]
    <2>2. \A n \in 1 .. m + 1 : after(g, n) = after(f, n)
      <3> TAKE n \in 1 .. m + 1
      <3>1. g[n - 1] = f[n - 1]
        OBVIOUS
      <3> HIDE DEF step, g
      <3>. QED  BY <3>1
    <2>3. \A n \in 0 .. m : f[n] = IF n = 0 THEN board ELSE after(f, n)
      <3> HIDE DEF after
      <3>. QED  BY <2>1
    <2> HIDE DEF after
    <2>4. \A n \in 0 .. m + 1 : g[n] = IF n = 0 THEN board ELSE after(g, n)
      BY <2>2, <2>3
    <2>5. IsRun(g, m + 1)
      BY <2>4
    <2>6. \E h : IsRun(h, m + 1)
      BY <2>5
    <2> HIDE DEF g, IsRun
    <2>. QED  BY <2>6
  <1>3. A = Nat
    <2>1. A \in SUBSET Nat
      OBVIOUS
    <2> HIDE DEF A
    <2>. QED  BY <1>1, <1>2, <2>1, Induction
  <1>4. N \in Nat
    BY LabelOrderAssumption
  <1>5. \E f : IsRun(f, N)
    BY <1>3, <1>4
  <1> DEFINE run == CHOOSE f : IsRun(f, N)
  <1>6. IsRun(run, N)
    BY <1>5, Zenon
  <1>7. ApplySuggestionPolicy(board, suggestions, r, now) = Triggered(run[N], now)
    BY Zenon DEF InLabelOrder, ApplySuggestionPolicy
  <1> HIDE DEF run
  <1>8. run[0] = board /\ \A n \in 1 .. N : run[n] = after(run, n)
    <2> HIDE DEF after
    <2>. QED  BY <1>4, <1>6
  <1>. QED  BY <1>7, <1>8

\* The promotions of a committed event.
LEMMA PromotionsUnfold ==
    ASSUME NEW board, NEW suggestions, NEW r
    PROVE  \E f : /\ f[0] = board
                  /\ \A n \in 1 .. Len(LabelOrder) :
                        f[n] = IF LabelOrder[n] \in DOMAIN suggestions
                               THEN IF \/ f[n - 1].failed
                                       \/ LabelOrder[n] \notin DOMAIN f[n - 1].coach.provisional
                                    THEN f[n - 1]
                                    ELSE Promote(f[n - 1], suggestions[LabelOrder[n]], r)
                               ELSE f[n - 1]
                  /\ PromoteAll(board, suggestions, r) = f[Len(LabelOrder)]
  <1> DEFINE N == Len(LabelOrder)
             step(b, n) == IF LabelOrder[n] \in DOMAIN suggestions
                           THEN IF \/ b.failed
                                    \/ LabelOrder[n] \notin DOMAIN b.coach.provisional
                                 THEN b
                                 ELSE Promote(b, suggestions[LabelOrder[n]], r)
                           ELSE b
             after(f, n) == step(f[n - 1], n)
             IsRun(f, m) == f = [n \in 0 .. m |-> IF n = 0 THEN board ELSE after(f, n)]
             A == {m \in Nat : \E f : IsRun(f, m)}
  <1>1. 0 \in A
    <2>1. IsRun([n \in 0 .. 0 |-> board], 0)
      OBVIOUS
    <2>. QED  BY <2>1
  <1>2. ASSUME NEW m \in A PROVE m + 1 \in A
    <2>1. PICK f : IsRun(f, m)
      OBVIOUS
    <2> DEFINE g == [n \in 0 .. m + 1 |-> IF n = m + 1 THEN after(f, n) ELSE f[n]]
    <2>2. \A n \in 1 .. m + 1 : after(g, n) = after(f, n)
      <3> TAKE n \in 1 .. m + 1
      <3>1. g[n - 1] = f[n - 1]
        OBVIOUS
      <3> HIDE DEF step, g
      <3>. QED  BY <3>1
    <2>3. \A n \in 0 .. m : f[n] = IF n = 0 THEN board ELSE after(f, n)
      <3> HIDE DEF after
      <3>. QED  BY <2>1
    <2> HIDE DEF after
    <2>4. \A n \in 0 .. m + 1 : g[n] = IF n = 0 THEN board ELSE after(g, n)
      BY <2>2, <2>3
    <2>5. IsRun(g, m + 1)
      BY <2>4
    <2>6. \E h : IsRun(h, m + 1)
      BY <2>5
    <2> HIDE DEF g, IsRun
    <2>. QED  BY <2>6
  <1>3. A = Nat
    <2>1. A \in SUBSET Nat
      OBVIOUS
    <2> HIDE DEF A
    <2>. QED  BY <1>1, <1>2, <2>1, Induction
  <1>4. N \in Nat
    BY LabelOrderAssumption
  <1>5. \E f : IsRun(f, N)
    BY <1>3, <1>4
  <1> DEFINE run == CHOOSE f : IsRun(f, N)
  <1>6. IsRun(run, N)
    BY <1>5, Zenon
  <1>7. PromoteAll(board, suggestions, r) = run[N]
    BY Zenon DEF InLabelOrder, PromoteAll
  <1> HIDE DEF run
  <1>8. run[0] = board /\ \A n \in 1 .. N : run[n] = after(run, n)
    <2> HIDE DEF after
    <2>. QED  BY <1>4, <1>6
  <1>. QED  BY <1>7, <1>8

\* The withdrawals of a committed event.
LEMMA WithdrawalsUnfold ==
    ASSUME NEW board, NEW provisional, provisional = board.coach.provisional
    PROVE  \E f : /\ f[0] = board
                  /\ \A n \in 1 .. Len(LabelOrder) :
                        f[n] = IF LabelOrder[n] \in DOMAIN provisional
                               THEN WithdrawOn(f[n - 1], provisional[LabelOrder[n]].id)
                               ELSE f[n - 1]
                  /\ WithdrawAll(board)
                         = [f[Len(LabelOrder)] EXCEPT !.coach = [@ EXCEPT !.provisional = <<>>]]
  <1> DEFINE N == Len(LabelOrder)
             step(b, n) == IF LabelOrder[n] \in DOMAIN provisional
                           THEN WithdrawOn(b, provisional[LabelOrder[n]].id)
                           ELSE b
             after(f, n) == step(f[n - 1], n)
             IsRun(f, m) == f = [n \in 0 .. m |-> IF n = 0 THEN board ELSE after(f, n)]
             A == {m \in Nat : \E f : IsRun(f, m)}
  <1>1. 0 \in A
    <2>1. IsRun([n \in 0 .. 0 |-> board], 0)
      OBVIOUS
    <2>. QED  BY <2>1
  <1>2. ASSUME NEW m \in A PROVE m + 1 \in A
    <2>1. PICK f : IsRun(f, m)
      OBVIOUS
    <2> DEFINE g == [n \in 0 .. m + 1 |-> IF n = m + 1 THEN after(f, n) ELSE f[n]]
    <2>2. \A n \in 1 .. m + 1 : after(g, n) = after(f, n)
      <3> TAKE n \in 1 .. m + 1
      <3>1. g[n - 1] = f[n - 1]
        OBVIOUS
      <3> HIDE DEF step, g
      <3>. QED  BY <3>1
    <2>3. \A n \in 0 .. m : f[n] = IF n = 0 THEN board ELSE after(f, n)
      <3> HIDE DEF after
      <3>. QED  BY <2>1
    <2> HIDE DEF after
    <2>4. \A n \in 0 .. m + 1 : g[n] = IF n = 0 THEN board ELSE after(g, n)
      BY <2>2, <2>3
    <2>5. IsRun(g, m + 1)
      BY <2>4
    <2>6. \E h : IsRun(h, m + 1)
      BY <2>5
    <2> HIDE DEF g, IsRun
    <2>. QED  BY <2>6
  <1>3. A = Nat
    <2>1. A \in SUBSET Nat
      OBVIOUS
    <2> HIDE DEF A
    <2>. QED  BY <1>1, <1>2, <2>1, Induction
  <1>4. N \in Nat
    BY LabelOrderAssumption
  <1>5. \E f : IsRun(f, N)
    BY <1>3, <1>4
  <1> DEFINE run == CHOOSE f : IsRun(f, N)
  <1>6. IsRun(run, N)
    BY <1>5, Zenon
  <1>7. WithdrawAll(board) = [run[N] EXCEPT !.coach = [@ EXCEPT !.provisional = <<>>]]
    BY Zenon DEF InLabelOrder, WithdrawAll, WithdrawOn
  <1> HIDE DEF run
  <1>8. run[0] = board /\ \A n \in 1 .. N : run[n] = after(run, n)
    <2> HIDE DEF after
    <2>. QED  BY <1>4, <1>6
  <1>. QED  BY <1>7, <1>8

\* The labels are in order, each once.
LEMMA LabelsInOrder ==
    /\ Len(LabelOrder) \in Nat
    /\ \A n \in 1 .. Len(LabelOrder) : LabelOrder[n] \in BusinessLabels
    /\ \A n, m \in 1 .. Len(LabelOrder) : LabelOrder[n] = LabelOrder[m] => n = m
    /\ \A l \in BusinessLabels : \E n \in 1 .. Len(LabelOrder) : l = LabelOrder[n]
  <1>1. DOMAIN LabelOrder = 1 .. Len(LabelOrder) /\ Len(LabelOrder) \in Nat
    BY LabelOrderAssumption
  <1>. QED  BY <1>1, LabelOrderAssumption DEF BusinessLabels, Range, IsInjective

\* The labels that had their turn.
LabelsUpTo(n) == {LabelOrder[i] : i \in 1 .. n}

\* One label more has been gone through.
LEMMA LabelsUpToIs ==
    ASSUME NEW n \in 1 .. Len(LabelOrder)
    PROVE  /\ LabelsUpTo(n) = LabelsUpTo(n - 1) \cup {LabelOrder[n]}
           /\ LabelOrder[n] \notin LabelsUpTo(n - 1)
  <1>1. \A i : i \in 1 .. n <=> i \in 1 .. n - 1 \/ i = n
    BY LabelsInOrder
  <1>2. \A i \in 1 .. n - 1 : i \in 1 .. Len(LabelOrder) /\ i # n
    BY LabelsInOrder
  <1>. QED  BY <1>1, <1>2, LabelsInOrder DEF LabelsUpTo

\* In the end all labels have been gone through.
LEMMA LabelsUpToAll ==
    LabelsUpTo(0) = {} /\ BusinessLabels \subseteq LabelsUpTo(Len(LabelOrder))
  BY LabelsInOrder DEF LabelsUpTo

\* The suggestions of one event, by label.
AreSuggestions(suggestions, r) ==
    /\ DOMAIN suggestions \subseteq BusinessLabels
    /\ \A l \in DOMAIN suggestions :
          /\ IsSuggestion(suggestions[l])
          /\ suggestions[l].id = <<"local", r, l>> /\ suggestions[l].label = l

\* New cards are those of an event.
OnlyLocal(c, d) ==
    /\ Len(c.cards) <= Len(d.cards)
    /\ \A i \in 1 .. Len(c.cards) : d.cards[i].id = c.cards[i].id
    /\ \A i \in 1 .. Len(d.cards) : i > Len(c.cards) => IsLocal(d.cards[i].id)

\* What holds of a board after the suggestions of some labels were offered.
Offered(b, d, suggestions, r, done) ==
    /\ IsBoard(d) /\ Kept(d.call, d.coach)
    /\ SameWhatWasSaid(b.call, d.call) /\ SameTracking(b.coach, d.coach)
    /\ d.failed = b.failed
    /\ OnlyLocal(b.call, d.call)
    /\ CardIds(d.call.cards) \subseteq CardIds(b.call.cards)
                                        \cup {<<"local", r, l>> : l \in done}
    /\ d.displayed \subseteq b.displayed \cup {suggestions[l] : l \in DOMAIN suggestions}
    /\ \A x \in Range(d.call.active) :
          \/ x \in Range(b.call.active)
          \/ \E l \in DOMAIN suggestions : /\ suggestions[l] \in d.displayed
                                           /\ x = CardOf(suggestions[l], r)

\* One suggestion offered after others.
LEMMA OfferedStep ==
    ASSUME NEW b, Kept(b.call, b.coach), NEW suggestions,
           NEW r \in 1 .. b.call.revision, NEW now, AreSuggestions(suggestions, r),
           \A l \in BusinessLabels : <<"local", r, l>> \notin CardIds(b.call.cards),
           NEW d, NEW done, Offered(b, d, suggestions, r, done),
           NEW l \in DOMAIN suggestions, l \notin done
    PROVE  Offered(b, Offer(d, suggestions[l], r, now), suggestions, r, done \cup {l})
  <1> DEFINE s == suggestions[l]
             e == Offer(d, s, r, now)
             card == CardOf(s, r)
  <1>0. /\ IsBoard(d) /\ Kept(d.call, d.coach) /\ d.call.revision = b.call.revision
        /\ b.call.revision \in Nat /\ r \in Nat
        /\ IsSeq(d.call.cards) /\ Len(d.call.cards) \in Nat
    <2>1. IsSeq(d.call.cards)
      BY DEF Offered, Kept, CardsInv, AreCards
    <2>. QED  BY <2>1, SeqForm DEF Offered, SameWhatWasSaid, Kept
  <1>1. /\ IsSuggestion(s) /\ s.id = <<"local", r, l>> /\ l \in BusinessLabels
    BY DEF AreSuggestions
  <1> HIDE DEF s
  <1>2. IsNewId(d.call, d.coach, s.id)
    <2>1. s.id \notin CardIds(d.call.cards)
      <3>1. s.id \notin CardIds(b.call.cards)
        BY <1>1
      <3>2. \A m \in done : s.id # <<"local", r, m>>
        BY <1>1
      <3>. QED  BY <3>1, <3>2 DEF Offered
    <2>. QED  BY <1>0, <1>1, <2>1 DEF IsNewId
  <1>3. /\ IsBoard(e) /\ Kept(e.call, e.coach)
        /\ SameWhatWasSaid(d.call, e.call) /\ SameTracking(d.coach, e.coach)
        /\ e.failed = d.failed
        /\ \/ /\ e.displayed = d.displayed /\ e.call.cards = d.call.cards
              /\ Range(e.call.active) = Range(d.call.active)
           \/ /\ e.displayed = d.displayed \cup {s}
              /\ e.call.cards = Append(d.call.cards, card)
              /\ Range(e.call.active) \subseteq Range(d.call.active) \cup {card}
    <2>1. /\ IsBoard(d) /\ Kept(d.call, d.coach) /\ IsSuggestion(s)
          /\ r \in 0 .. d.call.revision /\ IsNewId(d.call, d.coach, s.id)
      BY <1>0, <1>1, <1>2
    <2>. QED  BY ONLY <2>1, OfferKeeps
  <1>4. IsCard(card) /\ card.id = s.id
    BY <1>0, <1>1, CardOfIs
  <1> HIDE DEF e, card
  <1>5. /\ SameWhatWasSaid(b.call, e.call) /\ SameTracking(b.coach, e.coach)
        /\ e.failed = b.failed
    BY <1>3 DEF Offered, SameWhatWasSaid, SameTracking
  <1>6. CASE /\ e.displayed = d.displayed /\ e.call.cards = d.call.cards
             /\ Range(e.call.active) = Range(d.call.active)
    <2>1. OnlyLocal(b.call, e.call)
      BY <1>6 DEF Offered, OnlyLocal
    <2>2. CardIds(e.call.cards) \subseteq CardIds(b.call.cards)
                                           \cup {<<"local", r, m>> : m \in done \cup {l}}
      BY <1>6 DEF Offered
    <2>. QED  BY <1>3, <1>5, <1>6, <2>1, <2>2 DEF Offered, e, s
  <1>7. CASE /\ e.displayed = d.displayed \cup {s}
             /\ e.call.cards = Append(d.call.cards, card)
             /\ Range(e.call.active) \subseteq Range(d.call.active) \cup {card}
    <2>1. /\ IsSeq(e.call.cards) /\ Len(e.call.cards) = Len(d.call.cards) + 1
          /\ \A i \in 1 .. Len(d.call.cards) : e.call.cards[i] = d.call.cards[i]
          /\ e.call.cards[Len(d.call.cards) + 1] = card
          /\ Range(e.call.cards) = Range(d.call.cards) \cup {card}
      <3>1. IsSeq(d.call.cards) /\ e.call.cards = Append(d.call.cards, card)
        BY <1>0, <1>7
      <3>. QED  BY ONLY <3>1, Appended
    <2>2. IsLocal(card.id)
      BY <1>1, <1>4 DEF IsLocal
    <2>3. OnlyLocal(b.call, e.call)
      <3>1. Len(b.call.cards) \in Nat
        BY SeqForm DEF Kept, CardsInv, AreCards
      <3>2. /\ Len(b.call.cards) <= Len(d.call.cards)
            /\ \A i \in 1 .. Len(b.call.cards) : d.call.cards[i].id = b.call.cards[i].id
            /\ \A i \in 1 .. Len(d.call.cards) :
                  i > Len(b.call.cards) => IsLocal(d.call.cards[i].id)
        BY DEF Offered, OnlyLocal
      <3>3. \A i \in 1 .. Len(b.call.cards) : i \in 1 .. Len(d.call.cards)
        BY <1>0, <3>1, <3>2
      <3>4. \A i \in 1 .. Len(e.call.cards) :
               i \in 1 .. Len(d.call.cards) \/ i = Len(d.call.cards) + 1
        BY <1>0, <2>1
      <3>5. Len(b.call.cards) <= Len(e.call.cards)
        BY <1>0, <2>1, <3>1, <3>2
      <3>6. \A i \in 1 .. Len(b.call.cards) : e.call.cards[i].id = b.call.cards[i].id
        BY <2>1, <3>2, <3>3
      <3>7. \A i \in 1 .. Len(e.call.cards) :
               i > Len(b.call.cards) => IsLocal(e.call.cards[i].id)
        BY <2>1, <2>2, <3>2, <3>4
      <3>. QED  BY <3>5, <3>6, <3>7 DEF OnlyLocal
    <2>4. CardIds(e.call.cards) \subseteq CardIds(b.call.cards)
                                           \cup {<<"local", r, m>> : m \in done \cup {l}}
      <3>1. CardIds(e.call.cards) = CardIds(d.call.cards) \cup {card.id}
        BY <1>0, <2>1, IdsOf
      <3>2. card.id = <<"local", r, l>>
        BY <1>1, <1>4
      <3>. QED  BY <3>1, <3>2 DEF Offered
    <2>5. e.displayed \subseteq b.displayed \cup {suggestions[m] : m \in DOMAIN suggestions}
      BY <1>7 DEF Offered, s
    <2>6. \A x \in Range(e.call.active) :
             \/ x \in Range(b.call.active)
             \/ \E m \in DOMAIN suggestions : /\ suggestions[m] \in e.displayed
                                              /\ x = CardOf(suggestions[m], r)
      BY <1>7 DEF Offered, s, card
    <2>. QED  BY <1>3, <1>5, <2>3, <2>4, <2>5, <2>6 DEF Offered, e, s
  <1>. QED  BY <1>3, <1>6, <1>7

\* One label gone through after others, with or without a suggestion.
LEMMA OfferedMore ==
    ASSUME NEW b, NEW d, NEW suggestions, NEW r, NEW done, NEW more, done \subseteq more,
           Offered(b, d, suggestions, r, done)
    PROVE  Offered(b, d, suggestions, r, more)
  <1>1. {<<"local", r, l>> : l \in done} \subseteq {<<"local", r, l>> : l \in more}
    OBVIOUS
  <1>. QED  BY <1>1 DEF Offered

\* Fresh suggestions of an event, offered in the order of their labels.
LEMMA PolicyKeeps ==
    ASSUME NEW b, IsBoard(b), Kept(b.call, b.coach), NEW suggestions,
           NEW r \in 1 .. b.call.revision, NEW now,
           AreSuggestions(suggestions, r),
           \A l \in BusinessLabels : <<"local", r, l>> \notin CardIds(b.call.cards)
    PROVE  LET d == ApplySuggestionPolicy(b, suggestions, r, now)
           IN  Offered(b, d, suggestions, r, BusinessLabels)
  <1>1. PICK f : /\ f[0] = b
                 /\ \A n \in 1 .. Len(LabelOrder) :
                       f[n] = IF LabelOrder[n] \in DOMAIN suggestions
                              THEN Offer(f[n - 1], suggestions[LabelOrder[n]], r, now)
                              ELSE f[n - 1]
                 /\ ApplySuggestionPolicy(b, suggestions, r, now)
                        = Triggered(f[Len(LabelOrder)], now)
    BY OffersUnfold
  <1> DEFINE A == {n \in Nat : n <= Len(LabelOrder) =>
                                 Offered(b, f[n], suggestions, r, LabelsUpTo(n))}
  <1>2. 0 \in A
    <2>1. IsSeq(b.call.cards) /\ Len(b.call.cards) \in Nat
      BY SeqForm DEF Kept, CardsInv, AreCards
    <2>2. OnlyLocal(b.call, b.call)
      BY <2>1 DEF OnlyLocal
    <2>3. SameWhatWasSaid(b.call, b.call) /\ SameTracking(b.coach, b.coach)
      BY DEF SameWhatWasSaid, SameTracking
    <2>4. Offered(b, b, suggestions, r, LabelsUpTo(0))
      BY <2>2, <2>3 DEF Offered
    <2>. QED  BY <1>1, <2>4
  <1>3. ASSUME NEW n \in A PROVE n + 1 \in A
    <2> SUFFICES ASSUME n + 1 <= Len(LabelOrder)
                 PROVE  Offered(b, f[n + 1], suggestions, r, LabelsUpTo(n + 1))
      OBVIOUS
    <2>1. n + 1 \in 1 .. Len(LabelOrder) /\ (n + 1) - 1 = n /\ n <= Len(LabelOrder)
      BY LabelsInOrder
    <2> DEFINE l == LabelOrder[n + 1]
    <2>2. /\ Offered(b, f[n], suggestions, r, LabelsUpTo(n))
          /\ LabelsUpTo(n + 1) = LabelsUpTo(n) \cup {l} /\ l \notin LabelsUpTo(n)
      BY <2>1, LabelsUpToIs
    <2>3. f[n + 1] = IF l \in DOMAIN suggestions
                     THEN Offer(f[n], suggestions[l], r, now) ELSE f[n]
      BY <1>1, <2>1
    <2> HIDE DEF l, A
    <2>4. CASE l \in DOMAIN suggestions
      BY <2>2, <2>3, <2>4, OfferedStep
    <2>5. CASE l \notin DOMAIN suggestions
      BY <2>2, <2>3, <2>5, OfferedMore
    <2>. QED  BY <2>4, <2>5
  <1>4. A = Nat
    <2>1. A \in SUBSET Nat
      OBVIOUS
    <2> HIDE DEF A
    <2>. QED  BY <1>2, <1>3, <2>1, Induction
  <1> DEFINE g == f[Len(LabelOrder)]
  <1>5. Offered(b, g, suggestions, r, BusinessLabels)
    <2>1. Offered(b, g, suggestions, r, LabelsUpTo(Len(LabelOrder)))
      BY <1>4, LabelsInOrder
    <2>2. LabelsUpTo(Len(LabelOrder)) \subseteq BusinessLabels
      BY LabelsInOrder DEF LabelsUpTo
    <2> HIDE DEF g
    <2>. QED  BY <2>1, <2>2, OfferedMore
  <1> DEFINE d == Triggered(g, now)
  <1>6. ApplySuggestionPolicy(b, suggestions, r, now) = d
    BY <1>1
  <1> HIDE DEF g
  <1>7. d = g \/ d = [g EXCEPT !.call = MarkTriggered(@, now)]
    BY DEF Triggered
  <1> HIDE DEF d
  <1>8. CASE d = [g EXCEPT !.call = MarkTriggered(@, now)]
    <2> DEFINE c == MarkTriggered(g.call, now)
    <2>1. /\ IsCall(c) /\ SameWhatWasSaid(g.call, c) /\ SameLabels(g.call, c)
          /\ SameCards(g.call, c)
      BY <1>5, MarkFields DEF Offered, Kept
    <2>2. d = [g EXCEPT !.call = c]
      BY <1>8
    <2> HIDE DEF c
    <2>3. /\ IsBoard(d) /\ d.call = c /\ d.coach = g.coach /\ d.failed = g.failed
          /\ d.displayed = g.displayed
      <3>1. DOMAIN g = BoardFields
        BY <1>5 DEF Offered, IsBoard
      <3>. QED  BY <2>2, <3>1 DEF BoardFields, IsBoard
    <2>4. Kept(c, g.coach)
      <3>1. LabelsInv(c) /\ c.revision = g.call.revision
        BY <1>5, <2>1, LabelsStay DEF Offered, Kept, SameWhatWasSaid
      <3>2. IsCoach(g.coach) /\ SameTracking(g.coach, g.coach)
        BY <1>5 DEF Offered, Kept, SameTracking
      <3>. QED  BY <1>5, <2>1, <3>1, <3>2, KeptStays DEF Offered
    <2>5. /\ SameWhatWasSaid(b.call, d.call) /\ d.call.cards = g.call.cards
          /\ d.call.active = g.call.active
      BY <1>5, <2>1, <2>3 DEF Offered, SameWhatWasSaid, SameCards
    <2>6. OnlyLocal(b.call, d.call)
      BY <1>5, <2>5 DEF Offered, OnlyLocal
    <2>7. Offered(b, d, suggestions, r, BusinessLabels)
      BY <1>5, <2>3, <2>4, <2>5, <2>6 DEF Offered
    <2>. QED  BY <1>6, <2>7
  <1>. QED  BY <1>5, <1>6, <1>7, <1>8
-----------------------------------------------------------------------------
(* A committed event promotes or withdraws what is provisional.             *)

\* A provisional card on the board is tracked.
OpenCards(c, k) ==
    \A x \in Range(c.active) : x.lifecycle = "provisional" =>
        \E l \in DOMAIN k.provisional : k.provisional[l].id = x.id

\* Only the tracked cards of a coordinator changed, and they became fewer.
FewerTracked(k, m) ==
    /\ m.processed = k.processed /\ m.external = k.external
    /\ m.partialKeys = k.partialKeys
    /\ \A l \in DOMAIN m.provisional : /\ l \in DOMAIN k.provisional
                                       /\ m.provisional[l] = k.provisional[l]

Promoted(b, d) ==
    /\ IsBoard(d) /\ Kept(d.call, d.coach) /\ OpenCards(d.call, d.coach)
    /\ SameWhatWasSaid(b.call, d.call) /\ SameIds(b.call, d.call)
    /\ FewerTracked(b.coach, d.coach) /\ d.displayed = b.displayed

\* One provisional card promoted after others.
LEMMA PromotedStep ==
    ASSUME NEW b, NEW suggestions, NEW r \in 1 .. b.call.revision,
           AreSuggestions(suggestions, r), TrackedBefore(b.call, b.coach, r),
           \A l \in DOMAIN suggestions : suggestions[l].lifecycle = "confirmed",
           NEW d, Promoted(b, d),
           NEW l \in DOMAIN suggestions, l \in DOMAIN d.coach.provisional
    PROVE  Promoted(b, Promote(d, suggestions[l], r))
  <1> DEFINE s == suggestions[l]
             e == Promote(d, s, r)
  <1>0. /\ IsBoard(d) /\ Kept(d.call, d.coach) /\ d.call.revision = b.call.revision
    BY DEF Promoted, SameWhatWasSaid
  <1>1. /\ IsSuggestion(s) /\ s.id = <<"local", r, l>> /\ s.label = l
        /\ s.lifecycle = "confirmed"
    BY DEF AreSuggestions
  <1>2. s.source # "llm"
    BY <1>1 DEF IsSuggestion, IsLocal
  <1>3. TrackedBefore(d.call, d.coach, r)
    BY <1>0 DEF TrackedBefore, Promoted, FewerTracked
  <1> HIDE DEF s
  <1>4. /\ IsBoard(e) /\ Kept(e.call, e.coach)
        /\ SameWhatWasSaid(d.call, e.call) /\ SameIds(d.call, e.call)
        /\ e.displayed = d.displayed /\ e.failed \in {d.failed, TRUE}
        /\ e.coach.processed = d.coach.processed
        /\ e.coach.external = d.coach.external
        /\ e.coach.partialKeys = d.coach.partialKeys
        /\ e.coach.provisional = WithoutKey(d.coach.provisional, l)
        /\ \A x \in Range(e.call.active) :
              \/ x.lifecycle = s.lifecycle
              \/ x \in Range(d.call.active) /\ x.id # d.coach.provisional[l].id
    <2>1. /\ IsBoard(d) /\ Kept(d.call, d.coach)
          /\ IsSuggestion(s) /\ s.label \in DOMAIN d.coach.provisional /\ s.source # "llm"
          /\ r \in 1 .. d.call.revision /\ TrackedBefore(d.call, d.coach, r)
      BY <1>0, <1>1, <1>2, <1>3
    <2>2. s.label = l
      BY <1>1
    <2>3. PromotedBy(d, e, s)
      BY ONLY <2>1, PromoteKeeps
    <2> HIDE DEF e
    <2>. QED  BY ONLY <2>2, <2>3 DEF PromotedBy
  <1> HIDE DEF e
  <1>5. /\ DOMAIN e.coach.provisional = DOMAIN d.coach.provisional \ {l}
        /\ \A m \in DOMAIN e.coach.provisional :
              e.coach.provisional[m] = d.coach.provisional[m]
    BY <1>4 DEF WithoutKey
  <1>6. OpenCards(e.call, e.coach)
    <2> SUFFICES ASSUME NEW x \in Range(e.call.active), x.lifecycle = "provisional"
                 PROVE  \E m \in DOMAIN e.coach.provisional : e.coach.provisional[m].id = x.id
      BY DEF OpenCards
    <2>1. x \in Range(d.call.active) /\ x.id # d.coach.provisional[l].id
      BY <1>1, <1>3, <1>4
    <2>2. PICK m \in DOMAIN d.coach.provisional : d.coach.provisional[m].id = x.id
      BY <2>1 DEF Promoted, OpenCards
    <2>3. m # l
      BY <2>1, <2>2
    <2>. QED  BY <1>5, <2>2, <2>3
  <1>7. SameWhatWasSaid(b.call, e.call) /\ SameIds(b.call, e.call)
    BY <1>4 DEF Promoted, SameWhatWasSaid, SameIds
  <1>8. FewerTracked(b.coach, e.coach) /\ e.displayed = b.displayed
    BY <1>4, <1>5 DEF Promoted, FewerTracked
  <1>. QED  BY <1>4, <1>6, <1>7, <1>8 DEF Promoted, e, s

\* Promoting all the candidates that have a provisional card keeps the books.
LEMMA PromotionsKeep ==
    ASSUME NEW b, IsBoard(b), Kept(b.call, b.coach), OpenCards(b.call, b.coach),
           NEW suggestions, NEW r \in 1 .. b.call.revision,
           AreSuggestions(suggestions, r), TrackedBefore(b.call, b.coach, r),
           \A l \in DOMAIN suggestions : suggestions[l].lifecycle = "confirmed"
    PROVE  Promoted(b, PromoteAll(b, suggestions, r))
  <1>1. PICK f : /\ f[0] = b
                 /\ \A n \in 1 .. Len(LabelOrder) :
                       f[n] = IF LabelOrder[n] \in DOMAIN suggestions
                              THEN IF \/ f[n - 1].failed
                                      \/ LabelOrder[n] \notin DOMAIN f[n - 1].coach.provisional
                                   THEN f[n - 1]
                                   ELSE Promote(f[n - 1], suggestions[LabelOrder[n]], r)
                              ELSE f[n - 1]
                 /\ PromoteAll(b, suggestions, r) = f[Len(LabelOrder)]
    BY PromotionsUnfold
  <1> DEFINE A == {n \in Nat : n <= Len(LabelOrder) => Promoted(b, f[n])}
  <1>2. 0 \in A
    <2>1. SameWhatWasSaid(b.call, b.call) /\ SameIds(b.call, b.call)
      BY DEF SameWhatWasSaid, SameIds
    <2>2. FewerTracked(b.coach, b.coach)
      BY DEF FewerTracked
    <2>. QED  BY <1>1, <2>1, <2>2 DEF Promoted
  <1>3. ASSUME NEW n \in A PROVE n + 1 \in A
    <2> SUFFICES ASSUME n + 1 <= Len(LabelOrder) PROVE Promoted(b, f[n + 1])
      OBVIOUS
    <2>1. /\ n + 1 \in 1 .. Len(LabelOrder) /\ (n + 1) - 1 = n
          /\ Promoted(b, f[n])
      BY LabelsInOrder
    <2> DEFINE l == LabelOrder[n + 1]
    <2>2. \/ f[n + 1] = f[n]
          \/ /\ l \in DOMAIN suggestions /\ l \in DOMAIN f[n].coach.provisional
             /\ f[n + 1] = Promote(f[n], suggestions[l], r)
      BY <1>1, <2>1
    <2> HIDE DEF l, A
    <2>. QED  BY <2>1, <2>2, PromotedStep
  <1>4. A = Nat
    <2>1. A \in SUBSET Nat
      OBVIOUS
    <2> HIDE DEF A
    <2>. QED  BY <1>2, <1>3, <2>1, Induction
  <1>. QED  BY <1>1, <1>4, LabelsInOrder

\* A board after the cards of some labels were withdrawn.
WithdrawnOf(b, d, done) ==
    /\ IsBoard(d) /\ Kept(d.call, d.coach) /\ d.coach = b.coach
    /\ SameWhatWasSaid(b.call, d.call) /\ SameIds(b.call, d.call)
    /\ d.displayed = b.displayed /\ d.failed = b.failed
    /\ \A x \in Range(d.call.active) :
          /\ x \in Range(b.call.active)
          /\ \A l \in done \cap DOMAIN b.coach.provisional :
                x.id # b.coach.provisional[l].id

\* One provisional card withdrawn after others.
LEMMA WithdrawnStep ==
    ASSUME NEW b, NEW d, NEW done, WithdrawnOf(b, d, done),
           NEW l \in DOMAIN b.coach.provisional
    PROVE  WithdrawnOf(b, WithdrawOn(d, b.coach.provisional[l].id),
                       done \cup {l})
  <1> DEFINE id == b.coach.provisional[l].id
             a == WithdrawCard(d.call, id)
             e == WithdrawOn(d, id)
  <1> HIDE DEF id
  <1>1. /\ Kept(a, d.coach) /\ SameWhatWasSaid(d.call, a) /\ SameIds(d.call, a)
        /\ Range(a.active) = {x \in Range(d.call.active) : x.id # id}
    BY WithdrawKeeps DEF WithdrawnOf
  <1>2. e = [d EXCEPT !.call = a]
    BY DEF WithdrawOn
  <1> HIDE DEF a, e
  <1>3. /\ IsBoard(e) /\ e.call = a /\ e.coach = d.coach /\ e.displayed = d.displayed
        /\ e.failed = d.failed
    <2>1. DOMAIN d = BoardFields
      BY DEF WithdrawnOf, IsBoard
    <2>. QED  BY <1>2, <2>1 DEF BoardFields, IsBoard
  <1>4. SameWhatWasSaid(b.call, a) /\ SameIds(b.call, a)
    BY <1>1 DEF WithdrawnOf, SameWhatWasSaid, SameIds
  <1>5. \A x \in Range(a.active) :
           /\ x \in Range(b.call.active)
           /\ \A m \in (done \cup {l}) \cap DOMAIN b.coach.provisional :
                 x.id # b.coach.provisional[m].id
    BY <1>1 DEF WithdrawnOf, id
  <1>6. WithdrawnOf(b, e, done \cup {l})
    BY <1>1, <1>3, <1>4, <1>5 DEF WithdrawnOf
  <1>. QED  BY <1>6 DEF e, id

\* After the withdrawals nothing on the board is provisional.
LEMMA WithdrawalsKeep ==
    ASSUME NEW b, IsBoard(b), Kept(b.call, b.coach), OpenCards(b.call, b.coach)
    PROVE  LET d == WithdrawAll(b)
           IN  /\ IsBoard(d) /\ Kept(d.call, d.coach)
               /\ SameWhatWasSaid(b.call, d.call) /\ SameIds(b.call, d.call)
               /\ FewerTracked(b.coach, d.coach) /\ d.coach.provisional = <<>>
               /\ d.displayed = b.displayed /\ d.failed = b.failed
               /\ \A x \in Range(d.call.active) : x.lifecycle # "provisional"
  <1> DEFINE provisional == b.coach.provisional
  <1>1. PICK f : /\ f[0] = b
                 /\ \A n \in 1 .. Len(LabelOrder) :
                       f[n] = IF LabelOrder[n] \in DOMAIN provisional
                              THEN WithdrawOn(f[n - 1], provisional[LabelOrder[n]].id)
                              ELSE f[n - 1]
                 /\ WithdrawAll(b) =
                        [f[Len(LabelOrder)] EXCEPT !.coach = [@ EXCEPT !.provisional = <<>>]]
    BY WithdrawalsUnfold
  <1> DEFINE A == {n \in Nat : n <= Len(LabelOrder) => WithdrawnOf(b, f[n], LabelsUpTo(n))}
  <1>2. 0 \in A
    <2>1. SameWhatWasSaid(b.call, b.call) /\ SameIds(b.call, b.call)
      BY DEF SameWhatWasSaid, SameIds
    <2>. QED  BY <1>1, <2>1, LabelsUpToAll DEF WithdrawnOf
  <1>3. ASSUME NEW n \in A PROVE n + 1 \in A
    <2> SUFFICES ASSUME n + 1 <= Len(LabelOrder)
                 PROVE  WithdrawnOf(b, f[n + 1], LabelsUpTo(n + 1))
      OBVIOUS
    <2>1. /\ n + 1 \in 1 .. Len(LabelOrder) /\ (n + 1) - 1 = n
          /\ WithdrawnOf(b, f[n], LabelsUpTo(n))
      BY LabelsInOrder
    <2> DEFINE l == LabelOrder[n + 1]
    <2>2. LabelsUpTo(n + 1) = LabelsUpTo(n) \cup {l}
      BY <2>1, LabelsUpToIs
    <2>3. f[n + 1] = IF l \in DOMAIN provisional
                     THEN WithdrawOn(f[n], provisional[l].id)
                     ELSE f[n]
      BY <1>1, <2>1
    <2> HIDE DEF l, A
    <2>4. CASE l \in DOMAIN provisional
      <3>1. WithdrawnOf(b, WithdrawOn(f[n], b.coach.provisional[l].id), LabelsUpTo(n) \cup {l})
        BY <2>1, <2>4, WithdrawnStep
      <3>. QED  BY <2>2, <2>3, <2>4, <3>1
    <2>5. CASE l \notin DOMAIN provisional
      BY <2>1, <2>2, <2>3, <2>5 DEF WithdrawnOf
    <2>. QED  BY <2>4, <2>5
  <1>4. A = Nat
    <2>1. A \in SUBSET Nat
      OBVIOUS
    <2> HIDE DEF A
    <2>. QED  BY <1>2, <1>3, <2>1, Induction
  <1> DEFINE g == f[Len(LabelOrder)]
             m == [g.coach EXCEPT !.provisional = <<>>]
             d == WithdrawAll(b)
  <1>5. WithdrawnOf(b, g, LabelsUpTo(Len(LabelOrder)))
    BY <1>4, LabelsInOrder
  <1>6. d = [g EXCEPT !.coach = m]
    BY <1>1
  <1> HIDE DEF g, d
  <1>7. /\ IsCoach(m) /\ m.prints = b.coach.prints /\ m.processed = b.coach.processed
        /\ m.external = b.coach.external /\ m.partialKeys = b.coach.partialKeys
        /\ m.provisional = <<>>
    <2>1. DOMAIN g.coach = CoachFields /\ g.coach = b.coach
      BY <1>5 DEF WithdrawnOf, Kept, IsCoach
    <2>. QED  BY <2>1 DEF CoachFields, IsCoach
  <1> HIDE DEF m
  <1>8. /\ IsBoard(d) /\ d.call = g.call /\ d.coach = m /\ d.displayed = b.displayed
        /\ d.failed = b.failed
    <2>1. DOMAIN g = BoardFields /\ g.displayed = b.displayed /\ g.failed = b.failed
      BY <1>5 DEF WithdrawnOf, IsBoard
    <2>. QED  BY <1>6, <2>1 DEF BoardFields, IsBoard
  <1>9. DOMAIN m.provisional = {}
    BY <1>7
  <1>10. Kept(g.call, m)
    <2>1. PrintsInv(g.call, m) /\ IdsInv(g.call, m) /\ CoachInv(g.call, m)
      BY <1>5, <1>7, <1>9 DEF WithdrawnOf, Kept, PrintsInv, IdsInv, CoachInv
    <2>. QED  BY <1>5, <1>7, <2>1 DEF WithdrawnOf, Kept
  <1>11. FewerTracked(b.coach, m)
    BY <1>7, <1>9 DEF FewerTracked
  <1>12. ASSUME NEW x \in Range(g.call.active), x.lifecycle = "provisional" PROVE FALSE
    <2>1. PICK l \in DOMAIN provisional : provisional[l].id = x.id
      BY <1>5, <1>12 DEF WithdrawnOf, OpenCards
    <2>2. l \in LabelsUpTo(Len(LabelOrder))
      BY LabelsUpToAll DEF Kept, CoachInv
    <2>. QED  BY <1>5, <2>1, <2>2 DEF WithdrawnOf
  <1>. QED  BY <1>5, <1>7, <1>8, <1>10, <1>11, <1>12 DEF WithdrawnOf, d
-----------------------------------------------------------------------------
(* The suggestions of an event.                                             *)

\* Strength and priority of a rule are numbers.
LEMMA RulesAre ==
    /\ Len(Rules) \in Nat /\ DOMAIN Rules = 1 .. Len(Rules)
    /\ \A i \in DOMAIN Rules : /\ ActionStrength[Rules[i].action] \in Int
                               /\ PriorityRank[Rules[i].priority] \in Int
  <1>1. Len(Rules) \in Nat /\ DOMAIN Rules = 1 .. Len(Rules)
    BY RulesAssumption
  <1>. QED  BY <1>1, RulesAssumption DEF ActionStrength, PriorityRank

\* Of some rules one is the strongest, or the first of the strongest.
LEMMA SelectedIs ==
    ASSUME NEW rules \in SUBSET DOMAIN Rules, rules # {}, NEW byText
    PROVE  SelectedRule(rules, byText) \in rules
  <1> DEFINE a(i) == ActionStrength[Rules[i].action]
             p(i) == PriorityRank[Rules[i].priority]
             first(i, j) == \/ i \in byText /\ j \notin byText
                            \/ (i \in byText <=> j \in byText) /\ i < j
             before(i, j) == \/ a(i) > a(j) \/ (a(i) = a(j) /\ p(i) > p(j))
                             \/ a(i) = a(j) /\ p(i) = p(j) /\ first(i, j)
             R == {x \in rules \X rules : before(x[1], x[2])}
  <1>1. \A i \in rules : a(i) \in Int /\ p(i) \in Int /\ i \in Int
    BY RulesAre
  <1>2. \A i, j \in rules : <<i, j>> \in R <=> before(i, j)
    OBVIOUS
  <1>3. IsFiniteSet(rules)
    <2>1. IsFiniteSet(DOMAIN Rules)
      BY RulesAre, FS_Interval
    <2>. QED  BY <2>1, FS_Subset
  <1> HIDE DEF a, p, R
  <1>4. \A i, j \in rules : i # j => before(i, j) \/ before(j, i)
    BY <1>1
  <1>5. \A i, j, k \in rules : before(i, j) /\ before(j, k) => before(i, k)
    BY <1>1
  <1>6. \E i \in rules : \A j \in rules \ {i} : <<i, j>> \in R
    <2>1. \A i, j \in rules : i # j => <<i, j>> \in R \/ <<j, i>> \in R
      BY <1>2, <1>4
    <2>2. \A i, j, k \in rules : /\ <<i, j>> \in R /\ <<j, k>> \in R
                                 => i = k \/ <<i, k>> \in R
      <3> HIDE DEF before
      <3>. QED  BY <1>2, <1>5
    <2>. QED  BY <1>3, <2>1, <2>2, FirstOf
  <1>7. PICK i \in rules : \A j \in rules \ {i} : before(i, j)
    <2> HIDE DEF before
    <2>. QED  BY <1>2, <1>6
  <1> DEFINE strength(x) == <<ActionStrength[Rules[x].action], PriorityRank[Rules[x].priority]>>
             above(x, y) == x[1] > y[1] \/ (x[1] = y[1] /\ x[2] > y[2])
             Best(x) == \A j \in rules \ {x} :
                           \/ above(strength(x), strength(j))
                           \/ strength(x) = strength(j) /\ first(x, j)
  <1>8. Best(i)
    BY <1>7 DEF a, p
  <1>9. SelectedRule(rules, byText) = CHOOSE x \in rules : Best(x)
    BY DEF SelectedRule
  <1> HIDE DEF Best
  <1>. QED  BY <1>8, <1>9

\* A partial event has provisional suggestions, a committed one confirmed ones.
Provisionally(suggestions, kind) ==
    \A l \in DOMAIN suggestions :
        suggestions[l].lifecycle = IF kind = "partial" THEN "provisional" ELSE "confirmed"

\* What the rule engine suggests: one suggestion for a label, under an identity
\* of the revision.
LEMMA SuggestionsAre ==
    ASSUME NEW kind, NEW words, NEW given, NEW givenAreRules, NEW r
    PROVE  LET e == Evaluate(kind, words, given, givenAreRules, r).suggestions
           IN  AreSuggestions(e, r) /\ Provisionally(e, kind)
  <1> DEFINE byText == IF kind = "partial" THEN {} ELSE MatchingRules(words)
             matched == byText \cup {i \in DOMAIN Rules : Rules[i].label \in given}
             cancels == kind # "partial" /\ CancellationByText(words)
             spoken == IF cancels THEN {Cancellation} ELSE {}
             templates == (given \cap DOMAIN Templates) \cup spoken
             usable(l) == {i \in matched : /\ Rules[i].label = l
                                           /\ Rules[i].action \in {"template_action", "escalate"}}
             byRule == RuleLabels(byText) \cup spoken \cup (IF givenAreRules THEN given ELSE {})
             byModel == IF givenAreRules THEN {} ELSE given
             suggested == templates \cup {l \in BusinessLabels : usable(l) # {}}
             rule(l) == SelectedRule(usable(l), byText)
             source(l) == SourceOf(l, byRule, byModel)
             suggestion(l) ==
               [id |-> <<"local", r, l>>,
                label |-> l,
                source |-> source(l),
                lifecycle |-> IF kind = "partial" THEN "provisional" ELSE "confirmed",
                action |-> IF usable(l) # {} THEN Rules[rule(l)].action ELSE "template_action",
                priority |-> IF usable(l) # {} THEN Rules[rule(l)].priority ELSE Templates[l],
                content |-> IF usable(l) # {} THEN <<"rule", rule(l)>> ELSE <<"template", l>>]
             e == [l \in suggested |-> suggestion(l)]
  <1>1. Evaluate(kind, words, given, givenAreRules, r).suggestions = e
    BY Zenon DEF Evaluate
  <1>2. templates \subseteq DOMAIN Templates /\ DOMAIN Templates \subseteq BusinessLabels
    BY RulesAssumption
  <1>3. \A l : usable(l) \in SUBSET DOMAIN Rules
    BY DEF MatchingRules
  <1>4. \A l : source(l) \in {"rule", "both", "classification"}
    BY DEF SourceOf
  <1> HIDE DEF templates, usable, source
  <1>5. suggested \subseteq BusinessLabels
    BY <1>2
  <1>6. ASSUME NEW l \in suggested
        PROVE  /\ IsSuggestion(suggestion(l))
               /\ suggestion(l).id = <<"local", r, l>> /\ suggestion(l).label = l
               /\ suggestion(l).lifecycle = IF kind = "partial" THEN "provisional" ELSE "confirmed"
    <2> DEFINE s == suggestion(l)
    <2>1. s = [f \in SuggestionFields |-> s[f]]
      BY DEF SuggestionFields
    <2>2. s.label \in BusinessLabels /\ s.source # "llm" /\ s.id = <<"local", r, l>> /\ s.label = l
      BY <1>4, <1>5
    <2>3. s.priority \in DOMAIN PriorityRank
      <3>1. CASE usable(l) # {}
        <4>1. rule(l) \in DOMAIN Rules
          BY <1>3, <3>1, SelectedIs
        <4> HIDE DEF rule
        <4>2. s.priority = Rules[rule(l)].priority
          BY <3>1
        <4>. QED  BY <4>1, <4>2, RulesAssumption
      <3>2. CASE usable(l) = {}
        <4>1. l \in DOMAIN Templates
          BY <1>2, <3>2
        <4>2. s.priority = Templates[l]
          BY <3>2
        <4>. QED  BY <4>1, <4>2, RulesAssumption
      <3>. QED  BY <3>1, <3>2
    <2>4. s.action = ActionFor(s.content)
      <3> HIDE DEF rule
      <3>. QED  BY DEF ActionFor
    <2>5. s.lifecycle = IF kind = "partial" THEN "provisional" ELSE "confirmed"
      OBVIOUS
    <2> HIDE DEF s
    <2>6. IsSuggestion(s)
      BY <2>1, <2>2, <2>3, <2>4 DEF IsSuggestion
    <2>. QED  BY <2>2, <2>5, <2>6 DEF s
  <1> HIDE DEF suggestion, suggested
  <1>7. DOMAIN e = suggested /\ \A l \in suggested : e[l] = suggestion(l)
    OBVIOUS
  <1> HIDE DEF e
  <1>. QED  BY <1>1, <1>5, <1>6, <1>7 DEF AreSuggestions, Provisionally
-----------------------------------------------------------------------------
(* One event of the transcript.                                             *)

\* A tracked card is newer than every committed event that was processed.
Late(k) == \A l \in DOMAIN k.provisional : \A p \in k.processed :
               k.provisional[l].id[2] > p

Settled(c, k) == Kept(c, k) /\ OpenCards(c, k) /\ Late(k)

\* A call that heard an event the coordinator does not know yet.
Ready(c, k) ==
    /\ Settled(c, k) /\ TrackedBefore(c, k, c.revision)
    /\ \A l \in BusinessLabels : <<"local", c.revision, l>> \notin CardIds(c.cards)
    /\ \A p \in k.processed : p < c.revision
    /\ c.revision \in Nat \ {0}

\* A call that heard more keeps its books, and nothing in them is of the new
\* revision.
LEMMA HeardKeeps ==
    ASSUME NEW c, NEW k, Settled(c, k), NEW h, IsCall(h), SameCards(c, h),
           LabelsInv(h), h.revision = c.revision + 1
    PROVE  Ready(h, k)
  <1>1. c.revision \in Nat /\ h.revision \in Nat \ {0}
    BY DEF Settled, Kept
  <1>2. \A q : q \in 1 .. c.revision => q \in 1 .. h.revision /\ q < h.revision
    BY <1>1
  <1>3. CardsInv(h)
    BY CardsStay DEF Settled, Kept
  <1>4. PrintsInv(h, k)
    BY DEF Settled, Kept, PrintsInv, SameCards
  <1>5. IdsInv(h, k)
    BY <1>2 DEF Settled, Kept, IdsInv, SameCards
  <1>6. k.processed \cup k.external \subseteq 1 .. c.revision
    BY DEF Settled, Kept, CoachInv
  <1>7. \A l \in DOMAIN k.provisional :
           \E q \in 1 .. c.revision : k.provisional[l].id = <<"local", q, l>>
    BY DEF Settled, Kept, CoachInv
  <1>8. CoachInv(h, k) /\ TrackedBefore(h, k, h.revision)
    <2>1. k.processed \cup k.external \subseteq 1 .. h.revision
      BY <1>2, <1>6
    <2>2. \A l \in DOMAIN k.provisional :
             \E q \in 1 .. h.revision : k.provisional[l].id = <<"local", q, l>> /\ q < h.revision
      BY <1>2, <1>7
    <2>. QED  BY <2>1, <2>2 DEF Settled, Kept, CoachInv, TrackedBefore
  <1>9. \A l \in BusinessLabels : <<"local", h.revision, l>> \notin CardIds(h.cards)
    <2> SUFFICES ASSUME NEW l \in BusinessLabels,
                        <<"local", h.revision, l>> \in CardIds(c.cards)
                 PROVE  FALSE
      BY DEF SameCards
    <2> DEFINE id == <<"local", h.revision, l>>
    <2>1. id[1] = "local" /\ id[2] = h.revision
      OBVIOUS
    <2>2. \/ \E q \in 1 .. c.revision, m \in BusinessLabels : id = <<"local", q, m>>
          \/ \E q \in k.external : id = <<"llm", q>>
      BY DEF Settled, Kept, IdsInv
    <2> HIDE DEF id
    <2>. QED  BY <1>1, <2>1, <2>2
  <1>10. \A p \in k.processed : p < h.revision
    BY <1>2, <1>6
  <1>11. OpenCards(h, k)
    BY DEF Settled, OpenCards, SameCards
  <1>. QED  BY <1>1, <1>3, <1>4, <1>5, <1>8, <1>9, <1>10, <1>11 DEF Ready, Settled, Kept

\* What the coordinator's work on an event comes to.
Worked(c, k, event, d) ==
    /\ IsCall(d.call) /\ IsCoach(d.coach) /\ SameWhatWasSaid(c, d.call)
    /\ \/ d.failed
       \/ /\ Settled(d.call, d.coach) /\ OnlyLocal(c, d.call)
          /\ d.coach.external = k.external /\ k.processed \subseteq d.coach.processed
          /\ event.kind # "partial" => event.revision \in d.coach.processed

\* Lists with the same identities in their places have the same identities.
LEMMA SameIdsAre ==
    ASSUME NEW c, NEW d, AreCards(c.cards), AreCards(d.cards), SameIds(c, d)
    PROVE  CardIds(d.cards) = CardIds(c.cards)
  <1>1. /\ CardIds(c.cards) = {c.cards[i].id : i \in 1 .. Len(c.cards)}
        /\ CardIds(d.cards) = {d.cards[i].id : i \in 1 .. Len(d.cards)}
    BY IdsOf DEF AreCards
  <1>. QED  BY <1>1 DEF SameIds

\* The coordinator on a committed event: promote, withdraw, offer the rest
\* (process).
LEMMA CommittedWorks ==
    ASSUME NEW c, NEW k, Ready(c, k), NEW event, event.revision = c.revision,
           event.kind # "partial", NEW given
    PROVE  Worked(c, k, event, ProcessCommitted(c, k, event, given))
  <1> DEFINE r == event.revision
             evaluation == Evaluate(event.kind, event.text, given, FALSE, r)
             suggestions == evaluation.suggestions
             u == UpdateActiveLabels(c, given \cup evaluation.labels)
             m == [k EXCEPT !.processed = @ \cup {r}]
             b == Board(u, m)
             p == PromoteAll(b, suggestions, r)
             w == WithdrawAll(p)
             fresh == Fresh(k, suggestions)
             e == ApplySuggestionPolicy(w, fresh, r, event.time)
             d == ProcessCommitted(c, k, event, given)
  <1>0. /\ Kept(c, k) /\ OpenCards(c, k) /\ r \in 1 .. c.revision /\ r = c.revision
        /\ r \in Nat /\ TrackedBefore(c, k, r)
    BY DEF Ready, Settled
  <1>1. d = IF p.failed THEN p ELSE e
    BY DEF ProcessCommitted, ApplyCommitted, AdmitUnlessFailed
  <1>2. /\ AreSuggestions(suggestions, r)
        /\ \A l \in DOMAIN suggestions : suggestions[l].lifecycle = "confirmed"
    <2>1. suggestions = Evaluate(event.kind, event.text, given, FALSE, r).suggestions
      OBVIOUS
    <2> HIDE DEF suggestions
    <2>2. AreSuggestions(suggestions, r) /\ Provisionally(suggestions, event.kind)
      BY ONLY <2>1, SuggestionsAre
    <2>. QED  BY <2>2 DEF Provisionally
  <1>3. /\ IsCall(u) /\ SameWhatWasSaid(c, u) /\ SameCards(c, u) /\ LabelsInv(u)
    <2> DEFINE x == Canonical(given \cup evaluation.labels)
    <2>1. u = [c EXCEPT !.labels = x] /\ DOMAIN c = CallFields
      BY <1>0 DEF UpdateActiveLabels, Kept, IsCall
    <2>2. x \subseteq BusinessLabels \cup {NoAction}
      BY CanonicalIs
    <2> HIDE DEF x, u
    <2>3. /\ IsCall(u) /\ SameWhatWasSaid(c, u) /\ SameCards(c, u)
          /\ u.labels = x /\ u.detected = c.detected /\ u.timeline = c.timeline
      BY <2>1 DEF CallFields, IsCall, SameWhatWasSaid, SameCards
    <2>4. LabelsInv(c) /\ u.revision = c.revision
      BY <1>0, <2>3 DEF Kept, SameWhatWasSaid
    <2>5. LabelsInv(u)
      BY <2>2, <2>3, <2>4 DEF LabelsInv, NewIn
    <2>. QED  BY <2>3, <2>5
  <1>4. /\ IsCoach(m) /\ m.prints = k.prints /\ m.processed = k.processed \cup {r}
        /\ m.external = k.external /\ m.partialKeys = k.partialKeys
        /\ m.provisional = k.provisional
    <2>1. DOMAIN k = CoachFields
      BY <1>0 DEF Kept, IsCoach
    <2>. QED  BY <2>1 DEF CoachFields, IsCoach
  <1> HIDE DEF evaluation, suggestions, u, m
  <1>5. Kept(u, m) /\ OpenCards(u, m) /\ u.revision = c.revision
    <2>1. u.revision = c.revision
      BY <1>3 DEF SameWhatWasSaid
    <2>2. CardsInv(u)
      BY <1>0, <1>3, CardsStay DEF Kept
    <2>3. PrintsInv(u, m) /\ IdsInv(u, m) /\ CoachInv(u, m)
      BY <1>0, <1>3, <1>4, <2>1 DEF Kept, PrintsInv, IdsInv, CoachInv, SameCards
    <2>4. OpenCards(u, m)
      BY <1>0, <1>3, <1>4 DEF OpenCards, SameCards
    <2>. QED  BY <1>0, <1>3, <1>4, <2>1, <2>2, <2>3, <2>4 DEF Kept
  <1>6. /\ IsBoard(b) /\ b.call = u /\ b.coach = m /\ b.displayed = {}
    BY DEF Board, IsBoard, BoardFields
  <1> HIDE DEF b
  <1>7. Promoted(b, p)
    <2>1. TrackedBefore(b.call, b.coach, r)
      BY <1>0, <1>4, <1>5, <1>6 DEF TrackedBefore
    <2>2. /\ IsBoard(b) /\ Kept(b.call, b.coach) /\ OpenCards(b.call, b.coach)
          /\ r \in 1 .. b.call.revision
      BY <1>0, <1>5, <1>6
    <2>. QED  BY <1>2, <2>1, <2>2, PromotionsKeep
  <1> HIDE DEF p
  <1>8. SameWhatWasSaid(c, p.call) /\ IsCall(p.call) /\ IsCoach(p.coach)
    BY <1>3, <1>6, <1>7 DEF Promoted, SameWhatWasSaid, Kept
  <1>9. CASE p.failed
    BY <1>1, <1>8, <1>9 DEF Worked
  <1>10. CASE ~p.failed
    <2>1. /\ IsBoard(w) /\ Kept(w.call, w.coach)
          /\ SameWhatWasSaid(p.call, w.call) /\ SameIds(p.call, w.call)
          /\ FewerTracked(p.coach, w.coach) /\ w.coach.provisional = <<>>
          /\ w.displayed = p.displayed /\ w.failed = p.failed
          /\ \A x \in Range(w.call.active) : x.lifecycle # "provisional"
      BY <1>7, WithdrawalsKeep DEF Promoted
    <2> HIDE DEF w
    <2>2. SameIds(c, w.call) /\ w.call.revision = c.revision
      BY <1>3, <1>5, <1>6, <1>7, <2>1 DEF Promoted, SameIds, SameCards, SameWhatWasSaid
    <2>3. CardIds(w.call.cards) = CardIds(c.cards)
      BY <1>0, <2>1, <2>2, SameIdsAre DEF Kept, CardsInv
    <2>4. AreSuggestions(fresh, r) /\ \A l \in DOMAIN fresh : fresh[l].lifecycle = "confirmed"
      <3>1. fresh = Fresh(k, suggestions)
        OBVIOUS
      <3> HIDE DEF fresh
      <3>2. /\ AreSuggestions(fresh, r)
            /\ \A l \in DOMAIN fresh : l \in DOMAIN suggestions /\ fresh[l] = suggestions[l]
        BY <1>2, <3>1 DEF Fresh, AreSuggestions
      <3>. QED  BY <1>2, <3>2
    <2> HIDE DEF fresh
    <2>5. Offered(w, e, fresh, r, BusinessLabels)
      <3>1. /\ r \in 1 .. w.call.revision
            /\ \A l \in BusinessLabels : <<"local", r, l>> \notin CardIds(w.call.cards)
        BY <1>0, <2>2, <2>3 DEF Ready
      <3>. QED  BY <2>1, <2>4, <3>1, PolicyKeeps
    <2> HIDE DEF e
    <2>6. /\ Kept(e.call, e.coach) /\ SameTracking(w.coach, e.coach)
          /\ SameWhatWasSaid(w.call, e.call) /\ OnlyLocal(w.call, e.call)
      BY <2>5 DEF Offered
    <2>7. SameWhatWasSaid(c, e.call)
      BY <1>8, <2>1, <2>6 DEF SameWhatWasSaid
    <2>8. OnlyLocal(c, e.call)
      BY <2>2, <2>6 DEF SameIds, OnlyLocal
    <2>9. /\ e.coach.external = k.external /\ e.coach.processed = k.processed \cup {r}
          /\ DOMAIN e.coach.provisional = {}
      BY <1>4, <1>6, <1>7, <2>1, <2>6 DEF Promoted, FewerTracked, SameTracking
    <2>10. \A x \in Range(e.call.active) : x.lifecycle # "provisional"
      <3> TAKE x \in Range(e.call.active)
      <3>1. CASE x \in Range(w.call.active)
        BY <2>1, <3>1
      <3>2. CASE x \notin Range(w.call.active)
        <4>1. PICK l \in DOMAIN fresh : x = CardOf(fresh[l], r)
          BY <2>5, <3>2 DEF Offered
        <4>2. x.lifecycle = "confirmed"
          BY <1>0, <2>4, <4>1, CardOfIs DEF AreSuggestions
        <4>. QED  BY <4>2
      <3>. QED  BY <3>1, <3>2
    <2>11. Settled(e.call, e.coach)
      BY <2>6, <2>9, <2>10 DEF Settled, OpenCards, Late
    <2>12. d = e
      BY <1>1, <1>10
    <2> HIDE DEF d
    <2>13. Worked(c, k, event, d)
      BY <2>6, <2>7, <2>8, <2>9, <2>11, <2>12 DEF Worked, Kept
    <2>. QED  BY <2>13 DEF d
  <1>. QED  BY <1>9, <1>10
\* The last few elements of a sequence are no more than that.
LEMMA LastOfIs ==
    ASSUME NEW s, IsSeq(s), NEW limit \in Nat \ {0}
    PROVE  IsSeq(LastOf(s, limit)) /\ Len(LastOf(s, limit)) <= limit
  <1> DEFINE V == Range(s)
             d == LastOf(s, limit)
  <1>1. s \in Seq(V) /\ Len(s) \in Nat
    BY DEF IsSeq
  <1> HIDE DEF V
  <1>2. CASE Len(s) <= limit
    BY <1>2 DEF LastOf
  <1>3. CASE Len(s) > limit
    <2>1. d = SubSeq(s, Len(s) - limit + 1, Len(s))
      BY <1>1, <1>3 DEF LastOf
    <2>2. d \in Seq(V) /\ Len(d) = limit
      BY <1>1, <1>3, <2>1
    <2>. QED  BY <2>2, SeqOfValues
  <1>. QED  BY <1>1, <1>2, <1>3

\* The coordinator on a partial event (_process_provisional).
LEMMA ProvisionalWorks ==
    ASSUME NEW c, NEW k, Ready(c, k), NEW event, event.revision = c.revision,
           event.kind = "partial", NEW given
    PROVE  Worked(c, k, event, ProcessProvisional(c, k, event, given))
  <1> DEFINE r == event.revision
             suggestions == Evaluate("partial", event.text, given, ~classifier, r).suggestions
             m == [k EXCEPT !.partialKeys = LastOf(Append(@, event.chunk), PartialKeyLimit)]
             b == Board(c, m)
             fresh == Fresh(k, suggestions)
             e == ApplySuggestionPolicy(b, fresh, r, event.time)
             d == TrackDisplayed(e)
  <1>0. /\ Kept(c, k) /\ OpenCards(c, k) /\ Late(k) /\ r \in 1 .. c.revision
        /\ r = c.revision /\ r \in Nat /\ TrackedBefore(c, k, r)
        /\ c.revision \in Nat
    BY DEF Ready, Settled
  <1>1. ProcessProvisional(c, k, event, given)
            = IF event.chunk \in Range(k.partialKeys) THEN Board(c, k) ELSE d
    BY DEF ProcessProvisional
  <1>2. CASE event.chunk \in Range(k.partialKeys)
    <2> DEFINE x == Board(c, k)
    <2>1. x.call = c /\ x.coach = k
      BY DEF Board
    <2> HIDE DEF x
    <2>2. IsSeq(c.cards) /\ Len(c.cards) \in Nat
      BY <1>0, SeqForm DEF Kept, CardsInv, AreCards
    <2>3. Worked(c, k, event, x)
      BY <1>0, <2>1, <2>2 DEF Worked, Kept, Settled, SameWhatWasSaid, OnlyLocal
    <2>. QED  BY <1>1, <1>2, <2>3 DEF x
  <1>3. CASE event.chunk \notin Range(k.partialKeys)
    <2>1. /\ AreSuggestions(suggestions, r) /\ Provisionally(suggestions, "partial")
      BY SuggestionsAre
    <2> HIDE DEF suggestions
    <2>2. /\ AreSuggestions(fresh, r)
          /\ \A l \in DOMAIN fresh : /\ fresh[l].lifecycle = "provisional"
                                     /\ l \notin DOMAIN k.provisional
      BY <2>1 DEF Fresh, AreSuggestions, Provisionally
    <2> HIDE DEF fresh
    <2>3. /\ IsCoach(m) /\ m.prints = k.prints /\ m.processed = k.processed
          /\ m.external = k.external /\ m.provisional = k.provisional
          /\ IsSeq(m.partialKeys) /\ Len(m.partialKeys) <= PartialKeyLimit
      <3>1. DOMAIN k = CoachFields
        BY <1>0 DEF Kept, IsCoach
      <3>2. /\ IsCoach(m) /\ m.prints = k.prints /\ m.processed = k.processed
            /\ m.external = k.external /\ m.provisional = k.provisional
            /\ m.partialKeys = LastOf(Append(k.partialKeys, event.chunk), PartialKeyLimit)
        BY <3>1 DEF CoachFields, IsCoach
      <3>3. IsSeq(Append(k.partialKeys, event.chunk)) /\ PartialKeyLimit \in Nat \ {0}
        BY <1>0, Appended, CoachingAssumption DEF Kept, CoachInv
      <3> HIDE DEF m
      <3>. QED  BY <3>2, <3>3, LastOfIs
    <2> HIDE DEF m
    <2>4. Kept(c, m)
      <3>1. PrintsInv(c, m) /\ IdsInv(c, m) /\ CoachInv(c, m)
        BY <1>0, <2>3 DEF Kept, PrintsInv, IdsInv, CoachInv
      <3>. QED  BY <1>0, <2>3, <3>1 DEF Kept
    <2>5. IsBoard(b) /\ b.call = c /\ b.coach = m /\ b.displayed = {}
      BY DEF Board, IsBoard, BoardFields
    <2> HIDE DEF b
    <2>6. Offered(b, e, fresh, r, BusinessLabels)
      <3>1. /\ r \in 1 .. b.call.revision /\ Kept(b.call, b.coach)
            /\ \A l \in BusinessLabels : <<"local", r, l>> \notin CardIds(b.call.cards)
        BY <1>0, <2>4, <2>5 DEF Ready
      <3>. QED  BY <2>2, <2>5, <3>1, PolicyKeeps
    <2> HIDE DEF e
    <2>7. /\ IsBoard(e) /\ Kept(e.call, e.coach) /\ SameTracking(m, e.coach)
          /\ SameWhatWasSaid(c, e.call) /\ OnlyLocal(c, e.call)
          /\ e.call.revision = c.revision
          /\ e.displayed \subseteq {fresh[l] : l \in DOMAIN fresh}
      BY <2>5, <2>6 DEF Offered, SameWhatWasSaid
    <2> DEFINE tracked == Tracking(e.coach.provisional, e.displayed)
               n == [e.coach EXCEPT !.provisional = tracked]
    <2>8. d = [e EXCEPT !.coach = n]
      BY DEF TrackDisplayed
    <2>9. e.coach.provisional = k.provisional
      BY <2>3, <2>7 DEF SameTracking
    <2>10. /\ DOMAIN tracked = DOMAIN k.provisional \cup {s.label : s \in e.displayed}
           /\ \A l \in DOMAIN k.provisional : tracked[l] = k.provisional[l]
           /\ \A s \in e.displayed : /\ s.label \in DOMAIN fresh /\ s = fresh[s.label]
                                     /\ tracked[s.label] = s
      <3>1. \A s \in e.displayed : s.label \in DOMAIN fresh /\ s = fresh[s.label]
        BY <2>2, <2>7 DEF AreSuggestions
      <3>2. ASSUME NEW s \in e.displayed PROVE tracked[s.label] = s
        <4>1. s.label \notin DOMAIN k.provisional
          BY <2>2, <3>1
        <4>2. tracked[s.label] = CHOOSE t \in e.displayed : t.label = s.label
          BY <2>9, <4>1 DEF Tracking
        <4>3. \A t \in e.displayed : t.label = s.label => t = s
          BY <3>1
        <4>. QED  BY <4>2, <4>3
      <3>3. DOMAIN tracked = DOMAIN k.provisional \cup {s.label : s \in e.displayed}
        BY <2>9 DEF Tracking
      <3>4. \A l \in DOMAIN k.provisional : tracked[l] = k.provisional[l]
        BY <2>9 DEF Tracking
      <3>. QED  BY <3>1, <3>2, <3>3, <3>4
    <2> HIDE DEF d, tracked
    <2>11. /\ IsCoach(n) /\ n.prints = e.coach.prints /\ n.processed = k.processed
           /\ n.external = k.external /\ n.partialKeys = e.coach.partialKeys
           /\ n.provisional = tracked
      <3>1. DOMAIN e.coach = CoachFields
        BY <2>7 DEF Kept, IsCoach
      <3>2. e.coach.processed = k.processed /\ e.coach.external = k.external
        BY <2>3, <2>7 DEF SameTracking
      <3>. QED  BY <3>1, <3>2 DEF CoachFields, IsCoach
    <2> HIDE DEF n
    <2>12. d.call = e.call /\ d.coach = n
      <3>1. DOMAIN e = BoardFields
        BY <2>7 DEF IsBoard
      <3>. QED  BY <2>8, <3>1 DEF BoardFields
    <2>13. ASSUME NEW l \in DOMAIN tracked
           PROVE  /\ l \in BusinessLabels
                  /\ \E q \in 1 .. c.revision : tracked[l].id = <<"local", q, l>>
                  /\ \A p \in k.processed : tracked[l].id[2] > p
      <3>1. CASE l \in DOMAIN k.provisional
        BY <1>0, <2>10, <3>1 DEF Kept, CoachInv, Late
      <3>2. CASE l \notin DOMAIN k.provisional
        <4>1. PICK s \in e.displayed : s.label = l
          BY <2>10, <3>2
        <4>2. l \in DOMAIN fresh /\ tracked[l] = fresh[l]
          BY <2>10, <4>1
        <4>3. l \in BusinessLabels /\ tracked[l].id = <<"local", r, l>>
          BY <2>2, <4>2 DEF AreSuggestions
        <4>4. tracked[l].id[2] = r /\ \A p \in k.processed : p < r
          BY <1>0, <4>3 DEF Ready
        <4>5. \A p \in k.processed : p \in Nat
          BY <1>0 DEF Kept, CoachInv
        <4>. QED  BY <1>0, <4>3, <4>4, <4>5
      <3>. QED  BY <3>1, <3>2
    <2>14. Kept(e.call, n)
      <3>1. PrintsInv(e.call, n) /\ IdsInv(e.call, n)
        <4>1. e.coach.external = n.external
          BY <2>3, <2>7, <2>11 DEF SameTracking
        <4>. QED  BY <2>7, <2>11, <4>1 DEF Kept, PrintsInv, IdsInv
      <3>2. CoachInv(e.call, n)
        <4>1. n.processed \cup n.external \subseteq 1 .. e.call.revision
          BY <1>0, <2>7, <2>11 DEF Kept, CoachInv
        <4>2. IsSeq(n.partialKeys) /\ Len(n.partialKeys) <= PartialKeyLimit
          BY <2>7, <2>11 DEF Kept, CoachInv
        <4>. QED  BY <2>7, <2>11, <2>13, <4>1, <4>2 DEF CoachInv
      <3>. QED  BY <2>7, <2>11, <3>1, <3>2 DEF Kept
    <2>15. OpenCards(e.call, n)
      <3> SUFFICES ASSUME NEW x \in Range(e.call.active), x.lifecycle = "provisional"
                   PROVE  \E l \in DOMAIN tracked : tracked[l].id = x.id
        BY <2>11 DEF OpenCards
      <3>1. CASE x \in Range(c.active)
        BY <1>0, <2>10, <3>1 DEF OpenCards
      <3>2. CASE x \notin Range(c.active)
        <4>1. PICK l \in DOMAIN fresh : fresh[l] \in e.displayed /\ x = CardOf(fresh[l], r)
          BY <2>5, <2>6, <3>2 DEF Offered
        <4>2. x.id = fresh[l].id
          BY <1>0, <2>2, <4>1, CardOfIs DEF AreSuggestions
        <4>3. fresh[l].label \in DOMAIN tracked /\ tracked[fresh[l].label] = fresh[l]
          BY <2>10, <4>1
        <4>. QED  BY <4>2, <4>3
      <3>. QED  BY <3>1, <3>2
    <2>16. Late(n)
      BY <2>11, <2>13 DEF Late
    <2>17. Worked(c, k, event, d)
      BY <2>7, <2>11, <2>12, <2>14, <2>15, <2>16 DEF Worked, Settled, Kept
    <2>. QED  BY <1>1, <1>3, <2>17
  <1>. QED  BY <1>2, <1>3
-----------------------------------------------------------------------------
(* A failed event is rolled back.                                           *)

SameCoaching(c, d) == d.triggered = c.triggered /\ d.coached = c.coached

\* What is restored is the snapshot, but for the words (restore_coaching_state).
LEMMA RestoreIs ==
    ASSUME NEW c, IsCall(c), NEW k, IsCoach(k), NEW e, IsCall(e), NEW m, IsCoach(m),
           NEW x, x = Restore(e, m, [call |-> c, coach |-> k])
    PROVE  /\ x.coach = k /\ IsCall(x.call) /\ SameWhatWasSaid(e, x.call)
           /\ SameCards(c, x.call) /\ SameLabels(c, x.call) /\ SameCoaching(c, x.call)
  <1>1. /\ x.call = [e EXCEPT !.labels = c.labels, !.detected = c.detected,
                              !.timeline = c.timeline, !.shown = c.shown,
                              !.triggered = c.triggered, !.cards = c.cards,
                              !.active = c.active, !.history = c.history,
                              !.coached = c.coached]
        /\ x.coach = [m EXCEPT !.prints = k.prints, !.times = k.times,
                               !.processed = k.processed, !.external = k.external,
                               !.provisional = k.provisional,
                               !.partialKeys = k.partialKeys]
    BY DEF Restore
  <1> DEFINE d == x.call
             n == x.coach
  <1>2. DOMAIN e = CallFields /\ DOMAIN m = CoachFields /\ DOMAIN k = CoachFields
    BY DEF IsCall, IsCoach
  <1>3. n = k
    <2>1. n = [f \in CoachFields |-> n[f]] /\ k = [f \in CoachFields |-> k[f]]
      BY <1>1, <1>2 DEF IsCoach
    <2>2. {"prints", "times", "processed", "external", "provisional", "partialKeys"}
              = DOMAIN m
      BY <1>2 DEF CoachFields
    <2>3. /\ n.prints = k.prints /\ n.times = k.times /\ n.processed = k.processed
          /\ n.external = k.external /\ n.provisional = k.provisional
          /\ n.partialKeys = k.partialKeys
      BY ONLY <1>1, <2>2
    <2>4. \A f \in CoachFields : n[f] = k[f]
      BY ONLY <2>3 DEF CoachFields
    <2> HIDE DEF n
    <2>. QED  BY ONLY <2>1, <2>4
  <1>4. d = [f \in CallFields |-> d[f]]
    BY <1>1, <1>2
  <1>5. SameWhatWasSaid(e, d) /\ SameCards(c, d) /\ SameLabels(c, d) /\ SameCoaching(c, d)
    <2>1. {"stable", "partial", "revision", "labels", "detected", "timeline", "shown",
           "triggered", "cards", "active", "history", "coached"} \subseteq DOMAIN e
      BY <1>2 DEF CallFields
    <2>2. d.stable = e.stable /\ d.partial = e.partial /\ d.revision = e.revision
      BY ONLY <1>1, <2>1
    <2>3. d.labels = c.labels /\ d.detected = c.detected /\ d.timeline = c.timeline
      BY ONLY <1>1, <2>1
    <2>4. /\ d.cards = c.cards /\ d.active = c.active
          /\ d.history = c.history /\ d.shown = c.shown
      BY ONLY <1>1, <2>1
    <2>5. d.triggered = c.triggered /\ d.coached = c.coached
      BY ONLY <1>1, <2>1
    <2>. QED  BY <2>2, <2>3, <2>4, <2>5 DEF SameWhatWasSaid, SameCards, SameLabels,
                                            SameCoaching
  <1>. QED  BY <1>3, <1>4, <1>5 DEF IsCall

\* What process_safely leaves of an event.
Concluded(c, k, event, x) ==
    /\ Settled(x.call, x.coach) /\ SameWhatWasSaid(c, x.call) /\ OnlyLocal(c, x.call)
    /\ k.processed \subseteq x.coach.processed
    /\ x.status \in {"failed", "processed"}
    /\ x.status = "processed" /\ event.kind # "partial"
           => event.revision \in x.coach.processed
    /\ x.status = "failed" => /\ x.coach = k /\ SameCards(c, x.call)
                              /\ SameLabels(c, x.call) /\ SameCoaching(c, x.call)

\* The adapter keeps a result, or rolls the failed event back.
LEMMA SettleKeeps ==
    ASSUME NEW c, NEW k, Settled(c, k), NEW event, NEW d, Worked(c, k, event, d),
           NEW x, x = Settle(d, event, [call |-> c, coach |-> k])
    PROVE  Concluded(c, k, event, x)
  <1> DEFINE before == [call |-> c, coach |-> k]
             dirty == [d.coach EXCEPT !.processed = @ \cup {event.revision}]
             restored == Restore(d.call, dirty, before)
  <1>1. x = IF d.failed THEN [call |-> restored.call, coach |-> restored.coach,
                              status |-> "failed"]
            ELSE [call |-> d.call, coach |-> d.coach, status |-> "processed"]
    BY DEF Settle
  <1>2. IsCall(d.call) /\ IsCoach(d.coach) /\ IsCall(c) /\ IsCoach(k)
    BY DEF Worked, Settled, Kept
  <1>3. IsCoach(dirty)
    BY <1>2 DEF IsCoach
  <1> HIDE DEF dirty
  <1>4. restored = Restore(d.call, dirty, [call |-> c, coach |-> k])
    OBVIOUS
  <1> HIDE DEF restored
  <1>5. /\ restored.coach = k /\ IsCall(restored.call)
        /\ SameWhatWasSaid(d.call, restored.call) /\ SameCards(c, restored.call)
        /\ SameLabels(c, restored.call) /\ SameCoaching(c, restored.call)
    BY ONLY <1>2, <1>3, <1>4, RestoreIs
  <1>6. CASE d.failed
    <2> DEFINE e == restored.call
    <2>1. x.call = e /\ x.coach = k /\ x.status = "failed"
      BY <1>1, <1>5, <1>6
    <2>2. SameWhatWasSaid(c, e) /\ e.revision = c.revision
      BY <1>5 DEF Worked, SameWhatWasSaid
    <2> HIDE DEF e
    <2>3. IsCall(e) /\ SameCards(c, e) /\ SameLabels(c, e) /\ SameCoaching(c, e)
      BY <1>5 DEF e
    <2>4. LabelsInv(e)
      BY <2>2, <2>3, LabelsStay DEF Settled, Kept
    <2>5. SameTracking(k, k) /\ k.prints = k.prints
      BY DEF SameTracking
    <2>6. Kept(e, k)
      BY <1>2, <2>2, <2>3, <2>4, <2>5, KeptStays DEF Settled
    <2>7. OpenCards(e, k)
      BY <2>3 DEF Settled, OpenCards, SameCards
    <2>8. OnlyLocal(c, e)
      <3>1. IsSeq(c.cards) /\ Len(c.cards) \in Nat
        BY SeqForm DEF Settled, Kept, CardsInv, AreCards
      <3>. QED  BY <2>3, <3>1 DEF OnlyLocal, SameCards
    <2>. QED  BY <2>1, <2>2, <2>3, <2>6, <2>7, <2>8 DEF Concluded, Settled
  <1>7. CASE ~d.failed
    <2>1. x.call = d.call /\ x.coach = d.coach /\ x.status = "processed"
      BY <1>1, <1>7
    <2>. QED  BY <1>7, <2>1 DEF Worked, Concluded
  <1>. QED  BY <1>6, <1>7

\* One event that is coached, whatever it comes to (process_safely).
LEMMA SafelyKeeps ==
    ASSUME NEW c, NEW k, Ready(c, k), NEW event, event.revision = c.revision,
           NEW given, NEW x, x = ProcessSafely(c, k, event, given)
    PROVE  Concluded(c, k, event, x)
  <1> DEFINE d == IF event.kind = "partial" THEN ProcessProvisional(c, k, event, given)
                                            ELSE ProcessCommitted(c, k, event, given)
  <1>1. event.revision \notin k.processed /\ Settled(c, k)
    BY DEF Ready
  <1>2. x = Settle(d, event, [call |-> c, coach |-> k])
    BY <1>1 DEF ProcessSafely
  <1>3. Worked(c, k, event, d)
    BY ProvisionalWorks, CommittedWorks
  <1> HIDE DEF d
  <1>. QED  BY ONLY <1>1, <1>2, <1>3, SettleKeeps
-----------------------------------------------------------------------------
(* A card the model wrote.                                                  *)

\* What the answer to a request leaves behind.
Answered(c, k, d, r) ==
    /\ Settled(d.call, d.coach) /\ SameWhatWasSaid(c, d.call)
    /\ d.coach.processed = k.processed
    /\ \/ d.call.cards = c.cards
       \/ /\ r \notin k.external /\ Len(d.call.cards) = Len(c.cards) + 1
          /\ d.call.cards[Len(c.cards) + 1].revision = r

\* One answer of the model offered as a card (process_external_suggestion).
LEMMA ExternalKeeps ==
    ASSUME NEW c, NEW k, Settled(c, k), NEW output, NEW r \in 1 .. c.revision, NEW now,
           NEW s, s = CreateSuggestion(Policy, output, r),
           NEW d, d = ProcessExternal(c, k, s, r, now)
    PROVE  Answered(c, k, d, r)
  <1> DEFINE m == [k EXCEPT !.external = @ \cup {r}]
             b == Board(c, m)
             e == Offer(b, s, r, now)
  <1>0. /\ Kept(c, k) /\ OpenCards(c, k) /\ Late(k) /\ r \in Nat /\ c.revision \in Nat
    BY DEF Settled, Kept
  <1>1. CASE s.action \notin AllowedActions \/ r \in k.external
    <2>1. d = Board(c, k)
      BY <1>1 DEF ProcessExternal
    <2>2. d.call = c /\ d.coach = k
      BY <2>1 DEF Board
    <2>. QED  BY <2>2 DEF Answered, SameWhatWasSaid
  <1>2. CASE ~(s.action \notin AllowedActions \/ r \in k.external)
    <2>1. d = Triggered(e, now)
      BY <1>2 DEF ProcessExternal
    <2>2. /\ IsCoach(m) /\ m.prints = k.prints /\ m.processed = k.processed
          /\ m.external = k.external \cup {r} /\ m.provisional = k.provisional
          /\ m.partialKeys = k.partialKeys
      <3>1. DOMAIN k = CoachFields
        BY <1>0 DEF Kept, IsCoach
      <3>. QED  BY <3>1 DEF CoachFields, IsCoach
    <2> HIDE DEF m
    <2>3. Kept(c, m)
      <3>1. PrintsInv(c, m) /\ IdsInv(c, m) /\ CoachInv(c, m)
        BY <1>0, <2>2 DEF Kept, PrintsInv, IdsInv, CoachInv
      <3>. QED  BY <1>0, <2>2, <3>1 DEF Kept
    <2>4. IsBoard(b) /\ b.call = c /\ b.coach = m /\ b.displayed = {}
      BY DEF Board, IsBoard, BoardFields
    <2> HIDE DEF b
    <2>5. /\ IsSuggestion(s) /\ s.id = <<"llm", r>> /\ s.lifecycle = "confirmed"
      <3>1. /\ s = [f \in SuggestionFields |-> s[f]]
            /\ s.id = <<"llm", r>> /\ s.lifecycle = "confirmed"
            /\ s.label = Policy.label /\ s.priority = Policy.priority
            /\ s.action = Policy.action /\ s.content = <<"llm", output.advice>>
        BY DEF CreateSuggestion, SuggestionFields
      <3>2. s.action = ActionFor(s.content)
        BY <3>1 DEF ActionFor
      <3>3. ~IsLocal(s.id)
        BY <3>1 DEF IsLocal
      <3>. QED  BY <3>1, <3>2, <3>3, CoachingAssumption DEF IsSuggestion
    <2>6. IsNewId(c, m, s.id)
      <3>1. s.id \notin CardIds(c.cards)
        <4> SUFFICES ASSUME s.id \in CardIds(c.cards) PROVE FALSE
          OBVIOUS
        <4>1. \/ \E q \in 1 .. c.revision, l \in BusinessLabels : s.id = <<"local", q, l>>
              \/ \E q \in k.external : s.id = <<"llm", q>>
          BY <1>0 DEF Kept, IdsInv
        <4>2. s.id[1] = "llm" /\ s.id[2] = r
          BY <2>5
        <4>. QED  BY <1>2, <4>1, <4>2
      <3>. QED  BY <2>2, <2>5, <3>1 DEF IsNewId
    <2>7. /\ IsBoard(e) /\ Kept(e.call, e.coach)
          /\ SameWhatWasSaid(c, e.call) /\ SameTracking(m, e.coach)
          /\ \/ e.call.cards = c.cards /\ Range(e.call.active) = Range(c.active)
             \/ /\ e.call.cards = Append(c.cards, CardOf(s, r))
                /\ Range(e.call.active) \subseteq Range(c.active) \cup {CardOf(s, r)}
      <3>1. r \in 0 .. b.call.revision /\ Kept(b.call, b.coach) /\ IsNewId(b.call, b.coach, s.id)
        BY <1>0, <2>3, <2>4, <2>6
      <3>2. e = Offer(b, s, r, now)
        OBVIOUS
      <3> HIDE DEF e
      <3>3. /\ IsBoard(e) /\ Kept(e.call, e.coach)
            /\ SameWhatWasSaid(b.call, e.call) /\ SameTracking(b.coach, e.coach)
            /\ \/ /\ e.call.cards = b.call.cards
                  /\ Range(e.call.active) = Range(b.call.active)
               \/ /\ e.call.cards = Append(b.call.cards, CardOf(s, r))
                  /\ Range(e.call.active) \subseteq
                        Range(b.call.active) \cup {CardOf(s, r)}
        <4>1. /\ IsBoard(b) /\ Kept(b.call, b.coach) /\ IsSuggestion(s)
              /\ r \in 0 .. b.call.revision /\ IsNewId(b.call, b.coach, s.id)
          BY <2>4, <2>5, <3>1
        <4>. QED  BY ONLY <3>2, <4>1, OfferKeeps
      <3>. QED  BY <2>4, <3>3
    <2> HIDE DEF e
    <2>8. CardOf(s, r).revision = r /\ CardOf(s, r).lifecycle = "confirmed"
      BY <1>0, <2>5, CardOfIs
    <2>9. OpenCards(e.call, e.coach) /\ Late(e.coach) /\ e.coach.processed = k.processed
      BY <1>0, <2>2, <2>7, <2>8 DEF OpenCards, Late, SameTracking
    <2>10. IsSeq(c.cards) /\ Len(c.cards) \in Nat
      BY <1>0, SeqForm DEF Kept, CardsInv, AreCards
    <2>11. \/ e.call.cards = c.cards
           \/ /\ Len(e.call.cards) = Len(c.cards) + 1
              /\ e.call.cards[Len(c.cards) + 1].revision = r
      BY <2>7, <2>8, <2>10, Appended
    <2>12. CASE e.displayed = {}
      <3>1. d = e
        BY <2>1, <2>12 DEF Triggered
      <3>. QED  BY <1>2, <2>7, <2>9, <2>11, <3>1 DEF Answered, Settled
    <2>13. CASE e.displayed # {}
      <3> DEFINE t == MarkTriggered(e.call, now)
      <3>1. d = [e EXCEPT !.call = t]
        BY <2>1, <2>13 DEF Triggered
      <3>2. IsCall(t) /\ SameWhatWasSaid(e.call, t) /\ SameLabels(e.call, t) /\ SameCards(e.call, t)
        BY <2>7, MarkFields DEF Kept
      <3> HIDE DEF t
      <3>3. d.call = t /\ d.coach = e.coach
        BY <2>7, <3>1 DEF IsBoard, BoardFields
      <3>4. Kept(t, e.coach)
        <4>1. LabelsInv(t) /\ t.revision = e.call.revision
          BY <2>7, <3>2, LabelsStay DEF Kept, SameWhatWasSaid
        <4>2. SameTracking(e.coach, e.coach) /\ IsCoach(e.coach)
          BY <2>7 DEF SameTracking, Kept
        <4>. QED  BY <2>7, <3>2, <4>1, <4>2, KeptStays
      <3>5. OpenCards(t, e.coach)
        BY <2>9, <3>2 DEF OpenCards, SameCards
      <3>6. SameWhatWasSaid(c, t) /\ t.cards = e.call.cards
        BY <2>7, <3>2 DEF SameWhatWasSaid, SameCards
      <3>. QED  BY <1>2, <2>9, <2>11, <3>3, <3>4, <3>5, <3>6 DEF Answered, Settled
    <2>. QED  BY <2>12, <2>13
  <1>. QED  BY <1>1, <1>2
-----------------------------------------------------------------------------
(* What a call hears, and how it is classified.                             *)

\* An event changes the words of a call and its revision only (apply_transcript).
LEMMA HeardIs ==
    ASSUME NEW c, IsCall(c), NEW kind, NEW text, NEW r,
           NEW h, h = ApplyTranscript(c, kind, text, r)
    PROVE  /\ IsCall(h) /\ SameCards(c, h) /\ SameLabels(c, h) /\ SameCoaching(c, h)
           /\ h.revision = r
  <1>1. DOMAIN c = CallFields
    BY DEF IsCall
  <1>2. PICK x, y : h = [c EXCEPT !.stable = x, !.partial = y, !.revision = r]
    <2> DEFINE spoken == IF kind = "partial" THEN [c EXCEPT !.partial = text]
                                             ELSE AppendStable(c, text)
               final == IF kind = "final" THEN <<>> ELSE spoken.partial
    <2>1. \E x, y : spoken = [c EXCEPT !.stable = x, !.partial = y]
      <3>1. CASE kind = "partial"
        <4>1. spoken = [c EXCEPT !.stable = c.stable, !.partial = text]
          BY <1>1, <3>1 DEF IsCall, CallFields
        <4> HIDE DEF spoken
        <4>. QED  BY <4>1
      <3>2. CASE kind # "partial" /\ IsSuffix(text, c.stable)
        <4>1. spoken = [c EXCEPT !.stable = c.stable, !.partial = c.partial]
          BY <1>1, <3>2 DEF IsCall, CallFields, AppendStable
        <4> HIDE DEF spoken
        <4>. QED  BY <4>1
      <3>3. CASE kind # "partial" /\ ~IsSuffix(text, c.stable)
        <4>1. spoken = [c EXCEPT !.stable = c.stable \o text, !.partial = c.partial]
          BY <1>1, <3>3 DEF IsCall, CallFields, AppendStable
        <4> HIDE DEF spoken
        <4>. QED  BY <4>1
      <3>. QED  BY <3>1, <3>2, <3>3
    <2>2. h = [spoken EXCEPT !.revision = r, !.partial = final]
      BY DEF ApplyTranscript
    <2> HIDE DEF spoken, final
    <2>3. PICK x, y : spoken = [c EXCEPT !.stable = x, !.partial = y]
      BY <2>1
    <2>4. h = [c EXCEPT !.stable = x, !.partial = final, !.revision = r]
      BY <1>1, <2>2, <2>3
    <2>. QED  BY <2>4
  <1>. QED  BY <1>1, <1>2 DEF IsCall, CallFields, SameCards, SameLabels, SameCoaching

\* The labels of a call that heard more are still accounted for.
LEMMA LabelsHeard ==
    ASSUME NEW c, LabelsInv(c), c.revision \in Nat, NEW h, SameLabels(c, h),
           h.revision = c.revision + 1
    PROVE  LabelsInv(h)
  <1>1. 0 .. c.revision \subseteq 0 .. h.revision
    OBVIOUS
  <1>. QED  BY <1>1 DEF LabelsInv, SameLabels, NewIn

\* Recording labels does not touch when the call was coached.
LEMMA RecordCoaching ==
    ASSUME NEW c, IsCall(c), NEW labels, NEW r
    PROVE  SameCoaching(c, RecordDetectedLabels(c, labels, r))
  <1> DEFINE d == RecordDetectedLabels(c, labels, r)
  <1>1. PICK x, y : d = [[c EXCEPT !.detected = x] EXCEPT !.timeline = y]
    BY DEF RecordDetectedLabels, UpsertDiagnostic
  <1> HIDE DEF d
  <1>2. SameCoaching(c, d)
    BY <1>1 DEF IsCall, CallFields, SameCoaching
  <1>. QED  BY <1>2 DEF d

\* A classified call differs from the one before it in its labels only.
LEMMA ClassifiedIs ==
    ASSUME NEW h, IsCall(h), LabelsInv(h), h.revision \in Nat, NEW delta,
           NEW x \in StableLabels(h, delta)
    PROVE  /\ IsCall(x.call) /\ SameWhatWasSaid(h, x.call) /\ SameCards(h, x.call)
           /\ SameCoaching(h, x.call) /\ LabelsInv(x.call)
           /\ ~classifier => x.call = h
  <1> DEFINE r == h.revision
             a == MarkClassificationAttempt(h, r)
  <1>1. DOMAIN h = CallFields
    BY DEF IsCall
  <1>2. /\ IsCall(a) /\ SameWhatWasSaid(h, a) /\ SameCards(h, a) /\ SameCoaching(h, a)
        /\ SameLabels(h, a)
    BY <1>1 DEF MarkClassificationAttempt, IsCall, CallFields, SameWhatWasSaid, SameCards,
                SameCoaching, SameLabels
  <1> HIDE DEF a
  <1>3. LabelsInv(a) /\ a.revision = r
    BY <1>2, LabelsStay DEF SameWhatWasSaid
  <1>4. CASE ~classifier
    <2>1. x.call = h
      BY <1>4 DEF StableLabels
    <2>. QED  BY <2>1 DEF SameWhatWasSaid, SameCards, SameCoaching
  <1>5. CASE classifier
    <2>1. \/ x.call = a
          \/ \E l : x.call = ApplyClassification(h, l, r)
      BY <1>5 DEF StableLabels, a
    <2>2. CASE x.call = a
      BY <1>2, <1>3, <1>5, <2>2
    <2>3. ASSUME NEW l, x.call = ApplyClassification(h, l, r)
          PROVE  /\ IsCall(x.call) /\ SameWhatWasSaid(h, x.call) /\ SameCards(h, x.call)
                 /\ SameCoaching(h, x.call) /\ LabelsInv(x.call)
      <3> DEFINE u == UpdateActiveLabels(a, l)
                 y == Canonical(l)
      <3>1. x.call = RecordDetectedLabels(u, l, r)
        BY <2>3 DEF ApplyClassification, a
      <3>2. u = [a EXCEPT !.labels = y]
        BY DEF UpdateActiveLabels
      <3>3. y \subseteq BusinessLabels \cup {NoAction}
        BY CanonicalIs
      <3> HIDE DEF u, y
      <3>4. /\ IsCall(u) /\ SameWhatWasSaid(a, u) /\ SameCards(a, u) /\ SameCoaching(a, u)
            /\ u.labels = y /\ u.detected = a.detected /\ u.timeline = a.timeline
        BY <1>2, <3>2 DEF IsCall, CallFields, SameWhatWasSaid, SameCards, SameCoaching
      <3>5. u.revision = r
        BY <1>3, <3>4 DEF SameWhatWasSaid
      <3>6. LabelsInv(u)
        BY <1>3, <3>3, <3>4, <3>5 DEF LabelsInv, NewIn
      <3>7. r \in 0 .. u.revision
        BY <3>5
      <3>8. /\ IsCall(x.call) /\ SameWhatWasSaid(u, x.call) /\ SameCards(u, x.call)
            /\ SameCoaching(u, x.call) /\ LabelsInv(x.call)
        BY <3>1, <3>4, <3>6, <3>7, RecordFields, RecordKeeps, RecordCoaching
      <3>. QED  BY <1>2, <3>4, <3>8 DEF SameWhatWasSaid, SameCards, SameCoaching
    <2>. QED  BY <1>5, <2>1, <2>2, <2>3
  <1>. QED  BY <1>4, <1>5
-----------------------------------------------------------------------------
(* The steps of a coached call.                                             *)

\* What holds between the call, the coordinator, the cadence and the decorator:
\* a context is kept only for the revision that asked for it.
CoachedInv ==
    /\ classifier \in BOOLEAN
    /\ Settled(call, coach)
    /\ IsSeq(cadence.keys) /\ Len(cadence.keys) <= PartialKeyLimit
    /\ \A p \in pending : p.revision \in coach.processed
    /\ \A p, q \in pending : p = q
    /\ phase \in {"open", "committed", "heard", "final", "ended"}
    /\ chunk \in 1 .. MaxChunks
    /\ outcome.status \in Statuses

\* A step that concludes an event as failed changes none of the books.
FailureStep ==
    outcome'.status = "failed" /\ outcome' # outcome =>
          /\ coach' = coach
          /\ call'.cards = call.cards
          /\ call'.active = call.active
          /\ call'.history = call.history
          /\ call'.shown = call.shown
          /\ call'.triggered = call.triggered
          /\ call'.coached = call.coached
          /\ ~classifier => /\ call'.labels = call.labels
                            /\ call'.detected = call.detected
                            /\ call'.timeline = call.timeline

\* A step admits a card of the model only for the revision that is the latest.
GeneratedStep ==
    \A i \in DOMAIN call'.cards \ DOMAIN call.cards :
          call'.cards[i].source = "llm" =>
              /\ call'.cards[i].revision = call'.revision
              /\ call'.revision \in coach'.processed
              /\ call'.revision \notin coach.external

CoachedStep == CoachedInv' /\ FailureStep /\ GeneratedStep

\* The invariant holds of a call that begins.
LEMMA CoachedInit ==
    ASSUME CoachingInit
    PROVE  CoachedInv
  <1>1. /\ call.cards = <<>> /\ call.active = <<>> /\ call.history = <<>>
        /\ call.shown = {} /\ call.labels = {} /\ call.detected = <<>>
        /\ call.timeline = <<>> /\ call.revision = 0 /\ IsCall(call)
    BY DEF CoachingInit, EmptyCall, IsCall, CallFields
  <1>2. /\ coach.prints = {} /\ coach.processed = {} /\ coach.external = {}
        /\ coach.provisional = <<>> /\ coach.partialKeys = <<>> /\ IsCoach(coach)
    BY DEF CoachingInit, EmptyCoach, IsCoach, CoachFields
  <1>3. IsSeq(<<>>) /\ Len(<<>>) = 0 /\ DOMAIN <<>> = {} /\ Range(<<>>) = {}
    BY DEF IsSeq, Range
  <1>4. MaxActive \in Nat /\ PartialKeyLimit \in Nat /\ MaxChunks \in Nat \ {0}
    BY CoachingAssumption
  <1>5. CardsInv(call)
    <2>1. CardIds(<<>>) = {}
      BY <1>3 DEF CardIds
    <2>. QED  BY <1>1, <1>3, <1>4, <2>1 DEF CardsInv, AreCards, OneEach, Ranked
  <1>6. LabelsInv(call)
    BY <1>1, <1>3 DEF LabelsInv, NewIn
  <1>7. PrintsInv(call, coach)
    BY <1>1, <1>2, <1>3, FS_EmptySet DEF PrintsInv
  <1>8. IdsInv(call, coach) /\ CoachInv(call, coach)
    BY <1>1, <1>2, <1>3, <1>4 DEF IdsInv, CoachInv, CardIds
  <1>9. Kept(call, coach)
    BY <1>1, <1>2, <1>5, <1>6, <1>7, <1>8 DEF Kept
  <1>10. OpenCards(call, coach) /\ Late(coach)
    BY <1>1, <1>2, <1>3 DEF OpenCards, Late
  <1>11. /\ classifier \in BOOLEAN /\ cadence.keys = <<>> /\ pending = {}
         /\ phase = "open" /\ chunk = 1 /\ outcome.status = "none"
    BY DEF CoachingInit, NoOutcome
  <1>12. chunk \in 1 .. MaxChunks
    BY <1>4, <1>11
  <1>. QED  BY <1>3, <1>4, <1>9, <1>10, <1>11, <1>12 DEF CoachedInv, Settled, Statuses

\* A call that heard an event is ready to be coached on it.
LEMMA NowReady ==
    ASSUME CoachedInv, NEW h, IsCall(h), SameCards(call, h), LabelsInv(h),
           h.revision = call.revision + 1
    PROVE  Ready(h, coach)
  BY HeardKeeps DEF CoachedInv

\* The contexts kept for a request are gone once a newer event is coached.
LEMMA SubmitKeeps ==
    ASSUME CoachedInv, NEW event, event.revision = call.revision + 1, NEW after,
           NEW status, SubmitRequest(event, after, status),
           coach.processed \subseteq coach'.processed,
           status = "processed" => event.revision \in coach'.processed
    PROVE  /\ \A p \in pending' : p.revision \in coach'.processed
           /\ \A p, q \in pending' : p = q
  <1>1. Superseded(pending, event.revision) = {}
    <2>1. \A q \in coach.processed : q \in 1 .. call.revision
      BY DEF CoachedInv, Settled, Kept, CoachInv
    <2>2. call.revision \in Nat
      BY DEF CoachedInv, Settled, Kept
    <2>3. \A p \in pending : p.revision # event.revision
      BY <2>1, <2>2 DEF CoachedInv
    <2>. QED  BY <2>3 DEF Superseded
  <1>2. CASE status # "processed" \/ ~manager.open
    <2>1. pending' = pending
      BY <1>2 DEF SubmitRequest
    <2>. QED  BY <2>1 DEF CoachedInv
  <1>3. CASE ~(status # "processed" \/ ~manager.open)
    <2>1. pending' \in {{}, {[revision |-> event.revision, time |-> event.time]}}
      BY <1>1, <1>3 DEF SubmitRequest
    <2>. QED  BY <1>3, <2>1
  <1>. QED  BY <1>2, <1>3

\* An event that is coached.
LEMMA CoachKeeps ==
    ASSUME CoachedInv, NEW h, IsCall(h), SameCards(call, h), SameCoaching(call, h),
           LabelsInv(h), h.revision = call.revision + 1,
           ~classifier => SameLabels(call, h),
           NEW event, event.revision = h.revision, NEW given,
           Coach(event, h, given), classifier' = classifier,
           IsSeq(cadence'.keys) /\ Len(cadence'.keys) <= PartialKeyLimit,
           phase' \in {"committed", "heard", "final"}, chunk' = chunk
    PROVE  CoachedStep
  <1> DEFINE x == ProcessSafely(h, coach, event, given)
  <1>1. /\ call' = x.call /\ coach' = x.coach
        /\ outcome' = [status |-> x.status, revision |-> event.revision]
        /\ IF event.kind = "partial" THEN UNCHANGED <<pending, manager>>
                                     ELSE SubmitRequest(event, x.call, x.status)
    BY DEF Coach, Conclude
  <1>2. Concluded(h, coach, event, x)
    BY NowReady, SafelyKeeps
  <1> HIDE DEF x
  <1>3. /\ Settled(call', coach') /\ coach.processed \subseteq coach'.processed
        /\ outcome'.status = x.status /\ x.status \in {"failed", "processed"}
    BY <1>1, <1>2 DEF Concluded
  <1>4. /\ \A p \in pending' : p.revision \in coach'.processed
        /\ \A p, q \in pending' : p = q
    <2>1. CASE event.kind = "partial"
      <3>1. pending' = pending
        BY <1>1, <2>1
      <3>. QED  BY <1>3, <3>1 DEF CoachedInv
    <2>2. CASE event.kind # "partial"
      <3>1. /\ event.revision = call.revision + 1
            /\ SubmitRequest(event, x.call, x.status)
            /\ x.status = "processed" => event.revision \in coach'.processed
        BY <1>1, <1>2, <2>2 DEF Concluded
      <3>. QED  BY <1>3, <3>1, SubmitKeeps
    <2>. QED  BY <2>1, <2>2
  <1>5. CoachedInv'
    BY <1>3, <1>4 DEF CoachedInv, Statuses
  <1>6. FailureStep
    <2> SUFFICES ASSUME outcome'.status = "failed"
                 PROVE  /\ coach' = coach /\ SameCards(call, call')
                        /\ SameCoaching(call, call')
                        /\ ~classifier => SameLabels(call, call')
      BY DEF FailureStep, SameCards, SameCoaching, SameLabels
    <2>1. /\ x.coach = coach /\ SameCards(h, x.call) /\ SameLabels(h, x.call)
          /\ SameCoaching(h, x.call)
      BY <1>2, <1>3 DEF Concluded
    <2>. QED  BY <1>1, <2>1 DEF SameCards, SameCoaching, SameLabels
  <1>7. GeneratedStep
    <2> SUFFICES ASSUME NEW i \in DOMAIN call'.cards \ DOMAIN call.cards
                 PROVE  call'.cards[i].source # "llm"
      BY DEF GeneratedStep
    <2>1. OnlyLocal(h, call') /\ h.cards = call.cards
      BY <1>1, <1>2 DEF Concluded, SameCards
    <2>2. CardsInv(call') /\ CardsInv(call)
      BY <1>3 DEF CoachedInv, Settled, Kept
    <2>3. /\ DOMAIN call.cards = 1 .. Len(call.cards) /\ Len(call.cards) \in Nat
          /\ DOMAIN call'.cards = 1 .. Len(call'.cards) /\ Len(call'.cards) \in Nat
      BY <2>2, SeqForm DEF CardsInv, AreCards
    <2>4. i \in 1 .. Len(call'.cards) /\ i > Len(call.cards)
      BY <2>3
    <2>5. IsLocal(call'.cards[i].id)
      BY <2>1, <2>4 DEF OnlyLocal
    <2>. QED  BY <2>2, <2>4, <2>5 DEF CardsInv
  <1>. QED  BY <1>5, <1>6, <1>7 DEF CoachedStep

\* An event that only becomes part of the call.
LEMMA OnlyHeardKeeps ==
    ASSUME CoachedInv, NEW h, IsCall(h), SameCards(call, h),
           LabelsInv(h), h.revision = call.revision + 1,
           OnlyHeard(h), classifier' = classifier,
           IsSeq(cadence'.keys) /\ Len(cadence'.keys) <= PartialKeyLimit,
           phase' \in {"committed", "heard", "final"}, chunk' = chunk
    PROVE  CoachedStep
  <1>1. /\ call' = h /\ coach' = coach /\ pending' = pending
        /\ outcome'.status = "skipped"
    BY DEF OnlyHeard
  <1>2. Settled(call', coach')
    BY <1>1, NowReady DEF Ready
  <1>3. CoachedInv'
    BY <1>1, <1>2 DEF CoachedInv, Statuses
  <1>4. FailureStep
    BY <1>1 DEF FailureStep
  <1>5. GeneratedStep
    BY <1>1 DEF GeneratedStep, SameCards
  <1>. QED  BY <1>3, <1>4, <1>5 DEF CoachedStep

\* A stable or final event keeps the invariant.
LEMMA CommittedKeeps ==
    ASSUME CoachedInv, NEW event, event.revision = call.revision + 1,
           Committed(event), UNCHANGED <<classifier, cadence, chunk>>,
           phase' \in {"committed", "final"}
    PROVE  CoachedStep
  <1> DEFINE h == ApplyTranscript(call, event.kind, event.text, event.revision)
  <1>1. IsCall(call) /\ LabelsInv(call) /\ call.revision \in Nat
    BY DEF CoachedInv, Settled, Kept
  <1>2. /\ IsCall(h) /\ SameCards(call, h) /\ SameLabels(call, h) /\ SameCoaching(call, h)
        /\ h.revision = call.revision + 1
    BY <1>1, HeardIs
  <1>3. \/ OnlyHeard(h)
        \/ \E e \in StableLabels(h, event.text) : Coach(event, e.call, e.given)
    BY DEF Committed
  <1> HIDE DEF h
  <1>4. LabelsInv(h)
    BY <1>1, <1>2, LabelsHeard
  <1>5. IsSeq(cadence'.keys) /\ Len(cadence'.keys) <= PartialKeyLimit
    BY DEF CoachedInv
  <1>6. CASE OnlyHeard(h)
    BY <1>2, <1>4, <1>5, <1>6, OnlyHeardKeeps
  <1>7. ASSUME NEW e \in StableLabels(h, event.text), Coach(event, e.call, e.given)
        PROVE  CoachedStep
    <2>1. /\ IsCall(e.call) /\ SameWhatWasSaid(h, e.call) /\ SameCards(h, e.call)
          /\ SameCoaching(h, e.call) /\ LabelsInv(e.call)
          /\ ~classifier => e.call = h
      BY <1>1, <1>2, <1>4, ClassifiedIs
    <2>2. /\ SameCards(call, e.call) /\ SameCoaching(call, e.call)
          /\ e.call.revision = call.revision + 1
          /\ ~classifier => SameLabels(call, e.call)
      BY <1>2, <2>1 DEF SameWhatWasSaid, SameCards, SameCoaching
    <2>. QED  BY <1>5, <1>7, <2>1, <2>2, CoachKeeps
  <1>. QED  BY <1>3, <1>6, <1>7

\* A partial event keeps the invariant.
LEMMA PartialKeeps ==
    ASSUME CoachedInv, NEW text, PartialEvent(text)
    PROVE  CoachedStep
  <1> DEFINE event == EventOf("partial", text, chunk)
             h == ApplyTranscript(call, "partial", text, event.revision)
  <1>1. IsCall(call) /\ LabelsInv(call) /\ call.revision \in Nat
    BY DEF CoachedInv, Settled, Kept
  <1>2. event.revision = call.revision + 1
    BY DEF EventOf
  <1>3. /\ \/ /\ cadence'.keys = LastOf(Append(cadence.keys, chunk), PartialKeyLimit)
              /\ \/ OnlyHeard(h)
                 \/ \E given \in ProvisionalLabels(text) : Coach(event, h, given)
           \/ cadence' = cadence /\ OnlyHeard(h)
        /\ phase' = "heard" /\ classifier' = classifier /\ chunk' = chunk
    BY DEF PartialEvent
  <1> HIDE DEF event
  <1>4. /\ IsCall(h) /\ SameCards(call, h) /\ SameLabels(call, h) /\ SameCoaching(call, h)
        /\ h.revision = call.revision + 1
    BY <1>1, <1>2, HeardIs
  <1> HIDE DEF h
  <1>5. LabelsInv(h)
    BY <1>1, <1>4, LabelsHeard
  <1>6. IsSeq(cadence'.keys) /\ Len(cadence'.keys) <= PartialKeyLimit
    <2>1. IsSeq(Append(cadence.keys, chunk)) /\ PartialKeyLimit \in Nat \ {0}
      BY Appended, CoachingAssumption DEF CoachedInv
    <2>2. IsSeq(cadence.keys) /\ Len(cadence.keys) <= PartialKeyLimit
      BY DEF CoachedInv
    <2>. QED  BY <1>3, <2>1, <2>2, LastOfIs
  <1>7. CASE OnlyHeard(h)
    BY <1>3, <1>4, <1>5, <1>6, <1>7, OnlyHeardKeeps
  <1>8. ASSUME NEW given, Coach(event, h, given)
        PROVE  CoachedStep
    BY <1>2, <1>3, <1>4, <1>5, <1>6, <1>8, CoachKeeps
  <1>. QED  BY <1>3, <1>7, <1>8

\* A drain of what the manager finished keeps the invariant (drain_completed).
LEMMA DrainKeeps ==
    ASSUME CoachedInv, DrainCompleted, UNCHANGED <<classifier, cadence, outcome>>,
           phase' \in {"open", "ended"}, chunk' \in 1 .. MaxChunks
    PROVE  CoachedStep
  <1>1. FailureStep
    BY DEF FailureStep
  <1>2. CASE call' = call /\ coach' = coach /\ pending' \subseteq pending
    BY <1>1, <1>2 DEF CoachedStep, CoachedInv, GeneratedStep
  <1>3. ASSUME NEW p \in pending, p.revision = call.revision, NEW output, NEW d,
               d = ProcessExternal(call, coach, CreateSuggestion(Policy, output, p.revision),
                                   p.revision, p.time),
               call' = d.call, coach' = d.coach, pending' = {}
        PROVE  CoachedStep
    <2> DEFINE r == p.revision
               s == CreateSuggestion(Policy, output, r)
    <2>1. r \in coach.processed /\ r \in 1 .. call.revision /\ Settled(call, coach)
      BY DEF CoachedInv, Settled, Kept, CoachInv
    <2>2. s = CreateSuggestion(Policy, output, r)
      OBVIOUS
    <2> HIDE DEF s
    <2>3. d = ProcessExternal(call, coach, s, r, p.time)
      BY <1>3 DEF s
    <2>4. Answered(call, coach, d, r)
      BY ONLY <2>1, <2>2, <2>3, ExternalKeeps
    <2>5. CoachedInv'
      BY <1>3, <2>4 DEF CoachedInv, Answered
    <2>6. GeneratedStep
      <3> SUFFICES ASSUME NEW i \in DOMAIN call'.cards \ DOMAIN call.cards
                   PROVE  /\ call'.cards[i].revision = call'.revision
                          /\ call'.revision \in coach'.processed
                          /\ call'.revision \notin coach.external
        BY DEF GeneratedStep
      <3>1. call'.cards # call.cards
        OBVIOUS
      <3>2. /\ r \notin coach.external /\ Len(call'.cards) = Len(call.cards) + 1
            /\ call'.cards[Len(call.cards) + 1].revision = r
            /\ call'.revision = call.revision /\ coach'.processed = coach.processed
        BY <1>3, <2>4, <3>1 DEF Answered, SameWhatWasSaid
      <3>3. /\ DOMAIN call.cards = 1 .. Len(call.cards) /\ Len(call.cards) \in Nat
            /\ DOMAIN call'.cards = 1 .. Len(call'.cards) /\ Len(call'.cards) \in Nat
        <4>1. CardsInv(call) /\ CardsInv(call')
          BY <2>5 DEF CoachedInv, Settled, Kept
        <4>. QED  BY <4>1, SeqForm DEF CardsInv, AreCards
      <3>4. i = Len(call.cards) + 1
        BY <3>2, <3>3
      <3>. QED  BY <1>3, <2>1, <3>2, <3>4
    <2>. QED  BY <1>1, <2>5, <2>6 DEF CoachedStep
  <1>4. \/ call' = call /\ coach' = coach /\ pending' \subseteq pending
        \/ \E p \in pending : \E output, d :
              /\ p.revision = call.revision
              /\ d = ProcessExternal(call, coach,
                                     CreateSuggestion(Policy, output, p.revision),
                                     p.revision, p.time)
              /\ call' = d.call /\ coach' = d.coach /\ pending' = {}
    <2>1. CASE ~manager.open
      BY <2>1 DEF DrainCompleted
    <2>2. CASE manager.open
      <3> DEFINE m == Announced(manager, call.revision)
                 kept == Superseded(pending, call.revision)
                 done == kept # {} /\ m.job[1] \notin {"none", "running"}
                 context == CHOOSE p \in kept : TRUE
                 usable == /\ m.job[1] = "result"
                           /\ GateStatus(m.job[2], context.revision, Retrieved)
                                  = "valid_suggestion"
                 d == ProcessExternal(call, coach,
                                      CreateSuggestion(Policy, m.job[2], context.revision),
                                      context.revision, context.time)
      <3>1. /\ pending' = IF done THEN {} ELSE kept
            /\ call' = IF done /\ usable THEN d.call ELSE call
            /\ coach' = IF done /\ usable THEN d.coach ELSE coach
        BY <2>2, Zenon DEF DrainCompleted, DrainFrom
      <3>2. kept \subseteq pending /\ \A p \in kept : p.revision = call.revision
        BY DEF Superseded
      <3>3. done => context \in kept
        OBVIOUS
      <3> HIDE DEF m, kept, context, usable
      <3>4. CASE done /\ usable
        <4>1. context \in pending /\ context.revision = call.revision
          BY <3>2, <3>3, <3>4
        <4>. QED  BY <3>1, <3>4, <4>1
      <3>5. CASE ~(done /\ usable)
        <4>1. call' = call /\ coach' = coach /\ (pending' = {} \/ pending' = kept)
          BY <3>1, <3>5
        <4>. QED  BY <3>2, <4>1
      <3>. QED  BY <3>4, <3>5
    <2>. QED  BY <2>1, <2>2
  <1>. QED  BY <1>2, <1>3, <1>4

\* Every step of a call keeps the invariant and both action properties.
LEMMA CoachedNext ==
    ASSUME CoachedInv, [CoachingNext]_coachingVars
    PROVE  CoachedStep
  <1>1. ASSUME NEW text, StableEvent(text) PROVE CoachedStep
    <2> DEFINE event == EventOf("stable", text, chunk - StableRegion)
    <2>1. /\ event.revision = call.revision + 1 /\ Committed(event)
          /\ phase' = "committed" /\ UNCHANGED <<classifier, cadence, chunk>>
      BY <1>1 DEF StableEvent, EventOf
    <2> HIDE DEF event
    <2>. QED  BY <2>1, CommittedKeeps
  <1>2. ASSUME NEW text, PartialEvent(text) PROVE CoachedStep
    BY <1>2, PartialKeeps
  <1>3. ASSUME NEW text, FinalEvent(text) PROVE CoachedStep
    <2> DEFINE event == EventOf("final", text, chunk - 1)
    <2>1. /\ event.revision = call.revision + 1 /\ Committed(event)
          /\ phase' = "final" /\ UNCHANGED <<classifier, cadence, chunk>>
      BY <1>3 DEF FinalEvent, EventOf
    <2> HIDE DEF event
    <2>. QED  BY <2>1, CommittedKeeps
  <1>4. CASE Drain
    <2>1. chunk + 1 \in 1 .. MaxChunks
      BY <1>4, CoachingAssumption DEF Drain, CoachedInv
    <2>2. /\ DrainCompleted /\ UNCHANGED <<classifier, cadence, outcome>>
          /\ phase' = "open" /\ chunk' = chunk + 1
      BY <1>4 DEF Drain
    <2>. QED  BY <2>1, <2>2, DrainKeeps
  <1>5. CASE FinalDrain
    <2>1. /\ DrainCompleted /\ UNCHANGED <<classifier, cadence, outcome>>
          /\ phase' = "ended" /\ chunk' = chunk
      BY <1>5 DEF FinalDrain
    <2>2. chunk \in 1 .. MaxChunks
      BY DEF CoachedInv
    <2>. QED  BY <2>1, <2>2, DrainKeeps
  <1>6. CASE UNCHANGED <<classifier, call, coach, cadence, pending, phase, chunk, outcome>>
    <2>1. CoachedInv'
      BY <1>6 DEF CoachedInv
    <2>. QED  BY <1>6, <2>1 DEF CoachedStep, FailureStep, GeneratedStep
  <1>7. \/ \E text : StableEvent(text) \/ PartialEvent(text) \/ FinalEvent(text)
        \/ Drain
        \/ FinalDrain
        \/ UNCHANGED <<classifier, call, coach, cadence, pending, phase, chunk, outcome>>
    BY DEF CoachingNext, coachingVars, BackgroundCompletes, ManagerCloses
  <1>. QED  BY <1>1, <1>2, <1>3, <1>4, <1>5, <1>6, <1>7

\* The books of a call agree in every reachable state.
LEMMA CoachedInvariant == CoachingSpec => []CoachedInv
  <1>1. CoachedInv /\ [CoachingNext]_coachingVars => CoachedInv'
    BY CoachedNext DEF CoachedStep
  <1>. QED  BY CoachedInit, <1>1, PTL DEF CoachingSpec

\* What the coordinator, the adapter and the decorator keep of a call agrees in
\* every state, however its events, drains and answers follow each other.
THEOREM CallAccounted == CoachingSpec => []CallIsAccounted
  <1>1. ASSUME CoachedInv PROVE CallIsAccounted
    <2>1. /\ CardsInv(call) /\ LabelsInv(call) /\ PrintsInv(call, coach)
          /\ CoachInv(call, coach) /\ OpenCards(call, coach) /\ Late(coach)
          /\ call.revision \in Nat
      BY <1>1 DEF CoachedInv, Settled, Kept
    <2>2. /\ DOMAIN call.active = 1 .. Len(call.active) /\ Len(call.active) \in Nat
          /\ DOMAIN call.cards = 1 .. Len(call.cards) /\ Len(call.cards) \in Nat
          /\ IsSeq(call.active)
      BY <2>1, SeqForm DEF CardsInv, AreCards
    <2>3. BoardTypeOK
      <3>1. Cardinality(pending) <= 1
        <4>1. CASE pending = {}
          BY <4>1, FS_EmptySet
        <4>2. CASE pending # {}
          <5>1. PICK p : pending = {p}
            BY <1>1, <4>2 DEF CoachedInv
          <5>2. Cardinality(pending) = 1
            BY ONLY <5>1, FS_Singleton
          <5>. QED  BY <5>2
        <4>. QED  BY <4>1, <4>2
      <3>2. \A i \in 1 .. Len(call.active) - 1 :
               ~Outranks(call.active[i + 1], call.active[i])
        BY <2>1, <2>2 DEF CardsInv, Ranked
      <3>. QED  BY <1>1, <2>1, <3>1, <3>2 DEF BoardTypeOK, CoachedInv, CardsInv, LabelsInv,
                                              CoachInv
    <2>4. CardsAreAccounted
      BY <2>1, <2>2 DEF CardsAreAccounted, CardsInv, PrintsInv
    <2>5. ProvisionalIsOpen
      <3>1. \A i \in DOMAIN call.active : call.active[i].lifecycle = "provisional" =>
               \E l \in DOMAIN coach.provisional : coach.provisional[l].id = call.active[i].id
        BY <2>1, <2>2, RangeOf DEF OpenCards
      <3>2. ASSUME NEW l \in DOMAIN coach.provisional
            PROVE  coach.provisional[l].id[2] > LastCommitted
        <4>1. CASE coach.processed = {}
          <5>1. PICK q \in 1 .. call.revision : coach.provisional[l].id = <<"local", q, l>>
            BY <2>1 DEF CoachInv
          <5>2. coach.provisional[l].id[2] = q /\ q > 0
            BY <2>1, <5>1
          <5>. QED  BY <4>1, <5>2 DEF LastCommitted
        <4>2. CASE coach.processed # {}
          <5>1. coach.processed \subseteq 1 .. call.revision
            BY <2>1 DEF CoachInv
          <5>2. IsFiniteSet(coach.processed) /\ coach.processed \in SUBSET Int
            <6>1. IsFiniteSet(1 .. call.revision)
              BY <2>1, FS_Interval
            <6>2. IsFiniteSet(coach.processed)
              BY ONLY <5>1, <6>1, FS_Subset
            <6>3. 1 .. call.revision \subseteq Int
              OBVIOUS
            <6>. QED  BY <5>1, <6>2, <6>3
          <5>3. Max(coach.processed) \in coach.processed
            BY <4>2, <5>2, MaxOf
          <5>. QED  BY <2>1, <4>2, <5>3 DEF Late, LastCommitted
        <4>. QED  BY <4>1, <4>2
      <3>. QED  BY <3>1, <3>2 DEF ProvisionalIsOpen
    <2>6. LabelsAreNewOnce
      BY <2>1 DEF LabelsInv, NewIn, LabelsAreNewOnce
    <2>. QED  BY <2>3, <2>4, <2>5, <2>6 DEF CallIsAccounted
  <1>2. CoachedInv => CallIsAccounted
    BY <1>1
  <1>. QED  BY <1>2, CoachedInvariant, PTL

\* An event whose coaching fails leaves the cards, the labels and the
\* coordinator's memory as they were (restore_coaching_state).
THEOREM FailureKeepsTheCall == CoachingSpec => FailedRevisionChangesNothing
  <1>1. CoachedInv /\ [CoachingNext]_coachingVars => FailureStep
    BY CoachedNext DEF CoachedStep
  <1>. QED  BY <1>1, CoachedInvariant, PTL
             DEF CoachingSpec, FailedRevisionChangesNothing, FailureStep

\* A card of the model is only ever admitted for the latest revision, once.
THEOREM GeneratedIsCurrent == CoachingSpec => GeneratedCardIsCurrent
  <1>1. CoachedInv /\ [CoachingNext]_coachingVars => GeneratedStep
    BY CoachedNext DEF CoachedStep
  <1>. QED  BY <1>1, CoachedInvariant, PTL
             DEF CoachingSpec, GeneratedCardIsCurrent, GeneratedStep

=================================================================================
