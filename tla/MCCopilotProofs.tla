---------------------------- MODULE MCCopilotProofs ----------------------------
(***************************************************************************)
(* Proofs about the telemetry of the agents (Telemetry, CopilotTelemetry), *)
(* the usage of Copilot (Usage, CopilotUsage) and the admin's listings     *)
(* (Logs, LogPages), each in the names of its own variables.  A            *)
(* behaviour's subject stays the same, and its steps are the subject's.    *)
(***************************************************************************)
EXTENDS MCCopilot, Sequences, FiniteSetTheorems, SequenceTheorems, WellFoundedInduction, TLAPS

(***************************************************************************)
(* Induction, on natural numbers and on finite sets                        *)
(***************************************************************************)

LEMMA NatInductive ==
    ASSUME NEW S, 0 \in S, \A n \in Nat : n \in S => n + 1 \in S
    PROVE  Nat \subseteq S
<1> DEFINE T == Nat \ S
<1>1. SUFFICES ASSUME T # {} PROVE FALSE
  OBVIOUS
<1>2. PICK n \in T : \A m \in T : <<m, n>> \notin OpToRel(<, Nat)
  BY <1>1, WFMin, NatLessThanWellFounded
<1>3. n # 0 /\ n - 1 \in Nat /\ n - 1 < n
  OBVIOUS
<1>4. <<n - 1, n>> \in OpToRel(<, Nat)
  BY <1>3 DEF OpToRel
<1>5. n - 1 \in S
  BY <1>2, <1>3, <1>4
<1>6. (n - 1) + 1 \in S
  BY <1>3, <1>5
<1>7. n \in S
  BY <1>3, <1>6
<1> QED BY <1>7

\* The family Good of subsets of S holds S if it holds {} and grows with any element.
LEMMA FiniteInductive ==
    ASSUME NEW S, IsFiniteSet(S), NEW Good, {} \in Good,
           \A T \in SUBSET S : \A x \in S \ T : T \in Good => T \cup {x} \in Good
    PROVE  S \in Good
<1> DEFINE Ns == {n \in Nat : \A T \in SUBSET S : Cardinality(T) = n => T \in Good}
<1>1. 0 \in Ns
  BY FS_EmptySet, FS_Subset
<1>2. ASSUME NEW n \in Nat, n \in Ns PROVE n + 1 \in Ns
  <2>1. SUFFICES ASSUME NEW T \in SUBSET S, Cardinality(T) = n + 1 PROVE T \in Good
    OBVIOUS
  <2>2. IsFiniteSet(T)
    BY FS_Subset
  <2>3. T # {}
    <3>1. Cardinality(T) # 0
      BY <2>1
    <3> QED BY <3>1, FS_EmptySet
  <2>4. PICK x \in T : TRUE
    BY <2>3
  <2>5. IsFiniteSet(T \ {x}) /\ Cardinality(T \ {x}) = (n + 1) - 1
    BY <2>1, <2>2, FS_RemoveElement
  <2>6. T \ {x} \in Good
    BY <1>2, <2>5
  <2>7. (T \ {x}) \cup {x} = T
    OBVIOUS
  <2>8. T \ {x} \in SUBSET S /\ x \in S \ (T \ {x})
    OBVIOUS
  <2> QED BY <2>6, <2>7, <2>8
<1>3. Nat \subseteq Ns
  BY <1>1, <1>2, NatInductive
<1>4. Cardinality(S) \in Nat
  BY FS_CardinalityType
<1> QED BY <1>3, <1>4

(***************************************************************************)
(* Finite sets                                                             *)
(***************************************************************************)

LEMMA ImageIsFinite ==
    ASSUME NEW S, IsFiniteSet(S), NEW g
    PROVE  IsFiniteSet({g[x] : x \in S}) /\ Cardinality({g[x] : x \in S}) <= Cardinality(S)
<1> DEFINE T == {g[x] : x \in S}
           h == [x \in S |-> g[x]]
<1>1. h \in Surjection(S, T)
  BY DEF Surjection
<1> QED BY <1>1, FS_Surjection

LEMMA HasMaximum ==
    ASSUME NEW S, S \subseteq Int, IsFiniteSet(S), S # {}
    PROVE  \E m \in S : \A x \in S : x <= m
<1> DEFINE Good == {T \in SUBSET S : T # {} => \E m \in T : \A x \in T : x <= m}
<1>1. {} \in Good
  OBVIOUS
<1>2. ASSUME NEW T \in SUBSET S, NEW x \in S \ T, T \in Good PROVE T \cup {x} \in Good
  <2>1. CASE T = {}
    BY <2>1
  <2>2. CASE T # {}
    <3>1. PICK m \in T : \A y \in T : y <= m
      BY <1>2, <2>2
    <3>2. CASE x <= m
      BY <3>1, <3>2
    <3>3. CASE ~(x <= m)
      <4>1. \A y \in T \cup {x} : y <= x
        BY <3>1, <3>3
      <4> QED BY <4>1
    <3> QED BY <3>2, <3>3
  <2> QED BY <2>1, <2>2
<1>3. S \in Good
  BY <1>1, <1>2, FiniteInductive
<1> QED BY <1>3

LEMMA HasMinimum ==
    ASSUME NEW S, S \subseteq Int, IsFiniteSet(S), S # {}
    PROVE  \E m \in S : \A x \in S : m <= x
<1> DEFINE g == [x \in S |-> 0 - x]
           T == {g[x] : x \in S}
<1>1. IsFiniteSet(T)
  BY ImageIsFinite
<1>2. T \subseteq Int /\ T # {}
  OBVIOUS
<1>3. PICK m \in T : \A y \in T : y <= m
  BY <1>1, <1>2, HasMaximum
<1>4. PICK n \in S : m = 0 - n
  OBVIOUS
<1>5. ASSUME NEW x \in S PROVE n <= x
  <2>1. 0 - x \in T
    OBVIOUS
  <2>2. 0 - x <= 0 - n
    BY <1>3, <1>4, <2>1
  <2> QED BY <2>2
<1> QED BY <1>5

LEMMA DisjointCount ==
    ASSUME NEW S, NEW T, IsFiniteSet(S), IsFiniteSet(T), S \cap T = {}
    PROVE  IsFiniteSet(S \cup T) /\ Cardinality(S \cup T) = Cardinality(S) + Cardinality(T)
<1>1. IsFiniteSet(S \cup T)
      /\ Cardinality(S \cup T) = Cardinality(S) + Cardinality(T) - Cardinality(S \cap T)
  BY FS_Union
<1>2. Cardinality(S \cap T) = 0
  BY FS_EmptySet
<1>3. Cardinality(S) \in Nat /\ Cardinality(T) \in Nat
  BY FS_CardinalityType
<1> QED BY <1>1, <1>2, <1>3

(***************************************************************************)
(* Sums                                                                    *)
(***************************************************************************)

\* One round of the fold that adds a function's values up.
Round(f, g) ==
    [s \in SUBSET DOMAIN f |->
        IF s = {} THEN 0 ELSE f[CHOOSE y \in s : TRUE] + g[s \ {CHOOSE y \in s : TRUE}]]
Fold(f) == CHOOSE g : g = Round(f, g)

\* What is counted: f[x] things of every x of a set.
Pile(f, S) == UNION {{x} \X (1..f[x]) : x \in S}

LEMMA PileGrows ==
    ASSUME NEW f, NEW S, NEW x, x \notin S, f[x] \in Nat, IsFiniteSet(Pile(f, S))
    PROVE  /\ IsFiniteSet(Pile(f, S \cup {x}))
           /\ Cardinality(Pile(f, S \cup {x})) = Cardinality(Pile(f, S)) + f[x]
<1> DEFINE P == {x} \X (1..f[x])
<1>1. IsFiniteSet({x}) /\ Cardinality({x}) = 1
  BY FS_Singleton
<1>2. IsFiniteSet(1..f[x]) /\ Cardinality(1..f[x]) = f[x]
  <2>1. IsFiniteSet(1..f[x])
        /\ Cardinality(1..f[x]) = IF 1 > f[x] THEN 0 ELSE f[x] - 1 + 1
    BY FS_Interval
  <2> QED BY <2>1
<1>3. IsFiniteSet(P) /\ Cardinality(P) = f[x]
  <2>1. IsFiniteSet(P) /\ Cardinality(P) = Cardinality({x}) * Cardinality(1..f[x])
    BY <1>1, <1>2, FS_Product
  <2>2. 1 * f[x] = f[x]
    OBVIOUS
  <2> QED BY <1>1, <1>2, <2>1, <2>2
<1>4. Pile(f, S \cup {x}) = Pile(f, S) \cup P
  BY DEF Pile
<1>5. Pile(f, S) \cap P = {}
  BY DEF Pile
<1> HIDE DEF P
<1>6. /\ IsFiniteSet(Pile(f, S) \cup P)
      /\ Cardinality(Pile(f, S) \cup P) = Cardinality(Pile(f, S)) + Cardinality(P)
  BY <1>3, <1>5, DisjointCount
<1> QED BY <1>3, <1>4, <1>6

LEMMA PileIsFinite ==
    ASSUME NEW f, NEW S, IsFiniteSet(S), \A x \in S : f[x] \in Nat
    PROVE  IsFiniteSet(Pile(f, S))
<1> DEFINE Good == {T \in SUBSET S : IsFiniteSet(Pile(f, T))}
<1>1. {} \in Good
  <2>1. Pile(f, {}) = {}
    BY DEF Pile
  <2> QED BY <2>1, FS_EmptySet
<1>2. ASSUME NEW T \in SUBSET S, NEW x \in S \ T, T \in Good PROVE T \cup {x} \in Good
  BY <1>2, PileGrows
<1>3. S \in Good
  BY <1>1, <1>2, FiniteInductive
<1> QED BY <1>3

\* The fold of a function of finitely many counts is the size of its pile.
LEMMA FoldCounts ==
    ASSUME NEW f, IsFiniteSet(DOMAIN f), \A x \in DOMAIN f : f[x] \in Nat
    PROVE  Fold(f)[DOMAIN f] = Cardinality(Pile(f, DOMAIN f))
<1> DEFINE D == DOMAIN f
           g == [s \in SUBSET D |-> Cardinality(Pile(f, s))]
<1>1. \A s \in SUBSET D : IsFiniteSet(s) /\ IsFiniteSet(Pile(f, s))
  <2>1. ASSUME NEW s \in SUBSET D PROVE IsFiniteSet(s) /\ IsFiniteSet(Pile(f, s))
    <3>1. IsFiniteSet(s)
      BY FS_Subset
    <3> QED BY <3>1, PileIsFinite
  <2> QED BY <2>1
<1>2. g[{}] = 0
  <2>1. Pile(f, {}) = {}
    BY DEF Pile
  <2> QED BY <2>1, FS_EmptySet
<1>3. ASSUME NEW s \in SUBSET D, s # {}
      PROVE  g[s] = f[CHOOSE y \in s : TRUE] + g[s \ {CHOOSE y \in s : TRUE}]
  <2> DEFINE x == CHOOSE y \in s : TRUE
             r == s \ {x}
  <2>1. x \in s
    BY <1>3
  <2> HIDE DEF x
  <2>2. r \cup {x} = s /\ r \in SUBSET D
    BY <2>1
  <2>3. IsFiniteSet(Pile(f, r)) /\ f[x] \in Nat /\ x \notin r
    BY <1>1, <2>1, <2>2
  <2>4. Cardinality(Pile(f, r \cup {x})) = Cardinality(Pile(f, r)) + f[x]
    BY <2>3, PileGrows
  <2>5. Cardinality(Pile(f, r)) \in Nat
    BY <2>3, FS_CardinalityType
  <2>6. g[s] = f[x] + g[r]
    BY <2>2, <2>3, <2>4, <2>5
  <2> QED BY <2>6 DEF x
<1>4. g = Round(f, g)
  <2>1. ASSUME NEW s \in SUBSET D PROVE g[s] = Round(f, g)[s]
    <3>1. Round(f, g)[s] = IF s = {} THEN 0
                           ELSE f[CHOOSE y \in s : TRUE] + g[s \ {CHOOSE y \in s : TRUE}]
      BY DEF Round
    <3> QED BY <1>2, <1>3, <3>1
  <2>2. DOMAIN Round(f, g) = SUBSET D /\ Round(f, g) = [s \in SUBSET D |-> Round(f, g)[s]]
    BY DEF Round
  <2>3. g = [s \in SUBSET D |-> g[s]]
    OBVIOUS
  <2> HIDE DEF g
  <2> QED BY <2>1, <2>2, <2>3
<1>5. Fold(f) = Round(f, Fold(f))
  BY <1>4 DEF Fold
<1> DEFINE h == Fold(f)
           Good == {s \in SUBSET D : h[s] = g[s]}
<1>6. ASSUME NEW s \in SUBSET D
      PROVE  h[s] = IF s = {} THEN 0
                    ELSE f[CHOOSE y \in s : TRUE] + h[s \ {CHOOSE y \in s : TRUE}]
  <2>1. Round(f, h)[s] = IF s = {} THEN 0
                         ELSE f[CHOOSE y \in s : TRUE] + h[s \ {CHOOSE y \in s : TRUE}]
    BY DEF Round
  <2> QED BY <1>5, <2>1
<1> HIDE DEF g, h
<1>7. ASSUME NEW n \in Nat, \A s \in SUBSET D : Cardinality(s) = n => s \in Good
      PROVE  \A s \in SUBSET D : Cardinality(s) = n + 1 => s \in Good
  <2> SUFFICES ASSUME NEW s \in SUBSET D, Cardinality(s) = n + 1 PROVE s \in Good
    OBVIOUS
  <2> DEFINE x == CHOOSE y \in s : TRUE
             r == s \ {x}
  <2>1. IsFiniteSet(s) /\ s # {}
    BY <1>1, FS_EmptySet
  <2>2. x \in s
    BY <2>1
  <2>3. h[s] = f[x] + h[r] /\ g[s] = f[x] + g[r]
    BY <1>3, <1>6, <2>1
  <2> HIDE DEF x
  <2>4. Cardinality(r) = n
    <3>1. Cardinality(r) = Cardinality(s) - 1
      BY <2>1, <2>2, FS_RemoveElement
    <3> QED BY <3>1
  <2>5. h[r] = g[r]
    BY <1>7, <2>4
  <2> QED BY <2>3, <2>5
<1> DEFINE Ns == {n \in Nat : \A s \in SUBSET D : Cardinality(s) = n => s \in Good}
<1>8. 0 \in Ns
  <2>1. ASSUME NEW s \in SUBSET D, Cardinality(s) = 0 PROVE s \in Good
    <3>1. s = {}
      BY <1>1, <2>1, FS_EmptySet
    <3> QED BY <1>2, <1>6, <3>1
  <2> QED BY <2>1
<1>9. \A n \in Nat : n \in Ns => n + 1 \in Ns
  BY <1>7
<1>10. Cardinality(D) \in Nat
  BY FS_CardinalityType
<1>11. D \in Good
  <2>1. Nat \subseteq Ns
    <3> HIDE DEF Ns
    <3> QED BY <1>8, <1>9, NatInductive
  <2> QED BY <1>10, <2>1
<1> QED BY <1>11 DEF g, h

LEMMA TelemetryTotals ==
    ASSUME NEW f, IsFiniteSet(DOMAIN f), \A x \in DOMAIN f : f[x] \in Nat
    PROVE  Telemetry!Total(f) = Cardinality(Pile(f, DOMAIN f))
<1>1. Telemetry!Total(f) = Fold(f)[DOMAIN f]
  BY DEF Telemetry!Total, Telemetry!MapThenSumSet, Telemetry!MapThenFoldSet, Fold, Round
<1> QED BY <1>1, FoldCounts

LEMMA UsageTotals ==
    ASSUME NEW f, IsFiniteSet(DOMAIN f), \A x \in DOMAIN f : f[x] \in Nat
    PROVE  Usage!Total(f) = Cardinality(Pile(f, DOMAIN f))
<1>1. Usage!Total(f) = Fold(f)[DOMAIN f]
  BY DEF Usage!Total, Usage!MapThenSumSet, Usage!MapThenFoldSet, Fold, Round
<1> QED BY <1>1, FoldCounts

LEMMA PileSplits ==
    ASSUME NEW f, NEW S, NEW T, IsFiniteSet(S), IsFiniteSet(T), S \cap T = {},
           \A x \in S \cup T : f[x] \in Nat
    PROVE  Cardinality(Pile(f, S \cup T)) = Cardinality(Pile(f, S)) + Cardinality(Pile(f, T))
<1>1. IsFiniteSet(Pile(f, S)) /\ IsFiniteSet(Pile(f, T))
  <2>1. IsFiniteSet(Pile(f, S))
    BY PileIsFinite
  <2>2. IsFiniteSet(Pile(f, T))
    BY PileIsFinite
  <2> QED BY <2>1, <2>2
<1>2. Pile(f, S \cup T) = Pile(f, S) \cup Pile(f, T)
  BY DEF Pile
<1>3. Pile(f, S) \cap Pile(f, T) = {}
  BY DEF Pile
<1> QED BY <1>1, <1>2, <1>3, DisjointCount

Those(S, key, y) == {x \in S : key[x] = y}

\* The sums by a key sum to the sum.
LEMMA SumsByKey ==
    ASSUME NEW f, NEW S, IsFiniteSet(S), \A x \in S : f[x] \in Nat,
           NEW K, IsFiniteSet(K), NEW key, \A x \in S : key[x] \in K,
           NEW g, \A y \in K : g[y] = Cardinality(Pile(f, Those(S, key, y)))
    PROVE  Cardinality(Pile(g, K)) = Cardinality(Pile(f, S))
<1> DEFINE Of(L) == {x \in S : key[x] \in L}
           Good == {L \in SUBSET K : /\ IsFiniteSet(Pile(g, L))
                                     /\ Cardinality(Pile(g, L)) = Cardinality(Pile(f, Of(L)))}
<1>1. \A T \in SUBSET S : IsFiniteSet(T)
  BY FS_Subset
<1>2. \A y \in K : g[y] \in Nat
  <2>1. ASSUME NEW y \in K PROVE g[y] \in Nat
    <3>1. IsFiniteSet(Those(S, key, y))
      BY <1>1 DEF Those
    <3>2. IsFiniteSet(Pile(f, Those(S, key, y)))
      BY <3>1, PileIsFinite DEF Those
    <3> QED BY <3>2, FS_CardinalityType
  <2> QED BY <2>1
<1>3. {} \in Good
  <2>1. Pile(g, {}) = {} /\ Of({}) = {} /\ Pile(f, {}) = {}
    BY DEF Pile
  <2> QED BY <2>1, FS_EmptySet
<1>4. ASSUME NEW L \in SUBSET K, NEW y \in K \ L, L \in Good PROVE L \cup {y} \in Good
  <2> DEFINE New == Those(S, key, y)
  <2>1. /\ IsFiniteSet(Pile(g, L \cup {y}))
        /\ Cardinality(Pile(g, L \cup {y})) = Cardinality(Pile(g, L)) + g[y]
    <3>1. IsFiniteSet(Pile(g, L)) /\ g[y] \in Nat /\ y \notin L
      BY <1>2, <1>4
    <3> QED BY <3>1, PileGrows
  <2>2. Of(L \cup {y}) = Of(L) \cup New /\ Of(L) \cap New = {}
    BY <1>4 DEF Those
  <2>3. IsFiniteSet(Of(L)) /\ IsFiniteSet(New) /\ \A x \in Of(L) \cup New : f[x] \in Nat
    BY <1>1 DEF Those
  <2>4. g[y] = Cardinality(Pile(f, New))
    OBVIOUS
  <2> HIDE DEF New, Of
  <2>5. Cardinality(Pile(f, Of(L) \cup New))
            = Cardinality(Pile(f, Of(L))) + Cardinality(Pile(f, New))
    BY <2>2, <2>3, PileSplits
  <2>6. Cardinality(Pile(g, L)) = Cardinality(Pile(f, Of(L)))
    BY <1>4
  <2> QED BY <2>1, <2>2, <2>4, <2>5, <2>6
<1>5. K \in Good
  <2> HIDE DEF Good
  <2> QED BY <1>3, <1>4, FiniteInductive
<1>6. Of(K) = S
  OBVIOUS
<1> QED BY <1>5, <1>6

LEMMA PileOfOnes ==
    ASSUME NEW f, NEW S, IsFiniteSet(S), \A x \in S : f[x] = 1
    PROVE  Cardinality(Pile(f, S)) = Cardinality(S)
<1> DEFINE Good == {T \in SUBSET S : IsFiniteSet(Pile(f, T)) /\ IsFiniteSet(T)
                                     /\ Cardinality(Pile(f, T)) = Cardinality(T)}
<1>1. {} \in Good
  <2>1. Pile(f, {}) = {}
    BY DEF Pile
  <2> QED BY <2>1, FS_EmptySet
<1>2. ASSUME NEW T \in SUBSET S, NEW x \in S \ T, T \in Good PROVE T \cup {x} \in Good
  <2>1. f[x] = 1 /\ f[x] \in Nat
    OBVIOUS
  <2>2. /\ IsFiniteSet(Pile(f, T \cup {x}))
        /\ Cardinality(Pile(f, T \cup {x})) = Cardinality(Pile(f, T)) + f[x]
    BY <1>2, <2>1, PileGrows
  <2>3. IsFiniteSet(T \cup {x}) /\ Cardinality(T \cup {x}) = Cardinality(T) + 1
    BY <1>2, FS_AddElement
  <2> QED BY <1>2, <2>1, <2>2, <2>3
<1>3. S \in Good
  <2> HIDE DEF Good
  <2> QED BY <1>1, <1>2, FiniteInductive
<1> QED BY <1>3

\* Those of each key, counted, sum to all.
LEMMA CountsByKey ==
    ASSUME NEW S, IsFiniteSet(S), NEW K, IsFiniteSet(K), NEW key, \A x \in S : key[x] \in K,
           NEW g, \A y \in K : g[y] = Cardinality(Those(S, key, y))
    PROVE  Cardinality(Pile(g, K)) = Cardinality(S)
<1> DEFINE one == [x \in S |-> 1]
<1>1. \A x \in S : one[x] = 1 /\ one[x] \in Nat
  OBVIOUS
<1> HIDE DEF one
<1>2. ASSUME NEW y \in K PROVE g[y] = Cardinality(Pile(one, Those(S, key, y)))
  <2>1. Those(S, key, y) \in SUBSET S
    BY DEF Those
  <2>2. IsFiniteSet(Those(S, key, y))
    BY <2>1, FS_Subset
  <2>3. Cardinality(Pile(one, Those(S, key, y))) = Cardinality(Those(S, key, y))
    BY <1>1, <2>2, PileOfOnes DEF Those
  <2> QED BY <2>3
<1>3. Cardinality(Pile(g, K)) = Cardinality(Pile(one, S))
  <2>1. \A y \in K : g[y] = Cardinality(Pile(one, Those(S, key, y)))
    BY <1>2
  <2>2. \A x \in S : one[x] \in Nat
    BY <1>1
  <2> QED BY <2>1, <2>2, SumsByKey
<1> QED BY <1>1, <1>3, PileOfOnes

LEMMA PileAgrees ==
    ASSUME NEW f, NEW g, NEW S, \A x \in S : f[x] = g[x]
    PROVE  Pile(f, S) = Pile(g, S)
BY DEF Pile

\* The totals of a function's values by a key have its total.
LEMMA TotalsByKey ==
    ASSUME NEW f, IsFiniteSet(DOMAIN f), \A x \in DOMAIN f : f[x] \in Nat, NEW key,
           NEW g, DOMAIN g = {key[x] : x \in DOMAIN f},
           \A y \in DOMAIN g : g[y] = Usage!Total([x \in Those(DOMAIN f, key, y) |-> f[x]])
    PROVE  Usage!Total(g) = Usage!Total(f)
<1> DEFINE S == DOMAIN f
           K == {key[x] : x \in S}
<1>1. IsFiniteSet(K)
  BY ImageIsFinite
<1>2. ASSUME NEW y \in K
      PROVE  g[y] = Cardinality(Pile(f, Those(S, key, y))) /\ g[y] \in Nat
  <2> DEFINE T == Those(S, key, y)
             h == [x \in T |-> f[x]]
  <2>1. IsFiniteSet(T)
    <3>1. T \in SUBSET S
      BY DEF Those
    <3> QED BY <3>1, FS_Subset
  <2>2. \A x \in T : h[x] = f[x] /\ h[x] \in Nat
    BY DEF Those
  <2>3. DOMAIN h = T
    OBVIOUS
  <2>4. g[y] = Usage!Total(h)
    OBVIOUS
  <2> HIDE DEF h, T
  <2>5. Usage!Total(h) = Cardinality(Pile(h, T))
    BY <2>1, <2>2, <2>3, UsageTotals
  <2>6. Pile(h, T) = Pile(f, T) /\ IsFiniteSet(Pile(h, T))
    BY <2>1, <2>2, PileAgrees, PileIsFinite
  <2> QED BY <2>4, <2>5, <2>6, FS_CardinalityType DEF T
<1>3. Usage!Total(g) = Cardinality(Pile(g, K))
  BY <1>1, <1>2, UsageTotals
<1>4. Usage!Total(f) = Cardinality(Pile(f, S))
  BY UsageTotals
<1>5. Cardinality(Pile(g, K)) = Cardinality(Pile(f, S))
  <2>1. \A y \in K : g[y] = Cardinality(Pile(f, Those(S, key, y)))
    BY <1>2
  <2>2. \A x \in S : key[x] \in K
    OBVIOUS
  <2> HIDE DEF K
  <2> QED BY <1>1, <2>1, <2>2, SumsByKey
<1> QED BY <1>3, <1>4, <1>5

(***************************************************************************)
(* The figures of the utilization pages                                    *)
(***************************************************************************)

TableFits == IsFiniteSet(DOMAIN table) /\ \A k \in DOMAIN table : table[k].n \in Nat

Counts == [k \in DOMAIN table |-> table[k].n]

LEMMA PromptsAreCounts ==
    ASSUME TableFits, NEW keys, keys \subseteq DOMAIN table
    PROVE  /\ Usage!Prompts(keys) = Cardinality(Pile(Counts, keys))
           /\ Usage!Prompts(keys) \in Nat
           /\ IsFiniteSet(keys)
<1> DEFINE f == [k \in keys |-> table[k].n]
<1>1. IsFiniteSet(keys)
  BY FS_Subset DEF TableFits
<1>2. DOMAIN f = keys /\ \A k \in keys : f[k] \in Nat /\ f[k] = Counts[k]
  BY DEF TableFits, Counts
<1>3. Usage!Prompts(keys) = Usage!Total(f)
  BY DEF Usage!Prompts
<1> HIDE DEF f
<1>4. Usage!Total(f) = Cardinality(Pile(f, keys))
  BY <1>1, <1>2, UsageTotals
<1>5. Pile(f, keys) = Pile(Counts, keys) /\ IsFiniteSet(Pile(f, keys))
  BY <1>1, <1>2, PileAgrees, PileIsFinite
<1> QED BY <1>1, <1>3, <1>4, <1>5, FS_CardinalityType

\* The prompts of rows by a key sum to the prompts of the rows.
LEMMA PromptsByKey ==
    ASSUME TableFits, NEW keys, keys \subseteq DOMAIN table, NEW key,
           NEW g, DOMAIN g = {key[k] : k \in keys},
           \A y \in DOMAIN g : g[y] = Usage!Prompts(Those(keys, key, y))
    PROVE  /\ IsFiniteSet(DOMAIN g) /\ \A y \in DOMAIN g : g[y] \in Nat
           /\ Usage!Total(g) = Usage!Prompts(keys)
<1> DEFINE K == {key[k] : k \in keys}
<1>1. IsFiniteSet(keys) /\ Usage!Prompts(keys) = Cardinality(Pile(Counts, keys))
  BY PromptsAreCounts
<1>2. IsFiniteSet(K)
  BY <1>1, ImageIsFinite
<1>3. ASSUME NEW y \in K
      PROVE  g[y] = Cardinality(Pile(Counts, Those(keys, key, y))) /\ g[y] \in Nat
  <2>1. Those(keys, key, y) \subseteq DOMAIN table
    BY DEF Those
  <2> QED BY <2>1, PromptsAreCounts
<1>4. Usage!Total(g) = Cardinality(Pile(g, K))
  BY <1>2, <1>3, UsageTotals
<1>5. Cardinality(Pile(g, K)) = Cardinality(Pile(Counts, keys))
  <2>1. \A y \in K : g[y] = Cardinality(Pile(Counts, Those(keys, key, y)))
    BY <1>3
  <2>2. \A k \in keys : key[k] \in K /\ Counts[k] \in Nat
    BY DEF TableFits, Counts
  <2> HIDE DEF K
  <2> QED BY <1>1, <1>2, <2>1, <2>2, SumsByKey
<1> QED BY <1>1, <1>2, <1>3, <1>4, <1>5

\* One lemma per figure.
LEMMA AppRowsSum ==
    ASSUME TableFits, NEW keys, keys \subseteq DOMAIN table
    PROVE  LET rows == Usage!AppRows(keys) IN
           /\ IsFiniteSet(DOMAIN rows) /\ \A a \in DOMAIN rows : rows[a] \in Nat
           /\ Usage!Total(rows) = Usage!Prompts(keys)
<1> DEFINE key == [k \in keys |-> k.app]
           rows == Usage!AppRows(keys)
<1>1. DOMAIN rows = {key[k] : k \in keys}
  BY DEF Usage!AppRows
<1>2. ASSUME NEW a \in DOMAIN rows PROVE rows[a] = Usage!Prompts(Those(keys, key, a))
  <2>1. Those(keys, key, a) = {k \in keys : k.app = a}
    BY DEF Those
  <2> QED BY <2>1 DEF Usage!AppRows
<1> HIDE DEF rows, key
<1>3. \A a \in DOMAIN rows : rows[a] = Usage!Prompts(Those(keys, key, a))
  BY <1>2
<1>4. /\ IsFiniteSet(DOMAIN rows) /\ \A a \in DOMAIN rows : rows[a] \in Nat
      /\ Usage!Total(rows) = Usage!Prompts(keys)
  BY <1>1, <1>3, PromptsByKey
<1> QED BY <1>4 DEF rows

LEMMA AppRatioSums ==
    ASSUME NEW rows, IsFiniteSet(DOMAIN rows), \A a \in DOMAIN rows : rows[a] \in Nat
    PROVE  Usage!Total(Usage!AppRatio(rows)) = Usage!Total(rows)
<1> DEFINE ratio == Usage!AppRatio(rows)
           key == [a \in DOMAIN rows |-> LabelOf[a]]
<1>1. DOMAIN ratio = {key[a] : a \in DOMAIN rows}
  BY DEF Usage!AppRatio
<1>2. ASSUME NEW l \in DOMAIN ratio
      PROVE  ratio[l] = Usage!Total([a \in Those(DOMAIN rows, key, l) |-> rows[a]])
  <2>1. Those(DOMAIN rows, key, l) = {a \in DOMAIN rows : LabelOf[a] = l}
    BY DEF Those
  <2>2. ratio[l] = Usage!Total([a \in {b \in DOMAIN rows : LabelOf[b] = l} |-> rows[a]])
    BY DEF Usage!AppRatio
  <2> QED BY <2>1, <2>2
<1> HIDE DEF ratio, key
<1>3. \A l \in DOMAIN ratio :
          ratio[l] = Usage!Total([a \in Those(DOMAIN rows, key, l) |-> rows[a]])
  BY <1>2
<1>4. Usage!Total(ratio) = Usage!Total(rows)
  BY <1>1, <1>3, TotalsByKey
<1> QED BY <1>4 DEF ratio

LEMMA HourlyRowsSum ==
    ASSUME TableFits, NEW keys, keys \subseteq DOMAIN table
    PROVE  LET rows == Usage!HourlyRows(keys) IN
           /\ IsFiniteSet(DOMAIN rows) /\ \A y \in DOMAIN rows : rows[y] \in Nat
           /\ Usage!Total(rows) = Usage!Prompts(keys)
<1> DEFINE key == [k \in keys |-> k.hour]
           rows == Usage!HourlyRows(keys)
<1>1. DOMAIN rows = {key[k] : k \in keys}
  BY DEF Usage!HourlyRows
<1>2. ASSUME NEW y \in DOMAIN rows PROVE rows[y] = Usage!Prompts(Those(keys, key, y))
  <2>1. Those(keys, key, y) = {k \in keys : k.hour = y}
    BY DEF Those
  <2> QED BY <2>1 DEF Usage!HourlyRows
<1> HIDE DEF rows, key
<1>3. \A y \in DOMAIN rows : rows[y] = Usage!Prompts(Those(keys, key, y))
  BY <1>2
<1>4. /\ IsFiniteSet(DOMAIN rows) /\ \A y \in DOMAIN rows : rows[y] \in Nat
      /\ Usage!Total(rows) = Usage!Prompts(keys)
  BY <1>1, <1>3, PromptsByKey
<1> QED BY <1>4 DEF rows

LEMMA TimeOfDaySums ==
    ASSUME TableFits, NEW keys, keys \subseteq DOMAIN table
    PROVE  Usage!Total(Usage!TimeOfDay(keys)) = Usage!Prompts(keys)
<1> DEFINE rows == Usage!HourlyRows(keys)
           sums == Usage!TimeOfDay(keys)
           key == [x \in DOMAIN rows |-> Usage!DayPart((x + Zone) % 24)]
<1>1. /\ IsFiniteSet(DOMAIN rows) /\ \A y \in DOMAIN rows : rows[y] \in Nat
      /\ Usage!Total(rows) = Usage!Prompts(keys)
  BY HourlyRowsSum
<1> HIDE DEF rows
<1>2. DOMAIN sums = {key[x] : x \in DOMAIN rows}
  BY DEF Usage!TimeOfDay, rows
<1>3. ASSUME NEW y \in DOMAIN sums
      PROVE  sums[y] = Usage!Total([x \in Those(DOMAIN rows, key, y) |-> rows[x]])
  <2>1. Those(DOMAIN rows, key, y) = {x \in DOMAIN rows : Usage!DayPart((x + Zone) % 24) = y}
    BY DEF Those
  <2>2. sums[y] = Usage!Total([x \in {z \in DOMAIN rows : Usage!DayPart((z + Zone) % 24) = y} |-> rows[x]])
    BY DEF Usage!TimeOfDay, rows
  <2> QED BY <2>1, <2>2
<1> HIDE DEF sums, key
<1>4. \A y \in DOMAIN sums :
          sums[y] = Usage!Total([x \in Those(DOMAIN rows, key, y) |-> rows[x]])
  BY <1>3
<1>5. Usage!Total(sums) = Usage!Total(rows)
  BY <1>1, <1>2, <1>4, TotalsByKey
<1> QED BY <1>1, <1>5 DEF sums

DayCell(k) == <<k.hour \div 24, k.app>>

LEMMA AppHourlyRowsSum ==
    ASSUME TableFits, NEW keys, keys \subseteq DOMAIN table
    PROVE  LET rows == Usage!AppHourlyRows(keys) IN
           /\ IsFiniteSet(DOMAIN rows) /\ \A y \in DOMAIN rows : rows[y] \in Nat
           /\ Usage!Total(rows) = Usage!Prompts(keys)
<1> DEFINE key == [k \in keys |-> DayCell(k)]
           rows == Usage!AppHourlyRows(keys)
<1>1. DOMAIN rows = {key[k] : k \in keys}
  BY DEF Usage!AppHourlyRows, DayCell
<1>2. ASSUME NEW y \in DOMAIN rows PROVE rows[y] = Usage!Prompts(Those(keys, key, y))
  <2>1. Those(keys, key, y) = {k \in keys : DayCell(k) = y}
    BY DEF Those
  <2> QED BY <2>1 DEF Usage!AppHourlyRows, DayCell
<1> HIDE DEF rows, key
<1>3. \A y \in DOMAIN rows : rows[y] = Usage!Prompts(Those(keys, key, y))
  BY <1>2
<1>4. /\ IsFiniteSet(DOMAIN rows) /\ \A y \in DOMAIN rows : rows[y] \in Nat
      /\ Usage!Total(rows) = Usage!Prompts(keys)
  BY <1>1, <1>3, PromptsByKey
<1> QED BY <1>4 DEF rows

Cell(top, c) == <<c[1], IF LabelOf[c[2]] \in top THEN LabelOf[c[2]] ELSE Other>>

LEMMA AppOverTimeSums ==
    ASSUME TableFits, NEW keys, keys \subseteq DOMAIN table, NEW top
    PROVE  Usage!Total(Usage!AppOverTime(keys, top)) = Usage!Prompts(keys)
<1> DEFINE rows == Usage!AppHourlyRows(keys)
           sums == Usage!AppOverTime(keys, top)
           key == [x \in DOMAIN rows |-> Cell(top, x)]
<1>1. /\ IsFiniteSet(DOMAIN rows) /\ \A y \in DOMAIN rows : rows[y] \in Nat
      /\ Usage!Total(rows) = Usage!Prompts(keys)
  BY AppHourlyRowsSum
<1> HIDE DEF rows
<1>2. DOMAIN sums = {key[x] : x \in DOMAIN rows}
  BY DEF Usage!AppOverTime, rows, Cell
<1>3. ASSUME NEW y \in DOMAIN sums
      PROVE  sums[y] = Usage!Total([x \in Those(DOMAIN rows, key, y) |-> rows[x]])
  <2>1. Those(DOMAIN rows, key, y) = {x \in DOMAIN rows : Cell(top, x) = y}
    BY DEF Those
  <2>2. sums[y] = Usage!Total([x \in {z \in DOMAIN rows : Cell(top, z) = y} |-> rows[x]])
    BY DEF Usage!AppOverTime, rows, Cell
  <2> QED BY <2>1, <2>2
<1> HIDE DEF sums, key
<1>4. \A y \in DOMAIN sums :
          sums[y] = Usage!Total([x \in Those(DOMAIN rows, key, y) |-> rows[x]])
  BY <1>3
<1>5. Usage!Total(sums) = Usage!Total(rows)
  BY <1>1, <1>2, <1>4, TotalsByKey
<1> QED BY <1>1, <1>5 DEF sums

\* Fewer rows, fewer prompts.
LEMMA PromptsGrow ==
    ASSUME TableFits, NEW keys, keys \subseteq DOMAIN table, NEW some, some \subseteq keys
    PROVE  Usage!Prompts(some) <= Usage!Prompts(keys)
<1>1. some \subseteq DOMAIN table
  OBVIOUS
<1>2. /\ Usage!Prompts(some) = Cardinality(Pile(Counts, some))
      /\ Usage!Prompts(keys) = Cardinality(Pile(Counts, keys))
      /\ IsFiniteSet(keys)
  BY <1>1, PromptsAreCounts
<1>3. Pile(Counts, some) \subseteq Pile(Counts, keys)
  BY DEF Pile
<1>4. IsFiniteSet(Pile(Counts, keys))
  <2>1. \A k \in keys : Counts[k] \in Nat
    BY DEF TableFits, Counts
  <2> QED BY <1>2, <2>1, PileIsFinite
<1>5. Cardinality(Pile(Counts, some)) <= Cardinality(Pile(Counts, keys))
  BY <1>3, <1>4, FS_Subset
<1> QED BY <1>2, <1>5

\* The rows of some applications, and what they say of a label.
OfApps(keys, some) == {k \in keys : k.app \in some}
OfLabel(keys, some, l) == {k \in keys : k.app \in some /\ LabelOf[k.app] = l}

LEMMA SomeAppRowsSum ==
    ASSUME TableFits, NEW keys, keys \subseteq DOMAIN table,
           NEW some, some \subseteq DOMAIN Usage!AppRows(keys),
           NEW rows, DOMAIN rows = some, \A a \in some : rows[a] = Usage!AppRows(keys)[a]
    PROVE  /\ IsFiniteSet(DOMAIN rows) /\ \A a \in DOMAIN rows : rows[a] \in Nat
           /\ Usage!Total(rows) = Usage!Prompts(OfApps(keys, some))
<1> DEFINE mine == OfApps(keys, some)
           key == [k \in mine |-> k.app]
<1>1. mine \subseteq DOMAIN table
  BY DEF OfApps
<1>2. DOMAIN Usage!AppRows(keys) = {k.app : k \in keys}
  BY DEF Usage!AppRows
<1>3. DOMAIN rows = {key[k] : k \in mine}
  <2>1. {key[k] : k \in mine} = {k.app : k \in mine}
    OBVIOUS
  <2>2. {k.app : k \in mine} \subseteq some
    BY DEF OfApps
  <2>3. some \subseteq {k.app : k \in mine}
    BY <1>2 DEF OfApps
  <2> QED BY <2>1, <2>2, <2>3
<1>4. ASSUME NEW a \in DOMAIN rows PROVE rows[a] = Usage!Prompts(Those(mine, key, a))
  <2>1. Those(mine, key, a) = {k \in keys : k.app = a}
    BY DEF Those, OfApps
  <2>2. Usage!AppRows(keys)[a] = Usage!Prompts({k \in keys : k.app = a})
    BY DEF Usage!AppRows
  <2> QED BY <2>1, <2>2
<1> HIDE DEF mine, key
<1>5. \A a \in DOMAIN rows : rows[a] = Usage!Prompts(Those(mine, key, a))
  BY <1>4
<1>6. /\ IsFiniteSet(DOMAIN rows) /\ \A a \in DOMAIN rows : rows[a] \in Nat
      /\ Usage!Total(rows) = Usage!Prompts(mine)
  BY <1>1, <1>3, <1>5, PromptsByKey
<1> QED BY <1>6 DEF mine

LEMMA RatioOfLabel ==
    ASSUME TableFits, NEW keys, keys \subseteq DOMAIN table,
           NEW some, some \subseteq DOMAIN Usage!AppRows(keys),
           NEW rows, DOMAIN rows = some, \A a \in some : rows[a] = Usage!AppRows(keys)[a],
           NEW l \in DOMAIN Usage!AppRatio(rows)
    PROVE  Usage!AppRatio(rows)[l] = Usage!Prompts(OfLabel(keys, some, l))
<1> DEFINE mine == {a \in some : LabelOf[a] = l}
           r == [a \in mine |-> rows[a]]
<1>1. Usage!AppRatio(rows)[l] = Usage!Total(r)
  BY DEF Usage!AppRatio
<1>2. mine \subseteq DOMAIN Usage!AppRows(keys) /\ DOMAIN r = mine
  OBVIOUS
<1>3. \A a \in mine : r[a] = Usage!AppRows(keys)[a]
  OBVIOUS
<1>4. OfApps(keys, mine) = OfLabel(keys, some, l)
  BY DEF OfApps, OfLabel
<1> HIDE DEF mine, r
<1>5. Usage!Total(r) = Usage!Prompts(OfApps(keys, mine))
  BY <1>2, <1>3, SomeAppRowsSum
<1> QED BY <1>1, <1>4, <1>5

\* The stack of a label in the chart by day.
OfStack(keys, top, l) == {k \in keys : Cell(top, DayCell(k))[2] = l}

LEMMA StackSums ==
    ASSUME TableFits, NEW keys, keys \subseteq DOMAIN table, NEW top, NEW l
    PROVE  Usage!StackOf(Usage!AppOverTime(keys, top), l)
               = Usage!Prompts(OfStack(keys, top, l))
<1> DEFINE days == Usage!AppHourlyRows(keys)
           chart == Usage!AppOverTime(keys, top)
           cells == {c \in DOMAIN days : Cell(top, c)[2] = l}
           f == [c \in cells |-> days[c]]
           stack == [x \in {y \in DOMAIN chart : y[2] = l} |-> chart[x]]
           toCell == [c \in cells |-> Cell(top, c)]
           mine == OfStack(keys, top, l)
           toDay == [k \in mine |-> DayCell(k)]
<1>1. DOMAIN days = {DayCell(k) : k \in keys}
  BY DEF Usage!AppHourlyRows, DayCell
<1>2. mine \subseteq DOMAIN table
  BY DEF OfStack
<1>3. DOMAIN f = {toDay[k] : k \in mine}
  <2> HIDE DEF days
  <2> QED BY <1>1 DEF OfStack
<1>4. ASSUME NEW c \in DOMAIN f PROVE f[c] = Usage!Prompts(Those(mine, toDay, c))
  <2>1. Those(mine, toDay, c) = {k \in keys : DayCell(k) = c}
    BY DEF Those, OfStack
  <2>2. days[c] = Usage!Prompts({k \in keys : DayCell(k) = c})
    BY DEF Usage!AppHourlyRows, DayCell
  <2> QED BY <2>1, <2>2
<1>5. /\ IsFiniteSet(DOMAIN f) /\ \A c \in DOMAIN f : f[c] \in Nat
      /\ Usage!Total(f) = Usage!Prompts(mine)
  <2>1. \A c \in DOMAIN f : f[c] = Usage!Prompts(Those(mine, toDay, c))
    BY <1>4
  <2> HIDE DEF f, mine, toDay
  <2> QED BY <1>2, <1>3, <2>1, PromptsByKey
<1>6. DOMAIN chart = {Cell(top, c) : c \in DOMAIN days}
  BY DEF Usage!AppOverTime, Cell
<1>7. DOMAIN stack = {toCell[c] : c \in DOMAIN f}
  <2> HIDE DEF chart, days
  <2> QED BY <1>6
<1>8. ASSUME NEW x \in DOMAIN stack
      PROVE  stack[x] = Usage!Total([c \in Those(DOMAIN f, toCell, x) |-> f[c]])
  <2>1. Those(DOMAIN f, toCell, x) = {c \in DOMAIN days : Cell(top, c) = x}
    <3> HIDE DEF days
    <3> QED BY DEF Those
  <2>2. chart[x] = Usage!Total([c \in {b \in DOMAIN days : Cell(top, b) = x} |-> days[c]])
    BY DEF Usage!AppOverTime, Cell
  <2>3. \A c \in Those(DOMAIN f, toCell, x) : f[c] = days[c]
    BY DEF Those
  <2> HIDE DEF days, f, toCell, chart
  <2>4. [c \in Those(DOMAIN f, toCell, x) |-> f[c]]
            = [c \in {b \in DOMAIN days : Cell(top, b) = x} |-> days[c]]
    BY <2>1, <2>3
  <2> QED BY <2>2, <2>4
<1>9. Usage!Total(stack) = Usage!Total(f)
  <2>1. \A x \in DOMAIN stack : stack[x] = Usage!Total([c \in Those(DOMAIN f, toCell, x) |-> f[c]])
    BY <1>8
  <2> HIDE DEF f, stack, toCell
  <2> QED BY <1>5, <1>7, <2>1, TotalsByKey
<1>10. Usage!StackOf(chart, l) = Usage!Total(stack)
  <2> HIDE DEF chart
  <2> QED BY DEF Usage!StackOf, Usage!Restrict
<1> QED BY <1>5, <1>9, <1>10

\* The ratio of the rows read and the chart of all agree.
LEMMA RatioAndChartHold ==
    ASSUME TableFits, NEW keys, keys \subseteq DOMAIN table,
           NEW some, some \subseteq DOMAIN Usage!AppRows(keys),
           NEW rows, rows = Usage!Restrict(Usage!AppRows(keys), some)
    PROVE  Usage!RatioAndChartAgree(keys, rows)
<1> DEFINE ratio == Usage!AppRatio(rows)
<1>1. DOMAIN rows = some /\ \A a \in some : rows[a] = Usage!AppRows(keys)[a]
  BY DEF Usage!Restrict
<1>2. /\ IsFiniteSet(DOMAIN rows) /\ \A a \in DOMAIN rows : rows[a] \in Nat
      /\ Usage!Total(rows) = Usage!Prompts(OfApps(keys, some))
  BY <1>1, SomeAppRowsSum
<1>3. Usage!Total(ratio) = Usage!Prompts(OfApps(keys, some))
  BY <1>2, AppRatioSums
<1>4. Usage!Total(ratio) <= Usage!Prompts(keys)
  <2>1. OfApps(keys, some) \subseteq keys
    BY DEF OfApps
  <2> QED BY <1>3, <2>1, PromptsGrow
<1>5. rows = Usage!AppRows(keys) => some = {k.app : k \in keys}
  BY <1>1 DEF Usage!AppRows
<1>6. rows = Usage!AppRows(keys) => Usage!Total(ratio) = Usage!Prompts(keys)
  <2>1. some = {k.app : k \in keys} => OfApps(keys, some) = keys
    BY DEF OfApps
  <2> QED BY <1>3, <1>5, <2>1
<1>7. ASSUME NEW top \in Usage!TopLabels(ratio)
      PROVE  LET chart == Usage!AppOverTime(keys, top) IN
             /\ Usage!Total(chart) = Usage!Prompts(keys)
             /\ \A l \in top :
                   /\ ratio[l] <= Usage!StackOf(chart, l)
                   /\ rows = Usage!AppRows(keys) /\ l # Other => ratio[l] = Usage!StackOf(chart, l)
  <2> DEFINE chart == Usage!AppOverTime(keys, top)
  <2>1. Usage!Total(chart) = Usage!Prompts(keys)
    BY AppOverTimeSums
  <2>2. top \subseteq DOMAIN ratio
    BY DEF Usage!TopLabels, Usage!FirstBy
  <2>3. ASSUME NEW l \in top
        PROVE  /\ ratio[l] <= Usage!StackOf(chart, l)
               /\ rows = Usage!AppRows(keys) /\ l # Other => ratio[l] = Usage!StackOf(chart, l)
    <3>1. ratio[l] = Usage!Prompts(OfLabel(keys, some, l))
      BY <1>1, <2>2, RatioOfLabel
    <3>2. Usage!StackOf(chart, l) = Usage!Prompts(OfStack(keys, top, l))
      BY StackSums
    <3>3. \A k : Cell(top, DayCell(k))[2] = IF LabelOf[k.app] \in top THEN LabelOf[k.app] ELSE Other
      BY DEF Cell, DayCell
    <3>4. OfLabel(keys, some, l) \subseteq OfStack(keys, top, l)
      BY <3>3 DEF OfLabel, OfStack
    <3>5. OfStack(keys, top, l) \subseteq DOMAIN table
      BY DEF OfStack
    <3>6. Usage!Prompts(OfLabel(keys, some, l)) <= Usage!Prompts(OfStack(keys, top, l))
      BY <3>4, <3>5, PromptsGrow
    <3>7. rows = Usage!AppRows(keys) /\ l # Other
            => OfStack(keys, top, l) = OfLabel(keys, some, l)
      BY <1>5, <3>3 DEF OfLabel, OfStack
    <3> HIDE DEF ratio, chart
    <3> QED BY <3>1, <3>2, <3>6, <3>7
  <2> HIDE DEF chart
  <2> QED BY <2>1, <2>3 DEF chart
<1> HIDE DEF ratio
<1> QED BY <1>4, <1>6, <1>7 DEF Usage!RatioAndChartAgree, ratio

LEMMA UsageCounts ==
    ASSUME NEW S
    PROVE  Usage!Cardinality(S) = Cardinality(S)
BY DEF Usage!Cardinality, Cardinality

\* What a limited query may return.
LEMMA FirstRowsFit ==
    ASSUME NEW rows, NEW limit, NEW first \in Usage!FirstBy(rows, limit)
    PROVE  /\ first \subseteq DOMAIN rows
           /\ \A x \in first, y \in DOMAIN rows \ first : rows[y] <= rows[x]
           /\ limit \in Nat /\ IsFiniteSet(DOMAIN rows) /\ Cardinality(DOMAIN rows) <= limit
                 => first = DOMAIN rows
<1>1. /\ first \subseteq DOMAIN rows
      /\ Usage!Cardinality(first) = Usage!Min({limit, Usage!Cardinality(DOMAIN rows)})
      /\ \A x \in first, y \in DOMAIN rows \ first : rows[y] <= rows[x]
  BY DEF Usage!FirstBy
<1>2. ASSUME limit \in Nat, IsFiniteSet(DOMAIN rows), Cardinality(DOMAIN rows) <= limit
      PROVE  first = DOMAIN rows
  <2> DEFINE n == Cardinality(DOMAIN rows)
             S == {limit, n}
             m == CHOOSE x \in S : \A y \in S : x =< y
  <2>1. n \in Nat
    BY <1>2, FS_CardinalityType
  <2> HIDE DEF n
  <2>2. n \in S /\ \A y \in S : n =< y
    BY <1>2, <2>1 DEF n
  <2>3. m \in S /\ \A y \in S : m =< y
    BY <2>2
  <2>4. m = n
    BY <1>2, <2>1, <2>2, <2>3
  <2>5. Cardinality(first) = n
    BY <1>1, <2>4, UsageCounts DEF Usage!Min, n
  <2> QED BY <1>1, <1>2, <2>5, FS_Subset DEF n
<1> QED BY <1>1, <1>2

LEMMA WholeIsItself ==
    ASSUME NEW keys
    PROVE  Usage!Restrict(Usage!AppRows(keys), DOMAIN Usage!AppRows(keys)) = Usage!AppRows(keys)
BY DEF Usage!Restrict, Usage!AppRows

\* The rows of a period by user and department, and by department.
LEMMA TopUserRowsSum ==
    ASSUME TableFits, NEW p
    PROVE  Usage!Total(Usage!TopUserRows(p)) = Usage!Prompts(Usage!InPeriod(p))
<1> DEFINE keys == Usage!InPeriod(p)
           key == [k \in keys |-> <<k.user, table[k].dept>>]
           rows == Usage!TopUserRows(p)
<1>1. DOMAIN rows = {key[k] : k \in keys}
  BY DEF Usage!TopUserRows
<1>2. ASSUME NEW y \in DOMAIN rows PROVE rows[y] = Usage!Prompts(Those(keys, key, y))
  <2>1. Those(keys, key, y) = {k \in keys : <<k.user, table[k].dept>> = y}
    BY DEF Those
  <2> QED BY <2>1 DEF Usage!TopUserRows
<1>3. keys \subseteq DOMAIN table
  BY DEF Usage!InPeriod
<1> HIDE DEF rows, key, keys
<1>4. \A y \in DOMAIN rows : rows[y] = Usage!Prompts(Those(keys, key, y))
  BY <1>2
<1>5. Usage!Total(rows) = Usage!Prompts(keys)
  BY <1>1, <1>3, <1>4, PromptsByKey
<1> QED BY <1>5 DEF rows, keys

OfDepartment(p, d) == {k \in Usage!InPeriod(p) : table[k].dept = d}
LinesOf(p, d) == {r \in DOMAIN Usage!TopUserRows(p) : r[2] = d}

LEMMA DepartmentLinesSum ==
    ASSUME TableFits, NEW p, NEW d
    PROVE  Usage!Total(Usage!Restrict(Usage!TopUserRows(p), LinesOf(p, d)))
               = Usage!Prompts(OfDepartment(p, d))
<1> DEFINE keys == Usage!InPeriod(p)
           mine == OfDepartment(p, d)
           key == [k \in mine |-> <<k.user, table[k].dept>>]
           lines == Usage!TopUserRows(p)
           rows == [r \in LinesOf(p, d) |-> lines[r]]
<1>1. DOMAIN lines = {<<k.user, table[k].dept>> : k \in keys}
  BY DEF Usage!TopUserRows
<1>2. DOMAIN rows = {key[k] : k \in mine}
  <2>1. {key[k] : k \in mine} = {<<k.user, table[k].dept>> : k \in mine}
    OBVIOUS
  <2>2. LinesOf(p, d) = {r \in {<<k.user, table[k].dept>> : k \in keys} : r[2] = d}
    BY <1>1 DEF LinesOf
  <2>3. mine = {k \in keys : table[k].dept = d}
    BY DEF OfDepartment
  <2> HIDE DEF keys, lines, mine
  <2>4. LinesOf(p, d) = {<<k.user, table[k].dept>> : k \in mine}
    BY <2>2, <2>3
  <2> QED BY <2>1, <2>4
<1>3. ASSUME NEW r \in DOMAIN rows PROVE rows[r] = Usage!Prompts(Those(mine, key, r))
  <2>1. Those(mine, key, r) = {k \in keys : <<k.user, table[k].dept>> = r}
    BY DEF Those, OfDepartment, LinesOf
  <2>2. lines[r] = Usage!Prompts({k \in keys : <<k.user, table[k].dept>> = r})
    BY DEF LinesOf, Usage!TopUserRows
  <2> QED BY <2>1, <2>2
<1>4. mine \subseteq DOMAIN table
  BY DEF OfDepartment, Usage!InPeriod
<1>5. Usage!Restrict(lines, LinesOf(p, d)) = rows
  BY DEF Usage!Restrict
<1> HIDE DEF rows, key, mine, lines
<1>6. \A r \in DOMAIN rows : rows[r] = Usage!Prompts(Those(mine, key, r))
  BY <1>3
<1>7. Usage!Total(rows) = Usage!Prompts(mine)
  BY <1>2, <1>4, <1>6, PromptsByKey
<1> QED BY <1>5, <1>7 DEF mine, lines

\* A department listed has what its users' lines have, no less than one cut off.
LEMMA DepartmentsHold ==
    ASSUME TableFits, NEW p, NEW rows \in Usage!DepartmentRows(p)
    PROVE  /\ \A d \in DOMAIN rows : rows[d] = Usage!Prompts(OfDepartment(p, d))
           /\ \A d \in DOMAIN rows, r \in DOMAIN Usage!TopUserRows(p) :
                 r[2] \notin DOMAIN rows => Usage!Prompts(OfDepartment(p, r[2])) <= rows[d]
<1> DEFINE keys == Usage!InPeriod(p)
           all == [d \in {table[k].dept : k \in keys} |-> Usage!Prompts(OfDepartment(p, d))]
<1>1. Usage!DepartmentRows(p)
          = {Usage!Restrict(all, first) : first \in Usage!FirstBy(all, DepartmentLimit)}
  BY DEF Usage!DepartmentRows, OfDepartment
<1>2. PICK first \in Usage!FirstBy(all, DepartmentLimit) : rows = Usage!Restrict(all, first)
  <2> HIDE DEF all
  <2> QED BY <1>1
<1>3. /\ first \subseteq DOMAIN all
      /\ \A x \in first, y \in DOMAIN all \ first : all[y] <= all[x]
  <2> HIDE DEF all
  <2> QED BY <1>2, FirstRowsFit
<1>4. DOMAIN rows = first /\ \A d \in first : rows[d] = all[d]
  <2> HIDE DEF all
  <2> QED BY <1>2 DEF Usage!Restrict
<1>5. \A r \in DOMAIN Usage!TopUserRows(p) : r[2] \in DOMAIN all
  BY DEF Usage!TopUserRows
<1>6. \A d \in DOMAIN all : all[d] = Usage!Prompts(OfDepartment(p, d))
  OBVIOUS
<1> HIDE DEF all
<1> QED BY <1>3, <1>4, <1>5, <1>6

\* The pages of the users listed sum to the page of all.
LEMMA UserSummariesSum ==
    ASSUME TableFits, NEW p
    PROVE  Usage!Total([u \in {k.user : k \in Usage!InPeriod(p)} |-> Usage!UserSummary(u, p).prompts])
               = Usage!Prompts(Usage!InPeriod(p))
<1> DEFINE keys == Usage!InPeriod(p)
           key == [k \in keys |-> k.user]
           rows == [u \in {k.user : k \in keys} |-> Usage!UserSummary(u, p).prompts]
<1>1. DOMAIN rows = {key[k] : k \in keys}
  OBVIOUS
<1>2. ASSUME NEW y \in DOMAIN rows PROVE rows[y] = Usage!Prompts(Those(keys, key, y))
  <2>1. Those(keys, key, y) = Usage!UserRows(y, p)
    BY DEF Those, Usage!UserRows
  <2>2. rows[y] = Usage!Prompts(Usage!UserRows(y, p))
    BY DEF Usage!UserSummary
  <2> QED BY <2>1, <2>2
<1>3. keys \subseteq DOMAIN table
  BY DEF Usage!InPeriod
<1> HIDE DEF rows, key, keys
<1>4. \A y \in DOMAIN rows : rows[y] = Usage!Prompts(Those(keys, key, y))
  BY <1>2
<1>5. Usage!Total(rows) = Usage!Prompts(keys)
  BY <1>1, <1>3, <1>4, PromptsByKey
<1> QED BY <1>5 DEF rows, keys

LEMMA PagesAgree ==
    ASSUME TableFits, AppLimit \in Nat
    PROVE  Usage!UsagePagesAgree
<1> SUFFICES ASSUME NEW p \in Periods
             PROVE  LET keys == Usage!InPeriod(p)
                        prompts == Usage!PromptSummary(p).prompts
                        lines == Usage!TopUserRows(p)
                        listed == {r[1] : r \in DOMAIN lines}
                        linesOf(d) == Usage!Total(Usage!Restrict(lines, {r \in DOMAIN lines : r[2] = d}))
                    IN  /\ {Usage!Total(Usage!HourlyRows(keys)), Usage!Total(Usage!TimeOfDay(keys)),
                            Usage!Total(lines)} = {prompts}
                        /\ Usage!PromptSummary(p).users = Usage!Cardinality(listed)
                        /\ prompts = Usage!Total([u \in listed |-> Usage!UserSummary(u, p).prompts])
                        /\ \A rows \in Usage!PageApps(keys) :
                              /\ Usage!RatioAndChartAgree(keys, rows)
                              /\ Usage!Cardinality(DOMAIN Usage!AppRows(keys)) <= AppLimit
                                    => rows = Usage!AppRows(keys)
                        /\ \A u \in listed :
                              /\ Usage!UserFound(u)
                              /\ Usage!RatioAndChartAgree(Usage!UserRows(u, p), Usage!UserApps(u, p))
                        /\ \A rows \in Usage!DepartmentRows(p) :
                              /\ \A d \in DOMAIN rows : rows[d] = linesOf(d)
                              /\ \A d \in DOMAIN rows, r \in DOMAIN lines :
                                    r[2] \notin DOMAIN rows => linesOf(r[2]) <= rows[d]
  BY DEF Usage!UsagePagesAgree
<1> DEFINE keys == Usage!InPeriod(p)
           prompts == Usage!PromptSummary(p).prompts
           lines == Usage!TopUserRows(p)
           listed == {r[1] : r \in DOMAIN lines}
           linesOf(d) == Usage!Total(Usage!Restrict(lines, {r \in DOMAIN lines : r[2] = d}))
<1>1. keys \subseteq DOMAIN table
  BY DEF Usage!InPeriod
<1>2. prompts = Usage!Prompts(keys)
  BY DEF Usage!PromptSummary
<1>3. listed = {k.user : k \in keys}
  <2>1. DOMAIN Usage!TopUserRows(p) = {<<k.user, table[k].dept>> : k \in keys}
    BY DEF Usage!TopUserRows
  <2> HIDE DEF keys
  <2>2. listed \subseteq {k.user : k \in keys}
    BY <2>1
  <2>3. ASSUME NEW k \in keys PROVE k.user \in listed
    <3> DEFINE r == <<k.user, table[k].dept>>
    <3>1. r[1] = k.user /\ r \in DOMAIN Usage!TopUserRows(p)
      BY <2>1
    <3> HIDE DEF r
    <3> QED BY <3>1
  <2> QED BY <2>2, <2>3
<1>4. /\ Usage!Total(Usage!HourlyRows(keys)) = prompts
      /\ Usage!Total(Usage!TimeOfDay(keys)) = prompts
      /\ Usage!Total(lines) = prompts
  <2> HIDE DEF prompts
  <2>1. Usage!Total(Usage!HourlyRows(keys)) = prompts
    BY <1>1, <1>2, HourlyRowsSum
  <2>2. Usage!Total(Usage!TimeOfDay(keys)) = prompts
    BY <1>1, <1>2, TimeOfDaySums
  <2>3. Usage!Total(lines) = prompts
    BY <1>2, TopUserRowsSum
  <2> QED BY <2>1, <2>2, <2>3
<1>5. Usage!PromptSummary(p).users = Usage!Cardinality(listed)
  BY <1>3 DEF Usage!PromptSummary
<1>6. prompts = Usage!Total([u \in listed |-> Usage!UserSummary(u, p).prompts])
  BY <1>2, <1>3, UserSummariesSum
<1>7. ASSUME NEW rows \in Usage!PageApps(keys)
      PROVE  /\ Usage!RatioAndChartAgree(keys, rows)
             /\ Usage!Cardinality(DOMAIN Usage!AppRows(keys)) <= AppLimit
                   => rows = Usage!AppRows(keys)
  <2> DEFINE all == Usage!AppRows(keys)
  <2>1. PICK first \in Usage!FirstBy(all, AppLimit) : rows = Usage!Restrict(all, first)
    BY DEF Usage!PageApps
  <2>2. IsFiniteSet(DOMAIN all)
    BY <1>1, AppRowsSum
  <2>3. Usage!Restrict(all, DOMAIN all) = all
    BY WholeIsItself
  <2>4. first \subseteq DOMAIN all
    BY <2>1, FirstRowsFit
  <2>5. Usage!RatioAndChartAgree(keys, rows)
    BY <1>1, <2>1, <2>4, RatioAndChartHold
  <2> HIDE DEF all
  <2>6. Cardinality(DOMAIN all) <= AppLimit => first = DOMAIN all
    BY <2>1, <2>2, FirstRowsFit
  <2>7. Cardinality(DOMAIN all) <= AppLimit => rows = all
    BY <2>1, <2>3, <2>6
  <2> QED BY <2>5, <2>7, UsageCounts DEF all
<1>8. ASSUME NEW u \in listed
      PROVE  /\ Usage!UserFound(u)
             /\ Usage!RatioAndChartAgree(Usage!UserRows(u, p), Usage!UserApps(u, p))
  <2>1. Usage!UserFound(u)
    BY <1>1, <1>3 DEF Usage!UserFound
  <2> DEFINE own == Usage!UserRows(u, p)
             some == DOMAIN Usage!AppRows(own)
  <2>2. own \subseteq DOMAIN table
    BY <1>1 DEF Usage!UserRows
  <2>3. Usage!UserApps(u, p) = Usage!Restrict(Usage!AppRows(own), some)
    BY WholeIsItself DEF Usage!UserApps
  <2>4. some \subseteq DOMAIN Usage!AppRows(own)
    OBVIOUS
  <2> HIDE DEF own, some
  <2>5. Usage!RatioAndChartAgree(own, Usage!UserApps(u, p))
    BY <2>2, <2>3, <2>4, RatioAndChartHold
  <2> QED BY <2>1, <2>5 DEF own
<1>9. ASSUME NEW rows \in Usage!DepartmentRows(p)
      PROVE  /\ \A d \in DOMAIN rows : rows[d] = linesOf(d)
             /\ \A d \in DOMAIN rows, r \in DOMAIN lines :
                   r[2] \notin DOMAIN rows => linesOf(r[2]) <= rows[d]
  <2>1. ASSUME NEW d PROVE linesOf(d) = Usage!Prompts(OfDepartment(p, d))
    BY DepartmentLinesSum DEF LinesOf
  <2>2. /\ \A d \in DOMAIN rows : rows[d] = Usage!Prompts(OfDepartment(p, d))
        /\ \A d \in DOMAIN rows, r \in DOMAIN lines :
              r[2] \notin DOMAIN rows => Usage!Prompts(OfDepartment(p, r[2])) <= rows[d]
    BY DepartmentsHold
  <2> HIDE DEF lines, linesOf
  <2> QED BY <2>1, <2>2
<1>10. {Usage!Total(Usage!HourlyRows(keys)), Usage!Total(Usage!TimeOfDay(keys)),
        Usage!Total(lines)} = {prompts}
  <2> HIDE DEF keys, prompts, lines
  <2> QED BY <1>4
<1> HIDE DEF keys, prompts, listed, lines
<1>11. /\ \A rows \in Usage!PageApps(keys) :
             /\ Usage!RatioAndChartAgree(keys, rows)
             /\ Usage!Cardinality(DOMAIN Usage!AppRows(keys)) <= AppLimit
                   => rows = Usage!AppRows(keys)
       /\ \A u \in listed :
             /\ Usage!UserFound(u)
             /\ Usage!RatioAndChartAgree(Usage!UserRows(u, p), Usage!UserApps(u, p))
  BY <1>7, <1>8
<1>12. \A rows \in Usage!DepartmentRows(p) :
             /\ \A d \in DOMAIN rows : rows[d] = linesOf(d)
             /\ \A d \in DOMAIN rows, r \in DOMAIN lines :
                   r[2] \notin DOMAIN rows => linesOf(r[2]) <= rows[d]
  BY <1>9
<1> QED BY <1>5, <1>6, <1>10, <1>11, <1>12 DEF keys, prompts, listed, lines

(***************************************************************************)
(* The usage: the inductive invariant                                      *)
(***************************************************************************)

UsageConstantsFit ==
    /\ LastTime \in Nat /\ MaxPrompts \in Nat /\ MaxSyncs \in Nat /\ MaxMoves \in Nat
    /\ Lookback \in Nat /\ AppLimit \in Nat

Fetched == UNION {[S -> SUBSET Usage!Interaction] : S \in SUBSET People}
UsageRuns == [stage : {"reports", "exports"}, allTime : BOOLEAN, start : Int, end : Nat,
              resolved : SUBSET People, dept : [People -> Departments], got : Fetched]

TenantTypes ==
    /\ time \in 0..LastTime /\ dept \in [People -> Departments]
    /\ refused \subseteq People /\ active \subseteq People /\ allTime \in BOOLEAN
    /\ usageRuns \in 0..MaxSyncs /\ moves \in 0..MaxMoves

HistoryInv ==
    history \subseteq Usage!Interaction /\ IsFiniteSet(history)
    /\ Cardinality(history) <= MaxPrompts

TableInv ==
    /\ DOMAIN table \subseteq Usage!Key /\ IsFiniteSet(DOMAIN table)
    /\ \A k \in DOMAIN table : table[k] \in [n : 1..MaxPrompts, dept : Departments]

\* What a run has fetched of a user is the user's own.
OwnFetch(got) ==
    \A u \in DOMAIN got :
        /\ IsFiniteSet(got[u]) /\ Cardinality(got[u]) <= MaxPrompts
        /\ \A i \in got[u] : i.user = u

UsageRunInv ==
    usage # NoSync =>
        /\ usage \in UsageRuns
        /\ IsFiniteSet(usage.resolved) /\ DOMAIN usage.got \subseteq usage.resolved
        /\ usage.stage = "reports" => DOMAIN usage.got = {}
        /\ OwnFetch(usage.got)
        /\ exported = NoSync

\* The prompts of an application and an hour among those fetched of a user.
Drawn(got, u, a, h) == {i \in got[u] : i.prompt /\ i.app = a /\ Usage!HourOf(i.at) = h}
RowKey(u, a, h) == [user |-> u, app |-> a, hour |-> h]

ExportInv ==
    exported # NoSync =>
        /\ DOMAIN exported \subseteq People
        /\ \A u \in DOMAIN exported, a \in Apps, h \in 0..Usage!HourOf(LastTime) :
              Cardinality(Drawn(exported, u, a, h))
                  = IF RowKey(u, a, h) \in DOMAIN table THEN table[RowKey(u, a, h)].n ELSE 0
        /\ \A k, l \in DOMAIN table :
              k.user \in DOMAIN exported /\ k.user = l.user => table[k].dept = table[l].dept

UsageInv == TenantTypes /\ HistoryInv /\ TableInv /\ UsageRunInv /\ ExportInv

LEMMA UsageInvInit ==
    ASSUME UsageConstantsFit, Usage!Init
    PROVE  UsageInv
<1>1. TenantTypes
  BY DEF UsageConstantsFit, Usage!Init, TenantTypes
<1>2. HistoryInv
  BY FS_EmptySet DEF UsageConstantsFit, Usage!Init, HistoryInv
<1>3. TableInv
  <2>1. DOMAIN table = {}
    BY DEF Usage!Init
  <2> QED BY <2>1, FS_EmptySet DEF TableInv
<1>4. UsageRunInv /\ ExportInv
  BY DEF Usage!Init, UsageRunInv, ExportInv
<1> QED BY <1>1, <1>2, <1>3, <1>4 DEF UsageInv

(***************************************************************************)
(* The rows a run aggregates                                               *)
(***************************************************************************)

LEMMA DrawnFits ==
    ASSUME UsageConstantsFit, NEW got \in Fetched, OwnFetch(got), NEW u \in DOMAIN got, NEW a,
           NEW h
    PROVE  /\ IsFiniteSet(Drawn(got, u, a, h))
           /\ Cardinality(Drawn(got, u, a, h)) \in 0..MaxPrompts
           /\ Drawn(got, u, a, h) # {} => Cardinality(Drawn(got, u, a, h)) # 0
<1>1. Drawn(got, u, a, h) \in SUBSET got[u]
  BY DEF Drawn
<1>2. IsFiniteSet(got[u]) /\ Cardinality(got[u]) <= MaxPrompts /\ Cardinality(got[u]) \in Nat
  BY FS_CardinalityType DEF OwnFetch
<1>3. /\ IsFiniteSet(Drawn(got, u, a, h))
      /\ Cardinality(Drawn(got, u, a, h)) <= Cardinality(got[u])
  BY <1>1, <1>2, FS_Subset
<1>4. Cardinality(Drawn(got, u, a, h)) \in Nat
  BY <1>3, FS_CardinalityType
<1>5. Drawn(got, u, a, h) # {} => Cardinality(Drawn(got, u, a, h)) # 0
  BY <1>3, FS_EmptySet
<1> QED BY <1>2, <1>3, <1>4, <1>5 DEF UsageConstantsFit

LEMMA HourFits ==
    ASSUME UsageConstantsFit, NEW t \in 0..LastTime
    PROVE  Usage!HourOf(t) \in 0..(LastTime \div 2)
BY DEF UsageConstantsFit, Usage!HourOf

\* A row of what is aggregated counts the prompts drawn for it, all of its user.
LEMMA AggregateFits ==
    ASSUME UsageConstantsFit, usage \in UsageRuns, IsFiniteSet(DOMAIN usage.got),
           OwnFetch(usage.got), NEW new, new = Usage!AggregatePrompts(usage.got)
    PROVE  /\ IsFiniteSet(DOMAIN new) /\ DOMAIN new \subseteq Usage!Key
           /\ \A k \in DOMAIN new :
                 /\ k.user \in DOMAIN usage.got
                 /\ new[k] \in [n : 1..MaxPrompts, dept : Departments]
                 /\ new[k].dept = usage.dept[k.user]
           /\ \A u \in DOMAIN usage.got, a \in Apps, h \in 0..(LastTime \div 2) :
                 Cardinality(Drawn(usage.got, u, a, h))
                     = IF RowKey(u, a, h) \in DOMAIN new THEN new[RowKey(u, a, h)].n ELSE 0
<1> DEFINE got == usage.got
           all == {i \in UNION {got[u] : u \in DOMAIN got} : i.prompt}
           keyOf == [i \in all |-> RowKey(i.user, i.app, Usage!HourOf(i.at))]
<1>1. got \in Fetched /\ usage.dept \in [People -> Departments]
  BY DEF UsageRuns
<1>2. DOMAIN got \subseteq People /\ \A u \in DOMAIN got : got[u] \subseteq Usage!Interaction
  BY <1>1 DEF Fetched
<1> HIDE DEF got
<1>3. IsFiniteSet(all)
  <2>1. IsFiniteSet({got[u] : u \in DOMAIN got})
    BY ImageIsFinite DEF got
  <2>2. \A T \in {got[u] : u \in DOMAIN got} : IsFiniteSet(T)
    BY DEF OwnFetch, got
  <2>3. IsFiniteSet(UNION {got[u] : u \in DOMAIN got})
    BY <2>1, <2>2, FS_UNION
  <2> QED BY <2>3, FS_Subset
<1>4. DOMAIN new = {keyOf[i] : i \in all}
  BY DEF Usage!AggregatePrompts, RowKey, got
<1>5. IsFiniteSet(DOMAIN new)
  <2> HIDE DEF all, keyOf
  <2> QED BY <1>3, <1>4, ImageIsFinite
<1>6. \A i \in all : /\ i.user \in DOMAIN got /\ i \in got[i.user] /\ i \in Usage!Interaction
                     /\ i.prompt
  BY <1>2 DEF OwnFetch, got
<1>7. ASSUME NEW u \in DOMAIN got, NEW i \in got[u], i.prompt PROVE i \in all /\ i.user = u
  BY <1>7 DEF OwnFetch, got
<1>8. ASSUME NEW i \in all PROVE keyOf[i] \in Usage!Key
  <2>1. i.at \in 0..LastTime /\ i.user \in People /\ i.app \in Apps
    BY <1>6 DEF Usage!Interaction
  <2> QED BY <2>1, HourFits DEF Usage!Key, RowKey
<1>9. DOMAIN new \subseteq Usage!Key
  BY <1>4, <1>8
<1>10. ASSUME NEW k \in DOMAIN new
       PROVE  /\ k.user \in DOMAIN got /\ k = RowKey(k.user, k.app, k.hour)
              /\ Drawn(got, k.user, k.app, k.hour) # {}
              /\ new[k] = [n |-> Cardinality(Drawn(got, k.user, k.app, k.hour)),
                           dept |-> usage.dept[k.user]]
  <2>1. PICK i \in all : k = RowKey(i.user, i.app, Usage!HourOf(i.at))
    BY <1>4
  <2>2. k.user = i.user /\ k.app = i.app /\ k.hour = Usage!HourOf(i.at)
    BY <2>1 DEF RowKey
  <2>3. i \in Drawn(got, k.user, k.app, k.hour)
    BY <1>6, <2>2 DEF Drawn
  <2>4. {j \in all : j.user = k.user /\ j.app = k.app /\ Usage!HourOf(j.at) = k.hour}
            = Drawn(got, k.user, k.app, k.hour)
    <3>1. k.user \in DOMAIN got
      BY <1>6, <2>2
    <3> HIDE DEF all
    <3> QED BY <1>6, <1>7, <3>1 DEF Drawn
  <2>5. new[k] = [n |-> Usage!Cardinality({j \in all : j.user = k.user /\ j.app = k.app
                                                        /\ Usage!HourOf(j.at) = k.hour}),
                  dept |-> usage.dept[k.user]]
    BY DEF Usage!AggregatePrompts, got
  <2>6. k.user \in DOMAIN got /\ k = RowKey(k.user, k.app, k.hour)
    BY <1>6, <2>1, <2>2
  <2> HIDE DEF all
  <2>7. new[k] = [n |-> Cardinality(Drawn(got, k.user, k.app, k.hour)),
                  dept |-> usage.dept[k.user]]
    BY <2>4, <2>5 DEF Usage!Cardinality, Cardinality
  <2> QED BY <2>3, <2>6, <2>7
<1>11. ASSUME NEW k \in DOMAIN new
       PROVE  /\ k.user \in DOMAIN usage.got
              /\ new[k] \in [n : 1..MaxPrompts, dept : Departments]
              /\ new[k].dept = usage.dept[k.user]
  <2> DEFINE d == Drawn(got, k.user, k.app, k.hour)
  <2>1. /\ k.user \in DOMAIN got /\ d # {}
        /\ new[k] = [n |-> Cardinality(d), dept |-> usage.dept[k.user]]
    BY <1>10
  <2>2. Cardinality(d) \in 0..MaxPrompts /\ Cardinality(d) # 0
    BY <1>1, <2>1, DrawnFits DEF got
  <2> HIDE DEF d
  <2>3. Cardinality(d) \in 1..MaxPrompts
    BY <2>2 DEF UsageConstantsFit
  <2>4. usage.dept[k.user] \in Departments
    BY <1>1, <1>2, <2>1
  <2>5. new[k].dept = usage.dept[k.user]
    BY <2>1
  <2> QED BY <2>1, <2>3, <2>4, <2>5 DEF got
<1>12. ASSUME NEW u \in DOMAIN usage.got, NEW a \in Apps, NEW h \in 0..(LastTime \div 2)
       PROVE  Cardinality(Drawn(usage.got, u, a, h))
                  = IF RowKey(u, a, h) \in DOMAIN new THEN new[RowKey(u, a, h)].n ELSE 0
  <2> DEFINE k == RowKey(u, a, h)
  <2>1. k.user = u /\ k.app = a /\ k.hour = h
    BY DEF RowKey
  <2>2. CASE k \in DOMAIN new
    <3>1. new[k] = [n |-> Cardinality(Drawn(got, k.user, k.app, k.hour)),
                    dept |-> usage.dept[k.user]]
      BY <1>10, <2>2
    <3> HIDE DEF k
    <3>2. new[k].n = Cardinality(Drawn(got, u, a, h))
      BY <2>1, <3>1
    <3> QED BY <2>2, <3>2 DEF k, got
  <2>3. CASE k \notin DOMAIN new
    <3>1. Drawn(got, u, a, h) = {}
      <4>1. SUFFICES ASSUME NEW i \in Drawn(got, u, a, h) PROVE FALSE
        OBVIOUS
      <4>2. i \in got[u] /\ i.prompt /\ i.app = a /\ Usage!HourOf(i.at) = h
        BY DEF Drawn
      <4>3. i \in all /\ i.user = u
        BY <1>7, <4>2 DEF got
      <4>4. keyOf[i] = k
        BY <4>2, <4>3
      <4> QED BY <1>4, <2>3, <4>3, <4>4
    <3> QED BY <2>3, <3>1, FS_EmptySet DEF got
  <2> QED BY <2>2, <2>3
<1> QED BY <1>5, <1>9, <1>11, <1>12

(***************************************************************************)
(* The usage: every step keeps the invariant                               *)
(***************************************************************************)

LEMMA InteractKeeps ==
    ASSUME UsageConstantsFit, UsageInv,
           NEW u \in People, NEW a \in Apps, NEW p \in BOOLEAN, Usage!Interact(u, a, p)
    PROVE  UsageInv'
<1> DEFINE i == [user |-> u, app |-> a, at |-> time, prompt |-> p]
<1>1. /\ Cardinality(history) < MaxPrompts /\ i \notin history /\ history' = history \cup {i}
      /\ UNCHANGED <<time, dept, refused, allTime, active, table, usage, exported,
                     usageRuns, moves>>
  BY DEF Usage!Interact, Usage!Cardinality, Cardinality
<1>2. i \in Usage!Interaction
  BY DEF UsageInv, TenantTypes, Usage!Interaction
<1> HIDE DEF i
<1>3. HistoryInv'
  <2>1. IsFiniteSet(history \cup {i}) /\ Cardinality(history \cup {i}) = Cardinality(history) + 1
    BY <1>1, FS_AddElement DEF UsageInv, HistoryInv
  <2>2. Cardinality(history) \in Nat
    BY FS_CardinalityType DEF UsageInv, HistoryInv
  <2>3. Cardinality(history') <= MaxPrompts
    BY <1>1, <2>1, <2>2 DEF UsageConstantsFit
  <2> QED BY <1>1, <1>2, <2>1, <2>3 DEF UsageInv, HistoryInv
<1>4. TenantTypes' /\ TableInv' /\ UsageRunInv' /\ ExportInv'
  BY <1>1 DEF UsageInv, TenantTypes, TableInv, UsageRunInv, ExportInv
<1> QED BY <1>3, <1>4 DEF UsageInv

LEMMA ChangeKeeps ==
    ASSUME UsageConstantsFit, UsageInv, Usage!Change
    PROVE  UsageInv'
<1>1. /\ moves < MaxMoves /\ moves' = moves + 1
      /\ UNCHANGED <<time, active, table, usage, exported, usageRuns>>
  BY DEF Usage!Change
<1>2. TableInv' /\ UsageRunInv' /\ ExportInv'
  BY <1>1 DEF UsageInv, TableInv, UsageRunInv, ExportInv
<1>3. moves' \in 0..MaxMoves
  BY <1>1 DEF UsageInv, TenantTypes, UsageConstantsFit
<1>4. HistoryInv'
  <2>1. history' \subseteq history
    BY DEF Usage!Change
  <2>2. IsFiniteSet(history') /\ Cardinality(history') <= Cardinality(history)
    BY <2>1, FS_Subset DEF UsageInv, HistoryInv
  <2>3. Cardinality(history) \in Nat /\ Cardinality(history') \in Nat
    BY <2>2, FS_CardinalityType DEF UsageInv, HistoryInv
  <2>4. Cardinality(history') <= MaxPrompts
    BY <2>2, <2>3 DEF UsageInv, HistoryInv, UsageConstantsFit
  <2> QED BY <2>1, <2>2, <2>4 DEF UsageInv, HistoryInv
<1>5. dept' \in [People -> Departments] /\ refused' \subseteq People /\ allTime' \in BOOLEAN
  <2>1. CASE \E u \in People, d \in Departments :
                dept' = [dept EXCEPT ![u] = d] /\ UNCHANGED <<history, refused, allTime>>
    BY <2>1 DEF UsageInv, TenantTypes
  <2>2. CASE \E u \in People : refused' = refused \cup {u} /\ UNCHANGED <<history, dept, allTime>>
    BY <2>2 DEF UsageInv, TenantTypes
  <2>3. CASE UNCHANGED <<dept, refused, allTime>>
    BY <2>3 DEF UsageInv, TenantTypes
  <2>4. CASE allTime' = ~allTime /\ UNCHANGED <<history, dept, refused>>
    <3>1. (~allTime) \in BOOLEAN
      OBVIOUS
    <3> QED BY <2>4, <3>1 DEF UsageInv, TenantTypes
  <2> QED BY <2>1, <2>2, <2>3, <2>4 DEF Usage!Change
<1>6. TenantTypes'
  BY <1>1, <1>3, <1>5 DEF UsageInv, TenantTypes
<1> QED BY <1>2, <1>4, <1>6 DEF UsageInv

LEMMA RunKeeps ==
    ASSUME UsageConstantsFit, UsageInv, Usage!RunCopilotUsageSync
    PROVE  UsageInv'
<1> DEFINE none == [u \in {} |-> {}]
           new == [stage |-> "reports", allTime |-> allTime,
                   start |-> IF allTime THEN -1 ELSE time - Lookback, end |-> time,
                   resolved |-> {}, dept |-> dept, got |-> none]
<1>1. /\ usageRuns < MaxSyncs /\ usage' = new /\ usageRuns' = usageRuns + 1 /\ exported' = NoSync
      /\ UNCHANGED <<time, history, dept, refused, allTime, active, table, moves>>
  BY DEF Usage!RunCopilotUsageSync
<1>2. DOMAIN none = {} /\ none \in Fetched
  <2>1. none \in [{} -> SUBSET Usage!Interaction] /\ {} \in SUBSET People
    OBVIOUS
  <2> QED BY <2>1 DEF Fetched
<1> HIDE DEF none
<1>3. (IF allTime THEN -1 ELSE time - Lookback) \in Int /\ time \in Nat
  BY DEF UsageInv, TenantTypes, UsageConstantsFit
<1>4. new \in UsageRuns
  BY <1>2, <1>3 DEF UsageInv, TenantTypes, UsageRuns
<1>5. new.resolved = {} /\ new.got = none
  OBVIOUS
<1> HIDE DEF new
<1>6. UsageRunInv'
  BY <1>1, <1>2, <1>4, <1>5, FS_EmptySet DEF UsageRunInv, OwnFetch
<1>7. usageRuns' \in 0..MaxSyncs
  BY <1>1 DEF UsageInv, TenantTypes, UsageConstantsFit
<1>8. TenantTypes' /\ HistoryInv' /\ TableInv' /\ ExportInv'
  BY <1>1, <1>7 DEF UsageInv, TenantTypes, HistoryInv, TableInv, ExportInv
<1> QED BY <1>6, <1>8 DEF UsageInv

LEMMA ReportsKeep ==
    ASSUME UsageConstantsFit, UsageInv, Usage!UpsertReportData
    PROVE  UsageInv'
<1>1. PICK resolved \in SUBSET Usage!D7Active :
          usage' = [usage EXCEPT !.stage = "exports", !.resolved = resolved, !.dept = dept]
  BY DEF Usage!UpsertReportData
<1>2. /\ usage # NoSync /\ usage.stage = "reports" /\ active' = Usage!D7Active
      /\ UNCHANGED <<time, history, dept, refused, allTime, table, exported, usageRuns, moves>>
  BY DEF Usage!UpsertReportData
<1>3. IsFiniteSet(Usage!D7Active) /\ Usage!D7Active \subseteq People
  <2> DEFINE user == [i \in history |-> i.user]
  <2>1. IsFiniteSet({user[i] : i \in history})
    BY ImageIsFinite DEF UsageInv, HistoryInv
  <2>2. Usage!D7Active \in SUBSET {user[i] : i \in history}
    BY DEF Usage!D7Active
  <2>3. IsFiniteSet(Usage!D7Active)
    BY <2>1, <2>2, FS_Subset
  <2> QED BY <2>3 DEF Usage!D7Active
<1>4. IsFiniteSet(resolved) /\ resolved \subseteq People
  <2>1. IsFiniteSet(resolved)
    BY <1>3, FS_Subset
  <2> QED BY <1>3, <2>1
<1>5. usage \in UsageRuns /\ OwnFetch(usage.got) /\ exported = NoSync
  BY <1>2 DEF UsageInv, UsageRunInv
<1> DEFINE new == [usage EXCEPT !.stage = "exports", !.resolved = resolved, !.dept = dept]
<1>6. /\ new \in UsageRuns /\ new.stage = "exports" /\ new.resolved = resolved
      /\ new.got = usage.got /\ DOMAIN new.got = {} /\ usage' = new
  BY <1>1, <1>2, <1>4, <1>5 DEF UsageRuns, UsageInv, TenantTypes, UsageRunInv
<1> HIDE DEF new
<1>7. UsageRunInv'
  <2>1. DOMAIN usage'.got = {} /\ OwnFetch(usage'.got)
    BY <1>1, <1>6 DEF OwnFetch
  <2> QED BY <1>1, <1>2, <1>4, <1>5, <1>6, <2>1 DEF UsageRunInv
<1>8. TenantTypes' /\ HistoryInv' /\ TableInv' /\ ExportInv'
  BY <1>2, <1>3, <1>5 DEF UsageInv, TenantTypes, HistoryInv, TableInv, ExportInv
<1> QED BY <1>7, <1>8 DEF UsageInv


LEMMA FetchKeeps ==
    ASSUME UsageConstantsFit, UsageInv, NEW u \in People, Usage!FetchInteractions(u)
    PROVE  UsageInv'
<1> DEFINE old == usage.got
           answer == IF u \in refused THEN {} ELSE Usage!Interactions(u)
           got == [v \in DOMAIN old \cup {u} |-> IF v \in DOMAIN old THEN old[v] ELSE answer]
           new == [usage EXCEPT !.got = got]
<1>1. /\ usage # NoSync /\ usage.stage = "exports" /\ u \in usage.resolved \ DOMAIN old
      /\ usage' = new
      /\ UNCHANGED <<time, history, dept, refused, allTime, active, table, exported,
                     usageRuns, moves>>
  BY DEF Usage!FetchInteractions
<1>2. /\ usage \in UsageRuns /\ OwnFetch(old) /\ exported = NoSync
      /\ IsFiniteSet(usage.resolved) /\ DOMAIN old \subseteq usage.resolved
  BY <1>1 DEF UsageInv, UsageRunInv
<1>3. old \in Fetched /\ usage.resolved \subseteq People
  BY <1>2 DEF UsageRuns
<1>4. /\ IsFiniteSet(answer) /\ Cardinality(answer) <= MaxPrompts
      /\ \A i \in answer : i.user = u
      /\ answer \subseteq Usage!Interaction
  <2>1. answer \in SUBSET history /\ \A i \in answer : i.user = u
    BY DEF Usage!Interactions
  <2> HIDE DEF answer
  <2>2. IsFiniteSet(answer) /\ Cardinality(answer) <= Cardinality(history)
    BY <2>1, FS_Subset DEF UsageInv, HistoryInv
  <2>3. Cardinality(history) \in Nat /\ Cardinality(answer) \in Nat
    BY <2>2, FS_CardinalityType DEF UsageInv, HistoryInv
  <2>4. Cardinality(answer) <= MaxPrompts
    BY <2>2, <2>3 DEF UsageInv, HistoryInv, UsageConstantsFit
  <2> QED BY <2>1, <2>2, <2>4 DEF UsageInv, HistoryInv
<1> HIDE DEF old, answer
<1>5. /\ DOMAIN got = DOMAIN old \cup {u} /\ got[u] = answer
      /\ \A v \in DOMAIN old : got[v] = old[v]
  BY <1>1
<1>6. got \in Fetched
  <2>1. \A v \in DOMAIN old : old[v] \in SUBSET Usage!Interaction
    BY <1>3 DEF Fetched
  <2>2. got \in [DOMAIN got -> SUBSET Usage!Interaction]
    BY <1>4, <2>1
  <2>3. DOMAIN got \in SUBSET People
    BY <1>2, <1>3, <1>5
  <2> HIDE DEF got
  <2> QED BY <2>2, <2>3 DEF Fetched
<1> HIDE DEF got
<1>7. OwnFetch(got)
  BY <1>2, <1>4, <1>5 DEF OwnFetch
<1>8. /\ new \in UsageRuns /\ new.got = got /\ new.resolved = usage.resolved
      /\ new.stage = "exports"
  BY <1>1, <1>2, <1>6 DEF UsageRuns
<1> HIDE DEF new
<1>9. DOMAIN got \subseteq usage.resolved
  BY <1>1, <1>2, <1>5
<1>10. UsageRunInv'
  BY <1>1, <1>2, <1>7, <1>8, <1>9 DEF UsageRunInv, OwnFetch
<1>11. TenantTypes' /\ HistoryInv' /\ TableInv' /\ ExportInv'
  BY <1>1 DEF UsageInv, TenantTypes, HistoryInv, TableInv, ExportInv
<1> QED BY <1>10, <1>11 DEF UsageInv

LEMMA ReplaceKeeps ==
    ASSUME UsageConstantsFit, UsageInv, Usage!ReplaceInteractionAggregates
    PROVE  UsageInv'
<1> DEFINE got == usage.got
           new == Usage!AggregatePrompts(got)
           kept == DOMAIN table \ Usage!Deleted
<1>1. /\ usage # NoSync /\ DOMAIN got = usage.resolved
      /\ table' = [k \in kept \cup DOMAIN new |-> IF k \in DOMAIN new THEN new[k] ELSE table[k]]
      /\ exported' = IF usage.allTime THEN got ELSE NoSync
      /\ usage' = NoSync
      /\ UNCHANGED <<time, history, dept, refused, allTime, active, usageRuns, moves>>
  BY DEF Usage!ReplaceInteractionAggregates
<1>2. /\ usage \in UsageRuns /\ OwnFetch(got) /\ exported = NoSync
      /\ IsFiniteSet(DOMAIN got)
  BY <1>1 DEF UsageInv, UsageRunInv
<1>3. /\ IsFiniteSet(DOMAIN new) /\ DOMAIN new \subseteq Usage!Key
      /\ \A k \in DOMAIN new :
            /\ k.user \in DOMAIN got
            /\ new[k] \in [n : 1..MaxPrompts, dept : Departments]
            /\ new[k].dept = usage.dept[k.user]
      /\ \A u \in DOMAIN got, a \in Apps, h \in 0..(LastTime \div 2) :
            Cardinality(Drawn(got, u, a, h))
                = IF RowKey(u, a, h) \in DOMAIN new THEN new[RowKey(u, a, h)].n ELSE 0
  BY <1>2, AggregateFits
<1>4. DOMAIN got \subseteq People
  BY <1>2 DEF UsageRuns, Fetched
<1>5. kept \subseteq DOMAIN table /\ (usage.allTime => \A k \in kept : k.user \notin DOMAIN got)
  BY <1>1 DEF Usage!Deleted
<1> HIDE DEF got, new, kept
<1>6. /\ DOMAIN table' = kept \cup DOMAIN new
      /\ \A k \in DOMAIN new : table'[k] = new[k]
      /\ \A k \in kept \ DOMAIN new : table'[k] = table[k]
  BY <1>1
<1>7. TableInv'
  <2>1. IsFiniteSet(kept)
    BY <1>5, FS_Subset DEF UsageInv, TableInv
  <2>2. IsFiniteSet(DOMAIN table')
    <3>1. IsFiniteSet(kept \cup DOMAIN new)
      BY <1>3, <2>1, FS_Union
    <3> QED BY <1>6, <3>1
  <2>3. DOMAIN table' \subseteq Usage!Key
    BY <1>3, <1>5, <1>6 DEF UsageInv, TableInv
  <2>4. \A k \in DOMAIN table' : table'[k] \in [n : 1..MaxPrompts, dept : Departments]
    BY <1>3, <1>5, <1>6 DEF UsageInv, TableInv
  <2> QED BY <2>2, <2>3, <2>4 DEF TableInv
<1>8. ExportInv'
  <2> SUFFICES ASSUME exported' # NoSync
               PROVE  /\ DOMAIN exported' \subseteq People
                      /\ \A u \in DOMAIN exported', a \in Apps, h \in 0..Usage!HourOf(LastTime) :
                            Cardinality(Drawn(exported', u, a, h))
                                = IF RowKey(u, a, h) \in DOMAIN table'
                                  THEN table'[RowKey(u, a, h)].n ELSE 0
                      /\ \A k, l \in DOMAIN table' :
                            k.user \in DOMAIN exported' /\ k.user = l.user =>
                                table'[k].dept = table'[l].dept
    BY DEF ExportInv, Drawn
  <2>1. usage.allTime /\ exported' = got
    BY <1>1
  <2>2. \A k \in DOMAIN table' : k.user \in DOMAIN got => k \in DOMAIN new /\ table'[k] = new[k]
    BY <1>5, <1>6, <2>1
  <2>3. ASSUME NEW u \in DOMAIN got, NEW a \in Apps, NEW h \in 0..Usage!HourOf(LastTime)
        PROVE  Cardinality(Drawn(got, u, a, h))
                   = IF RowKey(u, a, h) \in DOMAIN table' THEN table'[RowKey(u, a, h)].n ELSE 0
    <3>1. h \in 0..(LastTime \div 2)
      BY DEF Usage!HourOf
    <3>2. RowKey(u, a, h).user = u
      BY DEF RowKey
    <3>3. RowKey(u, a, h) \in DOMAIN table' <=> RowKey(u, a, h) \in DOMAIN new
      BY <1>6, <2>2, <3>2
    <3> QED BY <1>3, <1>6, <3>1, <3>3
  <2>4. ASSUME NEW k \in DOMAIN table', NEW l \in DOMAIN table',
               k.user \in DOMAIN got, k.user = l.user
        PROVE  table'[k].dept = table'[l].dept
    BY <1>3, <2>2, <2>4
  <2> QED BY <1>4, <2>1, <2>3, <2>4
<1>9. UsageRunInv' /\ TenantTypes' /\ HistoryInv'
  BY <1>1 DEF UsageInv, UsageRunInv, TenantTypes, HistoryInv
<1> QED BY <1>7, <1>8, <1>9 DEF UsageInv

LEMMA UsageInvNext ==
    ASSUME UsageConstantsFit, UsageInv, [Usage!Next]_(Usage!usageVars)
    PROVE  UsageInv'
<1>1. ASSUME NEW u \in People, NEW a \in Apps, NEW p \in BOOLEAN, Usage!Interact(u, a, p)
      PROVE  UsageInv'
  BY <1>1, InteractKeeps
<1>2. CASE Usage!Pass
  <2>1. /\ time < LastTime /\ time' = time + 1
        /\ UNCHANGED <<history, dept, refused, allTime, active, table, usage, exported,
                       usageRuns, moves>>
    BY <1>2 DEF Usage!Pass
  <2>2. TenantTypes'
    BY <2>1 DEF UsageInv, TenantTypes, UsageConstantsFit
  <2> QED BY <2>1, <2>2 DEF UsageInv, HistoryInv, TableInv, UsageRunInv, ExportInv
<1>3. CASE Usage!Change
  BY <1>3, ChangeKeeps
<1>4. CASE Usage!RunCopilotUsageSync
  BY <1>4, RunKeeps
<1>5. CASE Usage!UpsertReportData
  BY <1>5, ReportsKeep
<1>6. ASSUME NEW u \in People, Usage!FetchInteractions(u)
      PROVE  UsageInv'
  BY <1>6, FetchKeeps
<1>7. CASE Usage!ReplaceInteractionAggregates
  BY <1>7, ReplaceKeeps
<1>8. CASE Usage!UsageFails
  BY <1>8
  DEF Usage!UsageFails, UsageInv, TenantTypes, HistoryInv, TableInv, UsageRunInv, ExportInv
<1>9. CASE UNCHANGED Usage!usageVars
  BY <1>9
  DEF Usage!usageVars, UsageInv, TenantTypes, HistoryInv, TableInv, UsageRunInv, ExportInv
<1> QED BY <1>1, <1>2, <1>3, <1>4, <1>5, <1>6, <1>7, <1>8, <1>9 DEF Usage!Next

(***************************************************************************)
(* The usage: what the invariant gives                                     *)
(***************************************************************************)

LEMMA UsageInvTypes ==
    ASSUME UsageConstantsFit, UsageInv
    PROVE  Usage!TypeOK
<1>1. usage = NoSync \/ usage.resolved \subseteq People
  BY DEF UsageInv, UsageRunInv, UsageRuns
<1>2. exported = NoSync \/ DOMAIN exported \subseteq People
  BY DEF UsageInv, ExportInv
<1> QED BY <1>1, <1>2 DEF UsageInv, TenantTypes, HistoryInv, TableInv, Usage!TypeOK

LEMMA UsageInvPages ==
    ASSUME UsageConstantsFit, UsageInv
    PROVE  Usage!UsagePagesAgree
<1>1. TableFits
  BY DEF UsageInv, TableInv, TableFits
<1> QED BY <1>1, PagesAgree DEF UsageConstantsFit

LEMMA UsageInvSynced ==
    ASSUME UsageConstantsFit, UsageInv
    PROVE  Usage!SyncedUsersMatchTheirExport
<1> SUFFICES ASSUME exported # NoSync, NEW u \in DOMAIN exported
             PROVE  /\ \A a \in Apps, h \in 0..Usage!HourOf(LastTime) :
                          LET k == [user |-> u, app |-> a, hour |-> h] IN
                          Usage!Cardinality({i \in exported[u] : i.prompt /\ i.app = a
                                                  /\ Usage!HourOf(i.at) = h})
                              = IF k \in DOMAIN table THEN table[k].n ELSE 0
                    /\ \A p \in Periods :
                          Usage!Cardinality({r \in DOMAIN Usage!TopUserRows(p) : r[1] = u}) <= 1
  BY DEF Usage!SyncedUsersMatchTheirExport
<1>1. ASSUME NEW a \in Apps, NEW h \in 0..Usage!HourOf(LastTime)
      PROVE  Usage!Cardinality(Drawn(exported, u, a, h))
                 = IF RowKey(u, a, h) \in DOMAIN table THEN table[RowKey(u, a, h)].n ELSE 0
  BY DEF UsageInv, ExportInv, Usage!Cardinality, Cardinality
<1>2. ASSUME NEW p \in Periods
      PROVE  Usage!Cardinality({r \in DOMAIN Usage!TopUserRows(p) : r[1] = u}) <= 1
  <2> DEFINE rows == {r \in DOMAIN Usage!TopUserRows(p) : r[1] = u}
  <2>1. \A r \in rows : \E k \in DOMAIN table : k.user = u /\ r = <<u, table[k].dept>>
    BY DEF Usage!TopUserRows, Usage!InPeriod
  <2>2. \A r, s \in rows : r = s
    BY <2>1 DEF UsageInv, ExportInv
  <2>3. rows = {} \/ \E r : rows = {r}
    <3> HIDE DEF rows
    <3> QED BY <2>2
  <2> HIDE DEF rows
  <2>4. Cardinality(rows) <= 1
    <3>1. CASE rows = {}
      BY <3>1, FS_EmptySet
    <3>2. CASE \E r : rows = {r}
      <4>1. Cardinality(rows) = 1
        BY <3>2, FS_Singleton
      <4> QED BY <4>1
    <3> QED BY <2>3, <3>1, <3>2
  <2> QED BY <2>4 DEF rows, Usage!Cardinality, Cardinality
<1> QED BY <1>1, <1>2 DEF Drawn, RowKey

LEMMA UsageInvRowsGo ==
    ASSUME UsageConstantsFit, UsageInv, [Usage!Next]_(Usage!usageVars)
    PROVE  Usage!OwnRowsGo
<1> SUFFICES ASSUME NEW k \in DOMAIN table \ DOMAIN table'
             PROVE  \/ usage.allTime /\ k.user \in usage.resolved
                    \/ ~usage.allTime
                          /\ k.hour \in Usage!HourOf(usage.start)..Usage!HourOf(usage.end)
  BY DEF Usage!OwnRowsGo
<1>1. Usage!ReplaceInteractionAggregates
  <2>1. table' # table
    OBVIOUS
  <2> QED BY <2>1
      DEF Usage!Next, Usage!usageVars, Usage!Interact, Usage!Pass, Usage!Change,
          Usage!RunCopilotUsageSync, Usage!UpsertReportData, Usage!FetchInteractions,
          Usage!UsageFails
<1>2. usage # NoSync /\ k \in Usage!Deleted
  BY <1>1 DEF Usage!ReplaceInteractionAggregates
<1>3. usage.allTime \in BOOLEAN /\ usage.start \in Int /\ usage.end \in Nat
  BY <1>2 DEF UsageInv, UsageRunInv, UsageRuns
<1>4. CASE usage.allTime
  BY <1>2, <1>4 DEF Usage!Deleted
<1>5. CASE ~usage.allTime
  <2>1. k.hour >= Usage!HourOf(usage.start) /\ 2 * k.hour < usage.end
    BY <1>2, <1>5 DEF Usage!Deleted
  <2>2. k.hour \in Nat
    BY DEF UsageInv, TableInv, Usage!Key, UsageConstantsFit
  <2>3. k.hour <= usage.end \div 2
    BY <1>3, <2>1, <2>2
  <2>4. usage.start \div 2 \in Int /\ usage.end \div 2 \in Int
    BY <1>3
  <2> QED BY <1>5, <2>1, <2>2, <2>3, <2>4 DEF Usage!HourOf
<1> QED BY <1>3, <1>4, <1>5

(***************************************************************************)
(* The figures of the agents page                                          *)
(***************************************************************************)

\* There are finitely many stored conversations and errors.
StoreFits ==
    /\ sessions \in [Sessions -> Telemetry!Row \cup {NoRow}]
    /\ IsFiniteSet({s \in Sessions : sessions[s] # NoRow})
    /\ IsFiniteSet(errs) /\ errs \subseteq [session : Sessions, at : 0..MaxTime]

LEMMA CountIsNatural ==
    ASSUME NEW S, IsFiniteSet(S), NEW T, T \subseteq S
    PROVE  IsFiniteSet(T) /\ Telemetry!Cardinality(T) = Cardinality(T) /\ Cardinality(T) \in Nat
<1>1. IsFiniteSet(T)
  BY FS_Subset
<1>2. Telemetry!Cardinality(T) = Cardinality(T)
  BY DEF Telemetry!Cardinality, Cardinality
<1> QED BY <1>1, <1>2, FS_CardinalityType

\* A partition of a set by a key, each part counted.
LEMMA PartsSum ==
    ASSUME NEW S, IsFiniteSet(S), NEW key, NEW g, IsFiniteSet(DOMAIN g),
           \A x \in S : key[x] \in DOMAIN g,
           \A y \in DOMAIN g : g[y] = Telemetry!Cardinality(Those(S, key, y))
    PROVE  Telemetry!Total(g) = Telemetry!Cardinality(S)
<1>1. ASSUME NEW y \in DOMAIN g
      PROVE  g[y] = Cardinality(Those(S, key, y)) /\ g[y] \in Nat
  <2>1. Those(S, key, y) \subseteq S
    BY DEF Those
  <2> QED BY <2>1, CountIsNatural
<1>2. Telemetry!Total(g) = Cardinality(Pile(g, DOMAIN g))
  BY <1>1, TelemetryTotals
<1>3. Cardinality(Pile(g, DOMAIN g)) = Cardinality(S)
  <2> DEFINE K == DOMAIN g
  <2>1. \A y \in K : g[y] = Cardinality(Those(S, key, y))
    BY <1>1
  <2>2. IsFiniteSet(K) /\ \A x \in S : key[x] \in K
    OBVIOUS
  <2> HIDE DEF K
  <2>3. Cardinality(Pile(g, K)) = Cardinality(S)
    BY <2>1, <2>2, CountsByKey
  <2> QED BY <2>3 DEF K
<1> QED BY <1>2, <1>3, CountIsNatural

LEMMA OutcomesAreFinite ==
    IsFiniteSet(Telemetry!Outcomes)
<1>1. IsFiniteSet({"resolved"})
  BY FS_Singleton
<1>2. IsFiniteSet({"resolved"} \cup {"escalated"})
  BY <1>1, FS_AddElement
<1>3. IsFiniteSet({"resolved"} \cup {"escalated"} \cup {"abandoned"})
  BY <1>2, FS_AddElement
<1>4. Telemetry!Outcomes = {"resolved"} \cup {"escalated"} \cup {"abandoned"}
  BY DEF Telemetry!Outcomes
<1> QED BY <1>3, <1>4

LEMMA FiguresHold ==
    ASSUME StoreFits, AgentOf \in [Sessions -> Agents], UserOf \in [Sessions -> Users],
           AnyAgent \notin Agents
    PROVE  Telemetry!FiguresAddUp
<1> SUFFICES ASSUME NEW f \in Telemetry!Filters
             PROVE  LET total == Telemetry!Cardinality(Telemetry!SessionWhere(f)) IN
                    /\ total = Telemetry!Total([o \in Telemetry!Outcomes |->
                                   Telemetry!Cardinality(Telemetry!WithOutcome(f, o))])
                    /\ total = Telemetry!Cardinality(Telemetry!SingleTurn(f))
                                   + Telemetry!Cardinality(Telemetry!MultiTurn(f))
                    /\ Telemetry!Cardinality(Telemetry!UniqueUsers(f))
                           = Telemetry!Cardinality(Telemetry!NewUsers(f))
                                 + Telemetry!Cardinality(Telemetry!ReturnUsers(f))
                    /\ Telemetry!Cardinality(Telemetry!ErrorWhere(f))
                           = Telemetry!Total([a \in DOMAIN Telemetry!ErrorsPerAgent(f) |->
                                 Telemetry!ErrorsPerAgent(f)[a].errors])
                    /\ f.agent = AnyAgent =>
                           total = Telemetry!Total([a \in Telemetry!AgentOptions(f) |->
                               Telemetry!Cardinality(
                                   Telemetry!SessionWhere([f EXCEPT !.agent = a]))])
  BY DEF Telemetry!FiguresAddUp
<1> DEFINE S == Telemetry!SessionWhere(f)
<1>1. S \subseteq {s \in Sessions : sessions[s] # NoRow} /\ IsFiniteSet(S)
  <2>1. S \subseteq {s \in Sessions : sessions[s] # NoRow}
    BY DEF Telemetry!SessionWhere
  <2> QED BY <2>1, CountIsNatural DEF StoreFits
<1>2. Telemetry!Cardinality(S)
          = Telemetry!Total([o \in Telemetry!Outcomes |->
                Telemetry!Cardinality(Telemetry!WithOutcome(f, o))])
  <2> DEFINE key == [s \in S |-> sessions[s].outcome]
             g == [o \in Telemetry!Outcomes |-> Telemetry!Cardinality(Telemetry!WithOutcome(f, o))]
  <2>1. \A s \in S : key[s] \in DOMAIN g
    BY <1>1 DEF StoreFits, Telemetry!Row
  <2>2. ASSUME NEW o \in DOMAIN g PROVE g[o] = Telemetry!Cardinality(Those(S, key, o))
    <3>1. Those(S, key, o) = Telemetry!WithOutcome(f, o)
      BY DEF Those, Telemetry!WithOutcome
    <3> QED BY <3>1
  <2>3. IsFiniteSet(DOMAIN g)
    BY OutcomesAreFinite
  <2> HIDE DEF S, key, g
  <2>4. Telemetry!Total(g) = Telemetry!Cardinality(S)
    BY <1>1, <2>1, <2>2, <2>3, PartsSum
  <2> QED BY <2>4 DEF S, g
<1>3. Telemetry!Cardinality(S) = Telemetry!Cardinality(Telemetry!SingleTurn(f))
                                     + Telemetry!Cardinality(Telemetry!MultiTurn(f))
  <2> DEFINE A == Telemetry!SingleTurn(f)
             B == Telemetry!MultiTurn(f)
  <2>1. A \subseteq S /\ B \subseteq S /\ S = A \cup B /\ A \cap B = {}
    BY DEF Telemetry!SingleTurn, Telemetry!MultiTurn
  <2> HIDE DEF A, B, S
  <2>2. IsFiniteSet(A) /\ IsFiniteSet(B)
    BY <1>1, <2>1, CountIsNatural
  <2>3. Cardinality(S) = Cardinality(A) + Cardinality(B)
    BY <2>1, <2>2, DisjointCount
  <2>4. /\ Telemetry!Cardinality(S) = Cardinality(S)
        /\ Telemetry!Cardinality(A) = Cardinality(A)
        /\ Telemetry!Cardinality(B) = Cardinality(B)
    BY <1>1, <2>1, CountIsNatural
  <2> QED BY <2>3, <2>4 DEF A, B, S
<1>4. Telemetry!Cardinality(Telemetry!UniqueUsers(f))
          = Telemetry!Cardinality(Telemetry!NewUsers(f))
                + Telemetry!Cardinality(Telemetry!ReturnUsers(f))
  <2> DEFINE U == Telemetry!UniqueUsers(f)
             A == Telemetry!NewUsers(f)
             B == Telemetry!ReturnUsers(f)
  <2>1. ASSUME NEW u \in U
        PROVE  Telemetry!Cardinality(Telemetry!Conversations(f, u)) \in Nat
    <3>1. Telemetry!Conversations(f, u) \subseteq S
      BY DEF Telemetry!Conversations
    <3> QED BY <1>1, <3>1, CountIsNatural
  <2>2. A \subseteq U /\ B \subseteq U /\ U = A \cup B /\ A \cap B = {}
    BY <2>1 DEF Telemetry!NewUsers, Telemetry!ReturnUsers
  <2>3. IsFiniteSet(U)
    <3>1. U = {UserOf[s] : s \in S}
      BY DEF Telemetry!UniqueUsers
    <3> HIDE DEF S
    <3> QED BY <1>1, <3>1, ImageIsFinite
  <2> HIDE DEF A, B, U
  <2>4. IsFiniteSet(A) /\ IsFiniteSet(B)
    BY <2>2, <2>3, CountIsNatural
  <2>5. Cardinality(U) = Cardinality(A) + Cardinality(B)
    BY <2>2, <2>4, DisjointCount
  <2>6. /\ Telemetry!Cardinality(U) = Cardinality(U)
        /\ Telemetry!Cardinality(A) = Cardinality(A)
        /\ Telemetry!Cardinality(B) = Cardinality(B)
    BY <2>2, <2>3, CountIsNatural
  <2> QED BY <2>5, <2>6 DEF A, B, U
<1>5. Telemetry!Cardinality(Telemetry!ErrorWhere(f))
          = Telemetry!Total([a \in DOMAIN Telemetry!ErrorsPerAgent(f) |->
                Telemetry!ErrorsPerAgent(f)[a].errors])
  <2> DEFINE E == Telemetry!ErrorWhere(f)
             key == [e \in E |-> AgentOf[e.session]]
             g == [a \in DOMAIN Telemetry!ErrorsPerAgent(f) |->
                      Telemetry!ErrorsPerAgent(f)[a].errors]
  <2>1. IsFiniteSet(E)
    <3>1. E \subseteq errs
      BY DEF Telemetry!ErrorWhere
    <3> QED BY <3>1, CountIsNatural DEF StoreFits
  <2>2. DOMAIN g = {key[e] : e \in E}
    BY DEF Telemetry!ErrorsPerAgent
  <2>3. ASSUME NEW a \in DOMAIN g PROVE g[a] = Telemetry!Cardinality(Those(E, key, a))
    <3>1. Those(E, key, a) = {e \in E : AgentOf[e.session] = a}
      BY DEF Those
    <3> QED BY <3>1 DEF Telemetry!ErrorsPerAgent
  <2> HIDE DEF E, key, g
  <2>4. IsFiniteSet(DOMAIN g) /\ \A e \in E : key[e] \in DOMAIN g
    <3>1. IsFiniteSet({key[e] : e \in E})
      BY <2>1, ImageIsFinite
    <3> QED BY <2>2, <3>1
  <2>5. Telemetry!Total(g) = Telemetry!Cardinality(E)
    BY <2>1, <2>3, <2>4, PartsSum
  <2> QED BY <2>5 DEF E, g
<1>6. ASSUME f.agent = AnyAgent
      PROVE  Telemetry!Cardinality(S)
                 = Telemetry!Total([a \in Telemetry!AgentOptions(f) |->
                       Telemetry!Cardinality(Telemetry!SessionWhere([f EXCEPT !.agent = a]))])
  <2> DEFINE key == [s \in S |-> AgentOf[s]]
             K == Telemetry!AgentOptions(f)
             g == [a \in K |-> Telemetry!Cardinality(
                                   Telemetry!SessionWhere([f EXCEPT !.agent = a]))]
  <2>1. \A s \in S : key[s] \in K
    BY DEF Telemetry!AgentOptions, Telemetry!SessionWhere
  <2>2. IsFiniteSet(K)
    <3> DEFINE T == {t \in Sessions :
                        sessions[t] # NoRow /\ sessions[t].started > instant - f.range}
    <3>1. T \subseteq {s \in Sessions : sessions[s] # NoRow}
      OBVIOUS
    <3>2. K = {AgentOf[s] : s \in T}
      BY DEF Telemetry!AgentOptions
    <3> HIDE DEF T, K
    <3>3. IsFiniteSet(T)
      BY <3>1, CountIsNatural DEF StoreFits
    <3> QED BY <3>2, <3>3, ImageIsFinite
  <2>3. ASSUME NEW a \in K PROVE g[a] = Telemetry!Cardinality(Those(S, key, a))
    <3> DEFINE h == [f EXCEPT !.agent = a]
    <3>1. h.agent = a /\ h.range = f.range /\ h.production = f.production
      BY DEF Telemetry!Filters
    <3>2. a \in Agents /\ a # AnyAgent
      BY DEF Telemetry!AgentOptions
    <3> HIDE DEF h
    <3>3. \A s \in Sessions : Telemetry!Selects(f, s)
                              /\ (Telemetry!Selects(h, s) <=> AgentOf[s] = a)
      BY <1>6, <3>1, <3>2 DEF Telemetry!Selects
    <3>4. Telemetry!SessionWhere(h) = {s \in S : AgentOf[s] = a}
      BY <3>1, <3>3 DEF Telemetry!SessionWhere
    <3>5. Those(S, key, a) = {s \in S : AgentOf[s] = a}
      BY DEF Those
    <3> QED BY <3>4, <3>5 DEF h
  <2>4. DOMAIN g = K
    OBVIOUS
  <2> HIDE DEF S, key, g, K
  <2>5. Telemetry!Total(g) = Telemetry!Cardinality(S)
    BY <1>1, <2>1, <2>2, <2>3, <2>4, PartsSum
  <2> QED BY <2>5 DEF S, g, K
<1> QED BY <1>2, <1>3, <1>4, <1>5, <1>6

(***************************************************************************)
(* The telemetry: the inductive invariant                                  *)
(***************************************************************************)

TelemetryConstantsFit ==
    /\ AgentOf \in [Sessions -> Agents] /\ UserOf \in [Sessions -> Users]
    /\ AnyAgent \notin Agents /\ NoRow \notin Telemetry!Row
    /\ Lookbacks \subseteq Nat /\ IsFiniteSet(Lookbacks) /\ Lookbacks # {}
    /\ MaxTime \in Nat /\ MaxEvents \in Nat /\ MaxRuns \in Nat

CallsOf(a, h) ==
    {e \in trace : e.kind = "call" /\ AgentOf[e.session] = a /\ Telemetry!Hour(e.at) = h}

Inside(e, w) == e.at > w.since /\ e.at < w.start

\* The turns and errors of a window that were there when the sessions were fetched
\* are in the sessions stored, which are escalated for an error of the window.
SessionsCover(w) ==
    \A e \in trace : e.kind # "call" /\ Inside(e, w) =>
        /\ sessions[e.session] # NoRow
        /\ sessions[e.session].started <= e.at /\ e.at <= sessions[e.session].ended
        /\ e.kind = "error" => sessions[e.session].outcome # "resolved"
        /\ sessions[e.session].outcome = "escalated" =>
              \E x \in trace : x.kind = "error" /\ x.session = e.session /\ x.at > w.since

ErrorsCover(w) ==
    \A e \in trace : e.kind # "call" /\ Inside(e, w) =>
        /\ e.kind = "error" => [session |-> e.session, at |-> e.at] \in errs
        /\ sessions[e.session].outcome = "escalated" => \E x \in errs : x.session = e.session

HoursExact(w) ==
    \A a \in Agents, h \in Telemetry!Hours :
        2 * h > w.since /\ 2 * h + 1 < w.start => hourly[a][h] = Cardinality(CallsOf(a, h))

TraceInv ==
    /\ instant \in 0..MaxTime /\ syncs \in 0..MaxRuns
    /\ trace \subseteq Telemetry!Event /\ IsFiniteSet(trace) /\ Cardinality(trace) <= MaxEvents

\* Nothing is stored that did not happen.
StoreInv ==
    /\ sessions \in [Sessions -> Telemetry!Row \cup {NoRow}]
    /\ \A s \in Sessions : sessions[s] # NoRow => \E e \in trace : e.session = s
    /\ \A x \in errs : \E e \in trace : x = [session |-> e.session, at |-> e.at]

HourlyInv ==
    /\ hourly \in [Agents -> [Telemetry!Hours -> 0..MaxEvents]]
    /\ \A a \in Agents, h \in Telemetry!Hours : hourly[a][h] <= Cardinality(CallsOf(a, h))

Syncs == [window : Telemetry!Window, stage : Telemetry!Stages]

SyncInv ==
    sync # NoRow =>
        /\ sync \in Syncs /\ covered = NoRow /\ sync.window.start <= instant
        /\ sync.stage # "sessions" => SessionsCover(sync.window)
        /\ sync.stage = "tools" => ErrorsCover(sync.window)

CoveredInv ==
    covered # NoRow =>
        /\ covered \in Telemetry!Window /\ covered.start <= instant
        /\ SessionsCover(covered) /\ ErrorsCover(covered) /\ HoursExact(covered)

TelemetryInv == TraceInv /\ StoreInv /\ HourlyInv /\ SyncInv /\ CoveredInv

LEMMA NoCallsYet ==
    ASSUME trace = {}, NEW a, NEW h
    PROVE  Cardinality(CallsOf(a, h)) = 0
<1>1. CallsOf(a, h) = {}
  BY DEF CallsOf
<1> QED BY <1>1, FS_EmptySet

LEMMA TelemetryInvInit ==
    ASSUME TelemetryConstantsFit, Telemetry!Init
    PROVE  TelemetryInv
<1>1. TraceInv
  BY FS_EmptySet DEF TelemetryConstantsFit, Telemetry!Init, TraceInv
<1>2. StoreInv
  BY DEF Telemetry!Init, StoreInv
<1>3. HourlyInv
  <2>1. hourly \in [Agents -> [Telemetry!Hours -> 0..MaxEvents]]
    BY DEF Telemetry!Init, TelemetryConstantsFit
  <2>2. ASSUME NEW a \in Agents, NEW h \in Telemetry!Hours
        PROVE  hourly[a][h] <= Cardinality(CallsOf(a, h))
    <3>1. hourly[a][h] = 0 /\ Cardinality(CallsOf(a, h)) = 0
      BY NoCallsYet DEF Telemetry!Init
    <3> QED BY <3>1
  <2> QED BY <2>1, <2>2 DEF HourlyInv
<1>4. SyncInv /\ CoveredInv
  BY DEF Telemetry!Init, SyncInv, CoveredInv
<1> QED BY <1>1, <1>2, <1>3, <1>4 DEF TelemetryInv

(***************************************************************************)
(* What a run fetches                                                      *)
(***************************************************************************)

LEMMA MinimumOf ==
    ASSUME NEW S, S \subseteq Int, IsFiniteSet(S), S # {}
    PROVE  Telemetry!Min(S) \in S /\ \A x \in S : Telemetry!Min(S) <= x
<1>1. \E m \in S : \A x \in S : m <= x
  BY HasMinimum
<1> QED BY <1>1 DEF Telemetry!Min

LEMMA MaximumOf ==
    ASSUME NEW S, S \subseteq Int, IsFiniteSet(S), S # {}
    PROVE  Telemetry!Max(S) \in S /\ \A x \in S : x <= Telemetry!Max(S)
<1>1. \E m \in S : \A x \in S : m >= x
  <2>1. PICK m \in S : \A x \in S : x <= m
    BY HasMaximum
  <2> QED BY <2>1
<1>2. Telemetry!Max(S) \in S /\ \A x \in S : Telemetry!Max(S) >= x
  BY <1>1 DEF Telemetry!Max
<1> QED BY <1>2

LEMMA PairFits ==
    ASSUME NEW a \in Int, NEW b \in Int
    PROVE  {a, b} \subseteq Int /\ IsFiniteSet({a, b}) /\ {a, b} # {}
<1>1. IsFiniteSet({a})
  BY FS_Singleton
<1>2. IsFiniteSet({a} \cup {b})
  BY <1>1, FS_AddElement
<1>3. {a, b} = {a} \cup {b}
  OBVIOUS
<1> QED BY <1>2, <1>3

LEMMA WindowFits ==
    ASSUME TelemetryConstantsFit, instant \in 0..MaxTime, NEW lookback \in Lookbacks
    PROVE  [since |-> instant - lookback, start |-> instant] \in Telemetry!Window
<1>1. lookback <= Telemetry!Max(Lookbacks) /\ Telemetry!Max(Lookbacks) \in Nat
  <2>1. Lookbacks \subseteq Int
    BY DEF TelemetryConstantsFit
  <2>2. Telemetry!Max(Lookbacks) \in Lookbacks
        /\ \A x \in Lookbacks : x <= Telemetry!Max(Lookbacks)
    BY <2>1, MaximumOf DEF TelemetryConstantsFit
  <2> QED BY <2>2 DEF TelemetryConstantsFit
<1>2. lookback \in Nat /\ MaxTime \in Nat
  BY DEF TelemetryConstantsFit
<1>3. instant - lookback \in (-Telemetry!Max(Lookbacks))..MaxTime
  BY <1>1, <1>2
<1> QED BY <1>3 DEF Telemetry!Window

\* The row of a session a run fetches says when its turns and errors in the
\* window were, and how it ended.
LEMMA FetchedFits ==
    ASSUME TelemetryConstantsFit, TraceInv, NEW w \in Telemetry!Window,
           NEW new, new = Telemetry!FetchSessions(w)
    PROVE  /\ \A e \in trace : e.kind # "call" /\ e.at > w.since => e.session \in DOMAIN new
           /\ \A s \in DOMAIN new :
                 /\ new[s] \in Telemetry!Row
                 /\ \E e \in trace : e.session = s
                 /\ \A e \in trace : e.kind # "call" /\ e.at > w.since /\ e.session = s =>
                       /\ new[s].started <= e.at /\ e.at <= new[s].ended
                       /\ e.kind = "error" => new[s].outcome # "resolved"
                 /\ new[s].outcome = "escalated" =>
                       \E x \in trace : x.kind = "error" /\ x.session = s /\ x.at > w.since
<1>1. \A e \in trace : /\ e.session \in Sessions /\ e.kind \in {"turn", "error", "call"}
                       /\ e.at \in 0..MaxTime
  BY DEF TraceInv, Telemetry!Event, Telemetry!Kinds
<1>2. \A e \in trace : e.kind # "call" /\ e.at > w.since => e.session \in DOMAIN new
  BY <1>1 DEF Telemetry!FetchSessions, Telemetry!Fetch
<1>3. ASSUME NEW s \in DOMAIN new
      PROVE  /\ new[s] \in Telemetry!Row
             /\ \E e \in trace : e.session = s
             /\ \A e \in trace : e.kind # "call" /\ e.at > w.since /\ e.session = s =>
                   /\ new[s].started <= e.at /\ e.at <= new[s].ended
                   /\ e.kind = "error" => new[s].outcome # "resolved"
             /\ new[s].outcome = "escalated" =>
                   \E x \in trace : x.kind = "error" /\ x.session = s /\ x.at > w.since
  <2> DEFINE turns == {e \in Telemetry!Fetch("turn", w) : e.session = s}
             errors == {e \in Telemetry!Fetch("error", w) : e.session = s}
             times == {e.at : e \in turns \cup errors}
             outcome == Telemetry!ClassifyOutcome(Telemetry!Cardinality(turns),
                                                  Telemetry!Cardinality(errors))
  <2>1. new[s] = [started |-> Telemetry!Min(times), ended |-> Telemetry!Max(times),
                  turns |-> Telemetry!Cardinality(turns), outcome |-> outcome]
    BY DEF Telemetry!FetchSessions
  <2>2. turns \cup errors # {} /\ turns \subseteq trace /\ errors \subseteq trace
    BY DEF Telemetry!FetchSessions, Telemetry!Fetch
  <2>3. \A e \in trace : e.kind # "call" /\ e.at > w.since /\ e.session = s =>
            e \in turns \cup errors /\ (e.kind = "error" => e \in errors)
    BY <1>1 DEF Telemetry!Fetch
  <2>4. \A e \in errors : e.kind = "error" /\ e.session = s /\ e.at > w.since
    BY DEF Telemetry!Fetch
  <2>5. \A e \in turns \cup errors : e.session = s
    OBVIOUS
  <2> HIDE DEF turns, errors
  <2>6. times \subseteq 0..MaxTime /\ times # {}
    BY <1>1, <2>2
  <2>7. IsFiniteSet(times)
    <3> DEFINE S == turns \cup errors
               at == [e \in S |-> e.at]
    <3>1. IsFiniteSet(S)
      BY <2>2, FS_Subset DEF TraceInv
    <3>2. times = {at[e] : e \in S}
      OBVIOUS
    <3> HIDE DEF S, at
    <3> QED BY <3>1, <3>2, ImageIsFinite
  <2>8. /\ Telemetry!Min(times) \in times /\ \A t \in times : Telemetry!Min(times) <= t
        /\ Telemetry!Max(times) \in times /\ \A t \in times : t <= Telemetry!Max(times)
    <3>1. times \subseteq Int
      BY <2>6 DEF TelemetryConstantsFit
    <3> HIDE DEF times
    <3> QED BY <2>6, <2>7, <3>1, MinimumOf, MaximumOf
  <2>9. /\ Telemetry!Cardinality(turns) \in 0..MaxEvents
        /\ Telemetry!Cardinality(errors) \in Nat
        /\ errors # {} => Telemetry!Cardinality(errors) # 0
        /\ errors = {} => Telemetry!Cardinality(errors) = 0
    <3>1. /\ IsFiniteSet(turns) /\ Telemetry!Cardinality(turns) = Cardinality(turns)
          /\ Cardinality(turns) \in Nat
      BY <2>2, CountIsNatural DEF TraceInv
    <3>2. /\ IsFiniteSet(errors) /\ Telemetry!Cardinality(errors) = Cardinality(errors)
          /\ Cardinality(errors) \in Nat
      BY <2>2, CountIsNatural DEF TraceInv
    <3>3. Cardinality(turns) <= Cardinality(trace) /\ Cardinality(trace) \in Nat
      BY <2>2, FS_Subset, FS_CardinalityType DEF TraceInv
    <3>4. Cardinality(turns) <= MaxEvents
      BY <3>1, <3>3 DEF TraceInv, TelemetryConstantsFit
    <3>5. (errors # {} => Cardinality(errors) # 0) /\ (errors = {} => Cardinality(errors) = 0)
      BY <3>2, FS_EmptySet
    <3> QED BY <3>1, <3>2, <3>4, <3>5 DEF TelemetryConstantsFit
  <2>10. /\ outcome \in Telemetry!Outcomes
         /\ errors # {} => outcome # "resolved"
         /\ outcome = "escalated" => errors # {}
    BY <2>9 DEF Telemetry!ClassifyOutcome, Telemetry!Outcomes
  <2>11. \A e \in turns \cup errors : e.at \in times
    OBVIOUS
  <2> HIDE DEF times, outcome
  <2>12. new[s] \in Telemetry!Row
    <3>1. Telemetry!Min(times) \in 0..MaxTime /\ Telemetry!Max(times) \in 0..MaxTime
      BY <2>6, <2>8
    <3>2. Telemetry!Cardinality(turns) \in 0..MaxEvents /\ outcome \in Telemetry!Outcomes
      BY <2>9, <2>10
    <3> QED BY <2>1, <3>1, <3>2 DEF Telemetry!Row
  <2>13. /\ new[s].started = Telemetry!Min(times) /\ new[s].ended = Telemetry!Max(times)
         /\ new[s].outcome = outcome
    BY <2>1
  <2>14. \E e \in trace : e.session = s
    BY <2>2, <2>5
  <2>15. ASSUME NEW e \in trace, e.kind # "call", e.at > w.since, e.session = s
         PROVE  /\ new[s].started <= e.at /\ e.at <= new[s].ended
                /\ e.kind = "error" => new[s].outcome # "resolved"
    <3>1. e.at \in times /\ (e.kind = "error" => errors # {})
      BY <2>3, <2>11, <2>15
    <3> QED BY <2>8, <2>10, <2>13, <3>1
  <2>16. ASSUME new[s].outcome = "escalated"
         PROVE  \E x \in trace : x.kind = "error" /\ x.session = s /\ x.at > w.since
    BY <2>2, <2>4, <2>10, <2>13, <2>16
  <2> QED BY <2>12, <2>14, <2>15, <2>16
<1> QED BY <1>2, <1>3

LEMMA MergedFits ==
    ASSUME TelemetryConstantsFit, NEW old \in Telemetry!Row \cup {NoRow},
           NEW new \in Telemetry!Row, NEW row, row = Telemetry!UpsertSession(old, new)
    PROVE  /\ row \in Telemetry!Row /\ row.outcome = new.outcome
           /\ row.started <= new.started /\ new.ended <= row.ended
<1>1. CASE old = NoRow
  <2>1. row = new
    BY <1>1 DEF Telemetry!UpsertSession
  <2>2. new.started \in 0..MaxTime /\ new.ended \in 0..MaxTime
    BY DEF Telemetry!Row
  <2>3. new.started <= new.started /\ new.ended <= new.ended
    BY <2>2 DEF TelemetryConstantsFit
  <2> QED BY <2>1, <2>3
<1>2. CASE old # NoRow
  <2> DEFINE S == {old.started, new.started}
             E == {old.ended, new.ended}
             N == {old.turns, new.turns}
  <2>1. row = [started |-> Telemetry!Min(S), ended |-> Telemetry!Max(E),
               turns |-> Telemetry!Max(N), outcome |-> new.outcome]
    BY <1>2 DEF Telemetry!UpsertSession
  <2>2. /\ S \subseteq 0..MaxTime /\ E \subseteq 0..MaxTime /\ N \subseteq 0..MaxEvents
        /\ new.outcome \in Telemetry!Outcomes
    BY <1>2 DEF Telemetry!Row
  <2>3. 0..MaxTime \subseteq Int /\ 0..MaxEvents \subseteq Int
    OBVIOUS
  <2>4. /\ S \subseteq Int /\ IsFiniteSet(S) /\ S # {}
        /\ E \subseteq Int /\ IsFiniteSet(E) /\ E # {}
        /\ N \subseteq Int /\ IsFiniteSet(N) /\ N # {}
    <3>1. S \subseteq Int /\ E \subseteq Int /\ N \subseteq Int
      BY <2>2, <2>3
    <3> QED BY <3>1, PairFits
  <2>5. new.started \in S /\ new.ended \in E
    OBVIOUS
  <2> HIDE DEF S, E, N
  <2>6. /\ Telemetry!Min(S) \in S /\ Telemetry!Min(S) <= new.started
        /\ Telemetry!Max(E) \in E /\ new.ended <= Telemetry!Max(E)
        /\ Telemetry!Max(N) \in N
    BY <2>4, <2>5, MinimumOf, MaximumOf
  <2>7. row \in Telemetry!Row
    <3>1. /\ Telemetry!Min(S) \in 0..MaxTime /\ Telemetry!Max(E) \in 0..MaxTime
          /\ Telemetry!Max(N) \in 0..MaxEvents
      BY <2>2, <2>6
    <3> QED BY <2>1, <2>2, <3>1 DEF Telemetry!Row
  <2>8. /\ row.started = Telemetry!Min(S) /\ row.ended = Telemetry!Max(E)
        /\ row.outcome = new.outcome
    BY <2>1
  <2> QED BY <2>6, <2>7, <2>8
<1> QED BY <1>1, <1>2

LEMMA CallsAreFinite ==
    ASSUME TraceInv, NEW a, NEW h
    PROVE  /\ IsFiniteSet(CallsOf(a, h)) /\ Cardinality(CallsOf(a, h)) \in Nat
           /\ Cardinality(CallsOf(a, h)) <= Cardinality(trace) /\ Cardinality(trace) \in Nat
<1>1. CallsOf(a, h) \subseteq trace
  BY DEF CallsOf
<1>2. IsFiniteSet(CallsOf(a, h)) /\ Cardinality(CallsOf(a, h)) <= Cardinality(trace)
  BY <1>1, FS_Subset DEF TraceInv
<1> QED BY <1>2, FS_CardinalityType DEF TraceInv

(***************************************************************************)
(* The telemetry: every step keeps the invariant                           *)
(***************************************************************************)

LEMMA HappenKeeps ==
    ASSUME TelemetryConstantsFit, TelemetryInv, NEW s \in Sessions, NEW k \in Telemetry!Kinds,
           Telemetry!Happen(s, k)
    PROVE  TelemetryInv'
<1> DEFINE e == [session |-> s, kind |-> k, at |-> instant]
<1>1. /\ Cardinality(trace) < MaxEvents /\ e \notin trace /\ trace' = trace \cup {e}
      /\ UNCHANGED <<instant, sessions, errs, hourly, sync, covered, syncs>>
  BY DEF Telemetry!Happen, Telemetry!Cardinality, Cardinality
<1>2. TraceInv /\ StoreInv /\ HourlyInv /\ SyncInv /\ CoveredInv
  BY DEF TelemetryInv
<1>3. e \in Telemetry!Event /\ e.at = instant /\ e.session = s
  BY <1>2 DEF TraceInv, Telemetry!Event
<1> HIDE DEF e
<1>4. TraceInv'
  <2>1. IsFiniteSet(trace \cup {e}) /\ Cardinality(trace \cup {e}) = Cardinality(trace) + 1
    BY <1>1, <1>2, FS_AddElement DEF TraceInv
  <2>2. Cardinality(trace) \in Nat
    BY <1>2, FS_CardinalityType DEF TraceInv
  <2>3. Cardinality(trace') <= MaxEvents
    BY <1>1, <2>1, <2>2 DEF TelemetryConstantsFit
  <2> QED BY <1>1, <1>2, <1>3, <2>1, <2>3 DEF TraceInv
<1>5. StoreInv'
  BY <1>1, <1>2 DEF StoreInv
<1>6. ASSUME NEW a, NEW h PROVE CallsOf(a, h) \subseteq CallsOf(a, h)'
  BY <1>1 DEF CallsOf
<1>7. HourlyInv'
  <2>1. ASSUME NEW a \in Agents, NEW h \in Telemetry!Hours
        PROVE  hourly'[a][h] <= Cardinality(CallsOf(a, h)')
    <3> DEFINE old == CallsOf(a, h)
               new == CallsOf(a, h)'
    <3>1. new \subseteq trace'
      BY DEF CallsOf
    <3>2. IsFiniteSet(new)
      BY <1>4, <3>1, FS_Subset DEF TraceInv
    <3>3. IsFiniteSet(old) /\ Cardinality(old) \in Nat
      BY <1>2, CallsAreFinite
    <3>4. old \subseteq new
      BY <1>6
    <3> HIDE DEF new, old
    <3>5. Cardinality(old) <= Cardinality(new) /\ Cardinality(new) \in Nat
      BY <3>2, <3>4, FS_Subset, FS_CardinalityType
    <3>6. hourly[a][h] <= Cardinality(old) /\ hourly[a][h] \in Nat
      BY <1>2 DEF HourlyInv, old
    <3>7. hourly[a][h] <= Cardinality(new)
      BY <3>3, <3>5, <3>6
    <3> QED BY <1>1, <3>7 DEF new
  <2> QED BY <1>1, <1>2, <2>1 DEF HourlyInv
<1>8. ASSUME NEW w \in Telemetry!Window, w.start <= instant PROVE ~Inside(e, w)
  BY <1>2, <1>3, <1>8 DEF Inside, Telemetry!Window, TraceInv
<1>9. ASSUME NEW w \in Telemetry!Window, w.start <= instant, SessionsCover(w)
      PROVE  SessionsCover(w)'
  BY <1>1, <1>8, <1>9 DEF SessionsCover, Inside
<1>10. ASSUME NEW w \in Telemetry!Window, w.start <= instant, ErrorsCover(w)
       PROVE  ErrorsCover(w)'
  BY <1>1, <1>8, <1>10 DEF ErrorsCover, Inside
<1>11. ASSUME NEW w \in Telemetry!Window, w.start <= instant, HoursExact(w)
       PROVE  HoursExact(w)'
  <2> SUFFICES ASSUME NEW a \in Agents, NEW h \in Telemetry!Hours,
                      2 * h > w.since, 2 * h + 1 < w.start
               PROVE  hourly'[a][h] = Cardinality(CallsOf(a, h)')
    BY DEF HoursExact
  <2>1. h \in Nat /\ w.start \in Nat /\ instant \in Nat
    BY <1>2 DEF Telemetry!Hours, Telemetry!Window, TraceInv
  <2>2. Telemetry!Hour(e.at) # h
    BY <1>3, <1>11, <2>1 DEF Telemetry!Hour
  <2>3. CallsOf(a, h)' = CallsOf(a, h)
    BY <1>1, <2>2 DEF CallsOf
  <2> QED BY <1>1, <1>11, <2>3 DEF HoursExact
<1>12. SyncInv'
  BY <1>1, <1>2, <1>9, <1>10 DEF SyncInv, Syncs
<1>13. CoveredInv'
  BY <1>1, <1>2, <1>9, <1>10, <1>11 DEF CoveredInv
<1> QED BY <1>4, <1>5, <1>7, <1>12, <1>13 DEF TelemetryInv

LEMMA TickKeeps ==
    ASSUME TelemetryConstantsFit, TelemetryInv, Telemetry!Tick
    PROVE  TelemetryInv'
<1>1. /\ instant < MaxTime /\ instant' = instant + 1
      /\ UNCHANGED <<trace, sessions, errs, hourly, sync, covered, syncs>>
  BY DEF Telemetry!Tick
<1>2. TraceInv /\ StoreInv /\ HourlyInv /\ SyncInv /\ CoveredInv
  BY DEF TelemetryInv
<1>3. instant' \in 0..MaxTime /\ instant < instant' /\ instant \in Nat /\ instant' \in Nat
  BY <1>1, <1>2 DEF TraceInv, TelemetryConstantsFit
<1>4. \A w \in Telemetry!Window : w.start <= instant => w.start <= instant'
  BY <1>3 DEF Telemetry!Window
<1>5. TraceInv' /\ StoreInv' /\ HourlyInv'
  BY <1>1, <1>2, <1>3 DEF TraceInv, StoreInv, HourlyInv, CallsOf
<1>6. SyncInv'
  BY <1>1, <1>2, <1>4 DEF SyncInv, Syncs, SessionsCover, ErrorsCover
<1>7. CoveredInv'
  BY <1>1, <1>2, <1>4 DEF CoveredInv, SessionsCover, ErrorsCover, HoursExact, CallsOf
<1> QED BY <1>5, <1>6, <1>7 DEF TelemetryInv

LEMMA TelemetryRunKeeps ==
    ASSUME TelemetryConstantsFit, TelemetryInv, Telemetry!RunCopilotTelemetry
    PROVE  TelemetryInv'
<1>1. PICK lookback \in Lookbacks :
          sync' = [window |-> [since |-> instant - lookback, start |-> instant],
                   stage |-> "sessions"]
  BY DEF Telemetry!RunCopilotTelemetry
<1>2. /\ syncs < MaxRuns /\ covered' = NoRow /\ syncs' = syncs + 1
      /\ UNCHANGED <<instant, trace, sessions, errs, hourly>>
  BY DEF Telemetry!RunCopilotTelemetry
<1>3. TraceInv /\ StoreInv /\ HourlyInv
  BY DEF TelemetryInv
<1>4. TraceInv' /\ StoreInv' /\ HourlyInv' /\ CoveredInv'
  BY <1>2, <1>3 DEF TraceInv, StoreInv, HourlyInv, CallsOf, CoveredInv, TelemetryConstantsFit
<1> DEFINE w == [since |-> instant - lookback, start |-> instant]
<1>5. w \in Telemetry!Window /\ w.start = instant /\ instant <= instant
  BY <1>3, WindowFits DEF TraceInv
<1>6. sync' = [window |-> w, stage |-> "sessions"]
  BY <1>1
<1> HIDE DEF w
<1>7. sync' \in Syncs /\ sync'.stage = "sessions" /\ sync'.window = w
  BY <1>5, <1>6 DEF Syncs, Telemetry!Stages
<1>8. SyncInv'
  BY <1>2, <1>5, <1>7 DEF SyncInv
<1> QED BY <1>4, <1>8 DEF TelemetryInv

\* The stages after the first keep what is covered.
LEMMA UpsertSessionsKeeps ==
    ASSUME TelemetryConstantsFit, TelemetryInv, Telemetry!UpsertSessions
    PROVE  TelemetryInv'
<1> DEFINE w == sync.window
           new == Telemetry!FetchSessions(w)
<1>1. /\ sync # NoRow /\ sync.stage = "sessions"
      /\ sessions' = [s \in Sessions |->
             IF s \in DOMAIN new THEN Telemetry!UpsertSession(sessions[s], new[s])
             ELSE sessions[s]]
      /\ sync' = [sync EXCEPT !.stage = "events"]
      /\ UNCHANGED <<instant, trace, errs, hourly, covered, syncs>>
  BY DEF Telemetry!UpsertSessions
<1>2. TraceInv /\ StoreInv /\ HourlyInv /\ SyncInv
  BY DEF TelemetryInv
<1>3. sync \in Syncs /\ covered = NoRow /\ w.start <= instant /\ w \in Telemetry!Window
  BY <1>1, <1>2 DEF SyncInv, Syncs
<1>4. /\ \A e \in trace : e.kind # "call" /\ e.at > w.since => e.session \in DOMAIN new
      /\ \A s \in DOMAIN new :
            /\ new[s] \in Telemetry!Row
            /\ \E e \in trace : e.session = s
            /\ \A e \in trace : e.kind # "call" /\ e.at > w.since /\ e.session = s =>
                  /\ new[s].started <= e.at /\ e.at <= new[s].ended
                  /\ e.kind = "error" => new[s].outcome # "resolved"
            /\ new[s].outcome = "escalated" =>
                  \E x \in trace : x.kind = "error" /\ x.session = s /\ x.at > w.since
  BY <1>2, <1>3, FetchedFits
<1>5. sync' \in Syncs /\ sync'.stage = "events" /\ sync'.window = w
  BY <1>1, <1>3 DEF Syncs, Telemetry!Stages
<1> HIDE DEF new, w
<1>6. ASSUME NEW s \in Sessions, s \in DOMAIN new
      PROVE  /\ sessions'[s] \in Telemetry!Row /\ sessions'[s].outcome = new[s].outcome
             /\ sessions'[s].started <= new[s].started /\ new[s].ended <= sessions'[s].ended
  <2>1. sessions'[s] = Telemetry!UpsertSession(sessions[s], new[s])
    BY <1>1, <1>6
  <2>2. sessions[s] \in Telemetry!Row \cup {NoRow} /\ new[s] \in Telemetry!Row
    BY <1>2, <1>4, <1>6 DEF StoreInv
  <2> QED BY <2>1, <2>2, MergedFits
<1>7. \A s \in Sessions : s \notin DOMAIN new => sessions'[s] = sessions[s]
  BY <1>1
<1>8. StoreInv'
  <2>1. sessions' \in [Sessions -> Telemetry!Row \cup {NoRow}]
    <3>1. \A s \in Sessions : sessions'[s] \in Telemetry!Row \cup {NoRow}
      BY <1>2, <1>6, <1>7 DEF StoreInv
    <3>2. sessions' = [s \in Sessions |-> sessions'[s]]
      BY <1>1
    <3> QED BY <3>1, <3>2
  <2>2. ASSUME NEW s \in Sessions, sessions'[s] # NoRow PROVE \E e \in trace' : e.session = s
    BY <1>1, <1>2, <1>4, <1>7, <2>2 DEF StoreInv
  <2> QED BY <1>1, <1>2, <2>1, <2>2 DEF StoreInv
<1>9. ASSUME NEW e \in trace, e.kind # "call", e.at > w.since
      PROVE  /\ sessions'[e.session] # NoRow
             /\ sessions'[e.session].started <= e.at /\ e.at <= sessions'[e.session].ended
             /\ e.kind = "error" => sessions'[e.session].outcome # "resolved"
             /\ sessions'[e.session].outcome = "escalated" =>
                   \E x \in trace : x.kind = "error" /\ x.session = e.session /\ x.at > w.since
  <2> DEFINE s == e.session
  <2>1. s \in Sessions /\ e.at \in Nat
    BY <1>2 DEF TraceInv, Telemetry!Event
  <2>2. s \in DOMAIN new
    BY <1>4, <1>9
  <2>3. /\ new[s] \in Telemetry!Row
        /\ new[s].started <= e.at /\ e.at <= new[s].ended
        /\ e.kind = "error" => new[s].outcome # "resolved"
        /\ new[s].outcome = "escalated" =>
              \E x \in trace : x.kind = "error" /\ x.session = s /\ x.at > w.since
    BY <1>4, <1>9, <2>2
  <2>4. /\ sessions'[s] \in Telemetry!Row /\ sessions'[s].outcome = new[s].outcome
        /\ sessions'[s].started <= new[s].started /\ new[s].ended <= sessions'[s].ended
    BY <1>6, <2>1, <2>2
  <2> HIDE DEF s
  <2>5. /\ sessions'[s].started \in Nat /\ new[s].started \in Nat
        /\ sessions'[s].ended \in Nat /\ new[s].ended \in Nat
    BY <2>3, <2>4 DEF Telemetry!Row, TelemetryConstantsFit
  <2>6. sessions'[s].started <= e.at /\ e.at <= sessions'[s].ended
    BY <2>1, <2>3, <2>4, <2>5
  <2>7. sessions'[s] # NoRow
    BY <2>4 DEF TelemetryConstantsFit
  <2> QED BY <2>3, <2>4, <2>6, <2>7 DEF s
<1>10. SyncInv'
  <2>1. SessionsCover(sync.window)'
    BY <1>1, <1>5, <1>9 DEF SessionsCover, Inside
  <2> QED BY <1>1, <1>3, <1>5, <2>1 DEF SyncInv
<1>11. TraceInv' /\ HourlyInv' /\ CoveredInv'
  BY <1>1, <1>2, <1>3 DEF TraceInv, HourlyInv, CallsOf, CoveredInv
<1> QED BY <1>8, <1>10, <1>11 DEF TelemetryInv

LEMMA InsertEventsKeeps ==
    ASSUME TelemetryConstantsFit, TelemetryInv, Telemetry!InsertEvents
    PROVE  TelemetryInv'
<1>1. /\ sync # NoRow /\ sync.stage = "events"
      /\ sync' = [sync EXCEPT !.stage = "errors"]
      /\ UNCHANGED <<instant, trace, sessions, errs, hourly, covered, syncs>>
  BY DEF Telemetry!InsertEvents
<1>2. TraceInv /\ StoreInv /\ HourlyInv /\ SyncInv
  BY DEF TelemetryInv
<1>3. /\ sync \in Syncs /\ covered = NoRow /\ sync.window.start <= instant
      /\ SessionsCover(sync.window)
  BY <1>1, <1>2 DEF SyncInv
<1>4. sync' \in Syncs /\ sync'.stage = "errors" /\ sync'.window = sync.window
  BY <1>1, <1>3 DEF Syncs, Telemetry!Stages
<1>5. SyncInv'
  BY <1>1, <1>3, <1>4 DEF SyncInv, SessionsCover
<1>6. TraceInv' /\ StoreInv' /\ HourlyInv' /\ CoveredInv'
  BY <1>1, <1>2, <1>3 DEF TraceInv, StoreInv, HourlyInv, CallsOf, CoveredInv
<1> QED BY <1>5, <1>6 DEF TelemetryInv

LEMMA InsertErrorsKeeps ==
    ASSUME TelemetryConstantsFit, TelemetryInv, Telemetry!InsertErrors
    PROVE  TelemetryInv'
<1> DEFINE w == sync.window
           found == {[session |-> e.session, at |-> e.at] : e \in Telemetry!Fetch("error", w)}
<1>1. /\ sync # NoRow /\ sync.stage = "errors"
      /\ errs' = errs \cup found
      /\ sync' = [sync EXCEPT !.stage = "tools"]
      /\ UNCHANGED <<instant, trace, sessions, hourly, covered, syncs>>
  BY DEF Telemetry!InsertErrors
<1>2. TraceInv /\ StoreInv /\ HourlyInv /\ SyncInv
  BY DEF TelemetryInv
<1>3. sync \in Syncs /\ covered = NoRow /\ w.start <= instant /\ SessionsCover(w)
  BY <1>1, <1>2 DEF SyncInv
<1>4. sync' \in Syncs /\ sync'.stage = "tools" /\ sync'.window = w
  BY <1>1, <1>3 DEF Syncs, Telemetry!Stages
<1>5. /\ \A x \in found : \E e \in trace : x = [session |-> e.session, at |-> e.at]
      /\ \A e \in trace : e.kind = "error" /\ e.at > w.since =>
             [session |-> e.session, at |-> e.at] \in found
  BY DEF Telemetry!Fetch
<1> HIDE DEF w, found
<1>6. StoreInv'
  BY <1>1, <1>2, <1>5 DEF StoreInv
<1>7. ASSUME NEW e \in trace, e.kind # "call", Inside(e, w)
      PROVE  /\ e.kind = "error" => [session |-> e.session, at |-> e.at] \in errs'
             /\ sessions[e.session].outcome = "escalated" =>
                    \E x \in errs' : x.session = e.session
  <2>1. e.at > w.since
    BY <1>7 DEF Inside
  <2>2. ASSUME sessions[e.session].outcome = "escalated"
        PROVE  \E x \in errs' : x.session = e.session
    <3>1. PICK x \in trace : x.kind = "error" /\ x.session = e.session /\ x.at > w.since
      BY <1>3, <1>7, <2>2 DEF SessionsCover
    <3> DEFINE row == [session |-> x.session, at |-> x.at]
    <3>2. row \in errs' /\ row.session = e.session
      BY <1>1, <1>5, <3>1
    <3> QED BY <3>2
  <2> QED BY <1>1, <1>5, <2>1, <2>2
<1>8. SyncInv'
  <2>1. SessionsCover(sync.window)'
    BY <1>1, <1>3, <1>4 DEF SessionsCover
  <2>2. ErrorsCover(sync.window)'
    BY <1>1, <1>4, <1>7 DEF ErrorsCover
  <2> QED BY <1>1, <1>3, <1>4, <2>1, <2>2 DEF SyncInv
<1>9. TraceInv' /\ HourlyInv' /\ CoveredInv'
  BY <1>1, <1>2, <1>3 DEF TraceInv, HourlyInv, CallsOf, CoveredInv
<1> QED BY <1>6, <1>8, <1>9 DEF TelemetryInv

\* The calls of an agent and an hour that a run counts; past the hour that its
\* window cuts they are all.
Counted(w, a, h) ==
    {e \in Telemetry!Fetch("call", w) : AgentOf[e.session] = a /\ Telemetry!Hour(e.at) = h}

LEMMA CountedFits ==
    ASSUME TraceInv, NEW w \in Telemetry!Window, NEW a, NEW h \in Telemetry!Hours
    PROVE  /\ IsFiniteSet(Counted(w, a, h)) /\ Cardinality(Counted(w, a, h)) \in Nat
           /\ Counted(w, a, h) \subseteq CallsOf(a, h)
           /\ Cardinality(Counted(w, a, h)) <= Cardinality(CallsOf(a, h))
           /\ 2 * h > w.since => Counted(w, a, h) = CallsOf(a, h)
<1>1. Counted(w, a, h) \subseteq CallsOf(a, h)
  BY DEF Counted, CallsOf, Telemetry!Fetch
<1>2. IsFiniteSet(CallsOf(a, h))
  BY CallsAreFinite
<1>3. IsFiniteSet(Counted(w, a, h)) /\ Cardinality(Counted(w, a, h)) <= Cardinality(CallsOf(a, h))
  BY <1>1, <1>2, FS_Subset
<1>4. Cardinality(Counted(w, a, h)) \in Nat
  BY <1>3, FS_CardinalityType
<1>5. ASSUME 2 * h > w.since PROVE Counted(w, a, h) = CallsOf(a, h)
  <2>1. ASSUME NEW e \in CallsOf(a, h) PROVE e.at > w.since
    <3>1. e.at \in Nat /\ h = e.at \div 2
      BY DEF CallsOf, TraceInv, Telemetry!Event, Telemetry!Hour
    <3>2. w.since \in Int /\ h \in Nat
      BY DEF Telemetry!Window, Telemetry!Hours
    <3>3. 2 * h <= e.at
      BY <3>1
    <3> QED BY <1>5, <3>1, <3>2, <3>3
  <2> QED BY <1>1, <2>1 DEF Counted, CallsOf, Telemetry!Fetch
<1> QED BY <1>1, <1>3, <1>4, <1>5

LEMMA ToolsKeeps ==
    ASSUME TelemetryConstantsFit, TelemetryInv, Telemetry!UpsertToolsHourly
    PROVE  TelemetryInv'
<1> DEFINE w == sync.window
<1>1. /\ sync # NoRow /\ sync.stage = "tools" /\ sync' = NoRow /\ covered' = w
      /\ UNCHANGED <<instant, trace, sessions, errs, syncs>>
  BY DEF Telemetry!UpsertToolsHourly
<1>2. hourly' = [a \in Agents |-> [h \in Telemetry!Hours |->
          IF Counted(w, a, h) # {} THEN Cardinality(Counted(w, a, h)) ELSE hourly[a][h]]]
  BY DEF Telemetry!UpsertToolsHourly, Counted, Telemetry!Cardinality, Cardinality
<1>3. TraceInv /\ StoreInv /\ HourlyInv /\ SyncInv
  BY DEF TelemetryInv
<1>4. /\ sync \in Syncs /\ w \in Telemetry!Window /\ w.start <= instant
      /\ SessionsCover(w) /\ ErrorsCover(w)
  BY <1>1, <1>3 DEF SyncInv, Syncs
<1> HIDE DEF w
<1>5. ASSUME NEW a \in Agents, NEW h \in Telemetry!Hours
      PROVE  /\ hourly'[a][h] \in 0..MaxEvents
             /\ hourly'[a][h] <= Cardinality(CallsOf(a, h))
             /\ 2 * h > w.since => hourly'[a][h] = Cardinality(CallsOf(a, h))
  <2> DEFINE n == Cardinality(Counted(w, a, h))
             all == Cardinality(CallsOf(a, h))
  <2>1. hourly'[a][h] = IF Counted(w, a, h) # {} THEN n ELSE hourly[a][h]
    BY <1>2
  <2>2. n \in Nat /\ n <= all /\ (2 * h > w.since => Counted(w, a, h) = CallsOf(a, h))
    BY <1>3, <1>4, CountedFits
  <2>3. all \in Nat /\ all <= MaxEvents
    <3>1. all \in Nat /\ all <= Cardinality(trace) /\ Cardinality(trace) \in Nat
      BY <1>3, CallsAreFinite
    <3> HIDE DEF all
    <3> QED BY <1>3, <3>1 DEF TraceInv, TelemetryConstantsFit
  <2>4. hourly[a][h] \in 0..MaxEvents /\ hourly[a][h] <= all
    BY <1>3 DEF HourlyInv
  <2>5. CallsOf(a, h) = {} => all = 0
    BY FS_EmptySet
  <2>6. Counted(w, a, h) = CallsOf(a, h) => n = all
    OBVIOUS
  <2> HIDE DEF n, all
  <2>7. CASE Counted(w, a, h) # {}
    <3>1. n \in 0..MaxEvents
      BY <2>2, <2>3 DEF TelemetryConstantsFit
    <3> QED BY <2>1, <2>2, <2>6, <2>7, <3>1 DEF all
  <2>8. CASE Counted(w, a, h) = {}
    <3>1. hourly'[a][h] = hourly[a][h]
      BY <2>1, <2>8
    <3>2. 2 * h > w.since => all = 0
      BY <2>2, <2>5, <2>8
    <3> QED BY <2>3, <2>4, <3>1, <3>2 DEF all
  <2> QED BY <2>7, <2>8 DEF all
<1>6. HourlyInv'
  <2>1. hourly' \in [Agents -> [Telemetry!Hours -> 0..MaxEvents]]
    <3> DEFINE row(a) == [h \in Telemetry!Hours |-> IF Counted(w, a, h) # {}
                             THEN Cardinality(Counted(w, a, h)) ELSE hourly[a][h]]
    <3>1. ASSUME NEW a \in Agents PROVE row(a) \in [Telemetry!Hours -> 0..MaxEvents]
      <4>1. hourly'[a] = row(a)
        BY <1>2
      <4>2. \A h \in Telemetry!Hours : row(a)[h] \in 0..MaxEvents
        BY <1>5, <4>1
      <4> QED BY <4>2
    <3>2. hourly' = [a \in Agents |-> row(a)]
      BY <1>2
    <3> HIDE DEF row
    <3> QED BY <3>1, <3>2
  <2>2. \A a \in Agents, h \in Telemetry!Hours : hourly'[a][h] <= Cardinality(CallsOf(a, h)')
    BY <1>1, <1>5 DEF CallsOf
  <2> QED BY <2>1, <2>2 DEF HourlyInv
<1>7. CoveredInv'
  <2>1. SessionsCover(covered)'
    BY <1>1, <1>4 DEF SessionsCover
  <2>2. ErrorsCover(covered)'
    BY <1>1, <1>4 DEF ErrorsCover
  <2>3. HoursExact(covered)'
    BY <1>1, <1>5 DEF HoursExact, CallsOf
  <2> QED BY <1>1, <1>4, <2>1, <2>2, <2>3 DEF CoveredInv
<1>8. TraceInv' /\ StoreInv' /\ SyncInv'
  BY <1>1, <1>3 DEF TraceInv, StoreInv, SyncInv
<1> QED BY <1>6, <1>7, <1>8 DEF TelemetryInv

LEMMA TelemetryStandsStill ==
    ASSUME TelemetryInv, UNCHANGED <<instant, trace, sessions, errs, hourly, covered, syncs>>,
           sync' = sync \/ sync' = NoRow
    PROVE  TelemetryInv'
<1>1. TraceInv' /\ StoreInv' /\ HourlyInv'
  BY DEF TelemetryInv, TraceInv, StoreInv, HourlyInv, CallsOf
<1>2. SyncInv'
  BY DEF TelemetryInv, SyncInv, SessionsCover, ErrorsCover
<1>3. CoveredInv'
  BY DEF TelemetryInv, CoveredInv, SessionsCover, ErrorsCover, HoursExact, CallsOf
<1> QED BY <1>1, <1>2, <1>3 DEF TelemetryInv

LEMMA TelemetryInvNext ==
    ASSUME TelemetryConstantsFit, TelemetryInv, [Telemetry!Next]_(Telemetry!telemetryVars)
    PROVE  TelemetryInv'
<1>1. ASSUME NEW s \in Sessions, NEW k \in Telemetry!Kinds, Telemetry!Happen(s, k)
      PROVE  TelemetryInv'
  BY <1>1, HappenKeeps
<1>2. CASE Telemetry!Tick
  BY <1>2, TickKeeps
<1>3. CASE Telemetry!RunCopilotTelemetry
  BY <1>3, TelemetryRunKeeps
<1>4. CASE Telemetry!UpsertSessions
  BY <1>4, UpsertSessionsKeeps
<1>5. CASE Telemetry!InsertEvents
  BY <1>5, InsertEventsKeeps
<1>6. CASE Telemetry!InsertErrors
  BY <1>6, InsertErrorsKeeps
<1>7. CASE Telemetry!UpsertToolsHourly
  BY <1>7, ToolsKeeps
<1>8. CASE Telemetry!QueryFails
  BY <1>8, TelemetryStandsStill DEF Telemetry!QueryFails
<1>9. CASE UNCHANGED Telemetry!telemetryVars
  BY <1>9, TelemetryStandsStill DEF Telemetry!telemetryVars
<1> QED BY <1>1, <1>2, <1>3, <1>4, <1>5, <1>6, <1>7, <1>8, <1>9 DEF Telemetry!Next

(***************************************************************************)
(* The telemetry: what the invariant gives                                 *)
(***************************************************************************)

LEMMA TelemetryInvTypes ==
    ASSUME TelemetryConstantsFit, TelemetryInv
    PROVE  Telemetry!TypeOK
<1>1. errs \subseteq [session : Sessions, at : 0..MaxTime]
  BY DEF TelemetryInv, StoreInv, TraceInv, Telemetry!Event
<1>2. sync = NoRow \/ sync \in [window : Telemetry!Window, stage : Telemetry!Stages]
  BY DEF TelemetryInv, SyncInv, Syncs
<1>3. covered \in Telemetry!Window \cup {NoRow}
  BY DEF TelemetryInv, CoveredInv
<1> QED BY <1>1, <1>2, <1>3 DEF TelemetryInv, TraceInv, StoreInv, HourlyInv, Telemetry!TypeOK

LEMMA TelemetryInvFigures ==
    ASSUME TelemetryConstantsFit, TelemetryInv
    PROVE  Telemetry!FiguresAddUp
<1>1. TraceInv /\ StoreInv
  BY DEF TelemetryInv
<1>2. IsFiniteSet({s \in Sessions : sessions[s] # NoRow})
  <2> DEFINE of == [e \in trace |-> e.session]
  <2>1. IsFiniteSet({of[e] : e \in trace})
    BY <1>1, ImageIsFinite DEF TraceInv
  <2>2. {s \in Sessions : sessions[s] # NoRow} \subseteq {of[e] : e \in trace}
    BY <1>1 DEF StoreInv
  <2> QED BY <2>1, <2>2, FS_Subset
<1>3. IsFiniteSet(errs)
  <2> DEFINE of == [e \in trace |-> [session |-> e.session, at |-> e.at]]
  <2>1. IsFiniteSet({of[e] : e \in trace})
    BY <1>1, ImageIsFinite DEF TraceInv
  <2>2. errs \subseteq {of[e] : e \in trace}
    BY <1>1 DEF StoreInv
  <2> QED BY <2>1, <2>2, FS_Subset
<1>4. errs \subseteq [session : Sessions, at : 0..MaxTime]
  BY <1>1 DEF StoreInv, TraceInv, Telemetry!Event
<1>5. StoreFits
  BY <1>1, <1>2, <1>3, <1>4 DEF StoreFits, StoreInv
<1> QED BY <1>5, FiguresHold DEF TelemetryConstantsFit

LEMMA TelemetryInvCovers ==
    ASSUME TelemetryConstantsFit, TelemetryInv
    PROVE  Telemetry!CompletedRunCoversItsWindow /\ Telemetry!EscalationsHaveReasons
<1>1. TraceInv /\ StoreInv /\ CoveredInv
  BY DEF TelemetryInv
<1>2. Telemetry!CompletedRunCoversItsWindow
  <2> SUFFICES ASSUME covered # NoRow
               PROVE  LET seen == {e \in trace : e.at > covered.since /\ e.at < covered.start} IN
                      /\ \A e \in seen :
                            e.kind # "call" =>
                                /\ sessions[e.session] # NoRow
                                /\ e.at \in sessions[e.session].started..sessions[e.session].ended
                      /\ \A e \in seen :
                            e.kind = "error" =>
                                /\ [session |-> e.session, at |-> e.at] \in errs
                                /\ sessions[e.session].outcome # "resolved"
                      /\ \A a \in Agents, h \in Telemetry!Hours :
                            2 * h > covered.since /\ 2 * h + 1 < covered.start =>
                                hourly[a][h] = Telemetry!Cardinality({e \in trace :
                                    e.kind = "call" /\ AgentOf[e.session] = a
                                    /\ Telemetry!Hour(e.at) = h})
    BY DEF Telemetry!CompletedRunCoversItsWindow
  <2>1. SessionsCover(covered) /\ ErrorsCover(covered) /\ HoursExact(covered)
    BY <1>1 DEF CoveredInv
  <2>2. ASSUME NEW e \in trace, Inside(e, covered), e.kind # "call"
        PROVE  /\ sessions[e.session] # NoRow
               /\ e.at \in sessions[e.session].started..sessions[e.session].ended
               /\ e.kind = "error" =>
                     /\ [session |-> e.session, at |-> e.at] \in errs
                     /\ sessions[e.session].outcome # "resolved"
    <3>1. /\ sessions[e.session] # NoRow
          /\ sessions[e.session].started <= e.at /\ e.at <= sessions[e.session].ended
          /\ e.kind = "error" => sessions[e.session].outcome # "resolved"
      BY <2>1, <2>2 DEF SessionsCover
    <3>2. e.kind = "error" => [session |-> e.session, at |-> e.at] \in errs
      BY <2>1, <2>2 DEF ErrorsCover
    <3>3. e.session \in Sessions /\ e.at \in 0..MaxTime
      BY <1>1 DEF TraceInv, Telemetry!Event
    <3>4. sessions[e.session] \in Telemetry!Row
      BY <1>1, <3>1, <3>3 DEF StoreInv
    <3>5. sessions[e.session].started \in 0..MaxTime /\ sessions[e.session].ended \in 0..MaxTime
      BY <3>4 DEF Telemetry!Row
    <3>6. e.at \in sessions[e.session].started..sessions[e.session].ended
      BY <3>1, <3>3, <3>5 DEF TelemetryConstantsFit
    <3> QED BY <3>1, <3>2, <3>6
  <2>3. ASSUME NEW a \in Agents, NEW h \in Telemetry!Hours,
               2 * h > covered.since, 2 * h + 1 < covered.start
        PROVE  hourly[a][h] = Telemetry!Cardinality({e \in trace :
                   e.kind = "call" /\ AgentOf[e.session] = a /\ Telemetry!Hour(e.at) = h})
    <3>1. hourly[a][h] = Cardinality(CallsOf(a, h))
      BY <2>1, <2>3 DEF HoursExact
    <3> QED BY <3>1 DEF CallsOf, Telemetry!Cardinality, Cardinality
  <2>4. \A e \in trace : e.kind = "error" => e.kind # "call"
    OBVIOUS
  <2> QED BY <2>2, <2>3, <2>4 DEF Inside
<1>3. Telemetry!EscalationsHaveReasons
  <2> SUFFICES ASSUME covered # NoRow, NEW f \in Telemetry!Filters,
                      NEW s \in DOMAIN Telemetry!EscalatedSessions(f),
                      NEW e \in trace, e.session = s, e.kind # "call",
                      e.at > covered.since, e.at < covered.start
               PROVE  Telemetry!EscalatedSessions(f)[s] # "Unknown"
    BY DEF Telemetry!EscalationsHaveReasons
  <2>1. sessions[s].outcome = "escalated"
    BY DEF Telemetry!EscalatedSessions, Telemetry!WithOutcome
  <2>2. \E x \in errs : x.session = s
    BY <1>1, <2>1 DEF CoveredInv, ErrorsCover, Inside
  <2> QED BY <2>2 DEF Telemetry!EscalatedSessions
<1> QED BY <1>2, <1>3

LEMMA TelemetryInvShrinks ==
    ASSUME TelemetryConstantsFit, TelemetryInv, [Telemetry!Next]_(Telemetry!telemetryVars)
    PROVE  Telemetry!CutHourShrinks
<1> SUFFICES ASSUME NEW a \in Agents, NEW h \in Telemetry!Hours, hourly'[a][h] < hourly[a][h]
             PROVE  2 * h <= sync.window.since
  BY DEF Telemetry!CutHourShrinks
<1>1. TraceInv /\ HourlyInv /\ SyncInv
  BY DEF TelemetryInv
<1>2. hourly[a][h] \in Nat
  BY <1>1 DEF HourlyInv, TelemetryConstantsFit
<1>3. Telemetry!UpsertToolsHourly
  <2>1. hourly' # hourly
    BY <1>2
  <2> QED BY <2>1
      DEF Telemetry!Next, Telemetry!telemetryVars, Telemetry!Happen, Telemetry!Tick,
          Telemetry!RunCopilotTelemetry, Telemetry!UpsertSessions, Telemetry!InsertEvents,
          Telemetry!InsertErrors, Telemetry!QueryFails
<1> DEFINE w == sync.window
<1>4. w \in Telemetry!Window
  BY <1>1, <1>3 DEF SyncInv, Syncs, Telemetry!UpsertToolsHourly
<1>5. hourly'[a][h]
          = IF Counted(w, a, h) # {} THEN Cardinality(Counted(w, a, h)) ELSE hourly[a][h]
  BY <1>3 DEF Telemetry!UpsertToolsHourly, Counted, Telemetry!Cardinality, Cardinality
<1>6. w.since \in Int /\ h \in Nat
  BY <1>4 DEF Telemetry!Window, Telemetry!Hours
<1> HIDE DEF w
<1>7. ASSUME 2 * h > w.since PROVE FALSE
  <2>1. Counted(w, a, h) = CallsOf(a, h) /\ Cardinality(Counted(w, a, h)) \in Nat
    BY <1>1, <1>4, <1>7, CountedFits
  <2>2. hourly[a][h] <= Cardinality(CallsOf(a, h))
    BY <1>1 DEF HourlyInv
  <2> QED BY <1>2, <1>5, <2>1, <2>2
<1> QED BY <1>6, <1>7 DEF w

(***************************************************************************)
(* The order of the listings                                               *)
(***************************************************************************)

LogsConstantsFit ==
    /\ MaxRows \in Nat /\ MaxMicro \in Nat /\ MaxVisits \in Nat
    /\ SmallestSize \in Nat \ {0} /\ LargestSize \in Nat \ {0}
    /\ LastPage \in Nat \ {0} /\ BatchSize \in Nat \ {0}
    /\ DefaultSize \in SmallestSize..LargestSize
    /\ NotRead \notin Nat /\ NotRead \notin SUBSET Logs!Row

LEMMA RowFields ==
    ASSUME LogsConstantsFit, NEW r \in Logs!Row
    PROVE  /\ r.id \in Nat /\ r.at \in Nat /\ r.at \in 0..MaxMicro /\ r.id \in 1..MaxRows
           /\ r = [id |-> r.id, at |-> r.at]
BY DEF Logs!Row, LogsConstantsFit

\* Newer is a strict total order of the rows.
LEMMA NewerOrders ==
    ASSUME LogsConstantsFit
    PROVE  /\ \A r, s \in Logs!Row : r # s => Logs!Newer(r, s) \/ Logs!Newer(s, r)
           /\ \A r, s \in Logs!Row : Logs!Newer(r, s) => ~Logs!Newer(s, r) /\ r # s
           /\ \A r, s, t \in Logs!Row : Logs!Newer(r, s) /\ Logs!Newer(s, t) => Logs!Newer(r, t)
<1>1. ASSUME NEW r \in Logs!Row, NEW s \in Logs!Row, r # s
      PROVE  Logs!Newer(r, s) \/ Logs!Newer(s, r)
  <2>1. r.id # s.id \/ r.at # s.at
    BY <1>1, RowFields
  <2> QED BY <2>1, RowFields DEF Logs!Newer
<1>2. ASSUME NEW r \in Logs!Row, NEW s \in Logs!Row, Logs!Newer(r, s)
      PROVE  ~Logs!Newer(s, r) /\ r # s
  BY <1>2, RowFields DEF Logs!Newer
<1>3. ASSUME NEW r \in Logs!Row, NEW s \in Logs!Row, NEW t \in Logs!Row,
             Logs!Newer(r, s), Logs!Newer(s, t)
      PROVE  Logs!Newer(r, t)
  BY <1>3, RowFields DEF Logs!Newer
<1> QED BY <1>1, <1>2, <1>3

\* How many rows stand before one.
Before(r, rows) == Cardinality({s \in rows : Logs!Newer(s, r)})

LEMMA BeforeFits ==
    ASSUME LogsConstantsFit, NEW rows \in SUBSET Logs!Row, IsFiniteSet(rows)
    PROVE  /\ Cardinality(rows) \in Nat
           /\ \A r \in Logs!Row : Before(r, rows) \in Nat
           /\ \A r \in rows : Before(r, rows) < Cardinality(rows)
           /\ \A r, s \in rows : Logs!Newer(r, s) => Before(r, rows) < Before(s, rows)
<1>1. ASSUME NEW T \in SUBSET rows PROVE IsFiniteSet(T) /\ Cardinality(T) \in Nat
  <2>1. IsFiniteSet(T)
    BY FS_Subset
  <2> QED BY <2>1, FS_CardinalityType
<1>2. ASSUME NEW S \in SUBSET rows, NEW T \in SUBSET rows, NEW r, r \in T, r \notin S,
             S \subseteq T
      PROVE  Cardinality(S) < Cardinality(T)
  <2>1. IsFiniteSet(S) /\ IsFiniteSet(T) /\ Cardinality(S) \in Nat /\ Cardinality(T) \in Nat
    BY <1>1
  <2>2. Cardinality(S) <= Cardinality(T) /\ (Cardinality(T) = Cardinality(S) => T = S)
    BY <1>2, <2>1, FS_Subset
  <2> QED BY <1>2, <2>1, <2>2
<1>3. ASSUME NEW r \in Logs!Row PROVE Before(r, rows) \in Nat
  BY <1>1 DEF Before
<1>4. ASSUME NEW r \in rows PROVE Before(r, rows) < Cardinality(rows)
  <2> DEFINE S == {s \in rows : Logs!Newer(s, r)}
  <2>1. S \in SUBSET rows /\ r \notin S
    BY NewerOrders
  <2> HIDE DEF S
  <2>2. Cardinality(S) < Cardinality(rows)
    BY <1>2, <2>1
  <2> QED BY <2>2 DEF Before, S
<1>5. ASSUME NEW r \in rows, NEW s \in rows, Logs!Newer(r, s)
      PROVE  Before(r, rows) < Before(s, rows)
  <2> DEFINE S == {t \in rows : Logs!Newer(t, r)}
             T == {t \in rows : Logs!Newer(t, s)}
  <2>1. S \in SUBSET rows /\ T \in SUBSET rows /\ r \in T /\ r \notin S /\ S \subseteq T
    BY <1>5, NewerOrders
  <2> HIDE DEF S, T
  <2>2. Cardinality(S) < Cardinality(T)
    BY <1>2, <2>1
  <2> QED BY <2>2 DEF Before, S, T
<1> QED BY <1>1, <1>3, <1>4, <1>5

\* More rows never bring one nearer to the front.
LEMMA BeforeGrows ==
    ASSUME NEW rows, NEW more, IsFiniteSet(more), rows \subseteq more, NEW r
    PROVE  Before(r, rows) <= Before(r, more)
<1> DEFINE S == {s \in rows : Logs!Newer(s, r)}
           T == {s \in more : Logs!Newer(s, r)}
<1>1. S \subseteq T /\ T \subseteq more
  OBVIOUS
<1> HIDE DEF S, T
<1>2. IsFiniteSet(T)
  BY <1>1, FS_Subset
<1>3. Cardinality(S) <= Cardinality(T)
  BY <1>1, <1>2, FS_Subset
<1> QED BY <1>3 DEF Before, S, T

\* The rows that stand behind as many others as there are, but k, are at most so many.
LEMMA FewStandBehind ==
    ASSUME LogsConstantsFit, NEW rows \in SUBSET Logs!Row, IsFiniteSet(rows), NEW k \in Nat,
           NEW T \in SUBSET rows, \A r \in T : Before(r, rows) >= k
    PROVE  /\ IsFiniteSet(T) /\ Cardinality(T) \in Nat
           /\ k <= Cardinality(rows) => Cardinality(T) <= Cardinality(rows) - k
           /\ k >= Cardinality(rows) => T = {}
<1> DEFINE n == Cardinality(rows)
           at == [r \in T |-> Before(r, rows)]
<1>1. IsFiniteSet(T)
  BY FS_Subset
<1>2. /\ n \in Nat /\ \A r \in T : Before(r, rows) \in Nat /\ Before(r, rows) < n
      /\ \A r, s \in T : Logs!Newer(r, s) => Before(r, rows) < Before(s, rows)
  BY BeforeFits
<1> HIDE DEF n
<1>3. at \in Injection(T, k..(n - 1))
  <2>1. at \in [T -> k..(n - 1)]
    BY <1>2
  <2>2. ASSUME NEW r \in T, NEW s \in T, at[r] = at[s] PROVE r = s
    <3>1. Before(r, rows) = Before(s, rows)
      BY <2>2
    <3>2. ~Logs!Newer(r, s) /\ ~Logs!Newer(s, r)
      BY <1>2, <3>1
    <3> QED BY <3>2, NewerOrders
  <2> HIDE DEF at
  <2> QED BY <2>1, <2>2 DEF Injection, IsInjective
<1> HIDE DEF at
<1>4. /\ IsFiniteSet(k..(n - 1))
      /\ Cardinality(k..(n - 1)) = IF k > n - 1 THEN 0 ELSE n - 1 - k + 1
  BY <1>2, FS_Interval
<1>5. Cardinality(T) <= Cardinality(k..(n - 1))
  BY <1>3, <1>4, FS_Injection
<1>6. Cardinality(T) \in Nat
  BY <1>1, FS_CardinalityType
<1>7. k <= n => Cardinality(T) <= n - k
  BY <1>2, <1>4, <1>5, <1>6
<1>8. k >= n => T = {}
  BY <1>2
<1> QED BY <1>1, <1>6, <1>7, <1>8 DEF n

\* A listing in order.
Sorted(s, rows) ==
    /\ s \in [1..Cardinality(rows) -> rows]
    /\ \A i, j \in 1..Cardinality(rows) : i < j => Logs!Newer(s[i], s[j])

LEMMA OrderedIsSorted ==
    ASSUME LogsConstantsFit, NEW rows \in SUBSET Logs!Row, IsFiniteSet(rows)
    PROVE  Sorted(Logs!Ordered(rows), rows)
<1> DEFINE n == Cardinality(rows)
           at == [r \in rows |-> Before(r, rows) + 1]
<1>1. /\ n \in Nat /\ \A r \in rows : Before(r, rows) \in Nat /\ Before(r, rows) < n
      /\ \A r, s \in rows : Logs!Newer(r, s) => Before(r, rows) < Before(s, rows)
  BY BeforeFits
<1> HIDE DEF n
<1>2. at \in Injection(rows, 1..n)
  <2>1. at \in [rows -> 1..n]
    BY <1>1
  <2>2. ASSUME NEW r \in rows, NEW s \in rows, at[r] = at[s] PROVE r = s
    <3>1. Before(r, rows) = Before(s, rows)
      BY <1>1, <2>2
    <3>2. ~Logs!Newer(r, s) /\ ~Logs!Newer(s, r)
      BY <1>1, <3>1
    <3> QED BY <3>2, NewerOrders
  <2> HIDE DEF at
  <2> QED BY <2>1, <2>2 DEF Injection, IsInjective
<1>3. IsFiniteSet(1..n) /\ Cardinality(1..n) = n
  <2>1. IsFiniteSet(1..n) /\ Cardinality(1..n) = IF 1 > n THEN 0 ELSE n - 1 + 1
    BY <1>1, FS_Interval
  <2> QED BY <1>1, <2>1
<1>4. \A r \in rows : at[r] = Before(r, rows) + 1
  OBVIOUS
<1> HIDE DEF at
<1>5. at \in Surjection(rows, 1..n)
  BY <1>2, <1>3, FS_Injection DEF n
<1>6. \A i \in 1..n : \E r \in rows : at[r] = i
  BY <1>5 DEF Surjection
<1> DEFINE s == [i \in 1..n |-> CHOOSE r \in rows : at[r] = i]
<1>7. \A i \in 1..n : s[i] \in rows /\ at[s[i]] = i
  BY <1>6
<1>8. s \in [1..n -> rows]
  BY <1>7
<1> HIDE DEF s
<1>9. \A i, j \in DOMAIN s : i < j => Logs!Newer(s[i], s[j])
  <2> SUFFICES ASSUME NEW i \in 1..n, NEW j \in 1..n, i < j PROVE Logs!Newer(s[i], s[j])
    BY <1>8
  <2>1. Before(s[i], rows) < Before(s[j], rows)
    BY <1>1, <1>4, <1>7
  <2>2. ~Logs!Newer(s[j], s[i]) /\ s[i] # s[j]
    BY <1>1, <1>7, <2>1
  <2> QED BY <1>7, <2>2, NewerOrders
<1> DEFINE o == Logs!Ordered(rows)
<1>10. o \in [1..n -> rows] /\ \A i, j \in DOMAIN o : i < j => Logs!Newer(o[i], o[j])
  BY <1>8, <1>9 DEF Logs!Ordered, n, Logs!Cardinality, Cardinality
<1> HIDE DEF o
<1> QED BY <1>10 DEF Sorted, n, o

LEMMA SortedPlaces ==
    ASSUME LogsConstantsFit, NEW rows \in SUBSET Logs!Row, IsFiniteSet(rows),
           NEW s, Sorted(s, rows)
    PROVE  /\ \A i \in 1..Cardinality(rows) : Before(s[i], rows) = i - 1
           /\ \A r \in rows : \E i \in 1..Cardinality(rows) : r = s[i]
<1> DEFINE n == Cardinality(rows)
<1>1. n \in Nat
  BY BeforeFits
<1>2. s \in [1..n -> rows] /\ \A i, j \in 1..n : i < j => Logs!Newer(s[i], s[j])
  BY DEF Sorted
<1>3. IsFiniteSet(1..n) /\ Cardinality(1..n) = n
  <2> HIDE DEF n
  <2>1. IsFiniteSet(1..n) /\ Cardinality(1..n) = IF 1 > n THEN 0 ELSE n - 1 + 1
    BY <1>1, FS_Interval
  <2> QED BY <1>1, <2>1
<1>4. \A i, j \in 1..n : s[i] = s[j] => i = j
  <2> SUFFICES ASSUME NEW i \in 1..n, NEW j \in 1..n, i < j PROVE s[i] # s[j]
    BY <1>1
  <2> QED BY <1>2, NewerOrders
<1>5. s \in Surjection(1..n, rows)
  <2>1. s \in Injection(1..n, rows)
    BY <1>2, <1>4 DEF Injection, IsInjective
  <2> QED BY <1>3, <2>1, FS_Injection
<1>6. \A r \in rows : \E i \in 1..n : r = s[i]
  BY <1>5 DEF Surjection
<1>7. ASSUME NEW i \in 1..n PROVE Before(s[i], rows) = i - 1
  <2> DEFINE T == {r \in rows : Logs!Newer(r, s[i])}
             first == [j \in 1..(i - 1) |-> s[j]]
  <2> HIDE DEF n
  <2>1. T = {s[j] : j \in 1..(i - 1)}
    <3>1. ASSUME NEW r \in T PROVE \E j \in 1..(i - 1) : r = s[j]
      <4>1. PICK j \in 1..n : r = s[j]
        BY <1>6
      <4>2. Logs!Newer(s[j], s[i]) /\ s[i] \in Logs!Row /\ s[j] \in Logs!Row
        BY <1>2, <4>1
      <4>3. ~(i < j) /\ i # j
        BY <1>2, <4>2, NewerOrders
      <4>4. j \in 1..(i - 1)
        BY <1>1, <4>3
      <4> QED BY <4>1, <4>4
    <3>2. ASSUME NEW j \in 1..(i - 1) PROVE s[j] \in T
      <4>1. j \in 1..n /\ j < i
        BY <1>1
      <4> QED BY <1>2, <4>1
    <3> QED BY <3>1, <3>2
  <2>2. \A j \in 1..(i - 1) : j \in 1..n
    BY <1>1
  <2>3. first \in Bijection(1..(i - 1), T)
    <3>1. first \in [1..(i - 1) -> T]
      BY <2>1
    <3>2. \A j, k \in 1..(i - 1) : first[j] = first[k] => j = k
      BY <1>4, <2>2
    <3>3. \A r \in T : \E j \in 1..(i - 1) : first[j] = r
      BY <2>1
    <3> HIDE DEF first, T
    <3> QED BY <3>1, <3>2, <3>3 DEF Bijection, Injection, IsInjective, Surjection
  <2>4. ExistsBijection(1..(i - 1), T) /\ i - 1 \in Nat
    <3> HIDE DEF first, T
    <3> QED BY <1>1, <2>3 DEF ExistsBijection
  <2> HIDE DEF T
  <2>5. Cardinality(T) = i - 1
    BY <2>4, FS_CountingElements
  <2> QED BY <2>5 DEF Before, T
<1> QED BY <1>6, <1>7

(***************************************************************************)
(* Pages and the pager                                                     *)
(***************************************************************************)

LEMMA LogPairs ==
    ASSUME NEW a \in Int, NEW b \in Int
    PROVE  /\ Logs!Min({a, b}) = IF a <= b THEN a ELSE b
           /\ Logs!Max({a, b}) = IF a <= b THEN b ELSE a
<1>1. Logs!Min({a, b}) = IF a <= b THEN a ELSE b
  <2> DEFINE m == IF a <= b THEN a ELSE b
  <2>1. m \in {a, b} /\ \A y \in {a, b} : m <= y
    OBVIOUS
  <2>2. \A n \in {a, b} : (\A y \in {a, b} : n <= y) => n = m
    OBVIOUS
  <2> HIDE DEF m
  <2>3. Logs!Min({a, b}) = m
    BY <2>1, <2>2 DEF Logs!Min
  <2> QED BY <2>3 DEF m
<1>2. Logs!Max({a, b}) = IF a <= b THEN b ELSE a
  <2> DEFINE m == IF a <= b THEN b ELSE a
  <2>1. m \in {a, b} /\ \A y \in {a, b} : m >= y
    OBVIOUS
  <2>2. \A n \in {a, b} : (\A y \in {a, b} : n >= y) => n = m
    OBVIOUS
  <2> HIDE DEF m
  <2>3. Logs!Max({a, b}) = m
    BY <2>1, <2>2 DEF Logs!Max
  <2> QED BY <2>3 DEF m
<1> QED BY <1>1, <1>2

LEMMA ParamFits ==
    ASSUME NEW raw, NEW fallback \in Int, NEW low \in Int, NEW high \in Int, low <= high
    PROVE  /\ Logs!GetNumberParam(raw, fallback, low, high) \in low..high
           /\ raw \in Int /\ low <= raw => Logs!GetNumberParam(raw, fallback, low, high) <= raw
<1> DEFINE n == IF raw \in Int THEN raw ELSE fallback
<1>1. n \in Int
  OBVIOUS
<1> HIDE DEF n
<1>2. Logs!Max({low, n}) = IF low <= n THEN n ELSE low
  BY <1>1, LogPairs
<1> DEFINE m == Logs!Max({low, n})
<1>3. m \in Int /\ low <= m
  BY <1>1, <1>2
<1> HIDE DEF m
<1>4. Logs!Min({high, m}) = IF high <= m THEN high ELSE m
  BY <1>3, LogPairs
<1>5. Logs!GetNumberParam(raw, fallback, low, high) = Logs!Min({high, m})
  BY DEF Logs!GetNumberParam, m, n
<1>6. raw \in Int /\ low <= raw => m = raw
  BY <1>2 DEF m, n
<1> QED BY <1>3, <1>4, <1>5, <1>6

\* The pages of so many items: enough, and none too many.
LEMMA PagesFit ==
    ASSUME NEW items \in Nat, NEW size \in Nat \ {0}
    PROVE  /\ Logs!TotalPages(items, size) \in Nat \ {0}
           /\ items <= Logs!TotalPages(items, size) * size
           /\ items > 0 => (Logs!TotalPages(items, size) - 1) * size < items
<1> DEFINE q == (items + size - 1) \div size
           m == (items + size - 1) % size
<1>1. q \in Int /\ m \in 0..(size - 1) /\ items + size - 1 = q * size + m
  BY Z3
<1> DEFINE P == Logs!TotalPages(items, size)
<1>2. P = IF q <= 1 THEN 1 ELSE q
  <2>1. q \in Int
    BY <1>1
  <2> HIDE DEF q
  <2>2. Logs!Max({q, 1}) = IF q <= 1 THEN 1 ELSE q
    BY <2>1, LogPairs
  <2> QED BY <2>2 DEF Logs!TotalPages, q
<1> HIDE DEF q, m, P
<1>3. items <= q * size
  BY <1>1
<1>4. CASE q <= 1
  <2>1. P = 1 /\ P * size = size /\ (P - 1) * size = 0
    BY <1>2, <1>4
  <2>2. items <= size
    <3>1. CASE q = 1
      BY <1>3, <3>1
    <3>2. CASE q <= 0
      <4>1. q * size <= 0 /\ q * size \in Int
        BY <1>1, <3>2
      <4>2. items <= 0
        BY <1>3, <4>1
      <4> QED BY <4>2
    <3> QED BY <1>1, <1>4, <3>1, <3>2
  <2> QED BY <2>1, <2>2 DEF P
<1>5. CASE q > 1
  <2>1. P = q /\ P \in Nat \ {0}
    BY <1>1, <1>2, <1>5
  <2>2. (q - 1) * size = q * size - size
    BY <1>1
  <2>3. q * size - size < items
    BY <1>1
  <2> QED BY <1>3, <2>1, <2>2, <2>3 DEF P
<1> QED BY <1>1, <1>4, <1>5

\* A page that is not the first begins among the items.
LEMMA PageBegins ==
    ASSUME NEW items \in Nat, NEW size \in Nat \ {0}, NEW page \in Nat \ {0},
           page <= Logs!TotalPages(items, size), items > 0
    PROVE  (page - 1) * size < items
<1> DEFINE P == Logs!TotalPages(items, size)
<1>1. P \in Nat \ {0} /\ (P - 1) * size < items
  BY PagesFit
<1> HIDE DEF P
<1>2. page <= P
  BY DEF P
<1>3. (page - 1) * size <= (P - 1) * size
  BY <1>1, <1>2
<1>4. (page - 1) * size \in Int /\ (P - 1) * size \in Int
  BY <1>1
<1> QED BY <1>1, <1>3, <1>4

\* The last page ends behind the items.
LEMMA PagesEnd ==
    ASSUME NEW items \in Nat, NEW size \in Nat \ {0}, NEW page \in Nat,
           page >= Logs!TotalPages(items, size)
    PROVE  page * size >= items
<1> DEFINE P == Logs!TotalPages(items, size)
<1>1. P \in Nat \ {0} /\ items <= P * size
  BY PagesFit
<1> HIDE DEF P
<1>2. P <= page
  BY DEF P
<1>3. P * size <= page * size
  BY <1>1, <1>2
<1>4. P * size \in Int /\ page * size \in Int
  BY <1>1
<1> QED BY <1>1, <1>3, <1>4

\* More items have no fewer pages.
LEMMA PagesGrow ==
    ASSUME NEW items \in Nat, NEW more \in Nat, items <= more, NEW size \in Nat \ {0}
    PROVE  Logs!TotalPages(items, size) <= Logs!TotalPages(more, size)
<1> DEFINE P == Logs!TotalPages(items, size)
           Q == Logs!TotalPages(more, size)
<1>1. P \in Nat \ {0} /\ (items > 0 => (P - 1) * size < items)
  BY PagesFit
<1>2. Q \in Nat \ {0} /\ more <= Q * size
  BY PagesFit
<1>3. items = 0 => P = 1
  <2> SUFFICES ASSUME items = 0 PROVE P = 1
    OBVIOUS
  <2>1. (0 + size - 1) \div size = 0
    BY Z3
  <2>2. Logs!Max({0, 1}) = 1
    BY LogPairs
  <2> QED BY <2>1, <2>2 DEF Logs!TotalPages
<1> HIDE DEF P, Q
<1>4. ASSUME Q < P PROVE FALSE
  <2>1. items > 0
    BY <1>1, <1>2, <1>3, <1>4
  <2>2. Q * size <= (P - 1) * size
    BY <1>1, <1>2, <1>4
  <2>3. Q * size \in Int /\ (P - 1) * size \in Int
    BY <1>1, <1>2
  <2> QED BY <1>1, <1>2, <2>1, <2>2, <2>3
<1> QED BY <1>1, <1>2, <1>4 DEF P, Q

\* The rows of a page are those with so many before them.
LEMMA RowsAtOffset ==
    ASSUME LogsConstantsFit, NEW rows \in SUBSET Logs!Row, IsFiniteSet(rows),
           NEW offset \in Nat, NEW size \in Nat
    PROVE  {Logs!Ordered(rows)[i] :
                i \in (offset + 1)..Logs!Min({offset + size, Logs!Cardinality(rows)})}
               = {r \in rows : offset <= Before(r, rows) /\ Before(r, rows) < offset + size}
<1> DEFINE n == Cardinality(rows)
           s == Logs!Ordered(rows)
           last == Logs!Min({offset + size, n})
<1>1. n \in Nat
  BY BeforeFits
<1>2. Logs!Cardinality(rows) = n
  BY DEF Logs!Cardinality, Cardinality
<1>3. Sorted(s, rows)
  BY OrderedIsSorted
<1> HIDE DEF s
<1>4. /\ \A i \in 1..n : Before(s[i], rows) = i - 1 /\ s[i] \in rows
      /\ \A r \in rows : \E i \in 1..n : r = s[i]
  <2>1. \A i \in 1..n : s[i] \in rows
    BY <1>3 DEF Sorted
  <2> QED BY <1>3, <2>1, SortedPlaces
<1> HIDE DEF n
<1>5. last = IF offset + size <= n THEN offset + size ELSE n
  BY <1>1, LogPairs
<1> HIDE DEF last
<1>6. ASSUME NEW i \in (offset + 1)..last
      PROVE  s[i] \in rows /\ offset <= Before(s[i], rows) /\ Before(s[i], rows) < offset + size
  <2>1. i \in 1..n /\ offset <= i - 1 /\ i - 1 < offset + size
    BY <1>1, <1>5
  <2> QED BY <1>4, <2>1
<1>7. ASSUME NEW r \in rows, offset <= Before(r, rows), Before(r, rows) < offset + size
      PROVE  \E i \in (offset + 1)..last : r = s[i]
  <2>1. PICK i \in 1..n : r = s[i]
    BY <1>4
  <2>2. Before(r, rows) = i - 1
    BY <1>4, <2>1
  <2>3. i \in (offset + 1)..last
    BY <1>1, <1>5, <1>7, <2>2
  <2> QED BY <2>1, <2>3
<1> QED BY <1>2, <1>6, <1>7 DEF n, s, last

\* The page numbers shown and those counted in a gap are the pages there are.
LEMMA DesktopCovers ==
    ASSUME NEW pages \in Nat \ {0}, NEW here \in 1..pages
    PROVE  LET shown == Logs!DesktopPages(here, pages) IN
           /\ here \in shown /\ shown \subseteq 1..pages
           /\ 1..pages = shown \cup UNION {(g[1] + 1)..(g[2] - 1) : g \in Logs!Gaps(shown)}
<1> DEFINE shown == Logs!DesktopPages(here, pages)
           between == UNION {(g[1] + 1)..(g[2] - 1) : g \in Logs!Gaps(shown)}
<1>1. CASE pages <= 7
  <2>1. shown = 1..pages
    BY <1>1 DEF Logs!DesktopPages
  <2>2. here \in shown /\ shown \subseteq 1..pages
    BY <2>1
  <2> HIDE DEF shown
  <2>3. ASSUME NEW n \in between PROVE n \in 1..pages
    <3>1. PICK g \in shown \X shown : n \in (g[1] + 1)..(g[2] - 1)
      BY <2>3 DEF Logs!Gaps
    <3>2. g[1] \in 1..pages /\ g[2] \in 1..pages
      BY <2>1, <3>1
    <3> QED BY <3>1, <3>2
  <2> HIDE DEF between
  <2>4. 1..pages = shown \cup between
    BY <2>1, <2>3
  <2> QED BY <2>2, <2>4 DEF shown, between
<1>2. CASE pages > 7
  <2>1. shown = ({1, pages} \cup (here - 2)..(here + 2)) \cap 1..pages
    BY <1>2 DEF Logs!DesktopPages
  <2>2. here \in shown /\ shown \subseteq 1..pages /\ 1 \in shown /\ pages \in shown
    BY <1>2, <2>1
  <2>3. \A p \in shown : p = 1 \/ p = pages \/ (here - 2 <= p /\ p <= here + 2)
    BY <2>1
  <2>4. \A p \in 1..pages : here - 2 <= p /\ p <= here + 2 => p \in shown
    BY <2>1
  <2> HIDE DEF shown
  <2>5. ASSUME NEW n \in between PROVE n \in 1..pages
    <3>1. PICK g \in shown \X shown : n \in (g[1] + 1)..(g[2] - 1)
      BY <2>5 DEF Logs!Gaps
    <3>2. g[1] \in 1..pages /\ g[2] \in 1..pages
      BY <2>2, <3>1
    <3> QED BY <3>1, <3>2
  <2>6. ASSUME NEW n \in 1..pages, n \notin shown PROVE n \in between
    <3>1. n # 1 /\ n # pages /\ (n < here - 2 \/ n > here + 2)
      BY <2>2, <2>4, <2>6
    <3>2. CASE n < here - 2
      <4> DEFINE g == <<1, here - 2>>
      <4>1. g \in shown \X shown
        BY <2>2, <2>4, <3>1, <3>2
      <4>2. g[2] - g[1] > 1 /\ ~\E p \in shown : g[1] < p /\ p < g[2]
        BY <2>2, <2>3, <3>1, <3>2
      <4>3. g \in Logs!Gaps(shown)
        BY <4>1, <4>2 DEF Logs!Gaps
      <4>4. n \in (g[1] + 1)..(g[2] - 1)
        BY <3>1, <3>2
      <4> HIDE DEF g
      <4> QED BY <4>3, <4>4
    <3>3. CASE n > here + 2
      <4> DEFINE g == <<here + 2, pages>>
      <4>1. g \in shown \X shown
        BY <2>2, <2>4, <3>1, <3>3
      <4>2. g[2] - g[1] > 1 /\ ~\E p \in shown : g[1] < p /\ p < g[2]
        BY <2>2, <2>3, <3>1, <3>3
      <4>3. g \in Logs!Gaps(shown)
        BY <4>1, <4>2 DEF Logs!Gaps
      <4>4. n \in (g[1] + 1)..(g[2] - 1)
        BY <3>1, <3>3
      <4> HIDE DEF g
      <4> QED BY <4>3, <4>4
    <3> QED BY <3>1, <3>2, <3>3
  <2> HIDE DEF between
  <2>7. 1..pages = shown \cup between
    BY <2>2, <2>5, <2>6
  <2> QED BY <2>2, <2>7 DEF shown, between
<1> QED BY <1>1, <1>2

LEMMA CompactFits ==
    ASSUME NEW pages \in Nat \ {0}, NEW here \in 1..pages
    PROVE  /\ here \in Logs!CompactPages(here, pages)
           /\ Logs!CompactPages(here, pages) \subseteq 1..pages
           /\ pages <= 5 => Logs!CompactPages(here, pages) = 1..pages
<1>1. CASE pages <= 5
  BY <1>1 DEF Logs!CompactPages
<1>2. CASE pages > 5
  <2>1. Logs!Max({1, here - 1}) = IF 1 <= here - 1 THEN here - 1 ELSE 1
    BY LogPairs
  <2>2. Logs!Min({pages, here + 1}) = IF pages <= here + 1 THEN pages ELSE here + 1
    BY LogPairs
  <2>3. Logs!CompactPages(here, pages) = Logs!Max({1, here - 1})..Logs!Min({pages, here + 1})
    BY <1>2 DEF Logs!CompactPages
  <2> DEFINE low == Logs!Max({1, here - 1})
             high == Logs!Min({pages, here + 1})
  <2>4. low \in 1..here /\ high \in here..pages
    BY <2>1, <2>2
  <2>5. Logs!CompactPages(here, pages) = low..high
    BY <2>3
  <2> HIDE DEF low, high
  <2>6. here \in low..high /\ low..high \subseteq 1..pages
    BY <2>4
  <2> QED BY <1>2, <2>5, <2>6
<1> QED BY <1>1, <1>2

LEMMA ClampFits ==
    ASSUME NEW page \in Int, NEW pages \in Nat \ {0}
    PROVE  /\ Logs!Clamp(page, pages) \in 1..pages
           /\ page \in 1..pages => Logs!Clamp(page, pages) = page
<1>1. Logs!Max({page, 1}) = IF page <= 1 THEN 1 ELSE page
  BY LogPairs
<1> DEFINE m == Logs!Max({page, 1})
<1>2. m \in Int /\ m >= 1
  BY <1>1
<1> HIDE DEF m
<1>3. Logs!Min({m, pages}) = IF m <= pages THEN m ELSE pages
  BY <1>2, LogPairs
<1>4. Logs!Clamp(page, pages) = Logs!Min({m, pages})
  BY DEF Logs!Clamp, m
<1> QED BY <1>1, <1>2, <1>3, <1>4 DEF m

LEMMA PagerFits ==
    ASSUME NEW page \in Int, NEW size \in Nat \ {0}, NEW items \in Nat
    PROVE  LET m == Logs!BuildPaginationModel(page, size, items)
               pages == Logs!TotalPages(items, size)
               here == Logs!Clamp(page, pages)
           IN  /\ pages \in Nat \ {0} /\ here \in 1..pages
               /\ m.pages = pages /\ m.here = here
               /\ m.hasPrev = (here > 1) /\ m.hasNext = (here < pages)
               /\ m.desktop = Logs!DesktopPages(here, pages)
               /\ m.compact = Logs!CompactPages(here, pages)
               /\ m.jump = IF pages > 5 THEN 1..pages ELSE {}
<1> DEFINE pages == Logs!TotalPages(items, size)
           here == Logs!Clamp(page, pages)
           m == Logs!BuildPaginationModel(page, size, items)
<1>1. pages \in Nat \ {0}
  BY PagesFit
<1> HIDE DEF pages
<1>2. here \in 1..pages
  BY <1>1, ClampFits
<1> HIDE DEF here
<1>3. m = [pages |-> pages, here |-> here,
           hasPrev |-> here > 1, hasNext |-> here < pages,
           desktop |-> Logs!DesktopPages(here, pages), compact |-> Logs!CompactPages(here, pages),
           jump |-> IF pages > 5 THEN 1..pages ELSE {}]
  BY DEF Logs!BuildPaginationModel, pages, here
<1> HIDE DEF m
<1>4. /\ m.pages = pages /\ m.here = here
      /\ m.hasPrev = (here > 1) /\ m.hasNext = (here < pages)
      /\ m.desktop = Logs!DesktopPages(here, pages)
      /\ m.compact = Logs!CompactPages(here, pages)
      /\ m.jump = IF pages > 5 THEN 1..pages ELSE {}
  BY <1>3
<1> QED BY <1>1, <1>2, <1>4 DEF pages, here, m

\* Of any number of items, not only those of the instance.
LEMMA PagerReaches ==
    ASSUME NEW items \in Nat, NEW page \in Int, NEW wide \in BOOLEAN
    PROVE  LET m == Logs!BuildPaginationModel(page, 1, items) IN
           /\ m.here \in m.desktop \cap m.compact
           /\ 1..m.pages
                = m.desktop \cup UNION {(g[1] + 1)..(g[2] - 1) : g \in Logs!Gaps(m.desktop)}
           /\ (1..m.pages) \ {m.here} \subseteq Logs!Links(m, wide)
           /\ Logs!Links(m, wide) \subseteq 1..m.pages
<1> DEFINE m == Logs!BuildPaginationModel(page, 1, items)
           pages == Logs!TotalPages(items, 1)
           here == Logs!Clamp(page, pages)
<1>1. /\ pages \in Nat \ {0} /\ here \in 1..pages
      /\ m.pages = pages /\ m.here = here
      /\ m.hasPrev = (here > 1) /\ m.hasNext = (here < pages)
      /\ m.desktop = Logs!DesktopPages(here, pages)
      /\ m.compact = Logs!CompactPages(here, pages)
      /\ m.jump = IF pages > 5 THEN 1..pages ELSE {}
  <2>1. 1 \in Nat \ {0}
    OBVIOUS
  <2> QED BY <2>1, PagerFits
<1> HIDE DEF m, pages, here
<1>2. /\ here \in m.desktop /\ m.desktop \subseteq 1..pages
      /\ 1..pages = m.desktop \cup UNION {(g[1] + 1)..(g[2] - 1) : g \in Logs!Gaps(m.desktop)}
  BY <1>1, DesktopCovers
<1>3. /\ here \in m.compact /\ m.compact \subseteq 1..pages
      /\ pages <= 5 => m.compact = 1..pages
  BY <1>1, CompactFits
<1>4. pages <= 5 => m.desktop = 1..pages
  BY <1>1 DEF Logs!DesktopPages
<1> DEFINE links == Logs!Links(m, wide)
<1>5. links = (IF wide THEN m.desktop ELSE m.compact) \cup m.jump
                \cup (IF here > 1 THEN {here - 1} ELSE {})
                \cup (IF here < pages THEN {here + 1} ELSE {})
  BY <1>1 DEF Logs!Links
<1> HIDE DEF links
<1>6. links \subseteq 1..pages
  BY <1>1, <1>2, <1>3, <1>5
<1>7. 1..pages \subseteq links
  <2>1. CASE pages <= 5
    BY <1>3, <1>4, <1>5, <2>1
  <2>2. CASE ~(pages <= 5)
    <3>1. m.jump = 1..pages
      BY <1>1, <2>2
    <3> QED BY <1>5, <3>1
  <2> QED BY <2>1, <2>2
<1> QED BY <1>1, <1>2, <1>3, <1>6, <1>7 DEF m, links

(***************************************************************************)
(* The invariant of the listings                                           *)
(***************************************************************************)

RowsInv ==
    /\ micro \in 0..MaxMicro /\ visits \in 0..MaxVisits
    /\ pending \in SUBSET Logs!Row /\ log \in SUBSET Logs!Row
    /\ IsFiniteSet(pending) /\ IsFiniteSet(log) /\ pending \cap log = {}
    /\ \A r \in pending \cup log : r.id <= Cardinality(pending \cup log)
    /\ Cardinality(pending \cup log) <= MaxRows

Files == [open : BOOLEAN, done : BOOLEAN, start : SUBSET Logs!Row, rows : Seq(Logs!Row),
          ends : SUBSET Logs!Row]
PageNumbers == 1..LastPage
PageSizes == SmallestSize..LargestSize
RowSets == SUBSET Logs!Row
Readers == [list : {"log", "runs"}, page : PageNumbers, size : PageSizes,
            total : Nat \cup {NotRead}, rows : RowSets \cup {NotRead},
            walk : BOOLEAN, start : RowSets, seen : RowSets, late : Nat]

\* The cursor behind which an export reads on.
Floored(r) == [r EXCEPT !.at = 2 * Logs!Milli(@)]
Ahead(f, r) == f.rows = <<>> \/ Logs!Newer(Floored(f.rows[Len(f.rows)]), r)
Twin(f, r) == \E last \in f.ends : Logs!Milli(last.at) = Logs!Milli(r.at)

FileInv ==
    /\ file \in Files
    /\ file.start \subseteq log
    /\ \A i, j \in 1..Len(file.rows) : i < j => Logs!Newer(file.rows[i], file.rows[j])
    /\ \A r \in file.start :
          \/ \E i \in 1..Len(file.rows) : file.rows[i] = r
          \/ Twin(file, r)
          \/ ~file.done /\ Ahead(file, r)

\* What the pages read so far have shown, and what they have not.
PagesRead == IF reader.rows = NotRead THEN reader.page - 1 ELSE reader.page
Unseen == reader.start \ reader.seen

PageInv ==
    /\ reader \in Readers
    /\ reader.start \subseteq log
    /\ reader.total # NotRead => reader.total <= Cardinality(log)
    /\ reader.total # NotRead /\ reader.rows = NotRead =>
          Cardinality(log) = reader.total + reader.late
    /\ reader.list = "log" /\ reader.rows # NotRead =>
          reader.total # NotRead /\ (reader.total > 0 => reader.rows # {})

WalkInv ==
    reader.walk =>
        /\ \A r \in Unseen : Before(r, log) >= PagesRead * reader.size
        /\ reader.page <= Logs!TotalPages(IF reader.total = NotRead THEN Cardinality(log)
                                          ELSE reader.total, reader.size)
        /\ reader.total # NotRead /\ reader.rows # NotRead
              /\ reader.page * reader.size >= reader.total =>
                  Cardinality(Unseen) <= reader.late

LogsInv == RowsInv /\ FileInv /\ PageInv /\ WalkInv

LEMMA LogsInvInit ==
    ASSUME LogsConstantsFit, Logs!Init
    PROVE  LogsInv
<1>1. /\ micro = 0 /\ pending = {} /\ log = {} /\ visits = 0
      /\ file = [open |-> FALSE, done |-> FALSE, start |-> {}, rows |-> <<>>, ends |-> {}]
      /\ reader = [list |-> "log", page |-> 1, size |-> DefaultSize, total |-> NotRead,
                   rows |-> NotRead, walk |-> FALSE, start |-> {}, seen |-> {}, late |-> 0]
  BY DEF Logs!Init, Logs!NoFile, Logs!NoPage
<1>2. RowsInv
  <2>1. IsFiniteSet({}) /\ Cardinality({}) = 0 /\ {} \cup {} = {}
    BY FS_EmptySet
  <2> QED BY <1>1, <2>1 DEF RowsInv, LogsConstantsFit
<1>3. FileInv
  <2>1. file \in Files
    BY <1>1 DEF Files
  <2> QED BY <1>1, <2>1 DEF FileInv
<1>4. PageInv /\ WalkInv
  <2>1. reader \in Readers
    <3>1. 1 \in PageNumbers /\ 0 \in Nat /\ DefaultSize \in PageSizes /\ {} \in RowSets
      BY DEF LogsConstantsFit, PageNumbers, PageSizes, RowSets
    <3> QED BY <1>1, <3>1 DEF Readers
  <2> QED BY <1>1, <2>1 DEF PageInv, WalkInv
<1> QED BY <1>2, <1>3, <1>4 DEF LogsInv

LEMMA ReaderFits ==
    ASSUME LogsConstantsFit, PageInv
    PROVE  /\ reader.list \in {"log", "runs"} /\ reader.page \in 1..LastPage
           /\ reader.page \in Nat \ {0} /\ reader.size \in Nat \ {0}
           /\ reader.total # NotRead => reader.total \in Nat
           /\ reader.rows # NotRead => reader.rows \in RowSets
           /\ reader.start \in RowSets /\ reader.seen \in RowSets /\ reader.late \in Nat
           /\ reader.walk \in BOOLEAN /\ PagesRead \in Nat
<1>1. reader \in Readers
  BY DEF PageInv
<1>2. /\ reader.list \in {"log", "runs"} /\ reader.page \in PageNumbers
      /\ reader.size \in PageSizes
      /\ reader.total # NotRead => reader.total \in Nat
      /\ reader.rows # NotRead => reader.rows \in RowSets
      /\ reader.start \in RowSets /\ reader.seen \in RowSets /\ reader.late \in Nat
      /\ reader.walk \in BOOLEAN
  BY <1>1 DEF Readers
<1>3. reader.page \in Nat \ {0} /\ reader.size \in Nat \ {0} /\ reader.page \in 1..LastPage
  BY <1>2 DEF PageNumbers, PageSizes, LogsConstantsFit
<1>4. PagesRead \in Nat
  BY <1>3 DEF PagesRead
<1> QED BY <1>2, <1>3, <1>4

LEMMA RowsStay ==
    ASSUME RowsInv, micro' \in 0..MaxMicro, visits' \in 0..MaxVisits,
           pending' = pending, log' = log
    PROVE  RowsInv'
BY DEF RowsInv

LEMMA FileStays ==
    ASSUME FileInv, log \subseteq log', file' = file
    PROVE  FileInv'
BY DEF FileInv, Ahead, Twin

LEMMA PageStays ==
    ASSUME PageInv, WalkInv, log' = log, reader' = reader
    PROVE  PageInv' /\ WalkInv'
BY DEF PageInv, WalkInv, PagesRead, Unseen, Readers

LEMMA LogsTickKeeps ==
    ASSUME LogsConstantsFit, LogsInv, Logs!Tick
    PROVE  LogsInv'
<1>1. micro' \in 0..MaxMicro /\ UNCHANGED <<pending, log, file, reader, visits>>
  BY DEF Logs!Tick, LogsInv, RowsInv, LogsConstantsFit
<1>2. RowsInv'
  BY <1>1, RowsStay DEF LogsInv, RowsInv
<1>3. FileInv'
  BY <1>1, FileStays DEF LogsInv
<1>4. PageInv' /\ WalkInv'
  BY <1>1, PageStays DEF LogsInv
<1> QED BY <1>2, <1>3, <1>4 DEF LogsInv

LEMMA StampKeeps ==
    ASSUME LogsConstantsFit, LogsInv, Logs!Stamp
    PROVE  LogsInv'
<1> DEFINE all == pending \cup log
           n == Cardinality(all)
           r == [id |-> n + 1, at |-> micro]
<1>1. /\ n + 1 <= MaxRows /\ pending' = pending \cup {r}
      /\ UNCHANGED <<micro, log, file, reader, visits>>
  BY DEF Logs!Stamp, Logs!Cardinality, Cardinality
<1>2. RowsInv
  BY DEF LogsInv
<1>3. IsFiniteSet(all) /\ n \in Nat
  <2>1. IsFiniteSet(all)
    BY <1>2, FS_Union DEF RowsInv
  <2> QED BY <2>1, FS_CardinalityType
<1>4. \A s \in all : s.id <= n
  BY <1>2 DEF RowsInv
<1> HIDE DEF n
<1>5. r \notin all
  <2>1. ~(n + 1 <= n)
    BY <1>3
  <2> QED BY <1>4, <2>1
<1>6. r \in Logs!Row
  <2>1. n + 1 \in 1..MaxRows /\ micro \in 0..MaxMicro
    BY <1>1, <1>2, <1>3 DEF RowsInv, LogsConstantsFit
  <2> QED BY <2>1 DEF Logs!Row
<1>7. r.id = n + 1
  OBVIOUS
<1> HIDE DEF r
<1>8. RowsInv'
  <2>1. (pending \cup log)' = all \cup {r}
    BY <1>1
  <2>2. IsFiniteSet(pending') /\ IsFiniteSet(log')
    BY <1>1, <1>2, FS_AddElement DEF RowsInv
  <2>3. Cardinality(all \cup {r}) = n + 1
    BY <1>3, <1>5, FS_AddElement DEF n
  <2>4. \A s \in all : s.id <= n + 1
    <3>1. \A s \in all : s \in Logs!Row
      BY <1>2 DEF RowsInv
    <3>2. \A s \in all : s.id \in Nat
      BY <3>1, RowFields
    <3> QED BY <1>3, <1>4, <3>2
  <2>5. pending' \in SUBSET Logs!Row /\ pending' \cap log' = {}
    BY <1>1, <1>2, <1>5, <1>6 DEF RowsInv
  <2>6. \A s \in all \cup {r} : s.id <= n + 1
    BY <1>3, <1>7, <2>4
  <2> HIDE DEF all
  <2> QED BY <1>1, <1>2, <2>1, <2>2, <2>3, <2>5, <2>6 DEF RowsInv
<1>9. FileInv'
  BY <1>1, FileStays DEF LogsInv
<1>10. PageInv' /\ WalkInv'
  BY <1>1, PageStays DEF LogsInv
<1> QED BY <1>8, <1>9, <1>10 DEF LogsInv

LEMMA CommitKeeps ==
    ASSUME LogsConstantsFit, LogsInv, NEW r \in pending, Logs!Commit(r)
    PROVE  LogsInv'
<1> DEFINE n == Cardinality(log)
<1>1. /\ pending' = pending \ {r} /\ log' = log \cup {r}
      /\ reader' = IF reader.total # NotRead /\ reader.rows = NotRead
                   THEN [reader EXCEPT !.late = @ + 1] ELSE reader
      /\ UNCHANGED <<micro, file, visits>>
  BY DEF Logs!Commit
<1>2. RowsInv /\ FileInv /\ PageInv /\ WalkInv
  BY DEF LogsInv
<1>3. r \notin log /\ r \in Logs!Row /\ IsFiniteSet(log) /\ log \in SUBSET Logs!Row
  BY <1>2 DEF RowsInv
<1>4. IsFiniteSet(log') /\ Cardinality(log') = n + 1 /\ n \in Nat
  BY <1>1, <1>3, FS_AddElement, FS_CardinalityType
<1>5. RowsInv'
  <2>1. (pending \cup log)' = pending \cup log
    BY <1>1
  <2>2. IsFiniteSet(pending')
    BY <1>1, <1>2, FS_RemoveElement DEF RowsInv
  <2>3. pending' \in SUBSET Logs!Row /\ log' \in SUBSET Logs!Row /\ pending' \cap log' = {}
    BY <1>1, <1>2 DEF RowsInv
  <2> QED BY <1>1, <1>2, <1>4, <2>1, <2>2, <2>3 DEF RowsInv
<1>6. FileInv'
  BY <1>1, <1>2, FileStays
<1>7. /\ reader' \in Readers
      /\ reader'.list = reader.list /\ reader'.page = reader.page /\ reader'.size = reader.size
      /\ reader'.total = reader.total /\ reader'.rows = reader.rows
      /\ reader'.walk = reader.walk /\ reader'.start = reader.start /\ reader'.seen = reader.seen
      /\ reader'.late = IF reader.total # NotRead /\ reader.rows = NotRead
                        THEN reader.late + 1 ELSE reader.late
  BY <1>1, <1>2 DEF PageInv, Readers
<1>8. /\ reader.total # NotRead => reader.total \in Nat
      /\ reader.late \in Nat /\ reader.size \in Nat \ {0} /\ reader.page \in Nat \ {0}
      /\ PagesRead \in Nat
  BY <1>2, ReaderFits
<1> HIDE DEF n
<1>9. PageInv'
  <2>1. reader'.start \subseteq log'
    BY <1>1, <1>2, <1>7 DEF PageInv
  <2>2. reader'.total # NotRead => reader'.total <= Cardinality(log')
    <3>1. reader.total # NotRead => reader.total <= n
      BY <1>2 DEF PageInv, n
    <3> QED BY <1>4, <1>7, <1>8, <3>1
  <2>3. reader'.total # NotRead /\ reader'.rows = NotRead =>
            Cardinality(log') = reader'.total + reader'.late
    <3>1. reader.total # NotRead /\ reader.rows = NotRead => n = reader.total + reader.late
      BY <1>2 DEF PageInv, n
    <3> QED BY <1>4, <1>7, <1>8, <3>1
  <2>4. reader'.list = "log" /\ reader'.rows # NotRead =>
            reader'.total # NotRead /\ (reader'.total > 0 => reader'.rows # {})
    BY <1>2, <1>7 DEF PageInv
  <2> QED BY <1>7, <2>1, <2>2, <2>3, <2>4 DEF PageInv
<1>10. WalkInv'
  <2> SUFFICES ASSUME reader.walk
               PROVE  /\ \A s \in Unseen' : Before(s, log') >= PagesRead' * reader'.size
                      /\ reader'.page <= Logs!TotalPages(
                             IF reader'.total = NotRead THEN Cardinality(log')
                             ELSE reader'.total, reader'.size)
                      /\ reader'.total # NotRead /\ reader'.rows # NotRead
                            /\ reader'.page * reader'.size >= reader'.total =>
                                Cardinality(Unseen') <= reader'.late
    BY <1>7 DEF WalkInv
  <2>1. /\ \A s \in Unseen : Before(s, log) >= PagesRead * reader.size
        /\ reader.page <= Logs!TotalPages(IF reader.total = NotRead THEN n
                                          ELSE reader.total, reader.size)
        /\ reader.total # NotRead /\ reader.rows # NotRead
              /\ reader.page * reader.size >= reader.total =>
                  Cardinality(Unseen) <= reader.late
    BY <1>2 DEF WalkInv, n
  <2>2. Unseen' = Unseen /\ PagesRead' = PagesRead
    BY <1>7 DEF Unseen, PagesRead
  <2>3. ASSUME NEW s \in Unseen PROVE Before(s, log') >= PagesRead * reader.size
    <3>1. s \in log
      BY <1>2 DEF Unseen, PageInv
    <3>2. Before(s, log) <= Before(s, log')
      <4>1. log \subseteq log'
        BY <1>1
      <4> QED BY <1>4, <4>1, BeforeGrows
    <3>3. Before(s, log) \in Nat
      BY <1>3, <3>1, BeforeFits
    <3>4. Before(s, log') \in Nat
      <4>1. log' \in SUBSET Logs!Row
        BY <1>1, <1>3
      <4> QED BY <1>3, <1>4, <3>1, <4>1, BeforeFits
    <3>5. PagesRead * reader.size \in Nat
      BY <1>8
    <3>6. Before(s, log) >= PagesRead * reader.size
      BY <2>1
    <3> QED BY <3>2, <3>3, <3>4, <3>5, <3>6
  <2>4. reader.page <= Logs!TotalPages(IF reader.total = NotRead THEN Cardinality(log')
                                       ELSE reader.total, reader.size)
    <3>1. CASE reader.total # NotRead
      BY <2>1, <3>1
    <3>2. CASE reader.total = NotRead
      <4>1. reader.page <= Logs!TotalPages(n, reader.size)
        BY <2>1, <3>2
      <4>2. Logs!TotalPages(n, reader.size) <= Logs!TotalPages(n + 1, reader.size)
        BY <1>4, <1>8, PagesGrow
      <4>3. Logs!TotalPages(n, reader.size) \in Nat
        BY <1>4, <1>8, PagesFit
      <4>4. n + 1 \in Nat
        BY <1>4
      <4>5. Logs!TotalPages(n + 1, reader.size) \in Nat
        BY <4>4, <1>8, PagesFit
      <4>6. reader.page <= Logs!TotalPages(n + 1, reader.size)
        BY <1>8, <4>1, <4>2, <4>3, <4>5
      <4> QED BY <1>4, <3>2, <4>6
    <3> QED BY <3>1, <3>2
  <2>5. reader'.total # NotRead /\ reader'.rows # NotRead
            /\ reader'.page * reader'.size >= reader'.total =>
                Cardinality(Unseen') <= reader'.late
    BY <1>7, <2>1, <2>2
  <2> QED BY <1>7, <2>2, <2>3, <2>4, <2>5
<1> QED BY <1>5, <1>6, <1>9, <1>10 DEF LogsInv

LEMMA OpenListKeeps ==
    ASSUME LogsConstantsFit, LogsInv, NEW list \in {"log", "runs"}, NEW p, NEW s,
           Logs!OpenList(list, p, s)
    PROVE  LogsInv'
<1> DEFINE page == Logs!GetNumberParam(p, 1, 1, LastPage)
           size == Logs!GetNumberParam(s, DefaultSize, SmallestSize, LargestSize)
           walk == page = 1
<1>1. page \in PageNumbers /\ size \in PageSizes
  <2>1. page \in 1..LastPage
    <3>1. LastPage \in Int /\ 1 <= LastPage
      BY DEF LogsConstantsFit
    <3> QED BY <3>1, ParamFits
  <2>2. size \in SmallestSize..LargestSize
    <3>1. DefaultSize \in Int /\ SmallestSize \in Int /\ LargestSize \in Int
          /\ SmallestSize <= LargestSize
      BY DEF LogsConstantsFit
    <3> QED BY <3>1, ParamFits
  <2> QED BY <2>1, <2>2 DEF PageNumbers, PageSizes
<1>2. page \in Nat \ {0} /\ size \in Nat \ {0} /\ walk \in BOOLEAN
  <2>1. page \in 1..LastPage /\ size \in SmallestSize..LargestSize
    BY <1>1 DEF PageNumbers, PageSizes
  <2> HIDE DEF page, size
  <2> QED BY <2>1 DEF LogsConstantsFit
<1>3. /\ visits < MaxVisits /\ visits' = visits + 1
      /\ reader' = [list |-> list, page |-> page, size |-> size, total |-> NotRead,
                    rows |-> NotRead, walk |-> walk, start |-> log, seen |-> {}, late |-> 0]
      /\ UNCHANGED <<micro, pending, log, file>>
  BY DEF Logs!OpenList, Logs!GetPagination, Logs!NoPage
<1> HIDE DEF page, size
<1>4. RowsInv /\ FileInv
  BY DEF LogsInv
<1>5. RowsInv'
  <2>1. micro' \in 0..MaxMicro /\ visits' \in 0..MaxVisits
    BY <1>3, <1>4 DEF RowsInv, LogsConstantsFit
  <2> QED BY <1>3, <1>4, <2>1, RowsStay
<1>6. FileInv'
  BY <1>3, <1>4, FileStays
<1>7. log \in RowSets /\ IsFiniteSet(log) /\ log \in SUBSET Logs!Row
  BY <1>4 DEF RowsInv, RowSets
<1>8. /\ reader'.total = NotRead /\ reader'.rows = NotRead /\ reader'.start = log
      /\ reader'.seen = {} /\ reader'.page = page /\ reader'.size = size /\ reader'.walk = walk
  BY <1>3
<1>9. PageInv'
  <2>1. reader' \in Readers
    <3>1. {} \in RowSets
      BY DEF RowSets
    <3> QED BY <1>1, <1>2, <1>3, <1>7, <3>1 DEF Readers
  <2> QED BY <1>3, <1>8, <2>1 DEF PageInv
<1>10. WalkInv'
  <2> SUFFICES ASSUME walk
               PROVE  /\ \A r \in Unseen' : Before(r, log') >= PagesRead' * reader'.size
                      /\ reader'.page <= Logs!TotalPages(Cardinality(log'), reader'.size)
    BY <1>8 DEF WalkInv
  <2>1. PagesRead' = 0 /\ Unseen' = log
    BY <1>2, <1>8 DEF PagesRead, Unseen
  <2>2. PagesRead' * reader'.size = 0
    BY <1>2, <1>8, <2>1
  <2>3. \A r \in log : Before(r, log) >= 0
    BY <1>7, BeforeFits
  <2>4. Cardinality(log) \in Nat
    BY <1>7, FS_CardinalityType
  <2>5. 1 <= Logs!TotalPages(Cardinality(log), size)
    BY <1>2, <2>4, PagesFit
  <2> QED BY <1>3, <1>8, <2>1, <2>2, <2>3, <2>5
<1> QED BY <1>5, <1>6, <1>9, <1>10 DEF LogsInv

\* A reader whose unseen rows all stand behind its pages has missed few.
LEMMA UnseenAreFew ==
    ASSUME LogsConstantsFit, NEW rows \in SUBSET Logs!Row, IsFiniteSet(rows),
           NEW T \in SUBSET rows, NEW k \in Nat, \A r \in T : Before(r, rows) >= k,
           NEW total \in Nat, NEW late \in Nat, Cardinality(rows) <= total + late, k >= total
    PROVE  Cardinality(T) <= late
<1>1. /\ Cardinality(T) \in Nat
      /\ k <= Cardinality(rows) => Cardinality(T) <= Cardinality(rows) - k
      /\ k >= Cardinality(rows) => T = {}
  BY FewStandBehind
<1>2. Cardinality(rows) \in Nat
  BY FS_CardinalityType
<1>3. CASE k <= Cardinality(rows)
  BY <1>1, <1>2, <1>3
<1>4. CASE ~(k <= Cardinality(rows))
  <2>1. T = {}
    BY <1>1, <1>2, <1>4
  <2>2. Cardinality(T) = 0
    BY <2>1, FS_EmptySet
  <2> QED BY <2>2
<1> QED BY <1>3, <1>4

LEMMA ReadCountKeeps ==
    ASSUME LogsConstantsFit, LogsInv, Logs!ReadCount
    PROVE  LogsInv'
<1> DEFINE n == Cardinality(log)
<1>1. /\ reader.total = NotRead
      /\ reader' = [reader EXCEPT !.total = n, !.late = 0]
      /\ UNCHANGED <<micro, pending, log, file, visits>>
  BY DEF Logs!ReadCount, Logs!Cardinality, Cardinality
<1>2. RowsInv /\ FileInv /\ PageInv /\ WalkInv
  BY DEF LogsInv
<1>3. RowsInv'
  BY <1>1, <1>2 DEF RowsInv
<1>4. FileInv'
  BY <1>1, <1>2, FileStays
<1>5. log \in SUBSET Logs!Row /\ IsFiniteSet(log) /\ n \in Nat
  <2>1. log \in SUBSET Logs!Row /\ IsFiniteSet(log)
    BY <1>2 DEF RowsInv
  <2> QED BY <2>1, FS_CardinalityType
<1>6. n # NotRead
  BY <1>5 DEF LogsConstantsFit
<1>7. /\ reader.size \in Nat \ {0} /\ reader.page \in Nat \ {0} /\ PagesRead \in Nat
      /\ reader.walk \in BOOLEAN
  BY <1>2, ReaderFits
<1> HIDE DEF n
<1>8. /\ reader' \in Readers
      /\ reader'.list = reader.list /\ reader'.page = reader.page /\ reader'.size = reader.size
      /\ reader'.total = n /\ reader'.rows = reader.rows
      /\ reader'.walk = reader.walk /\ reader'.start = reader.start /\ reader'.seen = reader.seen
      /\ reader'.late = 0
  BY <1>1, <1>2, <1>5 DEF PageInv, Readers
<1>9. PageInv'
  <2>1. reader'.start \subseteq log'
    BY <1>1, <1>2, <1>8 DEF PageInv
  <2>2. n <= n /\ n = n + 0
    BY <1>5
  <2>3. ~(reader.list = "log" /\ reader.rows # NotRead)
    BY <1>1, <1>2 DEF PageInv
  <2> QED BY <1>1, <1>8, <2>1, <2>2, <2>3 DEF PageInv, n
<1>10. WalkInv'
  <2> SUFFICES ASSUME reader.walk
               PROVE  /\ \A s \in Unseen' : Before(s, log') >= PagesRead' * reader'.size
                      /\ reader'.page <= Logs!TotalPages(n, reader'.size)
                      /\ reader'.rows # NotRead /\ reader'.page * reader'.size >= n =>
                             Cardinality(Unseen') <= reader'.late
    BY <1>6, <1>8 DEF WalkInv
  <2>1. Unseen' = Unseen /\ PagesRead' = PagesRead
    BY <1>8 DEF Unseen, PagesRead
  <2>2. /\ \A s \in Unseen : Before(s, log) >= PagesRead * reader.size
        /\ reader.page <= Logs!TotalPages(n, reader.size)
    BY <1>1, <1>2 DEF WalkInv, n
  <2>3. ASSUME reader.rows # NotRead, reader.page * reader.size >= n
        PROVE  Cardinality(Unseen) <= 0
    <3>1. PagesRead = reader.page
      BY <2>3 DEF PagesRead
    <3>2. Unseen \in SUBSET log
      BY <1>2 DEF PageInv, Unseen
    <3>3. reader.page * reader.size \in Nat
      BY <1>7
    <3>4. \A s \in Unseen : Before(s, log) >= reader.page * reader.size
      BY <2>2, <3>1
    <3>5. Cardinality(log) <= n + 0
      BY <1>5 DEF n
    <3> QED BY <1>5, <2>3, <3>2, <3>3, <3>4, <3>5, UnseenAreFew
  <2> QED BY <1>1, <1>8, <2>1, <2>2, <2>3
<1> QED BY <1>3, <1>4, <1>9, <1>10 DEF LogsInv

LEMMA RowStandsAt ==
    ASSUME LogsConstantsFit, NEW rows \in SUBSET Logs!Row, IsFiniteSet(rows),
           NEW k \in Nat, k < Cardinality(rows)
    PROVE  \E r \in rows : Before(r, rows) = k
<1> DEFINE s == Logs!Ordered(rows)
<1>1. Sorted(s, rows)
  BY OrderedIsSorted
<1>2. k + 1 \in 1..Cardinality(rows)
  BY FS_CardinalityType
<1> HIDE DEF s
<1>3. s[k + 1] \in rows
  BY <1>1, <1>2 DEF Sorted
<1>4. Before(s[k + 1], rows) = (k + 1) - 1
  BY <1>1, <1>2, SortedPlaces
<1> QED BY <1>3, <1>4

\* The page that is read: on a walk, the page asked for.
LEMMA OffsetFits ==
    ASSUME LogsConstantsFit, PageInv, reader.list = "log" => reader.total # NotRead
    PROVE  /\ Logs!OffsetPage \in Nat \ {0} /\ Logs!OffsetPage <= reader.page
           /\ reader.list = "log" =>
                Logs!OffsetPage <= Logs!TotalPages(reader.total, reader.size)
           /\ WalkInv /\ reader.walk => Logs!OffsetPage = reader.page
<1>1. /\ reader.page \in Nat \ {0} /\ reader.size \in Nat \ {0}
      /\ reader.total # NotRead => reader.total \in Nat
      /\ reader.list \in {"log", "runs"}
  BY ReaderFits
<1>2. CASE reader.list = "log"
  <2> DEFINE pages == Logs!TotalPages(reader.total, reader.size)
  <2>1. pages \in Nat \ {0}
    BY <1>1, <1>2, PagesFit
  <2>2. WalkInv /\ reader.walk => reader.page <= pages
    BY <1>2 DEF WalkInv
  <2>3. Logs!OffsetPage = Logs!Min({reader.page, pages})
    BY <1>2 DEF Logs!OffsetPage
  <2> HIDE DEF pages
  <2>4. Logs!Min({reader.page, pages}) = IF reader.page <= pages THEN reader.page ELSE pages
    BY <1>1, <2>1, LogPairs
  <2>5. Logs!OffsetPage = IF reader.page <= pages THEN reader.page ELSE pages
    BY <2>3, <2>4
  <2> QED BY <1>1, <2>1, <2>2, <2>5 DEF pages
<1>3. CASE reader.list = "runs"
  BY <1>1, <1>3 DEF Logs!OffsetPage
<1> QED BY <1>1, <1>2, <1>3

LEMMA ReadRowsKeeps ==
    ASSUME LogsConstantsFit, LogsInv, Logs!ReadRows
    PROVE  LogsInv'
<1> DEFINE page == Logs!OffsetPage
           offset == (page - 1) * reader.size
           shown == {r \in log : offset <= Before(r, log) /\ Before(r, log) < offset + reader.size}
           read == {Logs!Ordered(log)[i] :
                i \in (offset + 1)..Logs!Min({offset + reader.size, Logs!Cardinality(log)})}
           n == Cardinality(log)
<1>1. /\ visits > 0 /\ reader.rows = NotRead
      /\ reader.list = "log" => reader.total # NotRead
      /\ reader' = [reader EXCEPT !.rows = read, !.seen = @ \cup read]
      /\ UNCHANGED <<micro, pending, log, file, visits>>
  BY DEF Logs!ReadRows
<1>2. RowsInv /\ FileInv /\ PageInv /\ WalkInv
  BY DEF LogsInv
<1>3. log \in SUBSET Logs!Row /\ IsFiniteSet(log) /\ n \in Nat
  <2>1. log \in SUBSET Logs!Row /\ IsFiniteSet(log)
    BY <1>2 DEF RowsInv
  <2> QED BY <2>1, FS_CardinalityType
<1>4. /\ reader.page \in Nat \ {0} /\ reader.size \in Nat \ {0}
      /\ reader.total # NotRead => reader.total \in Nat
      /\ reader.list \in {"log", "runs"} /\ reader.late \in Nat /\ reader.walk \in BOOLEAN
      /\ reader.start \in RowSets /\ reader.seen \in RowSets
  BY <1>2, ReaderFits
<1>5. /\ page \in Nat \ {0} /\ page <= reader.page
      /\ reader.list = "log" => page <= Logs!TotalPages(reader.total, reader.size)
      /\ reader.walk => page = reader.page
  BY <1>1, <1>2, OffsetFits
<1> HIDE DEF page
<1>6. offset \in Nat /\ page * reader.size \in Nat /\ offset + reader.size = page * reader.size
  BY <1>4, <1>5
<1> HIDE DEF offset
<1>7. read = shown
  <2>1. reader.size \in Nat
    BY <1>4
  <2> QED BY <1>3, <1>6, <2>1, RowsAtOffset
<1>8. shown \subseteq log /\ shown \in RowSets
  BY <1>3 DEF RowSets
<1>9. ASSUME reader.list = "log", reader.total > 0 PROVE shown # {}
  <2>1. offset < reader.total
    BY <1>1, <1>4, <1>5, <1>9, PageBegins DEF offset
  <2>2. reader.total <= n
    BY <1>1, <1>2, <1>9 DEF PageInv
  <2>3. offset < n
    BY <1>1, <1>3, <1>4, <1>6, <1>9, <2>1, <2>2
  <2>4. PICK r \in log : Before(r, log) = offset
    BY <1>3, <1>6, <2>3, RowStandsAt
  <2>5. offset <= offset /\ offset < offset + reader.size
    BY <1>4, <1>6
  <2> QED BY <2>4, <2>5
<1>10. \A r \in log : Before(r, log) \in Nat
  BY <1>3, BeforeFits
<1>11. \A r \in log : r \notin shown /\ Before(r, log) >= offset =>
                          Before(r, log) >= page * reader.size
  BY <1>4, <1>6, <1>10
<1> HIDE DEF read, shown, n
<1>12. shown # NotRead
  BY <1>8 DEF RowSets, LogsConstantsFit
<1>13. /\ reader' \in Readers
       /\ reader'.list = reader.list /\ reader'.page = reader.page /\ reader'.size = reader.size
       /\ reader'.total = reader.total /\ reader'.rows = shown
       /\ reader'.walk = reader.walk /\ reader'.start = reader.start
       /\ reader'.seen = reader.seen \cup shown /\ reader'.late = reader.late
  <2>1. reader' = [reader EXCEPT !.rows = shown, !.seen = reader.seen \cup shown]
    BY <1>1, <1>7
  <2>2. reader.seen \cup shown \in RowSets
    BY <1>4, <1>8 DEF RowSets
  <2>3. reader \in Readers
    BY <1>2 DEF PageInv
  <2> QED BY <1>8, <2>1, <2>2, <2>3 DEF Readers
<1>14. RowsInv'
  BY <1>1, <1>2 DEF RowsInv
<1>15. FileInv'
  BY <1>1, <1>2, FileStays
<1>16. PageInv'
  BY <1>1, <1>2, <1>9, <1>12, <1>13 DEF PageInv
<1>17. WalkInv'
  <2> SUFFICES ASSUME reader.walk
               PROVE  /\ \A s \in Unseen' : Before(s, log') >= PagesRead' * reader'.size
                      /\ reader'.page <= Logs!TotalPages(
                             IF reader'.total = NotRead THEN Cardinality(log')
                             ELSE reader'.total, reader'.size)
                      /\ reader'.total # NotRead /\ reader'.rows # NotRead
                            /\ reader'.page * reader'.size >= reader'.total =>
                                Cardinality(Unseen') <= reader'.late
    BY <1>13 DEF WalkInv
  <2>1. /\ \A s \in Unseen : Before(s, log) >= PagesRead * reader.size
        /\ reader.page <= Logs!TotalPages(IF reader.total = NotRead THEN n
                                          ELSE reader.total, reader.size)
    BY <1>2 DEF WalkInv, n
  <2>2. page = reader.page /\ PagesRead * reader.size = offset
    BY <1>1, <1>5 DEF PagesRead, offset
  <2>3. PagesRead' = page
    BY <1>12, <1>13, <2>2 DEF PagesRead
  <2>4. \A s \in Unseen' : s \in Unseen /\ s \in log /\ s \notin shown
    BY <1>2, <1>13 DEF Unseen, PageInv
  <2>5. \A s \in Unseen' : Before(s, log) >= page * reader.size
    BY <1>11, <2>1, <2>2, <2>4
  <2>6. ASSUME reader.total # NotRead, reader.page * reader.size >= reader.total
        PROVE  Cardinality(Unseen') <= reader.late
    <3>1. n = reader.total + reader.late
      BY <1>1, <1>2, <2>6 DEF PageInv, n
    <3>2. Unseen' \in SUBSET log
      BY <2>4
    <3>3. n <= reader.total + reader.late
      BY <1>3, <3>1
    <3>4. reader.total \in Nat /\ page * reader.size >= reader.total
      BY <1>4, <2>2, <2>6
    <3> DEFINE T == Unseen'
    <3>5. T \in SUBSET log /\ \A s \in T : Before(s, log) >= page * reader.size
      BY <2>5, <3>2
    <3> HIDE DEF T
    <3>6. Cardinality(T) <= reader.late
      BY <1>3, <1>4, <1>6, <3>3, <3>4, <3>5, UnseenAreFew DEF n
    <3> QED BY <3>6 DEF T
  <2> QED BY <1>1, <1>13, <2>1, <2>2, <2>3, <2>5, <2>6 DEF n
<1> QED BY <1>14, <1>15, <1>16, <1>17 DEF LogsInv

\* What the pager says of the page shown.
LEMMA PagerShows ==
    ASSUME LogsConstantsFit, PageInv, WalkInv, Logs!PageShown
    PROVE  LET pages == Logs!TotalPages(reader.total, reader.size) IN
           /\ pages \in Nat \ {0} /\ Logs!Pager.here \in 1..pages
           /\ Logs!Pager.hasNext = (Logs!Pager.here < pages)
           /\ reader.walk => Logs!Pager.here = reader.page
<1> DEFINE pages == Logs!TotalPages(reader.total, reader.size)
           asked == IF reader.list = "log" THEN Logs!OffsetPage ELSE reader.page
           here == Logs!Clamp(asked, pages)
<1>1. reader.total # NotRead /\ reader.rows # NotRead
  BY DEF Logs!PageShown
<1>2. /\ reader.page \in Nat \ {0} /\ reader.size \in Nat \ {0} /\ reader.total \in Nat
      /\ reader.walk \in BOOLEAN
  BY <1>1, ReaderFits
<1>3. Logs!OffsetPage \in Nat \ {0} /\ (reader.walk => Logs!OffsetPage = reader.page)
  BY <1>1, OffsetFits
<1>4. asked \in Int /\ (reader.walk => asked = reader.page)
  BY <1>2, <1>3
<1>5. Logs!Pager = Logs!BuildPaginationModel(asked, reader.size, reader.total)
  BY DEF Logs!Pager
<1> HIDE DEF asked
<1>6. /\ pages \in Nat \ {0} /\ here \in 1..pages
      /\ Logs!Pager.here = here /\ Logs!Pager.hasNext = (here < pages)
  <2> DEFINE m == Logs!BuildPaginationModel(asked, reader.size, reader.total)
  <2>1. asked \in Int /\ reader.size \in Nat \ {0} /\ reader.total \in Nat
    BY <1>2, <1>4
  <2>2. pages \in Nat \ {0} /\ here \in 1..pages
    BY <2>1, PagerFits
  <2>3. m = [pages |-> pages, here |-> here,
             hasPrev |-> here > 1, hasNext |-> here < pages,
             desktop |-> Logs!DesktopPages(here, pages),
             compact |-> Logs!CompactPages(here, pages),
             jump |-> IF pages > 5 THEN 1..pages ELSE {}]
    BY DEF Logs!BuildPaginationModel
  <2>4. Logs!Pager = m
    BY <1>5
  <2> HIDE DEF m, here, pages
  <2>5. m.here = here /\ m.hasNext = (here < pages)
    BY <2>3
  <2> QED BY <2>2, <2>4, <2>5
<1>7. reader.walk => reader.page <= pages
  BY <1>1 DEF WalkInv
<1> HIDE DEF pages
<1>8. reader.walk => here = reader.page
  <2>1. reader.walk => asked \in 1..pages
    BY <1>2, <1>4, <1>6, <1>7
  <2> QED BY <1>4, <1>6, <2>1, ClampFits
<1> QED BY <1>6, <1>8 DEF pages

LEMMA FollowNextKeeps ==
    ASSUME LogsConstantsFit, LogsInv, Logs!FollowNext
    PROVE  LogsInv'
<1> DEFINE pages == Logs!TotalPages(reader.total, reader.size)
           here == Logs!Pager.here
           page == Logs!GetNumberParam(here + 1, 1, 1, LastPage)
           n == Cardinality(log)
<1>1. /\ Logs!PageShown /\ Logs!Pager.hasNext /\ visits < MaxVisits /\ visits' = visits + 1
      /\ reader' = [reader EXCEPT !.page = page, !.total = NotRead, !.rows = NotRead]
      /\ UNCHANGED <<micro, pending, log, file>>
  BY DEF Logs!FollowNext, Logs!GetPagination
<1>2. RowsInv /\ FileInv /\ PageInv /\ WalkInv
  BY DEF LogsInv
<1>3. /\ pages \in Nat \ {0} /\ here \in 1..pages /\ here < pages
      /\ reader.walk => here = reader.page
  BY <1>1, <1>2, PagerShows
<1>4. /\ reader.page \in Nat \ {0} /\ reader.size \in Nat \ {0} /\ reader.total \in Nat
      /\ reader.walk \in BOOLEAN
  BY <1>1, <1>2, ReaderFits DEF Logs!PageShown
<1>5. log \in SUBSET Logs!Row /\ IsFiniteSet(log) /\ n \in Nat
  <2>1. log \in SUBSET Logs!Row /\ IsFiniteSet(log)
    BY <1>2 DEF RowsInv
  <2> QED BY <2>1, FS_CardinalityType
<1>6. pages <= Logs!TotalPages(n, reader.size) /\ Logs!TotalPages(n, reader.size) \in Nat
  <2>1. reader.total <= n
    BY <1>1, <1>2 DEF PageInv, Logs!PageShown
  <2>2. Logs!TotalPages(n, reader.size) \in Nat
    BY <1>4, <1>5, PagesFit
  <2> QED BY <1>4, <1>5, <2>1, <2>2, PagesGrow
<1> HIDE DEF here, pages
<1>7. page \in PageNumbers /\ page \in Nat \ {0} /\ page <= here + 1
  <2>1. page \in 1..LastPage /\ page <= here + 1
    <3>1. here + 1 \in Int /\ 1 <= here + 1
      BY <1>3
    <3> QED BY <3>1, ParamFits DEF LogsConstantsFit
  <2> HIDE DEF page
  <2> QED BY <2>1 DEF PageNumbers, LogsConstantsFit
<1> HIDE DEF page
<1>8. /\ reader' \in Readers
      /\ reader'.list = reader.list /\ reader'.page = page /\ reader'.size = reader.size
      /\ reader'.total = NotRead /\ reader'.rows = NotRead
      /\ reader'.walk = reader.walk /\ reader'.start = reader.start /\ reader'.seen = reader.seen
  BY <1>1, <1>2, <1>7 DEF PageInv, Readers
<1>9. RowsInv'
  <2>1. micro' \in 0..MaxMicro /\ visits' \in 0..MaxVisits
    BY <1>1, <1>2 DEF RowsInv, LogsConstantsFit
  <2> QED BY <1>1, <1>2, <2>1, RowsStay
<1>10. FileInv'
  BY <1>1, <1>2, FileStays
<1>11. PageInv'
  BY <1>1, <1>2, <1>8 DEF PageInv
<1>12. WalkInv'
  <2> SUFFICES ASSUME reader.walk
               PROVE  /\ \A s \in Unseen' : Before(s, log') >= PagesRead' * reader'.size
                      /\ reader'.page <= Logs!TotalPages(Cardinality(log'), reader'.size)
    BY <1>8 DEF WalkInv
  <2>1. \A s \in Unseen : Before(s, log) >= PagesRead * reader.size
    BY <1>2 DEF WalkInv
  <2>2. PagesRead = reader.page /\ PagesRead' = page - 1 /\ Unseen' = Unseen
    BY <1>1, <1>8 DEF PagesRead, Unseen, Logs!PageShown
  <2>3. page - 1 <= reader.page /\ page - 1 \in Nat
    BY <1>3, <1>4, <1>7
  <2>4. /\ (page - 1) * reader.size <= reader.page * reader.size
        /\ (page - 1) * reader.size \in Nat /\ reader.page * reader.size \in Nat
    BY <1>4, <2>3
  <2>5. \A s \in Unseen : Before(s, log) \in Nat
    <3>1. \A s \in Unseen : s \in log
      BY <1>2 DEF Unseen, PageInv
    <3> QED BY <1>5, <3>1, BeforeFits
  <2>6. \A s \in Unseen : Before(s, log) >= (page - 1) * reader.size
    BY <2>1, <2>2, <2>4, <2>5
  <2>7. page <= Logs!TotalPages(n, reader.size)
    BY <1>3, <1>6, <1>7
  <2> QED BY <1>1, <1>8, <2>2, <2>6, <2>7 DEF n
<1> QED BY <1>9, <1>10, <1>11, <1>12 DEF LogsInv

(***************************************************************************)
(* An export                                                               *)
(***************************************************************************)

\* The time a Date keeps of a row: no later, and of the same millisecond only.
LEMMA FloorFits ==
    ASSUME LogsConstantsFit, NEW r \in Logs!Row
    PROVE  /\ Floored(r).at = 2 * Logs!Milli(r.at) /\ Floored(r).id = r.id
           /\ \A s \in Logs!Row : Logs!Newer(Floored(r), s) => Logs!Newer(r, s)
           /\ \A s \in Logs!Row : Logs!Newer(r, s) =>
                  Logs!Newer(Floored(r), s) \/ Logs!Milli(r.at) = Logs!Milli(s.at)
<1>1. r.at \in Nat /\ r = [id |-> r.id, at |-> r.at]
  BY RowFields
<1>2. Floored(r).at = 2 * Logs!Milli(r.at) /\ Floored(r).id = r.id
  BY <1>1 DEF Floored
<1>3. \A t \in Nat : Logs!Milli(t) \in Nat /\ 2 * Logs!Milli(t) <= t /\ t <= 2 * Logs!Milli(t) + 1
  BY DEF Logs!Milli
<1> DEFINE f == Floored(r).at
<1>4. f \in Nat /\ f <= r.at
  BY <1>1, <1>2, <1>3
<1>5. ASSUME NEW s \in Logs!Row, Logs!Newer(Floored(r), s) PROVE Logs!Newer(r, s)
  <2>1. s.at \in Nat /\ s.id \in Nat /\ r.id \in Nat
    BY RowFields
  <2>2. f > s.at \/ (f = s.at /\ r.id > s.id)
    BY <1>2, <1>5 DEF Logs!Newer
  <2> HIDE DEF f
  <2>3. r.at > s.at \/ (r.at = s.at /\ r.id > s.id)
    BY <1>1, <1>4, <2>1, <2>2
  <2> QED BY <2>3 DEF Logs!Newer
<1>6. ASSUME NEW s \in Logs!Row, Logs!Newer(r, s), Logs!Milli(r.at) # Logs!Milli(s.at)
      PROVE  Logs!Newer(Floored(r), s)
  <2> DEFINE m == Logs!Milli(r.at)
             k == Logs!Milli(s.at)
  <2>1. s.at \in Nat /\ r.at >= s.at
    BY <1>1, <1>6, RowFields DEF Logs!Newer
  <2>2. m \in Nat /\ k \in Nat /\ r.at <= 2 * m + 1 /\ 2 * k <= s.at /\ s.at <= 2 * k + 1
        /\ 2 * m <= r.at
    BY <1>1, <1>3, <2>1
  <2>3. m # k
    BY <1>6
  <2> HIDE DEF m, k
  <2>4. k < m
    BY <1>1, <2>1, <2>2, <2>3
  <2>5. 2 * m > s.at
    BY <2>1, <2>2, <2>4
  <2> QED BY <1>2, <2>5 DEF Logs!Newer, m
<1> QED BY <1>2, <1>5, <1>6

\* A batch holds in order what stands next behind the cursor.
LEMMA BatchFits ==
    ASSUME LogsConstantsFit, RowsInv
    PROVE  LET batch == Logs!BatchAfter IN
           /\ batch \in Seq(log)
           /\ \A i \in 1..Len(batch) : Ahead(file, batch[i])
           /\ \A i, j \in 1..Len(batch) : i < j => Logs!Newer(batch[i], batch[j])
           /\ \A r \in log : Ahead(file, r) =>
                /\ batch # <<>>
                /\ \/ \E i \in 1..Len(batch) : batch[i] = r
                   \/ Logs!Newer(batch[Len(batch)], r)
<1> DEFINE behind == {r \in log : Ahead(file, r)}
           s == Logs!Ordered(behind)
           n == Cardinality(behind)
           m == Logs!Min({BatchSize, Len(s)})
           batch == Logs!BatchAfter
<1>1. behind \in SUBSET Logs!Row /\ IsFiniteSet(behind) /\ behind \subseteq log
  <2>1. behind \subseteq log
    OBVIOUS
  <2>2. log \in SUBSET Logs!Row /\ IsFiniteSet(log)
    BY DEF RowsInv
  <2> HIDE DEF behind
  <2> QED BY <2>1, <2>2, FS_Subset
<1>2. batch = SubSeq(s, 1, m)
  BY DEF Logs!BatchAfter, Ahead, Floored, Logs!Last
<1>3. \A r \in behind : Ahead(file, r)
  OBVIOUS
<1>4. \A r \in log : Ahead(file, r) => r \in behind
  OBVIOUS
<1> HIDE DEF behind, batch
<1>5. n \in Nat
  BY <1>1, FS_CardinalityType
<1>6. Sorted(s, behind)
  BY <1>1, OrderedIsSorted
<1> HIDE DEF s
<1>7. \A r \in behind : \E i \in 1..n : r = s[i]
  BY <1>1, <1>6, SortedPlaces
<1>8. /\ s \in [1..n -> behind]
      /\ \A i, j \in 1..n : i < j => Logs!Newer(s[i], s[j])
  BY <1>6 DEF Sorted
<1> HIDE DEF n
<1>9. s \in Seq(behind) /\ Len(s) = n
  BY <1>5, <1>8
<1>10. m = IF BatchSize <= n THEN BatchSize ELSE n
  <2>1. BatchSize \in Int /\ n \in Int
    BY <1>5 DEF LogsConstantsFit
  <2> QED BY <1>9, <2>1, LogPairs
<1>11. m \in Nat /\ m <= n /\ (n > 0 => m > 0)
  BY <1>5, <1>10 DEF LogsConstantsFit
<1> HIDE DEF m
<1>12. /\ batch \in Seq(behind) /\ Len(batch) = m
       /\ \A i \in 1..m : batch[i] = s[i]
  <2>1. 1 \in Int /\ m \in Int /\ \A i \in 1..m : s[i] \in behind
    BY <1>5, <1>8, <1>11
  <2>2. /\ SubSeq(s, 1, m) \in Seq(behind)
        /\ Len(SubSeq(s, 1, m)) = IF 1 <= m THEN m - 1 + 1 ELSE 0
        /\ \A i \in 1..(m - 1 + 1) : SubSeq(s, 1, m)[i] = s[1 + i - 1]
    BY <2>1, SubSeqProperties
  <2>3. m - 1 + 1 = m /\ \A i \in 1..m : 1 + i - 1 = i
    BY <1>11
  <2>4. Len(SubSeq(s, 1, m)) = m
    BY <1>11, <2>2
  <2>5. \A i \in 1..m : SubSeq(s, 1, m)[i] = s[i]
    BY <2>2, <2>3
  <2> QED BY <1>2, <2>2, <2>4, <2>5
<1>13. batch \in Seq(log)
  BY <1>1, <1>12
<1>14. \A i \in 1..m : i \in 1..n /\ batch[i] = s[i]
  BY <1>5, <1>11, <1>12
<1>15. \A i \in 1..m : Ahead(file, batch[i])
  BY <1>3, <1>8, <1>14
<1>16. \A i, j \in 1..m : i < j => Logs!Newer(batch[i], batch[j])
  BY <1>8, <1>14
<1>17. ASSUME NEW r \in log, Ahead(file, r)
       PROVE  /\ batch # <<>>
              /\ \/ \E i \in 1..m : batch[i] = r
                 \/ Logs!Newer(batch[m], r)
  <2>1. PICK i \in 1..n : r = s[i]
    BY <1>4, <1>7, <1>17
  <2>2. n > 0 /\ m > 0 /\ m \in 1..m /\ m \in 1..n
    BY <1>5, <1>11
  <2>3. batch # <<>>
    BY <1>12, <2>2
  <2>4. CASE i <= m
    <3>1. i \in 1..m
      BY <2>4, <1>11
    <3> QED BY <1>14, <2>1, <2>3, <3>1
  <2>5. CASE ~(i <= m)
    <3>1. m < i
      BY <1>11, <2>5
    <3>2. Logs!Newer(s[m], s[i])
      BY <1>8, <2>2, <3>1
    <3> QED BY <1>14, <2>1, <2>2, <2>3, <3>2
  <2> QED BY <2>4, <2>5
<1> QED BY <1>12, <1>13, <1>15, <1>16, <1>17 DEF batch

LEMMA StartExportKeeps ==
    ASSUME LogsConstantsFit, LogsInv, Logs!StartExport
    PROVE  LogsInv'
<1>1. /\ file' = [open |-> TRUE, done |-> FALSE, start |-> log, rows |-> <<>>, ends |-> {}]
      /\ UNCHANGED <<micro, pending, log, reader, visits>>
  BY DEF Logs!StartExport, Logs!NoFile
<1>2. RowsInv /\ PageInv /\ WalkInv
  BY DEF LogsInv
<1>3. RowsInv'
  BY <1>1, <1>2 DEF RowsInv
<1>4. PageInv' /\ WalkInv'
  BY <1>1, <1>2, PageStays
<1>5. FileInv'
  <2>1. file' \in Files
    <3>1. log \in SUBSET Logs!Row /\ {} \in SUBSET Logs!Row /\ <<>> \in Seq(Logs!Row)
      BY <1>2 DEF RowsInv
    <3> QED BY <1>1, <3>1 DEF Files
  <2>2. /\ file'.start = log /\ log' = log /\ file'.rows = <<>> /\ ~file'.done
        /\ Len(file'.rows) = 0
    BY <1>1
  <2> QED BY <2>1, <2>2 DEF FileInv, Ahead
<1> QED BY <1>3, <1>4, <1>5 DEF LogsInv

LEMMA ExportFailsKeeps ==
    ASSUME LogsConstantsFit, LogsInv, Logs!ExportFails
    PROVE  LogsInv'
<1>1. /\ file' = [file EXCEPT !.open = FALSE]
      /\ UNCHANGED <<micro, pending, log, reader, visits>>
  BY DEF Logs!ExportFails
<1>2. RowsInv /\ FileInv /\ PageInv /\ WalkInv
  BY DEF LogsInv
<1>3. RowsInv'
  BY <1>1, <1>2 DEF RowsInv
<1>4. PageInv' /\ WalkInv'
  BY <1>1, <1>2, PageStays
<1>5. FileInv'
  <2>1. /\ file' \in Files
        /\ file'.done = file.done /\ file'.start = file.start /\ file'.rows = file.rows
        /\ file'.ends = file.ends
    BY <1>1, <1>2 DEF FileInv, Files
  <2> QED BY <1>1, <1>2, <2>1 DEF FileInv, Ahead, Twin
<1> QED BY <1>3, <1>4, <1>5 DEF LogsInv

LEMMA NextBatchKeeps ==
    ASSUME LogsConstantsFit, LogsInv, Logs!NextBatch
    PROVE  LogsInv'
<1> DEFINE batch == Logs!BatchAfter
           n == Len(file.rows)
           m == Len(batch)
<1>1. /\ file' = IF batch = <<>> THEN [file EXCEPT !.open = FALSE, !.done = TRUE]
                 ELSE [file EXCEPT !.rows = @ \o batch, !.ends = @ \cup {Logs!Last(batch)}]
      /\ UNCHANGED <<micro, pending, log, reader, visits>>
  BY DEF Logs!NextBatch
<1>2. RowsInv /\ FileInv /\ PageInv /\ WalkInv
  BY DEF LogsInv
<1>3. RowsInv'
  BY <1>1, <1>2 DEF RowsInv
<1>4. PageInv' /\ WalkInv'
  BY <1>1, <1>2, PageStays
<1>5. /\ batch \in Seq(log)
      /\ \A i \in 1..m : Ahead(file, batch[i])
      /\ \A i, j \in 1..m : i < j => Logs!Newer(batch[i], batch[j])
      /\ \A r \in log : Ahead(file, r) =>
           /\ batch # <<>>
           /\ \/ \E i \in 1..m : batch[i] = r
              \/ Logs!Newer(batch[m], r)
  BY <1>2, BatchFits
<1>6. /\ file \in Files /\ file.start \subseteq log
      /\ \A i, j \in 1..n : i < j => Logs!Newer(file.rows[i], file.rows[j])
      /\ \A r \in file.start :
            \/ \E i \in 1..n : file.rows[i] = r
            \/ Twin(file, r)
            \/ ~file.done /\ Ahead(file, r)
  BY <1>2 DEF FileInv
<1>7. log \in SUBSET Logs!Row
  BY <1>2 DEF RowsInv
<1>8. /\ file.rows \in Seq(Logs!Row) /\ file.ends \in SUBSET Logs!Row
      /\ file.start \in SUBSET Logs!Row /\ file.open \in BOOLEAN /\ file.done \in BOOLEAN
  BY <1>6 DEF Files
<1>9. n \in Nat /\ \A i \in 1..n : file.rows[i] \in Logs!Row
  BY <1>8
<1>10. batch \in Seq(Logs!Row) /\ m \in Nat /\ \A i \in 1..m : batch[i] \in log
  BY <1>5, <1>7
<1> HIDE DEF batch
<1>11. FileInv'
  <2>1. CASE batch = <<>>
    <3>1. /\ file' \in Files
          /\ file'.done = TRUE /\ file'.start = file.start /\ file'.rows = file.rows
          /\ file'.ends = file.ends
      BY <1>1, <1>6, <2>1 DEF Files
    <3>2. \A r \in file.start : ~Ahead(file, r)
      BY <1>5, <1>6, <2>1
    <3> QED BY <1>1, <1>6, <3>1, <3>2 DEF FileInv, Twin
  <2>2. CASE batch # <<>>
    <3> DEFINE last == batch[m]
               rows == file.rows \o batch
    <3>1. m \in 1..m /\ last \in log /\ last \in Logs!Row /\ m > 0
      BY <1>7, <1>10, <2>2
    <3>2. /\ rows \in Seq(Logs!Row) /\ Len(rows) = n + m
          /\ \A i \in 1..n : rows[i] = file.rows[i]
          /\ \A i \in 1..m : rows[n + i] = batch[i]
      <4>1. /\ rows \in Seq(Logs!Row) /\ Len(rows) = n + m
            /\ \A i \in 1..(n + m) : rows[i] = IF i <= n THEN file.rows[i] ELSE batch[i - n]
        BY <1>8, <1>10, ConcatProperties
      <4> HIDE DEF rows
      <4>2. \A i \in 1..n : i \in 1..(n + m) /\ i <= n
        BY <1>9, <1>10
      <4>3. \A i \in 1..m : n + i \in 1..(n + m) /\ ~(n + i <= n) /\ (n + i) - n = i
        BY <1>9, <1>10
      <4> QED BY <4>1, <4>2, <4>3
    <3>3. /\ file' = [file EXCEPT !.rows = rows, !.ends = file.ends \cup {last}]
      BY <1>1, <2>2 DEF Logs!Last
    <3> HIDE DEF rows, last
    <3>4. /\ file' \in Files
          /\ file'.done = file.done /\ file'.start = file.start /\ file'.rows = rows
          /\ file'.ends = file.ends \cup {last}
      <4>1. file.ends \cup {last} \in SUBSET Logs!Row
        BY <1>8, <3>1
      <4> QED BY <1>6, <3>2, <3>3, <4>1 DEF Files
    <3>5. ASSUME NEW i \in 1..n, NEW j \in 1..m
          PROVE  Logs!Newer(file.rows[i], batch[j])
      <4>1. n \in 1..n /\ file.rows[n] \in Logs!Row /\ file.rows[i] \in Logs!Row
            /\ batch[j] \in Logs!Row
        BY <1>7, <1>9, <1>10
      <4>2. file.rows # <<>>
        BY <1>9
      <4>3. Logs!Newer(Floored(file.rows[n]), batch[j])
        BY <1>5, <4>2 DEF Ahead
      <4>4. Logs!Newer(file.rows[n], batch[j])
        BY <4>1, <4>3, FloorFits
      <4>5. CASE i = n
        BY <4>4, <4>5
      <4>6. CASE i # n
        <5>1. i < n
          BY <1>9, <4>6
        <5>2. Logs!Newer(file.rows[i], file.rows[n])
          BY <1>6, <4>1, <5>1
        <5> QED BY <4>1, <4>4, <5>2, NewerOrders
      <4> QED BY <4>5, <4>6
    <3>6. ASSUME NEW i \in 1..(n + m), NEW j \in 1..(n + m), i < j
          PROVE  Logs!Newer(rows[i], rows[j])
      <4>1. CASE j <= n
        <5>1. i \in 1..n /\ j \in 1..n
          BY <1>9, <3>6, <4>1
        <5> QED BY <1>6, <3>2, <3>6, <5>1
      <4>2. CASE i <= n /\ j > n
        <5>1. i \in 1..n /\ j - n \in 1..m /\ n + (j - n) = j
          BY <1>9, <1>10, <4>2
        <5>2. rows[i] = file.rows[i] /\ rows[j] = batch[j - n]
          BY <3>2, <5>1
        <5> QED BY <3>5, <5>1, <5>2
      <4>3. CASE i > n
        <5>1. /\ i - n \in 1..m /\ j - n \in 1..m /\ n + (i - n) = i /\ n + (j - n) = j
              /\ i - n < j - n
          BY <1>9, <1>10, <3>6, <4>3
        <5>2. rows[i] = batch[i - n] /\ rows[j] = batch[j - n]
          BY <3>2, <5>1
        <5> QED BY <1>5, <5>1, <5>2
      <4> QED BY <1>9, <4>1, <4>2, <4>3
    <3>7. n + m \in 1..(n + m) /\ rows[n + m] = last /\ rows # <<>>
      BY <1>9, <1>10, <3>1, <3>2 DEF last
    <3>8. ASSUME NEW r \in file.start
          PROVE  \/ \E i \in 1..(n + m) : rows[i] = r
                 \/ Twin(file', r)
                 \/ ~file.done /\ Ahead(file', r)
      <4>1. CASE \E i \in 1..n : file.rows[i] = r
        <5>1. PICK i \in 1..n : file.rows[i] = r
          BY <4>1
        <5>2. i \in 1..(n + m)
          <6> HIDE DEF n, m
          <6> QED BY <1>9, <1>10
        <5>3. rows[i] = r
          BY <3>2, <5>1
        <5> QED BY <5>2, <5>3
      <4>2. CASE Twin(file, r)
        BY <3>4, <4>2 DEF Twin
      <4>3. CASE ~file.done /\ Ahead(file, r)
        <5>1. r \in log /\ r \in Logs!Row
          BY <1>6, <1>7
        <5>2. \/ \E i \in 1..m : batch[i] = r
              \/ Logs!Newer(last, r)
          BY <1>5, <4>3, <5>1 DEF last
        <5>3. CASE \E i \in 1..m : batch[i] = r
          <6>1. PICK i \in 1..m : batch[i] = r
            BY <5>3
          <6>2. n + i \in 1..(n + m) /\ rows[n + i] = r
            BY <1>9, <1>10, <3>2, <6>1
          <6> QED BY <6>2
        <5>4. CASE Logs!Newer(last, r)
          <6>1. Logs!Newer(Floored(last), r) \/ Logs!Milli(last.at) = Logs!Milli(r.at)
            BY <3>1, <5>1, <5>4, FloorFits
          <6>2. Logs!Newer(Floored(last), r) => Ahead(file', r)
            BY <3>2, <3>4, <3>7 DEF Ahead
          <6>3. Logs!Milli(last.at) = Logs!Milli(r.at) => Twin(file', r)
            BY <3>4 DEF Twin
          <6> QED BY <4>3, <6>1, <6>2, <6>3
        <5> QED BY <5>2, <5>3, <5>4
      <4> QED BY <1>6, <4>1, <4>2, <4>3
    <3> HIDE DEF n, m
    <3> QED BY <1>1, <1>6, <3>2, <3>4, <3>6, <3>8 DEF FileInv
  <2> QED BY <2>1, <2>2
<1> QED BY <1>3, <1>4, <1>11 DEF LogsInv

LEMMA LogsInvNext ==
    ASSUME LogsConstantsFit, LogsInv, [Logs!Next]_(Logs!logVars)
    PROVE  LogsInv'
<1>1. CASE Logs!Tick
  BY <1>1, LogsTickKeeps
<1>2. CASE Logs!Stamp
  BY <1>2, StampKeeps
<1>3. ASSUME NEW r \in pending, Logs!Commit(r)
      PROVE  LogsInv'
  BY <1>3, CommitKeeps
<1>4. ASSUME NEW list \in {"log", "runs"}, NEW p \in RawPages, NEW s \in RawSizes,
             Logs!OpenList(list, p, s)
      PROVE  LogsInv'
  BY <1>4, OpenListKeeps
<1>5. CASE Logs!ReadCount
  BY <1>5, ReadCountKeeps
<1>6. CASE Logs!ReadRows
  BY <1>6, ReadRowsKeeps
<1>7. CASE Logs!FollowNext
  BY <1>7, FollowNextKeeps
<1>8. CASE Logs!StartExport
  BY <1>8, StartExportKeeps
<1>9. CASE Logs!NextBatch
  BY <1>9, NextBatchKeeps
<1>10. CASE Logs!ExportFails
  BY <1>10, ExportFailsKeeps
<1>11. CASE UNCHANGED Logs!logVars
  <2>1. UNCHANGED <<micro, pending, log, file, reader, visits>>
    BY <1>11 DEF Logs!logVars
  <2>2. RowsInv'
    BY <2>1 DEF LogsInv, RowsInv
  <2>3. FileInv'
    BY <2>1, FileStays DEF LogsInv
  <2>4. PageInv' /\ WalkInv'
    BY <2>1, PageStays DEF LogsInv
  <2> QED BY <2>2, <2>3, <2>4 DEF LogsInv
<1> QED BY <1>1, <1>2, <1>3, <1>4, <1>5, <1>6, <1>7, <1>8, <1>9, <1>10, <1>11 DEF Logs!Next

(***************************************************************************)
(* The listings: what the invariant gives                                  *)
(***************************************************************************)

LEMMA LogsInvTypes ==
    ASSUME LogsConstantsFit, LogsInv
    PROVE  Logs!TypeOK
<1>1. RowsInv /\ FileInv /\ PageInv
  BY DEF LogsInv
<1>2. micro \in 0..MaxMicro /\ visits \in 0..MaxVisits /\ pending \subseteq Logs!Row
      /\ log \subseteq Logs!Row
  BY <1>1 DEF RowsInv
<1>3. /\ file.start \subseteq Logs!Row /\ file.ends \subseteq Logs!Row
      /\ Logs!ToSet(file.rows) \subseteq Logs!Row
  <2>1. file.start \subseteq Logs!Row /\ file.ends \subseteq Logs!Row
        /\ file.rows \in Seq(Logs!Row)
    BY <1>1 DEF FileInv, Files
  <2>2. Logs!ToSet(file.rows) \subseteq Logs!Row
    BY <2>1 DEF Logs!ToSet
  <2> QED BY <2>1, <2>2
<1>4. reader \in Readers
  BY <1>1 DEF PageInv
<1>5. /\ reader.page \in PageNumbers /\ reader.size \in PageSizes
      /\ reader.rows = NotRead \/ reader.rows \in RowSets
      /\ reader.start \in RowSets /\ reader.seen \in RowSets
      /\ reader.total = NotRead \/ reader.total \in Nat
  BY <1>4 DEF Readers
<1>6. reader.total \in 0..MaxRows \cup {NotRead}
  <2> SUFFICES ASSUME reader.total # NotRead PROVE reader.total \in 0..MaxRows
    OBVIOUS
  <2>1. reader.total <= Cardinality(log)
    BY <1>1 DEF PageInv
  <2>2. Cardinality(log) <= Cardinality(pending \cup log) /\ Cardinality(log) \in Nat
        /\ Cardinality(pending \cup log) \in Nat
    <3>1. IsFiniteSet(pending \cup log)
      BY <1>1, FS_Union DEF RowsInv
    <3>2. IsFiniteSet(log) /\ Cardinality(log) <= Cardinality(pending \cup log)
      BY <3>1, FS_Subset
    <3> QED BY <3>1, <3>2, FS_CardinalityType
  <2>3. Cardinality(pending \cup log) <= MaxRows /\ MaxRows \in Nat
    BY <1>1 DEF RowsInv, LogsConstantsFit
  <2> QED BY <1>5, <2>1, <2>2, <2>3
<1> QED BY <1>2, <1>3, <1>5, <1>6 DEF Logs!TypeOK, PageNumbers, PageSizes, RowSets

LEMMA LogsInvExport ==
    ASSUME LogsInv
    PROVE  Logs!ExportMissesOnlyTwins
<1>1. /\ file.rows \in Seq(Logs!Row)
      /\ \A i, j \in 1..Len(file.rows) : i < j => Logs!Newer(file.rows[i], file.rows[j])
      /\ \A r \in file.start :
            \/ \E i \in 1..Len(file.rows) : file.rows[i] = r
            \/ Twin(file, r)
            \/ ~file.done /\ Ahead(file, r)
  BY DEF LogsInv, FileInv, Files
<1>2. DOMAIN file.rows = 1..Len(file.rows)
  BY <1>1
<1>3. ASSUME file.done, NEW r \in file.start \ Logs!ToSet(file.rows)
      PROVE  \E last \in file.ends : Logs!Milli(last.at) = Logs!Milli(r.at)
  <2>1. ~\E i \in 1..Len(file.rows) : file.rows[i] = r
    BY <1>2, <1>3 DEF Logs!ToSet
  <2>2. Twin(file, r)
    BY <1>1, <1>3, <2>1
  <2> QED BY <2>2 DEF Twin
<1> QED BY <1>1, <1>2, <1>3 DEF Logs!ExportMissesOnlyTwins

LEMMA LogsInvWalk ==
    ASSUME LogsConstantsFit, LogsInv
    PROVE  Logs!WalkMissesOnlyLateRows
<1> SUFFICES ASSUME reader.walk, Logs!PageShown, ~Logs!Pager.hasNext
             PROVE  Cardinality(reader.start \ reader.seen) <= reader.late
  BY DEF Logs!WalkMissesOnlyLateRows, Logs!Cardinality, Cardinality
<1> DEFINE pages == Logs!TotalPages(reader.total, reader.size)
<1>1. PageInv /\ WalkInv
  BY DEF LogsInv
<1>2. /\ pages \in Nat \ {0} /\ Logs!Pager.here \in 1..pages
      /\ Logs!Pager.hasNext = (Logs!Pager.here < pages) /\ Logs!Pager.here = reader.page
  BY <1>1, PagerShows
<1>3. reader.page \in Nat /\ reader.size \in Nat \ {0} /\ reader.total \in Nat
  BY <1>1, ReaderFits DEF Logs!PageShown
<1>4. reader.page >= pages
  <2> HIDE DEF pages
  <2>1. ~(reader.page < pages)
    BY <1>2
  <2> QED BY <1>2, <1>3, <2>1
<1>5. reader.page * reader.size >= reader.total
  BY <1>3, <1>4, PagesEnd
<1> QED BY <1>1, <1>5 DEF WalkInv, Unseen, Logs!PageShown

LEMMA LogsInvHolds ==
    ASSUME LogsConstantsFit, LogsInv
    PROVE  /\ Logs!ExportMissesOnlyTwins
           /\ Logs!WalkMissesOnlyLateRows
           /\ Logs!LogPagesAreNotEmpty
           /\ Logs!PagerReachesEveryPage
<1>1. Logs!ExportMissesOnlyTwins
  BY LogsInvExport
<1>2. Logs!WalkMissesOnlyLateRows
  BY LogsInvWalk
<1>3. Logs!LogPagesAreNotEmpty
  BY DEF LogsInv, PageInv, Logs!LogPagesAreNotEmpty, Logs!PageShown
<1>4. Logs!PagerReachesEveryPage
  <2>1. (0..11) \subseteq Nat /\ (1..12) \subseteq Int
    OBVIOUS
  <2> QED BY <2>1, PagerReaches DEF Logs!PagerReachesEveryPage
<1> QED BY <1>1, <1>2, <1>3, <1>4

(***************************************************************************)
(* The subjects together                                                   *)
(***************************************************************************)

LEMMA ConstantsFit == TelemetryConstantsFit /\ UsageConstantsFit /\ LogsConstantsFit
BY CopilotAssumption DEF TelemetryConstantsFit, UsageConstantsFit, LogsConstantsFit

TelemetryInvariant == subject = "telemetry" => TelemetryInv
UsageInvariant == subject = "usage" => UsageInv
LogsInvariant == subject = "logs" => LogsInv

LEMMA TelemetrySteps ==
    ASSUME subject = "telemetry", [Next]_variables
    PROVE  subject' = "telemetry" /\ [Telemetry!Next]_(Telemetry!telemetryVars)
<1>1. subject' = "telemetry"
  BY DEF Next, Step, variables
<1>2. Telemetry!Next \/ UNCHANGED <<v1, v2, v3, v4, v5, v6, v7, v8>>
  BY DEF Next, Step, variables, from7
<1> QED BY <1>1, <1>2
    DEF Telemetry!telemetryVars, instant, trace, sessions, errs, hourly, sync, covered, syncs

LEMMA UsageSteps ==
    ASSUME subject = "usage", [Next]_variables
    PROVE  subject' = "usage" /\ [Usage!Next]_(Usage!usageVars)
<1>1. subject' = "usage"
  BY DEF Next, Step, variables
<1>2. Usage!Next \/ UNCHANGED <<v1, v2, v3, v4, v5, v6, v7, v8, v9, v10, v11>>
  BY DEF Next, Step, variables, from7, from9
<1> QED BY <1>1, <1>2
    DEF Usage!usageVars, time, history, dept, refused, allTime, active, table, usage, exported,
        usageRuns, moves

LEMMA LogsSteps ==
    ASSUME subject = "logs", [Next]_variables
    PROVE  subject' = "logs" /\ [Logs!Next]_(Logs!logVars)
<1>1. subject' = "logs"
  BY DEF Next, Step, variables
<1>2. Logs!Next \/ UNCHANGED <<v1, v2, v3, v4, v5, v6>>
  BY DEF Next, Step, variables
<1> QED BY <1>1, <1>2 DEF Logs!logVars, micro, pending, log, file, reader, visits

LEMMA SubjectStays ==
    ASSUME [Next]_variables
    PROVE  subject' = subject
BY DEF Next, Step, variables

LEMMA TelemetryIsKept == Spec => []TelemetryInvariant
<1>1. Init => TelemetryInvariant
  BY ConstantsFit, TelemetryInvInit DEF Init, TelemetryInvariant
<1>2. TelemetryInvariant /\ [Next]_variables => TelemetryInvariant'
  BY ConstantsFit, SubjectStays, TelemetrySteps, TelemetryInvNext DEF TelemetryInvariant
<1> QED BY <1>1, <1>2, PTL DEF Spec

LEMMA UsageIsKept == Spec => []UsageInvariant
<1>1. Init => UsageInvariant
  BY ConstantsFit, UsageInvInit DEF Init, UsageInvariant
<1>2. UsageInvariant /\ [Next]_variables => UsageInvariant'
  BY ConstantsFit, SubjectStays, UsageSteps, UsageInvNext DEF UsageInvariant
<1> QED BY <1>1, <1>2, PTL DEF Spec

LEMMA LogsIsKept == Spec => []LogsInvariant
<1>1. Init => LogsInvariant
  BY ConstantsFit, LogsInvInit DEF Init, LogsInvariant
<1>2. LogsInvariant /\ [Next]_variables => LogsInvariant'
  BY ConstantsFit, SubjectStays, LogsSteps, LogsInvNext DEF LogsInvariant
<1> QED BY <1>1, <1>2, PTL DEF Spec

\* (CopilotTelemetry) A run of the telemetry job that completes has, of every
\* conversation of its window, the session over the times of its messages, the
\* errors, and the exact hourly counts of the hours it does not cut; and every
\* session it calls escalated has an error to show for it.
THEOREM CompletedRunsAlwaysCover == Spec => []CompletedRunCovers
<1>1. TelemetryInvariant => CompletedRunCovers
  BY ConstantsFit, TelemetryInvCovers DEF TelemetryInvariant, CompletedRunCovers
<1> QED BY TelemetryIsKept, <1>1, PTL

\* (CopilotUsage) After a run in the default mode the hourly rows of every user it
\* exported are the prompts Graph answered with, under one department.
THEOREM SyncedUsersAlwaysMatch == Spec => []SyncedUsersMatchTheirExport
<1>1. UsageInvariant => SyncedUsersMatchTheirExport
  BY ConstantsFit, UsageInvSynced DEF UsageInvariant, SyncedUsersMatchTheirExport
<1> QED BY UsageIsKept, <1>1, PTL

\* (CopilotTelemetry, CopilotUsage) The figures of the pages that count the same
\* rows in different ways agree, whatever limits their queries have: sums by hour
\* and by user are the sum, what the ratio of the applications read says of a label
\* is in the chart, and all of it when none was cut off, and a department listed has
\* what the lines of its users have.
THEOREM FiguresAlwaysAgree == Spec => []FiguresAgree
<1>1. TelemetryInvariant => (subject = "telemetry" => Telemetry!FiguresAddUp)
  BY ConstantsFit, TelemetryInvFigures DEF TelemetryInvariant
<1>2. UsageInvariant => (subject = "usage" => Usage!UsagePagesAgree)
  BY ConstantsFit, UsageInvPages DEF UsageInvariant
<1>3. TelemetryInvariant /\ UsageInvariant => FiguresAgree
  BY <1>1, <1>2 DEF FiguresAgree
<1> QED BY TelemetryIsKept, UsageIsKept, <1>3, PTL

\* (CopilotTelemetry, CopilotUsage) No run lowers a count or deletes a row that it
\* has not fetched anew, but for the hour its window cuts.
THEOREM OnlyOwnRowsEverShrink == Spec => OnlyOwnRowsShrink
<1>1. TelemetryInvariant /\ UsageInvariant /\ [Next]_variables
        => [/\ subject = "telemetry" => Telemetry!CutHourShrinks
            /\ subject = "usage" => Usage!OwnRowsGo]_variables
  <2> SUFFICES ASSUME TelemetryInvariant, UsageInvariant, [Next]_variables
               PROVE  /\ subject = "telemetry" => Telemetry!CutHourShrinks
                      /\ subject = "usage" => Usage!OwnRowsGo
    OBVIOUS
  <2>1. subject = "telemetry" => Telemetry!CutHourShrinks
    BY ConstantsFit, TelemetrySteps, TelemetryInvShrinks DEF TelemetryInvariant
  <2>2. subject = "usage" => Usage!OwnRowsGo
    BY ConstantsFit, UsageSteps, UsageInvRowsGo DEF UsageInvariant
  <2> QED BY <2>1, <2>2
<1> QED BY TelemetryIsKept, UsageIsKept, <1>1, PTL DEF Spec, OnlyOwnRowsShrink

\* (LogPages) Whatever is logged meanwhile, an export lacks at most rows of the
\* millisecond in which a batch ended, a walk through the pages at most as many
\* as were logged between a count and its rows; no page is empty while there are
\* rows; and the pager leads from every page to every other.
THEOREM LogsAreAlwaysComplete == Spec => []LogsAreComplete
<1>1. LogsInvariant => LogsAreComplete
  BY ConstantsFit, LogsInvHolds DEF LogsInvariant, LogsAreComplete
<1> QED BY LogsIsKept, <1>1, PTL

\* Whichever subject a behaviour is about, its variables have their types.
THEOREM SubjectsHaveTheirTypes == Spec => []TypeOK
<1>1. TelemetryInvariant => (subject = "telemetry" => Telemetry!TypeOK)
  BY ConstantsFit, TelemetryInvTypes DEF TelemetryInvariant
<1>2. UsageInvariant => (subject = "usage" => Usage!TypeOK)
  BY ConstantsFit, UsageInvTypes DEF UsageInvariant
<1>3. LogsInvariant => (subject = "logs" => Logs!TypeOK)
  BY ConstantsFit, LogsInvTypes DEF LogsInvariant
<1>4. TelemetryInvariant /\ UsageInvariant /\ LogsInvariant => TypeOK
  BY <1>1, <1>2, <1>3 DEF TypeOK
<1> QED BY TelemetryIsKept, UsageIsKept, LogsIsKept, <1>4, PTL

================================================================================
