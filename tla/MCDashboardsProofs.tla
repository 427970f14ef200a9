-------------------------- MODULE MCDashboardsProofs --------------------------
(***************************************************************************)
(* Proofs about the dashboards: whatever is written and refreshed in       *)
(* whatever order, a view without a row in the queue shows the tables, and *)
(* so, once the queue is drained, the pages that count the same rows agree *)
(* and what they link to is there.                                         *)
(***************************************************************************)
EXTENDS MCDashboards, FiniteSetTheorems, WellFoundedInduction, TLAPS

(***************************************************************************)
(* Induction, on natural numbers and on finite sets                        *)
(***************************************************************************)

LEMMA NatInductive ==
    ASSUME NEW S, 0 \in S, \A n \in Nat : n \in S => n + 1 \in S
    PROVE  Nat \subseteq S
<1> DEFINE T == Nat \ S
<1>1. SUFFICES ASSUME T # {} PROVE FALSE
  OBVIOUS
<1>2. PICK n \in T : \A m \in T : <<m, n>> \notin OpToRel(<, Nat)
  BY <1>1, WFMin, NatLessThanWellFounded
<1>3. n # 0 /\ n - 1 \in Nat /\ n - 1 < n
  OBVIOUS
<1>4. <<n - 1, n>> \in OpToRel(<, Nat)
  BY <1>3 DEF OpToRel
<1>5. n - 1 \in S
  BY <1>2, <1>3, <1>4
<1>6. (n - 1) + 1 \in S
  BY <1>3, <1>5
<1>7. n \in S
  BY <1>3, <1>6
<1> QED BY <1>7

\* The family Good of subsets of S holds S if it holds {} and grows with any element.
LEMMA FiniteInductive ==
    ASSUME NEW S, IsFiniteSet(S), NEW Good, {} \in Good,
           \A T \in SUBSET S : \A x \in S \ T : T \in Good => T \cup {x} \in Good
    PROVE  S \in Good
<1> DEFINE Ns == {n \in Nat : \A T \in SUBSET S : Cardinality(T) = n => T \in Good}
<1>1. 0 \in Ns
  BY FS_EmptySet, FS_Subset
<1>2. ASSUME NEW n \in Nat, n \in Ns PROVE n + 1 \in Ns
  <2>1. SUFFICES ASSUME NEW T \in SUBSET S, Cardinality(T) = n + 1 PROVE T \in Good
    OBVIOUS
  <2>2. IsFiniteSet(T)
    BY FS_Subset
  <2>3. T # {}
    <3>1. Cardinality(T) # 0
      BY <2>1
    <3> QED BY <3>1, FS_EmptySet
  <2>4. PICK x \in T : TRUE
    BY <2>3
  <2>5. IsFiniteSet(T \ {x}) /\ Cardinality(T \ {x}) = (n + 1) - 1
    BY <2>1, <2>2, FS_RemoveElement
  <2>6. T \ {x} \in Good
    BY <1>2, <2>5
  <2>7. (T \ {x}) \cup {x} = T
    OBVIOUS
  <2>8. T \ {x} \in SUBSET S /\ x \in S \ (T \ {x})
    OBVIOUS
  <2> QED BY <2>6, <2>7, <2>8
<1>3. Nat \subseteq Ns
  BY <1>1, <1>2, NatInductive
<1>4. Cardinality(S) \in Nat
  BY FS_CardinalityType
<1> QED BY <1>3, <1>4

LEMMA HasLeast ==
    ASSUME NEW S, S \subseteq Nat, S # {}
    PROVE  \E n \in S : \A m \in S : n <= m
<1>1. PICK n \in S : \A m \in S : <<m, n>> \notin OpToRel(<, Nat)
  BY WFMin, NatLessThanWellFounded
<1>2. ASSUME NEW m \in S PROVE n <= m
  <2>1. ~(m < n)
    BY <1>1 DEF OpToRel
  <2> QED BY <2>1
<1> QED BY <1>2

\* The least by f and, of those with the same f, by g.
LEMMA HasFirst ==
    ASSUME NEW S, S # {}, NEW f, NEW g, \A x \in S : f[x] \in Nat /\ g[x] \in Nat
    PROVE  \E x \in S : \A y \in S : f[x] < f[y] \/ (f[x] = f[y] /\ g[x] <= g[y])
<1>1. PICK n \in {f[x] : x \in S} : \A m \in {f[x] : x \in S} : n <= m
  <2>1. {f[x] : x \in S} \subseteq Nat /\ {f[x] : x \in S} # {}
    OBVIOUS
  <2> QED BY <2>1, HasLeast
<1> DEFINE T == {x \in S : f[x] = n}
<1>2. PICK k \in {g[x] : x \in T} : \A m \in {g[x] : x \in T} : k <= m
  <2>1. {g[x] : x \in T} \subseteq Nat /\ {g[x] : x \in T} # {}
    BY <1>1
  <2> QED BY <2>1, HasLeast
<1>3. PICK x \in T : g[x] = k
  BY <1>2
<1>4. ASSUME NEW y \in S PROVE f[x] < f[y] \/ (f[x] = f[y] /\ g[x] <= g[y])
  <2>1. n <= f[y] /\ f[x] = n /\ f[y] \in Nat /\ n \in Nat
    BY <1>1, <1>3
  <2>2. CASE f[y] = n
    <3>1. k <= g[y]
      BY <1>2, <2>2
    <3> QED BY <1>3, <2>1, <2>2, <3>1
  <2>3. CASE f[y] # n
    BY <2>1, <2>3
  <2> QED BY <2>2, <2>3
<1> QED BY <1>3, <1>4

(***************************************************************************)
(* Finite sets                                                             *)
(***************************************************************************)

LEMMA ImageIsFinite ==
    ASSUME NEW S, IsFiniteSet(S), NEW g
    PROVE  IsFiniteSet({g[x] : x \in S}) /\ Cardinality({g[x] : x \in S}) <= Cardinality(S)
<1> DEFINE T == {g[x] : x \in S}
           h == [x \in S |-> g[x]]
<1>1. h \in Surjection(S, T)
  BY DEF Surjection
<1> QED BY <1>1, FS_Surjection

LEMMA DisjointCount ==
    ASSUME NEW S, NEW T, IsFiniteSet(S), IsFiniteSet(T), S \cap T = {}
    PROVE  IsFiniteSet(S \cup T) /\ Cardinality(S \cup T) = Cardinality(S) + Cardinality(T)
<1>1. IsFiniteSet(S \cup T)
      /\ Cardinality(S \cup T) = Cardinality(S) + Cardinality(T) - Cardinality(S \cap T)
  BY FS_Union
<1>2. Cardinality(S \cap T) = 0
  BY FS_EmptySet
<1>3. Cardinality(S) \in Nat /\ Cardinality(T) \in Nat
  BY FS_CardinalityType
<1> QED BY <1>1, <1>2, <1>3

(***************************************************************************)
(* Sums                                                                    *)
(***************************************************************************)

\* One round of the fold that adds a function's values up.
Round(f, g) ==
    [s \in SUBSET DOMAIN f |->
        IF s = {} THEN 0 ELSE f[CHOOSE y \in s : TRUE] + g[s \ {CHOOSE y \in s : TRUE}]]
Fold(f) == CHOOSE g : g = Round(f, g)

\* What is counted: f[x] things of every x of a set.
Pile(f, S) == UNION {{x} \X (1..f[x]) : x \in S}

LEMMA PileGrows ==
    ASSUME NEW f, NEW S, NEW x, x \notin S, f[x] \in Nat, IsFiniteSet(Pile(f, S))
    PROVE  /\ IsFiniteSet(Pile(f, S \cup {x}))
           /\ Cardinality(Pile(f, S \cup {x})) = Cardinality(Pile(f, S)) + f[x]
<1> DEFINE P == {x} \X (1..f[x])
<1>1. IsFiniteSet({x}) /\ Cardinality({x}) = 1
  BY FS_Singleton
<1>2. IsFiniteSet(1..f[x]) /\ Cardinality(1..f[x]) = f[x]
  <2>1. IsFiniteSet(1..f[x])
        /\ Cardinality(1..f[x]) = IF 1 > f[x] THEN 0 ELSE f[x] - 1 + 1
    BY FS_Interval
  <2> QED BY <2>1
<1>3. IsFiniteSet(P) /\ Cardinality(P) = f[x]
  <2>1. IsFiniteSet(P) /\ Cardinality(P) = Cardinality({x}) * Cardinality(1..f[x])
    BY <1>1, <1>2, FS_Product
  <2>2. 1 * f[x] = f[x]
    OBVIOUS
  <2> QED BY <1>1, <1>2, <2>1, <2>2
<1>4. Pile(f, S \cup {x}) = Pile(f, S) \cup P
  BY DEF Pile
<1>5. Pile(f, S) \cap P = {}
  BY DEF Pile
<1> HIDE DEF P
<1>6. /\ IsFiniteSet(Pile(f, S) \cup P)
      /\ Cardinality(Pile(f, S) \cup P) = Cardinality(Pile(f, S)) + Cardinality(P)
  BY <1>3, <1>5, DisjointCount
<1> QED BY <1>3, <1>4, <1>6

LEMMA PileIsFinite ==
    ASSUME NEW f, NEW S, IsFiniteSet(S), \A x \in S : f[x] \in Nat
    PROVE  IsFiniteSet(Pile(f, S))
<1> DEFINE Good == {T \in SUBSET S : IsFiniteSet(Pile(f, T))}
<1>1. {} \in Good
  <2>1. Pile(f, {}) = {}
    BY DEF Pile
  <2> QED BY <2>1, FS_EmptySet
<1>2. ASSUME NEW T \in SUBSET S, NEW x \in S \ T, T \in Good PROVE T \cup {x} \in Good
  BY <1>2, PileGrows
<1>3. S \in Good
  BY <1>1, <1>2, FiniteInductive
<1> QED BY <1>3

\* The fold of a function of finitely many counts is the size of its pile.
LEMMA FoldCounts ==
    ASSUME NEW f, IsFiniteSet(DOMAIN f), \A x \in DOMAIN f : f[x] \in Nat
    PROVE  Fold(f)[DOMAIN f] = Cardinality(Pile(f, DOMAIN f))
<1> DEFINE D == DOMAIN f
           g == [s \in SUBSET D |-> Cardinality(Pile(f, s))]
<1>1. \A s \in SUBSET D : IsFiniteSet(s) /\ IsFiniteSet(Pile(f, s))
  <2>1. ASSUME NEW s \in SUBSET D PROVE IsFiniteSet(s) /\ IsFiniteSet(Pile(f, s))
    <3>1. IsFiniteSet(s)
      BY FS_Subset
    <3> QED BY <3>1, PileIsFinite
  <2> QED BY <2>1
<1>2. g[{}] = 0
  <2>1. Pile(f, {}) = {}
    BY DEF Pile
  <2> QED BY <2>1, FS_EmptySet
<1>3. ASSUME NEW s \in SUBSET D, s # {}
      PROVE  g[s] = f[CHOOSE y \in s : TRUE] + g[s \ {CHOOSE y \in s : TRUE}]
  <2> DEFINE x == CHOOSE y \in s : TRUE
             r == s \ {x}
  <2>1. x \in s
    BY <1>3
  <2> HIDE DEF x
  <2>2. r \cup {x} = s /\ r \in SUBSET D
    BY <2>1
  <2>3. IsFiniteSet(Pile(f, r)) /\ f[x] \in Nat /\ x \notin r
    BY <1>1, <2>1, <2>2
  <2>4. Cardinality(Pile(f, r \cup {x})) = Cardinality(Pile(f, r)) + f[x]
    BY <2>3, PileGrows
  <2>5. Cardinality(Pile(f, r)) \in Nat
    BY <2>3, FS_CardinalityType
  <2>6. g[s] = f[x] + g[r]
    BY <2>2, <2>3, <2>4, <2>5
  <2> QED BY <2>6 DEF x
<1>4. g = Round(f, g)
  <2>1. ASSUME NEW s \in SUBSET D PROVE g[s] = Round(f, g)[s]
    <3>1. Round(f, g)[s] = IF s = {} THEN 0
                           ELSE f[CHOOSE y \in s : TRUE] + g[s \ {CHOOSE y \in s : TRUE}]
      BY DEF Round
    <3> QED BY <1>2, <1>3, <3>1
  <2>2. DOMAIN Round(f, g) = SUBSET D /\ Round(f, g) = [s \in SUBSET D |-> Round(f, g)[s]]
    BY DEF Round
  <2>3. g = [s \in SUBSET D |-> g[s]]
    OBVIOUS
  <2> HIDE DEF g
  <2> QED BY <2>1, <2>2, <2>3
<1>5. Fold(f) = Round(f, Fold(f))
  BY <1>4 DEF Fold
<1> DEFINE h == Fold(f)
           Good == {s \in SUBSET D : h[s] = g[s]}
<1>6. ASSUME NEW s \in SUBSET D
      PROVE  h[s] = IF s = {} THEN 0
                    ELSE f[CHOOSE y \in s : TRUE] + h[s \ {CHOOSE y \in s : TRUE}]
  <2>1. Round(f, h)[s] = IF s = {} THEN 0
                         ELSE f[CHOOSE y \in s : TRUE] + h[s \ {CHOOSE y \in s : TRUE}]
    BY DEF Round
  <2> QED BY <1>5, <2>1
<1> HIDE DEF g, h
<1>7. ASSUME NEW n \in Nat, \A s \in SUBSET D : Cardinality(s) = n => s \in Good
      PROVE  \A s \in SUBSET D : Cardinality(s) = n + 1 => s \in Good
  <2> SUFFICES ASSUME NEW s \in SUBSET D, Cardinality(s) = n + 1 PROVE s \in Good
    OBVIOUS
  <2> DEFINE x == CHOOSE y \in s : TRUE
             r == s \ {x}
  <2>1. IsFiniteSet(s) /\ s # {}
    BY <1>1, FS_EmptySet
  <2>2. x \in s
    BY <2>1
  <2>3. h[s] = f[x] + h[r] /\ g[s] = f[x] + g[r]
    BY <1>3, <1>6, <2>1
  <2> HIDE DEF x
  <2>4. Cardinality(r) = n
    <3>1. Cardinality(r) = Cardinality(s) - 1
      BY <2>1, <2>2, FS_RemoveElement
    <3> QED BY <3>1
  <2>5. h[r] = g[r]
    BY <1>7, <2>4
  <2> QED BY <2>3, <2>5
<1> DEFINE Ns == {n \in Nat : \A s \in SUBSET D : Cardinality(s) = n => s \in Good}
<1>8. 0 \in Ns
  <2>1. ASSUME NEW s \in SUBSET D, Cardinality(s) = 0 PROVE s \in Good
    <3>1. s = {}
      BY <1>1, <2>1, FS_EmptySet
    <3> QED BY <1>2, <1>6, <3>1
  <2> QED BY <2>1
<1>9. \A n \in Nat : n \in Ns => n + 1 \in Ns
  BY <1>7
<1>10. Cardinality(D) \in Nat
  BY FS_CardinalityType
<1>11. D \in Good
  <2>1. Nat \subseteq Ns
    <3> HIDE DEF Ns
    <3> QED BY <1>8, <1>9, NatInductive
  <2> QED BY <1>10, <2>1
<1> QED BY <1>11 DEF g, h
LEMMA TotalCounts ==
    ASSUME NEW f, IsFiniteSet(DOMAIN f), \A x \in DOMAIN f : f[x] \in Nat
    PROVE  Total(f) = Cardinality(Pile(f, DOMAIN f))
<1>1. Total(f) = Fold(f)[DOMAIN f]
  BY DEF Total, MapThenSumSet, MapThenFoldSet, Fold, Round
<1> QED BY <1>1, FoldCounts

LEMMA PileSplits ==
    ASSUME NEW f, NEW S, NEW T, IsFiniteSet(S), IsFiniteSet(T), S \cap T = {},
           \A x \in S \cup T : f[x] \in Nat
    PROVE  Cardinality(Pile(f, S \cup T)) = Cardinality(Pile(f, S)) + Cardinality(Pile(f, T))
<1>1. IsFiniteSet(Pile(f, S)) /\ IsFiniteSet(Pile(f, T))
  <2>1. IsFiniteSet(Pile(f, S))
    BY PileIsFinite
  <2>2. IsFiniteSet(Pile(f, T))
    BY PileIsFinite
  <2> QED BY <2>1, <2>2
<1>2. Pile(f, S \cup T) = Pile(f, S) \cup Pile(f, T)
  BY DEF Pile
<1>3. Pile(f, S) \cap Pile(f, T) = {}
  BY DEF Pile
<1> QED BY <1>1, <1>2, <1>3, DisjointCount

Those(S, key, y) == {x \in S : key[x] = y}

\* The sums by a key sum to the sum.
LEMMA SumsByKey ==
    ASSUME NEW f, NEW S, IsFiniteSet(S), \A x \in S : f[x] \in Nat,
           NEW K, IsFiniteSet(K), NEW key, \A x \in S : key[x] \in K,
           NEW g, \A y \in K : g[y] = Cardinality(Pile(f, Those(S, key, y)))
    PROVE  Cardinality(Pile(g, K)) = Cardinality(Pile(f, S))
<1> DEFINE Of(L) == {x \in S : key[x] \in L}
           Good == {L \in SUBSET K : /\ IsFiniteSet(Pile(g, L))
                                     /\ Cardinality(Pile(g, L)) = Cardinality(Pile(f, Of(L)))}
<1>1. \A T \in SUBSET S : IsFiniteSet(T)
  BY FS_Subset
<1>2. \A y \in K : g[y] \in Nat
  <2>1. ASSUME NEW y \in K PROVE g[y] \in Nat
    <3>1. IsFiniteSet(Those(S, key, y))
      BY <1>1 DEF Those
    <3>2. IsFiniteSet(Pile(f, Those(S, key, y)))
      BY <3>1, PileIsFinite DEF Those
    <3> QED BY <3>2, FS_CardinalityType
  <2> QED BY <2>1
<1>3. {} \in Good
  <2>1. Pile(g, {}) = {} /\ Of({}) = {} /\ Pile(f, {}) = {}
    BY DEF Pile
  <2> QED BY <2>1, FS_EmptySet
<1>4. ASSUME NEW L \in SUBSET K, NEW y \in K \ L, L \in Good PROVE L \cup {y} \in Good
  <2> DEFINE New == Those(S, key, y)
  <2>1. /\ IsFiniteSet(Pile(g, L \cup {y}))
        /\ Cardinality(Pile(g, L \cup {y})) = Cardinality(Pile(g, L)) + g[y]
    <3>1. IsFiniteSet(Pile(g, L)) /\ g[y] \in Nat /\ y \notin L
      BY <1>2, <1>4
    <3> QED BY <3>1, PileGrows
  <2>2. Of(L \cup {y}) = Of(L) \cup New /\ Of(L) \cap New = {}
    BY <1>4 DEF Those
  <2>3. IsFiniteSet(Of(L)) /\ IsFiniteSet(New) /\ \A x \in Of(L) \cup New : f[x] \in Nat
    BY <1>1 DEF Those
  <2>4. g[y] = Cardinality(Pile(f, New))
    OBVIOUS
  <2> HIDE DEF New, Of
  <2>5. Cardinality(Pile(f, Of(L) \cup New))
            = Cardinality(Pile(f, Of(L))) + Cardinality(Pile(f, New))
    BY <2>2, <2>3, PileSplits
  <2>6. Cardinality(Pile(g, L)) = Cardinality(Pile(f, Of(L)))
    BY <1>4
  <2> QED BY <2>1, <2>2, <2>4, <2>5, <2>6
<1>5. K \in Good
  <2> HIDE DEF Good
  <2> QED BY <1>3, <1>4, FiniteInductive
<1>6. Of(K) = S
  OBVIOUS
<1> QED BY <1>5, <1>6

LEMMA PileOfOnes ==
    ASSUME NEW f, NEW S, IsFiniteSet(S), \A x \in S : f[x] = 1
    PROVE  Cardinality(Pile(f, S)) = Cardinality(S)
<1> DEFINE Good == {T \in SUBSET S : IsFiniteSet(Pile(f, T)) /\ IsFiniteSet(T)
                                     /\ Cardinality(Pile(f, T)) = Cardinality(T)}
<1>1. {} \in Good
  <2>1. Pile(f, {}) = {}
    BY DEF Pile
  <2> QED BY <2>1, FS_EmptySet
<1>2. ASSUME NEW T \in SUBSET S, NEW x \in S \ T, T \in Good PROVE T \cup {x} \in Good
  <2>1. f[x] = 1 /\ f[x] \in Nat
    OBVIOUS
  <2>2. /\ IsFiniteSet(Pile(f, T \cup {x}))
        /\ Cardinality(Pile(f, T \cup {x})) = Cardinality(Pile(f, T)) + f[x]
    BY <1>2, <2>1, PileGrows
  <2>3. IsFiniteSet(T \cup {x}) /\ Cardinality(T \cup {x}) = Cardinality(T) + 1
    BY <1>2, FS_AddElement
  <2> QED BY <1>2, <2>1, <2>2, <2>3
<1>3. S \in Good
  <2> HIDE DEF Good
  <2> QED BY <1>1, <1>2, FiniteInductive
<1> QED BY <1>3

\* Those of each key, counted, sum to all.
LEMMA CountsByKey ==
    ASSUME NEW S, IsFiniteSet(S), NEW K, IsFiniteSet(K), NEW key, \A x \in S : key[x] \in K,
           NEW g, \A y \in K : g[y] = Cardinality(Those(S, key, y))
    PROVE  Cardinality(Pile(g, K)) = Cardinality(S)
<1> DEFINE one == [x \in S |-> 1]
<1>1. \A x \in S : one[x] = 1 /\ one[x] \in Nat
  OBVIOUS
<1> HIDE DEF one
<1>2. ASSUME NEW y \in K PROVE g[y] = Cardinality(Pile(one, Those(S, key, y)))
  <2>1. Those(S, key, y) \in SUBSET S
    BY DEF Those
  <2>2. IsFiniteSet(Those(S, key, y))
    BY <2>1, FS_Subset
  <2>3. Cardinality(Pile(one, Those(S, key, y))) = Cardinality(Those(S, key, y))
    BY <1>1, <2>2, PileOfOnes DEF Those
  <2> QED BY <2>3
<1>3. Cardinality(Pile(g, K)) = Cardinality(Pile(one, S))
  <2>1. \A y \in K : g[y] = Cardinality(Pile(one, Those(S, key, y)))
    BY <1>2
  <2>2. \A x \in S : one[x] \in Nat
    BY <1>1
  <2> QED BY <2>1, <2>2, SumsByKey
<1> QED BY <1>1, <1>3, PileOfOnes

LEMMA PileAgrees ==
    ASSUME NEW f, NEW g, NEW S, \A x \in S : f[x] = g[x]
    PROVE  Pile(f, S) = Pile(g, S)
BY DEF Pile

(***************************************************************************)
(* The tables                                                              *)
(***************************************************************************)

SiteTable == [Sites -> SiteRows \cup {Gone}]
DriveTable == [Drives -> DriveRows \cup {Gone}]
ItemRows == [by : Users, recent : BOOLEAN]
ItemTable == [Items -> ItemRows \cup {Gone}]
PermissionTable == [Permissions -> PermissionRows \cup {Gone}]
UserTable == [Users -> {"enabled", "disabled", Gone}]
GroupTable == [Groups -> {"live", "deleted", Gone}]
MemberTable == SUBSET (Groups \X Users)
Databases == [site : SiteTable, drive : DriveTable, item : ItemTable,
              permission : PermissionTable, user : UserTable, group : GroupTable,
              members : MemberTable]

\* What a commit that wrote the tables ts leaves of x.
SameBut(x, y, ts) ==
    /\ "sites" \notin ts => y.site = x.site
    /\ "drives" \notin ts => y.drive = x.drive
    /\ "items" \notin ts => y.item = x.item
    /\ "permissions" \notin ts => y.permission = x.permission
    /\ "users" \notin ts => y.user = x.user
    /\ "groups" \notin ts => y.group = x.group
    /\ "memberships" \notin ts => y.members = x.members

LEMMA ConstantsFit ==
    /\ IsFiniteSet(Sites) /\ IsFiniteSet(Drives) /\ IsFiniteSet(Items)
    /\ IsFiniteSet(Permissions) /\ IsFiniteSet(Users) /\ IsFiniteSet(Groups)
    /\ \A i \in Items : DriveOf[i] \in Drives
    /\ \A p \in Permissions : ItemOf[p] \in Items /\ DriveOf[ItemOf[p]] \in Drives
    /\ Gone \notin SiteRows /\ Gone \notin DriveRows /\ Gone \notin PermissionRows
    /\ Gone \notin ItemRows
BY DashboardsAssumption DEF ItemRows

LEMMA DbFits ==
    ASSUME NEW x \in Databases
    PROVE  /\ x.site \in SiteTable /\ x.drive \in DriveTable /\ x.item \in ItemTable
           /\ x.permission \in PermissionTable /\ x.user \in UserTable /\ x.group \in GroupTable
           /\ x.members \in MemberTable
           /\ x = [site |-> x.site, drive |-> x.drive, item |-> x.item,
                   permission |-> x.permission, user |-> x.user, group |-> x.group,
                   members |-> x.members]
BY DEF Databases

\* A commit of one of the ingest's writes.
Writes(ts, x) ==
    /\ ts \subseteq Tables /\ x \in Databases /\ Consistent(x) /\ SameBut(db, x, ts)
    /\ Commit(ts, x)

LEMMA SaveSiteWrites ==
    ASSUME db \in Databases, Consistent(db), NEW s \in Sites, SaveSite(s)
    PROVE  \E ts, x : Writes(ts, x)
<1>1. PICK row \in SiteRows \cup {Gone} : Commit({"sites"}, [db EXCEPT !.site[s] = row])
  BY DEF SaveSite
<1> DEFINE x == [db EXCEPT !.site[s] = row]
<1>2. [db.site EXCEPT ![s] = row] \in SiteTable
  BY DbFits DEF SiteTable
<1>3. x \in Databases
  BY <1>2, DbFits DEF Databases
<1>4. /\ x.drive = db.drive /\ x.item = db.item /\ x.permission = db.permission
      /\ x.user = db.user /\ x.group = db.group /\ x.members = db.members
  BY DbFits
<1>5. Commit({"sites"}, x)
  BY <1>1
<1> HIDE DEF x
<1>6. Consistent(x) /\ SameBut(db, x, {"sites"})
  BY <1>4 DEF Consistent, SameBut
<1>7. Writes({"sites"}, x)
  BY <1>3, <1>5, <1>6 DEF Writes, Tables
<1> QED BY <1>7

LEMMA SaveDriveWrites ==
    ASSUME db \in Databases, Consistent(db), NEW d \in Drives, SaveDrive(d)
    PROVE  \E ts, x : Writes(ts, x)
<1>1. PICK row \in DriveRows : Commit({"drives"}, [db EXCEPT !.drive[d] = row])
  BY DEF SaveDrive
<1> DEFINE x == [db EXCEPT !.drive[d] = row]
           drive == [db.drive EXCEPT ![d] = row]
<1>2. drive \in DriveTable /\ \A e \in Drives : db.drive[e] # Gone => drive[e] # Gone
  BY DbFits, ConstantsFit DEF DriveTable
<1>3. x \in Databases
  BY <1>2, DbFits DEF Databases
<1>4. /\ x.drive = drive
      /\ x.site = db.site /\ x.item = db.item /\ x.permission = db.permission
      /\ x.user = db.user /\ x.group = db.group /\ x.members = db.members
  BY DbFits
<1>5. Commit({"drives"}, x)
  BY <1>1
<1> HIDE DEF x, drive
<1>6. Consistent(x) /\ SameBut(db, x, {"drives"})
  BY <1>2, <1>4, ConstantsFit DEF Consistent, SameBut
<1>7. Writes({"drives"}, x)
  BY <1>3, <1>5, <1>6 DEF Writes, Tables
<1> QED BY <1>7

LEMMA PruneDriveWrites ==
    ASSUME db \in Databases, Consistent(db), NEW d \in Drives, PruneDrive(d)
    PROVE  \E ts, x : Writes(ts, x)
<1> DEFINE drive == [db.drive EXCEPT ![d] = Gone]
           item == [i \in Items |-> IF DriveOf[i] = d THEN Gone ELSE db.item[i]]
           permission == [p \in Permissions |->
                             IF DriveOf[ItemOf[p]] = d THEN Gone ELSE db.permission[p]]
           x == [db EXCEPT !.drive = drive, !.item = item, !.permission = permission]
<1>1. Commit(Tables, x)
  BY DbFits DEF PruneDrive
<1>2. drive \in DriveTable /\ item \in ItemTable /\ permission \in PermissionTable
  BY DbFits DEF DriveTable, ItemTable, PermissionTable
<1>3. x \in Databases
  BY <1>2, DbFits DEF Databases
<1>4. /\ \A e \in Drives : e # d => drive[e] = db.drive[e]
      /\ \A i \in Items : item[i] = IF DriveOf[i] = d THEN Gone ELSE db.item[i]
      /\ \A p \in Permissions :
            permission[p] = IF DriveOf[ItemOf[p]] = d THEN Gone ELSE db.permission[p]
  BY DbFits DEF DriveTable
<1>5. x.drive = drive /\ x.item = item /\ x.permission = permission
  BY DbFits
<1> HIDE DEF x, drive, item, permission
<1>6. Consistent(x)
  BY <1>4, <1>5, ConstantsFit DEF Consistent
<1>7. SameBut(db, x, Tables)
  BY DEF SameBut, Tables
<1>8. Writes(Tables, x)
  BY <1>1, <1>3, <1>6, <1>7 DEF Writes
<1> QED BY <1>8

LEMMA SaveItemWrites ==
    ASSUME db \in Databases, Consistent(db), NEW i \in Items, SaveItem(i)
    PROVE  \E ts, x : Writes(ts, x)
<1>1. PICK u \in Users, recent \in BOOLEAN :
          Commit({"items"}, [db EXCEPT !.item[i] = [by |-> u, recent |-> recent]])
  BY DEF SaveItem
<1> DEFINE row == [by |-> u, recent |-> recent]
           item == [db.item EXCEPT ![i] = row]
           x == [db EXCEPT !.item[i] = row]
<1>2. row \in ItemRows
  BY DEF ItemRows
<1> HIDE DEF row
<1>3. item \in ItemTable /\ (\A j \in Items : j # i => item[j] = db.item[j]) /\ item[i] # Gone
  BY <1>2, DbFits, ConstantsFit DEF ItemTable
<1>4. x \in Databases
  BY <1>3, DbFits DEF Databases
<1>5. /\ x.item = item
      /\ x.site = db.site /\ x.drive = db.drive /\ x.permission = db.permission
      /\ x.user = db.user /\ x.group = db.group /\ x.members = db.members
  BY DbFits
<1>6. Commit({"items"}, x) /\ db.drive[DriveOf[i]] # Gone
  BY <1>1 DEF row, SaveItem
<1> HIDE DEF x, item
<1>7. Consistent(x) /\ SameBut(db, x, {"items"})
  BY <1>3, <1>5, <1>6, ConstantsFit DEF Consistent, SameBut
<1>8. Writes({"items"}, x)
  BY <1>4, <1>6, <1>7 DEF Writes, Tables
<1> QED BY <1>8

LEMMA RemoveItemWrites ==
    ASSUME db \in Databases, Consistent(db), NEW i \in Items, RemoveItem(i)
    PROVE  \E ts, x : Writes(ts, x)
<1> DEFINE ts == {"items", "permissions", "grants"}
           item == [db.item EXCEPT ![i] = Gone]
           permission == [p \in Permissions |->
                             IF ItemOf[p] = i THEN Gone ELSE db.permission[p]]
           x == [db EXCEPT !.item = item, !.permission = permission]
<1>1. Commit(ts, x)
  BY DbFits DEF RemoveItem
<1>2. item \in ItemTable /\ permission \in PermissionTable
  BY DbFits DEF ItemTable, PermissionTable
<1>3. x \in Databases
  BY <1>2, DbFits DEF Databases
<1>4. /\ \A j \in Items : item[j] = IF j = i THEN Gone ELSE db.item[j]
      /\ \A p \in Permissions : permission[p] = IF ItemOf[p] = i THEN Gone ELSE db.permission[p]
  BY DbFits DEF ItemTable
<1>5. /\ x.item = item /\ x.permission = permission
      /\ x.site = db.site /\ x.drive = db.drive
      /\ x.user = db.user /\ x.group = db.group /\ x.members = db.members
  BY DbFits
<1> HIDE DEF x, item, permission
<1>6. Consistent(x) /\ SameBut(db, x, ts)
  BY <1>4, <1>5, ConstantsFit DEF Consistent, SameBut
<1>7. Writes(ts, x)
  BY <1>1, <1>3, <1>6 DEF Writes, Tables
<1> QED BY <1>7

LEMMA SavePermissionsWrites ==
    ASSUME db \in Databases, Consistent(db), NEW i \in Items, SavePermissions(i)
    PROVE  \E ts, x : Writes(ts, x)
<1> DEFINE ts == {"items", "permissions", "grants"}
           own == {p \in Permissions : ItemOf[p] = i}
<1>1. PICK rows \in [own -> PermissionRows \cup {Gone}] :
          Commit(ts, [db EXCEPT !.permission = [p \in Permissions |->
                                    IF ItemOf[p] = i THEN rows[p] ELSE @[p]]])
  BY DEF SavePermissions
<1> DEFINE permission == [p \in Permissions |->
                             IF ItemOf[p] = i THEN rows[p] ELSE db.permission[p]]
           x == [db EXCEPT !.permission = permission]
<1>2. permission \in PermissionTable
  BY DbFits DEF PermissionTable
<1>3. x \in Databases
  BY <1>2, DbFits DEF Databases
<1>4. \A p \in Permissions : ItemOf[p] # i => permission[p] = db.permission[p]
  OBVIOUS
<1>5. /\ x.permission = permission
      /\ x.site = db.site /\ x.drive = db.drive /\ x.item = db.item
      /\ x.user = db.user /\ x.group = db.group /\ x.members = db.members
  BY DbFits
<1>6. Commit(ts, x) /\ db.item[i] # Gone
  BY <1>1 DEF SavePermissions
<1> HIDE DEF x, permission
<1>7. Consistent(x) /\ SameBut(db, x, ts)
  BY <1>4, <1>5, <1>6, ConstantsFit DEF Consistent, SameBut
<1>8. Writes(ts, x)
  BY <1>3, <1>6, <1>7 DEF Writes, Tables
<1> QED BY <1>8

LEMMA DirectoryWrites ==
    ASSUME db \in Databases, Consistent(db),
           \/ \E u \in Users : SaveUser(u)
           \/ \E g \in Groups : SaveGroup(g) \/ SaveMembers(g)
    PROVE  \E ts, x : Writes(ts, x)
<1>1. ASSUME NEW u \in Users, SaveUser(u) PROVE \E ts, x : Writes(ts, x)
  <2>1. PICK row \in {"enabled", "disabled", Gone} :
            Commit({"users"}, [db EXCEPT !.user[u] = row])
    BY <1>1 DEF SaveUser
  <2> DEFINE x == [db EXCEPT !.user[u] = row]
  <2>2. [db.user EXCEPT ![u] = row] \in UserTable
    BY DbFits DEF UserTable
  <2>3. x \in Databases
    BY <2>2, DbFits DEF Databases
  <2>4. /\ x.site = db.site /\ x.drive = db.drive /\ x.item = db.item
        /\ x.permission = db.permission /\ x.group = db.group /\ x.members = db.members
    BY DbFits
  <2>5. Commit({"users"}, x)
    BY <2>1
  <2> HIDE DEF x
  <2>6. Consistent(x) /\ SameBut(db, x, {"users"})
    BY <2>4 DEF Consistent, SameBut
  <2>7. Writes({"users"}, x)
    BY <2>3, <2>5, <2>6 DEF Writes, Tables
  <2> QED BY <2>7
<1>2. ASSUME NEW g \in Groups, SaveGroup(g) PROVE \E ts, x : Writes(ts, x)
  <2>1. PICK row \in {"live", "deleted", Gone} : Commit({"groups"}, [db EXCEPT !.group[g] = row])
    BY <1>2 DEF SaveGroup
  <2> DEFINE x == [db EXCEPT !.group[g] = row]
  <2>2. [db.group EXCEPT ![g] = row] \in GroupTable
    BY DbFits DEF GroupTable
  <2>3. x \in Databases
    BY <2>2, DbFits DEF Databases
  <2>4. /\ x.site = db.site /\ x.drive = db.drive /\ x.item = db.item
        /\ x.permission = db.permission /\ x.user = db.user /\ x.members = db.members
    BY DbFits
  <2>5. Commit({"groups"}, x)
    BY <2>1
  <2> HIDE DEF x
  <2>6. Consistent(x) /\ SameBut(db, x, {"groups"})
    BY <2>4 DEF Consistent, SameBut
  <2>7. Writes({"groups"}, x)
    BY <2>3, <2>5, <2>6 DEF Writes, Tables
  <2> QED BY <2>7
<1>3. ASSUME NEW g \in Groups, SaveMembers(g) PROVE \E ts, x : Writes(ts, x)
  <2>1. PICK us \in SUBSET Users :
            Commit({"memberships"}, [db EXCEPT !.members = {m \in @ : m[1] # g} \cup ({g} \X us)])
    BY <1>3 DEF SaveMembers
  <2> DEFINE members == {m \in db.members : m[1] # g} \cup ({g} \X us)
             x == [db EXCEPT !.members = members]
  <2>2. members \in MemberTable
    BY DbFits DEF MemberTable
  <2>3. x \in Databases
    BY <2>2, DbFits DEF Databases
  <2>4. /\ x.site = db.site /\ x.drive = db.drive /\ x.item = db.item
        /\ x.permission = db.permission /\ x.user = db.user /\ x.group = db.group
    BY DbFits
  <2>5. Commit({"memberships"}, x)
    BY <2>1
  <2> HIDE DEF x, members
  <2>6. Consistent(x) /\ SameBut(db, x, {"memberships"})
    BY <2>4 DEF Consistent, SameBut
  <2>7. Writes({"memberships"}, x)
    BY <2>3, <2>5, <2>6 DEF Writes, Tables
  <2> QED BY <2>7
<1> QED BY <1>1, <1>2, <1>3

LEMMA StepsWrite ==
    ASSUME db \in Databases, Consistent(db), Next
    PROVE  StartRefresh \/ RefreshView \/ RefreshFails \/ \E ts, x : Writes(ts, x)
BY SaveSiteWrites, SaveDriveWrites, PruneDriveWrites, SaveItemWrites, RemoveItemWrites,
   SavePermissionsWrites, DirectoryWrites
DEF Next

(***************************************************************************)
(* The views                                                               *)
(***************************************************************************)

LEMMA ViewNames ==
    /\ Views = {"group_member_counts", "inventory_summary", "item_link_daily", "link_breakdown",
                "routable_site_drives", "site_principal_identities", "site_sharing_summary"}
    /\ \A v \in Views : Position(v) \in Nat /\ ViewOrder[Position(v)] = v
<1>1. DOMAIN ViewOrder = 1..7 /\ Len(ViewOrder) = 7
  BY DEF ViewOrder
<1>2. \A n : n \in 1..7 <=> n \in {1, 2, 3, 4, 5, 6, 7}
  OBVIOUS
<1>3. ASSUME NEW v \in Views PROVE Position(v) \in Nat /\ ViewOrder[Position(v)] = v
  <2>1. \E n \in 1..Len(ViewOrder) : ViewOrder[n] = v
    BY <1>1 DEF Views, Range
  <2> QED BY <1>1, <2>1 DEF Position
<1>4. Views = {ViewOrder[n] : n \in {1, 2, 3, 4, 5, 6, 7}}
  BY <1>1, <1>2 DEF Views, Range
<1>5. {ViewOrder[n] : n \in {1, 2, 3, 4, 5, 6, 7}}
      = {ViewOrder[1], ViewOrder[2], ViewOrder[3], ViewOrder[4], ViewOrder[5], ViewOrder[6],
         ViewOrder[7]}
  OBVIOUS
<1> QED BY <1>3, <1>4, <1>5 DEF ViewOrder

\* mv_refresh takes one of the views that it has before it.
LEMMA NextViewIsOfTheRun ==
    ASSUME run # {}, run \subseteq Views, \A v \in run : queue[v] \in Nat
    PROVE  NextView \in run
<1> DEFINE since == [v \in run |-> queue[v]]
           place == [v \in run |-> Position(v)]
<1>1. PICK v \in run : \A w \in run : since[v] < since[w]
                                      \/ (since[v] = since[w] /\ place[v] <= place[w])
  <2>1. \A w \in run : since[w] \in Nat /\ place[w] \in Nat
    BY ViewNames
  <2> HIDE DEF since, place
  <2> QED BY <2>1, HasFirst
<1>2. ASSUME NEW w \in run \ {v} PROVE ComesBefore(v, w)
  <2>1. Position(v) # Position(w) /\ Position(v) \in Nat /\ Position(w) \in Nat
    BY ViewNames
  <2>2. queue[v] < queue[w] \/ (queue[v] = queue[w] /\ Position(v) <= Position(w))
    BY <1>1
  <2> QED BY <2>1, <2>2 DEF ComesBefore
<1> HIDE DEF since, place
<1>3. \E u \in run : \A w \in run \ {u} : ComesBefore(u, w)
  BY <1>2
<1> QED BY <1>3 DEF NextView

\* The drive that stands for a site is one of its drives.
LEMMA AgeFits ==
    ASSUME NEW d \in Drives
    PROVE  Age(d) \in Nat /\ DriveOrder[Age(d)] = d
<1>1. DriveOrder \in Seq(Drives) /\ d \in Range(DriveOrder)
  BY DashboardsAssumption
<1>2. DOMAIN DriveOrder = 1..Len(DriveOrder) /\ Len(DriveOrder) \in Nat
  BY <1>1
<1>3. \E n \in 1..Len(DriveOrder) : DriveOrder[n] = d
  BY <1>1, <1>2 DEF Range
<1> QED BY <1>2, <1>3 DEF Age

LEMMA RankFits ==
    ASSUME NEW x, NEW d
    PROVE  Rank(x, d) \in Nat
BY DEF Rank

\* The first of the drives S, as RouteDrive has it.
IsFirst(x, S, d) == d \in S /\ \A e \in S \ {d} : RanksBefore(x, d, e)

LEMMA OneIsFirst ==
    ASSUME NEW x, NEW S \in SUBSET Drives, S # {}
    PROVE  /\ \E d \in S : IsFirst(x, S, d)
           /\ \A d, e : IsFirst(x, S, d) /\ IsFirst(x, S, e) => d = e
<1> DEFINE rank == [d \in S |-> Rank(x, d)]
           age == [d \in S |-> Age(d)]
<1>1. PICK d \in S : \A e \in S : rank[d] < rank[e] \/ (rank[d] = rank[e] /\ age[d] <= age[e])
  <2>1. \A e \in S : rank[e] \in Nat /\ age[e] \in Nat
    BY RankFits, AgeFits
  <2> HIDE DEF rank, age
  <2> QED BY <2>1, HasFirst
<1>2. ASSUME NEW e \in S \ {d} PROVE RanksBefore(x, d, e)
  <2>1. Age(d) # Age(e) /\ Age(d) \in Nat /\ Age(e) \in Nat
    BY AgeFits
  <2>2. Rank(x, d) < Rank(x, e) \/ (Rank(x, d) = Rank(x, e) /\ Age(d) <= Age(e))
    BY <1>1
  <2> QED BY <2>1, <2>2 DEF RanksBefore
<1>3. ASSUME NEW b, NEW c, IsFirst(x, S, b), IsFirst(x, S, c), b # c PROVE FALSE
  <2>1. RanksBefore(x, b, c) /\ RanksBefore(x, c, b) /\ b \in Drives /\ c \in Drives
    BY <1>3 DEF IsFirst
  <2>2. Rank(x, b) \in Nat /\ Rank(x, c) \in Nat
    BY RankFits
  <2>3. Age(b) \in Nat /\ Age(c) \in Nat
    BY <2>1, AgeFits
  <2> QED BY <2>1, <2>2, <2>3 DEF RanksBefore
<1> QED BY <1>2, <1>3 DEF IsFirst

LEMMA RouteIsADrive ==
    ASSUME NEW x, NEW key, DrivesOf(x, key) # {}
    PROVE  /\ RouteDrive(x, key) \in DrivesOf(x, key)
           /\ IsFirst(x, DrivesOf(x, key), RouteDrive(x, key))
<1> DEFINE S == DrivesOf(x, key)
<1>1. S \in SUBSET Drives
  BY DEF DrivesOf
<1>2. \E d \in S : IsFirst(x, S, d)
  BY <1>1, OneIsFirst
<1>3. \E d \in S : \A e \in S \ {d} : RanksBefore(x, d, e)
  BY <1>2 DEF IsFirst
<1>4. RouteDrive(x, key) \in S /\ \A e \in S \ {RouteDrive(x, key)} :
                                     RanksBefore(x, RouteDrive(x, key), e)
  BY <1>3 DEF RouteDrive
<1> QED BY <1>4 DEF IsFirst

LEMMA RowsFit ==
    ASSUME NEW x, NEW r \in RoutableSiteDrives(x)
    PROVE  /\ r.key \in Sites \cup Drives /\ r.drive \in Drives
           /\ r.drive \in DrivesOf(x, r.key)
<1>1. ASSUME NEW s \in RoutableSites(x), r = SiteRow(x, s)
      PROVE  /\ r.key \in Sites \cup Drives /\ r.drive \in Drives
             /\ r.drive \in DrivesOf(x, r.key)
  <2>1. s \in Sites /\ DrivesOf(x, s) # {} /\ r.key = s /\ r.drive = RouteDrive(x, s)
    BY <1>1 DEF RoutableSites, SiteRow
  <2>2. RouteDrive(x, s) \in DrivesOf(x, s)
    BY <2>1, RouteIsADrive
  <2>3. RouteDrive(x, s) \in Drives
    BY <2>2 DEF DrivesOf
  <2> QED BY <2>1, <2>2, <2>3
<1>2. ASSUME NEW d \in PersonalDrives(x), r = PersonalRow(x, d)
      PROVE  /\ r.key \in Sites \cup Drives /\ r.drive \in Drives
             /\ r.drive \in DrivesOf(x, r.key)
  <2>1. d \in Drives /\ r.key = d /\ r.drive = d /\ Eligible(x, d) /\ x.drive[d].site = NoSite
    BY <1>2 DEF PersonalDrives, PersonalRow
  <2>2. d \in DrivesOf(x, d)
    BY <2>1 DEF DrivesOf, SiteKey
  <2> QED BY <2>1, <2>2
<1> QED BY <1>1, <1>2 DEF RoutableSiteDrives

(***************************************************************************)
(* What a view depends on                                                  *)
(***************************************************************************)

LEMMA DrivesAlike ==
    ASSUME NEW x, NEW y, y.drive = x.drive
    PROVE  /\ \A d : Eligible(y, d) <=> Eligible(x, d)
           /\ \A d : SiteKey(y, d) = SiteKey(x, d)
           /\ \A key : DrivesOf(y, key) = DrivesOf(x, key)
           /\ PersonalDrives(y) = PersonalDrives(x)
<1>1. \A d : Eligible(y, d) <=> Eligible(x, d)
  BY DEF Eligible
<1>2. \A d : SiteKey(y, d) = SiteKey(x, d)
  BY DEF SiteKey
<1>3. \A key : DrivesOf(y, key) = DrivesOf(x, key)
  BY <1>1, <1>2 DEF DrivesOf
<1>4. PersonalDrives(y) = PersonalDrives(x)
  BY <1>1 DEF PersonalDrives
<1> QED BY <1>1, <1>2, <1>3, <1>4

LEMMA RoutesAlike ==
    ASSUME NEW x, NEW y, y.drive = x.drive, NEW key, DrivesOf(x, key) # {}
    PROVE  RouteDrive(y, key) = RouteDrive(x, key)
<1> DEFINE S == DrivesOf(x, key)
<1>1. DrivesOf(y, key) = S
  BY DrivesAlike
<1>2. IsFirst(x, S, RouteDrive(x, key))
  BY RouteIsADrive
<1>3. IsFirst(y, S, RouteDrive(y, key))
  BY <1>1, RouteIsADrive
<1>4. \A d, e : RanksBefore(y, d, e) <=> RanksBefore(x, d, e)
  BY DEF RanksBefore, Rank
<1>5. IsFirst(x, S, RouteDrive(y, key))
  BY <1>3, <1>4 DEF IsFirst
<1>6. S \in SUBSET Drives
  BY DEF DrivesOf
<1> QED BY <1>2, <1>5, <1>6, OneIsFirst

LEMMA SitesAlike ==
    ASSUME NEW x, NEW y, y.drive = x.drive, y.site = x.site
    PROVE  RoutableSites(y) = RoutableSites(x)
BY DrivesAlike DEF RoutableSites

LEMMA RowsAlike ==
    ASSUME NEW x, NEW y, y.drive = x.drive, y.site = x.site, y.item = x.item
    PROVE  RoutableSiteDrives(y) = RoutableSiteDrives(x)
<1>1. \A key : Active(y, key) = Active(x, key)
  <2>1. ASSUME NEW key PROVE Active(y, key) <=> Active(x, key)
    <3>1. DrivesOf(y, key) = DrivesOf(x, key)
      BY DrivesAlike
    <3> QED BY <3>1 DEF Active
  <2> QED BY <2>1 DEF Active
<1>2. \A s \in RoutableSites(x) : SiteRow(y, s) = SiteRow(x, s)
  <2>1. ASSUME NEW s \in RoutableSites(x) PROVE SiteRow(y, s) = SiteRow(x, s)
    <3>1. RouteDrive(y, s) = RouteDrive(x, s)
      BY RoutesAlike DEF RoutableSites
    <3>2. IsSharePoint(y, s) = IsSharePoint(x, s)
      BY DEF IsSharePoint
    <3> QED BY <1>1, <3>1, <3>2 DEF SiteRow
  <2> QED BY <2>1
<1>3. \A d \in PersonalDrives(x) : PersonalRow(y, d) = PersonalRow(x, d)
  BY <1>1 DEF PersonalRow
<1>4. RoutableSites(y) = RoutableSites(x) /\ PersonalDrives(y) = PersonalDrives(x)
  BY SitesAlike, DrivesAlike
<1>5. \A r : r \in RoutableSiteDrives(y) <=> r \in RoutableSiteDrives(x)
  BY <1>2, <1>3, <1>4 DEF RoutableSiteDrives
<1> QED BY <1>5

LEMMA LinksAlike ==
    ASSUME NEW x, NEW y, y.drive = x.drive, y.permission = x.permission
    PROVE  /\ Shared(y) = Shared(x)
           /\ \A scopes : Links(y, scopes) = Links(x, scopes)
           /\ \A key, scopes : LinksAt(y, key, scopes) = LinksAt(x, key, scopes)
           /\ \A key : SharingRow(y, key) = SharingRow(x, key)
<1>1. Shared(y) = Shared(x)
  BY DrivesAlike DEF Shared
<1>2. \A scopes : Links(y, scopes) = Links(x, scopes)
  BY <1>1 DEF Links
<1>3. \A key, scopes : LinksAt(y, key, scopes) = LinksAt(x, key, scopes)
  BY <1>2, DrivesAlike DEF LinksAt
<1>4. \A key : SharingRow(y, key) = SharingRow(x, key)
  BY <1>3 DEF SharingRow
<1> QED BY <1>1, <1>2, <1>3, <1>4

\* The keys of the rows.
Keys(x) == RoutableSites(x) \cup PersonalDrives(x)

LEMMA KeysOfRows ==
    ASSUME NEW x
    PROVE  /\ Keys(x) = {r.key : r \in RoutableSiteDrives(x)}
           /\ SiteSharingSummary(x, RoutableSiteDrives(x)) = {SharingRow(x, key) : key \in Keys(x)}
<1>1. ASSUME NEW key \in Keys(x) PROVE \E r \in RoutableSiteDrives(x) : r.key = key
  <2>1. CASE key \in RoutableSites(x)
    <3>1. SiteRow(x, key) \in RoutableSiteDrives(x) /\ SiteRow(x, key).key = key
      BY <2>1 DEF RoutableSiteDrives, SiteRow
    <3> QED BY <3>1
  <2>2. CASE key \in PersonalDrives(x)
    <3>1. PersonalRow(x, key) \in RoutableSiteDrives(x) /\ PersonalRow(x, key).key = key
      BY <2>2 DEF RoutableSiteDrives, PersonalRow
    <3> QED BY <3>1
  <2> QED BY <2>1, <2>2 DEF Keys
<1>2. ASSUME NEW r \in RoutableSiteDrives(x) PROVE r.key \in Keys(x)
  BY DEF RoutableSiteDrives, SiteRow, PersonalRow, Keys
<1>3. Keys(x) = {r.key : r \in RoutableSiteDrives(x)}
  BY <1>1, <1>2
<1>4. \A z : z \in SiteSharingSummary(x, RoutableSiteDrives(x))
             <=> z \in {SharingRow(x, key) : key \in Keys(x)}
  BY <1>1, <1>2 DEF SiteSharingSummary
<1> QED BY <1>3, <1>4

\* What a view shows of the tables x if what it reads of a view does too.
Right(v, x) ==
    IF v = "site_sharing_summary" THEN SiteSharingSummary(x, RoutableSiteDrives(x))
    ELSE Content(v, x, {})

LEMMA ContentIsRight ==
    ASSUME NEW v \in Views, NEW x, NEW vs,
           v = "site_sharing_summary" => vs["routable_site_drives"] = RoutableSiteDrives(x)
    PROVE  Content(v, x, vs) = Right(v, x)
BY ViewNames DEF Content, Right

LEMMA RightDepends ==
    ASSUME NEW v \in Views, NEW ts, DependsOn(v) \cap ts = {}, NEW x, NEW y, SameBut(x, y, ts)
    PROVE  Right(v, y) = Right(v, x)
<1>1. CASE v = "group_member_counts"
  <2>1. y.members = x.members
    BY <1>1 DEF DependsOn, SameBut
  <2>2. GroupMemberCounts(y) = GroupMemberCounts(x)
    BY <2>1 DEF GroupMemberCounts
  <2> QED BY <1>1, <2>2 DEF Right, Content
<1>2. CASE v = "inventory_summary"
  <2>1. y.user = x.user /\ y.group = x.group /\ y.site = x.site /\ y.drive = x.drive
    BY <1>2 DEF DependsOn, SameBut
  <2>2. \A s : IsSharePoint(y, s) <=> IsSharePoint(x, s)
    BY <2>1 DEF IsSharePoint
  <2>3. InventorySummary(y) = InventorySummary(x)
    BY <2>1, <2>2 DEF InventorySummary
  <2> QED BY <1>2, <2>3 DEF Right, Content
<1>3. CASE v = "item_link_daily"
  <2>1. y.permission = x.permission /\ y.drive = x.drive
    BY <1>3 DEF DependsOn, SameBut
  <2>2. ItemLinkDaily(y) = ItemLinkDaily(x)
    BY <2>1, LinksAlike DEF ItemLinkDaily
  <2> QED BY <1>3, <2>2 DEF Right, Content
<1>4. CASE v = "link_breakdown"
  <2>1. y.permission = x.permission /\ y.drive = x.drive
    BY <1>4 DEF DependsOn, SameBut
  <2>2. LinkBreakdown(y) = LinkBreakdown(x)
    BY <2>1, LinksAlike DEF LinkBreakdown
  <2> QED BY <1>4, <2>2 DEF Right, Content
<1>5. CASE v = "routable_site_drives"
  <2>1. y.site = x.site /\ y.drive = x.drive /\ y.item = x.item
    BY <1>5 DEF DependsOn, SameBut
  <2>2. RoutableSiteDrives(y) = RoutableSiteDrives(x)
    BY <2>1, RowsAlike
  <2> QED BY <1>5, <2>2 DEF Right, Content
<1>6. CASE v = "site_principal_identities"
  <2>1. y.permission = x.permission /\ y.drive = x.drive
    BY <1>6 DEF DependsOn, SameBut
  <2>2. SitePrincipalIdentities(y) = SitePrincipalIdentities(x)
    BY <2>1, LinksAlike, DrivesAlike DEF SitePrincipalIdentities
  <2> QED BY <1>6, <2>2 DEF Right, Content
<1>7. CASE v = "site_sharing_summary"
  <2>1. y.site = x.site /\ y.permission = x.permission /\ y.drive = x.drive
    BY <1>7 DEF DependsOn, SameBut
  <2>2. Keys(y) = Keys(x)
    BY <2>1, SitesAlike, DrivesAlike DEF Keys
  <2>3. \A key : SharingRow(y, key) = SharingRow(x, key)
    BY <2>1, LinksAlike
  <2>4. {SharingRow(y, key) : key \in Keys(y)} = {SharingRow(x, key) : key \in Keys(x)}
    BY <2>2, <2>3
  <2>5. SiteSharingSummary(y, RoutableSiteDrives(y)) = SiteSharingSummary(x, RoutableSiteDrives(x))
    BY <2>4, KeysOfRows
  <2> QED BY <1>7, <2>5 DEF Right
<1> QED BY <1>1, <1>2, <1>3, <1>4, <1>5, <1>6, <1>7, ViewNames

(***************************************************************************)
(* The views follow the tables                                             *)
(***************************************************************************)

RowsOfRoutable == \A r \in Routable : r.key \in Sites \cup Drives /\ r.drive \in Drives
QueueFits ==
    /\ queue \in [Queued -> 0..MaxChanges] /\ run \subseteq Queued /\ Queued \subseteq Views
    /\ behind \in BOOLEAN /\ changes \in 0..MaxChanges /\ faults \in 0..MaxFaults
ViewsAreRight ==
    \A v \in Views \ Queued : views[v] = Right(v, db) \/ (v = "site_sharing_summary" /\ behind)

\* The types, and every view without a row in the queue as the tables have it
\* but for the summary that was built from a waiting copy.  Both are needed: what
\* a refresh of the summary reads is right because routable_site_drives is.
DashInv ==
    /\ db \in Databases /\ Consistent(db)
    /\ DOMAIN views = Views /\ RowsOfRoutable
    /\ QueueFits
    /\ ViewsAreRight

LEMMA BoundsFit == MaxChanges \in Nat /\ MaxFaults \in Nat
BY DashboardsAssumption

LEMMA DashInvInit == ASSUME Init PROVE DashInv
<1>1. db \in Databases /\ Consistent(db)
  <2> DEFINE EmptyItems == [by : Users, recent : {FALSE}]
  <2>1. /\ db \in [site : SiteTable, drive : DriveTable, item : [Items -> EmptyItems \cup {Gone}],
                   permission : PermissionTable, user : [Users -> {"enabled"}],
                   group : [Groups -> {"live"}], members : {{}}]
        /\ Filled(db)
    BY DEF Init, SiteTable, DriveTable, PermissionTable
  <2>2. EmptyItems \subseteq ItemRows
    BY DEF ItemRows
  <2> HIDE DEF EmptyItems
  <2>3. [Items -> EmptyItems \cup {Gone}] \subseteq ItemTable
    BY <2>2 DEF ItemTable
  <2>4. [Users -> {"enabled"}] \subseteq UserTable /\ [Groups -> {"live"}] \subseteq GroupTable
    BY DEF UserTable, GroupTable
  <2>5. {{}} \subseteq MemberTable
    BY DEF MemberTable
  <2>6. db \in Databases
    BY <2>1, <2>3, <2>4, <2>5 DEF Databases
  <2> QED BY <2>1, <2>6 DEF Filled
<1>2. DOMAIN views = Views
  BY DEF Init, EmptyViews
<1>3. RowsOfRoutable
  <2>1. "routable_site_drives" \in Views
    BY ViewNames
  <2>2. Routable = RoutableSiteDrives(NoRows)
    BY <2>1 DEF Init, Routable, EmptyViews, Content
  <2> QED BY <2>2, RowsFit DEF RowsOfRoutable
<1>4. Queued = Views
  BY DEF Init, Queued
<1>5. QueueFits
  <2>1. queue \in [Queued -> 0..MaxChanges]
    <3>1. 0 \in 0..MaxChanges
      BY BoundsFit
    <3> QED BY <1>4, <3>1 DEF Init
  <2>2. 0 \in 0..MaxChanges /\ 0 \in 0..MaxFaults
    BY BoundsFit
  <2> QED BY <1>4, <2>1, <2>2 DEF Init, QueueFits
<1>6. ViewsAreRight
  BY <1>4 DEF ViewsAreRight
<1> QED BY <1>1, <1>2, <1>3, <1>5, <1>6 DEF DashInv

LEMMA WritesKeep ==
    ASSUME DashInv, NEW ts, NEW x, Writes(ts, x)
    PROVE  DashInv'
<1>1. /\ x \in Databases /\ Consistent(x) /\ SameBut(db, x, ts)
      /\ changes < MaxChanges /\ changes' = changes + 1
      /\ db' = x
      /\ queue' = [v \in Queued \cup Impacted(ts) |-> IF v \in Queued THEN queue[v] ELSE changes']
      /\ views' = views /\ run' = run /\ behind' = behind /\ faults' = faults
  BY DEF Writes, Commit
<1>2. Queued' = Queued \cup Impacted(ts)
  BY <1>1 DEF Queued
<1>3. Impacted(ts) \subseteq Views
  BY DEF Impacted
<1>4. RowsOfRoutable'
  BY <1>1 DEF DashInv, RowsOfRoutable, Routable
<1>5. QueueFits'
  <2>1. changes' \in 0..MaxChanges
    BY <1>1, BoundsFit DEF DashInv, QueueFits
  <2>2. queue' \in [Queued' -> 0..MaxChanges]
    BY <1>1, <1>2, <2>1 DEF DashInv, QueueFits
  <2> QED BY <1>1, <1>2, <1>3, <2>1, <2>2 DEF DashInv, QueueFits
<1>6. ViewsAreRight'
  <2>1. ASSUME NEW v \in Views \ Queued'
        PROVE  views'[v] = Right(v, db') \/ (v = "site_sharing_summary" /\ behind')
    <3>1. v \in Views \ Queued /\ DependsOn(v) \cap ts = {}
      BY <1>2 DEF Impacted
    <3>2. Right(v, x) = Right(v, db)
      BY <1>1, <3>1, RightDepends
    <3> QED BY <1>1, <3>1, <3>2 DEF DashInv, ViewsAreRight
  <2> QED BY <2>1 DEF ViewsAreRight
<1>7. DOMAIN views' = Views
  BY <1>1 DEF DashInv
<1> QED BY <1>1, <1>4, <1>5, <1>6, <1>7 DEF DashInv, Consistent

LEMMA RunFits ==
    ASSUME DashInv, run # {}
    PROVE  NextView \in run /\ NextView \in Queued /\ NextView \in Views
<1>1. run \subseteq Views /\ \A v \in run : queue[v] \in Nat
  BY BoundsFit DEF DashInv, QueueFits
<1>2. NextView \in run
  BY <1>1, NextViewIsOfTheRun
<1> QED BY <1>1, <1>2 DEF DashInv, QueueFits

LEMMA RefreshViewKeeps ==
    ASSUME DashInv, RefreshView
    PROVE  DashInv'
<1> DEFINE v == NextView
<1>1. /\ run # {}
      /\ views' = [views EXCEPT ![v] = Content(v, db, views)]
      /\ queue' = [w \in Queued \ {v} |-> queue[w]]
      /\ run' = run \ {v}
      /\ behind' = IF v = "site_sharing_summary" THEN "routable_site_drives" \in Queued ELSE behind
      /\ db' = db /\ changes' = changes /\ faults' = faults
  BY DEF RefreshView
<1>2. v \in run /\ v \in Queued /\ v \in Views
  BY <1>1, RunFits
<1> HIDE DEF v
<1>3. DOMAIN views' = Views /\ views'[v] = Content(v, db, views)
      /\ \A w \in Views \ {v} : views'[w] = views[w]
  BY <1>1, <1>2 DEF DashInv
<1>4. Queued' = Queued \ {v}
  BY <1>1 DEF Queued
<1>5. "routable_site_drives" \in Views
  BY ViewNames
<1>6. RowsOfRoutable'
  <2>1. CASE v = "routable_site_drives"
    <3>1. Routable' = RoutableSiteDrives(db)
      BY <1>3, <2>1 DEF Routable, Content
    <3> QED BY <3>1, RowsFit DEF RowsOfRoutable
  <2>2. CASE v # "routable_site_drives"
    <3>1. Routable' = Routable
      BY <1>3, <1>5, <2>2 DEF Routable
    <3> QED BY <3>1 DEF DashInv, RowsOfRoutable
  <2> QED BY <2>1, <2>2
<1>7. QueueFits'
  <2>1. queue' \in [Queued' -> 0..MaxChanges]
    BY <1>1, <1>4 DEF DashInv, QueueFits
  <2>2. behind' \in BOOLEAN
    <3>1. ("routable_site_drives" \in Queued) \in BOOLEAN /\ behind \in BOOLEAN
      BY DEF DashInv, QueueFits
    <3> QED BY <1>1, <3>1
  <2>3. run' \subseteq Queued' /\ Queued' \subseteq Views
    BY <1>1, <1>4 DEF DashInv, QueueFits
  <2>4. changes' \in 0..MaxChanges /\ faults' \in 0..MaxFaults
    BY <1>1 DEF DashInv, QueueFits
  <2> QED BY <2>1, <2>2, <2>3, <2>4 DEF QueueFits
<1>8. ViewsAreRight'
  <2>1. ASSUME NEW w \in Views \ Queued', w # v
        PROVE  views'[w] = Right(w, db') \/ (w = "site_sharing_summary" /\ behind')
    <3>1. w \in Views \ Queued
      BY <1>4, <2>1
    <3>2. views[w] = Right(w, db) \/ (w = "site_sharing_summary" /\ behind)
      BY <3>1 DEF DashInv, ViewsAreRight
    <3> QED BY <1>1, <1>3, <2>1, <3>2
  <2>2. views'[v] = Right(v, db') \/ (v = "site_sharing_summary" /\ behind')
    <3>1. CASE v = "site_sharing_summary" /\ "routable_site_drives" \in Queued
      BY <1>1, <3>1
    <3>2. CASE v # "site_sharing_summary" \/ "routable_site_drives" \notin Queued
      <4>1. v = "site_sharing_summary" => views["routable_site_drives"] = RoutableSiteDrives(db)
        <5>1. "routable_site_drives" \notin Queued
              => views["routable_site_drives"] = Right("routable_site_drives", db)
          BY <1>5 DEF DashInv, ViewsAreRight
        <5>2. Right("routable_site_drives", db) = RoutableSiteDrives(db)
          BY DEF Right, Content
        <5> QED BY <3>2, <5>1, <5>2
      <4>2. Content(v, db, views) = Right(v, db)
        BY <1>2, <4>1, ContentIsRight
      <4> QED BY <1>1, <1>3, <4>2
    <3> QED BY <3>1, <3>2
  <2> QED BY <2>1, <2>2 DEF ViewsAreRight
<1> QED BY <1>1, <1>3, <1>6, <1>7, <1>8 DEF DashInv, Consistent

LEMMA DashInvNext == ASSUME DashInv, [Next]_dashVars PROVE DashInv'
<1>1. CASE UNCHANGED dashVars
  BY <1>1 DEF dashVars, DashInv, Consistent, RowsOfRoutable, Routable, QueueFits, Queued,
              ViewsAreRight
<1>2. CASE StartRefresh
  BY <1>2 DEF StartRefresh, DashInv, Consistent, RowsOfRoutable, Routable, QueueFits, Queued,
              ViewsAreRight
<1>3. CASE RefreshView
  BY <1>3, RefreshViewKeeps
<1>4. CASE RefreshFails
  <2>1. faults' \in 0..MaxFaults
    BY <1>4, BoundsFit DEF RefreshFails, DashInv, QueueFits
  <2>2. run' \subseteq run
    BY <1>4 DEF RefreshFails
  <2> QED BY <1>4, <2>1, <2>2 DEF RefreshFails, DashInv, Consistent, RowsOfRoutable, Routable,
                                  QueueFits, Queued, ViewsAreRight
<1>5. CASE \E ts, x : Writes(ts, x)
  BY <1>5, WritesKeep
<1>6. db \in Databases /\ Consistent(db)
  BY DEF DashInv
<1> QED BY <1>1, <1>2, <1>3, <1>4, <1>5, <1>6, StepsWrite

LEMMA DashInvHolds == Spec => []DashInv
<1>1. Init => DashInv
  BY DashInvInit
<1>2. DashInv /\ [Next]_dashVars => DashInv'
  BY DashInvNext
<1> QED BY <1>1, <1>2, PTL DEF Spec

LEMMA DashInvTypes == ASSUME DashInv PROVE TypeOK
BY DEF DashInv, TypeOK, Databases, SiteTable, DriveTable, ItemTable, ItemRows, PermissionTable,
       UserTable, GroupTable, MemberTable, RowsOfRoutable, QueueFits

LEMMA DashInvFollows == ASSUME DashInv PROVE ViewsFollowTables
<1> SUFFICES ASSUME NEW v \in Views \ Queued
             PROVE  \/ views[v] = Content(v, db, [views EXCEPT !["routable_site_drives"] =
                                                                   RoutableSiteDrives(db)])
                    \/ v = "site_sharing_summary" /\ behind
  BY DEF ViewsFollowTables
<1> DEFINE vs == [views EXCEPT !["routable_site_drives"] = RoutableSiteDrives(db)]
<1>1. vs["routable_site_drives"] = RoutableSiteDrives(db)
  BY ViewNames DEF DashInv
<1> HIDE DEF vs
<1>2. Content(v, db, vs) = Right(v, db)
  BY <1>1, ContentIsRight
<1>3. views[v] = Right(v, db) \/ (v = "site_sharing_summary" /\ behind)
  BY DEF DashInv, ViewsAreRight
<1> QED BY <1>2, <1>3 DEF vs

\* Whatever is written, pruned and refreshed, in whatever order, the tables keep
\* their rows on what they hang on, the queue holds views that mv_dependencies
\* names, and a run has only views of the queue before it.
THEOREM DashboardsHaveTheirTypes == Spec => []TypeOK
BY DashInvHolds, DashInvTypes, PTL

\* For every set of sites, drives, items, permissions, users and groups: a view
\* without a row in mv_refresh_queue shows the tables as they are, but for the
\* site_sharing_summary that was built from a waiting routable_site_drives.
THEOREM ViewsAlwaysFollowTables == Spec => []ViewsFollowTables
BY DashInvHolds, DashInvFollows, PTL

(***************************************************************************)
(* What the pages read once the queue is drained                           *)
(***************************************************************************)

LEMMA DrainedViews ==
    ASSUME DashInv, Drained
    PROVE  /\ Routable = RoutableSiteDrives(db)
           /\ views["group_member_counts"] = GroupMemberCounts(db)
           /\ views["inventory_summary"] = InventorySummary(db)
           /\ views["item_link_daily"] = ItemLinkDaily(db)
           /\ views["link_breakdown"] = LinkBreakdown(db)
           /\ views["site_principal_identities"] = SitePrincipalIdentities(db)
           /\ ~behind => views["site_sharing_summary"] = {SharingRow(db, key) : key \in Keys(db)}
<1>1. \A v \in Views : views[v] = Right(v, db) \/ (v = "site_sharing_summary" /\ behind)
  BY DEF DashInv, ViewsAreRight, Drained
<1>2. \A v \in Views \ {"site_sharing_summary"} : views[v] = Content(v, db, {})
  BY <1>1 DEF Right
<1>3. ASSUME ~behind
      PROVE  views["site_sharing_summary"] = {SharingRow(db, key) : key \in Keys(db)}
  <2>1. views["site_sharing_summary"] = Right("site_sharing_summary", db)
    BY <1>1, <1>3, ViewNames
  <2>2. Right("site_sharing_summary", db) = SiteSharingSummary(db, RoutableSiteDrives(db))
    BY DEF Right
  <2> QED BY <2>1, <2>2, KeysOfRows
<1> QED BY <1>2, <1>3, ViewNames DEF Content, Routable

LEMMA Sized ==
    ASSUME NEW S, IsFiniteSet(S)
    PROVE  Cardinality(S) \in Nat /\ (Cardinality(S) > 0 <=> S # {})
<1>1. Cardinality(S) \in Nat
  BY FS_CardinalityType
<1>2. Cardinality(S) = 0 <=> S = {}
  BY FS_EmptySet
<1> QED BY <1>1, <1>2

LEMMA PermissionSets ==
    ASSUME NEW S \in SUBSET Permissions
    PROVE  IsFiniteSet(S) /\ Cardinality(S) \in Nat /\ (Cardinality(S) > 0 <=> S # {})
<1>1. IsFiniteSet(S)
  BY ConstantsFit, FS_Subset
<1> QED BY <1>1, Sized

LEMMA SharedFits ==
    ASSUME DashInv, NEW p \in Permissions, db.permission[p] # Gone
    PROVE  /\ ItemOf[p] \in Items /\ db.item[ItemOf[p]] # Gone
           /\ DriveOf[ItemOf[p]] \in Drives /\ db.drive[DriveOf[ItemOf[p]]] # Gone
           /\ db.permission[p].scope \in Scopes \cup {NoScope}
<1>1. db.permission[p] \in PermissionRows
  BY DbFits DEF DashInv, PermissionTable
<1>2. db.permission[p].scope \in Scopes \cup {NoScope}
  BY <1>1, DashboardsAssumption DEF Scopes
<1> QED BY <1>2, ConstantsFit DEF DashInv, Consistent

LEMMA DashInvOpens == ASSUME DashInv PROVE LinksOpen
<1> SUFFICES ASSUME Drained
    PROVE  /\ \A r \in Routable : DriveFound(r.drive)
           /\ \A c \in Scopes : Overview.links[c] > 0 => SharingLinksPage(Drives, c) # {}
           /\ \A d \in {e \in Drives : DriveFound(e)}, c \in Scopes \cup {NoScope} :
                 DriveSharingPage(d).breakdown[c] > 0 =>
                     /\ SharingLinksPage({d}, c) # {}
                     /\ SharingLinksPage({d}, c) \subseteq DOMAIN DriveFilesPage(d)
  BY DEF LinksOpen
<1>1. ASSUME NEW r \in Routable PROVE DriveFound(r.drive)
  <2>1. r.drive \in DrivesOf(db, r.key)
    BY DrainedViews, RowsFit
  <2> QED BY <2>1 DEF DrivesOf, DriveFound
<1>2. ASSUME NEW c \in Scopes, Overview.links[c] > 0 PROVE SharingLinksPage(Drives, c) # {}
  <2>1. Overview.links[c] = Cardinality(Links(db, {c}))
    BY DrainedViews DEF Overview, LinkBreakdown
  <2>2. Links(db, {c}) \in SUBSET Permissions
    BY DEF Links, Shared
  <2>3. PICK p \in Links(db, {c}) : TRUE
    BY <1>2, <2>1, <2>2, PermissionSets
  <2>4. /\ p \in Permissions /\ db.permission[p] # Gone /\ Eligible(db, DriveOf[ItemOf[p]])
        /\ db.permission[p].scope = c
    BY <2>3 DEF Links, Shared
  <2>5. ItemOf[p] \in SharingLinksPage(Drives, c)
    BY <2>4, SharedFits DEF SharingLinksPage
  <2> QED BY <2>5
<1>3. ASSUME NEW d \in Drives, DriveFound(d), NEW c \in Scopes \cup {NoScope},
             DriveSharingPage(d).breakdown[c] > 0
      PROVE  /\ SharingLinksPage({d}, c) # {}
             /\ SharingLinksPage({d}, c) \subseteq DOMAIN DriveFilesPage(d)
  <2> DEFINE S == {p \in PermissionsOn(d) : db.permission[p].scope = c}
  <2>1. DriveSharingPage(d).breakdown[c] = Cardinality(S)
    BY DEF DriveSharingPage
  <2>2. S \in SUBSET Permissions
    BY DEF PermissionsOn
  <2>3. PICK p \in S : TRUE
    BY <1>3, <2>1, <2>2, PermissionSets
  <2>4. /\ p \in Permissions /\ db.permission[p] # Gone /\ DriveOf[ItemOf[p]] = d
        /\ db.permission[p].scope = c
    BY <2>3 DEF PermissionsOn
  <2>5. ItemOf[p] \in SharingLinksPage({d}, c)
    BY <1>3, <2>4, SharedFits DEF SharingLinksPage, DriveFound
  <2>6. SharingLinksPage({d}, c) \subseteq DOMAIN DriveFilesPage(d)
    BY DEF SharingLinksPage, DriveFilesPage
  <2> QED BY <2>5, <2>6
<1> QED BY <1>1, <1>2, <1>3

\* Once the queue is drained, what a page links to is there, on any inventory: the
\* drive that stands for a site, and the items behind every count of links.
THEOREM LinksAlwaysOpen == Spec => []LinksOpen
BY DashInvHolds, DashInvOpens, PTL

(***************************************************************************)
(* The overview and the lists                                              *)
(***************************************************************************)

LEMMA InjectiveImage ==
    ASSUME NEW S, IsFiniteSet(S), NEW g, \A x, y \in S : g[x] = g[y] => x = y
    PROVE  /\ IsFiniteSet({g[x] : x \in S})
           /\ Cardinality({g[x] : x \in S}) = Cardinality(S)
<1> DEFINE T == {g[x] : x \in S}
           h == [x \in S |-> g[x]]
<1>1. h \in Surjection(S, T)
  BY DEF Surjection
<1>2. h \in Injection(S, T)
  BY DEF Injection, IsInjective
<1>3. /\ IsFiniteSet(T)
      /\ Cardinality(T) = Cardinality(S) <=> h \in Injection(S, T)
  BY <1>1, FS_Surjection
<1> QED BY <1>2, <1>3

LEMMA RowsOfDrives ==
    ASSUME DashInv, NEW d \in Drives, db.drive[d] # Gone
    PROVE  /\ db.drive[d].site \in Sites \cup {NoSite}
           /\ Eligible(db, d) <=> db.drive[d].type # "cacheLibrary"
           /\ \A s \in Sites : SiteKey(db, d) = s <=> db.drive[d].site = s
<1>1. db.drive[d] \in DriveRows
  BY DbFits DEF DashInv, DriveTable
<1>2. db.drive[d].site \in Sites \cup {NoSite}
  BY <1>1, DashboardsAssumption
<1>3. Eligible(db, d) <=> db.drive[d].type # "cacheLibrary"
  BY <1>1, AddressAssumption DEF Eligible
<1>4. \A s \in Sites : SiteKey(db, d) = s <=> db.drive[d].site = s
  BY <1>2, DashboardsAssumption DEF SiteKey
<1> QED BY <1>2, <1>3, <1>4

LEMMA AllSitesAreRouted ==
    ASSUME DashInv
    PROVE  RoutableSites(db) = {s \in Sites : DrivesOf(db, s) # {}}
<1>1. ASSUME NEW s \in Sites, db.site[s] # Gone PROVE ~db.site[s].cache
  <2>1. db.site[s] \in SiteRows
    BY <1>1, DbFits DEF DashInv, SiteTable
  <2> QED BY <2>1, AddressAssumption
<1> QED BY <1>1 DEF RoutableSites

\* The SharePoint sites that the overview counts.
OverviewSites == {s \in Sites : /\ IsSharePoint(db, s)
                                /\ \E d \in Drives : /\ db.drive[d] # Gone
                                                     /\ db.drive[d].site = s
                                                     /\ db.drive[d].type # "cacheLibrary"}

LEMMA SitesAreListed ==
    ASSUME DashInv, Drained
    PROVE  Overview.sites = Cardinality(SitesPage)
<1>1. Overview.sites = Cardinality(OverviewSites)
  BY DrainedViews DEF Overview, InventorySummary, OverviewSites
<1>2. ASSUME NEW s \in Sites
      PROVE  (\E d \in Drives : db.drive[d] # Gone /\ db.drive[d].site = s
                                /\ db.drive[d].type # "cacheLibrary")
             <=> DrivesOf(db, s) # {}
  <2>1. ASSUME NEW d \in Drives
        PROVE  (db.drive[d] # Gone /\ db.drive[d].site = s /\ db.drive[d].type # "cacheLibrary")
               <=> d \in DrivesOf(db, s)
    <3>1. CASE db.drive[d] # Gone
      BY <3>1, RowsOfDrives DEF DrivesOf
    <3>2. CASE db.drive[d] = Gone
      BY <3>2 DEF DrivesOf, Eligible
    <3> QED BY <3>1, <3>2
  <2> QED BY <2>1 DEF DrivesOf
<1>3. OverviewSites = {s \in RoutableSites(db) : IsSharePoint(db, s)}
  BY <1>2, AllSitesAreRouted DEF OverviewSites
<1> DEFINE row == [s \in Sites |-> SiteRow(db, s)]
<1>4. \A s \in Sites : row[s].key = s /\ row[s] = SiteRow(db, s)
                       /\ (row[s].dashboard <=> IsSharePoint(db, s))
  BY DEF SiteRow
<1> HIDE DEF row
<1>5. SitesPage = {row[s] : s \in OverviewSites}
  <2>1. ASSUME NEW r \in SitesPage PROVE r \in {row[s] : s \in OverviewSites}
    <3>1. r \in RoutableSiteDrives(db) /\ r.dashboard
      BY DrainedViews DEF SitesPage
    <3>2. PICK s \in RoutableSites(db) : r = SiteRow(db, s)
      BY <3>1 DEF RoutableSiteDrives, PersonalRow
    <3>3. s \in Sites
      BY <3>2 DEF RoutableSites
    <3> QED BY <1>3, <1>4, <3>1, <3>2, <3>3
  <2>2. ASSUME NEW s \in OverviewSites PROVE row[s] \in SitesPage
    <3>1. s \in RoutableSites(db) /\ IsSharePoint(db, s) /\ s \in Sites
      BY <1>3 DEF OverviewSites
    <3>2. row[s] \in RoutableSiteDrives(db) /\ row[s].dashboard
      BY <1>4, <3>1 DEF RoutableSiteDrives
    <3> QED BY <3>2, DrainedViews DEF SitesPage
  <2> QED BY <2>1, <2>2
<1>6. IsFiniteSet(OverviewSites)
  <2>1. OverviewSites \in SUBSET Sites
    BY DEF OverviewSites
  <2> QED BY <2>1, ConstantsFit, FS_Subset
<1>7. \A s, t \in OverviewSites : row[s] = row[t] => s = t
  BY <1>4 DEF OverviewSites
<1> QED BY <1>1, <1>5, <1>6, <1>7, InjectiveImage

LEMMA UsersAreListed ==
    ASSUME DashInv, Drained
    PROVE  Overview.users = Cardinality(UsersPage("active"))
<1>1. Overview.users = Cardinality({u \in Users : db.user[u] = "enabled"})
  <2>1. Overview.users = InventorySummary(db).users
    BY DrainedViews DEF Overview
  <2>2. InventorySummary(db).users = Cardinality({u \in Users : db.user[u] = "enabled"})
    BY DEF InventorySummary
  <2> QED BY <2>1, <2>2
<1>2. Gone # "enabled"
  BY DashboardsAssumption
<1>3. UsersPage("active") = {u \in Users : db.user[u] = "enabled"}
  BY <1>2 DEF UsersPage
<1> QED BY <1>1, <1>3

GroupsThat(status) == {g \in Groups : db.group[g] = status}

LEMMA GroupsAreListed ==
    ASSUME DashInv, Drained
    PROVE  Overview.groups = Cardinality(GroupsPage)
<1> DEFINE live == GroupsThat("live")
           deleted == GroupsThat("deleted")
           page == [g \in live |-> <<g, views["group_member_counts"][g]>>]
<1>1. IsFiniteSet(live) /\ IsFiniteSet(deleted)
  <2>1. live \in SUBSET Groups /\ deleted \in SUBSET Groups
    BY DEF GroupsThat
  <2>2. IsFiniteSet(live)
    BY <2>1, ConstantsFit, FS_Subset
  <2>3. IsFiniteSet(deleted)
    BY <2>1, ConstantsFit, FS_Subset
  <2> QED BY <2>2, <2>3
<1>2. {g \in Groups : db.group[g] # Gone} = live \cup deleted /\ live \cap deleted = {}
  <2>1. \A g \in Groups : db.group[g] \in {"live", "deleted", Gone}
    BY DbFits DEF DashInv, GroupTable
  <2>2. Gone # "live" /\ Gone # "deleted"
    BY DashboardsAssumption
  <2> QED BY <2>1, <2>2 DEF GroupsThat
<1>3. Overview.groups = Max({0, Cardinality(live \cup deleted) - Cardinality(deleted)})
  <2>1. Overview.groups = Max({0, InventorySummary(db).groups - InventorySummary(db).groupsDeleted})
    BY DrainedViews DEF Overview
  <2>2. InventorySummary(db).groups = Cardinality(live \cup deleted)
    <3>1. InventorySummary(db).groups = Cardinality({g \in Groups : db.group[g] # Gone})
      BY DEF InventorySummary
    <3> QED BY <1>2, <3>1
  <2>3. InventorySummary(db).groupsDeleted = Cardinality(deleted)
    BY DEF InventorySummary, GroupsThat
  <2> QED BY <2>1, <2>2, <2>3
<1>4. GroupsPage = {page[g] : g \in live}
  BY DEF GroupsPage, GroupsThat
<1>5. \A g, h \in live : page[g] = page[h] => g = h
  OBVIOUS
<1> HIDE DEF live, deleted, page
<1>6. Cardinality(live \cup deleted) = Cardinality(live) + Cardinality(deleted)
  BY <1>1, <1>2, DisjointCount
<1>7. Cardinality(live) \in Nat
  BY <1>1, FS_CardinalityType
<1>8. Cardinality(deleted) \in Nat
  BY <1>1, FS_CardinalityType
<1>9. Overview.groups = Cardinality(live)
  <2>1. \A n \in Nat : Max({0, n}) = n
    <3> SUFFICES ASSUME NEW n \in Nat PROVE Max({0, n}) = n
      OBVIOUS
    <3>1. n \in {0, n} /\ \A y \in {0, n} : n >= y
      OBVIOUS
    <3>2. \A m \in {0, n} : (\A y \in {0, n} : m >= y) => m = n
      OBVIOUS
    <3> QED BY <3>1, <3>2 DEF Max
  <2>2. Cardinality(live \cup deleted) - Cardinality(deleted) = Cardinality(live)
    BY <1>6, <1>7, <1>8
  <2> QED BY <1>3, <1>7, <2>1, <2>2
<1>10. Cardinality(GroupsPage) = Cardinality(live)
  BY <1>1, <1>4, <1>5, InjectiveImage
<1> QED BY <1>9, <1>10

LEMMA DashInvMatches == ASSUME DashInv PROVE OverviewMatchesPages
<1>1. ASSUME Drained, NEW g \in Groups
      PROVE  GroupDetailPage(g).listed = GroupDetailPage(g).members
  BY <1>1, DrainedViews DEF GroupDetailPage, GroupMemberCounts
<1> QED BY <1>1, SitesAreListed, UsersAreListed, GroupsAreListed DEF OverviewMatchesPages

(***************************************************************************)
(* Sites, drives and users add up                                          *)
(***************************************************************************)

\* The counts by a key have the total of all.
LEMMA TotalByKey ==
    ASSUME NEW S, IsFiniteSet(S), NEW g, IsFiniteSet(DOMAIN g), NEW key,
           \A x \in S : key[x] \in DOMAIN g,
           \A y \in DOMAIN g : g[y] = Cardinality(Those(S, key, y))
    PROVE  Total(g) = Cardinality(S)
<1>1. ASSUME NEW y \in DOMAIN g PROVE g[y] \in Nat
  <2>1. Those(S, key, y) \in SUBSET S
    BY DEF Those
  <2>2. IsFiniteSet(Those(S, key, y))
    BY <2>1, FS_Subset
  <2>3. Cardinality(Those(S, key, y)) \in Nat
    BY <2>2, FS_CardinalityType
  <2> QED BY <2>3
<1>2. Total(g) = Cardinality(Pile(g, DOMAIN g))
  BY <1>1, TotalCounts
<1>3. Cardinality(Pile(g, DOMAIN g)) = Cardinality(S)
  BY CountsByKey
<1> QED BY <1>2, <1>3

\* The row of a key.
RowOf(key) == IF key \in Sites THEN SiteRow(db, key) ELSE PersonalRow(db, key)

LEMMA KeysFit ==
    /\ IsFiniteSet(Keys(db)) /\ Keys(db) \subseteq Sites \cup Drives
    /\ \A key \in Keys(db) : RowOf(key).key = key /\ RowOf(key) \in RoutableSiteDrives(db)
    /\ \A r \in RoutableSiteDrives(db) : r.key \in Keys(db) /\ r = RowOf(r.key)
<1>1. Sites \cap Drives = {}
  BY DashboardsAssumption
<1>2. RoutableSites(db) \subseteq Sites /\ PersonalDrives(db) \subseteq Drives
  BY DEF RoutableSites, PersonalDrives
<1>3. IsFiniteSet(Keys(db)) /\ Keys(db) \subseteq Sites \cup Drives
  <2>1. Keys(db) \in SUBSET (Sites \cup Drives)
    BY <1>2 DEF Keys
  <2>2. IsFiniteSet(Sites \cup Drives)
    BY <1>1, ConstantsFit, DisjointCount
  <2>3. IsFiniteSet(Keys(db))
    BY <2>1, <2>2, FS_Subset
  <2> QED BY <2>1, <2>3
<1>4. \A s \in RoutableSites(db) : RowOf(s) = SiteRow(db, s) /\ SiteRow(db, s).key = s
  BY <1>2 DEF RowOf, SiteRow
<1>5. \A d \in PersonalDrives(db) : RowOf(d) = PersonalRow(db, d) /\ PersonalRow(db, d).key = d
  BY <1>1, <1>2 DEF RowOf, PersonalRow
<1>6. \A key \in Keys(db) : RowOf(key).key = key /\ RowOf(key) \in RoutableSiteDrives(db)
  BY <1>4, <1>5 DEF Keys, RoutableSiteDrives
<1>7. \A r \in RoutableSiteDrives(db) : r.key \in Keys(db) /\ r = RowOf(r.key)
  BY <1>4, <1>5 DEF Keys, RoutableSiteDrives
<1> QED BY <1>3, <1>6, <1>7

\* Every eligible drive has its row.
LEMMA DrivesAreRouted ==
    ASSUME DashInv, NEW d \in Drives, Eligible(db, d)
    PROVE  SiteKey(db, d) \in Keys(db) /\ d \in DrivesOf(db, SiteKey(db, d))
<1>1. d \in DrivesOf(db, SiteKey(db, d))
  BY DEF DrivesOf
<1>2. db.drive[d] # Gone
  BY DEF Eligible
<1>3. CASE db.drive[d].site = NoSite
  BY <1>1, <1>3 DEF Keys, PersonalDrives, SiteKey
<1>4. CASE db.drive[d].site # NoSite
  <2>1. SiteKey(db, d) \in Sites
    BY <1>2, <1>4, RowsOfDrives DEF SiteKey
  <2>2. SiteKey(db, d) \in RoutableSites(db)
    BY <1>1, <2>1, AllSitesAreRouted
  <2> QED BY <1>1, <2>2 DEF Keys
<1> QED BY <1>3, <1>4

ScopeSets == {Scopes, {"anonymous"}, {"organization"}}

LEMMA LinksOfKey ==
    ASSUME DashInv, Drained, ~behind, NEW key \in Keys(db), NEW S \in ScopeSets
    PROVE  LinksOf(key, S) = Cardinality(LinksAt(db, key, S))
<1> DEFINE rows == {r \in views["site_sharing_summary"] : r.key = key}
<1>1. \A k : SharingRow(db, k).key = k
  BY DEF SharingRow
<1>2. views["site_sharing_summary"] = {SharingRow(db, k) : k \in Keys(db)}
  BY DrainedViews
<1>3. rows = {SharingRow(db, key)}
  BY <1>1, <1>2
<1>4. LinksOf(key, S) = IF rows = {} THEN 0 ELSE (CHOOSE r \in rows : TRUE).links[S]
  BY DEF LinksOf
<1> HIDE DEF rows
<1>5. (CHOOSE r \in rows : TRUE) = SharingRow(db, key)
  BY <1>3
<1>6. rows # {}
  BY <1>3
<1>7. SharingRow(db, key).links[S] = Cardinality(LinksAt(db, key, S))
  BY DEF SharingRow, ScopeSets
<1> QED BY <1>4, <1>5, <1>6, <1>7

LEMMA PrincipalsOfKey ==
    ASSUME DashInv, Drained, NEW key, NEW who
    PROVE  PrincipalsOf(key, who) > 0
           <=> \E p \in Shared(db) : /\ SiteKey(db, DriveOf[ItemOf[p]]) = key
                                     /\ db.permission[p].who = who
<1> DEFINE S == {n \in views["site_principal_identities"] : n = <<key, who>>}
<1>1. IsFiniteSet(S)
  <2>1. S \in SUBSET {<<key, who>>}
    OBVIOUS
  <2>2. IsFiniteSet({<<key, who>>})
    BY FS_Singleton
  <2> QED BY <2>1, <2>2, FS_Subset
<1>2. PrincipalsOf(key, who) = Cardinality(S)
  BY DEF PrincipalsOf
<1>3. S # {} <=> <<key, who>> \in SitePrincipalIdentities(db)
  BY DrainedViews
<1>4. <<key, who>> \in SitePrincipalIdentities(db)
      <=> \E p \in Shared(db) : /\ SiteKey(db, DriveOf[ItemOf[p]]) = key
                                /\ db.permission[p].who = who
  BY DEF SitePrincipalIdentities
<1> HIDE DEF S
<1>5. Cardinality(S) > 0 <=> S # {}
  BY <1>1, Sized
<1> QED BY <1>2, <1>3, <1>4, <1>5

\* Those of a drive with a scope of scopes.
OnDrive(d, scopes) == {p \in PermissionsOn(d) : db.permission[p].scope \in scopes}

LEMMA SharedOnDrives ==
    ASSUME NEW p, NEW key
    PROVE  (p \in Shared(db) /\ SiteKey(db, DriveOf[ItemOf[p]]) = key)
           <=> \E d \in DrivesOf(db, key) : p \in PermissionsOn(d)
<1>1. p \in Permissions => DriveOf[ItemOf[p]] \in Drives
  BY ConstantsFit
<1> QED BY <1>1 DEF Shared, DrivesOf, PermissionsOn

LEMMA LinksOnDrives ==
    ASSUME NEW key, NEW scopes
    PROVE  Total([d \in DrivesOf(db, key) |-> Cardinality(OnDrive(d, scopes))])
               = Cardinality(LinksAt(db, key, scopes))
<1> DEFINE P == LinksAt(db, key, scopes)
           drive == [p \in Permissions |-> DriveOf[ItemOf[p]]]
           g == [d \in DrivesOf(db, key) |-> Cardinality(OnDrive(d, scopes))]
<1>1. IsFiniteSet(P) /\ P \subseteq Permissions
  <2>1. P \in SUBSET Permissions
    BY DEF LinksAt, Links, Shared
  <2> QED BY <2>1, PermissionSets
<1>2. DOMAIN g = DrivesOf(db, key) /\ IsFiniteSet(DOMAIN g)
  <2>1. DrivesOf(db, key) \in SUBSET Drives
    BY DEF DrivesOf
  <2>2. IsFiniteSet(DrivesOf(db, key))
    BY <2>1, ConstantsFit, FS_Subset
  <2> QED BY <2>2
<1>3. \A p : p \in P <=> \E d \in DrivesOf(db, key) : p \in OnDrive(d, scopes)
  BY SharedOnDrives DEF LinksAt, Links, OnDrive
<1>4. \A d : \A p \in OnDrive(d, scopes) : p \in Permissions /\ drive[p] = d
  BY DEF OnDrive, PermissionsOn
<1>5. \A p \in P : drive[p] \in DrivesOf(db, key) /\ p \in OnDrive(drive[p], scopes)
  BY <1>3, <1>4
<1>6. \A d \in DrivesOf(db, key) : Those(P, drive, d) = OnDrive(d, scopes)
  BY <1>3, <1>4, <1>5 DEF Those
<1>7. \A d \in DOMAIN g : g[d] = Cardinality(Those(P, drive, d))
  BY <1>6
<1>8. \A p \in P : drive[p] \in DOMAIN g
  BY <1>2, <1>5
<1> HIDE DEF P, drive, g
<1>9. Total(g) = Cardinality(P)
  BY <1>1, <1>2, <1>7, <1>8, TotalByKey
<1> QED BY <1>9 DEF P, g

\* A row of the sharing table.
PageRow(r) ==
    [key |-> r.key, drive |-> r.drive, links |-> LinksOf(r.key, Scopes),
     anonymous |-> LinksOf(r.key, {"anonymous"}),
     guests |-> PrincipalsOf(r.key, "guest"), externals |-> PrincipalsOf(r.key, "external")]

LEMMA PageRows == SharingPage.sites = {PageRow(r) : r \in Routable}
BY DEF SharingPage, PageRow

LEMMA RowsAddUp ==
    ASSUME DashInv, Drained, ~behind, NEW r \in SharingPage.sites
    PROVE  /\ r.links = Total([d \in DrivesOf(db, r.key) |-> DriveDetailPage(d).links])
           /\ r.anonymous = Total([d \in DrivesOf(db, r.key) |-> DriveDetailPage(d).anonymous])
           /\ r.guests > 0 <=> \E d \in DrivesOf(db, r.key) : DriveDetailPage(d).guests > 0
<1>1. PICK q \in Routable : r = PageRow(q)
  BY PageRows
<1> DEFINE key == q.key
           ds == DrivesOf(db, key)
<1>2. /\ r.key = key /\ r.links = LinksOf(key, Scopes)
      /\ r.anonymous = LinksOf(key, {"anonymous"}) /\ r.guests = PrincipalsOf(key, "guest")
  BY <1>1 DEF PageRow
<1>3. key \in Keys(db)
  BY DrainedViews, KeysFit
<1> HIDE DEF key
<1>4. \A d : /\ DriveDetailPage(d).links = Cardinality(OnDrive(d, Scopes))
             /\ DriveDetailPage(d).anonymous = Cardinality(OnDrive(d, {"anonymous"}))
  <2>1. ASSUME NEW d
        PROVE  {p \in PermissionsOn(d) : db.permission[p].scope = "anonymous"}
                   = OnDrive(d, {"anonymous"})
    BY DEF OnDrive
  <2>2. ASSUME NEW d
        PROVE  {p \in PermissionsOn(d) : db.permission[p].scope \in Scopes} = OnDrive(d, Scopes)
    BY DEF OnDrive
  <2> QED BY <2>1, <2>2 DEF DriveDetailPage
<1>5. LinksOf(key, Scopes) = Total([d \in ds |-> DriveDetailPage(d).links])
  <2>1. LinksOf(key, Scopes) = Cardinality(LinksAt(db, key, Scopes))
    BY <1>3, LinksOfKey DEF ScopeSets
  <2>2. [d \in ds |-> DriveDetailPage(d).links] = [d \in ds |-> Cardinality(OnDrive(d, Scopes))]
    BY <1>4
  <2> QED BY <2>1, <2>2, LinksOnDrives
<1>6. LinksOf(key, {"anonymous"}) = Total([d \in ds |-> DriveDetailPage(d).anonymous])
  <2>1. LinksOf(key, {"anonymous"}) = Cardinality(LinksAt(db, key, {"anonymous"}))
    BY <1>3, LinksOfKey DEF ScopeSets
  <2>2. [d \in ds |-> DriveDetailPage(d).anonymous]
        = [d \in ds |-> Cardinality(OnDrive(d, {"anonymous"}))]
    BY <1>4
  <2> QED BY <2>1, <2>2, LinksOnDrives
<1>7. \A d : DriveDetailPage(d).guests > 0
             <=> \E p \in PermissionsOn(d) : db.permission[p].who = "guest"
  <2>1. ASSUME NEW d
        PROVE  DriveDetailPage(d).guests > 0
               <=> \E p \in PermissionsOn(d) : db.permission[p].who = "guest"
    <3> DEFINE S == {"guest"} \cap {db.permission[p].who : p \in PermissionsOn(d)}
    <3>1. IsFiniteSet(S)
      <4>1. S \in SUBSET {"guest"}
        OBVIOUS
      <4>2. IsFiniteSet({"guest"})
        BY FS_Singleton
      <4> QED BY <4>1, <4>2, FS_Subset
    <3>2. S # {} <=> \E p \in PermissionsOn(d) : db.permission[p].who = "guest"
      OBVIOUS
    <3>3. DriveDetailPage(d).guests = Cardinality(S)
      BY DEF DriveDetailPage
    <3> HIDE DEF S
    <3>4. Cardinality(S) > 0 <=> S # {}
      BY <3>1, Sized
    <3> QED BY <3>2, <3>3, <3>4
  <2> QED BY <2>1
<1>8. PrincipalsOf(key, "guest") > 0 <=> \E d \in ds : DriveDetailPage(d).guests > 0
  <2>1. PrincipalsOf(key, "guest") > 0
        <=> \E p \in Shared(db) : /\ SiteKey(db, DriveOf[ItemOf[p]]) = key
                                  /\ db.permission[p].who = "guest"
    BY PrincipalsOfKey
  <2> QED BY <1>7, <2>1, SharedOnDrives
<1> QED BY <1>2, <1>5, <1>6, <1>8

LEMMA LinksTotal ==
    Total(LinkBreakdown(db)) = Cardinality(Links(db, Scopes))
<1> DEFINE P == Links(db, Scopes)
           scope == [p \in Permissions |-> db.permission[p].scope]
           g == LinkBreakdown(db)
<1>1. IsFiniteSet(P) /\ P \subseteq Permissions
  <2>1. P \in SUBSET Permissions
    BY DEF Links, Shared
  <2> QED BY <2>1, PermissionSets
<1>2. DOMAIN g = Scopes /\ IsFiniteSet(Scopes)
  <2>1. IsFiniteSet({"anonymous"}) /\ IsFiniteSet({"organization"}) /\ IsFiniteSet({"users"})
    BY FS_Singleton
  <2>2. IsFiniteSet({"anonymous"} \cup {"organization"})
    BY <2>1, FS_Union
  <2>3. IsFiniteSet(({"anonymous"} \cup {"organization"}) \cup {"users"})
    BY <2>1, <2>2, FS_Union
  <2>4. Scopes = ({"anonymous"} \cup {"organization"}) \cup {"users"}
    BY DEF Scopes
  <2> QED BY <2>3, <2>4 DEF LinkBreakdown
<1>3. \A c \in Scopes : Those(P, scope, c) = Links(db, {c})
  BY <1>1 DEF Those, Links
<1>4. \A c \in DOMAIN g : g[c] = Cardinality(Those(P, scope, c))
  BY <1>2, <1>3 DEF LinkBreakdown
<1>5. \A p \in P : scope[p] \in DOMAIN g
  BY <1>1, <1>2 DEF Links
<1> HIDE DEF P, scope, g
<1>6. Total(g) = Cardinality(P)
  BY <1>1, <1>2, <1>4, <1>5, TotalByKey
<1> QED BY <1>6 DEF P, g

LEMMA RowsHoldAllLinks ==
    ASSUME DashInv, Drained, ~behind
    PROVE  SharingPage.totalLinks = Total([r \in SharingPage.sites |-> r.links])
<1> DEFINE P == Links(db, Scopes)
           keyOf == [p \in Permissions |-> SiteKey(db, DriveOf[ItemOf[p]])]
           rowOf == [p \in Permissions |-> PageRow(RowOf(keyOf[p]))]
           K == SharingPage.sites
           g == [r \in K |-> r.links]
<1>1. /\ IsFiniteSet(P) /\ P \subseteq Permissions
      /\ \A p \in P : Eligible(db, DriveOf[ItemOf[p]]) /\ DriveOf[ItemOf[p]] \in Drives
  <2>1. P \in SUBSET Permissions
    BY DEF Links, Shared
  <2>2. IsFiniteSet(P)
    BY <2>1, PermissionSets
  <2> QED BY <2>1, <2>2, ConstantsFit DEF Links, Shared
<1>2. K = {PageRow(RowOf(key)) : key \in Keys(db)}
  <2>1. Routable = {RowOf(key) : key \in Keys(db)}
    BY DrainedViews, KeysFit
  <2> QED BY <2>1, PageRows
<1>3. IsFiniteSet(K)
  <2> DEFINE row == [key \in Keys(db) |-> PageRow(RowOf(key))]
  <2>1. K = {row[key] : key \in Keys(db)}
    BY <1>2
  <2> HIDE DEF row
  <2>2. IsFiniteSet(Keys(db))
    BY KeysFit
  <2> QED BY <2>1, <2>2, ImageIsFinite
<1>4. \A p \in P : keyOf[p] \in Keys(db)
  BY <1>1, DrivesAreRouted
<1>5. \A key \in Keys(db) : PageRow(RowOf(key)).key = key
                            /\ PageRow(RowOf(key)).links = LinksOf(key, Scopes)
  BY KeysFit DEF PageRow
<1>6. ASSUME NEW key \in Keys(db)
      PROVE  Those(P, rowOf, PageRow(RowOf(key))) = LinksAt(db, key, Scopes)
  <2>1. \A p \in P : rowOf[p] = PageRow(RowOf(key)) <=> keyOf[p] = key
    BY <1>1, <1>4, <1>5
  <2> QED BY <1>1, <2>1 DEF Those, LinksAt
<1>7. ASSUME NEW y \in K PROVE g[y] = Cardinality(Those(P, rowOf, y))
  <2>1. PICK key \in Keys(db) : y = PageRow(RowOf(key))
    BY <1>2
  <2>2. g[y] = LinksOf(key, Scopes)
    BY <1>5, <2>1
  <2>3. LinksOf(key, Scopes) = Cardinality(LinksAt(db, key, Scopes))
    BY LinksOfKey DEF ScopeSets
  <2> QED BY <1>6, <2>1, <2>2, <2>3
<1>8. \A p \in P : rowOf[p] \in K
  BY <1>1, <1>2, <1>4
<1>9. DOMAIN g = K
  OBVIOUS
<1>10. SharingPage.totalLinks = Cardinality(P)
  <2>1. SharingPage.totalLinks = Total(LinkBreakdown(db))
    BY DrainedViews DEF SharingPage
  <2> QED BY <2>1, LinksTotal
<1> HIDE DEF P, rowOf, K, g
<1>11. Total(g) = Cardinality(P)
  BY <1>1, <1>3, <1>7, <1>8, <1>9, TotalByKey
<1> QED BY <1>10, <1>11 DEF g, K

\* What the user modified in the site of a key, and the site's place on the page.
ModifiedAt(u, key) == {i \in ModifiedBy(u) : SiteKey(db, DriveOf[i]) = key}
TopSite(u, r) == <<r.drive, Cardinality(ModifiedAt(u, r.key))>>

LEMMA TopSitesAddUp ==
    ASSUME DashInv, Drained, NEW u \in Users
    PROVE  UserDetailPage(u).modified = Total([s \in UserDetailPage(u).topSites |-> s[2]])
<1> DEFINE M == ModifiedBy(u)
           keyOf == [i \in Items |-> SiteKey(db, DriveOf[i])]
           siteOf == [i \in Items |-> TopSite(u, RowOf(keyOf[i]))]
           visited == {key \in Keys(db) : \E i \in M : keyOf[i] = key}
           K == UserDetailPage(u).topSites
           g == [s \in K |-> s[2]]
<1>1. /\ IsFiniteSet(M) /\ M \subseteq Items
      /\ \A i \in M : Eligible(db, DriveOf[i]) /\ DriveOf[i] \in Drives
  <2>1. M \in SUBSET Items
    BY DEF ModifiedBy
  <2>2. IsFiniteSet(M)
    BY <2>1, ConstantsFit, FS_Subset
  <2> QED BY <2>1, <2>2, ConstantsFit DEF ModifiedBy
<1>2. \A i \in M : keyOf[i] \in Keys(db)
  BY <1>1, DrivesAreRouted
<1>3. K = {TopSite(u, RowOf(key)) : key \in visited}
  <2>1. K = {TopSite(u, r) : r \in {q \in Routable : \E i \in M : SiteKey(db, DriveOf[i]) = q.key}}
    BY DEF UserDetailPage, TopSite, ModifiedAt
  <2>2. \A i \in M : keyOf[i] = SiteKey(db, DriveOf[i])
    BY <1>1
  <2>3. {q \in Routable : \E i \in M : SiteKey(db, DriveOf[i]) = q.key}
        = {RowOf(key) : key \in visited}
    <3>1. ASSUME NEW q \in Routable, NEW i \in M, SiteKey(db, DriveOf[i]) = q.key
          PROVE  q \in {RowOf(key) : key \in visited}
      <4>1. q.key \in Keys(db) /\ q = RowOf(q.key)
        BY DrainedViews, KeysFit
      <4>2. q.key \in visited
        BY <2>2, <3>1, <4>1
      <4> QED BY <4>1, <4>2
    <3>2. ASSUME NEW key \in visited
          PROVE  /\ RowOf(key) \in Routable
                 /\ \E i \in M : SiteKey(db, DriveOf[i]) = RowOf(key).key
      <4>1. RowOf(key) \in Routable /\ RowOf(key).key = key
        BY DrainedViews, KeysFit
      <4> QED BY <2>2, <4>1
    <3> QED BY <3>1, <3>2
  <2> QED BY <2>1, <2>3
<1>4. IsFiniteSet(K)
  <2> DEFINE site == [key \in Keys(db) |-> TopSite(u, RowOf(key))]
  <2>1. K = {site[key] : key \in visited}
    BY <1>3
  <2>2. IsFiniteSet(visited)
    <3>1. visited \in SUBSET Keys(db)
      OBVIOUS
    <3>2. IsFiniteSet(Keys(db))
      BY KeysFit
    <3> QED BY <3>1, <3>2, FS_Subset
  <2> HIDE DEF site, visited
  <2> QED BY <2>1, <2>2, ImageIsFinite
<1>5. ASSUME NEW k \in Keys(db), NEW l \in Keys(db), TopSite(u, RowOf(k)) = TopSite(u, RowOf(l))
      PROVE  k = l
  <2>1. RowOf(k).drive = RowOf(l).drive
    BY <1>5 DEF TopSite
  <2>2. RowOf(k) \in RoutableSiteDrives(db) /\ RowOf(k).key = k
    BY KeysFit
  <2>3. RowOf(l) \in RoutableSiteDrives(db) /\ RowOf(l).key = l
    BY KeysFit
  <2>4. RowOf(k).drive \in DrivesOf(db, k)
    BY <2>2, RowsFit
  <2>5. RowOf(l).drive \in DrivesOf(db, l)
    BY <2>3, RowsFit
  <2> QED BY <2>1, <2>4, <2>5 DEF DrivesOf
<1>6. ASSUME NEW key \in Keys(db)
      PROVE  Those(M, siteOf, TopSite(u, RowOf(key))) = ModifiedAt(u, key)
  <2>1. \A i \in M : siteOf[i] = TopSite(u, RowOf(key)) <=> keyOf[i] = key
    BY <1>1, <1>2, <1>5
  <2>2. \A i \in M : keyOf[i] = SiteKey(db, DriveOf[i])
    BY <1>1
  <2> QED BY <2>1, <2>2 DEF Those, ModifiedAt
<1>7. ASSUME NEW y \in K PROVE g[y] = Cardinality(Those(M, siteOf, y))
  <2>1. PICK key \in Keys(db) : y = TopSite(u, RowOf(key))
    BY <1>3
  <2>2. RowOf(key).key = key
    BY KeysFit
  <2>3. g[y] = Cardinality(ModifiedAt(u, key))
    BY <2>1, <2>2 DEF TopSite
  <2> QED BY <1>6, <2>1, <2>3
<1>8. \A i \in M : siteOf[i] \in K
  <2>1. \A i \in M : keyOf[i] \in visited
    BY <1>2
  <2> QED BY <1>1, <1>3, <2>1
<1>9. DOMAIN g = K
  OBVIOUS
<1>10. UserDetailPage(u).modified = Cardinality(M)
  BY DEF UserDetailPage
<1> HIDE DEF M, siteOf, K, g
<1>11. Total(g) = Cardinality(M)
  BY <1>1, <1>4, <1>7, <1>8, <1>9, TotalByKey
<1> QED BY <1>10, <1>11 DEF g, K

LEMMA DashInvAddsUp == ASSUME DashInv PROVE SitesAddUp
<1>1. ASSUME Drained, ~behind, NEW r \in SharingPage.sites
      PROVE  LET ds == DrivesOf(db, r.key)
             IN  /\ r.links = Total([d \in ds |-> DriveDetailPage(d).links])
                 /\ r.anonymous = Total([d \in ds |-> DriveDetailPage(d).anonymous])
                 /\ r.guests > 0 <=> \E d \in ds : DriveDetailPage(d).guests > 0
  BY <1>1, RowsAddUp
<1>2. ASSUME Drained, ~behind
      PROVE  SharingPage.totalLinks = Total([r \in SharingPage.sites |-> r.links])
  BY <1>2, RowsHoldAllLinks
<1>3. ASSUME Drained, NEW u \in Users
      PROVE  UserDetailPage(u).modified = Total([s \in UserDetailPage(u).topSites |-> s[2]])
  BY <1>3, TopSitesAddUp
<1> QED BY <1>1, <1>2, <1>3 DEF SitesAddUp

(***************************************************************************)
(* The risk page                                                           *)
(***************************************************************************)

LEMMA LinkSignals ==
    ASSUME DashInv, Drained, ~behind, NEW d \in Drives, Eligible(db, d),
           NEW c \in {"anonymous", "organization"}, DriveSharingPage(d).breakdown[c] > 0
    PROVE  LinksOf(SiteKey(db, d), {c}) > 0
<1> DEFINE key == SiteKey(db, d)
           S == {p \in PermissionsOn(d) : db.permission[p].scope = c}
<1>1. DriveSharingPage(d).breakdown[c] = Cardinality(S)
  BY DEF DriveSharingPage, Scopes
<1>2. S \in SUBSET Permissions
  BY DEF PermissionsOn
<1>3. PICK p \in S : TRUE
  BY <1>1, <1>2, PermissionSets
<1>4. key \in Keys(db) /\ d \in DrivesOf(db, key)
  BY DrivesAreRouted
<1>5. p \in PermissionsOn(d) /\ db.permission[p].scope = c
  BY <1>3
<1> HIDE DEF key, S
<1>6. p \in Shared(db) /\ SiteKey(db, DriveOf[ItemOf[p]]) = key
  BY <1>4, <1>5, SharedOnDrives
<1>7. p \in LinksAt(db, key, {c})
  BY <1>5, <1>6 DEF LinksAt, Links
<1>8. LinksAt(db, key, {c}) \in SUBSET Permissions
  BY DEF LinksAt, Links, Shared
<1>9. Cardinality(LinksAt(db, key, {c})) > 0
  BY <1>7, <1>8, PermissionSets
<1>10. LinksOf(key, {c}) = Cardinality(LinksAt(db, key, {c}))
  BY <1>4, LinksOfKey DEF ScopeSets
<1> QED BY <1>9, <1>10 DEF key

LEMMA PrincipalSignals ==
    ASSUME DashInv, Drained, NEW d \in Drives, Eligible(db, d),
           NEW who \in DriveSharingPage(d).principals
    PROVE  PrincipalsOf(SiteKey(db, d), who) > 0
<1>1. PICK p \in PermissionsOn(d) : db.permission[p].who = who
  BY DEF DriveSharingPage
<1>2. p \in Shared(db) /\ SiteKey(db, DriveOf[ItemOf[p]]) = SiteKey(db, d)
  BY <1>1, DrivesAreRouted, SharedOnDrives
<1> QED BY <1>1, <1>2, PrincipalsOfKey

LEMMA ExposureIsFlagged ==
    ASSUME DashInv, Drained, ~behind, NEW d \in Drives, DriveFound(d)
    PROVE  \E r \in Routable :
              /\ r.key = SiteKey(db, d)
              /\ DriveSharingPage(d).breakdown["anonymous"] > 0 => "anonymousLinks" \in Signals(r)
              /\ DriveSharingPage(d).breakdown["organization"] > 0 => "orgLinks" \in Signals(r)
              /\ "guest" \in DriveSharingPage(d).principals => "guestUsers" \in Signals(r)
              /\ "external" \in DriveSharingPage(d).principals => "externalUsers" \in Signals(r)
<1>1. Eligible(db, d)
  BY DEF DriveFound
<1>2. SiteKey(db, d) \in Keys(db)
  BY <1>1, DrivesAreRouted
<1>3. PICK r \in Routable : r.key = SiteKey(db, d)
  BY <1>2, KeysFit, DrainedViews
<1>4. ASSUME DriveSharingPage(d).breakdown["anonymous"] > 0 PROVE "anonymousLinks" \in Signals(r)
  <2>1. LinksOf(r.key, {"anonymous"}) > 0
    BY <1>1, <1>3, <1>4, LinkSignals
  <2> QED BY <2>1 DEF Signals
<1>5. ASSUME DriveSharingPage(d).breakdown["organization"] > 0 PROVE "orgLinks" \in Signals(r)
  <2>1. LinksOf(r.key, {"organization"}) > 0
    BY <1>1, <1>3, <1>5, LinkSignals
  <2> QED BY <2>1 DEF Signals
<1>6. ASSUME "guest" \in DriveSharingPage(d).principals PROVE "guestUsers" \in Signals(r)
  <2>1. PrincipalsOf(r.key, "guest") > 0
    BY <1>1, <1>3, <1>6, PrincipalSignals
  <2> QED BY <2>1 DEF Signals
<1>7. ASSUME "external" \in DriveSharingPage(d).principals PROVE "externalUsers" \in Signals(r)
  <2>1. PrincipalsOf(r.key, "external") > 0
    BY <1>1, <1>3, <1>7, PrincipalSignals
  <2> QED BY <2>1 DEF Signals
<1> QED BY <1>3, <1>4, <1>5, <1>6, <1>7

SignalNames == {"dormant", "anonymousLinks", "orgLinks", "externalUsers", "guestUsers"}

LEMMA SignalsFit ==
    ASSUME NEW r
    PROVE  /\ Signals(r) \subseteq SignalNames
           /\ IsFiniteSet(Signals(r)) /\ Cardinality(Signals(r)) \in Nat
           /\ Cardinality(Signals(r)) = 0 <=> Signals(r) = {}
           /\ Cardinality(Signals(r)) = 1 <=> \E n \in SignalNames : Signals(r) = {n}
<1>1. Signals(r) \subseteq SignalNames
  <2>1. (IF r.active THEN {} ELSE {"dormant"}) \subseteq SignalNames
    BY DEF SignalNames
  <2>2. (IF LinksOf(r.key, {"anonymous"}) > 0 THEN {"anonymousLinks"} ELSE {}) \subseteq SignalNames
    BY DEF SignalNames
  <2>3. (IF LinksOf(r.key, {"organization"}) > 0 THEN {"orgLinks"} ELSE {}) \subseteq SignalNames
    BY DEF SignalNames
  <2>4. (IF PrincipalsOf(r.key, "external") > 0 THEN {"externalUsers"} ELSE {}) \subseteq SignalNames
    BY DEF SignalNames
  <2>5. (IF PrincipalsOf(r.key, "guest") > 0 THEN {"guestUsers"} ELSE {}) \subseteq SignalNames
    BY DEF SignalNames
  <2> QED BY <2>1, <2>2, <2>3, <2>4, <2>5 DEF Signals
<1>2. IsFiniteSet(SignalNames)
  <2> DEFINE A == {"dormant"} \cup {"anonymousLinks"}
             B == A \cup {"orgLinks"}
             C == B \cup {"externalUsers"}
             D == C \cup {"guestUsers"}
  <2>1. IsFiniteSet({"dormant"}) /\ IsFiniteSet({"anonymousLinks"}) /\ IsFiniteSet({"orgLinks"})
        /\ IsFiniteSet({"externalUsers"}) /\ IsFiniteSet({"guestUsers"})
    BY FS_Singleton
  <2>2. D = SignalNames
    BY DEF SignalNames
  <2>3. IsFiniteSet(A)
    BY <2>1, FS_Union
  <2> HIDE DEF A
  <2>4. IsFiniteSet(B)
    BY <2>1, <2>3, FS_Union
  <2> HIDE DEF B
  <2>5. IsFiniteSet(C)
    BY <2>1, <2>4, FS_Union
  <2> HIDE DEF C
  <2>6. IsFiniteSet(D)
    BY <2>1, <2>5, FS_Union
  <2> QED BY <2>2, <2>6
<1>3. IsFiniteSet(Signals(r))
  BY <1>1, <1>2, FS_Subset
<1>4. Cardinality(Signals(r)) = 1 <=> \E n : Signals(r) = {n}
  BY <1>3, FS_Singleton
<1>5. Cardinality(Signals(r)) = 1 <=> \E n \in SignalNames : Signals(r) = {n}
  BY <1>1, <1>4
<1>6. Cardinality(Signals(r)) \in Nat
  BY <1>3, FS_CardinalityType
<1>7. Cardinality(Signals(r)) = 0 <=> Signals(r) = {}
  BY <1>3, FS_EmptySet
<1> QED BY <1>1, <1>3, <1>5, <1>6, <1>7

\* The slice of the chart that counts a flagged site.
Slice(r) ==
    CASE Cardinality(Signals(r)) > 1     -> 5
      [] Signals(r) = {"dormant"}        -> 1
      [] Signals(r) = {"anonymousLinks"} -> 2
      [] Signals(r) = {"orgLinks"}       -> 3
      [] OTHER                           -> 4
OnlyOf(signals) == {r \in Routable : Cardinality(Signals(r)) = 1 /\ Signals(r) \subseteq signals}
Several == {r \in Routable : Cardinality(Signals(r)) > 1}

LEMMA SlicesAreDisjoint ==
    ASSUME NEW r \in Routable
    PROVE  /\ r \in OnlyOf({"dormant"}) <=> Signals(r) # {} /\ Slice(r) = 1
           /\ r \in OnlyOf({"anonymousLinks"}) <=> Signals(r) # {} /\ Slice(r) = 2
           /\ r \in OnlyOf({"orgLinks"}) <=> Signals(r) # {} /\ Slice(r) = 3
           /\ r \in OnlyOf({"externalUsers", "guestUsers"}) <=> Signals(r) # {} /\ Slice(r) = 4
           /\ r \in Several <=> Signals(r) # {} /\ Slice(r) = 5
           /\ Slice(r) \in 1..5
<1> DEFINE n == Cardinality(Signals(r))
<1>1. n \in Nat /\ (n = 0 <=> Signals(r) = {})
  BY SignalsFit
<1>2. CASE n > 1
  <2>1. Signals(r) # {} /\ n # 1
    BY <1>1, <1>2
  <2>2. \A s \in SignalNames : Signals(r) # {s}
    BY <2>1, SignalsFit
  <2>3. Slice(r) = 5
    BY <1>2, <2>2 DEF Slice, SignalNames
  <2> QED BY <1>2, <2>1, <2>3 DEF OnlyOf, Several
<1>3. CASE n = 1
  <2>1. Signals(r) # {} /\ ~(n > 1)
    BY <1>1, <1>3
  <2>2. PICK s \in SignalNames : Signals(r) = {s}
    BY <1>3, SignalsFit
  <2>3. \A signals : r \in OnlyOf(signals) <=> s \in signals
    BY <1>3, <2>2 DEF OnlyOf
  <2>4. Slice(r) = IF s = "dormant" THEN 1 ELSE IF s = "anonymousLinks" THEN 2
                   ELSE IF s = "orgLinks" THEN 3 ELSE 4
    BY <2>1, <2>2 DEF Slice
  <2>5. r \notin Several
    BY <2>1 DEF Several
  <2> QED BY <2>1, <2>3, <2>4, <2>5 DEF SignalNames
<1>4. CASE n = 0
  <2>1. Signals(r) = {} /\ n # 1 /\ ~(n > 1)
    BY <1>1, <1>4
  <2>2. Slice(r) = 4
    BY <2>1 DEF Slice
  <2> QED BY <2>1, <2>2 DEF OnlyOf, Several
<1> QED BY <1>1, <1>2, <1>3, <1>4

LEMMA SlicesAddUp ==
    ASSUME DashInv, Drained
    PROVE  Cardinality(RiskPage.flagged) = Total(RiskPage.breakdown)
<1> DEFINE F == RiskPage.flagged
           slice == [r \in Routable |-> Slice(r)]
           g == <<Cardinality(OnlyOf({"dormant"})), Cardinality(OnlyOf({"anonymousLinks"})),
                  Cardinality(OnlyOf({"orgLinks"})),
                  Cardinality(OnlyOf({"externalUsers", "guestUsers"})), Cardinality(Several)>>
<1>1. F = {r \in Routable : Signals(r) # {}}
  BY DEF RiskPage
<1>2. RiskPage.breakdown = g
  BY DEF RiskPage, OnlyOf, Several
<1>3. IsFiniteSet(F)
  <2> DEFINE row == [key \in Keys(db) |-> RowOf(key)]
  <2>1. Routable = {row[key] : key \in Keys(db)}
    BY DrainedViews, KeysFit
  <2> HIDE DEF row
  <2>2. IsFiniteSet(Keys(db))
    BY KeysFit
  <2>3. IsFiniteSet(Routable)
    BY <2>1, <2>2, ImageIsFinite
  <2>4. F \in SUBSET Routable
    BY <1>1
  <2> QED BY <2>3, <2>4, FS_Subset
<1>4. DOMAIN g = 1..5 /\ IsFiniteSet(1..5)
  <2>1. \A n \in Int : IsFiniteSet(1..n)
    BY FS_Interval
  <2>2. 5 \in Int
    OBVIOUS
  <2>3. IsFiniteSet(1..5)
    BY <2>1, <2>2, Zenon
  <2>4. DOMAIN g = 1..5
    OBVIOUS
  <2> QED BY <2>3, <2>4
<1>5. \A k : Those(F, slice, k) = {r \in Routable : Signals(r) # {} /\ Slice(r) = k}
  BY <1>1 DEF Those
<1>6. /\ Those(F, slice, 1) = OnlyOf({"dormant"})
      /\ Those(F, slice, 2) = OnlyOf({"anonymousLinks"})
      /\ Those(F, slice, 3) = OnlyOf({"orgLinks"})
      /\ Those(F, slice, 4) = OnlyOf({"externalUsers", "guestUsers"})
      /\ Those(F, slice, 5) = Several
  <2>1. \A signals : OnlyOf(signals) \subseteq Routable
    BY DEF OnlyOf
  <2>2. Several \subseteq Routable
    BY DEF Several
  <2> QED BY <1>5, <2>1, <2>2, SlicesAreDisjoint
<1>7. \A k \in DOMAIN g : g[k] = Cardinality(Those(F, slice, k))
  <2>1. \A k \in 1..5 : k = 1 \/ k = 2 \/ k = 3 \/ k = 4 \/ k = 5
    OBVIOUS
  <2> QED BY <1>4, <1>6, <2>1
<1>8. \A r \in F : slice[r] \in DOMAIN g
  BY <1>1, <1>4, SlicesAreDisjoint
<1> HIDE DEF F, slice, g
<1>9. Total(g) = Cardinality(F)
  BY <1>3, <1>4, <1>7, <1>8, TotalByKey
<1> QED BY <1>2, <1>9 DEF F

LEMMA FilesAreListed ==
    ASSUME DashInv, Drained, NEW c \in {"anonymous", "organization"}
    PROVE  RiskPage.files[c] = SharingLinksPage(Drives, c)
<1>1. RiskPage.files[c] = {i \in Items : /\ <<i, c>> \in ItemLinkDaily(db)
                                         /\ db.item[i] # Gone /\ Eligible(db, DriveOf[i])}
  BY DrainedViews DEF RiskPage
<1>2. c \in Scopes
  BY DEF Scopes
<1>3. \A i : <<i, c>> \in ItemLinkDaily(db)
             <=> \E p \in Permissions : /\ ItemOf[p] = i /\ db.permission[p] # Gone
                                        /\ db.permission[p].scope = c
                                        /\ Eligible(db, DriveOf[i])
  BY <1>2 DEF ItemLinkDaily, Links, Shared
<1> QED BY <1>1, <1>3, ConstantsFit DEF SharingLinksPage

LEMMA DashInvFlags == ASSUME DashInv PROVE RisksAreFlagged
<1>1. ASSUME Drained, ~behind, NEW d \in {e \in Drives : DriveFound(e)}
      PROVE  \E r \in Routable :
                /\ r.key = SiteKey(db, d)
                /\ DriveSharingPage(d).breakdown["anonymous"] > 0 =>
                       "anonymousLinks" \in Signals(r)
                /\ DriveSharingPage(d).breakdown["organization"] > 0 => "orgLinks" \in Signals(r)
                /\ "guest" \in DriveSharingPage(d).principals => "guestUsers" \in Signals(r)
                /\ "external" \in DriveSharingPage(d).principals => "externalUsers" \in Signals(r)
  BY <1>1, ExposureIsFlagged
<1>2. ASSUME Drained PROVE Cardinality(RiskPage.flagged) = Total(RiskPage.breakdown)
  BY <1>2, SlicesAddUp
<1>3. ASSUME Drained, NEW c \in {"anonymous", "organization"}
      PROVE  RiskPage.files[c] = SharingLinksPage(Drives, c)
  BY <1>3, FilesAreListed
<1> QED BY <1>1, <1>2, <1>3 DEF RisksAreFlagged

LEMMA DashInvAgrees == ASSUME DashInv PROVE PagesAgree
BY DashInvMatches, DashInvAddsUp, DashInvFlags DEF PagesAgree

\* Once the queue is drained, the pages that count the same rows agree, for any
\* number of sites, drives, items and permissions: the overview and the lists, a
\* row of the sharing table and the pages of its drives, the totals and the rows,
\* the sites on a user's page and that user's items, the risk page and what is
\* exposed.
THEOREM PagesAlwaysAgree == Spec => []PagesAgree
BY DashInvHolds, DashInvAgrees, PTL

==============================================================================
