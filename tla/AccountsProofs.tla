--------------------------- MODULE AccountsProofs ---------------------------
(***************************************************************************)
(* What the contracts need to know of a sum over the accounts: it is an    *)
(* integer, zeros sum to zero, it bounds each summand that is natural, and *)
(* changing one summand by d changes it by d.                              *)
(*                                                                         *)
(* SumFunction folds over the domain in an order that CHOOSE fixes.  That  *)
(* the order does not matter is an induction on the size of the sets       *)
(* folded, in the form Induct gives it: a set of numbers that holds 0 and  *)
(* with each number the next holds all of them.                            *)
(***************************************************************************)
EXTENDS Accounts, FiniteSetsExt, Sequences, FiniteSetTheorems, SequenceTheorems,
        WellFoundedInduction, TLAPS

\* A non-empty set of natural numbers has a least element.
LEMMA LeastNatural ==
    ASSUME NEW T, T \subseteq Nat, T # {}
    PROVE  \E x \in T : \A y \in T : x <= y
<1> DEFINE R == OpToRel(<, Nat)
<1>1. IsWellFoundedOn(R, Nat)
    BY NatLessThanWellFounded, Zenon
<1>2. \A x, y \in Nat : <<y, x>> \in R <=> y < x
    BY Zenon DEF OpToRel
<1> HIDE DEF R
<1>3. PICK x \in T : \A y \in T : ~(<<y, x>> \in R)
    BY <1>1, WFMin
<1>4. \A y \in T : ~(y < x)
    BY <1>2, <1>3
<1> QED BY <1>4

\* A set of natural numbers that holds 0 and the successor of each of its
\* elements holds them all.
LEMMA Induct ==
    ASSUME NEW T, 0 \in T, \A n \in Nat : n \in T => n + 1 \in T
    PROVE  \A n \in Nat : n \in T
<1> DEFINE F == {n \in Nat : n \notin T}
<1> SUFFICES ASSUME F # {} PROVE FALSE
    OBVIOUS
<1>1. PICK x \in F : \A y \in F : x <= y
    <2> F \subseteq Nat
        OBVIOUS
    <2> HIDE DEF F
    <2> QED BY LeastNatural
<1>2. x \in Nat /\ x # 0 /\ x - 1 \in Nat
    BY <1>1
<1>3. x - 1 \in T
    BY <1>1, <1>2
<1> QED BY <1>1, <1>2, <1>3

\* The element a fold takes next from s.
Pick(s) == CHOOSE x \in s : TRUE

\* g is the partial sums of f over the sets of C, as SumFunction takes them.
Folds(f, C, g) ==
    g = [s \in C |-> IF s = {} THEN 0 ELSE f[Pick(s)] + g[s \ {Pick(s)}]]

\* It is one of the elements.
LEMMA PickIn == ASSUME NEW s, s # {} PROVE Pick(s) \in s
BY DEF Pick

\* The subsets of D with at most n elements.
UpTo(D, n) == {s \in SUBSET D : Cardinality(s) <= n}

\* Without one of its elements a set is smaller by one.
LEMMA Smaller ==
    ASSUME NEW D, IsFiniteSet(D), NEW n \in Nat, NEW s \in UpTo(D, n + 1), NEW x \in s
    PROVE  s \ {x} \in UpTo(D, n) /\ Cardinality(s \ {x}) = Cardinality(s) - 1 /\
        Cardinality(s) \in Nat
<1>1. s \subseteq D /\ IsFiniteSet(s) /\ Cardinality(s) <= n + 1
    BY FS_Subset DEF UpTo
<1>2. Cardinality(s \ {x}) = Cardinality(s) - 1 /\ Cardinality(s) \in Nat
    BY <1>1, FS_RemoveElement, FS_CardinalityType
<1> QED BY <1>1, <1>2 DEF UpTo

\* Partial sums exist: from the sets of n elements to those of n + 1.
LEMMA FoldExists ==
    ASSUME NEW D, IsFiniteSet(D), NEW f \in [D -> Int]
    PROVE  \E g \in [SUBSET D -> Int] : Folds(f, SUBSET D, g)
<1> DEFINE T == {n \in Nat : \E g \in [UpTo(D, n) -> Int] : Folds(f, UpTo(D, n), g)}
<1>1. 0 \in T
    <2> DEFINE g == [s \in UpTo(D, 0) |-> 0]
    <2>1. \A s \in UpTo(D, 0) : s = {}
        <3> SUFFICES ASSUME NEW s \in UpTo(D, 0) PROVE s = {}
            OBVIOUS
        <3>1. s \in SUBSET D /\ Cardinality(s) <= 0
            BY DEF UpTo
        <3>2. IsFiniteSet(s) /\ Cardinality(s) \in Nat
            BY <3>1, FS_Subset, FS_CardinalityType
        <3> QED BY <3>1, <3>2, FS_EmptySet
    <2>2. Folds(f, UpTo(D, 0), g)
        BY <2>1 DEF Folds
    <2>3. g \in [UpTo(D, 0) -> Int]
        OBVIOUS
    <2> QED BY <2>2, <2>3
<1>2. ASSUME NEW n \in Nat, n \in T PROVE n + 1 \in T
    <2>1. PICK g \in [UpTo(D, n) -> Int] : Folds(f, UpTo(D, n), g)
        BY <1>2
    <2> DEFINE h == [s \in UpTo(D, n + 1) |-> IF s = {} THEN 0 ELSE f[Pick(s)] + g[s \ {Pick(s)}]]
    <2>2. ASSUME NEW s \in UpTo(D, n + 1), s # {}
          PROVE  Pick(s) \in s /\ Pick(s) \in D /\ s \ {Pick(s)} \in UpTo(D, n)
        <3>1. Pick(s) \in s
            BY <2>2, PickIn
        <3> QED BY <3>1, Smaller DEF UpTo
    <2>3. h \in [UpTo(D, n + 1) -> Int]
        BY <2>2
    <2>4. \A s \in UpTo(D, n) : s \in UpTo(D, n + 1)
        <3> SUFFICES ASSUME NEW s \in UpTo(D, n) PROVE s \in UpTo(D, n + 1)
            OBVIOUS
        <3>1. s \in SUBSET D /\ Cardinality(s) <= n
            BY DEF UpTo
        <3>2. Cardinality(s) \in Nat
            BY <3>1, FS_Subset, FS_CardinalityType
        <3> QED BY <3>1, <3>2 DEF UpTo
    <2>5. \A s \in UpTo(D, n) : h[s] = g[s]
        BY <2>1, <2>4 DEF Folds
    <2>6. Folds(f, UpTo(D, n + 1), h)
        <3>1. \A s \in UpTo(D, n + 1) : s # {} => h[s \ {Pick(s)}] = g[s \ {Pick(s)}]
            BY <2>2, <2>5
        <3>2. \A s \in UpTo(D, n + 1) : h[s] = IF s = {} THEN 0 ELSE f[Pick(s)] + h[s \ {Pick(s)}]
            BY <3>1
        <3>3. h = [s \in UpTo(D, n + 1) |-> h[s]]
            OBVIOUS
        <3> HIDE DEF h
        <3> QED BY <3>2, <3>3 DEF Folds
    <2> HIDE DEF h
    <2> QED BY <2>3, <2>6
<1> HIDE DEF T
<1>3. \A n \in Nat : n \in T
    BY <1>1, <1>2, Induct
<1>4. Cardinality(D) \in Nat /\ UpTo(D, Cardinality(D)) = SUBSET D
    BY FS_CardinalityType, FS_Subset DEF UpTo
<1> QED BY <1>3, <1>4 DEF T

\* g is the partial sums of f over the subsets of its finite domain D.
PartialSums(f, D, g) ==
    /\ IsFiniteSet(D) /\ f \in [D -> Int] /\ g \in [SUBSET D -> Int]
    /\ Folds(f, SUBSET D, g)

\* Any partial sums: the value at a set, and which element is taken does not
\* matter.
LEMMA FoldAny ==
    ASSUME NEW D, NEW f, NEW g, PartialSums(f, D, g)
    PROVE  /\ g[{}] = 0
           /\ \A s \in SUBSET D : \A x \in s : g[s] = f[x] + g[s \ {x}]
<1> USE DEF PartialSums
<1>0. \A s \in SUBSET D : g[s] = IF s = {} THEN 0 ELSE f[Pick(s)] + g[s \ {Pick(s)}]
    BY DEF Folds
<1>1. g[{}] = 0
    BY <1>0
<1> DEFINE T == {n \in Nat : \A s \in UpTo(D, n) : \A x \in s : g[s] = f[x] + g[s \ {x}]}
<1>2. 0 \in T
    <2> SUFFICES ASSUME NEW s \in UpTo(D, 0), NEW x \in s PROVE FALSE
        OBVIOUS
    <2>1. s \in SUBSET D /\ Cardinality(s) <= 0
        BY DEF UpTo
    <2>2. IsFiniteSet(s) /\ Cardinality(s) \in Nat
        BY <2>1, FS_Subset, FS_CardinalityType
    <2> QED BY <2>1, <2>2, FS_EmptySet
<1>3. ASSUME NEW n \in Nat, n \in T PROVE n + 1 \in T
    <2> SUFFICES ASSUME NEW s \in UpTo(D, n + 1), NEW x \in s
                 PROVE  g[s] = f[x] + g[s \ {x}]
        OBVIOUS
    <2> DEFINE c == Pick(s)
    <2>1. s \in SUBSET D /\ c \in s /\ s # {}
        BY PickIn DEF UpTo
    <2>2. g[s] = f[c] + g[s \ {c}]
        BY <1>0, <2>1
    <2>3. s \ {c} \in UpTo(D, n) /\ s \ {x} \in UpTo(D, n)
        BY <2>1, Smaller
    <2> HIDE DEF c
    <2>4. CASE x = c
        BY <2>2, <2>4
    <2>5. CASE x # c
        <3>1. g[s \ {c}] = f[x] + g[(s \ {c}) \ {x}]
            BY <1>3, <2>1, <2>3, <2>5
        <3>2. g[s \ {x}] = f[c] + g[(s \ {x}) \ {c}]
            BY <1>3, <2>1, <2>3, <2>5
        <3>3. PICK r \in SUBSET D : r = (s \ {c}) \ {x} /\ r = (s \ {x}) \ {c}
            BY <2>1
        <3>4. f[x] \in Int /\ f[c] \in Int /\ g[r] \in Int
            BY <2>1
        <3>5. g[s \ {c}] = f[x] + g[r] /\ g[s \ {x}] = f[c] + g[r]
            BY <3>1, <3>2, <3>3
        <3> QED BY <2>2, <3>4, <3>5
    <2> QED BY <2>4, <2>5
<1> HIDE DEF T
<1>4. \A n \in Nat : n \in T
    BY <1>2, <1>3, Induct
<1>5. Cardinality(D) \in Nat /\ UpTo(D, Cardinality(D)) = SUBSET D
    BY FS_CardinalityType, FS_Subset DEF UpTo
<1> QED BY <1>1, <1>4, <1>5 DEF T

\* Two functions that agree on a set have the same sum over it.
LEMMA FoldSame ==
    ASSUME NEW D, IsFiniteSet(D), NEW f \in [D -> Int], NEW e \in [D -> Int],
           NEW g, Folds(f, SUBSET D, g), NEW h, Folds(e, SUBSET D, h),
           NEW S \in SUBSET D, \A x \in S : f[x] = e[x]
    PROVE  g[S] = h[S]
<1>0. /\ \A s \in SUBSET D : g[s] = IF s = {} THEN 0 ELSE f[Pick(s)] + g[s \ {Pick(s)}]
      /\ \A s \in SUBSET D : h[s] = IF s = {} THEN 0 ELSE e[Pick(s)] + h[s \ {Pick(s)}]
    BY DEF Folds
<1>f. IsFiniteSet(S)
    BY FS_Subset
<1> DEFINE T == {n \in Nat : \A s \in UpTo(S, n) : g[s] = h[s]}
<1>1. 0 \in T
    <2> SUFFICES ASSUME NEW s \in UpTo(S, 0) PROVE g[s] = h[s]
        OBVIOUS
    <2>1. s \in SUBSET S /\ Cardinality(s) <= 0
        BY DEF UpTo
    <2>2. IsFiniteSet(s) /\ Cardinality(s) \in Nat
        BY <1>f, <2>1, FS_Subset, FS_CardinalityType
    <2>3. s = {}
        BY <2>1, <2>2, FS_EmptySet
    <2> QED BY <1>0, <2>3
<1>2. ASSUME NEW n \in Nat, n \in T PROVE n + 1 \in T
    <2> SUFFICES ASSUME NEW s \in UpTo(S, n + 1) PROVE g[s] = h[s]
        OBVIOUS
    <2>1. s \in SUBSET D /\ s \in SUBSET S
        BY DEF UpTo
    <2>2. CASE s = {}
        BY <1>0, <2>1, <2>2
    <2>3. CASE s # {}
        <3>1. Pick(s) \in s
            BY <2>3, PickIn
        <3>2. g[s \ {Pick(s)}] = h[s \ {Pick(s)}]
            BY <1>f, <1>2, <3>1, Smaller
        <3>3. f[Pick(s)] = e[Pick(s)]
            BY <2>1, <3>1
        <3> QED BY <1>0, <2>1, <2>3, <3>2, <3>3
    <2> QED BY <2>2, <2>3
<1> HIDE DEF T
<1>3. \A n \in Nat : n \in T
    BY <1>1, <1>2, Induct
<1>4. Cardinality(S) \in Nat /\ UpTo(S, Cardinality(S)) = SUBSET S
    BY <1>f, FS_CardinalityType, FS_Subset DEF UpTo
<1> QED BY <1>3, <1>4 DEF T

\* The sum is the last of the partial sums.
LEMMA SumIsFold ==
    ASSUME NEW D, IsFiniteSet(D), NEW f \in [D -> Int]
    PROVE  \E g \in [SUBSET D -> Int] : PartialSums(f, D, g) /\ SumFunction(f) = g[D]
<1> DEFINE it == CHOOSE g : Folds(f, SUBSET D, g)
<1>d. DOMAIN f = D
    OBVIOUS
<1>1. PICK h \in [SUBSET D -> Int] : Folds(f, SUBSET D, h)
    BY FoldExists
<1>2. Folds(f, SUBSET D, it)
   BY <1>1
<1>3. SumFunction(f) = it[D]
   BY <1>d DEF SumFunction, SumFunctionOnSet, FoldFunctionOnSet, MapThenFoldSet, Folds, Pick
<1> HIDE DEF it
<1>4. \A S \in SUBSET D : it[S] = h[S]
    BY <1>1, <1>2, FoldSame
<1>5. it = [S \in SUBSET D |-> it[S]] /\ h = [S \in SUBSET D |-> h[S]]
    BY <1>1, <1>2 DEF Folds
<1>6. it = h
    BY <1>4, <1>5
<1> QED BY <1>1, <1>3, <1>6 DEF PartialSums

\* What the contracts need to know of a sum.  It is an integer; nothing sums
\* to nothing; changing one summand changes the sum by as much; no summand
\* exceeds a sum of naturals.
LEMMA SumInt ==
    ASSUME NEW D, IsFiniteSet(D), NEW f \in [D -> Int]
    PROVE  SumFunction(f) \in Int
<1>1. PICK g \in [SUBSET D -> Int] : SumFunction(f) = g[D]
    BY SumIsFold
<1>2. D \in SUBSET D
    OBVIOUS
<1> QED BY <1>1, <1>2

\* Any element may be split off the whole.
LEMMA FoldSplit ==
    ASSUME NEW D, NEW f, NEW g, PartialSums(f, D, g), NEW a \in D
    PROVE  g[D] = f[a] + g[D \ {a}]
<1>1. /\ g[{}] = 0
      /\ \A s \in SUBSET D : \A x \in s : g[s] = f[x] + g[s \ {x}]
    BY FoldAny
<1> QED BY <1>1

\* A sum changes by as much as the one summand that changes.
LEMMA SumUpdate ==
    ASSUME NEW D, IsFiniteSet(D), NEW f \in [D -> Int], NEW e \in [D -> Int], NEW x \in D,
           \A y \in D \ {x} : e[y] = f[y]
    PROVE  SumFunction(e) = SumFunction(f) - f[x] + e[x]
<1>1. PICK g \in [SUBSET D -> Int] : PartialSums(f, D, g) /\ SumFunction(f) = g[D]
    BY SumIsFold
<1>2. PICK h \in [SUBSET D -> Int] : PartialSums(e, D, h) /\ SumFunction(e) = h[D]
    BY SumIsFold
<1>3. PICK r \in SUBSET D : r = D \ {x}
    OBVIOUS
<1>4. g[r] = h[r]
    BY <1>1, <1>2, <1>3, FoldSame DEF PartialSums
<1>5. g[D] = f[x] + g[r] /\ h[D] = e[x] + h[r]
    BY <1>1, <1>2, <1>3, FoldSplit
<1>6. g[r] \in Int /\ f[x] \in Int /\ e[x] \in Int
    OBVIOUS
<1> QED BY <1>1, <1>2, <1>4, <1>5, <1>6

\* Zeros sum to zero.
LEMMA SumZero ==
    ASSUME NEW D, IsFiniteSet(D), NEW f \in [D -> Int], \A x \in D : f[x] = 0
    PROVE  SumFunction(f) = 0
<1>1. PICK g \in [SUBSET D -> Int] : PartialSums(f, D, g) /\ SumFunction(f) = g[D]
    BY SumIsFold
<1> DEFINE z == [s \in SUBSET D |-> 0]
<1>2. Folds(f, SUBSET D, z)
    <2> SUFFICES ASSUME NEW s \in SUBSET D, s # {}
                 PROVE  f[Pick(s)] = 0 /\ s \ {Pick(s)} \in SUBSET D
        BY DEF Folds
    <2>1. Pick(s) \in s
        BY PickIn
    <2> QED BY <2>1
<1>3. g[D] = z[D]
    <2> HIDE DEF z
    <2> QED BY <1>1, <1>2, FoldSame DEF PartialSums
<1> QED BY <1>1, <1>3

\* Adding a summand adds it to the sum.
LEMMA SumExtend ==
    ASSUME NEW D, IsFiniteSet(D), NEW f \in [D -> Int], NEW a, a \notin D,
           NEW e \in [D \cup {a} -> Int], \A y \in D : e[y] = f[y]
    PROVE  SumFunction(e) = SumFunction(f) + e[a]
<1>0. IsFiniteSet(D \cup {a})
    BY FS_AddElement
<1>1. PICK g \in [SUBSET D -> Int] : PartialSums(f, D, g) /\ SumFunction(f) = g[D]
    BY SumIsFold
<1>2. PICK h \in [SUBSET (D \cup {a}) -> Int] :
          PartialSums(e, D \cup {a}, h) /\ SumFunction(e) = h[D \cup {a}]
    BY <1>0, SumIsFold
<1>3. h[D \cup {a}] = e[a] + h[(D \cup {a}) \ {a}]
    <2>1. a \in D \cup {a}
        OBVIOUS
    <2> QED BY <1>2, <2>1, FoldSplit
<1>4. (D \cup {a}) \ {a} = D
    OBVIOUS
<1> DEFINE r == [s \in SUBSET D |-> h[s]]
<1>5. Folds(f, SUBSET D, r)
    <2>1. \A s \in SUBSET D : h[s] = IF s = {} THEN 0 ELSE e[Pick(s)] + h[s \ {Pick(s)}]
        BY <1>2 DEF PartialSums, Folds
    <2>2. ASSUME NEW s \in SUBSET D, s # {} PROVE Pick(s) \in D /\ s \ {Pick(s)} \in SUBSET D
        BY <2>2, PickIn
    <2>3. \A s \in SUBSET D : r[s] = IF s = {} THEN 0 ELSE f[Pick(s)] + r[s \ {Pick(s)}]
        BY <2>1, <2>2
    <2>4. r = [s \in SUBSET D |-> r[s]]
        OBVIOUS
    <2> HIDE DEF r
    <2> QED BY <2>3, <2>4 DEF Folds
<1>6. r[D] = g[D]
    <2>1. D \in SUBSET D
        OBVIOUS
    <2> HIDE DEF r
    <2> QED BY <1>1, <1>5, <2>1, FoldSame DEF PartialSums
<1>7. h[D] = g[D] /\ g[D] \in Int /\ e[a] \in Int
    <2>1. D \in SUBSET D /\ a \in D \cup {a}
        OBVIOUS
    <2>2. r[D] = h[D]
        BY <2>1
    <2>3. g[D] \in Int
        BY <2>1
    <2>4. e[a] \in Int
        BY <2>1
    <2> HIDE DEF r
    <2> QED BY <1>6, <2>2, <2>3, <2>4
<1>8. SumFunction(e) = e[a] + h[D]
    BY <1>2, <1>3, <1>4, Zenon
<1>9. SumFunction(f) = g[D]
    BY <1>1
<1> HIDE DEF r
<1> QED BY <1>7, <1>8, <1>9

\* e is f with a summand added at a.
Extends(D, f, a, e) ==
    /\ IsFiniteSet(D) /\ a \notin D
    /\ f \in [D -> Int] /\ e \in [D \cup {a} -> Int] /\ \A y \in D : e[y] = f[y]

\* The same, by the name of its hypotheses.
LEMMA SumOfExtension ==
    ASSUME NEW D, NEW f, NEW a, NEW e, Extends(D, f, a, e)
    PROVE  SumFunction(e) = SumFunction(f) + e[a]
BY SumExtend DEF Extends

\* A sequence of n + 1 numbers sums to one of n and the last.
LEMMA SumOneMore ==
    ASSUME NEW n \in Nat, NEW f, f \in [1..n -> Int], NEW e, e \in [1..(n + 1) -> Int],
           \A i \in 1..n : e[i] = f[i]
    PROVE  SumFunction(f) \in Int /\ SumFunction(e) = SumFunction(f) + e[n + 1]
<1>1. PICK D, a : D = 1..n /\ a = n + 1
    OBVIOUS
<1>2. IsFiniteSet(D)
    BY <1>1, FS_Interval
<1>3. a \notin D
    BY <1>1
<1>4. f \in [D -> Int] /\ e \in [D \cup {a} -> Int] /\ \A i \in D : e[i] = f[i]
    <2>1. D \cup {a} = 1..(n + 1)
        BY <1>1
    <2> QED BY <1>1, <2>1
<1>5. SumFunction(f) \in Int
    BY <1>2, <1>4, SumInt
<1>6. SumFunction(e) = SumFunction(f) + e[a]
    <2>1. Extends(D, f, a, e)
        BY <1>2, <1>3, <1>4 DEF Extends
    <2> QED BY <2>1, SumOfExtension
<1> QED BY <1>1, <1>5, <1>6

\* One to four numbers, written out.
LEMMA SumOfFew ==
    /\ \A f \in [1..1 -> Int] : SumFunction(f) = f[1]
    /\ \A f \in [1..2 -> Int] : SumFunction(f) = f[1] + f[2]
    /\ \A f \in [1..3 -> Int] : SumFunction(f) = f[1] + f[2] + f[3]
    /\ \A f \in [1..4 -> Int] : SumFunction(f) = f[1] + f[2] + f[3] + f[4]
<1>1. ASSUME NEW f, f \in [1..1 -> Int] PROVE SumFunction(f) = f[1]
    <2>1. PICK g : g = [i \in 1..0 |-> 0]
        OBVIOUS
    <2>2. g \in [1..0 -> Int] /\ \A i \in 1..0 : f[i] = g[i]
        BY <2>1
    <2>3. PICK n \in Nat : n = 0 /\ n + 1 = 1
        OBVIOUS
    <2>4. SumFunction(g) \in Int /\ SumFunction(f) = SumFunction(g) + f[1]
        <3>1. /\ f \in [1..(n + 1) -> Int] /\ g \in [1..n -> Int]
              /\ \A i \in 1..n : f[i] = g[i]
            BY <1>1, <2>2, <2>3
        <3>2. SumFunction(g) \in Int /\ SumFunction(f) = SumFunction(g) + f[n + 1]
            BY <3>1, SumOneMore
        <3> QED BY <2>3, <3>2
    <2>5. SumFunction(g) = 0
        <3>1. PICK D : D = 1..0
            OBVIOUS
        <3>2. IsFiniteSet(D)
            BY <3>1, FS_Interval
        <3>3. g \in [D -> Int] /\ \A i \in D : g[i] = 0
            BY <2>2, <3>1
        <3> QED BY <3>2, <3>3, SumZero
    <2>6. f[1] \in Int
        BY <1>1
    <2> QED BY <2>4, <2>5, <2>6
<1>2. ASSUME NEW f, f \in [1..2 -> Int] PROVE SumFunction(f) = f[1] + f[2]
    <2>1. PICK g : g = [i \in 1..1 |-> f[i]]
        OBVIOUS
    <2>2. g \in [1..1 -> Int] /\ g[1] = f[1] /\ \A i \in 1..1 : f[i] = g[i]
        BY <1>2, <2>1
    <2>3. PICK n \in Nat : n = 1 /\ n + 1 = 2
        OBVIOUS
    <2>4. g \in [1..n -> Int] /\ f \in [1..(n + 1) -> Int] /\ \A i \in 1..n : f[i] = g[i]
        BY <1>2, <2>2, <2>3
    <2>5. SumFunction(f) = SumFunction(g) + f[n + 1]
        BY <2>4, SumOneMore
    <2> QED BY <1>1, <2>2, <2>3, <2>5
<1>3. ASSUME NEW f, f \in [1..3 -> Int] PROVE SumFunction(f) = f[1] + f[2] + f[3]
    <2>1. PICK g : g = [i \in 1..2 |-> f[i]]
        OBVIOUS
    <2>2. g \in [1..2 -> Int] /\ g[1] = f[1] /\ g[2] = f[2] /\ \A i \in 1..2 : f[i] = g[i]
        BY <1>3, <2>1
    <2>3. PICK n \in Nat : n = 2 /\ n + 1 = 3
        OBVIOUS
    <2>4. g \in [1..n -> Int] /\ f \in [1..(n + 1) -> Int] /\ \A i \in 1..n : f[i] = g[i]
        BY <1>3, <2>2, <2>3
    <2>5. SumFunction(f) = SumFunction(g) + f[n + 1]
        BY <2>4, SumOneMore
    <2> QED BY <1>2, <2>2, <2>3, <2>5
<1>4. ASSUME NEW f, f \in [1..4 -> Int] PROVE SumFunction(f) = f[1] + f[2] + f[3] + f[4]
    <2>1. PICK g : g = [i \in 1..3 |-> f[i]]
        OBVIOUS
    <2>2. /\ g \in [1..3 -> Int] /\ g[1] = f[1] /\ g[2] = f[2] /\ g[3] = f[3]
          /\ \A i \in 1..3 : f[i] = g[i]
        BY <1>4, <2>1
    <2>3. PICK n \in Nat : n = 3 /\ n + 1 = 4
        OBVIOUS
    <2>4. g \in [1..n -> Int] /\ f \in [1..(n + 1) -> Int] /\ \A i \in 1..n : f[i] = g[i]
        BY <1>4, <2>2, <2>3
    <2>5. SumFunction(f) = SumFunction(g) + f[n + 1]
        BY <2>4, SumOneMore
    <2> QED BY <1>3, <2>2, <2>3, <2>5
<1> QED BY <1>1, <1>2, <1>3, <1>4

\* A sum of naturals is natural, and no summand exceeds it.
LEMMA SumBounds ==
    ASSUME NEW D, IsFiniteSet(D), NEW f \in [D -> Nat]
    PROVE  /\ SumFunction(f) \in Nat
           /\ \A x \in D : f[x] <= SumFunction(f)
<1>1. f \in [D -> Int]
    OBVIOUS
<1>2. PICK g \in [SUBSET D -> Int] : PartialSums(f, D, g) /\ SumFunction(f) = g[D]
    BY <1>1, SumIsFold
<1>3. /\ g[{}] = 0
      /\ \A s \in SUBSET D : \A x \in s : g[s] = f[x] + g[s \ {x}]
    <2>1. PartialSums(f, D, g)
        BY <1>2
    <2> QED BY <2>1, FoldAny
<1> DEFINE T == {n \in Nat : \A s \in UpTo(D, n) : g[s] \in Nat}
<1>4. 0 \in T
    <2> SUFFICES ASSUME NEW s \in UpTo(D, 0) PROVE g[s] \in Nat
        OBVIOUS
    <2>1. s \in SUBSET D /\ Cardinality(s) <= 0
        BY DEF UpTo
    <2>2. IsFiniteSet(s) /\ Cardinality(s) \in Nat
        BY <2>1, FS_Subset, FS_CardinalityType
    <2>3. s = {}
        BY <2>1, <2>2, FS_EmptySet
    <2> QED BY <1>3, <2>3
<1>5. ASSUME NEW n \in Nat, n \in T PROVE n + 1 \in T
    <2> SUFFICES ASSUME NEW s \in UpTo(D, n + 1) PROVE g[s] \in Nat
        OBVIOUS
    <2>1. s \in SUBSET D
        BY DEF UpTo
    <2>2. CASE s = {}
        BY <1>3, <2>2
    <2>3. CASE s # {}
        <3>1. PICK x \in s : TRUE
            BY <2>3
        <3>2. g[s] = f[x] + g[s \ {x}] /\ f[x] \in Nat
            BY <1>3, <2>1
        <3>3. g[s \ {x}] \in Nat
            BY <1>5, <3>1, Smaller
        <3> QED BY <3>2, <3>3
    <2> QED BY <2>2, <2>3
<1> HIDE DEF T
<1>6. \A n \in Nat : n \in T
    BY <1>4, <1>5, Induct
<1>7. Cardinality(D) \in Nat /\ UpTo(D, Cardinality(D)) = SUBSET D
    BY FS_CardinalityType, FS_Subset DEF UpTo
<1>8. \A s \in SUBSET D : g[s] \in Nat
    BY <1>6, <1>7 DEF T
<1>9. ASSUME NEW x \in D PROVE f[x] <= g[D]
    <2>1. g[D] = f[x] + g[D \ {x}] /\ f[x] \in Nat
        BY <1>3
    <2>2. g[D \ {x}] \in Nat
        BY <1>8
    <2> QED BY <2>1, <2>2
<1> QED BY <1>2, <1>8, <1>9

\* A quotient of at most m.
LEMMA DivBound ==
    ASSUME NEW x \in Nat, NEW p \in Nat \ {0}, NEW m \in Nat, x \div p <= m
    PROVE  x < (m + 1) * p
OBVIOUS

\* Dividing by the same number keeps the order.
LEMMA DivGrows == ASSUME NEW x \in Nat, NEW y \in Nat, NEW d \in Nat \ {0}, x <= y
    PROVE x \div d <= y \div d
<1>1. PICK a \in Nat, b \in Nat : a = x \div d /\ b = y \div d
    OBVIOUS
<1>2. d * a <= x /\ y < d * b + d
    BY <1>1
<1>3. d * a < d * (b + 1)
    BY <1>2
<1>4. a < b + 1
    BY <1>3
<1> QED BY <1>1, <1>4

\* The greater of a number and zero.
LEMMA MaxZero == ASSUME NEW v \in Int PROVE Max({0, v}) = IF v > 0 THEN v ELSE 0
<1> DEFINE m == IF v > 0 THEN v ELSE 0
<1>1. m \in {0, v} /\ \A y \in {0, v} : m >= y
    OBVIOUS
<1>2. \A x \in {0, v} : (\A y \in {0, v} : x >= y) => x = m
    OBVIOUS
<1> QED BY <1>1, <1>2 DEF Max

\* Where nothing is negative, rounding towards zero is rounding down.
LEMMA QuotientIsDiv == \A a \in Nat, b \in Nat \ {0} : Quotient(a, b) = a \div b /\ a \div b \in Nat
BY DEF Quotient

\* A quotient of integers is one.
LEMMA QuotientInt ==
    ASSUME NEW a \in Int, NEW b \in Int, b # 0 PROVE Quotient(a, b) \in Int
<1> DEFINE m == IF a < 0 THEN -a ELSE a
           d == IF b < 0 THEN -b ELSE b
           q == m \div d
<1>1. m \in Int /\ d \in Int /\ d > 0
    OBVIOUS
<1>2. q \in Int
    <2> HIDE DEF m, d
    <2> QED BY <1>1
<1>3. Quotient(a, b) = IF (a < 0) = (b < 0) THEN q ELSE -q
    BY DEF Quotient
<1> HIDE DEF q
<1> QED BY <1>2, <1>3

\* What an account's entry of a book becomes when n is added to it or taken
\* from it.
Added(f, u, n) == [f EXCEPT ![u] = @ + n]

Taken(f, u, n) == [f EXCEPT ![u] = @ - n]

\* The sum of a book moves with its entries.
LEMMA AddedTo ==
    ASSUME NEW f \in [Address -> Int], NEW u \in Address, NEW n \in Int
    PROVE  /\ Added(f, u, n) \in [Address -> Int] /\ SumFunction(f) \in Int
           /\ SumFunction(Added(f, u, n)) = SumFunction(f) + n
           /\ \A v \in Address : Added(f, u, n)[v] = f[v] + (IF v = u THEN n ELSE 0)
<1>1. PICK e : e = Added(f, u, n)
    OBVIOUS
<1>2. e \in [Address -> Int] /\ e[u] = f[u] + n /\ \A v \in Address \ {u} : e[v] = f[v]
    BY <1>1 DEF Added
<1>3. SumFunction(e) = SumFunction(f) - f[u] + e[u]
    BY <1>2, SumUpdate, AccountsAssumption
<1>4. SumFunction(f) \in Int /\ f[u] \in Int
    BY SumInt, AccountsAssumption
<1> QED BY <1>1, <1>2, <1>3, <1>4

\* The same for what is taken.
LEMMA TakenFrom ==
    ASSUME NEW f \in [Address -> Int], NEW u \in Address, NEW n \in Int
    PROVE  /\ Taken(f, u, n) \in [Address -> Int] /\ SumFunction(f) \in Int
           /\ SumFunction(Taken(f, u, n)) = SumFunction(f) - n
           /\ \A v \in Address : Taken(f, u, n)[v] = f[v] - (IF v = u THEN n ELSE 0)
<1>1. PICK e : e = Taken(f, u, n)
    OBVIOUS
<1>2. e \in [Address -> Int] /\ e[u] = f[u] - n /\ \A v \in Address \ {u} : e[v] = f[v]
    BY <1>1 DEF Taken
<1>3. SumFunction(e) = SumFunction(f) - f[u] + e[u]
    BY <1>2, SumUpdate, AccountsAssumption
<1>4. SumFunction(f) \in Int /\ f[u] \in Int
    BY SumInt, AccountsAssumption
<1> QED BY <1>1, <1>2, <1>3, <1>4

\* The empty book.
LEMMA ZeroSum == Zero \in [Address -> Int] /\ SumFunction(Zero) = 0
<1>1. Zero \in [Address -> Int] /\ \A u \in Address : Zero[u] = 0
    BY DEF Zero
<1> QED BY <1>1, SumZero, AccountsAssumption

\* The account that stands for all is an account.
LEMMA SoloAccount == \A u \in Solo : u \in Address
BY AccountsAssumption DEF Solo

\* A book of zeros sums to zero, whoever wrote it.
LEMMA SumOfZeros ==
    ASSUME NEW b \in [Address -> Int], \A a \in Address : b[a] = 0
    PROVE  SumFunction(b) = 0
BY SumZero, AccountsAssumption

\* The sum depends on the summands only.
LEMMA SameSum ==
    ASSUME NEW b \in [Address -> Int], NEW c \in [Address -> Int], \A a \in Address : c[a] = b[a]
    PROVE  SumFunction(c) = SumFunction(b)
<1>1. c = b
    OBVIOUS
<1> QED BY <1>1

\* Changing one summand by d changes the sum by d.
LEMMA SumShifts ==
    ASSUME NEW b \in [Address -> Int], NEW c \in [Address -> Int], NEW a \in Address,
           NEW d \in Int, c[a] = b[a] + d, \A x \in Address : x # a => c[x] = b[x]
    PROVE  SumFunction(b) \in Int /\ SumFunction(c) = SumFunction(b) + d
<1>1. SumFunction(b) \in Int /\ b[a] \in Int /\ c[a] \in Int
    BY SumInt, AccountsAssumption
<1>2. \A x \in Address \ {a} : c[x] = b[x]
    OBVIOUS
<1>3. SumFunction(c) = SumFunction(b) - b[a] + c[a]
    BY <1>2, SumUpdate, AccountsAssumption
<1> QED BY <1>1, <1>3

\* No account holds more than all of them do.
LEMMA SummandWithinSum ==
    ASSUME NEW b \in [Address -> Nat]
    PROVE  SumFunction(b) \in Nat /\ \A a \in Address : b[a] <= SumFunction(b)
BY SumBounds, AccountsAssumption
=============================================================================
