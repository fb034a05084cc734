--------------------------- MODULE RecursionFacts ---------------------------
(****************************************************************************)
(* Induction, and what it says of the folds and recursive functions of the  *)
(* models.  The induction theorems of the library take the formula to be    *)
(* proved as an operator; these take the set of the elements it holds of,   *)
(* and an operation that is folded as a function.  Before them, what        *)
(* erasing from a sequence does, which two components need.                 *)
(****************************************************************************)
EXTENDS Integers, FiniteSets, FiniteSetsExt, FiniteSetTheorems, SequencesExt,
        SequenceTheorems, WellFoundedInduction, TLAPS

(* Erasing from a vector moves the later entries one place down.            *)
LEMMA RemoveAtFacts ==
  ASSUME NEW T, NEW v \in Seq(T), NEW k \in 1 .. Len(v)
  PROVE  /\ RemoveAt(v, k) \in Seq(T)
         /\ Len(RemoveAt(v, k)) = Len(v) - 1
         /\ \A j \in 1 .. Len(v) - 1 : RemoveAt(v, k)[j] = IF j < k THEN v[j] ELSE v[j + 1]
<1> DEFINE p == SubSeq(v, 1, k - 1)
           q == SubSeq(v, k + 1, Len(v))
<1>1. /\ p \in Seq(T) /\ Len(p) = k - 1
      /\ \A j \in 1 .. k - 1 : p[j] = v[j]
  OBVIOUS
<1>2. /\ q \in Seq(T) /\ Len(q) = Len(v) - k
      /\ \A j \in 1 .. Len(v) - k : q[j] = v[k + j]
  OBVIOUS
<1>3. RemoveAt(v, k) = p \o q
  BY DEF RemoveAt
<1> HIDE DEF p, q
<1>4. /\ p \o q \in Seq(T) /\ Len(p \o q) = Len(v) - 1
      /\ \A j \in 1 .. Len(v) - 1 : (p \o q)[j] = IF j < k THEN p[j] ELSE q[j - (k - 1)]
  <2>1. p \o q \in Seq(T) /\ Len(p \o q) = Len(p) + Len(q)
    BY <1>1, <1>2, ConcatProperties
  <2>2. \A j \in 1 .. Len(p) + Len(q) :
           (p \o q)[j] = IF j <= Len(p) THEN p[j] ELSE q[j - Len(p)]
    BY <1>1, <1>2, ConcatProperties
  <2>3. Len(v) \in Nat /\ Len(p) + Len(q) = Len(v) - 1
    BY <1>1, <1>2
  <2> QED
    BY <1>1, <2>1, <2>2, <2>3
<1>5. ASSUME NEW j \in 1 .. Len(v) - 1 PROVE (p \o q)[j] = IF j < k THEN v[j] ELSE v[j + 1]
  <2>1. CASE j < k
    BY <1>1, <1>4, <2>1
  <2>2. CASE ~(j < k)
    <3>1. j - (k - 1) \in 1 .. Len(v) - k /\ k + (j - (k - 1)) = j + 1
      BY <2>2
    <3> QED
      BY <1>2, <1>4, <2>2, <3>1
  <2> QED
    BY <2>1, <2>2
<1> QED
  BY <1>3, <1>4, <1>5
-----------------------------------------------------------------------------
(* Induction over the subsets of a finite set.                              *)
LEMMA SetInduction ==
  ASSUME NEW S, IsFiniteSet(S), NEW Good,
         \A T \in SUBSET S : (\A x \in T : T \ {x} \in Good) => T \in Good
  PROVE  \A T \in SUBSET S : T \in Good
<1> DEFINE Bad == {T \in SUBSET S : T \notin Good}
           R == StrictSubsetOrdering(S)
<1>1. SUFFICES ASSUME Bad # {} PROVE FALSE
  OBVIOUS
<1>2. IsWellFoundedOn(R, SUBSET S)
  BY FS_StrictSubsetOrderingWellFounded, FS_FiniteSubsetsOfFinite
<1>3. \E T \in Bad : \A U \in Bad : ~ (<<U, T>> \in R)
  <2>1. Bad \subseteq SUBSET S
    OBVIOUS
  <2> HIDE DEF Bad, R
  <2> QED
    BY <1>1, <1>2, <2>1, WFMin
<1>4. PICK T \in Bad : \A U \in Bad : ~ (<<U, T>> \in R)
  BY <1>3
<1>5. ASSUME NEW x \in T PROVE T \ {x} \in Good
  <2>1. T \in SUBSET S /\ T \ {x} \in SUBSET S /\ T \ {x} # T
    OBVIOUS
  <2>2. <<T \ {x}, T>> \in R
    BY <2>1 DEF StrictSubsetOrdering
  <2> QED
    BY <1>4, <2>1, <2>2
<1> QED
  BY <1>4, <1>5

(* Induction over the natural numbers, by way of the sets 1 .. n.           *)
LEMMA CountingInduction ==
  ASSUME NEW Good, 0 \in Good, \A n \in Nat : n \in Good => n + 1 \in Good
  PROVE  \A n \in Nat : n \in Good
<1> SUFFICES ASSUME NEW n \in Nat PROVE n \in Good
  OBVIOUS
<1> DEFINE S == 1 .. n
           Card == {T \in SUBSET S : Cardinality(T) \in Good}
<1>1. IsFiniteSet(S) /\ Cardinality(S) = n
  BY FS_Interval
<1>2. ASSUME NEW T \in SUBSET S, \A x \in T : T \ {x} \in Card
      PROVE  T \in Card
  <2>1. IsFiniteSet(T)
    BY <1>1, FS_Subset
  <2>2. CASE T = {}
    BY <2>2, FS_EmptySet
  <2>3. CASE T # {}
    <3>1. PICK x \in T : TRUE
      BY <2>3
    <3>2. IsFiniteSet(T \ {x}) /\ Cardinality(T \ {x}) = Cardinality(T) - 1
      BY <2>1, FS_RemoveElement
    <3>3. Cardinality(T) \in Nat /\ Cardinality(T \ {x}) \in Nat
      BY <2>1, <3>2, FS_CardinalityType
    <3>4. Cardinality(T) = Cardinality(T \ {x}) + 1
      BY <3>2, <3>3
    <3>5. T \ {x} \in Card
      BY <1>2
    <3> QED
      BY <3>3, <3>4, <3>5
  <2> QED
    BY <2>2, <2>3
<1>3. \A T \in SUBSET S : T \in Card
  <2> HIDE DEF Card, S
  <2> QED
    BY <1>1, <1>2, SetInduction
<1> QED
  BY <1>1, <1>3
-----------------------------------------------------------------------------
(* ch picks an element of every nonempty subset of D, and `it' folds F from *)
(* b over each of them, the element picked last.                            *)
Chooses(D, ch) == \A T \in (SUBSET D) \ {{}} : ch[T] \in T

FoldsOver(D, it, b, F, ch) ==
    /\ it[{}] = b
    /\ \A T \in (SUBSET D) \ {{}} : it[T] = F[<<it[T \ {ch[T]}], ch[T]>>]

(* There is one such fold at most ...                                       *)
LEMMA FoldsAgree ==
  ASSUME NEW D, IsFiniteSet(D), NEW b, NEW F, NEW ch, Chooses(D, ch),
         NEW A \in SUBSET D, NEW B \in SUBSET A, NEW i, NEW j,
         FoldsOver(A, i, b, F, ch), FoldsOver(B, j, b, F, ch)
  PROVE  i[B] = j[B]
<1> DEFINE Good == {T \in SUBSET B : i[T] = j[T]}
<1>1. IsFiniteSet(B)
  BY FS_Subset
<1>2. ASSUME NEW T \in SUBSET B, \A x \in T : T \ {x} \in Good
      PROVE  T \in Good
  <2>1. CASE T = {}
    BY <2>1 DEF FoldsOver
  <2>2. CASE T # {}
    <3>1. ch[T] \in T /\ T \in (SUBSET A) \ {{}} /\ T \in (SUBSET B) \ {{}}
      BY <2>2 DEF Chooses
    <3>2. i[T \ {ch[T]}] = j[T \ {ch[T]}]
      BY <1>2, <3>1
    <3> QED
      BY <3>1, <3>2 DEF FoldsOver
  <2> QED
    BY <2>1, <2>2
<1>3. \A T \in SUBSET B : T \in Good
  <2> HIDE DEF Good
  <2> QED
    BY <1>1, <1>2, SetInduction
<1> QED
  BY <1>3

(* ... and there is one.                                                    *)
LEMMA FoldTable ==
  ASSUME NEW D, IsFiniteSet(D), NEW R, NEW b \in R, NEW F \in [R \X D -> R],
         NEW ch, Chooses(D, ch)
  PROVE  \E it \in [SUBSET D -> R] : FoldsOver(D, it, b, F, ch)
<1> DEFINE Table(T, it) == it \in [SUBSET T -> R] /\ FoldsOver(T, it, b, F, ch)
           Good == {T \in SUBSET D : \E it : Table(T, it)}
           of(T) == CHOOSE it : Table(T, it)
<1>1. ASSUME NEW T \in SUBSET D, \A x \in T : T \ {x} \in Good
      PROVE  T \in Good
  <2> DEFINE val(U) == of(U)[U]
             it == [U \in SUBSET T |-> IF U = {} THEN b
                                       ELSE F[<<val(U \ {ch[U]}), ch[U]>>]]
  <2>1. ASSUME NEW U \in SUBSET T, U # T
        PROVE  Table(U, of(U))
    <3>0. PICK x \in T : x \notin U
      BY <2>1
    <3>1. U \subseteq T \ {x}
      BY <3>0
    <3>2. PICK i : Table(T \ {x}, i)
      BY <1>1
    <3>3. Table(U, [V \in SUBSET U |-> i[V]])
      <4> DEFINE k == [V \in SUBSET U |-> i[V]]
      <4>1. \A V \in SUBSET U : V \in SUBSET (T \ {x}) /\ k[V] = i[V] /\ i[V] \in R
        BY <3>1, <3>2
      <4>2. k \in [SUBSET U -> R]
        BY <4>1
      <4>3. k[{}] = b
        BY <3>2, <4>1 DEF FoldsOver
      <4>4. ASSUME NEW V \in (SUBSET U) \ {{}}
            PROVE  k[V] = F[<<k[V \ {ch[V]}], ch[V]>>]
        <5>1. V \in (SUBSET (T \ {x})) \ {{}} /\ V \ {ch[V]} \in SUBSET U
          BY <4>1 DEF Chooses
        <5>2. i[V] = F[<<i[V \ {ch[V]}], ch[V]>>]
          BY <3>2, <5>1 DEF FoldsOver
        <5> QED
          BY <4>1, <5>1, <5>2
      <4> QED
        BY <4>2, <4>3, <4>4 DEF FoldsOver
    <3> HIDE DEF Table
    <3> QED
      BY <3>3
  <2>2. ASSUME NEW U \in (SUBSET T) \ {{}}
        PROVE  /\ ch[U] \in U /\ ch[U] \in D
               /\ U \ {ch[U]} \in SUBSET T /\ U \ {ch[U]} # T
               /\ val(U \ {ch[U]}) \in R
    <3>1. ch[U] \in U /\ U \ {ch[U]} \in SUBSET T /\ U \ {ch[U]} # T
      BY DEF Chooses
    <3>2. Table(U \ {ch[U]}, of(U \ {ch[U]}))
      BY <2>1, <3>1
    <3> QED
      BY <3>1, <3>2
  <2>3. it \in [SUBSET T -> R]
    BY <2>2
  <2>4. ASSUME NEW U \in (SUBSET T) \ {{}}, U # T
        PROVE  it[U] = val(U)
    <3>1. Table(U, of(U)) /\ Table(U \ {ch[U]}, of(U \ {ch[U]}))
      BY <2>1, <2>2, <2>4
    <3>2. of(U)[U] = F[<<of(U)[U \ {ch[U]}], ch[U]>>]
      BY <3>1 DEF FoldsOver
    <3>3. of(U)[U \ {ch[U]}] = of(U \ {ch[U]})[U \ {ch[U]}]
      <4> DEFINE B == U \ {ch[U]}
                 i == of(U)
                 j == of(B)
      <4>1. U \in SUBSET D /\ B \in SUBSET U
        OBVIOUS
      <4>2. FoldsOver(U, i, b, F, ch) /\ FoldsOver(B, j, b, F, ch)
        BY <3>1
      <4> HIDE DEF B, i, j, of, Table
      <4>3. i[B] = j[B]
        BY <4>1, <4>2, FoldsAgree
      <4> QED
        BY <4>3 DEF B, i, j
    <3> QED
      BY <3>2, <3>3
  <2>5. ASSUME T # {} PROVE it[{}] = val({})
    <3>1. Table({}, of({}))
      BY <2>1, <2>5
    <3> QED
      BY <3>1 DEF FoldsOver
  <2>6. FoldsOver(T, it, b, F, ch)
    <3>1. it[{}] = b
      OBVIOUS
    <3>2. ASSUME NEW U \in (SUBSET T) \ {{}}
          PROVE  it[U] = F[<<it[U \ {ch[U]}], ch[U]>>]
      <4>1. it[U \ {ch[U]}] = val(U \ {ch[U]})
        <5>1. CASE U \ {ch[U]} = {}
          <6>1. T # {}
            BY <3>2
          <6>2. it[{}] = val({})
            BY <2>5, <6>1
          <6> HIDE DEF it, val
          <6> QED
            BY <5>1, <6>2
        <5>2. CASE U \ {ch[U]} # {}
          <6>1. U \ {ch[U]} \in (SUBSET T) \ {{}} /\ U \ {ch[U]} # T
            BY <2>2, <5>2
          <6> HIDE DEF it, val
          <6> QED
            BY <2>4, <6>1
        <5> QED
          BY <5>1, <5>2
      <4> QED
        BY <4>1
    <3> QED
      BY <3>1, <3>2 DEF FoldsOver
  <2>7. Table(T, it)
    BY <2>3, <2>6
  <2> HIDE DEF Table
  <2> QED
    BY <2>7
<1>2. \A T \in SUBSET D : T \in Good
  <2> HIDE DEF Good
  <2> QED
    BY <1>1, SetInduction
<1> QED
  BY <1>2


(* What holds of b for the empty set and is kept by taking in one element   *)
(* more holds of the fold over D.  `it' need not be known to take its       *)
(* values in R.                                                             *)
Folds(D, R, it, b, F, ch) ==
    /\ it[{}] = b
    /\ \A T \in (SUBSET D) \ {{}} :
          it[T \ {ch[T]}] \in R => it[T] = F[<<it[T \ {ch[T]}], ch[T]>>]

Keeps(D, R, F, P) ==
    \A T \in SUBSET D : \A x \in T, v \in R :
        <<T \ {x}, v>> \in P => <<T, F[<<v, x>>]>> \in P

(* Induction along a fold: what the empty set has, with the base as result, and every
   element added keeps, the whole set has. *)
LEMMA FoldInduction ==
  ASSUME NEW D, IsFiniteSet(D), NEW R, NEW it, NEW b, NEW F,
         NEW ch, Chooses(D, ch), Folds(D, R, it, b, F, ch),
         NEW P \in SUBSET ((SUBSET D) \X R), <<{}, b>> \in P, Keeps(D, R, F, P)
  PROVE  <<D, it[D]>> \in P
<1> DEFINE Good == {T \in SUBSET D : <<T, it[T]>> \in P}
<1>1. ASSUME NEW T \in SUBSET D, \A x \in T : T \ {x} \in Good
      PROVE  T \in Good
  <2>1. CASE T = {}
    BY <2>1 DEF Folds
  <2>2. CASE T # {}
    <3>1. PICK x : x = ch[T]
      OBVIOUS
    <3>2. x \in T /\ T \in (SUBSET D) \ {{}}
      BY <2>2, <3>1 DEF Chooses
    <3>3. <<T \ {x}, it[T \ {x}]>> \in P
      BY <1>1, <3>2
    <3>4. it[T \ {x}] \in R
      BY <3>3
    <3>5. it[T] = F[<<it[T \ {x}], x>>]
      BY <3>1, <3>2, <3>4 DEF Folds
    <3> QED
      BY <3>2, <3>3, <3>4, <3>5 DEF Keeps
  <2> QED
    BY <2>1, <2>2
<1>2. \A T \in SUBSET D : T \in Good
  <2> HIDE DEF Good
  <2> QED
    BY <1>1, SetInduction
<1> QED
  BY <1>2
-----------------------------------------------------------------------------

(* A finite set of integers that is not empty has a greatest element, and Max chooses it. *)
LEMMA MaxOfFinite ==
  ASSUME NEW S, IsFiniteSet(S), S \subseteq Int, NEW T \in (SUBSET S) \ {{}}
  PROVE  Max(T) \in T /\ \A y \in T : Max(T) >= y
<1> DEFINE Greatest(x, U) == x \in U /\ \A y \in U : x >= y
           Good == {U \in SUBSET S : U # {} => \E x \in U : Greatest(x, U)}
<1>1. ASSUME NEW U \in SUBSET S, \A x \in U : U \ {x} \in Good
      PROVE  U \in Good
  <2>1. ASSUME NEW z \in U PROVE \E x \in U : Greatest(x, U)
    <3>1. CASE U \ {z} = {}
      BY <3>1
    <3>2. CASE U \ {z} # {}
      <4>1. PICK x \in U \ {z} : Greatest(x, U \ {z})
        BY <1>1, <3>2
      <4>2. x \in Int /\ z \in Int /\ U \subseteq Int
        OBVIOUS
      <4>3. CASE x >= z
        BY <4>1, <4>2, <4>3
      <4>4. CASE z >= x
        BY <4>1, <4>2, <4>4
      <4> QED
        BY <4>2, <4>3, <4>4
    <3> QED
      BY <3>1, <3>2
  <2> QED
    BY <2>1
<1>2. \A U \in SUBSET S : U \in Good
  <2> HIDE DEF Good
  <2> QED
    BY <1>1, SetInduction
<1> QED
  BY <1>2 DEF Max

(* A finite set of integers that is not empty has a least element, and Min chooses it. *)
LEMMA MinOfFinite ==
  ASSUME NEW S, IsFiniteSet(S), S \subseteq Int, S # {}
  PROVE  Min(S) \in S /\ \A y \in S : Min(S) <= y
<1> DEFINE f == [x \in S |-> -x]
           N == {f[x] : x \in S}
<1>1. N \subseteq Int /\ N # {}
  <2>1. PICK x \in S : TRUE
    OBVIOUS
  <2>2. \A y \in S : -y \in Int /\ f[y] = -y
    OBVIOUS
  <2> QED
    BY <2>1, <2>2
<1>2. IsFiniteSet(N)
  <2>1. f \in Surjection(S, N)
    BY DEF Surjection
  <2> HIDE DEF f, N
  <2> QED
    BY <2>1, FS_Surjection
<1>3. N \in (SUBSET N) \ {{}}
  BY <1>1
<1>4. Max(N) \in N /\ \A y \in N : Max(N) >= y
  <2> HIDE DEF N
  <2> QED
    BY <1>1, <1>2, <1>3, MaxOfFinite
<1>5. PICK x \in S : Max(N) = -x
  BY <1>4
<1>6. \A y \in S : x <= y
  <2> SUFFICES ASSUME NEW y \in S PROVE x <= y
    OBVIOUS
  <2>1. -y \in N /\ -x >= -y /\ x \in Int /\ y \in Int
    BY <1>4, <1>5
  <2> QED
    BY <2>1
<1> QED
  BY <1>6 DEF Min

(* Sequences are folded from left to right: the last index is the maximum.  *)
LEMMA MaxIsGreatest ==
  ASSUME NEW n \in Nat, NEW T \in (SUBSET (1 .. n)) \ {{}}
  PROVE  Max(T) \in T /\ \A y \in T : Max(T) >= y
<1>1. IsFiniteSet(1 .. n) /\ 1 .. n \subseteq Int
  BY FS_Interval
<1> QED
  BY <1>1, MaxOfFinite

(* Max of the first k numbers is k. *)
LEMMA MaxOfPrefix ==
  ASSUME NEW k \in Nat \ {0}
  PROVE  Max(1 .. k) = k /\ (1 .. k) \ {k} = 1 .. k - 1
<1>1. k \in 1 .. k /\ \A y \in 1 .. k : k >= y
  OBVIOUS
<1>2. Max(1 .. k) \in 1 .. k /\ Max(1 .. k) >= k
  BY <1>1, MaxIsGreatest
<1> QED
  BY <1>2

(* What FoldLeft makes of the subsets of the indices of s, and the values   *)
(* it passes through.                                                       *)
Tabulates(it, R, n, s, b, F) ==
    /\ it[{}] = b
    /\ \A U \in (SUBSET (1 .. n)) \ {{}} :
          it[U \ {Max(U)}] \in R => it[U] = F[<<it[U \ {Max(U)}], s[Max(U)]>>]

Accumulates(x, n, s, b, F, r) ==
    x[0] = b /\ x[n] = r /\ \A k \in 1 .. n : x[k] = F[<<x[k - 1], s[k]>>]

(* The partial results of a fold over a sequence make a table. *)
LEMMA FoldLeftTable ==
  ASSUME NEW R, NEW T, NEW n \in Nat, NEW s \in [1 .. n -> T], NEW b \in R,
         NEW F \in [R \X T -> R]
  PROVE  \E it \in [SUBSET (1 .. n) -> R] : Tabulates(it, R, n, s, b, F)
<1> DEFINE D == 1 .. n
           ch == [U \in (SUBSET D) \ {{}} |-> Max(U)]
           G == [p \in R \X D |-> F[<<p[1], s[p[2]]>>]]
<1>1. IsFiniteSet(D)
  BY FS_Interval
<1>2. \A U \in (SUBSET D) \ {{}} : ch[U] \in U /\ ch[U] \in D
  BY MaxIsGreatest
<1>3. Chooses(D, ch)
  BY <1>2 DEF Chooses
<1>4. G \in [R \X D -> R]
  OBVIOUS
<1>5. \E it \in [SUBSET D -> R] : FoldsOver(D, it, b, G, ch)
  <2> HIDE DEF D, ch, G
  <2> QED
    BY <1>1, <1>3, <1>4, FoldTable
<1>6. PICK it \in [SUBSET D -> R] : FoldsOver(D, it, b, G, ch)
  BY <1>5
<1>7. it[{}] = b
  BY <1>6 DEF FoldsOver
<1>8. ASSUME NEW U \in (SUBSET D) \ {{}}
      PROVE  it[U] = F[<<it[U \ {Max(U)}], s[Max(U)]>>]
  <2>1. it[U] = G[<<it[U \ {ch[U]}], ch[U]>>]
    BY <1>6 DEF FoldsOver
  <2>2. ch[U] = Max(U) /\ Max(U) \in D /\ it[U \ {Max(U)}] \in R
    BY <1>2
  <2> QED
    BY <2>1, <2>2
<1> QED
  BY <1>7, <1>8 DEF Tabulates

(* Such a table holds the values the fold passes through, one per prefix.   *)
LEMMA FoldLeftPath ==
  ASSUME NEW R, NEW T, NEW n \in Nat, NEW s \in [1 .. n -> T], NEW b \in R,
         NEW F \in [R \X T -> R], NEW it, Tabulates(it, R, n, s, b, F)
  PROVE  \E x \in [0 .. n -> R] : Accumulates(x, n, s, b, F, it[1 .. n])
<1> DEFINE x == [k \in 0 .. n |-> it[1 .. k]]
           Good == {k \in Nat : k <= n => it[1 .. k] \in R}
<1>1. 0 \in Good
  <2>1. 1 .. 0 = {}
    OBVIOUS
  <2> QED
    BY <2>1 DEF Tabulates
<1>2. ASSUME NEW k \in 1 .. n, it[1 .. k - 1] \in R
      PROVE  /\ it[1 .. k] = F[<<it[1 .. k - 1], s[k]>>]
             /\ it[1 .. k] \in R
  <2>1. 1 .. k \in (SUBSET (1 .. n)) \ {{}}
    <3>1. k \in 1 .. k /\ \A j \in 1 .. k : j \in 1 .. n
      OBVIOUS
    <3> QED
      BY <3>1
  <2>2. Max(1 .. k) = k /\ (1 .. k) \ {k} = 1 .. k - 1
    BY MaxOfPrefix
  <2> QED
    BY <1>2, <2>1, <2>2 DEF Tabulates
<1>3. ASSUME NEW k \in Nat, k \in Good PROVE k + 1 \in Good
  <2>1. CASE k + 1 <= n
    <3>1. k + 1 \in 1 .. n /\ (k + 1) - 1 = k /\ it[1 .. k] \in R
      BY <1>3, <2>1
    <3>2. it[1 .. (k + 1) - 1] \in R
      BY <3>1
    <3>3. it[1 .. k + 1] \in R
      BY <1>2, <3>1, <3>2
    <3> QED
      BY <3>3
  <2>2. CASE ~(k + 1 <= n)
    BY <2>2
  <2> QED
    BY <2>1, <2>2
<1>4. \A k \in Nat : k \in Good
  <2> HIDE DEF Good
  <2> QED
    BY <1>1, <1>3, CountingInduction
<1>5. \A k \in 0 .. n : it[1 .. k] \in R
  BY <1>4
<1>6. x \in [0 .. n -> R]
  BY <1>5
<1>7. x[0] = b
  <2>1. 1 .. 0 = {}
    OBVIOUS
  <2> QED
    BY <2>1 DEF Tabulates
<1>8. ASSUME NEW k \in 1 .. n PROVE x[k] = F[<<x[k - 1], s[k]>>]
  <2>1. k - 1 \in 0 .. n /\ k \in 0 .. n
    OBVIOUS
  <2> QED
    BY <1>2, <1>5, <2>1
<1>9. x[n] = it[1 .. n]
  OBVIOUS
<1> HIDE DEF x
<1> QED
  BY <1>6, <1>7, <1>8, <1>9 DEF Accumulates
-----------------------------------------------------------------------------
(* Loops: from the state d the loop goes on from Next[d] unless it stops    *)
(* there with Out[d], and a measure falls with every pass.  Upto: f is what *)
(* the loop computes from the states of a measure below n.                  *)
Upto(D, M, n, f, Stop, Out, Next) ==
    \A d \in D : M[d] < n => f[d] = IF d \in Stop THEN Out[d] ELSE f[Next[d]]

Falls(D, M, Stop, Next) ==
    /\ M \in [D -> Nat]
    /\ \A d \in D \ Stop : Next[d] \in D /\ M[Next[d]] < M[d]

(* Two runs of one loop, cut at different lengths, agree wherever both have an answer. *)
LEMMA LoopsAgree ==
  ASSUME NEW D, NEW M, NEW Stop, NEW Out, NEW Next, Falls(D, M, Stop, Next),
         NEW n \in Nat, NEW m \in Nat, n <= m, NEW f, NEW h,
         Upto(D, M, n, f, Stop, Out, Next), Upto(D, M, m, h, Stop, Out, Next)
  PROVE  \A d \in D : M[d] < n => f[d] = h[d]
<1> DEFINE Good == {k \in Nat : \A d \in D : M[d] < n /\ M[d] <= k => f[d] = h[d]}
<1>1. ASSUME NEW d \in D, M[d] < n,
             d \notin Stop => f[Next[d]] = h[Next[d]]
      PROVE  f[d] = h[d]
  <2>1. M[d] \in Nat /\ M[d] < m
    BY <1>1 DEF Falls
  <2>2. /\ f[d] = IF d \in Stop THEN Out[d] ELSE f[Next[d]]
        /\ h[d] = IF d \in Stop THEN Out[d] ELSE h[Next[d]]
    BY <1>1, <2>1 DEF Upto
  <2> QED
    BY <1>1, <2>2
<1>2. 0 \in Good
  <2>1. ASSUME NEW d \in D, M[d] < n, M[d] <= 0 PROVE d \in Stop
    <3>1. M[d] \in Nat /\ (d \notin Stop => M[Next[d]] < M[d] /\ M[Next[d]] \in Nat)
      BY DEF Falls
    <3> QED
      BY <2>1, <3>1
  <2> QED
    BY <1>1, <2>1
<1>3. ASSUME NEW k \in Nat, k \in Good PROVE k + 1 \in Good
  <2>1. ASSUME NEW d \in D, M[d] < n, M[d] <= k + 1 PROVE f[d] = h[d]
    <3>1. ASSUME d \notin Stop PROVE f[Next[d]] = h[Next[d]]
      <4>1. Next[d] \in D /\ M[Next[d]] < M[d] /\ M[d] \in Nat /\ M[Next[d]] \in Nat
        BY <3>1 DEF Falls
      <4>2. M[Next[d]] < n /\ M[Next[d]] <= k
        BY <2>1, <4>1
      <4> QED
        BY <1>3, <4>1, <4>2
    <3> QED
      BY <1>1, <2>1, <3>1
  <2> QED
    BY <2>1
<1>4. \A k \in Nat : k \in Good
  <2> HIDE DEF Good
  <2> QED
    BY <1>2, <1>3, CountingInduction
<1> QED
  <2>1. ASSUME NEW d \in D, M[d] < n PROVE f[d] = h[d]
    <3>1. M[d] \in Nat /\ M[d] \in Good
      BY <1>4 DEF Falls
    <3> QED
      BY <2>1, <3>1
  <2> QED
    BY <2>1

(* A loop computes something from every state.                              *)
LEMMA LoopTable ==
  ASSUME NEW D, NEW M, NEW Stop, NEW Out, NEW Next, Falls(D, M, Stop, Next)
  PROVE  \E f : f = [d \in D |-> IF d \in Stop THEN Out[d] ELSE f[Next[d]]]
<1> DEFINE Table(n, f) == Upto(D, M, n, f, Stop, Out, Next)
           Good == {n \in Nat : \E f : Table(n, f)}
           of(n) == CHOOSE f : Table(n, f)
           f0 == [d \in D |-> of(M[d] + 1)[d]]
<1>1. 0 \in Good
  <2>1. \A d \in D : ~(M[d] < 0)
    BY DEF Falls
  <2>2. Table(0, f0)
    BY <2>1 DEF Upto
  <2> HIDE DEF Table, f0
  <2> QED
    BY <2>2
<1>2. ASSUME NEW n \in Nat, n \in Good PROVE n + 1 \in Good
  <2>1. PICK f : Table(n, f)
    BY <1>2
  <2> DEFINE h == [d \in D |-> IF d \in Stop THEN Out[d] ELSE f[Next[d]]]
  <2>2. ASSUME NEW d \in D, M[d] < n PROVE h[d] = f[d]
    BY <2>1, <2>2 DEF Upto
  <2>3. ASSUME NEW d \in D, M[d] < n + 1
        PROVE  h[d] = IF d \in Stop THEN Out[d] ELSE h[Next[d]]
    <3>1. ASSUME d \notin Stop PROVE h[Next[d]] = f[Next[d]]
      <4>1. Next[d] \in D /\ M[Next[d]] < M[d] /\ M[d] \in Nat /\ M[Next[d]] \in Nat
        BY <3>1 DEF Falls
      <4>2. M[Next[d]] < n
        BY <2>3, <4>1
      <4> HIDE DEF h
      <4> QED
        BY <2>2, <4>1, <4>2
    <3> QED
      BY <3>1
  <2>4. Table(n + 1, h)
    BY <2>3 DEF Upto
  <2> HIDE DEF Table, h
  <2> QED
    BY <2>4
<1>3. \A n \in Nat : Table(n, of(n))
  <2>1. \A n \in Nat : n \in Good
    <3> HIDE DEF Good
    <3> QED
      BY <1>1, <1>2, CountingInduction
  <2> HIDE DEF Table
  <2> QED
    BY <2>1
<1>4. ASSUME NEW d \in D
      PROVE  f0[d] = IF d \in Stop THEN Out[d] ELSE f0[Next[d]]
  <2>1. M[d] \in Nat /\ M[d] < M[d] + 1 /\ Table(M[d] + 1, of(M[d] + 1))
    BY <1>3 DEF Falls
  <2>2. f0[d] = IF d \in Stop THEN Out[d] ELSE of(M[d] + 1)[Next[d]]
    BY <2>1 DEF Upto
  <2>3. ASSUME d \notin Stop PROVE of(M[d] + 1)[Next[d]] = f0[Next[d]]
    <3>1. PICK e \in D : e = Next[d]
      BY <2>3 DEF Falls
    <3>2. M[e] < M[d] /\ M[e] \in Nat
      BY <2>3, <3>1 DEF Falls
    <3> DEFINE j == M[e] + 1
               k == M[d] + 1
               fj == of(j)
               fk == of(k)
    <3>3. Table(j, fj) /\ Table(k, fk)
      BY <1>3, <2>1, <3>2
    <3>4. j \in Nat /\ k \in Nat /\ j <= k /\ M[e] < j
      BY <2>1, <3>2
    <3>5. f0[e] = fj[e]
      OBVIOUS
    <3> HIDE DEF j, k, fj, fk, of, f0
    <3>6. \A x \in D : M[x] < j => fj[x] = fk[x]
      BY <3>3, <3>4, LoopsAgree
    <3>7. f0[e] = fk[e]
      BY <3>4, <3>5, <3>6
    <3> QED
      BY <3>1, <3>7 DEF fk, k
  <2> QED
    BY <2>2, <2>3
<1>5. f0 = [d \in D |-> IF d \in Stop THEN Out[d] ELSE f0[Next[d]]]
  <2> DEFINE h == [d \in D |-> IF d \in Stop THEN Out[d] ELSE f0[Next[d]]]
  <2>1. \A d \in D : f0[d] = h[d]
    <3> HIDE DEF f0
    <3> QED
      BY <1>4
  <2> QED
    BY <2>1
<1> HIDE DEF f0
<1> QED
  BY <1>5

(* What holds of a state from which the loop is entered and is kept by its  *)
(* passes holds of the state where it stops.                                *)
LEMMA LoopInduction ==
  ASSUME NEW D, NEW M, NEW Stop, NEW Out, NEW Next, Falls(D, M, Stop, Next),
         NEW f, f = [d \in D |-> IF d \in Stop THEN Out[d] ELSE f[Next[d]]],
         NEW P \in SUBSET D, NEW Q,
         \A d \in P \cap Stop : Out[d] \in Q,
         \A d \in P \ Stop : Next[d] \in P
  PROVE  \A d \in P : f[d] \in Q
<1> DEFINE Good == {k \in Nat : \A d \in P : M[d] <= k => f[d] \in Q}
<1>0. \A d \in P : d \in D /\ M[d] \in Nat
  BY DEF Falls
<1>1. ASSUME NEW d \in P, d \notin Stop => f[Next[d]] \in Q
      PROVE  f[d] \in Q
  <2>1. f[d] = IF d \in Stop THEN Out[d] ELSE f[Next[d]]
    BY <1>0
  <2> QED
    BY <1>1, <2>1
<1>2. 0 \in Good
  <2>1. ASSUME NEW d \in P, M[d] <= 0 PROVE d \in Stop
    <3>1. M[d] \in Nat /\ (d \notin Stop => M[Next[d]] < M[d] /\ M[Next[d]] \in Nat)
      BY DEF Falls
    <3> QED
      BY <2>1, <3>1
  <2> QED
    BY <1>1, <2>1
<1>3. ASSUME NEW k \in Nat, k \in Good PROVE k + 1 \in Good
  <2>1. ASSUME NEW d \in P, M[d] <= k + 1, d \notin Stop
        PROVE  f[Next[d]] \in Q
    <3>1. Next[d] \in P /\ M[Next[d]] < M[d] /\ M[d] \in Nat /\ M[Next[d]] \in Nat
      BY <2>1 DEF Falls
    <3>2. M[Next[d]] <= k
      BY <2>1, <3>1
    <3> QED
      BY <1>3, <3>1, <3>2
  <2> QED
    BY <1>1, <2>1
<1>4. \A k \in Nat : k \in Good
  <2> HIDE DEF Good
  <2> QED
    BY <1>2, <1>3, CountingInduction
<1> QED
  <2>1. ASSUME NEW d \in P PROVE f[d] \in Q
    <3>1. M[d] \in Nat /\ M[d] <= M[d]
      BY <1>0
    <3>2. M[d] \in Good
      <4> HIDE DEF Good
      <4> QED
        BY <1>4, <3>1
    <3> QED
      BY <3>1, <3>2
  <2> QED
    BY <2>1
=============================================================================
