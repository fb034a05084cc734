-------------------------- MODULE UniformGridProofs --------------------------
(****************************************************************************)
(* Proofs about UniformGrid: the grid holds every node in the cell it is    *)
(* over, and the ring search finds the two nearest of them.                 *)
(****************************************************************************)
EXTENDS UniformGrid, RecursionFacts

(* Arithmetic.                                                              *)
LEMMA Squares ==
  ASSUME NEW a \in Int
  PROVE  a * a \in Nat /\ (a * a = 0 => a = 0)
OBVIOUS

(* Multiplying by a natural number keeps the order. *)
LEMMA ProductMonotone ==
  ASSUME NEW a \in Int, NEW b \in Int, NEW l \in Nat, a <= b
  PROVE  a * l <= b * l
<1>1. (b - a) * l >= 0
  <2>1. b - a \in Nat
    OBVIOUS
  <2> QED
    BY <2>1
<1>2. (b - a) * l = b * l - a * l
  OBVIOUS
<1>3. a * l \in Int /\ b * l \in Int
  OBVIOUS
<1> QED
  BY <1>1, <1>2, <1>3

(* Squaring keeps the order of natural numbers. *)
LEMMA SquareMonotone ==
  ASSUME NEW a \in Nat, NEW b \in Nat, a <= b
  PROVE  a * a <= b * b
<1>1. a * a <= b * a
  BY ProductMonotone
<1>2. a * b <= b * b
  BY ProductMonotone
<1>3. a * b = b * a /\ a * a \in Nat /\ a * b \in Nat /\ b * b \in Nat
  OBVIOUS
<1> QED
  BY <1>1, <1>2, <1>3

(* The quotient of a division rounds down. *)
LEMMA Quotient ==
  ASSUME NEW a \in Nat, NEW l \in Nat \ {0}
  PROVE  a \div l \in Nat /\ (a \div l) * l <= a /\ a < (a \div l + 1) * l
<1>1. a \div l \in Nat
  OBVIOUS
<1>2. l * (a \div l) <= a
  OBVIOUS
<1>3. a < l * (a \div l + 1)
  OBVIOUS
<1>4. l * (a \div l) = (a \div l) * l /\ l * (a \div l + 1) = (a \div l + 1) * l
  BY <1>1
<1> QED
  BY <1>1, <1>2, <1>3, <1>4

(* Dividing by a positive number keeps the order. *)
LEMMA QuotientMonotone ==
  ASSUME NEW a \in Nat, NEW b \in Nat, NEW l \in Nat \ {0}, a <= b
  PROVE  a \div l <= b \div l
<1> DEFINE x == a \div l
           y == b \div l
<1>1. /\ x \in Nat /\ y \in Nat
      /\ x * l <= a /\ b < (y + 1) * l
  BY Quotient
<1> HIDE DEF x, y
<1>2. SUFFICES ASSUME x > y PROVE FALSE
  BY <1>1 DEF x, y
<1>3. (y + 1) * l <= x * l
  BY <1>1, <1>2, ProductMonotone
<1>4. (y + 1) * l \in Int /\ x * l \in Int
  BY <1>1
<1> QED
  BY <1>1, <1>3, <1>4
-----------------------------------------------------------------------------
(* Distances.                                                               *)
LEMMA DistanceFacts ==
  ASSUME gng_dim \in Nat \ {0}, NEW p \in [Axes -> Int], NEW q \in [Axes -> Int]
  PROVE  /\ Distance(p, q) \in Nat
         /\ Distance(p, q) = 0 <=> p = q
         /\ \A i \in Axes : (p[i] - q[i]) * (p[i] - q[i]) <= Distance(p, q)
<1> DEFINE d == gng_dim
           s == [i \in 1 .. d |-> (p[i] - q[i]) * (p[i] - q[i])]
           F == [x \in Nat \X Nat |-> x[1] + x[2]]
           Body(f) == [i \in 0 .. d |-> IF i = 0 THEN 0
                                        ELSE f[i - 1] + (p[i] - q[i]) * (p[i] - q[i])]
           upTo == CHOOSE f : f = Body(f)
<1>1. d \in Nat /\ Axes = 1 .. d
  BY DEF Axes
<1>2. \A i \in 1 .. d : /\ p[i] \in Int /\ q[i] \in Int
                        /\ s[i] \in Nat /\ (s[i] = 0 <=> p[i] = q[i])
                        /\ s[i] = (p[i] - q[i]) * (p[i] - q[i])
  <2> SUFFICES ASSUME NEW i \in 1 .. d
               PROVE  /\ p[i] \in Int /\ q[i] \in Int
                      /\ s[i] \in Nat /\ (s[i] = 0 <=> p[i] = q[i])
                      /\ s[i] = (p[i] - q[i]) * (p[i] - q[i])
    OBVIOUS
  <2>1. p[i] \in Int /\ q[i] \in Int /\ p[i] - q[i] \in Int /\ s[i] = (p[i] - q[i]) * (p[i] - q[i])
    BY <1>1
  <2> HIDE DEF s
  <2>2. s[i] \in Nat /\ (s[i] = 0 => p[i] - q[i] = 0)
    BY <2>1, Squares
  <2>3. p[i] = q[i] => p[i] - q[i] = 0
    BY <2>1
  <2>4. p[i] - q[i] = 0 => s[i] = 0 /\ p[i] = q[i]
    <3>1. PICK z \in Int : z = p[i] - q[i]
      BY <2>1
    <3>2. s[i] = z * z
      BY <2>1, <3>1
    <3>3. z = 0 => z * z = 0
      BY <3>1
    <3>4. z = 0 => p[i] = q[i]
      <4>1. p[i] \in Int /\ q[i] \in Int
        BY <2>1
      <4> QED
        BY <3>1, <4>1
    <3> QED
      BY <3>1, <3>2, <3>3, <3>4
  <2> QED
    BY <2>1, <2>2, <2>3, <2>4
<1>3. s \in [1 .. d -> Nat]
  <2>1. s = [i \in 1 .. d |-> s[i]]
    OBVIOUS
  <2> HIDE DEF s
  <2> QED
    BY <1>2, <2>1
<1>4. F \in [Nat \X Nat -> Nat] /\ \A a, b \in Nat : F[<<a, b>>] = a + b
  OBVIOUS
<1>5. \E f : f = Body(f)
  <2> HIDE DEF s, F, d
  <2>1. \E it \in [SUBSET (1 .. d) -> Nat] : Tabulates(it, Nat, d, s, 0, F)
    BY <1>1, <1>3, <1>4, FoldLeftTable
  <2>2. PICK it : Tabulates(it, Nat, d, s, 0, F)
    BY <2>1
  <2>3. \E x \in [0 .. d -> Nat] : Accumulates(x, d, s, 0, F, it[1 .. d])
    BY <1>1, <1>3, <1>4, <2>2, FoldLeftPath
  <2>4. PICK x \in [0 .. d -> Nat] : Accumulates(x, d, s, 0, F, it[1 .. d])
    BY <2>3
  <2>5. ASSUME NEW i \in 0 .. d, i # 0
        PROVE  x[i] = x[i - 1] + (p[i] - q[i]) * (p[i] - q[i])
    <3>1. i \in 1 .. d /\ i - 1 \in 0 .. d
      BY <1>1, <2>5
    <3>2. x[i] = F[<<x[i - 1], s[i]>>]
      BY <2>4, <3>1 DEF Accumulates
    <3>3. PICK v \in Nat, w \in Nat : v = x[i - 1] /\ w = s[i]
      BY <1>2, <3>1
    <3>4. x[i] = v + w
      BY <1>4, <3>2, <3>3
    <3> QED
      BY <1>2, <3>1, <3>3, <3>4
  <2>6. x[0] = 0
    BY <2>4 DEF Accumulates
  <2>7. x = Body(x)
    BY <2>5, <2>6
  <2> QED
    BY <2>7
<1>6. upTo = Body(upTo)
  BY <1>5
<1>7. Distance(p, q) = upTo[d]
  BY DEF Distance
<1> HIDE DEF upTo
<1>8. upTo[0] = 0 /\ \A i \in 1 .. d : upTo[i] = upTo[i - 1] + s[i]
  <2>1. upTo[0] = 0
    BY <1>1, <1>6
  <2>2. ASSUME NEW i \in 1 .. d PROVE upTo[i] = upTo[i - 1] + s[i]
    <3>1. i \in 0 .. d /\ i # 0
      BY <1>1
    <3> HIDE DEF s
    <3> QED
      BY <1>2, <1>6, <3>1
  <2> QED
    BY <2>1, <2>2
<1> HIDE DEF s, F, d
<1> DEFINE Sum(k) == /\ upTo[k] \in Nat
                     /\ \A i \in 1 .. k : s[i] <= upTo[k]
                     /\ (\A i \in 1 .. k : s[i] = 0) => upTo[k] = 0
           Good == {k \in Nat : k <= d => Sum(k)}
<1>9. 0 \in Good
  BY <1>8
<1>10. ASSUME NEW k \in Nat, k \in Good PROVE k + 1 \in Good
  <2>1. SUFFICES ASSUME k + 1 <= d PROVE Sum(k + 1)
    OBVIOUS
  <2>2. k <= d /\ k + 1 \in 1 .. d /\ (k + 1) - 1 = k
    BY <1>1, <2>1
  <2>3. Sum(k)
    BY <1>10, <2>2
  <2>4. upTo[k + 1] = upTo[k] + s[k + 1] /\ s[k + 1] \in Nat
    BY <1>2, <1>8, <2>2
  <2>5. \A i \in 1 .. k + 1 : i \in 1 .. k \/ i = k + 1
    OBVIOUS
  <2>6. ASSUME NEW i \in 1 .. k + 1 PROVE s[i] <= upTo[k + 1]
    <3>1. CASE i = k + 1
      BY <2>3, <2>4, <3>1
    <3>2. CASE i \in 1 .. k
      <4>1. i \in 1 .. d
        BY <1>1, <2>2, <3>2
      <4>2. s[i] \in Nat
        BY <1>2, <4>1
      <4> QED
        BY <2>3, <2>4, <3>2, <4>2
    <3> QED
      BY <2>5, <3>1, <3>2
  <2>7. ASSUME \A i \in 1 .. k + 1 : s[i] = 0 PROVE upTo[k + 1] = 0
    <3>1. k + 1 \in 1 .. k + 1 /\ \A i \in 1 .. k : i \in 1 .. k + 1
      OBVIOUS
    <3> QED
      BY <2>3, <2>4, <2>7, <3>1
  <2> QED
    BY <2>3, <2>4, <2>6, <2>7
<1>11. \A k \in Nat : k \in Good
  <2> HIDE DEF Good
  <2> QED
    BY <1>9, <1>10, CountingInduction
<1>12. Sum(d)
  BY <1>1, <1>11
<1>13. Distance(p, q) = 0 => p = q
  <2>1. ASSUME Distance(p, q) = 0, NEW i \in 1 .. d PROVE p[i] = q[i]
    <3>1. s[i] <= 0 /\ s[i] \in Nat
      BY <1>2, <1>7, <1>12, <2>1
    <3>2. s[i] = 0
      BY <3>1
    <3> QED
      BY <1>2, <3>2
  <2> QED
    BY <1>1, <2>1
<1>14. p = q => Distance(p, q) = 0
  BY <1>2, <1>7, <1>12
<1>15. \A i \in Axes : (p[i] - q[i]) * (p[i] - q[i]) <= Distance(p, q)
  BY <1>1, <1>2, <1>7, <1>12
<1> QED
  BY <1>7, <1>12, <1>13, <1>14, <1>15
-----------------------------------------------------------------------------
(* The cells of a grid in d dimensions, and the cell a position is in.      *)
Box(d, m) == [1 .. d -> 0 .. m - 1]

CellOn(d, u, p) == [i \in 1 .. d |-> p[i] \div u.m_l]

(* The places of the entries, which m_nodes counts.                         *)
Slots(u) == {s \in (DOMAIN u.m_grid) \X Nat : s[2] \in DOMAIN u.m_grid[s[1]]}

Shaped(u) ==
    u = [m_l |-> u.m_l, m_dim |-> u.m_dim, m_nodes |-> u.m_nodes, m_grid |-> u.m_grid]

Fits(u) == /\ u.m_l \in Nat \ {0} /\ u.m_dim \in Nat \ {0}
           /\ Side \div u.m_l < u.m_dim

(* u is a grid in d dimensions with entries of U, whatever they stand for.  *)
GridOn(d, u, U) ==
    /\ Shaped(u) /\ Fits(u)
    /\ u.m_grid \in [Box(d, u.m_dim) -> Seq(U)]
    /\ u.m_nodes \in Nat
    /\ IsFiniteSet(Slots(u)) /\ Cardinality(Slots(u)) = u.m_nodes

(* u has one entry of each number of S, in the cell its node is over.       *)
HoldsOn(d, u, S, at) ==
    /\ \A k \in Box(d, u.m_dim) : \A i, j \in DOMAIN u.m_grid[k] :
          u.m_grid[k][i] = u.m_grid[k][j] => i = j
    /\ \A k \in Box(d, u.m_dim) : \A i \in DOMAIN u.m_grid[k] :
          u.m_grid[k][i] \in S /\ CellOn(d, u, at[u.m_grid[k][i]]) = k
    /\ \A n \in S : \E k \in Box(d, u.m_dim) : \E i \in DOMAIN u.m_grid[k] :
          u.m_grid[k][i] = n

(* The definitions of the grid, which use gng_dim, are those of a space of that dimension. *)
LEMMA Space ==
  ASSUME gng_dim \in Nat \ {0}
  PROVE  /\ Axes = 1 .. gng_dim
         /\ \A m : Cells(m) = Box(gng_dim, m)
         /\ \A u, p : CalculateCell(u, p) = CellOn(gng_dim, u, p)
         /\ \A p \in Positions : p \in [1 .. gng_dim -> 0 .. Side]
         /\ Side \in Nat \ {0}
<1>1. Side \in Nat \ {0} /\ Line \subseteq 0 .. Side /\ Square \subseteq 0 .. Side
  BY GridAssumption
<1>2. ASSUME NEW p \in Positions PROVE p \in [1 .. gng_dim -> 0 .. Side]
  BY <1>1 DEF Positions, Axes
<1> QED
  BY <1>1, <1>2 DEF Axes, Cells, Box, CalculateCell, CellOn

(* A position in the box is over a cell of the grid.                        *)
LEMMA CellExists ==
  ASSUME NEW d \in Nat \ {0}, NEW u, Fits(u), NEW p \in [1 .. d -> 0 .. Side],
         Side \in Nat \ {0}
  PROVE  CellOn(d, u, p) \in Box(d, u.m_dim)
<1>1. ASSUME NEW i \in 1 .. d PROVE p[i] \div u.m_l \in 0 .. u.m_dim - 1
  <2>1. p[i] \in Nat /\ p[i] <= Side /\ u.m_l \in Nat \ {0}
    BY DEF Fits
  <2>2. p[i] \div u.m_l <= Side \div u.m_l
    BY <2>1, QuotientMonotone
  <2>3. p[i] \div u.m_l \in Nat /\ Side \div u.m_l \in Nat
    BY <2>1, Quotient
  <2>4. Side \div u.m_l < u.m_dim /\ u.m_dim \in Nat
    BY DEF Fits
  <2> QED
    BY <2>2, <2>3, <2>4
<1> QED
  BY <1>1 DEF CellOn, Box

(* u with the entries s in the cell k and the count m.                      *)
GridWith(u, k, s, m) ==
    [m_l |-> u.m_l, m_dim |-> u.m_dim, m_nodes |-> m,
     m_grid |-> [u.m_grid EXCEPT ![k] = s]]

(* insert appends a node to its cell and counts it. *)
LEMMA InsertIs ==
  ASSUME gng_dim \in Nat \ {0}, NEW u, Shaped(u), NEW p, NEW x
  PROVE  LET k == CellOn(gng_dim, u, p)
         IN  Insert(u, p, x) = GridWith(u, k, Append(u.m_grid[k], x), u.m_nodes + 1)
<1> DEFINE k == CellOn(gng_dim, u, p)
<1>1. PICK a, b, e, g : /\ a = u.m_l /\ b = u.m_dim /\ e = u.m_nodes /\ g = u.m_grid
                        /\ u = [m_l |-> a, m_dim |-> b, m_nodes |-> e, m_grid |-> g]
  BY DEF Shaped
<1>2. CalculateCell(u, p) = k
  BY Space
<1> HIDE DEF k
<1>3. Insert(u, p, x) = [u EXCEPT !.m_grid = [g EXCEPT ![k] = Append(g[k], x)], !.m_nodes = e + 1]
  BY <1>1, <1>2 DEF Insert
<1>4. Insert(u, p, x) = [m_l |-> a, m_dim |-> b, m_nodes |-> e + 1,
                         m_grid |-> [g EXCEPT ![k] = Append(g[k], x)]]
  BY <1>1, <1>3
<1>5. Insert(u, p, x) = GridWith(u, k, Append(u.m_grid[k], x), u.m_nodes + 1)
  BY <1>1, <1>4 DEF GridWith
<1> QED
  BY <1>5 DEF k

(* Replacing a cell by a longer or shorter one, and counting, gives a well-formed grid. *)
LEMMA GridWithTyped ==
  ASSUME NEW d \in Nat \ {0}, NEW u, NEW U, GridOn(d, u, U),
         NEW k \in Box(d, u.m_dim), NEW s \in Seq(U), NEW m,
         \/ Len(s) = Len(u.m_grid[k]) + 1 /\ m = u.m_nodes + 1
         \/ Len(s) = Len(u.m_grid[k]) - 1 /\ m = u.m_nodes - 1
  PROVE  GridOn(d, GridWith(u, k, s, m), U)
<1> DEFINE v == GridWith(u, k, s, m)
           g == u.m_grid
           n == Len(g[k])
           B == Box(d, u.m_dim)
<1>1. g \in [B -> Seq(U)] /\ k \in B /\ g[k] \in Seq(U) /\ n \in Nat /\ DOMAIN g[k] = 1 .. n
  BY DEF GridOn
<1>2. /\ v.m_l = u.m_l /\ v.m_dim = u.m_dim /\ v.m_nodes = m
      /\ v.m_grid = [g EXCEPT ![k] = s]
      /\ Shaped(v)
  BY DEF GridWith, Shaped
<1>3. IsFiniteSet(Slots(u)) /\ Cardinality(Slots(u)) = u.m_nodes /\ u.m_nodes \in Nat
  BY DEF GridOn
<1>4. \A r : r \in Slots(u) <=> r \in B \X Nat /\ r[2] \in DOMAIN g[r[1]]
  BY <1>1 DEF Slots
<1> HIDE DEF v
<1>5. \A r : r \in Slots(v) <=> r \in B \X Nat /\ r[2] \in (IF r[1] = k THEN 1 .. Len(s) ELSE DOMAIN g[r[1]])
  <2>1. v.m_grid \in [B -> Seq(U)] /\ \A j \in B : v.m_grid[j] = IF j = k THEN s ELSE g[j]
    BY <1>1, <1>2
  <2>2. DOMAIN s = 1 .. Len(s)
    OBVIOUS
  <2> HIDE DEF B, g, n
  <2> QED
    BY <2>1, <2>2 DEF Slots
<1> HIDE DEF g, n, B
<1>6. IsFiniteSet(Slots(v)) /\ Cardinality(Slots(v)) = m /\ m \in Nat
  <2>1. CASE Len(s) = n + 1 /\ m = u.m_nodes + 1
    <3>1. 1 .. n + 1 = (1 .. n) \cup {n + 1} /\ n + 1 \notin 1 .. n /\ n + 1 \in Nat
      BY <1>1
    <3>2. Slots(v) = Slots(u) \cup {<<k, n + 1>>}
      <4>1. ASSUME NEW r \in Slots(v) PROVE r \in Slots(u) \cup {<<k, n + 1>>}
        BY <1>1, <1>4, <1>5, <2>1, <3>1
      <4>2. ASSUME NEW r \in Slots(u) PROVE r \in Slots(v)
        BY <1>1, <1>4, <1>5, <2>1, <3>1
      <4>3. <<k, n + 1>> \in Slots(v)
        BY <1>1, <1>5, <2>1, <3>1
      <4> QED
        BY <4>1, <4>2, <4>3
    <3>3. <<k, n + 1>> \notin Slots(u)
      BY <1>1, <1>4, <3>1
    <3>4. PICK z : z = <<k, n + 1>>
      OBVIOUS
    <3>5. Slots(v) = Slots(u) \cup {z} /\ z \notin Slots(u)
      BY <3>2, <3>3, <3>4
    <3>6. IsFiniteSet(Slots(v)) /\ Cardinality(Slots(v)) = Cardinality(Slots(u)) + 1
      BY <1>3, <3>5, FS_AddElement
    <3> QED
      BY <1>3, <2>1, <3>6
  <2>2. CASE Len(s) = n - 1 /\ m = u.m_nodes - 1
    <3>1. n - 1 \in Nat /\ n \in 1 .. n /\ 1 .. n - 1 = (1 .. n) \ {n}
      BY <1>1, <2>2
    <3>2. Slots(v) = Slots(u) \ {<<k, n>>}
      <4>1. ASSUME NEW r \in Slots(v) PROVE r \in Slots(u) \ {<<k, n>>}
        BY <1>1, <1>4, <1>5, <2>2, <3>1
      <4>2. ASSUME NEW r \in Slots(u), r # <<k, n>> PROVE r \in Slots(v)
        BY <1>1, <1>4, <1>5, <2>2, <3>1, <4>2
      <4> QED
        BY <4>1, <4>2
    <3>3. <<k, n>> \in Slots(u)
      BY <1>1, <1>4, <3>1
    <3>4. PICK z : z = <<k, n>>
      OBVIOUS
    <3>5. Slots(v) = Slots(u) \ {z} /\ z \in Slots(u)
      BY <3>2, <3>3, <3>4
    <3>6. IsFiniteSet(Slots(v)) /\ Cardinality(Slots(v)) = Cardinality(Slots(u)) - 1
      BY <1>3, <3>5, FS_RemoveElement
    <3>7. Cardinality(Slots(v)) \in Nat
      BY <3>6, FS_CardinalityType
    <3> QED
      BY <1>3, <2>2, <3>6, <3>7
  <2> QED
    BY <2>1, <2>2 DEF n, g
<1>7. Fits(v) /\ v.m_grid \in [Box(d, v.m_dim) -> Seq(U)]
  BY <1>1, <1>2 DEF Fits, GridOn, B
<1> QED
  BY <1>2, <1>6, <1>7 DEF GridOn, v
(* Positions matter only where there are entries.                           *)
LEMMA HoldsElsewhere ==
  ASSUME NEW d, NEW u, NEW S, NEW at, HoldsOn(d, u, S, at),
         NEW to, \A n \in S : to[n] = at[n]
  PROVE  HoldsOn(d, u, S, to)
<1>1. \A n \in S : CellOn(d, u, to[n]) = CellOn(d, u, at[n])
  BY DEF CellOn
<1> QED
  BY <1>1 DEF HoldsOn

(* Appending a node to its cell adds it to the nodes the grid holds. *)
LEMMA InsertHolds ==
  ASSUME NEW d \in Nat \ {0}, NEW u, NEW U, GridOn(d, u, U),
         NEW S, NEW at, HoldsOn(d, u, S, at), NEW x, x \notin S,
         NEW k \in Box(d, u.m_dim), k = CellOn(d, u, at[x]), NEW m
  PROVE  HoldsOn(d, GridWith(u, k, Append(u.m_grid[k], x), m), S \cup {x}, at)
<1> DEFINE g == u.m_grid
           s == Append(g[k], x)
           v == GridWith(u, k, s, m)
           n == Len(g[k])
           B == Box(d, u.m_dim)
<1>1. /\ g \in [B -> Seq(U)] /\ k \in B /\ g[k] \in Seq(U) /\ n \in Nat
      /\ \A j \in B : g[j] \in Seq(U) /\ DOMAIN g[j] = 1 .. Len(g[j])
      /\ DOMAIN g[k] = 1 .. n
  BY DEF GridOn
<1>2. /\ DOMAIN s = 1 .. n + 1 /\ s[n + 1] = x /\ \A i \in 1 .. n : s[i] = g[k][i]
  <2>1. PICK w \in Seq(U) : w = g[k]
    BY <1>1
  <2>2. Len(w) = n
    BY <2>1
  <2> HIDE DEF n, g
  <2> QED
    BY <1>1, <2>1, <2>2
<1>3. \A j \in B : v.m_grid[j] = IF j = k THEN s ELSE g[j]
  <2>1. v.m_grid = [g EXCEPT ![k] = s]
    BY DEF GridWith
  <2> HIDE DEF v, s, g
  <2> QED
    BY <1>1, <2>1
<1>4. v.m_dim = u.m_dim /\ \A p : CellOn(d, v, p) = CellOn(d, u, p)
  BY DEF GridWith, CellOn
<1>5. /\ \A j \in B : \A a, b \in DOMAIN g[j] : g[j][a] = g[j][b] => a = b
      /\ \A j \in B : \A i \in DOMAIN g[j] : g[j][i] \in S /\ CellOn(d, u, at[g[j][i]]) = j
      /\ \A y \in S : \E j \in B : \E i \in DOMAIN g[j] : g[j][i] = y
  BY DEF HoldsOn
<1>6. \A i \in 1 .. n + 1 : i \in 1 .. n \/ i = n + 1
  BY <1>1
<1>7. k = CellOn(d, u, at[x])
  OBVIOUS
<1> HIDE DEF v, s, n, g, B
<1>9. ASSUME NEW j \in B
      PROVE  /\ \A a, b \in DOMAIN v.m_grid[j] : v.m_grid[j][a] = v.m_grid[j][b] => a = b
             /\ \A i \in DOMAIN v.m_grid[j] :
                   v.m_grid[j][i] \in S \cup {x} /\ CellOn(d, u, at[v.m_grid[j][i]]) = j
  <2>1. CASE j # k
    BY <1>3, <1>5, <2>1
  <2>2. CASE j = k
    <3>1. \A i \in 1 .. n + 1 : s[i] = IF i = n + 1 THEN x ELSE g[k][i]
      BY <1>2, <1>6
    <3>2. \A i \in 1 .. n : g[k][i] \in S /\ g[k][i] # x /\ CellOn(d, u, at[g[k][i]]) = k
      BY <1>1, <1>5
    <3>3. v.m_grid[j] = s /\ DOMAIN s = 1 .. n + 1
      BY <1>2, <1>3, <2>2
    <3>4. ASSUME NEW a \in 1 .. n + 1, NEW b \in 1 .. n + 1, s[a] = s[b] PROVE a = b
      <4>1. CASE a = n + 1
        BY <1>1, <1>6, <3>1, <3>2, <3>4, <4>1
      <4>2. CASE b = n + 1
        BY <1>1, <1>6, <3>1, <3>2, <3>4, <4>2
      <4>3. CASE a # n + 1 /\ b # n + 1
        <5>1. a \in DOMAIN g[k] /\ b \in DOMAIN g[k] /\ g[k][a] = g[k][b]
          BY <1>1, <1>6, <3>1, <3>4, <4>3
        <5> QED
          BY <1>1, <1>5, <5>1
      <4> QED
        BY <4>1, <4>2, <4>3
    <3>5. \A i \in 1 .. n + 1 : s[i] \in S \cup {x} /\ CellOn(d, u, at[s[i]]) = k
      BY <1>6, <1>7, <3>1, <3>2
    <3> QED
      BY <2>2, <3>3, <3>4, <3>5
  <2> QED
    BY <2>1, <2>2
<1>10. ASSUME NEW y \in S \cup {x}
       PROVE  \E j \in B : \E i \in DOMAIN v.m_grid[j] : v.m_grid[j][i] = y
  <2>1. v.m_grid[k] = s /\ k \in B
    BY <1>1, <1>3
  <2>2. CASE y = x
    <3>1. n + 1 \in DOMAIN s /\ s[n + 1] = x
      BY <1>1, <1>2
    <3> QED
      BY <2>1, <2>2, <3>1
  <2>3. CASE y # x
    <3>1. PICK j \in B : \E i \in DOMAIN g[j] : g[j][i] = y
      BY <1>5, <2>3
    <3>2. PICK i \in DOMAIN g[j] : g[j][i] = y
      BY <3>1
    <3>3. CASE j # k
      BY <1>3, <3>2, <3>3
    <3>4. CASE j = k
      <4>1. i \in 1 .. n /\ i \in DOMAIN s
        BY <1>1, <1>2, <3>2, <3>4
      <4>2. s[i] = y
        BY <1>2, <3>2, <3>4, <4>1
      <4> QED
        BY <2>1, <4>1, <4>2
    <3> QED
      BY <3>3, <3>4
  <2> QED
    BY <2>2, <2>3
<1>11. HoldsOn(d, v, S \cup {x}, at)
  BY <1>4, <1>9, <1>10 DEF HoldsOn, B
<1> QED
  BY <1>11 DEF v, s, g

(* Erasing an entry of a cell takes that node out of those the grid holds. *)
LEMMA EraseHolds ==
  ASSUME NEW d \in Nat \ {0}, NEW u, NEW U, GridOn(d, u, U),
         NEW S, NEW at, HoldsOn(d, u, S, at),
         NEW k \in Box(d, u.m_dim), NEW e \in DOMAIN u.m_grid[k], NEW m
  PROVE  HoldsOn(d, GridWith(u, k, RemoveAt(u.m_grid[k], e), m), S \ {u.m_grid[k][e]}, at)
<1> DEFINE g == u.m_grid
           s == RemoveAt(g[k], e)
           v == GridWith(u, k, s, m)
           n == Len(g[k])
           B == Box(d, u.m_dim)
           x == g[k][e]
<1>1. /\ g \in [B -> Seq(U)] /\ k \in B /\ g[k] \in Seq(U) /\ n \in Nat
      /\ DOMAIN g[k] = 1 .. n /\ e \in 1 .. n
  BY DEF GridOn
<1>2. /\ s \in Seq(U) /\ Len(s) = n - 1
      /\ \A i \in 1 .. n - 1 : s[i] = IF i < e THEN g[k][i] ELSE g[k][i + 1]
  BY <1>1, RemoveAtFacts
<1>3. \A j \in B : v.m_grid[j] = IF j = k THEN s ELSE g[j]
  <2>1. v.m_grid = [g EXCEPT ![k] = s]
    BY DEF GridWith
  <2> HIDE DEF v, s, g
  <2> QED
    BY <1>1, <2>1
<1>4. v.m_dim = u.m_dim /\ \A p : CellOn(d, v, p) = CellOn(d, u, p)
  BY DEF GridWith, CellOn
<1>5. /\ \A j \in B : \A a, b \in DOMAIN g[j] : g[j][a] = g[j][b] => a = b
      /\ \A j \in B : \A i \in DOMAIN g[j] : g[j][i] \in S /\ CellOn(d, u, at[g[j][i]]) = j
      /\ \A y \in S : \E j \in B : \E i \in DOMAIN g[j] : g[j][i] = y
  BY DEF HoldsOn
<1>6. DOMAIN s = 1 .. n - 1
  BY <1>2
<1>8. x = g[k][e]
  OBVIOUS
<1> HIDE DEF v, s, n, g, B, x
<1>9. \A i \in 1 .. n - 1 : \E j \in 1 .. n : j = (IF i < e THEN i ELSE i + 1) /\ s[i] = g[k][j] /\ j # e
  <2> SUFFICES ASSUME NEW i \in 1 .. n - 1
               PROVE  \E j \in 1 .. n : j = (IF i < e THEN i ELSE i + 1) /\ s[i] = g[k][j] /\ j # e
    OBVIOUS
  <2>1. CASE i < e
    BY <1>1, <1>2, <2>1
  <2>2. CASE ~(i < e)
    <3>1. i + 1 \in 1 .. n /\ i + 1 # e
      BY <1>1, <2>2
    <3> QED
      BY <1>2, <2>2, <3>1
  <2> QED
    BY <2>1, <2>2
<1>10. ASSUME NEW j \in 1 .. n, j # e PROVE \E i \in 1 .. n - 1 : s[i] = g[k][j]
  <2>1. CASE j < e
    BY <1>1, <1>2, <2>1
  <2>2. CASE ~(j < e)
    <3>1. j - 1 \in 1 .. n - 1 /\ ~(j - 1 < e) /\ (j - 1) + 1 = j
      BY <1>1, <1>10, <2>2
    <3> QED
      BY <1>2, <3>1
  <2> QED
    BY <2>1, <2>2
<1>11. ASSUME NEW j \in B
       PROVE  /\ \A a, b \in DOMAIN v.m_grid[j] : v.m_grid[j][a] = v.m_grid[j][b] => a = b
              /\ \A i \in DOMAIN v.m_grid[j] :
                    v.m_grid[j][i] \in S \ {x} /\ CellOn(d, u, at[v.m_grid[j][i]]) = j
  <2>1. CASE j # k
    <3>1. v.m_grid[j] = g[j]
      BY <1>3, <2>1
    <3>2. \A i \in DOMAIN g[j] : g[j][i] # x
      BY <1>1, <1>5, <1>8, <2>1
    <3> QED
      BY <1>5, <3>1, <3>2
  <2>2. CASE j = k
    <3>1. v.m_grid[j] = s
      BY <1>3, <2>2
    <3>2. \A i \in 1 .. n : g[k][i] \in S /\ (i # e => g[k][i] # x) /\ CellOn(d, u, at[g[k][i]]) = k
      BY <1>1, <1>5, <1>8
    <3>3. \A i \in 1 .. n - 1 : s[i] \in S \ {x} /\ CellOn(d, u, at[s[i]]) = k
      BY <1>9, <3>2
    <3>4. ASSUME NEW a \in 1 .. n - 1, NEW b \in 1 .. n - 1, s[a] = s[b] PROVE a = b
      <4>1. PICK a1 \in 1 .. n : a1 = (IF a < e THEN a ELSE a + 1) /\ s[a] = g[k][a1] /\ a1 # e
        BY <1>9
      <4>2. PICK b1 \in 1 .. n : b1 = (IF b < e THEN b ELSE b + 1) /\ s[b] = g[k][b1] /\ b1 # e
        BY <1>9
      <4>3. a1 = b1
        <5>1. a1 \in DOMAIN g[k] /\ b1 \in DOMAIN g[k] /\ g[k][a1] = g[k][b1]
          BY <1>1, <3>4, <4>1, <4>2
        <5> QED
          BY <1>1, <1>5, <5>1
      <4> QED
        BY <1>1, <4>1, <4>2, <4>3
    <3> QED
      BY <1>6, <2>2, <3>1, <3>3, <3>4
  <2> QED
    BY <2>1, <2>2
<1>12. ASSUME NEW y \in S \ {x}
       PROVE  \E j \in B : \E i \in DOMAIN v.m_grid[j] : v.m_grid[j][i] = y
  <2>1. PICK j \in B : \E i \in DOMAIN g[j] : g[j][i] = y
    BY <1>5
  <2>2. PICK i \in DOMAIN g[j] : g[j][i] = y
    BY <2>1
  <2>3. CASE j # k
    BY <1>3, <2>2, <2>3
  <2>4. CASE j = k
    <3>1. i \in 1 .. n /\ i # e /\ v.m_grid[k] = s
      BY <1>1, <1>3, <1>8, <2>2, <2>4
    <3>2. PICK h \in 1 .. n - 1 : s[h] = g[k][i]
      BY <1>10, <3>1
    <3> QED
      BY <1>1, <1>6, <2>2, <2>4, <3>1, <3>2
  <2> QED
    BY <2>3, <2>4
<1>13. HoldsOn(d, v, S \ {x}, at)
  BY <1>4, <1>11, <1>12 DEF HoldsOn, B
<1> QED
  BY <1>13 DEF v, s, x, g
-----------------------------------------------------------------------------
(* remove erases an entry of a node at p, or nothing if there is none.      *)
Erased(r, u, p, at, k) ==
    \/ /\ r = u
       /\ \A j \in DOMAIN u.m_grid[k] : at[u.m_grid[k][j]] # p
    \/ \E e \in DOMAIN u.m_grid[k] :
          /\ at[u.m_grid[k][e]] = p
          /\ r = GridWith(u, k, RemoveAt(u.m_grid[k], e), u.m_nodes - 1)

(* remove erases the first entry of the cell that is as near as the position given, if
   there is one. *)
LEMMA EraseIs ==
  ASSUME gng_dim \in Nat \ {0}, NEW u, NEW U, GridOn(gng_dim, u, U),
         NEW p \in Positions, NEW at \in [U -> Positions]
  PROVE  Erased(Erase(u, p, at), u, p, at, CellOn(gng_dim, u, p))
<1> DEFINE k == CellOn(gng_dim, u, p)
           s == u.m_grid[k]
           here == {j \in DOMAIN s : Distance(at[s[j]], p) = 0}
<1>1. k \in Box(gng_dim, u.m_dim) /\ CalculateCell(u, p) = k
  BY Space, CellExists DEF GridOn
<1>2. s \in Seq(U) /\ Len(s) \in Nat /\ DOMAIN s = 1 .. Len(s)
  BY <1>1 DEF GridOn
<1>3. \A j \in DOMAIN s : Distance(at[s[j]], p) = 0 <=> at[s[j]] = p
  <2> SUFFICES ASSUME NEW j \in DOMAIN s PROVE Distance(at[s[j]], p) = 0 <=> at[s[j]] = p
    OBVIOUS
  <2>1. s[j] \in U
    BY <1>2
  <2>2. at[s[j]] \in Positions
    BY <2>1
  <2>3. at[s[j]] \in [Axes -> Int] /\ p \in [Axes -> Int]
    BY <2>2, Space
  <2> QED
    BY <2>3, DistanceFacts
<1>4. Erase(u, p, at) = IF here = {} THEN u
                        ELSE [u EXCEPT !.m_grid[k] = RemoveAt(@, Min(here)), !.m_nodes = @ - 1]
  BY <1>1 DEF Erase
<1>5. CASE here = {}
  BY <1>3, <1>4, <1>5 DEF Erased
<1>6. CASE here # {}
  <2>1. Min(here) \in here
    <3>1. IsFiniteSet(1 .. Len(s)) /\ here \in SUBSET (1 .. Len(s))
      BY <1>2, FS_Interval
    <3>2. here \subseteq Int
      BY <1>2
    <3> HIDE DEF here
    <3>3. IsFiniteSet(here)
      BY <3>1, FS_Subset
    <3> QED
      BY <1>6, <3>2, <3>3, MinOfFinite
  <2>2. PICK e : e = Min(here)
    OBVIOUS
  <2>3. e \in DOMAIN s /\ at[s[e]] = p
    BY <1>3, <2>1, <2>2
  <2>4. Erase(u, p, at) = GridWith(u, k, RemoveAt(s, e), u.m_nodes - 1)
    <3>1. Erase(u, p, at) = [u EXCEPT !.m_grid[k] = RemoveAt(@, e), !.m_nodes = @ - 1]
      BY <1>4, <1>6, <2>2
    <3>2. PICK a, b, c, g : /\ a = u.m_l /\ b = u.m_dim /\ c = u.m_nodes /\ g = u.m_grid
                            /\ u = [m_l |-> a, m_dim |-> b, m_nodes |-> c, m_grid |-> g]
      BY DEF GridOn, Shaped
    <3> HIDE DEF k
    <3>3. Erase(u, p, at) = [u EXCEPT !.m_grid = [g EXCEPT ![k] = RemoveAt(g[k], e)], !.m_nodes = c - 1]
      BY <3>1, <3>2
    <3>4. Erase(u, p, at) = [m_l |-> a, m_dim |-> b, m_nodes |-> c - 1,
                             m_grid |-> [g EXCEPT ![k] = RemoveAt(g[k], e)]]
      BY <3>2, <3>3
    <3> QED
      BY <3>2, <3>4 DEF GridWith
  <2> QED
    BY <2>3, <2>4 DEF Erased
<1> QED
  BY <1>5, <1>6

(* remove gives a well-formed grid of the same cells. *)
LEMMA EraseTyped ==
  ASSUME gng_dim \in Nat \ {0}, NEW u, NEW U, GridOn(gng_dim, u, U),
         NEW p \in Positions, NEW at \in [U -> Positions]
  PROVE  /\ GridOn(gng_dim, Erase(u, p, at), U)
         /\ Erase(u, p, at).m_l = u.m_l /\ Erase(u, p, at).m_dim = u.m_dim
<1> DEFINE k == CellOn(gng_dim, u, p)
           s == u.m_grid[k]
           r == Erase(u, p, at)
<1>1. k \in Box(gng_dim, u.m_dim)
  BY Space, CellExists DEF GridOn
<1>2. s \in Seq(U) /\ DOMAIN s = 1 .. Len(s)
  BY <1>1 DEF GridOn
<1>3. Erased(r, u, p, at, k)
  BY EraseIs
<1> HIDE DEF r, k
<1>4. CASE r = u
  BY <1>4 DEF r
<1>5. ASSUME NEW e \in DOMAIN s, r = GridWith(u, k, RemoveAt(s, e), u.m_nodes - 1)
      PROVE  GridOn(gng_dim, r, U) /\ r.m_l = u.m_l /\ r.m_dim = u.m_dim
  <2>1. RemoveAt(s, e) \in Seq(U) /\ Len(RemoveAt(s, e)) = Len(s) - 1
    BY <1>2, RemoveAtFacts
  <2> DEFINE w == RemoveAt(s, e)
             m == u.m_nodes - 1
  <2>2. w \in Seq(U) /\ Len(w) = Len(s) - 1 /\ m = u.m_nodes - 1
    BY <2>1
  <2>3. r = GridWith(u, k, w, m)
    BY <1>5
  <2> HIDE DEF w, m
  <2>4. GridOn(gng_dim, r, U)
    BY <1>1, <2>2, <2>3, GridWithTyped
  <2> QED
    BY <2>3, <2>4 DEF GridWith
<1> QED
  BY <1>3, <1>4, <1>5 DEF Erased, r

(* remove takes out the right node when no other is at its position. *)
LEMMA EraseFacts ==
  ASSUME gng_dim \in Nat \ {0}, NEW u, NEW U, GridOn(gng_dim, u, U),
         NEW at \in [U -> Positions], NEW n \in U,
         NEW S \in SUBSET U, HoldsOn(gng_dim, u, S, at),
         \A m \in S \ {n} : at[m] # at[n]
  PROVE  HoldsOn(gng_dim, Erase(u, at[n], at), S \ {n}, at)
<1> DEFINE p == at[n]
           k == CellOn(gng_dim, u, p)
           g == u.m_grid
           r == Erase(u, p, at)
           B == Box(gng_dim, u.m_dim)
<1>1. p \in Positions /\ k \in B
  BY Space, CellExists DEF GridOn
<1>2. Erased(r, u, p, at, k)
  BY <1>1, EraseIs
<1>3. /\ \A j \in B : \A i \in DOMAIN g[j] : g[j][i] \in S /\ CellOn(gng_dim, u, at[g[j][i]]) = j
      /\ \A y \in S : \E j \in B : \E i \in DOMAIN g[j] : g[j][i] = y
  BY DEF HoldsOn
<1>4. k = CellOn(gng_dim, u, at[n])
  OBVIOUS
<1> HIDE DEF r, k, B
<1>5. ASSUME r = u, \A j \in DOMAIN g[k] : at[g[k][j]] # p
      PROVE  HoldsOn(gng_dim, r, S \ {n}, at)
  <2>1. n \notin S
    <3>1. ASSUME n \in S PROVE FALSE
      <4>1. PICK j \in B : \E i \in DOMAIN g[j] : g[j][i] = n
        BY <1>3, <3>1
      <4>2. PICK i \in DOMAIN g[j] : g[j][i] = n
        BY <4>1
      <4>3. j = k
        BY <1>3, <1>4, <4>2
      <4> QED
        BY <1>5, <4>2, <4>3
    <3> QED
      BY <3>1
  <2>2. S \ {n} = S
    BY <2>1
  <2> QED
    BY <1>5, <2>2
<1>6. ASSUME NEW e \in DOMAIN g[k], at[g[k][e]] = p,
             r = GridWith(u, k, RemoveAt(g[k], e), u.m_nodes - 1)
      PROVE  HoldsOn(gng_dim, r, S \ {n}, at)
  <2>1. g[k][e] = n
    BY <1>1, <1>3, <1>6
  <2> DEFINE m == u.m_nodes - 1
  <2> HIDE DEF m
  <2>2. k \in Box(gng_dim, u.m_dim) /\ e \in DOMAIN u.m_grid[k]
    BY <1>1 DEF B
  <2>3. HoldsOn(gng_dim, GridWith(u, k, RemoveAt(u.m_grid[k], e), m), S \ {u.m_grid[k][e]}, at)
    BY <2>2, EraseHolds
  <2> QED
    BY <1>6, <2>1, <2>3 DEF m
<1> QED
  BY <1>2, <1>5, <1>6 DEF Erased, r

(* insert gives a well-formed grid of the same cells with one node more. *)
LEMMA InsertTyped ==
  ASSUME gng_dim \in Nat \ {0}, NEW u, NEW U, GridOn(gng_dim, u, U),
         NEW p \in Positions, NEW x \in U
  PROVE  /\ GridOn(gng_dim, Insert(u, p, x), U)
         /\ Insert(u, p, x).m_l = u.m_l /\ Insert(u, p, x).m_dim = u.m_dim
         /\ Insert(u, p, x).m_nodes = u.m_nodes + 1
<1> DEFINE k == CellOn(gng_dim, u, p)
           s == Append(u.m_grid[k], x)
           m == u.m_nodes + 1
<1>1. k \in Box(gng_dim, u.m_dim)
  BY Space, CellExists DEF GridOn
<1>2. Insert(u, p, x) = GridWith(u, k, s, m)
  BY InsertIs DEF GridOn
<1>3. u.m_grid[k] \in Seq(U)
  BY <1>1 DEF GridOn
<1>4. s \in Seq(U) /\ Len(s) = Len(u.m_grid[k]) + 1 /\ m = u.m_nodes + 1
  BY <1>3
<1> HIDE DEF k, s, m
<1>5. GridOn(gng_dim, GridWith(u, k, s, m), U)
  BY <1>1, <1>4, GridWithTyped
<1> QED
  BY <1>2, <1>4, <1>5 DEF GridWith

(* insert adds the node to those the grid holds. *)
LEMMA InsertFacts ==
  ASSUME gng_dim \in Nat \ {0}, NEW u, NEW U, GridOn(gng_dim, u, U),
         NEW S, NEW at, HoldsOn(gng_dim, u, S, at), NEW x, x \notin S,
         at[x] \in Positions
  PROVE  HoldsOn(gng_dim, Insert(u, at[x], x), S \cup {x}, at)
<1> DEFINE k == CellOn(gng_dim, u, at[x])
           m == u.m_nodes + 1
<1>1. k \in Box(gng_dim, u.m_dim) /\ k = CellOn(gng_dim, u, at[x])
  BY Space, CellExists DEF GridOn
<1>2. Insert(u, at[x], x) = GridWith(u, k, Append(u.m_grid[k], x), m)
  BY InsertIs DEF GridOn
<1> HIDE DEF m, k
<1>3. HoldsOn(gng_dim, GridWith(u, k, Append(u.m_grid[k], x), m), S \cup {x}, at)
  BY <1>1, InsertHolds
<1> QED
  BY <1>2, <1>3

(* A node that moves keeps its one entry.                                   *)
LEMMA MovedTyped ==
  ASSUME gng_dim \in Nat \ {0}, NEW u, NEW U, GridOn(gng_dim, u, U),
         NEW at \in [U -> Positions], NEW n \in U, NEW to \in Positions
  PROVE  GridOn(gng_dim, Moved(u, n, at, to), U)
<1>1. PICK r : r = Erase(u, at[n], at)
  OBVIOUS
<1>2. GridOn(gng_dim, r, U)
  BY <1>1, EraseTyped
<1>3. GridOn(gng_dim, Insert(r, to, n), U)
  BY <1>2, InsertTyped
<1> QED
  BY <1>1, <1>3 DEF Moved

(* Removing a node and inserting it at its new position leaves it held there. *)
LEMMA MovedFacts ==
  ASSUME gng_dim \in Nat \ {0}, NEW u, NEW U, GridOn(gng_dim, u, U),
         NEW at \in [U -> Positions], NEW n \in U, NEW to \in Positions,
         NEW S \in SUBSET U, HoldsOn(gng_dim, u, S, at),
         \A m \in S \ {n} : at[m] # at[n]
  PROVE  HoldsOn(gng_dim, Moved(u, n, at, to), S \cup {n}, [at EXCEPT ![n] = to])
<1>1. PICK r, new : r = Erase(u, at[n], at) /\ new = [at EXCEPT ![n] = to]
  OBVIOUS
<1>2. GridOn(gng_dim, r, U) /\ HoldsOn(gng_dim, r, S \ {n}, at)
  BY <1>1, EraseTyped, EraseFacts
<1>3. new[n] = to /\ \A m \in S \ {n} : new[m] = at[m]
  BY <1>1
<1>4. HoldsOn(gng_dim, r, S \ {n}, new)
  BY <1>2, <1>3, HoldsElsewhere
<1>5. HoldsOn(gng_dim, Insert(r, new[n], n), (S \ {n}) \cup {n}, new)
  BY <1>2, <1>3, <1>4, InsertFacts
<1>6. (S \ {n}) \cup {n} = S \cup {n}
  OBVIOUS
<1> QED
  BY <1>1, <1>3, <1>5, <1>6 DEF Moved
-----------------------------------------------------------------------------
(* A new grid is empty and its cells cover the box.                         *)
LEMMA CellSideFacts ==
  ASSUME NEW l \in Nat \ {0}, NEW old \in Nat
  PROVE  CellSide(l, old) \in Nat \ {0} /\ Side \div l < CellSide(l, old)
<1>1. Side \in Nat
  BY GridAssumption
<1>2. Side \div l \in Nat
  BY <1>1, Quotient
<1> DEFINE a == old + 1
           b == (Side \div l) + 1
           T == {a, b}
<1>3. a \in Nat \ {0} /\ b \in Nat \ {0}
  BY <1>2
<1> HIDE DEF a, b
<1>4. IsFiniteSet(T) /\ T \subseteq Int /\ T \in (SUBSET T) \ {{}}
  <2>1. T = {a} \cup {b} /\ IsFiniteSet({a})
    BY FS_Singleton
  <2>2. IsFiniteSet({a} \cup {b})
    BY <2>1, FS_AddElement
  <2> QED
    BY <1>3, <2>1, <2>2
<1>5. Max(T) \in T /\ \A y \in T : Max(T) >= y
  <2> HIDE DEF T
  <2> QED
    BY <1>4, MaxOfFinite
<1>6. CellSide(l, old) = Max(T)
  BY DEF CellSide, a, b
<1>7. Max(T) \in Nat \ {0} /\ Max(T) >= b
  BY <1>3, <1>5
<1> QED
  BY <1>2, <1>6, <1>7 DEF b

(* A purged grid is well-formed and holds nothing. *)
LEMMA PurgedFacts ==
  ASSUME gng_dim \in Nat \ {0}, NEW l \in Nat \ {0}, NEW old \in Nat, NEW U
  PROVE  /\ GridOn(gng_dim, Purged(l, old), U)
         /\ \A at : HoldsOn(gng_dim, Purged(l, old), {}, at)
         /\ Purged(l, old).m_l = l /\ Purged(l, old).m_dim = CellSide(l, old)
<1> DEFINE u == Purged(l, old)
           B == Box(gng_dim, CellSide(l, old))
<1>1. u = [m_l |-> l, m_dim |-> CellSide(l, old), m_nodes |-> 0, m_grid |-> [k \in B |-> <<>>]]
  BY Space DEF Purged
<1> HIDE DEF u
<1>2. /\ u.m_l = l /\ u.m_dim = CellSide(l, old) /\ u.m_nodes = 0
      /\ u.m_grid = [k \in B |-> <<>>]
      /\ Shaped(u)
  BY <1>1 DEF Shaped
<1>3. Fits(u)
  BY <1>2, CellSideFacts DEF Fits
<1>4. u.m_grid \in [Box(gng_dim, u.m_dim) -> Seq(U)]
  BY <1>2
<1>5. \A k \in B : DOMAIN u.m_grid[k] = {}
  BY <1>2
<1>6. DOMAIN u.m_grid = B
  BY <1>2
<1> HIDE DEF B
<1>7. Slots(u) = {}
  BY <1>5, <1>6 DEF Slots
<1>8. GridOn(gng_dim, u, U)
  BY <1>2, <1>3, <1>4, <1>7, FS_EmptySet DEF GridOn
<1>9. \A at : HoldsOn(gng_dim, u, {}, at)
  BY <1>2, <1>5 DEF HoldsOn, B
<1> QED
  BY <1>2, <1>8, <1>9 DEF u

(* The grids with the cells of u, and one passage of the loop of InsertAll. *)
Like(u, U) ==
    {v \in [m_l : Nat, m_dim : Nat, m_nodes : Nat,
            m_grid : [Box(gng_dim, u.m_dim) -> Seq(U)]] :
        GridOn(gng_dim, v, U) /\ v.m_l = u.m_l /\ v.m_dim = u.m_dim}

InsertIf(v, x, S, at) == IF x \in S THEN Insert(v, at[x], x) ELSE v

Passes(x, u, S, at, n) ==
    /\ x[0] = u /\ x[n] = InsertAll(u, S, at)
    /\ \A k \in 1 .. n : x[k] = InsertIf(x[k - 1], k - 1, S, at)

(* A pass of the reinsertion gives a grid of the same cells. *)
LEMMA InsertIfTyped ==
  ASSUME gng_dim \in Nat \ {0}, NEW u, NEW U, NEW v \in Like(u, U),
         NEW at \in [U -> Positions], NEW x \in U, NEW S
  PROVE  InsertIf(v, x, S, at) \in Like(u, U)
<1>1. GridOn(gng_dim, v, U) /\ v.m_l = u.m_l /\ v.m_dim = u.m_dim
  BY DEF Like
<1>2. PICK r : r = Insert(v, at[x], x)
  OBVIOUS
<1>3. GridOn(gng_dim, r, U) /\ r.m_l = v.m_l /\ r.m_dim = v.m_dim
  BY <1>1, <1>2, InsertTyped
<1>4. r \in Like(u, U)
  <2>1. /\ r = [m_l |-> r.m_l, m_dim |-> r.m_dim, m_nodes |-> r.m_nodes, m_grid |-> r.m_grid]
        /\ r.m_l \in Nat /\ r.m_dim \in Nat /\ r.m_nodes \in Nat
        /\ r.m_grid \in [Box(gng_dim, u.m_dim) -> Seq(U)]
    BY <1>1, <1>3 DEF GridOn, Shaped, Fits
  <2>2. r \in [m_l : Nat, m_dim : Nat, m_nodes : Nat, m_grid : [Box(gng_dim, u.m_dim) -> Seq(U)]]
    BY <2>1
  <2> QED
    BY <1>1, <1>3, <2>2 DEF Like
<1> QED
  BY <1>2, <1>4 DEF InsertIf

(* The grids between the passes of the reinsertion form a sequence. *)
LEMMA InsertAllPath ==
  ASSUME gng_dim \in Nat \ {0}, NEW u, NEW U, u \in Like(u, U),
         NEW n \in Nat, U = 0 .. n - 1, Cardinality(U) = n,
         NEW at \in [U -> Positions], NEW S
  PROVE  \E x \in [0 .. n -> Like(u, U)] : Passes(x, u, S, at, n)
<1> DEFINE R == Like(u, U)
           D == SUBSET (1 .. n)
           l == [i \in 1 .. n |-> i - 1]
           Body(f) == [V \in D |-> IF V = {} THEN u
                                   ELSE IF l[Max(V)] \in S
                                        THEN Insert(f[V \ {Max(V)}], at[l[Max(V)]], l[Max(V)])
                                        ELSE f[V \ {Max(V)}]]
           it == CHOOSE f : f = Body(f)
           F == [w \in R \X U |-> InsertIf(w[1], w[2], S, at)]
<1>1. l \in [1 .. n -> U] /\ DOMAIN l = 1 .. n /\ DOMAIN at = U
  OBVIOUS
<1>2. F \in [R \X U -> R] /\ \A v \in R, x \in U : F[<<v, x>>] = InsertIf(v, x, S, at)
  <2>1. \A v \in R, x \in U : InsertIf(v, x, S, at) \in R
    BY InsertIfTyped
  <2> HIDE DEF R
  <2> QED
    BY <2>1
<1>3. InsertAll(u, S, at) = it[1 .. n]
  <2>1. l = [i \in 1 .. Cardinality(DOMAIN at) |-> i - 1]
    BY <1>1
  <2>2. InsertAll(u, S, at)
          = FoldLeft(LAMBDA v, x : IF x \in S THEN Insert(v, at[x], x) ELSE v, u, l)
    BY <2>1 DEF InsertAll
  <2> HIDE DEF l
  <2>3. FoldLeft(LAMBDA v, x : IF x \in S THEN Insert(v, at[x], x) ELSE v, u, l)
          = MapThenFoldSet(LAMBDA x, v : IF x \in S THEN Insert(v, at[x], x) ELSE v,
                           u, LAMBDA i : l[i], LAMBDA V : Max(V), 1 .. n)
    BY <1>1 DEF FoldLeft
  <2>4. MapThenFoldSet(LAMBDA x, v : IF x \in S THEN Insert(v, at[x], x) ELSE v,
                       u, LAMBDA i : l[i], LAMBDA V : Max(V), 1 .. n) = it[1 .. n]
    BY DEF MapThenFoldSet
  <2> QED
    BY <2>2, <2>3, <2>4
<1> HIDE DEF F, R
<1>4. \A V \in D \ {{}} : Max(V) \in V /\ Max(V) \in 1 .. n /\ l[Max(V)] \in U
  BY <1>1, MaxIsGreatest
<1>5. \A f : f = Body(f) <=> f = [V \in D |-> IF V = {} THEN u
                                              ELSE InsertIf(f[V \ {Max(V)}], l[Max(V)], S, at)]
  <2> HIDE DEF l, D
  <2> QED
    BY DEF InsertIf
<1> HIDE DEF Body
<1>6. u \in R
  BY DEF R
<1>7. \E f : f = Body(f)
  <2> HIDE DEF l
  <2>1. \E f \in [D -> R] : Tabulates(f, R, n, l, u, F)
    BY <1>1, <1>2, <1>6, FoldLeftTable
  <2>2. PICK f \in [D -> R] : Tabulates(f, R, n, l, u, F)
    BY <2>1
  <2>3. ASSUME NEW V \in D \ {{}} PROVE f[V] = InsertIf(f[V \ {Max(V)}], l[Max(V)], S, at)
    <3>1. f[V \ {Max(V)}] \in R /\ l[Max(V)] \in U
      BY <1>4
    <3> QED
      BY <1>2, <2>2, <3>1 DEF Tabulates
  <2>4. f = Body(f)
    BY <1>5, <2>2, <2>3 DEF Tabulates
  <2> QED
    BY <2>4
<1>8. it = Body(it)
  BY <1>7
<1> HIDE DEF it
<1>9. it = [V \in D |-> IF V = {} THEN u ELSE InsertIf(it[V \ {Max(V)}], l[Max(V)], S, at)]
  BY <1>5, <1>8
<1> HIDE DEF l
<1>10. Tabulates(it, R, n, l, u, F)
  <2>1. it[{}] = u
    BY <1>9
  <2>2. ASSUME NEW V \in D \ {{}}, it[V \ {Max(V)}] \in R
        PROVE  it[V] = F[<<it[V \ {Max(V)}], l[Max(V)]>>]
    <3>1. PICK v \in R : v = it[V \ {Max(V)}]
      BY <2>2
    <3>2. PICK x \in U : x = l[Max(V)]
      BY <1>4
    <3>3. it[V] = InsertIf(v, x, S, at)
      BY <1>9, <3>1, <3>2
    <3> QED
      BY <1>2, <3>1, <3>2, <3>3
  <2> QED
    BY <2>1, <2>2 DEF Tabulates
<1>11. \E x \in [0 .. n -> R] : Accumulates(x, n, l, u, F, it[1 .. n])
  BY <1>1, <1>2, <1>6, <1>10, FoldLeftPath
<1>12. PICK x \in [0 .. n -> R] : Accumulates(x, n, l, u, F, it[1 .. n])
  BY <1>11
<1>13. ASSUME NEW k \in 1 .. n PROVE x[k] = InsertIf(x[k - 1], k - 1, S, at)
  <2>1. k - 1 \in 0 .. n /\ l[k] = k - 1 /\ l[k] \in U
    BY <1>1 DEF l
  <2>2. x[k - 1] \in R /\ x[k] = F[<<x[k - 1], l[k]>>]
    BY <1>12, <2>1 DEF Accumulates
  <2> QED
    BY <1>2, <2>1, <2>2
<1> QED
  BY <1>3, <1>12, <1>13 DEF Accumulates, Passes, R

(* The reinsertion puts exactly the nodes chosen into an empty grid. *)
LEMMA InsertAllFacts ==
  ASSUME gng_dim \in Nat \ {0}, NEW u, NEW U, GridOn(gng_dim, u, U),
         NEW n \in Nat, U = 0 .. n - 1, Cardinality(U) = n,
         NEW at \in [U -> Positions], NEW S \in SUBSET U, HoldsOn(gng_dim, u, {}, at)
  PROVE  /\ GridOn(gng_dim, InsertAll(u, S, at), U)
         /\ HoldsOn(gng_dim, InsertAll(u, S, at), S, at)
         /\ InsertAll(u, S, at).m_l = u.m_l /\ InsertAll(u, S, at).m_dim = u.m_dim
<1>1. u \in Like(u, U)
  <2>1. /\ u = [m_l |-> u.m_l, m_dim |-> u.m_dim, m_nodes |-> u.m_nodes, m_grid |-> u.m_grid]
        /\ u.m_l \in Nat /\ u.m_dim \in Nat /\ u.m_nodes \in Nat
        /\ u.m_grid \in [Box(gng_dim, u.m_dim) -> Seq(U)]
    BY DEF GridOn, Shaped, Fits
  <2>2. u \in [m_l : Nat, m_dim : Nat, m_nodes : Nat, m_grid : [Box(gng_dim, u.m_dim) -> Seq(U)]]
    BY <2>1
  <2> QED
    BY <2>2 DEF Like
<1>2. PICK x \in [0 .. n -> Like(u, U)] : Passes(x, u, S, at, n)
  BY <1>1, InsertAllPath
<1> DEFINE Upon(k) == S \cap (0 .. k - 1)
           Good == {k \in Nat : k <= n => HoldsOn(gng_dim, x[k], Upon(k), at)}
<1>3. 0 \in Good
  <2>1. Upon(0) = {}
    OBVIOUS
  <2> QED
    BY <1>2, <2>1 DEF Passes
<1>4. ASSUME NEW k \in Nat, k \in Good PROVE k + 1 \in Good
  <2>1. SUFFICES ASSUME k + 1 <= n PROVE HoldsOn(gng_dim, x[k + 1], Upon(k + 1), at)
    OBVIOUS
  <2>2. k + 1 \in 1 .. n /\ (k + 1) - 1 = k /\ k <= n /\ k \in 0 .. n /\ k \in U
    BY <2>1
  <2>3. HoldsOn(gng_dim, x[k], Upon(k), at)
    BY <1>4, <2>2
  <2>4. x[k] \in Like(u, U) /\ x[k + 1] = InsertIf(x[k], k, S, at)
    BY <1>2, <2>2 DEF Passes
  <2>5. GridOn(gng_dim, x[k], U)
    BY <2>4 DEF Like
  <2>6. 0 .. (k + 1) - 1 = (0 .. k - 1) \cup {k} /\ k \notin 0 .. k - 1
    OBVIOUS
  <2>7. CASE k \in S
    <3>1. Upon(k + 1) = Upon(k) \cup {k} /\ k \notin Upon(k)
      BY <2>6, <2>7
    <3>2. at[k] \in Positions
      BY <2>2
    <3> HIDE DEF Upon
    <3>3. HoldsOn(gng_dim, Insert(x[k], at[k], k), Upon(k) \cup {k}, at)
      BY <2>3, <2>5, <3>1, <3>2, InsertFacts
    <3> QED
      BY <2>4, <2>7, <3>1, <3>3 DEF InsertIf
  <2>8. CASE k \notin S
    <3>1. Upon(k + 1) = Upon(k)
      BY <2>6, <2>8
    <3> QED
      BY <2>3, <2>4, <2>8, <3>1 DEF InsertIf
  <2> QED
    BY <2>7, <2>8
<1>5. \A k \in Nat : k \in Good
  <2> HIDE DEF Good
  <2> QED
    BY <1>3, <1>4, CountingInduction
<1>6. Upon(n) = S
  OBVIOUS
<1>7. HoldsOn(gng_dim, x[n], S, at)
  <2>1. n \in Good /\ n <= n
    <3> HIDE DEF Good
    <3> QED
      BY <1>5
  <2>2. HoldsOn(gng_dim, x[n], Upon(n), at)
    BY <2>1
  <2> HIDE DEF Upon
  <2> QED
    BY <1>6, <2>2
<1>8. x[n] \in Like(u, U) /\ x[n] = InsertAll(u, S, at)
  BY <1>2 DEF Passes
<1> QED
  BY <1>7, <1>8 DEF Like

(* resizeUniformGrid.                                                       *)
LEMMA GrownFacts ==
  ASSUME gng_dim \in Nat \ {0}, NEW u, NEW U, GridOn(gng_dim, u, U),
         NEW n \in Nat, U = 0 .. n - 1, Cardinality(U) = n,
         NEW at \in [U -> Positions], NEW S \in SUBSET U
  PROVE  /\ GridOn(gng_dim, Grown(u, S, at), U)
         /\ CheckGrow(u) =>
               /\ HoldsOn(gng_dim, Grown(u, S, at), Reinserted(S), at)
               /\ Grown(u, S, at).m_dim = CellSide(NextLength(u), u.m_dim)
         /\ ~CheckGrow(u) => Grown(u, S, at) = u
<1>1. CASE ~CheckGrow(u)
  BY <1>1 DEF Grown
<1>2. CASE CheckGrow(u)
  <2>1. u.m_l \in Nat /\ u.m_dim \in Nat
    BY DEF GridOn, Fits
  <2>2. NextLength(u) \in Nat \ {0}
    <3>1. (2 * u.m_l) \div 3 \in Nat
      BY <2>1
    <3>2. NextLength(u) > 0
      BY <1>2 DEF CheckGrow
    <3> QED
      BY <3>1, <3>2 DEF NextLength
  <2>3. Reinserted(S) \in SUBSET U
    BY DEF Reinserted, Visible
  <2> DEFINE v == Purged(NextLength(u), u.m_dim)
  <2>4. /\ GridOn(gng_dim, v, U) /\ HoldsOn(gng_dim, v, {}, at)
        /\ v.m_dim = CellSide(NextLength(u), u.m_dim)
    BY <2>1, <2>2, PurgedFacts
  <2>5. Grown(u, S, at) = InsertAll(v, Reinserted(S), at)
    BY <1>2 DEF Grown
  <2> HIDE DEF v
  <2>6. /\ GridOn(gng_dim, InsertAll(v, Reinserted(S), at), U)
        /\ HoldsOn(gng_dim, InsertAll(v, Reinserted(S), at), Reinserted(S), at)
        /\ InsertAll(v, Reinserted(S), at).m_dim = v.m_dim
    BY <2>3, <2>4, InsertAllFacts
  <2> QED
    BY <1>2, <2>4, <2>5, <2>6
<1> QED
  BY <1>1, <1>2
-----------------------------------------------------------------------------
(* How many cells there are.                                                *)
Mappings(T, V, m) == IsFiniteSet([T -> V]) /\ Cardinality([T -> V]) = m

(* One more argument multiplies the number of functions by the number of values. *)
LEMMA FunctionsOneMore ==
  ASSUME NEW T, NEW x \in T, NEW V, IsFiniteSet(V), NEW m, Mappings(T \ {x}, V, m)
  PROVE  Mappings(T, V, Cardinality(V) * m)
<1> DEFINE A == [T \ {x} -> V]
           B == [T -> V]
           f == [w \in A \X V |-> [y \in T |-> IF y = x THEN w[2] ELSE w[1][y]]]
<1>0. IsFiniteSet(A) /\ Cardinality(A) = m
  BY DEF Mappings
<1>1. f \in [A \X V -> B]
  OBVIOUS
<1>2. ASSUME NEW w \in A \X V, NEW z \in A \X V, f[w] = f[z] PROVE w = z
  <2>1. PICK a \in A, v \in V : w = <<a, v>>
    OBVIOUS
  <2>2. PICK b \in A, t \in V : z = <<b, t>>
    OBVIOUS
  <2>3. /\ f[w] = [y \in T |-> IF y = x THEN v ELSE a[y]]
        /\ f[z] = [y \in T |-> IF y = x THEN t ELSE b[y]]
    BY <2>1, <2>2
  <2>4. v = f[w][x] /\ t = f[z][x] /\ \A y \in T \ {x} : a[y] = f[w][y] /\ b[y] = f[z][y]
    BY <2>3
  <2> HIDE DEF f
  <2>5. v = t /\ \A y \in T \ {x} : a[y] = b[y]
    BY <1>2, <2>4
  <2> QED
    BY <2>1, <2>2, <2>5
<1>3. ASSUME NEW h \in B PROVE \E w \in A \X V : f[w] = h
  <2> DEFINE a == [y \in T \ {x} |-> h[y]]
  <2>1. a \in A /\ h[x] \in V /\ <<a, h[x]>> \in A \X V
    OBVIOUS
  <2>2. f[<<a, h[x]>>] = [y \in T |-> IF y = x THEN h[x] ELSE a[y]]
    BY <2>1
  <2>3. [y \in T |-> IF y = x THEN h[x] ELSE a[y]] = h
    OBVIOUS
  <2> HIDE DEF a, f
  <2> QED
    BY <2>1, <2>2, <2>3
<1>4. f \in Bijection(A \X V, B)
  <2> DEFINE C == A \X V
  <2> HIDE DEF f, A, B, C
  <2>1. f \in [C -> B] /\ \A w, z \in C : f[w] = f[z] => w = z
    BY <1>1, <1>2 DEF C
  <2>2. \A h \in B : \E w \in C : f[w] = h
    BY <1>3 DEF C
  <2>3. f \in Bijection(C, B)
    BY <2>1, <2>2 DEF Bijection, Injection, IsInjective, Surjection
  <2> QED
    BY <2>3 DEF C
<1>5. ExistsBijection(A \X V, B)
  <2> HIDE DEF f, A, B
  <2> QED
    BY <1>4 DEF ExistsBijection
<1>6. IsFiniteSet(A \X V) /\ Cardinality(A \X V) = Cardinality(A) * Cardinality(V)
  BY <1>0, FS_Product
<1>7. IsFiniteSet(B) /\ Cardinality(B) = Cardinality(A) * Cardinality(V)
  <2> HIDE DEF A, B
  <2> QED
    BY <1>5, <1>6, FS_Bijection
<1>8. Cardinality(A) \in Nat /\ Cardinality(V) \in Nat
  BY <1>0, FS_CardinalityType
<1>9. Cardinality(A) * Cardinality(V) = Cardinality(V) * Cardinality(A)
  BY <1>8
<1> QED
  BY <1>0, <1>7, <1>9 DEF Mappings

Pick(s) == CHOOSE x \in s : TRUE

(* A power counts the functions, hence the cells of a grid. *)
LEMMA PowerCounts ==
  ASSUME NEW e \in Nat, NEW V, IsFiniteSet(V)
  PROVE  /\ IsFiniteSet([1 .. e -> V])
         /\ Cardinality([1 .. e -> V]) = Power(Cardinality(V), e)
         /\ Power(Cardinality(V), e) \in Nat
<1> DEFINE D == 1 .. e
           b == Cardinality(V)
           Body(f) == [s \in SUBSET D |-> IF s = {} THEN 1
                                          ELSE b * f[s \ {Pick(s)}]]
           it == CHOOSE f : f = Body(f)
           ch == [s \in SUBSET D |-> Pick(s)]
           F == [w \in Nat \X D |-> b * w[1]]
<1>1. IsFiniteSet(D)
  BY FS_Interval
<1>2. b \in Nat
  BY FS_CardinalityType
<1> HIDE DEF b
<1>3. F \in [Nat \X D -> Nat] /\ \A v \in Nat, x \in D : F[<<v, x>>] = b * v
  BY <1>2
<1>4. Chooses(D, ch) /\ \A s \in (SUBSET D) \ {{}} : ch[s] = Pick(s) /\ ch[s] \in D
  <2>1. \A s \in (SUBSET D) \ {{}} : Pick(s) \in s
    BY DEF Pick
  <2> QED
    BY <2>1 DEF Chooses
<1>5. Power(b, e) = it[D]
  BY DEF Power, FoldSet, MapThenFoldSet, Pick
<1> HIDE DEF D, ch, F
<1>6. \E f : f = Body(f)
  <2>1. 1 \in Nat
    OBVIOUS
  <2>2. PICK f \in [SUBSET D -> Nat] : FoldsOver(D, f, 1, F, ch)
    BY <1>1, <1>3, <1>4, <2>1, FoldTable
  <2>3. f[{}] = 1 /\ \A s \in (SUBSET D) \ {{}} : f[s] = F[<<f[s \ {ch[s]}], ch[s]>>]
    BY <2>2 DEF FoldsOver
  <2>4. ASSUME NEW s \in (SUBSET D) \ {{}} PROVE f[s] = b * f[s \ {Pick(s)}]
    <3>1. s \ {ch[s]} \in SUBSET D
      OBVIOUS
    <3>2. PICK v \in Nat : v = f[s \ {ch[s]}]
      BY <3>1
    <3>3. ch[s] = Pick(s) /\ ch[s] \in D
      BY <1>4
    <3>4. f[s] = F[<<v, ch[s]>>]
      BY <2>3, <3>2
    <3> QED
      BY <1>3, <3>2, <3>3, <3>4
  <2>5. f = Body(f)
    BY <2>3, <2>4
  <2> QED
    BY <2>5
<1>7. it = Body(it)
  BY <1>6
<1> HIDE DEF it
<1>8. it = [s \in SUBSET D |-> IF s = {} THEN 1 ELSE b * it[s \ {Pick(s)}]]
  BY <1>7
<1>9. Folds(D, Nat, it, 1, F, ch)
  <2>1. it[{}] = 1
    BY <1>8
  <2>2. ASSUME NEW s \in (SUBSET D) \ {{}}, it[s \ {ch[s]}] \in Nat
        PROVE  it[s] = F[<<it[s \ {ch[s]}], ch[s]>>]
    <3>1. ch[s] = Pick(s) /\ ch[s] \in D
      BY <1>4
    <3>2. it[s] = b * it[s \ {Pick(s)}]
      BY <1>8
    <3> QED
      BY <1>3, <2>2, <3>1, <3>2
  <2> QED
    BY <2>1, <2>2 DEF Folds
<1> DEFINE P == {w \in (SUBSET D) \X Nat : Mappings(w[1], V, w[2])}
<1>10. <<{}, 1>> \in P
  <2>1. [{} -> V] = {[y \in {} |-> y]}
    OBVIOUS
  <2>2. PICK z : [{} -> V] = {z}
    BY <2>1
  <2>3. IsFiniteSet({z}) /\ Cardinality({z}) = 1
    BY FS_Singleton
  <2>4. Mappings({}, V, 1)
    BY <2>2, <2>3 DEF Mappings
  <2> QED
    BY <2>4
<1>11. ASSUME NEW T \in SUBSET D, NEW x \in T, NEW v \in Nat, <<T \ {x}, v>> \in P
       PROVE  <<T, F[<<v, x>>]>> \in P
  <2>1. Mappings(T \ {x}, V, v)
    BY <1>11
  <2>2. Mappings(T, V, Cardinality(V) * v)
    BY <2>1, FunctionsOneMore
  <2>3. F[<<v, x>>] = b * v /\ b * v \in Nat
    BY <1>2, <1>3
  <2> QED
    BY <2>2, <2>3 DEF b
<1>12. <<D, it[D]>> \in P
  <2>1. P \in SUBSET ((SUBSET D) \X Nat)
    OBVIOUS
  <2> HIDE DEF P
  <2>2. Keeps(D, Nat, F, P)
    BY <1>11 DEF Keeps
  <2> QED
    BY <1>1, <1>4, <1>9, <1>10, <2>1, <2>2, FoldInduction
<1>13. it[D] \in Nat /\ IsFiniteSet([D -> V]) /\ Cardinality([D -> V]) = it[D]
  BY <1>12 DEF Mappings
<1> QED
  BY <1>5, <1>13 DEF D, b
-----------------------------------------------------------------------------
(* The search.  f is the second best, then the best, of the nodes T, where  *)
(* D[n] is how far n is.                                                    *)
BestTwo(f, T, D) ==
    /\ f[1] \in T \cup {NoNode} /\ f[2] \in T \cup {NoNode}
    /\ f[1] = NoNode \/ f[1] # f[2]
    /\ \A m \in T : f[2] # NoNode /\ D[f[2]] <= D[m]
    /\ \A m \in T \ {f[2]} : f[1] # NoNode /\ D[f[1]] <= D[m]

To(q) == [n \in DOMAIN position |-> Distance(position[n], q)]

Placed ==
    /\ gng_dim \in Nat \ {0} /\ position \in [DOMAIN position -> Positions]
    /\ NoNode \notin DOMAIN position

(* The distance of a node from a position is a number. *)
LEMMA ToFacts ==
  ASSUME Placed, NEW q \in Positions, NEW n \in DOMAIN position
  PROVE  To(q)[n] = Distance(position[n], q) /\ To(q)[n] \in Nat
<1>1. gng_dim \in Nat \ {0} /\ position[n] \in Positions
  BY DEF Placed
<1>2. position[n] \in [Axes -> Int] /\ q \in [Axes -> Int]
  <2>1. position[n] \in [1 .. gng_dim -> 0 .. Side] /\ q \in [1 .. gng_dim -> 0 .. Side]
    BY <1>1, Space
  <2>2. Axes = 1 .. gng_dim /\ 0 .. Side \subseteq Int
    BY <1>1, Space
  <2> QED
    BY <2>1, <2>2
<1>3. Distance(position[n], q) \in Nat
  BY <1>1, <1>2, DistanceFacts
<1> QED
  BY <1>3 DEF To

(* The two comparisons of findNearest with one node, as cases. *)
LEMMA ScanNodeIs ==
  ASSUME NEW n \in DOMAIN position, NEW q, NEW f \in Found
  PROVE  LET near(x) == x = NoNode \/ To(q)[n] <= To(q)[x]
         IN  ScanNode(f, n, q) = IF n = f[2] \/ ~near(f[1]) THEN f
                                 ELSE IF near(f[2]) THEN <<f[2], n>> ELSE <<n, f[2]>>
<1> DEFINE near(x) == x = NoNode \/ To(q)[n] <= To(q)[x]
           nearer(i) == f[i] = NoNode
                        \/ Distance(position[n], q) <= Distance(position[f[i]], q)
<1>1. f[1] \in DOMAIN position \cup {NoNode} /\ f[2] \in DOMAIN position \cup {NoNode}
  BY DEF Found
<1>2. \A x \in DOMAIN position : To(q)[x] = Distance(position[x], q)
  BY DEF To
<1>3. nearer(1) = near(f[1]) /\ nearer(2) = near(f[2])
  BY <1>1, <1>2
<1>4. ScanNode(f, n, q) = CASE n = f[2] \/ ~nearer(1) -> f
                            [] n # f[2] /\ nearer(1) /\ nearer(2) -> <<f[2], n>>
                            [] OTHER -> <<n, f[2]>>
  BY DEF ScanNode
<1>5. nearer(1) \in BOOLEAN /\ nearer(2) \in BOOLEAN
  OBVIOUS
<1> HIDE DEF near, nearer
<1>6. ScanNode(f, n, q) = IF n = f[2] \/ ~near(f[1]) THEN f
                          ELSE IF near(f[2]) THEN <<f[2], n>> ELSE <<n, f[2]>>
  BY <1>3, <1>4, <1>5
<1> QED
  BY <1>6 DEF near

(* Comparing with a node gives two places for found nodes. *)
LEMMA ScanNodeTyped ==
  ASSUME NEW n \in DOMAIN position, NEW q, NEW f \in Found
  PROVE  ScanNode(f, n, q) \in Found
<1>1. PICK v : v = ScanNode(f, n, q)
  OBVIOUS
<1>2. v \in {f, <<f[2], n>>, <<n, f[2]>>}
  BY <1>1, ScanNodeIs
<1>3. f[2] \in DOMAIN position \cup {NoNode}
  BY DEF Found
<1> QED
  BY <1>1, <1>2, <1>3 DEF Found

(* If the two found are the nearest of a set, they are the nearest of the set with one more
   node after comparing with it. *)
LEMMA ScanNodeBest ==
  ASSUME Placed, NEW n \in DOMAIN position, NEW q \in Positions, NEW f \in Found,
         NEW T \in SUBSET DOMAIN position, n \notin T, BestTwo(f, T, To(q))
  PROVE  BestTwo(ScanNode(f, n, q), T \cup {n}, To(q))
<1> DEFINE D == To(q)
           near(x) == x = NoNode \/ D[n] <= D[x]
<1>1. PICK a, b : f = <<a, b>> /\ a = f[1] /\ b = f[2]
  BY DEF Found
<1>2. \A m \in DOMAIN position : D[m] \in Nat
  BY ToFacts
<1>3. PICK v : v = ScanNode(f, n, q)
  OBVIOUS
<1>4. v = IF n = b \/ ~near(a) THEN f ELSE IF near(b) THEN <<b, n>> ELSE <<n, b>>
  BY <1>1, <1>3, ScanNodeIs
<1> HIDE DEF D
<1>5. /\ a \in T \cup {NoNode} /\ b \in T \cup {NoNode}
      /\ a = NoNode \/ a # b
      /\ \A m \in T : b # NoNode /\ D[b] <= D[m]
      /\ \A m \in T \ {b} : a # NoNode /\ D[a] <= D[m]
  BY <1>1 DEF BestTwo, D
<1>6. NoNode \notin DOMAIN position /\ n # NoNode /\ n # a /\ n # b
  BY <1>5 DEF Placed
<1>7. /\ D[n] \in Nat /\ \A m \in T : D[m] \in Nat
      /\ (a # NoNode => a \in T) /\ (b # NoNode => b \in T)
  BY <1>2, <1>5
<1>8. CASE ~near(a)
  <2>1. v[1] = a /\ v[2] = b /\ a # NoNode /\ D[a] < D[n]
    BY <1>1, <1>4, <1>7, <1>8
  <2>2. b # NoNode /\ D[b] <= D[a]
    BY <1>5, <1>7, <2>1
  <2>3. D[b] <= D[n] /\ D[a] <= D[n]
    BY <1>7, <2>1, <2>2
  <2> HIDE DEF near
  <2>4. BestTwo(v, T \cup {n}, D)
    BY <1>5, <1>6, <2>1, <2>2, <2>3 DEF BestTwo
  <2> QED
    BY <1>3, <2>4 DEF D
<1>9. CASE near(a) /\ near(b)
  <2>1. v[1] = b /\ v[2] = n
    BY <1>4, <1>6, <1>9
  <2>2. \A m \in T : D[n] <= D[m]
    BY <1>5, <1>7, <1>9
  <2>3. \A m \in T : b # NoNode /\ D[b] <= D[m]
    BY <1>5
  <2>4. D[n] <= D[n]
    BY <1>7
  <2> HIDE DEF near
  <2>5. BestTwo(v, T \cup {n}, D)
    BY <1>5, <1>6, <2>1, <2>2, <2>3, <2>4 DEF BestTwo
  <2> QED
    BY <1>3, <2>5 DEF D
<1>10. CASE near(a) /\ ~near(b)
  <2>1. v[1] = n /\ v[2] = b /\ b # NoNode /\ D[b] <= D[n]
    BY <1>4, <1>6, <1>7, <1>10
  <2>2. \A m \in T \ {b} : D[n] <= D[m]
    BY <1>5, <1>7, <1>10
  <2>3. D[n] <= D[n]
    BY <1>7
  <2> HIDE DEF near
  <2>4. BestTwo(v, T \cup {n}, D)
    BY <1>5, <1>6, <2>1, <2>2, <2>3 DEF BestTwo
  <2> QED
    BY <1>3, <2>4 DEF D
<1> QED
  BY <1>8, <1>9, <1>10

Scans(x, f, k, q) ==
    /\ x[0] = f /\ x[Len(ug.m_grid[k])] = ScanCell(f, k, q)
    /\ \A i \in 1 .. Len(ug.m_grid[k]) : x[i] = ScanNode(x[i - 1], ug.m_grid[k][i], q)

(* The results between the nodes of a cell form a sequence. *)
LEMMA ScanCellPath ==
  ASSUME NEW k, NEW q, ug.m_grid[k] \in Seq(DOMAIN position), NEW found \in Found
  PROVE  \E x \in [0 .. Len(ug.m_grid[k]) -> Found] : Scans(x, found, k, q)
<1> DEFINE l == ug.m_grid[k]
           n == Len(l)
           U == DOMAIN position
           D == SUBSET (1 .. n)
           Body(f) == [V \in D |-> IF V = {} THEN found
                                   ELSE ScanNode(f[V \ {Max(V)}], l[Max(V)], q)]
           it == CHOOSE f : f = Body(f)
           F == [w \in Found \X U |-> ScanNode(w[1], w[2], q)]
<1>1. n \in Nat /\ l \in [1 .. n -> U] /\ DOMAIN l = 1 .. n
  OBVIOUS
<1>2. F \in [Found \X U -> Found] /\ \A f \in Found, m \in U : F[<<f, m>>] = ScanNode(f, m, q)
  <2>1. \A f \in Found, m \in U : ScanNode(f, m, q) \in Found
    BY ScanNodeTyped
  <2> HIDE DEF U
  <2> QED
    BY <2>1
<1>3. ScanCell(found, k, q) = it[1 .. n]
  <2>1. ScanCell(found, k, q) = FoldLeft(LAMBDA f, m : ScanNode(f, m, q), found, l)
    BY DEF ScanCell
  <2> HIDE DEF l
  <2>2. FoldLeft(LAMBDA f, m : ScanNode(f, m, q), found, l)
          = MapThenFoldSet(LAMBDA m, f : ScanNode(f, m, q), found,
                           LAMBDA i : l[i], LAMBDA V : Max(V), 1 .. n)
    BY <1>1 DEF FoldLeft
  <2>3. MapThenFoldSet(LAMBDA m, f : ScanNode(f, m, q), found,
                       LAMBDA i : l[i], LAMBDA V : Max(V), 1 .. n) = it[1 .. n]
    BY DEF MapThenFoldSet
  <2> QED
    BY <2>1, <2>2, <2>3
<1> HIDE DEF F, U, l, n
<1>4. \A V \in D \ {{}} : Max(V) \in V /\ Max(V) \in 1 .. n /\ l[Max(V)] \in U
  BY <1>1, MaxIsGreatest
<1>5. \E f : f = Body(f)
  <2>1. \E f \in [D -> Found] : Tabulates(f, Found, n, l, found, F)
    BY <1>1, <1>2, FoldLeftTable
  <2>2. PICK f \in [D -> Found] : Tabulates(f, Found, n, l, found, F)
    BY <2>1
  <2>3. ASSUME NEW V \in D \ {{}} PROVE f[V] = ScanNode(f[V \ {Max(V)}], l[Max(V)], q)
    <3>1. f[V \ {Max(V)}] \in Found /\ l[Max(V)] \in U
      BY <1>4
    <3> QED
      BY <1>2, <2>2, <3>1 DEF Tabulates
  <2>4. f = Body(f)
    BY <2>2, <2>3 DEF Tabulates
  <2> QED
    BY <2>4
<1>6. it = Body(it)
  BY <1>5
<1> HIDE DEF it
<1>7. it = [V \in D |-> IF V = {} THEN found ELSE ScanNode(it[V \ {Max(V)}], l[Max(V)], q)]
  BY <1>6
<1> HIDE DEF Body
<1>8. Tabulates(it, Found, n, l, found, F)
  <2>1. it[{}] = found
    BY <1>7
  <2>2. ASSUME NEW V \in D \ {{}}, it[V \ {Max(V)}] \in Found
        PROVE  it[V] = F[<<it[V \ {Max(V)}], l[Max(V)]>>]
    BY <1>2, <1>4, <1>7, <2>2
  <2> QED
    BY <2>1, <2>2 DEF Tabulates
<1>9. \E x \in [0 .. n -> Found] : Accumulates(x, n, l, found, F, it[1 .. n])
  BY <1>1, <1>2, <1>8, FoldLeftPath
<1>10. PICK x \in [0 .. n -> Found] : Accumulates(x, n, l, found, F, it[1 .. n])
  BY <1>9
<1>11. ASSUME NEW i \in 1 .. n PROVE x[i] = ScanNode(x[i - 1], l[i], q)
  <2>1. i - 1 \in 0 .. n /\ l[i] \in U
    BY <1>1
  <2>2. x[i - 1] \in Found /\ x[i] = F[<<x[i - 1], l[i]>>]
    BY <1>10, <2>1 DEF Accumulates
  <2> QED
    BY <1>2, <2>1, <2>2
<1> QED
  BY <1>3, <1>10, <1>11 DEF Accumulates, Scans, l, n

(* Scanning a cell gives two places for found nodes. *)
LEMMA ScanCellTyped ==
  ASSUME NEW k, NEW q, ug.m_grid[k] \in Seq(DOMAIN position), NEW found \in Found
  PROVE  ScanCell(found, k, q) \in Found
<1>1. PICK x \in [0 .. Len(ug.m_grid[k]) -> Found] : Scans(x, found, k, q)
  BY ScanCellPath
<1>2. Len(ug.m_grid[k]) \in 0 .. Len(ug.m_grid[k])
  OBVIOUS
<1> QED
  BY <1>1, <1>2 DEF Scans

(* Scanning a cell extends the set of nodes that the found two are nearest of by the nodes
   of the cell. *)
LEMMA ScanCellBest ==
  ASSUME Placed, NEW k, NEW q \in Positions, ug.m_grid[k] \in Seq(DOMAIN position),
         NEW found \in Found, NEW T \in SUBSET DOMAIN position, BestTwo(found, T, To(q)),
         IsInjective(ug.m_grid[k]), Entries(k) \cap T = {}
  PROVE  BestTwo(ScanCell(found, k, q), T \cup Entries(k), To(q))
<1> DEFINE l == ug.m_grid[k]
           n == Len(l)
           Upon(i) == T \cup {l[j] : j \in 1 .. i}
<1>1. n \in Nat /\ l \in [1 .. n -> DOMAIN position] /\ DOMAIN l = 1 .. n
  OBVIOUS
<1>2. Entries(k) = {l[j] : j \in 1 .. n}
  BY <1>1 DEF Entries, Range
<1>3. \A i, j \in 1 .. n : l[i] = l[j] => i = j
  BY <1>1 DEF IsInjective
<1>4. PICK x \in [0 .. n -> Found] : Scans(x, found, k, q)
  BY ScanCellPath
<1>5. /\ x[0] = found /\ x[n] = ScanCell(found, k, q)
      /\ \A i \in 1 .. n : x[i] = ScanNode(x[i - 1], l[i], q)
  BY <1>4 DEF Scans
<1> HIDE DEF l, n
<1> DEFINE Good == {i \in Nat : i <= n => BestTwo(x[i], Upon(i), To(q))}
<1>6. 0 \in Good
  <2>1. Upon(0) = T
    OBVIOUS
  <2> HIDE DEF Upon
  <2> QED
    BY <1>5, <2>1
<1>7. ASSUME NEW i \in Nat, i \in Good PROVE i + 1 \in Good
  <2>1. SUFFICES ASSUME i + 1 <= n PROVE BestTwo(x[i + 1], Upon(i + 1), To(q))
    OBVIOUS
  <2>2. i + 1 \in 1 .. n /\ (i + 1) - 1 = i /\ i <= n /\ i \in 0 .. n
    BY <1>1, <2>1
  <2>3. BestTwo(x[i], Upon(i), To(q))
    BY <1>7, <2>2
  <2>4. x[i] \in Found /\ x[i + 1] = ScanNode(x[i], l[i + 1], q) /\ l[i + 1] \in DOMAIN position
    BY <1>1, <1>5, <2>2
  <2>5. Upon(i + 1) = Upon(i) \cup {l[i + 1]} /\ Upon(i) \in SUBSET DOMAIN position
    <3>1. 1 .. i + 1 = (1 .. i) \cup {i + 1} /\ 1 .. i \subseteq 1 .. n
      BY <1>1, <2>2
    <3> QED
      BY <1>1, <3>1
  <2>6. l[i + 1] \notin Upon(i)
    <3>1. l[i + 1] \notin T
      BY <1>2, <2>2
    <3>2. \A j \in 1 .. i : j \in 1 .. n /\ j # i + 1
      BY <1>1, <2>2
    <3> QED
      BY <1>3, <2>2, <3>1, <3>2
  <2> HIDE DEF Upon
  <2>7. BestTwo(ScanNode(x[i], l[i + 1], q), Upon(i) \cup {l[i + 1]}, To(q))
    BY <2>3, <2>4, <2>5, <2>6, ScanNodeBest
  <2> QED
    BY <2>4, <2>5, <2>7
<1>8. n \in Good /\ n <= n
  <2> HIDE DEF Good
  <2>1. \A i \in Nat : i \in Good
    BY <1>6, <1>7, CountingInduction
  <2> QED
    BY <1>1, <2>1
<1>9. BestTwo(x[n], Upon(n), To(q))
  BY <1>8
<1> QED
  BY <1>2, <1>5, <1>9
-----------------------------------------------------------------------------
(* The cells at most r away from c on every axis.                           *)
Near(c, r) ==
    {k \in Box(gng_dim, ug.m_dim) : \A i \in 1 .. gng_dim : k[i] \in c[i] - r .. c[i] + r}

(* A ring is what the cells within one radius have beyond those within the radius before. *)
LEMMA RingIs ==
  ASSUME gng_dim \in Nat \ {0}, ug.m_dim \in Nat \ {0},
         NEW c \in Box(gng_dim, ug.m_dim), NEW r \in Nat
  PROVE  Ring(c, r + 1) = Near(c, r + 1) \ Near(c, r)
<1> DEFINE A == 1 .. gng_dim
           B == Box(gng_dim, ug.m_dim)
<1>1. Axes = A /\ Cells(ug.m_dim) = B
  BY Space
<1>2. \A k \in B, i \in A : k[i] \in Int /\ c[i] \in Int
  BY DEF Box
<1>3. ASSUME NEW k \in B
      PROVE  k \in Ring(c, r + 1) <=>
                \E f \in A : /\ k[f] \in {c[f] - (r + 1), c[f] + (r + 1)}
                             /\ \A i \in A \ {f} : k[i] \in c[i] - Reach(f, i, r + 1)
                                                            .. c[i] + Reach(f, i, r + 1)
  BY <1>1 DEF Ring, Plane
<1>4. \A k \in Ring(c, r + 1) : k \in B
  BY <1>1 DEF Ring, Plane
<1>5. \A f, i \in A : Reach(f, i, r + 1) \in Int /\ Reach(f, i, r + 1) = IF i < f THEN r ELSE r + 1
  BY DEF Reach
<1>6. ASSUME NEW k \in B, k \in Ring(c, r + 1) PROVE k \in Near(c, r + 1) \ Near(c, r)
  <2>1. PICK f \in A : /\ k[f] \in {c[f] - (r + 1), c[f] + (r + 1)}
                       /\ \A i \in A \ {f} : k[i] \in c[i] - Reach(f, i, r + 1)
                                                      .. c[i] + Reach(f, i, r + 1)
    BY <1>3, <1>6
  <2>2. ~(k[f] \in c[f] - r .. c[f] + r) /\ k[f] \in c[f] - (r + 1) .. c[f] + (r + 1)
    BY <1>2, <2>1
  <2>3. ASSUME NEW i \in A \ {f} PROVE k[i] \in c[i] - (r + 1) .. c[i] + (r + 1)
    <3>1. PICK t \in Int : t = Reach(f, i, r + 1) /\ t <= r + 1
      BY <1>5
    <3>2. k[i] \in c[i] - t .. c[i] + t
      BY <2>1, <3>1
    <3> QED
      BY <1>2, <3>1, <3>2
  <2> QED
    BY <2>2, <2>3 DEF Near
<1>7. ASSUME NEW k \in B, k \in Near(c, r + 1), k \notin Near(c, r) PROVE k \in Ring(c, r + 1)
  <2> DEFINE W == {i \in A : ~(k[i] \in c[i] - r .. c[i] + r)}
             f == Min(W)
  <2>1. W # {} /\ W \subseteq Int /\ W \subseteq A
    BY <1>7 DEF Near
  <2>2. IsFiniteSet(W)
    <3>1. IsFiniteSet(A)
      BY FS_Interval
    <3> HIDE DEF A, W
    <3> QED
      BY <2>1, <3>1, FS_Subset
  <2>3. f \in W /\ \A i \in W : f <= i
    <3> HIDE DEF W
    <3> QED
      BY <2>1, <2>2, MinOfFinite
  <2>4. f \in A /\ ~(k[f] \in c[f] - r .. c[f] + r) /\ \A i \in A : i < f => k[i] \in c[i] - r .. c[i] + r
    <3>1. ASSUME NEW i \in A, i < f PROVE i \notin W
      <4>1. i \in Int /\ f \in Int
        BY <2>1, <2>3
      <4> HIDE DEF f, W
      <4> QED
        BY <2>3, <3>1, <4>1
    <3> QED
      BY <2>3, <3>1
  <2> HIDE DEF f, W
  <2>5. \A i \in A : k[i] \in c[i] - (r + 1) .. c[i] + (r + 1)
    BY <1>7 DEF Near
  <2>6. k[f] \in {c[f] - (r + 1), c[f] + (r + 1)}
    BY <1>2, <2>4, <2>5
  <2>7. ASSUME NEW i \in A \ {f}
        PROVE  k[i] \in c[i] - Reach(f, i, r + 1) .. c[i] + Reach(f, i, r + 1)
    BY <1>5, <2>4, <2>5
  <2> QED
    BY <1>3, <2>4, <2>6, <2>7
<1>8. \A k \in Near(c, r + 1) : k \in B
  BY DEF Near
<1> QED
  BY <1>4, <1>6, <1>7, <1>8

(* Within radius zero there is one cell, and a further radius only adds cells. *)
LEMMA NearGrows ==
  ASSUME gng_dim \in Nat \ {0}, NEW c \in Box(gng_dim, ug.m_dim), NEW r \in Nat,
         ug.m_dim \in Nat \ {0}
  PROVE  Near(c, 0) = {c} /\ Near(c, r) \subseteq Near(c, r + 1)
<1>1. \A k \in Box(gng_dim, ug.m_dim), i \in 1 .. gng_dim : k[i] \in Int /\ c[i] \in Int
  BY DEF Box
<1>2. ASSUME NEW k \in Box(gng_dim, ug.m_dim),
             \A i \in 1 .. gng_dim : k[i] \in c[i] - 0 .. c[i] + 0
      PROVE  k = c
  <2>1. \A i \in 1 .. gng_dim : k[i] = c[i]
    BY <1>1, <1>2
  <2> QED
    BY <2>1 DEF Box
<1>3. \A i \in 1 .. gng_dim : c[i] \in c[i] - 0 .. c[i] + 0
  BY <1>1
<1>4. Near(c, 0) = {c}
  BY <1>2, <1>3 DEF Near
<1>5. ASSUME NEW k \in Box(gng_dim, ug.m_dim), NEW i \in 1 .. gng_dim,
             k[i] \in c[i] - r .. c[i] + r
      PROVE  k[i] \in c[i] - (r + 1) .. c[i] + (r + 1)
  BY <1>1, <1>5
<1> QED
  BY <1>4, <1>5 DEF Near

(* The rings end where the grid ends.                                       *)
LEMMA RingEnds ==
  ASSUME gng_dim \in Nat \ {0}, ug.m_dim \in Nat \ {0},
         NEW c \in Box(gng_dim, ug.m_dim), NEW r \in Nat
  PROVE  IF Ring(c, r + 1) = {} THEN Near(c, r) = Box(gng_dim, ug.m_dim) ELSE r + 1 < ug.m_dim
<1> DEFINE A == 1 .. gng_dim
           B == Box(gng_dim, ug.m_dim)
<1>1. \A k \in B, i \in A : /\ k[i] \in Int /\ 0 <= k[i] /\ k[i] < ug.m_dim
                            /\ c[i] \in Int /\ 0 <= c[i] /\ c[i] < ug.m_dim
  BY DEF Box
<1>2. ASSUME Ring(c, r + 1) # {} PROVE r + 1 < ug.m_dim
  <2>1. PICK k : k \in Near(c, r + 1) /\ k \notin Near(c, r)
    BY <1>2, RingIs
  <2>2. k \in B
    BY <2>1 DEF Near
  <2>3. PICK i \in A : ~(k[i] \in c[i] - r .. c[i] + r)
    BY <2>1, <2>2 DEF Near
  <2>4. /\ k[i] \in Int /\ 0 <= k[i] /\ k[i] < ug.m_dim
        /\ c[i] \in Int /\ 0 <= c[i] /\ c[i] < ug.m_dim
    BY <1>1, <2>2
  <2> QED
    BY <2>3, <2>4
<1>3. ASSUME Ring(c, r + 1) = {}, NEW k \in B, k \notin Near(c, r) PROVE FALSE
  <2> DEFINE z(i) == IF k[i] > c[i] + r THEN c[i] + (r + 1)
                     ELSE IF k[i] < c[i] - r THEN c[i] - (r + 1) ELSE k[i]
             h == [i \in A |-> z(i)]
  <2>1. ASSUME NEW i \in A
        PROVE  /\ z(i) \in 0 .. ug.m_dim - 1 /\ z(i) \in c[i] - (r + 1) .. c[i] + (r + 1)
               /\ (~(k[i] \in c[i] - r .. c[i] + r) => ~(z(i) \in c[i] - r .. c[i] + r))
    <3>1. /\ k[i] \in Int /\ 0 <= k[i] /\ k[i] < ug.m_dim
          /\ c[i] \in Int /\ 0 <= c[i] /\ c[i] < ug.m_dim
      BY <1>1
    <3>2. PICK a, b : a = k[i] /\ b = c[i]
      OBVIOUS
    <3> QED
      BY <3>1, <3>2
  <2>2. h \in B
    BY <2>1 DEF Box
  <2>3. h \in Near(c, r + 1)
    BY <2>1, <2>2 DEF Near
  <2>4. PICK i \in A : ~(k[i] \in c[i] - r .. c[i] + r)
    BY <1>3 DEF Near
  <2>5. h \notin Near(c, r)
    BY <2>1, <2>4 DEF Near
  <2> QED
    BY <1>3, <2>3, <2>5, RingIs
<1>4. Near(c, r) \subseteq B
  BY DEF Near
<1> QED
  BY <1>2, <1>3, <1>4

(* A distance is no less than on any one axis.                              *)
LEMMA AxisDistance ==
  ASSUME gng_dim \in Nat \ {0}, NEW p \in Positions, NEW q \in Positions,
         NEW i \in 1 .. gng_dim, NEW v \in Nat, v <= (p[i] - q[i]) * (p[i] - q[i])
  PROVE  v <= Distance(p, q)
<1>1. /\ Axes = 1 .. gng_dim /\ Side \in Nat \ {0}
      /\ q \in [1 .. gng_dim -> 0 .. Side] /\ p \in [1 .. gng_dim -> 0 .. Side]
  BY Space
<1>2. q \in [Axes -> Int] /\ p \in [Axes -> Int]
  BY <1>1
<1>3. Distance(p, q) \in Nat /\ (p[i] - q[i]) * (p[i] - q[i]) <= Distance(p, q)
  BY <1>1, <1>2, DistanceFacts
<1>4. p[i] \in Int /\ q[i] \in Int
  BY <1>1
<1>5. PICK z \in Int : z = (p[i] - q[i]) * (p[i] - q[i])
  BY <1>4
<1> QED
  BY <1>3, <1>5

(* The walls of the cell of the query.                                      *)
LEMMA BorderFacts ==
  ASSUME gng_dim \in Nat \ {0}, ug.m_l \in Nat \ {0}, NEW q \in Positions,
         NEW c, c = CellOn(gng_dim, ug, q)
  PROVE  /\ Border(c, q) \in Nat
         /\ \A i \in 1 .. gng_dim : /\ q[i] \in Nat /\ c[i] \in Nat
                                    /\ Border(c, q) <= q[i] - c[i] * ug.m_l
                                    /\ Border(c, q) <= (c[i] + 1) * ug.m_l - q[i]
<1> DEFINE A == 1 .. gng_dim
           l == ug.m_l
           lo(i) == q[i] - c[i] * l
           hi(i) == (c[i] + 1) * l - q[i]
           G == [i \in A |-> {lo(i), hi(i)}]
           W == {G[i] : i \in A}
           V == UNION W
<1>1. Axes = A /\ q \in [A -> 0 .. Side] /\ Side \in Nat
  BY Space
<1>2. ASSUME NEW i \in A PROVE q[i] \in Nat /\ c[i] \in Nat /\ lo(i) \in Nat /\ hi(i) \in Nat
  <2>1. q[i] \in Nat /\ c[i] = q[i] \div l
    BY <1>1 DEF CellOn
  <2>2. c[i] \in Nat /\ c[i] * l <= q[i] /\ q[i] < (c[i] + 1) * l
    BY <2>1, Quotient
  <2>3. c[i] * l \in Int /\ (c[i] + 1) * l \in Int
    BY <2>2
  <2> QED
    BY <2>1, <2>2, <2>3
<1>3. Border(c, q) = Min(V)
  BY <1>1 DEF Border
<1> HIDE DEF lo, hi
<1>4. V \subseteq Int /\ \A i \in A : lo(i) \in V /\ hi(i) \in V
  BY <1>2
<1>5. IsFiniteSet(V)
  <2>1. IsFiniteSet(A)
    BY FS_Interval
  <2>2. G \in Surjection(A, W)
    <3>1. G \in [A -> W]
      OBVIOUS
    <3>2. \A t \in W : \E i \in A : G[i] = t
      OBVIOUS
    <3> HIDE DEF A, G, W
    <3> QED
      BY <3>1, <3>2 DEF Surjection
  <2>3. IsFiniteSet(W)
    <3> HIDE DEF A, G, W
    <3> QED
      BY <2>1, <2>2, FS_Surjection
  <2>4. ASSUME NEW t \in W PROVE IsFiniteSet(t)
    <3>1. PICK x, y : t = {x} \cup {y}
      OBVIOUS
    <3>2. IsFiniteSet({x})
      BY FS_Singleton
    <3> QED
      BY <3>1, <3>2, FS_AddElement
  <2> HIDE DEF W
  <2> QED
    BY <2>3, <2>4, FS_UNION
<1>6. 1 \in A
  OBVIOUS
<1>7. V # {}
  BY <1>4, <1>6
<1> HIDE DEF V
<1>8. Min(V) \in V /\ \A y \in V : Min(V) <= y
  BY <1>4, <1>5, <1>7, MinOfFinite
<1>9. Min(V) \in Nat
  <2>1. \A x \in V : x \in Nat
    BY <1>2 DEF V
  <2> QED
    BY <1>8, <2>1
<1>10. \A i \in A : Min(V) <= lo(i) /\ Min(V) <= hi(i)
  BY <1>4, <1>8
<1> QED
  BY <1>2, <1>3, <1>9, <1>10 DEF lo, hi

(* What is outside the cells searched so far is as far as SearchSuccessful  *)
(* asks.                                                                    *)
LEMMA FarAway ==
  ASSUME gng_dim \in Nat \ {0}, Fits(ug), NEW q \in Positions, NEW p \in Positions,
         NEW c, c = CellOn(gng_dim, ug, q), NEW r \in Nat,
         CellOn(gng_dim, ug, p) \notin Near(c, r), NEW b, b = Border(c, q) + r * ug.m_l
  PROVE  b \in Nat /\ b * b <= Distance(p, q)
<1> DEFINE A == 1 .. gng_dim
           k == CellOn(gng_dim, ug, p)
<1>1. PICK l \in Nat \ {0} : l = ug.m_l
  BY DEF Fits
<1>2. /\ Axes = A /\ Side \in Nat \ {0}
      /\ q \in [A -> 0 .. Side] /\ p \in [A -> 0 .. Side]
  BY Space
<1>3. k \in Box(gng_dim, ug.m_dim)
  BY <1>2, CellExists
<1>4. PICK i \in A : ~(k[i] \in c[i] - r .. c[i] + r)
  BY <1>3 DEF Near
<1>5. PICK y \in Nat : y = p[i]
  BY <1>2
<1>6. PICK j \in Nat : j = k[i] /\ j * l <= y /\ y < (j + 1) * l
  <2>1. k[i] = y \div l
    BY <1>1, <1>5 DEF CellOn
  <2> QED
    BY <2>1, Quotient
<1>7. PICK w \in Nat, x \in Nat, e \in Nat :
         /\ w = Border(c, q) /\ x = q[i] /\ e = c[i]
         /\ w <= x - e * l /\ w <= (e + 1) * l - x
  BY <1>1, BorderFacts
<1>8. PICK s \in Nat : s = r * l
  <2>1. r * l \in Nat
    OBVIOUS
  <2> QED
    BY <2>1
<1>9. b = w + s /\ b \in Nat
  BY <1>1, <1>7, <1>8
<1>10. b * b <= (y - x) * (y - x) => b * b <= Distance(p, q)
  <2>1. PICK v \in Nat : v = b * b
    BY <1>9
  <2>2. (y - x) * (y - x) = (p[i] - q[i]) * (p[i] - q[i])
    BY <1>5, <1>7
  <2>3. v <= (p[i] - q[i]) * (p[i] - q[i]) => v <= Distance(p, q)
    BY AxisDistance
  <2> QED
    BY <2>1, <2>2, <2>3
<1> HIDE DEF k
<1>11. CASE j > e + r
  <2>1. (e + 1 + r) * l <= j * l
    BY <1>11, ProductMonotone
  <2>2. (e + 1 + r) * l = (e + 1) * l + r * l /\ (e + 1) * l \in Int /\ j * l \in Int
    OBVIOUS
  <2>3. b <= y - x /\ y - x \in Nat
    BY <1>6, <1>7, <1>8, <1>9, <2>1, <2>2
  <2>4. b * b <= (y - x) * (y - x)
    BY <1>9, <2>3, SquareMonotone
  <2> QED
    BY <1>9, <1>10, <2>4
<1>12. CASE j < e - r
  <2>1. (j + 1) * l <= (e - r) * l
    BY <1>12, ProductMonotone
  <2>2. (e - r) * l = e * l - r * l /\ (j + 1) * l \in Int /\ e * l \in Int
    OBVIOUS
  <2>3. b <= x - y /\ x - y \in Nat
    BY <1>6, <1>7, <1>8, <1>9, <2>1, <2>2
  <2>4. b * b <= (x - y) * (x - y)
    BY <1>9, <2>3, SquareMonotone
  <2>5. (x - y) * (x - y) = (y - x) * (y - x)
    OBVIOUS
  <2> QED
    BY <1>9, <1>10, <2>4, <2>5
<1>13. j > e + r \/ j < e - r
  BY <1>4, <1>6, <1>7
<1> QED
  BY <1>11, <1>12, <1>13
-----------------------------------------------------------------------------
(* What is in the cells of W, and one ring of the search.                   *)
Over(W) == UNION {Entries(k) : k \in W}

ScanRing(found, ring, q) == FoldSet(LAMBDA k, f : ScanCell(f, k, q), found, ring)

(* A cell of a well-formed grid is a sequence of node numbers. *)
LEMMA CellFacts ==
  ASSUME GridOn(gng_dim, ug, DOMAIN position), NEW k \in Box(gng_dim, ug.m_dim)
  PROVE  /\ ug.m_grid[k] \in Seq(DOMAIN position)
         /\ Entries(k) = {ug.m_grid[k][i] : i \in DOMAIN ug.m_grid[k]}
         /\ Entries(k) \subseteq DOMAIN position
<1>1. ug.m_grid[k] \in Seq(DOMAIN position)
  BY DEF GridOn
<1>2. \A i \in DOMAIN ug.m_grid[k] : ug.m_grid[k][i] \in DOMAIN position
  BY <1>1
<1> QED
  BY <1>1, <1>2 DEF Entries, Range

(* A node is held by the cell of its position only, and once; all cells together hold the
   nodes. *)
LEMMA HeldFacts ==
  ASSUME GridOn(gng_dim, ug, DOMAIN position), NEW S, HoldsOn(gng_dim, ug, S, position)
  PROVE  /\ \A k \in Box(gng_dim, ug.m_dim) :
               /\ IsInjective(ug.m_grid[k])
               /\ \A n \in Entries(k) : CellOn(gng_dim, ug, position[n]) = k
         /\ Over(Box(gng_dim, ug.m_dim)) = S
<1>1. ASSUME NEW k \in Box(gng_dim, ug.m_dim)
      PROVE  /\ IsInjective(ug.m_grid[k])
             /\ \A n \in Entries(k) : n \in S /\ CellOn(gng_dim, ug, position[n]) = k
             /\ \A i \in DOMAIN ug.m_grid[k] : ug.m_grid[k][i] \in Entries(k)
  <2>1. Entries(k) = {ug.m_grid[k][i] : i \in DOMAIN ug.m_grid[k]}
    BY CellFacts
  <2> QED
    BY <2>1 DEF HoldsOn, IsInjective
<1>2. Over(Box(gng_dim, ug.m_dim)) \subseteq S
  BY <1>1 DEF Over
<1>3. ASSUME NEW n \in S PROVE n \in Over(Box(gng_dim, ug.m_dim))
  <2>1. PICK k \in Box(gng_dim, ug.m_dim) : \E i \in DOMAIN ug.m_grid[k] : ug.m_grid[k][i] = n
    BY DEF HoldsOn
  <2>2. n \in Entries(k)
    BY <1>1, <2>1
  <2> QED
    BY <2>2 DEF Over
<1> QED
  BY <1>1, <1>2, <1>3

RingFold(it, ch, F, found, ring, q) ==
    /\ Chooses(ring, ch) /\ Folds(ring, Found, it, found, F, ch)
    /\ it[ring] = ScanRing(found, ring, q)
    /\ \A f \in Found, k \in ring : F[<<f, k>>] = ScanCell(f, k, q)

(* Scanning a ring is a fold over its cells. *)
LEMMA ScanRingFolds ==
  ASSUME NEW q, NEW ring, IsFiniteSet(ring), NEW found \in Found,
         \A k \in ring : ug.m_grid[k] \in Seq(DOMAIN position)
  PROVE  \E it, ch, F : RingFold(it, ch, F, found, ring, q)
<1> DEFINE Body(f) == [s \in SUBSET ring |-> IF s = {} THEN found
                                             ELSE ScanCell(f[s \ {Pick(s)}], Pick(s), q)]
           it == CHOOSE f : f = Body(f)
           ch == [s \in SUBSET ring |-> Pick(s)]
           F == [w \in Found \X ring |-> ScanCell(w[1], w[2], q)]
<1>1. F \in [Found \X ring -> Found] /\ \A f \in Found, k \in ring : F[<<f, k>>] = ScanCell(f, k, q)
  <2>1. \A f \in Found, k \in ring : ScanCell(f, k, q) \in Found
    BY ScanCellTyped
  <2> QED
    BY <2>1
<1>2. Chooses(ring, ch) /\ \A s \in (SUBSET ring) \ {{}} : ch[s] = Pick(s) /\ ch[s] \in ring
  <2>1. \A s \in (SUBSET ring) \ {{}} : Pick(s) \in s
    BY DEF Pick
  <2> QED
    BY <2>1 DEF Chooses
<1>3. ScanRing(found, ring, q) = it[ring]
  BY DEF ScanRing, FoldSet, MapThenFoldSet, Pick
<1> HIDE DEF ch, F
<1>4. \E f : f = Body(f)
  <2>1. PICK f \in [SUBSET ring -> Found] : FoldsOver(ring, f, found, F, ch)
    BY <1>1, <1>2, FoldTable
  <2>2. f[{}] = found /\ \A s \in (SUBSET ring) \ {{}} : f[s] = F[<<f[s \ {ch[s]}], ch[s]>>]
    BY <2>1 DEF FoldsOver
  <2>3. ASSUME NEW s \in (SUBSET ring) \ {{}} PROVE f[s] = ScanCell(f[s \ {Pick(s)}], Pick(s), q)
    <3>1. s \ {ch[s]} \in SUBSET ring
      OBVIOUS
    <3>2. f[s \ {ch[s]}] \in Found
      BY <3>1
    <3> QED
      BY <1>1, <1>2, <2>2, <3>2
  <2>4. f = Body(f)
    BY <2>2, <2>3
  <2> QED
    BY <2>4
<1>5. it = Body(it)
  BY <1>4
<1> HIDE DEF it
<1>6. it = [s \in SUBSET ring |-> IF s = {} THEN found ELSE ScanCell(it[s \ {Pick(s)}], Pick(s), q)]
  BY <1>5
<1>7. Folds(ring, Found, it, found, F, ch)
  <2>1. it[{}] = found
    BY <1>6
  <2>2. ASSUME NEW s \in (SUBSET ring) \ {{}}, it[s \ {ch[s]}] \in Found
        PROVE  it[s] = F[<<it[s \ {ch[s]}], ch[s]>>]
    <3>1. ch[s] = Pick(s) /\ ch[s] \in ring
      BY <1>2
    <3>2. it[s] = ScanCell(it[s \ {Pick(s)}], Pick(s), q)
      BY <1>6
    <3> QED
      BY <1>1, <2>2, <3>1, <3>2
  <2> QED
    BY <2>1, <2>2 DEF Folds
<1>8. RingFold(it, ch, F, found, ring, q)
  BY <1>1, <1>2, <1>3, <1>7 DEF RingFold
<1> QED
  BY <1>8

(* Scanning a ring gives two places for found nodes. *)
LEMMA ScanRingTyped ==
  ASSUME NEW q, NEW ring, IsFiniteSet(ring), NEW found \in Found,
         \A k \in ring : ug.m_grid[k] \in Seq(DOMAIN position)
  PROVE  ScanRing(found, ring, q) \in Found
<1> DEFINE P == (SUBSET ring) \X Found
<1>1. PICK it, ch, F : RingFold(it, ch, F, found, ring, q)
  BY ScanRingFolds
<1>2. \A f \in Found, k \in ring : F[<<f, k>>] \in Found
  BY <1>1, ScanCellTyped DEF RingFold
<1>3. Keeps(ring, Found, F, P)
  BY <1>2 DEF Keeps
<1>4. P \in SUBSET ((SUBSET ring) \X Found) /\ <<{}, found>> \in P
  OBVIOUS
<1>5. Chooses(ring, ch) /\ Folds(ring, Found, it, found, F, ch)
  BY <1>1 DEF RingFold
<1> HIDE DEF P
<1>6. <<ring, it[ring]>> \in P
  BY <1>3, <1>4, <1>5, FoldInduction
<1> QED
  BY <1>1, <1>6 DEF P, RingFold

(* Scanning a ring extends the set of cells whose nodes the found two are nearest of by the
   ring. *)
LEMMA ScanRingBest ==
  ASSUME Placed, GridOn(gng_dim, ug, DOMAIN position),
         NEW S, HoldsOn(gng_dim, ug, S, position), NEW q \in Positions,
         NEW W \in SUBSET Box(gng_dim, ug.m_dim),
         NEW ring \in SUBSET Box(gng_dim, ug.m_dim), W \cap ring = {}, IsFiniteSet(ring),
         NEW found \in Found, BestTwo(found, Over(W), To(q))
  PROVE  BestTwo(ScanRing(found, ring, q), Over(W \cup ring), To(q))
<1> DEFINE P == {w \in (SUBSET ring) \X Found : BestTwo(w[2], Over(W \cup w[1]), To(q))}
           B == Box(gng_dim, ug.m_dim)
<1>1. \A k \in ring : k \in B /\ ug.m_grid[k] \in Seq(DOMAIN position)
  BY CellFacts
<1>2. PICK it, ch, F : RingFold(it, ch, F, found, ring, q)
  BY <1>1, ScanRingFolds
<1>3. ASSUME NEW T \in SUBSET ring, NEW k \in T, NEW f \in Found, <<T \ {k}, f>> \in P
      PROVE  <<T, F[<<f, k>>]>> \in P
  <2> DEFINE X == W \cup (T \ {k})
  <2>1. BestTwo(f, Over(X), To(q))
    BY <1>3
  <2>2. k \in ring /\ F[<<f, k>>] = ScanCell(f, k, q)
    BY <1>2 DEF RingFold
  <2>3. k \notin X /\ X \subseteq B /\ X \cup {k} = W \cup T
    BY <2>2
  <2> HIDE DEF X
  <2>4. /\ IsInjective(ug.m_grid[k])
        /\ \A j \in B : \A n \in Entries(j) : CellOn(gng_dim, ug, position[n]) = j
    BY <1>1, <2>2, HeldFacts
  <2>5. Over(X) \in SUBSET DOMAIN position
    BY <2>3, CellFacts DEF Over
  <2>6. Entries(k) \cap Over(X) = {}
    <3>1. SUFFICES ASSUME NEW n \in Entries(k), NEW j \in X, n \in Entries(j) PROVE FALSE
      BY DEF Over
    <3>2. CellOn(gng_dim, ug, position[n]) = j
      BY <2>3, <2>4, <3>1
    <3>3. CellOn(gng_dim, ug, position[n]) = k
      BY <1>1, <2>2, <2>4
    <3> QED
      BY <2>3, <3>2, <3>3
  <2>7. BestTwo(ScanCell(f, k, q), Over(X) \cup Entries(k), To(q))
    BY <1>1, <2>1, <2>2, <2>4, <2>5, <2>6, ScanCellBest
  <2>8. Over(X) \cup Entries(k) = Over(W \cup T)
    <3>1. Over(X) \cup Entries(k) = Over(X \cup {k})
      BY DEF Over
    <3> QED
      BY <2>3, <3>1
  <2>9. ScanCell(f, k, q) \in Found
    BY <1>1, <2>2, ScanCellTyped
  <2> QED
    BY <2>2, <2>7, <2>8, <2>9
<1>4. Keeps(ring, Found, F, P)
  <2> HIDE DEF P
  <2> QED
    BY <1>3 DEF Keeps
<1>5. P \in SUBSET ((SUBSET ring) \X Found)
  OBVIOUS
<1>6. <<{}, found>> \in P
  <2>1. W \cup {} = W
    OBVIOUS
  <2> QED
    BY <2>1
<1>7. Chooses(ring, ch) /\ Folds(ring, Found, it, found, F, ch)
  BY <1>2 DEF RingFold
<1>8. <<ring, it[ring]>> \in P
  <2> HIDE DEF P
  <2> QED
    BY <1>4, <1>5, <1>6, <1>7, FoldInduction
<1> QED
  BY <1>2, <1>8 DEF RingFold
-----------------------------------------------------------------------------
(* The loop of the search: from which pairs of a ring and a result it goes  *)
(* on, and to which.                                                        *)
Rounds == Nat \X Found

Ends(c, q) ==
    {d \in Rounds : \/ Ring(c, d[1] + 1) = {}
                    \/ SearchSuccessful(d[2], Border(c, q) + d[1] * ug.m_l, q)}

Result == [d \in Rounds |-> d[2]]

NextRound(c, q) == [d \in Rounds |-> <<d[1] + 1, ScanRing(d[2], Ring(c, d[1] + 1), q)>>]

RingsLeft == [d \in Rounds |-> IF d[1] < ug.m_dim THEN ug.m_dim - d[1] ELSE 0]

Searches(f, c, q) ==
    /\ f = [d \in Rounds |-> IF d \in Ends(c, q) THEN Result[d] ELSE f[NextRound(c, q)[d]]]
    /\ FindNearest(q) = LET found == f[<<0, ScanCell(<<NoNode, NoNode>>, c, q)>>]
                        IN  <<found[2], found[1]>>

(* The ring search is a loop that ends: every pass leaves fewer rings. *)
LEMMA SearchFalls ==
  ASSUME gng_dim \in Nat \ {0}, GridOn(gng_dim, ug, DOMAIN position), NEW q \in Positions,
         NEW c, c = CellOn(gng_dim, ug, q)
  PROVE  /\ Falls(Rounds, RingsLeft, Ends(c, q), NextRound(c, q))
         /\ c \in Box(gng_dim, ug.m_dim)
         /\ \A r \in Nat : /\ IsFiniteSet(Ring(c, r + 1))
                           /\ Ring(c, r + 1) \subseteq Box(gng_dim, ug.m_dim)
<1> DEFINE B == Box(gng_dim, ug.m_dim)
<1>1. Fits(ug) /\ ug.m_dim \in Nat \ {0} /\ q \in [1 .. gng_dim -> 0 .. Side] /\ Side \in Nat \ {0}
  BY Space DEF GridOn, Fits
<1>2. c \in B
  BY <1>1, CellExists
<1>3. IsFiniteSet(B)
  <2>1. IsFiniteSet(0 .. ug.m_dim - 1)
    <3>1. ug.m_dim - 1 \in Int /\ 0 \in Int
      BY <1>1
    <3> QED
      BY <3>1, FS_Interval
  <2>2. IsFiniteSet([1 .. gng_dim -> 0 .. ug.m_dim - 1])
    BY <2>1, PowerCounts
  <2> QED
    BY <2>2 DEF Box
<1>4. ASSUME NEW r \in Nat PROVE IsFiniteSet(Ring(c, r + 1)) /\ Ring(c, r + 1) \in SUBSET B
  <2>1. Ring(c, r + 1) \subseteq B
    <3>1. Ring(c, r + 1) = Near(c, r + 1) \ Near(c, r)
      BY <1>1, <1>2, RingIs
    <3> QED
      BY <3>1 DEF Near
  <2> QED
    BY <1>3, <2>1, FS_Subset
<1>5. RingsLeft \in [Rounds -> Nat]
  BY <1>1 DEF RingsLeft, Rounds
<1>6. ASSUME NEW d \in Rounds, d \notin Ends(c, q)
      PROVE  NextRound(c, q)[d] \in Rounds /\ RingsLeft[NextRound(c, q)[d]] < RingsLeft[d]
  <2>1. PICK r \in Nat, f \in Found : d = <<r, f>>
    BY DEF Rounds
  <2>2. Ring(c, r + 1) # {}
    BY <1>6, <2>1 DEF Ends
  <2>3. r + 1 < ug.m_dim
    BY <1>1, <1>2, <2>2, RingEnds
  <2>4. \A k \in Ring(c, r + 1) : ug.m_grid[k] \in Seq(DOMAIN position)
    BY <1>4, CellFacts
  <2>5. ScanRing(f, Ring(c, r + 1), q) \in Found
    BY <1>4, <2>4, ScanRingTyped
  <2>6. NextRound(c, q)[d] = <<r + 1, ScanRing(f, Ring(c, r + 1), q)>>
    BY <2>1 DEF NextRound
  <2>7. NextRound(c, q)[d] \in Rounds
    BY <2>5, <2>6 DEF Rounds
  <2>8. PICK e : e = NextRound(c, q)[d] /\ e \in Rounds /\ e[1] = r + 1
    BY <2>6, <2>7
  <2>9. RingsLeft[e] = ug.m_dim - (r + 1) /\ RingsLeft[d] = ug.m_dim - r
    BY <1>1, <2>1, <2>3, <2>8 DEF RingsLeft
  <2> QED
    BY <1>1, <2>8, <2>9
<1> QED
  BY <1>2, <1>4, <1>5, <1>6 DEF Falls

(* The ring search has the result its loop describes. *)
LEMMA SearchRule ==
  ASSUME gng_dim \in Nat \ {0}, GridOn(gng_dim, ug, DOMAIN position), NEW q \in Positions,
         NEW c, c = CellOn(gng_dim, ug, q)
  PROVE  \E f : Searches(f, c, q)
<1> DEFINE Body(f) == [s \in Nat \X Found |->
                         IF Ring(c, s[1] + 1) = {}
                            \/ SearchSuccessful(s[2], Border(c, q) + s[1] * ug.m_l, q)
                         THEN s[2]
                         ELSE f[<<s[1] + 1, ScanRing(s[2], Ring(c, s[1] + 1), q)>>]]
           Loop(f) == [d \in Rounds |-> IF d \in Ends(c, q) THEN Result[d] ELSE f[NextRound(c, q)[d]]]
           search == CHOOSE f : f = Body(f)
<1>1. c = CalculateCell(ug, q)
  BY Space
<1>2. FindNearest(q) = LET found == search[<<0, ScanCell(<<NoNode, NoNode>>, c, q)>>]
                       IN  <<found[2], found[1]>>
  BY <1>1 DEF FindNearest, ScanRing
<1>3. \A f : Body(f) = Loop(f)
  BY DEF Rounds, Ends, Result, NextRound
<1> HIDE DEF Body
<1>4. \E f : f = Loop(f)
  BY SearchFalls, LoopTable
<1>5. search = Loop(search)
  BY <1>3, <1>4
<1> HIDE DEF search
<1> QED
  BY <1>2, <1>5 DEF Searches

(* findNearest returns two places for found nodes. *)
LEMMA FindTyped ==
  ASSUME gng_dim \in Nat \ {0}, GridOn(gng_dim, ug, DOMAIN position), NEW q \in Positions
  PROVE  \E found \in Found : FindNearest(q) = <<found[2], found[1]>>
<1>1. PICK c : c = CellOn(gng_dim, ug, q)
  OBVIOUS
<1>2. PICK f : Searches(f, c, q)
  BY <1>1, SearchRule
<1>3. Falls(Rounds, RingsLeft, Ends(c, q), NextRound(c, q)) /\ c \in Box(gng_dim, ug.m_dim)
  BY <1>1, SearchFalls
<1>4. /\ \A d \in Rounds \cap Ends(c, q) : Result[d] \in Found
      /\ \A d \in Rounds \ Ends(c, q) : NextRound(c, q)[d] \in Rounds
  BY <1>3 DEF Falls, Rounds, Result
<1>5. f = [d \in Rounds |-> IF d \in Ends(c, q) THEN Result[d] ELSE f[NextRound(c, q)[d]]]
  BY <1>2 DEF Searches
<1>6. \A d \in Rounds : f[d] \in Found
  BY <1>3, <1>4, <1>5, LoopInduction
<1>7. <<NoNode, NoNode>> \in Found
  BY DEF Found
<1>8. ug.m_grid[c] \in Seq(DOMAIN position)
  BY <1>3, CellFacts
<1>9. ScanCell(<<NoNode, NoNode>>, c, q) \in Found
  BY <1>7, <1>8, ScanCellTyped
<1>10. <<0, ScanCell(<<NoNode, NoNode>>, c, q)>> \in Rounds
  BY <1>9 DEF Rounds
<1> QED
  BY <1>2, <1>6, <1>10 DEF Searches

(* When the search stops, the rest of the grid has nothing nearer.          *)
LEMMA StopsRight ==
  ASSUME Placed, GridOn(gng_dim, ug, DOMAIN position),
         NEW S, HoldsOn(gng_dim, ug, S, position), NEW q \in Positions,
         NEW c, c = CellOn(gng_dim, ug, q), NEW r \in Nat, NEW f \in Found,
         <<r, f>> \in Ends(c, q), BestTwo(f, Over(Near(c, r)), To(q))
  PROVE  BestTwo(f, S, To(q))
<1> DEFINE B == Box(gng_dim, ug.m_dim)
           T == Over(Near(c, r))
           D == To(q)
           b == Border(c, q) + r * ug.m_l
<1>1. gng_dim \in Nat \ {0} /\ Fits(ug) /\ ug.m_dim \in Nat \ {0}
  BY DEF Placed, GridOn, Fits
<1>2. c \in B
  BY <1>1, SearchFalls
<1>3. /\ Over(B) = S /\ \A k \in B : \A n \in Entries(k) : CellOn(gng_dim, ug, position[n]) = k
      /\ \A k \in B : Entries(k) \subseteq DOMAIN position
  BY HeldFacts, CellFacts
<1>4. Near(c, r) \subseteq B
  BY DEF Near
<1>5. T \subseteq S /\ S \subseteq DOMAIN position
  BY <1>3, <1>4 DEF Over
<1>6. CASE Ring(c, r + 1) = {}
  <2>1. Near(c, r) = B
    BY <1>1, <1>2, <1>6, RingEnds
  <2> QED
    BY <1>3, <2>1
<1>7. CASE SearchSuccessful(f, b, q)
  <2>1. \A i \in {1, 2} : f[i] # NoNode /\ D[f[i]] <= b * b
    <3>1. \A i \in {1, 2} : f[i] # NoNode /\ f[i] \in DOMAIN position \cup {NoNode}
      BY <1>7 DEF SearchSuccessful, Found
    <3>2. \A i \in {1, 2} : D[f[i]] = Distance(position[f[i]], q)
      BY <3>1, ToFacts
    <3> QED
      BY <1>7, <3>1, <3>2 DEF SearchSuccessful
  <2>2. ASSUME NEW m \in S \ T PROVE D[f[1]] <= D[m] /\ D[f[2]] <= D[m]
    <3>1. PICK k \in B : m \in Entries(k)
      BY <1>3 DEF Over
    <3>2. k = CellOn(gng_dim, ug, position[m]) /\ k \notin Near(c, r)
      BY <1>3, <3>1 DEF Over
    <3>3. position[m] \in Positions
      BY <1>5 DEF Placed
    <3>4. b \in Nat /\ b * b <= Distance(position[m], q)
      <4> HIDE DEF b
      <4>1. b = Border(c, q) + r * ug.m_l
        BY DEF b
      <4> QED
        BY <1>1, <3>2, <3>3, <4>1, FarAway
    <3>5. D[m] = Distance(position[m], q) /\ D[m] \in Nat
      BY <1>5, ToFacts
    <3>6. f[1] \in DOMAIN position /\ f[2] \in DOMAIN position
      BY <2>1 DEF Found
    <3>7. D[f[1]] \in Nat /\ D[f[2]] \in Nat
      BY <3>6, ToFacts
    <3> HIDE DEF b, D
    <3>8. PICK s \in Nat : s = b * b
      BY <3>4
    <3>9. D[f[1]] <= s /\ D[f[2]] <= s
      BY <2>1, <3>8
    <3> QED
      BY <3>4, <3>5, <3>7, <3>8, <3>9
  <2> HIDE DEF T, D, b
  <2>3. BestTwo(f, T, D)
    BY DEF T, D
  <2>4. BestTwo(f, S, D)
    BY <1>5, <2>1, <2>2, <2>3 DEF BestTwo
  <2> QED
    BY <2>4 DEF D
<1> QED
  BY <1>6, <1>7 DEF Ends

(* findNearest returns the two nearest of all the nodes the grid holds. *)
LEMMA FindBest ==
  ASSUME Placed, GridOn(gng_dim, ug, DOMAIN position),
         NEW S, HoldsOn(gng_dim, ug, S, position), NEW q \in Positions
  PROVE  \E found \in Found : /\ FindNearest(q) = <<found[2], found[1]>>
                              /\ BestTwo(found, S, To(q))
<1>1. PICK c : c = CellOn(gng_dim, ug, q)
  OBVIOUS
<1> DEFINE P == {d \in Rounds : BestTwo(d[2], Over(Near(c, d[1])), To(q))}
           Q == {f \in Found : BestTwo(f, S, To(q))}
<1>2. gng_dim \in Nat \ {0} /\ ug.m_dim \in Nat \ {0}
  BY DEF Placed, GridOn, Fits
<1>3. PICK f : Searches(f, c, q)
  BY <1>1, <1>2, SearchRule
<1>4. /\ Falls(Rounds, RingsLeft, Ends(c, q), NextRound(c, q)) /\ c \in Box(gng_dim, ug.m_dim)
      /\ \A r \in Nat : /\ IsFiniteSet(Ring(c, r + 1))
                        /\ Ring(c, r + 1) \subseteq Box(gng_dim, ug.m_dim)
  BY <1>1, <1>2, SearchFalls
<1>5. ASSUME NEW d \in P \cap Ends(c, q) PROVE Result[d] \in Q
  <2>1. PICK r \in Nat, g \in Found : d = <<r, g>>
    BY DEF Rounds
  <2>2. <<r, g>> \in Ends(c, q) /\ BestTwo(g, Over(Near(c, r)), To(q))
    BY <2>1
  <2>3. BestTwo(g, S, To(q))
    BY <1>1, <2>2, StopsRight
  <2> QED
    BY <2>1, <2>3 DEF Result
<1>6. ASSUME NEW d \in P \ Ends(c, q) PROVE NextRound(c, q)[d] \in P
  <2>1. PICK r \in Nat, g \in Found : d = <<r, g>>
    BY DEF Rounds
  <2> DEFINE ring == Ring(c, r + 1)
  <2>2. NextRound(c, q)[d] = <<r + 1, ScanRing(g, ring, q)>>
    BY <2>1 DEF NextRound
  <2>3. NextRound(c, q)[d] \in Rounds
    BY <1>4, <1>6 DEF Falls
  <2>4. ring = Near(c, r + 1) \ Near(c, r) /\ Near(c, r) \subseteq Near(c, r + 1)
    BY <1>2, <1>4, RingIs, NearGrows
  <2>5. /\ Near(c, r) \in SUBSET Box(gng_dim, ug.m_dim)
        /\ ring \in SUBSET Box(gng_dim, ug.m_dim) /\ IsFiniteSet(ring)
    BY <1>4 DEF Near
  <2>6. Near(c, r) \cap ring = {} /\ Near(c, r) \cup ring = Near(c, r + 1)
    BY <2>4
  <2>7. BestTwo(g, Over(Near(c, r)), To(q))
    BY <2>1
  <2> HIDE DEF ring
  <2>8. BestTwo(ScanRing(g, ring, q), Over(Near(c, r) \cup ring), To(q))
    BY <2>5, <2>6, <2>7, ScanRingBest
  <2> QED
    BY <2>2, <2>3, <2>6, <2>8
<1>7. f = [d \in Rounds |-> IF d \in Ends(c, q) THEN Result[d] ELSE f[NextRound(c, q)[d]]]
  BY <1>3 DEF Searches
<1>8. \A d \in P : f[d] \in Q
  <2>1. P \in SUBSET Rounds
    OBVIOUS
  <2> HIDE DEF P, Q
  <2> QED
    BY <1>4, <1>5, <1>6, <1>7, <2>1, LoopInduction
<1>9. PICK start : start = ScanCell(<<NoNode, NoNode>>, c, q)
  OBVIOUS
<1>10. <<NoNode, NoNode>> \in Found /\ BestTwo(<<NoNode, NoNode>>, {}, To(q))
  BY DEF Found, BestTwo
<1>11. ug.m_grid[c] \in Seq(DOMAIN position) /\ IsInjective(ug.m_grid[c])
  BY <1>4, CellFacts, HeldFacts
<1>12. start \in Found /\ BestTwo(start, {} \cup Entries(c), To(q))
  <2>1. start \in Found
    BY <1>9, <1>10, <1>11, ScanCellTyped
  <2>2. {} \in SUBSET DOMAIN position /\ Entries(c) \cap {} = {}
    OBVIOUS
  <2>3. BestTwo(ScanCell(<<NoNode, NoNode>>, c, q), {} \cup Entries(c), To(q))
    BY <1>10, <1>11, <2>2, ScanCellBest
  <2> QED
    BY <1>9, <2>1, <2>3
<1>13. <<0, start>> \in P
  <2>1. {} \cup Entries(c) = Over(Near(c, 0))
    BY <1>2, <1>4, NearGrows DEF Over
  <2> QED
    BY <1>12, <2>1 DEF Rounds
<1>14. f[<<0, start>>] \in Q
  BY <1>8, <1>13
<1> HIDE DEF P
<1> QED
  BY <1>3, <1>9, <1>14 DEF Searches
-----------------------------------------------------------------------------
(* The invariant.  The numbers used so far are the first natural numbers,   *)
(* two nodes are left at least, and an orphan that deleteNode did not see   *)
(* has a number above theirs.                                               *)
Typed ==
    /\ gng_dim \in Dimensions
    /\ live \subseteq Used /\ position \in [Used -> Positions]
    /\ orphans \subseteq live /\ away \subseteq live
    /\ pc \in {"running", "undefined"} /\ spoilt \in BOOLEAN

Numbered == IsFiniteSet(Used) /\ Used = 0 .. Cardinality(Used) - 1

Enough == 2 <= Cardinality(live) /\ \A n \in orphans : n >= 3

IInv == Typed /\ GridOn(gng_dim, ug, Used) /\ Numbered /\ Enough

(* As long as no two nodes meet, the grid holds the nodes of the graph but  *)
(* those known to have left it, and the search finds two of them.           *)
Distinct(S, at) == \A m, n \in S : m # n => at[m] # at[n]

Exact == ~spoilt => HoldsOn(gng_dim, ug, live \ away, position)

Stuck == pc = "undefined" /\ ~spoilt => away # {}

EInv == Distinct(live, position) /\ Exact /\ Stuck

(* Finiteness and positions, from the invariant. *)
LEMMA InvariantFacts ==
  ASSUME IInv
  PROVE  /\ gng_dim \in Nat \ {0} /\ Placed
         /\ Cardinality(Used) \in Nat /\ IsFiniteSet(Used)
         /\ IsFiniteSet(live) /\ Cardinality(live) \in Nat
<1>1. gng_dim \in Nat \ {0}
  BY GridAssumption DEF IInv, Typed
<1>2. IsFiniteSet(Used) /\ Cardinality(Used) \in Nat
  BY FS_CardinalityType DEF IInv, Numbered
<1>3. IsFiniteSet(live) /\ Cardinality(live) \in Nat
  <2>1. live \in SUBSET Used
    BY DEF IInv, Typed
  <2>2. IsFiniteSet(live)
    BY <1>2, <2>1, FS_Subset
  <2> QED
    BY <2>2, FS_CardinalityType
<1>4. Placed
  <2>1. NoNode \notin 0 .. Cardinality(Used) - 1
    BY DEF NoNode
  <2> QED
    BY <1>1, <2>1 DEF Placed, IInv, Typed, Numbered, Used
<1> QED
  BY <1>1, <1>2, <1>3, <1>4

(* Both invariants hold initially. *)
LEMMA InitFacts ==
  ASSUME Init
  PROVE  IInv /\ (~SamePoints => EInv)
<1>1. gng_dim \in Nat \ {0} /\ FirstLength \in Nat \ {0}
  BY GridAssumption DEF Init
<1>2. /\ live = {0, 1} /\ position \in [{0, 1} -> Positions] /\ Used = {0, 1}
      /\ ug = InsertAll(Purged(FirstLength, 0), {0, 1}, position)
      /\ orphans = {} /\ away = {} /\ pc = "running" /\ spoilt = FALSE /\ gng_dim \in Dimensions
  BY DEF Init, Used
<1>3. IsFiniteSet({0, 1}) /\ Cardinality({0, 1}) = 2 /\ {0, 1} = 0 .. 2 - 1
  <2>1. {0, 1} = 0 .. 2 - 1
    OBVIOUS
  <2>2. {0, 1} = 0 .. 1 /\ 0 \in Int /\ 1 \in Int
    OBVIOUS
  <2>3. IsFiniteSet(0 .. 1) /\ Cardinality(0 .. 1) = IF 0 > 1 THEN 0 ELSE 1 - 0 + 1
    BY <2>2, FS_Interval
  <2> QED
    BY <2>1, <2>2, <2>3
<1> DEFINE u == Purged(FirstLength, 0)
<1>4. GridOn(gng_dim, u, {0, 1}) /\ HoldsOn(gng_dim, u, {}, position)
  BY <1>1, PurgedFacts
<1> HIDE DEF u
<1>5. /\ GridOn(gng_dim, InsertAll(u, {0, 1}, position), {0, 1})
      /\ HoldsOn(gng_dim, InsertAll(u, {0, 1}, position), {0, 1}, position)
  <2>1. {0, 1} \in SUBSET {0, 1} /\ 2 \in Nat
    OBVIOUS
  <2> QED
    BY <1>1, <1>2, <1>3, <1>4, <2>1, InsertAllFacts
<1>6. GridOn(gng_dim, ug, Used) /\ HoldsOn(gng_dim, ug, live \ away, position)
  BY <1>2, <1>5 DEF u
<1>7. IInv
  <2>1. Typed
    BY <1>2 DEF Typed
  <2>2. Numbered
    BY <1>2, <1>3 DEF Numbered
  <2>3. Enough
    BY <1>2, <1>3 DEF Enough
  <2> QED
    BY <1>6, <2>1, <2>2, <2>3 DEF IInv
<1>8. ~SamePoints => Distinct(live, position)
  BY <1>2 DEF Init, Distinct
<1> QED
  BY <1>2, <1>6, <1>7, <1>8 DEF EInv, Exact, Stuck

(* What nothing but the history of the grid changes with.                   *)
LEMMA SameSpace ==
  ASSUME gng_dim' = gng_dim
  PROVE  Positions' = Positions
BY DEF Positions, Axes

(* A step that ends with the growth test keeps the grid well-formed, and the nodes it
   holds. *)
LEMMA AfterGrowthFacts ==
  ASSUME gng_dim \in Nat \ {0}, NEW u, NEW S, NEW at, NEW gone, AfterGrowth(u, S, at, gone),
         NEW U, GridOn(gng_dim, u, U), NEW n \in Nat, U = 0 .. n - 1, Cardinality(U) = n,
         at \in [U -> Positions], S \in SUBSET U
  PROVE  /\ live' = S /\ position' = at /\ away' \subseteq S
         /\ GridOn(gng_dim, ug', U)
         /\ HoldsOn(gng_dim, u, S \ gone, at) => HoldsOn(gng_dim, ug', S \ away', at)
<1>1. /\ live' = S /\ position' = at /\ ug' = Grown(u, S, at)
      /\ away' = IF CheckGrow(u) THEN S \ Reinserted(S) ELSE gone \cap S
  BY DEF AfterGrowth
<1>2. /\ GridOn(gng_dim, ug', U)
      /\ CheckGrow(u) => HoldsOn(gng_dim, ug', Reinserted(S), at)
      /\ ~CheckGrow(u) => ug' = u
  BY <1>1, GrownFacts
<1>3. Reinserted(S) \subseteq S
  BY DEF Reinserted, Visible
<1>4. CASE CheckGrow(u)
  <2>1. S \ away' = Reinserted(S)
    BY <1>1, <1>3, <1>4
  <2> QED
    BY <1>1, <1>2, <1>4, <2>1
<1>5. CASE ~CheckGrow(u)
  <2>1. S \ away' = S \ gone
    BY <1>1, <1>5
  <2> QED
    BY <1>1, <1>2, <1>5, <2>1
<1> QED
  BY <1>4, <1>5

(* A round that adds no node keeps the invariants. *)
LEMMA NetworkFullStep ==
  ASSUME IInv, NetworkFull
  PROVE  IInv' /\ (EInv => EInv')
<1>1. /\ gng_dim \in Nat \ {0} /\ Cardinality(Used) \in Nat
  BY InvariantFacts
<1>2. /\ AfterGrowth(ug, live, position, away) /\ pc = "running" /\ pc' = pc
      /\ gng_dim' = gng_dim /\ orphans' = orphans /\ spoilt' = spoilt
  BY DEF NetworkFull
<1>3. /\ Typed /\ GridOn(gng_dim, ug, Used) /\ Numbered /\ Enough
      /\ live \in SUBSET Used /\ position \in [Used -> Positions]
  BY DEF IInv, Typed
<1>4. /\ live' = live /\ position' = position /\ away' \subseteq live
      /\ GridOn(gng_dim, ug', Used)
      /\ HoldsOn(gng_dim, ug, live \ away, position)
            => HoldsOn(gng_dim, ug', live \ away', position)
  BY <1>1, <1>2, <1>3, AfterGrowthFacts DEF Numbered
<1>5. Used' = Used /\ Positions' = Positions
  BY <1>2, <1>4, SameSpace DEF Used
<1>6. Typed' /\ Numbered' /\ Enough'
  BY <1>2, <1>3, <1>4, <1>5 DEF Typed, Numbered, Enough
<1>7. IInv'
  BY <1>2, <1>4, <1>5, <1>6 DEF IInv
<1>8. EInv => EInv'
  BY <1>2, <1>4 DEF EInv, Distinct, Exact, Stuck
<1> QED
  BY <1>7, <1>8

(* A deletion that does not tell the grid keeps the invariants. *)
LEMMA DiscardIsolatedStep ==
  ASSUME IInv, NEW n \in live, DiscardIsolated(n)
  PROVE  IInv' /\ (EInv => EInv')
<1> DEFINE S == live \ {n}
<1>1. /\ gng_dim \in Nat \ {0} /\ Cardinality(Used) \in Nat
      /\ IsFiniteSet(live) /\ Cardinality(live) \in Nat
  BY InvariantFacts
<1>2. /\ AfterGrowth(ug, S, position, away) /\ pc = "running" /\ pc' = pc
      /\ gng_dim' = gng_dim /\ orphans' = orphans \ {n} /\ spoilt' = (spoilt \/ n \notin away)
      /\ n \in orphans /\ n < Cardinality(live)
  BY DEF DiscardIsolated, Visible
<1>3. /\ Typed /\ GridOn(gng_dim, ug, Used) /\ Numbered /\ Enough
      /\ S \in SUBSET Used /\ position \in [Used -> Positions]
  BY DEF IInv, Typed
<1> HIDE DEF S
<1>4. /\ live' = S /\ position' = position /\ away' \subseteq S
      /\ GridOn(gng_dim, ug', Used)
      /\ HoldsOn(gng_dim, ug, S \ away, position)
            => HoldsOn(gng_dim, ug', S \ away', position)
  BY <1>1, <1>2, <1>3, AfterGrowthFacts DEF Numbered
<1>5. Used' = Used /\ Positions' = Positions
  BY <1>2, <1>4, SameSpace DEF Used
<1>6. Cardinality(S) = Cardinality(live) - 1
  BY <1>1, FS_RemoveElement DEF S
<1>7. n \in Nat /\ n >= 3
  <2>1. n \in Used /\ Used = 0 .. Cardinality(Used) - 1
    BY <1>3 DEF Typed, Numbered
  <2> QED
    BY <1>1, <1>2, <1>3, <2>1 DEF Enough
<1>8. 2 <= Cardinality(S)
  BY <1>1, <1>2, <1>6, <1>7
<1>9. Typed' /\ Numbered' /\ Enough'
  <2>1. orphans' \subseteq S
    BY <1>2, <1>3 DEF Typed, S
  <2>2. spoilt' \in BOOLEAN
    BY <1>2
  <2>3. Typed'
    BY <1>2, <1>3, <1>4, <1>5, <2>1, <2>2 DEF Typed
  <2>4. Numbered'
    BY <1>3, <1>5 DEF Numbered
  <2>5. Enough'
    BY <1>2, <1>3, <1>4, <1>8 DEF Enough
  <2> QED
    BY <2>3, <2>4, <2>5
<1>10. IInv'
  BY <1>2, <1>4, <1>5, <1>9 DEF IInv
<1>11. ASSUME EInv PROVE EInv'
  <2>1. Distinct(live', position')
    BY <1>4, <1>11 DEF EInv, Distinct, S
  <2>2. Stuck'
    BY <1>2 DEF Stuck
  <2>3. ASSUME ~spoilt' PROVE HoldsOn(gng_dim', ug', live' \ away', position')
    <3>1. ~spoilt /\ n \in away
      BY <1>2, <2>3
    <3>2. live \ away = S \ away
      BY <3>1 DEF S
    <3>3. HoldsOn(gng_dim, ug, S \ away, position)
      BY <1>11, <3>1, <3>2 DEF EInv, Exact
    <3> QED
      BY <1>2, <1>4, <3>3
  <2> QED
    BY <2>1, <2>2, <2>3 DEF EInv, Exact
<1> QED
  BY <1>10, <1>11

(* The deletion of an orphan from grid and graph keeps the invariants. *)
LEMMA DeleteOrphanStep ==
  ASSUME IInv, NEW n \in live, DeleteOrphan(n)
  PROVE  IInv' /\ (EInv => EInv')
<1>1. /\ gng_dim \in Nat \ {0} /\ Cardinality(Used) \in Nat
      /\ IsFiniteSet(live) /\ Cardinality(live) \in Nat
  BY InvariantFacts
<1>2. /\ ug' = Erase(ug, position[n], position) /\ pc = "running" /\ pc' = pc
      /\ gng_dim' = gng_dim /\ position' = position /\ spoilt' = spoilt
      /\ n \notin orphans /\ Cardinality(live) > 2
      /\ \/ live' = live \ {n} /\ away' = away \ {n} /\ orphans' = orphans
         \/ n \notin Visible(live) /\ live' = live /\ away' = away \cup {n}
            /\ orphans' = orphans \cup {n}
  BY DEF DeleteOrphan, LeftGrid
<1>3. /\ Typed /\ GridOn(gng_dim, ug, Used) /\ Numbered /\ Enough
      /\ live \subseteq Used /\ position \in [Used -> Positions] /\ n \in Used
  BY DEF IInv, Typed
<1>4. GridOn(gng_dim, ug', Used)
  <2>1. position[n] \in Positions
    BY <1>3
  <2> QED
    BY <1>1, <1>2, <1>3, <2>1, EraseTyped
<1>5. Used' = Used /\ Positions' = Positions
  BY <1>2, SameSpace DEF Used
<1>6. live' \ away' = (live \ away) \ {n} /\ live' \subseteq live
  BY <1>2
<1>7. Typed'
  BY <1>2, <1>3, <1>5 DEF Typed
<1>8. Numbered'
  BY <1>3, <1>5 DEF Numbered
<1>9. Enough'
  <2>1. CASE live' = live \ {n} /\ orphans' = orphans
    <3>1. Cardinality(live \ {n}) = Cardinality(live) - 1
      BY <1>1, FS_RemoveElement
    <3>2. 2 <= Cardinality(live \ {n})
      BY <1>1, <1>2, <3>1
    <3> QED
      BY <1>3, <2>1, <3>2 DEF Enough
  <2>2. CASE n \notin Visible(live) /\ live' = live /\ orphans' = orphans \cup {n}
    <3>1. ~(n < Cardinality(live))
      BY <2>2 DEF Visible
    <3>2. n \in Nat
      BY <1>1, <1>3 DEF Numbered
    <3>3. n >= 3
      BY <1>1, <1>2, <3>1, <3>2
    <3> QED
      BY <1>3, <2>2, <3>3 DEF Enough
  <2> QED
    BY <1>2, <2>1, <2>2
<1>10. IInv'
  BY <1>2, <1>4, <1>5, <1>7, <1>8, <1>9 DEF IInv
<1>11. ASSUME EInv PROVE EInv'
  <2>1. Distinct(live', position')
    BY <1>2, <1>6, <1>11 DEF EInv, Distinct
  <2>2. Stuck'
    BY <1>2 DEF Stuck
  <2>3. ASSUME ~spoilt' PROVE HoldsOn(gng_dim', ug', live' \ away', position')
    <3>1. HoldsOn(gng_dim, ug, live \ away, position)
      BY <1>2, <1>11, <2>3 DEF EInv, Exact
    <3>2. \A m \in (live \ away) \ {n} : position[m] # position[n]
      BY <1>11 DEF EInv, Distinct
    <3>3. live \ away \in SUBSET Used
      BY <1>3
    <3>4. HoldsOn(gng_dim, Erase(ug, position[n], position), (live \ away) \ {n}, position)
      BY <1>1, <1>3, <3>1, <3>2, <3>3, EraseFacts
    <3> QED
      BY <1>2, <1>6, <3>4
  <2> QED
    BY <2>1, <2>2, <2>3 DEF EInv, Exact
<1> QED
  BY <1>10, <1>11

(* A set of two has an element besides any given one. *)
LEMMA TwoElements ==
  ASSUME NEW S, IsFiniteSet(S), 2 <= Cardinality(S), NEW x
  PROVE  S \ {x} # {}
<1>1. IsFiniteSet(S \ {x}) /\ Cardinality(S) \in Nat
      /\ Cardinality(S \ {x}) = IF x \in S THEN Cardinality(S) - 1 ELSE Cardinality(S)
  BY FS_RemoveElement, FS_CardinalityType
<1>2. Cardinality(S \ {x}) # 0
  BY <1>1
<1> QED
  BY <1>2, FS_EmptySet

(* A number more for the nodes leaves the grid what it is.                  *)
LEMMA GridWidened ==
  ASSUME NEW d, NEW u, NEW U, GridOn(d, u, U), NEW V, U \subseteq V
  PROVE  GridOn(d, u, V)
<1>1. u.m_grid \in [Box(d, u.m_dim) -> Seq(U)]
  BY DEF GridOn
<1>2. \A s \in Seq(U) : s \in Seq(V)
  OBVIOUS
<1>3. u.m_grid \in [Box(d, u.m_dim) -> Seq(V)]
  BY <1>1, <1>2
<1> QED
  BY <1>3 DEF GridOn

(* What lies between two positions is a position. *)
LEMMA BetweenTyped ==
  ASSUME NEW p, NEW q
  PROVE  Between(p, q) \subseteq Positions
BY DEF Between

(* newNode at p for the number nr, the nodes being at `at' then.            *)
Adds(nr, p, at) ==
    LET U == Used \cup {nr}
    IN  /\ nr \notin live /\ p \in Positions
        /\ IsFiniteSet(U) /\ Cardinality(U) \in Nat /\ U = 0 .. Cardinality(U) - 1
        /\ at \in [U -> Positions]
        /\ at[nr] = p /\ \A n \in Used \ {nr} : at[n] = position[n]
        /\ SamePoints \/ \A n \in live : p # position[n]
        /\ AfterGrowth(Insert(ug, p, nr), live \cup {nr}, at, away)

(* addNewNode adds one node at a position between two nodes. *)
LEMMA AddNewNodeIs ==
  ASSUME IInv, NEW a \in live, NEW b \in live, AddNewNode(a, b)
  PROVE  /\ gng_dim' = gng_dim /\ orphans' = orphans /\ pc' = pc /\ spoilt' = spoilt
         /\ pc = "running"
         /\ \E nr, p, at : Adds(nr, p, at)
<1>1. /\ Cardinality(Used) \in Nat /\ IsFiniteSet(Used)
      /\ Numbered /\ live \subseteq Used /\ position \in [Used -> Positions]
  BY InvariantFacts DEF IInv, Typed
<1>2. PICK nr \in FreeNumbers : \E p \in Between(position[a], position[b]) :
          LET at == [n \in Used \cup {nr} |-> IF n = nr THEN p ELSE position[n]]
          IN  /\ SamePoints \/ \A n \in live : p # position[n]
              /\ AfterGrowth(Insert(ug, p, nr), live \cup {nr}, at, away)
  BY DEF AddNewNode
<1>3. PICK p \in Between(position[a], position[b]) :
          LET at == [n \in Used \cup {nr} |-> IF n = nr THEN p ELSE position[n]]
          IN  /\ SamePoints \/ \A n \in live : p # position[n]
              /\ AfterGrowth(Insert(ug, p, nr), live \cup {nr}, at, away)
  BY <1>2
<1> DEFINE U == Used \cup {nr}
           at == [n \in U |-> IF n = nr THEN p ELSE position[n]]
<1>4. /\ SamePoints \/ \A n \in live : p # position[n]
      /\ AfterGrowth(Insert(ug, p, nr), live \cup {nr}, at, away)
      /\ gng_dim' = gng_dim /\ orphans' = orphans /\ pc' = pc /\ spoilt' = spoilt /\ pc = "running"
  BY <1>3 DEF AddNewNode
<1>5. p \in Positions /\ at \in [U -> Positions]
      /\ at[nr] = p /\ \A n \in Used \ {nr} : at[n] = position[n]
  BY <1>1, BetweenTyped
<1>6. nr \notin live /\ IsFiniteSet(U) /\ Cardinality(U) \in Nat /\ U = 0 .. Cardinality(U) - 1
  <2>1. CASE live = Used
    <3>1. nr = Cardinality(Used)
      BY <2>1 DEF FreeNumbers
    <3>2. Used = 0 .. Cardinality(Used) - 1
      BY <1>1 DEF Numbered
    <3>3. nr \notin Used
      BY <1>1, <3>1, <3>2
    <3>4. IsFiniteSet(U) /\ Cardinality(U) = Cardinality(Used) + 1
      BY <1>1, <3>3, FS_AddElement
    <3>5. U = 0 .. (Cardinality(Used) + 1) - 1
      BY <1>1, <3>1, <3>2
    <3>6. Cardinality(U) \in Nat
      BY <1>1, <3>4
    <3> HIDE DEF U
    <3> QED
      BY <2>1, <3>3, <3>4, <3>5, <3>6
  <2>2. CASE live # Used
    <3>1. nr \in Used \ live
      BY <2>2 DEF FreeNumbers
    <3>2. U = Used
      BY <3>1
    <3> QED
      BY <1>1, <3>1, <3>2 DEF Numbered
  <2> QED
    BY <2>1, <2>2
<1> HIDE DEF at
<1>7. Adds(nr, p, at)
  BY <1>4, <1>5, <1>6 DEF Adds
<1> QED
  BY <1>4, <1>7

(* addNewNode keeps the invariants. *)
LEMMA AddNewNodeStep ==
  ASSUME IInv, NEW a \in live, NEW b \in live, AddNewNode(a, b)
  PROVE  IInv' /\ (~SamePoints /\ EInv => EInv')
<1>1. /\ gng_dim \in Nat \ {0} /\ Cardinality(Used) \in Nat /\ IsFiniteSet(Used)
      /\ IsFiniteSet(live) /\ Cardinality(live) \in Nat
  BY InvariantFacts
<1>2. /\ Typed /\ GridOn(gng_dim, ug, Used) /\ Numbered /\ Enough
      /\ live \subseteq Used /\ position \in [Used -> Positions] /\ away \subseteq live
  BY DEF IInv, Typed
<1>3. PICK nr, p, at : Adds(nr, p, at)
  BY AddNewNodeIs
<1> DEFINE U == Used \cup {nr}
           S == live \cup {nr}
           u == Insert(ug, p, nr)
<1>4. /\ nr \notin live /\ IsFiniteSet(U) /\ Cardinality(U) \in Nat /\ U = 0 .. Cardinality(U) - 1
      /\ SamePoints \/ \A n \in live : p # position[n]
      /\ AfterGrowth(u, S, at, away)
  BY <1>3 DEF Adds
<1>5. /\ gng_dim' = gng_dim /\ orphans' = orphans /\ pc' = pc /\ spoilt' = spoilt /\ pc = "running"
  BY AddNewNodeIs
<1>6. p \in Positions /\ at \in [U -> Positions] /\ S \in SUBSET U /\ DOMAIN at = U
      /\ at[nr] = p /\ \A n \in Used \ {nr} : at[n] = position[n]
  BY <1>2, <1>3 DEF Adds
<1>7. nr \notin live /\ IsFiniteSet(U) /\ Cardinality(U) \in Nat /\ U = 0 .. Cardinality(U) - 1
  BY <1>4
<1>8. GridOn(gng_dim, ug, U)
  BY <1>2, GridWidened
<1>9. nr \in U
  OBVIOUS
<1> HIDE DEF U, S, u
<1>10. GridOn(gng_dim, u, U)
  BY <1>1, <1>6, <1>8, <1>9, InsertTyped DEF u
<1>11. /\ live' = S /\ position' = at /\ away' \subseteq S
       /\ GridOn(gng_dim, ug', U)
       /\ HoldsOn(gng_dim, u, S \ away, at) => HoldsOn(gng_dim, ug', S \ away', at)
  <2>1. PICK n \in Nat : n = Cardinality(U) /\ U = 0 .. n - 1
    BY <1>7
  <2>2. /\ AfterGrowth(u, S, at, away) /\ GridOn(gng_dim, u, U)
        /\ at \in [U -> Positions] /\ S \in SUBSET U
    BY <1>4, <1>6, <1>10
  <2> QED
    BY <1>1, <2>1, <2>2, AfterGrowthFacts
<1>12. Used' = U /\ Positions' = Positions
  BY <1>5, <1>6, <1>11, SameSpace DEF Used
<1>13. Typed'
  <2>1. orphans' \subseteq S
    BY <1>2, <1>5 DEF Typed, S
  <2> QED
    BY <1>2, <1>5, <1>6, <1>11, <1>12, <2>1 DEF Typed
<1>14. Numbered'
  BY <1>7, <1>12 DEF Numbered
<1>15. Enough'
  <2>1. Cardinality(S) = Cardinality(live) + 1
    BY <1>1, <1>7, FS_AddElement DEF S
  <2>2. 2 <= Cardinality(S)
    BY <1>1, <1>2, <2>1 DEF Enough
  <2> QED
    BY <1>2, <1>5, <1>11, <2>2 DEF Enough
<1>16. IInv'
  BY <1>5, <1>11, <1>12, <1>13, <1>14, <1>15 DEF IInv
<1>17. ASSUME ~SamePoints, EInv PROVE EInv'
  <2>1. Distinct(S, at)
    <3>1. \A m \in live : m \in Used \ {nr} /\ at[m] = position[m] /\ p # position[m]
      BY <1>2, <1>4, <1>6, <1>7, <1>17
    <3>2. \A m, n \in live : m # n => position[m] # position[n]
      BY <1>17 DEF EInv, Distinct
    <3> QED
      BY <1>6, <3>1, <3>2 DEF Distinct, S
  <2>2. Stuck'
    BY <1>5 DEF Stuck
  <2>3. ASSUME ~spoilt' PROVE HoldsOn(gng_dim', ug', live' \ away', position')
    <3>1. HoldsOn(gng_dim, ug, live \ away, position)
      BY <1>5, <1>17, <2>3 DEF EInv, Exact
    <3>2. \A n \in live \ away : at[n] = position[n]
      BY <1>2, <1>6, <1>7
    <3>3. HoldsOn(gng_dim, ug, live \ away, at)
      BY <3>1, <3>2, HoldsElsewhere
    <3>4. nr \notin live \ away /\ (live \ away) \cup {nr} = S \ away
      BY <1>2, <1>7 DEF S
    <3>5. at[nr] \in Positions
      BY <1>6
    <3>6. HoldsOn(gng_dim, Insert(ug, at[nr], nr), (live \ away) \cup {nr}, at)
      BY <1>1, <1>8, <3>3, <3>4, <3>5, InsertFacts
    <3>7. HoldsOn(gng_dim, u, S \ away, at)
      BY <1>6, <3>4, <3>6 DEF u
    <3> QED
      BY <1>5, <1>11, <3>7
  <2>4. Distinct(live', position')
    BY <1>11, <2>1
  <2> QED
    BY <2>2, <2>3, <2>4 DEF EInv, Exact
<1> QED
  BY <1>16, <1>17

(* The nodes a search returns.                                              *)
LEMMA TwoOf ==
  ASSUME IInv, ~SamePoints, EInv, ~spoilt, NEW q \in Positions
  PROVE  \E found \in Found : /\ FindNearest(q) = <<found[2], found[1]>>
                              /\ BestTwo(found, live \ away, To(q))
<1>1. Placed /\ GridOn(gng_dim, ug, DOMAIN position)
  BY InvariantFacts DEF IInv, Used
<1>2. HoldsOn(gng_dim, ug, live \ away, position)
  BY DEF EInv, Exact
<1> QED
  BY <1>1, <1>2, FindBest

(* adapt whose search finds no two nodes keeps the invariants. *)
LEMMA AdaptNothingStep ==
  ASSUME IInv, NEW ex \in Positions, AdaptNothing(ex)
  PROVE  IInv' /\ (~SamePoints /\ EInv => EInv')
<1>1. /\ pc' = "undefined" /\ NoNode \in Range(FindNearest(ex))
      /\ gng_dim' = gng_dim /\ live' = live /\ position' = position /\ orphans' = orphans
      /\ ug' = ug /\ away' = away /\ spoilt' = spoilt
  BY DEF AdaptNothing, graphVars
<1>2. Used' = Used /\ Positions' = Positions
  BY <1>1, SameSpace DEF Used
<1>3. IInv'
  BY <1>1, <1>2 DEF IInv, Typed, Numbered, Enough
<1>4. ASSUME ~SamePoints, EInv PROVE EInv'
  <2>1. ASSUME ~spoilt, away = {} PROVE FALSE
    <3>1. PICK found \in Found : /\ FindNearest(ex) = <<found[2], found[1]>>
                                 /\ BestTwo(found, live \ away, To(ex))
      BY <1>4, <2>1, TwoOf
    <3>2. live \ away = live /\ IsFiniteSet(live) /\ 2 <= Cardinality(live)
      BY <2>1, InvariantFacts DEF IInv, Enough
    <3>3. Range(FindNearest(ex)) = {found[1], found[2]}
      <4>1. PICK x, y : found[2] = x /\ found[1] = y
        OBVIOUS
      <4>2. FindNearest(ex) = <<x, y>>
        BY <3>1, <4>1
      <4>3. DOMAIN <<x, y>> = {1, 2} /\ <<x, y>>[1] = x /\ <<x, y>>[2] = y
        OBVIOUS
      <4> QED
        BY <4>1, <4>2, <4>3 DEF Range
    <3>4. PICK m \in live : m # found[2]
      <4>1. live \ {found[2]} # {}
        BY <3>2, TwoElements
      <4> QED
        BY <4>1
    <3>5. found[1] # NoNode /\ found[2] # NoNode
      BY <3>1, <3>2, <3>4 DEF BestTwo
    <3> QED
      BY <1>1, <3>3, <3>5
  <2>2. Stuck'
    BY <1>1, <2>1 DEF Stuck
  <2> QED
    BY <1>1, <1>4, <2>2 DEF EInv, Exact, Distinct
<1> QED
  BY <1>3, <1>4

(* adapt.                                                                   *)
AdaptsAlone(w, p) ==
    /\ Apart(position, [position EXCEPT ![w] = p])
    /\ position' = [position EXCEPT ![w] = p] /\ ug' = Moved(ug, w, position, p)
    /\ away' = away \ {w}

AdaptsWith(w, p, near, to) ==
    /\ near \in live \ {w}
    /\ Apart(position, [[position EXCEPT ![w] = p] EXCEPT ![near] = to])
    /\ position' = [[position EXCEPT ![w] = p] EXCEPT ![near] = to]
    /\ ug' = Moved(Moved(ug, w, position, p), near, [position EXCEPT ![w] = p], to)
    /\ away' = away \ {w, near}

(* adapt moves the nearest node, and one neighbour or none. *)
LEMMA AdaptIs ==
  ASSUME NEW ex, Adapt(ex), NEW w, NEW v, FindNearest(ex) = <<w, v>>
  PROVE  /\ pc = "running" /\ pc' = pc /\ gng_dim' = gng_dim /\ live' = live /\ spoilt' = spoilt
         /\ orphans' = orphans \ {w, v} /\ NoNode \notin {w, v}
         /\ \E p \in Positions : \/ AdaptsAlone(w, p)
                                 \/ \E near, to \in Positions \cup live :
                                       to \in Positions /\ AdaptsWith(w, p, near, to)
<1>1. FindNearest(ex)[1] = w /\ FindNearest(ex)[2] = v
  OBVIOUS
<1>2. /\ pc = "running" /\ pc' = pc /\ gng_dim' = gng_dim /\ live' = live /\ spoilt' = spoilt
      /\ orphans' = orphans \ {w, v} /\ NoNode \notin {w, v}
  BY <1>1 DEF Adapt
<1>3. \E p \in Between(position[w], ex) :
         \/ AdaptsAlone(w, p)
         \/ \E near \in live \ {w} : \E to \in Between(position[near], ex) :
               AdaptsWith(w, p, near, to)
  <2>1. PICK x : x = FindNearest(ex)[1] /\ x = w
    BY <1>1
  <2>2. \E p \in Between(position[x], ex) :
           \/ AdaptsAlone(x, p)
           \/ \E near \in live \ {x} : \E to \in Between(position[near], ex) :
                 AdaptsWith(x, p, near, to)
    BY <2>1, Zenon DEF Adapt, AdaptsAlone, AdaptsWith
  <2> QED
    BY <2>1, <2>2
<1>4. \A near : Between(position[near], ex) \subseteq Positions
  BY BetweenTyped
<1>5. Between(position[w], ex) \subseteq Positions
  BY BetweenTyped
<1> QED
  BY <1>2, <1>3, <1>4, <1>5

(* adapt keeps the invariants. *)
LEMMA AdaptStep ==
  ASSUME IInv, NEW ex \in Positions, Adapt(ex)
  PROVE  IInv' /\ (~SamePoints /\ EInv => EInv')
<1>1. gng_dim \in Nat \ {0}
  BY InvariantFacts
<1>2. /\ Typed /\ GridOn(gng_dim, ug, Used) /\ Numbered /\ Enough
      /\ live \subseteq Used /\ position \in [Used -> Positions] /\ away \subseteq live
  BY DEF IInv, Typed
<1>3. PICK found \in Found : /\ FindNearest(ex) = <<found[2], found[1]>>
                             /\ (~SamePoints /\ EInv /\ ~spoilt
                                    => BestTwo(found, live \ away, To(ex)))
  <2>1. GridOn(gng_dim, ug, DOMAIN position)
    BY <1>2 DEF Used
  <2>2. CASE ~SamePoints /\ EInv /\ ~spoilt
    BY <2>2, TwoOf
  <2>3. CASE ~(~SamePoints /\ EInv /\ ~spoilt)
    BY <1>1, <2>1, <2>3, FindTyped
  <2> QED
    BY <2>2, <2>3
<1>4. PICK w, v : w = found[2] /\ v = found[1]
  OBVIOUS
<1>5. FindNearest(ex) = <<w, v>>
  BY <1>3, <1>4
<1>6. /\ pc = "running" /\ pc' = pc /\ gng_dim' = gng_dim /\ live' = live /\ spoilt' = spoilt
      /\ orphans' = orphans \ {w, v} /\ NoNode \notin {w, v}
      /\ \E p \in Positions : \/ AdaptsAlone(w, p)
                              \/ \E near, to \in Positions \cup live :
                                    to \in Positions /\ AdaptsWith(w, p, near, to)
  BY <1>5, AdaptIs
<1>7. /\ w \in Used
      /\ ~SamePoints /\ EInv /\ ~spoilt => w \in live \ away
  BY <1>3, <1>4, <1>6 DEF Found, Used, BestTwo
<1>8. PICK p \in Positions : \/ AdaptsAlone(w, p)
                             \/ \E near, to \in Positions \cup live :
                                   to \in Positions /\ AdaptsWith(w, p, near, to)
  BY <1>6
<1> DEFINE at == [position EXCEPT ![w] = p]
           u == Moved(ug, w, position, p)
           S == live \ away
<1>9. /\ at \in [Used -> Positions] /\ at[w] = p
      /\ \A n \in Used \ {w} : at[n] = position[n]
  BY <1>2, <1>7
<1>10. GridOn(gng_dim, u, Used)
  BY <1>1, <1>2, <1>7, MovedTyped
<1>11. ASSUME ~SamePoints, EInv, ~spoilt
       PROVE  w \in S /\ HoldsOn(gng_dim, u, S, at)
  <2>1. w \in S /\ S \cup {w} = S /\ S \in SUBSET Used
    BY <1>2, <1>7, <1>11
  <2>2. HoldsOn(gng_dim, ug, S, position)
    BY <1>11 DEF EInv, Exact
  <2>3. \A m \in S \ {w} : position[m] # position[w]
    BY <1>11, <2>1 DEF EInv, Distinct
  <2> HIDE DEF S
  <2>4. HoldsOn(gng_dim, Moved(ug, w, position, p), S \cup {w}, [position EXCEPT ![w] = p])
    BY <1>1, <1>2, <1>7, <2>1, <2>2, <2>3, MovedFacts
  <2> QED
    BY <2>1, <2>4
<1>12. ASSUME \/ AdaptsAlone(w, p)
              \/ \E near, to \in Positions \cup live : AdaptsWith(w, p, near, to),
              position' \in [Used -> Positions], GridOn(gng_dim, ug', Used), away' \subseteq live
       PROVE  IInv'
  <2>1. Used' = Used /\ Positions' = Positions
    BY <1>6, <1>12, SameSpace DEF Used
  <2>2. Typed'
    BY <1>2, <1>6, <1>12, <2>1 DEF Typed
  <2>3. Numbered' /\ Enough'
    BY <1>2, <1>6, <2>1 DEF Numbered, Enough
  <2> QED
    BY <1>6, <1>12, <2>1, <2>2, <2>3 DEF IInv
<1>13. ASSUME ~SamePoints, EInv, Apart(position, position')
       PROVE  Distinct(live', position') /\ Stuck'
  <2>1. Distinct(live', position')
    BY <1>6, <1>13 DEF Apart, Distinct
  <2>2. Stuck'
    BY <1>6 DEF Stuck
  <2> QED
    BY <2>1, <2>2
<1>14. CASE AdaptsAlone(w, p)
  <2>1. Apart(position, position') /\ position' = at /\ ug' = u /\ away' = away \ {w}
    BY <1>14 DEF AdaptsAlone
  <2> HIDE DEF at, u
  <2>2. IInv'
    BY <1>2, <1>9, <1>10, <1>12, <1>14, <2>1
  <2>3. ASSUME ~SamePoints, EInv, ~spoilt' PROVE HoldsOn(gng_dim', ug', live' \ away', position')
    <3>1. w \in S /\ HoldsOn(gng_dim, u, S, at)
      BY <1>6, <1>11, <2>3
    <3>2. live' \ away' = S
      BY <1>6, <2>1, <3>1
    <3> QED
      BY <1>6, <2>1, <3>1, <3>2
  <2> QED
    BY <1>13, <2>1, <2>2, <2>3 DEF EInv, Exact
<1>15. CASE \E near, to \in Positions \cup live : to \in Positions /\ AdaptsWith(w, p, near, to)
  <2>1. PICK near, to \in Positions \cup live : to \in Positions /\ AdaptsWith(w, p, near, to)
    BY <1>15
  <2> DEFINE to2 == [at EXCEPT ![near] = to]
             v2 == Moved(u, near, at, to)
  <2>2. /\ near \in live \ {w} /\ near \in Used
        /\ Apart(position, position') /\ position' = to2 /\ ug' = v2 /\ away' = away \ {w, near}
    BY <1>2, <2>1 DEF AdaptsWith
  <2>3. to2 \in [Used -> Positions] /\ to2[near] = to /\ to2[w] = p
    BY <1>7, <1>9, <2>1, <2>2
  <2> HIDE DEF at, u
  <2>4. GridOn(gng_dim, v2, Used)
    BY <1>1, <1>9, <1>10, <2>1, <2>2, MovedTyped
  <2>5. IInv'
    <3>1. position' \in [Used -> Positions] /\ GridOn(gng_dim, ug', Used) /\ away' \subseteq live
      BY <1>2, <2>2, <2>3, <2>4
    <3>2. \E n, t \in Positions \cup live : AdaptsWith(w, p, n, t)
      BY <2>1
    <3> QED
      BY <1>12, <3>1, <3>2
  <2>6. ASSUME ~SamePoints, EInv, ~spoilt' PROVE HoldsOn(gng_dim', ug', live' \ away', position')
    <3>1. w \in S /\ HoldsOn(gng_dim, u, S, at) /\ S \in SUBSET Used
      BY <1>2, <1>6, <1>11, <2>6
    <3>2. p # position[near]
      <4>1. w \in live /\ near \in live /\ near # w
        BY <3>1, <2>2
      <4>2. position'[w] \notin {position'[near], position[near]}
        BY <2>2, <2>6, <4>1 DEF Apart
      <4> HIDE DEF to2
      <4> QED
        BY <2>2, <2>3, <4>2
    <3>3. ASSUME NEW m \in S \ {near} PROVE at[m] # at[near]
      <4>1. at[near] = position[near] /\ m \in Used /\ m \in live
        BY <1>2, <1>9, <2>2, <3>1
      <4>2. CASE m = w
        BY <1>9, <3>2, <4>1, <4>2
      <4>3. CASE m # w
        <5>1. at[m] = position[m]
          BY <1>9, <4>1, <4>3
        <5>2. position[m] # position[near]
          BY <2>2, <2>6, <3>3, <4>1 DEF EInv, Distinct
        <5> QED
          BY <4>1, <5>1, <5>2
      <4> QED
        BY <4>2, <4>3
    <3>4. S \cup {near} = live' \ away'
      BY <1>6, <2>2, <3>1
    <3> HIDE DEF S
    <3>5. HoldsOn(gng_dim, Moved(u, near, at, to), S \cup {near}, [at EXCEPT ![near] = to])
      BY <1>1, <1>9, <1>10, <2>1, <2>2, <3>1, <3>3, MovedFacts
    <3> QED
      BY <1>6, <2>2, <3>4, <3>5
  <2> QED
    BY <1>13, <2>2, <2>5, <2>6 DEF EInv, Exact
<1> QED
  BY <1>8, <1>14, <1>15
-----------------------------------------------------------------------------
(* Init and the steps of Next keep the invariant.                           *)
Inv == IInv /\ (~SamePoints => EInv)

(* Every step keeps the invariant. *)
LEMMA InvStep ==
  ASSUME Inv, [Next]_vars
  PROVE  Inv'
<1>1. CASE UNCHANGED vars
  <2>1. /\ gng_dim' = gng_dim /\ live' = live /\ position' = position /\ orphans' = orphans
        /\ ug' = ug /\ pc' = pc /\ away' = away /\ spoilt' = spoilt
    BY <1>1 DEF vars, graphVars
  <2>2. Used' = Used /\ Positions' = Positions
    BY <2>1, SameSpace DEF Used
  <2>3. IInv'
    BY <2>1, <2>2 DEF Inv, IInv, Typed, Numbered, Enough
  <2>4. EInv => EInv'
    BY <2>1 DEF EInv, Exact, Stuck, Distinct
  <2> QED
    BY <2>3, <2>4 DEF Inv
<1>2. ASSUME NEW ex \in Positions, Adapt(ex) PROVE Inv'
  BY <1>2, AdaptStep DEF Inv
<1>3. ASSUME NEW ex \in Positions, AdaptNothing(ex) PROVE Inv'
  BY <1>3, AdaptNothingStep DEF Inv
<1>4. ASSUME NEW n \in live, DeleteOrphan(n) PROVE Inv'
  BY <1>4, DeleteOrphanStep DEF Inv
<1>5. ASSUME NEW n \in live, DiscardIsolated(n) PROVE Inv'
  BY <1>5, DiscardIsolatedStep DEF Inv
<1>6. ASSUME NEW a \in live, NEW b \in live, AddNewNode(a, b) PROVE Inv'
  BY <1>6, AddNewNodeStep DEF Inv
<1>7. CASE NetworkFull
  BY <1>7, NetworkFullStep DEF Inv
<1>8. CASE Stopped
  BY <1>1, <1>8 DEF Stopped
<1> QED
  BY <1>1, <1>2, <1>3, <1>4, <1>5, <1>6, <1>7, <1>8 DEF Next

(* The grid is well formed always: every number used has its entries in     *)
(* cells of the grid, which m_nodes counts.                                 *)
THEOREM GridInvariant == Spec => []Inv
<1>1. Init => Inv
  BY InitFacts DEF Inv
<1>2. Inv /\ [Next]_vars => Inv'
  BY InvStep
<1> QED
  BY <1>1, <1>2, PTL DEF Spec

(* The types follow from the invariant. *)
LEMMA TypeHolds ==
  ASSUME IInv
  PROVE  TypeOK
<1>1. gng_dim \in Nat \ {0} /\ Typed /\ GridOn(gng_dim, ug, Used)
  BY InvariantFacts DEF IInv
<1>2. /\ ug.m_l \in Nat \ {0} /\ ug.m_dim \in Nat \ {0} /\ ug.m_nodes \in Nat
      /\ ug.m_grid \in [Cells(ug.m_dim) -> Seq(Used)]
  BY <1>1, Space DEF GridOn, Fits
<1> QED
  BY <1>1, <1>2 DEF TypeOK, Typed

(* Whether or not nodes meet, every variable keeps its type.                *)
THEOREM GridTypes == Spec => []TypeOK
<1>1. Inv => TypeOK
  BY TypeHolds DEF Inv
<1> QED
  BY <1>1, GridInvariant, PTL

(* m_nodes counts the numbers in the grid when each has one entry.          *)
LEMMA SlotsCount ==
  ASSUME GridOn(gng_dim, ug, DOMAIN position), NEW S, HoldsOn(gng_dim, ug, S, position)
  PROVE  IsFiniteSet(S) /\ Cardinality(S) = ug.m_nodes
<1> DEFINE B == Box(gng_dim, ug.m_dim)
           T == Slots(ug)
           f == [s \in T |-> ug.m_grid[s[1]][s[2]]]
<1>1. IsFiniteSet(T) /\ Cardinality(T) = ug.m_nodes /\ DOMAIN ug.m_grid = B
      /\ \A k \in B : DOMAIN ug.m_grid[k] \subseteq Nat
  <2>1. \A k \in B : ug.m_grid[k] \in Seq(DOMAIN position)
    BY CellFacts
  <2>2. \A k \in B : DOMAIN ug.m_grid[k] = 1 .. Len(ug.m_grid[k])
    BY <2>1
  <2> QED
    BY <2>2 DEF GridOn
<1>2. \A s \in T : /\ s = <<s[1], s[2]>> /\ s[1] \in B
                   /\ s[2] \in DOMAIN ug.m_grid[s[1]]
                   /\ f[s] = ug.m_grid[s[1]][s[2]]
  BY <1>1 DEF Slots
<1>3. \A k \in B : \A i \in DOMAIN ug.m_grid[k] : <<k, i>> \in T /\ f[<<k, i>>] = ug.m_grid[k][i]
  BY <1>1 DEF Slots
<1>4. f \in [T -> S]
  <2>1. \A s \in T : f[s] \in S
    BY <1>2 DEF HoldsOn
  <2> QED
    BY <2>1
<1> HIDE DEF f, T
<1>5. ASSUME NEW s \in T, NEW t \in T, f[s] = f[t] PROVE s = t
  <2>1. s[1] = CellOn(gng_dim, ug, position[f[s]]) /\ t[1] = CellOn(gng_dim, ug, position[f[t]])
    BY <1>2 DEF HoldsOn
  <2>2. s[1] = t[1]
    BY <1>5, <2>1
  <2>3. s[2] = t[2]
    BY <1>2, <1>5, <2>2 DEF HoldsOn
  <2> QED
    BY <1>2, <2>2, <2>3
<1>6. ASSUME NEW n \in S PROVE \E s \in T : f[s] = n
  <2>1. PICK k \in B : \E i \in DOMAIN ug.m_grid[k] : ug.m_grid[k][i] = n
    BY DEF HoldsOn
  <2>2. PICK i \in DOMAIN ug.m_grid[k] : ug.m_grid[k][i] = n
    BY <2>1
  <2> HIDE DEF B
  <2> QED
    BY <1>3, <2>2
<1>7. ExistsBijection(T, S)
  <2>1. f \in Bijection(T, S)
    BY <1>4, <1>5, <1>6 DEF Bijection, Injection, IsInjective, Surjection
  <2> QED
    BY <2>1 DEF ExistsBijection
<1> QED
  BY <1>1, <1>7, FS_Bijection

(* GridExact: if no two nodes meet, every entry is in the one cell its node *)
(* is over, and the grid holds the nodes of the graph but those that were   *)
(* hidden from existsNode when they were orphaned or the grid was rebuilt.  *)
THEOREM GridHolds ==
  ASSUME ~SamePoints
  PROVE  Spec => []GridExact
<1>1. ASSUME Inv PROVE GridExact
  <2>1. IInv /\ EInv /\ TypeOK
    BY <1>1, TypeHolds DEF Inv
  <2>2. SUFFICES ASSUME ~spoilt
                 PROVE  /\ Indexed = live \ away
                        /\ \A k \in Cells(ug.m_dim) :
                              /\ IsInjective(ug.m_grid[k])
                              /\ \A n \in Entries(k) : CalculateCell(ug, position[n]) = k
                        /\ ug.m_nodes = Cardinality(Indexed)
    BY <2>1 DEF GridExact
  <2>3. /\ HoldsOn(gng_dim, ug, live \ away, position)
        /\ GridOn(gng_dim, ug, DOMAIN position)
        /\ gng_dim \in Nat \ {0}
    BY <2>1, <2>2, InvariantFacts DEF EInv, Exact, IInv, Used
  <2>4. /\ \A k \in Box(gng_dim, ug.m_dim) :
               /\ IsInjective(ug.m_grid[k])
               /\ \A n \in Entries(k) : CellOn(gng_dim, ug, position[n]) = k
        /\ Over(Box(gng_dim, ug.m_dim)) = live \ away
    BY <2>3, HeldFacts
  <2>5. Cells(ug.m_dim) = Box(gng_dim, ug.m_dim)
        /\ \A p : CalculateCell(ug, p) = CellOn(gng_dim, ug, p)
    BY <2>3, Space
  <2>6. Indexed = live \ away
    BY <2>4, <2>5 DEF Indexed, Over
  <2>7. ug.m_nodes = Cardinality(live \ away)
    BY <2>3, SlotsCount
  <2> QED
    BY <2>4, <2>5, <2>6, <2>7
<1>2. Inv => GridExact
  BY <1>1
<1> QED
  BY <1>2, GridInvariant, PTL

(* NearestExact: if no two nodes meet, the ring search may stop when it     *)
(* stops: it returns a nearest node and a nearest of the others.            *)
THEOREM NearestFound ==
  ASSUME ~SamePoints
  PROVE  Spec => []NearestExact
<1>1. ASSUME Inv PROVE NearestExact
  <2>1. IInv /\ EInv
    BY <1>1 DEF Inv
  <2>2. SUFFICES ASSUME ~spoilt, Cardinality(Indexed) >= 2, NEW q \in Positions
                 PROVE  /\ NearestOf(FindNearest(q)[1], Indexed, q)
                        /\ NearestOf(FindNearest(q)[2], Indexed \ {FindNearest(q)[1]}, q)
    BY DEF NearestExact
  <2>3. PICK found \in Found : /\ FindNearest(q) = <<found[2], found[1]>>
                               /\ BestTwo(found, live \ away, To(q))
    BY <2>1, <2>2, TwoOf
  <2>4. /\ HoldsOn(gng_dim, ug, live \ away, position)
        /\ GridOn(gng_dim, ug, DOMAIN position)
        /\ gng_dim \in Nat \ {0} /\ Placed
    BY <2>1, <2>2, InvariantFacts DEF EInv, Exact, IInv, Used
  <2>5. Indexed = live \ away /\ IsFiniteSet(live \ away) /\ Indexed \subseteq DOMAIN position
    <3>1. Over(Box(gng_dim, ug.m_dim)) = live \ away
      BY <2>4, HeldFacts
    <3>2. Indexed = live \ away
      BY <2>4, <3>1, Space DEF Indexed, Over
    <3>3. live \ away \subseteq DOMAIN position
      BY <2>1 DEF IInv, Typed, Used
    <3> QED
      BY <2>4, <3>2, <3>3, SlotsCount
  <2> DEFINE S == Indexed
             D == To(q)
  <2>6. PICK a, b : a = found[1] /\ b = found[2] /\ FindNearest(q)[1] = b /\ FindNearest(q)[2] = a
    BY <2>3
  <2>7. \A m \in S : D[m] = Distance(position[m], q)
    BY <2>4, <2>5, ToFacts
  <2>8. BestTwo(found, S, D)
    BY <2>3, <2>5
  <2> HIDE DEF S, D
  <2>9. S \ {b} # {} /\ S # {}
    BY <2>2, <2>5, TwoElements DEF S
  <2>10. /\ b \in S /\ \A m \in S : D[b] <= D[m]
         /\ a \in S \ {b} /\ \A m \in S \ {b} : D[a] <= D[m]
    BY <2>6, <2>8, <2>9 DEF BestTwo
  <2>11. /\ \A m \in S : Distance(position[b], q) <= Distance(position[m], q)
         /\ \A m \in S \ {b} : Distance(position[a], q) <= Distance(position[m], q)
    BY <2>7, <2>10
  <2> QED
    BY <2>6, <2>10, <2>11 DEF NearestOf, S
<1>2. Inv => NearestExact
  BY <1>1
<1> QED
  BY <1>2, GridInvariant, PTL

(* TwoFound: if no two nodes meet, adapt is given two nodes as long as no   *)
(* hidden node was orphaned or left out of a rebuilt grid.                  *)
THEOREM TwoAlwaysFound ==
  ASSUME ~SamePoints
  PROVE  Spec => []TwoFound
<1>1. Inv => TwoFound
  BY DEF Inv, EInv, Stuck, TwoFound
<1> QED
  BY <1>1, GridInvariant, PTL

(* When a step makes the cells smaller, the nodes in the graph are indexed and were too
   many for the cells. *)
LEMMA GrowthFacts ==
  ASSUME gng_dim \in Nat \ {0}, NEW u, NEW S, NEW at, NEW gone, AfterGrowth(u, S, at, gone),
         NEW U, GridOn(gng_dim, u, U), NEW n \in Nat, U = 0 .. n - 1, Cardinality(U) = n,
         at \in [U -> Positions], S \in SUBSET U, gng_dim' = gng_dim, ug'.m_l # u.m_l
  PROVE  /\ Visible(live') \subseteq Indexed'
         /\ Cardinality(Cells(ug'.m_dim)) \in Nat
         /\ 10 * u.m_nodes > 4 * Cardinality(Cells(ug'.m_dim))
<1>1. live' = S /\ ug' = Grown(u, S, at)
  BY DEF AfterGrowth
<1>2. /\ CheckGrow(u) /\ GridOn(gng_dim, ug', U)
      /\ HoldsOn(gng_dim, ug', Reinserted(S), at)
      /\ ug'.m_dim = CellSide(NextLength(u), u.m_dim)
  BY <1>1, GrownFacts
<1> DEFINE B == Box(gng_dim, ug'.m_dim)
<1>3. ASSUME NEW x \in Reinserted(S) PROVE \E k \in B : x \in Range(ug'.m_grid[k])
  <2>1. PICK k \in B : \E i \in DOMAIN ug'.m_grid[k] : ug'.m_grid[k][i] = x
    BY <1>2 DEF HoldsOn
  <2> HIDE DEF B
  <2> QED
    BY <2>1 DEF Range
<1>4. Cells(ug'.m_dim) = B /\ Axes = 1 .. gng_dim
  BY Space
<1>5. Cells(ug.m_dim)' = B
  BY <1>4 DEF Cells, Axes, Box
<1>6. Indexed' = UNION {Range(ug'.m_grid[k]) : k \in B}
  BY <1>5 DEF Indexed, Entries
<1>7. Visible(live') \subseteq Indexed'
  <2> HIDE DEF B
  <2> QED
    BY <1>1, <1>3, <1>6 DEF Reinserted
<1>8. PICK m \in Nat \ {0} : m = ug'.m_dim
  BY <1>2 DEF GridOn, Fits
<1>9. Cardinality(B) = Power(m, gng_dim) /\ Power(m, gng_dim) \in Nat
  <2>1. 0 \in Int /\ m - 1 \in Int
    OBVIOUS
  <2>2. /\ IsFiniteSet(0 .. m - 1)
        /\ Cardinality(0 .. m - 1) = IF 0 > m - 1 THEN 0 ELSE (m - 1) - 0 + 1
    BY <2>1, FS_Interval
  <2>3. Cardinality(0 .. m - 1) = m
    BY <2>2
  <2>4. /\ Cardinality([1 .. gng_dim -> 0 .. m - 1]) = Power(Cardinality(0 .. m - 1), gng_dim)
        /\ Power(Cardinality(0 .. m - 1), gng_dim) \in Nat
    BY <2>2, PowerCounts
  <2> QED
    BY <1>8, <2>3, <2>4 DEF Box
<1>10. 10 * u.m_nodes > 4 * Power(m, gng_dim)
  BY <1>2, <1>8 DEF CheckGrow
<1> QED
  BY <1>4, <1>7, <1>9, <1>10

(* The cell length of a grid that is not rebuilt.                           *)
LEMMA MovedKeepsLength ==
  ASSUME gng_dim \in Nat \ {0}, NEW u, NEW U, GridOn(gng_dim, u, U),
         NEW at \in [U -> Positions], NEW n \in U, NEW to \in Positions
  PROVE  Moved(u, n, at, to).m_l = u.m_l
<1>1. at[n] \in Positions
  OBVIOUS
<1>2. PICK v : v = Erase(u, at[n], at)
  OBVIOUS
<1>3. GridOn(gng_dim, v, U) /\ v.m_l = u.m_l
  BY <1>1, <1>2, EraseTyped
<1>4. Insert(v, to, n).m_l = v.m_l
  BY <1>3, InsertTyped
<1> QED
  BY <1>2, <1>3, <1>4 DEF Moved

Grows ==
    ug'.m_l # ug.m_l =>
        /\ Visible(live') \subseteq Indexed'
        /\ 10 * ug.m_nodes + 10 > 4 * Cardinality(Cells(ug'.m_dim))

(* A step that ends with the growth test grows the grid only for enough nodes, and loses
   none that is visible. *)
LEMMA GrowsWith ==
  ASSUME IInv, gng_dim' = gng_dim, NEW S, NEW at, NEW gone, NEW u, AfterGrowth(u, S, at, gone),
         u.m_l = ug.m_l, u.m_nodes = ug.m_nodes \/ u.m_nodes = ug.m_nodes + 1,
         NEW U, GridOn(gng_dim, u, U), NEW n \in Nat, U = 0 .. n - 1, Cardinality(U) = n,
         at \in [U -> Positions], S \in SUBSET U
  PROVE  Grows
<1>1. SUFFICES ASSUME ug'.m_l # ug.m_l
               PROVE  /\ Visible(live') \subseteq Indexed'
                      /\ 10 * ug.m_nodes + 10 > 4 * Cardinality(Cells(ug'.m_dim))
  BY DEF Grows
<1>2. gng_dim \in Nat \ {0} /\ ug'.m_l # u.m_l
  BY <1>1, InvariantFacts
<1>3. /\ Visible(live') \subseteq Indexed'
      /\ Cardinality(Cells(ug'.m_dim)) \in Nat
      /\ 10 * u.m_nodes > 4 * Cardinality(Cells(ug'.m_dim))
  BY <1>2, GrowthFacts
<1>4. ug.m_nodes \in Nat
  BY DEF IInv, GridOn
<1>5. PICK c \in Nat : c = Cardinality(Cells(ug'.m_dim))
  BY <1>3
<1>6. u.m_nodes \in Nat /\ 10 * u.m_nodes <= 10 * ug.m_nodes + 10
  BY <1>4
<1>7. 10 * ug.m_nodes + 10 > 4 * c
  BY <1>3, <1>4, <1>5, <1>6
<1> QED
  BY <1>3, <1>5, <1>7

(* GrowthKeepsNodes, nodes that meet or not: making the grid finer loses no *)
(* node that existsNode shows, and happens only if it leaves more than 0.4  *)
(* nodes to a cell.                                                         *)
THEOREM GrowthSafe == Spec => GrowthKeepsNodes
<1>1. ASSUME Inv, [Next]_vars PROVE Grows
  <2>1. IInv /\ gng_dim \in Nat \ {0}
    BY <1>1, InvariantFacts DEF Inv
  <2>2. /\ GridOn(gng_dim, ug, Used) /\ live \subseteq Used /\ position \in [Used -> Positions]
    BY <2>1 DEF IInv, Typed
  <2>3. PICK n \in Nat : n = Cardinality(Used) /\ Used = 0 .. n - 1
    BY <2>1, InvariantFacts DEF IInv, Numbered
  <2>4. ASSUME NEW S \in SUBSET Used, NEW gone, AfterGrowth(ug, S, position, gone), gng_dim' = gng_dim
        PROVE  Grows
    BY <2>1, <2>2, <2>3, <2>4, GrowsWith
  <2>5. ASSUME ug'.m_l = ug.m_l PROVE Grows
    BY <2>5 DEF Grows
  <2>6. CASE UNCHANGED vars
    BY <2>5, <2>6 DEF vars, graphVars
  <2>7. ASSUME NEW ex \in Positions, Adapt(ex) PROVE Grows
    <3>1. PICK found \in Found : FindNearest(ex) = <<found[2], found[1]>>
      BY <2>1, <2>2, FindTyped DEF Used
    <3>2. PICK w, v : w = found[2] /\ v = found[1] /\ FindNearest(ex) = <<w, v>>
      BY <3>1
    <3>3. /\ NoNode \notin {w, v}
          /\ \E p \in Positions : \/ AdaptsAlone(w, p)
                                  \/ \E near, to \in Positions \cup live :
                                        to \in Positions /\ AdaptsWith(w, p, near, to)
      BY <2>7, <3>2, AdaptIs
    <3>4. w \in Used
      BY <3>2, <3>3 DEF Found, Used
    <3>5. PICK p \in Positions : \/ AdaptsAlone(w, p)
                                 \/ \E near, to \in Positions \cup live :
                                       to \in Positions /\ AdaptsWith(w, p, near, to)
      BY <3>3
    <3>6. PICK u : u = Moved(ug, w, position, p)
      OBVIOUS
    <3>7. u.m_l = ug.m_l /\ GridOn(gng_dim, u, Used)
      BY <2>1, <2>2, <3>4, <3>6, MovedKeepsLength, MovedTyped
    <3>8. CASE AdaptsAlone(w, p)
      BY <2>5, <3>6, <3>7, <3>8 DEF AdaptsAlone
    <3>9. ASSUME NEW near, NEW to \in Positions, AdaptsWith(w, p, near, to) PROVE Grows
      <4>1. PICK at : at = [position EXCEPT ![w] = p]
        OBVIOUS
      <4>2. at \in [Used -> Positions]
        BY <2>2, <4>1
      <4>3. near \in Used /\ ug' = Moved(u, near, at, to)
        BY <2>2, <3>6, <3>9, <4>1 DEF AdaptsWith
      <4>4. Moved(u, near, at, to).m_l = u.m_l
        BY <2>1, <3>7, <3>9, <4>2, <4>3, MovedKeepsLength
      <4> QED
        BY <2>5, <3>7, <4>3, <4>4
    <3> QED
      BY <3>5, <3>8, <3>9
  <2>8. ASSUME NEW ex \in Positions, AdaptNothing(ex) PROVE Grows
    BY <2>5, <2>8 DEF AdaptNothing
  <2>9. ASSUME NEW m \in live, DeleteOrphan(m) PROVE Grows
    <3>1. ug' = Erase(ug, position[m], position) /\ position[m] \in Positions
      BY <2>2, <2>9 DEF DeleteOrphan, LeftGrid
    <3>2. Erase(ug, position[m], position).m_l = ug.m_l
      BY <2>1, <2>2, <3>1, EraseTyped
    <3> QED
      BY <2>5, <3>1, <3>2
  <2>10. ASSUME NEW m \in live, DiscardIsolated(m) PROVE Grows
    <3>1. live \ {m} \in SUBSET Used /\ AfterGrowth(ug, live \ {m}, position, away) /\ gng_dim' = gng_dim
      BY <2>2, <2>10 DEF DiscardIsolated
    <3> QED
      BY <2>4, <3>1
  <2>11. ASSUME NEW a \in live, NEW b \in live, AddNewNode(a, b) PROVE Grows
    <3>1. gng_dim' = gng_dim /\ \E nr, p, at : Adds(nr, p, at)
      BY <2>1, <2>11, AddNewNodeIs
    <3>2. PICK nr, p, at : Adds(nr, p, at)
      BY <3>1
    <3> DEFINE U == Used \cup {nr}
               S == live \cup {nr}
               u == Insert(ug, p, nr)
    <3>3. PICK k \in Nat : k = Cardinality(U) /\ U = 0 .. k - 1
      BY <3>2 DEF Adds
    <3>4. /\ at \in [U -> Positions] /\ S \in SUBSET U /\ p \in Positions /\ nr \in U
          /\ AfterGrowth(u, S, at, away)
      BY <2>2, <3>2 DEF Adds
    <3>5. GridOn(gng_dim, ug, U)
      BY <2>2, GridWidened
    <3> HIDE DEF U, S
    <3>6. GridOn(gng_dim, u, U) /\ u.m_l = ug.m_l /\ u.m_nodes = ug.m_nodes + 1
      BY <2>1, <3>4, <3>5, InsertTyped
    <3> HIDE DEF u
    <3> QED
      BY <2>1, <3>1, <3>3, <3>4, <3>6, GrowsWith
  <2>12. CASE NetworkFull
    <3>1. live \in SUBSET Used /\ AfterGrowth(ug, live, position, away) /\ gng_dim' = gng_dim
      BY <2>2, <2>12 DEF NetworkFull
    <3> QED
      BY <2>4, <3>1
  <2>13. CASE Stopped
    BY <2>6, <2>13 DEF Stopped
  <2> QED
    BY <1>1, <2>6, <2>7, <2>8, <2>9, <2>10, <2>11, <2>12, <2>13 DEF Next
<1>2. Inv /\ [Next]_vars => [Grows]_vars
  BY <1>1
<1>3. Spec => [][Grows]_vars
  BY <1>2, GridInvariant, PTL DEF Spec
<1> QED
  BY <1>3 DEF GrowthKeepsNodes, Grows
==============================================================================
