--------------------------- MODULE GraphFileProofs ---------------------------
(****************************************************************************)
(* Proofs about GraphFile for every pool size, max_nodes, maximum age,      *)
(* m_lambda, choice of the utility option and number of restarts.           *)
(****************************************************************************)
EXTENDS GraphFile, GNGAdaptationProofs

(* The ends of the edges of node a, when P is the set of the edges, each a  *)
(* pair of its lower and its upper end.                                     *)
Ends(P, S, a) == {b \in S : <<a, b>> \in P \/ <<b, a>> \in P}

(* The slots `base' after load has added the edges P to them.               *)
LoadedWith(h, S, base, P) ==
    /\ h \in [S -> Node(S)]
    /\ \A a \in S : /\ Distinct(h[a])
                    /\ Entries(h[a]) = {NewEdge(b) : b \in Ends(P, S, a)}
                    /\ Excess(h[a]) = Excess(base[a])

(* Some of the pairs of a lower and an upper end.                           *)
Ascending(P, S) == P \subseteq {e \in S \X S : e[1] < e[2]}

(* Adding an edge that is not there yet.                                    *)
LEMMA LoadEdgeAdds ==
  ASSUME NEW S \in SUBSET Int, NEW base, NEW P, NEW h, LoadedWith(h, S, base, P),
         Ascending(P, S), NEW a \in S, NEW b \in S, a < b, <<a, b>> \notin P
  PROVE  LoadedWith(AddUDEdge(h, a, b), S, base, P \cup {<<a, b>>})
<1> DEFINE Q  == P \cup {<<a, b>>}
           h2 == AddUDEdge(h, a, b)
<1>1. a # b /\ a \in Int /\ b \in Int /\ <<b, a>> \notin P
  BY DEF Ascending
<1>2. \A e \in Entries(h[a]) : e.nr # b
  <2>1. Entries(h[a]) = {NewEdge(c) : c \in Ends(P, S, a)} /\ b \notin Ends(P, S, a)
    BY <1>1 DEF LoadedWith, Ends
  <2> QED
    BY <2>1 DEF NewEdge
<1>3. \A e \in Entries(h[b]) : e.nr # a
  <2>1. Entries(h[b]) = {NewEdge(c) : c \in Ends(P, S, b)} /\ a \notin Ends(P, S, b)
    BY <1>1 DEF LoadedWith, Ends
  <2> QED
    BY <2>1 DEF NewEdge
<1>4. /\ h \in [S -> Node(S)] /\ h[a] \in Node(S) /\ h[b] \in Node(S)
      /\ Distinct(h[a]) /\ Distinct(h[b])
  BY DEF LoadedWith
<1>5. /\ h2 = [h EXCEPT ![a] = Linked(h[a], b), ![b] = Linked(h[b], a)]
      /\ h2[a] = Linked(h[a], b) /\ h2[b] = Linked(h[b], a)
      /\ \A x \in S \ {a, b} : h2[x] = h[x]
  BY <1>1, <1>4 DEF AddUDEdge
<1> HIDE DEF h2
<1>6. /\ h2[a] \in Node(S) /\ Distinct(h2[a])
      /\ Entries(h2[a]) = Entries(h[a]) \cup {NewEdge(b)}
      /\ Excess(h2[a]) = Excess(h[a])
  BY <1>2, <1>4, <1>5, NodeLinked
<1>7. /\ h2[b] \in Node(S) /\ Distinct(h2[b])
      /\ Entries(h2[b]) = Entries(h[b]) \cup {NewEdge(a)}
      /\ Excess(h2[b]) = Excess(h[b])
  BY <1>3, <1>4, <1>5, NodeLinked
<1>8. h2 \in [S -> Node(S)]
  BY <1>4, <1>5, <1>6, <1>7
<1>9. /\ Ends(Q, S, a) = Ends(P, S, a) \cup {b}
      /\ Ends(Q, S, b) = Ends(P, S, b) \cup {a}
      /\ \A x \in S \ {a, b} : Ends(Q, S, x) = Ends(P, S, x)
  BY <1>1 DEF Ends
<1> HIDE DEF Q
<1>10. ASSUME NEW x \in S
       PROVE  /\ Distinct(h2[x])
              /\ Entries(h2[x]) = {NewEdge(c) : c \in Ends(Q, S, x)}
              /\ Excess(h2[x]) = Excess(base[x])
  <2>1. /\ Distinct(h[x]) /\ Entries(h[x]) = {NewEdge(c) : c \in Ends(P, S, x)}
        /\ Excess(h[x]) = Excess(base[x])
    BY DEF LoadedWith
  <2>2. CASE x = a
    BY <1>6, <1>9, <2>1, <2>2
  <2>3. CASE x = b
    BY <1>7, <1>9, <2>1, <2>3
  <2>4. CASE x \notin {a, b}
    BY <1>5, <1>9, <2>1, <2>4
  <2> QED
    BY <2>2, <2>3, <2>4
<1> QED
  BY <1>8, <1>10 DEF LoadedWith, h2, Q
-----------------------------------------------------------------------------
(* An edge read from the file, added or passed over, leaves slots.          *)
LEMMA LoadEdgeTyped ==
  ASSUME NEW S \in SUBSET Int, NEW h \in [S -> Node(S)], NEW i \in S, NEW b \in S
  PROVE  LoadEdge(h, i, b) \in [S -> Node(S)]
<1>1. CASE FromLowerEnd(i, b)
  <2>1. i # b
    BY <1>1 DEF FromLowerEnd
  <2>2. LoadEdge(h, i, b) = [h EXCEPT ![i] = Linked(h[i], b), ![b] = Linked(h[b], i)]
    BY <1>1, <2>1 DEF LoadEdge, AddUDEdge
  <2>3. ASSUME NEW node \in Node(S), NEW c \in S PROVE Linked(node, c) \in Node(S)
    BY DEF Linked, Node, Edge, NewEdge
  <2>4. Linked(h[i], b) \in Node(S) /\ Linked(h[b], i) \in Node(S)
    BY <2>3
  <2> QED
    BY <2>2, <2>4
<1>2. CASE ~FromLowerEnd(i, b)
  BY <1>2 DEF LoadEdge
<1> QED
  BY <1>1, <1>2

(* The slots after every edge read from the section of one slot, and after  *)
(* every section.                                                           *)
SectionSteps(x, h, i, ends) ==
    /\ x[0] = h /\ x[Len(ends)] = LoadEdgesOf(h, i, ends)
    /\ \A k \in 1 .. Len(ends) : x[k] = LoadEdge(x[k - 1], i, ends[k])

FileSteps(x, h, edges, n) ==
    /\ x[0] = h /\ x[n] = LoadEdges(h, edges)
    /\ \A k \in 1 .. n : x[k] = LoadEdgesOf(x[k - 1], k - 1, edges[k - 1])

(* load goes through the edges of a section one by one. *)
LEMMA SectionPath ==
  ASSUME NEW S \in SUBSET Int, NEW h \in [S -> Node(S)], NEW i \in S, NEW l \in Seq(S)
  PROVE  \E x \in [0 .. Len(l) -> [S -> Node(S)]] : SectionSteps(x, h, i, l)
<1> DEFINE R == [S -> Node(S)]
           n == Len(l)
           D == SUBSET (1 .. n)
           Body(f) == [V \in D |-> IF V = {} THEN h
                                   ELSE LoadEdge(f[V \ {Max(V)}], i, l[Max(V)])]
           it == CHOOSE f : f = Body(f)
           F == [w \in R \X S |-> LoadEdge(w[1], i, w[2])]
<1>1. n \in Nat /\ l \in [1 .. n -> S] /\ DOMAIN l = 1 .. n
  OBVIOUS
<1>2. F \in [R \X S -> R] /\ \A v \in R, b \in S : F[<<v, b>>] = LoadEdge(v, i, b)
  <2>1. \A v \in R, b \in S : LoadEdge(v, i, b) \in R
    BY LoadEdgeTyped
  <2> HIDE DEF R
  <2> QED
    BY <2>1
<1>3. LoadEdgesOf(h, i, l) = it[1 .. n]
  <2>1. LoadEdgesOf(h, i, l) = FoldLeft(LAMBDA v, b : LoadEdge(v, i, b), h, l)
    BY DEF LoadEdgesOf
  <2>2. FoldLeft(LAMBDA v, b : LoadEdge(v, i, b), h, l)
          = MapThenFoldSet(LAMBDA b, v : LoadEdge(v, i, b),
                           h, LAMBDA k : l[k], LAMBDA V : Max(V), 1 .. n)
    BY <1>1 DEF FoldLeft
  <2>3. MapThenFoldSet(LAMBDA b, v : LoadEdge(v, i, b),
                       h, LAMBDA k : l[k], LAMBDA V : Max(V), 1 .. n) = it[1 .. n]
    BY DEF MapThenFoldSet
  <2> QED
    BY <2>1, <2>2, <2>3
<1> HIDE DEF F, R, n
<1>4. \A V \in D \ {{}} : Max(V) \in V /\ Max(V) \in 1 .. n /\ l[Max(V)] \in S
  BY <1>1, MaxIsGreatest
<1>5. h \in R
  BY DEF R
<1>6. \E f : f = Body(f)
  <2>1. \E f \in [D -> R] : Tabulates(f, R, n, l, h, F)
    BY <1>1, <1>2, <1>5, FoldLeftTable
  <2>2. PICK f \in [D -> R] : Tabulates(f, R, n, l, h, F)
    BY <2>1
  <2>3. ASSUME NEW V \in D \ {{}} PROVE f[V] = LoadEdge(f[V \ {Max(V)}], i, l[Max(V)])
    <3>1. f[V \ {Max(V)}] \in R /\ l[Max(V)] \in S
      BY <1>4
    <3> QED
      BY <1>2, <2>2, <3>1 DEF Tabulates
  <2>4. f = Body(f)
    BY <2>2, <2>3 DEF Tabulates
  <2> QED
    BY <2>4
<1>7. it = Body(it)
  BY <1>6
<1> HIDE DEF it
<1>8. Tabulates(it, R, n, l, h, F)
  <2>1. it[{}] = h
    BY <1>7
  <2>2. ASSUME NEW V \in D \ {{}}, it[V \ {Max(V)}] \in R
        PROVE  it[V] = F[<<it[V \ {Max(V)}], l[Max(V)]>>]
    <3>1. PICK v \in R : v = it[V \ {Max(V)}]
      BY <2>2
    <3>2. PICK b \in S : b = l[Max(V)]
      BY <1>4
    <3>3. it[V] = LoadEdge(v, i, b)
      BY <1>7, <3>1, <3>2
    <3> QED
      BY <1>2, <3>1, <3>2, <3>3
  <2> QED
    BY <2>1, <2>2 DEF Tabulates
<1>9. \E x \in [0 .. n -> R] : Accumulates(x, n, l, h, F, it[1 .. n])
  BY <1>1, <1>2, <1>5, <1>8, FoldLeftPath
<1>10. PICK x \in [0 .. n -> R] : Accumulates(x, n, l, h, F, it[1 .. n])
  BY <1>9
<1>11. ASSUME NEW k \in 1 .. n PROVE x[k] = LoadEdge(x[k - 1], i, l[k])
  <2>1. k - 1 \in 0 .. n /\ l[k] \in S
    BY <1>1
  <2>2. x[k - 1] \in R /\ x[k] = F[<<x[k - 1], l[k]>>]
    BY <1>10, <2>1 DEF Accumulates
  <2> QED
    BY <1>2, <2>1, <2>2
<1> QED
  BY <1>3, <1>10, <1>11 DEF Accumulates, SectionSteps, R, n

(* A section leaves slots, too.                                             *)
LEMMA SectionTyped ==
  ASSUME NEW S \in SUBSET Int, NEW h \in [S -> Node(S)], NEW i \in S, NEW l \in Seq(S)
  PROVE  LoadEdgesOf(h, i, l) \in [S -> Node(S)]
<1>1. PICK x \in [0 .. Len(l) -> [S -> Node(S)]] : SectionSteps(x, h, i, l)
  BY SectionPath
<1>2. Len(l) \in 0 .. Len(l) /\ x[Len(l)] = LoadEdgesOf(h, i, l)
  BY <1>1 DEF SectionSteps
<1>3. x[Len(l)] \in [S -> Node(S)]
  BY <1>2
<1> QED
  BY <1>2, <1>3

(* The slots after the sections before that of slot m form a path, too.     *)
LEMMA FilePath ==
  ASSUME NEW n \in Nat, NEW S, S = 0 .. n - 1, NEW h \in [S -> Node(S)],
         NEW edges \in [S -> Seq(S)]
  PROVE  \E x \in [0 .. n -> [S -> Node(S)]] : FileSteps(x, h, edges, n)
<1> DEFINE R == [S -> Node(S)]
           D == SUBSET (1 .. n)
           l == [k \in 1 .. n |-> k - 1]
           Body(f) == [V \in D |-> IF V = {} THEN h
                                   ELSE LoadEdgesOf(f[V \ {Max(V)}], l[Max(V)],
                                                    edges[l[Max(V)]])]
           it == CHOOSE f : f = Body(f)
           F == [w \in R \X S |-> LoadEdgesOf(w[1], w[2], edges[w[2]])]
<1>0. S \in SUBSET Int /\ Cardinality(S) = n /\ DOMAIN edges = S
  <2>1. 0 \in Int /\ n - 1 \in Int /\ (n - 1) - 0 + 1 = n
    OBVIOUS
  <2>2. Cardinality(0 .. n - 1) = n
    BY <2>1, FS_Interval
  <2> QED
    BY <2>2
<1>1. l \in [1 .. n -> S] /\ DOMAIN l = 1 .. n
  OBVIOUS
<1>2. F \in [R \X S -> R] /\ \A v \in R, i \in S : F[<<v, i>>] = LoadEdgesOf(v, i, edges[i])
  <2>1. ASSUME NEW v \in R, NEW i \in S PROVE LoadEdgesOf(v, i, edges[i]) \in R
    <3>1. edges[i] \in Seq(S)
      OBVIOUS
    <3> QED
      BY <1>0, <3>1, SectionTyped
  <2> HIDE DEF R
  <2> QED
    BY <2>1
<1>3. LoadEdges(h, edges) = it[1 .. n]
  <2>1. l = [k \in 1 .. Cardinality(DOMAIN edges) |-> k - 1]
    BY <1>0
  <2>2. LoadEdges(h, edges) = FoldLeft(LAMBDA v, i : LoadEdgesOf(v, i, edges[i]), h, l)
    BY <2>1 DEF LoadEdges
  <2> HIDE DEF l
  <2>3. FoldLeft(LAMBDA v, i : LoadEdgesOf(v, i, edges[i]), h, l)
          = MapThenFoldSet(LAMBDA i, v : LoadEdgesOf(v, i, edges[i]),
                           h, LAMBDA k : l[k], LAMBDA V : Max(V), 1 .. n)
    BY <1>1 DEF FoldLeft
  <2>4. MapThenFoldSet(LAMBDA i, v : LoadEdgesOf(v, i, edges[i]),
                       h, LAMBDA k : l[k], LAMBDA V : Max(V), 1 .. n) = it[1 .. n]
    BY DEF MapThenFoldSet
  <2> QED
    BY <2>2, <2>3, <2>4
<1> HIDE DEF F, R
<1>4. \A V \in D \ {{}} : Max(V) \in V /\ Max(V) \in 1 .. n /\ l[Max(V)] \in S
  BY <1>1, MaxIsGreatest
<1> HIDE DEF l
<1>5. h \in R
  BY DEF R
<1>6. \E f : f = Body(f)
  <2>1. \E f \in [D -> R] : Tabulates(f, R, n, l, h, F)
    BY <1>1, <1>2, <1>5, FoldLeftTable
  <2>2. PICK f \in [D -> R] : Tabulates(f, R, n, l, h, F)
    BY <2>1
  <2>3. ASSUME NEW V \in D \ {{}}
        PROVE  f[V] = LoadEdgesOf(f[V \ {Max(V)}], l[Max(V)], edges[l[Max(V)]])
    <3>1. f[V \ {Max(V)}] \in R /\ l[Max(V)] \in S
      BY <1>4
    <3> QED
      BY <1>2, <2>2, <3>1 DEF Tabulates
  <2>4. f = Body(f)
    BY <2>2, <2>3 DEF Tabulates
  <2> QED
    BY <2>4
<1>7. it = Body(it)
  BY <1>6
<1> HIDE DEF it
<1>8. Tabulates(it, R, n, l, h, F)
  <2>1. it[{}] = h
    BY <1>7
  <2>2. ASSUME NEW V \in D \ {{}}, it[V \ {Max(V)}] \in R
        PROVE  it[V] = F[<<it[V \ {Max(V)}], l[Max(V)]>>]
    <3>1. PICK v \in R : v = it[V \ {Max(V)}]
      BY <2>2
    <3>2. PICK i \in S : i = l[Max(V)]
      BY <1>4
    <3>3. it[V] = LoadEdgesOf(v, i, edges[i])
      BY <1>7, <3>1, <3>2
    <3> QED
      BY <1>2, <3>1, <3>2, <3>3
  <2> QED
    BY <2>1, <2>2 DEF Tabulates
<1>9. \E x \in [0 .. n -> R] : Accumulates(x, n, l, h, F, it[1 .. n])
  BY <1>1, <1>2, <1>5, <1>8, FoldLeftPath
<1>10. PICK x \in [0 .. n -> R] : Accumulates(x, n, l, h, F, it[1 .. n])
  BY <1>9
<1>11. ASSUME NEW k \in 1 .. n PROVE x[k] = LoadEdgesOf(x[k - 1], k - 1, edges[k - 1])
  <2>1. k - 1 \in 0 .. n /\ l[k] = k - 1 /\ l[k] \in S
    BY <1>1 DEF l
  <2>2. x[k - 1] \in R /\ x[k] = F[<<x[k - 1], l[k]>>]
    BY <1>10, <2>1 DEF Accumulates
  <2> QED
    BY <1>2, <2>1, <2>2
<1> QED
  BY <1>3, <1>10, <1>11 DEF Accumulates, FileSteps, R
-----------------------------------------------------------------------------
(* The edges load takes from the first k numbers of the section of slot i,  *)
(* and from the first m sections.                                           *)
Upward(S, i, ends, k) ==
    {e \in S \X S : e[1] = i /\ i < e[2] /\ \E j \in 1 .. k : ends[j] = e[2]}

Stored(S, edges, m) ==
    {e \in S \X S : /\ e[1] < m /\ e[1] < e[2]
                    /\ \E j \in 1 .. Len(edges[e[1]]) : edges[e[1]][j] = e[2]}

(* One section adds its edges, given that none of them is there and that it *)
(* names no end twice.                                                      *)
LEMMA SectionAdds ==
  ASSUME NEW S \in SUBSET Int, NEW base, NEW P, NEW h, LoadedWith(h, S, base, P),
         Ascending(P, S), NEW i \in S, NEW l \in Seq(S), \A b : <<i, b>> \notin P,
         \A j, k \in 1 .. Len(l) : l[j] = l[k] => j = k
  PROVE  LoadedWith(LoadEdgesOf(h, i, l), S, base, P \cup Upward(S, i, l, Len(l)))
<1>1. Len(l) \in Nat /\ h \in [S -> Node(S)] /\ \A k \in 1 .. Len(l) : l[k] \in S
  BY DEF LoadedWith
<1>2. PICK x \in [0 .. Len(l) -> [S -> Node(S)]] : SectionSteps(x, h, i, l)
  BY <1>1, SectionPath
<1> DEFINE at(k) == P \cup Upward(S, i, l, k)
           Good == {k \in Nat : k <= Len(l) => LoadedWith(x[k], S, base, at(k))}
<1>3. 0 \in Good
  <2>1. at(0) = P
    BY DEF Upward
  <2> QED
    BY <1>2, <2>1 DEF SectionSteps
<1>4. ASSUME NEW k \in Nat, k \in Good PROVE k + 1 \in Good
  <2> SUFFICES ASSUME k + 1 <= Len(l) PROVE LoadedWith(x[k + 1], S, base, at(k + 1))
    BY <1>4
  <2>1. k + 1 \in 1 .. Len(l) /\ (k + 1) - 1 = k /\ k <= Len(l)
    BY <1>1
  <2> DEFINE b == l[k + 1]
  <2>2. b \in S /\ LoadedWith(x[k], S, base, at(k)) /\ x[k + 1] = LoadEdge(x[k], i, b)
    BY <1>1, <1>2, <1>4, <2>1 DEF SectionSteps
  <2>3. \A j \in 1 .. k + 1 : j \in 1 .. k \/ j = k + 1
    OBVIOUS
  <2>4. \A j \in 1 .. k : j \in 1 .. k + 1 /\ j \in 1 .. Len(l) /\ j # k + 1
    BY <2>1
  <2>5. k + 1 \in 1 .. k + 1
    OBVIOUS
  <2>6. CASE i < b
    <3>1. at(k + 1) = at(k) \cup {<<i, b>>}
      <4>1. Upward(S, i, l, k + 1) = Upward(S, i, l, k) \cup {<<i, b>>}
        <5>1. ASSUME NEW e \in Upward(S, i, l, k + 1)
              PROVE  e \in Upward(S, i, l, k) \cup {<<i, b>>}
          <6>1. e \in S \X S /\ e[1] = i /\ i < e[2] /\ e = <<e[1], e[2]>>
            BY DEF Upward
          <6>2. PICK j \in 1 .. k + 1 : l[j] = e[2]
            BY DEF Upward
          <6> QED
            BY <2>3, <6>1, <6>2 DEF Upward
        <5>2. Upward(S, i, l, k) \subseteq Upward(S, i, l, k + 1)
          BY <2>4 DEF Upward
        <5>3. <<i, b>> \in Upward(S, i, l, k + 1)
          BY <2>2, <2>5, <2>6 DEF Upward
        <5> QED
          BY <5>1, <5>2, <5>3
      <4> QED
        BY <4>1
    <3>2. <<i, b>> \notin at(k)
      BY <2>1, <2>4 DEF Upward
    <3>3. Ascending(at(k), S)
      BY DEF Ascending, Upward
    <3>4. x[k + 1] = AddUDEdge(x[k], i, b)
      BY <2>2, <2>6 DEF LoadEdge, FromLowerEnd
    <3> HIDE DEF at, b
    <3> QED
      BY <2>2, <2>6, <3>1, <3>2, <3>3, <3>4, LoadEdgeAdds
  <2>7. CASE ~(i < b)
    <3>1. Upward(S, i, l, k + 1) = Upward(S, i, l, k)
      BY <2>3, <2>4, <2>7 DEF Upward
    <3>2. x[k + 1] = x[k]
      BY <2>2, <2>7 DEF LoadEdge, FromLowerEnd
    <3> QED
      BY <2>2, <3>1, <3>2
  <2> QED
    BY <2>6, <2>7
<1>5. \A k \in Nat : k \in Good
  <2> HIDE DEF Good
  <2> QED
    BY <1>3, <1>4, CountingInduction
<1>6. LoadedWith(x[Len(l)], S, base, at(Len(l)))
  BY <1>1, <1>5
<1> QED
  BY <1>2, <1>6 DEF SectionSteps

(* The whole file adds every edge that the section of its lower end names.  *)
LEMMA FileAdds ==
  ASSUME NEW n \in Nat, NEW S, S = 0 .. n - 1, NEW base \in [S -> Node(S)],
         \A a \in S : base[a].edges = <<>>, NEW edges \in [S -> Seq(S)],
         \A a \in S : \A j, k \in 1 .. Len(edges[a]) : edges[a][j] = edges[a][k] => j = k
  PROVE  LoadedWith(LoadEdges(base, edges), S, base, Stored(S, edges, n))
<1>1. PICK x \in [0 .. n -> [S -> Node(S)]] : FileSteps(x, base, edges, n)
  BY FilePath
<1>2. S \in SUBSET Int /\ \A a \in S : edges[a] \in Seq(S)
  OBVIOUS
<1> DEFINE Good == {m \in Nat : m <= n => LoadedWith(x[m], S, base, Stored(S, edges, m))}
<1>3. 0 \in Good
  <2>1. Stored(S, edges, 0) = {}
    BY DEF Stored
  <2>2. ASSUME NEW a \in S PROVE Distinct(base[a]) /\ Entries(base[a]) = {}
    BY DEF Distinct, Entries
  <2>3. \A a \in S : Ends({}, S, a) = {}
    BY DEF Ends
  <2>4. LoadedWith(base, S, base, {})
    BY <2>2, <2>3 DEF LoadedWith
  <2> QED
    BY <1>1, <2>1, <2>4 DEF FileSteps
<1>4. ASSUME NEW m \in Nat, m \in Good PROVE m + 1 \in Good
  <2> SUFFICES ASSUME m + 1 <= n PROVE LoadedWith(x[m + 1], S, base, Stored(S, edges, m + 1))
    BY <1>4
  <2>1. m + 1 \in 1 .. n /\ (m + 1) - 1 = m /\ m <= n /\ m \in S
    OBVIOUS
  <2>2. /\ LoadedWith(x[m], S, base, Stored(S, edges, m))
        /\ x[m + 1] = LoadEdgesOf(x[m], m, edges[m])
    BY <1>1, <1>4, <2>1 DEF FileSteps
  <2>3. Ascending(Stored(S, edges, m), S) /\ \A b : <<m, b>> \notin Stored(S, edges, m)
    BY DEF Ascending, Stored
  <2> DEFINE l == edges[m]
             new == Upward(S, m, l, Len(l))
  <2>4. l \in Seq(S) /\ \A j, k \in 1 .. Len(l) : l[j] = l[k] => j = k
    BY <2>1
  <2>5. Stored(S, edges, m + 1) = Stored(S, edges, m) \cup new
    <3>1. \A a \in S : a < m + 1 <=> a < m \/ a = m
      BY <1>2
    <3> QED
      <4>1. \A e \in S \X S : e[1] \in S
        OBVIOUS
      <4>2. \A e \in S \X S : e \in Stored(S, edges, m + 1)
                             <=> e \in Stored(S, edges, m) \/ e \in new
        BY <3>1, <4>1 DEF Stored, Upward
      <4>3. Stored(S, edges, m + 1) \subseteq S \X S
        BY DEF Stored
      <4>4. Stored(S, edges, m) \subseteq S \X S /\ new \subseteq S \X S
        BY DEF Stored, Upward
      <4> HIDE DEF new
      <4> QED
        BY <4>2, <4>3, <4>4
  <2>6. LoadedWith(LoadEdgesOf(x[m], m, l), S, base, Stored(S, edges, m) \cup new)
    <3> HIDE DEF l
    <3> QED
      BY <1>2, <2>1, <2>2, <2>3, <2>4, SectionAdds
  <2> QED
    BY <2>2, <2>5, <2>6
<1>5. \A m \in Nat : m \in Good
  <2> HIDE DEF Good
  <2> QED
    BY <1>3, <1>4, CountingInduction
<1>6. LoadedWith(x[n], S, base, Stored(S, edges, n))
  BY <1>5
<1> QED
  BY <1>1, <1>6 DEF FileSteps
-----------------------------------------------------------------------------
(* What load makes of the file that serialize writes: first the slots, each *)
(* visible node with its counter, then the edges.                           *)
SavedVertices == [i \in Slots |-> LoadVertexData(DumpVertexData(i))]

SavedEdges == [i \in Slots |-> IF ExistsNode(i) THEN DumpEdges(g[i]) ELSE <<>>]

RestoredSlots == LoadEdges(SavedVertices, SavedEdges)

(* Before the edges are added every counter is a number of edges, or 0.     *)
LEMMA SavedVerticesFacts ==
  ASSUME NEW K \in SUBSET Slots, NEW D \in SUBSET Nat, Sound(g, Slots, K, D),
         Visible \subseteq K
  PROVE  /\ SavedVertices \in [Slots -> Node(Slots)]
         /\ \A a \in Slots : /\ SavedVertices[a].edges = <<>>
                             /\ Excess(SavedVertices[a]) \in Nat
<1>1. ASSUME NEW a \in Slots
      PROVE  /\ LoadVertexData(DumpVertexData(a)) \in Node(Slots)
             /\ LoadVertexData(DumpVertexData(a)).edges = <<>>
             /\ Excess(LoadVertexData(DumpVertexData(a))) \in Nat
  <2> DEFINE node == LoadVertexData(DumpVertexData(a))
  <2>1. CASE ExistsNode(a)
    <3>1. a \in K /\ g[a] \in Node(Slots) /\ Excess(g[a]) \in Nat
      BY <2>1 DEF Visible, Sound
    <3>2. g[a].edgesCount \in Nat
      <4>1. g[a].edgesCount \in Int /\ Len(g[a].edges) \in Nat
        BY <3>1 DEF Node
      <4> QED
        BY <3>1, <4>1 DEF Excess
    <3>3. node = [edges |-> <<>>, edgesCount |-> g[a].edgesCount]
      BY <2>1, <3>2 DEF DumpVertexData, LoadVertexData, Absent, EmptyNode
    <3> HIDE DEF node
    <3> QED
      BY <3>2, <3>3 DEF Node, Excess, node
  <2>2. CASE ~ExistsNode(a)
    <3>1. node = [edges |-> <<>>, edgesCount |-> 0]
      BY <2>2 DEF DumpVertexData, LoadVertexData, Absent, EmptyNode
    <3> HIDE DEF node
    <3> QED
      BY <3>1 DEF Node, Excess, node
  <2> QED
    BY <2>1, <2>2
<1> QED
  BY <1>1 DEF SavedVertices

(* The sections name the other ends of the edges, none of them twice.       *)
LEMMA SavedEdgesFacts ==
  ASSUME NEW K \in SUBSET Slots, NEW D, Sound(g, Slots, K, D)
  PROVE  /\ SavedEdges \in [Slots -> Seq(Slots)]
         /\ \A a \in Slots : \A j, k \in 1 .. Len(SavedEdges[a]) :
               SavedEdges[a][j] = SavedEdges[a][k] => j = k
         /\ \A a \in Slots, b \in Slots :
               (\E j \in 1 .. Len(SavedEdges[a]) : SavedEdges[a][j] = b)
                 <=> ExistsNode(a) /\ \E e \in Entries(g[a]) : e.nr = b
<1>1. ASSUME NEW a \in Slots
      PROVE  /\ SavedEdges[a] \in Seq(Slots)
             /\ \A j, k \in 1 .. Len(SavedEdges[a]) :
                   SavedEdges[a][j] = SavedEdges[a][k] => j = k
             /\ \A b \in Slots :
                   (\E j \in 1 .. Len(SavedEdges[a]) : SavedEdges[a][j] = b)
                     <=> ExistsNode(a) /\ \E e \in Entries(g[a]) : e.nr = b
  <2>1. CASE ExistsNode(a)
    <3>1. /\ g[a].edges \in Seq(Edge(Slots)) /\ Distinct(g[a])
          /\ DOMAIN g[a].edges = 1 .. Len(g[a].edges) /\ Len(g[a].edges) \in Nat
      BY DEF Sound, Node
    <3> DEFINE l == [k \in 1 .. Len(g[a].edges) |-> g[a].edges[k].nr]
    <3>2. SavedEdges[a] = l
      BY <2>1, <3>1 DEF SavedEdges, DumpEdges
    <3>3. \A k \in 1 .. Len(g[a].edges) : g[a].edges[k].nr \in Slots
      <4>1. \A k \in 1 .. Len(g[a].edges) : g[a].edges[k] \in Edge(Slots)
        BY <3>1
      <4> QED
        BY <4>1 DEF Edge
    <3>4. l \in Seq(Slots) /\ Len(l) = Len(g[a].edges)
      BY <3>1, <3>3
    <3>5. \A j, k \in 1 .. Len(l) : l[j] = l[k] => j = k
      <4>1. \A k \in 1 .. Len(l) : k \in 1 .. Len(g[a].edges) /\ l[k] = g[a].edges[k].nr
        BY <3>4
      <4> HIDE DEF l
      <4> QED
        BY <3>1, <4>1 DEF Distinct
    <3>6. ASSUME NEW b \in Slots
          PROVE  (\E j \in 1 .. Len(l) : l[j] = b) <=> \E e \in Entries(g[a]) : e.nr = b
      BY <3>4 DEF Entries
    <3> HIDE DEF l
    <3> QED
      BY <2>1, <3>2, <3>4, <3>5, <3>6
  <2>2. CASE ~ExistsNode(a)
    BY <2>2 DEF SavedEdges
  <2> QED
    BY <2>1, <2>2
<1>2. SavedEdges = [i \in Slots |-> SavedEdges[i]]
  BY DEF SavedEdges
<1> QED
  BY <1>1, <1>2

(* The restored slots: b is at the other end of an edge of a just when it   *)
(* was and the lower of the two was visible.                                *)
LEMMA RestoredEntries ==
  ASSUME PoolTypeOK, NEW K \in SUBSET Slots, NEW D \in SUBSET Nat,
         Sound(g, Slots, K, D), Visible \subseteq K
  PROVE  /\ RestoredSlots \in [Slots -> Node(Slots)]
         /\ \A a \in Slots : /\ Distinct(RestoredSlots[a])
                             /\ Excess(RestoredSlots[a]) \in Nat
         /\ \A a \in Slots : \A e : e \in Entries(RestoredSlots[a])
               <=> \E b \in Slots : /\ e = NewEdge(b)
                                    /\ \E d \in Entries(g[a]) : d.nr = b
                                    /\ (a < b /\ ExistsNode(a)) \/ (b < a /\ ExistsNode(b))
<1> DEFINE P == Stored(Slots, SavedEdges, size)
<1>1. LoadedWith(RestoredSlots, Slots, SavedVertices, P)
  <2>1. size \in Nat /\ Slots = 0 .. size - 1
    BY DEF PoolTypeOK, Slots
  <2> QED
    BY <2>1, SavedVerticesFacts, SavedEdgesFacts, FileAdds DEF RestoredSlots
<1>2. ASSUME NEW a \in Slots, NEW b \in Slots
      PROVE  b \in Ends(P, Slots, a)
               <=> /\ \E d \in Entries(g[a]) : d.nr = b
                   /\ (a < b /\ ExistsNode(a)) \/ (b < a /\ ExistsNode(b))
  <2>1. a \in 0 .. size - 1 /\ b \in 0 .. size - 1 /\ size \in Nat
    BY DEF Slots, PoolTypeOK
  <2>2. /\ <<a, b>> \in P <=> a < b /\ ExistsNode(a) /\ \E d \in Entries(g[a]) : d.nr = b
        /\ <<b, a>> \in P <=> b < a /\ ExistsNode(b) /\ \E d \in Entries(g[b]) : d.nr = a
    <3>1. ASSUME NEW x \in Slots, NEW y \in Slots
          PROVE  <<x, y>> \in P <=> x < y /\ ExistsNode(x) /\ \E d \in Entries(g[x]) : d.nr = y
      <4>1. <<x, y>> \in P
              <=> x < size /\ x < y /\ \E j \in 1 .. Len(SavedEdges[x]) : SavedEdges[x][j] = y
        BY DEF Stored
      <4>2. x < size
        BY DEF Slots, PoolTypeOK
      <4>3. (\E j \in 1 .. Len(SavedEdges[x]) : SavedEdges[x][j] = y)
               <=> ExistsNode(x) /\ \E d \in Entries(g[x]) : d.nr = y
        BY SavedEdgesFacts
      <4> DEFINE Named == \E j \in 1 .. Len(SavedEdges[x]) : SavedEdges[x][j] = y
                 Has   == \E d \in Entries(g[x]) : d.nr = y
      <4> HIDE DEF P, Named, Has
      <4>4. /\ <<x, y>> \in P <=> x < size /\ x < y /\ Named
            /\ Named <=> ExistsNode(x) /\ Has
        BY <4>1, <4>3 DEF Named, Has
      <4>5. <<x, y>> \in P <=> x < y /\ ExistsNode(x) /\ Has
        BY <4>2, <4>4
      <4> QED
        BY <4>5 DEF Has
    <3> QED
      BY <3>1
  <2>3. (\E d \in Entries(g[a]) : d.nr = b) <=> (\E d \in Entries(g[b]) : d.nr = a)
    <3>1. ASSUME NEW x \in Slots, NEW d \in Entries(g[x])
          PROVE  \E e \in Entries(g[d.nr]) : e.nr = x
      <4>1. [nr |-> x, age |-> d.age] \in Entries(g[d.nr])
        BY DEF Sound
      <4> QED
        BY <4>1
    <3> QED
      BY <3>1
  <2>4. b \in Ends(P, Slots, a) <=> <<a, b>> \in P \/ <<b, a>> \in P
    BY DEF Ends
  <2> DEFINE Near == \E d \in Entries(g[a]) : d.nr = b
             Back == \E d \in Entries(g[b]) : d.nr = a
  <2>5. /\ <<a, b>> \in P <=> a < b /\ ExistsNode(a) /\ Near
        /\ <<b, a>> \in P <=> b < a /\ ExistsNode(b) /\ Back
        /\ Near <=> Back
    BY <2>2, <2>3
  <2> HIDE DEF P, Near, Back
  <2>6. b \in Ends(P, Slots, a)
          <=> Near /\ ((a < b /\ ExistsNode(a)) \/ (b < a /\ ExistsNode(b)))
    BY <2>4, <2>5
  <2> QED
    BY <2>6 DEF Near
<1> HIDE DEF P
<1>3. \A a \in Slots : \A e : e \in Entries(RestoredSlots[a])
         <=> \E b \in Ends(P, Slots, a) : e = NewEdge(b)
  BY <1>1 DEF LoadedWith
<1>4. \A a \in Slots : Ends(P, Slots, a) \subseteq Slots
  BY DEF Ends
<1>5. \A a \in Slots : Distinct(RestoredSlots[a]) /\ Excess(RestoredSlots[a]) \in Nat
  BY <1>1, SavedVerticesFacts DEF LoadedWith
<1>6. RestoredSlots \in [Slots -> Node(Slots)]
  BY <1>1 DEF LoadedWith
<1>7. ASSUME NEW a \in Slots, NEW e
      PROVE  e \in Entries(RestoredSlots[a])
               <=> \E b \in Slots : /\ e = NewEdge(b)
                                    /\ \E d \in Entries(g[a]) : d.nr = b
                                    /\ (a < b /\ ExistsNode(a)) \/ (b < a /\ ExistsNode(b))
  BY <1>2, <1>3, <1>4
<1> QED
  BY <1>5, <1>6, <1>7
-----------------------------------------------------------------------------
(* The restored graph is sound beside the slots that had been held, and     *)
(* only its counters may be too high.                                       *)
LEMMA RestoredGraph ==
  ASSUME PoolTypeOK, NEW K \in SUBSET Slots, NEW D \in SUBSET Nat,
         Sound(g, Slots, K, D), Visible \subseteq K
  PROVE  Sound(RestoredSlots, Slots, K, Nat) /\ Young(RestoredSlots, Slots)
<1> DEFINE new == RestoredSlots
<1>1. /\ new \in [Slots -> Node(Slots)]
      /\ \A a \in Slots : Distinct(new[a]) /\ Excess(new[a]) \in Nat
  BY RestoredEntries
<1>2. ASSUME NEW a \in Slots, NEW e \in Entries(new[a])
      PROVE  /\ e.age = 0 /\ e.nr \in K \ {a}
             /\ [nr |-> a, age |-> e.age] \in Entries(new[e.nr])
  <2>1. PICK b \in Slots : /\ e = NewEdge(b)
                           /\ \E d \in Entries(g[a]) : d.nr = b
                           /\ (a < b /\ ExistsNode(a)) \/ (b < a /\ ExistsNode(b))
    BY RestoredEntries
  <2>2. b \in K \ {a} /\ \E d \in Entries(g[b]) : d.nr = a
    <3>1. PICK d \in Entries(g[a]) : d.nr = b
      BY <2>1
    <3>2. d.nr \in K \ {a} /\ [nr |-> a, age |-> d.age] \in Entries(g[d.nr])
      BY DEF Sound
    <3> QED
      BY <3>1, <3>2
  <2>3. NewEdge(a) \in Entries(new[b])
    BY <2>1, <2>2, RestoredEntries
  <2>4. e.nr = b /\ e.age = 0 /\ NewEdge(a) = [nr |-> a, age |-> e.age]
    BY <2>1 DEF NewEdge
  <2> QED
    BY <2>2, <2>3, <2>4
<1> HIDE DEF new
<1>3. Young(new, Slots)
  <2> SUFFICES ASSUME NEW a \in Slots, NEW e \in Entries(new[a]) PROVE e.age <= MaxAge
    BY DEF Young
  <2>1. e.age = 0 /\ MaxAge \in Nat
    BY <1>2, AdaptationAssumption
  <2> QED
    BY <2>1
<1>4. Sound(new, Slots, K, Nat)
  BY <1>1, <1>2 DEF Sound
<1> QED
  BY <1>3, <1>4 DEF new

(* Save and load, seen from the pool and the graph: the hidden slots join   *)
(* those that neither the graph nor the free list has.                      *)
LEMMA RestartEffect ==
  ASSUME PoolTypeOK, NEW K \in SUBSET Slots, NEW D \in SUBSET Nat,
         Sound(g, Slots, K, D), Visible \subseteq K, Restart
  PROVE  /\ size' = size /\ Slots' = Slots
         /\ maximum_index' = maximum_index /\ first_free' = first_free
         /\ nodes' = nodes /\ next_free' = next_free
         /\ occupied' = [i \in Slots |-> ExistsNode(i)]
         /\ Occupied' = Visible
         /\ g' = RestoredSlots
         /\ unset' = Slots \ Visible
<1>1. \A i \in Slots : DumpVertexData(i) # Absent <=> ExistsNode(i)
  <2> SUFFICES ASSUME NEW i \in Slots, ExistsNode(i) PROVE g[i].edgesCount # Absent
    BY DEF DumpVertexData
  <2>1. g[i] \in Node(Slots) /\ Excess(g[i]) \in Nat
    BY DEF Visible, Sound
  <2>2. g[i].edgesCount >= Len(g[i].edges) /\ Len(g[i].edges) \in Nat
    BY <2>1, CountWithin DEF Node
  <2> QED
    BY <2>1, <2>2 DEF Absent, Node
<1> DEFINE file == Serialized
<1>2. /\ file.size = size /\ file.bound = maximum_index + 1 /\ file.free = first_free
      /\ file.count = nodes /\ file.next = next_free /\ file.edges = SavedEdges
      /\ DOMAIN file.vertex = Slots
      /\ \A i \in Slots : file.vertex[i] = DumpVertexData(i)
  BY DEF Serialized, SavedEdges
<1> HIDE DEF file
<1>3. Load(file)
  BY DEF Restart, file
<1>4. size' = size /\ first_free' = first_free /\ nodes' = nodes /\ next_free' = next_free
  BY <1>2, <1>3 DEF Load, LoadNextFree
<1>5. maximum_index' = maximum_index
  <2>1. maximum_index' = file.bound - 1 /\ maximum_index \in Int
    BY <1>3 DEF Load, LoadMaximum, PoolTypeOK
  <2> QED
    BY <1>2, <2>1
<1>6. occupied' = [i \in Slots |-> ExistsNode(i)]
  <2>1. occupied' = [i \in Slots |-> file.vertex[i] # Absent]
    BY <1>2, <1>3 DEF Load
  <2>2. \A i \in Slots : (file.vertex[i] # Absent) = ExistsNode(i)
    <3>1. \A i \in Slots : ExistsNode(i) \in BOOLEAN
      BY DEF ExistsNode, PoolTypeOK
    <3> QED
      BY <1>1, <1>2, <3>1
  <2> QED
    BY <2>1, <2>2
<1>7. Slots' = Slots
  BY <1>4 DEF Slots
<1>8. Occupied' = Visible
  <2>1. Occupied' = {i \in Slots' : occupied'[i]}
    BY DEF Occupied
  <2> QED
    BY <1>6, <1>7, <2>1 DEF Visible
<1>9. g' = RestoredSlots
  <2>1. g' = LoadEdges([i \in Slots |-> LoadVertexData(file.vertex[i])], SavedEdges)
    BY <1>2, <1>3 DEF Load
  <2>2. [i \in Slots |-> LoadVertexData(file.vertex[i])] = SavedVertices
    BY <1>2 DEF SavedVertices
  <2> QED
    BY <2>1, <2>2 DEF RestoredSlots
<1>10. unset' = Slots \ Visible
  <2>1. unset' = {i \in Slots : file.vertex[i] = Absent}
    BY <1>2, <1>3 DEF Load
  <2> QED
    BY <1>1, <1>2, <2>1 DEF Visible
<1> QED
  BY <1>4, <1>5, <1>6, <1>7, <1>8, <1>9, <1>10
-----------------------------------------------------------------------------
(* The inductive invariant.  A graph in use has lost the slots G, the ones  *)
(* that were hidden when it was saved: the free list passes them over, but  *)
(* they can be ends of edges.  From the first restart on the counters may   *)
(* be above the numbers of edges.  As long as nothing was hidden the pool's *)
(* books are exact, and no null position is ever reached.                   *)
Differences == IF loads = 0 THEN {0} ELSE Nat

Books == ~hidden => PoolInv /\ pc # "null_position"

Bounds ==
    /\ pc \in Running \cup {"aborted", "null_position"}
    /\ unset \subseteq Slots /\ unset \cap Occupied = {}
    /\ loads \in 0 .. MaxLoads /\ hidden \in BOOLEAN

FileInv ==
    /\ \E G, D : D = Differences /\ LoopInv(G, D) /\ (hidden \/ G = {})
    /\ Books
    /\ Bounds

(* The counters may always be exact.                                        *)
LEMMA DifferencesFacts == Differences \in SUBSET Nat /\ 0 \in Differences
BY DEF Differences

(* Training starts with the empty graph.                                    *)
LEMMA InitFileInv == FInit => FileInv
<1> SUFFICES ASSUME FInit PROVE FileInv
  OBVIOUS
<1>1. AInv /\ unset = {} /\ loads = 0 /\ hidden = FALSE
  BY InitAInv DEF FInit
<1>2. PoolInv /\ pc \in Running /\ LoopInv({}, {0})
  BY <1>1, LoopExact
<1>3. \E G, D : D = Differences /\ LoopInv(G, D) /\ (hidden \/ G = {})
  BY <1>1, <1>2 DEF Differences
<1>4. Books
  BY <1>2 DEF Books, Running
<1>5. Bounds
  <2>1. 0 \in 0 .. MaxLoads
    BY FileAssumption
  <2> QED
    BY <1>1, <1>2, <2>1 DEF Bounds
<1> QED
  BY <1>3, <1>4, <1>5 DEF FileInv

(* What the invariant says of the slots that are hidden or lost.            *)
LEMMA VisibleHeld ==
  ASSUME NEW G, LeakyPool(G)
  PROVE  /\ PoolTypeOK
         /\ Held(G) \in SUBSET Slots /\ Visible \subseteq Held(G)
         /\ Occupied = Visible \cup Hidden /\ Visible \cap Hidden = {}
BY HeldInSlots DEF LeakyPool, Visible, Hidden, Held, Occupied, ExistsNode

(* Save and load lose the hidden slots and keep the rest. *)
LEMMA RestartStep ==
  ASSUME NEW G, NEW D \in SUBSET Nat, LoopInv(G, D), Restart, NEW H, H = Hidden
  PROVE  /\ LoopInv(G \cup H, Nat)'
         /\ H = {} => UNCHANGED poolVars
         /\ unset' \subseteq Slots' /\ unset' \cap Occupied' = {}
         /\ pc' \in {"seed", "aborted", "search"}
<1>1. LeakyPool(G) /\ Sound(g, Slots, Held(G), D) /\ LoopTyped
  BY DEF LoopInv, GraphFor
<1>2. /\ PoolTypeOK
      /\ Held(G) \in SUBSET Slots /\ Visible \subseteq Held(G)
      /\ Occupied = Visible \cup H /\ Visible \cap H = {}
  BY <1>1, VisibleHeld
<1>3. /\ size' = size /\ Slots' = Slots
      /\ maximum_index' = maximum_index /\ first_free' = first_free
      /\ nodes' = nodes /\ next_free' = next_free
      /\ occupied' = [i \in Slots |-> ExistsNode(i)]
      /\ Occupied' = Visible
      /\ g' = RestoredSlots
      /\ unset' = Slots \ Visible
  BY <1>1, <1>2, RestartEffect
<1>4. pc' \in {"seed", "aborted", "search"}
  BY DEF Restart
<1>5. Held(G \cup H)' = Held(G)
  BY <1>2, <1>3 DEF Held
<1>6. G \cap Occupied = {} /\ FreeSlots' = Slots \ Visible
  BY <1>1, <1>3, HeldInSlots DEF FreeSlots
<1>7. Waiting(G \cup H)' = Waiting(G)
  BY <1>2, <1>6 DEF Waiting, FreeSlots
<1>8. PoolTypeOK'
  <2>1. \A i \in Slots : ExistsNode(i) \in BOOLEAN
    BY <1>2 DEF ExistsNode, PoolTypeOK
  <2> QED
    BY <1>2, <1>3, <2>1 DEF PoolTypeOK
<1>9. FreeListBut(G \cup H)'
  <2>1. PICK n \in 0 .. size : \E fl \in [1 .. n -> Waiting(G)] :
           /\ FollowsFreeList(n, fl)
           /\ \A j, k \in 1 .. n : fl[j] = fl[k] => j = k
           /\ \A i \in Waiting(G) : \E k \in 1 .. n : fl[k] = i
    BY <1>1 DEF LeakyPool, FreeListBut
  <2>2. PICK fl \in [1 .. n -> Waiting(G)] :
           /\ FollowsFreeList(n, fl)
           /\ \A j, k \in 1 .. n : fl[j] = fl[k] => j = k
           /\ \A i \in Waiting(G) : \E k \in 1 .. n : fl[k] = i
    BY <2>1
  <2>3. FollowsFreeList(n, fl)'
    BY <1>3, <2>2 DEF FollowsFreeList
  <2> QED
    <3>1. PICK F : F = G \cup H
      OBVIOUS
    <3>2. Waiting(F)' = Waiting(G)
      BY <1>7, <3>1
    <3>3. FreeListBut(F)'
      BY <1>3, <2>2, <2>3, <3>2 DEF FreeListBut
    <3> QED
      BY <3>1, <3>3
<1>10. LeakyPool(G \cup H)'
  <2>1. (G \cup H) \subseteq FreeSlots'
    BY <1>1, <1>2, <1>6 DEF LeakyPool, FreeSlots, Held
  <2> QED
    BY <1>8, <1>9, <2>1 DEF LeakyPool
<1>11. GraphFor(G \cup H, Nat)'
  <2>1. Sound(RestoredSlots, Slots, Held(G), Nat) /\ Young(RestoredSlots, Slots)
    BY <1>1, <1>2, RestoredGraph
  <2> QED
    BY <1>3, <1>5, <2>1 DEF GraphFor
<1>12. LoopTyped' /\ ScanSafe'
  BY <1>1, <1>3, <1>4, AdaptationAssumption DEF Restart, LoopTyped, ScanSafe, utilityVars
<1>13. H = {} => UNCHANGED poolVars
  <2> SUFFICES ASSUME H = {} PROVE occupied' = occupied
    BY <1>3 DEF poolVars
  <2>1. \A i \in Slots : ExistsNode(i) = occupied[i]
    <3> SUFFICES ASSUME NEW i \in Slots PROVE occupied[i] => ExistsNode(i)
      BY <1>2 DEF ExistsNode, PoolTypeOK
    <3> QED
      BY DEF Hidden, Occupied
  <2>2. occupied = [i \in Slots |-> occupied[i]]
    BY <1>2 DEF PoolTypeOK
  <2> QED
    BY <1>3, <2>1, <2>2
<1> QED
  BY <1>3, <1>4, <1>10, <1>11, <1>12, <1>13 DEF LoopInv

(* A step of the loop keeps the invariant: it gives positions to new nodes, *)
(* and whatever it moves in the pool keeps exact books exact.               *)
LEMMA TrainStep ==
  ASSUME FileInv, Train
  PROVE  FileInv'
<1>1. PICK G, D : D = Differences /\ LoopInv(G, D) /\ (hidden \/ G = {})
  BY DEF FileInv
<1>2. D \in SUBSET Nat /\ 0 \in D
  BY <1>1, DifferencesFacts
<1>3. Step /\ Positioned /\ loads' = loads /\ hidden' = hidden
  BY DEF Train, Step
<1>4. LoopInv(G, D)' /\ PoolMoves /\ pc' \in Running
  BY <1>1, <1>2, <1>3, LoopStep
<1>5. \E H, E : E = Differences' /\ LoopInv(H, E)' /\ (hidden' \/ H = {})
  <2>1. D = Differences'
    BY <1>1, <1>3 DEF Differences
  <2> QED
    BY <1>1, <1>3, <1>4, <2>1
<1>6. Books'
  <2> SUFFICES ASSUME ~hidden PROVE PoolInv' /\ pc' # "null_position"
    BY <1>3 DEF Books
  <2>1. PoolInv
    BY DEF FileInv, Books
  <2> QED
    BY <1>4, <2>1, PoolMovesInv DEF Running
<1>7. Bounds'
  <2>1. loads \in 0 .. MaxLoads /\ hidden \in BOOLEAN /\ unset \subseteq Slots
    BY DEF FileInv, Bounds
  <2>2. unset' \subseteq Slots' /\ unset' \cap Occupied' = {}
    <3>1. size' = size => Slots' = Slots
      BY DEF Slots
    <3> QED
      BY <1>3, <2>1, <3>1 DEF Positioned, Occupied
  <2> QED
    BY <1>3, <1>4, <2>1, <2>2 DEF Bounds
<1> QED
  BY <1>5, <1>6, <1>7 DEF FileInv

(* A restart keeps it, with the hidden slots among the lost ones.           *)
LEMMA RestartKeeps ==
  ASSUME FileInv, Restart
  PROVE  FileInv'
<1>1. PICK G, D : D = Differences /\ LoopInv(G, D) /\ (hidden \/ G = {})
  BY DEF FileInv
<1>2. PICK H : H = Hidden
  OBVIOUS
<1>3. /\ LoopInv(G \cup H, Nat)'
      /\ H = {} => UNCHANGED poolVars
      /\ unset' \subseteq Slots' /\ unset' \cap Occupied' = {}
      /\ pc' \in {"seed", "aborted", "search"}
  BY <1>1, <1>2, DifferencesFacts, RestartStep
<1>4. loads < MaxLoads /\ loads' = loads + 1 /\ hidden' = (hidden \/ H # {})
  BY <1>2 DEF Restart
<1>5. loads \in 0 .. MaxLoads /\ hidden \in BOOLEAN
  BY DEF FileInv, Bounds
<1>6. \E F, E : E = Differences' /\ LoopInv(F, E)' /\ (hidden' \/ F = {})
  <2>1. Differences' = Nat
    BY <1>4, <1>5 DEF Differences
  <2>2. hidden' \/ G \cup H = {}
    BY <1>1, <1>4, <1>5
  <2> QED
    BY <1>3, <2>1, <2>2
<1>7. Books'
  <2> SUFFICES ASSUME ~hidden' PROVE PoolInv' /\ pc' # "null_position"
    BY DEF Books
  <2>1. PoolInv /\ UNCHANGED poolVars
    BY <1>3, <1>4, <1>5 DEF FileInv, Books
  <2> QED
    BY <1>3, <2>1, PoolUnchangedInv
<1>8. Bounds'
  <2>1. loads' \in 0 .. MaxLoads /\ hidden' \in BOOLEAN
    BY <1>4, <1>5, FileAssumption
  <2> QED
    BY <1>3, <2>1 DEF Bounds, Running
<1> QED
  BY <1>6, <1>7, <1>8 DEF FileInv

(* The neighbours of a node are nodes, or slots that were lost. *)
LEMMA NeighboursHeld ==
  ASSUME NEW K, NEW D, Sound(g, Slots, K, D), NEW a \in Slots
  PROVE  Neighbours(g, a) = {e.nr : e \in Entries(g[a])} /\ Neighbours(g, a) \subseteq K
<1>1. DOMAIN g[a].edges = 1 .. Len(g[a].edges)
  BY DEF Sound, Node
<1>2. Neighbours(g, a) = {e.nr : e \in Entries(g[a])}
  BY <1>1 DEF Neighbours, Entries
<1> QED
  BY <1>2 DEF Sound

(* A null position is reached only through a slot that was lost.            *)
LEMMA NullPositionKeeps ==
  ASSUME FileInv, NullPosition
  PROVE  FileInv'
<1>1. PICK G, D : D = Differences /\ LoopInv(G, D) /\ (hidden \/ G = {})
  BY DEF FileInv
<1>2. /\ UNCHANGED <<poolVars, g, s, winner, second, edg, utilityVars>>
      /\ UNCHANGED fileVars /\ pc' = "null_position"
  BY DEF NullPosition
<1>3. LoopInv(G, D)'
  BY <1>1, <1>2, StandstillStep
<1>4. hidden
  <2> SUFFICES ASSUME ~hidden PROVE FALSE
    OBVIOUS
  <2>1. PICK a \in Visible : Neighbours(g, a) \cap unset # {}
    BY DEF NullPosition
  <2>2. LeakyPool({}) /\ Sound(g, Slots, Held({}), D)
    BY <1>1 DEF LoopInv, GraphFor
  <2>3. Neighbours(g, a) \subseteq Held({})
    BY <2>1, <2>2, NeighboursHeld DEF Visible
  <2>4. Held({}) = Occupied /\ unset \cap Occupied = {}
    BY DEF Held, FileInv, Bounds
  <2> QED
    BY <2>1, <2>3, <2>4
<1>5. loads' = loads /\ hidden' = hidden /\ unset' = unset
  BY <1>2 DEF fileVars
<1>6. \E H, E : E = Differences' /\ LoopInv(H, E)' /\ (hidden' \/ H = {})
  <2>1. D = Differences'
    BY <1>1, <1>5 DEF Differences
  <2> QED
    BY <1>1, <1>3, <1>5, <2>1
<1>7. Slots' = Slots /\ Occupied' = Occupied
  BY <1>2, PoolSame
<1>8. Bounds'
  BY <1>2, <1>5, <1>7 DEF FileInv, Bounds
<1>9. Books'
  BY <1>4, <1>5 DEF Books
<1> QED
  BY <1>6, <1>8, <1>9 DEF FileInv

(* Standing still keeps it.                                                *)
LEMMA OverKeeps ==
  ASSUME FileInv, UNCHANGED <<vars, fileVars>>
  PROVE  FileInv'
<1>1. PICK G, D : D = Differences /\ LoopInv(G, D) /\ (hidden \/ G = {})
  BY DEF FileInv
<1>2. /\ UNCHANGED <<poolVars, g, s, winner, second, edg, utilityVars>>
      /\ pc' = pc /\ loads' = loads /\ hidden' = hidden /\ unset' = unset
      /\ UNCHANGED poolVars
  BY DEF vars, algVars, fileVars
<1>3. LoopInv(G, D)'
  BY <1>1, <1>2, StandstillStep
<1>4. \E H, E : E = Differences' /\ LoopInv(H, E)' /\ (hidden' \/ H = {})
  <2>1. D = Differences'
    BY <1>1, <1>2 DEF Differences
  <2> QED
    BY <1>1, <1>2, <1>3, <2>1
<1>5. Slots' = Slots /\ Occupied' = Occupied
  BY <1>2, PoolSame
<1>6. Bounds'
  BY <1>2, <1>5 DEF FileInv, Bounds
<1>7. Books'
  BY <1>2, PoolUnchangedInv DEF FileInv, Books
<1> QED
  BY <1>4, <1>6, <1>7 DEF FileInv

(* So does every step.                                                      *)
LEMMA FileInvStep ==
  ASSUME FileInv, [FNext]_<<vars, fileVars>>
  PROVE  FileInv'
<1>1. CASE Train
  BY <1>1, TrainStep
<1>2. CASE Restart
  BY <1>2, RestartKeeps
<1>3. CASE NullPosition
  BY <1>3, NullPositionKeeps
<1>4. CASE UNCHANGED <<vars, fileVars>>
  BY <1>4, OverKeeps
<1> QED
  BY <1>1, <1>2, <1>3, <1>4 DEF FNext, Over
-----------------------------------------------------------------------------
(* The inductive invariant holds however training and restarts alternate,   *)
(* and whatever the files have lost.                                        *)
THEOREM FileInvariant == FSpec => []FileInv
<1>1. FileInv /\ [FNext]_<<vars, fileVars>> => FileInv'
  BY FileInvStep
<1> QED
  BY <1>1, InitFileInv, PTL DEF FSpec

(* A graph restored from a file without hidden nodes trains as soundly as   *)
(* the one that was saved, and after any file the types hold and no node    *)
(* with edges counts as an orphan.                                          *)
THEOREM FileRestoredSound == FSpec => []RestoredSound
<1>1. FileInv => RestoredSound
  <2> SUFFICES ASSUME FileInv PROVE RestoredSound
    OBVIOUS
  <2>1. PICK G, D : D = Differences /\ LoopInv(G, D) /\ (hidden \/ G = {})
    BY DEF FileInv
  <2>2. PoolTypeOK /\ Sound(g, Slots, Held(G), D)
    BY <2>1 DEF LoopInv, GraphFor, LeakyPool
  <2>3. FileTypeOK
    <3>1. GraphTypeOK
      BY <2>2 DEF Sound, GraphTypeOK, Node, Edge, NodeType
    <3> QED
      BY <3>1 DEF FileInv, Bounds, Running, FileTypeOK
  <2>4. NoFalseOrphan
    <3> SUFFICES ASSUME NEW i \in Occupied
                 PROVE  IF loads = 0 THEN g[i].edgesCount = Len(g[i].edges)
                                     ELSE g[i].edgesCount >= Len(g[i].edges)
      BY DEF NoFalseOrphan, Degree
    <3>1. g[i] \in Node(Slots) /\ Excess(g[i]) \in D
      BY <2>2, OccupiedInSlots DEF Sound, Held
    <3>2. CASE loads = 0
      BY <2>1, <3>1, <3>2, CountWithin DEF Differences
    <3>3. CASE loads # 0
      BY <2>1, <3>1, <3>3, CountWithin DEF Differences
    <3> QED
      BY <3>2, <3>3
  <2>5. ASSUME ~hidden
        PROVE  /\ FreeListExact /\ CountExact /\ MaximumIndexBounds
               /\ EdgesMirrored /\ FreeSlotsClear
               /\ pc # "null_position"
    <3>1. PoolInv /\ pc # "null_position"
      BY <2>5 DEF FileInv, Books
    <3>2. Held(G) = Occupied
      BY <2>1, <2>5 DEF Held
    <3>3. EdgesMirrored /\ FreeSlotsClear
      BY <2>2, <3>2, SoundMirrored, SoundClear
    <3> QED
      BY <3>1, <3>3 DEF PoolInv
  <2> QED
    BY <2>3, <2>4, <2>5 DEF RestoredSound
<1> QED
  BY <1>1, FileInvariant, PTL

(* However much the files have lost, newNode hands out no number in use:    *)
(* what is lost is on neither side.                                         *)
THEOREM FileNumbersFresh == FSpec => []NumbersFresh
<1>1. FileInv => NumbersFresh
  <2> SUFFICES ASSUME FileInv, first_free # NoSlot PROVE ~occupied[first_free]
    BY DEF NumbersFresh
  <2>1. PICK G, D : LoopInv(G, D)
    BY DEF FileInv
  <2>2. first_free \in Waiting(G)
    BY <2>1, FreeListHead DEF LoopInv
  <2> QED
    BY <2>2 DEF Waiting, FreeSlots, Occupied
<1> QED
  BY <1>1, FileInvariant, PTL

(* Saving and loading give back what was shown: the visible nodes and the   *)
(* edges among them, each once and young.                                   *)
LEMMA RestartShows ==
  ASSUME FileInv, Restart
  PROVE  /\ Visible' = Visible
         /\ EdgesAmong(g', Visible) = EdgesAmong(g, Visible)
         /\ \A i \in Visible : OnceAndYoung(g'[i].edges)
<1>1. PICK G, D : D = Differences /\ LoopInv(G, D)
  BY DEF FileInv
<1>2. /\ D \in SUBSET Nat /\ PoolTypeOK /\ Sound(g, Slots, Held(G), D)
      /\ Held(G) \in SUBSET Slots /\ Visible \subseteq Held(G)
  BY <1>1, DifferencesFacts, VisibleHeld DEF LoopInv, GraphFor
<1>3. /\ Slots' = Slots /\ nodes' = nodes /\ g' = RestoredSlots
      /\ occupied' = [i \in Slots |-> ExistsNode(i)]
  BY <1>2, RestartEffect
<1>4. Visible' = Visible
  <2>1. Visible' = {i \in Slots : i < nodes /\ ExistsNode(i)}
    BY <1>3 DEF Visible, ExistsNode
  <2> QED
    BY <2>1 DEF Visible, ExistsNode
<1>5. Sound(RestoredSlots, Slots, Held(G), Nat)
  BY <1>2, RestoredGraph
<1>6. ASSUME NEW a \in Visible, NEW b \in Visible
      PROVE  b \in Neighbours(g', a) <=> b \in Neighbours(g, a)
  <2>1. a \in Slots /\ b \in Slots /\ ExistsNode(a) /\ ExistsNode(b) /\ a \in Int /\ b \in Int
    BY <1>2 DEF Visible, Slots, PoolTypeOK
  <2>2. b \in Neighbours(g, a) <=> \E d \in Entries(g[a]) : d.nr = b
    BY <1>2, <2>1, NeighboursHeld
  <2>3. b \in Neighbours(g', a) <=> \E e \in Entries(RestoredSlots[a]) : e.nr = b
    <3>1. DOMAIN RestoredSlots[a].edges = 1 .. Len(RestoredSlots[a].edges)
      BY <1>5, <2>1 DEF Sound, Node
    <3> QED
      BY <1>3, <3>1 DEF Neighbours, Entries
  <2>4. \A d \in Entries(g[a]) : d.nr # a
    BY <1>2, <2>1 DEF Sound
  <2>5. ASSUME NEW e \in Entries(RestoredSlots[a]), e.nr = b
        PROVE  \E d \in Entries(g[a]) : d.nr = b
    <3>1. PICK c \in Slots : e = NewEdge(c) /\ \E d \in Entries(g[a]) : d.nr = c
      BY <1>2, <2>1, RestoredEntries
    <3>2. c = b
      BY <2>5, <3>1 DEF NewEdge
    <3> QED
      BY <3>1, <3>2
  <2>6. ASSUME NEW d \in Entries(g[a]), d.nr = b
        PROVE  \E e \in Entries(RestoredSlots[a]) : e.nr = b
    <3>1. a < b \/ b < a
      BY <2>1, <2>4, <2>6
    <3>2. NewEdge(b) \in Entries(RestoredSlots[a])
      BY <1>2, <2>1, <2>6, <3>1, RestoredEntries
    <3> QED
      BY <3>2 DEF NewEdge
  <2> QED
    BY <2>2, <2>3, <2>5, <2>6
<1>7. EdgesAmong(g', Visible) = EdgesAmong(g, Visible)
  BY <1>6 DEF EdgesAmong
<1>8. ASSUME NEW i \in Visible PROVE OnceAndYoung(g'[i].edges)
  <2>1. /\ i \in Slots /\ Distinct(RestoredSlots[i])
        /\ DOMAIN RestoredSlots[i].edges = 1 .. Len(RestoredSlots[i].edges)
    BY <1>5 DEF Visible, Sound, Node
  <2>2. \A e \in Entries(RestoredSlots[i]) : e.age = 0
    <3> SUFFICES ASSUME NEW e \in Entries(RestoredSlots[i]) PROVE e.age = 0
      OBVIOUS
    <3>1. PICK b : e = NewEdge(b)
      BY <1>2, <2>1, RestoredEntries
    <3> QED
      BY <3>1 DEF NewEdge
  <2> QED
    BY <1>3, <2>1, <2>2 DEF OnceAndYoung, Distinct, Entries
<1> QED
  BY <1>4, <1>7, <1>8

(* No restart loses a visible node or an edge between two of them.          *)
THEOREM FileVisibleRestored == FSpec => VisibleRestored
<1> DEFINE Kept == loads' # loads =>
                     /\ Visible' = Visible
                     /\ EdgesAmong(g', Visible) = EdgesAmong(g, Visible)
                     /\ \A i \in Visible : OnceAndYoung(g'[i].edges)
<1>1. FileInv /\ [FNext]_<<vars, fileVars>> => [Kept]_<<vars, fileVars>>
  <2> SUFFICES ASSUME FileInv, FNext, loads' # loads PROVE Kept
    BY DEF FNext
  <2>1. Restart
    BY DEF FNext, Train, NullPosition, Over, fileVars
  <2> QED
    BY <2>1, RestartShows
<1> QED
  BY <1>1, FileInvariant, PTL DEF FSpec, VisibleRestored
=============================================================================
