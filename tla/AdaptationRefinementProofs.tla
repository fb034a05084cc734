---------------------- MODULE AdaptationRefinementProofs ----------------------
(****************************************************************************)
(* The proof that GNGAdaptation implements NeuralGas, for every pool size,  *)
(* max_nodes, maximum age, m_lambda and choice of the utility option.       *)
(*                                                                          *)
(* A network's edges are a function from pairs of nodes to ages; NetOf says *)
(* that such a function is what slots of a graph hold.  It determines the   *)
(* function, so that a step of the abstract network is shown by showing     *)
(* NetOf of the slots it leaves.                                            *)
(****************************************************************************)
EXTENDS AdaptationRefinement, GNGAdaptationProofs

IsMap(A) == A = [x \in DOMAIN A |-> A[x]]

NetOf(h, occ, A) ==
    /\ IsMap(A)
    /\ \A x \in DOMAIN A : \E a \in occ : \E e \in Entries(h[a]) : x = {a, e.nr}
    /\ \A a \in occ : \A e \in Entries(h[a]) :
          {a, e.nr} \in DOMAIN A /\ A[{a, e.nr}] = e.age

(* The input under way: the edges it is about, their ages before the scan   *)
(* passes them (an edge just linked has age 0) and after.                   *)
InputEdges == DOMAIN before.age \cup {{winner, second}}

AgeBefore(A, x) == IF x \in DOMAIN A THEN A[x] ELSE 0

AgeAfter(A, w, v, x) == IF x = {w, v} THEN 0 ELSE IF w \in x THEN A[x] + 1 ELSE A[x]

Holds(x) == \E a \in Occupied : \E e \in Entries(g[a]) : x = {a, e.nr}

(* Half way through a scan: the edges of the winner are passed up to edg;   *)
(* an edge is gone only if it is too old after the input, a node only with  *)
(* the last of such edges; everything else is as it was.                    *)
NodesSoFar ==
    /\ Occupied \subseteq before.V
    /\ before.V # Occupied => OrphansLeave
    /\ \A n \in before.V \ Occupied :
          /\ {winner, n} \in InputEdges
          /\ ~(AgeAfter(before.age, winner, second, {winner, n}) <= MaxAge)

EdgesLeft ==
    \A x \in InputEdges : AgeAfter(before.age, winner, second, x) <= MaxAge => Holds(x)

OtherEdges ==
    \A a \in Occupied \ {winner} : \A e \in Entries(g[a]) :
        e.nr # winner => /\ {a, e.nr} \in InputEdges
                         /\ e.age = AgeAfter(before.age, winner, second, {a, e.nr})

WinnerEdges ==
    \A k \in 1 .. Len(g[winner].edges) :
        LET e == g[winner].edges[k]
            x == {winner, e.nr}
        IN  /\ x \in InputEdges
            /\ e.age = IF k < edg THEN AgeAfter(before.age, winner, second, x)
                                  ELSE AgeBefore(before.age, x)

InputUnderWay == NodesSoFar /\ EdgesLeft /\ OtherEdges /\ WinnerEdges

(* What the history variable knows.                                         *)
HInv ==
    /\ pc # "scan" => before.V = Occupied /\ NetOf(g, Occupied, before.age)
    /\ pc = "scan" => InputUnderWay
    /\ pc = "seed" => nodes < 2
-----------------------------------------------------------------------------
(* Network of AdaptationRefinement, of any slots.                           *)
EdgesIn(h, occ) == UNION {{{a, h[a].edges[k].nr} : k \in DOMAIN h[a].edges} : a \in occ}

AgeIn(h, e) ==
    LET a == CHOOSE x \in e : TRUE
        b == CHOOSE x \in e : x # a
    IN  h[a].edges[EdgeTo(h[a].edges, b)].age

(* The undirected edges of a sound graph are the pairs of a node and an end of one of its
   entries. *)
LEMMA EdgesInEntries ==
  ASSUME NEW S, NEW occ \in SUBSET S, NEW D, NEW h, Sound(h, S, occ, D), NEW x
  PROVE  x \in EdgesIn(h, occ) <=> \E a \in occ : \E e \in Entries(h[a]) : x = {a, e.nr}
<1>1. \A a \in occ : DOMAIN h[a].edges = 1 .. Len(h[a].edges)
  BY DEF Sound, Node
<1>2. ASSUME NEW a \in occ
      PROVE  x \in {{a, h[a].edges[k].nr} : k \in DOMAIN h[a].edges}
                <=> \E e \in Entries(h[a]) : x = {a, e.nr}
  BY <1>1 DEF Entries
<1>3. x \in EdgesIn(h, occ)
        <=> \E a \in occ : x \in {{a, h[a].edges[k].nr} : k \in DOMAIN h[a].edges}
  BY DEF EdgesIn
<1> QED
  BY <1>2, <1>3

(* Either end of an edge has the entry whose age is the edge's.             *)
LEMMA AgeInEntry ==
  ASSUME NEW S, NEW occ \in SUBSET S, NEW D, NEW h, Sound(h, S, occ, D),
         NEW p \in occ, NEW e \in Entries(h[p])
  PROVE  AgeIn(h, {p, e.nr}) = e.age
<1> DEFINE x == {p, e.nr}
           a == CHOOSE y \in x : TRUE
           b == CHOOSE y \in x : y # a
<1>1. /\ e.nr \in occ \ {p}
      /\ [nr |-> p, age |-> e.age] \in Entries(h[e.nr])
  BY DEF Sound
<1>2. a \in x
  OBVIOUS
<1> HIDE DEF a
<1>3. \E y \in x : y # a
  BY <1>1
<1>4. b \in x /\ b # a
  BY <1>3
<1> HIDE DEF b
<1>5. \E d \in Entries(h[a]) : d.nr = b /\ d.age = e.age
  <2>1. CASE a = p
    BY <1>4, <2>1
  <2>2. CASE a = e.nr
    <3>1. b = p
      BY <1>4, <2>2
    <3> DEFINE d == [nr |-> p, age |-> e.age]
    <3>2. d \in Entries(h[a]) /\ d.nr = b /\ d.age = e.age
      BY <1>1, <2>2, <3>1
    <3> QED
      BY <3>2
  <2> QED
    BY <1>2, <2>1, <2>2
<1>6. h[a] \in Node(S) /\ Distinct(h[a])
  BY <1>1, <1>2 DEF Sound
<1>7. PICK d \in Entries(h[a]) : d.nr = b /\ d.age = e.age
  BY <1>5
<1>8. h[a].edges[EdgeTo(h[a].edges, b)] = d
  <2> DEFINE v == h[a]
  <2>1. v \in Node(S) /\ Distinct(v) /\ d \in Entries(v) /\ b = d.nr
    BY <1>6, <1>7
  <2> HIDE DEF v
  <2>2. v.edges[EdgeTo(v.edges, b)] = d
    BY <2>1, EdgeToFacts
  <2> QED
    BY <2>2 DEF v
<1>9. AgeIn(h, x) = h[a].edges[EdgeTo(h[a].edges, b)].age
  BY DEF AgeIn, a, b
<1> QED
  BY <1>7, <1>8, <1>9

(* The ages that AdaptationRefinement reads off a sound graph describe it. *)
LEMMA NetworkIsNet ==
  ASSUME NEW S, NEW occ \in SUBSET S, NEW D, NEW h, Sound(h, S, occ, D)
  PROVE  NetOf(h, occ, [x \in EdgesIn(h, occ) |-> AgeIn(h, x)])
<1> DEFINE A == [x \in EdgesIn(h, occ) |-> AgeIn(h, x)]
<1>1. IsMap(A)
  BY DEF IsMap
<1>2. \A x \in DOMAIN A : \E a \in occ : \E e \in Entries(h[a]) : x = {a, e.nr}
  BY EdgesInEntries
<1>3. ASSUME NEW a \in occ, NEW e \in Entries(h[a])
      PROVE  {a, e.nr} \in DOMAIN A /\ A[{a, e.nr}] = e.age
  BY EdgesInEntries, AgeInEntry
<1> QED
  BY <1>1, <1>2, <1>3 DEF NetOf

(* A graph is described by one function of ages only. *)
LEMMA NetUnique ==
  ASSUME NEW occ, NEW h, NEW A, NEW B, NetOf(h, occ, A), NetOf(h, occ, B)
  PROVE  A = B
<1>1. /\ A = [x \in DOMAIN A |-> A[x]]
      /\ B = [x \in DOMAIN B |-> B[x]]
  BY DEF NetOf, IsMap
<1>2. ASSUME NEW x \in DOMAIN A PROVE x \in DOMAIN B /\ A[x] = B[x]
  <2>0. PICK a \in occ : \E e \in Entries(h[a]) : x = {a, e.nr}
    BY DEF NetOf
  <2>1. PICK e \in Entries(h[a]) : x = {a, e.nr}
    BY <2>0
  <2>2. {a, e.nr} \in DOMAIN B /\ A[{a, e.nr}] = e.age /\ B[{a, e.nr}] = e.age
    BY DEF NetOf
  <2> QED
    BY <2>1, <2>2
<1>3. ASSUME NEW x \in DOMAIN B PROVE x \in DOMAIN A
  <2>0. PICK a \in occ : \E e \in Entries(h[a]) : x = {a, e.nr}
    BY DEF NetOf
  <2>1. PICK e \in Entries(h[a]) : x = {a, e.nr}
    BY <2>0
  <2> QED
    BY <2>1 DEF NetOf
<1> QED
  BY <1>1, <1>2, <1>3

(* The history variable, whenever it is brought up to date.                 *)
LEMMA RememberNet ==
  ASSUME Remember, pc' # "scan", Sound(g', Slots', Occupied', {0})
  PROVE  /\ before'.V = Occupied'
         /\ NetOf(g', Occupied', before'.age)
         /\ before'.last = LastInput
<1>1. PICK l \in {LastInput} : before' = Network(l)'
  BY DEF Remember
<1>2. before' = [V |-> Occupied', age |-> [x \in EdgesIn(g', Occupied') |-> AgeIn(g', x)],
                 last |-> LastInput]
  BY <1>1 DEF Network, EdgeSet, AgeOf, EdgesIn, AgeIn
<1>3. Occupied' \in SUBSET Slots'
  BY DEF Occupied
<1>4. NetOf(g', Occupied', [x \in EdgesIn(g', Occupied') |-> AgeIn(g', x)])
  BY <1>3, NetworkIsNet
<1> QED
  BY <1>2, <1>4
-----------------------------------------------------------------------------
(* The instance has a copy of the module FiniteSets.                        *)
LEMMA SameCardinality == \A S : NG!Cardinality(S) = Cardinality(S)
  BY DEF NG!Cardinality, Cardinality

(* The history invariant holds initially. *)
LEMMA HInitInv == HInit => HInv
<1> SUFFICES ASSUME HInit PROVE HInv
  OBVIOUS
<1>1. AInv
  BY InitAInv DEF HInit
<1>2. before.V = Occupied /\ before.age = [x \in EdgesIn(g, Occupied) |-> AgeIn(g, x)]
  BY DEF HInit, Network, EdgeSet, AgeOf, EdgesIn, AgeIn
<1>3. NetOf(g, Occupied, before.age)
  BY <1>1, <1>2, OccupiedInSlots, NetworkIsNet DEF AInv, GraphInv
<1>4. nodes = 0 /\ pc = "seed"
  BY DEF HInit, Init, PoolInit
<1> QED
  BY <1>2, <1>3, <1>4 DEF HInv

(* A pool that has lost no slot and counters that are ahead by nothing, as  *)
(* the lemmas about the steps of the loop want them.                        *)
LEMMA NothingLost ==
  ASSUME AInv
  PROVE  /\ LoopInv({}, {0}) /\ LeakyPool({}) /\ GraphFor({}, {0})
         /\ Held({}) = Occupied /\ Held({})' = Occupied'
         /\ {0} \in SUBSET Nat /\ 0 \in {0}
<1>1. LoopInv({}, {0})
  BY LoopExact
<1> QED
  BY <1>1 DEF LoopInv, Held

(* randomInit: a node, and no edge.                                         *)
LEMMA SeedStep ==
  ASSUME AInv, HInv, AInv', RandomInit, Remember
  PROVE  /\ HInv'
         /\ NG!Seed
<1>1. /\ pc = "seed" /\ NewNode /\ g' = WithNewNode(NewIndex)
      /\ pc' = IF nodes' = 2 THEN "search" ELSE "seed"
  BY DEF RandomInit
<1>2. /\ NewIndex \in Slots' \ Occupied /\ Occupied' = Occupied \cup {NewIndex}
      /\ Entries(g'[NewIndex]) = {}
      /\ \A x \in Slots : Entries(g'[x]) = Entries(g[x])
  BY <1>1, NothingLost, NewNodeGraph
<1>3. /\ before'.V = Occupied' /\ NetOf(g', Occupied', before'.age)
      /\ before'.last = before.last
  BY <1>1, RememberNet DEF AInv, GraphInv, LastInput
<1>4. before.V = Occupied /\ NetOf(g, Occupied, before.age) /\ nodes < 2
  BY <1>1 DEF HInv
<1>5. NetOf(g', Occupied', before.age)
  BY <1>2, <1>4, OccupiedInSlots DEF NetOf, IsMap
<1>6. before'.age = before.age
  BY <1>3, <1>5, NetUnique
<1>7. nodes' = nodes + 1 /\ nodes \in Nat /\ nodes = Cardinality(Occupied)
  BY <1>1 DEF NewNode, TakeSlot, AInv, PoolInv, PoolTypeOK, CountExact
<1>8. pc' = "seed" => nodes' < 2
  BY <1>1, <1>4, <1>7
<1>9. HInv'
  BY <1>1, <1>3, <1>8 DEF HInv
<1>10. /\ Cardinality(before.V) < 2
       /\ \E c \in before'.V : c \notin before.V /\ before'.V = before.V \cup {c}
       /\ before'.age = before.age /\ before'.last = before.last
  BY <1>2, <1>3, <1>4, <1>6, <1>7
<1> QED
  BY <1>9, <1>10, SameCardinality DEF NG!Seed

(* adapt finds the two nearest neurons: the input begins, nothing of the    *)
(* network is lost yet.                                                     *)
LEMMA BeginStep ==
  ASSUME AInv, HInv, AInv', NEW w \in Slots, NEW v \in Slots, Adapt(w, v), Remember
  PROVE  HInv' /\ before' = before
<1>1. /\ pc = "search" /\ pc' = "scan" /\ before' = before
      /\ winner' = w /\ second' = v /\ edg' = 1
      /\ UNCHANGED poolVars /\ g' = Link(w, v) /\ w # v
      /\ w \in Occupied /\ v \in Occupied
  BY DEF Adapt, Remember, Visible, ExistsNode, Occupied
<1>2. before.V = Occupied /\ NetOf(g, Occupied, before.age) /\ Occupied' = Occupied
  BY <1>1, PoolSame DEF HInv
<1> DEFINE x0 == {w, v}
<1>3. Sound(g, Slots, Occupied, {0}) /\ Occupied \in SUBSET Slots
  BY OccupiedInSlots DEF AInv, GraphInv
<1>4. InputEdges' = DOMAIN before.age \cup {x0}
  BY <1>1 DEF InputEdges
<1>5. /\ \A a \in Occupied \ {w} : \A e \in Entries(g'[a]) : e.nr # w => e \in Entries(g[a])
      /\ \A k \in 1 .. Len(g'[w].edges) :
            \/ g'[w].edges[k] \in Entries(g[w])
            \/ g'[w].edges[k] = NewEdge(v) /\ x0 \notin DOMAIN before.age
      /\ \A a \in Occupied : Entries(g[a]) \subseteq Entries(g'[a])
      /\ \E e \in Entries(g'[w]) : e.nr = v
  <2>1. CASE IsEdge(w, v)
    <3>1. g' = g
      BY <1>1, <2>1 DEF Link
    <3>2. \E e \in Entries(g'[w]) : e.nr = v
      BY <1>3, <2>1, <3>1, IsEdgeEntry
    <3> QED
      BY <3>1, <3>2 DEF Entries
  <2>2. CASE ~IsEdge(w, v)
    <3>1. \A e \in Entries(g[w]) : e.nr # v
      BY <1>3, <2>2, IsEdgeEntry
    <3>2. g' = AddUDEdge(g, w, v)
      BY <1>1, <2>2 DEF Link
    <3>3. Joined(g', g, Slots, w, v)
      BY <1>1, <1>3, <3>1, <3>2, LinkSound
    <3>4. x0 \notin DOMAIN before.age
      <4>1. \A a \in Occupied : \A e \in Entries(g[a]) :
               [nr |-> a, age |-> e.age] \in Entries(g[e.nr])
        BY <1>3 DEF Sound
      <4>2. ASSUME NEW a \in Occupied, NEW e \in Entries(g[a]), x0 = {a, e.nr}
            PROVE  FALSE
        <5>1. CASE a = w /\ e.nr = v
          BY <3>1, <5>1
        <5>2. CASE a = v /\ e.nr = w
          <6> DEFINE d == [nr |-> a, age |-> e.age]
          <6>1. d \in Entries(g[w]) /\ d.nr = v
            BY <4>1, <5>2
          <6> QED
            BY <3>1, <6>1
        <5> QED
          BY <1>1, <4>2, <5>1, <5>2
      <4> QED
        BY <1>2, <4>2 DEF NetOf
    <3>5. ASSUME NEW a \in Occupied \ {w}, NEW e \in Entries(g'[a]), e.nr # w
          PROVE  e \in Entries(g[a])
      <4>1. CASE a = v
        BY <3>3, <3>5, <4>1 DEF Joined, NewEdge
      <4>2. CASE a # v
        BY <1>3, <3>3, <4>2 DEF Joined
      <4> QED
        BY <4>1, <4>2
    <3>6. \A k \in 1 .. Len(g'[w].edges) :
             g'[w].edges[k] \in Entries(g[w]) \/ g'[w].edges[k] = NewEdge(v)
      <4>1. \A k \in 1 .. Len(g'[w].edges) : g'[w].edges[k] \in Entries(g'[w])
        BY DEF Entries
      <4> QED
        BY <3>3, <4>1 DEF Joined
    <3>7. ASSUME NEW a \in Occupied PROVE Entries(g[a]) \subseteq Entries(g'[a])
      BY <1>3, <3>3 DEF Joined
    <3>8. \E e \in Entries(g'[w]) : e.nr = v
      <4>1. NewEdge(v) \in Entries(g'[w]) /\ NewEdge(v).nr = v
        BY <3>3 DEF Joined, NewEdge
      <4> QED
        BY <4>1
    <3> QED
      BY <3>4, <3>5, <3>6, <3>7, <3>8
  <2> QED
    BY <2>1, <2>2
<1>6. NodesSoFar'
  BY <1>1, <1>2 DEF NodesSoFar
<1>7. EdgesLeft'
  <2>1. ASSUME NEW x \in DOMAIN before.age PROVE Holds(x)'
    <3>1. \E a \in Occupied : \E e \in Entries(g[a]) : x = {a, e.nr}
      BY <1>2 DEF NetOf
    <3> QED
      BY <1>2, <1>5, <3>1 DEF Holds
  <2>2. Holds(x0)'
    BY <1>1, <1>2, <1>5 DEF Holds
  <2> QED
    BY <1>4, <2>1, <2>2 DEF EdgesLeft
<1>8. OtherEdges'
  <2> SUFFICES ASSUME NEW a \in Occupied \ {w}, NEW e \in Entries(g'[a]), e.nr # w
               PROVE  /\ {a, e.nr} \in InputEdges'
                      /\ e.age = AgeAfter(before.age, w, v, {a, e.nr})
    BY <1>1, <1>2 DEF OtherEdges
  <2>1. {a, e.nr} \in DOMAIN before.age /\ before.age[{a, e.nr}] = e.age
    BY <1>2, <1>5 DEF NetOf
  <2> QED
    BY <1>4, <2>1 DEF AgeAfter
<1>9. WinnerEdges'
  <2> SUFFICES ASSUME NEW k \in 1 .. Len(g'[w].edges), NEW e, e = g'[w].edges[k]
               PROVE  {w, e.nr} \in InputEdges' /\ e.age = AgeBefore(before.age, {w, e.nr})
    BY <1>1 DEF WinnerEdges
  <2>1. CASE e \in Entries(g[w])
    <3>1. {w, e.nr} \in DOMAIN before.age /\ before.age[{w, e.nr}] = e.age
      BY <1>1, <1>2, <2>1 DEF NetOf, IsMap
    <3> QED
      BY <1>4, <3>1 DEF AgeBefore
  <2>2. CASE e = NewEdge(v) /\ x0 \notin DOMAIN before.age
    BY <1>4, <2>2 DEF NewEdge, AgeBefore
  <2> QED
    BY <1>5, <2>1, <2>2
<1> QED
  BY <1>1, <1>6, <1>7, <1>8, <1>9 DEF HInv, InputUnderWay
-----------------------------------------------------------------------------

(* Deleting a node does not change the size of the pool. *)
LEMMA DeletedSlots ==
  ASSUME NEW x, DeleteNode(x) \/ UNCHANGED poolVars
  PROVE  Slots' = Slots
BY DEF DeleteNode, poolVars, Slots

(* The vectors themselves, which the scan walks along.                      *)
LEMMA AgedVector ==
  ASSUME NEW S, NEW occ \in SUBSET S, NEW D, NEW h, Sound(h, S, occ, D), NEW a \in S,
         NEW k \in 1 .. Len(h[a].edges), NEW now \in Nat,
         NEW e, e = [nr |-> h[a].edges[k].nr, age |-> now]
  PROVE  BothAged(h, a, k, now)[a].edges = [h[a].edges EXCEPT ![k] = e]
<1> DEFINE b == h[a].edges[k].nr
<1>1. h[a] \in Node(S)
  BY DEF Sound
<1>2. h[a].edges[k] \in Entries(h[a])
  BY DEF Entries
<1>3. b \in S /\ b # a
  BY <1>2 DEF Sound
<1>4. BothAged(h, a, k, now)[a] = [h[a] EXCEPT !.edges[k] = e]
  BY <1>3 DEF BothAged, Sound
<1> QED
  BY <1>1, <1>4 DEF Node

(* removeUDEdge closes the gap: the entries behind the erased one move one place to the
   front. *)
LEMMA UnlinkedVector ==
  ASSUME NEW S, NEW node \in Node(S), Distinct(node),
         NEW k \in 1 .. Len(node.edges), NEW n, n = node.edges[k].nr
  PROVE  /\ Len(Unlinked(node, n).edges) = Len(node.edges) - 1
         /\ \A j \in 1 .. Len(node.edges) - 1 :
               Unlinked(node, n).edges[j] = IF j < k THEN node.edges[j] ELSE node.edges[j + 1]
<1> DEFINE d == node.edges[k]
           r == EdgeTo(node.edges, n)
<1>1. d \in Entries(node) /\ n = d.nr
  BY DEF Entries
<1>2. r \in 1 .. Len(node.edges) /\ node.edges[r] = d
  <2> HIDE DEF d
  <2> QED
    BY <1>1, EdgeToFacts
<1>3. r = k
  BY <1>1, <1>2 DEF Distinct
<1>4. Unlinked(node, n).edges = RemoveAt(node.edges, k)
  BY <1>3 DEF Unlinked
<1>5. node.edges \in Seq(Edge(S))
  BY DEF Node
<1> DEFINE v == node.edges
<1> HIDE DEF d, r
<1>6. v \in Seq(Edge(S)) /\ k \in 1 .. Len(v)
  BY <1>5
<1> HIDE DEF v
<1>7. /\ Len(RemoveAt(v, k)) = Len(v) - 1
      /\ \A j \in 1 .. Len(v) - 1 : RemoveAt(v, k)[j] = IF j < k THEN v[j] ELSE v[j + 1]
  BY <1>6, RemoveAtFacts
<1> QED
  BY <1>4, <1>7 DEF v

(* The edge a pass is about gets the age the input gives it.                *)
LEMMA ScanAgeIsAgeAfter ==
  ASSUME AInv, HInv, ScanEdge
  PROVE  /\ {winner, ScanOther} \in InputEdges
         /\ ScanAge = AgeAfter(before.age, winner, second, {winner, ScanOther})
<1> DEFINE e == g[winner].edges[edg]
           x == {winner, ScanOther}
<1>1. /\ pc = "scan" /\ edg \in 1 .. Len(g[winner].edges)
      /\ e = [nr |-> ScanOther, age |-> e.age] /\ e.age \in Nat
      /\ ScanOther # winner
  BY NothingLost, ScanEdgeFacts
<1>2. WinnerEdges
  BY <1>1 DEF HInv, InputUnderWay
<1>3. e.nr = ScanOther
  BY DEF ScanOther
<1>4. /\ {winner, e.nr} \in InputEdges
      /\ e.age = AgeBefore(before.age, {winner, e.nr})
  <2>1. ASSUME NEW k \in 1 .. Len(g[winner].edges), ~(k < edg)
        PROVE  /\ {winner, g[winner].edges[k].nr} \in InputEdges
               /\ g[winner].edges[k].age = AgeBefore(before.age, {winner, g[winner].edges[k].nr})
    BY <1>2, <2>1 DEF WinnerEdges
  <2>2. edg \in Int /\ ~(edg < edg)
    BY <1>1
  <2> QED
    BY <1>1, <2>1, <2>2
<1>5. ScanAge = IF ScanOther = second THEN 0 ELSE e.age + 1
  BY DEF ScanAge
<1> HIDE DEF e
<1>6. CASE ScanOther = second
  BY <1>3, <1>4, <1>5, <1>6 DEF AgeAfter
<1>7. CASE ScanOther # second
  <2>1. x # {winner, second}
    BY <1>1, <1>7
  <2>2. x \in DOMAIN before.age
    BY <1>3, <1>4, <2>1 DEF InputEdges
  <2> QED
    BY <1>3, <1>4, <1>5, <1>7, <2>1, <2>2 DEF AgeAfter, AgeBefore
<1> QED
  BY <1>6, <1>7

(* One pass of the loop: the input goes on, the network does not notice.    *)
LEMMA PassStep ==
  ASSUME AInv, HInv, AInv', ScanEdge, Remember
  PROVE  HInv' /\ before' = before
<1> DEFINE w == winner
           o == ScanOther
           A == before.age
           now == ScanAge
           aged == AfterAging
<1>1. /\ Sound(g, Slots, Occupied, {0}) /\ w \in Occupied /\ w \in Slots
      /\ edg \in 1 .. Len(g[w].edges)
      /\ g[w].edges[edg].nr = o /\ o \in Occupied \ {w} /\ o \in Slots /\ now \in Nat
      /\ Sound(aged, Slots, Occupied, {0})
      /\ aged[w].edges[edg] = [nr |-> o, age |-> now]
      /\ Altered(aged, g, Slots, w, o, now)
      /\ pc = "scan"
  BY NothingLost, ScanEdgeFacts
<1>2. /\ g' = IF now > MaxAge THEN RemoveUDEdge(aged, w, o) ELSE aged
      /\ IF now > MaxAge /\ OrphansLeave /\ Orphan(g'[o]) THEN DeleteNode(o)
                                                          ELSE UNCHANGED poolVars
      /\ edg' = NextEdge(now > MaxAge)
      /\ winner' = w /\ second' = second /\ UNCHANGED utilityVars
  BY NothingLost, ScanEdgeFacts
<1>3. pc' = "scan"
  BY <1>1, NothingLost, ScanEdgeFacts DEF AInv, AlgTyped, Running
<1>4. before' = before
  BY <1>3 DEF Remember
<1>5. /\ NodesSoFar /\ EdgesLeft /\ OtherEdges /\ WinnerEdges
  BY <1>1 DEF HInv, InputUnderWay
<1>6. {w, o} \in InputEdges /\ now = AgeAfter(A, w, second, {w, o})
  BY ScanAgeIsAgeAfter
<1>7. InputEdges' = InputEdges /\ (OrphansLeave' <=> OrphansLeave)
  BY <1>2, <1>4 DEF InputEdges, OrphansLeave, utilityVars
<1>8. /\ aged = BothAged(g, w, edg, now)
      /\ Len(aged[w].edges) = Len(g[w].edges)
      /\ \A j \in 1 .. Len(g[w].edges) : j # edg => aged[w].edges[j] = g[w].edges[j]
  <2>1. aged = BothAged(g, w, edg, now)
    BY DEF AfterAging
  <2> HIDE DEF w, now, aged
  <2>2. /\ Sound(g, Slots, Occupied, {0}) /\ w \in Slots
        /\ edg \in 1 .. Len(g[w].edges) /\ now \in Nat
    BY <1>1
  <2> DEFINE e == [nr |-> g[w].edges[edg].nr, age |-> now]
  <2>3. e = [nr |-> g[w].edges[edg].nr, age |-> now]
    OBVIOUS
  <2> HIDE DEF e
  <2>4. BothAged(g, w, edg, now)[w].edges = [g[w].edges EXCEPT ![edg] = e]
    BY <2>2, <2>3, OccupiedInSlots, AgedVector
  <2>5. g[w].edges \in Seq(Edge(Slots))
    BY <2>2 DEF Sound, Node
  <2> QED
    BY <2>1, <2>2, <2>4, <2>5
<1>9. /\ Occupied' \subseteq Occupied /\ Occupied \ {o} \subseteq Occupied'
      /\ o \notin Occupied' => now > MaxAge /\ OrphansLeave
  <2>1. CASE DeleteNode(o) /\ now > MaxAge /\ OrphansLeave
    BY <1>1, <2>1, DeleteNodeFrees DEF AInv, PoolInv, DeleteNode, poolVars, Occupied, Slots
  <2>2. CASE UNCHANGED poolVars
    BY <1>1, <2>2, PoolSame
  <2> QED
    BY <1>2, <2>1, <2>2
<1> HIDE DEF o, now, aged
<1>10. NodesSoFar'
  <2>1. Occupied' \subseteq before'.V
    BY <1>4, <1>5, <1>9 DEF NodesSoFar
  <2>2. before'.V # Occupied' => OrphansLeave'
    BY <1>1, <1>4, <1>5, <1>7, <1>9 DEF NodesSoFar
  <2>3. ASSUME NEW n \in before.V \ Occupied'
        PROVE  {w, n} \in InputEdges /\ ~(AgeAfter(A, w, second, {w, n}) <= MaxAge)
    <3>1. CASE n = o
      BY <1>1, <1>6, <1>9, <2>3, <3>1, AdaptationAssumption
    <3>2. CASE n # o
      BY <1>5, <1>9, <3>2 DEF NodesSoFar
    <3> QED
      BY <3>1, <3>2
  <2> QED
    BY <1>2, <1>4, <1>7, <2>1, <2>2, <2>3 DEF NodesSoFar
<1>11. ASSUME now > MaxAge
       PROVE  Parted(g', aged, Slots, w, o)
  <2>1. \E d \in Entries(aged[w]) : d.nr = o
    <3> DEFINE d == [nr |-> o, age |-> now]
    <3>1. d \in Entries(aged[w]) /\ d.nr = o
      BY <1>1 DEF Altered
    <3> QED
      BY <3>1
  <2> QED
    BY <1>1, <1>2, <1>11, <2>1, OccupiedInSlots, UnlinkSound
(* which entries remain *)
<1>12. ASSUME NEW a \in Occupied \ {w}, NEW e \in Entries(g'[a]), e.nr # w
       PROVE  e \in Entries(g[a])
  <2>1. e \in Entries(aged[a])
    <3>1. CASE now > MaxAge
      <4>1. CASE a = o
        BY <1>1, <1>11, <3>1, <4>1 DEF Parted, Others
      <4>2. CASE a # o
        BY <1>1, <1>11, <3>1, <4>2, OccupiedInSlots DEF Parted
      <4> QED
        BY <4>1, <4>2
    <3>2. CASE ~(now > MaxAge)
      BY <1>2, <3>2
    <3> QED
      BY <3>1, <3>2
  <2>2. CASE a = o
    BY <1>1, <1>12, <2>1, <2>2 DEF Altered, Others
  <2>3. CASE a # o
    BY <1>1, <2>1, <2>3, OccupiedInSlots DEF Altered
  <2> QED
    BY <2>2, <2>3
<1>13. ASSUME NEW a \in Occupied, NEW e \in Entries(g[a]), {a, e.nr} # {w, o}
       PROVE  e \in Entries(g'[a])
  <2>1. e \in Entries(aged[a])
    <3>1. CASE a = o \/ a = w
      BY <1>1, <1>13, <3>1 DEF Altered, Others
    <3>2. CASE a # o /\ a # w
      BY <1>1, <3>2, OccupiedInSlots DEF Altered
    <3> QED
      BY <3>1, <3>2
  <2>2. CASE now > MaxAge
    <3>1. CASE a = o \/ a = w
      BY <1>1, <1>11, <1>13, <2>1, <2>2, <3>1 DEF Parted, Others
    <3>2. CASE a # o /\ a # w
      BY <1>1, <1>11, <2>1, <2>2, <3>2, OccupiedInSlots DEF Parted
    <3> QED
      BY <3>1, <3>2
  <2>3. CASE ~(now > MaxAge)
    BY <1>2, <2>1, <2>3
  <2> QED
    BY <2>2, <2>3
<1>14. ASSUME NEW x, x # {w, o}, Holds(x)
       PROVE  Holds(x)'
  <2>1. PICK a \in Occupied : \E e \in Entries(g[a]) : x = {a, e.nr}
    BY <1>14 DEF Holds
  <2>2. PICK e \in Entries(g[a]) : x = {a, e.nr}
    BY <2>1
  <2>3. e \in Entries(g'[a])
    BY <1>13, <1>14, <2>2
  <2>4. a \in Occupied'
    <3>1. Sound(g', Slots', Occupied', {0}) /\ Slots' = Slots
      BY <1>1, <1>2, DeletedSlots DEF AInv, GraphInv
    <3>2. ASSUME a \in Slots' \ Occupied' PROVE FALSE
      <4>1. Occupied' \in SUBSET Slots'
        BY DEF Occupied
      <4>2. Entries(g'[a]) = {}
        BY <3>1, <3>2, <4>1, FreeEmpty
      <4> QED
        BY <2>3, <4>2
    <3> QED
      BY <3>1, <3>2, OccupiedInSlots
  <2> QED
    BY <2>2, <2>3, <2>4 DEF Holds
<1>15. EdgesLeft'
  <2> SUFFICES ASSUME NEW x \in InputEdges, AgeAfter(A, w, second, x) <= MaxAge
               PROVE  Holds(x)'
    BY <1>2, <1>4, <1>7 DEF EdgesLeft
  <2>1. Holds(x)
    BY <1>5 DEF EdgesLeft
  <2>2. CASE x # {w, o}
    BY <1>14, <2>1, <2>2
  <2>3. CASE x = {w, o}
    <3>1. ~(now > MaxAge)
      BY <1>1, <1>6, <2>3, AdaptationAssumption
    <3>2. g' = aged /\ w \in Occupied'
      BY <1>1, <1>2, <1>9, <3>1
    <3> DEFINE d == [nr |-> o, age |-> now]
    <3>3. d \in Entries(g'[w]) /\ x = {w, d.nr}
      BY <1>1, <2>3, <3>2 DEF Altered
    <3> QED
      BY <3>2, <3>3 DEF Holds
  <2> QED
    BY <2>2, <2>3
<1>16. OtherEdges'
  <2> SUFFICES ASSUME NEW a \in Occupied \ {w}, NEW e \in Entries(g'[a]), e.nr # w
               PROVE  /\ {a, e.nr} \in InputEdges
                      /\ e.age = AgeAfter(A, w, second, {a, e.nr})
    BY <1>2, <1>4, <1>7, <1>9 DEF OtherEdges
  <2>1. e \in Entries(g[a])
    BY <1>12
  <2> QED
    BY <1>5, <2>1 DEF OtherEdges
<1>17. WinnerEdges'
  <2> SUFFICES ASSUME NEW k \in 1 .. Len(g'[w].edges), NEW e, e = g'[w].edges[k]
               PROVE  /\ {w, e.nr} \in InputEdges
                      /\ e.age = IF k < edg' THEN AgeAfter(A, w, second, {w, e.nr})
                                             ELSE AgeBefore(A, {w, e.nr})
    BY <1>2, <1>4, <1>7 DEF WinnerEdges
  <2>0. Len(g[w].edges) \in Nat /\ k \in Nat /\ edg \in Nat
    BY <1>1 DEF Sound, Node
  <2>1. ASSUME NEW j \in 1 .. Len(g[w].edges), e = g[w].edges[j], j < edg <=> k < edg'
        PROVE  /\ {w, e.nr} \in InputEdges
               /\ e.age = IF k < edg' THEN AgeAfter(A, w, second, {w, e.nr})
                                      ELSE AgeBefore(A, {w, e.nr})
    BY <1>5, <2>1 DEF WinnerEdges
  <2>2. CASE now > MaxAge
    <3>1. g'[w] = Unlinked(aged[w], o) /\ edg' = edg
      BY <1>1, <1>2, <2>2 DEF RemoveUDEdge, NextEdge, Sound
    <3>2. /\ Len(g'[w].edges) = Len(g[w].edges) - 1
          /\ g'[w].edges[k] = IF k < edg THEN aged[w].edges[k] ELSE aged[w].edges[k + 1]
      <4>1. aged[w] \in Node(Slots) /\ Distinct(aged[w]) /\ o = aged[w].edges[edg].nr
        BY <1>1 DEF Sound
      <4> DEFINE v == aged[w]
      <4>2. Len(v.edges) = Len(g[w].edges) /\ edg \in 1 .. Len(v.edges)
        BY <1>1, <1>8
      <4> HIDE DEF v
      <4>3. /\ Len(Unlinked(v, o).edges) = Len(v.edges) - 1
            /\ \A j \in 1 .. Len(v.edges) - 1 :
                  Unlinked(v, o).edges[j] = IF j < edg THEN v.edges[j] ELSE v.edges[j + 1]
        BY <4>1, <4>2, UnlinkedVector DEF v
      <4> QED
        BY <3>1, <4>2, <4>3 DEF v
    <3>3. CASE k < edg
      <4>1. k \in 1 .. Len(g[w].edges) /\ k # edg
        BY <2>0, <3>2, <3>3
      <4>2. e = g[w].edges[k]
        BY <1>8, <3>2, <3>3, <4>1
      <4> QED
        BY <2>1, <3>1, <4>1, <4>2
    <3>4. CASE ~(k < edg)
      <4>1. k + 1 \in 1 .. Len(g[w].edges) /\ k + 1 # edg /\ ~(k + 1 < edg)
        BY <2>0, <3>2, <3>4
      <4>2. e = g[w].edges[k + 1]
        BY <1>8, <3>2, <3>4, <4>1
      <4> QED
        BY <2>1, <3>1, <3>4, <4>1, <4>2
    <3> QED
      BY <3>3, <3>4
  <2>3. CASE ~(now > MaxAge)
    <3>1. g' = aged /\ edg' = edg + 1
      BY <1>2, <2>3 DEF NextEdge
    <3>2. CASE k = edg
      <4>1. e.nr = o /\ e.age = now /\ k < edg'
        BY <1>1, <2>0, <3>1, <3>2
      <4> QED
        BY <1>6, <4>1
    <3>3. CASE k # edg
      <4>1. e = g[w].edges[k] /\ k \in 1 .. Len(g[w].edges) /\ (k < edg <=> k < edg')
        BY <1>8, <2>0, <3>1, <3>3
      <4> QED
        BY <2>1, <4>1
    <3> QED
      BY <3>2, <3>3
  <2> QED
    BY <2>2, <2>3
<1> QED
  BY <1>3, <1>4, <1>10, <1>15, <1>16, <1>17 DEF HInv, InputUnderWay
-----------------------------------------------------------------------------
(* The network an input leaves among the nodes occ.                         *)
AfterInput(A, w, v, occ) ==
    LET kept == {x \in DOMAIN A \cup {{w, v}} : AgeAfter(A, w, v, x) <= MaxAge}
    IN  [x \in {d \in kept : d \subseteq occ} |-> AgeAfter(A, w, v, x)]

(* When the scan is over, every edge of the winner has been passed.         *)
LEMMA ScanOver ==
  ASSUME AInv, HInv, pc = "scan", edg > Degree(winner)
  PROVE  NetOf(g, Occupied, AfterInput(before.age, winner, second, Occupied))
<1> DEFINE A == before.age
           after(x) == AgeAfter(A, winner, second, x)
           B == AfterInput(A, winner, second, Occupied)
<1>1. /\ Sound(g, Slots, Occupied, {0}) /\ Young(g, Slots) /\ Occupied \in SUBSET Slots
      /\ winner \in Occupied
      /\ EdgesLeft /\ OtherEdges /\ WinnerEdges
  BY OccupiedInSlots DEF AInv, GraphInv, ScanSafe, HInv, InputUnderWay
<1>2. B = [x \in {d \in InputEdges : after(d) <= MaxAge /\ d \subseteq Occupied} |-> after(x)]
  BY DEF AfterInput, InputEdges
<1>3. ASSUME NEW e \in Entries(g[winner])
      PROVE  {winner, e.nr} \in InputEdges /\ e.age = after({winner, e.nr})
  <2>1. PICK k \in 1 .. Len(g[winner].edges) : e = g[winner].edges[k]
    BY DEF Entries
  <2>2. k < edg
    <3>1. Len(g[winner].edges) \in Nat /\ edg \in Nat
      BY <1>1 DEF Sound, Node, AInv, AlgTyped, LoopTyped
    <3> QED
      BY <2>1, <3>1 DEF Degree
  <2> QED
    BY <1>1, <2>1, <2>2 DEF WinnerEdges
<1>4. ASSUME NEW a \in Occupied, NEW e \in Entries(g[a])
      PROVE  {a, e.nr} \in InputEdges /\ e.age = after({a, e.nr})
  <2>1. CASE a = winner
    BY <1>3, <2>1
  <2>2. CASE a # winner /\ e.nr # winner
    BY <1>1, <2>2 DEF OtherEdges
  <2>3. CASE e.nr = winner
    <3> DEFINE d == [nr |-> a, age |-> e.age]
    <3>1. d \in Entries(g[winner])
      BY <1>1, <2>3 DEF Sound
    <3>2. {winner, d.nr} \in InputEdges /\ d.age = after({winner, d.nr})
      BY <1>3, <3>1
    <3>3. {winner, d.nr} = {a, e.nr}
      BY <2>3
    <3> QED
      BY <3>2, <3>3
  <2> QED
    BY <2>1, <2>2, <2>3
<1> HIDE DEF after, A, B
<1>5. ASSUME NEW a \in Occupied, NEW e \in Entries(g[a])
      PROVE  {a, e.nr} \in DOMAIN B /\ B[{a, e.nr}] = e.age
  <2>1. e.age <= MaxAge /\ {a, e.nr} \subseteq Occupied
    BY <1>1 DEF Young, Sound
  <2> QED
    BY <1>2, <1>4, <2>1
<1>6. ASSUME NEW x \in DOMAIN B
      PROVE  \E a \in Occupied : \E e \in Entries(g[a]) : x = {a, e.nr}
  <2>1. x \in InputEdges /\ after(x) <= MaxAge
    BY <1>2
  <2>2. Holds(x)
    BY <1>1, <2>1 DEF EdgesLeft, after, A
  <2> QED
    BY <2>2 DEF Holds
<1>7. IsMap(B)
  BY <1>2 DEF IsMap
<1> QED
  BY <1>5, <1>6, <1>7 DEF NetOf, B, A

(* A node leaves with its edges.                                            *)
LEMMA NetWithout ==
  ASSUME NEW S, NEW occ \in SUBSET S, NEW D, NEW h, Sound(h, S, occ, D), NEW x \in occ, NEW h2,
         Entries(h2[x]) = {}, \A y \in S \ {x} : Entries(h2[y]) = Others(h[y], x),
         NEW A, NEW w, NEW v, NetOf(h, occ, AfterInput(A, w, v, occ))
  PROVE  NetOf(h2, occ \ {x}, AfterInput(A, w, v, occ \ {x}))
<1> DEFINE B == AfterInput(A, w, v, occ)
           C == AfterInput(A, w, v, occ \ {x})
           kept == {y \in DOMAIN A \cup {{w, v}} : AgeAfter(A, w, v, y) <= MaxAge}
<1>1. /\ B = [y \in {d \in kept : d \subseteq occ} |-> AgeAfter(A, w, v, y)]
      /\ C = [y \in {d \in kept : d \subseteq occ \ {x}} |-> AgeAfter(A, w, v, y)]
  BY DEF AfterInput
<1> HIDE DEF B, C, kept
<1>2. /\ DOMAIN C = {d \in DOMAIN B : x \notin d}
      /\ \A y \in DOMAIN C : C[y] = B[y]
      /\ IsMap(C)
  BY <1>1 DEF IsMap
<1>3. NetOf(h, occ, B)
  BY DEF B
<1>4. ASSUME NEW y \in DOMAIN C
      PROVE  \E a \in occ \ {x} : \E e \in Entries(h2[a]) : y = {a, e.nr}
  <2>1. PICK a \in occ : \E e \in Entries(h[a]) : y = {a, e.nr}
    BY <1>2, <1>3 DEF NetOf
  <2>2. PICK e \in Entries(h[a]) : y = {a, e.nr}
    BY <2>1
  <2>3. a # x /\ e.nr # x
    BY <1>2, <2>2
  <2>4. e \in Entries(h2[a])
    BY <2>3 DEF Others
  <2> QED
    BY <2>2, <2>3, <2>4
<1>5. ASSUME NEW a \in occ \ {x}, NEW e \in Entries(h2[a])
      PROVE  {a, e.nr} \in DOMAIN C /\ C[{a, e.nr}] = e.age
  <2>1. e \in Entries(h[a]) /\ e.nr # x
    BY DEF Others
  <2>2. {a, e.nr} \in DOMAIN B /\ B[{a, e.nr}] = e.age
    BY <1>3, <2>1 DEF NetOf
  <2> QED
    BY <1>2, <2>1, <2>2
<1> QED
  BY <1>2, <1>4, <1>5 DEF NetOf, C

(* The loop of adapt is over: the whole input is one step of the network.   *)
LEMMA InputStep ==
  ASSUME AInv, HInv, AInv', AdaptDone, Remember
  PROVE  /\ HInv'
         /\ winner \in before.V /\ second \in before.V /\ winner # second
         /\ NG!Input(winner, second)
<1> DEFINE A == before.age
           kept == {x \in DOMAIN A \cup {{winner, second}} :
                       AgeAfter(A, winner, second, x) <= MaxAge}
<1>1. /\ pc = "scan" /\ edg > Degree(winner) /\ pc' \in {"search", "grow"}
      /\ UtilityCriterionCheck /\ utility_option' = utility_option
  BY DEF AdaptDone
<1>2. /\ before'.V = Occupied' /\ NetOf(g', Occupied', before'.age)
      /\ before'.last = <<winner, second>>
  BY <1>1, RememberNet DEF AInv, GraphInv, LastInput
<1>3. HInv'
  BY <1>1, <1>2 DEF HInv
<1>4. /\ Sound(g, Slots, Occupied, {0}) /\ Occupied \in SUBSET Slots
      /\ NodesSoFar /\ EdgesLeft
      /\ winner \in Occupied /\ second \in Occupied /\ IsEdge(winner, second)
  BY <1>1, OccupiedInSlots DEF AInv, GraphInv, ScanSafe, HInv, InputUnderWay
<1>5. winner # second
  <2>1. PICK e \in Entries(g[winner]) : e.nr = second
    BY <1>4, IsEdgeEntry
  <2> QED
    BY <1>4, <2>1 DEF Sound
<1>6. winner \in before.V /\ second \in before.V
  BY <1>4 DEF NodesSoFar
<1>7. NetOf(g, Occupied, AfterInput(A, winner, second, Occupied))
  BY <1>1, ScanOver
<1>8. ASSUME NEW n \in before.V \ Occupied
      PROVE  /\ \A x \in kept : n \notin x
             /\ {winner, n} \in (DOMAIN A \cup {{winner, second}}) \ kept
  <2>1. {winner, n} \in InputEdges /\ ~(AgeAfter(A, winner, second, {winner, n}) <= MaxAge)
    BY <1>4 DEF NodesSoFar
  <2>2. ASSUME NEW x \in kept, n \in x PROVE FALSE
    <3>1. Holds(x)
      BY <1>4 DEF EdgesLeft, InputEdges
    <3>2. x \subseteq Occupied
      BY <1>4, <3>1 DEF Holds, Sound
    <3> QED
      BY <2>2, <3>2
  <2> QED
    BY <2>1, <2>2 DEF InputEdges
<1>9. utility_option \in {"None", "BasicUtility"}
  BY AdaptationAssumption DEF AInv, AlgTyped, LoopTyped
<1>10. \/ /\ NetOf(g', Occupied', AfterInput(A, winner, second, Occupied'))
          /\ Occupied' = Occupied
       \/ /\ NetOf(g', Occupied', AfterInput(A, winner, second, Occupied'))
          /\ MayRetire /\ \E x \in Occupied : Occupied' = Occupied \ {x}
  <2>1. CASE UNCHANGED <<poolVars, g, zeroed>>
    <3>1. UNCHANGED poolVars /\ g' = g
      BY <2>1
    <3>2. Occupied' = Occupied
      BY <3>1, PoolSame
    <3> QED
      BY <1>7, <3>1, <3>2
  <2>2. ASSUME NEW x \in LeastUseful, MayRetire, ExistsNode(x), g' = Stripped(x),
               DeleteNode(x)
        PROVE  /\ NetOf(g', Occupied', AfterInput(A, winner, second, Occupied'))
               /\ MayRetire /\ \E y \in Occupied : Occupied' = Occupied \ {y}
    <3>1. x \in Slots
      BY DEF LeastUseful, AInv, PoolInv, PoolTypeOK, Slots
    <3>2. x \in Occupied /\ Occupied' = Occupied \ {x}
      BY <2>2, <3>1, DeleteNodeFrees DEF AInv, PoolInv
    <3>3. /\ Entries(g'[x]) = {}
          /\ \A y \in Slots \ {x} : Entries(g'[y]) = Others(g[y], x)
      BY <1>4, <2>2, <3>2, StrippedSound
    <3>4. NetOf(g', Occupied \ {x}, AfterInput(A, winner, second, Occupied \ {x}))
      BY <1>4, <1>7, <3>2, <3>3, NetWithout
    <3> QED
      BY <2>2, <3>2, <3>4
  <2> QED
    BY <1>1, <2>1, <2>2 DEF UtilityCriterionCheck
<1>11. before'.age = AfterInput(A, winner, second, before'.V)
  BY <1>2, <1>10, NetUnique
<1>12. before'.V \subseteq before.V
  BY <1>2, <1>4, <1>10 DEF NodesSoFar
<1>13. ASSUME utility_option = "None"
       PROVE  \A n \in before.V \ before'.V :
                 /\ \A x \in kept : n \notin x
                 /\ {winner, n} \in (DOMAIN A \cup {{winner, second}}) \ kept
  <2>1. before'.V = Occupied
    BY <1>2, <1>10, <1>13 DEF MayRetire
  <2> QED
    BY <1>8, <2>1
<1>14. ASSUME utility_option = "BasicUtility"
       PROVE  /\ \E n \in before.V : before.V \ before'.V \subseteq {n}
              /\ before'.V # before.V => NG!Cardinality(before.V) >= MinimumNodes
  <2>1. before.V = Occupied
    BY <1>4, <1>14 DEF NodesSoFar, OrphansLeave
  <2>2. nodes = Cardinality(Occupied)
    BY DEF AInv, PoolInv, CountExact
  <2>3. MayRetire => Cardinality(Occupied) >= MinimumNodes
    BY <2>2 DEF MayRetire
  <2>4. \E n \in before.V : before.V \ before'.V \subseteq {n}
    BY <1>2, <1>4, <1>10, <2>1
  <2> QED
    BY <1>2, <1>10, <2>1, <2>3, <2>4, SameCardinality
<1>15. before'.age = [x \in {d \in kept : d \subseteq before'.V} |->
                         IF x = {winner, second} THEN 0
                         ELSE IF winner \in x THEN A[x] + 1 ELSE A[x]]
  BY <1>11 DEF AfterInput, AgeAfter
<1>16. kept = {x \in DOMAIN A \cup {{winner, second}} :
                 (IF x = {winner, second} THEN 0
                  ELSE IF winner \in x THEN A[x] + 1 ELSE A[x]) <= MaxAge}
  BY DEF AgeAfter
<1> QED
  BY <1>2, <1>3, <1>5, <1>6, <1>9, <1>12, <1>13, <1>14, <1>15, <1>16
     DEF NG!Input, NG!Isolated
-----------------------------------------------------------------------------
(* One edge less, one edge more.                                            *)
LessEdge(B, A, e) ==
    IsMap(B) /\ DOMAIN B = DOMAIN A \ {e} /\ \A x \in DOMAIN B : B[x] = A[x]

MoreEdge(B, A, e) ==
    /\ IsMap(B) /\ DOMAIN B = DOMAIN A \cup {e}
    /\ \A x \in DOMAIN B : B[x] = IF x = e THEN 0 ELSE A[x]

(* Removing an edge from both vectors removes it from the abstract network. *)
LEMMA NetParted ==
  ASSUME NEW S, NEW occ \in SUBSET S, NEW D, NEW h, Sound(h, S, occ, D), NEW h2,
         NEW a \in occ, NEW b \in occ \ {a}, Parted(h2, h, S, a, b),
         NEW A, NetOf(h, occ, A), NEW B, LessEdge(B, A, {a, b})
  PROVE  NetOf(h2, occ, B)
<1>1. ASSUME NEW y \in occ, NEW e \in Entries(h[y]), {y, e.nr} # {a, b}
      PROVE  e \in Entries(h2[y])
  BY <1>1 DEF Parted, Others
<1>2. ASSUME NEW y \in occ, NEW e \in Entries(h2[y])
      PROVE  e \in Entries(h[y]) /\ {y, e.nr} # {a, b}
  <2>1. CASE y = a
    BY <2>1 DEF Parted, Others
  <2>2. CASE y = b
    BY <2>2 DEF Parted, Others
  <2>3. CASE y # a /\ y # b
    BY <2>3 DEF Parted
  <2> QED
    BY <2>1, <2>2, <2>3
<1>3. ASSUME NEW x \in DOMAIN B
      PROVE  \E y \in occ : \E e \in Entries(h2[y]) : x = {y, e.nr}
  <2>1. PICK y \in occ : \E e \in Entries(h[y]) : x = {y, e.nr}
    BY DEF NetOf, LessEdge
  <2>2. PICK e \in Entries(h[y]) : x = {y, e.nr}
    BY <2>1
  <2> QED
    BY <1>1, <2>2 DEF LessEdge
<1>4. ASSUME NEW y \in occ, NEW e \in Entries(h2[y])
      PROVE  {y, e.nr} \in DOMAIN B /\ B[{y, e.nr}] = e.age
  BY <1>2 DEF NetOf, LessEdge
<1> QED
  BY <1>3, <1>4 DEF NetOf, LessEdge

(* Adding an edge to both vectors adds it, at age zero, to the abstract network. *)
LEMMA NetJoined ==
  ASSUME NEW S, NEW occ \in SUBSET S, NEW D, NEW h, Sound(h, S, occ, D), NEW h2,
         NEW a \in occ, NEW b \in occ \ {a}, Joined(h2, h, S, a, b),
         NEW A, NetOf(h, occ, A), {a, b} \notin DOMAIN A,
         NEW B, MoreEdge(B, A, {a, b})
  PROVE  NetOf(h2, occ, B)
<1>0. NewEdge(a) = [nr |-> a, age |-> 0] /\ NewEdge(b) = [nr |-> b, age |-> 0]
  BY DEF NewEdge
<1>1. \A y \in occ : Entries(h[y]) \subseteq Entries(h2[y])
  BY DEF Joined
<1>2. ASSUME NEW y \in occ, NEW e \in Entries(h2[y])
      PROVE  e \in Entries(h[y]) \/ ({y, e.nr} = {a, b} /\ e.age = 0)
  <2>1. CASE y = a
    BY <1>0, <2>1 DEF Joined
  <2>2. CASE y = b
    BY <1>0, <2>2 DEF Joined
  <2>3. CASE y # a /\ y # b
    BY <2>3 DEF Joined
  <2> QED
    BY <2>1, <2>2, <2>3
<1>3. ASSUME NEW x \in DOMAIN B
      PROVE  \E y \in occ : \E e \in Entries(h2[y]) : x = {y, e.nr}
  <2>1. CASE x = {a, b}
    <3> DEFINE e == [nr |-> b, age |-> 0]
    <3>1. e \in Entries(h2[a]) /\ x = {a, e.nr}
      BY <1>0, <2>1 DEF Joined
    <3> QED
      BY <3>1
  <2>2. CASE x # {a, b}
    <3>1. PICK y \in occ : \E e \in Entries(h[y]) : x = {y, e.nr}
      BY <2>2 DEF NetOf, MoreEdge
    <3> QED
      BY <1>1, <3>1
  <2> QED
    BY <2>1, <2>2
<1>4. ASSUME NEW y \in occ, NEW e \in Entries(h2[y])
      PROVE  {y, e.nr} \in DOMAIN B /\ B[{y, e.nr}] = e.age
  <2>1. CASE e \in Entries(h[y])
    <3>1. {y, e.nr} \in DOMAIN A /\ A[{y, e.nr}] = e.age
      BY <2>1 DEF NetOf
    <3> QED
      BY <3>1 DEF MoreEdge
  <2>2. CASE {y, e.nr} = {a, b} /\ e.age = 0
    BY <2>2 DEF MoreEdge
  <2> QED
    BY <1>2, <2>1, <2>2
<1> QED
  BY <1>3, <1>4 DEF NetOf, MoreEdge

(* addNewNode puts the new node in the place of an edge.                    *)
SplitAges(A, q, f, c) ==
    [e \in (DOMAIN A \ {{q, f}}) \cup {{q, c}, {c, f}} |-> IF c \in e THEN 0 ELSE A[e]]

(* addNewNode replaces the edge between two nodes by a path over the new one, as Split
   does. *)
LEMMA SplitStep ==
  ASSUME AInv, NEW A, NetOf(g, Occupied, A),
         NEW q \in Slots, NEW f, \E e \in Entries(g[q]) : e.nr = f, InsertBetween(q, f)
  PROVE  /\ q \in Occupied /\ f \in Occupied /\ q # f /\ {q, f} \in DOMAIN A
         /\ \E c \in Occupied' \ Occupied :
               /\ Occupied' = Occupied \cup {c}
               /\ NetOf(g', Occupied', SplitAges(A, q, f, c))
<1> DEFINE c  == NewIndex
           h0 == WithFresh
           h1 == WithoutEdge(q, f)
           h2 == WithHalf(q, f)
           V  == Occupied'
           T  == Slots'
           A1 == [x \in DOMAIN A \ {{q, f}} |-> A[x]]
           A2 == [x \in DOMAIN A1 \cup {{q, c}} |-> IF x = {q, c} THEN 0 ELSE A1[x]]
           A3 == [x \in DOMAIN A2 \cup {{c, f}} |-> IF x = {c, f} THEN 0 ELSE A2[x]]
           B  == SplitAges(A, q, f, c)
<1>1. /\ V \in SUBSET T /\ c \notin Occupied /\ V = Occupied \cup {c}
      /\ q \in Occupied /\ f \in Occupied \ {q}
      /\ Sound(h0, T, V, {0}) /\ Sound(h1, T, V, {0}) /\ Sound(h2, T, V, {0})
      /\ Entries(h0[c]) = {} /\ \A x \in Slots : Entries(h0[x]) = Entries(g[x])
      /\ Parted(h1, h0, T, q, f) /\ Joined(h2, h1, T, q, c) /\ Joined(g', h2, T, c, f)
  BY NothingLost, InsertFacts, OccupiedInSlots DEF Occupied
<1>2. Sound(g, Slots, Occupied, {0}) /\ Occupied \in SUBSET Slots
  BY OccupiedInSlots DEF AInv, GraphInv
<1>3. ASSUME NEW x \in DOMAIN A PROVE c \notin x
  <2>1. PICK a \in Occupied : \E e \in Entries(g[a]) : x = {a, e.nr}
    BY DEF NetOf
  <2>2. PICK e \in Entries(g[a]) : x = {a, e.nr}
    BY <2>1
  <2>3. e.nr \in Occupied
    BY <1>2 DEF Sound
  <2> QED
    BY <1>1, <2>2, <2>3
<1>4. {q, f} \in DOMAIN A
  BY <1>1 DEF NetOf
<1> HIDE DEF c, h0, h1, h2, V, T
<1>5. c \in V \ {q} /\ q \in V /\ f \in V \ {q} /\ f \in V \ {c}
  BY <1>1
<1>6. NetOf(h0, V, A)
  BY <1>1, <1>2 DEF NetOf
<1>7. LessEdge(A1, A, {q, f}) /\ MoreEdge(A2, A1, {q, c}) /\ MoreEdge(A3, A2, {c, f})
  BY DEF LessEdge, MoreEdge, IsMap
<1>8. {q, c} \notin DOMAIN A1 /\ {c, f} \notin DOMAIN A2
  BY <1>1, <1>3
<1> HIDE DEF A1, A2, A3
<1>9. NetOf(h1, V, A1)
  BY <1>1, <1>6, <1>5, <1>7, NetParted
<1>10. NetOf(h2, V, A2)
  BY <1>1, <1>9, <1>8, <1>5, <1>7, NetJoined
<1>11. NetOf(g', V, A3)
  BY <1>1, <1>8, <1>10, <1>5, <1>7, NetJoined
<1>12. A3 = B
  <2>1. DOMAIN A3 = DOMAIN B
    BY DEF A1, A2, A3, SplitAges
  <2>2. ASSUME NEW x \in DOMAIN B PROVE A3[x] = B[x]
    <3>1. CASE x \in DOMAIN A \ {{q, f}}
      <4>1. c \notin x
        BY <1>3, <3>1
      <4> QED
        BY <3>1, <4>1 DEF A1, A2, A3, SplitAges
    <3>2. CASE x = {q, c}
      BY <3>2 DEF A1, A2, A3, SplitAges
    <3>3. CASE x = {c, f}
      BY <3>3 DEF A3, SplitAges
    <3> QED
      BY <3>1, <3>2, <3>3 DEF SplitAges
  <2> QED
    BY <2>1, <2>2 DEF A3, SplitAges
<1>13. c \in V \ Occupied /\ V = Occupied \cup {c} /\ NetOf(g', V, B)
  BY <1>1, <1>11, <1>12
<1> QED
  BY <1>1, <1>4, <1>13 DEF V

(* Steps between inputs that leave the graph as it is leave the network so. *)
LEMMA SameNet ==
  ASSUME AInv', HInv, UNCHANGED <<poolVars, g>>, pc # "scan", pc' # "scan",
         pc' # "seed", Remember
  PROVE  /\ HInv'
         /\ before'.V = before.V /\ before'.age = before.age /\ before'.last = before.last
<1>1. Occupied' = Occupied /\ g' = g
  BY PoolSame
<1>2. /\ before'.V = Occupied' /\ NetOf(g', Occupied', before'.age)
      /\ before'.last = before.last
  BY RememberNet DEF AInv, GraphInv, LastInput
<1>3. before.V = Occupied /\ NetOf(g, Occupied, before.age)
  BY DEF HInv
<1>4. before'.age = before.age
  BY <1>1, <1>2, <1>3, NetUnique
<1> QED
  BY <1>1, <1>2, <1>3, <1>4 DEF HInv

(* addNewNode implements Split or Discard, or changes nothing above, and keeps the history invariant. *)
LEMMA GrowStep ==
  ASSUME AInv, HInv, AInv', AddNewNode, Remember
  PROVE  /\ HInv'
         /\ \/ \E q, f \in before.V : q # f /\ NG!Split(q, f)
            \/ \E n \in before.V : NG!Discard(n)
            \/ before'.V = before.V /\ before'.age = before.age /\ before'.last = before.last
<1>1. pc = "grow" /\ pc' = "search"
  BY DEF AddNewNode
<1>2. /\ before'.V = Occupied' /\ NetOf(g', Occupied', before'.age)
      /\ before'.last = before.last
  BY <1>1, RememberNet DEF AInv, GraphInv, LastInput
<1>3. before.V = Occupied /\ NetOf(g, Occupied, before.age)
  BY <1>1 DEF HInv
<1>4. HInv'
  BY <1>1, <1>2 DEF HInv
<1>5. /\ Sound(g, Slots, Occupied, {0}) /\ Occupied \in SUBSET Slots
      /\ nodes = Cardinality(Occupied)
  BY OccupiedInSlots DEF AInv, GraphInv, PoolInv, CountExact
<1>6. CASE UNCHANGED <<poolVars, g, zeroed>>
  <2>1. UNCHANGED <<poolVars, g>>
    BY <1>6
  <2> QED
    BY <1>1, <1>4, <2>1, SameNet
<1>7. ASSUME NEW q \in Visible, Orphan(g[q]), DeleteNode(q), g' = g
      PROVE  NG!Discard(q) /\ q \in before.V
  <2>1. q \in Occupied /\ q \in Slots /\ ExistsNode(q)
    BY DEF Visible, ExistsNode, Occupied
  <2>2. Occupied' = Occupied \ {q}
    BY <1>7, <2>1, DeleteNodeFrees DEF AInv, PoolInv
  <2>3. Entries(g[q]) = {}
    BY <1>5, <1>7, <2>1, OrphanEmpty, NothingLost DEF Orphan
  <2>4. ASSUME NEW a \in Occupied, NEW e \in Entries(g[a]) PROVE a # q /\ e.nr # q
    <3>1. [nr |-> a, age |-> e.age] \in Entries(g[e.nr])
      BY <1>5 DEF Sound
    <3> QED
      BY <2>3, <3>1
  <2>5. NetOf(g', Occupied', before.age)
    BY <1>3, <1>7, <2>2, <2>4 DEF NetOf
  <2>6. before'.age = before.age
    BY <1>2, <2>5, NetUnique
  <2>7. \A x \in DOMAIN before.age : q \notin x
    <3> SUFFICES ASSUME NEW x \in DOMAIN before.age PROVE q \notin x
      OBVIOUS
    <3>1. PICK a \in Occupied : \E e \in Entries(g[a]) : x = {a, e.nr}
      BY <1>3 DEF NetOf
    <3> QED
      BY <2>4, <3>1
  <2> QED
    BY <1>2, <1>3, <2>1, <2>2, <2>6, <2>7 DEF NG!Discard, NG!Isolated
<1>8. ASSUME nodes < MaxNodes, NEW q \in Visible, NEW k \in DOMAIN g[q].edges,
             InsertBetween(q, g[q].edges[k].nr)
      PROVE  \E a, b \in before.V : a # b /\ NG!Split(a, b)
  <2> DEFINE f == g[q].edges[k].nr
             A == before.age
  <2>1. q \in Slots /\ g[q] \in Node(Slots)
    BY <1>5 DEF Visible, Sound
  <2>2. \E e \in Entries(g[q]) : e.nr = f
    <3>1. k \in 1 .. Len(g[q].edges)
      BY <2>1 DEF Node
    <3> QED
      BY <3>1 DEF Entries
  <2> HIDE DEF f, A
  <2>3. NetOf(g, Occupied, A) /\ InsertBetween(q, f)
    BY <1>3, <1>8 DEF A, f
  <2>4. /\ q \in Occupied /\ f \in Occupied /\ q # f /\ {q, f} \in DOMAIN A
        /\ \E c \in Occupied' \ Occupied :
              /\ Occupied' = Occupied \cup {c}
              /\ NetOf(g', Occupied', SplitAges(A, q, f, c))
    BY <2>1, <2>2, <2>3, SplitStep
  <2>5. PICK c \in Occupied' \ Occupied :
              /\ Occupied' = Occupied \cup {c}
              /\ NetOf(g', Occupied', SplitAges(A, q, f, c))
    BY <2>4
  <2>6. before'.age = SplitAges(A, q, f, c)
    BY <1>2, <2>5, NetUnique
  <2>7. before'.age = [e \in (DOMAIN before.age \ {{q, f}}) \cup {{q, c}, {c, f}} |->
                           IF c \in e THEN 0 ELSE before.age[e]]
    BY <2>6 DEF SplitAges, A
  <2>8. c \in before'.V \ before.V /\ before'.V = before.V \cup {c}
    BY <1>2, <1>3, <2>5
  <2>9. \E d \in before'.V \ before.V :
          /\ before'.V = before.V \cup {d}
          /\ before'.age = [e \in (DOMAIN before.age \ {{q, f}}) \cup {{q, d}, {d, f}} |->
                               IF d \in e THEN 0 ELSE before.age[e]]
    BY <2>7, <2>8
  <2>10. /\ NG!Cardinality(before.V) < MaxNodes
         /\ {q, f} \in DOMAIN before.age /\ before'.last = before.last
    BY <1>2, <1>3, <1>5, <1>8, <2>4, SameCardinality DEF A
  <2>11. NG!Split(q, f)
    BY <2>9, <2>10 DEF NG!Split
  <2> QED
    BY <1>3, <2>4, <2>11
<1>9. CASE UNCHANGED <<poolVars, g>>
  BY <1>1, <1>4, <1>9, SameNet
<1> QED
  BY <1>4, <1>6, <1>7, <1>8, <1>9 DEF AddNewNode
-----------------------------------------------------------------------------
(* A step of the loop is a step of the network or leaves it as it is.       *)
LEMMA HStep ==
  ASSUME AInv, HInv, AInv', [HNext]_<<vars, before>>
  PROVE  HInv' /\ [NG!NGNext]_<<before.V, before.age, before.last, utility_option>>
<1> DEFINE Same == /\ before'.V = before.V /\ before'.age = before.age
                   /\ before'.last = before.last
<1>1. utility_option' = utility_option
  BY DEF HNext, Next, Step, Stuck, RandomInit, Adapt, SearchSpins, ScanEdge, AdaptDone,
         AddNewNode, NoLargestError, vars, utilityVars
<1>2. CASE RandomInit /\ Remember
  BY <1>1, <1>2, SeedStep DEF NG!NGNext
<1>3. ASSUME NEW w \in Slots, NEW v \in Slots, Adapt(w, v), Remember PROVE HInv' /\ Same
  BY <1>3, BeginStep
<1>4. CASE ScanEdge /\ Remember
  <2>1. HInv' /\ Same
    BY <1>4, PassStep
  <2> QED
    BY <1>1, <2>1
<1>5. CASE AdaptDone /\ Remember
  BY <1>1, <1>5, InputStep DEF NG!NGNext
<1>6. CASE AddNewNode /\ Remember
  BY <1>1, <1>6, GrowStep DEF NG!NGNext
<1>7. CASE (SearchSpins \/ NoLargestError \/ Stuck) /\ Remember
  <2>1. /\ UNCHANGED <<poolVars, g>> /\ pc # "scan"
        /\ pc' \in {"spinning", "crashed"}
    BY <1>7 DEF SearchSpins, NoLargestError, Stuck, vars, algVars
  <2>2. HInv' /\ Same
    BY <1>7, <2>1, SameNet
  <2> QED
    BY <1>1, <2>2
<1>8. CASE UNCHANGED <<vars, before>>
  <2>1. /\ UNCHANGED poolVars /\ g' = g /\ before' = before
        /\ pc' = pc /\ winner' = winner /\ second' = second /\ edg' = edg
    BY <1>8 DEF vars, algVars
  <2>2. Occupied' = Occupied /\ nodes' = nodes
    BY <2>1, PoolSame
  <2>3. /\ NodesSoFar' <=> NodesSoFar
        /\ EdgesLeft' <=> EdgesLeft
        /\ OtherEdges' <=> OtherEdges
        /\ WinnerEdges' <=> WinnerEdges
    <3>1. InputEdges' = InputEdges /\ (OrphansLeave' <=> OrphansLeave)
      BY <1>1, <2>1 DEF InputEdges, OrphansLeave
    <3>2. NodesSoFar' <=> NodesSoFar
      BY <2>1, <2>2, <3>1 DEF NodesSoFar
    <3>3. EdgesLeft' <=> EdgesLeft
      BY <2>1, <2>2, <3>1 DEF EdgesLeft, Holds
    <3>4. OtherEdges' <=> OtherEdges
      BY <2>1, <2>2, <3>1 DEF OtherEdges
    <3>5. WinnerEdges' <=> WinnerEdges
      BY <2>1, <3>1 DEF WinnerEdges
    <3> QED
      BY <3>2, <3>3, <3>4, <3>5
  <2>4. HInv'
    BY <2>1, <2>2, <2>3 DEF HInv, InputUnderWay
  <2> QED
    BY <1>1, <2>1, <2>4
<1> QED
  BY <1>1, <1>2, <1>3, <1>4, <1>5, <1>6, <1>7, <1>8 DEF HNext, Next, Step

(* The storage, the scan that erases while it iterates and the deletions on *)
(* the way do not show: every adapt call has the effect of one input on the *)
(* network, addNewNode splits one edge, and a node that has an edge leaves  *)
(* only with the utility option.                                            *)
THEOREM AdaptationImplementsNeuralGas == HSpec => ImplementsNeuralGas
<1>1. HInit => AInv /\ HInv
  BY InitAInv, HInitInv DEF HInit
<1>2. HInit => NG!NGInit
  <2> SUFFICES ASSUME HInit PROVE NG!NGInit
    OBVIOUS
  <2>1. Occupied = {} /\ utility_option \in UtilityOptions
    BY DEF HInit, Init, PoolInit, Occupied
  <2>2. EdgeSet = {}
    BY <2>1 DEF EdgeSet
  <2>3. before = [V |-> {}, age |-> [e \in {} |-> AgeOf(e)], last |-> <<>>]
    BY <2>1, <2>2 DEF HInit, Network
  <2>4. [e \in {} |-> AgeOf(e)] = [e \in {} |-> 0]
    OBVIOUS
  <2> QED
    BY <2>1, <2>3, <2>4 DEF NG!NGInit
<1>3. [HNext]_<<vars, before>> => [Next]_vars
  BY DEF HNext
<1>4. AInv /\ [HNext]_<<vars, before>> => AInv'
  BY <1>3, AInvStep
<1>5. AInv /\ HInv /\ AInv' /\ [HNext]_<<vars, before>>
        => HInv' /\ [NG!NGNext]_<<before.V, before.age, before.last, utility_option>>
  BY HStep
<1> QED
  BY <1>1, <1>2, <1>4, <1>5, PTL DEF HSpec, ImplementsNeuralGas, NG!NGSpec
=============================================================================
