------------------------- MODULE LazyErrorHeapProofs -------------------------
(****************************************************************************)
(* Proofs about LazyErrorHeap for every set of numbers, every max_nodes and *)
(* every bound of the exploration.                                          *)
(****************************************************************************)
EXTENDS LazyErrorHeap, RecursionFacts

(* The binary heap on its own: the entries, their order, and the keys of    *)
(* all nodes but those of X.                                                *)
Held(h) == {h.at[k] : k \in 1 .. Len(h.at)}

Ordered(at) == \A k \in 2 .. Len(at) : at[k].val <= at[Parent(k)].val

SoundBut(h, X) ==
    /\ h \in Heap
    /\ Ordered(h.at)
    /\ \A n \in Numbers \ X : h.key[n] # NoEntry =>
          h.key[n] \in 1 .. Len(h.at) /\ h.at[h.key[n]].i = n
    /\ \A k \in 1 .. Len(h.at) : h.key[h.at[k].i] = k

Sound(h) == SoundBut(h, {})
-----------------------------------------------------------------------------

(* The fields of a heap and of its entries have their types. *)
LEMMA HeapFields ==
  ASSUME NEW h \in Heap
  PROVE  /\ h = [at |-> h.at, key |-> h.key]
         /\ h.at \in Seq(Entry) /\ h.key \in [Numbers -> Nat]
         /\ Len(h.at) \in Nat /\ DOMAIN h.at = 1 .. Len(h.at)
         /\ \A k \in 1 .. Len(h.at) :
               h.at[k] \in Entry /\ h.at[k].i \in Numbers /\ h.at[k].val \in Nat
<1>1. h.at \in Seq(Entry) /\ h.key \in [Numbers -> Nat] /\ h = [at |-> h.at, key |-> h.key]
  BY DEF Heap
<1>2. Len(h.at) \in Nat /\ DOMAIN h.at = 1 .. Len(h.at)
  BY <1>1
<1>3. \A k \in 1 .. Len(h.at) : h.at[k] \in Entry
  BY <1>1
<1> QED
  BY <1>1, <1>2, <1>3 DEF Entry

(* What Put leaves behind.                                                  *)
LEMMA PutFacts ==
  ASSUME NEW h \in Heap, NEW k \in 1 .. Len(h.at), NEW e \in Entry
  PROVE  /\ Put(h, k, e) \in Heap
         /\ Len(Put(h, k, e).at) = Len(h.at)
         /\ \A j \in 1 .. Len(h.at) : Put(h, k, e).at[j] = IF j = k THEN e ELSE h.at[j]
         /\ \A n \in Numbers : Put(h, k, e).key[n] = IF n = e.i THEN k ELSE h.key[n]
<1> DEFINE at == [h.at EXCEPT ![k] = e]
           key == [h.key EXCEPT ![e.i] = k]
<1>1. h.at \in Seq(Entry) /\ h.key \in [Numbers -> Nat]
  BY HeapFields
<1>2. Put(h, k, e) = [at |-> at, key |-> key]
  <2>1. [h EXCEPT !.at[k] = e] = [at |-> at, key |-> h.key]
    <3>1. \A a, b : [[at |-> a, key |-> b] EXCEPT !.at[k] = e]
                      = [at |-> [a EXCEPT ![k] = e], key |-> b]
      OBVIOUS
    <3>2. h = [at |-> h.at, key |-> h.key]
      BY DEF Heap
    <3> QED
      BY <3>1, <3>2
  <2>2. Put(h, k, e) = [[h EXCEPT !.at[k] = e] EXCEPT !.key[e.i] = k]
    BY DEF Put
  <2> HIDE DEF at
  <2>3. [[at |-> at, key |-> h.key] EXCEPT !.key[e.i] = k] = [at |-> at, key |-> key]
    OBVIOUS
  <2> QED
    BY <2>1, <2>2, <2>3
<1>3. /\ at \in Seq(Entry) /\ Len(at) = Len(h.at)
      /\ \A j \in 1 .. Len(h.at) : at[j] = IF j = k THEN e ELSE h.at[j]
  BY <1>1
<1>4. /\ key \in [Numbers -> Nat]
      /\ \A n \in Numbers : key[n] = IF n = e.i THEN k ELSE h.key[n]
  BY <1>1 DEF Entry
<1> HIDE DEF at, key
<1> QED
  BY <1>2, <1>3, <1>4 DEF Heap

(* The parent of a place is a place before it. *)
LEMMA ParentFacts ==
  ASSUME NEW k \in Nat, k >= 2
  PROVE  Parent(k) \in Nat /\ Parent(k) >= 1 /\ Parent(k) < k
BY DEF Parent

(* While an entry moves: all entries but the one at k, which stands for e,  *)
(* know their place; C are the entries of the heap once e is put there.     *)
Placed(h, k, e, X, C) ==
    /\ h \in Heap /\ k \in 1 .. Len(h.at) /\ e \in Entry
    /\ C = {h.at[j] : j \in (1 .. Len(h.at)) \ {k}} \cup {e}
    /\ \A j \in (1 .. Len(h.at)) \ {k} : h.key[h.at[j].i] = j /\ h.at[j].i # e.i
    /\ \A n \in Numbers \ X : n # e.i /\ h.key[n] # NoEntry =>
          h.key[n] \in (1 .. Len(h.at)) \ {k} /\ h.at[h.key[n]].i = n

(* The entry of another place p comes to k.                                 *)
LEMMA EntryMoves ==
  ASSUME NEW h, NEW k, NEW e, NEW X, NEW C, Placed(h, k, e, X, C),
         NEW p \in (1 .. Len(h.at)) \ {k}
  PROVE  /\ Placed(Put(h, k, h.at[p]), p, e, X, C)
         /\ Len(Put(h, k, h.at[p]).at) = Len(h.at)
         /\ \A j \in 1 .. Len(h.at) : Put(h, k, h.at[p]).at[j] = IF j = k THEN h.at[p] ELSE h.at[j]
<1> DEFINE n == Len(h.at)
           a == h.at[p]
           r == Put(h, k, a)
<1>1. /\ h \in Heap /\ k \in 1 .. n /\ e \in Entry /\ a \in Entry /\ a.i \in Numbers
      /\ \A j \in 1 .. n : h.at[j].i \in Numbers
  BY HeapFields DEF Placed
<1>2. /\ r \in Heap /\ Len(r.at) = n
      /\ \A j \in 1 .. n : r.at[j] = IF j = k THEN a ELSE h.at[j]
      /\ \A m \in Numbers : r.key[m] = IF m = a.i THEN k ELSE h.key[m]
  BY <1>1, PutFacts
<1>3. \A j \in (1 .. n) \ {k} : h.key[h.at[j].i] = j /\ h.at[j].i # e.i
  BY DEF Placed
<1>4. C = {r.at[j] : j \in (1 .. n) \ {p}} \cup {e}
  <2>1. ASSUME NEW x PROVE x \in {h.at[j] : j \in (1 .. n) \ {k}} <=> x \in {r.at[j] : j \in (1 .. n) \ {p}}
    <3>1. ASSUME NEW j \in (1 .. n) \ {k}, x = h.at[j]
          PROVE  \E i \in (1 .. n) \ {p} : x = r.at[i]
      <4>1. CASE j = p
        BY <1>1, <1>2, <3>1, <4>1
      <4>2. CASE j # p
        BY <1>2, <3>1, <4>2
      <4> QED
        BY <4>1, <4>2
    <3>2. ASSUME NEW j \in (1 .. n) \ {p}, x = r.at[j]
          PROVE  \E i \in (1 .. n) \ {k} : x = h.at[i]
      <4>1. CASE j = k
        BY <1>2, <3>2, <4>1
      <4>2. CASE j # k
        BY <1>2, <3>2, <4>2
      <4> QED
        BY <4>1, <4>2
    <3> QED
      BY <3>1, <3>2
  <2>2. C = {h.at[j] : j \in (1 .. n) \ {k}} \cup {e}
    BY DEF Placed
  <2> QED
    BY <2>1, <2>2
<1>5. ASSUME NEW j \in (1 .. n) \ {p}
      PROVE  r.key[r.at[j].i] = j /\ r.at[j].i # e.i
  <2>1. CASE j = k
    BY <1>1, <1>2, <1>3, <2>1
  <2>2. CASE j # k
    <3>1. h.at[j].i # a.i
      BY <1>3, <2>2
    <3> QED
      BY <1>1, <1>2, <1>3, <2>2, <3>1
  <2> QED
    BY <2>1, <2>2
<1>6. ASSUME NEW m \in Numbers \ X, m # e.i, r.key[m] # NoEntry
      PROVE  r.key[m] \in (1 .. n) \ {p} /\ r.at[r.key[m]].i = m
  <2>1. CASE m = a.i
    BY <1>1, <1>2, <2>1
  <2>2. CASE m # a.i
    <3>1. r.key[m] = h.key[m]
      BY <1>2, <2>2
    <3>2. h.key[m] \in (1 .. n) \ {k} /\ h.at[h.key[m]].i = m
      BY <1>6, <3>1 DEF Placed
    <3> QED
      BY <1>2, <2>2, <3>1, <3>2
  <2> QED
    BY <2>1, <2>2
<1> HIDE DEF r, a
<1>7. Placed(r, p, e, X, C)
  BY <1>1, <1>2, <1>4, <1>5, <1>6 DEF Placed
<1> QED
  BY <1>2, <1>7 DEF r, a

(* The moving entry comes to rest.                                          *)
LEMMA EntryRests ==
  ASSUME NEW h, NEW k, NEW e, NEW X, NEW C, Placed(h, k, e, X, C)
  PROVE  /\ Placed(Put(h, k, e), k, e, X, C)
         /\ Len(Put(h, k, e).at) = Len(h.at)
         /\ Held(Put(h, k, e)) = C
         /\ Ordered(Put(h, k, e).at) => SoundBut(Put(h, k, e), X)
<1> DEFINE n == Len(h.at)
           r == Put(h, k, e)
<1>1. /\ h \in Heap /\ k \in 1 .. n /\ e \in Entry /\ e.i \in Numbers
      /\ \A j \in 1 .. n : h.at[j].i \in Numbers
  BY HeapFields DEF Placed, Entry
<1>2. /\ r \in Heap /\ Len(r.at) = n
      /\ \A j \in 1 .. n : r.at[j] = IF j = k THEN e ELSE h.at[j]
      /\ \A m \in Numbers : r.key[m] = IF m = e.i THEN k ELSE h.key[m]
  BY <1>1, PutFacts
<1>3. \A j \in (1 .. n) \ {k} : h.key[h.at[j].i] = j /\ h.at[j].i # e.i
  BY DEF Placed
<1>4. {r.at[j] : j \in (1 .. n) \ {k}} = {h.at[j] : j \in (1 .. n) \ {k}}
  BY <1>2
<1>5. C = {r.at[j] : j \in (1 .. n) \ {k}} \cup {e}
  BY <1>4 DEF Placed
<1>6. Held(r) = C
  BY <1>1, <1>2, <1>5 DEF Held
<1>7. \A j \in (1 .. n) \ {k} : r.key[r.at[j].i] = j /\ r.at[j].i # e.i
  BY <1>1, <1>2, <1>3
<1>8. ASSUME NEW m \in Numbers \ X, m # e.i, r.key[m] # NoEntry
      PROVE  r.key[m] \in (1 .. n) \ {k} /\ r.at[r.key[m]].i = m
  <2>1. h.key[m] \in (1 .. n) \ {k} /\ h.at[h.key[m]].i = m /\ r.key[m] = h.key[m]
    BY <1>2, <1>8 DEF Placed
  <2> QED
    BY <1>2, <2>1
<1>9. r.key[e.i] = k /\ r.at[k] = e
  BY <1>1, <1>2
<1> HIDE DEF r
<1>10. Placed(r, k, e, X, C)
  BY <1>1, <1>2, <1>5, <1>7, <1>8 DEF Placed
<1>11. \A j \in 1 .. n : r.key[r.at[j].i] = j
  BY <1>7, <1>9
<1>12. \A m \in Numbers \ X : r.key[m] # NoEntry => r.key[m] \in 1 .. n /\ r.at[r.key[m]].i = m
  BY <1>1, <1>8, <1>9
<1>13. Ordered(r.at) => SoundBut(r, X)
  BY <1>2, <1>11, <1>12 DEF SoundBut
<1> QED
  BY <1>2, <1>6, <1>10, <1>13 DEF r
-----------------------------------------------------------------------------
(* moveUp: order holds everywhere but around the hole at k, whose children  *)
(* stay below the rising entry e and below the parent of k.                 *)
UpOrder(h, k, e) ==
    /\ \A j \in 2 .. Len(h.at) : j # k /\ Parent(j) # k => h.at[j].val <= h.at[Parent(j)].val
    /\ \A j \in 2 .. Len(h.at) : Parent(j) = k =>
          /\ h.at[j].val <= e.val
          /\ k \in 2 .. Len(h.at) => h.at[j].val <= h.at[Parent(k)].val

(* One pass of moveUp: the hole moves to the parent, and the order still lacks only the
   hole. *)
LEMMA UpStep ==
  ASSUME NEW h, NEW k, NEW e, NEW X, NEW C, Placed(h, k, e, X, C), UpOrder(h, k, e),
         k \in 2 .. Len(h.at), e.val > h.at[Parent(k)].val
  PROVE  LET p == Parent(k)
             r == Put(h, k, h.at[p])
         IN  Placed(r, p, e, X, C) /\ UpOrder(r, p, e)
<1> DEFINE n == Len(h.at)
           p == Parent(k)
           r == Put(h, k, h.at[p])
<1>1. /\ n \in Nat /\ k \in 2 .. n /\ k \in Nat /\ e.val \in Nat
      /\ \A j \in 1 .. n : h.at[j].val \in Nat
  BY HeapFields DEF Placed, Entry
<1>2. p \in (1 .. n) \ {k} /\ p < k /\ p \in Nat
  BY <1>1, ParentFacts
<1>3. /\ Placed(r, p, e, X, C) /\ Len(r.at) = n
      /\ \A j \in 1 .. n : r.at[j] = IF j = k THEN h.at[p] ELSE h.at[j]
  BY <1>2, EntryMoves
<1>4. \A j \in 2 .. n : j \in 1 .. n /\ Parent(j) \in 1 .. n /\ Parent(j) < j
  BY <1>1, ParentFacts
<1> HIDE DEF r, n
<1>5. ASSUME NEW j \in 2 .. n, j # p, Parent(j) # p
      PROVE  r.at[j].val <= r.at[Parent(j)].val
  <2>1. j # k
    BY <1>5
  <2>2. r.at[j] = h.at[j]
    BY <1>3, <1>4, <2>1
  <2>3. CASE Parent(j) = k
    <3>1. r.at[k] = h.at[p]
      BY <1>1, <1>3, <1>4
    <3> QED
      BY <1>1, <2>2, <2>3, <3>1 DEF UpOrder, n
  <2>4. CASE Parent(j) # k
    <3>1. r.at[Parent(j)] = h.at[Parent(j)]
      BY <1>3, <1>4, <2>4
    <3> QED
      BY <2>1, <2>2, <2>4, <3>1 DEF UpOrder, n
  <2> QED
    BY <2>3, <2>4
<1>6. ASSUME NEW j \in 2 .. n, Parent(j) = p
      PROVE  r.at[j].val <= h.at[p].val
  <2>1. CASE j = k
    BY <1>1, <1>2, <1>3, <1>4, <2>1 DEF n
  <2>2. CASE j # k
    <3>1. r.at[j] = h.at[j] /\ h.at[j].val <= h.at[p].val
      BY <1>2, <1>3, <1>4, <1>6, <2>2 DEF UpOrder, n
    <3> QED
      BY <3>1
  <2> QED
    BY <2>1, <2>2
<1>7. ASSUME NEW j \in 2 .. n, Parent(j) = p
      PROVE  /\ r.at[j].val <= e.val
             /\ p \in 2 .. n => r.at[j].val <= r.at[Parent(p)].val
  <2>1. r.at[j].val <= h.at[p].val /\ h.at[p].val < e.val
    BY <1>1, <1>2, <1>6, <1>7 DEF n
  <2>2. r.at[j].val \in Nat /\ h.at[p].val \in Nat
    BY <1>1, <1>2, <1>3, <1>4 DEF n
  <2>3. ASSUME p \in 2 .. n PROVE h.at[p].val <= h.at[Parent(p)].val /\ r.at[Parent(p)] = h.at[Parent(p)]
    <3>1. Parent(p) < p /\ Parent(p) \in 1 .. n /\ Parent(p) \in Nat
      BY <1>4, <2>3
    <3>2. Parent(p) # k /\ p # k
      BY <1>2, <3>1
    <3> QED
      BY <1>3, <2>3, <3>1, <3>2 DEF UpOrder, n
  <2>4. ASSUME p \in 2 .. n PROVE h.at[Parent(p)].val \in Nat
    BY <1>1, <1>4, <2>4 DEF n
  <2>5. e.val \in Nat
    BY <1>1
  <2>6. r.at[j].val <= e.val
    BY <2>1, <2>2, <2>5
  <2>7. ASSUME p \in 2 .. n PROVE r.at[j].val <= r.at[Parent(p)].val
    <3>1. h.at[p].val <= h.at[Parent(p)].val
      BY <2>3, <2>7
    <3>2. h.at[Parent(p)].val \in Nat
      BY <2>4, <2>7
    <3>3. r.at[j].val <= h.at[Parent(p)].val
      BY <2>1, <2>2, <3>1, <3>2
    <3> QED
      BY <2>3, <2>7, <3>3
  <2> QED
    BY <2>6, <2>7
<1>8. UpOrder(r, p, e)
  BY <1>3, <1>5, <1>7 DEF UpOrder
<1> QED
  BY <1>3, <1>8 DEF r

(* When moveUp stops, the entry fits the hole and the array is a heap. *)
LEMMA UpStops ==
  ASSUME NEW h, NEW k, NEW e, NEW X, NEW C, Placed(h, k, e, X, C), UpOrder(h, k, e),
         ~(k \in 2 .. Len(h.at) /\ e.val > h.at[Parent(k)].val)
  PROVE  SoundBut(Put(h, k, e), X) /\ Held(Put(h, k, e)) = C
<1> DEFINE n == Len(h.at)
           r == Put(h, k, e)
<1>1. /\ n \in Nat /\ k \in 1 .. n /\ e.val \in Nat
      /\ \A j \in 1 .. n : h.at[j].val \in Nat
  BY HeapFields DEF Placed, Entry
<1>2. /\ Len(r.at) = n
      /\ \A j \in 1 .. n : r.at[j] = IF j = k THEN e ELSE h.at[j]
      /\ Held(r) = C
      /\ Ordered(r.at) => SoundBut(r, X)
  <2>1. Len(r.at) = n
    BY EntryRests
  <2>2. \A j \in 1 .. n : r.at[j] = IF j = k THEN e ELSE h.at[j]
    BY PutFacts DEF Placed
  <2>3. Held(r) = C
    BY EntryRests
  <2>4. ASSUME Ordered(r.at) PROVE SoundBut(r, X)
    BY <2>4, EntryRests
  <2> QED
    BY <2>1, <2>2, <2>3, <2>4
<1>3. \A j \in 2 .. n : j \in 1 .. n /\ Parent(j) \in 1 .. n /\ Parent(j) < j
  BY <1>1, ParentFacts
<1> HIDE DEF r
<1>4. ASSUME NEW j \in 2 .. n PROVE r.at[j].val <= r.at[Parent(j)].val
  <2>1. CASE j = k
    <3>1. Parent(k) # k /\ r.at[Parent(k)] = h.at[Parent(k)] /\ h.at[Parent(k)].val \in Nat
      BY <1>1, <1>2, <1>3, <2>1
    <3> QED
      BY <1>1, <1>2, <2>1, <3>1
  <2>2. CASE j # k
    BY <1>1, <1>2, <1>3, <2>2 DEF UpOrder
  <2> QED
    BY <2>1, <2>2
<1>5. Ordered(r.at)
  BY <1>2, <1>4 DEF Ordered
<1> QED
  BY <1>2, <1>5 DEF r

(* moveUp restores the heap and keeps its entries. *)
LEMMA MoveUpSound ==
  ASSUME NEW h, NEW i, NEW e, NEW X, NEW C, Placed(h, i, e, X, C), UpOrder(h, i, e)
  PROVE  SoundBut(MoveUp(h, i, e), X) /\ Held(MoveUp(h, i, e)) = C
<1> DEFINE D == Heap \X Nat
           M == [x \in D |-> x[2]]
           Above(x) == x[1].at[Parent(x[2])]
           Stop == {x \in D : ~(x[2] \in 2 .. Len(x[1].at) /\ e.val > Above(x).val)}
           Out == [x \in D |-> Put(x[1], x[2], e)]
           Next1 == [x \in D |-> <<Put(x[1], x[2], Above(x)), Parent(x[2])>>]
           Loop(f) == f = [x \in D |-> IF x \in Stop THEN Out[x] ELSE f[Next1[x]]]
           Body(f) == [x \in D |-> IF x[2] \in 2 .. Len(x[1].at) /\ e.val > Above(x).val
                                   THEN f[<<Put(x[1], x[2], Above(x)), Parent(x[2])>>]
                                   ELSE Put(x[1], x[2], e)]
           up == CHOOSE f : f = Body(f)
           P == {x \in D : Placed(x[1], x[2], e, X, C) /\ UpOrder(x[1], x[2], e)}
           Q == {r \in Heap : SoundBut(r, X) /\ Held(r) = C}
<1>1. ASSUME NEW x \in D \ Stop
      PROVE  /\ x[1] \in Heap /\ x[2] \in Nat
             /\ x[2] \in 2 .. Len(x[1].at) /\ e.val > Above(x).val
             /\ Parent(x[2]) \in Nat /\ Parent(x[2]) < x[2]
             /\ Put(x[1], x[2], Above(x)) \in Heap
  <2>1. x[1] \in Heap /\ x[2] \in 2 .. Len(x[1].at) /\ x[2] \in Nat /\ Len(x[1].at) \in Nat
    BY HeapFields
  <2>2. Parent(x[2]) \in Nat /\ Parent(x[2]) >= 1 /\ Parent(x[2]) < x[2]
    BY <2>1, ParentFacts
  <2>3. Above(x) \in Entry
    BY <2>1, <2>2, HeapFields
  <2> QED
    BY <2>1, <2>2, <2>3, PutFacts
<1>2. Falls(D, M, Stop, Next1)
  <2>1. M \in [D -> Nat]
    OBVIOUS
  <2>2. ASSUME NEW x \in D \ Stop PROVE Next1[x] \in D /\ M[Next1[x]] < M[x]
    BY <1>1
  <2> HIDE DEF M, Next1, D
  <2> QED
    BY <2>1, <2>2 DEF Falls
<1>3. MoveUp(h, i, e) = up[<<h, i>>]
  BY DEF MoveUp
<1>4. Loop(up)
  <2>1. \E f : Loop(f)
    <3> HIDE DEF D, M, Stop, Out, Next1
    <3> QED
      BY <1>2, LoopTable
  <2>2. \A f : Loop(f) <=> f = Body(f)
    <3> HIDE DEF Above, D
    <3> QED
      OBVIOUS
  <2> HIDE DEF Loop, Body
  <2> QED
    BY <2>1, <2>2
<1>5. P \in SUBSET D
  OBVIOUS
<1>6. ASSUME NEW x \in P \cap Stop PROVE Out[x] \in Q
  <2>1. SoundBut(Put(x[1], x[2], e), X) /\ Held(Put(x[1], x[2], e)) = C
    BY UpStops
  <2> QED
    BY <2>1 DEF SoundBut
<1>7. ASSUME NEW x \in P \ Stop PROVE Next1[x] \in P
  <2> DEFINE p == Parent(x[2])
             r == Put(x[1], x[2], Above(x))
  <2>1. x \in D \ Stop /\ Placed(x[1], x[2], e, X, C) /\ UpOrder(x[1], x[2], e)
    OBVIOUS
  <2>2. x[2] \in 2 .. Len(x[1].at) /\ e.val > x[1].at[Parent(x[2])].val
    BY <1>1, <2>1
  <2>3. Placed(r, p, e, X, C) /\ UpOrder(r, p, e)
    BY <2>1, <2>2, UpStep
  <2>4. Next1[x] = <<r, p>> /\ <<r, p>> \in D
    BY <1>1, <2>1
  <2> QED
    BY <2>3, <2>4
<1>8. \A x \in P : up[x] \in Q
  <2> HIDE DEF D, M, Stop, Out, Next1, P, Q, up
  <2> QED
    BY <1>2, <1>4, <1>5, <1>6, <1>7, LoopInduction
<1>9. <<h, i>> \in P
  BY HeapFields DEF Placed
<1> QED
  BY <1>3, <1>8, <1>9
-----------------------------------------------------------------------------
(* moveDown: order holds everywhere but between the entry at k and its      *)
(* children, which stay below the parent of k.                              *)
DownOrder(h, k) ==
    /\ \A j \in 2 .. Len(h.at) : Parent(j) # k => h.at[j].val <= h.at[Parent(j)].val
    /\ k \in 2 .. Len(h.at) =>
          \A j \in 2 .. Len(h.at) : Parent(j) = k => h.at[j].val <= h.at[Parent(k)].val

Sinks(h, k) ==
    2 * k \in 2 .. Len(h.at) /\ h.at[LargerChild(h.at, k)].val > h.at[k].val

(* The child that moveDown looks at is a child, and no child has a greater value. *)
LEMMA LargerChildFacts ==
  ASSUME NEW h \in Heap, NEW k \in Nat, 2 * k \in 2 .. Len(h.at)
  PROVE  /\ LargerChild(h.at, k) \in 2 .. Len(h.at)
         /\ Parent(LargerChild(h.at, k)) = k /\ LargerChild(h.at, k) > k
         /\ \A j \in 2 .. Len(h.at) : Parent(j) = k =>
               h.at[j].val <= h.at[LargerChild(h.at, k)].val
<1> DEFINE n == Len(h.at)
<1>1. /\ n \in Nat /\ k >= 1 /\ 2 * k <= n
      /\ \A j \in 1 .. n : h.at[j].val \in Nat
  BY HeapFields
<1> HIDE DEF n
<1>2. Parent(2 * k) = k /\ Parent(2 * k + 1) = k
  BY DEF Parent
<1>3. ASSUME NEW j \in 2 .. n, Parent(j) = k PROVE j = 2 * k \/ j = 2 * k + 1
  BY <1>1, <1>3 DEF Parent
<1>4. h.at[2 * k].val \in Nat
  BY <1>1
<1>5. CASE 2 * k < n /\ h.at[2 * k + 1].val > h.at[2 * k].val
  <2>1. LargerChild(h.at, k) = 2 * k + 1 /\ 2 * k + 1 \in 2 .. n /\ h.at[2 * k + 1].val \in Nat
    BY <1>1, <1>5 DEF LargerChild, n
  <2>2. \A j \in 2 .. n : Parent(j) = k => h.at[j].val <= h.at[2 * k + 1].val
    <3>1. h.at[2 * k].val <= h.at[2 * k + 1].val
      BY <1>4, <1>5, <2>1
    <3>2. h.at[2 * k + 1].val <= h.at[2 * k + 1].val
      BY <2>1
    <3> QED
      BY <1>3, <3>1, <3>2
  <2> QED
    BY <1>1, <1>2, <2>1, <2>2 DEF n
<1>6. CASE ~(2 * k < n /\ h.at[2 * k + 1].val > h.at[2 * k].val)
  <2>1. LargerChild(h.at, k) = 2 * k
    BY <1>6 DEF LargerChild, n
  <2>2. ASSUME NEW j \in 2 .. n, Parent(j) = k PROVE h.at[j].val <= h.at[2 * k].val
    <3>1. j \in 1 .. n /\ h.at[j].val \in Nat
      BY <1>1
    <3>2. CASE j = 2 * k
      BY <1>4, <3>2
    <3>3. CASE j = 2 * k + 1
      BY <1>1, <1>4, <1>6, <3>1, <3>3
    <3> QED
      BY <1>3, <2>2, <3>2, <3>3
  <2> QED
    BY <1>1, <1>2, <2>1, <2>2 DEF n
<1> QED
  BY <1>5, <1>6

(* One pass of moveDown: the entry changes places with its larger child, and the order
   still lacks only that place. *)
LEMMA DownStep ==
  ASSUME NEW h, NEW k, NEW X, NEW C, Placed(h, k, h.at[k], X, C), DownOrder(h, k), Sinks(h, k)
  PROVE  LET j == LargerChild(h.at, k)
             r == Put(Put(h, k, h.at[j]), j, h.at[k])
         IN  j \in 1 .. Len(r.at) /\ Placed(r, j, r.at[j], X, C) /\ DownOrder(r, j)
<1> DEFINE n == Len(h.at)
           j == LargerChild(h.at, k)
           e == h.at[k]
           b == Put(h, k, h.at[j])
           r == Put(b, j, e)
<1>1. /\ h \in Heap /\ n \in Nat /\ k \in 1 .. n /\ k \in Nat
      /\ \A i \in 1 .. n : h.at[i].val \in Nat
  BY HeapFields DEF Placed
<1>2. /\ j \in 2 .. n /\ Parent(j) = k /\ j > k
      /\ \A i \in 2 .. n : Parent(i) = k => h.at[i].val <= h.at[j].val
  BY <1>1, LargerChildFacts DEF Sinks
<1>3. h.at[j].val > e.val
  BY DEF Sinks
<1>4. \A i \in 2 .. n : i \in 1 .. n /\ Parent(i) \in 1 .. n /\ Parent(i) < i
  BY <1>1, ParentFacts
<1>5. j \in (1 .. n) \ {k}
  BY <1>1, <1>2
<1> HIDE DEF n, j, e
<1>6. /\ Placed(b, j, e, X, C) /\ Len(b.at) = n
      /\ \A i \in 1 .. n : b.at[i] = IF i = k THEN h.at[j] ELSE h.at[i]
  BY <1>5, EntryMoves DEF n, e
<1> HIDE DEF b
<1>7. Placed(r, j, e, X, C) /\ Len(r.at) = n
  <2>1. Placed(r, j, e, X, C)
    BY <1>6, EntryRests
  <2>2. Len(r.at) = Len(b.at)
    BY <1>6, EntryRests
  <2> QED
    BY <1>6, <2>1, <2>2
<1>8. \A i \in 1 .. n : r.at[i] = IF i = j THEN e ELSE b.at[i]
  <2>1. b \in Heap /\ j \in 1 .. Len(b.at) /\ e \in Entry
    BY <1>6 DEF Placed
  <2> QED
    BY <1>6, <2>1, PutFacts
<1> HIDE DEF r
<1>9. /\ r.at[k] = h.at[j] /\ r.at[j] = e
      /\ \A i \in (1 .. n) \ {j, k} : r.at[i] = h.at[i]
  BY <1>1, <1>5, <1>6, <1>8
<1>10. ASSUME NEW i \in 2 .. n, Parent(i) # j PROVE r.at[i].val <= r.at[Parent(i)].val
  <2>1. CASE i = k
    <3>1. Parent(k) # k /\ Parent(k) # j /\ Parent(k) \in 1 .. n
      BY <1>1, <1>2, <1>4, <1>10, <2>1
    <3>2. h.at[j].val <= h.at[Parent(k)].val
      BY <1>2, <2>1 DEF DownOrder, n
    <3> QED
      BY <1>9, <2>1, <3>1, <3>2
  <2>2. CASE i = j
    BY <1>1, <1>2, <1>3, <1>5, <1>9, <2>2 DEF e
  <2>3. CASE i # k /\ i # j /\ Parent(i) = k
    BY <1>2, <1>4, <1>9, <2>3
  <2>4. CASE i # k /\ i # j /\ Parent(i) # k
    <3>1. h.at[i].val <= h.at[Parent(i)].val
      BY <2>4 DEF DownOrder, n
    <3> QED
      BY <1>4, <1>9, <1>10, <2>4, <3>1
  <2> QED
    BY <2>1, <2>2, <2>3, <2>4
<1>11. ASSUME NEW i \in 2 .. n, Parent(i) = j PROVE r.at[i].val <= r.at[Parent(j)].val
  <2>1. i # j /\ i # k /\ Parent(i) # k
    BY <1>1, <1>2, <1>4, <1>5, <1>11
  <2>2. h.at[i].val <= h.at[j].val
    BY <1>11, <2>1 DEF DownOrder, n
  <2> QED
    BY <1>2, <1>4, <1>9, <2>1, <2>2
<1>12. DownOrder(r, j)
  BY <1>7, <1>10, <1>11 DEF DownOrder
<1> QED
  BY <1>5, <1>7, <1>9, <1>12 DEF r, b, j, e

(* When moveDown stops, the entry fits and the array is a heap. *)
LEMMA DownStops ==
  ASSUME NEW h, NEW k, NEW X, NEW C, Placed(h, k, h.at[k], X, C), DownOrder(h, k), ~Sinks(h, k)
  PROVE  SoundBut(Put(h, k, h.at[k]), X) /\ Held(Put(h, k, h.at[k])) = C
<1> DEFINE n == Len(h.at)
           e == h.at[k]
           r == Put(h, k, e)
<1>1. /\ h \in Heap /\ n \in Nat /\ k \in 1 .. n /\ k \in Nat /\ e \in Entry
      /\ \A i \in 1 .. n : h.at[i].val \in Nat
  BY HeapFields DEF Placed
<1>2. Len(r.at) = n /\ \A i \in 1 .. n : r.at[i] = h.at[i]
  BY <1>1, PutFacts
<1>3. ASSUME NEW i \in 2 .. n PROVE h.at[i].val <= h.at[Parent(i)].val
  <2>1. CASE Parent(i) = k
    <3>1. 2 * k \in 2 .. n
      BY <1>1, <2>1 DEF Parent
    <3>2. h.at[i].val <= h.at[LargerChild(h.at, k)].val /\ LargerChild(h.at, k) \in 2 .. n
      BY <1>1, <2>1, <3>1, LargerChildFacts
    <3>3. ~(h.at[LargerChild(h.at, k)].val > h.at[k].val)
      BY <3>1 DEF Sinks
    <3>4. h.at[LargerChild(h.at, k)].val \in Nat /\ h.at[i].val \in Nat /\ h.at[k].val \in Nat
      BY <1>1, <3>2
    <3> QED
      BY <2>1, <3>2, <3>3, <3>4
  <2>2. CASE Parent(i) # k
    BY <2>2 DEF DownOrder
  <2> QED
    BY <2>1, <2>2
<1>4. \A i \in 2 .. n : i \in 1 .. n /\ Parent(i) \in 1 .. n
  BY <1>1, ParentFacts
<1> HIDE DEF r
<1>5. Ordered(r.at)
  BY <1>2, <1>3, <1>4 DEF Ordered
<1>6. Placed(h, k, e, X, C)
  OBVIOUS
<1> HIDE DEF e
<1>7. SoundBut(r, X) /\ Held(r) = C
  BY <1>5, <1>6, EntryRests DEF r
<1> QED
  BY <1>7 DEF r, e

(* moveDown restores the heap and keeps its entries. *)
LEMMA MoveDownSound ==
  ASSUME NEW h, NEW i, NEW X, NEW C, Placed(h, i, h.at[i], X, C), DownOrder(h, i)
  PROVE  SoundBut(MoveDown(h, i), X) /\ Held(MoveDown(h, i)) = C
<1> DEFINE D == Heap \X Nat
           Room(x) == Len(x[1].at) - x[2]
           M == [x \in D |-> IF Room(x) >= 0 THEN Room(x) ELSE 0]
           Child(x) == LargerChild(x[1].at, x[2])
           Goes(x) == 2 * x[2] \in 2 .. Len(x[1].at) /\ x[1].at[Child(x)].val > x[1].at[x[2]].val
           Stop == {x \in D : ~Goes(x)}
           Swapped(x) == Put(Put(x[1], x[2], x[1].at[Child(x)]), Child(x), x[1].at[x[2]])
           Out == [x \in D |-> Put(x[1], x[2], x[1].at[x[2]])]
           Next1 == [x \in D |-> <<Swapped(x), Child(x)>>]
           Loop(f) == f = [x \in D |-> IF x \in Stop THEN Out[x] ELSE f[Next1[x]]]
           Body(f) == [x \in D |-> IF Goes(x) THEN f[<<Swapped(x), Child(x)>>]
                                             ELSE Put(x[1], x[2], x[1].at[x[2]])]
           down == CHOOSE f : f = Body(f)
           P == {x \in D : /\ x[2] \in 1 .. Len(x[1].at)
                           /\ Placed(x[1], x[2], x[1].at[x[2]], X, C) /\ DownOrder(x[1], x[2])}
           Q == {r \in Heap : SoundBut(r, X) /\ Held(r) = C}
<1>0. \A x \in D : x \in Stop <=> ~Sinks(x[1], x[2])
  BY DEF Sinks
<1>1. ASSUME NEW x \in D \ Stop
      PROVE  /\ x[1] \in Heap /\ x[2] \in Nat /\ Len(x[1].at) \in Nat
             /\ x[2] < Child(x) /\ Child(x) \in 2 .. Len(x[1].at)
             /\ Swapped(x) \in Heap /\ Len(Swapped(x).at) = Len(x[1].at)
  <2>1. x[1] \in Heap /\ x[2] \in Nat /\ 2 * x[2] \in 2 .. Len(x[1].at) /\ Len(x[1].at) \in Nat
    BY HeapFields
  <2>2. Child(x) \in 2 .. Len(x[1].at) /\ Child(x) > x[2]
    BY <2>1, LargerChildFacts
  <2>3. /\ x[2] \in 1 .. Len(x[1].at) /\ Child(x) \in 1 .. Len(x[1].at)
        /\ x[1].at[Child(x)] \in Entry /\ x[1].at[x[2]] \in Entry
    BY <2>1, <2>2, HeapFields
  <2> DEFINE b == Put(x[1], x[2], x[1].at[Child(x)])
  <2>4. b \in Heap /\ Len(b.at) = Len(x[1].at)
    BY <2>1, <2>3, PutFacts
  <2> HIDE DEF b
  <2>5. Put(b, Child(x), x[1].at[x[2]]) \in Heap /\ Len(Put(b, Child(x), x[1].at[x[2]]).at) = Len(b.at)
    BY <2>3, <2>4, PutFacts
  <2> QED
    BY <2>1, <2>2, <2>4, <2>5 DEF b
<1>2. Falls(D, M, Stop, Next1)
  <2>1. M \in [D -> Nat]
    <3>1. \A x \in D : Room(x) \in Int
      BY HeapFields
    <3> QED
      BY <3>1
  <2>2. ASSUME NEW x \in D \ Stop PROVE Next1[x] \in D /\ M[Next1[x]] < M[x]
    <3>1. Next1[x] \in D /\ Next1[x] = <<Swapped(x), Child(x)>>
      <4>1. Swapped(x) \in Heap /\ Child(x) \in Nat
        <5> HIDE DEF D, Stop, Swapped, Child
        <5> QED
          BY <1>1
      <4>2. <<Swapped(x), Child(x)>> \in D
        BY <4>1
      <4> HIDE DEF D, Stop, Swapped, Child
      <4> QED
        BY <4>2
    <3>2. Room(Next1[x]) = Len(x[1].at) - Child(x) /\ Room(x) = Len(x[1].at) - x[2]
      <4> HIDE DEF Swapped, Child
      <4> QED
        BY <1>1, <3>1
    <3> DEFINE j == Child(x)
               k == x[2]
               n == Len(x[1].at)
    <3>3. k \in Nat /\ n \in Nat /\ j \in 2 .. n /\ k < j
      BY <1>1
    <3>4. M[Next1[x]] = n - j /\ M[x] = n - k
      <4> HIDE DEF Room, Next1, Child, Swapped, D, j, k, n
      <4>1. Room(Next1[x]) >= 0 /\ Room(x) >= 0
        BY <3>2, <3>3 DEF j, k, n
      <4> QED
        BY <3>1, <3>2, <4>1 DEF j, k, n
    <3> HIDE DEF M, Next1, D, j, k, n
    <3> QED
      BY <3>1, <3>3, <3>4
  <2> HIDE DEF M, Next1, D
  <2> QED
    BY <2>1, <2>2 DEF Falls
<1>3. MoveDown(h, i) = down[<<h, i>>]
  <2>1. h.at # <<>>
    BY HeapFields DEF Placed
  <2> QED
    BY <2>1 DEF MoveDown
<1>4. Loop(down)
  <2>1. \E f : Loop(f)
    <3> HIDE DEF D, M, Stop, Out, Next1
    <3> QED
      BY <1>2, LoopTable
  <2>2. \A f : Loop(f) <=> f = Body(f)
    <3> HIDE DEF Goes, Swapped, Child, D
    <3> QED
      OBVIOUS
  <2> HIDE DEF Loop, Body
  <2> QED
    BY <2>1, <2>2
<1>5. P \in SUBSET D
  OBVIOUS
<1>6. ASSUME NEW x \in P \cap Stop PROVE Out[x] \in Q
  <2>1. SoundBut(Put(x[1], x[2], x[1].at[x[2]]), X) /\ Held(Put(x[1], x[2], x[1].at[x[2]])) = C
    BY <1>0, DownStops
  <2> QED
    BY <2>1 DEF SoundBut
<1>7. ASSUME NEW x \in P \ Stop PROVE Next1[x] \in P
  <2> DEFINE j == Child(x)
             r == Swapped(x)
  <2>1. x \in D \ Stop /\ Placed(x[1], x[2], x[1].at[x[2]], X, C) /\ DownOrder(x[1], x[2])
        /\ Sinks(x[1], x[2])
    BY <1>0
  <2>2. j \in 1 .. Len(r.at) /\ Placed(r, j, r.at[j], X, C) /\ DownOrder(r, j)
    BY <2>1, DownStep
  <2>3. Next1[x] = <<r, j>> /\ <<r, j>> \in D
    <3>1. x \in D /\ r \in Heap /\ j \in Nat
      <4>1. x \in D \ Stop
        BY <2>1
      <4> HIDE DEF D, Stop, Swapped, Child
      <4>2. Swapped(x) \in Heap /\ x[2] \in Nat /\ Len(x[1].at) \in Nat /\ Child(x) \in 2 .. Len(x[1].at)
        BY <1>1, <4>1
      <4> QED
        BY <4>1, <4>2
    <3>2. <<r, j>> \in D
      BY <3>1
    <3> HIDE DEF D, r, j, Swapped, Child
    <3> QED
      BY <3>1, <3>2 DEF r, j
  <2> HIDE DEF r, j
  <2> QED
    BY <2>2, <2>3
<1>8. \A x \in P : down[x] \in Q
  <2> HIDE DEF D, M, Stop, Out, Next1, P, Q, down
  <2> QED
    BY <1>2, <1>4, <1>5, <1>6, <1>7, LoopInduction
<1>9. <<h, i>> \in P
  BY HeapFields DEF Placed
<1> QED
  BY <1>3, <1>8, <1>9
-----------------------------------------------------------------------------
(* A sound heap: one entry for a node, the greatest in front.               *)
LEMMA SoundFacts ==
  ASSUME NEW h, Sound(h)
  PROVE  /\ h \in Heap
         /\ \A j, k \in 1 .. Len(h.at) : h.at[j].i = h.at[k].i => j = k
         /\ \A x, y \in Held(h) : x.i = y.i => x = y
         /\ \A n \in Numbers : Buffered(h, n) <=> \E x \in Held(h) : x.i = n
         /\ \A k \in 1 .. Len(h.at) : h.at[k].i \in Numbers /\ h.at[k].val \in Nat
<1>1. h \in Heap /\ \A k \in 1 .. Len(h.at) : h.key[h.at[k].i] = k
  BY DEF Sound, SoundBut
<1>2. \A k \in 1 .. Len(h.at) : h.at[k].i \in Numbers /\ h.at[k].val \in Nat
  BY <1>1, HeapFields
<1>3. \A j, k \in 1 .. Len(h.at) : h.at[j].i = h.at[k].i => j = k
  BY <1>1
<1>4. \A x, y \in Held(h) : x.i = y.i => x = y
  BY <1>3 DEF Held
<1>5. ASSUME NEW n \in Numbers PROVE Buffered(h, n) <=> \E x \in Held(h) : x.i = n
  <2>1. ASSUME h.key[n] # NoEntry PROVE \E x \in Held(h) : x.i = n
    <3>1. h.key[n] \in 1 .. Len(h.at) /\ h.at[h.key[n]].i = n
      BY <2>1 DEF Sound, SoundBut
    <3> QED
      BY <3>1 DEF Held
  <2>2. ASSUME NEW x \in Held(h), x.i = n PROVE h.key[n] # NoEntry
    <3>1. PICK k \in 1 .. Len(h.at) : x = h.at[k]
      BY DEF Held
    <3> QED
      BY <1>1, <2>2, <3>1, HeapFields DEF NoEntry
  <2> QED
    BY <2>1, <2>2 DEF Buffered
<1> QED
  BY <1>1, <1>2, <1>3, <1>4, <1>5

(* No entry of a heap exceeds the first. *)
LEMMA FirstIsGreatest ==
  ASSUME NEW h, Sound(h)
  PROVE  \A x \in Held(h) : x.val <= h.at[1].val
<1> DEFINE n == Len(h.at)
           Good == {k \in Nat : \A j \in 1 .. n : j <= k + 1 => h.at[j].val <= h.at[1].val}
<1>1. n \in Nat /\ \A k \in 1 .. n : h.at[k].val \in Nat
  BY SoundFacts, HeapFields
<1>2. \A k \in 2 .. n : h.at[k].val <= h.at[Parent(k)].val
  BY DEF Sound, SoundBut, Ordered
<1>3. 0 \in Good
  <2>1. ASSUME NEW j \in 1 .. n, j <= 1 PROVE h.at[j].val <= h.at[1].val
    <3>1. j = 1
      BY <1>1, <2>1
    <3> QED
      BY <1>1, <3>1
  <2> QED
    BY <2>1
<1>4. ASSUME NEW k \in Nat, k \in Good PROVE k + 1 \in Good
  <2>1. ASSUME NEW j \in 1 .. n, j <= k + 1 + 1 PROVE h.at[j].val <= h.at[1].val
    <3>1. CASE j = 1
      BY <1>1, <3>1
    <3>2. CASE j # 1
      <4>1. j \in 2 .. n /\ Parent(j) \in 1 .. n /\ Parent(j) <= k + 1
        BY <1>1, <2>1, <3>2, ParentFacts
      <4>2. h.at[Parent(j)].val <= h.at[1].val
        BY <1>4, <4>1
      <4>3. h.at[j].val \in Nat /\ h.at[Parent(j)].val \in Nat /\ h.at[1].val \in Nat
        BY <1>1, <4>1
      <4>4. h.at[j].val <= h.at[Parent(j)].val
        BY <1>2, <4>1
      <4> QED
        BY <4>2, <4>3, <4>4
    <3> QED
      BY <3>1, <3>2
  <2> QED
    BY <2>1
<1>5. \A k \in Nat : k \in Good
  <2> HIDE DEF Good
  <2> QED
    BY <1>3, <1>4, CountingInduction
<1>6. ASSUME NEW j \in 1 .. n PROVE h.at[j].val <= h.at[1].val
  <2>1. j - 1 \in Nat /\ j <= (j - 1) + 1
    BY <1>1
  <2>2. j - 1 \in Good
    <3> HIDE DEF Good
    <3> QED
      BY <1>5, <2>1
  <2> QED
    BY <2>1, <2>2
<1> QED
  BY <1>6 DEF Held

(* insert                                                                   *)
LEMMA HeapInsertSound ==
  ASSUME NEW h, Sound(h), NEW e \in Entry, ~Buffered(h, e.i)
  PROVE  Sound(HeapInsert(h, e)) /\ Held(HeapInsert(h, e)) = Held(h) \cup {e}
<1> DEFINE n == Len(h.at)
           b == [h EXCEPT !.at = Append(@, e)]
           k == n + 1
<1>1. h \in Heap /\ h.at \in Seq(Entry) /\ n \in Nat /\ e.i \in Numbers
  BY SoundFacts, HeapFields DEF Entry
<1>2. b = [at |-> Append(h.at, e), key |-> h.key]
  <2>1. \A a, d : [[at |-> a, key |-> d] EXCEPT !.at = Append(@, e)]
                    = [at |-> Append(a, e), key |-> d]
    OBVIOUS
  <2>2. h = [at |-> h.at, key |-> h.key]
    BY <1>1 DEF Heap
  <2> QED
    BY <2>1, <2>2
<1>3. /\ b \in Heap /\ Len(b.at) = k /\ b.key = h.key /\ b.at[k] = e
      /\ \A j \in 1 .. n : b.at[j] = h.at[j]
  <2>1. /\ Append(h.at, e) \in Seq(Entry) /\ Len(Append(h.at, e)) = k
        /\ Append(h.at, e)[k] = e /\ \A j \in 1 .. n : Append(h.at, e)[j] = h.at[j]
    BY <1>1
  <2>2. h.key \in [Numbers -> Nat]
    BY <1>1, HeapFields
  <2> QED
    BY <1>2, <2>1, <2>2 DEF Heap
<1>4. HeapInsert(h, e) = MoveUp(b, k, e)
  BY DEF HeapInsert
<1> HIDE DEF b
<1>5. (1 .. k) \ {k} = 1 .. n /\ k \in 1 .. k
  BY <1>1
<1>6. \A j \in 1 .. n : h.key[h.at[j].i] = j /\ h.at[j].i # e.i
  BY <1>1, SoundFacts DEF Sound, SoundBut, Held
<1>7. Held(h) \cup {e} = {b.at[j] : j \in (1 .. k) \ {k}} \cup {e}
  BY <1>3, <1>5 DEF Held
<1>8. ASSUME NEW m \in Numbers, b.key[m] # NoEntry
      PROVE  b.key[m] \in 1 .. n /\ b.at[b.key[m]].i = m
  BY <1>3, <1>8 DEF Sound, SoundBut
<1>9. Placed(b, k, e, {}, Held(h) \cup {e})
  BY <1>3, <1>5, <1>6, <1>7, <1>8 DEF Placed
<1>10. UpOrder(b, k, e)
  <2>1. \A j \in 2 .. k : Parent(j) \in 1 .. n /\ Parent(j) # k
    BY <1>1, ParentFacts
  <2>2. \A j \in 2 .. n : h.at[j].val <= h.at[Parent(j)].val
    BY DEF Sound, SoundBut, Ordered
  <2>3. ASSUME NEW j \in 2 .. k, j # k PROVE b.at[j].val <= b.at[Parent(j)].val
    <3>1. j \in 2 .. n /\ j \in 1 .. n
      BY <1>1, <2>3
    <3> QED
      BY <1>3, <2>1, <2>2, <3>1
  <2> HIDE DEF k
  <2> QED
    BY <1>3, <2>1, <2>3 DEF UpOrder
<1> HIDE DEF k
<1> QED
  BY <1>4, <1>9, <1>10, MoveUpSound DEF Sound

(* The last entry fills the gap at i.                                       *)
LEMMA FilledFacts ==
  ASSUME NEW h \in Heap, NEW i \in 1 .. Len(h.at)
  PROVE  LET g == FilledFromLast(h, i)
             n == Len(h.at)
         IN  /\ g \in Heap /\ Len(g.at) = n - 1
             /\ \A j \in 1 .. n - 1 : g.at[j] = IF j = i THEN h.at[n] ELSE h.at[j]
             /\ \A m \in Numbers : g.key[m] = IF m = h.at[n].i THEN i ELSE h.key[m]
<1> DEFINE n == Len(h.at)
           b == Put(h, i, h.at[n])
           at == SubSeq(b.at, 1, n - 1)
<1>1. n \in Nat /\ n \in 1 .. n /\ h.at[n] \in Entry
  BY HeapFields
<1>2. /\ b \in Heap /\ Len(b.at) = n
      /\ \A j \in 1 .. n : b.at[j] = IF j = i THEN h.at[n] ELSE h.at[j]
      /\ \A m \in Numbers : b.key[m] = IF m = h.at[n].i THEN i ELSE h.key[m]
  BY <1>1, PutFacts
<1>3. FilledFromLast(h, i) = [b EXCEPT !.at = at]
  BY DEF FilledFromLast
<1> HIDE DEF b
<1>4. b.at \in Seq(Entry) /\ b.key \in [Numbers -> Nat]
  BY <1>2, HeapFields
<1>5. at \in Seq(Entry) /\ Len(at) = n - 1 /\ \A j \in 1 .. n - 1 : at[j] = b.at[j]
  BY <1>1, <1>2, <1>4
<1> HIDE DEF at, n
<1>6. [b EXCEPT !.at = at] = [at |-> at, key |-> b.key]
  BY <1>2 DEF Heap
<1>7. [at |-> at, key |-> b.key] \in Heap
  BY <1>4, <1>5 DEF Heap
<1>8. \A j \in 1 .. n - 1 : at[j] = IF j = i THEN h.at[n] ELSE h.at[j]
  BY <1>1, <1>2, <1>5
<1> QED
  BY <1>2, <1>3, <1>5, <1>6, <1>7, <1>8 DEF n

(* Removing the last entry leaves a heap. *)
LEMMA FilledEnd ==
  ASSUME NEW h, Sound(h), h.at # <<>>
  PROVE  LET n == Len(h.at)
             g == FilledFromLast(h, n)
         IN  /\ SoundBut(g, {h.at[n].i}) /\ Len(g.at) = n - 1
             /\ Held(g) = Held(h) \ {h.at[n]}
<1> DEFINE n == Len(h.at)
           nr == h.at[n].i
           g == FilledFromLast(h, n)
<1>1. h \in Heap /\ n \in Nat /\ n \in 1 .. n /\ nr \in Numbers
  BY SoundFacts, HeapFields
<1>2. \A j, k \in 1 .. n : h.at[j].i = h.at[k].i => j = k
  BY SoundFacts
<1>3. /\ \A j \in 2 .. n : h.at[j].val <= h.at[Parent(j)].val
      /\ \A m \in Numbers : h.key[m] # NoEntry => h.key[m] \in 1 .. n /\ h.at[h.key[m]].i = m
      /\ \A j \in 1 .. n : h.key[h.at[j].i] = j /\ h.at[j].i \in Numbers
  BY <1>1, HeapFields DEF Sound, SoundBut, Ordered
<1>4. /\ g \in Heap /\ Len(g.at) = n - 1
      /\ \A j \in 1 .. n - 1 : g.at[j] = IF j = n THEN h.at[n] ELSE h.at[j]
      /\ \A m \in Numbers : g.key[m] = IF m = nr THEN n ELSE h.key[m]
  BY <1>1, FilledFacts
<1> HIDE DEF g
<1>5. \A j \in 1 .. n - 1 : j \in 1 .. n /\ g.at[j] = h.at[j] /\ g.at[j].i # nr
  BY <1>1, <1>2, <1>4
<1>6. Ordered(g.at)
  <2>1. ASSUME NEW j \in 2 .. n - 1 PROVE g.at[j].val <= g.at[Parent(j)].val
    <3>1. j \in 1 .. n - 1 /\ Parent(j) \in 1 .. n - 1
      BY <1>1, ParentFacts
    <3> QED
      BY <1>1, <1>3, <1>5, <3>1
  <2> QED
    BY <1>4, <2>1 DEF Ordered
<1>7. ASSUME NEW m \in Numbers \ {nr}, g.key[m] # NoEntry
      PROVE  g.key[m] \in 1 .. n - 1 /\ g.at[g.key[m]].i = m
  <2>1. g.key[m] = h.key[m] /\ h.key[m] \in 1 .. n /\ h.at[h.key[m]].i = m
    BY <1>3, <1>4, <1>7
  <2>2. h.key[m] # n
    BY <2>1
  <2> QED
    BY <1>1, <1>5, <2>1, <2>2
<1>8. ASSUME NEW j \in 1 .. n - 1 PROVE g.key[g.at[j].i] = j
  <2>1. j \in 1 .. n /\ g.at[j] = h.at[j] /\ h.at[j].i # nr
    BY <1>5
  <2>2. h.key[h.at[j].i] = j /\ h.at[j].i \in Numbers
    BY <1>3, <2>1
  <2> QED
    BY <1>4, <2>1, <2>2
<1>9. SoundBut(g, {nr})
  BY <1>4, <1>6, <1>7, <1>8 DEF SoundBut
<1>10. Held(g) = Held(h) \ {h.at[n]}
  <2>1. ASSUME NEW x \in Held(g) PROVE x \in Held(h) \ {h.at[n]}
    BY <1>4, <1>5 DEF Held
  <2>2. ASSUME NEW x \in Held(h), x # h.at[n] PROVE x \in Held(g)
    <3>1. PICK j \in 1 .. n : x = h.at[j]
      BY DEF Held
    <3>2. j \in 1 .. n - 1
      BY <1>1, <2>2, <3>1
    <3> QED
      BY <1>4, <1>5, <3>1, <3>2 DEF Held
  <2> QED
    BY <2>1, <2>2
<1> QED
  BY <1>4, <1>9, <1>10 DEF g

(* Filling the place of a removed entry with the last one breaks the order at that place
   only, towards the parent or towards the children. *)
LEMMA FilledMiddle ==
  ASSUME NEW h, Sound(h), NEW i \in 1 .. Len(h.at), i # Len(h.at)
  PROVE  LET g == FilledFromLast(h, i)
         IN  /\ Placed(g, i, g.at[i], {h.at[i].i}, Held(h) \ {h.at[i]})
             /\ i <= Len(g.at)
             /\ IF i > 1 /\ g.at[i].val > g.at[Parent(i)].val
                THEN UpOrder(g, i, g.at[i])
                ELSE DownOrder(g, i)
<1> DEFINE n == Len(h.at)
           nr == h.at[i].i
           e == h.at[n]
           g == FilledFromLast(h, i)
           C == Held(h) \ {h.at[i]}
<1>1. h \in Heap /\ n \in Nat /\ n \in 1 .. n /\ i \in 1 .. n - 1 /\ i \in Nat
      /\ e \in Entry /\ nr \in Numbers /\ e.i \in Numbers
  BY SoundFacts, HeapFields
<1>2. \A j, k \in 1 .. n : h.at[j].i = h.at[k].i => j = k
  BY SoundFacts
<1>3. /\ \A j \in 2 .. n : h.at[j].val <= h.at[Parent(j)].val
      /\ \A m \in Numbers : h.key[m] # NoEntry => h.key[m] \in 1 .. n /\ h.at[h.key[m]].i = m
      /\ \A j \in 1 .. n : h.key[h.at[j].i] = j /\ h.at[j].i \in Numbers /\ h.at[j].val \in Nat
  BY <1>1, HeapFields DEF Sound, SoundBut, Ordered
<1>4. /\ g \in Heap /\ Len(g.at) = n - 1
      /\ \A j \in 1 .. n - 1 : g.at[j] = IF j = i THEN h.at[n] ELSE h.at[j]
      /\ \A m \in Numbers : g.key[m] = IF m = e.i THEN i ELSE h.key[m]
  BY <1>1, FilledFacts
<1> HIDE DEF g
<1>5. /\ g.at[i] = e
      /\ \A j \in (1 .. n - 1) \ {i} : j \in 1 .. n /\ j # n /\ g.at[j] = h.at[j]
  BY <1>1, <1>4
<1>6. ASSUME NEW j \in (1 .. n - 1) \ {i}
      PROVE  g.at[j].i # e.i /\ g.at[j] # h.at[i] /\ g.key[g.at[j].i] = j
  <2>1. g.at[j] = h.at[j] /\ j \in 1 .. n /\ j # n /\ j # i
    BY <1>5
  <2>2. h.at[j].i # e.i /\ h.at[j].i # h.at[i].i
    BY <1>1, <1>2, <2>1
  <2>3. h.key[h.at[j].i] = j /\ h.at[j].i \in Numbers
    BY <1>3, <2>1
  <2>4. g.key[h.at[j].i] = j
    BY <1>4, <2>2, <2>3
  <2> QED
    BY <2>1, <2>2, <2>4
<1>7. ASSUME NEW m \in Numbers \ {nr}, m # e.i, g.key[m] # NoEntry
      PROVE  g.key[m] \in (1 .. n - 1) \ {i} /\ g.at[g.key[m]].i = m
  <2>1. g.key[m] = h.key[m] /\ h.key[m] \in 1 .. n /\ h.at[h.key[m]].i = m
    BY <1>3, <1>4, <1>7
  <2>2. h.key[m] # n /\ h.key[m] # i
    BY <1>7, <2>1
  <2>3. h.key[m] \in (1 .. n - 1) \ {i}
    BY <1>1, <2>1, <2>2
  <2>4. g.at[h.key[m]] = h.at[h.key[m]]
    BY <1>5, <2>3
  <2> QED
    BY <2>1, <2>3, <2>4
<1>8. C = {g.at[j] : j \in (1 .. n - 1) \ {i}} \cup {e}
  <2>1. ASSUME NEW x \in C PROVE x \in {g.at[j] : j \in (1 .. n - 1) \ {i}} \cup {e}
    <3>1. PICK j \in 1 .. n : x = h.at[j]
      BY DEF Held
    <3>2. j = n \/ j \in (1 .. n - 1) \ {i}
      BY <1>1, <3>1
    <3> QED
      BY <1>5, <3>1, <3>2
  <2>2. ASSUME NEW x \in {g.at[j] : j \in (1 .. n - 1) \ {i}} PROVE x \in C
    <3>1. PICK j \in (1 .. n - 1) \ {i} : x = g.at[j]
      OBVIOUS
    <3>2. x = h.at[j] /\ j \in 1 .. n /\ x # h.at[i]
      BY <1>5, <1>6, <3>1
    <3> QED
      BY <3>2 DEF Held
  <2>3. e \in C
    <3>1. e # h.at[i]
      BY <1>1, <1>2
    <3> QED
      BY <1>1, <3>1 DEF Held
  <2> HIDE DEF C
  <2> QED
    BY <2>1, <2>2, <2>3
<1> HIDE DEF C, nr, e
<1>9. Placed(g, i, e, {nr}, C)
  BY <1>1, <1>4, <1>6, <1>7, <1>8 DEF Placed
<1>10. \A j \in 2 .. n - 1 : /\ j \in 2 .. n /\ j \in 1 .. n - 1
                             /\ Parent(j) \in 1 .. n - 1 /\ Parent(j) < j
  BY <1>1, ParentFacts
<1>11. ASSUME NEW j \in 2 .. n - 1, j # i, Parent(j) # i
       PROVE  g.at[j].val <= g.at[Parent(j)].val
  BY <1>3, <1>5, <1>10, <1>11
<1>12. ASSUME NEW j \in 2 .. n - 1, Parent(j) = i, i \in 2 .. n - 1
       PROVE  g.at[j].val <= g.at[Parent(i)].val
  <2>1. j # i /\ Parent(i) # i /\ Parent(i) \in 1 .. n - 1
    BY <1>10, <1>12
  <2>2. h.at[j].val <= h.at[i].val /\ h.at[i].val <= h.at[Parent(i)].val
    BY <1>3, <1>10, <1>12
  <2>3. h.at[j].val \in Nat /\ h.at[i].val \in Nat /\ h.at[Parent(i)].val \in Nat
    BY <1>1, <1>3, <1>5, <1>10, <2>1
  <2>4. g.at[j] = h.at[j] /\ g.at[Parent(i)] = h.at[Parent(i)]
    BY <1>5, <1>10, <2>1
  <2> QED
    BY <2>2, <2>3, <2>4
<1>13. \A j \in 1 .. n - 1 : g.at[j].val \in Nat
  BY <1>4, HeapFields
<1>14. CASE i > 1 /\ e.val > g.at[Parent(i)].val
  <2>0. i \in 2 .. n - 1
    BY <1>1, <1>14
  <2>1. i \in 2 .. n - 1 /\ g.at[Parent(i)].val \in Nat /\ e.val \in Nat
    BY <1>1, <1>5, <1>10, <1>13, <2>0
  <2>2. ASSUME NEW j \in 2 .. n - 1, Parent(j) = i
        PROVE  g.at[j].val <= e.val /\ g.at[j].val <= g.at[Parent(i)].val
    <3>1. g.at[j].val <= g.at[Parent(i)].val /\ g.at[j].val \in Nat
      BY <1>10, <1>12, <1>13, <2>1, <2>2
    <3> QED
      BY <1>14, <2>1, <3>1
  <2>3. UpOrder(g, i, e)
    BY <1>4, <1>11, <2>2 DEF UpOrder
  <2> QED
    BY <1>1, <1>4, <1>5, <1>9, <1>14, <2>3 DEF g, C, nr
<1>15. CASE ~(i > 1 /\ e.val > g.at[Parent(i)].val)
  <2>1. ASSUME NEW j \in 2 .. n - 1, Parent(j) # i PROVE g.at[j].val <= g.at[Parent(j)].val
    <3>1. CASE j = i
      <4>1. g.at[Parent(i)].val \in Nat /\ g.at[i].val \in Nat
        BY <1>10, <1>13, <3>1
      <4> QED
        BY <1>5, <1>15, <3>1, <4>1
    <3> QED
      BY <1>11, <2>1, <3>1
  <2>2. DownOrder(g, i)
    BY <1>4, <1>12, <2>1 DEF DownOrder
  <2> QED
    BY <1>1, <1>4, <1>5, <1>9, <1>15, <2>2 DEF g, C, nr
<1> QED
  BY <1>14, <1>15

(* The pointer of the entry taken out is cleared.                           *)
LEMMA Cleared ==
  ASSUME NEW r, NEW nr \in Numbers, SoundBut(r, {nr}), \A x \in Held(r) : x.i # nr
  PROVE  Sound([r EXCEPT !.key[nr] = NoEntry]) /\ Held([r EXCEPT !.key[nr] = NoEntry]) = Held(r)
<1> DEFINE key == [r.key EXCEPT ![nr] = NoEntry]
           z == [r EXCEPT !.key[nr] = NoEntry]
<1>1. r \in Heap /\ r.at \in Seq(Entry) /\ r.key \in [Numbers -> Nat]
  BY HeapFields DEF SoundBut
<1>2. z = [at |-> r.at, key |-> key]
  <2>1. \A a, b : [[at |-> a, key |-> b] EXCEPT !.key[nr] = NoEntry]
                    = [at |-> a, key |-> [b EXCEPT ![nr] = NoEntry]]
    OBVIOUS
  <2>2. r = [at |-> r.at, key |-> r.key]
    BY <1>1 DEF Heap
  <2> QED
    BY <2>1, <2>2
<1>3. /\ key \in [Numbers -> Nat] /\ key[nr] = NoEntry
      /\ \A m \in Numbers \ {nr} : key[m] = r.key[m]
  BY <1>1 DEF NoEntry
<1> HIDE DEF key, z
<1>4. z \in Heap /\ z.at = r.at /\ z.key = key
  BY <1>1, <1>2, <1>3 DEF Heap
<1>5. \A k \in 1 .. Len(r.at) : r.at[k].i # nr /\ r.at[k].i \in Numbers
  BY <1>1, HeapFields DEF Held
<1>6. \A k \in 1 .. Len(r.at) : key[r.at[k].i] = k
  BY <1>3, <1>5 DEF SoundBut
<1>7. ASSUME NEW m \in Numbers, key[m] # NoEntry
      PROVE  key[m] \in 1 .. Len(r.at) /\ r.at[key[m]].i = m
  BY <1>3, <1>7 DEF SoundBut
<1>8. Ordered(r.at)
  BY DEF SoundBut
<1>9. Sound(z)
  BY <1>4, <1>6, <1>7, <1>8 DEF Sound, SoundBut
<1>10. Held(z) = Held(r)
  BY <1>4 DEF Held
<1> QED
  BY <1>9, <1>10 DEF z
-----------------------------------------------------------------------------

(* remove takes the entry of one node out of the heap and nothing else. *)
LEMMA HeapRemoveSound ==
  ASSUME NEW h, Sound(h), NEW nr \in Numbers, Buffered(h, nr)
  PROVE  /\ Sound(HeapRemove(h, nr))
         /\ Held(HeapRemove(h, nr)) = {x \in Held(h) : x.i # nr}
<1> DEFINE i == h.key[nr]
           n == Len(h.at)
           C == Held(h) \ {h.at[i]}
           g == FilledFromLast(h, i)
           r == CASE i > Len(g.at) -> g
                  [] i <= Len(g.at) /\ i > 1 /\ g.at[i].val > g.at[Parent(i)].val ->
                       MoveUp(g, i, g.at[i])
                  [] OTHER -> MoveDown(g, i)
<1>1. h \in Heap /\ n \in Nat /\ i \in 1 .. n /\ h.at[i].i = nr
  BY SoundFacts, HeapFields DEF Sound, SoundBut, Buffered
<1>2. C = {x \in Held(h) : x.i # nr}
  <2>1. h.at[i] \in Held(h)
    BY <1>1 DEF Held
  <2>2. \A x, y \in Held(h) : x.i = y.i => x = y
    BY SoundFacts
  <2> QED
    BY <1>1, <2>1, <2>2
<1>3. HeapRemove(h, nr) = [r EXCEPT !.key[nr] = NoEntry]
  BY DEF HeapRemove
<1>4. SoundBut(r, {nr}) /\ Held(r) = C
  <2>1. CASE i = n
    <3>1. h.at # <<>>
      BY <1>1
    <3>2. SoundBut(g, {nr}) /\ Len(g.at) = n - 1 /\ Held(g) = C
      BY <1>1, <2>1, <3>1, FilledEnd
    <3>3. i > Len(g.at) /\ ~(i <= Len(g.at))
      BY <1>1, <2>1, <3>2
    <3> HIDE DEF g, i, C
    <3>4. r = g
      BY <3>3
    <3> HIDE DEF r
    <3> QED
      BY <3>2, <3>4
  <2>2. CASE i # n
    <3>1. Placed(g, i, g.at[i], {nr}, C)
      BY <1>1, <2>2, FilledMiddle
    <3>2. i <= Len(g.at)
      BY <1>1, <2>2, FilledMiddle
    <3>3. IF i > 1 /\ g.at[i].val > g.at[Parent(i)].val
          THEN UpOrder(g, i, g.at[i]) ELSE DownOrder(g, i)
      BY <1>1, <2>2, FilledMiddle
    <3>4. ~(i > Len(g.at))
      <4>1. i \in Nat /\ Len(g.at) \in Nat
        BY <1>1, <3>1, HeapFields DEF Placed
      <4> HIDE DEF g, i
      <4> QED
        BY <3>2, <4>1
    <3> HIDE DEF g, i, C
    <3>5. CASE i > 1 /\ g.at[i].val > g.at[Parent(i)].val
      <4>1. r = MoveUp(g, i, g.at[i])
        BY <3>2, <3>4, <3>5
      <4>2. UpOrder(g, i, g.at[i])
        BY <3>3, <3>5
      <4> HIDE DEF r
      <4> QED
        BY <3>1, <4>1, <4>2, MoveUpSound
    <3>6. CASE ~(i > 1 /\ g.at[i].val > g.at[Parent(i)].val)
      <4>1. r = MoveDown(g, i)
        BY <3>4, <3>6
      <4>2. DownOrder(g, i)
        BY <3>3, <3>6
      <4> HIDE DEF r
      <4> QED
        BY <3>1, <4>1, <4>2, MoveDownSound
    <3> QED
      BY <3>5, <3>6
  <2> QED
    BY <2>1, <2>2
<1> HIDE DEF r
<1>5. \A x \in Held(r) : x.i # nr
  BY <1>2, <1>4
<1>6. Sound([r EXCEPT !.key[nr] = NoEntry]) /\ Held([r EXCEPT !.key[nr] = NoEntry]) = Held(r)
  BY <1>4, <1>5, Cleared
<1> QED
  BY <1>2, <1>3, <1>4, <1>6

(* extractMax takes the first entry out of the heap and nothing else. *)
LEMMA HeapExtractMaxSound ==
  ASSUME NEW h, Sound(h), h.at # <<>>
  PROVE  /\ Sound(HeapExtractMax(h))
         /\ Held(HeapExtractMax(h)) = {x \in Held(h) : x.i # h.at[1].i}
         /\ h.at[1] \in Held(h) /\ 1 \in 1 .. Len(h.at) /\ h.at[1].i \in Numbers
<1> DEFINE n == Len(h.at)
           nr == h.at[1].i
           C == Held(h) \ {h.at[1]}
           g == FilledFromLast(h, 1)
           r == MoveDown(g, 1)
<1>1. h \in Heap /\ n \in Nat /\ 1 \in 1 .. n /\ nr \in Numbers
  BY SoundFacts, HeapFields
<1>2. h.at[1] \in Held(h)
  BY <1>1 DEF Held
<1>3. C = {x \in Held(h) : x.i # nr}
  <2>1. \A x, y \in Held(h) : x.i = y.i => x = y
    BY SoundFacts
  <2> QED
    BY <1>2, <2>1
<1>4. HeapExtractMax(h) = [r EXCEPT !.key[nr] = NoEntry]
  BY DEF HeapExtractMax
<1>5. SoundBut(r, {nr}) /\ Held(r) = C
  <2>1. CASE n = 1
    <3>1. SoundBut(g, {nr}) /\ Len(g.at) = n - 1 /\ Held(g) = C
      BY <1>1, <2>1, FilledEnd
    <3>2. g.at = <<>>
      BY <2>1, <3>1, HeapFields DEF SoundBut
    <3>3. r = g
      BY <3>2 DEF MoveDown
    <3> QED
      BY <3>1, <3>3
  <2>2. CASE n # 1
    <3>1. Placed(g, 1, g.at[1], {nr}, C)
      BY <1>1, <2>2, FilledMiddle
    <3>2. IF 1 > 1 /\ g.at[1].val > g.at[Parent(1)].val
          THEN UpOrder(g, 1, g.at[1]) ELSE DownOrder(g, 1)
      BY <1>1, <2>2, FilledMiddle
    <3>3. DownOrder(g, 1)
      BY <3>2
    <3> HIDE DEF g, C
    <3> QED
      BY <3>1, <3>3, MoveDownSound
  <2> QED
    BY <2>1, <2>2
<1> HIDE DEF r
<1>6. \A x \in Held(r) : x.i # nr
  BY <1>3, <1>5
<1>7. Sound([r EXCEPT !.key[nr] = NoEntry]) /\ Held([r EXCEPT !.key[nr] = NoEntry]) = Held(r)
  BY <1>1, <1>5, <1>6, Cleared
<1> QED
  BY <1>1, <1>2, <1>3, <1>4, <1>5, <1>7

(* updateLazy and update. *)
LEMMA WithoutEntrySound ==
  ASSUME NEW h, Sound(h), NEW nr \in Numbers
  PROVE  /\ Sound(WithoutEntry(h, nr))
         /\ Held(WithoutEntry(h, nr)) = {x \in Held(h) : x.i # nr}
<1>1. CASE Buffered(h, nr)
  BY <1>1, HeapRemoveSound DEF WithoutEntry
<1>2. CASE ~Buffered(h, nr)
  <2>1. \A x \in Held(h) : x.i # nr
    BY <1>2, SoundFacts
  <2> QED
    BY <1>2, <2>1 DEF WithoutEntry
<1> QED
  BY <1>1, <1>2

(* update gives a node a single entry, with the new value. *)
LEMMA UpdatedSound ==
  ASSUME NEW h, Sound(h), NEW nr \in Numbers, NEW new \in Nat
  PROVE  /\ Sound(Updated(h, nr, new))
         /\ Held(Updated(h, nr, new))
              = {x \in Held(h) : x.i # nr} \cup {[i |-> nr, val |-> new]}
<1> DEFINE g == WithoutEntry(h, nr)
           e == [i |-> nr, val |-> new]
<1>1. Sound(g) /\ Held(g) = {x \in Held(h) : x.i # nr}
  BY WithoutEntrySound
<1>2. e \in Entry /\ e.i = nr
  BY DEF Entry
<1> HIDE DEF g, e
<1>3. ~Buffered(g, e.i)
  BY <1>1, <1>2, SoundFacts
<1>4. Sound(HeapInsert(g, e)) /\ Held(HeapInsert(g, e)) = Held(g) \cup {e}
  BY <1>1, <1>2, <1>3, HeapInsertSound
<1> QED
  BY <1>1, <1>4 DEF Updated, g, e

(* insert of a node that is on the lazy list adds its entry unless the node has one. *)
LEMMA InsertedSound ==
  ASSUME NEW h, Sound(h), NEW nr \in Numbers, error[nr] \in Nat
  PROVE  /\ Sound(Inserted(h, nr))
         /\ Held(Inserted(h, nr)) = IF Buffered(h, nr) THEN Held(h)
                                    ELSE Held(h) \cup {[i |-> nr, val |-> error[nr]]}
<1> DEFINE e == [i |-> nr, val |-> error[nr]]
<1>1. CASE Buffered(h, nr)
  BY <1>1 DEF Inserted
<1>2. CASE ~Buffered(h, nr)
  <2>1. e \in Entry /\ e.i = nr
    BY DEF Entry
  <2>2. Inserted(h, nr) = HeapInsert(h, e)
    BY <1>2 DEF Inserted
  <2> HIDE DEF e
  <2>3. Sound(HeapInsert(h, e)) /\ Held(HeapInsert(h, e)) = Held(h) \cup {e}
    BY <1>2, <2>1, HeapInsertSound
  <2> QED
    BY <1>2, <2>2, <2>3 DEF e
<1> QED
  BY <1>1, <1>2
-----------------------------------------------------------------------------
(* LargestErrorNodesLazy: the listed nodes come to the entries of the heap. *)
EntriesOf(S) == {[i |-> n, val |-> error[n]] : n \in S}

(* x lists the heaps that inserting the list l goes through, from h0 on.    *)
Flushes(x, h0, l) ==
    /\ x[0] = h0
    /\ \A k \in 1 .. Len(l) : x[k] = Inserted(x[k - 1], l[k])
    /\ x[Len(l)] = FoldLeft(Inserted, h0, l)

(* The heaps between the insertions of the lazy list form a sequence. *)
LEMMA FlushPath ==
  ASSUME NEW R, NEW h0 \in R, NEW l \in Seq(Numbers),
         \A h \in R, m \in Numbers : Inserted(h, m) \in R
  PROVE  \E x \in [0 .. Len(l) -> R] : Flushes(x, h0, l)
<1> DEFINE n == Len(l)
           D == SUBSET (1 .. n)
           Body(f) == [U \in D |-> IF U = {} THEN h0
                                   ELSE Inserted(f[U \ {Max(U)}], l[Max(U)])]
           it == CHOOSE f : f = Body(f)
<1>1. n \in Nat /\ l \in [1 .. n -> Numbers] /\ DOMAIN l = 1 .. n
  OBVIOUS
<1>2. \E F \in [R \X Numbers -> R] : \A h \in R, m \in Numbers : F[<<h, m>>] = Inserted(h, m)
  <2> DEFINE G == [p \in R \X Numbers |-> Inserted(p[1], p[2])]
  <2>1. G \in [R \X Numbers -> R] /\ \A h \in R, m \in Numbers : G[<<h, m>>] = Inserted(h, m)
    OBVIOUS
  <2> HIDE DEF G
  <2> QED
    BY <2>1
<1>3. PICK F \in [R \X Numbers -> R] : \A h \in R, m \in Numbers : F[<<h, m>>] = Inserted(h, m)
  BY <1>2
<1>4. F \in [R \X Numbers -> R] /\ h0 \in R
  OBVIOUS
<1>5. FoldLeft(Inserted, h0, l) = it[1 .. n]
  BY <1>1 DEF FoldLeft, MapThenFoldSet
<1>6. \A U \in D \ {{}} : Max(U) \in U /\ l[Max(U)] \in Numbers
  BY <1>1, MaxIsGreatest
<1>7. \E f : f = Body(f)
  <2>1. \E f \in [D -> R] : Tabulates(f, R, n, l, h0, F)
    <3> HIDE DEF n
    <3> QED
      BY <1>1, <1>4, FoldLeftTable
  <2>2. PICK f \in [D -> R] : Tabulates(f, R, n, l, h0, F)
    BY <2>1
  <2>3. ASSUME NEW U \in D \ {{}} PROVE f[U] = Inserted(f[U \ {Max(U)}], l[Max(U)])
    <3>1. f[U \ {Max(U)}] \in R /\ l[Max(U)] \in Numbers
      BY <1>6
    <3> QED
      BY <1>3, <2>2, <3>1 DEF Tabulates
  <2>4. f = Body(f)
    BY <2>2, <2>3 DEF Tabulates
  <2> QED
    BY <2>4
<1>8. it = Body(it)
  BY <1>7
<1> HIDE DEF it
<1>9. it[{}] = h0
  BY <1>8
<1>10. ASSUME NEW U \in D \ {{}}, it[U \ {Max(U)}] \in R
       PROVE  it[U] = F[<<it[U \ {Max(U)}], l[Max(U)]>>]
  <2>1. it[U] = Inserted(it[U \ {Max(U)}], l[Max(U)])
    BY <1>8
  <2> QED
    BY <1>3, <1>6, <1>10, <2>1
<1>11. \E x \in [0 .. n -> R] : Accumulates(x, n, l, h0, F, it[1 .. n])
  <2>1. Tabulates(it, R, n, l, h0, F)
    BY <1>9, <1>10 DEF Tabulates
  <2> HIDE DEF n
  <2> QED
    BY <1>1, <1>4, <2>1, FoldLeftPath
<1>12. PICK x \in [0 .. n -> R] : Accumulates(x, n, l, h0, F, it[1 .. n])
  BY <1>11
<1>13. ASSUME NEW k \in 1 .. n PROVE x[k] = Inserted(x[k - 1], l[k])
  <2>1. x[k - 1] \in R /\ l[k] \in Numbers
    BY <1>1
  <2> QED
    BY <1>3, <1>12, <2>1 DEF Accumulates
<1> QED
  BY <1>5, <1>12, <1>13 DEF Accumulates, Flushes

(* Emptying the lazy list adds an entry for each of its nodes that had none. *)
LEMMA FlushSound ==
  ASSUME NEW h0, Sound(h0), NEW l \in Seq(Numbers), error \in [Numbers -> Nat]
  PROVE  /\ Sound(FoldLeft(Inserted, h0, l))
         /\ Held(FoldLeft(Inserted, h0, l))
              = Held(h0) \cup EntriesOf({m \in Range(l) : ~Buffered(h0, m)})
<1> DEFINE n == Len(l)
           R == {h \in Heap : Sound(h)}
           Seen(k) == {m \in {l[j] : j \in 1 .. k} : ~Buffered(h0, m)}
<1>1. n \in Nat /\ l \in [1 .. n -> Numbers] /\ DOMAIN l = 1 .. n
  OBVIOUS
<1>2. ASSUME NEW h \in R, NEW m \in Numbers
      PROVE  /\ Inserted(h, m) \in R
             /\ Held(Inserted(h, m)) = IF Buffered(h, m) THEN Held(h) ELSE Held(h) \cup EntriesOf({m})
  <2>1. error[m] \in Nat /\ Sound(h)
    OBVIOUS
  <2>2. Sound(Inserted(h, m))
    BY <2>1, InsertedSound
  <2>3. Held(Inserted(h, m)) = IF Buffered(h, m) THEN Held(h) ELSE Held(h) \cup {[i |-> m, val |-> error[m]]}
    BY <2>1, InsertedSound
  <2>4. EntriesOf({m}) = {[i |-> m, val |-> error[m]]}
    BY DEF EntriesOf
  <2> QED
    BY <2>2, <2>3, <2>4 DEF Sound, SoundBut
<1>3. h0 \in R
  BY DEF Sound, SoundBut
<1>4. \A h \in R : Sound(h)
  OBVIOUS
<1> HIDE DEF R
<1>5. \E x \in [0 .. n -> R] : Flushes(x, h0, l)
  <2>1. \A h \in R, m \in Numbers : Inserted(h, m) \in R
    BY <1>2
  <2> QED
    BY <1>3, <2>1, FlushPath
<1>6. PICK x \in [0 .. n -> R] :
         /\ x[0] = h0
         /\ \A k \in 1 .. n : x[k] = Inserted(x[k - 1], l[k])
         /\ x[n] = FoldLeft(Inserted, h0, l)
  BY <1>5 DEF Flushes
<1> DEFINE Good == {k \in Nat : k <= n => Held(x[k]) = Held(h0) \cup EntriesOf(Seen(k))}
<1>7. 0 \in Good
  <2>1. Seen(0) = {}
    BY <1>1
  <2> QED
    BY <1>6, <2>1 DEF EntriesOf
<1>8. ASSUME NEW k \in Nat, k \in Good PROVE k + 1 \in Good
  <2>1. SUFFICES ASSUME k + 1 <= n PROVE Held(x[k + 1]) = Held(h0) \cup EntriesOf(Seen(k + 1))
    <3>1. k + 1 \in Nat
      OBVIOUS
    <3> HIDE DEF Seen, n
    <3> QED
      BY <3>1
  <2> DEFINE m == l[k + 1]
  <2>2. /\ x[k] \in R /\ m \in Numbers
        /\ x[k + 1] = Inserted(x[k], m)
        /\ Held(x[k]) = Held(h0) \cup EntriesOf(Seen(k))
    <3>1. k + 1 \in 1 .. n /\ (k + 1) - 1 = k /\ k <= n /\ k \in 0 .. n
      BY <1>1, <2>1
    <3> QED
      BY <1>1, <1>6, <1>8, <3>1
  <2>3. Seen(k + 1) = Seen(k) \cup {j \in {m} : ~Buffered(h0, j)}
    <3>1. 1 .. k + 1 = (1 .. k) \cup {k + 1}
      OBVIOUS
    <3>2. {l[j] : j \in 1 .. k + 1} = {l[j] : j \in 1 .. k} \cup {l[k + 1]}
      BY <3>1
    <3> QED
      BY <3>2
  <2>4. /\ Held(x[k + 1]) = IF Buffered(x[k], m) THEN Held(x[k]) ELSE Held(x[k]) \cup EntriesOf({m})
        /\ Sound(x[k])
    BY <1>2, <1>4, <2>2
  <2>5. Buffered(x[k], m) <=> \E e \in Held(x[k]) : e.i = m
    BY <2>2, <2>4, SoundFacts
  <2>6. Buffered(h0, m) <=> \E e \in Held(h0) : e.i = m
    BY <2>2, SoundFacts
  <2>7. (\E e \in EntriesOf(Seen(k)) : e.i = m) <=> m \in Seen(k)
    <3> HIDE DEF m, Seen
    <3>1. \A e \in EntriesOf(Seen(k)) : e.i \in Seen(k)
      BY DEF EntriesOf
    <3>2. ASSUME m \in Seen(k) PROVE \E e \in EntriesOf(Seen(k)) : e.i = m
      <4>1. [i |-> m, val |-> error[m]] \in EntriesOf(Seen(k))
        BY <3>2 DEF EntriesOf
      <4> QED
        BY <4>1
    <3> QED
      BY <3>1, <3>2
  <2>8. m \in Seen(k) => ~Buffered(h0, m)
    OBVIOUS
  <2> HIDE DEF m, Seen
  <2>9. CASE Buffered(h0, m)
    BY <2>2, <2>3, <2>4, <2>5, <2>6, <2>9 DEF EntriesOf
  <2>10. CASE ~Buffered(h0, m) /\ m \in Seen(k)
    BY <2>2, <2>3, <2>4, <2>5, <2>7, <2>10 DEF EntriesOf
  <2>11. CASE ~Buffered(h0, m) /\ m \notin Seen(k)
    <3>1. ~Buffered(x[k], m)
      BY <2>2, <2>5, <2>6, <2>7, <2>11
    <3> QED
      BY <2>2, <2>3, <2>4, <2>11, <3>1 DEF EntriesOf
  <2> QED
    BY <2>9, <2>10, <2>11
<1>9. n \in Good
  <2> HIDE DEF Good, n
  <2> QED
    BY <1>1, <1>7, <1>8, CountingInduction
<1>10. Held(x[n]) = Held(h0) \cup EntriesOf(Seen(n))
  <2> HIDE DEF Seen
  <2> QED
    BY <1>1, <1>9
<1>11. Range(l) = {l[j] : j \in 1 .. n}
  BY <1>1 DEF Range
<1> HIDE DEF n
<1>12. Sound(x[n])
  BY <1>1, <1>4, <1>6
<1> QED
  BY <1>6, <1>10, <1>11, <1>12
-----------------------------------------------------------------------------
(* The decay that was put off: After[<<e, k>>] is the error e after k       *)
(* factors m_betha.                                                         *)
After == CHOOSE f : f = [x \in Nat \X Nat |->
                           IF x[2] = 0 THEN x[1] ELSE f[<<Betha(x[1]), x[2] - 1>>]]

(* A factor makes no error larger. *)
LEMMA BethaFacts ==
  ASSUME NEW e \in Nat
  PROVE  Betha(e) \in Nat /\ Betha(e) <= e
BY DEF Betha

(* The equations of the decay of an error by k factors. *)
LEMMA AfterSteps ==
  /\ \A e \in Nat : After[<<e, 0>>] = e
  /\ \A e, k \in Nat : After[<<e, k + 1>>] = After[<<Betha(e), k>>]
<1> DEFINE D == Nat \X Nat
           M == [x \in D |-> x[2]]
           Stop == {x \in D : x[2] = 0}
           Out == [x \in D |-> x[1]]
           Next1 == [x \in D |-> <<Betha(x[1]), x[2] - 1>>]
           Loop(f) == f = [x \in D |-> IF x \in Stop THEN Out[x] ELSE f[Next1[x]]]
           Body(f) == [x \in D |-> IF x[2] = 0 THEN x[1] ELSE f[<<Betha(x[1]), x[2] - 1>>]]
<1>1. Falls(D, M, Stop, Next1)
  BY BethaFacts DEF Falls
<1>2. \E f : Loop(f)
  <2> HIDE DEF D, M, Stop, Out, Next1
  <2> QED
    BY <1>1, LoopTable
<1>3. \A f : Loop(f) <=> f = Body(f)
  OBVIOUS
<1>4. After = Body(After)
  <2> HIDE DEF Loop
  <2>1. \E f : f = Body(f)
    BY <1>2, <1>3
  <2> QED
    BY <2>1 DEF After
<1>5. \A e \in Nat : After[<<e, 0>>] = e
  BY <1>4
<1>6. ASSUME NEW e \in Nat, NEW k \in Nat PROVE After[<<e, k + 1>>] = After[<<Betha(e), k>>]
  <2>1. <<e, k + 1>> \in D /\ k + 1 # 0 /\ (k + 1) - 1 = k
    OBVIOUS
  <2> QED
    BY <1>4, <2>1
<1> QED
  BY <1>5, <1>6

(* A faded error is a number, not above the error it came from; no factor   *)
(* leaves it alone, and factors may be applied in two goes.                 *)
LEMMA FadedFacts ==
  ASSUME NEW e \in Nat, NEW j \in Nat
  PROVE  /\ Faded(e, j) \in Nat /\ Faded(e, j) <= e
         /\ Faded(e, 0) = e
         /\ \A k \in Nat : Faded(e, j + k) = Faded(Faded(e, j), k)
<1> DEFINE Sure(d, i) ==
             /\ After[<<d, i>>] \in Nat /\ After[<<d, i>>] <= d
             /\ \A k \in Nat : After[<<d, i + k>>] = After[<<After[<<d, i>>], k>>]
           Good == {i \in Nat : \A d \in Nat : Sure(d, i)}
<1>1. 0 \in Good
  <2>1. ASSUME NEW d \in Nat PROVE Sure(d, 0)
    <3>1. After[<<d, 0>>] = d
      BY AfterSteps
    <3>2. \A k \in Nat : 0 + k = k
      OBVIOUS
    <3> QED
      BY <3>1, <3>2
  <2> QED
    BY <2>1
<1>2. ASSUME NEW i \in Nat, i \in Good PROVE i + 1 \in Good
  <2>1. ASSUME NEW d \in Nat PROVE Sure(d, i + 1)
    <3>1. Betha(d) \in Nat /\ Betha(d) <= d
      BY BethaFacts
    <3>2. Sure(Betha(d), i)
      BY <1>2, <3>1
    <3>3. After[<<d, i + 1>>] = After[<<Betha(d), i>>]
      BY AfterSteps
    <3>4. ASSUME NEW k \in Nat
          PROVE  After[<<d, (i + 1) + k>>] = After[<<After[<<d, i + 1>>], k>>]
      <4>1. After[<<d, (i + k) + 1>>] = After[<<Betha(d), i + k>>]
        BY AfterSteps
      <4>2. (i + 1) + k = (i + k) + 1
        OBVIOUS
      <4>3. After[<<Betha(d), i + k>>] = After[<<After[<<Betha(d), i>>], k>>]
        BY <3>2
      <4> QED
        BY <3>3, <4>1, <4>2, <4>3
    <3>5. After[<<d, i + 1>>] \in Nat /\ After[<<d, i + 1>>] <= d
      <4>1. PICK b : b = Betha(d)
        OBVIOUS
      <4>2. PICK x : x = After[<<b, i>>]
        OBVIOUS
      <4>3. x \in Nat /\ x <= b /\ b \in Nat /\ b <= d
        BY <3>1, <3>2, <4>1, <4>2
      <4>4. x <= d
        BY <4>3
      <4> QED
        BY <3>3, <4>1, <4>2, <4>3, <4>4
    <3> QED
      BY <3>4, <3>5
  <2> QED
    BY <2>1
<1>3. \A i \in Nat : i \in Good
  <2> HIDE DEF Good
  <2> QED
    BY <1>1, <1>2, CountingInduction
<1>4. Sure(e, j)
  BY <1>3
<1>5. \A d, k : Faded(d, k) = After[<<d, k>>]
  BY DEF Faded, After
<1> HIDE DEF Good
<1> QED
  BY <1>4, <1>5, AfterSteps

(* The factors of k rounds, and of a round more. *)
LEMMA RoundFacts ==
  ASSUME NEW k \in Nat
  PROVE  /\ m_lambda \in Nat /\ m_lambda * k \in Nat
         /\ m_lambda * (k + 1) = m_lambda * k + m_lambda
         /\ m_lambda * 0 = 0 /\ m_lambda * 1 = m_lambda
BY HeapAssumption

(* What a decayed error stands for before and after a step. *)
LEMMA DecayedIs ==
  \A n : /\ Decayed(n) = Faded(error[n], m_lambda * (c - error_cycle[n]))
         /\ Decayed(n)' = Faded(error'[n], m_lambda * (c' - error_cycle'[n]))
BY DEF Decayed

(* A decayed error is not above the stored one, and equals it when the stored one is up to
   date. *)
LEMMA DecayedFacts ==
  ASSUME NEW n, error[n] \in Nat, c \in Nat, error_cycle[n] \in 0 .. c
  PROVE  /\ Decayed(n) \in Nat /\ Decayed(n) <= error[n]
         /\ ~OutOfDate(n) => Decayed(n) = error[n]
<1> DEFINE k == c - error_cycle[n]
<1>1. k \in Nat /\ (~OutOfDate(n) => k = 0)
  BY DEF OutOfDate
<1>2. Decayed(n) = Faded(error[n], m_lambda * k)
  BY DecayedIs
<1> HIDE DEF k
<1>3. PICK j : j = m_lambda * k
  OBVIOUS
<1>4. j \in Nat /\ (k = 0 => j = 0)
  <2>1. k \in Nat
    BY <1>1
  <2>2. m_lambda * k \in Nat /\ m_lambda * 0 = 0
    BY <2>1, RoundFacts
  <2> QED
    BY <1>3, <2>2
<1>5. Decayed(n) = Faded(error[n], j)
  BY <1>2, <1>3
<1>6. /\ Faded(error[n], j) \in Nat /\ Faded(error[n], j) <= error[n]
      /\ Faded(error[n], 0) = error[n]
  BY <1>4, FadedFacts
<1> QED
  BY <1>1, <1>4, <1>5, <1>6

(* What fixErrorNew and the end of the round do to a decayed error.         *)
LEMMA DecayedNext ==
  ASSUME NEW n, error[n] \in Nat, c \in Nat, error_cycle[n] \in 0 .. c,
         error'[n] \in Nat
  PROVE  /\ error'[n] = error[n] /\ error_cycle'[n] = error_cycle[n] =>
              /\ c' = c => Decayed(n)' = Decayed(n)
              /\ c' = c + 1 => Decayed(n)' = Faded(Decayed(n), m_lambda)
         /\ error_cycle'[n] = c =>
              /\ c' = c => Decayed(n)' = error'[n]
              /\ c' = c + 1 => Decayed(n)' = Faded(error'[n], m_lambda)
<1> DEFINE k == c - error_cycle[n]
           e == error[n]
           d == error'[n]
<1>1. k \in Nat /\ c + 1 - error_cycle[n] = k + 1 /\ c - c = 0 /\ (c + 1) - c = 1
  OBVIOUS
<1>2. /\ Decayed(n) = Faded(e, m_lambda * k)
      /\ Decayed(n)' = Faded(d, m_lambda * (c' - error_cycle'[n]))
  BY DecayedIs
<1> HIDE DEF k
<1>3. PICK j : j = m_lambda * k
  OBVIOUS
<1>3a. /\ m_lambda \in Nat /\ j \in Nat /\ m_lambda * (k + 1) = j + m_lambda
       /\ m_lambda * 0 = 0 /\ m_lambda * 1 = m_lambda
  <2>1. k \in Nat
    BY <1>1
  <2> QED
    BY <1>3, <2>1, RoundFacts
<1>4. ASSUME error'[n] = e, error_cycle'[n] = error_cycle[n]
      PROVE  /\ c' = c => Decayed(n)' = Decayed(n)
             /\ c' = c + 1 => Decayed(n)' = Faded(Decayed(n), m_lambda)
  <2>1. Faded(e, j + m_lambda) = Faded(Faded(e, j), m_lambda)
    <3>1. e \in Nat /\ j \in Nat
      BY <1>3a
    <3>2. \A i \in Nat : Faded(e, j + i) = Faded(Faded(e, j), i)
      BY <3>1, FadedFacts
    <3> QED
      BY <1>3a, <3>2
  <2>2. c' = c + 1 => c' - error_cycle'[n] = k + 1
    BY <1>1, <1>4
  <2>3. c' = c => c' - error_cycle'[n] = k
    BY <1>4 DEF k
  <2>4. c' = c => Decayed(n)' = Decayed(n)
    BY <1>2, <1>4, <2>3
  <2>5. c' = c + 1 => Decayed(n)' = Faded(Decayed(n), m_lambda)
    BY <1>2, <1>3, <1>3a, <1>4, <2>1, <2>2
  <2> QED
    BY <2>4, <2>5
<1>5. ASSUME error_cycle'[n] = c
      PROVE  /\ c' = c => Decayed(n)' = d
             /\ c' = c + 1 => Decayed(n)' = Faded(d, m_lambda)
  <2>1. Faded(d, 0) = d
    BY FadedFacts
  <2>2. c' = c => c' - error_cycle'[n] = 0
    BY <1>1, <1>5
  <2>3. c' = c + 1 => c' - error_cycle'[n] = 1
    BY <1>1, <1>5
  <2>4. c' = c => Decayed(n)' = d
    BY <1>2, <1>3a, <2>1, <2>2
  <2>5. c' = c + 1 => Decayed(n)' = Faded(d, m_lambda)
    BY <1>2, <1>3a, <2>3
  <2> QED
    BY <2>4, <2>5
<1> QED
  BY <1>4, <1>5
-----------------------------------------------------------------------------
(* The inductive invariant.                                                 *)
(* The bound on the effort bounds the rounds, because two nodes are left.   *)
Bounded ==
    /\ Cardinality(live) >= 2
    /\ c = 0 \/ Effort <= MaxEffort + 2
    /\ pc # "adapt" => Effort <= MaxEffort

(* A number that is not in use is unknown to the heap and to the list.      *)
Unknown == deletions = 0 => \A n \in Numbers \ live : ~Buffered(heap, n) /\ ~isonlist[n]

(* Between the searches the heap holds only nodes of earlier rounds: the    *)
(* nodes of the round c are on the list.                                    *)
Outdated ==
    /\ pc = "extract" => L = <<>> /\ s = m_lambda
    /\ deletions = 0 /\ pc = "adapt" =>
          \A n \in Numbers : Buffered(heap, n) => error_cycle[n] < c

(* While no node was deleted an entry never understates its node's error.   *)
Covered ==
    deletions = 0 => \A x \in Held(heap) :
        /\ x.val >= Decayed(x.i)
        /\ pc = "extract" /\ ~OutOfDate(x.i) => x.val = Decayed(x.i)

HInv == /\ TypeOK /\ Sound(heap) /\ Bounded /\ EveryNodeQueued
        /\ Unknown /\ Outdated /\ Covered

(* The list filled in the order of the numbers holds each of them once. *)
LEMMA InOrderFacts ==
  ASSUME NEW S \in SUBSET Numbers
  PROVE  /\ InOrder(S) \in Seq(S) /\ Range(InOrder(S)) = S /\ IsInjective(InOrder(S))
<1> DEFINE Rising(l, T) == /\ l \in [1 .. Cardinality(T) -> T]
                           /\ \A j, k \in 1 .. Cardinality(T) : j < k => l[j] < l[k]
           Good == {T \in SUBSET Numbers : \E l : Rising(l, T)}
<1>1. IsFiniteSet(Numbers) /\ Numbers \subseteq Int
  BY HeapAssumption
<1>2. \A T \in SUBSET Numbers : IsFiniteSet(T) /\ Cardinality(T) \in Nat
  BY <1>1, FS_Subset, FS_CardinalityType
<1>3. ASSUME NEW T \in SUBSET Numbers, \A x \in T : T \ {x} \in Good
      PROVE  T \in Good
  <2>1. CASE T = {}
    <3>1. Cardinality(T) = 0
      BY <2>1, FS_EmptySet
    <3>2. Rising(<<>>, T)
      BY <3>1
    <3> QED
      BY <3>2
  <2>2. CASE T # {}
    <3> DEFINE m == Max(T)
               n == Cardinality(T)
    <3>1. m \in T /\ \A y \in T : m >= y
      BY <1>1, <2>2, MaxOfFinite
    <3>2. Cardinality(T \ {m}) = n - 1 /\ n \in Nat \ {0}
      BY <1>2, <2>2, <3>1, FS_RemoveElement, FS_EmptySet
    <3>3. PICK l : Rising(l, T \ {m})
      BY <1>3, <3>1
    <3> HIDE DEF m, n
    <3> DEFINE u == [k \in 1 .. n |-> IF k = n THEN m ELSE l[k]]
    <3>4. l \in [1 .. n - 1 -> T \ {m}] /\ \A j, k \in 1 .. n - 1 : j < k => l[j] < l[k]
      BY <3>2, <3>3
    <3>5. \A k \in 1 .. n : k # n => k \in 1 .. n - 1 /\ l[k] \in T \ {m} /\ l[k] < m
      <4>1. ASSUME NEW k \in 1 .. n, k # n PROVE k \in 1 .. n - 1 /\ l[k] \in T \ {m}
        BY <3>2, <3>4, <4>1
      <4>2. \A y \in T \ {m} : y < m
        BY <1>1, <3>1
      <4> QED
        BY <4>1, <4>2
    <3>6. u \in [1 .. n -> T]
      BY <3>1, <3>5
    <3>7. ASSUME NEW j \in 1 .. n, NEW k \in 1 .. n, j < k PROVE u[j] < u[k]
      <4>1. j # n /\ u[j] = l[j]
        BY <3>2, <3>7
      <4>2. CASE k = n
        BY <3>5, <4>1, <4>2
      <4>3. CASE k # n
        BY <3>4, <3>5, <3>7, <4>1, <4>3
      <4> QED
        BY <4>2, <4>3
    <3>8. Rising(u, T)
      BY <3>6, <3>7 DEF n
    <3> QED
      BY <3>8
  <2> QED
    BY <2>1, <2>2
<1>4. S \in Good
  <2> HIDE DEF Good
  <2> QED
    <3>1. IsFiniteSet(Numbers)
      BY <1>1
    <3>2. \A T \in SUBSET Numbers : T \in Good
      BY <1>3, <3>1, SetInduction
    <3> QED
      BY <3>2
<1> DEFINE n == Cardinality(S)
           l == InOrder(S)
<1>5. l \in [1 .. n -> S] /\ \A j, k \in 1 .. n : j < k => l[j] < l[k]
  <2>1. PICK w : Rising(w, S)
    BY <1>4
  <2>2. w \in [1 .. n -> S] /\ \A j, k \in DOMAIN w : j < k => w[j] < w[k]
    BY <2>1
  <2> HIDE DEF n
  <2>3. l \in [1 .. n -> S] /\ \A j, k \in DOMAIN l : j < k => l[j] < l[k]
    BY <2>2 DEF InOrder, n
  <2> QED
    BY <2>3
<1>6. n \in Nat /\ IsFiniteSet(S)
  BY <1>2
<1> HIDE DEF n, l
<1>7. l \in Seq(S)
  BY <1>5, <1>6
<1>8. IsInjective(l)
  <2>1. ASSUME NEW j \in 1 .. n, NEW k \in 1 .. n, l[j] = l[k] PROVE j = k
    <3>1. l[j] \in Int /\ l[k] \in Int
      BY <1>1, <1>5
    <3>2. ~(l[j] < l[k]) /\ ~(l[k] < l[j])
      BY <2>1, <3>1
    <3>3. ~(j < k) /\ ~(k < j)
      BY <1>5, <3>2
    <3> QED
      BY <1>6, <3>3
  <2> QED
    BY <1>5, <2>1 DEF IsInjective
<1>9. l \in Surjection(1 .. n, S)
  <2>1. l \in Injection(1 .. n, S)
    BY <1>5, <1>8 DEF Injection
  <2>2. Cardinality(1 .. n) = n
    BY <1>6, FS_Interval
  <2>3. Cardinality(1 .. n) = Cardinality(S)
    BY <2>2 DEF n
  <2> QED
    BY <1>6, <2>1, <2>3, FS_Injection
<1>10. Range(l) = S
  BY <1>5, <1>9 DEF Surjection, Range
<1> QED
  BY <1>7, <1>8, <1>10 DEF l

(* The heap invariant holds in the network of two nodes the algorithm starts with. *)
THEOREM HeapInit == Init => HInv
<1> SUFFICES ASSUME Init PROVE HInv
  OBVIOUS
<1>0. /\ IsFiniteSet(Numbers) /\ Numbers \subseteq Nat /\ MaxError \in Nat \ {0}
      /\ MaxDeletions \in Nat /\ MaxEffort \in Nat /\ m_lambda \in Nat
      /\ LoadedErrors \subseteq 0 .. MaxError
  BY HeapAssumption
<1>1. /\ m_max_nodes \in MaxNodes /\ live \in SUBSET Numbers /\ Cardinality(live) >= 2
      /\ heap = [at |-> <<>>, key |-> [n \in Numbers |-> NoEntry]]
      /\ L = InOrder(live) /\ isonlist = [n \in Numbers |-> n \in live]
      /\ isolated = {} /\ error_cycle = [n \in Numbers |-> 0]
      /\ s = 0 /\ c = 0 /\ pc = "adapt" /\ deletions = 0
  BY HeapAssumption DEF Init
<1>1a. error \in [Numbers -> 0 .. MaxError]
  <2>1. PICK e \in [live -> LoadedErrors] :
           error = [n \in Numbers |-> IF n \in live THEN e[n] ELSE 0]
    BY DEF Init
  <2>2. \A n \in live : e[n] \in 0 .. MaxError
    BY <1>0, <2>1
  <2>3. 0 \in 0 .. MaxError
    BY <1>0
  <2> QED
    BY <2>1, <2>2, <2>3
<1>2. heap \in Heap /\ Len(heap.at) = 0 /\ \A n \in Numbers : heap.key[n] = NoEntry
  BY <1>1 DEF Heap, NoEntry
<1>3. L \in Seq(live) /\ Range(L) = live /\ IsInjective(L)
  BY <1>1, InOrderFacts
<1>4. TypeOK
  <2>1. L \in Seq(Numbers)
    BY <1>1, <1>3
  <2> QED
    BY <1>0, <1>1, <1>1a, <1>2, <2>1 DEF TypeOK
<1>5. Sound(heap)
  BY <1>2 DEF Sound, SoundBut, Ordered
<1>6. Bounded
  BY <1>1 DEF Bounded
<1>7. EveryNodeQueued
  BY <1>1, <1>2, <1>3 DEF EveryNodeQueued, Buffered
<1>8. Unknown /\ Outdated
  BY <1>1, <1>2 DEF Unknown, Outdated, Buffered
<1>9. Covered
  BY <1>1, <1>2 DEF Covered, Held
<1> QED
  BY <1>4, <1>5, <1>6, <1>7, <1>8, <1>9 DEF HInv

(* The types, in the form the steps need.                                   *)
LEMMA TypeFacts ==
  ASSUME HInv
  PROVE  /\ heap \in Heap /\ Sound(heap)
         /\ L \in Seq(Numbers) /\ isonlist \in [Numbers -> BOOLEAN]
         /\ live \subseteq Numbers /\ IsFiniteSet(live) /\ Cardinality(live) \in Nat
         /\ isolated \subseteq live /\ s \in Nat /\ m_lambda \in Nat
         /\ c \in Nat /\ deletions \in Nat /\ MaxError \in Nat /\ MaxEffort \in Nat
         /\ error \in [Numbers -> Nat] /\ error_cycle \in [Numbers -> Nat]
         /\ \A n \in Numbers :
               /\ error[n] \in 0 .. MaxError /\ error[n] \in Nat
               /\ error_cycle[n] \in 0 .. c
               /\ Decayed(n) \in 0 .. MaxError /\ Decayed(n) <= error[n]
               /\ ~OutOfDate(n) => Decayed(n) = error[n]
<1>1. TypeOK /\ Sound(heap)
  BY DEF HInv
<1>2. /\ IsFiniteSet(Numbers) /\ MaxError \in Nat /\ MaxDeletions \in Nat /\ MaxEffort \in Nat
      /\ m_lambda \in Nat
  BY HeapAssumption
<1>3. IsFiniteSet(live) /\ Cardinality(live) \in Nat
  BY <1>1, <1>2, FS_Subset, FS_CardinalityType DEF TypeOK
<1>4. /\ c \in Nat /\ deletions \in Nat
      /\ error \in [Numbers -> 0 .. MaxError] /\ error_cycle \in [Numbers -> 0 .. c]
  BY <1>1, <1>2 DEF TypeOK
<1>5. error \in [Numbers -> Nat] /\ error_cycle \in [Numbers -> Nat]
  BY <1>2, <1>4
<1>6. ASSUME NEW n \in Numbers
      PROVE  /\ error[n] \in 0 .. MaxError /\ error[n] \in Nat
             /\ error_cycle[n] \in 0 .. c
             /\ Decayed(n) \in 0 .. MaxError /\ Decayed(n) <= error[n]
             /\ ~OutOfDate(n) => Decayed(n) = error[n]
  <2>1. error[n] \in 0 .. MaxError /\ error[n] \in Nat /\ error_cycle[n] \in 0 .. c
    BY <1>2, <1>4
  <2>2. Decayed(n) \in Nat /\ Decayed(n) <= error[n] /\ (~OutOfDate(n) => Decayed(n) = error[n])
    BY <1>4, <2>1, DecayedFacts
  <2> QED
    BY <1>2, <2>1, <2>2
<1> QED
  BY <1>1, <1>2, <1>3, <1>4, <1>5, <1>6 DEF TypeOK

(* Which numbers have an entry.                                             *)
LEMMA BufferedFacts ==
  ASSUME NEW h, Sound(h), NEW n \in Numbers
  PROVE  Buffered(h, n) <=> \E x \in Held(h) : x.i = n
BY SoundFacts

(* What a sound heap says of each of its entries. *)
LEMMA HeldFacts ==
  ASSUME NEW h, Sound(h), NEW x \in Held(h)
  PROVE  x.i \in Numbers /\ x.val \in Nat /\ Buffered(h, x.i)
<1>1. x.i \in Numbers /\ x.val \in Nat
  BY SoundFacts DEF Held
<1> QED
  BY <1>1, BufferedFacts

(* insertLazy *)
LEMMA InsertLazyFacts ==
  ASSUME NEW l \in Seq(Numbers), NEW n \in Numbers, IsInjective(l), isonlist[n] <=> n \in Range(l)
  PROVE  /\ InsertLazy(l, n) \in Seq(Numbers) /\ IsInjective(InsertLazy(l, n))
         /\ Range(InsertLazy(l, n)) = Range(l) \cup {n}
<1>1. CASE isonlist[n]
  BY <1>1 DEF InsertLazy
<1>2. CASE ~isonlist[n]
  <2> DEFINE k == Len(l)
             u == Append(l, n)
  <2>1. InsertLazy(l, n) = u
    BY <1>2 DEF InsertLazy
  <2>2. /\ u \in Seq(Numbers) /\ DOMAIN u = 1 .. k + 1 /\ k \in Nat /\ DOMAIN l = 1 .. k
        /\ u[k + 1] = n /\ \A j \in 1 .. k : u[j] = l[j]
    OBVIOUS
  <2>3. \A j \in 1 .. k : l[j] # n
    BY <1>2, <2>2 DEF Range
  <2> HIDE DEF k, u
  <2>4. \A j \in 1 .. k + 1 : j = k + 1 \/ j \in 1 .. k
    BY <2>2
  <2>5. IsInjective(u)
    BY <2>2, <2>3, <2>4 DEF IsInjective
  <2>6. Range(u) = Range(l) \cup {n}
    BY <2>2, <2>4 DEF Range
  <2> QED
    BY <2>1, <2>2, <2>5, <2>6
<1> QED
  BY <1>1, <1>2
-----------------------------------------------------------------------------

(* deleteNode, which does not tell the heap, keeps the heap invariant. *)
LEMMA DeleteKeeps ==
  ASSUME HInv, NEW n \in Numbers, DeleteNode(n)
  PROVE  HInv'
<1>1. /\ MayGoOn /\ n \in live \ isolated /\ Cardinality(live \ isolated) > 2
      /\ m_max_nodes' = m_max_nodes /\ error' = error /\ error_cycle' = error_cycle
      /\ heap' = heap /\ isonlist' = isonlist /\ L' = L /\ s' = s /\ c' = c /\ pc' = pc
      /\ \/ live' = live /\ deletions' = deletions /\ isolated' = isolated \cup {n}
         \/ /\ live' = live \ {n} /\ deletions' = deletions + 1 /\ isolated' = isolated
            /\ deletions < MaxDeletions
  BY DEF DeleteNode, queueVars
<1>2. /\ IsFiniteSet(live) /\ Cardinality(live) \in Nat /\ deletions \in Nat /\ c \in Nat
      /\ MaxEffort \in Nat /\ MaxDeletions \in Nat
  BY TypeFacts, HeapAssumption
<1>3. Cardinality(live) > 2 /\ Cardinality(live \ {n}) = Cardinality(live) - 1
  <2>1. live \ isolated \in SUBSET live
    OBVIOUS
  <2>2. PICK k : k = Cardinality(live \ isolated)
    OBVIOUS
  <2>3. k \in Nat /\ k <= Cardinality(live)
    BY <1>2, <2>1, <2>2, FS_Subset, FS_CardinalityType
  <2>4. Cardinality(live) > 2
    BY <1>1, <1>2, <2>2, <2>3
  <2>5. n \in live
    BY <1>1
  <2>6. Cardinality(live \ {n}) = Cardinality(live) - 1
    BY <1>2, <2>5, FS_RemoveElement
  <2> QED
    BY <2>4, <2>6
<1>4. TypeOK'
  <2>1. TypeOK
    BY DEF HInv
  <2> QED
    BY <1>1, <1>2, <2>1 DEF TypeOK
<1>5. Sound(heap)'
  BY <1>1 DEF HInv
<1>6. Bounded'
  <2>1. pc = "adapt" /\ Cardinality(live) + deletions + deletions + c <= MaxEffort
    BY <1>1 DEF MayGoOn, Effort, NodesMade
  <2>2. CASE live' = live /\ deletions' = deletions
    BY <1>1, <1>2, <1>3, <2>1, <2>2 DEF Bounded, Effort, NodesMade
  <2>3. CASE live' = live \ {n} /\ deletions' = deletions + 1
    <3>1. Cardinality(live') = Cardinality(live) - 1
      BY <1>3, <2>3
    <3> QED
      BY <1>1, <1>2, <1>3, <2>1, <2>3, <3>1 DEF Bounded, Effort, NodesMade
  <2> QED
    BY <1>1, <2>2, <2>3
<1>7. EveryNodeQueued'
  <2>1. EveryNodeQueued
    BY DEF HInv
  <2> QED
    BY <1>1, <1>2, <2>1 DEF EveryNodeQueued
<1>8. Unknown' /\ Covered'
  <2>1. Unknown /\ Covered /\ \A m : Decayed(m)' = Decayed(m) /\ OutOfDate(m)' = OutOfDate(m)
    BY <1>1, DecayedIs DEF HInv, OutOfDate
  <2> QED
    BY <1>1, <1>2, <2>1 DEF Unknown, Covered
<1>9. Outdated'
  BY <1>1, <1>2 DEF HInv, Outdated, MayGoOn
<1> QED
  BY <1>4, <1>5, <1>6, <1>7, <1>8, <1>9 DEF HInv

(* A round that adds no node keeps the heap invariant. *)
LEMMA FullKeeps ==
  ASSUME HInv, NetworkFull
  PROVE  HInv'
<1>1. /\ MayGoOn /\ s' = 0 /\ c' = c + 1 /\ pc' = pc /\ deletions' = deletions
      /\ m_max_nodes' = m_max_nodes /\ live' = live /\ isolated' = isolated
      /\ error' = error /\ error_cycle' = error_cycle
      /\ heap' = heap /\ isonlist' = isonlist /\ L' = L
  BY DEF NetworkFull, nodeVars, queueVars
<1>2. /\ Cardinality(live) \in Nat /\ deletions \in Nat /\ c \in Nat /\ MaxEffort \in Nat
      /\ Cardinality(live) >= 2
  BY TypeFacts DEF HInv, Bounded
<1>3. pc = "adapt" /\ Cardinality(live) + deletions + deletions + c <= MaxEffort
  BY <1>1 DEF MayGoOn, Effort, NodesMade
<1>4. TypeOK'
  <2>1. TypeOK
    BY DEF HInv
  <2>2. c + 1 \in 0 .. MaxEffort /\ error_cycle \in [Numbers -> 0 .. c + 1]
    <3>1. error_cycle \in [Numbers -> 0 .. c]
      BY <2>1 DEF TypeOK
    <3>2. \A k \in 0 .. c : k \in 0 .. c + 1
      BY <1>2
    <3> QED
      BY <1>2, <1>3, <3>1, <3>2
  <2> QED
    BY <1>1, <2>1, <2>2, TypeFacts DEF TypeOK
<1>5. Sound(heap)'
  BY <1>1 DEF HInv
<1>6. Bounded'
  BY <1>1, <1>2, <1>3 DEF Bounded, Effort, NodesMade
<1>7. EveryNodeQueued' /\ Unknown'
  BY <1>1 DEF HInv, EveryNodeQueued, Unknown
<1>8. Outdated'
  <2>1. Outdated
    BY DEF HInv
  <2>2. \A n \in Numbers : error_cycle[n] \in Nat
    BY TypeFacts
  <2>3. \A n \in Numbers : error_cycle[n] < c => error_cycle[n] < c + 1
    BY <1>2, <2>2
  <2> QED
    BY <1>1, <1>3, <2>1, <2>3 DEF Outdated
<1>9. Covered'
  <2>1. ASSUME deletions = 0, NEW x \in Held(heap) PROVE x.val >= Decayed(x.i)'
    <3>1. x.i \in Numbers /\ x.val \in Nat
      BY TypeFacts, HeldFacts
    <3>2. /\ error[x.i] \in Nat /\ error_cycle[x.i] \in 0 .. c
          /\ Decayed(x.i) \in 0 .. MaxError /\ MaxError \in Nat
      BY <3>1, TypeFacts
    <3>3. Decayed(x.i)' = Faded(Decayed(x.i), m_lambda)
      BY <1>1, <1>2, <3>2, DecayedNext
    <3>4. x.val >= Decayed(x.i)
      BY <2>1 DEF HInv, Covered
    <3>5. Faded(Decayed(x.i), m_lambda) \in Nat /\ Faded(Decayed(x.i), m_lambda) <= Decayed(x.i)
      <4>1. Decayed(x.i) \in Nat /\ m_lambda \in Nat
        BY <3>2, TypeFacts
      <4> QED
        BY <4>1, FadedFacts
    <3>6. Decayed(x.i) \in Nat
      BY <3>2
    <3> QED
      BY <3>1, <3>3, <3>4, <3>5, <3>6
  <2> QED
    BY <1>1, <1>3, <2>1 DEF Covered
<1> QED
  BY <1>4, <1>5, <1>6, <1>7, <1>8, <1>9 DEF HInv

(* The weight of an error that is added leaves a number. *)
LEMMA WeightedFacts ==
  ASSUME HInv, s < m_lambda, NEW by \in Distances
  PROVE  Weighted(by) \in Nat
<1>1. by \in Nat /\ m_lambda - s \in Nat
  BY TypeFacts, HeapAssumption
<1> QED
  BY <1>1, FadedFacts DEF Weighted

(* increaseErrorNew keeps the heap invariant. *)
LEMMA IncreaseKeeps ==
  ASSUME HInv, NEW n \in Numbers, NEW second \in Numbers, NEW by \in Distances,
         IncreaseErrorNew(n, second, by)
  PROVE  HInv'
<1> DEFINE d == Decayed(n) + Weighted(by)
<1>1. /\ MayGoOn /\ s < m_lambda /\ s' = s + 1 /\ isolated' = isolated \ {n, second} /\ n \in live /\ d <= MaxError
      /\ error' = [m \in Numbers |-> IF m = n THEN d ELSE error[m]]
      /\ error_cycle' = [m \in Numbers |-> IF m = n THEN c ELSE error_cycle[m]]
      /\ heap' = WithoutEntry(heap, n)
      /\ L' = InsertLazy(L, n) /\ isonlist' = [isonlist EXCEPT ![n] = TRUE]
      /\ m_max_nodes' = m_max_nodes /\ live' = live /\ c' = c /\ pc' = pc
      /\ deletions' = deletions
  <2>1. /\ MayGoOn /\ s < m_lambda /\ s' = s + 1 /\ isolated' = isolated \ {n, second}
        /\ n \in live /\ d <= MaxError
        /\ Store({n}, [m \in {n} |-> Decayed(m) + Weighted(by)]) /\ LeaveHeap(n)
        /\ L' = InsertLazy(L, n) /\ isonlist' = [isonlist EXCEPT ![n] = TRUE]
        /\ m_max_nodes' = m_max_nodes /\ live' = live /\ c' = c /\ pc' = pc
        /\ deletions' = deletions
    BY DEF IncreaseErrorNew, Findable
  <2>2. error' = [m \in Numbers |-> IF m = n THEN d ELSE error[m]]
    <3>1. error' = [m \in Numbers |-> IF m \in {n} THEN [k \in {n} |-> Decayed(k) + Weighted(by)][m] ELSE error[m]]
      BY <2>1 DEF Store
    <3> QED
      BY <3>1
  <2>3. error_cycle' = [m \in Numbers |-> IF m = n THEN c ELSE error_cycle[m]]
    <3>1. error_cycle' = [m \in Numbers |-> IF m \in {n} THEN c ELSE error_cycle[m]]
      BY <2>1 DEF Store
    <3> QED
      BY <3>1
  <2> HIDE DEF d
  <2> QED
    BY <2>1, <2>2, <2>3 DEF LeaveHeap
<1>2. /\ L \in Seq(Numbers) /\ c \in Nat /\ MaxError \in Nat /\ live \subseteq Numbers
      /\ isonlist \in [Numbers -> BOOLEAN]
      /\ Decayed(n) \in 0 .. MaxError
      /\ error \in [Numbers -> Nat] /\ error_cycle \in [Numbers -> Nat]
  BY TypeFacts
<1>3. d \in 0 .. MaxError /\ d \in Nat
  <2>1. Weighted(by) \in Nat
    BY <1>1, WeightedFacts
  <2> QED
    BY <1>1, <1>2, <2>1
<1> HIDE DEF d
<1>4. Sound(heap') /\ Held(heap') = {x \in Held(heap) : x.i # n}
  BY <1>1, TypeFacts, WithoutEntrySound
<1>5. \A m \in Numbers : Buffered(heap', m) <=> Buffered(heap, m) /\ m # n
  <2>1. \A m \in Numbers : /\ Buffered(heap, m) <=> \E x \in Held(heap) : x.i = m
                           /\ Buffered(heap', m) <=> \E x \in Held(heap') : x.i = m
    BY <1>4, TypeFacts, BufferedFacts
  <2> QED
    BY <1>4, <2>1
<1>6. /\ IsInjective(L) /\ \A m \in Numbers : isonlist[m] <=> m \in Range(L)
      /\ \A m \in live : Buffered(heap, m) \/ isonlist[m]
      /\ deletions = 0 => \A m \in Numbers : ~(Buffered(heap, m) /\ isonlist[m])
  BY <1>1 DEF HInv, EveryNodeQueued, MayGoOn
<1>7. L' \in Seq(Numbers) /\ IsInjective(L') /\ Range(L') = Range(L) \cup {n}
  BY <1>1, <1>2, <1>6, InsertLazyFacts
<1>8. \A m \in Numbers : isonlist'[m] <=> isonlist[m] \/ m = n
  BY <1>1, <1>2
<1>9. pc = "adapt"
  BY <1>1 DEF MayGoOn
<1>10. TypeOK'
  <2>1. TypeOK
    BY DEF HInv
  <2>2. error' \in [Numbers -> 0 .. MaxError]
    BY <1>1, <1>3, <2>1 DEF TypeOK
  <2>3. error_cycle' \in [Numbers -> 0 .. c]
    BY <1>1, <1>2, <2>1 DEF TypeOK
  <2>4. heap' \in Heap /\ isonlist' \in [Numbers -> BOOLEAN]
    BY <1>1, <1>2, <1>4 DEF Sound, SoundBut
  <2>5. s' \in 0 .. m_lambda
    <3>1. s \in Nat /\ m_lambda \in Nat
      BY TypeFacts
    <3>2. s < m_lambda /\ s' = s + 1
      BY <1>1
    <3> QED
      BY <3>1, <3>2
  <2> QED
    BY <1>1, <1>7, <2>1, <2>2, <2>3, <2>4, <2>5 DEF TypeOK
<1>11. Bounded'
  BY <1>1 DEF HInv, Bounded, Effort, NodesMade
<1>12. EveryNodeQueued'
  BY <1>1, <1>2, <1>5, <1>6, <1>7, <1>8 DEF EveryNodeQueued
<1>13. Unknown'
  BY <1>1, <1>5, <1>8 DEF HInv, Unknown
<1>14. Outdated'
  <2>1. Outdated
    BY DEF HInv
  <2> QED
    BY <1>1, <1>5, <1>9, <2>1 DEF Outdated
<1>15. Covered'
  <2>1. ASSUME deletions = 0, NEW x \in Held(heap') PROVE x.val >= Decayed(x.i)'
    <3>1. x \in Held(heap) /\ x.i # n /\ x.i \in Numbers
      BY <1>4, HeldFacts
    <3>2. /\ error[x.i] \in Nat /\ error_cycle[x.i] \in 0 .. c
          /\ error'[x.i] = error[x.i] /\ error_cycle'[x.i] = error_cycle[x.i]
      BY <1>1, <3>1, TypeFacts
    <3>3. Decayed(x.i)' = Decayed(x.i)
      BY <1>1, <1>2, <3>2, DecayedNext
    <3> QED
      BY <2>1, <3>1, <3>3 DEF HInv, Covered
  <2> QED
    BY <1>1, <1>9, <2>1 DEF Covered
<1> QED
  BY <1>4, <1>10, <1>11, <1>12, <1>13, <1>14, <1>15 DEF HInv

(* LargestErrorNodesLazy begins: everything listed has its entry.           *)
LEMMA BeginFacts ==
  ASSUME HInv, BeginSearch
  PROVE  /\ pc = "adapt" /\ pc' = "extract" /\ s = m_lambda /\ Effort <= MaxEffort
         /\ L' = <<>> /\ isonlist' \in [Numbers -> BOOLEAN]
         /\ \A n \in Numbers : ~isonlist'[n]
         /\ m_max_nodes' = m_max_nodes /\ live' = live /\ isolated' = isolated
         /\ s' = s /\ c' = c /\ deletions' = deletions
         /\ error' = error /\ error_cycle' = error_cycle
         /\ Sound(heap')
         /\ Held(heap') = Held(heap) \cup EntriesOf({m \in Range(L) : ~Buffered(heap, m)})
         /\ \A n \in Numbers : Buffered(heap', n) <=> Buffered(heap, n) \/ isonlist[n]
<1>1. /\ MayGoOn /\ s = m_lambda /\ heap' = FoldLeft(Inserted, heap, L)
      /\ isonlist' = [n \in Numbers |-> isonlist[n] /\ n \notin Range(L)]
      /\ L' = <<>> /\ pc' = "extract"
      /\ m_max_nodes' = m_max_nodes /\ live' = live /\ isolated' = isolated
      /\ s' = s /\ c' = c /\ deletions' = deletions
      /\ error' = error /\ error_cycle' = error_cycle
  BY DEF BeginSearch, nodeVars
<1>2. pc = "adapt" /\ Effort <= MaxEffort
  BY <1>1 DEF MayGoOn
<1>3. /\ L \in Seq(Numbers) /\ isonlist \in [Numbers -> BOOLEAN] /\ Sound(heap)
      /\ error \in [Numbers -> Nat]
  BY TypeFacts
<1>4. \A n \in Numbers : isonlist[n] <=> n \in Range(L)
  BY DEF HInv, EveryNodeQueued
<1>5. isonlist' \in [Numbers -> BOOLEAN] /\ \A n \in Numbers : ~isonlist'[n]
  BY <1>1, <1>4
<1>6. Sound(heap')
  BY <1>1, <1>3, FlushSound
<1> DEFINE S == {m \in Range(L) : ~Buffered(heap, m)}
<1>7. Held(heap') = Held(heap) \cup EntriesOf(S)
  BY <1>1, <1>3, FlushSound
<1>8. ASSUME NEW n \in Numbers PROVE Buffered(heap', n) <=> Buffered(heap, n) \/ isonlist[n]
  <2>1. /\ Buffered(heap, n) <=> \E x \in Held(heap) : x.i = n
        /\ Buffered(heap', n) <=> \E x \in Held(heap') : x.i = n
    BY <1>3, <1>6, BufferedFacts
  <2>2. (\E x \in EntriesOf(S) : x.i = n) <=> n \in S
    <3> HIDE DEF S
    <3>1. \A x \in EntriesOf(S) : x.i \in S
      BY DEF EntriesOf
    <3>2. ASSUME n \in S PROVE \E x \in EntriesOf(S) : x.i = n
      <4>1. [i |-> n, val |-> error[n]] \in EntriesOf(S)
        BY <3>2 DEF EntriesOf
      <4> QED
        BY <4>1
    <3> QED
      BY <3>1, <3>2
  <2>3. n \in S <=> isonlist[n] /\ ~Buffered(heap, n)
    BY <1>4
  <2> HIDE DEF S
  <2> QED
    BY <1>7, <2>1, <2>2, <2>3
<1> QED
  BY <1>1, <1>2, <1>5, <1>6, <1>7, <1>8

(* The start of LargestErrorNodesLazy, which empties the lazy list into the heap, keeps the
   heap invariant. *)
LEMMA BeginKeeps ==
  ASSUME HInv, BeginSearch
  PROVE  HInv'
<1>1. /\ pc = "adapt" /\ pc' = "extract" /\ s = m_lambda /\ Effort <= MaxEffort
      /\ L' = <<>> /\ isonlist' \in [Numbers -> BOOLEAN]
      /\ \A n \in Numbers : ~isonlist'[n]
      /\ m_max_nodes' = m_max_nodes /\ live' = live /\ isolated' = isolated
      /\ s' = s /\ c' = c /\ deletions' = deletions
      /\ error' = error /\ error_cycle' = error_cycle
      /\ Sound(heap')
      /\ \A n \in Numbers : Buffered(heap', n) <=> Buffered(heap, n) \/ isonlist[n]
  BY BeginFacts
<1>2. Held(heap') = Held(heap) \cup EntriesOf({m \in Range(L) : ~Buffered(heap, m)})
  BY BeginFacts
<1>3. /\ live \subseteq Numbers /\ c \in Nat /\ L \in Seq(Numbers)
      /\ \A n \in Numbers : isonlist[n] <=> n \in Range(L)
  BY TypeFacts DEF HInv, EveryNodeQueued
<1>4. TypeOK'
  <2>1. TypeOK
    BY DEF HInv
  <2>2. heap' \in Heap /\ L' \in Seq(Numbers)
    BY <1>1 DEF Sound, SoundBut
  <2> QED
    BY <1>1, <2>1, <2>2 DEF TypeOK
<1>5. Bounded'
  BY <1>1 DEF HInv, Bounded, Effort, NodesMade
<1>6. EveryNodeQueued'
  <2>1. IsInjective(L') /\ Range(L') = {}
    BY <1>1 DEF IsInjective, Range
  <2>2. \A n \in live : Buffered(heap, n) \/ isonlist[n]
    BY <1>1 DEF HInv, EveryNodeQueued
  <2> QED
    BY <1>1, <1>3, <2>1, <2>2 DEF EveryNodeQueued
<1>7. Unknown' /\ Outdated'
  BY <1>1 DEF HInv, Unknown, Outdated
<1>8. Covered'
  <2>1. ASSUME deletions = 0, NEW x \in Held(heap')
        PROVE  /\ x.val >= Decayed(x.i)'
               /\ ~OutOfDate(x.i)' => x.val = Decayed(x.i)'
    <3>1. x.i \in Numbers
      BY <1>1, HeldFacts
    <3>2. /\ error[x.i] \in Nat /\ error_cycle[x.i] \in 0 .. c /\ MaxError \in Nat
          /\ Decayed(x.i) \in 0 .. MaxError /\ Decayed(x.i) <= error[x.i]
          /\ ~OutOfDate(x.i) => Decayed(x.i) = error[x.i]
      BY <3>1, TypeFacts
    <3>3. Decayed(x.i)' = Decayed(x.i)
      BY <1>1, <1>3, <3>2, DecayedNext
    <3>4. OutOfDate(x.i)' <=> OutOfDate(x.i)
      BY <1>1 DEF OutOfDate
    <3>5. CASE x \in Held(heap)
      <4>1. x.val >= Decayed(x.i)
        BY <2>1, <3>5 DEF HInv, Covered
      <4>2. Buffered(heap, x.i)
        BY <3>5, TypeFacts, HeldFacts
      <4>3. error_cycle[x.i] < c
        BY <1>1, <2>1, <3>1, <4>2 DEF HInv, Outdated
      <4>4. OutOfDate(x.i)
        BY <1>3, <3>2, <4>3 DEF OutOfDate
      <4> QED
        BY <3>3, <3>4, <4>1, <4>4
    <3>6. CASE x \notin Held(heap)
      <4>1. PICK m \in Range(L) : x = [i |-> m, val |-> error[m]]
        BY <1>2, <3>6 DEF EntriesOf
      <4>2. x.val = error[x.i]
        BY <4>1
      <4>3. x.val >= Decayed(x.i)
        BY <3>2, <4>2
      <4> QED
        BY <3>2, <3>3, <3>4, <4>2, <4>3
    <3> QED
      BY <3>5, <3>6
  <2> QED
    BY <1>1, <2>1 DEF Covered
<1> QED
  BY <1>1, <1>4, <1>5, <1>6, <1>7, <1>8 DEF HInv

(* The maximum of an earlier round is put back.                             *)
LEMMA PutBackFacts ==
  ASSUME HInv, PutBack
  PROVE  LET max == heap.at[1].i
         IN  /\ pc = "extract" /\ pc' = pc /\ heap.at # <<>>
             /\ max \in Numbers /\ OutOfDate(max) /\ Buffered(heap, max)
             /\ m_max_nodes' = m_max_nodes /\ live' = live /\ isolated' = isolated
             /\ s' = s /\ c' = c /\ deletions' = deletions /\ isonlist' = isonlist /\ L' = L
             /\ error' = [n \in Numbers |-> IF n = max THEN Decayed(max) ELSE error[n]]
             /\ error_cycle' = [n \in Numbers |-> IF n = max THEN c ELSE error_cycle[n]]
             /\ Sound(heap')
             /\ Held(heap') = {x \in Held(heap) : x.i # max}
                                \cup {[i |-> max, val |-> Decayed(max)]}
             /\ \A n \in Numbers : Buffered(heap', n) <=> Buffered(heap, n)
             /\ \A n \in Numbers : Decayed(n)' = Decayed(n)
             /\ \A n \in Numbers : OutOfDate(n)' <=> OutOfDate(n) /\ n # max
<1> DEFINE max == heap.at[1].i
           d == Decayed(max)
           h == HeapExtractMax(heap)
           e == [i |-> max, val |-> d]
<1>1. /\ pc = "extract" /\ heap.at # <<>> /\ OutOfDate(max)
      /\ Store({max}, [n \in {max} |-> Decayed(n)])
      /\ heap' = Updated(h, max, d)
      /\ m_max_nodes' = m_max_nodes /\ live' = live /\ isolated' = isolated
      /\ s' = s /\ c' = c /\ pc' = pc
      /\ deletions' = deletions /\ isonlist' = isonlist /\ L' = L
  BY DEF PutBack
<1>2. Sound(heap) /\ c \in Nat
  BY TypeFacts
<1>3. /\ Sound(h) /\ Held(h) = {x \in Held(heap) : x.i # max}
      /\ heap.at[1] \in Held(heap) /\ max \in Numbers
  <2>1. Sound(h)
    BY <1>1, <1>2, HeapExtractMaxSound
  <2>2. Held(h) = {x \in Held(heap) : x.i # max}
    BY <1>1, <1>2, HeapExtractMaxSound
  <2>3. heap.at[1] \in Held(heap) /\ max \in Numbers
    BY <1>1, <1>2, HeapExtractMaxSound
  <2> QED
    BY <2>1, <2>2, <2>3
<1>4. /\ d \in 0 .. MaxError /\ MaxError \in Nat
      /\ \A n \in Numbers : error[n] \in Nat /\ error_cycle[n] \in 0 .. c
  BY <1>3, TypeFacts
<1>5. Buffered(heap, max)
  BY <1>2, <1>3, HeldFacts
<1>6. error' = [n \in Numbers |-> IF n = max THEN d ELSE error[n]]
  <2>1. error' = [n \in Numbers |-> IF n \in {max} THEN [m \in {max} |-> Decayed(m)][n] ELSE error[n]]
    BY <1>1 DEF Store
  <2> QED
    BY <2>1
<1>7. error_cycle' = [n \in Numbers |-> IF n = max THEN c ELSE error_cycle[n]]
  <2>1. error_cycle' = [n \in Numbers |-> IF n \in {max} THEN c ELSE error_cycle[n]]
    BY <1>1 DEF Store
  <2> QED
    BY <2>1
<1>8. d \in Nat
  BY <1>4
<1> HIDE DEF d, h, max
<1>9. Sound(heap') /\ Held(heap') = {x \in Held(h) : x.i # max} \cup {[i |-> max, val |-> d]}
  <2>1. Sound(Updated(h, max, d))
    BY <1>3, <1>8, UpdatedSound
  <2>2. Held(Updated(h, max, d)) = {x \in Held(h) : x.i # max} \cup {[i |-> max, val |-> d]}
    BY <1>3, <1>8, UpdatedSound
  <2> QED
    BY <1>1, <2>1, <2>2
<1>10. Held(heap') = {x \in Held(heap) : x.i # max} \cup {e}
  BY <1>3, <1>9
<1>11. e.i = max
  OBVIOUS
<1> HIDE DEF e
<1>12. \A n \in Numbers : Buffered(heap', n) <=> Buffered(heap, n)
  <2>1. \A n \in Numbers : /\ Buffered(heap, n) <=> \E x \in Held(heap) : x.i = n
                           /\ Buffered(heap', n) <=> \E x \in Held(heap') : x.i = n
    BY <1>2, <1>9, BufferedFacts
  <2>2. ASSUME NEW n \in Numbers PROVE Buffered(heap', n) <=> Buffered(heap, n)
    <3>1. CASE n = max
      BY <1>5, <1>10, <1>11, <2>1, <3>1
    <3>2. CASE n # max
      BY <1>10, <1>11, <2>1, <3>2
    <3> QED
      BY <3>1, <3>2
  <2> QED
    BY <2>2
<1>13. ASSUME NEW n \in Numbers PROVE Decayed(n)' = Decayed(n)
  <2>1. error[n] \in Nat /\ error_cycle[n] \in 0 .. c /\ error'[n] \in Nat
    BY <1>4, <1>6, <1>8
  <2>2. CASE n = max
    <3>1. error_cycle'[n] = c /\ error'[n] = d
      BY <1>6, <1>7, <2>2
    <3> QED
      BY <1>1, <1>2, <2>1, <2>2, <3>1, DecayedNext DEF d
  <2>3. CASE n # max
    <3>1. error_cycle'[n] = error_cycle[n] /\ error'[n] = error[n]
      BY <1>6, <1>7, <2>3
    <3> QED
      BY <1>1, <1>2, <2>1, <3>1, DecayedNext
  <2> QED
    BY <2>2, <2>3
<1>14. ASSUME NEW n \in Numbers PROVE OutOfDate(n)' <=> OutOfDate(n) /\ n # max
  <2>1. error_cycle'[n] = IF n = max THEN c ELSE error_cycle[n]
    BY <1>7
  <2> QED
    BY <1>1, <2>1 DEF OutOfDate
<1> QED
  BY <1>1, <1>3, <1>5, <1>6, <1>7, <1>9, <1>10, <1>12, <1>13, <1>14 DEF max, d, e

(* Putting an outdated entry back with its present error keeps the heap invariant. *)
LEMMA PutBackKeeps ==
  ASSUME HInv, PutBack
  PROVE  HInv'
<1> DEFINE max == heap.at[1].i
<1>1. /\ pc = "extract" /\ pc' = pc
      /\ max \in Numbers /\ OutOfDate(max) /\ Buffered(heap, max)
      /\ m_max_nodes' = m_max_nodes /\ live' = live /\ isolated' = isolated
      /\ s' = s /\ c' = c /\ deletions' = deletions /\ isonlist' = isonlist /\ L' = L
      /\ error' = [n \in Numbers |-> IF n = max THEN Decayed(max) ELSE error[n]]
      /\ error_cycle' = [n \in Numbers |-> IF n = max THEN c ELSE error_cycle[n]]
      /\ Sound(heap')
      /\ \A n \in Numbers : Buffered(heap', n) <=> Buffered(heap, n)
      /\ \A n \in Numbers : Decayed(n)' = Decayed(n)
      /\ \A n \in Numbers : OutOfDate(n)' <=> OutOfDate(n) /\ n # max
  BY PutBackFacts
<1>2. Held(heap') = {x \in Held(heap) : x.i # max} \cup {[i |-> max, val |-> Decayed(max)]}
  BY PutBackFacts
<1>3. /\ Decayed(max) \in 0 .. MaxError /\ MaxError \in Nat /\ c \in Nat
      /\ live \subseteq Numbers
  BY <1>1, TypeFacts
<1> HIDE DEF max
<1>4. TypeOK'
  <2>1. TypeOK
    BY DEF HInv
  <2>2. heap' \in Heap
    BY <1>1 DEF Sound, SoundBut
  <2>3. error' \in [Numbers -> 0 .. MaxError]
    BY <1>1, <1>3, <2>1 DEF TypeOK
  <2>4. error_cycle' \in [Numbers -> 0 .. c]
    BY <1>1, <1>3, <2>1 DEF TypeOK
  <2> QED
    BY <1>1, <2>1, <2>2, <2>3, <2>4 DEF TypeOK
<1>5. Bounded'
  BY <1>1 DEF HInv, Bounded, Effort, NodesMade
<1>6. EveryNodeQueued'
  BY <1>1, <1>3 DEF HInv, EveryNodeQueued
<1>7. Unknown' /\ Outdated'
  BY <1>1 DEF HInv, Unknown, Outdated
<1>8. Covered'
  <2>1. ASSUME deletions = 0, NEW x \in Held(heap')
        PROVE  x.val >= Decayed(x.i)' /\ (~OutOfDate(x.i)' => x.val = Decayed(x.i)')
    <3>1. x.i \in Numbers
      BY <1>1, HeldFacts
    <3>2. Decayed(x.i)' = Decayed(x.i) /\ (OutOfDate(x.i)' <=> OutOfDate(x.i) /\ x.i # max)
      BY <1>1, <3>1
    <3>3. CASE x \in Held(heap) /\ x.i # max
      <4>1. /\ x.val >= Decayed(x.i)
            /\ ~OutOfDate(x.i) => x.val = Decayed(x.i)
        BY <1>1, <2>1, <3>3 DEF HInv, Covered
      <4> QED
        BY <3>2, <3>3, <4>1
    <3>4. CASE x = [i |-> max, val |-> Decayed(max)]
      <4>1. x.i = max /\ x.val = Decayed(max)
        BY <3>4
      <4> QED
        BY <1>3, <3>2, <4>1
    <3> QED
      BY <1>2, <3>3, <3>4
  <2> QED
    BY <1>1, <2>1 DEF Covered
<1> QED
  BY <1>1, <1>4, <1>5, <1>6, <1>7, <1>8 DEF HInv

(* The new node's error is no greater than the two it comes from.           *)
LEMMA MeanFacts ==
  ASSUME NEW m \in Nat, NEW a \in 0 .. m, NEW b \in 0 .. m
  PROVE  Alpha(a) \in 0 .. m /\ Mean(Alpha(a), Alpha(b)) \in 0 .. m
BY DEF Alpha, Mean

(* The split: q, its neighbours f and other, the new node nr; the errors it *)
(* leaves, before the decay of the round.                                   *)
SplitError(q, f, nr, n) ==
    IF n = nr THEN Mean(Alpha(Decayed(q)), Alpha(Decayed(f)))
    ELSE IF n \in {q, f} THEN Alpha(Decayed(n)) ELSE Decayed(n)

SplitDone(q, f, nr) ==
    /\ nr \in Numbers \ live /\ live' = live \cup {nr}
    /\ s' = 0 /\ c' = c + 1 /\ pc' = "adapt"
    /\ L' \in Seq(Numbers) /\ IsInjective(L') /\ Range(L') = {q, f, nr}
    /\ isonlist' \in [Numbers -> BOOLEAN]
    /\ \A n \in Numbers : ~isonlist[n] /\ (isonlist'[n] <=> n \in {q, f, nr})
    /\ Sound(heap') /\ Held(heap') = {x \in Held(heap) : x.i \notin {q, f}}
    /\ \A n \in Numbers : Buffered(heap', n) <=> Buffered(heap, n) /\ n \notin {q, f}
    /\ error' \in [Numbers -> 0 .. MaxError] /\ error_cycle' \in [Numbers -> 0 .. c]
    /\ \A n \in Numbers : /\ SplitError(q, f, nr, n) \in 0 .. MaxError
                          /\ Decayed(n)' = Faded(SplitError(q, f, nr, n), m_lambda)

(* What the split of a node makes of errors, rounds, heap and list. *)
LEMMA SplitFacts ==
  ASSUME HInv, pc = "extract", heap.at # <<>>, NEW q, q = heap.at[1].i, q \in live,
         NEW f \in live \ {q}, NEW other \in live \ {q}, NEW nr \in FreeNumbers,
         Split(q, {f, other}, f, nr)
  PROVE  SplitDone(q, f, nr)
<1> DEFINE S == {f, other} \cup {q, nr}
           new == Mean(Alpha(Decayed(q)), Alpha(Decayed(f)))
           fixed(n) == SplitError(q, f, nr, n)
           err == [n \in {f, other} \cup {q} |->
                     IF n \in {q, f} THEN Alpha(Decayed(n)) ELSE Decayed(n)]
           val == [n \in {f, other} \cup {q, nr} |->
                     IF n = nr THEN Mean(err[q], err[f]) ELSE err[n]]
           h == HeapExtractMax(heap)
<1>1. /\ Store(S, val)
      /\ heap' = WithoutEntry(h, f)
      /\ L' = InsertLazy(InsertLazy(InsertLazy(L, q), f), nr)
      /\ isonlist' = [n \in Numbers |-> isonlist[n] \/ n \in {q, f, nr}]
      /\ live' = live \cup {nr} /\ s' = 0 /\ c' = c + 1 /\ pc' = "adapt"
  BY DEF Split
<1>2. /\ Sound(heap) /\ live \subseteq Numbers /\ c \in Nat /\ MaxError \in Nat
      /\ isonlist \in [Numbers -> BOOLEAN]
      /\ error \in [Numbers -> Nat] /\ error_cycle \in [Numbers -> Nat]
      /\ \A n \in Numbers : /\ error[n] \in 0 .. MaxError /\ error[n] \in Nat
                            /\ error_cycle[n] \in 0 .. c
                            /\ Decayed(n) \in 0 .. MaxError
  BY TypeFacts
<1>3. nr \in Numbers \ live /\ q \in Numbers /\ f \in Numbers /\ f # q /\ other \in Numbers
      /\ nr # q /\ nr # f /\ nr # other /\ other # q
  BY <1>2 DEF FreeNumbers
<1>4. L = <<>> /\ \A n \in Numbers : ~isonlist[n]
  <2>1. L = <<>> /\ \A n \in Numbers : isonlist[n] <=> n \in Range(L)
    BY DEF HInv, Outdated, EveryNodeQueued
  <2>2. Range(L) = {}
    BY <2>1 DEF Range
  <2> QED
    BY <2>1, <2>2
<1>5. L \in Seq(Numbers) /\ IsInjective(L) /\ Range(L) = {}
  BY <1>4 DEF IsInjective, Range
<1>6. L' \in Seq(Numbers) /\ IsInjective(L') /\ Range(L') = {q, f, nr}
  <2> DEFINE l1 == InsertLazy(L, q)
             l2 == InsertLazy(l1, f)
             l3 == InsertLazy(l2, nr)
  <2>0. /\ isonlist[q] <=> q \in Range(L)
        /\ isonlist[f] <=> f \in {q}
        /\ isonlist[nr] <=> nr \in {q, f}
    BY <1>3, <1>4, <1>5
  <2>1. l1 \in Seq(Numbers) /\ IsInjective(l1) /\ Range(l1) = {q}
    BY <1>3, <1>5, <2>0, InsertLazyFacts
  <2> HIDE DEF l1
  <2>2. l2 \in Seq(Numbers) /\ IsInjective(l2) /\ Range(l2) = {q, f}
    BY <1>3, <2>0, <2>1, InsertLazyFacts
  <2> HIDE DEF l2
  <2>3. l3 \in Seq(Numbers) /\ IsInjective(l3) /\ Range(l3) = {q, f, nr}
    BY <1>3, <2>0, <2>2, InsertLazyFacts
  <2> QED
    BY <1>1, <2>3 DEF l1, l2
<1>7. isonlist' \in [Numbers -> BOOLEAN] /\ \A n \in Numbers : isonlist'[n] <=> n \in {q, f, nr}
  BY <1>1, <1>2, <1>4
<1>8. Sound(h) /\ Held(h) = {x \in Held(heap) : x.i # q}
  <2>1. Sound(h)
    BY <1>2, HeapExtractMaxSound
  <2>2. Held(h) = {x \in Held(heap) : x.i # heap.at[1].i}
    BY <1>2, HeapExtractMaxSound
  <2> QED
    BY <2>1, <2>2
<1> HIDE DEF h
<1>9. Sound(heap') /\ Held(heap') = {x \in Held(h) : x.i # f}
  BY <1>1, <1>3, <1>8, WithoutEntrySound
<1>10. Held(heap') = {x \in Held(heap) : x.i \notin {q, f}}
  BY <1>8, <1>9
<1>11. \A n \in Numbers : Buffered(heap', n) <=> Buffered(heap, n) /\ n \notin {q, f}
  <2>1. \A n \in Numbers : /\ Buffered(heap, n) <=> \E x \in Held(heap) : x.i = n
                           /\ Buffered(heap', n) <=> \E x \in Held(heap') : x.i = n
    BY <1>2, <1>9, BufferedFacts
  <2> QED
    BY <1>10, <2>1
<1>12. /\ err[q] = Alpha(Decayed(q)) /\ err[f] = Alpha(Decayed(f))
       /\ other # f => err[other] = Decayed(other)
  BY <1>3
<1>13. \A n \in S : val[n] = fixed(n)
  <2>1. val[nr] = new
    BY <1>12
  <2>2. \A n \in S : n # nr => val[n] = err[n]
    OBVIOUS
  <2> HIDE DEF val, err, new
  <2>3. ASSUME NEW n \in S PROVE val[n] = fixed(n)
    <3>1. n = nr \/ n = q \/ n = f \/ (n = other /\ n # f)
      OBVIOUS
    <3> QED
      BY <1>3, <1>12, <2>1, <2>2, <3>1 DEF SplitError, new
  <2> QED
    BY <2>3
<1>14. /\ error' = [n \in Numbers |-> IF n \in S THEN val[n] ELSE error[n]]
       /\ error_cycle' = [n \in Numbers |-> IF n \in S THEN c ELSE error_cycle[n]]
  BY <1>1 DEF Store
<1>15. \A n \in Numbers : fixed(n) \in 0 .. MaxError
  <2>1. new \in 0 .. MaxError
    BY <1>2, <1>3, MeanFacts
  <2>2. \A n \in Numbers : Alpha(Decayed(n)) \in 0 .. MaxError
    BY <1>2, MeanFacts
  <2> HIDE DEF new
  <2> QED
    BY <1>2, <2>1, <2>2 DEF SplitError, new
<1> HIDE DEF val, err, new, fixed, S
<1>16. error' \in [Numbers -> 0 .. MaxError] /\ error_cycle' \in [Numbers -> 0 .. c]
  <2>1. \A n \in Numbers : (IF n \in S THEN val[n] ELSE error[n]) \in 0 .. MaxError
    <3>1. S \subseteq Numbers
      BY <1>3 DEF S
    <3> QED
      BY <1>2, <1>13, <1>15, <3>1
  <2>2. \A n \in Numbers : (IF n \in S THEN c ELSE error_cycle[n]) \in 0 .. c
    BY <1>2
  <2> QED
    BY <1>14, <2>1, <2>2
<1>17. ASSUME NEW n \in Numbers PROVE Decayed(n)' = Faded(fixed(n), m_lambda)
  <2>1. error'[n] \in Nat /\ error[n] \in Nat /\ error_cycle[n] \in 0 .. c
    BY <1>2, <1>16
  <2>2. CASE n \in S
    <3>1. error'[n] = fixed(n) /\ error_cycle'[n] = c
      BY <1>13, <1>14, <2>2
    <3> QED
      BY <1>1, <1>2, <2>1, <3>1, DecayedNext
  <2>3. CASE n \notin S
    <3>1. error'[n] = error[n] /\ error_cycle'[n] = error_cycle[n]
      BY <1>14, <2>3
    <3>2. fixed(n) = Decayed(n)
      BY <1>3, <2>3 DEF fixed, S, SplitError
    <3> QED
      BY <1>1, <1>2, <2>1, <3>1, <3>2, DecayedNext
  <2> QED
    BY <2>2, <2>3
<1>18. \A n \in Numbers : fixed(n) \in 0 .. MaxError /\ Decayed(n)' = Faded(fixed(n), m_lambda)
  BY <1>15, <1>17
<1> QED
  BY <1>1, <1>3, <1>4, <1>6, <1>7, <1>9, <1>10, <1>11, <1>16, <1>18 DEF fixed, SplitDone

(* The end of the search at a node keeps the heap invariant. *)
LEMMA LargestKeeps ==
  ASSUME HInv, LargestFound
  PROVE  HInv'
<1>0. PICK q : q = heap.at[1].i
  OBVIOUS
<1>1. /\ pc = "extract" /\ heap.at # <<>> /\ ~OutOfDate(q) /\ q \in live
      /\ m_max_nodes' = m_max_nodes /\ isolated' = isolated /\ deletions' = deletions
  BY <1>0 DEF LargestFound, WithEdges
<1>2. PICK f \in live \ {q}, other \in live \ {q}, nr \in FreeNumbers :
         Split(q, {f, other}, f, nr)
  BY <1>0 DEF LargestFound, WithEdges
<1>2a. SplitDone(q, f, nr)
  BY <1>0, <1>1, <1>2, SplitFacts
<1>3. /\ nr \in Numbers \ live /\ live' = live \cup {nr}
      /\ s' = 0 /\ c' = c + 1 /\ pc' = "adapt"
      /\ L' \in Seq(Numbers) /\ IsInjective(L') /\ Range(L') = {q, f, nr}
      /\ isonlist' \in [Numbers -> BOOLEAN]
      /\ \A n \in Numbers : ~isonlist[n] /\ (isonlist'[n] <=> n \in {q, f, nr})
      /\ Sound(heap')
      /\ \A n \in Numbers : Buffered(heap', n) <=> Buffered(heap, n) /\ n \notin {q, f}
      /\ error' \in [Numbers -> 0 .. MaxError] /\ error_cycle' \in [Numbers -> 0 .. c]
  BY <1>2a DEF SplitDone
<1>4. Held(heap') = {x \in Held(heap) : x.i \notin {q, f}}
  BY <1>2a DEF SplitDone
<1>5. \A n \in Numbers : Decayed(n)' = Faded(SplitError(q, f, nr, n), m_lambda)
  BY <1>2a DEF SplitDone
<1>6. /\ live \subseteq Numbers /\ IsFiniteSet(live) /\ Cardinality(live) \in Nat
      /\ c \in Nat /\ deletions \in Nat /\ MaxError \in Nat /\ MaxEffort \in Nat
      /\ m_lambda \in Nat /\ isolated \subseteq live
      /\ \A n \in Numbers : Decayed(n) \in 0 .. MaxError
  BY TypeFacts
<1>7. Cardinality(live') = Cardinality(live) + 1
  BY <1>3, <1>6, FS_AddElement
<1>8. /\ Cardinality(live) >= 2 /\ Cardinality(live) + deletions + deletions + c <= MaxEffort
  BY <1>1 DEF HInv, Bounded, Effort, NodesMade
<1>9. TypeOK'
  <2>1. TypeOK
    BY DEF HInv
  <2>2. heap' \in Heap
    BY <1>3 DEF Sound, SoundBut
  <2>3. error_cycle' \in [Numbers -> 0 .. c + 1]
    <3>1. \A k \in 0 .. c : k \in 0 .. c + 1
      BY <1>6
    <3> QED
      BY <1>3, <3>1
  <2>4. c + 1 \in 0 .. MaxEffort
    BY <1>6, <1>8
  <2>5. live' \subseteq Numbers /\ isolated' \subseteq live' /\ s' \in 0 .. m_lambda
    BY <1>1, <1>3, <1>6
  <2> QED
    BY <1>1, <1>3, <2>1, <2>2, <2>3, <2>4, <2>5 DEF TypeOK
<1>10. Bounded'
  <2>1. c' = c + 1 /\ pc' = "adapt" /\ deletions' = deletions
    BY <1>1, <1>3
  <2> QED
    BY <1>6, <1>7, <1>8, <2>1 DEF Bounded, Effort, NodesMade
<1>11. EveryNodeQueued'
  <2>1. \A n \in live : Buffered(heap, n)
    BY <1>1, <1>3, <1>6 DEF HInv, EveryNodeQueued
  <2>2. \A n \in live' : Buffered(heap', n) \/ isonlist'[n]
    BY <1>3, <1>6, <2>1
  <2>3. deletions = 0 => ~Buffered(heap, nr)
    BY <1>3 DEF HInv, Unknown
  <2>4. deletions = 0 => \A n \in Numbers : ~(Buffered(heap', n) /\ isonlist'[n])
    BY <1>3, <2>3
  <2> QED
    BY <1>1, <1>3, <2>2, <2>4 DEF EveryNodeQueued
<1>12. Unknown'
  <2>1. q \in live /\ f \in live
    BY <1>1, <1>2
  <2> QED
    BY <1>1, <1>3, <2>1 DEF HInv, Unknown
<1>13. Outdated'
  <2>1. \A n \in Numbers : error_cycle'[n] < c + 1
    BY <1>3, <1>6
  <2> QED
    BY <1>3, <2>1 DEF Outdated
<1>14. Covered'
  <2>1. ASSUME deletions = 0, NEW x \in Held(heap') PROVE x.val >= Decayed(x.i)'
    <3>1. x \in Held(heap) /\ x.i \notin {q, f} /\ x.i \in Numbers /\ x.val \in Nat
      BY <1>3, <1>4, HeldFacts
    <3>2. x.i # nr
      <4>1. Buffered(heap, x.i) /\ ~Buffered(heap, nr)
        BY <1>3, <2>1, <3>1, TypeFacts, HeldFacts DEF HInv, Unknown
      <4> QED
        BY <4>1
    <3>3. Decayed(x.i)' = Faded(Decayed(x.i), m_lambda)
      BY <1>5, <3>1, <3>2 DEF SplitError
    <3>4. x.val >= Decayed(x.i)
      BY <2>1, <3>1 DEF HInv, Covered
    <3>5. Decayed(x.i) \in Nat
      BY <1>6, <3>1
    <3>6. Faded(Decayed(x.i), m_lambda) \in Nat /\ Faded(Decayed(x.i), m_lambda) <= Decayed(x.i)
      BY <1>6, <3>5, FadedFacts
    <3> QED
      BY <3>1, <3>3, <3>4, <3>5, <3>6
  <2> QED
    BY <1>1, <1>3, <2>1 DEF Covered
<1> QED
  BY <1>3, <1>9, <1>10, <1>11, <1>12, <1>13, <1>14 DEF HInv

(* Taking out the entry of a node without edges keeps the heap invariant. *)
LEMMA NoNeighbourKeeps ==
  ASSUME HInv, NoNeighbour
  PROVE  HInv'
<1> DEFINE q == heap.at[1].i
<1>1. /\ pc = "extract" /\ heap.at # <<>>
      /\ heap' = HeapExtractMax(heap) /\ pc' = "undefined"
      /\ m_max_nodes' = m_max_nodes /\ live' = live /\ isolated' = isolated /\ s' = s
      /\ error' = error /\ error_cycle' = error_cycle
      /\ isonlist' = isonlist /\ L' = L /\ c' = c /\ deletions' = deletions
  BY DEF NoNeighbour, nodeVars
<1>2. Sound(heap) /\ live \subseteq Numbers /\ c \in Nat
  BY TypeFacts
<1>3. Sound(heap') /\ Held(heap') = {x \in Held(heap) : x.i # q}
  <2>1. Sound(heap')
    BY <1>1, <1>2, HeapExtractMaxSound
  <2>2. Held(heap') = {x \in Held(heap) : x.i # q}
    BY <1>1, <1>2, HeapExtractMaxSound
  <2> QED
    BY <2>1, <2>2
<1> HIDE DEF q
<1>4. \A n \in Numbers : Buffered(heap', n) <=> Buffered(heap, n) /\ n # q
  <2>1. \A n \in Numbers : /\ Buffered(heap, n) <=> \E x \in Held(heap) : x.i = n
                           /\ Buffered(heap', n) <=> \E x \in Held(heap') : x.i = n
    BY <1>2, <1>3, BufferedFacts
  <2> QED
    BY <1>3, <2>1
<1>5. TypeOK'
  <2>1. TypeOK
    BY DEF HInv
  <2>2. heap' \in Heap
    BY <1>3 DEF Sound, SoundBut
  <2> QED
    BY <1>1, <2>1, <2>2 DEF TypeOK
<1>6. Bounded'
  BY <1>1 DEF HInv, Bounded, Effort, NodesMade
<1>7. EveryNodeQueued'
  BY <1>1, <1>2, <1>4 DEF HInv, EveryNodeQueued
<1>8. Unknown' /\ Outdated'
  BY <1>1, <1>4 DEF HInv, Unknown, Outdated
<1>9. Covered'
  <2>1. ASSUME deletions = 0, NEW x \in Held(heap') PROVE x.val >= Decayed(x.i)'
    <3>1. x \in Held(heap) /\ x.i \in Numbers
      BY <1>3, HeldFacts
    <3>2. error[x.i] \in Nat /\ error_cycle[x.i] \in 0 .. c /\ error'[x.i] = error[x.i]
      BY <1>1, <3>1, TypeFacts
    <3>3. Decayed(x.i)' = Decayed(x.i)
      BY <1>1, <1>2, <3>2, DecayedNext
    <3> QED
      BY <2>1, <3>1, <3>3 DEF HInv, Covered
  <2> QED
    BY <1>1, <2>1 DEF Covered
<1> QED
  BY <1>3, <1>5, <1>6, <1>7, <1>8, <1>9 DEF HInv

(* Every step keeps the heap invariant. *)
LEMMA HeapStep ==
  ASSUME HInv, [Next]_vars
  PROVE  HInv'
<1>1. CASE Next
  BY <1>1, IncreaseKeeps, DeleteKeeps, BeginKeeps, FullKeeps, PutBackKeeps, LargestKeeps,
     NoNeighbourKeeps DEF Next, Search
<1>2. CASE UNCHANGED vars
  <2>1. /\ m_max_nodes' = m_max_nodes /\ live' = live /\ isolated' = isolated /\ s' = s
        /\ error' = error /\ error_cycle' = error_cycle /\ heap' = heap /\ isonlist' = isonlist
        /\ L' = L /\ c' = c /\ pc' = pc /\ deletions' = deletions
    BY <1>2 DEF vars, nodeVars, queueVars
  <2>2. \A n : Decayed(n)' = Decayed(n) /\ (OutOfDate(n)' <=> OutOfDate(n))
    BY <2>1, DecayedIs DEF OutOfDate
  <2>3. TypeOK' /\ Sound(heap)' /\ Bounded' /\ EveryNodeQueued'
    BY <2>1 DEF HInv, TypeOK, Bounded, Effort, NodesMade, EveryNodeQueued
  <2>4. Unknown' /\ Outdated' /\ Covered'
    BY <2>1, <2>2 DEF HInv, Unknown, Outdated, Covered
  <2> QED
    BY <2>3, <2>4 DEF HInv
<1> QED
  BY <1>1, <1>2
-----------------------------------------------------------------------------
(* HInv is inductive.                                                       *)
THEOREM HeapInvariant == Spec => []HInv
<1>1. HInv /\ [Next]_vars => HInv'
  BY HeapStep
<1> QED
  BY HeapInit, <1>1, PTL DEF Spec

(* The array stays a heap and the positions exact (HeapSound), whatever is  *)
(* inserted, raised, lowered, taken from the middle or from the top.        *)
THEOREM LazyHeapSound == Spec => []HeapSound
<1>1. HInv => HeapSound
  <2> SUFFICES ASSUME HInv PROVE HeapSound
    OBVIOUS
  <2>1. TypeOK /\ SoundBut(heap, {}) /\ DOMAIN heap.at = 1 .. Len(heap.at)
    BY TypeFacts, HeapFields DEF HInv, Sound
  <2> QED
    BY <2>1 DEF HeapSound, SoundBut, Ordered, Buffered
<1> QED
  BY HeapInvariant, <1>1, PTL

(* No node is lost between the heap and the list (EveryNodeQueued).         *)
THEOREM LazyEveryNodeQueued == Spec => []EveryNodeQueued
<1>1. HInv => EveryNodeQueued
  BY DEF HInv
<1> QED
  BY HeapInvariant, <1>1, PTL

(* Until a node is deleted an entry never understates the error of its node *)
(* and is exact for a node of the current round (EntriesNotBelow).          *)
THEOREM LazyEntriesNotBelow == Spec => []EntriesNotBelow
<1>1. HInv => EntriesNotBelow
  <2> SUFFICES ASSUME HInv PROVE EntriesNotBelow
    OBVIOUS
  <2>1. \A k \in DOMAIN heap.at : heap.at[k] \in Held(heap)
    BY TypeFacts, HeapFields DEF Held
  <2> QED
    BY <2>1 DEF HInv, Covered, EntriesNotBelow
<1> QED
  BY HeapInvariant, <1>1, PTL
-----------------------------------------------------------------------------
(* The numbers of X the heap h has an entry of.  Its entries of numbers of   *)
(* X are as many as those numbers.                                          *)
Queued(h, X) == {n \in Numbers : Buffered(h, n) /\ n \in X}

CountedBy(K, S) == Cardinality(K) = Cardinality(S) /\ IsFiniteSet(S)

(* Of a sound heap, as many places as nodes belong to nodes of a set. *)
LEMMA EntriesCounted ==
  ASSUME NEW h, Sound(h), NEW X
  PROVE  CountedBy({k \in DOMAIN h.at : h.at[k].i \in X}, Queued(h, X))
<1> DEFINE K == {k \in DOMAIN h.at : h.at[k].i \in X}
           S == Queued(h, X)
           f == [k \in K |-> h.at[k].i]
<1>1. /\ Len(h.at) \in Nat /\ DOMAIN h.at = 1 .. Len(h.at)
      /\ \A k \in DOMAIN h.at : h.at[k].i \in Numbers
  BY SoundFacts, HeapFields
<1>2. \A j, k \in DOMAIN h.at : h.at[j].i = h.at[k].i => j = k
  BY <1>1, SoundFacts
<1>3. \A n \in Numbers : Buffered(h, n) <=> \E k \in DOMAIN h.at : h.at[k].i = n
  BY <1>1, SoundFacts DEF Held
<1>4. IsFiniteSet(K)
  <2>1. IsFiniteSet(1 .. Len(h.at)) /\ K \in SUBSET (1 .. Len(h.at))
    BY <1>1, FS_Interval
  <2> HIDE DEF K
  <2> QED
    BY <2>1, FS_Subset
<1>5. f \in [K -> S]
  BY <1>1, <1>3 DEF Queued
<1>6. IsInjective(f)
  BY <1>2 DEF IsInjective
<1>7. \A n \in S : \E k \in K : f[k] = n
  BY <1>3 DEF Queued
<1> HIDE DEF f, K, S
<1>8. f \in Bijection(K, S)
  BY <1>5, <1>6, <1>7 DEF Bijection, Injection, Surjection
<1>9. ExistsBijection(K, S)
  BY <1>8 DEF ExistsBijection
<1>10. Cardinality(S) = Cardinality(K) /\ IsFiniteSet(S)
  BY <1>4, <1>9, FS_Bijection
<1> QED
  BY <1>10 DEF K, S, CountedBy

(* The heap is not empty while it is searched.                              *)
LEMMA SearchHasEntries ==
  ASSUME HInv, pc = "extract"
  PROVE  /\ heap.at # <<>>
         /\ \A n \in Numbers : ~isonlist[n]
         /\ \A n \in live : Buffered(heap, n)
<1>1. L = <<>> /\ Cardinality(live) >= 2
  BY DEF HInv, Outdated, Bounded
<1>2. Range(L) = {}
  BY <1>1 DEF Range
<1>3. \A n \in Numbers : ~isonlist[n]
  BY <1>2 DEF HInv, EveryNodeQueued
<1>4. \A n \in live : Buffered(heap, n)
  BY <1>3, TypeFacts DEF HInv, EveryNodeQueued
<1>5. live # {}
  BY <1>1, FS_EmptySet
<1>6. PICK n \in live : Buffered(heap, n)
  BY <1>4, <1>5
<1>7. \E x \in Held(heap) : x.i = n
  BY <1>6, TypeFacts, BufferedFacts
<1>8. heap.at # <<>>
  <2>1. PICK k \in 1 .. Len(heap.at) : TRUE
    BY <1>7 DEF Held
  <2>2. Len(<<>>) = 0
    OBVIOUS
  <2> QED
    BY <2>1, <2>2
<1> QED
  BY <1>3, <1>4, <1>8

(* A pass that puts an entry back leaves fewer passes. *)
LEMMA PutBackCounts ==
  ASSUME HInv, PutBack
  PROVE  PassesLeft' < PassesLeft
<1> DEFINE X == {n \in Numbers : OutOfDate(n)}
           Y == {n \in Numbers : OutOfDate(n)'}
<1>0. PICK max : max = heap.at[1].i
  OBVIOUS
<1>1. /\ max \in Numbers /\ OutOfDate(max) /\ Buffered(heap, max) /\ Sound(heap')
      /\ \A n \in Numbers : Buffered(heap', n) <=> Buffered(heap, n)
      /\ \A n \in Numbers : OutOfDate(n)' <=> OutOfDate(n) /\ n # max
  BY <1>0, PutBackFacts
<1>2. Sound(heap)
  BY TypeFacts
<1>3. PassesLeft = Cardinality(Queued(heap, X)) /\ IsFiniteSet(Queued(heap, X))
  <2>1. \A k \in DOMAIN heap.at : heap.at[k].i \in Numbers
    BY <1>2, SoundFacts, HeapFields
  <2>2. {k \in DOMAIN heap.at : OutOfDate(heap.at[k].i)} = {k \in DOMAIN heap.at : heap.at[k].i \in X}
    BY <2>1
  <2> HIDE DEF X
  <2>3. CountedBy({k \in DOMAIN heap.at : heap.at[k].i \in X}, Queued(heap, X))
    BY <1>2, EntriesCounted
  <2> QED
    BY <2>2, <2>3 DEF PassesLeft, CountedBy
<1>4. PassesLeft' = Cardinality(Queued(heap', Y)) /\ IsFiniteSet(Queued(heap', Y))
  <2>1. \A k \in DOMAIN heap'.at : heap'.at[k].i \in Numbers
    BY <1>1, SoundFacts, HeapFields
  <2>2. {k \in DOMAIN heap.at : OutOfDate(heap.at[k].i)}' = {k \in DOMAIN heap'.at : heap'.at[k].i \in Y}
    BY <2>1 DEF OutOfDate
  <2> HIDE DEF Y
  <2>3. CountedBy({k \in DOMAIN heap'.at : heap'.at[k].i \in Y}, Queued(heap', Y))
    BY <1>1, EntriesCounted
  <2> QED
    BY <2>2, <2>3 DEF PassesLeft, CountedBy
<1>5. Queued(heap', Y) = Queued(heap, X) \ {max} /\ max \in Queued(heap, X)
  BY <1>1 DEF Queued
<1> HIDE DEF X, Y
<1>6. /\ Cardinality(Queued(heap, X) \ {max}) = Cardinality(Queued(heap, X)) - 1
      /\ Cardinality(Queued(heap, X)) \in Nat
  BY <1>3, <1>5, FS_RemoveElement, FS_CardinalityType
<1> QED
  BY <1>3, <1>4, <1>5, <1>6

(* The search for the largest error never empties the heap and makes        *)
(* progress with every entry it puts back (SearchEnds).                     *)
THEOREM LazySearchEnds == Spec => SearchEnds
<1> DEFINE A == pc = "extract" => /\ heap.at # <<>>
                                  /\ pc' = "extract" => PassesLeft' < PassesLeft
<1>1. HInv /\ [Next]_vars => [A]_vars
  <2> SUFFICES ASSUME HInv, Next, pc = "extract"
               PROVE  heap.at # <<>> /\ (pc' = "extract" => PassesLeft' < PassesLeft)
    OBVIOUS
  <2>1. heap.at # <<>>
    BY SearchHasEntries
  <2>2. CASE PutBack
    BY <2>1, <2>2, PutBackCounts
  <2>3. CASE LargestFound
    <3>1. pc' = "adapt"
      BY <2>3 DEF LargestFound, Split
    <3> QED
      BY <2>1, <3>1
  <2>4. CASE NoNeighbour
    <3>1. pc' = "undefined"
      BY <2>4 DEF NoNeighbour
    <3> QED
      BY <2>1, <3>1
  <2> QED
    BY <2>2, <2>3, <2>4 DEF Next, Search, IncreaseErrorNew, DeleteNode, BeginSearch,
       NetworkFull, MayGoOn
<1> QED
  BY HeapInvariant, <1>1, PTL DEF Spec, SearchEnds
-----------------------------------------------------------------------------
(* At the end of the search no error is larger than that of the node found. *)
LEMMA RootIsLargest ==
  ASSUME HInv, pc = "extract", deletions = 0, ~OutOfDate(heap.at[1].i), heap.at[1].i \in live,
         NEW n \in live
  PROVE  Decayed(n) <= Decayed(heap.at[1].i)
<1>0. PICK q : q = heap.at[1].i
  OBVIOUS
<1>1. /\ live \subseteq Numbers /\ Sound(heap) /\ MaxError \in Nat
      /\ \A m \in Numbers : Decayed(m) \in 0 .. MaxError
  BY TypeFacts
<1>2. heap.at # <<>> /\ Buffered(heap, n)
  BY SearchHasEntries
<1>3. heap.at[1] \in Held(heap)
  BY <1>1, <1>2, HeapExtractMaxSound
<1>4. PICK x \in Held(heap) : x.i = n
  BY <1>1, <1>2, BufferedFacts
<1>5. x.val >= Decayed(n) /\ heap.at[1].val = Decayed(q)
  BY <1>0, <1>3, <1>4 DEF HInv, Covered
<1>6. x.val <= heap.at[1].val
  BY <1>1, FirstIsGreatest
<1>7. x.val \in Nat /\ Decayed(n) \in Nat /\ Decayed(q) \in Nat
  BY <1>0, <1>1, <1>4, HeldFacts
<1> QED
  BY <1>0, <1>5, <1>6, <1>7

(* The factors mean the same in the abstract specification. *)
LEMMA PromptFactors ==
  /\ \A e, k : Prompt!Faded(e, k) = Faded(e, k)
  /\ \A e : Prompt!Alpha(e) = Alpha(e)
  /\ \A d, e : Prompt!Mean(d, e) = Mean(d, e)
  /\ Prompt!RaisePower = m_lambda - s
  /\ \A n, S : Prompt!RoundPower(n, S) = m_lambda
<1>1. \A e, k : Prompt!Faded(e, k) = Faded(e, k)
  BY DEF Faded, Prompt!Faded, Betha, Prompt!Betha
<1>2. /\ \A e : Prompt!Alpha(e) = Alpha(e)
      /\ \A d, e : Prompt!Mean(d, e) = Mean(d, e)
  BY DEF Alpha, Prompt!Alpha, Mean, Prompt!Mean
<1>3. /\ Prompt!RaisePower = m_lambda - s
      /\ \A n, S : Prompt!RoundPower(n, S) = m_lambda
  BY DEF Prompt!RaisePower, Prompt!RoundPower
<1> QED
  BY <1>1, <1>2, <1>3

(* Until a node is deleted nobody can tell that the decay is put off: every *)
(* step is one of NodeErrors, which decays every error at the end of every  *)
(* round, or leaves its errors alone (ImplementsPrompt).                    *)
THEOREM LazyImplementsPrompt == Spec => ImplementsPrompt
<1> DEFINE err == [n \in live |-> Decayed(n)]
<1>1. Init => Prompt!EInit
  <2> SUFFICES ASSUME Init PROVE Prompt!EInit
    OBVIOUS
  <2>1. HInv /\ deletions = 0 /\ s = 0
    BY HeapInit DEF Init
  <2>2. live \in SUBSET Numbers /\ \A n \in live : Decayed(n) \in 0 .. MaxError
    BY <2>1, TypeFacts
  <2>3. err \in [live -> 0 .. MaxError]
    BY <2>2
  <2> QED
    BY <2>1, <2>2, <2>3 DEF Prompt!EInit
<1>2. HInv /\ [Next]_vars => [Prompt!ENext]_(Prompt!evars)
  <2> SUFFICES ASSUME HInv, [Next]_vars PROVE [Prompt!ENext]_(Prompt!evars)
    OBVIOUS
  <2>0. /\ live \subseteq Numbers /\ c \in Nat /\ MaxError \in Nat /\ deletions \in Nat
        /\ error \in [Numbers -> Nat] /\ error_cycle \in [Numbers -> Nat]
        /\ \A n \in Numbers : /\ error[n] \in Nat /\ error_cycle[n] \in 0 .. c
                              /\ Decayed(n) \in 0 .. MaxError
    BY TypeFacts
  <2>1. ASSUME NEW n \in Numbers, NEW second \in Numbers, NEW by \in Distances,
               IncreaseErrorNew(n, second, by)
        PROVE  Prompt!ENext
    <3>1. /\ n \in live /\ live' = live /\ s < m_lambda /\ s' = s + 1 /\ c' = c
          /\ deletions' = deletions
          /\ Store({n}, [m \in {n} |-> Decayed(m) + Weighted(by)])
      BY <2>1 DEF IncreaseErrorNew, Findable
    <3> DEFINE d == Decayed(n) + Weighted(by)
    <3>2. /\ error' = [m \in Numbers |->
                          IF m \in {n} THEN [k \in {n} |-> Decayed(k) + Weighted(by)][m] ELSE error[m]]
          /\ error_cycle' = [m \in Numbers |-> IF m \in {n} THEN c ELSE error_cycle[m]]
      BY <3>1 DEF Store
    <3>3. d \in Nat
      BY <2>0, <3>1, WeightedFacts
    <3>4. /\ error'[n] = d /\ error_cycle'[n] = c
          /\ \A m \in Numbers \ {n} : error'[m] = error[m] /\ error_cycle'[m] = error_cycle[m]
      BY <3>2
    <3> HIDE DEF d
    <3>5. Decayed(n)' = d
      BY <2>0, <3>1, <3>3, <3>4, DecayedNext
    <3>6. ASSUME NEW m \in live, m # n PROVE Decayed(m)' = Decayed(m)
      <4>1. m \in Numbers /\ error'[m] = error[m] /\ error_cycle'[m] = error_cycle[m]
        BY <2>0, <3>4, <3>6
      <4> QED
        BY <2>0, <3>1, <4>1, DecayedNext
    <3>7. Weighted(by) = Prompt!Faded(by, Prompt!RaisePower)
      BY PromptFactors DEF Weighted
    <3>8. [m \in live |-> Decayed(m)]' = [err EXCEPT ![n] = @ + Prompt!Faded(by, Prompt!RaisePower)]
      BY <3>1, <3>5, <3>6, <3>7 DEF d
    <3>9. Prompt!Raise(n, by)
      BY <3>1, <3>8 DEF Prompt!Raise
    <3> QED
      BY <3>1, <3>9 DEF Prompt!ENext
  <2>2. ASSUME NEW n \in Numbers, DeleteNode(n) PROVE Prompt!ENext \/ UNCHANGED Prompt!evars
    <3>1. /\ n \in live /\ s' = s /\ error' = error /\ error_cycle' = error_cycle /\ c' = c
          /\ \/ live' = live /\ deletions' = deletions
             \/ live' = live \ {n} /\ deletions' = deletions + 1
      BY <2>2 DEF DeleteNode
    <3>2. \A m \in live : Decayed(m)' = Decayed(m)
      BY <3>1, DecayedIs
    <3>3. CASE live' = live \ {n} /\ deletions' = deletions + 1
      <4>1. [m \in live |-> Decayed(m)]' = [m \in live' |-> err[m]]
        BY <3>2, <3>3
      <4>2. (deletions = 0)' = FALSE
        BY <2>0, <3>3
      <4>3. Prompt!Remove(n)
        BY <3>1, <3>3, <4>1, <4>2 DEF Prompt!Remove
      <4> QED
        BY <3>1, <4>3 DEF Prompt!ENext
    <3>4. CASE live' = live /\ deletions' = deletions
      BY <3>1, <3>2, <3>4 DEF Prompt!evars
    <3> QED
      BY <3>1, <3>3, <3>4
  <2>3. ASSUME NetworkFull PROVE Prompt!ENext
    <3>1. /\ live' = live /\ s = m_lambda /\ s' = 0 /\ c' = c + 1 /\ deletions' = deletions
          /\ error' = error /\ error_cycle' = error_cycle
      BY <2>3 DEF NetworkFull, nodeVars
    <3>2. ASSUME NEW m \in live PROVE Decayed(m)' = Faded(Decayed(m), m_lambda)
      <4>1. m \in Numbers /\ error'[m] = error[m] /\ error_cycle'[m] = error_cycle[m]
        BY <2>0, <3>1
      <4> QED
        BY <2>0, <3>1, <4>1, DecayedNext
    <3>3. [m \in live |-> Decayed(m)]'
             = [m \in live |-> Prompt!Faded(err[m], Prompt!RoundPower(m, live))]
      BY <3>1, <3>2, PromptFactors
    <3>4. Prompt!Decay
      BY <3>1, <3>3 DEF Prompt!Decay, Prompt!EndOfRound
    <3> QED
      BY <3>4 DEF Prompt!ENext
  <2>4. ASSUME LargestFound PROVE Prompt!ENext
    <3>0. PICK q : q = heap.at[1].i
      OBVIOUS
    <3>1. /\ pc = "extract" /\ heap.at # <<>> /\ ~OutOfDate(q) /\ q \in live
          /\ deletions' = deletions
      BY <2>4, <3>0 DEF LargestFound, WithEdges
    <3>2. PICK f \in live \ {q}, other \in live \ {q}, nr \in FreeNumbers :
             Split(q, {f, other}, f, nr)
      BY <2>4, <3>0 DEF LargestFound, WithEdges
    <3>3. SplitDone(q, f, nr) /\ s = m_lambda
      BY <3>0, <3>1, <3>2, SplitFacts DEF HInv, Outdated
    <3>4. /\ nr \in Numbers \ live /\ live' = live \cup {nr} /\ s' = 0
          /\ \A n \in Numbers : Decayed(n)' = Faded(SplitError(q, f, nr, n), m_lambda)
      BY <3>3 DEF SplitDone
    <3>5. deletions = 0 => Prompt!Largest(q)
      <4>1. ASSUME deletions = 0, NEW n \in live PROVE Decayed(n) <= Decayed(q)
        BY <3>0, <3>1, <4>1, RootIsLargest
      <4> QED
        BY <3>1, <4>1 DEF Prompt!Largest
    <3>6. q \in live /\ f \in live /\ q # f
      BY <3>1, <3>2
    <3> DEFINE split == [n \in {q, f} |-> Prompt!Alpha(err[n])]
               left(n) == CASE n = nr -> Prompt!Mean(split[q], split[f])
                            [] n \in {q, f} -> split[n]
                            [] OTHER -> err[n]
    <3>7. ASSUME NEW n \in live' PROVE left(n) = SplitError(q, f, nr, n)
      <4>1. split[q] = Alpha(Decayed(q)) /\ split[f] = Alpha(Decayed(f))
        BY <3>6, PromptFactors
      <4>2. CASE n = nr
        <5>1. left(n) = Mean(split[q], split[f])
          <6> HIDE DEF split
          <6>1. n \notin {q, f}
            BY <3>4, <3>6, <4>2
          <6>2. left(n) = Prompt!Mean(split[q], split[f])
            BY <4>2, <6>1
          <6> QED
            BY <6>2, PromptFactors
        <5> QED
          BY <4>1, <4>2, <5>1 DEF SplitError
      <4>3. CASE n # nr /\ n \in {q, f}
        BY <4>1, <4>3 DEF SplitError
      <4>4. CASE n # nr /\ n \notin {q, f}
        <5>1. n \in live /\ err[n] = Decayed(n)
          BY <3>4, <4>4
        <5> QED
          BY <4>4, <5>1 DEF SplitError
      <4> QED
        BY <4>2, <4>3, <4>4
    <3>8. [n \in live |-> Decayed(n)]'
             = [n \in live' |-> Prompt!Faded(left(n), Prompt!RoundPower(n, live'))]
      <4>1. ASSUME NEW n \in live'
            PROVE  Decayed(n)' = Prompt!Faded(left(n), Prompt!RoundPower(n, live'))
        <5>1. n \in Numbers
          BY <2>0, <3>4
        <5> HIDE DEF left
        <5> QED
          BY <3>4, <3>7, <5>1, PromptFactors
      <4> QED
        BY <4>1
    <3>9. Prompt!Split(q, f, nr)
      BY <3>1, <3>3, <3>4, <3>5, <3>6, <3>8 DEF Prompt!Split, Prompt!EndOfRound
    <3> QED
      BY <3>4, <3>6, <3>9 DEF Prompt!ENext
  <2>5. ASSUME BeginSearch PROVE UNCHANGED Prompt!evars
    <3>1. /\ live' = live /\ deletions' = deletions /\ error' = error
          /\ error_cycle' = error_cycle /\ s' = s /\ c' = c
      BY <2>5, BeginFacts
    <3>2. \A m \in live : Decayed(m)' = Decayed(m)
      BY <3>1, DecayedIs
    <3> QED
      BY <3>1, <3>2 DEF Prompt!evars
  <2>6. ASSUME PutBack PROVE UNCHANGED Prompt!evars
    <3>1. /\ live' = live /\ s' = s /\ deletions' = deletions
          /\ \A n \in Numbers : Decayed(n)' = Decayed(n)
      BY <2>6, PutBackFacts
    <3>2. \A m \in live : Decayed(m)' = Decayed(m)
      BY <2>0, <3>1
    <3> QED
      BY <3>1, <3>2 DEF Prompt!evars
  <2>7. ASSUME NoNeighbour \/ UNCHANGED vars PROVE UNCHANGED Prompt!evars
    <3>1. /\ live' = live /\ deletions' = deletions /\ error' = error
          /\ error_cycle' = error_cycle /\ s' = s /\ c' = c
      BY <2>7 DEF NoNeighbour, vars, nodeVars
    <3>2. \A m \in live : Decayed(m)' = Decayed(m)
      BY <3>1, DecayedIs
    <3> QED
      BY <3>1, <3>2 DEF Prompt!evars
  <2> QED
    BY <2>1, <2>2, <2>3, <2>4, <2>5, <2>6, <2>7 DEF Next, Search
<1> QED
  BY HeapInvariant, <1>1, <1>2, PTL DEF Spec, ImplementsPrompt, Prompt!ESpec
=============================================================================
