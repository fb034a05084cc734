------------------------- MODULE GNGAdaptationProofs -------------------------
(****************************************************************************)
(* Proofs about the learning loop and what it rests on: NodePool, for every *)
(* initial pool size and every max_nodes; the operations of GNGGraph on the *)
(* edges; and GNGAdaptation, for every maximum age, m_lambda and choice of  *)
(* the utility option besides.                                              *)
(*                                                                          *)
(* The vector of a node is taken for the set of its entries, of which no    *)
(* two have the same end; what addUDEdge, removeUDEdge and aging do to a    *)
(* vector is then adding, taking and replacing an entry.                    *)
(****************************************************************************)
EXTENDS GNGAdaptation, RecursionFacts

(* The pool invariant: the four facts rest on each other.  Without          *)
(* FreeListExact newNode could take an occupied slot, and the count and the *)
(* bound would not survive it.                                              *)
PoolInv == PoolTypeOK /\ FreeListExact /\ CountExact /\ MaximumIndexBounds

(* A pool that has lost the slots G: they are not occupied and not on the   *)
(* free list either.  Nothing in this module loses a slot; a pool that was  *)
(* read from a file may have.                                               *)
Waiting(G) == FreeSlots \ G

FreeListBut(G) ==
    \E n \in 0 .. size : \E fl \in [1 .. n -> Waiting(G)] :
        /\ FollowsFreeList(n, fl)
        /\ \A j, k \in 1 .. n : fl[j] = fl[k] => j = k
        /\ \A i \in Waiting(G) : \E k \in 1 .. n : fl[k] = i

LeakyPool(G) == PoolTypeOK /\ G \subseteq FreeSlots /\ FreeListBut(G)

(* The pool that has lost nothing is the one with an exact free list.       *)
LEMMA LeakyNowhere == LeakyPool({}) <=> PoolTypeOK /\ FreeListExact
<1>1. Waiting({}) = FreeSlots
  BY DEF Waiting
<1> QED
  BY <1>1 DEF LeakyPool, FreeListBut, FreeListExact, ListsFreeSlots

-----------------------------------------------------------------------------
(* The same of the state after a step.                                      *)
LEMMA LeakyNowherePrimed == LeakyPool({})' <=> PoolTypeOK' /\ FreeListExact'
BY LeakyNowhere, PTL

(* The constructor leaves every slot free, chained in index order.          *)
LEMMA PoolInitInv == PoolInit => PoolInv
<1> SUFFICES ASSUME PoolInit PROVE PoolInv
  OBVIOUS
<1>1. PoolTypeOK
  BY PoolAssumption DEF PoolInit, PoolTypeOK, Slots, NoSlot
<1>2. Occupied = {}
  BY DEF PoolInit, Occupied
<1>3. FreeListExact
  <2> DEFINE fl == [k \in 1 .. size |-> k - 1]
  <2>1. size \in 0 .. size /\ fl \in [1 .. size -> FreeSlots]
    BY <1>1, <1>2 DEF PoolTypeOK, FreeSlots, Slots
  <2>2. FollowsFreeList(size, fl)
    BY <1>1 DEF PoolInit, PoolTypeOK, FollowsFreeList, Slots, NoSlot
  <2>3. ListsFreeSlots(size, fl)
    <3>1. ASSUME NEW i \in FreeSlots PROVE \E k \in 1 .. size : fl[k] = i
      <4>1. i + 1 \in 1 .. size /\ fl[i + 1] = i
        BY <1>1 DEF PoolTypeOK, FreeSlots, Slots
      <4> QED
        BY <4>1
    <3> QED
      BY <3>1 DEF ListsFreeSlots
  <2> QED
    BY <2>1, <2>2, <2>3 DEF FreeListExact
<1>4. CountExact
  BY <1>2, FS_EmptySet DEF PoolInit, CountExact
<1>5. MaximumIndexBounds
  BY <1>2 DEF MaximumIndexBounds
<1> QED
  BY <1>1, <1>3, <1>4, <1>5 DEF PoolInv

(* A free list that is not exhausted is headed by a free slot; an exhausted *)
(* one means that every slot is in use, or lost.                            *)
LEMMA FreeListHead ==
  ASSUME NEW G, LeakyPool(G)
  PROVE  /\ first_free # NoSlot => first_free \in Waiting(G)
         /\ first_free = NoSlot => Occupied \cup G = Slots
<1>0. PICK n \in 0 .. size : \E fl \in [1 .. n -> Waiting(G)] :
         /\ FollowsFreeList(n, fl)
         /\ \A j, k \in 1 .. n : fl[j] = fl[k] => j = k
         /\ \A i \in Waiting(G) : \E k \in 1 .. n : fl[k] = i
  BY DEF LeakyPool, FreeListBut
<1>1. PICK fl \in [1 .. n -> Waiting(G)] :
         /\ FollowsFreeList(n, fl)
         /\ \A i \in Waiting(G) : \E k \in 1 .. n : fl[k] = i
  BY <1>0
<1>2. CASE n = 0
  <2>1. Waiting(G) = {}
    BY <1>1, <1>2
  <2> QED
    BY <1>1, <1>2, <2>1 DEF FollowsFreeList, LeakyPool, Waiting, FreeSlots, Occupied
<1>3. CASE n # 0
  <2>1. 1 \in 1 .. n /\ first_free = fl[1]
    BY <1>1, <1>3 DEF FollowsFreeList
  <2>2. first_free \in Waiting(G)
    BY <1>1, <2>1
  <2> QED
    BY <2>2 DEF Waiting, FreeSlots, Slots, NoSlot
<1> QED
  BY <1>2, <1>3

(* The set of occupied slots is finite, so that it can be counted.          *)
LEMMA OccupiedFinite == PoolTypeOK => IsFiniteSet(Occupied)
<1> SUFFICES ASSUME PoolTypeOK PROVE IsFiniteSet(Occupied)
  OBVIOUS
<1>1. IsFiniteSet(Slots)
  BY FS_Interval DEF PoolTypeOK, Slots
<1> QED
  BY <1>1, FS_Subset DEF Occupied
-----------------------------------------------------------------------------
(* newNode keeps the arrays well formed and turns exactly one slot, which   *)
(* was not in use, into a used one.                                         *)
LEMMA NewNodeOccupies ==
  ASSUME NEW G, LeakyPool(G), NewNode
  PROVE  /\ PoolTypeOK'
         /\ NewIndex \in Slots' \ (Occupied \cup G)
         /\ Occupied' = Occupied \cup {NewIndex}
         /\ G \subseteq FreeSlots'
         /\ size' # size => Occupied \cup G = Slots
<1>0. PoolTypeOK /\ G \subseteq FreeSlots
  BY DEF LeakyPool
<1>1. CASE first_free # NoSlot
  <2>1. /\ first_free \in Slots /\ ~occupied[first_free] /\ NewIndex = first_free
        /\ first_free \notin Occupied \cup G
    BY <1>1, FreeListHead DEF Waiting, FreeSlots, Occupied, NewIndex
  <2>2. /\ size' = size
        /\ occupied' = [occupied EXCEPT ![first_free] = TRUE]
        /\ next_free' = next_free
        /\ first_free' = next_free[first_free]
        /\ maximum_index' = IF first_free > maximum_index THEN first_free
                                                          ELSE maximum_index
        /\ nodes' = nodes + 1
    BY <1>1 DEF NewNode, TakeSlot, RaisedMaximum, NewIndex
  <2>3. PoolTypeOK'
    BY <1>0, <2>1, <2>2 DEF PoolTypeOK, Slots, NoSlot
  <2>4. Slots' = Slots /\ Occupied' = Occupied \cup {first_free}
    BY <1>0, <2>1, <2>2 DEF Occupied, Slots, PoolTypeOK
  <2>5. G \subseteq FreeSlots'
    BY <1>0, <2>1, <2>4 DEF FreeSlots
  <2> QED
    BY <2>1, <2>2, <2>3, <2>4, <2>5
<1>2. CASE first_free = NoSlot
  <2>1. Occupied \cup G = Slots /\ NewIndex = size
    BY <1>2, FreeListHead DEF NewIndex
  <2>2. /\ size' = 2 * size
        /\ occupied' = [GrownOccupied EXCEPT ![size] = TRUE]
        /\ next_free' = GrownNextFree
        /\ first_free' = GrownNextFree[size]
        /\ maximum_index' = IF size > maximum_index THEN size
                                                    ELSE maximum_index
        /\ nodes' = nodes + 1
    BY <1>2 DEF NewNode, TakeSlot, RaisedMaximum, NewIndex
  <2>3. size \in 0 .. 2 * size - 1 /\ Slots' = 0 .. 2 * size - 1
    BY <1>0, <2>2 DEF PoolTypeOK, Slots
  <2>4. GrownNextFree \in [Slots' -> Slots' \cup {NoSlot}]
    BY <1>0, <2>2 DEF GrownNextFree, PoolTypeOK, Slots, NoSlot
  <2>5. Slots = 0 .. size - 1 /\ size \in Nat \ {0} /\ occupied \in [Slots -> BOOLEAN]
    BY <1>0 DEF Slots, PoolTypeOK
  <2>6. GrownOccupied = [i \in Slots' |-> IF i \in Occupied THEN TRUE ELSE FALSE]
    <3>1. ASSUME NEW i \in Slots'
          PROVE  (IF i < size THEN occupied[i] ELSE FALSE)
                    = IF i \in Occupied THEN TRUE ELSE FALSE
      <4>1. i < size <=> i \in Slots
        BY <2>3, <2>5
      <4>2. i \in Occupied <=> i \in Slots /\ occupied[i]
        BY DEF Occupied
      <4> QED
        BY <2>5, <4>1, <4>2
    <3> QED
      BY <2>3, <3>1 DEF GrownOccupied
  <2>7. occupied' = [i \in Slots' |-> IF i \in Occupied \cup {size} THEN TRUE ELSE FALSE]
    BY <2>2, <2>3, <2>6
  <2>8. PoolTypeOK'
    <3>1. occupied' \in [Slots' -> BOOLEAN]
      BY <2>7
    <3>2. first_free' \in Slots' \cup {NoSlot}
      BY <2>2, <2>3, <2>4
    <3> QED
      BY <1>0, <2>2, <2>3, <2>4, <3>1, <3>2 DEF PoolTypeOK
  <2>9. Occupied' = Occupied \cup {size}
    <3>1. Occupied' = {i \in Slots' : i \in Occupied \cup {size}}
      BY <2>7 DEF Occupied
    <3>2. Occupied \subseteq Slots /\ Slots \subseteq Slots'
      BY <2>3, <2>5 DEF Occupied
    <3> QED
      BY <2>3, <3>1, <3>2
  <2>10. size \in Slots' /\ size \notin Slots
    BY <2>3, <2>5
  <2>11. G \subseteq FreeSlots'
    <3>1. G \subseteq Slots /\ G \cap Occupied = {}
      BY <1>0 DEF FreeSlots
    <3>2. Slots \subseteq Slots'
      BY <2>3, <2>5
    <3>3. size \notin G
      BY <2>10, <3>1
    <3> QED
      BY <2>9, <3>1, <3>2, <3>3 DEF FreeSlots
  <2> QED
    BY <2>1, <2>8, <2>9, <2>10, <2>11
<1> QED
  BY <1>1, <1>2

(* deleteNode of a node it can see frees exactly that slot.                 *)
LEMMA DeleteNodeFrees ==
  ASSUME PoolTypeOK, NEW x \in Slots, ExistsNode(x), DeleteNode(x)
  PROVE  /\ PoolTypeOK'
         /\ x \in Occupied
         /\ Occupied' = Occupied \ {x}
         /\ FreeSlots' = FreeSlots \cup {x}
<1>1. /\ size' = size
      /\ occupied' = [occupied EXCEPT ![x] = FALSE]
      /\ next_free' = [next_free EXCEPT ![x] = first_free]
      /\ first_free' = x
      /\ maximum_index' = IF maximum_index = x THEN maximum_index - 1
                                               ELSE maximum_index
      /\ nodes' = nodes - 1
  BY DEF DeleteNode, ReleaseSlot
<1>2. x < nodes /\ x \in Occupied
  BY DEF ExistsNode, Occupied
<1>3. PoolTypeOK'
  BY <1>1, <1>2 DEF PoolTypeOK, Slots, NoSlot
<1>4. Occupied' = Occupied \ {x}
  BY <1>1 DEF Occupied, Slots, PoolTypeOK
<1> QED
  BY <1>1, <1>2, <1>3, <1>4 DEF FreeSlots, Slots, Occupied
-----------------------------------------------------------------------------
(* newNode takes the head off the free list, or, when the list was empty,   *)
(* starts a new one over the upper half of the grown pool.                  *)
LEMMA NewNodeFreeList ==
  ASSUME NEW G, LeakyPool(G), NewNode
  PROVE  LeakyPool(G)'
<1>0. PoolTypeOK /\ G \subseteq FreeSlots
  BY DEF LeakyPool
<1>1. PoolTypeOK' /\ G \subseteq FreeSlots'
  BY NewNodeOccupies
<1>2. CASE first_free # NoSlot
  <2>1. PICK n \in 0 .. size : \E fl \in [1 .. n -> Waiting(G)] :
           /\ FollowsFreeList(n, fl)
           /\ \A j, k \in 1 .. n : fl[j] = fl[k] => j = k
           /\ \A i \in Waiting(G) : \E k \in 1 .. n : fl[k] = i
    BY DEF LeakyPool, FreeListBut
  <2>2. PICK fl \in [1 .. n -> Waiting(G)] :
           /\ FollowsFreeList(n, fl)
           /\ \A j, k \in 1 .. n : fl[j] = fl[k] => j = k
           /\ \A i \in Waiting(G) : \E k \in 1 .. n : fl[k] = i
    BY <2>1
  <2>3. n \in Nat \ {0} /\ fl[1] = first_free
    BY <1>2, <2>2 DEF FollowsFreeList
  <2> DEFINE gl == [k \in 1 .. n - 1 |-> fl[k + 1]]
  <2>4. size' = size /\ next_free' = next_free /\ first_free' = next_free[fl[1]]
    BY <1>2, <2>3 DEF NewNode, TakeSlot, RaisedMaximum, NewIndex
  <2>5. Waiting(G)' = Waiting(G) \ {fl[1]}
    BY <1>2, <2>3, <2>4, NewNodeOccupies DEF Waiting, FreeSlots, Slots, NewIndex
  <2>6. gl \in [1 .. n - 1 -> Waiting(G)']
    <3>1. ASSUME NEW k \in 1 .. n - 1
          PROVE  fl[k + 1] \in Waiting(G) /\ fl[k + 1] # fl[1]
      BY <2>2, <2>3
    <3> QED
      BY <2>5, <3>1
  <2>7. FollowsFreeList(n - 1, gl)'
    <3>1. next_free[fl[1]] = IF n - 1 = 0 THEN NoSlot ELSE gl[1]
      <4>1. next_free[fl[1]] = IF 1 = n THEN NoSlot ELSE fl[1 + 1]
        <5>1. 1 \in 1 .. n
          BY <2>3
        <5> QED
          BY <2>2, <5>1 DEF FollowsFreeList
      <4> QED
        BY <2>3, <4>1
    <3>2. ASSUME NEW k \in 1 .. n - 1
          PROVE  next_free[gl[k]] = IF k = n - 1 THEN NoSlot ELSE gl[k + 1]
      <4>1. k + 1 \in 1 .. n /\ gl[k] = fl[k + 1]
        BY <2>3
      <4>2. next_free[fl[k + 1]] = IF k + 1 = n THEN NoSlot ELSE fl[k + 1 + 1]
        BY <2>2, <4>1 DEF FollowsFreeList
      <4>3. k # n - 1 => gl[k + 1] = fl[k + 1 + 1]
        BY <2>3
      <4> QED
        BY <2>3, <4>1, <4>2, <4>3
    <3> QED
      BY <2>4, <3>1, <3>2 DEF FollowsFreeList
  <2>8. ASSUME NEW j \in 1 .. n - 1, NEW k \in 1 .. n - 1, gl[j] = gl[k]
        PROVE  j = k
    BY <2>2, <2>3, <2>8
  <2>9. ASSUME NEW i \in Waiting(G)' PROVE \E k \in 1 .. n - 1 : gl[k] = i
    <3>1. PICK k \in 1 .. n : fl[k] = i
      BY <2>2, <2>5
    <3>2. k # 1
      BY <2>5, <3>1
    <3>3. k - 1 \in 1 .. n - 1 /\ gl[k - 1] = i
      BY <2>3, <3>1, <3>2
    <3> QED
      BY <3>3
  <2>10. n - 1 \in 0 .. size'
    BY <1>0, <2>3, <2>4 DEF PoolTypeOK
  <2>11. FreeListBut(G)'
    <3> HIDE DEF gl
    <3> QED
      BY <2>6, <2>7, <2>8, <2>9, <2>10 DEF FreeListBut
  <2> QED
    BY <1>1, <2>11 DEF LeakyPool
<1>3. CASE first_free = NoSlot
  <2>0. PICK m \in Nat \ {0} : m = size  \* a rigid name for the old size
    BY <1>0 DEF PoolTypeOK
  <2> DEFINE gl == [k \in 1 .. m - 1 |-> m + k]
  <2>1. /\ size' = 2 * m
        /\ next_free' = GrownNextFree
        /\ first_free' = GrownNextFree[m]
        /\ Slots' = 0 .. 2 * m - 1
    BY <1>3, <2>0 DEF NewNode, TakeSlot, RaisedMaximum, Slots, NewIndex
  <2>2. Waiting(G)' = m + 1 .. 2 * m - 1
    <3>1. Occupied' = Occupied \cup {m} /\ Occupied \cup G = 0 .. m - 1
      BY <1>3, <2>0, NewNodeOccupies, FreeListHead DEF NewIndex, Slots
    <3>2. Waiting(G)' = (0 .. 2 * m - 1) \ ((0 .. m - 1) \cup {m})
      BY <2>1, <3>1 DEF Waiting, FreeSlots
    <3> QED
      BY <2>0, <3>2
  <2>3. gl \in [1 .. m - 1 -> Waiting(G)'] /\ m - 1 \in 0 .. size'
    BY <2>1, <2>2
  <2>4. FollowsFreeList(m - 1, gl)'
    <3>1. \A i \in m .. 2 * m - 1 :
             GrownNextFree[i] = IF i = 2 * m - 1 THEN NoSlot ELSE i + 1
      BY <2>0 DEF GrownNextFree
    <3>2. first_free' = IF m - 1 = 0 THEN NoSlot ELSE gl[1]
      BY <2>1, <3>1
    <3>3. ASSUME NEW k \in 1 .. m - 1
          PROVE  next_free'[gl[k]] = IF k = m - 1 THEN NoSlot ELSE gl[k + 1]
      BY <2>1, <3>1
    <3> QED
      BY <3>2, <3>3 DEF FollowsFreeList
  <2>5. ASSUME NEW i \in Waiting(G)' PROVE \E k \in 1 .. m - 1 : gl[k] = i
    <3>1. i - m \in 1 .. m - 1 /\ gl[i - m] = i
      BY <2>2
    <3> QED
      BY <3>1
  <2>6. ASSUME NEW j \in 1 .. m - 1, NEW k \in 1 .. m - 1, gl[j] = gl[k]
        PROVE  j = k
    BY <2>6
  <2>7. FreeListBut(G)'
    <3> HIDE DEF gl
    <3> QED
      BY <2>3, <2>4, <2>5, <2>6 DEF FreeListBut
  <2> QED
    BY <1>1, <2>7 DEF LeakyPool
<1> QED
  BY <1>2, <1>3

(* deleteNode puts the freed slot in front of the free list.                *)
LEMMA DeleteNodeFreeList ==
  ASSUME NEW G, LeakyPool(G), NEW x \in Slots, ExistsNode(x), DeleteNode(x)
  PROVE  LeakyPool(G)'
<1>0. PICK n \in 0 .. size : \E fl \in [1 .. n -> Waiting(G)] :
         /\ FollowsFreeList(n, fl)
         /\ \A j, k \in 1 .. n : fl[j] = fl[k] => j = k
         /\ \A i \in Waiting(G) : \E k \in 1 .. n : fl[k] = i
  BY DEF LeakyPool, FreeListBut
<1>1. PICK fl \in [1 .. n -> Waiting(G)] :
         /\ FollowsFreeList(n, fl)
         /\ \A j, k \in 1 .. n : fl[j] = fl[k] => j = k
         /\ \A i \in Waiting(G) : \E k \in 1 .. n : fl[k] = i
  BY <1>0
<1> DEFINE gl == [k \in 1 .. n + 1 |-> IF k = 1 THEN x ELSE fl[k - 1]]
<1>2. /\ size' = size
      /\ next_free' = [next_free EXCEPT ![x] = first_free]
      /\ first_free' = x
  BY DEF DeleteNode, ReleaseSlot
<1>3. PoolTypeOK /\ G \subseteq FreeSlots
  BY DEF LeakyPool
<1>4. /\ x \notin FreeSlots /\ Slots' = Slots /\ PoolTypeOK' /\ G \subseteq FreeSlots'
      /\ x \notin Waiting(G) /\ Waiting(G)' = Waiting(G) \cup {x}
  BY <1>2, <1>3, DeleteNodeFrees DEF Waiting, FreeSlots, Slots
<1>5. gl \in [1 .. n + 1 -> Waiting(G)']
  BY <1>4
<1>6. ASSUME NEW j \in 1 .. n + 1, NEW k \in 1 .. n + 1, gl[j] = gl[k]
      PROVE  j = k
  BY <1>1, <1>4, <1>6
<1>7. n + 1 \in 0 .. size'
  <2>1. IsFiniteSet(Slots) /\ Cardinality(Slots) = size
    BY <1>3, FS_Interval DEF Slots, PoolTypeOK
  <2>2. gl \in Injection(1 .. n + 1, Slots)
    <3>1. Waiting(G)' \subseteq Slots
      BY <1>4 DEF Waiting, FreeSlots
    <3> HIDE DEF gl
    <3>2. gl \in [1 .. n + 1 -> Slots]
      BY <1>5, <3>1
    <3> QED
      BY <1>6, <3>2 DEF Injection, IsInjective
  <2>3. Cardinality(1 .. n + 1) = n + 1
    BY FS_Interval
  <2>4. n + 1 <= size
    BY <2>1, <2>2, <2>3, FS_Injection
  <2> QED
    BY <1>2, <2>4
<1>8. FollowsFreeList(n + 1, gl)'
  <2>1. first_free = IF n = 0 THEN NoSlot ELSE fl[1]
    BY <1>1 DEF FollowsFreeList
  <2>2. next_free'[gl[1]] = IF 1 = n + 1 THEN NoSlot ELSE gl[1 + 1]
    BY <1>2, <1>3, <2>1 DEF PoolTypeOK
  <2>3. ASSUME NEW k \in 2 .. n + 1
        PROVE  next_free'[gl[k]] = IF k = n + 1 THEN NoSlot ELSE gl[k + 1]
    <3>1. k - 1 \in 1 .. n /\ gl[k] = fl[k - 1] /\ fl[k - 1] # x
      BY <1>4
    <3>2. next_free'[gl[k]] = next_free[fl[k - 1]]
      BY <1>2, <1>3, <1>4, <3>1 DEF PoolTypeOK, Waiting, FreeSlots
    <3> QED
      BY <1>1, <3>1, <3>2 DEF FollowsFreeList
  <2>4. \A k \in 1 .. n + 1 : k = 1 \/ k \in 2 .. n + 1
    OBVIOUS
  <2>5. first_free' = IF n + 1 = 0 THEN NoSlot ELSE gl[1]
    BY <1>2
  <2>6. \A k \in 1 .. n + 1 :
           next_free'[gl[k]] = IF k = n + 1 THEN NoSlot ELSE gl[k + 1]
    BY <2>2, <2>3, <2>4
  <2> HIDE DEF gl
  <2> QED
    BY <2>5, <2>6 DEF FollowsFreeList
<1>9. ASSUME NEW i \in Waiting(G)' PROVE \E k \in 1 .. n + 1 : gl[k] = i
  <2>1. CASE i = x
    BY <2>1
  <2>2. CASE i \in Waiting(G)
    <3>1. PICK k \in 1 .. n : fl[k] = i
      BY <1>1, <2>2
    <3>2. k + 1 \in 1 .. n + 1 /\ gl[k + 1] = i
      BY <3>1
    <3> QED
      BY <3>2
  <2> QED
    BY <1>4, <2>1, <2>2
<1>10. FreeListBut(G)'
  <2> HIDE DEF gl
  <2> QED
    BY <1>5, <1>6, <1>7, <1>8, <1>9 DEF FreeListBut
<1> QED
  BY <1>4, <1>10 DEF LeakyPool

(* A step that leaves the pool alone loses no slot of it.                   *)
LEMMA LeakyUnchanged ==
  ASSUME NEW G, LeakyPool(G), UNCHANGED poolVars
  PROVE  LeakyPool(G)'
<1>1. /\ size' = size /\ occupied' = occupied /\ next_free' = next_free
      /\ first_free' = first_free /\ maximum_index' = maximum_index
      /\ nodes' = nodes
  BY DEF poolVars
<1>2. Slots' = Slots
  BY <1>1 DEF Slots
<1>3. FreeSlots' = FreeSlots
  BY <1>1, <1>2 DEF FreeSlots, Occupied
<1>4. FreeListBut(G)'
  <2>1. PICK n \in 0 .. size : \E fl \in [1 .. n -> Waiting(G)] :
           /\ FollowsFreeList(n, fl)
           /\ \A j, k \in 1 .. n : fl[j] = fl[k] => j = k
           /\ \A i \in Waiting(G) : \E k \in 1 .. n : fl[k] = i
    BY DEF LeakyPool, FreeListBut
  <2>2. PICK fl \in [1 .. n -> Waiting(G)] :
           /\ FollowsFreeList(n, fl)
           /\ \A j, k \in 1 .. n : fl[j] = fl[k] => j = k
           /\ \A i \in Waiting(G) : \E k \in 1 .. n : fl[k] = i
    BY <2>1
  <2>3. FollowsFreeList(n, fl)'
    BY <1>1, <2>2 DEF FollowsFreeList
  <2>4. Waiting(G)' = Waiting(G)
    BY <1>3 DEF Waiting
  <2> QED
    BY <1>1, <2>2, <2>3, <2>4 DEF FreeListBut
<1> QED
  BY <1>1, <1>2, <1>3, <1>4 DEF LeakyPool, PoolTypeOK

(* newNode, deleteNode, seen or not, and leaving the pool alone: no slot    *)
(* is lost beyond those that were.                                          *)
LEMMA LeakyPoolStep ==
  ASSUME NEW G, LeakyPool(G),
         NewNode \/ (\E x \in Slots : DeleteNode(x)) \/ UNCHANGED poolVars
  PROVE  LeakyPool(G)'
<1>1. ASSUME NEW x \in Slots, DeleteNode(x) PROVE LeakyPool(G)'
  <2>1. CASE ExistsNode(x)
    BY <1>1, <2>1, DeleteNodeFreeList
  <2>2. CASE ~ExistsNode(x)
    BY <1>1, <2>2, LeakyUnchanged DEF DeleteNode
  <2> QED
    BY <2>1, <2>2
<1> QED
  BY <1>1, NewNodeFreeList, LeakyUnchanged
-----------------------------------------------------------------------------
(* Each operation preserves the pool invariant; modules that build on the   *)
(* pool cite these two lemmas.                                              *)
LEMMA PoolUnchangedInv ==
  ASSUME PoolInv, UNCHANGED poolVars
  PROVE  PoolInv'
<1>1. /\ size' = size /\ occupied' = occupied
      /\ maximum_index' = maximum_index /\ nodes' = nodes
  BY DEF poolVars
<1>2. Slots' = Slots
  BY <1>1 DEF Slots
<1>3. Occupied' = Occupied
  BY <1>1, <1>2 DEF Occupied
<1>4. LeakyPool({})'
  BY LeakyUnchanged, LeakyNowhere DEF PoolInv
<1>5. PoolTypeOK' /\ FreeListExact'
  BY <1>4, LeakyNowherePrimed
<1> QED
  BY <1>1, <1>3, <1>5 DEF PoolInv, CountExact, MaximumIndexBounds

(* newNode, with or without the doubling of the pool, keeps the pool invariant. *)
LEMMA NewNodeInv ==
  ASSUME PoolInv, NewNode
  PROVE  PoolInv'
<1>0. LeakyPool({})
  BY LeakyNowhere DEF PoolInv
<1>1. /\ PoolTypeOK'
      /\ NewIndex \in Slots' \ Occupied
      /\ Occupied' = Occupied \cup {NewIndex}
  BY <1>0, NewNodeOccupies
<1>2. FreeListExact'
  BY <1>0, NewNodeFreeList, LeakyNowherePrimed
<1>3. nodes' = nodes + 1
  BY DEF NewNode, TakeSlot, RaisedMaximum, NewIndex
<1>4. CountExact'
  <2>1. IsFiniteSet(Occupied) /\ NewIndex \notin Occupied
    BY <1>1, OccupiedFinite DEF PoolInv
  <2>2. Cardinality(Occupied \cup {NewIndex}) = Cardinality(Occupied) + 1
    BY <2>1, FS_AddElement
  <2> QED
    BY <1>1, <1>3, <2>2 DEF PoolInv, CountExact
<1>5. MaximumIndexBounds'
  <2>1. /\ maximum_index' >= maximum_index
        /\ maximum_index' >= NewIndex
    <3>1. maximum_index' = IF NewIndex > maximum_index THEN NewIndex
                                                       ELSE maximum_index
      BY DEF NewNode, TakeSlot, RaisedMaximum, NewIndex
    <3>2. NewIndex \in Int /\ maximum_index \in Int
      BY <1>1 DEF PoolInv, PoolTypeOK, Slots
    <3> QED
      BY <3>1, <3>2
  <2>2. maximum_index \in Int /\ maximum_index' \in Int /\ Occupied \subseteq Int
    BY <1>1 DEF PoolInv, PoolTypeOK, Slots, Occupied
  <2> QED
    BY <1>1, <2>1, <2>2 DEF PoolInv, MaximumIndexBounds
<1> QED
  BY <1>1, <1>2, <1>4, <1>5 DEF PoolInv

(* deleteNode keeps the pool invariant, also when it returns early. *)
LEMMA DeleteNodeInv ==
  ASSUME PoolInv, NEW x \in Slots, DeleteNode(x)
  PROVE  PoolInv'
<1>1. CASE ExistsNode(x)
  <2>1. /\ PoolTypeOK'
        /\ x \in Occupied
        /\ Occupied' = Occupied \ {x}
    BY <1>1, DeleteNodeFrees DEF PoolInv
  <2>2. FreeListExact'
    BY <1>1, DeleteNodeFreeList, LeakyNowhere, LeakyNowherePrimed DEF PoolInv
  <2>3. CountExact'
    <3>1. Cardinality(Occupied \ {x}) = Cardinality(Occupied) - 1
      BY <2>1, OccupiedFinite, FS_RemoveElement DEF PoolInv
    <3> QED
      BY <1>1, <2>1, <3>1 DEF PoolInv, CountExact, DeleteNode, ReleaseSlot
  <2>4. MaximumIndexBounds'
    <3>1. Occupied \subseteq Int /\ maximum_index \in Int
      BY DEF PoolInv, PoolTypeOK, Slots, Occupied
    <3>2. maximum_index' = IF maximum_index = x THEN maximum_index - 1
                                                ELSE maximum_index
      BY <1>1 DEF DeleteNode, ReleaseSlot
    <3> QED
      BY <2>1, <3>1, <3>2 DEF PoolInv, MaximumIndexBounds
  <2> QED
    BY <2>1, <2>2, <2>3, <2>4 DEF PoolInv
<1>2. CASE ~ExistsNode(x)
  BY <1>2, PoolUnchangedInv DEF DeleteNode
<1> QED
  BY <1>1, <1>2

(* The invariant of the pool on its own.                                    *)
THEOREM PoolInvariant == PoolSpec => []PoolInv
<1>1. PoolInit => PoolInv
  BY PoolInitInv
<1>2. PoolInv /\ [PoolNext]_poolVars => PoolInv'
  <2> SUFFICES ASSUME PoolInv, [PoolNext]_poolVars PROVE PoolInv'
    OBVIOUS
  <2>1. CASE NewNode
    BY <2>1, NewNodeInv
  <2>2. ASSUME NEW x \in Occupied, DeleteNode(x) PROVE PoolInv'
    BY <2>2, DeleteNodeInv DEF Occupied
  <2>3. CASE UNCHANGED poolVars
    BY <2>3, PoolUnchangedInv
  <2> QED
    BY <2>1, <2>2, <2>3 DEF PoolNext
<1> QED
  BY <1>1, <1>2, PTL DEF PoolSpec

(* Type correctness of the pool: every index stays inside the arrays.       *)
THEOREM PoolTyping == PoolSpec => []PoolTypeOK
<1>1. PoolInv => PoolTypeOK
  BY DEF PoolInv
<1> QED
  BY <1>1, PoolInvariant, PTL

(* The free list is exactly the set of unoccupied slots, each listed once.  *)
THEOREM PoolFreeListExact == PoolSpec => []FreeListExact
<1>1. PoolInv => FreeListExact
  BY DEF PoolInv
<1> QED
  BY <1>1, PoolInvariant, PTL

(* The node counter is the number of occupied slots.                        *)
THEOREM PoolCountExact == PoolSpec => []CountExact
<1>1. PoolInv => CountExact
  BY DEF PoolInv
<1> QED
  BY <1>1, PoolInvariant, PTL

(* Loops up to maximum_index reach every node.                              *)
THEOREM PoolMaximumIndexBounds == PoolSpec => []MaximumIndexBounds
<1>1. PoolInv => MaximumIndexBounds
  BY DEF PoolInv
<1> QED
  BY <1>1, PoolInvariant, PTL

(* The pool is doubled only when every slot of it is in use.                *)
THEOREM PoolGrowsOnlyWhenFull == PoolSpec => GrowsOnlyWhenFull
<1>1. PoolInv /\ [PoolNext]_poolVars
        => [size' # size => Occupied = Slots]_poolVars
  <2> SUFFICES ASSUME PoolInv, PoolNext, size' # size PROVE Occupied = Slots
    BY DEF poolVars
  <2>1. CASE NewNode
    BY <2>1, NewNodeOccupies, LeakyNowhere DEF PoolInv
  <2>2. ASSUME NEW x \in Occupied, DeleteNode(x) PROVE FALSE
    BY <2>2 DEF DeleteNode, poolVars
  <2> QED
    BY <2>1, <2>2 DEF PoolNext
<1> QED
  BY <1>1, PoolInvariant, PTL DEF PoolSpec, GrowsOnlyWhenFull

(* The pool implements the allocator: every step of the pool hands out one  *)
(* number that was not in use, gives back one that was, or changes nothing  *)
(* its clients can see.                                                     *)
THEOREM PoolImplementsAllocator == PoolSpec => ImplementsAllocator
<1>1. PoolInit => Allocator!AInit
  <2>1. PoolInit => Occupied = {}
    BY DEF PoolInit, Occupied
  <2> QED
    BY <2>1 DEF PoolInit, Allocator!AInit
<1>2. PoolInv /\ [PoolNext]_poolVars
        => [Allocator!Allocate \/ Allocator!Release]_<<Occupied, nodes>>
  <2> SUFFICES ASSUME PoolInv, [PoolNext]_poolVars
               PROVE  [Allocator!Allocate \/ Allocator!Release]_<<Occupied, nodes>>
    OBVIOUS
  <2>1. CASE NewNode
    <3>1. NewIndex \notin Occupied /\ Occupied' = Occupied \cup {NewIndex}
      BY <2>1, NewNodeOccupies, LeakyNowhere DEF PoolInv
    <3>2. nodes' = nodes + 1
      BY <2>1 DEF NewNode, TakeSlot, RaisedMaximum, NewIndex
    <3> QED
      BY <3>1, <3>2 DEF Allocator!Allocate
  <2>2. ASSUME NEW x \in Occupied, DeleteNode(x), ExistsNode(x)
        PROVE  Allocator!Release
    <3>1. Occupied' = Occupied \ {x}
      BY <2>2, DeleteNodeFrees DEF PoolInv, Occupied
    <3>2. nodes' = nodes - 1
      BY <2>2 DEF DeleteNode, ReleaseSlot
    <3> QED
      BY <3>1, <3>2 DEF Allocator!Release
  <2>3. CASE UNCHANGED poolVars
    BY <2>3 DEF poolVars, Occupied, Slots
  <2>4. ASSUME NEW x \in Occupied, DeleteNode(x), ~ExistsNode(x)
        PROVE  UNCHANGED poolVars
    BY <2>4 DEF DeleteNode
  <2> QED
    BY <2>1, <2>2, <2>3, <2>4 DEF PoolNext, poolVars, Occupied, Slots
<1> QED
  BY <1>1, <1>2, PoolInvariant, PTL DEF PoolSpec, ImplementsAllocator, Allocator!ASpec
-----------------------------------------------------------------------------
Edge(S) == [nr : S, age : Nat]
Node(S) == [edges : Seq(Edge(S)), edgesCount : Int]

Entries(node) == {node.edges[k] : k \in 1 .. Len(node.edges)}

Others(node, n) == {e \in Entries(node) : e.nr # n}

Distinct(node) ==
    \A j, k \in 1 .. Len(node.edges) : node.edges[j].nr = node.edges[k].nr => j = k

(* By how much the counter of a node exceeds the number of its edges.       *)
Excess(node) == node.edgesCount - Len(node.edges)

(* Every entry of every slot has its reverse, at a node; occ is occupied.   *)
(* The counters are too high by some number of D: in a graph that was never *)
(* in a file D is {0}.                                                      *)
Sound(h, S, occ, D) ==
    /\ h \in [S -> Node(S)]
    /\ \A a \in S :
          /\ Distinct(h[a])
          /\ \A e \in Entries(h[a]) : /\ e.nr \in occ \ {a}
                                      /\ [nr |-> a, age |-> e.age] \in Entries(h[e.nr])
    /\ \A a \in occ : Excess(h[a]) \in D

-----------------------------------------------------------------------------
(* One side of addUDEdge.                                                   *)
LEMMA NodeLinked ==
  ASSUME NEW S, NEW node \in Node(S), NEW n \in S,
         Distinct(node), \A e \in Entries(node) : e.nr # n
  PROVE  /\ Linked(node, n) \in Node(S)
         /\ Distinct(Linked(node, n))
         /\ Entries(Linked(node, n)) = Entries(node) \cup {NewEdge(n)}
         /\ Excess(Linked(node, n)) = Excess(node)
<1> DEFINE v == node.edges
           w == Append(v, NewEdge(n))
           new == Linked(node, n)
<1>1. v \in Seq(Edge(S)) /\ node.edgesCount \in Int /\ Len(v) \in Nat
  BY DEF Node
<1>2. NewEdge(n) \in Edge(S) /\ NewEdge(n).nr = n
  BY DEF NewEdge, Edge
<1>3. new.edges = w /\ new.edgesCount = node.edgesCount + 1 /\ new \in Node(S)
  BY <1>1, <1>2 DEF Linked, Node
<1>4. /\ Len(w) = Len(v) + 1 /\ w[Len(v) + 1] = NewEdge(n)
      /\ \A j \in 1 .. Len(v) : w[j] = v[j]
  BY <1>1, <1>2
<1>5. \A j \in 1 .. Len(v) : v[j].nr # n
  BY DEF Entries
<1> HIDE DEF w, new
<1>6. Distinct(new)
  <2> SUFFICES ASSUME NEW i \in 1 .. Len(v) + 1, NEW j \in 1 .. Len(v) + 1,
                      w[i].nr = w[j].nr
               PROVE  i = j
    BY <1>1, <1>3, <1>4 DEF Distinct
  <2>1. CASE i \in 1 .. Len(v) /\ j \in 1 .. Len(v)
    BY <1>4, <2>1 DEF Distinct
  <2>2. CASE i = Len(v) + 1 \/ j = Len(v) + 1
    <3>1. i \in 1 .. Len(v) \/ i = Len(v) + 1
      BY <1>1
    <3>2. j \in 1 .. Len(v) \/ j = Len(v) + 1
      BY <1>1
    <3> QED
      BY <1>2, <1>4, <1>5, <2>2, <3>1, <3>2
  <2> QED
    BY <1>1, <2>1, <2>2
<1>7. Entries(new) = Entries(node) \cup {NewEdge(n)}
  <2>1. \A i \in 1 .. Len(v) + 1 : i \in 1 .. Len(v) \/ i = Len(v) + 1
    BY <1>1
  <2>2. ASSUME NEW e \in Entries(new) PROVE e \in Entries(node) \cup {NewEdge(n)}
    <3>1. PICK i \in 1 .. Len(v) + 1 : e = w[i]
      BY <1>3, <1>4 DEF Entries
    <3> QED
      BY <1>4, <2>1, <3>1 DEF Entries
  <2>3. ASSUME NEW e \in Entries(node) PROVE e \in Entries(new)
    <3>1. PICK i \in 1 .. Len(v) : e = v[i]
      BY DEF Entries
    <3>2. i \in 1 .. Len(w) /\ e = w[i]
      BY <1>1, <1>4, <3>1
    <3> QED
      BY <1>3, <3>2 DEF Entries
  <2>4. NewEdge(n) \in Entries(new)
    <3>1. Len(v) + 1 \in 1 .. Len(w)
      BY <1>1, <1>4
    <3> QED
      BY <1>3, <1>4, <3>1 DEF Entries
  <2> QED
    BY <2>2, <2>3, <2>4
<1>8. Excess(new) = Excess(node)
  <2>1. Len(new.edges) = Len(node.edges) + 1 /\ Len(node.edges) \in Nat
    BY <1>1, <1>3, <1>4
  <2> HIDE DEF v
  <2>2. node.edgesCount \in Int /\ new.edgesCount = node.edgesCount + 1
    BY <1>1, <1>3
  <2> QED
    BY <2>1, <2>2 DEF Excess
<1> QED
  BY <1>3, <1>6, <1>7, <1>8 DEF new

(* One side of removeUDEdge.                                                *)
LEMMA NodeUnlinked ==
  ASSUME NEW S, NEW node \in Node(S), NEW n, Distinct(node),
         NEW d \in Entries(node), d.nr = n
  PROVE  /\ Unlinked(node, n) \in Node(S)
         /\ Distinct(Unlinked(node, n))
         /\ Entries(Unlinked(node, n)) = Others(node, n)
         /\ Excess(Unlinked(node, n)) = Excess(node)
<1> DEFINE v == node.edges
           new == Unlinked(node, n)
<1>1. v \in Seq(Edge(S)) /\ node.edgesCount \in Int /\ Len(v) \in Nat
  BY DEF Node
<1>2. PICK k \in 1 .. Len(v) : v[k].nr = n
  BY DEF Entries
<1>3. \A j \in 1 .. Len(v) : v[j].nr = n => j = k
  BY <1>2 DEF Distinct
<1>4. EdgeTo(v, n) = k
  <2>1. DOMAIN v = 1 .. Len(v)
    BY <1>1
  <2> QED
    BY <1>1, <1>2, <1>3, <2>1 DEF EdgeTo
<1> DEFINE w == RemoveAt(v, k)
<1>5. /\ w \in Seq(Edge(S)) /\ Len(w) = Len(v) - 1
      /\ \A j \in 1 .. Len(v) - 1 : w[j] = IF j < k THEN v[j] ELSE v[j + 1]
  BY <1>1, RemoveAtFacts
<1>6. new.edges = w /\ new.edgesCount = node.edgesCount - 1 /\ new \in Node(S)
  BY <1>1, <1>4, <1>5 DEF Unlinked, Node
<1> HIDE DEF w, new
<1>7. Distinct(new)
  <2> SUFFICES ASSUME NEW i \in 1 .. Len(v) - 1, NEW j \in 1 .. Len(v) - 1,
                      w[i].nr = w[j].nr
               PROVE  i = j
    BY <1>1, <1>5, <1>6 DEF Distinct
  <2> DEFINE at(x) == IF x < k THEN x ELSE x + 1
  <2>1. /\ at(i) \in 1 .. Len(v) /\ at(j) \in 1 .. Len(v)
        /\ w[i] = v[at(i)] /\ w[j] = v[at(j)]
    BY <1>1, <1>5
  <2>2. at(i) = at(j)
    BY <2>1 DEF Distinct
  <2> QED
    BY <1>1, <2>2
<1>8. Entries(new) = Others(node, n)
  <2>1. ASSUME NEW e \in Entries(new) PROVE e \in Entries(node) /\ e.nr # n
    <3>1. PICK j \in 1 .. Len(v) - 1 : e = w[j]
      BY <1>1, <1>5, <1>6 DEF Entries
    <3>2. PICK i \in 1 .. Len(v) : e = v[i] /\ i # k
      BY <1>1, <1>5, <3>1
    <3> QED
      BY <1>3, <3>2 DEF Entries
  <2>2. ASSUME NEW e \in Entries(node), e.nr # n PROVE e \in Entries(new)
    <3>1. PICK i \in 1 .. Len(v) : e = v[i]
      BY DEF Entries
    <3>2. i # k
      BY <1>2, <2>2, <3>1
    <3>3. PICK j \in 1 .. Len(v) - 1 : e = w[j]
      <4>1. CASE i < k
        BY <1>1, <1>5, <3>1, <4>1
      <4>2. CASE i > k
        <5>1. i - 1 \in 1 .. Len(v) - 1 /\ ~(i - 1 < k) /\ (i - 1) + 1 = i
          BY <1>1, <4>2
        <5> QED
          BY <1>5, <3>1, <5>1
      <4> QED
        BY <1>1, <3>2, <4>1, <4>2
    <3> QED
      BY <1>5, <1>6, <3>3 DEF Entries
  <2> QED
    BY <2>1, <2>2 DEF Others
<1>9. Excess(new) = Excess(node)
  BY <1>1, <1>5, <1>6 DEF Excess
<1> QED
  BY <1>6, <1>7, <1>8, <1>9 DEF new

(* One side of the aging of an edge: entry k gives way to e, of the same    *)
(* end.                                                                     *)
Replaced(node, k, e) == [node EXCEPT !.edges[k] = e]

(* Replacing the edge at one place by an edge to the same node changes that entry only. *)
LEMMA NodeAged ==
  ASSUME NEW S, NEW node \in Node(S), NEW k \in 1 .. Len(node.edges),
         NEW e \in Edge(S), e.nr = node.edges[k].nr, Distinct(node)
  PROVE  /\ Replaced(node, k, e) \in Node(S)
         /\ Distinct(Replaced(node, k, e))
         /\ Entries(Replaced(node, k, e)) = Others(node, e.nr) \cup {e}
         /\ Excess(Replaced(node, k, e)) = Excess(node)
         /\ Replaced(node, k, e).edges[k] = e
<1> DEFINE v == node.edges
           w == [v EXCEPT ![k] = e]
           new == Replaced(node, k, e)
<1>1. v \in Seq(Edge(S)) /\ node.edgesCount \in Int /\ Len(v) \in Nat
  BY DEF Node
<1>2. /\ w \in Seq(Edge(S)) /\ Len(w) = Len(v) /\ w[k] = e
      /\ \A j \in 1 .. Len(v) : w[j] = IF j = k THEN e ELSE v[j]
  BY <1>1
<1>3. new.edges = w /\ new.edgesCount = node.edgesCount /\ new \in Node(S)
  BY <1>1, <1>2 DEF Node, Replaced
<1> HIDE DEF w, new
<1>4. \A j \in 1 .. Len(v) : w[j].nr = v[j].nr
  BY <1>2
<1>5. Distinct(new)
  BY <1>2, <1>3, <1>4 DEF Distinct
<1>6. Entries(new) = Others(node, e.nr) \cup {e}
  <2>1. ASSUME NEW d \in Entries(new), d # e PROVE d \in Entries(node) /\ d.nr # e.nr
    <3>1. PICK j \in 1 .. Len(v) : d = w[j]
      BY <1>2, <1>3 DEF Entries
    <3>2. j # k /\ d = v[j]
      BY <1>2, <2>1, <3>1
    <3> QED
      BY <3>2 DEF Entries, Distinct
  <2>2. ASSUME NEW d \in Entries(node), d.nr # e.nr PROVE d \in Entries(new)
    <3>1. PICK j \in 1 .. Len(v) : d = v[j]
      BY DEF Entries
    <3>2. d = w[j]
      BY <1>2, <2>2, <3>1
    <3> QED
      BY <1>2, <1>3, <3>2 DEF Entries
  <2>3. e \in Entries(new)
    BY <1>1, <1>2, <1>3 DEF Entries
  <2> QED
    BY <2>1, <2>2, <2>3 DEF Others
<1>7. Excess(new) = Excess(node)
  BY <1>2, <1>3 DEF Excess
<1> QED
  BY <1>2, <1>3, <1>5, <1>6, <1>7 DEF new
-----------------------------------------------------------------------------
(* h2 is h with one edge more, with one edge less, with one edge of another *)
(* age.                                                                     *)
Joined(h2, h, S, a, b) ==
    /\ Entries(h2[a]) = Entries(h[a]) \cup {NewEdge(b)}
    /\ Entries(h2[b]) = Entries(h[b]) \cup {NewEdge(a)}
    /\ \A x \in S \ {a, b} : h2[x] = h[x]

Parted(h2, h, S, a, b) ==
    /\ Entries(h2[a]) = Others(h[a], b)
    /\ Entries(h2[b]) = Others(h[b], a)
    /\ \A x \in S \ {a, b} : h2[x] = h[x]

Altered(h2, h, S, a, b, now) ==
    /\ Entries(h2[a]) = Others(h[a], b) \cup {[nr |-> b, age |-> now]}
    /\ Entries(h2[b]) = Others(h[b], a) \cup {[nr |-> a, age |-> now]}
    /\ \A x \in S \ {a, b} : h2[x] = h[x]

(* Linking two nodes that are not linked.                                   *)
LEMMA LinkSound ==
  ASSUME NEW S, NEW occ \in SUBSET S, NEW D, NEW h, Sound(h, S, occ, D),
         NEW a \in occ, NEW b \in occ \ {a}, \A e \in Entries(h[a]) : e.nr # b
  PROVE  /\ Sound(AddUDEdge(h, a, b), S, occ, D)
         /\ Joined(AddUDEdge(h, a, b), h, S, a, b)
<1> DEFINE h2 == AddUDEdge(h, a, b)
<1>1. /\ h[a] \in Node(S) /\ Distinct(h[a])
      /\ h[b] \in Node(S) /\ Distinct(h[b])
      /\ a \in S /\ b \in S /\ a # b /\ h \in [S -> Node(S)]
  BY DEF Sound
<1>2. /\ h2 = [h EXCEPT ![a] = Linked(h[a], b), ![b] = Linked(h[b], a)]
      /\ h2[a] = Linked(h[a], b) /\ h2[b] = Linked(h[b], a)
      /\ \A x \in S \ {a, b} : h2[x] = h[x]
  BY <1>1 DEF AddUDEdge
<1> HIDE DEF h2
<1>3. ASSUME NEW e \in Entries(h[b]), e.nr = a PROVE FALSE
  <2>1. [nr |-> b, age |-> e.age] \in Entries(h[a])
    BY <1>1, <1>3 DEF Sound
  <2>2. [nr |-> b, age |-> e.age].nr = b
    OBVIOUS
  <2> QED
    BY <2>1, <2>2
<1>4. /\ h2[a] \in Node(S) /\ Distinct(h2[a])
      /\ Entries(h2[a]) = Entries(h[a]) \cup {NewEdge(b)}
      /\ Excess(h2[a]) = Excess(h[a])
  BY <1>1, <1>2, NodeLinked
<1>5. /\ h2[b] \in Node(S) /\ Distinct(h2[b])
      /\ Entries(h2[b]) = Entries(h[b]) \cup {NewEdge(a)}
      /\ Excess(h2[b]) = Excess(h[b])
  BY <1>1, <1>2, <1>3, NodeLinked
<1>6. h2 \in [S -> Node(S)]
  BY <1>1, <1>2, <1>4, <1>5
<1>7. \A x \in S : Entries(h[x]) \subseteq Entries(h2[x])
  BY <1>2, <1>4, <1>5
<1>8. ASSUME NEW x \in S, NEW e \in Entries(h2[x])
      PROVE  e.nr \in occ \ {x} /\ [nr |-> x, age |-> e.age] \in Entries(h2[e.nr])
  <2>1. CASE e \in Entries(h[x])
    BY <1>7, <2>1 DEF Sound
  <2>2. CASE x = a /\ e = NewEdge(b)
    BY <1>1, <1>5, <2>2 DEF NewEdge
  <2>3. CASE x = b /\ e = NewEdge(a)
    BY <1>1, <1>4, <2>3 DEF NewEdge
  <2> QED
    BY <1>2, <1>4, <1>5, <2>1, <2>2, <2>3
<1>9. \A x \in S : Distinct(h2[x])
  BY <1>2, <1>4, <1>5 DEF Sound
<1>10. ASSUME NEW x \in occ PROVE Excess(h2[x]) \in D
  <2>1. Excess(h2[a]) = Excess(h[a]) /\ Excess(h2[b]) = Excess(h[b])
    BY <1>4, <1>5
  <2> QED
    BY <1>2, <2>1 DEF Sound
<1> QED
  BY <1>2, <1>4, <1>5, <1>6, <1>8, <1>9, <1>10 DEF h2, Sound, Joined

(* Removing the edge between two linked nodes.                              *)
LEMMA UnlinkSound ==
  ASSUME NEW S, NEW occ \in SUBSET S, NEW D, NEW h, Sound(h, S, occ, D),
         NEW a \in S, NEW b, \E d \in Entries(h[a]) : d.nr = b
  PROVE  /\ Sound(RemoveUDEdge(h, a, b), S, occ, D)
         /\ Parted(RemoveUDEdge(h, a, b), h, S, a, b)
<1>0. PICK d \in Entries(h[a]) : d.nr = b
  OBVIOUS
<1> DEFINE h2 == RemoveUDEdge(h, a, b)
<1>1. /\ h[a] \in Node(S) /\ Distinct(h[a]) /\ h \in [S -> Node(S)]
      /\ b \in occ /\ b \in S /\ a # b
      /\ [nr |-> a, age |-> d.age] \in Entries(h[b])
  BY <1>0 DEF Sound
<1>2. h[b] \in Node(S) /\ Distinct(h[b])
  BY <1>1 DEF Sound
<1>3. /\ h2 = [h EXCEPT ![a] = Unlinked(h[a], b), ![b] = Unlinked(h[b], a)]
      /\ h2[a] = Unlinked(h[a], b) /\ h2[b] = Unlinked(h[b], a)
      /\ \A x \in S \ {a, b} : h2[x] = h[x]
  BY <1>1 DEF RemoveUDEdge
<1> HIDE DEF h2
<1>4. /\ h2[a] \in Node(S) /\ Distinct(h2[a])
      /\ Entries(h2[a]) = Others(h[a], b)
      /\ Excess(h2[a]) = Excess(h[a])
  BY <1>1, <1>3, NodeUnlinked
<1>5. /\ h2[b] \in Node(S) /\ Distinct(h2[b])
      /\ Entries(h2[b]) = Others(h[b], a)
      /\ Excess(h2[b]) = Excess(h[b])
  <2>1. [nr |-> a, age |-> d.age].nr = a
    OBVIOUS
  <2> QED
    BY <1>1, <1>2, <1>3, <2>1, NodeUnlinked
<1>6. h2 \in [S -> Node(S)]
  BY <1>1, <1>3, <1>4, <1>5
<1>7. ASSUME NEW x \in S, NEW e \in Entries(h2[x])
      PROVE  e.nr \in occ \ {x} /\ [nr |-> x, age |-> e.age] \in Entries(h2[e.nr])
  <2>1. /\ e \in Entries(h[x])
        /\ x = a => e.nr # b
        /\ x = b => e.nr # a
    BY <1>3, <1>4, <1>5 DEF Others
  <2> DEFINE r == [nr |-> x, age |-> e.age]
  <2>2. e.nr \in occ \ {x} /\ r \in Entries(h[e.nr]) /\ r.nr = x
    BY <2>1 DEF Sound
  <2> HIDE DEF r
  <2>3. r \in Entries(h2[e.nr])
    <3>1. CASE e.nr = a
      BY <1>4, <2>1, <2>2, <3>1 DEF Others
    <3>2. CASE e.nr = b
      BY <1>5, <2>1, <2>2, <3>2 DEF Others
    <3>3. CASE e.nr \notin {a, b}
      BY <1>3, <2>2, <3>3
    <3> QED
      BY <3>1, <3>2, <3>3
  <2> QED
    BY <2>2, <2>3 DEF r
<1>8. \A x \in S : Distinct(h2[x])
  BY <1>3, <1>4, <1>5 DEF Sound
<1>9. ASSUME NEW x \in occ PROVE Excess(h2[x]) \in D
  <2>1. Excess(h2[a]) = Excess(h[a]) /\ Excess(h2[b]) = Excess(h[b])
    BY <1>4, <1>5
  <2> QED
    BY <1>3, <2>1 DEF Sound
<1> QED
  BY <1>3, <1>4, <1>5, <1>6, <1>7, <1>8, <1>9 DEF h2, Sound, Parted

(* The index edgeTo finds is the one of the entry it looks for.             *)
LEMMA EdgeToFacts ==
  ASSUME NEW S, NEW node \in Node(S), Distinct(node),
         NEW d \in Entries(node), NEW n, n = d.nr
  PROVE  EdgeTo(node.edges, n) \in 1 .. Len(node.edges) /\ node.edges[EdgeTo(node.edges, n)] = d
<1>1. DOMAIN node.edges = 1 .. Len(node.edges) /\ Len(node.edges) \in Nat
  BY DEF Node
<1>2. PICK k \in 1 .. Len(node.edges) : node.edges[k] = d
  BY DEF Entries
<1>3. \A j \in 1 .. Len(node.edges) : node.edges[j].nr = n => j = k
  BY <1>2 DEF Distinct
<1>4. EdgeTo(node.edges, n) = k
  BY <1>1, <1>2, <1>3 DEF EdgeTo
<1> QED
  BY <1>2, <1>4

(* Both sides of an edge become equally older (or as new).                  *)
BothAged(h, a, k, now) ==
    LET b   == h[a].edges[k].nr
        rev == EdgeTo(h[b].edges, a)
    IN  [h EXCEPT ![a].edges[k]   = [nr |-> b, age |-> now],
                  ![b].edges[rev] = [nr |-> a, age |-> now]]

(* Giving both directions of an edge a new age keeps the graph sound and alters nothing
   else. *)
LEMMA AgedSound ==
  ASSUME NEW S, NEW occ \in SUBSET S, NEW D, NEW h, Sound(h, S, occ, D),
         NEW a \in S, NEW k \in 1 .. Len(h[a].edges), NEW now \in Nat
  PROVE  /\ Sound(BothAged(h, a, k, now), S, occ, D)
         /\ BothAged(h, a, k, now)[a].edges[k] = [nr |-> h[a].edges[k].nr, age |-> now]
         /\ Altered(BothAged(h, a, k, now), h, S, a, h[a].edges[k].nr, now)
<1>0. PICK b : b = h[a].edges[k].nr
  OBVIOUS
<1> DEFINE old == h[a].edges[k]
           to_b == [nr |-> b, age |-> now]
           to_a == [nr |-> a, age |-> now]
           rev == EdgeTo(h[b].edges, a)
           h2 == BothAged(h, a, k, now)
<1>1. /\ h[a] \in Node(S) /\ Distinct(h[a]) /\ h \in [S -> Node(S)]
      /\ old \in Entries(h[a])
  <2>1. old \in Entries(h[a])
    BY DEF Entries
  <2> QED
    BY <2>1 DEF Sound
<1>2. b \in occ /\ b \in S /\ a # b /\ [nr |-> a, age |-> old.age] \in Entries(h[b])
  BY <1>0, <1>1 DEF Sound
<1> HIDE DEF old
<1>3. PICK rd \in Entries(h[b]) : rd.nr = a
  BY <1>2
<1>4. h[b] \in Node(S) /\ Distinct(h[b]) /\ a \in occ
  BY <1>2, <1>3 DEF Sound
<1>5. /\ rev \in 1 .. Len(h[b].edges) /\ h[b].edges[rev].nr = a
      /\ to_b \in Edge(S) /\ to_a \in Edge(S) /\ to_b.nr = b /\ to_a.nr = a
  <2>1. rev \in 1 .. Len(h[b].edges) /\ h[b].edges[rev] = rd
    BY <1>3, <1>4, EdgeToFacts
  <2>2. to_b \in Edge(S) /\ to_a \in Edge(S) /\ to_b.nr = b /\ to_a.nr = a
    BY <1>2, <1>4 DEF Edge
  <2> QED
    BY <1>3, <2>1, <2>2
<1> HIDE DEF to_b, to_a, rev
<1>6. /\ h2[a] = Replaced(h[a], k, to_b)
      /\ h2[b] = Replaced(h[b], rev, to_a)
      /\ \A x \in S \ {a, b} : h2[x] = h[x]
      /\ h2 = [h EXCEPT ![a] = h2[a], ![b] = h2[b]]
  BY <1>0, <1>1, <1>2 DEF to_b, to_a, rev, BothAged, Replaced
<1> HIDE DEF h2
<1>7. /\ h2[a] \in Node(S) /\ Distinct(h2[a])
      /\ Entries(h2[a]) = Others(h[a], b) \cup {to_b}
      /\ Excess(h2[a]) = Excess(h[a])
      /\ h2[a].edges[k] = to_b
  <2> DEFINE na == h[a]
  <2>1. /\ na \in Node(S) /\ Distinct(na) /\ k \in 1 .. Len(na.edges)
        /\ to_b \in Edge(S) /\ to_b.nr = na.edges[k].nr
    BY <1>0, <1>1, <1>5
  <2> HIDE DEF na
  <2>2. /\ Replaced(na, k, to_b) \in Node(S)
        /\ Distinct(Replaced(na, k, to_b))
        /\ Entries(Replaced(na, k, to_b)) = Others(na, to_b.nr) \cup {to_b}
        /\ Excess(Replaced(na, k, to_b)) = Excess(na)
        /\ Replaced(na, k, to_b).edges[k] = to_b
    BY <2>1, NodeAged
  <2> QED
    BY <1>5, <1>6, <2>2 DEF na
<1>8. /\ h2[b] \in Node(S) /\ Distinct(h2[b])
      /\ Entries(h2[b]) = Others(h[b], a) \cup {to_a}
      /\ Excess(h2[b]) = Excess(h[b])
  <2> DEFINE nb == h[b]
  <2>1. /\ nb \in Node(S) /\ Distinct(nb) /\ rev \in 1 .. Len(nb.edges)
        /\ to_a \in Edge(S) /\ to_a.nr = nb.edges[rev].nr
    BY <1>4, <1>5
  <2> HIDE DEF nb
  <2>2. /\ Replaced(nb, rev, to_a) \in Node(S)
        /\ Distinct(Replaced(nb, rev, to_a))
        /\ Entries(Replaced(nb, rev, to_a)) = Others(nb, to_a.nr) \cup {to_a}
        /\ Excess(Replaced(nb, rev, to_a)) = Excess(nb)
    BY <2>1, NodeAged
  <2> QED
    BY <1>5, <1>6, <2>2 DEF nb
<1>9. h2 \in [S -> Node(S)]
  BY <1>1, <1>6, <1>7, <1>8
<1>10. ASSUME NEW x \in S, NEW e \in Entries(h2[x])
       PROVE  e.nr \in occ \ {x} /\ [nr |-> x, age |-> e.age] \in Entries(h2[e.nr])
  <2>1. CASE x = a /\ e = to_b
    BY <1>2, <1>8, <2>1 DEF to_b, to_a
  <2>2. CASE x = b /\ e = to_a
    BY <1>2, <1>4, <1>7, <2>2 DEF to_b, to_a
  <2>3. CASE ~(x = a /\ e = to_b) /\ ~(x = b /\ e = to_a)
    <3>1. /\ e \in Entries(h[x])
          /\ x = a => e.nr # b
          /\ x = b => e.nr # a
      <4>1. CASE x = a
        BY <1>2, <1>7, <2>3, <4>1 DEF Others
      <4>2. CASE x = b
        <5>1. e \in Entries(h2[b]) /\ e # to_a
          BY <2>3, <4>2
        <5>2. e \in Others(h[b], a)
          BY <1>8, <5>1
        <5> QED
          BY <1>2, <4>2, <5>2 DEF Others
      <4>3. CASE x \notin {a, b}
        BY <1>6, <4>3
      <4> QED
        BY <4>1, <4>2, <4>3
    <3> DEFINE r == [nr |-> x, age |-> e.age]
    <3>2. e.nr \in occ \ {x} /\ r \in Entries(h[e.nr]) /\ r.nr = x
      BY <3>1 DEF Sound
    <3> HIDE DEF r
    <3>3. r \in Entries(h2[e.nr])
      <4>1. CASE e.nr = a
        BY <1>7, <3>1, <3>2, <4>1 DEF Others
      <4>2. CASE e.nr = b
        BY <1>8, <3>1, <3>2, <4>2 DEF Others
      <4>3. CASE e.nr \notin {a, b}
        BY <1>6, <3>2, <4>3
      <4> QED
        BY <4>1, <4>2, <4>3
    <3> QED
      BY <3>2, <3>3 DEF r
  <2> QED
    BY <2>1, <2>2, <2>3
<1>11. ASSUME NEW x \in S PROVE Distinct(h2[x])
  <2>1. CASE x \in {a, b}
    BY <1>7, <1>8, <2>1
  <2>2. CASE x \notin {a, b}
    BY <1>6, <2>2 DEF Sound
  <2> QED
    BY <2>1, <2>2
<1>12. ASSUME NEW x \in occ PROVE Excess(h2[x]) \in D
  <2>1. Excess(h[x]) \in D
    BY DEF Sound
  <2>2. CASE x \in {a, b}
    BY <1>7, <1>8, <2>1, <2>2
  <2>3. CASE x \notin {a, b}
    BY <1>6, <2>1, <2>3
  <2> QED
    BY <2>2, <2>3
<1> QED
  BY <1>0, <1>6, <1>7, <1>8, <1>9, <1>10, <1>11, <1>12 DEF h2, Sound, Altered, to_b, to_a

(* A node whose counter is 0 has no edges.                                  *)
LEMMA OrphanEmpty ==
  ASSUME NEW S, NEW occ \in SUBSET S, NEW D \in SUBSET Nat, NEW h, Sound(h, S, occ, D),
         NEW x \in occ, h[x].edgesCount = 0
  PROVE  Entries(h[x]) = {}
<1>1. h[x] \in Node(S) /\ Excess(h[x]) \in Nat
  BY DEF Sound
<1>2. Len(h[x].edges) \in Nat
  BY <1>1 DEF Node
<1>3. Len(h[x].edges) = 0
  BY <1>1, <1>2 DEF Excess
<1> QED
  BY <1>3 DEF Entries

(* Nobody points to a slot that is no node, and it points nowhere.          *)
LEMMA FreeEmpty ==
  ASSUME NEW S, NEW occ \in SUBSET S, NEW D, NEW h, Sound(h, S, occ, D), NEW x \in S \ occ
  PROVE  Entries(h[x]) = {}
<1> SUFFICES ASSUME NEW e \in Entries(h[x]) PROVE FALSE
  OBVIOUS
<1> DEFINE r == [nr |-> x, age |-> e.age]
<1>1. e.nr \in occ /\ r \in Entries(h[e.nr]) /\ r.nr = x
  BY DEF Sound
<1> HIDE DEF r
<1> QED
  BY <1>1 DEF Sound

(* Deleting a node without edges.                                           *)
LEMMA DeleteSound ==
  ASSUME NEW S, NEW occ \in SUBSET S, NEW D, NEW h, Sound(h, S, occ, D),
         NEW x \in occ, Entries(h[x]) = {}
  PROVE  Sound(h, S, occ \ {x}, D)
<1>1. ASSUME NEW a \in S, NEW e \in Entries(h[a]) PROVE e.nr # x
  <2>1. [nr |-> a, age |-> e.age] \in Entries(h[e.nr])
    BY DEF Sound
  <2> QED
    BY <2>1
<1> QED
  BY <1>1 DEF Sound
-----------------------------------------------------------------------------
(* isEdge in terms of entries.                                              *)
LEMMA IsEdgeEntry ==
  ASSUME NEW occ, NEW D, Sound(g, Slots, occ, D), NEW a \in Slots, NEW b
  PROVE  IsEdge(a, b) <=> \E e \in Entries(g[a]) : e.nr = b
<1>1. g[a] \in Node(Slots)
  BY DEF Sound
<1>2. DOMAIN g[a].edges = 1 .. Len(g[a].edges)
  BY <1>1 DEF Node
<1> QED
  BY <1>2 DEF IsEdge, Entries

(* A counter that is ahead by no negative number, and one that is exact.    *)
LEMMA CountWithin ==
  ASSUME NEW S, NEW node \in Node(S)
  PROVE  /\ Excess(node) \in Nat => node.edgesCount >= Len(node.edges)
         /\ Excess(node) = 0 => node.edgesCount = Len(node.edges)
<1>1. node.edgesCount \in Int /\ Len(node.edges) \in Nat
  BY DEF Node
<1> QED
  BY <1>1 DEF Excess

(* In a sound graph every directed edge has its one reverse.                *)
LEMMA SoundMirrored ==
  ASSUME NEW D, Sound(g, Slots, Occupied, D)
  PROVE  EdgesMirrored
<1> SUFFICES ASSUME NEW a \in Slots, NEW k \in DOMAIN g[a].edges
             PROVE  LET b == g[a].edges[k].nr
                    IN  /\ b \in Occupied \ {a}
                        /\ \A j \in DOMAIN g[a].edges : g[a].edges[j].nr = b => j = k
                        /\ \E j \in DOMAIN g[b].edges :
                              g[b].edges[j] = [nr |-> a, age |-> g[a].edges[k].age]
  BY DEF EdgesMirrored
<1> DEFINE e == g[a].edges[k]
<1>1. \A x \in Slots : DOMAIN g[x].edges = 1 .. Len(g[x].edges)
  BY DEF Sound, Node
<1>2. e \in Entries(g[a]) /\ Distinct(g[a])
  BY <1>1 DEF Entries, Sound
<1>3. e.nr \in Occupied \ {a} /\ [nr |-> a, age |-> e.age] \in Entries(g[e.nr])
  BY <1>2 DEF Sound
<1>4. \A j \in DOMAIN g[a].edges : g[a].edges[j].nr = e.nr => j = k
  BY <1>1, <1>2 DEF Distinct
<1>5. \E j \in DOMAIN g[e.nr].edges : g[e.nr].edges[j] = [nr |-> a, age |-> e.age]
  <2>1. e.nr \in Slots
    BY <1>3 DEF Occupied
  <2> QED
    BY <1>1, <1>3, <2>1 DEF Entries
<1> QED
  BY <1>3, <1>4, <1>5

(* In a sound graph a free slot has no edges.                               *)
LEMMA SoundClear ==
  ASSUME NEW D, Sound(g, Slots, Occupied, D)
  PROVE  FreeSlotsClear
<1> SUFFICES ASSUME NEW i \in FreeSlots, Degree(i) # 0 PROVE FALSE
  BY DEF FreeSlotsClear
<1>1. i \in Slots \ Occupied /\ Occupied \in SUBSET Slots
  BY DEF FreeSlots, Occupied
<1>2. Len(g[i].edges) \in Nat
  BY <1>1 DEF Sound, Node
<1>3. 1 \in 1 .. Len(g[i].edges)
  BY <1>2 DEF Degree
<1>4. g[i].edges[1] \in Entries(g[i])
  BY <1>3 DEF Entries
<1>5. Entries(g[i]) = {}
  BY <1>1, FreeEmpty
<1> QED
  BY <1>4, <1>5

(* newNode: the slot has no edges left from the node that held it before    *)
(* (which newNode takes for granted), and a grown pool none at all.         *)
LEMMA NewNodeSound ==
  ASSUME NEW occ \in SUBSET Slots, NEW D, 0 \in D, Sound(g, Slots, occ, D),
         Slots \subseteq Slots', NEW c \in Slots' \ occ
  PROVE  /\ Sound(WithNewNode(c), Slots', occ \cup {c}, D)
         /\ Entries(WithNewNode(c)[c]) = {}
         /\ \A x \in Slots : Entries(WithNewNode(c)[x]) = Entries(g[x])
         /\ \A x \in Slots' \ Slots : Entries(WithNewNode(c)[x]) = {}
<1> DEFINE t == WithNewNode(c)
<1>1. \A x \in Slots' : t[x] = IF x \in Slots
                               THEN IF x = c THEN [g[x] EXCEPT !.edgesCount = 0] ELSE g[x]
                               ELSE IF x = c THEN [EmptyNode EXCEPT !.edgesCount = 0]
                                             ELSE EmptyNode
  BY DEF WithNewNode
<1>2. t = [x \in Slots' |-> t[x]]
  BY DEF WithNewNode
<1> HIDE DEF t
<1>3. \A x \in Slots : g[x] \in Node(Slots) /\ Distinct(g[x])
  BY DEF Sound
<1>4. Node(Slots) \subseteq Node(Slots')
  <2>1. Edge(Slots) \subseteq Edge(Slots')
    BY DEF Edge
  <2>2. \A v \in Seq(Edge(Slots)) : v \in Seq(Edge(Slots'))
    BY <2>1, SeqMonotonic
  <2> QED
    BY <2>2 DEF Node
<1>5. ASSUME NEW x \in Slots
      PROVE  /\ t[x] \in Node(Slots') /\ Distinct(t[x])
             /\ t[x].edges = g[x].edges
             /\ x # c => t[x] = g[x]
             /\ x = c => t[x].edgesCount = 0
  <2>1. g[x] \in Node(Slots') /\ x \in Slots'
    BY <1>3, <1>4
  <2>2. CASE x = c
    <3>1. t[x] = [g[x] EXCEPT !.edgesCount = 0]
      BY <1>1, <2>1, <2>2
    <3> QED
      BY <1>3, <2>1, <2>2, <3>1 DEF Node, Distinct
  <2>3. CASE x # c
    BY <1>1, <1>3, <2>1, <2>3
  <2> QED
    BY <2>2, <2>3
<1>6. ASSUME NEW x \in Slots' \ Slots
      PROVE  t[x] = EmptyNode
  BY <1>1, <1>6 DEF EmptyNode
<1>7. EmptyNode \in Node(Slots') /\ Distinct(EmptyNode) /\ Entries(EmptyNode) = {}
  BY DEF EmptyNode, Node, Distinct, Entries
<1>8. /\ \A x \in Slots : Entries(t[x]) = Entries(g[x])
      /\ \A x \in Slots' \ Slots : Entries(t[x]) = {}
  <2>1. \A x \in Slots : Entries(t[x]) = Entries(g[x])
    BY <1>5 DEF Entries
  <2>2. \A x \in Slots' \ Slots : Entries(t[x]) = {}
    BY <1>6, <1>7
  <2> QED
    BY <2>1, <2>2
<1>9. Entries(t[c]) = {}
  <2>1. CASE c \in Slots
    <3>1. Entries(g[c]) = {}
      BY <2>1, FreeEmpty
    <3> QED
      BY <1>8, <2>1, <3>1
  <2>2. CASE c \notin Slots
    BY <1>8, <2>2
  <2> QED
    BY <2>1, <2>2
<1>10. t \in [Slots' -> Node(Slots')]
  BY <1>2, <1>5, <1>6, <1>7
<1>11. ASSUME NEW x \in Slots', NEW e \in Entries(t[x])
       PROVE  /\ e.nr \in (occ \cup {c}) \ {x}
              /\ [nr |-> x, age |-> e.age] \in Entries(t[e.nr])
  <2>1. x \in Slots /\ e \in Entries(g[x])
    BY <1>8
  <2>2. e.nr \in occ \ {x} /\ [nr |-> x, age |-> e.age] \in Entries(g[e.nr])
    BY <2>1 DEF Sound
  <2>3. Entries(t[e.nr]) = Entries(g[e.nr])
    BY <1>8, <2>2
  <2> QED
    BY <2>2, <2>3
<1>12. \A x \in Slots' : Distinct(t[x])
  BY <1>5, <1>6, <1>7
<1>13. ASSUME NEW x \in occ \cup {c} PROVE Excess(t[x]) \in D
  <2>1. CASE x # c
    BY <1>5, <2>1 DEF Sound
  <2>2. CASE x = c
    <3>1. t[c].edgesCount = 0
      BY <1>5, <1>6 DEF EmptyNode
    <3>2. t[c] \in Node(Slots')
      BY <1>10
    <3>3. Len(t[c].edges) \in Nat
      BY <3>2 DEF Node
    <3>4. Len(t[c].edges) = 0
      <4>1. ASSUME Len(t[c].edges) # 0 PROVE FALSE
        <5>1. 1 \in 1 .. Len(t[c].edges)
          BY <3>3, <4>1
        <5>2. t[c].edges[1] \in Entries(t[c])
          BY <5>1 DEF Entries
        <5> QED
          BY <1>9, <5>2
      <4> QED
        BY <4>1
    <3> QED
      BY <2>2, <3>1, <3>4 DEF Excess
  <2> QED
    BY <2>1, <2>2
<1> QED
  BY <1>8, <1>9, <1>10, <1>11, <1>12, <1>13 DEF Sound, t
-----------------------------------------------------------------------------
(* No edge is over age. *)
Young(h, S) == \A a \in S : \A e \in Entries(h[a]) : e.age <= MaxAge

(* The utility option takes all edges from a node before it deletes it.     *)
LEMMA StrippedSound ==
  ASSUME NEW K \in SUBSET Slots, NEW D, Sound(g, Slots, K, D), NEW x \in K
  PROVE  /\ Sound(Stripped(x), Slots, K, D)
         /\ Entries(Stripped(x)[x]) = {}
         /\ \A y \in Slots : Entries(Stripped(x)[y]) \subseteq Entries(g[y])
         /\ \A y \in Slots \ {x} : Entries(Stripped(x)[y]) = Others(g[y], x)
<1> DEFINE t == Stripped(x)
<1>1. x \in Slots
  OBVIOUS
<1>2. /\ g \in [Slots -> Node(Slots)]
      /\ \A y \in Slots : g[y] \in Node(Slots) /\ Distinct(g[y])
  BY DEF Sound
<1>3. t[x] = [edges |-> <<>>, edgesCount |-> g[x].edgesCount - Degree(x)]
  <2>1. ~IsEdge(x, x)
    <3>1. \A e \in Entries(g[x]) : e.nr # x
      BY <1>1 DEF Sound
    <3> QED
      BY <1>1, <3>1, IsEdgeEntry
  <2> QED
    BY <1>1, <2>1 DEF Stripped
<1>4. t[x] \in Node(Slots) /\ Distinct(t[x]) /\ Entries(t[x]) = {}
  <2>1. g[x].edgesCount \in Int /\ Degree(x) \in Nat
    BY <1>1, <1>2 DEF Node, Degree
  <2> QED
    BY <1>3, <2>1 DEF Node, Distinct, Entries
<1>5. Excess(t[x]) = Excess(g[x])
  <2>1. g[x].edgesCount \in Int /\ Degree(x) \in Nat /\ Degree(x) = Len(g[x].edges)
    BY <1>1, <1>2 DEF Node, Degree
  <2>2. t[x].edgesCount = g[x].edgesCount - Degree(x) /\ Len(t[x].edges) = 0
    BY <1>3
  <2> QED
    BY <2>1, <2>2 DEF Excess
<1>6. ASSUME NEW y \in Slots, y # x, IsEdge(x, y)
      PROVE  /\ t[y] \in Node(Slots) /\ Distinct(t[y])
             /\ Entries(t[y]) = Others(g[y], x)
             /\ Excess(t[y]) = Excess(g[y])
  <2>1. t[y] = Unlinked(g[y], x)
    BY <1>6 DEF Stripped
  <2>2. PICK e \in Entries(g[x]) : e.nr = y
    BY <1>1, <1>6, IsEdgeEntry
  <2>3. [nr |-> x, age |-> e.age] \in Entries(g[y])
    BY <1>1, <2>2 DEF Sound
  <2>4. PICK back \in Entries(g[y]) : back.nr = x
    BY <2>3
  <2> HIDE DEF t
  <2> QED
    BY <1>2, <2>1, <2>4, NodeUnlinked
<1>7. ASSUME NEW y \in Slots, y # x, ~IsEdge(x, y)
      PROVE  t[y] = g[y] /\ Entries(t[y]) = Others(g[y], x)
  <2>1. t[y] = g[y]
    BY <1>7 DEF Stripped
  <2>2. ASSUME NEW e \in Entries(g[y]), e.nr = x PROVE FALSE
    <3>1. [nr |-> y, age |-> e.age] \in Entries(g[x])
      BY <2>2 DEF Sound
    <3> QED
      BY <1>1, <1>7, <3>1, IsEdgeEntry
  <2> QED
    BY <2>1, <2>2 DEF Others
<1>8. t = [y \in Slots |-> t[y]]
  BY DEF Stripped
<1> HIDE DEF t
<1>9. \A y \in Slots : /\ t[y] \in Node(Slots) /\ Distinct(t[y])
                       /\ y # x => Entries(t[y]) = Others(g[y], x)
  BY <1>2, <1>4, <1>6, <1>7
<1>10. t \in [Slots -> Node(Slots)]
  BY <1>8, <1>9
<1>11. ASSUME NEW y \in Slots, NEW e \in Entries(t[y])
       PROVE  e.nr \in K \ {y} /\ [nr |-> y, age |-> e.age] \in Entries(t[e.nr])
  <2> DEFINE r == [nr |-> y, age |-> e.age]
  <2>1. y # x /\ e \in Entries(g[y]) /\ e.nr # x
    BY <1>4, <1>9 DEF Others
  <2>2. e.nr \in K \ {y} /\ r \in Entries(g[e.nr]) /\ r.nr = y
    BY <2>1 DEF Sound
  <2> HIDE DEF r
  <2>3. r \in Entries(t[e.nr])
    BY <1>1, <1>9, <2>1, <2>2 DEF Others
  <2> QED
    BY <2>2, <2>3 DEF r
<1>12. ASSUME NEW y \in K PROVE Excess(t[y]) \in D
  <2>1. Excess(g[y]) \in D /\ y \in Slots
    BY DEF Sound
  <2> QED
    BY <1>5, <1>6, <1>7, <2>1
<1>13. \A y \in Slots : Entries(t[y]) \subseteq Entries(g[y])
  BY <1>4, <1>9 DEF Others
<1> QED
  BY <1>4, <1>9, <1>10, <1>11, <1>12, <1>13 DEF Sound, t

-----------------------------------------------------------------------------
(* The inductive invariant.  Every action relies on each part: a step picks *)
(* slots the pool knows to be nodes or free, the edges of which are what    *)
(* the next step's removals count on, and a scan deletes neighbours of a    *)
(* winner that keeps its edge to the second nearest neuron.                 *)
GraphInv == Sound(g, Slots, Occupied, {0}) /\ Young(g, Slots)

LoopTyped ==
    /\ s \in 0 .. Lambda - 1
    /\ winner \in Slots \cup {NoNode} /\ second \in Slots \cup {NoNode}
    /\ edg \in Nat
    /\ utility_option \in UtilityOptions /\ zeroed \subseteq Slots

Running == {"seed", "search", "scan", "grow", "spinning", "crashed"}

AlgTyped == pc \in Running /\ LoopTyped

ScanSafe ==
    pc = "scan" => /\ edg \in Nat \ {0}
                   /\ {winner, second} \subseteq Occupied /\ IsEdge(winner, second)

AInv == PoolInv /\ GraphInv /\ AlgTyped /\ ScanSafe

(* The same of a pool that has lost the slots G, where edges may still lead *)
(* to lost slots, and of counters that are ahead of the number of edges by  *)
(* a number of D.  A step of the loop loses no further slot and changes no  *)
(* such difference: the proofs of the steps are about this form, which is   *)
(* the other one when G is empty and D is {0}.                              *)
Held(G) == Occupied \cup G

GraphFor(G, D) == Sound(g, Slots, Held(G), D) /\ Young(g, Slots)

LoopInv(G, D) == LeakyPool(G) /\ GraphFor(G, D) /\ LoopTyped /\ ScanSafe

(* All a step of the loop does to the pool. *)
PoolMoves == NewNode \/ (\E x \in Slots : DeleteNode(x)) \/ UNCHANGED poolVars

(* The first form as a case of the second. *)
LEMMA LoopExact ==
    AInv <=> PoolInv /\ pc \in Running /\ LoopInv({}, {0})
<1>1. Held({}) = Occupied
  BY DEF Held
<1>2. PoolInv => LeakyPool({})
  BY LeakyNowhere DEF PoolInv
<1> QED
  BY <1>1, <1>2 DEF AInv, LoopInv, GraphInv, GraphFor, AlgTyped

(* The same of the state after a step. *)
LEMMA LoopExactPrimed ==
    AInv' <=> PoolInv' /\ pc' \in Running /\ LoopInv({}, {0})'
<1>1. AInv' <=> PoolInv' /\ (pc \in Running)' /\ LoopInv({}, {0})'
  BY LoopExact, PTL
<1> QED
  BY <1>1

(* Occupied slots are slots of the pool. *)
LEMMA OccupiedInSlots == Occupied \in SUBSET Slots
BY DEF Occupied

(* A step that leaves the pool alone leaves its slots, nodes and count alone. *)
LEMMA PoolSame ==
  ASSUME UNCHANGED poolVars
  PROVE  Slots' = Slots /\ Occupied' = Occupied /\ nodes' = nodes
<1>1. size' = size /\ occupied' = occupied /\ nodes' = nodes
  BY DEF poolVars
<1>2. Slots' = Slots
  BY <1>1 DEF Slots
<1> QED
  BY <1>1, <1>2 DEF Occupied

(* The nodes and the lost slots are slots of the pool.                      *)
LEMMA HeldInSlots ==
  ASSUME NEW G, LeakyPool(G)
  PROVE  Held(G) \in SUBSET Slots /\ G \cap Occupied = {}
BY OccupiedInSlots DEF LeakyPool, Held, FreeSlots

(* A new node in the graph.                                                 *)
LEMMA NewNodeGraph ==
  ASSUME NEW G, NEW D \in SUBSET Nat, 0 \in D, LeakyPool(G), GraphFor(G, D), NewNode
  PROVE  /\ LeakyPool(G)'
         /\ Slots \subseteq Slots'
         /\ NewIndex \in Slots' \ Held(G)
         /\ Occupied' = Occupied \cup {NewIndex} /\ Held(G)' = Held(G) \cup {NewIndex}
         /\ Sound(WithNewNode(NewIndex), Slots', Held(G)', D)
         /\ Young(WithNewNode(NewIndex), Slots')
         /\ Entries(WithNewNode(NewIndex)[NewIndex]) = {}
         /\ \A x \in Slots : Entries(WithNewNode(NewIndex)[x]) = Entries(g[x])
<1>1. /\ LeakyPool(G)'
      /\ NewIndex \in Slots' \ Held(G)
      /\ Occupied' = Occupied \cup {NewIndex}
  BY LeakyPoolStep, NewNodeOccupies DEF Held
<1>2. Held(G)' = Held(G) \cup {NewIndex}
  BY <1>1 DEF Held
<1>3. Slots \subseteq Slots'
  <2>1. size \in Nat /\ (size' = size \/ size' = 2 * size)
    BY DEF LeakyPool, PoolTypeOK, NewNode
  <2> QED
    BY <2>1 DEF Slots
<1>4. Sound(g, Slots, Held(G), D) /\ Young(g, Slots)
  BY DEF GraphFor
<1>5. /\ Sound(WithNewNode(NewIndex), Slots', Held(G) \cup {NewIndex}, D)
      /\ Entries(WithNewNode(NewIndex)[NewIndex]) = {}
      /\ \A x \in Slots : Entries(WithNewNode(NewIndex)[x]) = Entries(g[x])
      /\ \A x \in Slots' \ Slots : Entries(WithNewNode(NewIndex)[x]) = {}
  BY <1>1, <1>3, <1>4, HeldInSlots, NewNodeSound
<1>6. Young(WithNewNode(NewIndex), Slots')
  BY <1>4, <1>5 DEF Young
<1> QED
  BY <1>1, <1>2, <1>3, <1>5, <1>6

(* Deleting a node without edges, whether deleteNode sees it or not.        *)
LEMMA DeleteNodeGraph ==
  ASSUME NEW G, LeakyPool(G), NEW D, NEW h, NEW x \in Held(G),
         Sound(h, Slots, Held(G), D), Entries(h[x]) = {}, DeleteNode(x)
  PROVE  /\ LeakyPool(G)'
         /\ Slots' = Slots
         /\ Occupied \ {x} \subseteq Occupied' /\ Occupied' \subseteq Occupied
         /\ Sound(h, Slots', Held(G)', D)
<1>1. x \in Slots
  BY HeldInSlots
<1>2. LeakyPool(G)'
  BY <1>1, LeakyPoolStep
<1>3. CASE ExistsNode(x)
  <2>1. x \in Occupied /\ Occupied' = Occupied \ {x} /\ size' = size
    BY <1>1, <1>3, DeleteNodeFrees DEF LeakyPool, DeleteNode
  <2>2. Slots' = Slots
    BY <2>1 DEF Slots
  <2>3. Held(G)' = Held(G) \ {x}
    BY <2>1, HeldInSlots DEF Held
  <2>4. Sound(h, Slots, Held(G) \ {x}, D)
    BY HeldInSlots, DeleteSound
  <2> QED
    BY <1>2, <2>1, <2>2, <2>3, <2>4
<1>4. CASE ~ExistsNode(x)
  <2>1. UNCHANGED poolVars
    BY <1>4 DEF DeleteNode
  <2>2. Held(G)' = Held(G)
    BY <2>1, PoolSame DEF Held
  <2> QED
    BY <1>2, <2>1, <2>2, PoolSame
<1> QED
  BY <1>3, <1>4

(* Linking keeps a graph sound and young.                                   *)
LEMMA LinkGraph ==
  ASSUME NEW S, NEW occ \in SUBSET S, NEW D, NEW h, Sound(h, S, occ, D), Young(h, S),
         NEW a \in occ, NEW b \in occ \ {a}, \A e \in Entries(h[a]) : e.nr # b
  PROVE  /\ Sound(AddUDEdge(h, a, b), S, occ, D)
         /\ Young(AddUDEdge(h, a, b), S)
         /\ Joined(AddUDEdge(h, a, b), h, S, a, b)
<1> DEFINE h2 == AddUDEdge(h, a, b)
<1>1. Sound(h2, S, occ, D)
  BY LinkSound
<1>2. Joined(h2, h, S, a, b)
  BY <1>1, LinkSound
<1> HIDE DEF h2
<1>3. NewEdge(a).age <= MaxAge /\ NewEdge(b).age <= MaxAge
  BY AdaptationAssumption DEF NewEdge
<1>4. ASSUME NEW x \in S, NEW e \in Entries(h2[x]) PROVE e.age <= MaxAge
  <2>1. e \in Entries(h[x]) \/ e = NewEdge(a) \/ e = NewEdge(b)
    BY <1>2 DEF Joined
  <2> QED
    BY <1>3, <2>1 DEF Young
<1> QED
  BY <1>1, <1>2, <1>4 DEF h2, Young
-----------------------------------------------------------------------------

(* The loop starts in the invariant. *)
LEMMA InitAInv == Init => AInv
<1> SUFFICES ASSUME Init PROVE AInv
  OBVIOUS
<1>1. PoolInv
  BY PoolInitInv DEF Init
<1>2. GraphInv
  <2>1. Occupied = {}
    BY DEF Init, PoolInit, Occupied
  <2>2. EmptyNode \in Node(Slots) /\ Distinct(EmptyNode) /\ Entries(EmptyNode) = {}
    BY DEF EmptyNode, Node, Distinct, Entries
  <2> QED
    BY <2>1, <2>2 DEF Init, GraphInv, Sound, Young
<1>3. AlgTyped /\ ScanSafe
  BY AdaptationAssumption DEF Init, AlgTyped, LoopTyped, Running, ScanSafe
<1> QED
  BY <1>1, <1>2, <1>3 DEF AInv

(* What randomInit does, which takes the first two nodes: it keeps the      *)
(* invariant, as every following step does.                                 *)
LEMMA RandomInitStep ==
  ASSUME NEW G, NEW D \in SUBSET Nat, 0 \in D, LoopInv(G, D), RandomInit
  PROVE  LoopInv(G, D)' /\ PoolMoves /\ pc' \in Running
<1>1. g' = WithNewNode(NewIndex) /\ NewNode
  BY DEF RandomInit
<1>2. /\ LeakyPool(G)' /\ Slots \subseteq Slots'
      /\ Sound(g', Slots', Held(G)', D) /\ Young(g', Slots')
  BY <1>1, NewNodeGraph DEF LoopInv
<1>3. LoopTyped' /\ pc' # "scan" /\ pc' \in Running
  BY <1>2 DEF RandomInit, LoopInv, LoopTyped, Running, utilityVars
<1> QED
  BY <1>1, <1>2, <1>3 DEF LoopInv, GraphFor, ScanSafe, PoolMoves

(* The part of adapt before its edge loop, which links the winner and the second nearest
   neuron. *)
LEMMA AdaptStep ==
  ASSUME NEW G, NEW D \in SUBSET Nat, 0 \in D, LoopInv(G, D),
         NEW w \in Slots, NEW v \in Slots, Adapt(w, v)
  PROVE  LoopInv(G, D)' /\ PoolMoves /\ pc' \in Running
<1> DEFINE K == Held(G)
<1>1. w \in Occupied /\ v \in Occupied \ {w} /\ w \in K /\ v \in K \ {w}
  BY DEF Adapt, Visible, ExistsNode, Occupied, Held
<1>2. Slots' = Slots /\ Occupied' = Occupied /\ LeakyPool(G)' /\ K' = K
  BY PoolSame, LeakyPoolStep DEF Adapt, LoopInv, Held
<1>3. Sound(g, Slots, K, D) /\ Young(g, Slots) /\ K \in SUBSET Slots
  BY HeldInSlots DEF LoopInv, GraphFor
<1> HIDE DEF K
<1>4. /\ Sound(g', Slots, K, D) /\ Young(g', Slots)
      /\ \E e \in Entries(g'[w]) : e.nr = v
  <2>1. CASE IsEdge(w, v)
    <3>1. g' = g
      BY <2>1 DEF Adapt, Link
    <3> QED
      BY <1>3, <2>1, <3>1, IsEdgeEntry
  <2>2. CASE ~IsEdge(w, v)
    <3>1. g' = AddUDEdge(g, w, v)
      BY <2>2 DEF Adapt, Link
    <3>2. \A e \in Entries(g[w]) : e.nr # v
      BY <1>3, <2>2, IsEdgeEntry
    <3>3. /\ Sound(g', Slots, K, D) /\ Young(g', Slots)
          /\ Entries(g'[w]) = Entries(g[w]) \cup {NewEdge(v)}
      <4>1. Sound(g', Slots, K, D)
        BY <1>1, <1>3, <3>1, <3>2, LinkGraph
      <4>2. Young(g', Slots)
        BY <1>1, <1>3, <3>1, <3>2, <4>1, LinkGraph
      <4>3. Joined(g', g, Slots, w, v)
        BY <1>1, <1>3, <3>1, <3>2, <4>1, LinkGraph
      <4> QED
        BY <4>1, <4>2, <4>3 DEF Joined
    <3>4. NewEdge(v).nr = v /\ NewEdge(v) \in Entries(g'[w])
      BY <3>3 DEF NewEdge
    <3> QED
      BY <3>3, <3>4
  <2> QED
    BY <2>1, <2>2
<1>5. IsEdge(w, v)'
  <2>1. DOMAIN g'[w].edges = 1 .. Len(g'[w].edges)
    BY <1>1, <1>4 DEF Sound, Node
  <2> QED
    BY <1>4, <2>1 DEF IsEdge, Entries
<1>6. LoopTyped' /\ ScanSafe' /\ pc' \in Running
  BY <1>1, <1>2, <1>5 DEF Adapt, LoopInv, LoopTyped, ScanSafe, Running, utilityVars
<1>7. PoolMoves
  BY DEF Adapt, PoolMoves
<1> QED
  BY <1>2, <1>4, <1>6, <1>7 DEF LoopInv, GraphFor, K

(* An entry of the winner that names the second nearest neuron is the edge that isEdge
   sees. *)
LEMMA WinnerLinked ==
  ASSUME NEW K, NEW D, Sound(g', Slots', K, D), winner' \in Slots',
         \E e \in Entries(g'[winner']) : e.nr = second'
  PROVE  IsEdge(winner, second)'
<1>1. DOMAIN g'[winner'].edges = 1 .. Len(g'[winner'].edges)
  BY DEF Sound, Node
<1> QED
  BY <1>1 DEF IsEdge, Entries

(* Removing an edge makes no other edge older. *)
LEMMA PartedYoung ==
  ASSUME NEW S, NEW h, NEW a \in S, NEW b \in S, NEW h2,
         Young(h, S), Parted(h2, h, S, a, b)
  PROVE  Young(h2, S)
<1> SUFFICES ASSUME NEW x \in S, NEW e \in Entries(h2[x]) PROVE e.age <= MaxAge
  BY DEF Young
<1>1. e \in Entries(h[x])
  BY DEF Parted, Others
<1> QED
  BY <1>1 DEF Young

(* What one pass of the scan does: the neighbour it looks at, the age its   *)
(* edge gets, the slots once both sides are aged.                           *)
ScanOther == g[winner].edges[edg].nr

ScanAge == IF ScanOther = second THEN 0 ELSE g[winner].edges[edg].age + 1

AfterAging == BothAged(g, winner, edg, ScanAge)

(* What the invariant says at the start of a pass of the edge loop: the edge under the
   iterator exists and joins two nodes. *)
LEMMA ScanEdgeFacts ==
  ASSUME NEW G, NEW D \in SUBSET Nat, 0 \in D, LoopInv(G, D), ScanEdge
  PROVE  /\ Sound(g, Slots, Held(G), D) /\ Young(g, Slots) /\ LeakyPool(G)
         /\ Held(G) \in SUBSET Slots
         /\ winner \in Occupied /\ second \in Occupied /\ winner \in Slots
         /\ edg \in 1 .. Len(g[winner].edges)
         /\ \E e \in Entries(g[winner]) : e.nr = second
         /\ g[winner].edges[edg] \in Entries(g[winner])
         /\ g[winner].edges[edg] = [nr |-> ScanOther, age |-> g[winner].edges[edg].age]
         /\ g[winner].edges[edg].age \in Nat
         /\ ScanOther \in Held(G) \ {winner} /\ ScanOther \in Slots
         /\ ScanAge \in Nat /\ (ScanOther = second => ScanAge = 0)
         /\ Sound(AfterAging, Slots, Held(G), D)
         /\ AfterAging[winner].edges[edg] = [nr |-> ScanOther, age |-> ScanAge]
         /\ Altered(AfterAging, g, Slots, winner, ScanOther, ScanAge)
         /\ g' = IF ScanAge > MaxAge THEN RemoveUDEdge(AfterAging, winner, ScanOther)
                                     ELSE AfterAging
         /\ IF ScanAge > MaxAge /\ OrphansLeave /\ Orphan(g'[ScanOther])
            THEN DeleteNode(ScanOther) ELSE UNCHANGED poolVars
         /\ pc' = IF ScanAge > MaxAge /\ OrphansLeave /\ Orphan(g'[winner])
                  THEN "lost_winner" ELSE pc
         /\ edg' = NextEdge(ScanAge > MaxAge)
         /\ UNCHANGED <<s, winner, second, utilityVars>> /\ pc = "scan"
<1> DEFINE other == g[winner].edges[edg].nr
           old   == g[winner].edges[edg]
           now   == IF other = second THEN 0 ELSE old.age + 1
           rev   == EdgeTo(g[other].edges, winner)
           aged  == AgeEdge(other, rev)
           erase == Expired(aged[winner].edges[edg])
<1>1. /\ Sound(g, Slots, Held(G), D) /\ Young(g, Slots) /\ LeakyPool(G)
      /\ winner \in Occupied /\ second \in Occupied /\ winner \in Slots
      /\ edg \in Nat \ {0} /\ edg <= Len(g[winner].edges)
      /\ \E e \in Entries(g[winner]) : e.nr = second
  <2>1. pc = "scan" /\ edg <= Degree(winner)
    BY DEF ScanEdge
  <2>2. /\ Sound(g, Slots, Held(G), D) /\ Young(g, Slots) /\ LeakyPool(G)
        /\ winner \in Occupied /\ second \in Occupied /\ winner \in Slots
        /\ edg \in Nat \ {0} /\ IsEdge(winner, second)
    BY <2>1, OccupiedInSlots DEF LoopInv, GraphFor, ScanSafe
  <2> QED
    BY <2>1, <2>2, IsEdgeEntry DEF Degree
<1>2. /\ g[winner] \in Node(Slots) /\ Distinct(g[winner])
      /\ edg \in 1 .. Len(g[winner].edges)
  <2>1. g[winner] \in Node(Slots) /\ Distinct(g[winner])
    BY <1>1 DEF Sound
  <2>2. Len(g[winner].edges) \in Nat
    BY <2>1 DEF Node
  <2> QED
    BY <1>1, <2>1, <2>2
<1>3. /\ old \in Entries(g[winner]) /\ old = [nr |-> other, age |-> old.age]
      /\ old.age \in Nat /\ old.age <= MaxAge
      /\ other \in Held(G) \ {winner} /\ other \in Slots
      /\ [nr |-> winner, age |-> old.age] \in Entries(g[other])
  <2>1. old \in Entries(g[winner])
    BY <1>2 DEF Entries
  <2>2. old \in Edge(Slots)
    BY <1>2 DEF Node
  <2>3. old = [nr |-> old.nr, age |-> old.age] /\ old.age \in Nat
    BY <2>2 DEF Edge
  <2>4. /\ other \in Held(G) \ {winner}
        /\ [nr |-> winner, age |-> old.age] \in Entries(g[other])
    BY <1>1, <2>1 DEF Sound
  <2>5. old.age <= MaxAge
    BY <1>1, <2>1 DEF Young
  <2> QED
    BY <1>1, <2>1, <2>3, <2>4, <2>5, HeldInSlots
<1>4. /\ now \in Nat /\ (other = second => now = 0)
      /\ now = ScanAge /\ other = ScanOther
  BY <1>3 DEF ScanAge, ScanOther
<1>5. aged = BothAged(g, winner, edg, now)
  <2>1. g[other] \in Node(Slots) /\ Distinct(g[other])
    BY <1>1, <1>3 DEF Sound
  <2>2. PICK back \in Entries(g[other]) : back = [nr |-> winner, age |-> old.age]
    BY <1>3
  <2>3. back.nr = winner
    BY <2>2
  <2>4. g[other].edges[rev] = back
    <3>1. /\ g[other] \in Node(Slots) /\ Distinct(g[other])
          /\ back \in Entries(g[other])
      BY <2>1
    <3> DEFINE n == back.nr
               v == g[other]
    <3>2. EdgeTo(v.edges, n) \in 1 .. Len(v.edges) /\ v.edges[EdgeTo(v.edges, n)] = back
      <4> HIDE DEF v, n
      <4>1. v \in Node(Slots) /\ Distinct(v) /\ back \in Entries(v) /\ n = back.nr
        BY <3>1 DEF v, n
      <4> QED
        BY <4>1, EdgeToFacts
    <3> QED
      BY <2>3, <3>2
  <2>5. Aged(back, other) = [nr |-> winner, age |-> now]
    BY <2>2 DEF Aged
  <2>6. Aged(old, other) = [nr |-> other, age |-> now]
    BY <1>3 DEF Aged
  <2>7. other # winner
    BY <1>3
  <2> QED
    BY <1>1, <1>3, <2>4, <2>5, <2>6, <2>7 DEF AgeEdge, BothAged
<1> HIDE DEF rev, now, aged
<1>6. Sound(aged, Slots, Held(G), D)
  BY <1>1, <1>2, <1>4, <1>5, HeldInSlots, AgedSound
<1>7. /\ aged[winner].edges[edg] = [nr |-> other, age |-> now]
      /\ Altered(aged, g, Slots, winner, other, now)
  BY <1>1, <1>2, <1>4, <1>5, <1>6, HeldInSlots, AgedSound
<1> HIDE DEF other, old
<1>8. erase <=> now > MaxAge
  BY <1>7 DEF Expired
<1> HIDE DEF erase
<1>9. /\ g' = IF erase THEN RemoveUDEdge(aged, winner, other) ELSE aged
      /\ IF erase /\ OrphansLeave /\ Orphan(g'[other]) THEN DeleteNode(other)
                                                       ELSE UNCHANGED poolVars
      /\ pc' = IF erase /\ OrphansLeave /\ Orphan(g'[winner]) THEN "lost_winner" ELSE pc
      /\ edg' = NextEdge(erase)
      /\ UNCHANGED <<s, winner, second, utilityVars>> /\ pc = "scan"
  BY DEF ScanEdge, other, aged, rev, erase
<1>10. aged = AfterAging
  BY <1>4, <1>5 DEF AfterAging
<1>11. /\ g' = IF ScanAge > MaxAge THEN RemoveUDEdge(AfterAging, winner, ScanOther)
                                    ELSE AfterAging
       /\ IF ScanAge > MaxAge /\ OrphansLeave /\ Orphan(g'[ScanOther])
          THEN DeleteNode(ScanOther) ELSE UNCHANGED poolVars
       /\ pc' = IF ScanAge > MaxAge /\ OrphansLeave /\ Orphan(g'[winner])
                THEN "lost_winner" ELSE pc
       /\ edg' = NextEdge(ScanAge > MaxAge)
  <2>1. erase <=> ScanAge > MaxAge
    BY <1>4, <1>8
  <2> QED
    BY <1>4, <1>9, <1>10, <2>1 DEF NextEdge
<1>12. /\ Sound(AfterAging, Slots, Held(G), D)
       /\ AfterAging[winner].edges[edg] = [nr |-> ScanOther, age |-> ScanAge]
       /\ Altered(AfterAging, g, Slots, winner, ScanOther, ScanAge)
  BY <1>4, <1>6, <1>7, <1>10
<1>13. /\ g[winner].edges[edg] \in Entries(g[winner])
       /\ g[winner].edges[edg] = [nr |-> ScanOther, age |-> g[winner].edges[edg].age]
       /\ g[winner].edges[edg].age \in Nat
  BY <1>3, <1>4 DEF old
<1> QED
  BY <1>1, <1>2, <1>3, <1>4, <1>9, <1>11, <1>12, <1>13, HeldInSlots

(* One pass of the edge loop: the winner keeps its edge to the second       *)
(* nearest neuron, whose age is 0, whatever else is erased and deleted.     *)
LEMMA ScanEdgeStep ==
  ASSUME NEW G, NEW D \in SUBSET Nat, 0 \in D, LoopInv(G, D), ScanEdge
  PROVE  LoopInv(G, D)' /\ PoolMoves /\ pc' \in Running
<1> DEFINE other == ScanOther
           now   == ScanAge
           aged  == AfterAging
           erase == ScanAge > MaxAge
           K     == Held(G)
<1>1. /\ Sound(g, Slots, K, D) /\ Young(g, Slots) /\ LeakyPool(G)
      /\ K \in SUBSET Slots
      /\ winner \in Occupied /\ second \in Occupied /\ winner \in Slots
      /\ edg \in Nat \ {0}
      /\ \E e \in Entries(g[winner]) : e.nr = second
  BY ScanEdgeFacts
<1>3. other \in K \ {winner} /\ other \in Slots
  BY ScanEdgeFacts
<1>4. now \in Nat /\ (other = second => now = 0)
  BY ScanEdgeFacts
<1>6. Sound(aged, Slots, K, D)
  BY ScanEdgeFacts
<1>7. Altered(aged, g, Slots, winner, other, now)
  BY ScanEdgeFacts
<1>8. erase <=> now > MaxAge
  OBVIOUS
<1>9. /\ g' = IF erase THEN RemoveUDEdge(aged, winner, other) ELSE aged
      /\ IF erase /\ OrphansLeave /\ Orphan(g'[other]) THEN DeleteNode(other)
                                                       ELSE UNCHANGED poolVars
      /\ pc' = IF erase /\ OrphansLeave /\ Orphan(g'[winner]) THEN "lost_winner" ELSE pc
      /\ edg' = NextEdge(erase)
      /\ UNCHANGED <<s, winner, second, utilityVars>> /\ pc = "scan"
  BY ScanEdgeFacts
<1> HIDE DEF other, now, aged, erase
<1>2. UNCHANGED poolVars => K' = K
  BY PoolSame DEF Held
<1>5. winner \in K /\ second \in K
  BY <1>1 DEF Held
<1> HIDE DEF K
<1>10. \E e \in Entries(aged[winner]) : e.nr = second
  <2>1. PICK e \in Entries(g[winner]) : e.nr = second
    BY <1>1
  <2>2. CASE other = second
    <3>1. [nr |-> other, age |-> now] \in Entries(aged[winner])
      BY <1>7 DEF Altered
    <3> QED
      BY <2>2, <3>1
  <2>3. CASE other # second
    BY <1>7, <2>1, <2>3 DEF Altered, Others
  <2> QED
    BY <2>2, <2>3
<1>11. /\ LeakyPool(G)' /\ Slots' = Slots
       /\ Sound(g', Slots', K', D) /\ Young(g', Slots)
       /\ {winner, second} \subseteq Occupied'
       /\ \E e \in Entries(g'[winner]) : e.nr = second
       /\ pc' = "scan" /\ PoolMoves
  <2>1. CASE ~erase
    <3>1. g' = aged /\ UNCHANGED poolVars /\ pc' = "scan"
      BY <1>9, <2>1
    <3>2. now <= MaxAge
      BY <1>4, <1>8, <2>1, AdaptationAssumption
    <3>3. Young(aged, Slots)
      <4> SUFFICES ASSUME NEW x \in Slots, NEW e \in Entries(aged[x])
                   PROVE  e.age <= MaxAge
        BY DEF Young
      <4>1. e \in Entries(g[x]) \/ e.age = now
        BY <1>1, <1>7 DEF Altered, Others
      <4> QED
        BY <1>1, <3>2, <4>1 DEF Young
    <3> QED
      BY <1>1, <1>2, <1>6, <1>10, <3>1, <3>3, PoolSame, LeakyPoolStep DEF PoolMoves
  <2>2. CASE erase
    <3>1. g' = RemoveUDEdge(aged, winner, other) /\ other # second
      BY <1>4, <1>8, <1>9, <2>2, AdaptationAssumption
    <3>2. \E e \in Entries(aged[winner]) : e.nr = other
      <4>1. [nr |-> other, age |-> now] \in Entries(aged[winner])
        BY <1>7 DEF Altered
      <4> QED
        BY <4>1
    <3>3. Sound(g', Slots, K, D)
      BY <1>1, <1>6, <3>1, <3>2, UnlinkSound
    <3>4. Parted(g', aged, Slots, winner, other)
      BY <1>1, <1>6, <3>1, <3>2, <3>3, UnlinkSound
    <3>5. Young(g', Slots)
      <4> SUFFICES ASSUME NEW x \in Slots, NEW e \in Entries(g'[x])
                   PROVE  e.age <= MaxAge
        BY DEF Young
      <4>1. e \in Entries(g[x])
        <5>1. CASE x = winner
          BY <1>7, <3>4, <5>1 DEF Parted, Altered, Others
        <5>2. CASE x = other
          BY <1>7, <3>4, <5>2 DEF Parted, Altered, Others
        <5>3. CASE x \notin {winner, other}
          BY <1>7, <3>4, <5>3 DEF Parted, Altered
        <5> QED
          BY <5>1, <5>2, <5>3
      <4> QED
        BY <1>1, <4>1 DEF Young
    <3>6. \E e \in Entries(g'[winner]) : e.nr = second
      BY <1>10, <3>1, <3>4 DEF Parted, Others
    <3>7. g'[winner].edgesCount # 0
      BY <1>1, <1>5, <3>3, <3>6, OrphanEmpty
    <3>8. pc' = "scan"
      BY <1>9, <3>7 DEF Orphan
    <3>9. CASE DeleteNode(other) /\ Orphan(g'[other])
      <4>1. Entries(g'[other]) = {}
        BY <1>1, <1>3, <3>3, <3>9, OrphanEmpty DEF Orphan
      <4>2. /\ LeakyPool(G)' /\ Slots' = Slots
            /\ Occupied \ {other} \subseteq Occupied'
            /\ Sound(g', Slots', K', D)
        BY <1>1, <1>3, <3>3, <3>9, <4>1, DeleteNodeGraph DEF K
      <4> QED
        BY <1>1, <1>3, <3>1, <3>5, <3>6, <3>8, <3>9, <4>2 DEF PoolMoves
    <3>10. CASE UNCHANGED poolVars
      BY <1>1, <1>2, <3>3, <3>5, <3>6, <3>8, <3>10, PoolSame, LeakyPoolStep DEF PoolMoves
    <3> QED
      BY <1>9, <3>9, <3>10
  <2> QED
    BY <2>1, <2>2
<1>12. edg' \in Nat \ {0}
  BY <1>1, <1>9 DEF NextEdge
<1>13. LoopTyped'
  BY <1>9, <1>11, <1>12 DEF LoopInv, LoopTyped, utilityVars
<1>14. ScanSafe'
  <2>1. winner' = winner /\ second' = second /\ winner' \in Slots'
    BY <1>1, <1>9, <1>11
  <2>2. IsEdge(winner, second)'
    BY <1>11, <2>1, WinnerLinked
  <2> QED
    BY <1>11, <1>12, <2>1, <2>2 DEF ScanSafe
<1> QED
  BY <1>11, <1>13, <1>14 DEF LoopInv, GraphFor, Running, K

(* Steps that leave the graph and the pool as they are.                     *)
LEMMA SameGraphInv ==
  ASSUME NEW G, NEW D, LeakyPool(G), GraphFor(G, D), UNCHANGED <<poolVars, g>>
  PROVE  /\ LeakyPool(G)' /\ GraphFor(G, D)' /\ PoolMoves
         /\ Slots' = Slots /\ Occupied' = Occupied
<1>1. LeakyPool(G)' /\ Slots' = Slots /\ Occupied' = Occupied /\ g' = g
  BY PoolSame, LeakyPoolStep
<1> QED
  BY <1>1 DEF GraphFor, Held, PoolMoves

(* Deleting, among several things a step may do to the graph.               *)
LEMMA DeletedInv ==
  ASSUME NEW G, NEW D, LeakyPool(G), NEW x \in Occupied, DeleteNode(x),
         Sound(g', Slots, Held(G), D), Young(g', Slots), Entries(g'[x]) = {}
  PROVE  LeakyPool(G)' /\ GraphFor(G, D)' /\ PoolMoves /\ Slots' = Slots
<1>1. x \in Held(G) /\ x \in Slots
  BY OccupiedInSlots DEF Held
<1>2. LeakyPool(G)' /\ Slots' = Slots /\ Sound(g', Slots', Held(G)', D)
  BY <1>1, DeleteNodeGraph
<1> QED
  BY <1>1, <1>2 DEF GraphFor, PoolMoves

(* The utility option strips a node of its edges and deletes it.            *)
LEMMA UtilityInv ==
  ASSUME NEW G, NEW D, LeakyPool(G), GraphFor(G, D), zeroed \subseteq Slots,
         UtilityCriterionCheck
  PROVE  /\ LeakyPool(G)' /\ GraphFor(G, D)' /\ PoolMoves
         /\ Slots' = Slots /\ zeroed' \subseteq Slots'
<1>1. CASE UNCHANGED <<poolVars, g, zeroed>>
  <2>1. UNCHANGED <<poolVars, g>> /\ zeroed' = zeroed
    BY <1>1
  <2> QED
    BY <2>1, SameGraphInv
<1>2. ASSUME NEW x \in LeastUseful, ExistsNode(x), g' = Stripped(x), DeleteNode(x),
             zeroed' = zeroed \cup {x}
      PROVE  /\ LeakyPool(G)' /\ GraphFor(G, D)' /\ PoolMoves
             /\ Slots' = Slots /\ zeroed' \subseteq Slots'
  <2>1. x \in 0 .. maximum_index
    BY DEF LeastUseful
  <2>2. x \in Slots
    BY <2>1 DEF LeakyPool, PoolTypeOK, Slots
  <2>3. x \in Occupied /\ x \in Held(G)
    BY <1>2, <2>2 DEF ExistsNode, Occupied, Held
  <2>4. Sound(g, Slots, Held(G), D) /\ Young(g, Slots) /\ Held(G) \in SUBSET Slots
    BY HeldInSlots DEF GraphFor
  <2>5. Sound(g', Slots, Held(G), D) /\ Entries(g'[x]) = {}
    BY <1>2, <2>3, <2>4, StrippedSound
  <2>6. \A y \in Slots : Entries(g'[y]) \subseteq Entries(g[y])
    BY <1>2, <2>3, <2>4, StrippedSound
  <2>7. Young(g', Slots)
    BY <2>4, <2>6 DEF Young
  <2>8. LeakyPool(G)' /\ GraphFor(G, D)' /\ PoolMoves /\ Slots' = Slots
    BY <1>2, <2>3, <2>5, <2>7, DeletedInv
  <2> QED
    BY <1>2, <2>2, <2>8
<1> QED
  BY <1>1, <1>2 DEF UtilityCriterionCheck

(* The end of adapt, with the removal the utility option may make.          *)
LEMMA AdaptDoneStep ==
  ASSUME NEW G, NEW D \in SUBSET Nat, 0 \in D, LoopInv(G, D), AdaptDone
  PROVE  LoopInv(G, D)' /\ PoolMoves /\ pc' \in Running
<1>1. /\ LeakyPool(G)' /\ GraphFor(G, D)' /\ PoolMoves
      /\ Slots' = Slots /\ zeroed' \subseteq Slots'
  BY UtilityInv DEF AdaptDone, LoopInv, LoopTyped
<1>2. s' \in 0 .. Lambda - 1 /\ pc' \in {"search", "grow"}
  BY AdaptationAssumption DEF AdaptDone, RoundGoesOn, LoopInv, LoopTyped
<1>3. LoopTyped' /\ ScanSafe'
  BY <1>1, <1>2 DEF AdaptDone, LoopInv, LoopTyped, ScanSafe
<1> QED
  BY <1>1, <1>2, <1>3 DEF LoopInv, Running

(* The slots between the calls of addNewNode: with the new node, without    *)
(* the edge it takes the place of, with the first of its own edges.         *)
WithFresh == WithNewNode(NewIndex)
WithoutEdge(q, f) == RemoveUDEdge(WithFresh, q, f)
WithHalf(q, f) == AddUDEdge(WithoutEdge(q, f), q, NewIndex)

(* The new node takes the place of the edge between two linked nodes.       *)
LEMMA InsertFacts ==
  ASSUME NEW G, NEW D \in SUBSET Nat, 0 \in D, LeakyPool(G), GraphFor(G, D),
         NEW q \in Slots, NEW f, \E e \in Entries(g[q]) : e.nr = f,
         InsertBetween(q, f)
  PROVE  /\ LeakyPool(G)' /\ Slots \subseteq Slots'
         /\ Sound(g', Slots', Held(G)', D) /\ Young(g', Slots')
         /\ NewIndex \in Slots' \ Held(G) /\ Held(G)' = Held(G) \cup {NewIndex}
         /\ Occupied' = Occupied \cup {NewIndex}
         /\ q \in Held(G) /\ f \in Held(G) \ {q}
         /\ Sound(WithFresh, Slots', Held(G)', D) /\ Entries(WithFresh[NewIndex]) = {}
         /\ \A x \in Slots : Entries(WithFresh[x]) = Entries(g[x])
         /\ Sound(WithoutEdge(q, f), Slots', Held(G)', D)
         /\ Parted(WithoutEdge(q, f), WithFresh, Slots', q, f)
         /\ Sound(WithHalf(q, f), Slots', Held(G)', D)
         /\ Joined(WithHalf(q, f), WithoutEdge(q, f), Slots', q, NewIndex)
         /\ Joined(g', WithHalf(q, f), Slots', NewIndex, f)
<1> DEFINE c  == NewIndex
           h0 == WithNewNode(c)
           h1 == RemoveUDEdge(h0, q, f)
           h2 == AddUDEdge(h1, q, c)
           h3 == AddUDEdge(h2, c, f)
           K  == Held(G)
<1>0. WithFresh = h0 /\ WithoutEdge(q, f) = h1 /\ WithHalf(q, f) = h2
  BY DEF WithFresh, WithoutEdge, WithHalf
<1>1. NewNode /\ g' = h3
  BY DEF InsertBetween
<1>2. /\ LeakyPool(G)' /\ Slots \subseteq Slots'
      /\ c \in Slots' \ K /\ K' = K \cup {c} /\ Occupied' = Occupied \cup {c}
      /\ Sound(h0, Slots', K', D) /\ Young(h0, Slots')
      /\ Entries(h0[c]) = {} /\ Entries(h0[q]) = Entries(g[q])
      /\ \A x \in Slots : Entries(h0[x]) = Entries(g[x])
  BY <1>1, NewNodeGraph
<1>3. /\ K \in SUBSET Slots /\ K' \in SUBSET Slots' /\ c \in K' /\ q \in Slots'
      /\ Sound(g, Slots, K, D)
  BY <1>2, HeldInSlots DEF GraphFor
<1>4. f \in K \ {q} /\ q \in K
  <2>1. PICK e \in Entries(g[q]) : e.nr = f
    OBVIOUS
  <2>2. f \in K \ {q} /\ [nr |-> q, age |-> e.age] \in Entries(g[f])
    BY <1>3, <2>1 DEF Sound
  <2>3. PICK d \in Entries(g[f]) : d.nr = q
    BY <2>2
  <2> QED
    BY <1>3, <2>2, <2>3 DEF Sound
<1>5. \A e \in Entries(g[q]) : e.nr \in K
  BY <1>3 DEF Sound
<1>6. /\ q # f /\ q # c /\ f # c
      /\ q \in K' /\ f \in K' /\ f \in Slots'
  BY <1>2, <1>3, <1>4
<1> HIDE DEF c, h0, K
<1>7. Sound(h1, Slots', K', D)
  BY <1>2, <1>3, UnlinkSound
<1>8. Parted(h1, h0, Slots', q, f)
  BY <1>2, <1>3, <1>7, UnlinkSound
<1>9. Young(h1, Slots')
  BY <1>2, <1>3, <1>6, <1>8, PartedYoung
<1>10. (\A e \in Entries(h1[q]) : e.nr # c) /\ Entries(h1[c]) = {}
  <2>1. ASSUME NEW e \in Entries(h1[q]) PROVE e.nr # c
    BY <1>2, <1>5, <1>8 DEF Parted, Others
  <2>2. h1[c] = h0[c]
    BY <1>3, <1>6, <1>8 DEF Parted
  <2> QED
    BY <1>2, <2>1, <2>2
<1> HIDE DEF h1
<1>11. Sound(h2, Slots', K', D)
  BY <1>3, <1>6, <1>7, <1>9, <1>10, LinkGraph
<1>12. Young(h2, Slots')
  BY <1>3, <1>6, <1>7, <1>9, <1>10, <1>11, LinkGraph
<1>13. Joined(h2, h1, Slots', q, c)
  BY <1>3, <1>6, <1>7, <1>9, <1>10, <1>11, LinkGraph
<1>14. \A e \in Entries(h2[c]) : e.nr # f
  <2>1. Entries(h2[c]) = {NewEdge(q)}
    BY <1>10, <1>13 DEF Joined
  <2> QED
    BY <1>6, <2>1 DEF NewEdge
<1> HIDE DEF h2
<1>15. Sound(h3, Slots', K', D)
  BY <1>3, <1>6, <1>11, <1>12, <1>14, LinkGraph
<1>16. Young(h3, Slots')
  BY <1>3, <1>6, <1>11, <1>12, <1>14, <1>15, LinkGraph
<1>17. Joined(h3, h2, Slots', c, f)
  BY <1>3, <1>6, <1>11, <1>12, <1>14, <1>15, LinkGraph
<1> HIDE DEF h3
<1> QED
  BY <1>0, <1>1, <1>2, <1>4, <1>7, <1>8, <1>11, <1>13, <1>15, <1>16, <1>17 DEF c, K

(* Putting a node between two neighbours keeps the pool and the graph sound, also when the
   pool doubles. *)
LEMMA InsertInv ==
  ASSUME NEW G, NEW D \in SUBSET Nat, 0 \in D, LeakyPool(G), GraphFor(G, D),
         NEW q \in Slots, NEW f, \E e \in Entries(g[q]) : e.nr = f,
         InsertBetween(q, f)
  PROVE  LeakyPool(G)' /\ GraphFor(G, D)' /\ Slots \subseteq Slots' /\ PoolMoves
<1>1. PoolMoves
  BY DEF InsertBetween, PoolMoves
<1> QED
  BY <1>1, InsertFacts DEF GraphFor

(* addNewNode, whichever way it ends.                                       *)
LEMMA AddNewNodeStep ==
  ASSUME NEW G, NEW D \in SUBSET Nat, 0 \in D, LoopInv(G, D), AddNewNode
  PROVE  LoopInv(G, D)' /\ PoolMoves /\ pc' \in Running
<1>1. /\ pc' = "search"
      /\ UNCHANGED <<s, winner, second, edg, utility_option>>
      /\ LeakyPool(G) /\ GraphFor(G, D) /\ zeroed \subseteq Slots
  BY DEF AddNewNode, LoopInv, LoopTyped
<1> DEFINE Kept == LeakyPool(G)' /\ GraphFor(G, D)' /\ PoolMoves
<1>2. Kept /\ Slots \subseteq Slots' /\ zeroed' \subseteq Slots'
  <2>1. CASE UNCHANGED <<poolVars, g, zeroed>>
    <3>1. UNCHANGED <<poolVars, g>> /\ zeroed' = zeroed
      BY <2>1
    <3> QED
      BY <1>1, <3>1, SameGraphInv
  <2>2. ASSUME NEW q \in Visible, Orphan(g[q]), DeleteNode(q), UNCHANGED <<g, zeroed>>
        PROVE  Kept /\ Slots' = Slots /\ zeroed' = zeroed
    <3>1. q \in Occupied /\ q \in Held(G)
      BY DEF Visible, ExistsNode, Occupied, Held
    <3>2. Sound(g, Slots, Held(G), D) /\ Young(g, Slots) /\ Held(G) \in SUBSET Slots
      BY <1>1, HeldInSlots DEF GraphFor
    <3>3. Entries(g[q]) = {}
      BY <2>2, <3>1, <3>2, OrphanEmpty DEF Orphan
    <3>4. Sound(g', Slots, Held(G), D) /\ Young(g', Slots) /\ Entries(g'[q]) = {}
      BY <2>2, <3>2, <3>3
    <3> QED
      BY <1>1, <2>2, <3>1, <3>4, DeletedInv
  <2>3. ASSUME NEW q \in Visible, NEW k \in DOMAIN g[q].edges,
               InsertBetween(q, g[q].edges[k].nr)
        PROVE  Kept /\ Slots \subseteq Slots' /\ zeroed' \subseteq Slots'
    <3>1. q \in Slots /\ g[q] \in Node(Slots)
      BY <1>1 DEF Visible, GraphFor, Sound
    <3>2. k \in 1 .. Len(g[q].edges)
      BY <3>1 DEF Node
    <3>3. g[q].edges[k] \in Entries(g[q])
      BY <3>2 DEF Entries
    <3>4. Kept /\ Slots \subseteq Slots'
      BY <1>1, <2>3, <3>1, <3>3, InsertInv
    <3>5. zeroed' = zeroed \ {NewIndex}
      BY <2>3 DEF InsertBetween
    <3> QED
      BY <1>1, <3>4, <3>5
  <2> QED
    BY <1>1, <2>1, <2>2, <2>3 DEF AddNewNode
<1>3. LoopTyped' /\ ScanSafe'
  BY <1>1, <1>2 DEF LoopInv, LoopTyped, ScanSafe
<1> QED
  BY <1>1, <1>2, <1>3 DEF LoopInv, Running

(* A step that is not part of the loop proper: the graph stays as it is,    *)
(* the algorithm stays where it is or stops.                                *)
LEMMA StandstillStep ==
  ASSUME NEW G, NEW D, LoopInv(G, D),
         UNCHANGED <<poolVars, g, s, winner, second, edg, utilityVars>>,
         pc' = pc \/ pc' # "scan"
  PROVE  LoopInv(G, D)' /\ PoolMoves
<1>1. UNCHANGED <<poolVars, g>> /\ UNCHANGED <<s, winner, second, edg, utilityVars>>
  OBVIOUS
<1>2. /\ LeakyPool(G)' /\ GraphFor(G, D)' /\ PoolMoves
      /\ Slots' = Slots /\ Occupied' = Occupied
  BY <1>1, SameGraphInv DEF LoopInv
<1>3. LoopTyped'
  BY <1>1, <1>2 DEF LoopInv, LoopTyped, utilityVars
<1>4. ScanSafe'
  BY <1>1, <1>2 DEF LoopInv, ScanSafe, IsEdge
<1> QED
  BY <1>2, <1>3, <1>4 DEF LoopInv
-----------------------------------------------------------------------------
(* Every step of the loop keeps the invariant, with what was lost and ahead *)
(* before it.                                                               *)
LEMMA LoopStep ==
  ASSUME NEW G, NEW D \in SUBSET Nat, 0 \in D, LoopInv(G, D), Step
  PROVE  LoopInv(G, D)' /\ PoolMoves /\ pc' \in Running
<1> DEFINE Kept == LoopInv(G, D)' /\ PoolMoves /\ pc' \in Running
<1>1. CASE RandomInit
  BY <1>1, RandomInitStep
<1>2. ASSUME NEW w \in Slots, NEW v \in Slots, Adapt(w, v) PROVE Kept
  BY <1>2, AdaptStep
<1>3. CASE ScanEdge
  BY <1>3, ScanEdgeStep
<1>4. CASE AdaptDone
  BY <1>4, AdaptDoneStep
<1>5. CASE AddNewNode
  BY <1>5, AddNewNodeStep
<1>6. CASE SearchSpins \/ NoLargestError
  <2>1. /\ UNCHANGED <<poolVars, g, s, winner, second, edg, utilityVars>>
        /\ pc' # "scan" /\ pc' \in Running
    BY <1>6 DEF SearchSpins, NoLargestError, Running
  <2> QED
    BY <2>1, StandstillStep
<1> QED
  BY <1>1, <1>2, <1>3, <1>4, <1>5, <1>6 DEF Step

(* What a step does to the pool keeps the invariant of the pool.            *)
LEMMA PoolMovesInv ==
  ASSUME PoolInv, PoolMoves
  PROVE  PoolInv'
BY NewNodeInv, DeleteNodeInv, PoolUnchangedInv DEF PoolMoves

(* Every step keeps the invariant. *)
LEMMA AInvStep ==
  ASSUME AInv, [Next]_vars
  PROVE  AInv'
<1>1. PoolInv /\ pc \in Running /\ LoopInv({}, {0})
  BY LoopExact
<1>2. CASE Step
  <2>1. {0} \in SUBSET Nat /\ 0 \in {0}
    OBVIOUS
  <2>2. LoopInv({}, {0})' /\ PoolMoves /\ pc' \in Running
    BY <1>1, <1>2, <2>1, LoopStep
  <2> QED
    BY <1>1, <2>2, PoolMovesInv, LoopExactPrimed
<1>3. CASE UNCHANGED vars
  <2>1. UNCHANGED <<poolVars, g, s, winner, second, edg, utilityVars>> /\ pc' = pc
    BY <1>3 DEF vars, algVars
  <2>2. LoopInv({}, {0})' /\ PoolMoves
    BY <1>1, <2>1, StandstillStep
  <2> QED
    BY <1>1, <2>1, <2>2, PoolMovesInv, LoopExactPrimed
<1> QED
  BY <1>2, <1>3 DEF Next, Stuck

(* Every reachable state satisfies the invariant.                           *)
THEOREM AdaptationInvariant == Spec => []AInv
<1>1. AInv /\ [Next]_vars => AInv'
  BY AInvStep
<1> QED
  BY <1>1, InitAInv, PTL DEF Spec

(* The loop keeps the pool's books straight: the free list, the counter and *)
(* the bound of the node loops hold for GNGAlgorithm's own use of the pool. *)
THEOREM AdaptationPool ==
    Spec => [](PoolTypeOK /\ FreeListExact /\ CountExact /\ MaximumIndexBounds)
<1>1. AInv => PoolTypeOK /\ FreeListExact /\ CountExact /\ MaximumIndexBounds
  BY DEF AInv, PoolInv
<1> QED
  BY <1>1, AdaptationInvariant, PTL

(* The variables of the loop keep their types.                              *)
THEOREM AdaptationTyping == Spec => []TypeOK
<1>1. AInv => TypeOK
  <2> SUFFICES ASSUME AInv PROVE TypeOK
    OBVIOUS
  <2>1. GraphTypeOK
    BY DEF AInv, PoolInv, GraphInv, Sound, GraphTypeOK, Node, Edge, NodeType
  <2> QED
    BY <2>1 DEF AInv, AlgTyped, LoopTyped, Running, TypeOK
<1> QED
  BY <1>1, AdaptationInvariant, PTL

(* Every directed edge has its one reverse, of the same age, at a node that *)
(* exists.                                                                  *)
THEOREM AdaptationEdgesMirrored == Spec => []EdgesMirrored
<1>1. AInv => EdgesMirrored
  BY SoundMirrored DEF AInv, GraphInv
<1> QED
  BY <1>1, AdaptationInvariant, PTL

(* The counter that decides whether a node is an orphan is its degree.      *)
THEOREM AdaptationEdgesCountExact == Spec => []EdgesCountExact
<1>1. AInv => EdgesCountExact
  <2> SUFFICES ASSUME AInv, NEW i \in Occupied PROVE g[i].edgesCount = Len(g[i].edges)
    BY DEF EdgesCountExact, Degree
  <2>1. Sound(g, Slots, Occupied, {0}) /\ i \in Slots
    BY OccupiedInSlots DEF AInv, GraphInv
  <2>2. g[i] \in Node(Slots) /\ Excess(g[i]) = 0
    BY <2>1 DEF Sound
  <2> QED
    BY <2>2, CountWithin
<1> QED
  BY <1>1, AdaptationInvariant, PTL

(* A node that reuses a slot starts without neighbours.                     *)
THEOREM AdaptationFreeSlotsClear == Spec => []FreeSlotsClear
<1>1. AInv => FreeSlotsClear
  BY SoundClear DEF AInv, GraphInv
<1> QED
  BY <1>1, AdaptationInvariant, PTL

(* The branch marked "shouldn't happen" is dead, and the two neurons of an  *)
(* adapt call stay linked nodes to its end.                                 *)
THEOREM AdaptationWinnerSurvives == Spec => []WinnerSurvives
<1>1. AInv => WinnerSurvives
  BY DEF AInv, AlgTyped, Running, ScanSafe, WinnerSurvives
<1> QED
  BY <1>1, AdaptationInvariant, PTL

(* No edge is ever left older than m_max_age.                               *)
THEOREM AdaptationNoEdgeTooOld == Spec => []NoEdgeTooOld
<1>1. AInv => NoEdgeTooOld
  <2> SUFFICES ASSUME AInv, NEW i \in Slots, NEW k \in DOMAIN g[i].edges
               PROVE  g[i].edges[k].age <= MaxAge
    BY DEF NoEdgeTooOld
  <2>1. k \in 1 .. Len(g[i].edges)
    BY DEF AInv, GraphInv, Sound, Node
  <2>2. g[i].edges[k] \in Entries(g[i])
    BY <2>1 DEF Entries
  <2> QED
    BY <2>2 DEF AInv, GraphInv, Young
<1> QED
  BY <1>1, AdaptationInvariant, PTL
-----------------------------------------------------------------------------
(* The network keeps two nodes.  When a round ends either a third node is   *)
(* there or the last winner and its second still have each other, so that   *)
(* neither of them is the orphan addNewNode may delete.                     *)
Enough ==
    /\ pc # "seed" => nodes >= 2
    /\ pc = "grow" => nodes >= 3 \/ \E a \in Occupied : Entries(g[a]) # {}

(* Two different members make a set of at least two, a further one of at least three. *)
LEMMA ThreeMembers ==
  ASSUME NEW S, IsFiniteSet(S), NEW a \in S, NEW b \in S \ {a}
  PROVE  /\ Cardinality(S) >= 2
         /\ \A c \in S \ {a, b} : Cardinality(S) >= 3
<1>1. /\ IsFiniteSet(S \ {a}) /\ Cardinality(S \ {a}) = Cardinality(S) - 1
  BY FS_RemoveElement
<1> DEFINE T == S \ {a}
<1>2. /\ IsFiniteSet(T \ {b}) /\ Cardinality(T \ {b}) = Cardinality(T) - 1
  BY <1>1, FS_RemoveElement
<1> DEFINE U == T \ {b}
<1>3. Cardinality(S) \in Nat /\ Cardinality(T) \in Nat /\ Cardinality(U) \in Nat
  BY <1>1, <1>2, FS_CardinalityType
<1>4. \A c \in S \ {a, b} : Cardinality(U) # 0
  BY <1>2, FS_EmptySet
<1> QED
  BY <1>1, <1>2, <1>3, <1>4

(* A node with an edge is not alone, and beside a node without edges there are three. *)
LEMMA LinkedNodes ==
  ASSUME AInv, NEW a \in Occupied, Entries(g[a]) # {}
  PROVE  /\ nodes >= 2
         /\ \A q \in Occupied : Entries(g[q]) = {} => nodes >= 3
<1>1. PICK e \in Entries(g[a]) : TRUE
  OBVIOUS
<1>2. Sound(g, Slots, Occupied, {0}) /\ a \in Slots
  BY OccupiedInSlots DEF AInv, GraphInv
<1>3. e.nr \in Occupied \ {a} /\ Entries(g[e.nr]) # {}
  BY <1>1, <1>2 DEF Sound
<1>4. IsFiniteSet(Occupied) /\ nodes = Cardinality(Occupied)
  BY OccupiedFinite DEF AInv, PoolInv, CountExact
<1>5. /\ Cardinality(Occupied) >= 2
      /\ \A c \in Occupied \ {a, e.nr} : Cardinality(Occupied) >= 3
  BY <1>3, <1>4, ThreeMembers
<1> QED
  BY <1>3, <1>4, <1>5

(* During the edge loop the winner has an edge. *)
LEMMA WinnerHasEdge ==
  ASSUME AInv, pc = "scan"
  PROVE  winner \in Occupied /\ Entries(g[winner]) # {}
<1>1. winner \in Occupied /\ IsEdge(winner, second) /\ Sound(g, Slots, Occupied, {0})
  BY DEF AInv, ScanSafe, GraphInv
<1> QED
  BY <1>1, IsEdgeEntry, OccupiedInSlots

(* During the edge loop there are two nodes. *)
LEMMA ScanTwoNodes == AInv /\ pc = "scan" => nodes >= 2
BY WinnerHasEdge, LinkedNodes

(* Every step keeps enough nodes and edges, given that the utility option spares small
   networks. *)
LEMMA EnoughStep ==
  ASSUME MinimumNodes >= 4, AInv, AInv', Enough, [Next]_vars
  PROVE  Enough'
<1>1. nodes \in Nat /\ nodes' \in Nat
  BY DEF AInv, PoolInv, PoolTypeOK
<1>2. CASE RandomInit
  BY <1>2 DEF RandomInit, Enough
<1>3. ASSUME NEW w \in Slots, NEW v \in Slots, Adapt(w, v) PROVE Enough'
  BY <1>3 DEF Adapt, Enough, poolVars
<1>4. CASE SearchSpins \/ NoLargestError
  BY <1>4 DEF SearchSpins, NoLargestError, Enough, poolVars
<1>5. CASE ScanEdge
  <2>1. pc' = "scan"
    BY <1>5 DEF ScanEdge, AInv, AlgTyped, Running
  <2>2. (AInv /\ pc = "scan" => nodes >= 2)'
    BY ScanTwoNodes, PTL
  <2> QED
    BY <2>1, <2>2 DEF Enough
<1>6. CASE AdaptDone
  <2>1. nodes >= 2 /\ winner \in Occupied /\ Entries(g[winner]) # {}
    BY <1>6, WinnerHasEdge DEF AdaptDone, Enough
  <2>2. CASE UNCHANGED <<poolVars, g, zeroed>>
    <3>1. UNCHANGED poolVars /\ g' = g
      BY <2>2
    <3>2. nodes' = nodes /\ Occupied' = Occupied
      BY <3>1, PoolSame
    <3> QED
      BY <2>1, <3>1, <3>2 DEF Enough
  <2>3. ASSUME NEW x, MayRetire, ExistsNode(x), DeleteNode(x) PROVE Enough'
    <3>1. nodes >= 4 /\ nodes' = nodes - 1
      BY <2>3, AdaptationAssumption, <1>1 DEF MayRetire, DeleteNode, ReleaseSlot
    <3> QED
      BY <1>1, <3>1 DEF Enough
  <2> QED
    BY <1>6, <2>2, <2>3 DEF AdaptDone, UtilityCriterionCheck
<1>7. CASE AddNewNode
  <2>1. pc = "grow" /\ pc' = "search" /\ nodes >= 2
    BY <1>7 DEF AddNewNode, Enough
  <2>2. CASE UNCHANGED poolVars
    BY <2>1, <2>2 DEF Enough, poolVars
  <2>3. ASSUME NEW q \in Visible, Orphan(g[q]), DeleteNode(q) PROVE Enough'
    <3>1. q \in Occupied /\ ExistsNode(q)
      BY DEF Visible, ExistsNode, Occupied
    <3>2. Entries(g[q]) = {}
      <4>1. Sound(g, Slots, Occupied, {0}) /\ {0} \in SUBSET Nat
        BY DEF AInv, GraphInv
      <4> QED
        BY <2>3, <3>1, <4>1, OccupiedInSlots, OrphanEmpty DEF Orphan
    <3>3. nodes >= 3
      BY <2>1, <3>1, <3>2, LinkedNodes DEF Enough
    <3>4. nodes' = nodes - 1
      BY <2>3, <3>1 DEF DeleteNode, ReleaseSlot
    <3> QED
      BY <1>1, <2>1, <3>3, <3>4 DEF Enough
  <2>4. CASE NewNode
    <3>1. nodes' = nodes + 1
      BY <2>4 DEF NewNode, TakeSlot
    <3> QED
      BY <1>1, <2>1, <3>1 DEF Enough
  <2> QED
    BY <1>7, <2>2, <2>3, <2>4 DEF AddNewNode, InsertBetween
<1>8. CASE UNCHANGED vars
  <2>1. UNCHANGED poolVars /\ g' = g /\ pc' = pc
    BY <1>8 DEF vars, algVars
  <2>2. nodes' = nodes /\ Occupied' = Occupied
    BY <2>1, PoolSame
  <2> QED
    BY <2>1, <2>2 DEF Enough
<1> QED
  BY <1>2, <1>3, <1>4, <1>5, <1>6, <1>7, <1>8 DEF Next, Step, Stuck

(* There are always enough nodes and edges, given that the utility option spares small
   networks. *)
LEMMA EnoughAlways ==
  ASSUME MinimumNodes >= 4
  PROVE  Spec => []Enough
<1>1. Init => Enough
  BY DEF Init, Enough
<1>2. AInv /\ AInv' /\ Enough /\ [Next]_vars => Enough'
  BY EnoughStep
<1> QED
  BY <1>1, <1>2, AdaptationInvariant, PTL DEF Spec

(* With the utility option removing nodes from four on at the earliest (the *)
(* code: from ten on), the network never falls below two nodes.             *)
THEOREM AdaptationTwoNodesLeft ==
  ASSUME MinimumNodes >= 4
  PROVE  Spec => []TwoNodesLeft
<1>1. Enough => TwoNodesLeft
  BY DEF Enough, TwoNodesLeft
<1> QED
  BY <1>1, EnoughAlways, PTL

(* The search without end and the null pointer need a hidden node: with two *)
(* nodes there is one to find, unless existsNode does not see it.           *)
THEOREM AdaptationStuckOnlyByHiding ==
  ASSUME MinimumNodes >= 4
  PROVE  Spec => []StuckOnlyByHiding
<1>1. Init => StuckOnlyByHiding
  BY DEF Init, StuckOnlyByHiding
<1>2. ASSUME AInv, Enough, StuckOnlyByHiding, [Next]_vars PROVE StuckOnlyByHiding'
  <2>1. CASE SearchSpins \/ NoLargestError
    <3>1. UNCHANGED poolVars /\ nodes >= 2 /\ \A w, v \in Visible : w = v
      BY <1>2, <2>1 DEF SearchSpins, NoLargestError, Enough
    <3>2. Visible' = Visible /\ Occupied' = Occupied
      BY <3>1 DEF Visible, ExistsNode, Occupied, Slots, poolVars
    <3>3. IsFiniteSet(Occupied) /\ nodes = Cardinality(Occupied) /\ nodes \in Nat
      BY <1>2, OccupiedFinite DEF AInv, PoolInv, PoolTypeOK, CountExact
    <3>4. ASSUME \A w, v \in Occupied : w = v PROVE FALSE
      <4>1. PICK a \in Occupied : TRUE
        BY <3>1, <3>3, FS_EmptySet
      <4>2. Occupied \ {a} = {}
        BY <3>4
      <4>3. Cardinality(Occupied \ {a}) = Cardinality(Occupied) - 1
        BY <3>3, FS_RemoveElement
      <4> QED
        BY <3>1, <3>3, <4>2, <4>3, FS_EmptySet
    <3> QED
      BY <3>1, <3>2, <3>4 DEF StuckOnlyByHiding
  <2>2. CASE UNCHANGED vars
    BY <1>2, <2>2 DEF StuckOnlyByHiding, vars, poolVars, algVars,
                      Visible, ExistsNode, Occupied, Slots
  <2>3. CASE \/ RandomInit \/ ScanEdge \/ AdaptDone \/ AddNewNode
             \/ \E w, v \in Slots : Adapt(w, v)
    <3>1. pc' \notin {"spinning", "crashed"}
      BY <2>3 DEF RandomInit, Adapt, ScanEdge, AdaptDone, AddNewNode
    <3> QED
      BY <3>1 DEF StuckOnlyByHiding
  <2> QED
    BY <1>2, <2>1, <2>2, <2>3 DEF Next, Step, Stuck
<1> QED
  BY <1>1, <1>2, AdaptationInvariant, EnoughAlways, PTL DEF Spec
=============================================================================
