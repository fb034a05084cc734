------------------------------ MODULE NodePool ------------------------------
(****************************************************************************)
(* The pool of node slots inside RAMGNGGraph (inst/include/gng/             *)
(* gng_graph.hpp): a free list threaded through next_free, the occupied     *)
(* flags, the number of nodes, the highest index in use and the doubling of *)
(* the pool when the free list is empty.                                    *)
(*                                                                          *)
(* `size' is g.size().  The graph mutex is held by every caller of newNode  *)
(* and taken by deleteNode, so each of the two is one atomic step.          *)
(*                                                                          *)
(* A definition whose name starts with Bug is the definition after it with  *)
(* a mistake put in; no action uses it, it is there to be swapped in.       *)
(****************************************************************************)
EXTENDS Integers, FiniteSets

CONSTANTS InitialPool,  \* starting_nodes of the configuration
          MaxNodes      \* m_max_nodes: no client asks for more nodes than this

ASSUME PoolAssumption == /\ InitialPool \in Nat \ {0}
                         /\ MaxNodes \in Nat

VARIABLES size, occupied, next_free, first_free, maximum_index, nodes

poolVars == <<size, occupied, next_free, first_free, maximum_index, nodes>>

NoSlot == -1

Slots == 0 .. size - 1

Occupied == {i \in Slots : occupied[i]}

FreeSlots == Slots \ Occupied

(* existsNode compares the index with the NUMBER of nodes. *)
ExistsNode(i) == i < nodes /\ occupied[i]
-----------------------------------------------------------------------------
PoolInit ==
    /\ size = InitialPool
    /\ occupied = [i \in Slots |-> FALSE]
    /\ next_free = [i \in Slots |-> IF i = size - 1 THEN NoSlot ELSE i + 1]
    /\ first_free = 0
    /\ maximum_index = -1
    /\ nodes = 0

(* newNode once the slot s heads the free list: `occ' and `nxt' are the     *)
(* arrays of the (possibly just grown) pool.                                *)
BugOverwritesMaximum(s) == s
RaisedMaximum(s) == IF s > maximum_index THEN s ELSE maximum_index

TakeSlot(s, occ, nxt) ==
    /\ maximum_index' = RaisedMaximum(s)
    /\ occupied' = [occ EXCEPT ![s] = TRUE]
    /\ first_free' = nxt[s]
    /\ next_free' = nxt
    /\ nodes' = nodes + 1

(* resizeGraph: the new upper half is chained from `size', and the slot     *)
(* size - 1 (in use at this point) is given a successor as well.            *)
GrownOccupied ==
    [i \in 0 .. 2 * size - 1 |-> IF i < size THEN occupied[i] ELSE FALSE]

BugNoTerminator ==
    [i \in 0 .. 2 * size - 1 |-> IF i >= size - 1 THEN i + 1 ELSE next_free[i]]
GrownNextFree ==
    [i \in 0 .. 2 * size - 1 |->
        IF i = 2 * size - 1 THEN NoSlot
        ELSE IF i >= size - 1 THEN i + 1
        ELSE next_free[i]]

(* The number newNode returns. *)
BugStartsOneEarly == IF first_free = NoSlot THEN size - 1 ELSE first_free
NewIndex == IF first_free = NoSlot THEN size ELSE first_free

NewNode ==
    \/ /\ first_free # NoSlot
       /\ TakeSlot(NewIndex, occupied, next_free)
       /\ UNCHANGED size
    \/ /\ first_free = NoSlot
       /\ size' = 2 * size
       /\ TakeSlot(NewIndex, GrownOccupied, GrownNextFree)

(* The slot x goes to the front of the free list. *)
BugNotChained(x) == first_free' = x /\ nodes' = nodes - 1 /\ UNCHANGED next_free

BugDropsRest(x) ==
    /\ next_free' = [next_free EXCEPT ![x] = NoSlot]
    /\ first_free' = x
    /\ nodes' = nodes - 1

BugNotCounted(x) ==
    /\ next_free' = [next_free EXCEPT ![x] = first_free]
    /\ first_free' = x
    /\ UNCHANGED nodes

ReleaseSlot(x) ==
    /\ next_free' = [next_free EXCEPT ![x] = first_free]
    /\ first_free' = x
    /\ nodes' = nodes - 1

(* deleteNode(x); callers have already removed the edges of x.  It returns  *)
(* false and changes nothing when existsNode(x) is false.                   *)
DeleteNode(x) ==
    IF ExistsNode(x)
    THEN /\ maximum_index' = IF maximum_index = x THEN maximum_index - 1
                                                  ELSE maximum_index
         /\ occupied' = [occupied EXCEPT ![x] = FALSE]
         /\ ReleaseSlot(x)
         /\ UNCHANGED size
    ELSE UNCHANGED poolVars

(* The pool on its own, used the way GNGAlgorithm uses it: addNewNode asks  *)
(* for a node only below max_nodes, nodes with no edges are deleted.        *)
PoolNext == \/ nodes < MaxNodes /\ NewNode
            \/ \E x \in Occupied : DeleteNode(x)

PoolSpec == PoolInit /\ [][PoolNext]_poolVars
-----------------------------------------------------------------------------
PoolTypeOK ==
    /\ size \in Nat \ {0}
    /\ occupied \in [Slots -> BOOLEAN]
    /\ next_free \in [Slots -> Slots \cup {NoSlot}]
    /\ first_free \in Slots \cup {NoSlot}
    /\ maximum_index \in -1 .. size - 1
    /\ nodes \in Nat

(* fl lists the slots met when next_free is followed from first_free. *)
FollowsFreeList(n, fl) ==
    /\ first_free = IF n = 0 THEN NoSlot ELSE fl[1]
    /\ \A k \in 1 .. n : next_free[fl[k]] = IF k = n THEN NoSlot ELSE fl[k + 1]

ListsFreeSlots(n, fl) ==
    /\ \A j, k \in 1 .. n : fl[j] = fl[k] => j = k
    /\ \A i \in FreeSlots : \E k \in 1 .. n : fl[k] = i

(* The free list never loses a slot, never holds one twice and never holds  *)
(* an occupied one, however nodes are created, deleted and the pool grown.  *)
FreeListExact ==
    \E n \in 0 .. size : \E fl \in [1 .. n -> FreeSlots] :
        FollowsFreeList(n, fl) /\ ListsFreeSlots(n, fl)

(* The counter that existsNode, addNewNode and the clustering rely on is    *)
(* the number of occupied slots, and no occupied slot is above              *)
(* maximum_index, which bounds every loop over the nodes.                   *)
CountExact == nodes = Cardinality(Occupied)

MaximumIndexBounds == \A i \in Occupied : i <= maximum_index

(* The pool doubles only when every slot is in use: slots do not leak, so   *)
(* memory stays within twice the largest number of nodes ever held.         *)
GrowsOnlyWhenFull == [][size' # size => Occupied = Slots]_poolVars

(* The pool implements the allocator its clients assume: newNode never      *)
(* hands out a number in use and deleteNode gives back exactly its node.    *)
Allocator == INSTANCE NodeAllocator WITH live <- Occupied, count <- nodes

ImplementsAllocator == Allocator!ASpec
=============================================================================
