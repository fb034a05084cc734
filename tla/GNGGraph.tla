------------------------------ MODULE GNGGraph ------------------------------
(****************************************************************************)
(* The graph of RAMGNGGraph: on top of the node pool, every slot holds a    *)
(* GNGNode, a vector of directed edges with the counter edgesCount beside   *)
(* it.  An undirected edge is a pair of directed ones, each the other's     *)
(* `rev'.  Positions, errors and utilities are abstracted away.             *)
(****************************************************************************)
EXTENDS NodePool, Sequences, SequencesExt

VARIABLE g   \* the slots: [edges |-> sequence of GNGEdge, edgesCount]

EmptyNode == [edges |-> <<>>, edgesCount |-> 0]

NewEdge(n) == [nr |-> n, age |-> 0]

Degree(i) == Len(g[i].edges)

(* isEdge *)
IsEdge(a, b) == \E k \in DOMAIN g[a].edges : g[a].edges[k].nr = b

(* The index, among the edges of a node, of its first edge to b.            *)
EdgeTo(edges, b) ==
    CHOOSE k \in DOMAIN edges : /\ edges[k].nr = b
                                /\ \A j \in 1 .. k - 1 : edges[j].nr # b

(* addUDEdge and removeUDEdge as functions of the slots: several of them    *)
(* run one after the other under a single hold of the graph lock.           *)
Linked(node, n) == [edges |-> Append(node.edges, NewEdge(n)),
                    edgesCount |-> node.edgesCount + 1]

Unlinked(node, n) == [edges |-> RemoveAt(node.edges, EdgeTo(node.edges, n)),
                      edgesCount |-> node.edgesCount - 1]

BugCountsOneSide(slots, a, b) ==
    [slots EXCEPT ![a] = Linked(@, b),
                  ![b].edges = Append(@, NewEdge(a))]
AddUDEdge(slots, a, b) ==
    [slots EXCEPT ![a] = Linked(@, b), ![b] = Linked(@, a)]

RemoveUDEdge(slots, a, b) ==
    [slots EXCEPT ![a] = Unlinked(@, b), ![b] = Unlinked(@, a)]

(* The slots right after newNode has taken slot c: the pool may have grown, *)
(* the counter of c is reset, its vector of edges is left as it is.         *)
WithNewNode(c) ==
    LET old(i) == IF i \in Slots THEN g[i] ELSE EmptyNode
    IN  [i \in Slots' |-> IF i = c THEN [old(i) EXCEPT !.edgesCount = 0]
                                   ELSE old(i)]
-----------------------------------------------------------------------------
NodeType == [edges : Seq([nr : Slots, age : Nat]), edgesCount : Int]

GraphTypeOK == PoolTypeOK /\ g \in [Slots -> NodeType]

(* "Assuming it is clear here" (newNode): a slot waiting on the free list   *)
(* has no edges, so that a node that reuses it starts without neighbours.   *)
FreeSlotsClear == \A i \in FreeSlots : Degree(i) = 0

(* Every directed edge has its one reverse, of the same age, at a node that *)
(* exists; there are no loops and no parallel edges.  removeUDEdge, which   *)
(* erases the first match on one side and `rev' on the other, relies on it. *)
EdgesMirrored ==
    \A a \in Slots : \A k \in DOMAIN g[a].edges :
        LET b == g[a].edges[k].nr
        IN  /\ b \in Occupied \ {a}
            /\ \A j \in DOMAIN g[a].edges : g[a].edges[j].nr = b => j = k
            /\ \E j \in DOMAIN g[b].edges :
                  g[b].edges[j] = [nr |-> a, age |-> g[a].edges[k].age]

(* The counter that decides whether a node is an orphan is its degree.      *)
EdgesCountExact == \A i \in Occupied : g[i].edgesCount = Degree(i)
=============================================================================
