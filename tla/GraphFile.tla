------------------------------ MODULE GraphFile ------------------------------
(****************************************************************************)
(* Saving a graph and going on from the file: GNGServer::save with          *)
(* RAMGNGGraph::serialize, and a new server made by load.gng with           *)
(* RAMGNGGraph::load, whose algorithm trains the restored graph.            *)
(*                                                                          *)
(* What load does depends on the file alone, so the old server's last save  *)
(* and the start of the new one are one step, taken wherever the algorithm  *)
(* does not hold the graph lock.  The file is a record, the numbers of a    *)
(* section a function; the configuration in front of them is constant.      *)
(*                                                                          *)
(* A definition whose name starts with Bug is the definition after it with  *)
(* a mistake put in; no action uses it, it is there to be swapped in.       *)
(****************************************************************************)
EXTENDS GNGAdaptation

CONSTANT MaxLoads   \* bound: servers made from a file

ASSUME FileAssumption == MaxLoads \in Nat

VARIABLES unset,    \* slots whose position pointer is null
          loads,
          hidden    \* history: a file was saved while nodes were hidden

fileVars == <<unset, loads, hidden>>

Absent == -1
Hidden == {i \in Occupied : ~ExistsNode(i)}
-----------------------------------------------------------------------------
(* serialize: a node that existsNode does not show is written as absent.    *)
DumpEdges(node) == [k \in DOMAIN node.edges |-> node.edges[k].nr]

DumpVertexData(i) == IF ExistsNode(i) THEN g[i].edgesCount ELSE Absent

Serialized ==
    [size |-> size, bound |-> maximum_index + 1, free |-> first_free, count |-> nodes,
     vertex |-> [i \in Slots |-> DumpVertexData(i)],
     edges  |-> [i \in Slots |-> IF ExistsNode(i) THEN DumpEdges(g[i]) ELSE <<>>],
     next   |-> next_free]

(* load: the slots with edgesCount as it was saved, then the edges, each    *)
(* from its lower end, added by addUDEdge, which counts them once more.     *)
LoadVertexData(count) ==
    IF count = Absent THEN EmptyNode ELSE [EmptyNode EXCEPT !.edgesCount = count]

BugFromBothEnds(i, b) == i # b
FromLowerEnd(i, b) == b > i

LoadEdge(slots, i, b) == IF FromLowerEnd(i, b) THEN AddUDEdge(slots, i, b) ELSE slots

LoadEdgesOf(slots, i, ends) == FoldLeft(LAMBDA h, b : LoadEdge(h, i, b), slots, ends)

LoadEdges(slots, edges) ==
    FoldLeft(LAMBDA h, i : LoadEdgesOf(h, i, edges[i]), slots,
             [k \in 1 .. Cardinality(DOMAIN edges) |-> k - 1])

BugForgetsFreeList(file) == [i \in DOMAIN file.next |-> 0]
LoadNextFree(file) == file.next

LoadMaximum(file) == file.bound - 1

Load(file) ==
    /\ size' = file.size
    /\ maximum_index' = LoadMaximum(file)
    /\ first_free' = file.free
    /\ nodes' = file.count
    /\ occupied' = [i \in DOMAIN file.vertex |-> file.vertex[i] # Absent]
    /\ g' = LoadEdges([i \in DOMAIN file.vertex |-> LoadVertexData(file.vertex[i])], file.edges)
    /\ next_free' = LoadNextFree(file)
    /\ unset' = {i \in DOMAIN file.vertex : file.vertex[i] = Absent}

(* Save, and the first steps of the new server's thread. *)
Restart ==
    /\ loads < MaxLoads
    /\ pc \in {"search", "grow"} \/ (pc = "seed" /\ nodes = 0)
    /\ Load(Serialized)
    /\ pc' = CASE nodes' = 0 -> "seed"
               [] nodes' = 1 -> "aborted"
               [] OTHER -> "search"
    /\ s' = 0
    /\ winner' = NoNode /\ second' = NoNode /\ edg' = 0
    /\ loads' = loads + 1
    /\ hidden' = (hidden \/ Hidden # {})
    /\ UNCHANGED utilityVars
-----------------------------------------------------------------------------
(* newNode gives its slot a position, resizeGraph every slot.               *)
Positioned == unset' = IF size' # size THEN {} ELSE {i \in unset : ~occupied'[i]}

Neighbours(slots, i) == {slots[i].edges[k].nr : k \in DOMAIN slots[i].edges}

Train ==
    /\ \/ RandomInit \/ SearchSpins \/ ScanEdge \/ AdaptDone \/ NoLargestError
       \/ \E w, v \in Slots : Adapt(w, v) /\ Neighbours(g, w) \cap unset = {}
       \/ /\ AddNewNode
          /\ nodes' > nodes => Neighbours(g', NewIndex) \cap unset = {}
    /\ Positioned
    /\ UNCHANGED <<loads, hidden>>

(* adapt moves the neighbours of the winner, addNewNode takes the middle of *)
(* two nodes: either goes through the pointer.                              *)
NullPosition ==
    /\ \/ /\ pc = "search"
          /\ Cardinality(Visible) > 1
          /\ \E w \in Visible : Neighbours(g, w) \cap unset # {}
       \/ /\ pc = "grow" /\ nodes < MaxNodes
          /\ \E q \in Visible : ~Orphan(g[q]) /\ Neighbours(g, q) \cap unset # {}
    /\ pc' = "null_position"
    /\ UNCHANGED <<poolVars, g, s, winner, second, edg, utilityVars, fileVars>>

Over == pc \in {"spinning", "crashed", "aborted", "null_position"}
        /\ UNCHANGED <<vars, fileVars>>

FInit == Init /\ unset = {} /\ loads = 0 /\ hidden = FALSE

FNext == Train \/ Restart \/ NullPosition \/ Over

FSpec == FInit /\ [][FNext]_<<vars, fileVars>>
-----------------------------------------------------------------------------
FileTypeOK ==
    /\ GraphTypeOK
    /\ pc \in {"seed", "search", "scan", "grow", "spinning", "crashed", "lost_winner",
               "aborted", "null_position"}
    /\ unset \subseteq Slots /\ loads \in 0 .. MaxLoads /\ hidden \in BOOLEAN

(* A node with edges is never taken for an orphan, whatever was restored:   *)
(* the counter is the number of edges, or above it after a restart.         *)
NoFalseOrphan ==
    \A i \in Occupied : IF loads = 0 THEN g[i].edgesCount = Degree(i)
                                     ELSE g[i].edgesCount >= Degree(i)

(* A graph restored from a file without hidden nodes trains as soundly as   *)
(* the one that was saved: free list, count and edges fit together at every *)
(* later step, no free slot has edges, no null position is reached.  After  *)
(* any file the types hold and no node with edges counts as an orphan.      *)
RestoredSound ==
    /\ FileTypeOK
    /\ NoFalseOrphan
    /\ ~hidden => /\ FreeListExact /\ CountExact /\ MaximumIndexBounds
                  /\ EdgesMirrored /\ FreeSlotsClear
                  /\ pc # "null_position"

(* What is restored is what was shown: the visible nodes and the edges      *)
(* among them, each once and young, whatever else was lost.                 *)
EdgesAmong(slots, S) == {e \in S \X S : e[2] \in Neighbours(slots, e[1])}

OnceAndYoung(edges) ==
    \A k \in DOMAIN edges :
        edges[k].age = 0 /\ \A j \in DOMAIN edges : edges[j].nr = edges[k].nr => j = k

VisibleRestored ==
    [][loads' # loads =>
          /\ Visible' = Visible
          /\ EdgesAmong(g', Visible) = EdgesAmong(g, Visible)
          /\ \A i \in Visible : OnceAndYoung(g'[i].edges)]_<<vars, fileVars>>

(* However much the file has lost, newNode hands out no number in use.      *)
NumbersFresh == first_free # NoSlot => ~occupied[first_free]

(* "fields have to be properly copied/initialized" (GNGNode): also after a  *)
(* restart the counter that marks orphans is the number of edges.  The code *)
(* breaks it: load restores the counter and addUDEdge adds the edges to it. *)
RestoredCountExact == ~hidden => EdgesCountExact
=============================================================================
