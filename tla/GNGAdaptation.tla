--------------------------- MODULE GNGAdaptation ---------------------------
(****************************************************************************)
(* The learning loop of GNGAlgorithm (src/gng/gng_algorithm.cpp) seen as a  *)
(* process on the graph: randomInit, `m_lambda' calls of adapt, addNewNode, *)
(* and again, with the brute force nearest neuron search and no lazy heap,  *)
(* with and without the utility option.  Every step is under the graph lock.*)
(*                                                                          *)
(* adapt is split where its edge loop iterates: one step chooses the two    *)
(* nearest neurons and links them, then one step per pass of the loop.      *)
(* Which neurons are nearest, and which has the largest error, depends on   *)
(* real-valued data: any choice among those the code looks at is allowed.   *)
(*                                                                          *)
(* A definition whose name starts with Bug is the definition after it with  *)
(* a mistake put in; no action uses it, it is there to be swapped in.       *)
(****************************************************************************)
EXTENDS GNGGraph

CONSTANTS MaxAge,          \* m_max_age
          Lambda,          \* m_lambda
          UtilityOptions,  \* of "None" and "BasicUtility"
          MinimumNodes     \* the utility option removes from so many on,
                           \* 10 in the code

ASSUME AdaptationAssumption ==
    /\ MaxAge \in Nat /\ Lambda \in Nat \ {0}
    /\ UtilityOptions \subseteq {"None", "BasicUtility"} /\ MinimumNodes \in Nat

VARIABLES pc,       \* where the algorithm is
          s,        \* adapt calls made in this round
          winner,   \* nearest_0 and nearest_1 of the adapt call under way
          second,
          edg,      \* the iterator over the edges of the winner
          utility_option,
          zeroed    \* the slots whose utility is 0; all others' is positive

algVars == <<pc, s, winner, second, edg>>
utilityVars == <<utility_option, zeroed>>
vars == <<poolVars, g, algVars, utilityVars>>

NoNode == -1

(* The nodes the searches consider. *)
Visible == {i \in Slots : ExistsNode(i)}

Init == /\ PoolInit
        /\ g = [i \in Slots |-> EmptyNode]
        /\ pc = "seed" /\ s = 0
        /\ winner = NoNode /\ second = NoNode /\ edg = 0
        /\ utility_option \in UtilityOptions /\ zeroed = {}

(* randomInit: two nodes without edges, of a small positive utility. *)
RandomInit ==
    /\ pc = "seed"
    /\ NewNode
    /\ g' = WithNewNode(NewIndex)
    /\ pc' = IF nodes' = 2 THEN "search" ELSE "seed"
    /\ UNCHANGED <<s, winner, second, edg, utilityVars>>

(* if (!isEdge) addUDEdge *)
BugLinksNothing(w, v) == g
Link(w, v) == IF IsEdge(w, v) THEN g ELSE AddUDEdge(g, w, v)

(* adapt up to its edge loop. *)
Adapt(w, v) ==
    /\ pc = "search"
    /\ {w, v} \subseteq Visible /\ w # v
    /\ g' = Link(w, v)
    /\ pc' = "scan"
    /\ winner' = w /\ second' = v /\ edg' = 1
    /\ UNCHANGED <<poolVars, s, utilityVars>>

(* One of the two searches of _getNearestNeurons has nothing to find and    *)
(* `while (!existsNode(start_index) ...) ++start_index' never ends.         *)
SearchSpins ==
    /\ pc = "search"
    /\ \A w, v \in Visible : w = v
    /\ pc' = "spinning"
    /\ UNCHANGED <<poolVars, g, s, winner, second, edg, utilityVars>>

(* The edge at edg, one pass older on both sides, or reset when it leads    *)
(* to nearest_1.                                                            *)
Aged(edge, other) ==
    [edge EXCEPT !.age = IF other = second THEN 0 ELSE @ + 1]

AgeEdge(other, rev) ==
    [g EXCEPT ![winner].edges[edg] = Aged(@, other),
              ![other].edges[rev]  = Aged(@, other)]

(* The test runs on the age already incremented. *)
BugComparesOldAge(edge) == edge.age - 1 > MaxAge
Expired(edge) == edge.age > MaxAge

(* Where the iterator stands for the next pass: erasing moves the next edge *)
(* to the place of the erased one (`--edg' and `++edg' cancel out).         *)
BugSkipsAfterErase(erased) == edg + 1
BugNeverAdvances(erased) == edg
NextEdge(erased) == IF erased THEN edg ELSE edg + 1

BugOrphanWithOneEdge(node) == node.edgesCount <= 1
Orphan(node) == node.edgesCount = 0

OrphansLeave == utility_option = "None"

(* One pass of the loop over the edges of the winner.  An orphaned          *)
(* neighbour is deleted, unless deleteNode does not see it or the utility   *)
(* option is on.  "lost_winner" is the branch marked "shouldn't happen".    *)
ScanEdge ==
    /\ pc = "scan"
    /\ edg <= Degree(winner)
    /\ LET other == g[winner].edges[edg].nr
           aged  == AgeEdge(other, EdgeTo(g[other].edges, winner))
           erase == Expired(aged[winner].edges[edg])
       IN  /\ g' = IF erase THEN RemoveUDEdge(aged, winner, other) ELSE aged
           /\ IF erase /\ OrphansLeave /\ Orphan(g'[other])
              THEN DeleteNode(other) ELSE UNCHANGED poolVars
           /\ pc' = IF erase /\ OrphansLeave /\ Orphan(g'[winner])
                    THEN "lost_winner" ELSE pc
           /\ edg' = NextEdge(erase)
    /\ UNCHANGED <<s, winner, second, utilityVars>>

(* utilityCriterionCheck looks for the least utility among all slots up to  *)
(* maximum_index, the free ones too, and removes the node if it is one and  *)
(* the largest error is large enough beside it.  The loop that removes its  *)
(* edges one by one is Stripped.                                            *)
LeastUseful ==
    LET all == 0 .. maximum_index
    IN  IF all \cap zeroed = {} THEN all
        ELSE {x \in all \cap zeroed : \A y \in all \cap zeroed : x <= y}

BugStripsOneSide(x) == [g EXCEPT ![x] = [@ EXCEPT !.edges = <<>>, !.edgesCount = 0]]
Stripped(x) ==
    [i \in Slots |->
        CASE i = x        -> [edges |-> <<>>, edgesCount |-> g[x].edgesCount - Degree(x)]
          [] IsEdge(x, i) -> Unlinked(g[i], x)
          [] OTHER        -> g[i]]

BugNoMinimum == utility_option = "BasicUtility"
MayRetire == utility_option = "BasicUtility" /\ nodes >= MinimumNodes

UtilityCriterionCheck ==
    \/ UNCHANGED <<poolVars, g, zeroed>>
    \/ /\ MayRetire
       /\ \E x \in LeastUseful :
             /\ ExistsNode(x)
             /\ g' = Stripped(x)
             /\ DeleteNode(x)
             /\ zeroed' = zeroed \cup {x}

(* adapt returns; after m_lambda of them comes addNewNode. *)
BugOneAdaptMore == s < Lambda
RoundGoesOn == s + 1 < Lambda

AdaptDone ==
    /\ pc = "scan"
    /\ edg > Degree(winner)
    /\ IF RoundGoesOn THEN pc' = "search" /\ s' = s + 1
                      ELSE pc' = "grow" /\ s' = 0
    /\ winner' = NoNode /\ second' = NoNode /\ edg' = 0
    /\ UtilityCriterionCheck
    /\ UNCHANGED utility_option

(* addNewNode between the node q of largest error and the neighbour f of q  *)
(* of largest error.                                                        *)
InsertBetween(q, f) ==
    LET c == NewIndex
    IN  /\ NewNode
        /\ g' = AddUDEdge(AddUDEdge(RemoveUDEdge(WithNewNode(c), q, f), q, c), c, f)
        /\ zeroed' = zeroed \ {c}

AddNewNode ==
    /\ pc = "grow"
    /\ \/ nodes >= MaxNodes /\ UNCHANGED <<poolVars, g, zeroed>>
       \/ /\ nodes < MaxNodes
          /\ \E q \in Visible :
                \/ /\ Orphan(g[q])     \* LargestErrorNodes deletes it
                   /\ DeleteNode(q)
                   /\ UNCHANGED <<g, zeroed>>
                \/ /\ ~Orphan(g[q]) /\ g[q].edges = <<>>   \* no second node
                   /\ UNCHANGED <<poolVars, g, zeroed>>
                \/ \E k \in DOMAIN g[q].edges : InsertBetween(q, g[q].edges[k].nr)
    /\ pc' = "search"
    /\ UNCHANGED <<s, winner, second, edg, utility_option>>

(* LargestErrorNodes finds no node and reads through its null pointer. *)
NoLargestError ==
    /\ pc = "grow"
    /\ nodes < MaxNodes
    /\ Visible = {}
    /\ pc' = "crashed"
    /\ UNCHANGED <<poolVars, g, s, winner, second, edg, utilityVars>>

(* A search that never ends and a crash leave the graph as it is for ever.  *)
Stuck == pc \in {"spinning", "crashed"} /\ UNCHANGED vars

Step == \/ RandomInit
        \/ \E w, v \in Slots : Adapt(w, v)
        \/ SearchSpins
        \/ ScanEdge
        \/ AdaptDone
        \/ AddNewNode
        \/ NoLargestError

Next == Step \/ Stuck

(* The algorithm thread keeps running. *)
Spec == Init /\ [][Next]_vars /\ WF_vars(Step)
-----------------------------------------------------------------------------
TypeOK ==
    /\ GraphTypeOK
    /\ pc \in {"seed", "search", "scan", "grow", "spinning", "crashed", "lost_winner"}
    /\ s \in 0 .. Lambda - 1
    /\ winner \in Slots \cup {NoNode} /\ second \in Slots \cup {NoNode}
    /\ edg \in Nat
    /\ utility_option \in UtilityOptions /\ zeroed \subseteq Slots

(* Aging never takes the winner's last edge: the branch marked "shouldn't   *)
(* happen" is dead, the edge to nearest_1 outlives the scan and both ends   *)
(* of it are still nodes, although other nodes are deleted meanwhile.       *)
WinnerSurvives ==
    /\ pc # "lost_winner"
    /\ pc = "scan" => {winner, second} \subseteq Occupied /\ IsEdge(winner, second)

(* Between two adapt calls no edge is older than m_max_age: the scan, which *)
(* erases while it iterates, misses none.                                   *)
NoEdgeTooOld ==
    \A i \in Slots : \A k \in DOMAIN g[i].edges : g[i].edges[k].age <= MaxAge

(* The network never falls below the two nodes of randomInit: the last      *)
(* winner and its second nearest are linked, and the utility option takes   *)
(* one of them away only from a network that is large enough (from four     *)
(* nodes on; the code has ten).                                             *)
TwoNodesLeft == pc # "seed" => nodes >= 2

(* Nodes do not disappear: the search without end and the null pointer are  *)
(* only reached with nodes that exist but are hidden above a hole.          *)
StuckOnlyByHiding == pc \in {"spinning", "crashed"} => Visible # Occupied

(* Every scan of the winner's edges ends.                                   *)
ScanEnds == pc = "scan" ~> pc \in {"search", "grow"}

(* "GNG has not isolated vertexes" (tests, and a debug check after every    *)
(* round): no node that the graph shows is without edges when a round ends. *)
(* The code breaks it: deleteNode does not see an orphan whose number is    *)
(* not below the count, and the orphan shows once the count has grown.      *)
NoIsolatedVertex == pc = "grow" => \A i \in Visible : g[i].edgesCount # 0

(* "After reaching this size it will continue running" (README): once there *)
(* were max_nodes nodes, rounds go on being completed.  The code breaks it: *)
(* with fewer than two visible nodes the nearest neuron search never ends.  *)
ContinuesRunning == [](nodes = MaxNodes => []<>(pc = "grow"))
=============================================================================
