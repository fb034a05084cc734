----------------------------- MODULE UniformGrid -----------------------------
(****************************************************************************)
(* The nearest neuron search with m_toggle_uniformgrid set: the grid of     *)
(* inst/include/gng/uniform_grid.hpp, and how GNGAlgorithm keeps it up to   *)
(* date while nodes come, move and go and the grid is made finer.           *)
(*                                                                          *)
(* The bounding box has its origin at 0 and axes of one length.  Positions  *)
(* are a few points of it, distances are squared Euclidean                  *)
(* (GNGGraphAccessHack::dist).  Edges are left out: any other node may be a *)
(* neighbour and any may lose its last edge.                                *)
(*                                                                          *)
(* Two nodes are never at the same point, nor one where another just was:   *)
(* with real coordinates that takes equal examples, or rounding.            *)
(* SamePoints lifts the restriction.                                        *)
(*                                                                          *)
(* A definition whose name starts with Bug is the definition after it with  *)
(* a mistake put in; no action uses it, it is there to be swapped in.       *)
(****************************************************************************)
EXTENDS Integers, Sequences, SequencesExt, FiniteSets, FiniteSetsExt

CONSTANTS Dimensions,  \* values of gng_dim
          Line,        \* coordinates on the only axis
          Square,      \* coordinates on each of several axes
          Side,        \* length of the axes of the bounding box
          FirstLength, \* the cell length the grid starts with
          MaxSize,     \* MAX_SIZE: the grid never grows beyond so many cells
          MaxNodes,    \* m_max_nodes
          SamePoints   \* nodes may meet

ASSUME GridAssumption ==
    /\ Dimensions \subseteq Nat \ {0}
    /\ {Side, FirstLength, MaxSize, MaxNodes} \subseteq Nat \ {0}
    /\ Line \cup Square \subseteq 0 .. Side
    /\ SamePoints \in BOOLEAN

VARIABLES
    gng_dim,
    live,     \* the numbers in use in the graph
    position, \* of every number used so far
    orphans,  \* nodes without edges that deleteNode refused to delete
    ug,       \* the grid: [m_l, m_dim (on every axis), m_grid, m_nodes]
    pc,
    away,     \* history: nodes that left the grid, but not the graph
    spoilt    \* history: a node left the graph, but not the grid

graphVars == <<gng_dim, live, position, orphans>>
vars == <<graphVars, ug, pc, away, spoilt>>

NoNode == -1
Axes == 1 .. gng_dim
Positions == [Axes -> IF gng_dim = 1 THEN Line ELSE Square]

Distance(p, q) ==
    LET upTo[i \in 0 .. gng_dim] ==
            IF i = 0 THEN 0 ELSE upTo[i - 1] + (p[i] - q[i]) * (p[i] - q[i])
    IN  upTo[gng_dim]

(* existsNode *)
Visible(S) == {n \in S : n < Cardinality(S)}
-----------------------------------------------------------------------------
(* Cells.  A position outside the box is not modelled: the server refuses   *)
(* such an example, and a node stays between examples.                      *)
CellSide(l, old) == Max({old + 1, (Side \div l) + 1})

Cells(dim) == [Axes -> 0 .. dim - 1]

Purged(l, old) ==
    LET dim == CellSide(l, old)
    IN  [m_l |-> l, m_dim |-> dim, m_nodes |-> 0,
         m_grid |-> [k \in Cells(dim) |-> <<>>]]

CalculateCell(u, p) == [i \in Axes |-> p[i] \div u.m_l]

Insert(u, p, x) ==
    [u EXCEPT !.m_grid[CalculateCell(u, p)] = Append(@, x), !.m_nodes = @ + 1]

(* remove erases the first entry of the cell whose node is at p. *)
Erase(u, p, at) ==
    LET k == CalculateCell(u, p)
        here == {j \in DOMAIN u.m_grid[k] : Distance(at[u.m_grid[k][j]], p) = 0}
    IN  IF here = {} THEN u
        ELSE [u EXCEPT !.m_grid[k] = RemoveAt(@, Min(here)), !.m_nodes = @ - 1]

(* A loop over the numbers used so far inserts those of S. *)
InsertAll(u, S, at) ==
    FoldLeft(LAMBDA v, x : IF x \in S THEN Insert(v, at[x], x) ELSE v,
             u, [i \in 1 .. Cardinality(DOMAIN at) |-> i - 1])

(* resizeUniformGrid inserts the nodes that existsNode shows. *)
BugOneFewer(S) == {n \in S : n + 1 < Cardinality(S)}
Reinserted(S) == Visible(S)

Power(b, e) == FoldSet(LAMBDA i, r : b * r, 1, 1 .. e)

NextLength(u) == (2 * u.m_l) \div 3

(* check_grow: an average of more than 0.1 nodes in a cell now and of more  *)
(* than 0.4 in the finer grid.  Lengths are whole numbers here, so that the *)
(* bound of the exploration is the length 1, which is not cut.              *)
CheckGrow(u) ==
    LET size == Power(CellSide(NextLength(u), u.m_dim), gng_dim)
    IN  /\ NextLength(u) > 0
        /\ size <= MaxSize
        /\ 10 * u.m_nodes > Power(u.m_dim, gng_dim)
        /\ 10 * u.m_nodes > 4 * size

Grown(u, S, at) ==
    IF CheckGrow(u) THEN InsertAll(Purged(NextLength(u), u.m_dim), Reinserted(S), at) ELSE u
-----------------------------------------------------------------------------
(* findNearest.  `found' is s_found_cells: the second best, then the best.  *)
Found == (DOMAIN position \cup {NoNode}) \X (DOMAIN position \cup {NoNode})

ScanNode(found, n, q) ==
    LET nearer(i) == found[i] = NoNode
                     \/ Distance(position[n], q) <= Distance(position[found[i]], q)
    IN  CASE n = found[2] \/ ~nearer(1) -> found
          [] n # found[2] /\ nearer(1) /\ nearer(2) -> <<found[2], n>>
          [] OTHER -> <<n, found[2]>>

ScanCell(found, k, q) == FoldLeft(LAMBDA f, n : ScanNode(f, n, q), found, ug.m_grid[k])

(* The cells crawl visits with the axis `fixed' at the distance r from the  *)
(* center: earlier axes stay inside the ring, to skip corners seen before.  *)
BugNoCorners(fixed, i, r) == IF i = fixed THEN r ELSE r - 1
Reach(fixed, i, r) == IF i < fixed THEN r - 1 ELSE r

Plane(center, r, fixed) ==
    {k \in Cells(ug.m_dim) :
        /\ k[fixed] \in {center[fixed] - r, center[fixed] + r}
        /\ \A i \in Axes \ {fixed} :
              k[i] \in center[i] - Reach(fixed, i, r) .. center[i] + Reach(fixed, i, r)}

(* scanCorners.  The order within a ring matters to ties only. *)
Ring(center, r) == UNION {Plane(center, r, i) : i \in Axes}

(* The distance from the query to the nearest wall of its cell. *)
Border(center, q) ==
    Min(UNION {{q[i] - center[i] * ug.m_l, (center[i] + 1) * ug.m_l - q[i]} : i \in Axes})

BugStopsEarly(found, border, q) ==
    \A i \in {1, 2} : found[i] # NoNode
SearchSuccessful(found, border, q) ==
    \A i \in {1, 2} : /\ found[i] # NoNode
                      /\ Distance(position[found[i]], q) <= border * border

FindNearest(q) ==
    LET center == CalculateCell(ug, q)
        border == Border(center, q)
        search[s \in Nat \X Found] == \* after s[1] rings
            LET ring == Ring(center, s[1] + 1)
            IN  IF ring = {} \/ SearchSuccessful(s[2], border + s[1] * ug.m_l, q) THEN s[2]
                ELSE search[<<s[1] + 1, FoldSet(LAMBDA k, f : ScanCell(f, k, q), s[2], ring)>>]
        found == search[<<0, ScanCell(<<NoNode, NoNode>>, center, q)>>]
    IN  <<found[2], found[1]>>
-----------------------------------------------------------------------------
(* randomInit, from two examples. *)
Init ==
    /\ gng_dim \in Dimensions
    /\ live = {0, 1}
    /\ position \in [live -> Positions]
    /\ SamePoints \/ position[0] # position[1]
    /\ orphans = {}
    /\ ug = InsertAll(Purged(FirstLength, 0), live, position)
    /\ pc = "running"
    /\ away = {} /\ spoilt = FALSE

Between(p, q) ==
    {x \in Positions : \A i \in Axes : x[i] \in (p[i] .. q[i]) \cup (q[i] .. p[i])}

(* No node comes to where another is or just was. *)
Apart(old, new) ==
    SamePoints \/ \A m, n \in live : m # n => new[n] \notin {new[m], old[m]}

(* A node is taken out of the grid where it was, then moved, then put back. *)
BugMovesFirst(u, n, at, to) == Insert(Erase(u, at[n], [at EXCEPT ![n] = to]), to, n)
Moved(u, n, at, to) == Insert(Erase(u, at[n], at), to, n)

(* adapt for the example ex: the winner w moves to p, then its neighbours   *)
(* follow, here at most one.                                                *)
Adapt(ex) ==
    LET nearest == FindNearest(ex)
        w == nearest[1]
        v == nearest[2]
        Targets(n) == Between(position[n], ex)
    IN  /\ pc = "running"
        /\ NoNode \notin {w, v}
        /\ \E p \in Targets(w) :
             LET at == [position EXCEPT ![w] = p]
                 u == Moved(ug, w, position, p)
             IN  /\ \/ /\ Apart(position, at)
                       /\ position' = at /\ ug' = u
                       /\ away' = away \ {w}
                    \/ \E near \in live \ {w} : \E to \in Targets(near) :
                         /\ Apart(position, [at EXCEPT ![near] = to])
                         /\ position' = [at EXCEPT ![near] = to]
                         /\ ug' = Moved(u, near, at, to)
                         /\ away' = away \ {w, near}
        /\ orphans' = orphans \ {w, v}
        /\ UNCHANGED <<gng_dim, live, pc, spoilt>>

(* _getNearestNeurons returns -1 and adapt reads m_g[-1]. *)
AdaptNothing(ex) ==
    /\ pc = "running"
    /\ NoNode \in Range(FindNearest(ex))
    /\ pc' = "undefined"
    /\ UNCHANGED <<graphVars, ug, away, spoilt>>

(* A node that lost its last edge leaves the grid, and the graph unless     *)
(* deleteNode does not see it.                                              *)
LeftGrid(n) == Erase(ug, position[n], position)

DeleteOrphan(n) ==
    /\ pc = "running"
    /\ n \in live \ orphans /\ Cardinality(live) > 2
    /\ ug' = LeftGrid(n)
    /\ IF n \in Visible(live)
       THEN /\ live' = live \ {n} /\ away' = away \ {n}
            /\ UNCHANGED orphans
       ELSE /\ orphans' = orphans \cup {n} /\ away' = away \cup {n}
            /\ UNCHANGED live
    /\ UNCHANGED <<gng_dim, position, pc, spoilt>>

(* The end of a round: the grid is made finer if that pays. *)
AfterGrowth(u, S, at, gone) ==
    /\ live' = S /\ position' = at
    /\ ug' = Grown(u, S, at)
    /\ away' = IF CheckGrow(u) THEN S \ Reinserted(S) ELSE gone \cap S

(* newNode: a number freed before, or else the next. *)
Used == DOMAIN position
FreeNumbers == IF live = Used THEN {Cardinality(Used)} ELSE Used \ live

AddNewNode(a, b) ==
    /\ pc = "running"
    /\ Cardinality(live) < MaxNodes
    /\ a \in Visible(live) \ orphans /\ b \in live \ (orphans \cup {a})
    /\ \E nr \in FreeNumbers, p \in Between(position[a], position[b]) :
          LET at == [n \in Used \cup {nr} |-> IF n = nr THEN p ELSE position[n]]
          IN  /\ SamePoints \/ \A n \in live : p # position[n]
              /\ AfterGrowth(Insert(ug, p, nr), live \cup {nr}, at, away)
    /\ UNCHANGED <<gng_dim, orphans, pc, spoilt>>

(* LargestErrorNodes deletes an isolated node; the grid is not told.        *)
DiscardIsolated(n) ==
    /\ pc = "running"
    /\ Cardinality(live) < MaxNodes
    /\ n \in Visible(live) \cap orphans
    /\ orphans' = orphans \ {n}
    /\ spoilt' = (spoilt \/ n \notin away)
    /\ AfterGrowth(ug, live \ {n}, position, away)
    /\ UNCHANGED <<gng_dim, pc>>

NetworkFull ==
    /\ pc = "running"
    /\ Cardinality(live) >= MaxNodes
    /\ AfterGrowth(ug, live, position, away)
    /\ UNCHANGED <<gng_dim, orphans, pc, spoilt>>

(* A search that found nothing leaves nothing to say. *)
Stopped == pc = "undefined" /\ UNCHANGED vars

Next == \/ \E ex \in Positions : Adapt(ex) \/ AdaptNothing(ex)
        \/ \E n \in live : DeleteOrphan(n) \/ DiscardIsolated(n)
        \/ \E a, b \in live : AddNewNode(a, b)
        \/ NetworkFull
        \/ Stopped

Spec == Init /\ [][Next]_vars
-----------------------------------------------------------------------------
Entries(k) == Range(ug.m_grid[k])
Indexed == UNION {Entries(k) : k \in Cells(ug.m_dim)}

TypeOK ==
    /\ gng_dim \in Dimensions
    /\ live \subseteq Used /\ position \in [Used -> Positions]
    /\ orphans \subseteq live /\ away \subseteq live
    /\ ug.m_l \in Nat \ {0} /\ ug.m_dim \in Nat \ {0} /\ ug.m_nodes \in Nat
    /\ ug.m_grid \in [Cells(ug.m_dim) -> Seq(Used)]
    /\ pc \in {"running", "undefined"} /\ spoilt \in BOOLEAN

(* Every entry is in the one cell its node is over, although nodes move     *)
(* between remove and insert and the cells change; m_nodes counts the       *)
(* entries; and a node of the graph is missing from the grid only if it was *)
(* hidden from existsNode when it was orphaned or the grid was rebuilt.     *)
(* Every variable keeps its type.                                           *)
GridExact ==
    /\ TypeOK
    /\ ~spoilt =>
          /\ Indexed = live \ away
          /\ \A k \in Cells(ug.m_dim) :
                /\ IsInjective(ug.m_grid[k])
                /\ \A n \in Entries(k) : CalculateCell(ug, position[n]) = k
          /\ ug.m_nodes = Cardinality(Indexed)

(* The ring search may stop when it stops: for every query of the box it    *)
(* returns a nearest node and a nearest of the others, as comparing all of  *)
(* them would.                                                              *)
NearestOf(n, S, q) == n \in S /\ \A m \in S : Distance(position[n], q) <= Distance(position[m], q)

NearestExact ==
    ~spoilt /\ Cardinality(Indexed) >= 2 =>
        \A q \in Positions :
            LET found == FindNearest(q)
            IN  /\ NearestOf(found[1], Indexed, q)
                /\ NearestOf(found[2], Indexed \ {found[1]}, q)

(* As long as no hidden node was orphaned or left out of a rebuilt grid,    *)
(* adapt is given two nodes ("assert(adapt_result.second >= 0)").           *)
TwoFound == ~spoilt /\ away = {} => pc # "undefined"

(* Making the grid finer loses no node that existsNode shows, and happens   *)
(* only if it leaves more than 0.4 nodes to a cell.                         *)
GrowthKeepsNodes ==
    [][ug'.m_l # ug.m_l =>
          /\ Visible(live') \subseteq Indexed'
          /\ 10 * ug.m_nodes + 10 > 4 * Cardinality(Cells(ug'.m_dim))]_vars

(* "_getNearestNeurons ... Found same nearest_indexes" (a debug check):     *)
(* adapt always has two nodes to work on.  The code breaks it when nodes    *)
(* meet: remove erases the entry of the wrong one.                          *)
AlwaysTwoFound == pc # "undefined"
==============================================================================
