---------------------------- MODULE LazyErrorHeap ----------------------------
(****************************************************************************)
(* The errors of the nodes when m_toggle_lazyheap is set: the binary heap   *)
(* of inst/include/gng/heap.h, the GNGLazyErrorHeap on top of it, and the   *)
(* functions of GNGAlgorithm that use it.                                   *)
(*                                                                          *)
(* The decay of every round is put off: a node keeps the round error_cycle  *)
(* its error is of.  A node whose error changes leaves the heap for a list; *)
(* LargestErrorNodesLazy puts the listed nodes into the heap and extracts   *)
(* the maximum until it meets one whose error is of the round c.            *)
(*                                                                          *)
(* Heap positions count from 1.  Of the edges only is kept which nodes have *)
(* none: any one or two of the others may be the neighbours of the maximum. *)
(****************************************************************************)
EXTENDS ErrorDecay, Sequences, SequencesExt, FiniteSets

CONSTANTS Numbers,     \* numbers of nodes
          Starts,      \* sets of nodes the graph may begin with
          MaxNodes,    \* values of m_max_nodes
          m_lambda,    \* inputs per round
          Distances,   \* errors an input may add
          LoadedErrors,\* errors the nodes may begin with
          MaxError,    \* bound: no error is raised beyond this
          MaxDeletions,\* bound on the nodes deleted
          MaxEffort    \* bound on nodes made, nodes deleted and rounds together

(* A graph of a single node is refused (runAlgorithm), randomInit makes two. *)
(* The graph begins without holes, so that existsNode hides none of its      *)
(* nodes from the constructor.                                               *)
ASSUME HeapAssumption ==
    /\ Numbers \subseteq Nat /\ IsFiniteSet(Numbers)
    /\ Starts \subseteq {S \in SUBSET Numbers : Cardinality(S) >= 2}
    /\ \A S \in Starts : S = 0 .. Cardinality(S) - 1
    /\ MaxNodes \subseteq Nat /\ m_lambda \in Nat \ {0} /\ Distances \subseteq Nat
    /\ MaxError \in Nat \ {0} /\ {MaxDeletions, MaxEffort} \subseteq Nat
    /\ LoadedErrors \subseteq 0 .. MaxError

VARIABLES
    m_max_nodes,
    live,           \* the numbers in use in the graph
    isolated,       \* those of them without an edge
    error,          \* GNGNode::error and error_cycle; a number keeps them
    error_cycle,    \*   after its node has been deleted
    heap,           \* [at |-> the entries m_heap[0 .. m_size - 1],
                    \*  key |-> the key of the entry m_buffer points to]
    isonlist, L,    \* m_isonlist, getLazyList()
    s, c,           \* the inputs of this round, the round
    pc,
    deletions       \* history: how many nodes were deleted

nodeVars == <<m_max_nodes, live, isolated, error, error_cycle>>
queueVars == <<heap, isonlist, L>>
vars == <<nodeVars, queueVars, s, c, pc, deletions>>

NoEntry == 0
Entry == [i : Numbers, val : Nat]
Heap == [at : Seq(Entry), key : [Numbers -> Nat]]
-----------------------------------------------------------------------------
(* The binary heap.  Every entry that is moved is told its new key.         *)
Parent(k) == k \div 2

Put(h, k, e) == [h EXCEPT !.at[k] = e, !.key[e.i] = k]

MoveUp(h, i, e) ==
    LET up[x \in Heap \X Nat] ==
          LET b == x[1]
              k == x[2]
              above == b.at[Parent(k)]
          IN  IF k \in 2 .. Len(b.at) /\ e.val > above.val
              THEN up[<<Put(b, k, above), Parent(k)>>]
              ELSE Put(b, k, e)
    IN  up[<<h, i>>]

LargerChild(at, k) ==
    IF 2 * k < Len(at) /\ at[2 * k + 1].val > at[2 * k].val THEN 2 * k + 1 ELSE 2 * k

MoveDown(h, i) ==
    LET down[x \in Heap \X Nat] ==
          LET b == x[1]
              k == x[2]
              j == LargerChild(b.at, k)
          IN  IF 2 * k \in 2 .. Len(b.at) /\ b.at[j].val > b.at[k].val
              THEN down[<<Put(Put(b, k, b.at[j]), j, b.at[k]), j>>]
              ELSE Put(b, k, b.at[k])
    IN  IF h.at = <<>> THEN h ELSE down[<<h, i>>]

(* The last entry takes the place k. *)
FilledFromLast(h, k) ==
    LET last == h.at[Len(h.at)]
        h1   == Put(h, k, last)
    IN  [h1 EXCEPT !.at = SubSeq(@, 1, Len(h.at) - 1)]

HeapInsert(h, e) == MoveUp([h EXCEPT !.at = Append(@, e)], Len(h.at) + 1, e)

(* Heap::remove of the entry of nr; its caller clears m_buffer[nr].  The    *)
(* entry that fills the gap may have to rise as well as to sink.            *)
BugOnlySinks(h, nr) ==
    LET i == h.key[nr]
        g == FilledFromLast(h, i)
        r == IF i <= Len(g.at) THEN MoveDown(g, i) ELSE g
    IN  [r EXCEPT !.key[nr] = NoEntry]
HeapRemove(h, nr) ==
    LET i == h.key[nr]
        g == FilledFromLast(h, i)
        r == CASE i > Len(g.at) -> g
               [] i <= Len(g.at) /\ i > 1 /\ g.at[i].val > g.at[Parent(i)].val ->
                    MoveUp(g, i, g.at[i])
               [] OTHER -> MoveDown(g, i)
    IN  [r EXCEPT !.key[nr] = NoEntry]

HeapExtractMax(h) ==
    LET max == h.at[1].i
    IN  [MoveDown(FilledFromLast(h, 1), 1) EXCEPT !.key[max] = NoEntry]
-----------------------------------------------------------------------------
(* GNGLazyErrorHeap *)
Buffered(h, nr) == h.key[nr] # NoEntry

BugAddsAgain(l, nr) == Append(l, nr)
InsertLazy(l, nr) == IF isonlist[nr] THEN l ELSE Append(l, nr)

WithoutEntry(h, nr) == IF Buffered(h, nr) THEN HeapRemove(h, nr) ELSE h

Updated(h, nr, new) == HeapInsert(WithoutEntry(h, nr), [i |-> nr, val |-> new])

(* insert keeps the entry that is there. *)
Inserted(h, nr) ==
    IF Buffered(h, nr) THEN h ELSE HeapInsert(h, [i |-> nr, val |-> error[nr]])
-----------------------------------------------------------------------------
(* The errors: fixErrorNew applies the decay of every round since.          *)
Decayed(n) == Faded(error[n], m_lambda * (c - error_cycle[n]))

(* fixErrorNew for every node of S, after which the errors `new' are        *)
(* stored.                                                                  *)
BugKeepsCycle(S, new) ==
    /\ error' = [n \in Numbers |-> IF n \in S THEN new[n] ELSE error[n]]
    /\ UNCHANGED error_cycle
Store(S, new) ==
    /\ error' = [n \in Numbers |-> IF n \in S THEN new[n] ELSE error[n]]
    /\ error_cycle' = [n \in Numbers |-> IF n \in S THEN c ELSE error_cycle[n]]

(* The numbers of S as a loop up to maximum_index meets them.               *)
InOrder(S) ==
    CHOOSE l \in [1 .. Cardinality(S) -> S] : \A j, k \in DOMAIN l : j < k => l[j] < l[k]

(* randomInit, or the constructor on a graph with errors. *)
Init ==
    /\ m_max_nodes \in MaxNodes
    /\ live \in {S \in Starts : Cardinality(S) <= m_max_nodes}
    /\ heap = [at |-> <<>>, key |-> [n \in Numbers |-> NoEntry]]
    /\ L = InOrder(live) /\ isonlist = [n \in Numbers |-> n \in live]
    /\ isolated = {}         \* the two of randomInit: until the first adapt
    /\ \E e \in [live -> LoadedErrors] :
          error = [n \in Numbers |-> IF n \in live THEN e[n] ELSE 0]
    /\ error_cycle = [n \in Numbers |-> 0]
    /\ s = 0 /\ c = 0 /\ pc = "adapt" /\ deletions = 0

(* The bound of the exploration: nodes made, nodes deleted and rounds.      *)
NodesMade == Cardinality(live) + deletions
Effort == NodesMade + deletions + c

MayGoOn == pc = "adapt" /\ Effort <= MaxEffort

(* existsNode denies a number that is not below the number of nodes.        *)
Hidden(n) == n >= Cardinality(live)

(* No search finds a node without edges while it is hidden.                 *)
Findable == live \ {n \in isolated : Hidden(n)}

(* increaseErrorNew and the updateLazy at its end: the error counts less by *)
(* m_betha for this input and every further one of the round.  adapt then   *)
(* joins the winner n to the second nearest.                                *)
Weighted(by) == Faded(by, m_lambda - s)

BugStaysInHeap(n) == heap' = heap
LeaveHeap(n) == heap' = WithoutEntry(heap, n)

IncreaseErrorNew(n, second, by) ==
    /\ MayGoOn /\ s < m_lambda
    /\ {n, second} \subseteq Findable /\ n # second
    /\ Decayed(n) + Weighted(by) <= MaxError
    /\ Store({n}, [m \in {n} |-> Decayed(m) + Weighted(by)])
    /\ LeaveHeap(n)
    /\ L' = InsertLazy(L, n) /\ isonlist' = [isonlist EXCEPT ![n] = TRUE]
    /\ isolated' = isolated \ {n, second}
    /\ s' = s + 1
    /\ UNCHANGED <<m_max_nodes, live, c, pc, deletions>>

(* adapt takes the last edge of n and deletes it; deleteNode does nothing   *)
(* about a node that is hidden.  The heap and the list are not told.        *)
DeleteNode(n) ==
    /\ MayGoOn /\ s > 0
    /\ n \in live \ isolated /\ Cardinality(live \ isolated) > 2
    /\ IF Hidden(n) THEN isolated' = isolated \cup {n} /\ UNCHANGED <<live, deletions>>
                    ELSE /\ deletions < MaxDeletions
                         /\ live' = live \ {n}
                         /\ deletions' = deletions + 1
                         /\ UNCHANGED isolated
    /\ UNCHANGED <<m_max_nodes, error, error_cycle, queueVars, s, c, pc>>

(* The pool gives out a number used before, or the next.                    *)
FreeNumbers == {n \in Numbers \ live : n = 0 \/ \E m \in live : n <= m + 1}

(* addNewNode goes into LargestErrorNodesLazy, which flushes the list. *)
BeginSearch ==
    /\ MayGoOn /\ s = m_lambda
    /\ Cardinality(live) < m_max_nodes
    /\ heap' = FoldLeft(Inserted, heap, L)
    /\ isonlist' = [n \in Numbers |-> isonlist[n] /\ n \notin Range(L)]
    /\ L' = <<>>
    /\ pc' = "extract"
    /\ UNCHANGED <<nodeVars, s, c, deletions>>

(* addNewNode does nothing in a full network. *)
NetworkFull ==
    /\ MayGoOn /\ s = m_lambda
    /\ Cardinality(live) >= m_max_nodes
    /\ s' = 0 /\ c' = c + 1
    /\ UNCHANGED <<nodeVars, queueVars, pc, deletions>>

(* The extracted maximum is of an earlier round: it goes back, fixed. *)
BugTrustsEntry(n) == FALSE
OutOfDate(n) == error_cycle[n] # c

PutBack ==
    /\ pc = "extract" /\ heap.at # <<>>
    /\ LET max == heap.at[1].i
       IN  /\ OutOfDate(max)
           /\ Store({max}, [n \in {max} |-> Decayed(n)])
           /\ heap' = Updated(HeapExtractMax(heap), max, Decayed(max))
    /\ UNCHANGED <<m_max_nodes, live, isolated, isonlist, L, s, c, pc, deletions>>

(* The maximum q is found, its neighbours are fixed, f is the one of        *)
(* largest error among them; the rest of addNewNode makes the node nr, and  *)
(* the round ends.                                                          *)
Split(q, near, f, nr) ==
    LET h == HeapExtractMax(heap)
        err == [n \in near \cup {q} |->
                  IF n \in {q, f} THEN Alpha(Decayed(n)) ELSE Decayed(n)]
    IN  /\ \A n \in near : Decayed(n) <= Decayed(f)
        /\ Store(near \cup {q, nr},
                 [n \in near \cup {q, nr} |->
                     IF n = nr THEN Mean(err[q], err[f]) ELSE err[n]])
        /\ heap' = WithoutEntry(h, f)
        /\ L' = InsertLazy(InsertLazy(InsertLazy(L, q), f), nr)
        /\ isonlist' = [n \in Numbers |-> isonlist[n] \/ n \in {q, f, nr}]
        /\ live' = live \cup {nr}
        /\ s' = 0 /\ c' = c + 1 /\ pc' = "adapt"

WithEdges == live \ isolated

LargestFound ==
    /\ pc = "extract" /\ heap.at # <<>>
    /\ LET q == heap.at[1].i
       IN  /\ ~OutOfDate(q)
           /\ q \in WithEdges
           /\ \E f, other \in WithEdges \ {q}, nr \in FreeNumbers : Split(q, {f, other}, f, nr)
    /\ UNCHANGED <<m_max_nodes, isolated, deletions>>

(* The maximum is a node that has no edges, because it was deleted or       *)
(* because it is isolated: largest[1] is never set and addNewNode goes on   *)
(* with whatever the array held.                                            *)
NoNeighbour ==
    /\ pc = "extract" /\ heap.at # <<>>
    /\ ~OutOfDate(heap.at[1].i)
    /\ heap.at[1].i \notin WithEdges
    /\ heap' = HeapExtractMax(heap)
    /\ pc' = "undefined"
    /\ UNCHANGED <<nodeVars, isonlist, L, s, c, deletions>>

Search == PutBack \/ LargestFound \/ NoNeighbour

Next == \/ \E n, second \in Numbers, by \in Distances : IncreaseErrorNew(n, second, by)
        \/ \E n \in Numbers : DeleteNode(n)
        \/ BeginSearch
        \/ NetworkFull
        \/ Search

Spec == Init /\ [][Next]_vars
-----------------------------------------------------------------------------
TypeOK ==
    /\ m_max_nodes \in MaxNodes /\ live \subseteq Numbers /\ isolated \subseteq live
    /\ deletions \in 0 .. MaxDeletions
    /\ error \in [Numbers -> 0 .. MaxError] /\ error_cycle \in [Numbers -> 0 .. c]
    /\ heap \in Heap /\ L \in Seq(Numbers) /\ isonlist \in [Numbers -> BOOLEAN]
    /\ s \in 0 .. m_lambda /\ c \in 0 .. MaxEffort
    /\ pc \in {"adapt", "extract", "undefined"}

(* No entry exceeds its parent, and the pointers of m_buffer lead, through  *)
(* the keys, to the entries of their nodes, after entries have been taken   *)
(* from the middle of the heap as well as from its top.  Every variable     *)
(* keeps its type.                                                          *)
HeapSound ==
    /\ TypeOK
    /\ \A k \in 2 .. Len(heap.at) : heap.at[k].val <= heap.at[Parent(k)].val
    /\ \A n \in Numbers : Buffered(heap, n) =>
          heap.key[n] \in DOMAIN heap.at /\ heap.at[heap.key[n]].i = n
    /\ \A k \in DOMAIN heap.at : heap.key[heap.at[k].i] = k

(* No node is lost between the heap and the list, so that the search never  *)
(* runs the heap empty ("Zero sized Heap max extraction?"); nothing is      *)
(* listed twice; a number is in both places only once it has been reused.   *)
EveryNodeQueued ==
    /\ pc # "undefined" => \A n \in live : Buffered(heap, n) \/ isonlist[n]
    /\ IsInjective(L) /\ \A n \in Numbers : isonlist[n] <=> n \in Range(L)
    /\ deletions = 0 => \A n \in Numbers : ~(Buffered(heap, n) /\ isonlist[n])

(* An entry never understates the error of its node, and states it exactly  *)
(* when the node is of the current round.                                   *)
EntriesNotBelow ==
    deletions = 0 => \A k \in DOMAIN heap.at :
        LET n == heap.at[k].i
        IN  /\ heap.at[k].val >= Decayed(n)
            /\ pc = "extract" /\ ~OutOfDate(n) => heap.at[k].val = Decayed(n)

(* Putting the decay off is invisible: until a node is deleted, the errors  *)
(* and the node split are those of a heap that decays every error by        *)
(* m_betha ^ m_lambda at the end of every round.                            *)
Prompt == INSTANCE NodeErrors WITH
             err <- [n \in live |-> Decayed(n)], exact <- deletions = 0, lazyheap <- TRUE

ImplementsPrompt == Prompt!ESpec

(* "Lazy heap optimization": with it the errors are those of the code       *)
(* without it.  beta is documented in the same words for both, "Decrease    *)
(* the error variables of all node nodes by this fraction."                 *)
Eager == INSTANCE NodeErrors WITH
            err <- [n \in live |-> Decayed(n)], exact <- deletions = 0, lazyheap <- FALSE

ImplementsEager == Eager!ESpec

(* The search ends although it puts entries back into the heap it empties:  *)
(* it never runs out of entries, and with every pass fewer of them are of   *)
(* an earlier round.                                                        *)
PassesLeft == Cardinality({k \in DOMAIN heap.at : OutOfDate(heap.at[k].i)})

SearchEnds ==
    [][pc = "extract" => /\ heap.at # <<>>
                         /\ pc' = "extract" => PassesLeft' < PassesLeft]_vars

(* "Extract max until you get correct one" (LargestErrorNodesLazy): what is *)
(* extracted is a node that can be split.  The code breaks it: deleteNode   *)
(* leaves the entry of the node in the heap, or leaves a hidden node alone. *)
ExtractsNodes == pc # "undefined"
==============================================================================
