# Growing Neural Gas: models, checks and proofs

A TLA+ development for the Growing Neural Gas package: an online clustering
algorithm written in C++ (`src/gng`, `inst/include/gng`), driven from R
(`R/gng.R`) through a server object that runs the algorithm in a thread of its
own. Paths below are relative to the root of the repository.

## The system

| Component | State it keeps | Operations | Hard parts |
| --- | --- | --- | --- |
| node pool (`gng_graph.hpp`) | `occupied`, `next_free`, `first_free`, `maximum_index`, `nodes`, pool size | `newNode`, `deleteNode`, `resizeGraph`, `existsNode` | free list under any history, doubling, holes |
| edges (`gng_graph.hpp`, `gng_node.h`) | per node a vector of directed edges with `rev` and `age`, and `edgesCount` | `addUDEdge`, `removeUDEdge`, `isEdge` | two objects, two vectors and two counters per edge |
| adaptation (`gng_algorithm.cpp`) | iterator, round counter, the graph | `randomInit`, `adapt`, `addNewNode`, nearest neuron searches | a loop that erases what it iterates over; nodes deleted under way |
| control (`gng_algorithm.cpp`, `gng_server.cpp`) | `m_gng_status`, `m_gng_status_request`, condition variable, two locks | `run`, `pause`, `terminate`, destructor, `insertExamples`, `getNode`, `getClustering` | two threads, plain shared variables, notification without the mutex |
| dataset (`gng_dataset.h`) | the examples, the cursor | `insertExamples`, `drawExample`, `getPosition` | storage moved while a pointer into it is held |
| lazy error heap (`heap.h`, `gng_lazy_error_heap.h`) | array heap, position map, lazy list | `insertLazy`, `updateLazy`, `extractMax` | stale and deleted entries |
| uniform grid (`uniform_grid.hpp`) | cells, number of nodes, cell length | `insert`, `remove`, `findNearest`, `check_grow`, `new_l` | when the ring search may stop; nodes that move, go, or are hidden when the grid is rebuilt |
| error history (`circular_buffer.h`) | ring of errors | `push_back`, `getMeanErrorStatistics`, `getErrorIndex` | wrap around, readers from the front |
| serialization (`gng_graph.hpp`) | - | `serialize`, `load` | holes, counters restored twice |
| clustering, prediction | `clustering_result` | `set_clustering`, `updateClustering`, `predict` | node numbers that are reused |
| utility option | `utility` of each node | `utilityCriterionCheck` | deletes a node with all its edges |
| R layer (`gng.R`) | loop counters, index maps | offline training, `convertToGraph`, wrappers | waiting for a thread, holes in the numbering |
| configuration, thread library, logging, module glue, plots | - | - | not the program's own logic |

The R thread owns the server. The first `run` makes the algorithm thread, which
loops over: look at the request, `m_lambda` times draw an example (dataset
lock) and `adapt` the graph (graph lock), `addNewNode` (graph lock). `adapt` and
`addNewNode` use the graph, which uses the pool; with their options set they
keep the uniform grid and the lazy heap up to date, neither of which the graph
knows about. The R thread talks to the algorithm thread through the two status
variables and the condition variable, reads the graph under the graph lock or
not at all, and reads the error history under a mutex of its own.

What makes each part correct is stated with its module below; every hazard is
listed at its line, with the properties that would catch it, in `PROJECT.json`.

## The modules

```
NodeAllocator <= NodePool <- GNGGraph <- GNGAdaptation => NeuralGas
                                            ^        ^    (by AdaptationRefinement)
                                            |        +- GraphFile
NodeErrors <= LazyErrorHeap             GNGAdaptationProofs <- AdaptationRefinementProofs

UniformGrid        GNGControl <- GNGControlProofs        Training <- TrainingProofs

GNGAdaptationProofs <- GraphFileProofs
RecursionFacts <- GNGAdaptationProofs, LazyErrorHeapProofs, UniformGridProofs
ErrorDecay <- LazyErrorHeap, NodeErrors
```

`<-` is EXTENDS, `=>` points at the abstract specification.

**NodePool** models the pool. A variable stands for each member, `size` for
`g.size()`. `NewNode` is `newNode` with the `resizeGraph` it calls, `DeleteNode`
is `deleteNode` with its early return; each runs under the graph mutex and is
one step. `ExistsNode` compares the index with the *number* of nodes, as the
code does: above a hole, nodes exist that `existsNode` denies. We call them
hidden. Every model above the pool inherits them.

**NodeAllocator** is what the pool's clients assume: numbers handed out one at
a time, never one in use. `Allocator` in NodePool is the refinement mapping
(`live <- Occupied`, `count <- nodes`).

**GNGGraph** adds the edge vectors. A directed edge is a record of its end and
its age; `rev` is not stored, it is the other node's edge back, and
`EdgesMirrored` says that this is well defined. `Linked` and `Unlinked` are one
side of `addUDEdge` and `removeUDEdge`. `WithNewNode` is what `newNode` does to
a reused slot: reset the counter, keep the vector.

**GNGAdaptation** is the algorithm as one process on the graph. `pc` is the
place in `runAlgorithm`: `seed` (randomInit), `search` (adapt up to its edge
loop), `scan` (one step per pass of the loop), `grow` (addNewNode). The edge
loop is split so that its iterator, the erasing and the deletions it causes are
visible; nothing else can run in between, since the graph lock is held. Which
neuron is nearest and which has the largest error depends on real data, so any
visible node may be either. `SearchSpins` and `NoLargestError` are the two ways
the code leaves its loop for good: a search that has nothing to find and a null
pointer. The behaviour chooses the utility option at the start
(`UtilityOptions`). With it set, orphans stay, and `UtilityCriterionCheck` may
delete the node of least utility after a scan: it compares the utilities of the
first `nodes` slots, those of removed nodes included, since removal does not
reset them. A utility is zero or positive, and whether the largest error is large
enough for a removal is a choice. `MinimumNodes` is the code's 10, the size below
which nothing is removed.

**NeuralGas** is the algorithm without storage: a set of nodes and a set of aged
undirected edges, changed by one input, one split or one removal at a time.
**AdaptationRefinement** shows that GNGAdaptation implements it. One `adapt`
call is many steps below and one step above; the history variable `before`
holds the network as it was when the loop began and is brought up to date when
the loop ends, together with the pair of neurons the input was for.

**LazyErrorHeap** models the errors with `m_toggle_lazyheap` set: the array heap
of `heap.h` with its position map, the lazy list, `increaseErrorNew`,
`decreaseErrorNew`, `fixErrorNew` and `LargestErrorNodesLazy`, whose loop takes
one step per extraction. Errors are small numbers rounded down, `m_betha` is 3/4
and `m_alpha` 1/2 (**ErrorDecay**). The exponents are the code's: an error is
added with `m_betha` to the power of the inputs left in the round, and an error
of k rounds ago is taken by the power `m_lambda * k`. Of the edges the model
keeps which nodes have none: one or two of the other nodes are the neighbours of
the node that is split. A maximum without edges, because it was deleted or
because it is isolated, leaves `largest[1]` unset, and the model stops there
(`NoNeighbour`): the memory decides what the code does.

**NodeErrors** is the errors with nothing put off: they all decay at the end of a
round, and the node split is one whose error no other exceeds. It has a switch
for the factors, because the two options of the code do not agree on them.
Without the heap (`increaseError`, `decreaseAllErrors`) an error is added as it is
and decays by `m_betha` once a round. With it, an error decays by `m_betha` with
every input, `m_betha ^ m_lambda` a round. LazyErrorHeap implements NodeErrors
with `lazyheap` TRUE (`ImplementsPrompt`) and does not with FALSE
(`ImplementsEager`, a known departure). The refinement holds until a node is
deleted: `deleteNode` does not tell the heap, and from then on (`exact` false)
only the arithmetic is promised, not the choice. The utility option does not
occur here: `check_correctness` (`gng_configuration.h:236`) refuses it together
with this optimization.

**UniformGrid** models the nearest neuron search with `m_toggle_uniformgrid` set:
cells, `insert`, `remove`, the growth test with its reinsertion of the nodes, and
the ring by ring search of `findNearest`, together with the code of `adapt` and
`addNewNode` that moves, adds and deletes nodes. Positions are a few points of a
line or a square, and distances are squared. Two history variables record what
the code loses: `away`, the nodes that a rebuilt grid left out because they were
hidden or deleted from the grid alone, and `spoilt`, that a node left the graph
but not the grid (`DiscardIsolated`). The properties say what holds outside
these; `SamePoints` lets nodes meet.

**GraphFile** extends GNGAdaptation with saving and loading. What `load` does
depends on the file only, so the last `save` of one server and the `load` of the
next are one step, `Restart`, taken between rounds or inputs; the algorithm then
trains the restored graph. Hidden nodes are written as absent, the free list as it is.
`unset` holds the slots whose position is a null pointer afterwards, `hidden`
remembers that some node was hidden at a save. `LoadEdge` is the body of the loop
in `load`, `LoadEdgesOf` the section of one slot, `LoadEdges` all sections in the
order of the slots.

**GNGControl** has the two threads. `apc` is the place of the algorithm thread
in `runAlgorithm`, `cpc` that of the R thread in the server method `call`. Every
read and write of `m_gng_status`, `m_gng_status_request` and of the dataset's
size is a step of its own. They are plain variables; the model gives them the
values a build produces that does load and store them in program order, and a
compiler that hoists the loads out of the polling loops would add hangs, not
remove any. The condition variable is the set of places `parked`,
`await_parked`; notification moves a thread out of them and is lost if it comes
earlier, spurious wake-ups are allowed. `status_change_mutex` is taken by the
algorithm thread only, so it excludes nobody. What the graph contains is
GNGAdaptation's matter: here `Adapt`, `Grow` and `RandomInit` are single steps
between taking and releasing the locks.

**Training** puts the object to use: an R session against the algorithm thread,
with everything they share besides the graph. An offline session inserts,
runs, then polls iteration and errors until `max.iter` or until its patience is
over, terminates and asks for the clustering; an online session inserts,
pauses and runs in any order. The dataset has a capacity, and an
insertion beyond it moves the storage (`storage` counts the moves); the drawn
example is a pointer into it (`position`). The history of errors is the circular
buffer with its head, tail and contents, read as the code reads it. The
handshake is GNGControl's in fewer steps and without its lost wake-ups, so that
what is found here is about the data. `careless` remembers an insertion made
while the thread was not certainly stopped.

**GNGAdaptationProofs** (with the pool and the edges),
**AdaptationRefinementProofs**, **GraphFileProofs**, **LazyErrorHeapProofs**,
**UniformGridProofs**, **GNGControlProofs** and **TrainingProofs** hold the
proofs, **RecursionFacts** the facts about sequences, folds and recursive
functions that four of them
rest on.

A definition called `Bug...` in front of a definition is the same definition
with a plausible mistake. Nothing uses it; put in place of its neighbour it makes
one of the properties fail, which shows that the property watches that code.

## What the runs check

| Run | Shows | Bounds |
| --- | --- | --- |
| `AdaptHoles` | the free list lists every free slot once, count and maximum index are right, the pool doubles only when full and implements NodeAllocator; edges mirrored and counted, freed slots clear, the winner's edge to the second nearest survives the scan, two nodes always remain, and the loop is left for good only with a node hidden | pool of 1 grown to 4, with and without the utility option; maximum age 0: an edge expires the first time it ages, so orphans, holes and hidden nodes are everywhere; two inputs per round, so that nodes go faster than they come and both ways of getting stuck happen; `MinimumNodes` 4, the code's 10 scaled to a network of 4 |
| `AdaptationRefinement` | the scan ends, misses no edge that is too old, and the whole implements NeuralGas; types | pool of 2, 3 nodes, maximum age 2, two inputs per round: edges survive some agings and expire later, several at a time; `MinimumNodes` 2, so that the utility option removes nodes here |
| `LazyErrorHeap` | the array is a heap and the positions are exact, every node is in the heap or on the list, no entry is below the error it stands for, errors and splits are those NodeErrors allows with the heap's own factors, the search for the largest error ends | 2 nodes of at most 7 or 8, and 7 of at most 8 (a heap of three levels, in which an entry moves up and down more than once); two inputs a round, so that the weight of an error depends on when in the round it comes; loaded errors 0 and 4, errors of 8 added, up to 10 in all: what a round leaves of them tells one round from two and an old entry from a new one; one deletion; nodes made, nodes deleted and rounds together to 7, which from 2 nodes is three rounds with a search in each |
| `UniformGrid` | the grid holds the nodes at their cells, the ring search finds what brute force finds, two nodes are found, growth keeps the nodes | four points on a line and the corners of a square, chosen so that a node of a further ring may be nearer than one already found; up to 4 nodes and two growths of the grid |
| `GraphFile` | the restored pool and edges are sound unless nodes were hidden, no number is given out twice, visible nodes and the edges among them come back, each edge once and of age 0, and no node with edges passes for an orphan | as AdaptHoles without the utility option, one restart at any place between inputs |
| `ControlAll` | the graph changes only under its locks and only while `isRunning()` is true; types | every server call but a `getNode` of a missing node, from an empty dataset to 4 examples |
| `ControlPause` | once `pause` has returned the algorithm changes nothing until the next call | a started algorithm with 3 to 5 examples; `run`, `pause`, insertion, clustering, `getNode` |
| `ControlTerminate` | every call returns, `terminate` is final, `run` leads to learning | a client that waits for `hasStarted()` before `terminate` or the destructor and does not pause; 0 to 4 examples |
| `Training` | the history shown is the last errors in order, the example under `adapt` is not moved by a session that pauses before it inserts, the clustering after offline training is that of the final graph, offline training ends | both modes and both ways of drawing; batches of 2 and 3, at most 5 examples, so that the storage moves; a history of 2, so that it wraps; 2 inputs per round, at most three nodes, `max.iter` 2, beyond which iterations are not told apart (nothing else looks at them) |

Four node slots are enough for a hole below a hidden node, for a slot reused
out of order and for a pool that doubles twice; three are enough for a winner
with an expiring and a fresh edge. With five slots `AdaptHoles` no longer ends
in minutes. In the control runs, 2 and 3 examples are the two thresholds of the
code, and two passes per round (`Lambda`) make the round counter count. Deadlock
is checked except where the system stops by itself: a destroyed server, a
finished session, and the bound on effort in `LazyErrorHeap`.

Three further runs state what a comment, a message or the manual says and end in
a counterexample:

* `SearchSpins`: "after reaching this size it will continue running". With one
  visible node the search for a second never ends, and it holds the graph lock.
* `LostWakeUp`: "Algorithm should start. Run is synchronized." `run` notifies
  after the algorithm has seen the request to pause and before it waits, then
  polls a status that nobody will change.
* `Patience`: "Patience (which you can control) elapsed, bailing out". The
  offline loop subtracts the current error index from an older one and waits for
  the difference to exceed 4; the index only grows. In the run the history holds
  twelve errors and moves on by more than four between two comparisons without
  an improvement, and no patience is lost. The training still ends, at
  `max.iter`; with the subtraction turned round the property holds in this run.

### Known departures

These properties are stated in the modules next to the others and no run checks
them, because the code breaks them. Put into the configuration named, each gives
a counterexample.

| Property | Says | Where it fails |
| --- | --- | --- |
| `NoIsolatedVertex` (GNGAdaptation) | "GNG has not isolated vertexes". Delete a low-numbered node and a high-numbered one is hidden; if it is orphaned then, `deleteNode` does nothing, and after the next insertions it is visible again, without edges | `InitialPool` 2, `MaxNodes` 4, `MaxAge` 1, `Lambda` 1, `UtilityOptions` `{"None"}` |
| `PauseHolds` (GNGControl) | the algorithm starts with two examples, `pause` waits only when there are more than two, so it returns with the algorithm learning | `ControlPause` with `StartExamples` 2 |
| `CallsReturn` (GNGControl) | a server that was run without examples cannot be destroyed: the thread polls for examples and never acts on a request to terminate, and one made before the thread has started is overwritten besides | `ControlTerminate` with `PollsHasStarted` FALSE |
| `GraphLockObtained` (GNGControl) | `getNode` of a missing node keeps the graph lock; conversion to igraph asks for every number up to the last, holes included | `ControlPause` with the call `getMissingNode` |
| `ExtractsNodes` (LazyErrorHeap) | "Extract max until you get correct one": entries of deleted nodes come out of the heap too, and nodes without edges, which `deleteNode` refused while they were hidden | `LazyErrorHeap` |
| `ImplementsEager` (LazyErrorHeap) | "Lazy heap optimization" (`gng_configuration.h:42`), and beta is described in the same words with it and without (lines 94 and 113 of the repository's `README.md`): "Decrease the error variables of all node nodes by this fraction". Without the heap errors decay by beta once a round and count in full when they are added; with it they decay by beta with every input, so the same beta forgets `m_lambda` times as fast | `LazyErrorHeap` |
| `AlwaysTwoFound` (UniformGrid) | the search finds two nodes: when two nodes meet, `remove` erases the entry of the wrong one | `UniformGrid` with `SamePoints` TRUE |
| `RestoredCountExact` (GraphFile) | `edgesCount` is the number of edges: `load` restores the counter and then adds the edges to it, so a restored node is never recognised as an orphan | `GraphFile` |

The assumptions of `ControlPause` and `ControlTerminate` are what these, and
related behaviours, leave of the calls' promises. Pausing breaks the liveness
properties (`LostWakeUp`; a pause before the examples parks the thread with its
status still RUNNING, and a later `run` then notifies nobody). `run`, `pause`
and `terminate` in the wrong places break the others: `terminate` of a paused
algorithm returns at once and a following `run` replaces its request; a
`terminate` before the thread has set its status is lost; a graph of one node
ends the thread by an exception with the status RUNNING, and `terminate` then
polls for ever. Adding the call, clearing `PollsHasStarted` or setting
`StartNodes` to 1 in the configuration of `ControlTerminate` shows each of them.

## Fairness

GNGAdaptation assumes weak fairness of its own steps: the algorithm thread keeps
running. GNGControl and Training assume weak fairness of each of the two
threads, which is what a scheduler gives. The client of GNGControl is never
obliged to begin a call, an online session of Training is not obliged to do
anything, an offline session runs its loop. No wait is promised a spurious
wake-up. The locks of GNGControl are not fair: a `getNode` that finds the graph
locked each time it looks may wait for ever, so `CallsReturn` is checked without
it. Training assumes strong fairness of one step, `ReadStatistics`, which needs
the statistics mutex: the algorithm thread holds it for one `push_back` per
round, and a reader that finds it free again and again gets it in the end.
`SearchEnds` of LazyErrorHeap and `ScanEnds` of AdaptationRefinement are about
loops under a lock; the first is stated as a measure that every pass lowers.

## What is proved

### The pool

The first part of `GNGAdaptationProofs` proves for every initial pool size and every
limit, from `PoolAssumption` alone, that PoolSpec implies the type invariant, the exact free
list, the exact count, the maximum index bound, growth only when full and the
refinement of NodeAllocator.

None of these is inductive by itself. Whether `newNode` returns a free slot
depends on the free list; that pushing a slot keeps the list free of duplicates
depends on the list holding free slots only; that `resizeGraph` may overwrite
the successor of the last old slot depends on that slot being in use, which
follows from an empty list being a complete list. The inductive invariant
`PoolInv` is the conjunction of the four invariants. The lemmas are about a pool
that has lost a set `G` of slots (`LeakyPool(G)`): neither in use nor on the
free list, which then lists `Waiting(G)`, the other free slots. This pool loses
none, and `LeakyNowhere` says that `LeakyPool({})` is the exact free list; a
graph read from a file may have lost some. The free list is described by a
function on 1..n that witnesses it, so the proof of a step says how the witness
changes: dropping its head (`NewNode`), putting a slot in front (`DeleteNode`),
or becoming the chain of the new upper half (a doubling). The count needs only
that one slot changes hands, by the library's facts about cardinality. Growth
and refinement follow from the invariant and one step.

### The graph and the learning loop

The rest of `GNGAdaptationProofs` proves for every pool size, `m_max_nodes`, maximum age,
`m_lambda` and either utility option that the edges are mirrored and counted, that
freed slots are clear, that the winner and the second nearest survive the scan,
that no edge over age is left, and the types.

The inductive invariant `AInv` is `PoolInv`, the typed program counter, and three
facts. `Sound`: the entries of every slot's vector have distinct ends, every
entry has at its end, an occupied node, an entry back with the same age, and the
counter of an occupied node is the length of its vector. `Young`: no age over the
maximum, also between two passes of the scan, since a pass erases the edge it
makes too old. `ScanSafe`: during a scan, winner and second nearest are nodes with an edge
between them, which is what keeps the count of each above zero while edges around
them are erased. A vector is taken for the set of its entries; one lemma each
(`LinkSound`, `UnlinkSound`, `AgedSound`, `DeleteSound`, `StrippedSound`,
`NewNodeSound`) says that an operation keeps `Sound`. They are stated for counters
that may exceed the length (`Excess`) by a number of a set `D`, and the steps
of the loop (`LoopStep`) for a graph whose edges may end at lost slots too
(`Held(G)`, the occupied and the lost ones), since both happen after a restart;
`AInv` is the case `G = {}`, `D = {0}` (`LoopExact`). `FreeSlotsClear`, on which
`newNode` relies without resetting anything, follows: an entry at a free slot
would need one back that names a slot not in use.

Two theorems assume `MinimumNodes >= 4`, which the code's 10 satisfies:
`AdaptationTwoNodesLeft`, and `AdaptationStuckOnlyByHiding`, that the endless
search and the null pointer are reached only with a node hidden. With less, the
utility option may remove one of the last nodes with all its edges; the extra
invariant `Enough` says how many nodes and edges there are at each place.

`AdaptationRefinementProofs` proves that the loop implements NeuralGas, for the same
constants. `NetOf` says that a function from pairs of nodes to ages is what the slots
of a graph hold; a graph has one such function, so a step of the abstract network is
shown by showing `NetOf` of the slots it leaves. Most concrete steps change nothing
above; `AdaptDone` is where the whole input becomes visible, and what it needs is the
history invariant `HInv`, kept by each pass of the edge loop. Half way through,
`NodesSoFar` says that nodes have gone only with their last edge too old,
`EdgesLeft` that no edge has gone that should stay, `OtherEdges` that edges between
other nodes are as before, and `WinnerEdges` that those of the winner have their age
after the input in front of the iterator and their age before it from the iterator
on. The last is what makes a loop that erases under its iterator pass every edge
exactly once: `RemoveAtFacts` moves the entries behind an erased one to the front,
and the iterator stays. A removal by the utility option is part of the same input.

### The file

`GraphFileProofs` proves, with any number of restarts and for the same constants,
all that the run `GraphFile` checks: `RestoredSound`, `NumbersFresh` and
`VisibleRestored`. `AInv` is not an invariant there. `load` restores the counters
and adds the edges to them, and a node hidden at the save is written as absent:
its slot is no longer in use, not on the free list, and still the end of edges
that start at a lower number. `FileInv` is what is left: for some set `G` of lost
slots and some set `D` of excesses, `LoopInv(G, D)`, with `D = {0}` until the first
restart and all of Nat after it, `G` empty as long as nothing was hidden, and then
`PoolInv`. Training keeps it by `LoopStep`, for whatever `G` and `D` hold; a restart
adds the hidden slots to `G` and leaves the free list where it was. A null position
needs a lost slot: `unset` and the occupied slots are disjoint, and without lost
slots the neighbours of a node are occupied.

What `load` computes is two nested folds over `addUDEdge`. `SectionPath` and
`FilePath` turn them into sequences of slots, and along these `LoadedWith` says
which set of edges has been added: `Upward` of a section, `Stored` of the file. It is
added without doubles because each edge is taken from its lower end only and no
section names an end twice. `RestoredEntries` gives the outcome: an edge is back just
when its lower end was visible, which is why no edge between visible nodes
is lost, and why some to hidden nodes stay.

### The two threads

`GNGControlProofs` proves for every set of calls, batch, bound and m_lambda, from
`ControlAssumption` alone, that the variables keep their types, that the graph
changes only under its locks and only while isRunning() is true. The inductive
invariant `ControlInv` adds two facts to the types: who holds which lock at each
place of the thread (`HoldsLocks`, which also covers the places where the second lock is still to be
taken), and at which places the status is certainly RUNNING (`StatusRunning`,
which starts at the reset, lasts through the wait for examples and
initialisation, and begins again after the pause loop).

`ControlPauseHolds` needs a restricted client, as the known departure with two
examples shows. Under `Steady` the server starts with more than two examples,
pause is called only once a round is complete, and terminate is not called.
`SteadyInv` then says that a PAUSED status answers a PAUSED request unless `run`
is replacing the request, and that while both are PAUSED the thread is inside the
pause loop; what `pause` sees before it returns is exactly that pair, and only
the next call can change the request.

`ControlTerminateIsFinal` needs a different client: under `Decisive` pause and the
clustering, which pauses, are not called, and terminate only after a first round.
`DecisiveInv` says that then neither status nor request is ever PAUSED, so that a
TERMINATED status seen after a first round is the one the thread leaves behind at
its end; and a thread that is over stays over (`OverForGood`), whatever is called.
`TerminateIsFinal` is a safety property, though it has a box within a box.

### A session

`TrainingProofs` proves `HistoryExact`, `ExampleInPlace` and `ClusteringFinal`
for every batch, capacity and window of the history, limit and set of errors,
from `TrainingAssumption` alone. `TrainingInv` has one part for each thing that
one side knows of the other. `ThreadAgrees`, `OfflineAgrees`, `OnlineAgrees` and
`PauseAgrees` tie the places of the two threads to status and request, so that a
session past its pause knows the thread between rounds and one past `terminate`
knows it over. `BufferAgrees` says which cell of the buffer holds which of the
last errors; a `push_back` into a full buffer moves this by one place. The
remainder that wraps the indices is treated in lemmas of its own (`Wraps`).
`SessionAgrees` and `LabelsAgree` give the labels: from the end of the thread on,
the fresh ones only grow.

### Recursion

`RecursionFacts` is about no component. The induction theorems of the library take
the formula to be proved as an operator, which the provers at hand cannot
instantiate; `SetInduction` and `CountingInduction` take the set of the elements it
holds of instead, and are proved from well-founded induction on a relation given as a
set. With them a fold over a set or a sequence is described by the table of its
partial results (`FoldTable`, `FoldLeftPath`, `FoldInduction`), and a recursive
function that stands for a loop by a measure its passes lower (`LoopTable`,
`LoopInduction`). The loops `moveUp`, `moveDown` and `findNearest`, the flush of the
lazy list, the reinsertion of nodes into a grid and the edges that `load` adds are all
treated by these.

### The lazy heap

`LazyErrorHeapProofs` proves for every finite set of node numbers and all bounds on
errors, effort and deletions, from `HeapAssumption` alone, that the array is a heap
with exact positions, that every node is queued, that no entry is below the error it
stands for, that the search ends, and that the whole implements NodeErrors with the
heap's factors.

The first half is about `heap.h` alone. A heap with a hole at one place (`Placed`)
lacks the order at that place only, towards the parent (`UpOrder`) or towards the
children (`DownOrder`); a pass of `moveUp` or `moveDown` moves the hole, and when
the loop stops the entry fits. `remove` fills the place with the last entry, which
may have to go either way: `FilledMiddle` gives the one or the other. The second half
is the inductive invariant `HInv`: the heap is sound, every node is queued, and

* `Bounded`: at least two nodes are left, so every round costs effort;
* `Unknown`: while nothing was deleted, numbers not in use are not queued;
* `Outdated`: between searches all entries are of earlier rounds, since a node whose
  error changes moves to the list;
* `Covered`: no entry is below the decayed error of its node, and in a search those
  of the present round are equal to it.

The first entry that is up to date is then the largest error, for the entries below
it bound the errors they stand for. `LazyImplementsPrompt` needs
besides that applying `m_betha` j + k times is applying it j times and then k times
(`FadedFacts`): k rounds at once are k rounds one by one, and what an error has lost
when it is added is what it would have lost by the end of its round. `HeapAssumption` includes that a
network starts with two nodes at least: randomInit makes two, and `runAlgorithm`
refuses a restored graph of one.

### The grid

`UniformGridProofs` proves for every dimension, set of coordinates, box, first cell
length, bound on the size and number of nodes, from `GridAssumption`, that growth
loses no visible node (`GrowthSafe`) and that the types are kept; and for nodes that
do not meet that the grid is exact, that the ring search is, and that two nodes are
found. `~SamePoints` is a hypothesis of these three because they are false without:
`remove` looks for an entry of the same cell and distance and erases the wrong one
(see the departures above).

The inductive invariant has two parts. `IInv` holds always: the types, a grid whose
cells are sequences of node numbers that `m_nodes` counts (`GridOn`), numbers
without gaps, and two nodes left. `EInv` holds when nodes do not meet: no two nodes
share a position, the grid holds the nodes of the graph but those known to have left
it, each in its cell and once (`HoldsOn`), and the search fails only if some have.
For the search, `BestTwo` says that what was found are the two nearest of a set of
nodes, and each node, cell and ring scanned extends that set (`ScanNodeBest`,
`ScanCellBest`, `ScanRingBest`). `RingIs` shows that the planes `crawl` visits are
exactly the cells at distance r, no corner twice or left out. `FarAway` is the
geometry: a node outside the rings scanned is further than the border that
`searchSuccessful` compares with. `PowerCounts` counts cells, for the density
test. Lengths are whole numbers, so a cell of length 1 is not made smaller
(`NextLength(u) > 0`); the code, with real lengths, stops at `MAX_SIZE` alone.

## What is only model-checked

Liveness: `ScanEnds`, `CallsReturn`, `RunResumes` and `TrainingEnds`. Fairness and
ENABLED are outside the prover's reach. Every invariant and every action property
that a run of the models checks is also stated by a theorem, some of them under
the named conditions on the constants (`Steady`, `Decisive`, `MinimumNodes >= 4`,
`~SamePoints`) given above. The configurations of the runs satisfy these
conditions, so a run is an instance of its theorem.

## What is not modelled, and what is left

* Labels of examples are in Training without node numbers, so a label that names a
  removed and reused number is not seen.
* `convertToGraph` builds an igraph object from what the getters return; it changes
  nothing in the server.
* The table of powers of betha is doubled by `fixErrorNew` until it is long enough
  and then indexed; LazyErrorHeap computes the power instead.
* `findNearest` of the grid keeps its queue and counters in members, used
  without the graph lock by `predict` and the clustering; the search is one step
  here.
* Positions, errors, utilities are real numbers; the models choose among the
  outcomes they can lead to, or use a few points.
* `pop_front`, assignment and the iterators of the circular buffer have no caller
  and are left out.
* Configuration records, getters, GraphML output, logging, the Rcpp glue, plots
  and presets have no behaviour to check and stay out. TinyThread++ is vendored;
  GNGControl models the two waits and the join.

Next in line: node numbers in the labels of Training, so that a label of a removed and
reused number shows.
