------------------------------- MODULE Training -------------------------------
(****************************************************************************)
(* One GNG object in use: the R session (R/gng.R) and the algorithm thread, *)
(* with what they share besides the graph: the examples (gng_dataset.h),    *)
(* the history of mean errors (circular_buffer.h) and clustering_result.    *)
(* The session trains "offline", until max.iter or until the errors no      *)
(* longer improve, or "online", and inserts examples when it likes.         *)
(*                                                                          *)
(* The handshake of run, pause and terminate is the one of GNGControl in    *)
(* fewer steps, without its lost wake-ups; the graph is its node count.     *)
(* Mean errors are small naturals; iterations are counted up to max.iter,   *)
(* beyond which nobody tells them apart.                                    *)
(*                                                                          *)
(* A definition whose name starts with Bug is the definition after it with  *)
(* a mistake put in; no action uses it, it is there to be swapped in.       *)
(****************************************************************************)
EXTENDS Integers, Sequences, SequencesExt, FiniteSets, FiniteSetsExt

CONSTANTS Modes,           \* of "offline" and "online"
          Access,          \* of "Sequential" and "Sampling"
          Batches,         \* numbers of examples inserted at a time
          MaxExamples,     \* bound: no online insertion beyond so many
          Lambda, MaxNodes,
          ShortBatch,      \* 5 in the code
          LongBatch,       \* 15 in the code
          Capacity,        \* of the history, 1000 in the code
          Window,          \* 5 in the code
          MaxIter,         \* max.iter
          MinImprovement,  \* min.improvement, in percent
          Errors           \* the mean errors that may come

ASSUME TrainingAssumption ==
    /\ Modes \subseteq {"offline", "online"}
    /\ Access \subseteq {"Sequential", "Sampling"}
    /\ Batches \cup Errors \subseteq Nat \ {0}
    /\ {Lambda, MaxNodes, MaxIter, MaxExamples} \subseteq Nat \ {0}
    /\ {ShortBatch, LongBatch, Window, MinImprovement} \subseteq Nat
    /\ Capacity \in Nat \ {0, 1}      \* head_ starts at 1

VARIABLES
    mode, access,
    (* the dataset *)
    examples,         \* size()
    capacity,         \* of storage_, in examples
    storage,          \* how often storage_ has been moved in memory
    current_example,
    (* the algorithm thread *)
    apc, status, request, s, nodes, iteration,
    ex, position,     \* the drawn example and the storage its pointer is into
    count,            \* accumulated_error_count
    (* the history of mean errors *)
    array, head, tail, contents,
    recent,           \* history: the last errors pushed
    (* clustering_result *)
    labels,           \* its size
    fresh,            \* the examples assigned since the graph last moved
    (* the R session *)
    rpc, iter, best, error_index, patience,
    errors,           \* what it read of the history
    careless          \* history: it inserted without a pause that waited

datasetVars == <<mode, access, examples, capacity, storage, current_example>>
algorithmVars == <<apc, status, s, nodes, iteration, ex, position, count>>
bufferVars == <<array, head, tail, contents, recent>>
labelVars == <<labels, fresh>>
clientVars == <<rpc, iter, best, error_index, patience, errors, careless>>
vars == <<datasetVars, algorithmVars, request, bufferVars, labelVars, clientVars>>

Worst == 10000           \* best_so_far starts at 1e10
InitialPatience == 3
Statuses == {"RUNNING", "PAUSED", "TERMINATED"}

Init ==
    /\ mode \in Modes /\ access \in Access
    /\ examples = 0 /\ capacity = 0 /\ storage = 0 /\ current_example = 0
    /\ apc = "none" /\ status = "TERMINATED" /\ request = "TERMINATED"
    /\ s = 0 /\ nodes = 0 /\ iteration = 0 /\ ex = 0 /\ position = 0 /\ count = 0
    /\ array = [k \in 0 .. Capacity - 1 |-> 0]
    /\ head = 1 /\ tail = 0 /\ contents = 0 /\ recent = <<>>
    /\ labels = 0 /\ fresh = {}
    /\ rpc = "new" /\ iter = 0 /\ best = Worst /\ error_index = -1
    /\ patience = InitialPatience /\ errors = <<>> /\ careless = FALSE
-----------------------------------------------------------------------------
(* GNGDatasetSimple.  insertExamples makes room for exactly what it inserts,*)
(* which moves the storage whenever it has to.                              *)
DrawExample ==
    IF access = "Sequential"
    THEN ex' = current_example /\ current_example' = (current_example + 1) % examples
    ELSE ex' \in 0 .. examples - 1 /\ UNCHANGED current_example

InsertExamples(k) ==
    /\ examples' = examples + k
    /\ IF capacity < examples + k THEN capacity' = examples + k /\ storage' = storage + 1
                                  ELSE UNCHANGED <<capacity, storage>>
-----------------------------------------------------------------------------
(* circular_buffer *)
Following(k) == IF k + 1 = Capacity THEN 0 ELSE k + 1

At(n) == array[(n + head) % Capacity]
Contents == [n \in 1 .. contents |-> At(n - 1)]

BugHeadStays == head
HeadWhenFull == Following(head)

(* push_back, under the statistics mutex but in two steps: getErrorIndex    *)
(* reads the size without it.                                               *)
StoreError(e) ==
    /\ array' = [array EXCEPT ![Following(tail)] = e]
    /\ IF contents = Capacity THEN head' = HeadWhenFull /\ contents' = contents - 1
                              ELSE UNCHANGED <<head, contents>>
    /\ recent' = LET all == Append(recent, e)
                 IN  IF Len(all) > Capacity THEN Tail(all) ELSE all
    /\ UNCHANGED tail

AdvanceTail ==
    /\ contents' = contents + 1
    /\ tail' = Following(tail)
    /\ UNCHANGED <<array, head, recent>>

StatisticsFree == apc # "pushing"
-----------------------------------------------------------------------------
(* The algorithm thread. *)
AlgGoto(from, to) == apc = from /\ apc' = to

Start ==
    /\ AlgGoto("start", "examples")
    /\ status' = "RUNNING" /\ request' = "RUNNING" /\ s' = 0
    /\ UNCHANGED <<nodes, iteration, ex, position, count,
                   datasetVars, bufferVars, labelVars, clientVars>>

Seed ==
    /\ AlgGoto("examples", "check")
    /\ examples >= 2 /\ rpc # "clustering"
    /\ nodes' = 2
    /\ current_example' = IF access = "Sequential" THEN 2 % examples ELSE current_example
    /\ UNCHANGED <<mode, access, examples, capacity, storage, status, request, s, iteration,
                   ex, position, count, bufferVars, labelVars, clientVars>>

Check ==
    /\ apc = "check"
    /\ CASE request = "PAUSED"     -> status' = "PAUSED" /\ UNCHANGED <<apc, s>>
         [] request = "TERMINATED" -> apc' = "leave" /\ UNCHANGED <<status, s>>
         [] OTHER -> status' = "RUNNING" /\ apc' = "draw" /\ s' = 0
    /\ UNCHANGED <<request, nodes, iteration, ex, position, count,
                   datasetVars, bufferVars, labelVars, clientVars>>

(* drawExample, and the pointer into storage_, under the dataset lock.      *)
Draw ==
    /\ AlgGoto("draw", "adapt")
    /\ rpc # "clustering"
    /\ DrawExample
    /\ position' = storage
    /\ UNCHANGED <<mode, access, examples, capacity, storage, status, request, s, nodes,
                   iteration, count, bufferVars, labelVars, clientVars>>

(* adapt, which may delete nodes, and set_clustering, under the graph lock. *)
Adapt ==
    /\ apc = "adapt"
    /\ labels' = IF ex + 1 > labels THEN examples ELSE labels
    /\ fresh' = {}
    /\ nodes' \in 2 .. nodes
    /\ count' = count + 1
    /\ s' = s + 1
    /\ apc' = IF s + 1 < Lambda THEN "draw" ELSE "batch"
    /\ UNCHANGED <<status, request, iteration, ex, position,
                   datasetVars, bufferVars, clientVars>>

(* elapsed: more than 0.1 seconds since the last mean error. *)
BatchOver(elapsed) ==
    (elapsed /\ count > ShortBatch * nodes) \/ count > LongBatch * nodes

Batch ==
    /\ apc = "batch"
    /\ \E elapsed \in BOOLEAN, e \in Errors :
          IF BatchOver(elapsed) THEN apc' = "pushing" /\ StoreError(e)
                                ELSE apc' = "grow" /\ UNCHANGED bufferVars
    /\ UNCHANGED <<status, request, s, nodes, iteration, ex, position, count,
                   datasetVars, labelVars, clientVars>>

EndBatch ==
    /\ AlgGoto("pushing", "grow")
    /\ AdvanceTail
    /\ count' = 0
    /\ UNCHANGED <<status, request, s, nodes, iteration, ex, position,
                   datasetVars, labelVars, clientVars>>

BugCountsNothing == iteration
NextIteration == IF iteration < MaxIter THEN iteration + 1 ELSE iteration

(* addNewNode, under the graph lock: LargestErrorNodes deletes a node of    *)
(* largest error that has no edges instead of splitting it; the two nodes   *)
(* an edge joins stay.                                                      *)
Grow ==
    /\ AlgGoto("grow", "check")
    /\ nodes' \in IF nodes >= MaxNodes THEN {nodes} ELSE {n \in {nodes - 1, nodes + 1} : n >= 2}
    /\ iteration' = NextIteration
    /\ fresh' = {}
    /\ UNCHANGED <<status, request, s, ex, position, count,
                   datasetVars, bufferVars, labels, clientVars>>

Leave ==
    /\ AlgGoto("leave", "over")
    /\ status' = "TERMINATED"
    /\ UNCHANGED <<request, s, nodes, iteration, ex, position, count,
                   datasetVars, bufferVars, labelVars, clientVars>>

Algorithm == Start \/ Seed \/ Check \/ Draw \/ Adapt \/ Batch \/ EndBatch \/ Grow \/ Leave
-----------------------------------------------------------------------------
(* The R session. *)
Goto(from, to) == rpc = from /\ rpc' = to
IsRunning == status = "RUNNING"

(* GNGAlgorithm::run up to its wait, which is Resumed. *)
Resume == IF status \notin {"TERMINATED", "RUNNING"} THEN request' = "RUNNING"
                                                     ELSE UNCHANGED request

(* insertExamples, which runs the server if it does not say it is running;  *)
(* the first run starts the thread.                                         *)
Inserted(k) ==
    /\ InsertExamples(k)
    /\ IF apc = "none" THEN apc' = "start" /\ UNCHANGED request
       ELSE UNCHANGED apc /\ IF IsRunning THEN UNCHANGED request ELSE Resume
    /\ UNCHANGED <<mode, access, current_example,
                   status, s, nodes, iteration, ex, position, count, bufferVars, labelVars>>

(* Offline. *)
Insert ==
    /\ mode = "offline" /\ Goto("new", "look")
    /\ \E k \in Batches : Inserted(k)
    /\ UNCHANGED <<iter, best, error_index, patience, errors, careless>>

KeepServer == UNCHANGED <<datasetVars, algorithmVars, request, bufferVars, labelVars>>

LoopHead ==
    /\ rpc = "look"
    /\ rpc' = IF iter = 0 \/ (iter < MaxIter /\ IsRunning) THEN "poll" ELSE "ended"
    /\ UNCHANGED <<iter, best, error_index, patience, errors, careless>> /\ KeepServer

Poll ==
    /\ Goto("poll", "statistics")
    /\ iter' = iteration
    /\ UNCHANGED <<best, error_index, patience, errors, careless>> /\ KeepServer

ReadStatistics ==
    /\ rpc = "statistics" /\ StatisticsFree
    /\ IF contents > Window THEN rpc' = "compare" /\ errors' = Contents
                            ELSE rpc' = "look" /\ UNCHANGED errors
    /\ UNCHANGED <<iter, best, error_index, patience, careless>> /\ KeepServer

BestPreviously == Min({errors[k] : k \in Len(errors) - Window .. Len(errors)})

(* The index compared is the one of the round before minus the one of now.  *)
IndexMoved == error_index - contents > 4
NoImprovement == 100 * (best - BestPreviously) < best * MinImprovement

OutOfPatience == IndexMoved /\ NoImprovement /\ patience - 1 <= 0

Compare ==
    /\ rpc = "compare"
    /\ patience' = IF IndexMoved /\ NoImprovement THEN patience - 1 ELSE InitialPatience
    /\ rpc' = IF OutOfPatience THEN "ended" ELSE "remember"
    /\ UNCHANGED <<iter, best, error_index, errors, careless>> /\ KeepServer

Remember ==
    /\ Goto("remember", "look")
    /\ error_index' = contents
    /\ best' = Min({BestPreviously, best})
    /\ errors' = <<>>
    /\ UNCHANGED <<iter, patience, careless>> /\ KeepServer

Terminate ==
    /\ rpc = "ended"
    /\ IF IsRunning THEN rpc' = "terminating" /\ request' = "TERMINATED"
                    ELSE rpc' = "failed" /\ UNCHANGED request
    /\ errors' = <<>>
    /\ UNCHANGED <<datasetVars, algorithmVars, bufferVars, labelVars,
                   iter, best, error_index, patience, careless>>

BugReturnsAtOnce == TRUE
TerminateReturns == status # "RUNNING"

Terminated ==
    /\ Goto("terminating", "clustering") /\ TerminateReturns
    /\ UNCHANGED <<iter, best, error_index, patience, errors, careless>> /\ KeepServer

(* updateClustering, under the dataset lock. *)
UpdateClustering ==
    /\ rpc = "clustering"
    /\ IF Cardinality(fresh) = examples
       THEN rpc' = "done" /\ UNCHANGED labelVars
       ELSE /\ labels' = examples
            /\ fresh' = fresh \cup {Min((0 .. examples - 1) \ fresh)}
            /\ UNCHANGED rpc
    /\ UNCHANGED <<iter, best, error_index, patience, errors, careless,
                   datasetVars, algorithmVars, request, bufferVars>>

(* Online.  A session may insert at any time; a careful one pauses first.   *)
InsertMore ==
    /\ mode = "online" /\ rpc \in {"new", "idle", "paused"}
    /\ \E k \in Batches : examples + k <= MaxExamples /\ Inserted(k)
    /\ careless' = (careless \/ rpc = "idle")
    /\ rpc' = "resuming"
    /\ UNCHANGED <<iter, best, error_index, patience, errors>>

Pause ==
    /\ Goto("idle", "pausing") /\ iteration > 0
    /\ request' = IF status # "PAUSED" THEN "PAUSED" ELSE request
    /\ UNCHANGED <<datasetVars, algorithmVars, bufferVars, labelVars,
                   iter, best, error_index, patience, errors, careless>>

BugNeverWaits == TRUE
PauseReturns == examples <= 2 \/ status # "RUNNING"

Paused ==
    /\ rpc = "pausing" /\ PauseReturns
    /\ rpc' = IF examples > 2 THEN "paused" ELSE "idle"
    /\ UNCHANGED <<iter, best, error_index, patience, errors, careless>> /\ KeepServer

Run ==
    /\ Goto("paused", "resuming")
    /\ Resume
    /\ UNCHANGED <<datasetVars, algorithmVars, bufferVars, labelVars,
                   iter, best, error_index, patience, errors, careless>>

RunReturns == examples <= 2 \/ status # "PAUSED"

Resumed ==
    /\ Goto("resuming", "idle") /\ RunReturns
    /\ UNCHANGED <<iter, best, error_index, patience, errors, careless>> /\ KeepServer

Offline == Insert \/ LoopHead \/ Poll \/ ReadStatistics \/ Compare \/ Remember
           \/ Terminate \/ Terminated \/ UpdateClustering
Online == InsertMore \/ Pause \/ Paused \/ Run \/ Resumed

Next == Algorithm \/ Offline \/ Online

(* Both threads go on, and a lock that is free again and again is obtained; *)
(* an online session need not call anything.                                *)
Spec == Init /\ [][Next]_vars /\ WF_vars(Algorithm) /\ WF_vars(Offline) /\ SF_vars(ReadStatistics)
-----------------------------------------------------------------------------
(* Every variable keeps its type; in particular the buffer's ends stay      *)
(* inside its array and the clustering has no more entries than examples.   *)
TypeOK ==
    /\ mode \in Modes /\ access \in Access
    /\ {examples, capacity, storage, s, nodes, iteration, ex, position, count, iter}
           \subseteq Nat
    /\ current_example \in 0 .. Max({examples - 1, 0})
    /\ apc \in {"none", "start", "examples", "check", "draw", "adapt", "batch", "pushing",
                "grow", "leave", "over"}
    /\ status \in Statuses /\ request \in Statuses
    /\ array \in [0 .. Capacity - 1 -> Errors \cup {0}]
    /\ head \in 0 .. Capacity - 1 /\ tail \in 0 .. Capacity - 1
    /\ contents \in 0 .. Capacity
    /\ labels \in 0 .. examples /\ fresh \subseteq 0 .. examples - 1
    /\ rpc \in {"new", "look", "poll", "statistics", "compare", "remember", "ended",
                "terminating", "clustering", "done", "failed", "idle", "pausing", "paused", "resuming"}
    /\ best \in Errors \cup {Worst} /\ error_index \in -1 .. Capacity
    /\ patience \in 0 .. InitialPatience
    /\ errors = <<>> \/ Len(errors) \in Window + 1 .. Capacity
    /\ careless \in BOOLEAN

(* What getErrorStatistics returns while it holds the statistics mutex is   *)
(* the last mean errors, oldest first, also after the buffer has wrapped    *)
(* around and overwritten its oldest entries.  Every variable keeps its     *)
(* type: the buffer's ends stay inside its array.                           *)
HistoryExact == TypeOK /\ (StatisticsFree => Contents = recent)

(* runAlgorithm takes the pointer to the example under the dataset lock and *)
(* adapt uses it without: it still points into storage_ if the session      *)
(* inserts only between a pause that waited and the next run.               *)
ExampleInPlace == apc = "adapt" /\ ~careless => position = storage

(* When offline training has returned, the clustering holds the winner in   *)
(* the final graph of every example, and no adapt call comes after it.      *)
ClusteringFinal ==
    rpc = "done" => /\ apc = "over"
                    /\ fresh = 0 .. examples - 1
                    /\ labels = examples

(* Offline training returns, having terminated the algorithm itself.        *)
TrainingEnds == mode = "offline" ~> rpc = "done"

(* "Patience (which you can control) elapsed, bailing out": a comparison of  *)
(* errors that moved on since the last one, and did not improve, costs      *)
(* patience.  The code subtracts the two indices the other way round.       *)
MovedOn == contents - error_index > 4

PatienceCounts ==
    [][rpc = "compare" /\ rpc' # "compare" /\ MovedOn /\ NoImprovement
          => patience' < patience]_vars
=============================================================================
