-------------------------- MODULE GNGControlProofs --------------------------
(****************************************************************************)
(* Proofs about GNGControl: for every set of calls, every batch, bound and  *)
(* m_lambda, the graph is changed only under its locks and only while       *)
(* isRunning() says so; for a client that pauses only a started algorithm   *)
(* with enough examples, pause holds; for one that never pauses it,         *)
(* terminate is final.                                                      *)
(****************************************************************************)
EXTENDS GNGControl, TLAPS

(* Where the status is RUNNING for certain.                                 *)
RunningPCs ==
    {"await_examples", "await_pause", "await_terminate", "await_park",
     "await_parked", "check_graph", "init_db", "init_lock", "init_graph",
     "draw", "lock_adapt", "adapt", "lock_grow", "grow"}

(* The dataset lock is held from its own step to the end of randomInit.     *)
HoldsLocks ==
    /\ apc \in Learning => graph_lock = "algorithm"
    /\ apc \in {"init_lock", "init_graph"} => db_lock = "algorithm"

StatusRunning == apc \in RunningPCs => status = "RUNNING"

ControlInv == TypeOK /\ HoldsLocks /\ StatusRunning
-----------------------------------------------------------------------------
(* A client that never terminates the algorithm, pauses it only once it has *)
(* completed a round, and starts with enough examples for pause to wait.    *)
SteadyCalls == {"run", "pause", "insert", "clustering", "getNode"}

Steady == Calls \subseteq SteadyCalls /\ PollsHasStarted /\ StartExamples > 2

MainLoop ==
    {"top", "set_paused", "park", "parked", "check_terminate", "set_running",
     "draw", "lock_adapt", "adapt", "lock_grow", "grow"}

(* The places of a thread that has stopped, or is about to, and stays so    *)
(* while the request is PAUSED.                                             *)
Stopped == {"top", "set_paused", "park", "parked"}

SteadyPCs ==
    {"idle", "run", "run_status", "run_running", "run_request", "run_notify",
     "run_wait", "pause", "pause_request", "pause_notify", "pause_wait",
     "insert", "insert_run", "clustering", "get_node"}

NeverTerminated ==
    /\ cpc \in SteadyPCs
    /\ apc \notin {"no_thread", "enter", "ended"} => request # "TERMINATED"
    /\ apc \in MainLoop => status # "TERMINATED"

(* Pausing begins only after the first round.                               *)
Started ==
    /\ iterated => apc \in MainLoop
    /\ \/ cpc \in {"clustering", "pause", "pause_request", "pause_notify", "pause_wait"}
       \/ told = "pause"
       => iterated

(* A PAUSED status answers a PAUSED request, unless run is replacing it.    *)
Answered ==
    /\ status = "PAUSED" /\ cpc \notin {"run_notify", "run_wait"} => request = "PAUSED"
    /\ cpc \in {"pause_notify", "pause_wait"} => request = "PAUSED"
    /\ told = "pause" => status = "PAUSED" /\ cpc \in {"idle", "get_node"}

(* As long as both say PAUSED, the thread does not get past the pause loop. *)
StaysStopped == status = "PAUSED" /\ request = "PAUSED" => apc \in Stopped

SteadyInv ==
    /\ db_size > 2
    /\ NeverTerminated /\ Started /\ Answered /\ StaysStopped
-----------------------------------------------------------------------------
(* A new server: no thread, no lock held, no call under way.                *)
LEMMA ControlInit == Init => ControlInv
<1> SUFFICES ASSUME Init PROVE ControlInv
  OBVIOUS
<1>1. TypeOK
  <2>1. s \in 0 .. Lambda - 1 /\ db_size \in 0 .. MaxExamples /\ graph_nodes \in Nat
    BY ControlAssumption DEF Init
  <2> QED
    BY <2>1 DEF Init, TypeOK, Status, AlgorithmPCs, ClientPCs
<1>2. HoldsLocks /\ StatusRunning
  BY DEF Init, HoldsLocks, StatusRunning, Learning, RunningPCs
<1> QED
  BY <1>1, <1>2 DEF ControlInv

(* No step of either thread breaks the control invariant: only the          *)
(* algorithm thread writes the status, and it does so outside of RunningPCs *)
(* or with RUNNING; the client takes the graph lock only when it is free of *)
(* the algorithm.                                                           *)
LEMMA ControlStep == ControlInv /\ [Next]_vars => ControlInv'
<1> SUFFICES ASSUME ControlInv, [Next]_vars PROVE ControlInv'
  OBVIOUS
<1> USE ControlAssumption
    DEF ControlInv, TypeOK, HoldsLocks, StatusRunning,
        Status, Methods, Learning, RunningPCs, AlgorithmPCs, ClientPCs,
        AlgGoto, Goto, Return, statusVars, algorithmVars, lockVars, clientVars
<1>a1. CASE ResetRequest
  BY <1>a1 DEF ResetRequest
<1>a2. CASE ResetStatus
  BY <1>a2 DEF ResetStatus
<1>a3. CASE CheckExamples
  BY <1>a3 DEF CheckExamples, ExamplesMissing
<1>a4. CASE AwaitPauseCheck
  BY <1>a4 DEF AwaitPauseCheck
<1>a5. CASE AwaitTerminateCheck
  BY <1>a5 DEF AwaitTerminateCheck
<1>a6. CASE CheckGraph
  BY <1>a6 DEF CheckGraph
<1>a7. CASE InitLockDataset
  BY <1>a7 DEF InitLockDataset
<1>a8. CASE InitLockGraph
  BY <1>a8 DEF InitLockGraph, ObtainGraph
<1>a9. CASE RandomInit
  BY <1>a9 DEF RandomInit
<1>a10. CASE PauseCheck
  BY <1>a10 DEF PauseCheck
<1>a11. CASE AcknowledgeRequest
  BY <1>a11 DEF AcknowledgeRequest
<1>a12. CASE Park
  BY <1>a12 DEF Park
<1>a13. CASE TerminateCheck
  BY <1>a13 DEF TerminateCheck
<1>a14. CASE SetRunning
  BY <1>a14 DEF SetRunning
<1>a15. CASE Draw
  BY <1>a15 DEF Draw
<1>a16. CASE LockGraph
  BY <1>a16 DEF LockGraph, ObtainGraph
<1>a17. CASE Adapt
  BY <1>a17 DEF Adapt, RoundGoesOn
<1>a18. CASE Grow
  BY <1>a18 DEF Grow
<1>a19. CASE Exit
  BY <1>a19 DEF Exit
<1>c1. CASE ServerRun
  BY <1>c1 DEF ServerRun
<1>c2. CASE RunTerminated
  BY <1>c2 DEF RunTerminated
<1>c3. CASE RunRunning
  BY <1>c3 DEF RunRunning
<1>c4. CASE RunWait
  BY <1>c4 DEF RunWait
<1>c5. CASE PauseCheckStatus
  BY <1>c5 DEF PauseCheckStatus
<1>c6. CASE PauseWait
  BY <1>c6 DEF PauseWait, PauseSeen
<1>c7. CASE TerminateCheckStatus
  BY <1>c7 DEF TerminateCheckStatus
<1>c8. CASE TerminateWait
  BY <1>c8 DEF TerminateWait, TerminateSeen
<1>c9. CASE Join
  BY <1>c9 DEF Join, ThreadOver
<1>c10. CASE InsertBatch
  BY <1>c10 DEF InsertBatch
<1>c11. CASE InsertRun
  BY <1>c11 DEF InsertRun
<1>c12. CASE Clustering
  BY <1>c12 DEF Clustering
<1>c13. CASE GetNode
  BY <1>c13 DEF GetNode
<1>c14. CASE Request("run_request", "run_notify", "RUNNING")
  BY <1>c14 DEF Request
<1>c15. CASE Request("pause_request", "pause_notify", "PAUSED")
  BY <1>c15 DEF Request
<1>c16. CASE Request("terminate_request", "terminate_notify", "TERMINATED")
  BY <1>c16 DEF Request
<1>c17. CASE Notify("run_notify", "run_wait")
  BY <1>c17 DEF Notify, WakeUp
<1>c18. CASE Notify("pause_notify", "pause_wait")
  BY <1>c18 DEF Notify, WakeUp
<1>c19. CASE Notify("terminate_notify", "terminate_wait")
  BY <1>c19 DEF Notify, WakeUp
<1>b. ASSUME NEW m \in Methods, Begin(m) PROVE ControlInv'
  BY <1>b DEF Begin
<1>w. CASE SpuriousWakeUp
  BY <1>w DEF SpuriousWakeUp, WakeUp, Waiting
<1>u. CASE UNCHANGED vars
  BY <1>u DEF vars
<1>1. CASE Algorithm
  BY <1>1, <1>a1, <1>a2, <1>a3, <1>a4, <1>a5, <1>a6, <1>a7, <1>a8, <1>a9,
     <1>a10, <1>a11, <1>a12, <1>a13, <1>a14, <1>a15, <1>a16, <1>a17,
     <1>a18, <1>a19 DEF Algorithm
<1>2. CASE InCall
  BY <1>2, <1>c1, <1>c2, <1>c3, <1>c4, <1>c5, <1>c6, <1>c7, <1>c8, <1>c9,
     <1>c10, <1>c11, <1>c12, <1>c13, <1>c14, <1>c15, <1>c16, <1>c17,
     <1>c18, <1>c19 DEF InCall
<1> QED
  BY <1>1, <1>2, <1>b, <1>w, <1>u DEF Next

(* In every reachable state types, lock ownership and the RUNNING status     *)
(* hold together: no schedule of the algorithm thread and the R thread's    *)
(* calls breaks one of them.                                                *)
THEOREM ControlInvariant == Spec => []ControlInv
<1> QED
  BY ControlInit, ControlStep, PTL DEF Spec

(* Every variable of the two threads keeps its type; in particular the      *)
(* round counter stays below m_lambda between rounds.                       *)
THEOREM ControlTyping == Spec => []TypeOK
<1>1. ControlInv => TypeOK
  BY DEF ControlInv
<1> QED
  BY <1>1, ControlInvariant, PTL

(* randomInit, adapt and addNewNode run under the graph lock, randomInit    *)
(* under the dataset lock as well, whatever calls interleave with them.     *)
THEOREM ControlChangesUnderLock == Spec => []ChangesUnderLock
<1>1. ControlInv => ChangesUnderLock
  BY DEF ControlInv, HoldsLocks, ChangesUnderLock
<1> QED
  BY <1>1, ControlInvariant, PTL

(* While the thread changes the graph, isRunning() is true.                 *)
THEOREM ControlLearnsOnlyWhenRunning == Spec => []LearnsOnlyWhenRunning
<1>1. ControlInv => LearnsOnlyWhenRunning
  BY DEF ControlInv, StatusRunning, RunningPCs, Learning, LearnsOnlyWhenRunning
<1> QED
  BY <1>1, ControlInvariant, PTL
-----------------------------------------------------------------------------
(* A server that starts with more than two examples, before any call.       *)
LEMMA SteadyInit == ASSUME Steady PROVE Init => SteadyInv
BY ControlAssumption
DEF Steady, SteadyPCs, Init, SteadyInv, NeverTerminated, Started, Answered,
    StaysStopped, MainLoop

(* No step of a steady client or of the algorithm thread breaks the steady  *)
(* invariant.                                                               *)
LEMMA SteadyStep ==
  ASSUME Steady PROVE SteadyInv /\ ControlInv /\ [Next]_vars => SteadyInv'
<1> SUFFICES ASSUME SteadyInv, ControlInv, [Next]_vars PROVE SteadyInv'
  OBVIOUS
<1> USE ControlAssumption, Steady
    DEF Steady, SteadyCalls, SteadyPCs, SteadyInv, NeverTerminated, Started,
        Answered, StaysStopped, Stopped, MainLoop, ControlInv, TypeOK,
        StatusRunning, Status, RunningPCs, AlgorithmPCs, ClientPCs,
        AlgGoto, Goto, Return, statusVars, algorithmVars, lockVars, clientVars
<1>a1. CASE ResetRequest
  BY <1>a1 DEF ResetRequest
<1>a2. CASE ResetStatus
  BY <1>a2 DEF ResetStatus
<1>a3. CASE CheckExamples
  BY <1>a3 DEF CheckExamples, ExamplesMissing
<1>a4. CASE AwaitPauseCheck
  BY <1>a4 DEF AwaitPauseCheck
<1>a5. CASE AwaitTerminateCheck
  BY <1>a5 DEF AwaitTerminateCheck
<1>a6. CASE CheckGraph
  BY <1>a6 DEF CheckGraph
<1>a7. CASE InitLockDataset
  BY <1>a7 DEF InitLockDataset
<1>a8. CASE InitLockGraph
  BY <1>a8 DEF InitLockGraph, ObtainGraph
<1>a9. CASE RandomInit
  BY <1>a9 DEF RandomInit
<1>a10. CASE PauseCheck
  BY <1>a10 DEF PauseCheck
<1>a11. CASE AcknowledgeRequest
  BY <1>a11 DEF AcknowledgeRequest
<1>a12. CASE Park
  BY <1>a12 DEF Park
<1>a13. CASE TerminateCheck
  BY <1>a13 DEF TerminateCheck
<1>a14. CASE SetRunning
  BY <1>a14 DEF SetRunning
<1>a15. CASE Draw
  BY <1>a15 DEF Draw
<1>a16. CASE LockGraph
  BY <1>a16 DEF LockGraph, ObtainGraph
<1>a17. CASE Adapt
  BY <1>a17 DEF Adapt, RoundGoesOn
<1>a18. CASE Grow
  BY <1>a18 DEF Grow
<1>a19. CASE Exit
  BY <1>a19 DEF Exit
<1>c1. CASE ServerRun
  BY <1>c1 DEF ServerRun
<1>c2. CASE RunTerminated
  BY <1>c2 DEF RunTerminated
<1>c3. CASE RunRunning
  BY <1>c3 DEF RunRunning
<1>c4. CASE RunWait
  BY <1>c4 DEF RunWait
<1>c5. CASE PauseCheckStatus
  BY <1>c5 DEF PauseCheckStatus
<1>c6. CASE PauseWait
  BY <1>c6 DEF PauseWait, PauseSeen
<1>c7. CASE TerminateCheckStatus
  BY <1>c7 DEF TerminateCheckStatus
<1>c8. CASE TerminateWait
  BY <1>c8 DEF TerminateWait, TerminateSeen
<1>c9. CASE Join
  BY <1>c9 DEF Join, ThreadOver
<1>c10. CASE InsertBatch
  BY <1>c10 DEF InsertBatch
<1>c11. CASE InsertRun
  BY <1>c11 DEF InsertRun
<1>c12. CASE Clustering
  BY <1>c12 DEF Clustering
<1>c13. CASE GetNode
  BY <1>c13 DEF GetNode
<1>c14. CASE Request("run_request", "run_notify", "RUNNING")
  BY <1>c14 DEF Request
<1>c15. CASE Request("pause_request", "pause_notify", "PAUSED")
  BY <1>c15 DEF Request
<1>c16. CASE Request("terminate_request", "terminate_notify", "TERMINATED")
  BY <1>c16 DEF Request
<1>c17. CASE Notify("run_notify", "run_wait")
  BY <1>c17 DEF Notify, WakeUp
<1>c18. CASE Notify("pause_notify", "pause_wait")
  BY <1>c18 DEF Notify, WakeUp
<1>c19. CASE Notify("terminate_notify", "terminate_wait")
  BY <1>c19 DEF Notify, WakeUp
<1>b. ASSUME NEW m \in Methods, Begin(m) PROVE SteadyInv'
  BY <1>b DEF Begin
<1>w. CASE SpuriousWakeUp
  BY <1>w DEF SpuriousWakeUp, WakeUp, Waiting
<1>u. CASE UNCHANGED vars
  BY <1>u DEF vars
<1>1. CASE Algorithm
  BY <1>1, <1>a1, <1>a2, <1>a3, <1>a4, <1>a5, <1>a6, <1>a7, <1>a8, <1>a9,
     <1>a10, <1>a11, <1>a12, <1>a13, <1>a14, <1>a15, <1>a16, <1>a17,
     <1>a18, <1>a19 DEF Algorithm
<1>2. CASE InCall
  BY <1>2, <1>c1, <1>c2, <1>c3, <1>c4, <1>c5, <1>c6, <1>c7, <1>c8, <1>c9,
     <1>c10, <1>c11, <1>c12, <1>c13, <1>c14, <1>c15, <1>c16, <1>c17,
     <1>c18, <1>c19 DEF InCall
<1> QED
  BY <1>1, <1>2, <1>b, <1>w, <1>u DEF Next

(* Once pause has returned to a steady client, the algorithm changes        *)
(* nothing until the next call other than getNode.                          *)
THEOREM ControlPauseHolds == ASSUME Steady PROVE Spec => []PauseHolds
<1>1. Init => SteadyInv
  BY SteadyInit
<1>2. SteadyInv /\ ControlInv /\ [Next]_vars => SteadyInv'
  BY SteadyStep
<1>3. SteadyInv => PauseHolds
  BY DEF SteadyInv, Answered, StaysStopped, Stopped, Learning, PauseHolds
<1> QED
  BY <1>1, <1>2, <1>3, ControlInvariant, PTL DEF Spec
-----------------------------------------------------------------------------
(* A client that never pauses the algorithm, not by way of the clustering   *)
(* either, and terminates or destroys it only after a first round.          *)
DecisiveCalls == {"run", "terminate", "destroy", "insert", "getNode", "getMissingNode"}

Decisive == Calls \subseteq DecisiveCalls /\ PollsHasStarted

DecisivePCs ==
    {"idle", "run", "run_status", "run_running", "run_request", "run_notify",
     "run_wait", "terminate", "terminate_request", "terminate_notify",
     "terminate_wait", "join", "destroyed", "insert", "insert_run", "get_node"}

(* Nobody asks for a pause, so that the thread never enters a pause loop.   *)
NeverPaused ==
    /\ cpc \in DecisivePCs
    /\ status # "PAUSED" /\ request # "PAUSED"
    /\ apc \notin {"await_terminate", "await_park", "await_parked",
                   "set_paused", "park", "parked"}

(* The status says TERMINATED before the thread has set it and after the    *)
(* thread is over, and never in between.                                    *)
StillRunning ==
    apc \in {"top", "check_terminate", "set_running", "exit"} => status = "RUNNING"

(* The thread that terminate waits for has completed a round; what          *)
(* terminate has seen when it returns is the end of that thread.            *)
Over == apc = "ended"

RoundComplete ==
    /\ iterated => apc \in MainLoop \cup {"exit", "ended"}
    /\ cpc \in {"terminate", "terminate_request", "terminate_notify", "terminate_wait"}
       => iterated
    /\ told = "terminate" => Over

DecisiveInv == NeverPaused /\ StillRunning /\ RoundComplete

(* A new server has no thread and no call under way.                        *)
LEMMA DecisiveInit == Init => DecisiveInv
BY DEF Init, DecisiveInv, NeverPaused, StillRunning, RoundComplete, DecisivePCs

(* No step of a decisive client or of the algorithm thread breaks that.     *)
LEMMA DecisiveStep ==
  ASSUME Decisive PROVE DecisiveInv /\ ControlInv /\ [Next]_vars => DecisiveInv'
<1> SUFFICES ASSUME DecisiveInv, ControlInv, [Next]_vars PROVE DecisiveInv'
  OBVIOUS
<1> USE ControlAssumption, Decisive
    DEF Decisive, DecisiveCalls, DecisivePCs, DecisiveInv, NeverPaused, StillRunning,
        RoundComplete, Over, MainLoop, ControlInv, TypeOK,
        StatusRunning, Status, RunningPCs, AlgorithmPCs, ClientPCs,
        AlgGoto, Goto, Return, statusVars, algorithmVars, lockVars, clientVars
<1>a1. CASE ResetRequest
  BY <1>a1 DEF ResetRequest
<1>a2. CASE ResetStatus
  BY <1>a2 DEF ResetStatus
<1>a3. CASE CheckExamples
  BY <1>a3 DEF CheckExamples, ExamplesMissing
<1>a4. CASE AwaitPauseCheck
  BY <1>a4 DEF AwaitPauseCheck
<1>a5. CASE AwaitTerminateCheck
  BY <1>a5 DEF AwaitTerminateCheck
<1>a6. CASE CheckGraph
  BY <1>a6 DEF CheckGraph
<1>a7. CASE InitLockDataset
  BY <1>a7 DEF InitLockDataset
<1>a8. CASE InitLockGraph
  BY <1>a8 DEF InitLockGraph, ObtainGraph
<1>a9. CASE RandomInit
  BY <1>a9 DEF RandomInit
<1>a10. CASE PauseCheck
  BY <1>a10 DEF PauseCheck
<1>a11. CASE AcknowledgeRequest
  BY <1>a11 DEF AcknowledgeRequest
<1>a12. CASE Park
  BY <1>a12 DEF Park
<1>a13. CASE TerminateCheck
  BY <1>a13 DEF TerminateCheck
<1>a14. CASE SetRunning
  BY <1>a14 DEF SetRunning
<1>a15. CASE Draw
  BY <1>a15 DEF Draw
<1>a16. CASE LockGraph
  BY <1>a16 DEF LockGraph, ObtainGraph
<1>a17. CASE Adapt
  BY <1>a17 DEF Adapt, RoundGoesOn
<1>a18. CASE Grow
  BY <1>a18 DEF Grow
<1>a19. CASE Exit
  BY <1>a19 DEF Exit
<1>c1. CASE ServerRun
  BY <1>c1 DEF ServerRun
<1>c2. CASE RunTerminated
  BY <1>c2 DEF RunTerminated
<1>c3. CASE RunRunning
  BY <1>c3 DEF RunRunning
<1>c4. CASE RunWait
  BY <1>c4 DEF RunWait
<1>c5. CASE PauseCheckStatus
  BY <1>c5 DEF PauseCheckStatus
<1>c6. CASE PauseWait
  BY <1>c6 DEF PauseWait, PauseSeen
<1>c7. CASE TerminateCheckStatus
  BY <1>c7 DEF TerminateCheckStatus
<1>c8. CASE TerminateWait
  BY <1>c8 DEF TerminateWait, TerminateSeen
<1>c9. CASE Join
  BY <1>c9 DEF Join, ThreadOver
<1>c10. CASE InsertBatch
  BY <1>c10 DEF InsertBatch
<1>c11. CASE InsertRun
  BY <1>c11 DEF InsertRun
<1>c12. CASE Clustering
  BY <1>c12 DEF Clustering
<1>c13. CASE GetNode
  BY <1>c13 DEF GetNode
<1>c14. CASE Request("run_request", "run_notify", "RUNNING")
  BY <1>c14 DEF Request
<1>c15. CASE Request("pause_request", "pause_notify", "PAUSED")
  BY <1>c15 DEF Request
<1>c16. CASE Request("terminate_request", "terminate_notify", "TERMINATED")
  BY <1>c16 DEF Request
<1>c17. CASE Notify("run_notify", "run_wait")
  BY <1>c17 DEF Notify, WakeUp
<1>c18. CASE Notify("pause_notify", "pause_wait")
  BY <1>c18 DEF Notify, WakeUp
<1>c19. CASE Notify("terminate_notify", "terminate_wait")
  BY <1>c19 DEF Notify, WakeUp
<1>b. ASSUME NEW m \in Methods, Begin(m) PROVE DecisiveInv'
  BY <1>b DEF Begin
<1>w. CASE SpuriousWakeUp
  BY <1>w DEF SpuriousWakeUp, WakeUp, Waiting
<1>u. CASE UNCHANGED vars
  BY <1>u DEF vars
<1>1. CASE Algorithm
  BY <1>1, <1>a1, <1>a2, <1>a3, <1>a4, <1>a5, <1>a6, <1>a7, <1>a8, <1>a9,
     <1>a10, <1>a11, <1>a12, <1>a13, <1>a14, <1>a15, <1>a16, <1>a17,
     <1>a18, <1>a19 DEF Algorithm
<1>2. CASE InCall
  BY <1>2, <1>c1, <1>c2, <1>c3, <1>c4, <1>c5, <1>c6, <1>c7, <1>c8, <1>c9,
     <1>c10, <1>c11, <1>c12, <1>c13, <1>c14, <1>c15, <1>c16, <1>c17,
     <1>c18, <1>c19 DEF InCall
<1> QED
  BY <1>1, <1>2, <1>b, <1>w, <1>u DEF Next

(* A thread that is over stays over: run makes a thread only once.          *)
LEMMA OverForGood == ASSUME ControlInv, Over, [Next]_vars PROVE Over'
<1> USE DEF Over, AlgGoto, Goto, Return, statusVars, algorithmVars, lockVars, clientVars
<1>1. ~Algorithm
  BY DEF Algorithm, ResetRequest, ResetStatus, CheckExamples, AwaitPauseCheck,
     AwaitTerminateCheck, CheckGraph, InitLockDataset, InitLockGraph, RandomInit,
     PauseCheck, AcknowledgeRequest, Park, TerminateCheck, SetRunning, Draw, LockGraph,
     Adapt, Grow, Exit
<1>2. CASE InCall
  <2>1. ~(cpc = "run" /\ apc = "no_thread")
    OBVIOUS
  <2> QED
    BY <1>2 DEF InCall, ServerRun, RunTerminated, RunRunning, RunWait,
       PauseCheckStatus, PauseWait, TerminateCheckStatus, TerminateWait, Join,
       Request, Notify, WakeUp, InsertBatch, InsertRun, Clustering, GetNode
<1>3. CASE SpuriousWakeUp
  BY <1>3 DEF SpuriousWakeUp, Waiting
<1>4. CASE UNCHANGED vars
  BY <1>4 DEF vars
<1>5. ASSUME NEW m \in Methods, Begin(m) PROVE Over'
  BY <1>5 DEF Begin
<1> QED
  BY <1>1, <1>2, <1>3, <1>4, <1>5 DEF Next

(* Once terminate has returned to a decisive client, the algorithm never    *)
(* changes the graph again, whatever the client calls.                      *)
THEOREM ControlTerminateIsFinal == ASSUME Decisive PROVE Spec => TerminateIsFinal
<1>1. DecisiveInv /\ ControlInv /\ [Next]_vars => DecisiveInv'
  BY DecisiveStep
<1>2. DecisiveInv /\ told = "terminate" => Over
  BY DEF DecisiveInv, RoundComplete
<1>3. ControlInv /\ Over /\ [Next]_vars => Over'
  BY OverForGood
<1>4. Over => apc \notin Learning
  BY DEF Over, Learning
<1> QED
  BY <1>1, <1>2, <1>3, <1>4, DecisiveInit, ControlInvariant, PTL DEF Spec, TerminateIsFinal
=============================================================================
