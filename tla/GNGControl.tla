----------------------------- MODULE GNGControl -----------------------------
(****************************************************************************)
(* How a GNGServer is controlled: the algorithm thread (GNGAlgorithm::      *)
(* runAlgorithm) and the one R thread that calls run, pause, terminate,     *)
(* insertExamples, getNode, getClustering and the destructor.  They share   *)
(* m_gng_status and m_gng_status_request, which are plain variables, a      *)
(* condition variable that is notified without its mutex, the graph lock    *)
(* and the dataset lock.                                                    *)
(*                                                                          *)
(* Every read and every write of a shared variable is a step of its own.    *)
(* status_change_mutex is only ever taken by the algorithm thread, so it    *)
(* excludes nobody and is left out; the time between the last look at the   *)
(* request and the wait is therefore open to the other thread.              *)
(*                                                                          *)
(* A definition whose name starts with Bug is the definition after it with  *)
(* a mistake put in; no action uses it, it is there to be swapped in.       *)
(****************************************************************************)
EXTENDS Integers

CONSTANTS Calls,          \* the server methods the client uses
          Batches,        \* sizes of the batches it inserts
          MaxExamples,    \* bound: it inserts nothing beyond this many
          StartExamples,  \* examples in the dataset when the server is made
          StartNodes,     \* nodes of the graph passed to the server
          Lambda,         \* m_lambda
          PollsHasStarted \* the client waits for hasStarted() before it
                          \* calls anything but run and insertExamples

Methods == {"run", "pause", "terminate", "destroy", "insert", "clustering",
            "getNode", "getMissingNode"}

ASSUME ControlAssumption ==
    /\ Calls \subseteq Methods
    /\ Batches \subseteq Nat \ {0}
    /\ MaxExamples \in Nat /\ StartExamples \in 0 .. MaxExamples
    /\ StartNodes \in Nat
    /\ Lambda \in Nat \ {0}
    /\ PollsHasStarted \in BOOLEAN

VARIABLES
    status, request,     \* m_gng_status, m_gng_status_request
    apc,                 \* where the algorithm thread is
    s,                   \* adapt calls made in this round
    graph_nodes,         \* m_g.get_number_nodes(), up to the randomInit
    iterated,            \* hasStarted(): m_iteration # 0
    db_size,             \* g_db->size()
    db_lock, graph_lock, \* who holds them
    cpc,                 \* where the client is
    call,                \* the server method it is in
    told                 \* the last of run, pause, terminate to have returned

algorithmVars == <<apc, s, graph_nodes, iterated>>
statusVars == <<status, request>>
lockVars == <<db_lock, graph_lock>>
clientVars == <<cpc, call, told>>
vars == <<statusVars, algorithmVars, db_size, lockVars, clientVars>>

Status == {"RUNNING", "PAUSED", "TERMINATED"}

(* randomInit, adapt and addNewNode: the places that change the graph. *)
Learning == {"init_graph", "adapt", "grow"}

Init ==
    /\ status = "TERMINATED" /\ request = "TERMINATED"
    /\ apc = "no_thread" /\ s = 0 /\ iterated = FALSE
    /\ graph_nodes = StartNodes
    /\ db_size = StartExamples
    /\ db_lock = "free" /\ graph_lock = "free"
    /\ cpc = "idle" /\ call = "none" /\ told = "none"
-----------------------------------------------------------------------------
(* The algorithm thread. *)

AlgGoto(from, to) == apc = from /\ apc' = to

(* m_gng_status = m_gng_status_request = GNG_RUNNING, right to left. *)
ResetRequest ==
    /\ AlgGoto("enter", "enter_status")
    /\ request' = "RUNNING"
    /\ UNCHANGED <<status, s, graph_nodes, iterated, db_size, lockVars, clientVars>>

ResetStatus ==
    /\ AlgGoto("enter_status", "await_examples")
    /\ status' = "RUNNING" /\ s' = 0
    /\ UNCHANGED <<request, graph_nodes, iterated, db_size, lockVars, clientVars>>

(* while (g_db->size() < 2) { while (request == GNG_PAUSED) { ... } } *)
BugWantsThree == db_size <= 2
ExamplesMissing == db_size < 2

CheckExamples ==
    /\ apc = "await_examples"
    /\ apc' = IF ExamplesMissing THEN "await_pause" ELSE "check_graph"
    /\ UNCHANGED <<statusVars, s, graph_nodes, iterated, db_size, lockVars, clientVars>>

AwaitPauseCheck ==
    /\ apc = "await_pause"
    /\ apc' = IF request = "PAUSED" THEN "await_terminate" ELSE "await_examples"
    /\ UNCHANGED <<statusVars, s, graph_nodes, iterated, db_size, lockVars, clientVars>>

(* The test for termination sits inside the loop on GNG_PAUSED: it succeeds *)
(* only if the request changed since that loop's own test.                  *)
AwaitTerminateCheck ==
    /\ apc = "await_terminate"
    /\ IF request = "TERMINATED"
       THEN apc' = "ended" /\ status' = "TERMINATED"
       ELSE apc' = "await_park" /\ UNCHANGED status
    /\ UNCHANGED <<request, s, graph_nodes, iterated, db_size, lockVars, clientVars>>

(* An empty graph is seeded; a graph of one node ends the thread by an      *)
(* exception, and nothing sets the status.                                  *)
CheckGraph ==
    /\ apc = "check_graph"
    /\ apc' = CASE graph_nodes = 0 -> "init_db"
                [] graph_nodes = 1 -> "ended"
                [] OTHER -> "top"
    /\ UNCHANGED <<statusVars, s, graph_nodes, iterated, db_size, lockVars, clientVars>>

BugTakesNoLock == UNCHANGED graph_lock
ObtainGraph == graph_lock = "free" /\ graph_lock' = "algorithm"

InitLockDataset ==
    /\ AlgGoto("init_db", "init_lock") /\ db_lock = "free"
    /\ db_lock' = "algorithm"
    /\ UNCHANGED <<statusVars, s, graph_nodes, iterated, db_size, graph_lock, clientVars>>

InitLockGraph ==
    /\ AlgGoto("init_lock", "init_graph") /\ ObtainGraph
    /\ UNCHANGED <<statusVars, s, graph_nodes, iterated, db_size, db_lock, clientVars>>

RandomInit ==
    /\ AlgGoto("init_graph", "top")
    /\ graph_nodes' = 2
    /\ db_lock' = "free" /\ graph_lock' = "free"
    /\ UNCHANGED <<statusVars, s, iterated, db_size, clientVars>>

(* The head of the main loop. *)
PauseCheck ==
    /\ apc = "top"
    /\ apc' = IF request = "PAUSED" THEN "set_paused" ELSE "check_terminate"
    /\ UNCHANGED <<statusVars, s, graph_nodes, iterated, db_size, lockVars, clientVars>>

(* m_gng_status = m_gng_status_request reads the request again. *)
AcknowledgeRequest ==
    /\ AlgGoto("set_paused", "park")
    /\ status' = request
    /\ UNCHANGED <<request, s, graph_nodes, iterated, db_size, lockVars, clientVars>>

(* condition_variable::wait: only a notification after this point counts. *)
Park ==
    /\ AlgGoto("park", "parked") \/ AlgGoto("await_park", "await_parked")
    /\ UNCHANGED <<statusVars, s, graph_nodes, iterated, db_size, lockVars, clientVars>>

TerminateCheck ==
    /\ apc = "check_terminate"
    /\ apc' = IF request = "TERMINATED" THEN "exit" ELSE "set_running"
    /\ UNCHANGED <<statusVars, s, graph_nodes, iterated, db_size, lockVars, clientVars>>

BugNotAnnounced ==
    /\ AlgGoto("set_running", "draw")
    /\ UNCHANGED <<statusVars, s, graph_nodes, iterated, db_size, lockVars, clientVars>>
SetRunning ==
    /\ AlgGoto("set_running", "draw")
    /\ status' = "RUNNING"
    /\ UNCHANGED <<request, s, graph_nodes, iterated, db_size, lockVars, clientVars>>

(* One pass of the m_lambda loop: an example is drawn under the dataset     *)
(* lock, then adapt runs under the graph lock.                              *)
Draw ==
    /\ AlgGoto("draw", "lock_adapt") /\ db_lock = "free"
    /\ UNCHANGED <<statusVars, s, graph_nodes, iterated, db_size, lockVars, clientVars>>

LockGraph ==
    /\ \/ AlgGoto("lock_adapt", "adapt")
       \/ AlgGoto("lock_grow", "grow")
    /\ ObtainGraph
    /\ UNCHANGED <<statusVars, s, graph_nodes, iterated, db_size, db_lock, clientVars>>

BugOneAdaptMore == s < Lambda
RoundGoesOn == s + 1 < Lambda

Adapt ==
    /\ apc = "adapt" /\ graph_lock' = "free"
    /\ IF RoundGoesOn THEN apc' = "draw" /\ s' = s + 1
                      ELSE apc' = "lock_grow" /\ s' = 0
    /\ UNCHANGED <<statusVars, graph_nodes, iterated, db_size, db_lock, clientVars>>

Grow ==
    /\ AlgGoto("grow", "top") /\ graph_lock' = "free"
    /\ iterated' = TRUE
    /\ UNCHANGED <<statusVars, s, graph_nodes, db_size, db_lock, clientVars>>

BugEndsSilently ==
    /\ AlgGoto("exit", "ended")
    /\ UNCHANGED <<statusVars, s, graph_nodes, iterated, db_size, lockVars, clientVars>>
Exit ==
    /\ AlgGoto("exit", "ended")
    /\ status' = "TERMINATED"
    /\ UNCHANGED <<request, s, graph_nodes, iterated, db_size, lockVars, clientVars>>

Algorithm ==
    \/ ResetRequest \/ ResetStatus
    \/ CheckExamples \/ AwaitPauseCheck \/ AwaitTerminateCheck
    \/ CheckGraph \/ InitLockDataset \/ InitLockGraph \/ RandomInit
    \/ PauseCheck \/ AcknowledgeRequest \/ Park \/ TerminateCheck
    \/ SetRunning \/ Draw \/ LockGraph \/ Adapt \/ Grow \/ Exit
-----------------------------------------------------------------------------
(* The client. *)

Goto(from, to) == cpc = from /\ cpc' = to

(* The call returns; `report' is what the client believes from now on. *)
Return(report) == cpc' = "idle" /\ call' = "none" /\ told' = report

Waiting == {"parked", "await_parked"}

(* A thread that leaves the wait evaluates its loop again. *)
WakeUp == apc' = CASE apc = "parked" -> "top"
                   [] apc = "await_parked" -> "await_pause"
                   [] OTHER -> apc

(* The client enters a method; it believes nothing until the call returns.  *)
Begin(m) ==
    /\ cpc = "idle" /\ m \in Calls
    /\ PollsHasStarted => iterated \/ m \in {"run", "insert"}
    /\ m = "insert" => \E n \in Batches : db_size + n <= MaxExamples
    /\ call' = m
    /\ told' = IF m = "getNode" THEN told ELSE "none"
    /\ cpc' = CASE m = "run" -> "run"
                [] m = "pause" -> "pause"
                [] m \in {"terminate", "destroy"} -> "terminate"
                [] m = "insert" -> "insert"
                [] m = "clustering" -> "clustering"
                [] m \in {"getNode", "getMissingNode"} -> "get_node"
    /\ UNCHANGED <<statusVars, algorithmVars, db_size, lockVars>>

(* GNGServer::run: the first call makes the thread, the others resume it.   *)
ServerRun ==
    /\ cpc = "run"
    /\ IF apc = "no_thread"
       THEN apc' = "enter" /\ Return("run")
       ELSE cpc' = "run_status" /\ UNCHANGED <<apc, call, told>>
    /\ UNCHANGED <<statusVars, s, graph_nodes, iterated, db_size, lockVars>>

(* GNGAlgorithm::run(true): the status is read for TERMINATED, read again   *)
(* for RUNNING; the request, the notification and the wait follow.          *)
RunTerminated ==
    /\ cpc = "run_status"
    /\ IF status = "TERMINATED" THEN Return("none")
       ELSE cpc' = "run_running" /\ UNCHANGED <<call, told>>
    /\ UNCHANGED <<statusVars, algorithmVars, db_size, lockVars>>

RunRunning ==
    /\ cpc = "run_running"
    /\ cpc' = IF status # "RUNNING" THEN "run_request" ELSE "run_wait"
    /\ UNCHANGED <<statusVars, algorithmVars, db_size, lockVars, call, told>>

RunWait ==
    /\ cpc = "run_wait"
    /\ db_size > 2 => status # "PAUSED"
    /\ Return("run")
    /\ UNCHANGED <<statusVars, algorithmVars, db_size, lockVars>>

(* GNGAlgorithm::pause(true) *)
PauseCheckStatus ==
    /\ cpc = "pause"
    /\ cpc' = IF status # "PAUSED" THEN "pause_request" ELSE "pause_wait"
    /\ UNCHANGED <<statusVars, algorithmVars, db_size, lockVars, call, told>>

BugReturnsAtOnce == TRUE
PauseSeen == db_size > 2 => status # "RUNNING"

PauseWait ==
    /\ cpc = "pause_wait"
    /\ PauseSeen
    /\ IF call = "clustering" THEN cpc' = "run_status" /\ UNCHANGED <<call, told>>
                              ELSE Return("pause")
    /\ UNCHANGED <<statusVars, algorithmVars, db_size, lockVars>>

(* GNGAlgorithm::terminate(true) waits whatever the size of the dataset.    *)
TerminateCheckStatus ==
    /\ cpc = "terminate"
    /\ cpc' = IF status # "TERMINATED" THEN "terminate_request" ELSE "terminate_wait"
    /\ UNCHANGED <<statusVars, algorithmVars, db_size, lockVars, call, told>>

BugDoesNotWait == TRUE
TerminateSeen == status # "RUNNING"

TerminateWait ==
    /\ cpc = "terminate_wait"
    /\ TerminateSeen
    /\ IF call = "destroy" THEN cpc' = "join" /\ UNCHANGED <<call, told>>
                           ELSE Return("terminate")
    /\ UNCHANGED <<statusVars, algorithmVars, db_size, lockVars>>

(* The three of them store the request, then notify. *)
Request(from, to, value) ==
    /\ Goto(from, to)
    /\ request' = value
    /\ UNCHANGED <<status, algorithmVars, db_size, lockVars, call, told>>

Notify(from, to) ==
    /\ Goto(from, to)
    /\ WakeUp
    /\ UNCHANGED <<statusVars, s, graph_nodes, iterated, db_size, lockVars, call, told>>

(* ~GNGServer joins the thread if there is one. *)
ThreadOver == apc \in {"no_thread", "ended"}

Join ==
    /\ cpc = "join" /\ ThreadOver
    /\ cpc' = "destroyed"
    /\ UNCHANGED <<statusVars, algorithmVars, db_size, lockVars, call, told>>

(* insertExamples stores the batch under the dataset lock, then the R       *)
(* method runs the server if it is not running.                             *)
InsertBatch ==
    /\ Goto("insert", "insert_run") /\ db_lock = "free"
    /\ \E n \in Batches : db_size + n <= MaxExamples /\ db_size' = db_size + n
    /\ UNCHANGED <<statusVars, algorithmVars, lockVars, call, told>>

InsertRun ==
    /\ cpc = "insert_run"
    /\ IF status # "RUNNING" THEN cpc' = "run" /\ UNCHANGED <<call, told>>
                             ELSE Return("none")
    /\ UNCHANGED <<statusVars, algorithmVars, db_size, lockVars>>

(* get_clustering pauses and resumes an algorithm that is running. *)
Clustering ==
    /\ cpc = "clustering"
    /\ IF status = "RUNNING" THEN cpc' = "pause" /\ UNCHANGED <<call, told>>
                             ELSE Return("none")
    /\ UNCHANGED <<statusVars, algorithmVars, db_size, lockVars>>

(* getNode locks the graph and unlocks it again unless there is no node of  *)
(* that number.  The graph mutex is recursive.                              *)
GetNode ==
    /\ cpc = "get_node" /\ graph_lock # "algorithm"
    /\ graph_lock' = IF call = "getMissingNode" THEN "client" ELSE graph_lock
    /\ Return(told)
    /\ UNCHANGED <<statusVars, algorithmVars, db_size, db_lock>>

InCall ==
    \/ ServerRun \/ RunTerminated \/ RunRunning \/ RunWait
    \/ PauseCheckStatus \/ PauseWait
    \/ TerminateCheckStatus \/ TerminateWait \/ Join
    \/ Request("run_request", "run_notify", "RUNNING")
    \/ Notify("run_notify", "run_wait")
    \/ Request("pause_request", "pause_notify", "PAUSED")
    \/ Notify("pause_notify", "pause_wait")
    \/ Request("terminate_request", "terminate_notify", "TERMINATED")
    \/ Notify("terminate_notify", "terminate_wait")
    \/ InsertBatch \/ InsertRun \/ Clustering \/ GetNode

(* A wait may end without a notification. *)
SpuriousWakeUp ==
    /\ apc \in Waiting
    /\ WakeUp
    /\ UNCHANGED <<statusVars, s, graph_nodes, iterated, db_size, lockVars, clientVars>>

Next == Algorithm \/ InCall \/ SpuriousWakeUp \/ \E m \in Methods : Begin(m)

(* The scheduler runs both threads; a client need not call anything, and no *)
(* wait is promised a spurious wake-up.                                     *)
Spec == Init /\ [][Next]_vars /\ WF_vars(Algorithm) /\ WF_vars(InCall)
-----------------------------------------------------------------------------
AlgorithmPCs ==
    {"no_thread", "enter", "enter_status", "await_examples", "await_pause",
     "await_terminate", "await_park", "await_parked", "check_graph", "init_db",
     "init_lock", "init_graph", "top", "set_paused", "park", "parked",
     "check_terminate", "set_running", "draw", "lock_adapt", "adapt",
     "lock_grow", "grow", "exit", "ended"}

ClientPCs ==
    {"idle", "run", "run_status", "run_running", "run_request", "run_notify",
     "run_wait", "pause", "pause_request", "pause_notify", "pause_wait",
     "terminate", "terminate_request", "terminate_notify", "terminate_wait",
     "join", "destroyed", "insert", "insert_run", "clustering", "get_node"}

TypeOK ==
    /\ status \in Status /\ request \in Status
    /\ apc \in AlgorithmPCs /\ s \in 0 .. Lambda - 1
    /\ graph_nodes \in Nat /\ iterated \in BOOLEAN
    /\ db_size \in 0 .. MaxExamples
    /\ db_lock \in {"free", "algorithm"}
    /\ graph_lock \in {"free", "algorithm", "client"}
    /\ cpc \in ClientPCs /\ call \in Methods \cup {"none"}
    /\ told \in {"none", "run", "pause", "terminate"}

(* The graph changes only under its lock, and is seeded under both.         *)
ChangesUnderLock ==
    /\ apc \in Learning => graph_lock = "algorithm"
    /\ apc = "init_graph" => db_lock = "algorithm"

(* "Many algorithm results are retrievable only when it is paused": once    *)
(* pause has returned, the algorithm changes nothing until the next call.   *)
PauseHolds == told = "pause" => apc \notin Learning

(* A terminated algorithm never learns again, whatever is called later.     *)
TerminateIsFinal == [](told = "terminate" => [](apc \notin Learning))

(* The thread learns only while isRunning() says so.                        *)
LearnsOnlyWhenRunning == apc \in Learning => status = "RUNNING"

(* Every call returns, whatever it waits for: the status, a lock, the end   *)
(* of the thread.                                                           *)
CallsReturn == cpc # "idle" ~> cpc \in {"idle", "destroyed"}

(* An algorithm that was told to run, with enough examples, goes on to      *)
(* complete rounds until the client calls something else.                   *)
RunResumes == (told = "run" /\ db_size >= 2) ~> (apc = "grow" \/ told # "run")

(* The algorithm is never kept from the graph for ever.                     *)
GraphLockObtained == apc \in {"init_lock", "lock_adapt", "lock_grow"} ~> apc \in Learning
=============================================================================
