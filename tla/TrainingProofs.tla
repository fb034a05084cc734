---------------------------- MODULE TrainingProofs ----------------------------
(****************************************************************************)
(* Proofs about Training for every capacity and window of the history, every*)
(* batch, bound and set of errors.                                          *)
(****************************************************************************)
EXTENDS Training, FiniteSetTheorems, WellFoundedInduction, TLAPS

OfflinePCs == {"new", "look", "poll", "statistics", "compare", "remember", "ended",
               "terminating", "clustering", "done", "failed"}
OnlinePCs == {"new", "idle", "pausing", "paused", "resuming"}

(* What TypeOK says of each variable, without its sets of values.           *)
Typed ==
    /\ mode \in Modes /\ access \in Access
    /\ examples \in Nat /\ capacity \in Nat /\ storage \in Nat /\ s \in Nat
    /\ nodes \in Nat /\ iteration \in Nat /\ ex \in Nat /\ position \in Nat
    /\ count \in Nat /\ iter \in Nat
    /\ current_example \in Nat /\ (current_example < examples \/ current_example = 0)
    /\ apc \in {"none", "start", "examples", "check", "draw", "adapt", "batch", "pushing",
                "grow", "leave", "over"}
    /\ status \in Statuses /\ request \in Statuses
    /\ array \in [0 .. Capacity - 1 -> Errors \cup {0}]
    /\ head \in 0 .. Capacity - 1 /\ tail \in 0 .. Capacity - 1
    /\ contents \in 0 .. Capacity
    /\ labels \in 0 .. examples /\ fresh \subseteq 0 .. examples - 1
    /\ rpc \in OfflinePCs \cup OnlinePCs
    /\ best \in Errors \cup {Worst} /\ error_index \in -1 .. Capacity
    /\ patience \in 0 .. InitialPatience
    /\ errors = <<>> \/ Len(errors) \in Window + 1 .. Capacity
    /\ careless \in BOOLEAN

(* Where the thread is, by its status; the mode fixes which requests come.  *)
ThreadAgrees ==
    /\ rpc = "new" <=> apc = "none"
    /\ apc \in {"none", "start"} => status = "TERMINATED" /\ iteration = 0
    /\ status = "TERMINATED" => apc \in {"none", "start", "over"}
    /\ status = "RUNNING" => apc # "over"
    /\ apc \notin {"none", "start", "examples"} => examples >= 2
    /\ apc # "none" => examples >= 1

OfflineAgrees ==
    mode = "offline" =>
        /\ rpc \in OfflinePCs
        /\ status # "PAUSED" /\ request # "PAUSED"
        /\ rpc = "terminating" => apc # "start"
        /\ rpc \in {"clustering", "done"} => apc = "over"

OnlineAgrees ==
    mode = "online" =>
        /\ rpc \in OnlinePCs
        /\ apc \notin {"leave", "over"}
        /\ apc \notin {"none", "start"} => request # "TERMINATED"
        /\ status = "PAUSED" => apc = "check"

(* What a session that pauses before it inserts may rely on.                *)
PauseAgrees ==
    mode = "online" /\ ~careless =>
        /\ rpc = "paused" => examples > 2
        /\ examples > 2 =>
              /\ rpc \in {"idle", "resuming"} => apc = "start" \/ request = "RUNNING"
              /\ rpc = "idle" => status # "PAUSED"
              /\ rpc \in {"pausing", "paused"} => apc # "start" /\ request = "PAUSED"
              /\ rpc = "paused" => status = "PAUSED"

(* The buffer from head on is `recent', whose last error is in its place    *)
(* before it is counted.                                                    *)
Place(n) == IF n + head < Capacity THEN n + head ELSE n + head - Capacity

BufferAgrees ==
    /\ recent \in Seq(Errors)
    /\ Len(recent) = IF apc = "pushing" THEN contents + 1 ELSE contents
    /\ Len(recent) <= Capacity
    /\ tail = IF head + contents - 1 < Capacity THEN head + contents - 1
                                               ELSE head + contents - 1 - Capacity
    /\ \A n \in 0 .. Len(recent) - 1 : array[Place(n)] = recent[n + 1]

SessionAgrees ==
    /\ errors \in Seq(Errors)
    /\ rpc \in {"compare", "remember"} => errors # <<>>
    /\ rpc \in {"new", "look", "poll", "statistics", "compare", "remember"} => patience > 0

LabelsAgree ==
    /\ rpc \notin {"clustering", "done"} => fresh = {}
    /\ fresh # {} => labels = examples
    /\ rpc = "done" => fresh = 0 .. examples - 1 /\ labels = examples

TrainingInv ==
    /\ Typed /\ ThreadAgrees /\ OfflineAgrees /\ OnlineAgrees /\ PauseAgrees
    /\ BufferAgrees /\ SessionAgrees /\ LabelsAgree /\ ExampleInPlace
-----------------------------------------------------------------------------
(* A nonempty set of naturals has a least element, and Min is it.           *)
LEMMA MinOfNaturals ==
  ASSUME NEW S \in SUBSET Nat, S # {}
  PROVE  Min(S) \in S /\ \A y \in S : Min(S) <= y
<1> DEFINE R == OpToRel(<, Nat)
<1>1. IsWellFoundedOn(R, Nat)
  BY NatLessThanWellFounded
<1>2. ASSUME NEW a \in Nat, NEW b \in Nat PROVE <<a, b>> \in R <=> a < b
  <2>1. <<a, b>> \in Nat \X Nat
    OBVIOUS
  <2> QED
    BY <2>1 DEF OpToRel
<1> HIDE DEF R
<1>3. PICK x \in S : \A y \in S : ~(<<y, x>> \in R)
  BY <1>1, WFMin
<1>4. ASSUME NEW y \in S PROVE x <= y
  <2>1. y \in Nat /\ x \in Nat /\ ~(<<y, x>> \in R)
    BY <1>3
  <2>2. ~(y < x)
    BY <1>2, <2>1
  <2> QED
    BY <2>1, <2>2
<1> QED
  BY <1>4 DEF Min

(* The bound of current_example.                                            *)
LEMMA MaxWithZero ==
  ASSUME NEW a \in Int
  PROVE  Max({a, 0}) = IF a >= 0 THEN a ELSE 0
BY DEF Max

(* Remainders, where the code takes them.                                   *)
LEMMA RemainderRange ==
  ASSUME NEW a \in Nat, NEW b \in Nat \ {0}
  PROVE  a % b \in 0 .. b - 1
OBVIOUS

(* The remainder that wraps an index of the circular buffer subtracts the capacity at most
   once. *)
LEMMA Wraps ==
  ASSUME NEW a \in Nat, NEW b \in Nat \ {0}, a < 2 * b
  PROVE  a % b = IF a < b THEN a ELSE a - b
OBVIOUS
(* The counters that TypeOK lists, one by one.                              *)
LEMMA Counters ==
  ASSUME TypeOK
  PROVE  /\ examples \in Nat /\ capacity \in Nat /\ storage \in Nat /\ s \in Nat
         /\ nodes \in Nat /\ iteration \in Nat /\ ex \in Nat /\ position \in Nat
         /\ count \in Nat /\ iter \in Nat
BY DEF TypeOK

(* And back.                                                                *)
LEMMA CountersTyped ==
  ASSUME examples \in Nat, capacity \in Nat, storage \in Nat, s \in Nat, nodes \in Nat,
         iteration \in Nat, ex \in Nat, position \in Nat, count \in Nat, iter \in Nat
  PROVE  {examples, capacity, storage, s, nodes, iteration, ex, position, count, iter}
            \subseteq Nat
OBVIOUS

-----------------------------------------------------------------------------
(* The invariant holds before the first call.                               *)
LEMMA TrainingInit == Init => TrainingInv
<1> SUFFICES ASSUME Init PROVE TrainingInv
  OBVIOUS
<1> USE TrainingAssumption DEF Init
<1>1. Typed
  <2>1. 1 \in 0 .. Capacity - 1 /\ 0 \in 0 .. Capacity - 1 /\ Capacity \in Nat
    OBVIOUS
  <2>2. array \in [0 .. Capacity - 1 -> Errors \cup {0}]
    OBVIOUS
  <2>3. fresh \subseteq 0 .. examples - 1 /\ labels \in 0 .. examples
    OBVIOUS
  <2>4. error_index \in -1 .. Capacity /\ patience \in 0 .. InitialPatience
    BY <2>1 DEF InitialPatience
  <2>5. /\ mode \in Modes /\ access \in Access /\ best \in Errors \cup {Worst}
        /\ errors = <<>> /\ careless \in BOOLEAN
    OBVIOUS
  <2>6. /\ examples \in Nat /\ capacity \in Nat /\ storage \in Nat /\ s \in Nat
        /\ nodes \in Nat /\ iteration \in Nat /\ ex \in Nat /\ position \in Nat
        /\ count \in Nat /\ iter \in Nat
        /\ current_example \in Nat /\ current_example = 0
    OBVIOUS
  <2>7. /\ head \in 0 .. Capacity - 1 /\ tail \in 0 .. Capacity - 1
        /\ contents \in 0 .. Capacity
    BY <2>1
  <2>8. /\ apc = "none" /\ status \in Statuses /\ request \in Statuses
        /\ rpc \in OfflinePCs \cup OnlinePCs
    BY DEF Statuses, OfflinePCs
  <2> QED
    BY ONLY <2>2, <2>3, <2>4, <2>5, <2>6, <2>7, <2>8 DEF Typed
<1>2. ThreadAgrees /\ OfflineAgrees /\ OnlineAgrees /\ PauseAgrees
  BY DEF ThreadAgrees, OfflineAgrees, OnlineAgrees, PauseAgrees, OfflinePCs, OnlinePCs
<1>3. BufferAgrees
  BY DEF BufferAgrees
<1>4. SessionAgrees /\ LabelsAgree /\ ExampleInPlace
  BY DEF SessionAgrees, LabelsAgree, ExampleInPlace, InitialPatience
<1> QED
  BY <1>1, <1>2, <1>3, <1>4 DEF TrainingInv

(* The handshake: no step of either thread loses track of where the other is.*)
LEMMA HandshakeStep ==
  TrainingInv /\ [Next]_vars =>
      ThreadAgrees' /\ OfflineAgrees' /\ OnlineAgrees' /\ PauseAgrees' /\ ExampleInPlace'
<1> SUFFICES ASSUME TrainingInv, [Next]_vars
             PROVE  ThreadAgrees' /\ OfflineAgrees' /\ OnlineAgrees' /\ PauseAgrees'
                    /\ ExampleInPlace'
  OBVIOUS
<1>0. /\ examples \in Nat /\ iteration \in Nat /\ storage \in Nat
      /\ mode \in {"offline", "online"} /\ careless \in BOOLEAN
      /\ status \in Statuses /\ request \in Statuses
      /\ \A k \in Batches : k \in Nat /\ k > 0
      /\ MaxIter \in Nat
  <2>1. Typed
    BY DEF TrainingInv
  <2>2. \A k \in Batches : k \in Nat /\ k > 0
    BY TrainingAssumption
  <2>3. MaxIter \in Nat
    BY TrainingAssumption
  <2>4. mode \in {"offline", "online"}
    BY <2>1, TrainingAssumption DEF Typed
  <2> QED
    BY <2>1, <2>2, <2>3, <2>4 DEF Typed
<1>i. ThreadAgrees /\ OfflineAgrees /\ OnlineAgrees /\ PauseAgrees /\ ExampleInPlace
  BY DEF TrainingInv
<1> USE <1>0, <1>i
    DEF ThreadAgrees, OfflineAgrees, OnlineAgrees, PauseAgrees, ExampleInPlace,
        OfflinePCs, OnlinePCs, Statuses, AlgGoto, Goto, IsRunning, KeepServer,
        datasetVars, algorithmVars, bufferVars, labelVars, clientVars
<1>a1. CASE Start
  BY <1>a1 DEF Start
<1>a2. CASE Seed
  BY <1>a2 DEF Seed
<1>a3. CASE Check
  BY <1>a3 DEF Check
<1>a4. CASE Draw
  BY <1>a4 DEF Draw, DrawExample
<1>a5. CASE Adapt
  BY <1>a5 DEF Adapt
<1>a6. CASE Batch
  BY <1>a6 DEF Batch, StoreError
<1>a7. CASE EndBatch
  BY <1>a7 DEF EndBatch, AdvanceTail
<1>a8. CASE Grow
  BY <1>a8 DEF Grow, NextIteration
<1>a9. CASE Leave
  BY <1>a9 DEF Leave
<1>o1. CASE Insert
  BY <1>o1 DEF Insert, Inserted, InsertExamples, Resume
<1>o2. CASE LoopHead
  BY <1>o2 DEF LoopHead
<1>o3. CASE Poll
  BY <1>o3 DEF Poll
<1>o4. CASE ReadStatistics
  BY <1>o4 DEF ReadStatistics
<1>o5. CASE Compare
  BY <1>o5 DEF Compare
<1>o6. CASE Remember
  BY <1>o6 DEF Remember
<1>o7. CASE Terminate
  BY <1>o7 DEF Terminate
<1>o8. CASE Terminated
  BY <1>o8 DEF Terminated, TerminateReturns
<1>o9. CASE UpdateClustering
  BY <1>o9 DEF UpdateClustering
<1>p1. CASE InsertMore
  <2>1. PICK k \in Batches : Inserted(k)
    BY <1>p1 DEF InsertMore
  <2>2. /\ rpc \in {"new", "idle", "paused"} /\ rpc' = "resuming" /\ mode = "online"
        /\ careless' = (careless \/ rpc = "idle")
        /\ examples' = examples + k /\ k > 0 /\ k \in Nat
        /\ UNCHANGED <<mode, status, iteration, position>>
    BY <1>p1, <2>1 DEF InsertMore, Inserted, InsertExamples
  <2>3. IF apc = "none" THEN apc' = "start" /\ request' = request
        ELSE apc' = apc /\ request' \in {request, "RUNNING"}
    BY <2>1 DEF Inserted, Resume
  <2>4. CASE rpc = "new"
    BY <2>2, <2>3, <2>4
  <2>5. CASE rpc = "paused"
    <3>1. apc # "none" /\ apc' = apc
      BY <2>3, <2>5
    <3>2. ~careless => apc = "check" /\ status = "PAUSED" /\ request' = "RUNNING"
      BY <2>1, <2>2, <2>5, <3>1 DEF Inserted, Resume
    <3> QED
      BY <2>2, <2>3, <2>5, <3>1, <3>2
  <2>6. CASE rpc = "idle"
    <3>1. careless'
      BY <2>2, <2>6
    <3>2. apc # "none" /\ apc' = apc /\ request' \in {request, "RUNNING"}
      BY <2>3, <2>6
    <3> QED
      BY <2>2, <2>6, <3>1, <3>2
  <2> QED
    BY <2>2, <2>4, <2>5, <2>6
<1>p2. CASE Pause
  BY <1>p2 DEF Pause
<1>p3. CASE Paused
  BY <1>p3 DEF Paused, PauseReturns
<1>p4. CASE Run
  BY <1>p4 DEF Run, Resume
<1>p5. CASE Resumed
  BY <1>p5 DEF Resumed, RunReturns
<1>u. CASE UNCHANGED vars
  BY <1>u DEF vars
<1> QED
  BY <1>a1, <1>a2, <1>a3, <1>a4, <1>a5, <1>a6, <1>a7, <1>a8, <1>a9,
     <1>o1, <1>o2, <1>o3, <1>o4, <1>o5, <1>o6, <1>o7, <1>o8, <1>o9,
     <1>p1, <1>p2, <1>p3, <1>p4, <1>p5, <1>u
  DEF Next, Algorithm, Offline, Online

(* Only the batch steps touch the history.                                  *)
LEMMA HistoryUntouched ==
  [Next]_vars => \/ Batch \/ EndBatch
                 \/ UNCHANGED bufferVars /\ (apc' = "pushing" <=> apc = "pushing")
<1> SUFFICES ASSUME [Next]_vars, ~Batch, ~EndBatch
             PROVE  UNCHANGED bufferVars /\ (apc' = "pushing" <=> apc = "pushing")
  OBVIOUS
<1> USE DEF AlgGoto, Goto, KeepServer, datasetVars, algorithmVars, bufferVars, labelVars
<1>a. CASE Start \/ Seed \/ Check \/ Draw \/ Adapt \/ Grow \/ Leave
  BY <1>a DEF Start, Seed, Check, Draw, Adapt, Grow, Leave
<1>o. CASE Offline
  BY <1>o DEF Offline, Insert, Inserted, LoopHead, Poll, ReadStatistics, Compare, Remember,
              Terminate, Terminated, UpdateClustering
<1>p. CASE Online
  BY <1>p DEF Online, InsertMore, Inserted, Pause, Paused, Run, Resumed
<1>u. CASE UNCHANGED vars
  BY <1>u DEF vars
<1> QED
  BY <1>a, <1>o, <1>p, <1>u DEF Next, Algorithm

(* push_back keeps the order: into a full buffer the new error takes the    *)
(* place of the oldest, into another one the place behind the last.         *)
LEMMA BufferStep ==
  TrainingInv /\ [Next]_vars => BufferAgrees'
<1> SUFFICES ASSUME TrainingInv, [Next]_vars PROVE BufferAgrees'
  OBVIOUS
<1>0. /\ Capacity \in Nat /\ Capacity >= 2
      /\ array \in [0 .. Capacity - 1 -> Errors \cup {0}]
      /\ head \in 0 .. Capacity - 1 /\ tail \in 0 .. Capacity - 1
      /\ contents \in 0 .. Capacity
  BY TrainingAssumption DEF TrainingInv, Typed
<1>i. BufferAgrees
  BY DEF TrainingInv
<1>1. CASE UNCHANGED bufferVars /\ (apc' = "pushing" <=> apc = "pushing")
  BY <1>1, <1>i DEF BufferAgrees, bufferVars, Place
<1>2. CASE EndBatch
  <2>1. /\ apc = "pushing" /\ apc' = "grow"
        /\ contents' = contents + 1 /\ tail' = Following(tail)
        /\ UNCHANGED <<array, head, recent>>
    BY <1>2 DEF EndBatch, AlgGoto, AdvanceTail
  <2>2. contents + 1 <= Capacity
    BY <2>1, <1>i DEF BufferAgrees
  <2>3. tail' = IF head' + contents' - 1 < Capacity THEN head' + contents' - 1
                                           ELSE head' + contents' - 1 - Capacity
    BY <1>0, <1>i, <2>1 DEF BufferAgrees, Following
  <2>4. \A n \in 0 .. Len(recent) - 1 : array'[Place(n)'] = recent'[n + 1]
    BY <1>i, <2>1 DEF BufferAgrees, Place
  <2> QED
    BY <1>0, <1>i, <2>1, <2>2, <2>3, <2>4 DEF BufferAgrees
<1>3. CASE Batch
  <2>1. PICK e \in Errors :
           \/ apc' = "pushing" /\ StoreError(e)
           \/ apc' = "grow" /\ UNCHANGED bufferVars
    BY <1>3 DEF Batch
  <2>2. apc = "batch"
    BY <1>3 DEF Batch
  <2>3. CASE apc' = "grow" /\ UNCHANGED bufferVars
    BY <2>2, <2>3, <1>i DEF BufferAgrees, bufferVars, Place
  <2>4. CASE apc' = "pushing" /\ StoreError(e)
    <3> DEFINE all == Append(recent, e)
    <3>1. /\ recent \in Seq(Errors) /\ Len(recent) = contents
          /\ \A n \in 0 .. contents - 1 : array[Place(n)] = recent[n + 1]
          /\ tail = IF head + contents - 1 < Capacity THEN head + contents - 1
                                               ELSE head + contents - 1 - Capacity
      BY <1>i, <2>2 DEF BufferAgrees
    <3>2. /\ all \in Seq(Errors) /\ Len(all) = contents + 1
          /\ all[contents + 1] = e
          /\ \A n \in 1 .. contents : all[n] = recent[n]
      BY <3>1, <1>0
    <3>3. /\ array' = [array EXCEPT ![Following(tail)] = e]
          /\ recent' = IF Len(all) > Capacity THEN Tail(all) ELSE all
          /\ tail' = tail
      BY <2>4 DEF StoreError
    <3>4. Following(tail) \in 0 .. Capacity - 1
      BY <1>0 DEF Following
    <3>5. CASE contents = Capacity
      <4>1. /\ head' = Following(head) /\ contents' = contents - 1
        BY <2>4, <3>5 DEF StoreError, HeadWhenFull
      <4>2. Following(tail) = head
        BY <1>0, <3>1, <3>5 DEF Following
      <4>3. /\ recent' = Tail(all) /\ recent' \in Seq(Errors) /\ Len(recent') = Capacity
            /\ \A n \in 1 .. Capacity : recent'[n] = all[n + 1]
        BY <1>0, <3>2, <3>3, <3>5
      <4>4. ASSUME NEW n \in 0 .. Capacity - 1
            PROVE  array'[Place(n)'] = recent'[n + 1]
        <5>1. CASE n = Capacity - 1
          <6>1. Place(n)' = head
            BY <1>0, <4>1, <5>1 DEF Place, Following
          <6>2. recent'[n + 1] = e
            BY <1>0, <3>2, <3>5, <4>3, <5>1
          <6> QED
            BY <1>0, <3>3, <4>2, <6>1, <6>2
        <5>2. CASE n # Capacity - 1
          <6>1. /\ Place(n)' = Place(n + 1) /\ Place(n + 1) # head
                /\ Place(n + 1) \in 0 .. Capacity - 1
            BY <1>0, <4>1, <5>2 DEF Place, Following
          <6>2. recent'[n + 1] = recent[n + 2]
            BY <1>0, <3>2, <3>5, <4>3, <5>2, SMTT(30)
          <6>3. array[Place(n + 1)] = recent[n + 2]
            BY <1>0, <3>1, <3>5, <5>2
          <6> QED
            BY <1>0, <3>3, <4>2, <6>1, <6>2, <6>3
        <5> QED
          BY <5>1, <5>2
      <4>5. tail' = IF head' + contents' - 1 < Capacity THEN head' + contents' - 1
                                               ELSE head' + contents' - 1 - Capacity
        BY <1>0, <3>1, <3>3, <3>5, <4>1 DEF Following
      <4> QED
        BY <1>0, <2>4, <3>5, <4>1, <4>3, <4>4, <4>5, SMTT(30) DEF BufferAgrees
    <3>6. CASE contents # Capacity
      <4>1. head' = head /\ contents' = contents
        BY <2>4, <3>6 DEF StoreError
      <4>2. Following(tail) = Place(contents)
        BY <1>0, <3>1, <3>6 DEF Following, Place
      <4>3. recent' = all
        BY <1>0, <3>2, <3>3, <3>6
      <4>4. ASSUME NEW n \in 0 .. contents
            PROVE  array'[Place(n)'] = recent'[n + 1]
        <5>1. Place(n)' = Place(n) /\ Place(n) \in 0 .. Capacity - 1
          BY <1>0, <4>1, <3>6 DEF Place
        <5>2. CASE n = contents
          BY <1>0, <3>2, <3>3, <3>4, <4>2, <4>3, <5>1, <5>2
        <5>3. CASE n # contents
          <6>1. Place(n) # Place(contents)
            BY <1>0, <3>6, <5>3 DEF Place
          <6> QED
            BY <1>0, <3>1, <3>2, <3>3, <4>2, <4>3, <5>1, <5>3, <6>1, SMTT(30)
        <5> QED
          BY <5>2, <5>3
      <4>5. /\ recent' \in Seq(Errors) /\ Len(recent') = contents' + 1
            /\ Len(recent') <= Capacity
        BY <1>0, <3>2, <3>6, <4>1, <4>3
      <4>6. tail' = IF head' + contents' - 1 < Capacity THEN head' + contents' - 1
                                               ELSE head' + contents' - 1 - Capacity
        BY <3>1, <3>3, <4>1
      <4>7. \A n \in 0 .. Len(recent') - 1 : array'[Place(n)'] = recent'[n + 1]
        BY <1>0, <4>1, <4>4, <4>5
      <4> QED
        BY <2>4, <4>5, <4>6, <4>7 DEF BufferAgrees
    <3> QED
      BY <3>5, <3>6
  <2> QED
    BY <2>1, <2>3, <2>4
<1> QED
  BY <1>1, <1>2, <1>3, HistoryUntouched

(* A reader indexing from the head gets the last errors, oldest first.      *)
LEMMA HistoryShown ==
  ASSUME Typed, BufferAgrees, StatisticsFree
  PROVE  Contents = recent
<1>0. /\ Capacity \in Nat /\ Capacity >= 2
      /\ head \in 0 .. Capacity - 1 /\ contents \in 0 .. Capacity
  BY TrainingAssumption DEF Typed
<1>1. /\ recent \in Seq(Errors) /\ Len(recent) = contents
      /\ \A n \in 0 .. contents - 1 : array[Place(n)] = recent[n + 1]
  BY DEF BufferAgrees, StatisticsFree
<1>2. ASSUME NEW n \in 1 .. contents PROVE At(n - 1) = recent[n]
  <2>1. (n - 1 + head) % Capacity = Place(n - 1)
    <3> DEFINE a == n - 1 + head
    <3>1. a \in Nat /\ a < 2 * Capacity /\ Capacity \in Nat \ {0}
      BY <1>0
    <3>2. a % Capacity = IF a < Capacity THEN a ELSE a - Capacity
      <4> HIDE DEF a
      <4> QED
        BY <3>1, Wraps
    <3>3. Place(n - 1) = IF a < Capacity THEN a ELSE a - Capacity
      BY <1>0, <3>1 DEF Place
    <3>4. a % Capacity = Place(n - 1)
      BY <3>2, <3>3
    <3> QED
      BY <3>4
  <2>2. n - 1 \in 0 .. contents - 1 /\ (n - 1) + 1 = n
    BY <1>0
  <2> QED
    BY <1>1, <2>1, <2>2 DEF At
<1>3. recent = [n \in 1 .. contents |-> recent[n]]
  BY <1>1
<1> QED
  BY <1>2, <1>3 DEF Contents

(* The window the session looks at lies inside what it read.                *)
LEMMA WindowInside ==
  ASSUME Typed, SessionAgrees, errors # <<>>
  PROVE  BestPreviously \in Errors
<1>1. Errors \subseteq Nat /\ Window \in Nat
  BY TrainingAssumption
<1>2. errors \in Seq(Errors) /\ Len(errors) \in Nat /\ Len(errors) >= Window + 1
  BY <1>1, TrainingAssumption DEF Typed, SessionAgrees
<1> DEFINE S == {errors[k] : k \in Len(errors) - Window .. Len(errors)}
<1>3. \A k \in Len(errors) - Window .. Len(errors) : errors[k] \in Errors
  BY <1>1, <1>2
<1>4. S \subseteq Errors /\ errors[Len(errors)] \in S
  BY <1>1, <1>2, <1>3
<1>5. Min(S) \in S
  BY <1>1, <1>4, MinOfNaturals
<1> QED
  BY <1>4, <1>5 DEF BestPreviously

(* The session's own variables, which only the offline loop changes.        *)
LEMMA SessionStep ==
  TrainingInv /\ [Next]_vars => SessionAgrees'
<1> SUFFICES ASSUME TrainingInv, [Next]_vars PROVE SessionAgrees'
  OBVIOUS
<1>i. SessionAgrees /\ BufferAgrees /\ Typed /\ patience \in Nat
  <2>1. Typed
    BY DEF TrainingInv
  <2> QED
    BY <2>1 DEF TrainingInv, Typed, InitialPatience
<1>0. OfflineAgrees /\ OnlineAgrees
  BY DEF TrainingInv
<1> USE <1>i DEF SessionAgrees, Goto, KeepServer, clientVars
<1>1. CASE ReadStatistics
  <2>1. Contents \in Seq(Errors)
    BY <1>1, HistoryShown DEF ReadStatistics, BufferAgrees
  <2>2. contents > Window => Contents # <<>>
    <3>1. Contents = recent /\ Len(recent) = contents
      BY <1>1, HistoryShown DEF ReadStatistics, BufferAgrees, StatisticsFree
    <3>2. Window \in Nat /\ contents \in Nat
      BY TrainingAssumption DEF Typed
    <3>3. contents > Window => Len(Contents) # 0
      BY <3>1, <3>2
    <3> QED
      BY <3>3
  <2> QED
    BY <1>1, <2>1, <2>2 DEF ReadStatistics
<1>2. CASE Compare
  BY <1>2 DEF Compare, OutOfPatience, InitialPatience
<1>3. CASE Remember
  BY <1>3 DEF Remember
<1>4. CASE Terminate
  BY <1>4 DEF Terminate
<1>5. CASE Insert \/ LoopHead \/ Poll \/ Terminated \/ UpdateClustering
  BY <1>5 DEF Insert, LoopHead, Poll, Terminated, UpdateClustering
<1>6. CASE InsertMore \/ Pause \/ Paused \/ Run \/ Resumed
  BY <1>6 DEF InsertMore, Pause, Paused, Run, Resumed
<1>7. CASE Algorithm
  BY <1>7 DEF Algorithm, Start, Seed, Check, Draw, Adapt, Batch, EndBatch, Grow, Leave
<1>8. CASE UNCHANGED vars
  BY <1>8 DEF vars
<1> QED
  BY <1>1, <1>2, <1>3, <1>4, <1>5, <1>6, <1>7, <1>8 DEF Next, Offline, Online

(* Labels are assigned once the algorithm is over, and none is lost.        *)
LEMMA LabelsStep ==
  TrainingInv /\ [Next]_vars => LabelsAgree'
<1> SUFFICES ASSUME TrainingInv, [Next]_vars PROVE LabelsAgree'
  OBVIOUS
<1>0. /\ examples \in Nat
      /\ fresh \subseteq 0 .. examples - 1
      /\ rpc \in {"clustering", "done"} => apc = "over"
      /\ rpc \in {"clustering", "done"} => examples > 0
      /\ mode \in {"offline", "online"}
  <2>1. Typed /\ ThreadAgrees /\ OfflineAgrees /\ OnlineAgrees
    BY DEF TrainingInv
  <2>2. mode \in {"offline", "online"}
    BY <2>1, TrainingAssumption DEF Typed
  <2>3. rpc \in {"clustering", "done"} => mode = "offline"
    BY <2>1, <2>2 DEF OnlineAgrees, OnlinePCs
  <2> QED
    BY <2>1, <2>2, <2>3 DEF Typed, ThreadAgrees, OfflineAgrees
<1>i. LabelsAgree
  BY DEF TrainingInv
<1> USE <1>0, <1>i DEF LabelsAgree, Goto, AlgGoto, KeepServer, datasetVars, labelVars
<1>1. CASE UpdateClustering
  <2>1. CASE Cardinality(fresh) = examples
    <3>1. fresh = 0 .. examples - 1
      <4>1. IsFiniteSet(0 .. examples - 1) /\ Cardinality(0 .. examples - 1) = examples
        BY FS_Interval
      <4> QED
        BY <2>1, <4>1, FS_Subset
    <3>2. fresh # {}
      BY <1>1, <3>1 DEF UpdateClustering
    <3> QED
      BY <1>1, <2>1, <3>1, <3>2 DEF UpdateClustering
  <2>2. CASE Cardinality(fresh) # examples
    BY <1>1, <2>2 DEF UpdateClustering
  <2> QED
    BY <2>1, <2>2
<1>2. CASE Insert \/ LoopHead \/ Poll \/ ReadStatistics \/ Compare \/ Remember
           \/ Terminate \/ Terminated
  BY <1>2 DEF Insert, Inserted, InsertExamples, LoopHead, Poll, ReadStatistics, Compare,
              Remember, Terminate, Terminated
<1>3. CASE Pause \/ Paused \/ Run \/ Resumed \/ InsertMore
  BY <1>3 DEF InsertMore, Inserted, InsertExamples, Pause, Paused, Run, Resumed
<1>4. CASE Adapt
  BY <1>4 DEF Adapt, clientVars
<1>5. CASE Grow
  BY <1>5 DEF Grow, clientVars
<1>6. CASE Start \/ Seed \/ Check \/ Draw \/ Batch \/ EndBatch \/ Leave
  BY <1>6 DEF Start, Seed, Check, Draw, Batch, EndBatch, Leave, clientVars
<1>7. CASE UNCHANGED vars
  BY <1>7 DEF vars, clientVars
<1> QED
  BY <1>1, <1>2, <1>3, <1>4, <1>5, <1>6, <1>7 DEF Next, Algorithm, Offline, Online

(* Typed is TypeOK.                                                         *)
LEMMA TypingUnfolds == TypeOK <=> Typed
<1>1. ASSUME examples \in Nat
      PROVE  current_example \in 0 .. Max({examples - 1, 0})
             <=> current_example \in Nat /\ (current_example < examples \/ current_example = 0)
  <2>1. Max({examples - 1, 0}) = IF examples - 1 >= 0 THEN examples - 1 ELSE 0
    BY <1>1, MaxWithZero
  <2> QED
    BY <1>1, <2>1
<1>2. TypeOK => Typed
  BY <1>1, Counters DEF TypeOK, Typed, OfflinePCs, OnlinePCs
<1>3. Typed => TypeOK
  BY <1>1, CountersTyped DEF TypeOK, Typed, OfflinePCs, OnlinePCs
<1> QED
  BY <1>2, <1>3

(* The buffer's ends wrap inside the array; the count exceeds the capacity  *)
(* at no time, as it is lowered before it is raised.                        *)
LEMMA BufferTyped ==
  TrainingInv /\ [Next]_vars =>
      /\ array' \in [0 .. Capacity - 1 -> Errors \cup {0}]
      /\ head' \in 0 .. Capacity - 1 /\ tail' \in 0 .. Capacity - 1
      /\ contents' \in 0 .. Capacity
<1> SUFFICES ASSUME TrainingInv, [Next]_vars
             PROVE  /\ array' \in [0 .. Capacity - 1 -> Errors \cup {0}]
                    /\ head' \in 0 .. Capacity - 1 /\ tail' \in 0 .. Capacity - 1
                    /\ contents' \in 0 .. Capacity
  OBVIOUS
<1>0. /\ Capacity \in Nat /\ Capacity >= 2
      /\ array \in [0 .. Capacity - 1 -> Errors \cup {0}]
      /\ head \in 0 .. Capacity - 1 /\ tail \in 0 .. Capacity - 1
      /\ contents \in 0 .. Capacity
      /\ apc = "pushing" => contents + 1 <= Capacity
  BY TrainingAssumption DEF TrainingInv, Typed, BufferAgrees
<1>1. CASE UNCHANGED bufferVars
  BY <1>0, <1>1 DEF bufferVars
<1>2. CASE EndBatch
  BY <1>0, <1>2 DEF EndBatch, AlgGoto, AdvanceTail, Following
<1>3. CASE Batch
  <2>1. PICK e \in Errors : StoreError(e) \/ UNCHANGED bufferVars
    BY <1>3 DEF Batch
  <2> QED
    BY <1>0, <1>1, <2>1 DEF StoreError, Following, HeadWhenFull
<1> QED
  BY <1>1, <1>2, <1>3, HistoryUntouched

(* Every step keeps the types: drawn examples exist, labels never outnumber *)
(* the examples, patience is not taken below zero.                          *)
LEMMA TypeStep ==
  TrainingInv /\ [Next]_vars => Typed'
<1> SUFFICES ASSUME TrainingInv, [Next]_vars PROVE Typed'
  OBVIOUS
<1> USE DEF AlgGoto, Goto, KeepServer, datasetVars, algorithmVars, bufferVars, labelVars,
            clientVars, Statuses, OfflinePCs, OnlinePCs
<1>t. Typed
  BY DEF TrainingInv
<1>c. /\ \A k \in Batches : k \in Nat /\ k > 0
      /\ MaxIter \in Nat /\ MaxNodes \in Nat
      /\ Errors \subseteq Nat
  BY TrainingAssumption
<1>b. /\ array' \in [0 .. Capacity - 1 -> Errors \cup {0}]
      /\ head' \in 0 .. Capacity - 1 /\ tail' \in 0 .. Capacity - 1
      /\ contents' \in 0 .. Capacity
  BY BufferTyped
<1>i. ASSUME NEW k \in Batches, Inserted(k)
      PROVE  /\ examples' \in Nat /\ capacity' \in Nat /\ storage' \in Nat
             /\ examples' > examples
             /\ apc' \in {apc, "start"} /\ request' \in {request, "RUNNING"}
             /\ labels' \in 0 .. examples' /\ fresh' \subseteq 0 .. examples' - 1
             /\ UNCHANGED <<mode, access, current_example, status, s, nodes, iteration, ex,
                            position, count, bufferVars>>
  <2>1. k \in Nat /\ k > 0 /\ examples \in Nat /\ capacity \in Nat /\ storage \in Nat
    BY <1>t, <1>c DEF Typed
  <2>2. examples' = examples + k /\ capacity' \in Nat /\ storage' \in Nat
    BY <1>i, <2>1 DEF Inserted, InsertExamples
  <2>3. UNCHANGED labelVars
    BY <1>i DEF Inserted
  <2>4. labels' \in 0 .. examples' /\ fresh' \subseteq 0 .. examples' - 1
    BY <1>t, <2>1, <2>2, <2>3 DEF Typed
  <2> QED
    BY <1>i, <2>1, <2>2, <2>4 DEF Inserted, Resume
<1>a1. CASE Start
  BY <1>a1, <1>t, <1>b, <1>c DEF Typed, Start
<1>a2. CASE Seed
  BY <1>a2, <1>t, <1>b, <1>c DEF Typed, Seed
<1>a3. CASE Check
  <2>1. /\ status' \in Statuses /\ apc' \in {"check", "leave", "draw"} /\ s' \in Nat
        /\ UNCHANGED <<request, nodes, iteration, ex, position, count,
                       datasetVars, bufferVars, labelVars, clientVars>>
    <3>1. CASE request = "PAUSED"
      BY <1>a3, <1>t, <3>1 DEF Check, Typed
    <3>2. CASE request = "TERMINATED"
      BY <1>a3, <1>t, <3>2 DEF Check, Typed
    <3>3. CASE request \notin {"PAUSED", "TERMINATED"}
      BY <1>a3, <3>3 DEF Check
    <3> QED
      BY <3>1, <3>2, <3>3
  <2> QED
    BY <2>1, <1>t, <1>b DEF Typed
<1>a4. CASE Draw
  <2>1. examples \in Nat /\ examples >= 2 /\ current_example < examples
        /\ current_example \in Nat
    BY <1>a4, <1>t DEF Draw, TrainingInv, ThreadAgrees, Typed
  <2>2. (current_example + 1) % examples \in 0 .. examples - 1
    BY <2>1, RemainderRange
  <2>3. ex' \in Nat /\ current_example' \in 0 .. examples - 1
    BY <1>a4, <2>1, <2>2 DEF Draw, DrawExample
  <2> QED
    BY <1>a4, <1>t, <1>b, <2>1, <2>3 DEF Draw, Typed
<1>a5. CASE Adapt
  BY <1>a5, <1>t, <1>b, <1>c DEF Typed, Adapt
<1>a6. CASE Batch
  BY <1>a6, <1>t, <1>b, <1>c DEF Typed, Batch, StoreError
<1>a7. CASE EndBatch
  BY <1>a7, <1>t, <1>b, <1>c DEF Typed, EndBatch, AdvanceTail
<1>a8. CASE Grow
  <2>1. nodes \in Nat /\ iteration \in Nat
    BY <1>t DEF Typed
  <2>2. nodes' \in Nat
    BY <1>a8, <2>1 DEF Grow
  <2>3. iteration' \in Nat
    BY <1>a8, <2>1 DEF Grow, NextIteration
  <2> QED
    BY <1>a8, <1>t, <1>b, <1>c, <2>2, <2>3 DEF Typed, Grow
<1>a9. CASE Leave
  BY <1>a9, <1>t, <1>b, <1>c DEF Typed, Leave
<1>o1. CASE Insert
  <2>1. PICK k \in Batches : Inserted(k)
    BY <1>o1 DEF Insert
  <2>2. rpc' = "look" /\ UNCHANGED <<iter, best, error_index, patience, errors, careless>>
    BY <1>o1 DEF Insert
  <2>3. /\ examples' \in Nat /\ capacity' \in Nat /\ storage' \in Nat
        /\ examples' > examples
        /\ apc' \in {apc, "start"} /\ request' \in {request, "RUNNING"}
        /\ labels' \in 0 .. examples' /\ fresh' \subseteq 0 .. examples' - 1
        /\ UNCHANGED <<mode, access, current_example, status, s, nodes, iteration, ex,
                       position, count, bufferVars>>
    BY <1>i, <2>1
  <2>4. current_example' < examples' \/ current_example' = 0
    BY <2>3, <1>t DEF Typed
  <2> QED
    <3>1. /\ mode' \in Modes /\ access' \in Access
          /\ s' \in Nat /\ nodes' \in Nat /\ iteration' \in Nat
          /\ ex' \in Nat /\ position' \in Nat /\ count' \in Nat
          /\ current_example' \in Nat
          /\ status' \in Statuses /\ request' \in Statuses
      BY <2>3, <1>t DEF Typed
    <3>2. apc' \in {"none", "start", "examples", "check", "draw", "adapt", "batch", "pushing",
                    "grow", "leave", "over"}
      BY <2>3, <1>t DEF Typed
    <3>3. /\ iter' \in Nat /\ rpc' \in OfflinePCs \cup OnlinePCs
          /\ best' \in Errors \cup {Worst} /\ error_index' \in -1 .. Capacity
          /\ patience' \in 0 .. InitialPatience
          /\ errors' = <<>> \/ Len(errors') \in Window + 1 .. Capacity
          /\ careless' \in BOOLEAN
      BY <2>2, <1>t DEF Typed
    <3> QED
      BY <2>3, <2>4, <3>1, <3>2, <3>3, <1>b DEF Typed
<1>o2. CASE LoopHead
  BY <1>o2, <1>t, <1>b, <1>c DEF Typed, LoopHead
<1>o3. CASE Poll
  BY <1>o3, <1>t, <1>b, <1>c DEF Typed, Poll
<1>o4. CASE ReadStatistics
  <2>1. contents > Window => Len(Contents) \in Window + 1 .. Capacity
    <3>1. Contents = recent /\ Len(recent) = contents /\ contents \in 0 .. Capacity
      BY <1>o4, HistoryShown DEF ReadStatistics, TrainingInv, BufferAgrees, StatisticsFree, Typed
    <3>2. Window \in Nat /\ Capacity \in Nat
      BY TrainingAssumption
    <3> QED
      BY <3>1, <3>2
  <2> QED
    BY <1>o4, <1>t, <1>b, <2>1 DEF ReadStatistics, Typed
<1>o5. CASE Compare
  <2>1. patience \in 1 .. InitialPatience
    BY <1>o5, <1>t DEF Compare, TrainingInv, SessionAgrees, Typed, InitialPatience
  <2>2. patience' \in 0 .. InitialPatience /\ rpc' \in {"ended", "remember"}
    BY <1>o5, <2>1 DEF Compare, InitialPatience
  <2> QED
    BY <1>o5, <1>t, <1>b, <2>2 DEF Compare, Typed
<1>o6. CASE Remember
  <2>1. BestPreviously \in Errors
    BY <1>o6, WindowInside DEF Remember, TrainingInv, SessionAgrees
  <2>2. {BestPreviously, best} \subseteq Nat
    BY <2>1, <1>t, <1>c DEF Typed, Worst
  <2>3. Min({BestPreviously, best}) \in {BestPreviously, best}
    BY <2>2, MinOfNaturals
  <2>4. best' \in Errors \cup {Worst} /\ error_index' \in -1 .. Capacity
    BY <1>o6, <1>t, <2>1, <2>3 DEF Remember, Typed
  <2> QED
    BY <1>o6, <1>t, <1>b, <2>4 DEF Remember, Typed
<1>o7. CASE Terminate
  BY <1>o7, <1>t, <1>b, <1>c DEF Typed, Terminate
<1>o8. CASE Terminated
  BY <1>o8, <1>t, <1>b, <1>c DEF Typed, Terminated, TerminateReturns
<1>o9. CASE UpdateClustering
  <2>1. examples \in Nat /\ fresh \subseteq 0 .. examples - 1
    BY <1>t DEF Typed
  <2>2. fresh' \subseteq 0 .. examples - 1
    <3>1. CASE Cardinality(fresh) = examples
      BY <1>o9, <2>1, <3>1 DEF UpdateClustering
    <3>2. CASE Cardinality(fresh) # examples
      <4>1. fresh # 0 .. examples - 1
        BY <2>1, <3>2, FS_Interval
      <4>2. /\ (0 .. examples - 1) \ fresh \in SUBSET Nat
            /\ (0 .. examples - 1) \ fresh # {}
        <5>1. PICK n \in 0 .. examples - 1 : n \notin fresh
          BY <2>1, <4>1
        <5> QED
          BY <2>1, <5>1
      <4>3. Min((0 .. examples - 1) \ fresh) \in 0 .. examples - 1
        BY <4>2, MinOfNaturals
      <4> QED
        BY <1>o9, <2>1, <3>2, <4>3 DEF UpdateClustering
    <3> QED
      BY <3>1, <3>2
  <2>3. labels' \in 0 .. examples /\ rpc' \in {"clustering", "done"}
    BY <1>o9, <1>t DEF UpdateClustering, Typed
  <2> QED
    BY <1>o9, <1>t, <1>b, <2>2, <2>3 DEF UpdateClustering, Typed
<1>p1. CASE InsertMore
  <2>1. PICK k \in Batches : Inserted(k)
    BY <1>p1 DEF InsertMore
  <2>2. /\ rpc' = "resuming" /\ UNCHANGED <<iter, best, error_index, patience, errors>>
        /\ careless' \in BOOLEAN
    BY <1>p1 DEF InsertMore
  <2>3. /\ examples' \in Nat /\ capacity' \in Nat /\ storage' \in Nat
        /\ examples' > examples
        /\ apc' \in {apc, "start"} /\ request' \in {request, "RUNNING"}
        /\ labels' \in 0 .. examples' /\ fresh' \subseteq 0 .. examples' - 1
        /\ UNCHANGED <<mode, access, current_example, status, s, nodes, iteration, ex,
                       position, count, bufferVars>>
    BY <1>i, <2>1
  <2>4. current_example' < examples' \/ current_example' = 0
    BY <2>3, <1>t DEF Typed
  <2> QED
    <3>1. /\ mode' \in Modes /\ access' \in Access
          /\ s' \in Nat /\ nodes' \in Nat /\ iteration' \in Nat
          /\ ex' \in Nat /\ position' \in Nat /\ count' \in Nat
          /\ current_example' \in Nat
          /\ status' \in Statuses /\ request' \in Statuses
      BY <2>3, <1>t DEF Typed
    <3>2. apc' \in {"none", "start", "examples", "check", "draw", "adapt", "batch", "pushing",
                    "grow", "leave", "over"}
      BY <2>3, <1>t DEF Typed
    <3>3. /\ iter' \in Nat /\ rpc' \in OfflinePCs \cup OnlinePCs
          /\ best' \in Errors \cup {Worst} /\ error_index' \in -1 .. Capacity
          /\ patience' \in 0 .. InitialPatience
          /\ errors' = <<>> \/ Len(errors') \in Window + 1 .. Capacity
          /\ careless' \in BOOLEAN
      BY <2>2, <1>t DEF Typed
    <3> QED
      BY <2>3, <2>4, <3>1, <3>2, <3>3, <1>b DEF Typed
<1>p2. CASE Pause
  BY <1>p2, <1>t, <1>b, <1>c DEF Typed, Pause
<1>p3. CASE Paused
  BY <1>p3, <1>t, <1>b, <1>c DEF Typed, Paused, PauseReturns
<1>p4. CASE Run
  BY <1>p4, <1>t, <1>b, <1>c DEF Typed, Run, Resume
<1>p5. CASE Resumed
  BY <1>p5, <1>t, <1>b, <1>c DEF Typed, Resumed, RunReturns
<1>u. CASE UNCHANGED vars
  BY <1>u, <1>t DEF vars, Typed
<1> QED
  BY <1>a1, <1>a2, <1>a3, <1>a4, <1>a5, <1>a6, <1>a7, <1>a8, <1>a9,
     <1>o1, <1>o2, <1>o3, <1>o4, <1>o5, <1>o6, <1>o7, <1>o8, <1>o9,
     <1>p1, <1>p2, <1>p3, <1>p4, <1>p5, <1>u
  DEF Next, Algorithm, Offline, Online

-----------------------------------------------------------------------------
(* The inductive invariant of the session and the algorithm thread: what    *)
(* each knows of the other, the order of the history, the labels.           *)
THEOREM TrainingInvariant == Spec => []TrainingInv
<1>1. Init => TrainingInv
  BY TrainingInit
<1>2. TrainingInv /\ [Next]_vars => TrainingInv'
  BY HandshakeStep, BufferStep, SessionStep, LabelsStep, TypeStep DEF TrainingInv
<1> QED
  BY <1>1, <1>2, PTL DEF Spec

(* The history of mean errors is the last ones pushed, oldest first, for    *)
(* every capacity and however often the buffer has wrapped around.          *)
THEOREM TrainingHistoryExact == Spec => []HistoryExact
<1>1. TrainingInv => HistoryExact
  BY TypingUnfolds, HistoryShown DEF TrainingInv, HistoryExact
<1> QED
  BY <1>1, TrainingInvariant, PTL

(* The pointer to the example that adapt uses without a lock is good as     *)
(* long as the session inserts behind a pause that waited, for every batch  *)
(* size: two examples, for which pause does not wait, never reach insertion.*)
THEOREM TrainingExampleInPlace == Spec => []ExampleInPlace
<1>1. TrainingInv => ExampleInPlace
  BY DEF TrainingInv
<1> QED
  BY <1>1, TrainingInvariant, PTL

(* When offline training has returned the thread is over and every example  *)
(* carries the label of the final graph.                                    *)
THEOREM TrainingClusteringFinal == Spec => []ClusteringFinal
<1>1. TrainingInv => ClusteringFinal
  <2> SUFFICES ASSUME TrainingInv, rpc = "done"
               PROVE  apc = "over" /\ fresh = 0 .. examples - 1 /\ labels = examples
    BY DEF ClusteringFinal
  <2>1. mode = "offline"
    BY TrainingAssumption DEF TrainingInv, Typed, OnlineAgrees, OnlinePCs
  <2> QED
    BY <2>1 DEF TrainingInv, OfflineAgrees, LabelsAgree
<1> QED
  BY <1>1, TrainingInvariant, PTL
===============================================================================
