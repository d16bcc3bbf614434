------------------------ MODULE ExecutionQueueProofs ------------------------
(***************************************************************************)
(* Proofs about ExecutionQueue for any numbers of workers, request         *)
(* threads, owners, jobs, attempts and crashes and any policy settings.    *)
(* IInv of ExecutionQueue is inductive; the safety properties are among    *)
(* its conjuncts, and the refinement of JobLease follows from it.          *)
(***************************************************************************)
EXTENDS ExecutionQueue, TLAPS

USE QueueAssumption, NoRowAssumption
USE DEF Jobs, NoJob, Executes, ExecutingPcs, IsCancelled, Absent, QUEUED, RUNNING,
        VALIDATING, COMPLETED, FAILED, CANCEL_REQUESTED, CANCELED, NoTarget

LEMMA LimitPositive == AttemptLimit \in Nat \ {0}
BY DEF AttemptLimit

LEMMA StatusesContain ==
    /\ QUEUED \in Statuses /\ RUNNING \in Statuses /\ VALIDATING \in Statuses
    /\ COMPLETED \in Statuses /\ FAILED \in Statuses /\ Absent \in Statuses
    /\ CANCEL_REQUESTED \in Statuses /\ CANCELED \in Statuses
    /\ \A s \in Interruptible : s \in Statuses /\ s # Absent
BY DEF Statuses, Active, Terminal, Interruptible, AWAITING_APPROVAL, REPAIRING

(* A worker past its SELECT has chosen an existing job. *)
LEMMA WorkerHasJob ==
  ASSUME IInv, NEW w \in Workers, wpc[w] \in ExecutingPcs \cup {"claim"}
  PROVE  /\ wjob[w] \in Jobs
         /\ wpc[w] \in ExecutingPcs => wjob[w] <= created /\ rows[wjob[w]] \in Requests
<1>1. wjob[w] \in Jobs
  BY DEF IInv, TypeOK, WorkerTypeOK, ExecutedIsTaken
<1>2. wpc[w] \in ExecutingPcs => status[wjob[w]] # Absent
  BY DEF IInv, ExecutedIsTaken
<1>3. created \in Int
  BY DEF IInv, TypeOK, TableTypeOK
<1> QED
  BY <1>1, <1>2, <1>3 DEF IInv, RowsInOrder

-----------------------------------------------------------------------------
(* Steps of a worker that change only its own state. *)

(* A worker that goes on with its job, knowing what Justified asks.        *)
LEMMA MoveKeeps ==
  ASSUME IInv, NEW w \in Workers, NEW pc \in ExecutingPcs, NEW t \in Statuses \cup {NoTarget},
         wpc[w] \in ExecutingPcs,
         wpc' = [wpc EXCEPT ![w] = pc], wtarget' = [wtarget EXCEPT ![w] = t],
         UNCHANGED <<table, wjob, wblocked, client, crashes, history>>,
         Justified(pc, t, wjob[w])
  PROVE  IInv'
<1> USE DEF table, client, history
<1>1. TypeOK'
  BY DEF IInv, TypeOK, TableTypeOK, WorkerTypeOK, ClientTypeOK, HistoryTypeOK, WorkerPcs
<1>2. RowsInOrder' /\ CancelHasRow' /\ AttemptsBounded' /\ ResultEndsWork' /\ HonestOutcome'
  BY DEF IInv, RowsInOrder, CancelHasRow, AttemptsBounded, ResultEndsWork, HonestOutcome
<1>3. \A v \in Workers : wpc'[v] = IF v = w THEN pc ELSE wpc[v]
  BY DEF IInv, TypeOK, WorkerTypeOK
<1>4. \A v \in Workers : wtarget'[v] = IF v = w THEN t ELSE wtarget[v]
  BY DEF IInv, TypeOK, WorkerTypeOK
<1>5. SingleExecution'
  BY <1>3 DEF IInv, SingleExecution
<1>6. ExecutedIsTaken'
  BY <1>3 DEF IInv, ExecutedIsTaken
<1>7. WorkersJustified'
  BY <1>3, <1>4 DEF IInv, WorkersJustified, Justified
<1> QED
  BY <1>1, <1>2, <1>5, <1>6, <1>7 DEF IInv

(* A worker that gives its job up: run_once returns, or the process dies.  *)
LEMMA ReleaseKeeps ==
  ASSUME IInv, NEW w \in Workers, Release(w), UNCHANGED <<table, client>>,
         UNCHANGED <<produced, stopping, asked>>, lost' \subseteq Jobs,
         crashes' \in 0 .. MaxCrashes
  PROVE  IInv'
<1> USE DEF table, client
<1>1. TypeOK'
  BY DEF IInv, TypeOK, TableTypeOK, WorkerTypeOK, ClientTypeOK, HistoryTypeOK, WorkerPcs,
         Release, NothingBlocked
<1>2. RowsInOrder' /\ CancelHasRow' /\ AttemptsBounded' /\ ResultEndsWork' /\ HonestOutcome'
  BY DEF IInv, RowsInOrder, CancelHasRow, AttemptsBounded, ResultEndsWork, HonestOutcome
<1>3. \A v \in Workers : /\ wpc'[v] = IF v = w THEN "idle" ELSE wpc[v]
                         /\ wjob'[v] = IF v = w THEN NoJob ELSE wjob[v]
                         /\ wtarget'[v] = IF v = w THEN NoTarget ELSE wtarget[v]
  BY DEF IInv, TypeOK, WorkerTypeOK, Release
<1>4. SingleExecution'
  BY <1>3 DEF IInv, SingleExecution
<1>5. ExecutedIsTaken'
  BY <1>3 DEF IInv, ExecutedIsTaken
<1>6. WorkersJustified'
  BY <1>3 DEF IInv, WorkersJustified, Justified
<1> QED
  BY <1>1, <1>2, <1>4, <1>5, <1>6 DEF IInv

LEMMA CountInFlightKeeps ==
  ASSUME IInv, NEW w \in Workers, CountInFlight(w)
  PROVE  IInv'
<1> USE DEF table, client, history
<1>1. wblocked' \in [Workers -> [classes : SUBSET Classes, owners : SUBSET Owners]]
  BY DEF IInv, TypeOK, WorkerTypeOK, CountInFlight, NothingBlocked, blocked_classes, blocked_owners
<1>2. TypeOK'
  BY <1>1 DEF IInv, TypeOK, TableTypeOK, WorkerTypeOK, ClientTypeOK, HistoryTypeOK, WorkerPcs,
     CountInFlight
<1>3. RowsInOrder' /\ CancelHasRow' /\ AttemptsBounded' /\ ResultEndsWork' /\ HonestOutcome'
  BY DEF IInv, RowsInOrder, CancelHasRow, AttemptsBounded, ResultEndsWork, HonestOutcome,
     CountInFlight
<1>4. \A v \in Workers : wpc'[v] = IF v = w THEN "select" ELSE wpc[v]
  BY DEF IInv, TypeOK, WorkerTypeOK, CountInFlight
<1>5. SingleExecution' /\ ExecutedIsTaken' /\ WorkersJustified'
  BY <1>4 DEF IInv, SingleExecution, ExecutedIsTaken, WorkersJustified, Justified, CountInFlight
<1> QED
  BY <1>2, <1>3, <1>5 DEF IInv

LEMMA SelectNextKeeps ==
  ASSUME IInv, NEW w \in Workers, SelectNext(w)
  PROVE  IInv'
<1>1. CASE Release(w)
  BY <1>1, ReleaseKeeps DEF SelectNext, history, IInv, TypeOK, HistoryTypeOK
<1>2. ASSUME NEW j \in Eligible(w),
             wpc' = [wpc EXCEPT ![w] = "claim"], wjob' = [wjob EXCEPT ![w] = j],
             wblocked' = [wblocked EXCEPT ![w] = NothingBlocked], UNCHANGED wtarget
      PROVE  IInv'
  <2> USE <1>2 DEF table, client, history
  <2>0. j \in Jobs /\ UNCHANGED <<table, client, crashes, history>>
    BY DEF Eligible, SelectNext
  <2>1. TypeOK'
    BY <2>0 DEF IInv, TypeOK, TableTypeOK, WorkerTypeOK, ClientTypeOK, HistoryTypeOK, WorkerPcs,
       NothingBlocked
  <2>2. RowsInOrder' /\ CancelHasRow' /\ AttemptsBounded' /\ ResultEndsWork' /\ HonestOutcome'
    BY <2>0 DEF IInv, RowsInOrder, CancelHasRow, AttemptsBounded, ResultEndsWork, HonestOutcome
  <2>3. \A v \in Workers : /\ wpc'[v] = IF v = w THEN "claim" ELSE wpc[v]
                           /\ wjob'[v] = IF v = w THEN j ELSE wjob[v]
    BY DEF IInv, TypeOK, WorkerTypeOK
  <2>4. SingleExecution' /\ ExecutedIsTaken'
    BY <2>0, <2>3 DEF IInv, SingleExecution, ExecutedIsTaken
  <2>5. WorkersJustified'
    BY <2>0, <2>3 DEF IInv, WorkersJustified, Justified
  <2> QED
    BY <2>1, <2>2, <2>4, <2>5 DEF IInv
<1> QED
  BY <1>1, <1>2 DEF SelectNext

(* The guarded UPDATE: the row was queued, so no worker executes it.       *)
LEMMA ClaimUpdateKeeps ==
  ASSUME IInv, NEW w \in Workers, ClaimUpdate(w)
  PROVE  IInv'
<1> DEFINE j == wjob[w]
<1>0. j \in Jobs
  BY WorkerHasJob DEF ClaimUpdate
<1>1. CASE status[j] # QUEUED
  BY <1>1, ReleaseKeeps DEF ClaimUpdate, table, history, IInv, TypeOK, HistoryTypeOK
<1>2. CASE status[j] = QUEUED
  <2> USE DEF table, client, history
  <2>1. /\ status' = [status EXCEPT ![j] = RUNNING]
        /\ attempts' = [attempts EXCEPT ![j] = @ + 1]
        /\ wpc' = [wpc EXCEPT ![w] = "claimed"]
        /\ UNCHANGED <<wjob, wtarget, wblocked, rows, created, client, crashes, history>>
    BY <1>2 DEF ClaimUpdate, Goto
  <2> HIDE DEF j
  <2>2. \A i \in Jobs : /\ status'[i] = IF i = j THEN RUNNING ELSE status[i]
                        /\ attempts'[i] = IF i = j THEN attempts[j] + 1 ELSE attempts[i]
    BY <1>0, <2>1 DEF IInv, TypeOK, TableTypeOK
  <2>3. \A v \in Workers : wpc'[v] = IF v = w THEN "claimed" ELSE wpc[v]
    BY <2>1 DEF IInv, TypeOK, WorkerTypeOK
  <2>4. \A v \in Workers : wpc[v] \in ExecutingPcs => wjob[v] # j
    BY <1>2 DEF IInv, ExecutedIsTaken
  <2>5. attempts[j] \in Nat /\ attempts[j] < AttemptLimit /\ produced[j] = 0 /\ j <= created
    BY <1>0, <1>2 DEF IInv, TypeOK, TableTypeOK, HistoryTypeOK, AttemptsBounded, ResultEndsWork,
       RowsInOrder
  <2>6. TypeOK'
    <3>1. TableTypeOK'
      <4>1. status' \in [Jobs -> Statuses]
        BY <2>1, StatusesContain DEF IInv, TypeOK, TableTypeOK
      <4>2. attempts' \in [Jobs -> Nat]
        <5>1. attempts' = [attempts EXCEPT ![j] = attempts[j] + 1]
          BY <2>1
        <5>2. attempts[j] + 1 \in Nat /\ attempts \in [Jobs -> Nat]
          BY <2>5 DEF IInv, TypeOK, TableTypeOK
        <5> QED
          BY <5>1, <5>2
      <4> QED
        BY <2>1, <4>1, <4>2 DEF IInv, TypeOK, TableTypeOK
    <3>2. WorkerTypeOK' /\ ClientTypeOK' /\ HistoryTypeOK'
      BY <2>1 DEF IInv, TypeOK, WorkerTypeOK, ClientTypeOK, HistoryTypeOK, WorkerPcs
    <3> QED
      BY <3>1, <3>2 DEF TypeOK
  <2>7. RowsInOrder'
    BY <1>0, <2>1, <2>2, <2>5 DEF IInv, RowsInOrder, TypeOK, TableTypeOK
  <2>8. CancelHasRow' /\ ResultEndsWork' /\ HonestOutcome'
    BY <2>1, <2>2, <2>5 DEF IInv, CancelHasRow, ResultEndsWork, HonestOutcome
  <2>9. AttemptsBounded'
    BY <2>2, <2>5, LimitPositive DEF IInv, AttemptsBounded
  <2>10. SingleExecution' /\ ExecutedIsTaken'
    <3>1. \A v \in Workers : wpc[v] \in ExecutingPcs => wjob[v] \in Jobs
      BY WorkerHasJob
    <3>2. SingleExecution'
      BY <2>1, <2>3, <2>4 DEF IInv, SingleExecution, j
    <3>3. ExecutedIsTaken'
      BY <1>0, <2>1, <2>2, <2>3, <3>1 DEF IInv, ExecutedIsTaken, ClaimUpdate, j
    <3> QED
      BY <3>2, <3>3
  <2>11. WorkersJustified'
    <3> SUFFICES ASSUME NEW v \in Workers, wpc'[v] \in ExecutingPcs
                 PROVE  Justified(wpc[v], wtarget[v], wjob[v])'
      BY DEF WorkersJustified
    <3>1. CASE v = w
      BY <2>1, <2>3, <2>5, <3>1 DEF Justified, j
    <3>2. CASE v # w
      <4>1. Justified(wpc[v], wtarget[v], wjob[v]) /\ wjob[v] # j /\ wjob[v] \in Jobs
        BY <2>3, <2>4, <3>2, WorkerHasJob DEF IInv, WorkersJustified
      <4> QED
        BY <2>1, <2>2, <2>3, <3>2, <4>1 DEF Justified
    <3> QED
      BY <3>1, <3>2
  <2> QED
    BY <2>6, <2>7, <2>8, <2>9, <2>10, <2>11 DEF IInv
<1> QED
  BY <1>1, <1>2

(* The first two disjuncts of a checkpoint begin a transition, the third   *)
(* goes on; each knows from the status it read why its target is honest.   *)
LEMMA Checkpoint1Keeps ==
  ASSUME IInv, NEW w \in Workers, Checkpoint1(w)
  PROVE  IInv'
<1> DEFINE j == wjob[w]
<1>0. /\ j \in Jobs /\ produced[j] = 0 /\ wtarget[w] \in Statuses \cup {NoTarget}
      /\ IsCancelled(j) => j \in asked
  BY WorkerHasJob DEF Checkpoint1, IInv, TypeOK, WorkerTypeOK, HonestOutcome, WorkersJustified,
     Justified
<1>1. CASE BeginTransition(w, CANCELED) /\ IsCancelled(j)
  <2>1. Justified("read", CANCELED, j)
    BY <1>0, <1>1 DEF Justified
  <2> QED
    BY <1>1, <2>1, MoveKeeps, StatusesContain DEF Checkpoint1, BeginTransition
<1>2. CASE BeginTransition(w, FAILED) /\ rows[j].kind \notin HandledKinds
  <2>1. Justified("read", FAILED, j)
    BY <1>0, <1>2 DEF Justified
  <2> QED
    BY <1>2, <2>1, MoveKeeps, StatusesContain DEF Checkpoint1, BeginTransition
<1>3. CASE Goto(w, "handler") /\ rows[j].kind \in HandledKinds
  <2>1. Justified("handler", wtarget[w], j)
    BY <1>0, <1>3 DEF Justified
  <2>2. wtarget' = [wtarget EXCEPT ![w] = wtarget[w]]
    BY <1>3 DEF Goto, IInv, TypeOK, WorkerTypeOK
  <2> QED
    BY <1>0, <1>3, <2>1, <2>2, MoveKeeps DEF Checkpoint1, Goto
<1> QED
  BY <1>1, <1>2, <1>3 DEF Checkpoint1

LEMMA HandlerCheckpointKeeps ==
  ASSUME IInv, NEW w \in Workers, HandlerCheckpoint(w)
  PROVE  IInv'
<1> DEFINE j == wjob[w]
<1> DEFINE t == IF IsCancelled(j) THEN CANCELED ELSE VALIDATING
<1>1. j \in Jobs /\ produced[j] = 0 /\ (IsCancelled(j) => j \in asked)
  BY WorkerHasJob DEF HandlerCheckpoint, IInv, HonestOutcome, WorkersJustified, Justified
<1>2. Justified("read", t, j) /\ t \in Statuses
  BY <1>1, StatusesContain DEF Justified
<1> QED
  BY <1>2, MoveKeeps DEF HandlerCheckpoint, BeginTransition

LEMMA HandlerRaisesKeeps ==
  ASSUME IInv, NEW w \in Workers, HandlerRaises(w)
  PROVE  IInv'
<1>1. Justified("raised", wtarget[w], wjob[w])
  BY DEF HandlerRaises, IInv, WorkersJustified, Justified
<1>2. wtarget' = [wtarget EXCEPT ![w] = wtarget[w]] /\ wtarget[w] \in Statuses \cup {NoTarget}
  BY DEF HandlerRaises, Goto, IInv, TypeOK, WorkerTypeOK
<1> QED
  BY <1>1, <1>2, MoveKeeps DEF HandlerRaises, Goto

LEMMA RequeueOrFailKeeps ==
  ASSUME IInv, NEW w \in Workers, RequeueOrFail(w)
  PROVE  IInv'
<1> DEFINE j == wjob[w]
<1>1. /\ j \in Jobs /\ produced[j] = 0
      /\ attempts[j] \in Nat /\ attempts[j] <= AttemptLimit
  BY WorkerHasJob DEF RequeueOrFail, IInv, TypeOK, TableTypeOK, AttemptsBounded,
     WorkersJustified, Justified
<1>2. CASE attempts[j] < AttemptLimit /\ ~IsCancelled(j)
  <2>1. Justified("read", QUEUED, j)
    BY <1>1, <1>2 DEF Justified
  <2> QED
    BY <1>2, <2>1, MoveKeeps, StatusesContain DEF RequeueOrFail, BeginTransition
<1>3. CASE ~(attempts[j] < AttemptLimit /\ ~IsCancelled(j))
  <2>1. attempts[j] = AttemptLimit \/ IsCancelled(j)
    BY <1>1, <1>3, LimitPositive
  <2>2. Justified("failing", wtarget[w], j)
    BY <1>1, <2>1 DEF Justified
  <2>3. wtarget' = [wtarget EXCEPT ![w] = wtarget[w]] /\ wtarget[w] \in Statuses \cup {NoTarget}
    BY <1>3 DEF RequeueOrFail, Goto, IInv, TypeOK, WorkerTypeOK
  <2> QED
    BY <1>3, <2>2, <2>3, MoveKeeps DEF RequeueOrFail, Goto
<1> QED
  BY <1>2, <1>3

LEMMA CancelOrFailKeeps ==
  ASSUME IInv, NEW w \in Workers, CancelOrFail(w)
  PROVE  IInv'
<1> DEFINE j == wjob[w]
<1> DEFINE t == IF IsCancelled(j) THEN CANCELED ELSE FAILED
<1>1. /\ j \in Jobs /\ produced[j] = 0 /\ (IsCancelled(j) => j \in asked)
      /\ attempts[j] = AttemptLimit \/ IsCancelled(j)
  BY WorkerHasJob DEF CancelOrFail, IInv, HonestOutcome, WorkersJustified, Justified
<1>2. Justified("read", t, j) /\ t \in Statuses
  BY <1>1, StatusesContain DEF Justified
<1> QED
  BY <1>2, MoveKeeps DEF CancelOrFail, BeginTransition

LEMMA Checkpoint2Keeps ==
  ASSUME IInv, NEW w \in Workers, Checkpoint2(w)
  PROVE  IInv'
<1> DEFINE j == wjob[w]
<1> DEFINE t == IF IsCancelled(j) THEN CANCELED ELSE COMPLETED
<1>1. j \in Jobs /\ produced[j] = 1 /\ (IsCancelled(j) => j \in asked)
  BY WorkerHasJob DEF Checkpoint2, IInv, HonestOutcome, WorkersJustified, Justified
<1>2. Justified("read", t, j) /\ t \in Statuses
  BY <1>1, StatusesContain DEF Justified
<1> QED
  BY <1>2, MoveKeeps DEF Checkpoint2, BeginTransition

LEMMA TransitionReadKeeps ==
  ASSUME IInv, NEW w \in Workers, TransitionRead(w)
  PROVE  IInv'
<1> DEFINE j == wjob[w]
<1>1. j \in Jobs /\ wtarget[w] \in Statuses /\ Justified("read", wtarget[w], j)
  BY WorkerHasJob, StatusesContain DEF TransitionRead, IInv, WorkersJustified, Justified
<1>2. CASE status[j] \notin Terminal
  <2>1. Justified("write", wtarget[w], j)
    BY <1>1 DEF Justified
  <2>2. wtarget' = [wtarget EXCEPT ![w] = wtarget[w]]
    BY <1>2 DEF TransitionRead, Goto, IInv, TypeOK, WorkerTypeOK
  <2> QED
    BY <1>1, <1>2, <2>1, <2>2, MoveKeeps DEF TransitionRead, Goto
<1>3. CASE status[j] \in Terminal /\ wtarget[w] # VALIDATING
  BY <1>3, ReleaseKeeps DEF TransitionRead, AfterTransition, history, IInv, TypeOK, HistoryTypeOK
<1>4. CASE status[j] \in Terminal /\ wtarget[w] = VALIDATING
  <2>1. Justified("generating", NoTarget, j)
    BY <1>1, <1>4 DEF Justified
  <2> QED
    BY <1>4, <2>1, MoveKeeps DEF TransitionRead, AfterTransition
<1> QED
  BY <1>2, <1>3, <1>4

(* The unguarded write of the status decided on.  Only the executor writes *)
(* "queued", and it lets go of the job in the same step.                   *)
LEMMA TransitionWriteKeeps ==
  ASSUME IInv, NEW w \in Workers, TransitionWrite(w)
  PROVE  IInv'
<1> DEFINE j == wjob[w]
<1> DEFINE t == wtarget[w]
<1> DEFINE stays == t = VALIDATING
<1> USE DEF table, client, history
<1>1. /\ j \in Jobs /\ j <= created /\ t \in Statuses /\ t # Absent /\ t \notin {RUNNING, CANCEL_REQUESTED}
      /\ rows[j] \in Requests /\ Justified("write", t, j)
  BY WorkerHasJob, StatusesContain DEF TransitionWrite, IInv, WorkersJustified, Justified
<1>2. /\ status' = [status EXCEPT ![j] = t]
      /\ UNCHANGED <<attempts, rows, created, client, crashes, history>>
  BY DEF TransitionWrite
<1>3. /\ wpc' = [wpc EXCEPT ![w] = IF stays THEN "generating" ELSE "idle"]
      /\ wjob' = [wjob EXCEPT ![w] = IF stays THEN j ELSE NoJob]
      /\ wtarget' = [wtarget EXCEPT ![w] = NoTarget]
      /\ wblocked' = IF stays THEN wblocked ELSE [wblocked EXCEPT ![w] = NothingBlocked]
  BY DEF TransitionWrite, AfterTransition, Release, IInv, TypeOK, WorkerTypeOK
<1> HIDE DEF j, t
<1>4. \A i \in Jobs : status'[i] = IF i = j THEN t ELSE status[i]
  BY <1>1, <1>2 DEF IInv, TypeOK, TableTypeOK
<1>5. \A v \in Workers : /\ wpc'[v] = IF v = w THEN (IF stays THEN "generating" ELSE "idle") ELSE wpc[v]
                         /\ wjob'[v] = IF v = w THEN (IF stays THEN j ELSE NoJob) ELSE wjob[v]
                         /\ wtarget'[v] = IF v = w THEN NoTarget ELSE wtarget[v]
  BY <1>3 DEF IInv, TypeOK, WorkerTypeOK
<1>6. \A v \in Workers : v # w /\ wpc[v] \in ExecutingPcs => wjob[v] # j /\ wjob[v] \in Jobs
  BY <1>1, WorkerHasJob DEF IInv, SingleExecution, TransitionWrite, j
<1>7. TypeOK'
  <2>1. TableTypeOK'
    BY <1>1, <1>2 DEF IInv, TypeOK, TableTypeOK
  <2>2. ClientTypeOK' /\ HistoryTypeOK'
    BY <1>2 DEF IInv, TypeOK, ClientTypeOK, HistoryTypeOK
  <2>3. WorkerTypeOK'
    BY <1>1, <1>3 DEF IInv, TypeOK, WorkerTypeOK, WorkerPcs, NothingBlocked
  <2> QED
    BY <2>1, <2>2, <2>3 DEF TypeOK
<1>8. RowsInOrder' /\ CancelHasRow'
  BY <1>1, <1>2, <1>4 DEF IInv, RowsInOrder, CancelHasRow, TypeOK, TableTypeOK
<1>9. SingleExecution'
  BY <1>5, <1>6 DEF IInv, SingleExecution
<1>10. ExecutedIsTaken'
  BY <1>1, <1>4, <1>5, <1>6 DEF IInv, ExecutedIsTaken
<1>11. WorkersJustified'
  <2> SUFFICES ASSUME NEW v \in Workers, wpc'[v] \in ExecutingPcs
               PROVE  Justified(wpc[v], wtarget[v], wjob[v])'
    BY DEF WorkersJustified
  <2>1. CASE v = w
    BY <1>1, <1>2, <1>5, <2>1 DEF Justified
  <2>2. CASE v # w
    <3>1. Justified(wpc[v], wtarget[v], wjob[v]) /\ wjob[v] # j /\ wjob[v] \in Jobs
      BY <1>5, <1>6, <2>2 DEF IInv, WorkersJustified
    <3> QED
      BY <1>2, <1>4, <1>5, <2>2, <3>1 DEF Justified
  <2> QED
    BY <2>1, <2>2
<1>12. AttemptsBounded' /\ ResultEndsWork'
  BY <1>1, <1>2, <1>4 DEF IInv, AttemptsBounded, ResultEndsWork, Justified
<1>13. HonestOutcome'
  <2>1. /\ t = COMPLETED => produced[j] = 1
        /\ t = FAILED => /\ produced[j] = 0
                         /\ attempts[j] = AttemptLimit \/ rows[j].kind \notin HandledKinds
        /\ t = CANCELED => j \in asked
    BY <1>1 DEF Justified
  <2> QED
    BY <1>1, <1>2, <1>4, <2>1 DEF IInv, HonestOutcome
<1> QED
  BY <1>7, <1>8, <1>9, <1>10, <1>11, <1>12, <1>13 DEF IInv

LEMMA GenerateSucceedsKeeps ==
  ASSUME IInv, NEW w \in Workers, GenerateSucceeds(w)
  PROVE  IInv'
<1> DEFINE j == wjob[w]
<1> USE DEF table, client
<1>1. /\ j \in Jobs /\ j <= created /\ produced[j] = 0
      /\ status[j] \in {RUNNING, VALIDATING, CANCEL_REQUESTED, CANCELED}
  BY WorkerHasJob DEF GenerateSucceeds, IInv, WorkersJustified, Justified, ExecutedIsTaken
<1>2. /\ wpc' = [wpc EXCEPT ![w] = "finished"] /\ produced' = [produced EXCEPT ![j] = produced[j] + 1]
      /\ UNCHANGED <<table, wjob, wtarget, wblocked, client, crashes, lost, stopping, asked>>
  BY DEF GenerateSucceeds, Goto
<1>3. \A v \in Workers : v # w /\ wpc[v] \in ExecutingPcs => wjob[v] # j /\ wjob[v] \in Jobs
  BY <1>1, WorkerHasJob DEF IInv, SingleExecution, GenerateSucceeds
<1> HIDE DEF j
<1>4. \A i \in Jobs : produced'[i] = IF i = j THEN 1 ELSE produced[i]
  BY <1>1, <1>2 DEF IInv, TypeOK, HistoryTypeOK
<1>5. \A v \in Workers : wpc'[v] = IF v = w THEN "finished" ELSE wpc[v]
  BY <1>2 DEF IInv, TypeOK, WorkerTypeOK
<1>6. TypeOK'
  <2>1. TableTypeOK' /\ ClientTypeOK'
    BY <1>2 DEF IInv, TypeOK, TableTypeOK, ClientTypeOK
  <2>2. WorkerTypeOK'
    BY <1>2 DEF IInv, TypeOK, WorkerTypeOK, WorkerPcs
  <2>3. HistoryTypeOK'
    BY <1>1, <1>2 DEF IInv, TypeOK, HistoryTypeOK
  <2> QED
    BY <2>1, <2>2, <2>3 DEF TypeOK
<1>7. RowsInOrder' /\ CancelHasRow' /\ AttemptsBounded'
  BY <1>1, <1>2, <1>4 DEF IInv, RowsInOrder, CancelHasRow, AttemptsBounded, TypeOK, TableTypeOK
<1>8. SingleExecution' /\ ExecutedIsTaken'
  BY <1>1, <1>2, <1>5 DEF IInv, SingleExecution, ExecutedIsTaken, GenerateSucceeds
<1>9. WorkersJustified'
  <2> SUFFICES ASSUME NEW v \in Workers, wpc'[v] \in ExecutingPcs
               PROVE  Justified(wpc[v], wtarget[v], wjob[v])'
    BY DEF WorkersJustified
  <2>1. CASE v = w
    BY <1>1, <1>2, <1>4, <1>5, <2>1 DEF Justified, j
  <2>2. CASE v # w
    <3>1. Justified(wpc[v], wtarget[v], wjob[v]) /\ wjob[v] # j /\ wjob[v] \in Jobs
      BY <1>3, <1>5, <2>2 DEF IInv, WorkersJustified
    <3> QED
      BY <1>2, <1>4, <1>5, <2>2, <3>1 DEF Justified
  <2> QED
    BY <2>1, <2>2
<1>10. ResultEndsWork' /\ HonestOutcome'
  BY <1>1, <1>2, <1>4 DEF IInv, ResultEndsWork, HonestOutcome
<1> QED
  BY <1>6, <1>7, <1>8, <1>9, <1>10 DEF IInv

LEMMA CrashKeeps ==
  ASSUME IInv, NEW w \in Workers, Crash(w)
  PROVE  IInv'
<1>1. lost' \subseteq Jobs
  BY WorkerHasJob DEF Crash, IInv, TypeOK, HistoryTypeOK
<1>2. crashes' \in 0 .. MaxCrashes
  BY DEF Crash, IInv, TypeOK, HistoryTypeOK
<1> QED
  BY <1>1, <1>2, ReleaseKeeps DEF Crash

-----------------------------------------------------------------------------
(* The request threads. *)

(* A step that changes nothing but the request threads' own state.         *)
LEMMA ClientMoveKeeps ==
  ASSUME IInv, UNCHANGED <<table, worker, crashes, history>>, ClientTypeOK', CancelHasRow'
  PROVE  IInv'
<1> USE DEF table, worker, history
<1>1. TypeOK'
  BY DEF IInv, TypeOK, TableTypeOK, WorkerTypeOK, HistoryTypeOK
<1>2. RowsInOrder' /\ AttemptsBounded' /\ ResultEndsWork' /\ HonestOutcome'
  BY DEF IInv, RowsInOrder, AttemptsBounded, ResultEndsWork, HonestOutcome
<1>3. SingleExecution' /\ ExecutedIsTaken' /\ WorkersJustified'
  BY DEF IInv, SingleExecution, ExecutedIsTaken, WorkersJustified, Justified
<1> QED
  BY <1>1, <1>2, <1>3 DEF IInv

LEMMA EnqueueCheckKeeps ==
  ASSUME IInv, NEW c \in Clients, EnqueueCheck(c)
  PROVE  IInv'
<1>1. PICK r \in Requests : creq' = [creq EXCEPT ![c] = r]
  BY DEF EnqueueCheck, Requests
<1>2. ClientTypeOK'
  BY <1>1 DEF EnqueueCheck, IInv, TypeOK, ClientTypeOK
<1>3. CancelHasRow'
  BY <1>1 DEF EnqueueCheck, IInv, TypeOK, ClientTypeOK, CancelHasRow, table
<1> QED
  BY <1>2, <1>3, ClientMoveKeeps DEF EnqueueCheck

LEMMA RerunReadKeeps ==
  ASSUME IInv, NEW c \in Clients, RerunRead(c)
  PROVE  IInv'
<1>1. PICK j \in Jobs, origin \in {"retry", "replay"} :
        /\ status[j] # Absent
        /\ creq' = [creq EXCEPT ![c] = [owner |-> rows[j].owner, kind |-> rows[j].kind,
                                        origin |-> origin, of |-> j]]
  BY DEF RerunRead
<1>2. rows[j] \in Requests
  BY <1>1 DEF IInv, RowsInOrder, TypeOK, TableTypeOK
<1>3. [owner |-> rows[j].owner, kind |-> rows[j].kind, origin |-> origin, of |-> j] \in Requests
  BY <1>1, <1>2 DEF Requests
<1>4. ClientTypeOK'
  BY <1>1, <1>3 DEF RerunRead, IInv, TypeOK, ClientTypeOK
<1>5. CancelHasRow'
  BY <1>1, <1>3 DEF RerunRead, IInv, TypeOK, ClientTypeOK, CancelHasRow, table
<1> QED
  BY <1>4, <1>5, ClientMoveKeeps DEF RerunRead

LEMMA CloneCheckKeeps ==
  ASSUME IInv, NEW c \in Clients, CloneCheck(c)
  PROVE  IInv'
<1>1. CASE HasActiveTwin(creq[c])
  <2>1. ClientTypeOK' /\ CancelHasRow'
    BY <1>1 DEF CloneCheck, IInv, TypeOK, ClientTypeOK, CancelHasRow, table
  <2> QED
    BY <2>1, ClientMoveKeeps DEF CloneCheck
<1>2. CASE ~HasActiveTwin(creq[c])
  <2>1. ClientTypeOK' /\ CancelHasRow'
    BY <1>2 DEF CloneCheck, IInv, TypeOK, ClientTypeOK, CancelHasRow, table
  <2> QED
    BY <2>1, ClientMoveKeeps DEF CloneCheck
<1> QED
  BY <1>1, <1>2

LEMMA CancelReadKeeps ==
  ASSUME IInv, NEW c \in Clients, CancelRead(c)
  PROVE  IInv'
<1>1. PICK j \in Jobs : /\ status[j] \in {QUEUED} \cup Interruptible
                        /\ cjob' = [cjob EXCEPT ![c] = j]
                        /\ cseen' = [cseen EXCEPT ![c] = status[j]]
  BY DEF CancelRead
<1>2. status[j] \in Statuses /\ j \in 1 .. created
  BY <1>1, StatusesContain DEF IInv, RowsInOrder, TypeOK, TableTypeOK
<1>3. ClientTypeOK'
  BY <1>1, <1>2 DEF CancelRead, IInv, TypeOK, ClientTypeOK
<1>4. CancelHasRow'
  BY <1>1, <1>2 DEF CancelRead, IInv, TypeOK, ClientTypeOK, CancelHasRow, table
<1> QED
  BY <1>3, <1>4, ClientMoveKeeps DEF CancelRead

(* The new row's id is fresh: no row, worker or cancel refers to it yet.   *)
LEMMA InsertKeeps ==
  ASSUME IInv, NEW c \in Clients, Insert(c)
  PROVE  IInv'
<1> DEFINE n == created + 1
<1> USE DEF worker
<1>1. /\ n \in Jobs /\ status[n] = Absent /\ attempts[n] = 0 /\ produced[n] = 0 /\ n \notin asked
      /\ creq[c] \in Requests /\ created \in Nat /\ n > created
  BY DEF Insert, IInv, TypeOK, TableTypeOK, RowsInOrder, CancelHasRow
<1>2. /\ status' = [status EXCEPT ![n] = QUEUED] /\ rows' = [rows EXCEPT ![n] = creq[c]]
      /\ created' = n
      /\ cpc' = [cpc EXCEPT ![c] = "ready"] /\ creq' = [creq EXCEPT ![c] = NoRow]
      /\ UNCHANGED <<attempts, worker, cjob, cseen, crashes, history>>
  BY DEF Insert
<1> HIDE DEF n
<1>3. \A i \in Jobs : /\ status'[i] = IF i = n THEN QUEUED ELSE status[i]
                      /\ rows'[i] = IF i = n THEN creq[c] ELSE rows[i]
  BY <1>1, <1>2 DEF IInv, TypeOK, TableTypeOK
<1>4. \A v \in Workers : wpc[v] \in ExecutingPcs => wjob[v] \in Jobs /\ wjob[v] # n
  BY <1>1, WorkerHasJob
<1> USE DEF history
<1>5. TypeOK'
  <2>1. TableTypeOK'
    BY <1>1, <1>2, StatusesContain DEF IInv, TypeOK, TableTypeOK
  <2>2. WorkerTypeOK' /\ HistoryTypeOK'
    BY <1>2 DEF IInv, TypeOK, WorkerTypeOK, HistoryTypeOK
  <2>3. ClientTypeOK'
    BY <1>2 DEF IInv, TypeOK, ClientTypeOK
  <2> QED
    BY <2>1, <2>2, <2>3 DEF TypeOK
<1>6. RowsInOrder'
  BY <1>1, <1>2, <1>3 DEF IInv, RowsInOrder, n
<1>7. CancelHasRow'
  BY <1>1, <1>2 DEF IInv, CancelHasRow, TypeOK, ClientTypeOK, n
<1>8. SingleExecution'
  BY <1>2 DEF IInv, SingleExecution
<1>9. ExecutedIsTaken'
  BY <1>2, <1>3, <1>4 DEF IInv, ExecutedIsTaken
<1>10. WorkersJustified'
  BY <1>2, <1>3, <1>4 DEF IInv, WorkersJustified, Justified
<1>11. AttemptsBounded'
  BY <1>1, <1>2, <1>3, LimitPositive DEF IInv, AttemptsBounded
<1>12. ResultEndsWork' /\ HonestOutcome'
  BY <1>1, <1>2, <1>3 DEF IInv, ResultEndsWork, HonestOutcome
<1> QED
  BY <1>5, <1>6, <1>7, <1>8, <1>9, <1>10, <1>11, <1>12 DEF IInv

(* The unguarded write of a cancel never puts a row back into the queue.   *)
LEMMA CancelWriteKeeps ==
  ASSUME IInv, NEW c \in Clients, CancelWrite(c)
  PROVE  IInv'
<1> DEFINE j == cjob[c]
<1> DEFINE s == IF cseen[c] = QUEUED THEN CANCELED ELSE CANCEL_REQUESTED
<1> USE DEF worker
<1>1. j \in Jobs /\ j <= created /\ s \in {CANCELED, CANCEL_REQUESTED} /\ s \in Statuses
  BY StatusesContain DEF CancelWrite, IInv, TypeOK, TableTypeOK, CancelHasRow
<1>2. /\ status' = [status EXCEPT ![j] = s] /\ asked' = asked \cup {j}
      /\ stopping' \subseteq stopping \cup {j}
      /\ cpc' = [cpc EXCEPT ![c] = "ready"] /\ cjob' = [cjob EXCEPT ![c] = NoJob]
      /\ cseen' = [cseen EXCEPT ![c] = Absent]
      /\ UNCHANGED <<attempts, rows, created, worker, creq, crashes, produced, lost>>
  BY DEF CancelWrite
<1> HIDE DEF j, s
<1>3. \A i \in Jobs : status'[i] = IF i = j THEN s ELSE status[i]
  BY <1>1, <1>2 DEF IInv, TypeOK, TableTypeOK
<1>4. \A v \in Workers : wpc[v] \in ExecutingPcs => wjob[v] \in Jobs
  BY WorkerHasJob
<1>5. TypeOK'
  <2>1. TableTypeOK'
    BY <1>1, <1>2 DEF IInv, TypeOK, TableTypeOK
  <2>2. WorkerTypeOK' /\ HistoryTypeOK'
    BY <1>1, <1>2 DEF IInv, TypeOK, WorkerTypeOK, HistoryTypeOK
  <2>3. ClientTypeOK'
    BY <1>2, StatusesContain DEF IInv, TypeOK, ClientTypeOK
  <2> QED
    BY <2>1, <2>2, <2>3 DEF TypeOK
<1>6. RowsInOrder'
  BY <1>1, <1>2, <1>3 DEF IInv, RowsInOrder, TypeOK, TableTypeOK
<1>7. CancelHasRow'
  BY <1>2 DEF IInv, CancelHasRow, TypeOK, ClientTypeOK
<1>8. SingleExecution'
  BY <1>2 DEF IInv, SingleExecution
<1>9. ExecutedIsTaken'
  BY <1>1, <1>2, <1>3, <1>4 DEF IInv, ExecutedIsTaken
<1>10. WorkersJustified'
  BY <1>1, <1>2, <1>3, <1>4 DEF IInv, WorkersJustified, Justified
<1>11. AttemptsBounded' /\ ResultEndsWork' /\ HonestOutcome'
  BY <1>1, <1>2, <1>3 DEF IInv, AttemptsBounded, ResultEndsWork, HonestOutcome
<1> QED
  BY <1>5, <1>6, <1>7, <1>8, <1>9, <1>10, <1>11 DEF IInv

-----------------------------------------------------------------------------

LEMMA InitEstablishes == Init => IInv
<1> SUFFICES ASSUME Init PROVE IInv
  OBVIOUS
<1>1. TypeOK
  BY StatusesContain DEF Init, TypeOK, TableTypeOK, WorkerTypeOK, ClientTypeOK, HistoryTypeOK,
     WorkerPcs, NothingBlocked
<1>2. RowsInOrder /\ CancelHasRow /\ SingleExecution /\ ExecutedIsTaken /\ WorkersJustified
  BY DEF Init, RowsInOrder, CancelHasRow, SingleExecution, ExecutedIsTaken, WorkersJustified
<1>3. AttemptsBounded /\ ResultEndsWork /\ HonestOutcome
  BY LimitPositive DEF Init, AttemptsBounded, ResultEndsWork, HonestOutcome
<1> QED
  BY <1>1, <1>2, <1>3 DEF IInv

LEMMA StutterKeeps == ASSUME IInv, UNCHANGED vars PROVE IInv'
<1>1. UNCHANGED <<table, worker, client, crashes, history>>
  BY DEF vars
<1>2. ClientTypeOK' /\ CancelHasRow'
  BY <1>1 DEF IInv, TypeOK, ClientTypeOK, CancelHasRow, client, table
<1> QED
  BY <1>1, <1>2, ClientMoveKeeps

LEMMA NextKeeps == IInv /\ [Next]_vars => IInv'
<1> SUFFICES ASSUME IInv, [Next]_vars PROVE IInv'
  OBVIOUS
<1>1. ASSUME NEW w \in Workers, WorkerStep(w) PROVE IInv'
  BY <1>1, CountInFlightKeeps, SelectNextKeeps, ClaimUpdateKeeps, Checkpoint1Keeps,
     HandlerCheckpointKeeps, GenerateSucceedsKeeps, HandlerRaisesKeeps, RequeueOrFailKeeps,
     CancelOrFailKeeps, Checkpoint2Keeps, TransitionReadKeeps, TransitionWriteKeeps
     DEF WorkerStep
<1>2. ASSUME NEW w \in Workers, Crash(w) PROVE IInv'
  BY <1>2, CrashKeeps
<1>3. ASSUME NEW c \in Clients, ClientStep(c) PROVE IInv'
  BY <1>3, EnqueueCheckKeeps, RerunReadKeeps, CancelReadKeeps, CloneCheckKeeps, InsertKeeps,
     CancelWriteKeeps DEF ClientStep, ClientFinishes
<1>4. CASE UNCHANGED vars
  BY <1>4, StutterKeeps
<1> QED
  BY <1>1, <1>2, <1>3, <1>4 DEF Next

(* The inductive invariant of the queue, its workers and its clients holds *)
(* in every state of every behaviour.                                      *)
THEOREM InvariantHolds == Spec => []IInv
BY InitEstablishes, NextKeeps, PTL DEF Spec

(* Every column and local variable of execution_queue.py keeps its type.   *)
THEOREM TypeCorrect == Spec => []TypeOK
<1>1. IInv => TypeOK
  BY DEF IInv
<1> QED
  BY <1>1, InvariantHolds, PTL

(* claim hands a job to one worker at a time, for any number of workers,   *)
(* under cancels, retries, replays and worker deaths at any point.         *)
THEOREM OneWorkerPerJob == Spec => []SingleExecution
<1>1. IInv => SingleExecution
  BY DEF IInv
<1> QED
  BY <1>1, InvariantHolds, PTL

(* No job is claimed more often than max(1, job_max_attempts) times.       *)
THEOREM RetriesAreBounded == Spec => []AttemptsBounded
<1>1. IInv => AttemptsBounded
  BY DEF IInv
<1> QED
  BY <1>1, InvariantHolds, PTL

(* No job yields two results, whatever happens to its row or its worker.   *)
THEOREM OneResultPerJob == Spec => []ProducedOnce
<1>1. IInv => ProducedOnce
  BY DEF IInv, TypeOK, HistoryTypeOK, ResultEndsWork, ProducedOnce
<1> QED
  BY <1>1, InvariantHolds, PTL

(* The final status of a job is what happened to it. *)
THEOREM OutcomesAreHonest == Spec => []HonestOutcome
<1>1. IInv => HonestOutcome
  BY DEF IInv
<1> QED
  BY <1>1, InvariantHolds, PTL

-----------------------------------------------------------------------------
(* Who takes a slot works.                                                 *)

(* A worker that goes on with its job, or has just won it, executes it;    *)
(* the other jobs in flight have their own executor.                       *)
LEMMA ExecutingKeepsFlight ==
  ASSUME IInv, InFlightIsExecuted, NEW w \in Workers, NEW pc \in ExecutingPcs,
         wpc[w] \in ExecutingPcs \cup {"claim"},
         wpc' = [wpc EXCEPT ![w] = pc], UNCHANGED <<wjob, lost>>,
         \A j \in Jobs \ {wjob[w]} : status'[j] = status[j]
  PROVE  InFlightIsExecuted'
<1>1. \A v \in Workers : wpc'[v] = IF v = w THEN pc ELSE wpc[v]
  BY DEF IInv, TypeOK, WorkerTypeOK
<1>2. ASSUME NEW j \in Jobs, status'[j] \in Interruptible
      PROVE  j \in lost' \/ \E v \in Workers : Executes(v, j)'
  <2>1. CASE j = wjob[w]
    BY <1>1, <2>1
  <2>2. CASE j # wjob[w]
    <3>1. j \in lost \/ \E v \in Workers : Executes(v, j)
      BY <1>2, <2>2 DEF InFlightIsExecuted, InFlight
    <3> QED
      BY <1>1, <2>2, <3>1
  <2> QED
    BY <2>1, <2>2
<1> QED
  BY <1>2 DEF InFlightIsExecuted, InFlight

(* A worker that lets its job go leaves a row that takes no slot, or was   *)
(* killed.                                                                 *)
LEMMA ReleaseKeepsFlight ==
  ASSUME IInv, InFlightIsExecuted, NEW w \in Workers, Release(w), lost \subseteq lost',
         \A j \in Jobs \ {wjob[w]} : status'[j] = status[j],
         wpc[w] \in ExecutingPcs => status'[wjob[w]] \notin Interruptible \/ wjob[w] \in lost',
         wpc[w] \notin ExecutingPcs => status' = status
  PROVE  InFlightIsExecuted'
<1>1. \A v \in Workers : /\ wpc'[v] = IF v = w THEN "idle" ELSE wpc[v]
                         /\ wjob'[v] = IF v = w THEN NoJob ELSE wjob[v]
  BY DEF IInv, TypeOK, WorkerTypeOK, Release
<1>2. ASSUME NEW j \in Jobs, status'[j] \in Interruptible
      PROVE  j \in lost' \/ \E v \in Workers : Executes(v, j)'
  <2>1. CASE j = wjob[w] /\ wpc[w] \in ExecutingPcs
    BY <1>2, <2>1
  <2>2. CASE ~(j = wjob[w] /\ wpc[w] \in ExecutingPcs)
    <3>1. status'[j] = status[j]
      BY <2>2
    <3>2. j \in lost \/ \E v \in Workers : Executes(v, j)
      BY <1>2, <3>1 DEF InFlightIsExecuted, InFlight
    <3> QED
      BY <1>1, <2>2, <3>2
  <2> QED
    BY <2>1, <2>2
<1> QED
  BY <1>2 DEF InFlightIsExecuted, InFlight

LEMMA SelectingKeepsFlight ==
  ASSUME IInv, InFlightIsExecuted, NEW w \in Workers, CountInFlight(w) \/ SelectNext(w)
  PROVE  InFlightIsExecuted'
<1>1. /\ status' = status /\ lost' = lost /\ wpc[w] \notin ExecutingPcs /\ wpc'[w] \notin ExecutingPcs
      /\ \A v \in Workers \ {w} : wpc'[v] = wpc[v] /\ wjob'[v] = wjob[v]
  BY DEF IInv, TypeOK, WorkerTypeOK, CountInFlight, SelectNext, Release, table, history
<1> QED
  BY <1>1 DEF InFlightIsExecuted, InFlight

LEMMA TransitionsKeepFlight ==
  ASSUME IInv, InFlightIsExecuted, NEW w \in Workers, TransitionRead(w) \/ TransitionWrite(w)
  PROVE  InFlightIsExecuted'
<1>1. wpc[w] \in {"read", "write"} /\ wjob[w] \in Jobs /\ lost' = lost
  BY WorkerHasJob DEF TransitionRead, TransitionWrite, history
<1>2. /\ wtarget[w] \in {VALIDATING, QUEUED, COMPLETED, CANCELED, FAILED}
      /\ status \in [Jobs -> Statuses]
  BY <1>1 DEF IInv, WorkersJustified, Justified, TypeOK, TableTypeOK
<1>3. \A j \in Jobs \ {wjob[w]} : status'[j] = status[j]
  BY <1>2 DEF TransitionRead, TransitionWrite, table
<1>4. CASE AfterTransition(w)
  <2>1. CASE wtarget[w] = VALIDATING
    <3>1. wpc' = [wpc EXCEPT ![w] = "generating"] /\ UNCHANGED <<wjob, lost>>
      BY <1>1, <1>4, <2>1 DEF AfterTransition
    <3> QED
      BY <1>1, <1>3, <3>1, ExecutingKeepsFlight
  <2>2. CASE wtarget[w] # VALIDATING
    <3>1. Release(w)
      BY <1>4, <2>2 DEF AfterTransition
    <3>2. CASE TransitionRead(w)
      <4>1. status[wjob[w]] \in Terminal /\ status' = status
        <5>1. CASE status[wjob[w]] \in Terminal
          BY <3>2, <5>1 DEF TransitionRead, table
        <5>2. CASE status[wjob[w]] \notin Terminal
          <6>1. wpc'[w] = "write" /\ wpc'[w] = "idle"
            BY <3>1, <3>2, <5>2 DEF TransitionRead, Goto, Release, IInv, TypeOK, WorkerTypeOK
          <6> QED
            BY <6>1
        <5> QED
          BY <5>1, <5>2
      <4>2. status'[wjob[w]] \notin Interruptible
        BY <4>1 DEF Terminal, Interruptible, AWAITING_APPROVAL, REPAIRING
      <4> QED
        BY <1>1, <1>3, <3>1, <4>2, ReleaseKeepsFlight
    <3>3. CASE TransitionWrite(w)
      <4>1. status'[wjob[w]] = wtarget[w]
        BY <1>1, <1>2, <3>3 DEF TransitionWrite
      <4>2. status'[wjob[w]] \notin Interruptible
        BY <1>2, <2>2, <4>1 DEF Interruptible, AWAITING_APPROVAL, REPAIRING
      <4> QED
        BY <1>1, <1>3, <3>1, <4>2, ReleaseKeepsFlight
    <3> QED
      BY <3>2, <3>3
  <2> QED
    BY <2>1, <2>2
<1>5. CASE ~AfterTransition(w)
  <2>1. wpc' = [wpc EXCEPT ![w] = "write"] /\ UNCHANGED <<wjob, lost>>
    BY <1>1, <1>5 DEF TransitionRead, TransitionWrite, Goto
  <2> QED
    BY <1>1, <1>3, <2>1, ExecutingKeepsFlight
<1> QED
  BY <1>4, <1>5

LEMMA WorkingKeepsFlight ==
  ASSUME IInv, InFlightIsExecuted, NEW w \in Workers, WorkerStep(w)
  PROVE  InFlightIsExecuted'
<1>1. CASE CountInFlight(w) \/ SelectNext(w)
  BY <1>1, SelectingKeepsFlight
<1>2. CASE ClaimUpdate(w)
  <2>1. wpc[w] = "claim" /\ wjob[w] \in Jobs /\ lost' = lost /\ status \in [Jobs -> Statuses]
    BY <1>2, WorkerHasJob DEF ClaimUpdate, history, IInv, TypeOK, TableTypeOK
  <2>2. \A j \in Jobs \ {wjob[w]} : status'[j] = status[j]
    BY <1>2, <2>1 DEF ClaimUpdate
  <2>3. CASE Goto(w, "claimed")
    <3>1. wpc' = [wpc EXCEPT ![w] = "claimed"] /\ UNCHANGED <<wjob, lost>>
      BY <2>1, <2>3 DEF Goto
    <3> QED
      BY <2>1, <2>2, <3>1, ExecutingKeepsFlight
  <2>4. CASE Release(w) /\ status' = status
    BY <2>1, <2>4, ReleaseKeepsFlight
  <2> QED
    BY <1>2, <2>3, <2>4 DEF ClaimUpdate
<1>3. CASE \/ Checkpoint1(w) \/ HandlerCheckpoint(w) \/ GenerateSucceeds(w) \/ HandlerRaises(w)
           \/ RequeueOrFail(w) \/ CancelOrFail(w) \/ Checkpoint2(w)
  <2>1. /\ wpc[w] \in ExecutingPcs /\ status' = status /\ UNCHANGED <<wjob, lost>>
        /\ \E pc \in ExecutingPcs : wpc' = [wpc EXCEPT ![w] = pc]
    BY <1>3 DEF Checkpoint1, HandlerCheckpoint, GenerateSucceeds, HandlerRaises, RequeueOrFail, CancelOrFail,
                Checkpoint2, BeginTransition, Goto, table, history
  <2> QED
    BY <2>1, ExecutingKeepsFlight
<1>4. CASE TransitionRead(w) \/ TransitionWrite(w)
  BY <1>4, TransitionsKeepFlight
<1> QED
  BY <1>1, <1>2, <1>3, <1>4 DEF WorkerStep

LEMMA DyingKeepsFlight ==
  ASSUME IInv, InFlightIsExecuted, NEW w \in Workers, Crash(w)
  PROVE  InFlightIsExecuted'
<1>1. Release(w) /\ lost' = lost \cup {wjob[w]} /\ status' = status
  BY DEF Crash, table
<1> QED
  BY <1>1, ReleaseKeepsFlight

(* A request thread puts no row in flight. *)
LEMMA RequestsKeepFlight ==
  ASSUME IInv, InFlightIsExecuted, NEW c \in Clients, ClientStep(c)
  PROVE  InFlightIsExecuted'
<1>1. UNCHANGED <<wpc, wjob, lost>>
  BY DEF ClientStep, ClientFinishes, EnqueueCheck, RerunRead, CancelRead, CloneCheck, Insert, CancelWrite,
         worker, history
<1>2. ASSUME NEW j \in Jobs
      PROVE  status'[j] = status[j] \/ status'[j] \in {QUEUED, CANCELED, CANCEL_REQUESTED}
  BY DEF ClientStep, ClientFinishes, EnqueueCheck, RerunRead, CancelRead, CloneCheck, Insert, CancelWrite,
         table, IInv, TypeOK, TableTypeOK
<1>3. {QUEUED, CANCELED, CANCEL_REQUESTED} \cap Interruptible = {}
  BY DEF Interruptible, AWAITING_APPROVAL, REPAIRING
<1> QED
  BY <1>1, <1>2, <1>3 DEF InFlightIsExecuted, InFlight

(* A row that counts as in flight, and so takes a slot of its class and    *)
(* its owner, is being executed, unless its worker was killed: for any     *)
(* numbers of workers, requests, cancels and crashes.                      *)
THEOREM SlotsAreWorked == Spec => []InFlightIsExecuted
<1>1. Init => InFlightIsExecuted
  BY DEF Init, InFlightIsExecuted, InFlight, Interruptible, AWAITING_APPROVAL, REPAIRING
<1>2. IInv /\ InFlightIsExecuted /\ [Next]_vars => InFlightIsExecuted'
  <2> SUFFICES ASSUME IInv, InFlightIsExecuted, [Next]_vars
               PROVE  InFlightIsExecuted'
    OBVIOUS
  <2>1. CASE UNCHANGED vars
    BY <2>1 DEF InFlightIsExecuted, InFlight, vars, table, worker, history
  <2> QED
    BY <2>1, WorkingKeepsFlight, DyingKeepsFlight, RequestsKeepFlight DEF Next
<1> QED
  BY <1>1, <1>2, InvariantHolds, PTL DEF Spec

-----------------------------------------------------------------------------
(* Rows that share a dedup key in flight are explained by a race.          *)

(* What a request that nobody has overtaken looked for still holds when it *)
(* inserts, up to rows that were put back in flight meanwhile.             *)
LookedStands(c) ==
    cpc[c] = "insert" /\ c \notin overtaken =>
        \A j \in Jobs : rows[j] = creq[c] /\ status[j] \in Active => j \in revived

KeyInv == OneActivePerKey /\ \A c \in Clients : LookedStands(c)

LEMMA ActiveOrEnded == Statuses = Active \cup Terminal \cup {"absent"} /\ Active \cap Terminal = {}
BY DEF Statuses, Active, Terminal, AWAITING_APPROVAL, REPAIRING

(* A step that puts rows back in flight only as "revived" says, and lets   *)
(* no request begin an INSERT.                                             *)
LEMMA RevivingKeepsKeys ==
  ASSUME KeyInv, UNCHANGED <<rows, overtaken, doubled>>, revived \subseteq revived',
         revived' \subseteq asked',
         \A j \in Jobs : status'[j] \in Active => status[j] \in Active \/ j \in revived',
         \A d \in Clients : cpc'[d] = "insert" => cpc[d] = "insert" /\ creq'[d] = creq[d]
  PROVE  KeyInv'
<1>1. OneActivePerKey'
  BY DEF KeyInv, OneActivePerKey
<1>2. ASSUME NEW d \in Clients PROVE LookedStands(d)'
  BY DEF KeyInv, LookedStands
<1> QED
  BY <1>1, <1>2 DEF KeyInv

(* Writing s over an existing row is told by "revived" when it had ended.  *)
LEMMA RevivesTells ==
  ASSUME IInv, NEW k \in Jobs, NEW s, status[k] # Absent,
         status' = [status EXCEPT ![k] = s], Revives(k, s)
  PROVE  \A j \in Jobs : status'[j] \in Active => status[j] \in Active \/ j \in revived'
<1>1. status \in [Jobs -> Statuses]
  BY DEF IInv, TypeOK, TableTypeOK
<1>2. status[k] \in Active \/ status[k] \in Terminal
  BY <1>1, ActiveOrEnded
<1> QED
  BY <1>1, <1>2 DEF Revives

LEMMA TransitionWriteKeepsKeys ==
  ASSUME IInv, KeyInv, NEW w \in Workers, TransitionWrite(w)
  PROVE  KeyInv'
<1>1. /\ UNCHANGED <<rows, overtaken, doubled, cpc, creq, asked>>
      /\ Revives(wjob[w], wtarget[w]) /\ status' = [status EXCEPT ![wjob[w]] = wtarget[w]]
  BY DEF TransitionWrite, client, history
<1>2. wjob[w] \in Jobs /\ status[wjob[w]] \in {RUNNING, VALIDATING, CANCEL_REQUESTED, CANCELED}
  BY WorkerHasJob DEF IInv, ExecutedIsTaken, TransitionWrite
<1>3. \A j \in Jobs : status'[j] \in Active => status[j] \in Active \/ j \in revived'
  BY <1>1, <1>2, RevivesTells
<1>4. status[wjob[w]] \in Terminal => wjob[w] \in asked
  BY <1>2 DEF IInv, HonestOutcome, Terminal
<1>5. revived \subseteq revived' /\ revived' \subseteq asked'
  BY <1>1, <1>4 DEF Revives, KeyInv, OneActivePerKey
<1> QED
  BY <1>1, <1>3, <1>5, RevivingKeepsKeys

LEMMA CancelWriteKeepsKeys ==
  ASSUME IInv, KeyInv, NEW c \in Clients, CancelWrite(c)
  PROVE  KeyInv'
<1> DEFINE s == IF cseen[c] = QUEUED THEN CANCELED ELSE CANCEL_REQUESTED
<1>1. /\ UNCHANGED <<rows, overtaken, doubled, creq>> /\ asked' = asked \cup {cjob[c]}
      /\ Revives(cjob[c], s) /\ status' = [status EXCEPT ![cjob[c]] = s]
      /\ cpc' = [cpc EXCEPT ![c] = "ready"]
  BY DEF CancelWrite
<1>2. cjob[c] \in Jobs /\ status[cjob[c]] # Absent
  BY DEF CancelWrite, IInv, CancelHasRow, RowsInOrder, TypeOK, TableTypeOK
<1> HIDE DEF s
<1>3. \A j \in Jobs : status'[j] \in Active => status[j] \in Active \/ j \in revived'
  BY <1>1, <1>2, RevivesTells
<1>4. revived \subseteq revived' /\ revived' \subseteq asked'
  BY <1>1 DEF Revives, KeyInv, OneActivePerKey
<1>5. \A d \in Clients : cpc'[d] = "insert" => cpc[d] = "insert" /\ creq'[d] = creq[d]
  BY <1>1 DEF IInv, TypeOK, ClientTypeOK
<1> QED
  BY <1>1, <1>3, <1>4, <1>5, RevivingKeepsKeys

(* Every other step of a worker writes no row, or one that is in flight.   *)
LEMMA WorkersKeepKeys ==
  ASSUME IInv, KeyInv, NEW w \in Workers, WorkerStep(w) \/ Crash(w)
  PROVE  KeyInv'
<1>1. CASE TransitionWrite(w)
  BY <1>1, TransitionWriteKeepsKeys
<1>2. CASE ~TransitionWrite(w)
  <2>1. UNCHANGED <<rows, cpc, creq, asked, overtaken, doubled, revived>>
    BY <1>2 DEF WorkerStep, Crash, CountInFlight, SelectNext, ClaimUpdate, Checkpoint1,
       HandlerCheckpoint, GenerateSucceeds, HandlerRaises, RequeueOrFail, CancelOrFail, Checkpoint2,
       TransitionRead, table, client, history, races
  <2>2. \A j \in Jobs : status'[j] \in Active => status[j] \in Active
    <3>1. CASE ClaimUpdate(w)
      <4>1. QUEUED \in Active /\ status \in [Jobs -> Statuses]
        BY DEF Active, IInv, TypeOK, TableTypeOK
      <4> QED
        BY <3>1, <4>1 DEF ClaimUpdate
    <3>2. CASE ~ClaimUpdate(w)
      BY <1>2, <3>2 DEF WorkerStep, Crash, CountInFlight, SelectNext, Checkpoint1,
         HandlerCheckpoint, GenerateSucceeds, HandlerRaises, RequeueOrFail, CancelOrFail,
         Checkpoint2, TransitionRead, table
    <3> QED
      BY <3>1, <3>2
  <2>3. revived' \subseteq asked'
    BY <2>1 DEF KeyInv, OneActivePerKey
  <2> QED
    BY <2>1, <2>2, <2>3, RevivingKeepsKeys
<1> QED
  BY <1>1, <1>2

(* A request begins to insert when it has found no row in flight.          *)
LEMMA LookingKeepsKeys ==
  ASSUME IInv, KeyInv, NEW c \in Clients,
         EnqueueCheck(c) \/ RerunRead(c) \/ CloneCheck(c) \/ CancelRead(c)
  PROVE  KeyInv'
<1>1. UNCHANGED <<status, rows, asked, overtaken, doubled, revived>>
  BY DEF EnqueueCheck, RerunRead, CloneCheck, CancelRead, table, history, races
<1>2. cpc \in [Clients -> {"ready", "clone", "insert", "cancel"}] /\ creq \in [Clients -> Requests \cup {NoRow}]
  BY DEF IInv, TypeOK, ClientTypeOK
<1>3. OneActivePerKey'
  BY <1>1 DEF KeyInv, OneActivePerKey
<1>4. \A d \in Clients : d # c => cpc'[d] = cpc[d] /\ creq'[d] = creq[d]
  BY <1>2 DEF EnqueueCheck, RerunRead, CloneCheck, CancelRead
<1>5. cpc'[c] = "insert" => ~HasActiveTwin(creq'[c])
  BY <1>2 DEF EnqueueCheck, RerunRead, CloneCheck, CancelRead
<1>6. ASSUME NEW d \in Clients PROVE LookedStands(d)'
  <2>1. CASE d = c
    BY <1>1, <1>5, <2>1 DEF LookedStands, HasActiveTwin
  <2>2. CASE d # c
    BY <1>1, <1>4, <2>2 DEF KeyInv, LookedStands
  <2> QED
    BY <2>1, <2>2
<1> QED
  BY <1>3, <1>6 DEF KeyInv

(* The new row is the latest; whoever looked for it before is overtaken.   *)
LEMMA InsertKeepsKeys ==
  ASSUME IInv, KeyInv, NEW c \in Clients, Insert(c)
  PROVE  KeyInv'
<1> DEFINE n == created + 1
<1>1. /\ n \in Jobs /\ created \in Nat /\ status \in [Jobs -> Statuses]
      /\ rows \in [Jobs -> Requests \cup {NoRow}]
  BY DEF Insert, IInv, TypeOK, TableTypeOK
<1>2. /\ status' = [status EXCEPT ![n] = QUEUED] /\ rows' = [rows EXCEPT ![n] = creq[c]]
      /\ cpc' = [cpc EXCEPT ![c] = "ready"] /\ creq' = [creq EXCEPT ![c] = NoRow]
      /\ doubled' = IF c \in overtaken THEN doubled \cup {n} ELSE doubled
      /\ overtaken' = (overtaken \cup {d \in Clients : cpc[d] = "insert" /\ creq[d] = creq[c]}) \ {c}
      /\ revived' = revived /\ asked' = asked /\ cpc[c] = "insert"
  BY DEF Insert, history
<1>3. \A i \in Jobs : i > n => status[i] = Absent
  BY <1>1 DEF IInv, RowsInOrder
<1> HIDE DEF n
<1>4. \A i \in Jobs : /\ status'[i] = IF i = n THEN QUEUED ELSE status[i]
                      /\ rows'[i] = IF i = n THEN creq[c] ELSE rows[i]
  BY <1>1, <1>2
<1>5. Absent \notin Active
  BY ActiveOrEnded DEF Active, AWAITING_APPROVAL, REPAIRING
<1>6. LookedStands(c)
  BY DEF KeyInv
<1>7. OneActivePerKey'
  <2> SUFFICES ASSUME NEW i \in Jobs, NEW j \in Jobs, status'[i] \in Active, status'[j] \in Active,
                      rows'[i] = rows'[j], i < j
               PROVE  j \in doubled' \/ i \in revived' \/ j \in revived'
    BY <1>2 DEF KeyInv, OneActivePerKey
  <2>1. CASE i = n
    BY <1>3, <1>4, <1>5, <2>1
  <2>2. CASE j = n
    <3>1. i # n /\ rows[i] = creq[c] /\ status[i] \in Active
      BY <1>4, <2>2
    <3> QED
      BY <1>2, <1>6, <2>2, <3>1 DEF LookedStands
  <2>3. CASE i # n /\ j # n
    BY <1>2, <1>4, <2>3 DEF KeyInv, OneActivePerKey
  <2> QED
    BY <2>1, <2>2, <2>3
<1>8. ASSUME NEW d \in Clients PROVE LookedStands(d)'
  <2>1. cpc \in [Clients -> {"ready", "clone", "insert", "cancel"}] /\ creq \in [Clients -> Requests \cup {NoRow}]
    BY DEF IInv, TypeOK, ClientTypeOK
  <2>2. CASE d = c
    BY <1>2, <2>1, <2>2 DEF LookedStands
  <2>3. CASE d # c
    <3>1. cpc'[d] = cpc[d] /\ creq'[d] = creq[d]
      BY <1>2, <2>1, <2>3
    <3>2. ASSUME cpc[d] = "insert", d \notin overtaken' PROVE creq[d] # creq[c] /\ d \notin overtaken
      BY <1>2, <2>3, <3>2
    <3> QED
      BY <1>2, <1>4, <3>1, <3>2 DEF KeyInv, LookedStands
  <2> QED
    BY <2>2, <2>3
<1> QED
  BY <1>7, <1>8 DEF KeyInv

(* Two in-flight rows share an owner and a dedup key only when their       *)
(* requests overtook each other between look-up and INSERT or when a       *)
(* cancel's race put an ended row back in flight: for any number of        *)
(* request threads and workers, with cancels and kills.                    *)
THEOREM KeysStayUnique == Spec => []OneActivePerKey
<1>1. Init => KeyInv
  <2> SUFFICES ASSUME Init PROVE KeyInv
    OBVIOUS
  <2>1. \A j \in Jobs : status[j] \notin Active
    BY DEF Init, Active, AWAITING_APPROVAL, REPAIRING
  <2> QED
    BY <2>1 DEF Init, KeyInv, OneActivePerKey, LookedStands
<1>2. IInv /\ KeyInv /\ [Next]_vars => KeyInv'
  <2> SUFFICES ASSUME IInv, KeyInv, [Next]_vars
               PROVE  KeyInv'
    OBVIOUS
  <2>1. CASE UNCHANGED vars
    <3>1. UNCHANGED <<status, rows, cpc, creq, asked, overtaken, doubled, revived>>
      BY <2>1 DEF vars, table, client, history, races
    <3>2. revived' \subseteq asked'
      BY <3>1 DEF KeyInv, OneActivePerKey
    <3> QED
      BY <3>1, <3>2, RevivingKeepsKeys
  <2>2. ASSUME NEW w \in Workers, WorkerStep(w) \/ Crash(w) PROVE KeyInv'
    BY <2>2, WorkersKeepKeys
  <2>3. ASSUME NEW c \in Clients, ClientStep(c) PROVE KeyInv'
    BY <2>3, LookingKeepsKeys, InsertKeepsKeys, CancelWriteKeepsKeys DEF ClientStep, ClientFinishes
  <2> QED
    BY <2>1, <2>2, <2>3 DEF Next
<1>3. KeyInv => OneActivePerKey
  BY DEF KeyInv
<1> QED
  BY <1>1, <1>2, <1>3, InvariantHolds, PTL DEF Spec

-----------------------------------------------------------------------------
(* The queue implements JobLease. *)

HolderIsExecutor ==
    /\ holder \in [Jobs -> Workers \cup {NoWorker}]
    /\ \A j \in Jobs, w \in Workers : holder[j] = w <=> Executes(w, j)

LEMMA HolderExecutes == SingleExecution => HolderIsExecutor
<1> SUFFICES ASSUME SingleExecution PROVE HolderIsExecutor
  OBVIOUS
<1>1. ASSUME NEW j \in Jobs, NEW w \in Workers, Executes(w, j)
      PROVE  holder[j] = w
  <2> DEFINE h == CHOOSE v \in Workers : Executes(v, j)
  <2>1. h \in Workers /\ Executes(h, j)
    BY <1>1
  <2> QED
    BY <1>1, <2>1 DEF holder, SingleExecution
<1>2. ASSUME NEW j \in Jobs, ~\E w \in Workers : Executes(w, j)
      PROVE  holder[j] = NoWorker
  BY <1>2 DEF holder
<1>3. holder \in [Jobs -> Workers \cup {NoWorker}]
  BY <1>1, <1>2 DEF holder
<1> QED
  BY <1>1, <1>2, <1>3 DEF HolderIsExecutor

(* If nobody begins or ends executing a job, nobody's lease changes.       *)
LEMMA HolderSame ==
  ASSUME HolderIsExecutor, HolderIsExecutor',
         \A w \in Workers, j \in Jobs : Executes(w, j) <=> Executes(w, j)'
  PROVE  holder' = holder
<1>1. \A j \in Jobs : holder'[j] = holder[j]
  BY DEF HolderIsExecutor
<1> QED
  BY <1>1 DEF HolderIsExecutor

(* A worker that lets go of its job gives up its lease. *)
LEMMA ReleaseGivesUp ==
  ASSUME IInv, HolderIsExecutor, HolderIsExecutor', NEW w \in Workers, Release(w),
         UNCHANGED <<attempts, produced>>
  PROVE  [Lease!Next]_(Lease!leases)
<1>1. \A v \in Workers : /\ wpc'[v] = IF v = w THEN "idle" ELSE wpc[v]
                         /\ wjob'[v] = IF v = w THEN NoJob ELSE wjob[v]
  BY DEF IInv, TypeOK, WorkerTypeOK, Release
<1>2. CASE wpc[w] \notin ExecutingPcs
  <2>1. holder' = holder
    BY <1>1, <1>2, HolderSame
  <2> QED
    BY <2>1 DEF Lease!leases
<1>3. CASE wpc[w] \in ExecutingPcs
  <2> DEFINE j == wjob[w]
  <2>1. j \in Jobs /\ holder[j] = w
    BY <1>3, WorkerHasJob DEF HolderIsExecutor
  <2>2. ASSUME NEW i \in Jobs PROVE holder'[i] = IF i = j THEN NoWorker ELSE holder[i]
    <3>1. \A v \in Workers : holder'[i] = v <=> v # w /\ holder[i] = v
      BY <1>1 DEF HolderIsExecutor
    <3>2. holder'[i] \in Workers \cup {NoWorker} /\ holder[i] \in Workers \cup {NoWorker}
      BY DEF HolderIsExecutor
    <3>3. i # j => holder[i] # w
      BY <1>3, <2>1 DEF HolderIsExecutor
    <3> QED
      BY <2>1, <3>1, <3>2, <3>3
  <2>3. holder' = [holder EXCEPT ![j] = NoWorker]
    BY <2>1, <2>2 DEF HolderIsExecutor
  <2>4. Lease!GiveUp(w, j)
    BY <2>1, <2>3 DEF Lease!GiveUp
  <2> QED
    BY <2>1, <2>4 DEF Lease!Next
<1> QED
  BY <1>2, <1>3

(* A step that moves a worker between executing program counters, or none. *)
LEMMA MoveKeepsLease ==
  ASSUME IInv, HolderIsExecutor, HolderIsExecutor', NEW w \in Workers, NEW pc \in WorkerPcs,
         wpc' = [wpc EXCEPT ![w] = pc],
         \A v \in Workers \ {w} : wjob'[v] = wjob[v],
         pc \in ExecutingPcs <=> wpc[w] \in ExecutingPcs,
         pc \in ExecutingPcs => wjob'[w] = wjob[w],
         UNCHANGED <<attempts, produced>>
  PROVE  UNCHANGED Lease!leases
<1>1. \A v \in Workers : wpc'[v] = IF v = w THEN pc ELSE wpc[v]
  BY DEF IInv, TypeOK, WorkerTypeOK
<1>2. holder' = holder
  BY <1>1, HolderSame
<1> QED
  BY <1>2 DEF Lease!leases

LEMMA ClaimAcquires ==
  ASSUME IInv, HolderIsExecutor, HolderIsExecutor', NEW w \in Workers, ClaimUpdate(w)
  PROVE  [Lease!Next]_(Lease!leases)
<1> DEFINE j == wjob[w]
<1>0. j \in Jobs
  BY WorkerHasJob DEF ClaimUpdate
<1>1. CASE status[j] # QUEUED
  BY <1>1, ReleaseGivesUp DEF ClaimUpdate, history
<1>2. CASE status[j] = QUEUED
  <2>1. /\ attempts' = [attempts EXCEPT ![j] = @ + 1]
        /\ wpc' = [wpc EXCEPT ![w] = "claimed"] /\ wjob' = wjob /\ produced' = produced
    BY <1>2 DEF ClaimUpdate, Goto, history
  <2>2. \A v \in Workers : wpc'[v] = IF v = w THEN "claimed" ELSE wpc[v]
    BY <2>1 DEF IInv, TypeOK, WorkerTypeOK
  <2>3. \A v \in Workers : ~Executes(v, j)
    BY <1>2 DEF IInv, ExecutedIsTaken
  <2>4. holder[j] = NoWorker /\ \A i \in Jobs : holder[i] # w
    BY <1>0, <2>3 DEF HolderIsExecutor, ClaimUpdate
  <2>5. \A i \in Jobs : holder'[i] = IF i = j THEN w ELSE holder[i]
    <3>1. ASSUME NEW i \in Jobs PROVE holder'[i] = IF i = j THEN w ELSE holder[i]
      <4>1. \A v \in Workers : holder'[i] = v <=> (v = w /\ i = j) \/ (v # w /\ Executes(v, i))
        BY <2>1, <2>2 DEF HolderIsExecutor
      <4> QED
        BY <1>0, <2>3, <2>4, <4>1, SMTT(30) DEF HolderIsExecutor
    <3> QED
      BY <3>1
  <2>6. holder' = [holder EXCEPT ![j] = w]
    BY <1>0, <2>5 DEF HolderIsExecutor
  <2>7. attempts[j] < AttemptLimit /\ produced[j] = 0
    BY <1>0, <1>2 DEF IInv, AttemptsBounded, ResultEndsWork
  <2>8. Lease!Acquire(w, j)
    BY <2>1, <2>4, <2>6, <2>7 DEF Lease!Acquire
  <2> QED
    BY <1>0, <2>8 DEF Lease!Next
<1> QED
  BY <1>1, <1>2

LEMMA SuccessYields ==
  ASSUME IInv, HolderIsExecutor, HolderIsExecutor', NEW w \in Workers, GenerateSucceeds(w)
  PROVE  [Lease!Next]_(Lease!leases)
<1> DEFINE j == wjob[w]
<1>1. j \in Jobs /\ holder[j] = w /\ produced[j] = 0
  BY WorkerHasJob DEF GenerateSucceeds, HolderIsExecutor, IInv, WorkersJustified, Justified
<1>2. \A v \in Workers : wpc'[v] = IF v = w THEN "finished" ELSE wpc[v]
  BY DEF GenerateSucceeds, Goto, IInv, TypeOK, WorkerTypeOK
<1>3. holder' = holder
  BY <1>2, HolderSame DEF GenerateSucceeds, Goto
<1>4. produced' = [produced EXCEPT ![j] = 1]
  BY <1>1 DEF GenerateSucceeds
<1>5. Lease!Yield(w, j)
  BY <1>1, <1>3, <1>4 DEF Lease!Yield, GenerateSucceeds, table
<1> QED
  BY <1>1, <1>5 DEF Lease!Next

LEMMA WorkerStepIsLeaseStep ==
  ASSUME IInv, HolderIsExecutor, HolderIsExecutor', NEW w \in Workers, WorkerStep(w)
  PROVE  [Lease!Next]_(Lease!leases)
<1> USE DEF table, history
<1>1. CASE CountInFlight(w)
  BY <1>1, MoveKeepsLease DEF CountInFlight, WorkerPcs
<1>2. CASE SelectNext(w)
  <2>1. CASE Release(w)
    BY <1>2, <2>1, ReleaseGivesUp DEF SelectNext
  <2>2. CASE ~Release(w)
    <3>1. PICK j \in Jobs : /\ wpc' = [wpc EXCEPT ![w] = "claim"]
                            /\ wjob' = [wjob EXCEPT ![w] = j]
      BY <1>2, <2>2 DEF SelectNext, Eligible
    <3>2. \A v \in Workers \ {w} : wjob'[v] = wjob[v]
      BY <3>1 DEF IInv, TypeOK, WorkerTypeOK
    <3> QED
      BY <1>2, <3>1, <3>2, MoveKeepsLease DEF SelectNext, WorkerPcs
  <2> QED
    BY <2>1, <2>2
<1>3. CASE ClaimUpdate(w)
  BY <1>3, ClaimAcquires
<1>4. CASE GenerateSucceeds(w)
  BY <1>4, SuccessYields
<1>5. CASE Checkpoint1(w)
  BY <1>5, MoveKeepsLease DEF Checkpoint1, Goto, BeginTransition, WorkerPcs
<1>6. CASE HandlerCheckpoint(w) \/ HandlerRaises(w) \/ CancelOrFail(w) \/ Checkpoint2(w)
  BY <1>6, MoveKeepsLease DEF HandlerCheckpoint, HandlerRaises, CancelOrFail, Checkpoint2, Goto,
     BeginTransition, WorkerPcs
<1>7. CASE RequeueOrFail(w)
  BY <1>7, MoveKeepsLease DEF RequeueOrFail, Goto, BeginTransition, WorkerPcs
<1>8. ASSUME AfterTransition(w), wpc[w] \in {"read", "write"}, UNCHANGED <<attempts, produced>>
      PROVE  [Lease!Next]_(Lease!leases)
  <2>1. CASE wtarget[w] = VALIDATING
    BY <1>8, <2>1, MoveKeepsLease DEF AfterTransition, WorkerPcs
  <2>2. CASE wtarget[w] # VALIDATING
    BY <1>8, <2>2, ReleaseGivesUp DEF AfterTransition
  <2> QED
    BY <2>1, <2>2
<1>9. CASE TransitionRead(w)
  <2>1. CASE status[wjob[w]] \in Terminal
    BY <1>8, <1>9, <2>1 DEF TransitionRead
  <2>2. CASE status[wjob[w]] \notin Terminal
    BY <1>9, <2>2, MoveKeepsLease DEF TransitionRead, Goto, WorkerPcs
  <2> QED
    BY <2>1, <2>2
<1>10. CASE TransitionWrite(w)
  BY <1>8, <1>10 DEF TransitionWrite
<1> QED
  BY <1>1, <1>2, <1>3, <1>4, <1>5, <1>6, <1>7, <1>9, <1>10 DEF WorkerStep

LEMMA NextIsLeaseStep ==
  ASSUME IInv, HolderIsExecutor, HolderIsExecutor', [Next]_vars
  PROVE  [Lease!Next]_(Lease!leases)
<1>1. ASSUME NEW w \in Workers, WorkerStep(w) PROVE [Lease!Next]_(Lease!leases)
  BY <1>1, WorkerStepIsLeaseStep
<1>2. ASSUME NEW w \in Workers, Crash(w) PROVE [Lease!Next]_(Lease!leases)
  BY <1>2, ReleaseGivesUp DEF Crash, table
<1>3. ASSUME UNCHANGED <<worker, attempts, produced>> PROVE [Lease!Next]_(Lease!leases)
  <2>1. holder' = holder
    BY <1>3, HolderSame DEF worker
  <2> QED
    BY <1>3, <2>1 DEF Lease!leases
<1>4. ASSUME NEW c \in Clients, ClientStep(c) PROVE [Lease!Next]_(Lease!leases)
  BY <1>3, <1>4 DEF ClientStep, ClientFinishes, EnqueueCheck, RerunRead, CloneCheck, Insert,
     CancelRead, CancelWrite, table, history
<1>5. CASE UNCHANGED vars
  BY <1>3, <1>5 DEF vars, table, history
<1> QED
  BY <1>1, <1>2, <1>4, <1>5 DEF Next

(* The queue, with its stale reads, unguarded writes and worker deaths,    *)
(* implements exclusive leases that are taken at most AttemptLimit times   *)
(* and yield at most one result.                                           *)
THEOREM ImplementsLeases == Spec => ImplementsJobLease
<1>1. Init => Lease!Init
  <2> SUFFICES ASSUME Init PROVE Lease!Init
    OBVIOUS
  <2>1. \A w \in Workers, j \in Jobs : ~Executes(w, j)
    BY DEF Init
  <2>2. holder = [j \in Jobs |-> NoWorker]
    BY <2>1 DEF holder
  <2> QED
    BY <2>2 DEF Init, Lease!Init
<1>2. IInv => SingleExecution
  BY DEF IInv
<1> QED
  BY <1>1, <1>2, InvariantHolds, HolderExecutes, NextIsLeaseStep, PTL
     DEF Spec, ImplementsJobLease, Lease!Spec
=============================================================================
