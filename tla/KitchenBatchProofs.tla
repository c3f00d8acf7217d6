-------------------------- MODULE KitchenBatchProofs --------------------------
(***************************************************************************)
(* Proofs about KitchenBatch.                                              *)
(***************************************************************************)
EXTENDS KitchenBatch, FiniteSetTheorems, TLAPS

-----------------------------------------------------------------------------
(* Lemmas about the operators *)

LEMMA ExceptKeepsRange ==
    ASSUME NEW S, NEW T, NEW f \in [S -> T], NEW x, NEW v, x \in S => v \in T
    PROVE  [f EXCEPT ![x] = v] \in [S -> T]
  OBVIOUS

LEMMA AllEndedTyped ==
    ASSUME NEW V, NEW e \in [verdicts : V, allEnded : BOOLEAN]
    PROVE  [e EXCEPT !.allEnded = FALSE] \in [verdicts : V, allEnded : BOOLEAN]
  OBVIOUS

LEMMA ItemsFinite ==
    ASSUME NEW S \in SUBSET Item
    PROVE  Cardinality(S) \in Nat
<1>1. IsFiniteSet(Item)
  BY FS_Interval, BatchAssumption DEF Item
<1> QED
  BY <1>1, FS_Subset, FS_CardinalityType

\* Goto keeps to the program counters, CompareAndSet to the statuses.
LEMMA GotoTyped ==
    ASSUME BatchTypeOK, NEW r \in Run, NEW from,
           NEW to \in {"start", "gone"} \cup InHandler \cup InGoroutine, Goto(r, from, to)
    PROVE  rpc' \in [Run -> {"start", "gone"} \cup InHandler \cup InGoroutine]
  BY ExceptKeepsRange DEF BatchTypeOK, Goto

LEMMA CompareAndSetTyped ==
    ASSUME BatchTypeOK, NEW r \in Run, NEW from, NEW to \in BatchStatus,
           CompareAndSet(r, from, to)
    PROVE  bstatus' \in [Batch -> BatchStatus]
  BY BatchAssumption DEF BatchTypeOK, CompareAndSet

LEMMA VerdictDropped ==
    ASSUME NEW V, NEW v, NEW e \in [verdicts : SUBSET V, allEnded : BOOLEAN]
    PROVE  [e EXCEPT !.verdicts = @ \ {v}] \in [verdicts : SUBSET V, allEnded : BOOLEAN]
  OBVIOUS

\* A listing yields verdicts about instances.
LEMMA VerdictsTyped ==
    ASSUME BatchTypeOK, NEW r \in Run
    PROVE  VerdictsOf(r) \subseteq Instance \X {"passed", "errored", "cancelled"}
<1> DEFINE ended == {i \in Listed(RunOf[r]) : status[i] \in Queue!Ended /\ key[i] \in imap[r]}
<1>1. ASSUME NEW i \in ended
      PROVE  <<key[i], Verdict(status[i])>> \in Instance \X {"passed", "errored", "cancelled"}
  BY <1>1 DEF BatchTypeOK, Queue!Ended, Verdict
<1> QED
  BY <1>1 DEF VerdictsOf

\* A verdict is written into one instance of one run, or not at all.
LEMMA NoteTyped ==
    ASSUME BatchTypeOK, NEW r \in Run, NEW x, NEW v \in {"passed", "errored", "cancelled"},
           Note(r, x, v)
    PROVE  inst' \in [Run -> [Instance -> {"none", "pending", "passed", "errored", "cancelled"}]]
<1> DEFINE Verdicts == {"none", "pending", "passed", "errored", "cancelled"}
           w == IF Reaches(r) /\ inst[r][x] # "none" THEN v ELSE inst[r][x]
<1>1. inst \in [Run -> [Instance -> Verdicts]] /\ inst[r] \in [Instance -> Verdicts]
  BY DEF BatchTypeOK
<1>2. x \in Instance => w \in Verdicts
  BY <1>1
<1>3. [inst[r] EXCEPT ![x] = w] \in [Instance -> Verdicts]
  BY <1>1, <1>2, ExceptKeepsRange
<1>4. inst' = [inst EXCEPT ![r] = [inst[r] EXCEPT ![x] = w]] \/ inst' = inst
  BY DEF Note
<1> QED
  BY <1>1, <1>3, <1>4

-----------------------------------------------------------------------------
(* Type correctness *)

LEMMA BatchTypeInit == Init => BatchTypeOK
  BY BatchAssumption DEF Init, BatchTypeOK, BatchStatus, NothingSeen

LEMMA BatchTypeStep == BatchTypeOK /\ [Next]_vars => BatchTypeOK'
<1> SUFFICES ASSUME BatchTypeOK, [Next]_vars
             PROVE  BatchTypeOK'
  OBVIOUS
<1> USE DEF InHandler, InGoroutine, BatchStatus
<1>1. ASSUME NEW r \in Run, ReadBatch(r)
      PROVE  BatchTypeOK'
  BY <1>1, BatchAssumption DEF BatchTypeOK, ReadBatch, Goto, run, queue
<1>2. ASSUME NEW r \in Run, Guard(r)
      PROVE  BatchTypeOK'
  BY <1>2, BatchAssumption DEF BatchTypeOK, Guard, Goto, run, queue
<1>3. ASSUME NEW r \in Run, SetPreparing(r)
      PROVE  BatchTypeOK'
  BY <1>3, BatchAssumption DEF BatchTypeOK, SetPreparing, Goto, SetStatus, run, queue
<1>4. ASSUME NEW r \in Run, Launch(r)
      PROVE  BatchTypeOK'
  BY <1>4, BatchAssumption DEF BatchTypeOK, Launch, Goto, run, queue
<1>5. ASSUME NEW r \in Run, Preview(r)
      PROVE  BatchTypeOK'
  BY <1>5, BatchAssumption DEF BatchTypeOK, Preview, Goto, SetStatus, run, queue
<1>6. ASSUME NEW r \in Run, CompletePreview(r)
      PROVE  BatchTypeOK'
  BY <1>6, BatchAssumption DEF BatchTypeOK, CompletePreview, Goto, SetStatus, run, queue
<1>7. ASSUME NEW r \in Run, NEW plan \in SUBSET Instance, Prepare(r, plan)
      PROVE  BatchTypeOK'
  BY <1>7, BatchAssumption DEF BatchTypeOK, Prepare, Goto, Reaches, run, queue
<1>8. ASSUME NEW r \in Run, NEW next \in {"enqueue", "failRunning"}, StartRunning(r, next)
      PROVE  BatchTypeOK'
  BY <1>8, BatchAssumption DEF BatchTypeOK, StartRunning, Goto, CompareAndSet, Reaches, run, queue
<1>9. ASSUME NEW r \in Run, FailBatch(r)
      PROVE  BatchTypeOK'
  <2>1. rpc' \in [Run -> {"start", "gone"} \cup InHandler \cup InGoroutine]
    BY <1>9, GotoTyped DEF FailBatch, InGoroutine
  <2>2. bstatus' \in [Batch -> BatchStatus]
    BY <1>9, CompareAndSetTyped DEF FailBatch, BatchStatus
  <2> QED
    BY <1>9, <2>1, <2>2, BatchAssumption DEF BatchTypeOK, FailBatch, run, queue
<1>10. ASSUME NEW r \in Run, FailInstances(r)
       PROVE  BatchTypeOK'
  BY <1>10, BatchAssumption DEF BatchTypeOK, FailInstances, Goto, CancelPending, Reaches, run, queue
<1>11. ASSUME NEW r \in Run, NEW i \in Item, EnqueueInstance(r, i)
       PROVE  BatchTypeOK'
  BY <1>11, BatchAssumption DEF BatchTypeOK, EnqueueInstance, run, queue
<1>12. ASSUME NEW r \in Run, EnqueueRefused(r)
       PROVE  BatchTypeOK'
  BY <1>12, BatchAssumption DEF BatchTypeOK, EnqueueRefused, Goto, run, queue
<1>13. ASSUME NEW r \in Run, NoteRefusal(r)
       PROVE  BatchTypeOK'
  <2>1. inst' \in [Run -> [Instance -> {"none", "pending", "passed", "errored", "cancelled"}]]
    BY <1>13, NoteTyped DEF NoteRefusal
  <2> QED
    BY <1>13, <2>1 DEF BatchTypeOK, NoteRefusal, Goto, run, queue
<1>14. ASSUME NEW r \in Run, EnqueueDone(r)
       PROVE  BatchTypeOK'
  BY <1>14, BatchAssumption DEF BatchTypeOK, EnqueueDone, Goto, run, queue
<1>15. ASSUME NEW r \in Run, PollCancelled(r)
       PROVE  BatchTypeOK'
  BY <1>15, BatchAssumption DEF BatchTypeOK, PollCancelled, Goto, run, queue
<1>16. ASSUME NEW r \in Run, List(r)
       PROVE  BatchTypeOK'
  <2> DEFINE listing == [verdicts |-> VerdictsOf(r),
                         allEnded |-> \A i \in Listed(RunOf[r]) : status[i] \notin Opened]
  <2>1. listing \in [verdicts : SUBSET (Instance \X {"passed", "errored", "cancelled"}),
                     allEnded : BOOLEAN]
    BY VerdictsTyped
  <2>2. seen' = [seen EXCEPT ![r] = listing]
    BY <1>16 DEF List
  <2> HIDE DEF listing
  <2> QED
    BY <1>16, <2>1, <2>2 DEF BatchTypeOK, List, Goto, run, queue
<1>17. ASSUME NEW r \in Run, NEW v \in seen[r].verdicts, WriteVerdict(r, v)
       PROVE  BatchTypeOK'
  <2>1. v \in Instance \X {"passed", "errored", "cancelled"}
    BY <1>17 DEF BatchTypeOK
  <2>2. inst' \in [Run -> [Instance -> {"none", "pending", "passed", "errored", "cancelled"}]]
    BY <1>17, <2>1, NoteTyped DEF WriteVerdict
  <2>3. seen' \in [Run -> [verdicts : SUBSET (Instance \X {"passed", "errored", "cancelled"}),
                           allEnded : BOOLEAN]]
    <3>1. /\ seen \in [Run -> [verdicts : SUBSET (Instance \X {"passed", "errored", "cancelled"}),
                               allEnded : BOOLEAN]]
          /\ seen' = [seen EXCEPT ![r] = [seen[r] EXCEPT !.verdicts = @ \ {v}]]
      BY <1>17 DEF BatchTypeOK, WriteVerdict
    <3> QED
      BY <3>1, VerdictDropped, ExceptKeepsRange
  <2>4. imap' \in [Run -> SUBSET Instance]
    BY <1>17 DEF BatchTypeOK, WriteVerdict
  <2> QED
    BY <1>17, <2>2, <2>3, <2>4 DEF BatchTypeOK, WriteVerdict, queue
<1>18. ASSUME NEW r \in Run, Synced(r)
       PROVE  BatchTypeOK'
  <2>1. seen' \in [Run -> [verdicts : SUBSET (Instance \X {"passed", "errored", "cancelled"}),
                           allEnded : BOOLEAN]]
    <3>0. seen \in [Run -> [verdicts : SUBSET (Instance \X {"passed", "errored", "cancelled"}),
                            allEnded : BOOLEAN]]
      BY DEF BatchTypeOK
    <3>1. [seen[r] EXCEPT !.allEnded = FALSE]
              \in [verdicts : SUBSET (Instance \X {"passed", "errored", "cancelled"}),
                   allEnded : BOOLEAN]
      BY <3>0, AllEndedTyped
    <3>2. seen' = [seen EXCEPT ![r] = [seen[r] EXCEPT !.allEnded = FALSE]]
      BY <1>18 DEF Synced
    <3> QED
      BY <3>0, <3>1, <3>2, ExceptKeepsRange
  <2>2. rpc' \in [Run -> {"start", "gone"} \cup InHandler \cup InGoroutine]
    BY <1>18 DEF BatchTypeOK, Synced, Goto
  <2> QED
    BY <1>18, <2>1, <2>2 DEF BatchTypeOK, Synced, queue
<1>19. ASSUME NEW r \in Run, FinalizeInstances(r)
       PROVE  BatchTypeOK'
  BY <1>19, BatchAssumption DEF BatchTypeOK, FinalizeInstances, Goto, CancelPending, Reaches, run, queue
<1>20. ASSUME NEW r \in Run, FinalizeStatus(r)
       PROVE  BatchTypeOK'
  BY <1>20, BatchAssumption DEF BatchTypeOK, FinalizeStatus, Goto, CompareAndSet, Reaches, run, queue
<1>21. ASSUME NEW r \in Run, Exit(r)
       PROVE  BatchTypeOK'
  BY <1>21, BatchAssumption DEF BatchTypeOK, Exit, Goto, run, queue
<1>22. ASSUME NEW r \in Run, StatusFails(r)
       PROVE  BatchTypeOK'
  <2>1. rpc' \in [Run -> {"start", "gone"} \cup InHandler \cup InGoroutine]
    BY <1>22, GotoTyped DEF StatusFails, InGoroutine
  <2>2. RunOf[r] \in Batch
    BY BatchAssumption
  <2>3. SetStatus(RunOf[r], "preparing") => bstatus' \in [Batch -> BatchStatus]
    BY <2>2 DEF BatchTypeOK, SetStatus
  <2>4. CompareAndSet(r, "preparing", "running") => bstatus' \in [Batch -> BatchStatus]
    BY <2>2 DEF BatchTypeOK, CompareAndSet
  <2>5. bstatus' \in [Batch -> BatchStatus]
    BY <1>22, <2>3, <2>4 DEF BatchTypeOK, StatusFails
  <2> QED
    BY <1>22, <2>1, <2>2, <2>5 DEF BatchTypeOK, StatusFails, run, queue
<1>23. ASSUME NEW r \in Run, StatementFails(r)
       PROVE  BatchTypeOK'
  <2>1. rpc' \in [Run -> {"start", "gone"} \cup InHandler \cup InGoroutine]
    BY <1>23, GotoTyped DEF StatementFails, InGoroutine
  <2>2. bstatus' \in [Batch -> BatchStatus]
    BY <1>23, BatchAssumption DEF BatchTypeOK, StatementFails, queue
  <2> QED
    BY <1>23, <2>1, <2>2, BatchAssumption DEF BatchTypeOK, StatementFails, run, queue
<1>24. ASSUME NEW b \in Batch, CancelRead(b)
       PROVE  BatchTypeOK'
  BY <1>24, BatchAssumption DEF BatchTypeOK, CancelRead, CancelStep, run, queue
<1>25. ASSUME NEW b \in Batch, CancelSet(b)
       PROVE  BatchTypeOK'
  BY <1>25, BatchAssumption DEF BatchTypeOK, CancelSet, CancelStep, SetStatus, run, queue
<1>26. ASSUME NEW b \in Batch, CancelSignal(b)
       PROVE  BatchTypeOK'
  BY <1>26, BatchAssumption DEF BatchTypeOK, CancelSignal, CancelStep, run, queue
<1>27. ASSUME NEW b \in Batch, CancelInstances(b)
       PROVE  BatchTypeOK'
  BY <1>27, BatchAssumption DEF BatchTypeOK, CancelInstances, CancelStep, CancelPending, run, queue
<1>28. ASSUME NEW b \in Batch, CancelFails(b)
       PROVE  BatchTypeOK'
  BY <1>28, BatchAssumption DEF BatchTypeOK, CancelFails, CancelStep, run, queue
<1>29. ASSUME NEW b \in Batch, Delete(b)
       PROVE  BatchTypeOK'
  BY <1>29, BatchAssumption DEF BatchTypeOK, Delete, run, queue
<1>30. ASSUME NEW i \in Item, ClaimRow(i)
       PROVE  BatchTypeOK'
  BY <1>30, BatchAssumption DEF BatchTypeOK, ClaimRow, run, queue
<1>31. ASSUME NEW i \in Item, EndRow(i)
       PROVE  BatchTypeOK'
  BY <1>31, BatchAssumption DEF BatchTypeOK, EndRow, run, queue
<1>32. ASSUME NEW i \in Item, OthersCancel(i)
       PROVE  BatchTypeOK'
  BY <1>32, BatchAssumption DEF BatchTypeOK, OthersCancel, run, queue
<1>33. ASSUME NEW i \in Item, NEW x \in Instance, OthersSubmit(i, x)
       PROVE  BatchTypeOK'
  BY <1>33, BatchAssumption DEF BatchTypeOK, OthersSubmit, run, queue
<1>34. ASSUME NEW i \in Item, NEW old \in Item, OthersRetry(i, old)
       PROVE  BatchTypeOK'
  BY <1>34, BatchAssumption DEF BatchTypeOK, OthersRetry, run, queue
<1>35. ASSUME StartQueue
       PROVE  BatchTypeOK'
  BY <1>35, BatchAssumption DEF BatchTypeOK, StartQueue, run, queue
<1>36. ASSUME StartRouter
       PROVE  BatchTypeOK'
  BY <1>36, BatchAssumption DEF BatchTypeOK, StartRouter, CancelStale, run, queue
<1>37. ASSUME Crash
       PROVE  BatchTypeOK'
  BY <1>37, BatchAssumption DEF BatchTypeOK, Crash, NothingSeen, run, queue
<1>38. CASE UNCHANGED vars
  BY <1>38 DEF BatchTypeOK, vars, run, queue
<1>39. ASSUME NEW r \in Run, RunStep(r)
       PROVE  BatchTypeOK'
  <2>1. CASE \/ Guard(r) \/ SetPreparing(r) \/ Launch(r) \/ Preview(r) \/ CompletePreview(r)
             \/ \E plan \in SUBSET Instance : Prepare(r, plan)
             \/ \E next \in {"enqueue", "failRunning"} : StartRunning(r, next)
    BY <2>1, <1>2, <1>3, <1>4, <1>5, <1>6, <1>7, <1>8
  <2>2. CASE \/ FailBatch(r) \/ FailInstances(r) \/ EnqueueRefused(r) \/ NoteRefusal(r)
             \/ EnqueueDone(r) \/ PollCancelled(r) \/ \E i \in Item : EnqueueInstance(r, i)
    BY <2>2, <1>9, <1>10, <1>11, <1>12, <1>13, <1>14, <1>15
  <2>3. CASE \/ List(r) \/ Synced(r) \/ FinalizeInstances(r) \/ FinalizeStatus(r) \/ Exit(r)
             \/ \E v \in seen[r].verdicts : WriteVerdict(r, v)
    BY <2>3, <1>16, <1>17, <1>18, <1>19, <1>20, <1>21
  <2> QED
    BY <1>39, <2>1, <2>2, <2>3 DEF RunStep
<1>40. ASSUME NEW b \in Batch, CancelHandler(b)
       PROVE  BatchTypeOK'
  BY <1>40, <1>25, <1>26, <1>27 DEF CancelHandler
<1>41. ASSUME QueueStep
       PROVE  BatchTypeOK'
  BY <1>41, <1>30, <1>31, <1>32, <1>33, <1>34 DEF QueueStep
<1>42. ASSUME Process
       PROVE  BatchTypeOK'
  BY <1>42, <1>35, <1>36, <1>37 DEF Process
<1> QED
  BY <1>1, <1>22, <1>23, <1>24, <1>28, <1>29, <1>38, <1>39, <1>40, <1>41, <1>42 DEF Next

\* Which steps touch the queue.
LEMMA QueueFrame ==
    ASSUME [Next]_vars
    PROVE  \/ \E r \in Run, i \in Item : EnqueueInstance(r, i)
           \/ \E b \in Batch : Delete(b)
           \/ \E i \in Item : ClaimRow(i) \/ EndRow(i) \/ OthersCancel(i)
           \/ \E i \in Item, x \in Instance : OthersSubmit(i, x)
           \/ \E i, old \in Item : OthersRetry(i, old)
           \/ StartQueue
           \/ UNCHANGED queue
<1>1. ASSUME NEW r \in Run,
             \/ ReadBatch(r) \/ Guard(r) \/ SetPreparing(r) \/ Launch(r) \/ Preview(r)
             \/ CompletePreview(r) \/ \E plan \in SUBSET Instance : Prepare(r, plan)
             \/ (\E next \in {"enqueue", "failRunning"} : StartRunning(r, next))
             \/ FailBatch(r) \/ FailInstances(r) \/ EnqueueRefused(r) \/ NoteRefusal(r)
             \/ EnqueueDone(r) \/ PollCancelled(r) \/ List(r)
             \/ (\E v \in seen[r].verdicts : WriteVerdict(r, v)) \/ Synced(r)
             \/ FinalizeInstances(r) \/ FinalizeStatus(r) \/ Exit(r)
             \/ StatusFails(r) \/ StatementFails(r)
      PROVE  UNCHANGED queue
  BY <1>1 DEF ReadBatch, Guard, SetPreparing, Launch, Preview, CompletePreview, Prepare,
       StartRunning, FailBatch, FailInstances, EnqueueRefused, NoteRefusal, EnqueueDone,
       PollCancelled, List, WriteVerdict, Synced, FinalizeInstances, FinalizeStatus, Exit,
       StatusFails, StatementFails
<1>2. ASSUME NEW b \in Batch,
             \/ CancelRead(b) \/ CancelSet(b) \/ CancelSignal(b) \/ CancelInstances(b)
             \/ CancelFails(b)
      PROVE  UNCHANGED queue
  BY <1>2 DEF CancelRead, CancelSet, CancelSignal, CancelInstances, CancelFails
<1>3. ASSUME StartRouter \/ Crash \/ UNCHANGED vars
      PROVE  UNCHANGED queue
  BY <1>3 DEF StartRouter, Crash, vars, queue
<1> QED
  BY <1>1, <1>2, <1>3 DEF Next, RunStep, CancelHandler, QueueStep, Process

LEMMA QueueTypeInit == Init => QueueTypeOK
  BY DEF Init, QueueTypeOK, Queue!LedgerInit

\* The queue's columns change with the queue's steps and when a batch is deleted.
LEMMA QueueTypeStep == BatchTypeOK /\ QueueTypeOK /\ [Next]_vars => QueueTypeOK'
<1> SUFFICES ASSUME BatchTypeOK, QueueTypeOK, [Next]_vars
             PROVE  QueueTypeOK'
  OBVIOUS
<1> USE BatchAssumption DEF QueueTypeOK, Queue!Open, Queue!Ended, Queue!Become
<1>1. ASSUME NEW r \in Run, NEW i \in Item, EnqueueInstance(r, i)
      PROVE  QueueTypeOK'
  <2>1. NextOf(todo[r]) \in Instance
    BY <1>1 DEF BatchTypeOK, EnqueueInstance, NextOf
  <2> QED
    BY <1>1, <2>1 DEF EnqueueInstance, Queue!Submit
<1>2. ASSUME NEW b \in Batch, Delete(b)
      PROVE  QueueTypeOK'
  BY <1>2 DEF Delete
<1>3. ASSUME NEW i \in Item, ClaimRow(i)
      PROVE  QueueTypeOK'
  BY <1>3, ItemsFinite DEF ClaimRow, Queue!Begin
<1>4. ASSUME NEW i \in Item, EndRow(i) \/ OthersCancel(i)
      PROVE  QueueTypeOK'
  BY <1>4 DEF EndRow, OthersCancel, Queue!Finish, Queue!Withdraw
<1>5. ASSUME NEW i \in Item, NEW x \in Instance, OthersSubmit(i, x)
      PROVE  QueueTypeOK'
  BY <1>5 DEF OthersSubmit, Queue!Submit
<1>6. ASSUME NEW i \in Item, NEW old \in Item, OthersRetry(i, old)
      PROVE  QueueTypeOK'
  <2>1. key[old] \in Instance \cup {NoKey}
    OBVIOUS
  <2> QED
    BY <1>6, <2>1 DEF OthersRetry, Queue!Submit
<1>7. CASE StartQueue
  BY <1>7 DEF StartQueue, Queue!Recover
<1>8. CASE UNCHANGED queue
  BY <1>8 DEF queue
<1> QED
  BY <1>1, <1>2, <1>3, <1>4, <1>5, <1>6, <1>7, <1>8, QueueFrame

\* Every behaviour of the batches keeps its variables within their types.
THEOREM BatchTypeCorrect == Spec => []TypeOK
<1>1. TypeOK /\ [Next]_vars => TypeOK'
  BY BatchTypeStep, QueueTypeStep DEF TypeOK
<1> QED
  BY <1>1, BatchTypeInit, QueueTypeInit, PTL DEF Spec, TypeOK

-----------------------------------------------------------------------------
(***************************************************************************)
(* What a step leaves alone.                                               *)
(*                                                                         *)
(* A handler and a goroutine write their own batch and nothing of another  *)
(* one, and the map of running batches never holds more than goroutines:   *)
(* an entry is made when its goroutine starts, and the goroutine's last    *)
(* step empties the place, also when another has taken it since.           *)
(***************************************************************************)

Untouched(b) ==
    /\ bstatus'[b] = bstatus[b]
    /\ entry'[b] = entry[b]
    /\ cpc'[b] = cpc[b]
    /\ \A q \in Run : RunOf[q] = b => rpc'[q] = rpc[q] /\ inst'[q] = inst[q]

Others(b) ==
    /\ proc' = proc
    /\ lost \subseteq lost'
    /\ \A c \in Batch : c # b => Untouched(c)

RunAction(r) == ReadBatch(r) \/ RunStep(r) \/ StatusFails(r) \/ StatementFails(r)

CancelAction(b) == CancelRead(b) \/ CancelHandler(b) \/ CancelFails(b) \/ Delete(b)

LeavesOthers(r) ==
    /\ Others(RunOf[r]) /\ UNCHANGED <<ctxDone, cpc>>
    /\ \A q \in Run : q # r => rpc'[q] = rpc[q]

\* A step of a run touches its own batch only, no context and no cancel.
LEMMA RunFrame ==
    ASSUME BatchTypeOK, NEW r \in Run, RunAction(r)
    PROVE  LeavesOthers(r)
<1> USE BatchAssumption DEF BatchTypeOK, Others, Untouched, LeavesOthers
<1>1. CASE ReadBatch(r) \/ Guard(r) \/ SetPreparing(r) \/ Launch(r)
  BY <1>1 DEF ReadBatch, Guard, SetPreparing, Launch, Goto, SetStatus
<1>2. CASE Preview(r) \/ CompletePreview(r) \/ StatementFails(r)
  BY <1>2 DEF Preview, CompletePreview, StatementFails, Goto, SetStatus
<1>3. ASSUME NEW plan \in SUBSET Instance, Prepare(r, plan)
      PROVE  LeavesOthers(r)
  BY <1>3 DEF Prepare, Goto
<1>4. ASSUME NEW next \in {"enqueue", "failRunning"}, StartRunning(r, next)
      PROVE  LeavesOthers(r)
  BY <1>4 DEF StartRunning, Goto, CompareAndSet
<1>5. CASE FailBatch(r)
  BY <1>5 DEF FailBatch, Goto, CompareAndSet
<1>6. CASE FailInstances(r) \/ FinalizeInstances(r)
  BY <1>6 DEF FailInstances, FinalizeInstances, Goto, CancelPending
<1>7. ASSUME NEW i \in Item, EnqueueInstance(r, i)
      PROVE  LeavesOthers(r)
  BY <1>7 DEF EnqueueInstance
<1>8. CASE EnqueueRefused(r) \/ EnqueueDone(r) \/ PollCancelled(r) \/ List(r) \/ Synced(r)
  BY <1>8 DEF EnqueueRefused, EnqueueDone, PollCancelled, List, Synced, Goto
<1>9. CASE NoteRefusal(r)
  BY <1>9 DEF NoteRefusal, Goto, Note
<1>10. ASSUME NEW v \in seen[r].verdicts, WriteVerdict(r, v)
       PROVE  LeavesOthers(r)
  BY <1>10 DEF WriteVerdict, Note
<1>11. CASE FinalizeStatus(r) \/ Exit(r)
  BY <1>11 DEF FinalizeStatus, Exit, Goto, CompareAndSet
<1>12. CASE StatusFails(r)
  BY <1>12 DEF StatusFails, Goto, SetStatus, CompareAndSet
<1> QED
  BY <1>1, <1>2, <1>3, <1>4, <1>5, <1>6, <1>7, <1>8, <1>9, <1>10, <1>11, <1>12
  DEF RunAction, RunStep

\* A cancel or a deletion touches its own batch, the places of no run, and the
\* context of the run that the map holds.
LEMMA CancelFrame ==
    ASSUME BatchTypeOK, NEW b \in Batch, CancelAction(b)
    PROVE  /\ Others(b) /\ rpc' = rpc /\ entry' = entry
           /\ \A q \in Run : ctxDone'[q] = ctxDone[q] \/ entry[b] = q
<1> USE BatchAssumption DEF BatchTypeOK, Others, Untouched
<1>1. CASE CancelRead(b) \/ CancelSet(b) \/ CancelFails(b)
  BY <1>1 DEF CancelRead, CancelSet, CancelFails, CancelStep, SetStatus, run
<1>2. CASE CancelSignal(b)
  BY <1>2 DEF CancelSignal, CancelStep
<1>3. CASE CancelInstances(b)
  BY <1>3 DEF CancelInstances, CancelStep, CancelPending, run
<1>4. CASE Delete(b)
  BY <1>4 DEF Delete, run
<1> QED
  BY <1>1, <1>2, <1>3, <1>4 DEF CancelAction, CancelHandler

\* The queue and its recovery touch nothing of the batches.
LEMMA QueueStepFrame ==
    ASSUME QueueStep \/ StartQueue
    PROVE  /\ UNCHANGED <<bstatus, inst, run, entry, cpc, lost>>
           /\ proc' = "up" => proc = "up"
  BY DEF QueueStep, ClaimRow, EndRow, OthersCancel, OthersSubmit, OthersRetry, StartQueue

LEMMA StepKinds ==
    ASSUME Next
    PROVE  \/ \E r \in Run : RunAction(r)
           \/ \E b \in Batch : CancelAction(b)
           \/ QueueStep \/ StartQueue \/ StartRouter \/ Crash
  BY DEF Next, Process, RunAction, CancelAction

EntrySound == \A b \in Batch, r \in Run : entry[b] = r => RunOf[r] = b /\ Launched(r)

LEMMA EntrySoundStep == BatchTypeOK /\ EntrySound /\ [Next]_vars => EntrySound'
<1> SUFFICES ASSUME BatchTypeOK, EntrySound, [Next]_vars
             PROVE  EntrySound'
  OBVIOUS
<1> USE BatchAssumption DEF BatchTypeOK, EntrySound, Launched
<1>1. ASSUME NEW r \in Run, RunAction(r)
      PROVE  EntrySound'
  <2>1. /\ \A q \in Run : q # r => rpc'[q] = rpc[q]
        /\ \A b \in Batch : b # RunOf[r] => entry'[b] = entry[b]
    BY <1>1, RunFrame DEF LeavesOthers, Others, Untouched
  <2>2. CASE Launch(r)
    BY <2>1, <2>2 DEF Launch, Goto, InGoroutine
  <2>3. CASE Exit(r)
    BY <2>1, <2>3 DEF Exit, Goto
  <2>4. CASE ~Launch(r) /\ ~Exit(r)
    <3>1. entry' = entry
      BY <1>1, <2>4 DEF RunAction, RunStep, ReadBatch, Guard, SetPreparing, Preview, CompletePreview,
           Prepare, StartRunning, FailBatch, FailInstances, EnqueueInstance, EnqueueRefused,
           NoteRefusal, EnqueueDone, PollCancelled, List, WriteVerdict, Synced, FinalizeInstances,
           FinalizeStatus, StatusFails, StatementFails
    <3>2. rpc[r] \in InGoroutine => rpc'[r] \in InGoroutine
      <4>1. CASE \/ ReadBatch(r) \/ Guard(r) \/ SetPreparing(r) \/ Preview(r) \/ CompletePreview(r)
                 \/ StatusFails(r) \/ StatementFails(r)
        BY <4>1 DEF ReadBatch, Guard, SetPreparing, Preview, CompletePreview, StatusFails,
             StatementFails, Goto, InGoroutine
      <4>2. CASE \/ (\E plan \in SUBSET Instance : Prepare(r, plan)) \/ FailBatch(r)
                 \/ (\E next \in {"enqueue", "failRunning"} : StartRunning(r, next))
                 \/ FailInstances(r) \/ (\E i \in Item : EnqueueInstance(r, i)) \/ EnqueueRefused(r)
        BY <4>2 DEF Prepare, FailBatch, StartRunning, FailInstances, EnqueueInstance,
             EnqueueRefused, Goto, InGoroutine
      <4>3. CASE \/ NoteRefusal(r) \/ EnqueueDone(r) \/ PollCancelled(r) \/ List(r) \/ Synced(r)
                 \/ (\E v \in seen[r].verdicts : WriteVerdict(r, v)) \/ FinalizeInstances(r)
                 \/ FinalizeStatus(r)
        BY <4>3 DEF NoteRefusal, EnqueueDone, PollCancelled, List, Synced, WriteVerdict,
             FinalizeInstances, FinalizeStatus, Goto, InGoroutine
      <4> QED
        BY <1>1, <2>4, <4>1, <4>2, <4>3 DEF RunAction, RunStep
    <3> QED
      BY <2>1, <3>1, <3>2
  <2> QED
    BY <2>2, <2>3, <2>4
<1>2. ASSUME NEW b \in Batch, CancelAction(b)
      PROVE  EntrySound'
  BY <1>2, CancelFrame
<1>3. CASE QueueStep \/ StartQueue \/ UNCHANGED vars
  BY <1>3, QueueStepFrame DEF run, vars
<1>4. CASE StartRouter
  BY <1>4 DEF StartRouter, run
<1>5. CASE Crash
  BY <1>5 DEF Crash
<1> QED
  BY <1>1, <1>2, <1>3, <1>4, <1>5, StepKinds

-----------------------------------------------------------------------------
(***************************************************************************)
(* The inductive invariant, of the batches that are requested once.        *)
(*                                                                         *)
(* The safety properties compare the status of a batch, which handlers,    *)
(* the goroutine and the clean-up at start all write, with where its run   *)
(* is.  They are not inductive: that a run may end leaves the batch safe   *)
(* only if the run's last statement found the status it expected or lost   *)
(* against a cancel.  So each stage of a run is given the statuses its     *)
(* batch can have, a cancelled context is tied to a cancelled batch, and   *)
(* pending instances are ruled out before they are planned and once they   *)
(* are finalized.  The other batches may be requested as often as they     *)
(* like: the frame keeps them away.                                        *)
(***************************************************************************)

InFlight == {"preparing", "running"}

Over == {"cancelled", "deleted"}

StatusOf(r) == bstatus[RunOf[r]]

\* The statuses a batch can have at each stage of its run.
StageAgrees(r) ==
    /\ rpc[r] \in {"start", "checked", "guarded"} => StatusOf(r) \in {"draft", "deleted"}
    /\ rpc[r] = "previewing" => StatusOf(r) \in {"previewing"} \cup Over
    /\ rpc[r] \in {"resolving", "prepare", "failPreparing", "prepared"} =>
           StatusOf(r) \in {"preparing"} \cup Over
    /\ rpc[r] \in {"failRunning", "enqueue", "refused", "poll", "sync", "finalize", "closing"} =>
           StatusOf(r) \in {"running"} \cup Over
    /\ rpc[r] \in {"failed", "exiting", "gone"} /\ proc = "up" =>
           StatusOf(r) \notin InFlight \/ RunOf[r] \in lost

\* A dry run has no goroutine, and only a dry run previews.
DryStage(r) ==
    IF RunOf[r] \in DryBatch THEN rpc[r] \in {"start", "checked", "previewing", "gone"}
                             ELSE rpc[r] # "previewing"

\* A cancelled context belongs to a batch that was cancelled.
ContextAgrees(r) == ctxDone[r] => RunOf[r] \notin DryBatch /\ StatusOf(r) \in Over

NonePending(r) == \A x \in Instance : inst[r][x] # "pending"

\* Instances are pending between their planning and their finalization only.
Settled(r) ==
    /\ rpc[r] \in {"start", "checked", "guarded", "previewing", "resolving", "prepare"} =>
           NonePending(r)
    /\ \/ StatusOf(r) = "completed"
       \/ rpc[r] = "closing" /\ StatusOf(r) = "running"
       => RunOf[r] \in lost \/ NonePending(r)

\* The map holds the goroutine, so that a cancel finds it.
Entered(r) == Launched(r) => entry[RunOf[r]] = r

RunAgrees(r) ==
    StageAgrees(r) /\ DryStage(r) /\ ContextAgrees(r) /\ Settled(r) /\ Entered(r)

\* A batch in flight has a run, and is no dry run.
Owned(b) == bstatus[b] \in InFlight => b \notin DryBatch /\ \E r \in Run : RunOf[r] = b

\* A cancel is of a batch that was started, and finds it over after its update.
CancelAgrees(b) ==
    /\ cpc[b] # "idle" => bstatus[b] # "draft"
    /\ cpc[b] = "set" /\ b \notin DryBatch => bstatus[b] \in Over

Agrees(b) ==
    /\ Owned(b) /\ CancelAgrees(b)
    /\ \A r \in Run : RunOf[r] = b => RunAgrees(r)

BatchInv ==
    /\ BatchTypeOK
    /\ EntrySound
    /\ \A b \in RunOnce : Agrees(b)

LEMMA InvInit == Init => BatchInv
<1> SUFFICES ASSUME Init
             PROVE  BatchInv
  OBVIOUS
<1> USE BatchAssumption DEF Init
<1>1. ASSUME NEW r \in Run
      PROVE  RunAgrees(r)
  BY DEF RunAgrees, StageAgrees, StatusOf, DryStage, ContextAgrees, Settled, NonePending,
         Entered, Launched, InGoroutine
<1>2. ASSUME NEW b \in Batch
      PROVE  Owned(b) /\ CancelAgrees(b)
  BY DEF Owned, InFlight, CancelAgrees
<1>3. EntrySound
  BY DEF EntrySound
<1> QED
  BY <1>1, <1>2, <1>3, BatchTypeInit DEF BatchInv, Agrees, RunOnce

\* What is left alone agrees as before.
LEMMA AgreesKept ==
    ASSUME NEW b \in Batch, Agrees(b), Untouched(b), lost \subseteq lost',
           proc' = "up" => proc = "up",
           \A q \in Run : RunOf[q] = b => ctxDone'[q] = ctxDone[q]
    PROVE  Agrees(b)'
<1>1. Owned(b)' /\ CancelAgrees(b)'
  BY DEF Agrees, Untouched, Owned, CancelAgrees
<1>2. ASSUME NEW r \in Run, RunOf[r] = b
      PROVE  RunAgrees(r)'
  <2>1. /\ rpc'[r] = rpc[r] /\ inst'[r] = inst[r] /\ ctxDone'[r] = ctxDone[r]
        /\ StatusOf(r)' = StatusOf(r) /\ entry'[RunOf[r]] = entry[RunOf[r]]
    BY <1>2 DEF Untouched, StatusOf
  <2>2. RunAgrees(r)
    BY <1>2 DEF Agrees
  <2>3. StageAgrees(r)'
    BY <2>1, <2>2 DEF RunAgrees, StageAgrees
  <2>4. DryStage(r)' /\ ContextAgrees(r)' /\ Entered(r)'
    BY <2>1, <2>2 DEF RunAgrees, DryStage, ContextAgrees, Entered, Launched
  <2>5. Settled(r)'
    BY <2>1, <2>2 DEF RunAgrees, Settled, NonePending
  <2> QED
    BY <2>3, <2>4, <2>5 DEF RunAgrees
<1> QED
  BY <1>1, <1>2 DEF Agrees

\* A step of the only run of a batch.
LEMMA OwnStep ==
    ASSUME BatchTypeOK, BatchTypeOK', NEW r \in Run, RunOf[r] \in RunOnce, Agrees(RunOf[r]),
           RunAction(r)
    PROVE  Agrees(RunOf[r])'
<1> DEFINE b == RunOf[r]
           Own == RunAgrees(r) /\ Owned(b) /\ CancelAgrees(b)
<1>0. BatchTypeOK /\ Own /\ b \in Batch /\ \A q \in Run : RunOf[q] = b => q = r
  BY BatchAssumption DEF Agrees, RunOnce
<1> SUFFICES Own'
  BY <1>0 DEF Agrees
<1> USE BatchAssumption DEF RunAgrees, StageAgrees, StatusOf, DryStage, ContextAgrees, Settled,
        NonePending, Entered, Launched, InGoroutine, Owned, InFlight, Over, CancelAgrees,
        BatchTypeOK
<1>1. CASE ReadBatch(r)
  BY <1>0, <1>1 DEF ReadBatch, Goto
<1>2. CASE Guard(r)
  BY <1>0, <1>2 DEF Guard, Goto
<1>3. CASE SetPreparing(r)
  BY <1>0, <1>3 DEF SetPreparing, Goto, SetStatus
<1>4. CASE Launch(r)
  BY <1>0, <1>4 DEF Launch, Goto
<1>5. CASE Preview(r)
  BY <1>0, <1>5 DEF Preview, Goto, SetStatus
<1>6. CASE CompletePreview(r)
  BY <1>0, <1>6 DEF CompletePreview, Goto, SetStatus
<1>7. ASSUME NEW plan \in SUBSET Instance, Prepare(r, plan)
      PROVE  Own'
  BY <1>0, <1>7 DEF Prepare, Goto, Reaches
<1>8. ASSUME NEW next \in {"enqueue", "failRunning"}, StartRunning(r, next)
      PROVE  Own'
  BY <1>0, <1>8 DEF StartRunning, Goto, CompareAndSet, Reaches
<1>9. CASE FailBatch(r)
  BY <1>0, <1>9 DEF FailBatch, Goto, CompareAndSet, Reaches
<1>10. CASE FailInstances(r)
  BY <1>0, <1>10 DEF FailInstances, Goto, CancelPending, Reaches
<1>11. ASSUME NEW i \in Item, EnqueueInstance(r, i)
       PROVE  Own'
  BY <1>0, <1>11 DEF EnqueueInstance
<1>12. CASE EnqueueRefused(r)
  BY <1>0, <1>12 DEF EnqueueRefused, Goto
<1>13. CASE NoteRefusal(r)
  BY <1>0, <1>13 DEF NoteRefusal, Goto, Note
<1>14. CASE EnqueueDone(r)
  BY <1>0, <1>14 DEF EnqueueDone, Goto
<1>15. CASE PollCancelled(r)
  BY <1>0, <1>15 DEF PollCancelled, Goto
<1>16. CASE List(r)
  BY <1>0, <1>16 DEF List, Goto
<1>17. ASSUME NEW v \in seen[r].verdicts, WriteVerdict(r, v)
       PROVE  Own'
  BY <1>0, <1>17 DEF WriteVerdict, Note
<1>18. CASE Synced(r)
  BY <1>0, <1>18 DEF Synced, Goto
<1>19. CASE FinalizeInstances(r)
  BY <1>0, <1>19 DEF FinalizeInstances, Goto, CancelPending, Reaches
<1>20. CASE FinalizeStatus(r)
  BY <1>0, <1>20 DEF FinalizeStatus, Goto, CompareAndSet, Reaches
<1>21. CASE Exit(r)
  BY <1>0, <1>21 DEF Exit, Goto
<1>22. CASE StatusFails(r)
  BY <1>0, <1>22 DEF StatusFails, Goto, SetStatus, CompareAndSet, Reaches
<1>23. CASE StatementFails(r)
  BY <1>0, <1>23 DEF StatementFails, Goto
<1>24. CASE \/ ReadBatch(r) \/ StatusFails(r) \/ StatementFails(r)
            \/ Guard(r) \/ SetPreparing(r) \/ Launch(r) \/ Preview(r) \/ CompletePreview(r)
            \/ \E plan \in SUBSET Instance : Prepare(r, plan)
            \/ \E next \in {"enqueue", "failRunning"} : StartRunning(r, next)
  BY <1>24, <1>1, <1>2, <1>3, <1>4, <1>5, <1>6, <1>7, <1>8, <1>22, <1>23
<1>25. CASE \/ FailBatch(r) \/ FailInstances(r) \/ EnqueueRefused(r) \/ NoteRefusal(r)
            \/ EnqueueDone(r) \/ PollCancelled(r) \/ \E i \in Item : EnqueueInstance(r, i)
  BY <1>25, <1>9, <1>10, <1>11, <1>12, <1>13, <1>14, <1>15
<1>26. CASE \/ List(r) \/ Synced(r) \/ FinalizeInstances(r) \/ FinalizeStatus(r) \/ Exit(r)
            \/ \E v \in seen[r].verdicts : WriteVerdict(r, v)
  BY <1>26, <1>16, <1>17, <1>18, <1>19, <1>20, <1>21
<1> QED
  BY <1>24, <1>25, <1>26 DEF RunAction, RunStep

\* A step of its cancel, or its deletion.
LEMMA CancelStepAgrees ==
    ASSUME BatchTypeOK, BatchTypeOK', EntrySound, NEW b \in Batch, Agrees(b), CancelAction(b)
    PROVE  Agrees(b)'
<1>1. /\ rpc' = rpc /\ entry' = entry /\ proc' = proc /\ lost \subseteq lost'
      /\ Owned(b) /\ CancelAgrees(b)
  BY CancelFrame DEF Others, Agrees
<1> USE BatchAssumption DEF BatchTypeOK, Owned, InFlight, Over, CancelAgrees
<1>2. Owned(b)' /\ CancelAgrees(b)'
  <2>1. CASE CancelRead(b) \/ CancelFails(b)
    BY <1>1, <2>1 DEF CancelRead, CancelFails, CancelStep, run
  <2>2. CASE CancelSet(b)
    BY <1>1, <2>2 DEF CancelSet, CancelStep, SetStatus
  <2>3. CASE CancelSignal(b) \/ CancelInstances(b)
    BY <1>1, <2>3 DEF CancelSignal, CancelInstances, CancelStep
  <2>4. CASE Delete(b)
    BY <1>1, <2>4 DEF Delete
  <2> QED
    BY <2>1, <2>2, <2>3, <2>4 DEF CancelAction, CancelHandler
<1>3. ASSUME NEW r \in Run, RunOf[r] = b
      PROVE  RunAgrees(r)'
  <2>0. RunAgrees(r)
    BY <1>3 DEF Agrees
  <2>1. /\ bstatus'[b] = bstatus[b] \/ bstatus'[b] \in Over
        /\ bstatus[b] \in {"draft", "deleted"} => bstatus'[b] \in {"draft", "deleted"}
    <3>1. CASE CancelRead(b) \/ CancelFails(b) \/ CancelSignal(b) \/ CancelInstances(b)
      BY <3>1 DEF CancelRead, CancelFails, CancelSignal, CancelInstances
    <3>2. CASE CancelSet(b)
      BY <1>1, <3>2 DEF CancelSet, CancelStep, SetStatus
    <3>3. CASE Delete(b)
      BY <3>3 DEF Delete
    <3> QED
      BY <3>1, <3>2, <3>3 DEF CancelAction, CancelHandler
  <2>2. bstatus[b] \in Over => bstatus'[b] \in Over
    BY <2>1
  <2>3. StageAgrees(r)'
    BY <1>1, <1>3, <2>0, <2>1, <2>2 DEF RunAgrees, StageAgrees, StatusOf
  <2>4. DryStage(r)' /\ Entered(r)'
    BY <1>1, <2>0 DEF RunAgrees, DryStage, Entered, Launched
  <2>5. ContextAgrees(r)'
    <3>1. CASE CancelSignal(b)
      <4>1. /\ ctxDone'[r] = (ctxDone[r] \/ entry[b] = r) /\ bstatus' = bstatus
            /\ cpc[b] = "set"
        BY <3>1 DEF CancelSignal, CancelStep
      <4>2. entry[b] = r => b \notin DryBatch
        BY <1>3, <2>0 DEF EntrySound, RunAgrees, DryStage, Launched, InGoroutine
      <4> QED
        BY <1>1, <1>3, <2>0, <4>1, <4>2 DEF RunAgrees, ContextAgrees, StatusOf
    <3>2. CASE ~CancelSignal(b)
      <4>1. ctxDone' = ctxDone
        BY <3>2 DEF CancelAction, CancelHandler, CancelRead, CancelFails, CancelSet,
           CancelInstances, Delete, run
      <4> QED
        BY <1>3, <2>0, <2>2, <4>1 DEF RunAgrees, ContextAgrees, StatusOf
    <3> QED
      BY <3>1, <3>2
  <2>6. Settled(r)'
    <3>1. NonePending(r) => NonePending(r)'
      BY <1>3 DEF CancelAction, CancelHandler, CancelRead, CancelFails, CancelSet, CancelSignal,
         CancelInstances, Delete, CancelPending, NonePending, run
    <3>2. bstatus'[b] \in InFlight \cup {"completed"} => bstatus'[b] = bstatus[b]
      BY <2>1
    <3> QED
      BY <1>1, <1>3, <2>0, <3>1, <3>2 DEF RunAgrees, Settled, StatusOf
  <2> QED
    BY <2>3, <2>4, <2>5, <2>6 DEF RunAgrees
<1> QED
  BY <1>2, <1>3 DEF Agrees

LEMMA StartRouterAgrees ==
    ASSUME BatchTypeOK, NEW b \in Batch, Agrees(b), StartRouter
    PROVE  Agrees(b)'
<1>1. /\ proc' = "up" /\ UNCHANGED <<inst, rpc, ctxDone, entry, cpc>>
      /\ bstatus[b] \in InFlight =>
             bstatus'[b] = "cancelled" \/ (bstatus'[b] = bstatus[b] /\ b \in lost')
      /\ bstatus[b] \notin InFlight => bstatus'[b] = bstatus[b] /\ (b \in lost => b \in lost')
  BY DEF BatchTypeOK, StartRouter, CancelStale, InFlight, run
<1>2. Owned(b)' /\ CancelAgrees(b)'
  BY <1>1 DEF Agrees, Owned, CancelAgrees, InFlight, Over
<1>3. ASSUME NEW r \in Run, RunOf[r] = b
      PROVE  RunAgrees(r)'
  <2>1. RunAgrees(r)
    BY <1>3 DEF Agrees
  <2>2. StageAgrees(r)'
    BY <1>1, <1>3, <2>1 DEF RunAgrees, StageAgrees, StatusOf, InFlight, Over
  <2>3. DryStage(r)' /\ Entered(r)' /\ ContextAgrees(r)'
    BY <1>1, <1>3, <2>1
    DEF RunAgrees, DryStage, Entered, Launched, ContextAgrees, StatusOf, InFlight, Over
  <2>4. Settled(r)'
    BY <1>1, <1>3, <2>1 DEF RunAgrees, Settled, NonePending, StatusOf, InFlight
  <2> QED
    BY <2>2, <2>3, <2>4 DEF RunAgrees
<1> QED
  BY <1>2, <1>3 DEF Agrees

LEMMA CrashAgrees ==
    ASSUME BatchTypeOK, NEW b \in Batch, Agrees(b), Crash
    PROVE  Agrees(b)'
<1>1. /\ proc' = "down" /\ UNCHANGED <<bstatus, inst, lost>>
      /\ cpc'[b] = "idle"
  BY DEF Crash
<1>2. Owned(b)' /\ CancelAgrees(b)'
  BY <1>1 DEF Agrees, Owned, CancelAgrees
<1>3. ASSUME NEW r \in Run, RunOf[r] = b
      PROVE  RunAgrees(r)'
  <2>1. RunAgrees(r)
    BY <1>3 DEF Agrees
  <2>2. ~ctxDone'[r] /\ rpc'[r] = IF rpc[r] = "start" THEN "start" ELSE "gone"
    BY DEF Crash
  <2>3. StageAgrees(r)' /\ DryStage(r)' /\ ContextAgrees(r)' /\ Entered(r)'
    BY <1>1, <1>3, <2>1, <2>2
    DEF RunAgrees, StageAgrees, DryStage, ContextAgrees, Entered, Launched, InGoroutine, StatusOf
  <2>4. Settled(r)'
    BY <1>1, <1>3, <2>1, <2>2 DEF RunAgrees, Settled, NonePending, StatusOf
  <2> QED
    BY <2>3, <2>4 DEF RunAgrees
<1> QED
  BY <1>2, <1>3 DEF Agrees

LEMMA InvStep == BatchInv /\ [Next]_vars => BatchInv'
<1> SUFFICES ASSUME BatchInv, [Next]_vars, NEW b \in RunOnce
             PROVE  Agrees(b)'
  BY BatchTypeStep, EntrySoundStep DEF BatchInv, RunOnce
<1>0. BatchTypeOK /\ BatchTypeOK' /\ EntrySound /\ Agrees(b) /\ b \in Batch
  BY BatchTypeStep DEF BatchInv, RunOnce
<1>1. ASSUME NEW r \in Run, RunAction(r)
      PROVE  Agrees(b)'
  <2>1. CASE RunOf[r] = b
    BY <1>0, <1>1, <2>1, OwnStep
  <2>2. CASE RunOf[r] # b
    <3>1. Untouched(b) /\ lost \subseteq lost' /\ proc' = proc /\ ctxDone' = ctxDone
      BY <1>0, <1>1, <2>2, RunFrame DEF LeavesOthers, Others
    <3> QED
      BY <1>0, <3>1, AgreesKept
  <2> QED
    BY <2>1, <2>2
<1>2. ASSUME NEW c \in Batch, CancelAction(c)
      PROVE  Agrees(b)'
  <2>1. CASE c = b
    BY <1>0, <1>2, <2>1, CancelStepAgrees
  <2>2. CASE c # b
    <3>1. /\ Untouched(b) /\ lost \subseteq lost' /\ proc' = proc
          /\ \A q \in Run : ctxDone'[q] = ctxDone[q] \/ entry[c] = q
      BY <1>0, <1>2, <2>2, CancelFrame DEF Others
    <3>2. \A q \in Run : RunOf[q] = b => ctxDone'[q] = ctxDone[q]
      BY <1>0, <2>2, <3>1 DEF EntrySound
    <3> QED
      BY <1>0, <3>1, <3>2, AgreesKept
  <2> QED
    BY <2>1, <2>2
<1>3. CASE QueueStep \/ StartQueue \/ UNCHANGED vars
  <2>1. /\ Untouched(b) /\ lost' = lost /\ ctxDone' = ctxDone
        /\ proc' = "up" => proc = "up"
    BY <1>3, QueueStepFrame DEF Untouched, run, vars
  <2> QED
    BY <1>0, <2>1, AgreesKept
<1>4. CASE StartRouter
  BY <1>0, <1>4, StartRouterAgrees
<1>5. CASE Crash
  BY <1>0, <1>5, CrashAgrees
<1> QED
  BY <1>1, <1>2, <1>3, <1>4, <1>5, StepKinds

-----------------------------------------------------------------------------
(* The properties *)

THEOREM BatchInvariant == Spec => []BatchInv
  BY InvInit, InvStep, PTL DEF Spec

\* Whatever else happens, a batch marked preparing or running that was requested
\* once has somebody to move it on, or the datastore failed a statement of it.
THEOREM BatchesNotStranded == Spec => []NoStrandedBatch
<1>1. ASSUME BatchInv, proc = "up", NEW b \in RunOnce, bstatus[b] \in InFlight, b \notin lost
      PROVE  \E r \in Run : RunOf[r] = b /\ (rpc[r] = "resolving" \/ Launched(r))
  <2>1. PICK r \in Run : RunOf[r] = b
    BY <1>1 DEF BatchInv, Agrees, Owned
  <2>2. b \notin DryBatch /\ StageAgrees(r) /\ DryStage(r)
    BY <1>1, <2>1 DEF BatchInv, Agrees, Owned, RunAgrees
  <2>3. rpc[r] \in {"start", "gone"} \cup InHandler \cup InGoroutine
    BY <1>1 DEF BatchInv, BatchTypeOK
  <2>4. rpc[r] \notin {"start", "checked", "guarded", "previewing", "gone"}
    BY <1>1, <2>1, <2>2 DEF StageAgrees, StatusOf, DryStage, InFlight
  <2>5. rpc[r] = "resolving" \/ Launched(r)
    BY <2>3, <2>4 DEF Launched, InHandler
  <2> QED
    BY <2>1, <2>5
<1>2. BatchInv => NoStrandedBatch
  BY <1>1 DEF NoStrandedBatch, InFlight
<1> QED
  BY <1>2, BatchInvariant, PTL

\* The map of running batches holds live goroutines only, and those of batches
\* requested once are all there.
THEOREM MapHoldsGoroutines == Spec => []MapIsExact
<1>1. BatchInv => MapIsExact
  BY DEF BatchInv, EntrySound, Agrees, RunAgrees, Entered, MapIsExact
<1> QED
  BY <1>1, BatchInvariant, PTL

\* A completed batch leaves no instance pending, unless a statement was lost.
THEOREM CompletedBatchesSettled == Spec => []CompletedIsSettled
<1>1. BatchInv => CompletedIsSettled
  BY DEF BatchInv, Agrees, RunAgrees, Settled, StatusOf, NonePending, CompletedIsSettled
<1> QED
  BY <1>1, BatchInvariant, PTL

-----------------------------------------------------------------------------
(***************************************************************************)
(* The lifecycle.  A step of a run or of a cancel changes one status, and  *)
(* the stage of a run says which; the clean-up at start changes many, and  *)
(* a crash ends cancels only.                                              *)
(***************************************************************************)

LEMMA LifecycleBegins == Init => Lifecycle!LifecycleInit
<1> SUFFICES ASSUME Init
             PROVE  Lifecycle!LifecycleInit
  OBVIOUS
<1>1. [b \in RunOnce |-> bstatus[b]] = [b \in RunOnce |-> "draft"]
  BY DEF Init, RunOnce
<1>2. {b \in RunOnce : cpc[b] = "read"} = {}
  BY DEF Init, RunOnce
<1> QED
  BY <1>1, <1>2 DEF Lifecycle!LifecycleInit

\* One status changes, no cancel does.
LEMMA BecomesOf ==
    ASSUME NEW b \in RunOnce, \A c \in Batch : c # b => bstatus'[c] = bstatus[c], cpc' = cpc
    PROVE  /\ [c \in RunOnce |-> bstatus[c]]'
                = [[c \in RunOnce |-> bstatus[c]] EXCEPT ![b] = bstatus'[b]]
           /\ UNCHANGED {c \in RunOnce : cpc[c] = "read"}
<1>1. \A c \in RunOnce : c # b => bstatus'[c] = bstatus[c]
  BY DEF RunOnce
<1> QED
  BY <1>1

\* How the only run of a batch moves its status.
LEMMA RunMoves ==
    ASSUME BatchTypeOK, NEW r \in Run, RunAgrees(r), RunAction(r)
    PROVE  LET b == RunOf[r]
           IN  \/ bstatus'[b] = bstatus[b]
               \/ /\ bstatus[b] = "draft"
                  /\ bstatus'[b] = IF b \in DryBatch THEN "previewing" ELSE "preparing"
               \/ bstatus[b] = "preparing" /\ bstatus'[b] = "running"
               \/ bstatus[b] = "running" /\ bstatus'[b] = "completed"
               \/ bstatus[b] \in {"preparing", "running"} /\ bstatus'[b] = "failed"
               \/ /\ b \in DryBatch /\ bstatus[b] \in {"previewing", "cancelled"}
                  /\ bstatus'[b] = "completed"
<1> USE BatchAssumption DEF BatchTypeOK, RunAgrees, StageAgrees, StatusOf, DryStage, Over, Goto
<1>1. CASE SetPreparing(r)
  BY <1>1 DEF SetPreparing, SetStatus
<1>2. CASE Preview(r) \/ CompletePreview(r)
  BY <1>2 DEF Preview, CompletePreview, SetStatus
<1>3. ASSUME NEW next \in {"enqueue", "failRunning"}, StartRunning(r, next)
      PROVE  \/ bstatus'[RunOf[r]] = bstatus[RunOf[r]]
             \/ bstatus[RunOf[r]] = "preparing" /\ bstatus'[RunOf[r]] = "running"
  BY <1>3 DEF StartRunning, CompareAndSet
<1>4. CASE FailBatch(r) \/ FinalizeStatus(r)
  BY <1>4 DEF FailBatch, FinalizeStatus, CompareAndSet
<1>5. CASE StatusFails(r)
  BY <1>5 DEF StatusFails, SetStatus, CompareAndSet
<1>6. CASE \/ ReadBatch(r) \/ Guard(r) \/ Launch(r) \/ StatementFails(r)
           \/ \E plan \in SUBSET Instance : Prepare(r, plan)
           \/ FailInstances(r) \/ \E i \in Item : EnqueueInstance(r, i)
           \/ EnqueueRefused(r) \/ NoteRefusal(r) \/ EnqueueDone(r) \/ PollCancelled(r)
           \/ List(r) \/ (\E v \in seen[r].verdicts : WriteVerdict(r, v)) \/ Synced(r)
           \/ FinalizeInstances(r) \/ Exit(r)
  BY <1>6 DEF ReadBatch, Guard, Launch, StatementFails, Prepare, FailInstances,
       EnqueueInstance, EnqueueRefused, NoteRefusal, EnqueueDone, PollCancelled, List,
       WriteVerdict, Synced, FinalizeInstances, Exit
<1> QED
  BY <1>1, <1>2, <1>3, <1>4, <1>5, <1>6 DEF RunAction, RunStep

LEMMA LifecycleRunStep ==
    ASSUME BatchInv, NEW r \in Run, RunAction(r)
    PROVE  [Lifecycle!LifecycleNext]_(Lifecycle!lifecycleVars)
<1> DEFINE b == RunOf[r]
<1>1. /\ b \in Batch /\ cpc' = cpc
      /\ \A c \in Batch : c # b => bstatus'[c] = bstatus[c]
  BY RunFrame, BatchAssumption DEF BatchInv, LeavesOthers, Others, Untouched
<1>2. CASE b \notin RunOnce
  <2>1. \A c \in RunOnce : bstatus'[c] = bstatus[c]
    BY <1>1, <1>2 DEF RunOnce
  <2> QED
    BY <1>1, <2>1 DEF Lifecycle!lifecycleVars
<1>3. CASE b \in RunOnce
  <2> DEFINE state == [c \in RunOnce |-> bstatus[c]]
             asked == {c \in RunOnce : cpc[c] = "read"}
  <2>1. state' = [state EXCEPT ![b] = bstatus'[b]] /\ asked' = asked
    BY <1>1, <1>3, BecomesOf
  <2>2. RunAgrees(r)
    BY <1>3 DEF BatchInv, Agrees
  <2> DEFINE from == bstatus[b]
             to == bstatus'[b]
  <2>3. \/ to = from
        \/ from = "draft" /\ to = IF b \in DryBatch THEN "previewing" ELSE "preparing"
        \/ from = "preparing" /\ to = "running"
        \/ from = "running" /\ to = "completed"
        \/ from \in {"preparing", "running"} /\ to = "failed"
        \/ b \in DryBatch /\ from \in {"previewing", "cancelled"} /\ to = "completed"
    BY <2>2, RunMoves DEF BatchInv
  <2>4. CASE to = from
    <3>1. \A c \in RunOnce : bstatus'[c] = bstatus[c]
      BY <1>1, <2>4 DEF RunOnce
    <3> QED
      BY <1>1, <3>1 DEF Lifecycle!lifecycleVars
  <2>5. CASE to # from
    <3>1. state[b] = from
      BY <1>3
    <3>2. state' = [state EXCEPT ![b] = to] /\ asked' = asked
      BY <2>1
    <3> HIDE DEF from, to, b
    <3>3. \/ Lifecycle!Start(b) \/ Lifecycle!Proceed(b) \/ Lifecycle!Complete(b)
          \/ Lifecycle!Fail(b) \/ Lifecycle!Previewed(b)
      BY <2>3, <2>5, <3>1, <3>2 DEF Lifecycle!Start, Lifecycle!Proceed, Lifecycle!Complete,
         Lifecycle!Fail, Lifecycle!Previewed, Lifecycle!Become
    <3> QED
      BY <1>3, <3>3 DEF Lifecycle!LifecycleNext
  <2> QED
    BY <2>4, <2>5
<1> QED
  BY <1>2, <1>3

LEMMA LifecycleCancelStep ==
    ASSUME BatchInv, NEW b \in Batch, CancelAction(b)
    PROVE  [Lifecycle!LifecycleNext]_(Lifecycle!lifecycleVars)
<1> DEFINE state == [c \in RunOnce |-> bstatus[c]]
           asked == {c \in RunOnce : cpc[c] = "read"}
<1>0. BatchTypeOK
  BY DEF BatchInv
<1>1. \A c \in Batch : c # b => bstatus'[c] = bstatus[c] /\ cpc'[c] = cpc[c]
  BY <1>0, CancelFrame DEF Others, Untouched
<1>2. \A c \in RunOnce : c # b => bstatus'[c] = bstatus[c] /\ cpc'[c] = cpc[c]
  BY <1>1 DEF RunOnce
<1>3. CASE b \notin RunOnce
  BY <1>2, <1>3 DEF Lifecycle!lifecycleVars
<1>4. CASE b \in RunOnce /\ CancelRead(b)
  <2>1. /\ bstatus' = bstatus /\ cpc'[b] = "read"
        /\ bstatus[b] \in {"running", "previewing", "preparing"}
    BY <1>0, <1>4 DEF CancelRead, CancelStep, BatchTypeOK
  <2>2. asked' = asked \cup {b} /\ state' = state /\ state[b] = bstatus[b]
    BY <1>2, <1>4, <2>1
  <2>3. Lifecycle!Ask(b)
    BY <2>1, <2>2 DEF Lifecycle!Ask
  <2> QED
    BY <1>4, <2>3 DEF Lifecycle!LifecycleNext
<1>5. CASE b \in RunOnce /\ CancelSet(b)
  <2>1. /\ cpc[b] = "read" /\ cpc'[b] # "read"
        /\ bstatus'[b] = IF bstatus[b] = "deleted" THEN "deleted" ELSE "cancelled"
    BY <1>0, <1>5 DEF CancelSet, CancelStep, SetStatus, BatchTypeOK
  <2>2. asked' = asked \ {b} /\ b \in asked
    BY <1>2, <1>5, <2>1
  <2>3. state' = [state EXCEPT ![b] = IF @ = "deleted" THEN @ ELSE "cancelled"]
    BY <1>2, <1>5, <2>1
  <2>4. Lifecycle!Cancel(b)
    BY <2>2, <2>3 DEF Lifecycle!Cancel
  <2> QED
    BY <1>5, <2>4 DEF Lifecycle!LifecycleNext
<1>6. CASE b \in RunOnce /\ (CancelSignal(b) \/ CancelInstances(b) \/ CancelFails(b))
  <2>1. bstatus' = bstatus /\ cpc'[b] \in {"idle", "signalled"}
    BY <1>0, <1>6 DEF CancelSignal, CancelInstances, CancelFails, CancelStep, BatchTypeOK
  <2>2. asked' = asked \ {b} /\ state' = state
    BY <1>2, <1>6, <2>1
  <2>3. Lifecycle!Abandon({b})
    BY <2>2 DEF Lifecycle!Abandon
  <2> QED
    BY <1>6, <2>3 DEF Lifecycle!LifecycleNext
<1>7. CASE b \in RunOnce /\ Delete(b)
  <2>1. /\ bstatus[b] \in {"draft", "completed", "cancelled", "failed"}
        /\ bstatus'[b] = "deleted" /\ cpc' = cpc
    BY <1>0, <1>7 DEF Delete, BatchTypeOK
  <2>2. state' = [state EXCEPT ![b] = bstatus'[b]] /\ asked' = asked
    BY <1>1, <1>7, <2>1, BecomesOf
  <2>3. state[b] = bstatus[b]
    BY <1>7
  <2>4. Lifecycle!Delete(b)
    BY <2>1, <2>2, <2>3 DEF Lifecycle!Delete, Lifecycle!Become
  <2> QED
    BY <1>7, <2>4 DEF Lifecycle!LifecycleNext
<1> QED
  BY <1>3, <1>4, <1>5, <1>6, <1>7 DEF CancelAction, CancelHandler

LEMMA LifecycleProcessStep ==
    ASSUME BatchTypeOK, StartRouter \/ Crash
    PROVE  [Lifecycle!LifecycleNext]_(Lifecycle!lifecycleVars)
<1> DEFINE state == [c \in RunOnce |-> bstatus[c]]
           asked == {c \in RunOnce : cpc[c] = "read"}
<1>1. CASE StartRouter
  <2>1. cpc' = cpc
    BY <1>1 DEF StartRouter
  <2>2. CASE bstatus' = bstatus
    BY <2>1, <2>2 DEF Lifecycle!lifecycleVars
  <2>3. CASE bstatus' # bstatus
    <3>1. \A c \in Batch :
             bstatus'[c] = IF bstatus[c] \in {"preparing", "running"} THEN "cancelled" ELSE bstatus[c]
      BY <1>1, <2>3 DEF StartRouter, CancelStale
    <3>2. state' = [c \in RunOnce |->
                      IF state[c] \in {"preparing", "running"} THEN "cancelled" ELSE state[c]]
      BY <3>1 DEF RunOnce
    <3>3. Lifecycle!CancelStale
      BY <2>1, <3>2 DEF Lifecycle!CancelStale
    <3> QED
      BY <3>3 DEF Lifecycle!LifecycleNext
  <2> QED
    BY <2>2, <2>3
<1>2. CASE Crash
  <2>1. bstatus' = bstatus /\ \A c \in Batch : cpc'[c] = "idle"
    BY <1>2 DEF Crash
  <2>2. asked' = asked \ RunOnce /\ state' = state
    BY <2>1 DEF RunOnce
  <2>3. Lifecycle!Abandon(RunOnce)
    BY <2>2 DEF Lifecycle!Abandon
  <2> QED
    BY <2>3 DEF Lifecycle!LifecycleNext
<1> QED
  BY <1>1, <1>2

\* The status of a batch that is requested once keeps to the lifecycle, whatever
\* handlers, goroutine, failing statements, crashes and restarts do to it, and
\* however often other batches are requested.
THEOREM BatchesImplementLifecycle == Spec => KeepsLifecycle
<1>1. ASSUME BatchInv, [Next]_vars
      PROVE  [Lifecycle!LifecycleNext]_(Lifecycle!lifecycleVars)
  <2>1. CASE QueueStep \/ StartQueue \/ UNCHANGED vars
    <3>1. bstatus' = bstatus /\ cpc' = cpc
      BY <2>1, QueueStepFrame DEF vars
    <3> QED
      BY <3>1 DEF Lifecycle!lifecycleVars
  <2> QED
    BY <1>1, <2>1, StepKinds, LifecycleRunStep, LifecycleCancelStep, LifecycleProcessStep
    DEF BatchInv
<1> QED
  BY <1>1, LifecycleBegins, BatchInvariant, PTL DEF Spec, KeepsLifecycle, Lifecycle!LifecycleSpec

-----------------------------------------------------------------------------
(***************************************************************************)
(* A passed instance did pass.                                             *)
(*                                                                         *)
(* Between the listing and the writes of its verdicts anything may happen  *)
(* to the queue and to the batch.  What saves the verdicts is that a       *)
(* completed row stays completed and keeps its batch, and that a batch     *)
(* that is deleted takes its instances with it; so the verdicts still to   *)
(* be written carry their rows along until they are.                       *)
(***************************************************************************)

Passed(r, x) == \E i \in RowsOf(RunOf[r]) : key[i] = x /\ status[i] = "completed"

VerdictsBacked(r) ==
    /\ rpc[r] # "sync" => seen[r].verdicts = {}
    /\ \A x \in Instance :
           \/ inst[r][x] = "passed"
           \/ inst[r][x] # "none" /\ <<x, "passed">> \in seen[r].verdicts
           => Passed(r, x)

\* A listing says "passed" of an instance only if it shows a completed row.
LEMMA ListedPassed ==
    ASSUME TypeOK, NEW r \in Run, NEW x, <<x, "passed">> \in VerdictsOf(r)
    PROVE  Passed(r, x)
<1>1. PICK i \in Listed(RunOf[r]) : key[i] = x /\ Verdict(status[i]) = "passed"
                                    /\ status[i] \in Queue!Ended
  BY DEF VerdictsOf
<1>2. i \in RowsOf(RunOf[r])
  BY DEF Listed
<1>3. status[i] = "completed"
  BY <1>1 DEF Verdict, Queue!Ended
<1> QED
  BY <1>1, <1>2, <1>3 DEF Passed

\* A completed row stays with its batch, or the batch's instances are gone.
LEMMA PassedKept ==
    ASSUME TypeOK, [Next]_vars, NEW r \in Run, NEW x \in Instance, Passed(r, x)
    PROVE  Passed(r, x)' \/ inst'[r][x] = "none"
<1>0. PICK i \in Item : owner[i] = RunOf[r] /\ key[i] = x /\ status[i] = "completed"
  BY DEF Passed, RowsOf
<1>1. RunOf[r] \in Batch /\ RunOf[r] # NoBatch
  BY BatchAssumption
<1> USE <1>0, <1>1 DEF TypeOK, QueueTypeOK, Queue!Become
<1>2. SUFFICES \/ owner'[i] = RunOf[r] /\ key'[i] = x /\ status'[i] = "completed"
               \/ inst'[r][x] = "none"
  BY DEF Passed, RowsOf
<1>3. ASSUME NEW q \in Run, NEW j \in Item, EnqueueInstance(q, j)
      PROVE  owner'[i] = RunOf[r] /\ key'[i] = x /\ status'[i] = "completed"
  BY <1>3 DEF EnqueueInstance, Queue!Submit
<1>4. ASSUME NEW b \in Batch, Delete(b)
      PROVE  \/ owner'[i] = RunOf[r] /\ key'[i] = x /\ status'[i] = "completed"
             \/ inst'[r][x] = "none"
  BY <1>4 DEF Delete
<1>5. ASSUME NEW j \in Item, ClaimRow(j) \/ EndRow(j) \/ OthersCancel(j)
      PROVE  owner'[i] = RunOf[r] /\ key'[i] = x /\ status'[i] = "completed"
  BY <1>5 DEF ClaimRow, EndRow, OthersCancel, Queue!Begin, Queue!Finish, Queue!Withdraw, Queue!Open
<1>6. ASSUME NEW j \in Item, NEW y \in Instance, OthersSubmit(j, y)
      PROVE  owner'[i] = RunOf[r] /\ key'[i] = x /\ status'[i] = "completed"
  BY <1>6 DEF OthersSubmit, Queue!Submit
<1>7. ASSUME NEW j \in Item, NEW old \in Item, OthersRetry(j, old)
      PROVE  owner'[i] = RunOf[r] /\ key'[i] = x /\ status'[i] = "completed"
  BY <1>7 DEF OthersRetry, Queue!Submit
<1>8. CASE StartQueue
  BY <1>8 DEF StartQueue, Queue!Recover
<1>9. CASE UNCHANGED queue
  BY <1>9 DEF queue
<1> QED
  BY <1>3, <1>4, <1>5, <1>6, <1>7, <1>8, <1>9, QueueFrame

\* What a step may do to the verdicts of a run: it lists them anew, or it writes
\* one it has and invents none.
VerdictStep(q) ==
    /\ rpc'[q] # "sync" => seen'[q].verdicts = {}
    /\ \/ seen'[q].verdicts \subseteq seen[q].verdicts
       \/ seen'[q].verdicts = VerdictsOf(q) /\ inst' = inst
    /\ \A x \in Instance :
           /\ inst'[q][x] = "passed" =>
                  \/ inst[q][x] = "passed"
                  \/ inst[q][x] # "none" /\ <<x, "passed">> \in seen[q].verdicts
           /\ inst'[q][x] # "none" => inst[q][x] # "none" \/ seen'[q].verdicts = {}

LEMMA VerdictSteps ==
    ASSUME TypeOK, \A q \in Run : VerdictsBacked(q), [Next]_vars, NEW q \in Run
    PROVE  VerdictStep(q)
<1> DEFINE Still == inst' = inst /\ seen' = seen /\ (rpc[q] = "sync" => rpc'[q] = "sync")
<1>0. (rpc[q] # "sync" => seen[q].verdicts = {}) /\ (Still => VerdictStep(q))
  BY DEF VerdictsBacked, VerdictStep
<1> USE <1>0, BatchAssumption DEF TypeOK, BatchTypeOK
<1>1. ASSUME NEW r \in Run,
             \/ ReadBatch(r) \/ Guard(r) \/ SetPreparing(r) \/ Launch(r) \/ Preview(r)
             \/ CompletePreview(r)
             \/ \E next \in {"enqueue", "failRunning"} : StartRunning(r, next)
      PROVE  Still
  BY <1>1 DEF ReadBatch, Guard, SetPreparing, Launch, Preview, CompletePreview, StartRunning, Goto
<1>2. ASSUME NEW r \in Run,
             \/ FailBatch(r) \/ EnqueueRefused(r) \/ EnqueueDone(r) \/ PollCancelled(r)
             \/ FinalizeStatus(r) \/ Exit(r) \/ StatusFails(r) \/ StatementFails(r)
             \/ \E i \in Item : EnqueueInstance(r, i)
      PROVE  Still
  BY <1>2 DEF FailBatch, EnqueueRefused, EnqueueDone, PollCancelled, FinalizeStatus, Exit,
       StatusFails, StatementFails, EnqueueInstance, Goto
<1>3. ASSUME NEW b \in Batch,
             CancelRead(b) \/ CancelSet(b) \/ CancelSignal(b) \/ CancelFails(b)
      PROVE  Still
  BY <1>3 DEF CancelRead, CancelSet, CancelSignal, CancelFails, run
<1>4. ASSUME QueueStep \/ StartQueue \/ StartRouter \/ UNCHANGED vars
      PROVE  Still
  BY <1>4 DEF QueueStep, ClaimRow, EndRow, OthersCancel, OthersSubmit, OthersRetry, StartQueue,
       StartRouter, vars, run
<1>5. ASSUME NEW r \in Run, NEW plan \in SUBSET Instance, Prepare(r, plan)
      PROVE  VerdictStep(q)
  <2>1. seen' = seen /\ rpc[r] = "prepare" /\ rpc'[r] # "sync" /\ (q # r => rpc'[q] = rpc[q])
    BY <1>5 DEF Prepare, Goto
  <2>2. CASE q = r
    <3>1. \A x \in Instance : inst'[q][x] = "passed" => inst[q][x] = "passed"
      BY <1>5, <2>2 DEF Prepare
    <3> QED
      BY <2>1, <2>2, <3>1 DEF VerdictStep
  <2>3. CASE q # r
    <3>1. inst'[q] = inst[q]
      BY <1>5, <2>3 DEF Prepare
    <3> QED
      BY <2>1, <2>3, <3>1 DEF VerdictStep
  <2> QED
    BY <2>2, <2>3
<1>6. ASSUME NEW b \in Batch, CancelPending(b)
      PROVE  \A x \in Instance : /\ inst'[q][x] = "passed" => inst[q][x] = "passed"
                                 /\ inst'[q][x] # "none" => inst[q][x] # "none"
  BY <1>6 DEF CancelPending
<1>7. ASSUME NEW r \in Run, FailInstances(r) \/ FinalizeInstances(r)
      PROVE  VerdictStep(q)
  <2>1. seen' = seen /\ (rpc[q] = "sync" => rpc'[q] = "sync")
    BY <1>7 DEF FailInstances, FinalizeInstances, Goto
  <2>2. inst' = inst \/ CancelPending(RunOf[r])
    BY <1>7 DEF FailInstances, FinalizeInstances
  <2>3. CASE inst' = inst
    BY <2>1, <2>3
  <2>4. CASE CancelPending(RunOf[r])
    BY <1>6, <2>1, <2>4 DEF VerdictStep
  <2> QED
    BY <2>2, <2>3, <2>4
<1>8. ASSUME NEW b \in Batch, CancelInstances(b)
      PROVE  VerdictStep(q)
  <2>1. seen' = seen /\ rpc' = rpc /\ CancelPending(b)
    BY <1>8 DEF CancelInstances, run
  <2> QED
    BY <1>6, <2>1 DEF VerdictStep
<1>9. ASSUME NEW r \in Run, NEW y, NEW w, Note(r, y, w), y \in Instance
      PROVE  \A x \in Instance :
                 /\ inst'[q][x] # "none" => inst[q][x] # "none"
                 /\ \/ inst'[q][x] = inst[q][x]
                    \/ q = r /\ x = y /\ inst[q][x] # "none" /\ inst'[q][x] = w
  <2>1. CASE inst' = inst
    BY <2>1
  <2>2. CASE inst' # inst
    <3>1. inst' = [inst EXCEPT ![r][y] = IF Reaches(r) /\ @ # "none" THEN w ELSE @]
      BY <1>9, <2>2 DEF Note
    <3>2. ASSUME NEW x \in Instance
          PROVE  inst'[q][x] = IF q = r /\ x = y /\ Reaches(r) /\ inst[q][x] # "none"
                               THEN w ELSE inst[q][x]
      BY <1>9, <3>1
    <3> QED
      BY <2>2, <3>1, <3>2
  <2> QED
    BY <2>1, <2>2
<1>10. ASSUME NEW r \in Run, NoteRefusal(r)
       PROVE  VerdictStep(q)
  <2>1. seen' = seen /\ (rpc[q] = "sync" => rpc'[q] = "sync") /\ Note(r, NextOf(todo[r]), "errored")
    BY <1>10 DEF NoteRefusal, Goto
  <2>2. CASE NextOf(todo[r]) \in Instance
    BY <1>9, <2>1, <2>2 DEF VerdictStep
  <2>3. CASE NextOf(todo[r]) \notin Instance
    <3>1. \A x \in Instance : inst'[q][x] = inst[q][x]
      BY <2>1, <2>3 DEF Note
    <3> QED
      BY <2>1, <3>1 DEF VerdictStep
  <2> QED
    BY <2>2, <2>3
<1>11. ASSUME NEW r \in Run, NEW v \in seen[r].verdicts, WriteVerdict(r, v)
       PROVE  VerdictStep(q)
  <2>1. v[1] \in Instance /\ v = <<v[1], v[2]>>
    OBVIOUS
  <2>2. rpc' = rpc /\ Note(r, v[1], v[2]) /\ seen'[q].verdicts \subseteq seen[q].verdicts
        /\ rpc[r] = "sync" /\ (q # r => seen'[q] = seen[q])
    BY <1>11 DEF WriteVerdict
  <2>3. \A x \in Instance :
            /\ inst'[q][x] # "none" => inst[q][x] # "none"
            /\ \/ inst'[q][x] = inst[q][x]
               \/ q = r /\ x = v[1] /\ inst[q][x] # "none" /\ inst'[q][x] = v[2]
    BY <1>9, <2>1, <2>2
  <2>4. rpc'[q] # "sync" => seen'[q].verdicts = {}
    BY <2>2
  <2>5. ASSUME NEW x \in Instance, inst'[q][x] = "passed", inst[q][x] # "passed"
        PROVE  inst[q][x] # "none" /\ <<x, "passed">> \in seen[q].verdicts
    <3>1. q = r /\ x = v[1] /\ inst[q][x] # "none" /\ v[2] = "passed"
      BY <2>3, <2>5
    <3>2. <<x, "passed">> = v
      BY <2>1, <3>1
    <3> QED
      BY <3>1, <3>2
  <2> QED
    BY <2>2, <2>3, <2>4, <2>5 DEF VerdictStep
<1>12. ASSUME NEW r \in Run, List(r)
       PROVE  VerdictStep(q)
  <2>1. inst' = inst /\ rpc' = [rpc EXCEPT ![r] = "sync"]
        /\ (q # r => seen'[q] = seen[q])
        /\ seen'[r].verdicts = VerdictsOf(r)
    BY <1>12 DEF List, Goto
  <2>2. CASE q = r
    BY <2>1, <2>2 DEF VerdictStep
  <2>3. CASE q # r
    BY <2>1, <2>3 DEF VerdictStep
  <2> QED
    BY <2>2, <2>3
<1>13. ASSUME NEW r \in Run, Synced(r)
       PROVE  VerdictStep(q)
  <2>1. inst' = inst /\ seen[r].verdicts = {} /\ (q # r => seen'[q] = seen[q] /\ rpc'[q] = rpc[q])
    BY <1>13 DEF Synced, Goto
  <2>2. seen'[r].verdicts = seen[r].verdicts
    BY <1>13 DEF Synced
  <2> QED
    BY <2>1, <2>2 DEF VerdictStep
<1>14. ASSUME NEW b \in Batch, Delete(b)
       PROVE  VerdictStep(q)
  <2>1. seen' = seen /\ rpc' = rpc
    BY <1>14 DEF Delete, run
  <2>2. \A x \in Instance : inst'[q][x] = "none" \/ inst'[q][x] = inst[q][x]
    BY <1>14 DEF Delete
  <2> QED
    BY <2>1, <2>2 DEF VerdictStep
<1>15. CASE Crash
  BY <1>15 DEF Crash, NothingSeen, VerdictStep
<1>16. Next \/ UNCHANGED vars
  OBVIOUS
<1> QED
  BY <1>0, <1>1, <1>2, <1>3, <1>4, <1>5, <1>7, <1>8, <1>10, <1>11, <1>12, <1>13, <1>14, <1>15, <1>16
  DEF Next, RunStep, CancelHandler, Process

LEMMA BackedStep ==
    ASSUME TypeOK, \A q \in Run : VerdictsBacked(q), [Next]_vars, NEW r \in Run
    PROVE  VerdictsBacked(r)'
<1>1. VerdictStep(r) /\ VerdictsBacked(r)
  BY VerdictSteps
<1>2. ASSUME NEW x \in Instance,
             \/ inst'[r][x] = "passed"
             \/ inst'[r][x] # "none" /\ <<x, "passed">> \in seen'[r].verdicts
      PROVE  Passed(r, x)'
  <2>1. Passed(r, x)
    BY <1>1, <1>2, ListedPassed DEF VerdictStep, VerdictsBacked
  <2>2. inst'[r][x] # "none"
    BY <1>2
  <2> QED
    BY <2>1, <2>2, PassedKept
<1> QED
  BY <1>1, <1>2 DEF VerdictsBacked, VerdictStep

\* An instance marked passed has a completed row of its own batch to show for it.
THEOREM PassedInstancesPassed == Spec => []PassedDidPass
<1> DEFINE Inv == TypeOK /\ \A r \in Run : VerdictsBacked(r)
<1>1. Init => Inv
  <2> SUFFICES ASSUME Init
               PROVE  Inv
    OBVIOUS
  <2>1. TypeOK
    BY BatchTypeInit, QueueTypeInit DEF TypeOK
  <2>2. ASSUME NEW r \in Run
        PROVE  VerdictsBacked(r)
    BY DEF Init, VerdictsBacked, NothingSeen
  <2> QED
    BY <2>1, <2>2
<1>2. Inv /\ [Next]_vars => Inv'
  <2> SUFFICES ASSUME Inv, [Next]_vars
               PROVE  Inv'
    OBVIOUS
  <2>1. TypeOK'
    BY BatchTypeStep, QueueTypeStep DEF TypeOK
  <2>2. ASSUME NEW r \in Run
        PROVE  VerdictsBacked(r)'
    BY BackedStep
  <2> QED
    BY <2>1, <2>2
<1>3. Inv => PassedDidPass
  BY DEF VerdictsBacked, Passed, PassedDidPass
<1> QED
  BY <1>1, <1>2, <1>3, PTL DEF Spec

-----------------------------------------------------------------------------
(* The queue below the batches keeps to its ledger. *)

Promise == INSTANCE KitchenRunLedgerProofs WITH Key <- Instance

\* Every row that was made is of an instance.
KeyedRows == \A i \in Item : status[i] # "absent" => key[i] \in Instance

\* Each step that touches the queue is one of the ledger.
LEMMA KeyedStep ==
    ASSUME BatchTypeOK, QueueTypeOK, KeyedRows, [Next]_vars
    PROVE  KeyedRows' /\ (Promise!LedgerNext \/ UNCHANGED <<status, key>>)
<1> USE DEF QueueTypeOK, KeyedRows
<1>1. ASSUME NEW i \in Item, NEW x \in Instance, Queue!Submit(i, x)
      PROVE  KeyedRows' /\ Promise!LedgerNext
  <2>1. Promise!Submit(i, x)
    BY <1>1 DEF Queue!Submit, Promise!Submit, Queue!Open, Promise!Open
  <2>2. KeyedRows'
    BY <1>1 DEF Queue!Submit
  <2> QED
    BY <2>1, <2>2 DEF Promise!LedgerNext
<1>2. ASSUME NEW r \in Run, NEW i \in Item, EnqueueInstance(r, i)
      PROVE  KeyedRows' /\ Promise!LedgerNext
  <2>1. NextOf(todo[r]) \in Instance
    BY <1>2 DEF BatchTypeOK, EnqueueInstance, NextOf
  <2>2. Queue!Submit(i, NextOf(todo[r]))
    BY <1>2 DEF EnqueueInstance
  <2> QED
    BY <2>1, <2>2, <1>1
<1>3. ASSUME NEW i \in Item, NEW old \in Item, OthersRetry(i, old)
      PROVE  KeyedRows' /\ Promise!LedgerNext
  <2>1. key[old] \in Instance /\ Queue!Submit(i, key[old])
    BY <1>3 DEF OthersRetry
  <2> QED
    BY <2>1, <1>1
<1>4. ASSUME NEW i \in Item, NEW x \in Instance, OthersSubmit(i, x)
      PROVE  KeyedRows' /\ Promise!LedgerNext
  BY <1>4, <1>1 DEF OthersSubmit
<1>5. ASSUME NEW i \in Item, ClaimRow(i)
      PROVE  KeyedRows' /\ Promise!LedgerNext
  <2>1. Promise!Begin(i)
    BY <1>5 DEF ClaimRow, Queue!Begin, Queue!Become, Promise!Begin, Promise!Become
  <2>2. KeyedRows'
    BY <1>5 DEF ClaimRow, Queue!Begin, Queue!Become
  <2> QED
    BY <2>1, <2>2 DEF Promise!LedgerNext
<1>6. ASSUME NEW i \in Item, EndRow(i) \/ OthersCancel(i)
      PROVE  KeyedRows' /\ Promise!LedgerNext
  <2>1. Promise!Withdraw(i) \/ \E s \in {"completed", "failed"} : Promise!Finish(i, s)
    BY <1>6
    DEF EndRow, OthersCancel, Queue!Finish, Queue!Withdraw, Queue!Become, Queue!Open,
        Promise!Finish, Promise!Withdraw, Promise!Become, Promise!Open
  <2>2. KeyedRows'
    BY <1>6 DEF EndRow, OthersCancel, Queue!Finish, Queue!Withdraw, Queue!Become, Queue!Open
  <2> QED
    BY <2>1, <2>2 DEF Promise!LedgerNext
<1>7. CASE StartQueue
  BY <1>7 DEF StartQueue, Queue!Recover, Promise!Recover, Promise!LedgerNext
<1>8. CASE UNCHANGED <<status, key>>
  BY <1>8
<1> QED
  BY <1>2, <1>3, <1>4, <1>5, <1>6, <1>7, <1>8, QueueFrame DEF Delete, queue

LEMMA KeyedRowsAlways == Spec => [](TypeOK /\ KeyedRows)
<1>1. Init => KeyedRows
  BY DEF Init, Queue!LedgerInit, KeyedRows
<1>2. TypeOK /\ KeyedRows /\ [Next]_vars => KeyedRows'
  BY KeyedStep DEF TypeOK
<1> QED
  BY <1>1, <1>2, BatchTypeCorrect, PTL DEF Spec

\* Seen from the queue's table, batches, deletions, other users, workers and
\* restarts together make the steps of the ledger and no other.
THEOREM BatchesUseTheLedger == Spec => Promise!LedgerSpec
<1>1. Init => Promise!LedgerInit
  BY DEF Init, Queue!LedgerInit, Promise!LedgerInit
<1>2. TypeOK /\ KeyedRows /\ [Next]_vars => [Promise!LedgerNext]_Promise!ledgerVars
  BY KeyedStep DEF TypeOK, Promise!ledgerVars
<1> QED
  BY <1>1, <1>2, KeyedRowsAlways, PTL DEF Spec, Promise!LedgerSpec

\* Batches that overlap, and users who submit and retry beside them, never have two
\* open rows of one instance.
THEOREM BatchRowsOneOpen == Spec => []Promise!OneOpenPerKey
  BY BatchesUseTheLedger, Promise!LedgerOneOpen

\* A row that a batch waits for goes from queued over running to its end and
\* keeps its instance: what a listing showed as ended is never open again.
THEOREM BatchRowsAdvance == Spec => [][Promise!RowsAdvance]_<<status, key>>
  BY BatchesUseTheLedger, Promise!LedgerAdvances, PTL DEF Promise!ledgerVars

-----------------------------------------------------------------------------
(* Which way the status of a batch goes *)

Course == INSTANCE KitchenBatchLifecycleProofs WITH
    Batch <- RunOnce,
    DryBatch <- DryBatch,
    state <- [b \in RunOnce |-> bstatus[b]],
    asked <- {b \in RunOnce : cpc[b] = "read"}

RequestedOnceAdvance ==
    \A b \in RunOnce : bstatus'[b] # bstatus[b] =>
        /\ b \notin DryBatch => Course!Rank(bstatus[b]) < Course!Rank(bstatus'[b])
        /\ bstatus'[b] # "draft" /\ bstatus[b] # "deleted"
        /\ bstatus'[b] \in {"previewing", "preparing"} => bstatus[b] = "draft"
        /\ bstatus'[b] = "running" => bstatus[b] = "preparing"

LEMMA CourseBegins == Lifecycle!LifecycleInit => Course!LifecycleInit
  BY DEF Lifecycle!LifecycleInit, Course!LifecycleInit

LEMMA CourseSteps ==
    [Lifecycle!LifecycleNext]_Lifecycle!lifecycleVars
        => [Course!LifecycleNext]_Course!lifecycleVars
  BY DEF Lifecycle!LifecycleNext, Course!LifecycleNext, Lifecycle!lifecycleVars,
     Course!lifecycleVars, Lifecycle!Start, Course!Start, Lifecycle!Proceed, Course!Proceed,
     Lifecycle!Complete, Course!Complete, Lifecycle!Fail, Course!Fail, Lifecycle!Previewed,
     Course!Previewed, Lifecycle!Ask, Course!Ask, Lifecycle!Cancel, Course!Cancel,
     Lifecycle!Delete, Course!Delete, Lifecycle!Abandon, Course!Abandon,
     Lifecycle!CancelStale, Course!CancelStale, Lifecycle!Become, Course!Become

\* Late writes, cancels, failures, crashes and restarts only ever move the status of
\* a batch that is run on: it passes each of its statuses once.  A dry run may turn
\* between completed and cancelled, and no batch comes back to life.
THEOREM BatchStatusAdvances == Spec => [][RequestedOnceAdvance]_bstatus
<1>1. Spec => Course!LifecycleSpec
  BY BatchesImplementLifecycle, CourseBegins, CourseSteps, PTL
  DEF KeepsLifecycle, Lifecycle!LifecycleSpec, Course!LifecycleSpec
<1>2. Spec => [][Course!StatusAdvances]_Course!lifecycleVars
  BY <1>1, Course!LifecycleAdvances
<1>3. [Course!StatusAdvances]_Course!lifecycleVars => [RequestedOnceAdvance]_bstatus
  BY DEF Course!StatusAdvances, Course!lifecycleVars, RequestedOnceAdvance
<1> QED
  BY <1>2, <1>3, PTL

Finished == {"completed", "failed", "cancelled", "deleted"}

LEMMA FinishedOnce ==
    ASSUME NEW b \in RunOnce, BatchTypeOK', [RequestedOnceAdvance]_bstatus
    PROVE  /\ bstatus[b] \in {"preparing", "running"}
                => bstatus'[b] \in {"preparing", "running"} \cup Finished
           /\ bstatus[b] \in Finished => bstatus'[b] \in Finished
<1>1. bstatus'[b] \in BatchStatus
  BY DEF RunOnce, BatchTypeOK
<1>2. CASE RequestedOnceAdvance
  BY <1>1, <1>2 DEF RequestedOnceAdvance, BatchStatus, Finished
<1>3. CASE UNCHANGED bstatus
  BY <1>3
<1> QED
  BY <1>2, <1>3

\* BatchEnds says that a batch is found out of its run, or with a lost statement,
\* again and again.  Since no status is taken back, one that is run comes to an end
\* that nothing undoes, or lost a statement on the way.
THEOREM BatchesEndForGood ==
    ASSUME NEW b \in RunOnce
    PROVE  Spec /\ BatchEnds =>
              (bstatus[b] \in {"preparing", "running"} ~> b \in lost \/ [](bstatus[b] \in Finished))
<1>1. BatchEnds => []<>(bstatus[b] \in {"preparing", "running"} => b \in lost)
  BY DEF BatchEnds, RunOnce
<1>2. TypeOK' /\ [RequestedOnceAdvance]_bstatus
        => /\ bstatus[b] \in {"preparing", "running"}
                => (bstatus[b] \in {"preparing", "running"})' \/ (bstatus[b] \in Finished)'
           /\ bstatus[b] \in Finished => (bstatus[b] \in Finished)'
  BY FinishedOnce DEF TypeOK
<1> QED
  BY <1>1, <1>2, BatchStatusAdvances, BatchTypeCorrect, PTL

=============================================================================
