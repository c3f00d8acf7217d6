------------------------- MODULE KitchenQueueProofs -------------------------
(***************************************************************************)
(* Theorems about KitchenQueue, for every value of its constants.  TypeOK   *)
(* is inductive.  OneHolder and HeldRowOnlyCancelled are inductive only     *)
(* together: a claim cannot produce a second holder because the row of a    *)
(* holder is never queued, and a worker's write cannot move another         *)
(* worker's row because there is no other holder.                           *)
(***************************************************************************)
EXTENDS KitchenQueue, FiniteSetTheorems, TLAPS

-----------------------------------------------------------------------------
(* Type correctness *)

LEMMA TypeInit == Init => TypeOK
  <1> SUFFICES ASSUME Init
               PROVE  TypeOK
    OBVIOUS
  <1> USE DEF Init
  <1>1. RowsTyped
    BY QueueAssumption DEF RowsTyped, Status
  <1>2. WorkersTyped
    BY DEF WorkersTyped, Pc
  <1>3. ProcessTyped
    BY QueueAssumption DEF ProcessTyped
  <1> QED
    BY <1>1, <1>2, <1>3 DEF TypeOK

\* The rows keep their types when one is inserted.
LEMMA RowsInsert ==
  ASSUME RowsTyped, NEW i \in Item, NEW k \in Key, NEW p \in Nat,
         NEW parent \in Item \cup {NoItem}, Insert(i, k, p, parent)
  PROVE  RowsTyped'
  <1>1. status' \in [Item -> Status] /\ key' \in [Item -> Key \cup {NoKey}]
    BY DEF RowsTyped, Insert, Status, Active
  <1>2. prio' \in [Item -> Nat] /\ retryOf' \in [Item -> Item \cup {NoItem}]
    BY DEF RowsTyped, Insert
  <1>3. \A r \in Item : key'[r] = NoKey <=> status'[r] \in {"absent", "purged"}
    BY QueueAssumption DEF RowsTyped, Insert
  <1>4. ASSUME NEW r \in Item, NEW j \in Item, r < j, status'[r] = "absent"
        PROVE  status'[j] = "absent"
    <2>1. r # i /\ status[r] = "absent" /\ status[j] = "absent"
      BY <1>4 DEF RowsTyped, Insert
    <2>2. ~(r < i)
      BY <2>1 DEF Insert, NextId
    <2>3. j # i
      BY <1>4, <2>2
    <2> QED
      BY <2>1, <2>3 DEF Insert, RowsTyped
  <1> QED
    BY <1>1, <1>2, <1>3, <1>4 DEF RowsTyped

\* A row that is there may change its status to any other a row can have.
LEMMA RowsMove ==
  ASSUME RowsTyped, UNCHANGED rowData, status' \in [Item -> Status],
         \A i \in Item : status'[i] # status[i] =>
             {status[i], status'[i]} \subseteq Active \cup Terminal
  PROVE  RowsTyped'
  BY DEF RowsTyped, rowData, Active, Terminal, Retryable

LEMMA TypeHandlers ==
  ASSUME TypeOK, Handlers
  PROVE  TypeOK'
  <1> USE DEF TypeOK, worker, pool, rowData
  <1>1. ASSUME NEW i \in Item, NEW k \in Key, NEW p \in Priority, Enqueue(i, k, p)
        PROVE  TypeOK'
    <2>1. RowsTyped'
      BY <1>1, RowsInsert, QueueAssumption DEF Enqueue
    <2> QED
      BY <1>1, <2>1 DEF Enqueue, WorkersTyped, ProcessTyped
  <1>2. ASSUME NEW i \in Item, NEW old \in Item, Retry(i, old)
        PROVE  TypeOK'
    <2>1. key[old] \in Key /\ prio[old] \in Nat
      BY <1>2, QueueAssumption DEF Retry, Retryable, RowsTyped
    <2>2. RowsTyped'
      BY <1>2, <2>1, RowsInsert DEF Retry
    <2> QED
      BY <1>2, <2>2 DEF Retry, WorkersTyped, ProcessTyped
  <1>3. ASSUME NEW i \in Item, CancelSignal(i)
        PROVE  TypeOK'
    BY <1>3 DEF CancelSignal, RowsTyped, WorkersTyped, ProcessTyped
  <1>4. ASSUME NEW i \in Item, CancelCommit(i)
        PROVE  TypeOK'
    <2>1. RowsTyped'
      BY <1>4, RowsMove
      DEF CancelCommit, RowsTyped, Status, Active, Terminal, Retryable
    <2> QED
      BY <1>4, <2>1 DEF CancelCommit, WorkersTyped, ProcessTyped
  <1>5. ASSUME NEW old \in SUBSET Item, Purge(old)
        PROVE  TypeOK'
    <2>1. RowsTyped'
      BY <1>5, QueueAssumption DEF Purge, RowsTyped, Status, Terminal, Retryable
    <2> QED
      BY <1>5, <2>1 DEF Purge, WorkersTyped, ProcessTyped
  <1>6. ASSUME NEW n \in PoolSize, Resize(n)
        PROVE  TypeOK'
    <2>1. RowsTyped'
      BY <1>6 DEF Resize, RowsTyped
    <2>2. WorkersTyped'
      BY <1>6 DEF Resize, Spawn, Live, WorkersTyped, Pc
    <2>3. ProcessTyped'
      BY <1>6, QueueAssumption DEF Resize, Serving, ProcessTyped
    <2> QED
      BY <2>1, <2>2, <2>3
  <1> QED
    BY <1>1, <1>2, <1>3, <1>4, <1>5, <1>6 DEF Handlers

LEMMA TypeWorker ==
  ASSUME TypeOK, NEW w \in Worker, WorkerRuns(w) \/ WorkerFaults(w)
  PROVE  TypeOK'
  <1> USE DEF TypeOK, others, rowData
  <1>1. CASE WorkerStops(w) \/ WorkerRetires(w) \/ WorkerProceeds(w)
    BY <1>1
    DEF WorkerStops, WorkerRetires, WorkerProceeds, Step, Pc,
        RowsTyped, WorkersTyped, ProcessTyped
  <1>2. ASSUME NEW i \in Item, Claim(w, i)
        PROVE  TypeOK'
    <2>1. status[i] = "queued" /\ i # NoItem
      BY <1>2 DEF Claim, Best, FirstOf, Item, NoItem
    <2>2. RowsTyped'
      BY <1>2, <2>1, RowsMove DEF Claim, RowsTyped, Status, Active
    <2>3. WorkersTyped'
      BY <1>2, <2>1 DEF Claim, Step, Pc, WorkersTyped
    <2> QED
      BY <1>2, <2>2, <2>3 DEF Claim, Step, ProcessTyped, WorkersTyped
  <1>3. ASSUME NEW i \in Item, ClaimReplyLost(w, i)
        PROVE  TypeOK'
    <2>1. status[i] = "queued"
      BY <1>3 DEF ClaimReplyLost, Best, FirstOf
    <2>2. RowsTyped'
      BY <1>3, <2>1, RowsMove DEF ClaimReplyLost, RowsTyped, Status, Active
    <2> QED
      BY <1>3, <2>2 DEF ClaimReplyLost, Step, Pc, ProcessTyped, WorkersTyped
  <1>4. CASE ClaimNothing(w) \/ Admit(w) \/ Register(w) \/ Unregister(w)
    <2>1. RowsTyped'
      BY <1>4 DEF ClaimNothing, Admit, Register, Unregister, RowsTyped
    <2>2. ProcessTyped'
      BY <1>4 DEF ClaimNothing, Admit, Register, Unregister, Step, ProcessTyped
    <2>3. CASE ClaimNothing(w) \/ Admit(w)
      BY <2>1, <2>2, <2>3 DEF ClaimNothing, Admit, Step, Pc, WorkersTyped
    <2>4. CASE Register(w) \/ Unregister(w)
      <3>1. ctxDone' \in [Worker -> BOOLEAN]
        BY <2>4 DEF Register, Unregister, WorkersTyped
      <3> QED
        BY <2>1, <2>2, <2>4, <3>1 DEF Register, Unregister, Step, Pc, WorkersTyped
    <2> QED
      BY <1>4, <2>3, <2>4
  <1>5. CASE GateAborts(w) \/ Announce(w)
    BY <1>5
    DEF GateAborts, Announce, Step, Pc, RowsTyped, WorkersTyped, ProcessTyped
  <1>6. CASE ExecuteReturns(w)
    <2>1. ExecutionResults(w) \subseteq {"completed", "failed", "cancelled"}
      BY DEF ExecutionResults
    <2> QED
      BY <1>6, <2>1
      DEF ExecuteReturns, Step, Pc, RowsTyped, WorkersTyped, ProcessTyped
  <1>7. CASE Record(w)
    <2>1. held[w] \in Item /\ outcome[w] \in {"completed", "failed", "cancelled"}
      BY <1>7 DEF Record, Step, WorkersTyped
    <2>2. WritableFrom(outcome[w]) \subseteq Active
      BY DEF WritableFrom, Active
    <2>3. RowsTyped'
      BY <1>7, <2>1, <2>2, RowsMove
      DEF Record, RowsTyped, Status, Active, Terminal, Retryable
    <2> QED
      BY <1>7, <2>3 DEF Record, Step, Pc, WorkersTyped, ProcessTyped
  <1>8. CASE RecordFails(w)
    BY <1>8 DEF RecordFails, Step, Pc, RowsTyped, WorkersTyped, ProcessTyped
  <1> QED
    BY <1>1, <1>2, <1>3, <1>4, <1>5, <1>6, <1>7, <1>8
    DEF WorkerRuns, WorkerFaults

LEMMA TypeProcess ==
  ASSUME TypeOK, Process
  PROVE  TypeOK'
  <1> USE DEF TypeOK, rowData, worker, pool
  <1>1. ASSUME NEW n \in PoolSize, Start(n)
        PROVE  TypeOK'
    <2>1. RowsTyped'
      BY <1>1, RowsMove
      DEF Start, RowsTyped, Status, Active, Terminal, Retryable
    <2>2. WorkersTyped'
      BY <1>1 DEF Start, Spawn, Live, WorkersTyped, Pc
    <2>3. ProcessTyped'
      BY <1>1, QueueAssumption DEF Start, ProcessTyped
    <2> QED
      BY <2>1, <2>2, <2>3
  <1>2. CASE BeginStop \/ Sweep
    <2>1. CASE BeginStop
      BY <2>1 DEF BeginStop, RowsTyped, WorkersTyped, ProcessTyped
    <2>2. CASE Sweep
      BY <2>2 DEF Sweep, RowsTyped, WorkersTyped, ProcessTyped
    <2> QED
      BY <1>2, <2>1, <2>2
  <1>3. CASE ExitProcess \/ Crash
    <2>1. Die
      BY <1>3 DEF ExitProcess, Crash
    <2>2. RowsTyped'
      BY <2>1 DEF Die, RowsTyped
    <2>3. WorkersTyped'
      BY <2>1 DEF Die, WorkersTyped, Pc
    <2>4. ProcessTyped'
      BY <2>1 DEF Die, ProcessTyped
    <2> QED
      BY <2>2, <2>3, <2>4
  <1> QED
    BY <1>1, <1>2, <1>3 DEF Process

LEMMA TypeStep == TypeOK /\ [Next]_vars => TypeOK'
  <1> SUFFICES ASSUME TypeOK, [Next]_vars
               PROVE  TypeOK'
    OBVIOUS
  <1>1. CASE UNCHANGED vars
    BY <1>1 DEF vars, rowData, worker, pool, TypeOK,
                RowsTyped, WorkersTyped, ProcessTyped
  <1> QED
    BY <1>1, TypeHandlers, TypeWorker, TypeProcess DEF Next

\* The types of the queue's state hold in every behaviour, and with them: no
\* row without a key, no gap in the ids, no worker with an undecided outcome to
\* record.
THEOREM TypeCorrect == Spec => []TypeOK
  BY TypeInit, TypeStep, PTL DEF Spec

-----------------------------------------------------------------------------
(* The queue implements the ledger *)

LEMMA LedgerInitially == Init => Ledger!LedgerInit
  BY DEF Init, Ledger!LedgerInit

LEMMA LedgerHandlers ==
  ASSUME TypeOK, Handlers
  PROVE  Ledger!LedgerNext \/ UNCHANGED <<status, key>>
  <1> USE DEF TypeOK, rowData
  <1>1. ASSUME NEW i \in Item, NEW k \in Key, NEW p \in Priority, Enqueue(i, k, p)
        PROVE  Ledger!Submit(i, k)
    BY <1>1
    DEF Enqueue, Insert, NextId, Duplicate, Active, Ledger!Submit, Ledger!Open
  <1>2. ASSUME NEW i \in Item, NEW old \in Item, Retry(i, old)
        PROVE  key[old] \in Key /\ Ledger!Submit(i, key[old])
    <2>1. key[old] \in Key
      BY <1>2 DEF Retry, Retryable, RowsTyped
    <2> QED
      BY <1>2, <2>1
      DEF Retry, Insert, NextId, Duplicate, Active, Ledger!Submit, Ledger!Open
  <1>3. ASSUME NEW i \in Item, CancelCommit(i)
        PROVE  Ledger!Withdraw(i) \/ UNCHANGED <<status, key>>
    BY <1>3
    DEF CancelCommit, RowsTyped, Active, Ledger!Withdraw, Ledger!Become, Ledger!Open
  <1>4. ASSUME NEW old \in SUBSET Item, Purge(old)
        PROVE  Ledger!Forget(old)
    BY <1>4 DEF Purge, Terminal, Retryable, Ledger!Forget, Ledger!Ended
  <1>5. CASE \/ \E i \in Item : CancelSignal(i)
             \/ \E n \in PoolSize : Resize(n)
    BY <1>5 DEF CancelSignal, Resize
  <1> QED
    BY <1>1, <1>2, <1>3, <1>4, <1>5 DEF Handlers, Ledger!LedgerNext

LEMMA LedgerWorker ==
  ASSUME TypeOK, NEW w \in Worker, WorkerRuns(w) \/ WorkerFaults(w)
  PROVE  Ledger!LedgerNext \/ UNCHANGED <<status, key>>
  <1> USE DEF TypeOK, rowData, others
  <1>1. ASSUME NEW i \in Item, Claim(w, i) \/ ClaimReplyLost(w, i)
        PROVE  Ledger!Begin(i)
    BY <1>1
    DEF Claim, ClaimReplyLost, Best, FirstOf, Ledger!Begin, Ledger!Become
  <1>2. CASE Record(w)
    <2>1. held[w] \in Item /\ outcome[w] \in {"completed", "failed", "cancelled"}
      BY <1>2 DEF Record, Step, WorkersTyped
    <2>2. CASE status[held[w]] \in WritableFrom(outcome[w])
      <3>1. Ledger!Become(held[w], outcome[w])
        BY <1>2, <2>2 DEF Record, Ledger!Become
      <3>2. CASE outcome[w] = "cancelled"
        BY <2>1, <2>2, <3>1, <3>2
        DEF WritableFrom, Active, Ledger!LedgerNext, Ledger!Withdraw, Ledger!Open
      <3>3. CASE outcome[w] # "cancelled"
        BY <2>1, <2>2, <3>1, <3>3
        DEF WritableFrom, Ledger!LedgerNext, Ledger!Finish
      <3> QED
        BY <3>2, <3>3
    <2>3. CASE status[held[w]] \notin WritableFrom(outcome[w])
      BY <1>2, <2>1, <2>3 DEF Record, RowsTyped
    <2> QED
      BY <2>2, <2>3
  <1>3. CASE \/ WorkerStops(w) \/ WorkerRetires(w) \/ WorkerProceeds(w)
             \/ ClaimNothing(w) \/ Admit(w) \/ GateAborts(w) \/ Register(w)
             \/ ExecuteReturns(w) \/ Unregister(w) \/ RecordFails(w)
             \/ Announce(w)
    BY <1>3
    DEF WorkerStops, WorkerRetires, WorkerProceeds, ClaimNothing, Admit,
        GateAborts, Register, ExecuteReturns, Unregister, RecordFails, Announce
  <1> QED
    BY <1>1, <1>2, <1>3 DEF WorkerRuns, WorkerFaults, Ledger!LedgerNext

LEMMA LedgerProcess ==
  ASSUME TypeOK, Process
  PROVE  Ledger!LedgerNext \/ UNCHANGED <<status, key>>
  <1> USE DEF rowData
  <1>1. ASSUME NEW n \in PoolSize, Start(n)
        PROVE  Ledger!Recover
    BY <1>1 DEF Start, Ledger!Recover
  <1>2. CASE BeginStop \/ Sweep \/ ExitProcess \/ Crash
    BY <1>2 DEF BeginStop, Sweep, ExitProcess, Crash, Die
  <1> QED
    BY <1>1, <1>2 DEF Process, Ledger!LedgerNext

\* Every step of the queue is a step of the ledger or leaves the rows alone.
LEMMA LedgerStep ==
  TypeOK /\ [Next]_vars => [Ledger!LedgerNext]_Ledger!ledgerVars
  <1> SUFFICES ASSUME TypeOK, [Next]_vars
               PROVE  Ledger!LedgerNext \/ UNCHANGED <<status, key>>
    BY DEF Ledger!ledgerVars
  <1>1. CASE UNCHANGED vars
    BY <1>1 DEF vars, rowData
  <1> QED
    BY <1>1, LedgerHandlers, LedgerWorker, LedgerProcess DEF Next

\* Seen from its table, the queue with its workers, handlers, crashes and
\* restarts is the ledger: a row begins at most once, ends at most once and
\* stays as it ended.
THEOREM QueueImplementsLedger == Spec => ImplementsLedger
  BY LedgerInitially, LedgerStep, TypeCorrect, PTL
  DEF Spec, ImplementsLedger, Ledger!LedgerSpec

-----------------------------------------------------------------------------
(* What the ledger's steps do to rows and keys *)

LEMMA OpenKeysStep ==
  TypeOK /\ OneActiveRowPerKey /\ [Next]_vars => OneActiveRowPerKey'
  <1> SUFFICES ASSUME TypeOK, OneActiveRowPerKey, [Next]_vars
               PROVE  OneActiveRowPerKey'
    OBVIOUS
  <1> USE DEF TypeOK, RowsTyped, OneActiveRowPerKey, Active
  <1>1. ASSUME NEW i \in Item, NEW k \in Key, Ledger!Submit(i, k)
        PROVE  OneActiveRowPerKey'
    BY <1>1 DEF Ledger!Submit, Ledger!Open
  <1>2. ASSUME NEW i \in Item,
               \/ Ledger!Begin(i) \/ Ledger!Withdraw(i)
               \/ \E s \in {"completed", "failed"} : Ledger!Finish(i, s)
        PROVE  OneActiveRowPerKey'
    BY <1>2
    DEF Ledger!Begin, Ledger!Withdraw, Ledger!Finish, Ledger!Become, Ledger!Open
  <1>3. CASE Ledger!Recover
    BY <1>3 DEF Ledger!Recover
  <1>4. ASSUME NEW old \in SUBSET Item, Ledger!Forget(old)
        PROVE  OneActiveRowPerKey'
    BY <1>4 DEF Ledger!Forget
  <1>5. CASE UNCHANGED <<status, key>>
    BY <1>5
  <1> QED
    BY <1>1, <1>2, <1>3, <1>4, <1>5, LedgerStep
    DEF Ledger!LedgerNext, Ledger!ledgerVars

\* No mix of enqueues, retries, cancels and restarts leaves two open rows of one
\* key in kitchen_run_queue.
THEOREM OneOpenRowPerKey == Spec => []OneActiveRowPerKey
  <1>1. Init => OneActiveRowPerKey
    BY DEF Init, OneActiveRowPerKey, Active
  <1> QED
    BY <1>1, OpenKeysStep, TypeCorrect, PTL DEF Spec

Forward ==
    \A i \in Item :
        /\ status[i] \in Terminal => status'[i] \in {status[i], "purged"}
        /\ status[i] = "purged" => status'[i] = "purged"
        /\ status[i] = "running" => status'[i] # "queued"

LEMMA ForwardStep == TypeOK /\ [Next]_vars => [Forward]_status
  <1> SUFFICES ASSUME TypeOK, [Next]_vars
               PROVE  Forward \/ UNCHANGED status
    OBVIOUS
  <1> USE DEF TypeOK, RowsTyped, Forward, Terminal, Retryable
  <1>1. ASSUME NEW i \in Item, NEW k \in Key, Ledger!Submit(i, k)
        PROVE  Forward
    BY <1>1 DEF Ledger!Submit
  <1>2. ASSUME NEW i \in Item,
               \/ Ledger!Begin(i) \/ Ledger!Withdraw(i)
               \/ \E s \in {"completed", "failed"} : Ledger!Finish(i, s)
        PROVE  Forward
    BY <1>2
    DEF Ledger!Begin, Ledger!Withdraw, Ledger!Finish, Ledger!Become, Ledger!Open
  <1>3. CASE Ledger!Recover
    BY <1>3 DEF Ledger!Recover
  <1>4. ASSUME NEW old \in SUBSET Item, Ledger!Forget(old)
        PROVE  Forward
    BY <1>4 DEF Ledger!Forget, Ledger!Ended
  <1> QED
    BY <1>1, <1>2, <1>3, <1>4, LedgerStep DEF Ledger!LedgerNext, Ledger!ledgerVars

\* However late a worker, a cancel request or a recovery comes, it never
\* reopens or relabels a row that has ended.
THEOREM EndedRowsStay == Spec => LifecycleForward
  <1>1. Spec => [][Forward]_status
    BY ForwardStep, TypeCorrect, PTL DEF Spec
  <1> QED
    BY <1>1 DEF Forward, LifecycleForward

-----------------------------------------------------------------------------
(* Who holds a row *)

HoldInv == OneHolder /\ HeldRowOnlyCancelled

\* A step after which no worker holds what it did not hold before, and which
\* moves a held row only where a cancel or a purge may move it.
LEMMA HoldersKeep ==
  ASSUME HoldInv,
         \A w \in Worker : Holding(w)' => Holding(w) /\ held'[w] = held[w],
         \A w \in Worker : Holding(w)' =>
             status'[held[w]] \in {status[held[w]], "cancelled", "purged"}
  PROVE  HoldInv'
  BY DEF HoldInv, OneHolder, HeldRowOnlyCancelled

LEMMA HoldStep == TypeOK /\ HoldInv /\ [Next]_vars => HoldInv'
  <1> SUFFICES ASSUME TypeOK, HoldInv, [Next]_vars
               PROVE  HoldInv'
    OBVIOUS
  <1> USE DEF TypeOK, rowData, worker
  <1>0. \A w \in Worker : Holding(w) => held[w] \in Item
    BY DEF WorkersTyped, Holding
  <1>1. CASE UNCHANGED <<status, pc, held>>
    BY <1>1 DEF HoldInv, OneHolder, HeldRowOnlyCancelled, Holding
  <1>2. ASSUME NEW i \in Item,
               \/ \E k \in Key, p \in Priority : Enqueue(i, k, p)
               \/ \E old \in Item : Retry(i, old)
        PROVE  HoldInv'
    <2>1. /\ status[i] = "absent"
          /\ status' = [status EXCEPT ![i] = "queued"]
          /\ UNCHANGED <<pc, held>>
      BY <1>2 DEF Enqueue, Retry, Insert, NextId
    <2>2. \A w \in Worker : Holding(w) => held[w] # i
      BY <2>1 DEF HoldInv, HeldRowOnlyCancelled
    <2> QED
      BY <1>0, <2>1, <2>2, HoldersKeep DEF Holding, RowsTyped
  <1>3. ASSUME NEW i \in Item, CancelCommit(i)
        PROVE  HoldInv'
    BY <1>0, <1>3, HoldersKeep DEF CancelCommit, Holding, RowsTyped
  <1>4. ASSUME NEW old \in SUBSET Item, Purge(old)
        PROVE  HoldInv'
    BY <1>0, <1>4, HoldersKeep DEF Purge, Holding, RowsTyped
  <1>5. ASSUME NEW n \in PoolSize, Resize(n)
        PROVE  HoldInv'
    <2>1. UNCHANGED <<status, held>> /\ \A w \in Worker : pc'[w] \in {pc[w], "poll"}
      BY <1>5 DEF Resize, Spawn, WorkersTyped
    <2> QED
      BY <2>1, HoldersKeep DEF Holding
  <1>6. ASSUME NEW w \in Worker, NEW i \in Item, Claim(w, i)
        PROVE  HoldInv'
    <2>1. status[i] = "queued"
      BY <1>6 DEF Claim, Best, FirstOf
    <2>2. \A v \in Worker : Holding(v) => held[v] # i /\ v # w
      BY <1>6, <2>1 DEF HoldInv, HeldRowOnlyCancelled, Claim, Step, Holding
    <2>3. /\ held' = [held EXCEPT ![w] = i]
          /\ status' = [status EXCEPT ![i] = "running"]
          /\ pc' = [pc EXCEPT ![w] = "gate"]
      BY <1>6 DEF Claim, Step
    <2>4. \A v \in Worker : Holding(v)' <=> v = w \/ Holding(v)
      BY <2>3 DEF Holding, WorkersTyped
    <2>5. OneHolder'
      BY <2>2, <2>3, <2>4 DEF HoldInv, OneHolder, WorkersTyped
    <2>6. HeldRowOnlyCancelled'
      BY <1>0, <2>2, <2>3, <2>4
      DEF HoldInv, HeldRowOnlyCancelled, WorkersTyped, RowsTyped
    <2> QED
      BY <2>5, <2>6 DEF HoldInv
  <1>7. ASSUME NEW w \in Worker, NEW i \in Item, ClaimReplyLost(w, i)
        PROVE  HoldInv'
    <2>1. status[i] = "queued" /\ UNCHANGED held
      BY <1>7 DEF ClaimReplyLost, Best, FirstOf, others
    <2>2. \A v \in Worker : Holding(v) => held[v] # i
      BY <2>1 DEF HoldInv, HeldRowOnlyCancelled
    <2>3. \A v \in Worker : Holding(v)' => Holding(v)
      BY <1>7 DEF ClaimReplyLost, Step, Holding, WorkersTyped
    <2>4. \A v \in Worker : Holding(v) => status'[held[v]] = status[held[v]]
      BY <1>0, <1>7, <2>2 DEF ClaimReplyLost, RowsTyped
    <2> QED
      BY <2>1, <2>3, <2>4, HoldersKeep
  <1>8. ASSUME NEW w \in Worker, Record(w)
        PROVE  HoldInv'
    <2>1. pc[w] = "unregistered" /\ pc' = [pc EXCEPT ![w] = "recorded"] /\ UNCHANGED held
      BY <1>8 DEF Record, Step, others
    <2>2. \A v \in Worker : Holding(v)' => Holding(v) /\ v # w
      BY <2>1 DEF Holding, WorkersTyped
    <2>3. \A v \in Worker : Holding(v)' => held[v] # held[w]
      BY <2>1, <2>2 DEF HoldInv, OneHolder, Holding
    <2>4. \A v \in Worker : Holding(v)' => status'[held[v]] = status[held[v]]
      BY <1>0, <1>8, <2>2, <2>3 DEF Record, RowsTyped
    <2> QED
      BY <2>1, <2>2, <2>4, HoldersKeep
  <1>9. ASSUME NEW w \in Worker,
               \/ WorkerStops(w) \/ WorkerRetires(w) \/ WorkerProceeds(w)
               \/ ClaimNothing(w) \/ GateAborts(w) \/ RecordFails(w) \/ Announce(w)
        PROVE  HoldInv'
    <2>1. UNCHANGED status
      BY <1>9
      DEF WorkerStops, WorkerRetires, WorkerProceeds, ClaimNothing, GateAborts,
          RecordFails, Announce
    <2>2. /\ pc'[w] \in {"off", "claim", "poll", "recorded"}
          /\ \A v \in Worker \ {w} : pc'[v] = pc[v] /\ held'[v] = held[v]
      BY <1>9
      DEF WorkerStops, WorkerRetires, WorkerProceeds, ClaimNothing, GateAborts,
          RecordFails, Announce, Step, WorkersTyped
    <2> QED
      BY <2>1, <2>2, HoldersKeep DEF Holding
  <1>10. ASSUME NEW w \in Worker,
                Admit(w) \/ Register(w) \/ ExecuteReturns(w) \/ Unregister(w)
         PROVE  HoldInv'
    <2>1. UNCHANGED <<status, held>>
      BY <1>10 DEF Admit, Register, ExecuteReturns, Unregister
    <2>2. \A v \in Worker : Holding(v)' => Holding(v)
      BY <1>10
      DEF Admit, Register, ExecuteReturns, Unregister, Step, Holding, WorkersTyped
    <2> QED
      BY <2>1, <2>2, HoldersKeep
  <1>11. ASSUME NEW n \in PoolSize, Start(n)
         PROVE  HoldInv'
    <2>1. \A w \in Worker : pc'[w] \in {"off", "poll"}
      BY <1>11 DEF Start, Spawn, ProcessTyped
    <2> QED
      BY <2>1 DEF HoldInv, OneHolder, HeldRowOnlyCancelled, Holding
  <1>12. CASE BeginStop \/ Sweep \/ UNCHANGED vars \/ \E i \in Item : CancelSignal(i)
    BY <1>1, <1>12 DEF BeginStop, Sweep, CancelSignal, vars
  <1>13. CASE ExitProcess \/ Crash
    <2>1. \A w \in Worker : pc'[w] = "off"
      BY <1>13 DEF ExitProcess, Crash, Die
    <2> QED
      BY <2>1 DEF HoldInv, OneHolder, HeldRowOnlyCancelled, Holding
  <1> QED
    BY <1>2, <1>3, <1>4, <1>5, <1>6, <1>7, <1>8, <1>9, <1>10, <1>11, <1>12, <1>13
    DEF Next, Handlers, WorkerRuns, WorkerFaults, Process

LEMMA HoldInvariant == Spec => []HoldInv
  <1>1. Init => HoldInv
    BY DEF Init, HoldInv, OneHolder, HeldRowOnlyCancelled, Holding
  <1> QED
    BY <1>1, HoldStep, TypeCorrect, PTL DEF Spec

\* For any number of workers, rows and restarts, no row is worked on twice at
\* once.
THEOREM ExclusiveHolders == Spec => []OneHolder
  <1>1. HoldInv => OneHolder
    BY DEF HoldInv
  <1> QED
    BY <1>1, HoldInvariant, PTL

\* Nothing but a cancel request moves a row while a worker has it.
THEOREM HeldRowsStay == Spec => []HeldRowOnlyCancelled
  <1>1. HoldInv => HeldRowOnlyCancelled
    BY DEF HoldInv
  <1> QED
    BY <1>1, HoldInvariant, PTL

\* Two workers execute one key at a time only when one of the two rows was
\* cancelled under its worker: a consequence of the three invariants above.
THEOREM OverlapNeedsCancel == Spec => []OverlapOnlyAfterCancel
  <1>1. TypeOK /\ HoldInv /\ OneActiveRowPerKey => OverlapOnlyAfterCancel
    BY DEF TypeOK, WorkersTyped, HoldInv, OneHolder, HeldRowOnlyCancelled,
           OneActiveRowPerKey, OverlapOnlyAfterCancel, Active, Holding
  <1> QED
    BY <1>1, TypeCorrect, HoldInvariant, OneOpenRowPerKey, PTL

-----------------------------------------------------------------------------
(* No running row without a worker *)

\* A step that makes no row running and takes no worker off its row.
LEMMA AttendedKeep ==
  ASSUME RunningHasWorker, proc' = "up" => proc = "up", lost \subseteq lost',
         \A i \in Item : status'[i] = "running" => status[i] = "running",
         \A w \in Worker : Holding(w) => Holding(w)' /\ held'[w] = held[w]
  PROVE  RunningHasWorker'
  BY DEF RunningHasWorker

LEMMA AttendedStep ==
  TypeOK /\ RunningHasWorker /\ [Next]_vars => RunningHasWorker'
  <1> SUFFICES ASSUME TypeOK, RunningHasWorker, [Next]_vars
               PROVE  RunningHasWorker'
    OBVIOUS
  <1> USE DEF TypeOK, rowData, worker
  <1>1. CASE Handlers
    <2>1. proc' = proc /\ lost' = lost /\ held' = held
      BY <1>1 DEF Handlers, Enqueue, Retry, CancelSignal, CancelCommit, Purge, Resize
    <2>2. \A i \in Item : status'[i] = "running" => status[i] = "running"
      BY <1>1
      DEF Handlers, Enqueue, Retry, Insert, CancelSignal, CancelCommit, Purge, Resize,
          RowsTyped
    <2>3. \A w \in Worker : Holding(w) => Holding(w)'
      <3>1. ASSUME NEW n \in PoolSize, Resize(n)
            PROVE  \A w \in Worker : Holding(w) => Holding(w)'
        BY <3>1 DEF Resize, Spawn, Live, Holding, WorkersTyped
      <3>2. CASE UNCHANGED pc
        BY <3>2 DEF Holding
      <3> QED
        BY <1>1, <3>1, <3>2
        DEF Handlers, Enqueue, Retry, CancelSignal, CancelCommit, Purge
    <2> QED
      BY <2>1, <2>2, <2>3, AttendedKeep
  <1>2. ASSUME NEW w \in Worker, NEW i \in Item, Claim(w, i)
        PROVE  RunningHasWorker'
    <2>1. pc' = [pc EXCEPT ![w] = "gate"] /\ held' = [held EXCEPT ![w] = i]
      BY <1>2 DEF Claim, Step
    <2>2. Holding(w)' /\ held'[w] = i
      BY <2>1 DEF Holding, WorkersTyped
    <2>3. \A v \in Worker : Holding(v) => Holding(v)' /\ held'[v] = held[v]
      BY <1>2, <2>1 DEF Claim, Step, Holding, WorkersTyped
    <2>4. \A j \in Item : j # i => status'[j] = status[j]
      BY <1>2 DEF Claim, RowsTyped
    <2> QED
      BY <1>2, <2>2, <2>3, <2>4 DEF Claim, others, RunningHasWorker
  <1>3. ASSUME NEW w \in Worker, NEW i \in Item, ClaimReplyLost(w, i)
        PROVE  RunningHasWorker'
    <2>1. \A v \in Worker : Holding(v) => Holding(v)' /\ held'[v] = held[v]
      BY <1>3 DEF ClaimReplyLost, Step, others, Holding, WorkersTyped
    <2>2. \A j \in Item : j # i => status'[j] = status[j]
      BY <1>3 DEF ClaimReplyLost, RowsTyped
    <2> QED
      BY <1>3, <2>1, <2>2 DEF ClaimReplyLost, others, RunningHasWorker
  <1>4. ASSUME NEW w \in Worker, Record(w)
        PROVE  RunningHasWorker'
    <2>1. held[w] \in Item /\ outcome[w] \in {"completed", "failed", "cancelled"}
      BY <1>4 DEF Record, Step, WorkersTyped
    <2>2. status'[held[w]] # "running"
      BY <1>4, <2>1 DEF Record, WritableFrom, Active, RowsTyped
    <2>3. \A j \in Item : j # held[w] => status'[j] = status[j]
      BY <1>4 DEF Record, RowsTyped
    <2>4. \A v \in Worker \ {w} : Holding(v) => Holding(v)' /\ held'[v] = held[v]
      BY <1>4 DEF Record, Step, Holding, WorkersTyped
    <2> QED
      BY <1>4, <2>2, <2>3, <2>4 DEF Record, others, RunningHasWorker
  <1>5. ASSUME NEW w \in Worker, RecordFails(w)
        PROVE  RunningHasWorker'
    <2>1. \A v \in Worker \ {w} : Holding(v) => Holding(v)' /\ held'[v] = held[v]
      BY <1>5 DEF RecordFails, Step, Holding, WorkersTyped
    <2> QED
      BY <1>5, <2>1 DEF RecordFails, others, RunningHasWorker
  <1>6. ASSUME NEW w \in Worker, GateAborts(w)
        PROVE  RunningHasWorker'
    BY <1>6 DEF GateAborts, others, Closing, RunningHasWorker
  <1>7. ASSUME NEW w \in Worker,
               \/ WorkerStops(w) \/ WorkerRetires(w) \/ WorkerProceeds(w)
               \/ ClaimNothing(w) \/ Announce(w)
        PROVE  RunningHasWorker'
    <2>1. UNCHANGED <<status, proc, lost>>
      BY <1>7
      DEF WorkerStops, WorkerRetires, WorkerProceeds, ClaimNothing, Announce, others
    <2>2. \A v \in Worker : Holding(v) => Holding(v)' /\ held'[v] = held[v]
      BY <1>7
      DEF WorkerStops, WorkerRetires, WorkerProceeds, ClaimNothing, Announce, Step,
          Holding, WorkersTyped
    <2> QED
      BY <2>1, <2>2, AttendedKeep
  <1>8. ASSUME NEW w \in Worker,
               Admit(w) \/ Register(w) \/ ExecuteReturns(w) \/ Unregister(w)
        PROVE  RunningHasWorker'
    <2>1. UNCHANGED <<status, proc, lost, held>>
      BY <1>8 DEF Admit, Register, ExecuteReturns, Unregister, others
    <2>2. \A v \in Worker : Holding(v) => Holding(v)'
      BY <1>8
      DEF Admit, Register, ExecuteReturns, Unregister, Step, Holding, WorkersTyped
    <2> QED
      BY <2>1, <2>2, AttendedKeep
  <1>9. ASSUME NEW n \in PoolSize, Start(n)
        PROVE  RunningHasWorker'
    BY <1>9 DEF Start, RunningHasWorker, RowsTyped
  <1>10. CASE BeginStop \/ Sweep \/ ExitProcess \/ Crash
    BY <1>10 DEF BeginStop, Sweep, ExitProcess, Crash, Die, RunningHasWorker
  <1>11. CASE UNCHANGED vars
    BY <1>11, AttendedKeep DEF vars, Holding
  <1> QED
    BY <1>1, <1>2, <1>3, <1>4, <1>5, <1>6, <1>7, <1>8, <1>9, <1>10, <1>11
    DEF Next, WorkerRuns, WorkerFaults, Process

\* Between startup recovery and shutdown no row is stuck in running: it has a
\* worker or the datastore lost the worker's last word on it.
THEOREM RunningRowsAreWorkedOn == Spec => []RunningHasWorker
  <1>1. Init => RunningHasWorker
    BY DEF Init, RunningHasWorker
  <1> QED
    BY <1>1, AttendedStep, TypeCorrect, PTL DEF Spec

-----------------------------------------------------------------------------
(* Retries *)

\* A step that leaves the references alone and no ended row forgotten.
LEMMA LineageKeep ==
  ASSUME TypeOK, RetryLineage, UNCHANGED <<key, retryOf>>,
         \A i \in Item : status[i] \in Retryable => status'[i] = status[i]
  PROVE  RetryLineage'
  BY DEF TypeOK, RowsTyped, RetryLineage

LEMMA LineageInsert ==
  ASSUME TypeOK, RetryLineage, NEW i \in Item, NEW k, NEW p,
         NEW parent \in Item \cup {NoItem}, Insert(i, k, p, parent),
         parent # NoItem => status[parent] \in Retryable /\ key[parent] = k
  PROVE  RetryLineage'
  <1> USE DEF TypeOK, RowsTyped
  <1>1. status[i] = "absent" /\ status'[i] = "queued"
    BY DEF Insert, NextId
  <1>2. parent # NoItem => parent \in Item /\ parent # i /\ parent < i
    BY <1>1 DEF Insert, NextId, Retryable, Item, NoItem
  <1>3. ASSUME NEW j \in Item, j # i, retryOf'[j] # NoItem
        PROVE  /\ retryOf'[j] < j
               /\ key'[retryOf'[j]] = key'[j]
               /\ status'[retryOf'[j]] \in Retryable
    <2>1. retryOf'[j] = retryOf[j] /\ retryOf[j] \in Item /\ retryOf[j] # i
      BY <1>1, <1>3 DEF Insert, RetryLineage, Retryable
    <2> QED
      BY <1>3, <2>1 DEF Insert, RetryLineage
  <1>4. retryOf'[i] = parent /\ key'[i] = k
    BY DEF Insert
  <1>5. parent # NoItem => key'[parent] = k /\ status'[parent] = status[parent]
    BY <1>2 DEF Insert
  <1> QED
    BY <1>2, <1>3, <1>4, <1>5 DEF RetryLineage

LEMMA LineageStep == TypeOK /\ RetryLineage /\ [Next]_vars => RetryLineage'
  <1> SUFFICES ASSUME TypeOK, RetryLineage, [Next]_vars
               PROVE  RetryLineage'
    OBVIOUS
  <1> USE DEF rowData
  <1>1. ASSUME NEW i \in Item, NEW k \in Key, NEW p \in Priority, Enqueue(i, k, p)
        PROVE  RetryLineage'
    BY <1>1, LineageInsert DEF Enqueue
  <1>2. ASSUME NEW i \in Item, NEW old \in Item, Retry(i, old)
        PROVE  RetryLineage'
    BY <1>2, LineageInsert DEF Retry
  <1>3. ASSUME NEW old \in SUBSET Item, Purge(old)
        PROVE  RetryLineage'
    <2>1. ASSUME NEW i \in Item, retryOf'[i] # NoItem
          PROVE  /\ i \notin old
                 /\ retryOf'[i] = retryOf[i]
                 /\ retryOf[i] \in Item
                 /\ retryOf[i] \notin old
      BY <1>3, <2>1 DEF Purge, TypeOK, RowsTyped
    <2> QED
      BY <1>3, <2>1 DEF Purge, RetryLineage
  <1>4. CASE ~ \E i \in Item :
                  \/ \E k \in Key, p \in Priority : Enqueue(i, k, p)
                  \/ \E old \in Item : Retry(i, old)
    <2>1. CASE \E old \in SUBSET Item : Purge(old)
      BY <1>3, <2>1
    <2>2. CASE UNCHANGED <<key, retryOf>>
      <3>1. \A i \in Item : status[i] \in Retryable => key'[i] # NoKey
        BY <2>2 DEF TypeOK, RowsTyped, Retryable
      <3>2. \A i \in Item : status[i] \in Retryable => status'[i] # "purged"
        BY <3>1, TypeStep DEF TypeOK, RowsTyped
      <3>3. \A i \in Item : status[i] \in Retryable => status'[i] = status[i]
        BY <3>2, ForwardStep DEF Forward, Terminal
      <3> QED
        BY <2>2, <3>3, LineageKeep
    <2>3. CASE UNCHANGED rowData
      BY <2>2, <2>3
    <2>4. ASSUME NEW w \in Worker, WorkerRuns(w) \/ WorkerFaults(w)
          PROVE  UNCHANGED rowData
      BY <2>4
      DEF WorkerRuns, WorkerFaults, WorkerStops, WorkerRetires, WorkerProceeds,
          Claim, ClaimReplyLost, ClaimNothing, Admit, GateAborts, Register,
          ExecuteReturns, Unregister, Record, RecordFails, Announce, others
    <2> QED
      BY <1>4, <2>1, <2>3, <2>4
      DEF Next, Handlers, CancelSignal, CancelCommit, Resize,
          Process, Start, BeginStop, Sweep, ExitProcess, Crash, Die, vars
  <1> QED
    BY <1>1, <1>2, <1>4

\* A retried row always points back to an earlier row of the same key that
\* ended without success, through cancels, restarts and purges.
THEOREM RetriesPointBack == Spec => []RetryLineage
  <1>1. Init => RetryLineage
    BY DEF Init, RetryLineage
  <1> QED
    BY <1>1, LineageStep, TypeCorrect, PTL DEF Spec

-----------------------------------------------------------------------------
(* The pool *)

LEMMA LiveFinite == IsFiniteSet(Live) /\ Cardinality(Live) \in Nat
  BY FS_Subset, FS_CardinalityType, QueueAssumption DEF Live

\* A step that starts and ends no goroutine and leaves the pool's size alone.
LEMMA PoolKeep ==
  ASSUME PoolAccounted, UNCHANGED pool, proc' = "up" => proc = "up",
         \A w \in Worker : pc'[w] = "off" <=> pc[w] = "off"
  PROVE  PoolAccounted'
  <1>1. Live' = Live
    BY DEF Live
  <1> QED
    BY <1>1 DEF PoolAccounted, pool

\* One goroutine leaves and counts itself out.
LEMMA PoolLeave ==
  ASSUME TypeOK, PoolAccounted, NEW w \in Worker, Step(w, "poll", "off"),
         active' = active - 1, UNCHANGED <<target, proc>>,
         proc = "up" => active > target
  PROVE  PoolAccounted'
  <1> USE DEF TypeOK, WorkersTyped, ProcessTyped
  <1>1. w \in Live /\ Live' = Live \ {w}
    BY DEF Step, Live
  <1>2. active' = Cardinality(Live')
    BY <1>1, LiveFinite, FS_RemoveElement DEF PoolAccounted
  <1>3. active' > 0 => \E n \in PoolSize \cup {1} : active' <= n
    BY QueueAssumption DEF PoolAccounted
  <1> QED
    BY <1>2, <1>3 DEF PoolAccounted

\* n goroutines join.
LEMMA PoolJoin ==
  ASSUME TypeOK, NEW n \in Nat, Spawn(n)
  PROVE  Cardinality(Live') = Cardinality(Live) + n
  <1>1. PICK S \in SUBSET (Worker \ Live) :
           /\ Cardinality(S) = n
           /\ pc' = [w \in Worker |-> IF w \in S THEN "poll" ELSE pc[w]]
    BY DEF Spawn
  <1>2. Live' = Live \cup S /\ Live \cap S = {}
    BY <1>1 DEF Live
  <1>3. IsFiniteSet(S)
    BY FS_Subset, QueueAssumption
  <1>4. Cardinality(Live \cup S) = Cardinality(Live) + Cardinality(S) - Cardinality(Live \cap S)
    BY <1>3, LiveFinite, FS_Union
  <1>5. Cardinality(Live \cap S) = 0
    BY <1>2, FS_EmptySet
  <1> QED
    BY <1>1, <1>2, <1>4, <1>5, LiveFinite

LEMMA PoolStep == TypeOK /\ PoolAccounted /\ [Next]_vars => PoolAccounted'
  <1> SUFFICES ASSUME TypeOK, PoolAccounted, [Next]_vars
               PROVE  PoolAccounted'
    OBVIOUS
  <1> USE DEF TypeOK, WorkersTyped, ProcessTyped
  <1>1. ASSUME NEW n \in PoolSize, Resize(n)
        PROVE  PoolAccounted'
    <2> DEFINE want == IF n < 1 THEN 1 ELSE n
    <2>1. want \in Nat /\ want \in PoolSize \cup {1} /\ target' = want /\ proc' = proc
      BY <1>1, QueueAssumption DEF Resize
    <2>2. CASE want > active
      <3>1. active' = want /\ Spawn(want - active) /\ want - active \in Nat
        BY <1>1, <2>1, <2>2 DEF Resize
      <3>2. Cardinality(Live') = want
        BY <2>1, <3>1, PoolJoin, LiveFinite DEF PoolAccounted
      <3> HIDE DEF want
      <3>3. want <= want
        BY <2>1
      <3> QED
        BY <2>1, <3>1, <3>2, <3>3 DEF PoolAccounted
    <2>3. CASE ~(want > active)
      <3>1. UNCHANGED <<pc, active>>
        BY <1>1, <2>3 DEF Resize
      <3>2. Live' = Live
        BY <3>1 DEF Live
      <3> QED
        BY <2>1, <2>3, <3>1, <3>2 DEF PoolAccounted
    <2> QED
      BY <2>2, <2>3
  <1>2. ASSUME NEW w \in Worker, WorkerStops(w)
        PROVE  PoolAccounted'
    BY <1>2, PoolLeave DEF WorkerStops, others, Closing
  <1>3. ASSUME NEW w \in Worker, WorkerRetires(w)
        PROVE  PoolAccounted'
    BY <1>3, PoolLeave DEF WorkerRetires, others
  <1>4. ASSUME NEW n \in PoolSize, n >= 1, Start(n)
        PROVE  PoolAccounted'
    <2>1. Live = {} /\ n \in Nat
      BY <1>4, QueueAssumption DEF Start, Live
    <2>2. Cardinality(Live') = n
      BY <1>4, <2>1, PoolJoin, FS_EmptySet DEF Start
    <2> QED
      BY <1>4, <2>1, <2>2 DEF Start, PoolAccounted
  <1>5. CASE ExitProcess \/ Crash
    <2>1. Live' = {} /\ active' = 0 /\ proc' = "down"
      BY <1>5 DEF ExitProcess, Crash, Die, Live
    <2> QED
      BY <2>1, FS_EmptySet DEF PoolAccounted
  <1>6. ASSUME NEW w \in Worker,
               \/ WorkerProceeds(w) \/ \E i \in Item : Claim(w, i) \/ ClaimReplyLost(w, i)
               \/ ClaimNothing(w) \/ Admit(w) \/ GateAborts(w) \/ Register(w)
               \/ ExecuteReturns(w) \/ Unregister(w) \/ Record(w) \/ RecordFails(w)
               \/ Announce(w)
        PROVE  PoolAccounted'
    <2>1. UNCHANGED <<proc, pool>>
      BY <1>6
      DEF WorkerProceeds, Claim, ClaimReplyLost, ClaimNothing, Admit, GateAborts,
          Register, ExecuteReturns, Unregister, Record, RecordFails, Announce, others,
          pool
    <2>2. \A v \in Worker : pc'[v] = "off" <=> pc[v] = "off"
      BY <1>6
      DEF WorkerProceeds, Claim, ClaimReplyLost, ClaimNothing, Admit, GateAborts,
          Register, ExecuteReturns, Unregister, Record, RecordFails, Announce, Step
    <2> QED
      BY <2>1, <2>2, PoolKeep
  <1>7. CASE \/ \E i \in Item, k \in Key, p \in Priority : Enqueue(i, k, p)
             \/ \E i, old \in Item : Retry(i, old)
             \/ \E i \in Item : CancelSignal(i) \/ CancelCommit(i)
             \/ \E old \in SUBSET Item : Purge(old)
             \/ BeginStop \/ Sweep \/ UNCHANGED vars
    <2>1. UNCHANGED <<pool, pc>> /\ (proc' = "up" => proc = "up")
      BY <1>7
      DEF Enqueue, Retry, CancelSignal, CancelCommit, Purge, BeginStop, Sweep,
          vars, worker
    <2> QED
      BY <2>1, PoolKeep
  <1> QED
    BY <1>1, <1>2, <1>3, <1>4, <1>5, <1>6, <1>7
    DEF Next, Handlers, WorkerRuns, WorkerFaults, Process

\* For any pool sizes and any interleaving of SetWorkerCount with workers that
\* stop or retire, activeWorkers is the number of goroutines and an open pool
\* has at least its target.
THEOREM PoolIsAccounted == Spec => []PoolAccounted
  <1>1. Init => PoolAccounted
    BY FS_EmptySet DEF Init, PoolAccounted, Live
  <1> QED
    BY <1>1, PoolStep, TypeCorrect, PTL DEF Spec

-----------------------------------------------------------------------------
(* The life of a row, by what the ledger promises *)

Promise == INSTANCE KitchenRunLedgerProofs

LEMMA PromiseBegins == Ledger!LedgerInit => Promise!LedgerInit
  BY DEF Ledger!LedgerInit, Promise!LedgerInit

LEMMA PromiseSteps ==
  [Ledger!LedgerNext]_Ledger!ledgerVars => [Promise!LedgerNext]_Promise!ledgerVars
  BY DEF Ledger!LedgerNext, Promise!LedgerNext, Ledger!ledgerVars, Promise!ledgerVars,
     Ledger!Submit, Promise!Submit, Ledger!Begin, Promise!Begin, Ledger!Withdraw,
     Promise!Withdraw, Ledger!Finish, Promise!Finish, Ledger!Recover, Promise!Recover,
     Ledger!Forget, Promise!Forget, Ledger!Become, Promise!Become, Ledger!Open,
     Promise!Open, Ledger!Ended, Promise!Ended

\* Whatever workers, handlers, purges and crashes do to it, a row is made once,
\* claimed at most once and ended at most once, and keeps its key until the purge.
THEOREM QueueRowsAdvance == Spec => [][Promise!RowsAdvance]_<<status, key>>
  <1>1. Spec => Promise!LedgerSpec
    BY QueueImplementsLedger, PromiseBegins, PromiseSteps, PTL
    DEF ImplementsLedger, Ledger!LedgerSpec, Promise!LedgerSpec
  <1> QED
    BY <1>1, Promise!LedgerAdvances, PTL DEF Promise!ledgerVars

Over == Terminal \cup {"purged"}

LEMMA OverOnce ==
  ASSUME NEW i \in Item, TypeOK', [Promise!RowsAdvance]_<<status, key>>
  PROVE  /\ status[i] \in Active => status'[i] \in Active \cup Over
         /\ status[i] \in Over => status'[i] \in Over
  <1> USE Promise!Ranks DEF Over, Active, Terminal, Retryable, Promise!Ended
  <1>1. status'[i] \in Status
    BY DEF TypeOK, RowsTyped
  <1>2. CASE Promise!RowsAdvance
    <2>1. status'[i] = status[i] \/ Promise!Rank(status[i]) < Promise!Rank(status'[i])
      BY <1>2 DEF Promise!RowsAdvance
    <2> QED
      BY <1>1, <2>1 DEF Status
  <1>3. CASE UNCHANGED <<status, key>>
    BY <1>3
  <1> QED
    BY <1>2, <1>3

\* OpenRowsEnd says that a row is found ended, or lost, again and again.  Since
\* nothing reopens a row, one that is accepted comes to an end that nothing undoes,
\* or the datastore lost the worker's word on it.
THEOREM RowsEndForGood ==
  ASSUME NEW i \in Item
  PROVE  Spec /\ PoolSettles /\ OpenRowsEnd =>
            (status[i] \in Active ~> i \in lost \/ [](status[i] \in Over))
  <1>1. PoolSettles /\ OpenRowsEnd => []<>(status[i] \in Active => i \in lost)
    BY DEF OpenRowsEnd
  <1>2. TypeOK' /\ [Promise!RowsAdvance]_<<status, key>>
          => /\ status[i] \in Active => (status[i] \in Active)' \/ (status[i] \in Over)'
             /\ status[i] \in Over => (status[i] \in Over)'
    BY OverOnce
  <1> QED
    BY <1>1, <1>2, QueueRowsAdvance, TypeCorrect, PTL

=============================================================================
