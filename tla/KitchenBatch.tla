---------------------------- MODULE KitchenBatch ----------------------------
(***************************************************************************)
(* Kitchen batches: the run, cancel and delete handlers, the goroutine     *)
(* that executes a batch through the run queue, the router's map of        *)
(* running batches, and the clean-up at start.  The queue below it is      *)
(* KitchenRunLedger: workers, other users and the queue's own recovery     *)
(* take its steps.                                                         *)
(*                                                                         *)
(* A batch goroutine makes every datastore call under its own context; a   *)
(* call under a cancelled context does nothing.  Handlers and goroutines   *)
(* interleave between any two calls.                                       *)
(***************************************************************************)
EXTENDS Integers, FiniteSets

CONSTANTS
    Batch,
    DryBatch,    \* the batches with dry_run set
    Run,         \* requests to run a batch
    RunOf,       \* which batch a request is for
    Instances,   \* how many kitchen instances there are
    MaxItems,    \* how many queue rows a behaviour may insert
    ListLimit,   \* the LIMIT of the goroutine's queue listing
    MaxBoots,    \* how many times the process may start
    NoRun, NoBatch, NoKey

Instance == 1..Instances

Item == 1..MaxItems

ASSUME BatchAssumption ==
    /\ DryBatch \subseteq Batch
    /\ RunOf \in [Run -> Batch]
    /\ Instances \in Nat
    /\ MaxItems \in Nat
    /\ ListLimit \in Nat \ {0}
    /\ MaxBoots \in Nat
    /\ NoRun \notin Run
    /\ NoBatch \notin Batch
    /\ NoKey \notin Instance

VARIABLES
    proc,        \* "down", "starting" (the queue runs, the router does not), "up"
    boots,
    bstatus,     \* kitchen_batches.status
    inst,        \* kitchen_batch_instances.status, per run that created the row
    rpc,         \* per run: where its handler or its goroutine is
    ctxDone,     \* the run's batch context is cancelled
    todo,        \* instances the run has planned and not offered to the queue
    sent,        \* the queue accepted something from the run
    imap,        \* the run's instanceMap: instances without a verdict
    seen,        \* what the run's last listing of the queue showed
    entry,       \* Router.runningBatch: whose cancel function it holds
    cpc,         \* per batch: where its cancel handler is
    status,      \* kitchen_run_queue.status
    key,         \* the queue row's instance
    owner,       \* the queue row's batch_id
    began,       \* order of started_at among queue rows, 0 for NULL
    lost         \* ghost: batches of which the datastore failed a statement

run == <<rpc, ctxDone, todo, sent, imap, seen>>
queue == <<status, key, owner, began>>
vars == <<proc, boots, bstatus, inst, run, entry, cpc, lost, queue>>

Queue == INSTANCE KitchenRunLedger WITH Key <- Instance

-----------------------------------------------------------------------------
(* Helpers *)

BatchStatus == {"draft", "previewing", "preparing", "running",
                "completed", "cancelled", "failed", "deleted"}

InHandler == {"checked", "guarded", "previewing", "resolving"}

InGoroutine == {"prepare", "failPreparing", "failRunning", "failed", "prepared",
                "enqueue", "refused", "poll", "sync", "finalize", "closing", "exiting"}

Opened == {"queued", "running"}

\* The next instance in the order of the plans.  Which order that is does not
\* matter, as long as it is one.
NextOf(S) == CHOOSE x \in S : TRUE

Goto(r, from, to) == rpc[r] = from /\ rpc' = [rpc EXCEPT ![r] = to]

\* A statement of the run's goroutine reaches the datastore.
Reaches(r) == ~ctxDone[r]

\* UpdateKitchenBatchStatus
SetStatus(b, s) == bstatus' = [bstatus EXCEPT ![b] = IF @ = "deleted" THEN @ ELSE s]

\* As CompareAndSet, were the status not compared.
SetUnderContext(r, from, to) ==
    bstatus' = [bstatus EXCEPT ![RunOf[r]] = IF Reaches(r) /\ @ # "deleted" THEN to ELSE @]

\* UpdateKitchenBatchStatusIfCurrent, under the run's context
CompareAndSet(r, from, to) ==
    bstatus' = [bstatus EXCEPT ![RunOf[r]] = IF Reaches(r) /\ @ = from THEN to ELSE @]

\* CancelPendingBatchInstances
CancelPending(b) ==
    inst' = [r \in Run |->
               IF RunOf[r] = b
               THEN [x \in Instance |-> IF inst[r][x] = "pending" THEN "cancelled" ELSE inst[r][x]]
               ELSE inst[r]]

RowsOf(b) == {i \in Item : owner[i] = b}

\* ORDER BY started_at DESC NULLS LAST, enqueued_at DESC
Before(i, j) == began[i] > began[j] \/ (began[i] = began[j] /\ i > j)

\* As Listed, were the filter on batch_id forgotten.
ListedOfAnyBatch(b) == {i \in Item : Cardinality({j \in Item : Before(j, i)}) < ListLimit}

\* ListKitchenQueue
Listed(b) == {i \in RowsOf(b) : Cardinality({j \in RowsOf(b) : Before(j, i)}) < ListLimit}

\* As Verdict, were the status of the row taken as it is.
VerdictAsIs(s) == s

\* queueStatusToBatchStatus
Verdict(s) == CASE s = "completed" -> "passed"
                [] s = "failed" -> "errored"
                [] s \in {"cancelled", "interrupted"} -> "cancelled"

\* The verdict of the first listed row of each instance that has ended.
VerdictsOf(r) ==
    LET ended == {i \in Listed(RunOf[r]) : status[i] \in Queue!Ended /\ key[i] \in imap[r]}
        first == {i \in ended : \A j \in ended : key[j] = key[i] => ~Before(j, i)}
    IN  {<<key[i], Verdict(status[i])>> : i \in first}

-----------------------------------------------------------------------------
(* handleRunKitchenBatch *)

\* GetKitchenBatch and the check for "draft".
ReadBatch(r) ==
    /\ proc = "up"
    /\ IF bstatus[RunOf[r]] = "draft" THEN Goto(r, "start", "checked")
                                      ELSE Goto(r, "start", "gone")
    /\ UNCHANGED <<proc, boots, bstatus, inst, ctxDone, todo, sent, imap, seen, entry, cpc, lost, queue>>

\* The single-running-batch guard.
Guard(r) ==
    /\ RunOf[r] \notin DryBatch
    /\ IF \A b \in Batch : entry[b] = NoRun THEN Goto(r, "checked", "guarded")
                                            ELSE Goto(r, "checked", "gone")
    /\ UNCHANGED <<proc, boots, bstatus, inst, ctxDone, todo, sent, imap, seen, entry, cpc, lost, queue>>

\* draft -> preparing, without a condition.
SetPreparing(r) ==
    /\ IF bstatus[RunOf[r]] = "deleted" THEN Goto(r, "guarded", "gone")
                                        ELSE Goto(r, "guarded", "resolving")
    /\ SetStatus(RunOf[r], "preparing")
    /\ UNCHANGED <<proc, boots, inst, ctxDone, todo, sent, imap, seen, entry, cpc, lost, queue>>

\* The cancel function is entered in the map and the goroutine started.
Launch(r) ==
    /\ Goto(r, "resolving", "prepare")
    /\ entry' = [entry EXCEPT ![RunOf[r]] = r]
    /\ UNCHANGED <<proc, boots, bstatus, inst, ctxDone, todo, sent, imap, seen, cpc, lost, queue>>

\* handleRunDryRunBatch: draft -> previewing -> completed, without a condition.
Preview(r) ==
    /\ RunOf[r] \in DryBatch
    /\ IF bstatus[RunOf[r]] = "deleted" THEN Goto(r, "checked", "gone")
                                        ELSE Goto(r, "checked", "previewing")
    /\ SetStatus(RunOf[r], "previewing")
    /\ UNCHANGED <<proc, boots, inst, ctxDone, todo, sent, imap, seen, entry, cpc, lost, queue>>

CompletePreview(r) ==
    /\ Goto(r, "previewing", "gone")
    /\ SetStatus(RunOf[r], "completed")
    /\ UNCHANGED <<proc, boots, inst, ctxDone, todo, sent, imap, seen, entry, cpc, lost, queue>>

-----------------------------------------------------------------------------
(* executeBatch *)

\* prepareBatchInstances: the rows of all instances are created, or none is:
\* nothing resolved, a cancelled context, a batch that was deleted.
Prepare(r, plan) ==
    /\ plan # {} => Reaches(r) /\ bstatus[RunOf[r]] # "deleted"
    /\ Goto(r, "prepare", IF plan = {} THEN "failPreparing" ELSE "prepared")
    /\ inst' = [inst EXCEPT ![r] = [x \in Instance |-> IF x \in plan THEN "pending" ELSE @[x]]]
    /\ todo' = [todo EXCEPT ![r] = plan]
    /\ imap' = [imap EXCEPT ![r] = plan]
    /\ UNCHANGED <<proc, boots, bstatus, ctxDone, sent, seen, entry, cpc, lost, queue>>

\* preparing -> running, unless somebody changed the status meanwhile.  A run
\* that finds no target version configured fails right after.
StartRunning(r, next) ==
    /\ Goto(r, "prepared", IF Reaches(r) /\ bstatus[RunOf[r]] = "preparing" THEN next ELSE "exiting")
    /\ CompareAndSet(r, "preparing", "running")
    /\ UNCHANGED <<proc, boots, inst, ctxDone, todo, sent, imap, seen, entry, cpc, lost, queue>>

\* failBatch: the status first, the pending instances second.
FailBatch(r) ==
    /\ \/ Goto(r, "failPreparing", "failed") /\ CompareAndSet(r, "preparing", "failed")
       \/ Goto(r, "failRunning", "failed") /\ CompareAndSet(r, "running", "failed")
    /\ UNCHANGED <<proc, boots, inst, ctxDone, todo, sent, imap, seen, entry, cpc, lost, queue>>

FailInstances(r) ==
    /\ Goto(r, "failed", "exiting")
    /\ IF Reaches(r) THEN CancelPending(RunOf[r]) ELSE UNCHANGED inst
    /\ UNCHANGED <<proc, boots, bstatus, ctxDone, todo, sent, imap, seen, entry, cpc, lost, queue>>

\* The next planned instance is offered to the queue and accepted ...
EnqueueInstance(r, i) ==
    /\ rpc[r] = "enqueue"
    /\ todo[r] # {}
    /\ Reaches(r)
    /\ bstatus[RunOf[r]] # "deleted"
    /\ \A j \in Item : j < i => status[j] # "absent"
    /\ Queue!Submit(i, NextOf(todo[r]))
    /\ owner' = [owner EXCEPT ![i] = RunOf[r]]
    /\ todo' = [todo EXCEPT ![r] = @ \ {NextOf(todo[r])}]
    /\ sent' = [sent EXCEPT ![r] = TRUE]
    /\ UNCHANGED <<proc, boots, bstatus, inst, rpc, ctxDone, imap, seen, entry, cpc, lost, began>>

\* ... or refused: a run of it is open already, the context is cancelled, the
\* batch is gone or the statement fails.
EnqueueRefused(r) ==
    /\ todo[r] # {}
    /\ Goto(r, "enqueue", "refused")
    /\ UNCHANGED <<proc, boots, bstatus, inst, ctxDone, todo, sent, imap, seen, entry, cpc, lost, queue>>

\* The write of a verdict is not checked: it may be lost.
Note(r, x, v) ==
    \/ inst' = [inst EXCEPT ![r][x] = IF Reaches(r) /\ @ # "none" THEN v ELSE @]
    \/ UNCHANGED inst

NoteRefusal(r) ==
    /\ Goto(r, "refused", "enqueue")
    /\ Note(r, NextOf(todo[r]), "errored")
    /\ todo' = [todo EXCEPT ![r] = @ \ {NextOf(todo[r])}]
    /\ UNCHANGED <<proc, boots, bstatus, ctxDone, sent, imap, seen, entry, cpc, lost, queue>>

EnqueueDone(r) ==
    /\ todo[r] = {}
    /\ Goto(r, "enqueue", IF sent[r] THEN "poll" ELSE "finalize")
    /\ UNCHANGED <<proc, boots, bstatus, inst, ctxDone, todo, sent, imap, seen, entry, cpc, lost, queue>>

\* The branch for a cancelled context.  Its three datastore calls are made under
\* that context and do nothing.
PollCancelled(r) ==
    /\ ctxDone[r]
    /\ Goto(r, "poll", "finalize")
    /\ UNCHANGED <<proc, boots, bstatus, inst, ctxDone, todo, sent, imap, seen, entry, cpc, lost, queue>>

\* syncBatchProgress lists the queue rows of the batch ...
List(r) ==
    /\ Reaches(r)
    /\ Goto(r, "poll", "sync")
    /\ seen' = [seen EXCEPT ![r] =
          [verdicts |-> VerdictsOf(r),
           allEnded |-> \A i \in Listed(RunOf[r]) : status[i] \notin Opened]]
    /\ UNCHANGED <<proc, boots, bstatus, inst, ctxDone, todo, sent, imap, entry, cpc, lost, queue>>

\* ... and writes the verdicts it read.
WriteVerdict(r, v) ==
    /\ rpc[r] = "sync"
    /\ v \in seen[r].verdicts
    /\ Note(r, v[1], v[2])
    /\ imap' = [imap EXCEPT ![r] = @ \ {v[1]}]
    /\ seen' = [seen EXCEPT ![r].verdicts = @ \ {v}]
    /\ UNCHANGED <<proc, boots, bstatus, rpc, ctxDone, todo, sent, entry, cpc, lost, queue>>

Synced(r) ==
    /\ seen[r].verdicts = {}
    /\ Goto(r, "sync", IF seen[r].allEnded THEN "finalize" ELSE "poll")
    /\ seen' = [seen EXCEPT ![r].allEnded = FALSE]
    /\ UNCHANGED <<proc, boots, bstatus, inst, ctxDone, todo, sent, imap, entry, cpc, lost, queue>>

\* As FinalizeInstances, were instances cancelled only of a run that sent none.
FinalizeUnsentInstances(r) ==
    /\ Goto(r, "finalize", "closing")
    /\ IF Reaches(r) /\ ~sent[r] THEN CancelPending(RunOf[r]) ELSE UNCHANGED inst
    /\ UNCHANGED <<proc, boots, bstatus, ctxDone, todo, sent, imap, seen, entry, cpc, lost, queue>>

\* finalizeBatch: pending instances first, the status second.  Under a cancelled
\* context neither reaches the datastore.
FinalizeInstances(r) ==
    /\ Goto(r, "finalize", "closing")
    /\ IF Reaches(r) THEN CancelPending(RunOf[r]) ELSE UNCHANGED inst
    /\ UNCHANGED <<proc, boots, bstatus, ctxDone, todo, sent, imap, seen, entry, cpc, lost, queue>>

\* As FinalizeStatus, were the status expected that the run began with.
FinalizePreparing(r) ==
    /\ Goto(r, "closing", "exiting")
    /\ CompareAndSet(r, "preparing", "completed")
    /\ UNCHANGED <<proc, boots, inst, ctxDone, todo, sent, imap, seen, entry, cpc, lost, queue>>

FinalizeStatus(r) ==
    /\ Goto(r, "closing", "exiting")
    /\ CompareAndSet(r, "running", "completed")
    /\ UNCHANGED <<proc, boots, inst, ctxDone, todo, sent, imap, seen, entry, cpc, lost, queue>>

\* The deferred function of executeBatch.
Exit(r) ==
    /\ Goto(r, "exiting", "gone")
    /\ entry' = [entry EXCEPT ![RunOf[r]] = NoRun]
    /\ UNCHANGED <<proc, boots, bstatus, inst, ctxDone, todo, sent, imap, seen, cpc, lost, queue>>

\* A status change fails, before or after the datastore made it, and the handler
\* or the goroutine gives up.
StatusFails(r) ==
    /\ \/ Goto(r, "guarded", "gone") /\ SetStatus(RunOf[r], "preparing")
       \/ Goto(r, "guarded", "gone") /\ UNCHANGED bstatus
       \/ Goto(r, "prepared", "exiting") /\ CompareAndSet(r, "preparing", "running")
       \/ Goto(r, "prepared", "exiting") /\ UNCHANGED bstatus
    /\ lost' = lost \cup {RunOf[r]}
    /\ UNCHANGED <<proc, boots, inst, ctxDone, todo, sent, imap, seen, entry, cpc, queue>>

\* Any other statement fails; nobody repeats it.
StatementFails(r) ==
    /\ \/ Goto(r, "failPreparing", "failed")
       \/ Goto(r, "failRunning", "failed")
       \/ Goto(r, "failed", "exiting")
       \/ Goto(r, "finalize", "closing")
       \/ Goto(r, "closing", "exiting")
       \/ Goto(r, "previewing", "gone")
    /\ lost' = lost \cup {RunOf[r]}
    /\ UNCHANGED <<proc, boots, bstatus, inst, ctxDone, todo, sent, imap, seen, entry, cpc, queue>>

-----------------------------------------------------------------------------
(* handleCancelKitchenBatch and handleDeleteKitchenBatch *)

CancelStep(b, from, to) == cpc[b] = from /\ cpc' = [cpc EXCEPT ![b] = to]

\* GetKitchenBatch and the check of its status.
CancelRead(b) ==
    /\ proc = "up"
    /\ bstatus[b] \in {"running", "previewing", "preparing"}
    /\ CancelStep(b, "idle", "read")
    /\ UNCHANGED <<proc, boots, bstatus, inst, run, entry, lost, queue>>

\* The status is set without a condition.
CancelSet(b) ==
    /\ CancelStep(b, "read", IF bstatus[b] = "deleted" THEN "idle" ELSE "set")
    /\ SetStatus(b, "cancelled")
    /\ UNCHANGED <<proc, boots, inst, run, entry, lost, queue>>

\* As CancelSignal, were the entry deleted at once.
CancelSignalDeletes(b) ==
    /\ CancelStep(b, "set", "signalled")
    /\ ctxDone' = [r \in Run |-> ctxDone[r] \/ entry[b] = r]
    /\ entry' = [entry EXCEPT ![b] = NoRun]
    /\ UNCHANGED <<proc, boots, bstatus, inst, rpc, todo, sent, imap, seen, lost, queue>>

\* The cancel function in the map is called, if there is one.
CancelSignal(b) ==
    /\ CancelStep(b, "set", "signalled")
    /\ ctxDone' = [r \in Run |-> ctxDone[r] \/ entry[b] = r]
    /\ UNCHANGED <<proc, boots, bstatus, inst, rpc, todo, sent, imap, seen, entry, lost, queue>>

CancelInstances(b) ==
    /\ CancelStep(b, "signalled", "idle")
    /\ CancelPending(b)
    /\ UNCHANGED <<proc, boots, bstatus, run, entry, lost, queue>>

\* A statement of the cancel handler fails.  The last one is not checked.
CancelFails(b) ==
    /\ CancelStep(b, "read", "idle") \/ CancelStep(b, "signalled", "idle")
    /\ lost' = lost \cup {b}
    /\ UNCHANGED <<proc, boots, bstatus, inst, run, entry, queue>>

\* DeleteKitchenBatch: instances go with the batch, queue rows lose their batch_id.
Delete(b) ==
    /\ proc = "up"
    /\ bstatus[b] \in {"draft", "completed", "cancelled", "failed"}
    /\ bstatus' = [bstatus EXCEPT ![b] = "deleted"]
    /\ inst' = [r \in Run |->
                  IF RunOf[r] = b THEN [x \in Instance |-> "none"] ELSE inst[r]]
    /\ owner' = [i \in Item |-> IF owner[i] = b THEN NoBatch ELSE owner[i]]
    /\ UNCHANGED <<proc, boots, run, entry, cpc, lost, status, key, began>>

-----------------------------------------------------------------------------
(* The queue: its workers, its other users and its own recovery. *)

\* A worker claims a row.
ClaimRow(i) ==
    /\ proc # "down"
    /\ Queue!Begin(i)
    /\ began' = [began EXCEPT ![i] = 1 + Cardinality({j \in Item : began[j] # 0})]
    /\ UNCHANGED <<proc, boots, bstatus, inst, run, entry, cpc, lost, owner>>

EndRow(i) ==
    /\ proc # "down"
    /\ \/ \E s \in {"completed", "failed"} : Queue!Finish(i, s)
       \/ status[i] = "running" /\ Queue!Withdraw(i)
    /\ UNCHANGED <<proc, boots, bstatus, inst, run, entry, cpc, lost, owner, began>>

\* Somebody else submits a run of an instance, retries an ended row, which copies
\* its batch_id, or cancels a row.
OthersSubmit(i, x) ==
    /\ proc = "up"
    /\ \A j \in Item : j < i => status[j] # "absent"
    /\ Queue!Submit(i, x)
    /\ UNCHANGED <<proc, boots, bstatus, inst, run, entry, cpc, lost, owner, began>>

OthersRetry(i, old) ==
    /\ proc = "up"
    /\ status[old] \in {"failed", "cancelled", "interrupted"}
    /\ \A j \in Item : j < i => status[j] # "absent"
    /\ Queue!Submit(i, key[old])
    /\ owner' = [owner EXCEPT ![i] = owner[old]]
    /\ UNCHANGED <<proc, boots, bstatus, inst, run, entry, cpc, lost, began>>

OthersCancel(i) ==
    /\ proc = "up"
    /\ Queue!Withdraw(i)
    /\ UNCHANGED <<proc, boots, bstatus, inst, run, entry, cpc, lost, owner, began>>

-----------------------------------------------------------------------------
(* The process *)

\* Queue recovery, after which the workers run ...
StartQueue ==
    /\ proc = "down"
    /\ boots < MaxBoots
    /\ boots' = boots + 1
    /\ proc' = "starting"
    /\ Queue!Recover
    /\ UNCHANGED <<bstatus, inst, run, entry, cpc, lost, owner, began>>

\* As CancelStale, were batches forgotten that were still preparing.
CancelStaleRunning ==
    /\ bstatus' = [b \in Batch |-> IF bstatus[b] = "running" THEN "cancelled" ELSE bstatus[b]]
    /\ lost' = lost \ {b \in Batch : bstatus[b] = "running"}

\* CancelStaleBatches; a failure of it is logged and no more.
CancelStale ==
    LET stale == {b \in Batch : bstatus[b] \in {"running", "preparing"}}
    IN  \/ /\ bstatus' = [b \in Batch |-> IF b \in stale THEN "cancelled" ELSE bstatus[b]]
           /\ lost' = lost \ stale
        \/ /\ UNCHANGED bstatus
           /\ lost' = lost \cup stale

\* ... and NewRouter, which cancels stale batches before it serves.
StartRouter ==
    /\ proc = "starting"
    /\ proc' = "up"
    /\ CancelStale
    /\ UNCHANGED <<boots, inst, run, entry, cpc, queue>>

NothingSeen == [verdicts |-> {}, allEnded |-> FALSE]

\* The process ends: goroutines, contexts and the map go.
Crash ==
    /\ proc # "down"
    /\ boots < MaxBoots
    /\ proc' = "down"
    /\ rpc' = [r \in Run |-> IF rpc[r] = "start" THEN "start" ELSE "gone"]
    /\ ctxDone' = [r \in Run |-> FALSE]
    /\ todo' = [r \in Run |-> {}]
    /\ sent' = [r \in Run |-> FALSE]
    /\ imap' = [r \in Run |-> {}]
    /\ seen' = [r \in Run |-> NothingSeen]
    /\ entry' = [b \in Batch |-> NoRun]
    /\ cpc' = [b \in Batch |-> "idle"]
    /\ UNCHANGED <<boots, bstatus, inst, lost, queue>>

-----------------------------------------------------------------------------

Init ==
    /\ proc = "down"
    /\ boots = 0
    /\ bstatus = [b \in Batch |-> "draft"]
    /\ inst = [r \in Run |-> [x \in Instance |-> "none"]]
    /\ rpc = [r \in Run |-> "start"]
    /\ ctxDone = [r \in Run |-> FALSE]
    /\ todo = [r \in Run |-> {}]
    /\ sent = [r \in Run |-> FALSE]
    /\ imap = [r \in Run |-> {}]
    /\ seen = [r \in Run |-> NothingSeen]
    /\ entry = [b \in Batch |-> NoRun]
    /\ cpc = [b \in Batch |-> "idle"]
    /\ lost = {}
    /\ Queue!LedgerInit
    /\ owner = [i \in Item |-> NoBatch]
    /\ began = [i \in Item |-> 0]

RunStep(r) ==
    \/ Guard(r)
    \/ SetPreparing(r)
    \/ Launch(r)
    \/ Preview(r)
    \/ CompletePreview(r)
    \/ \E plan \in SUBSET Instance : Prepare(r, plan)
    \/ \E next \in {"enqueue", "failRunning"} : StartRunning(r, next)
    \/ FailBatch(r)
    \/ FailInstances(r)
    \/ \E i \in Item : EnqueueInstance(r, i)
    \/ EnqueueRefused(r)
    \/ NoteRefusal(r)
    \/ EnqueueDone(r)
    \/ PollCancelled(r)
    \/ List(r)
    \/ \E v \in seen[r].verdicts : WriteVerdict(r, v)
    \/ Synced(r)
    \/ FinalizeInstances(r)
    \/ FinalizeStatus(r)
    \/ Exit(r)

CancelHandler(b) ==
    \/ CancelSet(b)
    \/ CancelSignal(b)
    \/ CancelInstances(b)

QueueStep ==
    \/ \E i \in Item : ClaimRow(i) \/ EndRow(i) \/ OthersCancel(i)
    \/ \E i \in Item, x \in Instance : OthersSubmit(i, x)
    \/ \E i, old \in Item : OthersRetry(i, old)

Process == StartQueue \/ StartRouter \/ Crash

Next ==
    \/ \E r \in Run : ReadBatch(r) \/ RunStep(r) \/ StatusFails(r) \/ StatementFails(r)
    \/ \E b \in Batch : CancelRead(b) \/ CancelHandler(b) \/ CancelFails(b) \/ Delete(b)
    \/ QueueStep
    \/ Process

Spec == Init /\ [][Next]_vars

\* Handlers and goroutines are scheduled, workers claim and end rows, a started
\* process gets to serve.
FairSpec ==
    /\ Spec
    /\ \A r \in Run : WF_vars(RunStep(r))
    /\ \A b \in Batch : WF_vars(CancelHandler(b))
    /\ \A i \in Item : WF_vars(ClaimRow(i)) /\ WF_vars(EndRow(i))
    /\ WF_vars(StartQueue)
    /\ WF_vars(StartRouter)

-----------------------------------------------------------------------------
(* Properties *)

BatchTypeOK ==
    /\ proc \in {"down", "starting", "up"}
    /\ boots \in 0..MaxBoots
    /\ bstatus \in [Batch -> BatchStatus]
    /\ inst \in [Run -> [Instance -> {"none", "pending", "passed", "errored", "cancelled"}]]
    /\ rpc \in [Run -> {"start", "gone"} \cup InHandler \cup InGoroutine]
    /\ ctxDone \in [Run -> BOOLEAN]
    /\ todo \in [Run -> SUBSET Instance]
    /\ sent \in [Run -> BOOLEAN]
    /\ imap \in [Run -> SUBSET Instance]
    /\ seen \in [Run -> [verdicts : SUBSET (Instance \X {"passed", "errored", "cancelled"}),
                         allEnded : BOOLEAN]]
    /\ entry \in [Batch -> Run \cup {NoRun}]
    /\ cpc \in [Batch -> {"idle", "read", "set", "signalled"}]
    /\ lost \subseteq Batch

QueueTypeOK ==
    /\ status \in [Item -> {"absent"} \cup Queue!Open \cup Queue!Ended]
    /\ key \in [Item -> Instance \cup {NoKey}]
    /\ owner \in [Item -> Batch \cup {NoBatch}]
    /\ began \in [Item -> Nat]

\* Every variable stays within the statuses, stages and ranges the code uses.
TypeOK == BatchTypeOK /\ QueueTypeOK

\* The batches that are requested to run at most once.  The others are there too:
\* two requests may find a batch in draft, and then neither of their goroutines
\* knows of the other.
RunOnce == {b \in Batch : \A r, s \in Run : RunOf[r] = b /\ RunOf[s] = b => r = s}

Launched(r) == rpc[r] \in InGoroutine

\* A batch marked preparing or running has a handler or a goroutine that will
\* move it on, unless the datastore failed one of their statements: otherwise it
\* would stay so until the next restart.
NoStrandedBatch ==
    proc = "up" =>
        \A b \in RunOnce : bstatus[b] \in {"preparing", "running"} =>
            \/ b \in lost
            \/ \E r \in Run : RunOf[r] = b /\ (rpc[r] = "resolving" \/ Launched(r))

\* Of a batch that is requested once, the status keeps to the lifecycle: no late
\* step of its run brings a cancelled batch back or completes it, an ended one is
\* only ever overtaken by a cancel that was asked for while it was in flight, and
\* no crash, lost statement or restart leads anywhere else.
Lifecycle == INSTANCE KitchenBatchLifecycle WITH
    Batch <- RunOnce,
    state <- [b \in RunOnce |-> bstatus[b]],
    asked <- {b \in RunOnce : cpc[b] = "read"}

KeepsLifecycle == Lifecycle!LifecycleSpec

\* The map holds live goroutines only, however often a batch is requested, and of
\* a batch requested once it holds the goroutine: an entry too many refuses every
\* further run, one too few leaves a run that cannot be cancelled.
MapIsExact ==
    \A b \in Batch, r \in Run :
        /\ entry[b] = r => RunOf[r] = b /\ Launched(r)
        /\ RunOf[r] = b /\ Launched(r) => entry[b] = r \/ b \notin RunOnce

\* When a batch completes, none of its instances is left pending, unless a
\* statement was lost.
CompletedIsSettled ==
    \A r \in Run :
        RunOf[r] \in RunOnce /\ bstatus[RunOf[r]] = "completed" /\ RunOf[r] \notin lost =>
            \A x \in Instance : inst[r][x] # "pending"

\* An instance marked passed has a completed row of its own batch to show for it,
\* however old the listing was from which the run wrote the verdict.
PassedDidPass ==
    \A r \in Run, x \in Instance :
        inst[r][x] = "passed" =>
            \E i \in RowsOf(RunOf[r]) : key[i] = x /\ status[i] = "completed"

\* A batch that was started comes to an end, over crashes, cancels and refusals,
\* unless a statement was lost.
BatchEnds ==
    \A b \in Batch : []<>(bstatus[b] \in {"preparing", "running"} => b \in lost)

=============================================================================
