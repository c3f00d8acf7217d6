---------------------------- MODULE KitchenQueue ----------------------------
(***************************************************************************)
(* The kitchen run queue: the kitchen_run_queue table, the worker pool of  *)
(* kitchenqueue.Manager that drains it, the web handlers that enqueue,     *)
(* cancel and retry rows, and the process that is started, stopped and     *)
(* killed around them.  The table survives a crash, everything else does   *)
(* not.                                                                    *)
(*                                                                         *)
(* Every datastore call is one UPDATE or INSERT and so one step.  Between  *)
(* two calls, and between a call and the worker's in-memory bookkeeping,   *)
(* any other actor may run: that is where this component can go wrong.     *)
(***************************************************************************)
EXTENDS Integers, FiniteSets

CONSTANTS
    MaxItems,    \* how many rows a behaviour may insert
    Key,         \* what the unique indexes compare: repo, suite, platform,
                 \*   version and commit of a git run; node and version of a node run
    GitKey,      \* the keys of runs whose run_type is "git"
    Priority,    \* priorities handed out by the enqueuing handlers
    Worker,      \* goroutine slots
    PoolSize,    \* values EffectiveMaxConcurrentVMs may return
    MaxBoots,    \* how many times the process may start
    NoKey

ASSUME QueueAssumption ==
    /\ MaxItems \in Nat
    /\ NoKey \notin Key
    /\ GitKey \subseteq Key
    /\ Priority \subseteq Nat
    /\ IsFiniteSet(Worker)
    /\ PoolSize \subseteq Nat
    /\ 1 <= Cardinality(Worker)
    /\ \A n \in PoolSize : n <= Cardinality(Worker)
    /\ MaxBoots \in Nat

\* A row's id.  Ids are handed out in insertion order, so they also order the
\* rows by enqueued_at.
Item == 1..MaxItems

NoItem == 0

Active == {"queued", "running"}

Retryable == {"failed", "cancelled", "interrupted"}

Terminal == Retryable \cup {"completed"}

\* "absent": not inserted yet.  "purged": inserted, finished and deleted.
Status == Active \cup Terminal \cup {"absent", "purged"}

\* Where a worker goroutine stands in Manager.worker and executeItem.
Pc == {"off", "poll", "claim", "gate", "admitted",
       "executing", "returned", "unregistered", "recorded"}

VARIABLES
    status,      \* kitchen_run_queue.status, per row
    key,         \* the row's dedup columns
    prio,        \* the row's priority
    retryOf,     \* the row's retry_of, NoItem for NULL
    proc,        \* "down", "up", "closing" (stopCh closed), "swept" (Stop timed out)
    pc,          \* per worker
    held,        \* the item a worker claimed, NoItem when it has none
    ctxDone,     \* the item context of a worker has been cancelled
    outcome,     \* the status executeItem decided to record
    target,      \* Manager.targetWorkers
    active,      \* Manager.activeWorkers
    cancelling,  \* cancel requests between CancelItem and CancelKitchenRun
    lost,        \* ghost: rows whose last write or claim reply the worker lost
    boots        \* how often the process started

rowData == <<key, prio, retryOf>>
worker == <<pc, held, ctxDone, outcome>>
pool == <<target, active>>
vars == <<status, rowData, proc, worker, pool, cancelling, lost, boots>>

\* What no step of a worker touches.
others == <<rowData, proc, target, cancelling, boots>>

-----------------------------------------------------------------------------
(* Helpers *)

Live == {w \in Worker : pc[w] # "off"}

\* The keys of m.running: an item is registered while its worker is between
\* the two critical sections of executeItem.
Registered(w) == pc[w] \in {"executing", "returned"}

Holding(w) == pc[w] \in {"gate", "admitted", "executing", "returned", "unregistered"}

\* stopCh is closed and m.ctx cancelled.
Closing == proc \in {"closing", "swept"}

\* The HTTP API serves requests.
Serving == proc # "down"

\* What the partial unique indexes refuse.
DuplicateOfQueued(k) == \E j \in Item : key[j] = k /\ status[j] = "queued"

Duplicate(k) == \E j \in Item : key[j] = k /\ status[j] \in Active

NextId(i) == status[i] = "absent" /\ \A j \in Item : j < i => status[j] # "absent"

\* ORDER BY priority DESC, enqueued_at ASC LIMIT 1 over the rows of S.
FirstOf(S, i) ==
    /\ i \in S
    /\ \A j \in S : prio[j] < prio[i] \/ (prio[j] = prio[i] /\ i <= j)

BestActive(i) == FirstOf({j \in Item : status[j] \in Active}, i)

Best(i) == FirstOf({j \in Item : status[j] = "queued"}, i)

Insert(i, k, p, parent) ==
    /\ NextId(i)
    /\ ~Duplicate(k)
    /\ status' = [status EXCEPT ![i] = "queued"]
    /\ key' = [key EXCEPT ![i] = k]
    /\ prio' = [prio EXCEPT ![i] = p]
    /\ retryOf' = [retryOf EXCEPT ![i] = parent]

Step(w, from, to) == pc[w] = from /\ pc' = [pc EXCEPT ![w] = to]

\* Start n goroutines in free slots.
Spawn(n) ==
    \E S \in SUBSET (Worker \ Live) :
        /\ Cardinality(S) = n
        /\ pc' = [w \in Worker |-> IF w \in S THEN "poll" ELSE pc[w]]

-----------------------------------------------------------------------------
(* Web handlers *)

\* EnqueueKitchenRun, from the git, run-all, node and batch handlers.
Enqueue(i, k, p) ==
    /\ Serving
    /\ Insert(i, k, p, NoItem)
    /\ UNCHANGED <<proc, worker, pool, cancelling, lost, boots>>

RetryOfAnyEnd(i, old) ==
    /\ Serving
    /\ status[old] \in Terminal
    /\ Insert(i, key[old], prio[old], old)
    /\ UNCHANGED <<proc, worker, pool, cancelling, lost, boots>>

\* RetryKitchenRun: a copy of a failed, interrupted or cancelled row.
Retry(i, old) ==
    /\ Serving
    /\ status[old] \in Retryable
    /\ Insert(i, key[old], prio[old], old)
    /\ UNCHANGED <<proc, worker, pool, cancelling, lost, boots>>

\* First half of handleKitchenQueueCancel: Manager.CancelItem cancels the
\* context of the worker that registered the item, if there is one.
CancelSignal(i) ==
    /\ Serving
    /\ status[i] \notin {"absent", "purged"}
    /\ i \notin cancelling
    /\ cancelling' = cancelling \cup {i}
    /\ ctxDone' = [w \in Worker |-> ctxDone[w] \/ (Registered(w) /\ held[w] = i)]
    /\ UNCHANGED <<status, rowData, proc, pc, held, outcome, pool, lost, boots>>

\* Second half: CancelKitchenRun.  The request's own context may have ended,
\* in which case the row stays as it is.
CancelCommit(i) ==
    /\ i \in cancelling
    /\ cancelling' = cancelling \ {i}
    /\ \/ status' = [status EXCEPT ![i] = IF @ \in Active THEN "cancelled" ELSE @]
       \/ UNCHANGED status
    /\ UNCHANGED <<rowData, proc, worker, pool, lost, boots>>

\* PurgeCompletedKitchenRuns: terminal rows past the retention age disappear
\* and retry_of references to them become NULL.
Purge(old) ==
    /\ Serving
    /\ old # {}
    /\ \A i \in old : status[i] \in Terminal
    /\ status' = [i \in Item |-> IF i \in old THEN "purged" ELSE status[i]]
    /\ key' = [i \in Item |-> IF i \in old THEN NoKey ELSE key[i]]
    /\ prio' = [i \in Item |-> IF i \in old THEN 0 ELSE prio[i]]
    /\ retryOf' = [i \in Item |->
                     IF i \in old \/ retryOf[i] \in old THEN NoItem ELSE retryOf[i]]
    /\ UNCHANGED <<proc, worker, pool, cancelling, lost, boots>>

\* SetWorkerCount with a new configured size n.
Resize(n) ==
    LET want == IF n < 1 THEN 1 ELSE n IN
    /\ Serving
    /\ target' = want
    /\ IF want > active
          THEN active' = want /\ Spawn(want - active)
          ELSE UNCHANGED <<pc, active>>
    /\ UNCHANGED <<status, rowData, proc, held, ctxDone, outcome, cancelling, lost, boots>>

-----------------------------------------------------------------------------
(* Workers *)

WorkerStopsUnlessSwept(w) ==
    /\ proc = "closing"
    /\ Step(w, "poll", "off")
    /\ active' = active - 1
    /\ UNCHANGED <<others, status, held, ctxDone, outcome, lost>>

\* The top of the loop saw stopCh closed.
WorkerStops(w) ==
    /\ Closing
    /\ Step(w, "poll", "off")
    /\ active' = active - 1
    /\ UNCHANGED <<others, status, held, ctxDone, outcome, lost>>

WorkerRetiresUncounted(w) ==
    /\ ~Closing
    /\ active > target
    /\ Step(w, "poll", "off")
    /\ UNCHANGED <<others, active, status, held, ctxDone, outcome, lost>>

\* Scale-down: more workers than wanted.
WorkerRetires(w) ==
    /\ ~Closing
    /\ active > target
    /\ Step(w, "poll", "off")
    /\ active' = active - 1
    /\ UNCHANGED <<others, status, held, ctxDone, outcome, lost>>

\* Both checks passed.  stopCh may close and the target may change from here on.
WorkerProceeds(w) ==
    /\ ~Closing
    /\ active <= target
    /\ Step(w, "poll", "claim")
    /\ UNCHANGED <<others, active, status, held, ctxDone, outcome, lost>>

\* ClaimNextKitchenRun, answered.
Claim(w, i) ==
    /\ Step(w, "claim", "gate")
    /\ Best(i)
    /\ status' = [status EXCEPT ![i] = "running"]
    /\ held' = [held EXCEPT ![w] = i]
    /\ UNCHANGED <<others, active, ctxDone, outcome, lost>>

\* ClaimNextKitchenRun returned an error or no row; the worker sleeps a while.
ClaimNothing(w) ==
    /\ Step(w, "claim", "poll")
    /\ UNCHANGED <<others, active, status, held, ctxDone, outcome, lost>>

\* The claim was committed and its reply lost: the worker sees an error.
ClaimReplyLost(w, i) ==
    /\ Step(w, "claim", "poll")
    /\ Best(i)
    /\ status' = [status EXCEPT ![i] = "running"]
    /\ lost' = lost \cup {i}
    /\ UNCHANGED <<others, active, held, ctxDone, outcome>>

\* The rate limiter let the start through; its first act is to test m.ctx.
Admit(w) ==
    /\ ~Closing
    /\ Step(w, "gate", "admitted")
    /\ UNCHANGED <<others, active, status, held, ctxDone, outcome, lost>>

\* The rate limiter saw m.ctx cancelled: the row is left to startup recovery.
GateAborts(w) ==
    /\ Closing
    /\ Step(w, "gate", "poll")
    /\ held' = [held EXCEPT ![w] = NoItem]
    /\ UNCHANGED <<others, active, status, ctxDone, outcome, lost>>

\* executeItem enters the item's cancel function in m.running.
Register(w) ==
    /\ Step(w, "admitted", "executing")
    /\ ctxDone' = [ctxDone EXCEPT ![w] = FALSE]
    /\ UNCHANGED <<others, active, status, held, outcome, lost>>

\* How an execution may end: nil, or an error that is told apart by ctx.Err().
\* GitKitchenExecutor refuses a run that is not a git run.
ExecutionResults(w) ==
    {IF ctxDone[w] THEN "cancelled" ELSE "failed"}
        \cup (IF key[held[w]] \in GitKey THEN {"completed"} ELSE {})

ExecuteReturnsUndecided(w) ==
    /\ Step(w, "executing", "returned")
    /\ \/ outcome' = [outcome EXCEPT ![w] = "completed"]
       \/ UNCHANGED outcome
    /\ UNCHANGED <<others, active, status, held, ctxDone, lost>>

\* Execute returns and wasCancelled is read.
ExecuteReturns(w) ==
    /\ Step(w, "executing", "returned")
    /\ \E r \in ExecutionResults(w) : outcome' = [outcome EXCEPT ![w] = r]
    /\ UNCHANGED <<others, active, status, held, ctxDone, lost>>

\* cancel() and delete(m.running, item.ID).
Unregister(w) ==
    /\ Step(w, "returned", "unregistered")
    /\ ctxDone' = [ctxDone EXCEPT ![w] = FALSE]
    /\ UNCHANGED <<others, active, status, held, outcome, lost>>

WritableFromAny(r) == Active \cup Terminal

\* The statuses from which each of the three terminal writes applies.
WritableFrom(r) == IF r = "cancelled" THEN Active ELSE {"running"}

\* CompleteKitchenRun, FailKitchenRun or CancelKitchenRun.  Its error is
\* dropped, so a row that is not in the expected status is left alone.
Record(w) ==
    /\ Step(w, "unregistered", "recorded")
    /\ status' = [status EXCEPT ![held[w]] =
                    IF @ \in WritableFrom(outcome[w]) THEN outcome[w] ELSE @]
    /\ UNCHANGED <<others, active, held, ctxDone, outcome, lost>>

\* The terminal write failed; nobody retries it.
RecordFails(w) ==
    /\ Step(w, "unregistered", "recorded")
    /\ lost' = lost \cup {held[w]}
    /\ UNCHANGED <<others, active, status, held, ctxDone, outcome>>

\* The item with its in-memory status is handed to the event listener.
Announce(w) ==
    /\ Step(w, "recorded", "poll")
    /\ held' = [held EXCEPT ![w] = NoItem]
    /\ outcome' = [outcome EXCEPT ![w] = "none"]
    /\ UNCHANGED <<others, active, status, ctxDone, lost>>

-----------------------------------------------------------------------------
(* The process *)

StartWithoutRecovery(n) ==
    /\ proc = "down"
    /\ boots < MaxBoots
    /\ boots' = boots + 1
    /\ proc' = "up"
    /\ lost' = {}
    /\ target' = n
    /\ active' = n
    /\ Spawn(n)
    /\ UNCHANGED <<status, rowData, held, ctxDone, outcome, cancelling>>

\* Manager.Start: recovery of the rows a dead process left running, then n
\* workers.  Start failing on the recovery ends the process and changes nothing.
Start(n) ==
    /\ proc = "down"
    /\ boots < MaxBoots
    /\ boots' = boots + 1
    /\ proc' = "up"
    /\ status' = [i \in Item |->
                    IF status[i] = "running" THEN "interrupted" ELSE status[i]]
    /\ lost' = {}
    /\ target' = n
    /\ active' = n
    /\ Spawn(n)
    /\ UNCHANGED <<rowData, held, ctxDone, outcome, cancelling>>

\* Manager.Stop closes stopCh and cancels m.ctx.
BeginStop ==
    /\ proc = "up"
    /\ boots < MaxBoots
    /\ proc' = "closing"
    /\ UNCHANGED <<status, rowData, worker, pool, cancelling, lost, boots>>

\* The drain timed out: every registered item is cancelled.
Sweep ==
    /\ proc = "closing"
    /\ Live # {}
    /\ proc' = "swept"
    /\ ctxDone' = [w \in Worker |-> ctxDone[w] \/ Registered(w)]
    /\ UNCHANGED <<status, rowData, pc, held, outcome, pool, cancelling, lost, boots>>

\* The end of the process, by any road: all memory goes, the table stays.
Die ==
    /\ proc' = "down"
    /\ pc' = [w \in Worker |-> "off"]
    /\ held' = [w \in Worker |-> NoItem]
    /\ ctxDone' = [w \in Worker |-> FALSE]
    /\ outcome' = [w \in Worker |-> "none"]
    /\ target' = 0
    /\ active' = 0
    /\ cancelling' = {}
    /\ UNCHANGED <<status, rowData, lost, boots>>

\* Stop has returned and the process exits.
ExitProcess ==
    /\ Closing
    /\ Live = {}
    /\ Die

Crash ==
    /\ Serving
    /\ boots < MaxBoots
    /\ Die

-----------------------------------------------------------------------------

Init ==
    /\ status = [i \in Item |-> "absent"]
    /\ key = [i \in Item |-> NoKey]
    /\ prio = [i \in Item |-> 0]
    /\ retryOf = [i \in Item |-> NoItem]
    /\ proc = "down"
    /\ pc = [w \in Worker |-> "off"]
    /\ held = [w \in Worker |-> NoItem]
    /\ ctxDone = [w \in Worker |-> FALSE]
    /\ outcome = [w \in Worker |-> "none"]
    /\ target = 0
    /\ active = 0
    /\ cancelling = {}
    /\ lost = {}
    /\ boots = 0

Handlers ==
    \/ \E i \in Item, k \in Key, p \in Priority : Enqueue(i, k, p)
    \/ \E i, old \in Item : Retry(i, old)
    \/ \E i \in Item : CancelSignal(i) \/ CancelCommit(i)
    \/ \E old \in SUBSET Item : Purge(old)
    \/ \E n \in PoolSize : Resize(n)

\* The steps of a worker whose datastore calls succeed.
WorkerRuns(w) ==
    \/ WorkerStops(w)
    \/ WorkerRetires(w)
    \/ WorkerProceeds(w)
    \/ \E i \in Item : Claim(w, i)
    \/ ClaimNothing(w)
    \/ Admit(w)
    \/ GateAborts(w)
    \/ Register(w)
    \/ ExecuteReturns(w)
    \/ Unregister(w)
    \/ Record(w)
    \/ Announce(w)

WorkerFaults(w) ==
    \/ \E i \in Item : ClaimReplyLost(w, i)
    \/ RecordFails(w)

Process ==
    \/ \E n \in PoolSize : n >= 1 /\ Start(n)
    \/ BeginStop
    \/ Sweep
    \/ ExitProcess
    \/ Crash

Next ==
    \/ Handlers
    \/ \E w \in Worker : WorkerRuns(w) \/ WorkerFaults(w)
    \/ Process

Spec == Init /\ [][Next]_vars

-----------------------------------------------------------------------------
(* Fairness.  Goroutines are scheduled; every execution ends, because a      *)
(* kitchen run has a timeout; a datastore that is tried again and again      *)
(* answers in the end; the supervisor starts a process that died and Stop    *)
(* returning ends a process that was told to stop.                           *)

Fairness ==
    /\ \A w \in Worker :
          /\ WF_vars(WorkerRuns(w))
          /\ SF_vars(\E i \in Item : Claim(w, i))
    /\ WF_vars(ExitProcess)
    /\ WF_vars(\E n \in PoolSize : n >= 1 /\ Start(n))

FairSpec == Spec /\ Fairness

-----------------------------------------------------------------------------
(* Safety *)

\* Exactly the rows of the table have a key, and ids are given out without gaps.
RowsTyped ==
    /\ status \in [Item -> Status]
    /\ key \in [Item -> Key \cup {NoKey}]
    /\ prio \in [Item -> Nat]
    /\ retryOf \in [Item -> Item \cup {NoItem}]
    /\ \A i \in Item : key[i] = NoKey <=> status[i] \in {"absent", "purged"}
    /\ \A i, j \in Item : i < j /\ status[i] = "absent" => status[j] = "absent"

\* A worker has an item and a decided outcome exactly where worker and
\* executeItem have them.
WorkersTyped ==
    /\ pc \in [Worker -> Pc]
    /\ held \in [Worker -> Item \cup {NoItem}]
    /\ ctxDone \in [Worker -> BOOLEAN]
    /\ outcome \in [Worker -> {"none", "completed", "failed", "cancelled"}]
    /\ \A w \in Worker :
          /\ held[w] = NoItem <=> pc[w] \in {"off", "poll", "claim"}
          /\ outcome[w] = "none" <=> pc[w] \notin {"returned", "unregistered", "recorded"}

\* A process that is down has no goroutines.
ProcessTyped ==
    /\ proc \in {"down", "up", "closing", "swept"}
    /\ target \in Nat
    /\ active \in Int
    /\ cancelling \subseteq Item
    /\ lost \subseteq Item
    /\ boots \in 0..MaxBoots
    /\ proc = "down" => \A w \in Worker : pc[w] = "off"

TypeOK == RowsTyped /\ WorkersTyped /\ ProcessTyped

\* A row is in the hands of at most one worker, over all interleavings of
\* claims, scale-ups and restarts (ClaimNextKitchenRun, SetWorkerCount, Start).
OneHolder ==
    \A w1, w2 \in Worker :
        Holding(w1) /\ Holding(w2) /\ held[w1] = held[w2] => w1 = w2

\* While a worker is busy with a row, nothing but a cancel request (and the
\* purge of what was cancelled) may move the row under it: not recovery, not
\* another worker, not a retry.
HeldRowOnlyCancelled ==
    \A w \in Worker :
        Holding(w) => status[held[w]] \in {"running", "cancelled", "purged"}

\* A serving process that is not shutting down never has a row marked running
\* that nobody runs, unless the datastore lost that row's write or claim reply:
\* a stuck row would refuse every further run of its key.
RunningHasWorker ==
    proc = "up" =>
        \A i \in Item : status[i] = "running" =>
            \/ i \in lost
            \/ \E w \in Worker : Holding(w) /\ held[w] = i

\* Two rows of one key are never both queued or running, whatever mix of
\* enqueue, retry, cancel and recovery produced them.
OneActiveRowPerKey ==
    \A i, j \in Item :
        /\ status[i] \in Active
        /\ status[j] \in Active
        /\ key[i] = key[j]
        => i = j

\* Two workers execute the same key at once only after one of the two rows was
\* cancelled while its execution was still going on.
OverlapOnlyAfterCancel ==
    \A w1, w2 \in Worker :
        /\ w1 # w2
        /\ Holding(w1) /\ Holding(w2)
        /\ key[held[w1]] = key[held[w2]]
        => \E w \in {w1, w2} : status[held[w]] \in {"cancelled", "purged"}

\* A retry points to an earlier row of its own key that ended and did not
\* succeed; that stays so because an ended row never changes again.
RetryLineage ==
    \A i \in Item : retryOf[i] # NoItem =>
        /\ retryOf[i] < i
        /\ key[retryOf[i]] = key[i]
        /\ status[retryOf[i]] \in Retryable

\* activeWorkers counts the goroutines that exist, never exceeds what some
\* configuration asked for, and is never below the target while the pool is
\* open: scale-down and scale-up overlap without losing or doubling workers.
PoolAccounted ==
    /\ active = Cardinality(Live)
    /\ active > 0 => \E n \in PoolSize \cup {1} : active <= n
    /\ proc = "up" => target <= active

\* An ended row never changes again except by being purged, a purged row stays
\* purged, and a row never goes back from running to queued: a late worker, a
\* late cancel and recovery all lose against whoever ended the row first.
LifecycleForward ==
    [][\A i \in Item :
         /\ status[i] \in Terminal => status'[i] \in {status[i], "purged"}
         /\ status[i] = "purged" => status'[i] = "purged"
         /\ status[i] = "running" => status'[i] # "queued"]_status

\* The rows behave as the ledger promises, whatever the workers, handlers and
\* restarts around them do.
Ledger == INSTANCE KitchenRunLedger

ImplementsLedger == Ledger!LedgerSpec

-----------------------------------------------------------------------------
(* Liveness *)

\* Administrators do not save the pool size forever.
PoolSettles == <>[][\A n \in PoolSize : ~Resize(n)]_vars

\* Every accepted run ends, over crashes, shutdowns, scale-downs and refused
\* claims, unless the datastore lost the worker's word on it.  A pool that
\* retires too many workers, or a shutdown that hangs, would leave rows open.
OpenRowsEnd ==
    PoolSettles =>
        \A i \in Item : []<>(status[i] \in Active => i \in lost)

-----------------------------------------------------------------------------
(* What comments of the code say and the code does not do *)

\* handleKitchenQueueCancel: "If the item is currently running, cancel the
\* worker's context".  A row whose cancellation went through is not executed
\* under a live context.
CancelReachesExecution ==
    \A w \in Worker :
        pc[w] = "executing" /\ status[held[w]] = "cancelled" =>
            ctxDone[w] \/ held[w] \in cancelling

=============================================================================
