--------------------------- MODULE BackupRestore ----------------------------
(***************************************************************************)
(* Database backups and restores: the backup directory with a dump and a   *)
(* manifest per backup, backup.Service with its one active job, the backup *)
(* scheduler that creates and prunes, the admin handlers that create,      *)
(* delete and restore, and the restore hook of main.go that stops the      *)
(* background workers under maintenance mode.                              *)
(*                                                                         *)
(* The files survive the process.  A file operation, a run of pg_dump and  *)
(* one of pg_restore are steps of their own and may fail.                  *)
(***************************************************************************)
EXTENDS Integers, FiniteSets

CONSTANTS
    MaxBackups,      \* how many backups a behaviour may create
    MaxGenerations,  \* backup.max_generations
    Request,         \* restore requests, one at a time each
    None

ASSUME BackupAssumption ==
    /\ MaxBackups \in Nat
    /\ MaxGenerations \in Nat \ {0}
    /\ IsFiniteSet(Request)
    /\ None \notin 1..MaxBackups /\ None \notin Request
    /\ Request \cap {"sched", "manual", "delete", "reconcile"} = {}
    /\ None \notin {"sched", "manual", "delete", "reconcile"}

\* Backups in the order of their creation.
Backup == 1..MaxBackups

\* The goroutines that create backups, and those that delete them.
Creator == {"sched", "manual"}

Deleter == {"sched", "delete"}

Actor == {"sched", "manual", "delete", "reconcile"} \cup Request

Pc == {"off", "wait",
       "create", "write", "dump", "sum", "created", "prune",
       "dump_file", "manifest_file",
       "verify", "enter", "stop_workers", "await_workers", "stop_backups", "await_backups", "close",
       "claim", "recheck", "restore", "restored", "failed", "resume", "exit",
       "start_backups"}

VARIABLES
    proc,         \* "down", "up"
    manifest,     \* the status in a backup's manifest file, or "none", "unreadable"
    dump,         \* backups whose complete dump file is in place
    torn,         \* ghost: backups whose deletion took the dump only
    created,      \* how many backups were ever started
    active,       \* Service.activeJob
    pc,           \* per actor
    cur,          \* per actor: the backup it works on
    doomed,       \* what a prune still has to delete
    good,         \* the backup the scheduler made succeeded
    maintenance,  \* Router.maintenanceMode
    mu,           \* who holds backupMu
    stopCh,       \* the scheduler's stop channel is closed
    tickers,      \* the tickers of exports and retention: "on", "closed"
    workers,      \* the collection scheduler and the kitchen queue are running
    collecting    \* a scheduled collection is in progress

files == <<manifest, dump, torn, created>>
job == <<active, cur, doomed, good>>
stopped == <<mu, stopCh, tickers, workers, collecting>>
vars == <<proc, files, pc, job, maintenance, stopped>>

-----------------------------------------------------------------------------
(* Helpers *)

Goto(a, to) == pc' = [pc EXCEPT ![a] = to]

\* What an actor goes back to.
Rest(a) == IF a = "sched" THEN "wait" ELSE "off"

Succeeded == {b \in Backup : manifest[b] = "succeeded"}

Readable(b) == manifest[b] \notin {"none", "unreadable"}

\* VerifyChecksum finds a manifest with a checksum and the dump it is of.
Sound(b) == manifest[b] = "succeeded" /\ b \in dump

Newer(b) == {c \in Succeeded : c > b}

SetManifest(b, s) == manifest' = [manifest EXCEPT ![b] = s]

\* The file is written in place: a write that fails, or is cut off by a crash,
\* leaves the old manifest or none that can be read.
SpoilManifest(b) == SetManifest(b, "unreadable") \/ UNCHANGED manifest

\* A manifest that is written on the way out, its error dropped.
TryManifest(b, s) == SetManifest(b, s) \/ SpoilManifest(b)

Init ==
    /\ proc = "down"
    /\ manifest = [b \in Backup |-> "none"]
    /\ dump = {} /\ torn = {} /\ created = 0
    /\ active = None
    /\ pc = [a \in Actor |-> "off"]
    /\ cur = [a \in Actor |-> None]
    /\ doomed = {} /\ good = FALSE
    /\ maintenance = FALSE
    /\ mu = None /\ stopCh = FALSE
    /\ tickers = "on" /\ workers = FALSE /\ collecting = FALSE

-----------------------------------------------------------------------------
(* The process and what runs beside the backups *)

\* The start, with backups enabled or not.
Boot ==
    /\ proc = "down"
    /\ proc' = "up"
    /\ workers' = TRUE
    /\ \E enabled \in BOOLEAN : Goto("sched", IF enabled THEN "wait" ELSE "off")
    /\ UNCHANGED <<files, job, maintenance, mu, stopCh, tickers, collecting>>

\* The process ends, by itself or killed: only the files stay.
End ==
    /\ proc' = "down"
    /\ active' = None
    /\ pc' = [a \in Actor |-> "off"]
    /\ cur' = [a \in Actor |-> None]
    /\ doomed' = {} /\ good' = FALSE
    /\ maintenance' = FALSE
    /\ mu' = None /\ stopCh' = FALSE
    /\ tickers' = "on" /\ workers' = FALSE /\ collecting' = FALSE
    /\ UNCHANGED files

Crash == proc = "up" /\ End

\* A tick of the collection scheduler, and the end of the run it started.
Collect ==
    /\ collecting' = ~collecting
    /\ ~collecting => workers
    /\ UNCHANGED <<proc, files, pc, job, maintenance, mu, stopCh, tickers, workers>>

-----------------------------------------------------------------------------
(* Create and RunCreate, called by the scheduler and by the create handler *)

\* The check both make before they call Create: the scheduler at its tick, which
\* its select may prefer to a stop that came at the same time, the handler when no
\* maintenance keeps it out.
WantBackup(a) ==
    /\ proc = "up"
    /\ pc[a] = Rest(a)
    /\ a = "manual" => ~maintenance
    /\ active = None
    /\ Goto(a, "create")
    /\ UNCHANGED <<proc, files, job, maintenance, stopped>>

\* A bug: the check of the caller is trusted.
CreateUnchecked(a) ==
    /\ pc[a] = "create"
    /\ IF created < MaxBackups
       THEN /\ created' = created + 1
            /\ active' = created + 1
            /\ cur' = [cur EXCEPT ![a] = created + 1]
            /\ Goto(a, "write")
       ELSE Goto(a, Rest(a)) /\ UNCHANGED <<created, active, cur>>
    /\ UNCHANGED <<proc, manifest, dump, torn, doomed, good, maintenance, stopped>>

\* Create: the job is claimed under the lock, or another one is active.
Create(a) ==
    /\ pc[a] = "create"
    /\ IF active = None /\ created < MaxBackups
       THEN /\ created' = created + 1
            /\ active' = created + 1
            /\ cur' = [cur EXCEPT ![a] = created + 1]
            /\ Goto(a, "write")
       ELSE Goto(a, Rest(a)) /\ UNCHANGED <<created, active, cur>>
    /\ UNCHANGED <<proc, manifest, dump, torn, doomed, good, maintenance, stopped>>

\* The running manifest is written, or the claim is given up.
WriteRunning(a) ==
    /\ pc[a] = "write"
    /\ \/ SetManifest(cur[a], "running") /\ Goto(a, "dump")
       \/ SpoilManifest(cur[a]) /\ Goto(a, "created")
    /\ good' = FALSE
    /\ UNCHANGED <<proc, dump, torn, created, active, cur, doomed, maintenance, stopped>>

\* A bug: the error of pg_dump is dropped, and the part it wrote is renamed.
DumpErrorIgnored(a) ==
    /\ pc[a] = "dump"
    /\ dump' = dump \cup {cur[a]} \/ UNCHANGED dump
    /\ Goto(a, "sum") /\ UNCHANGED manifest
    /\ UNCHANGED <<proc, torn, created, job, maintenance, stopped>>

\* pg_dump into a temporary file and the rename of it.
Dump(a) ==
    /\ pc[a] = "dump"
    /\ \/ dump' = dump \cup {cur[a]} /\ Goto(a, "sum") /\ UNCHANGED manifest
       \/ TryManifest(cur[a], "failed") /\ Goto(a, "created") /\ UNCHANGED dump
    /\ UNCHANGED <<proc, torn, created, job, maintenance, stopped>>

\* The checksum and the final manifest.
Sum(a) ==
    /\ pc[a] = "sum"
    /\ \/ TryManifest(cur[a], "succeeded") /\ good' = (a = "sched" \/ good)
       \/ TryManifest(cur[a], "failed") /\ UNCHANGED good
    /\ Goto(a, "created")
    /\ UNCHANGED <<proc, dump, torn, created, active, cur, doomed, maintenance, stopped>>

\* clearActiveJob; the scheduler prunes after a success.
Created(a) ==
    /\ pc[a] = "created"
    /\ active' = None
    /\ cur' = [cur EXCEPT ![a] = None]
    /\ Goto(a, IF a = "sched" /\ good THEN "prune" ELSE Rest(a))
    /\ good' = FALSE
    /\ UNCHANGED <<proc, files, doomed, maintenance, stopped>>

-----------------------------------------------------------------------------
(* Delete, called by the delete handler and by Prune *)

\* Prune lists the successful backups and takes those past the newest.
Prune ==
    /\ pc["sched"] = "prune"
    /\ doomed = {}
    /\ doomed' = {b \in Succeeded : Cardinality(Newer(b)) >= MaxGenerations}
    /\ Goto("sched", IF doomed' = {} THEN "wait" ELSE "prune")
    /\ UNCHANGED <<proc, files, active, cur, good, maintenance, stopped>>

\* The active backup is refused; after the check the lock is given back.
CheckDelete(a, b) ==
    /\ IF a = "sched" THEN pc[a] = "prune" /\ b \in doomed
                      ELSE proc = "up" /\ pc[a] = "off" /\ ~maintenance /\ manifest[b] # "none"
    /\ doomed' = IF a = "sched" THEN doomed \ {b} ELSE doomed
    /\ IF active = b
       THEN /\ Goto(a, IF a = "sched" /\ doomed' # {} THEN "prune" ELSE Rest(a))
            /\ UNCHANGED cur
       ELSE Goto(a, "dump_file") /\ cur' = [cur EXCEPT ![a] = b]
    /\ UNCHANGED <<proc, files, active, good, maintenance, stopped>>

\* The dump goes first, the manifest last; a failure leaves the rest in place.
RemoveDump(a) ==
    /\ pc[a] = "dump_file"
    /\ \/ /\ dump' = dump \ {cur[a]}
          /\ torn' = torn \cup {cur[a]}
          /\ Goto(a, "manifest_file") /\ UNCHANGED cur
       \/ /\ Goto(a, IF a = "sched" /\ doomed # {} THEN "prune" ELSE Rest(a))
          /\ cur' = [cur EXCEPT ![a] = None] /\ UNCHANGED <<dump, torn>>
    /\ UNCHANGED <<proc, manifest, created, active, doomed, good, maintenance, stopped>>

RemoveManifest(a) ==
    /\ pc[a] = "manifest_file"
    /\ \/ SetManifest(cur[a], "none") /\ torn' = torn \ {cur[a]}
       \/ UNCHANGED <<manifest, torn>>
    /\ cur' = [cur EXCEPT ![a] = None]
    /\ Goto(a, IF a = "sched" /\ doomed # {} THEN "prune" ELSE Rest(a))
    /\ UNCHANGED <<proc, dump, created, active, doomed, good, maintenance, stopped>>

-----------------------------------------------------------------------------
(* Restore: the handler, executeRestore, the hook and RunRestore *)

\* The request passes the router and finds no active job; then the dump is read
\* for its checksum, which takes as long as the dump is large.
WantRestore(r, b) ==
    /\ proc = "up"
    /\ pc[r] = "off"
    /\ ~maintenance
    /\ active = None
    /\ cur' = [cur EXCEPT ![r] = b]
    /\ Goto(r, "verify")
    /\ UNCHANGED <<proc, files, active, doomed, good, maintenance, stopped>>

Verify(r) ==
    /\ pc[r] = "verify"
    /\ IF Sound(cur[r])
       THEN Goto(r, "enter") /\ UNCHANGED cur
       ELSE Goto(r, "off") /\ cur' = [cur EXCEPT ![r] = None]
    /\ UNCHANGED <<proc, files, active, doomed, good, maintenance, stopped>>

Enter(r) ==
    /\ pc[r] = "enter"
    /\ maintenance' = TRUE
    /\ Goto(r, "stop_workers")
    /\ UNCHANGED <<proc, files, job, stopped>>

\* The collection scheduler and the kitchen queue are stopped, and the work they
\* had in progress is awaited.
StopWorkers(r) ==
    /\ pc[r] = "stop_workers"
    /\ workers' = FALSE
    /\ Goto(r, "await_workers")
    /\ UNCHANGED <<proc, files, job, maintenance, mu, stopCh, tickers, collecting>>

\* A bug: the scheduler is told to stop and not awaited.
AwaitWorkersNot(r) ==
    /\ pc[r] = "await_workers"
    /\ Goto(r, "stop_backups")
    /\ UNCHANGED <<proc, files, job, maintenance, stopped>>

AwaitWorkers(r) ==
    /\ pc[r] = "await_workers"
    /\ ~collecting
    /\ Goto(r, "stop_backups")
    /\ UNCHANGED <<proc, files, job, maintenance, stopped>>

\* backupMu is held while the backup scheduler is told to stop and awaited.
StopBackups(r) ==
    /\ pc[r] = "stop_backups"
    /\ mu = None
    /\ IF pc["sched"] = "off"
       THEN Goto(r, "close") /\ UNCHANGED <<mu, stopCh>>
       ELSE Goto(r, "await_backups") /\ mu' = r /\ stopCh' = TRUE
    /\ UNCHANGED <<proc, files, job, maintenance, tickers, workers, collecting>>

\* A bug: a return without the unlock.
AwaitBackupsKeepsLock(a, to) ==
    /\ pc[a] = "await_backups"
    /\ pc["sched"] = "off"
    /\ stopCh' = FALSE /\ UNCHANGED mu
    /\ Goto(a, to)
    /\ UNCHANGED <<proc, files, job, maintenance, tickers, workers, collecting>>

AwaitBackups(a, to) ==
    /\ pc[a] = "await_backups"
    /\ pc["sched"] = "off"
    /\ mu' = None /\ stopCh' = FALSE
    /\ Goto(a, to)
    /\ UNCHANGED <<proc, files, job, maintenance, tickers, workers, collecting>>

\* The loop sees the stop channel between two backups.
SchedulerExit ==
    /\ pc["sched"] = "wait" /\ stopCh
    /\ Goto("sched", "off")
    /\ UNCHANGED <<proc, files, job, maintenance, stopped>>

\* A bug: the stop functions may be called twice, and the second restore goes on.
CloseTickersOnce(r) ==
    /\ pc[r] = "close"
    /\ tickers' = "closed"
    /\ Goto(r, "claim")
    /\ UNCHANGED <<proc, files, job, maintenance, mu, stopCh, workers, collecting>>

\* The stop functions of the tickers close a channel each: the second restore of
\* a process closes it again, and that ends the process.
CloseTickers(r) ==
    /\ pc[r] = "close"
    /\ IF tickers = "closed"
       THEN End
       ELSE /\ tickers' = "closed"
            /\ Goto(r, "claim")
            /\ UNCHANGED <<proc, files, job, maintenance, mu, stopCh, workers, collecting>>

\* RunRestore: the job is claimed for a backup whose manifest is still there.
Claim(r) ==
    /\ pc[r] = "claim"
    /\ IF active = None /\ Readable(cur[r])
       THEN active' = cur[r] /\ Goto(r, "recheck")
       ELSE Goto(r, "resume") /\ UNCHANGED active
    /\ UNCHANGED <<proc, files, cur, doomed, good, maintenance, stopped>>

Recheck(r) ==
    /\ pc[r] = "recheck"
    /\ Goto(r, IF Sound(cur[r]) THEN "restore" ELSE "failed")
    /\ UNCHANGED <<proc, files, job, maintenance, stopped>>

\* pg_restore needs the dump, and may fail even so.
Restore(r) ==
    /\ pc[r] = "restore"
    /\ \/ cur[r] \in dump /\ Goto(r, "restored")
       \/ Goto(r, "failed")
    /\ UNCHANGED <<proc, files, job, maintenance, stopped>>

\* clearActiveJob.
Unwind(r) ==
    /\ pc[r] \in {"restored", "failed"}
    /\ active' = None
    /\ Goto(r, IF pc[r] = "restored" THEN "exit" ELSE "resume")
    /\ UNCHANGED <<proc, files, cur, doomed, good, maintenance, stopped>>

\* "Resume normal operation on failure": the API is opened again.
Resume(r) ==
    /\ pc[r] = "resume"
    /\ maintenance' = FALSE
    /\ cur' = [cur EXCEPT ![r] = None]
    /\ Goto(r, "off")
    /\ UNCHANGED <<proc, files, active, doomed, good, stopped>>

Exit(r) == pc[r] = "exit" /\ End

-----------------------------------------------------------------------------
(* The backup reconciler: a save of the backup settings *)

WantReconcile ==
    /\ proc = "up" /\ ~maintenance
    /\ pc["reconcile"] = "off"
    /\ \E enabled \in BOOLEAN :
           Goto("reconcile", IF enabled THEN "start_backups" ELSE "stop_backups")
    /\ UNCHANGED <<proc, files, job, maintenance, stopped>>

\* Newly enabled: a scheduler is started.  Still enabled: it is only rescheduled.
StartBackups ==
    /\ pc["reconcile"] = "start_backups"
    /\ mu = None
    /\ pc' = [pc EXCEPT !["reconcile"] = "off",
                        !["sched"] = IF @ = "off" THEN "wait" ELSE @]
    /\ UNCHANGED <<proc, files, job, maintenance, stopped>>

DisableBackups ==
    /\ pc["reconcile"] = "stop_backups"
    /\ mu = None
    /\ IF pc["sched"] = "off"
       THEN Goto("reconcile", "off") /\ UNCHANGED <<mu, stopCh>>
       ELSE Goto("reconcile", "await_backups") /\ mu' = "reconcile" /\ stopCh' = TRUE
    /\ UNCHANGED <<proc, files, job, maintenance, tickers, workers, collecting>>

-----------------------------------------------------------------------------

CreateSteps(a) ==
    Create(a) \/ WriteRunning(a) \/ Dump(a) \/ Sum(a) \/ Created(a)

DeleteSteps(a) == RemoveDump(a) \/ RemoveManifest(a)

RestoreSteps(r) ==
    \/ Verify(r) \/ Enter(r) \/ StopWorkers(r) \/ AwaitWorkers(r) \/ StopBackups(r) \/ AwaitBackups(r, "close")
    \/ CloseTickers(r) \/ Claim(r) \/ Recheck(r) \/ Restore(r) \/ Unwind(r)
    \/ Resume(r) \/ Exit(r)

PruneSteps == Prune \/ \E b \in Backup : CheckDelete("sched", b)

ReconcileSteps == StartBackups \/ DisableBackups \/ AwaitBackups("reconcile", "off")

Next ==
    \/ Boot \/ Crash \/ Collect
    \/ \E a \in Creator : WantBackup(a) \/ CreateSteps(a)
    \/ \E a \in Deleter : DeleteSteps(a)
    \/ \E b \in Backup : CheckDelete("delete", b)
    \/ PruneSteps \/ SchedulerExit
    \/ \E r \in Request : RestoreSteps(r) \/ \E b \in Backup : WantRestore(r, b)
    \/ WantReconcile \/ ReconcileSteps

Spec == Init /\ [][Next]_vars

\* Every call returns; nothing is assumed of ticks, requests and crashes.  The loop
\* that comes back from a backup finds the stop channel ready and the next tick
\* not yet due, so it cannot pass a stop by for ever.
Fairness ==
    /\ WF_vars(collecting /\ Collect)
    /\ WF_vars(CreateSteps("sched") \/ DeleteSteps("sched") \/ PruneSteps)
    /\ SF_vars(SchedulerExit)
    /\ WF_vars(ReconcileSteps)
    /\ \A r \in Request : WF_vars(RestoreSteps(r))

FairSpec == Spec /\ Fairness

-----------------------------------------------------------------------------
(* Properties *)

InJob(a) == pc[a] \in {"write", "dump", "sum", "created", "recheck", "restore", "restored", "failed"}

Stored ==
    /\ proc \in {"down", "up"}
    /\ manifest \in [Backup -> {"none", "unreadable", "running", "failed", "succeeded"}]
    /\ dump \subseteq Backup /\ torn \subseteq Backup /\ doomed \subseteq Backup
    /\ created \in 0..MaxBackups
    /\ active \in Backup \cup {None}
    /\ cur \in [Actor -> Backup \cup {None}]
    /\ good \in BOOLEAN /\ maintenance \in BOOLEAN
    /\ mu \in Request \cup {"reconcile", None}
    /\ mu # None => pc[mu] = "await_backups"
    /\ stopCh \in BOOLEAN /\ workers \in BOOLEAN /\ collecting \in BOOLEAN
    /\ tickers \in {"on", "closed"}

\* States are of their types, and backupMu is held by nobody but who waits for the
\* backup scheduler to stop.
TypeOK == pc \in [Actor -> Pc] /\ Stored

\* A dump of the database and a restore into it never overlap, nor two of a kind,
\* whoever started them: two callers that both found no active job must not both
\* go on.
OneJobAtATime ==
    /\ \A a, b \in Actor : InJob(a) /\ InJob(b) => a = b
    /\ \A a \in Actor : InJob(a) => active = cur[a]

\* A backup that is offered as succeeded has its dump in place, over failures and
\* crashes at every file operation, unless a deletion was cut off half way.
SucceededIsRestorable == \A b \in Succeeded : b \in dump \/ b \in torn

\* The jobs as the catalogue knows them.
Making == IF \E a \in Creator : InJob(a) THEN active ELSE None

Restoring == IF \E r \in Request : InJob(r) THEN active ELSE None

Catalogue == INSTANCE BackupCatalogue WITH
    made <- 1..created, making <- Making, restoring <- Restoring,
    whole <- dump, offered <- Succeeded

\* The backups keep to the catalogue, over failures and crashes at every file
\* operation: a backup is offered once its dump is whole, deleted dump first and
\* never while it is made, and neither a write that is cut off nor a second
\* deletion of it loses an offer or revives one.
KeepsCatalogue == Catalogue!CatalogueSpec

\* pg_restore only ever runs under maintenance mode.  A second request that was
\* let in before it must not lift the mode when it fails.
RestoreUnderMaintenance == \A r \in Request : pc[r] = "restore" => maintenance

\* While the database is replaced no scheduled collection and no scheduled backup
\* is at work in it.
ScheduledWorkQuiet ==
    \A r \in Request :
        pc[r] = "restore" =>
            /\ ~workers /\ ~collecting
            /\ pc["sched"] \in {"off", "wait", "create", "prune", "dump_file", "manifest_file"}

\* Maintenance ends: with the process or with the failure of the restore.  The
\* hook waits for the loops it stops, and holds the mutex the settings need.
MaintenanceEnds == maintenance ~> ~maintenance

\* "Resume normal operation on failure": when a restore that failed has lifted the
\* maintenance mode, the background workers it stopped are at work again.
NormalOperationResumes ==
    proc = "up" /\ ~maintenance /\ (\A r \in Request : pc[r] \in {"off", "verify", "enter"})
        => workers

=============================================================================
