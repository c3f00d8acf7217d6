------------------------ MODULE BackupRestoreProofs -------------------------
(***************************************************************************)
(* Theorems about BackupRestore, for every number of backups and of        *)
(* restore requests.                                                       *)
(*                                                                         *)
(* The invariants of the runs are not inductive.  What is added: which     *)
(* places of the code an actor can be at, that a deletion never works on   *)
(* the backup of an active job, that a manifest is not succeeded before    *)
(* its time and a dump is gone before its manifest, and that at most one   *)
(* restore gets past the stop functions in the life of a process.          *)
(***************************************************************************)
EXTENDS BackupRestore, TLAPS

SchedPc == {"off", "wait", "create", "write", "dump", "sum", "created",
            "prune", "dump_file", "manifest_file"}

ManualPc == {"off", "create", "write", "dump", "sum", "created"}

DeletePc == {"off", "dump_file", "manifest_file"}

ReconcilePc == {"off", "start_backups", "stop_backups", "await_backups"}

Stopping == {"stop_workers", "await_workers", "stop_backups", "await_backups", "close"}

PastClose == {"claim", "recheck", "restore", "restored", "failed", "resume", "exit"}

RequestPc == {"off", "verify", "enter"} \cup Stopping \cup PastClose

PcOf(a) ==
    IF a = "sched" THEN SchedPc
    ELSE IF a = "manual" THEN ManualPc
    ELSE IF a = "delete" THEN DeletePc
    ELSE IF a = "reconcile" THEN ReconcilePc
    ELSE RequestPc

\* Every actor is at a place of its own code.
Rolewise == \A a \in Actor : pc[a] \in PcOf(a)

\* Where an actor does not work on a backup.
Idle == {"off", "wait", "create", "prune"}

\* Whoever works on a backup knows which.
HoldsBackup == \A a \in Actor \ {"reconcile"} : pc[a] \notin Idle => cur[a] \in Backup

Types == TypeOK /\ Rolewise /\ HoldsBackup

\* A backup that has files, is to be pruned or is worked on was started.
Started ==
    /\ \A b \in Backup : manifest[b] # "none" => b <= created
    /\ \A b \in doomed : b <= created
    /\ \A a \in Creator \cup Deleter : cur[a] # None => cur[a] <= created

\* A deletion works on another backup than the one that is being made.
NoDeletionOfJob ==
    \A a \in Deleter, c \in Creator :
        /\ pc[a] \in {"dump_file", "manifest_file"}
        /\ pc[c] \in {"write", "dump", "sum", "created"}
        => cur[a] # cur[c]

DumpBeforeSum == \A c \in Creator : pc[c] = "sum" => cur[c] \in dump

Files == Started /\ NoDeletionOfJob /\ DumpBeforeSum /\ SucceededIsRestorable

\* A backup that is being made is not yet offered, ...
NotYetOffered ==
    \A c \in Creator : pc[c] \in {"write", "dump", "sum"} => manifest[cur[c]] # "succeeded"

\* ... and one whose manifest is about to go has no dump any more.
DumpGoneFirst == \A a \in Deleter : pc[a] = "manifest_file" => cur[a] \notin dump

\* A process that is down has no goroutines.
DownIsOff == proc = "down" => \A a \in Actor : pc[a] = "off"

Catalogued == NotYetOffered /\ DumpGoneFirst /\ DownIsOff

\* One restore gets past the stop functions of a process, ...
OnePast == \A r, q \in Request : pc[r] \in PastClose /\ pc[q] \in PastClose => r = q

\* ... and finds maintenance mode, as does each that can still get there.
PastGuarded == \A r \in Request : pc[r] \in PastClose => tickers = "closed" /\ maintenance

StoppingGuarded == \A r \in Request : pc[r] \in Stopping /\ tickers = "on" => maintenance

\* The scheduled collections are stopped, and then at rest.
Quiet ==
    \A r \in Request :
        /\ pc[r] \in (Stopping \cup PastClose) \ {"stop_workers"} => ~workers
        /\ pc[r] \in {"stop_backups", "await_backups", "close"} \cup PastClose => ~collecting

\* A process that is down serves no request.
DownIsQuiet == proc = "down" => \A r \in Request : pc[r] = "off"

Guarded == OnePast /\ PastGuarded /\ StoppingGuarded /\ Quiet /\ DownIsQuiet

IInv == Types /\ OneJobAtATime /\ Files /\ Catalogued /\ Guarded

-----------------------------------------------------------------------------

\* The places of a role are places.
LEMMA RolePlaces == \A a \in Actor : PcOf(a) \subseteq Pc
  BY DEF PcOf, SchedPc, ManualPc, DeletePc, ReconcilePc, RequestPc, Stopping, PastClose, Pc

LEMMA InitIInv == Init => IInv
<1> SUFFICES ASSUME Init
             PROVE  IInv
  OBVIOUS
<1> USE BackupAssumption DEF Init, Actor, Creator, Deleter, Backup
<1>1. \A a \in Actor : pc[a] = "off" /\ cur[a] = None
  OBVIOUS
<1>2. \A b \in Backup : manifest[b] = "none"
  OBVIOUS
<1>3. TypeOK
  <2>1. pc \in [Actor -> Pc]
    BY DEF Pc
  <2>2. created \in 0..MaxBackups
    OBVIOUS
  <2>3. Stored
    BY <2>2 DEF Stored
  <2> QED
    BY <2>1, <2>3 DEF TypeOK
<1>4. Rolewise /\ HoldsBackup
  BY <1>1 DEF Rolewise, HoldsBackup, Idle, PcOf, SchedPc, ManualPc, DeletePc, ReconcilePc, RequestPc
<1>5. OneJobAtATime
  BY <1>1 DEF OneJobAtATime, InJob
<1>6. Files
  BY <1>1, <1>2 DEF Files, Started, NoDeletionOfJob, DumpBeforeSum, SucceededIsRestorable, Succeeded
<1>7. Guarded
  BY <1>1 DEF Guarded, OnePast, PastGuarded, StoppingGuarded, Quiet, DownIsQuiet, Stopping, PastClose
<1>8. Catalogued
  BY <1>1 DEF Catalogued, NotYetOffered, DumpGoneFirst, DownIsOff
<1> QED
  BY <1>3, <1>4, <1>5, <1>6, <1>7, <1>8 DEF IInv, Types

LEMMA TypesStep == Types /\ [Next]_vars => Types'
<1> SUFFICES ASSUME Types, [Next]_vars
             PROVE  Types'
  OBVIOUS
<1> USE BackupAssumption DEF
       Types, TypeOK, Stored, Rolewise, HoldsBackup, Idle, Actor, Creator, Deleter, Backup,
       vars, files, job, stopped, Goto, PcOf, SchedPc, ManualPc, DeletePc, ReconcilePc,
       RequestPc, Stopping, PastClose
<1>1. CASE Boot
  <2>1. Stored'
    <3> HIDE DEF PcOf, Rolewise, HoldsBackup, Idle, Pc
    <3> QED
      BY <1>1 DEF Boot
  <2>2. Rolewise'
    BY <1>1 DEF Boot
  <2>3. pc' \in [Actor -> Pc]
    <3> HIDE DEF PcOf, Idle
    <3> QED
      BY <2>2, RolePlaces, <1>1 DEF Boot
  <2>4. HoldsBackup'
    BY <1>1 DEF Boot
  <2> QED
    BY <2>1, <2>2, <2>3, <2>4
<1>2. CASE Crash
  <2>1. Stored'
    <3> HIDE DEF PcOf, Rolewise, HoldsBackup, Idle, Pc
    <3> QED
      BY <1>2 DEF Crash, End
  <2>2. Rolewise'
    BY <1>2 DEF Crash, End
  <2>3. pc' \in [Actor -> Pc]
    <3> HIDE DEF PcOf, Idle
    <3> QED
      BY <2>2, RolePlaces, <1>2 DEF Crash, End
  <2>4. HoldsBackup'
    BY <1>2 DEF Crash, End
  <2> QED
    BY <2>1, <2>2, <2>3, <2>4
<1>3. CASE Collect
  <2>1. Stored'
    <3> HIDE DEF PcOf, Rolewise, HoldsBackup, Idle, Pc
    <3> QED
      BY <1>3 DEF Collect
  <2>2. Rolewise'
    BY <1>3 DEF Collect
  <2>3. pc' \in [Actor -> Pc]
    <3> HIDE DEF PcOf, Idle
    <3> QED
      BY <2>2, RolePlaces, <1>3 DEF Collect
  <2>4. HoldsBackup'
    BY <1>3 DEF Collect
  <2> QED
    BY <2>1, <2>2, <2>3, <2>4
<1>4. ASSUME NEW a \in Creator, WantBackup(a) \/ CreateSteps(a)
      PROVE  Types'
  <2>1. CASE WantBackup(a)
    <3>1. Stored'
      <4> HIDE DEF PcOf, Rolewise, HoldsBackup, Idle, Pc
      <4> QED
        BY <1>4, <2>1 DEF WantBackup, Rest
    <3>2. Rolewise'
      BY <1>4, <2>1 DEF WantBackup, Rest
    <3>3. pc' \in [Actor -> Pc]
      <4> HIDE DEF PcOf, Idle
      <4> QED
        BY <3>2, RolePlaces, <1>4, <2>1 DEF WantBackup, Rest
    <3>4. HoldsBackup'
      BY <1>4, <2>1 DEF WantBackup, Rest
    <3> QED
      BY <3>1, <3>2, <3>3, <3>4
  <2>2. CASE Create(a)
    <3>1. Stored'
      <4> HIDE DEF PcOf, Rolewise, HoldsBackup
      <4>1. created' \in 0..MaxBackups /\ active' \in Backup \cup {None}
        <5> HIDE DEF PcOf, Rolewise, HoldsBackup, Actor, Pc, Idle
        <5>1. CASE active = None /\ created < MaxBackups
          BY <5>1, <2>2 DEF Create
        <5>2. CASE ~(active = None /\ created < MaxBackups)
          BY <5>2, <2>2 DEF Create
        <5> QED
          BY <5>1, <5>2
      <4>2. cur' \in [Actor -> Backup \cup {None}]
        <5> HIDE DEF PcOf, Rolewise, HoldsBackup, Actor, Pc, Idle
        <5> QED
          BY <4>1, <2>2 DEF Create
      <4>3. mu' # None => pc'[mu'] = "await_backups"
        BY <1>4, <2>2 DEF Create
      <4> QED
        BY <4>1, <4>2, <4>3, <2>2 DEF Create
    <3>2. Rolewise'
      BY <1>4, <2>2 DEF Create, Rest
    <3>3. pc' \in [Actor -> Pc]
      <4> HIDE DEF PcOf, Idle
      <4> QED
        BY <3>2, RolePlaces, <1>4, <2>2 DEF Create, Rest
    <3>4. HoldsBackup'
      BY <1>4, <2>2 DEF Create, Rest
    <3> QED
      BY <3>1, <3>2, <3>3, <3>4
  <2>3. CASE WriteRunning(a)
    <3>1. Stored'
      <4> HIDE DEF PcOf, Rolewise, HoldsBackup, Idle, Pc
      <4> QED
        BY <1>4, <2>3 DEF WriteRunning, SetManifest, SpoilManifest
    <3>2. Rolewise'
      BY <1>4, <2>3 DEF WriteRunning, SetManifest, SpoilManifest
    <3>3. pc' \in [Actor -> Pc]
      <4> HIDE DEF PcOf, Idle
      <4> QED
        BY <3>2, RolePlaces, <1>4, <2>3 DEF WriteRunning, SetManifest, SpoilManifest
    <3>4. HoldsBackup'
      BY <1>4, <2>3 DEF WriteRunning, SetManifest, SpoilManifest
    <3> QED
      BY <3>1, <3>2, <3>3, <3>4
  <2>4. CASE Dump(a)
    <3>1. Stored'
      <4>0. cur[a] \in Backup
        BY <1>4, <2>4 DEF Dump
      <4> HIDE DEF PcOf, Rolewise, HoldsBackup, Idle, Pc
      <4>1. mu' # None => pc'[mu'] = "await_backups"
        BY <1>4, <2>4 DEF Dump, SetManifest, SpoilManifest, TryManifest
      <4>2. manifest' \in [Backup -> {"none", "unreadable", "running", "failed", "succeeded"}]
        BY <1>4, <2>4 DEF Dump, SetManifest, SpoilManifest, TryManifest
      <4>3. cur' \in [Actor -> Backup \cup {None}]
        BY <1>4, <2>4 DEF Dump, SetManifest, SpoilManifest, TryManifest
      <4>4. dump' \subseteq Backup
        BY <4>0, <1>4, <2>4 DEF Dump
      <4>5. UNCHANGED <<proc, torn, created, job, maintenance, stopped>>
        BY <2>4 DEF Dump
      <4> HIDE DEF Actor
      <4> QED
        BY <4>1, <4>2, <4>3, <4>4, <4>5
    <3>2. Rolewise'
      BY <1>4, <2>4 DEF Dump, SetManifest, SpoilManifest, TryManifest
    <3>3. pc' \in [Actor -> Pc]
      <4> HIDE DEF PcOf, Idle
      <4> QED
        BY <3>2, RolePlaces, <1>4, <2>4 DEF Dump, SetManifest, SpoilManifest, TryManifest
    <3>4. HoldsBackup'
      BY <1>4, <2>4 DEF Dump, SetManifest, SpoilManifest, TryManifest
    <3> QED
      BY <3>1, <3>2, <3>3, <3>4
  <2>5. CASE Sum(a)
    <3>1. Stored'
      <4> HIDE DEF PcOf, Rolewise, HoldsBackup, Idle, Pc
      <4>1. mu' # None => pc'[mu'] = "await_backups"
        BY <1>4, <2>5 DEF Sum, SetManifest, SpoilManifest, TryManifest
      <4>2. manifest' \in [Backup -> {"none", "unreadable", "running", "failed", "succeeded"}]
        BY <1>4, <2>5 DEF Sum, SetManifest, SpoilManifest, TryManifest
      <4>3. cur' \in [Actor -> Backup \cup {None}]
        BY <1>4, <2>5 DEF Sum, SetManifest, SpoilManifest, TryManifest
      <4>4. good' \in BOOLEAN
        BY <1>4, <2>5 DEF Sum
      <4>5. UNCHANGED <<proc, dump, torn, created, active, cur, doomed, maintenance, stopped>>
        BY <2>5 DEF Sum
      <4> HIDE DEF Actor
      <4> QED
        BY <4>1, <4>2, <4>3, <4>4, <4>5
    <3>2. Rolewise'
      BY <1>4, <2>5 DEF Sum, SetManifest, SpoilManifest, TryManifest
    <3>3. pc' \in [Actor -> Pc]
      <4> HIDE DEF PcOf, Idle
      <4> QED
        BY <3>2, RolePlaces, <1>4, <2>5 DEF Sum, SetManifest, SpoilManifest, TryManifest
    <3>4. HoldsBackup'
      BY <1>4, <2>5 DEF Sum, SetManifest, SpoilManifest, TryManifest
    <3> QED
      BY <3>1, <3>2, <3>3, <3>4
  <2>6. CASE Created(a)
    <3>1. Stored'
      <4> HIDE DEF PcOf, Rolewise, HoldsBackup, Idle, Pc
      <4> QED
        BY <1>4, <2>6 DEF Created, Rest
    <3>2. Rolewise'
      BY <1>4, <2>6 DEF Created, Rest
    <3>3. pc' \in [Actor -> Pc]
      <4> HIDE DEF PcOf, Idle
      <4> QED
        BY <3>2, RolePlaces, <1>4, <2>6 DEF Created, Rest
    <3>4. HoldsBackup'
      BY <1>4, <2>6 DEF Created, Rest
    <3> QED
      BY <3>1, <3>2, <3>3, <3>4
  <2> QED
    BY <1>4, <2>1, <2>2, <2>3, <2>4, <2>5, <2>6 DEF CreateSteps
<1>5. CASE Prune
  <2>1. Stored'
    <3> HIDE DEF PcOf, Rolewise, HoldsBackup, Idle, Pc
    <3> QED
      BY <1>5 DEF Prune, Succeeded
  <2>2. Rolewise'
    BY <1>5 DEF Prune, Succeeded
  <2>3. pc' \in [Actor -> Pc]
    <3> HIDE DEF PcOf, Idle
    <3> QED
      BY <2>2, RolePlaces, <1>5 DEF Prune, Succeeded
  <2>4. HoldsBackup'
    BY <1>5 DEF Prune, Succeeded
  <2> QED
    BY <2>1, <2>2, <2>3, <2>4
<1>6. CASE SchedulerExit
  <2>1. Stored'
    <3> HIDE DEF PcOf, Rolewise, HoldsBackup, Idle, Pc
    <3> QED
      BY <1>6 DEF SchedulerExit
  <2>2. Rolewise'
    BY <1>6 DEF SchedulerExit
  <2>3. pc' \in [Actor -> Pc]
    <3> HIDE DEF PcOf, Idle
    <3> QED
      BY <2>2, RolePlaces, <1>6 DEF SchedulerExit
  <2>4. HoldsBackup'
    BY <1>6 DEF SchedulerExit
  <2> QED
    BY <2>1, <2>2, <2>3, <2>4
<1>7. ASSUME NEW a \in Deleter, NEW b \in Backup, CheckDelete(a, b)
      PROVE  Types'
  <2>1. Stored'
    <3> HIDE DEF PcOf, Rolewise, HoldsBackup, Idle, Pc
    <3>1. mu' # None => pc'[mu'] = "await_backups"
      BY <1>7 DEF CheckDelete, Rest
    <3>2. manifest' \in [Backup -> {"none", "unreadable", "running", "failed", "succeeded"}]
      BY <1>7 DEF CheckDelete, Rest
    <3>3. cur' \in [Actor -> Backup \cup {None}]
      BY <1>7 DEF CheckDelete, Rest
    <3> QED
      BY <3>1, <3>2, <3>3, <1>7 DEF CheckDelete, Rest
  <2>2. Rolewise'
    BY <1>7 DEF CheckDelete, Rest
  <2>3. pc' \in [Actor -> Pc]
    <3> HIDE DEF PcOf, Idle
    <3> QED
      BY <2>2, RolePlaces, <1>7 DEF CheckDelete, Rest
  <2>4. HoldsBackup'
    BY <1>7 DEF CheckDelete, Rest
  <2> QED
    BY <2>1, <2>2, <2>3, <2>4
<1>8. ASSUME NEW a \in Deleter, DeleteSteps(a)
      PROVE  Types'
  <2>1. CASE RemoveDump(a)
    <3>1. Stored'
      <4>0. cur[a] \in Backup
        BY <1>8, <2>1 DEF RemoveDump
      <4> HIDE DEF PcOf, Rolewise, HoldsBackup, Idle, Pc
      <4>1. mu' # None => pc'[mu'] = "await_backups"
        BY <1>8, <2>1 DEF RemoveDump, Rest
      <4>2. manifest' \in [Backup -> {"none", "unreadable", "running", "failed", "succeeded"}]
        BY <1>8, <2>1 DEF RemoveDump, Rest
      <4>3. cur' \in [Actor -> Backup \cup {None}]
        BY <1>8, <2>1 DEF RemoveDump, Rest
      <4>4. dump' \subseteq Backup /\ torn' \subseteq Backup
        BY <4>0, <1>8, <2>1 DEF RemoveDump
      <4>5. UNCHANGED <<proc, manifest, created, active, doomed, good, maintenance, stopped>>
        BY <2>1 DEF RemoveDump
      <4> HIDE DEF Actor
      <4> QED
        BY <4>1, <4>2, <4>3, <4>4, <4>5
    <3>2. Rolewise'
      BY <1>8, <2>1 DEF RemoveDump, Rest
    <3>3. pc' \in [Actor -> Pc]
      <4> HIDE DEF PcOf, Idle
      <4> QED
        BY <3>2, RolePlaces, <1>8, <2>1 DEF RemoveDump, Rest
    <3>4. HoldsBackup'
      BY <1>8, <2>1 DEF RemoveDump, Rest
    <3> QED
      BY <3>1, <3>2, <3>3, <3>4
  <2>2. CASE RemoveManifest(a)
    <3>1. Stored'
      <4> HIDE DEF PcOf, Rolewise, HoldsBackup, Idle, Pc
      <4>1. mu' # None => pc'[mu'] = "await_backups"
        BY <1>8, <2>2 DEF RemoveManifest, SetManifest, Rest
      <4>2. manifest' \in [Backup -> {"none", "unreadable", "running", "failed", "succeeded"}]
        BY <1>8, <2>2 DEF RemoveManifest, SetManifest, Rest
      <4>3. cur' \in [Actor -> Backup \cup {None}]
        BY <1>8, <2>2 DEF RemoveManifest, SetManifest, Rest
      <4>4. torn' \subseteq Backup
        BY <1>8, <2>2 DEF RemoveManifest
      <4>5. UNCHANGED <<proc, dump, created, active, doomed, good, maintenance, stopped>>
        BY <2>2 DEF RemoveManifest
      <4> HIDE DEF Actor
      <4> QED
        BY <4>1, <4>2, <4>3, <4>4, <4>5
    <3>2. Rolewise'
      BY <1>8, <2>2 DEF RemoveManifest, SetManifest, Rest
    <3>3. pc' \in [Actor -> Pc]
      <4> HIDE DEF PcOf, Idle
      <4> QED
        BY <3>2, RolePlaces, <1>8, <2>2 DEF RemoveManifest, SetManifest, Rest
    <3>4. HoldsBackup'
      BY <1>8, <2>2 DEF RemoveManifest, SetManifest, Rest
    <3> QED
      BY <3>1, <3>2, <3>3, <3>4
  <2> QED
    BY <1>8, <2>1, <2>2 DEF DeleteSteps
<1>9. ASSUME NEW r \in Request, NEW b \in Backup, WantRestore(r, b)
      PROVE  Types'
  <2>1. Stored'
    <3> HIDE DEF PcOf, Rolewise, HoldsBackup, Idle, Pc
    <3> QED
      BY <1>9 DEF WantRestore
  <2>2. Rolewise'
    BY <1>9 DEF WantRestore
  <2>3. pc' \in [Actor -> Pc]
    <3> HIDE DEF PcOf, Idle
    <3> QED
      BY <2>2, RolePlaces, <1>9 DEF WantRestore
  <2>4. HoldsBackup'
    BY <1>9 DEF WantRestore
  <2> QED
    BY <2>1, <2>2, <2>3, <2>4
<1>10. ASSUME NEW r \in Request, RestoreSteps(r)
      PROVE  Types'
  <2>1. CASE Verify(r)
    <3>1. Stored'
      <4> HIDE DEF PcOf, Rolewise, HoldsBackup, Idle, Pc
      <4> QED
        BY <1>10, <2>1 DEF Verify
    <3>2. Rolewise'
      BY <1>10, <2>1 DEF Verify
    <3>3. pc' \in [Actor -> Pc]
      <4> HIDE DEF PcOf, Idle
      <4> QED
        BY <3>2, RolePlaces, <1>10, <2>1 DEF Verify
    <3>4. HoldsBackup'
      BY <1>10, <2>1 DEF Verify
    <3> QED
      BY <3>1, <3>2, <3>3, <3>4
  <2>2. CASE Enter(r)
    <3>1. Stored'
      <4> HIDE DEF PcOf, Rolewise, HoldsBackup, Idle, Pc
      <4> QED
        BY <1>10, <2>2 DEF Enter
    <3>2. Rolewise'
      BY <1>10, <2>2 DEF Enter
    <3>3. pc' \in [Actor -> Pc]
      <4> HIDE DEF PcOf, Idle
      <4> QED
        BY <3>2, RolePlaces, <1>10, <2>2 DEF Enter
    <3>4. HoldsBackup'
      BY <1>10, <2>2 DEF Enter
    <3> QED
      BY <3>1, <3>2, <3>3, <3>4
  <2>3. CASE StopWorkers(r)
    <3>1. Stored'
      <4> HIDE DEF PcOf, Rolewise, HoldsBackup, Idle, Pc
      <4> QED
        BY <1>10, <2>3 DEF StopWorkers
    <3>2. Rolewise'
      BY <1>10, <2>3 DEF StopWorkers
    <3>3. pc' \in [Actor -> Pc]
      <4> HIDE DEF PcOf, Idle
      <4> QED
        BY <3>2, RolePlaces, <1>10, <2>3 DEF StopWorkers
    <3>4. HoldsBackup'
      BY <1>10, <2>3 DEF StopWorkers
    <3> QED
      BY <3>1, <3>2, <3>3, <3>4
  <2>4. CASE AwaitWorkers(r)
    <3>1. Stored'
      <4> HIDE DEF PcOf, Rolewise, HoldsBackup, Idle, Pc
      <4> QED
        BY <1>10, <2>4 DEF AwaitWorkers
    <3>2. Rolewise'
      BY <1>10, <2>4 DEF AwaitWorkers
    <3>3. pc' \in [Actor -> Pc]
      <4> HIDE DEF PcOf, Idle
      <4> QED
        BY <3>2, RolePlaces, <1>10, <2>4 DEF AwaitWorkers
    <3>4. HoldsBackup'
      BY <1>10, <2>4 DEF AwaitWorkers
    <3> QED
      BY <3>1, <3>2, <3>3, <3>4
  <2>5. CASE StopBackups(r)
    <3>1. Stored'
      <4> HIDE DEF PcOf, Rolewise, HoldsBackup, Idle, Pc
      <4>1. mu' # None => pc'[mu'] = "await_backups"
        BY <1>10, <2>5 DEF StopBackups
      <4>2. manifest' \in [Backup -> {"none", "unreadable", "running", "failed", "succeeded"}]
        BY <1>10, <2>5 DEF StopBackups
      <4>3. cur' \in [Actor -> Backup \cup {None}]
        BY <1>10, <2>5 DEF StopBackups
      <4> QED
        BY <4>1, <4>2, <4>3, <1>10, <2>5 DEF StopBackups
    <3>2. Rolewise'
      BY <1>10, <2>5 DEF StopBackups
    <3>3. pc' \in [Actor -> Pc]
      <4> HIDE DEF PcOf, Idle
      <4> QED
        BY <3>2, RolePlaces, <1>10, <2>5 DEF StopBackups
    <3>4. HoldsBackup'
      BY <1>10, <2>5 DEF StopBackups
    <3> QED
      BY <3>1, <3>2, <3>3, <3>4
  <2>6. CASE AwaitBackups(r, "close")
    <3>1. Stored'
      <4> HIDE DEF PcOf, Rolewise, HoldsBackup, Idle, Pc
      <4> QED
        BY <1>10, <2>6 DEF AwaitBackups
    <3>2. Rolewise'
      BY <1>10, <2>6 DEF AwaitBackups
    <3>3. pc' \in [Actor -> Pc]
      <4> HIDE DEF PcOf, Idle
      <4> QED
        BY <3>2, RolePlaces, <1>10, <2>6 DEF AwaitBackups
    <3>4. HoldsBackup'
      BY <1>10, <2>6 DEF AwaitBackups
    <3> QED
      BY <3>1, <3>2, <3>3, <3>4
  <2>7. CASE CloseTickers(r)
    <3>1. Stored'
      <4> HIDE DEF PcOf, Rolewise, HoldsBackup, Idle, Pc
      <4>1. CASE tickers = "closed"
        <5>1. cur' = [a \in Actor |-> None]
          BY <4>1, <2>7 DEF CloseTickers, End
        <5> QED
          BY <4>1, <5>1, <2>7 DEF CloseTickers, End
      <4>2. CASE tickers # "closed"
        <5>1. mu' # None => pc'[mu'] = "await_backups"
          BY <4>2, <1>10, <2>7 DEF CloseTickers
        <5> QED
          BY <4>2, <5>1, <2>7 DEF CloseTickers
      <4> QED
        BY <4>1, <4>2
    <3>2. Rolewise'
      <4>1. CASE tickers = "closed"
        BY <4>1, <1>10, <2>7 DEF CloseTickers, End
      <4>2. CASE tickers # "closed"
        BY <4>2, <1>10, <2>7 DEF CloseTickers
      <4> QED
        BY <4>1, <4>2
    <3>3. pc' \in [Actor -> Pc]
      <4> HIDE DEF PcOf, Idle
      <4>1. CASE tickers = "closed"
        BY <3>2, RolePlaces, <4>1, <1>10, <2>7 DEF CloseTickers, End
      <4>2. CASE tickers # "closed"
        BY <3>2, RolePlaces, <4>2, <1>10, <2>7 DEF CloseTickers
      <4> QED
        BY <4>1, <4>2
    <3>4. HoldsBackup'
      <4>1. CASE tickers = "closed"
        BY <4>1, <1>10, <2>7 DEF CloseTickers, End
      <4>2. CASE tickers # "closed"
        BY <4>2, <1>10, <2>7 DEF CloseTickers
      <4> QED
        BY <4>1, <4>2
    <3> QED
      BY <3>1, <3>2, <3>3, <3>4
  <2>8. CASE Claim(r)
    <3>1. Stored'
      <4> HIDE DEF PcOf, Rolewise, HoldsBackup, Idle, Pc
      <4> QED
        BY <1>10, <2>8 DEF Claim, Readable
    <3>2. Rolewise'
      BY <1>10, <2>8 DEF Claim, Readable
    <3>3. pc' \in [Actor -> Pc]
      <4> HIDE DEF PcOf, Idle
      <4> QED
        BY <3>2, RolePlaces, <1>10, <2>8 DEF Claim, Readable
    <3>4. HoldsBackup'
      BY <1>10, <2>8 DEF Claim, Readable
    <3> QED
      BY <3>1, <3>2, <3>3, <3>4
  <2>9. CASE Recheck(r)
    <3>1. Stored'
      <4> HIDE DEF PcOf, Rolewise, HoldsBackup, Idle, Pc
      <4> QED
        BY <1>10, <2>9 DEF Recheck
    <3>2. Rolewise'
      BY <1>10, <2>9 DEF Recheck
    <3>3. pc' \in [Actor -> Pc]
      <4> HIDE DEF PcOf, Idle
      <4> QED
        BY <3>2, RolePlaces, <1>10, <2>9 DEF Recheck
    <3>4. HoldsBackup'
      BY <1>10, <2>9 DEF Recheck
    <3> QED
      BY <3>1, <3>2, <3>3, <3>4
  <2>10. CASE Restore(r)
    <3>1. Stored'
      <4> HIDE DEF PcOf, Rolewise, HoldsBackup, Idle, Pc
      <4> QED
        BY <1>10, <2>10 DEF Restore
    <3>2. Rolewise'
      BY <1>10, <2>10 DEF Restore
    <3>3. pc' \in [Actor -> Pc]
      <4> HIDE DEF PcOf, Idle
      <4> QED
        BY <3>2, RolePlaces, <1>10, <2>10 DEF Restore
    <3>4. HoldsBackup'
      BY <1>10, <2>10 DEF Restore
    <3> QED
      BY <3>1, <3>2, <3>3, <3>4
  <2>11. CASE Unwind(r)
    <3>1. Stored'
      <4> HIDE DEF PcOf, Rolewise, HoldsBackup, Idle, Pc
      <4> QED
        BY <1>10, <2>11 DEF Unwind
    <3>2. Rolewise'
      BY <1>10, <2>11 DEF Unwind
    <3>3. pc' \in [Actor -> Pc]
      <4> HIDE DEF PcOf, Idle
      <4> QED
        BY <3>2, RolePlaces, <1>10, <2>11 DEF Unwind
    <3>4. HoldsBackup'
      BY <1>10, <2>11 DEF Unwind
    <3> QED
      BY <3>1, <3>2, <3>3, <3>4
  <2>12. CASE Resume(r)
    <3>1. Stored'
      <4> HIDE DEF PcOf, Rolewise, HoldsBackup, Idle, Pc
      <4> QED
        BY <1>10, <2>12 DEF Resume
    <3>2. Rolewise'
      BY <1>10, <2>12 DEF Resume
    <3>3. pc' \in [Actor -> Pc]
      <4> HIDE DEF PcOf, Idle
      <4> QED
        BY <3>2, RolePlaces, <1>10, <2>12 DEF Resume
    <3>4. HoldsBackup'
      BY <1>10, <2>12 DEF Resume
    <3> QED
      BY <3>1, <3>2, <3>3, <3>4
  <2>13. CASE Exit(r)
    <3>1. Stored'
      <4> HIDE DEF PcOf, Rolewise, HoldsBackup, Idle, Pc
      <4> QED
        BY <1>10, <2>13 DEF Exit, End
    <3>2. Rolewise'
      BY <1>10, <2>13 DEF Exit, End
    <3>3. pc' \in [Actor -> Pc]
      <4> HIDE DEF PcOf, Idle
      <4> QED
        BY <3>2, RolePlaces, <1>10, <2>13 DEF Exit, End
    <3>4. HoldsBackup'
      BY <1>10, <2>13 DEF Exit, End
    <3> QED
      BY <3>1, <3>2, <3>3, <3>4
  <2> QED
    BY <1>10, <2>1, <2>2, <2>3, <2>4, <2>5, <2>6, <2>7, <2>8, <2>9, <2>10, <2>11, <2>12, <2>13 DEF RestoreSteps
<1>11. CASE WantReconcile
  <2>1. Stored'
    <3> HIDE DEF PcOf, Rolewise, HoldsBackup, Idle, Pc
    <3> QED
      BY <1>11 DEF WantReconcile
  <2>2. Rolewise'
    BY <1>11 DEF WantReconcile
  <2>3. pc' \in [Actor -> Pc]
    <3> HIDE DEF PcOf, Idle
    <3> QED
      BY <2>2, RolePlaces, <1>11 DEF WantReconcile
  <2>4. HoldsBackup'
    BY <1>11 DEF WantReconcile
  <2> QED
    BY <2>1, <2>2, <2>3, <2>4
<1>12. CASE StartBackups
  <2>1. Stored'
    <3> HIDE DEF PcOf, Rolewise, HoldsBackup, Idle, Pc
    <3> QED
      BY <1>12 DEF StartBackups
  <2>2. Rolewise'
    BY <1>12 DEF StartBackups
  <2>3. pc' \in [Actor -> Pc]
    <3> HIDE DEF PcOf, Idle
    <3> QED
      BY <2>2, RolePlaces, <1>12 DEF StartBackups
  <2>4. HoldsBackup'
    BY <1>12 DEF StartBackups
  <2> QED
    BY <2>1, <2>2, <2>3, <2>4
<1>13. CASE DisableBackups
  <2>1. Stored'
    <3> HIDE DEF PcOf, Rolewise, HoldsBackup, Idle, Pc
    <3> QED
      BY <1>13 DEF DisableBackups
  <2>2. Rolewise'
    BY <1>13 DEF DisableBackups
  <2>3. pc' \in [Actor -> Pc]
    <3> HIDE DEF PcOf, Idle
    <3> QED
      BY <2>2, RolePlaces, <1>13 DEF DisableBackups
  <2>4. HoldsBackup'
    BY <1>13 DEF DisableBackups
  <2> QED
    BY <2>1, <2>2, <2>3, <2>4
<1>14. CASE AwaitBackups("reconcile", "off")
  <2>1. Stored'
    <3> HIDE DEF PcOf, Rolewise, HoldsBackup, Idle, Pc
    <3> QED
      BY <1>14 DEF AwaitBackups
  <2>2. Rolewise'
    BY <1>14 DEF AwaitBackups
  <2>3. pc' \in [Actor -> Pc]
    <3> HIDE DEF PcOf, Idle
    <3> QED
      BY <2>2, RolePlaces, <1>14 DEF AwaitBackups
  <2>4. HoldsBackup'
    BY <1>14 DEF AwaitBackups
  <2> QED
    BY <2>1, <2>2, <2>3, <2>4
<1>15. CASE UNCHANGED vars
  BY <1>15
<1> QED
  BY <1>1, <1>2, <1>3, <1>4, <1>5, <1>6, <1>7, <1>8, <1>9, <1>10, <1>11, <1>12, <1>13, <1>14, <1>15
     DEF Next, PruneSteps, ReconcileSteps, Deleter

LEMMA JobStep == Types /\ OneJobAtATime /\ [Next]_vars => OneJobAtATime'
<1> SUFFICES ASSUME Types /\ OneJobAtATime, [Next]_vars
             PROVE  OneJobAtATime'
  OBVIOUS
<1> USE BackupAssumption DEF
       OneJobAtATime, InJob, Types, TypeOK, Stored, Rolewise, HoldsBackup, Idle, Actor,
       Creator, Deleter, Backup, vars, files, job, stopped, Goto, PcOf, SchedPc, ManualPc,
       DeletePc, ReconcilePc, RequestPc, Stopping, PastClose
<1>1. CASE Boot
  BY <1>1 DEF Boot
<1>2. CASE Crash
  BY <1>2 DEF Crash, End
<1>3. CASE Collect
  BY <1>3 DEF Collect
<1>4. ASSUME NEW a \in Creator, WantBackup(a) \/ CreateSteps(a)
      PROVE  OneJobAtATime'
  <2>1. CASE WantBackup(a)
    BY <1>4, <2>1 DEF WantBackup, Rest
  <2>2. CASE Create(a)
    <3>1. CASE active = None /\ created < MaxBackups
      <4>1. \A b \in Actor : ~InJob(b)
        BY <3>1
      <4>2. \A b \in Actor : b # a => pc'[b] = pc[b]
        BY <2>2, <3>1 DEF Create
      <4>3. active' = cur'[a]
        BY <1>4, <2>2, <3>1 DEF Create
      <4> QED
        BY <4>1, <4>2, <4>3
    <3>2. CASE ~(active = None /\ created < MaxBackups)
      BY <1>4, <2>2, <3>2 DEF Create, Rest
    <3> QED
      BY <3>1, <3>2
  <2>3. CASE WriteRunning(a)
    BY <1>4, <2>3 DEF WriteRunning, SetManifest, SpoilManifest
  <2>4. CASE Dump(a)
    BY <1>4, <2>4 DEF Dump, SetManifest, SpoilManifest, TryManifest
  <2>5. CASE Sum(a)
    BY <1>4, <2>5 DEF Sum, SetManifest, SpoilManifest, TryManifest
  <2>6. CASE Created(a)
    BY <1>4, <2>6 DEF Created, Rest
  <2> QED
    BY <1>4, <2>1, <2>2, <2>3, <2>4, <2>5, <2>6 DEF CreateSteps
<1>5. CASE Prune
  BY <1>5 DEF Prune, Succeeded
<1>6. CASE SchedulerExit
  BY <1>6 DEF SchedulerExit
<1>7. ASSUME NEW a \in Deleter, NEW b \in Backup, CheckDelete(a, b)
      PROVE  OneJobAtATime'
  BY <1>7 DEF CheckDelete, Rest
<1>8. ASSUME NEW a \in Deleter, DeleteSteps(a)
      PROVE  OneJobAtATime'
  <2>1. CASE RemoveDump(a)
    BY <1>8, <2>1 DEF RemoveDump, Rest
  <2>2. CASE RemoveManifest(a)
    BY <1>8, <2>2 DEF RemoveManifest, SetManifest, Rest
  <2> QED
    BY <1>8, <2>1, <2>2 DEF DeleteSteps
<1>9. ASSUME NEW r \in Request, NEW b \in Backup, WantRestore(r, b)
      PROVE  OneJobAtATime'
  BY <1>9 DEF WantRestore
<1>10. ASSUME NEW r \in Request, RestoreSteps(r)
      PROVE  OneJobAtATime'
  <2>1. CASE Verify(r)
    BY <1>10, <2>1 DEF Verify
  <2>2. CASE Enter(r)
    BY <1>10, <2>2 DEF Enter
  <2>3. CASE StopWorkers(r)
    BY <1>10, <2>3 DEF StopWorkers
  <2>4. CASE AwaitWorkers(r)
    BY <1>10, <2>4 DEF AwaitWorkers
  <2>5. CASE StopBackups(r)
    BY <1>10, <2>5 DEF StopBackups
  <2>6. CASE AwaitBackups(r, "close")
    BY <1>10, <2>6 DEF AwaitBackups
  <2>7. CASE CloseTickers(r)
    <3>1. OneJobAtATime'
      <4>1. CASE tickers = "closed"
        BY <4>1, <1>10, <2>7 DEF CloseTickers, End
      <4>2. CASE tickers # "closed"
        BY <4>2, <1>10, <2>7 DEF CloseTickers
      <4> QED
        BY <4>1, <4>2
    <3> QED
      BY <3>1
  <2>8. CASE Claim(r)
    BY <1>10, <2>8 DEF Claim, Readable
  <2>9. CASE Recheck(r)
    BY <1>10, <2>9 DEF Recheck
  <2>10. CASE Restore(r)
    BY <1>10, <2>10 DEF Restore
  <2>11. CASE Unwind(r)
    BY <1>10, <2>11 DEF Unwind
  <2>12. CASE Resume(r)
    BY <1>10, <2>12 DEF Resume
  <2>13. CASE Exit(r)
    BY <1>10, <2>13 DEF Exit, End
  <2> QED
    BY <1>10, <2>1, <2>2, <2>3, <2>4, <2>5, <2>6, <2>7, <2>8, <2>9, <2>10, <2>11, <2>12, <2>13 DEF RestoreSteps
<1>11. CASE WantReconcile
  BY <1>11 DEF WantReconcile
<1>12. CASE StartBackups
  BY <1>12 DEF StartBackups
<1>13. CASE DisableBackups
  BY <1>13 DEF DisableBackups
<1>14. CASE AwaitBackups("reconcile", "off")
  BY <1>14 DEF AwaitBackups
<1>15. CASE UNCHANGED vars
  BY <1>15
<1> QED
  BY <1>1, <1>2, <1>3, <1>4, <1>5, <1>6, <1>7, <1>8, <1>9, <1>10, <1>11, <1>12, <1>13, <1>14, <1>15
     DEF Next, PruneSteps, ReconcileSteps, Deleter

LEMMA FilesStep == Types /\ OneJobAtATime /\ Files /\ [Next]_vars => Files'
<1> SUFFICES ASSUME Types /\ OneJobAtATime /\ Files, [Next]_vars
             PROVE  Files'
  OBVIOUS
<1> USE BackupAssumption DEF
       Files, Started, NoDeletionOfJob, DumpBeforeSum, SucceededIsRestorable, Succeeded,
       OneJobAtATime, InJob, Types, TypeOK, Stored, Rolewise, HoldsBackup, Idle, Actor,
       Creator, Deleter, Backup, vars, files, job, stopped, Goto, PcOf, SchedPc, ManualPc,
       DeletePc, ReconcilePc, RequestPc, Stopping, PastClose
<1>1. CASE Boot
  BY <1>1 DEF Boot
<1>2. CASE Crash
  BY <1>2 DEF Crash, End
<1>3. CASE Collect
  BY <1>3 DEF Collect
<1>4. ASSUME NEW a \in Creator, WantBackup(a) \/ CreateSteps(a)
      PROVE  Files'
  <2>1. CASE WantBackup(a)
    BY <1>4, <2>1 DEF WantBackup, Rest
  <2>2. CASE Create(a)
    BY <1>4, <2>2 DEF Create, Rest
  <2>3. CASE WriteRunning(a)
    BY <1>4, <2>3 DEF WriteRunning, SetManifest, SpoilManifest
  <2>4. CASE Dump(a)
    BY <1>4, <2>4 DEF Dump, SetManifest, SpoilManifest, TryManifest
  <2>5. CASE Sum(a)
    BY <1>4, <2>5 DEF Sum, SetManifest, SpoilManifest, TryManifest
  <2>6. CASE Created(a)
    BY <1>4, <2>6 DEF Created, Rest
  <2> QED
    BY <1>4, <2>1, <2>2, <2>3, <2>4, <2>5, <2>6 DEF CreateSteps
<1>5. CASE Prune
  BY <1>5 DEF Prune, Succeeded
<1>6. CASE SchedulerExit
  BY <1>6 DEF SchedulerExit
<1>7. ASSUME NEW a \in Deleter, NEW b \in Backup, CheckDelete(a, b)
      PROVE  Files'
  BY <1>7 DEF CheckDelete, Rest
<1>8. ASSUME NEW a \in Deleter, DeleteSteps(a)
      PROVE  Files'
  <2>1. CASE RemoveDump(a)
    BY <1>8, <2>1 DEF RemoveDump, Rest
  <2>2. CASE RemoveManifest(a)
    BY <1>8, <2>2 DEF RemoveManifest, SetManifest, Rest
  <2> QED
    BY <1>8, <2>1, <2>2 DEF DeleteSteps
<1>9. ASSUME NEW r \in Request, NEW b \in Backup, WantRestore(r, b)
      PROVE  Files'
  BY <1>9 DEF WantRestore
<1>10. ASSUME NEW r \in Request, RestoreSteps(r)
      PROVE  Files'
  <2>1. CASE Verify(r)
    BY <1>10, <2>1 DEF Verify
  <2>2. CASE Enter(r)
    BY <1>10, <2>2 DEF Enter
  <2>3. CASE StopWorkers(r)
    BY <1>10, <2>3 DEF StopWorkers
  <2>4. CASE AwaitWorkers(r)
    BY <1>10, <2>4 DEF AwaitWorkers
  <2>5. CASE StopBackups(r)
    BY <1>10, <2>5 DEF StopBackups
  <2>6. CASE AwaitBackups(r, "close")
    BY <1>10, <2>6 DEF AwaitBackups
  <2>7. CASE CloseTickers(r)
    <3>1. CASE tickers = "closed"
      BY <3>1, <1>10, <2>7 DEF CloseTickers, End
    <3>2. CASE tickers # "closed"
      <4>1. \A a \in Creator \cup Deleter : pc'[a] = pc[a]
        BY <3>2, <1>10, <2>7 DEF CloseTickers
      <4>2. UNCHANGED <<files, job>>
        BY <3>2, <2>7 DEF CloseTickers
      <4> QED
        BY <4>1, <4>2
    <3> QED
      BY <3>1, <3>2
  <2>8. CASE Claim(r)
    BY <1>10, <2>8 DEF Claim, Readable
  <2>9. CASE Recheck(r)
    BY <1>10, <2>9 DEF Recheck
  <2>10. CASE Restore(r)
    BY <1>10, <2>10 DEF Restore
  <2>11. CASE Unwind(r)
    BY <1>10, <2>11 DEF Unwind
  <2>12. CASE Resume(r)
    BY <1>10, <2>12 DEF Resume
  <2>13. CASE Exit(r)
    BY <1>10, <2>13 DEF Exit, End
  <2> QED
    BY <1>10, <2>1, <2>2, <2>3, <2>4, <2>5, <2>6, <2>7, <2>8, <2>9, <2>10, <2>11, <2>12, <2>13 DEF RestoreSteps
<1>11. CASE WantReconcile
  BY <1>11 DEF WantReconcile
<1>12. CASE StartBackups
  BY <1>12 DEF StartBackups
<1>13. CASE DisableBackups
  BY <1>13 DEF DisableBackups
<1>14. CASE AwaitBackups("reconcile", "off")
  BY <1>14 DEF AwaitBackups
<1>15. CASE UNCHANGED vars
  BY <1>15
<1> QED
  BY <1>1, <1>2, <1>3, <1>4, <1>5, <1>6, <1>7, <1>8, <1>9, <1>10, <1>11, <1>12, <1>13, <1>14, <1>15
     DEF Next, PruneSteps, ReconcileSteps, Deleter

LEMMA DownStep == Types /\ DownIsOff /\ [Next]_vars => DownIsOff'
<1> SUFFICES ASSUME Types, DownIsOff, [Next]_vars, proc' = "down"
             PROVE  \A a \in Actor : pc'[a] = "off"
  BY DEF DownIsOff
<1>1. CASE End
  BY <1>1 DEF End
<1>2. CASE proc = "up"
  <2> USE <1>2
  <2>1. Next => End
    BY DEF Next, Boot, Crash, Collect, WantBackup, CreateSteps, Create, WriteRunning, Dump, Sum, Created,
       DeleteSteps, RemoveDump, RemoveManifest, CheckDelete, PruneSteps, Prune, SchedulerExit,
       RestoreSteps, Verify, Enter, StopWorkers, AwaitWorkers, StopBackups, AwaitBackups, CloseTickers,
       Claim, Recheck, Restore, Unwind, Resume, Exit, WantRestore, WantReconcile, ReconcileSteps,
       StartBackups, DisableBackups
  <2> QED
    BY <1>1, <2>1 DEF vars
<1>3. CASE proc = "down"
  <2>1. \A a \in Actor : pc[a] = "off"
    BY <1>3 DEF DownIsOff
  <2>2. ~Boot /\ ~Crash
    BY <1>3 DEF Boot, Crash
  <2>3. ~SchedulerExit /\ ~PruneSteps /\ ~ReconcileSteps /\ ~WantReconcile
    BY <1>3, <2>1 DEF SchedulerExit, PruneSteps, Prune, CheckDelete, ReconcileSteps, StartBackups,
       DisableBackups, AwaitBackups, WantReconcile, Actor
  <2>4. \A a \in Creator : ~WantBackup(a) /\ ~CreateSteps(a)
    BY <1>3, <2>1 DEF WantBackup, CreateSteps, Create, WriteRunning, Dump, Sum, Created, Creator, Actor
  <2>5. /\ \A a \in Deleter : ~DeleteSteps(a)
        /\ \A b \in Backup : ~CheckDelete("delete", b)
    BY <1>3, <2>1 DEF DeleteSteps, RemoveDump, RemoveManifest, CheckDelete, Deleter, Actor
  <2>6. \A r \in Request : ~RestoreSteps(r) /\ \A b \in Backup : ~WantRestore(r, b)
    BY <1>3, <2>1 DEF RestoreSteps, Verify, Enter, StopWorkers, AwaitWorkers, StopBackups, AwaitBackups,
       CloseTickers, Claim, Recheck, Restore, Unwind, Resume, Exit, WantRestore, Actor
  <2>7. pc' = pc
    BY <2>2, <2>3, <2>4, <2>5, <2>6 DEF Next, Collect, vars
  <2> QED
    BY <2>1, <2>7
<1> QED
  BY <1>2, <1>3 DEF Types, TypeOK, Stored

\* What touches neither a file nor an actor that works on one.
LEMMA Elsewhere ==
  ASSUME Types, DownIsOff, [Next]_vars, ~End,
         \A a \in Creator : ~CreateSteps(a),
         \A a \in Deleter : ~DeleteSteps(a),
         \A a \in Deleter, b \in Backup : ~CheckDelete(a, b)
  PROVE  /\ UNCHANGED files
         /\ \A a \in Creator \cup Deleter :
                /\ cur'[a] = cur[a]
                /\ pc'[a] = pc[a] \/ (pc[a] \in Idle /\ pc'[a] \in Idle)
<1> USE BackupAssumption DEF
       Types, TypeOK, Stored, Idle, Actor, Creator, Deleter, vars, files, job, stopped, Goto
<1>1. CASE Boot
  <2>1. pc["sched"] = "off"
    BY <1>1 DEF Boot, DownIsOff
  <2>2. \A a \in Creator \cup Deleter : pc'[a] = pc[a] \/ (a = "sched" /\ pc'[a] \in {"wait", "off"})
    BY <1>1 DEF Boot
  <2> QED
    BY <1>1, <2>1, <2>2 DEF Boot
<1>2. CASE Collect
  BY <1>2 DEF Collect
<1>3. ASSUME NEW a \in Creator, WantBackup(a)
      PROVE  /\ UNCHANGED files
             /\ \A c \in Creator \cup Deleter :
                    cur'[c] = cur[c] /\ (pc'[c] = pc[c] \/ (pc[c] \in Idle /\ pc'[c] \in Idle))
  BY <1>3 DEF WantBackup, Rest
<1>4. CASE Prune \/ SchedulerExit
  BY <1>4 DEF Prune, SchedulerExit
<1>5. ASSUME NEW r \in Request, RestoreSteps(r) \/ \E b \in Backup : WantRestore(r, b)
      PROVE  /\ UNCHANGED files
             /\ \A c \in Creator \cup Deleter : cur'[c] = cur[c] /\ pc'[c] = pc[c]
  <2>1. r \notin Creator \cup Deleter
    BY <1>5
  <2>2. CASE \E b \in Backup : WantRestore(r, b)
    BY <2>1, <2>2 DEF WantRestore
  <2>3. CASE Verify(r) \/ Enter(r) \/ StopWorkers(r) \/ AwaitWorkers(r) \/ StopBackups(r)
    BY <2>1, <2>3 DEF Verify, Enter, StopWorkers, AwaitWorkers, StopBackups
  <2>4. CASE AwaitBackups(r, "close") \/ CloseTickers(r) \/ Claim(r) \/ Recheck(r) \/ Restore(r)
    BY <2>1, <2>4 DEF AwaitBackups, CloseTickers, Claim, Recheck, Restore
  <2>5. CASE Unwind(r) \/ Resume(r) \/ Exit(r)
    BY <2>1, <2>5 DEF Unwind, Resume, Exit
  <2> QED
    BY <1>5, <2>2, <2>3, <2>4, <2>5 DEF RestoreSteps
<1>6. CASE WantReconcile \/ ReconcileSteps
  BY <1>6 DEF WantReconcile, ReconcileSteps, StartBackups, DisableBackups, AwaitBackups
<1>7. CASE UNCHANGED vars
  BY <1>7
<1> QED
  BY <1>1, <1>2, <1>3, <1>4, <1>5, <1>6, <1>7 DEF Next, Crash, PruneSteps

LEMMA CataloguedStep ==
  ASSUME Types, OneJobAtATime, Files, Catalogued, [Next]_vars
  PROVE  Catalogued'
<1>0. DownIsOff'
  BY DownStep DEF Catalogued
<1> USE <1>0 DEF Catalogued, NotYetOffered, DumpGoneFirst
<1>1. CASE End
  BY <1>1 DEF End, Creator, Deleter, Actor
<1>2. CASE /\ ~End
           /\ \A a \in Creator : ~CreateSteps(a)
           /\ \A a \in Deleter : ~DeleteSteps(a)
           /\ \A a \in Deleter, b \in Backup : ~CheckDelete(a, b)
  <2>1. UNCHANGED <<manifest, dump>>
    BY <1>2, Elsewhere DEF files
  <2>2. \A a \in Creator \cup Deleter :
            /\ cur'[a] = cur[a]
            /\ pc'[a] = pc[a] \/ (pc[a] \in Idle /\ pc'[a] \in Idle)
    BY <1>2, Elsewhere
  <2> QED
    BY <2>1, <2>2 DEF Idle
<1> USE BackupAssumption DEF
       Types, TypeOK, Stored, Actor, Creator, Deleter, Backup, HoldsBackup, Idle, Goto,
       files, job, stopped
<1>3. ASSUME NEW a \in Creator, CreateSteps(a)
      PROVE  Catalogued'
  <2>0. \A c \in Creator : c # a => ~(InJob(a) /\ InJob(c)) /\ ~(InJob(a) /\ InJob(c)')
    BY <1>3 DEF CreateSteps, Create, WriteRunning, Dump, Sum, Created, OneJobAtATime, InJob
  <2>1. CASE Create(a)
    BY <1>3, <2>1 DEF Create, Rest, Files, Started
  <2>2. CASE WriteRunning(a)
    BY <1>3, <2>0, <2>2 DEF WriteRunning, SetManifest, SpoilManifest, InJob
  <2>3. CASE Dump(a)
    BY <1>3, <2>0, <2>3 DEF Dump, SetManifest, SpoilManifest, TryManifest, InJob, Files, NoDeletionOfJob
  <2>4. CASE Sum(a)
    BY <1>3, <2>0, <2>4 DEF Sum, SetManifest, SpoilManifest, TryManifest, InJob
  <2>5. CASE Created(a)
    BY <1>3, <2>5 DEF Created, Rest
  <2> QED
    BY <1>3, <2>1, <2>2, <2>3, <2>4, <2>5 DEF CreateSteps
<1>4. ASSUME NEW a \in Deleter, NEW b \in Backup, CheckDelete(a, b)
      PROVE  Catalogued'
  BY <1>4 DEF CheckDelete, Rest
<1>5. ASSUME NEW a \in Deleter, DeleteSteps(a)
      PROVE  Catalogued'
  <2>1. CASE RemoveDump(a)
    BY <1>5, <2>1 DEF RemoveDump, Rest
  <2>2. CASE RemoveManifest(a)
    BY <1>5, <2>2 DEF RemoveManifest, SetManifest, Rest
  <2> QED
    BY <1>5, <2>1, <2>2 DEF DeleteSteps
<1> QED
  BY <1>1, <1>2, <1>3, <1>4, <1>5

\* A step of the other actors that leaves the flags alone.
LEMMA GuardKept ==
    ASSUME Guarded, \A r \in Request : pc'[r] = pc[r],
           UNCHANGED <<proc, maintenance, tickers, workers, collecting>>
    PROVE  Guarded'
<1> USE DEF Guarded
<1>1. OnePast'
  BY DEF OnePast
<1>2. PastGuarded'
  BY DEF PastGuarded
<1>3. StoppingGuarded'
  BY DEF StoppingGuarded
<1>4. Quiet'
  BY DEF Quiet
<1>5. DownIsQuiet'
  BY DEF DownIsQuiet
<1> QED
  BY <1>1, <1>2, <1>3, <1>4, <1>5

LEMMA GuardStep == Types /\ Guarded /\ [Next]_vars => Guarded'
<1> SUFFICES ASSUME Types /\ Guarded, [Next]_vars
             PROVE  Guarded'
  OBVIOUS
<1> USE BackupAssumption DEF
       Guarded, OnePast, PastGuarded, StoppingGuarded, Quiet, DownIsQuiet, Types, TypeOK,
       Actor, Creator, Deleter, Backup, vars, files, job, stopped, Goto, Stopping,
       PastClose
<1>1. CASE Boot
  <2>1. OnePast'
    BY <1>1 DEF Boot
  <2>2. PastGuarded'
    BY <1>1 DEF Boot
  <2>3. StoppingGuarded'
    BY <1>1 DEF Boot
  <2>4. Quiet'
    BY <1>1 DEF Boot
  <2>5. DownIsQuiet'
    BY <1>1 DEF Boot
  <2> QED
    BY <2>1, <2>2, <2>3, <2>4, <2>5
<1>2. CASE Crash
  BY <1>2 DEF Crash, End
<1>3. CASE Collect
  BY <1>3 DEF Collect
<1>4. ASSUME NEW a \in Creator, WantBackup(a) \/ CreateSteps(a)
      PROVE  Guarded'
  <2>1. \A r \in Request : pc'[r] = pc[r]
    BY <1>4 DEF WantBackup, CreateSteps, Create, WriteRunning, Dump, Sum, Created
  <2>2. UNCHANGED <<proc, maintenance, stopped>>
    BY <1>4 DEF WantBackup, CreateSteps, Create, WriteRunning, Dump, Sum, Created
  <2> QED
    BY <2>1, <2>2, GuardKept
<1>5. CASE Prune
  <2>1. \A r \in Request : pc'[r] = pc[r]
    BY <1>5 DEF Prune
  <2> QED
    BY <1>5, <2>1, GuardKept DEF Prune
<1>6. CASE SchedulerExit
  <2>1. \A r \in Request : pc'[r] = pc[r]
    BY <1>6 DEF SchedulerExit
  <2> QED
    BY <1>6, <2>1, GuardKept DEF SchedulerExit
<1>7. ASSUME NEW a \in Deleter, NEW b \in Backup, CheckDelete(a, b)
      PROVE  Guarded'
  <2>1. \A r \in Request : pc'[r] = pc[r]
    BY <1>7 DEF CheckDelete
  <2> QED
    BY <1>7, <2>1, GuardKept DEF CheckDelete
<1>8. ASSUME NEW a \in Deleter, DeleteSteps(a)
      PROVE  Guarded'
  <2>1. \A r \in Request : pc'[r] = pc[r]
    BY <1>8 DEF DeleteSteps, RemoveDump, RemoveManifest
  <2> QED
    BY <1>8, <2>1, GuardKept DEF DeleteSteps, RemoveDump, RemoveManifest
<1>9. ASSUME NEW r \in Request, NEW b \in Backup, WantRestore(r, b)
      PROVE  Guarded'
  BY <1>9 DEF WantRestore
<1>10. ASSUME NEW r \in Request, RestoreSteps(r)
      PROVE  Guarded'
  <2>1. CASE Verify(r)
    <3>1. OnePast'
      <4>1. \A q \in Request : pc'[q] \in PastClose => pc[q] \in PastClose
        BY <1>10, <2>1 DEF Verify
      <4> QED
        BY <4>1
    <3>2. PastGuarded'
      BY <1>10, <2>1 DEF Verify
    <3>3. StoppingGuarded'
      BY <1>10, <2>1 DEF Verify
    <3>4. Quiet'
      BY <1>10, <2>1 DEF Verify
    <3>5. DownIsQuiet'
      BY <1>10, <2>1 DEF Verify
    <3> QED
      BY <3>1, <3>2, <3>3, <3>4, <3>5
  <2>2. CASE Enter(r)
    BY <1>10, <2>2 DEF Enter
  <2>3. CASE StopWorkers(r)
    BY <1>10, <2>3 DEF StopWorkers
  <2>4. CASE AwaitWorkers(r)
    BY <1>10, <2>4 DEF AwaitWorkers
  <2>5. CASE StopBackups(r)
    <3>1. OnePast'
      BY <1>10, <2>5 DEF StopBackups
    <3>2. PastGuarded'
      BY <1>10, <2>5 DEF StopBackups
    <3>3. StoppingGuarded'
      BY <1>10, <2>5 DEF StopBackups
    <3>4. Quiet'
      BY <1>10, <2>5 DEF StopBackups
    <3>5. DownIsQuiet'
      BY <1>10, <2>5 DEF StopBackups
    <3> QED
      BY <3>1, <3>2, <3>3, <3>4, <3>5
  <2>6. CASE AwaitBackups(r, "close")
    BY <1>10, <2>6 DEF AwaitBackups
  <2>7. CASE CloseTickers(r)
    <3>1. OnePast'
      <4>1. CASE tickers = "closed"
        BY <4>1, <1>10, <2>7 DEF CloseTickers, End
      <4>2. CASE tickers # "closed"
        <5>1. \A q \in Request : pc[q] \notin PastClose
          BY <4>2 DEF PastGuarded
        <5>2. \A q \in Request : q # r => pc'[q] = pc[q]
          BY <4>2, <1>10, <2>7 DEF CloseTickers
        <5> QED
          BY <5>1, <5>2
      <4> QED
        BY <4>1, <4>2
    <3>2. PastGuarded'
      <4>1. CASE tickers = "closed"
        BY <4>1, <1>10, <2>7 DEF CloseTickers, End
      <4>2. CASE tickers # "closed"
        <5>1. tickers = "on" /\ maintenance
          BY <4>2, <1>10, <2>7 DEF Stored, CloseTickers
        <5>2. maintenance' /\ tickers' = "closed"
          BY <5>1, <4>2, <2>7 DEF CloseTickers
        <5> QED
          BY <5>2
      <4> QED
        BY <4>1, <4>2
    <3>3. StoppingGuarded'
      <4>1. CASE tickers = "closed"
        BY <4>1, <1>10, <2>7 DEF CloseTickers, End
      <4>2. CASE tickers # "closed"
        BY <4>2, <1>10, <2>7 DEF CloseTickers
      <4> QED
        BY <4>1, <4>2
    <3>4. Quiet'
      <4>1. CASE tickers = "closed"
        BY <4>1, <1>10, <2>7 DEF CloseTickers, End
      <4>2. CASE tickers # "closed"
        BY <4>2, <1>10, <2>7 DEF CloseTickers
      <4> QED
        BY <4>1, <4>2
    <3>5. DownIsQuiet'
      <4>1. CASE tickers = "closed"
        BY <4>1, <1>10, <2>7 DEF CloseTickers, End
      <4>2. CASE tickers # "closed"
        BY <4>2, <1>10, <2>7 DEF CloseTickers
      <4> QED
        BY <4>1, <4>2
    <3> QED
      BY <3>1, <3>2, <3>3, <3>4, <3>5
  <2>8. CASE Claim(r)
    <3>1. OnePast'
      BY <1>10, <2>8 DEF Claim, Readable
    <3>2. PastGuarded'
      BY <1>10, <2>8 DEF Claim, Readable
    <3>3. StoppingGuarded'
      BY <1>10, <2>8 DEF Claim, Readable
    <3>4. Quiet'
      BY <1>10, <2>8 DEF Claim, Readable
    <3>5. DownIsQuiet'
      BY <1>10, <2>8 DEF Claim, Readable
    <3> QED
      BY <3>1, <3>2, <3>3, <3>4, <3>5
  <2>9. CASE Recheck(r)
    BY <1>10, <2>9 DEF Recheck
  <2>10. CASE Restore(r)
    BY <1>10, <2>10 DEF Restore
  <2>11. CASE Unwind(r)
    BY <1>10, <2>11 DEF Unwind
  <2>12. CASE Resume(r)
    BY <1>10, <2>12 DEF Resume
  <2>13. CASE Exit(r)
    BY <1>10, <2>13 DEF Exit, End
  <2> QED
    BY <1>10, <2>1, <2>2, <2>3, <2>4, <2>5, <2>6, <2>7, <2>8, <2>9, <2>10, <2>11, <2>12, <2>13 DEF RestoreSteps
<1>11. CASE WantReconcile
  <2>1. \A r \in Request : pc'[r] = pc[r]
    BY <1>11 DEF WantReconcile
  <2> QED
    BY <1>11, <2>1, GuardKept DEF WantReconcile
<1>12. CASE StartBackups
  <2>1. \A r \in Request : pc'[r] = pc[r]
    BY <1>12 DEF StartBackups
  <2> QED
    BY <1>12, <2>1, GuardKept DEF StartBackups
<1>13. CASE DisableBackups
  <2>1. \A r \in Request : pc'[r] = pc[r]
    BY <1>13 DEF DisableBackups
  <2>2. UNCHANGED <<proc, maintenance, tickers, workers, collecting>>
    BY <1>13 DEF DisableBackups
  <2> QED
    BY <2>1, <2>2, GuardKept
<1>14. CASE AwaitBackups("reconcile", "off")
  <2>1. \A r \in Request : pc'[r] = pc[r]
    BY <1>14 DEF AwaitBackups
  <2>2. UNCHANGED <<proc, maintenance, tickers, workers, collecting>>
    BY <1>14 DEF AwaitBackups
  <2> QED
    BY <2>1, <2>2, GuardKept
<1>15. CASE UNCHANGED vars
  BY <1>15
<1> QED
  BY <1>1, <1>2, <1>3, <1>4, <1>5, <1>6, <1>7, <1>8, <1>9, <1>10, <1>11, <1>12, <1>13, <1>14, <1>15
     DEF Next, PruneSteps, ReconcileSteps, Deleter

-----------------------------------------------------------------------------

LEMMA IInvStep == IInv /\ [Next]_vars => IInv'
  BY TypesStep, JobStep, FilesStep, CataloguedStep, GuardStep DEF IInv

LEMMA Invariance == Spec => []IInv
  BY InitIInv, IInvStep, PTL DEF Spec

\* States are of their types, and backupMu is held by nobody but who waits for
\* the backup scheduler to stop.
THEOREM TypeCorrect == Spec => []TypeOK
<1>1. IInv => TypeOK
  BY DEF IInv, Types
<1> QED
  BY <1>1, Invariance, PTL

\* Service.activeJob is a lock: of all the callers that find no active job, one
\* dumps or restores.
THEOREM OneJob == Spec => []OneJobAtATime
<1>1. IInv => OneJobAtATime
  BY DEF IInv
<1> QED
  BY <1>1, Invariance, PTL

\* No failure and no crash between two file operations leaves a backup that is
\* offered as succeeded without its dump, but for a deletion cut off half way.
THEOREM SucceededBackups == Spec => []SucceededIsRestorable
<1>1. IInv => SucceededIsRestorable
  BY DEF IInv, Files
<1> QED
  BY <1>1, Invariance, PTL

\* Of any number of requests that were let in before the maintenance mode, none
\* lifts it under the restore of another.
THEOREM RestoresAreGuarded == Spec => []RestoreUnderMaintenance
<1>1. IInv => RestoreUnderMaintenance
  BY DEF IInv, Guarded, PastGuarded, PastClose, RestoreUnderMaintenance
<1> QED
  BY <1>1, Invariance, PTL

\* Collections are stopped and awaited before a restore, and a scheduled backup
\* would be a second job.
THEOREM RestoresAreQuiet == Spec => []ScheduledWorkQuiet
<1>1. IInv => ScheduledWorkQuiet
  <2> SUFFICES ASSUME IInv, NEW r \in Request, pc[r] = "restore"
               PROVE  /\ ~workers /\ ~collecting
                      /\ pc["sched"] \in {"off", "wait", "create", "prune", "dump_file", "manifest_file"}
    BY DEF ScheduledWorkQuiet
  <2>1. ~workers /\ ~collecting
    BY DEF IInv, Guarded, Quiet, PastClose
  <2>2. r # "sched" /\ r \in Actor /\ "sched" \in Actor
    BY BackupAssumption DEF Actor
  <2>3. ~InJob("sched")
    BY <2>2 DEF IInv, OneJobAtATime, InJob
  <2>4. pc["sched"] \in SchedPc
    BY <2>2 DEF IInv, Types, Rolewise, PcOf
  <2> QED
    BY <2>1, <2>3, <2>4 DEF InJob, SchedPc
<1> QED
  BY <1>1, Invariance, PTL

-----------------------------------------------------------------------------
(* The catalogue *)

\* A step that keeps everybody in his job, or out of one, keeps the jobs.
LEMMA JobsKept ==
  ASSUME \A a \in Creator \cup Request : InJob(a)' <=> InJob(a),
         active' = active \/ \A a \in Creator \cup Request : ~InJob(a)
  PROVE  Making' = Making /\ Restoring' = Restoring
  BY DEF Making, Restoring

\* Nobody is in a job while no backup is active, ...
LEMMA NoneActive ==
  ASSUME Types, OneJobAtATime, active = None
  PROVE  (\A a \in Actor : ~InJob(a)) /\ Making = None /\ Restoring = None
<1>1. ASSUME NEW a \in Actor, InJob(a)
      PROVE  FALSE
  <2>1. pc[a] \notin Idle /\ a # "reconcile"
    BY <1>1 DEF InJob, Idle, Types, Rolewise, PcOf, ReconcilePc
  <2>2. cur[a] \in Backup /\ active = cur[a]
    BY <1>1, <2>1 DEF Types, HoldsBackup, OneJobAtATime
  <2> QED
    BY <2>2, BackupAssumption DEF Backup
<1> QED
  BY <1>1 DEF Making, Restoring, Actor, Creator

\* ... a creator's job is the making of its backup, and the only job, ...
LEMMA MakersJob ==
  ASSUME OneJobAtATime, NEW a \in Creator, InJob(a)
  PROVE  /\ Making = cur[a] /\ Restoring = None
         /\ \A b \in Actor : b # a => ~InJob(b)
<1>1. a \in Actor /\ Request \subseteq Actor /\ a \notin Request
  BY BackupAssumption DEF Actor, Creator
<1>2. active = cur[a] /\ \A b \in Actor : b # a => ~InJob(b)
  BY <1>1 DEF OneJobAtATime
<1> QED
  BY <1>1, <1>2 DEF Making, Restoring

\* ... and so is a restore's.
LEMMA RestorersJob ==
  ASSUME OneJobAtATime, NEW r \in Request, InJob(r)
  PROVE  /\ Making = None /\ Restoring = cur[r]
         /\ \A b \in Actor : b # r => ~InJob(b)
<1>1. r \in Actor /\ Creator \subseteq Actor /\ r \notin Creator
  BY BackupAssumption DEF Actor, Creator
<1>2. active = cur[r] /\ \A b \in Actor : b # r => ~InJob(b)
  BY <1>1 DEF OneJobAtATime
<1> QED
  BY <1>1, <1>2 DEF Making, Restoring

LEMMA CatalogueBegins == Init => Catalogue!CatalogueInit
<1> SUFFICES ASSUME Init
             PROVE  Catalogue!CatalogueInit
  OBVIOUS
<1>1. 1..created = {}
  BY DEF Init
<1>2. Succeeded = {}
  BY DEF Init, Succeeded, Backup
<1>3. \A a \in Actor : ~InJob(a)
  BY DEF Init, InJob
<1>4. Making = None /\ Restoring = None
  BY <1>3 DEF Making, Restoring, Actor, Creator
<1> QED
  BY <1>1, <1>2, <1>4 DEF Init, Catalogue!CatalogueInit

\* A job that is over, with the process or without it.
LEMMA CatalogueEndJob ==
  ASSUME UNCHANGED files, \A a \in Creator \cup Request : ~InJob(a)'
  PROVE  Catalogue!CatalogueNext
<1>1. Making' = None /\ Restoring' = None
  BY DEF Making, Restoring
<1>2. Succeeded' = Succeeded
  BY DEF files, Succeeded
<1> QED
  BY <1>1, <1>2 DEF files, Catalogue!CatalogueNext, Catalogue!EndJob

\* Create, the dump, the offer and clearActiveJob.
LEMMA CatalogueCreate ==
  ASSUME IInv, IInv', NEW a \in Creator, CreateSteps(a)
  PROVE  [Catalogue!CatalogueNext]_(Catalogue!catalogueVars)
<1> USE DEF Catalogue!catalogueVars, Catalogue!jobs
<1>0. /\ Types /\ OneJobAtATime /\ OneJobAtATime' /\ Files /\ Catalogued
      /\ a \in Actor /\ a # "reconcile"
  BY DEF IInv, Actor, Creator
<1>1. CASE Create(a)
  <2>1. CASE active = None /\ created < MaxBackups
    <3>1. Making = None /\ Restoring = None
      BY <1>0, <2>1, NoneActive
    <3>2. created \in Nat /\ created' = created + 1 /\ MaxBackups \in Nat
      BY <1>0, <1>1, <2>1, BackupAssumption DEF Create, Types, TypeOK, Stored
    <3>3. InJob(a)' /\ cur'[a] = created + 1
      BY <1>0, <1>1, <2>1 DEF Create, Goto, InJob, Types, TypeOK, Stored
    <3>4. Making' = created + 1 /\ Restoring' = None
      <4>1. (Making = cur[a] /\ Restoring = None)'
        BY <1>0, <3>3, BackupAssumption DEF Making, Restoring, OneJobAtATime, Actor, Creator
      <4> QED
        BY <3>3, <4>1
    <3>5. 1..created' = (1..created) \cup {created + 1} /\ created + 1 \notin 1..created
      BY <3>2
    <3>6. created + 1 \in Backup
      BY <2>1, <3>2 DEF Backup
    <3>7. UNCHANGED <<dump, Succeeded, torn>>
      BY <1>1 DEF Create, Succeeded
    <3>8. Catalogue!Begin(created + 1)
      BY <3>1, <3>4, <3>5, <3>7 DEF Catalogue!Begin, Catalogue!NoJob
    <3> QED
      BY <3>6, <3>8 DEF Catalogue!CatalogueNext
  <2>2. CASE ~(active = None /\ created < MaxBackups)
    <3>1. \A b \in Creator \cup Request : InJob(b)' <=> InJob(b)
      BY <1>0, <1>1, <2>2 DEF Create, Goto, Rest, InJob, Types, TypeOK, Actor, Creator
    <3>2. active' = active /\ UNCHANGED files
      BY <1>1, <2>2 DEF Create, files
    <3> QED
      BY <3>1, <3>2, JobsKept DEF files, Succeeded
  <2> QED
    BY <2>1, <2>2
<1>2. CASE Created(a)
  <2>1. InJob(a)
    BY <1>2 DEF Created, InJob
  <2>2. \A b \in Actor : b # a => ~InJob(b)
    BY <1>0, <2>1 DEF OneJobAtATime
  <2>3. \A b \in Creator \cup Request : ~InJob(b)'
    BY <1>0, <1>2, <2>2 DEF Created, Goto, Rest, InJob, Types, TypeOK, Actor, Creator
  <2> QED
    BY <1>2, <2>3, CatalogueEndJob DEF Created
<1>3. CASE WriteRunning(a) \/ Dump(a) \/ Sum(a)
  <2>1. InJob(a) /\ InJob(a)' /\ cur' = cur /\ active' = active /\ created' = created /\ torn' = torn
    <3>1. pc[a] \in {"write", "dump", "sum"} /\ pc'[a] \in {"dump", "sum", "created"}
      BY <1>0, <1>3 DEF WriteRunning, Dump, Sum, Goto, Types, TypeOK
    <3>2. cur' = cur /\ active' = active /\ created' = created /\ torn' = torn
      BY <1>3 DEF WriteRunning, Dump, Sum, job
    <3> QED
      BY <3>1, <3>2 DEF InJob
  <2>2. \A b \in Actor : b # a => pc'[b] = pc[b]
    BY <1>0, <1>3 DEF WriteRunning, Dump, Sum, Goto, Types, TypeOK
  <2>3. \A b \in Creator \cup Request : InJob(b)' <=> InJob(b)
    BY <1>0, <2>1, <2>2 DEF InJob, Actor, Creator
  <2>4. Making' = Making /\ Restoring' = Restoring
    BY <2>1, <2>3, JobsKept
  <2>5. Making = cur[a]
    BY <1>0, <2>1, MakersJob
  <2>6. cur[a] \in Backup /\ manifest[cur[a]] # "succeeded"
    BY <1>0, <1>3 DEF WriteRunning, Dump, Sum, Types, HoldsBackup, Idle, Catalogued, NotYetOffered
  <2>7. /\ manifest \in [Backup -> {"none", "unreadable", "running", "failed", "succeeded"}]
        /\ \A s \in {"running", "failed", "unreadable"} : SetManifest(cur[a], s) => Succeeded' = Succeeded
    BY <1>0, <2>6 DEF SetManifest, Succeeded, Types, TypeOK, Stored
  <2>8. CASE WriteRunning(a)
    <3>1. Succeeded' = Succeeded /\ dump' = dump
      BY <2>7, <2>8 DEF WriteRunning, SpoilManifest, Succeeded
    <3> QED
      BY <2>1, <2>4, <3>1
  <2>9. CASE Dump(a)
    <3>1. Succeeded' = Succeeded
      BY <2>7, <2>9 DEF Dump, TryManifest, SpoilManifest, Succeeded
    <3>2. dump' = dump \/ dump' = dump \cup {cur[a]}
      BY <2>9 DEF Dump
    <3>3. dump' = dump \cup {cur[a]} => Catalogue!Complete(cur[a])
      BY <2>1, <2>4, <2>5, <3>1 DEF Catalogue!Complete, Catalogue!jobs
    <3> QED
      BY <2>1, <2>4, <2>6, <3>1, <3>2, <3>3 DEF Catalogue!CatalogueNext
  <2>10. CASE Sum(a)
    <3>1. dump' = dump /\ cur[a] \in dump
      BY <1>0, <2>10 DEF Sum, Files, DumpBeforeSum
    <3>2. Succeeded' = Succeeded \/ SetManifest(cur[a], "succeeded")
      BY <2>7, <2>10 DEF Sum, TryManifest, SpoilManifest, Succeeded
    <3>3. SetManifest(cur[a], "succeeded") => Succeeded' = Succeeded \cup {cur[a]}
      BY <2>6, <2>7 DEF SetManifest, Succeeded
    <3>4. Succeeded' = Succeeded \cup {cur[a]} => Catalogue!Offer(cur[a])
      BY <2>1, <2>4, <2>5, <3>1 DEF Catalogue!Offer, Catalogue!jobs
    <3> QED
      BY <2>1, <2>4, <2>6, <3>1, <3>2, <3>3, <3>4 DEF Catalogue!CatalogueNext
  <2> QED
    BY <1>3, <2>8, <2>9, <2>10
<1> QED
  BY <1>1, <1>2, <1>3 DEF CreateSteps

\* A deletion takes the dump, then the manifest.
LEMMA CatalogueDelete ==
  ASSUME IInv, NEW a \in Deleter, DeleteSteps(a)
  PROVE  [Catalogue!CatalogueNext]_(Catalogue!catalogueVars)
<1> USE DEF Catalogue!catalogueVars, Catalogue!jobs
<1>0. Types /\ OneJobAtATime /\ Files /\ Catalogued /\ a \in Actor /\ a # "reconcile"
  BY DEF IInv, Actor, Deleter
<1>1. pc[a] \in {"dump_file", "manifest_file"}
  BY DEF DeleteSteps, RemoveDump, RemoveManifest
<1>2. cur[a] \in Backup /\ cur[a] \in 1..created
  <2>1. cur[a] \in Backup
    BY <1>0, <1>1 DEF Types, HoldsBackup, Idle
  <2>2. cur[a] <= created
    BY <1>0, <2>1, BackupAssumption DEF Files, Started, Backup
  <2>3. created \in Nat /\ MaxBackups \in Nat
    BY <1>0, BackupAssumption DEF Types, TypeOK, Stored
  <2> QED
    BY <2>1, <2>2, <2>3 DEF Backup
<1>3. Making # cur[a]
  <2>1. CASE \E c \in Creator : InJob(c)
    <3>1. PICK c \in Creator : InJob(c)
      BY <2>1
    <3>2. Making = cur[c]
      BY <1>0, <3>1, MakersJob
    <3>3. c \in Actor /\ pc[c] \in PcOf(c)
      BY <1>0 DEF Types, Rolewise, Actor, Creator
    <3>4. pc[c] \in {"write", "dump", "sum", "created"}
      BY <3>1, <3>3 DEF InJob, PcOf, SchedPc, ManualPc, Creator
    <3> QED
      BY <1>0, <1>1, <3>2, <3>4 DEF Files, NoDeletionOfJob
  <2>2. CASE ~\E c \in Creator : InJob(c)
    BY <1>2, <2>2, BackupAssumption DEF Making, Backup
  <2> QED
    BY <2>1, <2>2
<1>4. \A b \in Creator \cup Request : InJob(b)' <=> InJob(b)
  <2>1. \A b \in Actor : b # a => pc'[b] = pc[b]
    BY <1>0 DEF DeleteSteps, RemoveDump, RemoveManifest, Goto, Types, TypeOK
  <2>2. pc'[a] \in {"manifest_file", "prune", "wait", "off"}
    BY <1>0 DEF DeleteSteps, RemoveDump, RemoveManifest, Goto, Rest, Types, TypeOK
  <2>3. ~InJob(a) /\ ~InJob(a)'
    BY <1>1, <2>2 DEF InJob
  <2> QED
    BY <2>1, <2>3 DEF InJob, Actor, Creator
<1>5. UNCHANGED <<active, created>>
  BY DEF DeleteSteps, RemoveDump, RemoveManifest
<1>6. Making' = Making /\ Restoring' = Restoring
  BY <1>4, <1>5, JobsKept
<1>7. CASE RemoveDump(a)
  <2>1. Succeeded' = Succeeded
    BY <1>7 DEF RemoveDump, Succeeded
  <2>2. dump' = dump \ {cur[a]} /\ torn' = torn \cup {cur[a]} => Catalogue!Withdraw(cur[a])
    BY <1>2, <1>3, <1>5, <1>6, <2>1 DEF Catalogue!Withdraw, Catalogue!jobs
  <2>3. \/ dump' = dump \ {cur[a]} /\ torn' = torn \cup {cur[a]}
        \/ UNCHANGED <<dump, torn>>
    BY <1>7 DEF RemoveDump
  <2> QED
    BY <1>2, <1>5, <1>6, <2>1, <2>2, <2>3 DEF Catalogue!CatalogueNext
<1>8. CASE RemoveManifest(a)
  <2>1. dump' = dump /\ cur[a] \notin dump
    BY <1>0, <1>8 DEF RemoveManifest, Catalogued, DumpGoneFirst
  <2>2. SetManifest(cur[a], "none") => Succeeded' = Succeeded \ {cur[a]}
    BY <1>0, <1>2 DEF SetManifest, Succeeded, Types, TypeOK, Stored
  <2>3. SetManifest(cur[a], "none") /\ torn' = torn \ {cur[a]} => Catalogue!Remove(cur[a])
    BY <1>2, <1>3, <1>5, <1>6, <2>1, <2>2 DEF Catalogue!Remove, Catalogue!jobs
  <2>4. \/ SetManifest(cur[a], "none") /\ torn' = torn \ {cur[a]}
        \/ Succeeded' = Succeeded /\ torn' = torn
    BY <1>8 DEF RemoveManifest, Succeeded
  <2> QED
    BY <1>2, <1>5, <1>6, <2>1, <2>3, <2>4 DEF Catalogue!CatalogueNext
<1> QED
  BY <1>7, <1>8 DEF DeleteSteps

\* A restore claims the job and gives it back; before and after, it has none.
LEMMA CatalogueRestore ==
  ASSUME IInv, NEW r \in Request, RestoreSteps(r), ~End
  PROVE  [Catalogue!CatalogueNext]_(Catalogue!catalogueVars)
<1> USE DEF Catalogue!catalogueVars, Catalogue!jobs
<1>0. Types /\ OneJobAtATime /\ Files /\ r \in Actor
  BY DEF IInv, Actor
<1>1. UNCHANGED files /\ \A b \in Actor : b # r => pc'[b] = pc[b]
  <2> USE <1>0 DEF Goto, files, Types, TypeOK
  <2>1. CASE Verify(r) \/ Enter(r) \/ StopWorkers(r) \/ AwaitWorkers(r) \/ StopBackups(r)
    BY <2>1 DEF Verify, Enter, StopWorkers, AwaitWorkers, StopBackups
  <2>2. CASE AwaitBackups(r, "close") \/ CloseTickers(r) \/ Claim(r) \/ Recheck(r) \/ Restore(r)
    BY <2>2 DEF AwaitBackups, CloseTickers, Claim, Recheck, Restore
  <2>3. CASE Unwind(r) \/ Resume(r) \/ Exit(r)
    BY <2>3 DEF Unwind, Resume, Exit
  <2> QED
    BY <2>1, <2>2, <2>3 DEF RestoreSteps
<1>2. created' = created /\ Succeeded' = Succeeded /\ dump' = dump /\ torn' = torn
  BY <1>1 DEF files, Succeeded
<1>3. CASE Claim(r) /\ active = None /\ Readable(cur[r])
  <2>1. cur[r] \in Backup
    <3>1. r # "reconcile" /\ pc[r] = "claim"
      BY <1>3, BackupAssumption DEF Claim
    <3> QED
      BY <1>0, <3>1 DEF Types, HoldsBackup, Idle
  <2>2. cur[r] \in 1..created
    <3>1. cur[r] <= created /\ created \in Nat /\ MaxBackups \in Nat
      BY <1>0, <1>3, <2>1, BackupAssumption DEF Readable, Files, Started, Types, TypeOK, Stored
    <3> QED
      BY <2>1, <3>1 DEF Backup
  <2>3. \A b \in Actor : ~InJob(b)
    BY <1>0, <1>3, NoneActive
  <2>4. InJob(r)' /\ \A b \in Actor : b # r => ~InJob(b)'
    BY <1>0, <1>1, <1>3, <2>3 DEF Claim, Goto, InJob, Types, TypeOK
  <2>5. active' = cur[r]
    BY <1>3 DEF Claim
  <2>6. Making' = None /\ Restoring' = cur[r]
    BY <2>4, <2>5, BackupAssumption DEF Making, Restoring, Actor, Creator
  <2>7. Making = None /\ Restoring = None
    BY <1>0, <1>3, NoneActive
  <2>8. Catalogue!Claim(cur[r])
    BY <1>2, <2>2, <2>6, <2>7 DEF Catalogue!Claim, Catalogue!NoJob
  <2> QED
    BY <2>1, <2>8 DEF Catalogue!CatalogueNext
<1>4. CASE Unwind(r)
  <2>1. InJob(r)
    BY <1>4 DEF Unwind, InJob
  <2>2. pc'[r] \in {"exit", "resume"}
    BY <1>0, <1>4 DEF Unwind, Goto, Types, TypeOK
  <2>3. \A b \in Actor : b # r => ~InJob(b)
    BY <1>0, <2>1 DEF OneJobAtATime
  <2>4. \A b \in Creator \cup Request : ~InJob(b)'
    BY <1>1, <2>2, <2>3 DEF InJob, Actor, Creator
  <2> QED
    BY <1>1, <2>4, CatalogueEndJob
<1>5. CASE ~(Claim(r) /\ active = None /\ Readable(cur[r])) /\ ~Unwind(r)
  <2>1. (InJob(r)' <=> InJob(r)) /\ active' = active
    <3> USE <1>0 DEF InJob, Goto, Types, TypeOK
    <3>1. CASE Verify(r) \/ Enter(r) \/ StopWorkers(r) \/ AwaitWorkers(r) \/ StopBackups(r)
      BY <3>1 DEF Verify, Enter, StopWorkers, AwaitWorkers, StopBackups, job
    <3>2. CASE AwaitBackups(r, "close") \/ CloseTickers(r) \/ Claim(r)
      BY <1>5, <3>2 DEF AwaitBackups, CloseTickers, Claim, job
    <3>3. CASE Recheck(r) \/ Restore(r) \/ Resume(r) \/ Exit(r)
      BY <3>3 DEF Recheck, Restore, Resume, Exit, job
    <3> QED
      BY <1>5, <3>1, <3>2, <3>3 DEF RestoreSteps
  <2>2. \A b \in Creator \cup Request : InJob(b)' <=> InJob(b)
    BY <1>1, <2>1 DEF InJob, Actor, Creator
  <2>3. Making' = Making /\ Restoring' = Restoring
    BY <2>1, <2>2, JobsKept
  <2> QED
    BY <1>2, <2>3
<1> QED
  BY <1>3, <1>4, <1>5

\* What is left changes no file and no job.
LEMMA CatalogueElsewhere ==
  ASSUME IInv, [Next]_vars, ~End,
         \A a \in Creator : ~CreateSteps(a),
         \A a \in Deleter : ~DeleteSteps(a),
         \A r \in Request : ~RestoreSteps(r)
  PROVE  UNCHANGED Catalogue!catalogueVars
<1> USE DEF Catalogue!catalogueVars, Catalogue!jobs
<1>0. Types /\ DownIsOff
  BY DEF IInv, Catalogued
<1> SUFFICES UNCHANGED <<files, active>> /\ \A a \in Creator \cup Request : InJob(a)' <=> InJob(a)
  <2>1. UNCHANGED <<files, active>> /\ (\A a \in Creator \cup Request : InJob(a)' <=> InJob(a))
          => Making' = Making /\ Restoring' = Restoring
    BY JobsKept
  <2> QED
    BY <2>1 DEF files, Succeeded
<1> USE BackupAssumption DEF Types, TypeOK, InJob, Actor, Creator, Deleter, files, job, Goto
<1>1. CASE Boot
  BY <1>0, <1>1 DEF Boot, DownIsOff
<1>2. CASE Collect \/ UNCHANGED vars
  BY <1>2 DEF Collect, vars
<1>3. ASSUME NEW a \in Creator, WantBackup(a)
      PROVE  UNCHANGED <<files, active>> /\ \A b \in Creator \cup Request : InJob(b)' <=> InJob(b)
  BY <1>0, <1>3 DEF WantBackup, Rest
<1>4. CASE Prune \/ SchedulerExit
  BY <1>0, <1>4 DEF Prune, SchedulerExit
<1>5. ASSUME NEW a \in Deleter, NEW b \in Backup, CheckDelete(a, b)
      PROVE  UNCHANGED <<files, active>> /\ \A c \in Creator \cup Request : InJob(c)' <=> InJob(c)
  <2>1. pc[a] \in {"prune", "off"} /\ pc'[a] \in {"prune", "off", "wait", "dump_file"}
    BY <1>0, <1>5 DEF CheckDelete, Rest
  <2>2. UNCHANGED <<files, active>> /\ \A c \in Actor : c # a => pc'[c] = pc[c]
    BY <1>0, <1>5 DEF CheckDelete
  <2> QED
    BY <2>1, <2>2
<1>6. ASSUME NEW r \in Request, NEW b \in Backup, WantRestore(r, b)
      PROVE  UNCHANGED <<files, active>> /\ \A c \in Creator \cup Request : InJob(c)' <=> InJob(c)
  BY <1>0, <1>6 DEF WantRestore
<1>7. CASE WantReconcile \/ ReconcileSteps
  BY <1>0, <1>7 DEF WantReconcile, ReconcileSteps, StartBackups, DisableBackups, AwaitBackups
<1> QED
  BY <1>1, <1>2, <1>3, <1>4, <1>5, <1>6, <1>7 DEF Next, Crash, PruneSteps

LEMMA CatalogueStep == IInv /\ [Next]_vars => [Catalogue!CatalogueNext]_(Catalogue!catalogueVars)
<1> SUFFICES ASSUME IInv, [Next]_vars
             PROVE  [Catalogue!CatalogueNext]_(Catalogue!catalogueVars)
  OBVIOUS
<1>1. CASE End
  <2>1. UNCHANGED files /\ \A a \in Creator \cup Request : ~InJob(a)'
    BY <1>1 DEF End, InJob, Actor, Creator
  <2> QED
    BY <2>1, CatalogueEndJob
<1>2. ASSUME NEW a \in Creator, CreateSteps(a)
      PROVE  [Catalogue!CatalogueNext]_(Catalogue!catalogueVars)
  <2>1. IInv'
    BY IInvStep
  <2> QED
    BY <1>2, <2>1, CatalogueCreate
<1>3. ASSUME NEW a \in Deleter, DeleteSteps(a)
      PROVE  [Catalogue!CatalogueNext]_(Catalogue!catalogueVars)
  BY <1>3, CatalogueDelete
<1>4. ASSUME NEW r \in Request, RestoreSteps(r), ~End
      PROVE  [Catalogue!CatalogueNext]_(Catalogue!catalogueVars)
  BY <1>4, CatalogueRestore
<1>5. CASE /\ ~End
           /\ \A a \in Creator : ~CreateSteps(a)
           /\ \A a \in Deleter : ~DeleteSteps(a)
           /\ \A r \in Request : ~RestoreSteps(r)
  BY <1>5, CatalogueElsewhere
<1> QED
  BY <1>1, <1>2, <1>3, <1>4, <1>5

\* The backups keep to the catalogue: one is offered once its dump is whole,
\* deleted dump first and never while it is made, and neither a write that is cut
\* off nor a second deletion of it loses an offer or revives one.
THEOREM BackupsImplementCatalogue == Spec => KeepsCatalogue
  BY CatalogueBegins, CatalogueStep, Invariance, PTL DEF Spec, KeepsCatalogue, Catalogue!CatalogueSpec

-----------------------------------------------------------------------------
(* What the catalogue gives whoever lists backups *)

Past(b) == b \in 1..created /\ Making # b

LEMMA PastLasts ==
    ASSUME NEW b, IInv, [Next]_vars, Past(b)
    PROVE  /\ Past(b)'
           /\ b \notin Succeeded => b \notin Succeeded'
           /\ b \notin dump => b \notin dump'
<1>1. b # None
  <2>1. created \in 0..MaxBackups
    BY DEF IInv, Types, TypeOK, Stored
  <2> QED
    BY <2>1, BackupAssumption DEF Past
<1>2. ASSUME NEW d, \/ Catalogue!Begin(d) \/ Catalogue!Complete(d) \/ Catalogue!Offer(d)
                   \/ Catalogue!Claim(d) \/ Catalogue!Withdraw(d) \/ Catalogue!Remove(d)
      PROVE  /\ b \in (1..created)' /\ Making' # b
             /\ b \notin Succeeded => b \notin Succeeded'
             /\ b \notin dump => b \notin dump'
  BY <1>2 DEF Past, Catalogue!Begin, Catalogue!Complete, Catalogue!Offer, Catalogue!Claim,
     Catalogue!Withdraw, Catalogue!Remove, Catalogue!jobs
<1>3. CASE Catalogue!EndJob
  BY <1>1, <1>3 DEF Past, Catalogue!EndJob
<1>4. CASE UNCHANGED Catalogue!catalogueVars
  BY <1>4 DEF Past, Catalogue!catalogueVars, Catalogue!jobs
<1> QED
  BY <1>2, <1>3, <1>4, CatalogueStep DEF Past, Catalogue!CatalogueNext

\* A backup that is no longer being made and is not listed as succeeded never will
\* be, whether it failed, was cut off by a crash or was deleted; and a dump that
\* is gone does not come back to a manifest that is still there.
THEOREM WithdrawnForGood ==
    ASSUME NEW b
    PROVE  Spec => /\ [](Past(b) /\ b \notin Succeeded => [](b \notin Succeeded))
                   /\ [](Past(b) /\ b \notin dump => [](b \notin dump))
<1>1. IInv /\ [Next]_vars /\ Past(b) =>
         /\ Past(b)'
         /\ b \notin Succeeded => (b \notin Succeeded)'
         /\ b \notin dump => (b \notin dump)'
  BY PastLasts
<1> QED
  BY <1>1, Invariance, PTL DEF Spec

=============================================================================
