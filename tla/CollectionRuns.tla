--------------------------- MODULE CollectionRuns ---------------------------
(***************************************************************************)
(* Collection runs: the collection_runs table with its one row per         *)
(* organisation, the collector that fills it, and the four goroutines that *)
(* start a run - the cron loop, the resumption of interrupted runs after a *)
(* start of the process, a rescan request and a save of the organisations. *)
(* A run collects the organisations in goroutines of their own, a bounded  *)
(* number at a time; each marks its row running, completes it early, goes  *)
(* on with the cookbooks, and repairs the row on the way out if it fails.  *)
(*                                                                         *)
(* The table survives the process.  Every datastore call is one step and   *)
(* may fail, and then changes nothing; a call under a cancelled context    *)
(* does fail.                                                              *)
(***************************************************************************)
EXTENDS Integers, FiniteSets

CONSTANTS
    Org,          \* organisation names that may be configured
    OrgSets,      \* the lists of organisations an administrator may save
    Requests,     \* the requests that come in: "rescan", "saved" or both
    Concurrency,  \* concurrency.organisation_collection
    NoOrg

ASSUME CollectionAssumption ==
    /\ IsFiniteSet(Org)
    /\ NoOrg \notin Org
    /\ OrgSets \subseteq SUBSET Org /\ OrgSets # {}
    /\ Requests \subseteq {"rescan", "saved"}
    /\ Concurrency \in Nat \ {0}

\* The goroutines that start runs.
Requested == {"rescan", "saved"}

Starter == {"loop", "resume"} \cup Requested

Status == {"none", "running", "completed", "failed", "interrupted"}

\* Where a starter stands.  "start" is before tryStartRun, "list" and "collect"
\* are inside Run or runForOrganisations.
Pc == {"off", "wait", "start", "list", "collect",
       "interrupted", "known", "evaluate", "drop", "requeue", "done"}

\* Where the goroutine of one organisation stands in collectOrganisation.
Stage == {"none", "slot", "create", "search", "complete", "cookbooks", "groups",
          "failing", "out"}

VARIABLES
    proc,       \* "down", "up", "stopping" (awaitShutdown is inside sched.Stop)
    orgs,       \* the organisations table
    row,        \* collection_runs.status per organisation, "none" without a row
    running,    \* Collector.running
    pc,         \* per starter
    expired,    \* starters whose context is cancelled
    at,         \* per starter and organisation: the stage of its goroutine
    committed,  \* per starter: organisations whose runCompleted is set
    listed,     \* interrupted runs the resumption has yet to evaluate
    known,      \* the organisations it loaded
    cur,        \* the run it is evaluating
    queue,      \* orgsNeedingCollection
    unwritten   \* ghost: per cause, organisations whose row missed its last write

resumption == <<listed, known, cur, queue>>
goroutine == <<at, committed>>
vars == <<proc, orgs, row, running, pc, expired, goroutine, resumption, unwritten>>

Causes == {"complete", "mark"}

-----------------------------------------------------------------------------
(* Helpers *)

InRun(a) == pc[a] \in {"list", "collect"}

\* A bug: the slot is not given back.
BusyForEver(s) == s \notin {"none", "slot"}

\* The goroutine holds a slot of the semaphore.
Busy(s) == s \notin {"none", "slot", "out"}

\* A goroutine that created the row of o and has not left yet.
Collecting(o) ==
    \E a \in Starter : at[a][o] \in {"search", "complete", "cookbooks", "groups", "failing"}

NoWork == [a \in Starter |-> [o \in Org |-> "none"]]

\* The context of a's run still lets calls through.
Open(a) == a \notin expired

\* What a starter goes back to when its run is over.
AfterRun(a) == IF a = "loop" THEN "wait" ELSE IF a = "resume" THEN "done" ELSE "off"

Write(o, s) ==
    /\ row' = [row EXCEPT ![o] = s]
    /\ unwritten' = [c \in Causes |-> unwritten[c] \ {o}]

\* An UPDATE of o's row: it misses a row that is gone.
Update(o, s) == row[o] # "none" /\ Write(o, s)

\* The UPDATE failed.
Missed(cause, o) ==
    /\ unwritten' = [unwritten EXCEPT ![cause] = IF row[o] = "running" THEN @ \cup {o} ELSE @]
    /\ UNCHANGED row

\* The context a request gave its run, which goes with the run.
Given(a) == {a} \cap Requested

Move(a, o, s) == at' = [at EXCEPT ![a][o] = s]

\* The goroutine reports and gives its slot back.
Leave(a, o) ==
    /\ Move(a, o, "out")
    /\ committed' = [committed EXCEPT ![a] = @ \ {o}]

Init ==
    /\ proc = "down"
    /\ orgs \in OrgSets
    /\ row = [o \in Org |-> "none"]
    /\ running = FALSE
    /\ pc = [a \in Starter |-> "off"]
    /\ expired = {}
    /\ at = NoWork
    /\ committed = [a \in Starter |-> {}]
    /\ listed = {} /\ known = {} /\ cur = NoOrg /\ queue = {}
    /\ unwritten = [c \in Causes |-> {}]

-----------------------------------------------------------------------------
(* The process *)

\* A bug: the rows of the last process stay as they are.
BootUnmarked ==
    /\ proc = "down"
    /\ proc' = "up"
    /\ pc' = [pc EXCEPT !["loop"] = "wait", !["resume"] = "interrupted"]
    /\ UNCHANGED <<orgs, row, running, expired, goroutine, resumption, unwritten>>

\* The start of the process: rows the last process left running become
\* interrupted, all but those whose update fails, and only then do the
\* resumption and the cron loop start.
Boot ==
    /\ proc = "down"
    /\ \E missed \in SUBSET {o \in Org : row[o] = "running"} :
           /\ row' = [o \in Org |->
                        IF row[o] = "running" /\ o \notin missed THEN "interrupted" ELSE row[o]]
           /\ unwritten' = [c \in Causes |-> IF c = "mark" THEN missed ELSE {}]
    /\ proc' = "up"
    /\ pc' = [pc EXCEPT !["loop"] = "wait", !["resume"] = "interrupted"]
    /\ UNCHANGED <<orgs, running, expired, goroutine, resumption>>

\* All that is in memory ends with the process.
End ==
    /\ proc' = "down"
    /\ running' = FALSE
    /\ pc' = [a \in Starter |-> "off"]
    /\ expired' = {}
    /\ at' = NoWork
    /\ committed' = [a \in Starter |-> {}]
    /\ listed' = {} /\ known' = {} /\ cur' = NoOrg /\ queue' = {}
    /\ unwritten' = [c \in Causes |-> {}]
    /\ UNCHANGED <<orgs, row>>

Crash == proc # "down" /\ End

\* A bug: the loop is awaited and not told to stop.
StopUncancelled ==
    /\ proc = "up"
    /\ proc' = "stopping"
    /\ UNCHANGED <<orgs, row, running, pc, expired, goroutine, resumption, unwritten>>

\* awaitShutdown: sched.Stop cancels the loop and waits for it, the rest of the
\* shutdown waits for no collection.
StopScheduler ==
    /\ proc = "up"
    /\ proc' = "stopping"
    /\ expired' = expired \cup {"loop"}
    /\ UNCHANGED <<orgs, row, running, pc, goroutine, resumption, unwritten>>

LoopExit ==
    /\ pc["loop"] = "wait"
    /\ ~Open("loop")
    /\ pc' = [pc EXCEPT !["loop"] = "done"]
    /\ UNCHANGED <<proc, orgs, row, running, expired, goroutine, resumption, unwritten>>

Exit == proc = "stopping" /\ pc["loop"] = "done" /\ End

-----------------------------------------------------------------------------
(* What starts a run *)

\* The cron timer fires.  A tick during a run is skipped, and so is one while
\* the host is in a critical state, which leaves the loop where it was.
Tick ==
    /\ pc["loop"] = "wait"
    /\ Open("loop")
    /\ ~running
    /\ pc' = [pc EXCEPT !["loop"] = "start"]
    /\ UNCHANGED <<proc, orgs, row, running, expired, goroutine, resumption, unwritten>>

\* The rescan endpoints: a check, then a goroutine that calls Run.
Rescan ==
    /\ proc # "down" /\ "rescan" \in Requests
    /\ pc["rescan"] = "off"
    /\ ~running
    /\ pc' = [pc EXCEPT !["rescan"] = "start"]
    /\ UNCHANGED <<proc, orgs, row, running, expired, goroutine, resumption, unwritten>>

\* The context of a rescan is cancelled four hours after the request.
Expire ==
    /\ pc["rescan"] # "off"
    /\ Open("rescan")
    /\ expired' = expired \cup {"rescan"}
    /\ UNCHANGED <<proc, orgs, row, running, pc, goroutine, resumption, unwritten>>

\* A save of the organisations replaces the table, whose deletions cascade to
\* the rows of their runs, and starts a run unless one is in progress.
SaveOrganisations ==
    /\ proc # "down" /\ "saved" \in Requests
    /\ orgs' \in OrgSets
    /\ row' = [o \in Org |-> IF o \in orgs' THEN row[o] ELSE "none"]
    /\ unwritten' = [c \in Causes |-> unwritten[c] \cap orgs']
    /\ pc' = IF ~running /\ pc["saved"] = "off" THEN [pc EXCEPT !["saved"] = "start"] ELSE pc
    /\ UNCHANGED <<proc, running, expired, goroutine, resumption>>

-----------------------------------------------------------------------------
(* One run *)

\* A bug: the flag is set without a look at it.
TryStartUnchecked(a) ==
    /\ pc[a] = "start"
    /\ running' = TRUE
    /\ pc' = [pc EXCEPT ![a] = "list"]
    /\ UNCHANGED <<proc, orgs, row, expired, goroutine, resumption, unwritten>>

\* tryStartRun: the check and the claim are one.
TryStart(a) ==
    /\ pc[a] = "start"
    /\ IF running
       THEN /\ pc' = [pc EXCEPT ![a] = AfterRun(a)]
            /\ UNCHANGED running
       ELSE /\ running' = TRUE
            /\ pc' = [pc EXCEPT ![a] = "list"]
    /\ expired' = IF running THEN expired \ Given(a) ELSE expired
    /\ queue' = IF running /\ a = "resume" THEN {} ELSE queue
    /\ UNCHANGED <<proc, orgs, row, goroutine, listed, known, cur, unwritten>>

\* The organisations of the run, a goroutine each.
Launch(a) ==
    /\ pc[a] = "list"
    /\ a = "resume" \/ Open(a)
    /\ LET mine == IF a = "resume" THEN queue ELSE orgs IN
           at' = [at EXCEPT ![a] = [o \in Org |-> IF o \in mine THEN "slot" ELSE "none"]]
    /\ pc' = [pc EXCEPT ![a] = "collect"]
    /\ queue' = IF a = "resume" THEN {} ELSE queue
    /\ UNCHANGED <<proc, orgs, row, running, expired, committed, listed, known, cur, unwritten>>

\* ListOrganisations failed, or every goroutine has reported: the role summaries
\* are recomputed, old metrics purged, and finishRun clears the flag.
FinishRun(a) ==
    /\ \/ pc[a] = "list" /\ a # "resume"
       \/ pc[a] = "collect" /\ \A o \in Org : at[a][o] \in {"none", "out"}
    /\ running' = FALSE
    /\ pc' = [pc EXCEPT ![a] = AfterRun(a)]
    /\ at' = [at EXCEPT ![a] = [o \in Org |-> "none"]]
    /\ expired' = expired \ Given(a)
    /\ UNCHANGED <<proc, orgs, row, committed, resumption, unwritten>>

-----------------------------------------------------------------------------
(* collectOrganisation, and the goroutine around it *)

\* The slot is taken, or the context ends before there is one.
TakeSlot(a, o) ==
    /\ at[a][o] = "slot"
    /\ \/ /\ Cardinality({p \in Org : Busy(at[a][p])}) < Concurrency
          /\ Move(a, o, "create")
       \/ ~Open(a) /\ Move(a, o, "out")
    /\ UNCHANGED <<proc, orgs, row, running, pc, expired, committed, resumption, unwritten>>

\* The row is inserted or reset.  It needs its organisation.
CreateRow(a, o) ==
    /\ at[a][o] = "create"
    /\ \/ /\ Open(a) /\ o \in orgs
          /\ Write(o, "running")
          /\ Move(a, o, "search")
       \/ Move(a, o, "out") /\ UNCHANGED <<row, unwritten>>
    /\ UNCHANGED <<proc, orgs, running, pc, expired, committed, resumption>>

\* The client, the node search and the snapshots: any of them may fail.
SearchNodes(a, o) ==
    /\ at[a][o] = "search"
    /\ \/ Open(a) /\ Move(a, o, "complete")
       \/ Move(a, o, "failing")
    /\ UNCHANGED <<proc, orgs, row, running, pc, expired, committed, resumption, unwritten>>

\* Step 4b: the row is completed early; a failure of that is not fatal.
CompleteRow(a, o) ==
    /\ at[a][o] = "complete"
    /\ Move(a, o, "cookbooks")
    /\ \/ /\ Open(a) /\ Update(o, "completed")
          /\ committed' = [committed EXCEPT ![a] = @ \cup {o}]
       \/ Missed("complete", o) /\ UNCHANGED committed
    /\ UNCHANGED <<proc, orgs, running, pc, expired, resumption>>

\* A bug: a failure after the early completion counts as one before it.
FetchCookbooksFatal(a, o) ==
    /\ at[a][o] = "cookbooks"
    /\ \/ Open(a) /\ Move(a, o, "groups")
       \/ Move(a, o, "failing")
    /\ UNCHANGED <<proc, orgs, row, running, pc, expired, committed, resumption, unwritten>>

\* Steps 5 to 7: a failure ends the organisation, fatally only while its row is
\* not completed.
FetchCookbooks(a, o) ==
    /\ at[a][o] = "cookbooks"
    /\ \/ Open(a) /\ Move(a, o, "groups") /\ UNCHANGED committed
       \/ o \in committed[a] /\ Leave(a, o)
       \/ o \notin committed[a] /\ Move(a, o, "failing") /\ UNCHANGED committed
    /\ UNCHANGED <<proc, orgs, row, running, pc, expired, resumption, unwritten>>

\* The three groups of work side by side and the wait for them, coverage,
\* readiness and ownership: whatever fails in there is logged, and the return is
\* without an error.
Conclude(a, o) ==
    /\ at[a][o] = "groups"
    /\ Leave(a, o)
    /\ UNCHANGED <<proc, orgs, row, running, pc, expired, resumption, unwritten>>

\* The deferred handler: interrupted when the context was cancelled, else failed,
\* under a context of its own.
MarkRow(a, o) ==
    /\ at[a][o] = "failing"
    /\ Leave(a, o)
    /\ IF o \in committed[a]
       THEN UNCHANGED <<row, unwritten>>
       ELSE Update(o, IF Open(a) THEN "failed" ELSE "interrupted") \/ Missed("mark", o)
    /\ UNCHANGED <<proc, orgs, running, pc, expired, resumption>>

-----------------------------------------------------------------------------
(* ResumeInterruptedRuns *)

ResumeStep(from, to) == pc["resume"] = from /\ pc' = [pc EXCEPT !["resume"] = to]

\* What the evaluation leaves alone.
aside == <<proc, orgs, running, expired, goroutine>>

\* The interrupted rows are listed; a failure or an empty list ends it.
ListInterrupted ==
    LET found == {o \in Org : row[o] = "interrupted"} IN
    /\ \/ ResumeStep("interrupted", "known") /\ found # {} /\ listed' = found
       \/ ResumeStep("interrupted", "done") /\ UNCHANGED listed
    /\ UNCHANGED <<aside, row, known, cur, queue, unwritten>>

LoadOrganisations ==
    /\ \/ ResumeStep("known", "evaluate") /\ known' = orgs
       \/ ResumeStep("known", "done") /\ UNCHANGED known
    /\ listed' = IF pc'["resume"] = "done" THEN {} ELSE listed
    /\ UNCHANGED <<aside, row, cur, queue, unwritten>>

\* One run is judged by its age, its organisation and a completed run since: it
\* is dropped, or collected again, or left alone when the look-up fails.
Evaluate(o) ==
    /\ o \in listed
    /\ listed' = listed \ {o}
    /\ \/ ResumeStep("evaluate", "drop") /\ cur' = o
       \/ /\ o \in known
          /\ \/ row[o] # "completed" /\ ResumeStep("evaluate", "requeue") /\ cur' = o
             \/ ResumeStep("evaluate", "evaluate") /\ UNCHANGED cur
    /\ UNCHANGED <<aside, row, known, queue, unwritten>>

\* A bug: the statement has no condition on the status.
AbandonAnyStatus(o) == Update(o, "failed")

\* AbandonCollectionRun changes an interrupted row only.
Abandon(o) == row[o] = "interrupted" /\ Write(o, "failed")

AbandonRun ==
    /\ cur' = NoOrg
    /\ \/ ResumeStep("drop", "evaluate") /\ UNCHANGED queue /\ Abandon(cur)
       \/ ResumeStep("requeue", "evaluate") /\ queue' = queue \cup {cur} /\ Abandon(cur)
       \/ /\ ResumeStep("drop", "evaluate") \/ ResumeStep("requeue", "evaluate")
          /\ UNCHANGED <<queue, row, unwritten>>
    /\ UNCHANGED <<aside, listed, known>>

\* Every run is judged: the queued organisations are collected, if there are any.
Resume ==
    /\ listed = {}
    /\ ResumeStep("evaluate", IF queue = {} THEN "done" ELSE "start")
    /\ known' = {}
    /\ UNCHANGED <<aside, row, listed, cur, queue, unwritten>>

-----------------------------------------------------------------------------

RunStep(a) == TryStart(a) \/ Launch(a) \/ FinishRun(a)

OrgStep(a, o) ==
    \/ TakeSlot(a, o) \/ CreateRow(a, o) \/ SearchNodes(a, o) \/ CompleteRow(a, o)
    \/ FetchCookbooks(a, o) \/ Conclude(a, o) \/ MarkRow(a, o)

ResumeSteps ==
    \/ ListInterrupted \/ LoadOrganisations \/ AbandonRun \/ Resume
    \/ \E o \in Org : Evaluate(o)

Next ==
    \/ Boot \/ Crash \/ StopScheduler \/ LoopExit \/ Exit
    \/ Tick \/ Rescan \/ Expire \/ SaveOrganisations
    \/ \E a \in Starter : RunStep(a) \/ \E o \in Org : OrgStep(a, o)
    \/ ResumeSteps

Spec == Init /\ [][Next]_vars

\* What the run in progress does.
Progress == \E a \in Starter : Launch(a) \/ FinishRun(a) \/ \E o \in Org : OrgStep(a, o)

\* While a run can go on some goroutine of it does: every call returns, with a
\* result or an error.  Nothing is assumed of the timer, of the requests, or of
\* which goroutine it is.
Fairness ==
    /\ WF_vars(LoopExit) /\ WF_vars(Exit)
    /\ WF_vars(TryStart("loop"))
    /\ WF_vars(Progress)

FairSpec == Spec /\ Fairness

-----------------------------------------------------------------------------
(* Properties *)

Typed ==
    /\ proc \in {"down", "up", "stopping"}
    /\ orgs \subseteq Org
    /\ row \in [Org -> Status]
    /\ running \in BOOLEAN
    /\ pc \in [Starter -> Pc]
    /\ expired \subseteq Starter
    /\ at \in [Starter -> [Org -> Stage]]
    /\ committed \in [Starter -> SUBSET Org]
    /\ listed \subseteq Org /\ known \subseteq Org /\ queue \subseteq Org
    /\ cur \in Org \cup {NoOrg}
    /\ unwritten \in [Causes -> SUBSET Org]

\* States are of their types, and an organisation whose row this run completed is
\* past the point where the deferred handler would touch the row.
TypeOK ==
    /\ Typed
    /\ \A a \in Starter : \A o \in committed[a] : at[a][o] \in {"cookbooks", "groups"}

\* One collection at a time: two starters that both saw no run in progress must
\* not both collect, and no organisation is collected outside a run.
OneCollectionAtATime ==
    /\ \A a, b \in Starter : InRun(a) /\ InRun(b) => a = b
    /\ running <=> \E a \in Starter : InRun(a)
    /\ \A a \in Starter, o \in Org : at[a][o] # "none" => pc[a] = "collect"

\* A row that says running is being collected, unless the statement that should
\* have ended it was lost: over crashes, cancelled contexts, organisations that
\* are deleted and added again, and all four ways to start a run.
RunningRowsAreCollected ==
    \A o \in Org :
        proc # "down" /\ row[o] = "running" =>
            Collecting(o) \/ \E c \in Causes : o \in unwritten[c]

\* The goroutine that opened the row of o and has not ended it.
Owns(a, o) ==
    \/ at[a][o] \in {"search", "complete", "failing"}
    \/ at[a][o] \in {"cookbooks", "groups"} /\ o \notin committed[a]

Owned == {o \in Org : \E a \in Starter : Owns(a, o)}

Ledger == INSTANCE CollectionLedger WITH
    Organisation <- Org, status <- row, owned <- Owned

\* The rows keep to the ledger: one collection at a time has a row, it alone ends
\* it, and at most once; no late failure, no resumption that judged an old listing
\* and no start of the process touches a row that somebody collects or completed.
KeepsLedger == Ledger!LedgerSpec

\* Every run ends: a slot that is not given back, or a goroutine that never
\* reports, would keep every later collection out.
RunsEnd == running ~> ~running

\* A shutdown gets past the scheduler, whatever the loop was in the middle of.
ShutdownEnds == proc = "stopping" ~> proc = "down"

=============================================================================
