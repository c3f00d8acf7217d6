------------------------ MODULE CollectionRunsProofs ------------------------
(***************************************************************************)
(* Theorems about CollectionRuns, for any number of organisations and of   *)
(* slots, any lists an administrator saves and any requests.               *)
(*                                                                         *)
(* What is added to the invariants: a process that is down runs nothing,   *)
(* the resumption works on a run it looked at, and what the goroutine of   *)
(* an organisation knows of its row at each stage.  The last holds because *)
(* there is one run and in it one goroutine per organisation.              *)
(***************************************************************************)
EXTENDS CollectionRuns, TLAPS

\* A process that is down runs nothing.
DownIsIdle == proc = "down" => \A a \in Starter : pc[a] = "off"

\* What the resumption abandons is a run it looked at.
Judging == pc["resume"] \in {"drop", "requeue"} => cur \in Org

\* What a goroutine past the early completion knows of its row: it says running
\* only if the completion was lost, ...
CompletedOrLost ==
    \A a \in Starter, o \in Org :
        at[a][o] \in {"cookbooks", "groups"} /\ row[o] = "running" => o \in unwritten["complete"]

\* ... and while it has yet to end the row, nobody else has: the row still says
\* running, or is gone with its organisation.
OpenWhileOwned ==
    \A a \in Starter, o \in Org : Owns(a, o) => row[o] \in {"running", "none"}

Rows == CompletedOrLost /\ OpenWhileOwned /\ RunningRowsAreCollected

IInv == TypeOK /\ OneCollectionAtATime /\ DownIsIdle /\ Judging /\ Rows

-----------------------------------------------------------------------------
(* Types *)

LEMMA InitIInv == Init => IInv
<1> SUFFICES ASSUME Init
             PROVE  IInv
  OBVIOUS
<1> USE CollectionAssumption DEF Init, NoWork
<1>1. Typed
  BY DEF Typed, Starter, Requested, Status, Pc, Stage, Causes
<1>2. TypeOK
  BY <1>1 DEF TypeOK
<1>3. OneCollectionAtATime /\ DownIsIdle /\ Judging
  BY DEF OneCollectionAtATime, InRun, DownIsIdle, Judging, Starter, Requested
<1>4. Rows
  BY DEF Rows, CompletedOrLost, OpenWhileOwned, Owns, RunningRowsAreCollected
<1> QED
  BY <1>2, <1>3, <1>4 DEF IInv

\* The goroutine of an organisation moves, and no other.
LEMMA Moved ==
  ASSUME Typed, NEW a \in Starter, NEW o \in Org, NEW s \in Stage, Move(a, o, s)
  PROVE  /\ at' \in [Starter -> [Org -> Stage]]
         /\ at'[a][o] = s
         /\ \A b \in Starter, p \in Org : b # a \/ p # o => at'[b][p] = at[b][p]
  BY DEF Typed, Move

LEMMA Written ==
  ASSUME Typed, NEW o \in Org, NEW s \in Status, Write(o, s)
  PROVE  /\ row' \in [Org -> Status] /\ unwritten' \in [Causes -> SUBSET Org]
         /\ row'[o] = s
         /\ \A p \in Org : p # o => row'[p] = row[p]
         /\ \A c \in Causes, p \in Org : p # o => (p \in unwritten'[c] <=> p \in unwritten[c])
  BY DEF Typed, Write

\* A row that says running is remembered when its statement is lost.
LEMMA Lost ==
  ASSUME Typed, NEW o \in Org, NEW c \in Causes, Missed(c, o)
  PROVE  /\ row' = row /\ unwritten' \in [Causes -> SUBSET Org]
         /\ row[o] = "running" => o \in unwritten'[c]
         /\ \A d \in Causes : unwritten[d] \subseteq unwritten'[d]
  BY DEF Typed, Missed

LEMMA Gone ==
  ASSUME Typed, NEW a \in Starter, NEW o \in Org, Leave(a, o)
  PROVE  /\ Move(a, o, "out")
         /\ committed' \in [Starter -> SUBSET Org]
         /\ o \notin committed'[a]
         /\ \A b \in Starter : committed'[b] \subseteq committed[b]
         /\ \A b \in Starter, p \in Org : b # a \/ p # o => (p \in committed'[b] <=> p \in committed[b])
  BY DEF Typed, Leave

\* What a step of a goroutine changes.
LEMMA OrgFrame ==
  ASSUME Typed, NEW a \in Starter, NEW o \in Org, OrgStep(a, o)
  PROVE  /\ Typed'
         /\ UNCHANGED <<proc, orgs, running, pc, resumption>>
         /\ at[a][o] \notin {"none", "out"}
         /\ \A b \in Starter, p \in Org : b # a \/ p # o =>
                /\ at'[b][p] = at[b][p]
                /\ p \in committed'[b] <=> p \in committed[b]
         /\ \A p \in Org : p # o => row'[p] = row[p]
         /\ \A c \in Causes, p \in Org : p # o => (p \in unwritten[c] => p \in unwritten'[c])
<1> USE DEF resumption
<1>0. /\ "slot" \in Stage /\ "create" \in Stage /\ "search" \in Stage /\ "complete" \in Stage
      /\ "cookbooks" \in Stage /\ "groups" \in Stage /\ "failing" \in Stage /\ "out" \in Stage
      /\ "running" \in Status /\ "completed" \in Status /\ "failed" \in Status
      /\ "interrupted" \in Status /\ "complete" \in Causes /\ "mark" \in Causes
  BY DEF Stage, Status, Causes
<1>1. CASE TakeSlot(a, o)
  BY <1>1, <1>0, Moved DEF TakeSlot, Typed
<1>2. CASE CreateRow(a, o)
  BY <1>2, <1>0, Moved, Written DEF CreateRow, Typed
<1>3. CASE SearchNodes(a, o)
  BY <1>3, <1>0, Moved DEF SearchNodes, Typed
<1>4. CASE CompleteRow(a, o)
  <2>1. CASE Update(o, "completed") /\ committed' = [committed EXCEPT ![a] = @ \cup {o}]
    BY <1>4, <2>1, <1>0, Moved, Written DEF CompleteRow, Update, Typed
  <2>2. CASE Missed("complete", o) /\ UNCHANGED committed
    BY <1>4, <2>2, <1>0, Moved, Lost DEF CompleteRow, Typed
  <2> QED
    BY <1>4, <2>1, <2>2 DEF CompleteRow
<1>5. CASE FetchCookbooks(a, o)
  BY <1>5, <1>0, Moved, Gone DEF FetchCookbooks, Typed
<1>6. CASE Conclude(a, o)
  BY <1>6, <1>0, Moved, Gone DEF Conclude, Typed
<1>7. CASE MarkRow(a, o)
  <2>1. CASE UNCHANGED <<row, unwritten>>
    BY <1>7, <2>1, <1>0, Moved, Gone DEF MarkRow, Typed
  <2>2. CASE Update(o, IF Open(a) THEN "failed" ELSE "interrupted")
    BY <1>7, <2>2, <1>0, Moved, Gone, Written DEF MarkRow, Update, Typed
  <2>3. CASE Missed("mark", o)
    BY <1>7, <2>3, <1>0, Moved, Gone, Lost DEF MarkRow, Typed
  <2> QED
    BY <1>7, <2>1, <2>2, <2>3 DEF MarkRow
<1> QED
  BY <1>1, <1>2, <1>3, <1>4, <1>5, <1>6, <1>7 DEF OrgStep

\* The end of the process.
LEMMA Ended ==
  ASSUME Typed, End
  PROVE  /\ Typed' /\ OneCollectionAtATime' /\ DownIsIdle' /\ Judging'
         /\ \A a \in Starter, o \in Org : at'[a][o] = "none"
         /\ \A a \in Starter : committed'[a] = {}
         /\ proc' = "down" /\ row' = row
<1> USE DEF End, NoWork
<1>1. Typed'
  BY DEF Typed, Pc, Stage, Causes
<1>2. OneCollectionAtATime'
  BY DEF OneCollectionAtATime, InRun
<1>3. DownIsIdle' /\ Judging'
  BY DEF DownIsIdle, Judging, Starter
<1> QED
  BY <1>1, <1>2, <1>3

LEMMA TypedStep == Typed /\ Judging /\ [Next]_vars => Typed'
<1> SUFFICES ASSUME Typed, Judging, [Next]_vars
             PROVE  Typed'
  OBVIOUS
<1> USE DEF goroutine, resumption, aside
<1>1. CASE Boot
  <2>1. row' \in [Org -> Status] /\ unwritten' \in [Causes -> SUBSET Org]
    BY <1>1 DEF Boot, Typed, Status
  <2>2. pc' \in [Starter -> Pc]
    BY <1>1 DEF Boot, Typed, Pc
  <2> QED
    BY <1>1, <2>1, <2>2 DEF Boot, Typed
<1>2. CASE Crash \/ Exit
  BY <1>2, Ended DEF Crash, Exit
<1>3. CASE StopScheduler
  BY <1>3 DEF StopScheduler, Typed, Starter
<1>4. CASE LoopExit
  BY <1>4 DEF LoopExit, Typed, Pc
<1>5. CASE Tick \/ Rescan
  BY <1>5 DEF Tick, Rescan, Typed, Pc
<1>6. CASE Expire
  BY <1>6 DEF Expire, Typed, Starter, Requested
<1>7. CASE SaveOrganisations
  <2>1. row' \in [Org -> Status]
    BY <1>7 DEF SaveOrganisations, Typed, Status
  <2>2. unwritten' \in [Causes -> SUBSET Org]
    BY <1>7 DEF SaveOrganisations, Typed
  <2>3. pc' \in [Starter -> Pc]
    BY <1>7 DEF SaveOrganisations, Typed, Pc
  <2>4. orgs' \subseteq Org
    BY <1>7, CollectionAssumption DEF SaveOrganisations
  <2> QED
    BY <1>7, <2>1, <2>2, <2>3, <2>4 DEF SaveOrganisations, Typed
<1>8. ASSUME NEW a \in Starter, RunStep(a)
      PROVE  Typed'
  <2>1. CASE TryStart(a)
    BY <2>1 DEF TryStart, Typed, Pc, AfterRun, Given
  <2>2. CASE Launch(a)
    <3>1. at' \in [Starter -> [Org -> Stage]]
      BY <2>2 DEF Launch, Typed, Stage
    <3> QED
      BY <2>2, <3>1 DEF Launch, Typed, Pc
  <2>3. CASE FinishRun(a)
    <3>1. at' \in [Starter -> [Org -> Stage]]
      BY <2>3 DEF FinishRun, Typed, Stage
    <3> QED
      BY <2>3, <3>1 DEF FinishRun, Typed, Pc, AfterRun, Given
  <2> QED
    BY <1>8, <2>1, <2>2, <2>3 DEF RunStep
<1>9. ASSUME NEW a \in Starter, NEW o \in Org, OrgStep(a, o)
      PROVE  Typed'
  BY <1>9, OrgFrame
<1>10. CASE ResumeSteps
  <2>1. CASE ListInterrupted
    BY <2>1 DEF ListInterrupted, ResumeStep, Typed, Pc
  <2>2. CASE LoadOrganisations
    BY <2>2 DEF LoadOrganisations, ResumeStep, Typed, Pc
  <2>3. CASE AbandonRun
    <3>1. row' \in [Org -> Status] /\ unwritten' \in [Causes -> SUBSET Org]
      BY <2>3 DEF AbandonRun, Abandon, Write, Typed, Status
    <3>2. pc' \in [Starter -> Pc]
      BY <2>3 DEF AbandonRun, ResumeStep, Typed, Pc
    <3>3. queue' \subseteq Org
      BY <2>3 DEF AbandonRun, Typed, Judging, ResumeStep
    <3> QED
      BY <2>3, <3>1, <3>2, <3>3 DEF AbandonRun, Typed
  <2>4. CASE Resume
    BY <2>4 DEF Resume, ResumeStep, Typed, Pc
  <2>5. ASSUME NEW o \in Org, Evaluate(o)
        PROVE  Typed'
    BY <2>5 DEF Evaluate, ResumeStep, Typed, Pc
  <2> QED
    BY <1>10, <2>1, <2>2, <2>3, <2>4, <2>5 DEF ResumeSteps
<1>11. CASE UNCHANGED vars
  BY <1>11 DEF vars, Typed
<1> QED
  BY <1>1, <1>2, <1>3, <1>4, <1>5, <1>6, <1>7, <1>8, <1>9, <1>10, <1>11 DEF Next

-----------------------------------------------------------------------------
(* One collection at a time *)

\* A step that keeps every starter in its run, or out of one.
LEMMA SameRuns ==
  ASSUME OneCollectionAtATime,
         \A a \in Starter : InRun(a)' <=> InRun(a),
         \A a \in Starter : pc[a] = "collect" => pc'[a] = "collect",
         \A a \in Starter, o \in Org : at[a][o] = "none" => at'[a][o] = "none",
         running' = running
  PROVE  OneCollectionAtATime'
  BY DEF OneCollectionAtATime

LEMMA RunStepKeeps ==
  ASSUME Typed, OneCollectionAtATime, NEW a \in Starter, RunStep(a)
  PROVE  OneCollectionAtATime'
<1> USE DEF Typed
<1>1. CASE TryStart(a)
  <2>1. CASE running
    <3>1. \A b \in Starter : (InRun(b)' <=> InRun(b)) /\ (pc[b] = "collect" => pc'[b] = "collect")
      BY <1>1, <2>1 DEF TryStart, InRun, AfterRun
    <3> QED
      BY <1>1, <2>1, <3>1, SameRuns DEF TryStart, goroutine
  <2>2. CASE ~running
    <3>1. \A b \in Starter : ~InRun(b)
      BY <2>2 DEF OneCollectionAtATime
    <3>2. pc'[a] = "list" /\ \A b \in Starter : b # a => pc'[b] = pc[b]
      BY <1>1, <2>2 DEF TryStart
    <3>3. running' /\ at' = at
      BY <1>1, <2>2 DEF TryStart, goroutine
    <3> QED
      BY <3>1, <3>2, <3>3 DEF OneCollectionAtATime, InRun
  <2> QED
    BY <2>1, <2>2
<1>2. CASE Launch(a)
  <2>1. pc[a] = "list" /\ pc'[a] = "collect" /\ \A b \in Starter : b # a => pc'[b] = pc[b]
    BY <1>2 DEF Launch
  <2>2. \A b \in Starter, o \in Org : b # a => at'[b][o] = at[b][o]
    BY <1>2 DEF Launch
  <2>3. running' = running
    BY <1>2 DEF Launch
  <2>4. \A b \in Starter : InRun(b)' <=> InRun(b)
    BY <2>1 DEF InRun
  <2>5. \A b \in Starter, o \in Org : at'[b][o] # "none" => pc'[b] = "collect"
    BY <2>1, <2>2 DEF OneCollectionAtATime
  <2> QED
    BY <2>3, <2>4, <2>5 DEF OneCollectionAtATime
<1>3. CASE FinishRun(a)
  <2>1. InRun(a) /\ ~InRun(a)' /\ \A b \in Starter : b # a => pc'[b] = pc[b]
    BY <1>3 DEF FinishRun, InRun, AfterRun
  <2>2. \A b \in Starter : b # a => ~InRun(b) /\ ~InRun(b)'
    BY <2>1 DEF OneCollectionAtATime, InRun
  <2>3. \A o \in Org : at'[a][o] = "none"
    BY <1>3 DEF FinishRun
  <2>4. \A b \in Starter, o \in Org : b # a => at'[b][o] = at[b][o]
    BY <1>3 DEF FinishRun
  <2>5. ~running'
    BY <1>3 DEF FinishRun
  <2> QED
    BY <2>1, <2>2, <2>3, <2>4, <2>5 DEF OneCollectionAtATime, InRun
<1> QED
  BY <1>1, <1>2, <1>3 DEF RunStep

\* No starter but the one of the step moves, and that one is in no run.
LEMMA Outside ==
  ASSUME Typed, DownIsIdle, [Next]_vars,
         ~End,
         \A a \in Starter : ~RunStep(a),
         \A a \in Starter, o \in Org : ~OrgStep(a, o)
  PROVE  /\ \A a \in Starter : pc'[a] = pc[a] \/ ~(InRun(a) \/ InRun(a)')
         /\ UNCHANGED <<running, at, committed>>
<1> USE DEF Typed, goroutine, InRun
<1>1. CASE Boot
  BY <1>1 DEF Boot, DownIsIdle
<1>2. CASE StopScheduler \/ Expire
  BY <1>2 DEF StopScheduler, Expire
<1>3. CASE LoopExit \/ Tick \/ Rescan
  BY <1>3 DEF LoopExit, Tick, Rescan
<1>4. CASE SaveOrganisations
  BY <1>4 DEF SaveOrganisations
<1>5. CASE ResumeSteps
  <2>1. UNCHANGED <<running, at, committed>>
    BY <1>5 DEF ResumeSteps, ListInterrupted, LoadOrganisations, Evaluate, AbandonRun, Resume, aside
  <2>2. \E from, to \in Pc \ {"list", "collect"} : ResumeStep(from, to)
    BY <1>5 DEF ResumeSteps, ListInterrupted, LoadOrganisations, Evaluate, AbandonRun, Resume, Pc
  <2> QED
    BY <2>1, <2>2 DEF ResumeStep
<1>6. CASE UNCHANGED vars
  BY <1>6 DEF vars
<1> QED
  BY <1>1, <1>2, <1>3, <1>4, <1>5, <1>6 DEF Next, Crash, Exit

LEMMA OneStep == Typed /\ DownIsIdle /\ OneCollectionAtATime /\ [Next]_vars => OneCollectionAtATime'
<1> SUFFICES ASSUME Typed, DownIsIdle, OneCollectionAtATime, [Next]_vars
             PROVE  OneCollectionAtATime'
  OBVIOUS
<1>1. CASE End
  BY <1>1, Ended
<1>2. ASSUME NEW a \in Starter, RunStep(a)
      PROVE  OneCollectionAtATime'
  BY <1>2, RunStepKeeps
<1>3. ASSUME NEW a \in Starter, NEW o \in Org, OrgStep(a, o)
      PROVE  OneCollectionAtATime'
  <2>1. UNCHANGED <<running, pc>>
    BY <1>3, OrgFrame
  <2>2. \A b \in Starter, p \in Org : at[b][p] = "none" => at'[b][p] = "none"
    BY <1>3, OrgFrame
  <2> QED
    BY <2>1, <2>2, SameRuns DEF InRun
<1>4. CASE /\ ~End
           /\ \A a \in Starter : ~RunStep(a)
           /\ \A a \in Starter, o \in Org : ~OrgStep(a, o)
  <2>1. /\ \A a \in Starter : pc'[a] = pc[a] \/ ~(InRun(a) \/ InRun(a)')
        /\ UNCHANGED <<running, at>>
    BY <1>4, Outside
  <2> QED
    BY <2>1, SameRuns DEF InRun
<1> QED
  BY <1>1, <1>2, <1>3, <1>4

LEMMA SmallStep == Typed /\ DownIsIdle /\ Judging /\ [Next]_vars => DownIsIdle' /\ Judging'
<1> SUFFICES ASSUME Typed, DownIsIdle, Judging, [Next]_vars
             PROVE  DownIsIdle' /\ Judging'
  OBVIOUS
<1> USE DEF Typed, DownIsIdle, Judging, goroutine, resumption, aside
<1>1. CASE Boot
  BY <1>1 DEF Boot, Starter
<1>2. CASE Crash \/ Exit
  BY <1>2, Ended DEF Crash, Exit
<1>3. CASE StopScheduler \/ Expire
  BY <1>3 DEF StopScheduler, Expire
<1>4. CASE LoopExit \/ Tick \/ Rescan
  BY <1>4 DEF LoopExit, Tick, Rescan, Starter
<1>5. CASE SaveOrganisations
  BY <1>5 DEF SaveOrganisations
<1>6. ASSUME NEW a \in Starter, RunStep(a)
      PROVE  DownIsIdle' /\ Judging'
  <2>1. proc # "down" /\ proc' = proc /\ cur' = cur
    BY <1>6 DEF RunStep, TryStart, Launch, FinishRun
  <2>2. pc'["resume"] \in {"drop", "requeue"} => pc["resume"] = pc'["resume"]
    <3>1. \A b \in Starter : b # a => pc'[b] = pc[b]
      <4>1. CASE TryStart(a)
        BY <4>1 DEF TryStart
      <4>2. CASE Launch(a) \/ FinishRun(a)
        BY <4>2 DEF Launch, FinishRun
      <4> QED
        BY <1>6, <4>1, <4>2 DEF RunStep
    <3>2. pc'[a] \in {"wait", "done", "off", "list", "collect"}
      BY <1>6 DEF RunStep, TryStart, Launch, FinishRun, AfterRun
    <3>3. "resume" \in Starter
      BY DEF Starter
    <3> QED
      BY <3>1, <3>2, <3>3
  <2> QED
    BY <2>1, <2>2
<1>7. ASSUME NEW a \in Starter, NEW o \in Org, OrgStep(a, o)
      PROVE  DownIsIdle' /\ Judging'
  BY <1>7, OrgFrame
<1>8. CASE ResumeSteps
  <2>1. "resume" \in Starter
    BY DEF Starter
  <2>2. proc # "down" /\ proc' = proc
    BY <1>8, <2>1 DEF ResumeSteps, ListInterrupted, LoadOrganisations, Evaluate, AbandonRun, Resume, ResumeStep
  <2>3. Judging'
    BY <1>8, <2>1 DEF ResumeSteps, ListInterrupted, LoadOrganisations, Evaluate, AbandonRun, Resume, ResumeStep
  <2> QED
    BY <2>2, <2>3
<1>9. CASE UNCHANGED vars
  BY <1>9 DEF vars
<1> QED
  BY <1>1, <1>2, <1>3, <1>4, <1>5, <1>6, <1>7, <1>8, <1>9 DEF Next

-----------------------------------------------------------------------------
(* The rows *)

CommittedAt == \A a \in Starter : \A o \in committed[a] : at[a][o] \in {"cookbooks", "groups"}

\* What a step of a goroutine does to the row: nothing, or it takes the row, or it
\* ends a row that is its own and says running.
RowEffect(a, o) ==
    \/ row'[o] = row[o] /\ (Owns(a, o)' => Owns(a, o))
    \/ ~Owns(a, o) /\ Owns(a, o)' /\ row'[o] = "running"
    \/ /\ Owns(a, o) /\ ~Owns(a, o)'
       /\ row[o] = "running" /\ row'[o] \in {"completed", "failed", "interrupted"}

\* One collection at a time: an organisation has one goroutine.
LEMMA Alone ==
  ASSUME OneCollectionAtATime, NEW a \in Starter, NEW o \in Org, at[a][o] # "none",
         NEW b \in Starter, b # a
  PROVE  at[b][o] = "none"
  BY DEF OneCollectionAtATime, InRun

\* A goroutine works on the row of its own organisation, and is the only one.
LEMMA RowsOrg ==
  ASSUME IInv, NEW a \in Starter, NEW o \in Org, OrgStep(a, o)
  PROVE  Rows' /\ CommittedAt' /\ RowEffect(a, o)
<1> USE DEF IInv, TypeOK, Rows
<1>1. /\ Typed' /\ UNCHANGED <<proc, pc>> /\ at[a][o] # "none"
      /\ \A b \in Starter, p \in Org : b # a \/ p # o =>
             at'[b][p] = at[b][p] /\ (p \in committed'[b] <=> p \in committed[b])
      /\ \A p \in Org : p # o => row'[p] = row[p]
      /\ \A c \in Causes, p \in Org : p # o => (p \in unwritten[c] => p \in unwritten'[c])
  BY OrgFrame DEF Typed
<1>2. \A b \in Starter : b # a => at[b][o] = "none" /\ at'[b][o] = "none"
  BY <1>1, Alone
<1>3. "complete" \in Causes /\ "mark" \in Causes
  BY DEF Causes
<1>4. \A p \in Org : Collecting(p) /\ p # o => Collecting(p)'
  BY <1>1 DEF Collecting
<1>5. /\ at'[a][o] \in {"cookbooks", "groups"} /\ row'[o] = "running" => o \in unwritten'["complete"]
      /\ Owns(a, o)' => row'[o] \in {"running", "none"}
      /\ RowEffect(a, o)
      /\ row'[o] = "running" =>
            \/ at'[a][o] \in {"search", "complete", "cookbooks", "groups", "failing"}
            \/ o \in unwritten'["complete"] \cup unwritten'["mark"]
            \/ row[o] = "running" /\ row' = row /\ unwritten' = unwritten /\ ~Collecting(o)
      /\ o \in committed'[a] => at'[a][o] \in {"cookbooks", "groups"}
  <2> USE DEF Typed
  <2>1. at[a][o] \in {"cookbooks", "groups"} /\ row[o] = "running" => o \in unwritten["complete"]
    BY DEF CompletedOrLost
  <2>2. Owns(a, o) => row[o] \in {"running", "none"}
    BY DEF OpenWhileOwned
  <2>4. o \in committed[a] => at[a][o] \in {"cookbooks", "groups"}
    OBVIOUS
  <2>5. at[a][o] \in {"slot", "create"} => ~Collecting(o)
    BY <1>2 DEF Collecting
  <2> USE DEF Owns, RowEffect
  <2>6. CASE TakeSlot(a, o)
    BY <2>4, <2>5, <2>6, <1>3, Moved DEF TakeSlot, Stage
  <2>7. CASE CreateRow(a, o)
    <3>1. CASE Write(o, "running") /\ Move(a, o, "search")
      BY <2>4, <2>7, <3>1, <1>3, Moved, Written DEF CreateRow, Stage, Status
    <3>2. CASE Move(a, o, "out") /\ UNCHANGED <<row, unwritten>>
      BY <2>4, <2>5, <2>7, <3>2, <1>3, Moved DEF CreateRow, Stage
    <3> QED
      BY <2>7, <3>1, <3>2 DEF CreateRow
  <2>8. CASE SearchNodes(a, o)
    BY <2>2, <2>4, <2>8, Moved DEF SearchNodes, Stage
  <2>9. CASE CompleteRow(a, o)
    <3>0. at[a][o] = "complete" /\ at'[a][o] = "cookbooks"
      BY <2>9, Moved DEF CompleteRow, Stage
    <3>1. CASE Update(o, "completed") /\ committed' = [committed EXCEPT ![a] = @ \cup {o}]
      <4>1. o \in committed'[a] /\ row'[o] = "completed" /\ row[o] = "running"
        BY <2>2, <3>0, <3>1, Written DEF Update, Status
      <4> QED
        BY <2>4, <3>0, <4>1
    <3>2. CASE Missed("complete", o) /\ UNCHANGED committed
      BY <2>2, <2>4, <3>0, <3>2, <1>3, Lost
    <3> QED
      BY <2>9, <3>1, <3>2 DEF CompleteRow
  <2>10. CASE FetchCookbooks(a, o)
    <3>0. at[a][o] = "cookbooks" /\ UNCHANGED <<row, unwritten>>
      BY <2>10 DEF FetchCookbooks
    <3>1. CASE Move(a, o, "groups") /\ UNCHANGED committed
      BY <2>1, <2>2, <3>0, <3>1, <1>3, Moved DEF Stage
    <3>2. CASE o \in committed[a] /\ Leave(a, o)
      BY <2>1, <3>0, <3>2, <1>3, Moved, Gone DEF Stage
    <3>3. CASE o \notin committed[a] /\ Move(a, o, "failing") /\ UNCHANGED committed
      BY <2>2, <3>0, <3>3, <1>3, Moved DEF Stage
    <3> QED
      BY <2>10, <3>1, <3>2, <3>3 DEF FetchCookbooks
  <2>11. CASE Conclude(a, o)
    BY <2>1, <2>11, <1>3, Moved, Gone DEF Conclude, Stage
  <2>12. CASE MarkRow(a, o)
    <3>0. at[a][o] = "failing" /\ at'[a][o] = "out" /\ o \notin committed'[a] /\ o \notin committed[a]
      BY <2>4, <2>12, Moved, Gone DEF MarkRow, Stage
    <3>1. CASE Update(o, IF Open(a) THEN "failed" ELSE "interrupted")
      BY <2>2, <3>0, <3>1, Written DEF Update, Status
    <3>2. CASE Missed("mark", o)
      BY <2>2, <3>0, <3>2, <1>3, Lost
    <3> QED
      BY <2>12, <3>0, <3>1, <3>2 DEF MarkRow
  <2> QED
    BY <2>6, <2>7, <2>8, <2>9, <2>10, <2>11, <2>12 DEF OrgStep
<1>6. CompletedOrLost'
  BY <1>1, <1>2, <1>3, <1>5 DEF CompletedOrLost
<1>7. OpenWhileOwned'
  <2> SUFFICES ASSUME NEW b \in Starter, NEW p \in Org, Owns(b, p)'
               PROVE  row'[p] \in {"running", "none"}
    BY DEF OpenWhileOwned
  <2>1. CASE b = a /\ p = o
    BY <1>5, <2>1
  <2>2. CASE p = o /\ b # a
    BY <1>2, <2>2 DEF Owns
  <2>3. CASE p # o
    <3>1. Owns(b, p) /\ row'[p] = row[p]
      BY <1>1, <2>3 DEF Owns
    <3> QED
      BY <3>1 DEF OpenWhileOwned
  <2> QED
    BY <2>1, <2>2, <2>3
<1>8. RunningRowsAreCollected'
  <2> SUFFICES ASSUME NEW p \in Org, proc # "down", row'[p] = "running"
               PROVE  Collecting(p)' \/ \E c \in Causes : p \in unwritten'[c]
    BY <1>1 DEF RunningRowsAreCollected
  <2>1. CASE p # o
    BY <1>1, <1>4, <2>1 DEF RunningRowsAreCollected
  <2>2. CASE p = o
    <3>1. CASE at'[a][o] \in {"search", "complete", "cookbooks", "groups", "failing"}
      BY <2>2, <3>1 DEF Collecting
    <3>2. CASE o \in unwritten'["complete"] \cup unwritten'["mark"]
      BY <1>3, <2>2, <3>2
    <3>3. CASE row[o] = "running" /\ row' = row /\ unwritten' = unwritten /\ ~Collecting(o)
      BY <2>2, <3>3 DEF RunningRowsAreCollected
    <3> QED
      BY <1>5, <2>2, <3>1, <3>2, <3>3
  <2> QED
    BY <2>1, <2>2
<1>9. CommittedAt'
  <2> SUFFICES ASSUME NEW b \in Starter, NEW p \in Org, p \in committed'[b]
               PROVE  at'[b][p] \in {"cookbooks", "groups"}
    BY <1>1 DEF CommittedAt, Typed
  <2> QED
    BY <1>1, <1>5
<1> QED
  BY <1>5, <1>6, <1>7, <1>8, <1>9

\* Where no goroutine moves, the rows that change are deleted, or repaired.
LEMMA RowsKept ==
  ASSUME IInv, Typed',
         UNCHANGED <<at, committed>>,
         proc = "down" => proc' = "down" \/ \A o \in Org : row'[o] = "running" => \E c \in Causes : o \in unwritten'[c],
         \A o \in Org :
            \/ row'[o] = row[o] /\ (proc # "down" => \A c \in Causes : o \in unwritten[c] => o \in unwritten'[c])
            \/ row'[o] = "none"
            \/ row'[o] = "failed" /\ row[o] = "interrupted"
            \/ row'[o] = "interrupted" /\ proc = "down"
  PROVE  Rows' /\ CommittedAt'
<1> USE DEF IInv, TypeOK, Rows
<1>1. \A a \in Starter, o \in Org : at[a][o] # "none" => proc # "down"
  BY DEF OneCollectionAtATime, DownIsIdle
<1>2. "complete" \in Causes
  BY DEF Causes
<1>3. CompletedOrLost'
  BY <1>1, <1>2 DEF CompletedOrLost
<1>4. OpenWhileOwned'
  <2>1. \A a \in Starter, o \in Org : Owns(a, o)' => Owns(a, o) /\ proc # "down"
    BY <1>1 DEF Owns
  <2> QED
    BY <2>1 DEF OpenWhileOwned
<1>5. RunningRowsAreCollected'
  BY DEF RunningRowsAreCollected, Collecting
<1>6. CommittedAt'
  BY DEF CommittedAt
<1> QED
  BY <1>3, <1>4, <1>5, <1>6

LEMMA RowsStep ==
  ASSUME IInv, [Next]_vars
  PROVE  Rows' /\ CommittedAt'
<1>0. Typed' /\ Typed
  BY TypedStep DEF IInv, TypeOK
<1> USE DEF goroutine, aside
<1>1. CASE Boot
  <2>1. \A o \in Org :
            \/ row'[o] = "running" /\ row[o] = "running" /\ o \in unwritten'["mark"]
            \/ row'[o] = "interrupted" /\ row[o] = "running"
            \/ row'[o] = row[o] /\ row[o] # "running"
    <3>1. PICK missed \in SUBSET {o \in Org : row[o] = "running"} :
              /\ row' = [o \in Org |->
                           IF row[o] = "running" /\ o \notin missed THEN "interrupted" ELSE row[o]]
              /\ unwritten' = [c \in Causes |-> IF c = "mark" THEN missed ELSE {}]
      BY <1>1 DEF Boot
    <3>2. unwritten'["mark"] = missed
      BY <3>1 DEF Causes
    <3> QED
      BY <3>1, <3>2
  <2>2. "mark" \in Causes /\ proc = "down" /\ UNCHANGED <<at, committed>>
    BY <1>1 DEF Boot, Causes
  <2> QED
    BY <1>0, <2>1, <2>2, RowsKept
<1>2. CASE End
  <2>1. /\ \A a \in Starter, o \in Org : at'[a][o] = "none"
        /\ \A a \in Starter : committed'[a] = {}
        /\ proc' = "down" /\ row' = row
    BY <1>0, <1>2, Ended
  <2> QED
    BY <2>1 DEF Rows, CompletedOrLost, OpenWhileOwned, Owns, RunningRowsAreCollected, CommittedAt
<1>3. CASE SaveOrganisations
  <2>1. \A o \in Org :
           \/ row'[o] = "none"
           \/ row'[o] = row[o] /\ \A c \in Causes : o \in unwritten[c] => o \in unwritten'[c]
    BY <1>0, <1>3 DEF SaveOrganisations, Typed
  <2>2. proc # "down" /\ UNCHANGED <<at, committed>>
    BY <1>3 DEF SaveOrganisations
  <2> QED
    BY <1>0, <2>1, <2>2, RowsKept
<1>4. CASE AbandonRun
  <2>1. proc # "down" /\ UNCHANGED <<at, committed>>
    BY <1>4 DEF AbandonRun, ResumeStep, IInv, DownIsIdle, Starter
  <2>2. cur \in Org
    BY <1>4 DEF AbandonRun, ResumeStep, IInv, Judging
  <2>3. \/ UNCHANGED <<row, unwritten>>
        \/ row[cur] = "interrupted" /\ Write(cur, "failed")
    BY <1>4 DEF AbandonRun, Abandon
  <2>4. \A o \in Org :
           \/ row'[o] = row[o] /\ \A c \in Causes : o \in unwritten[c] => o \in unwritten'[c]
           \/ row[o] = "interrupted" /\ row'[o] = "failed"
    BY <1>0, <2>2, <2>3, Written DEF Status
  <2> QED
    BY <1>0, <2>1, <2>4, RowsKept
<1>5. ASSUME NEW a \in Starter, RunStep(a)
      PROVE  Rows' /\ CommittedAt'
  <2>1. UNCHANGED <<proc, row, unwritten, committed>>
    BY <1>5 DEF RunStep, TryStart, Launch, FinishRun
  <2>2. CASE TryStart(a)
    <3>1. at' = at
      BY <2>2 DEF TryStart
    <3> QED
      BY <1>0, <2>1, <3>1, RowsKept
  <2>3. CASE Launch(a) \/ FinishRun(a)
    <3>1. \A b \in Starter, o \in Org : b # a => at'[b][o] = at[b][o]
      BY <1>0, <2>3 DEF Launch, FinishRun, Typed
    <3>2. \A o \in Org : at[a][o] \in {"none", "out"} /\ at'[a][o] \in {"none", "slot"}
      BY <1>0, <2>3 DEF Launch, FinishRun, Typed, IInv, OneCollectionAtATime
    <3>3. CompletedOrLost' /\ OpenWhileOwned'
      <4>1. \A b \in Starter, o \in Org : Owns(b, o)' => Owns(b, o)
        BY <2>1, <3>1, <3>2 DEF Owns
      <4>2. \A b \in Starter, o \in Org :
              at'[b][o] \in {"cookbooks", "groups"} => at[b][o] \in {"cookbooks", "groups"}
        BY <3>1, <3>2
      <4> QED
        BY <2>1, <4>1, <4>2 DEF IInv, Rows, CompletedOrLost, OpenWhileOwned
    <3>4. RunningRowsAreCollected'
      <4>1. \A o \in Org : Collecting(o) => Collecting(o)'
        BY <3>1, <3>2 DEF Collecting
      <4> QED
        BY <2>1, <4>1 DEF IInv, Rows, RunningRowsAreCollected
    <3>5. CommittedAt'
      BY <1>0, <2>1, <3>1, <3>2 DEF CommittedAt, IInv, TypeOK, Typed
    <3> QED
      BY <2>1, <3>3, <3>4, <3>5 DEF Rows
  <2> QED
    BY <1>5, <2>2, <2>3 DEF RunStep
<1>6. ASSUME NEW a \in Starter, NEW o \in Org, OrgStep(a, o)
      PROVE  Rows' /\ CommittedAt'
  BY <1>6, RowsOrg
<1>7. CASE UNCHANGED <<row, unwritten, at, committed>> /\ (proc = "down" => proc' = "down")
  BY <1>0, <1>7, RowsKept
<1>8. StopScheduler \/ LoopExit \/ Tick \/ Rescan \/ Expire \/ UNCHANGED vars
        => UNCHANGED <<row, unwritten, at, committed>> /\ (proc = "down" => proc' = "down")
  BY DEF StopScheduler, LoopExit, Tick, Rescan, Expire, vars
<1>9. ResumeSteps /\ ~AbandonRun
        => UNCHANGED <<row, unwritten, at, committed>> /\ (proc = "down" => proc' = "down")
  BY DEF ResumeSteps, ListInterrupted, LoadOrganisations, Evaluate, Resume
<1> QED
  BY <1>1, <1>2, <1>3, <1>4, <1>5, <1>6, <1>7, <1>8, <1>9 DEF Next, Crash, Exit

-----------------------------------------------------------------------------
(* What the runs check *)

LEMMA IInvStep == IInv /\ [Next]_vars => IInv'
  BY TypedStep, OneStep, SmallStep, RowsStep DEF IInv, TypeOK, CommittedAt

LEMMA Invariance == Spec => []IInv
  BY InitIInv, IInvStep, PTL DEF Spec

\* States are of their types, and an organisation whose row this run completed is
\* past the point where the deferred handler would touch the row.
THEOREM TypeCorrect == Spec => []TypeOK
<1>1. IInv => TypeOK
  BY DEF IInv
<1> QED
  BY <1>1, Invariance, PTL

\* tryStartRun admits one run, whichever of the four ways it was asked for.
THEOREM OneCollection == Spec => []OneCollectionAtATime
<1>1. IInv => OneCollectionAtATime
  BY DEF IInv
<1> QED
  BY <1>1, Invariance, PTL

\* A row that says running is being collected, unless the statement that should
\* have ended it was lost.
THEOREM RunningRows == Spec => []RunningRowsAreCollected
<1>1. IInv => RunningRowsAreCollected
  BY DEF IInv, Rows
<1> QED
  BY <1>1, Invariance, PTL

-----------------------------------------------------------------------------
(* The ledger *)

LEMMA LedgerBegins == Init => Ledger!LedgerInit
  BY DEF Init, NoWork, Owned, Owns, Ledger!LedgerInit

\* A goroutine takes, ends or leaves the row of its organisation.
LEMMA LedgerOrgStep ==
  ASSUME IInv, NEW a \in Starter, NEW o \in Org, OrgStep(a, o)
  PROVE  Ledger!LedgerNext
<1>1. Typed
  BY DEF IInv, TypeOK
<1>2. /\ Typed' /\ at[a][o] # "none"
      /\ \A b \in Starter, p \in Org : b # a \/ p # o =>
             at'[b][p] = at[b][p] /\ (p \in committed'[b] <=> p \in committed[b])
      /\ \A p \in Org : p # o => row'[p] = row[p]
  BY <1>1, OrgFrame
<1>3. \A b \in Starter, p \in Org : b # a \/ p # o => (Owns(b, p)' <=> Owns(b, p))
  BY <1>2 DEF Owns
<1>4. \A b \in Starter : b # a => ~Owns(b, o) /\ ~Owns(b, o)'
  <2>1. \A b \in Starter : b # a => at[b][o] = "none"
    BY <1>2, Alone DEF IInv
  <2> QED
    BY <2>1, <1>3 DEF Owns
<1>5. (o \in Owned <=> Owns(a, o)) /\ (o \in Owned' <=> Owns(a, o)')
  BY <1>4 DEF Owned
<1>6. \A p \in Org : p # o => (p \in Owned' <=> p \in Owned)
  BY <1>3 DEF Owned
<1>7. Owned \subseteq Org /\ Owned' \subseteq Org
  BY DEF Owned
<1>8. row \in [Org -> Status] /\ row' \in [Org -> Status]
  BY <1>1, <1>2 DEF Typed
<1>9. CASE row'[o] = row[o] /\ (Owns(a, o)' => Owns(a, o))
  <2>1. row' = row
    BY <1>2, <1>8, <1>9
  <2>2. Owned' = Owned \ (Owned \ Owned')
    BY <1>5, <1>6, <1>7, <1>9
  <2>3. Owned \ Owned' \in SUBSET Org
    BY <1>7
  <2>4. Ledger!Release(Owned \ Owned')
    BY <2>1, <2>2 DEF Ledger!Release
  <2> QED
    BY <2>3, <2>4 DEF Ledger!LedgerNext
<1>10. CASE ~Owns(a, o) /\ Owns(a, o)' /\ row'[o] = "running"
  <2>1. row' = [row EXCEPT ![o] = "running"]
    BY <1>2, <1>8, <1>10
  <2>2. o \notin Owned /\ Owned' = Owned \cup {o}
    BY <1>5, <1>6, <1>7, <1>10
  <2>3. Ledger!Begin(o)
    BY <2>1, <2>2 DEF Ledger!Begin
  <2> QED
    BY <2>3 DEF Ledger!LedgerNext
<1>11. CASE /\ Owns(a, o) /\ ~Owns(a, o)'
            /\ row[o] = "running" /\ row'[o] \in {"completed", "failed", "interrupted"}
  <2>1. row' = [row EXCEPT ![o] = row'[o]]
    BY <1>2, <1>8
  <2>2. o \in Owned /\ Owned' = Owned \ {o}
    BY <1>5, <1>6, <1>7, <1>11
  <2>3. Ledger!Finish(o, row'[o])
    BY <1>11, <2>1, <2>2 DEF Ledger!Finish
  <2> QED
    BY <1>11, <2>3 DEF Ledger!LedgerNext
<1> QED
  BY <1>9, <1>10, <1>11, RowsOrg DEF RowEffect

\* The start of the process repairs rows while nobody collects.
LEMMA LedgerBoot == IInv /\ Boot => Ledger!LedgerNext
<1> SUFFICES ASSUME IInv, Boot
             PROVE  Ledger!LedgerNext
  OBVIOUS
<1>1. PICK missed \in SUBSET Org :
          row' = [o \in Org |->
                    IF row[o] = "running" /\ o \notin missed THEN "interrupted" ELSE row[o]]
  BY DEF Boot
<1>2. \A a \in Starter, o \in Org : at[a][o] = "none"
  BY DEF Boot, IInv, DownIsIdle, OneCollectionAtATime
<1>3. Owned = {} /\ Owned' = {}
  BY <1>2 DEF Boot, goroutine, Owned, Owns
<1>4. Ledger!Recover(missed)
  BY <1>1, <1>3 DEF Ledger!Recover
<1> QED
  BY <1>4 DEF Ledger!LedgerNext

\* A process that ends lets go of every row as it is.
LEMMA LedgerEnd == IInv /\ End => Ledger!LedgerNext
<1> SUFFICES ASSUME IInv, End
             PROVE  Ledger!LedgerNext
  OBVIOUS
<1>1. row' = row /\ Owned' = {}
  BY DEF End, NoWork, Owned, Owns
<1>2. Ledger!Release(Org)
  BY <1>1 DEF Ledger!Release, Owned
<1> QED
  BY <1>2 DEF Ledger!LedgerNext

\* The starters' own steps: no goroutine gains or loses a row.
LEMMA LedgerRunStep ==
  ASSUME IInv, NEW a \in Starter, RunStep(a)
  PROVE  UNCHANGED <<row, Owned>>
<1>1. UNCHANGED <<row, committed>>
  BY DEF RunStep, TryStart, Launch, FinishRun, goroutine
<1>2. CASE TryStart(a)
  BY <1>1, <1>2 DEF TryStart, goroutine, Owned, Owns
<1>3. CASE Launch(a) \/ FinishRun(a)
  <2>1. \A b \in Starter, o \in Org : b # a => at'[b][o] = at[b][o]
    BY <1>3 DEF Launch, FinishRun, IInv, TypeOK, Typed
  <2>2. \A o \in Org : at[a][o] \in {"none", "out"} /\ at'[a][o] \in {"none", "slot"}
    BY <1>3 DEF Launch, FinishRun, IInv, TypeOK, Typed, OneCollectionAtATime
  <2>3. \A b \in Starter, o \in Org : Owns(b, o)' <=> Owns(b, o)
    BY <1>1, <2>1, <2>2 DEF Owns
  <2>4. Owned' = Owned
    BY <2>3 DEF Owned
  <2> QED
    BY <1>1, <2>4
<1> QED
  BY <1>2, <1>3 DEF RunStep

LEMMA LedgerStep == IInv /\ [Next]_vars => [Ledger!LedgerNext]_(Ledger!ledgerVars)
<1> SUFFICES ASSUME IInv, [Next]_vars
             PROVE  Ledger!LedgerNext \/ UNCHANGED <<row, Owned>>
  BY DEF Ledger!ledgerVars
<1>0. UNCHANGED <<at, committed>> => Owned' = Owned
  BY DEF Owned, Owns
<1>1. CASE Boot
  BY <1>1, LedgerBoot
<1>2. CASE Crash \/ Exit
  BY <1>2, LedgerEnd DEF Crash, Exit
<1>3. CASE StopScheduler \/ LoopExit \/ Tick \/ Rescan \/ Expire \/ UNCHANGED vars
  BY <1>0, <1>3 DEF StopScheduler, LoopExit, Tick, Rescan, Expire, vars, goroutine
<1>4. CASE SaveOrganisations
  <2>1. row' = [o \in Org |-> IF o \in Org \ orgs' THEN "none" ELSE row[o]]
    BY <1>4 DEF SaveOrganisations
  <2>2. Owned' = Owned
    BY <1>0, <1>4 DEF SaveOrganisations, goroutine
  <2>3. Ledger!Remove(Org \ orgs')
    BY <2>1, <2>2 DEF Ledger!Remove
  <2> QED
    BY <2>3 DEF Ledger!LedgerNext
<1>5. ASSUME NEW a \in Starter, RunStep(a)
      PROVE  UNCHANGED <<row, Owned>>
  BY <1>5, LedgerRunStep
<1>6. ASSUME NEW a \in Starter, NEW o \in Org, OrgStep(a, o)
      PROVE  Ledger!LedgerNext
  BY <1>6, LedgerOrgStep
<1>7. CASE AbandonRun
  <2>1. Owned' = Owned
    BY <1>0, <1>7 DEF AbandonRun, aside, goroutine
  <2>2. cur \in Org
    BY <1>7 DEF AbandonRun, ResumeStep, IInv, Judging
  <2>3. \/ UNCHANGED row
        \/ row[cur] = "interrupted" /\ row' = [row EXCEPT ![cur] = "failed"]
    BY <1>7 DEF AbandonRun, Abandon, Write
  <2>4. row[cur] = "interrupted" /\ row' = [row EXCEPT ![cur] = "failed"] => Ledger!GiveUp(cur)
    BY <2>1 DEF Ledger!GiveUp
  <2> QED
    BY <2>1, <2>2, <2>3, <2>4 DEF Ledger!LedgerNext
<1>8. CASE ResumeSteps /\ ~AbandonRun
  BY <1>0, <1>8
  DEF ResumeSteps, ListInterrupted, LoadOrganisations, Evaluate, Resume, aside, goroutine
<1> QED
  BY <1>1, <1>2, <1>3, <1>4, <1>5, <1>6, <1>7, <1>8 DEF Next

\* The rows keep to the ledger: one collection at a time has a row, it alone ends
\* it, and at most once; no late failure, no resumption that judged an old listing
\* and no start of the process touches a row that somebody collects or completed.
THEOREM RowsImplementLedger == Spec => KeepsLedger
  BY LedgerBegins, LedgerStep, Invariance, PTL DEF Spec, KeepsLedger, Ledger!LedgerSpec

-----------------------------------------------------------------------------
(* What the ledger gives a reader of the table *)

\* A completed row is only ever replaced by a new collection or deleted with its
\* organisation: neither a late failure nor the resumption overwrites it.
THEOREM CompletedRowsStay ==
  Spec => [][\A o \in Org :
               row[o] = "completed" => row'[o] \in {"completed", "running", "none"}]_row
<1>1. IInv /\ [Next]_vars =>
        [\A o \in Org : row[o] = "completed" => row'[o] \in {"completed", "running", "none"}]_row
  <2> SUFFICES ASSUME IInv, [Next]_vars, NEW o \in Org, row[o] = "completed"
               PROVE  row'[o] \in {"completed", "running", "none"}
    OBVIOUS
  <2>0. row \in [Org -> Status]
    BY DEF IInv, TypeOK, Typed
  <2>1. ASSUME NEW p \in Org, Ledger!Begin(p) \/ Ledger!GiveUp(p)
        PROVE  row'[o] \in {"completed", "running"}
    BY <2>0, <2>1 DEF Ledger!Begin, Ledger!GiveUp
  <2>2. ASSUME NEW p \in Org, NEW s, Ledger!Finish(p, s)
        PROVE  row'[o] = "completed"
    BY <2>0, <2>2 DEF Ledger!Finish
  <2>3. ASSUME NEW some \in SUBSET Org,
               Ledger!Release(some) \/ Ledger!Remove(some) \/ Ledger!Recover(some)
        PROVE  row'[o] \in {"completed", "none"}
    BY <2>3 DEF Ledger!Release, Ledger!Remove, Ledger!Recover
  <2>4. CASE UNCHANGED <<row, Owned>>
    BY <2>4
  <2> QED
    BY <2>1, <2>2, <2>3, <2>4, LedgerStep DEF Ledger!LedgerNext, Ledger!ledgerVars
<1> QED
  BY <1>1, Invariance, PTL DEF Spec

=============================================================================
