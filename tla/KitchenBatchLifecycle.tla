----------------------- MODULE KitchenBatchLifecycle -----------------------
(***************************************************************************)
(* What the status of a kitchen batch promises to whoever reads it: a      *)
(* batch goes from draft over preparing and running to completed or        *)
(* failed, a dry run from draft over previewing to completed, and nobody   *)
(* turns back.  A cancel ends a batch that was in flight when it was       *)
(* asked for; it may come late and take the place of another end, once,    *)
(* and of a dry run it may lose against the preview.  What is deleted      *)
(* stays deleted.                                                          *)
(*                                                                         *)
(* KitchenBatch implements it, of the batches that are requested once,     *)
(* with handlers, a goroutine, unchecked writes and a process that dies.   *)
(***************************************************************************)
CONSTANTS Batch, DryBatch

VARIABLES
    state,   \* per batch: the status
    asked    \* the batches whose cancel is under way

lifecycleVars == <<state, asked>>

Become(b, s) == state' = [state EXCEPT ![b] = s] /\ UNCHANGED asked

LifecycleInit ==
    /\ state = [b \in Batch |-> "draft"]
    /\ asked = {}

\* A request takes up a draft.
Start(b) ==
    /\ state[b] = "draft"
    /\ Become(b, IF b \in DryBatch THEN "previewing" ELSE "preparing")

\* The instances are resolved and the run begins.
Proceed(b) == state[b] = "preparing" /\ Become(b, "running")

Complete(b) == state[b] = "running" /\ Become(b, "completed")

Fail(b) == state[b] \in {"preparing", "running"} /\ Become(b, "failed")

\* The end of a preview is written without a look at the status.
Previewed(b) ==
    /\ b \in DryBatch
    /\ state[b] \in {"previewing", "cancelled"}
    /\ Become(b, "completed")

\* A cancel is accepted while the batch is in flight ...
Ask(b) ==
    /\ state[b] \in {"previewing", "preparing", "running"}
    /\ asked' = asked \cup {b}
    /\ UNCHANGED state

\* ... and carried out later, whatever became of the batch but a deletion ...
Cancel(b) ==
    /\ b \in asked
    /\ asked' = asked \ {b}
    /\ state' = [state EXCEPT ![b] = IF @ = "deleted" THEN @ ELSE "cancelled"]

\* ... or not at all.
Abandon(lapsed) ==
    /\ asked' = asked \ lapsed
    /\ UNCHANGED state

Delete(b) ==
    /\ state[b] \in {"draft", "completed", "cancelled", "failed"}
    /\ Become(b, "deleted")

\* A restart cancels what it finds in flight.
CancelStale ==
    /\ state' = [b \in Batch |->
                   IF state[b] \in {"preparing", "running"} THEN "cancelled" ELSE state[b]]
    /\ UNCHANGED asked

LifecycleNext ==
    \/ \E b \in Batch : \/ Start(b) \/ Proceed(b) \/ Complete(b) \/ Fail(b) \/ Previewed(b)
                        \/ Ask(b) \/ Cancel(b) \/ Delete(b)
    \/ \E lapsed \in SUBSET Batch : Abandon(lapsed)
    \/ CancelStale

LifecycleSpec == LifecycleInit /\ [][LifecycleNext]_lifecycleVars

=============================================================================
