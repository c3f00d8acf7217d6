---------------------- MODULE KitchenBatchLifecycleProofs ----------------------
(***************************************************************************)
(* What follows from the lifecycle of a batch alone, hence for every batch *)
(* of KitchenBatch that is requested once.                                 *)
(***************************************************************************)
EXTENDS KitchenBatchLifecycle, Integers, TLAPS

InFlight == {"previewing", "preparing", "running"}

Statuses == InFlight \cup {"draft", "completed", "failed", "cancelled", "deleted"}

\* Only a dry run is previewed, and a draft has no cancel under way.
LifecycleInv ==
    /\ state \in [Batch -> Statuses]
    /\ \A b \in Batch : state[b] = "previewing" => b \in DryBatch
    /\ \A b \in asked : b \in Batch /\ state[b] # "draft"

LEMMA InvBegins == LifecycleInit => LifecycleInv
  BY DEF LifecycleInit, LifecycleInv, Statuses

LEMMA InvKept ==
  ASSUME LifecycleInv, [LifecycleNext]_lifecycleVars
  PROVE  LifecycleInv'
  <1> USE DEF LifecycleInv, Statuses, InFlight
  <1>1. ASSUME NEW b \in Batch,
               Start(b) \/ Proceed(b) \/ Complete(b) \/ Fail(b) \/ Previewed(b) \/ Delete(b)
        PROVE  LifecycleInv'
    BY <1>1 DEF Start, Proceed, Complete, Fail, Previewed, Delete, Become
  <1>2. ASSUME NEW b \in Batch, Ask(b)
        PROVE  LifecycleInv'
    BY <1>2 DEF Ask
  <1>3. ASSUME NEW b \in Batch, Cancel(b)
        PROVE  LifecycleInv'
    BY <1>3 DEF Cancel
  <1>4. ASSUME NEW lapsed, Abandon(lapsed)
        PROVE  LifecycleInv'
    BY <1>4 DEF Abandon
  <1>5. CASE CancelStale
    BY <1>5 DEF CancelStale
  <1>6. CASE UNCHANGED lifecycleVars
    BY <1>6 DEF lifecycleVars
  <1> QED
    BY <1>1, <1>2, <1>3, <1>4, <1>5, <1>6 DEF LifecycleNext

THEOREM LifecycleInvariant == LifecycleSpec => []LifecycleInv
  BY InvBegins, InvKept, PTL DEF LifecycleSpec

-----------------------------------------------------------------------------
(* Which way the status goes *)

Rank(s) == CASE s = "draft"                   -> 0
             [] s = "preparing"               -> 1
             [] s = "running"                 -> 2
             [] s \in {"completed", "failed"} -> 3
             [] s = "cancelled"               -> 4
             [] s = "deleted"                 -> 5

\* The status of a batch that is not a dry run only goes on, and of none it comes
\* back into flight, to draft or from a deletion.
StatusAdvances ==
    \A b \in Batch : state'[b] # state[b] =>
        /\ b \notin DryBatch => Rank(state[b]) < Rank(state'[b])
        /\ state'[b] # "draft" /\ state[b] # "deleted"
        /\ state'[b] \in {"previewing", "preparing"} => state[b] = "draft"
        /\ state'[b] = "running" => state[b] = "preparing"

LEMMA Ranks ==
  /\ Rank("draft") = 0
  /\ Rank("preparing") = 1
  /\ Rank("running") = 2
  /\ Rank("completed") = 3
  /\ Rank("failed") = 3
  /\ Rank("cancelled") = 4
  /\ Rank("deleted") = 5
  BY DEF Rank

LEMMA AdvanceStep ==
  ASSUME LifecycleInv, LifecycleNext
  PROVE  StatusAdvances
  <1> USE Ranks DEF LifecycleInv, StatusAdvances
  <1>1. ASSUME NEW b \in Batch, Start(b)
        PROVE  StatusAdvances
    BY <1>1 DEF Start, Become
  <1>2. ASSUME NEW b \in Batch, Proceed(b) \/ Complete(b) \/ Fail(b)
        PROVE  StatusAdvances
    BY <1>2 DEF Proceed, Complete, Fail, Become
  <1>3. ASSUME NEW b \in Batch, Previewed(b)
        PROVE  StatusAdvances
    BY <1>3 DEF Previewed, Become
  <1>4. ASSUME NEW b \in Batch, Delete(b)
        PROVE  StatusAdvances
    BY <1>4 DEF Delete, Become
  <1>5. ASSUME NEW b \in Batch, Cancel(b)
        PROVE  StatusAdvances
    BY <1>5 DEF Cancel, Statuses, InFlight
  <1>6. CASE CancelStale
    BY <1>6 DEF CancelStale
  <1>7. ASSUME UNCHANGED state
        PROVE  StatusAdvances
    BY <1>7
  <1> QED
    BY <1>1, <1>2, <1>3, <1>4, <1>5, <1>6, <1>7 DEF LifecycleNext, Ask, Abandon

\* A batch that runs goes draft, preparing, running, ended, cancelled, deleted,
\* leaving some out and repeating none: with each change it is further on.  A dry
\* run may turn between completed and cancelled, and neither comes back to life.
THEOREM LifecycleAdvances == LifecycleSpec => [][StatusAdvances]_lifecycleVars
  <1>1. LifecycleInv /\ [LifecycleNext]_lifecycleVars => [StatusAdvances]_lifecycleVars
    BY AdvanceStep
  <1> QED
    BY <1>1, LifecycleInvariant, PTL DEF LifecycleSpec

=============================================================================
