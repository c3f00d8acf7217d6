--------------------------- MODULE MCKitchenQueue ---------------------------
(* Instances of KitchenQueue for TLC. *)
EXTENDS KitchenQueue, TLC

\* Workers differ in nothing but their slot.
WorkerSymmetry == Permutations(Worker)

TwoPriorities == {1, 2}

OnePriority == {1}

OneOrTwo == {1, 2}

ZeroToTwo == {0, 1, 2}

=============================================================================
