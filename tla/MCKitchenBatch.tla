--------------------------- MODULE MCKitchenBatch ---------------------------
(* Instances of KitchenBatch for TLC. *)
EXTENDS KitchenBatch

CONSTANTS b1, b2, r1, r2

\* Each batch is run once.
OneEach == [r \in {r1, r2} |-> IF r = r1 THEN b1 ELSE b2]

\* One batch, one request.
Single == [r \in {r1} |-> b1]

=============================================================================
