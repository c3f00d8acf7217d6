-------------------------- MODULE KitchenRunLedger --------------------------
(***************************************************************************)
(* What the kitchen run queue promises about its rows, whoever touches     *)
(* them: a row runs at most once, ends at most once, stays as it ended     *)
(* until it is forgotten, and two rows of one key are never open at once.  *)
(* KitchenQueue implements it with a worker pool, web handlers and a       *)
(* process that dies; KitchenBatch is built on it.                         *)
(***************************************************************************)
CONSTANTS Item, Key, NoKey

VARIABLES status, key

ledgerVars == <<status, key>>

Open == {"queued", "running"}

Ended == {"completed", "failed", "cancelled", "interrupted"}

LedgerInit ==
    /\ status = [i \in Item |-> "absent"]
    /\ key = [i \in Item |-> NoKey]

Become(i, s) == status' = [status EXCEPT ![i] = s] /\ UNCHANGED key

\* A run is accepted unless one of its key is open (the partial unique indexes).
Submit(i, k) ==
    /\ status[i] = "absent"
    /\ \A j \in Item : key[j] = k => status[j] \notin Open
    /\ status' = [status EXCEPT ![i] = "queued"]
    /\ key' = [key EXCEPT ![i] = k]

\* A worker claims the row.
Begin(i) == status[i] = "queued" /\ Become(i, "running")

\* An open row is cancelled.
Withdraw(i) == status[i] \in Open /\ Become(i, "cancelled")

\* The execution's own result is recorded.
Finish(i, s) == status[i] = "running" /\ Become(i, s)

\* A restart ends every row that was running.
Recover ==
    /\ status' = [i \in Item |->
                    IF status[i] = "running" THEN "interrupted" ELSE status[i]]
    /\ UNCHANGED key

\* Ended rows are purged.
Forget(old) ==
    /\ \A i \in old : status[i] \in Ended
    /\ status' = [i \in Item |-> IF i \in old THEN "purged" ELSE status[i]]
    /\ key' = [i \in Item |-> IF i \in old THEN NoKey ELSE key[i]]

LedgerNext ==
    \/ \E i \in Item, k \in Key : Submit(i, k)
    \/ \E i \in Item : Begin(i) \/ Withdraw(i)
    \/ \E i \in Item, s \in {"completed", "failed"} : Finish(i, s)
    \/ Recover
    \/ \E old \in SUBSET Item : Forget(old)

LedgerSpec == LedgerInit /\ [][LedgerNext]_ledgerVars

=============================================================================
