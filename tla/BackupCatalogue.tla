-------------------------- MODULE BackupCatalogue ---------------------------
(***************************************************************************)
(* What the catalogue of backups promises to whoever lists it, restores    *)
(* from it or prunes it.  A backup is made once, by the only job there is, *)
(* and offered when its dump is whole and not before.  It is withdrawn     *)
(* dump first and manifest last, never while it is being made, and for     *)
(* good: no failure, crash, retry or race of two deletions takes an offer  *)
(* back in another way, or brings one back.                                *)
(*                                                                         *)
(* BackupRestore implements it with files that are written in place, a     *)
(* scheduler, handlers and restores.                                       *)
(***************************************************************************)
CONSTANTS Backup, None

VARIABLES
    made,       \* the backups ever begun
    making,     \* the backup that is being made, or None
    restoring,  \* the backup that a restore works on, or None
    whole,      \* the backups whose dump is complete
    offered,    \* the backups that are listed as succeeded
    torn        \* the backups withdrawn half way

jobs == <<making, restoring>>
catalogueVars == <<made, jobs, whole, offered, torn>>

CatalogueInit ==
    /\ made = {} /\ whole = {} /\ offered = {} /\ torn = {}
    /\ making = None /\ restoring = None

NoJob == making = None /\ restoring = None

\* A new backup is begun.
Begin(b) ==
    /\ NoJob /\ b \notin made
    /\ made' = made \cup {b}
    /\ making' = b
    /\ UNCHANGED <<restoring, whole, offered, torn>>

\* Its dump is complete ...
Complete(b) ==
    /\ making = b
    /\ whole' = whole \cup {b}
    /\ UNCHANGED <<made, jobs, offered, torn>>

\* ... and only then it is offered.
Offer(b) ==
    /\ making = b /\ b \in whole
    /\ offered' = offered \cup {b}
    /\ UNCHANGED <<made, jobs, whole, torn>>

\* A restore takes up a backup.
Claim(b) ==
    /\ NoJob /\ b \in made
    /\ restoring' = b
    /\ UNCHANGED <<made, making, whole, offered, torn>>

\* The job ends, or dies with the process.
EndJob ==
    /\ making' = None /\ restoring' = None
    /\ UNCHANGED <<made, whole, offered, torn>>

\* The dump goes first; a restore that has it open may be under way ...
Withdraw(b) ==
    /\ b \in made /\ making # b
    /\ whole' = whole \ {b}
    /\ torn' = torn \cup {b}
    /\ UNCHANGED <<made, jobs, offered>>

\* ... and the manifest goes last.
Remove(b) ==
    /\ b \in made /\ b \notin whole /\ making # b
    /\ offered' = offered \ {b}
    /\ torn' = torn \ {b}
    /\ UNCHANGED <<made, jobs, whole>>

CatalogueNext ==
    \/ \E b \in Backup : \/ Begin(b) \/ Complete(b) \/ Offer(b) \/ Claim(b)
                         \/ Withdraw(b) \/ Remove(b)
    \/ EndJob

CatalogueSpec == CatalogueInit /\ [][CatalogueNext]_catalogueVars

=============================================================================
