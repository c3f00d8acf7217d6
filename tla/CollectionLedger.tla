-------------------------- MODULE CollectionLedger --------------------------
(***************************************************************************)
(* What the table of collection runs promises about its one row per        *)
(* organisation, whoever touches it: a collection takes the row, nobody    *)
(* takes it from it, and the collection ends it once or not at all.  A row *)
(* that has ended changes for three reasons only - a new collection, the   *)
(* deletion of its organisation, an interrupted collection given up.  Rows *)
(* are repaired at a start of the process, when nobody collects.           *)
(*                                                                         *)
(* CollectionRuns implements it with four ways to start a run, goroutines, *)
(* statements that fail, contexts that end and a process that dies.        *)
(***************************************************************************)
CONSTANT Organisation

VARIABLES
    status,   \* per organisation: the status of its row, "none" without a row
    owned     \* the organisations whose row a collection has yet to end

ledgerVars == <<status, owned>>

LedgerInit ==
    /\ status = [o \in Organisation |-> "none"]
    /\ owned = {}

\* A collection takes the row, whatever the last one left in it.
Begin(o) ==
    /\ o \notin owned
    /\ status' = [status EXCEPT ![o] = "running"]
    /\ owned' = owned \cup {o}

\* It ends the row, which still says running ...
Finish(o, s) ==
    /\ o \in owned
    /\ status[o] = "running"
    /\ status' = [status EXCEPT ![o] = s]
    /\ owned' = owned \ {o}

\* ... or leaves it as it is: it failed to write, the row is gone, the process died.
Release(lapsed) ==
    /\ owned' = owned \ lapsed
    /\ UNCHANGED status

\* Organisations are deleted, their rows with them, though they be collected.
Remove(gone) ==
    /\ status' = [o \in Organisation |-> IF o \in gone THEN "none" ELSE status[o]]
    /\ UNCHANGED owned

\* A start repairs rows, perhaps not all.
Recover(missed) ==
    /\ owned = {}
    /\ status' = [o \in Organisation |->
                    IF status[o] = "running" /\ o \notin missed THEN "interrupted" ELSE status[o]]
    /\ UNCHANGED owned

\* An interrupted collection is not worth resuming, or is begun anew.
GiveUp(o) ==
    /\ status[o] = "interrupted"
    /\ status' = [status EXCEPT ![o] = "failed"]
    /\ UNCHANGED owned

LedgerNext ==
    \/ \E o \in Organisation : Begin(o) \/ GiveUp(o)
    \/ \E o \in Organisation, s \in {"completed", "failed", "interrupted"} : Finish(o, s)
    \/ \E some \in SUBSET Organisation : Release(some) \/ Remove(some) \/ Recover(some)

LedgerSpec == LedgerInit /\ [][LedgerNext]_ledgerVars

=============================================================================
