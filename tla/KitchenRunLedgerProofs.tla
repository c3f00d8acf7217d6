------------------------ MODULE KitchenRunLedgerProofs ------------------------
(***************************************************************************)
(* What follows from the ledger alone, hence for every component whose     *)
(* rows keep to it: KitchenQueue and KitchenBatch.                         *)
(***************************************************************************)
EXTENDS KitchenRunLedger, Integers, TLAPS

Statuses == {"absent", "purged"} \cup Open \cup Ended

LedgerTyped ==
    /\ status \in [Item -> Statuses]
    /\ key \in [Item -> Key \cup {NoKey}]

LEMMA TypeBegins == LedgerInit => LedgerTyped
  BY DEF LedgerInit, LedgerTyped, Statuses

LEMMA TypeKept == LedgerTyped /\ [LedgerNext]_ledgerVars => LedgerTyped'
  BY DEF LedgerTyped, Statuses, Open, Ended, LedgerNext, ledgerVars, Submit, Begin, Withdraw,
     Finish, Recover, Forget, Become

THEOREM LedgerTypeCorrect == LedgerSpec => []LedgerTyped
  BY TypeBegins, TypeKept, PTL DEF LedgerSpec

-----------------------------------------------------------------------------
(* Keys *)

OneOpenPerKey ==
    \A i, j \in Item :
        status[i] \in Open /\ status[j] \in Open /\ key[i] = key[j] => i = j

LEMMA OneOpenKept ==
  ASSUME LedgerTyped, OneOpenPerKey, [LedgerNext]_ledgerVars
  PROVE  OneOpenPerKey'
  <1> USE DEF LedgerTyped, OneOpenPerKey, Open, Ended
  <1>1. ASSUME NEW i \in Item, NEW k \in Key, Submit(i, k)
        PROVE  OneOpenPerKey'
    BY <1>1 DEF Submit
  <1>2. ASSUME NEW i \in Item, Begin(i) \/ Withdraw(i)
        PROVE  OneOpenPerKey'
    BY <1>2 DEF Begin, Withdraw, Become
  <1>3. ASSUME NEW i \in Item, NEW s \in {"completed", "failed"}, Finish(i, s)
        PROVE  OneOpenPerKey'
    BY <1>3 DEF Finish, Become
  <1>4. CASE Recover
    BY <1>4 DEF Recover
  <1>5. ASSUME NEW old \in SUBSET Item, Forget(old)
        PROVE  OneOpenPerKey'
    BY <1>5 DEF Forget
  <1>6. CASE UNCHANGED ledgerVars
    BY <1>6 DEF ledgerVars
  <1> QED
    BY <1>1, <1>2, <1>3, <1>4, <1>5, <1>6 DEF LedgerNext

\* The condition Submit checks when a row is made is enough for good: whatever
\* opens, ends and is purged in between, two rows of one key are never open at
\* once.
THEOREM LedgerOneOpen == LedgerSpec => []OneOpenPerKey
  <1>1. LedgerInit => OneOpenPerKey
    BY DEF LedgerInit, OneOpenPerKey, Open
  <1> QED
    BY <1>1, OneOpenKept, LedgerTypeCorrect, PTL DEF LedgerSpec

-----------------------------------------------------------------------------
(* The life of a row *)

Rank(s) == CASE s = "absent"  -> 0
             [] s = "queued"  -> 1
             [] s = "running" -> 2
             [] s \in Ended   -> 3
             [] s = "purged"  -> 4

\* A row changes its status to one further on, and its key when it is made and
\* when it is purged.
RowsAdvance ==
    \A i \in Item :
        /\ status'[i] = status[i] \/ Rank(status[i]) < Rank(status'[i])
        /\ key'[i] = key[i] \/ status[i] = "absent" \/ status'[i] = "purged"

LEMMA Ranks ==
  /\ Rank("absent") = 0
  /\ Rank("queued") = 1
  /\ Rank("running") = 2
  /\ \A s \in Ended : Rank(s) = 3
  /\ Rank("purged") = 4
  BY DEF Rank, Ended

LEMMA AdvanceStep ==
  ASSUME LedgerTyped, LedgerNext
  PROVE  RowsAdvance
  <1> USE Ranks DEF LedgerTyped, RowsAdvance
  <1>1. ASSUME NEW i \in Item, NEW k \in Key, Submit(i, k)
        PROVE  RowsAdvance
    BY <1>1 DEF Submit
  <1>2. ASSUME NEW i \in Item, Begin(i)
        PROVE  RowsAdvance
    BY <1>2 DEF Begin, Become
  <1>3. ASSUME NEW i \in Item, Withdraw(i)
        PROVE  RowsAdvance
    BY <1>3 DEF Withdraw, Become, Open, Ended
  <1>4. ASSUME NEW i \in Item, NEW s \in {"completed", "failed"}, Finish(i, s)
        PROVE  RowsAdvance
    BY <1>4 DEF Finish, Become, Ended
  <1>5. CASE Recover
    BY <1>5 DEF Recover, Ended
  <1>6. ASSUME NEW old \in SUBSET Item, Forget(old)
        PROVE  RowsAdvance
    BY <1>6 DEF Forget
  <1> QED
    BY <1>1, <1>2, <1>3, <1>4, <1>5, <1>6 DEF LedgerNext

\* Since the rank of a row grows with each change, a row is made once, begins at
\* most once, ends at most once and is never brought back.
THEOREM LedgerAdvances == LedgerSpec => [][RowsAdvance]_ledgerVars
  <1>1. LedgerTyped /\ [LedgerNext]_ledgerVars => [RowsAdvance]_ledgerVars
    BY AdvanceStep
  <1> QED
    BY <1>1, LedgerTypeCorrect, PTL DEF LedgerSpec

=============================================================================
