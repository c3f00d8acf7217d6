-------------------------- MODULE MCCollectionRuns --------------------------
(* Instances of CollectionRuns for TLC. *)
EXTENDS CollectionRuns, TLC

CONSTANTS o1, o2

\* The organisations are deleted and added again.
ComeAndGo == {{o1, o2}, {}}

\* In every list they stand together.
OrgSymmetry == Permutations(Org)

Unchanging == {{o1, o2}}

=============================================================================
