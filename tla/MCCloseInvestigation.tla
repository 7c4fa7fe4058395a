------------------------ MODULE MCCloseInvestigation ------------------------
(* Small instances of CloseInvestigation for TLC. *)
EXTENDS CloseInvestigation, TLC

Symmetry == Permutations(AccessPoint) \cup Permutations(Task)

\* One investigation ID, used for every cluster
SameId == [v \in Investigation |-> "inv"]

\* The family name of one is the beginning of that of the others: clusters c and c-inv-d
NameInName ==
  LET short == CHOOSE v \in Investigation : TRUE
  IN [v \in Investigation |-> IF v = short THEN Investigation ELSE {v}]
=============================================================================
