------------------------------ MODULE MCLogin -------------------------------
(***************************************************************************)
(* Two processes, perhaps of two configurations.  The commands are those   *)
(* that differ in how they authenticate.                                   *)
(***************************************************************************)
EXTENDS Login

CONSTANTS p1, p2, i1, i2

Line(cmd, flag, device) == [cmd |-> cmd, flag |-> flag, device |-> device]

SharedLines ==
  {Line("start-task", FALSE, FALSE), Line("configure", FALSE, TRUE), Line("other", FALSE, FALSE)}

\* The two issuers are interchangeable: p1 is configured for i1, p2 for either.
MCInit == Init /\ issuer[p1] = i1

MCSpec == MCInit /\ [][Next]_vars /\ Fairness

\* Bound: p1 runs start-task, with its two roles, and p2 another command beside it.
OneStartTask ==
  /\ proc[p1].line # None => proc[p1].line.cmd = "start-task"
  /\ proc[p2].line # None => proc[p2].line.cmd # "start-task"

=============================================================================
