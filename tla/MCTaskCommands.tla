---------------------------- MODULE MCTaskCommands ---------------------------
(***************************************************************************)
(* Two processes and two tasks.  The processes are interchangeable: no     *)
(* command line names one.                                                 *)
(***************************************************************************)
EXTENDS TaskCommands, FiniteSets, TLC

CONSTANTS p1, p2, t1, t2

Base(cmd, t) ==
  [cmd |-> cmd, task |-> t, ocm |-> FALSE, connect |-> FALSE, noWait |-> FALSE, device |-> FALSE]

AllLines ==
  {[Base("start-task", None) EXCEPT !.ocm = TRUE, !.connect = TRUE, !.device = TRUE],
   [Base("start-task", None) EXCEPT !.noWait = TRUE],
   Base("create-investigation", None),
   Base("join-task", t1), Base("stop-task", t1), Base("configure", t1), Base("clear", t1)}

TransferLines == {Base("configure", t1)}

-----------------------------------------------------------------------------
(* Bounds of the run with all the command lines. *)

Runs(p, cmds) == proc[p].line # None /\ proc[p].line.cmd \in cmds
Starts(p, ocm) == Runs(p, {"start-task"}) /\ proc[p].line.ocm = ocm

Transfers(p) == proc[p].task # None /\ Credentials(proc[p].line)

\* start-task with credentials runs beside clear, the other start-task beside its like; what the
\* transfers of configure and clear do to each other needs no start-task.
Apart ==
  \A p, q \in Process : p # q =>
    /\ Starts(p, TRUE) => ~Runs(q, {"start-task", "configure"})
    /\ Starts(p, FALSE) => ~Runs(q, {"configure", "clear"})

\* Two invocations of the Lambda are at work at once.  They overlap, outlive their command and lose
\* their answers for a start-task without credentials; the other has one at a time, and its answer.
FewCalls ==
  /\ Cardinality(UNION {{<<p, found>> : found \in proc[p].calls} : p \in Process}) <= 2
  /\ \A p \in Process : Starts(p, TRUE) =>
       /\ Cardinality(proc[p].calls) <= (IF proc[p].pc = "lambda" THEN 1 ELSE 0)
       /\ proc[p].lost = {}

\* Two commands with credentials are for the same task, and an agent is up where a command is.
SameTask ==
  /\ \A p, q \in Process :
       Transfers(p) /\ Transfers(q) => proc[p].task = proc[q].task
  /\ \A t \in agent : \E p \in Process : proc[p].task = t

Symmetry == Permutations(Process)

=============================================================================
