----------------------- MODULE MCCreateInvestigation -----------------------
(* Small instances of CreateInvestigation for TLC. *)
EXTENDS CreateInvestigation, TLC

Symmetry == Permutations(Invocation)

\* Some requests have been served: their tasks run in the workspace that the first of them
\* created.  Spec reaches this state when they overlap, so nothing is assumed; starting
\* there saves the search for it.
ServedInit(Served, first) ==
  LET ifServed(x, y) == [i \in Invocation |-> IF i \in Served THEN x ELSE y]
  IN /\ request \in [Invocation -> [inv : Investigation, skip : BOOLEAN]]
     /\ \A i \in Served : request[i] = [inv |-> request[first].inv, skip |-> FALSE]
     /\ pc = ifServed("ok", "idle")
     /\ found = [i \in Invocation |-> IF i \in Served \ {first} THEN first ELSE None]
     /\ home = ifServed(first, None)
     /\ ap = [i \in Invocation |-> IF i = first THEN "available" ELSE "none"]
     /\ task = ifServed("running", "none")
     /\ td = ifServed("active", "none")
     /\ listed = [i \in Invocation |-> {}]
     /\ checked = [i \in Invocation |-> {}]
     /\ waitFor = [i \in Invocation |-> {}]
     /\ failed = [i \in Invocation |-> {}]
     /\ rollbacks = [i \in Invocation |-> 0]
     /\ excused = [i \in Invocation |-> FALSE]
     /\ sessions = {}
     /\ openedAfter = [i \in Invocation |-> {}]

\* Bound: at most two requests are still to come.
ConcurrentSpec ==
  /\ \E Served \in SUBSET Invocation :
       /\ Cardinality(Invocation \ Served) \in {1, 2}
       /\ \E first \in Served : ServedInit(Served, first)
  /\ [][Next]_vars

\* Nothing fails at all: what is left is the ordinary life of an investigation.
NothingFails ==
  \A i \in Invocation : pc[i] \notin {"error", "killed", "conflict"} /\ ~request[i].skip
=============================================================================
