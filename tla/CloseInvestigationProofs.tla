----------------------- MODULE CloseInvestigationProofs -----------------------
(***************************************************************************)
(* Theorems about CloseInvestigation, for any number of operators who run  *)
(* the command at once, of investigations, access points and tasks, and    *)
(* whatever investigation IDs are shared between clusters.                 *)
(*                                                                         *)
(* What the command of one operator relies on is the state of the tasks,   *)
(* which others change as well.  Onward says how far they can, and         *)
(* BystanderKeeps that this harms no command that stands still.            *)
(***************************************************************************)
EXTENDS CloseInvestigation, TLAPS

\* A task is placed on an access point of its own investigation.
HomeFits ==
  \A t \in Task : task[t] # "none" => home[t] \in AccessPoint /\ owner[home[t]] = target[t]

Ended(t) == task[t] \in {"stopping", "stopped"}

\* The access point found is of the investigation looked for.
ChosenFits(o) ==
  /\ pc[o] \in {"idle", "find"} => chosen[o] = None
  /\ chosen[o] # None => owner[chosen[o]] = inv[o]

\* The tasks listed, and those of them told to stop.
StopsItsOwn(o) ==
  /\ pc[o] \in {"idle", "find", "list"} => running[o] = {}
  /\ pc[o] = "stop" => force[o]
  /\ \A t \in running[o] : target[t] = inv[o] /\ (Ended(t) \/ DesiredRunning(t))
  /\ \A t \in stopped[o] : Ended(t)

\* The definitions listed are of names that begin with its own.
DefinitionsFit(o) ==
  /\ pc[o] \in {"idle", "find"} => defs[o] = {}
  /\ \A t \in defs[o] : target[t] \in Covers[inv[o]]

\* After the loop all of them are told, after the waiter they have ended, or it gave up.
AllToldToStop(o) ==
  pc[o] \in {"wait", "definitions", "deregister", "confirm", "delete"} => stopped[o] = running[o]

AllAwaited(o) ==
  pc[o] \in {"definitions", "deregister", "confirm", "delete"} =>
     \A t \in running[o] : task[t] = "stopped" \/ t \in unseen[o]

\* Whoever is to run was listed and is not told yet, or could not be known of.
NoneOverlooked(o) ==
  Looked(o) => \A t \in Task :
     target[t] = inv[o] /\ DesiredRunning(t) => t \in unseen[o] \/ t \in running[o] \ stopped[o]

OperatorInv(o) ==
  /\ ChosenFits(o) /\ StopsItsOwn(o) /\ DefinitionsFit(o)
  /\ AllToldToStop(o) /\ AllAwaited(o) /\ NoneOverlooked(o)

CloseInv == TypeOK /\ HomeFits /\ \A o \in Operator : OperatorInv(o)

LEMMA InitClose == Init => CloseInv
<1>. SUFFICES ASSUME Init PROVE CloseInv
  OBVIOUS
<1>1. WorkspaceType
  <2>1. clock \in 0..MaxClock /\ born \in [AccessPoint -> 0..MaxClock]
    BY ClockAssumption DEF Init, WorkspaceInit
  <2>2. ap \in [AccessPoint -> ApStates] /\ stamped \in SUBSET AccessPoint
    BY DEF Init, WorkspaceInit, ApStates
  <2>. QED BY <2>1, <2>2 DEF Init, WorkspaceInit, WorkspaceType, TaskStates
<1>2. TypeOK
  BY <1>1 DEF Init, TypeOK, Stages
<1>3. HomeFits
  BY DEF Init, WorkspaceInit, HomeFits
<1>4. ASSUME NEW o \in Operator PROVE OperatorInv(o)
  BY DEF Init, OperatorInv, ChosenFits, StopsItsOwn, DefinitionsFit, AllToldToStop, AllAwaited, NoneOverlooked,
         Looked
<1>. QED BY <1>2, <1>3, <1>4 DEF CloseInv

-----------------------------------------------------------------------------

\* A task never comes back, and one that is launched is unseen by all who have looked.
Onward ==
  /\ UNCHANGED <<owner, target>>
  /\ \A t \in Task :
       /\ Ended(t) => Ended(t)'
       /\ task[t] = "stopped" => task'[t] = "stopped"
       /\ DesiredRunning(t) => DesiredRunning(t)' \/ Ended(t)'
       /\ DesiredRunning(t)' => DesiredRunning(t) \/ \A o \in Operator : Looked(o) => t \in unseen'[o]

Stands(q) ==
  /\ pc'[q] = pc[q] /\ force'[q] = force[q] /\ inv'[q] = inv[q] /\ chosen'[q] = chosen[q]
  /\ running'[q] = running[q] /\ stopped'[q] = stopped[q] /\ defs'[q] = defs[q] /\ unseen[q] \subseteq unseen'[q]

LEMMA BystanderKeeps ==
  ASSUME TypeOK, Onward, NEW q \in Operator, OperatorInv(q), Stands(q)
  PROVE  OperatorInv(q)'
<1>0. running[q] \subseteq Task /\ stopped[q] \subseteq Task
  BY DEF TypeOK
<1>1. ChosenFits(q)'
  BY DEF OperatorInv, ChosenFits, Stands, Onward
<1>2. StopsItsOwn(q)' /\ DefinitionsFit(q)'
  BY <1>0 DEF OperatorInv, StopsItsOwn, DefinitionsFit, Stands, Onward
<1>3. AllToldToStop(q)' /\ AllAwaited(q)'
  BY <1>0 DEF OperatorInv, AllToldToStop, AllAwaited, Stands, Onward
<1>4. NoneOverlooked(q)'
  BY DEF OperatorInv, NoneOverlooked, Stands, Onward, Looked
<1>. QED BY <1>1, <1>2, <1>3, <1>4 DEF OperatorInv

\* The tasks stay as they are.
LEMMA StillOnward == ASSUME UNCHANGED <<fixedVars, task>> PROVE Onward
BY DEF Onward, Ended, DesiredRunning, fixedVars

\* Only the command of o goes on.
Alone(o) == \A q \in Operator \ {o} : Stands(q)

LEMMA AloneKeeps ==
  ASSUME CloseInv, NEW o \in Operator, Alone(o), Onward, TypeOK', HomeFits', OperatorInv(o)'
  PROVE  CloseInv'
<1>1. ASSUME NEW q \in Operator PROVE OperatorInv(q)'
  BY BystanderKeeps DEF CloseInv, Alone
<1>. QED BY <1>1 DEF CloseInv

\* The part of the type that is the command's.
CommandType ==
  /\ pc \in [Operator -> Stages]
  /\ force \in [Operator -> BOOLEAN]
  /\ inv \in [Operator -> Investigation \cup {None}]
  /\ id \in [Operator -> InvestigationId]
  /\ chosen \in [Operator -> AccessPoint \cup {None}]
  /\ running \in [Operator -> SUBSET Task]
  /\ stopped \in [Operator -> SUBSET Task]
  /\ defs \in [Operator -> SUBSET Task]
  /\ unseen \in [Operator -> SUBSET Task]

Founded(o) ==
  /\ stopped[o] \subseteq running[o]
  /\ pc[o] \notin {"idle", "find"} => inv[o] # None /\ chosen[o] # None

LEMMA TypeParts ==
  TypeOK <=> /\ WorkspaceType /\ tagged \in SUBSET Task
             /\ CommandType /\ \A o \in Operator : Founded(o)
BY DEF TypeOK, CommandType, Founded

LEMMA ReturnKeeps ==
  ASSUME CloseInv, NEW o \in Operator, Return(o), Onward, WorkspaceType', HomeFits', UNCHANGED tagged
  PROVE  CloseInv'
<1>1. CommandType /\ TypeOK
  BY TypeParts DEF CloseInv
<1>2. /\ CommandType' /\ pc'[o] = "idle" /\ chosen'[o] = None /\ running'[o] = {} /\ stopped'[o] = {}
      /\ defs'[o] = {}
  BY <1>1 DEF CommandType, Return, Goto, Stages
<1>3. Alone(o)
  BY <1>1 DEF Alone, Stands, CommandType, Return, Goto
<1>4. \A q \in Operator : Founded(q)'
  BY <1>1, <1>2, <1>3, TypeParts DEF Alone, Stands, Founded
<1>5. TypeOK'
  BY <1>1, <1>2, <1>4 DEF CloseInv, TypeOK, CommandType, Founded
<1>6. OperatorInv(o)'
  BY <1>2 DEF OperatorInv, ChosenFits, StopsItsOwn, DefinitionsFit, AllToldToStop, AllAwaited, NoneOverlooked, Looked
<1>. QED BY <1>3, <1>5, <1>6, AloneKeeps

\* A command that returns, or only looks.
LEMMA LookKeeps ==
  ASSUME CloseInv, NEW o \in Operator, UNCHANGED <<workspaceVars, tagged>>
  PROVE  /\ Onward /\ WorkspaceType' /\ HomeFits' /\ CommandType /\ TypeOK
         /\ Return(o) => CloseInv'
         /\ CommandType' /\ Alone(o) /\ Founded(o)' /\ OperatorInv(o)' => CloseInv'
<1>1. Onward
  BY StillOnward DEF workspaceVars, ecsVars
<1>2. WorkspaceType' /\ HomeFits' /\ TypeOK
  BY DEF CloseInv, TypeOK, WorkspaceType, HomeFits, workspaceVars, fixedVars, efsVars, ecsVars
<1>3. Return(o) => CloseInv'
  BY <1>1, <1>2, ReturnKeeps
<1>4. ASSUME CommandType', Alone(o), Founded(o)', OperatorInv(o)' PROVE CloseInv'
  <2>1. \A q \in Operator : Founded(q)'
    BY <1>2, <1>4, TypeParts DEF Alone, Stands, Founded
  <2>2. TypeOK'
    BY <1>2, <1>4, <2>1 DEF TypeOK, CommandType, Founded
  <2>. QED BY <1>1, <1>2, <1>4, <2>2, AloneKeeps
<1>. QED BY <1>1, <1>2, <1>3, <1>4, TypeParts

-----------------------------------------------------------------------------
(* Steps of the command. *)

LEMMA BeginKeeps == ASSUME CloseInv, NEW o \in Operator, Begin(o) PROVE CloseInv'
<1>0. UNCHANGED <<workspaceVars, tagged>> /\ CommandType /\ OperatorInv(o) /\ Founded(o)
  BY LookKeeps, TypeParts DEF Begin, CloseInv
<1>1. /\ pc' = [pc EXCEPT ![o] = "find"] /\ pc[o] = "idle"
      /\ UNCHANGED <<chosen, running, stopped, defs, unseen>>
  BY DEF Begin, Goto
<1>2. PICK v \in Investigation :
        /\ id' = [id EXCEPT ![o] = IdOf[v]]
        /\ inv' = [inv EXCEPT ![o] = v] \/ inv' = inv
  BY DEF Begin
<1>3. PICK f \in BOOLEAN : force' = [force EXCEPT ![o] = f]
  BY DEF Begin
<1>4. IdOf[v] \in InvestigationId
  BY IdAssumption
<1>5. CommandType'
  BY <1>0, <1>1, <1>2, <1>3, <1>4 DEF CommandType, Stages
<1>6. Alone(o)
  BY <1>0, <1>1, <1>2, <1>3 DEF Alone, Stands, CommandType
<1>7. pc'[o] = "find" /\ chosen'[o] = None /\ running'[o] = {} /\ stopped'[o] = {} /\ defs'[o] = {}
  BY <1>0, <1>1 DEF CommandType, OperatorInv, ChosenFits, StopsItsOwn, DefinitionsFit, Founded
<1>8. Founded(o)' /\ OperatorInv(o)'
  BY <1>7 DEF Founded, OperatorInv, ChosenFits, StopsItsOwn, DefinitionsFit, AllToldToStop, AllAwaited, NoneOverlooked, Looked
<1>. QED BY <1>0, <1>5, <1>6, <1>8, LookKeeps

LEMMA FindKeeps == ASSUME CloseInv, NEW o \in Operator, FindAccessPointByTags(o) PROVE CloseInv'
<1>0. UNCHANGED <<workspaceVars, tagged>> /\ CommandType /\ TypeOK /\ OperatorInv(o) /\ Founded(o)
  BY LookKeeps, TypeParts DEF FindAccessPointByTags, CloseInv
<1>1. CASE Return(o)
  BY <1>0, <1>1, LookKeeps
<1>2. ASSUME NEW a \in Matches(o), chosen' = [chosen EXCEPT ![o] = a],
             inv' = [inv EXCEPT ![o] = InvestigationOf(o, a)], Goto(o, "list"), pc[o] = "find",
             UNCHANGED <<force, id, running, stopped, defs, unseen>>
      PROVE  CloseInv'
  <2>1. a \in AccessPoint /\ owner[a] \in Investigation /\ owner'[a] = owner[a]
    BY <1>0 DEF Matches, TypeOK, WorkspaceType, workspaceVars, fixedVars
  <2>2. InvestigationOf(o, a) = owner[a]
    BY DEF InvestigationOf, Matches
  <2>3. /\ pc'[o] = "list" /\ chosen'[o] = a /\ inv'[o] = owner[a] /\ running'[o] = {}
        /\ stopped'[o] = {} /\ defs'[o] = {}
    BY <1>0, <1>2, <2>2 DEF CommandType, Goto, OperatorInv, StopsItsOwn, DefinitionsFit, Founded
  <2>4. CommandType' /\ Alone(o)
    BY <1>0, <1>2, <2>1, <2>2 DEF CommandType, Alone, Stands, Goto, Stages
  <2>6. Founded(o)'
    BY <2>1, <2>3, NoneAssumption, UnknownAssumption DEF Founded
  <2>7. OperatorInv(o)'
    BY <2>1, <2>3 DEF OperatorInv, ChosenFits, StopsItsOwn, DefinitionsFit, AllToldToStop, AllAwaited, NoneOverlooked, Looked
  <2>. QED BY <1>0, <2>4, <2>6, <2>7, LookKeeps
<1>. QED BY <1>1, <1>2 DEF FindAccessPointByTags

LEMMA ListKeeps == ASSUME CloseInv, NEW o \in Operator, ListTasksByInvestigation(o) PROVE CloseInv'
<1>0. UNCHANGED <<workspaceVars, tagged>> /\ CommandType /\ OperatorInv(o) /\ Founded(o)
  BY LookKeeps, TypeParts DEF ListTasksByInvestigation, CloseInv
<1>1. CASE Return(o)
  BY <1>0, <1>1, LookKeeps
<1>2. ASSUME pc[o] = "list", ~Refused(o),
             running' = [running EXCEPT ![o] = TasksByInvestigation(inv[o])],
             unseen' = [unseen EXCEPT ![o] = RunningTasks(inv[o]) \ tagged],
             Goto(o, IF running'[o] = {} THEN "definitions" ELSE "stop"),
             UNCHANGED <<force, inv, id, chosen, stopped, defs>>
      PROVE  CloseInv'
  <2>1. TasksByInvestigation(inv[o]) \in SUBSET Task /\ RunningTasks(inv[o]) \ tagged \in SUBSET Task
    BY DEF TasksByInvestigation, RunningTasks
  <2>2. /\ running'[o] = RunningTasks(inv[o]) \cap tagged
        /\ unseen'[o] = RunningTasks(inv[o]) \ tagged
        /\ pc'[o] = IF running'[o] = {} THEN "definitions" ELSE "stop"
        /\ pc'[o] = "stop" => force[o]
        /\ stopped[o] = {}
    BY <1>0, <1>2 DEF CommandType, Goto, OperatorInv, StopsItsOwn, Founded, TasksByInvestigation,
                      Refused
  <2>3. CommandType' /\ Alone(o)
    BY <1>0, <1>2, <2>1 DEF CommandType, Alone, Stands, Goto, Stages
  <2>4. Founded(o)' /\ ChosenFits(o)'
    BY <1>0, <1>2, <2>2 DEF Founded, OperatorInv, ChosenFits, workspaceVars, fixedVars
  <2>7. DefinitionsFit(o)'
    BY <1>0, <1>2, <2>2 DEF OperatorInv, DefinitionsFit, workspaceVars, fixedVars
  <2>5. StopsItsOwn(o)' /\ AllToldToStop(o)' /\ AllAwaited(o)'
    BY <1>0, <1>2, <2>2 DEF StopsItsOwn, AllToldToStop, AllAwaited, RunningTasks, DesiredRunning,
                            workspaceVars, fixedVars, ecsVars
  <2>6. NoneOverlooked(o)'
    BY <1>0, <1>2, <2>2 DEF NoneOverlooked, RunningTasks, DesiredRunning, workspaceVars, fixedVars,
                            ecsVars
  <2>. QED BY <1>0, <2>3, <2>4, <2>5, <2>6, <2>7, LookKeeps DEF OperatorInv
<1>. QED BY <1>1, <1>2 DEF ListTasksByInvestigation

\* ecs.stop_task, whoever calls it.
LEMMA StopIsOnward ==
  ASSUME CloseInv, NEW t \in Task, StopTaskEffect(t),
         UNCHANGED <<clock, fixedVars, efsVars, home, td, written, saved>>
  PROVE  Onward /\ WorkspaceType' /\ HomeFits' /\ (Ended(t) \/ DesiredRunning(t) => Ended(t)')
<1>1. WorkspaceType /\ HomeFits /\ task \in [Task -> TaskStates]
  BY DEF CloseInv, TypeOK, WorkspaceType
<1>2. PICK s \in TaskStates :
        /\ task' = [task EXCEPT ![t] = s]
        /\ \/ DesiredRunning(t) /\ s \in {"stopping", "stopped"}
           \/ ~DesiredRunning(t) /\ s = task[t]
  BY <1>1 DEF StopTaskEffect, DesiredRunning, TaskStates
<1>3. Onward
  BY <1>1, <1>2 DEF Onward, Ended, DesiredRunning, fixedVars
<1>4. WorkspaceType'
  BY <1>1, <1>2 DEF WorkspaceType, fixedVars, efsVars
<1>5. HomeFits'
  BY <1>1, <1>2 DEF HomeFits, DesiredRunning, fixedVars
<1>. QED BY <1>1, <1>2, <1>3, <1>4, <1>5 DEF Ended, DesiredRunning

LEMMA StopKeeps == ASSUME CloseInv, NEW o \in Operator, StopTask(o) PROVE CloseInv'
<1>0. /\ CommandType /\ TypeOK /\ OperatorInv(o) /\ Founded(o) /\ pc[o] = "stop"
      /\ UNCHANGED <<clock, fixedVars, efsVars, home, td, written, saved, tagged>>
  BY TypeParts DEF StopTask, CloseInv
<1>1. PICK t \in running[o] \ stopped[o] :
        \/ /\ StopTaskEffect(t)
           /\ stopped' = [stopped EXCEPT ![o] = @ \cup {t}]
           /\ Goto(o, IF stopped'[o] = running[o] THEN "wait" ELSE "stop")
           /\ UNCHANGED <<force, inv, id, chosen, running, defs, unseen>>
        \/ /\ StopTaskEffect(t) \/ UNCHANGED task
           /\ Return(o)
  BY DEF StopTask
<1>2. t \in Task
  BY <1>0, <1>1 DEF CommandType
<1>3. CASE UNCHANGED task /\ Return(o)
  <2>1. UNCHANGED workspaceVars
    BY <1>0, <1>3 DEF workspaceVars, ecsVars
  <2>. QED BY <1>0, <1>3, <2>1, LookKeeps
<1>4. CASE StopTaskEffect(t) /\ Return(o)
  BY <1>0, <1>2, <1>4, StopIsOnward, ReturnKeeps
<1>5. CASE /\ StopTaskEffect(t)
           /\ stopped' = [stopped EXCEPT ![o] = @ \cup {t}]
           /\ Goto(o, IF stopped'[o] = running[o] THEN "wait" ELSE "stop")
           /\ UNCHANGED <<force, inv, id, chosen, running, defs, unseen>>
  <2>1. Onward /\ WorkspaceType' /\ HomeFits' /\ (Ended(t) \/ DesiredRunning(t) => Ended(t)')
    BY <1>0, <1>2, <1>5, StopIsOnward
  <2>2. CommandType' /\ Alone(o)
    BY <1>0, <1>2, <1>5 DEF CommandType, Alone, Stands, Goto, Stages
  <2>3. /\ stopped'[o] = stopped[o] \cup {t} /\ running[o] \subseteq Task /\ stopped[o] \subseteq Task
        /\ pc'[o] = IF stopped'[o] = running[o] THEN "wait" ELSE "stop"
    BY <1>0, <1>5 DEF CommandType, Goto
  <2>4. \A q \in Operator : Founded(q)'
    <3>1. Founded(o)'
      BY <1>0, <1>1, <1>5, <2>3 DEF Founded
    <3>. QED BY <1>0, <2>2, <3>1 DEF TypeOK, Founded, Alone, Stands
  <2>5. TypeOK'
    BY <1>0, <2>1, <2>2, <2>4 DEF TypeOK, CommandType, Founded
  <2>6. ChosenFits(o)' /\ DefinitionsFit(o)' /\ AllToldToStop(o)' /\ AllAwaited(o)'
    BY <1>0, <1>5, <2>3 DEF OperatorInv, ChosenFits, DefinitionsFit, AllToldToStop, AllAwaited, fixedVars
  <2>7. Ended(t)' /\ \A u \in running[o] : Ended(u) \/ DesiredRunning(u) => (Ended(u) \/ DesiredRunning(u))'
    BY <1>0, <1>1, <2>1, <2>3 DEF OperatorInv, StopsItsOwn, Onward
  <2>8. StopsItsOwn(o)'
    BY <1>0, <1>5, <2>1, <2>3, <2>7 DEF OperatorInv, StopsItsOwn, Onward
  <2>9. NoneOverlooked(o)'
    <3>. SUFFICES ASSUME NEW u \in Task, target[u] = inv[o], DesiredRunning(u)'
                  PROVE  u \in unseen[o] \/ u \in running[o] \ stopped'[o]
      BY <1>5, <2>1 DEF NoneOverlooked, Onward
    <3>1. u # t
      BY <2>7 DEF Ended, DesiredRunning
    <3>2. DesiredRunning(u) \/ u \in unseen[o]
      BY <1>0, <1>5, <2>1 DEF Onward, Looked
    <3>3. DesiredRunning(u) => u \in unseen[o] \/ u \in running[o] \ stopped[o]
      BY <1>0 DEF OperatorInv, NoneOverlooked, Looked
    <3>. QED BY <2>3, <3>1, <3>2, <3>3
  <2>. QED BY <2>1, <2>2, <2>5, <2>6, <2>8, <2>9, AloneKeeps DEF OperatorInv
<1>. QED BY <1>1, <1>3, <1>4, <1>5

\* What remains of the invariant of o when nothing but its stage and unseen move on.
LEMMA WaitKeeps == ASSUME CloseInv, NEW o \in Operator, WaitForStopped(o) PROVE CloseInv'
<1>0. /\ UNCHANGED <<workspaceVars, tagged>> /\ CommandType /\ OperatorInv(o) /\ Founded(o)
      /\ pc[o] = "wait" /\ UNCHANGED <<force, inv, id, chosen, running, stopped, defs>>
      /\ pc' = [pc EXCEPT ![o] = "definitions"]
  BY LookKeeps, TypeParts DEF WaitForStopped, CloseInv, Goto
<1>1. PICK gaveUp \in SUBSET running[o] :
        /\ \A t \in running[o] \ gaveUp : task[t] = "stopped"
        /\ unseen' = [unseen EXCEPT ![o] = @ \cup gaveUp]
  BY DEF WaitForStopped
<1>2. CommandType' /\ Alone(o) /\ unseen'[o] = unseen[o] \cup gaveUp /\ pc'[o] = "definitions"
  BY <1>0, <1>1 DEF CommandType, Alone, Stands, Stages
<1>3. Founded(o)' /\ ChosenFits(o)' /\ DefinitionsFit(o)' /\ AllToldToStop(o)'
  BY <1>0, <1>2 DEF Founded, OperatorInv, ChosenFits, DefinitionsFit, AllToldToStop, workspaceVars, fixedVars
<1>4. StopsItsOwn(o)' /\ AllAwaited(o)'
  BY <1>0, <1>1, <1>2 DEF OperatorInv, StopsItsOwn, AllAwaited, Ended, DesiredRunning,
                          workspaceVars, fixedVars, ecsVars
<1>5. NoneOverlooked(o)'
  BY <1>0, <1>2 DEF OperatorInv, NoneOverlooked, Looked, DesiredRunning, workspaceVars, fixedVars,
                    ecsVars
<1>. QED BY <1>0, <1>2, <1>3, <1>4, <1>5, LookKeeps DEF OperatorInv

\* The tasks stay as they are, and of the command only the stage and defs change.
LEMMA LaterKeeps ==
  ASSUME CloseInv, NEW o \in Operator, NEW s \in {"deregister", "confirm", "delete"},
         pc[o] \in {"definitions", "deregister", "confirm"},
         pc' = [pc EXCEPT ![o] = s], defs' \in [Operator -> SUBSET Task],
         UNCHANGED <<clock, fixedVars, efsVars, task, home, written, saved, tagged,
                     force, inv, id, chosen, running, stopped, unseen>>,
         \A t \in defs'[o] : target[t] \in Covers[inv[o]],
         \A q \in Operator \ {o} : defs'[q] = defs[q],
         td' \in [Task -> {"none", "active", "inactive"}]
  PROVE  CloseInv'
<1>0. CommandType /\ TypeOK /\ OperatorInv(o) /\ HomeFits /\ Onward
  BY TypeParts, StillOnward DEF CloseInv
<1>1. CommandType' /\ Alone(o) /\ pc'[o] = s
  BY <1>0 DEF CommandType, Alone, Stands, Stages
<1>2. WorkspaceType'
  BY <1>0 DEF TypeOK, WorkspaceType, fixedVars, efsVars
<1>3. TypeOK'
  <2>1. \A q \in Operator : Founded(q)'
    BY <1>0, <1>1 DEF TypeOK, Founded, Alone, Stands
  <2>. QED BY <1>0, <1>1, <1>2, <2>1 DEF TypeOK, CommandType, Founded
<1>4. HomeFits'
  BY <1>0 DEF HomeFits, fixedVars
<1>5. OperatorInv(o)'
  BY <1>0, <1>1 DEF OperatorInv, ChosenFits, StopsItsOwn, DefinitionsFit, AllToldToStop, AllAwaited,
                    NoneOverlooked, Looked, Ended, DesiredRunning, fixedVars
<1>. QED BY <1>0, <1>1, <1>3, <1>4, <1>5, AloneKeeps

LEMMA DefinitionsKeep ==
  ASSUME CloseInv, NEW o \in Operator, ListTaskDefinitionsByFamily(o) \/ DeregisterTaskDefinitions(o)
  PROVE  CloseInv'
<1>0. /\ CommandType /\ td \in [Task -> {"none", "active", "inactive"}]
      /\ \A t \in defs[o] : target[t] \in Covers[inv[o]]
  BY TypeParts DEF CloseInv, TypeOK, WorkspaceType, OperatorInv, DefinitionsFit
<1>1. CASE ListTaskDefinitionsByFamily(o)
  <2>0. UNCHANGED <<workspaceVars, tagged>> /\ pc[o] = "definitions"
    BY <1>1 DEF ListTaskDefinitionsByFamily
  <2>1. CASE Return(o)
    BY <2>0, <2>1, LookKeeps
  <2>2. CASE ~Return(o)
    <3>1. /\ pc' = [pc EXCEPT ![o] = "deregister"]
          /\ defs' = [defs EXCEPT ![o] = DefinitionsOfFamily(inv[o])]
          /\ UNCHANGED <<force, inv, id, chosen, running, stopped, unseen>>
      BY <1>1, <2>2 DEF ListTaskDefinitionsByFamily, Goto
    <3>2. /\ defs' \in [Operator -> SUBSET Task]
          /\ \A t \in defs'[o] : target[t] \in Covers[inv[o]]
          /\ \A q \in Operator \ {o} : defs'[q] = defs[q]
      BY <1>0, <3>1 DEF CommandType, DefinitionsOfFamily
    <3>. QED BY <1>0, <2>0, <3>1, <3>2, LaterKeeps DEF workspaceVars, ecsVars
  <2>. QED BY <2>1, <2>2
<1>2. CASE DeregisterTaskDefinitions(o)
  <2>1. /\ pc[o] = "deregister" /\ pc' = [pc EXCEPT ![o] = "confirm"]
        /\ UNCHANGED <<clock, fixedVars, efsVars, task, home, written, saved, tagged,
                       force, inv, id, chosen, running, stopped, defs, unseen>>
    BY <1>2 DEF DeregisterTaskDefinitions, Goto
  <2>2. td' \in [Task -> {"none", "active", "inactive"}]
    BY <1>0, <1>2 DEF DeregisterTaskDefinitions
  <2>. QED BY <1>0, <2>1, <2>2, LaterKeeps DEF CommandType
<1>. QED BY <1>1, <1>2

LEMMA ConfirmKeeps == ASSUME CloseInv, NEW o \in Operator, Confirm(o) PROVE CloseInv'
<1>0. /\ CommandType /\ td \in [Task -> {"none", "active", "inactive"}]
      /\ \A t \in defs[o] : target[t] \in Covers[inv[o]]
      /\ UNCHANGED <<workspaceVars, tagged>> /\ pc[o] = "confirm"
  BY TypeParts DEF CloseInv, TypeOK, WorkspaceType, OperatorInv, DefinitionsFit, Confirm
<1>1. CASE Return(o)
  BY <1>0, <1>1, LookKeeps
<1>2. CASE ~Return(o)
  <2>1. /\ pc' = [pc EXCEPT ![o] = "delete"]
        /\ UNCHANGED <<force, inv, id, chosen, running, stopped, defs, unseen>>
    BY <1>2 DEF Confirm, Goto
  <2>. QED BY <1>0, <2>1, LaterKeeps DEF CommandType, workspaceVars, ecsVars
<1>. QED BY <1>1, <1>2

LEMMA DeleteKeeps == ASSUME CloseInv, NEW o \in Operator, DeleteAccessPoint(o) PROVE CloseInv'
<1>0. /\ TypeOK /\ HomeFits /\ Return(o) /\ Onward
      /\ UNCHANGED <<clock, fixedVars, born, stamped, dir, files, ecsVars, written, saved, tagged>>
  BY StillOnward DEF CloseInv, DeleteAccessPoint, ecsVars
<1>1. ap' \in [AccessPoint -> ApStates]
  BY <1>0 DEF DeleteAccessPoint, TypeOK, WorkspaceType, ApStates
<1>2. WorkspaceType'
  BY <1>0, <1>1 DEF TypeOK, WorkspaceType, fixedVars, ecsVars
<1>3. HomeFits'
  BY <1>0 DEF HomeFits, fixedVars, ecsVars
<1>. QED BY <1>0, <1>2, <1>3, ReturnKeeps

-----------------------------------------------------------------------------
(* Steps of the tasks. *)

\* The commands stand still, but for what they cannot have seen.
LEMMA EnvironmentKeeps ==
  ASSUME CloseInv, Onward, WorkspaceType', HomeFits', tagged' \in SUBSET Task,
         UNCHANGED <<pc, force, inv, id, chosen, running, stopped, defs>>,
         unseen' \in [Operator -> SUBSET Task], \A q \in Operator : unseen[q] \subseteq unseen'[q]
  PROVE  CloseInv'
<1>1. TypeOK'
  BY DEF CloseInv, TypeOK
<1>2. ASSUME NEW q \in Operator PROVE OperatorInv(q)'
  BY BystanderKeeps DEF CloseInv, Stands
<1>. QED BY <1>1, <1>2 DEF CloseInv

LEMMA TasksKeep == CloseInv /\ Environment => CloseInv'
<1>. SUFFICES ASSUME CloseInv, Environment PROVE CloseInv'
  OBVIOUS
<1>0. /\ TypeOK /\ WorkspaceType /\ HomeFits /\ tagged \in SUBSET Task
      /\ unseen \in [Operator -> SUBSET Task] /\ task \in [Task -> TaskStates]
      /\ home \in [Task -> AccessPoint \cup {None}]
  BY DEF CloseInv, TypeOK, WorkspaceType
<1>1. ASSUME NEW t \in Task, Place(t), UNCHANGED <<commandVars, tagged>> PROVE CloseInv'
  <2>1. PICK a \in AccessPoint :
          /\ owner[a] = target[t]
          /\ \/ ap[a] = "available" /\ UNCHANGED <<ap, born, stamped>>
             \/ /\ ap[a] = "none"
                /\ ap' = [ap EXCEPT ![a] = "available"]
                /\ born' = [born EXCEPT ![a] = clock]
                /\ stamped' = stamped \cup {a}
          /\ home' = [home EXCEPT ![t] = a]
    BY <1>1 DEF Place
  <2>2. /\ task[t] = "none" /\ task' = [task EXCEPT ![t] = "placed"]
        /\ td' = [td EXCEPT ![t] = "active"]
        /\ UNCHANGED <<clock, fixedVars, dir, files, written, saved>>
    BY <1>1 DEF Place
  <2>3. /\ ap' \in [AccessPoint -> ApStates] /\ born' \in [AccessPoint -> 0..MaxClock]
        /\ stamped' \in SUBSET AccessPoint /\ home' \in [Task -> AccessPoint \cup {None}]
    BY <1>0, <2>1 DEF WorkspaceType, ApStates
  <2>4. WorkspaceType'
    BY <1>0, <2>2, <2>3 DEF WorkspaceType, TaskStates, fixedVars
  <2>5. Onward
    BY <1>0, <2>2 DEF Onward, Ended, DesiredRunning, fixedVars
  <2>6. HomeFits'
    BY <1>0, <2>1, <2>2 DEF HomeFits, fixedVars
  <2>. QED BY <1>0, <1>1, <2>4, <2>5, <2>6, EnvironmentKeeps DEF commandVars
<1>2. ASSUME NEW t \in Task, TaskStarts(t), UNCHANGED <<commandVars, tagged>> PROVE CloseInv'
  <2>1. /\ task[t] = "starting"
        /\ \/ task' = [task EXCEPT ![t] = "running"] \/ task' = [task EXCEPT ![t] = "stopped"]
        /\ dir' = dir \cup {target[t]} \/ dir' = dir
        /\ UNCHANGED <<clock, fixedVars, ap, born, stamped, files, home, td, written, saved>>
    BY <1>2 DEF TaskStarts
  <2>2. WorkspaceType'
    BY <1>0, <2>1 DEF WorkspaceType, TaskStates, fixedVars
  <2>3. Onward
    BY <1>0, <2>1 DEF Onward, Ended, DesiredRunning, fixedVars
  <2>4. HomeFits'
    BY <1>0, <2>1 DEF HomeFits, fixedVars
  <2>. QED BY <1>0, <1>2, <2>2, <2>3, <2>4, EnvironmentKeeps DEF commandVars
<1>3. ASSUME NEW t \in Task, WriteFile(t), UNCHANGED <<commandVars, tagged>> PROVE CloseInv'
  <2>1. /\ files' = [files EXCEPT ![target[t]] = @ \cup {t}] /\ written' = written \cup {t}
        /\ UNCHANGED <<clock, fixedVars, ap, born, stamped, dir, ecsVars, saved>>
    BY <1>3 DEF WriteFile
  <2>2. WorkspaceType'
    BY <1>0, <2>1 DEF WorkspaceType, fixedVars, ecsVars
  <2>3. Onward
    BY <2>1, StillOnward DEF ecsVars
  <2>4. HomeFits'
    BY <1>0, <2>1 DEF HomeFits, fixedVars, ecsVars
  <2>. QED BY <1>0, <1>3, <2>2, <2>3, <2>4, EnvironmentKeeps DEF commandVars
<1>4. ASSUME NEW t \in Task, TaskToldToStop(t), UNCHANGED <<commandVars, tagged>> PROVE CloseInv'
  <2>1. Onward /\ WorkspaceType' /\ HomeFits'
    BY <1>4, StopIsOnward DEF TaskToldToStop
  <2>. QED BY <1>0, <1>4, <2>1, EnvironmentKeeps DEF commandVars
<1>5. ASSUME NEW t \in Task, TaskStops(t), UNCHANGED <<commandVars, tagged>> PROVE CloseInv'
  <2>1. /\ task[t] = "stopping" /\ task' = [task EXCEPT ![t] = "stopped"]
        /\ UNCHANGED <<clock, fixedVars, efsVars, home, td, written, saved>>
    BY <1>5 DEF TaskStops
  <2>2. WorkspaceType'
    BY <1>0, <2>1 DEF WorkspaceType, TaskStates, fixedVars, efsVars
  <2>3. Onward
    BY <1>0, <2>1 DEF Onward, Ended, DesiredRunning, fixedVars
  <2>4. HomeFits'
    BY <1>0, <2>1 DEF HomeFits, fixedVars
  <2>. QED BY <1>0, <1>5, <2>2, <2>3, <2>4, EnvironmentKeeps DEF commandVars
<1>6. ASSUME NEW t \in Task, Launch(t), tagged' = tagged \cup {t} \/ tagged' = tagged,
             unseen' = [o \in Operator |-> IF Looked(o) THEN unseen[o] \cup {t} ELSE unseen[o]],
             UNCHANGED <<pc, force, inv, id, chosen, running, stopped, defs>>
      PROVE  CloseInv'
  <2>1. /\ task[t] = "placed"
        /\ task' = [task EXCEPT ![t] = "starting"] \/ task' = [task EXCEPT ![t] = "stopped"]
        /\ UNCHANGED <<clock, fixedVars, efsVars, home, td, written, saved>>
    BY <1>6 DEF Launch
  <2>2. WorkspaceType'
    BY <1>0, <2>1 DEF WorkspaceType, TaskStates, fixedVars, efsVars
  <2>3. unseen' \in [Operator -> SUBSET Task] /\ \A q \in Operator : unseen[q] \subseteq unseen'[q]
    BY <1>0, <1>6
  <2>4. \A o \in Operator : Looked(o) => t \in unseen'[o]
    BY <1>6
  <2>5. Onward
    BY <1>0, <2>1, <2>4 DEF Onward, Ended, DesiredRunning, fixedVars
  <2>6. HomeFits'
    BY <1>0, <2>1 DEF HomeFits, fixedVars
  <2>. QED BY <1>0, <1>6, <2>2, <2>3, <2>5, <2>6, EnvironmentKeeps
<1>7. ASSUME NEW t \in Task, tagged' = tagged \cup {t}, UNCHANGED <<workspaceVars, commandVars>>
      PROVE  CloseInv'
  <2>1. WorkspaceType' /\ HomeFits' /\ Onward
    BY <1>0, <1>7, StillOnward
       DEF WorkspaceType, HomeFits, workspaceVars, fixedVars, efsVars, ecsVars
  <2>. QED BY <1>0, <1>7, <2>1, EnvironmentKeeps DEF commandVars
<1>. QED BY <1>1, <1>2, <1>3, <1>4, <1>5, <1>6, <1>7 DEF Environment

LEMMA CloseInduction == CloseInv /\ [Next]_vars => CloseInv'
<1>. SUFFICES ASSUME CloseInv, [Next]_vars PROVE CloseInv'
  OBVIOUS
<1>1. ASSUME NEW o \in Operator, Close(o) PROVE CloseInv'
  BY <1>1, BeginKeeps, FindKeeps, ListKeeps, StopKeeps, WaitKeeps, DefinitionsKeep, ConfirmKeeps,
     DeleteKeeps DEF Close
<1>2. CASE UNCHANGED vars
  <2>1. UNCHANGED <<workspaceVars, commandVars, tagged>>
    BY <1>2 DEF vars
  <2>2. WorkspaceType' /\ HomeFits' /\ Onward
    BY <2>1, StillOnward
       DEF CloseInv, TypeOK, WorkspaceType, HomeFits, workspaceVars, fixedVars, efsVars, ecsVars
  <2>. QED BY <2>1, <2>2, EnvironmentKeeps DEF CloseInv, TypeOK, commandVars
<1>. QED BY <1>1, <1>2, TasksKeep DEF Next

\* The invariant of the commands, over all their stages (close_investigation.go as a whole).
THEOREM CloseInvariant == Spec => []CloseInv
<1>. QED BY InitClose, CloseInduction, PTL DEF Spec

\* No task loses its access point to a command that could have known of it, for any number of
\* operators at once (close_investigation.go 98-124 before 165).
THEOREM TasksAreSpared == Spec => CloseSparesTasks
<1>1. ASSUME CloseInv, [Next]_vars, NEW o \in Operator, NEW t \in Task,
             pc[o] = "delete", home[t] = chosen[o],
             DesiredRunning(t) \/ (t \in running[o] /\ task[t] = "stopping")
      PROVE  t \in unseen[o]
  <2>1. OperatorInv(o) /\ HomeFits /\ chosen[o] # None
    BY <1>1 DEF CloseInv, TypeOK
  <2>2. target[t] = inv[o]
    BY <1>1, <2>1 DEF OperatorInv, ChosenFits, HomeFits, DesiredRunning
  <2>3. CASE DesiredRunning(t)
    BY <1>1, <2>1, <2>2, <2>3 DEF OperatorInv, NoneOverlooked, AllToldToStop, Looked
  <2>4. CASE t \in running[o] /\ task[t] = "stopping"
    BY <1>1, <2>1, <2>4 DEF OperatorInv, AllAwaited
  <2>. QED BY <1>1, <2>3, <2>4
<1>2. CloseInv /\ [Next]_vars =>
        [\A o \in Operator, t \in Task :
           /\ pc[o] = "delete" /\ home[t] = chosen[o]
           /\ ap[chosen[o]] = "available" /\ ap'[chosen[o]] = "deleted"
           /\ DesiredRunning(t) \/ (t \in running[o] /\ task[t] = "stopping")
         => t \in unseen[o]]_vars
  BY <1>1
<1>. QED BY <1>2, CloseInvariant, PTL DEF Spec, CloseSparesTasks

\* What a command takes away.  Only StopTask and DeregisterTaskDefinitions do.
LEMMA StopsInside ==
  ASSUME CloseInv, Next, NEW o \in Operator
  PROVE  /\ \A t \in stopped'[o] \ stopped[o] : force[o] /\ target[t] = owner[chosen[o]]
         /\ chosen[o] # None => owner[chosen[o]] = inv[o]
<1>0. CommandType /\ OperatorInv(o) /\ Founded(o)
  BY TypeParts DEF CloseInv
<1>1. chosen[o] # None => owner[chosen[o]] = inv[o]
  BY <1>0 DEF OperatorInv, ChosenFits
<1>2. stopped'[o] \subseteq stopped[o] \/ StopTask(o)
  <2>1. ASSUME NEW q \in Operator, Close(q), q # o PROVE stopped'[o] = stopped[o]
    BY <1>0, <2>1 DEF CommandType, Close, Begin, FindAccessPointByTags, ListTasksByInvestigation,
         StopTask, WaitForStopped, ListTaskDefinitionsByFamily, DeregisterTaskDefinitions, Confirm,
         DeleteAccessPoint, Return
  <2>2. CASE Close(o) /\ ~StopTask(o)
    BY <1>0, <2>2 DEF CommandType, Close, Begin, FindAccessPointByTags, ListTasksByInvestigation,
         WaitForStopped, ListTaskDefinitionsByFamily, DeregisterTaskDefinitions, Confirm,
         DeleteAccessPoint, Return
  <2>3. CASE Environment
    BY <2>3 DEF Environment, commandVars
  <2>. QED BY <2>1, <2>2, <2>3 DEF Next, Close
<1>3. ASSUME StopTask(o), NEW t \in stopped'[o] \ stopped[o]
      PROVE  force[o] /\ target[t] = owner[chosen[o]]
  <2>1. pc[o] = "stop" /\ t \in running[o]
    BY <1>0, <1>3 DEF CommandType, StopTask, Return
  <2>. QED BY <1>0, <1>1, <2>1 DEF OperatorInv, StopsItsOwn, Founded
<1>. QED BY <1>1, <1>2, <1>3

LEMMA DeregistersInside ==
  ASSUME CloseInv, Next, NEW t \in Task, td[t] = "active", td'[t] = "inactive"
  PROVE  \E o \in Operator : pc[o] = "deregister" /\ target[t] \in Covers[owner[chosen[o]]]
<1>1. ASSUME NEW o \in Operator, DeregisterTaskDefinitions(o)
      PROVE  pc[o] = "deregister" /\ target[t] \in Covers[owner[chosen[o]]]
  <2>1. OperatorInv(o) /\ Founded(o) /\ pc[o] = "deregister"
    BY <1>1, TypeParts DEF CloseInv, DeregisterTaskDefinitions
  <2>2. t \in defs[o]
    BY <1>1 DEF DeregisterTaskDefinitions
  <2>3. owner[chosen[o]] = inv[o]
    BY <2>1 DEF OperatorInv, ChosenFits, Founded
  <2>. QED BY <2>1, <2>2, <2>3 DEF OperatorInv, DefinitionsFit
<1>2. ASSUME NEW o \in Operator, Close(o), ~DeregisterTaskDefinitions(o) PROVE td' = td
  BY <1>2 DEF Close, Begin, FindAccessPointByTags, ListTasksByInvestigation, StopTask,
       WaitForStopped, ListTaskDefinitionsByFamily, Confirm, DeleteAccessPoint, workspaceVars, ecsVars
<1>3. CASE Environment
  <2>1. td \in [Task -> {"none", "active", "inactive"}]
    BY DEF CloseInv, TypeOK, WorkspaceType
  <2>. QED BY <1>3, <2>1 DEF Environment, Place, Launch, TaskStarts, WriteFile, TaskToldToStop,
              TaskStops, workspaceVars, ecsVars
<1>. QED BY <1>1, <1>2, <1>3 DEF Next

\* A command stays inside the investigation it was asked for, although its ID may be in use for
\* other clusters, except that it may deregister the definitions of longer names
\* (close_investigation.go 75-150, ecs.go 251-292, efs.go 43-102).
THEOREM CommandStaysInside == Spec => CloseStaysInside
<1>1. CloseInv /\ [Next]_vars =>
        [/\ \A o \in Operator :
              /\ \A t \in stopped'[o] \ stopped[o] : force[o] /\ target[t] = owner[chosen[o]]
              /\ chosen[o] # None => owner[chosen[o]] = inv[o]
         /\ \A t \in Task :
              td[t] = "active" /\ td'[t] = "inactive" =>
                \E o \in Operator : pc[o] = "deregister" /\ target[t] \in Covers[owner[chosen[o]]]]_vars
  BY StopsInside, DeregistersInside
<1>. QED BY <1>1, CloseInvariant, PTL DEF Spec, CloseStaysInside
=============================================================================
