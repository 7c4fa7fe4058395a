--------------------- MODULE CreateInvestigationProofs ---------------------
(***************************************************************************)
(* Theorems about CreateInvestigation, for any sets of invocations and     *)
(* investigations.  The argument:                                          *)
(*   - types, with RollbackBudget: a rollback never runs out of rounds;    *)
(*   - PreflightFirst: what an invocation knows of the handover at each    *)
(*     stage; LaunchOnce: its own task does not exist before run_task.     *)
(*     From them a stopped task stays stopped, so a complete handover      *)
(*     stays complete;                                                     *)
(*   - PassedWithoutSession: a session on a task that passed the preflight *)
(*     began after it passed;                                              *)
(*   - RollbackInv: what an invocation has made and undone at each stage;  *)
(*     with requests that do not overlap also OneAtATime and WorkspaceInv. *)
(***************************************************************************)
EXTENDS CreateInvestigation, FiniteSetTheorems, TLAPS

\* A rollback has a round left: EndOfRound never takes the counter below zero.
RollbackBudget ==
  \A i \in Invocation : pc[i] \in {"deregister", "stopOwn", "deleteAP"} => rollbacks[i] \in 1..2

\* Setting the history flag, always or on a condition, leaves it a flag.
LEMMA FlagSet ==
  ASSUME NEW i \in Invocation, NEW P, RollbackType,
         \/ UNCHANGED excused
         \/ excused' = [excused EXCEPT ![i] = @ \/ P]
  PROVE  excused' \in [Invocation -> BOOLEAN]
<1>1. (excused[i] \/ P) \in BOOLEAN
  OBVIOUS
<1>. QED BY <1>1 DEF RollbackType

\* A round of the rollback that was in the budget leaves the counter a counter.
LEMMA RoundEnds ==
  ASSUME NEW i \in Invocation, RollbackType, rollbacks[i] \in 1..2, EndOfRound(i)
  PROVE  rollbacks' \in [Invocation -> 0..2]
<1>1. rollbacks[i] - 1 \in 0..2
  OBVIOUS
<1>. QED BY <1>1 DEF RollbackType, EndOfRound

-----------------------------------------------------------------------------
(* Types. *)

\* The initial state is typed and no rollback has begun.
LEMMA TypeInit == Init => TypeOK /\ RollbackBudget
<1> SUFFICES ASSUME Init PROVE TypeOK /\ RollbackBudget
  OBVIOUS
<1>1. HandoverType /\ RollbackType
  BY DEF Init, HandoverType, RollbackType
<1>2. LambdaType
  BY DEF Init, LambdaType, Stages
<1>3. AwsType
  BY DEF Init, AwsType, Workspaces, Statuses, Definitions
<1>4. RollbackBudget
  BY DEF Init, RollbackBudget
<1>. QED BY <1>1, <1>2, <1>3, <1>4 DEF TypeOK

\* Every step, action by action, keeps the types.
LEMMA TypeStep == TypeOK /\ RollbackBudget /\ [Next]_vars => TypeOK'
<1> SUFFICES ASSUME HandoverType, LambdaType, RollbackType, AwsType, RollbackBudget
           PROVE  [Next]_vars => TypeOK'
  BY DEF TypeOK
<1>1. ASSUME NEW i \in Invocation, Begin(i) PROVE TypeOK'
  <2>1. HandoverType'
    BY <1>1 DEF Begin, handoverVars, HandoverType
  <2>2. LambdaType'
    BY <1>1 DEF Begin, Goto, Stages, Calls, Responses, LambdaType
  <2>3. RollbackType'
    BY <1>1 DEF Begin, rollbackVars, RollbackType
  <2>4. AwsType'
    BY <1>1 DEF Begin, awsVars, AwsType,
              Workspaces, Statuses, Definitions
  <2>. QED BY <2>1, <2>2, <2>3, <2>4 DEF TypeOK
<1>2. ASSUME NEW i \in Invocation, FindExistingAccessPoint(i) PROVE TypeOK'
  <2>1. HandoverType'
    BY <1>2 DEF FindExistingAccessPoint, handoverVars, HandoverType
  <2>2. LambdaType'
    BY <1>2 DEF FindExistingAccessPoint, AvailableFor, Goto, Stages, Calls, Responses, LambdaType
  <2>3. RollbackType'
    BY <1>2 DEF FindExistingAccessPoint, AvailableFor, rollbackVars, RollbackType
  <2>4. AwsType'
    BY <1>2 DEF FindExistingAccessPoint, awsVars, AwsType,
              Workspaces, Statuses, Definitions
  <2>. QED BY <2>1, <2>2, <2>3, <2>4 DEF TypeOK
<1>3. ASSUME NEW i \in Invocation, FindRunningTasks(i) PROVE TypeOK'
  <2>1. HandoverType'
    BY <1>3 DEF FindRunningTasks, handoverVars, TasksOf, HandoverType
  <2>2. LambdaType'
    BY <1>3 DEF FindRunningTasks, Goto, Stages, Calls, Responses, LambdaType
  <2>3. RollbackType'
    BY <1>3 DEF FindRunningTasks, rollbackVars, RollbackType
  <2>4. AwsType'
    BY <1>3 DEF FindRunningTasks, awsVars, AwsType,
              Workspaces, Statuses, Definitions
  <2>. QED BY <2>1, <2>2, <2>3, <2>4 DEF TypeOK
<1>4. ASSUME NEW i \in Invocation, PreflightSessionCheck(i) PROVE TypeOK'
  <2>1. PICK t \in Invocation :
           \/ /\ checked' = [checked EXCEPT ![i] = @ \cup {t}]
              /\ Goto(i, IF listed[i] = checked[i] \cup {t} THEN "stopTasks" ELSE "preflight")
           \/ Goto(i, "conflict") /\ UNCHANGED checked
           \/ Goto(i, "error") /\ UNCHANGED checked
    BY <1>4 DEF PreflightSessionCheck, HandoverType
  <2>2. HandoverType'
    BY <1>4, <2>1 DEF PreflightSessionCheck, HandoverType
  <2>3. LambdaType'
    BY <1>4, <2>1 DEF PreflightSessionCheck, LambdaType, Goto, Stages, Calls, Responses
  <2>4. RollbackType' /\ AwsType'
    BY <1>4 DEF PreflightSessionCheck, rollbackVars, awsVars, RollbackType, AwsType
  <2>. QED BY <2>2, <2>3, <2>4 DEF TypeOK
<1>5. ASSUME NEW i \in Invocation, StopExistingTask(i) PROVE TypeOK'
  <2>1. PICK t \in Invocation :
           \/ waitFor' = [waitFor EXCEPT ![i] = @ \cup {t}] /\ UNCHANGED failed
           \/ failed' = [failed EXCEPT ![i] = @ \cup {t}] /\ UNCHANGED waitFor
    BY <1>5 DEF StopExistingTask, HandoverType
  <2>2. HandoverType'
    BY <1>5, <2>1 DEF StopExistingTask, HandoverType
  <2>3. LambdaType'
    BY <1>5 DEF StopExistingTask, LambdaType, Goto, Stages, Calls, Responses
  <2>4. RollbackType'
    BY <1>5 DEF StopExistingTask, rollbackVars, RollbackType
  <2>5. AwsType'
    BY <1>5 DEF StopExistingTask, StopTaskEffect, HandoverType, AwsType, Statuses
  <2>. QED BY <2>2, <2>3, <2>4, <2>5 DEF TypeOK
<1>6. ASSUME NEW i \in Invocation, WaitForTermination(i) PROVE TypeOK'
  <2>1. HandoverType'
    BY <1>6 DEF WaitForTermination, handoverVars, HandoverType
  <2>2. LambdaType'
    BY <1>6 DEF WaitForTermination, Goto, Stages, Calls, Responses, LambdaType
  <2>3. RollbackType'
    BY <1>6 DEF WaitForTermination, rollbackVars, RollbackType
  <2>4. AwsType'
    BY <1>6 DEF WaitForTermination, awsVars, AwsType,
              Workspaces, Statuses, Definitions
  <2>. QED BY <2>1, <2>2, <2>3, <2>4 DEF TypeOK
<1>7. ASSUME NEW i \in Invocation, EnsureAccessPoint(i) PROVE TypeOK'
  <2>1. HandoverType'
    BY <1>7 DEF EnsureAccessPoint, handoverVars, HandoverType
  <2>2. LambdaType'
    BY <1>7 DEF EnsureAccessPoint, Goto, Stages, Calls, Responses, LambdaType
  <2>3. RollbackType'
    BY <1>7 DEF EnsureAccessPoint, rollbackVars, RollbackType
  <2>4. AwsType'
    BY <1>7 DEF EnsureAccessPoint, awsVars, AwsType,
              Workspaces, Statuses, Definitions
  <2>. QED BY <2>1, <2>2, <2>3, <2>4 DEF TypeOK
<1>8. ASSUME NEW i \in Invocation, GetCallerIdentityFails(i) PROVE TypeOK'
  <2>1. HandoverType'
    BY <1>8 DEF GetCallerIdentityFails, handoverVars, HandoverType
  <2>2. LambdaType'
    BY <1>8 DEF GetCallerIdentityFails, ApNewlyCreated, Goto, Stages, Calls, Responses, LambdaType
  <2>3. RollbackType'
    BY <1>8 DEF GetCallerIdentityFails, ApNewlyCreated, rollbackVars, RollbackType
  <2>4. AwsType'
    BY <1>8 DEF GetCallerIdentityFails, awsVars, AwsType,
              Workspaces, Statuses, Definitions
  <2>. QED BY <2>1, <2>2, <2>3, <2>4 DEF TypeOK
<1>9. ASSUME NEW i \in Invocation, RegisterTaskDefinition(i) PROVE TypeOK'
  <2>1. HandoverType'
    BY <1>9 DEF RegisterTaskDefinition, handoverVars, HandoverType
  <2>2. LambdaType'
    BY <1>9 DEF RegisterTaskDefinition, ApNewlyCreated, Goto, Stages, Calls, Responses, LambdaType
  <2>3. RollbackType'
    <3>1. rollbacks' \in [Invocation -> 0..2]
      BY <1>9 DEF RegisterTaskDefinition, rollbackVars, RollbackType
    <3>2. excused' \in [Invocation -> BOOLEAN]
      BY <1>9 DEF RegisterTaskDefinition, rollbackVars, RollbackType
    <3>. QED BY <3>1, <3>2 DEF RollbackType
  <2>4. AwsType'
    BY <1>9 DEF RegisterTaskDefinition, awsVars, AwsType,
              Workspaces, Statuses, Definitions
  <2>. QED BY <2>1, <2>2, <2>3, <2>4 DEF TypeOK
<1>10. ASSUME NEW i \in Invocation, RunTask(i) PROVE TypeOK'
  <2>1. HandoverType'
    BY <1>10 DEF RunTask, handoverVars, HandoverType
  <2>2. LambdaType'
    BY <1>10 DEF RunTask, Goto, Stages, Calls, Responses, LambdaType
  <2>3. RollbackType'
    <3>1. rollbacks' \in [Invocation -> 0..2]
      BY <1>10 DEF RunTask, rollbackVars, RollbackType
    <3>2. excused' \in [Invocation -> BOOLEAN]
      BY <1>10 DEF RunTask, rollbackVars, RollbackType
    <3>. QED BY <3>1, <3>2 DEF RollbackType
  <2>4. AwsType'
    BY <1>10 DEF RunTask, awsVars, AwsType,
              Workspaces, Statuses, Definitions
  <2>. QED BY <2>1, <2>2, <2>3, <2>4 DEF TypeOK
<1>11. ASSUME NEW i \in Invocation, TagTask(i) PROVE TypeOK'
  <2>1. HandoverType'
    BY <1>11 DEF TagTask, handoverVars, HandoverType
  <2>2. LambdaType'
    BY <1>11 DEF TagTask, Goto, Stages, Calls, Responses, LambdaType
  <2>3. RollbackType'
    <3>1. rollbacks' \in [Invocation -> 0..2]
      BY <1>11 DEF TagTask, rollbackVars, RollbackType
    <3>2. excused' \in [Invocation -> BOOLEAN]
      BY <1>11 DEF TagTask, rollbackVars, RollbackType
    <3>. QED BY <3>1, <3>2 DEF RollbackType
  <2>4. AwsType'
    BY <1>11 DEF TagTask, awsVars, AwsType,
              Workspaces, Statuses, Definitions
  <2>. QED BY <2>1, <2>2, <2>3, <2>4 DEF TypeOK
<1>12. ASSUME NEW i \in Invocation, DeregisterTaskDefinition(i) PROVE TypeOK'
  <2>1. HandoverType'
    BY <1>12 DEF DeregisterTaskDefinition, handoverVars, HandoverType
  <2>2. LambdaType'
    BY <1>12 DEF DeregisterTaskDefinition, Goto, Stages, Calls, Responses, LambdaType
  <2>3. RollbackType'
    BY <1>12 DEF DeregisterTaskDefinition, rollbackVars, RollbackType
  <2>4. AwsType'
    BY <1>12 DEF DeregisterTaskDefinition, awsVars, AwsType,
              Workspaces, Statuses, Definitions
  <2>. QED BY <2>1, <2>2, <2>3, <2>4 DEF TypeOK
<1>13. ASSUME NEW i \in Invocation, StopOwnTask(i) PROVE TypeOK'
  <2>1. HandoverType'
    BY <1>13 DEF StopOwnTask, handoverVars, HandoverType
  <2>2. LambdaType'
    BY <1>13 DEF StopOwnTask, EndOfRound, Goto, Stages, Calls, Responses, LambdaType
  <2>3. RollbackType'
    <3>1. rollbacks' \in [Invocation -> 0..2]
      <4>1. rollbacks[i] \in 1..2 /\ (UNCHANGED rollbacks \/ EndOfRound(i))
        BY <1>13 DEF StopOwnTask, RollbackBudget
      <4>. QED BY <4>1, RoundEnds DEF RollbackType
    <3>2. excused' \in [Invocation -> BOOLEAN]
      <4>1. \/ UNCHANGED excused
            \/ excused' = [excused EXCEPT ![i] = @ \/ DesiredRunning(i)]
        BY <1>13 DEF StopOwnTask
      <4>. QED BY <4>1, FlagSet
    <3>. QED BY <3>1, <3>2 DEF RollbackType
  <2>4. AwsType'
    BY <1>13 DEF StopOwnTask, StopTaskEffect, awsVars, AwsType,
              Workspaces, Statuses, Definitions
  <2>. QED BY <2>1, <2>2, <2>3, <2>4 DEF TypeOK
<1>14. ASSUME NEW i \in Invocation, DeleteNewAccessPoint(i) PROVE TypeOK'
  <2>1. HandoverType'
    BY <1>14 DEF DeleteNewAccessPoint, handoverVars, HandoverType
  <2>2. LambdaType'
    BY <1>14 DEF DeleteNewAccessPoint, EndOfRound, Goto, Stages, Calls, Responses, LambdaType
  <2>3. RollbackType'
    <3>1. rollbacks' \in [Invocation -> 0..2]
      BY <1>14, RoundEnds DEF DeleteNewAccessPoint, RollbackBudget
    <3>2. excused' \in [Invocation -> BOOLEAN]
      <4>1. \/ UNCHANGED excused
            \/ excused' = [excused EXCEPT ![i] = @ \/ ap[home[i]] # "deleted"]
        BY <1>14 DEF DeleteNewAccessPoint
      <4>. QED BY <4>1, FlagSet
    <3>. QED BY <3>1, <3>2 DEF RollbackType
  <2>4. AwsType'
    BY <1>14 DEF DeleteNewAccessPoint, awsVars, AwsType,
              Workspaces, Statuses, Definitions
  <2>. QED BY <2>1, <2>2, <2>3, <2>4 DEF TypeOK
<1>15. ASSUME NEW i \in Invocation, LambdaTimesOut(i) PROVE TypeOK'
  <2>1. HandoverType'
    BY <1>15 DEF LambdaTimesOut, handoverVars, HandoverType
  <2>2. LambdaType'
    BY <1>15 DEF LambdaTimesOut, Goto, Stages, Calls, Responses, LambdaType
  <2>3. RollbackType'
    BY <1>15 DEF LambdaTimesOut, rollbackVars, RollbackType
  <2>4. AwsType'
    BY <1>15 DEF LambdaTimesOut, awsVars, AwsType,
              Workspaces, Statuses, Definitions
  <2>. QED BY <2>1, <2>2, <2>3, <2>4 DEF TypeOK
<1>16. ASSUME NEW r \in Invocation, AccessPointReady(r) PROVE TypeOK'
  <2>1. HandoverType' /\ LambdaType' /\ RollbackType'
    BY <1>16 DEF AccessPointReady, lambdaVars, handoverVars, rollbackVars,
              HandoverType, LambdaType, RollbackType
  <2>2. AwsType'
    BY <1>16 DEF AccessPointReady, AwsType, Workspaces, Statuses
  <2>. QED BY <2>1, <2>2 DEF TypeOK
<1>17. ASSUME NEW r \in Invocation, TaskStarts(r) PROVE TypeOK'
  <2>1. HandoverType' /\ LambdaType' /\ RollbackType'
    BY <1>17 DEF TaskStarts, lambdaVars, handoverVars, rollbackVars,
              HandoverType, LambdaType, RollbackType
  <2>2. AwsType'
    BY <1>17 DEF TaskStarts, AwsType, Workspaces, Statuses
  <2>. QED BY <2>1, <2>2 DEF TypeOK
<1>18. ASSUME NEW r \in Invocation, TaskToldToStop(r) PROVE TypeOK'
  <2>1. HandoverType' /\ LambdaType' /\ RollbackType'
    BY <1>18 DEF TaskToldToStop, lambdaVars, handoverVars, rollbackVars,
              HandoverType, LambdaType, RollbackType
  <2>2. AwsType'
    BY <1>18 DEF TaskToldToStop, StopTaskEffect, AwsType, Workspaces, Statuses
  <2>. QED BY <2>1, <2>2 DEF TypeOK
<1>19. ASSUME NEW r \in Invocation, TaskStops(r) PROVE TypeOK'
  <2>1. HandoverType' /\ LambdaType' /\ RollbackType'
    BY <1>19 DEF TaskStops, lambdaVars, handoverVars, rollbackVars,
              HandoverType, LambdaType, RollbackType
  <2>2. AwsType'
    BY <1>19 DEF TaskStops, AwsType, Workspaces, Statuses
  <2>. QED BY <2>1, <2>2 DEF TypeOK
<1>20. ASSUME NEW r \in Invocation, OpenSession(r) PROVE TypeOK'
  <2>1. HandoverType' /\ LambdaType' /\ RollbackType'
    BY <1>20 DEF OpenSession, lambdaVars, handoverVars, rollbackVars,
              HandoverType, LambdaType, RollbackType
  <2>2. AwsType'
    BY <1>20 DEF OpenSession, AwsType, Workspaces, Statuses
  <2>. QED BY <2>1, <2>2 DEF TypeOK
<1>21. ASSUME NEW r \in Invocation, CloseSession(r) PROVE TypeOK'
  <2>1. HandoverType' /\ LambdaType' /\ RollbackType'
    BY <1>21 DEF CloseSession, lambdaVars, handoverVars, rollbackVars,
              HandoverType, LambdaType, RollbackType
  <2>2. AwsType'
    BY <1>21 DEF CloseSession, AwsType, Workspaces, Statuses
  <2>. QED BY <2>1, <2>2 DEF TypeOK
<1>22. CASE UNCHANGED vars
  BY <1>22 DEF vars, lambdaVars, handoverVars, rollbackVars, awsVars,
               TypeOK, HandoverType, LambdaType, RollbackType, AwsType
<1>. QED
  BY <1>1, <1>2, <1>3, <1>4, <1>5, <1>6, <1>7, <1>8, <1>9, <1>10, <1>11, <1>12, <1>13, <1>14,
     <1>15, <1>16, <1>17, <1>18, <1>19, <1>20, <1>21, <1>22
     DEF Next, Invoke, Environment

\* Only a failure starts a rollback, with a round or two; the last call of a round goes on
\* to another one only while one is left.
LEMMA BudgetStep == TypeOK /\ RollbackBudget /\ [Next]_vars => RollbackBudget'
<1> SUFFICES ASSUME pc \in [Invocation -> Stages], rollbacks \in [Invocation -> 0..2],
                    RollbackBudget, [Next]_vars
           PROVE  RollbackBudget'
  BY DEF TypeOK, LambdaType, RollbackType
<1>1. ASSUME NEW i \in Invocation,
             \/ Begin(i) \/ FindExistingAccessPoint(i) \/ FindRunningTasks(i)
             \/ PreflightSessionCheck(i) \/ StopExistingTask(i) \/ WaitForTermination(i)
             \/ EnsureAccessPoint(i) \/ GetCallerIdentityFails(i) \/ LambdaTimesOut(i)
      PROVE  RollbackBudget'
  <2>1. UNCHANGED rollbacks
    BY <1>1 DEF Begin, FindExistingAccessPoint, FindRunningTasks, PreflightSessionCheck,
       StopExistingTask, WaitForTermination, EnsureAccessPoint, GetCallerIdentityFails,
       LambdaTimesOut, rollbackVars
  <2>2. PICK s : Goto(i, s) /\ s \notin {"deregister", "stopOwn", "deleteAP"}
    BY <1>1 DEF Begin, FindExistingAccessPoint, FindRunningTasks, PreflightSessionCheck,
       StopExistingTask, WaitForTermination, EnsureAccessPoint, GetCallerIdentityFails,
       LambdaTimesOut
  <2>. QED BY <2>1, <2>2 DEF Goto, RollbackBudget
<1>2. ASSUME NEW i \in Invocation, RegisterTaskDefinition(i) \/ RunTask(i) \/ TagTask(i)
      PROVE  RollbackBudget'
  <2>1. \/ \E s : Goto(i, s) /\ s \notin {"deregister", "stopOwn", "deleteAP"} /\ UNCHANGED rollbacks
        \/ \E s : Goto(i, s) /\ rollbacks' = [rollbacks EXCEPT ![i] = 1]
        \/ \E s : Goto(i, s) /\ rollbacks' = [rollbacks EXCEPT ![i] = 2]
    BY <1>2 DEF RegisterTaskDefinition, RunTask, TagTask, rollbackVars
  <2>. QED BY <2>1 DEF Goto, RollbackBudget
<1>3. ASSUME NEW i \in Invocation, DeregisterTaskDefinition(i) PROVE RollbackBudget'
  BY <1>3 DEF DeregisterTaskDefinition, Goto, RollbackBudget
<1>4. ASSUME NEW i \in Invocation, StopOwnTask(i) \/ DeleteNewAccessPoint(i) PROVE RollbackBudget'
  <2>1. /\ pc[i] \in {"stopOwn", "deleteAP"}
        /\ EndOfRound(i) \/ (Goto(i, "deleteAP") /\ UNCHANGED rollbacks)
    BY <1>4 DEF StopOwnTask, DeleteNewAccessPoint
  <2>. QED BY <2>1 DEF EndOfRound, Goto, RollbackBudget
<1>5. CASE Environment \/ UNCHANGED vars
  <2>1. UNCHANGED <<pc, rollbacks>>
    BY <1>5 DEF Environment, AccessPointReady, TaskStarts, TaskToldToStop, TaskStops,
       OpenSession, CloseSession, vars, lambdaVars, rollbackVars
  <2>. QED BY <2>1 DEF RollbackBudget
<1>. QED BY <1>1, <1>2, <1>3, <1>4, <1>5 DEF Next, Invoke

\* Every variable keeps its type, whatever the calls to AWS do.
THEOREM TypeCorrect == Spec => []TypeOK
<1>1. TypeOK /\ RollbackBudget /\ [Next]_vars => (TypeOK /\ RollbackBudget)'
  BY TypeStep, BudgetStep
<1>. QED BY TypeInit, <1>1, PTL DEF Spec

-----------------------------------------------------------------------------
(* The handover. *)

\* What an invocation knows of the handover at each stage: before the preflight nothing is
\* listed, before the stop loop everything has been checked and nothing stopped, and at the
\* waiter every listed task has been told to stop or has failed to be.
PreflightFirst ==
  \A i \in Invocation :
     /\ pc[i] \in {"idle", "findAP", "listTasks"} => listed[i] = {} /\ checked[i] = {}
     /\ pc[i] \in {"idle", "findAP", "listTasks", "preflight", "conflict"}
          => waitFor[i] = {} /\ failed[i] = {}
     /\ pc[i] = "stopTasks" => checked[i] = listed[i]
     /\ pc[i] = "stopTasks" => waitFor[i] \cup failed[i] \subseteq listed[i]
     /\ checked[i] \subseteq listed[i]
     /\ pc[i] = "wait" => listed[i] = waitFor[i] \cup failed[i]

\* An invocation launches its task only at run_task.
LaunchOnce ==
  \A i \in Invocation :
     pc[i] \in {"idle", "findAP", "listTasks", "preflight", "stopTasks", "wait",
                "ensureAP", "register", "runTask"} => task[i] = "none"

\* A session on a task that has passed a preflight began after it passed.
PassedWithoutSession ==
  \A i \in Invocation :
     pc[i] \in {"preflight", "stopTasks"} =>
        \A t \in checked[i] : t \in sessions => i \in openedAfter[t]

HandoverInv == PreflightFirst /\ LaunchOnce /\ HandoverIsComplete /\ PassedWithoutSession

\* No invocation has begun.
LEMMA HandoverInit == Init => HandoverInv
BY DEF Init, HandoverInv, PreflightFirst, LaunchOnce, HandoverIsComplete, PassedWithoutSession

\* Each call takes the handover on by one stage.
LEMMA PreflightFirstStep == TypeOK /\ PreflightFirst /\ [Next]_vars => PreflightFirst'
<1> SUFFICES ASSUME HandoverType, pc \in [Invocation -> Stages], PreflightFirst, [Next]_vars
           PROVE  PreflightFirst'
  BY DEF TypeOK, LambdaType
<1>1. ASSUME NEW i \in Invocation, Begin(i) PROVE PreflightFirst'
  BY <1>1 DEF Begin, Goto, handoverVars, PreflightFirst
<1>2. ASSUME NEW i \in Invocation, FindExistingAccessPoint(i) PROVE PreflightFirst'
  BY <1>2 DEF FindExistingAccessPoint, Goto, handoverVars, PreflightFirst
<1>3. ASSUME NEW i \in Invocation, FindRunningTasks(i) PROVE PreflightFirst'
  BY <1>3 DEF FindRunningTasks, Goto, HandoverType, PreflightFirst
<1>4. ASSUME NEW i \in Invocation, PreflightSessionCheck(i) PROVE PreflightFirst'
  <2>1. PICK t \in listed[i] :
           \/ /\ checked' = [checked EXCEPT ![i] = @ \cup {t}]
              /\ Goto(i, IF listed[i] = checked[i] \cup {t} THEN "stopTasks" ELSE "preflight")
           \/ Goto(i, "conflict") /\ UNCHANGED checked
           \/ Goto(i, "error") /\ UNCHANGED checked
    BY <1>4 DEF PreflightSessionCheck
  <2>2. pc[i] = "preflight" /\ UNCHANGED <<listed, waitFor, failed>>
    BY <1>4 DEF PreflightSessionCheck
  <2>3. CASE checked' = [checked EXCEPT ![i] = @ \cup {t}]
    <3>1. checked'[i] = checked[i] \cup {t} /\ checked[i] \cup {t} \subseteq listed[i]
      BY <2>3 DEF HandoverType, PreflightFirst
    <3>2. \A j \in Invocation \ {i} : checked'[j] = checked[j] /\ pc'[j] = pc[j]
      BY <2>1, <2>3 DEF Goto, HandoverType
    <3>3. \/ pc'[i] \in {"preflight", "conflict", "error"}
          \/ pc'[i] = "stopTasks" /\ listed[i] = checked'[i]
      BY <2>1, <3>1 DEF Goto, HandoverType
    <3>. QED BY <2>2, <3>1, <3>2, <3>3 DEF PreflightFirst
  <2>4. CASE UNCHANGED checked /\ (Goto(i, "conflict") \/ Goto(i, "error"))
    BY <2>2, <2>4 DEF Goto, PreflightFirst
  <2>. QED BY <2>1, <2>3, <2>4
<1>5. ASSUME NEW i \in Invocation, StopExistingTask(i) PROVE PreflightFirst'
  <2>1. PICK t \in listed[i] :
           \/ waitFor' = [waitFor EXCEPT ![i] = @ \cup {t}] /\ UNCHANGED failed
           \/ failed' = [failed EXCEPT ![i] = @ \cup {t}] /\ UNCHANGED waitFor
    BY <1>5 DEF StopExistingTask
  <2>2. /\ pc[i] = "stopTasks" /\ UNCHANGED <<listed, checked>>
        /\ Goto(i, IF listed[i] = waitFor'[i] \cup failed'[i] THEN "wait" ELSE "stopTasks")
    BY <1>5 DEF StopExistingTask
  <2>. QED BY <2>1, <2>2 DEF Goto, HandoverType, PreflightFirst
<1>6. ASSUME NEW i \in Invocation, WaitForTermination(i) PROVE PreflightFirst'
  BY <1>6 DEF WaitForTermination, Goto, HandoverType, PreflightFirst
<1>7. ASSUME NEW i \in Invocation,
             \/ EnsureAccessPoint(i) \/ GetCallerIdentityFails(i) \/ RegisterTaskDefinition(i)
             \/ RunTask(i) \/ TagTask(i) \/ DeregisterTaskDefinition(i) \/ StopOwnTask(i)
             \/ DeleteNewAccessPoint(i) \/ LambdaTimesOut(i)
      PROVE  PreflightFirst'
  <2>1. UNCHANGED handoverVars
    BY <1>7 DEF EnsureAccessPoint, GetCallerIdentityFails, RegisterTaskDefinition, RunTask,
       TagTask, DeregisterTaskDefinition, StopOwnTask, DeleteNewAccessPoint, LambdaTimesOut
  <2>2. PICK s : Goto(i, s) /\ s \in {"ok", "error", "killed", "register", "runTask", "tag",
                                      "deregister", "stopOwn", "deleteAP"}
    BY <1>7 DEF EnsureAccessPoint, GetCallerIdentityFails, RegisterTaskDefinition, RunTask,
       TagTask, DeregisterTaskDefinition, StopOwnTask, DeleteNewAccessPoint, LambdaTimesOut,
       EndOfRound
  <2>. QED BY <2>1, <2>2 DEF Goto, handoverVars, PreflightFirst
<1>8. CASE Environment \/ UNCHANGED vars
  <2>1. UNCHANGED lambdaVars
    BY <1>8 DEF Environment, AccessPointReady, TaskStarts, TaskToldToStop, TaskStops,
       OpenSession, CloseSession, vars
  <2>. QED BY <2>1 DEF lambdaVars, handoverVars, PreflightFirst
<1>. QED
  BY <1>1, <1>2, <1>3, <1>4, <1>5, <1>6, <1>7, <1>8 DEF Next, Invoke

\* run_task is called once, and the clean-up only stops.
LEMMA TaskStep ==
  ASSUME TypeOK, [Next]_vars
  PROVE  \/ UNCHANGED task
         \/ \E t \in Invocation : StopTaskEffect(t)
         \/ \E t \in Invocation : task[t] = "starting" /\ task' = [task EXCEPT ![t] = "running"]
         \/ \E t \in Invocation : task[t] # "none" /\ task' = [task EXCEPT ![t] = "stopped"]
         \/ \E i \in Invocation : /\ pc[i] = "runTask" /\ pc'[i] \in {"tag", "error"}
                                  /\ task' = [task EXCEPT ![i] = "starting"]
<1>1. ASSUME NEW i \in Invocation, Invoke(i)
      PROVE  \/ UNCHANGED task
             \/ \E t \in Invocation : StopTaskEffect(t)
             \/ /\ pc[i] = "runTask" /\ pc'[i] \in {"tag", "error"}
                /\ task' = [task EXCEPT ![i] = "starting"]
  <2>1. CASE RunTask(i)
    BY <2>1 DEF RunTask, Goto, TypeOK, LambdaType
  <2>. QED
    BY <1>1, <2>1 DEF Invoke, FindExistingAccessPoint, FindRunningTasks, PreflightSessionCheck,
       StopExistingTask, WaitForTermination, EnsureAccessPoint, GetCallerIdentityFails,
       RegisterTaskDefinition, TagTask, DeregisterTaskDefinition, StopOwnTask,
       DeleteNewAccessPoint, awsVars, TypeOK, HandoverType
<1>2. ASSUME NEW i \in Invocation, Begin(i) \/ LambdaTimesOut(i) PROVE UNCHANGED task
  BY <1>2 DEF Begin, LambdaTimesOut, awsVars
<1>3. CASE Environment
  BY <1>3 DEF Environment, AccessPointReady, TaskStarts, TaskToldToStop, TaskStops,
     OpenSession, CloseSession
<1>4. CASE UNCHANGED vars
  BY <1>4 DEF vars, awsVars
<1>. QED BY <1>1, <1>2, <1>3, <1>4 DEF Next

\* A task that has stopped stays stopped.
LEMMA StoppedForever ==
  ASSUME TypeOK, LaunchOnce, [Next]_vars, NEW t \in Invocation, task[t] = "stopped"
  PROVE  task'[t] = "stopped"
BY TaskStep DEF TypeOK, AwsType, LaunchOnce, StopTaskEffect

\* No stage after run_task leads back to one before it.
LEMMA EarlyFromEarly ==
  ASSUME TypeOK, [Next]_vars, NEW i \in Invocation,
         pc'[i] \in {"idle", "findAP", "listTasks", "preflight", "stopTasks", "wait",
                     "ensureAP", "register", "runTask"}
  PROVE  pc[i] \in {"idle", "findAP", "listTasks", "preflight", "stopTasks", "wait",
                    "ensureAP", "register", "runTask"}
<1>1. ASSUME NEW j \in Invocation,
             \/ Begin(j) \/ FindExistingAccessPoint(j) \/ FindRunningTasks(j)
             \/ PreflightSessionCheck(j) \/ StopExistingTask(j) \/ WaitForTermination(j)
             \/ EnsureAccessPoint(j) \/ GetCallerIdentityFails(j) \/ RegisterTaskDefinition(j)
      PROVE  pc'[i] = pc[i] \/ pc[i] \in {"idle", "findAP", "listTasks", "preflight",
                                          "stopTasks", "wait", "ensureAP", "register"}
  BY <1>1 DEF Begin, FindExistingAccessPoint, FindRunningTasks, PreflightSessionCheck,
     StopExistingTask, WaitForTermination, EnsureAccessPoint, GetCallerIdentityFails,
     RegisterTaskDefinition, Goto, TypeOK, LambdaType
<1>2. ASSUME NEW j \in Invocation,
             \/ RunTask(j) \/ TagTask(j) \/ DeregisterTaskDefinition(j) \/ StopOwnTask(j)
             \/ DeleteNewAccessPoint(j) \/ LambdaTimesOut(j)
      PROVE  pc'[i] = pc[i]
  <2>1. PICK s : Goto(j, s) /\ s \in {"ok", "error", "killed", "tag", "deregister",
                                      "stopOwn", "deleteAP"}
    BY <1>2 DEF RunTask, TagTask, DeregisterTaskDefinition, StopOwnTask,
       DeleteNewAccessPoint, LambdaTimesOut, EndOfRound
  <2>. QED BY <2>1 DEF Goto, TypeOK, LambdaType
<1>3. CASE Environment \/ UNCHANGED vars
  BY <1>3 DEF Environment, AccessPointReady, TaskStarts, TaskToldToStop, TaskStops,
     OpenSession, CloseSession, vars, lambdaVars
<1>. QED BY <1>1, <1>2, <1>3 DEF Next, Invoke

\* Only run_task takes the invocation's own task out of "none", and its stage goes with it.
LEMMA LaunchOnceStep == TypeOK /\ LaunchOnce /\ [Next]_vars => LaunchOnce'
<1> SUFFICES ASSUME TypeOK, LaunchOnce, [Next]_vars, NEW i \in Invocation,
                    pc'[i] \in {"idle", "findAP", "listTasks", "preflight", "stopTasks",
                                "wait", "ensureAP", "register", "runTask"}
           PROVE  task'[i] = "none"
  BY DEF LaunchOnce
<1>1. task[i] = "none"
  BY EarlyFromEarly DEF LaunchOnce
<1>. QED BY <1>1, TaskStep DEF TypeOK, AwsType, StopTaskEffect

\* An invocation gets past the handover with nothing listed, or through the waiter after
\* every listed task has stopped; and a stopped task stays stopped.
LEMMA HandoverCompleteStep ==
  TypeOK /\ PreflightFirst /\ LaunchOnce /\ HandoverIsComplete /\ [Next]_vars
     => HandoverIsComplete'
<1> DEFINE Late == {"ensureAP", "register", "runTask", "tag", "ok",
                    "deregister", "stopOwn", "deleteAP"}
<1> SUFFICES ASSUME TypeOK, PreflightFirst, LaunchOnce, HandoverIsComplete, [Next]_vars,
                    NEW i \in Invocation, pc'[i] \in Late, NEW t \in listed'[i]
           PROVE  task'[t] = "stopped"
  BY DEF HandoverIsComplete
<1>1. \/ pc[i] \in Late /\ listed'[i] = listed[i]
      \/ listed'[i] = {}
      \/ listed'[i] = listed[i] /\ \A u \in listed[i] : task[u] = "stopped"
  <2>1. ASSUME NEW j \in Invocation, FindExistingAccessPoint(j)
        PROVE  listed'[i] = listed[i] /\ (pc[i] \in Late \/ listed[i] = {})
    BY <2>1 DEF FindExistingAccessPoint, handoverVars, Goto, TypeOK, LambdaType, PreflightFirst
  <2>2. ASSUME NEW j \in Invocation, FindRunningTasks(j)
        PROVE  (pc[i] \in Late /\ listed'[i] = listed[i]) \/ listed'[i] = {}
    BY <2>2 DEF FindRunningTasks, Goto, TypeOK, LambdaType, HandoverType
  <2>3. ASSUME NEW j \in Invocation, PreflightSessionCheck(j) \/ StopExistingTask(j)
                                     \/ Begin(j) \/ LambdaTimesOut(j)
        PROVE  pc[i] \in Late /\ listed'[i] = listed[i]
    <3>1. UNCHANGED listed
      BY <2>3 DEF PreflightSessionCheck, StopExistingTask, Begin, LambdaTimesOut, handoverVars
    <3>2. PICK s : Goto(j, s) /\ s \notin Late
      BY <2>3 DEF PreflightSessionCheck, StopExistingTask, Begin, LambdaTimesOut
    <3>. QED BY <3>1, <3>2 DEF Goto, TypeOK, LambdaType
  <2>4. ASSUME NEW j \in Invocation, WaitForTermination(j)
        PROVE  /\ listed'[i] = listed[i]
               /\ pc[i] \in Late \/ \A u \in listed[i] : task[u] = "stopped"
    <3>1. CASE i # j
      BY <2>4, <3>1 DEF WaitForTermination, Goto, TypeOK, LambdaType
    <3>2. CASE i = j
      <4>1. pc[i] = "wait" /\ UNCHANGED listed /\ failed'[i] = {}
        BY <2>4, <3>2 DEF WaitForTermination, Goto, TypeOK, LambdaType
      <4>2. failed[i] = {} /\ \A u \in waitFor[i] : task[u] = "stopped"
        BY <2>4, <3>2, <4>1 DEF WaitForTermination, TypeOK, HandoverType
      <4>. QED BY <4>1, <4>2 DEF PreflightFirst
    <3>. QED BY <3>1, <3>2
  <2>5. ASSUME NEW j \in Invocation,
               \/ EnsureAccessPoint(j) \/ GetCallerIdentityFails(j) \/ RegisterTaskDefinition(j)
               \/ RunTask(j) \/ TagTask(j) \/ DeregisterTaskDefinition(j) \/ StopOwnTask(j)
               \/ DeleteNewAccessPoint(j)
        PROVE  pc[i] \in Late /\ listed'[i] = listed[i]
    <3>1. UNCHANGED listed
      BY <2>5 DEF EnsureAccessPoint, GetCallerIdentityFails, RegisterTaskDefinition, RunTask,
         TagTask, DeregisterTaskDefinition, StopOwnTask, DeleteNewAccessPoint, handoverVars
    <3>2. pc[j] \in Late /\ \E s : Goto(j, s)
      BY <2>5 DEF EnsureAccessPoint, GetCallerIdentityFails, RegisterTaskDefinition, RunTask,
         TagTask, DeregisterTaskDefinition, StopOwnTask, DeleteNewAccessPoint, EndOfRound
    <3>. QED BY <3>1, <3>2 DEF Goto, TypeOK, LambdaType
  <2>6. CASE Environment \/ UNCHANGED vars
    BY <2>6 DEF Environment, AccessPointReady, TaskStarts, TaskToldToStop, TaskStops,
       OpenSession, CloseSession, vars, lambdaVars, handoverVars
  <2>. QED BY <2>1, <2>2, <2>3, <2>4, <2>5, <2>6 DEF Next, Invoke
<1>2. t \in Invocation /\ task[t] = "stopped"
  <2>1. listed[i] \subseteq Invocation
    BY DEF TypeOK, HandoverType
  <2>. QED BY <1>1, <2>1 DEF HandoverIsComplete
<1>. QED BY <1>2, StoppedForever

\* A task passes the preflight without a session, and one that opens later is recorded
\* against every preflight it has passed.
LEMMA PassedStep == TypeOK /\ PreflightFirst /\ PassedWithoutSession /\ [Next]_vars
                      => PassedWithoutSession'
<1> SUFFICES ASSUME TypeOK, PreflightFirst, PassedWithoutSession, [Next]_vars,
                    NEW i \in Invocation, pc'[i] \in {"preflight", "stopTasks"},
                    NEW t \in checked'[i], t \in sessions'
           PROVE  i \in openedAfter'[t]
  BY DEF PassedWithoutSession
<1>1. ASSUME NEW j \in Invocation, Begin(j) \/ Invoke(j) \/ LambdaTimesOut(j)
      PROVE  i \in openedAfter'[t]
  <2>1. UNCHANGED <<sessions, openedAfter>>
    BY <1>1 DEF Begin, LambdaTimesOut, Invoke, FindExistingAccessPoint, FindRunningTasks,
       PreflightSessionCheck, StopExistingTask, WaitForTermination, EnsureAccessPoint,
       GetCallerIdentityFails, RegisterTaskDefinition, RunTask, TagTask,
       DeregisterTaskDefinition, StopOwnTask, DeleteNewAccessPoint, awsVars
  <2>2. CASE i # j
    <3>1. pc'[i] = pc[i] /\ checked'[i] = checked[i]
      BY <1>1, <2>2 DEF Begin, LambdaTimesOut, Invoke, FindExistingAccessPoint,
         FindRunningTasks, PreflightSessionCheck, StopExistingTask, WaitForTermination,
         EnsureAccessPoint, GetCallerIdentityFails, RegisterTaskDefinition, RunTask, TagTask,
         DeregisterTaskDefinition, StopOwnTask, DeleteNewAccessPoint, EndOfRound, Goto,
         handoverVars, TypeOK, LambdaType, HandoverType
    <3>. QED BY <2>1, <3>1 DEF PassedWithoutSession
  <2>3. CASE i = j
    <3>1. FindRunningTasks(i) \/ PreflightSessionCheck(i) \/ StopExistingTask(i)
      BY <1>1, <2>3 DEF Begin, LambdaTimesOut, Invoke, FindExistingAccessPoint,
         WaitForTermination, EnsureAccessPoint, GetCallerIdentityFails,
         RegisterTaskDefinition, RunTask, TagTask, DeregisterTaskDefinition, StopOwnTask,
         DeleteNewAccessPoint, EndOfRound, Goto, TypeOK, LambdaType
    <3>2. CASE FindRunningTasks(i)
      BY <3>2 DEF FindRunningTasks, PreflightFirst
    <3>3. CASE PreflightSessionCheck(i)
      <4>1. pc[i] = "preflight" /\ (t \in checked[i] \/ t \notin sessions)
        BY <3>3 DEF PreflightSessionCheck, TypeOK, HandoverType
      <4>. QED BY <2>1, <4>1 DEF PassedWithoutSession
    <3>4. CASE StopExistingTask(i)
      BY <2>1, <3>4 DEF StopExistingTask, PassedWithoutSession
    <3>. QED BY <3>1, <3>2, <3>3, <3>4
  <2>. QED BY <2>2, <2>3
<1>2. ASSUME NEW r \in Invocation, OpenSession(r) PROVE i \in openedAfter'[t]
  <2>1. pc'[i] = pc[i] /\ checked'[i] = checked[i] /\ t \in Invocation
    BY <1>2 DEF OpenSession, lambdaVars, handoverVars, TypeOK, HandoverType
  <2>2. CASE t = r
    BY <1>2, <2>1, <2>2 DEF OpenSession, TypeOK, AwsType
  <2>3. CASE t # r
    BY <1>2, <2>1, <2>3 DEF OpenSession, TypeOK, AwsType, PassedWithoutSession
  <2>. QED BY <2>2, <2>3
<1>3. ASSUME NEW r \in Invocation, TaskStops(r) \/ CloseSession(r) PROVE i \in openedAfter'[t]
  <2>1. pc'[i] = pc[i] /\ checked'[i] = checked[i] /\ t \in Invocation
    BY <1>3 DEF TaskStops, CloseSession, lambdaVars, handoverVars, TypeOK, HandoverType
  <2>2. t \in sessions /\ t # r /\ openedAfter'[t] = openedAfter[t]
    BY <1>3, <2>1 DEF TaskStops, CloseSession, TypeOK, AwsType
  <2>. QED BY <2>1, <2>2 DEF PassedWithoutSession
<1>4. ASSUME NEW r \in Invocation, AccessPointReady(r) \/ TaskStarts(r) \/ TaskToldToStop(r)
      PROVE  i \in openedAfter'[t]
  BY <1>4 DEF AccessPointReady, TaskStarts, TaskToldToStop, lambdaVars, handoverVars,
     PassedWithoutSession
<1>5. CASE UNCHANGED vars
  BY <1>5 DEF vars, lambdaVars, awsVars, handoverVars, PassedWithoutSession
<1>. QED BY <1>1, <1>2, <1>3, <1>4, <1>5 DEF Next, Environment

\* The whole invariant is inductive.
LEMMA HandoverInvariant == Spec => [](TypeOK /\ HandoverInv)
<1>1. TypeOK /\ HandoverInv /\ [Next]_vars => HandoverInv'
  BY PreflightFirstStep, LaunchOnceStep, HandoverCompleteStep, PassedStep DEF HandoverInv
<1>. QED BY HandoverInit, TypeCorrect, <1>1, PTL DEF Spec

\* The 409 of a locked investigation has stopped no task (handler.py 691-739).
THEOREM ConflictIsHarmless == Spec => []ConflictStopsNothing
<1>1. HandoverInv => ConflictStopsNothing
  BY DEF HandoverInv, PreflightFirst, ConflictStopsNothing
<1>. QED BY HandoverInvariant, <1>1, PTL

\* Past the handover, every task that was found running has stopped for good, whatever the
\* invocation and all the others go through (handler.py 754-774).
THEOREM HandoverCompletes == Spec => []HandoverIsComplete
<1>1. HandoverInv => HandoverIsComplete
  BY DEF HandoverInv
<1>. QED BY HandoverInvariant, <1>1, PTL

\* A handover stops a task with an open session only if the session began after the
\* preflight had looked at that task (handler.py 691-752).
THEOREM SessionsSpared == Spec => HandoverSparesSessions
<1> DEFINE Spared == \A i \in Invocation :
                       \A t \in (waitFor'[i] \cup failed'[i]) \ (waitFor[i] \cup failed[i]) :
                          t \in sessions => i \in openedAfter[t]
<1>1. TypeOK /\ HandoverInv /\ [Next]_vars => [Spared]_vars
  <2> SUFFICES ASSUME TypeOK, HandoverInv, Next, NEW i \in Invocation,
                      NEW t \in (waitFor'[i] \cup failed'[i]) \ (waitFor[i] \cup failed[i]),
                      t \in sessions
             PROVE  i \in openedAfter[t]
    OBVIOUS
  <2>1. StopExistingTask(i)
    <3>1. ASSUME NEW j \in Invocation, StopExistingTask(j), i # j PROVE FALSE
      BY <3>1 DEF StopExistingTask, TypeOK, HandoverType
    <3>2. ASSUME NEW j \in Invocation, WaitForTermination(j) PROVE FALSE
      BY <3>2 DEF WaitForTermination, TypeOK, HandoverType
    <3>3. ASSUME NEW j \in Invocation,
                 \/ Begin(j) \/ FindExistingAccessPoint(j) \/ FindRunningTasks(j)
                 \/ PreflightSessionCheck(j) \/ EnsureAccessPoint(j)
                 \/ GetCallerIdentityFails(j) \/ RegisterTaskDefinition(j) \/ RunTask(j)
                 \/ TagTask(j) \/ DeregisterTaskDefinition(j) \/ StopOwnTask(j)
                 \/ DeleteNewAccessPoint(j) \/ LambdaTimesOut(j) \/ Environment
          PROVE  FALSE
      BY <3>3 DEF Begin, FindExistingAccessPoint, FindRunningTasks, PreflightSessionCheck,
         EnsureAccessPoint, GetCallerIdentityFails, RegisterTaskDefinition, RunTask, TagTask,
         DeregisterTaskDefinition, StopOwnTask, DeleteNewAccessPoint, LambdaTimesOut,
         Environment, AccessPointReady, TaskStarts, TaskToldToStop, TaskStops, OpenSession,
         CloseSession, handoverVars, lambdaVars
    <3>. QED BY <3>1, <3>2, <3>3 DEF Next, Invoke
  <2>2. pc[i] = "stopTasks" /\ t \in listed[i]
    BY <2>1 DEF StopExistingTask, TypeOK, HandoverType
  <2>. QED BY <2>2 DEF HandoverInv, PreflightFirst, PassedWithoutSession
<1>. QED BY HandoverInvariant, <1>1, PTL DEF Spec, HandoverSparesSessions

-----------------------------------------------------------------------------
(* How requests end: what a failed one leaves behind; and, for requests that do not
   overlap, that they implement SingleTask and do not lose the workspace of one another. *)

Early == {"idle", "findAP", "listTasks", "preflight", "stopTasks", "wait", "ensureAP"}

\* What a request has made of its own, and what its failure and its rollback have undone.
MadeSoFar(i) ==
  /\ pc[i] \in Early => ap[i] = "none" /\ home[i] = None
  /\ pc[i] \in Early \cup {"register"} => td[i] = "none"
  /\ pc[i] \in {"register", "runTask", "tag", "deregister", "stopOwn"} /\ home[i] # i
       => ap[i] = "none"
  /\ pc[i] = "deleteAP" => home[i] = i

UndoneSoFar(i) ==
  ~excused[i] =>
     /\ pc[i] \in {"stopOwn", "deleteAP", "error"} => td[i] # "active"
     /\ pc[i] \in {"deleteAP", "error"} => ~DesiredRunning(i)
     /\ pc[i] = "error" => ap[i] \notin {"creating", "available"}

RollbackInv == \A i \in Invocation : MadeSoFar(i) /\ UndoneSoFar(i)

LEMMA RollbackInit == Init => RollbackInv
BY NoneAssumption DEF Init, RollbackInv, MadeSoFar, UndoneSoFar, Early

\* A task is launched by its own run_task only.
LEMMA OnlyRunTaskLaunches ==
  ASSUME TypeOK, [Next]_vars, NEW i \in Invocation, DesiredRunning(i)'
  PROVE  DesiredRunning(i) \/ (pc[i] = "runTask" /\ pc'[i] \in {"tag", "error"})
BY TaskStep DEF TypeOK, AwsType, StopTaskEffect, DesiredRunning

\* An invocation leaves alone what the others know and have made.
LEMMA OthersStand ==
  ASSUME TypeOK, RollbackInv, NEW j \in Invocation, Begin(j) \/ Invoke(j) \/ LambdaTimesOut(j),
         NEW i \in Invocation, i # j
  PROVE  /\ pc'[i] = pc[i] /\ home'[i] = home[i] /\ excused'[i] = excused[i] /\ td'[i] = td[i]
         /\ ap'[i] = ap[i] /\ found'[i] = found[i] /\ listed'[i] = listed[i]
<1>1. CASE Begin(j) \/ LambdaTimesOut(j)
  BY <1>1 DEF Begin, LambdaTimesOut, Goto, TypeOK, LambdaType, rollbackVars, handoverVars, awsVars
<1>2. CASE FindExistingAccessPoint(j) \/ FindRunningTasks(j) \/ PreflightSessionCheck(j)
           \/ StopExistingTask(j) \/ WaitForTermination(j)
  BY <1>2 DEF FindExistingAccessPoint, FindRunningTasks, PreflightSessionCheck, StopExistingTask,
              WaitForTermination, Goto, TypeOK, LambdaType, HandoverType, rollbackVars,
              handoverVars,
              awsVars
<1>3. CASE EnsureAccessPoint(j) \/ GetCallerIdentityFails(j) \/ RegisterTaskDefinition(j)
           \/ RunTask(j) \/ TagTask(j)
  BY <1>3 DEF EnsureAccessPoint, GetCallerIdentityFails, RegisterTaskDefinition, RunTask, TagTask,
              Goto, TypeOK, LambdaType, AwsType, RollbackType, rollbackVars, handoverVars, awsVars
<1>4. CASE DeregisterTaskDefinition(j) \/ StopOwnTask(j)
  BY <1>4 DEF DeregisterTaskDefinition, StopOwnTask, EndOfRound, Goto, TypeOK, LambdaType, AwsType,
              RollbackType, handoverVars, awsVars
<1>5. CASE DeleteNewAccessPoint(j)
  <2>1. home[j] = j
    BY <1>5 DEF DeleteNewAccessPoint, RollbackInv, MadeSoFar
  <2>. QED BY <1>5, <2>1 DEF DeleteNewAccessPoint, EndOfRound, Goto, TypeOK, LambdaType, AwsType,
                             RollbackType, handoverVars
<1>. QED BY <1>1, <1>2, <1>3, <1>4, <1>5 DEF Invoke

\* What AWS and its other users may do to i.
LEMMA EnvironmentStands ==
  ASSUME TypeOK, Environment \/ UNCHANGED vars
  PROVE  /\ UNCHANGED <<lambdaVars, td>>
         /\ \A i \in Invocation : ap'[i] = ap[i] \/ (ap[i] = "creating" /\ ap'[i] = "available")
<1>1. CASE Environment
  BY <1>1 DEF Environment, AccessPointReady, TaskStarts, TaskToldToStop, TaskStops, OpenSession,
              CloseSession, TypeOK, AwsType
<1>. QED BY <1>1 DEF vars, awsVars

LEMMA RollbackStep == TypeOK /\ LaunchOnce /\ RollbackInv /\ [Next]_vars => RollbackInv'
<1>. SUFFICES ASSUME TypeOK, LaunchOnce, RollbackInv, [Next]_vars, NEW i \in Invocation
              PROVE  MadeSoFar(i)' /\ UndoneSoFar(i)'
  BY DEF RollbackInv
<1>0. /\ MadeSoFar(i) /\ UndoneSoFar(i) /\ pc[i] \in Stages /\ excused[i] \in BOOLEAN
      /\ pc[i] \in {"idle", "findAP", "listTasks", "preflight", "stopTasks", "wait", "ensureAP",
                    "register", "runTask"} => ~DesiredRunning(i)
  BY DEF RollbackInv, TypeOK, LambdaType, RollbackType, LaunchOnce, DesiredRunning
<1>1. ASSUME pc'[i] = pc[i], home'[i] = home[i], excused'[i] = excused[i], td'[i] = td[i],
             ap'[i] = ap[i] \/ (ap[i] = "creating" /\ ap'[i] = "available")
      PROVE  MadeSoFar(i)' /\ UndoneSoFar(i)'
  <2>1. DesiredRunning(i)' => DesiredRunning(i)
    BY <1>1, OnlyRunTaskLaunches
  <2>. QED BY <1>0, <1>1, <2>1 DEF MadeSoFar, UndoneSoFar
<1>2. CASE Environment \/ UNCHANGED vars
  BY <1>1, <1>2, EnvironmentStands DEF lambdaVars, rollbackVars
<1>3. ASSUME NEW j \in Invocation, Begin(j) \/ Invoke(j) \/ LambdaTimesOut(j), i # j
      PROVE  MadeSoFar(i)' /\ UndoneSoFar(i)'
  BY <1>1, <1>3, OthersStand
<1>4. CASE Begin(i) \/ LambdaTimesOut(i)
  BY <1>0, <1>4 DEF Begin, LambdaTimesOut, Goto, TypeOK, LambdaType, rollbackVars, awsVars, Early,
                    MadeSoFar, UndoneSoFar, Active, Calls
<1>5. CASE FindExistingAccessPoint(i) \/ FindRunningTasks(i) \/ PreflightSessionCheck(i)
           \/ StopExistingTask(i) \/ WaitForTermination(i)
  <2>1. /\ pc[i] \in Early \ {"ensureAP"} /\ pc'[i] \in Early \cup {"conflict", "error"}
        /\ UNCHANGED <<home, rollbackVars, ap, td>>
    BY <1>5 DEF FindExistingAccessPoint, FindRunningTasks, PreflightSessionCheck, StopExistingTask,
                WaitForTermination, Goto, TypeOK, LambdaType, Early, awsVars
  <2>2. ~DesiredRunning(i)'
    BY <1>0, <2>1, OnlyRunTaskLaunches DEF Early
  <2>. QED BY <1>0, <2>1, <2>2 DEF MadeSoFar, UndoneSoFar, Early, rollbackVars
<1>6. CASE EnsureAccessPoint(i)
  <2>1. pc[i] = "ensureAP" /\ td'[i] = td[i] /\ ~DesiredRunning(i)'
    BY <1>0, <1>6, OnlyRunTaskLaunches DEF EnsureAccessPoint
  <2>2. \/ ap'[i] = ap[i] /\ pc'[i] \in {"ok", "register"}
        \/ home'[i] = i /\ pc'[i] \in {"ok", "register"}
        \/ ap'[i] = ap[i] /\ pc'[i] = "error"
        \/ excused'[i] /\ pc'[i] = "error"
    BY <1>6 DEF EnsureAccessPoint, Goto, TypeOK, LambdaType, RollbackType
  <2>. QED BY <1>0, <2>1, <2>2 DEF MadeSoFar, UndoneSoFar, Early
<1>7. CASE GetCallerIdentityFails(i)
  <2>1. /\ pc[i] = "register" /\ pc'[i] = "error" /\ td'[i] = td[i] /\ ap'[i] = ap[i]
        /\ excused'[i] = ApNewlyCreated(i)
    BY <1>7 DEF GetCallerIdentityFails, Goto, TypeOK, LambdaType, RollbackType, awsVars
  <2>2. ~DesiredRunning(i)'
    BY <1>0, <2>1, OnlyRunTaskLaunches
  <2>. QED BY <1>0, <2>1, <2>2 DEF MadeSoFar, UndoneSoFar, Early, ApNewlyCreated
<1>8. CASE RegisterTaskDefinition(i)
  <2>1. /\ pc[i] = "register" /\ ap'[i] = ap[i] /\ home'[i] = home[i]
        /\ \/ pc'[i] = "runTask"
           \/ /\ (td'[i] = td[i] /\ excused'[i] = excused[i]) \/ excused'[i]
              /\ pc'[i] = IF ApNewlyCreated(i) THEN "deleteAP" ELSE "error"
    BY <1>8 DEF RegisterTaskDefinition, Goto, TypeOK, LambdaType, RollbackType, AwsType
  <2>2. ~DesiredRunning(i)'
    BY <1>0, <2>1, OnlyRunTaskLaunches
  <2>. QED BY <1>0, <2>1, <2>2 DEF MadeSoFar, UndoneSoFar, Early, ApNewlyCreated
<1>9. CASE RunTask(i) \/ TagTask(i)
  <2>1. /\ pc[i] \in {"runTask", "tag"} /\ ap'[i] = ap[i] /\ home'[i] = home[i] /\ td'[i] = td[i]
        /\ pc'[i] \in {"tag", "ok", "deregister"} \/ (pc'[i] = "error" /\ excused'[i])
    BY <1>9 DEF RunTask, TagTask, Goto, TypeOK, LambdaType, RollbackType, AwsType, awsVars
  <2>. QED BY <1>0, <2>1 DEF MadeSoFar, UndoneSoFar, Early
<1>10. CASE DeregisterTaskDefinition(i)
  <2>1. /\ pc[i] = "deregister" /\ pc'[i] = "stopOwn" /\ ap'[i] = ap[i] /\ home'[i] = home[i]
        /\ ~excused'[i] => td'[i] # "active"
    BY <1>10 DEF DeregisterTaskDefinition, Goto, TypeOK, LambdaType, RollbackType, AwsType
  <2>. QED BY <1>0, <2>1 DEF MadeSoFar, UndoneSoFar, Early
<1>11. CASE StopOwnTask(i)
  <2>1. /\ pc[i] = "stopOwn" /\ ap'[i] = ap[i] /\ home'[i] = home[i] /\ td'[i] = td[i]
        /\ pc'[i] \in IF ApNewlyCreated(i) THEN {"deleteAP"} ELSE {"deregister", "error"}
        /\ ~excused'[i] => ~excused[i] /\ ~DesiredRunning(i)'
    <3>1. /\ pc[i] = "stopOwn" /\ UNCHANGED <<ap, home, td>>
          /\ pc'[i] \in IF ApNewlyCreated(i) THEN {"deleteAP"} ELSE {"deregister", "error"}
      BY <1>11 DEF StopOwnTask, EndOfRound, Goto, TypeOK, LambdaType
    <3>2. ~excused'[i] => ~excused[i] /\ ~DesiredRunning(i)'
      BY <1>11 DEF StopOwnTask, StopTaskEffect, DesiredRunning, TypeOK, RollbackType, AwsType
    <3>. QED BY <3>1, <3>2
  <2>. QED BY <1>0, <2>1 DEF MadeSoFar, UndoneSoFar, Early, ApNewlyCreated
<1>12. CASE DeleteNewAccessPoint(i)
  <2>1. home[i] = i
    BY <1>0, <1>12 DEF DeleteNewAccessPoint, MadeSoFar
  <2>2. /\ pc[i] = "deleteAP" /\ home'[i] = i /\ td'[i] = td[i] /\ pc'[i] \in {"deregister", "error"}
        /\ ~excused'[i] => ~excused[i] /\ ap'[i] = "deleted"
    BY <1>12, <2>1 DEF DeleteNewAccessPoint, EndOfRound, Goto, TypeOK, LambdaType, RollbackType,
                       AwsType
  <2>3. DesiredRunning(i)' => DesiredRunning(i)
    BY <2>2, OnlyRunTaskLaunches
  <2>. QED BY <1>0, <2>2, <2>3 DEF MadeSoFar, UndoneSoFar, Early
<1>. QED BY <1>2, <1>3, <1>4, <1>5, <1>6, <1>7, <1>8, <1>9, <1>10, <1>11, <1>12 DEF Next, Invoke

LEMMA RollbackInvariant == Spec => [](TypeOK /\ HandoverInv /\ RollbackInv)
<1>1. TypeOK /\ HandoverInv /\ RollbackInv /\ [Next]_vars => RollbackInv'
  BY RollbackStep DEF HandoverInv
<1>. QED BY <1>1, RollbackInit, HandoverInvariant, PTL DEF Spec

\* A request that fails leaves nothing of its own behind, unless a call was lost, the caller
\* identity was refused, or a clean-up call failed (handler.py 844-862, 908-1046).
THEOREM FailuresAreUndone == Spec => []FailureLeavesNothing
<1>1. RollbackInv => FailureLeavesNothing
  BY DEF RollbackInv, UndoneSoFar, FailureLeavesNothing
<1>. QED BY <1>1, RollbackInvariant, PTL

-----------------------------------------------------------------------------
(* Requests that do not overlap. *)

LEMMA SerialIsSpec == SerialSpec => Spec
<1>1. [SerialNext]_vars => [Next]_vars
  BY DEF SerialNext
<1>. QED BY <1>1, PTL DEF SerialSpec, Spec

LEMMA AloneInvariant == SerialSpec => []OneAtATime
<1>1. Init => OneAtATime
  BY DEF Init, OneAtATime, Active, Calls
<1>2. OneAtATime /\ [SerialNext]_vars => OneAtATime'
  BY DEF OneAtATime, Active, SerialNext, vars, lambdaVars
<1>. QED BY <1>1, <1>2, PTL DEF SerialSpec

LEMMA RequestStays == ASSUME [Next]_vars PROVE request' = request
<1>1. ASSUME NEW i \in Invocation, Begin(i) \/ Invoke(i) \/ LambdaTimesOut(i) PROVE request' = request
  BY <1>1 DEF Begin, LambdaTimesOut, Invoke, FindExistingAccessPoint, FindRunningTasks,
     PreflightSessionCheck, StopExistingTask, WaitForTermination, EnsureAccessPoint,
     GetCallerIdentityFails, RegisterTaskDefinition, RunTask, TagTask, DeregisterTaskDefinition,
     StopOwnTask, DeleteNewAccessPoint
<1>2. CASE Environment \/ UNCHANGED vars
  BY <1>2 DEF Environment, AccessPointReady, TaskStarts, TaskToldToStop, TaskStops, OpenSession,
              CloseSession, vars, lambdaVars
<1>. QED BY <1>1, <1>2 DEF Next

\* From the listing to run_task nobody but the listed tasks is wanted.
HandedOver == {"preflight", "stopTasks", "wait", "ensureAP", "register", "runTask"}

NoneElseWanted ==
  \A i \in Invocation :
     /\ pc[i] \in HandedOver /\ ~request[i].skip => TasksOf(Target(i)) \subseteq listed[i]
     /\ pc[i] \in {"register", "runTask"} => ~request[i].skip

LEMMA NoneElseInit == Init => NoneElseWanted
BY DEF Init, NoneElseWanted, HandedOver

LEMMA NoneElseStep ==
  TypeOK /\ RollbackInv /\ OneAtATime /\ NoneElseWanted /\ [Next]_vars => NoneElseWanted'
<1>. SUFFICES ASSUME TypeOK, RollbackInv, OneAtATime, NoneElseWanted, [Next]_vars,
                     NEW i \in Invocation, pc'[i] \in HandedOver
              PROVE  /\ ~request[i].skip => TasksOf(Target(i))' \subseteq listed'[i]
                     /\ pc'[i] \in {"register", "runTask"} => ~request[i].skip
  BY RequestStays DEF NoneElseWanted, HandedOver
<1>1. \/ /\ pc[i] = pc'[i] /\ listed'[i] = listed[i]
      \/ /\ pc[i] = "findAP" /\ pc'[i] = "ensureAP" /\ request[i].skip
      \/ /\ pc[i] = "listTasks" /\ listed'[i] = TasksOf(Target(i))
         /\ pc'[i] \notin {"register", "runTask"}
      \/ /\ pc[i] \in HandedOver /\ listed'[i] = listed[i]
         /\ pc'[i] = "register" => ~request[i].skip
         /\ pc'[i] = "runTask" => pc[i] = "register"
  <2>1. ASSUME NEW j \in Invocation, Begin(j) \/ Invoke(j) \/ LambdaTimesOut(j), i # j
        PROVE  pc[i] = pc'[i] /\ listed'[i] = listed[i]
    BY <2>1, OthersStand
  <2>2. CASE Environment \/ UNCHANGED vars
    BY <2>2, EnvironmentStands DEF lambdaVars, handoverVars
  <2>3. CASE FindExistingAccessPoint(i)
    BY <2>3 DEF FindExistingAccessPoint, Goto, TypeOK, LambdaType, HandedOver
  <2>4. CASE FindRunningTasks(i)
    BY <2>4 DEF FindRunningTasks, Goto, TypeOK, LambdaType, HandoverType, HandedOver
  <2>5. CASE PreflightSessionCheck(i) \/ StopExistingTask(i) \/ WaitForTermination(i)
    BY <2>5 DEF PreflightSessionCheck, StopExistingTask, WaitForTermination, Goto, TypeOK,
                LambdaType,
                HandedOver
  <2>6. CASE EnsureAccessPoint(i) \/ RegisterTaskDefinition(i)
    BY <2>6 DEF EnsureAccessPoint, RegisterTaskDefinition, Goto, TypeOK, LambdaType, HandedOver,
                handoverVars
  <2>7. ASSUME \/ Begin(i) \/ LambdaTimesOut(i) \/ GetCallerIdentityFails(i) \/ RunTask(i)
               \/ TagTask(i) \/ DeregisterTaskDefinition(i) \/ StopOwnTask(i)
               \/ DeleteNewAccessPoint(i)
        PROVE  FALSE
    BY <2>7 DEF Begin, LambdaTimesOut, GetCallerIdentityFails, RunTask, TagTask,
                DeregisterTaskDefinition, StopOwnTask, DeleteNewAccessPoint, EndOfRound, Goto,
                TypeOK, LambdaType, HandedOver
  <2>. QED BY <2>1, <2>2, <2>3, <2>4, <2>5, <2>6, <2>7 DEF Next, Invoke
<1>2. TasksOf(Target(i))' \subseteq TasksOf(Target(i))
  <2>. SUFFICES ASSUME NEW t \in Invocation, request[t].inv = request[i].inv, DesiredRunning(t)'
                PROVE  DesiredRunning(t)
    BY RequestStays DEF TasksOf, Target
  <2>1. ASSUME pc[t] = "runTask", pc'[t] \in {"tag", "error"} PROVE FALSE
    <3>1. Active(t) /\ Active(i)
      BY <1>1, <2>1 DEF Active, Calls, HandedOver
    <3>. QED BY <2>1, <3>1 DEF OneAtATime, HandedOver
  <2>. QED BY <2>1, OnlyRunTaskLaunches
<1>. QED BY <1>1, <1>2 DEF NoneElseWanted, HandedOver

LEMMA SerialInvariant ==
  SerialSpec => [](TypeOK /\ HandoverInv /\ RollbackInv /\ OneAtATime /\ NoneElseWanted)
<1>1. TypeOK /\ RollbackInv /\ OneAtATime /\ NoneElseWanted /\ [SerialNext]_vars => NoneElseWanted'
  BY NoneElseStep DEF SerialNext
<1>. QED BY <1>1, NoneElseInit, SerialIsSpec, RollbackInvariant, AloneInvariant, PTL DEF SerialSpec

-----------------------------------------------------------------------------
(* The abstract specification. *)

\* A task that is told to stop, or stops, is not wanted any more, and nothing else changes.
LEMMA StopImplements ==
  ASSUME TypeOK, request' = request, NEW t \in Invocation, NEW s \in Statuses,
         task[t] # "none", s \notin {"none", "starting"}, s = "running" => DesiredRunning(t),
         task' = [task EXCEPT ![t] = s]
  PROVE  [Promise!Next]_(Promise!vars)
<1>1. task \in [Invocation -> Statuses] /\ Target(t) \in Investigation
  BY DEF TypeOK, AwsType, LambdaType, Target
<1>2. {u \in Invocation : task[u] # "none"}' = {u \in Invocation : task[u] # "none"}
  BY <1>1
<1>3. CASE DesiredRunning(t) /\ s # "running"
  <2>1. t \in TasksOf(Target(t))
    BY <1>3 DEF TasksOf
  <2>2. \A v \in Investigation :
           TasksOf(v)' = IF v = Target(t) THEN TasksOf(v) \ {t} ELSE TasksOf(v)
    BY <1>1, <1>3 DEF TasksOf, Target, DesiredRunning
  <2>3. Promise!Stop(Target(t), t)
    BY <1>1, <1>2, <2>1, <2>2 DEF Promise!Stop
  <2>. QED BY <1>1, <2>3 DEF Promise!Next
<1>4. CASE ~DesiredRunning(t) \/ s = "running"
  <2>1. \A v \in Investigation : TasksOf(v)' = TasksOf(v)
    BY <1>1, <1>4 DEF TasksOf, Target, DesiredRunning
  <2>. QED BY <1>2, <2>1 DEF Promise!vars
<1>. QED BY <1>3, <1>4

LEMMA LaunchImplements ==
  ASSUME TypeOK, HandoverInv, NoneElseWanted, request' = request, NEW i \in Invocation,
         pc[i] = "runTask", task' = [task EXCEPT ![i] = "starting"]
  PROVE  [Promise!Next]_(Promise!vars)
<1>1. task \in [Invocation -> Statuses] /\ Target(i) \in Investigation
  BY DEF TypeOK, AwsType, LambdaType, Target
<1>2. task[i] = "none"
  BY DEF HandoverInv, LaunchOnce
<1>3. TasksOf(Target(i)) = {}
  <2>1. TasksOf(Target(i)) \subseteq listed[i]
    BY DEF NoneElseWanted, HandedOver
  <2>2. \A t \in listed[i] : task[t] = "stopped"
    BY DEF HandoverInv, HandoverIsComplete
  <2>. QED BY <2>1, <2>2 DEF TasksOf, DesiredRunning
<1>4. \A v \in Investigation : TasksOf(v)' = IF v = Target(i) THEN {i} ELSE TasksOf(v)
  BY <1>1, <1>2, <1>3 DEF TasksOf, Target, DesiredRunning
<1>5. {u \in Invocation : task[u] # "none"}' = {u \in Invocation : task[u] # "none"} \cup {i}
  BY <1>1
<1>6. Promise!Launch(Target(i), i)
  BY <1>1, <1>2, <1>3, <1>4, <1>5 DEF Promise!Launch
<1>. QED BY <1>1, <1>6 DEF Promise!Next

\* Requests that are served one at a time implement SingleTask: a task is launched only when the
\* investigation wants no other, and one that was told to stop never comes back (handler.py
\* 627-774, 864-906; docs/architecture/investigations-and-tasks.md).
THEOREM SerialImplementsPromise == SerialSpec => OneTaskAtATime
<1>1. Init => Promise!Init
  BY DEF Init, Promise!Init, TasksOf, DesiredRunning
<1>2. TypeOK /\ HandoverInv /\ NoneElseWanted /\ [Next]_vars => [Promise!Next]_(Promise!vars)
  <2>. SUFFICES ASSUME TypeOK, HandoverInv, NoneElseWanted, [Next]_vars
                PROVE  [Promise!Next]_(Promise!vars)
    OBVIOUS
  <2>0. task \in [Invocation -> Statuses] /\ request' = request
    BY RequestStays DEF TypeOK, AwsType
  <2>1. CASE UNCHANGED task
    BY <2>0, <2>1 DEF Promise!vars, TasksOf, Target, DesiredRunning
  <2>2. ASSUME NEW t \in Invocation, StopTaskEffect(t) PROVE [Promise!Next]_(Promise!vars)
    <3>1. CASE DesiredRunning(t)
      <4>1. PICK s \in {"stopping", "aborting"} : task' = [task EXCEPT ![t] = s]
        BY <2>2, <3>1 DEF StopTaskEffect, DesiredRunning
      <4>2. s \in Statuses /\ s \notin {"none", "starting", "running"} /\ task[t] # "none"
        BY <3>1 DEF Statuses, DesiredRunning
      <4>. QED BY <2>0, <4>1, <4>2, StopImplements
    <3>2. CASE ~DesiredRunning(t)
      <4>1. UNCHANGED task
        BY <2>0, <2>2, <3>2 DEF StopTaskEffect, DesiredRunning
      <4>. QED BY <2>1, <4>1
    <3>. QED BY <3>1, <3>2
  <2>3. ASSUME NEW t \in Invocation, NEW s \in {"running", "stopped"}, task[t] # "none",
               s = "running" => task[t] = "starting", task' = [task EXCEPT ![t] = s]
        PROVE  [Promise!Next]_(Promise!vars)
    BY <2>0, <2>3, StopImplements DEF Statuses, DesiredRunning
  <2>4. ASSUME NEW i \in Invocation, pc[i] = "runTask", task' = [task EXCEPT ![i] = "starting"]
        PROVE  [Promise!Next]_(Promise!vars)
    BY <2>0, <2>4, LaunchImplements
  <2>. QED BY <2>1, <2>2, <2>3, <2>4, TaskStep
<1>3. [SerialNext]_vars => [Next]_vars
  BY DEF SerialNext
<1>. QED BY <1>1, <1>2, <1>3, SerialInvariant, PTL DEF SerialSpec, OneTaskAtATime, Promise!Spec

-----------------------------------------------------------------------------
(* The workspace. *)

\* The access point of a request in progress is nobody else's, and a found one stays.
Unshared(j) ==
  pc[j] \in {"idle"} \cup Calls => \A i \in Invocation : i # j => found[i] # j /\ home[i] # j

FoundStays(i) == found[i] # None => found[i] # i /\ ap[found[i]] = "available"

HomeIsGood(i) ==
  pc[i] \in {"register", "runTask", "tag", "ok"} =>
     \/ home[i] = i /\ ap[i] \in {"creating", "available"}
     \/ home[i] = found[i] /\ found[i] # None

WorkspaceInv == \A i \in Invocation : Unshared(i) /\ FoundStays(i) /\ HomeIsGood(i)

LEMMA WorkspaceStart == Init => WorkspaceInv
BY NoneAssumption DEF Init, WorkspaceInv, Unshared, FoundStays, HomeIsGood

\* Who writes what: the stages are left for good, and an access point is changed by the request
\* that creates it, or becomes available.
LEMMA WorkspaceWrites ==
  ASSUME TypeOK, RollbackInv, [Next]_vars, NEW i \in Invocation
  PROVE  /\ pc'[i] \in {"idle"} \cup Calls => pc[i] \in {"idle"} \cup Calls
         /\ \/ found'[i] = found[i]
            \/ pc[i] = "findAP" /\ found'[i] \in AvailableFor(Target(i)) \cup {None}
         /\ \/ home'[i] = home[i]
            \/ pc[i] = "ensureAP" /\ (home'[i] = i \/ (home'[i] = found[i] /\ found[i] # None))
         /\ \/ ap'[i] = ap[i]
            \/ ap[i] = "creating" /\ ap'[i] = "available"
            \/ pc[i] = "ensureAP" /\ found[i] = None /\ ap'[i] = "creating"
               /\ (home'[i] = i \/ pc'[i] = "error")
            \/ pc[i] = "deleteAP" /\ pc'[i] \in {"deregister", "error"}
         /\ pc'[i] \in {"register", "runTask", "tag", "ok"} =>
              \/ pc'[i] = pc[i]
              \/ pc[i] \in {"register", "runTask", "tag"}
              \/ /\ pc[i] = "ensureAP"
                 /\ \/ home'[i] = found[i] /\ found[i] # None
                    \/ home'[i] = i /\ ap'[i] = "creating"
<1>1. ASSUME NEW j \in Invocation, Begin(j) \/ Invoke(j) \/ LambdaTimesOut(j), i # j
      PROVE  pc'[i] = pc[i] /\ home'[i] = home[i] /\ ap'[i] = ap[i] /\ found'[i] = found[i]
  BY <1>1, OthersStand
<1>2. CASE Environment \/ UNCHANGED vars
  BY <1>2, EnvironmentStands DEF lambdaVars
<1>3. CASE Begin(i) \/ LambdaTimesOut(i)
  BY <1>3 DEF Begin, LambdaTimesOut, Goto, TypeOK, LambdaType, awsVars, Active, Calls
<1>4. CASE FindExistingAccessPoint(i)
  BY <1>4 DEF FindExistingAccessPoint, Goto, TypeOK, LambdaType, awsVars, Calls
<1>5. CASE FindRunningTasks(i) \/ PreflightSessionCheck(i) \/ StopExistingTask(i) \/ WaitForTermination(i)
  BY <1>5 DEF FindRunningTasks, PreflightSessionCheck, StopExistingTask, WaitForTermination, Goto,
              TypeOK, LambdaType, awsVars, Calls
<1>6. CASE EnsureAccessPoint(i)
  BY <1>6 DEF EnsureAccessPoint, Goto, TypeOK, LambdaType, AwsType, Calls
<1>7. CASE GetCallerIdentityFails(i) \/ RegisterTaskDefinition(i) \/ RunTask(i) \/ TagTask(i)
  BY <1>7 DEF GetCallerIdentityFails, RegisterTaskDefinition, RunTask, TagTask, Goto, TypeOK,
              LambdaType, awsVars, Calls
<1>8. CASE DeregisterTaskDefinition(i) \/ StopOwnTask(i)
  BY <1>8 DEF DeregisterTaskDefinition, StopOwnTask, EndOfRound, Goto, TypeOK, LambdaType, awsVars,
              Calls
<1>9. CASE DeleteNewAccessPoint(i)
  BY <1>9 DEF DeleteNewAccessPoint, EndOfRound, Goto, TypeOK, LambdaType, Calls
<1>. QED BY <1>1, <1>2, <1>3, <1>4, <1>5, <1>6, <1>7, <1>8, <1>9 DEF Next, Invoke

LEMMA WorkspaceStep ==
  TypeOK /\ RollbackInv /\ OneAtATime /\ WorkspaceInv /\ [Next]_vars => WorkspaceInv'
<1>. SUFFICES ASSUME TypeOK, RollbackInv, OneAtATime, WorkspaceInv, [Next]_vars PROVE WorkspaceInv'
  OBVIOUS
<1>0. /\ found \in [Invocation -> Invocation \cup {None}]
      /\ home \in [Invocation -> Invocation \cup {None}]
  BY DEF TypeOK, LambdaType
\* A request that finds an access point finds one of a request that is over.
<1>1. ASSUME NEW i \in Invocation, pc[i] = "findAP", NEW a \in AvailableFor(Target(i))
      PROVE  a \in Invocation /\ a # i /\ pc[a] \notin {"idle"} \cup Calls /\ ap'[a] = "available"
  <2>1. a \in Invocation /\ ap[a] = "available"
    BY DEF AvailableFor
  <2>2. pc[a] \notin Early
    BY <2>1 DEF RollbackInv, MadeSoFar
  <2>3. a # i
    BY <1>1, <2>2 DEF Early
  <2>4. pc[a] \notin {"idle"} \cup Calls
    BY <1>1, <2>1, <2>2, <2>3 DEF OneAtATime, Active, Calls, Early
  <2>5. ap'[a] = "available"
    BY <2>1, <2>4, WorkspaceWrites DEF Calls
  <2>. QED BY <2>1, <2>3, <2>4, <2>5
<1>2. ASSUME NEW j \in Invocation PROVE Unshared(j)'
  <2>. SUFFICES ASSUME pc'[j] \in {"idle"} \cup Calls, NEW i \in Invocation, i # j
                PROVE  found'[i] # j /\ home'[i] # j
    BY DEF Unshared
  <2>1. pc[j] \in {"idle"} \cup Calls
    BY WorkspaceWrites
  <2>2. found[i] # j /\ home[i] # j
    BY <2>1 DEF WorkspaceInv, Unshared
  <2>3. found'[i] # j
    BY <1>1, <2>1, <2>2, WorkspaceWrites, NoneAssumption
  <2>4. home'[i] # j
    BY <2>2, WorkspaceWrites
  <2>. QED BY <2>3, <2>4
<1>3. ASSUME NEW i \in Invocation PROVE FoundStays(i)'
  <2>. SUFFICES ASSUME found'[i] # None PROVE found'[i] # i /\ ap'[found'[i]] = "available"
    BY DEF FoundStays
  <2>1. CASE found'[i] = found[i]
    <3>1. found[i] \in Invocation /\ found[i] # i /\ ap[found[i]] = "available"
      BY <1>0, <2>1 DEF WorkspaceInv, FoundStays
    <3>2. pc[found[i]] \notin {"ensureAP", "deleteAP"}
      BY <3>1 DEF WorkspaceInv, Unshared, Calls
    <3>3. ap'[found[i]] = "available"
      BY <3>1, <3>2, WorkspaceWrites
    <3>. QED BY <2>1, <3>1, <3>3
  <2>2. CASE found'[i] # found[i]
    BY <1>1, <2>2, WorkspaceWrites
  <2>. QED BY <2>1, <2>2
<1>4. ASSUME NEW i \in Invocation PROVE HomeIsGood(i)'
  <2>. SUFFICES ASSUME pc'[i] \in {"register", "runTask", "tag", "ok"}
                PROVE  \/ home'[i] = i /\ ap'[i] \in {"creating", "available"}
                       \/ home'[i] = found'[i] /\ found'[i] # None
    BY DEF HomeIsGood
  <2>1. CASE pc'[i] = pc[i] \/ pc[i] \in {"register", "runTask", "tag"}
    <3>1. HomeIsGood(i) /\ pc[i] \in {"register", "runTask", "tag", "ok"}
      BY <2>1 DEF WorkspaceInv
    <3>2. home'[i] = home[i] /\ found'[i] = found[i]
      BY <3>1, WorkspaceWrites
    <3>3. ap'[i] = ap[i] \/ (ap[i] = "creating" /\ ap'[i] = "available")
      BY <3>1, WorkspaceWrites
    <3>. QED BY <3>1, <3>2, <3>3 DEF HomeIsGood
  <2>2. CASE pc[i] = "ensureAP"
    <3>1. found'[i] = found[i]
      BY <2>2, WorkspaceWrites
    <3>2. \/ home'[i] = found[i] /\ found[i] # None
          \/ home'[i] = i /\ ap'[i] = "creating"
      BY <2>2, WorkspaceWrites
    <3>. QED BY <3>1, <3>2
  <2>. QED BY <2>1, <2>2, WorkspaceWrites
<1>. QED BY <1>2, <1>3, <1>4 DEF WorkspaceInv

\* Served one at a time, no request loses its workspace to the rollback of another one
\* (handler.py 844-862, 908-1046).
THEOREM WorkspacesSurvive == SerialSpec => []WorkspaceSurvives
<1>1. WorkspaceInv => WorkspaceSurvives
  BY DEF WorkspaceInv, HomeIsGood, FoundStays, WorkspaceSurvives
<1>2. TypeOK /\ RollbackInv /\ OneAtATime /\ WorkspaceInv /\ [SerialNext]_vars => WorkspaceInv'
  BY WorkspaceStep DEF SerialNext
<1>. QED BY <1>1, <1>2, WorkspaceStart, SerialInvariant, PTL DEF SerialSpec

-----------------------------------------------------------------------------
(* A request comes to an end. *)

\* One element less.
LEMMA Shrinks ==
  ASSUME NEW S, IsFiniteSet(S), NEW T, NEW x \in S, T \subseteq S \ {x}
  PROVE  Cardinality(T) \in Nat /\ Cardinality(S) \in Nat /\ Cardinality(T) < Cardinality(S)
<1>1. IsFiniteSet(S \ {x}) /\ Cardinality(S \ {x}) = Cardinality(S) - 1
  BY FS_RemoveElement
<1>2. IsFiniteSet(T) /\ Cardinality(T) <= Cardinality(S \ {x})
  BY <1>1, FS_Subset
<1>3. Cardinality(S) \in Nat /\ Cardinality(T) \in Nat
  BY <1>2, FS_CardinalityType
<1>. QED BY <1>1, <1>2, <1>3

\* What an invocation has still to look at is part of the invocations there are.
LEMMA CountsFit ==
  ASSUME IsFiniteSet(Invocation), TypeOK, NEW i \in Invocation
  PROVE  /\ IsFiniteSet(listed[i])
         /\ Cardinality(Invocation) \in Nat /\ Cardinality(listed[i]) \in Nat
         /\ Cardinality(listed[i]) <= Cardinality(Invocation)
         /\ Cardinality(listed[i] \ checked[i]) \in Nat
         /\ Cardinality(listed[i] \ checked[i]) <= Cardinality(listed[i])
         /\ Cardinality(listed[i] \ (waitFor[i] \cup failed[i])) \in Nat
         /\ Cardinality(listed[i] \ (waitFor[i] \cup failed[i])) <= Cardinality(listed[i])
<1>1. IsFiniteSet(listed[i]) /\ Cardinality(listed[i]) <= Cardinality(Invocation)
  BY FS_Subset DEF TypeOK, HandoverType
<1>2. /\ IsFiniteSet(listed[i] \ checked[i])
      /\ Cardinality(listed[i] \ checked[i]) <= Cardinality(listed[i])
  BY <1>1, FS_Subset
<1>3. /\ IsFiniteSet(listed[i] \ (waitFor[i] \cup failed[i]))
      /\ Cardinality(listed[i] \ (waitFor[i] \cup failed[i])) <= Cardinality(listed[i])
  BY <1>1, FS_Subset
<1>. QED BY <1>1, <1>2, <1>3, FS_CardinalityType

\* The calls left at the stages after the handover, and at its end.
LEMMA CallsByStage ==
  ASSUME NEW i \in Invocation
  PROVE  /\ pc[i] = "ensureAP" => CallsLeft(i) = 10
         /\ pc[i] = "register" => CallsLeft(i) = 9
         /\ pc[i] = "runTask" => CallsLeft(i) = 8
         /\ pc[i] = "tag" => CallsLeft(i) = 7
         /\ pc[i] = "deregister" => CallsLeft(i) = 3 * rollbacks[i]
         /\ pc[i] = "stopOwn" => CallsLeft(i) = 3 * rollbacks[i] - 1
         /\ pc[i] = "deleteAP" => CallsLeft(i) = 3 * rollbacks[i] - 2
         /\ pc[i] = "wait" => CallsLeft(i) = 11
         /\ pc[i] \in {"idle"} \cup Responses => CallsLeft(i) = 0
BY DEF CallsLeft, Responses

LEMMA CallsByNextStage ==
  ASSUME NEW i \in Invocation
  PROVE  /\ pc'[i] = "ensureAP" => CallsLeft(i)' = 10
         /\ pc'[i] = "register" => CallsLeft(i)' = 9
         /\ pc'[i] = "runTask" => CallsLeft(i)' = 8
         /\ pc'[i] = "tag" => CallsLeft(i)' = 7
         /\ pc'[i] = "deregister" => CallsLeft(i)' = 3 * rollbacks'[i]
         /\ pc'[i] = "stopOwn" => CallsLeft(i)' = 3 * rollbacks'[i] - 1
         /\ pc'[i] = "deleteAP" => CallsLeft(i)' = 3 * rollbacks'[i] - 2
         /\ pc'[i] = "wait" => CallsLeft(i)' = 11
         /\ pc'[i] \in {"idle"} \cup Responses => CallsLeft(i)' = 0
BY DEF CallsLeft, Responses

LEMMA CallsAreCounted ==
  ASSUME IsFiniteSet(Invocation), TypeOK, RollbackBudget, NEW i \in Invocation
  PROVE  CallsLeft(i) \in Nat
<1>0. /\ Cardinality(Invocation) \in Nat /\ Cardinality(listed[i]) \in Nat
      /\ Cardinality(listed[i] \ checked[i]) \in Nat
      /\ Cardinality(listed[i] \ (waitFor[i] \cup failed[i])) \in Nat
  BY CountsFit
<1>1. pc[i] \in Stages /\ (pc[i] \in {"deregister", "stopOwn", "deleteAP"} => rollbacks[i] \in 1..2)
  BY DEF TypeOK, LambdaType, RollbackBudget
<1>2. CASE pc[i] = "findAP"
  <2>1. CallsLeft(i) = 2 * Cardinality(Invocation) + 13
    BY <1>2 DEF CallsLeft
  <2>. QED BY <1>0, <2>1
<1>3. CASE pc[i] = "listTasks"
  <2>1. CallsLeft(i) = 2 * Cardinality(Invocation) + 12
    BY <1>3 DEF CallsLeft
  <2>. QED BY <1>0, <2>1
<1>4. CASE pc[i] = "preflight"
  <2>1. CallsLeft(i) = Cardinality(listed[i] \ checked[i]) + Cardinality(listed[i]) + 11
    BY <1>4 DEF CallsLeft
  <2>. QED BY <1>0, <2>1
<1>5. CASE pc[i] = "stopTasks"
  <2>1. CallsLeft(i) = Cardinality(listed[i] \ (waitFor[i] \cup failed[i])) + 11
    BY <1>5 DEF CallsLeft
  <2>. QED BY <1>0, <2>1
<1>6. CASE pc[i] \in {"deregister", "stopOwn", "deleteAP"}
  BY <1>1, <1>6, CallsByStage
<1>7. CASE pc[i] \in {"wait", "ensureAP", "register", "runTask", "tag", "idle"} \cup Responses
  BY <1>7, CallsByStage
<1>. QED BY <1>1, <1>2, <1>3, <1>4, <1>5, <1>6, <1>7 DEF Stages, Calls

\* The calls of the handover.
LEMMA HandoverUsesCalls ==
  ASSUME IsFiniteSet(Invocation), TypeOK, TypeOK', NEW i \in Invocation,
         \/ FindExistingAccessPoint(i) \/ FindRunningTasks(i) \/ PreflightSessionCheck(i)
         \/ StopExistingTask(i) \/ WaitForTermination(i)
  PROVE  CallsLeft(i)' \in 0 .. (CallsLeft(i) - 1)
<1>0. Cardinality(Invocation) \in Nat /\ pc \in [Invocation -> Stages]
  BY CountsFit DEF TypeOK, LambdaType
<1>1. CASE FindExistingAccessPoint(i)
  <2>1. pc[i] = "findAP" /\ pc'[i] \in {"ensureAP", "listTasks", "error"}
    BY <1>0, <1>1 DEF FindExistingAccessPoint, Goto
  <2>2. CallsLeft(i) = 2 * Cardinality(Invocation) + 13
    BY <2>1 DEF CallsLeft
  <2>3. pc'[i] = "listTasks" => CallsLeft(i)' = 2 * Cardinality(Invocation) + 12
    BY DEF CallsLeft
  <2>. QED BY <1>0, <2>1, <2>2, <2>3, CallsByNextStage DEF Responses
<1>2. CASE FindRunningTasks(i)
  <2>1. pc[i] = "listTasks" /\ pc'[i] \in {"ensureAP", "preflight", "error"}
    BY <1>0, <1>2 DEF FindRunningTasks, Goto
  <2>2. /\ Cardinality(listed'[i]) \in Nat /\ Cardinality(listed'[i]) <= Cardinality(Invocation)
        /\ Cardinality(listed'[i] \ checked'[i]) \in Nat
        /\ Cardinality(listed'[i] \ checked'[i]) <= Cardinality(listed'[i])
    <3>1. listed'[i] \subseteq Invocation
      BY DEF TypeOK, HandoverType
    <3>2. IsFiniteSet(listed'[i]) /\ Cardinality(listed'[i]) <= Cardinality(Invocation)
      BY <3>1, FS_Subset
    <3>3. /\ IsFiniteSet(listed'[i] \ checked'[i])
          /\ Cardinality(listed'[i] \ checked'[i]) <= Cardinality(listed'[i])
      BY <3>2, FS_Subset
    <3>. QED BY <3>2, <3>3, FS_CardinalityType
  <2>3. CallsLeft(i) = 2 * Cardinality(Invocation) + 12
    BY <2>1 DEF CallsLeft
  <2>4. pc'[i] = "preflight" =>
          CallsLeft(i)' = Cardinality(listed'[i] \ checked'[i]) + Cardinality(listed'[i]) + 11
    BY DEF CallsLeft
  <2>. QED BY <1>0, <2>1, <2>2, <2>3, <2>4, CallsByNextStage DEF Responses
<1>3. CASE PreflightSessionCheck(i)
  <2>1. pc[i] = "preflight" /\ listed'[i] = listed[i] /\ waitFor'[i] = waitFor[i]
        /\ failed'[i] = failed[i]
    BY <1>3 DEF PreflightSessionCheck
  <2>2. PICK t \in listed[i] \ checked[i] :
          \/ pc'[i] \in {"conflict", "error"}
          \/ checked'[i] = checked[i] \cup {t} /\ pc'[i] \in {"preflight", "stopTasks"}
    BY <1>0, <1>3 DEF PreflightSessionCheck, Goto, TypeOK, HandoverType
  <2>3. /\ IsFiniteSet(listed[i] \ checked[i])
        /\ Cardinality(listed[i] \ checked[i]) \in Nat /\ Cardinality(listed[i] \ checked[i]) >= 1
    <3>1. IsFiniteSet(listed[i] \ checked[i])
      BY CountsFit, FS_Subset
    <3>2. /\ Cardinality({}) < Cardinality(listed[i] \ checked[i])
          /\ Cardinality(listed[i] \ checked[i]) \in Nat
      BY <3>1, <2>2, Shrinks
    <3>. QED BY <3>1, <3>2, FS_EmptySet
  <2>0. Cardinality(listed[i]) \in Nat
    BY CountsFit
  <2>4. CallsLeft(i) = Cardinality(listed[i] \ checked[i]) + Cardinality(listed[i]) + 11
    BY <2>1 DEF CallsLeft
  <2>5. CASE pc'[i] \in {"conflict", "error"}
    BY <2>0, <2>3, <2>4, <2>5, CallsByNextStage DEF Responses
  <2>6. CASE checked'[i] = checked[i] \cup {t} /\ pc'[i] = "preflight"
    <3>1. /\ Cardinality(listed[i] \ checked'[i]) \in Nat
          /\ Cardinality(listed[i] \ checked'[i]) < Cardinality(listed[i] \ checked[i])
      BY <2>3, <2>6, Shrinks
    <3>2. CallsLeft(i)' = Cardinality(listed[i] \ checked'[i]) + Cardinality(listed[i]) + 11
      BY <2>1, <2>6 DEF CallsLeft
    <3>. QED BY <2>0, <2>3, <2>4, <3>1, <3>2
  <2>7. CASE pc'[i] = "stopTasks"
    <3>1. CallsLeft(i)' = Cardinality(listed[i] \ (waitFor[i] \cup failed[i])) + 11
      BY <2>1, <2>7 DEF CallsLeft
    <3>. QED BY <2>3, <2>4, <3>1, CountsFit
  <2>. QED BY <2>2, <2>5, <2>6, <2>7
<1>4. CASE StopExistingTask(i)
  <2>1. pc[i] = "stopTasks" /\ listed'[i] = listed[i] /\ pc'[i] \in {"wait", "stopTasks"}
    BY <1>0, <1>4 DEF StopExistingTask, Goto
  <2>2. PICK t \in listed[i] \ (waitFor[i] \cup failed[i]) :
          waitFor'[i] \cup failed'[i] = waitFor[i] \cup failed[i] \cup {t}
    BY <1>4 DEF StopExistingTask, TypeOK, HandoverType
  <2>3. IsFiniteSet(listed[i] \ (waitFor[i] \cup failed[i]))
    BY CountsFit, FS_Subset
  <2>4. /\ Cardinality(listed[i] \ (waitFor'[i] \cup failed'[i])) \in Nat
        /\ Cardinality(listed[i] \ (waitFor[i] \cup failed[i])) \in Nat
        /\ Cardinality(listed[i] \ (waitFor'[i] \cup failed'[i]))
             < Cardinality(listed[i] \ (waitFor[i] \cup failed[i]))
    BY <2>2, <2>3, Shrinks
  <2>5. CallsLeft(i) = Cardinality(listed[i] \ (waitFor[i] \cup failed[i])) + 11
    BY <2>1 DEF CallsLeft
  <2>6. pc'[i] = "stopTasks" =>
          CallsLeft(i)' = Cardinality(listed[i] \ (waitFor'[i] \cup failed'[i])) + 11
    BY <2>1 DEF CallsLeft
  <2>. QED BY <2>1, <2>4, <2>5, <2>6, CallsByNextStage
<1>5. CASE WaitForTermination(i)
  <2>1. pc[i] = "wait" /\ pc'[i] \in {"ensureAP", "error"}
    BY <1>0, <1>5 DEF WaitForTermination, Goto
  <2>. QED BY <2>1, CallsByStage, CallsByNextStage DEF Responses
<1>. QED BY <1>1, <1>2, <1>3, <1>4, <1>5

\* The calls of the launch and of the rollback.
LEMMA LaunchUsesCalls ==
  ASSUME TypeOK, RollbackBudget, NEW i \in Invocation,
         \/ EnsureAccessPoint(i) \/ GetCallerIdentityFails(i) \/ RegisterTaskDefinition(i)
         \/ RunTask(i) \/ TagTask(i)
         \/ DeregisterTaskDefinition(i) \/ StopOwnTask(i) \/ DeleteNewAccessPoint(i)
  PROVE  CallsLeft(i)' \in 0 .. (CallsLeft(i) - 1)
<1>0. /\ pc \in [Invocation -> Stages] /\ rollbacks \in [Invocation -> 0..2]
      /\ pc[i] \in {"deregister", "stopOwn", "deleteAP"} => rollbacks[i] \in 1..2
  BY DEF TypeOK, LambdaType, RollbackType, RollbackBudget
<1>1. CASE EnsureAccessPoint(i) \/ GetCallerIdentityFails(i)
  <2>1. \/ pc[i] = "ensureAP" /\ pc'[i] \in {"ok", "register", "error"}
        \/ pc[i] = "register" /\ pc'[i] = "error"
    BY <1>0, <1>1 DEF EnsureAccessPoint, GetCallerIdentityFails, Goto
  <2>. QED BY <2>1, CallsByStage, CallsByNextStage DEF Responses
<1>2. CASE RegisterTaskDefinition(i)
  <2>1. /\ pc[i] = "register"
        /\ \/ pc'[i] \in {"runTask", "error"}
           \/ pc'[i] = "deleteAP" /\ rollbacks'[i] = 1
    BY <1>0, <1>2 DEF RegisterTaskDefinition, Goto
  <2>. QED BY <2>1, CallsByStage, CallsByNextStage DEF Responses
<1>3. CASE RunTask(i) \/ TagTask(i)
  <2>1. \/ pc[i] = "runTask" /\ pc'[i] \in {"tag", "error"}
        \/ pc[i] = "tag" /\ pc'[i] \in {"ok", "error"}
        \/ pc[i] \in {"runTask", "tag"} /\ pc'[i] = "deregister" /\ rollbacks'[i] \in 1..2
    BY <1>0, <1>3 DEF RunTask, TagTask, Goto
  <2>. QED BY <2>1, CallsByStage, CallsByNextStage DEF Responses
<1>4. CASE DeregisterTaskDefinition(i)
  <2>1. pc[i] = "deregister" /\ pc'[i] = "stopOwn" /\ rollbacks'[i] = rollbacks[i]
    BY <1>0, <1>4 DEF DeregisterTaskDefinition, Goto
  <2>. QED BY <1>0, <2>1, CallsByStage, CallsByNextStage
<1>5. CASE StopOwnTask(i) \/ DeleteNewAccessPoint(i)
  <2>1. \/ pc[i] = "stopOwn" /\ pc'[i] = "deleteAP" /\ rollbacks'[i] = rollbacks[i]
        \/ /\ pc[i] \in {"stopOwn", "deleteAP"} /\ rollbacks'[i] = rollbacks[i] - 1
           /\ pc'[i] = IF rollbacks[i] > 1 THEN "deregister" ELSE "error"
    BY <1>0, <1>5 DEF StopOwnTask, DeleteNewAccessPoint, EndOfRound, Goto
  <2>. QED BY <1>0, <2>1, CallsByStage, CallsByNextStage DEF Responses
<1>. QED BY <1>1, <1>2, <1>3, <1>4, <1>5

\* What the others do, and the timeout of the Lambda, adds no calls.
LEMMA OthersAddNoCalls ==
  ASSUME IsFiniteSet(Invocation), TypeOK, RollbackBudget, [Next]_vars, NEW i \in Invocation,
         ~Invoke(i), Active(i)
  PROVE  CallsLeft(i)' <= CallsLeft(i)
<1>0. CallsLeft(i) \in Nat
  BY CallsAreCounted
<1>1. CASE LambdaTimesOut(i)
  <2>1. pc'[i] = "killed"
    BY <1>1 DEF LambdaTimesOut, Goto, TypeOK, LambdaType
  <2>. QED BY <1>0, <2>1, CallsByNextStage DEF Responses
<1>2. CASE ~LambdaTimesOut(i)
  <2>1. /\ pc'[i] = pc[i] /\ listed'[i] = listed[i] /\ checked'[i] = checked[i]
        /\ waitFor'[i] = waitFor[i] /\ failed'[i] = failed[i] /\ rollbacks'[i] = rollbacks[i]
    <3>1. ASSUME NEW j \in Invocation, j # i, Begin(j) \/ Invoke(j) \/ LambdaTimesOut(j)
          PROVE  /\ pc'[i] = pc[i] /\ listed'[i] = listed[i] /\ checked'[i] = checked[i]
                 /\ waitFor'[i] = waitFor[i] /\ failed'[i] = failed[i]
                 /\ rollbacks'[i] = rollbacks[i]
      <4>1. CASE Begin(j) \/ LambdaTimesOut(j) \/ FindExistingAccessPoint(j)
                 \/ FindRunningTasks(j) \/ PreflightSessionCheck(j)
        BY <3>1, <4>1 DEF Begin, LambdaTimesOut, FindExistingAccessPoint, FindRunningTasks,
                    PreflightSessionCheck, Goto, TypeOK, LambdaType, HandoverType, handoverVars,
                    rollbackVars
      <4>2. CASE StopExistingTask(j) \/ WaitForTermination(j)
        BY <3>1, <4>2 DEF StopExistingTask, WaitForTermination, Goto, TypeOK, LambdaType,
                    HandoverType, rollbackVars
      <4>3. CASE EnsureAccessPoint(j) \/ GetCallerIdentityFails(j) \/ RegisterTaskDefinition(j)
                 \/ RunTask(j) \/ TagTask(j)
        BY <3>1, <4>3 DEF EnsureAccessPoint, GetCallerIdentityFails, RegisterTaskDefinition,
                    RunTask, TagTask, Goto, TypeOK, LambdaType, RollbackType, handoverVars,
                    rollbackVars
      <4>4. CASE DeregisterTaskDefinition(j) \/ StopOwnTask(j) \/ DeleteNewAccessPoint(j)
        BY <3>1, <4>4 DEF DeregisterTaskDefinition, StopOwnTask, DeleteNewAccessPoint, EndOfRound,
                    Goto, TypeOK, LambdaType, RollbackType, handoverVars
      <4>. QED BY <3>1, <4>1, <4>2, <4>3, <4>4 DEF Invoke
    <3>2. ~Begin(i)
      BY DEF Begin, Active, Calls
    <3>3. CASE Environment \/ UNCHANGED vars
      BY <3>3, EnvironmentStands DEF lambdaVars, handoverVars, rollbackVars
    <3>. QED BY <1>2, <3>1, <3>2, <3>3 DEF Next
  <2>2. CallsLeft(i)' = CallsLeft(i)
    BY <2>1 DEF CallsLeft
  <2>. QED BY <1>0, <2>2
<1>. QED BY <1>1, <1>2

\* However many tasks a request finds, and whatever fails: it makes at most two calls for each
\* task and eleven more (handler.py 594-1070).
THEOREM RequestsEnd ==
  ASSUME IsFiniteSet(Invocation)
  PROVE  Spec => CallsRunOut
<1>1. ASSUME TypeOK, RollbackBudget, TypeOK', [Next]_vars, NEW i \in Invocation
      PROVE  /\ Active(i) => CallsLeft(i)' <= CallsLeft(i)
             /\ Invoke(i) => CallsLeft(i)' \in 0 .. (CallsLeft(i) - 1)
  <2>1. CASE Invoke(i)
    <3>1. CallsLeft(i)' \in 0 .. (CallsLeft(i) - 1)
      BY <1>1, <2>1, HandoverUsesCalls, LaunchUsesCalls DEF Invoke
    <3>2. CallsLeft(i) \in Nat
      BY <1>1, CallsAreCounted
    <3>. QED BY <3>1, <3>2
  <2>2. CASE ~Invoke(i)
    BY <1>1, <2>2, OthersAddNoCalls
  <2>. QED BY <2>1, <2>2
<1>2. TypeOK /\ RollbackBudget /\ TypeOK' /\ [Next]_vars =>
        [\A i \in Invocation :
           /\ Active(i) => CallsLeft(i)' <= CallsLeft(i)
           /\ Invoke(i) => CallsLeft(i)' \in 0 .. (CallsLeft(i) - 1)]_vars
  BY <1>1
<1>. QED BY <1>2, TypeInit, TypeStep, BudgetStep, PTL DEF Spec, CallsRunOut
=============================================================================
