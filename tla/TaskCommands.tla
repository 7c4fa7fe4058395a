---------------------------- MODULE TaskCommands -----------------------------
(***************************************************************************)
(* The commands that work on the tasks of an investigation, run by several *)
(* processes at once: start-task, create-investigation, join-task,         *)
(* stop-task (internal/cmd), and the credential commands of                *)
(* OcmCredentials.  Authentication is over: Login models it.               *)
(*                                                                         *)
(* The Lambda is what the command sees of it: CreateInvestigation models   *)
(* it in full.  Its answer may be lost; the SDK then calls it again.       *)
(***************************************************************************)
EXTENDS OcmCredentials

Init ==
  /\ task \in {f \in [Task -> {"none", "running"}] : \A t, u \in Task : f[t] = f[u] => t = u \/ f[t] = "none"}
  /\ agent \in SUBSET {t \in Task : Up(t)}
  /\ config = [t \in Task |-> None]
  /\ session = [p \in Process |-> NoSession]
  /\ port = None
  /\ proc = [p \in Process |-> Unstarted]

Credentials(l) == l.ocm \/ l.cmd \in {"configure", "clear"}

FirstStage(l) ==
  CASE l.cmd \in {"start-task", "create-investigation"} -> "lambda"
    [] l.cmd = "join-task" -> "describe"
    [] l.cmd = "stop-task" -> "stop"
    [] OTHER -> "prepare"

\* A task is named by the one who launched it, or found with list-tasks.
Begin(p) ==
  /\ proc[p].pc = "idle"
  /\ \E l \in Line :
       /\ l.task # None => task[l.task] # "none"
       /\ Set(p, [proc[p] EXCEPT !.pc = FirstStage(l), !.line = l, !.task = l.task,
                    !.goal = IF Credentials(l) THEN "credentials" ELSE "shell"])
  /\ UNCHANGED <<task, agent, config, session, port>>

-----------------------------------------------------------------------------
(* The Lambda. *)

InSession(t) == \E q \in Process : proc[q].task = t /\ session[q].plugin = "up"

\* Fault: the tasks of the investigation are left running.
MutNeedsHandover(t) == FALSE

\* Listed with the desired status RUNNING.
NeedsHandover(t) == task[t] \in {"pending", "running"}

\* An invocation for p lists the tasks and finds no session in them, with the other invocations
\* for p at work: the SDK repeats a call whose answer is late, and the Lambda knows of no repetition.
\* Invocations that have found the same are one element of calls.
ListTasks(p) ==
  /\ proc[p].pc = "lambda" /\ proc[p].line.cmd = "start-task"
  /\ LET found == {t \in Task : NeedsHandover(t)}
     IN /\ \A t \in found : ~InSession(t)
        /\ Set(p, [proc[p] EXCEPT !.calls = @ \cup {found}])
  /\ UNCHANGED <<task, agent, config, session, port>>

\* What an invocation has found is told to stop.
HandOver(p) ==
  /\ \E found \in proc[p].calls : \E t \in found : task' = Told(task, t) /\ task' # task
  /\ UNCHANGED <<agent, config, session, port, proc>>

\* The task is launched when what was found has stopped.  The answer arrives, or it is lost:
\* with the connection, or with a command that has ended or was answered by another invocation.
LaunchTask(p) ==
  /\ \E found \in proc[p].calls : \E others \in {proc[p].calls, proc[p].calls \ {found}} :
     \E t \in Task :
       /\ \A u \in found : task[u] = "stopped"
       /\ task[t] = "none"
       /\ task' = [task EXCEPT ![t] = "pending"]
       /\ \/ /\ proc[p].pc = "lambda"
             /\ Set(p, [proc[p] EXCEPT !.pc = "answered", !.task = t, !.calls = others])
          \/ Set(p, [proc[p] EXCEPT !.calls = others,
                                    !.lost = IF others = {} /\ proc[p].pc = "lambda" THEN @ \cup {t} ELSE @])
  /\ UNCHANGED <<agent, config, session, port>>

\* An invocation fails, or is out of time.
InvocationEnds(p) ==
  /\ \E found \in proc[p].calls : Set(p, [proc[p] EXCEPT !.calls = @ \ {found}])
  /\ UNCHANGED <<task, agent, config, session, port>>

\* skip_task: an access point, and no task.
CreateWorkspace(p) ==
  /\ proc[p].pc = "lambda" /\ proc[p].line.cmd = "create-investigation"
  /\ Goto(p, "done")
  /\ UNCHANGED <<task, agent, config, session, port>>

\* The last invocation fails, or its answer is an error: an active session, a failed launch.
LambdaFails(p) ==
  /\ proc[p].pc = "lambda"
  /\ Fail(p)
  /\ UNCHANGED <<task, agent, config, session, port>>

-----------------------------------------------------------------------------
(* start-task, after the Lambda. *)

\* Fault: the ID is told when the role has been assumed.
MutAnnounceTask(p) ==
  /\ proc[p].pc = "answered"
  /\ Goto(p, "role")
  /\ UNCHANGED <<task, agent, config, session, port>>

\* "Investigation created: task".  The Lambda always answers with its role.
AnnounceTask(p) ==
  /\ proc[p].pc = "answered"
  /\ Set(p, [proc[p] EXCEPT !.pc = "role", !.told = TRUE])
  /\ UNCHANGED <<task, agent, config, session, port>>

AssumeSreRole(p) ==
  /\ proc[p].pc = "role"
  /\ \/ Goto(p, IF proc[p].line.noWait THEN "summary" ELSE "wait")
     \/ Fail(p)
  /\ UNCHANGED <<task, agent, config, session, port>>

\* A task that is late is only warned of.
AwaitTask(p) ==
  /\ proc[p].pc = "wait"
  /\ LET next == IF proc[p].line.ocm THEN "prepare" ELSE "summary"
     IN WaitForRunning(p, next, next)

\* The summary cannot be written, or it is the end, or the session is next.
PrintSummary(p) ==
  /\ proc[p].pc = "summary"
  /\ \/ Fail(p)
     \/ IF proc[p].line.connect /\ ~proc[p].line.noWait
        THEN Set(p, [proc[p] EXCEPT !.pc = "describe", !.told = TRUE, !.goal = "shell"])
        ELSE Set(p, [proc[p] EXCEPT !.pc = "done", !.told = TRUE])
  /\ UNCHANGED <<task, agent, config, session, port>>

-----------------------------------------------------------------------------
(* join-task and stop-task. *)

\* A pending task, or one that is on its way to be stopped, is not RUNNING.
DescribeTask(p) ==
  /\ proc[p].pc = "describe"
  /\ \/ Up(proc[p].task) /\ Goto(p, "agent")
     \/ task[proc[p].task] # "running" /\ ~proc[p].line.noWait /\ Goto(p, "waitRunning")
     \/ Fail(p)
  /\ UNCHANGED <<task, agent, config, session, port>>

AwaitJoined(p) == proc[p].pc = "waitRunning" /\ WaitForRunning(p, "agent", "failed")

StopTask(p) ==
  /\ proc[p].pc = "stop"
  /\ \/ /\ task' = Told(task, proc[p].task)
        /\ Goto(p, IF proc[p].line.noWait THEN "done" ELSE "waitStopped")
     \/ UNCHANGED task /\ Fail(p)
  /\ UNCHANGED <<agent, config, session, port>>

\* Up to ten minutes.
WaitForStopped(p) ==
  /\ proc[p].pc = "waitStopped"
  /\ \/ task[proc[p].task] = "stopped" /\ Goto(p, "done")
     \/ Fail(p)
  /\ UNCHANGED <<task, agent, config, session, port>>

-----------------------------------------------------------------------------
\* The user interrupts the command, and the plugin with it.
Kill(p) ==
  /\ Running(p)
  /\ Goto(p, "killed") /\ Free(p)
  /\ SetSession(p, IF session[p].plugin = "up" THEN [session[p] EXCEPT !.plugin = "ended"] ELSE session[p])
  /\ UNCHANGED <<task, agent, config>>

\* run of the transfer, and its deadline.
Transfer(p) ==
  \/ StartPlugin(p) \/ ReadReady(p) \/ ReadSuccess(p) \/ ReadJunk(p) \/ ReadEnd(p)
  \/ Finish(p) \/ Timeout(p)

\* What p does by itself, and what its clocks do.
Command(p) ==
  \/ CreateWorkspace(p) \/ LambdaFails(p)
  \/ AnnounceTask(p) \/ AssumeSreRole(p) \/ AwaitTask(p) \/ PrintSummary(p)
  \/ DescribeTask(p) \/ AwaitJoined(p) \/ StopTask(p) \/ WaitForStopped(p)
  \/ Prepare(p) \/ WaitForExecAgent(p) \/ OpenSession(p)
  \/ AcquireDevice(p) \/ ListenForCallback(p) \/ AwaitCallback(p)
  \/ Transfer(p)

Lambda(p) == ListTasks(p) \/ HandOver(p) \/ LaunchTask(p) \/ InvocationEnds(p)

Helper(p) ==
  \/ HelperReady(p) \/ HelperReceive(p) \/ HelperDecode(p) \/ HelperBuild(p) \/ HelperInstall(p)
  \/ HelperClear(p) \/ HelperClearRequests(p) \/ HelperClearRest(p) \/ HelperSuccess(p) \/ HelperFails(p)

Next ==
  \/ \E p \in Process : Begin(p) \/ Command(p) \/ Lambda(p) \/ Helper(p) \/ PluginEnds(p) \/ Kill(p)
  \/ \E p, q \in Process : Callback(p, q)
  \/ \E t \in Task : Place(t) \/ Register(t) \/ StopByOthers(t) \/ Exit(t)

Spec == Init /\ [][Next]_vars

\* The transfer goes on, and its timeout comes: nothing is assumed of the calls before it, which
\* have no deadline, of the task, the helper, the plugin or the user.
FairSpec == Spec /\ \A p \in Process : WF_vars(Transfer(p))

-----------------------------------------------------------------------------
\* The types, and a listener only where a login waits.
TypeOK ==
  /\ task \in [Task -> {"none", "pending", "running", "draining", "stopped"}]
  /\ agent \subseteq {t \in Task : Up(t)}
  /\ config \in [Task -> Process \cup {None}]
  /\ session \in [Process -> SessionState]
  /\ proc \in [Process -> ProcessState]
  /\ port # None => proc[port].pc = "await"

\* A task that the Lambda handed to start-task, and that start-task did not bring to an end,
\* has been named to the user, who can stop it (start_task.go:128): only the interrupted
\* command may keep it to itself.
CreatedTaskIsNamed ==
  \A p \in Process :
    proc[p].line # None /\ proc[p].line.cmd = "start-task" /\ proc[p].task # None
      /\ proc[p].pc \in {"done", "failed"} => proc[p].told

\* A task that was launched in an answer that was lost, with no other invocation for the command at
\* work, and that no user was told of, has been told to stop before a repeated call hands over
\* another one (handler.py:685-744): what the repeated invocation lists it also stops, and it waits
\* for that before it launches.  Invocations that overlap may each launch a task.
RetryReplacesLost ==
  \A p \in Process : proc[p].task # None => \A t \in proc[p].lost : task[t] \in {"draining", "stopped"}

\* From the end of WaitForExecAgent to the session (ecs.go:150): the agent of the task has
\* registered, or the task is gone, however long the OCM login takes in between.
SessionNeedsAgent ==
  \A p \in Process :
    proc[p].pc \in {"acquire", "await", "exec", "plugin"} => proc[p].task \in agent \/ task[proc[p].task] = "stopped"

\* The token is written to the session only after the helper has switched the echo of the
\* terminal off (transfer.go:43): it shows in the session's log only if the helper has ended
\* meanwhile, and switched the echo on again.
RequestUnderNoEcho == \A p \in Process : session[p].sent => session[p].helper # "started"

\* A browser login is answered with the redirect of its own tab, although an earlier process
\* used the same callback port (auth.go:285).
UploadsOwnLogin ==
  \A p \in Process : session[p].sent /\ ~proc[p].line.device => proc[p].answer = p

\* A command that reports configured or cleared credentials, or goes on to connect, has changed
\* the task: its helper has installed the request or cleared (transfer.go:197).  Or it has come to
\* the end of clear and an rm has failed, after which clear_ocm prints the marker all the same
\* (helper:145-150): a clear that reports success may have kept something.
ReportIsTrue ==
  \A p \in Process :
    /\ proc[p].line # None /\ Credentials(proc[p].line)
    /\ \/ proc[p].pc = "done"
       \/ proc[p].line.cmd = "start-task" /\ proc[p].pc \in {"summary", "describe", "waitRunning"}
    => \/ proc[p].installed
       \/ session[p].kept /\ session[p].helper = "ended"

\* A configure that had its request or its candidate on disk when clear began, and has not installed
\* it before rm came to it, does not install it once clear has ended, when no rm has failed: rm
\* goes through the requests before the candidates, the order in which a helper makes them
\* (helper:87-119, 145-149).  A helper that has not got past mktemp when clear begins is not
\* among them: its redirects make both files again.
ClearTakesCandidates ==
  [][\A p, q \in Process :
       session[p].helper = "sweeping" /\ session'[p].helper = "installed" /\ ~session'[p].kept
         /\ q \in session[p].ready
         => session'[q].helper \notin {"decoded", "checking"}]_vars

\* How far a process is with the task, as CredentialDelivery sees it ...
Phase(r, s) ==
  IF r.installed THEN "effective"
  ELSE CASE s.helper = "none" -> "none"
         [] s.helper \in {"started", "listening", "made", "decoded", "checking"} ->
              IF r.line.cmd = "clear" THEN "clearing" ELSE "configuring"
         [] s.helper \in {"clearing", "sweeping"} -> IF s.kept THEN "failing" ELSE "removed"
         [] OTHER -> IF s.kept THEN "kept" ELSE "void"

Where(r, s) == IF s.helper = "none" THEN None ELSE r.task

\* ... and what it says of it.
Says(r) ==
  IF r.line = None \/ ~Credentials(r.line) THEN "nothing"
  ELSE IF r.pc \in {"failed", "killed"} THEN "failure"
  ELSE IF r.pc \in {"done", "summary"} \/ r.goal = "shell" THEN "success"
  ELSE "nothing"

Delivery ==
  INSTANCE CredentialDelivery
    WITH phase <- [p \in Process |-> Phase(proc[p], session[p])],
         where <- [p \in Process |-> Where(proc[p], session[p])],
         says <- [p \in Process |-> Says(proc[p])]

\* The sessions, the markers, the plugin, the files of the helper and the steps of clear come to no
\* more than CredentialDelivery: each command changes its task at most once and in one step, what
\* is configured is of the last that took effect, nothing comes back with a task that has ended,
\* and success is that of the task, or of a clear that has come to its end with an rm that has
\* failed (transfer.go:197, helper:145-150).
CredentialsDelivered == Delivery!Spec

Transferring(p) == proc[p].pc \in {"read", "drain"}

\* "Transfer performs the bounded helper protocol" (transfer.go:26): it ends, after a minute at
\* the latest.  It does not when the plugin ends, or is killed, before the success marker and
\* with nothing left to write: cmd.Run waits for the copy of stdin to end, the copy for the
\* reader to close stdin, and the reader for cmd.Run.
TransferEnds == \A p \in Process : Transferring(p) ~> ~Transferring(p)

=============================================================================
