-------------------------- MODULE TaskCommandsProofs --------------------------
(***************************************************************************)
(* Theorems about TaskCommands, for any processes, tasks and command       *)
(* lines: tasks that the Lambda launched are known to somebody, sessions   *)
(* are opened when the agent is there, tokens are sent when the terminal   *)
(* does not echo and only by the login they belong to, and what a command  *)
(* reports has happened.                                                   *)
(*                                                                         *)
(* A step changes one process and its session.  Fits says what holds of    *)
(* these two and the tasks; ProcessMoves that it is enough to show it for  *)
(* the process that has moved.                                             *)
(***************************************************************************)
EXTENDS TaskCommands, TLAPS

Finished == {"done", "failed", "killed"}
Uploading == {"prepare", "acquire", "await", "plugin", "read", "drain"}

\* The command has not come to its transfer yet.
Before(r) ==
  \/ r.pc \in {"idle", "lambda", "answered", "role", "wait"}
  \/ r.goal = "credentials" /\ r.pc \in {"prepare", "agent", "acquire", "await", "exec", "plugin"}

\* Where a command of each kind can stand, and what it has by then.
StageFits(r) ==
  /\ r.pc = "idle" => r = Unstarted
  /\ r.pc # "idle" => r.line \in Line
  /\ r.pc = "lambda" => r.task = None
  /\ r.pc \notin {"idle", "lambda"} \cup Finished => r.task # None
  /\ r.pc \in {"answered", "role", "wait", "summary"} => r.line.cmd = "start-task"
  /\ r.pc \in {"stop", "waitStopped"} => r.line.cmd = "stop-task"
  /\ r.pc = "lambda" => r.line.cmd \in {"start-task", "create-investigation"}
  /\ r.calls # {} => r.pc # "idle" /\ r.line.cmd = "start-task"
  /\ r.pc \in Uploading => r.goal = "credentials"
  /\ r.pc \in {"describe", "waitRunning"} => r.goal = "shell"

\* A task that was launched is told of, unless the command is interrupted before it can.
Named(r) ==
  r.pc # "idle" /\ r.line.cmd = "start-task" /\ r.task # None => r.told \/ r.pc \in {"answered", "killed"}

\* The helper has come to its end: it has installed or cleared, or clear has kept something.
Served(r, s) == r.installed \/ (s.kept /\ s.helper = "ended")

\* Until then the command is after its credentials, and does not speak of success.
ReportFits(r, s) ==
  r.pc # "idle" =>
    /\ r.goal = "credentials" => Credentials(r.line)
    /\ Credentials(r.line) /\ r.goal = "shell" =>
         Served(r, s) /\ r.pc \notin {"lambda", "answered", "role", "wait"}
    /\ Credentials(r.line) /\ r.pc \in {"summary", "describe", "waitRunning", "drain", "done"} => Served(r, s)

\* The answer to a browser login is that of its own tab, and there is one before the session.
AnswerFits(p, r) ==
  /\ r.answer \in {"none", "error", p}
  /\ r.pc \in {"exec", "plugin", "read", "drain"} /\ r.goal = "credentials"
       /\ r.line.cmd # "clear" /\ ~r.line.device => r.answer = p

\* What the session has seen of the helper.
SessionFits(p, r, s) ==
  /\ r.pc \in {"idle", "lambda"} => s = NoSession
  /\ "ready" \in s.output => s.helper \notin {"none", "started"}
  /\ s.sent => s.helper \notin {"none", "started"}
  /\ s.sent /\ ~r.line.device => r.answer = p
  /\ s.helper = "installed" => r.installed \/ s.kept
  /\ r.installed => s.helper \in {"installed", "ended"}
  /\ "success" \in s.output => Served(r, s)

\* There is no helper before the transfer.
BeforeFits(r, s) == Before(r) => s.helper = "none"

\* What has become of the tasks that a command relies on.
TasksFit(r) ==
  /\ \A t \in r.lost :
       /\ task[t] # "none"
       /\ r.task # None => task[t] \in {"draining", "stopped"}
       /\ r.pc = "lambda" => \A found \in r.calls : t \in found \/ task[t] \in {"draining", "stopped"}
  /\ r.pc \in {"acquire", "await", "exec", "plugin"} => r.task \in agent \/ task[r.task] = "stopped"

Fits(p, r, s) ==
  /\ StageFits(r) /\ Named(r) /\ ReportFits(r, s) /\ AnswerFits(p, r)
  /\ SessionFits(p, r, s) /\ BeforeFits(r, s) /\ TasksFit(r)

Late == {"decoded", "checking", "installed", "ended"}

\* What had its request or candidate on disk when clear p began is matched, and of the same task; when
\* p has gone through the requests and no rm has failed, it is past its request.
Taken(p, q) ==
  session[p].helper \in {"clearing", "sweeping"} /\ q \in session[p].ready =>
    /\ q \in session[p].matched /\ proc[q].task = proc[p].task
    /\ session[q].helper \in Late
    /\ session[p].helper = "sweeping" /\ ~session[p].kept => session[q].helper # "decoded"

CommandInv ==
  /\ TypeOK
  /\ port \in Process \cup {None}
  /\ \A p \in Process : Fits(p, proc[p], session[p])
  /\ \A p, q \in Process : Taken(p, q)

-----------------------------------------------------------------------------
(* What the steps have in common. *)

\* A task never comes back, and its agent goes only with it.
Onward ==
  \A t \in Task :
    /\ task[t] # "none" => task'[t] # "none"
    /\ task[t] \in {"draining", "stopped"} => task'[t] \in {"draining", "stopped"}
    /\ task[t] = "stopped" => task'[t] = "stopped"
    /\ t \in agent => t \in agent' \/ task'[t] = "stopped"

TaskTypes ==
  /\ task \in [Task -> {"none", "pending", "running", "draining", "stopped"}]
  /\ agent \subseteq {t \in Task : Up(t)}
  /\ config \in [Task -> Process \cup {None}]

LEMMA LineFits ==
  ASSUME NEW l \in Line
  PROVE  /\ l \in CommandLine
         /\ l.ocm => l.cmd = "start-task" /\ ~l.noWait
         /\ l.task = None <=> l.cmd \in {"start-task", "create-investigation"}
BY LineAssumption DEF ValidStartCredentials

\* The session goes on as it was, or its helper is ended.
Spared(s, new) ==
  \/ new = s
  \/ s.helper # "none" /\ new = Over(s)

LEMMA OverFits ==
  ASSUME NEW s \in SessionState
  PROVE  /\ Over(s) \in SessionState /\ Over(s).helper = "ended" /\ Over(s).output = s.output
         /\ Over(s).sent = s.sent /\ Over(s).plugin = s.plugin /\ Over(s).matched = {} /\ Over(s).ready = {}
         /\ Over(s).kept = (s.kept /\ s.helper \in {"installed", "ended"})
BY DEF Over, SessionState

LEMMA SparedFits ==
  ASSUME NEW p, NEW r, NEW s \in SessionState, NEW new, Spared(s, new),
         SessionFits(p, r, s), ReportFits(r, s), BeforeFits(r, s)
  PROVE  new \in SessionState /\ SessionFits(p, r, new) /\ ReportFits(r, new) /\ BeforeFits(r, new)
<1>1. CASE s.helper # "none" /\ new = Over(s)
  <2>1. /\ new \in SessionState /\ new.helper = "ended" /\ new.output = s.output
        /\ new.sent = s.sent /\ s # NoSession
    BY <1>1, OverFits DEF NoSession
  <2>2. Served(r, s) => Served(r, new)
    <3>1. CASE s.kept /\ s.helper = "ended"
      <4>1. Over(s).kept = (s.kept /\ s.helper \in {"installed", "ended"})
        BY OverFits
      <4>. QED BY <1>1, <2>1, <3>1, <4>1 DEF Served
    <3>. QED BY <3>1 DEF Served
  <2>. QED BY <1>1, <2>1, <2>2 DEF SessionFits, ReportFits, BeforeFits
<1>. QED BY <1>1 DEF Spared

\* A helper goes forward only, and what it came to stays.
Forward(s, new) ==
  /\ s.helper # "none" => new.helper # "none"
  /\ s.helper \in Late => new.helper \in Late
  /\ s.helper \in Late \ {"decoded"} => new.helper # "decoded"
  /\ s.helper = "ended" => new.helper = "ended" /\ new.kept = s.kept

\* A clear that is under way afterwards has not moved.
Rests(s, new) ==
  new.helper \in {"clearing", "sweeping"} =>
    new.helper = s.helper /\ new.matched = s.matched /\ new.ready = s.ready /\ new.kept = s.kept

LEMMA SparedMoves ==
  ASSUME NEW s \in SessionState, NEW new, Spared(s, new)
  PROVE  Forward(s, new) /\ Rests(s, new)
<1>1. CASE s.helper # "none" /\ new = Over(s)
  <2>1. new.helper = "ended" /\ new.kept = (s.kept /\ s.helper \in {"installed", "ended"}) /\ s.kept \in BOOLEAN
    BY <1>1, OverFits DEF SessionState
  <2>. QED BY <2>1 DEF Forward, Rests, Late
<1>2. CASE new = s
  BY <1>2 DEF Forward, Rests
<1>. QED BY <1>1, <1>2 DEF Spared

\* A process that stands still, when tasks go on.
LEMMA StandsStill ==
  ASSUME CommandInv, Onward, NEW q \in Process, proc'[q] = proc[q], Spared(session[q], session'[q])
  PROVE  Fits(q, proc[q], session[q])' /\ session'[q] \in SessionState
<1>1. Fits(q, proc[q], session[q]) /\ proc[q] \in ProcessState /\ session[q] \in SessionState
  BY DEF CommandInv, TypeOK
<1>2. PICK z : z = proc[q]
  OBVIOUS
<1>3. PICK s : s = session'[q]
  OBVIOUS
<1>4. StageFits(z) /\ Named(z) /\ AnswerFits(q, z) /\ TasksFit(z)
  BY <1>1, <1>2 DEF Fits
<1>5. s \in SessionState /\ SessionFits(q, z, s) /\ ReportFits(z, s) /\ BeforeFits(z, s)
  BY <1>1, <1>2, <1>3, SparedFits DEF Fits
<1>6. TasksFit(z)'
  <2>1. \A t \in z.lost :
          /\ task'[t] # "none"
          /\ z.task # None => task'[t] \in {"draining", "stopped"}
          /\ z.pc = "lambda" => \A found \in z.calls : t \in found \/ task'[t] \in {"draining", "stopped"}
    BY <1>1, <1>2, <1>4 DEF TasksFit, Onward, ProcessState
  <2>2. z.pc \in {"acquire", "await", "exec", "plugin"} => z.task \in Task
    BY <1>1, <1>2, <1>4 DEF StageFits, Finished, ProcessState
  <2>. QED BY <1>4, <2>1, <2>2 DEF TasksFit, Onward
<1>7. Fits(q, z, s)'
  BY <1>4, <1>5, <1>6 DEF Fits, StageFits, Named, ReportFits, Served, AnswerFits, SessionFits, BeforeFits, Before
<1>8. z = proc'[q] /\ s = session'[q]
  BY <1>2, <1>3
<1>. QED BY <1>5, <1>7, <1>8

\* What clear has found stays found.
LEMMA StillTaken ==
  ASSUME NEW p, NEW q, Taken(p, q), Rests(session[p], session'[p]), Forward(session[q], session'[q]),
         session[p].helper # "none" => proc'[p].task = proc[p].task,
         session[q].helper # "none" => proc'[q].task = proc[q].task
  PROVE  Taken(p, q)'
BY DEF Taken, Rests, Forward, Late

\* It is enough to look at the process that has moved, and at its session.
LEMMA ProcessMoves ==
  ASSUME CommandInv, NEW p \in Process, NEW r \in ProcessState, NEW s \in SessionState,
         proc' = [proc EXCEPT ![p] = r],
         session' \in [Process -> SessionState], session'[p] = s,
         \A q \in Process \ {p} : Spared(session[q], session'[q]),
         TaskTypes', Onward,
         StageFits(r), Named(r), ReportFits(r, s), AnswerFits(p, r), SessionFits(p, r, s),
         BeforeFits(r, s), TasksFit(r)',
         \/ port' = port /\ (port = p => r.pc = "await")
         \/ port' = p /\ r.pc = "await"
         \/ port' = None,
         session[p].helper # "none" => r.task = proc[p].task,
         Forward(session[p], s),
         Rests(session[p], s) \/ \A q \in Process : Taken(p, q)'
  PROVE  CommandInv'
<1>1. /\ proc \in [Process -> ProcessState] /\ session \in [Process -> SessionState]
      /\ port \in Process \cup {None} /\ (port # None => proc[port].pc = "await")
  BY DEF CommandInv, TypeOK
<1>2. /\ proc' \in [Process -> ProcessState] /\ proc'[p] = r
      /\ \A q \in Process \ {p} : proc'[q] = proc[q]
  BY <1>1
<1>3. port' \in Process \cup {None} /\ (port' # None => proc'[port'].pc = "await")
  BY <1>1, <1>2, LineAssumption
<1>4. TypeOK'
  BY <1>2, <1>3 DEF TypeOK, TaskTypes
<1>5. ASSUME NEW q \in Process PROVE Fits(q, proc[q], session[q])'
  <2>1. CASE q = p
    <3>1. (proc[q])' = r /\ (session[q])' = s
      BY <1>2, <2>1
    <3>2. StageFits(proc'[q]) /\ Named(proc'[q]) /\ ReportFits(proc'[q], session'[q])
          /\ AnswerFits(q, proc'[q]) /\ SessionFits(q, proc'[q], session'[q]) /\ BeforeFits(proc'[q], session'[q])
      BY <3>1, <2>1
    <3>3. TasksFit(proc[q])'
      BY <3>1 DEF TasksFit
    <3>. QED BY <3>2, <3>3
             DEF Fits, StageFits, Named, ReportFits, Served, AnswerFits, SessionFits, BeforeFits, Before
  <2>. QED BY <1>2, <2>1, StandsStill
<1>6. ASSUME NEW z \in Process, NEW q \in Process PROVE Taken(z, q)'
  <2>1. \A y \in Process : Forward(session[y], session'[y])
    BY <1>1, SparedMoves
  <2>2. \A y \in Process : session[y].helper # "none" => proc'[y].task = proc[y].task
    BY <1>2
  <2>3. CASE z # p \/ Rests(session[p], s)
    <3>1. Rests(session[z], session'[z]) /\ Taken(z, q)
      BY <1>1, <2>3, SparedMoves DEF CommandInv
    <3>. QED BY <2>1, <2>2, <3>1, StillTaken
  <2>. QED BY <2>3
<1>. QED BY <1>3, <1>4, <1>5, <1>6 DEF CommandInv

LEMMA Standing ==
  ASSUME CommandInv, NEW p \in Process
  PROVE  /\ proc[p] \in ProcessState /\ session[p] \in SessionState
         /\ proc[p].line \in Line \cup {None} /\ proc[p].task \in Task \cup {None}
         /\ proc \in [Process -> ProcessState] /\ session \in [Process -> SessionState]
         /\ StageFits(proc[p]) /\ Named(proc[p]) /\ ReportFits(proc[p], session[p]) /\ AnswerFits(p, proc[p])
         /\ SessionFits(p, proc[p], session[p]) /\ BeforeFits(proc[p], session[p]) /\ TasksFit(proc[p])
         /\ TaskTypes /\ port \in Process \cup {None}
         /\ port = p => proc[p].pc = "await"
         /\ \A q \in Process : Taken(p, q)
BY LineAssumption DEF CommandInv, TypeOK, TaskTypes, Fits, ProcessState

LEMMA Quiet == ASSUME CommandInv, UNCHANGED <<task, agent, config>> PROVE TaskTypes' /\ Onward
BY DEF CommandInv, TypeOK, TaskTypes, Onward, Up

\* A process goes on, and only its stage changes.
Passes(p, stage) ==
  /\ proc[p].pc \notin {"idle"} \cup Finished /\ stage \notin {"idle", "lambda", "answered"}
  /\ proc[p].pc = "answered" => stage = "killed"
  /\ proc[p].pc = "lambda" => stage \in Finished
  /\ stage \in {"role", "wait", "summary"} => proc[p].line.cmd = "start-task"
  /\ stage \in {"role", "wait"} => proc[p].pc = "role"
  /\ stage \in {"stop", "waitStopped"} => proc[p].line.cmd = "stop-task"
  /\ stage \in Uploading => proc[p].goal = "credentials"
  /\ stage \in {"describe", "waitRunning"} => proc[p].goal = "shell"
  /\ stage \in {"prepare", "agent", "acquire", "await", "exec", "plugin"} /\ proc[p].goal = "credentials"
       => Before(proc[p])
  /\ stage \in {"summary", "describe", "waitRunning", "drain", "done"} /\ Credentials(proc[p].line)
       => Served(proc[p], session[p])
  /\ stage \in {"exec", "plugin", "read", "drain"} /\ proc[p].goal = "credentials"
       /\ proc[p].line.cmd # "clear" /\ ~proc[p].line.device => proc[p].answer = p
  /\ stage \in {"acquire", "await", "exec", "plugin"} =>
       proc[p].task \in agent' \/ task'[proc[p].task] = "stopped"

LEMMA PassKeeps ==
  ASSUME CommandInv, NEW p \in Process, NEW stage \in Stages, NEW s \in SessionState,
         Goto(p, stage), SetSession(p, s), TaskTypes', Onward, Passes(p, stage),
         \/ port' = port /\ (port = p => stage = "await")
         \/ port' = None,
         SessionFits(p, proc[p], s), Forward(session[p], s), Rests(session[p], s),
         stage # "read" => BeforeFits(proc[p], s)
  PROVE  CommandInv'
<1>0. PICK r : r = [proc[p] EXCEPT !.pc = stage]
  OBVIOUS
<1>1. /\ r \in ProcessState /\ r.pc = stage
      /\ r.line = proc[p].line /\ r.task = proc[p].task /\ r.goal = proc[p].goal
      /\ r.told = proc[p].told /\ r.answer = proc[p].answer /\ r.lost = proc[p].lost
      /\ r.calls = proc[p].calls /\ r.installed = proc[p].installed
  BY <1>0, Standing DEF ProcessState
<1>2. /\ proc' = [proc EXCEPT ![p] = r]
      /\ session' \in [Process -> SessionState] /\ session'[p] = s
      /\ \A q \in Process \ {p} : Spared(session[q], session'[q])
  BY <1>0, Standing DEF Goto, Set, SetSession, Spared
<1>3. StageFits(r)
  BY <1>1, Standing DEF Passes, StageFits, Finished
<1>4. Named(r)
  BY <1>1, Standing DEF Passes, Named, Finished
<1>5. ReportFits(r, s) /\ AnswerFits(p, r)
  <2>1. Served(proc[p], session[p]) => Served(r, s)
    BY <1>1 DEF Served, Forward
  <2>. QED BY <1>1, <2>1, Standing DEF Passes, ReportFits, AnswerFits
<1>6. SessionFits(p, r, s)
  BY <1>1 DEF Passes, SessionFits, Served
<1>7. TasksFit(r)'
  <2>1. \A t \in r.lost : task'[t] # "none" /\ (r.task # None => task'[t] \in {"draining", "stopped"})
    BY <1>1, Standing DEF TasksFit, Onward, ProcessState
  <2>. QED BY <1>1, <2>1 DEF TasksFit, Passes
<1>9. (port' = port /\ (port = p => r.pc = "await")) \/ port' = None
  BY <1>1
<1>10. BeforeFits(r, s)
  BY <1>1 DEF Passes, BeforeFits, Before
<1>. QED BY <1>1, <1>2, <1>3, <1>4, <1>5, <1>6, <1>7, <1>9, <1>10, ProcessMoves

\* Nothing but the stage changes.
LEMMA GoKeeps ==
  ASSUME CommandInv, NEW p \in Process, NEW stage \in Stages, Goto(p, stage),
         UNCHANGED <<agent, config, session>>, TaskTypes', Onward, Passes(p, stage),
         \/ port' = port /\ proc[p].pc # "await"
         \/ Free(p)
  PROVE  CommandInv'
<1>1. SetSession(p, session[p])
  BY Standing DEF SetSession
<1>2. (port' = port /\ (port = p => stage = "await")) \/ port' = None
  BY Standing DEF Free
<1>3. Forward(session[p], session[p]) /\ Rests(session[p], session[p])
  BY DEF Forward, Rests
<1>. QED BY <1>1, <1>2, <1>3, Standing, PassKeeps

\* A command may end in failure wherever it runs, but for the moment before its task is told of.
LEMMA FailKeeps ==
  ASSUME CommandInv, NEW p \in Process, Fail(p), proc[p].pc \notin {"idle", "answered"} \cup Finished,
         UNCHANGED <<task, agent, config, session>>,
         \/ port' = port /\ proc[p].pc # "await"
         \/ Free(p)
  PROVE  CommandInv'
<1>1. "failed" \in Stages /\ Goto(p, "failed")
  BY DEF Stages, Fail
<1>2. Passes(p, "failed")
  BY DEF Passes, Finished, Uploading
<1>. QED BY <1>1, <1>2, Quiet, GoKeeps

\* A step of the session alone.
LEMMA SessionKeeps ==
  ASSUME CommandInv, NEW p \in Process, NEW s \in SessionState, SetSession(p, s),
         UNCHANGED <<task, agent, config, port, proc>>,
         SessionFits(p, proc[p], s), BeforeFits(proc[p], s), Forward(session[p], s), Rests(session[p], s)
  PROVE  CommandInv'
<1>0. PICK r : r = proc[p]
  OBVIOUS
<1>1. /\ proc' = [proc EXCEPT ![p] = r]
      /\ session' \in [Process -> SessionState] /\ session'[p] = s
      /\ \A q \in Process \ {p} : Spared(session[q], session'[q])
  BY <1>0, Standing DEF SetSession, Spared
<1>2. TasksFit(r)'
  BY <1>0, Standing DEF TasksFit
<1>3. ReportFits(r, s)
  <2>1. Served(proc[p], session[p]) => Served(r, s)
    BY <1>0 DEF Served, Forward
  <2>. QED BY <1>0, <2>1, Standing DEF ReportFits
<1>. QED BY <1>0, <1>1, <1>2, <1>3, Standing, Quiet, ProcessMoves

-----------------------------------------------------------------------------
(* The commands. *)

LEMMA BeginKeeps == ASSUME CommandInv, NEW p \in Process, Begin(p) PROVE CommandInv'
<1>1. PICK l \in Line :
        /\ l.task # None => task[l.task] # "none"
        /\ proc' = [proc EXCEPT ![p] =
             [proc[p] EXCEPT !.pc = FirstStage(l), !.line = l, !.task = l.task,
                !.goal = IF Credentials(l) THEN "credentials" ELSE "shell"]]
  BY DEF Begin, Set
<1>2. proc[p] = Unstarted /\ session[p] = NoSession /\ port # p
  BY Standing DEF Begin, StageFits, SessionFits
<1>3. PICK r : r = [proc[p] EXCEPT !.pc = FirstStage(l), !.line = l, !.task = l.task,
                      !.goal = IF Credentials(l) THEN "credentials" ELSE "shell"]
  OBVIOUS
<1>4. /\ l.cmd \in {"start-task", "create-investigation", "join-task", "stop-task", "configure", "clear"}
      /\ l.task \in Task \cup {None}
      /\ l.ocm => l.cmd = "start-task"
      /\ l.task = None <=> l.cmd \in {"start-task", "create-investigation"}
  BY LineFits DEF CommandLine
<1>5. /\ r.pc = FirstStage(l) /\ r.line = l /\ r.task = l.task
      /\ r.goal = IF Credentials(l) THEN "credentials" ELSE "shell"
      /\ r.told = FALSE /\ r.answer = "none" /\ r.calls = {} /\ r.lost = {} /\ r.installed = FALSE
      /\ r \in ProcessState
  <2>1. FirstStage(l) \in Stages
    BY <1>4 DEF FirstStage, Stages
  <2>2. PICK goal \in {"credentials", "shell"} :
          goal = IF Credentials(l) THEN "credentials" ELSE "shell"
    OBVIOUS
  <2>3. r = [Unstarted EXCEPT !.pc = FirstStage(l), !.line = l, !.task = l.task, !.goal = goal]
    BY <1>2, <1>3, <2>2
  <2>. QED BY <1>4, <2>1, <2>2, <2>3 DEF ProcessState, Unstarted
<1>6. StageFits(r) /\ Named(r) /\ ReportFits(r, session[p])
  BY <1>4, <1>5 DEF StageFits, Named, ReportFits, FirstStage, Credentials, Finished, Uploading
<1>7. AnswerFits(p, r) /\ TasksFit(r)'
  BY <1>4, <1>5 DEF AnswerFits, FirstStage, TasksFit
<1>8. SessionFits(p, r, session[p]) /\ BeforeFits(r, session[p])
  BY <1>2, <1>5 DEF SessionFits, BeforeFits, NoSession
<1>9. /\ \A q \in Process \ {p} : Spared(session[q], session'[q])
      /\ session' \in [Process -> SessionState] /\ session'[p] = session[p]
  BY Standing DEF Begin, Spared
<1>10. session[p].helper = "none" /\ Forward(session[p], session[p]) /\ Rests(session[p], session[p])
  BY <1>2 DEF NoSession, Forward, Rests
<1>11. TaskTypes' /\ Onward /\ port' = port
  BY Quiet DEF Begin
<1>. QED BY <1>1, <1>2, <1>3, <1>5, <1>6, <1>7, <1>8, <1>9, <1>10, <1>11, Standing, ProcessMoves

\* A task that is told to stop.
LEMMA ToldGoesOn ==
  ASSUME CommandInv, NEW t \in Task, task' = Told(task, t), UNCHANGED <<agent, config>>
  PROVE  TaskTypes' /\ Onward
<1>1. /\ task \in [Task -> {"none", "pending", "running", "draining", "stopped"}]
      /\ agent \subseteq {u \in Task : Up(u)} /\ config \in [Task -> Process \cup {None}]
  BY DEF CommandInv, TypeOK
<1>2. /\ task' \in [Task -> {"none", "pending", "running", "draining", "stopped"}]
      /\ \A u \in Task : \/ task'[u] = task[u]
                         \/ task[u] = "pending" /\ task'[u] = "stopped"
                         \/ task[u] = "running" /\ task'[u] = "draining"
  BY <1>1 DEF Told
<1>. QED BY <1>1, <1>2 DEF TaskTypes, Onward, Up

LEMMA LambdaKeeps ==
  ASSUME CommandInv, NEW p \in Process, CreateWorkspace(p) \/ LambdaFails(p)
  PROVE  CommandInv'
<1>1. CASE CreateWorkspace(p)
  <2>1. "done" \in Stages /\ Goto(p, "done") /\ proc[p].line \in Line
    BY <1>1, Standing DEF CreateWorkspace, Stages, StageFits
  <2>2. ~Credentials(proc[p].line)
    BY <1>1, <2>1, LineFits DEF CreateWorkspace, Credentials
  <2>3. Passes(p, "done")
    BY <1>1, <2>2 DEF Passes, CreateWorkspace, Finished, Uploading
  <2>. QED BY <1>1, <2>1, <2>3, Quiet, GoKeeps DEF CreateWorkspace
<1>2. CASE LambdaFails(p)
  BY <1>2, FailKeeps DEF LambdaFails, Finished
<1>. QED BY <1>1, <1>2

\* The invocations for p go on, whatever p does.
LEMMA CallsKeep ==
  ASSUME CommandInv, NEW p \in Process, NEW r \in ProcessState, proc' = [proc EXCEPT ![p] = r],
         UNCHANGED <<agent, config, session, port>>, TaskTypes', Onward,
         proc[p].pc # "idle", r.pc = proc[p].pc, r.line = proc[p].line, r.task = proc[p].task,
         r.goal = proc[p].goal, r.told = proc[p].told, r.answer = proc[p].answer,
         r.installed = proc[p].installed, r.calls # {} => r.line.cmd = "start-task",
         \A t \in r.lost :
            /\ task'[t] # "none"
            /\ r.task # None => task'[t] \in {"draining", "stopped"}
            /\ r.pc = "lambda" => \A found \in r.calls : t \in found \/ task'[t] \in {"draining", "stopped"}
  PROVE  CommandInv'
<1>1. /\ session' \in [Process -> SessionState] /\ session'[p] = session[p]
      /\ \A q \in Process \ {p} : Spared(session[q], session'[q])
      /\ Forward(session[p], session[p]) /\ Rests(session[p], session[p])
  BY Standing DEF Spared, Forward, Rests
<1>2. StageFits(r) /\ Named(r) /\ AnswerFits(p, r)
  BY Standing DEF StageFits, Named, AnswerFits
<1>3. ReportFits(r, session[p]) /\ SessionFits(p, r, session[p]) /\ BeforeFits(r, session[p])
  BY Standing DEF ReportFits, SessionFits, Served, BeforeFits, Before
<1>4. r.pc \in {"acquire", "await", "exec", "plugin"} => r.task \in agent' \/ task'[r.task] = "stopped"
  <2>1. r.pc \in {"acquire", "await", "exec", "plugin"} => r.task \in Task
    BY <1>2, Standing DEF StageFits, Finished
  <2>. QED BY <2>1, Standing DEF TasksFit, Onward
<1>5. TasksFit(r)'
  BY <1>4 DEF TasksFit
<1>6. port' = port /\ (port = p => r.pc = "await")
  BY Standing
<1>. QED BY <1>1, <1>2, <1>3, <1>5, <1>6, Standing, ProcessMoves

\* Only a command that has begun has invocations at work for it.
LEMMA CallsBegun ==
  ASSUME CommandInv, NEW p \in Process, proc[p].calls # {}
  PROVE  proc[p].pc # "idle"
BY Standing DEF StageFits, Unstarted

LEMMA ListKeeps == ASSUME CommandInv, NEW p \in Process, ListTasks(p) PROVE CommandInv'
<1>1. PICK found \in SUBSET Task :
        found = {t \in Task : NeedsHandover(t)} /\ Set(p, [proc[p] EXCEPT !.calls = @ \cup {found}])
  BY DEF ListTasks
<1>2. PICK r : r = [proc[p] EXCEPT !.calls = @ \cup {found}]
  OBVIOUS
<1>3. proc[p] \in ProcessState /\ TasksFit(proc[p]) /\ TaskTypes
  BY Standing
<1>4. /\ r \in ProcessState /\ r.pc = proc[p].pc /\ r.line = proc[p].line /\ r.task = proc[p].task
      /\ r.goal = proc[p].goal /\ r.told = proc[p].told /\ r.answer = proc[p].answer
      /\ r.installed = proc[p].installed /\ r.lost = proc[p].lost /\ r.lost \subseteq Task
      /\ r.calls = proc[p].calls \cup {found}
  BY <1>2, <1>3 DEF ProcessState
<1>5. ASSUME NEW t \in r.lost
      PROVE  /\ task'[t] # "none"
             /\ r.task # None => task'[t] \in {"draining", "stopped"}
             /\ r.pc = "lambda" => \A call \in r.calls : t \in call \/ task'[t] \in {"draining", "stopped"}
  <2>1. task' = task /\ t \in Task
    BY <1>4 DEF ListTasks
  <2>2. t \in found \/ task[t] \in {"draining", "stopped"}
    BY <1>1, <1>3, <1>4, <2>1 DEF NeedsHandover, TasksFit, TaskTypes
  <2>. QED BY <1>3, <1>4, <2>1, <2>2 DEF TasksFit
<1>6. proc' = [proc EXCEPT ![p] = r] /\ proc[p].pc # "idle" /\ UNCHANGED <<task, agent, config, session, port>>
  BY <1>1, <1>2 DEF ListTasks, Set
<1>7. r.line.cmd = "start-task"
  BY <1>4 DEF ListTasks
<1>. QED BY <1>4, <1>5, <1>6, <1>7, Quiet, CallsKeep

LEMMA InvocationKeeps == ASSUME CommandInv, NEW p \in Process, InvocationEnds(p) PROVE CommandInv'
<1>1. PICK found \in proc[p].calls : Set(p, [proc[p] EXCEPT !.calls = @ \ {found}])
  BY DEF InvocationEnds
<1>2. PICK r : r = [proc[p] EXCEPT !.calls = @ \ {found}]
  OBVIOUS
<1>3. proc[p] \in ProcessState /\ TasksFit(proc[p])
  BY Standing
<1>4. /\ r \in ProcessState /\ r.pc = proc[p].pc /\ r.line = proc[p].line /\ r.task = proc[p].task
      /\ r.goal = proc[p].goal /\ r.told = proc[p].told /\ r.answer = proc[p].answer
      /\ r.installed = proc[p].installed /\ r.lost = proc[p].lost /\ r.calls \subseteq proc[p].calls
  BY <1>2, <1>3 DEF ProcessState
<1>5. \A t \in r.lost :
        /\ task'[t] # "none"
        /\ r.task # None => task'[t] \in {"draining", "stopped"}
        /\ r.pc = "lambda" => \A call \in r.calls : t \in call \/ task'[t] \in {"draining", "stopped"}
  BY <1>3, <1>4 DEF InvocationEnds, TasksFit
<1>6. /\ proc' = [proc EXCEPT ![p] = r] /\ proc[p].pc # "idle"
      /\ UNCHANGED <<task, agent, config, session, port>>
  BY <1>1, <1>2, CallsBegun DEF InvocationEnds, Set
<1>7. r.line.cmd = "start-task"
  BY <1>4, Standing DEF StageFits
<1>. QED BY <1>4, <1>5, <1>6, <1>7, Quiet, CallsKeep

\* What was lost has been found by the invocation that launches, or told to stop before: it has
\* stopped, or it will.
LEMMA LaunchKeeps == ASSUME CommandInv, NEW p \in Process, LaunchTask(p) PROVE CommandInv'
<1>0. PICK found \in proc[p].calls : \E others \in {proc[p].calls, proc[p].calls \ {found}} : \E t \in Task :
        /\ \A u \in found : task[u] = "stopped"
        /\ task[t] = "none"
        /\ task' = [task EXCEPT ![t] = "pending"]
        /\ \/ /\ proc[p].pc = "lambda"
              /\ Set(p, [proc[p] EXCEPT !.pc = "answered", !.task = t, !.calls = others])
           \/ Set(p, [proc[p] EXCEPT !.calls = others,
                        !.lost = IF others = {} /\ proc[p].pc = "lambda" THEN @ \cup {t} ELSE @])
  BY DEF LaunchTask
<1>1. PICK others \in {proc[p].calls, proc[p].calls \ {found}}, t \in Task :
        /\ \A u \in found : task[u] = "stopped"
        /\ task[t] = "none"
        /\ task' = [task EXCEPT ![t] = "pending"]
        /\ \/ /\ proc[p].pc = "lambda"
              /\ Set(p, [proc[p] EXCEPT !.pc = "answered", !.task = t, !.calls = others])
           \/ Set(p, [proc[p] EXCEPT !.calls = others,
                        !.lost = IF others = {} /\ proc[p].pc = "lambda" THEN @ \cup {t} ELSE @])
  BY <1>0
<1>2. /\ proc[p] \in ProcessState /\ proc[p].lost \subseteq Task /\ proc[p].calls \subseteq SUBSET Task
      /\ TasksFit(proc[p]) /\ proc[p].pc # "idle" /\ proc[p].calls # {}
  BY <1>1, Standing, CallsBegun DEF ProcessState
<1>3. /\ task \in [Task -> {"none", "pending", "running", "draining", "stopped"}]
      /\ agent \subseteq {u \in Task : Up(u)} /\ config \in [Task -> Process \cup {None}]
  BY Standing DEF TaskTypes
<1>4. \A u \in Task : task'[u] = IF u = t THEN "pending" ELSE task[u]
  BY <1>1, <1>3
<1>5. TaskTypes' /\ Onward /\ UNCHANGED <<agent, config, session, port>>
  BY <1>1, <1>3, <1>4 DEF LaunchTask, TaskTypes, Onward, Up
<1>6. \A u \in proc[p].lost :
        /\ u # t /\ task'[u] = task[u] /\ task[u] # "none"
        /\ proc[p].task # None => task[u] \in {"draining", "stopped"}
        /\ proc[p].pc = "lambda" =>
             /\ task[u] \in {"draining", "stopped"}
             /\ \A call \in proc[p].calls : u \in call \/ task[u] \in {"draining", "stopped"}
  BY <1>1, <1>2, <1>4 DEF TasksFit
<1>7. CASE Set(p, [proc[p] EXCEPT !.calls = others,
                     !.lost = IF others = {} /\ proc[p].pc = "lambda" THEN @ \cup {t} ELSE @])
  <2>1. PICK r : r = [proc[p] EXCEPT !.calls = others,
                        !.lost = IF others = {} /\ proc[p].pc = "lambda" THEN @ \cup {t} ELSE @]
    OBVIOUS
  <2>2. others \subseteq proc[p].calls
    OBVIOUS
  <2>3. /\ r \in ProcessState /\ r.pc = proc[p].pc /\ r.line = proc[p].line /\ r.task = proc[p].task
        /\ r.goal = proc[p].goal /\ r.told = proc[p].told /\ r.answer = proc[p].answer
        /\ r.installed = proc[p].installed /\ r.calls = others
        /\ r.lost = IF others = {} /\ proc[p].pc = "lambda" THEN proc[p].lost \cup {t} ELSE proc[p].lost
    BY <1>2, <2>1, <2>2 DEF ProcessState
  <2>4. proc[p].pc = "lambda" => proc[p].task = None
    BY Standing DEF StageFits
  <2>5. ASSUME NEW u \in r.lost
        PROVE  /\ task'[u] # "none"
               /\ r.task # None => task'[u] \in {"draining", "stopped"}
               /\ r.pc = "lambda" => \A call \in r.calls : u \in call \/ task'[u] \in {"draining", "stopped"}
    <3>1. CASE u \in proc[p].lost
      BY <1>6, <2>3, <3>1
    <3>2. CASE u \notin proc[p].lost
      BY <1>4, <2>3, <2>4, <3>2
    <3>. QED BY <3>1, <3>2
  <2>6. proc' = [proc EXCEPT ![p] = r]
    BY <1>7, <2>1 DEF Set
  <2>7. r.line.cmd = "start-task"
    BY <1>2, <2>3, Standing DEF StageFits
  <2>. QED BY <1>2, <1>5, <2>3, <2>5, <2>6, <2>7, CallsKeep
<1>8. CASE /\ proc[p].pc = "lambda"
           /\ Set(p, [proc[p] EXCEPT !.pc = "answered", !.task = t, !.calls = others])
  <2>1. PICK r : r = [proc[p] EXCEPT !.pc = "answered", !.task = t, !.calls = others]
    OBVIOUS
  <2>2. "answered" \in Stages
    BY DEF Stages
  <2>3. /\ r \in ProcessState /\ r.pc = "answered" /\ r.line = proc[p].line /\ r.task = t
        /\ r.goal = proc[p].goal /\ r.told = proc[p].told /\ r.answer = proc[p].answer
        /\ r.installed = proc[p].installed /\ r.lost = proc[p].lost
    BY <1>2, <2>1, <2>2 DEF ProcessState
  <2>4. session[p] = NoSession /\ port # p /\ proc[p].line \in Line /\ proc[p].line.cmd = "start-task"
    <3>1. proc[p].line.cmd = "start-task"
      BY <1>2, Standing DEF StageFits
    <3>. QED BY <1>8, <3>1, Standing DEF StageFits, SessionFits
  <2>5. StageFits(r) /\ Named(r) /\ ReportFits(r, session[p]) /\ AnswerFits(p, r)
    BY <1>8, <2>3, <2>4, Standing, LineAssumption
       DEF StageFits, Named, ReportFits, Served, AnswerFits, Finished, Uploading
  <2>n. ~r.installed
    BY <2>3, <2>4, Standing DEF SessionFits, NoSession
  <2>6. /\ SessionFits(p, r, session[p]) /\ BeforeFits(r, session[p]) /\ session[p].helper = "none"
        /\ Forward(session[p], session[p]) /\ Rests(session[p], session[p])
    BY <2>4, <2>n DEF SessionFits, BeforeFits, NoSession, Forward, Rests
  <2>7. TasksFit(r)'
    BY <1>6, <1>8, <2>3 DEF TasksFit
  <2>8. /\ \A q \in Process \ {p} : Spared(session[q], session'[q])
        /\ session' \in [Process -> SessionState] /\ session'[p] = session[p] /\ port' = port
        /\ proc' = [proc EXCEPT ![p] = r]
    BY <1>5, <1>8, <2>1, Standing DEF Spared, Set
  <2>. QED BY <1>5, <2>3, <2>4, <2>5, <2>6, <2>7, <2>8, ProcessMoves
<1>. QED BY <1>1, <1>7, <1>8

\* A step that changes the record of p, and leaves the rest.
LEMMA RecordKeeps ==
  ASSUME CommandInv, NEW p \in Process, NEW r \in ProcessState, Set(p, r),
         UNCHANGED <<task, agent, config, session>>,
         StageFits(r), Named(r), ReportFits(r, session[p]), AnswerFits(p, r), SessionFits(p, r, session[p]),
         r.task = proc[p].task, r.lost = proc[p].lost, r.pc # "lambda", BeforeFits(r, session[p]),
         r.pc \in {"acquire", "await", "exec", "plugin"} => r.task \in agent \/ task[r.task] = "stopped",
         \/ port' = port /\ (port = p => r.pc = "await")
         \/ port' = p /\ r.pc = "await"
  PROVE  CommandInv'
<1>1. /\ proc' = [proc EXCEPT ![p] = r]
      /\ session' \in [Process -> SessionState] /\ session'[p] = session[p]
      /\ \A q \in Process \ {p} : Spared(session[q], session'[q])
      /\ Forward(session[p], session[p]) /\ Rests(session[p], session[p])
  BY Standing DEF Set, Spared, Forward, Rests
<1>2. TasksFit(r)'
  BY Standing DEF TasksFit
<1>. QED BY <1>1, <1>2, Standing, Quiet, ProcessMoves

LEMMA AnnounceKeeps == ASSUME CommandInv, NEW p \in Process, AnnounceTask(p) PROVE CommandInv'
<1>1. PICK r : r = [proc[p] EXCEPT !.pc = "role", !.told = TRUE]
  OBVIOUS
<1>2. "role" \in Stages /\ proc[p] \in ProcessState
  BY Standing DEF Stages
<1>3. /\ r \in ProcessState /\ r.pc = "role" /\ r.told /\ r.line = proc[p].line
      /\ r.task = proc[p].task /\ r.goal = proc[p].goal /\ r.answer = proc[p].answer
      /\ r.lost = proc[p].lost /\ r.calls = proc[p].calls /\ r.installed = proc[p].installed
  BY <1>1, <1>2 DEF ProcessState
<1>4. /\ StageFits(r) /\ Named(r) /\ ReportFits(r, session[p]) /\ AnswerFits(p, r)
      /\ SessionFits(p, r, session[p]) /\ BeforeFits(r, session[p])
  BY <1>3, Standing
     DEF AnnounceTask, StageFits, Named, ReportFits, Served, AnswerFits, SessionFits, BeforeFits,
           Before, Finished, Uploading
<1>5. Set(p, r) /\ port' = port /\ port # p
  BY <1>1, Standing DEF AnnounceTask
<1>. QED BY <1>3, <1>4, <1>5, RecordKeeps DEF AnnounceTask

LEMMA AssumeKeeps == ASSUME CommandInv, NEW p \in Process, AssumeSreRole(p) PROVE CommandInv'
<1>1. CASE Fail(p)
  BY <1>1, FailKeeps DEF AssumeSreRole, Finished
<1>2. CASE Goto(p, IF proc[p].line.noWait THEN "summary" ELSE "wait")
  <2>1. PICK stage \in {"summary", "wait"} :
          Goto(p, stage) /\ stage = IF proc[p].line.noWait THEN "summary" ELSE "wait"
    BY <1>2
  <2>2. proc[p].line \in Line /\ proc[p].line.cmd = "start-task"
    BY Standing DEF AssumeSreRole, StageFits
  <2>3. stage = "summary" => ~Credentials(proc[p].line)
    BY <2>1, <2>2, LineFits DEF Credentials
  <2>4. Passes(p, stage)
    BY <2>1, <2>2, <2>3 DEF AssumeSreRole, Passes, Finished, Uploading
  <2>5. stage \in Stages
    BY DEF Stages
  <2>. QED BY <2>1, <2>4, <2>5, Quiet, GoKeeps DEF AssumeSreRole
<1>. QED BY <1>1, <1>2 DEF AssumeSreRole

LEMMA AwaitKeeps == ASSUME CommandInv, NEW p \in Process, AwaitTask(p) PROVE CommandInv'
<1>1. PICK stage \in {"prepare", "summary"} :
        Goto(p, stage) /\ stage = IF proc[p].line.ocm THEN "prepare" ELSE "summary"
  BY DEF AwaitTask, WaitForRunning
<1>2. /\ proc[p].line \in Line /\ proc[p].line.cmd = "start-task" /\ proc[p].pc = "wait"
      /\ UNCHANGED <<task, agent, config, session, port>>
  BY Standing DEF AwaitTask, WaitForRunning, StageFits
<1>3. proc[p].goal \in {"credentials", "shell"} /\ ReportFits(proc[p], session[p])
  BY Standing DEF ProcessState
<1>4. Passes(p, stage)
  <2>1. CASE stage = "summary"
    BY <1>1, <1>2, <2>1 DEF Passes, Finished, Uploading, Credentials
  <2>2. CASE stage = "prepare"
    <3>1. Credentials(proc[p].line)
      BY <1>1, <2>2 DEF Credentials
    <3>. QED BY <1>2, <1>3, <2>2, <3>1 DEF Passes, Finished, Uploading, ReportFits, Before
  <2>. QED BY <2>1, <2>2
<1>5. stage \in Stages
  BY DEF Stages
<1>. QED BY <1>1, <1>2, <1>4, <1>5, Quiet, GoKeeps

LEMMA SummaryKeeps == ASSUME CommandInv, NEW p \in Process, PrintSummary(p) PROVE CommandInv'
<1>1. CASE Fail(p)
  BY <1>1, FailKeeps DEF PrintSummary, Finished
<1>2. CASE \/ Set(p, [proc[p] EXCEPT !.pc = "describe", !.told = TRUE, !.goal = "shell"])
           \/ Set(p, [proc[p] EXCEPT !.pc = "done", !.told = TRUE])
  <2>1. PICK r : /\ Set(p, r)
                 /\ \/ r = [proc[p] EXCEPT !.pc = "describe", !.told = TRUE, !.goal = "shell"]
                    \/ r = [proc[p] EXCEPT !.pc = "done", !.told = TRUE]
    BY <1>2
  <2>2. {"describe", "done"} \subseteq Stages /\ proc[p] \in ProcessState
    BY Standing DEF Stages
  <2>3. /\ r \in ProcessState /\ r.pc \in {"describe", "done"} /\ r.told /\ r.line = proc[p].line
        /\ r.task = proc[p].task /\ r.goal \in {"shell", proc[p].goal}
        /\ r.answer = proc[p].answer /\ r.lost = proc[p].lost /\ r.calls = proc[p].calls
        /\ r.installed = proc[p].installed /\ (r.pc = "describe" => r.goal = "shell")
    <3>1. CASE r = [proc[p] EXCEPT !.pc = "describe", !.told = TRUE, !.goal = "shell"]
      BY <2>2, <3>1 DEF ProcessState
    <3>2. CASE r = [proc[p] EXCEPT !.pc = "done", !.told = TRUE]
      BY <2>2, <3>2 DEF ProcessState
    <3>. QED BY <2>1, <3>1, <3>2
  <2>4. /\ StageFits(r) /\ Named(r) /\ ReportFits(r, session[p]) /\ AnswerFits(p, r)
        /\ SessionFits(p, r, session[p]) /\ BeforeFits(r, session[p])
    BY <2>3, Standing
       DEF PrintSummary, StageFits, Named, ReportFits, Served, AnswerFits, SessionFits, BeforeFits,
           Before, Finished, Uploading
  <2>5. port' = port /\ port # p
    BY Standing DEF PrintSummary
  <2>. QED BY <2>1, <2>3, <2>4, <2>5, RecordKeeps DEF PrintSummary
<1>. QED BY <1>1, <1>2 DEF PrintSummary

LEMMA JoinKeeps ==
  ASSUME CommandInv, NEW p \in Process, DescribeTask(p) \/ AwaitJoined(p)
  PROVE  CommandInv'
<1>1. CASE Fail(p)
  BY <1>1, FailKeeps DEF DescribeTask, AwaitJoined, WaitForRunning, Finished
<1>2. ASSUME NEW stage \in {"agent", "waitRunning"}, Goto(p, stage) PROVE CommandInv'
  <2>1. Passes(p, stage)
    BY Standing DEF DescribeTask, AwaitJoined, WaitForRunning, Passes, Finished, Uploading, ReportFits, StageFits
  <2>2. stage \in Stages
    BY DEF Stages
  <2>. QED BY <1>2, <2>1, <2>2, Quiet, GoKeeps DEF DescribeTask, AwaitJoined, WaitForRunning
<1>. QED BY <1>1, <1>2 DEF DescribeTask, AwaitJoined, WaitForRunning, Fail

LEMMA StopKeeps ==
  ASSUME CommandInv, NEW p \in Process, StopTask(p) \/ WaitForStopped(p)
  PROVE  CommandInv'
<1>1. CASE Fail(p) /\ UNCHANGED task
  BY <1>1, FailKeeps DEF StopTask, WaitForStopped, Finished
<1>2. ASSUME NEW stage \in {"done", "waitStopped"}, Goto(p, stage), TaskTypes', Onward
      PROVE  CommandInv'
  <2>1. proc[p].line \in Line /\ proc[p].line.cmd = "stop-task"
    BY Standing DEF StopTask, WaitForStopped, StageFits
  <2>2. ~Credentials(proc[p].line)
    BY <2>1, LineFits DEF Credentials
  <2>3. Passes(p, stage)
    BY <2>1, <2>2 DEF StopTask, WaitForStopped, Passes, Finished, Uploading
  <2>4. stage \in Stages
    BY DEF Stages
  <2>. QED BY <1>2, <2>3, <2>4, GoKeeps DEF StopTask, WaitForStopped
<1>3. CASE task' = Told(task, proc[p].task) /\ StopTask(p)
  <2>1. proc[p].task \in Task
    BY <1>3, Standing DEF StopTask, StageFits, Finished
  <2>2. TaskTypes' /\ Onward
    BY <1>3, <2>1, ToldGoesOn DEF StopTask
  <2>. QED BY <1>1, <1>2, <1>3, <2>2 DEF StopTask, Goto, Fail
<1>. QED BY <1>1, <1>2, <1>3, Quiet DEF StopTask, WaitForStopped

LEMMA PrepareKeeps ==
  ASSUME CommandInv, NEW p \in Process, Prepare(p) \/ WaitForExecAgent(p) \/ OpenSession(p)
  PROVE  CommandInv'
<1>1. CASE Fail(p)
  BY <1>1, FailKeeps DEF Prepare, WaitForExecAgent, OpenSession, Finished
<1>2. CASE Prepare(p) /\ Goto(p, "agent")
  <2>1. Passes(p, "agent") /\ "agent" \in Stages
    BY <1>2 DEF Prepare, Passes, Finished, Uploading, Stages, Before
  <2>. QED BY <1>2, <2>1, Quiet, GoKeeps DEF Prepare
<1>3. CASE WaitForExecAgent(p) /\ ~Fail(p)
  <2>1. PICK stage \in {"acquire", "exec"} :
          /\ Goto(p, stage)
          /\ stage = IF proc[p].goal = "credentials" /\ proc[p].line.cmd # "clear" THEN "acquire" ELSE "exec"
    BY <1>3 DEF WaitForExecAgent
  <2>2. proc[p].task \in agent /\ UNCHANGED <<task, agent, config, session, port>> /\ proc[p].pc = "agent"
    BY <1>3 DEF WaitForExecAgent, AgentRunning
  <2>3. Passes(p, stage)
    BY <2>1, <2>2 DEF Passes, Finished, Uploading, Before
  <2>4. stage \in Stages
    BY DEF Stages
  <2>. QED BY <2>1, <2>2, <2>3, <2>4, Quiet, GoKeeps
<1>4. CASE OpenSession(p) /\ ~Fail(p)
  <2>1. PICK stage \in {"plugin", "done"} :
          Goto(p, stage) /\ stage = IF proc[p].goal = "credentials" THEN "plugin" ELSE "done"
    BY <1>4 DEF OpenSession
  <2>2. UNCHANGED <<task, agent, config, session, port>> /\ proc[p].pc = "exec"
    BY <1>4 DEF OpenSession
  <2>3. proc[p].goal \in {"credentials", "shell"}
    BY Standing DEF ProcessState
  <2>4. Passes(p, stage)
    BY <2>1, <2>2, <2>3, Standing DEF Passes, Finished, Uploading, AnswerFits, ReportFits, TasksFit, Before
  <2>5. stage \in Stages
    BY DEF Stages
  <2>. QED BY <2>1, <2>2, <2>4, <2>5, Quiet, GoKeeps
<1>. QED BY <1>1, <1>2, <1>3, <1>4 DEF Prepare

-----------------------------------------------------------------------------
(* The OCM login. *)

LEMMA DeviceKeeps == ASSUME CommandInv, NEW p \in Process, AcquireDevice(p) PROVE CommandInv'
<1>1. CASE Fail(p)
  BY <1>1, FailKeeps DEF AcquireDevice, Finished
<1>2. CASE Goto(p, "exec")
  <2>1. Passes(p, "exec") /\ "exec" \in Stages
    BY Standing DEF AcquireDevice, Passes, Finished, Uploading, StageFits, TasksFit, Stages, Before
  <2>. QED BY <1>2, <2>1, Quiet, GoKeeps DEF AcquireDevice
<1>. QED BY <1>1, <1>2 DEF AcquireDevice

LEMMA ListenKeeps == ASSUME CommandInv, NEW p \in Process, ListenForCallback(p) PROVE CommandInv'
<1>1. CASE Fail(p) /\ UNCHANGED port
  BY <1>1, FailKeeps DEF ListenForCallback, Finished
<1>2. CASE port' = p /\ Set(p, [proc[p] EXCEPT !.pc = "await", !.tab = TRUE])
  <2>1. PICK r : r = [proc[p] EXCEPT !.pc = "await", !.tab = TRUE]
    OBVIOUS
  <2>2. "await" \in Stages /\ proc[p] \in ProcessState
    BY Standing DEF Stages
  <2>3. /\ r \in ProcessState /\ r.pc = "await" /\ r.told = proc[p].told /\ r.line = proc[p].line
        /\ r.task = proc[p].task /\ r.goal = proc[p].goal /\ r.answer = proc[p].answer
        /\ r.lost = proc[p].lost /\ r.calls = proc[p].calls /\ r.installed = proc[p].installed
    BY <2>1, <2>2 DEF ProcessState
  <2>4. /\ StageFits(r) /\ Named(r) /\ ReportFits(r, session[p]) /\ AnswerFits(p, r)
        /\ SessionFits(p, r, session[p]) /\ BeforeFits(r, session[p])
    BY <2>3, Standing
       DEF ListenForCallback, StageFits, Named, ReportFits, Served, AnswerFits, SessionFits, BeforeFits,
           Before, Finished, Uploading
  <2>5. r.task \in agent \/ task[r.task] = "stopped"
    BY <2>3, Standing DEF ListenForCallback, TasksFit
  <2>. QED BY <1>2, <2>1, <2>3, <2>4, <2>5, RecordKeeps DEF ListenForCallback
<1>. QED BY <1>1, <1>2 DEF ListenForCallback

LEMMA CallbackKeeps ==
  ASSUME CommandInv, NEW p \in Process, NEW q \in Process, Callback(p, q)
  PROVE  CommandInv'
<1>1. PICK answer \in {p, "error"} : Set(p, [proc[p] EXCEPT !.answer = answer])
  BY DEF Callback, OwnState
<1>2. PICK r : r = [proc[p] EXCEPT !.answer = answer]
  OBVIOUS
<1>3. /\ r \in ProcessState /\ r.pc = "await" /\ r.told = proc[p].told /\ r.line = proc[p].line
      /\ r.task = proc[p].task /\ r.goal = proc[p].goal /\ r.answer = answer
      /\ r.lost = proc[p].lost /\ r.calls = proc[p].calls /\ r.installed = proc[p].installed
  <2>1. proc[p] \in ProcessState
    BY Standing
  <2>. QED BY <1>2, <2>1 DEF ProcessState, Callback
<1>4. StageFits(r) /\ Named(r) /\ ReportFits(r, session[p]) /\ AnswerFits(p, r)
  BY <1>3, Standing DEF StageFits, Named, ReportFits, Served, AnswerFits, Callback, Finished, Uploading
<1>5. SessionFits(p, r, session[p]) /\ BeforeFits(r, session[p])
  BY <1>3, Standing, AnswerAssumption DEF SessionFits, BeforeFits, Before, Served, Callback
<1>6. r.task \in agent \/ task[r.task] = "stopped"
  BY <1>3, Standing DEF Callback, TasksFit
<1>. QED BY <1>1, <1>2, <1>3, <1>4, <1>5, <1>6, RecordKeeps DEF Callback

LEMMA LoginKeeps == ASSUME CommandInv, NEW p \in Process, AwaitCallback(p) PROVE CommandInv'
<1>1. CASE Fail(p) /\ Free(p)
  BY <1>1, FailKeeps DEF AwaitCallback, Finished
<1>2. CASE proc[p].answer \in Process /\ Goto(p, "exec") /\ Free(p)
  <2>1. proc[p].answer = p
    BY <1>2, Standing, AnswerAssumption DEF AnswerFits
  <2>2. Passes(p, "exec") /\ "exec" \in Stages
    BY <2>1, Standing DEF AwaitCallback, Passes, Finished, Uploading, StageFits, TasksFit, Stages, Before
  <2>. QED BY <1>2, <2>2, Quiet, GoKeeps DEF AwaitCallback
<1>. QED BY <1>1, <1>2 DEF AwaitCallback, Abort

-----------------------------------------------------------------------------
(* The transfer. *)

LEMMA PluginKeeps == ASSUME CommandInv, NEW p \in Process, StartPlugin(p) PROVE CommandInv'
<1>1. CASE Fail(p) /\ UNCHANGED session
  BY <1>1, FailKeeps DEF StartPlugin, Finished
<1>2. CASE /\ SetSession(p, [NoSession EXCEPT !.plugin = "up",
                               !.helper = IF Up(proc[p].task) THEN "started" ELSE "ended"])
           /\ Goto(p, "read")
  <2>1. PICK helper \in {"started", "ended"} :
          SetSession(p, [NoSession EXCEPT !.plugin = "up", !.helper = helper])
    BY <1>2
  <2>2. PICK s : s = [NoSession EXCEPT !.plugin = "up", !.helper = helper]
    OBVIOUS
  <2>3. s \in SessionState /\ s.output = {} /\ ~s.sent /\ s.helper = helper
    BY <2>2 DEF SessionState, NoSession
  <2>7. session[p].helper = "none"
    BY Standing DEF StartPlugin, BeforeFits, StageFits, Uploading, Before
  <2>4. SessionFits(p, proc[p], s)
    BY <2>3, <2>7, Standing DEF SessionFits, StartPlugin
  <2>5. Passes(p, "read") /\ "read" \in Stages
    BY Standing DEF StartPlugin, Passes, Finished, Uploading, StageFits, AnswerFits, Stages
  <2>6. port' = port /\ port # p /\ TaskTypes' /\ Onward
    BY Standing, Quiet DEF StartPlugin
  <2>8. Forward(session[p], s) /\ Rests(session[p], s)
    BY <2>3, <2>7 DEF Forward, Rests, Late
  <2>. QED BY <1>2, <2>1, <2>2, <2>3, <2>4, <2>5, <2>6, <2>8, PassKeeps
<1>. QED BY <1>1, <1>2 DEF StartPlugin

\* What passes through the pipe, and the end of the plugin, are nothing to the helper.
LEMMA PipeFits ==
  ASSUME NEW r, NEW s, NEW new, BeforeFits(r, s), new.helper = s.helper, new.matched = s.matched,
         new.ready = s.ready, new.kept = s.kept
  PROVE  Forward(s, new) /\ Rests(s, new) /\ BeforeFits(r, new)
BY DEF Forward, Rests, BeforeFits

\* What the command reads and writes.
LEMMA ReadKeeps ==
  ASSUME CommandInv, NEW p \in Process, ReadReady(p) \/ ReadSuccess(p) \/ ReadJunk(p) \/ ReadEnd(p)
  PROVE  CommandInv'
<1>0. session[p] \in SessionState /\ SessionFits(p, proc[p], session[p])
  BY Standing
<1>1. CASE ReadReady(p)
  <2>1. PICK s : s = [session[p] EXCEPT !.output = @ \ {"ready"}, !.sent = TRUE,
                                        !.copying = session[p].plugin = "up"]
    OBVIOUS
  <2>2. /\ s \in SessionState /\ s.output = session[p].output \ {"ready"}
        /\ s.helper = session[p].helper /\ s.matched = session[p].matched /\ s.ready = session[p].ready
        /\ s.kept = session[p].kept
    BY <1>0, <2>1 DEF SessionState
  <2>3. ~proc[p].line.device => proc[p].answer = p
    BY <1>1, Standing DEF ReadReady, RequireReady, AnswerFits, StageFits, Uploading
  <2>4. SessionFits(p, proc[p], s)
    BY <1>0, <1>1, <2>2, <2>3 DEF SessionFits, Served, ReadReady, MaySend
  <2>5. SetSession(p, s) /\ UNCHANGED <<task, agent, config, port, proc>>
    BY <1>1, <2>1 DEF ReadReady
  <2>. QED BY <2>2, <2>4, <2>5, Standing, PipeFits, SessionKeeps
<1>2. CASE ReadSuccess(p)
  <2>1. PICK s : s = [session[p] EXCEPT !.output = @ \ {"success"}, !.copying = FALSE]
    OBVIOUS
  <2>2. /\ s \in SessionState /\ s.output = session[p].output \ {"success"}
        /\ s.helper = session[p].helper /\ s.matched = session[p].matched /\ s.ready = session[p].ready
        /\ s.kept = session[p].kept /\ s.sent = session[p].sent
    BY <1>0, <2>1 DEF SessionState
  <2>3. SessionFits(p, proc[p], s)
    BY <1>0, <1>2, <2>2 DEF SessionFits, Served, ReadSuccess
  <2>4. Passes(p, "drain") /\ "drain" \in Stages
    BY <1>0, <1>2, Standing
       DEF ReadSuccess, Passes, Finished, Uploading, StageFits, AnswerFits, SessionFits, Stages
  <2>5. SetSession(p, s) /\ Goto(p, "drain") /\ port' = port /\ port # p /\ TaskTypes' /\ Onward
    BY <1>2, <2>1, Standing, Quiet DEF ReadSuccess
  <2>. QED BY <2>2, <2>3, <2>4, <2>5, Standing, PipeFits, PassKeeps
<1>3. CASE ReadJunk(p)
  <2>1. PICK s : s = [session[p] EXCEPT !.plugin = "ended", !.copying = FALSE]
    OBVIOUS
  <2>2. /\ s \in SessionState /\ s.output = session[p].output
        /\ s.helper = session[p].helper /\ s.matched = session[p].matched /\ s.ready = session[p].ready
        /\ s.kept = session[p].kept /\ s.sent = session[p].sent
    BY <1>0, <2>1 DEF SessionState
  <2>3. SessionFits(p, proc[p], s)
    BY <1>0, <1>3, <2>2 DEF SessionFits, Served, ReadJunk
  <2>4. Passes(p, "failed") /\ "failed" \in Stages
    BY <1>3 DEF ReadJunk, Passes, Finished, Uploading, Stages
  <2>5. SetSession(p, s) /\ Goto(p, "failed") /\ port' = port /\ port # p /\ TaskTypes' /\ Onward
    BY <1>3, <2>1, Standing, Quiet DEF ReadJunk, Fail
  <2>. QED BY <2>2, <2>3, <2>4, <2>5, Standing, PipeFits, PassKeeps
<1>4. CASE ReadEnd(p)
  BY <1>4, FailKeeps DEF ReadEnd, Finished
<1>. QED BY <1>1, <1>2, <1>3, <1>4

LEMMA FinishKeeps == ASSUME CommandInv, NEW p \in Process, Finish(p) PROVE CommandInv'
<1>1. CASE Fail(p)
  BY <1>1, FailKeeps DEF Finish, Finished
<1>2. CASE Goto(p, IF proc[p].line.cmd = "start-task" THEN "summary" ELSE "done")
  <2>1. PICK stage \in {"summary", "done"} :
          Goto(p, stage) /\ (stage = "summary" => proc[p].line.cmd = "start-task")
    BY <1>2
  <2>2. Passes(p, stage)
    BY <2>1, Standing DEF Finish, Passes, Finished, Uploading, ReportFits
  <2>3. stage \in Stages
    BY DEF Stages
  <2>. QED BY <2>1, <2>2, <2>3, Quiet, GoKeeps DEF Finish
<1>. QED BY <1>1, <1>2 DEF Finish

\* The plugin ends by itself, or by the deadline.
LEMMA EndKeeps ==
  ASSUME CommandInv, NEW p \in Process, Timeout(p) \/ PluginEnds(p)
  PROVE  CommandInv'
<1>0. session[p] \in SessionState /\ SessionFits(p, proc[p], session[p])
  BY Standing
<1>1. PICK s : /\ SetSession(p, s)
               /\ \/ s = [session[p] EXCEPT !.plugin = "ended", !.expired = TRUE]
                  \/ s = [session[p] EXCEPT !.plugin = "ended"]
  BY DEF Timeout, PluginEnds
<1>2. /\ s \in SessionState /\ s.output = session[p].output
      /\ s.helper = session[p].helper /\ s.matched = session[p].matched /\ s.ready = session[p].ready
        /\ s.kept = session[p].kept /\ s.sent = session[p].sent
  BY <1>0, <1>1 DEF SessionState
<1>3. proc[p].pc \notin {"idle", "lambda"}
  BY <1>0 DEF Timeout, PluginEnds, SessionFits, NoSession
<1>4. SessionFits(p, proc[p], s)
  BY <1>0, <1>2, <1>3 DEF SessionFits, Served
<1>5. Forward(session[p], s) /\ Rests(session[p], s) /\ BeforeFits(proc[p], s)
  BY <1>2, Standing, PipeFits
<1>. QED BY <1>1, <1>2, <1>4, <1>5, SessionKeeps DEF Timeout, PluginEnds

-----------------------------------------------------------------------------
(* The helper. *)

LEMMA HelperBusy ==
  ASSUME CommandInv, NEW p \in Process, session[p].helper # "none"
  PROVE  proc[p].pc \notin {"idle", "lambda"} /\ port \in Process \cup {None}
BY Standing DEF SessionFits, NoSession

\* What the helper prints and writes down for itself.
LEMMA HelperSpeaks ==
  ASSUME CommandInv, NEW p \in Process,
         \/ HelperReady(p) \/ HelperReceive(p) \/ HelperDecode(p) \/ HelperBuild(p) \/ HelperSuccess(p)
  PROVE  CommandInv'
<1>0. /\ session[p] \in SessionState /\ SessionFits(p, proc[p], session[p]) /\ BeforeFits(proc[p], session[p])
      /\ proc[p].pc \notin {"idle", "lambda"} /\ session[p].helper # "none"
  BY Standing, HelperBusy DEF HelperReady, HelperReceive, HelperDecode, HelperBuild, HelperSuccess
<1>1. PICK helper \in {"listening", "made", "decoded", "checking", "ended"},
           output \in SUBSET {"ready", "success", "junk"} :
        /\ SetSession(p, [session[p] EXCEPT !.helper = helper, !.output = output])
        /\ \/ /\ session[p].helper = "started" /\ helper = "listening"
              /\ output \subseteq session[p].output \cup {"ready"}
           \/ session[p].helper = "listening" /\ helper = "made" /\ output = session[p].output
           \/ session[p].helper = "made" /\ helper = "decoded" /\ output = session[p].output
           \/ session[p].helper = "decoded" /\ helper = "checking" /\ output = session[p].output
           \/ /\ session[p].helper = "installed" /\ helper = "ended"
              /\ output \subseteq session[p].output \cup {"success"}
  <2>0. /\ \A marker \in {"ready", "success", "junk"} :
             Printed(session[p], marker) \in SUBSET {"ready", "success", "junk"}
               /\ Printed(session[p], marker) \subseteq session[p].output \cup {marker}
        /\ session[p].output \in SUBSET {"ready", "success", "junk"}
    BY <1>0 DEF Printed, SessionState
  <2>1. CASE HelperReady(p)
    BY <2>0, <2>1 DEF HelperReady
  <2>2. ASSUME NEW helper \in {"made", "decoded", "checking"}
        PROVE  [session[p] EXCEPT !.helper = helper]
                 = [session[p] EXCEPT !.helper = helper, !.output = session[p].output]
    BY <1>0 DEF SessionState
  <2>3. CASE HelperReceive(p)
    BY <2>0, <2>2, <2>3 DEF HelperReceive
  <2>4. CASE HelperDecode(p)
    BY <2>0, <2>2, <2>4 DEF HelperDecode
  <2>5. CASE HelperBuild(p)
    BY <2>0, <2>2, <2>5 DEF HelperBuild
  <2>6. CASE HelperSuccess(p)
    BY <2>0, <2>6 DEF HelperSuccess
  <2>. QED BY <2>1, <2>3, <2>4, <2>5, <2>6
<1>2. PICK s : s = [session[p] EXCEPT !.helper = helper, !.output = output]
  OBVIOUS
<1>3. /\ s \in SessionState /\ s.helper = helper /\ s.output = output /\ s.sent = session[p].sent
      /\ s.kept = session[p].kept
  BY <1>0, <1>2 DEF SessionState
<1>4. SessionFits(p, proc[p], s)
  BY <1>0, <1>1, <1>3 DEF SessionFits, Served
<1>5. Forward(session[p], s) /\ Rests(session[p], s) /\ BeforeFits(proc[p], s)
  BY <1>0, <1>1, <1>3 DEF Forward, Rests, BeforeFits, Late
<1>. QED BY <1>1, <1>2, <1>3, <1>4, <1>5, SessionKeeps
         DEF HelperReady, HelperReceive, HelperDecode, HelperBuild, HelperSuccess

LEMMA HelperFailKeeps == ASSUME CommandInv, NEW p \in Process, HelperFails(p) PROVE CommandInv'
<1>0. /\ session[p] \in SessionState /\ SessionFits(p, proc[p], session[p]) /\ BeforeFits(proc[p], session[p])
      /\ proc[p].pc \notin {"idle", "lambda"} /\ session[p].helper \notin {"none", "ended"}
  BY Standing, HelperBusy DEF HelperFails
<1>1. PICK output \in {session[p].output, Printed(session[p], "junk")} :
        SetSession(p, [Over(session[p]) EXCEPT !.output = output])
  BY DEF HelperFails
<1>2. output \in SUBSET {"ready", "success", "junk"} /\ output \subseteq session[p].output \cup {"junk"}
  BY <1>0, <1>1 DEF Printed, SessionState
<1>3. PICK z : z = Over(session[p])
  OBVIOUS
<1>4. PICK s : s = [z EXCEPT !.output = output]
  OBVIOUS
<1>5. /\ z \in SessionState /\ z.helper = "ended" /\ z.sent = session[p].sent
      /\ z.kept = (session[p].kept /\ session[p].helper \in {"installed", "ended"})
  BY <1>0, <1>3, OverFits
<1>6. /\ s \in SessionState /\ s.helper = "ended" /\ s.sent = session[p].sent /\ s.output = output
      /\ s.kept = z.kept
  BY <1>2, <1>4, <1>5 DEF SessionState
<1>7. SessionFits(p, proc[p], s)
  BY <1>0, <1>2, <1>5, <1>6 DEF SessionFits, Served
<1>8. Forward(session[p], s) /\ Rests(session[p], s) /\ BeforeFits(proc[p], s)
  BY <1>0, <1>6 DEF Forward, Rests, BeforeFits, Late
<1>. QED BY <1>1, <1>3, <1>4, <1>6, <1>7, <1>8, SessionKeeps DEF HelperFails

\* What it does to the files, and what it then counts as done.
LEMMA HelperActs ==
  ASSUME CommandInv, NEW p \in Process, NEW s \in SessionState, NEW installed \in BOOLEAN,
         proc' = [proc EXCEPT ![p] = [proc[p] EXCEPT !.installed = installed]],
         session' \in [Process -> SessionState], session'[p] = s,
         \A q \in Process \ {p} : Spared(session[q], session'[q]),
         UNCHANGED <<task, agent, port>>, config' \in [Task -> Process \cup {None}],
         session[p].helper \notin {"none", "installed", "ended"}, s.helper \notin {"none", "started"},
         s.output = session[p].output, s.sent = session[p].sent,
         installed => s.helper = "installed", s.helper = "installed" => installed \/ s.kept,
         Forward(session[p], s), Rests(session[p], s) \/ \A q \in Process : Taken(p, q)'
  PROVE  CommandInv'
<1>1. PICK r : r = [proc[p] EXCEPT !.installed = installed]
  OBVIOUS
<1>2. /\ r \in ProcessState /\ r.pc = proc[p].pc /\ r.told = proc[p].told /\ r.line = proc[p].line
      /\ r.task = proc[p].task /\ r.goal = proc[p].goal /\ r.answer = proc[p].answer
      /\ r.lost = proc[p].lost /\ r.calls = proc[p].calls /\ r.installed = installed
  <2>1. proc[p] \in ProcessState
    BY Standing
  <2>. QED BY <1>1, <2>1 DEF ProcessState
<1>3. proc[p].pc \notin {"idle", "lambda"} /\ ~Served(proc[p], session[p]) /\ ~Before(proc[p])
  BY HelperBusy, Standing DEF Served, SessionFits, BeforeFits
<1>4. StageFits(r) /\ Named(r) /\ ReportFits(r, s) /\ AnswerFits(p, r)
  BY <1>2, <1>3, Standing DEF StageFits, Named, ReportFits, AnswerFits
<1>5. SessionFits(p, r, s) /\ BeforeFits(r, s)
  BY <1>2, <1>3, Standing DEF SessionFits, BeforeFits, Before
<1>6. TasksFit(r)'
  BY <1>2, Standing DEF TasksFit
<1>7. TaskTypes' /\ Onward
  BY Standing DEF TaskTypes, Onward, Up
<1>8. port' = port /\ (port = p => r.pc = "await")
  BY <1>2, Standing
<1>9. proc' = [proc EXCEPT ![p] = r]
  BY <1>1
<1>. QED BY <1>2, <1>4, <1>5, <1>6, <1>7, <1>8, <1>9, ProcessMoves

LEMMA InstallKeeps == ASSUME CommandInv, NEW p \in Process, HelperInstall(p) PROVE CommandInv'
<1>1. PICK s : s = [session[p] EXCEPT !.helper = "installed"]
  OBVIOUS
<1>2. /\ s \in SessionState /\ s.helper = "installed"
      /\ s.output = session[p].output /\ s.sent = session[p].sent
  BY <1>1, Standing DEF SessionState
<1>3. /\ session' \in [Process -> SessionState] /\ session'[p] = s
      /\ \A q \in Process \ {p} : Spared(session[q], session'[q])
  BY <1>1, <1>2, Standing DEF HelperInstall, SetSession, Spared
<1>4. config' \in [Task -> Process \cup {None}]
  BY Standing DEF HelperInstall, TaskTypes
<1>5. proc' = [proc EXCEPT ![p] = [proc[p] EXCEPT !.installed = TRUE]]
  BY DEF HelperInstall, Set
<1>6. session[p].helper = "checking" /\ Forward(session[p], s) /\ Rests(session[p], s)
  BY <1>2 DEF HelperInstall, Forward, Rests, Late
<1>. QED BY <1>2, <1>3, <1>4, <1>5, <1>6, HelperActs DEF HelperInstall

\* A step that finds or removes files: what p has done is as before, or this is the end of it.
LEMMA ClearKeeps == ASSUME CommandInv, NEW p \in Process, HelperClear(p) PROVE CommandInv'
<1>0. /\ session[p] \in SessionState /\ SessionFits(p, proc[p], session[p])
      /\ session[p].helper = "started" /\ proc[p] \in ProcessState
      /\ proc \in [Process -> ProcessState] /\ session \in [Process -> SessionState]
  BY Standing DEF HelperClear
<1>1. PICK kept \in BOOLEAN : SetSession(p, [Expanded(p) EXCEPT !.kept = kept])
  <2>1. Expanded(p) = [Expanded(p) EXCEPT !.kept = session[p].kept] /\ session[p].kept \in BOOLEAN
    BY <1>0 DEF Expanded, SessionState
  <2>. QED BY <2>1 DEF HelperClear
<1>2. PICK matched, ready : /\ matched = Helpers(proc[p].task, {"made", "decoded", "checking"})
                            /\ ready = Helpers(proc[p].task, {"decoded", "checking"})
  OBVIOUS
<1>3. PICK s : s = [[session[p] EXCEPT !.helper = "clearing", !.matched = matched, !.ready = ready]
                      EXCEPT !.kept = kept]
  OBVIOUS
<1>4. /\ s \in SessionState /\ s.helper = "clearing" /\ s.matched = matched /\ s.ready = ready
      /\ s.output = session[p].output /\ s.sent = session[p].sent
  <2>1. matched \in SUBSET Process /\ ready \in SUBSET Process
    BY <1>2 DEF Helpers
  <2>. QED BY <1>0, <1>3, <2>1 DEF SessionState
<1>5. session' = [session EXCEPT ![p] = s]
  BY <1>1, <1>2, <1>3 DEF SetSession, Expanded
<1>6. /\ session' \in [Process -> SessionState] /\ session'[p] = s
      /\ \A q \in Process \ {p} : session'[q] = session[q]
      /\ \A q \in Process \ {p} : Spared(session[q], session'[q])
  BY <1>0, <1>4, <1>5 DEF Spared
<1>7. config' \in [Task -> Process \cup {None}]
  BY Standing DEF HelperClear, TaskTypes
<1>8. /\ proc' = [proc EXCEPT ![p] = [proc[p] EXCEPT !.installed = FALSE]]
      /\ proc' = proc
  BY <1>0 DEF HelperClear, ProcessState, SessionFits
<1>9. ASSUME NEW q \in Process PROVE Taken(p, q)'
  BY <1>0, <1>2, <1>4, <1>6, <1>8 DEF Taken, Helpers, Late
<1>10. Forward(session[p], s)
  BY <1>0, <1>4 DEF Forward, Late
<1>. QED BY <1>0, <1>4, <1>6, <1>7, <1>8, <1>9, <1>10, HelperActs DEF HelperClear

\* What a step that removes files does to the helpers that need them.
LEMMA RemovedFits ==
  ASSUME CommandInv, NEW p \in Process, NEW gone, NEW stage, stage # "none",
         NEW s \in SessionState, session' = Removed(p, gone, stage, s), session[p].helper # stage
  PROVE  /\ session' \in [Process -> SessionState] /\ session'[p] = s
         /\ \A q \in Process \ {p} :
              IF q \in gone /\ session[q].helper = stage /\ proc[q].task = proc[p].task
              THEN session'[q] = Over(session[q]) ELSE session'[q] = session[q]
         /\ \A q \in Process \ {p} : Spared(session[q], session'[q])
<1>1. session'[p] = s
  BY DEF Removed, Helpers
<1>2. ASSUME NEW q \in Process \ {p}
      PROVE  IF q \in gone /\ session[q].helper = stage /\ proc[q].task = proc[p].task
             THEN session'[q] = Over(session[q]) ELSE session'[q] = session[q]
  <2>1. q \in gone \cap Helpers(proc[p].task, {stage})
          <=> q \in gone /\ session[q].helper = stage /\ proc[q].task = proc[p].task
    BY DEF Helpers
  <2>2. session'[q] = IF q \in gone \cap Helpers(proc[p].task, {stage}) THEN Over(session[q]) ELSE session[q]
    BY DEF Removed
  <2>. QED BY <2>1, <2>2
<1>3. \A q \in Process \ {p} : Spared(session[q], session'[q])
  BY <1>2 DEF Spared
<1>4. ASSUME NEW q \in Process PROVE session'[q] \in SessionState
  BY <1>1, <1>2, Standing, OverFits
<1>5. session' \in [Process -> SessionState]
  BY <1>4 DEF Removed
<1>. QED BY <1>1, <1>2, <1>3, <1>5

LEMMA ClearRequestsKeeps == ASSUME CommandInv, NEW p \in Process, HelperClearRequests(p) PROVE CommandInv'
<1>0. /\ session[p] \in SessionState /\ SessionFits(p, proc[p], session[p])
      /\ session[p].helper = "clearing" /\ proc[p] \in ProcessState
      /\ proc \in [Process -> ProcessState] /\ session \in [Process -> SessionState]
      /\ \A q \in Process : Taken(p, q)
  BY Standing DEF HelperClearRequests
<1>1. PICK gone \in SUBSET session[p].matched :
        session' = Removed(p, gone, "decoded",
                     [session[p] EXCEPT !.helper = "sweeping", !.kept = @ \/ gone # session[p].matched])
  BY DEF HelperClearRequests
<1>2. PICK s : s = [session[p] EXCEPT !.helper = "sweeping", !.kept = @ \/ gone # session[p].matched]
  OBVIOUS
<1>3. /\ s \in SessionState /\ s.helper = "sweeping" /\ s.matched = session[p].matched
      /\ s.ready = session[p].ready /\ (~s.kept => gone = s.matched)
      /\ s.output = session[p].output /\ s.sent = session[p].sent
  BY <1>0, <1>2 DEF SessionState
<1>4. /\ session' \in [Process -> SessionState] /\ session'[p] = s
      /\ \A q \in Process \ {p} :
           IF q \in gone /\ session[q].helper = "decoded" /\ proc[q].task = proc[p].task
           THEN session'[q] = Over(session[q]) ELSE session'[q] = session[q]
      /\ \A q \in Process \ {p} : Spared(session[q], session'[q])
  BY <1>0, <1>1, <1>2, <1>3, RemovedFits
<1>5. config' \in [Task -> Process \cup {None}]
  BY Standing DEF HelperClearRequests, TaskTypes
<1>6. /\ proc' = [proc EXCEPT ![p] = [proc[p] EXCEPT !.installed = FALSE]]
      /\ proc' = proc
  BY <1>0 DEF HelperClearRequests, ProcessState, SessionFits
<1>7. ASSUME NEW q \in Process, q \in s.ready
      PROVE  /\ q \in s.matched /\ proc[q].task = proc[p].task /\ session'[q].helper \in Late
             /\ ~s.kept => session'[q].helper # "decoded"
  <2>1. /\ q \in session[p].matched /\ proc[q].task = proc[p].task /\ session[q].helper \in Late /\ q # p
    BY <1>0, <1>3, <1>7 DEF Taken, Late
  <2>2. session[q] \in SessionState /\ Over(session[q]).helper = "ended"
    BY <1>0, OverFits
  <2>. QED BY <1>3, <1>4, <2>1, <2>2 DEF Late
<1>8. ASSUME NEW q \in Process PROVE Taken(p, q)'
  BY <1>3, <1>4, <1>6, <1>7 DEF Taken
<1>9. Forward(session[p], s)
  BY <1>0, <1>3 DEF Forward, Late
<1>. QED BY <1>0, <1>3, <1>4, <1>5, <1>6, <1>8, <1>9, HelperActs DEF HelperClearRequests

LEMMA ClearRestKeeps == ASSUME CommandInv, NEW p \in Process, HelperClearRest(p) PROVE CommandInv'
<1>0. session[p] \in SessionState /\ session[p].helper = "sweeping"
  BY Standing DEF HelperClearRest
<1>1. PICK gone \in SUBSET session[p].matched, kept \in BOOLEAN :
        /\ session' = Removed(p, gone, "checking",
             [session[p] EXCEPT !.helper = "installed", !.kept = kept, !.matched = {}, !.ready = {}])
        /\ Set(p, [proc[p] EXCEPT !.installed = ~kept])
  BY <1>0 DEF HelperClearRest, SessionState
<1>2. PICK s : s = [session[p] EXCEPT !.helper = "installed", !.kept = kept, !.matched = {}, !.ready = {}]
  OBVIOUS
<1>3. /\ s \in SessionState /\ s.helper = "installed" /\ s.kept = kept
      /\ s.output = session[p].output /\ s.sent = session[p].sent
  BY <1>0, <1>2 DEF SessionState
<1>r. session' = Removed(p, gone, "checking", s) /\ session[p].helper # "checking"
  BY <1>0, <1>1, <1>2
<1>4. /\ session' \in [Process -> SessionState] /\ session'[p] = s
      /\ \A q \in Process \ {p} : Spared(session[q], session'[q])
  BY <1>3, <1>r, RemovedFits
<1>5. config' \in [Task -> Process \cup {None}]
  BY Standing DEF HelperClearRest, TaskTypes
<1>6. PICK installed \in BOOLEAN : installed = ~kept
  OBVIOUS
<1>7. proc' = [proc EXCEPT ![p] = [proc[p] EXCEPT !.installed = installed]]
  BY <1>1, <1>6 DEF Set
<1>8. Forward(session[p], s) /\ Rests(session[p], s)
  BY <1>0, <1>3 DEF Forward, Rests, Late
<1>. QED BY <1>0, <1>3, <1>4, <1>5, <1>6, <1>7, <1>8, HelperActs DEF HelperClearRest

LEMMA HelperKeeps == ASSUME CommandInv, NEW p \in Process, Helper(p) PROVE CommandInv'
BY HelperSpeaks, HelperFailKeeps, InstallKeeps, ClearKeeps, ClearRequestsKeeps, ClearRestKeeps DEF Helper

-----------------------------------------------------------------------------
(* The interrupt, and the tasks. *)

LEMMA KillKeeps == ASSUME CommandInv, NEW p \in Process, Kill(p) PROVE CommandInv'
<1>1. PICK s : s = IF session[p].plugin = "up" THEN [session[p] EXCEPT !.plugin = "ended"] ELSE session[p]
  OBVIOUS
<1>2. /\ s \in SessionState /\ s.output = session[p].output
      /\ s.helper = session[p].helper /\ s.matched = session[p].matched /\ s.ready = session[p].ready
        /\ s.kept = session[p].kept /\ s.sent = session[p].sent
  BY <1>1, Standing DEF SessionState
<1>3. SessionFits(p, proc[p], s)
  BY <1>1, <1>2, Standing DEF SessionFits, Served, NoSession
<1>6. Forward(session[p], s) /\ Rests(session[p], s) /\ BeforeFits(proc[p], s)
  BY <1>2, Standing, PipeFits
<1>4. Passes(p, "killed") /\ "killed" \in Stages
  BY DEF Kill, Running, Passes, Finished, Uploading, Stages
<1>5. (port' = port /\ (port = p => "killed" = "await")) \/ port' = None
  BY DEF Kill, Free
<1>. QED BY <1>1, <1>2, <1>3, <1>4, <1>5, <1>6, Quiet, PassKeeps DEF Kill

\* Tasks start, stop and end; the processes notice nothing.
LEMMA TasksKeep ==
  ASSUME CommandInv, NEW t \in Task, Place(t) \/ Register(t) \/ StopByOthers(t) \/ Exit(t)
  PROVE  CommandInv'
<1>1. UNCHANGED <<proc, port>> /\ proc \in [Process -> ProcessState]
      /\ session \in [Process -> SessionState]
  BY DEF CommandInv, TypeOK, Place, Register, StopByOthers, Exit
<1>2. /\ task \in [Task -> {"none", "pending", "running", "draining", "stopped"}]
      /\ agent \subseteq {u \in Task : Up(u)} /\ config \in [Task -> Process \cup {None}]
  BY DEF CommandInv, TypeOK
<1>3. TaskTypes' /\ Onward
  <2>1. CASE Place(t) \/ Register(t)
    BY <1>2, <2>1 DEF Place, Register, TaskTypes, Onward, Up
  <2>2. CASE StopByOthers(t)
    BY <2>2, ToldGoesOn DEF StopByOthers
  <2>3. CASE Exit(t)
    BY <1>2, <2>3 DEF Exit, TaskTypes, Onward, Up
  <2>. QED BY <2>1, <2>2, <2>3
<1>4. \A q \in Process : Spared(session[q], session'[q])
  BY DEF Place, Register, StopByOthers, Exit, Spared
<1>5. \A q \in Process : Fits(q, proc[q], session[q])' /\ session'[q] \in SessionState
  BY <1>1, <1>3, <1>4, StandsStill
<1>6. session' \in [Process -> SessionState]
  BY <1>1, <1>5 DEF Place, Register, StopByOthers, Exit
<1>7. TypeOK'
  BY <1>1, <1>3, <1>6 DEF TypeOK, TaskTypes, CommandInv
<1>8. ASSUME NEW p \in Process, NEW q \in Process PROVE Taken(p, q)'
  <2>1. \A z \in Process : Forward(session[z], session'[z]) /\ Rests(session[z], session'[z])
    BY <1>1, <1>4, SparedMoves
  <2>2. Taken(p, q)
    BY DEF CommandInv
  <2>. QED BY <1>1, <2>1, <2>2, StillTaken
<1>. QED BY <1>1, <1>5, <1>7, <1>8 DEF CommandInv

\* What an invocation has found is told to stop.
LEMMA HandOverKeeps == ASSUME CommandInv, NEW p \in Process, HandOver(p) PROVE CommandInv'
<1>1. PICK found \in proc[p].calls : \E t \in found : task' = Told(task, t) /\ task' # task
  BY DEF HandOver
<1>2. PICK t \in found : task' = Told(task, t) /\ task' # task
  BY <1>1
<1>3. t \in Task /\ task \in [Task -> {"none", "pending", "running", "draining", "stopped"}]
  BY <1>1, Standing DEF ProcessState, TaskTypes
<1>4. StopByOthers(t)
  BY <1>2, <1>3 DEF HandOver, StopByOthers, Told
<1>. QED BY <1>3, <1>4, TasksKeep

-----------------------------------------------------------------------------
(* The invariant. *)

LEMMA InitFits == Init => CommandInv
<1>. SUFFICES ASSUME Init PROVE CommandInv
  OBVIOUS
<1>1. Unstarted \in ProcessState /\ NoSession \in SessionState
  BY DEF Unstarted, ProcessState, Stages, NoSession, SessionState
<1>2. TypeOK
  BY <1>1 DEF Init, TypeOK, Up
<1>3. ASSUME NEW p \in Process PROVE Fits(p, proc[p], session[p])
  <2>1. proc[p] = Unstarted /\ session[p] = NoSession
    BY DEF Init
  <2>2. StageFits(Unstarted) /\ Named(Unstarted) /\ ReportFits(Unstarted, NoSession) /\ TasksFit(Unstarted)
    BY DEF Unstarted, StageFits, Named, ReportFits, TasksFit, Finished, Uploading
  <2>3. AnswerFits(p, Unstarted) /\ SessionFits(p, Unstarted, NoSession) /\ BeforeFits(Unstarted, NoSession)
    BY DEF Unstarted, AnswerFits, SessionFits, BeforeFits, NoSession
  <2>. QED BY <2>1, <2>2, <2>3 DEF Fits
<1>4. \A p, q \in Process : Taken(p, q)
  BY DEF Init, Taken, NoSession
<1>. QED BY <1>2, <1>3, <1>4 DEF CommandInv, Init

LEMMA CommandKeeps == ASSUME CommandInv, NEW p \in Process, Command(p) PROVE CommandInv'
<1>1. CASE \/ CreateWorkspace(p) \/ LambdaFails(p)
           \/ AnnounceTask(p) \/ AssumeSreRole(p) \/ AwaitTask(p) \/ PrintSummary(p)
  BY <1>1, LambdaKeeps, AnnounceKeeps, AssumeKeeps, AwaitKeeps, SummaryKeeps
<1>2. CASE \/ DescribeTask(p) \/ AwaitJoined(p) \/ StopTask(p) \/ WaitForStopped(p)
           \/ Prepare(p) \/ WaitForExecAgent(p) \/ OpenSession(p)
  BY <1>2, JoinKeeps, StopKeeps, PrepareKeeps
<1>3. CASE \/ AcquireDevice(p) \/ ListenForCallback(p) \/ AwaitCallback(p)
           \/ StartPlugin(p) \/ ReadReady(p) \/ ReadSuccess(p) \/ ReadJunk(p) \/ ReadEnd(p)
           \/ Finish(p) \/ Timeout(p)
  BY <1>3, DeviceKeeps, ListenKeeps, LoginKeeps, PluginKeeps, ReadKeeps, FinishKeeps, EndKeeps
<1>. QED BY <1>1, <1>2, <1>3 DEF Command, Transfer

LEMMA StutterKeeps == ASSUME CommandInv, UNCHANGED vars PROVE CommandInv'
BY DEF vars, CommandInv, TypeOK, Up, Fits, StageFits, Named, ReportFits, Served, AnswerFits, SessionFits,
       BeforeFits, Before, TasksFit, Taken

LEMMA CommandInduction == CommandInv /\ [Next]_vars => CommandInv'
<1>1. ASSUME CommandInv, NEW p \in Process, Lambda(p) PROVE CommandInv'
  BY <1>1, ListKeeps, HandOverKeeps, LaunchKeeps, InvocationKeeps DEF Lambda
<1>. QED BY <1>1, BeginKeeps, CommandKeeps, HelperKeeps, EndKeeps, KillKeeps, CallbackKeeps, TasksKeep,
            StutterKeeps DEF Next

\* The inductive invariant from which the theorems follow.
THEOREM CommandInvariant == Spec => []CommandInv
BY InitFits, CommandInduction, PTL DEF Spec

\* The types, and a listener only where a login waits.
THEOREM TypeCorrect == Spec => []TypeOK
<1>1. CommandInv => TypeOK
  BY DEF CommandInv
<1>. QED BY <1>1, CommandInvariant, PTL

\* A task that the Lambda handed to start-task has been named to the user when the command is over.
THEOREM TasksAreNamed == Spec => []CreatedTaskIsNamed
<1>1. CommandInv => CreatedTaskIsNamed
  BY DEF CommandInv, Fits, Named, Unstarted, StageFits, CreatedTaskIsNamed
<1>. QED BY <1>1, CommandInvariant, PTL

\* A task that was launched in a lost answer has been told to stop before another is handed over.
THEOREM LostTasksAreReplaced == Spec => []RetryReplacesLost
<1>1. CommandInv => RetryReplacesLost
  BY DEF CommandInv, Fits, TasksFit, RetryReplacesLost
<1>. QED BY <1>1, CommandInvariant, PTL

\* Nobody opens a session to a task whose agent has not registered.
THEOREM SessionsFindAgents == Spec => []SessionNeedsAgent
<1>1. CommandInv => SessionNeedsAgent
  BY DEF CommandInv, Fits, TasksFit, SessionNeedsAgent
<1>. QED BY <1>1, CommandInvariant, PTL

\* A token is never sent to a terminal that echoes.
THEOREM TokensAreNotEchoed == Spec => []RequestUnderNoEcho
<1>1. CommandInv => RequestUnderNoEcho
  BY DEF CommandInv, Fits, SessionFits, RequestUnderNoEcho
<1>. QED BY <1>1, CommandInvariant, PTL

\* A browser login is answered by its own tab, whoever used the port before.
THEOREM LoginsAreOwn == Spec => []UploadsOwnLogin
<1>1. CommandInv => UploadsOwnLogin
  BY DEF CommandInv, Fits, SessionFits, UploadsOwnLogin
<1>. QED BY <1>1, CommandInvariant, PTL

\* Success is reported only of credentials that the helper has installed or cleared, or of a clear
\* that has come to its end with an rm that has failed.
THEOREM ReportsAreTrue == Spec => []ReportIsTrue
<1>1. ASSUME CommandInv, NEW p \in Process, proc[p].pc \in {"done", "summary", "describe", "waitRunning"},
             proc[p].line # None, Credentials(proc[p].line)
      PROVE  proc[p].installed \/ (session[p].kept /\ session[p].helper = "ended")
  BY <1>1, Standing DEF ReportFits, Served
<1>2. CommandInv => ReportIsTrue
  BY <1>1 DEF ReportIsTrue
<1>. QED BY <1>2, CommandInvariant, PTL

\* Clear is over when it has come to the last of the files, and not before.
LEMMA ClearingEnds ==
  ASSUME CommandInv, [Next]_vars, NEW p \in Process,
         session[p].helper = "sweeping", session'[p].helper = "installed"
  PROVE  HelperClearRest(p)
<1>0. /\ session \in [Process -> SessionState] /\ session' # session
      /\ \A q \in Process : session[q] \in SessionState
  BY DEF CommandInv, TypeOK
<1>1. ASSUME NEW q \in Process, NEW s, SetSession(q, s),
             s.helper # "installed" \/ s.helper = session[q].helper
      PROVE  FALSE
  BY <1>0, <1>1 DEF SetSession
<1>2. ASSUME NEW q \in Process, StartPlugin(q) PROVE FALSE
  <2>1. [NoSession EXCEPT !.plugin = "up", !.helper = IF Up(proc[q].task) THEN "started" ELSE "ended"].helper
          # "installed"
    BY DEF NoSession
  <2>. QED BY <1>0, <1>1, <1>2, <2>1 DEF StartPlugin
<1>3. ASSUME NEW q \in Process,
             \/ ReadReady(q) \/ ReadSuccess(q) \/ ReadJunk(q) \/ Timeout(q) \/ PluginEnds(q) \/ Kill(q)
      PROVE  FALSE
  <2>0. \A s \in SessionState :
          /\ [s EXCEPT !.output = s.output \ {"ready"}, !.sent = TRUE, !.copying = s.plugin = "up"].helper
               = s.helper
          /\ [s EXCEPT !.output = s.output \ {"success"}, !.copying = FALSE].helper = s.helper
          /\ [s EXCEPT !.plugin = "ended", !.copying = FALSE].helper = s.helper
          /\ [s EXCEPT !.plugin = "ended", !.expired = TRUE].helper = s.helper
          /\ [s EXCEPT !.plugin = "ended"].helper = s.helper
    BY DEF SessionState
  <2>1. CASE ReadReady(q)
    BY <1>0, <1>1, <2>0, <2>1 DEF ReadReady
  <2>2. CASE ReadSuccess(q)
    BY <1>0, <1>1, <2>0, <2>2 DEF ReadSuccess
  <2>3. CASE ReadJunk(q)
    BY <1>0, <1>1, <2>0, <2>3 DEF ReadJunk
  <2>4. CASE Timeout(q)
    BY <1>0, <1>1, <2>0, <2>4 DEF Timeout
  <2>5. CASE PluginEnds(q)
    BY <1>0, <1>1, <2>0, <2>5 DEF PluginEnds
  <2>6. CASE Kill(q)
    BY <1>0, <1>1, <2>0, <2>6 DEF Kill
  <2>. QED BY <1>3, <2>1, <2>2, <2>3, <2>4, <2>5, <2>6
<1>4. ASSUME NEW q \in Process,
             \/ HelperReady(q) \/ HelperReceive(q) \/ HelperDecode(q) \/ HelperBuild(q) \/ HelperSuccess(q)
             \/ HelperFails(q) \/ HelperClear(q)
      PROVE  FALSE
  <2>0. \A s \in SessionState : \A output : \A helper \in {"listening", "ended"} :
          [s EXCEPT !.helper = helper, !.output = output].helper # "installed"
    BY DEF SessionState
  <2>1. CASE HelperReady(q)
    BY <1>0, <1>1, <2>0, <2>1 DEF HelperReady
  <2>2. CASE HelperReceive(q) \/ HelperDecode(q) \/ HelperBuild(q)
    BY <1>0, <2>2 DEF HelperReceive, HelperDecode, HelperBuild, SetSession, SessionState
  <2>3. CASE HelperSuccess(q)
    BY <1>0, <1>1, <2>0, <2>3 DEF HelperSuccess
  <2>4. CASE HelperFails(q)
    <3>1. PICK output : SetSession(q, [Over(session[q]) EXCEPT !.output = output])
      BY <2>4 DEF HelperFails
    <3>2. PICK z \in SessionState : z = Over(session[q]) /\ z.helper = "ended"
      BY <1>0, OverFits
    <3>3. [z EXCEPT !.output = output].helper = "ended"
      BY <3>2 DEF SessionState
    <3>. QED BY <1>1, <3>1, <3>2, <3>3
  <2>5. CASE HelperClear(q)
    <3>1. Expanded(q).helper = "clearing" /\ [Expanded(q) EXCEPT !.kept = TRUE].helper = "clearing"
      BY <1>0 DEF Expanded, SessionState
    <3>. QED BY <1>1, <2>5, <3>1 DEF HelperClear
  <2>. QED BY <1>4, <2>1, <2>2, <2>3, <2>4, <2>5
<1>5. ASSUME NEW q \in Process, HelperInstall(q) PROVE FALSE
  BY <1>0, <1>5 DEF HelperInstall, SetSession
<1>6. ASSUME NEW q \in Process, NEW gone, NEW stage, NEW s, session' = Removed(q, gone, stage, s) PROVE q = p
  <2>1. q # p => session'[p] \in {Over(session[p]), session[p]}
    BY <1>6 DEF Removed
  <2>2. Over(session[p]).helper = "ended"
    BY <1>0, OverFits
  <2>. QED BY <2>1, <2>2
<1>7. ASSUME NEW q \in Process, HelperClearRest(q) PROVE HelperClearRest(p)
  BY <1>6, <1>7 DEF HelperClearRest
<1>8. ASSUME NEW q \in Process, HelperClearRequests(q) PROVE FALSE
  BY <1>6, <1>8 DEF HelperClearRequests
<1>9. ASSUME NEW t \in Task, Exit(t) PROVE FALSE
  <2>1. session'[p] \in {Over(session[p]), session[p]}
    BY <1>9 DEF Exit
  <2>2. Over(session[p]).helper = "ended"
    BY <1>0, OverFits
  <2>. QED BY <2>1, <2>2
<1>10. ASSUME NEW q \in Process, Command(q) \/ Lambda(q)
       PROVE  \/ UNCHANGED session
              \/ StartPlugin(q) \/ ReadReady(q) \/ ReadSuccess(q) \/ ReadJunk(q) \/ Timeout(q)
  BY <1>10
  DEF Command, Transfer, Lambda, ListTasks, HandOver, LaunchTask, InvocationEnds, CreateWorkspace, LambdaFails,
      AnnounceTask, AssumeSreRole, AwaitTask, PrintSummary, DescribeTask, AwaitJoined, StopTask,
      WaitForStopped, WaitForRunning, Prepare, WaitForExecAgent, OpenSession, AcquireDevice,
      ListenForCallback, AwaitCallback, ReadEnd, Finish
<1>. QED BY <1>0, <1>2, <1>3, <1>4, <1>5, <1>7, <1>8, <1>9, <1>10
         DEF Next, Helper, Begin, Callback, Place, Register, StopByOthers, vars

\* What had its request or its candidate on disk when clear began is not installed after a clear that has
\* removed all it has matched.
THEOREM CandidatesAreTaken == Spec => ClearTakesCandidates
<1>1. ASSUME CommandInv, [Next]_vars, NEW p \in Process, NEW q \in Process,
             session[p].helper = "sweeping", session'[p].helper = "installed", ~session'[p].kept,
             q \in session[p].ready
      PROVE  session'[q].helper \notin {"decoded", "checking"}
  <2>1. session[q] \in SessionState /\ session[p] \in SessionState /\ Taken(p, q)
    BY <1>1, Standing
  <2>2. PICK gone \in SUBSET session[p].matched, failed \in BOOLEAN :
          session' = Removed(p, gone, "checking",
            [session[p] EXCEPT !.helper = "installed",
                               !.kept = session[p].kept \/ failed \/ gone # session[p].matched,
                               !.matched = {}, !.ready = {}])
    BY <1>1, ClearingEnds DEF HelperClearRest
  <2>3. PICK s : s = [session[p] EXCEPT !.helper = "installed",
                               !.kept = session[p].kept \/ failed \/ gone # session[p].matched,
                               !.matched = {}, !.ready = {}]
    OBVIOUS
  <2>4. s \in SessionState /\ s.kept = (session[p].kept \/ failed \/ gone # session[p].matched)
    BY <2>1, <2>3 DEF SessionState
  <2>r. session' = Removed(p, gone, "checking", s) /\ session[p].helper # "checking"
    BY <1>1, <2>2, <2>3
  <2>5. /\ session'[p] = s
        /\ \A z \in Process \ {p} :
             IF z \in gone /\ session[z].helper = "checking" /\ proc[z].task = proc[p].task
             THEN session'[z] = Over(session[z]) ELSE session'[z] = session[z]
    BY <1>1, <2>4, <2>r, RemovedFits
  <2>6. ~session[p].kept /\ gone = session[p].matched
    BY <1>1, <2>4, <2>5
  <2>7. q \in gone /\ proc[q].task = proc[p].task /\ session[q].helper \in Late \ {"decoded"} /\ q # p
    BY <1>1, <2>1, <2>6 DEF Taken, Late
  <2>8. Over(session[q]).helper = "ended"
    BY <2>1, OverFits
  <2>. QED BY <2>5, <2>7, <2>8 DEF Late
<1>2. CommandInv /\ [Next]_vars =>
        [\A p, q \in Process :
           session[p].helper = "sweeping" /\ session'[p].helper = "installed" /\ ~session'[p].kept
             /\ q \in session[p].ready
             => session'[q].helper \notin {"decoded", "checking"}]_vars
  BY <1>1
<1>. QED BY <1>2, CommandInvariant, PTL DEF ClearTakesCandidates, Spec

-----------------------------------------------------------------------------
(* The refinement of CredentialDelivery.  HelperInv says which helper a     *)
(* command has; each step is then a step of the promise, or one that it     *)
(* does not see.                                                            *)

\* It does what its command is for, and only clear keeps anything.
HelperFits(r, s) ==
  /\ s.helper \in {"listening", "made", "decoded", "checking"} => r.line.cmd # "clear"
  /\ s.helper \in {"clearing", "sweeping"} => r.line.cmd = "clear"
  /\ s.kept => s.helper \in {"clearing", "sweeping", "installed", "ended"}

HelperInv == \A p \in Process : HelperFits(proc[p], session[p])

\* One process goes on without its helper: it may open its mouth.
Speaks(r, r2, s) ==
  \/ Says(r2) = Says(r)
  \/ Says(r2) = "failure"
  \/ Says(r) = "nothing" /\ Says(r2) = "success" /\ Served(r, s)

\* The others are seen as they were.
Others(p) ==
  \A q \in Process \ {p} :
    /\ Phase(proc'[q], session'[q]) = Phase(proc[q], session[q])
    /\ Where(proc'[q], session'[q]) = Where(proc[q], session[q])
    /\ Says(proc'[q]) = Says(proc[q])

\* What p does to what is seen of it.
LEMMA Seen ==
  ASSUME NEW p \in Process, Others(p)
  PROVE  /\ [q \in Process |-> Phase(proc[q], session[q])]'
               = [[q \in Process |-> Phase(proc[q], session[q])] EXCEPT ![p] = Phase(proc'[p], session'[p])]
         /\ [q \in Process |-> Where(proc[q], session[q])]'
               = [[q \in Process |-> Where(proc[q], session[q])] EXCEPT ![p] = Where(proc'[p], session'[p])]
         /\ [q \in Process |-> Says(proc[q])]'
               = [[q \in Process |-> Says(proc[q])] EXCEPT ![p] = Says(proc'[p])]
BY DEF Others

LEMMA SpeakImplements ==
  ASSUME NEW p \in Process, Others(p), config' = config,
         Phase(proc'[p], session'[p]) = Phase(proc[p], session[p]),
         Where(proc'[p], session'[p]) = Where(proc[p], session[p]),
         Speaks(proc[p], proc'[p], session[p])
  PROVE  [Delivery!Next]_(Delivery!vars)
<1>1. /\ [q \in Process |-> Phase(proc[q], session[q])]' = [q \in Process |-> Phase(proc[q], session[q])]
      /\ [q \in Process |-> Where(proc[q], session[q])]' = [q \in Process |-> Where(proc[q], session[q])]
  BY DEF Others
<1>2. CASE Says(proc'[p]) = Says(proc[p])
  <2>1. [q \in Process |-> Says(proc[q])]' = [q \in Process |-> Says(proc[q])]
    BY <1>2 DEF Others
  <2>. QED BY <1>1, <2>1 DEF Delivery!vars
<1>3. CASE Says(proc'[p]) = "failure"
  <2>1. Delivery!GiveUp(p)
    BY <1>1, <1>3, Seen DEF Delivery!GiveUp
  <2>. QED BY <2>1 DEF Delivery!Next
<1>4. CASE Says(proc[p]) = "nothing" /\ Says(proc'[p]) = "success" /\ Served(proc[p], session[p])
  <2>1. Phase(proc[p], session[p]) \in {"effective", "kept"}
    BY <1>4 DEF Phase, Served
  <2>2. Delivery!Succeed(p)
    BY <1>1, <1>4, <2>1, Seen DEF Delivery!Succeed
  <2>. QED BY <2>2 DEF Delivery!Next
<1>. QED BY <1>2, <1>3, <1>4 DEF Speaks

Sees == \A q \in Process : session'[q].helper = session[q].helper /\ session'[q].kept = session[q].kept

\* The helpers stand still, and one command goes on.
LEMMA RecordMoves ==
  ASSUME CommandInv, HelperInv, NEW p \in Process, NEW r, proc' = [proc EXCEPT ![p] = r],
         Sees, config' = config,
         r.installed = proc[p].installed,
         session[p].helper # "none" => r.task = proc[p].task /\ r.line = proc[p].line,
         Speaks(proc[p], r, session[p])
  PROVE  HelperInv' /\ [Delivery!Next]_(Delivery!vars)
<1>1. proc'[p] = r /\ \A q \in Process \ {p} : proc'[q] = proc[q]
  BY Standing
<1>2. ASSUME NEW q \in Process PROVE HelperFits(proc'[q], session'[q])
  <2>1. HelperFits(proc[q], session[q]) /\ session'[q].helper = session[q].helper /\ session'[q].kept = session[q].kept
    BY DEF HelperInv, Sees
  <2>. QED BY <1>1, <2>1 DEF HelperFits
<1>3. HelperInv'
  BY <1>2 DEF HelperInv, HelperFits
<1>4. Others(p)
  BY <1>1 DEF Others, Sees, Phase, Where
<1>5. Phase(r, session'[p]) = Phase(proc[p], session[p])
  <2>1. session'[p].helper = session[p].helper /\ session'[p].kept = session[p].kept
    BY DEF Sees
  <2>. QED BY <2>1 DEF Phase
<1>6. Where(r, session'[p]) = Where(proc[p], session[p])
  BY DEF Where, Sees
<1>. QED BY <1>1, <1>3, <1>4, <1>5, <1>6, SpeakImplements

\* A command goes on to another stage.
LEMMA StageMoves ==
  ASSUME CommandInv, HelperInv, NEW p \in Process, NEW stage \in Stages, Goto(p, stage),
         Sees, config' = config,
         proc[p].pc \notin {"idle"} \cup Finished,
         Credentials(proc[p].line) => /\ stage \in {"done", "summary"} => Served(proc[p], session[p])
                                      /\ proc[p].pc = "summary" => stage \in Finished
  PROVE  HelperInv' /\ [Delivery!Next]_(Delivery!vars)
<1>1. PICK r : r = [proc[p] EXCEPT !.pc = stage]
  OBVIOUS
<1>2. /\ r.pc = stage /\ r.line = proc[p].line /\ r.task = proc[p].task /\ r.goal = proc[p].goal
      /\ r.installed = proc[p].installed
  BY <1>1, Standing DEF ProcessState
<1>3. Speaks(proc[p], r, session[p])
  BY <1>2 DEF Speaks, Says, Finished
<1>. QED BY <1>1, <1>2, <1>3, RecordMoves DEF Goto, Set

LEMMA FailMoves ==
  ASSUME CommandInv, HelperInv, NEW p \in Process, Fail(p), Sees, config' = config,
         proc[p].pc \notin {"idle"} \cup Finished
  PROVE  HelperInv' /\ [Delivery!Next]_(Delivery!vars)
<1>1. "failed" \in Stages /\ Goto(p, "failed")
  BY DEF Stages, Fail
<1>. QED BY <1>1, StageMoves DEF Finished

\* Nothing of it changes.
LEMMA SameMoves ==
  ASSUME CommandInv, HelperInv, UNCHANGED <<proc, config>>, Sees
  PROVE  HelperInv' /\ [Delivery!Next]_(Delivery!vars)
<1>1. ASSUME NEW q \in Process
      PROVE  /\ HelperFits(proc[q], session'[q])
             /\ Phase(proc'[q], session'[q]) = Phase(proc[q], session[q])
             /\ Where(proc'[q], session'[q]) = Where(proc[q], session[q])
  BY DEF Sees, HelperInv, HelperFits, Phase, Where
<1>2. HelperInv'
  BY <1>1 DEF HelperInv, HelperFits
<1>3. UNCHANGED Delivery!vars
  BY <1>1 DEF Delivery!vars
<1>. QED BY <1>2, <1>3

LEMMA BeginMoves ==
  ASSUME CommandInv, HelperInv, NEW p \in Process, Begin(p)
  PROVE  HelperInv' /\ [Delivery!Next]_(Delivery!vars)
<1>0. /\ proc[p] = Unstarted /\ session[p].helper = "none" /\ proc[p] \in ProcessState
      /\ UNCHANGED <<session, config>>
  BY Standing DEF Begin, StageFits, BeforeFits, Before
<1>1. PICK l \in Line :
        proc' = [proc EXCEPT ![p] =
           [proc[p] EXCEPT !.pc = FirstStage(l), !.line = l, !.task = l.task,
              !.goal = IF Credentials(l) THEN "credentials" ELSE "shell"]]
  BY DEF Begin, Set
<1>2. PICK r : r = [proc[p] EXCEPT !.pc = FirstStage(l), !.line = l, !.task = l.task,
                      !.goal = IF Credentials(l) THEN "credentials" ELSE "shell"]
  OBVIOUS
<1>3. /\ r.pc = FirstStage(l) /\ r.line = l /\ r.installed = proc[p].installed
      /\ r.goal = IF Credentials(l) THEN "credentials" ELSE "shell"
  BY <1>0, <1>2 DEF ProcessState
<1>4. l.cmd \in {"start-task", "create-investigation", "join-task", "stop-task", "configure", "clear"}
      /\ (l.ocm => l.cmd = "start-task")
  BY LineFits DEF CommandLine
<1>5. FirstStage(l) \in {"lambda", "describe", "stop", "prepare"}
  BY <1>4 DEF FirstStage
<1>6. Says(r) = "nothing" /\ Says(proc[p]) = "nothing"
  BY <1>0, <1>3, <1>5 DEF Says, Unstarted
<1>7. Speaks(proc[p], r, session[p])
  BY <1>6 DEF Speaks
<1>. QED BY <1>0, <1>1, <1>2, <1>3, <1>7, RecordMoves DEF Sees

\* The Lambda tells p of its task, or goes on without it.
LEMMA CallMoves ==
  ASSUME CommandInv, HelperInv, NEW p \in Process, Lambda(p)
  PROVE  HelperInv' /\ [Delivery!Next]_(Delivery!vars)
<1>0. proc[p] \in ProcessState /\ UNCHANGED <<session, config>> /\ Sees
  BY Standing DEF Lambda, ListTasks, HandOver, LaunchTask, InvocationEnds, Sees
<1>1. CASE HandOver(p)
  BY <1>0, <1>1, SameMoves DEF HandOver
<1>2. ASSUME NEW t \in Task, NEW calls, NEW r,
             \/ /\ proc[p].pc = "lambda"
                /\ r = [proc[p] EXCEPT !.pc = "answered", !.task = t, !.calls = calls]
             \/ r = [proc[p] EXCEPT !.calls = calls, !.lost = proc[p].lost \cup {t}]
             \/ r = [proc[p] EXCEPT !.calls = calls, !.lost = proc[p].lost],
             Set(p, r)
      PROVE  HelperInv' /\ [Delivery!Next]_(Delivery!vars)
  <2>1. /\ r.line = proc[p].line /\ r.goal = proc[p].goal /\ r.installed = proc[p].installed
        /\ \/ r.pc = proc[p].pc /\ r.task = proc[p].task
           \/ r.pc = "answered" /\ proc[p].pc = "lambda"
    BY <1>0, <1>2 DEF ProcessState
  <2>2. proc[p].pc = "lambda" => session[p].helper = "none"
    BY Standing DEF BeforeFits, Before
  <2>3. Speaks(proc[p], r, session[p])
    BY <2>1 DEF Speaks, Says
  <2>. QED BY <1>0, <1>2, <2>1, <2>2, <2>3, RecordMoves DEF Set
<1>3. CASE ListTasks(p) \/ InvocationEnds(p)
  <2>1. PICK calls : Set(p, [proc[p] EXCEPT !.calls = calls])
    BY <1>3 DEF ListTasks, InvocationEnds
  <2>2. PICK r : r = [proc[p] EXCEPT !.calls = calls]
    OBVIOUS
  <2>3. /\ r.line = proc[p].line /\ r.goal = proc[p].goal /\ r.installed = proc[p].installed
        /\ r.pc = proc[p].pc /\ r.task = proc[p].task
    BY <1>0, <2>2 DEF ProcessState
  <2>4. Speaks(proc[p], r, session[p])
    BY <2>3 DEF Speaks, Says
  <2>. QED BY <1>0, <2>1, <2>2, <2>3, <2>4, RecordMoves DEF Set
<1>4. CASE LaunchTask(p)
  <2>1. PICK found \in proc[p].calls : \E others \in {proc[p].calls, proc[p].calls \ {found}} : \E t \in Task :
          \/ /\ proc[p].pc = "lambda"
             /\ Set(p, [proc[p] EXCEPT !.pc = "answered", !.task = t, !.calls = others])
          \/ Set(p, [proc[p] EXCEPT !.calls = others,
                       !.lost = IF others = {} /\ proc[p].pc = "lambda" THEN @ \cup {t} ELSE @])
    BY <1>4 DEF LaunchTask
  <2>2. PICK others \in {proc[p].calls, proc[p].calls \ {found}}, t \in Task :
          \/ /\ proc[p].pc = "lambda"
             /\ Set(p, [proc[p] EXCEPT !.pc = "answered", !.task = t, !.calls = others])
          \/ Set(p, [proc[p] EXCEPT !.calls = others,
                       !.lost = IF others = {} /\ proc[p].pc = "lambda" THEN @ \cup {t} ELSE @])
    BY <2>1
  <2>3. CASE /\ proc[p].pc = "lambda"
             /\ Set(p, [proc[p] EXCEPT !.pc = "answered", !.task = t, !.calls = others])
    BY <1>2, <2>3
  <2>4. CASE Set(p, [proc[p] EXCEPT !.calls = others,
                       !.lost = IF others = {} /\ proc[p].pc = "lambda" THEN @ \cup {t} ELSE @])
    <3>1. CASE others = {} /\ proc[p].pc = "lambda"
      BY <1>2, <2>4, <3>1
    <3>2. CASE ~(others = {} /\ proc[p].pc = "lambda")
      BY <1>2, <2>4, <3>2
    <3>. QED BY <3>1, <3>2
  <2>. QED BY <2>2, <2>3, <2>4
<1>. QED BY <1>1, <1>3, <1>4 DEF Lambda

LEMMA AnnounceMoves ==
  ASSUME CommandInv, HelperInv, NEW p \in Process, AnnounceTask(p) \/ PrintSummary(p)
  PROVE  HelperInv' /\ [Delivery!Next]_(Delivery!vars)
<1>0. proc[p] \in ProcessState /\ UNCHANGED <<session, config>> /\ Sees
  BY Standing DEF AnnounceTask, PrintSummary, Sees
<1>1. CASE Fail(p)
  BY <1>0, <1>1, FailMoves DEF AnnounceTask, PrintSummary, Finished
<1>2. CASE ~Fail(p)
  <2>1. PICK r : /\ proc' = [proc EXCEPT ![p] = r]
                 /\ \/ /\ proc[p].pc = "answered"
                       /\ r = [proc[p] EXCEPT !.pc = "role", !.told = TRUE]
                    \/ /\ proc[p].pc = "summary"
                       /\ \/ r = [proc[p] EXCEPT !.pc = "describe", !.told = TRUE, !.goal = "shell"]
                          \/ r = [proc[p] EXCEPT !.pc = "done", !.told = TRUE]
    BY <1>2 DEF AnnounceTask, PrintSummary, Set
  <2>2. /\ r.line = proc[p].line /\ r.task = proc[p].task /\ r.installed = proc[p].installed
        /\ \/ r.pc = "role" /\ proc[p].pc = "answered" /\ r.goal = proc[p].goal
           \/ r.pc = "describe" /\ proc[p].pc = "summary" /\ r.goal = "shell"
           \/ r.pc = "done" /\ proc[p].pc = "summary" /\ r.goal = proc[p].goal
    BY <1>0, <2>1 DEF ProcessState
  <2>3. Speaks(proc[p], r, session[p])
    BY <2>2 DEF Speaks, Says
  <2>. QED BY <1>0, <2>1, <2>2, <2>3, RecordMoves
<1>. QED BY <1>1, <1>2

\* The steps of a command outside the transfer that change nothing but its stage.
LEMMA WalkMoves ==
  ASSUME CommandInv, HelperInv, NEW p \in Process,
         \/ CreateWorkspace(p) \/ LambdaFails(p) \/ AssumeSreRole(p) \/ AwaitTask(p)
         \/ DescribeTask(p) \/ AwaitJoined(p) \/ StopTask(p) \/ WaitForStopped(p)
         \/ Prepare(p) \/ WaitForExecAgent(p) \/ OpenSession(p)
  PROVE  HelperInv' /\ [Delivery!Next]_(Delivery!vars)
<1>0. /\ Sees /\ config' = config /\ proc[p].pc \notin {"idle"} \cup Finished
      /\ ReportFits(proc[p], session[p]) /\ proc[p].line \in Line
      /\ proc[p].goal \in {"credentials", "shell"} /\ StageFits(proc[p])
  BY Standing
     DEF CreateWorkspace, LambdaFails, AssumeSreRole, AwaitTask, WaitForRunning, DescribeTask, AwaitJoined,
         StopTask, WaitForStopped, Prepare, WaitForExecAgent, OpenSession, Sees, Finished,
         ProcessState, StageFits
<1>1. CASE Fail(p)
  BY <1>0, <1>1, FailMoves
<1>2. ASSUME NEW stage \in Stages, Goto(p, stage), proc[p].pc # "summary",
             stage \in {"done", "summary"} /\ Credentials(proc[p].line) => Served(proc[p], session[p])
      PROVE  HelperInv' /\ [Delivery!Next]_(Delivery!vars)
  BY <1>0, <1>2, StageMoves
<1>3. {"done", "summary", "wait", "prepare", "agent", "waitRunning", "waitStopped", "acquire", "exec", "plugin"}
        \subseteq Stages
  BY DEF Stages
<1>4. proc[p].pc \in {"stop", "waitStopped"} => ~Credentials(proc[p].line)
  BY <1>0, LineFits DEF StageFits, Credentials
<1>5. CASE CreateWorkspace(p) \/ LambdaFails(p)
  <2>1. CreateWorkspace(p) => ~Credentials(proc[p].line)
    BY <1>0, LineFits DEF CreateWorkspace, Credentials
  <2>. QED BY <1>1, <1>2, <1>3, <1>5, <2>1 DEF CreateWorkspace, LambdaFails
<1>6. CASE AssumeSreRole(p)
  <2>1. proc[p].line.noWait => ~Credentials(proc[p].line)
    BY <1>0, <1>6, LineFits DEF AssumeSreRole, Credentials, StageFits
  <2>. QED BY <1>1, <1>2, <1>3, <1>6, <2>1 DEF AssumeSreRole
<1>7. CASE AwaitTask(p)
  <2>1. ~proc[p].line.ocm => ~Credentials(proc[p].line)
    BY <1>0, <1>7, LineFits DEF AwaitTask, Credentials, StageFits
  <2>. QED BY <1>1, <1>2, <1>3, <1>7, <2>1 DEF AwaitTask, WaitForRunning
<1>8. CASE DescribeTask(p) \/ AwaitJoined(p)
  BY <1>1, <1>2, <1>3, <1>8 DEF DescribeTask, AwaitJoined, WaitForRunning, Fail
<1>9. CASE StopTask(p) \/ WaitForStopped(p)
  BY <1>1, <1>2, <1>3, <1>4, <1>9 DEF StopTask, WaitForStopped
<1>10. CASE Prepare(p) \/ WaitForExecAgent(p)
  BY <1>1, <1>2, <1>3, <1>10 DEF Prepare, WaitForExecAgent
<1>11. CASE OpenSession(p)
  <2>1. proc[p].goal = "shell" /\ Credentials(proc[p].line) => Served(proc[p], session[p])
    BY <1>0, <1>11 DEF OpenSession, ReportFits
  <2>. QED BY <1>0, <1>1, <1>2, <1>3, <1>11, <2>1 DEF OpenSession
<1>. QED BY <1>5, <1>6, <1>7, <1>8, <1>9, <1>10, <1>11

LEMMA LoginMoves ==
  ASSUME CommandInv, HelperInv, NEW p \in Process,
         \/ AcquireDevice(p) \/ ListenForCallback(p) \/ AwaitCallback(p)
         \/ \E q \in Process : Callback(p, q)
  PROVE  HelperInv' /\ [Delivery!Next]_(Delivery!vars)
<1>0. /\ Sees /\ config' = config /\ proc[p].pc \in {"acquire", "await"} /\ proc[p] \in ProcessState
  BY Standing DEF AcquireDevice, ListenForCallback, AwaitCallback, Callback, Sees
<1>1. CASE Fail(p)
  BY <1>0, <1>1, FailMoves DEF Finished
<1>2. CASE Goto(p, "exec")
  <2>1. "exec" \in Stages
    BY DEF Stages
  <2>. QED BY <1>0, <1>2, <2>1, StageMoves DEF Finished
<1>3. ASSUME NEW r, Set(p, r),
             \/ r = [proc[p] EXCEPT !.pc = "await", !.tab = TRUE]
             \/ \E answer : r = [proc[p] EXCEPT !.answer = answer]
      PROVE  HelperInv' /\ [Delivery!Next]_(Delivery!vars)
  <2>1. /\ r.line = proc[p].line /\ r.task = proc[p].task /\ r.installed = proc[p].installed
        /\ r.goal = proc[p].goal /\ r.pc \in {"await", proc[p].pc}
    BY <1>0, <1>3 DEF ProcessState
  <2>2. Speaks(proc[p], r, session[p])
    BY <1>0, <2>1 DEF Speaks, Says
  <2>. QED BY <1>0, <1>3, <2>1, <2>2, RecordMoves DEF Set
<1>. QED BY <1>1, <1>2, <1>3 DEF AcquireDevice, ListenForCallback, AwaitCallback, Abort, Callback

\* What happens to the session besides: markers are read, the plugin ends.
LEMMA SessionSame ==
  ASSUME CommandInv, NEW p \in Process, NEW s, SetSession(p, s), s.helper = session[p].helper,
         s.kept = session[p].kept
  PROVE  Sees
BY Standing DEF SetSession, Sees

LEMMA PipeMoves ==
  ASSUME CommandInv, HelperInv, NEW p \in Process,
         \/ ReadReady(p) \/ ReadSuccess(p) \/ ReadJunk(p) \/ ReadEnd(p)
         \/ Finish(p) \/ Timeout(p) \/ PluginEnds(p) \/ Kill(p)
  PROVE  HelperInv' /\ [Delivery!Next]_(Delivery!vars)
<1>0. /\ session[p] \in SessionState /\ config' = config
      /\ ReportFits(proc[p], session[p]) /\ StageFits(proc[p])
  BY Standing DEF ReadReady, ReadSuccess, ReadJunk, ReadEnd, Finish, Timeout, PluginEnds, Kill
<1>1. Sees
  <2>1. ASSUME NEW s \in SessionState, NEW new,
               \/ new = [s EXCEPT !.output = s.output \ {"ready"}, !.sent = TRUE, !.copying = s.plugin = "up"]
               \/ new = [s EXCEPT !.output = s.output \ {"success"}, !.copying = FALSE]
               \/ new = [s EXCEPT !.plugin = "ended", !.copying = FALSE]
               \/ new = [s EXCEPT !.plugin = "ended", !.expired = TRUE]
               \/ new = [s EXCEPT !.plugin = "ended"]
        PROVE  new.helper = s.helper /\ new.kept = s.kept
    BY <2>1 DEF SessionState
  <2>2. CASE ReadReady(p)
    BY <1>0, <2>1, <2>2, SessionSame DEF ReadReady
  <2>3. CASE ReadSuccess(p)
    <3>1. PICK s : s = [session[p] EXCEPT !.output = session[p].output \ {"success"}, !.copying = FALSE]
      OBVIOUS
    <3>2. s.helper = session[p].helper /\ s.kept = session[p].kept
      BY <1>0, <2>1, <3>1
    <3>. QED BY <2>3, <3>1, <3>2, SessionSame DEF ReadSuccess
  <2>4. CASE ReadJunk(p)
    BY <1>0, <2>1, <2>4, SessionSame DEF ReadJunk
  <2>5. CASE Timeout(p)
    BY <1>0, <2>1, <2>5, SessionSame DEF Timeout
  <2>6. CASE PluginEnds(p)
    BY <1>0, <2>1, <2>6, SessionSame DEF PluginEnds
  <2>7. CASE Kill(p)
    BY <1>0, <2>1, <2>7, SessionSame DEF Kill
  <2>8. CASE ReadEnd(p) \/ Finish(p)
    BY <2>8 DEF ReadEnd, Finish, Sees
  <2>. QED BY <2>2, <2>3, <2>4, <2>5, <2>6, <2>7, <2>8
<1>2. CASE UNCHANGED proc
  BY <1>0, <1>1, <1>2, SameMoves
<1>3. CASE Fail(p) /\ proc[p].pc \in {"read", "drain"}
  BY <1>0, <1>1, <1>3, FailMoves DEF Finished
<1>4. CASE Kill(p)
  <2>1. "killed" \in Stages
    BY DEF Stages
  <2>. QED BY <1>0, <1>1, <1>4, <2>1, StageMoves DEF Kill, Running, Finished
<1>5. CASE proc[p].pc = "read" /\ Goto(p, "drain")
  <2>1. "drain" \in Stages
    BY DEF Stages
  <2>. QED BY <1>0, <1>1, <1>5, <2>1, StageMoves DEF Finished
<1>6. CASE proc[p].pc = "drain" /\ Goto(p, IF proc[p].line.cmd = "start-task" THEN "summary" ELSE "done")
  <2>1. PICK stage \in {"summary", "done"} : Goto(p, stage)
    BY <1>6
  <2>2. stage \in Stages
    BY DEF Stages
  <2>3. Credentials(proc[p].line) => Served(proc[p], session[p])
    BY <1>0, <1>6 DEF ReportFits
  <2>. QED BY <1>0, <1>1, <1>6, <2>1, <2>2, <2>3, StageMoves DEF Finished
<1>. QED BY <1>2, <1>3, <1>4, <1>5, <1>6 DEF ReadReady, ReadSuccess, ReadJunk, ReadEnd, Finish, Timeout, PluginEnds

LEMMA PluginMoves ==
  ASSUME CommandInv, HelperInv, NEW p \in Process, StartPlugin(p)
  PROVE  HelperInv' /\ [Delivery!Next]_(Delivery!vars)
<1>0. /\ proc[p] \in ProcessState /\ proc[p].pc = "plugin" /\ proc[p].goal = "credentials"
      /\ proc[p].task \in Task /\ config' = config
      /\ session[p].helper = "none" /\ ~proc[p].installed
      /\ proc \in [Process -> ProcessState] /\ session \in [Process -> SessionState]
  BY Standing DEF StartPlugin, StageFits, Uploading, Finished, BeforeFits, SessionFits, Before
<1>1. CASE Fail(p) /\ UNCHANGED session
  BY <1>0, <1>1, FailMoves DEF Finished, Sees
<1>2. CASE /\ SetSession(p, [NoSession EXCEPT !.plugin = "up",
                               !.helper = IF Up(proc[p].task) THEN "started" ELSE "ended"])
           /\ Goto(p, "read")
  <2>1. PICK r : r = [proc[p] EXCEPT !.pc = "read"]
    OBVIOUS
  <2>2. /\ r.pc = "read" /\ r.line = proc[p].line /\ r.task = proc[p].task /\ r.goal = proc[p].goal
        /\ r.installed = proc[p].installed
    BY <1>0, <2>1 DEF ProcessState
  <2>3. PICK helper \in {"started", "ended"} :
          SetSession(p, [NoSession EXCEPT !.plugin = "up", !.helper = helper])
    BY <1>2
  <2>4. PICK s : s = [NoSession EXCEPT !.plugin = "up", !.helper = helper]
    OBVIOUS
  <2>5. s.helper = helper /\ ~s.kept
    BY <2>4 DEF NoSession
  <2>6. /\ proc'[p] = r /\ session'[p] = s
        /\ \A q \in Process \ {p} : proc'[q] = proc[q] /\ session'[q] = session[q]
    BY <1>0, <1>2, <2>1, <2>3, <2>4 DEF Goto, Set, SetSession
  <2>7. HelperFits(r, s)
    BY <2>5 DEF HelperFits
  <2>8. ASSUME NEW q \in Process PROVE HelperFits(proc'[q], session'[q])
    BY <2>6, <2>7 DEF HelperInv
  <2>9. HelperInv'
    BY <2>8 DEF HelperInv, HelperFits
  <2>10. Others(p)
    BY <2>6 DEF Others
  <2>11. /\ Phase(proc[p], session[p]) = "none"
         /\ Phase(r, s) \in {"configuring", "clearing", "void"}
         /\ Where(r, s) = proc[p].task
         /\ Says(r) = Says(proc[p])
    BY <1>0, <2>2, <2>5 DEF Phase, Where, Says
  <2>12. [q \in Process |-> Says(proc[q])]' = [q \in Process |-> Says(proc[q])]
    BY <2>6, <2>11
  <2>13. Delivery!Begin(p, proc[p].task)
    BY <1>0, <2>6, <2>10, <2>11, <2>12, Seen DEF Delivery!Begin
  <2>. QED BY <1>0, <2>9, <2>13 DEF Delivery!Next
<1>. QED BY <1>1, <1>2 DEF StartPlugin

\* The helper of p acts: seen from outside it does nothing, gives up, installs, or removes.
LEMMA HelperMoves ==
  ASSUME CommandInv, HelperInv, NEW p \in Process, NEW r, NEW s,
         proc'[p] = r, session'[p] = s,
         \A q \in Process \ {p} : proc'[q] = proc[q] /\ session'[q] = session[q],
         r.line = proc[p].line, r.task = proc[p].task, r.pc = proc[p].pc, r.goal = proc[p].goal,
         session[p].helper # "none", s.helper # "none", HelperFits(r, s),
         \/ config' = config /\ Phase(r, s) = Phase(proc[p], session[p])
         \/ config' = config /\ Phase(r, s) = "void" /\ Phase(proc[p], session[p]) \in Delivery!Open
         \/ /\ config' = [config EXCEPT ![proc[p].task] = p]
            /\ Phase(proc[p], session[p]) = "configuring" /\ Phase(r, s) = "effective"
         \/ /\ Phase(proc[p], session[p]) = "clearing"
            /\ \/ config' = [config EXCEPT ![proc[p].task] = None] /\ Phase(r, s) = "removed"
               \/ config' = config /\ Phase(r, s) = "failing"
  PROVE  HelperInv' /\ [Delivery!Next]_(Delivery!vars)
<1>1. ASSUME NEW q \in Process PROVE HelperFits(proc'[q], session'[q])
  BY DEF HelperInv
<1>2. HelperInv'
  BY <1>1 DEF HelperInv, HelperFits
<1>3. Others(p) /\ Where(r, s) = Where(proc[p], session[p]) /\ Says(r) = Says(proc[p])
  BY DEF Others, Where, Says
<1>4. /\ [q \in Process |-> Where(proc[q], session[q])]' = [q \in Process |-> Where(proc[q], session[q])]
      /\ [q \in Process |-> Says(proc[q])]' = [q \in Process |-> Says(proc[q])]
      /\ Where(proc[p], session[p]) = proc[p].task
  BY <1>3 DEF Others, Where
<1>5. CASE config' = config /\ Phase(r, s) = Phase(proc[p], session[p])
  <2>1. [q \in Process |-> Phase(proc[q], session[q])]' = [q \in Process |-> Phase(proc[q], session[q])]
    BY <1>3, <1>5 DEF Others
  <2>. QED BY <1>2, <1>4, <1>5, <2>1 DEF Delivery!vars
<1>6. CASE config' = config /\ Phase(r, s) = "void" /\ Phase(proc[p], session[p]) \in Delivery!Open
  <2>1. Delivery!Abandon(p)
    BY <1>3, <1>4, <1>6, Seen DEF Delivery!Abandon
  <2>. QED BY <1>2, <2>1 DEF Delivery!Next
<1>7. CASE /\ config' = [config EXCEPT ![proc[p].task] = p]
           /\ Phase(proc[p], session[p]) = "configuring" /\ Phase(r, s) = "effective"
  <2>1. Delivery!Install(p)
    BY <1>3, <1>4, <1>7, Seen DEF Delivery!Install
  <2>. QED BY <1>2, <2>1 DEF Delivery!Next
<1>8. CASE /\ Phase(proc[p], session[p]) = "clearing"
           /\ \/ config' = [config EXCEPT ![proc[p].task] = None] /\ Phase(r, s) = "removed"
              \/ config' = config /\ Phase(r, s) = "failing"
  <2>1. Delivery!Remove(p)
    BY <1>3, <1>4, <1>8, Seen DEF Delivery!Remove
  <2>. QED BY <1>2, <2>1 DEF Delivery!Next
<1>. QED BY <1>5, <1>6, <1>7, <1>8

\* The turns it may take.
LEMMA HelperTurns ==
  ASSUME CommandInv, HelperInv, NEW p \in Process, NEW s \in SessionState, NEW installed \in BOOLEAN,
         SetSession(p, s), proc' = [proc EXCEPT ![p] = [proc[p] EXCEPT !.installed = installed]],
         \/ /\ config' = config /\ installed = proc[p].installed /\ s.kept = session[p].kept
            /\ \/ session[p].helper = "started" /\ s.helper = "listening" /\ proc[p].line.cmd # "clear"
               \/ session[p].helper = "listening" /\ s.helper = "made"
               \/ session[p].helper = "made" /\ s.helper = "decoded"
               \/ session[p].helper = "decoded" /\ s.helper = "checking"
               \/ session[p].helper = "installed" /\ s.helper = "ended"
         \/ /\ config' = config /\ installed = proc[p].installed /\ s.helper = "ended" /\ ~s.kept
            /\ session[p].helper
                 \in {"started", "listening", "made", "decoded", "checking", "clearing", "sweeping"}
         \/ /\ config' = [config EXCEPT ![proc[p].task] = p] /\ installed
            /\ session[p].helper = "checking" /\ s.helper = "installed"
         \/ /\ installed = proc[p].installed
            /\ session[p].helper = "started" /\ s.helper = "clearing" /\ proc[p].line.cmd = "clear"
            /\ IF s.kept THEN config' = config ELSE config' = [config EXCEPT ![proc[p].task] = None]
  PROVE  HelperInv' /\ [Delivery!Next]_(Delivery!vars)
<1>0. /\ proc[p] \in ProcessState /\ HelperFits(proc[p], session[p]) /\ SessionFits(p, proc[p], session[p])
      /\ session \in [Process -> SessionState] /\ proc \in [Process -> ProcessState]
  BY Standing DEF HelperInv
<1>1. PICK r : r = [proc[p] EXCEPT !.installed = installed]
  OBVIOUS
<1>2. /\ r.line = proc[p].line /\ r.task = proc[p].task /\ r.pc = proc[p].pc /\ r.goal = proc[p].goal
      /\ r.installed = installed
  BY <1>0, <1>1 DEF ProcessState
<1>3. /\ proc'[p] = r /\ session'[p] = s
      /\ \A q \in Process \ {p} : proc'[q] = proc[q] /\ session'[q] = session[q]
  BY <1>0, <1>1 DEF SetSession
<1>4. session[p].helper # "none" /\ s.helper # "none"
  OBVIOUS
<1>6. HelperFits(r, s)
  BY <1>0, <1>2 DEF HelperFits
<1>7. /\ session[p].helper \notin {"installed", "ended"} => ~proc[p].installed
      /\ session[p].helper \in {"listening", "made", "decoded", "checking"} => proc[p].line.cmd # "clear"
  BY <1>0 DEF HelperFits, SessionFits
<1>8. CASE /\ config' = config /\ installed = proc[p].installed
           /\ s.helper \in {"listening", "made", "decoded", "checking"}
           /\ session[p].helper \in {"started", "listening", "made", "decoded"} /\ proc[p].line.cmd # "clear"
  <2>1. Phase(r, s) = "configuring" /\ Phase(proc[p], session[p]) = "configuring"
    BY <1>2, <1>7, <1>8 DEF Phase
  <2>. QED BY <1>2, <1>3, <1>4, <1>6, <1>8, <2>1, HelperMoves
<1>9. CASE /\ config' = config /\ installed = proc[p].installed /\ s.helper = "ended" /\ ~s.kept
           /\ session[p].helper
                \in {"started", "listening", "made", "decoded", "checking", "clearing", "sweeping"}
  <2>1. Phase(r, s) = "void"
    BY <1>2, <1>7, <1>9 DEF Phase
  <2>2. Phase(proc[p], session[p]) \in {"configuring", "clearing", "removed", "failing"}
    BY <1>7, <1>9 DEF Phase
  <2>. QED BY <1>2, <1>3, <1>4, <1>6, <1>9, <2>1, <2>2, HelperMoves DEF Delivery!Open
<1>10. CASE /\ config' = config /\ installed = proc[p].installed /\ s.helper = "ended"
            /\ session[p].helper = "installed" /\ s.kept = session[p].kept
  <2>1. Phase(r, s) = Phase(proc[p], session[p])
    BY <1>2, <1>10 DEF Phase
  <2>. QED BY <1>2, <1>3, <1>4, <1>6, <1>10, <2>1, HelperMoves
<1>11. CASE /\ config' = [config EXCEPT ![proc[p].task] = p] /\ installed
            /\ session[p].helper = "checking" /\ s.helper = "installed"
  <2>1. Phase(r, s) = "effective" /\ Phase(proc[p], session[p]) = "configuring"
    BY <1>2, <1>7, <1>11 DEF Phase
  <2>. QED BY <1>2, <1>3, <1>4, <1>6, <1>11, <2>1, HelperMoves
<1>12. CASE /\ installed = proc[p].installed
            /\ session[p].helper = "started" /\ s.helper = "clearing" /\ proc[p].line.cmd = "clear"
            /\ IF s.kept THEN config' = config ELSE config' = [config EXCEPT ![proc[p].task] = None]
  <2>1. Phase(r, s) = IF s.kept THEN "failing" ELSE "removed"
    BY <1>2, <1>7, <1>12 DEF Phase
  <2>2. Phase(proc[p], session[p]) = "clearing"
    BY <1>7, <1>12 DEF Phase
  <2>3. CASE s.kept
    BY <1>2, <1>3, <1>4, <1>6, <1>12, <2>1, <2>2, <2>3, HelperMoves
  <2>4. CASE ~s.kept
    BY <1>2, <1>3, <1>4, <1>6, <1>12, <2>1, <2>2, <2>4, HelperMoves
  <2>. QED BY <2>3, <2>4
<1>. QED BY <1>7, <1>8, <1>9, <1>10, <1>11, <1>12

LEMMA ActMoves ==
  ASSUME CommandInv, HelperInv, NEW p \in Process,
         \/ HelperReady(p) \/ HelperReceive(p) \/ HelperDecode(p) \/ HelperBuild(p) \/ HelperInstall(p)
         \/ HelperClear(p) \/ HelperSuccess(p) \/ HelperFails(p)
  PROVE  HelperInv' /\ [Delivery!Next]_(Delivery!vars)
<1>1. PICK s : SetSession(p, s)
  BY DEF HelperReady, HelperReceive, HelperDecode, HelperBuild, HelperInstall, HelperClear, HelperSuccess,
         HelperFails
<1>2. session \in [Process -> SessionState] /\ session' \in [Process -> SessionState]
  <2>1. CommandInv'
    BY HelperKeeps DEF Helper
  <2>. QED BY <2>1 DEF CommandInv, TypeOK
<1>r. /\ proc[p].installed \in BOOLEAN /\ s \in SessionState
      /\ proc = [proc EXCEPT ![p] = [proc[p] EXCEPT !.installed = proc[p].installed]]
  <2>1. /\ proc \in [Process -> ProcessState] /\ proc[p] \in ProcessState
    BY Standing
  <2>. QED BY <1>1, <1>2, <2>1 DEF SetSession, ProcessState
<1>s. /\ session' = [session EXCEPT ![p] = s] /\ session'[p] = s /\ session[p] \in SessionState
      /\ HelperFits(proc[p], session[p])
  BY <1>1, <1>2 DEF SetSession, HelperInv
<1>3. CASE HelperReady(p)
  <2>0. s = [session[p] EXCEPT !.helper = "listening", !.output = Printed(session[p], "ready")]
    BY <1>2, <1>s, <1>3 DEF HelperReady, SetSession
  <2>1. /\ s.helper = "listening" /\ s.kept = session[p].kept
        /\ session[p].helper = "started" /\ proc[p].line.cmd # "clear"
    BY <1>s, <1>3, <2>0 DEF HelperReady, RequireReady, SessionState
  <2>. QED BY <1>1, <1>r, <1>3, <2>1, HelperTurns DEF HelperReady
<1>4. CASE HelperReceive(p)
  <2>1. s.helper = "made" /\ s.kept = session[p].kept /\ session[p].helper = "listening"
    BY <1>2, <1>s, <1>4 DEF HelperReceive, SetSession, SessionState
  <2>. QED BY <1>1, <1>r, <1>4, <2>1, HelperTurns DEF HelperReceive
<1>d. CASE HelperDecode(p)
  <2>1. s.helper = "decoded" /\ s.kept = session[p].kept /\ session[p].helper = "made"
    BY <1>2, <1>s, <1>d DEF HelperDecode, SetSession, SessionState
  <2>. QED BY <1>1, <1>r, <1>d, <2>1, HelperTurns DEF HelperDecode
<1>b. CASE HelperBuild(p)
  <2>1. s.helper = "checking" /\ s.kept = session[p].kept /\ session[p].helper = "decoded"
    BY <1>2, <1>s, <1>b DEF HelperBuild, SetSession, SessionState
  <2>. QED BY <1>1, <1>r, <1>b, <2>1, HelperTurns DEF HelperBuild
<1>5. CASE HelperInstall(p)
  <2>1. s.helper = "installed" /\ session[p].helper = "checking"
    BY <1>2, <1>s, <1>5 DEF HelperInstall, SetSession, SessionState
  <2>. QED BY <1>1, <1>r, <1>5, <2>1, HelperTurns DEF HelperInstall, Set
<1>6. CASE HelperClear(p)
  <2>0. \/ config' = [config EXCEPT ![proc[p].task] = None] /\ s = Expanded(p)
        \/ config' = config /\ s = [Expanded(p) EXCEPT !.kept = TRUE]
    BY <1>2, <1>s, <1>6 DEF HelperClear, SetSession
  <2>1. session[p].helper = "started" /\ proc[p].line.cmd = "clear" /\ ~session[p].kept
    BY <1>s, <1>6 DEF HelperClear, RequireReady, HelperFits
  <2>2. CASE config' = [config EXCEPT ![proc[p].task] = None] /\ s = Expanded(p)
    <3>1. s.helper = "clearing" /\ ~s.kept
      BY <1>s, <2>1, <2>2 DEF Expanded, SessionState
    <3>. QED BY <1>1, <1>r, <1>6, <2>1, <2>2, <3>1, HelperTurns DEF HelperClear
  <2>3. CASE config' = config /\ s = [Expanded(p) EXCEPT !.kept = TRUE]
    <3>1. s.helper = "clearing" /\ s.kept
      BY <1>s, <2>3 DEF Expanded, SessionState
    <3>. QED BY <1>1, <1>r, <1>6, <2>1, <2>3, <3>1, HelperTurns DEF HelperClear
  <2>. QED BY <2>0, <2>2, <2>3
<1>7. CASE HelperSuccess(p)
  <2>0. s = [session[p] EXCEPT !.helper = "ended", !.output = Printed(session[p], "success")]
    BY <1>2, <1>s, <1>7 DEF HelperSuccess, SetSession
  <2>1. s.helper = "ended" /\ s.kept = session[p].kept /\ session[p].helper = "installed"
    BY <1>s, <1>7, <2>0 DEF HelperSuccess, SessionState
  <2>. QED BY <1>1, <1>r, <1>7, <2>1, HelperTurns DEF HelperSuccess
<1>8. CASE HelperFails(p)
  <2>0. PICK output : s = [Over(session[p]) EXCEPT !.output = output]
    BY <1>2, <1>s, <1>8 DEF HelperFails, SetSession
  <2>1. PICK z \in SessionState :
          /\ z = Over(session[p]) /\ z.helper = "ended"
          /\ z.kept = (session[p].kept /\ session[p].helper \in {"installed", "ended"})
    BY <1>s, OverFits
  <2>2. s.helper = "ended" /\ s.kept = z.kept
    BY <2>0, <2>1 DEF SessionState
  <2>3. session[p].helper
          \in {"started", "listening", "made", "decoded", "checking", "clearing", "sweeping", "installed"}
    BY <1>s, <1>8 DEF HelperFails, SessionState
  <2>4. CASE session[p].helper = "installed"
    <3>1. s.kept = session[p].kept
      BY <1>s, <2>1, <2>2, <2>4 DEF SessionState
    <3>. QED BY <1>1, <1>r, <1>8, <2>2, <2>4, <3>1, HelperTurns DEF HelperFails
  <2>5. CASE session[p].helper # "installed"
    <3>1. ~s.kept
      BY <2>1, <2>2, <2>3, <2>5
    <3>. QED BY <1>1, <1>r, <1>8, <2>2, <2>3, <2>5, <3>1, HelperTurns DEF HelperFails
  <2>. QED BY <2>4, <2>5
<1>. QED BY <1>3, <1>4, <1>d, <1>b, <1>5, <1>6, <1>7, <1>8

\* What is seen of a process whose helper is ended before it was done.
LEMMA EndedIsVoid ==
  ASSUME NEW r \in ProcessState, NEW s \in SessionState, HelperFits(r, s), s.helper # "none",
         r.installed => s.helper \in {"installed", "ended"}
  PROVE  /\ HelperFits(r, Over(s)) /\ Where(r, Over(s)) = Where(r, s)
         /\ Phase(r, Over(s)) = IF Phase(r, s) \in Delivery!Open THEN "void" ELSE Phase(r, s)
<1>0. PICK z \in SessionState :
        z = Over(s) /\ z.helper = "ended" /\ z.kept = (s.kept /\ s.helper \in {"installed", "ended"})
  BY OverFits
<1>1. HelperFits(r, z) /\ Where(r, z) = Where(r, s)
  BY <1>0 DEF HelperFits, Where
<1>2. CASE r.installed
  <2>1. Phase(r, z) = "effective" /\ Phase(r, s) = "effective"
    BY <1>2 DEF Phase
  <2>. QED BY <1>0, <1>1, <2>1 DEF Delivery!Open
<1>3. CASE ~r.installed /\ s.helper \in {"installed", "ended"}
  <2>1. z.kept = s.kept
    BY <1>0, <1>3 DEF SessionState
  <2>2. Phase(r, z) = Phase(r, s) /\ Phase(r, s) \in {"kept", "void"}
    BY <1>0, <1>3, <2>1 DEF Phase
  <2>. QED BY <1>0, <1>1, <2>2 DEF Delivery!Open
<1>4. CASE ~r.installed /\ s.helper \notin {"installed", "ended"}
  <2>1. Phase(r, z) = "void"
    BY <1>0, <1>4 DEF Phase
  <2>2. s.helper \in {"started", "listening", "made", "decoded", "checking", "clearing", "sweeping"}
    BY <1>4 DEF SessionState
  <2>3. Phase(r, s) \in {"configuring", "clearing", "removed", "failing"}
    BY <1>4, <2>2 DEF Phase
  <2>. QED BY <1>0, <1>1, <2>1, <2>3 DEF Delivery!Open
<1>. QED BY <1>2, <1>3, <1>4

\* Clear goes on, and the helpers that need what it has removed have lost it.
LEMMA SweepMoves ==
  ASSUME CommandInv, HelperInv, NEW p \in Process, NEW gone, NEW stage, NEW s \in SessionState,
         NEW installed \in BOOLEAN,
         stage = "decoded" \/ stage = "checking", session' = Removed(p, gone, stage, s),
         proc' = [proc EXCEPT ![p] = [proc[p] EXCEPT !.installed = installed]], config' = config,
         session[p].helper \in {"clearing", "sweeping"}, s.helper \in {"sweeping", "installed"},
         session[p].kept => s.kept, installed <=> s.helper = "installed" /\ ~s.kept
  PROVE  HelperInv' /\ [Delivery!Next]_(Delivery!vars)
<1>0. /\ proc \in [Process -> ProcessState] /\ session \in [Process -> SessionState]
      /\ proc[p] \in ProcessState /\ session[p] \in SessionState
      /\ HelperFits(proc[p], session[p]) /\ SessionFits(p, proc[p], session[p])
  BY Standing DEF HelperInv
<1>1. PICK lost \in SUBSET (Process \ {p}) :
        lost = {q \in Process \ {p} : q \in gone /\ session[q].helper = stage /\ proc[q].task = proc[p].task}
  OBVIOUS
<1>2. PICK r : r = [proc[p] EXCEPT !.installed = installed]
  OBVIOUS
<1>3. /\ r.line = proc[p].line /\ r.task = proc[p].task /\ r.pc = proc[p].pc /\ r.goal = proc[p].goal
      /\ r.installed = installed
  BY <1>0, <1>2 DEF ProcessState
<1>4. /\ proc'[p] = r /\ session'[p] = s
      /\ \A q \in Process \ {p} : proc'[q] = proc[q]
      /\ \A q \in lost : session'[q] = Over(session[q])
      /\ \A q \in Process \ (lost \cup {p}) : session'[q] = session[q]
  <2>1. session[p].helper # stage /\ stage # "none"
    OBVIOUS
  <2>2. /\ session'[p] = s
        /\ \A q \in Process \ {p} :
             IF q \in gone /\ session[q].helper = stage /\ proc[q].task = proc[p].task
             THEN session'[q] = Over(session[q]) ELSE session'[q] = session[q]
    BY <2>1, RemovedFits
  <2>. QED BY <1>0, <1>1, <1>2, <2>2
<1>5. ~proc[p].installed
  BY <1>0 DEF SessionFits
<1>6. Phase(proc[p], session[p]) = IF session[p].kept THEN "failing" ELSE "removed"
  BY <1>5 DEF Phase
<1>7. PICK onward : onward = Phase(r, s)
  OBVIOUS
<1>8. /\ onward \in Delivery!Onward(Phase(proc[p], session[p])) /\ HelperFits(r, s)
      /\ Where(r, s) = Where(proc[p], session[p]) /\ Says(r) = Says(proc[p])
  <2>1. CASE s.helper = "sweeping"
    <3>1. onward = IF s.kept THEN "failing" ELSE "removed"
      BY <1>3, <1>7, <2>1 DEF Phase
    <3>. QED BY <1>0, <1>3, <1>6, <2>1, <3>1 DEF HelperFits, Where, Says, Delivery!Onward
  <2>2. CASE s.helper = "installed"
    <3>1. onward = IF s.kept THEN "kept" ELSE "effective"
      BY <1>3, <1>7, <2>2 DEF Phase
    <3>. QED BY <1>0, <1>3, <1>6, <2>2, <3>1 DEF HelperFits, Where, Says, Delivery!Onward
  <2>. QED BY <2>1, <2>2
<1>9. ASSUME NEW q \in lost
      PROVE  /\ HelperFits(proc[q], session'[q]) /\ Phase(proc[q], session'[q]) = "void"
             /\ Phase(proc[q], session[q]) = "configuring"
             /\ Where(proc[q], session'[q]) = Where(proc[q], session[q])
             /\ Where(proc[q], session[q]) = Where(proc[p], session[p])
  <2>1. /\ HelperFits(proc[q], session[q]) /\ SessionFits(q, proc[q], session[q])
        /\ proc[q] \in ProcessState /\ session[q] \in SessionState
    BY Standing DEF HelperInv
  <2>2. session[q].helper \in {"decoded", "checking"} /\ proc[q].task = proc[p].task
    BY <1>1
  <2>3. Phase(proc[q], session[q]) = "configuring"
    BY <2>1, <2>2 DEF HelperFits, SessionFits, Phase
  <2>4. Where(proc[q], session[q]) = Where(proc[p], session[p])
    BY <2>2 DEF Where
  <2>5. proc[q].installed => session[q].helper \in {"installed", "ended"}
    BY <2>1 DEF SessionFits
  <2>. QED BY <1>4, <2>1, <2>2, <2>3, <2>4, <2>5, EndedIsVoid DEF Delivery!Open
<1>10. ASSUME NEW q \in Process PROVE HelperFits(proc'[q], session'[q])
  BY <1>4, <1>8, <1>9 DEF HelperInv
<1>11. HelperInv'
  BY <1>10 DEF HelperInv, HelperFits
<1>12. PICK f, g : /\ f = [q \in Process |-> Phase(proc[q], session[q])]
                   /\ g = [q \in Process |-> Where(proc[q], session[q])]
  OBVIOUS
<1>13. [q \in Process |-> Phase(proc[q], session[q])]'
         = [q \in Process |-> IF q = p THEN onward ELSE IF q \in lost THEN "void" ELSE f[q]]
  BY <1>4, <1>7, <1>9, <1>12
<1>14. /\ [q \in Process |-> Where(proc[q], session[q])]' = [q \in Process |-> Where(proc[q], session[q])]
       /\ [q \in Process |-> Says(proc[q])]' = [q \in Process |-> Says(proc[q])]
  BY <1>4, <1>8, <1>9
<1>15. /\ f[p] \in {"removed", "failing"} /\ onward \in Delivery!Onward(f[p])
       /\ lost \in SUBSET {q \in Process : f[q] = "configuring" /\ g[q] = g[p]}
  BY <1>6, <1>8, <1>9, <1>12
<1>16. Delivery!Clear(p)
  BY <1>12, <1>13, <1>14, <1>15 DEF Delivery!Clear
<1>. QED BY <1>11, <1>16 DEF Delivery!Next

LEMMA RestMoves ==
  ASSUME CommandInv, HelperInv, NEW p \in Process, HelperClearRequests(p) \/ HelperClearRest(p)
  PROVE  HelperInv' /\ [Delivery!Next]_(Delivery!vars)
<1>0. /\ proc \in [Process -> ProcessState] /\ proc[p] \in ProcessState /\ session[p] \in SessionState
      /\ SessionFits(p, proc[p], session[p])
  BY Standing
<1>1. CASE HelperClearRequests(p)
  <2>1. PICK gone \in SUBSET session[p].matched :
          session' = Removed(p, gone, "decoded",
                       [session[p] EXCEPT !.helper = "sweeping", !.kept = @ \/ gone # session[p].matched])
    BY <1>1 DEF HelperClearRequests
  <2>2. PICK s : s = [session[p] EXCEPT !.helper = "sweeping", !.kept = @ \/ gone # session[p].matched]
    OBVIOUS
  <2>3. s \in SessionState /\ s.helper = "sweeping" /\ (session[p].kept => s.kept)
    BY <1>0, <2>2 DEF SessionState
  <2>4. session' = Removed(p, gone, "decoded", s) /\ session[p].helper = "clearing" /\ config' = config
    BY <1>1, <2>1, <2>2 DEF HelperClearRequests
  <2>5. proc' = [proc EXCEPT ![p] = [proc[p] EXCEPT !.installed = FALSE]]
    BY <1>0, <1>1 DEF HelperClearRequests, SessionFits, ProcessState
  <2>. QED BY <2>3, <2>4, <2>5, SweepMoves
<1>2. CASE HelperClearRest(p)
  <2>0. PICK gone \in SUBSET session[p].matched, failed \in BOOLEAN :
          /\ session' = Removed(p, gone, "checking",
               [session[p] EXCEPT !.helper = "installed",
                                  !.kept = session[p].kept \/ failed \/ gone # session[p].matched,
                                  !.matched = {}, !.ready = {}])
          /\ Set(p, [proc[p] EXCEPT !.installed = ~(session[p].kept \/ failed \/ gone # session[p].matched)])
    BY <1>2 DEF HelperClearRest
  <2>1. PICK kept \in BOOLEAN :
          /\ session[p].kept => kept
          /\ session' = Removed(p, gone, "checking",
               [session[p] EXCEPT !.helper = "installed", !.kept = kept, !.matched = {}, !.ready = {}])
          /\ Set(p, [proc[p] EXCEPT !.installed = ~kept])
    <3>1. PICK kept : kept = (session[p].kept \/ failed \/ gone # session[p].matched)
      OBVIOUS
    <3>2. kept \in BOOLEAN /\ (session[p].kept => kept)
      BY <1>0, <3>1 DEF SessionState
    <3>. QED BY <2>0, <3>1, <3>2
  <2>2. PICK s : s = [session[p] EXCEPT !.helper = "installed", !.kept = kept, !.matched = {}, !.ready = {}]
    OBVIOUS
  <2>3. s \in SessionState /\ s.helper = "installed" /\ s.kept = kept
    BY <1>0, <2>2 DEF SessionState
  <2>4. session' = Removed(p, gone, "checking", s) /\ session[p].helper = "sweeping" /\ config' = config
    BY <1>2, <2>1, <2>2 DEF HelperClearRest
  <2>5. PICK installed \in BOOLEAN : installed = ~kept
    OBVIOUS
  <2>6. proc' = [proc EXCEPT ![p] = [proc[p] EXCEPT !.installed = installed]]
    BY <2>1, <2>5 DEF Set
  <2>. QED BY <2>1, <2>3, <2>4, <2>5, <2>6, SweepMoves
<1>. QED BY <1>1, <1>2

LEMMA TaskMoves ==
  ASSUME CommandInv, HelperInv, NEW t \in Task, Place(t) \/ Register(t) \/ StopByOthers(t) \/ Exit(t)
  PROVE  HelperInv' /\ [Delivery!Next]_(Delivery!vars)
<1>1. CASE Place(t) \/ Register(t) \/ StopByOthers(t)
  BY <1>1, SameMoves DEF Place, Register, StopByOthers, Sees
<1>2. CASE Exit(t)
  <2>0. /\ UNCHANGED proc /\ config' = [config EXCEPT ![t] = None]
        /\ session \in [Process -> SessionState]
    BY <1>2 DEF Exit, CommandInv, TypeOK
  <2>1. ASSUME NEW q \in Process
        PROVE  session'[q] = IF proc[q].task = t /\ session[q].helper # "none"
                             THEN Over(session[q]) ELSE session[q]
    BY <1>2 DEF Exit
  <2>2. ASSUME NEW q \in Process
        PROVE  /\ HelperFits(proc[q], session'[q])
               /\ Where(proc[q], session'[q]) = Where(proc[q], session[q])
               /\ Phase(proc[q], session'[q])
                    = IF Where(proc[q], session[q]) = t /\ Phase(proc[q], session[q]) \in Delivery!Open
                      THEN "void" ELSE Phase(proc[q], session[q])
    <3>1. HelperFits(proc[q], session[q])
      BY DEF HelperInv
    <3>2. CASE proc[q].task = t /\ session[q].helper # "none"
      <4>1. Where(proc[q], session[q]) = t
        BY <3>2 DEF Where
      <4>2. /\ proc[q] \in ProcessState /\ session[q] \in SessionState
            /\ proc[q].installed => session[q].helper \in {"installed", "ended"}
        BY Standing DEF SessionFits
      <4>. QED BY <2>1, <3>1, <3>2, <4>1, <4>2, EndedIsVoid
    <3>3. CASE ~(proc[q].task = t /\ session[q].helper # "none")
      <4>1. Where(proc[q], session[q]) # t
        BY <3>3, LineAssumption DEF Where
      <4>. QED BY <2>1, <3>1, <3>3, <4>1
    <3>. QED BY <3>2, <3>3
  <2>3. HelperInv'
    BY <2>0, <2>2 DEF HelperInv, HelperFits
  <2>4. PICK f, g : /\ f = [q \in Process |-> Phase(proc[q], session[q])]
                    /\ g = [q \in Process |-> Where(proc[q], session[q])]
    OBVIOUS
  <2>5. /\ [q \in Process |-> Where(proc[q], session[q])]' = [q \in Process |-> Where(proc[q], session[q])]
        /\ [q \in Process |-> Says(proc[q])]' = [q \in Process |-> Says(proc[q])]
    BY <2>0, <2>2
  <2>6. [q \in Process |-> Phase(proc[q], session[q])]'
          = [q \in Process |-> IF g[q] = t /\ f[q] \in Delivery!Open THEN "void" ELSE f[q]]
    BY <2>0, <2>2, <2>4
  <2>7. Delivery!Vanish(t)
    BY <2>0, <2>4, <2>5, <2>6 DEF Delivery!Vanish
  <2>. QED BY <2>3, <2>7 DEF Delivery!Next
<1>. QED BY <1>1, <1>2

LEMMA DeliveryStep == CommandInv /\ HelperInv /\ [Next]_vars => HelperInv' /\ [Delivery!Next]_(Delivery!vars)
<1>. SUFFICES ASSUME CommandInv, HelperInv, [Next]_vars PROVE HelperInv' /\ [Delivery!Next]_(Delivery!vars)
  OBVIOUS
<1>1. ASSUME NEW p \in Process, Command(p) PROVE HelperInv' /\ [Delivery!Next]_(Delivery!vars)
  BY <1>1, AnnounceMoves, WalkMoves, LoginMoves, PluginMoves, PipeMoves DEF Command, Transfer
<1>2. ASSUME NEW p \in Process, Helper(p) PROVE HelperInv' /\ [Delivery!Next]_(Delivery!vars)
  BY <1>2, ActMoves, RestMoves DEF Helper
<1>3. CASE UNCHANGED vars
  BY <1>3, SameMoves DEF vars, Sees
<1>. QED BY <1>1, <1>2, <1>3, BeginMoves, CallMoves, PipeMoves, LoginMoves, TaskMoves DEF Next

LEMMA DeliveryInit == Init => HelperInv /\ Delivery!Init
<1>. SUFFICES ASSUME Init PROVE HelperInv /\ Delivery!Init
  OBVIOUS
<1>1. \A p \in Process : proc[p] = Unstarted /\ session[p] = NoSession
  BY DEF Init
<1>2. /\ HelperFits(Unstarted, NoSession) /\ Phase(Unstarted, NoSession) = "none"
      /\ Where(Unstarted, NoSession) = None /\ Says(Unstarted) = "nothing"
  BY DEF Unstarted, NoSession, HelperFits, Phase, Where, Says
<1>. QED BY <1>1, <1>2 DEF Init, HelperInv, Delivery!Init

\* Sessions, markers and helpers implement CredentialDelivery: what a command does to its task
\* happens at most once and at once, and what is reported has happened, or is a clear that has
\* failed to remove something.
THEOREM TransfersDeliver == Spec => CredentialsDelivered
<1>1. CommandInv /\ HelperInv /\ [Next]_vars => HelperInv'
  BY DeliveryStep
<1>2. CommandInv /\ HelperInv /\ [Next]_vars => [Delivery!Next]_(Delivery!vars)
  BY DeliveryStep
<1>3. Init => HelperInv
  BY DeliveryInit
<1>4. Init => Delivery!Init
  BY DeliveryInit
<1>. QED BY <1>1, <1>2, <1>3, <1>4, CommandInvariant, PTL DEF Spec, CredentialsDelivered, Delivery!Spec

=============================================================================
