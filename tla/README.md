# rosa-boundary in TLA+

This directory holds a formal model of rosa-boundary: TLA+ modules translated from the code
under `src/`, TLC configurations that check them on small instances, and proofs that TLAPS
checks for every instance. `PROJECT.json` says which lines each definition stands for, which
hazard of the code each property is aimed at, and which mutation of the model each property
rejects.

## 1. The system

rosa-boundary gives an SRE an ephemeral container (an ECS task) with a persistent home
directory for the investigation of an incident. There is no database: what AWS keeps *is* the
state, and nothing in it can be locked.

| Part | State | Operations | Hard behaviour |
|---|---|---|---|
| create-investigation Lambda | EFS access points with tags, task definitions, ECS tasks with `startedBy` and tags | find or create the access point, hand over from tasks that run, register, launch, tag, roll back | concurrent requests without a lock; calls refused or lost half way; a task told to stop goes on for its stopTimeout; sessions that begin during the preflight |
| reap-tasks Lambda | `deadline` tag, sessions in SSM, the report | list, describe in batches, check sessions container by container, stop | stale descriptions, fail-closed checks, overlapping runs, failed batches |
| reap-investigations Lambda | access points, the mounted directories, the backup bucket | list everything once, recheck tasks, back up, remove directory, access point, definitions | tasks that start after the recheck, a run that dies between two removals, an age that is unknown |
| close-investigation command | the same, and a prompt | find by tags, refuse or stop tasks, deregister, confirm, delete | tasks that start during the prompt, tags that lag, a wait that times out |
| start-task, create-investigation, join-task, stop-task | the task ID that the user is told | invoke the Lambda, assume a role, wait, open a session | a lost answer that the SDK repeats, a task that stops during any wait, a failure after the launch |
| authentication | token cache file, callback port 8400, browser tabs | browser login, device flow, one retry with a fresh token, a second role | a cache written in two steps and shared by processes of several issuers, callback against timeout, redirects of old tabs |
| configuration | `config.yaml`, flags, environment | load in two looks, discover by Lambda, prompt, replace the file | a file that is replaced between the two looks or found truncated, precedence, settings of two deployments |
| OCM authentication and credential transfer | callback port 9998, session of the plugin, files in the task's memory-backed mounts | login, request through a pipe, validate, install by `mv`, clear | three processes and two pipes, markers, a deadline that only the plugin sees, clear beside configure |
| container entrypoint | home directory, audit bucket | set up, run the workload, sync on exit or signal | signal against normal exit, traps inside traps, `set -e`, a sync that hangs |

The Lambdas and the commands interact only through AWS: one creates the task that another
stops, one deletes the access point that another has just chosen. Commands of one user interact
through two files, two ports and a browser. What makes the parts correct:

* create-investigation: a session is never cut off by a handover that could have known of it;
  a handover is complete before the next task is launched; a failure leaves nothing behind and
  takes nothing that was there before; requests served one at a time keep a single task wanted.
* reap-tasks: a stop is justified by what the run has seen; the report is true; an expired task
  is stopped in the end.
* reap-investigations: no file that the backup sees is lost, no directory becomes unreachable, no
  running task loses its workspace, a stale investigation is reclaimed in the end.
* close-investigation: no task and no access point outside the investigation is touched, and no task
  in use loses its access point.
* authentication: a token goes only to the issuer and client it is for, a code only to the login
  it is for; the user is asked once; a command ends unless the browser or AWS keeps it.
* configuration: an invalid preference stops a command, and no command mixes two deployments.
* commands and credentials: a task that was launched is known to somebody; a token is sent only
  when the terminal does not echo, to the session it was obtained for; what is reported is true.
* entrypoint: what is missing in the audit bucket after an exit has its excuse.

## 2. The modules

| Module | Models |
|---|---|
| `CreateInvestigation` | `create_investigation_task` of `lambda/create-investigation/handler.py` |
| `SingleTask` | what that Lambda promises: the abstract specification of a single wanted task |
| `ReapTasks` | `lambda/reap-tasks/handler.py` |
| `Workspace` | the resources of an investigation in AWS and the life of its tasks, shared by the next two |
| `ReapInvestigations` | `lambda/reap-investigations/handler.py` (extends `Workspace`) |
| `CloseInvestigation` | `internal/cmd/close_investigation.go` and its AWS clients (extends `Workspace`) |
| `Login` | `internal/auth`, `internal/aws/sts.go` and the authentication hook of `internal/cmd/root.go` |
| `Configuration` | `internal/config` and `internal/cmd/configure.go` |
| `EcsTask` | the tasks of one investigation as the commands see them, and what commands share |
| `OcmCredentials` | `internal/credentials/ocm`, `internal/cmd/credentials_ocm.go` and the helper in the task (extends `EcsTask`) |
| `TaskCommands` | start-task, create-investigation, join-task, stop-task beside the credential commands (extends `OcmCredentials`) |
| `CredentialDelivery` | what the OCM credential commands promise: an abstract specification of the last two |
| `Entrypoint` | `entrypoint.sh` |
| `CreateInvestigationProofs`, `ConfigurationProofs`, `ReapTasksProofs`, `ReapInvestigationsProofs`, `CloseInvestigationProofs`, `LoginProofs`, `TaskCommandsProofs`, `EntrypointProofs` | theorems |
| `MC*` | small instances for TLC |

The conventions are the same everywhere. `pc` names the *next* call of an invocation, a run or a
command; an action is that call together with the code that follows it up to the next call. A call
may succeed, be refused, or be lost, so that its effect is unknown. History variables (`excused`,
`openedAfter`, `late`, `lateFiles`, `overlooked`, `remounted`, `unseen`, `listed`, the fields
`lost`, `installed`, `moved`, `target` of processes and `ready` of sessions) record what an actor
could have known or has done, and occur in no guard of the code's actions. A definition `MutX` is
a plausible bug of `X`: the runs do not use it, and the property it belongs to fails when it
replaces `X`.

### CreateInvestigation

An invocation creates at most one access point, one definition and one task, so all three are
named by the invocation. `found`, `listed`, `waitFor`, `failed` and `home` are the variables
`existing_ap`, `existing_tasks`, `tasks_to_wait_for`, `failed_stops` and `access_point_id` of
the code; `checked` is the position of the preflight loop. `rollbacks` counts the rounds of
clean-up: the inner handler of a tagging failure re-raises into the outer one, which rolls back
again. `excused` marks an invocation for which the code knows no better: the answer of a call
was lost (`except ClientError` lets a `BotoCoreError` through), `get_caller_identity` was
refused, or a clean-up call failed. A task goes through starting, running, stopping (its
containers have their SIGTERM and up to 120 seconds) and stopped; `aborting` is one that is
stopped before it ran. Authentication and input validation come before the first action and are
not part of this module. `SerialSpec` admits one request at a time and is shown to implement
`SingleTask` under the mapping `wanted <- TasksOf`. One thing is coarser than the code: the preflight
of one task, a `describe_tasks` and a `describe_sessions` per container, is one step (`Preflight`),
since `ReapTasks` has the same loop container by container, where it decides more.

### ReapTasks

`due` maps each expired task of the batch to its containers *as describe_tasks returned them*;
`cleared` are those that SSM was asked about. `exec` has the three cases of
`enableExecuteCommand`. Tasks, sessions and containers change between any two calls. Failures
are drawn from a budget.

### Workspace, ReapInvestigations, CloseInvestigation

All access points of an investigation lead to one directory. The create-investigation Lambda is
reduced to what it does to this state: `Place` (choose or create an access point, register the
definition) and `Launch`, which may be arbitrarily far apart. Each task writes one file, at any
time until its container ends. The reaper lists access points, tasks and definitions once
(`queue`, `busy`, `defs`), then deals with one access point after the other (`current`); the
backup is one step per file. What it does not see is part of the model: the files it leaves out
(`excluded`: `.config/ocm`, `.kube`, what is not a regular file) and those in a directory that
`os.walk` cannot list and passes over (`overlooked`) go with the directory. Validation of tags and
paths is left out: every modelled access point passes it. In `CloseInvestigation` the cluster may
be left out (`inv = None`), and is then taken from the tags of the only match; `tagged` are the
tasks whose tags can be seen yet. `Covers` says which investigations have a family name that
begins with that of another one: the command finds task definitions by this prefix alone, where
the reaper looks at the timestamp behind it (handler.py:779).

### Login

A process runs one command. Its `pc` follows `assumeRoleWithRetryOptions`: the first look at the
cache (`first`), `GetTokenWithOptions` (`get`), the login (`login` to `exchange`, or `poll`), the
two steps in which `os.WriteFile` truncates and writes (`save`, `write`), the role (`assume`), and
the one retry (`clear`, then `get` with force). `start-task` goes through it twice, with the Lambda
in between (`lambda`). The callback server is a goroutine of its own: `server` and `port` change by
`Listen`, `Redirect`, `Shutdown` and `CallbackTimeout` while the process goes on. A login draws a
state of its own, which is modelled by process and number of the login (`State`); `tab` are the
logins whose page has been opened, and each page, also that of an earlier login of the same process,
may be redirected at any time, more than once, to whoever listens. The process reads the result of
its server only when the command that opens the browser has returned (`OpenBrowser`), which may be
never. A token is
named by issuer, process and number of its login, which is enough to tell whose it is and which
of two is newer; `exp` is what `parseTokenExpiration` makes of the cached one now. `Torn` is any
content that is no entry. The history field `lost` says that somebody changed the cache since the
process relied on it.

### Configuration

Settings that the code treats alike are one key. `Load` and `Get` are two steps, because `Get`
reads the file again for a null that viper hides; `Effective` is the precedence as viper and
`bindEnvAlias` make it, `Preference` the same for the device-code setting. Each deployment has its
settings, and a Lambda that answers is one of the deployment whose provider and region were used
to reach it. `target` is the deployment that configure was run for; `moved` says that the file
has changed since `Load`.

### EcsTask, OcmCredentials, TaskCommands

A task is pending, running, draining (told to stop, still up) or stopped; its exec agent registers
after it runs. `session` has the three actors of a transfer: the plugin (`plugin`), the helper in
the task (`helper`), and between them what the helper has printed and the command has not read
(`output`), whether `cmd.Run` still copies stdin (`copying`), and whether the deadline is over
(`expired`). `config` names the process whose OCM configuration a task holds. The helper of a
configure makes its two files (`HelperReceive`), writes the request (`HelperDecode`) and the candidate
(`HelperBuild`), each by a redirect that makes the file again if it is gone, and installs the candidate
(`HelperInstall`). `clear` goes in the order of its `rm`: the configuration (`HelperClear`), the
requests and the candidates that its patterns have `matched` before that. Any removal may fail
(`kept`), and the marker comes all the same. The Lambda is reduced to what start-task sees of it:
`calls` are the invocations at work for a command, each with the tasks it has found; it stops them
(`HandOver`), launches when they have stopped (`LaunchTask`), and answers, or its answer is lost. The
SDK may repeat a call while the first is at work, so that two invocations overlap and both launch.

`CredentialDelivery` knows neither sessions nor markers: a process has a `phase` with the one task
it opened a session in, takes effect there in one step or never, and says so afterwards. A clear may
also come to its end without effect (`kept`), and says success then, as the code does.
`TaskCommands` implements it (`CredentialsDelivered`) with `config` for `config` and the mapping
`Phase` (what the helper is doing, by the kind of command, `installed` and `kept`), `Where` (the task,
once there is a helper) and `Says` (where the command stands). The first `rm` of `clear` is `Remove`
and the last is `Clear`; the end of a task's container is `Vanish`; what the plugin, the browser and
the Lambda do is a stutter.

### Entrypoint

`shell` says where `main` or `cleanup` stands. Bash runs a trap when the foreground command ends,
except that `wait` returns at once, and it runs the trap before `set -e` looks at the status;
`pending` is a trap that is due. `walk` are the files the running sync has still to look at,
`dirty` those of which the bucket lacks the latest content, `late` those written since the latest
sync began. The workload writes while it runs, sessions until the container ends.

## 3. The runs

| Run | Question | Bounds |
|---|---|---|
| `create_concurrent` | safety of overlapping requests with every kind of failure; does a request run out of calls | 3 invocations of one investigation, at least one of them served before; one or two still to come |
| `create_serial` | do serial requests implement `SingleTask`; does a workspace survive the rollback of others; is every request answered | 2 invocations, every failure |
| `create_overlap` | (violated) do containers overlap, even when nothing fails | 2 invocations, no failure, no skip_task |
| `reap_tasks` | is the report complete and true | 1 run at a time, 3 tasks in batches of 2, one failed call, containers up at the beginning |
| `reap_overlap` | is every stop justified; is an expired task stopped | 2 overlapping runs, 1 task with 2 containers from pending on, one failed call |
| `reap_investigations` | are files, directories and tasks safe from the reaper; is a stale investigation reclaimed, and none too early | 1 investigation with up to 2 access points, 1 task whose file is left out of backups or not, 1 failed call, directory not listed or killed run, grace of 1 tick and a clock of 2 |
| `close_investigation` | does a close stay inside its investigation and spare tasks | 2 investigations with one ID, the name of one beginning with that of the other, 2 access points, 2 tasks, 1 command at a time |
| `login` | are tokens and codes kept apart; is the user asked once; does every command end | 2 processes of one or two issuers, start-task with a browser beside another browser login or a configure with a device code (`OneStartTask`) |
| `configuration` | are preferences honoured; are deployments kept apart; does enter keep the settings | 2 processes, 2 deployments, 8 command lines, every state of the file |
| `task_commands` | are tasks named and sessions, tokens and reports right; do transfers implement `CredentialDelivery` | 2 processes, 2 tasks, 7 command lines; `Apart`, `FewCalls` and `SameTask` leave out pairs of commands |
| `transfer_hang` | (violated) does a transfer end | 1 process, 1 task, `credentials configure` |
| `entrypoint` | what may be missing after an exit; does a signal end the container | 1 file of the workload, 2 of sessions, 2 signals |

`TypeOK` is an invariant of `task_commands` only; elsewhere it is proved, or part of the inductive
invariant that is proved, and no run repeats it.

Why the bounds are enough. The actors interact in pairs: a handover has one predecessor, one
competitor and itself, hence three invocations; when requests do not overlap, there is at most one
wanted task to hand over from, and a request waits for tasks and never for another request, hence
two. A second investigation never meets the first in `CreateInvestigation`, where everything is
filtered by it, but does in `CloseInvestigation`, where an ID may be shared. Two batches (one
full, one not) cover the batch loop, two containers the container loop, two access points the case
of a duplicate. One failed call is enough for each recovery path, since a path ends with the
invocation or the run; in `CreateInvestigation`, `Login`, `TaskCommands` and `Configuration`
failures are not bounded at all. A clock with one tick more than the grace period has an age
before, at and after its end. Two processes are one that relies on a file, a port or a task and
one that changes it; two issuers are the own and another one. `start-task` and `configure` are the
two command lines that differ most: look or force, browser or device, one role or two. In `login`
one process runs start-task, with its two logins, and the other a command with one
(`OneStartTask`): what a page of an earlier login can do to a later one needs two logins of one
process and one of another. In `task_commands` three constraints keep the pairs of commands that
meet in something: `Apart` (start-task with credentials runs beside a clear but beside no
configure or other start-task, and start-task without credentials beside neither; configure and
clear meet each other without a start-task), `FewCalls` (two invocations of the Lambda at work at
once; those of a start-task with credentials come one at a time, and their answers are not lost,
which the other start-task has) and `SameTask` (two commands with credentials have the same task,
and an agent is up only where a command is). The proofs need none of them. In the entrypoint a
second signal is what a first one that is being handled can still meet. Symmetry is used for
interchangeable model values, never in a run with a liveness property. Deadlock is checked except
in the runs of `CreateInvestigation`, `Login`, `TaskCommands` and `Entrypoint`, where a finite
number of requests, commands or containers comes to an end.

Fairness. Lambda carries on what it has accepted, or kills it (`WF` of an invocation, with
`LambdaTimesOut` as a way out); EventBridge starts a run of a reaper on every period and Lambda
carries it on (`WF` of `Reap`). In `reap_overlap` ECS starts the containers of the tasks it is to
run, without which no session check could ever be conclusive. Nothing is assumed of operators,
of sessions, or of a task that was told to stop: `EveryRequestAnswered` holds although it may
never end. Calls of the reapers fail a bounded number of times, since a call that always fails
defeats every reaper. A command carries on with what is local or has a deadline, in `Login` by `WF` of
`Run` where nothing holds it, of `Listen`, `Shutdown` and `CallbackTimeout`. Three things may hold it
for ever (`Held`): the command that opens the browser, which is run without a deadline
(oidc.go:270-282) and may be the browser itself, the call to STS (sts.go:54) and the call to the Lambda
(client.go:123); `EveryCommandEnds` says that these are the only ones, and that a command so held has
given the port back. In `transfer_hang` only the transfer itself carries on (`WF` of `Transfer`, its
timeout included). The user, the browser, the plugin and the helper owe nothing. The shell of the
entrypoint carries on, `timeout` included; nothing is assumed of the workload, the upload or the
kill of ECS.

What the violated runs show:

* `create_overlap`: `list_tasks(desiredStatus=RUNNING)` does not return a task that was told to
  stop, so a request does not wait for it, and its container and the new one share the home
  directory for up to its stopTimeout. The handler's comment promises to fail closed.
* `transfer_hang`: when the plugin ends, or is killed by the deadline, before the success marker
  and with nothing left to write, `cmd.Run` waits for the copy of stdin to end, that copy waits for
  `run` to close stdin, and `run` waits for output that is closed only when `cmd.Run` has
  returned. "Bounded" (transfer.go:26) it is not.

Where code and documents disagree, or the code surprises, without a run of its own:

* create-investigation. Nothing tells the Lambda that a call is repeated. When the SDK repeats it
  while the first invocation is still at work, both list the same tasks and each may launch one
  (handler.py:685, 890): `RetryReplacesLost` speaks of the repetition after the first is over.
* close-investigation. The family prefix has no end (close_investigation.go:131, ecs.go:251-264):
  closing inv-1 deregisters the definitions of inv-10 and inv-1-b too. `CloseStaysInside` says that it
  goes no further than such names.
* Reaper. The backup leaves out `.config/ocm`, `.kube` and what is not a regular file
  (handler.py:593-603, 619-621), and `os.walk` passes over a directory that it cannot list (583);
  all of it goes with the directory (707). `EveryFileIsKept` is about the other files.
  overview.md:88 says that `StopTask` is called for any task past its deadline; the code spares a
  task with a session (`ExpiredTaskStops` has it as an alternative).
  investigations-and-tasks.md:155 says that a missing creation time does not bypass the grace
  period; such an access point is stale at once (`GraceHonoured` speaks of known ages).
* Entrypoint. A workload that ends with another status than 0 ends the shell at `wait`, before
  the sync, against "Sync on normal exit too" (entrypoint.sh:176) and overview.md:101; the default
  `sleep infinity` never ends with 0 by itself. The default SYNC_TIMEOUT of 300 seconds is longer
  than the stopTimeout of 120 (ecs.tf:109) that line 21 wants to stay below. The trap copies the
  home directory before it ends the workload (`AuditOnExit` has these as excuses).
* Authentication. `--force-login` of start-task and create-investigation is a flag of its own that
  nothing reads (start_task.go:60, create_investigation.go:41 against root.go:72). The browser is
  opened before the callback server listens (oidc.go:149), and `openBrowser` waits for the command
  that opens it. The polling interval of a device challenge is multiplied without a check for
  overflow (device.go:86). A role ARN that is missing shows only after the launch
  (start_task.go:124).
* Configuration. Behind a malformed file the environment is ignored, against "flags > env > config
  > defaults" (configure.go:96), and a command may fall back to the browser although a variable
  says otherwise; legacy variables have no effect on settings with a default (root.go:116);
  interactive configure starts from nothing when the preference is invalid, and loses the settings;
  a command that finds the file truncated uses the default provider.
* Sessions and credentials. A plugin without target is started all the same when the runtime ID of
  the container is unknown (session.go:34). The message of `startCredentialFailure` claims that
  the task is running, which may not be so. `clear_ocm` prints its marker even if `rm` fails
  (helper:145-150), so that success of a clear is success only when no `rm` failed
  (`ReportIsTrue`, `CredentialDelivery`). A configure whose `mv` comes before `rm` has reached its
  candidate stays installed; so does one that had got no further than mktemp when clear expanded
  its patterns, as its redirects make the files again (helper:87, 115), which
  `ClearTakesCandidates` leaves out.

## 4. What is proved

`CreateInvestigationProofs` holds, for every set of invocations and investigations and for every
interleaving and failure of the model:

* `TypeCorrect`: `Spec => []TypeOK`. `TypeOK` is not inductive alone: the end of a round of
  clean-up decrements `rollbacks`, which must be positive then. `RollbackBudget` says so: an
  invocation in one of the clean-up stages has a round left.
* `ConflictIsHarmless`, `HandoverCompletes`, `SessionsSpared`: the three promises of a handover,
  all from one inductive invariant, `HandoverInv`. Its parts: `PreflightFirst` (no task is
  stopped until all listed ones are checked, and the two lists stay inside the listed tasks),
  `LaunchOnce` (a task exists only after its own invocation has come to `runTask`, so that a
  stopped task is never launched again), `HandoverIsComplete` itself, and
  `PassedWithoutSession` (a session on a task that is checked and not stopped yet began after
  the check). `HandoverIsComplete` needs `LaunchOnce` because "stopped for good" is a property of
  what every *other* invocation may do. The assumption used is `NoneAssumption` (None is not an
  invocation).

The second half of `CreateInvestigationProofs` is about how requests end.

* `FailuresAreUndone` (`FailureLeavesNothing`), by induction over the stages of one request:
  `MadeSoFar` says what it can have made of its own at each stage, `UndoneSoFar` what its rollback
  has undone. That a task told to stop is never launched again is `LaunchOnce`.
* `SerialImplementsPromise`: `SerialSpec` implements `SingleTask` (`OneTaskAtATime`). The step that
  needs an invariant is the launch: `NoneElseWanted` says that from the listing to `run_task`
  nobody but the listed tasks is wanted, which rests on there being one active request
  (`OneAtATime`); that the listed ones have stopped is `HandoverIsComplete`.
* `WorkspacesSurvive`: under `SerialSpec` no request loses its access point to the rollback of
  another. In `WorkspaceInv`, `Unshared` says that the access point of a request that is not over,
  which may yet be rolled back, was found by nobody else, `FoundStays` that one that was found
  stays available, and `HomeIsGood` that the home of a request is its own or the one it found.
* `RequestsEnd` (`CallsRunOut`): `CallsLeft` is a natural number that every step of a request
  decreases and that nobody else changes, so a request makes a bounded number of calls, whatever
  fails and whatever others do. This is the part of `EveryRequestAnswered` within reach of the prover;
  that a call can always be made and will be, is fairness, and stays with TLC. What the count needs:
  the tasks to stop and to wait for are sets of other requests' tasks, finite because the requests are
  (its hypothesis), and a clean-up runs at most twice (`RollbackBudget`).

`LoginProofs` holds for every set of processes, issuers and command lines. One inductive
invariant, `AuthInv`, carries `TypeCorrect`, `TokensStayApart`, `LoginsAreBounded`, `RetryIsNew`,
`CodesStayApart` and `SecondLoginIsExcused`. Its parts:

* `CacheHoldsIssued`: every entry is labelled for the issuer of its token, which is why the label
  is a test at all. A process saves what it has obtained for its own issuer (`HoldsOwn`).
* `LoginCount` and `CachedIsOlder`: a login is begun only when there is room for it. After a
  refusal there is, because the refused token equals the one of the first look, and that one is
  older than any login for this role; `Shared` says that the cache, too, never holds a token of a
  login to come.
* `SecondIsSilent` and the second half of `Shared`: a token that is not `lost` is valid in the
  cache until the second role looks for it.

* `LoginBegun` and `OwnAnswer`: a server belongs to the login that is under way, and a state it accepts
  is that of this login; the next login begins only when the server of the last is off and its answer
  is used up. So no page of an earlier login, of whatever process, has its code exchanged.

`CommandsRunOut` is about `EveryCommandEnds`: `StepsLeft` counts the rounds that are left (a role with
its retry, twice at most), then the calls of a round, then what the callback server has still to do.
Whatever a command, its server or its timeout does decreases it, and nothing that other processes or
browser tabs do increases it, so that nobody can keep a command busy for ever. `ClearsOnce` is what
it needs beyond `AuthInv`: a token is removed only before the retry.

`ContinueKeeps` states once what a step of one process owes for itself and for the cache; the
other processes keep their part because their flag `lost` is set when the cache changes. The
assumptions used: `CommandAssumption` (command lines are records of the right form),
`NoneAssumption` and `TornAssumption` (None and a torn file are not mistaken for a process, a
token or an entry).

`ReapTasksProofs` holds for any number of overlapping runs, any finite set of tasks
(`TaskAssumption`), any batch size, and any failures. Its invariant is `ReapInv`: `SessionsRun` (a
session is in a container that runs), `Justified` (a task about to be dealt with is past its
deadline; before it is stopped exec is off, or all its containers were asked about, and a session
in one that was ruled out came later), `BatchIsOver` (between two batches nothing is left of the
last one), `Accounted` (counters, tasks in hand and tasks still to be described add up to those
listed; finite cardinalities enter here, from `FiniteSetTheorems`) and `CleanSoFar` (as long as
the report is clean, a listed task that is wanted is still to be dealt with, or not expired).
`StopsAreJustified`, `ReportIsComplete` and `CleanReportsAreTrue` follow.

`RunsEnd` is about `ExpiredTaskStops`: a run ends, whatever goes on beside it. The calls of a run
have an order (`Nearer`): the listing, then a batch leaves the list, or a task leaves the batch, or
one more container of the current task is found without a session. It needs `SomeToDescribe`: no
empty batch is asked for. `ReapInvestigationsProofs` has a theorem of the same name, with the order of
that Lambda: an access point leaves the queue, or its stage advances, or one of its files is uploaded.
There it needs of `QueueIsOld` that the current access point is a queued one.

`ReapInvestigationsProofs` holds for any investigations, access points and tasks and any grace
period. `ReapInv` follows one access point through a run: `QueueIsOld` (what is queued has existed
and was older than the grace period), `BackupIsAhead` (a file of the directory that is not saved is
still to be uploaded, or the backup does not see it), `DirectoryFirst` (the directory is gone before the
access point, or has been brought back since) and `OnlyLateTasks` (who runs while the workspace is
removed came after the recheck). `NoFileIsLost`, `NoDirectoryIsOrphaned`, `TasksAreSpared` and
`GraceIsHonoured` follow, each with the excuse that its history variable records.

`CloseInvestigationProofs` holds for any number of operators at once and for IDs that clusters
share. What one command relies on is the state of tasks that others change, so `CloseInv` is a
conjunction per operator (`ChosenFits`, `StopsItsOwn`, `DefinitionsFit`, `AllToldToStop`, `AllAwaited`,
`NoneOverlooked`); `Onward` says how far others can move a task, and `BystanderKeeps` that this
harms no command that stands still. `TasksAreSpared` and `CommandStaysInside` follow. The assumptions
are `NoneAssumption`, `UnknownAssumption` (None is no access point and no investigation),
`IdAssumption` and `ClockAssumption` (types).

`TaskCommandsProofs` holds for any processes, tasks and command lines, and carries all safety
properties of its run. A step changes one process, its session, and at times the tasks or a
session that `clear` ends; `Fits` says what holds of these for each process, and `ProcessMoves`
that it is enough to show it for the one that has moved. Its parts follow a command through its
stages: `Named` (a task that was launched is told of), `ReportFits` (no stage that speaks of
success comes before the helper's), `AnswerFits` (the answer to a login is its own), `SessionFits`
(what the markers in the output say of the helper) and `TasksFit` (an invocation that is at work
knows every task that was lost, or the task is told to stop; an agent goes only with its task).
`Taken` says that what had its request or candidate written when a `clear` began is matched, in
the same task, and past its request once `clear` has gone through the requests; it is for
`CandidatesAreTaken`. The assumptions are `LineAssumption` (which options a command has) and
`AnswerAssumption` (a failed login is not mistaken for a process).

Its last section proves `TransfersDeliver`: `Spec => CredentialsDelivered`. The steps of the model
that are steps of the promise change `config` or `Phase`, and each has its lemma; of the others
`DeliveryStep` shows that they leave the mapped state alone, but for what the command says.
`HelperInv` is what they need beyond `CommandInv`: a helper does what its command is for, so that
only a clear has one that clears, and only clear keeps anything. A session lives only in a task
that is up, hence `Vanish` takes all that are under way.

`ConfigurationProofs` holds for any processes, deployments and files. `ConfigInvariant` follows one
process from `Load` to its end: `FileFits` (a file is torn, or holds settings of the right kinds),
`AtItsStage` (what each stage has chosen), `LoadedIsFile` (what was loaded is what the file holds
unless it has `moved` since), `Honours` (a preference that is invalid stops the command before
anything is used) and `Independent` (which values the discovery had a part in). `WholeInv` adds for
`OneDeployment` that every file, environment and command line is of one deployment. From them
follow `PreferencesAreHonoured`, `DiscoveriesAreIndependent`, `EnterIsIdempotent` and
`SettingsStayTogether`. The assumptions: `SettingsAssumption` (values and deployments are not None,
and which settings have defaults) and, for `SettingsStayTogether` only, `InteractiveIsPlain`: the
interactive configure is run without anything that overrides the file. It is a hypothesis of that
theorem because the code writes down what the flags and variables said, so that without it a file
of two deployments is what the user asked for; TLC evaluates it on the run's command lines. The proof of
`EnterIsIdempotent` failed at first for a reason: a file that is malformed when it is loaded, and
repaired by somebody before configure replaces it, is replaced by defaults. `EnterKeepsSettings`
now says that it is about files that could be loaded.

`EntrypointProofs` holds for any files and any number of signals: `ShellInv` says that a sync makes
progress (`CopyMakesProgress`), that without a signal there is one sync and nobody writes during it
(`QuietCopy`), and that as long as nothing was copied a signal is still due (`NothingCopied`).
`ExitIsAudited` follows: what is missing after an exit has one of the excuses of `AuditOnExit`.
`ShellRunsOut` is about `SignalEnds`: `StepsLeft` counts the steps that the shell has ahead of it and
the interruptions still to come, each of which makes it run the cleanup again; every step of the shell
decreases it, and no file, upload, write or signal increases it. Types and `FileAssumption` are
all it needs.

Every inductive invariant was checked by TLC before it was proved, and every safety and action
property of a passing run is a theorem as well. Only model-checked are the liveness properties
(`EveryRequestAnswered`, `ExpiredTaskStops`, `StaleInvestigationReclaimed`, `EveryCommandEnds`,
`SignalEnds`) and the two violations. Liveness under fairness is outside the reach of the prover that
is used, as is induction over data. Of the first of these the theorems hold the part that is about
single steps: `RequestsEnd`, `CommandsRunOut`, `ShellRunsOut` and the two `RunsEnd` give each loop a
well-founded order that its own steps descend and that nobody else's raise. TLC checked each of
them before it was proved; all but `CallsRunOut` are theorems only, to keep the runs short.

## 5. What is not modelled, and the plan

In this order:

1. `Naming`: identifiers as sequences, families and prefixes with their hyphens, for the two
   places that match them; `Admission`: the decision ladder of the create-investigation handler,
   with its task timeout of 0, which the client drops.
2. `Lifecycle`: the reaper and close-investigation at work on one `Workspace`.

Left out for good: Terraform (its timeouts and schedules are constants of the models), the task
definition as a document (only its success and its family matter to what is modelled), OCM
environments and the request as JSON (a lookup whose failure ends the command before it has done
anything), the list commands and output, the image build and developer scripts, LocalStack
endpoints, IAM and SSM themselves, cryptography.
