------------------------------ MODULE Entrypoint ------------------------------
(***************************************************************************)
(* The shell that runs a task's container, entrypoint.sh: it prepares the  *)
(* container, starts the workload in the background, waits for it, and     *)
(* copies the home directory to the audit bucket when the workload ends or *)
(* a signal arrives.                                                       *)
(*                                                                         *)
(* Bash runs a trap when the foreground command has ended; wait it leaves  *)
(* at once.  A trap that is due comes before set -e.  The workload and the *)
(* sessions of ECS Exec write files as long as the container runs; when    *)
(* the shell ends, it is over for all of them.                             *)
(***************************************************************************)
EXTENDS Naturals

CONSTANTS File,     \* files of the home directory; each has one writer
          Workload, \* those that the workload writes, the others being of sessions
          MaxSignal

ASSUME FileAssumption == Workload \subseteq File /\ MaxSignal \in Nat

VARIABLES
  configured, \* the audit bucket is configured
  shell,      \* where main or cleanup stands
  workload,   \* the background process
  signals,    \* signals received
  pending,    \* a trap is due
  walk,       \* files that the running sync has still to look at
  sync,       \* what has become of the latest sync
  dirty,      \* files of which the bucket does not hold the latest content
  late        \* history: files written since the latest sync began

vars == <<configured, shell, workload, signals, pending, walk, sync, dirty, late>>
fileVars == <<walk, sync, dirty, late>>

TypeOK ==
  /\ configured \in BOOLEAN
  /\ shell \in {"setup", "wait", "exitSync", "trapSync", "exited", "killed"}
  /\ workload \in {"none", "running", "ok", "error"}
  /\ signals \in 0..MaxSignal
  /\ pending \in BOOLEAN
  /\ walk \in SUBSET File /\ dirty \in SUBSET File /\ late \in SUBSET File
  /\ sync \in {"none", "running", "complete", "cut", "skipped"}

\* The home directory may hold the files of earlier tasks.
Init ==
  /\ configured \in BOOLEAN
  /\ shell = "setup" /\ workload = "none"
  /\ signals = 0 /\ pending = FALSE
  /\ walk = {} /\ sync = "none" /\ dirty \in SUBSET File /\ late = {}

Up == shell \notin {"exited", "killed"}

-----------------------------------------------------------------------------
(* sync_to_s3. *)

BeginSync ==
  IF configured
  THEN walk' = File /\ sync' = "running" /\ late' = {} /\ UNCHANGED dirty
  ELSE sync' = "skipped" /\ UNCHANGED <<walk, dirty, late>>

\* aws s3 sync takes a file.  Nothing says that it ever does.
Upload(f) ==
  /\ Up /\ sync = "running" /\ f \in walk
  /\ walk' = walk \ {f} /\ dirty' = dirty \ {f}
  /\ UNCHANGED <<configured, shell, workload, signals, pending, sync, late>>

\* Fault: the sync has no timeout.
MutCutSync == FALSE

\* It fails, or runs out of its SYNC_TIMEOUT: only a warning.
CutSync ==
  /\ Up /\ sync = "running"
  /\ sync' = "cut"
  /\ UNCHANGED <<configured, shell, workload, signals, pending, walk, dirty, late>>

CompleteSync ==
  /\ Up /\ sync = "running" /\ walk = {}
  /\ sync' = "complete"
  /\ UNCHANGED <<configured, shell, workload, signals, pending, walk, dirty, late>>

-----------------------------------------------------------------------------
(* main. *)

\* A setup command fails: set -e ends the shell.  verify_credential_mounts fails on a
\* credential path that is no mount of the task.
SetupFails ==
  /\ shell = "setup" /\ ~pending
  /\ shell' = "exited"
  /\ UNCHANGED <<configured, workload, signals, pending>> /\ UNCHANGED fileVars

StartWorkload ==
  /\ shell = "setup" /\ ~pending
  /\ shell' = "wait" /\ workload' = "running"
  /\ UNCHANGED <<configured, signals, pending>> /\ UNCHANGED fileVars

\* Fault: the home directory is copied while the workload still runs.
MutWaitReturns ==
  /\ shell = "wait" /\ ~pending /\ workload # "error"
  /\ shell' = "exitSync"
  /\ BeginSync
  /\ UNCHANGED <<configured, workload, signals, pending>>

\* wait returns the status of the workload; under set -e a status other than 0 ends the
\* shell right here, before the sync.
WaitReturns ==
  /\ shell = "wait" /\ ~pending
  /\ \/ /\ workload = "ok"
        /\ shell' = "exitSync"
        /\ BeginSync
     \/ /\ workload = "error"
        /\ shell' = "exited"
        /\ UNCHANGED fileVars
  /\ UNCHANGED <<configured, workload, signals, pending>>

\* exit ${EXIT_CODE}
ExitNormally ==
  /\ shell = "exitSync" /\ sync # "running" /\ ~pending
  /\ shell' = "exited"
  /\ UNCHANGED <<configured, workload, signals, pending>> /\ UNCHANGED fileVars

-----------------------------------------------------------------------------
(* cleanup. *)

\* The trap is run, also within itself: cleanup begins with its own sync.
Trap ==
  /\ Up /\ pending /\ sync # "running"
  /\ pending' = FALSE
  /\ shell' = "trapSync"
  /\ BeginSync
  /\ UNCHANGED <<configured, workload, signals>>

\* The child is told to terminate, and the shell exits without waiting for it.
Terminate ==
  /\ shell = "trapSync" /\ sync # "running" /\ ~pending
  /\ shell' = "exited"
  /\ UNCHANGED <<configured, workload, signals, pending>> /\ UNCHANGED fileVars

-----------------------------------------------------------------------------
(* The container. *)

WorkloadEnds ==
  /\ Up /\ workload = "running"
  /\ workload' \in {"ok", "error"}
  /\ UNCHANGED <<configured, shell, signals, pending>> /\ UNCHANGED fileVars

\* The workload writes as long as it runs, a session at any time.
Write(f) ==
  /\ Up /\ (f \in Workload => workload = "running")
  /\ dirty' = dirty \cup {f} /\ late' = late \cup {f}
  /\ UNCHANGED <<configured, shell, workload, signals, pending, walk, sync>>

\* SIGTERM of ECS, or SIGINT or SIGHUP.
Signal ==
  /\ Up /\ signals < MaxSignal
  /\ signals' = signals + 1 /\ pending' = TRUE
  /\ UNCHANGED <<configured, shell, workload>> /\ UNCHANGED fileVars

\* The stopTimeout of 120 seconds, which is shorter than the SYNC_TIMEOUT of 300.
Kill ==
  /\ Up /\ signals > 0
  /\ shell' = "killed"
  /\ UNCHANGED <<configured, workload, signals, pending>> /\ UNCHANGED fileVars

\* What the shell does, and timeout for it.
Shell ==
  \/ SetupFails \/ StartWorkload \/ WaitReturns \/ ExitNormally \/ Trap \/ Terminate
  \/ CutSync \/ CompleteSync

Next ==
  \/ Shell \/ WorkloadEnds \/ Signal \/ Kill
  \/ \E f \in File : Upload(f) \/ Write(f)

\* The shell goes on; nothing is assumed of the workload, the upload or ECS.
Spec == Init /\ [][Next]_vars /\ WF_vars(Shell)

-----------------------------------------------------------------------------
(* Properties. *)

\* "Sync on normal exit too" (entrypoint.sh:176), and on a signal: a container that ends by
\* itself after its workload was started has tried to copy the home directory, or to say
\* that no bucket is configured, unless the workload failed by itself.  Whatever is missing
\* after a complete copy was written after it had begun, and by the workload only if it was
\* interrupted: sessions go on during the copy, and a signal does not end the workload
\* before it.
AuditOnExit ==
  shell = "exited" /\ workload # "none" =>
    /\ sync = "none" => workload = "error" /\ signals = 0
    /\ sync = "complete" => dirty \subseteq late
    /\ sync = "complete" /\ dirty \cap Workload # {} => signals > 0

\* A signal ends the container although the upload hangs or the setup is not over, and
\* although the kill of ECS may never come (entrypoint.sh:21).
SignalEnds == pending ~> ~Up

=============================================================================
