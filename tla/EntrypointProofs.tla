--------------------------- MODULE EntrypointProofs ---------------------------
(***************************************************************************)
(* Theorems about Entrypoint, for any files, whoever writes them, and any  *)
(* number of signals.                                                      *)
(***************************************************************************)
EXTENDS Entrypoint, TLAPS

\* What a sync has not copied is still to be looked at, or was written since it began.
CopyMakesProgress ==
  /\ sync = "running" => dirty \subseteq late \cup walk
  /\ sync = "complete" => dirty \subseteq late

\* Without a signal the only sync is that of a normal exit, when the workload writes no more.
QuietCopy ==
  signals = 0 =>
    /\ ~pending /\ shell # "trapSync"
    /\ sync # "none" => shell # "setup" /\ workload = "ok"
    /\ sync \in {"running", "complete"} => late \cap Workload = {}

\* As long as nothing has been copied, a signal is a trap that is due, and the shell is in no
\* part of the code that comes after a sync.
NothingCopied ==
  sync = "none" =>
    /\ shell \notin {"exitSync", "trapSync"}
    /\ Up /\ signals > 0 => pending
    /\ shell = "exited" /\ workload # "none" => workload = "error" /\ signals = 0

ShellInv ==
  /\ TypeOK
  /\ shell = "setup" => workload = "none"
  /\ CopyMakesProgress /\ QuietCopy /\ NothingCopied

LEMMA InitShell == Init => ShellInv
<1>. SUFFICES ASSUME Init PROVE ShellInv
  OBVIOUS
<1>1. TypeOK
  <2>1. signals \in 0..MaxSignal
    BY FileAssumption DEF Init
  <2>. QED BY <2>1 DEF Init, TypeOK
<1>2. CopyMakesProgress
  BY DEF Init, CopyMakesProgress
<1>3. QuietCopy /\ NothingCopied
  BY DEF Init, QuietCopy, NothingCopied, Up
<1>. QED BY <1>1, <1>2, <1>3 DEF Init, ShellInv

\* The steps that begin a sync.
LEMMA BeginKeeps ==
  ASSUME ShellInv, BeginSync, shell' \in {"exitSync", "trapSync"}, signals' = signals,
         UNCHANGED <<configured, workload>>, pending' \in BOOLEAN, ~pending',
         shell' = "exitSync" => workload = "ok",
         shell' = "trapSync" => signals > 0
  PROVE  ShellInv'
<1>1. TypeOK'
  BY DEF BeginSync, ShellInv, TypeOK
<1>2. CopyMakesProgress'
  BY DEF BeginSync, ShellInv, TypeOK, CopyMakesProgress
<1>3. QuietCopy'
  BY FileAssumption DEF BeginSync, ShellInv, TypeOK, QuietCopy
<1>4. NothingCopied'
  BY DEF BeginSync, ShellInv, NothingCopied
<1>. QED BY <1>1, <1>2, <1>3, <1>4 DEF ShellInv

\* The steps of the shell that leave the files alone.
LEMMA ShellKeeps ==
  ASSUME ShellInv, UNCHANGED fileVars, UNCHANGED <<configured, signals, pending>>,
         \/ SetupFails \/ StartWorkload \/ ExitNormally \/ Terminate
         \/ WaitReturns /\ workload = "error"
  PROVE  ShellInv'
<1>. USE DEF fileVars, Up
<1>1. /\ shell' \in {"wait", "exited"} /\ workload' \in {"none", "running", "ok", "error"}
      /\ workload' = workload \/ (shell = "setup" /\ shell' = "wait")
      /\ shell' = "exited" /\ sync = "none" /\ workload # "none" => workload = "error" /\ ~pending
  BY DEF ShellInv, TypeOK, NothingCopied, SetupFails, StartWorkload, ExitNormally, Terminate, WaitReturns
<1>2. Up
  BY DEF SetupFails, StartWorkload, ExitNormally, Terminate, WaitReturns
<1>3. TypeOK'
  BY <1>1 DEF ShellInv, TypeOK
<1>4. CopyMakesProgress'
  BY DEF ShellInv, CopyMakesProgress
<1>5. QuietCopy'
  BY <1>1 DEF ShellInv, QuietCopy
<1>6. NothingCopied'
  BY <1>1, <1>2 DEF ShellInv, NothingCopied, TypeOK, StartWorkload, SetupFails, ExitNormally, Terminate, WaitReturns
<1>. QED BY <1>1, <1>3, <1>4, <1>5, <1>6 DEF ShellInv

LEMMA StepKeeps == ShellInv /\ [Next]_vars => ShellInv'
<1>. SUFFICES ASSUME ShellInv, [Next]_vars PROVE ShellInv'
  OBVIOUS
<1>1. CASE SetupFails
  BY <1>1, ShellKeeps DEF SetupFails, fileVars
<1>2. CASE StartWorkload
  BY <1>2, ShellKeeps DEF StartWorkload, fileVars
<1>3. CASE WaitReturns
  <2>1. CASE workload = "ok"
    BY <1>3, <2>1, BeginKeeps DEF WaitReturns, ShellInv, TypeOK
  <2>2. CASE workload = "error"
    BY <1>3, <2>2, ShellKeeps DEF WaitReturns, fileVars
  <2>. QED BY <1>3, <2>1, <2>2 DEF WaitReturns
<1>4. CASE ExitNormally
  BY <1>4, ShellKeeps DEF ExitNormally, fileVars
<1>5. CASE Trap
  <2>1. signals > 0
    BY <1>5 DEF Trap, ShellInv, QuietCopy, TypeOK
  <2>. QED BY <1>5, <2>1, BeginKeeps DEF Trap, ShellInv
<1>6. CASE Terminate
  BY <1>6, ShellKeeps DEF Terminate, fileVars
<1>7. CASE CutSync \/ CompleteSync
  BY <1>7 DEF CutSync, CompleteSync, ShellInv, TypeOK, CopyMakesProgress, QuietCopy, NothingCopied, Up
<1>8. CASE WorkloadEnds
  BY <1>8 DEF WorkloadEnds, fileVars, ShellInv, TypeOK, CopyMakesProgress, QuietCopy, NothingCopied, Up
<1>9. CASE Signal
  BY <1>9, FileAssumption DEF Signal, fileVars, ShellInv, TypeOK, CopyMakesProgress, QuietCopy, NothingCopied, Up
<1>10. CASE Kill
  BY <1>10 DEF Kill, fileVars, ShellInv, TypeOK, CopyMakesProgress, QuietCopy, NothingCopied, Up
<1>11. CASE \E f \in File : Upload(f)
  BY <1>11 DEF Upload, ShellInv, TypeOK, CopyMakesProgress, QuietCopy, NothingCopied, Up
<1>12. CASE \E f \in File : Write(f)
  BY <1>12 DEF Write, ShellInv, TypeOK, CopyMakesProgress, QuietCopy, NothingCopied, Up
<1>13. CASE UNCHANGED vars
  BY <1>13 DEF vars, ShellInv, TypeOK, CopyMakesProgress, QuietCopy, NothingCopied, Up
<1>. QED
  BY <1>1, <1>2, <1>3, <1>4, <1>5, <1>6, <1>7, <1>8, <1>9, <1>10, <1>11, <1>12, <1>13 DEF Next, Shell

THEOREM ShellInvariant == Spec => []ShellInv
<1>. QED BY InitShell, StepKeeps, PTL DEF Spec

\* What is missing in the audit bucket after an exit has its excuse, for any number of files,
\* signals and sessions.
THEOREM ExitIsAudited == Spec => []AuditOnExit
<1>1. ShellInv => AuditOnExit
  BY DEF ShellInv, TypeOK, CopyMakesProgress, QuietCopy, NothingCopied, AuditOnExit
<1>. QED BY <1>1, ShellInvariant, PTL

-----------------------------------------------------------------------------
(* The shell runs out of steps.  SignalEnds needs that, and fairness. *)

\* Each stage ends at most one sync and begins at most one.
Ahead ==
  (CASE shell = "setup" -> 4 [] shell = "wait" -> 3 [] OTHER -> 1)
    + (IF sync = "running" THEN 1 ELSE 0)

\* A signal that is still to come, or is pending, is one more run of cleanup.
StepsLeft ==
  IF Up THEN 2 * (MaxSignal - signals + IF pending THEN 1 ELSE 0) + Ahead ELSE 0

\* Whatever the shell or its timeout does, less is left to do; and nothing else, neither a
\* signal nor a file that is written or copied, leaves it more.
StepsRunOut ==
  [][/\ StepsLeft' \in Nat /\ StepsLeft' <= StepsLeft
     /\ Shell => StepsLeft' < StepsLeft]_vars

LEMMA StepsAreCounted == ShellInv => Ahead \in 1..5 /\ StepsLeft \in Nat
<1>. SUFFICES ASSUME ShellInv PROVE Ahead \in 1..5 /\ StepsLeft \in Nat
  OBVIOUS
<1>1. Ahead \in 1..5
  BY DEF Ahead
<1>2. MaxSignal - signals \in Nat
  BY FileAssumption DEF ShellInv, TypeOK
<1>. QED BY <1>1, <1>2 DEF StepsLeft

\* After the last signal the shell makes a bounded number of steps, whatever hangs and whoever
\* writes: a sync that is interrupted begins again once for each signal.
THEOREM ShellRunsOut == Spec => StepsRunOut
<1>1. ASSUME ShellInv, ShellInv', Shell PROVE StepsLeft' < StepsLeft
  <2>1. /\ Ahead \in 1..5 /\ Ahead' \in 1..5 /\ MaxSignal - signals \in Nat
        /\ pending \in BOOLEAN
    BY <1>1, FileAssumption DEF Ahead, ShellInv, TypeOK
  <2>2. CASE SetupFails \/ ExitNormally \/ Terminate
    <3>1. Up /\ ~Up'
      BY <2>2 DEF SetupFails, ExitNormally, Terminate, Up
    <3>. QED BY <2>1, <3>1 DEF StepsLeft
  <2>3. CASE StartWorkload \/ CutSync \/ CompleteSync
    <3>1. Up /\ Up' /\ signals' = signals /\ pending' = pending
      BY <2>3 DEF StartWorkload, CutSync, CompleteSync, Up
    <3>2. Ahead' < Ahead
      BY <2>3 DEF StartWorkload, CutSync, CompleteSync, fileVars, Ahead
    <3>. QED BY <2>1, <3>1, <3>2 DEF StepsLeft
  <2>4. CASE WaitReturns
    <3>1. Up /\ signals' = signals /\ pending' = pending
      BY <2>4 DEF WaitReturns, Up
    <3>2. Ahead' < Ahead \/ ~Up'
      BY <2>4 DEF WaitReturns, Up, Ahead
    <3>. QED BY <2>1, <3>1, <3>2 DEF StepsLeft
  <2>5. CASE Trap
    <3>1. Up /\ Up' /\ signals' = signals /\ pending /\ ~pending'
      BY <2>5 DEF Trap, Up
    <3>2. Ahead' <= Ahead + 1
      BY <2>5 DEF Trap, Ahead
    <3>. QED BY <2>1, <3>1, <3>2 DEF StepsLeft
  <2>. QED BY <1>1, <2>2, <2>3, <2>4, <2>5 DEF Shell
<1>2. ASSUME ShellInv, ShellInv', Next PROVE StepsLeft' \in Nat /\ StepsLeft' <= StepsLeft
  <2>1. StepsLeft \in Nat /\ StepsLeft' \in Nat
    <3>1. Ahead' \in 1..5 /\ (MaxSignal - signals') \in Nat
      BY <1>2, FileAssumption DEF Ahead, ShellInv, TypeOK
    <3>. QED BY <1>2, <3>1, StepsAreCounted DEF StepsLeft
  <2>2. Ahead \in 1..5 /\ MaxSignal - signals \in Nat
    BY <1>2, StepsAreCounted, FileAssumption DEF ShellInv, TypeOK
  <2>3. CASE WorkloadEnds \/ \E f \in File : Upload(f) \/ Write(f)
    <3>1. /\ Up' = Up /\ Ahead' = Ahead
          /\ signals' = signals /\ pending' = pending
      BY <2>3 DEF WorkloadEnds, Upload, Write, fileVars, Up, Ahead
    <3>. QED BY <2>1, <3>1 DEF StepsLeft
  <2>4. CASE Signal
    <3>1. /\ Up /\ Up' /\ Ahead' = Ahead
          /\ signals' = signals + 1 /\ pending'
      BY <2>4 DEF Signal, fileVars, Up, Ahead
    <3>. QED BY <1>2, <2>2, <3>1, FileAssumption DEF StepsLeft, ShellInv, TypeOK
  <2>5. CASE Kill
    <3>1. ~Up'
      BY <2>5 DEF Kill, Up
    <3>. QED BY <2>1, <3>1 DEF StepsLeft
  <2>. QED BY <1>1, <1>2, <2>1, <2>3, <2>4, <2>5 DEF Next
<1>3. ShellInv /\ ShellInv' /\ [Next]_vars =>
        [/\ StepsLeft' \in Nat /\ StepsLeft' <= StepsLeft
         /\ Shell => StepsLeft' < StepsLeft]_vars
  BY <1>1, <1>2
<1>. QED BY <1>3, ShellInvariant, PTL DEF Spec, StepsRunOut

=============================================================================
