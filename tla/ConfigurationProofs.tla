------------------------ MODULE ConfigurationProofs ------------------------
(***************************************************************************)
(* Theorems about Configuration, for any processes, deployments, settings  *)
(* and command lines.  A step of a process changes its own state and the   *)
(* file; all that it does to the others is to set their flag moved.  So an *)
(* invariant is a predicate of one process and the file (Sound, Whole),    *)
(* and ProcessMoves says that it is enough to show it for the one that     *)
(* has moved.                                                              *)
(***************************************************************************)
EXTENDS Configuration, TLAPS

\* A file that is not there states nothing.
FileFits(f) == f.kind = "missing" => f.device = "absent"

\* The process is at a stage of the command it was run with.
AtItsStage(r) ==
  /\ r.pc # "idle" => r.line \in Line
  /\ r.pc \in {"prompt", "discover", "truncate", "write"} => Configures(r.line)
  /\ r.pc = "prompt" => r.line.cmd = "interactive"
  /\ r.pc = "discover" => r.line.cmd = "auto"
  /\ r.pc = "authenticated" => ~Configures(r.line)

\* What Load has read is the file, until that changes.
LoadedIsFile(r, f) == r.pc \notin {"idle", "write"} /\ ~r.moved => r.loaded = f

\* PreferenceHonoured for one process.
Honours(r) ==
  /\ r.pc = "authenticated"
  /\ ~(r.moved /\ (r.loaded.kind = "malformed" \/ r.loaded.device = "null"))
  /\ r.loaded.kind # "malformed" \/ r.line.deviceFlag # "unset"
  => (IF r.device THEN "true" ELSE "false") \in Stated(r.line, r.loaded)

\* DiscoveryIsIndependent for one process.
Independent(r) ==
  r.pc \in {"truncate", "write"} /\ r.line.cmd = "auto" => r.draft.key = Settings[r.target]

\* What interactive configure shows is what the line finds, and what enter writes finds it again.
ShowsAndKeeps(r) ==
  r.pc \in {"prompt", "truncate", "write"} /\ r.line.cmd = "interactive" /\ r.valid =>
    /\ r.settings = Effective(r.line, r.loaded)
    /\ r.pc # "prompt" /\ r.loaded.kind # "malformed" /\ r.target = None
         => Effective(r.line, r.draft) = r.settings

Sound(r, f) ==
  /\ FileFits(r.loaded) /\ FileFits(r.draft)
  /\ AtItsStage(r)
  /\ LoadedIsFile(r, f)
  /\ Honours(r)
  /\ Independent(r)
  /\ ShowsAndKeeps(r)

ConfigInv ==
  /\ TypeOK
  /\ FileFits(file)
  /\ \A p \in Process : Sound(proc[p], file)

-----------------------------------------------------------------------------
(* Operators. *)

LEMMA NothingIsSome == Nothing \in Some /\ Default \in Some
BY SettingsAssumption DEF Nothing, Some

LEMMA SettingsAreSome ==
  ASSUME NEW d \in Deployment
  PROVE  Settings[d] \in Some /\ \A k \in Key : Settings[d][k] # None
BY SettingsAssumption DEF Some

LEMMA LinesAreTyped == ASSUME NEW line \in Line PROVE line \in CommandLine
BY SettingsAssumption

\* A draft and the files that a process may find are files.
LEMMA FilesAreTyped ==
  /\ \A key \in Some : \A v \in {"absent", "true", "false", "null", "quoted"} :
       Yaml(key, v) \in File /\ FileFits(Yaml(key, v))
  /\ {Empty, Missing, Malformed} \subseteq File
  /\ FileFits(Empty) /\ FileFits(Missing) /\ FileFits(Malformed)
BY NothingIsSome DEF File, Yaml, Empty, Missing, Malformed, FileFits

\* The settings of a command are settings, whatever the file.
LEMMA EffectiveIsSome ==
  ASSUME NEW line \in Line, NEW f \in File
  PROVE  Effective(line, f) \in Some
<1>1. line.flag \in Some /\ line.env \in Some /\ line.alias \in Some /\ f.key \in Some
  BY LinesAreTyped DEF CommandLine, File
<1>. SUFFICES ASSUME NEW k \in Key PROVE Effective(line, f)[k] \in Value \cup {None}
  BY DEF Effective, Some
<1>2. Flag(line, k) \in Value \cup {None}
  BY <1>1 DEF Flag, Some
<1>3. Default[k] \in Value \cup {None} /\ Fallback(line, k) \in Value \cup {None}
  BY <1>1, NothingIsSome DEF Fallback, FirstOf, Some
<1>. QED BY <1>1, <1>2, <1>3 DEF Effective, FirstOf, Some

LEMMA PromptedIsSome ==
  ASSUME NEW settings \in Some
  PROVE  [k \in Key |-> Prompted(settings, k)] \in Some
BY NothingIsSome DEF Prompted, FirstOf, Some

\* Whatever is left out of the answer is what it would have said.
LEMMA FinalIsSettings ==
  ASSUME NEW p, NEW d \in Deployment, NEW answer, NEW oidc, NEW region, Answers(d, oidc, region)
  PROVE  Final(p, d, answer, oidc, region) = Settings[d]
<1>1. Settings[d] \in [Key -> Value]
  BY SettingsAssumption
<1>2. \A k \in Key : Final(p, d, answer, oidc, region)[k] = Settings[d][k]
  BY DEF Final, Answers
<1>. QED BY <1>1, <1>2 DEF Final

\* The preference that Get accepts is the one stated.
LEMMA AcceptedIsStated ==
  ASSUME NEW line \in Line, NEW loaded \in File, FileFits(loaded), NEW now \in File,
         GetSucceeds(line, loaded, now), ~Configures(line),
         loaded.kind # "malformed" \/ line.deviceFlag # "unset",
         loaded.device = "null" => now = loaded
  PROVE  (IF Preference(line, loaded) = "true" THEN "true" ELSE "false") \in Stated(line, loaded)
<1>1. /\ line.deviceFlag \in {"unset", "true", "false"}
      /\ line.deviceEnv \in {"unset", "empty", "true", "false", "junk"}
  BY LinesAreTyped DEF CommandLine
<1>2. /\ loaded.kind \in {"missing", "malformed", "yaml"}
      /\ loaded.device \in {"absent", "true", "false", "null", "quoted"}
  BY DEF File
<1>3. CASE line.deviceFlag # "unset"
  BY <1>1, <1>3 DEF Preference, Stated
<1>4. CASE line.deviceFlag = "unset" /\ line.deviceEnv # "unset"
  BY <1>1, <1>2, <1>4 DEF GetSucceeds, EmptyVariable, FlagOverrides, Preference, Stated
<1>5. CASE line.deviceFlag = "unset" /\ line.deviceEnv = "unset"
  <2>1. loaded.device # "null"
    BY <1>5 DEF GetSucceeds, Unreadable, FlagOverrides, FileFits
  <2>. QED BY <1>2, <1>5, <2>1 DEF GetSucceeds, Preference, Stated
<1>. QED BY <1>3, <1>4, <1>5

\* Enter writes what the line finds again.
LEMMA EnterFindsAgain ==
  ASSUME NEW line \in Line, NEW loaded \in File, loaded.kind # "malformed", NEW device,
         NEW draft, draft = Yaml([k \in Key |-> Prompted(Effective(line, loaded), k)], device)
  PROVE  Effective(line, draft) = Effective(line, loaded)
<1>1. draft.kind = "yaml" /\ \A k \in Key : draft.key[k] = Prompted(Effective(line, loaded), k)
  BY DEF Yaml
<1>2. \A k \in Key : Effective(line, draft)[k] = Effective(line, loaded)[k]
  BY <1>1 DEF Effective, Prompted, Fallback, FirstOf
<1>. QED BY <1>2 DEF Effective

-----------------------------------------------------------------------------
(* The steps. *)

\* A process that stands still while the file changes keeps its part.
LEMMA BystanderKeeps ==
  ASSUME NEW r \in ProcessState, NEW f, NEW g, Sound(r, f)
  PROVE  /\ Sound([r EXCEPT !.moved = TRUE], g)
         /\ [r EXCEPT !.moved = TRUE] \in ProcessState
<1>. PICK s : s = [r EXCEPT !.moved = TRUE]
  OBVIOUS
<1>1. /\ s \in ProcessState /\ s.moved = TRUE
      /\ s.pc = r.pc /\ s.line = r.line /\ s.loaded = r.loaded /\ s.settings = r.settings
      /\ s.device = r.device /\ s.valid = r.valid /\ s.draft = r.draft /\ s.target = r.target
  BY DEF ProcessState
<1>2. Sound(s, g)
  BY <1>1 DEF Sound, AtItsStage, LoadedIsFile, Honours, Independent, ShowsAndKeeps
<1>. QED BY <1>1, <1>2

\* It is enough to look at the process that has moved.
LEMMA ProcessMoves ==
  ASSUME ConfigInv, NEW p \in Process, NEW r \in ProcessState, Continue(p, r),
         file' \in File, FileFits(file'), Sound(r, file')
  PROVE  ConfigInv'
<1>1. ASSUME NEW q \in Process
      PROVE  proc'[q] \in ProcessState /\ Sound(proc'[q], file')
  <2>0. proc[q] \in ProcessState /\ Sound(proc[q], file)
    BY DEF ConfigInv, TypeOK
  <2>1. CASE q = p
    BY <2>1 DEF Continue
  <2>2. CASE q # p /\ proc'[q] = proc[q]
    <3>1. file' = file \/ proc[q].pc = "idle" \/ proc[q].moved
      <4>. SUFFICES ASSUME file' # file, proc[q].pc # "idle" PROVE proc[q].moved
        OBVIOUS
      <4>1. proc'[q] = [proc[q] EXCEPT !.moved = TRUE]
        BY <2>2 DEF Continue
      <4>2. proc'[q].moved = TRUE
        BY <4>1, <2>0 DEF ProcessState
      <4>. QED BY <4>2, <2>2
    <3>. QED BY <2>0, <2>2, <3>1 DEF Sound, LoadedIsFile
  <2>3. CASE q # p /\ proc'[q] = [proc[q] EXCEPT !.moved = TRUE]
    BY <2>0, <2>3, BystanderKeeps
  <2>. QED BY <2>1, <2>2, <2>3 DEF Continue
<1>2. proc' \in [Process -> ProcessState]
  BY <1>1 DEF Continue
<1>. QED BY <1>1, <1>2 DEF ConfigInv, TypeOK

LEMMA IdleIsSound == Idle \in ProcessState /\ \A f : Sound(Idle, f)
<1>1. Idle \in ProcessState
  BY FilesAreTyped, NothingIsSome DEF Idle, ProcessState
<1>2. \A f : Sound(Idle, f)
  BY FilesAreTyped DEF Idle, Sound, AtItsStage, LoadedIsFile, Honours, Independent, ShowsAndKeeps
<1>. QED BY <1>1, <1>2

LEMMA ConfigStart == Init => ConfigInv
<1>. SUFFICES ASSUME Init PROVE ConfigInv
  OBVIOUS
<1>1. file \in File /\ FileFits(file)
  BY FilesAreTyped, SettingsAreSome DEF Init
<1>. QED BY <1>1, IdleIsSound DEF Init, ConfigInv, TypeOK

LEMMA EndKeeps ==
  ASSUME ConfigInv, NEW p \in Process, End(p), file' \in File, FileFits(file')
  PROVE  ConfigInv'
BY ProcessMoves, IdleIsSound DEF End

LEMMA BeginKeeps == ASSUME ConfigInv, NEW p \in Process, Begin(p) PROVE ConfigInv'
<1>0. file' = file /\ file \in File /\ FileFits(file)
  BY DEF Begin, ConfigInv, TypeOK
<1>. PICK line \in Line :
       Continue(p, [Idle EXCEPT !.pc = "loaded", !.line = line, !.loaded = file])
  BY DEF Begin
<1>. PICK r : r = [Idle EXCEPT !.pc = "loaded", !.line = line, !.loaded = file]
  OBVIOUS
<1>1. r \in ProcessState
  BY <1>0, IdleIsSound DEF ProcessState
<1>2. /\ r.pc = "loaded" /\ r.line = line /\ r.loaded = file /\ r.draft = Empty
  BY DEF Idle
<1>3. Sound(r, file')
  BY <1>0, <1>2, FilesAreTyped
     DEF Sound, AtItsStage, LoadedIsFile, Honours, Independent, ShowsAndKeeps
<1>. QED BY <1>0, <1>1, <1>3, ProcessMoves

LEMMA GetConfigKeeps == ASSUME ConfigInv, NEW p \in Process, GetConfig(p) PROVE ConfigInv'
<1>0. /\ file' = file /\ file \in File /\ FileFits(file)
      /\ proc[p] \in ProcessState /\ Sound(proc[p], file)
      /\ proc[p].pc = "loaded" /\ ~Configures(proc[p].line)
  BY DEF GetConfig, ConfigInv, TypeOK
<1>. PICK r : r = [proc[p] EXCEPT !.settings = Effective(proc[p].line, proc[p].loaded),
                                  !.valid = TRUE,
                                  !.device = Preference(proc[p].line, proc[p].loaded) = "true",
                                  !.pc = "authenticated"]
  OBVIOUS
<1>1. proc[p].line \in Line /\ proc[p].loaded \in File /\ FileFits(proc[p].loaded)
  BY <1>0 DEF Sound, AtItsStage, ProcessState
<1>2. r \in ProcessState
  <2>1. Effective(proc[p].line, proc[p].loaded) \in Some
    BY <1>1, EffectiveIsSome
  <2>2. (Preference(proc[p].line, proc[p].loaded) = "true") \in BOOLEAN
    OBVIOUS
  <2>. QED BY <1>0, <2>1, <2>2 DEF ProcessState
<1>3. /\ r.pc = "authenticated" /\ r.line = proc[p].line /\ r.loaded = proc[p].loaded
      /\ r.draft = proc[p].draft /\ r.moved = proc[p].moved
      /\ r.device = (Preference(proc[p].line, proc[p].loaded) = "true")
  BY <1>0 DEF ProcessState
<1>4. CASE GetSucceeds(proc[p].line, proc[p].loaded, file) /\ Continue(p, r)
  <2>1. Honours(r)
    <3>. SUFFICES ASSUME ~(r.moved /\ r.loaded.device = "null"),
                         r.loaded.kind # "malformed" \/ r.line.deviceFlag # "unset"
                  PROVE  (IF r.device THEN "true" ELSE "false") \in Stated(r.line, r.loaded)
      BY DEF Honours
    <3>1. r.loaded.device = "null" => file = r.loaded
      BY <1>0, <1>3 DEF Sound, LoadedIsFile
    <3>2. (IF Preference(r.line, r.loaded) = "true" THEN "true" ELSE "false")
             \in Stated(r.line, r.loaded)
      BY <1>0, <1>1, <1>3, <1>4, <3>1, AcceptedIsStated
    <3>. QED BY <1>3, <3>2
  <2>2. Sound(r, file')
    BY <1>0, <1>1, <1>3, <2>1
       DEF Sound, AtItsStage, LoadedIsFile, Independent, ShowsAndKeeps
  <2>. QED BY <1>0, <1>2, <1>4, <2>2, ProcessMoves
<1>5. CASE End(p)
  BY <1>0, <1>5, EndKeeps
<1>. QED BY <1>4, <1>5 DEF GetConfig

LEMMA StartConfigureKeeps ==
  ASSUME ConfigInv, NEW p \in Process, StartConfigure(p) PROVE ConfigInv'
<1>0. /\ file' = file /\ file \in File /\ FileFits(file)
      /\ proc[p] \in ProcessState /\ Sound(proc[p], file)
      /\ proc[p].pc = "loaded" /\ Configures(proc[p].line)
  BY DEF StartConfigure, ConfigInv, TypeOK
<1>. PICK valid : valid = GetSucceeds(proc[p].line, proc[p].loaded, file)
  OBVIOUS
<1>. PICK settings :
       settings = IF valid THEN Effective(proc[p].line, proc[p].loaded) ELSE Nothing
  OBVIOUS
<1>. PICK r : r = [proc[p] EXCEPT
                     !.pc = IF proc[p].line.cmd = "auto" THEN "discover" ELSE "prompt",
                     !.valid = valid, !.settings = settings]
  OBVIOUS
<1>1. proc[p].line \in Line /\ proc[p].loaded \in File
  BY <1>0 DEF Sound, AtItsStage, ProcessState
<1>2. settings \in Some
  BY <1>1, EffectiveIsSome, NothingIsSome
<1>3. valid \in BOOLEAN
  BY DEF GetSucceeds
<1>4. r \in ProcessState
  BY <1>0, <1>2, <1>3 DEF ProcessState
<1>5. /\ r.pc = (IF proc[p].line.cmd = "auto" THEN "discover" ELSE "prompt")
      /\ r.line = proc[p].line /\ r.loaded = proc[p].loaded /\ r.draft = proc[p].draft
      /\ r.moved = proc[p].moved /\ r.valid = valid /\ r.settings = settings
  BY <1>0 DEF ProcessState
<1>6. Sound(r, file')
  BY <1>0, <1>1, <1>5
     DEF Sound, AtItsStage, Configures, LoadedIsFile, Honours, Independent, ShowsAndKeeps
<1>7. Continue(p, r)
  BY DEF StartConfigure
<1>. QED BY <1>0, <1>4, <1>6, <1>7, ProcessMoves

\* What enter or typing leads to, for any target and settings.
LEMMA DraftIsSound ==
  ASSUME ConfigInv, NEW p \in Process, proc[p].pc \in {"prompt", "discover"},
         NEW target \in Deployment \cup {None}, NEW key \in Some, NEW r,
         r = [proc[p] EXCEPT !.pc = "truncate", !.target = target,
                             !.draft = Yaml(key, ConfigureDeviceCode(proc[p].line))],
         proc[p].pc = "discover" => key = Settings[target],
         proc[p].pc = "prompt" /\ target = None =>
           key = [k \in Key |-> Prompted(proc[p].settings, k)]
  PROVE  r \in ProcessState /\ Sound(r, file)
<1>0. proc[p] \in ProcessState /\ Sound(proc[p], file)
  BY DEF ConfigInv, TypeOK
<1>. PICK draft : draft = Yaml(key, ConfigureDeviceCode(proc[p].line))
  OBVIOUS
<1>1. draft \in File /\ FileFits(draft) /\ draft.key = key
  BY FilesAreTyped DEF ConfigureDeviceCode, Yaml
<1>2. r \in ProcessState
  BY <1>0, <1>1 DEF ProcessState
<1>3. /\ r.pc = "truncate" /\ r.target = target /\ r.draft = draft /\ r.line = proc[p].line
      /\ r.loaded = proc[p].loaded /\ r.settings = proc[p].settings /\ r.valid = proc[p].valid
      /\ r.moved = proc[p].moved
  BY <1>0 DEF ProcessState
<1>4. proc[p].line \in Line /\ proc[p].loaded \in File
  BY <1>0 DEF Sound, AtItsStage, ProcessState
<1>5. Independent(r)
  BY <1>0, <1>1, <1>3 DEF Independent, Sound, AtItsStage
<1>6. ShowsAndKeeps(r)
  <2>. SUFFICES ASSUME r.line.cmd = "interactive", r.valid
                PROVE  /\ r.settings = Effective(r.line, r.loaded)
                       /\ r.loaded.kind # "malformed" /\ r.target = None
                            => Effective(r.line, r.draft) = r.settings
    BY DEF ShowsAndKeeps
  <2>1. proc[p].pc = "prompt" /\ r.settings = Effective(r.line, r.loaded)
    BY <1>0, <1>3 DEF Sound, AtItsStage, ShowsAndKeeps
  <2>2. ASSUME r.loaded.kind # "malformed", r.target = None
        PROVE  Effective(r.line, r.draft) = r.settings
    <3>1. draft = Yaml([k \in Key |-> Prompted(Effective(r.line, r.loaded), k)],
                       ConfigureDeviceCode(proc[p].line))
      BY <1>3, <2>1, <2>2
    <3>. QED BY <1>3, <1>4, <2>1, <2>2, <3>1, EnterFindsAgain
  <2>. QED BY <2>1, <2>2
<1>. QED BY <1>0, <1>1, <1>2, <1>3, <1>5, <1>6
          DEF Sound, AtItsStage, LoadedIsFile, Honours

LEMMA AnswerPromptsKeeps ==
  ASSUME ConfigInv, NEW p \in Process, AnswerPrompts(p) PROVE ConfigInv'
<1>0. /\ file' = file /\ file \in File /\ FileFits(file)
      /\ proc[p].pc = "prompt" /\ proc[p].settings \in Some
  BY DEF AnswerPrompts, ConfigInv, TypeOK, ProcessState
<1>. DEFINE Drafted(target, key) ==
       [proc[p] EXCEPT !.pc = "truncate", !.target = target,
                       !.draft = Yaml(key, ConfigureDeviceCode(proc[p].line))]
<1>1. PICK target \in Deployment \cup {None}, key \in Some :
        /\ Continue(p, Drafted(target, key))
        /\ target = None => key = [k \in Key |-> Prompted(proc[p].settings, k)]
  <2>1. CASE Continue(p, Drafted(None, [k \in Key |-> Prompted(proc[p].settings, k)]))
    BY <1>0, <2>1, PromptedIsSome
  <2>2. CASE \E d \in Deployment : Continue(p, Drafted(d, Settings[d]))
    <3>1. PICK d \in Deployment : Continue(p, Drafted(d, Settings[d]))
      BY <2>2
    <3>2. Settings[d] \in Some /\ d # None
      BY SettingsAreSome, SettingsAssumption
    <3>. QED BY <3>1, <3>2
  <2>. QED BY <2>1, <2>2 DEF AnswerPrompts
<1>. PICK r : r = Drafted(target, key)
  OBVIOUS
<1>2. r \in ProcessState /\ Sound(r, file)
  BY <1>0, <1>1, DraftIsSound
<1>. QED BY <1>0, <1>1, <1>2, ProcessMoves

LEMMA DiscoverKeeps == ASSUME ConfigInv, NEW p \in Process, Discover(p) PROVE ConfigInv'
<1>0. file' = file /\ file \in File /\ FileFits(file) /\ proc[p].pc = "discover"
  BY DEF Discover, ConfigInv, TypeOK
<1>. PICK d \in Deployment, answer \in SUBSET Key :
       \E region \in BootstrapRegion(p, d) :
         /\ Answers(d, BootstrapOIDC(proc[p].line), region)
         /\ Continue(p, [proc[p] EXCEPT !.pc = "truncate", !.target = d,
              !.draft = Yaml(Final(p, d, answer, BootstrapOIDC(proc[p].line), region),
                             ConfigureDeviceCode(proc[p].line))])
  BY DEF Discover
<1>1. PICK region \in BootstrapRegion(p, d) :
        /\ Answers(d, BootstrapOIDC(proc[p].line), region)
        /\ Continue(p, [proc[p] EXCEPT !.pc = "truncate", !.target = d,
             !.draft = Yaml(Final(p, d, answer, BootstrapOIDC(proc[p].line), region),
                            ConfigureDeviceCode(proc[p].line))])
  OBVIOUS
<1>2. Final(p, d, answer, BootstrapOIDC(proc[p].line), region) = Settings[d]
  BY <1>1, FinalIsSettings
<1>. PICK r : r = [proc[p] EXCEPT !.pc = "truncate", !.target = d,
                     !.draft = Yaml(Settings[d], ConfigureDeviceCode(proc[p].line))]
  OBVIOUS
<1>3. r \in ProcessState /\ Sound(r, file)
  BY <1>0, SettingsAreSome, DraftIsSound
<1>. QED BY <1>0, <1>1, <1>2, <1>3, ProcessMoves

LEMMA TruncateKeeps == ASSUME ConfigInv, NEW p \in Process, Truncate(p) PROVE ConfigInv'
<1>0. proc[p] \in ProcessState /\ Sound(proc[p], file) /\ proc[p].pc = "truncate"
  BY DEF Truncate, ConfigInv, TypeOK
<1>. PICK r : r = [proc[p] EXCEPT !.pc = "write"]
  OBVIOUS
<1>1. /\ r \in ProcessState /\ r.pc = "write" /\ r.line = proc[p].line
      /\ r.loaded = proc[p].loaded /\ r.settings = proc[p].settings /\ r.valid = proc[p].valid
      /\ r.draft = proc[p].draft /\ r.target = proc[p].target
  BY <1>0 DEF ProcessState
<1>2. Sound(r, file')
  BY <1>0, <1>1 DEF Sound, AtItsStage, LoadedIsFile, Honours, Independent, ShowsAndKeeps
<1>. QED BY <1>1, <1>2, FilesAreTyped, ProcessMoves DEF Truncate

LEMMA WriteKeeps == ASSUME ConfigInv, NEW p \in Process, Write(p) PROVE ConfigInv'
<1>1. proc[p].draft \in File /\ FileFits(proc[p].draft)
  BY DEF ConfigInv, TypeOK, ProcessState, Sound
<1>2. file' \in File /\ FileFits(file')
  BY <1>1, FilesAreTyped DEF Write
<1>. QED BY <1>2, EndKeeps DEF Write

LEMMA ConfigStep == ConfigInv /\ [Next]_vars => ConfigInv'
<1>. SUFFICES ASSUME ConfigInv, [Next]_vars PROVE ConfigInv'
  OBVIOUS
<1>1. CASE UNCHANGED vars
  BY <1>1 DEF vars, ConfigInv, TypeOK
<1>2. ASSUME NEW p \in Process, Finish(p) PROVE ConfigInv'
  BY <1>2, EndKeeps DEF Finish, ConfigInv, TypeOK
<1>. QED BY <1>1, <1>2, BeginKeeps, GetConfigKeeps, StartConfigureKeeps, AnswerPromptsKeeps,
            DiscoverKeeps, TruncateKeeps, WriteKeeps DEF Next

THEOREM ConfigInvariant == Spec => []ConfigInv
BY ConfigStart, ConfigStep, PTL DEF Spec

\* The state of any number of commands beside each other keeps its types.
THEOREM TypeCorrect == Spec => []TypeOK
BY ConfigInvariant, PTL DEF ConfigInv

\* A command that authenticates uses the way to log in that was stated, and none whose
\* statement is no boolean does (config.go 145-166).
THEOREM PreferencesAreHonoured == Spec => []PreferenceHonoured
<1>1. ConfigInv => PreferenceHonoured
  BY DEF ConfigInv, Sound, Honours, PreferenceHonoured, Repaired
<1>. QED BY <1>1, ConfigInvariant, PTL

\* Auto-discovery drafts the settings of the deployment it was run for (configure.go 291-441).
THEOREM DiscoveriesAreIndependent == Spec => []DiscoveryIsIndependent
<1>1. ConfigInv => DiscoveryIsIndependent
  BY DEF ConfigInv, Sound, Independent, DiscoveryIsIndependent
<1>. QED BY <1>1, ConfigInvariant, PTL

\* Enter throughout writes what the same command line finds again (configure.go 471-590).
THEOREM EnterIsIdempotent == Spec => EnterKeepsSettings
<1>1. ASSUME ConfigInv, [Next]_vars, NEW p \in Process, proc[p].pc = "write",
             proc[p].line.cmd = "interactive", proc[p].valid, proc[p].target = None,
             proc[p].loaded.kind # "malformed", file' = proc[p].draft
      PROVE  Effective(proc[p].line, file') = proc[p].settings
  BY <1>1 DEF ConfigInv, Sound, ShowsAndKeeps
<1>2. ConfigInv /\ [Next]_vars =>
        [\A p \in Process :
           /\ proc[p].pc = "write" /\ proc[p].line.cmd = "interactive"
           /\ proc[p].valid /\ proc[p].loaded.kind # "malformed" /\ proc[p].target = None
           /\ file' = proc[p].draft /\ file' # file
           => Effective(proc[p].line, file') = proc[p].settings]_vars
  BY <1>1
<1>. QED BY <1>2, ConfigInvariant, PTL DEF Spec, EnterKeepsSettings

-----------------------------------------------------------------------------
(* Settings of one deployment. *)

\* The settings in a file are those of one deployment, or none, or the defaults.
WholeSettings == {Settings[d] : d \in Deployment} \cup {Nothing, Default}

Whole(r) ==
  /\ r.loaded.key \in WholeSettings
  /\ r.pc = "prompt" => r.settings \in WholeSettings
  /\ r.pc \in {"truncate", "write"} => r.draft.key \in WholeSettings
  /\ r.pc = "authenticated" /\ Plain(r.line) /\ r.line.cmd # "login" =>
       r.settings \in {Settings[d] : d \in Deployment}

WholeInv == file.key \in WholeSettings /\ \A p \in Process : Whole(proc[p])

\* A command that overrides nothing takes the settings of the file as a whole, with the
\* defaults where there are none.
LEMMA EffectiveIsWhole ==
  ASSUME NEW line \in Line, NEW f \in File, f.key \in WholeSettings,
         \A k \in Key : /\ Flag(line, k) = None /\ line.env[k] = None
                        /\ k \notin Defaulted => line.alias[k] = None
  PROVE  Effective(line, f) \in {Settings[d] : d \in Deployment} \cup {Default}
<1>1. \A k \in Key : Fallback(line, k) = Default[k]
  BY SettingsAssumption DEF Fallback, FirstOf
<1>2. \A k \in Key : Effective(line, f)[k] =
        IF f.kind = "malformed" THEN Default[k] ELSE FirstOf(f.key[k], Default[k])
  BY <1>1 DEF Effective, FirstOf
<1>3. Effective(line, f) \in Some /\ Default \in Some
  BY EffectiveIsSome, NothingIsSome
<1>4. CASE f.kind = "malformed" \/ f.key \in {Nothing, Default}
  <2>1. \A k \in Key : Effective(line, f)[k] = Default[k]
    BY <1>2, <1>4 DEF FirstOf, Nothing
  <2>. QED BY <1>3, <2>1 DEF Some
<1>5. ASSUME f.kind # "malformed", NEW d \in Deployment, f.key = Settings[d]
      PROVE  Effective(line, f) = Settings[d]
  <2>1. \A k \in Key : Effective(line, f)[k] = Settings[d][k]
    BY <1>2, <1>5, SettingsAreSome DEF FirstOf
  <2>. QED BY <1>3, <2>1, SettingsAreSome DEF Some
<1>. QED BY <1>4, <1>5 DEF WholeSettings

\* What a command that overrides nothing authenticates with is no mixture: the defaults lack
\* the roles.
LEMMA RoleNeedsDeployment ==
  ASSUME NEW line \in Line, NEW f \in File, f.key \in WholeSettings, Plain(line),
         ~Configures(line), line.cmd # "login", HasRole(line, Effective(line, f))
  PROVE  Effective(line, f) \in {Settings[d] : d \in Deployment}
<1>1. \A k \in Key : Flag(line, k) = None /\ line.env[k] = None /\ line.alias[k] = None
  BY DEF Plain, Flag, Nothing
<1>2. Default["invoker"] = None /\ Default["sre"] = None
  BY SettingsAssumption DEF Key, Defaulted
<1>3. Effective(line, f) # Default
  BY <1>2 DEF HasRole
<1>. QED BY <1>1, <1>3, EffectiveIsWhole

\* What enter makes of settings that are whole is whole.
LEMMA PromptedIsWhole ==
  ASSUME NEW settings \in WholeSettings
  PROVE  [k \in Key |-> Prompted(settings, k)] \in WholeSettings
<1>. PICK key : key = [k \in Key |-> Prompted(settings, k)]
  OBVIOUS
<1>1. \A k \in Key : key[k] = FirstOf(settings[k], Default[k])
  BY DEF Prompted
<1>2. settings \in Some /\ Default \in Some /\ key \in Some
  BY NothingIsSome, SettingsAreSome, PromptedIsSome DEF WholeSettings
<1>3. CASE settings \in {Nothing, Default}
  <2>1. \A k \in Key : key[k] = Default[k]
    BY <1>1, <1>3 DEF FirstOf, Nothing
  <2>. QED BY <1>2, <2>1 DEF Some, WholeSettings
<1>4. ASSUME NEW d \in Deployment, settings = Settings[d] PROVE key = settings
  <2>1. \A k \in Key : key[k] = settings[k]
    BY <1>1, <1>4, SettingsAreSome DEF FirstOf
  <2>. QED BY <1>2, <2>1 DEF Some
<1>. QED BY <1>3, <1>4 DEF WholeSettings

\* As ProcessMoves: a change of the file leaves what the others have read.
LEMMA WholeMoves ==
  ASSUME ConfigInv, WholeInv, NEW p \in Process, NEW r, Continue(p, r), Whole(r),
         file'.key \in WholeSettings
  PROVE  WholeInv'
<1>1. ASSUME NEW q \in Process PROVE Whole(proc'[q])
  <2>0. proc[q] \in ProcessState /\ Whole(proc[q])
    BY DEF ConfigInv, TypeOK, WholeInv
  <2>1. CASE q = p
    BY <2>1 DEF Continue
  <2>2. CASE q # p /\ proc'[q] = proc[q]
    BY <2>0, <2>2
  <2>3. CASE q # p /\ proc'[q] = [proc[q] EXCEPT !.moved = TRUE]
    <3>. PICK s : s = [proc[q] EXCEPT !.moved = TRUE]
      OBVIOUS
    <3>1. /\ s.pc = proc[q].pc /\ s.line = proc[q].line /\ s.loaded = proc[q].loaded
          /\ s.settings = proc[q].settings /\ s.draft = proc[q].draft
      BY <2>0 DEF ProcessState
    <3>. QED BY <2>0, <2>3, <3>1 DEF Whole
  <2>. QED BY <2>1, <2>2, <2>3 DEF Continue
<1>. QED BY <1>1 DEF WholeInv

LEMMA FilesAreWhole ==
  Empty.key \in WholeSettings /\ Missing.key \in WholeSettings /\ Malformed.key \in WholeSettings
BY DEF Empty, Missing, Malformed, Yaml, WholeSettings

LEMMA IdleIsWhole == Whole(Idle)
BY FilesAreWhole DEF Idle, Whole

LEMMA WholeStart == Init => WholeInv
<1>. SUFFICES ASSUME Init PROVE WholeInv
  OBVIOUS
<1>1. file.key \in WholeSettings
  BY FilesAreWhole DEF Init, Yaml, WholeSettings
<1>. QED BY <1>1, IdleIsWhole DEF Init, WholeInv

LEMMA WholeEnd ==
  ASSUME ConfigInv, WholeInv, NEW p \in Process, End(p), file'.key \in WholeSettings
  PROVE  WholeInv'
BY IdleIsWhole, WholeMoves DEF End

LEMMA WholeBegin ==
  ASSUME ConfigInv, WholeInv, NEW p \in Process, Begin(p)
  PROVE  WholeInv'
<1>. PICK line \in Line :
       Continue(p, [Idle EXCEPT !.pc = "loaded", !.line = line, !.loaded = file])
  BY DEF Begin
<1>. PICK r : r = [Idle EXCEPT !.pc = "loaded", !.line = line, !.loaded = file]
  OBVIOUS
<1>1. r.pc = "loaded" /\ r.loaded = file
  BY DEF Idle
<1>2. Whole(r) /\ file' = file
  BY <1>1 DEF Begin, WholeInv, Whole
<1>. QED BY <1>2, WholeMoves DEF WholeInv

LEMMA WholeGetConfig ==
  ASSUME ConfigInv, WholeInv, NEW p \in Process, GetConfig(p)
  PROVE  WholeInv'
<1>0. /\ file' = file /\ file.key \in WholeSettings
      /\ proc[p] \in ProcessState /\ Whole(proc[p])
      /\ ~Configures(proc[p].line) /\ proc[p].line \in Line /\ proc[p].loaded \in File
  BY DEF GetConfig, ConfigInv, TypeOK, ProcessState, Sound, AtItsStage, WholeInv
<1>. PICK r : r = [proc[p] EXCEPT !.settings = Effective(proc[p].line, proc[p].loaded),
                                  !.valid = TRUE,
                                  !.device = Preference(proc[p].line, proc[p].loaded) = "true",
                                  !.pc = "authenticated"]
  OBVIOUS
<1>1. /\ r.pc = "authenticated" /\ r.line = proc[p].line /\ r.loaded = proc[p].loaded
      /\ r.settings = Effective(proc[p].line, proc[p].loaded)
  BY <1>0 DEF ProcessState
<1>2. CASE HasRole(proc[p].line, Effective(proc[p].line, proc[p].loaded)) /\ Continue(p, r)
  <2>1. Whole(r)
    BY <1>0, <1>1, <1>2, RoleNeedsDeployment DEF Whole
  <2>. QED BY <1>0, <1>2, <2>1, WholeMoves
<1>3. CASE End(p)
  BY <1>0, <1>3, WholeEnd
<1>4. [proc[p] EXCEPT !.settings = Effective(proc[p].line, proc[p].loaded), !.valid = TRUE,
         !.device = Preference(proc[p].line, proc[p].loaded) = "true"].settings
        = Effective(proc[p].line, proc[p].loaded)
  BY <1>0 DEF ProcessState
<1>. QED BY <1>2, <1>3, <1>4 DEF GetConfig

LEMMA WholeStartConfigure ==
  ASSUME InteractiveIsPlain, ConfigInv, WholeInv, NEW p \in Process, StartConfigure(p)
  PROVE  WholeInv'
<1>0. /\ file' = file /\ file.key \in WholeSettings
      /\ proc[p] \in ProcessState /\ Whole(proc[p]) /\ Configures(proc[p].line)
      /\ proc[p].line \in Line /\ proc[p].loaded \in File
  BY DEF StartConfigure, ConfigInv, TypeOK, ProcessState, Sound, AtItsStage, WholeInv
<1>. PICK valid : valid = GetSucceeds(proc[p].line, proc[p].loaded, file)
  OBVIOUS
<1>. PICK settings :
       settings = IF valid THEN Effective(proc[p].line, proc[p].loaded) ELSE Nothing
  OBVIOUS
<1>. PICK r : r = [proc[p] EXCEPT
                     !.pc = IF proc[p].line.cmd = "auto" THEN "discover" ELSE "prompt",
                     !.valid = valid, !.settings = settings]
  OBVIOUS
<1>1. /\ r.pc = (IF proc[p].line.cmd = "auto" THEN "discover" ELSE "prompt")
      /\ r.loaded = proc[p].loaded /\ r.settings = settings
  BY <1>0 DEF ProcessState
<1>2. proc[p].line.cmd # "auto" => settings \in WholeSettings
  <2>. SUFFICES ASSUME proc[p].line.cmd # "auto" PROVE settings \in WholeSettings
    OBVIOUS
  <2>1. proc[p].line.cmd = "interactive" /\ proc[p].loaded.key \in WholeSettings
    BY <1>0 DEF Configures, Whole
  <2>2. Effective(proc[p].line, proc[p].loaded) \in WholeSettings
    BY <1>0, <2>1, EffectiveIsWhole DEF InteractiveIsPlain, WholeSettings
  <2>. QED BY <2>2 DEF WholeSettings
<1>3. Whole(r)
  BY <1>0, <1>1, <1>2 DEF Whole
<1>4. Continue(p, r)
  BY DEF StartConfigure
<1>. QED BY <1>0, <1>3, <1>4, WholeMoves

LEMMA WholeDraft ==
  ASSUME ConfigInv, WholeInv, NEW p \in Process, NEW target, NEW key \in WholeSettings, NEW r,
         r = [proc[p] EXCEPT !.pc = "truncate", !.target = target,
                             !.draft = Yaml(key, ConfigureDeviceCode(proc[p].line))]
  PROVE  Whole(r)
<1>0. proc[p] \in ProcessState /\ Whole(proc[p])
  BY DEF ConfigInv, TypeOK, WholeInv
<1>. PICK draft : draft = Yaml(key, ConfigureDeviceCode(proc[p].line))
  OBVIOUS
<1>1. draft.key = key
  BY DEF Yaml
<1>2. r.pc = "truncate" /\ r.draft = draft /\ r.loaded = proc[p].loaded
  BY <1>0 DEF ProcessState
<1>. QED BY <1>0, <1>1, <1>2 DEF Whole

LEMMA WholeAnswerPrompts ==
  ASSUME ConfigInv, WholeInv, NEW p \in Process, AnswerPrompts(p)
  PROVE  WholeInv'
<1>0. file' = file /\ file.key \in WholeSettings /\ proc[p].settings \in WholeSettings
  BY DEF AnswerPrompts, WholeInv, Whole
<1>. DEFINE Drafted(target, key) ==
       [proc[p] EXCEPT !.pc = "truncate", !.target = target,
                       !.draft = Yaml(key, ConfigureDeviceCode(proc[p].line))]
<1>1. CASE Continue(p, Drafted(None, [k \in Key |-> Prompted(proc[p].settings, k)]))
  <2>1. Whole(Drafted(None, [k \in Key |-> Prompted(proc[p].settings, k)]))
    BY <1>0, PromptedIsWhole, WholeDraft
  <2>. QED BY <1>0, <1>1, <2>1, WholeMoves
<1>2. ASSUME NEW d \in Deployment, Continue(p, Drafted(d, Settings[d])) PROVE WholeInv'
  <2>1. Whole(Drafted(d, Settings[d]))
    BY WholeDraft DEF WholeSettings
  <2>. QED BY <1>0, <1>2, <2>1, WholeMoves
<1>. QED BY <1>1, <1>2 DEF AnswerPrompts

LEMMA WholeDiscover ==
  ASSUME ConfigInv, WholeInv, NEW p \in Process, Discover(p)
  PROVE  WholeInv'
<1>. PICK d \in Deployment, answer \in SUBSET Key :
       \E region \in BootstrapRegion(p, d) :
         /\ Answers(d, BootstrapOIDC(proc[p].line), region)
         /\ Continue(p, [proc[p] EXCEPT !.pc = "truncate", !.target = d,
              !.draft = Yaml(Final(p, d, answer, BootstrapOIDC(proc[p].line), region),
                             ConfigureDeviceCode(proc[p].line))])
  BY DEF Discover
<1>. PICK r : r = [proc[p] EXCEPT !.pc = "truncate", !.target = d,
                     !.draft = Yaml(Settings[d], ConfigureDeviceCode(proc[p].line))]
  OBVIOUS
<1>1. Continue(p, r)
  <2>. PICK region \in BootstrapRegion(p, d) :
         /\ Answers(d, BootstrapOIDC(proc[p].line), region)
         /\ Continue(p, [proc[p] EXCEPT !.pc = "truncate", !.target = d,
              !.draft = Yaml(Final(p, d, answer, BootstrapOIDC(proc[p].line), region),
                             ConfigureDeviceCode(proc[p].line))])
    OBVIOUS
  <2>1. Final(p, d, answer, BootstrapOIDC(proc[p].line), region) = Settings[d]
    BY FinalIsSettings
  <2>. QED BY <2>1
<1>2. Whole(r)
  BY WholeDraft DEF WholeSettings
<1>. QED BY <1>1, <1>2, WholeMoves DEF Discover, WholeInv

LEMMA WholeWrites ==
  ASSUME ConfigInv, WholeInv, NEW p \in Process, Truncate(p) \/ Write(p)
  PROVE  WholeInv'
<1>1. CASE Truncate(p)
  <2>0. proc[p] \in ProcessState /\ Whole(proc[p])
    BY DEF ConfigInv, TypeOK, WholeInv
  <2>. PICK r : r = [proc[p] EXCEPT !.pc = "write"]
    OBVIOUS
  <2>1. r.pc = "write" /\ r.loaded = proc[p].loaded /\ r.draft = proc[p].draft
    BY <2>0 DEF ProcessState
  <2>2. Whole(r)
    BY <1>1, <2>0, <2>1 DEF Truncate, Whole
  <2>. QED BY <1>1, <2>2, FilesAreWhole, WholeMoves DEF Truncate
<1>2. CASE Write(p)
  <2>1. file'.key \in WholeSettings
    BY <1>2, FilesAreWhole DEF Write, WholeInv, Whole
  <2>. QED BY <1>2, <2>1, WholeEnd DEF Write
<1>. QED BY <1>1, <1>2

LEMMA WholeStep == InteractiveIsPlain /\ ConfigInv /\ WholeInv /\ [Next]_vars => WholeInv'
<1>. SUFFICES ASSUME InteractiveIsPlain, ConfigInv, WholeInv, [Next]_vars PROVE WholeInv'
  OBVIOUS
<1>1. CASE UNCHANGED vars
  BY <1>1 DEF vars, WholeInv
<1>2. ASSUME NEW p \in Process, Finish(p) PROVE WholeInv'
  BY <1>2, WholeEnd DEF Finish, WholeInv
<1>. QED BY <1>1, <1>2, WholeBegin, WholeGetConfig, WholeStartConfigure, WholeAnswerPrompts,
            WholeDiscover, WholeWrites DEF Next

\* Where interactive configure overrides nothing, every command that overrides nothing and gets
\* past its checks uses the settings of one deployment, whatever the others write beside it.
THEOREM SettingsStayTogether ==
  ASSUME InteractiveIsPlain
  PROVE  Spec => []OneDeployment
<1>1. ConfigInv /\ WholeInv /\ [Next]_vars => WholeInv'
  BY WholeStep
<1>2. WholeInv => OneDeployment
  BY DEF WholeInv, Whole, OneDeployment
<1>. QED BY <1>1, <1>2, WholeStart, ConfigInvariant, PTL DEF Spec

=============================================================================
