---------------------------- MODULE Configuration ----------------------------
(***************************************************************************)
(* The configuration of the commands, internal/config, and the configure   *)
(* command that writes it, internal/cmd/configure.go.                      *)
(*                                                                         *)
(* A command takes each setting from its flags, the environment, the       *)
(* configuration file, the compiled defaults and the legacy variables.     *)
(* configure finds the settings of a deployment by asking its Lambda, or   *)
(* asks the user, and replaces the file.  Commands of one user run side by *)
(* side, and the file may have been edited by hand.                        *)
(*                                                                         *)
(* Settings that are treated alike are one key: oidc stands for URL, realm *)
(* and client, invoker for the invoker role and the Lambda function, sre   *)
(* for the SRE role and the EFS file system.                               *)
(***************************************************************************)
EXTENDS Naturals

CONSTANTS Process,
          Deployment,
          Value,     \* the values of settings
          Settings,  \* the settings of each deployment
          Default,   \* the compiled defaults
          Line,      \* the command lines and environments commands are run with
          None

Key == {"oidc", "region", "invoker", "sre", "cluster"}

\* Settings with a default; with a legacy variable; that the Lambda alone knows.
Defaulted == {"oidc", "region", "cluster"}
Aliased == {"oidc", "region", "invoker", "sre"}
Required == {"sre", "cluster"}

Some == [Key -> Value \cup {None}]

Nothing == [k \in Key |-> None]

\* A command line and the environment that matters to it.
CommandLine ==
  [cmd : {"login", "start-task", "other", "auto", "interactive"},
   flag : Some,    \* flags
   env : Some,     \* ROSA_BOUNDARY_ variables
   alias : Some,   \* legacy variables
   deviceFlag : {"unset", "true", "false"},
   deviceEnv : {"unset", "empty", "true", "false", "junk"}]

ASSUME SettingsAssumption ==
  /\ None \notin Value \cup Deployment
  /\ Settings \in [Deployment -> [Key -> Value]]
  /\ Default \in Some
  /\ \A k \in Key : Default[k] # None <=> k \in Defaulted
  /\ Line \subseteq CommandLine

VARIABLES
  file,   \* config.yaml
  proc    \* the command of each process

vars == <<file, proc>>

\* oidc_use_device_code in the file: a boolean, a null, something else, or not there.
File ==
  [kind : {"missing", "malformed", "yaml"},
   key : Some, device : {"absent", "true", "false", "null", "quoted"}]

Yaml(key, device) == [kind |-> "yaml", key |-> key, device |-> device]

Empty == Yaml(Nothing, "absent")
Missing == [Empty EXCEPT !.kind = "missing"]
Malformed == [Empty EXCEPT !.kind = "malformed"]

ProcessState ==
  [pc : {"idle", "loaded", "authenticated", "prompt", "discover", "truncate", "write"},
   line : Line \cup {None},
   loaded : File,          \* what Load has read
   settings : Some,        \* what Get has returned
   device : BOOLEAN,
   valid : BOOLEAN,        \* Get has returned no error
   draft : File,           \* what configure writes
   target : Deployment \cup {None},  \* history: the deployment configure was run for; None: enter throughout
   moved : BOOLEAN]        \* history: the file has changed since Load

TypeOK ==
  /\ file \in File
  /\ proc \in [Process -> ProcessState]

Idle ==
  [pc |-> "idle", line |-> None, loaded |-> Missing, settings |-> Nothing, device |-> FALSE,
   valid |-> FALSE, draft |-> Empty, target |-> None, moved |-> FALSE]

\* A file that configure has written, perhaps edited since, or none.
Init ==
  /\ file \in {Missing, Malformed} \cup
              {Yaml(Settings[d], v) :
                 d \in Deployment, v \in {"absent", "true", "false", "null", "quoted"}}
  /\ proc = [p \in Process |-> Idle]

Continue(p, r) ==
  proc' = [q \in Process |->
             IF q = p THEN r
             ELSE IF file' # file /\ proc[q].pc # "idle" THEN [proc[q] EXCEPT !.moved = TRUE]
                  ELSE proc[q]]

End(p) == Continue(p, Idle)

-----------------------------------------------------------------------------
(* Load and Get. *)

Configures(line) == line.cmd \in {"auto", "interactive"}

\* --region of configure is a flag of its own.
Flag(line, k) == IF Configures(line) /\ k = "region" THEN None ELSE line.flag[k]

FirstOf(a, b) == IF a # None THEN a ELSE b

\* bindEnvAlias: the legacy variable is a default of settings that are not set; those with
\* a compiled default are.
Fallback(line, k) ==
  FirstOf(Default[k], IF k \in Aliased THEN line.alias[k] ELSE None)

\* An error of the file ends Load before it has bound the environment.
Effective(line, loaded) ==
  [k \in Key |->
     FirstOf(Flag(line, k),
       IF loaded.kind = "malformed" THEN Default[k]
       ELSE FirstOf(line.env[k], FirstOf(loaded.key[k], Fallback(line, k))))]

\* Get is told of the flag, but not by configure.
FlagOverrides(line) == line.deviceFlag # "unset" /\ ~Configures(line)

EmptyVariable(line) == line.deviceEnv = "empty" /\ ~FlagOverrides(line)

\* Fault: a null is taken for an absent preference.
MutUnreadable(line, loaded, now) == FALSE

\* The file is read once more for a null, which viper does not tell from an absent key.
Unreadable(line, loaded, now) ==
  /\ loaded.kind # "missing" /\ line.deviceEnv = "unset" /\ ~FlagOverrides(line)
  /\ now.kind # "yaml" \/ now.device = "null"

\* viper.Get: the flag, the variable, the file, the default.
Preference(line, loaded) ==
  CASE line.deviceFlag # "unset" -> line.deviceFlag
    [] line.deviceFlag = "unset" /\ loaded.kind # "malformed" /\ line.deviceEnv \notin {"unset", "empty"}
         -> line.deviceEnv
    [] OTHER -> IF loaded.device \in {"absent", "null"} THEN "false" ELSE loaded.device

\* Get accepts a boolean, and a string that parses if it is the variable's.
GetSucceeds(line, loaded, now) ==
  /\ ~EmptyVariable(line)
  /\ ~Unreadable(line, loaded, now)
  /\ Preference(line, loaded) \in {"true", "false"}

\* initConfig: Load; an error is a warning.
Begin(p) ==
  /\ proc[p].pc = "idle"
  /\ UNCHANGED file
  /\ \E line \in Line : Continue(p, [Idle EXCEPT !.pc = "loaded", !.line = line, !.loaded = file])

\* Fault: a missing role is left to STS.
MutHasRole(line, settings) == TRUE

\* authenticationRole; login asks for a URL, which has a default.
HasRole(line, settings) ==
  CASE line.cmd = "login" -> settings["oidc"] # None
    [] line.cmd = "start-task" -> settings["invoker"] # None
    [] OTHER -> settings["sre"] # None

\* getConfig, and the checks of authenticateIfNeeded before the login.
GetConfig(p) ==
  LET line == proc[p].line
      loaded == proc[p].loaded
      r == [proc[p] EXCEPT !.settings = Effective(line, loaded), !.valid = TRUE,
                           !.device = Preference(line, loaded) = "true"]
  IN /\ proc[p].pc = "loaded" /\ ~Configures(line)
     /\ UNCHANGED file
     /\ IF GetSucceeds(line, loaded, file) /\ HasRole(line, r.settings)
        THEN Continue(p, [r EXCEPT !.pc = "authenticated"])
        ELSE End(p)

\* runConfigure begins with the configuration as it is, or with none when that is invalid.
StartConfigure(p) ==
  LET line == proc[p].line
      valid == GetSucceeds(line, proc[p].loaded, file)
  IN /\ proc[p].pc = "loaded" /\ Configures(line)
     /\ UNCHANGED file
     /\ Continue(p, [proc[p] EXCEPT
          !.pc = IF line.cmd = "auto" THEN "discover" ELSE "prompt",
          !.valid = valid,
          !.settings = IF valid THEN Effective(line, proc[p].loaded) ELSE Nothing])

\* The command has logged in and goes about its work, or ends, or is killed.
Finish(p) ==
  /\ proc[p].pc # "idle"
  /\ UNCHANGED file
  /\ End(p)

-----------------------------------------------------------------------------
(* configure. *)

\* configureDeviceCode: only an explicit true selects device approval.
ConfigureDeviceCode(line) == IF line.deviceFlag = "true" THEN "true" ELSE "false"

\* Fault: enter takes the default.
MutPrompted(settings, k) == FirstOf(Default[k], settings[k])

\* promptDisplay, promptValue: what enter stands for.
Prompted(settings, k) == FirstOf(settings[k], Default[k])

\* runConfigureInteractive: the user presses enter throughout, or types every value.
AnswerPrompts(p) ==
  LET line == proc[p].line
      Drafted(target, key) ==
        [proc[p] EXCEPT !.pc = "truncate", !.target = target,
                        !.draft = Yaml(key, ConfigureDeviceCode(line))]
  IN /\ proc[p].pc = "prompt"
     /\ UNCHANGED file
     /\ \/ Continue(p, Drafted(None, [k \in Key |-> Prompted(proc[p].settings, k)]))
        \/ \E d \in Deployment : Continue(p, Drafted(d, Settings[d]))

\* bootstrapOIDCValue: flag, variable, legacy variable, default; never the file.
BootstrapOIDC(line) ==
  FirstOf(Flag(line, "oidc"),
    FirstOf(line.env["oidc"], FirstOf(line.alias["oidc"], Default["oidc"])))

\* The region of the flag, or what the user answers: enter, or that of the deployment.
BootstrapRegion(p, d) ==
  LET flag == proc[p].line.flag["region"]
  IN IF flag # None THEN {flag} ELSE {Prompted(proc[p].settings, "region"), Settings[d]["region"]}

\* The login, the invoker role and the Lambda are those of d only with the provider and in
\* the region of d.
Answers(d, oidc, region) == Settings[d]["oidc"] = oidc /\ Settings[d]["region"] = region

\* Fault: what the Lambda leaves out is taken from the configuration there is.
MutFinal(p, d, answer, oidc, region) ==
  [k \in Key |-> IF k \in answer THEN Settings[d][k]
                 ELSE IF proc[p].settings[k] # None THEN proc[p].settings[k]
                 ELSE CASE k = "oidc" -> oidc [] k = "region" -> region [] OTHER -> Settings[d][k]]

\* The values of the Lambda, and for those that it leaves out what was used to reach it: the
\* names of the convention, which are those of d, the provider and the region.
Final(p, d, answer, oidc, region) ==
  [k \in Key |-> IF k \in answer THEN Settings[d][k]
                 ELSE CASE k = "oidc" -> oidc [] k = "region" -> region [] OTHER -> Settings[d][k]]

\* runConfigureAuto, from the first question to the validated answer of the Lambda.
Discover(p) ==
  /\ proc[p].pc = "discover"
  /\ UNCHANGED file
  /\ \E d \in Deployment, answer \in {a \in SUBSET Key : Required \subseteq a} :
       LET oidc == BootstrapOIDC(proc[p].line)
       IN \E region \in BootstrapRegion(p, d) :
            /\ Answers(d, oidc, region)
            /\ Continue(p, [proc[p] EXCEPT !.pc = "truncate", !.target = d,
                 !.draft = Yaml(Final(p, d, answer, oidc, region),
                                  ConfigureDeviceCode(proc[p].line))])

\* WriteConfigFile: os.WriteFile truncates the file ...
Truncate(p) ==
  /\ proc[p].pc = "truncate"
  /\ file' = Empty
  /\ Continue(p, [proc[p] EXCEPT !.pc = "write"])

\* ... and writes it, or fails to.  The tail of a longer file that another process has
\* written meanwhile remains, and makes it malformed.
Write(p) ==
  /\ proc[p].pc = "write"
  /\ file' \in {proc[p].draft} \cup (IF file # Empty THEN {Malformed} ELSE {})
  /\ End(p)

Next ==
  \E p \in Process :
    \/ Begin(p) \/ GetConfig(p) \/ Finish(p)
    \/ StartConfigure(p) \/ AnswerPrompts(p) \/ Discover(p) \/ Truncate(p) \/ Write(p)

Spec == Init /\ [][Next]_vars

-----------------------------------------------------------------------------
(* Properties. *)

\* The preference a user has stated, by the documented order "flags > env > config >
\* defaults"; none when what was stated is no boolean.
Stated(line, f) ==
  CASE line.deviceFlag # "unset" -> {line.deviceFlag}
    [] line.deviceFlag = "unset" /\ line.deviceEnv # "unset" -> {line.deviceEnv} \cap {"true", "false"}
    [] OTHER ->
         IF f.kind = "malformed" THEN {}
         ELSE IF f.device = "absent" THEN {"false"}
         ELSE {f.device} \cap {"true", "false"}

\* The file was no good when Load read it, and another by the time of Get.
Repaired(p) ==
  /\ proc[p].moved
  /\ proc[p].loaded.kind = "malformed" \/ proc[p].loaded.device = "null"

\* "An invalid preference never accidentally selects the browser login flow" (config.go:149-150):
\* a command that goes on to authenticate uses the way to log in that the user has stated,
\* and a statement that is no boolean stops it, whichever of the two looks at the file sees
\* what.  Two cases are left out: a file that is replaced between the looks, and a malformed
\* file beside a variable, which Load then does not bind.
PreferenceHonoured ==
  \A p \in Process :
    /\ proc[p].pc = "authenticated"
    /\ ~Repaired(p)
    /\ proc[p].loaded.kind # "malformed" \/ proc[p].line.deviceFlag # "unset"
    => (IF proc[p].device THEN "true" ELSE "false") \in Stated(proc[p].line, proc[p].loaded)

Plain(line) == line.flag = Nothing /\ line.env = Nothing /\ line.alias = Nothing

\* Interactive configure is run with nothing that overrides the file or its defaults.
InteractiveIsPlain ==
  \A line \in Line : line.cmd = "interactive" =>
    \A k \in Key : /\ Flag(line, k) = None /\ line.env[k] = None
                   /\ k \notin Defaulted => line.alias[k] = None

\* A command that overrides nothing and gets past its checks uses the settings of one
\* deployment: it never combines the defaults with the remains of a file that another command
\* has truncated, or the settings of the deployment before.  (Where InteractiveIsPlain: an
\* interactive configure that overrides a setting writes such a mixture down.)
OneDeployment ==
  \A p \in Process :
    proc[p].pc = "authenticated" /\ Plain(proc[p].line) /\ proc[p].line.cmd # "login" =>
      \E d \in Deployment : proc[p].settings = Settings[d]

\* "Bootstrap independently of an existing (possibly different) deployment"
\* (configure.go:291): auto-discovery writes the settings of the deployment it was run for,
\* whatever the file held before and whatever the Lambda leaves out of its answer.
DiscoveryIsIndependent ==
  \A p \in Process :
    proc[p].pc \in {"truncate", "write"} /\ proc[p].line.cmd = "auto" =>
      proc[p].draft.key = Settings[proc[p].target]

\* "Load existing config so we can show current values as defaults" (configure.go:474): when
\* the user presses enter throughout, the same command line finds the same settings
\* afterwards, unless the configuration was invalid (or malformed, and replaced before Get), or
\* what is written is not this draft.
EnterKeepsSettings ==
  [][\A p \in Process :
       /\ proc[p].pc = "write" /\ proc[p].line.cmd = "interactive"
       /\ proc[p].valid /\ proc[p].loaded.kind # "malformed" /\ proc[p].target = None
       /\ file' = proc[p].draft /\ file' # file
       => Effective(proc[p].line, file') = proc[p].settings]_vars

=============================================================================
