-------------------------- MODULE MCConfiguration --------------------------
(***************************************************************************)
(* Two deployments, the first of which the compiled defaults fit, and the  *)
(* command lines that tell the cases of Load and Get apart.                *)
(***************************************************************************)
EXTENDS Configuration

CONSTANTS d1, d2

MCSettings == [d \in {d1, d2} |-> [k \in Key |-> IF d = d1 THEN "a" ELSE "b"]]

MCDefault == [k \in Key |-> IF k \in Defaulted THEN "a" ELSE None]

Cmd(cmd) ==
  [cmd |-> cmd, flag |-> Nothing, env |-> Nothing, alias |-> Nothing,
   deviceFlag |-> "unset", deviceEnv |-> "unset"]

Only(k) == [Nothing EXCEPT ![k] = "b"]

MCLine ==
  {Cmd("start-task"),
   [Cmd("start-task") EXCEPT !.deviceEnv = "junk"],
   [Cmd("login") EXCEPT !.deviceEnv = "true"],
   [Cmd("other") EXCEPT !.deviceEnv = "empty", !.deviceFlag = "true", !.flag = Only("sre")],
   [Cmd("auto") EXCEPT !.deviceFlag = "true"],
   [Cmd("auto") EXCEPT !.alias = Only("oidc"), !.flag = Only("region")],
   [Cmd("interactive") EXCEPT !.flag = Only("region"), !.alias = Only("oidc")],
   [Cmd("interactive") EXCEPT !.deviceEnv = "empty", !.deviceFlag = "true"]}

\* What OneDeployment supposes of the command lines.
ASSUME PlainLines == InteractiveIsPlain

=============================================================================
