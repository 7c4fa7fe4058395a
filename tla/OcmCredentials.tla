--------------------------- MODULE OcmCredentials ----------------------------
(***************************************************************************)
(* OCM credentials for a task: credentials configure ocm, clear ocm, and   *)
(* start-task --with-credentials (internal/cmd/credentials_ocm.go,         *)
(* internal/credentials/ocm).                                              *)
(*                                                                         *)
(* The command logs in to OCM, with a browser and a callback on port 9998  *)
(* or with a device code, opens a session in the task that runs the        *)
(* credential helper, waits for its ready marker, sends the token, and     *)
(* waits for its success marker.  The helper                               *)
(* (utils/rosa-boundary-credential-helper) checks and installs the token.  *)
(*                                                                         *)
(* The Session Manager plugin stands between them.  It may end at any      *)
(* time, and the context of the transfer ends it after a minute.  The      *)
(* helper learns of that late.                                             *)
(***************************************************************************)
EXTENDS EcsTask

\* The session of one transfer.  The markers wait in the output pipe until they are read.
SessionState ==
  [plugin : {"none", "up", "ended"},
   helper : {"none", "started", "listening", "made", "decoded", "checking", "clearing", "sweeping",
             "installed", "ended"},
   output : SUBSET {"ready", "success", "junk"},
   copying : BOOLEAN,  \* cmd.Run still copies stdin to the plugin
   sent : BOOLEAN,     \* the request has been written to stdin
   expired : BOOLEAN,  \* protocolCtx is done
   matched : SUBSET Process,  \* whose files the patterns of clear have matched
   kept : BOOLEAN,            \* the rm of clear has failed on one of its files
   \* history
   ready : SUBSET Process]    \* those that had written their request down when clear began

NoSession ==
  [plugin |-> "none", helper |-> "none", output |-> {}, copying |-> TRUE, sent |-> FALSE, expired |-> FALSE,
   matched |-> {}, kept |-> FALSE, ready |-> {}]

SetSession(p, s) == session' = [session EXCEPT ![p] = s]

-----------------------------------------------------------------------------
(* prepareCredentialTask. *)

Prepare(p) ==
  /\ proc[p].pc = "prepare"
  /\ \/ Up(proc[p].task) /\ Goto(p, "agent")
     \/ Fail(p)
  /\ UNCHANGED <<task, agent, config, session, port>>

-----------------------------------------------------------------------------
(* Acquire. *)

\* Fault: the listener stays open.
MutFree(p) == port' = port

Free(p) == port' = IF port = p THEN None ELSE port

\* The command ends, and its listener with it.
Abort(p) == Fail(p) /\ Free(p)

\* acquireDevice: the challenge, its checks, the approval, accessTokenOnly.
AcquireDevice(p) ==
  /\ proc[p].pc = "acquire" /\ proc[p].line.device
  /\ Goto(p, "exec") \/ Fail(p)
  /\ UNCHANGED <<task, agent, config, session, port>>

\* acquireAuthCode: the listener comes first, then the browser.
ListenForCallback(p) ==
  /\ proc[p].pc = "acquire" /\ ~proc[p].line.device
  /\ IF port = None
     THEN port' = p /\ Set(p, [proc[p] EXCEPT !.pc = "await", !.tab = TRUE])
     ELSE UNCHANGED port /\ Fail(p)
  /\ UNCHANGED <<task, agent, config, session>>

\* Fault: the state of the redirect is not compared.
MutOwnState(p, q) == TRUE

OwnState(p, q) == p = q

\* authCodeHandler of p, with a redirect of the browser tab of q.  Another state is answered
\* and forgotten; otherwise the code is exchanged, and the first result counts.
Callback(p, q) ==
  /\ port = p /\ proc[p].pc = "await" /\ proc[p].answer = "none"
  /\ proc[q].tab
  /\ OwnState(p, q)
  /\ \E answer \in {q, "error"} : Set(p, [proc[p] EXCEPT !.answer = answer])
  /\ UNCHANGED <<task, agent, config, session, port>>

\* The select of acquireAuthCode: the result, or the five minutes.
AwaitCallback(p) ==
  /\ proc[p].pc = "await"
  /\ \/ proc[p].answer \in Process /\ Goto(p, "exec") /\ Free(p)
     \/ Abort(p)
  /\ UNCHANGED <<task, agent, config, session>>

-----------------------------------------------------------------------------
(* The transfer: run. *)

\* Clear waits for no ready marker.
RequireReady(p) == proc[p].line.cmd # "clear"

\* The plugin is not found, or is started and with it the helper.
StartPlugin(p) ==
  /\ proc[p].pc = "plugin"
  /\ \/ /\ SetSession(p, [NoSession EXCEPT !.plugin = "up",
                            !.helper = IF Up(proc[p].task) THEN "started" ELSE "ended"])
        /\ Goto(p, "read")
     \/ UNCHANGED session /\ Fail(p)
  /\ UNCHANGED <<task, agent, config, port>>

\* Fault: the request is sent without waiting for the marker.
MutMaySend(p) == session[p].plugin = "up"

MaySend(p) == "ready" \in session[p].output

\* The ready marker: the request is written, once, and copied to the plugin.  The copy ends
\* if the plugin is gone.
ReadReady(p) ==
  /\ proc[p].pc = "read" /\ RequireReady(p) /\ ~session[p].sent
  /\ MaySend(p)
  /\ SetSession(p, [session[p] EXCEPT !.output = @ \ {"ready"}, !.sent = TRUE,
                   !.copying = session[p].plugin = "up"])
  /\ UNCHANGED <<task, agent, config, port, proc>>

\* The success marker: stdin is closed, and the plugin may end.
ReadSuccess(p) ==
  /\ proc[p].pc = "read" /\ "success" \in session[p].output
  /\ RequireReady(p) => session[p].sent
  /\ SetSession(p, [session[p] EXCEPT !.output = @ \ {"success"}, !.copying = FALSE])
  /\ Goto(p, "drain")
  /\ UNCHANGED <<task, agent, config, port>>

\* A marker twice, success before ready, or too much output: the plugin is killed.
ReadJunk(p) ==
  /\ proc[p].pc = "read" /\ "junk" \in session[p].output
  /\ SetSession(p, [session[p] EXCEPT !.plugin = "ended", !.copying = FALSE])
  /\ Fail(p)
  /\ UNCHANGED <<task, agent, config, port>>

\* cmd.Run returns when the plugin has ended and its stdin has been copied, to its end; only
\* then is the output closed and read to its end.
Returns(p) == session[p].plugin = "ended" /\ ~session[p].copying

\* The output ends before the success marker.
ReadEnd(p) ==
  /\ proc[p].pc = "read" /\ session[p].output = {} /\ Returns(p)
  /\ Fail(p)
  /\ UNCHANGED <<task, agent, config, session, port>>

\* Fault: a plugin that has ended is a credential that is installed.
MutFinish(p) ==
  /\ proc[p].pc \in {"read", "drain"} /\ session[p].plugin = "ended"
  /\ Goto(p, IF proc[p].line.cmd = "start-task" THEN "summary" ELSE "done")
  /\ UNCHANGED <<task, agent, config, session, port>>

\* The helper's success is reported, unless the minute was over before the plugin ended, or
\* the plugin ended with an error.
Finish(p) ==
  /\ proc[p].pc = "drain" /\ Returns(p)
  /\ \/ /\ ~session[p].expired
        /\ Goto(p, IF proc[p].line.cmd = "start-task" THEN "summary" ELSE "done")
     \/ Fail(p)
  /\ UNCHANGED <<task, agent, config, session, port>>

\* protocolCtx is done: the plugin is killed, and nothing else is.
Timeout(p) ==
  /\ proc[p].pc \in {"read", "drain"} /\ ~session[p].expired
  /\ SetSession(p, [session[p] EXCEPT !.plugin = "ended", !.expired = TRUE])
  /\ UNCHANGED <<task, agent, config, port, proc>>

\* The plugin ends: the session is closed, or the connection is lost.
PluginEnds(p) ==
  /\ session[p].plugin = "up"
  /\ SetSession(p, [session[p] EXCEPT !.plugin = "ended"])
  /\ UNCHANGED <<task, agent, config, port, proc>>

-----------------------------------------------------------------------------
(* The helper in the task. *)

\* What is printed reaches the command as long as the plugin is up.
Printed(s, marker) == IF s.plugin = "up" THEN s.output \cup {marker} ELSE s.output

\* stty -echo, and the ready marker.
HelperReady(p) ==
  /\ session[p].helper = "started" /\ RequireReady(p)
  /\ SetSession(p, [session[p] EXCEPT !.helper = "listening", !.output = Printed(session[p], "ready")])
  /\ UNCHANGED <<task, agent, config, port, proc>>

\* The request is read, and mktemp makes a file for it and one for the candidate.
HelperReceive(p) ==
  /\ session[p].helper = "listening" /\ session[p].sent
  /\ SetSession(p, [session[p] EXCEPT !.helper = "made"])
  /\ UNCHANGED <<task, agent, config, port, proc>>

\* The redirect of base64 writes the request, and makes its file again if clear has removed it;
\* chmod is not checked.  From here on the helper needs the file.
HelperDecode(p) ==
  /\ session[p].helper = "made"
  /\ SetSession(p, [session[p] EXCEPT !.helper = "decoded"])
  /\ UNCHANGED <<task, agent, config, port, proc>>

\* The request is checked, and the redirect of jq writes the candidate in the same way; ocm
\* whoami follows.  From here on the helper needs the candidate only.
HelperBuild(p) ==
  /\ session[p].helper = "decoded"
  /\ SetSession(p, [session[p] EXCEPT !.helper = "checking"])
  /\ UNCHANGED <<task, agent, config, port, proc>>

\* mv of the candidate.
HelperInstall(p) ==
  /\ session[p].helper = "checking"
  /\ config' = [config EXCEPT ![proc[p].task] = p]
  /\ Set(p, [proc[p] EXCEPT !.installed = TRUE])
  /\ SetSession(p, [session[p] EXCEPT !.helper = "installed"])
  /\ UNCHANGED <<task, agent, port>>

\* The processes whose helper in t is at one of these stages.
Helpers(t, stages) == {q \in Process : session[q].helper \in stages /\ proc[q].task = t}

\* What clear becomes when its patterns are expanded.
Expanded(p) ==
  [session[p] EXCEPT !.helper = "clearing",
                     !.matched = Helpers(proc[p].task, {"made", "decoded", "checking"}),
                     !.ready = Helpers(proc[p].task, {"decoded", "checking"})]

\* Fault: clear removes what the patterns match, and the configuration is none of it.
MutHelperClear(p) ==
  /\ session[p].helper = "started" /\ ~RequireReady(p)
  /\ SetSession(p, Expanded(p))
  /\ UNCHANGED <<task, agent, config, port, proc>>

\* clear_ocm: the shell expands its patterns, and rm begins with the configuration.  Wherever
\* rm fails, it goes on, and so does clear_ocm.
HelperClear(p) ==
  /\ session[p].helper = "started" /\ ~RequireReady(p)
  /\ \/ config' = [config EXCEPT ![proc[p].task] = None] /\ SetSession(p, Expanded(p))
     \/ UNCHANGED config /\ SetSession(p, [Expanded(p) EXCEPT !.kept = TRUE])
  /\ UNCHANGED <<task, agent, port, proc>>

\* rm has gone through the matched files of a kind, and goes on to next, with those of gone
\* removed: a helper that needs its file ends with an error.
Removed(p, gone, stage, next) ==
  [q \in Process |->
     CASE q = p -> next
       [] q \in gone \cap Helpers(proc[p].task, {stage}) -> Over(session[q])
       [] OTHER -> session[q]]

\* ... the requests ...
HelperClearRequests(p) ==
  /\ session[p].helper = "clearing"
  /\ \E gone \in SUBSET session[p].matched :
       session' = Removed(p, gone, "decoded",
                    [session[p] EXCEPT !.helper = "sweeping", !.kept = @ \/ gone # session[p].matched])
  /\ UNCHANGED <<task, agent, config, port, proc>>

\* Fault: the candidates are left.
MutHelperClearRest(p) ==
  /\ session[p].helper = "sweeping"
  /\ Set(p, [proc[p] EXCEPT !.installed = ~session[p].kept])
  /\ SetSession(p, [session[p] EXCEPT !.helper = "installed", !.matched = {}, !.ready = {}])
  /\ UNCHANGED <<task, agent, config, port>>

\* ... and the candidates, with the kubeconfig.  It has cleared when no rm has failed.
HelperClearRest(p) ==
  /\ session[p].helper = "sweeping"
  /\ \E gone \in SUBSET session[p].matched, failed \in BOOLEAN :
       LET kept == session[p].kept \/ failed \/ gone # session[p].matched
       IN /\ session' = Removed(p, gone, "checking",
                          [session[p] EXCEPT !.helper = "installed", !.kept = kept, !.matched = {}, !.ready = {}])
          /\ Set(p, [proc[p] EXCEPT !.installed = ~kept])
  /\ UNCHANGED <<task, agent, config, port>>

\* The success marker, of clear_ocm whatever rm returned; nothing is left to do.
HelperSuccess(p) ==
  /\ session[p].helper = "installed"
  /\ SetSession(p, [session[p] EXCEPT !.helper = "ended", !.output = Printed(session[p], "success")])
  /\ UNCHANGED <<task, agent, config, port, proc>>

\* It cannot secure the terminal, or refuses the request; the hangup of the terminal reaches
\* it, or stray output disturbs the protocol.
HelperFails(p) ==
  /\ session[p].helper \notin {"none", "ended"}
  /\ \E output \in {session[p].output, Printed(session[p], "junk")} :
       SetSession(p, [Over(session[p]) EXCEPT !.output = output])
  /\ UNCHANGED <<task, agent, config, port, proc>>

=============================================================================
