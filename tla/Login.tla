-------------------------------- MODULE Login --------------------------------
(***************************************************************************)
(* Authentication of the commands: internal/auth, internal/aws/sts.go and  *)
(* the authentication hook of internal/cmd/root.go.                        *)
(*                                                                         *)
(* Processes of one user share a token cache file, the callback port 8400  *)
(* and a browser.  A command reads the cache, logs in when it has to, by   *)
(* browser or by device code, saves the token, and assumes a role with it; *)
(* a cached token that STS refuses is replaced once.  start-task does this *)
(* twice, for the invoker role and for the SRE role.                       *)
(*                                                                         *)
(* A process runs one command.  It may be killed, its writes may fail, and *)
(* tokens expire at any time.  Each process may be configured for another  *)
(* issuer and client.                                                      *)
(***************************************************************************)
EXTENDS Naturals

CONSTANTS Process,
          Issuer,    \* identity provider and client: issuerForConfig with its ClientID
          Command,   \* the command lines that are run
          Torn,      \* a cache file that is no scoped entry: empty, cut short, or an old format
          None

\* A command line: the command, whether --force-login, or --force of login, is on it, and
\* whether it logs in with a device code, OIDCUseDeviceCode.
CommandLine ==
  [cmd : {"login", "configure", "create-investigation", "start-task", "other"},
   flag : BOOLEAN, device : BOOLEAN]

ASSUME CommandAssumption == Command \subseteq CommandLine

VARIABLES
  issuer,    \* what each process is configured for
  cache,     \* the token cache file
  port,      \* the process that listens on the callback port
  tab,       \* the logins whose page has been opened in the browser
  proc       \* the state of each process

vars == <<issuer, cache, port, tab, proc>>

\* A token names its issuer, the process that obtained it, None for one of an earlier
\* command, and the login of that process.
Token == [iss : Issuer, by : Process \cup {None}, login : 0..3]

\* scopedToken, and what parseTokenExpiration makes of its token now.
Entry == [label : Issuer, token : Token, exp : {"valid", "expired", "malformed"}]

ASSUME NoneAssumption == None \notin Process \cup Token \cup Entry

ASSUME TornAssumption == Torn \notin Entry

\* The state that a browser login draws, which its page, and the code that comes of it, carry
\* along: it is the process and its login.
State == Process \X (1..3)

NoAnswer == <<None, 0>>
AuthError == <<None, 1>>

Stages ==
  {"idle", "first", "purgeFirst", "get", "purge", "login", "open", "await", "exchange", "poll",
   "save", "write", "assume", "clear", "lambda", "done", "failed"}

ProcessState ==
  [pc : Stages,
   line : CommandLine \cup {None},
   cached : Token \cup {None},  \* the first look at the cache
   token : Token \cup {None},   \* idToken
   login : 0..3,                \* logins begun
   role : {1, 2},               \* the role that is assumed: the first, or the SRE role of start-task
   retry : BOOLEAN,             \* STS has refused the cached token
   server : {"off", "starting", "listening"},
   answer : {NoAnswer, AuthError} \cup State,  \* the result of the callback server
   lost : BOOLEAN]              \* history: the token is not, or not for sure, in the cache any more

TypeOK ==
  /\ issuer \in [Process -> Issuer]
  /\ cache \in Entry \cup {Torn, None}
  /\ port \in Process \cup {None}
  /\ tab \in SUBSET State
  /\ proc \in [Process -> ProcessState]

Unstarted ==
  [pc |-> "idle", line |-> None, cached |-> None, token |-> None, login |-> 0, role |-> 1, retry |-> FALSE,
   server |-> "off", answer |-> NoAnswer, lost |-> FALSE]

\* What an earlier command has left in the cache.
Earlier == [label : Issuer, token : [iss : Issuer, by : {None}, login : {0}],
            exp : {"valid", "expired", "malformed"}]

Init ==
  /\ issuer \in [Process -> Issuer]
  /\ cache \in {Torn, None} \cup {e \in Earlier : e.label = e.token.iss}
  /\ port = None
  /\ tab = {}
  /\ proc = [p \in Process |-> Unstarted]

-----------------------------------------------------------------------------
(* Processes. *)

\* Whoever relies on a token of the cache has lost it when the cache changes.
AfterCache(q) ==
  IF cache' # cache /\ (proc[q].token # None \/ proc[q].role = 2)
  THEN [proc[q] EXCEPT !.lost = TRUE] ELSE proc[q]

\* p goes on as r.
Continue(p, r) == proc' = [q \in Process |-> IF q = p THEN r ELSE AfterCache(q)]

Goto(p, stage) == Continue(p, [proc[p] EXCEPT !.pc = stage])

\* The process is gone, and its listener with it.
End(p, outcome) ==
  /\ Continue(p, [Unstarted EXCEPT !.pc = outcome])
  /\ port' = IF port = p THEN None ELSE port

\* forceFreshLogin, and what the other commands make of their flag: start-task and
\* create-investigation have a flag of the same name of their own, which nothing reads, so
\* that the global one stays unset.
ForceFreshLogin(line) ==
  \/ line.cmd = "configure"
  \/ line.flag /\ line.cmd \notin {"start-task", "create-investigation"}

\* Only the first role is assumed with the flag.
ForceLogin(p) == proc[p].role = 1 /\ ForceFreshLogin(proc[p].line)

\* requiresAuth: the commands that authenticate before they run look at the cache first.
LooksFirst(line) == line.cmd \notin {"login", "configure"} /\ ~ForceFreshLogin(line)

\* The command is parsed and its configuration is read; a missing URL or role ends it.
Begin(p) ==
  /\ proc[p].pc = "idle"
  /\ UNCHANGED <<issuer, cache, port, tab>>
  /\ \/ \E line \in Command :
          Continue(p, [Unstarted EXCEPT !.line = line,
                                        !.pc = IF LooksFirst(line) THEN "first" ELSE "get"])
     \/ Goto(p, "failed")

\* Killed, or ended by an error that has no other effect: the terminal or the event stream
\* cannot be written, a random number cannot be drawn, a request cannot be made.
Stop(p) ==
  /\ proc[p].pc \notin {"idle", "done", "failed"}
  /\ UNCHANGED <<issuer, cache, tab>>
  /\ End(p, "failed")

-----------------------------------------------------------------------------
(* The token cache. *)

\* Fault: a token of another issuer or client is as good.
MutScoped(p) == cache \in Entry

\* An entry for the same issuer and client; anything else is a miss.
Scoped(p) == cache \in Entry /\ cache.label = issuer[p]

\* cachedTokenForIssuer: a token that has 30 seconds left.
CachedToken(p) == IF Scoped(p) /\ cache.exp = "valid" THEN cache.token ELSE None

FoundMalformed(p) == Scoped(p) /\ cache.exp = "malformed"

\* os.Remove of a cache that was found to be malformed, which by now may be another one.
Purge(p) ==
  /\ proc[p].pc \in {"purgeFirst", "purge"}
  /\ cache' \in {None, cache}
  /\ Goto(p, IF proc[p].pc = "purge" THEN "login" ELSE "get")
  /\ UNCHANGED <<issuer, port, tab>>

\* Fault: the issuer and client are saved without the token.
MutSaved(p) == Torn

\* saveToken
Saved(p) == [label |-> issuer[p], token |-> proc[p].token, exp |-> "valid"]

\* os.WriteFile truncates the file first.  When it cannot be opened, the token is used
\* all the same.
SaveToken(p) ==
  /\ proc[p].pc = "save"
  /\ \/ cache' = Torn /\ Goto(p, "write")
     \/ UNCHANGED cache /\ Continue(p, [proc[p] EXCEPT !.pc = "assume", !.lost = TRUE])
  /\ UNCHANGED <<issuer, port, tab>>

\* The rest of os.WriteFile.  The write may fail; it may also be short, or leave the tail of
\* an entry that another process wrote meanwhile; and it does not reach the cache when that
\* was removed meanwhile.
WriteToken(p) ==
  /\ proc[p].pc = "write"
  /\ \/ /\ cache' = Saved(p)
        /\ Continue(p, [proc[p] EXCEPT !.pc = "assume", !.lost = FALSE])
     \/ /\ cache' \in {Torn, cache}
        /\ Continue(p, [proc[p] EXCEPT !.pc = "assume", !.lost = TRUE])
  /\ UNCHANGED <<issuer, port, tab>>

\* ClearToken, whoever wrote the file last; a failure is only a debug message.
ClearToken(p) ==
  /\ proc[p].pc = "clear"
  /\ cache' \in {None, cache}
  /\ Continue(p, [proc[p] EXCEPT !.pc = "get", !.retry = TRUE, !.token = None])
  /\ UNCHANGED <<issuer, port, tab>>

\* The exp claim of the cached token comes within 30 seconds.
Expire ==
  /\ cache \in Entry /\ cache.exp = "valid"
  /\ cache' = [cache EXCEPT !.exp = "expired"]
  /\ proc' = [q \in Process |-> AfterCache(q)]
  /\ UNCHANGED <<issuer, port, tab>>

-----------------------------------------------------------------------------
(* GetTokenWithOptions. *)

\* The look at the cache that only decides whether a refusal is worth a retry.
FirstLook(p) ==
  /\ proc[p].pc = "first"
  /\ UNCHANGED <<issuer, cache, port, tab>>
  /\ Continue(p, [proc[p] EXCEPT !.cached = CachedToken(p),
                                 !.pc = IF FoundMalformed(p) THEN "purgeFirst" ELSE "get"])

\* Fault: the retry may take a token from the cache.
MutForced(p) == ForceLogin(p)

Forced(p) == ForceLogin(p) \/ proc[p].retry

GetToken(p) ==
  /\ proc[p].pc = "get"
  /\ UNCHANGED <<issuer, cache, port, tab>>
  /\ LET t == IF Forced(p) THEN None ELSE CachedToken(p)
     IN \/ /\ t # None
           /\ Continue(p, [proc[p] EXCEPT !.pc = "assume", !.token = t, !.lost = FALSE])
        \/ /\ t = None
           /\ Goto(p, IF ~Forced(p) /\ FoundMalformed(p) THEN "purge" ELSE "login")

NewToken(p) == [iss |-> issuer[p], by |-> p, login |-> proc[p].login]

\* A token that is malformed or about to expire ends the command, as does an error of the
\* provider.
Obtain(p) ==
  \/ /\ Continue(p, [proc[p] EXCEPT !.pc = "save", !.token = NewToken(p), !.answer = NoAnswer])
     /\ UNCHANGED port
  \/ End(p, "failed")

-----------------------------------------------------------------------------
(* Login with the browser. *)

\* acquireBrowserToken starts the callback server in a goroutine and goes on.
StartLogin(p) ==
  /\ proc[p].pc = "login"
  /\ ~proc[p].line.device
  /\ UNCHANGED <<issuer, cache, port, tab>>
  /\ Continue(p, [proc[p] EXCEPT !.pc = "open", !.login = @ + 1, !.server = "starting"])

\* startCallbackServer: the port may be taken by another login.
Listen(p) ==
  /\ proc[p].server = "starting"
  /\ UNCHANGED <<issuer, cache, tab>>
  /\ \/ /\ port = None
        /\ port' = p
        /\ Continue(p, [proc[p] EXCEPT !.server = "listening"])
     \/ /\ port # None
        /\ Continue(p, [proc[p] EXCEPT !.server = "off", !.answer = AuthError])
        /\ UNCHANGED port

\* The page is opened by the browser, or by the user, who is shown the URL: nothing waits for
\* the server.
OpenTab(p) ==
  /\ proc[p].pc \in {"open", "await"}
  /\ tab' = tab \cup {<<p, proc[p].login>>}
  /\ UNCHANGED <<issuer, cache, port, proc>>

\* openBrowser returns, when the command that it runs ends, which may be the browser itself.
OpenBrowser(p) ==
  /\ proc[p].pc = "open"
  /\ UNCHANGED <<issuer, cache, port, tab>>
  /\ Goto(p, "await")

\* Fault: a process draws its state once.
MutCallback(q, state) == IF state[1] = q THEN state ELSE AuthError

\* What the handler of q makes of the code and the state that a page brings: the state is
\* compared with that of the login.
Callback(q, state) == IF state = <<q, proc[q].login>> THEN state ELSE AuthError

\* A page, of whatever login, is redirected to the server of q that listens, with an error,
\* without a code, or with one.
Redirect(q) ==
  /\ port = q /\ proc[q].server = "listening" /\ proc[q].answer = NoAnswer
  /\ UNCHANGED <<issuer, cache, port, tab>>
  /\ \E state \in tab : \E answer \in {AuthError, Callback(q, state)} :
       Continue(q, [proc[q] EXCEPT !.answer = answer])

\* The server is shut down when it has an answer.
Shutdown(p) ==
  /\ proc[p].server = "listening" /\ proc[p].answer # NoAnswer
  /\ UNCHANGED <<issuer, cache, tab>>
  /\ Continue(p, [proc[p] EXCEPT !.server = "off"])
  /\ port' = None

\* Fault: the callback server waits for ever.
MutCallbackTimeout(p) == FALSE

\* 120 seconds, whether or not openBrowser has returned.  When an answer is there too, the
\* select takes either.
CallbackTimeout(p) ==
  /\ proc[p].server = "listening"
  /\ UNCHANGED <<issuer, cache, tab>>
  /\ Continue(p, [proc[p] EXCEPT !.server = "off", !.answer = AuthError])
  /\ port' = None

\* The result of the server is read only when openBrowser has returned.
AwaitCallback(p) ==
  /\ proc[p].pc = "await" /\ proc[p].server = "off"
  /\ UNCHANGED <<issuer, cache, tab>>
  /\ \/ proc[p].answer \in State /\ Goto(p, "exchange") /\ UNCHANGED port
     \/ proc[p].answer = AuthError /\ End(p, "failed")

\* exchangeCode, with the code of the answer and the verifier of this login.
ExchangeCode(p) ==
  /\ proc[p].pc = "exchange"
  /\ UNCHANGED <<issuer, cache, tab>>
  /\ Obtain(p)

-----------------------------------------------------------------------------
(* Login with a device code. *)

\* acquireDeviceToken asks for a challenge; one that is not sound is refused.
RequestDevice(p) ==
  /\ proc[p].pc = "login"
  /\ proc[p].line.device
  /\ UNCHANGED <<issuer, cache, tab>>
  /\ \/ /\ Continue(p, [proc[p] EXCEPT !.pc = "poll", !.login = @ + 1])
        /\ UNCHANGED port
     \/ End(p, "failed")

\* The user approves or denies, or the challenge expires; until then the loop goes on.
PollDevice(p) ==
  /\ proc[p].pc = "poll"
  /\ UNCHANGED <<issuer, cache, tab>>
  /\ Obtain(p)

-----------------------------------------------------------------------------
(* AssumeRoleWithWebIdentity. *)

StsErrors ==
  {"ExpiredToken", "InvalidClientTokenId", "InvalidIdentityToken", "InvalidIdentityToken: claim",
   "transitive tag key missing", "other"}

\* classifyKnownNegativeAuthError: a tag that the token announces and does not carry.
Classified(error, announced) ==
  IF error = "transitive tag key missing" /\ announced THEN "missing role" ELSE error

IsAuthError(error) == error \in {"ExpiredToken", "InvalidClientTokenId", "InvalidIdentityToken"}

\* Fault: any refusal is worth another login.
MutWorthRetry(p, error) == IsAuthError(error) /\ ~ForceLogin(p)

\* The token that was refused is the one that the first look had found.
WorthRetry(p, error) ==
  /\ IsAuthError(error)
  /\ ~ForceLogin(p)
  /\ proc[p].cached # None
  /\ proc[p].token = proc[p].cached

\* assumeRoleWithRetryOptions: the role is assumed.  start-task goes on to the Lambda, any
\* other command to its own work; login assumes no role at all.
Assumed(p) ==
  IF proc[p].line.cmd = "start-task" /\ proc[p].role = 1
  THEN Goto(p, "lambda") /\ UNCHANGED port
  ELSE End(p, "done")

\* configure assumes the invoker role without the retry, which its force excludes anyway.
Refused(p, error) ==
  IF WorthRetry(p, error) /\ ~proc[p].retry
  THEN Goto(p, "clear") /\ UNCHANGED port
  ELSE End(p, "failed")

AssumeRole(p) ==
  /\ proc[p].pc = "assume"
  /\ UNCHANGED <<issuer, cache, tab>>
  /\ \/ Assumed(p)
     \/ /\ proc[p].line.cmd # "login"
        /\ \E error \in StsErrors, announced \in BOOLEAN : Refused(p, Classified(error, announced))

\* runStartTask between its two roles: the Lambda has answered, and the SRE role is to be
\* assumed with the cache as it is now, and without force.
SecondRole(p) ==
  /\ proc[p].pc = "lambda"
  /\ UNCHANGED <<issuer, cache, port, tab>>
  /\ Continue(p, [proc[p] EXCEPT !.pc = "first", !.role = 2, !.cached = None, !.token = None,
                                 !.retry = FALSE])

-----------------------------------------------------------------------------
(* The specification. *)

\* What the process does of itself: its next call.
Run(p) ==
  \/ FirstLook(p) \/ Purge(p) \/ GetToken(p)
  \/ StartLogin(p) \/ OpenBrowser(p) \/ AwaitCallback(p) \/ ExchangeCode(p)
  \/ RequestDevice(p) \/ PollDevice(p)
  \/ SaveToken(p) \/ WriteToken(p) \/ AssumeRole(p) \/ ClearToken(p) \/ SecondRole(p)

\* The callback server, which runs beside.
Serve(p) == Listen(p) \/ Shutdown(p) \/ CallbackTimeout(p)

Next ==
  \/ \E p \in Process : Begin(p) \/ Stop(p) \/ Run(p) \/ Serve(p) \/ OpenTab(p) \/ Redirect(p)
  \/ Expire

Spec == Init /\ [][Next]_vars

\* What nothing bounds: the command that opens the browser, which may be the browser, and the
\* calls to STS and to the Lambda, which are made without a deadline.  login assumes no role.
Held(p) ==
  \/ proc[p].pc \in {"open", "lambda"}
  \/ proc[p].pc = "assume" /\ proc[p].line.cmd # "login"

\* Any other call has a deadline, of its own (30 seconds for the identity provider, the life
\* of the device challenge) or because it is local; the user owes nothing.
Fairness ==
  \A p \in Process :
    WF_vars(~Held(p) /\ Run(p)) /\ WF_vars(Listen(p)) /\ WF_vars(Shutdown(p)) /\ WF_vars(CallbackTimeout(p))

FairSpec == Spec /\ Fairness

-----------------------------------------------------------------------------
(* Properties. *)

Running(p) == proc[p].pc \notin {"idle", "done", "failed"}

\* What the cache holds under an issuer and client was obtained from it: whatever the order
\* in which commands of several configurations write, truncate, remove and expire the one
\* file, no entry is labelled for another issuer than its token's.
CacheHoldsIssued == cache \in Entry => cache.label = cache.token.iss

\* No command presents a token of another issuer or client than it is configured for, to STS
\* or to anyone, although all commands share the cache and a login may end in between
\* (token.go:30 "returns only tokens cached for this exact OIDC issuer and client").
TokenIsForIssuer == \A p \in Process : proc[p].token # None => proc[p].token.iss = issuer[p]

\* The user is asked to log in at most once for each role: a token that was obtained for it
\* is never thrown away, even if STS refuses it or the cache changed since the first look.
OneLoginPerRole == \A p \in Process : proc[p].login <= proc[p].role

\* The retry presents a new token: not the refused one, and none that another command has
\* put in the cache meanwhile.
RetryUsesNewToken ==
  \A p \in Process : proc[p].pc = "assume" /\ proc[p].retry =>
    /\ proc[p].token # proc[p].cached
    /\ proc[p].token.by = p

\* A login exchanges the code of its own page and no other: pages of earlier logins stay open,
\* of this process and of others, and each of them may be redirected to whichever server listens
\* on the one port, before or after it times out (callback.go:73-77, "state mismatch").
CodeForOwnLogin ==
  \A p \in Process : proc[p].pc = "exchange" => proc[p].answer = <<p, proc[p].login>>

\* start-task assumes the SRE role with the token of the invoker role ("should be cached",
\* start_task.go:149): it asks for a second login only if the cache could not be written, was
\* changed by another command, has expired, or STS refuses the token.
SilentSecondRole ==
  \A p \in Process :
    proc[p].role = 2 /\ proc[p].pc = "login" => proc[p].lost \/ proc[p].retry

\* A command ends, though the user never answers in the browser, the port is taken, or the
\* cache is torn, unless it stays for ever in the command that opens the browser or in a call to
\* AWS; and even then it does not keep the port, which the other commands need.
EveryCommandEnds ==
  \A p \in Process :
    /\ port = p ~> port # p
    /\ <>[]Held(p) \/ (Running(p) ~> ~Running(p))

=============================================================================
