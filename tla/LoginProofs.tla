----------------------------- MODULE LoginProofs -----------------------------
(***************************************************************************)
(* Theorems about Login, for any sets of processes, issuers and command    *)
(* lines.  One inductive invariant, AuthInv, carries all of them.  It says *)
(* of each process what it may know of itself at its stage (Local: the     *)
(* logins it has begun, the tokens it holds, the answer of its callback    *)
(* server, the login of the second role), and of the cache what the        *)
(* process may expect of it (Shared).                                      *)
(*                                                                         *)
(* A step changes one process by Continue, and the others at most by       *)
(* AfterCache.  ContinueKeeps and QuietStep state once what such a step owes; the       *)
(* lemmas about the actions then show that each action pays it.            *)
(***************************************************************************)
EXTENDS Login, TLAPS

\* The stages before a login is begun, and those between its beginning and its token.
BeforeLogin == {"idle", "first", "purgeFirst", "get", "purge", "login"}
InLogin == {"open", "await", "exchange", "poll", "save", "write"}

\* What NewToken gives to process p in state r.
TokenOf(p, r) == [iss |-> issuer[p], by |-> p, login |-> r.login]

\* A login is begun only when there is room for it: after a refusal of the cached token there
\* is, since a token that equals the cached one was not obtained by a login for this role.
LoginCount(p, r) ==
  /\ r.login <= r.role
  /\ r.pc = "idle" => r.login = 0
  /\ r.pc \in BeforeLogin \cup {"clear"} => r.login < r.role
  /\ r.pc = "lambda" => r.role = 1
  /\ r.pc = "assume" /\ r.token = r.cached => r.login < r.role

\* The cached token, if it is one of p's own, is older than the login that is under way.
CachedIsOlder(p, r) ==
  r.cached # None /\ r.cached.by = p =>
    /\ r.cached.login <= r.login
    /\ r.pc \in InLogin => r.cached.login < r.login

\* The token that a process holds.
HoldsOwn(p, r) ==
  /\ r.token # None => r.token.iss = issuer[p]
  /\ r.pc \in {"save", "write"} => r.token = TokenOf(p, r)
  /\ r.pc \in {"assume", "lambda"} => r.token # None
  /\ r.pc = "assume" /\ r.retry => r.token # r.cached /\ r.token.by = p

\* A callback server and its answer belong to the login that is under way, and a code to no
\* other.
OwnAnswer(p, r) ==
  /\ r.answer \in {NoAnswer, AuthError, <<p, r.login>>}
  /\ r.answer # NoAnswer => r.pc \in {"open", "await", "exchange"}
  /\ r.pc = "exchange" => r.answer = <<p, r.login>>
  /\ r.server # "off" => r.pc \in {"open", "await"}

\* The SRE role of start-task finds the token, unless it was lost or refused.
SecondIsSilent(r) ==
  r.role = 2 /\ r.pc \in {"purgeFirst", "purge", "login"} => r.lost \/ r.retry

\* A login is counted when it begins.
LoginBegun(r) == r.pc \in {"open", "await"} => r.login # 0

Local(p, r) ==
  /\ LoginBegun(r)
  /\ LoginCount(p, r) /\ CachedIsOlder(p, r) /\ HoldsOwn(p, r) /\ OwnAnswer(p, r)
  /\ SecondIsSilent(r)

\* A token of a running process that is in the cache is not from a login to come, and a token
\* that is not lost is there.
Shared(p, r) ==
  /\ r.pc \notin {"done", "failed"} /\ cache \in Entry /\ cache.token.by = p
       => cache.token.login <= r.login
  /\ ~r.lost /\ (r.pc \in {"assume", "lambda"} \/ (r.role = 2 /\ ~r.retry /\ r.pc \in {"first", "get"}))
       => Scoped(p) /\ cache.exp = "valid"

AuthInv ==
  /\ TypeOK
  /\ CacheHoldsIssued
  /\ \A p \in Process : Local(p, proc[p]) /\ Shared(p, proc[p])

-----------------------------------------------------------------------------
(* What a step owes. *)

\* The cache after a step of p: nothing that can be used, the token that was there, or one
\* of p.
CacheStep(p) ==
  /\ cache' \in Entry \cup {Torn, None}
  /\ CacheHoldsIssued'
  /\ cache' \in Entry => cache'.token.by = p \/ (cache \in Entry /\ cache'.token = cache.token)

\* A process that only sees the cache change keeps its part of the invariant: its flag lost
\* is set when it needs to be.
LEMMA OtherKeeps ==
  ASSUME AuthInv, UNCHANGED issuer, NEW q \in Process, proc'[q] = AfterCache(q),
         cache' \in Entry => cache'.token.by # q \/ (cache \in Entry /\ cache'.token = cache.token)
  PROVE  proc'[q] \in ProcessState /\ Local(q, proc[q])' /\ Shared(q, proc[q])'
<1>1. proc[q] \in ProcessState /\ Local(q, proc[q]) /\ Shared(q, proc[q])
  BY DEF AuthInv, TypeOK
<1>2. CASE cache' # cache /\ (proc[q].token # None \/ proc[q].role = 2)
  <2>1. proc'[q] = [proc[q] EXCEPT !.lost = TRUE]
    BY <1>2 DEF AfterCache
  <2>2. proc'[q] \in ProcessState
    BY <1>1, <2>1 DEF ProcessState
  <2>3. Local(q, proc[q])'
    BY <1>1, <2>1 DEF Local, LoginCount, CachedIsOlder, LoginBegun, HoldsOwn, TokenOf, OwnAnswer,
                        SecondIsSilent, ProcessState
  <2>4. Shared(q, proc[q])'
    BY <1>1, <2>1 DEF Shared, ProcessState
  <2>. QED BY <2>2, <2>3, <2>4
<1>3. CASE ~(cache' # cache /\ (proc[q].token # None \/ proc[q].role = 2))
  <2>1. proc'[q] = proc[q]
    BY <1>3 DEF AfterCache
  <2>2. Local(q, proc[q])'
    BY <1>1, <2>1 DEF Local, LoginCount, CachedIsOlder, LoginBegun, HoldsOwn, TokenOf, OwnAnswer, SecondIsSilent
  <2>3. Shared(q, proc[q])'
    BY <1>1, <1>3, <2>1 DEF Shared, Local, HoldsOwn, Scoped, ProcessState
  <2>. QED BY <1>1, <2>1, <2>2, <2>3
<1>. QED BY <1>2, <1>3

\* The other processes at a step of p.
OthersContinue(p) ==
  proc' = [q \in Process |-> IF q = p THEN proc'[p] ELSE AfterCache(q)]

\* A step of p, that pays for what p becomes and what the cache becomes, keeps the invariant.
LEMMA ContinueKeeps ==
  ASSUME AuthInv, UNCHANGED issuer, NEW p \in Process, OthersContinue(p), CacheStep(p),
         port' \in Process \cup {None}, tab' \in SUBSET State,
         proc'[p] \in ProcessState, Local(p, proc[p])', Shared(p, proc[p])'
  PROVE  AuthInv'
<1>1. \A q \in Process : proc'[q] \in ProcessState /\ Local(q, proc[q])' /\ Shared(q, proc[q])'
  <2>. SUFFICES ASSUME NEW q \in Process, q # p
                PROVE  proc'[q] \in ProcessState /\ Local(q, proc[q])' /\ Shared(q, proc[q])'
    OBVIOUS
  <2>1. proc'[q] = AfterCache(q)
    BY DEF OthersContinue
  <2>2. cache' \in Entry => cache'.token.by # q \/ (cache \in Entry /\ cache'.token = cache.token)
    BY DEF CacheStep
  <2>. QED BY <2>1, <2>2, OtherKeeps
<1>2. proc' \in [Process -> ProcessState]
  BY <1>1 DEF OthersContinue
<1>3. TypeOK'
  BY <1>2 DEF TypeOK, CacheStep, AuthInv
<1>. QED BY <1>1, <1>3 DEF AuthInv, CacheStep

\* A step that leaves the cache alone owes only its own part.
LEMMA QuietStep ==
  ASSUME AuthInv, UNCHANGED <<issuer, cache, tab>>, NEW p \in Process, OthersContinue(p),
         port' \in Process \cup {None},
         proc'[p] \in ProcessState, Local(p, proc[p])', Shared(p, proc[p])'
  PROVE  AuthInv'
<1>1. CacheStep(p)
  BY DEF CacheStep, AuthInv, TypeOK, CacheHoldsIssued
<1>2. tab' \in SUBSET State
  BY DEF AuthInv, TypeOK
<1>. QED BY <1>1, <1>2, ContinueKeeps

\* The end of a command, which leaves nothing of it.
LEMMA EndKeeps ==
  ASSUME AuthInv, UNCHANGED <<issuer, cache, tab>>, NEW p \in Process,
         NEW outcome \in {"done", "failed"}, End(p, outcome)
  PROVE  AuthInv'
<1>1. proc'[p] = [Unstarted EXCEPT !.pc = outcome]
  BY DEF End, Continue
<1>2. OthersContinue(p)
  BY <1>1 DEF End, Continue, OthersContinue
<1>3. proc'[p] \in ProcessState
  <2>1. Unstarted \in ProcessState
    BY DEF ProcessState, Stages, Unstarted
  <2>. QED BY <1>1, <2>1 DEF ProcessState, Stages
<1>4. Local(p, proc[p])'
  BY <1>1 DEF Local, LoginCount, CachedIsOlder, LoginBegun, HoldsOwn, OwnAnswer, SecondIsSilent,
                Unstarted, BeforeLogin
<1>5. Shared(p, proc[p])'
  BY <1>1 DEF Shared, Unstarted
<1>6. port' \in Process \cup {None}
  BY DEF End, AuthInv, TypeOK
<1>. QED BY <1>2, <1>3, <1>4, <1>5, <1>6, QuietStep

-----------------------------------------------------------------------------
(* What the actions pay. *)

\* The facts about one process that every lemma below starts from.
LEMMA Known ==
  ASSUME AuthInv, NEW p \in Process
  PROVE  /\ proc[p] \in ProcessState /\ Local(p, proc[p]) /\ Shared(p, proc[p])
         /\ issuer[p] \in Issuer /\ port \in Process \cup {None} /\ tab \in SUBSET State
         /\ cache \in Entry \cup {Torn, None} /\ CacheHoldsIssued
BY DEF AuthInv, TypeOK

\* A command begins: a process that has not run has no token in the cache.
LEMMA BeginKeeps ==
  ASSUME AuthInv, NEW p \in Process, Begin(p) PROVE AuthInv'
<1>1. /\ OthersContinue(p)
      /\ UNCHANGED <<issuer, cache, port, tab>> /\ proc[p].pc = "idle"
  BY DEF Begin, Goto, Continue, OthersContinue
<1>2. \/ proc'[p] = [proc[p] EXCEPT !.pc = "failed"]
      \/ \E line \in CommandLine, stage \in {"first", "get"} :
           proc'[p] = [Unstarted EXCEPT !.line = line, !.pc = stage]
  BY CommandAssumption DEF Begin, Goto, Continue
<1>3. Unstarted \in ProcessState
  BY DEF Unstarted, ProcessState, Stages
<1>4. proc'[p] \in ProcessState
  <2>1. CASE proc'[p] = [proc[p] EXCEPT !.pc = "failed"]
    BY <2>1, Known DEF ProcessState, Stages
  <2>2. ASSUME NEW line \in CommandLine, NEW stage \in {"first", "get"},
               proc'[p] = [Unstarted EXCEPT !.line = line, !.pc = stage]
        PROVE  proc'[p] \in ProcessState
    BY <1>3, <2>2 DEF ProcessState, Stages
  <2>. QED BY <1>2, <2>1, <2>2
<1>5. CASE proc'[p] = [proc[p] EXCEPT !.pc = "failed"]
  <2>1. Local(p, proc[p])'
    <3>1. (LoginCount(p, proc[p]) /\ CachedIsOlder(p, proc[p]))'
      BY <1>1, <1>5, Known DEF Local, LoginCount, CachedIsOlder, BeforeLogin, InLogin, ProcessState
    <3>2. (LoginBegun(proc[p]) /\ HoldsOwn(p, proc[p]) /\ OwnAnswer(p, proc[p]) /\ SecondIsSilent(proc[p]))'
      BY <1>1, <1>5, Known DEF Local, LoginBegun, HoldsOwn, OwnAnswer, SecondIsSilent, ProcessState
    <3>. QED BY <3>1, <3>2 DEF Local
  <2>2. Shared(p, proc[p])'
    BY <1>1, <1>5, Known DEF Shared, ProcessState
  <2>. QED BY <1>1, <1>4, <2>1, <2>2, Known, QuietStep
<1>6. ASSUME NEW line \in CommandLine, NEW stage \in {"first", "get"},
             proc'[p] = [Unstarted EXCEPT !.line = line, !.pc = stage]
      PROVE  AuthInv'
  <2>1. /\ proc'[p].pc = stage /\ proc'[p].login = 0 /\ proc'[p].role = 1
        /\ proc'[p].token = None /\ proc'[p].cached = None /\ proc'[p].answer = NoAnswer
        /\ proc'[p].server = "off"
    BY <1>6 DEF Unstarted
  <2>2. Local(p, proc[p])'
    BY <2>1 DEF Local, LoginCount, CachedIsOlder, LoginBegun, HoldsOwn, OwnAnswer, SecondIsSilent, InLogin
  <2>3. proc[p].login = 0
    BY <1>1, Known DEF Local, LoginCount
  <2>4. Shared(p, proc[p])'
    BY <1>1, <2>1, <2>3, Known DEF Shared
  <2>. QED BY <1>1, <1>4, <2>2, <2>4, Known, QuietStep
<1>. QED BY <1>2, <1>5, <1>6

\* The first look at the cache: what it finds of p's own is not newer than p's logins.
LEMMA FirstLookKeeps ==
  ASSUME AuthInv, NEW p \in Process, FirstLook(p) PROVE AuthInv'
<1>1. /\ OthersContinue(p)
      /\ UNCHANGED <<issuer, cache, port, tab>> /\ proc[p].pc = "first"
  BY DEF FirstLook, Continue, OthersContinue
<1>2. PICK stage \in {"purgeFirst", "get"} :
        /\ proc'[p] = [proc[p] EXCEPT !.cached = CachedToken(p), !.pc = stage]
        /\ stage = "purgeFirst" => FoundMalformed(p)
  BY DEF FirstLook, Continue
<1>3. CachedToken(p) \in Token \cup {None}
  BY DEF CachedToken, Scoped, Entry
<1>4. proc'[p] \in ProcessState
  BY <1>2, <1>3, Known DEF ProcessState, Stages
<1>5. Local(p, proc[p])'
  BY <1>1, <1>2, Known DEF Local, LoginCount, CachedIsOlder, LoginBegun, HoldsOwn, TokenOf, OwnAnswer,
                   SecondIsSilent, BeforeLogin, InLogin, ProcessState,
                   Shared, CachedToken, FoundMalformed, Scoped
<1>6. Shared(p, proc[p])'
  BY <1>1, <1>2, Known DEF Shared, Scoped, ProcessState
<1>. QED BY <1>1, <1>4, <1>5, <1>6, Known, QuietStep

\* The token is taken from the cache, or a login is due.  The second role comes to a login
\* only if its token is lost or refused.
LEMMA GetTokenKeeps ==
  ASSUME AuthInv, NEW p \in Process, GetToken(p) PROVE AuthInv'
<1>1. /\ OthersContinue(p)
      /\ UNCHANGED <<issuer, cache, port, tab>> /\ proc[p].pc = "get"
  BY DEF GetToken, Goto, Continue, OthersContinue
<1>2. CASE /\ ~Forced(p) /\ CachedToken(p) # None
           /\ proc'[p] = [proc[p] EXCEPT !.pc = "assume", !.token = CachedToken(p), !.lost = FALSE]
  <2>1. /\ CachedToken(p) = cache.token /\ cache \in Entry /\ cache.token \in Token
        /\ cache.token.iss = issuer[p] /\ Scoped(p) /\ cache.exp = "valid"
    BY <1>2, Known DEF CachedToken, Scoped, Entry, CacheHoldsIssued
  <2>2. proc'[p] \in ProcessState
    BY <1>2, <2>1, Known DEF ProcessState, Stages
  <2>3. Local(p, proc[p])'
    <3>1. /\ proc'[p].pc = "assume" /\ proc'[p].token = cache.token
          /\ UNCHANGED <<proc[p].login, proc[p].role, proc[p].cached, proc[p].retry,
                         proc[p].answer, proc[p].server>>
      BY <1>2, <2>1, Known DEF ProcessState
    <3>2. proc[p].retry = FALSE /\ cache.token # None
      BY <1>2, <2>1, Known DEF Forced, ProcessState
    <3>3. (LoginCount(p, proc[p]) /\ CachedIsOlder(p, proc[p]))'
      BY <1>1, <3>1, Known DEF Local, LoginCount, CachedIsOlder, BeforeLogin, InLogin
    <3>4. (LoginBegun(proc[p]) /\ HoldsOwn(p, proc[p]) /\ OwnAnswer(p, proc[p]) /\ SecondIsSilent(proc[p]))'
      BY <1>1, <2>1, <3>1, <3>2, Known DEF Local, LoginBegun, HoldsOwn, OwnAnswer, SecondIsSilent
    <3>. QED BY <3>3, <3>4 DEF Local
  <2>4. Shared(p, proc[p])'
    BY <1>1, <1>2, <2>1, Known DEF Shared, Scoped, ProcessState
  <2>. QED BY <1>1, <2>2, <2>3, <2>4, Known, QuietStep
<1>3. CASE /\ Forced(p) \/ CachedToken(p) = None
           /\ \E stage \in {"purge", "login"} : proc'[p] = [proc[p] EXCEPT !.pc = stage]
  <2>1. proc'[p] \in ProcessState
    BY <1>3, Known DEF ProcessState, Stages
  <2>2. proc[p].role = 2 => proc[p].lost \/ proc[p].retry
    BY <1>1, <1>3, Known, NoneAssumption
       DEF Shared, CachedToken, Scoped, Entry, Forced, ForceLogin, ProcessState
  <2>3. Local(p, proc[p])'
    BY <1>1, <1>3, <2>2, Known DEF Local, LoginCount, CachedIsOlder, LoginBegun, HoldsOwn, TokenOf, OwnAnswer,
                   SecondIsSilent, BeforeLogin, InLogin, ProcessState
  <2>4. Shared(p, proc[p])'
    BY <1>1, <1>3, Known DEF Shared, Scoped, ProcessState
  <2>. QED BY <1>1, <2>1, <2>3, <2>4, Known, QuietStep
<1>. QED BY <1>2, <1>3 DEF GetToken, Goto, Continue

\* From the answer of STS to the Lambda, or to the removal of a token that was no login's.
LEMMA AnsweredKeeps ==
  ASSUME AuthInv, NEW p \in Process, NEW stage \in {"lambda", "clear"},
         UNCHANGED <<issuer, cache, port, tab>>, OthersContinue(p), proc[p].pc = "assume",
         proc'[p] = [proc[p] EXCEPT !.pc = stage],
         stage = "lambda" => proc[p].role = 1,
         stage = "clear" => proc[p].login < proc[p].role
  PROVE  AuthInv'
<1>1. proc'[p] \in ProcessState
  BY Known DEF ProcessState, Stages
<1>2. (LoginCount(p, proc[p]) /\ CachedIsOlder(p, proc[p]))'
  BY Known DEF Local, LoginCount, CachedIsOlder, BeforeLogin, InLogin, ProcessState
<1>3. (LoginBegun(proc[p]) /\ HoldsOwn(p, proc[p]) /\ OwnAnswer(p, proc[p]) /\ SecondIsSilent(proc[p]))'
  BY Known DEF Local, LoginBegun, HoldsOwn, OwnAnswer, SecondIsSilent, ProcessState
<1>4. Shared(p, proc[p])'
  BY Known DEF Shared, Scoped, ProcessState
<1>. QED BY <1>1, <1>2, <1>3, <1>4, Known, QuietStep DEF Local

\* What stands for no code is the state of no login.
LEMMA Answers == NoAnswer \notin State /\ AuthError \notin State /\ NoAnswer # AuthError
BY NoneAssumption DEF NoAnswer, AuthError, State

\* A login that waits for its callback has begun.
LEMMA StateIsDrawn ==
  ASSUME AuthInv, NEW p \in Process, proc[p].pc \in {"open", "await"}
  PROVE  <<p, proc[p].login>> \in State
<1>1. proc[p].login \in 0..3
  BY Known DEF ProcessState
<1>2. proc[p].login # 0
  BY Known DEF Local, LoginBegun
<1>. QED BY <1>1, <1>2 DEF State

\* The browser's command has returned.
LEMMA OpenBrowserKeeps ==
  ASSUME AuthInv, NEW p \in Process, OpenBrowser(p) PROVE AuthInv'
<1>1. /\ OthersContinue(p) /\ proc'[p] = [proc[p] EXCEPT !.pc = "await"]
      /\ UNCHANGED <<issuer, cache, port, tab>> /\ proc[p].pc = "open"
  BY DEF OpenBrowser, Goto, Continue, OthersContinue
<1>2. proc'[p] \in ProcessState
  BY <1>1, Known DEF ProcessState, Stages
<1>3. (LoginCount(p, proc[p]) /\ CachedIsOlder(p, proc[p]))'
  BY <1>1, Known DEF Local, LoginCount, CachedIsOlder, BeforeLogin, InLogin, ProcessState
<1>4. (LoginBegun(proc[p]) /\ HoldsOwn(p, proc[p]) /\ OwnAnswer(p, proc[p]) /\ SecondIsSilent(proc[p]))'
  BY <1>1, Known DEF Local, LoginBegun, HoldsOwn, OwnAnswer, SecondIsSilent, ProcessState
<1>5. Shared(p, proc[p])'
  BY <1>1, Known DEF Shared, Scoped, ProcessState
<1>. QED BY <1>1, <1>2, <1>3, <1>4, <1>5, Known, QuietStep DEF Local

\* A page is opened, of a login that has begun.
LEMMA OpenTabKeeps ==
  ASSUME AuthInv, NEW p \in Process, OpenTab(p) PROVE AuthInv'
<1>1. /\ UNCHANGED <<issuer, cache, port, proc>> /\ tab' = tab \cup {<<p, proc[p].login>>}
      /\ proc[p].pc \in {"open", "await"}
  BY DEF OpenTab
<1>2. <<p, proc[p].login>> \in State
  BY <1>1, StateIsDrawn
<1>3. tab' \in SUBSET State
  BY <1>1, <1>2, Known
<1>4. TypeOK'
  BY <1>1, <1>3 DEF AuthInv, TypeOK
<1>5. \A q \in Process : Local(q, proc[q])' /\ Shared(q, proc[q])'
  BY <1>1 DEF AuthInv, Local, LoginCount, CachedIsOlder, LoginBegun, HoldsOwn, TokenOf, OwnAnswer,
              SecondIsSilent, Shared, Scoped
<1>. QED BY <1>1, <1>4, <1>5 DEF AuthInv, CacheHoldsIssued

\* A login is begun, for which LoginCount has left room: what is cached becomes older than it.
LEMMA LoginKeeps ==
  ASSUME AuthInv, NEW p \in Process, NEW stage \in {"open", "poll"},
         UNCHANGED <<issuer, cache, port, tab>>, OthersContinue(p), proc[p].pc = "login",
         NEW server \in {"off", "starting", "listening"}, stage = "poll" => server = "off",
         proc'[p] = [proc[p] EXCEPT !.pc = stage, !.login = @ + 1, !.server = server]
  PROVE  AuthInv'
<1>1. /\ proc'[p].pc = stage /\ proc'[p].login = proc[p].login + 1 /\ proc'[p].server = server
      /\ UNCHANGED <<proc[p].token, proc[p].role, proc[p].cached, proc[p].retry,
                     proc[p].answer, proc[p].lost>>
      /\ proc[p].login \in 0..3 /\ proc[p].login < proc[p].role /\ proc[p].role \in {1, 2}
      /\ proc[p].cached \in Token \cup {None}
  BY Known DEF ProcessState, Local, LoginCount, BeforeLogin
<1>2. proc'[p] \in ProcessState
  <2>1. proc[p].login + 1 \in 0..3
    BY <1>1
  <2>. QED BY <2>1, Known DEF ProcessState, Stages
<1>3. LoginCount(p, proc[p])'
  BY <1>1 DEF LoginCount, BeforeLogin
<1>4. proc[p].cached # None => proc[p].cached.login \in 0..3
  BY <1>1 DEF Token
<1>5. CachedIsOlder(p, proc[p])'
  BY <1>1, <1>4, Known DEF Local, CachedIsOlder
<1>6. (LoginBegun(proc[p]) /\ HoldsOwn(p, proc[p]) /\ OwnAnswer(p, proc[p]) /\ SecondIsSilent(proc[p]))'
  BY <1>1, Known DEF Local, LoginBegun, HoldsOwn, OwnAnswer, SecondIsSilent
<1>7. cache \in Entry => cache.token.login \in 0..3
  BY DEF Entry, Token
<1>8. Shared(p, proc[p])'
  BY <1>1, <1>7, Known DEF Shared
<1>. QED BY <1>2, <1>3, <1>5, <1>6, <1>8, Known, QuietStep DEF Local

\* A login ends with a token, which is p's newest, or the command ends.
LEMMA ObtainKeeps ==
  ASSUME AuthInv, NEW p \in Process, proc[p].pc \in {"exchange", "poll"},
         UNCHANGED <<issuer, cache, tab>>, Obtain(p)
  PROVE  AuthInv'
<1>1. CASE /\ Continue(p, [proc[p] EXCEPT !.pc = "save", !.token = NewToken(p), !.answer = NoAnswer])
           /\ UNCHANGED port
  <2>1. /\ OthersContinue(p)
        /\ proc'[p] = [proc[p] EXCEPT !.pc = "save", !.token = NewToken(p), !.answer = NoAnswer]
    BY <1>1 DEF Continue, OthersContinue
  <2>2. NewToken(p) \in Token
    BY Known DEF NewToken, Token, ProcessState
  <2>3. proc'[p] \in ProcessState
    BY <2>1, <2>2, Known DEF ProcessState, Stages
  <2>4. /\ proc'[p].pc = "save" /\ proc'[p].token = NewToken(p) /\ proc'[p].answer = NoAnswer
        /\ UNCHANGED <<proc[p].login, proc[p].role, proc[p].cached, proc[p].retry, proc[p].server,
                       proc[p].lost>>
    BY <2>1, Known DEF ProcessState
  <2>5. (LoginCount(p, proc[p]) /\ CachedIsOlder(p, proc[p]))'
    BY <2>4, Known DEF Local, LoginCount, CachedIsOlder, BeforeLogin, InLogin
  <2>6. (LoginBegun(proc[p]) /\ HoldsOwn(p, proc[p]) /\ OwnAnswer(p, proc[p]) /\ SecondIsSilent(proc[p]))'
    BY <2>4, Known DEF Local, LoginBegun, HoldsOwn, OwnAnswer, SecondIsSilent, TokenOf, NewToken
  <2>7. Shared(p, proc[p])'
    BY <2>4, Known DEF Shared
  <2>. QED BY <1>1, <2>1, <2>3, <2>5, <2>6, <2>7, Known, QuietStep DEF Local
<1>. QED BY <1>1, EndKeeps DEF Obtain

\* The callback server passes on an answer, or gives up, or could not listen.
LEMMA ServerKeeps ==
  ASSUME AuthInv, NEW p \in Process, UNCHANGED <<issuer, cache, tab>>, OthersContinue(p),
         proc[p].pc \in {"open", "await"},
         NEW server \in {"off", "starting", "listening"},
         NEW answer \in {NoAnswer, AuthError, <<p, proc[p].login>>},
         proc'[p] = [proc[p] EXCEPT !.server = server, !.answer = answer],
         port' \in Process \cup {None}
  PROVE  AuthInv'
<1>1. proc'[p] \in ProcessState
  <2>1. answer \in {NoAnswer, AuthError} \cup State
    BY StateIsDrawn
  <2>. QED BY <2>1, Known DEF ProcessState
<1>2. (LoginCount(p, proc[p]) /\ CachedIsOlder(p, proc[p]))'
  BY Known DEF Local, LoginCount, CachedIsOlder, BeforeLogin, InLogin, ProcessState
<1>3. (LoginBegun(proc[p]) /\ HoldsOwn(p, proc[p]) /\ OwnAnswer(p, proc[p]) /\ SecondIsSilent(proc[p]))'
  BY Known DEF Local, LoginBegun, HoldsOwn, TokenOf, OwnAnswer, SecondIsSilent, ProcessState
<1>4. Shared(p, proc[p])'
  BY Known DEF Shared, Scoped, ProcessState
<1>. QED BY <1>1, <1>2, <1>3, <1>4, Known, QuietStep DEF Local

\* The steps of the callback server, and the redirects that reach it.
LEMMA CallbacksKeep ==
  ASSUME AuthInv, NEW p \in Process, Serve(p) \/ Redirect(p) PROVE AuthInv'
<1>0. /\ proc[p].server # "off" => proc[p].pc \in {"open", "await"}
      /\ proc[p].server \in {"off", "starting", "listening"}
      /\ proc[p].answer \in {NoAnswer, AuthError, <<p, proc[p].login>>}
  BY Known DEF Local, OwnAnswer, ProcessState
<1>1. CASE Listen(p)
  <2>1. /\ UNCHANGED <<issuer, cache, tab>> /\ OthersContinue(p)
        /\ port' \in Process \cup {None}
    BY <1>1, Known DEF Listen, Continue, OthersContinue
  <2>2. CASE proc'[p] = [proc[p] EXCEPT !.server = "listening"]
    <3>1. proc'[p] = [proc[p] EXCEPT !.server = "listening", !.answer = proc[p].answer]
      BY <2>2, Known DEF ProcessState
    <3>. QED BY <1>0, <1>1, <2>1, <3>1, ServerKeeps DEF Listen
  <2>3. CASE proc'[p] = [proc[p] EXCEPT !.server = "off", !.answer = AuthError]
    BY <1>0, <1>1, <2>1, <2>3, ServerKeeps DEF Listen
  <2>. QED BY <1>1, <2>2, <2>3 DEF Listen, Continue
<1>2. CASE CallbackTimeout(p)
  <2>1. /\ UNCHANGED <<issuer, cache, tab>> /\ OthersContinue(p)
        /\ port' \in Process \cup {None} /\ proc[p].server = "listening"
        /\ proc'[p] = [proc[p] EXCEPT !.server = "off", !.answer = AuthError]
    BY <1>2 DEF CallbackTimeout, Continue, OthersContinue
  <2>. QED BY <1>0, <2>1, ServerKeeps
<1>3. CASE Shutdown(p)
  <2>1. /\ UNCHANGED <<issuer, cache, tab>> /\ OthersContinue(p)
        /\ port' \in Process \cup {None} /\ proc[p].server = "listening"
        /\ proc'[p] = [proc[p] EXCEPT !.server = "off"]
    BY <1>3 DEF Shutdown, Continue, OthersContinue
  <2>2. proc'[p] = [proc[p] EXCEPT !.server = "off", !.answer = proc[p].answer]
    BY <2>1, Known DEF ProcessState
  <2>. QED BY <1>0, <2>1, <2>2, ServerKeeps
<1>4. CASE Redirect(p)
  <2>1. PICK state \in tab : \E answer \in {AuthError, Callback(p, state)} :
          Continue(p, [proc[p] EXCEPT !.answer = answer])
    BY <1>4 DEF Redirect
  <2>2. PICK answer \in {AuthError, <<p, proc[p].login>>} :
          Continue(p, [proc[p] EXCEPT !.answer = answer])
    BY <2>1 DEF Callback
  <2>3. /\ UNCHANGED <<issuer, cache, port, tab>> /\ OthersContinue(p)
        /\ proc'[p] = [proc[p] EXCEPT !.answer = answer] /\ proc[p].server = "listening"
    BY <1>4, <2>2 DEF Redirect, Continue, OthersContinue
  <2>4. proc'[p] = [proc[p] EXCEPT !.server = proc[p].server, !.answer = answer]
    BY <2>3, Known DEF ProcessState
  <2>. QED BY <1>0, <2>3, <2>4, Known, ServerKeeps
<1>. QED BY <1>1, <1>2, <1>3, <1>4 DEF Serve

\* The callback server has answered.
LEMMA AwaitCallbackKeeps ==
  ASSUME AuthInv, NEW p \in Process, AwaitCallback(p) PROVE AuthInv'
<1>1. CASE proc[p].answer \in State /\ Goto(p, "exchange") /\ UNCHANGED port
  <2>1. /\ OthersContinue(p) /\ UNCHANGED <<issuer, cache, tab, port>>
        /\ proc'[p] = [proc[p] EXCEPT !.pc = "exchange"]
        /\ proc[p].pc = "await" /\ proc[p].server = "off"
    BY <1>1 DEF AwaitCallback, Goto, Continue, OthersContinue
  <2>2. proc'[p] \in ProcessState
    BY <2>1, Known DEF ProcessState, Stages
  <2>3. (LoginCount(p, proc[p]) /\ CachedIsOlder(p, proc[p]))'
    BY <2>1, Known DEF Local, LoginCount, CachedIsOlder, BeforeLogin, InLogin, ProcessState
  <2>4. proc[p].answer = <<p, proc[p].login>>
    BY <1>1, Answers, Known DEF Local, OwnAnswer
  <2>5. (LoginBegun(proc[p]) /\ HoldsOwn(p, proc[p]) /\ OwnAnswer(p, proc[p]) /\ SecondIsSilent(proc[p]))'
    BY <2>1, <2>4, Known DEF Local, LoginBegun, HoldsOwn, OwnAnswer, SecondIsSilent, ProcessState
  <2>6. Shared(p, proc[p])'
    BY <2>1, Known DEF Shared, Scoped, ProcessState
  <2>. QED BY <2>1, <2>2, <2>3, <2>5, <2>6, Known, QuietStep DEF Local
<1>. QED BY <1>1, EndKeeps DEF AwaitCallback

\* A malformed cache is removed, or whatever is there by now.  The second role has an excuse.
LEMMA PurgeKeeps ==
  ASSUME AuthInv, NEW p \in Process, Purge(p) PROVE AuthInv'
<1>1. PICK stage \in {"get", "login"} :
        /\ OthersContinue(p) /\ UNCHANGED <<issuer, port, tab>> /\ cache' \in {None, cache}
        /\ proc'[p] = [proc[p] EXCEPT !.pc = stage] /\ proc[p].pc \in {"purgeFirst", "purge"}
  BY DEF Purge, Goto, Continue, OthersContinue
<1>2. CacheStep(p)
  BY <1>1, Known, NoneAssumption DEF CacheStep, CacheHoldsIssued
<1>3. proc'[p] \in ProcessState
  BY <1>1, Known DEF ProcessState, Stages
<1>4. proc[p].role = 2 => proc[p].lost \/ proc[p].retry
  BY <1>1, Known DEF Local, SecondIsSilent
<1>5. (LoginCount(p, proc[p]) /\ CachedIsOlder(p, proc[p]))'
  BY <1>1, Known DEF Local, LoginCount, CachedIsOlder, BeforeLogin, InLogin, ProcessState
<1>6. (LoginBegun(proc[p]) /\ HoldsOwn(p, proc[p]) /\ OwnAnswer(p, proc[p]) /\ SecondIsSilent(proc[p]))'
  BY <1>1, <1>4, Known DEF Local, LoginBegun, HoldsOwn, OwnAnswer, SecondIsSilent, ProcessState
<1>7. Shared(p, proc[p])'
  BY <1>1, <1>4, Known, NoneAssumption DEF Shared, ProcessState
<1>. QED BY <1>1, <1>2, <1>3, <1>5, <1>6, <1>7, Known, ContinueKeeps DEF Local

\* The refused token is removed; the retry has room for a login.
LEMMA ClearTokenKeeps ==
  ASSUME AuthInv, NEW p \in Process, ClearToken(p) PROVE AuthInv'
<1>1. /\ OthersContinue(p) /\ UNCHANGED <<issuer, port, tab>> /\ cache' \in {None, cache}
      /\ proc'[p] = [proc[p] EXCEPT !.pc = "get", !.retry = TRUE, !.token = None]
      /\ proc[p].pc = "clear"
  BY DEF ClearToken, Continue, OthersContinue
<1>2. CacheStep(p)
  BY <1>1, Known, NoneAssumption DEF CacheStep, CacheHoldsIssued
<1>3. proc'[p] \in ProcessState
  BY <1>1, Known DEF ProcessState, Stages
<1>4. (LoginCount(p, proc[p]) /\ CachedIsOlder(p, proc[p]))'
  BY <1>1, Known DEF Local, LoginCount, CachedIsOlder, BeforeLogin, InLogin, ProcessState
<1>5. (LoginBegun(proc[p]) /\ HoldsOwn(p, proc[p]) /\ OwnAnswer(p, proc[p]) /\ SecondIsSilent(proc[p]))'
  BY <1>1, Known DEF Local, LoginBegun, HoldsOwn, OwnAnswer, SecondIsSilent, ProcessState
<1>6. Shared(p, proc[p])'
  BY <1>1, Known, NoneAssumption DEF Shared, ProcessState
<1>. QED BY <1>1, <1>2, <1>3, <1>4, <1>5, <1>6, Known, ContinueKeeps DEF Local

\* A token that has just been obtained is no other than the newest, and not the cached one.
LEMMA NewTokenIsNew ==
  ASSUME AuthInv, NEW p \in Process, proc[p].pc \in {"save", "write"}
  PROVE  /\ proc[p].token = TokenOf(p, proc[p]) /\ proc[p].token \in Token
         /\ proc[p].token # None /\ proc[p].token # proc[p].cached
<1>1. proc[p].token = TokenOf(p, proc[p]) /\ TokenOf(p, proc[p]) \in Token
  BY Known DEF Local, HoldsOwn, TokenOf, Token, ProcessState
<1>2. proc[p].cached # None /\ proc[p].cached.by = p => proc[p].cached.login # proc[p].login
  BY Known DEF Local, CachedIsOlder, InLogin, ProcessState, Token
<1>. QED BY <1>1, <1>2, NoneAssumption DEF TokenOf

\* On the way from the new token to its use, whatever becomes of the cache.
LEMMA NewTokenIsHeld ==
  ASSUME AuthInv, NEW p \in Process, proc[p].pc \in {"save", "write"}, UNCHANGED issuer,
         NEW stage \in {"write", "assume"}, NEW lost \in BOOLEAN,
         proc'[p] = [proc[p] EXCEPT !.pc = stage, !.lost = lost]
  PROVE  /\ proc'[p] \in ProcessState /\ Local(p, proc[p])'
         /\ proc'[p].pc = stage /\ proc'[p].lost = lost
         /\ UNCHANGED <<proc[p].token, proc[p].login, proc[p].role, proc[p].retry>>
<1>1. proc'[p] \in ProcessState
  BY Known DEF ProcessState, Stages
<1>2. /\ proc'[p].pc = stage /\ proc'[p].lost = lost
      /\ UNCHANGED <<proc[p].token, proc[p].login, proc[p].role, proc[p].cached,
                     proc[p].retry, proc[p].answer, proc[p].server>>
  BY Known DEF ProcessState
<1>3. LoginCount(p, proc[p])'
  BY <1>2, NewTokenIsNew, Known DEF Local, LoginCount, BeforeLogin
<1>4. CachedIsOlder(p, proc[p])'
  BY <1>2, Known DEF Local, CachedIsOlder, InLogin
<1>5. HoldsOwn(p, proc[p])'
  BY <1>2, NewTokenIsNew DEF HoldsOwn, TokenOf
<1>6. LoginBegun(proc[p])' /\ OwnAnswer(p, proc[p])' /\ SecondIsSilent(proc[p])'
  BY <1>2, Known DEF Local, LoginBegun, OwnAnswer, SecondIsSilent
<1>. QED BY <1>1, <1>2, <1>3, <1>4, <1>5, <1>6 DEF Local

\* The cache is truncated, or cannot be.
LEMMA SaveTokenKeeps ==
  ASSUME AuthInv, NEW p \in Process, SaveToken(p) PROVE AuthInv'
<1>1. /\ OthersContinue(p) /\ UNCHANGED <<issuer, port, tab>> /\ proc[p].pc = "save"
  BY DEF SaveToken, Goto, Continue, OthersContinue
<1>2. PICK stage \in {"write", "assume"}, lost \in BOOLEAN :
        /\ proc'[p] = [proc[p] EXCEPT !.pc = stage, !.lost = lost]
        /\ cache' \in {Torn, cache}
        /\ stage = "assume" => lost
  <2>1. CASE cache' = Torn /\ Goto(p, "write")
    <3>1. proc'[p] = [proc[p] EXCEPT !.pc = "write", !.lost = proc[p].lost] /\ proc[p].lost \in BOOLEAN
      BY <2>1, Known DEF Goto, Continue, ProcessState
    <3>. QED BY <2>1, <3>1
  <2>2. CASE UNCHANGED cache /\ Continue(p, [proc[p] EXCEPT !.pc = "assume", !.lost = TRUE])
    BY <2>2 DEF Continue
  <2>. QED BY <2>1, <2>2 DEF SaveToken
<1>3. CacheStep(p)
  BY <1>2, Known, TornAssumption DEF CacheStep, CacheHoldsIssued
<1>4. proc'[p] \in ProcessState /\ Local(p, proc[p])'
  BY <1>1, <1>2, NewTokenIsHeld
<1>5. /\ proc'[p].pc = stage /\ proc'[p].lost = lost
      /\ UNCHANGED <<proc[p].token, proc[p].login, proc[p].role, proc[p].retry>>
  BY <1>1, <1>2, NewTokenIsHeld
<1>6. Shared(p, proc[p])'
  BY <1>1, <1>2, <1>5, Known, TornAssumption DEF Shared
<1>. QED BY <1>1, <1>3, <1>4, <1>6, Known, ContinueKeeps

\* The token is written, and then it is in the cache; or it is not, or not for sure.
LEMMA WriteTokenKeeps ==
  ASSUME AuthInv, NEW p \in Process, WriteToken(p) PROVE AuthInv'
<1>1. /\ OthersContinue(p) /\ UNCHANGED <<issuer, port, tab>> /\ proc[p].pc = "write"
  BY DEF WriteToken, Continue, OthersContinue
<1>2. PICK lost \in BOOLEAN :
        /\ proc'[p] = [proc[p] EXCEPT !.pc = "assume", !.lost = lost]
        /\ IF lost THEN cache' \in {Torn, cache} ELSE cache' = Saved(p)
  BY DEF WriteToken, Continue
<1>3. /\ Saved(p) \in Entry /\ Saved(p).label = issuer[p] /\ Saved(p).exp = "valid"
      /\ Saved(p).token.by = p /\ Saved(p).token.login = proc[p].login
      /\ Saved(p).token.iss = issuer[p]
  <2>1. proc[p].token = TokenOf(p, proc[p]) /\ proc[p].token \in Token /\ issuer[p] \in Issuer
    BY <1>1, NewTokenIsNew, Known
  <2>2. Saved(p) = [label |-> issuer[p], token |-> proc[p].token, exp |-> "valid"]
    BY DEF Saved
  <2>3. Saved(p) \in Entry
    BY <2>1, <2>2 DEF Entry
  <2>. QED BY <2>1, <2>2, <2>3 DEF TokenOf
<1>4. CacheStep(p)
  BY <1>2, <1>3, Known, TornAssumption DEF CacheStep, CacheHoldsIssued
<1>5. proc'[p] \in ProcessState /\ Local(p, proc[p])'
  BY <1>1, <1>2, NewTokenIsHeld
<1>6. /\ proc'[p].pc = "assume" /\ proc'[p].lost = lost
      /\ UNCHANGED <<proc[p].token, proc[p].login, proc[p].role, proc[p].retry>>
  BY <1>1, <1>2, NewTokenIsHeld
<1>7. Shared(p, proc[p])'
  <2>1. CASE lost
    BY <1>1, <1>2, <1>6, <2>1, Known, TornAssumption DEF Shared
  <2>2. CASE ~lost
    <3>1. cache' = Saved(p) /\ issuer'[p] = issuer[p] /\ proc[p].login \in 0..3
      BY <1>1, <1>2, <2>2, Known DEF ProcessState
    <3>. QED BY <1>3, <1>6, <3>1 DEF Shared, Scoped
  <2>. QED BY <2>1, <2>2
<1>. QED BY <1>1, <1>4, <1>5, <1>7, Known, ContinueKeeps

\* The answer of STS: the command goes on, ends, or retries with room for a login.
LEMMA AssumeRoleKeeps ==
  ASSUME AuthInv, NEW p \in Process, AssumeRole(p) PROVE AuthInv'
<1>1. UNCHANGED <<issuer, cache, tab>> /\ proc[p].pc = "assume"
  BY DEF AssumeRole
<1>2. CASE Goto(p, "lambda") /\ UNCHANGED port /\ proc[p].role = 1
  BY <1>1, <1>2, Known, AnsweredKeeps DEF Goto, Continue, OthersContinue
<1>3. CASE Goto(p, "clear") /\ UNCHANGED port /\ proc[p].token = proc[p].cached
  <2>1. proc[p].login < proc[p].role
    BY <1>1, <1>3, Known DEF Local, LoginCount
  <2>. QED BY <1>1, <1>3, <2>1, Known, AnsweredKeeps DEF Goto, Continue, OthersContinue
<1>4. CASE End(p, "done") \/ End(p, "failed")
  BY <1>1, <1>4, EndKeeps
<1>. QED BY <1>2, <1>3, <1>4 DEF AssumeRole, Assumed, Refused, WorthRetry

\* start-task turns to its second role, for which it may log in once more.
LEMMA SecondRoleKeeps ==
  ASSUME AuthInv, NEW p \in Process, SecondRole(p) PROVE AuthInv'
<1>1. /\ OthersContinue(p) /\ UNCHANGED <<issuer, cache, port, tab>> /\ proc[p].pc = "lambda"
      /\ proc'[p] = [proc[p] EXCEPT !.pc = "first", !.role = 2, !.cached = None, !.token = None,
                                    !.retry = FALSE]
  BY DEF SecondRole, Continue, OthersContinue
<1>2. proc'[p] \in ProcessState
  BY <1>1, Known DEF ProcessState, Stages
<1>3. /\ proc'[p].pc = "first" /\ proc'[p].role = 2 /\ proc'[p].cached = None /\ proc'[p].token = None
      /\ proc'[p].retry = FALSE /\ UNCHANGED <<proc[p].login, proc[p].answer, proc[p].server, proc[p].lost>>
  BY <1>1, Known DEF ProcessState
<1>4. proc[p].login \in 0..3 /\ proc[p].login <= 1
  BY <1>1, Known DEF Local, LoginCount, ProcessState
<1>5. (LoginCount(p, proc[p]) /\ CachedIsOlder(p, proc[p]))'
  BY <1>3, <1>4 DEF LoginCount, CachedIsOlder
<1>6. (LoginBegun(proc[p]) /\ HoldsOwn(p, proc[p]) /\ OwnAnswer(p, proc[p]) /\ SecondIsSilent(proc[p]))'
  BY <1>1, <1>3, Known DEF Local, LoginBegun, HoldsOwn, OwnAnswer, SecondIsSilent
<1>7. Shared(p, proc[p])'
  BY <1>1, <1>3, Known DEF Shared, Scoped
<1>. QED BY <1>1, <1>2, <1>5, <1>6, <1>7, Known, QuietStep DEF Local

\* The cached token expires: who relies on it has lost it.
LEMMA ExpireKeeps == AuthInv /\ Expire => AuthInv'
<1> SUFFICES ASSUME AuthInv, Expire PROVE AuthInv'
  OBVIOUS
<1>1. UNCHANGED <<issuer, port, tab>> /\ cache \in Entry /\ cache' = [cache EXCEPT !.exp = "expired"]
  BY DEF Expire
<1>2. cache' \in Entry /\ cache'.token = cache.token /\ cache'.label = cache.label
  BY <1>1 DEF Entry
<1>3. \A q \in Process : proc'[q] \in ProcessState /\ Local(q, proc[q])' /\ Shared(q, proc[q])'
  BY <1>1, <1>2, OtherKeeps DEF Expire
<1>4. TypeOK'
  BY <1>1, <1>2, <1>3 DEF TypeOK, AuthInv, Expire
<1>. QED BY <1>1, <1>2, <1>3, <1>4 DEF AuthInv, CacheHoldsIssued

-----------------------------------------------------------------------------
(* The theorems. *)

\* No command has begun, and what an earlier one left in the cache is nobody's.
LEMMA InitInv == Init => AuthInv
<1> SUFFICES ASSUME Init PROVE AuthInv
  OBVIOUS
<1>1. Unstarted \in ProcessState
  BY DEF Unstarted, ProcessState, Stages
<1>2. cache \in Entry => cache.token.by = None /\ cache.label = cache.token.iss
  BY NoneAssumption, TornAssumption DEF Init, Earlier
<1>3. cache \in Entry \cup {Torn, None}
  BY DEF Init, Earlier, Entry, Token
<1>4. TypeOK
  BY <1>1, <1>3 DEF Init, TypeOK
<1>5. ASSUME NEW p \in Process PROVE Local(p, proc[p])
  <2>1. /\ proc[p].pc = "idle" /\ proc[p].login = 0 /\ proc[p].role = 1 /\ proc[p].answer = NoAnswer
        /\ proc[p].token = None /\ proc[p].cached = None /\ proc[p].server = "off"
    BY DEF Init, Unstarted
  <2>. QED BY <2>1 DEF Local, LoginCount, CachedIsOlder, LoginBegun, HoldsOwn, OwnAnswer, SecondIsSilent
<1>6. \A p \in Process : Shared(p, proc[p])
  BY <1>2, NoneAssumption DEF Init, Unstarted, Shared
<1>. QED BY <1>2, <1>4, <1>5, <1>6 DEF AuthInv, CacheHoldsIssued

\* Every step keeps the invariant.
LEMMA StepInv == AuthInv /\ [Next]_vars => AuthInv'
<1> SUFFICES ASSUME AuthInv, [Next]_vars PROVE AuthInv'
  OBVIOUS
<1>1. ASSUME NEW p \in Process, Stop(p) PROVE AuthInv'
  BY <1>1, EndKeeps DEF Stop
<1>2. ASSUME NEW p \in Process, StartLogin(p) PROVE AuthInv'
  BY <1>2, LoginKeeps DEF StartLogin, Continue, OthersContinue
<1>3. ASSUME NEW p \in Process, RequestDevice(p) PROVE AuthInv'
  <2>1. CASE Continue(p, [proc[p] EXCEPT !.pc = "poll", !.login = @ + 1]) /\ UNCHANGED port
    <3>1. /\ proc'[p] = [proc[p] EXCEPT !.pc = "poll", !.login = @ + 1, !.server = proc[p].server]
          /\ OthersContinue(p)
      BY <2>1, Known DEF Continue, OthersContinue, ProcessState
    <3>2. proc[p].server = "off"
      BY <1>3, Known DEF RequestDevice, Local, OwnAnswer, ProcessState
    <3>. QED BY <1>3, <2>1, <3>1, <3>2, LoginKeeps DEF RequestDevice
  <2>. QED BY <1>3, <2>1, EndKeeps DEF RequestDevice
<1>4. ASSUME NEW p \in Process, Run(p) PROVE AuthInv'
  BY <1>2, <1>3, <1>4, FirstLookKeeps, PurgeKeeps, GetTokenKeeps, OpenBrowserKeeps, AwaitCallbackKeeps,
     ObtainKeeps, SaveTokenKeeps, WriteTokenKeeps, AssumeRoleKeeps, ClearTokenKeeps, SecondRoleKeeps
     DEF Run, ExchangeCode, PollDevice
<1>5. CASE UNCHANGED vars
  <2>1. \A p \in Process : AfterCache(p) = proc[p]
    BY <1>5 DEF vars, AfterCache
  <2>2. \A p \in Process : proc'[p] \in ProcessState /\ Local(p, proc[p])' /\ Shared(p, proc[p])'
    BY <1>5, <2>1, OtherKeeps DEF vars
  <2>. QED BY <1>5, <2>2 DEF vars, AuthInv, TypeOK, CacheHoldsIssued
<1>. QED BY <1>1, <1>4, <1>5, BeginKeeps, CallbacksKeep, OpenTabKeeps, ExpireKeeps DEF Next

\* The invariant holds throughout.
THEOREM AuthInvariant == Spec => []AuthInv
BY InitInv, StepInv, PTL DEF Spec

\* The types: in particular no command ever begins a fourth login.
THEOREM TypeCorrect == Spec => []TypeOK
<1>1. AuthInv => TypeOK
  BY DEF AuthInv
<1>. QED BY <1>1, AuthInvariant, PTL

\* Whatever the processes of several configurations do to the one cache, none of them presents
\* a token of another issuer or client than its own.
THEOREM TokensStayApart == Spec => []TokenIsForIssuer
<1>1. AuthInv => TokenIsForIssuer
  BY DEF AuthInv, Local, HoldsOwn, TokenIsForIssuer
<1>. QED BY <1>1, AuthInvariant, PTL

\* The user logs in at most once for each role.
THEOREM LoginsAreBounded == Spec => []OneLoginPerRole
<1>1. AuthInv => OneLoginPerRole
  BY DEF AuthInv, Local, LoginCount, OneLoginPerRole
<1>. QED BY <1>1, AuthInvariant, PTL

\* After a refusal of the cached token, a token of a new login is presented, and no other.
THEOREM RetryIsNew == Spec => []RetryUsesNewToken
<1>1. AuthInv => RetryUsesNewToken
  BY DEF AuthInv, Local, HoldsOwn, RetryUsesNewToken
<1>. QED BY <1>1, AuthInvariant, PTL

\* However many pages of earlier logins are redirected to the port, a login exchanges the code of
\* its own: a server and its answer do not outlive their login.
THEOREM CodesStayApart == Spec => []CodeForOwnLogin
<1>1. AuthInv => CodeForOwnLogin
  BY DEF AuthInv, Local, OwnAnswer, CodeForOwnLogin
<1>. QED BY <1>1, AuthInvariant, PTL

\* start-task asks for a second login only when its token was lost or refused.
THEOREM SecondLoginIsExcused == Spec => []SilentSecondRole
<1>1. AuthInv => SilentSecondRole
  BY DEF AuthInv, Local, SecondIsSilent, SilentSecondRole
<1>. QED BY <1>1, AuthInvariant, PTL

-----------------------------------------------------------------------------
(* A command runs out of steps.  EveryCommandEnds needs that, and fairness. *)

\* A role is assumed with a token or with the token of one retry, twice at most.
Rounds(r) ==
  CASE r.pc \in {"done", "failed"} -> 0
    [] r.pc = "idle" -> 4
    [] r.pc \notin {"idle", "done", "failed"} /\ r.role = 2 -> IF r.retry THEN 0 ELSE 1
    [] OTHER -> IF r.retry THEN 2 ELSE 3

\* The calls from a stage to the end of its round.
Ahead(stage) ==
  CASE stage = "first" -> 22
    [] stage = "purgeFirst" -> 21
    [] stage = "get" -> 20
    [] stage = "purge" -> 19
    [] stage = "login" -> 18
    [] stage = "open" -> 14
    [] stage = "await" -> 13
    [] stage \in {"exchange", "poll"} -> 12
    [] stage = "save" -> 8
    [] stage = "write" -> 7
    [] stage = "assume" -> 6
    [] stage = "clear" -> 5
    [] stage = "lambda" -> 4
    [] OTHER -> 0

\* The callback server has yet to listen, to end, and to be answered.
Waits(r) ==
  (CASE r.server = "starting" -> 2 [] r.server = "listening" -> 1 [] OTHER -> 0)
    + (IF r.answer = NoAnswer THEN 1 ELSE 0)

StepsLeft(r) == 40 * Rounds(r) + Ahead(r.pc) + Waits(r)

\* Two states of a command that differ in its calls only.
SameRound(r, s) ==
  s.role = r.role /\ s.retry = r.retry /\ s.server = r.server /\ s.answer = r.answer

\* There is one retry.
ClearsOnce == \A p \in Process : proc[p].pc = "clear" => ~proc[p].retry

\* Whatever a command, its server or its timeout does, less is left to do; and whatever else
\* happens, the browser and the other processes included, no more is.
StepsRunOut ==
  [][\A p \in Process :
       /\ StepsLeft(proc'[p]) \in Nat /\ StepsLeft(proc'[p]) <= StepsLeft(proc[p])
       /\ Begin(p) \/ Stop(p) \/ Run(p) \/ Serve(p)
            => StepsLeft(proc'[p]) < StepsLeft(proc[p])]_vars

LEMMA Counts ==
  ASSUME NEW r \in ProcessState
  PROVE  /\ Rounds(r) \in 0..4 /\ Ahead(r.pc) \in 0..22 /\ Waits(r) \in 0..3
         /\ StepsLeft(r) \in Nat
<1>1. Rounds(r) \in 0..4
  BY DEF Rounds
<1>2. Ahead(r.pc) \in 0..22
  BY DEF Ahead
<1>3. Waits(r) \in 0..3
  BY DEF Waits
<1>. QED BY <1>1, <1>2, <1>3 DEF StepsLeft

\* The rounds weigh more than the calls of a round, and these more than the server beside them.
LEMMA Fewer ==
  ASSUME NEW r \in ProcessState, NEW s \in ProcessState, Rounds(s) <= Rounds(r),
         \/ Rounds(s) < Rounds(r)
         \/ Ahead(s.pc) + 3 < Ahead(r.pc)
         \/ Ahead(s.pc) < Ahead(r.pc) /\ Waits(s) <= Waits(r)
         \/ Ahead(s.pc) <= Ahead(r.pc) /\ Waits(s) < Waits(r)
  PROVE  StepsLeft(s) < StepsLeft(r)
BY Counts DEF StepsLeft

\* The next call of the same round.
LEMMA NextCall ==
  ASSUME NEW r \in ProcessState, NEW s \in ProcessState,
         SameRound(r, s),
         <<r.pc, s.pc>> \in
           {<<"first", "purgeFirst">>, <<"first", "get">>, <<"purgeFirst", "get">>, <<"get", "assume">>,
            <<"get", "purge">>, <<"get", "login">>, <<"purge", "login">>, <<"login", "poll">>,
            <<"open", "await">>, <<"await", "exchange">>, <<"save", "write">>, <<"save", "assume">>, <<"write", "assume">>,
            <<"assume", "clear">>, <<"assume", "lambda">>}
  PROVE  StepsLeft(s) < StepsLeft(r)
<1>1. Rounds(s) = Rounds(r)
  BY DEF Rounds, SameRound
<1>2. Waits(s) = Waits(r)
  BY DEF Waits, SameRound
<1>3. Ahead(s.pc) < Ahead(r.pc)
  BY DEF Ahead
<1>. QED BY <1>1, <1>2, <1>3, Counts, Fewer

LEMMA SameCount ==
  ASSUME NEW r \in ProcessState, NEW s \in ProcessState, s.pc = r.pc, SameRound(r, s)
  PROVE  StepsLeft(s) = StepsLeft(r)
BY DEF StepsLeft, Rounds, Waits, SameRound

\* Nothing is left to do after the end.
LEMMA EndCounts ==
  ASSUME AuthInv, NEW p \in Process, Running(p), NEW outcome \in {"done", "failed"}, End(p, outcome)
  PROVE  StepsLeft(proc'[p]) < StepsLeft(proc[p])
<1>1. PICK s : s = [Unstarted EXCEPT !.pc = outcome]
  OBVIOUS
<1>0. Unstarted \in ProcessState
  BY DEF Unstarted, ProcessState, Stages
<1>2. /\ proc'[p] = s /\ s.pc = outcome /\ s.server = "off" /\ s.answer = NoAnswer
      /\ s \in ProcessState
  <2>1. proc'[p] = s
    BY <1>1 DEF End, Continue
  <2>2. s.pc = outcome /\ s.server = "off" /\ s.answer = NoAnswer
    BY <1>1 DEF Unstarted
  <2>3. s \in ProcessState
    BY <1>0, <1>1 DEF ProcessState, Stages
  <2>. QED BY <2>1, <2>2, <2>3
<1>3. Rounds(s) = 0 /\ Ahead(s.pc) = 0
  BY <1>2 DEF Rounds, Ahead
<1>4. proc[p] \in ProcessState
  BY Known
<1>5. Ahead(proc[p].pc) >= 4
  BY <1>4 DEF Running, Ahead, ProcessState, Stages
<1>. QED BY <1>2, <1>3, <1>4, <1>5, Counts, Fewer

LEMMA BeginCounts ==
  ASSUME AuthInv, AuthInv', NEW p \in Process, Begin(p)
  PROVE  StepsLeft(proc'[p]) < StepsLeft(proc[p])
<1>1. proc[p] \in ProcessState /\ proc'[p] \in ProcessState /\ proc[p].pc = "idle"
  BY Known DEF Begin, AuthInv, TypeOK
<1>2. proc'[p].pc \in {"first", "get", "failed"}
  <2>1. \/ proc'[p] = [proc[p] EXCEPT !.pc = "failed"]
        \/ \E line \in Command, stage \in {"first", "get"} :
             proc'[p] = [Unstarted EXCEPT !.line = line, !.pc = stage]
    BY DEF Begin, Continue, Goto
  <2>2. CASE proc'[p] = [proc[p] EXCEPT !.pc = "failed"]
    BY <1>1, <2>2 DEF ProcessState
  <2>3. ASSUME NEW line \in Command, NEW stage \in {"first", "get"},
               proc'[p] = [Unstarted EXCEPT !.line = line, !.pc = stage]
        PROVE  proc'[p].pc \in {"first", "get"}
    BY <2>3 DEF Unstarted
  <2>. QED BY <2>1, <2>2, <2>3
<1>3. Rounds(proc[p]) = 4 /\ Rounds(proc'[p]) \in 0..3
  BY <1>1, <1>2 DEF Rounds
<1>. QED BY <1>1, <1>3, Fewer

\* The login, by browser or by device code.
LEMMA LoginCounts ==
  ASSUME AuthInv, AuthInv', NEW p \in Process,
         StartLogin(p) \/ OpenBrowser(p) \/ AwaitCallback(p)
           \/ RequestDevice(p) \/ ExchangeCode(p) \/ PollDevice(p)
  PROVE  StepsLeft(proc'[p]) < StepsLeft(proc[p])
<1>. PICK r, s : r = proc[p] /\ s = proc'[p]
  OBVIOUS
<1>1. r \in ProcessState /\ s \in ProcessState
  BY DEF AuthInv, TypeOK
<1>2. ASSUME s.role = r.role, s.retry = r.retry,
             <<r.pc, s.pc>> \in {<<"login", "open">>, <<"exchange", "save">>, <<"poll", "save">>}
      PROVE  StepsLeft(s) < StepsLeft(r)
  <2>1. Rounds(s) = Rounds(r)
    BY <1>2 DEF Rounds
  <2>2. Ahead(s.pc) + 3 < Ahead(r.pc)
    BY <1>2 DEF Ahead
  <2>. QED BY <1>1, <2>1, <2>2, Counts, Fewer
<1>3. CASE StartLogin(p)
  <2>1. s = [r EXCEPT !.pc = "open", !.login = @ + 1, !.server = "starting"] /\ r.pc = "login"
    BY <1>3 DEF StartLogin, Continue
  <2>2. s.role = r.role /\ s.retry = r.retry /\ s.pc = "open"
    BY <1>1, <2>1 DEF ProcessState
  <2>. QED BY <1>2, <2>1, <2>2
<1>4. CASE OpenBrowser(p)
  <2>1. s = [r EXCEPT !.pc = "await"] /\ r.pc = "open"
    BY <1>4 DEF OpenBrowser, Goto, Continue
  <2>2. s.pc = "await" /\ SameRound(r, s)
    BY <1>1, <2>1 DEF SameRound, ProcessState
  <2>. QED BY <1>1, <2>1, <2>2, NextCall
<1>5. CASE AwaitCallback(p)
  <2>1. r.pc = "await" /\ Running(p)
    BY <1>5 DEF AwaitCallback, Running
  <2>2. CASE s = [r EXCEPT !.pc = "exchange"]
    <3>1. s.pc = "exchange" /\ SameRound(r, s)
      BY <1>1, <2>2 DEF SameRound, ProcessState
    <3>. QED BY <1>1, <2>1, <3>1, NextCall
  <2>. QED BY <1>5, <2>1, <2>2, EndCounts DEF AwaitCallback, Goto, Continue
<1>6. CASE RequestDevice(p)
  <2>1. r.pc = "login" /\ Running(p)
    BY <1>6 DEF RequestDevice, Running
  <2>2. CASE s = [r EXCEPT !.pc = "poll", !.login = @ + 1]
    <3>1. s.pc = "poll" /\ SameRound(r, s)
      BY <1>1, <2>2 DEF SameRound, ProcessState
    <3>. QED BY <1>1, <2>1, <3>1, NextCall
  <2>. QED BY <1>6, <2>1, <2>2, EndCounts DEF RequestDevice, Continue
<1>7. CASE ExchangeCode(p) \/ PollDevice(p)
  <2>1. r.pc \in {"exchange", "poll"} /\ Running(p) /\ Obtain(p)
    BY <1>7 DEF ExchangeCode, PollDevice, Running
  <2>2. CASE s = [r EXCEPT !.pc = "save", !.token = NewToken(p), !.answer = NoAnswer]
    <3>1. s.role = r.role /\ s.retry = r.retry /\ s.pc = "save"
      BY <1>1, <2>2 DEF ProcessState
    <3>. QED BY <1>2, <2>1, <3>1
  <2>. QED BY <2>1, <2>2, EndCounts DEF Obtain, Continue
<1>. QED BY <1>3, <1>4, <1>5, <1>6, <1>7

\* The cache, before and after.
LEMMA CacheCounts ==
  ASSUME AuthInv, AuthInv', ClearsOnce, NEW p \in Process,
         FirstLook(p) \/ Purge(p) \/ GetToken(p) \/ SaveToken(p) \/ WriteToken(p) \/ ClearToken(p)
  PROVE  StepsLeft(proc'[p]) < StepsLeft(proc[p])
<1>. PICK r, s : r = proc[p] /\ s = proc'[p]
  OBVIOUS
<1>1. r \in ProcessState /\ s \in ProcessState
  BY DEF AuthInv, TypeOK
<1>2. CASE FirstLook(p)
  <2>1. /\ r.pc = "first"
        /\ \/ s = [r EXCEPT !.cached = CachedToken(p), !.pc = "purgeFirst"]
           \/ s = [r EXCEPT !.cached = CachedToken(p), !.pc = "get"]
    BY <1>2 DEF FirstLook, Continue
  <2>2. s.pc \in {"purgeFirst", "get"} /\ SameRound(r, s)
    BY <1>1, <2>1 DEF SameRound, ProcessState
  <2>. QED BY <1>1, <2>1, <2>2, NextCall
<1>3. CASE Purge(p)
  <2>1. \/ s = [r EXCEPT !.pc = "login"] /\ r.pc = "purge"
        \/ s = [r EXCEPT !.pc = "get"] /\ r.pc = "purgeFirst"
    BY <1>3 DEF Purge, Goto, Continue
  <2>2. /\ <<r.pc, s.pc>> \in {<<"purge", "login">>, <<"purgeFirst", "get">>}
        /\ SameRound(r, s)
    BY <1>1, <2>1 DEF SameRound, ProcessState
  <2>. QED BY <1>1, <2>2, NextCall
<1>4. CASE GetToken(p)
  <2>1. /\ r.pc = "get"
        /\ \/ s = [r EXCEPT !.pc = "assume", !.token = CachedToken(p), !.lost = FALSE]
           \/ s = [r EXCEPT !.pc = "purge"]
           \/ s = [r EXCEPT !.pc = "login"]
    BY <1>4 DEF GetToken, Goto, Continue
  <2>2. s.pc \in {"assume", "purge", "login"} /\ SameRound(r, s)
    BY <1>1, <2>1 DEF SameRound, ProcessState
  <2>. QED BY <1>1, <2>1, <2>2, NextCall
<1>5. CASE SaveToken(p)
  <2>1. /\ r.pc = "save"
        /\ s = [r EXCEPT !.pc = "write"] \/ s = [r EXCEPT !.pc = "assume", !.lost = TRUE]
    BY <1>5 DEF SaveToken, Goto, Continue
  <2>2. s.pc \in {"write", "assume"} /\ SameRound(r, s)
    BY <1>1, <2>1 DEF SameRound, ProcessState
  <2>. QED BY <1>1, <2>1, <2>2, NextCall
<1>6. CASE WriteToken(p)
  <2>1. PICK b \in BOOLEAN : r.pc = "write" /\ s = [r EXCEPT !.pc = "assume", !.lost = b]
    BY <1>6 DEF WriteToken, Continue
  <2>2. s.pc = "assume" /\ SameRound(r, s)
    BY <1>1, <2>1 DEF SameRound, ProcessState
  <2>. QED BY <1>1, <2>1, <2>2, NextCall
<1>7. CASE ClearToken(p)
  <2>1. r.pc = "clear" /\ ~r.retry /\ s = [r EXCEPT !.pc = "get", !.retry = TRUE, !.token = None]
    BY <1>7 DEF ClearToken, Continue, ClearsOnce
  <2>2. s.pc = "get" /\ s.retry = TRUE /\ s.role = r.role
    BY <1>1, <2>1 DEF ProcessState
  <2>3. Rounds(s) < Rounds(r)
    BY <1>1, <2>1, <2>2 DEF Rounds, ProcessState
  <2>. QED BY <1>1, <2>3, Counts, Fewer
<1>. QED BY <1>2, <1>3, <1>4, <1>5, <1>6, <1>7

\* The roles.
LEMMA RoleCounts ==
  ASSUME AuthInv, AuthInv', NEW p \in Process, AssumeRole(p) \/ SecondRole(p)
  PROVE  StepsLeft(proc'[p]) < StepsLeft(proc[p])
<1>. PICK r, s : r = proc[p] /\ s = proc'[p]
  OBVIOUS
<1>1. r \in ProcessState /\ s \in ProcessState
  BY DEF AuthInv, TypeOK
<1>2. CASE AssumeRole(p)
  <2>1. /\ r.pc = "assume" /\ Running(p)
        /\ \/ s = [r EXCEPT !.pc = "lambda"]
           \/ s = [r EXCEPT !.pc = "clear"]
           \/ \E outcome \in {"done", "failed"} : End(p, outcome)
    BY <1>2 DEF AssumeRole, Assumed, Refused, Goto, Continue, Running
  <2>2. CASE s = [r EXCEPT !.pc = "lambda"] \/ s = [r EXCEPT !.pc = "clear"]
    <3>1. s.pc \in {"lambda", "clear"} /\ SameRound(r, s)
      BY <1>1, <2>2 DEF SameRound, ProcessState
    <3>. QED BY <1>1, <2>1, <3>1, NextCall
  <2>. QED BY <2>1, <2>2, EndCounts
<1>3. CASE SecondRole(p)
  <2>1. /\ r.pc = "lambda" /\ r.role = 1
        /\ s = [r EXCEPT !.pc = "first", !.role = 2, !.cached = None, !.token = None, !.retry = FALSE]
    BY <1>3, Known DEF SecondRole, Continue, Local, LoginCount
  <2>2. s.pc = "first" /\ s.role = 2 /\ s.retry = FALSE
    BY <1>1, <2>1 DEF ProcessState
  <2>3. Rounds(s) = 1 /\ Rounds(r) \in {2, 3}
    BY <2>1, <2>2 DEF Rounds
  <2>. QED BY <1>1, <2>3, Fewer
<1>. QED BY <1>2, <1>3

\* The callback server: it listens or cannot, is answered, and ends.
LEMMA ServerCounts ==
  ASSUME AuthInv, AuthInv', NEW p \in Process, Serve(p)
  PROVE  StepsLeft(proc'[p]) < StepsLeft(proc[p])
<1>. PICK r, s : r = proc[p] /\ s = proc'[p]
  OBVIOUS
<1>1. r \in ProcessState /\ s \in ProcessState
  BY DEF AuthInv, TypeOK
<1>2. \/ r.server = "starting" /\ s = [r EXCEPT !.server = "listening"]
      \/ r.server = "listening" /\ s = [r EXCEPT !.server = "off"]
      \/ r.server \in {"starting", "listening"} /\ s = [r EXCEPT !.server = "off", !.answer = AuthError]
  BY DEF Serve, Listen, Shutdown, CallbackTimeout, Continue
<1>3. s.pc = r.pc /\ s.role = r.role /\ s.retry = r.retry
  BY <1>1, <1>2 DEF ProcessState
<1>4. \/ r.server = "starting" /\ s.server = "listening" /\ s.answer = r.answer
      \/ r.server = "listening" /\ s.server = "off" /\ s.answer = r.answer
      \/ r.server \in {"starting", "listening"} /\ s.server = "off" /\ s.answer = AuthError
  BY <1>1, <1>2 DEF ProcessState
<1>5. Waits(s) < Waits(r)
  BY <1>4, Answers DEF Waits
<1>6. Rounds(s) = Rounds(r) /\ Ahead(s.pc) = Ahead(r.pc)
  BY <1>3 DEF Rounds
<1>. QED BY <1>1, <1>5, <1>6, Counts, Fewer

\* The others, and the browser.
LEMMA OtherCounts ==
  ASSUME AuthInv, AuthInv', NEW p \in Process, proc'[p] = AfterCache(p)
  PROVE  StepsLeft(proc'[p]) = StepsLeft(proc[p])
<1>1. proc[p] \in ProcessState /\ proc'[p] \in ProcessState
  BY DEF AuthInv, TypeOK
<1>2. proc'[p].pc = proc[p].pc /\ SameRound(proc[p], proc'[p])
  BY <1>1 DEF AfterCache, SameRound, ProcessState
<1>. QED BY <1>1, <1>2, SameCount

LEMMA RedirectCounts ==
  ASSUME AuthInv, AuthInv', NEW p \in Process, Redirect(p)
  PROVE  StepsLeft(proc'[p]) <= StepsLeft(proc[p])
<1>1. proc[p] \in ProcessState /\ proc'[p] \in ProcessState
  BY DEF AuthInv, TypeOK
<1>2. \E answer : proc[p].answer = NoAnswer /\ proc'[p] = [proc[p] EXCEPT !.answer = answer]
  BY DEF Redirect, Continue
<1>3. ASSUME NEW answer, proc[p].answer = NoAnswer, proc'[p] = [proc[p] EXCEPT !.answer = answer]
      PROVE  StepsLeft(proc'[p]) <= StepsLeft(proc[p])
  <2>1. /\ proc'[p].pc = proc[p].pc /\ proc'[p].role = proc[p].role /\ proc'[p].retry = proc[p].retry
        /\ proc'[p].server = proc[p].server
    BY <1>1, <1>3 DEF ProcessState
  <2>2. Rounds(proc'[p]) = Rounds(proc[p]) /\ Ahead(proc'[p].pc) = Ahead(proc[p].pc)
    BY <2>1 DEF Rounds
  <2>3. Waits(proc'[p]) <= Waits(proc[p])
    BY <1>3, <2>1 DEF Waits
  <2>. QED BY <1>1, <2>2, <2>3, Counts DEF StepsLeft
<1>. QED BY <1>2, <1>3

\* What a step does to p: it is its own, or nothing that the count sees.
LEMMA CallsOrRests ==
  ASSUME NEW p \in Process, Next
  PROVE  \/ Begin(p) \/ Stop(p) \/ Run(p) \/ Serve(p)
         \/ Redirect(p)
         \/ proc'[p] = AfterCache(p) \/ proc'[p] = proc[p]
<1>1. ASSUME NEW q \in Process, q # p, Begin(q) \/ Stop(q) \/ Run(q) \/ Serve(q)
      PROVE  proc'[p] = AfterCache(p)
  <2>1. CASE Begin(q) \/ Stop(q) \/ Serve(q)
    BY <1>1, <2>1 DEF Begin, Stop, Serve, Listen, Shutdown, CallbackTimeout, End, Goto, Continue
  <2>2. CASE FirstLook(q) \/ Purge(q) \/ GetToken(q) \/ SaveToken(q) \/ WriteToken(q) \/ ClearToken(q)
    BY <1>1, <2>2 DEF FirstLook, Purge, GetToken, SaveToken, WriteToken, ClearToken, Goto, Continue
  <2>3. CASE StartLogin(q) \/ OpenBrowser(q) \/ AwaitCallback(q) \/ RequestDevice(q)
    BY <1>1, <2>3 DEF StartLogin, OpenBrowser, AwaitCallback, RequestDevice, End, Goto, Continue
  <2>4. CASE ExchangeCode(q) \/ PollDevice(q) \/ SecondRole(q)
    BY <1>1, <2>4 DEF ExchangeCode, PollDevice, SecondRole, Obtain, End, Goto, Continue
  <2>5. CASE AssumeRole(q)
    BY <1>1, <2>5 DEF AssumeRole, Assumed, Refused, End, Goto, Continue
  <2>. QED BY <1>1, <2>1, <2>2, <2>3, <2>4, <2>5 DEF Run
<1>2. ASSUME Expire PROVE proc'[p] = AfterCache(p)
  BY <1>2 DEF Expire
<1>3. ASSUME NEW q \in Process, OpenTab(q) PROVE proc'[p] = proc[p]
  BY <1>3 DEF OpenTab
<1>4. ASSUME NEW q \in Process, q # p, Redirect(q) PROVE proc'[p] = AfterCache(p)
  BY <1>4 DEF Redirect, Continue
<1>. QED BY <1>1, <1>2, <1>3, <1>4 DEF Next

\* Only a refusal of STS leads to the removal of a token, and not after a retry.
LEMMA ClearsOnceHolds == Spec => []ClearsOnce
<1>1. Init => ClearsOnce
  BY DEF Init, Unstarted, ClearsOnce
<1>2. ASSUME AuthInv, AuthInv', ClearsOnce, Next, NEW p \in Process, proc'[p].pc = "clear"
      PROVE  ~proc'[p].retry
  <2>. PICK r, s : r = proc[p] /\ s = proc'[p]
    OBVIOUS
  <2>1. /\ r \in ProcessState /\ s \in ProcessState
        /\ r.pc = "clear" => ~r.retry
    BY <1>2 DEF AuthInv, TypeOK, ClearsOnce
  <2>2. CASE AssumeRole(p)
    <3>1. ~r.retry /\ s = [r EXCEPT !.pc = "clear"]
      <4>1. \/ s = [r EXCEPT !.pc = "lambda"]
            \/ s = [Unstarted EXCEPT !.pc = "done"] \/ s = [Unstarted EXCEPT !.pc = "failed"]
            \/ ~r.retry /\ s = [r EXCEPT !.pc = "clear"]
        BY <2>2 DEF AssumeRole, Assumed, Refused, End, Goto, Continue
      <4>2. s.pc = "clear"
        BY <1>2
      <4>3. s # [r EXCEPT !.pc = "lambda"]
        BY <2>1, <4>2 DEF ProcessState
      <4>4. s # [Unstarted EXCEPT !.pc = "done"] /\ s # [Unstarted EXCEPT !.pc = "failed"]
        BY <4>2 DEF Unstarted
      <4>. QED BY <4>1, <4>3, <4>4
    <3>. QED BY <2>1, <3>1 DEF ProcessState
  <2>3. CASE proc'[p] = AfterCache(p) \/ proc'[p] = proc[p] \/ Redirect(p)
    <3>1. s.pc = r.pc /\ s.retry = r.retry
      BY <2>1, <2>3 DEF AfterCache, Redirect, Continue, ProcessState
    <3>. QED BY <1>2, <2>1, <3>1
  <2>4. CASE Begin(p) \/ Stop(p)
    <3>1. \/ s = [r EXCEPT !.pc = "failed"] \/ s = [Unstarted EXCEPT !.pc = "failed"]
          \/ \E line \in Command : \/ s = [Unstarted EXCEPT !.line = line, !.pc = "first"]
                                   \/ s = [Unstarted EXCEPT !.line = line, !.pc = "get"]
      BY <2>4 DEF Begin, Stop, End, Goto, Continue
    <3>2. s.pc \in {"failed", "first", "get"}
      <4>1. CASE s = [r EXCEPT !.pc = "failed"]
        BY <2>1, <4>1 DEF ProcessState
      <4>. QED BY <3>1, <4>1 DEF Unstarted
    <3>. QED BY <1>2, <3>2
  <2>5. CASE Serve(p)
    <3>1. \/ s = [r EXCEPT !.server = "listening"] \/ s = [r EXCEPT !.server = "off"]
          \/ s = [r EXCEPT !.server = "off", !.answer = AuthError]
      BY <2>5 DEF Serve, Listen, Shutdown, CallbackTimeout, Continue
    <3>2. s.pc = r.pc /\ s.retry = r.retry
      BY <2>1, <3>1 DEF ProcessState
    <3>. QED BY <1>2, <2>1, <3>2
  <2>6. CASE \E outcome \in {"done", "failed"} : End(p, outcome)
    <3>1. s.pc \in {"done", "failed"}
      BY <2>6 DEF End, Continue, Unstarted
    <3>. QED BY <1>2, <3>1
  <2>7. CASE FirstLook(p) \/ Purge(p) \/ GetToken(p) \/ SaveToken(p) \/ WriteToken(p) \/ ClearToken(p)
    <3>1. \/ s = [r EXCEPT !.cached = CachedToken(p), !.pc = "purgeFirst"]
          \/ s = [r EXCEPT !.cached = CachedToken(p), !.pc = "get"]
          \/ \E stage \in {"get", "login", "purge", "write"} : s = [r EXCEPT !.pc = stage]
          \/ s = [r EXCEPT !.pc = "assume", !.token = CachedToken(p), !.lost = FALSE]
          \/ \E b \in BOOLEAN : s = [r EXCEPT !.pc = "assume", !.lost = b]
          \/ s = [r EXCEPT !.pc = "get", !.retry = TRUE, !.token = None]
      BY <2>7 DEF FirstLook, Purge, GetToken, SaveToken, WriteToken, ClearToken, Goto, Continue
    <3>2. s.pc # "clear"
      BY <2>1, <3>1 DEF ProcessState
    <3>. QED BY <1>2, <3>2
  <2>8. CASE StartLogin(p) \/ OpenBrowser(p) \/ AwaitCallback(p) \/ RequestDevice(p) \/ ExchangeCode(p)
             \/ PollDevice(p) \/ SecondRole(p)
    <3>1. \/ s = [r EXCEPT !.pc = "open", !.login = @ + 1, !.server = "starting"]
          \/ s = [r EXCEPT !.pc = "await"]
          \/ s = [r EXCEPT !.pc = "exchange"]
          \/ s = [r EXCEPT !.pc = "poll", !.login = @ + 1]
          \/ s = [r EXCEPT !.pc = "save", !.token = NewToken(p), !.answer = NoAnswer]
          \/ s = [r EXCEPT !.pc = "first", !.role = 2, !.cached = None, !.token = None, !.retry = FALSE]
          \/ End(p, "failed")
      BY <2>8 DEF StartLogin, OpenBrowser, AwaitCallback, RequestDevice, ExchangeCode, PollDevice,
                  SecondRole, Obtain, Goto, Continue
    <3>2. s.pc # "clear" \/ End(p, "failed")
      BY <2>1, <3>1 DEF ProcessState
    <3>. QED BY <1>2, <2>6, <3>2
  <2>. QED BY <1>2, <2>2, <2>3, <2>4, <2>5, <2>7, <2>8, CallsOrRests DEF Run
<1>3. AuthInv /\ AuthInv' /\ ClearsOnce /\ [Next]_vars => ClearsOnce'
  BY <1>2 DEF ClearsOnce, vars
<1>. QED BY <1>1, <1>3, AuthInvariant, PTL DEF Spec

\* A command makes a bounded number of calls, whatever fails and whatever the others do.
THEOREM CommandsRunOut == Spec => StepsRunOut
<1>1. ASSUME AuthInv, AuthInv', ClearsOnce, NEW p \in Process,
             Begin(p) \/ Stop(p) \/ Run(p) \/ Serve(p)
      PROVE  StepsLeft(proc'[p]) < StepsLeft(proc[p])
  BY <1>1, BeginCounts, EndCounts, LoginCounts, CacheCounts, RoleCounts, ServerCounts
     DEF Run, Stop, Running
<1>2. ASSUME AuthInv, AuthInv', ClearsOnce, Next, NEW p \in Process
      PROVE  /\ StepsLeft(proc'[p]) \in Nat
             /\ StepsLeft(proc'[p]) <= StepsLeft(proc[p])
  <2>1. StepsLeft(proc'[p]) \in Nat /\ StepsLeft(proc[p]) \in Nat
    BY <1>2, Counts DEF AuthInv, TypeOK
  <2>2. StepsLeft(proc'[p]) <= StepsLeft(proc[p])
    BY <1>1, <1>2, <2>1, CallsOrRests, OtherCounts, RedirectCounts
  <2>. QED BY <2>1, <2>2
<1>3. AuthInv /\ AuthInv' /\ ClearsOnce /\ [Next]_vars =>
        [\A p \in Process :
           /\ StepsLeft(proc'[p]) \in Nat /\ StepsLeft(proc'[p]) <= StepsLeft(proc[p])
           /\ Begin(p) \/ Stop(p) \/ Run(p) \/ Serve(p)
                => StepsLeft(proc'[p]) < StepsLeft(proc[p])]_vars
  BY <1>1, <1>2
<1>. QED BY <1>3, AuthInvariant, ClearsOnceHolds, PTL DEF Spec, StepsRunOut

=============================================================================
