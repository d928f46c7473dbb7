------------------------------ MODULE Sessions ------------------------------
(***************************************************************************)
(* Sessions: user-service issues an access JWT and an opaque refresh token,*)
(* rotates the refresh token through Redis and denies access tokens on     *)
(* logout; the gateway keeps both tokens in cookies and verifies access    *)
(* tokens against the clock and the denylist.                              *)
(*                                                                         *)
(* Every HTTP request is an element of Requests.  A request issues at most *)
(* one pair of tokens (access and refresh), which is named by the request  *)
(* that issued it.  All cookies belong to one browser, whose tabs may send *)
(* requests at the same time.                                              *)
(***************************************************************************)
EXTENDS Naturals

CONSTANTS
  Requests,       \* HTTP requests, each made at most once
  Environments,   \* what may go wrong, and whether requests overlap
  TicksPerSecond, \* steps of the clock that the code rounds to one second
  AccessTtl,      \* JWT_EXPIRES_IN, in seconds
  RefreshTtl,     \* JWT_REFRESH_EXPIRES_IN, in seconds
  MaxNow,         \* bound: the clock stops here
  None

(***************************************************************************)
(* "redis": a Redis command may fail; "lost": an answer may be lost.       *)
(* overlap: two requests may be in flight at the same time.                *)
(***************************************************************************)
AllEnvironments == [faults: SUBSET {"redis", "lost"}, overlap: BOOLEAN]

ASSUME NoneIsNoRequest == None \notin Requests
ASSUME EnvironmentsKnown == Environments \subseteq AllEnvironments
ASSUME TimesPositive ==
  /\ TicksPerSecond \in Nat \ {0}
  /\ AccessTtl \in Nat \ {0}
  /\ RefreshTtl \in Nat \ {0}
  /\ MaxNow \in Nat

(***************************************************************************)
(* Definitions whose comment starts with "Variant" are faulty versions of  *)
(* the definition that follows them, and no action uses them.              *)
(***************************************************************************)
VARIABLES
  env,      \* the environment, which never changes
  now,      \* the clock, in ticks
  jar,      \* the pair in the browser's cookies
  exp,      \* exp[p]: the exp claim of p's access token, in seconds; 0: not issued
  family,   \* family[p]: familyId in the record of p's refresh token
  store,    \* store[p]: tick at which Redis forgets p's refresh token; 0: no key
  deny,     \* deny[p]: tick at which Redis forgets that p's access token is denied
  req,      \* the requests' progress
  denied,   \* history: pairs whose access token some logout has denied
  spent     \* history: pairs whose refresh token some request has deleted

vars == <<env, now, jar, exp, family, store, deny, req, denied, spent>>
redisVars == <<store, deny, denied, spent>>
tokenVars == <<exp, family>>

-----------------------------------------------------------------------------

(***************************************************************************)
(* at = "idle"      not made                                               *)
(*      "check"     sign-in: credentials not compared yet                  *)
(*      "get","del" refresh: take has to GET and then to DEL               *)
(*      "sign"      issue: the access token is not signed yet              *)
(*      "save"      issue: the refresh token is not stored yet             *)
(*      "verify"    gateway: the access token's signature and claims       *)
(*      "isRevoked" gateway: the denylist                                  *)
(*      "logout"    logout use case: not started                           *)
(*      "deny"      logout use case: SET deny:<jti> under way, with ttl    *)
(*      "revoke"    logout use case: DEL of the refresh token              *)
(*      "reply"     status decided; "done": answered                       *)
(***************************************************************************)
Stages == {"idle", "check", "get", "del", "sign", "save", "verify", "isRevoked",
           "logout", "deny", "revoke", "reply", "done"}

InFlight == Stages \ {"idle", "done"}

Operations == {"sign_in", "refresh", "logout", "me"}

Statuses == {0, 200, 204, 401, 500}

RequestStates ==
  [ at      : Stages,
    op      : Operations \cup {"none"},
    access  : Requests \cup {None},    \* the pair whose access token was sent
    refresh : Requests \cup {None},    \* the pair whose refresh token was sent
    jti     : Requests \cup {None},    \* logout: the claims that were verified
    ttl     : 0..AccessTtl,            \* logout: seconds for the deny entry
    stale   : BOOLEAN,   \* history: a guarded request's token was denied on arrival
    status  : Statuses ]

Sent(stage, op, access, refresh) ==
  [ at |-> stage, op |-> op, access |-> access, refresh |-> refresh, jti |-> None,
    ttl |-> 0, stale |-> op = "me" /\ access \in denied, status |-> 0 ]

NotMade ==
  [ at |-> "idle", op |-> "none", access |-> None, refresh |-> None, jti |-> None,
    ttl |-> 0, stale |-> FALSE, status |-> 0 ]

TypeOK ==
  /\ env \in Environments
  /\ now \in 0..MaxNow
  /\ jar \in Requests \cup {None}
  /\ exp \in [Requests -> Nat]
  /\ family \in [Requests -> Requests \cup {None}]
  /\ store \in [Requests -> Nat]
  /\ deny \in [Requests -> Nat]
  /\ req \in [Requests -> RequestStates]
  /\ denied \subseteq Requests
  /\ spent \subseteq Requests

Init ==
  /\ env \in Environments
  /\ now = 0
  /\ jar = None
  /\ exp = [p \in Requests |-> 0]
  /\ family = [p \in Requests |-> None]
  /\ store = [p \in Requests |-> 0]
  /\ deny = [p \in Requests |-> 0]
  /\ req = [q \in Requests |-> NotMade]
  /\ denied = {}
  /\ spent = {}

-----------------------------------------------------------------------------

(* Math.floor(Date.now() / 1000) *)
Seconds(t) == t \div TicksPerSecond

(* jose: the token is good while the current second is before exp. *)
Expired(p) == exp[p] <= Seconds(now)

(* A Redis key is there until its time. *)
Stored(p) == now < store[p]
Denied(p) == now < deny[p]

At(q, stage, op) == req[q].at = stage /\ req[q].op = op

(* What may happen to a request's own state. *)
GoTo(q, stage) == req' = [req EXCEPT ![q].at = stage]
Reply(q, status) == req' = [req EXCEPT ![q] = [@ EXCEPT !.at = "reply", !.status = status]]

(* The cookies an endpoint reads; either may be gone, by a maxAge of its own. *)
AccessCookies(op) == IF op \in {"me", "logout"} THEN {jar, None} ELSE {None}
RefreshCookies(op) == IF op \in {"refresh", "logout"} THEN {jar, None} ELSE {None}

(***************************************************************************)
(* A request arrives at the gateway.  A refresh and a guarded request      *)
(* without their cookie are refused at once; a logout without an access    *)
(* cookie skips the verification.                                          *)
(***************************************************************************)
FirstStage(op, access, refresh) ==
  CASE op = "sign_in" -> "check"
    [] op = "refresh" -> IF refresh = None THEN "reply" ELSE "get"
    [] op = "me"      -> IF access = None THEN "reply" ELSE "verify"
    [] op = "logout"  -> IF access = None THEN "logout" ELSE "verify"

Arrive(q, op, access, refresh) ==
  LET first == FirstStage(op, access, refresh) IN
    /\ req[q].at = "idle"
    /\ env.overlap \/ \A p \in Requests : req[p].at \notin InFlight
    /\ req' = [req EXCEPT ![q] =
                 [Sent(first, op, access, refresh) EXCEPT
                    !.status = IF first = "reply" THEN 401 ELSE 0]]
    /\ UNCHANGED <<env, now, jar, tokenVars, redisVars>>

-----------------------------------------------------------------------------

(* SignInUseCase: user and password are right, or InvalidCredentialsError. *)
SignIn(q) ==
  /\ At(q, "check", "sign_in")
  /\ GoTo(q, "sign") \/ Reply(q, 401)
  /\ UNCHANGED <<env, now, jar, tokenVars, redisVars>>

(* Variant: take only reads the record. *)
TakeGetOnly(q) ==
  /\ At(q, "get", "refresh")
  /\ IF Stored(req[q].refresh) THEN GoTo(q, "sign") ELSE Reply(q, 401)
  /\ UNCHANGED <<env, now, jar, tokenVars, redisVars>>

(* Variant: take waits for a record instead of giving up. *)
TakeGetWaits(q) ==
  /\ At(q, "get", "refresh")
  /\ Stored(req[q].refresh)
  /\ GoTo(q, "del")
  /\ UNCHANGED <<env, now, jar, tokenVars, redisVars>>

(* RefreshSessionUseCase, take: GET; no record is InvalidRefreshTokenError. *)
TakeGet(q) ==
  /\ At(q, "get", "refresh")
  /\ IF Stored(req[q].refresh) THEN GoTo(q, "del") ELSE Reply(q, 401)
  /\ UNCHANGED <<env, now, jar, tokenVars, redisVars>>

(* DEL refresh:<hash>, whether or not the key is still there. *)
DelRefresh(p) ==
  /\ store' = [store EXCEPT ![p] = 0]
  /\ spent' = spent \cup {p}
  /\ UNCHANGED <<deny, denied>>

TakeDel(q) ==
  /\ At(q, "del", "refresh")
  /\ DelRefresh(req[q].refresh)
  /\ GoTo(q, "sign")
  /\ UNCHANGED <<env, now, jar, tokenVars>>

(***************************************************************************)
(* IssueSessionTokensService: the access token is signed now, with a new   *)
(* jti; the family is that of the rotated token, or a new one.             *)
(***************************************************************************)
SignAccessToken(q) ==
  /\ req[q].at = "sign"
  /\ exp' = [exp EXCEPT ![q] = Seconds(now) + AccessTtl]
  /\ family' = [family EXCEPT ![q] =
                  IF req[q].op = "refresh" THEN family[req[q].refresh] ELSE q]
  /\ GoTo(q, "save")
  /\ UNCHANGED <<env, now, jar, redisVars>>

(* Variant: the lifetime is taken in the wrong unit (PX for EX). *)
SaveRefreshTokenShort(q) ==
  /\ req[q].at = "save"
  /\ store' = [store EXCEPT ![q] = now + RefreshTtl]
  /\ Reply(q, 200)
  /\ UNCHANGED <<env, now, jar, tokenVars, deny, denied, spent>>

(* SET refresh:<hash> EX refreshTtl. *)
SetRefresh(p) ==
  /\ store' = [store EXCEPT ![p] = now + RefreshTtl * TicksPerSecond]
  /\ UNCHANGED <<deny, denied, spent>>

(* ... and the refresh token is stored afterwards, before the answer. *)
SaveRefreshToken(q) ==
  /\ req[q].at = "save"
  /\ SetRefresh(q)
  /\ Reply(q, 200)
  /\ UNCHANGED <<env, now, jar, tokenVars>>

-----------------------------------------------------------------------------

(* jwtVerify: signature, issuer and audience are right; exp may be over. *)
VerifyClaims(q) ==
  /\ req[q].at = "verify"
  /\ CASE ~Expired(req[q].access) -> GoTo(q, "isRevoked")
       [] Expired(req[q].access) /\ req[q].op = "me" -> Reply(q, 401)
       [] Expired(req[q].access) /\ req[q].op = "logout" -> GoTo(q, "logout")
  /\ UNCHANGED <<env, now, jar, tokenVars, redisVars>>

(* Variant: the guard trusts a good signature. *)
AdmitUnchecked(q) ==
  /\ At(q, "isRevoked", "me")
  /\ Reply(q, 200)
  /\ UNCHANGED <<env, now, jar, tokenVars, redisVars>>

(* Guard: denylist.isRevoked, then the request is let in or refused. *)
Admit(q) ==
  /\ At(q, "isRevoked", "me")
  /\ Reply(q, IF Denied(req[q].access) THEN 401 ELSE 200)
  /\ UNCHANGED <<env, now, jar, tokenVars, redisVars>>

(* Logout: the claims are kept if the token is not revoked already. *)
KeepClaims(q) ==
  /\ At(q, "isRevoked", "logout")
  /\ IF Denied(req[q].access)
       THEN GoTo(q, "logout")
       ELSE req' = [req EXCEPT ![q] = [@ EXCEPT !.at = "logout", !.jti = req[q].access]]
  /\ UNCHANGED <<env, now, jar, tokenVars, redisVars>>

-----------------------------------------------------------------------------

AfterDeny(q) == IF req[q].refresh = None THEN "reply" ELSE "revoke"

(* The logout's own state when it moves on; "reply" is 204. *)
MoveOn(q, stage, ttl) ==
  req' = [req EXCEPT ![q] =
            [@ EXCEPT !.at = stage, !.ttl = ttl,
                      !.status = IF stage = "reply" THEN 204 ELSE 0]]

(* Variant: exp itself is taken for the remaining time. *)
StartLogoutAbsolute(q) ==
  /\ At(q, "logout", "logout")
  /\ LET p == req[q].jti IN
       IF p # None THEN MoveOn(q, "deny", exp[p]) ELSE MoveOn(q, AfterDeny(q), 0)
  /\ UNCHANGED <<env, now, jar, tokenVars, redisVars>>

(* Variant: the current time is rounded up to seconds. *)
StartLogoutRoundedUp(q) ==
  /\ At(q, "logout", "logout")
  /\ LET p == req[q].jti
         t == Seconds(now + TicksPerSecond - 1) IN
       IF p # None /\ exp[p] > t
         THEN MoveOn(q, "deny", exp[p] - t)
         ELSE MoveOn(q, AfterDeny(q), 0)
  /\ UNCHANGED <<env, now, jar, tokenVars, redisVars>>

(* LogoutUseCase: exp - now in seconds; nothing to deny if it is not positive. *)
StartLogout(q) ==
  /\ At(q, "logout", "logout")
  /\ LET p == req[q].jti IN
       IF p # None /\ exp[p] > Seconds(now)
         THEN MoveOn(q, "deny", exp[p] - Seconds(now))
         ELSE MoveOn(q, AfterDeny(q), 0)
  /\ UNCHANGED <<env, now, jar, tokenVars, redisVars>>

(* SET deny:<jti> EX ttl, counted from when Redis runs it. *)
SetDeny(p, ttl) ==
  /\ deny' = [deny EXCEPT ![p] = now + ttl * TicksPerSecond]
  /\ denied' = denied \cup {p}
  /\ UNCHANGED <<store, spent>>

DenyAccess(q) ==
  /\ At(q, "deny", "logout")
  /\ SetDeny(req[q].jti, req[q].ttl)
  /\ MoveOn(q, AfterDeny(q), 0)
  /\ UNCHANGED <<env, now, jar, tokenVars>>

RevokeRefresh(q) ==
  /\ At(q, "revoke", "logout")
  /\ DelRefresh(req[q].refresh)
  /\ MoveOn(q, "reply", 0)
  /\ UNCHANGED <<env, now, jar, tokenVars>>

-----------------------------------------------------------------------------

(* The answer arrives: it sets the cookies, clears them or leaves them. *)
Deliver(q) ==
  /\ req[q].at = "reply"
  /\ jar' = CASE req[q].status = 200 /\ req[q].op \in {"sign_in", "refresh"} -> q
              [] req[q].status = 204 -> None
              [] OTHER -> jar
  /\ GoTo(q, "done")
  /\ UNCHANGED <<env, now, tokenVars, redisVars>>

(* The answer is lost on its way: the cookies stay as they are. *)
Lose(q) ==
  /\ "lost" \in env.faults
  /\ req[q].at = "reply"
  /\ req' = [req EXCEPT ![q] = [@ EXCEPT !.at = "done", !.status = 500]]
  /\ UNCHANGED <<env, now, jar, tokenVars, redisVars>>

(***************************************************************************)
(* A Redis command fails.  The logout's verification swallows the error as *)
(* it swallows an invalid token; everywhere else the request fails.        *)
(***************************************************************************)
RedisFails(q) ==
  /\ "redis" \in env.faults
  /\ req[q].at \in {"get", "del", "save", "isRevoked", "deny", "revoke"}
  /\ IF At(q, "isRevoked", "logout") THEN GoTo(q, "logout") ELSE Reply(q, 500)
  /\ UNCHANGED <<env, now, jar, tokenVars, redisVars>>

(* The connection breaks when Redis has run the command: the request fails all the same. *)
RedisFailsLate(q) ==
  /\ "redis" \in env.faults
  /\ \/ req[q].at \in {"del", "revoke"} /\ DelRefresh(req[q].refresh)
     \/ req[q].at = "save" /\ SetRefresh(q)
     \/ req[q].at = "deny" /\ SetDeny(req[q].jti, req[q].ttl)
  /\ Reply(q, 500)
  /\ UNCHANGED <<env, now, jar, tokenVars>>

Tick ==
  /\ now < MaxNow
  /\ now' = now + 1
  /\ UNCHANGED <<env, jar, tokenVars, redisVars, req>>

(* Everything that may be asked has been answered. *)
Quiet ==
  /\ \A q \in Requests : req[q].at = "done"
  /\ now = MaxNow
  /\ UNCHANGED vars

Step(q) ==
  \/ SignIn(q) \/ TakeGet(q) \/ TakeDel(q) \/ SignAccessToken(q) \/ SaveRefreshToken(q)
  \/ VerifyClaims(q) \/ Admit(q) \/ KeepClaims(q)
  \/ StartLogout(q) \/ DenyAccess(q) \/ RevokeRefresh(q)
  \/ Deliver(q)

Next ==
  \/ \E q \in Requests :
       \/ \E op \in Operations :
            \E access \in AccessCookies(op), refresh \in RefreshCookies(op) :
              Arrive(q, op, access, refresh)
       \/ Step(q)
       \/ Lose(q)
       \/ RedisFails(q) \/ RedisFailsLate(q)
  \/ Tick
  \/ Quiet

Spec == Init /\ [][Next]_vars

(* The event loops and Redis run what can run; nothing else has to happen. *)
Fairness == \A q \in Requests : WF_vars(Step(q))

FairSpec == Spec /\ Fairness

-----------------------------------------------------------------------------

(* The environment in which the code keeps its sessions apart. *)
Calm == env.faults = {} /\ ~env.overlap

(***************************************************************************)
(* The guard lets no request in that came with a denied access token,      *)
(* unless the token runs out while the request waits for the denylist      *)
(* (jwt-verifier.service.ts:33-46).                                        *)
(***************************************************************************)
Admitted(q) == At(q, "isRevoked", "me") /\ req'[q].status = 200

AdmitsOnlyUndenied ==
  [][\A q \in Requests : Admitted(q) => ~req[q].stale \/ Expired(req[q].access)]_vars

(***************************************************************************)
(* The refresh token in the browser's cookies works until some request has *)
(* used or revoked it or its time is over: the answer that sets the cookie *)
(* comes after the token was stored (issue-session-tokens.service.ts:44).  *)
(***************************************************************************)
CookieBacked ==
  jar # None =>
    \/ Stored(jar)
    \/ jar \in spent
    \/ Seconds(now) >= exp[jar] - AccessTtl + RefreshTtl    \* iat + lifetime

(***************************************************************************)
(* "Get + delete (one-time use / rotation)" (refresh-token.store.ts:16): a *)
(* refresh token is exchanged for one new pair at most.                    *)
(***************************************************************************)
RotatesOnce ==
  \A q, s \in Requests :
    /\ req[q].op = "refresh" /\ req[s].op = "refresh"
    /\ req[q].refresh = req[s].refresh
    /\ req[q].status = 200 /\ req[s].status = 200
    => q = s

(***************************************************************************)
(* "Logout - revoke tokens and clear auth cookies" (auth.controller.ts:105)*)
(* when a logout has been answered with 204, the access token it was given *)
(* is denied or expired, and the refresh token is gone for good.           *)
(***************************************************************************)
LogoutRevokes ==
  \A q \in Requests :
    req[q].op = "logout" /\ req[q].status = 204 =>
      /\ req[q].access # None => Denied(req[q].access) \/ Expired(req[q].access)
      /\ req[q].refresh # None => ~Stored(req[q].refresh)

(* It does so if Redis answers. *)
LogoutRevokesIfRedisAnswers == "redis" \notin env.faults => LogoutRevokes

(***************************************************************************)
(* Without overlapping requests and faults a session is one chain: a       *)
(* refresh token rotates once and its family never has two that work; a    *)
(* browser nobody logged out is not left with one that was used; and after *)
(* a logout none of its family works any more                              *)
(* (refresh-session.use-case.ts:24-35, logout.use-case.ts:34-36).          *)
(***************************************************************************)
CalmSessionsAreChains ==
  Calm =>
    /\ RotatesOnce
    /\ \A p, r \in Requests :
         family[p] # None /\ family[p] = family[r] /\ Stored(p) /\ Stored(r) => p = r
    /\ jar # None /\ (\A q \in Requests : req[q].at \notin InFlight) => jar \notin spent
    /\ \A q, p \in Requests :
         /\ req[q].op = "logout" /\ req[q].status = 204 /\ req[q].refresh # None
         /\ family[p] = family[req[q].refresh]
         => ~Stored(p)

(* Every request is answered. *)
RequestsEnd == \A q \in Requests : req[q].at \in InFlight ~> req[q].at = "done"

-----------------------------------------------------------------------------
(* Why they hold. *)

Issued(p) == exp[p] > 0

(* The pair p has reached the browser; only then can it be sent or denied. *)
Given(p) == req[p].at = "done" /\ req[p].op \in {"sign_in", "refresh"} /\ req[p].status = 200

(***************************************************************************)
(* A pair is issued with its family.  What Redis keeps of it agrees with   *)
(* the history, and a deny entry outlives the access token it denies: its  *)
(* time to live was rounded when the clock could only have been behind.    *)
(***************************************************************************)
TokensInStep(p) ==
  /\ Issued(p) <=> family[p] # None
  /\ Issued(p) => exp[p] \in AccessTtl .. (Seconds(now) + AccessTtl)
  /\ family[p] # None => Issued(family[p])
  /\ store[p] > 0 => Issued(p) /\ p \notin spent
  /\ deny[p] > 0 => p \in denied
  /\ p \in denied => deny[p] >= exp[p] * TicksPerSecond
  /\ p \in spent \cup denied => Given(p)

(* A request issues its pair at the end, and has the tokens its stage needs. *)
StagesInStep(q) ==
  LET r == req[q] IN
    /\ r.at \notin {"reply", "done"} => r.status = 0
    /\ r.at \in InFlight \ {"save", "reply"} \/ r.at = "idle" => ~Issued(q)
    /\ r.at = "save" => Issued(q)
    /\ r.at \in {"verify", "isRevoked"} => r.op \in {"me", "logout"} /\ r.access # None
    /\ r.at \in {"get", "del"} => r.refresh # None
    /\ r.at = "deny" => r.jti # None /\ r.ttl + Seconds(now) >= exp[r.jti]
    /\ r.at = "revoke" => r.refresh # None
    /\ r.jti \in {None, r.access}
    /\ r.access # None => Given(r.access)
    /\ r.refresh # None => Given(r.refresh)
    /\ r.stale => r.access \in denied

(* What the pair of an answered sign-in or refresh has behind it. *)
Lasts(p) ==
  p \in spent \/ store[p] >= (exp[p] - AccessTtl + RefreshTtl) * TicksPerSecond

Took(q) == req[q].op = "refresh" /\ (req[q].at \in {"sign", "save"} \/ req[q].status = 200)

LoggedOut(q) == req[q].op = "logout" /\ req[q].status = 204

EndsAccess(p) == p = None \/ p \in denied \/ Expired(p)

(***************************************************************************)
(* What the stages behind it have done: a refresh has used its token up; a *)
(* logout has ended the access token, or knows its claims, unless Redis    *)
(* failed it, and has used the refresh token up when it answers 204.       *)
(***************************************************************************)
EffectsInStep(q) ==
  LET r == req[q] IN
    /\ r.status = 200 /\ r.op \in {"sign_in", "refresh"} => Issued(q) /\ Lasts(q)
    /\ Took(q) => r.refresh \in spent
    /\ LoggedOut(q) /\ r.refresh # None => r.refresh \in spent
    /\ "redis" \notin env.faults =>
         /\ At(q, "logout", "logout") /\ r.jti = None => EndsAccess(r.access)
         /\ At(q, "revoke", "logout") \/ LoggedOut(q) => EndsAccess(r.access)

Live(p) == Issued(p) /\ p \notin spent

(* The request holds a refresh token that it has not used yet. *)
Presents(q) ==
  /\ req[q].at \in {"get", "del", "verify", "isRevoked", "logout", "deny", "revoke"}
  /\ req[q].refresh # None

(* The answer of the request takes the place of what is in the jar. *)
Settles(q) ==
  \/ Took(q) /\ req[q].at \in InFlight
  \/ LoggedOut(q) /\ req[q].at = "reply"

(***************************************************************************)
(* One request at a time: the token a request presents has not been used,  *)
(* so a refresh ends the one live pair of its family before it issues the  *)
(* next, and a logout leaves a family with none.                           *)
(***************************************************************************)
OneLivePerFamily ==
  \A p, r \in Requests : Live(p) /\ Live(r) /\ family[p] = family[r] => p = r

NoneLive(f) == \A p \in Requests : Live(p) => family[p] # f

CalmChains ==
  Calm =>
    /\ \A q, s \in Requests : req[q].at \in InFlight /\ req[s].at \in InFlight => q = s
    /\ \A q, s \in Requests : Took(q) /\ Took(s) /\ req[q].refresh = req[s].refresh => q = s
    /\ OneLivePerFamily
    /\ jar \in spent => \E q \in Requests : Settles(q)
    /\ \A q \in Requests : Presents(q) => req[q].refresh \notin spent
    /\ \A q \in Requests :
         LoggedOut(q) /\ req[q].refresh # None => NoneLive(family[req[q].refresh])
    /\ \A q \in Requests : At(q, "sign", "refresh") =>
         /\ NoneLive(family[req[q].refresh])
         /\ \A s \in Requests : LoggedOut(s) /\ req[s].refresh # None =>
              family[req[s].refresh] # family[req[q].refresh]

(* The inductive invariant. *)
InductiveInv ==
  /\ TypeOK
  /\ \A p \in Requests : TokensInStep(p)
  /\ \A q \in Requests : StagesInStep(q) /\ EffectsInStep(q)
  /\ jar # None => Given(jar)
  /\ CalmChains

=============================================================================
