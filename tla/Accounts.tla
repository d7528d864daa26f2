------------------------------ MODULE Accounts ------------------------------
(***************************************************************************)
(* Sign-up, sign-in and the account's settings: the handlers of            *)
(* internal/server/routes-auth.go, the session tokens of session_jwt.go    *)
(* and the middlewares that check them or the request key.  A handler runs *)
(* its statements one at a time in a transaction; it answers after the     *)
(* commit, and may fail between any two steps.                             *)
(***************************************************************************)
EXTENDS AuthStore

CONSTANTS Counting,      \* passkeys whose authenticator counts its signatures
          MaxCount,      \* bound: signature counter
          MaxKey,        \* bound: request keys of one account
          DeliveryLimit, \* wrapped keys delivered to a user per window (4)
          NoCred, NoChallenge

ASSUME DeliveryLimitAssumption == DeliveryLimit \in Nat

VARIABLES tokens,    \* the session tokens issued; they are not revoked
          call,      \* the call each caller is making
          delivered  \* sign-ins counted against the user's wrapped-key limit

vars == <<store, tokens, call, delivered>>

Token == [user: Users, ready: BOOLEAN]
Steps == {"idle", "register", "login", "loginLoaded", "finalize", "finalizeUser", "settings",
          "written", "committed", "authorized"}
Call == [step: Steps, event: STRING, user: Users \union {NoUser}, cred: Creds \union {NoCred},
         challenge: Challenges \union {NoChallenge}, count: Nat, ready: BOOLEAN]

TypeOK ==
    /\ StoreTypeOK
    /\ tokens \subseteq Token
    /\ call \in [Procs -> Call]
    /\ delivered \in [Users -> 0 .. DeliveryLimit]
    /\ \A c \in Creds : db[c] # NoRow => db[db[c].user] # NoRow

Idle == [step |-> "idle", event |-> "", user |-> NoUser, cred |-> NoCred,
         challenge |-> NoChallenge, count |-> 0, ready |-> FALSE]

Init ==
    /\ db = [x \in Rows |-> NoRow]
    /\ dirty = [x \in Rows |-> Clean]
    /\ WriterInit
    /\ audit = {}
    /\ tokens = {}
    /\ call = [p \in Procs |-> Idle]
    /\ delivered = [u \in Users |-> 0]

U(p) == call[p].user
C(p) == call[p].cred
At(p, step) == call[p].step = step
Goto(p, step) == call' = [call EXCEPT ![p].step = step]
Done(p) == call' = [call EXCEPT ![p] = Idle]
Enter(p, rec) == At(p, "idle") /\ call' = [call EXCEPT ![p] = rec]

Abort(p) == Rollback(p) /\ Done(p) /\ UNCHANGED <<tokens, delivered>>

\* Every transaction ends with its audit row; the answer follows the commit.
Commit(p) ==
    /\ At(p, "written")
    /\ CommitWith(p, IF call[p].event = "" THEN {} ELSE {<<call[p].event, U(p)>>})
    /\ IF call[p].event \in {"register_finish", "login_finish", "finalize_signup"}
       THEN Goto(p, "committed") ELSE Done(p)
    /\ UNCHANGED <<tokens, delivered>>

\* A statement of an open transaction.
Write(p, step) == Goto(p, step) /\ UNCHANGED <<db, writer, audit, tokens, delivered>>

-----------------------------------------------------------------------------
(* RouteV2AuthRegisterBegin and RouteV2AuthLoginBegin *)

BeginCeremony(p, h, kind, u) ==
    /\ Begin(p) /\ BeginChallenge(p, h, kind, u)
    /\ Enter(p, [Idle EXCEPT !.step = "written", !.challenge = h])
    /\ UNCHANGED <<db, audit, tokens, delivered>>

\* The user id of a registration is a fresh UUID.
RegisterBegin(p, h, u) ==
    /\ db[u] = NoRow /\ <<"register_finish", u>> \notin audit
    /\ \A k \in Challenges : db[k] # NoRow => db[k].user # u
    /\ BeginCeremony(p, h, "register", u)

LoginBegin(p, h) == BeginCeremony(p, h, "login", NoUser)

(* RouteV2AuthRegisterFinish: registerFinish *)

RegisterConsume(p, h, c) ==
    /\ db[c] = NoRow
    /\ Begin(p) /\ Lockable(p, h) /\ Consumable(p, h, "register", NoUser)
    /\ ConsumeChallenge(p, h)
    /\ Enter(p, [Idle EXCEPT !.step = "register", !.event = "register_finish",
                             !.user = db[h].user, !.cred = c, !.challenge = h])
    /\ UNCHANGED <<db, audit, tokens, delivered>>

\* A row with one of the keys is there already: ErrUserAlreadyExists.
RegisterInsert(p) ==
    /\ At(p, "register") /\ Lockable(p, U(p)) /\ Lockable(p, C(p))
    /\ IF Exists(p, U(p)) \/ Exists(p, C(p))
       THEN Abort(p)
       ELSE RegisterUser(p, U(p), C(p), 0) /\ Write(p, "written")

-----------------------------------------------------------------------------
(* RouteV2AuthLoginFinish: loginFinish *)

LoginConsume(p, h, c, count) ==
    /\ db[c] # NoRow /\ (count > 0 <=> c \in Counting)
    /\ Begin(p) /\ Lockable(p, h) /\ Consumable(p, h, "login", NoUser)
    /\ ConsumeChallenge(p, h)
    /\ Enter(p, [Idle EXCEPT !.step = "login", !.event = "login_finish", !.cred = c,
                             !.challenge = h, !.count = count])
    /\ UNCHANGED <<db, audit, tokens, delivered>>

\* Mutant: an equal or smaller counter is accepted.
AnySignCount(p) == Exists(p, C(p))

\* validateAuthenticatorSignCount
SignCountFits(p) ==
    /\ Exists(p, C(p))
    /\ \/ call[p].count = 0
       \/ Seen(p, C(p)).count = 0
       \/ call[p].count > Seen(p, C(p)).count

\* The passkey names the user; the token will carry the readiness read here.
LoginLoad(p) ==
    /\ At(p, "login")
    /\ IF SignCountFits(p)
       THEN LET u == Seen(p, C(p)).user IN
            /\ call' = [call EXCEPT ![p].step = "loginLoaded", ![p].user = u,
                                    ![p].ready = Seen(p, u).ready]
            /\ UNCHANGED <<store, tokens, delivered>>
       ELSE Abort(p)

LoginWrite(p) ==
    /\ At(p, "loginLoaded") /\ Lockable(p, C(p))
    /\ IF Exists(p, C(p))
       THEN Login(p, C(p), call[p].count) /\ Write(p, "written")
       ELSE Abort(p)

-----------------------------------------------------------------------------
(* RouteV2AuthFinalizeSignup: finalizeSetup *)

\* Any session will do.  The account must have exactly one passkey.
FinalizeCheck(p, t) ==
    /\ t \in tokens /\ Begin(p)
    /\ Cardinality(CredsOf(p, t.user)) = 1
    /\ Enter(p, [Idle EXCEPT !.step = "finalize", !.event = "finalize_signup", !.user = t.user,
                             !.ready = TRUE])
    /\ UNCHANGED <<db, dirty, audit, tokens, delivered>>

FinalizeWriteUser(p) ==
    /\ At(p, "finalize") /\ Lockable(p, U(p))
    /\ IF Finalizable(p, U(p))
       THEN FinalizeUser(p, U(p)) /\ Write(p, "finalizeUser")
       ELSE Abort(p)

FinalizeWriteCreds(p) ==
    /\ At(p, "finalizeUser")
    /\ \A c \in CredsOf(p, U(p)) : Lockable(p, c)
    /\ FinalizeCreds(p, U(p)) /\ Write(p, "written")

-----------------------------------------------------------------------------
(* The answer, once the transaction has committed *)

\* newAuthSessionToken and setSessionCookie
IssueToken(p) == tokens' = tokens \union {[user |-> U(p), ready |-> call[p].ready]}

RegisterAnswer(p) ==
    /\ At(p, "committed") /\ call[p].event = "register_finish"
    /\ IssueToken(p) /\ Done(p)
    /\ UNCHANGED <<store, delivered>>

FinalizeAnswer(p) ==
    /\ At(p, "committed") /\ call[p].event = "finalize_signup"
    /\ IssueToken(p) /\ Done(p)
    /\ UNCHANGED <<store, delivered>>

\* The wrapped key of a passkey is delivered a few times per window only; a
\* sign-in above the limit is committed and then answered with 429.
DeliversKey(p) == db[C(p)] # NoRow /\ db[C(p)].wrappedFor > 0

LoginAnswer(p) ==
    /\ At(p, "committed") /\ call[p].event = "login_finish"
    /\ IF DeliversKey(p) /\ delivered[U(p)] = DeliveryLimit
       THEN UNCHANGED <<tokens, delivered>>
       ELSE /\ IssueToken(p)
            /\ delivered' = IF DeliversKey(p) THEN [delivered EXCEPT ![U(p)] = @ + 1]
                                              ELSE delivered
    /\ Done(p)
    /\ UNCHANGED store

\* The ten-minute window of the limiter passes.
NewWindow(u) ==
    /\ delivered[u] > 0 /\ delivered' = [delivered EXCEPT ![u] = 0]
    /\ UNCHANGED <<store, tokens, call>>

-----------------------------------------------------------------------------
(* Settings, behind MiddlewareSession(true) *)

ReadySession(t) == t \in tokens /\ t.ready

Change(p, t, event) ==
    /\ ReadySession(t) /\ Begin(p) /\ Lockable(p, t.user) /\ Settled(p, t.user)
    /\ Enter(p, [Idle EXCEPT !.step = "written", !.event = event, !.user = t.user])
    /\ UNCHANGED <<db, audit, tokens, delivered>>

ChangeRequestKey(p, t) ==
    /\ Change(p, t, "request_key_regenerate")
    /\ db[t.user].requestKey < MaxKey
    /\ RegenerateRequestKey(p, t.user)

ChangeAllowedIPs(p, t) == Change(p, t, "allowed_ips_change") /\ UpdateAllowedIPs(p, t.user)

ChangeDisplayName(p, t) == Change(p, t, "display_name_change") /\ UpdateDisplayName(p, t.user)

(* MiddlewareRequestKey: a CLI call presents the key number k of u *)

\* Mutant: the account's readiness is not looked at.
KeyOpensEarly(u, k) == db[u] # NoRow /\ db[u].requestKey = k

KeyOpens(u, k) == db[u] # NoRow /\ db[u].requestKey = k /\ db[u].ready

Authorize(p, u, k) ==
    /\ KeyOpens(u, k)
    /\ Enter(p, [Idle EXCEPT !.step = "authorized", !.user = u, !.count = k])
    /\ UNCHANGED <<store, tokens, delivered>>

Authorized(p) == At(p, "authorized") /\ Done(p) /\ UNCHANGED <<store, tokens, delivered>>

-----------------------------------------------------------------------------
(* Cleanup statements; when they run is the subject of module Cleanup *)

GiveUpUser(u) == DeleteNonreadyUser(u) /\ UNCHANGED <<tokens, call, delivered>>
DropChallenge(h) == DeleteChallenges({h}) /\ UNCHANGED <<tokens, call, delivered>>
LapseChallenge(h) == Lapse(h) /\ UNCHANGED <<tokens, call, delivered>>

Fail(p) == ~ At(p, "idle") /\ Abort(p)

Start(p) ==
    \/ \E h \in Challenges :
         \/ LoginBegin(p, h)
         \/ \E u \in Users : RegisterBegin(p, h, u)
         \/ \E c \in Creds : \/ RegisterConsume(p, h, c)
                             \/ \E n \in 0 .. MaxCount : LoginConsume(p, h, c, n)
    \/ \E t \in tokens : \/ FinalizeCheck(p, t)
                         \/ ChangeRequestKey(p, t)
                         \/ ChangeAllowedIPs(p, t)
                         \/ ChangeDisplayName(p, t)
    \/ \E u \in Users, k \in 1 .. MaxKey : Authorize(p, u, k)

Step(p) ==
    \/ RegisterInsert(p) \/ LoginLoad(p) \/ LoginWrite(p)
    \/ FinalizeWriteUser(p) \/ FinalizeWriteCreds(p)
    \/ Commit(p) \/ RegisterAnswer(p) \/ LoginAnswer(p) \/ FinalizeAnswer(p)
    \/ Authorized(p)

Next ==
    \/ \E p \in Procs : Start(p) \/ Step(p) \/ Fail(p)
    \/ \E u \in Users : GiveUpUser(u) \/ NewWindow(u)
    \/ \E h \in Challenges : DropChallenge(h) \/ LapseChallenge(h)

Spec == Init /\ [][Next]_vars

-----------------------------------------------------------------------------
(* Properties *)

\* Whoever got past a readiness check acts for a ready account, however long
\* ago the check was: the session token freezes the answer (session_jwt.go)
\* and the request key is looked up outside the handler's transaction.
ReadyForGood ==
    /\ \A t \in tokens : t.ready => db[t.user] # NoRow /\ db[t.user].ready
    /\ \A p \in Procs : At(p, "authorized") => db[U(p)] # NoRow /\ db[U(p)].ready

\* The keys of a ready account and those of its passkey come from the same
\* finalize call (FinalizeSignup runs two statements).
KeysAgree ==
    \A c \in Creds : db[c] # NoRow =>
        /\ db[c].keys = db[db[c].user].keys
        /\ db[db[c].user].ready <=> db[c].wrappedFor > 0

\* The stored signature counter of a passkey never falls; over Postgres two
\* sign-ins that compared with the same counter may both write theirs.
SignCountGrows ==
    [][SQLite => \A c \in Creds : db[c] # NoRow /\ db'[c] # NoRow => db'[c].count >= db[c].count]_vars

\* A finish call commits on a challenge that nobody else has used meanwhile,
\* although several calls may present it together (ConsumeChallenge).
Finishes(p) == At(p, "written") /\ call[p].challenge # NoChallenge /\ call'[p].step = "committed"
ChallengeUsedOnce ==
    [][\A p \in Procs : Finishes(p) =>
         LET h == call[p].challenge IN db[h] # NoRow /\ ~ db[h].used /\ db'[h].used]_vars

\* Accounts keep the promise of AccountPromise.
Promise == INSTANCE AccountPromise WITH
    Keys <- Procs,
    stage <- [u \in Users |-> IF db[u] = NoRow THEN "none"
                              ELSE IF db[u].ready THEN "ready" ELSE "registered"],
    keys <- [u \in Users |-> IF db[u] = NoRow THEN NoKeys ELSE db[u].keys],
    granted <- {t.user : t \in {s \in tokens : s.ready}}
AccountKept == Promise!PromiseSpec
=============================================================================
