------------------------------ MODULE Passkeys ------------------------------
(***************************************************************************)
(* The handlers of internal/server/routes-auth.go that change a ready      *)
(* account's passkeys: add (begin and finish), rename, delete, and the     *)
(* update of the wrapped primary key that a password change makes.  Each   *)
(* handler runs its statements one at a time in a transaction, and a call  *)
(* may fail between any two of them.                                       *)
(*                                                                         *)
(* A caller is a browser tab: it keeps the epoch the sign-in response told *)
(* it and the password that opened its passkey, and uses both to wrap and  *)
(* to attest a new passkey (client/web/src/components/App.svelte).  A      *)
(* password is named by the epoch it was set in.                           *)
(***************************************************************************)
EXTENDS AuthStore

CONSTANTS SessionUser,    \* the user each tab is signed in as
          Registered,     \* the passkeys the users start with
          AdvanceChoices, \* values of advanceEpoch that callers send
          MaxEpoch,       \* bound: password changes
          NoCred, NoChallenge

ASSUME SessionUserAssumption == SessionUser \in [Procs -> Users]

VARIABLES tab,  \* what each browser tab holds
          call  \* the handler call each tab is making

vars == <<store, tab, call>>

Tab == [cred: Creds \union {NoCred}, epoch: Nat, password: Nat]
Steps == {"idle", "consumed", "loaded", "checked", "advanced", "written"}
Call == [step: Steps, cred: Creds \union {NoCred}, challenge: Challenges \union {NoChallenge},
         advance: BOOLEAN, password: Nat]

TypeOK ==
    /\ StoreTypeOK
    /\ tab \in [Procs -> Tab]
    /\ call \in [Procs -> Call]
    /\ \A p \in Procs : call[p].step = "idle" => \A x \in Rows : dirty[x].tx # p

Idle == [step |-> "idle", cred |-> NoCred, challenge |-> NoChallenge,
         advance |-> FALSE, password |-> 0]

\* Users whose sign-up is finalized, each with the passkeys Registered gives it.
Init ==
    /\ db = [x \in Rows |->
               IF x \in Users THEN [ready |-> TRUE, epoch |-> 1, keys |-> NoKeys, requestKey |-> 1]
               ELSE IF \E u \in Users : x \in Registered[u]
               THEN [user |-> CHOOSE u \in Users : x \in Registered[u], epoch |-> 1,
                     attested |-> 1, wrappedFor |-> 1, keys |-> NoKeys, count |-> 0]
               ELSE NoRow]
    /\ dirty = [x \in Rows |-> Clean]
    /\ WriterInit
    /\ audit = {}
    /\ tab = [p \in Procs |-> [cred |-> NoCred, epoch |-> 0, password |-> 0]]
    /\ call = [p \in Procs |-> Idle]

U(p) == SessionUser[p]
C(p) == call[p].cred
At(p, step) == call[p].step = step
Goto(p, step) == call' = [call EXCEPT ![p].step = step]
Free(p) == At(p, "idle") /\ tab[p].cred # NoCred

\* The first statement of a handler was executed.
Enter(p, step, c, h, advance) ==
    call' = [call EXCEPT ![p] = [step |-> step, cred |-> c, challenge |-> h, advance |-> advance,
                                 password |-> tab[p].password]]

\* The call is answered with an error, or fails: nothing of it is kept.
Abort(p) ==
    /\ Rollback(p)
    /\ call' = [call EXCEPT ![p] = Idle]
    /\ UNCHANGED tab

\* The audit row names what the call did; a begin call writes none.
Notes(p) ==
    IF call[p].challenge # NoChallenge
    THEN IF C(p) = NoCred THEN {} ELSE {<<"credential_add", C(p), call[p].challenge>>}
    ELSE IF ~ Exists(p, C(p)) THEN {<<"credential_delete", C(p)>>}
    ELSE IF call[p].advance THEN {<<"wrapped_key_update", U(p), Seen(p, U(p)).epoch>>}
    ELSE {<<"credential_touch", C(p)>>}

\* The last statement of every handler and its commit.  A tab that changed
\* the password keeps the new one, and the epoch it was told at sign-in.
Commit(p) ==
    /\ At(p, "written")
    /\ CommitWith(p, Notes(p))
    /\ tab' = [tab EXCEPT ![p].password = call[p].password]
    /\ call' = [call EXCEPT ![p] = Idle]

Stale(c) == db[c].epoch < db[db[c].user].epoch

\* loginFinish: the tab learns the user's epoch, and the password that opens
\* this passkey is the one the user typed.
SignIn(p, c) ==
    /\ At(p, "idle") /\ db[c] # NoRow /\ db[c].user = U(p)
    /\ tab' = [tab EXCEPT ![p] = [cred |-> c, epoch |-> db[U(p)].epoch,
                                  password |-> db[c].wrappedFor]]
    /\ call' = [call EXCEPT ![p] = Idle]
    /\ UNCHANGED store

-----------------------------------------------------------------------------
(* RouteV2AuthAddCredentialBegin and RouteV2AuthAddCredentialFinish *)

AddBegin(p, h) ==
    /\ Free(p) /\ Begin(p) /\ Settled(p, U(p))
    /\ BeginChallenge(p, h, "add-credential", U(p))
    /\ Enter(p, "written", NoCred, h, FALSE)
    /\ UNCHANGED <<db, audit, tab>>

\* The passkey is one not registered before: credential ids are fresh.
AddConsume(p, h, c) ==
    /\ Free(p) /\ Begin(p)
    /\ \A u \in Users : c \notin Registered[u]
    /\ \A k \in Challenges : <<"credential_add", c, k>> \notin audit
    /\ Lockable(p, h) /\ Consumable(p, h, "add-credential", U(p))
    /\ ConsumeChallenge(p, h)
    /\ Enter(p, "consumed", c, h, FALSE)
    /\ UNCHANGED <<db, audit, tab>>

AttestationFits(p) == tab[p].epoch = Seen(p, U(p)).epoch

AddLoad(p) ==
    /\ At(p, "consumed")
    /\ IF Settled(p, U(p)) /\ ~ Exists(p, C(p)) /\ AttestationFits(p)
       THEN Goto(p, "loaded") /\ UNCHANGED <<store, tab>>
       ELSE Abort(p)

AddInsert(p) ==
    /\ At(p, "loaded") /\ Lockable(p, C(p))
    /\ IF Exists(p, C(p))
       THEN Abort(p)
       ELSE /\ AddCredential(p, U(p), C(p), tab[p].epoch, tab[p].password)
            /\ Goto(p, "written")
            /\ UNCHANGED <<db, writer, audit, tab>>

-----------------------------------------------------------------------------
(* RouteV2AuthUpdateWrappedKey *)

ChangeCheck(p, advance) ==
    /\ Free(p) /\ Begin(p)
    /\ advance => db[U(p)].epoch < MaxEpoch
    /\ ~ HasPendingChallenge(p, U(p), "add-credential")
    /\ Enter(p, "checked", tab[p].cred, NoChallenge, advance)
    /\ UNCHANGED <<db, dirty, audit, tab>>

ChangeAdvance(p) ==
    /\ At(p, "checked") /\ call[p].advance /\ Lockable(p, U(p))
    /\ IF Settled(p, U(p))
       THEN /\ AdvanceWrappedKeyEpoch(p, U(p)) /\ Goto(p, "advanced")
            /\ UNCHANGED <<db, writer, audit, tab>>
       ELSE Abort(p)

\* Changing the password wraps under a new one; a refresh, under the tab's.
ChangeWrite(p) ==
    /\ At(p, IF call[p].advance THEN "advanced" ELSE "checked") /\ Lockable(p, C(p))
    /\ IF C(p) \in CredsOf(p, U(p))
       THEN LET password == IF call[p].advance THEN Seen(p, U(p)).epoch ELSE tab[p].password IN
            /\ UpdateCredentialWrappedKey(p, C(p), password)
            /\ call' = [call EXCEPT ![p].step = "written", ![p].password = password]
            /\ UNCHANGED <<db, writer, audit, tab>>
       ELSE Abort(p)

-----------------------------------------------------------------------------
(* RouteV2AuthDeleteCredential and RouteV2AuthRenameCredential *)

Delete(p, c) ==
    /\ Free(p) /\ Begin(p)
    /\ c \in CredsOf(p, U(p)) /\ ~ IsLast(p, U(p))
    /\ DeleteCredential(p, U(p), c)
    /\ Enter(p, "written", c, NoChallenge, FALSE)
    /\ UNCHANGED <<db, audit, tab>>

Rename(p, c) ==
    /\ Free(p) /\ Begin(p)
    /\ Lockable(p, c) /\ RenameCredential(p, U(p), c)
    /\ Enter(p, "written", c, NoChallenge, FALSE)
    /\ UNCHANGED <<db, audit, tab>>

-----------------------------------------------------------------------------
\* A statement fails, the call times out or its connection is lost.
Fail(p) == ~ At(p, "idle") /\ Abort(p)

Step(p) ==
    \/ AddLoad(p) \/ AddInsert(p)
    \/ ChangeAdvance(p) \/ ChangeWrite(p)
    \/ Commit(p)

Start(p) ==
    \/ \E c \in Creds : SignIn(p, c) \/ Delete(p, c) \/ Rename(p, c)
    \/ \E h \in Challenges : AddBegin(p, h) \/ \E c \in Creds : AddConsume(p, h, c)
    \/ \E advance \in AdvanceChoices : ChangeCheck(p, advance)

LapseChallenge(h) == Lapse(h) /\ UNCHANGED <<tab, call>>

Next ==
    \/ \E p \in Procs : Start(p) \/ Step(p) \/ Fail(p)
    \/ \E h \in Challenges : LapseChallenge(h)

Spec == Init /\ [][Next]_vars

\* A handler keeps running, and the database queues those who wait for a row.
FairSpec == Spec /\ \A p \in Procs : SF_vars(Step(p))

-----------------------------------------------------------------------------
(* Properties *)

\* A passkey that is not reported as stale opens with the current password,
\* unless the browser attested an epoch whose password it did not use: a tab
\* signed in with a stale passkey does that.  A password change refuses to
\* run beside the addition of a passkey for this (updateWrappedKey).
FreshOpensWithCurrent ==
    \A c \in Creds : db[c] # NoRow /\ ~ Stale(c) =>
        db[c].wrappedFor = db[db[c].user].epoch \/ db[c].wrappedFor < db[c].attested


\* The audit log and the tables tell the same story: every password change
\* and every passkey added or deleted has its row, and no row tells of one
\* that was rolled back (auditEventTx).
AuditTellsAll ==
    /\ \A u \in Users :
         \A e \in 2 .. db[u].epoch + 1 :
            <<"wrapped_key_update", u, e>> \in audit <=> e <= db[u].epoch
    /\ \A c \in Creds :
         db[c] # NoRow <=> /\ \/ \E u \in Users : c \in Registered[u]
                              \/ \E h \in Challenges : <<"credential_add", c, h>> \in audit
                           /\ <<"credential_delete", c>> \notin audit

\* No two handlers wait for each other's rows: every call ends.
CallsEnd == \A p \in Procs : ~ At(p, "idle") ~> At(p, "idle")

\* The handlers keep the promise of KeyRing.
NoLabel == 0
Ring == INSTANCE KeyRing WITH
            epoch <- [u \in Users |-> db[u].epoch],
            label <- [u \in Users |-> [c \in Creds |->
                        IF db[c] # NoRow /\ db[c].user = u THEN db[c].epoch ELSE NoLabel]]
RingKept == Ring!RingSpec
=============================================================================
