----------------------------- MODULE AuthStore -----------------------------
(***************************************************************************)
(* The tables v2_users, v2_user_credentials and v2_auth_challenges, the    *)
(* statements of internal/db/auth.go over them, and the transactions they  *)
(* run in (ExecuteInTransaction in internal/db/db.go).                     *)
(*                                                                         *)
(* A row is named by its primary key.  db is the committed table, dirty    *)
(* what open transactions have written and locked: a row is written by one *)
(* transaction at a time and everyone else reads the committed row.  In    *)
(* Postgres the statements of two transactions interleave, each one seeing *)
(* what is committed when it runs.  In SQLite (txlock=immediate) an open   *)
(* transaction excludes every other writer.                                *)
(***************************************************************************)
EXTENDS Naturals, FiniteSets

CONSTANTS Users, Creds, Challenges, \* primary keys: each is used for one row at most
          Procs,                    \* handler calls in flight
          Backends,                 \* the databases considered
          NoRow, NoUser, NoProc, NoKeys,
          Shared                    \* stands for the lock Postgres does not have

ASSUME BackendsAssumption == Backends \subseteq {"sqlite", "postgres"}

VARIABLES db,     \* the committed rows
          dirty,  \* the rows written by open transactions
          writer, \* who holds SQLite's write lock; Shared over Postgres
          audit   \* the committed audit rows, as <<event, subject>>

store == <<db, dirty, writer, audit>>

Rows == Users \union Creds \union Challenges
Kinds == {"register", "login", "add-credential"}

UserRow == [ready: BOOLEAN, epoch: Nat, keys: Procs \union {NoKeys}, requestKey: Nat]
CredRow == [user: Users, epoch: Nat, attested: Nat, wrappedFor: Nat,
            keys: Procs \union {NoKeys}, count: Nat]
ChallengeRow == [kind: Kinds, user: Users \union {NoUser}, used: BOOLEAN, lapsed: BOOLEAN]
AnyRow == UserRow \union CredRow \union ChallengeRow \union {NoRow}

StoreTypeOK ==
    /\ \A u \in Users : db[u] = NoRow \/ db[u] \in UserRow
    /\ \A c \in Creds : db[c] = NoRow \/ db[c] \in CredRow
    /\ \A h \in Challenges : db[h] = NoRow \/ db[h] \in ChallengeRow
    /\ \A x \in Rows : dirty[x].tx \in Procs \union {NoProc}
    /\ writer \in Procs \union {NoProc, Shared}

Clean == [tx |-> NoProc, row |-> NoRow]
WriterInit == \E b \in Backends : writer = IF b = "sqlite" THEN NoProc ELSE Shared
SQLite == writer # Shared
Unlocked == writer \in {NoProc, Shared}

-----------------------------------------------------------------------------
(* Transactions *)

\* What the transaction of p reads in row x.
Seen(p, x) == IF dirty[x].tx = p THEN dirty[x].row ELSE db[x]
Exists(p, x) == Seen(p, x) # NoRow

\* A write waits for the transaction that holds the row.
Lockable(p, x) == dirty[x].tx \in {p, NoProc}

Put(p, x, r) == dirty' = [dirty EXCEPT ![x] = [tx |-> p, row |-> r]]


Begin(p) ==
    /\ Unlocked
    /\ writer' = IF SQLite THEN p ELSE Shared

\* Mutant: the transaction ends with its rows still locked.
EndLocked(p) == UNCHANGED dirty /\ writer' = IF writer = p THEN NoProc ELSE writer

End(p) ==
    /\ dirty' = [x \in Rows |-> IF dirty[x].tx = p THEN Clean ELSE dirty[x]]
    /\ writer' = IF writer = p THEN NoProc ELSE writer

\* Mutant: the audit row is written outside the transaction and may fail alone.
CommitWithout(p, notes) ==
    /\ db' = [x \in Rows |-> Seen(p, x)]
    /\ audit' \in {audit, audit \union notes}
    /\ End(p)

\* Mutant: the audit row is written on another connection and waits for the lock.
CommitBeside(p, notes) ==
    /\ Unlocked
    /\ db' = [x \in Rows |-> Seen(p, x)]
    /\ audit' = audit \union notes
    /\ End(p)

\* auditEventTx: the audit row is the last write before the commit.
CommitWith(p, notes) ==
    /\ db' = [x \in Rows |-> Seen(p, x)]
    /\ audit' = audit \union notes
    /\ End(p)

Rollback(p) == End(p) /\ UNCHANGED <<db, audit>>

\* A statement outside any transaction.
Autocommit(S, table) ==
    /\ Unlocked
    /\ \A x \in S : dirty[x].tx = NoProc
    /\ db' = table
    /\ UNCHANGED <<dirty, writer, audit>>

-----------------------------------------------------------------------------
(* Challenges *)

\* BeginChallenge: the id is a fresh UUID.
BeginChallenge(p, h, kind, u) ==
    /\ db[h] = NoRow /\ dirty[h].tx = NoProc
    /\ Put(p, h, [kind |-> kind, user |-> u, used |-> FALSE, lapsed |-> FALSE])

\* Mutant: the statement does not test used_at.
ConsumableAgain(p, h, kind, u) ==
    /\ Exists(p, h)
    /\ LET row == Seen(p, h) IN /\ row.kind = kind
                                /\ ~ row.lapsed
                                /\ u \in {NoUser, row.user}

\* The WHERE clause of ConsumeChallenge; NoUser stands for the empty user id.
Consumable(p, h, kind, u) ==
    /\ Exists(p, h)
    /\ LET row == Seen(p, h) IN /\ row.kind = kind
                                /\ ~ row.used
                                /\ ~ row.lapsed
                                /\ u \in {NoUser, row.user}

ConsumeChallenge(p, h) == Put(p, h, [Seen(p, h) EXCEPT !.used = TRUE])

HasPendingChallenge(p, u, kind) ==
    \E h \in Challenges : Consumable(p, h, kind, u) /\ Seen(p, h).user = u

\* The time of a challenge passes.
Lapse(h) ==
    /\ db[h] # NoRow /\ ~ db[h].lapsed
    /\ db' = [db EXCEPT ![h].lapsed = TRUE]
    /\ dirty' = IF dirty[h].row = NoRow THEN dirty ELSE [dirty EXCEPT ![h].row.lapsed = TRUE]
    /\ UNCHANGED <<writer, audit>>

-----------------------------------------------------------------------------
(* Users *)

\* Mutant: the account may be finalized again.
FinalizableAgain(p, u) == Exists(p, u)

Finalizable(p, u) == Exists(p, u) /\ ~ Seen(p, u).ready
Settled(p, u) == Exists(p, u) /\ Seen(p, u).ready

CredsOf(p, u) == {c \in Creds : Exists(p, c) /\ Seen(p, c).user = u}

\* RegisterUser inserts the user and its first credential.
RegisterUser(p, u, c, count) ==
    dirty' = [dirty EXCEPT
                ![u] = [tx |-> p, row |-> [ready |-> FALSE, epoch |-> 1, keys |-> NoKeys,
                                           requestKey |-> 1]],
                ![c] = [tx |-> p, row |-> [user |-> u, epoch |-> 1, attested |-> 0,
                                           wrappedFor |-> 0, keys |-> NoKeys, count |-> count]]]

FinalizeUser(p, u) == Put(p, u, [Seen(p, u) EXCEPT !.ready = TRUE, !.keys = p])

\* Mutant: the passkey's columns are not written.
FinalizeNoCreds(p, u) == UNCHANGED dirty

\* The second statement of FinalizeSignup updates every credential of the user.
FinalizeCreds(p, u) ==
    dirty' = [x \in Rows |->
                IF x \in CredsOf(p, u)
                THEN [tx |-> p, row |-> [Seen(p, x) EXCEPT !.epoch = 1, !.attested = 1,
                                                           !.wrappedFor = 1, !.keys = p]]
                ELSE dirty[x]]

\* RegenerateRequestKey
RegenerateRequestKey(p, u) == Put(p, u, [Seen(p, u) EXCEPT !.requestKey = @ + 1])

\* These lock the row; no statement modelled here reads the columns they write.
Touch(p, x) == Put(p, x, Seen(p, x))
UpdateAllowedIPs(p, u) == Settled(p, u) /\ Touch(p, u)
UpdateDisplayName(p, u) == Settled(p, u) /\ Touch(p, u)
RenameCredential(p, u, c) == c \in CredsOf(p, u) /\ Touch(p, c)

AdvanceWrappedKeyEpoch(p, u) == Put(p, u, [Seen(p, u) EXCEPT !.epoch = @ + 1])

\* Mutant: the user's passkeys stay.
CascadeToNothing(u) == {u}

\* The rows that go with a user (ON DELETE CASCADE).
Cascade(u) == {u} \union {c \in Creds : db[c] # NoRow /\ db[c].user = u}
Without(S) == [x \in Rows |-> IF x \in S THEN NoRow ELSE db[x]]

Abandoned(u) == db[u] # NoRow /\ ~ db[u].ready

DeleteNonreadyUser(u) == Abandoned(u) /\ Autocommit(Cascade(u), Without(Cascade(u)))

\* CleanupExpired and DeleteExpiredAuthChallenge
Disposable(h) == db[h] # NoRow /\ (db[h].used \/ db[h].lapsed)
DeleteChallenges(S) == S # {} /\ (\A h \in S : Disposable(h)) /\ Autocommit(S, Without(S))

-----------------------------------------------------------------------------
(* Credentials *)

Login(p, c, count) == Put(p, c, [Seen(p, c) EXCEPT !.count = count])

NewCred(p, u, epoch, attested, wrapFor) ==
    [user |-> u, epoch |-> epoch, attested |-> attested, wrappedFor |-> wrapFor,
     keys |-> Seen(p, u).keys, count |-> 0]

\* AddCredential and UpdateCredentialWrappedKey read the user's epoch again,
\* in the statement that writes the credential.
AddCredential(p, u, c, attested, wrapFor) ==
    Put(p, c, NewCred(p, u, Seen(p, u).epoch, attested, wrapFor))


UpdateCredentialWrappedKey(p, c, wrapFor) ==
    Put(p, c, [Seen(p, c) EXCEPT !.epoch = Seen(p, Seen(p, c).user).epoch,
                                 !.wrappedFor = wrapFor])

\* Mutant: only the target is locked.
DeleteLocksTarget(p, u, c) == CredsOf(p, u) \intersect {c}

\* deleteCredentialPostgres locks every credential of the user (FOR UPDATE)
\* and counts what is left; under SQLite no other writer is there.
DeleteLocks(p, u, c) == CredsOf(p, u)

DeleteCredential(p, u, c) ==
    LET locked == DeleteLocks(p, u, c) IN
    /\ \A x \in locked : Lockable(p, x)
    /\ dirty' = [x \in Rows |->
                   IF x = c THEN [tx |-> p, row |-> NoRow]
                   ELSE IF x \in locked THEN [tx |-> p, row |-> Seen(p, x)]
                   ELSE dirty[x]]

IsLast(p, u) == Cardinality(CredsOf(p, u)) <= 1
=============================================================================
