---------------------------- MODULE RequestStore ----------------------------
(***************************************************************************)
(* The v2_requests table and the SQL statements of internal/db/requests.go.*)
(* Each operator is one statement: a guard over the row (its WHERE clause) *)
(* and the next value of the table.  A statement is atomic in both SQLite  *)
(* and Postgres.  Times are unix seconds, as in the integer columns.       *)
(*                                                                         *)
(* A request identifier is a fresh UUID, so it is created at most once;    *)
(* "none" is an identifier not used yet and "gone" one whose row has been  *)
(* deleted.                                                                *)
(***************************************************************************)
EXTENDS Naturals

CONSTANTS Requests,    \* request identifiers (column state)
          Users,       \* accounts
          Sessions,    \* browser sessions that can answer a request
          Owner,       \* the user a request is created for (column user_id)
          SessionUser, \* the user a browser session is signed in as
          Retention,   \* 10 minutes: how long a terminal row is kept
          NoResult     \* no response envelope stored

ASSUME OwnerAssumption == Owner \in [Requests -> Users]
ASSUME SessionUserAssumption == SessionUser \in [Sessions -> Users]
ASSUME RetentionAssumption == Retention \in Nat
ASSUME NoResultAssumption == NoResult \notin Sessions

VARIABLES row,  \* the table: status, expires_at and encrypted_result
          now   \* the server's clock

Terminal == {"completed", "canceled", "expired"}
Status == {"none", "pending", "gone"} \union Terminal

\* A response envelope is named by the session that produced it.
Row == [status: Status, expires: Nat, result: Sessions \union {NoResult}]

StoreTypeOK == row \in [Requests -> Row] /\ now \in Nat

StoreInit ==
    /\ row = [r \in Requests |-> [status |-> "none", expires |-> 0, result |-> NoResult]]
    /\ now = 0

Exists(r) == row[r].status \notin {"none", "gone"}
PastDeadline(r) == row[r].expires < now

SetStatus(r, s) == row' = [row EXCEPT ![r].status = s]
-----------------------------------------------------------------------------
CreateRequest(r, timeout) ==
    /\ row[r].status = "none"
    /\ row' = [row EXCEPT ![r] = [status |-> "pending", expires |-> now + timeout,
                                  result |-> NoResult]]

\* The requests of S that a statement bound to the time t expires.
Expirable(S, t) == {r \in S : row[r].status = "pending" /\ row[r].expires < t}
Expire(S, t) == row' = [r \in Requests |->
                          IF r \in Expirable(S, t) THEN [row[r] EXCEPT !.status = "expired"]
                                                   ELSE row[r]]

MarkExpired(r) == Expire({r}, now)
ExpirePending(t) == Expire(Requests, t)

\* GetRequest expires a stale row on the way.  Its Before(time.Now()) test has
\* sub-second precision and MarkExpired whole seconds: when they disagree, or
\* another writer got in between, the row is read again, so the whole call
\* behaves as MarkExpired followed by a read.
GetRequest(r) == MarkExpired(r)

\* Mutants: the test on user_id or the one on expires_at is missing.
CompletableByAnyone(r, s) == row[r].status = "pending" /\ row[r].expires >= now
CompletableLate(r, s) == row[r].status = "pending" /\ Owner[r] = SessionUser[s]

CompletableBy(r, s) ==
    /\ row[r].status = "pending"
    /\ Owner[r] = SessionUser[s]
    /\ row[r].expires >= now
CompleteRequest(r, s) ==
    /\ CompletableBy(r, s)
    /\ row' = [row EXCEPT ![r] = [status |-> "completed", expires |-> @.expires, result |-> s]]

\* Mutant: a request that has its verdict can still be canceled.
CancelableAlways(r, s) == Exists(r) /\ Owner[r] = SessionUser[s]

\* CancelRequest has no test on expires_at.
CancelableBy(r, s) == row[r].status = "pending" /\ Owner[r] = SessionUser[s]
CancelRequest(r, s) == CancelableBy(r, s) /\ SetStatus(r, "canceled")

\* DELETE ... RETURNING hands the row to exactly one caller.
Takeable(r) == Exists(r) /\ (row[r].status # "pending" \/ PastDeadline(r))
GetAndDeleteTerminalRequest(r) == Takeable(r) /\ SetStatus(r, "gone")

\* Mutant: terminal rows are deleted whatever their age.
DeletableAtAnyAge(r, cutoff) == row[r].status \in Terminal

DeletableBefore(r, cutoff) == row[r].status \in Terminal /\ row[r].expires < cutoff

\* The terminal rows of S that expired before cutoff are deleted.
DeleteBefore(S, cutoff) ==
    row' = [r \in Requests |->
              IF r \in S /\ DeletableBefore(r, cutoff) THEN [row[r] EXCEPT !.status = "gone"]
                                                       ELSE row[r]]
\* The cutoff "t minus ten minutes"; the clock of the model starts at 0.
Minus10Minutes(t) == IF t >= Retention THEN t - Retention ELSE 0
DeleteTerminalRequest(r, ttl) == DeleteBefore({r}, Minus10Minutes(ttl))
CleanupOldRecords(t) == DeleteBefore(Requests, Minus10Minutes(t))
=============================================================================
