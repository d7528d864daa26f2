# Revaulter in TLA+

Formal models of Revaulter: a server that holds requests to encrypt, decrypt or
sign until their owner approves them in a browser, and gives the result back to
the program that asked. The modules are translated from the Go code under
`src/`; every definition that models code is listed with its lines in
`PROJECT.json`, and so is every hazard, with the properties that watch it.

## 1. Inventory

| Component | State | Operations | What is hard | Module |
|---|---|---|---|---|
| Request store, `internal/db/requests.go` | rows of `v2_requests` | create, get, complete, cancel, expire, collect, clean up | each is one statement; the race is between statements | `RequestStore` |
| Long-poll subscriptions, `util-notifications.go` | `Server.subs`, one channel per request | subscribe (evicts), unsubscribe (deferred), notify | lost wakeups, a late unsubscribe against a newer subscriber | `Subscriptions` |
| Request handlers, queues, startup, `routes-request.go`, `routes-api.go`, `util-eventqueue.go`, `server.go` | positions of the handlers, due events | create, long poll, list, get, confirm, cancel, expire, delete, start | commit, dequeue, notify and publish are separate steps; the listener serves before the cleanup has run | `RequestFlow` |
| Broker and list stream, `utils/broker`, `routes-api.go` | subscribers' buffers, the `seen` map, a tab's items | subscribe, list, publish (drops), filter, reconnect | dropped, overtaken and unpublished messages | `ListStream` |
| Accounts, `db/auth.go`, `routes-auth.go`, `session_jwt.go` | users, challenges, tokens, key deliveries | register, sign in, finalize, settings, request key | single use of challenges, readiness frozen in a token | `AuthStore`, `Accounts` |
| Passkeys and wrapped key, same files, `App.svelte` | credentials, password epoch, what a tab remembers | add, rename, delete, change the password | check-then-act under READ COMMITTED | `AuthStore`, `Passkeys` |
| Garbage collection, `util-eventqueue.go`, `server.go` | the delete queue, in memory | collect challenges, accounts, audit rows | due times against cutoffs, events lost with the process | `Cleanup` |
| Audit log, `db/audit.go` | rows with time-ordered ids | insert, page, prune | rows that appear out of order between two pages | `AuditLog` |
| Signing keys, `db/signing_keys.go`, `routes-signing-keys.go`, `clientcore/signingkey.go` | one key per slot, its proof | auto-store, create, update, delete, verify | an automatic store against a publication; two writes of one update | `SigningKeys` |
| Client core, `clientcore/operations.go` | deadline, backoff | submit, poll | two deadlines, two defaults | `PollClient` |
| Trust store, `clientcore/truststore.go`, `anchor.go` | the file of pinned anchors | pin, check, save | one file, several processes, an operator who takes time | `TrustStore` |
| revaulter-edit, `cmd/edit` | file, temporary file | open, edit, save, retry, write | an editor that writes when it likes, a crash in a save | `FileEdit` |
| Backup and restore, `db/backup` | file, source, target | dump, restore, migrate | rows that move while they are dumped, an application beside a restore | `Backup` |
| SSH agent, `cmd/cli/cmd/ssh_agent_unix.go` | the key it lists, calls under way | list, sign | a key listed by one agent and used with another | `SshAgent` |
| Protocol, integrity, configuration, UI | | | | section 9 |

The components meet in a request. The CLI inserts a row and queues an expiry
event; a browser session commits a verdict, removes the event, wakes the long
poll through `Server.subs` and tells the list streams through the broker; the
queue, a reader or the startup expires the row; the long poll collects it. The
row is shared through the database, everything else through memory that a crash
loses. Accounts, passkeys and signing keys meet the requests only through who
may act (`SessionUser`, `PollUser`, `Owner`), and one another through the
tables of `AuthStore`. Backups, the trust store and edited files are outside the
server's memory.

## 2. Modules

| Module | What it is |
|---|---|
| `RequestStore`, `Subscriptions` | the table's statements and the map's operations, as operators |
| `RequestFlow` | the life of a request, built from these two |
| `RequestPromise` | what a user may rely on: one verdict by the owner or the clock, one answer; `RequestFlow` refines it |
| `ListStream` | one tab's stream over requests reduced to none, pending, done |
| `AuthStore` | users, passkeys, challenges, their statements and the transactions of SQLite and of Postgres |
| `Passkeys`, `KeyRing` | the handlers of a ready account's passkeys, and what they promise: a ring that is never empty and changes at single instants; the first refines the second |
| `Accounts`, `AccountPromise` | sign-up, sign-in and settings, and what they promise: an account is finalized once and then keeps its keys; the first refines the second |
| `Cleanup`, `AuditLog`, `SigningKeys` | the components of the same names |
| `PollClient`, `TrustStore`, `FileEdit`, `Backup`, `SshAgent` | the tools, each with what it needs of the server |
| `MCRequestFlow`, `MCPasskeys`, `MCAccounts` | instances for TLC |
| `MCServing`, `MCTools` | several components in one run, one of them active in each behaviour |
| `RequestFlowProof`, `RequestSafetyProof`, `RequestPromiseProof` | proofs about `RequestFlow` |
| `TrustStoreProof`, `FileEditProof`, `SigningKeysProof`, `SshAgentProof`, `PollClientProof` | proofs about the module each is named after |

**Steps.** An action is what a goroutine or process does between two points at
which another can interleave: an SQL statement of a transaction that may
interleave, else the whole transaction; a section under `Server.lock`; a call of
a queue or of the broker; a read or the rename of a file. Handlers that fail
leave the database as it was, so failures are one action that rolls back.

**`RequestFlow`.** `row` and `now` are the database and the clock in seconds.
`subs` and `chan` are the long-poll map and the channel of each call. `expiryQ`
and `deleteQ` hold the due time of a request's event (0 for none; the queue keeps
one event per key and a second one replaces it). `creator`, `sess`, `poll`,
`exec` and `boot` are the positions of the handlers and of the startup. `feed` is
the sequence of messages given to the broker, `audit` the request events of the
audit log, `told` the requests whose state a client has been given. `answers`,
`unannounced` and `crashes` are history. `Confirm`/`Cancel`, `DecideDequeue`,
`DecideNotify` and `DecidePublish` are the four steps of `RouteV2APIConfirm`; the
`Poll` actions are `RouteV2RequestResult`, from the ownership read to the
deferred unsubscribe. `GetRequest` compares with sub-second precision and expires
with whole seconds; it then reads again, so the call is one expire-and-read.

**`AuthStore`.** `db` holds the committed rows, `dirty` those an open
transaction has written and so locked. With `writer` the two databases differ:
over SQLite (`txlock=immediate`) a transaction excludes every other writer; over
Postgres only rows lock, and a statement reads what is committed when it runs. A
blocked write is an action that is not enabled. `audit` rows commit with what
they tell of.

**`Passkeys`.** `tab` is what a browser tab keeps from its sign-in: the passkey,
the epoch it was told, and the password, named by the epoch it was set in. `call`
is the handler call it makes. `AddBegin`, `AddConsume`, `AddLoad`, `AddInsert` are
the two add handlers, the `Change` actions `updateWrappedKey`.

**`Accounts`.** `tokens` are the sessions issued, which nothing revokes; `delivered`
the sign-ins counted against the limit of wrapped keys. An answer follows the
commit as a step of its own, so a call may commit and be lost.

**`ListStream`.** `unsent` are the messages that handlers have still to publish, in
any order, since each handler publishes in its own goroutine after its answer.
`phase`, `buffer` and `seen` are the stream's handler; `view` is the tab's map,
which outlives a stream. `missed` and `ghostly` say what cannot reach the tab, and
why.

**`Cleanup`.** `due` is the delete queue and `owed` what handlers that have committed
are about to do to it; both are lost when the process stops.

**`AuditLog`.** An id is drawn at the insertion and the row appears at the commit, so
rows appear behind a reader who goes from the newest to the oldest.

**`SigningKeys`.** Thumbprints are primary keys, a slot is an algorithm and a label.
An update is a read and a write; over SQLite `keyLock` keeps others out between.

**`PollClient`.** Time runs until something is due: an answer of a server that is not
stalled (`owed`), the expiry event (`QueueDelay`) or a timer of the client.
`trouble` records what went wrong outside the client.

**`TrustStore`.** An operation fetches and loads in the order of its command, asks
the operator and writes the whole file. `overlap` records that a file was replaced
under somebody who had read it.

**`FileEdit`.** `disk`, and for each invocation its session, its temporary file and
two histories, what the editor wrote last and what was saved last.

**`Backup`.** Two tables, one of which references the other; the code's order of
tables has this shape. The target's schema level is what a restore looks at.

**`SshAgent`.** `listed` is what each SSH client was shown last, by this agent or by
a former one at the same socket. A label's key bears the label's name.

## 3. Runs

| Run | Instance | What it shows |
|---|---|---|
| `requests` | 2 requests, 2 sessions, 2 long polls, 1 crash | no lost wakeup, one verdict told once, an approved result is kept, the promise holds |
| `restart` | 1 request; a session and a long poll of each of 2 users; 1 crash | nobody collects another user's result; a pending request keeps its event until its deadline |
| `live` | 1 request, 1 session, 2 long polls, fairness | long polls end and verdicts are announced, with the exceptions the properties name |
| `passkeys` | 2 tabs of one account, 3 passkeys, 1 password change, both databases, fairness | the ring's promise, the audit log agrees with the tables, calls end, SQLite's lock makes the epoch check safe |
| `accounts` | 2 accounts, 2 callers, both databases | readiness is for good, keys agree, challenges serve once, counters do not fall under SQLite's lock, the account's promise |
| `serving` | stream: 3 requests, 2 of them the user's, a buffer of 2; audit: 4 rows, pages of 2; keys: 2 slots, 2 keys; cleanup: 2 challenges, 1 sign-up | tabs miss nothing and keep nothing without a named reason, and catch up; pages repeat and skip nothing; accepted keys were proven and stay; nothing needed is collected and one prune runs |
| `tools` | poll: 5 timeouts; trust: 2 targets, 2 operations; edit: 2 invocations; backup: 2 accounts; agent: 2 labels, 2 clients | the properties of the five tools |
| `poll_hangs`, `pending_forever`, `passkeys_race`, `never_collected`, `clean_failure` | as their passing runs, or smaller | findings 1 to 5 |

**Bounds.** Time is scaled so that the order of the instants is the code's: in
`RequestFlow` a request lives one second, the event is due `QueueSlack` later (1
or 2 for the 5 seconds of the code) and a terminal row is kept for `Retention` (0
or 1 for ten minutes): deadline < first lazy expiry <= event <= deletion. In
`PollClient` the smallest numbers are used that satisfy the inequality of
`PollAssumption`, which the code's do (5 s + 2 s + latencies < 30 s); timeouts
lie below, at and above what the server understands and accepts. In `Cleanup`
`Slack < Grace` is what the properties depend on. `MaxTime` lies at the deletion's
due time or after it. `LastCreate` = 0 creates requests in the first second:
creation later only shifts the clock. One crash falls between any two steps. Two
sessions are enough for a race of verdicts, two long polls for an eviction, two
tabs or callers for every pair of transactions, three passkeys for a last one that
is not the first; the challenge of `passkeys` and `accounts` is used, refused and
lost by either caller. A buffer of two messages is full, empty and neither.

`TogetherBriefly` bounds the states of `requests` in which *both* requests exist:
the server is up, nobody has decided, one long poll at a time and two seconds, which
is what it takes for one statement of a reader to expire both while their events
run. With one request nothing is bounded by it; the proofs of section 6 have no
such bound.

`subject` of `MCServing` and `tool` of `MCTools` choose one component per behaviour.
They share no state, so a product would add nothing. Callers that nothing tells
apart are symmetric; `live`, `passkeys` and `serving`, which check liveness, declare
no symmetry. The clock or the supply of ids and keys ends in each instance, hence
`CHECK_DEADLOCK FALSE`; `CallsEnd` shows that the handlers of `Passkeys`, which
wait for each other's rows, do not deadlock.

**Fairness.** `RequestFlow!FairSpec`: weak fairness on the steps of a handler that
has started, on queue events, on the startup and on the clock, which the Go
scheduler, the database and the queue library provide. None on people, on clients,
on readers or on crashes. `Passkeys!FairSpec`: strong fairness on the steps of a
call, since a database queues those that wait for a row. `StreamFairness`: weak
fairness on publications, on the tab that reconnects and on the stream's drain; the
property itself assumes that the stream stops breaking.

## 4. Findings

1. *Silent expiry* (`poll_hangs`). `ListPending`, `GetRequest` and the startup expire
   rows and tell nobody. When the event is due, `MarkExpired` matches no row and
   `executeRequestExpiryEvent` returns without waking the long poll. The client ends
   with its own deadline error instead of the server's "failed".
2. *An event due one second early* (`pending_forever`). Startup enqueues a reloaded
   request at `expires_at` and `MarkExpired` needs `expires_at < now`. Executed in
   that second the event does nothing and is not queued again.
3. *A password change beside an added passkey* (`passkeys_race`). Over Postgres the
   epoch may advance between the epoch check of `addCredentialFinish` and its INSERT,
   which reads the epoch again: the passkey is recorded as current and opens with the
   old password.
4. *Accounts that were never finalized* (`never_collected`). Their delete event is
   due a day and a minute after creation and its cutoff lies a day and ten minutes
   before the due time: it never deletes anything, and nothing tries again.
5. *A denied request is a transport error* (`clean_failure`). The server answers 409
   and the client's HTTP layer takes every 4xx for an error before `GetResult` looks
   at `Failed`; the branch that tells the user "denied" is never taken.

## 5. Observed while modelling

What the models show, or the code says plainly, and no run of its own states:

- A silent expiry never reaches a stream either, and a tab keeps such an item over
  reconnects (`ghostly` in `ListStream`). An approved row that nobody collects, whose
  expiry event the verdict removed, stays until the next startup (`routes-api.go:192`).
- A startup that races with a new request replaces the event of the create handler
  by one that is due at the deadline itself, as in finding 2.
- A tab signed in with a stale passkey attests the current epoch and wraps with the
  old password, so the passkey it adds is not reported as stale; a tab that changed
  the password keeps the epoch it was told at sign-in, and its next addition is
  refused until it signs in again (`App.svelte:866`, `App.svelte:961`).
- Over Postgres two sign-ins that compared with the same signature counter both write
  theirs, the smaller one last if it so happens; and two updates of a signing key may
  store the proof of a slot on a row that was deleted and created in another slot
  between: the row is then served and no client accepts it.
- The delete event of a challenge has its cutoff at the row's expiry itself, so an
  unused challenge stays until the next startup (`util-eventqueue.go:100`).
- Two first contacts that overlap write the trust store from what each has read; the
  later one drops the other's pin, which is asked for again.
- A timeout below a second is unset for the server and set for the client; the
  client's default is 15 minutes and the SSH agent's 5, whatever `RequestTimeout` of
  the server is: such a client may leave while the user can still approve.
- A save that fails at the editor's exit ends `revaulter-edit` with an error, and the
  edits since the last save are gone with the temporary file.
- A restore that failed after its migrations is refused when it is tried again, since
  it finds them; an application that starts beside a restore may add rows to its
  target. Over Postgres the tables of a dump fit together only if their statements
  see one snapshot, which depends on the isolation level the driver library chooses;
  the model takes READ COMMITTED.
- An SSH agent that ends removes the socket at its path, a newer agent's included.

## 6. Proofs

TLAPS proves the following for every value of the constants that the named
assumptions allow: any sets of requests, users, sessions, callers, targets, files
and keys, and any times and bounds. The assumptions are the `ASSUME`s of the modules:
null values are not real ones, users own requests and sessions, times are natural
numbers, a timeout is positive, and, in `PollClient`, that the grace exceeds the sum
of the delays. (For a timeout above 2^63 / 10^9 seconds the product of `GetTimeout`
wraps; the model leaves that out.)

| Theorem | States |
|---|---|
| `TypeCorrect` | `TypeOK` and `ProcessesWork` of `RequestFlow` |
| `NoWakeupLost` | `SubscriptionsAgree` and `NoLostWakeup` |
| `OneAnswer` | `AnsweredOnce` |
| `VerdictIsOne` | `OneVerdict` |
| `ResultsReachOwners` | `ResultIsOwners` |
| `ApprovedKept` | `ApprovedResultKept` (an action property) |
| `PendingIsScheduled` | `EventsAfterDeadline` and `ScheduledUntilDeadline` |
| `ServerKeepsPromise` | `PromiseKept`: the refinement of `RequestPromise` |
| `NothingUnseen`, `GenuineIsTaken`, `PinsLast` | `OnlyAgreed`, `SignupBundleVerifies`, `PinsStay` |
| `FileOpens`, `EditsSurvive` | `OpensWithItsKey`, `NothingLostSilently` |
| `OneRowPerSlot`, `AcceptedKeysAreProven`, `ProvenKeysLast` | `KeysTypeOK`, `AcceptedWereProven`, `ProvenKeysStay` |
| `SignaturesAreAsAsked`, `NeverAskedInVain` | `SignedAsAsked`, `NothingWasted` |
| `VerdictComesFirst` | `VerdictFirst` |

`RequestFlow`:

- *Base.* The types are not inductive alone: `sess[s].req` is an index into the table
  only while the session is busy. `ProcessesWork` adds that a process that is not idle
  works on a request that was created; `Base` is the two together.
- *Rows.* `RowSteps` reduces a step to one of seven statements on the table.
  `VerdictStands` (a verdict is never replaced) and `PendingEnds` (who can end the
  pending state) follow from it.
- *Wakeups.* The invariant is `Base`, `SubscriptionsAgree`, `TakersSawVerdict` and
  `NoLostWakeup`. When a request stops being pending, `PendingEnds` names the process
  that now owes the notification; it owes it until it notifies, and then no channel of
  that request is open (`AgreeNotified`). A call that starts to wait has just read
  "pending" after subscribing (`PollMoves`, `OpenChannels`).
- *Answers and owners.* `AnsweredOnce` follows from `AnsweredIsGone`: counting an answer
  deletes the row. `ResultIsOwners` needs `StoredResultIsOwners` for the row that is
  collected and `ProcessesWork` for the owner of the call's request.
- *One verdict.* `OneCloser` says that one process at a time speaks for a request, the
  session that decided it or its expiry event, that it does so only after the row has
  left the pending state, and that until it is done the streams have not been told.
- *Schedule.* `Dated` (a row has a positive deadline, so 0 can mean "no event") and
  `Decided` (a handler that removes the event has the verdict).
- *Refinement.* `StepKeepsPromise` maps each statement to a step of the promise. A sweep
  maps to one `Lapse` or `Forget` of several requests, which is why these take a set.

The tools and keys:

- *TrustStore.* `Sound` says what an operation knows at each point: its pins were agreed
  to, and, while no two overlap, what it has read is the file and what it will write
  extends it. Another operation's rename keeps this only because it sets `overlap`.
- *FileEdit.* `Progress` ties the plaintext an invocation holds to what its editor wrote
  and its hash to what it saved last; a file on disk is whole because a save replaces
  it (`FileIsWhole`).
- *SigningKeys.* The invariant is stronger than the property: every proof that a row or a
  call carries was signed, fitting or not (`RowsCarrySigned`, `CallsCarrySigned`), since
  an update may store a proof on a row that has changed slots.
- *SshAgent.* `Valid`: a call that was validated has a key equal to the advertised one
  and, with a trust store, published for the agent it began with.
- *PollClient.* `Timely` bounds each instant of a call by the one before: creation,
  deadline of the row, its event, the answer or the pause. `TimeOutKeeps` compares the
  last of them with the client's own deadline.

## 7. Only model-checked

Liveness (`PollReturns`, `VerdictAnnounced`, `CallsEnd`, `StreamCatchesUp`), which TLAPS
does not reach; the properties of `Accounts`, `Passkeys` (with the refinements of
`AccountPromise` and `KeyRing`), `ListStream`, `AuditLog`, `Cleanup` and `Backup`; and
the findings.

## 8. Left to do

1. Proofs that `Passkeys` implements `KeyRing` and `Accounts` implements
   `AccountPromise`; the invariant has to say which rows an open transaction has locked.
2. The stream of a tab composed with the publications of `RequestFlow` instead of
   `unsent`.
3. The 64-bit arithmetic of request timeouts and the normalisation of allow-lists, as
   functions against a reference definition.

## 9. Not modelled

Cryptography and encodings (`protocolv2`, `clientcore/transport.go`) and the integrity
verifier are sequential functions of their input without state. Configuration, TLS
reload, metrics, logging, static files, flags and output formats are I/O. Of the browser
application only what decides concurrency is modelled: the items of a tab, the epoch and
password it remembers, what it answers to a request. The webhook has no effect on the
server. The test fixtures (`e2e_routes_testbuild.go`, `clienttest`) and the generator of
the backup tables are not part of the program. The server is one process: `Server.subs`
and the queues are not shared between replicas.
