---------------------------- MODULE RequestFlow ----------------------------
(***************************************************************************)
(* The life of a request in the server: the handlers that create it, answer*)
(* it and wait for its result, the expiry and delete queues, and a restart.*)
(* One process per CLI submission (creator), browser decision (sess),      *)
(* long-poll call (poll) and queue event (exec); a step is what a handler  *)
(* does between two points where another goroutine can interleave: one SQL *)
(* transaction, one section under Server.lock, one call of a queue or of   *)
(* the broker.                                                             *)
(***************************************************************************)
EXTENDS RequestStore, Sequences

CONSTANTS Pollers,    \* calls of the long-poll handler
          NoPoller,   \* no call is subscribed
          NoRequest,  \* an idle process works on no request
          PollUser,   \* the user whose request key a long-poll call presents
          Timeouts,   \* lifetimes a client may ask for, in seconds
          QueueSlack, \* 5 seconds: how long after expires_at the event is due
          MaxTime,    \* bound on the clock
          LastCreate, \* bound on the time at which a request is created
          MaxCrashes  \* bound on the number of crashes

ASSUME NoPollerAssumption == NoPoller \notin Pollers
ASSUME NoRequestAssumption == NoRequest \notin Requests
ASSUME PollUserAssumption == PollUser \in [Pollers -> Users]
ASSUME TimeoutsAssumption == Timeouts \subseteq Nat \ {0}
ASSUME QueueSlackAssumption == QueueSlack \in Nat
ASSUME BoundsAssumption == MaxTime \in Nat /\ LastCreate \in Nat /\ MaxCrashes \in Nat

VARIABLES
    subs,        \* Server.subs
    chan,        \* the channel of each call of the long-poll handler
    expiryQ,     \* requestExpiryQueue: due time of the event of a request, 0 when none
    deleteQ,     \* deleteQueue, its events of kind "request"
    creator,     \* RouteV2RequestCreate
    sess,        \* RouteV2APIConfirm
    poll,        \* RouteV2RequestResult
    exec,        \* executeRequestExpiryEvent
    boot,        \* startAppServer
    feed,        \* every message given to the broker, in order of publication
    audit,       \* the request.* rows of the audit log
    told,        \* requests whose state the CLI has been given
    answers,     \* history: how many terminal answers the long polls obtained
    unannounced, \* history: requests expired by a reader, who tells nobody
    crashes      \* history: how many times the process was lost

INSTANCE Subscriptions

NotQueued == 0
Verdicts == {"confirm", "cancel", "expire"}

storeVars == <<row, now>>
subVars == <<subs, chan>>
queueVars == <<expiryQ, deleteQ>>
procVars == <<creator, sess, poll, exec, boot>>
logVars == <<feed, audit, told, answers, unannounced, crashes>>
vars == <<storeVars, subVars, queueVars, procVars, logVars>>

Creators == {"idle", "enqueue", "publish"}
SessionStates == [pc: {"idle", "dequeue", "notify", "publish"}, req: Requests \union {NoRequest}]
Replies == {"none", "done", "failed", "pending", "notfound"}
PollStates == [pc: {"idle", "subscribe", "check", "take", "wait", "leave"},
               req: Requests \union {NoRequest},
               reply: Replies,
               result: Sessions \union {NoResult}]
ExecStates == [pc: {"idle", "mark", "announce", "publish"}, ttl: Nat]
BootStates == [pc: {"down", "expire", "clean", "list", "enqueue", "up"},
               at: Nat, list: SUBSET Requests]
Messages == Requests \X {"pending", "removed"}

\* Every variable holds values of its type.
TypeOK ==
    /\ StoreTypeOK
    /\ SubsTypeOK
    /\ expiryQ \in [Requests -> Nat]
    /\ deleteQ \in [Requests -> Nat]
    /\ creator \in [Requests -> Creators]
    /\ sess \in [Sessions -> SessionStates]
    /\ poll \in [Pollers -> PollStates]
    /\ exec \in [Requests -> ExecStates]
    /\ boot \in BootStates
    /\ feed \in Seq(Messages)
    /\ audit \in [Requests -> SUBSET (Verdicts \union {"create"})]
    /\ told \subseteq Requests
    /\ answers \in [Requests -> Nat]
    /\ unannounced \subseteq Requests
    /\ crashes \in Nat

IdleSession == [pc |-> "idle", req |-> NoRequest]
IdlePoll == [pc |-> "idle", req |-> NoRequest, reply |-> "none", result |-> NoResult]
IdleExec == [pc |-> "idle", ttl |-> 0]
Down == [pc |-> "down", at |-> 0, list |-> {}]

\* What lives in the memory of the process, as it is before NewServer.
Fresh == [subs    |-> NoSubs,
          chan    |-> NoChannels,
          expiryQ |-> [r \in Requests |-> NotQueued],
          deleteQ |-> [r \in Requests |-> NotQueued],
          creator |-> [r \in Requests |-> "idle"],
          sess    |-> [s \in Sessions |-> IdleSession],
          poll    |-> [p \in Pollers |-> IdlePoll],
          exec    |-> [r \in Requests |-> IdleExec],
          boot    |-> Down]

Init ==
    /\ StoreInit
    /\ subs = Fresh.subs /\ chan = Fresh.chan
    /\ expiryQ = Fresh.expiryQ /\ deleteQ = Fresh.deleteQ
    /\ creator = Fresh.creator /\ sess = Fresh.sess /\ poll = Fresh.poll
    /\ exec = Fresh.exec /\ boot = Fresh.boot
    /\ feed = <<>>
    /\ audit = [r \in Requests |-> {}]
    /\ told = {}
    /\ answers = [r \in Requests |-> 0]
    /\ unannounced = {}
    /\ crashes = 0

Serving == boot.pc # "down"
Publish(r, kind) == feed' = Append(feed, <<r, kind>>)
Record(r, event) == audit' = [audit EXCEPT ![r] = @ \union {event}]
Silently(S, t) == unannounced' = unannounced \union Expirable(S, t)
-----------------------------------------------------------------------------
(* RouteV2RequestCreate *)

\* The transaction: the row and its audit row.
CreateInsert(r) ==
    /\ Serving
    /\ now <= LastCreate
    /\ \E t \in Timeouts : CreateRequest(r, t)
    /\ Record(r, "create")
    /\ creator' = [creator EXCEPT ![r] = "enqueue"]
    /\ UNCHANGED <<now, subVars, queueVars, sess, poll, exec, boot,
                   feed, told, answers, unannounced, crashes>>

\* Enqueue the expiry event, then answer 202 with the state.
CreateEnqueue(r) ==
    /\ creator[r] = "enqueue"
    /\ expiryQ' = [expiryQ EXCEPT ![r] = row[r].expires + QueueSlack]
    /\ told' = told \union {r}
    /\ creator' = [creator EXCEPT ![r] = "publish"]
    /\ UNCHANGED <<storeVars, subVars, deleteQ, sess, poll, exec, boot,
                   feed, audit, answers, unannounced, crashes>>

CreatePublish(r) ==
    /\ creator[r] = "publish"
    /\ Publish(r, "pending")
    /\ creator' = [creator EXCEPT ![r] = "idle"]
    /\ UNCHANGED <<storeVars, subVars, queueVars, sess, poll, exec, boot,
                   audit, told, answers, unannounced, crashes>>
-----------------------------------------------------------------------------
(* RouteV2APIConfirm: the transaction that confirms or cancels, then three  *)
(* steps the two paths share.  A transaction that matches no row answers    *)
(* 409 and changes nothing.                                                 *)

Decide(s, r, verdict) ==
    /\ Serving
    /\ sess[s].pc = "idle"
    /\ Record(r, verdict)
    /\ sess' = [sess EXCEPT ![s] = [pc |-> "dequeue", req |-> r]]
    /\ UNCHANGED <<now, subVars, queueVars, creator, poll, exec, boot,
                   feed, told, answers, unannounced, crashes>>

Confirm(s, r) == CompleteRequest(r, s) /\ Decide(s, r, "confirm")
Cancel(s, r) == CancelRequest(r, s) /\ Decide(s, r, "cancel")

DecideDequeue(s) ==
    /\ sess[s].pc = "dequeue"
    /\ expiryQ' = [expiryQ EXCEPT ![sess[s].req] = NotQueued]
    /\ sess' = [sess EXCEPT ![s].pc = "notify"]
    /\ UNCHANGED <<storeVars, subVars, deleteQ, creator, poll, exec, boot, logVars>>

\* Mutant: the handler returns after answering, without telling the streams.
DecideNotifyOnly(s) ==
    /\ sess[s].pc = "notify"
    /\ notifySubscriber(sess[s].req)
    /\ sess' = [sess EXCEPT ![s] = IdleSession]
    /\ UNCHANGED <<storeVars, queueVars, creator, poll, exec, boot, logVars>>

DecideNotify(s) ==
    /\ sess[s].pc = "notify"
    /\ notifySubscriber(sess[s].req)
    /\ sess' = [sess EXCEPT ![s].pc = "publish"]
    /\ UNCHANGED <<storeVars, queueVars, creator, poll, exec, boot, logVars>>

\* Mutant: the verdict is published where the streams expect "removed".
DecidePublishVerdict(s) ==
    /\ sess[s].pc = "publish"
    /\ Publish(sess[s].req, row[sess[s].req].status)
    /\ sess' = [sess EXCEPT ![s] = IdleSession]
    /\ UNCHANGED <<storeVars, subVars, queueVars, creator, poll, exec, boot,
                   audit, told, answers, unannounced, crashes>>

DecidePublish(s) ==
    /\ sess[s].pc = "publish"
    /\ Publish(sess[s].req, "removed")
    /\ sess' = [sess EXCEPT ![s] = IdleSession]
    /\ UNCHANGED <<storeVars, subVars, queueVars, creator, poll, exec, boot,
                   audit, told, answers, unannounced, crashes>>
-----------------------------------------------------------------------------
(* RouteV2RequestResult *)

\* The ownership read; a missing row and a row of another user answer 404.
PollStart(p, r) ==
    /\ Serving
    /\ poll[p].pc = "idle"
    /\ r \in told
    /\ GetRequest(r)
    /\ Silently({r}, now)
    /\ poll' = [poll EXCEPT ![p] =
                  IF Exists(r) /\ Owner[r] = PollUser[p]
                  THEN [IdlePoll EXCEPT !.pc = "subscribe", !.req = r]
                  ELSE [IdlePoll EXCEPT !.reply = "notfound"]]
    /\ UNCHANGED <<now, subVars, queueVars, creator, sess, exec, boot,
                   feed, audit, told, answers, crashes>>

PollSubscribe(p) ==
    /\ poll[p].pc = "subscribe"
    /\ subscribeState(poll[p].req, p)
    /\ poll' = [poll EXCEPT ![p].pc = "check"]
    /\ UNCHANGED <<storeVars, queueVars, creator, sess, exec, boot, logVars>>

\* The read at the head of the loop, and the switch on the status it returns.
PollCheck(p) ==
    LET r == poll[p].req
        goto(pc, reply) == poll' = [poll EXCEPT ![p].pc = pc, ![p].reply = reply]
    IN /\ poll[p].pc = "check"
       /\ GetRequest(r)
       /\ Silently({r}, now)
       /\ \/ row'[r].status = "pending" /\ goto("wait", "none")
          \/ row'[r].status = "completed" /\ goto("take", "done")
          \/ row'[r].status \in {"canceled", "expired"} /\ goto("take", "failed")
          \/ row'[r].status = "gone" /\ goto("leave", "notfound")
       /\ UNCHANGED <<now, subVars, queueVars, creator, sess, exec, boot,
                      feed, audit, told, answers, crashes>>

PollTake(p) ==
    LET r == poll[p].req
    IN /\ poll[p].pc = "take"
       /\ GetAndDeleteTerminalRequest(r)
       /\ answers' = [answers EXCEPT ![r] = @ + 1]
       /\ poll' = [poll EXCEPT ![p].pc = "leave", ![p].result = row[r].result]
       /\ UNCHANGED <<now, subVars, queueVars, creator, sess, exec, boot,
                      feed, audit, told, unannounced, crashes>>

\* Someone else took the row first: around the loop again.
PollTakeNothing(p) ==
    /\ poll[p].pc = "take"
    /\ ~ Takeable(poll[p].req)
    /\ poll' = [poll EXCEPT ![p].pc = "check"]
    /\ UNCHANGED <<storeVars, subVars, queueVars, creator, sess, exec, boot, logVars>>

\* A buffered value sends the call around the loop; a closed channel means that
\* a newer call took the subscription over.
PollWake(p) ==
    /\ poll[p].pc = "wait"
    /\ receive(p)
    /\ poll' = [poll EXCEPT ![p] =
                  IF chan[p] = "signaled" THEN [@ EXCEPT !.pc = "check"]
                  ELSE [@ EXCEPT !.pc = "leave", !.reply = "pending"]]
    /\ UNCHANGED <<storeVars, subs, queueVars, creator, sess, exec, boot, logVars>>

\* The client went away or gave up.
PollDisconnect(p) ==
    /\ poll[p].pc = "wait"
    /\ poll' = [poll EXCEPT ![p].pc = "leave", ![p].reply = "pending"]
    /\ UNCHANGED <<storeVars, subVars, queueVars, creator, sess, exec, boot, logVars>>

\* Send the response and run the deferred unsubscribe.
PollLeave(p) ==
    /\ poll[p].pc = "leave"
    /\ unsubscribeState(poll[p].req, p)
    /\ poll' = [poll EXCEPT ![p] = IdlePoll]
    /\ UNCHANGED <<storeVars, queueVars, creator, sess, exec, boot, logVars>>
-----------------------------------------------------------------------------
(* The browser's reads, which expire stale rows and notify nobody.          *)

\* RouteV2APIList and the opening of the list stream: every user's rows.
BrowserList ==
    /\ Serving
    /\ ExpirePending(now)
    /\ Silently(Requests, now)
    /\ UNCHANGED <<now, subVars, queueVars, procVars, feed, audit, told, answers, crashes>>

\* RouteV2APIRequestGet; the row is expired before its owner is compared.
BrowserGet(r) ==
    /\ Serving
    /\ GetRequest(r)
    /\ Silently({r}, now)
    /\ UNCHANGED <<now, subVars, queueVars, procVars, feed, audit, told, answers, crashes>>
-----------------------------------------------------------------------------
(* The queues *)

ExpiryFires(r) ==
    /\ expiryQ[r] # NotQueued
    /\ now >= expiryQ[r]
    /\ exec[r].pc = "idle"
    /\ exec' = [exec EXCEPT ![r] = [pc |-> "mark", ttl |-> expiryQ[r]]]
    /\ expiryQ' = [expiryQ EXCEPT ![r] = NotQueued]
    /\ UNCHANGED <<storeVars, subVars, deleteQ, creator, sess, poll, boot, logVars>>

\* MarkExpired; when no row matches, the event is over and nothing is announced.
ExpiryMark(r) ==
    /\ exec[r].pc = "mark"
    /\ MarkExpired(r)
    /\ exec' = [exec EXCEPT ![r] = IF r \in Expirable({r}, now)
                                   THEN [@ EXCEPT !.pc = "announce"] ELSE IdleExec]
    /\ UNCHANGED <<now, subVars, queueVars, creator, sess, poll, boot, logVars>>

\* The audit row, then the long-poll subscriber.
ExpiryAnnounce(r) ==
    /\ exec[r].pc = "announce"
    /\ Record(r, "expire")
    /\ notifySubscriber(r)
    /\ exec' = [exec EXCEPT ![r].pc = "publish"]
    /\ UNCHANGED <<storeVars, queueVars, creator, sess, poll, boot,
                   feed, told, answers, unannounced, crashes>>

\* The list streams, then the event that deletes the row.
ExpiryPublish(r) ==
    /\ exec[r].pc = "publish"
    /\ Publish(r, "removed")
    /\ deleteQ' = [deleteQ EXCEPT ![r] = exec[r].ttl + Retention]
    /\ exec' = [exec EXCEPT ![r] = IdleExec]
    /\ UNCHANGED <<storeVars, subVars, expiryQ, creator, sess, poll, boot,
                   audit, told, answers, unannounced, crashes>>

\* executeDeleteEvent, kind "request".
DeleteFires(r) ==
    /\ deleteQ[r] # NotQueued
    /\ now >= deleteQ[r]
    /\ DeleteTerminalRequest(r, deleteQ[r])
    /\ deleteQ' = [deleteQ EXCEPT ![r] = NotQueued]
    /\ UNCHANGED <<now, subVars, expiryQ, procVars, logVars>>
-----------------------------------------------------------------------------
(* startAppServer: the listener serves before the cleanup has run.          *)

Start ==
    /\ boot.pc = "down"
    /\ boot' = [pc |-> "expire", at |-> now, list |-> {}]
    /\ UNCHANGED <<storeVars, subVars, queueVars, creator, sess, poll, exec, logVars>>

StartupExpire ==
    /\ boot.pc = "expire"
    /\ ExpirePending(boot.at)
    /\ Silently(Requests, boot.at)
    /\ boot' = [boot EXCEPT !.pc = "clean"]
    /\ UNCHANGED <<now, subVars, queueVars, creator, sess, poll, exec,
                   feed, audit, told, answers, crashes>>

StartupClean ==
    /\ boot.pc = "clean"
    /\ CleanupOldRecords(boot.at)
    /\ boot' = [boot EXCEPT !.pc = "list"]
    /\ UNCHANGED <<now, subVars, queueVars, creator, sess, poll, exec, logVars>>

\* Mutant: the pending requests are not reloaded.
StartupListNothing ==
    /\ boot.pc = "list"
    /\ ExpirePending(now)
    /\ Silently(Requests, now)
    /\ boot' = [boot EXCEPT !.pc = "enqueue"]
    /\ UNCHANGED <<now, subVars, queueVars, creator, sess, poll, exec,
                   feed, audit, told, answers, crashes>>

StartupList ==
    /\ boot.pc = "list"
    /\ ExpirePending(now)
    /\ Silently(Requests, now)
    /\ boot' = [boot EXCEPT !.pc = "enqueue",
                            !.list = {r \in Requests : row'[r].status = "pending"}]
    /\ UNCHANGED <<now, subVars, queueVars, creator, sess, poll, exec,
                   feed, audit, told, answers, crashes>>

\* The event of a reloaded request is due at expires_at itself.
StartupEnqueue(r) ==
    /\ boot.pc = "enqueue"
    /\ r \in boot.list
    /\ expiryQ' = [expiryQ EXCEPT ![r] = row[r].expires]
    /\ boot' = [boot EXCEPT !.list = @ \ {r}]
    /\ UNCHANGED <<storeVars, subVars, deleteQ, creator, sess, poll, exec, logVars>>

StartupDone ==
    /\ boot.pc = "enqueue"
    /\ boot.list = {}
    /\ boot' = [boot EXCEPT !.pc = "up"]
    /\ UNCHANGED <<storeVars, subVars, queueVars, creator, sess, poll, exec, logVars>>
-----------------------------------------------------------------------------
(* The environment *)

\* The process is lost with everything in its memory; the database stays, and
\* every connection breaks.
Crash ==
    /\ Serving
    /\ crashes < MaxCrashes
    /\ crashes' = crashes + 1
    /\ subs' = Fresh.subs /\ chan' = Fresh.chan
    /\ expiryQ' = Fresh.expiryQ /\ deleteQ' = Fresh.deleteQ
    /\ creator' = Fresh.creator /\ sess' = Fresh.sess /\ poll' = Fresh.poll
    /\ exec' = Fresh.exec /\ boot' = Fresh.boot
    /\ UNCHANGED <<storeVars, feed, audit, told, answers, unannounced>>

Tick ==
    /\ now < MaxTime
    /\ now' = now + 1
    /\ UNCHANGED <<row, subVars, queueVars, procVars, logVars>>
-----------------------------------------------------------------------------
Creating == \E r \in Requests : CreateInsert(r) \/ CreateEnqueue(r) \/ CreatePublish(r)
Deciding == \E s \in Sessions : \/ \E r \in Requests : Confirm(s, r) \/ Cancel(s, r)
                                \/ DecideDequeue(s)
                                \/ DecideNotify(s)
                                \/ DecidePublish(s)
Polling == \E p \in Pollers : \/ \E r \in Requests : PollStart(p, r)
                              \/ PollSubscribe(p)
                              \/ PollCheck(p)
                              \/ PollTake(p)
                              \/ PollTakeNothing(p)
                              \/ PollWake(p)
                              \/ PollDisconnect(p)
                              \/ PollLeave(p)
Browsing == BrowserList \/ \E r \in Requests : BrowserGet(r)
Queues == \E r \in Requests : \/ ExpiryFires(r)
                              \/ ExpiryMark(r)
                              \/ ExpiryAnnounce(r)
                              \/ ExpiryPublish(r)
                              \/ DeleteFires(r)
Starting == \/ Start
            \/ StartupExpire
            \/ StartupClean
            \/ StartupList
            \/ \E r \in Requests : StartupEnqueue(r)
            \/ StartupDone

Next == Creating \/ Deciding \/ Polling \/ Browsing \/ Queues \/ Starting \/ Crash \/ Tick

Spec == Init /\ [][Next]_vars

\* What the Go runtime, the database and the queue library make progress on.
\* Nothing obliges a person to decide, a client to poll or to hang up, a
\* browser to read, or the process to crash.
PollStep(p) == \/ PollSubscribe(p) \/ PollCheck(p) \/ PollTake(p)
               \/ PollTakeNothing(p) \/ PollWake(p) \/ PollLeave(p)
DecideStep(s) == DecideDequeue(s) \/ DecideNotify(s) \/ DecidePublish(s)
QueueStep(r) == \/ CreateEnqueue(r) \/ CreatePublish(r) \/ ExpiryFires(r) \/ ExpiryMark(r)
                \/ ExpiryAnnounce(r) \/ ExpiryPublish(r)
Fairness ==
    /\ \A p \in Pollers : WF_vars(PollStep(p))
    /\ \A s \in Sessions : WF_vars(DecideStep(s))
    /\ \A r \in Requests : WF_vars(QueueStep(r)) /\ WF_vars(DeleteFires(r))
    /\ WF_vars(Starting)
    /\ WF_vars(Tick)
FairSpec == Spec /\ Fairness
-----------------------------------------------------------------------------
(* Safety *)

Waiting(p) == poll[p].pc = "wait" /\ chan[p] = "open"
NotifyDue(s, r) == sess[s].req = r /\ sess[s].pc \in {"dequeue", "notify"}

\* The map and the channels tell the same story: a channel is open exactly
\* while its call is the one registered for the request it works on, so that
\* neither an evicted call's deferred unsubscribe nor a late notification can
\* touch the channel of another call (util-notifications.go).
SubscriptionsAgree ==
    /\ \A p \in Pollers :
          chan[p] = "open" =>
              /\ poll[p].req \in Requests
              /\ poll[p].pc \in {"check", "take", "wait", "leave"}
              /\ subs[poll[p].req] = p
    /\ \A r \in Requests :
          subs[r] # NoPoller => poll[subs[r]].req = r /\ chan[subs[r]] = "open"

\* A process that is not idle works on a request that exists or existed, and
\* the startup's reading of the clock is not in the future.
ProcessesWork ==
    /\ \A p \in Pollers :
          poll[p].pc # "idle" => /\ poll[p].req \in Requests
                                /\ row[poll[p].req].status # "none"
                                /\ Owner[poll[p].req] = PollUser[p]
    /\ \A s \in Sessions : sess[s].pc # "idle" => sess[s].req \in Requests
    /\ \A r \in Requests :
          (r \in told \/ r \in boot.list \/ creator[r] # "idle" \/ expiryQ[r] # NotQueued
             \/ exec[r].pc # "idle") => row[r].status # "none"
    /\ boot.at <= now

\* A call about to collect has seen a verdict, and "done" is the verdict it saw.
TakersSawVerdict ==
    \A p \in Pollers :
        poll[p].pc = "take" =>
            /\ row[poll[p].req].status \in Terminal \union {"gone"}
            /\ poll[p].reply = "done" => row[poll[p].req].status \in {"completed", "gone"}

\* A stored response comes from a session of the request's owner.
StoredResultIsOwners ==
    \A r \in Requests :
        row[r].status = "completed" => /\ row[r].result \in Sessions
                                       /\ SessionUser[row[r].result] = Owner[r]

\* No event is due before the deadline of its request.
EventsAfterDeadline ==
    \A r \in Requests :
        /\ expiryQ[r] # NotQueued => expiryQ[r] >= row[r].expires
        /\ exec[r].pc = "mark" => row[r].expires <= exec[r].ttl /\ exec[r].ttl <= now

\* Handing out an answer deletes the row.
AnsweredIsGone ==
    \A r \in Requests :
        answers[r] = 0 \/ (answers[r] = 1 /\ row[r].status = "gone")

\* No lost wakeup: a call blocked on an open channel waits for a request that
\* is still pending, or whose notification is on its way, or that a reader
\* expired without telling anybody (RouteV2RequestResult against
\* RouteV2APIConfirm and executeRequestExpiryEvent).
NoLostWakeup ==
    \A p \in Pollers :
        Waiting(p) =>
            LET r == poll[p].req
            IN \/ row[r].status = "pending"
               \/ \E s \in Sessions : NotifyDue(s, r)
               \/ exec[r].pc = "announce"
               \/ r \in unannounced

\* A "done" answer carries the response of a session of the user whose request
\* key the caller presented (ownership read, CompleteRequest's user_id test).
ResultIsOwners ==
    \A p \in Pollers :
        (poll[p].pc = "leave" /\ poll[p].reply = "done") =>
            /\ poll[p].result \in Sessions
            /\ SessionUser[poll[p].result] = PollUser[p]

\* A request gets at most one terminal answer, however many long polls race
\* for it (GetAndDeleteTerminalRequest).
AnsweredOnce == \A r \in Requests : answers[r] <= 1

\* The audit log never records two verdicts on one request, and the list
\* streams are told of at most one removal, although a confirmation, a
\* cancellation and the expiry may race (RouteV2APIConfirm, MarkExpired).
OneVerdict ==
    \A r \in Requests :
        /\ \A v, w \in audit[r] \ {"create"} : v = w
        /\ \A i, j \in DOMAIN feed :
              (feed[i] = <<r, "removed">> /\ feed[j] = <<r, "removed">>) => i = j

\* A request's expiry event is never lost before its deadline: while it is
\* pending, the event is queued, being executed, about to be queued by the
\* create handler, or to be queued again by a startup in progress.
Scheduled(r) ==
    \/ expiryQ[r] # NotQueued
    \/ exec[r].pc = "mark"
    \/ creator[r] = "enqueue"
    \/ boot.pc \in {"down", "expire", "clean", "list"}
    \/ r \in boot.list
ScheduledUntilDeadline ==
    \A r \in Requests :
        row[r].status = "pending" => Scheduled(r) \/ now >= row[r].expires

\* An approved result is destroyed only by handing it to a caller, or ten
\* minutes after the request's deadline (DeleteTerminalRequest,
\* CleanupOldRecords, GetAndDeleteTerminalRequest).
ApprovedResultKept ==
    [][\A r \in Requests :
         (row[r].status = "completed" /\ row'[r].status # "completed") =>
            \/ answers'[r] = answers[r] + 1
            \/ row[r].expires + Retention < now]_vars

\* The server keeps the promise of RequestPromise.
Promise == INSTANCE RequestPromise WITH
    status    <- [r \in Requests |-> row[r].status],
    deadline  <- [r \in Requests |-> row[r].expires],
    result    <- [r \in Requests |-> row[r].result],
    Lifetimes <- Timeouts,
    MayAnswer <- [r \in Requests |-> {s \in Sessions : SessionUser[s] = Owner[r]}]

\* Every step on the tables is a step of the promise: one verdict, by the
\* owner or the clock, and one answer.
PromiseKept == Promise!Spec
-----------------------------------------------------------------------------
(* Liveness, under FairSpec *)

WaitsFor(p, r) == poll[p].pc = "wait" /\ poll[p].req = r

\* A request that no event will expire: pending, and not scheduled.
Stranded(r) == row[r].status = "pending" /\ ~ Scheduled(r)

\* A long poll comes to an end although its client never hangs up, unless a
\* reader expired the request silently or its event was spent too early.
PollReturns ==
    \A p \in Pollers, r \in Requests :
        WaitsFor(p, r) ~> (~ WaitsFor(p, r) \/ r \in unannounced \/ Stranded(r))

InFeed(r) == \E i \in DOMAIN feed : feed[i] = <<r, "removed">>

\* A verdict reaches the list streams, unless a reader expired the request.
VerdictAnnounced ==
    \A r \in Requests :
        row[r].status \in Terminal ~> (InFeed(r) \/ r \in unannounced)

\* "resultTimeoutGrace is added to the request's timeout so the server's
\* expiry fires first" (operations.go): the server ends every long poll.
ExpiryAnswersPoll ==
    \A p \in Pollers, r \in Requests : WaitsFor(p, r) ~> ~ WaitsFor(p, r)

\* "Enqueue the request for cleanup when it expires" (routes-request.go):
\* a request does not stay pending for ever.
PendingExpires ==
    \A r \in Requests : (row[r].status = "pending") ~> (row[r].status # "pending")
=============================================================================
