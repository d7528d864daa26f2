-------------------------- MODULE RequestFlowProof --------------------------
(***************************************************************************)
(* Machine-checked proofs about RequestFlow, for every number of requests, *)
(* users, sessions and long polls, any timeouts and any bounds.            *)
(***************************************************************************)
EXTENDS RequestFlow, TLAPS

USE DEF NotQueued

\* What every later proof starts from: types, and processes at work on rows.
Base == TypeOK /\ ProcessesWork

\* A sweep keeps the table well typed, and no row goes back to "none".
LEMMA ExpireRows ==
    ASSUME NEW S, NEW t, StoreTypeOK, Expire(S, t)
    PROVE  /\ row' \in [Requests -> Row]
           /\ \A r \in Requests : row[r].status # "none" => row'[r].status # "none"
BY DEF StoreTypeOK, Expire, Expirable, Row, Status, Terminal

LEMMA DeleteRows ==
    ASSUME NEW S, NEW t, StoreTypeOK, DeleteBefore(S, t)
    PROVE  /\ row' \in [Requests -> Row]
           /\ \A r \in Requests : row[r].status # "none" => row'[r].status # "none"
BY DEF StoreTypeOK, DeleteBefore, Row, Status, Terminal

LEMMA ExpirableRequests == ASSUME NEW S \in SUBSET Requests, NEW t
                           PROVE  Expirable(S, t) \subseteq Requests
BY DEF Expirable

LEMMA BaseInit == Init => Base
BY DEF Init, Base, TypeOK, ProcessesWork, StoreInit, StoreTypeOK, SubsTypeOK, Fresh, NoSubs,
    NoChannels, IdleSession, IdlePoll, IdleExec, Down, Row, Status, Terminal, Creators,
    SessionStates, PollStates, ExecStates, BootStates, Replies, Messages, Verdicts

-----------------------------------------------------------------------------
LEMMA CreatingBase == Base /\ Creating => Base'
<1> SUFFICES ASSUME Base, NEW r \in Requests,
                    CreateInsert(r) \/ CreateEnqueue(r) \/ CreatePublish(r)
             PROVE  Base'
  BY DEF Creating
<1> USE DEF Base, TypeOK, ProcessesWork, StoreTypeOK, SubsTypeOK, queueVars, storeVars, subVars
<1>1. CASE CreateInsert(r)
  BY <1>1, TimeoutsAssumption
  DEF CreateInsert, CreateRequest, Record, Row, Status, Terminal, Creators, Verdicts
<1>2. CASE CreateEnqueue(r)
  BY <1>2, QueueSlackAssumption DEF CreateEnqueue, Creators, Row
<1>3. CASE CreatePublish(r)
  BY <1>3 DEF CreatePublish, Publish, Creators, Messages
<1> QED BY <1>1, <1>2, <1>3

LEMMA DecidingBase == Base /\ Deciding => Base'
<1> SUFFICES ASSUME Base, NEW s \in Sessions,
                    \/ \E r \in Requests : Confirm(s, r) \/ Cancel(s, r)
                    \/ DecideDequeue(s) \/ DecideNotify(s) \/ DecidePublish(s)
             PROVE  Base'
  BY DEF Deciding
<1> USE DEF Base, TypeOK, ProcessesWork, StoreTypeOK, SubsTypeOK, queueVars, storeVars, subVars,
            logVars, SessionStates
<1>1. ASSUME NEW r \in Requests, Confirm(s, r) \/ Cancel(s, r) PROVE Base'
  <2>1. /\ row' \in [Requests -> Row]
        /\ \A q \in Requests : row[q].status # "none" => row'[q].status # "none"
    <3>0. row \in [Requests -> Row]
      BY DEF StoreTypeOK
    <3>1. CASE Confirm(s, r)
      BY <3>0, <3>1 DEF Confirm, CompleteRequest, Row, Status, Terminal
    <3>2. CASE Cancel(s, r)
      BY <3>0, <3>2 DEF Cancel, CancelRequest, SetStatus, Row, Status, Terminal
    <3> QED BY <1>1, <3>1, <3>2
  <2>2. PICK v \in Verdicts : Decide(s, r, v)
    BY <1>1 DEF Confirm, Cancel, Verdicts
  <2>3. audit' \in [Requests -> SUBSET (Verdicts \union {"create"})]
    BY <2>2 DEF Decide, Record
  <2>4. /\ sess' \in [Sessions -> SessionStates]
        /\ \A t \in Sessions : sess'[t].pc # "idle" => sess'[t].req \in Requests
    BY <2>2 DEF Decide
  <2> QED BY <2>1, <2>2, <2>3, <2>4 DEF Decide
<1>2. CASE DecideDequeue(s)
  BY <1>2 DEF DecideDequeue
<1>3. CASE DecideNotify(s)
  BY <1>3 DEF DecideNotify, notifySubscriber
<1>4. CASE DecidePublish(s)
  BY <1>4 DEF DecidePublish, Publish, IdleSession, Messages
<1> QED BY <1>1, <1>2, <1>3, <1>4

\* A step of a long poll keeps Base if it keeps the call on its request.
LEMMA PollKeepsBase ==
    ASSUME Base,
           row' \in [Requests -> Row],
           \A r \in Requests : row[r].status # "none" => row'[r].status # "none",
           SubsTypeOK',
           poll' \in [Pollers -> PollStates],
           \A q \in Pollers : poll'[q].pc # "idle" =>
               \/ poll[q].pc # "idle" /\ poll'[q].req = poll[q].req
               \/ /\ poll'[q].req \in Requests
                  /\ row[poll'[q].req].status # "none"
                  /\ Owner[poll'[q].req] = PollUser[q],
           answers' \in [Requests -> Nat],
           unannounced' \subseteq Requests,
           UNCHANGED <<now, queueVars, creator, sess, exec, boot, feed, audit, told, crashes>>
    PROVE  Base'
BY DEF Base, TypeOK, ProcessesWork, StoreTypeOK, queueVars

LEMMA PollingBase == Base /\ Polling => Base'
<1> SUFFICES ASSUME Base, NEW p \in Pollers,
                    \/ \E r \in Requests : PollStart(p, r)
                    \/ PollSubscribe(p) \/ PollCheck(p) \/ PollTake(p) \/ PollTakeNothing(p)
                    \/ PollWake(p) \/ PollDisconnect(p) \/ PollLeave(p)
             PROVE  Base'
  BY DEF Polling
<1> USE DEF storeVars, subVars, logVars
<1>0. /\ TypeOK /\ row \in [Requests -> Row] /\ poll \in [Pollers -> PollStates]
      /\ SubsTypeOK /\ answers \in [Requests -> Nat] /\ unannounced \subseteq Requests
      /\ \A q \in Pollers : poll[q].pc # "idle" => poll[q].req \in Requests
  BY DEF Base, TypeOK, StoreTypeOK, ProcessesWork
<1>1. ASSUME NEW r \in Requests, PollStart(p, r) PROVE Base'
  <2>1. /\ row' \in [Requests -> Row]
        /\ \A q \in Requests : row[q].status # "none" => row'[q].status # "none"
    BY <1>0, <1>1, ExpireRows DEF PollStart, GetRequest, MarkExpired, TypeOK
  <2>2. unannounced' \subseteq Requests
    BY <1>0, <1>1, ExpirableRequests DEF PollStart, Silently
  <2>3. poll' \in [Pollers -> PollStates]
    BY <1>0, <1>1 DEF PollStart, PollStates, IdlePoll, Replies
  <2>4. \A q \in Pollers : poll'[q].pc # "idle" =>
               \/ poll[q].pc # "idle" /\ poll'[q].req = poll[q].req
               \/ /\ poll'[q].req \in Requests
                  /\ row[poll'[q].req].status # "none"
                  /\ Owner[poll'[q].req] = PollUser[q]
    BY <1>0, <1>1 DEF PollStart, PollStates, IdlePoll, Exists
  <2> QED BY <1>0, <1>1, <2>1, <2>2, <2>3, <2>4, PollKeepsBase DEF PollStart, SubsTypeOK
<1>2. CASE PollSubscribe(p)
  <2>1. SubsTypeOK'
    BY <1>0, <1>2 DEF PollSubscribe, subscribeState, SubsTypeOK
  <2>2. poll' \in [Pollers -> PollStates]
    BY <1>0, <1>2 DEF PollSubscribe, PollStates
  <2>3. \A q \in Pollers : poll'[q].pc # "idle" => poll[q].pc # "idle" /\ poll'[q].req = poll[q].req
    BY <1>0, <1>2 DEF PollSubscribe, PollStates
  <2> QED BY <1>0, <1>2, <2>1, <2>2, <2>3, PollKeepsBase DEF PollSubscribe
<1>3. CASE PollCheck(p)
  <2>0. poll[p].req \in Requests
    BY <1>0, <1>3 DEF PollCheck
  <2>1. /\ row' \in [Requests -> Row]
        /\ \A q \in Requests : row[q].status # "none" => row'[q].status # "none"
    BY <1>0, <1>3, ExpireRows DEF PollCheck, GetRequest, MarkExpired, TypeOK
  <2>2. unannounced' \subseteq Requests
    BY <1>0, <1>3, <2>0, ExpirableRequests DEF PollCheck, Silently
  <2>3. PICK pc \in {"wait", "take", "leave"}, reply \in Replies :
            poll' = [poll EXCEPT ![p].pc = pc, ![p].reply = reply]
    BY <1>3 DEF PollCheck, Replies
  <2>4. poll' \in [Pollers -> PollStates]
    BY <1>0, <2>3 DEF PollStates
  <2>5. \A q \in Pollers : poll'[q].pc # "idle" => poll[q].pc # "idle" /\ poll'[q].req = poll[q].req
    BY <1>0, <1>3, <2>3 DEF PollCheck, PollStates
  <2> QED BY <1>0, <1>3, <2>1, <2>2, <2>4, <2>5, PollKeepsBase DEF PollCheck, SubsTypeOK
<1>4. CASE PollTake(p)
  <2>0. poll[p].req \in Requests
    BY <1>0, <1>4 DEF PollTake
  <2>1. /\ row' \in [Requests -> Row]
        /\ \A q \in Requests : row[q].status # "none" => row'[q].status # "none"
    BY <1>0, <1>4, <2>0 DEF PollTake, GetAndDeleteTerminalRequest, SetStatus, Row, Status
  <2>2. answers' \in [Requests -> Nat]
    BY <1>0, <1>4, <2>0 DEF PollTake
  <2>3. row[poll[p].req].result \in Sessions \union {NoResult}
    BY <1>0, <2>0 DEF Row
  <2>4. poll' \in [Pollers -> PollStates]
    BY <1>0, <1>4, <2>3 DEF PollTake, PollStates
  <2>5. \A q \in Pollers : poll'[q].pc # "idle" => poll[q].pc # "idle" /\ poll'[q].req = poll[q].req
    BY <1>0, <1>4 DEF PollTake, PollStates
  <2> QED BY <1>0, <1>4, <2>1, <2>2, <2>4, <2>5, PollKeepsBase DEF PollTake, SubsTypeOK
<1>5. CASE PollTakeNothing(p)
  <2>1. poll' \in [Pollers -> PollStates]
    BY <1>0, <1>5 DEF PollTakeNothing, PollStates
  <2>2. \A q \in Pollers : poll'[q].pc # "idle" => poll[q].pc # "idle" /\ poll'[q].req = poll[q].req
    BY <1>0, <1>5 DEF PollTakeNothing, PollStates
  <2> QED BY <1>0, <1>5, <2>1, <2>2, PollKeepsBase DEF PollTakeNothing, SubsTypeOK
<1>6. CASE PollWake(p)
  <2>1. SubsTypeOK'
    BY <1>0, <1>6 DEF PollWake, receive, SubsTypeOK
  <2>2. poll' \in [Pollers -> PollStates]
    BY <1>0, <1>6 DEF PollWake, PollStates, Replies
  <2>3. \A q \in Pollers : poll'[q].pc # "idle" => poll[q].pc # "idle" /\ poll'[q].req = poll[q].req
    BY <1>0, <1>6 DEF PollWake, PollStates
  <2> QED BY <1>0, <1>6, <2>1, <2>2, <2>3, PollKeepsBase DEF PollWake
<1>7. CASE PollDisconnect(p)
  <2>1. poll' \in [Pollers -> PollStates]
    BY <1>0, <1>7 DEF PollDisconnect, PollStates, Replies
  <2>2. \A q \in Pollers : poll'[q].pc # "idle" => poll[q].pc # "idle" /\ poll'[q].req = poll[q].req
    BY <1>0, <1>7 DEF PollDisconnect, PollStates
  <2> QED BY <1>0, <1>7, <2>1, <2>2, PollKeepsBase DEF PollDisconnect, SubsTypeOK
<1>8. CASE PollLeave(p)
  <2>1. SubsTypeOK'
    BY <1>0, <1>8 DEF PollLeave, unsubscribeState, SubsTypeOK
  <2>2. poll' \in [Pollers -> PollStates]
    BY <1>0, <1>8 DEF PollLeave, PollStates, IdlePoll, Replies
  <2>3. \A q \in Pollers : poll'[q].pc # "idle" => poll[q].pc # "idle" /\ poll'[q].req = poll[q].req
    BY <1>0, <1>8 DEF PollLeave, PollStates, IdlePoll
  <2> QED BY <1>0, <1>8, <2>1, <2>2, <2>3, PollKeepsBase DEF PollLeave
<1> QED BY <1>1, <1>2, <1>3, <1>4, <1>5, <1>6, <1>7, <1>8

LEMMA BrowsingBase == Base /\ Browsing => Base'
<1> SUFFICES ASSUME Base, Browsing PROVE Base'
  OBVIOUS
<1>1. PICK S \in SUBSET Requests : Expire(S, now) /\ Silently(S, now)
  BY DEF Browsing, BrowserList, BrowserGet, GetRequest, MarkExpired, ExpirePending
<1>2. UNCHANGED <<now, subVars, queueVars, procVars, feed, audit, told, answers, crashes>>
  BY DEF Browsing, BrowserList, BrowserGet
<1>3. /\ row' \in [Requests -> Row]
      /\ \A q \in Requests : row[q].status # "none" => row'[q].status # "none"
  BY <1>1, ExpireRows DEF Base, TypeOK
<1>4. unannounced' \subseteq Requests
  BY <1>1, ExpirableRequests DEF Base, TypeOK, Silently
<1> QED BY <1>2, <1>3, <1>4
        DEF Base, TypeOK, ProcessesWork, StoreTypeOK, SubsTypeOK, subVars, queueVars, procVars

LEMMA QueuesBase == Base /\ Queues => Base'
<1> SUFFICES ASSUME Base, NEW r \in Requests,
                    \/ ExpiryFires(r) \/ ExpiryMark(r) \/ ExpiryAnnounce(r)
                    \/ ExpiryPublish(r) \/ DeleteFires(r)
             PROVE  Base'
  BY DEF Queues
<1> USE DEF Base, TypeOK, ProcessesWork, StoreTypeOK, SubsTypeOK, queueVars, storeVars, subVars,
            procVars, logVars, ExecStates
<1>1. CASE ExpiryFires(r)
  <2>1. exec' \in [Requests -> ExecStates] /\ expiryQ' \in [Requests -> Nat]
    BY <1>1 DEF ExpiryFires
  <2> QED BY <1>1, <2>1 DEF ExpiryFires
<1>2. CASE ExpiryMark(r)
  <2>1. /\ row' \in [Requests -> Row]
        /\ \A q \in Requests : row[q].status # "none" => row'[q].status # "none"
    BY <1>2, ExpireRows DEF ExpiryMark, MarkExpired
  <2>2. exec' \in [Requests -> ExecStates]
    BY <1>2 DEF ExpiryMark, IdleExec
  <2>3. \A q \in Requests : exec'[q].pc # "idle" => exec[q].pc # "idle"
    BY <1>2 DEF ExpiryMark
  <2> QED BY <1>2, <2>1, <2>2, <2>3 DEF ExpiryMark
<1>3. CASE ExpiryAnnounce(r)
  <2>1. exec' \in [Requests -> ExecStates]
    BY <1>3 DEF ExpiryAnnounce
  <2>2. SubsTypeOK'
    BY <1>3 DEF ExpiryAnnounce, notifySubscriber
  <2>3. audit' \in [Requests -> SUBSET (Verdicts \union {"create"})]
    BY <1>3 DEF ExpiryAnnounce, Record, Verdicts
  <2>4. \A q \in Requests : exec'[q].pc # "idle" => exec[q].pc # "idle"
    BY <1>3 DEF ExpiryAnnounce
  <2> QED BY <1>3, <2>1, <2>2, <2>3, <2>4 DEF ExpiryAnnounce
<1>4. CASE ExpiryPublish(r)
  <2>1. exec' \in [Requests -> ExecStates] /\ deleteQ' \in [Requests -> Nat]
    BY <1>4, RetentionAssumption DEF ExpiryPublish, IdleExec
  <2>2. feed' \in Seq(Messages)
    BY <1>4 DEF ExpiryPublish, Publish, Messages
  <2>3. \A q \in Requests : exec'[q].pc # "idle" => exec[q].pc # "idle"
    BY <1>4 DEF ExpiryPublish, IdleExec
  <2> QED BY <1>4, <2>1, <2>2, <2>3 DEF ExpiryPublish
<1>5. CASE DeleteFires(r)
  <2>1. /\ row' \in [Requests -> Row]
        /\ \A q \in Requests : row[q].status # "none" => row'[q].status # "none"
    BY <1>5, DeleteRows DEF DeleteFires, DeleteTerminalRequest
  <2> QED BY <1>5, <2>1 DEF DeleteFires
<1> QED BY <1>1, <1>2, <1>3, <1>4, <1>5

LEMMA StartingBase == Base /\ Starting => Base'
<1> SUFFICES ASSUME Base, Starting PROVE Base'
  OBVIOUS
<1> USE DEF Base, TypeOK, ProcessesWork, StoreTypeOK, SubsTypeOK, queueVars, storeVars, subVars,
            logVars, BootStates
<1>1. CASE Start
  <2>1. boot' \in BootStates /\ boot'.at <= now' /\ boot'.list = {}
    BY <1>1 DEF Start
  <2> QED BY <1>1, <2>1 DEF Start
<1>2. CASE StartupExpire
  <2>1. /\ row' \in [Requests -> Row]
        /\ \A q \in Requests : row[q].status # "none" => row'[q].status # "none"
    BY <1>2, ExpireRows DEF StartupExpire, ExpirePending
  <2>2. unannounced' \subseteq Requests
    BY <1>2, ExpirableRequests DEF StartupExpire, Silently
  <2> QED BY <1>2, <2>1, <2>2 DEF StartupExpire
<1>3. CASE StartupClean
  <2>1. /\ row' \in [Requests -> Row]
        /\ \A q \in Requests : row[q].status # "none" => row'[q].status # "none"
    BY <1>3, DeleteRows DEF StartupClean, CleanupOldRecords
  <2> QED BY <1>3, <2>1 DEF StartupClean
<1>4. CASE StartupList
  <2>1. /\ row' \in [Requests -> Row]
        /\ \A q \in Requests : row[q].status # "none" => row'[q].status # "none"
    BY <1>4, ExpireRows DEF StartupList, ExpirePending
  <2>2. unannounced' \subseteq Requests
    BY <1>4, ExpirableRequests DEF StartupList, Silently
  <2>3. /\ boot' \in BootStates
        /\ \A q \in boot'.list : q \in Requests /\ row'[q].status # "none"
    BY <1>4 DEF StartupList
  <2> QED BY <1>4, <2>1, <2>2, <2>3 DEF StartupList
<1>5. ASSUME NEW r \in Requests, StartupEnqueue(r) PROVE Base'
  <2>1. expiryQ' \in [Requests -> Nat]
    BY <1>5 DEF StartupEnqueue, Row
  <2>2. boot' \in BootStates /\ boot'.list \subseteq boot.list
    BY <1>5 DEF StartupEnqueue
  <2>3. \A q \in Requests : expiryQ'[q] # NotQueued => row[q].status # "none"
    BY <1>5 DEF StartupEnqueue
  <2> QED BY <1>5, <2>1, <2>2, <2>3 DEF StartupEnqueue
<1>6. CASE StartupDone
  BY <1>6 DEF StartupDone
<1> QED BY <1>1, <1>2, <1>3, <1>4, <1>5, <1>6 DEF Starting

LEMMA EnvironmentBase == Base /\ (Crash \/ Tick \/ UNCHANGED vars) => Base'
<1> SUFFICES ASSUME Base, Crash \/ Tick \/ UNCHANGED vars PROVE Base'
  OBVIOUS
<1> USE DEF Base, TypeOK, ProcessesWork, StoreTypeOK, SubsTypeOK, queueVars, storeVars, subVars,
            procVars, logVars
<1>1. CASE Crash
  BY <1>1 DEF Crash, Fresh, NoSubs, NoChannels, IdleSession, IdlePoll, IdleExec, Down,
      Creators, SessionStates, PollStates, ExecStates, BootStates, Replies
<1>2. CASE Tick
  <2>1. boot.at \in Nat /\ now' \in Nat /\ boot.at <= now'
    BY <1>2 DEF Tick, BootStates
  <2> QED BY <1>2, <2>1 DEF Tick
<1>3. CASE UNCHANGED vars
  BY <1>3 DEF vars
<1> QED BY <1>1, <1>2, <1>3

LEMMA BaseStep == Base /\ [Next]_vars => Base'
BY CreatingBase, DecidingBase, PollingBase, BrowsingBase, QueuesBase, StartingBase,
   EnvironmentBase DEF Next

\* Every variable keeps its type in every behaviour of the specification, and a
\* process at work always works on a request that was created.
THEOREM TypeCorrect == Spec => [](TypeOK /\ ProcessesWork)
<1>1. Base <=> TypeOK /\ ProcessesWork
  BY DEF Base
<1> QED BY BaseInit, BaseStep, <1>1, PTL DEF Spec
=============================================================================
