------------------------- MODULE RequestSafetyProof -------------------------
(***************************************************************************)
(* Proofs of the safety properties of RequestFlow, on top of the types.    *)
(***************************************************************************)
EXTENDS RequestFlowProof

(***************************************************************************)
(* The map of subscriptions and the channels tell the same story.          *)
(***************************************************************************)

\* A step that leaves both alone, and no call off its request, keeps the story.
LEMMA AgreeUndisturbed ==
    ASSUME SubscriptionsAgree, UNCHANGED subVars,
           \A p \in Pollers : chan[p] = "open" =>
               /\ poll'[p].req = poll[p].req
               /\ poll'[p].pc \in {"check", "take", "wait", "leave"},
           Base
    PROVE  SubscriptionsAgree'
<1>1. subs' = subs /\ chan' = chan
  BY DEF subVars
<1>2. \A r \in Requests : subs[r] # NoPoller => subs[r] \in Pollers
  BY DEF Base, TypeOK, SubsTypeOK
<1> QED BY <1>1, <1>2 DEF SubscriptionsAgree

\* A notification closes the channel of the request and nobody else's.
LEMMA AgreeNotified ==
    ASSUME SubscriptionsAgree, Base, NEW r \in Requests, notifySubscriber(r), UNCHANGED poll
    PROVE  SubscriptionsAgree' /\ \A p \in Pollers : chan'[p] = "open" => poll[p].req # r
BY NoPollerAssumption DEF SubscriptionsAgree, Base, TypeOK, SubsTypeOK, notifySubscriber

LEMMA AgreePolling ==
    ASSUME Base, SubscriptionsAgree, Polling
    PROVE  SubscriptionsAgree'
<1> PICK p \in Pollers :
        \/ \E r \in Requests : PollStart(p, r)
        \/ PollSubscribe(p) \/ PollCheck(p) \/ PollTake(p) \/ PollTakeNothing(p)
        \/ PollWake(p) \/ PollDisconnect(p) \/ PollLeave(p)
  BY DEF Polling
<1>0. /\ poll \in [Pollers -> PollStates] /\ SubsTypeOK
      /\ \A q \in Pollers : poll[q].pc # "idle" => poll[q].req \in Requests
  BY DEF Base, TypeOK, ProcessesWork
<1>1. ASSUME NEW r \in Requests, PollStart(p, r) PROVE SubscriptionsAgree'
  <2>1. \A q \in Pollers : q # p => poll'[q] = poll[q]
    BY <1>0, <1>1 DEF PollStart
  <2>2. chan[p] # "open"
    BY <1>1 DEF PollStart, SubscriptionsAgree
  <2> QED BY <1>1, <2>1, <2>2, AgreeUndisturbed DEF PollStart, SubscriptionsAgree
<1>2. CASE PollSubscribe(p)
  <2>1. /\ \A q \in Pollers : poll'[q].req = poll[q].req
        /\ \A q \in Pollers : q # p => poll'[q] = poll[q]
        /\ poll'[p].pc = "check"
    BY <1>0, <1>2 DEF PollSubscribe, PollStates
  <2>2. /\ poll[p].req \in Requests
        /\ chan[p] # "open" /\ \A r \in Requests : subs[r] # p
    BY <1>0, <1>2, NoPollerAssumption DEF PollSubscribe, SubscriptionsAgree
  <2> QED BY <1>0, <1>2, <2>1, <2>2, NoPollerAssumption
          DEF PollSubscribe, subscribeState, SubscriptionsAgree, SubsTypeOK
<1>3. CASE PollCheck(p)
  <2>1. PICK pc \in {"wait", "take", "leave"}, reply \in Replies :
            poll' = [poll EXCEPT ![p].pc = pc, ![p].reply = reply]
    BY <1>3 DEF PollCheck, Replies
  <2>2. \A q \in Pollers : poll'[q].req = poll[q].req /\ (q # p => poll'[q] = poll[q])
    BY <1>0, <2>1 DEF PollStates
  <2>3. poll'[p].pc = pc
    BY <1>0, <2>1 DEF PollStates
  <2> QED BY <1>3, <2>2, <2>3, AgreeUndisturbed DEF PollCheck, SubscriptionsAgree
<1>4. CASE PollTake(p)
  <2>1. /\ \A q \in Pollers : poll'[q].req = poll[q].req /\ (q # p => poll'[q] = poll[q])
        /\ poll'[p].pc = "leave"
    BY <1>0, <1>4 DEF PollTake, PollStates
  <2> QED BY <1>4, <2>1, AgreeUndisturbed DEF PollTake, SubscriptionsAgree
<1>5. CASE PollTakeNothing(p)
  <2>1. /\ \A q \in Pollers : poll'[q].req = poll[q].req /\ (q # p => poll'[q] = poll[q])
        /\ poll'[p].pc = "check"
    BY <1>0, <1>5 DEF PollTakeNothing, PollStates
  <2> QED BY <1>5, <2>1, AgreeUndisturbed DEF PollTakeNothing, SubscriptionsAgree
<1>6. CASE PollWake(p)
  <2>1. /\ \A q \in Pollers : poll'[q].req = poll[q].req /\ (q # p => poll'[q] = poll[q])
        /\ poll'[p].pc \in {"check", "leave"}
    BY <1>0, <1>6 DEF PollWake, PollStates
  <2>2. chan[p] # "open" /\ \A r \in Requests : subs[r] # p
    BY <1>6, NoPollerAssumption DEF PollWake, receive, SubscriptionsAgree
  <2> QED BY <1>0, <1>6, <2>1, <2>2, NoPollerAssumption
          DEF PollWake, receive, SubscriptionsAgree, SubsTypeOK
<1>7. CASE PollDisconnect(p)
  <2>1. /\ \A q \in Pollers : poll'[q].req = poll[q].req /\ (q # p => poll'[q] = poll[q])
        /\ poll'[p].pc = "leave"
    BY <1>0, <1>7 DEF PollDisconnect, PollStates
  <2> QED BY <1>7, <2>1, AgreeUndisturbed DEF PollDisconnect, SubscriptionsAgree
<1>8. CASE PollLeave(p)
  <2>1. \A q \in Pollers : q # p => poll'[q] = poll[q]
    BY <1>0, <1>8 DEF PollLeave
  <2>2. poll[p].req \in Requests /\ UNCHANGED <<now, row>>
    BY <1>0, <1>8 DEF PollLeave, storeVars
  <2> QED BY <1>0, <1>8, <2>1, <2>2, NoPollerAssumption
          DEF PollLeave, unsubscribeState, SubscriptionsAgree, SubsTypeOK
<1> QED BY <1>1, <1>2, <1>3, <1>4, <1>5, <1>6, <1>7, <1>8

LEMMA AgreeStep ==
    ASSUME Base, SubscriptionsAgree, [Next]_vars
    PROVE  SubscriptionsAgree'
<1>1. CASE UNCHANGED <<subVars, poll>>
  BY <1>1, AgreeUndisturbed DEF SubscriptionsAgree
<1>2. CASE Creating
  BY <1>1, <1>2 DEF Creating, CreateInsert, CreateEnqueue, CreatePublish
<1>3. CASE Deciding
  <2> PICK s \in Sessions : \/ \E r \in Requests : Confirm(s, r) \/ Cancel(s, r)
                            \/ DecideDequeue(s) \/ DecideNotify(s) \/ DecidePublish(s)
    BY <1>3 DEF Deciding
  <2>1. CASE DecideNotify(s)
    BY <2>1, AgreeNotified DEF DecideNotify, Base, ProcessesWork
  <2> QED BY <1>1, <2>1 DEF Confirm, Cancel, Decide, DecideDequeue, DecidePublish
<1>4. CASE Polling
  BY <1>4, AgreePolling
<1>5. CASE Browsing
  BY <1>1, <1>5 DEF Browsing, BrowserList, BrowserGet, procVars
<1>6. CASE Queues
  <2> PICK r \in Requests : \/ ExpiryFires(r) \/ ExpiryMark(r) \/ ExpiryAnnounce(r)
                            \/ ExpiryPublish(r) \/ DeleteFires(r)
    BY <1>6 DEF Queues
  <2>1. CASE ExpiryAnnounce(r)
    BY <2>1, AgreeNotified DEF ExpiryAnnounce
  <2> QED BY <1>1, <2>1 DEF ExpiryFires, ExpiryMark, ExpiryPublish, DeleteFires, procVars
<1>7. CASE Starting
  BY <1>1, <1>7 DEF Starting, Start, StartupExpire, StartupClean, StartupList, StartupEnqueue,
                    StartupDone
<1>8. CASE Crash
  BY <1>8 DEF Crash, Fresh, NoSubs, NoChannels, SubscriptionsAgree
<1>9. CASE Tick \/ UNCHANGED vars
  BY <1>1, <1>9 DEF Tick, vars, procVars
<1> QED BY <1>2, <1>3, <1>4, <1>5, <1>6, <1>7, <1>8, <1>9 DEF Next

(***************************************************************************)
(* How the rows move.                                                      *)
(***************************************************************************)

\* Every step either leaves the table alone or is one of seven statements.
LEMMA RowSteps ==
    ASSUME Base, [Next]_vars
    PROVE  \/ UNCHANGED row
           \/ \E r \in Requests : CreateInsert(r)
           \/ \E s \in Sessions, r \in Requests : Confirm(s, r) \/ Cancel(s, r)
           \/ \E S \in SUBSET Requests, t \in Nat :
                  t <= now /\ Expire(S, t) /\ Silently(S, t)
           \/ \E r \in Requests : ExpiryMark(r)
           \/ \E p \in Pollers : PollTake(p)
           \/ \E S \in SUBSET Requests, t \in Nat :
                  t <= now /\ DeleteBefore(S, Minus10Minutes(t)) /\ UNCHANGED answers
<1>0. /\ now \in Nat /\ boot.at \in Nat /\ boot.at <= now
      /\ \A r \in Requests : deleteQ[r] \in Nat
      /\ \A q \in Pollers : poll[q].pc # "idle" => poll[q].req \in Requests
  BY DEF Base, TypeOK, StoreTypeOK, ProcessesWork, BootStates
<1>1. CASE Creating
  BY <1>1 DEF Creating, CreateEnqueue, CreatePublish, storeVars
<1>2. CASE Deciding
  BY <1>2 DEF Deciding, DecideDequeue, DecideNotify, DecidePublish, storeVars
<1>3. CASE Polling
  <2>1. ASSUME NEW p \in Pollers, NEW r \in Requests, PollStart(p, r)
        PROVE  Expire({r}, now) /\ Silently({r}, now)
    BY <2>1 DEF PollStart, GetRequest, MarkExpired
  <2>2. ASSUME NEW p \in Pollers, PollCheck(p)
        PROVE  /\ poll[p].req \in Requests
               /\ Expire({poll[p].req}, now) /\ Silently({poll[p].req}, now)
    BY <1>0, <2>2 DEF PollCheck, GetRequest, MarkExpired
  <2>3. ASSUME NEW p \in Pollers,
               \/ PollSubscribe(p) \/ PollTakeNothing(p) \/ PollWake(p)
               \/ PollDisconnect(p) \/ PollLeave(p)
        PROVE  UNCHANGED row
    BY <2>3 DEF PollSubscribe, PollTakeNothing, PollWake, PollDisconnect, PollLeave, storeVars
  <2>4. \/ \E S \in SUBSET Requests : Expire(S, now) /\ Silently(S, now)
        \/ \E p \in Pollers : PollTake(p)
        \/ UNCHANGED row
    <3>1. CASE \E p \in Pollers, r \in Requests : PollStart(p, r)
      BY <3>1, <2>1
    <3>2. CASE \E p \in Pollers : PollCheck(p)
      BY <3>2, <2>2
    <3> QED BY <1>3, <3>1, <3>2, <2>3 DEF Polling
  <2>5. now <= now
    BY <1>0
  <2> QED BY <1>0, <2>4, <2>5
<1>4. CASE Browsing
  <2>1. PICK S \in SUBSET Requests : Expire(S, now) /\ Silently(S, now)
    BY <1>4 DEF Browsing, BrowserList, BrowserGet, GetRequest, MarkExpired, ExpirePending
  <2> QED BY <1>0, <2>1
<1>5. CASE Queues
  <2>1. ASSUME NEW r \in Requests, DeleteFires(r)
        PROVE  /\ deleteQ[r] <= now /\ DeleteBefore({r}, Minus10Minutes(deleteQ[r]))
               /\ UNCHANGED answers
    BY <1>0, <2>1 DEF DeleteFires, DeleteTerminalRequest, logVars
  <2> QED BY <1>0, <1>5, <2>1 DEF Queues, ExpiryFires, ExpiryAnnounce, ExpiryPublish, storeVars
<1>6. CASE Starting
  <2>1. CASE StartupExpire
    BY <1>0, <2>1 DEF StartupExpire, ExpirePending
  <2>2. CASE StartupClean
    BY <1>0, <2>2 DEF StartupClean, CleanupOldRecords, logVars
  <2>3. CASE StartupList
    BY <1>0, <2>3 DEF StartupList, ExpirePending
  <2> QED BY <1>6, <2>1, <2>2, <2>3 DEF Starting, Start, StartupEnqueue, StartupDone, storeVars
<1>7. CASE Crash \/ Tick \/ UNCHANGED vars
  BY <1>7 DEF Crash, Tick, storeVars, vars
<1> QED BY <1>1, <1>2, <1>3, <1>4, <1>5, <1>6, <1>7 DEF Next

\* A verdict stands until its row is deleted.
LEMMA VerdictStands ==
    ASSUME Base, [Next]_vars, NEW r \in Requests, row[r].status \notin {"none", "pending"}
    PROVE  row'[r].status \in {row[r].status, "gone"}
<1>0. row \in [Requests -> Row]
  BY DEF Base, TypeOK, StoreTypeOK
<1>1. CASE UNCHANGED row
  BY <1>1
<1>2. ASSUME NEW q \in Requests, CreateInsert(q) PROVE row'[r] = row[r]
  BY <1>0, <1>2 DEF CreateInsert, CreateRequest
<1>3. ASSUME NEW s \in Sessions, NEW q \in Requests, Confirm(s, q) \/ Cancel(s, q)
      PROVE  row'[r] = row[r]
  BY <1>0, <1>3 DEF Confirm, Cancel, CompleteRequest, CompletableBy, CancelRequest, CancelableBy,
      SetStatus
<1>4. ASSUME NEW S, NEW t, Expire(S, t) PROVE row'[r] = row[r]
  BY <1>4 DEF Expire, Expirable
<1>5. ASSUME NEW q \in Requests, ExpiryMark(q) PROVE row'[r] = row[r]
  BY <1>4, <1>5 DEF ExpiryMark, MarkExpired
<1>6. ASSUME NEW p \in Pollers, PollTake(p) PROVE row'[r].status \in {row[r].status, "gone"}
  BY <1>0, <1>6 DEF PollTake, GetAndDeleteTerminalRequest, SetStatus, Row
<1>7. ASSUME NEW S, NEW t, DeleteBefore(S, t) PROVE row'[r].status \in {row[r].status, "gone"}
  BY <1>0, <1>7 DEF DeleteBefore, Row
<1> QED BY RowSteps, <1>1, <1>2, <1>3, <1>4, <1>5, <1>6, <1>7

\* Who may end the pending state of a request.
LEMMA PendingEnds ==
    ASSUME Base, TakersSawVerdict, [Next]_vars, NEW r \in Requests,
           row[r].status = "pending", row'[r].status # "pending"
    PROVE  \/ r \in unannounced'
           \/ \E s \in Sessions : Confirm(s, r) \/ Cancel(s, r)
           \/ ExpiryMark(r) /\ r \in Expirable({r}, now)
<1>0. row \in [Requests -> Row]
  BY DEF Base, TypeOK, StoreTypeOK
<1>1. ~ UNCHANGED row
  OBVIOUS
<1>2. ASSUME NEW q \in Requests, CreateInsert(q) PROVE FALSE
  BY <1>0, <1>2 DEF CreateInsert, CreateRequest
<1>3. ASSUME NEW s \in Sessions, NEW q \in Requests, Confirm(s, q) \/ Cancel(s, q)
      PROVE  q = r
  BY <1>0, <1>3 DEF Confirm, Cancel, CompleteRequest, CancelRequest, SetStatus
<1>4. ASSUME NEW S, NEW t, Expire(S, t), Silently(S, t) PROVE r \in unannounced'
  BY <1>4 DEF Expire, Silently
<1>5. ASSUME NEW q \in Requests, ExpiryMark(q) PROVE q = r /\ r \in Expirable({r}, now)
  BY <1>5 DEF ExpiryMark, MarkExpired, Expire, Expirable
<1>6. ASSUME NEW p \in Pollers, PollTake(p) PROVE FALSE
  <2>1. row[poll[p].req].status \in Terminal \union {"gone"}
    BY <1>6 DEF PollTake, TakersSawVerdict
  <2> QED BY <1>0, <1>6, <2>1 DEF PollTake, GetAndDeleteTerminalRequest, SetStatus, Terminal
<1>7. ASSUME NEW S, NEW t, DeleteBefore(S, t) PROVE FALSE
  BY <1>7 DEF DeleteBefore, DeletableBefore, Terminal
<1> QED BY RowSteps, <1>1, <1>2, <1>3, <1>4, <1>5, <1>6, <1>7

(***************************************************************************)
(* How the calls of the long poll move.                                    *)
(***************************************************************************)

\* A call is about to take, or waits, because it was so already or because it
\* has just read the row.
LEMMA PollMoves ==
    ASSUME Base, [Next]_vars, NEW p \in Pollers, poll'[p].pc \in {"take", "wait"}
    PROVE  \/ poll'[p] = poll[p]
           \/ /\ PollCheck(p)
              /\ poll'[p].req = poll[p].req
              /\ poll'[p].pc = "wait" => row'[poll[p].req].status = "pending"
              /\ poll'[p].pc = "take" => row'[poll[p].req].status \in Terminal
              /\ poll'[p].reply = "done" => row'[poll[p].req].status = "completed"
<1>0. poll \in [Pollers -> PollStates]
  BY DEF Base, TypeOK
<1>1. CASE Polling
  <2> PICK q \in Pollers :
        \/ \E r \in Requests : PollStart(q, r)
        \/ PollSubscribe(q) \/ PollCheck(q) \/ PollTake(q) \/ PollTakeNothing(q)
        \/ PollWake(q) \/ PollDisconnect(q) \/ PollLeave(q)
    BY <1>1 DEF Polling
  <2>1. CASE PollCheck(q)
    <3>1. PICK pc \in {"wait", "take", "leave"}, reply \in Replies :
              /\ poll' = [poll EXCEPT ![q].pc = pc, ![q].reply = reply]
              /\ pc = "wait" => row'[poll[q].req].status = "pending" /\ reply = "none"
              /\ pc = "take" => row'[poll[q].req].status \in Terminal
              /\ reply = "done" => row'[poll[q].req].status = "completed"
      BY <2>1 DEF PollCheck, Replies, Terminal
    <3>2. /\ poll'[q].req = poll[q].req /\ poll'[q].pc = pc /\ poll'[q].reply = reply
          /\ q # p => poll'[p] = poll[p]
      BY <1>0, <3>1 DEF PollStates
    <3> QED BY <2>1, <3>1, <3>2
  <2>2. ASSUME NEW r \in Requests, PollStart(q, r)
        PROVE  poll'[p] = poll[p]
    BY <1>0, <2>2 DEF PollStart, IdlePoll
  <2>3. CASE PollSubscribe(q)
    BY <1>0, <2>3 DEF PollSubscribe, PollStates
  <2>4. CASE PollTake(q)
    BY <1>0, <2>4 DEF PollTake, PollStates
  <2>5. CASE PollTakeNothing(q)
    BY <1>0, <2>5 DEF PollTakeNothing, PollStates
  <2>6. CASE PollWake(q)
    BY <1>0, <2>6 DEF PollWake, PollStates
  <2>7. CASE PollDisconnect(q)
    BY <1>0, <2>7 DEF PollDisconnect, PollStates
  <2>8. CASE PollLeave(q)
    BY <1>0, <2>8 DEF PollLeave, IdlePoll
  <2> QED BY <2>1, <2>2, <2>3, <2>4, <2>5, <2>6, <2>7, <2>8
<1>2. CASE Creating
  BY <1>2 DEF Creating, CreateInsert, CreateEnqueue, CreatePublish
<1>3. CASE Deciding
  BY <1>3 DEF Deciding, Confirm, Cancel, Decide, DecideDequeue, DecideNotify, DecidePublish
<1>4. CASE Browsing
  BY <1>4 DEF Browsing, BrowserList, BrowserGet, procVars
<1>5. CASE Queues
  BY <1>5 DEF Queues, ExpiryFires, ExpiryMark, ExpiryAnnounce, ExpiryPublish, DeleteFires, procVars
<1>6. CASE Starting
  BY <1>6 DEF Starting, Start, StartupExpire, StartupClean, StartupList, StartupEnqueue, StartupDone
<1>7. CASE Crash
  BY <1>7 DEF Crash, Fresh, IdlePoll
<1>8. CASE Tick \/ UNCHANGED vars
  BY <1>8 DEF Tick, vars, procVars
<1> QED BY <1>1, <1>2, <1>3, <1>4, <1>5, <1>6, <1>7, <1>8 DEF Next

LEMMA TakersStep ==
    ASSUME Base, TakersSawVerdict, [Next]_vars
    PROVE  TakersSawVerdict'
<1> SUFFICES ASSUME NEW p \in Pollers, poll'[p].pc = "take"
             PROVE  /\ row'[poll'[p].req].status \in Terminal \union {"gone"}
                    /\ poll'[p].reply = "done" =>
                          row'[poll'[p].req].status \in {"completed", "gone"}
  BY DEF TakersSawVerdict
<1>1. CASE poll'[p] = poll[p]
  <2>1. /\ poll[p].req \in Requests
        /\ row[poll[p].req].status \in Terminal \union {"gone"}
        /\ poll[p].reply = "done" => row[poll[p].req].status \in {"completed", "gone"}
    BY <1>1 DEF Base, ProcessesWork, TakersSawVerdict
  <2>2. row'[poll[p].req].status \in {row[poll[p].req].status, "gone"}
    BY <2>1, VerdictStands DEF Terminal
  <2> QED BY <1>1, <2>1, <2>2
<1>2. CASE poll'[p] # poll[p]
  BY <1>2, PollMoves
<1> QED BY <1>1, <1>2

(***************************************************************************)
(* No lost wakeup.                                                         *)
(***************************************************************************)

\* An open channel was open already, unless its call has just subscribed.
LEMMA OpenChannels ==
    ASSUME Base, [Next]_vars, NEW p \in Pollers, chan'[p] = "open"
    PROVE  chan[p] = "open" \/ poll'[p].pc = "check"
<1>0. /\ poll \in [Pollers -> PollStates] /\ chan \in [Pollers -> {"open", "signaled", "closed"}]
  BY DEF Base, TypeOK, SubsTypeOK
<1>1. CASE UNCHANGED chan
  BY <1>1
<1>2. ASSUME NEW r, notifySubscriber(r) PROVE chan[p] = "open"
  BY <1>0, <1>2 DEF notifySubscriber
<1>3. ASSUME NEW q \in Pollers, PollSubscribe(q) PROVE chan[p] = "open" \/ poll'[p].pc = "check"
  BY <1>0, <1>3 DEF PollSubscribe, subscribeState, PollStates
<1>4. ASSUME NEW q \in Pollers, PollWake(q) PROVE chan[p] = "open"
  BY <1>0, <1>4 DEF PollWake, receive
<1>5. ASSUME NEW q \in Pollers, PollLeave(q) PROVE chan[p] = "open"
  BY <1>0, <1>5 DEF PollLeave, unsubscribeState
<1>6. CASE Polling
  BY <1>1, <1>3, <1>4, <1>5, <1>6 DEF Polling, PollStart, PollCheck, PollTake, PollTakeNothing,
     PollDisconnect, subVars
<1>7. CASE Creating \/ Browsing \/ Starting \/ Tick \/ UNCHANGED vars
  BY <1>1, <1>7 DEF Creating, CreateInsert, CreateEnqueue, CreatePublish, Browsing, BrowserList,
     BrowserGet, Starting, Start, StartupExpire, StartupClean, StartupList, StartupEnqueue,
     StartupDone, Tick, vars, subVars
<1>8. CASE Deciding
  BY <1>1, <1>2, <1>8 DEF Deciding, Confirm, Cancel, Decide, DecideDequeue, DecideNotify,
     DecidePublish, subVars
<1>9. CASE Queues
  BY <1>1, <1>2, <1>9 DEF Queues, ExpiryFires, ExpiryMark, ExpiryAnnounce, ExpiryPublish,
     DeleteFires, subVars
<1>10. CASE Crash
  BY <1>10 DEF Crash, Fresh, NoChannels
<1> QED BY <1>6, <1>7, <1>8, <1>9, <1>10 DEF Next

\* A notification that is due stays due until it is given, or the process is lost.
LEMMA NotificationsDue ==
    ASSUME Base, [Next]_vars, ~ Crash, NEW r \in Requests
    PROVE  /\ \A s \in Sessions : NotifyDue(s, r) => NotifyDue(s, r)' \/ DecideNotify(s)
           /\ exec[r].pc = "announce" => exec'[r].pc = "announce" \/ ExpiryAnnounce(r)
           /\ r \in unannounced => r \in unannounced'
<1>0. sess \in [Sessions -> SessionStates] /\ exec \in [Requests -> ExecStates]
  BY DEF Base, TypeOK
<1>1. CASE Deciding
  <2> PICK s \in Sessions : \/ \E q \in Requests : Confirm(s, q) \/ Cancel(s, q)
                            \/ DecideDequeue(s) \/ DecideNotify(s) \/ DecidePublish(s)
    BY <1>1 DEF Deciding
  <2>1. exec' = exec /\ unannounced' = unannounced
    BY DEF Confirm, Cancel, Decide, DecideDequeue, DecideNotify, DecidePublish, logVars
  <2>2. ASSUME NEW t \in Sessions, NotifyDue(t, r), ~ DecideNotify(t) PROVE NotifyDue(t, r)'
    <3>1. CASE t # s
      BY <1>0, <2>2, <3>1 DEF NotifyDue, Confirm, Cancel, Decide, DecideDequeue, DecideNotify,
         DecidePublish
    <3>2. CASE t = s
      <4>1. DecideDequeue(s)
        BY <2>2, <3>2 DEF NotifyDue, Confirm, Cancel, Decide, DecidePublish
      <4> QED BY <1>0, <2>2, <3>2, <4>1 DEF NotifyDue, DecideDequeue, SessionStates
    <3> QED BY <3>1, <3>2
  <2> QED BY <2>1, <2>2
<1>2. CASE Queues
  <2> PICK q \in Requests : \/ ExpiryFires(q) \/ ExpiryMark(q) \/ ExpiryAnnounce(q)
                            \/ ExpiryPublish(q) \/ DeleteFires(q)
    BY <1>2 DEF Queues
  <2>1. sess' = sess /\ unannounced' = unannounced
    BY DEF ExpiryFires, ExpiryMark, ExpiryAnnounce, ExpiryPublish, DeleteFires, procVars, logVars
  <2>2. exec[r].pc = "announce" => exec'[r].pc = "announce" \/ ExpiryAnnounce(r)
    BY <1>0 DEF ExpiryFires, ExpiryMark, ExpiryAnnounce, ExpiryPublish, DeleteFires, procVars
  <2> QED BY <2>1, <2>2 DEF NotifyDue
<1>3. CASE Creating \/ Polling \/ Browsing \/ Starting \/ Tick \/ UNCHANGED vars
  <2>1. UNCHANGED <<sess, exec>>
    BY <1>3 DEF Creating, CreateInsert, CreateEnqueue, CreatePublish, Polling, PollStart,
       PollSubscribe, PollCheck, PollTake, PollTakeNothing, PollWake, PollDisconnect, PollLeave,
       Browsing, BrowserList, BrowserGet, Starting, Start, StartupExpire, StartupClean,
       StartupList, StartupEnqueue, StartupDone, Tick, vars, procVars
  <2>2. unannounced \subseteq unannounced'
    BY <1>3 DEF Creating, CreateInsert, CreateEnqueue, CreatePublish, Polling, PollStart,
       PollSubscribe, PollCheck, PollTake, PollTakeNothing, PollWake, PollDisconnect, PollLeave,
       Browsing, BrowserList, BrowserGet, Starting, Start, StartupExpire, StartupClean,
       StartupList, StartupEnqueue, StartupDone, Tick, vars, logVars, Silently
  <2> QED BY <2>1, <2>2 DEF NotifyDue
<1> QED BY <1>1, <1>2, <1>3 DEF Next

LEMMA WakeupStep ==
    ASSUME Base, SubscriptionsAgree, TakersSawVerdict, NoLostWakeup, [Next]_vars
    PROVE  NoLostWakeup'
<1> SUFFICES ASSUME NEW p \in Pollers, poll'[p].pc = "wait", chan'[p] = "open",
                    NEW r, r = poll'[p].req, row'[r].status # "pending"
             PROVE  \/ \E s \in Sessions : NotifyDue(s, r)'
                    \/ exec'[r].pc = "announce"
                    \/ r \in unannounced'
  BY DEF NoLostWakeup, Waiting
<1>1. ~ Crash
  BY DEF Crash, Fresh, NoChannels
<1>2. poll'[p] = poll[p]
  BY PollMoves
<1>3. chan[p] = "open" /\ Waiting(p) /\ r \in Requests /\ r = poll[p].req
  BY <1>2, OpenChannels DEF Waiting, Base, ProcessesWork
<1>4. ASSUME NEW q \in Requests, notifySubscriber(q), UNCHANGED poll PROVE q # r
  BY <1>2, <1>3, <1>4, AgreeNotified
<1>5. CASE row[r].status = "pending"
  <2>1. ASSUME NEW s \in Sessions, Confirm(s, r) \/ Cancel(s, r) PROVE NotifyDue(s, r)'
    BY <2>1 DEF Base, TypeOK, Confirm, Cancel, Decide, NotifyDue
  <2>2. ASSUME ExpiryMark(r), r \in Expirable({r}, now) PROVE exec'[r].pc = "announce"
    BY <1>3, <2>2 DEF Base, TypeOK, ExecStates, ExpiryMark
  <2> QED BY <1>3, <1>5, <2>1, <2>2, PendingEnds
<1>6. ASSUME NEW s \in Sessions, NotifyDue(s, r) PROVE NotifyDue(s, r)'
  <2>1. ~ DecideNotify(s)
    BY <1>3, <1>4, <1>6 DEF DecideNotify, NotifyDue
  <2> QED BY <1>1, <1>3, <1>6, <2>1, NotificationsDue
<1>7. CASE exec[r].pc = "announce"
  <2>1. ~ ExpiryAnnounce(r)
    BY <1>3, <1>4 DEF ExpiryAnnounce
  <2> QED BY <1>1, <1>3, <1>7, <2>1, NotificationsDue
<1>8. CASE r \in unannounced
  BY <1>1, <1>3, <1>8, NotificationsDue
<1> QED BY <1>3, <1>5, <1>6, <1>7, <1>8 DEF NoLostWakeup

\* A call blocked on an open channel waits for a request that is pending, or
\* whose notification is due, or that a reader expired (RouteV2RequestResult
\* against RouteV2APIConfirm, executeRequestExpiryEvent and the evictions of
\* util-notifications.go).
THEOREM NoWakeupLost == Spec => [](SubscriptionsAgree /\ NoLostWakeup)
<1> DEFINE Wake == Base /\ SubscriptionsAgree /\ TakersSawVerdict /\ NoLostWakeup
<1>1. Init => Wake
  <2>1. Init => SubscriptionsAgree /\ TakersSawVerdict /\ NoLostWakeup
    BY DEF Init, Fresh, NoSubs, NoChannels, IdlePoll, SubscriptionsAgree, TakersSawVerdict,
       NoLostWakeup, Waiting
  <2> QED BY <2>1, BaseInit
<1>2. Wake /\ [Next]_vars => Wake'
  BY BaseStep, AgreeStep, TakersStep, WakeupStep
<1>3. Wake => SubscriptionsAgree /\ NoLostWakeup
  OBVIOUS
<1> QED BY <1>1, <1>2, <1>3, PTL DEF Spec

(***************************************************************************)
(* Answers.                                                                *)
(***************************************************************************)

\* Only collecting a row counts as an answer.
LEMMA AnswersMove ==
    ASSUME Base, [Next]_vars
    PROVE  UNCHANGED answers \/ \E p \in Pollers : PollTake(p)
BY DEF Next, vars, logVars, Creating, CreateInsert, CreateEnqueue, CreatePublish, Deciding, Confirm,
   Cancel, Decide, DecideDequeue, DecideNotify, DecidePublish, Polling, PollStart, PollSubscribe,
   PollCheck, PollTakeNothing, PollWake, PollDisconnect, PollLeave, Browsing, BrowserList,
   BrowserGet, Queues, ExpiryFires, ExpiryMark, ExpiryAnnounce, ExpiryPublish, DeleteFires,
   Starting, Start, StartupExpire, StartupClean, StartupList, StartupEnqueue, StartupDone, Crash,
   Tick

LEMMA AnsweredStep ==
    ASSUME Base, AnsweredIsGone, [Next]_vars
    PROVE  AnsweredIsGone'
<1>0. row \in [Requests -> Row] /\ answers \in [Requests -> Nat]
  BY DEF Base, TypeOK, StoreTypeOK
<1>1. ASSUME UNCHANGED answers, NEW r \in Requests, row[r].status = "gone"
      PROVE  row'[r].status = "gone"
  BY <1>1, VerdictStands
<1>2. ASSUME NEW p \in Pollers, PollTake(p) PROVE AnsweredIsGone'
  <2>1. poll[p].req \in Requests
    BY <1>2 DEF PollTake, Base, ProcessesWork
  <2>2. answers[poll[p].req] = 0
    BY <1>2, <2>1 DEF PollTake, GetAndDeleteTerminalRequest, Takeable, Exists, AnsweredIsGone
  <2>3. /\ \A r \in Requests : r # poll[p].req => row'[r] = row[r] /\ answers'[r] = answers[r]
        /\ answers'[poll[p].req] = 1
    BY <1>0, <1>2, <2>1, <2>2 DEF PollTake, GetAndDeleteTerminalRequest, SetStatus
  <2>4. row'[poll[p].req].status = "gone"
    BY <1>0, <1>2, <2>1 DEF PollTake, GetAndDeleteTerminalRequest, SetStatus, Row
  <2> QED BY <2>3, <2>4 DEF AnsweredIsGone
<1> QED BY <1>1, <1>2, AnswersMove DEF AnsweredIsGone

\* At most one long poll obtains the terminal answer of a request, for any
\* number of them racing with the sweeps, the queues and restarts
\* (GetAndDeleteTerminalRequest).
THEOREM OneAnswer == Spec => []AnsweredOnce
<1>1. Init => Base /\ AnsweredIsGone
  BY BaseInit DEF Init, AnsweredIsGone
<1>2. Base /\ AnsweredIsGone /\ [Next]_vars => (Base /\ AnsweredIsGone)'
  BY BaseStep, AnsweredStep
<1>3. AnsweredIsGone => AnsweredOnce
  <2> SUFFICES ASSUME AnsweredIsGone, NEW r \in Requests PROVE answers[r] <= 1
    BY DEF AnsweredOnce
  <2>1. answers[r] = 0 \/ answers[r] = 1
    BY DEF AnsweredIsGone
  <2> QED BY <2>1
<1> QED BY <1>1, <1>2, <1>3, PTL DEF Spec

LEMMA StoredStep ==
    ASSUME Base, StoredResultIsOwners, [Next]_vars
    PROVE  StoredResultIsOwners'
<1>0. row \in [Requests -> Row]
  BY DEF Base, TypeOK, StoreTypeOK
<1> SUFFICES ASSUME NEW r \in Requests, row'[r].status = "completed"
             PROVE  row'[r].result \in Sessions /\ SessionUser[row'[r].result] = Owner[r]
  BY DEF StoredResultIsOwners
<1>1. CASE row'[r] = row[r]
  BY <1>1 DEF StoredResultIsOwners
<1>2. CASE row'[r] # row[r]
  <2>1. ASSUME NEW q \in Requests, CreateInsert(q) PROVE FALSE
    BY <1>0, <1>2, <2>1 DEF CreateInsert, CreateRequest
  <2>2. ASSUME NEW s \in Sessions, NEW q \in Requests, Confirm(s, q)
        PROVE  row'[r].result = s /\ Owner[r] = SessionUser[s]
    BY <1>0, <1>2, <2>2 DEF Confirm, CompleteRequest, CompletableBy
  <2>3. ASSUME NEW s \in Sessions, NEW q \in Requests, Cancel(s, q) PROVE FALSE
    BY <1>0, <1>2, <2>3 DEF Cancel, CancelRequest, SetStatus, Row
  <2>4. ASSUME NEW S, NEW t, Expire(S, t) PROVE FALSE
    BY <1>0, <1>2, <2>4 DEF Expire, Row
  <2>5. ASSUME NEW q \in Requests, ExpiryMark(q) PROVE FALSE
    BY <2>4, <2>5 DEF ExpiryMark, MarkExpired
  <2>6. ASSUME NEW p \in Pollers, PollTake(p) PROVE FALSE
    BY <1>0, <1>2, <2>6 DEF PollTake, GetAndDeleteTerminalRequest, SetStatus, Row
  <2>7. ASSUME NEW S, NEW t, DeleteBefore(S, t) PROVE FALSE
    BY <1>0, <1>2, <2>7 DEF DeleteBefore, Row
  <2> QED BY <1>2, <2>1, <2>2, <2>3, <2>4, <2>5, <2>6, <2>7, RowSteps
<1> QED BY <1>1, <1>2

\* A call that leaves with "done" has just collected, or had it already.
LEMMA DoneMoves ==
    ASSUME Base, [Next]_vars, NEW p \in Pollers, poll'[p].pc = "leave", poll'[p].reply = "done"
    PROVE  poll'[p] = poll[p] \/ PollTake(p)
<1>0. poll \in [Pollers -> PollStates]
  BY DEF Base, TypeOK
<1>1. CASE Polling
  <2> PICK q \in Pollers :
        \/ \E r \in Requests : PollStart(q, r)
        \/ PollSubscribe(q) \/ PollCheck(q) \/ PollTake(q) \/ PollTakeNothing(q)
        \/ PollWake(q) \/ PollDisconnect(q) \/ PollLeave(q)
    BY <1>1 DEF Polling
  <2>1. CASE PollCheck(q)
    <3>1. PICK pc \in {"wait", "take", "leave"}, reply \in Replies :
              /\ poll' = [poll EXCEPT ![q].pc = pc, ![q].reply = reply]
              /\ pc = "leave" => reply = "notfound"
      BY <2>1 DEF PollCheck, Replies
    <3>2. /\ poll'[q].pc = pc /\ poll'[q].reply = reply
          /\ q # p => poll'[p] = poll[p]
      BY <1>0, <3>1 DEF PollStates
    <3> QED BY <3>1, <3>2
  <2>2. ASSUME NEW r \in Requests, PollStart(q, r) PROVE poll'[p] = poll[p]
    BY <1>0, <2>2 DEF PollStart, IdlePoll
  <2>3. CASE PollSubscribe(q)
    BY <1>0, <2>3 DEF PollSubscribe, PollStates
  <2>4. CASE PollTake(q)
    BY <1>0, <2>4 DEF PollTake, PollStates
  <2>5. CASE PollTakeNothing(q)
    BY <1>0, <2>5 DEF PollTakeNothing, PollStates
  <2>6. CASE PollWake(q)
    BY <1>0, <2>6 DEF PollWake, PollStates
  <2>7. CASE PollDisconnect(q)
    <3>1. PICK pc \in {"leave"}, reply \in {"pending"} :
              poll' = [poll EXCEPT ![q].pc = pc, ![q].reply = reply]
      BY <2>7 DEF PollDisconnect
    <3> QED BY <1>0, <3>1 DEF PollStates
  <2>8. CASE PollLeave(q)
    BY <1>0, <2>8 DEF PollLeave, IdlePoll
  <2> QED BY <2>1, <2>2, <2>3, <2>4, <2>5, <2>6, <2>7, <2>8
<1>2. CASE Creating
  BY <1>2 DEF Creating, CreateInsert, CreateEnqueue, CreatePublish
<1>3. CASE Deciding
  BY <1>3 DEF Deciding, Confirm, Cancel, Decide, DecideDequeue, DecideNotify, DecidePublish
<1>4. CASE Browsing
  BY <1>4 DEF Browsing, BrowserList, BrowserGet, procVars
<1>5. CASE Queues
  BY <1>5 DEF Queues, ExpiryFires, ExpiryMark, ExpiryAnnounce, ExpiryPublish, DeleteFires, procVars
<1>6. CASE Starting
  BY <1>6 DEF Starting, Start, StartupExpire, StartupClean, StartupList, StartupEnqueue, StartupDone
<1>7. CASE Crash
  BY <1>7 DEF Crash, Fresh, IdlePoll
<1>8. CASE Tick \/ UNCHANGED vars
  BY <1>8 DEF Tick, vars, procVars
<1> QED BY <1>1, <1>2, <1>3, <1>4, <1>5, <1>6, <1>7, <1>8 DEF Next

LEMMA ResultStep ==
    ASSUME Base, TakersSawVerdict, StoredResultIsOwners, ResultIsOwners, [Next]_vars
    PROVE  ResultIsOwners'
<1>0. poll \in [Pollers -> PollStates]
  BY DEF Base, TypeOK
<1> SUFFICES ASSUME NEW p \in Pollers, poll'[p].pc = "leave", poll'[p].reply = "done"
             PROVE  poll'[p].result \in Sessions /\ SessionUser[poll'[p].result] = PollUser[p]
  BY DEF ResultIsOwners
<1>1. CASE poll'[p] = poll[p]
  BY <1>1 DEF ResultIsOwners
<1>2. CASE PollTake(p)
  <2>1. /\ poll[p].pc = "take" /\ poll[p].req \in Requests
        /\ Owner[poll[p].req] = PollUser[p]
    BY <1>2 DEF PollTake, Base, ProcessesWork
  <2>2. poll'[p].reply = poll[p].reply /\ poll'[p].result = row[poll[p].req].result
    BY <1>0, <1>2 DEF PollTake, PollStates
  <2>3. row[poll[p].req].status = "completed"
    BY <1>2, <2>1, <2>2 DEF TakersSawVerdict, PollTake, GetAndDeleteTerminalRequest, Takeable, Exists
  <2> QED BY <2>1, <2>2, <2>3 DEF StoredResultIsOwners
<1> QED BY <1>1, <1>2, DoneMoves

\* What a "done" answer carries was produced by a session of the user whose
\* request key the caller presented (RouteV2RequestResult, CompleteRequest).
THEOREM ResultsReachOwners == Spec => []ResultIsOwners
<1> DEFINE I == Base /\ TakersSawVerdict /\ StoredResultIsOwners /\ ResultIsOwners
<1>1. Init => I
  <2>1. Init => TakersSawVerdict /\ StoredResultIsOwners /\ ResultIsOwners
    BY DEF Init, StoreInit, Fresh, IdlePoll, TakersSawVerdict, StoredResultIsOwners, ResultIsOwners
  <2> QED BY <2>1, BaseInit
<1>2. I /\ [Next]_vars => I'
  BY BaseStep, TakersStep, StoredStep, ResultStep
<1>3. I => ResultIsOwners
  OBVIOUS
<1> QED BY <1>1, <1>2, <1>3, PTL DEF Spec

\* The step of an approved row out of its state.
LEMMA CompletedEnds ==
    ASSUME Base, [Next]_vars, NEW r \in Requests,
           row[r].status = "completed", row'[r].status # "completed"
    PROVE  answers'[r] = answers[r] + 1 \/ row[r].expires + Retention < now
<1>0. row \in [Requests -> Row] /\ now \in Nat /\ answers \in [Requests -> Nat]
  BY DEF Base, TypeOK, StoreTypeOK
<1>1. ASSUME NEW q \in Requests, CreateInsert(q) PROVE FALSE
  BY <1>0, <1>1 DEF CreateInsert, CreateRequest
<1>2. ASSUME NEW s \in Sessions, NEW q \in Requests, Confirm(s, q) \/ Cancel(s, q) PROVE FALSE
  BY <1>0, <1>2 DEF Confirm, Cancel, CompleteRequest, CompletableBy, CancelRequest, CancelableBy,
     SetStatus
<1>3. ASSUME NEW S, NEW t, Expire(S, t) PROVE FALSE
  BY <1>3 DEF Expire, Expirable
<1>4. ASSUME NEW q \in Requests, ExpiryMark(q) PROVE FALSE
  BY <1>3, <1>4 DEF ExpiryMark, MarkExpired
<1>5. ASSUME NEW p \in Pollers, PollTake(p) PROVE answers'[r] = answers[r] + 1
  BY <1>0, <1>5 DEF PollTake, GetAndDeleteTerminalRequest, SetStatus
<1>6. ASSUME NEW S \in SUBSET Requests, NEW t \in Nat, t <= now,
             DeleteBefore(S, Minus10Minutes(t))
      PROVE  row[r].expires + Retention < now
  <2>1. row[r].expires < Minus10Minutes(t)
    BY <1>6 DEF DeleteBefore, DeletableBefore
  <2>2. row[r].expires \in Nat
    BY <1>0 DEF Row
  <2> QED BY <1>0, <1>6, <2>1, <2>2, RetentionAssumption DEF Minus10Minutes
<1> QED BY <1>1, <1>2, <1>3, <1>4, <1>5, <1>6, RowSteps

\* An approved result leaves the table only with the caller that collects it
\* or ten minutes after the deadline (the three DELETE statements).
THEOREM ApprovedKept == Spec => ApprovedResultKept
<1>1. Base /\ [Next]_vars =>
        [\A r \in Requests :
           (row[r].status = "completed" /\ row'[r].status # "completed") =>
              \/ answers'[r] = answers[r] + 1
              \/ row[r].expires + Retention < now]_vars
  BY CompletedEnds
<1> QED BY BaseInit, BaseStep, <1>1, PTL DEF Spec, ApprovedResultKept

(***************************************************************************)
(* The expiry event of a pending request is never lost before its deadline.*)
(***************************************************************************)
USE DEF NotQueued

\* A row that exists has a deadline, and it lies after the epoch.
Dated == \A r \in Requests : row[r].status # "none" => row[r].expires > 0

\* A handler past its transaction works on a row that has its verdict.
Decided == \A s \in Sessions :
              sess[s].pc # "idle" => row[sess[s].req].status \notin {"none", "pending"}

Schedule == Base /\ Dated /\ Decided /\ EventsAfterDeadline /\ ScheduledUntilDeadline

\* A deadline is set when the row is created and never moves.
LEMMA DeadlineFixed ==
    ASSUME Base, [Next]_vars, NEW r \in Requests
    PROVE  /\ row[r].status # "none" => row'[r].expires = row[r].expires
           /\ row[r].status = "none" /\ row'[r].status # "none" => CreateInsert(r)
<1>0. row \in [Requests -> Row]
  BY DEF Base, TypeOK, StoreTypeOK
<1>1. CASE UNCHANGED row
  BY <1>1
<1>2. ASSUME NEW q \in Requests, CreateInsert(q), q # r PROVE row'[r] = row[r]
  BY <1>0, <1>2 DEF CreateInsert, CreateRequest
<1>3. ASSUME CreateInsert(r) PROVE row[r].status = "none"
  BY <1>3 DEF CreateInsert, CreateRequest
<1>4. ASSUME NEW s \in Sessions, NEW q \in Requests, Confirm(s, q)
      PROVE  /\ row'[r].expires = row[r].expires
             /\ row[r].status = "none" => row'[r] = row[r]
  BY <1>0, <1>4 DEF Confirm, CompleteRequest, CompletableBy
<1>5. ASSUME NEW s \in Sessions, NEW q \in Requests, Cancel(s, q)
      PROVE  /\ row'[r].expires = row[r].expires
             /\ row[r].status = "none" => row'[r] = row[r]
  BY <1>0, <1>5 DEF Cancel, CancelRequest, CancelableBy, SetStatus, Row
<1>6. ASSUME NEW S, NEW t, Expire(S, t)
      PROVE  /\ row'[r].expires = row[r].expires
             /\ row[r].status = "none" => row'[r] = row[r]
  BY <1>0, <1>6 DEF Expire, Expirable, Row
<1>7. ASSUME NEW q \in Requests, ExpiryMark(q)
      PROVE  /\ row'[r].expires = row[r].expires
             /\ row[r].status = "none" => row'[r] = row[r]
  BY <1>6, <1>7 DEF ExpiryMark, MarkExpired
<1>8. ASSUME NEW p \in Pollers, PollTake(p)
      PROVE  /\ row'[r].expires = row[r].expires
             /\ row[r].status = "none" => row'[r] = row[r]
  BY <1>0, <1>8 DEF PollTake, GetAndDeleteTerminalRequest, Takeable, Exists, SetStatus, Row
<1>9. ASSUME NEW S, NEW t, DeleteBefore(S, t)
      PROVE  /\ row'[r].expires = row[r].expires
             /\ row[r].status = "none" => row'[r] = row[r]
  BY <1>0, <1>9 DEF DeleteBefore, DeletableBefore, Terminal, Row
<1> QED BY RowSteps, <1>1, <1>2, <1>3, <1>4, <1>5, <1>6, <1>7, <1>8, <1>9

LEMMA DatedStep == ASSUME Base, Dated, [Next]_vars PROVE Dated'
<1> SUFFICES ASSUME NEW r \in Requests, row'[r].status # "none" PROVE row'[r].expires > 0
  BY DEF Dated
<1>1. CASE row[r].status # "none"
  BY <1>1, DeadlineFixed DEF Dated
<1>2. CASE row[r].status = "none"
  <2>1. CreateInsert(r)
    BY <1>2, DeadlineFixed
  <2>2. PICK t \in Timeouts : CreateRequest(r, t)
    BY <2>1 DEF CreateInsert
  <2>3. row'[r].expires = now + t
    BY <2>2 DEF CreateRequest, Base, TypeOK, StoreTypeOK
  <2> QED BY <2>3, TimeoutsAssumption DEF Base, TypeOK, StoreTypeOK
<1> QED BY <1>1, <1>2

LEMMA DecidedStep == ASSUME Base, Decided, [Next]_vars PROVE Decided'
<1>0. row \in [Requests -> Row] /\ sess \in [Sessions -> SessionStates]
  BY DEF Base, TypeOK, StoreTypeOK
<1> SUFFICES ASSUME NEW s \in Sessions, sess'[s].pc # "idle"
             PROVE  row'[sess'[s].req].status \notin {"none", "pending"}
  BY DEF Decided
<1>1. CASE sess[s].pc # "idle" /\ sess'[s].req = sess[s].req
  <2>1. sess[s].req \in Requests /\ row[sess[s].req].status \notin {"none", "pending"}
    BY <1>1 DEF Base, ProcessesWork, Decided
  <2> QED BY <1>1, <2>1, VerdictStands
<1>2. ASSUME NEW q \in Requests, Confirm(s, q)
      PROVE  row'[q].status = "completed" /\ sess'[s].req = q
  BY <1>0, <1>2 DEF Confirm, Decide, CompleteRequest
<1>3. ASSUME NEW q \in Requests, Cancel(s, q)
      PROVE  row'[q].status = "canceled" /\ sess'[s].req = q
  BY <1>0, <1>3 DEF Cancel, Decide, CancelRequest, SetStatus, Row
<1>4. CASE Deciding
  <2> PICK t \in Sessions : \/ \E q \in Requests : Confirm(t, q) \/ Cancel(t, q)
                            \/ DecideDequeue(t) \/ DecideNotify(t) \/ DecidePublish(t)
    BY <1>4 DEF Deciding
  <2>1. CASE t # s
    BY <1>0, <1>1, <2>1 DEF Confirm, Cancel, Decide, DecideDequeue, DecideNotify, DecidePublish
  <2>2. CASE t = s /\ (DecideDequeue(s) \/ DecideNotify(s) \/ DecidePublish(s))
    BY <1>0, <1>1, <2>2 DEF DecideDequeue, DecideNotify, DecidePublish, IdleSession, SessionStates
  <2> QED BY <1>2, <1>3, <2>1, <2>2
<1>5. CASE ~ Deciding
  <2>1. sess' = sess \/ Crash
    BY <1>5 DEF Next, vars, procVars, Creating, CreateInsert, CreateEnqueue, CreatePublish, Polling,
       PollStart, PollSubscribe, PollCheck, PollTake, PollTakeNothing, PollWake, PollDisconnect,
       PollLeave, Browsing, BrowserList, BrowserGet, Queues, ExpiryFires, ExpiryMark,
       ExpiryAnnounce, ExpiryPublish, DeleteFires, Starting, Start, StartupExpire, StartupClean,
       StartupList, StartupEnqueue, StartupDone, Tick
  <2>2. ~ Crash
    BY DEF Crash, Fresh, IdleSession
  <2> QED BY <1>1, <2>1, <2>2
<1> QED BY <1>4, <1>5

-----------------------------------------------------------------------------
\* What a step can do to the event of a request that exists.
LEMMA EventMoves ==
    ASSUME Base, [Next]_vars, NEW r \in Requests
    PROVE  /\ \/ expiryQ'[r] = expiryQ[r]
              \/ expiryQ'[r] = NotQueued
              \/ expiryQ'[r] >= row[r].expires
           /\ \/ exec'[r] = exec[r]
              \/ exec'[r].pc # "mark"
              \/ expiryQ[r] # NotQueued /\ exec'[r].ttl = expiryQ[r] /\ expiryQ[r] <= now
           /\ now <= now'
<1>0. /\ expiryQ \in [Requests -> Nat] /\ exec \in [Requests -> ExecStates]
      /\ row \in [Requests -> Row] /\ now \in Nat
  BY DEF Base, TypeOK, StoreTypeOK
<1>1. CASE UNCHANGED <<expiryQ, exec, now>>
  BY <1>0, <1>1
<1>2. CASE Creating
  <2>1. ASSUME NEW q \in Requests, CreateEnqueue(q)
        PROVE  /\ expiryQ'[r] = expiryQ[r] \/ expiryQ'[r] >= row[r].expires
               /\ UNCHANGED <<exec, now>>
    BY <1>0, <2>1, QueueSlackAssumption DEF CreateEnqueue, Row, storeVars
  <2>2. CASE \E q \in Requests : CreateEnqueue(q)
    BY <1>0, <2>1, <2>2
  <2> QED BY <1>1, <1>2, <2>2 DEF Creating, CreateInsert, CreatePublish, queueVars, storeVars
<1>3. CASE Deciding
  <2>1. ASSUME NEW s \in Sessions, DecideDequeue(s)
        PROVE  (expiryQ'[r] = expiryQ[r] \/ expiryQ'[r] = NotQueued) /\ UNCHANGED <<exec, now>>
    BY <1>0, <2>1 DEF DecideDequeue, storeVars
  <2>2. CASE \E s \in Sessions : DecideDequeue(s)
    BY <1>0, <2>1, <2>2
  <2> QED BY <1>1, <1>3, <2>2 DEF Deciding, Confirm, Cancel, Decide, DecideNotify, DecidePublish,
             queueVars, storeVars
<1>4. CASE Polling \/ Browsing
  BY <1>1, <1>4 DEF Polling, PollStart, PollSubscribe, PollCheck, PollTake, PollTakeNothing,
     PollWake, PollDisconnect, PollLeave, Browsing, BrowserList, BrowserGet, queueVars, storeVars,
     procVars
<1>5. CASE Queues
  <2>1. ASSUME NEW q \in Requests, ExpiryFires(q)
        PROVE  /\ expiryQ'[r] = expiryQ[r] \/ expiryQ'[r] = NotQueued
               /\ \/ exec'[r] = exec[r]
                  \/ expiryQ[r] # NotQueued /\ exec'[r].ttl = expiryQ[r] /\ expiryQ[r] <= now
               /\ UNCHANGED now
    BY <1>0, <2>1 DEF ExpiryFires, storeVars
  <2>2. ASSUME NEW q \in Requests, ExpiryMark(q) \/ ExpiryAnnounce(q) \/ ExpiryPublish(q)
        PROVE  (exec'[r] = exec[r] \/ exec'[r].pc # "mark") /\ UNCHANGED <<expiryQ, now>>
    BY <1>0, <2>2 DEF ExpiryMark, ExpiryAnnounce, ExpiryPublish, IdleExec, ExecStates, storeVars,
       queueVars
  <2>3. CASE \E q \in Requests : ExpiryFires(q)
    BY <1>0, <2>1, <2>3
  <2>4. CASE \E q \in Requests : ExpiryMark(q) \/ ExpiryAnnounce(q) \/ ExpiryPublish(q)
    BY <1>0, <2>2, <2>4
  <2> QED BY <1>1, <1>5, <2>3, <2>4 DEF Queues, DeleteFires, procVars
<1>6. CASE Starting
  <2>1. ASSUME NEW q \in Requests, StartupEnqueue(q)
        PROVE  /\ expiryQ'[r] = expiryQ[r] \/ expiryQ'[r] >= row[r].expires
               /\ UNCHANGED <<exec, now>>
    BY <1>0, <2>1 DEF StartupEnqueue, Row, storeVars
  <2>2. CASE \E q \in Requests : StartupEnqueue(q)
    BY <1>0, <2>1, <2>2
  <2> QED BY <1>1, <1>6, <2>2 DEF Starting, Start, StartupExpire, StartupClean, StartupList,
             StartupDone, queueVars, storeVars
<1>7. CASE Crash
  BY <1>0, <1>7 DEF Crash, Fresh, IdleExec, storeVars
<1>8. CASE Tick
  BY <1>0, <1>8 DEF Tick, queueVars, procVars
<1>9. CASE UNCHANGED vars
  BY <1>1, <1>9 DEF vars, queueVars, procVars, storeVars
<1> QED BY <1>2, <1>3, <1>4, <1>5, <1>6, <1>7, <1>8, <1>9 DEF Next

LEMMA DeadlineStep == ASSUME Base, EventsAfterDeadline, [Next]_vars PROVE EventsAfterDeadline'
<1> SUFFICES ASSUME NEW r \in Requests
             PROVE  /\ expiryQ'[r] # NotQueued => expiryQ'[r] >= row'[r].expires
                    /\ exec'[r].pc = "mark" =>
                          row'[r].expires <= exec'[r].ttl /\ exec'[r].ttl <= now'
  BY DEF EventsAfterDeadline
<1>0. /\ expiryQ[r] \in Nat /\ exec[r].ttl \in Nat /\ now \in Nat /\ now' \in Nat
      /\ row[r].expires \in Nat /\ Base'
  BY BaseStep DEF Base, TypeOK, StoreTypeOK, ExecStates, Row
<1>1. CASE row[r].status = "none" /\ row'[r].status = "none"
  BY <1>0, <1>1 DEF Base, ProcessesWork
<1>2. CASE row[r].status = "none" /\ row'[r].status # "none"
  <2>1. CreateInsert(r)
    BY <1>2, DeadlineFixed
  <2>2. expiryQ[r] = NotQueued /\ exec[r].pc = "idle"
    BY <1>2 DEF Base, ProcessesWork
  <2> QED BY <2>1, <2>2 DEF CreateInsert, queueVars
<1>3. CASE row[r].status # "none"
  <2>1. row'[r].expires = row[r].expires
    BY <1>3, DeadlineFixed
  <2>2. /\ expiryQ[r] # NotQueued => expiryQ[r] >= row[r].expires
        /\ exec[r].pc = "mark" => row[r].expires <= exec[r].ttl /\ exec[r].ttl <= now
    BY DEF EventsAfterDeadline
  <2>3. expiryQ'[r] # NotQueued => expiryQ'[r] >= row[r].expires
    BY <2>2, EventMoves
  <2>4. exec'[r].pc = "mark" => row[r].expires <= exec'[r].ttl /\ exec'[r].ttl <= now'
    BY <1>0, <2>2, EventMoves
  <2> QED BY <2>1, <2>3, <2>4
<1> QED BY <1>1, <1>2, <1>3

-----------------------------------------------------------------------------
\* A pending request stays scheduled, or its deadline is reached.
LEMMA ScheduledStep ==
    ASSUME Schedule, [Next]_vars, NEW r \in Requests,
           row[r].status = "pending", row'[r].status = "pending",
           Scheduled(r), now < row[r].expires
    PROVE  Scheduled(r)'
<1>0. /\ expiryQ \in [Requests -> Nat] /\ exec \in [Requests -> ExecStates]
      /\ creator \in [Requests -> Creators] /\ sess \in [Sessions -> SessionStates]
      /\ boot \in BootStates /\ row \in [Requests -> Row] /\ now \in Nat
      /\ row[r].expires \in Nat /\ row[r].expires > 0
  BY DEF Schedule, Base, TypeOK, StoreTypeOK, Row, Dated
<1>1. CASE Creating
  <2>1. ASSUME NEW q \in Requests, CreateEnqueue(q) PROVE Scheduled(r)'
    <3>1. row[q].expires \in Nat /\ row[q].status # "none"
      BY <1>0, <2>1 DEF Row, CreateEnqueue, Schedule, Base, ProcessesWork
    <3>2. row[q].expires > 0
      BY <3>1 DEF Schedule, Dated
    <3>3. row[q].expires + QueueSlack # NotQueued
      BY <3>1, <3>2, QueueSlackAssumption
    <3>4. expiryQ'[q] # NotQueued
      BY <1>0, <2>1, <3>3 DEF CreateEnqueue
    <3>5. q # r => /\ expiryQ'[r] = expiryQ[r] /\ creator'[r] = creator[r]
                   /\ UNCHANGED <<exec, boot>>
      BY <1>0, <2>1 DEF CreateEnqueue
    <3> QED BY <3>4, <3>5 DEF Scheduled
  <2>2. ASSUME NEW q \in Requests, CreateInsert(q) \/ CreatePublish(q) PROVE Scheduled(r)'
    BY <1>0, <2>2 DEF CreateInsert, CreatePublish, Scheduled, queueVars
  <2> QED BY <1>1, <2>1, <2>2 DEF Creating
<1>2. CASE Deciding
  <2> PICK s \in Sessions : \/ \E q \in Requests : Confirm(s, q) \/ Cancel(s, q)
                            \/ DecideDequeue(s) \/ DecideNotify(s) \/ DecidePublish(s)
    BY <1>2 DEF Deciding
  <2>1. CASE DecideDequeue(s)
    <3>1. sess[s].req # r
      BY <2>1 DEF DecideDequeue, Schedule, Decided
    <3> QED BY <1>0, <2>1, <3>1 DEF DecideDequeue, Scheduled
  <2> QED BY <2>1 DEF Confirm, Cancel, Decide, DecideNotify, DecidePublish, Scheduled, queueVars
<1>3. CASE Polling \/ Browsing
  BY <1>3 DEF Polling, PollStart, PollSubscribe, PollCheck, PollTake, PollTakeNothing, PollWake,
     PollDisconnect, PollLeave, Browsing, BrowserList, BrowserGet, queueVars, procVars, Scheduled
<1>4. CASE Queues
  <2> PICK q \in Requests : \/ ExpiryFires(q) \/ ExpiryMark(q) \/ ExpiryAnnounce(q)
                            \/ ExpiryPublish(q) \/ DeleteFires(q)
    BY <1>4 DEF Queues
  <2>1. CASE ExpiryFires(q)
    BY <1>0, <2>1 DEF ExpiryFires, Scheduled
  <2>2. CASE ExpiryMark(q)
    <3>1. exec[r].pc # "mark"
      BY <1>0 DEF Schedule, EventsAfterDeadline, ExecStates
    <3> QED BY <1>0, <2>2, <3>1 DEF ExpiryMark, Scheduled, queueVars
  <2>3. CASE ExpiryAnnounce(q) \/ ExpiryPublish(q)
    BY <1>0, <2>3 DEF ExpiryAnnounce, ExpiryPublish, Scheduled, queueVars
  <2> QED BY <2>1, <2>2, <2>3 DEF DeleteFires, Scheduled, procVars
<1>5. CASE Starting
  <2>1. CASE Start \/ StartupExpire
    BY <1>0, <2>1 DEF Start, StartupExpire, Scheduled, BootStates, queueVars
  <2>2. CASE StartupClean
    BY <1>0, <2>2 DEF StartupClean, Scheduled, BootStates, queueVars
  <2>3. CASE StartupList
    <3>1. r \in boot'.list
      BY <1>0, <2>3 DEF StartupList, BootStates
    <3> QED BY <3>1 DEF Scheduled
  <2>4. ASSUME NEW q \in Requests, StartupEnqueue(q) PROVE Scheduled(r)'
    <3>1. row[q].expires \in Nat /\ row[q].status # "none"
      BY <1>0, <2>4 DEF Row, StartupEnqueue, Schedule, Base, ProcessesWork
    <3>2. row[q].expires > 0
      BY <3>1 DEF Schedule, Dated
    <3>3. expiryQ'[q] # NotQueued /\ boot.pc = "enqueue"
      BY <1>0, <2>4, <3>1, <3>2 DEF StartupEnqueue
    <3>4. q # r => /\ r \in boot.list => r \in boot'.list
                   /\ expiryQ'[r] = expiryQ[r]
                   /\ UNCHANGED <<exec, creator>>
      BY <1>0, <2>4 DEF StartupEnqueue, BootStates
    <3> QED BY <3>3, <3>4 DEF Scheduled
  <2>5. CASE StartupDone
    BY <1>0, <2>5 DEF StartupDone, Scheduled, BootStates, queueVars
  <2> QED BY <1>5, <2>1, <2>2, <2>3, <2>4, <2>5 DEF Starting
<1>6. CASE Crash
  BY <1>6 DEF Crash, Fresh, Down, Scheduled
<1>7. CASE Tick \/ UNCHANGED vars
  BY <1>7 DEF Tick, vars, procVars, queueVars, Scheduled
<1> QED BY <1>1, <1>2, <1>3, <1>4, <1>5, <1>6, <1>7 DEF Next

LEMMA ScheduleStep == ASSUME Schedule, [Next]_vars PROVE Schedule'
<1>1. Base' /\ Dated' /\ Decided' /\ EventsAfterDeadline'
  BY BaseStep, DatedStep, DecidedStep, DeadlineStep DEF Schedule
<1>2. ScheduledUntilDeadline'
  <2> SUFFICES ASSUME NEW r \in Requests, row'[r].status = "pending"
               PROVE  Scheduled(r)' \/ now' >= row'[r].expires
    BY DEF ScheduledUntilDeadline
  <2>0. now \in Nat /\ now' \in Nat /\ row[r].expires \in Nat /\ Base
    BY <1>1 DEF Schedule, Base, TypeOK, StoreTypeOK, Row
  <2>1. CASE row[r].status = "none"
    <3>1. CreateInsert(r)
      BY <2>0, <2>1, DeadlineFixed
    <3> QED BY <3>1 DEF CreateInsert, Scheduled, Schedule, Base, TypeOK
  <2>2. CASE row[r].status # "none"
    <3>1. row[r].status = "pending"
      BY <2>0, <2>2, VerdictStands
    <3>2. row'[r].expires = row[r].expires /\ now <= now'
      BY <2>0, <2>2, DeadlineFixed, EventMoves
    <3>3. Scheduled(r) \/ now >= row[r].expires
      BY <3>1 DEF Schedule, ScheduledUntilDeadline
    <3>4. CASE now >= row[r].expires
      BY <2>0, <3>2, <3>4
    <3>5. CASE now < row[r].expires
      BY <2>0, <3>1, <3>3, <3>5, ScheduledStep
    <3> QED BY <2>0, <3>4, <3>5
  <2> QED BY <2>1, <2>2
<1> QED BY <1>1, <1>2 DEF Schedule

\* The expiry event of a pending request is queued, in execution, about to be
\* queued by the handler that created it or by a startup, or its deadline has
\* come; and no event is due before the deadline (RouteV2RequestCreate,
\* RouteV2APIConfirm, startAppServer, executeRequestExpiryEvent).
THEOREM PendingIsScheduled == Spec => [](EventsAfterDeadline /\ ScheduledUntilDeadline)
<1>1. Init => Schedule
  <2>1. Init => Dated /\ Decided /\ EventsAfterDeadline /\ ScheduledUntilDeadline
    BY DEF Init, StoreInit, Fresh, IdleSession, IdleExec, Dated, Decided, EventsAfterDeadline,
       ScheduledUntilDeadline
  <2> QED BY <2>1, BaseInit DEF Schedule
<1>2. Schedule /\ [Next]_vars => Schedule'
  BY ScheduleStep
<1>3. Schedule => EventsAfterDeadline /\ ScheduledUntilDeadline
  BY DEF Schedule
<1> QED BY <1>1, <1>2, <1>3, PTL DEF Spec

(***************************************************************************)
(* One verdict, told once.                                                 *)
(***************************************************************************)

Undecided(r) == row[r].status \in {"none", "pending"}
Closes(s, r) == sess[s].pc # "idle" /\ sess[s].req = r
Announces(r) == exec[r].pc \in {"announce", "publish"}

\* A request has one closer at most, a session or its expiry event, and until
\* that one is done the streams have not been told.
OneCloser ==
    \A r \in Requests :
        /\ Undecided(r) \/ exec[r].pc = "announce" => audit[r] \subseteq {"create"}
        /\ Announces(r) \/ InFeed(r) => ~ Undecided(r)
        /\ Announces(r) => ~ InFeed(r)
        /\ \A s \in Sessions : Closes(s, r) => ~ Undecided(r) /\ ~ Announces(r) /\ ~ InFeed(r)
        /\ \A s, t \in Sessions : Closes(s, r) /\ Closes(t, r) => s = t

VerdictInv == Base /\ OneCloser /\ OneVerdict

LEMMA UndecidedBefore ==
    ASSUME Base, [Next]_vars, NEW r \in Requests, Undecided(r)' PROVE Undecided(r)
BY VerdictStands DEF Undecided

LEMMA VerdictTypes ==
    ASSUME Base
    PROVE  /\ sess \in [Sessions -> SessionStates] /\ exec \in [Requests -> ExecStates]
           /\ audit \in [Requests -> SUBSET (Verdicts \union {"create"})] /\ feed \in Seq(Messages)
           /\ row \in [Requests -> Row]
           /\ \A s \in Sessions : sess[s].pc # "idle" => sess[s].req \in Requests
BY DEF Base, TypeOK, StoreTypeOK, ProcessesWork

\* What a publication does to the feed.
LEMMA FeedGrows ==
    ASSUME Base, NEW q \in Requests, NEW kind \in {"pending", "removed"}, Publish(q, kind)
    PROVE  /\ \A r \in Requests : InFeed(r)' <=> InFeed(r) \/ (r = q /\ kind = "removed")
           /\ OneVerdict /\ UNCHANGED audit /\ (kind = "removed" => ~ InFeed(q)) => OneVerdict'
<1>1. /\ feed \in Seq(Messages) /\ feed' = Append(feed, <<q, kind>>) /\ <<q, kind>> \in Messages
  BY VerdictTypes DEF Publish, Messages
<1>2. /\ Len(feed) \in Nat /\ DOMAIN feed = 1 .. Len(feed) /\ DOMAIN feed' = 1 .. Len(feed) + 1
      /\ feed'[Len(feed) + 1] = <<q, kind>> /\ \A i \in DOMAIN feed : feed'[i] = feed[i]
  BY <1>1
<1>3. DOMAIN feed' = DOMAIN feed \union {Len(feed) + 1}
  BY <1>2
<1>4. ASSUME NEW r \in Requests PROVE InFeed(r)' <=> InFeed(r) \/ (r = q /\ kind = "removed")
  BY <1>2, <1>3 DEF InFeed
<1>5. ASSUME OneVerdict, UNCHANGED audit, kind = "removed" => ~ InFeed(q) PROVE OneVerdict'
  <2> SUFFICES ASSUME NEW r \in Requests, NEW i \in DOMAIN feed', NEW j \in DOMAIN feed',
                      feed'[i] = <<r, "removed">>, feed'[j] = <<r, "removed">>
               PROVE  i = j
    BY <1>5 DEF OneVerdict
  <2>1. CASE i \in DOMAIN feed /\ j \in DOMAIN feed
    BY <1>2, <1>5, <2>1 DEF OneVerdict
  <2>2. CASE i = Len(feed) + 1 /\ j \in DOMAIN feed
    BY <1>2, <1>5, <2>2 DEF InFeed
  <2>3. CASE j = Len(feed) + 1 /\ i \in DOMAIN feed
    BY <1>2, <1>5, <2>3 DEF InFeed
  <2> QED BY <1>3, <2>1, <2>2, <2>3
<1> QED BY <1>4, <1>5

\* A step that records and publishes nothing, and after which nobody closes or
\* announces who did not before.
LEMMA QuietVerdict ==
    ASSUME VerdictInv, [Next]_vars, UNCHANGED <<audit, feed>>,
           \A s \in Sessions, r \in Requests : Closes(s, r)' => Closes(s, r),
           \A r \in Requests : /\ exec'[r].pc = "announce" => exec[r].pc = "announce"
                               /\ Announces(r)' => Announces(r)
    PROVE  (OneCloser /\ OneVerdict)'
BY UndecidedBefore DEF VerdictInv, OneCloser, OneVerdict, InFeed

LEMMA CreatingVerdict ==
    ASSUME VerdictInv, [Next]_vars, Creating PROVE (OneCloser /\ OneVerdict)'
<1>0. PICK q \in Requests : CreateInsert(q) \/ CreateEnqueue(q) \/ CreatePublish(q)
  BY DEF Creating
<1>1. UNCHANGED <<sess, exec>>
  BY <1>0 DEF CreateInsert, CreateEnqueue, CreatePublish
<1>2. CASE CreateInsert(q)
  <2>1. /\ UNCHANGED feed /\ audit'[q] = audit[q] \union {"create"}
        /\ \A r \in Requests \ {q} : audit'[r] = audit[r]
    BY <1>2, VerdictTypes DEF CreateInsert, Record, VerdictInv
  <2>2. \A r \in Requests : audit'[r] \ {"create"} = audit[r] \ {"create"}
    BY <2>1
  <2>3. OneVerdict'
    BY <2>1, <2>2 DEF VerdictInv, OneVerdict
  <2>4. \A r \in Requests : Undecided(r)' => Undecided(r)
    BY UndecidedBefore DEF VerdictInv
  <2>5. OneCloser'
    BY <1>1, <2>1, <2>2, <2>4 DEF VerdictInv, OneCloser, Closes, Announces, InFeed
  <2> QED BY <2>3, <2>5
<1>3. CASE CreateEnqueue(q)
  BY <1>1, <1>3, QuietVerdict DEF CreateEnqueue, Closes, Announces
<1>4. CASE CreatePublish(q)
  <2>1. Publish(q, "pending") /\ UNCHANGED <<audit, row>>
    BY <1>4 DEF CreatePublish, storeVars
  <2>2. OneVerdict' /\ \A r \in Requests : InFeed(r)' <=> InFeed(r)
    BY <2>1, FeedGrows DEF VerdictInv
  <2> QED BY <1>1, <2>1, <2>2 DEF VerdictInv, OneCloser, Closes, Announces, Undecided
<1> QED BY <1>0, <1>2, <1>3, <1>4

LEMMA DecidingVerdict ==
    ASSUME VerdictInv, [Next]_vars, Deciding PROVE (OneCloser /\ OneVerdict)'
<1>0. PICK s \in Sessions : \/ \E r \in Requests : Confirm(s, r) \/ Cancel(s, r)
                            \/ DecideDequeue(s) \/ DecideNotify(s) \/ DecidePublish(s)
  BY DEF Deciding
<1>1. UNCHANGED exec
  BY <1>0 DEF Confirm, Cancel, Decide, DecideDequeue, DecideNotify, DecidePublish
<1>2. ASSUME NEW q \in Requests, NEW v \in {"confirm", "cancel"}, Decide(s, q, v),
             row[q].status = "pending", row'[q].status # "pending", row'[q].status # "none"
      PROVE  (OneCloser /\ OneVerdict)'
  <2>1. /\ UNCHANGED feed /\ audit'[q] = audit[q] \union {v} /\ sess[s].pc = "idle"
        /\ sess'[s].pc = "dequeue" /\ sess'[s].req = q
        /\ \A r \in Requests \ {q} : audit'[r] = audit[r]
        /\ \A t \in Sessions \ {s} : sess'[t] = sess[t]
    BY <1>2, VerdictTypes DEF Decide, Record, VerdictInv
  <2>2. /\ audit[q] \subseteq {"create"} /\ ~ Announces(q) /\ ~ InFeed(q)
        /\ \A t \in Sessions : ~ Closes(t, q)
    BY <1>2 DEF VerdictInv, OneCloser, Undecided
  <2>3. OneVerdict'
    BY <2>1, <2>2 DEF VerdictInv, OneVerdict
  <2>4. /\ ~ Undecided(q)' /\ ~ Announces(q)' /\ ~ InFeed(q)' /\ exec'[q].pc # "announce"
        /\ \A t \in Sessions : Closes(t, q)' <=> t = s
    BY <1>1, <1>2, <2>1, <2>2 DEF Undecided, Announces, InFeed, Closes
  <2>5. ASSUME NEW r \in Requests \ {q}
        PROVE  /\ Undecided(r)' => Undecided(r)
               /\ \A t \in Sessions : Closes(t, r)' => Closes(t, r)
               /\ audit'[r] = audit[r] /\ exec'[r] = exec[r] /\ (InFeed(r)' <=> InFeed(r))
    BY <1>1, <2>1, UndecidedBefore DEF VerdictInv, InFeed, Closes
  <2>6. OneCloser'
    <3> SUFFICES ASSUME NEW r \in Requests
                 PROVE  /\ (Undecided(r) \/ exec[r].pc = "announce" => audit[r] \subseteq {"create"})'
                        /\ (Announces(r) \/ InFeed(r) => ~ Undecided(r))'
                        /\ (Announces(r) => ~ InFeed(r))'
                        /\ \A t \in Sessions : (Closes(t, r) => ~ Undecided(r) /\ ~ Announces(r) /\ ~ InFeed(r))'
                        /\ \A t, u \in Sessions : (Closes(t, r) /\ Closes(u, r) => t = u)'
      BY DEF OneCloser
    <3>1. CASE r = q
      BY <2>4, <3>1
    <3>2. CASE r # q
      BY <2>5, <3>2 DEF VerdictInv, OneCloser, Announces
    <3> QED BY <3>1, <3>2
  <2> QED BY <2>3, <2>6
<1>3. ASSUME NEW q \in Requests, Confirm(s, q) \/ Cancel(s, q) PROVE (OneCloser /\ OneVerdict)'
  <2>1. row[q].status = "pending" /\ row'[q].status \in {"completed", "canceled"}
    BY <1>3, VerdictTypes
    DEF Confirm, Cancel, CompleteRequest, CompletableBy, CancelRequest, CancelableBy, SetStatus,
        VerdictInv, Row
  <2> QED BY <1>2, <1>3, <2>1 DEF Confirm, Cancel
<1>4. CASE DecideDequeue(s) \/ DecideNotify(s)
  <2>1. \A t \in Sessions : sess'[t].req = sess[t].req /\ (sess'[t].pc # "idle" => sess[t].pc # "idle")
    BY <1>4, VerdictTypes DEF DecideDequeue, DecideNotify, VerdictInv, SessionStates
  <2> QED BY <1>1, <1>4, <2>1, QuietVerdict DEF DecideDequeue, DecideNotify, logVars, Closes, Announces
<1>5. CASE DecidePublish(s)
  <2> DEFINE q == sess[s].req
  <2>1. /\ Publish(q, "removed") /\ UNCHANGED <<audit, row>> /\ q \in Requests /\ Closes(s, q)
        /\ sess'[s].pc = "idle" /\ \A t \in Sessions \ {s} : sess'[t] = sess[t]
    BY <1>5, VerdictTypes DEF DecidePublish, storeVars, VerdictInv, Closes, IdleSession
  <2>2. ~ Undecided(q) /\ ~ Announces(q) /\ ~ InFeed(q) /\ \A t \in Sessions : Closes(t, q) => t = s
    BY <2>1 DEF VerdictInv, OneCloser
  <2> HIDE DEF q
  <2>3. OneVerdict' /\ \A r \in Requests : InFeed(r)' <=> InFeed(r) \/ r = q
    BY <2>1, <2>2, FeedGrows DEF VerdictInv
  <2>4. \A t \in Sessions, r \in Requests : Closes(t, r)' => Closes(t, r) /\ t # s
    BY <2>1 DEF Closes
  <2>5. \A r \in Requests : (Undecided(r)' <=> Undecided(r)) /\ (Announces(r)' <=> Announces(r))
    BY <1>1, <2>1 DEF Undecided, Announces
  <2> QED BY <1>1, <2>1, <2>2, <2>3, <2>4, <2>5 DEF VerdictInv, OneCloser
<1> QED BY <1>0, <1>3, <1>4, <1>5

LEMMA QueuesVerdict ==
    ASSUME VerdictInv, [Next]_vars, Queues PROVE (OneCloser /\ OneVerdict)'
<1>0. PICK q \in Requests : \/ ExpiryFires(q) \/ ExpiryMark(q) \/ ExpiryAnnounce(q)
                            \/ ExpiryPublish(q) \/ DeleteFires(q)
  BY DEF Queues
<1>1. UNCHANGED sess
  BY <1>0 DEF ExpiryFires, ExpiryMark, ExpiryAnnounce, ExpiryPublish, DeleteFires, procVars
<1>2. \A s \in Sessions, r \in Requests : Closes(s, r)' <=> Closes(s, r)
  BY <1>1 DEF Closes
<1>3. \A r \in Requests : Undecided(r)' => Undecided(r)
  BY UndecidedBefore DEF VerdictInv
<1>4. CASE ExpiryFires(q) \/ DeleteFires(q)
  <2>1. \A r \in Requests : exec'[r] = exec[r] \/ exec'[r].pc = "mark"
    BY <1>4, VerdictTypes DEF ExpiryFires, DeleteFires, procVars, VerdictInv
  <2> QED BY <1>2, <1>4, <2>1, QuietVerdict DEF ExpiryFires, DeleteFires, logVars, Announces
<1>5. CASE ExpiryMark(q)
  <2>1. UNCHANGED <<audit, feed>> /\ \A r \in Requests \ {q} : exec'[r] = exec[r]
    BY <1>5, VerdictTypes DEF ExpiryMark, logVars, VerdictInv
  <2>2. CASE q \in Expirable({q}, now)
    <3>1. exec'[q].pc = "announce" /\ row[q].status = "pending" /\ row'[q].status = "expired"
      BY <1>5, <2>2, VerdictTypes
      DEF ExpiryMark, MarkExpired, Expire, Expirable, VerdictInv, ExecStates, Row
    <3>2. /\ audit[q] \subseteq {"create"} /\ ~ InFeed(q) /\ \A s \in Sessions : ~ Closes(s, q)
          /\ ~ Undecided(q)'
      BY <3>1 DEF VerdictInv, OneCloser, Undecided
    <3>3. \A r \in Requests : InFeed(r)' <=> InFeed(r)
      BY <2>1 DEF InFeed
    <3>4. \A r \in Requests \ {q} : Announces(r)' <=> Announces(r)
      BY <2>1 DEF Announces
    <3> QED BY <1>2, <1>3, <2>1, <3>2, <3>3, <3>4 DEF VerdictInv, OneCloser, OneVerdict
  <2>3. CASE q \notin Expirable({q}, now)
    <3>1. exec'[q].pc = "idle"
      BY <1>5, <2>3, VerdictTypes DEF ExpiryMark, VerdictInv, IdleExec
    <3> QED BY <1>2, <2>1, <3>1, QuietVerdict DEF Announces
  <2> QED BY <2>2, <2>3
<1>6. CASE ExpiryAnnounce(q)
  <2>1. /\ exec[q].pc = "announce" /\ exec'[q].pc = "publish" /\ UNCHANGED <<feed, row>>
        /\ audit'[q] = audit[q] \union {"expire"}
        /\ \A r \in Requests \ {q} : exec'[r] = exec[r] /\ audit'[r] = audit[r]
    BY <1>6, VerdictTypes DEF ExpiryAnnounce, Record, storeVars, VerdictInv, ExecStates
  <2>2. audit[q] \subseteq {"create"} /\ ~ Undecided(q)
    BY <2>1 DEF VerdictInv, OneCloser, Announces
  <2>3. OneVerdict'
    BY <2>1, <2>2 DEF VerdictInv, OneVerdict
  <2>4. \A r \in Requests : (InFeed(r)' <=> InFeed(r)) /\ (Announces(r)' <=> Announces(r))
    BY <2>1 DEF InFeed, Announces
  <2> QED BY <1>2, <1>3, <2>1, <2>2, <2>3, <2>4 DEF VerdictInv, OneCloser
<1>7. CASE ExpiryPublish(q)
  <2>1. /\ Publish(q, "removed") /\ UNCHANGED <<audit, row>> /\ Announces(q) /\ exec'[q].pc = "idle"
        /\ \A r \in Requests \ {q} : exec'[r] = exec[r]
    BY <1>7, VerdictTypes DEF ExpiryPublish, storeVars, VerdictInv, Announces, IdleExec
  <2>2. ~ Undecided(q) /\ ~ InFeed(q) /\ \A s \in Sessions : ~ Closes(s, q)
    BY <2>1 DEF VerdictInv, OneCloser
  <2>3. OneVerdict' /\ \A r \in Requests : InFeed(r)' <=> InFeed(r) \/ r = q
    BY <2>1, <2>2, FeedGrows DEF VerdictInv
  <2>4. ~ Announces(q)' /\ \A r \in Requests \ {q} : Announces(r)' <=> Announces(r)
    BY <2>1 DEF Announces
  <2> QED BY <1>2, <1>3, <2>1, <2>2, <2>3, <2>4 DEF VerdictInv, OneCloser
<1> QED BY <1>0, <1>4, <1>5, <1>6, <1>7

LEMMA VerdictStep == VerdictInv /\ [Next]_vars => VerdictInv'
<1> SUFFICES ASSUME VerdictInv, [Next]_vars PROVE (OneCloser /\ OneVerdict)'
  BY BaseStep DEF VerdictInv
<1>1. CASE Polling \/ Browsing \/ Starting \/ Tick \/ UNCHANGED vars
  <2>1. CASE Polling
    BY <2>1, QuietVerdict
    DEF Polling, PollStart, PollSubscribe, PollCheck, PollTake, PollTakeNothing, PollWake,
        PollDisconnect, PollLeave, logVars, Closes, Announces
  <2>2. CASE Browsing
    BY <2>2, QuietVerdict DEF Browsing, BrowserList, BrowserGet, procVars, Closes, Announces
  <2>3. CASE Starting
    BY <2>3, QuietVerdict
    DEF Starting, Start, StartupExpire, StartupClean, StartupList, StartupEnqueue, StartupDone,
        logVars, Closes, Announces
  <2>4. CASE Tick \/ UNCHANGED vars
    BY <2>4, QuietVerdict DEF Tick, vars, procVars, logVars, Closes, Announces
  <2> QED BY <1>1, <2>1, <2>2, <2>3, <2>4
<1>2. CASE Crash
  <2>1. /\ UNCHANGED <<audit, feed>> /\ \A s \in Sessions : sess'[s].pc = "idle"
        /\ \A r \in Requests : exec'[r].pc = "idle"
    BY <1>2 DEF Crash, Fresh, IdleSession, IdleExec
  <2> QED BY <2>1, QuietVerdict DEF Closes, Announces
<1> QED BY <1>1, <1>2, CreatingVerdict, DecidingVerdict, QueuesVerdict DEF Next

\* One verdict is recorded and one removal told to the streams, for any number
\* of sessions that race with the expiry and the restarts (RouteV2APIConfirm,
\* MarkExpired, executeRequestExpiryEvent).
THEOREM VerdictIsOne == Spec => []OneVerdict
<1>1. Init => VerdictInv
  <2>1. Init => OneCloser /\ OneVerdict
    BY DEF Init, Fresh, IdleSession, IdleExec, OneCloser, OneVerdict, Closes, Announces, InFeed
  <2> QED BY <2>1, BaseInit DEF VerdictInv
<1>2. VerdictInv => OneVerdict
  BY DEF VerdictInv
<1> QED BY <1>1, <1>2, VerdictStep, PTL DEF Spec
=============================================================================
