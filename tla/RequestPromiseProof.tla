------------------------ MODULE RequestPromiseProof ------------------------
(***************************************************************************)
(* Proof that RequestFlow implements RequestPromise: every step on the     *)
(* tables is one step of the promise, every other step leaves it alone.    *)
(***************************************************************************)
EXTENDS RequestSafetyProof

\* A row that was never written carries no response.
Blank == \A r \in Requests : row[r].status = "none" => row[r].result = NoResult

LEMMA BlankStep == ASSUME Base, Blank, [Next]_vars PROVE Blank'
<1>0. row \in [Requests -> Row]
  BY DEF Base, TypeOK, StoreTypeOK
<1> SUFFICES ASSUME NEW r \in Requests, row'[r].status = "none" PROVE row'[r] = row[r]
  BY DEF Blank
<1>1. ASSUME NEW q \in Requests, CreateInsert(q) PROVE row'[r] = row[r]
  BY <1>0, <1>1 DEF CreateInsert, CreateRequest
<1>2. ASSUME NEW s \in Sessions, NEW q \in Requests, Confirm(s, q) PROVE row'[r] = row[r]
  BY <1>0, <1>2 DEF Confirm, CompleteRequest
<1>3. ASSUME NEW s \in Sessions, NEW q \in Requests, Cancel(s, q) PROVE row'[r] = row[r]
  BY <1>0, <1>3 DEF Cancel, CancelRequest, SetStatus, Row
<1>4. ASSUME NEW S, NEW t, Expire(S, t) PROVE row'[r] = row[r]
  BY <1>0, <1>4 DEF Expire, Row
<1>5. ASSUME NEW q \in Requests, ExpiryMark(q) PROVE row'[r] = row[r]
  BY <1>4, <1>5 DEF ExpiryMark, MarkExpired
<1>6. ASSUME NEW p \in Pollers, PollTake(p) PROVE row'[r] = row[r]
  BY <1>0, <1>6 DEF PollTake, GetAndDeleteTerminalRequest, SetStatus, Row
<1>7. ASSUME NEW S, NEW t, DeleteBefore(S, t) PROVE row'[r] = row[r]
  BY <1>0, <1>7 DEF DeleteBefore, Row
<1> QED BY RowSteps, <1>1, <1>2, <1>3, <1>4, <1>5, <1>6, <1>7

\* Only Tick moves the clock.
LEMMA ClockMoves == ASSUME [Next]_vars PROVE UNCHANGED now \/ Tick
BY DEF Next, vars, storeVars, Creating, CreateInsert, CreateEnqueue, CreatePublish, Deciding,
   Confirm, Cancel, Decide, DecideDequeue, DecideNotify, DecidePublish, Polling, PollStart,
   PollSubscribe, PollCheck, PollTake, PollTakeNothing, PollWake, PollDisconnect, PollLeave,
   Browsing, BrowserList, BrowserGet, Queues, ExpiryFires, ExpiryMark, ExpiryAnnounce,
   ExpiryPublish, DeleteFires, Starting, Start, StartupExpire, StartupClean, StartupList,
   StartupEnqueue, StartupDone, Crash

-----------------------------------------------------------------------------
\* The tables as RequestPromise sees them.
StatusOf == [r \in Requests |-> row[r].status]
DeadlineOf == [r \in Requests |-> row[r].expires]
ResultOf == [r \in Requests |-> row[r].result]

\* A sweep of the rows that have lapsed, and one of those kept long enough.
LEMMA SweepLapses ==
    ASSUME Base, NEW S \in SUBSET Requests, NEW t \in Nat, t <= now, Expire(S, t),
           UNCHANGED <<answers, now>>
    PROVE  \E T \in SUBSET Requests : Promise!Lapse(T)
<1>0. row \in [Requests -> Row] /\ now \in Nat
  BY DEF Base, TypeOK, StoreTypeOK
<1> DEFINE T == Expirable(S, t)
<1>1. T \in SUBSET Requests
  BY DEF Expirable
<1>2. \A r \in T : row[r].status = "pending" /\ row[r].expires < now
  BY <1>0 DEF Expirable, Row
<1>3. \A r \in Requests : /\ row'[r].status = IF r \in T THEN "expired" ELSE row[r].status
                          /\ row'[r].expires = row[r].expires
                          /\ row'[r].result = row[r].result
  BY <1>0 DEF Expire, Row
<1> QED BY <1>1, <1>2, <1>3 DEF Promise!Lapse

LEMMA SweepForgets ==
    ASSUME Base, NEW S \in SUBSET Requests, NEW t \in Nat, t <= now,
           DeleteBefore(S, Minus10Minutes(t)), UNCHANGED <<answers, now>>
    PROVE  \E T \in SUBSET Requests : Promise!Forget(T)
<1>0. row \in [Requests -> Row] /\ now \in Nat
  BY DEF Base, TypeOK, StoreTypeOK
<1> DEFINE T == {r \in S : DeletableBefore(r, Minus10Minutes(t))}
<1>1. T \in SUBSET Requests
  OBVIOUS
<1>2. ASSUME NEW r \in T PROVE row[r].status \in Terminal /\ row[r].expires < now
  <2>1. row[r].expires \in Nat
    BY <1>0 DEF Row
  <2> QED BY <1>0, <2>1, RetentionAssumption DEF DeletableBefore, Minus10Minutes
<1>3. \A r \in Requests : /\ row'[r].status = IF r \in T THEN "gone" ELSE row[r].status
                          /\ row'[r].expires = row[r].expires
                          /\ row'[r].result = row[r].result
  BY <1>0 DEF DeleteBefore, Row
<1> QED BY <1>1, <1>2, <1>3 DEF Promise!Forget, Promise!Terminal, Terminal

LEMMA CreateSubmits ==
    ASSUME Base, Blank, NEW r \in Requests, CreateInsert(r), UNCHANGED <<answers, now>>
    PROVE  Promise!Submit(r)
<1>0. row \in [Requests -> Row]
  BY DEF Base, TypeOK, StoreTypeOK
<1>1. PICK t \in Timeouts : CreateRequest(r, t)
  BY DEF CreateInsert
<1>2. /\ row[r].status = "none" /\ row[r].result = NoResult
      /\ row'[r].status = "pending" /\ row'[r].expires = now + t /\ row'[r].result = NoResult
      /\ \A q \in Requests : q # r => row'[q] = row[q]
  BY <1>0, <1>1 DEF CreateRequest, Blank
<1> QED BY <1>2 DEF Promise!Submit

LEMMA ConfirmApproves ==
    ASSUME Base, NEW r \in Requests, NEW s \in Sessions, Confirm(s, r), UNCHANGED <<answers, now>>
    PROVE  Promise!Approve(r, s)
<1>0. row \in [Requests -> Row] /\ now \in Nat
  BY DEF Base, TypeOK, StoreTypeOK
<1>1. /\ row[r].status = "pending" /\ Owner[r] = SessionUser[s] /\ now <= row[r].expires
      /\ row'[r].status = "completed" /\ row'[r].expires = row[r].expires /\ row'[r].result = s
      /\ \A q \in Requests : q # r => row'[q] = row[q]
  BY <1>0 DEF Confirm, CompleteRequest, CompletableBy, Row
<1> QED BY <1>1 DEF Promise!Approve

LEMMA CancelRefuses ==
    ASSUME Base, NEW r \in Requests, NEW s \in Sessions, Cancel(s, r), UNCHANGED <<answers, now>>
    PROVE  Promise!Refuse(r)
<1>0. row \in [Requests -> Row]
  BY DEF Base, TypeOK, StoreTypeOK
<1>1. /\ row[r].status = "pending" /\ Owner[r] = SessionUser[s]
      /\ row'[r].status = "canceled" /\ row'[r].expires = row[r].expires
      /\ row'[r].result = row[r].result
      /\ \A q \in Requests : q # r => row'[q] = row[q]
  BY <1>0 DEF Cancel, CancelRequest, CancelableBy, SetStatus, Row
<1> QED BY <1>1 DEF Promise!Refuse

LEMMA TakeCollects ==
    ASSUME Base, TakersSawVerdict, NEW p \in Pollers, PollTake(p),
           NEW r \in Requests, r = poll[p].req
    PROVE  Promise!Collect(r)
<1>0. row \in [Requests -> Row] /\ answers \in [Requests -> Nat]
  BY DEF Base, TypeOK, StoreTypeOK
<1>1. /\ row[r].status \in Terminal
      /\ row'[r].status = "gone" /\ row'[r].expires = row[r].expires
      /\ row'[r].result = row[r].result
      /\ \A q \in Requests : q # r => row'[q] = row[q]
      /\ answers' = [answers EXCEPT ![r] = @ + 1] /\ now' = now
  BY <1>0 DEF PollTake, TakersSawVerdict, GetAndDeleteTerminalRequest, Takeable, Exists, SetStatus,
     Row
<1> QED BY <1>0, <1>1 DEF Promise!Collect, Promise!Terminal, Terminal

\* Every step of the server is a step of the promise or leaves it alone.
LEMMA StepKeepsPromise ==
    ASSUME Base, Blank, TakersSawVerdict, [Next]_vars
    PROVE  [Promise!Next]_(Promise!pvars)
<1>1. CASE \E p \in Pollers : PollTake(p)
  <2> PICK p \in Pollers : PollTake(p)
    BY <1>1
  <2>1. PICK r \in Requests : r = poll[p].req
    BY DEF Base, ProcessesWork, PollTake
  <2>2. Promise!Collect(r)
    BY <2>1, TakeCollects
  <2> QED BY <2>2 DEF Promise!Next
<1>2. CASE Tick
  <2>1. Promise!TimePasses
    BY <1>2 DEF Tick, logVars, Promise!TimePasses
  <2> QED BY <2>1 DEF Promise!Next
<1>3. CASE UNCHANGED <<answers, now>>
  <2>1. CASE UNCHANGED row
    BY <1>3, <2>1 DEF Promise!pvars
  <2>2. ASSUME NEW S \in SUBSET Requests, NEW t \in Nat, t <= now, Expire(S, t)
        PROVE  Promise!Next
    BY <1>3, <2>2, SweepLapses DEF Promise!Next
  <2>3. ASSUME NEW q \in Requests, ExpiryMark(q) PROVE Promise!Next
    <3>1. now \in Nat /\ now <= now /\ {q} \in SUBSET Requests
      BY DEF Base, TypeOK, StoreTypeOK
    <3> QED BY <2>2, <2>3, <3>1 DEF ExpiryMark, MarkExpired
  <2>4. ASSUME NEW S \in SUBSET Requests, NEW t \in Nat, t <= now,
               DeleteBefore(S, Minus10Minutes(t))
        PROVE  Promise!Next
    BY <1>3, <2>4, SweepForgets DEF Promise!Next
  <2>5. ASSUME NEW q \in Requests, CreateInsert(q) PROVE Promise!Next
    BY <1>3, <2>5, CreateSubmits DEF Promise!Next
  <2>6. ASSUME NEW s \in Sessions, NEW q \in Requests, Confirm(s, q) \/ Cancel(s, q)
        PROVE  Promise!Next
    BY <1>3, <2>6, ConfirmApproves, CancelRefuses DEF Promise!Next
  <2> QED BY RowSteps, <1>1, <2>1, <2>2, <2>3, <2>4, <2>5, <2>6
<1> QED BY AnswersMove, ClockMoves, <1>1, <1>2, <1>3

\* The server implements the promise: one verdict, given by a session of the
\* owner before the deadline or by the clock after it, and one answer.
THEOREM ServerKeepsPromise == Spec => PromiseKept
<1> DEFINE I == Base /\ Blank /\ TakersSawVerdict
<1>1. Init => I
  <2>1. Init => Blank /\ TakersSawVerdict
    BY DEF Init, StoreInit, Fresh, IdlePoll, Blank, TakersSawVerdict
  <2> QED BY <2>1, BaseInit
<1>2. I /\ [Next]_vars => I'
  BY BaseStep, BlankStep, TakersStep
<1>3. Init => Promise!Init
  BY DEF Init, StoreInit, Promise!Init
<1>4. I /\ [Next]_vars => [Promise!Next]_(Promise!pvars)
  BY StepKeepsPromise
<1> QED BY <1>1, <1>2, <1>3, <1>4, PTL DEF Spec, PromiseKept, Promise!Spec
=============================================================================
