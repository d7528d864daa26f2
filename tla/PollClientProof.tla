-------------------------- MODULE PollClientProof --------------------------
(***************************************************************************)
(* Machine-checked proofs about PollClient, for any timeouts and delays    *)
(* that PollAssumption allows.                                             *)
(***************************************************************************)
EXTENDS PollClient, TLAPS

Calm == trouble \intersect {"stalled", "silent"} = {}

\* While the server answers as it should, and a tab has expired nothing, every
\* instant of the call is bounded: its creation by Latency, the pending row by
\* its expiry event, a poll by the answer that is due, a pause by its timer.
\* Only the last conjunct speaks of the deadline the client chose for itself.
Timely ==
    /\ call.pc \in {"create", "accepted"} =>
         owed = Latency /\ clock <= Latency /\ call.deadline = CallTimeout(call.asked, call.agent)
    /\ call.pc = "create" => request = [status |-> "none", expires |-> 0]
    /\ call.pc \in {"accepted", "poll", "backoff"} =>
         /\ request.status \in {"pending", "completed", "over"}
         /\ request.expires <= Latency + Granted(call.asked)
    /\ call.pc = "accepted" => request.expires <= clock + Granted(call.asked)
    /\ request.status = "pending" => clock <= request.expires + QueueDelay
    /\ call.pc = "poll" /\ request.status # "pending" =>
         clock <= owed /\ owed <= request.expires + QueueDelay + LongestWait + 2 * Latency
    /\ call.pc = "backoff" =>
         clock <= wait.until /\ wait.until <= request.expires + QueueDelay + LongestWait
    /\ call.pc \in {"poll", "backoff"} /\ call.asked >= Second =>
         \/ call.deadline > PollHorizon
         \/ call.deadline + Latency >= request.expires + PollGrace

PollInv == PollTypeOK /\ VerdictFirst /\ (Calm => Timely)

\* The types, one variable at a time; a time is a natural number.
Call == [pc : {"create", "accepted", "poll", "backoff", "end"}, asked : Asked,
         agent : BOOLEAN, deadline : Nat, outcome : Outcomes]
Row == [status : {"none", "pending", "completed", "over", "collected"}, expires : Nat]

LEMMA Times ==
    /\ Asked \subseteq Nat
    /\ {Second, Longest, ServerDefault, ClientDefault, AgentDefault,
        PollGrace, QueueDelay, Latency, LongestWait, PollHorizon} \subseteq Nat
    /\ Second > 0 /\ PollGrace > 0 /\ LongestWait > 0
    /\ QueueDelay + 3 * Latency + LongestWait < PollGrace
BY PollAssumption

LEMMA Deadlines ==
    ASSUME NEW asked \in Asked, NEW agent \in BOOLEAN
    PROVE  /\ CallTimeout(asked, agent) \in Nat /\ LocalTimeout(asked) \in Nat /\ Granted(asked) \in Nat
           /\ asked >= Second => /\ LocalTimeout(asked) = Granted(asked) + PollGrace
                                 /\ CallTimeout(asked, agent) > PollHorizon \/
                                    CallTimeout(asked, agent) = Granted(asked) + PollGrace
           /\ CallTimeout(asked, agent) <= Latency /\ Latency <= PollHorizon =>
                CallTimeout(asked, agent) = AgentDefault /\ asked = 0
BY Times DEF CallTimeout, LocalTimeout, Granted

LEMMA Earliest ==
    ASSUME NEW a \in Nat, NEW b \in Nat
    PROVE  Earlier(a, b) \in {a, b} /\ Earlier(a, b) <= a /\ Earlier(a, b) <= b
BY DEF Earlier

LEMMA PollInitially == PollInit => PollInv
<1> SUFFICES ASSUME PollInit PROVE PollInv
  OBVIOUS
<1>1. PICK asked \in Asked, agent \in BOOLEAN :
        call = [pc |-> "create", asked |-> asked, agent |-> agent,
                deadline |-> CallTimeout(asked, agent), outcome |-> "none"]
  BY DEF PollInit
<1>2. PollTypeOK
  BY <1>1, Times, Deadlines DEF PollInit, PollTypeOK, Outcomes
<1>3. Timely
  BY <1>1, Times DEF PollInit, Timely
<1>4. VerdictFirst
  BY <1>1 DEF VerdictFirst
<1> QED BY <1>2, <1>3, <1>4 DEF PollInv

-----------------------------------------------------------------------------
(* Every step keeps the invariant *)

LEMMA Now ==
    ASSUME PollInv
    PROVE  /\ clock \in Nat /\ clock <= PollHorizon /\ owed \in Nat /\ call \in Call /\ request \in Row
           /\ wait \in [until : Nat, backoff : 1 .. LongestWait]
           /\ trouble \subseteq {"stalled", "silent", "refused", "broken"}
           /\ call.asked \in Asked /\ call.agent \in BOOLEAN /\ call.deadline \in Nat
           /\ (call.pc = "end" <=> call.outcome # "none")
BY Times DEF PollInv, PollTypeOK, Call, Row

\* A step that ends the call.
LEMMA EndKeeps ==
    ASSUME PollInv, NEW outcome \in Outcomes \ {"none"}, Ends(outcome),
           clock' = clock, owed' = owed, wait' = wait, request' \in Row,
           trouble \subseteq trouble', trouble' \subseteq {"stalled", "silent", "refused", "broken"},
           request'.status = "pending" => request' = request,
           outcome = "timeout" /\ Calm' => call.asked < Second /\ request'.expires + PollGrace > call.deadline
    PROVE  PollInv'
<1>1. /\ call' \in Call /\ call'.pc = "end" /\ call'.outcome = outcome
      /\ call'.asked = call.asked /\ call'.deadline = call.deadline
  BY Now DEF Ends, Call
<1>2. PollTypeOK'
  BY <1>1, Now DEF PollInv, PollTypeOK, Call, Row
<1>3. VerdictFirst'
  BY <1>1 DEF VerdictFirst, Calm
<1>4. Calm' => Timely'
  BY <1>1 DEF PollInv, Timely, Calm
<1> QED BY <1>2, <1>3, <1>4 DEF PollInv

\* A step after which the call is still under way.
LEMMA GoesOn ==
    ASSUME PollInv, call.pc # "end", call' \in Call, call'.pc # "end", call'.outcome = "none",
           clock' \in 0 .. PollHorizon, owed' \in Nat, request' \in Row,
           wait' \in [until : Nat, backoff : 1 .. LongestWait],
           trouble' \subseteq {"stalled", "silent", "refused", "broken"}, Calm' => Timely'
    PROVE  PollInv'
<1>1. PollTypeOK'
  BY DEF PollTypeOK, Call, Row
<1>2. VerdictFirst'
  BY DEF VerdictFirst
<1> QED BY <1>1, <1>2 DEF PollInv

LEMMA InsertKeeps == ASSUME PollInv, InsertRequest PROVE PollInv'
<1>1. /\ call' \in Call /\ call'.pc = "accepted" /\ call'.outcome = call.outcome /\ call.pc = "create"
      /\ call'.asked = call.asked /\ call'.agent = call.agent /\ call'.deadline = call.deadline
  BY Now DEF InsertRequest, Call
<1>2. /\ request' = [status |-> "pending", expires |-> clock + Granted(call.asked)]
      /\ UNCHANGED <<clock, wait, owed, trouble>>
  BY DEF InsertRequest
<1>3. request' \in Row /\ request'.status = "pending" /\ request'.expires = clock + Granted(call.asked)
  BY <1>2, Now, Deadlines DEF Row
<1>4. ASSUME Calm' PROVE Timely'
  <2>1. owed = Latency /\ clock <= Latency /\ call.deadline = CallTimeout(call.asked, call.agent)
    BY <1>1, <1>2, <1>4 DEF PollInv, Timely, Calm
  <2>2. Granted(call.asked) \in Nat /\ clock \in Nat
    BY Now, Deadlines
  <2> QED BY <1>1, <1>2, <1>3, <2>1, <2>2, Times DEF Timely
<1> QED BY <1>1, <1>2, <1>3, <1>4, Now, GoesOn

LEMMA FinishKeeps == ASSUME PollInv, NEW s \in {"completed", "over"}, Finish(s) PROVE PollInv'
<1>1. /\ request' \in Row /\ request'.status = s /\ request'.expires = request.expires
      /\ request.status = "pending" /\ UNCHANGED <<clock, call, wait, trouble>>
  BY Now DEF Finish, Row
<1>2. owed' = IF call.pc = "poll" THEN clock + Latency ELSE owed
  BY DEF Finish
<1>3. owed' \in Nat
  BY <1>2, Now, Times
<1>4. ASSUME Calm' PROVE Timely'
  <2>1. Timely
    BY <1>1, <1>4 DEF PollInv, Calm
  <2>2. call.pc # "create"
    BY <1>1, <2>1 DEF Timely
  <2>3. request.expires \in Nat
    BY Now DEF Row
  <2> QED BY <1>1, <1>2, <2>1, <2>2, <2>3, Now, Times DEF Timely
<1>5. PollTypeOK'
  BY <1>1, <1>3, Now DEF PollInv, PollTypeOK, Row
<1> QED BY <1>1, <1>4, <1>5 DEF PollInv, VerdictFirst, Calm

LEMMA TroubleKeeps == ASSUME PollInv, ExpireSilently \/ StallServer PROVE PollInv'
<1>1. /\ request' \in Row /\ request'.expires = request.expires /\ ~ Calm'
      /\ trouble' \subseteq {"stalled", "silent", "refused", "broken"}
      /\ UNCHANGED <<clock, call, wait, owed>>
  BY Now DEF ExpireSilently, StallServer, Row, Calm
<1> QED BY <1>1, Now DEF PollInv, PollTypeOK, Row, VerdictFirst, Calm

LEMMA AcceptKeeps == ASSUME PollInv, Accepted PROVE PollInv'
<1> DEFINE local == clock + LocalTimeout(call.asked)
           deadline == Earlier(call.deadline, local)
<1>1. local \in Nat /\ deadline \in {call.deadline, local}
  BY Now, Deadlines, Earliest
<1>2. call' = [call EXCEPT !.pc = "poll", !.deadline = deadline]
  BY DEF Accepted
<1> HIDE DEF deadline
<1>3. /\ call' \in Call /\ call'.pc = "poll" /\ call'.outcome = call.outcome /\ call.pc = "accepted"
      /\ call'.asked = call.asked /\ call'.agent = call.agent /\ call'.deadline = deadline
  BY <1>1, <1>2, Now DEF Accepted, Call
<1>4. owed' = clock + Latency /\ owed' \in Nat /\ UNCHANGED <<clock, wait, request, trouble>>
  BY Now, Times DEF Accepted, SendPoll
<1>5. ASSUME Calm' PROVE Timely'
  <2>1. Timely
    BY <1>4, <1>5 DEF PollInv, Calm
  <2>2. /\ clock <= Latency /\ call.deadline = CallTimeout(call.asked, call.agent)
        /\ request.status \in {"pending", "completed", "over"} /\ request.expires \in Nat
        /\ request.expires <= Latency + Granted(call.asked)
        /\ request.expires <= clock + Granted(call.asked)
    BY <1>3, <2>1, Now DEF Timely, Row
  <2>3. call.asked >= Second =>
          deadline > PollHorizon \/ deadline + Latency >= request.expires + PollGrace
    BY <1>1, <2>2, Now, Times, Deadlines
  <2> QED BY <1>3, <1>4, <2>1, <2>2, <2>3, Now, Times DEF Timely
<1> QED BY <1>3, <1>4, <1>5, Now, GoesOn

LEMMA PauseKeeps == ASSUME PollInv, AnswerPending PROVE PollInv'
<1> DEFINE next == Earlier(2 * wait.backoff, LongestWait)
<1>1. /\ wait.backoff \in 1 .. LongestWait /\ clock \in Nat /\ next \in 1 .. LongestWait
  BY Now, Times DEF Earlier
<1>2. wait' = [until |-> clock + wait.backoff, backoff |-> next]
  BY DEF AnswerPending
<1> HIDE DEF next
<1>3. /\ wait' \in [until : Nat, backoff : 1 .. LongestWait]
      /\ wait'.until = clock + wait.backoff /\ wait'.until <= clock + LongestWait
  BY <1>1, <1>2, Times
<1>4. /\ call' \in Call /\ call'.pc = "backoff" /\ call'.outcome = call.outcome /\ call.pc = "poll"
      /\ call'.asked = call.asked /\ call'.agent = call.agent /\ call'.deadline = call.deadline
      /\ request.status = "pending" /\ UNCHANGED <<clock, request, owed, trouble>>
  BY Now DEF AnswerPending, Call
<1>5. ASSUME Calm' PROVE Timely'
  <2>1. Timely
    BY <1>4, <1>5 DEF PollInv, Calm
  <2>2. clock <= request.expires + QueueDelay /\ request.expires \in Nat
    BY <1>4, <2>1, Now DEF Timely, Row
  <2> QED BY <1>1, <1>3, <1>4, <2>1, <2>2, Now, Times DEF Timely
<1> QED BY <1>3, <1>4, <1>5, Now, GoesOn

LEMMA AgainKeeps == ASSUME PollInv, PollAgain PROVE PollInv'
<1>1. /\ call' \in Call /\ call'.pc = "poll" /\ call'.outcome = call.outcome /\ call.pc = "backoff"
      /\ call'.asked = call.asked /\ call'.agent = call.agent /\ call'.deadline = call.deadline
      /\ UNCHANGED <<clock, wait, request, trouble>>
  BY Now DEF PollAgain, Call
<1>2. owed' = clock + Latency /\ owed' \in Nat
  BY Now, Times DEF PollAgain, SendPoll
<1>3. ASSUME Calm' PROVE Timely'
  <2>1. Timely
    BY <1>1, <1>3 DEF PollInv, Calm
  <2>2. /\ clock <= request.expires + QueueDelay + LongestWait /\ request.expires \in Nat
    BY <1>1, <2>1, Now, Times DEF Timely, Row
  <2> QED BY <1>1, <1>2, <2>1, <2>2, Now, Times DEF Timely
<1> QED BY <1>1, <1>2, <1>3, Now, GoesOn

LEMMA OverKeeps == ASSUME PollInv, RefuseRequest \/ AnswerFinal \/ Break PROVE PollInv'
<1>1. [request EXCEPT !.status = "collected"] \in Row
  BY Now DEF Row
<1>2. CASE RefuseRequest
  BY <1>2, Now, EndKeeps DEF RefuseRequest, Outcomes
<1>3. CASE AnswerFinal
  <2>1. Reads(request.status) \in {"result", "error"}
    BY DEF Reads
  <2>2. request'.status = "collected" /\ request' \in Row
    BY <1>1, <1>3, Now DEF AnswerFinal, Row
  <2> QED BY <1>3, <2>1, <2>2, Now, EndKeeps DEF AnswerFinal, Outcomes
<1>4. CASE Break
  <2>1. request' \in Row /\ (request'.status = "pending" => request' = request)
    BY <1>1, <1>4, Now DEF Break, Row
  <2> QED BY <1>4, <2>1, Now, EndKeeps DEF Break, Outcomes
<1> QED BY <1>2, <1>3, <1>4

\* The heart of it: the client's own deadline is later than all of these bounds.
LEMMA TimeOutKeeps == ASSUME PollInv, TimeOut PROVE PollInv'
<1>1. /\ call.pc \in {"create", "accepted", "poll", "backoff"} /\ clock >= call.deadline
      /\ Ends("timeout") /\ UNCHANGED <<clock, wait, request, owed, trouble>>
  BY Now DEF TimeOut, Call
<1>2. ASSUME Calm' PROVE call.asked < Second /\ request.expires + PollGrace > call.deadline
  <2>1. Timely /\ request.expires \in Nat
    BY <1>1, <1>2, Now DEF PollInv, Calm, Row
  <2>2. CASE call.pc \in {"create", "accepted"}
    <3>1. clock <= Latency /\ call.deadline = CallTimeout(call.asked, call.agent)
      BY <2>1, <2>2 DEF Timely
    <3>2. call.asked \in Nat /\ call.agent \in BOOLEAN /\ clock \in Nat /\ clock <= PollHorizon
      BY Now, Times
    <3>3. Latency < PollGrace
      BY Times
    <3>4. CASE ~ call.agent
      BY <1>1, <3>1, <3>2, <3>4, Times DEF CallTimeout
    <3>5. CASE call.agent /\ call.asked > 0
      BY <1>1, <3>1, <3>2, <3>3, <3>5, Times DEF CallTimeout
    <3>6. CASE call.agent /\ call.asked = 0
      BY <1>1, <2>1, <3>1, <3>2, <3>3, <3>6, Times DEF CallTimeout
    <3> QED BY <3>2, <3>4, <3>5, <3>6
  <2>3. CASE call.pc \in {"poll", "backoff"}
    <3>1. clock <= request.expires + QueueDelay + LongestWait + 2 * Latency
      BY <2>1, <2>3, Now, Times DEF Timely
    <3>2. call.asked >= Second => call.deadline > PollHorizon \/
                                  call.deadline + Latency >= request.expires + PollGrace
      BY <2>1, <2>3 DEF Timely
    <3>3. call.asked \in Nat
      BY Now, Times
    <3> QED BY <1>1, <2>1, <3>1, <3>2, <3>3, Now, Times
  <2> QED BY <1>1, <2>2, <2>3
<1> QED BY <1>1, <1>2, Now, EndKeeps DEF Outcomes

LEMMA TickKeeps == ASSUME PollInv, PollTick PROVE PollInv'
<1>1. /\ clock' = clock + 1 /\ clock' \in 0 .. PollHorizon /\ call.pc # "end"
      /\ UNCHANGED <<call, wait, request, owed, trouble>>
  BY Now, Times DEF PollTick
<1>2. ASSUME Calm' PROVE Timely'
  <2>1. Timely /\ Calm
    BY <1>1, <1>2 DEF PollInv, Calm
  <2>2. /\ call.pc \in {"create", "accepted"} => clock < owed
        /\ call.pc = "poll" /\ request.status # "pending" => clock < owed
        /\ request.status = "pending" => clock < request.expires + QueueDelay
        /\ call.pc = "backoff" => clock < wait.until
    BY <2>1, Now, Times DEF PollTick, AnswerDue, EventDue, Calm, Row
  <2>3. request.expires \in Nat /\ wait.until \in Nat /\ Granted(call.asked) \in Nat
    BY Now, Deadlines DEF Row
  <2> QED BY <1>1, <2>1, <2>2, <2>3, Now, Times DEF Timely
<1>3. PollTypeOK' /\ VerdictFirst'
  BY <1>1 DEF PollInv, PollTypeOK, VerdictFirst
<1> QED BY <1>2, <1>3 DEF PollInv

LEMMA PollStep == PollInv /\ [PollNext]_pollVars => PollInv'
<1> SUFFICES ASSUME PollInv, [PollNext]_pollVars PROVE PollInv'
  OBVIOUS
<1>1. CASE Approve \/ Deny \/ ExpireByEvent
  BY <1>1, FinishKeeps DEF Approve, Deny, ExpireByEvent
<1>2. CASE UNCHANGED pollVars
  BY <1>2 DEF pollVars, PollInv, PollTypeOK, VerdictFirst, Calm, Timely
<1> QED BY <1>1, <1>2, InsertKeeps, TroubleKeeps, AcceptKeeps, PauseKeeps, AgainKeeps,
           OverKeeps, TimeOutKeeps, TickKeeps DEF PollNext

LEMMA PollInductive == PollSpec => []PollInv
BY PollInitially, PollStep, PTL DEF PollSpec

-----------------------------------------------------------------------------
(* What follows *)

\* Whatever the delays are, as long as the grace exceeds their sum, a client that
\* names a timeout the server understands hears the verdict before its own
\* deadline (resultTimeoutGrace in GetResult, signTimeout).
THEOREM VerdictComesFirst == PollSpec => []VerdictFirst
BY PollInductive, PTL DEF PollInv
=============================================================================
