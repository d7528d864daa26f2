----------------------------- MODULE PollClient -----------------------------
(***************************************************************************)
(* One call of Client.Execute (internal/clientcore/operations.go) against  *)
(* the server's request row: the request is created, then polled until it  *)
(* is over or until a deadline of the client's own.  Time is counted in    *)
(* ticks of the shortest backoff.                                          *)
(***************************************************************************)
EXTENDS Naturals

CONSTANTS Asked,         \* timeouts a caller may set; 0 is unset
          Second,        \* the shortest timeout the server understands
          Longest,       \* the longest one it accepts (24 hours)
          ServerDefault, \* Config.RequestTimeout
          ClientDefault, \* defaultResultTimeout (15 minutes)
          AgentDefault,  \* the ssh-agent's (5 minutes)
          PollGrace,     \* resultTimeoutGrace (30 seconds)
          QueueDelay,    \* how late the expiry event runs (5 seconds)
          Latency,       \* in which an undisturbed server answers
          LongestWait,   \* maxBackoff (2 seconds)
          PollHorizon    \* bound on the clock

ASSUME PollAssumption ==
    /\ Asked \subseteq Nat
    /\ {Second, Longest, ServerDefault, ClientDefault, AgentDefault,
        PollGrace, QueueDelay, Latency, LongestWait, PollHorizon} \subseteq Nat \ {0}
    /\ QueueDelay + 3 * Latency + LongestWait < PollGrace

VARIABLES clock,    \* ticks since the caller started
          call,     \* [pc, asked, agent, deadline, outcome]
          wait,     \* [until, backoff]: of the poll loop's timer
          request,  \* [status, expires]: the row
          owed,     \* when the answer in flight is due, unless the server stalls
          trouble   \* history: what went wrong outside the client

pollVars == <<clock, call, wait, request, owed, trouble>>

Outcomes == {"none", "result", "failed", "error", "timeout"}

PollTypeOK ==
    /\ clock \in 0 .. PollHorizon
    /\ call \in [pc : {"create", "accepted", "poll", "backoff", "end"}, asked : Asked,
                 agent : BOOLEAN, deadline : Nat, outcome : Outcomes]
    /\ wait \in [until : Nat, backoff : 1 .. LongestWait]
    /\ request \in [status : {"none", "pending", "completed", "over", "collected"}, expires : Nat]
    /\ owed \in Nat
    /\ trouble \subseteq {"stalled", "silent", "refused", "broken"}
    /\ call.pc = "end" <=> call.outcome # "none"

\* Mutant: the client gives up when the server would.
LocalTimeoutTight(asked) == IF asked > 0 THEN asked ELSE ClientDefault

\* GetResult's local deadline.
LocalTimeout(asked) == IF asked > 0 THEN asked + PollGrace ELSE ClientDefault

\* revaulterSSHAgent.signTimeout, which bounds the whole call; Execute has no
\* other bound while it creates the request.
CallTimeout(asked, agent) ==
    IF ~ agent THEN PollHorizon + 1
    ELSE IF asked > 0 THEN asked + PollGrace ELSE AgentDefault

\* RequestCreateBody.GetTimeout and its default: less than a second is unset.
Granted(asked) == IF asked < Second THEN ServerDefault ELSE asked

Earlier(a, b) == IF a < b THEN a ELSE b

PollInit ==
    /\ clock = 0
    /\ \E asked \in Asked, agent \in BOOLEAN :
         call = [pc |-> "create", asked |-> asked, agent |-> agent,
                 deadline |-> CallTimeout(asked, agent), outcome |-> "none"]
    /\ wait = [until |-> 0, backoff |-> 1]
    /\ request = [status |-> "none", expires |-> 0]
    /\ owed = Latency
    /\ trouble = {}

Ends(outcome) == call' = [call EXCEPT !.pc = "end", !.outcome = outcome]

-----------------------------------------------------------------------------
(* The server *)

InsertRequest ==
    /\ call.pc = "create" /\ request.status = "none" /\ call.asked <= Longest
    /\ request' = [status |-> "pending", expires |-> clock + Granted(call.asked)]
    /\ call' = [call EXCEPT !.pc = "accepted"]
    /\ UNCHANGED <<clock, wait, owed, trouble>>

RefuseRequest ==
    /\ call.pc = "create" /\ call.asked > Longest
    /\ trouble' = trouble \union {"refused"}
    /\ Ends("error")
    /\ UNCHANGED <<clock, wait, request, owed>>

\* An answer is due to a long poll that the end of the request wakes up.
Finish(status) ==
    /\ request.status = "pending"
    /\ request' = [request EXCEPT !.status = status]
    /\ owed' = IF call.pc = "poll" THEN clock + Latency ELSE owed
    /\ UNCHANGED <<clock, call, wait, trouble>>

Approve == clock < request.expires /\ Finish("completed")
Deny == clock < request.expires /\ Finish("over")
ExpireByEvent == clock >= request.expires /\ Finish("over")

\* A tab that lists the requests expires the row and wakes up nobody.
ExpireSilently ==
    /\ request.status = "pending" /\ clock >= request.expires
    /\ request' = [request EXCEPT !.status = "over"]
    /\ trouble' = trouble \union {"silent"}
    /\ UNCHANGED <<clock, call, wait, owed>>

StallServer ==
    /\ "stalled" \notin trouble
    /\ trouble' = trouble \union {"stalled"}
    /\ UNCHANGED <<clock, call, wait, request, owed>>

\* Is an answer in flight that an undisturbed server has to give by now?
AnswerDue ==
    /\ trouble \intersect {"stalled", "silent"} = {}
    /\ \/ call.pc \in {"create", "accepted"}
       \/ call.pc = "poll" /\ request.status # "pending"
    /\ clock >= owed

EventDue == request.status = "pending" /\ clock >= request.expires + QueueDelay

-----------------------------------------------------------------------------
(* The client *)

SendPoll == owed' = clock + Latency

\* CreateRequest returns, and GetResult computes its deadline and polls.
Accepted ==
    /\ call.pc = "accepted"
    /\ call' = [call EXCEPT !.pc = "poll",
                            !.deadline = Earlier(@, clock + LocalTimeout(call.asked))]
    /\ SendPoll
    /\ UNCHANGED <<clock, wait, request, trouble>>

\* Another poll took the subscription over, or the server cut this one short.
AnswerPending ==
    /\ call.pc = "poll" /\ request.status = "pending"
    /\ call' = [call EXCEPT !.pc = "backoff"]
    /\ wait' = [until |-> clock + wait.backoff,
                backoff |-> Earlier(2 * wait.backoff, LongestWait)]
    /\ UNCHANGED <<clock, request, owed, trouble>>

PollAgain ==
    /\ call.pc = "backoff" /\ clock >= wait.until /\ clock < call.deadline
    /\ call' = [call EXCEPT !.pc = "poll"]
    /\ SendPoll
    /\ UNCHANGED <<clock, wait, request, trouble>>

\* doJSONRequest takes every status of 400 and more for an error, and the
\* server reports a request that is over with 409.
Reads(status) == IF status = "completed" THEN "result" ELSE "error"

\* The row is deleted before its answer is sent.
AnswerFinal ==
    /\ call.pc = "poll" /\ request.status \in {"completed", "over"}
    /\ request' = [request EXCEPT !.status = "collected"]
    /\ Ends(Reads(request.status))
    /\ UNCHANGED <<clock, wait, owed, trouble>>

\* A connection breaks, before or after the server has collected the row.
Break ==
    /\ call.pc \in {"create", "accepted", "poll"}
    /\ trouble' = trouble \union {"broken"}
    /\ \/ UNCHANGED request
       \/ /\ call.pc = "poll" /\ request.status \in {"completed", "over"}
          /\ request' = [request EXCEPT !.status = "collected"]
    /\ Ends("error")
    /\ UNCHANGED <<clock, wait, owed>>

TimeOut ==
    /\ call.pc # "end" /\ clock >= call.deadline
    /\ Ends("timeout")
    /\ UNCHANGED <<clock, wait, request, owed, trouble>>

\* Timers run when they are due.
PollTick ==
    /\ clock < PollHorizon /\ call.pc # "end" /\ clock < call.deadline
    /\ ~ AnswerDue /\ ~ EventDue
    /\ call.pc = "backoff" => clock < wait.until
    /\ clock' = clock + 1
    /\ UNCHANGED <<call, wait, request, owed, trouble>>

PollNext ==
    \/ InsertRequest \/ RefuseRequest \/ StallServer
    \/ Approve \/ Deny \/ ExpireByEvent \/ ExpireSilently
    \/ Accepted \/ AnswerPending \/ PollAgain \/ AnswerFinal \/ Break
    \/ TimeOut \/ PollTick

PollSpec == PollInit /\ [][PollNext]_pollVars

-----------------------------------------------------------------------------
(* Properties *)

\* A client that names a timeout of a second or more hears from the server
\* before its own deadline (resultTimeoutGrace), unless the server stalls or a
\* tab expired the row silently.  Without one, or below a second, the server
\* grants its own default, and the client may leave before the user decides.
VerdictFirst ==
    call.outcome = "timeout" =>
        \/ trouble \intersect {"stalled", "silent"} # {}
        \/ /\ call.asked < Second
           /\ request.expires + PollGrace > call.deadline

\* GetResult: "the server's expiry fires first and produces a clean "failed"
\* response"; an error is left for what goes wrong on the way.
CleanFailure ==
    call.outcome = "error" => trouble \intersect {"broken", "refused"} # {}
=============================================================================
