--------------------------- MODULE RequestPromise ---------------------------
(***************************************************************************)
(* What the server promises about a request, whatever happens inside it:   *)
(* one verdict, given by its owner before the deadline or by the clock     *)
(* after it, and one answer.  The status values are those of               *)
(* V2RequestStatus, with "none" before the request and "gone" after it.    *)
(***************************************************************************)
EXTENDS Naturals

CONSTANTS Requests, Sessions, NoResult,
          Lifetimes,  \* how long a request may be open
          MayAnswer   \* the sessions entitled to answer a request

VARIABLES status,    \* where the request is in its life
          deadline,  \* the last second in which it may be approved
          result,    \* the session whose response it carries
          answers,   \* how many terminal answers have been handed out
          now

Terminal == {"completed", "canceled", "expired"}
pvars == <<status, deadline, result, answers, now>>

Init ==
    /\ status = [r \in Requests |-> "none"]
    /\ deadline = [r \in Requests |-> 0]
    /\ result = [r \in Requests |-> NoResult]
    /\ answers = [r \in Requests |-> 0]
    /\ now = 0

Submit(r) ==
    /\ status[r] = "none"
    /\ status' = [status EXCEPT ![r] = "pending"]
    /\ \E t \in Lifetimes : deadline' = [deadline EXCEPT ![r] = now + t]
    /\ UNCHANGED <<result, answers, now>>

Approve(r, s) ==
    /\ status[r] = "pending"
    /\ s \in MayAnswer[r]
    /\ now <= deadline[r]
    /\ status' = [status EXCEPT ![r] = "completed"]
    /\ result' = [result EXCEPT ![r] = s]
    /\ UNCHANGED <<deadline, answers, now>>

Refuse(r) ==
    /\ status[r] = "pending"
    /\ MayAnswer[r] # {}
    /\ status' = [status EXCEPT ![r] = "canceled"]
    /\ UNCHANGED <<deadline, result, answers, now>>

\* Requests whose deadline has passed expire, several in one step if need be.
Lapse(S) ==
    /\ \A r \in S : status[r] = "pending" /\ deadline[r] < now
    /\ status' = [r \in Requests |-> IF r \in S THEN "expired" ELSE status[r]]
    /\ UNCHANGED <<deadline, result, answers, now>>

Collect(r) ==
    /\ status[r] \in Terminal
    /\ status' = [status EXCEPT ![r] = "gone"]
    /\ answers' = [answers EXCEPT ![r] = @ + 1]
    /\ UNCHANGED <<deadline, result, now>>

\* Nobody came for the answer in the time it was kept.
Forget(S) ==
    /\ \A r \in S : status[r] \in Terminal /\ deadline[r] < now
    /\ status' = [r \in Requests |-> IF r \in S THEN "gone" ELSE status[r]]
    /\ UNCHANGED <<deadline, result, answers, now>>

TimePasses == now' = now + 1 /\ UNCHANGED <<status, deadline, result, answers>>

Next ==
    \/ \E r \in Requests : Submit(r) \/ Refuse(r) \/ Collect(r)
    \/ \E r \in Requests, s \in Sessions : Approve(r, s)
    \/ \E S \in SUBSET Requests : Lapse(S) \/ Forget(S)
    \/ TimePasses

Spec == Init /\ [][Next]_pvars
=============================================================================
