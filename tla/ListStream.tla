----------------------------- MODULE ListStream -----------------------------
(***************************************************************************)
(* One browser tab that follows its user's requests: the broker            *)
(* (internal/utils/broker), the handler of the list stream                 *)
(* (routeV2APIListStream in routes-api.go) and the tab's map of items,     *)
(* which outlives a stream.  The request handlers change the row first and *)
(* publish later, each in a goroutine of its own.                          *)
(***************************************************************************)
EXTENDS Naturals, Sequences

CONSTANTS StreamRequests, \* requests
          OwnRequests,    \* those of the tab's user
          BufferSize      \* messages a subscription holds (8)

ASSUME StreamAssumption == OwnRequests \subseteq StreamRequests /\ BufferSize \in Nat \ {0}

VARIABLES status,  \* the status of each row
          unsent,  \* messages that handlers have still to publish
          phase,   \* of the stream's handler
          buffer,  \* the subscription's channel
          seen,    \* the handler's filter
          view,    \* the tab's items
          missed,  \* history: pending messages dropped since the last list
          ghostly  \* history: requests whose removal cannot reach the tab

streamVars == <<status, unsent, phase, buffer, seen, view, missed, ghostly>>

Messages == StreamRequests \X {"pending", "removed"}

StreamTypeOK ==
    /\ status \in [StreamRequests -> {"none", "pending", "done"}]
    /\ unsent \subseteq Messages
    /\ phase \in {"closed", "subscribed", "listed", "open"}
    /\ buffer \in Seq(Messages) /\ Len(buffer) <= BufferSize
    /\ phase = "closed" => buffer = <<>>
    /\ seen \subseteq OwnRequests /\ view \subseteq OwnRequests
    /\ missed \subseteq StreamRequests /\ ghostly \subseteq StreamRequests

StreamInit ==
    /\ status = [r \in StreamRequests |-> "none"]
    /\ unsent = {}
    /\ phase = "closed"
    /\ buffer = <<>>
    /\ seen = {} /\ view = {} /\ missed = {} /\ ghostly = {}

-----------------------------------------------------------------------------
(* The request handlers and the expiry queue *)

Move(r, from, to) == status[r] = from /\ status' = [status EXCEPT ![r] = to]

CreateRow(r) ==
    /\ Move(r, "none", "pending")
    /\ unsent' = unsent \union {<<r, "pending">>}
    /\ UNCHANGED <<phase, buffer, seen, view, missed, ghostly>>

\* Confirmed, canceled, or expired by its event.
EndRow(r) ==
    /\ Move(r, "pending", "done")
    /\ unsent' = unsent \union {<<r, "removed">>}
    /\ UNCHANGED <<phase, buffer, seen, view, missed, ghostly>>

\* A list or get call expires the row, and nobody publishes it.
ExpireRowSilently(r) ==
    /\ Move(r, "pending", "done")
    /\ ghostly' = ghostly \union {r}
    /\ UNCHANGED <<unsent, phase, buffer, seen, view, missed>>

\* Mutant: the handler subscribes once it has sent the list.
SubscribedLate == phase = "open"

Subscribed == phase # "closed"
Full == Len(buffer) = BufferSize

\* Broker.Publish: a full channel loses the message.
Send(r, s) ==
    /\ <<r, s>> \in unsent
    /\ unsent' = unsent \ {<<r, s>>}
    /\ buffer' = IF Subscribed /\ ~ Full THEN Append(buffer, <<r, s>>) ELSE buffer
    /\ missed' = IF s = "pending" /\ Full THEN missed \union {r} ELSE missed
    /\ ghostly' = IF s = "removed" /\ (~ Subscribed \/ Full \/ <<r, "pending">> \in unsent)
                  THEN ghostly \union {r} ELSE ghostly
    /\ UNCHANGED <<status, phase, seen, view>>

-----------------------------------------------------------------------------
(* routeV2APIListStream *)

Subscribe ==
    /\ phase = "closed" /\ phase' = "subscribed"
    /\ UNCHANGED <<status, unsent, buffer, seen, view, missed, ghostly>>

\* The pending rows of the user are read after subscribing ...
ListRows ==
    /\ phase = "subscribed" /\ phase' = "listed"
    /\ seen' = {r \in OwnRequests : status[r] = "pending"}
    /\ missed' = {}
    /\ UNCHANGED <<status, unsent, buffer, view, ghostly>>

\* Mutant: the response starts with its first item.
SendRowsIfAny ==
    /\ phase = "listed" /\ seen # {} /\ phase' = "open"
    /\ view' = view \union seen
    /\ UNCHANGED <<status, unsent, buffer, seen, missed, ghostly>>

\* ... and sent before any message.
SendRows ==
    /\ phase = "listed" /\ phase' = "open"
    /\ view' = view \union seen
    /\ UNCHANGED <<status, unsent, buffer, seen, missed, ghostly>>

\* Mutant: an item that was listed is not removed either.
PassesOnce(r, s) == r \in OwnRequests /\ r \notin seen

\* The filter of the messages.
Passes(r, s) == r \in OwnRequests /\ (r \notin seen \/ s = "removed")

Deliver ==
    /\ phase = "open" /\ buffer # <<>>
    /\ buffer' = Tail(buffer)
    /\ LET r == Head(buffer)[1]
           s == Head(buffer)[2]
       IN  IF ~ Passes(r, s)
           THEN UNCHANGED <<seen, view>>
           ELSE IF s = "removed"
                THEN seen' = seen \ {r} /\ view' = view \ {r}
                ELSE seen' = seen \union {r} /\ view' = view \union {r}
    /\ UNCHANGED <<status, unsent, phase, missed, ghostly>>

\* The session expires, the connection is lost or the broker shuts down; the
\* tab keeps its items and opens another stream.
Disconnect ==
    /\ phase # "closed" /\ phase' = "closed"
    /\ buffer' = <<>> /\ seen' = {}
    /\ ghostly' = ghostly \union {r \in StreamRequests :
                                    \E i \in DOMAIN buffer : buffer[i] = <<r, "removed">>}
    /\ UNCHANGED <<status, unsent, view, missed>>

Publications == \E r \in StreamRequests, s \in {"pending", "removed"} : Send(r, s)

\* The tab opens a stream when it has none, and the handler answers; handlers
\* publish and the channel is drained.
Reconnects == Subscribe \/ ListRows \/ SendRows

StreamNext ==
    \/ \E r \in StreamRequests : CreateRow(r) \/ EndRow(r) \/ ExpireRowSilently(r)
    \/ Publications
    \/ Reconnects \/ Deliver \/ Disconnect

StreamFairness ==
    WF_streamVars(Publications) /\ WF_streamVars(Reconnects) /\ WF_streamVars(Deliver)

-----------------------------------------------------------------------------
(* Properties *)

Quiet == phase = "open" /\ buffer = <<>> /\ unsent = {}

\* Listing after subscribing leaves no gap: a pending request is in the tab,
\* unless its message met a full channel after the list (Broker.Publish).
NothingMissing ==
    Quiet => \A r \in OwnRequests : status[r] = "pending" => r \in view \union missed

\* A request that is over leaves the tab, unless its removal was dropped,
\* published while no stream was open, or overtook the publication of the
\* request itself, which the create handler sends after its answer.
GhostsExplained ==
    Quiet => \A r \in view : status[r] = "pending" \/ r \in ghostly

\* A pending request reaches the tab if the stream stops breaking.
StreamCatchesUp ==
    <>[](phase # "closed") =>
        \A r \in OwnRequests :
            status[r] = "pending" ~> (r \in view \union missed \/ status[r] # "pending")
=============================================================================
