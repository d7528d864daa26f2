---------------------------- MODULE Subscriptions ----------------------------
(***************************************************************************)
(* The long-poll subscriptions of internal/server/util-notifications.go:   *)
(* the map Server.subs from a request to the one channel waiting on it.    *)
(* Every operator runs under Server.lock, so it is one step.               *)
(*                                                                         *)
(* Each call of the long-poll handler makes one channel of its own, so a   *)
(* channel is named by the call.  It has a buffer of one and is "open"     *)
(* (nothing sent), "signaled" (a value buffered, then closed) or "closed"  *)
(* (empty and closed).                                                     *)
(***************************************************************************)
CONSTANTS Requests,  \* request identifiers, the keys of the map
          Pollers,   \* calls of the long-poll handler
          NoPoller   \* the map has no channel for the request

VARIABLES subs,  \* Server.subs
          chan   \* the channel of each call of the long-poll handler

SubsTypeOK ==
    /\ subs \in [Requests -> Pollers \union {NoPoller}]
    /\ chan \in [Pollers -> {"open", "signaled", "closed"}]

NoSubs == [r \in Requests |-> NoPoller]
NoChannels == [p \in Pollers |-> "closed"]

\* Mutant: the previous channel is forgotten instead of closed.
subscribeWithoutEviction(r, p) ==
    /\ subs' = [subs EXCEPT ![r] = p]
    /\ chan' = [chan EXCEPT ![p] = "open"]

\* Evict whoever is subscribed to r, then install a new channel for p.
subscribeState(r, p) ==
    /\ subs' = [subs EXCEPT ![r] = p]
    /\ chan' = [q \in Pollers |-> IF q = p THEN "open"
                                  ELSE IF q = subs[r] THEN "closed" ELSE chan[q]]

\* Mutant: the subscription of r is removed whoever holds it.
unsubscribeAnyone(r, p) ==
    /\ subs' = [subs EXCEPT ![r] = NoPoller]
    /\ chan' = [chan EXCEPT ![p] = "closed"]

\* Only the current subscription of r is removed: an evicted call leaves its
\* successor alone.
unsubscribeState(r, p) ==
    /\ subs' = [subs EXCEPT ![r] = IF @ = p THEN NoPoller ELSE @]
    /\ chan' = [chan EXCEPT ![p] = IF subs[r] = p THEN "closed" ELSE @]

notifySubscriber(r) ==
    /\ subs' = [subs EXCEPT ![r] = NoPoller]
    /\ chan' = [q \in Pollers |-> IF q = subs[r] THEN "signaled" ELSE chan[q]]

\* A receive from a channel that is not open: it drains the buffered value.
receive(p) ==
    /\ chan[p] # "open"
    /\ chan' = [chan EXCEPT ![p] = "closed"]
=============================================================================
