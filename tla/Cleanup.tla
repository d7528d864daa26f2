------------------------------- MODULE Cleanup -------------------------------
(***************************************************************************)
(* Garbage collection of challenges, of accounts that were never finalized *)
(* and of audit rows: deleteQueue with executeDeleteEvent                  *)
(* (util-eventqueue.go), the DELETE statements it runs (internal/db/       *)
(* auth.go), what the handlers of routes-auth.go enqueue and dequeue once  *)
(* their transaction has committed, and Run's startup (server.go).  The    *)
(* queue is in memory only.                                                *)
(***************************************************************************)
EXTENDS Naturals, FiniteSets

CONSTANTS Challenges, Signups, \* auth challenges; accounts by the challenge
          Slack, Grace, Day,   \* one minute, ten minutes, 24 hours
          ChallengeLife,       \* a challenge's lifetime
          Horizon              \* bound: when the last challenge begins

ASSUME CleanupAssumption ==
    /\ Signups \subseteq Challenges
    /\ {Slack, Grace, Day, ChallengeLife, Horizon} \subseteq Nat
    /\ Slack < Grace /\ Slack > 0

VARIABLES now,     \* the clock
          chal,    \* v2_auth_challenges
          account, \* v2_users: of each sign-up, its account
          due,     \* deleteQueue
          owed,    \* queue operations of handlers that have committed
          booted   \* when the process started; Down when it does not run

cleanupVars == <<now, chal, account, due, owed, booted>>

Gone == [there |-> FALSE]
Late == Horizon + ChallengeLife + Day + Grace
Down == Late + 1
Clock == 0 .. Late
Kinds == {"challenge", "nonready-user", "audit-prune"}
Event == [kind: Kinds, id: Challenges, at: 0 .. Late + Day + Slack]
Owed == [op: {"enqueue", "dequeue"}, ev: Event]

CleanupTypeOK ==
    /\ now \in Clock
    /\ chal \in [Challenges -> {Gone} \union
                   [there: {TRUE}, expires: 0 .. Horizon + ChallengeLife, used: BOOLEAN]]
    /\ account \in [Signups -> {Gone} \union [there: {TRUE}, created: Clock, ready: BOOLEAN]]
    /\ due \subseteq Event /\ owed \subseteq Owed
    /\ booted \in Clock \union {Down}
    /\ booted = Down => due = {} /\ owed = {}

Someone == CHOOSE c \in Challenges : TRUE
PruneAt(t) == [kind |-> "audit-prune", id |-> Someone, at |-> t]

CleanupInit ==
    /\ now = 0
    /\ chal = [c \in Challenges |-> Gone]
    /\ account = [u \in Signups |-> Gone]
    /\ due = {PruneAt(0)} /\ owed = {} /\ booted = 0

Running == booted # Down
ChallengeDelete(c) == [kind |-> "challenge", id |-> c, at |-> chal'[c].expires + Grace]
UserDelete(u) == [kind |-> "nonready-user", id |-> u, at |-> now + Day + Slack]
Owe(op, ev) == owed' = owed \union {[op |-> op, ev |-> ev]}

-----------------------------------------------------------------------------
(* The handlers of routes-auth.go *)

\* An id is drawn once.
Fresh(c) ==
    /\ ~ chal[c].there /\ c \in Signups => ~ account[c].there
    /\ c \notin {e.id : e \in due \ {PruneAt(t) : t \in Clock}} \union {o.ev.id : o \in owed}

BeginCeremonyRow(c) ==
    /\ Running /\ now <= Horizon /\ Fresh(c)
    /\ chal' = [chal EXCEPT ![c] = [there |-> TRUE, expires |-> now + ChallengeLife, used |-> FALSE]]
    /\ Owe("enqueue", ChallengeDelete(c))
    /\ UNCHANGED <<now, account, due, booted>>

Usable(c) == chal[c].there /\ ~ chal[c].used /\ now < chal[c].expires
Use(c) == Running /\ Usable(c) /\ chal' = [chal EXCEPT ![c].used = TRUE]

\* Login and AddCredential take the challenge's event back.
FinishCeremony(c) ==
    /\ c \notin Signups /\ Use(c)
    /\ Owe("dequeue", ChallengeDelete(c))
    /\ UNCHANGED <<now, account, due, booted>>

\* RegisterFinish leaves it, and adds one for the account.
RegisterAccount(u) ==
    /\ Use(u)
    /\ account' = [account EXCEPT ![u] = [there |-> TRUE, created |-> now, ready |-> FALSE]]
    /\ Owe("enqueue", UserDelete(u))
    /\ UNCHANGED <<now, due, booted>>

FinalizeAccount(u) ==
    /\ Running /\ account[u].there /\ ~ account[u].ready
    /\ account' = [account EXCEPT ![u].ready = TRUE]
    /\ Owe("dequeue", UserDelete(u))
    /\ UNCHANGED <<now, chal, due, booted>>

SameKey(e, f) == e.kind = f.kind /\ e.id = f.id

\* Enqueue replaces the event of the same key; Dequeue removes it by its key.
Queue(o) ==
    /\ o \in owed /\ owed' = owed \ {o}
    /\ due' = {e \in due : ~ SameKey(e, o.ev)} \union (IF o.op = "enqueue" THEN {o.ev} ELSE {})
    /\ UNCHANGED <<now, chal, account, booted>>

-----------------------------------------------------------------------------
(* executeDeleteEvent *)

\* t < s - d, for instants that may lie before 0.
Before(t, s, d) == t + d < s

\* Mutant: the challenge is removed whenever its event is due.
ExpiredBeforeAnyway(c, at) == TRUE

\* DeleteExpiredAuthChallenge and CleanupExpired
ExpiredBefore(c, at) == Before(chal[c].expires, at, Grace) \/ chal[c].used

\* DeleteNonreadyUser
GivenUp(u, at) == ~ account[u].ready /\ Before(account[u].created, at, Day + Grace)

\* Mutant: a prune that fails does not enqueue the next.
NextPruneIf(ok) == IF ok THEN {PruneAt(now + Day)} ELSE {}

\* PruneBefore may fail; enqueueAuditPrune runs either way.
NextPrune(ok) == {PruneAt(now + Day)}

FireDelete(e) ==
    /\ Running /\ e \in due /\ now >= e.at
    /\ \E ok \in BOOLEAN :
         due' = (due \ {e}) \union (IF e.kind = "audit-prune" THEN NextPrune(ok) ELSE {})
    /\ chal' = IF e.kind = "challenge" /\ chal[e.id].there /\ ExpiredBefore(e.id, e.at)
               THEN [chal EXCEPT ![e.id] = Gone] ELSE chal
    /\ account' = IF e.kind = "nonready-user" /\ account[e.id].there /\ GivenUp(e.id, e.at)
                  THEN [account EXCEPT ![e.id] = Gone] ELSE account
    /\ UNCHANGED <<now, owed, booted>>

-----------------------------------------------------------------------------
(* The process and the clock *)

Die ==
    /\ Running /\ booted' = Down
    /\ due' = {} /\ owed' = {}
    /\ UNCHANGED <<now, chal, account>>

\* Run: CleanupExpired, and the first event of the chain of prunes.
Boot ==
    /\ ~ Running /\ booted' = now
    /\ chal' = [c \in Challenges |->
                  IF chal[c].there /\ ExpiredBefore(c, now) THEN Gone ELSE chal[c]]
    /\ due' = {PruneAt(now)}
    /\ UNCHANGED <<now, account, owed>>

Elapse == now < Late /\ now' = now + 1 /\ UNCHANGED <<chal, account, due, owed, booted>>

Collections == \E e \in due : FireDelete(e)
QueueCalls == \E o \in owed : Queue(o)

CleanupNext ==
    \/ \E c \in Challenges : BeginCeremonyRow(c) \/ FinishCeremony(c)
    \/ \E u \in Signups : RegisterAccount(u) \/ FinalizeAccount(u)
    \/ QueueCalls \/ Collections
    \/ Die \/ Boot \/ Elapse

-----------------------------------------------------------------------------
(* Properties *)

\* No event, late, early or left behind by a dequeue that has still to run,
\* removes a challenge that could still be used or an account that is ready.
NothingNeededGoes ==
    [][/\ \A c \in Challenges : Usable(c) => chal'[c].there
       /\ \A u \in Signups : account[u].there /\ account[u].ready => account'[u].there
      ]_cleanupVars

\* The chain of audit prunes neither breaks nor forks: one prune is due
\* whenever the process runs (enqueueAuditPrune).
OnePrune == Running => Cardinality({e \in due : e.kind = "audit-prune"}) = 1

\* "Register the non-ready user for cleanup if it's not completed in 24 hours"
\* (routes-auth.go:384): the account's event does its work before it is gone.
NonreadyUserCollected ==
    [][\A e \in due \ due' :
         e.kind = "nonready-user" /\ booted' = booted
         => ~ account'[e.id].there \/ account'[e.id].ready]_cleanupVars
=============================================================================
