------------------------------ MODULE AuditLog ------------------------------
(***************************************************************************)
(* The audit log (internal/db/audit.go): rows get a UUIDv7 when they are   *)
(* inserted and appear when their transaction commits, so they may appear  *)
(* out of order; List pages through them by id, newest first; PruneBefore  *)
(* removes the old ones.  A reader fetches one page after another with the *)
(* cursor of the page before (GET /v2/api/audit-events).                   *)
(***************************************************************************)
EXTENDS Naturals, SequencesExt

CONSTANTS Actors,      \* users, and whatever else an event's actor can be
          AuditReader, \* the user who reads
          PageSize,    \* rows of a page (50)
          MaxId        \* bound: rows inserted

ASSUME AuditAssumption == AuditReader \in Actors /\ PageSize \in Nat \ {0}

VARIABLES actor,     \* the actor of each id drawn so far
          open,      \* ids of rows whose transaction has not committed
          log,       \* ids of the rows in the table
          pruned,    \* history: ids that were removed
          shown,     \* the ids on the reader's pages, in order
          cursor,    \* the cursor of the next page; 0 when there is none
          reading,   \* whether the reader is between two pages
          atStart    \* history: the reader's rows when it began

auditVars == <<actor, open, log, pruned, shown, cursor, reading, atStart>>

Ids == 1 .. MaxId

AuditTypeOK ==
    /\ actor \in Seq(Actors) /\ Len(actor) <= MaxId
    /\ open \subseteq Ids /\ log \subseteq Ids /\ open \intersect log = {}
    /\ pruned \subseteq Ids
    /\ shown \in Seq(Ids)
    /\ cursor \in 0 .. MaxId
    /\ reading \in BOOLEAN
    /\ atStart \subseteq Ids

AuditInit ==
    /\ actor = <<>>
    /\ open = {} /\ log = {} /\ pruned = {}
    /\ shown = <<>> /\ cursor = 0 /\ reading = FALSE /\ atStart = {}

Reader == <<shown, cursor, reading, atStart>>

\* Insert validates its input and draws an id later than every one before.
InsertRow(a) ==
    /\ Len(actor) < MaxId
    /\ actor' = Append(actor, a)
    /\ open' = open \union {Len(actor) + 1}
    /\ UNCHANGED <<log, pruned, Reader>>

CommitRow(i) ==
    /\ i \in open
    /\ open' = open \ {i} /\ log' = log \union {i}
    /\ UNCHANGED <<actor, pruned, Reader>>

\* The transaction was rolled back, or the row was refused.
LoseRow(i) ==
    /\ i \in open /\ open' = open \ {i}
    /\ UNCHANGED <<actor, log, pruned, Reader>>

\* PruneBefore: created_at orders rows as their ids do.
PruneBefore(t) ==
    /\ \E i \in log : i < t
    /\ log' = {i \in log : i >= t}
    /\ pruned' = pruned \union {i \in log : i < t}
    /\ UNCHANGED <<actor, open, Reader>>

\* The WHERE clauses of List.
Matches(i) == actor[i] = AuditReader /\ (cursor = 0 \/ i < cursor)

\* Mutant: the cursor is the extra row that is discarded.
NextCursorSkips(rows) == IF Len(rows) > PageSize THEN rows[PageSize + 1] ELSE 0

\* The extra row says whether there are more; the cursor is the last kept.
NextCursor(rows) == IF Len(rows) > PageSize THEN rows[PageSize] ELSE 0

NewestFirst == SetToSortSeq({i \in log : Matches(i)}, LAMBDA a, b : a > b)

FetchPage ==
    LET kept == [k \in 1 .. Min({PageSize, Len(NewestFirst)}) |-> NewestFirst[k]]
    IN  /\ shown' = (IF reading THEN shown ELSE <<>>) \o kept
        /\ cursor' = NextCursor(NewestFirst)
        /\ reading' = (cursor' # 0)
        /\ atStart' = IF reading THEN atStart ELSE {i \in log : actor[i] = AuditReader}
        /\ UNCHANGED <<actor, open, log, pruned>>

AuditNext ==
    \/ \E a \in Actors : InsertRow(a)
    \/ \E i \in open : CommitRow(i) \/ LoseRow(i)
    \/ \E t \in Ids : PruneBefore(t)
    \/ FetchPage

-----------------------------------------------------------------------------
(* Properties *)

\* While rows appear between and before them, the pages of one reading show
\* rows of the reader, each once and newest first; what was there when the
\* reading began and was not pruned is on a page or still ahead of the cursor.
PagesExact ==
    /\ \A i, j \in DOMAIN shown : i < j => shown[i] > shown[j]
    /\ \A i \in DOMAIN shown : actor[shown[i]] = AuditReader
    /\ \A i \in atStart \ pruned :
        \/ \E k \in DOMAIN shown : shown[k] = i
        \/ reading /\ i < cursor
=============================================================================
