------------------------------- MODULE Backup -------------------------------
(***************************************************************************)
(* A dump of the tables and its restore into another database              *)
(* (internal/db/backup, internal/db/migrate.go, cmd/revaulter/backup).     *)
(* Rows are those of accounts and of one table that references them.       *)
(***************************************************************************)
EXTENDS Naturals, Sequences

CONSTANTS Accounts,  \* accounts of the source
          Newcomer,  \* an account that signs up at the target
          Bundled    \* migrations in the restoring binary

ASSUME BackupAssumption == Newcomer \notin Accounts /\ Bundled \in Nat \ {0}

VARIABLES engine,   \* of the source
          source,   \* each account's rows: none, its own, or also a child's
          dump,     \* [pos, moved]: 0 when no dump runs; history: rows changed meanwhile
          file,     \* [state, level, blocks]
          target,   \* [level, users, children, serving]
          restore,  \* [pc, pos, users, children, reason]: the rows are its transaction's
          beside    \* history: the application started while a restore ran

backupVars == <<engine, source, dump, file, target, restore, beside>>

Tables == {"users", "children"}

Nothing == [level |-> 0, users |-> {}, children |-> {}, serving |-> FALSE]
NoFileYet == [state |-> "none", level |-> 1, blocks |-> <<>>]
NoRestore == [pc |-> "idle", pos |-> 0, users |-> {}, children |-> {}, reason |-> "none"]

BackupTypeOK ==
    /\ engine \in {"sqlite", "postgres"}
    /\ source \in [Accounts -> {"none", "user", "child"}]
    /\ dump \in [pos : 0 .. 3, moved : BOOLEAN]
    /\ file \in [state : {"none", "partial", "complete", "damaged"}, level : 1 .. Bundled + 1,
                 blocks : Seq([table : Tables, rows : SUBSET Accounts])]
    /\ target \in [level : 0 .. Bundled, users : SUBSET (Accounts \union {Newcomer}),
                   children : SUBSET Accounts, serving : BOOLEAN]
    /\ target.children \subseteq target.users
    /\ restore \in [pc : {"idle", "migrate", "insert", "done", "failed"}, pos : 0 .. 3,
                    users : SUBSET Accounts, children : SUBSET Accounts,
                    reason : {"none", "not empty", "too new", "reference", "file", "lost"}]
    /\ beside \in BOOLEAN

BackupInit ==
    /\ engine \in {"sqlite", "postgres"}
    /\ source \in [Accounts -> {"none", "user", "child"}]
    /\ dump = [pos |-> 0, moved |-> FALSE]
    /\ file = NoFileYet
    /\ target = Nothing /\ restore = NoRestore /\ beside = FALSE


\* backupTables: referenced tables first.
TableOrder == <<"users", "children">>

-----------------------------------------------------------------------------
(* The source *)

Dumping == dump.pos > 0

\* The application goes on; over SQLite the dump's transaction keeps it out.
Application(a) ==
    /\ Dumping => engine = "postgres"
    /\ \E rows \in {"none", "user", "child"} :
         /\ rows # source[a]
         /\ rows = "child" => source[a] = "user"
         /\ source' = [source EXCEPT ![a] = rows]
    /\ dump' = [dump EXCEPT !.moved = @ \/ Dumping]
    /\ UNCHANGED <<engine, file, target, restore, beside>>

\* The level is that of the binary that dumps: it names every column.
StartDump ==
    /\ file.state = "none" /\ ~ Dumping
    /\ dump' = [pos |-> 1, moved |-> FALSE]
    /\ \E level \in 1 .. Bundled + 1 : file' = [NoFileYet EXCEPT !.state = "partial", !.level = level]
    /\ UNCHANGED <<engine, source, target, restore, beside>>

RowsOf(table) ==
    {a \in Accounts : source[a] \in IF table = "users" THEN {"user", "child"} ELSE {"child"}}

\* dumpTable; each statement of Postgres sees what is committed by then.
DumpTable ==
    /\ dump.pos \in DOMAIN TableOrder
    /\ LET table == TableOrder[dump.pos]
       IN  file' = [file EXCEPT !.blocks = Append(@, [table |-> table, rows |-> RowsOf(table)])]
    /\ dump' = [dump EXCEPT !.pos = @ + 1]
    /\ UNCHANGED <<engine, source, target, restore, beside>>

\* The checksum ends the file.
EndDump ==
    /\ dump.pos = Len(TableOrder) + 1
    /\ dump' = [dump EXCEPT !.pos = 0]
    /\ file' = [file EXCEPT !.state = "complete"]
    /\ UNCHANGED <<engine, source, target, restore, beside>>

\* An error or a crash leaves what was written so far.
DumpStops ==
    /\ Dumping
    /\ dump' = [dump EXCEPT !.pos = 0]
    /\ UNCHANGED <<engine, source, file, target, restore, beside>>

\* On the disk: a row is lost, or the end of the file.
Damage ==
    /\ file.state = "complete"
    /\ \/ \E i \in DOMAIN file.blocks : \E a \in file.blocks[i].rows :
            file' = [file EXCEPT !.state = "damaged", !.blocks[i].rows = @ \ {a}]
       \/ file' = [file EXCEPT !.state = "damaged", !.blocks = SubSeq(@, 1, Len(@) - 1)]
    /\ UNCHANGED <<engine, source, dump, target, restore, beside>>

-----------------------------------------------------------------------------
(* The target *)

Restoring == restore.pc \in {"migrate", "insert"}

\* The transaction's rows are gone, the schema stays.
GivesUp(reason) == restore' = [NoRestore EXCEPT !.pc = "failed", !.reason = reason]

\* Mutant: rows decide, not the schema.
RefusedWith(level) == target.users # {} /\ level > 0

\* targetHasMigrations.
Refused(level) == level > 0

StartRestore ==
    /\ restore.pc \in {"idle", "failed"} /\ file.state # "none" /\ ~ Dumping
    /\ IF Refused(target.level) THEN GivesUp("not empty")
       ELSE IF file.level > Bundled THEN GivesUp("too new")
       ELSE restore' = [NoRestore EXCEPT !.pc = "migrate"]
    /\ UNCHANGED <<engine, source, dump, file, target, beside>>

\* RunMigrationsUpTo: one migration after the other, each for good; those
\* that are there already are skipped.
Migrate ==
    /\ restore.pc = "migrate"
    /\ IF target.level < file.level
       THEN target' = [target EXCEPT !.level = @ + 1] /\ UNCHANGED restore
       ELSE restore' = [restore EXCEPT !.pc = "insert", !.pos = 1] /\ UNCHANGED target
    /\ UNCHANGED <<engine, source, dump, file, beside>>

\* restoreTableBlock: a row whose account is missing ends the transaction.
InsertBlock ==
    /\ restore.pc = "insert" /\ restore.pos \in DOMAIN file.blocks
    /\ LET block == file.blocks[restore.pos]
       IN  IF block.table = "users"
           THEN restore' = [restore EXCEPT !.pos = @ + 1, !.users = block.rows]
           ELSE IF block.rows \subseteq restore.users
                THEN restore' = [restore EXCEPT !.pos = @ + 1, !.children = block.rows]
                ELSE GivesUp("reference")
    /\ UNCHANGED <<engine, source, dump, file, target, beside>>

\* backupChecksumReader.Verify, after the last of the header's tables.
Intact(f) == f.state = "complete"

Commit ==
    /\ restore.pc = "insert" /\ restore.pos = Len(TableOrder) + 1 /\ Intact(file)
    /\ target' = [target EXCEPT !.users = @ \union restore.users, !.children = @ \union restore.children]
    /\ restore' = [restore EXCEPT !.pc = "done"]
    /\ UNCHANGED <<engine, source, dump, file, beside>>

FileFails ==
    /\ restore.pc = "insert" /\ restore.pos \notin DOMAIN file.blocks /\ ~ Intact(file)
    /\ GivesUp("file")
    /\ UNCHANGED <<engine, source, dump, file, target, beside>>

LoseRestore ==
    /\ Restoring
    /\ GivesUp("lost")
    /\ UNCHANGED <<engine, source, dump, file, target, beside>>

\* The application starts, migrates and serves.
StartApplication ==
    /\ ~ target.serving
    /\ target' = [target EXCEPT !.level = Bundled, !.serving = TRUE]
    /\ beside' = (beside \/ Restoring)
    /\ UNCHANGED <<engine, source, dump, file, restore>>

SignUpAtTarget ==
    /\ target.serving /\ Newcomer \notin target.users
    /\ target' = [target EXCEPT !.users = @ \union {Newcomer}]
    /\ UNCHANGED <<engine, source, dump, file, restore, beside>>

BackupNext ==
    \/ \E a \in Accounts : Application(a)
    \/ StartDump \/ DumpTable \/ EndDump \/ DumpStops \/ Damage
    \/ StartRestore \/ Migrate \/ InsertBlock \/ Commit \/ FileFails \/ LoseRestore
    \/ StartApplication \/ SignUpAtTarget

-----------------------------------------------------------------------------
(* Properties *)

InFile(table) == UNION {file.blocks[i].rows : i \in {j \in DOMAIN file.blocks : file.blocks[j].table = table}}

\* Rows come all at once, from a file that is whole, into a database without
\* rows (Restore): only an application that starts beside the restore can have
\* written some first.
AllOrNothing ==
    [][\A a \in Accounts : a \in target'.users \ target.users =>
         /\ file.state = "complete"
         /\ target'.users \ {Newcomer} = InFile("users") /\ target'.children = InFile("children")
         /\ target.users = {} \/ beside]_backupVars


=============================================================================
