------------------------------ MODULE FileEdit ------------------------------
(***************************************************************************)
(* revaulter-edit (cmd/edit): commands that open one encrypted file, edit  *)
(* it in an editor that saves when it likes, or replace its contents.      *)
(* A file carries its contents under a key of its own and, in its header,  *)
(* that key wrapped by Revaulter.                                          *)
(***************************************************************************)

CONSTANTS Runs,  \* invocations of the edit command
          Pipes, \* invocations of the write command
          Texts, \* contents
          Empty, \* the contents of a new file
          Half,  \* what an editor has written when it is interrupted
          NoFile,
          Mangled \* a file that does not parse

ASSUME EditAssumption == Runs \intersect Pipes = {} /\ Empty \in Texts /\ Half \notin Texts

VARIABLES disk,    \* the encrypted file
          run,     \* the invocations
          temp,    \* the plaintext each editor works on
          edited,  \* history: what each editor wrote last, or what it opened
          written  \* history: what each invocation saved last, or what it opened

editVars == <<disk, run, temp, edited, written>>

Invocations == Runs \union Pipes
Plain == Texts \union {Half}

\* A new file's key is generated by the invocation that creates it.
Sealed == [header : Invocations, key : Invocations, text : Plain]

ASSUME FilesAssumption == NoFile \notin Sealed \union Plain /\ Mangled \notin Sealed

Start(i) == [pc |-> "start", data |-> NoFile, key |-> i, text |-> Empty,
             saved |-> FALSE, touched |-> FALSE, hash |-> Empty]

Session == [pc : {"start", "unwrap", "wrap", "edit", "save", "last", "final", "ok", "error", "crashed"},
            data : Sealed \union {NoFile}, key : Invocations,
            text : Plain, saved : BOOLEAN, touched : BOOLEAN, hash : Plain]

EditTypeOK ==
    /\ disk \in Sealed \union {NoFile, Mangled}
    /\ run \in [Invocations -> Session]
    /\ temp \in [Invocations -> Plain \union {NoFile}]
    /\ edited \in [Invocations -> Plain \union {NoFile}] /\ written \in [Invocations -> Plain]
    /\ \A i \in Invocations : run[i].pc \in {"ok", "error"} => temp[i] = NoFile

EditInit ==
    /\ disk = NoFile
    /\ run = [i \in Invocations |-> Start(i)]
    /\ temp = [i \in Invocations |-> NoFile]
    /\ edited = [i \in Invocations |-> Empty]
    /\ written = [i \in Invocations |-> Empty]

In(i, pc) == run[i].pc = pc
Goes(i, pc) == run' = [run EXCEPT ![i].pc = pc]

-----------------------------------------------------------------------------
(* openFile: the file is read, then the user is asked to approve *)

Open(i) ==
    /\ In(i, "start")
    /\ disk # Mangled
    /\ run' = [run EXCEPT ![i] = IF disk = NoFile
                                 THEN [@ EXCEPT !.pc = "wrap"]
                                 ELSE [@ EXCEPT !.pc = "unwrap", !.data = disk]]
    /\ UNCHANGED <<disk, temp, edited, written>>

\* The plaintext goes to the temporary file; the write command has its own and
\* saves it.
Begins(i, key, text) ==
    IF i \in Pipes
    THEN /\ \E piped \in Texts :
              /\ run' = [run EXCEPT ![i] = [@ EXCEPT !.pc = "final", !.key = key, !.text = piped]]
              /\ edited' = [edited EXCEPT ![i] = piped]
         /\ UNCHANGED <<temp, written>>
    ELSE /\ run' = [run EXCEPT ![i] = [@ EXCEPT !.pc = "edit", !.key = key, !.hash = text]]
         /\ temp' = [temp EXCEPT ![i] = text]
         /\ edited' = [edited EXCEPT ![i] = text]
         /\ written' = [written EXCEPT ![i] = text]

Unwrap(i) ==
    /\ In(i, "unwrap")
    /\ run[i].data.header = run[i].data.key
    /\ Begins(i, run[i].data.key, run[i].data.text)
    /\ UNCHANGED disk

Wrap(i) ==
    /\ In(i, "wrap")
    /\ Begins(i, i, Empty)
    /\ UNCHANGED disk

-----------------------------------------------------------------------------
(* The editor *)

\* It saves, in one step or in two, or replaces the file by another.
EditorWrites(i) ==
    /\ In(i, "edit") \/ In(i, "save")
    /\ \E text \in Plain \union {NoFile} :
         /\ temp' = [temp EXCEPT ![i] = text]
         /\ edited' = [edited EXCEPT ![i] = text]
    /\ run' = [run EXCEPT ![i].touched = TRUE]
    /\ UNCHANGED <<disk, written>>

EditorExits(i) ==
    /\ In(i, "edit") /\ Goes(i, "last")
    /\ UNCHANGED <<disk, temp, edited, written>>

-----------------------------------------------------------------------------
(* Saving *)

\* saveIfChanged compares with what it saved last.
Changed(i) ==
    /\ temp[i] # NoFile
    /\ \/ temp[i] # run[i].hash
       \/ ~ run[i].saved /\ run[i].touched

\* Mutant: the header on disk is kept.
HeaderFor(i) == IF disk = NoFile THEN run[i].key ELSE disk.header

\* The header that Serialize writes.
HeaderOf(i) == run[i].key

Contents(i) == [header |-> HeaderOf(i), key |-> run[i].key, text |-> run[i].text]

\* Mutant: the hash is kept before the file is saved.
BeforeSave(i) == [run[i] EXCEPT !.text = temp[i], !.hash = temp[i]]

BeforeSaving(i) == [run[i] EXCEPT !.text = temp[i]]

\* A tick of the poll; the editor goes on while the file is written.
PollSave(i) ==
    /\ In(i, "edit") /\ Changed(i)
    /\ run' = [run EXCEPT ![i] = [BeforeSaving(i) EXCEPT !.pc = "save"]]
    /\ UNCHANGED <<disk, temp, edited, written>>

\* The editor may have saved since the last tick.
LastSave(i) ==
    /\ In(i, "last") /\ Changed(i)
    /\ run' = [run EXCEPT ![i] = [BeforeSaving(i) EXCEPT !.pc = "final"]]
    /\ UNCHANGED <<disk, temp, edited, written>>

\* Mutant: the temporary file stays.
LeavesPlain(i, pc) == Goes(i, pc) /\ UNCHANGED temp

\* wipeFile removes the temporary file.
Leaves(i, pc) ==
    /\ Goes(i, pc)
    /\ temp' = [temp EXCEPT ![i] = NoFile]

NothingToSave(i) ==
    /\ In(i, "last") /\ ~ Changed(i)
    /\ Leaves(i, "ok")
    /\ UNCHANGED <<disk, edited, written>>

\* The editor goes on, or the command ends; that of an editor which failed ends
\* in an error although it has saved.
After(i) == IF In(i, "save") THEN {"edit"} ELSE IF i \in Pipes THEN {"ok"} ELSE {"ok", "error"}

\* writeFileAtomic renames the file it has written.
Saved(i) ==
    /\ In(i, "save") \/ In(i, "final")
    /\ disk' = Contents(i)
    /\ written' = [written EXCEPT ![i] = run[i].text]
    /\ \E pc \in After(i) :
         run' = [run EXCEPT ![i] = [@ EXCEPT !.pc = pc, !.saved = TRUE, !.hash = run[i].text]]
    /\ temp' = IF In(i, "save") THEN temp ELSE [temp EXCEPT ![i] = NoFile]
    /\ UNCHANGED edited

\* A failure while the editor runs is logged, and tried again at a next tick.
SaveFails(i) ==
    /\ In(i, "save") /\ Goes(i, "edit")
    /\ UNCHANGED <<disk, temp, edited, written>>

\* A refusal, a wrong key, a failure of the last save or of the editor.
Fails(i) ==
    /\ \E pc \in {"start", "unwrap", "wrap", "last", "final"} : In(i, pc)
    /\ Leaves(i, "error")
    /\ UNCHANGED <<disk, edited, written>>

\* Mutant: the file is truncated and written in place.
AfterCrash(i) == IF run[i].pc \in {"save", "final"} THEN Mangled ELSE disk

\* The temporary file of writeFileAtomic is all that a crash can leave.
LeftByCrash(i) == disk

Crash(i) ==
    /\ run[i].pc \notin {"ok", "error", "crashed"}
    /\ Goes(i, "crashed")
    /\ disk' = LeftByCrash(i)
    /\ UNCHANGED <<temp, edited, written>>

EditNext ==
    \E i \in Invocations :
        \/ Open(i) \/ Unwrap(i) \/ Wrap(i)
        \/ EditorWrites(i) \/ EditorExits(i)
        \/ PollSave(i) \/ LastSave(i) \/ NothingToSave(i) \/ Saved(i) \/ SaveFails(i)
        \/ Fails(i) \/ Crash(i)

EditSpec == EditInit /\ [][EditNext]_editVars

-----------------------------------------------------------------------------
(* Properties *)

\* Whatever sessions race, fail or crash, the file on disk is whole and its
\* header holds the key it was encrypted with (Serialize, writeFileAtomic).
OpensWithItsKey == disk # NoFile => disk # Mangled /\ disk.header = disk.key

\* A session that ends well has saved what the editor left, saves that failed
\* on the way included, and has created a file although the editor wrote what a
\* new file starts with; only a file the editor removed is ignored.
NothingLostSilently ==
    \A i \in Invocations : In(i, "ok") /\ edited[i] # NoFile =>
        /\ edited[i] = written[i]
        /\ run[i].touched => run[i].saved
=============================================================================
