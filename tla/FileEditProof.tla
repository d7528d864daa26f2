--------------------------- MODULE FileEditProof ---------------------------
(***************************************************************************)
(* Machine-checked proofs about FileEdit, for any number of invocations    *)
(* and any contents.                                                       *)
(***************************************************************************)
EXTENDS FileEdit, TLAPS

\* What an invocation knows at each point: what it has read, that its editor
\* and its hash agree with the two histories, and what it is about to save.
Progress(i) ==
    /\ In(i, "unwrap") => run[i].data \in Sealed
    /\ i \in Pipes => ~ (In(i, "edit") \/ In(i, "save") \/ In(i, "last"))
    /\ In(i, "edit") \/ In(i, "save") \/ In(i, "last") =>
         edited[i] = temp[i] /\ run[i].hash = written[i]
    /\ In(i, "final") => edited[i] = run[i].text

\* The part of NothingLostSilently that is about one invocation.
NothingLost(i) ==
    In(i, "ok") /\ edited[i] # NoFile =>
        edited[i] = written[i] /\ (run[i].touched => run[i].saved)

EditInv ==
    /\ EditTypeOK
    /\ OpensWithItsKey
    /\ \A i \in Invocations : Progress(i) /\ NothingLost(i)

LEMMA EditInitially == EditInit => EditInv
<1> SUFFICES ASSUME EditInit PROVE EditInv
  OBVIOUS
<1> USE DEF EditInit, Start, In
<1>1. \A i \in Invocations : run[i] = Start(i) /\ temp[i] = NoFile
  OBVIOUS
<1>2. Empty \in Plain
  BY EditAssumption DEF Plain
<1>3. EditTypeOK
  BY <1>1, <1>2 DEF EditTypeOK, Session
<1>4. \A i \in Invocations : Progress(i) /\ NothingLost(i)
  BY <1>1 DEF Progress, NothingLost
<1> QED BY <1>3, <1>4 DEF EditInv, OpensWithItsKey

\* One invocation goes to a state s, with a temporary file t and histories e, w.
Moves(i, s, t, e, w) ==
    /\ run' = [run EXCEPT ![i] = s] /\ temp' = [temp EXCEPT ![i] = t]
    /\ edited' = [edited EXCEPT ![i] = e] /\ written' = [written EXCEPT ![i] = w]

\* What that state has to be for the invariant.
Fits(i, s, t, e, w) ==
    /\ s \in Session /\ {t, e} \subseteq Plain \union {NoFile} /\ w \in Plain
    /\ s.pc = "unwrap" => s.data \in Sealed
    /\ i \in Pipes => s.pc \notin {"edit", "save", "last"}
    /\ s.pc \in {"edit", "save", "last"} => e = t /\ s.hash = w
    /\ s.pc = "final" => e = s.text
    /\ s.pc \in {"ok", "error"} => t = NoFile
    /\ s.pc = "ok" /\ e # NoFile => e = w /\ (s.touched => s.saved)

FileIsWhole == disk \in Sealed \union {NoFile} /\ (disk # NoFile => disk.header = disk.key)

LEMMA MovesKeep ==
    ASSUME EditInv, NEW i \in Invocations, NEW s, NEW t, NEW e, NEW w,
           Moves(i, s, t, e, w), Fits(i, s, t, e, w), FileIsWhole'
    PROVE  EditInv'
<1> USE DEF EditInv, Moves, Fits, In
<1>1. /\ run'[i] = s /\ temp'[i] = t /\ edited'[i] = e /\ written'[i] = w
      /\ \A j \in Invocations \ {i} :
           run'[j] = run[j] /\ temp'[j] = temp[j] /\ edited'[j] = edited[j] /\ written'[j] = written[j]
  BY DEF EditTypeOK
<1>2. EditTypeOK'
  BY <1>1 DEF EditTypeOK, FileIsWhole
<1>3. OpensWithItsKey'
  BY FilesAssumption DEF OpensWithItsKey, FileIsWhole
<1>4. ASSUME NEW j \in Invocations PROVE Progress(j)' /\ NothingLost(j)'
  <2>1. CASE j = i
    BY <2>1, <1>1 DEF Progress, NothingLost
  <2>2. CASE j # i
    BY <2>2, <1>1 DEF Progress, NothingLost
  <2> QED BY <2>1, <2>2
<1> QED BY <1>2, <1>3, <1>4

LEMMA FileStays == EditInv /\ UNCHANGED disk => FileIsWhole'
BY DEF EditInv, EditTypeOK, OpensWithItsKey, FileIsWhole

LEMMA Typed ==
    ASSUME EditInv, NEW i \in Invocations
    PROVE  /\ run[i] \in Session /\ {temp[i], edited[i]} \subseteq Plain \union {NoFile}
           /\ written[i] \in Plain
           /\ run = [run EXCEPT ![i] = run[i]] /\ temp = [temp EXCEPT ![i] = temp[i]]
           /\ edited = [edited EXCEPT ![i] = edited[i]]
           /\ written = [written EXCEPT ![i] = written[i]]
BY DEF EditInv, EditTypeOK

LEMMA Opening ==
    ASSUME EditInv, NEW i \in Invocations, Open(i) \/ Unwrap(i) \/ Wrap(i)
    PROVE  EditInv'
<1>1. FileIsWhole'
  BY FileStays DEF Open, Unwrap, Wrap
<1>2. CASE Open(i)
  <2> DEFINE s == IF disk = NoFile THEN [run[i] EXCEPT !.pc = "wrap"]
                                   ELSE [run[i] EXCEPT !.pc = "unwrap", !.data = disk]
  <2>1. Moves(i, s, temp[i], edited[i], written[i])
    BY <1>2, Typed DEF Open, Moves
  <2>2. disk # NoFile => disk \in Sealed
    BY <1>2 DEF Open, EditInv, EditTypeOK
  <2>3. Fits(i, s, temp[i], edited[i], written[i])
    BY <2>2, Typed DEF Session, Fits
  <2> QED BY <1>1, <2>1, <2>3, MovesKeep
<1>3. ASSUME NEW key \in Invocations, NEW text \in Plain, Begins(i, key, text), UNCHANGED disk
      PROVE  EditInv'
  <2>1. CASE i \in Pipes
    <3>1. PICK piped \in Texts :
            /\ run' = [run EXCEPT ![i] = [run[i] EXCEPT !.pc = "final", !.key = key, !.text = piped]]
            /\ edited' = [edited EXCEPT ![i] = piped]
      BY <1>3, <2>1 DEF Begins
    <3> DEFINE s == [run[i] EXCEPT !.pc = "final", !.key = key, !.text = piped]
    <3>2. Moves(i, s, temp[i], piped, written[i])
      BY <1>3, <2>1, <3>1, Typed DEF Begins, Moves
    <3>3. Fits(i, s, temp[i], piped, written[i])
      BY <2>1, Typed DEF Session, Fits, Plain
    <3> QED BY <1>1, <3>2, <3>3, MovesKeep
  <2>2. CASE i \notin Pipes
    <3> DEFINE s == [run[i] EXCEPT !.pc = "edit", !.key = key, !.hash = text]
    <3>1. Moves(i, s, text, text, text)
      BY <1>3, <2>2, Typed DEF Begins, Moves
    <3>2. Fits(i, s, text, text, text)
      BY <2>2, Typed DEF Session, Fits
    <3> QED BY <1>1, <3>1, <3>2, MovesKeep
  <2> QED BY <2>1, <2>2
<1>4. CASE Unwrap(i)
  <2>1. run[i].data \in Sealed
    BY <1>4 DEF Unwrap, EditInv, Progress
  <2>2. run[i].data.key \in Invocations /\ run[i].data.text \in Plain
    BY <2>1 DEF Sealed
  <2> QED BY <1>3, <1>4, <2>2 DEF Unwrap
<1>5. CASE Wrap(i)
  BY <1>3, <1>5, EditAssumption DEF Wrap, Plain
<1> QED BY <1>2, <1>4, <1>5

LEMMA Editing ==
    ASSUME EditInv, NEW i \in Invocations, EditorWrites(i) \/ EditorExits(i)
    PROVE  EditInv'
<1>1. FileIsWhole'
  BY FileStays DEF EditorWrites, EditorExits
<1>2. Progress(i)
  BY DEF EditInv
<1>3. CASE EditorWrites(i)
  <2>1. PICK text \in Plain \union {NoFile} :
          temp' = [temp EXCEPT ![i] = text] /\ edited' = [edited EXCEPT ![i] = text]
    BY <1>3 DEF EditorWrites
  <2> DEFINE s == [run[i] EXCEPT !.touched = TRUE]
  <2>2. Moves(i, s, text, text, written[i])
    BY <1>3, <2>1, Typed DEF EditorWrites, Moves
  <2>3. Fits(i, s, text, text, written[i])
    BY <1>2, <1>3, Typed DEF EditorWrites, Session, Fits, Progress, In
  <2> QED BY <1>1, <2>2, <2>3, MovesKeep
<1>4. CASE EditorExits(i)
  <2> DEFINE s == [run[i] EXCEPT !.pc = "last"]
  <2>1. Moves(i, s, temp[i], edited[i], written[i])
    BY <1>4, Typed DEF EditorExits, Moves, Goes
  <2>2. Fits(i, s, temp[i], edited[i], written[i])
    BY <1>2, <1>4, Typed DEF EditorExits, Session, Fits, Progress, In
  <2> QED BY <1>1, <2>1, <2>2, MovesKeep
<1> QED BY <1>3, <1>4

LEMMA Saving ==
    ASSUME EditInv, NEW i \in Invocations,
           PollSave(i) \/ LastSave(i) \/ Saved(i) \/ SaveFails(i)
    PROVE  EditInv'
<1>1. Progress(i)
  BY DEF EditInv
<1>2. UNCHANGED disk => FileIsWhole'
  BY FileStays
<1>3. ASSUME NEW pc \in {"save", "final"}, i \notin Pipes, Changed(i),
             edited[i] = temp[i], run[i].hash = written[i],
             run' = [run EXCEPT ![i] = [BeforeSaving(i) EXCEPT !.pc = pc]],
             UNCHANGED <<disk, temp, edited, written>>
      PROVE  EditInv'
  <2> DEFINE s == [[run[i] EXCEPT !.text = temp[i]] EXCEPT !.pc = pc]
  <2>1. Moves(i, s, temp[i], edited[i], written[i])
    BY <1>3, Typed DEF BeforeSaving, Moves
  <2>2. Fits(i, s, temp[i], edited[i], written[i])
    BY <1>3, Typed DEF Session, Fits, Changed
  <2> QED BY <1>2, <1>3, <2>1, <2>2, MovesKeep
<1>4. CASE PollSave(i)
  BY <1>1, <1>3, <1>4 DEF PollSave, Progress, In
<1>5. CASE LastSave(i)
  BY <1>1, <1>3, <1>5 DEF LastSave, Progress, In
<1>6. CASE Saved(i)
  <2>1. FileIsWhole'
    <3>1. run[i].key \in Invocations /\ run[i].text \in Plain
      BY Typed DEF Session
    <3> QED BY <1>6, <3>1 DEF Saved, Contents, HeaderOf, Sealed, FileIsWhole
  <2>2. PICK pc \in After(i) :
          run' = [run EXCEPT ![i] = [run[i] EXCEPT !.pc = pc, !.saved = TRUE, !.hash = run[i].text]]
    BY <1>6 DEF Saved
  <2> DEFINE u == [run[i] EXCEPT !.pc = pc]
             v == [u EXCEPT !.saved = TRUE]
             s == [v EXCEPT !.hash = run[i].text]
             t == IF In(i, "save") THEN temp[i] ELSE NoFile
  <2>3. Moves(i, s, t, edited[i], run[i].text)
    <3>1. temp' = [temp EXCEPT ![i] = t]
      BY <1>6, Typed DEF Saved
    <3>2. written' = [written EXCEPT ![i] = run[i].text] /\ UNCHANGED edited
      BY <1>6 DEF Saved
    <3> QED BY <2>2, <3>1, <3>2, Typed DEF Moves
  <2>4. Fits(i, s, t, edited[i], run[i].text)
    <3>1. run[i].pc = "save" \/ run[i].pc = "final"
      BY <1>6 DEF Saved, In
    <3>2. pc \in {"edit", "ok", "error"} /\ (run[i].pc = "save" <=> pc = "edit")
      BY <3>1 DEF After, In
    <3>3. u \in Session /\ u.pc = pc /\ u.text = run[i].text
      BY <3>2, Typed DEF Session
    <3> HIDE DEF u
    <3>4. v \in Session /\ v.pc = pc /\ v.text = run[i].text /\ v.saved
      BY <3>3 DEF Session
    <3> HIDE DEF v
    <3>5. /\ s \in Session /\ s.pc = pc /\ s.saved /\ s.text = run[i].text
          /\ s.hash = run[i].text
      BY <3>3, <3>4, Typed DEF Session
    <3> HIDE DEF s
    <3> QED BY <1>1, <3>1, <3>2, <3>5, Typed DEF Session, Fits, Progress, In
  <2> QED BY <2>1, <2>3, <2>4, MovesKeep
<1>7. CASE SaveFails(i)
  <2> DEFINE s == [run[i] EXCEPT !.pc = "edit"]
  <2>1. Moves(i, s, temp[i], edited[i], written[i])
    BY <1>7, Typed DEF SaveFails, Moves, Goes
  <2>2. Fits(i, s, temp[i], edited[i], written[i])
    BY <1>1, <1>7, Typed DEF SaveFails, Session, Fits, Progress, In
  <2> QED BY <1>2, <1>7, <2>1, <2>2, MovesKeep DEF SaveFails
<1> QED BY <1>4, <1>5, <1>6, <1>7

LEMMA Ending ==
    ASSUME EditInv, NEW i \in Invocations, NothingToSave(i) \/ Fails(i) \/ Crash(i)
    PROVE  EditInv'
<1>1. FileIsWhole'
  BY FileStays DEF NothingToSave, Fails, Crash, LeftByCrash
<1>2. Progress(i)
  BY DEF EditInv
<1>3. ASSUME NEW pc \in {"ok", "error"}, Leaves(i, pc), UNCHANGED <<edited, written>>,
             pc = "ok" /\ edited[i] # NoFile =>
                 edited[i] = written[i] /\ (run[i].touched => run[i].saved)
      PROVE  EditInv'
  <2> DEFINE s == [run[i] EXCEPT !.pc = pc]
  <2>1. Moves(i, s, NoFile, edited[i], written[i])
    BY <1>3, Typed DEF Leaves, Goes, Moves
  <2>2. Fits(i, s, NoFile, edited[i], written[i])
    BY <1>3, Typed DEF Session, Fits
  <2> QED BY <1>1, <2>1, <2>2, MovesKeep
<1>4. CASE NothingToSave(i)
  BY <1>2, <1>3, <1>4 DEF NothingToSave, Changed, Progress, In
<1>5. CASE Fails(i)
  BY <1>3, <1>5 DEF Fails
<1>6. CASE Crash(i)
  <2> DEFINE s == [run[i] EXCEPT !.pc = "crashed"]
  <2>1. Moves(i, s, temp[i], edited[i], written[i])
    BY <1>6, Typed DEF Crash, Goes, Moves
  <2>2. Fits(i, s, temp[i], edited[i], written[i])
    BY Typed DEF Session, Fits
  <2> QED BY <1>1, <2>1, <2>2, MovesKeep
<1> QED BY <1>4, <1>5, <1>6

LEMMA EditStep == EditInv /\ [EditNext]_editVars => EditInv'
<1> SUFFICES ASSUME EditInv, [EditNext]_editVars PROVE EditInv'
  OBVIOUS
<1>1. CASE EditNext
  BY <1>1, Opening, Editing, Saving, Ending DEF EditNext
<1>2. CASE UNCHANGED editVars
  BY <1>2 DEF editVars, EditInv, EditTypeOK, OpensWithItsKey, Progress, NothingLost, In
<1> QED BY <1>1, <1>2

\* The types of the file and of the invocations are kept.
THEOREM EditTypes == EditSpec => []EditTypeOK
<1>1. EditInv => EditTypeOK
  BY DEF EditInv
<1> QED BY EditInitially, EditStep, <1>1, PTL DEF EditSpec

\* However many invocations create or replace the file, fail or crash, its header
\* holds the key its contents are encrypted with (Serialize, writeFileAtomic).
THEOREM FileOpens == EditSpec => []OpensWithItsKey
<1>1. EditInv => OpensWithItsKey
  BY DEF EditInv
<1> QED BY EditInitially, EditStep, <1>1, PTL DEF EditSpec

\* A command that reports success has saved what the editor left, whatever the
\* editor did between the ticks and whichever saves have failed (saveIfChanged).
THEOREM EditsSurvive == EditSpec => []NothingLostSilently
<1>1. EditInv => NothingLostSilently
  BY DEF EditInv, NothingLostSilently, NothingLost
<1> QED BY EditInitially, EditStep, <1>1, PTL DEF EditSpec
=============================================================================
