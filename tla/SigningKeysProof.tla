-------------------------- MODULE SigningKeysProof --------------------------
(***************************************************************************)
(* Machine-checked proofs about SigningKeys, for any number of slots, keys *)
(* and sessions, over SQLite and over Postgres.                            *)
(***************************************************************************)
EXTENDS SigningKeys, TLAPS

\* A proof that a row or a call carries has been signed by the user.  For a row
\* this is more than AcceptedWereProven says, which asks for nothing where the
\* proof is another slot's: two updates that interleave may store such a row.
RowsCarrySigned == \A k \in Thumbprints : Stored(k) => keyRow[k].proof \in proven \union {NoProof}
CallsCarrySigned == \A s \in Sessions : update[s] # NoCall => update[s].proof \in proven \union {NoProof}

KeysInv == KeysTypeOK /\ RowsCarrySigned /\ CallsCarrySigned

LEMMA KeysInitially == KeysInit => KeysInv
BY DEF KeysInit, KeysInv, KeysTypeOK, RowsCarrySigned, CallsCarrySigned, Stored

-----------------------------------------------------------------------------
(* Every step keeps the invariant *)

\* What the table has to be after a step.
GoodTable(rows, signed) ==
    /\ rows \in [Thumbprints -> KeyRow \union {NoRow}]
    /\ \A j, k \in Thumbprints :
         rows[j] # NoRow /\ rows[k] # NoRow /\ rows[j].slot = rows[k].slot => j = k
    /\ \A k \in Thumbprints : rows[k] # NoRow => rows[k].proof \in signed \union {NoProof}

LEMMA GoodNow == KeysInv <=> /\ GoodTable(keyRow, proven) /\ CallsCarrySigned
                             /\ update \in [Sessions -> Update \union {NoCall}]
                             /\ keyLock \in Sessions \union {Free, Anyone} /\ proven \subseteq Proof
BY DEF KeysInv, GoodTable, KeysTypeOK, RowsCarrySigned, Stored

LEMMA TableStep ==
    ASSUME KeysInv, GoodTable(keyRow', proven'), UNCHANGED <<update, keyLock>>,
           proven \subseteq proven', proven' \subseteq Proof
    PROVE  KeysInv'
<1>1. CallsCarrySigned'
  BY GoodNow DEF CallsCarrySigned
<1> QED BY <1>1, GoodNow DEF KeysInv, GoodTable, KeysTypeOK, RowsCarrySigned, Stored

LEMMA AutoStoreKeeps ==
    ASSUME KeysInv, NEW slot \in Slots, NEW k \in Thumbprints, AutoStore(slot, k)
    PROVE  KeysInv'
<1> DEFINE row == NewRow(slot, FALSE, NoProof)
<1>1. row \in KeyRow /\ row.slot = slot /\ row.proof = NoProof
  BY DEF NewRow, KeyRow
<1> HIDE DEF row
<1>2. /\ keyRow' = [j \in Thumbprints |-> IF j = k THEN row
                                          ELSE IF j \in In(slot) THEN NoRow ELSE keyRow[j]]
      /\ UNCHANGED <<update, keyLock, proven>>
  BY DEF AutoStore, row
<1>3. \A j \in Thumbprints : j \notin In(slot) /\ keyRow[j] # NoRow => keyRow[j].slot # slot
  BY DEF In
<1>4. GoodTable(keyRow, proven)
  BY GoodNow
<1>5. GoodTable(keyRow', proven')
  BY <1>1, <1>2, <1>3, <1>4 DEF GoodTable
<1> QED BY <1>2, <1>5, TableStep, GoodNow

LEMMA CreateKeeps ==
    ASSUME KeysInv, NEW slot \in Slots, NEW k \in Thumbprints, NEW published \in BOOLEAN,
           NEW proof \in {NoProof, <<slot, k>>}, CreateKey(slot, k, published, proof)
    PROVE  KeysInv'
<1> DEFINE row == NewRow(slot, published, proof)
<1>1. row \in KeyRow /\ row.slot = slot /\ row.proof = proof
  BY DEF NewRow, KeyRow, Proof
<1> HIDE DEF row
<1>2. /\ keyRow' = [keyRow EXCEPT ![k] = row] /\ UNCHANGED <<update, keyLock>>
      /\ proven' = proven \union ({proof} \ {NoProof})
  BY DEF CreateKey, row
<1>3. \A j \in Thumbprints : keyRow[j] # NoRow => keyRow[j].slot # slot
  BY DEF CreateKey, In
<1>4. GoodTable(keyRow, proven) /\ proven \subseteq Proof
  BY GoodNow
<1>5. GoodTable(keyRow', proven')
  BY <1>1, <1>2, <1>3, <1>4 DEF GoodTable
<1>6. proven \subseteq proven' /\ proven' \subseteq Proof
  BY <1>2, <1>4 DEF Proof
<1> QED BY <1>2, <1>5, <1>6, TableStep

LEMMA LoadKeeps ==
    ASSUME KeysInv, NEW s \in Sessions, NEW k \in Thumbprints, NEW publish \in BOOLEAN,
           NEW proof \in Proof \union {NoProof}, UpdateLoad(s, k, publish, proof)
    PROVE  KeysInv'
<1> DEFINE u == [key |-> k, slot |-> keyRow[k].slot, publish |-> publish, proof |-> proof]
<1>1. keyRow[k] \in KeyRow
  BY DEF UpdateLoad, Stored, KeysInv, KeysTypeOK
<1>2. u \in Update /\ u.proof = proof
  BY <1>1 DEF Update, KeyRow
<1> HIDE DEF u
<1>3. /\ update' = [update EXCEPT ![s] = u] /\ keyRow' = keyRow
      /\ keyLock' \in {s, keyLock} /\ proven' = proven \union ({proof} \ {NoProof})
  BY DEF UpdateLoad, u
<1>4. GoodTable(keyRow', proven')
  BY <1>3, GoodNow DEF GoodTable
<1>5. CallsCarrySigned'
  BY <1>2, <1>3, GoodNow DEF CallsCarrySigned
<1>6. /\ update' \in [Sessions -> Update \union {NoCall}]
      /\ keyLock' \in Sessions \union {Free, Anyone} /\ proven' \subseteq Proof
  BY <1>2, <1>3, GoodNow
<1> QED BY <1>4, <1>5, <1>6 DEF KeysInv, GoodTable, KeysTypeOK, RowsCarrySigned, Stored

LEMMA EndKeeps ==
    ASSUME KeysInv, NEW s \in Sessions, EndUpdate(s), GoodTable(keyRow', proven)
    PROVE  KeysInv'
<1>1. /\ update' = [update EXCEPT ![s] = NoCall] /\ proven' = proven
      /\ keyLock' \in {Free, keyLock}
  BY DEF EndUpdate
<1>2. CallsCarrySigned'
  BY <1>1, GoodNow DEF CallsCarrySigned
<1> QED BY <1>1, <1>2, GoodNow DEF KeysInv, GoodTable, KeysTypeOK, RowsCarrySigned, Stored

\* The row that an update writes keeps its slot.
LEMMA UpdatedRow ==
    ASSUME NEW row \in KeyRow, NEW u \in Update
    PROVE  /\ Updated(row, u) \in KeyRow /\ Updated(row, u).slot = row.slot
           /\ Updated(row, u).published = u.publish
           /\ Updated(row, u).proof = IF u.proof = NoProof THEN row.proof ELSE u.proof
BY DEF Updated, KeyRow, Update

LEMMA WriteKeeps ==
    ASSUME KeysInv, NEW s \in Sessions, UpdateWrite(s)
    PROVE  KeysInv'
<1>1. update[s] \in Update /\ EndUpdate(s) /\ GoodTable(keyRow, proven)
  BY GoodNow DEF UpdateWrite
<1>2. CASE ~ Stored(update[s].key)
  BY <1>1, <1>2, EndKeeps DEF UpdateWrite
<1>3. CASE Stored(update[s].key)
  <2> DEFINE u == update[s]
             k == update[s].key
             row == Updated(keyRow[k], u)
  <2>1. k \in Thumbprints /\ keyRow[k] \in KeyRow /\ u \in Update
    BY <1>1, <1>3 DEF Update, Stored, GoodTable
  <2>2. /\ row \in KeyRow /\ row.slot = keyRow[k].slot
        /\ row.proof = IF u.proof = NoProof THEN keyRow[k].proof ELSE u.proof
    BY <2>1, UpdatedRow
  <2>3. u.proof \in proven \union {NoProof} /\ keyRow[k].proof \in proven \union {NoProof}
    BY <1>1, <1>3, <2>1, GoodNow DEF CallsCarrySigned, GoodTable, Stored, UpdateWrite
  <2>4. keyRow' = [keyRow EXCEPT ![k] = row]
    BY <1>3 DEF UpdateWrite
  <2>5. keyRow[k] # NoRow
    BY <1>3 DEF Stored
  <2> HIDE DEF row, u, k
  <2>6. GoodTable(keyRow', proven)
    BY <1>1, <2>1, <2>2, <2>3, <2>4, <2>5 DEF GoodTable
  <2> QED BY <1>1, <2>6, EndKeeps
<1> QED BY <1>2, <1>3

LEMMA DeleteKeeps ==
    ASSUME KeysInv, NEW k \in Thumbprints, DeleteKey(k) PROVE KeysInv'
<1>1. keyRow' = [keyRow EXCEPT ![k] = NoRow] /\ UNCHANGED <<update, keyLock, proven>>
  BY DEF DeleteKey
<1>2. GoodTable(keyRow', proven')
  BY <1>1, GoodNow DEF GoodTable
<1> QED BY <1>1, <1>2, TableStep, GoodNow

LEMMA KeysStep == KeysInv /\ [KeysNext]_keyVars => KeysInv'
<1> SUFFICES ASSUME KeysInv, [KeysNext]_keyVars PROVE KeysInv'
  OBVIOUS
<1>1. CASE \E slot \in Slots, k \in Thumbprints : AutoStore(slot, k)
  BY <1>1, AutoStoreKeeps
<1>2. CASE \E slot \in Slots, k \in Thumbprints, published \in BOOLEAN :
             \E proof \in {NoProof, <<slot, k>>} : CreateKey(slot, k, published, proof)
  BY <1>2, CreateKeeps
<1>3. CASE \E s \in Sessions : UpdateWrite(s) \/ UpdateFails(s)
  <2>1. ASSUME NEW s \in Sessions, UpdateFails(s) PROVE KeysInv'
    BY <2>1, EndKeeps, GoodNow DEF UpdateFails
  <2> QED BY <1>3, <2>1, WriteKeeps
<1>4. CASE \E s \in Sessions, k \in Thumbprints, publish \in BOOLEAN, proof \in Proof \union {NoProof} :
             UpdateLoad(s, k, publish, proof)
  BY <1>4, LoadKeeps
<1>5. CASE \E k \in Thumbprints : DeleteKey(k)
  BY <1>5, DeleteKeeps
<1>6. CASE UNCHANGED keyVars
  BY <1>6, TableStep, GoodNow DEF keyVars
<1> QED BY <1>1, <1>2, <1>3, <1>4, <1>5, <1>6 DEF KeysNext

LEMMA KeysInductive == KeysSpec => []KeysInv
BY KeysInitially, KeysStep, PTL DEF KeysSpec

-----------------------------------------------------------------------------
(* What follows *)

\* The table holds one row for each slot at most (the UNIQUE constraint of
\* v2_published_signing_keys), and everything keeps its type.
THEOREM OneRowPerSlot == KeysSpec => []KeysTypeOK
BY KeysInductive, PTL DEF KeysInv

\* A verifying client accepts a key for a label only when the user has signed
\* just that, however the updates interleave (VerifySigningKeyPublicResponse).
THEOREM AcceptedKeysAreProven == KeysSpec => []AcceptedWereProven
<1>1. ASSUME KeysInv, NEW slot \in Slots, NEW k \in Thumbprints,
             Stored(k), Verifies(keyRow[k], slot, k)
      PROVE  <<slot, k>> \in proven
  BY <1>1, KeysAssumption DEF KeysInv, RowsCarrySigned, Verifies, Proof
<1>2. ASSUME KeysInv, NEW a \in Proof, a \in AcceptedBySlot \union AcceptedByPage
      PROVE  a \in proven
  <2>1. PICK slot \in Slots, k \in Thumbprints : a = <<slot, k>>
    BY DEF Proof
  <2>2. Stored(k) /\ Verifies(keyRow[k], slot, k)
    BY <1>2, <2>1 DEF AcceptedBySlot, AcceptedByPage, In, ServedToAnyone, Served, Stored
  <2> QED BY <1>1, <1>2, <2>1, <2>2
<1>3. KeysInv => AcceptedWereProven
  BY <1>2 DEF AcceptedWereProven, AcceptedBySlot, AcceptedByPage
<1> QED BY <1>3, KeysInductive, PTL

\* No later signature replaces a key that the user has proved or published
\* (AutoStoreUnpublished).
THEOREM ProvenKeysLast == KeysSpec => ProvenKeysStay
<1> DEFINE Locked(k) == Stored(k) /\ (keyRow[k].published \/ keyRow[k].proof # NoProof)
           Stays(k) == keyRow'[k] # NoRow /\ keyRow'[k].slot = keyRow[k].slot
<1>1. ASSUME KeysInv, [KeysNext]_keyVars, NEW k \in Thumbprints, Locked(k)
      PROVE  Stays(k) \/ DeleteKey(k)
  <2>1. keyRow[k] \in KeyRow /\ keyRow[k] # NoRow /\ keyRow \in [Thumbprints -> KeyRow \union {NoRow}]
    BY <1>1 DEF Stored, KeysInv, KeysTypeOK
  <2>2. ASSUME NEW slot \in Slots, NEW j \in Thumbprints, AutoStore(slot, j)
        PROVE  Stays(k)
    <3>1. k \notin In(slot)
      BY <1>1, <2>2 DEF AutoStore, Replaceable
    <3>2. j # k
      BY <1>1, <2>2, <3>1 DEF AutoStore
    <3> QED BY <2>1, <2>2, <3>1, <3>2 DEF AutoStore
  <2>3. ASSUME NEW slot \in Slots, NEW j \in Thumbprints, NEW published, NEW proof,
               CreateKey(slot, j, published, proof)
        PROVE  Stays(k)
    BY <1>1, <2>1, <2>3 DEF CreateKey
  <2>4. ASSUME NEW s \in Sessions, UpdateWrite(s) PROVE Stays(k)
    <3>1. update[s] \in Update
      BY <1>1, <2>4 DEF KeysInv, KeysTypeOK, UpdateWrite
    <3>2. CASE Stored(update[s].key) /\ update[s].key = k
      <4>1. keyRow'[k] = Updated(keyRow[k], update[s])
        BY <2>1, <2>4, <3>2 DEF UpdateWrite
      <4> QED BY <2>1, <3>1, <4>1, UpdatedRow, KeysAssumption
    <3>3. CASE ~ (Stored(update[s].key) /\ update[s].key = k)
      BY <2>1, <2>4, <3>3 DEF UpdateWrite
    <3> QED BY <3>2, <3>3
  <2>5. ASSUME NEW j \in Thumbprints, DeleteKey(j) PROVE Stays(k) \/ DeleteKey(k)
    BY <2>1, <2>5 DEF DeleteKey
  <2>6. CASE UNCHANGED keyRow
    BY <2>1, <2>6
  <2>7. \/ \E slot \in Slots, j \in Thumbprints : AutoStore(slot, j)
        \/ \E slot \in Slots, j \in Thumbprints, published \in BOOLEAN :
             \E proof \in {NoProof, <<slot, j>>} : CreateKey(slot, j, published, proof)
        \/ \E s \in Sessions : UpdateWrite(s)
        \/ \E j \in Thumbprints : DeleteKey(j)
        \/ UNCHANGED keyRow
    BY <1>1 DEF KeysNext, UpdateFails, UpdateLoad, keyVars
  <2> QED BY <2>2, <2>3, <2>4, <2>5, <2>6, <2>7
<1> DEFINE Keeps ==
      \A k \in Thumbprints : Stored(k) /\ (keyRow[k].published \/ keyRow[k].proof # NoProof) =>
          \/ keyRow'[k] # NoRow /\ keyRow'[k].slot = keyRow[k].slot
          \/ DeleteKey(k)
<1>2. KeysInv /\ [KeysNext]_keyVars => [Keeps]_keyVars
  BY <1>1
<1> QED BY <1>2, KeysInductive, PTL DEF KeysSpec, ProvenKeysStay
=============================================================================
