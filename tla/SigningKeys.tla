---------------------------- MODULE SigningKeys ----------------------------
(***************************************************************************)
(* The public signing keys of one user: the table                          *)
(* v2_published_signing_keys (internal/db/signing_keys.go), the handlers   *)
(* that write it (routes-signing-keys.go), the automatic store after a     *)
(* confirmed signature (autoStoreSigningKey in routes-api.go), and the     *)
(* clients that read and verify a key (clientcore/signingkey.go).          *)
(*                                                                         *)
(* A key is named by its thumbprint, the primary key; a slot is an         *)
(* algorithm and a key label, and has one row at most.  A proof is the     *)
(* user's signature over a slot and a key.                                 *)
(***************************************************************************)
EXTENDS FiniteSets

CONSTANTS Slots, Thumbprints, Sessions, NoRow, NoProof, NoCall,
          Free, Anyone \* SQLite's write lock is free; Postgres has none

VARIABLES keyRow,   \* the committed rows, by thumbprint
          update,   \* the update call each session is making
          keyLock,  \* the session that holds SQLite's write lock
          proven    \* history: the proofs the user has signed

keyVars == <<keyRow, update, keyLock, proven>>

Proof == Slots \X Thumbprints
KeyRow == [slot: Slots, published: BOOLEAN, proof: Proof \union {NoProof}]
Update == [key: Thumbprints, slot: Slots, publish: BOOLEAN, proof: Proof \union {NoProof}]

ASSUME KeysAssumption == NoRow \notin KeyRow /\ NoCall \notin Update /\ NoProof \notin Proof

KeysTypeOK ==
    /\ keyRow \in [Thumbprints -> KeyRow \union {NoRow}]
    /\ update \in [Sessions -> Update \union {NoCall}]
    /\ keyLock \in Sessions \union {Free, Anyone}
    /\ proven \subseteq Proof
    /\ \A j, k \in Thumbprints :
         keyRow[j] # NoRow /\ keyRow[k] # NoRow /\ keyRow[j].slot = keyRow[k].slot => j = k

KeysInit ==
    /\ keyRow = [k \in Thumbprints |-> NoRow]
    /\ update = [s \in Sessions |-> NoCall]
    /\ keyLock \in {Free, Anyone}
    /\ proven = {}

In(slot) == {k \in Thumbprints : keyRow[k] # NoRow /\ keyRow[k].slot = slot}
Stored(k) == keyRow[k] # NoRow
NewRow(slot, published, proof) == [slot |-> slot, published |-> published, proof |-> proof]
MayWrite == keyLock \in {Free, Anyone}

-----------------------------------------------------------------------------
\* Mutant: a proof does not lock the slot.
ReplaceableProven(k) == ~ keyRow[k].published

Replaceable(k) == ~ keyRow[k].published /\ keyRow[k].proof = NoProof

\* Mutant: the row of the slot's former key stays.
AutoStoreBeside(slot, k) ==
    /\ MayWrite
    /\ \A j \in In(slot) : Replaceable(j)
    /\ ~ Stored(k) \/ k \in In(slot)
    /\ keyRow' = [keyRow EXCEPT ![k] = NewRow(slot, FALSE, NoProof)]
    /\ UNCHANGED <<update, keyLock, proven>>

\* AutoStoreUnpublished: one statement, outside the confirm's transaction.  A
\* key that is stored in another slot breaks the primary key, and the failure
\* is only logged.
AutoStore(slot, k) ==
    /\ MayWrite
    /\ \A j \in In(slot) : Replaceable(j)
    /\ ~ Stored(k) \/ k \in In(slot)
    /\ keyRow' = [j \in Thumbprints |-> IF j = k THEN NewRow(slot, FALSE, NoProof)
                                        ELSE IF j \in In(slot) THEN NoRow ELSE keyRow[j]]
    /\ UNCHANGED <<update, keyLock, proven>>

\* RouteV2APISigningKeyCreate: a proof that does not fit is refused, and so is
\* a slot or a key that is taken.
CreateKey(slot, k, published, proof) ==
    /\ MayWrite
    /\ published => proof # NoProof
    /\ proof \in {NoProof, <<slot, k>>}
    /\ In(slot) = {} /\ ~ Stored(k)
    /\ keyRow' = [keyRow EXCEPT ![k] = NewRow(slot, published, proof)]
    /\ proven' = proven \union ({proof} \ {NoProof})
    /\ UNCHANGED <<update, keyLock>>

\* RouteV2APISigningKeyUpdate reads the row and checks the proof against it ...
UpdateLoad(s, k, publish, proof) ==
    /\ update[s] = NoCall /\ MayWrite /\ Stored(k)
    /\ proof \in {NoProof, <<keyRow[k].slot, k>>}
    /\ publish => proof # NoProof \/ keyRow[k].proof # NoProof
    /\ update' = [update EXCEPT ![s] = [key |-> k, slot |-> keyRow[k].slot,
                                        publish |-> publish, proof |-> proof]]
    /\ keyLock' = IF keyLock = Free THEN s ELSE keyLock
    /\ proven' = proven \union ({proof} \ {NoProof})
    /\ UNCHANGED keyRow

EndUpdate(s) ==
    /\ update' = [update EXCEPT ![s] = NoCall]
    /\ keyLock' = IF keyLock = s THEN Free ELSE keyLock
    /\ UNCHANGED proven

\* StorePublicationProof and SetPublished: two writes of one row.
Updated(row, u) == [row EXCEPT !.published = u.publish,
                               !.proof = IF u.proof = NoProof THEN @ ELSE u.proof]

\* ... and writes the row of that thumbprint, if it is still there.
UpdateWrite(s) ==
    /\ update[s] # NoCall
    /\ keyLock \in {s, Anyone}
    /\ keyRow' = IF Stored(update[s].key)
                 THEN [keyRow EXCEPT ![update[s].key] = Updated(@, update[s])] ELSE keyRow
    /\ EndUpdate(s)

UpdateFails(s) == update[s] # NoCall /\ EndUpdate(s) /\ UNCHANGED keyRow

DeleteKey(k) ==
    /\ MayWrite /\ Stored(k)
    /\ keyRow' = [keyRow EXCEPT ![k] = NoRow]
    /\ UNCHANGED <<update, keyLock, proven>>

\* GetByID
Served(k) == IF Stored(k) THEN {keyRow[k]} ELSE {}

\* RouteV2SigningKeyPublic
ServedToAnyone(k) == {row \in Served(k) : row.published /\ row.proof # NoProof}

\* Mutant: the label of the proof is not compared.
VerifiesAnyLabel(row, slot, k) == row.proof # NoProof /\ row.proof[2] = k

\* VerifySigningKeyPublicResponse: the thumbprint is computed by the client.
Verifies(row, slot, k) == row.proof = <<slot, k>>

\* SigningPublicKey asks for the slot, published or not.
AcceptedBySlot == {p \in Proof : p[2] \in In(p[1]) /\ Verifies(keyRow[p[2]], p[1], p[2])}

\* A reader of the public page expects a label and verifies it.
AcceptedByPage == {p \in Proof : \E row \in ServedToAnyone(p[2]) : Verifies(row, p[1], p[2])}

KeysNext ==
    \/ \E slot \in Slots, k \in Thumbprints :
         \/ AutoStore(slot, k)
         \/ \E published \in BOOLEAN, proof \in {NoProof, <<slot, k>>} :
              CreateKey(slot, k, published, proof)
    \/ \E s \in Sessions : UpdateWrite(s) \/ UpdateFails(s)
    \/ \E s \in Sessions, k \in Thumbprints, publish \in BOOLEAN, proof \in Proof \union {NoProof} :
         UpdateLoad(s, k, publish, proof)
    \/ \E k \in Thumbprints : DeleteKey(k)

KeysSpec == KeysInit /\ [][KeysNext]_keyVars

-----------------------------------------------------------------------------
(* Properties *)

\* A verifying client accepts a key for a label only when the user has signed
\* that, over either database and whatever calls have interleaved.
AcceptedWereProven == AcceptedBySlot \union AcceptedByPage \subseteq proven

\* The key of a slot that the user proved or published goes only when the user
\* deletes it: no later signature replaces it (AutoStoreUnpublished).
ProvenKeysStay ==
    [][\A k \in Thumbprints : Stored(k) /\ (keyRow[k].published \/ keyRow[k].proof # NoProof) =>
          \/ keyRow'[k] # NoRow /\ keyRow'[k].slot = keyRow[k].slot
          \/ DeleteKey(k)]_keyVars
=============================================================================
