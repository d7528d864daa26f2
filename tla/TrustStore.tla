----------------------------- MODULE TrustStore -----------------------------
(***************************************************************************)
(* The anchors that clients pin on first contact                           *)
(* (internal/clientcore/truststore.go and anchor.go, cmd/cli/cmd/trust.go):*)
(* one file for every process of the operator, read whole, kept in memory  *)
(* while the operator is asked, and written whole.                         *)
(***************************************************************************)
EXTENDS Naturals

CONSTANTS Targets,    \* pairs of a server and a user; each names its own anchor
          Legacy,     \* targets whose bundle was signed as version 1
          Operations, \* runs of a command, or calls of the Go client
          Forged,     \* an anchor that belongs to none of them
          NoAnchor,
          Torn        \* a file that does not parse

ASSUME TrustAssumption == Legacy \subseteq Targets /\ Forged \notin Targets /\ NoAnchor \notin Targets

VARIABLES store,    \* the file
          op,       \* the operations
          liveEpoch,\* the key epoch the server reports, which password changes advance
          agreed,   \* history: pairs the operator has confirmed
          overlap   \* history: the file was replaced between another's load and save

trustVars == <<store, op, liveEpoch, agreed, overlap>>

Anchors == Targets \union {Forged}
Pins == [Targets -> Anchors \union {NoAnchor}]
NoPins == [t \in Targets |-> NoAnchor]

\* What a bundle's signatures are over; version 2 binds no epoch.
V1(epoch) == <<1, epoch>>
V2 == <<2, 0>>

SignedAtSignup(t) == IF t \in Legacy THEN V1(1) ELSE V2

Bundles == [anchor : Anchors, signer : Anchors, over : {V1(1), V2}, version : 0 .. 3, epoch : {1, 2}]
NoBundle == [anchor |-> NoAnchor, signer |-> NoAnchor, over |-> V2, version |-> 0, epoch |-> 1]

Idle == [pc |-> "idle", target |-> Forged, bundle |-> NoBundle, pins |-> NoPins]

Operation == [pc : {"idle", "fetched", "loaded", "ask", "save", "write", "trusted", "refused"},
              target : Anchors, bundle : Bundles \union {NoBundle}, pins : Pins]

ASSUME TornAssumption == Torn \notin Pins

TrustTypeOK ==
    /\ store \in Pins \union {Torn}
    /\ op \in [Operations -> Operation]
    /\ liveEpoch \in {1, 2}
    /\ agreed \subseteq Targets \X Anchors
    /\ overlap \in BOOLEAN

TrustInit ==
    /\ store = NoPins
    /\ op = [o \in Operations |-> Idle]
    /\ liveEpoch = 1
    /\ agreed = {} /\ overlap = FALSE

-----------------------------------------------------------------------------
(* The server: what was signed at sign-up, or something else *)

Genuine(t, b) ==
    /\ b.anchor = t /\ b.signer = t /\ b.over = SignedAtSignup(t)
    /\ b.version \in IF t \in Legacy THEN {0, 1} ELSE {2}

Served(t) ==
    {b \in Bundles : b.epoch = liveEpoch /\ Genuine(t, b)} \union
    {[anchor |-> Forged, signer |-> Forged, over |-> V2, version |-> 2, epoch |-> 1],
     [anchor |-> t, signer |-> Forged, over |-> V2, version |-> 2, epoch |-> 1],
     [anchor |-> t, signer |-> t, over |-> V2, version |-> 3, epoch |-> 1]}

ChangePassword ==
    /\ liveEpoch = 1 /\ liveEpoch' = 2
    /\ UNCHANGED <<store, op, agreed, overlap>>

\* Mutant: the payload is rebuilt with the epoch in the response.
PayloadLive(b) == IF b.version = 2 THEN V2 ELSE V1(b.epoch)

\* The payload the signatures of a bundle are checked against.
Payload(b) == IF b.version = 2 THEN V2 ELSE V1(1)

\* VerifyAndPinAnchor, up to the trust store.
Verified(b) == b.version \in {0, 1, 2} /\ b.signer = b.anchor /\ b.over = Payload(b)

-----------------------------------------------------------------------------
(* An operation *)

At(o, pc) == op[o].pc = pc
Step(o, record) == op' = [op EXCEPT ![o] = record]

\* Mutant: whatever the user's anchor is now is fine.
MatchesAny(pins, t, anchor) == TRUE

\* CheckOrPinAnchor.
Matches(pins, t, anchor) == pins[t] = anchor

Checked(record) ==
    LET t == record.target
        anchor == record.bundle.anchor
    IN  [record EXCEPT !.pc = IF ~ Verified(record.bundle) THEN "refused"
                              ELSE IF record.pins[t] = NoAnchor THEN "ask"
                              ELSE IF Matches(record.pins, t, anchor) THEN "trusted"
                              ELSE "refused"]

\* What LoadTrustStore may return; a file that cannot be read is an error.
Readable == IF store = Torn THEN {} ELSE {store}

\* FetchPubkeyBundle and LoadTrustStore: an operation fetches first, the trust
\* command loads first.
Fetch(o) ==
    /\ At(o, "idle")
    /\ \E t \in Targets : \E b \in Served(t) :
         Step(o, [op[o] EXCEPT !.pc = "fetched", !.target = t, !.bundle = b])
    /\ UNCHANGED <<store, liveEpoch, agreed, overlap>>

LoadAndCheck(o) ==
    /\ At(o, "fetched")
    /\ \E pins \in Readable : Step(o, Checked([op[o] EXCEPT !.pins = pins]))
    /\ UNCHANGED <<store, liveEpoch, agreed, overlap>>

Load(o) ==
    /\ At(o, "idle")
    /\ \E pins \in Readable : Step(o, [op[o] EXCEPT !.pc = "loaded", !.pins = pins])
    /\ UNCHANGED <<store, liveEpoch, agreed, overlap>>

FetchAndCheck(o) ==
    /\ At(o, "loaded")
    /\ \E t \in Targets : \E b \in Served(t) :
         Step(o, Checked([op[o] EXCEPT !.target = t, !.bundle = b]))
    /\ UNCHANGED <<store, liveEpoch, agreed, overlap>>

\* The operator is shown the fingerprint; without a terminal nobody is asked,
\* and the trust command's --yes agrees to anything.
Confirm(o) ==
    /\ At(o, "ask")
    /\ LET t == op[o].target
           anchor == op[o].bundle.anchor
       IN  /\ Step(o, [op[o] EXCEPT !.pc = "save", !.pins[t] = anchor])
           /\ agreed' = agreed \union {<<t, anchor>>}
    /\ UNCHANGED <<store, liveEpoch, overlap>>

\* Declined, not asked, interrupted, or a step that fails; what was loaded and
\* the temporary file are gone.
Refuse(o) ==
    /\ \E pc \in {"fetched", "loaded", "ask", "save", "write"} : At(o, pc)
    /\ Step(o, [Idle EXCEPT !.pc = "refused"])
    /\ UNCHANGED <<store, liveEpoch, agreed, overlap>>

\* Mutant: the file is written in place.
WhileWriting == Torn

\* The file while SaveTrustStore writes its temporary file.
WhileSaving == store

StartSave(o) ==
    /\ At(o, "save")
    /\ Step(o, [op[o] EXCEPT !.pc = "write"])
    /\ store' = WhileSaving
    /\ UNCHANGED <<liveEpoch, agreed, overlap>>

\* Has it read the file and may yet write it?
Holds(o) == \E pc \in {"loaded", "ask", "save", "write"} : At(o, pc)

\* The rename replaces the whole file.
Rename(o) ==
    /\ At(o, "write")
    /\ store' = op[o].pins
    /\ overlap' = (overlap \/ \E p \in Operations \ {o} : Holds(p))
    /\ Step(o, [op[o] EXCEPT !.pc = "trusted"])
    /\ UNCHANGED <<liveEpoch, agreed>>

\* Another run of a command takes the place of one that has ended.
Again(o) ==
    /\ At(o, "trusted") \/ At(o, "refused")
    /\ Step(o, Idle)
    /\ UNCHANGED <<store, liveEpoch, agreed, overlap>>

TrustNext ==
    \/ ChangePassword
    \/ \E o \in Operations :
         \/ Fetch(o) \/ Load(o) \/ LoadAndCheck(o) \/ FetchAndCheck(o)
         \/ Confirm(o) \/ Refuse(o) \/ StartSave(o) \/ Rename(o) \/ Again(o)

TrustSpec == TrustInit /\ [][TrustNext]_trustVars

-----------------------------------------------------------------------------
(* Properties *)

\* An operation goes on only with an anchor that signed its own bundle and that
\* the operator has agreed to for this very target (CheckOrPinAnchor).
OnlyAgreed ==
    \A o \in Operations : At(o, "trusted") =>
        /\ <<op[o].target, op[o].bundle.anchor>> \in agreed
        /\ op[o].bundle.signer = op[o].bundle.anchor

\* As long as no two first contacts overlap, a pin that was saved stays, through
\* failures, refusals and crashes at any step (SaveTrustStore, LoadTrustStore).
PinsStay ==
    [][~ overlap' => /\ store' # Torn
                     /\ \A t \in Targets : store[t] # NoAnchor => store'[t] = store[t]]_trustVars

\* A password change never makes the bundle that was signed at sign-up fail
\* (PubkeyBundleWrappedKeyEpoch in VerifyAndPinAnchor).
SignupBundleVerifies ==
    \A o \in Operations :
        At(o, "refused") /\ op[o].bundle # NoBundle /\ Genuine(op[o].target, op[o].bundle) =>
            op[o].pins[op[o].target] \notin {NoAnchor, op[o].target}
=============================================================================
