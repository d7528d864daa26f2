-------------------------- MODULE TrustStoreProof --------------------------
(***************************************************************************)
(* Machine-checked proofs about TrustStore, for any number of targets and  *)
(* of operations that share one file.                                      *)
(***************************************************************************)
EXTENDS TrustStore, TLAPS

\* The pins P have been agreed to.
AgreedTo(P, A) == \A t \in Targets : P[t] # NoAnchor => <<t, P[t]>> \in A

\* What an operation r knows of the store S, the agreements A and the overlap V.
Sound(r, S, A, V) ==
    /\ r \in Operation
    /\ AgreedTo(r.pins, A)
    /\ r.pc \in {"fetched", "ask", "save", "write", "trusted"} =>
         r.target \in Targets /\ r.bundle \in Bundles
    /\ r.pc \in {"ask", "save", "write", "trusted"} => r.bundle.signer = r.bundle.anchor
    /\ r.pc \in {"save", "write", "trusted"} => <<r.target, r.bundle.anchor>> \in A
    /\ r.pc = "ask" => r.pins[r.target] = NoAnchor
    /\ ~ V /\ r.pc \in {"loaded", "ask"} => r.pins = S
    /\ ~ V /\ r.pc \in {"save", "write"} => \A t \in Targets : S[t] # NoAnchor => r.pins[t] = S[t]
    /\ r.pc = "refused" /\ r.bundle # NoBundle /\ Genuine(r.target, r.bundle) =>
         r.pins[r.target] \notin {NoAnchor, r.target}

TrustInv ==
    /\ store \in Pins /\ AgreedTo(store, agreed)
    /\ liveEpoch \in {1, 2} /\ agreed \subseteq Targets \X Anchors /\ overlap \in BOOLEAN
    /\ op \in [Operations -> Operation]
    /\ \A o \in Operations : Sound(op[o], store, agreed, overlap)

LEMMA IdleSound == ASSUME NEW S, NEW A, NEW V, NEW pc \in {"idle", "refused"}
                   PROVE  Sound([Idle EXCEPT !.pc = pc], S, A, V)
<1>1. NoPins \in Pins /\ \A t \in Targets : NoPins[t] = NoAnchor
  BY DEF NoPins, Pins
<1> HIDE DEF NoPins, NoBundle, Pins
<1> QED BY <1>1 DEF Idle, Sound, AgreedTo, Operation, Anchors

LEMMA TrustInitially == TrustInit => TrustInv
<1> SUFFICES ASSUME TrustInit PROVE TrustInv
  OBVIOUS
<1>1. \A t \in Targets : NoPins[t] = NoAnchor
  BY DEF NoPins
<1>2. NoPins \in Pins /\ AgreedTo(NoPins, {})
  BY <1>1 DEF NoPins, Pins, AgreedTo
<1>3. Idle = [Idle EXCEPT !.pc = "idle"]
  BY DEF Idle
<1>4. Sound(Idle, store, agreed, overlap)
  BY <1>3, IdleSound
<1> QED BY <1>2, <1>4 DEF TrustInit, TrustInv, Sound

\* A bundle that the server signed at sign-up passes, whatever epoch it reports.
LEMMA GenuineVerifies ==
    ASSUME NEW t, NEW b, Genuine(t, b) PROVE Verified(b) /\ b.anchor = t
BY DEF Genuine, Verified, SignedAtSignup, Payload, V1, V2

LEMMA ServedBundles == ASSUME NEW t \in Targets PROVE Served(t) \subseteq Bundles
BY DEF Served, Bundles, Anchors, V1, V2

LEMMA CheckedSound ==
    ASSUME NEW S, NEW A, NEW V, NEW r \in Operation, AgreedTo(r.pins, A),
           r.target \in Targets, r.bundle \in Bundles, ~ V => r.pins = S
    PROVE  Sound(Checked(r), S, A, V)
<1> DEFINE pc == Checked(r).pc
<1>1. Checked(r) = [r EXCEPT !.pc = pc] /\ pc \in {"refused", "ask", "trusted"}
  BY DEF Checked, Operation
<1>2. pc \in {"ask", "trusted"} => Verified(r.bundle)
  BY DEF Checked, Operation
<1>3. pc = "ask" => r.pins[r.target] = NoAnchor
  BY DEF Checked, Operation
<1>4. pc = "trusted" => r.pins[r.target] # NoAnchor /\ r.pins[r.target] = r.bundle.anchor
  BY DEF Checked, Operation, Matches
<1>5. pc = "refused" /\ Genuine(r.target, r.bundle) => r.pins[r.target] \notin {NoAnchor, r.target}
  BY GenuineVerifies DEF Checked, Operation, Matches
<1>6. /\ Checked(r) \in Operation /\ Checked(r).target = r.target
      /\ Checked(r).bundle = r.bundle /\ Checked(r).pins = r.pins
  BY <1>1 DEF Operation
<1> HIDE DEF pc
<1> QED BY <1>1, <1>2, <1>3, <1>4, <1>5, <1>6 DEF Sound, AgreedTo, Verified

-----------------------------------------------------------------------------
(* Every step keeps the invariant *)

\* What the other operations do leaves an operation's knowledge valid, unless
\* they replace the file it has read.
LEMMA SoundStays ==
    ASSUME NEW r, NEW S, NEW A, NEW V \in BOOLEAN, Sound(r, S, A, V),
           NEW T, NEW B, NEW W \in BOOLEAN, A \subseteq B, V => W,
           T = S \/ (r.pc \in {"loaded", "ask", "save", "write"} => W)
    PROVE  Sound(r, T, B, W)
BY DEF Sound, AgreedTo

LEMMA MovesKeep ==
    ASSUME TrustInv, NEW o \in Operations, NEW r, Step(o, r), liveEpoch' = liveEpoch,
           Sound(r, store', agreed', overlap'),
           store' \in Pins, AgreedTo(store', agreed'),
           agreed \subseteq agreed', agreed' \subseteq Targets \X Anchors,
           overlap' \in BOOLEAN, overlap => overlap',
           \A p \in Operations \ {o} : store' = store \/ (Holds(p) => overlap')
    PROVE  TrustInv'
<1>1. op'[o] = r /\ \A p \in Operations \ {o} : op'[p] = op[p]
  BY DEF TrustInv, Step
<1>2. op' \in [Operations -> Operation]
  BY DEF TrustInv, Step, Sound
<1>3. ASSUME NEW p \in Operations PROVE Sound(op'[p], store', agreed', overlap')
  <2>1. CASE p = o
    BY <2>1, <1>1
  <2>2. CASE p # o
    <3>1. Sound(op[p], store, agreed, overlap) /\ overlap \in BOOLEAN
      BY DEF TrustInv
    <3>2. store' = store \/ (op[p].pc \in {"loaded", "ask", "save", "write"} => overlap')
      BY <2>2 DEF Holds, At
    <3> QED BY <2>2, <1>1, <3>1, <3>2, SoundStays
  <2> QED BY <2>1, <2>2
<1> QED BY <1>2, <1>3 DEF TrustInv

\* A step of one operation that leaves the file alone.
LEMMA QuietKeeps ==
    ASSUME TrustInv, NEW o \in Operations, NEW r, Step(o, r),
           UNCHANGED <<store, liveEpoch, agreed, overlap>>, Sound(r, store, agreed, overlap)
    PROVE  TrustInv'
BY MovesKeep DEF TrustInv

LEMMA Known ==
    ASSUME TrustInv, NEW o \in Operations
    PROVE  op[o] \in Operation /\ Sound(op[o], store, agreed, overlap)
BY DEF TrustInv

LEMMA FetchKeeps ==
    ASSUME TrustInv, NEW o \in Operations, Fetch(o) \/ FetchAndCheck(o)
    PROVE  TrustInv'
<1>1. CASE Fetch(o)
  <2>1. PICK t \in Targets : \E b \in Served(t) :
          Step(o, [op[o] EXCEPT !.pc = "fetched", !.target = t, !.bundle = b])
    BY <1>1 DEF Fetch
  <2>b. PICK b \in Served(t) : Step(o, [op[o] EXCEPT !.pc = "fetched", !.target = t, !.bundle = b])
    BY <2>1
  <2>2. b \in Bundles
    BY ServedBundles
  <2> DEFINE r == [op[o] EXCEPT !.pc = "fetched", !.target = t, !.bundle = b]
  <2>3. /\ r \in Operation /\ r.pc = "fetched" /\ r.target = t /\ r.bundle = b
        /\ r.pins = op[o].pins
    BY <2>2, Known DEF Operation, Anchors
  <2>4. Step(o, r)
    BY <2>b
  <2> HIDE DEF r
  <2>5. Sound(r, store, agreed, overlap)
    BY <2>2, <2>3, Known DEF Sound
  <2> QED BY <1>1, <2>4, <2>5, QuietKeeps DEF Fetch
<1>2. CASE FetchAndCheck(o)
  <2>1. PICK t \in Targets : \E b \in Served(t) :
          Step(o, Checked([op[o] EXCEPT !.target = t, !.bundle = b]))
    BY <1>2 DEF FetchAndCheck
  <2>b. PICK b \in Served(t) : Step(o, Checked([op[o] EXCEPT !.target = t, !.bundle = b]))
    BY <2>1
  <2>2. b \in Bundles
    BY ServedBundles
  <2> DEFINE r == [op[o] EXCEPT !.target = t, !.bundle = b]
  <2>3. r \in Operation /\ r.target = t /\ r.bundle = b /\ r.pins = op[o].pins
    BY <2>2, Known DEF Operation, Anchors
  <2>4. AgreedTo(op[o].pins, agreed) /\ (~ overlap => op[o].pins = store)
    BY <1>2, Known DEF Sound, FetchAndCheck, At
  <2>5. Step(o, Checked(r))
    BY <2>b
  <2> HIDE DEF r
  <2>6. Sound(Checked(r), store, agreed, overlap)
    BY <2>2, <2>3, <2>4, CheckedSound
  <2> QED BY <1>2, <2>5, <2>6, QuietKeeps DEF FetchAndCheck
<1> QED BY <1>1, <1>2

LEMMA LoadKeeps ==
    ASSUME TrustInv, NEW o \in Operations, Load(o) \/ LoadAndCheck(o)
    PROVE  TrustInv'
<1>1. store \in Pins /\ AgreedTo(store, agreed)
  BY DEF TrustInv
<1>2. CASE Load(o)
  <2> DEFINE r == [op[o] EXCEPT !.pc = "loaded", !.pins = store]
  <2>1. Step(o, r)
    BY <1>2 DEF Load, Readable
  <2>2. r \in Operation /\ r.pc = "loaded" /\ r.pins = store
    BY <1>1, Known DEF Operation
  <2> HIDE DEF r
  <2>3. Sound(r, store, agreed, overlap)
    BY <1>1, <2>2 DEF Sound
  <2> QED BY <1>2, <2>1, <2>3, QuietKeeps DEF Load
<1>3. CASE LoadAndCheck(o)
  <2> DEFINE r == [op[o] EXCEPT !.pins = store]
  <2>1. Step(o, Checked(r))
    BY <1>3 DEF LoadAndCheck, Readable
  <2>2. op[o].target \in Targets /\ op[o].bundle \in Bundles
    BY <1>3, Known DEF Sound, LoadAndCheck, At
  <2>3. r \in Operation /\ r.target = op[o].target /\ r.bundle = op[o].bundle /\ r.pins = store
    BY <1>1, Known DEF Operation
  <2> HIDE DEF r
  <2>4. Sound(Checked(r), store, agreed, overlap)
    BY <1>1, <2>2, <2>3, CheckedSound
  <2> QED BY <1>3, <2>1, <2>4, QuietKeeps DEF LoadAndCheck
<1> QED BY <1>2, <1>3

LEMMA ConfirmKeeps ==
    ASSUME TrustInv, NEW o \in Operations, Confirm(o) PROVE TrustInv'
<1> DEFINE t == op[o].target
           a == op[o].bundle.anchor
           pins == [op[o].pins EXCEPT ![t] = a]
           r == [op[o] EXCEPT !.pc = "save", !.pins = pins]
<1>1. /\ op[o] \in Operation /\ op[o].pc = "ask" /\ t \in Targets /\ op[o].bundle \in Bundles
      /\ a \in Anchors /\ op[o].bundle.signer = a /\ op[o].pins[t] = NoAnchor
      /\ op[o].pins \in Pins /\ AgreedTo(op[o].pins, agreed)
      /\ (~ overlap => op[o].pins = store)
  BY Known DEF Confirm, Sound, At, Bundles, Operation
<1>2. Step(o, r) /\ agreed' = agreed \union {<<t, a>>}
  BY DEF Confirm, Step
<1>3. pins \in Pins /\ pins[t] = a /\ \A u \in Targets \ {t} : pins[u] = op[o].pins[u]
  BY <1>1 DEF Pins
<1> HIDE DEF pins
<1>4. /\ r \in Operation /\ r.pc = "save" /\ r.pins = pins
      /\ r.target = t /\ r.bundle = op[o].bundle
  BY <1>1, <1>3 DEF Operation
<1> HIDE DEF r
<1>5. AgreedTo(pins, agreed')
  BY <1>1, <1>2, <1>3 DEF AgreedTo
<1>6. ~ overlap => \A u \in Targets : store[u] # NoAnchor => pins[u] = store[u]
  BY <1>1, <1>3
<1>7. Sound(r, store, agreed', overlap)
  BY <1>1, <1>2, <1>4, <1>5, <1>6 DEF Sound
<1>8. AgreedTo(store, agreed') /\ agreed' \subseteq Targets \X Anchors
  BY <1>1, <1>2 DEF TrustInv, AgreedTo
<1> QED BY <1>2, <1>7, <1>8, MovesKeep DEF Confirm, TrustInv

LEMMA EndKeeps ==
    ASSUME TrustInv, NEW o \in Operations, Refuse(o) \/ Again(o) PROVE TrustInv'
<1>1. Idle = [Idle EXCEPT !.pc = "idle"]
  BY DEF Idle
<1>2. Sound(Idle, store, agreed, overlap)
  BY <1>1, IdleSound
<1>3. Sound([Idle EXCEPT !.pc = "refused"], store, agreed, overlap)
  BY IdleSound
<1> QED BY <1>2, <1>3, QuietKeeps DEF Refuse, Again

LEMMA SaveKeeps ==
    ASSUME TrustInv, NEW o \in Operations, StartSave(o) \/ Rename(o) PROVE TrustInv'
<1>1. CASE StartSave(o)
  <2> DEFINE r == [op[o] EXCEPT !.pc = "write"]
  <2>1. /\ r \in Operation /\ r.pc = "write" /\ r.pins = op[o].pins
        /\ r.target = op[o].target /\ r.bundle = op[o].bundle /\ op[o].pc = "save"
    BY <1>1, Known DEF Operation, StartSave, At
  <2>2. Step(o, r)
    BY <1>1 DEF StartSave
  <2> HIDE DEF r
  <2>3. Sound(r, store, agreed, overlap)
    BY <2>1, Known DEF Sound
  <2> QED BY <1>1, <2>2, <2>3, QuietKeeps DEF StartSave, WhileSaving
<1>2. CASE Rename(o)
  <2> DEFINE r == [op[o] EXCEPT !.pc = "trusted"]
  <2>1. /\ r \in Operation /\ r.pc = "trusted" /\ r.pins = op[o].pins
        /\ r.target = op[o].target /\ r.bundle = op[o].bundle /\ op[o].pc = "write"
    BY <1>2, Known DEF Operation, Rename, At
  <2>2. Step(o, r)
    BY <1>2 DEF Rename
  <2> HIDE DEF r
  <2>3. AgreedTo(op[o].pins, agreed) /\ op[o].pins \in Pins
    BY Known DEF Sound, Operation
  <2>4. /\ store' = op[o].pins /\ agreed' = agreed /\ liveEpoch' = liveEpoch
        /\ overlap' = (overlap \/ \E p \in Operations \ {o} : Holds(p))
    BY <1>2 DEF Rename
  <2>5. overlap' \in BOOLEAN /\ (overlap => overlap')
        /\ \A p \in Operations \ {o} : Holds(p) => overlap'
    BY <2>4 DEF TrustInv
  <2>6. Sound(r, store', agreed', overlap')
    BY <2>1, <2>4, Known DEF Sound
  <2> QED BY <2>2, <2>3, <2>4, <2>5, <2>6, MovesKeep DEF TrustInv
<1> QED BY <1>1, <1>2

LEMMA ChangeKeeps == TrustInv /\ ChangePassword => TrustInv'
BY DEF TrustInv, ChangePassword

LEMMA TrustStep == TrustInv /\ [TrustNext]_trustVars => TrustInv'
<1> SUFFICES ASSUME TrustInv, [TrustNext]_trustVars PROVE TrustInv'
  OBVIOUS
<1>1. CASE ChangePassword
  BY <1>1, ChangeKeeps
<1>2. ASSUME NEW o \in Operations,
             \/ Fetch(o) \/ Load(o) \/ LoadAndCheck(o) \/ FetchAndCheck(o)
             \/ Confirm(o) \/ Refuse(o) \/ StartSave(o) \/ Rename(o) \/ Again(o)
      PROVE  TrustInv'
  BY <1>2, FetchKeeps, LoadKeeps, ConfirmKeeps, EndKeeps, SaveKeeps
<1>3. CASE UNCHANGED trustVars
  BY <1>3 DEF TrustInv, trustVars
<1> QED BY <1>1, <1>2, <1>3 DEF TrustNext

LEMMA TrustInductive == TrustSpec => []TrustInv
BY TrustInitially, TrustStep, PTL DEF TrustSpec

-----------------------------------------------------------------------------
(* What follows *)

\* The file, the operations and the histories keep their types (TrustStore,
\* TrustEntry in truststore.go).
THEOREM TrustTypes == TrustSpec => []TrustTypeOK
<1>1. TrustInv => TrustTypeOK
  BY DEF TrustInv, TrustTypeOK
<1> QED BY <1>1, TrustInductive, PTL

\* An operation goes on only with an anchor that signed its own bundle and that
\* the operator agreed to for this target (CheckOrPinAnchor).
THEOREM NothingUnseen == TrustSpec => []OnlyAgreed
<1>1. TrustInv => OnlyAgreed
  BY DEF TrustInv, Sound, OnlyAgreed, At
<1> QED BY <1>1, TrustInductive, PTL

\* A password change never makes the bundle that was signed at sign-up fail: an
\* operation that refuses one has another anchor pinned (VerifyAndPinAnchor).
THEOREM GenuineIsTaken == TrustSpec => []SignupBundleVerifies
<1>1. TrustInv => SignupBundleVerifies
  BY DEF TrustInv, Sound, SignupBundleVerifies, At
<1> QED BY <1>1, TrustInductive, PTL

\* While no two first contacts overlap, the file stays readable and a saved pin
\* stays as it is, whatever fails at whatever step (SaveTrustStore).
THEOREM PinsLast == TrustSpec => PinsStay
<1> DEFINE Kept == ~ overlap' => /\ store' # Torn
                                 /\ \A t \in Targets : store[t] # NoAnchor => store'[t] = store[t]
<1>1. ASSUME TrustInv, TrustInv', [TrustNext]_trustVars PROVE Kept
  <2>1. store' # Torn
    BY <1>1, TornAssumption DEF TrustInv
  <2>2. CASE store' = store
    BY <2>1, <2>2
  <2>3. ASSUME NEW o \in Operations, Rename(o) PROVE Kept
    <3>1. store' = op[o].pins /\ op[o].pc = "write" /\ (~ overlap' => ~ overlap)
      BY <2>3, <1>1 DEF Rename, At, TrustInv
    <3> QED BY <2>1, <3>1, <1>1, Known DEF Sound
  <2>4. store' = store \/ \E o \in Operations : Rename(o)
    BY <1>1 DEF TrustNext, trustVars, ChangePassword, Fetch, Load, LoadAndCheck, FetchAndCheck,
                Confirm, Refuse, StartSave, WhileSaving, Again
  <2> QED BY <2>2, <2>3, <2>4
<1>2. TrustInv /\ TrustInv' /\ [TrustNext]_trustVars => [Kept]_trustVars
  BY <1>1
<1> QED BY <1>2, TrustInductive, PTL DEF TrustSpec, PinsStay
=============================================================================
