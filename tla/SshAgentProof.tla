--------------------------- MODULE SshAgentProof ---------------------------
(***************************************************************************)
(* Machine-checked proofs about SshAgent, for any number of SSH clients,   *)
(* labels and digests, and any sequence of agents at one socket.           *)
(***************************************************************************)
EXTENDS SshAgent, TLAPS

\* What a Sign call knows once its key has been validated, and what its end says
\* about the answer; A are the agents that may run, P the published labels.
Valid(call, P) ==
    /\ call.pc \in {"validate", "waiting", "answered", "signed", "wasted"} => call.agent \in Agents
    /\ call.pc \in {"waiting", "answered", "signed", "wasted"} =>
         /\ call.advertised = call.key
         /\ call.agent.trusts => call.key = call.agent.label /\ call.key \in P
    /\ call.pc = "signed" => Fits(call)
    /\ call.pc = "wasted" => ~ Fits(call)

AgentInv == AgentTypeOK /\ \A c \in SshClients : Valid(sign[c], proofs)

LEMMA IdleCall == NotAsked \in SignCall /\ NotAsked.pc = "idle" /\ \A P : Valid(NotAsked, P)
BY DEF NotAsked, SignCall, Valid

LEMMA AgentInitially == AgentInit => AgentInv
<1> SUFFICES ASSUME AgentInit PROVE AgentInv
  OBVIOUS
<1>1. \A c \in SshClients : sign[c] = NotAsked
  BY DEF AgentInit
<1>2. sign \in [SshClients -> SignCall]
  BY IdleCall DEF AgentInit
<1> QED BY <1>1, <1>2, IdleCall DEF AgentInit, AgentInv, AgentTypeOK

\* One call moves, and nothing else changes but what clients were shown.
LEMMA CallMoves ==
    ASSUME AgentInv, NEW c \in SshClients, NEW call \in SignCall, SignGoes(c, call),
           UNCHANGED <<agent, proofs, listed>>, Valid(call, proofs),
           call.pc \in {"validate", "waiting", "answered"} => call.agent = agent
    PROVE  AgentInv'
<1>1. sign'[c] = call /\ \A d \in SshClients \ {c} : sign'[d] = sign[d]
  BY DEF AgentInv, AgentTypeOK, SignGoes
<1>2. sign' \in [SshClients -> SignCall]
  BY DEF AgentInv, AgentTypeOK, SignGoes
<1>3. \A d \in SshClients : Valid(sign'[d], proofs')
  BY <1>1 DEF AgentInv
<1>4. AgentTypeOK'
  BY <1>1, <1>2 DEF AgentInv, AgentTypeOK
<1> QED BY <1>3, <1>4 DEF AgentInv

LEMMA CallTyped ==
    ASSUME AgentInv, NEW c \in SshClients
    PROVE  /\ sign[c] \in SignCall /\ Valid(sign[c], proofs) /\ listed[c] \in SshKeys \union {NoKey}
           /\ sign[c].pc \in {"validate", "waiting", "answered"} => sign[c].agent = agent
BY DEF AgentInv, AgentTypeOK

LEMMA StartKeeps == ASSUME AgentInv, StartAgent PROVE AgentInv'
<1>1. \A c \in SshClients : sign[c].pc \notin {"validate", "waiting", "answered"}
  <2> SUFFICES ASSUME NEW c \in SshClients, sign[c].pc \in {"validate", "waiting", "answered"}
               PROVE  FALSE
    OBVIOUS
  <2>1. agent \in Agents /\ agent = NoAgent
    BY CallTyped DEF Valid, StartAgent, Running
  <2> QED BY <2>1, AgentAssumption DEF Agents, NoAgent
<1> QED BY <1>1 DEF StartAgent, AgentInv, AgentTypeOK

LEMMA StopKeeps == ASSUME AgentInv, StopAgent PROVE AgentInv'
<1>1. sign' = [c \in SshClients |-> IF sign[c].agent = agent THEN NotAsked ELSE sign[c]]
      /\ agent' = NoAgent /\ UNCHANGED <<proofs, listed>>
  BY DEF StopAgent
<1>2. \A c \in SshClients : /\ sign'[c] \in SignCall /\ Valid(sign'[c], proofs')
                            /\ sign'[c].pc \notin {"validate", "waiting", "answered"}
  BY <1>1, IdleCall, CallTyped
<1>3. sign' \in [SshClients -> SignCall]
  BY <1>1, <1>2
<1> QED BY <1>1, <1>2, <1>3 DEF AgentInv, AgentTypeOK

LEMMA PublishKeeps == ASSUME AgentInv, NEW label \in Labels, PublishKey(label) PROVE AgentInv'
<1>1. \A c \in SshClients : Valid(sign[c], proofs')
  BY CallTyped DEF Valid, PublishKey
<1> QED BY <1>1 DEF PublishKey, AgentInv, AgentTypeOK

\* A key that List or validateSigningKey obtains.
LEMMA AdvertisedKeys ==
    ASSUME AgentInv, NEW key \in Advertised
    PROVE  key \in SshKeys /\ (agent.trusts => key = agent.label /\ key \in proofs)
<1>1. PICK response \in Responses : key = response.key /\ Accepts(response)
  BY DEF Advertised
<1>2. response.key \in SshKeys /\ response.proof \in proofs \union {NoKey}
  BY DEF Responses
<1>3. NoKey \notin SshKeys
  BY AgentAssumption DEF SshKeys
<1> QED BY <1>1, <1>2, <1>3 DEF Accepts

LEMMA ListKeeps == ASSUME AgentInv, NEW c \in SshClients, List(c) PROVE AgentInv'
<1>1. PICK key \in Advertised : listed' = [listed EXCEPT ![c] = key]
  BY DEF List
<1>2. key \in SshKeys
  BY AdvertisedKeys
<1> QED BY <1>1, <1>2 DEF List, AgentInv, AgentTypeOK

LEMMA AskKeeps == ASSUME AgentInv, NEW c \in SshClients, AskToSign(c) PROVE AgentInv'
<1>1. PICK digest \in Digests :
        SignGoes(c, [NotAsked EXCEPT !.pc = "validate", !.agent = agent,
                                     !.key = listed[c], !.digest = digest])
  BY DEF AskToSign
<1> DEFINE call == [NotAsked EXCEPT !.pc = "validate", !.agent = agent,
                                    !.key = listed[c], !.digest = digest]
<1>2. agent \in Agents
  BY DEF AskToSign, Running, AgentInv, AgentTypeOK
<1>3. call \in SignCall /\ call.pc = "validate" /\ call.agent = agent
  BY <1>2, IdleCall, CallTyped DEF SignCall
<1>4. SignGoes(c, call)
  BY <1>1
<1> HIDE DEF call
<1>5. Valid(call, proofs)
  BY <1>2, <1>3 DEF Valid
<1> QED BY <1>3, <1>4, <1>5, CallMoves DEF AskToSign

LEMMA ValidateKeeps == ASSUME AgentInv, NEW c \in SshClients, ValidateKey(c) PROVE AgentInv'
<1>1. PICK key \in Advertised :
        SignGoes(c, IF Managed(sign[c].key, key)
                    THEN [sign[c] EXCEPT !.pc = "waiting", !.advertised = key]
                    ELSE [sign[c] EXCEPT !.pc = "refused"])
  BY DEF ValidateKey
<1>2. key \in SshKeys /\ (agent.trusts => key = agent.label /\ key \in proofs)
  BY AdvertisedKeys
<1>3. sign[c] \in SignCall /\ sign[c].agent \in Agents /\ sign[c].agent = agent
  BY CallTyped DEF Valid, ValidateKey, Signing
<1>4. CASE sign[c].key = key
  <2> DEFINE call == [sign[c] EXCEPT !.pc = "waiting", !.advertised = key]
  <2>1. /\ call \in SignCall /\ call.pc = "waiting" /\ call.agent = sign[c].agent
        /\ call.key = key /\ call.advertised = key
    BY <1>2, <1>3, <1>4 DEF SignCall
  <2>2. SignGoes(c, call)
    BY <1>1, <1>4 DEF Managed
  <2> HIDE DEF call
  <2>3. Valid(call, proofs)
    BY <1>2, <1>3, <2>1 DEF Valid
  <2> QED BY <1>3, <2>1, <2>2, <2>3, CallMoves DEF ValidateKey
<1>5. CASE sign[c].key # key
  <2> DEFINE call == [sign[c] EXCEPT !.pc = "refused"]
  <2>1. call \in SignCall /\ call.pc = "refused" /\ SignGoes(c, call)
    BY <1>1, <1>3, <1>5 DEF SignCall, Managed
  <2> HIDE DEF call
  <2> QED BY <2>1, CallMoves DEF ValidateKey, Valid
<1> QED BY <1>4, <1>5

LEMMA PagesAnswer ==
    ASSUME NEW label \in Labels, NEW digest \in Digests \union {Garbled}
    PROVE  Pages(label, digest) \subseteq Answers
<1> DEFINE own == OwnPage(label, digest)
<1>1. own = [reports |-> label, key |-> label, digest |-> digest]
  BY DEF OwnPage
<1>2. /\ own \in Answers /\ [own EXCEPT !.reports = NoKey] \in Answers
      /\ [own EXCEPT !.digest = Garbled] \in Answers /\ [own EXCEPT !.key = Foreign] \in Answers
  BY <1>1 DEF Answers, SshKeys
<1> HIDE DEF own
<1>3. [own EXCEPT !.key = Foreign, !.reports = Foreign] \in Answers
  BY <1>2 DEF Answers, SshKeys
<1>4. Pages(label, digest) =
        {own, [own EXCEPT !.reports = NoKey], [own EXCEPT !.digest = Garbled],
         [own EXCEPT !.key = Foreign], [own EXCEPT !.key = Foreign, !.reports = Foreign]}
  BY Zenon DEF Pages, own
<1> QED BY <1>2, <1>3, <1>4

LEMMA ApproveKeeps == ASSUME AgentInv, NEW c \in SshClients, ApproveSign(c) PROVE AgentInv'
<1>1. PICK answer \in Pages(agent.label, sign[c].digest) :
        SignGoes(c, [sign[c] EXCEPT !.pc = "answered", !.answer = answer])
  BY DEF ApproveSign
<1>2. /\ sign[c] \in SignCall /\ sign[c].agent \in Agents /\ sign[c].agent = agent
      /\ Valid(sign[c], proofs) /\ sign[c].pc = "waiting"
  BY CallTyped DEF Valid, ApproveSign, Signing
<1>3. answer \in Answers
  BY <1>2, PagesAnswer DEF Agents, SignCall
<1> DEFINE call == [sign[c] EXCEPT !.pc = "answered", !.answer = answer]
<1>4. /\ call \in SignCall /\ call.pc = "answered" /\ call.agent = sign[c].agent
      /\ call.key = sign[c].key /\ call.advertised = sign[c].advertised
  BY <1>2, <1>3 DEF SignCall
<1>5. SignGoes(c, call)
  BY <1>1
<1> HIDE DEF call
<1>6. Valid(call, proofs)
  BY <1>2, <1>4 DEF Valid
<1> QED BY <1>2, <1>4, <1>5, <1>6, CallMoves DEF ApproveSign

LEMMA EndKeeps ==
    ASSUME AgentInv, NEW c \in SshClients, ReturnSignature(c) \/ FailSign(c) PROVE AgentInv'
<1>1. sign[c] \in SignCall /\ Valid(sign[c], proofs)
  BY CallTyped
<1>2. CASE FailSign(c)
  <2> DEFINE call == [sign[c] EXCEPT !.pc = "refused"]
  <2>1. call \in SignCall /\ call.pc = "refused" /\ SignGoes(c, call)
    BY <1>1, <1>2 DEF SignCall, FailSign
  <2> HIDE DEF call
  <2> QED BY <1>2, <2>1, CallMoves DEF FailSign, Valid
<1>3. CASE ReturnSignature(c)
  <2> DEFINE pc == IF Fits(sign[c]) THEN "signed" ELSE "wasted"
             call == [sign[c] EXCEPT !.pc = pc]
  <2>1. pc \in {"signed", "wasted"} /\ (pc = "signed" <=> Fits(sign[c]))
    OBVIOUS
  <2>2. SignGoes(c, call)
    BY <1>3 DEF ReturnSignature
  <2> HIDE DEF pc
  <2>3. /\ call \in SignCall /\ call.pc = pc /\ call.agent = sign[c].agent
        /\ call.key = sign[c].key /\ call.advertised = sign[c].advertised
        /\ call.answer = sign[c].answer /\ call.digest = sign[c].digest
    BY <1>1, <2>1 DEF SignCall
  <2> HIDE DEF call
  <2>4. Valid(call, proofs)
    BY <1>1, <1>3, <2>1, <2>3 DEF Valid, Fits, ReturnSignature, Signing
  <2> QED BY <1>3, <2>1, <2>2, <2>3, <2>4, CallMoves DEF ReturnSignature
<1> QED BY <1>2, <1>3

LEMMA AgentStep == AgentInv /\ [AgentNext]_agentVars => AgentInv'
<1> SUFFICES ASSUME AgentInv, [AgentNext]_agentVars PROVE AgentInv'
  OBVIOUS
<1>1. CASE StartAgent \/ StopAgent
  BY <1>1, StartKeeps, StopKeeps
<1>2. CASE \E label \in Labels : PublishKey(label)
  BY <1>2, PublishKeeps
<1>3. ASSUME NEW c \in SshClients,
             \/ List(c) \/ AskToSign(c) \/ ValidateKey(c)
             \/ ApproveSign(c) \/ ReturnSignature(c) \/ FailSign(c)
      PROVE  AgentInv'
  BY <1>3, ListKeeps, AskKeeps, ValidateKeeps, ApproveKeeps, EndKeeps
<1>4. CASE UNCHANGED agentVars
  BY <1>4 DEF agentVars, AgentInv, AgentTypeOK
<1> QED BY <1>1, <1>2, <1>3, <1>4 DEF AgentNext

LEMMA AgentInductive == AgentSpec => []AgentInv
BY AgentInitially, AgentStep, PTL DEF AgentSpec

-----------------------------------------------------------------------------
(* What follows *)

\* A signature that Sign returns was made with the key and over the digest that
\* the client asked for, whatever page answered and whichever agent had listed
\* the key; with a trust store the user has published that key (Sign).
THEOREM SignaturesAreAsAsked == AgentSpec => []SignedAsAsked
<1>1. AgentInv => SignedAsAsked
  BY DEF AgentInv, Valid, Fits, SignedAsAsked, Signing
<1> QED BY <1>1, AgentInductive, PTL

\* With a trust store, what the user's own page signs is what the client waits
\* for: the user is never asked in vain (validateSigningKey).
THEOREM NeverAskedInVain == AgentSpec => []NothingWasted
<1>1. AgentInv => NothingWasted
  BY DEF AgentInv, Valid, Fits, NothingWasted, Signing, OwnPage
<1> QED BY <1>1, AgentInductive, PTL
=============================================================================
