------------------------------ MODULE SshAgent ------------------------------
(***************************************************************************)
(* The SSH agent (cmd/cli/cmd/ssh_agent_unix.go): SSH clients list its key *)
(* and have it sign; every signature is a request that the user approves   *)
(* in the browser.  The agent may be replaced by another one at the same   *)
(* socket while a client remembers what it was shown.                      *)
(*                                                                         *)
(* A label's signing key is derived from the user's primary key; it bears  *)
(* the label's name here.                                                  *)
(***************************************************************************)

CONSTANTS Labels,
          Foreign,    \* a key that is not derived from the user's primary key
          SshClients,
          Digests,    \* what SSH clients want signed
          Garbled,    \* what they do not
          NoKey

ASSUME AgentAssumption == Foreign \notin Labels /\ NoKey \notin Labels \union {Foreign} /\ Garbled \notin Digests

VARIABLES agent,  \* [label, trusts]: label is NoKey if none runs
          proofs, \* labels whose publication the user has signed with the anchor
          listed, \* the key each client was shown last
          sign    \* the last Sign call of each client

agentVars == <<agent, proofs, listed, sign>>

SshKeys == Labels \union {Foreign}
NoAgent == [label |-> NoKey, trusts |-> TRUE]

\* What comes back in the envelope: the key that the page says it used, and
\* the signature.
Answers == [reports : SshKeys \union {NoKey}, key : SshKeys, digest : Digests \union {Garbled}]
NoAnswer == [reports |-> NoKey, key |-> NoKey, digest |-> Garbled]

NotAsked == [pc |-> "idle", agent |-> NoAgent, key |-> NoKey, digest |-> Garbled,
             advertised |-> NoKey, answer |-> NoAnswer]

Agents == [label : Labels, trusts : BOOLEAN]
SignCall == [pc : {"idle", "validate", "waiting", "answered", "signed", "refused", "wasted"},
             agent : Agents \union {NoAgent}, key : SshKeys \union {NoKey},
             digest : Digests \union {Garbled}, advertised : SshKeys \union {NoKey},
             answer : Answers \union {NoAnswer}]

AgentTypeOK ==
    /\ agent \in Agents \union {NoAgent}
    /\ proofs \subseteq Labels
    /\ listed \in [SshClients -> SshKeys \union {NoKey}]
    /\ sign \in [SshClients -> SignCall]
    /\ \A c \in SshClients : sign[c].pc \in {"validate", "waiting", "answered"} => sign[c].agent = agent

AgentInit ==
    /\ agent = NoAgent
    /\ proofs = {}
    /\ listed = [c \in SshClients |-> NoKey]
    /\ sign = [c \in SshClients |-> NotAsked]

Running == agent # NoAgent
Signing(c, pc) == sign[c].pc = pc
SignGoes(c, record) == sign' = [sign EXCEPT ![c] = record]

-----------------------------------------------------------------------------
(* The process, and the user's keys *)

StartAgent ==
    /\ ~ Running
    /\ agent' \in Agents
    /\ UNCHANGED <<proofs, listed, sign>>

\* operationContext: what is under way is cancelled.
StopAgent ==
    /\ Running
    /\ agent' = NoAgent
    /\ sign' = [c \in SshClients |-> IF sign[c].agent = agent THEN NotAsked ELSE sign[c]]
    /\ UNCHANGED <<proofs, listed>>

PublishKey(label) ==
    /\ proofs' = proofs \union {label}
    /\ UNCHANGED <<agent, listed, sign>>

-----------------------------------------------------------------------------
(* List, and the check that precedes every signature *)

\* The server answers with a key and a proof that the user has signed once, or
\* with none.
Responses == [key : SshKeys, proof : proofs \union {NoKey}]

\* SigningPublicKey: the proof binds the key to the label and to the anchor.
\* Without a trust store there is nothing to check it against.
Accepts(response) ==
    agent.trusts => response.proof = agent.label /\ response.key = agent.label

Advertised == {response.key : response \in {r \in Responses : Accepts(r)}}

List(c) ==
    /\ Running
    /\ \E key \in Advertised : listed' = [listed EXCEPT ![c] = key]
    /\ UNCHANGED <<agent, proofs, sign>>

\* A client asks for a key it was shown, by this agent or by a former one.
AskToSign(c) ==
    /\ Running /\ listed[c] # NoKey
    /\ \E pc \in {"idle", "signed", "refused", "wasted"} : Signing(c, pc)
    /\ \E digest \in Digests :
         SignGoes(c, [NotAsked EXCEPT !.pc = "validate", !.agent = agent,
                                      !.key = listed[c], !.digest = digest])
    /\ UNCHANGED <<agent, proofs, listed>>

\* Mutant: any key will do.
ManagedAny(key, advertised) == TRUE

Managed(key, advertised) == key = advertised

\* validateSigningKey fetches the key again.
ValidateKey(c) ==
    /\ Signing(c, "validate")
    /\ \E key \in Advertised :
         SignGoes(c, IF Managed(sign[c].key, key)
                     THEN [sign[c] EXCEPT !.pc = "waiting", !.advertised = key]
                     ELSE [sign[c] EXCEPT !.pc = "refused"])
    /\ UNCHANGED <<agent, proofs, listed>>

-----------------------------------------------------------------------------
(* The answer of the browser *)

OwnPage(label, digest) == [reports |-> label, key |-> label, digest |-> digest]

\* Also a page that is older, that signs something else, or with another key.
Pages(label, digest) ==
    {OwnPage(label, digest),
     [OwnPage(label, digest) EXCEPT !.reports = NoKey],
     [OwnPage(label, digest) EXCEPT !.digest = Garbled],
     [OwnPage(label, digest) EXCEPT !.key = Foreign],
     [OwnPage(label, digest) EXCEPT !.key = Foreign, !.reports = Foreign]}

ApproveSign(c) ==
    /\ Signing(c, "waiting")
    /\ \E answer \in Pages(agent.label, sign[c].digest) :
         SignGoes(c, [sign[c] EXCEPT !.pc = "answered", !.answer = answer])
    /\ UNCHANGED <<agent, proofs, listed>>

\* Mutant: what the page reports is enough.
FitsReport(call) == call.answer.reports = call.advertised

\* The report is compared with the key that was advertised, and the signature
\* verified with the key that was asked for.
Fits(call) ==
    /\ call.answer.reports = call.advertised
    /\ call.answer.key = call.key /\ call.answer.digest = call.digest

ReturnSignature(c) ==
    /\ Signing(c, "answered")
    /\ SignGoes(c, [sign[c] EXCEPT !.pc = IF Fits(sign[c]) THEN "signed" ELSE "wasted"])
    /\ UNCHANGED <<agent, proofs, listed>>

\* A key that cannot be fetched, a refusal of the user, or signTimeout.
FailSign(c) ==
    /\ Signing(c, "validate") \/ Signing(c, "waiting")
    /\ SignGoes(c, [sign[c] EXCEPT !.pc = "refused"])
    /\ UNCHANGED <<agent, proofs, listed>>

AgentNext ==
    \/ StartAgent \/ StopAgent
    \/ \E label \in Labels : PublishKey(label)
    \/ \E c \in SshClients :
         \/ List(c) \/ AskToSign(c) \/ ValidateKey(c)
         \/ ApproveSign(c) \/ ReturnSignature(c) \/ FailSign(c)

AgentSpec == AgentInit /\ [][AgentNext]_agentVars

-----------------------------------------------------------------------------
(* Properties *)

\* A signature that Sign returns was made with the key the client asked for and
\* over what it asked to sign, whatever page answered and whichever agent had
\* listed the key; with a trust store, the user has published that very key.
SignedAsAsked ==
    \A c \in SshClients : Signing(c, "signed") =>
        /\ sign[c].answer.key = sign[c].key /\ sign[c].answer.digest = sign[c].digest
        /\ sign[c].agent.trusts => sign[c].key = sign[c].agent.label /\ sign[c].key \in proofs

\* With a trust store the user is never asked in vain: what the user's own page
\* signs is what the client is waiting for (validateSigningKey).
NothingWasted ==
    \A c \in SshClients : Signing(c, "wasted") /\ sign[c].agent.trusts =>
        sign[c].answer # OwnPage(sign[c].agent.label, sign[c].digest)
=============================================================================
