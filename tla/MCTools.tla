------------------------------- MODULE MCTools -------------------------------
(***************************************************************************)
(* Five components that share no state, checked in one run: tool says      *)
(* which of them a behaviour is about, so their states add up and do not   *)
(* multiply.                                                               *)
(***************************************************************************)
EXTENDS PollClient, TrustStore, FileEdit, Backup, SshAgent, TLC

VARIABLE tool

toolVars == <<tool, pollVars, trustVars, editVars, backupVars, agentVars>>

Init ==
    /\ tool \in {"poll", "trust", "edit", "backup", "agent"}
    /\ PollInit /\ TrustInit /\ EditInit /\ BackupInit /\ AgentInit
    \* A component that is not the subject has one initial state.
    /\ tool # "poll" => call.asked = 0 /\ ~ call.agent
    /\ tool # "backup" => engine = "sqlite" /\ source = [a \in Accounts |-> "none"]

PollTurn == tool = "poll" /\ UNCHANGED <<tool, trustVars, editVars, backupVars, agentVars>>
TrustTurn == tool = "trust" /\ UNCHANGED <<tool, pollVars, editVars, backupVars, agentVars>>
EditTurn == tool = "edit" /\ UNCHANGED <<tool, pollVars, trustVars, backupVars, agentVars>>
BackupTurn == tool = "backup" /\ UNCHANGED <<tool, pollVars, trustVars, editVars, agentVars>>
AgentTurn == tool = "agent" /\ UNCHANGED <<tool, pollVars, trustVars, editVars, backupVars>>

Next ==
    \/ PollTurn /\ PollNext
    \/ TrustTurn /\ TrustNext
    \/ EditTurn /\ EditNext
    \/ BackupTurn /\ BackupNext
    \/ AgentTurn /\ AgentNext

Spec == Init /\ [][Next]_toolVars

\* Nothing tells the operations apart, nor the SSH clients.
Symmetry == Permutations(Operations) \union Permutations(SshClients)

\* The types of the five components.
TypeOK == PollTypeOK /\ TrustTypeOK /\ EditTypeOK /\ BackupTypeOK /\ AgentTypeOK
=============================================================================
