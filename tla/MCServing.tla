------------------------------ MODULE MCServing ------------------------------
(***************************************************************************)
(* Four components that share no state, checked in one run: subject says   *)
(* which of them a behaviour is about, so their states add up and do not   *)
(* multiply.                                                               *)
(***************************************************************************)
EXTENDS ListStream, AuditLog, SigningKeys, Cleanup

VARIABLE subject

servingVars == <<subject, streamVars, auditVars, keyVars, cleanupVars>>

Init ==
    /\ subject \in {"stream", "audit", "keys", "cleanup"}
    /\ StreamInit /\ AuditInit /\ KeysInit /\ CleanupInit

StreamTurn == subject = "stream" /\ UNCHANGED <<subject, auditVars, keyVars, cleanupVars>>
AuditTurn == subject = "audit" /\ UNCHANGED <<subject, streamVars, keyVars, cleanupVars>>
KeysTurn == subject = "keys" /\ UNCHANGED <<subject, streamVars, auditVars, cleanupVars>>
CleanupTurn == subject = "cleanup" /\ UNCHANGED <<subject, streamVars, auditVars, keyVars>>

Next ==
    \/ StreamTurn /\ StreamNext
    \/ AuditTurn /\ AuditNext
    \/ KeysTurn /\ KeysNext
    \/ CleanupTurn /\ CleanupNext

Spec == Init /\ [][Next]_servingVars

\* StreamFairness, where it applies.
FairSpec ==
    /\ Spec
    /\ WF_servingVars(StreamTurn /\ Publications)
    /\ WF_servingVars(StreamTurn /\ Reconnects)
    /\ WF_servingVars(StreamTurn /\ Deliver)

\* The types of the four components.
TypeOK == StreamTypeOK /\ AuditTypeOK /\ KeysTypeOK /\ CleanupTypeOK
=============================================================================
