----------------------------- MODULE MCPasskeys -----------------------------
(***************************************************************************)
(* Small instances of Passkeys for TLC.                                    *)
(***************************************************************************)
EXTENDS Passkeys, TLC

CONSTANTS alice, bob, c1, c2, c3, h1, h2, t1, t2

AliceEverywhere == [p \in Procs |-> alice]
AliceAndBob == [p \in Procs |-> IF p = t1 THEN alice ELSE bob]
OnePasskey == [u \in Users |-> {c1}]
TwoPasskeys == [u \in Users |-> {c1, c2}]
OneEach == [u \in Users |-> IF u = alice THEN {c1} ELSE {c2}]

SameTabs == Permutations(Procs)
SameTabsAndNew == SameTabs \union Permutations({c2, c3})
=============================================================================
