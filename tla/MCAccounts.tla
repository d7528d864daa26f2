----------------------------- MODULE MCAccounts -----------------------------
(***************************************************************************)
(* Small instances of Accounts for TLC.                                    *)
(***************************************************************************)
EXTENDS Accounts, TLC

CONSTANTS alice, bob, c1, c2, h1, h2, t1, t2

SameCallers == Permutations(Procs)
SameNames == SameCallers \union Permutations(Users) \union Permutations(Challenges)
=============================================================================
