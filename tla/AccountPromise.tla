--------------------------- MODULE AccountPromise ---------------------------
(***************************************************************************)
(* What signing up promises: an account is registered, then finalized once *)
(* with one set of keys, and from then on it exists, ready, with these     *)
(* keys.  Only an account that was never finalized can be given up.  Ready *)
(* sessions are granted to ready accounts alone.                           *)
(***************************************************************************)
CONSTANTS Users, Keys, NoKeys

VARIABLES stage,   \* of each account
          keys,    \* its anchor and transport keys
          granted  \* the accounts that hold a ready session

account == <<stage, keys, granted>>

PromiseInit ==
    /\ stage = [u \in Users |-> "none"]
    /\ keys = [u \in Users |-> NoKeys]
    /\ granted = {}

Move(u, from, to) == stage[u] = from /\ stage' = [stage EXCEPT ![u] = to]

Register(u) == Move(u, "none", "registered") /\ UNCHANGED <<keys, granted>>
GiveUp(u) == Move(u, "registered", "none") /\ UNCHANGED <<keys, granted>>
Finalize(u, k) ==
    /\ Move(u, "registered", "ready")
    /\ keys' = [keys EXCEPT ![u] = k]
    /\ UNCHANGED granted
Grant(u) ==
    /\ stage[u] = "ready" /\ granted' = granted \union {u}
    /\ UNCHANGED <<stage, keys>>

PromiseNext == \E u \in Users :
    Register(u) \/ GiveUp(u) \/ Grant(u) \/ \E k \in Keys : Finalize(u, k)

PromiseSpec == PromiseInit /\ [][PromiseNext]_account
=============================================================================
