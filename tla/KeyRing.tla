------------------------------ MODULE KeyRing ------------------------------
(***************************************************************************)
(* What the passkey handlers promise the owner of an account: a ring of    *)
(* passkeys, never empty, each labelled with the password epoch its copy   *)
(* of the primary key was uploaded in.  A passkey joins at the current or  *)
(* an earlier epoch; a password change starts the next and moves one       *)
(* passkey into it.  Every operation happens at one instant.               *)
(***************************************************************************)
EXTENDS Naturals, FiniteSets

CONSTANTS Users, Creds, NoLabel

VARIABLES epoch, \* the user's password epoch
          label  \* for each user and passkey on the ring, its epoch

ring == <<epoch, label>>

On(u) == {c \in Creds : label[u][c] # NoLabel}

RingInit == \A u \in Users : On(u) # {} /\ \A c \in On(u) : label[u][c] <= epoch[u]

Relabel(u, c, e) == label' = [label EXCEPT ![u][c] = e]

Join(u, c) == c \notin On(u) /\ (\E e \in 1 .. epoch[u] : Relabel(u, c, e)) /\ UNCHANGED epoch
Leave(u, c) == Cardinality(On(u)) > 1 /\ c \in On(u) /\ Relabel(u, c, NoLabel) /\ UNCHANGED epoch
Rewrap(u, c) == c \in On(u) /\ Relabel(u, c, epoch[u]) /\ UNCHANGED epoch
ChangePassword(u, c) ==
    /\ c \in On(u)
    /\ epoch' = [epoch EXCEPT ![u] = @ + 1]
    /\ Relabel(u, c, epoch[u] + 1)

RingNext == \E u \in Users, c \in Creds :
    Join(u, c) \/ Leave(u, c) \/ Rewrap(u, c) \/ ChangePassword(u, c)

RingSpec == RingInit /\ [][RingNext]_ring
=============================================================================
