--------------------------- MODULE MCRequestFlow ---------------------------
(***************************************************************************)
(* Small instances of RequestFlow for TLC.                                 *)
(***************************************************************************)
EXTENDS RequestFlow, FiniteSets, TLC

CONSTANTS alice, bob, r1, r2, p1, p2, s1, s2

AliceOwnsAll == [r \in Requests |-> alice]
AliceSignsIn == [s \in Sessions |-> alice]
AlicePolls == [p \in Pollers |-> alice]

\* Two users: the second request, session and poller belong to bob.
OwnerOfTwo == [r \in Requests |-> IF r = r1 THEN alice ELSE bob]
SessionsOfTwo == [s \in Sessions |-> IF s = s1 THEN alice ELSE bob]
PollersOfTwo == [p \in Pollers |-> IF p = p1 THEN alice ELSE bob]

\* A bound on the states in which both requests exist: the server is up, nobody
\* decides, one long poll at a time, and no more time than they take to expire.
\* What happens to one request alone is not bounded.
TogetherBriefly ==
    /\ row[r2].status # "none" => row[r1].status # "none"
    /\ (\A r \in Requests : row[r].status # "none") =>
         /\ now <= 2 /\ boot.pc = "up"
         /\ \A s \in Sessions : sess[s] = IdleSession
         /\ \A r \in Requests : audit[r] \intersect {"confirm", "cancel"} = {}
         /\ Cardinality({p \in Pollers : poll[p] # IdlePoll}) <= 1

SamePollers == Permutations(Pollers)
SameSessions == Permutations(Sessions)
SymmetricCallers == SamePollers \union SameSessions
=============================================================================
