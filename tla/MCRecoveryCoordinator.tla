------------------------- MODULE MCRecoveryCoordinator -------------------------
(* An instance of RecoveryCoordinator: a reserve caller and an urgent one join    *)
(* one chain, or the first meets one with a spec of its own: a conflict, or one   *)
(* chain after another.                                                           *)
EXTENDS RecoveryCoordinator, TLC

CONSTANTS c1, c2, c3, k1, a, b, s1, s2

Ask(k, s, u, p) == [key |-> k, spec |-> s, consumer |-> u, priority |-> p]

\* A reserve caller and an urgent one, who want the same.
TwoCallers == c1 :> Ask(k1, s1, a, RESERVE) @@ c2 :> Ask(k1, s1, b, PLAYBACK)

WithConflict == TwoCallers @@ c3 :> Ask(k1, s2, b, RESERVE)

\* Bounds: c2 and c3 exclude each other, and with c3 a chain makes one attempt.
Explored ==
    pc[c3] # "new" => pc[c2] = "new" /\ \A h \in Calls : attempts[h] <= 1
===============================================================================
