--------------------------- MODULE MCRecoveryEvidence ---------------------------
(* Instances of RecoveryEvidence, as those of RecoveryCoordinator. *)
EXTENDS RecoveryEvidence, TLC

CONSTANTS c1, c2, k1, a, b, s1

Ask(u, p) == [key |-> k1, spec |-> s1, consumer |-> u, priority |-> p]

\* One key and one spec, a reserve caller and an urgent one.
OneKey == c1 :> Ask(a, RESERVE) @@ c2 :> Ask(b, PLAYBACK)

AllAttempts == attempts[c1] + attempts[c2]

\* Bounds of the exploration: the oracle stops at the first broken requirement, both
\* chains make three attempts at most, and the session is closed before the second.
Explored == Verifying /\ AllAttempts <= 3 /\ (closing => AllAttempts <= 1)
===============================================================================
