---------------------------- MODULE MCFetchBroker -----------------------------
(* Instances of FetchBroker: three calls of one key, two of them with the same    *)
(* consumer id, so that the broker sees joins, a duplicate id and a re-acquire    *)
(* behind the barrier; and a fourth call that meets one of them alone.             *)
EXTENDS FetchBroker, TLC

CONSTANTS c1, c2, c3, c4, k1, k2, a, b, s1, s2

Ask(k, s, u, p) == [key |-> k, spec |-> s, consumer |-> u, priority |-> p]

\* One key and both priorities; c1 and c3 ask for the same, c4 names another spec.
OneKey ==
    c1 :> Ask(k1, s1, a, RESERVE) @@ c2 :> Ask(k1, s1, b, PLAYBACK)
    @@ c3 :> Ask(k1, s1, a, RESERVE) @@ c4 :> Ask(k1, s2, b, PLAYBACK)

Symmetry == Permutations({c1, c3})

\* No priorities to raise, and c4 has a key of its own, so that shutdown() meets
\* two owners at different points of their lives.
TwoKeys ==
    c1 :> Ask(k1, s1, a, PLAYBACK) @@ c2 :> Ask(k1, s1, b, PLAYBACK)
    @@ c3 :> Ask(k1, s1, a, PLAYBACK) @@ c4 :> Ask(k2, s1, b, PLAYBACK)

\* Bound: c4 meets c2 alone; the others stay away once it has started.
Explored == pc[c4] # "new" => pc[c1] = "new" /\ pc[c3] = "new"
===============================================================================
