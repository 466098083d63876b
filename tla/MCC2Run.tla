-------------------------------- MODULE MCC2Run --------------------------------
(* Every script over a plan of one cell, a script of each kind over two cells,  *)
(* D4 and D7 with a second client, whose events and responses pass the ceilings. *)
EXTENDS C2Run

Runs(scripts, n, clientCount) ==
    {[script |-> s, cells |-> n, clients |-> clientCount] : s \in scripts}

SmallRuns == Runs(Scripts, 1, 1) \cup Runs({0, 3}, 2, 1) \cup Runs({4, 7}, 1, 2)

\* Frozen, one plan of the chain drifted, or one part of the surroundings.
FewDrifts == {{}, {"c1"}, {"d4"}, {"source"}, {"interpreter"}, {"oracle"}, {"hooks"}}

\* With a second cell: one request an observation, and only the first cell is
\* observed again.
Explored == cells = 2 => seen.requests <= 1 /\ (invocation > 1 => cell = 1)

================================================================================
