----------------------------- MODULE MCExtentStore -----------------------------
(* An instance of ExtentStore: one extent that three writes want and two reads    *)
(* ask for, and a neighbour, so that recovery finds more than one row and file.   *)
EXTENDS ExtentStore, TLC

CONSTANTS e1, e2, w1, w2, w3, w4, r1, r2, i1, i2, x, y

Wants(e, i, d) == [extent |-> e, identity |-> i, digest |-> d]

\* w2 comes without a digest from the origin, w3 with another identity.
Asked ==
    w1 :> Wants(e1, i1, x) @@ w2 :> Wants(e1, i1, None)
    @@ w3 :> Wants(e1, i2, x) @@ w4 :> Wants(e2, i2, None)

Symmetry == Permutations({r1, r2})

ReadsOfFirst == r1 :> e1 @@ r2 :> e1

\* Bound: w3 meets w1 and the readers, not w2; the neighbour is written alone.
Explored ==
    /\ wpc[w3] # "new" => wpc[w2] = "new"
    /\ Active(w4) => \A w \in Writes \ {w4} : wpc[w] = "new"
===============================================================================
