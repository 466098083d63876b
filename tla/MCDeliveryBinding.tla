--------------------------- MODULE MCDeliveryBinding ---------------------------
(***************************************************************************)
(* DeliveryBinding for TLC: three attempts that fail in one session, on    *)
(* one revision or on up to three of them.                                 *)
(***************************************************************************)
EXTENDS DeliveryBinding

CONSTANTS c1, c2, c3

ThreeCalls == {c1, c2, c3}

\* Calls are named in the order in which they select their binding.  They are all
\* alike, so that every behaviour is one of these under other names.
NamedInTurn ==
    /\ pc[c2] # "new" => pc[c1] # "new"
    /\ pc[c3] # "new" => pc[c2] # "new"

=============================================================================
