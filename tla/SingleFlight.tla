----------------------------- MODULE SingleFlight -----------------------------
(***************************************************************************)
(* What a fetch registry promises, with no locks, jobs or threads in it:   *)
(* for each key at most one flight is in the air, callers ride it while it *)
(* is open, a flight whose last rider left drains, and it lands once, with *)
(* one outcome.  Abandoned is an outcome nobody aboard ever sees.        *)
(* FetchBroker implements it (FetchBroker!ImplementsSingleFlight).         *)
(***************************************************************************)
CONSTANTS
    Flights,    \* names of flights
    Riders,     \* callers that may ride a flight
    Keys,       \* what a flight fetches
    KeyOf(_),   \* the key of a flight
    Outcomes,   \* outcomes of a landed flight
    Abandoned   \* the outcome of a flight everyone left

VARIABLES
    phase,      \* flight -> "planned", "open", "draining" or "landed"
    riders,     \* flight -> the callers aboard
    outcome     \* flight -> its outcome once landed

flightVars == <<phase, riders, outcome>>

InAir(f) == phase[f] \in {"open", "draining"}

Init ==
    /\ phase = [f \in Flights |-> "planned"]
    /\ riders = [f \in Flights |-> {}]
    /\ outcome = [f \in Flights |-> "none"]

\* A flight opens with its first rider, and only when its key has none in the air.
Open(f, r) ==
    /\ phase[f] = "planned"
    /\ \A g \in Flights : KeyOf(g) = KeyOf(f) => ~InAir(g)
    /\ phase' = [phase EXCEPT ![f] = "open"]
    /\ riders' = [riders EXCEPT ![f] = {r}]
    /\ UNCHANGED outcome

Board(f, r) ==
    /\ phase[f] = "open"
    /\ riders' = [riders EXCEPT ![f] = @ \union {r}]
    /\ UNCHANGED <<phase, outcome>>

\* A rider may leave at any time; an open flight its last rider leaves drains.
Leave(f, r) ==
    /\ r \in riders[f]
    /\ riders' = [riders EXCEPT ![f] = @ \ {r}]
    /\ phase' = IF phase[f] = "open" /\ riders[f] = {r}
                THEN [phase EXCEPT ![f] = "draining"]
                ELSE phase
    /\ UNCHANGED outcome

\* Flights stop taking riders, one when its outcome is known or all when the
\* registry closes.
Drain(F) ==
    /\ F # {}
    /\ \A f \in F : phase[f] = "open"
    /\ phase' = [f \in Flights |-> IF f \in F THEN "draining" ELSE phase[f]]
    /\ UNCHANGED <<riders, outcome>>

Land(f, o) ==
    /\ phase[f] = "draining"
    /\ o = Abandoned => riders[f] = {}
    /\ phase' = [phase EXCEPT ![f] = "landed"]
    /\ outcome' = [outcome EXCEPT ![f] = o]
    /\ UNCHANGED riders

Next ==
    \/ \E f \in Flights, r \in Riders :
        Open(f, r) \/ Board(f, r) \/ Leave(f, r)
    \/ \E F \in SUBSET Flights : Drain(F)
    \/ \E f \in Flights, o \in Outcomes : Land(f, o)

Spec == Init /\ [][Next]_flightVars

===============================================================================
