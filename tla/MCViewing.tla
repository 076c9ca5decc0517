------------------------------ MODULE MCViewing ------------------------------
(* Small instances of Viewing. *)
EXTENDS Viewing

CONSTANTS viewer, form, soon, atEnd

GateOf(position, at) == [enabled |-> TRUE, position |-> position, at |-> at]
MCGates == {GateOf("before", 0), GateOf("timestamp", 1)}
MCSessionOf == [k \in Submits |-> viewer]
MCCTAAt == [c \in CTAs |-> IF c = soon THEN 2 ELSE 0]
=============================================================================
