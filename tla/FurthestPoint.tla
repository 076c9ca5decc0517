---------------------------- MODULE FurthestPoint ----------------------------
(***************************************************************************)
(* What analytics may rely on about the viewers of a video: the recorded   *)
(* time of each only grows, to a point the viewer has reached; "played"    *)
(* latches; and the records that were removed with their video do not come *)
(* back.                                                                   *)
(***************************************************************************)
EXTENDS Integers

CONSTANTS Sessions, Duration, NoRow, Removed

VARIABLES
    reached,       \* the furthest point of the video each viewer has come to
    record         \* what is recorded of each

Init ==
    /\ reached = [s \in Sessions |-> 0]
    /\ record = [s \in Sessions |-> NoRow]

Reach(s) ==
    /\ \E t \in (reached[s] + 1)..Duration : reached' = [reached EXCEPT ![s] = t]
    /\ UNCHANGED record

Note(s, new) ==
    /\ record[s] # Removed
    /\ record[s] # NoRow => /\ record[s].at <= new.at
                            /\ record[s].played => new.played
    /\ record' = [record EXCEPT ![s] = new]
    /\ UNCHANGED reached

Remove ==
    /\ record' = [s \in Sessions |-> Removed]
    /\ UNCHANGED reached

Next ==
    \/ \E s \in Sessions : \/ Reach(s)
                           \/ \E new \in [at : 0..reached[s], played : BOOLEAN] : Note(s, new)
    \/ Remove

Spec == Init /\ [][Next]_<<reached, record>>
=============================================================================
