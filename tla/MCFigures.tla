------------------------------ MODULE MCFigures ------------------------------
(* A small instance of Figures. *)
EXTENDS Figures

(* Heights at and next to those of the renditions, below and above all of  *)
(* them; durations in milliseconds: unknown, next to where the thumbnail's *)
(* place changes, shorter and longer than the player's, not divided by the *)
(* samples, and with a last sample that is rounded down, up and half-way.  *)
MCSources ==
    {[height |-> pair[1], duration |-> pair[2]] :
        pair \in {<<0, 0>>, <<359, 1001>>, <<360, 1994>>, <<719, 2107>>, <<720, 2800>>,
                  <<1079, 4000>>, <<1080, 4001>>, <<2160, 3505>>, <<2160, 4020>>}}
=============================================================================
