-------------------------------- MODULE Times --------------------------------
(***************************************************************************)
(* Times are integers, in a unit that is finer than the hundredths of a    *)
(* second some are rounded to: ffprobe prints microseconds                 *)
(* (internal/transcode/transcode.go:103).                                  *)
(***************************************************************************)
EXTENDS Integers

CONSTANT Hundredth  \* units of time in a hundredth of a second

ASSUME HundredthAssumption == Hundredth \in Nat \ {0}
=============================================================================
