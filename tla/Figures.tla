------------------------------- MODULE Figures -------------------------------
(***************************************************************************)
(* A source's height and duration, as Probe found them, with what is made  *)
(* of them (Renditions), and what the operator is shown (Analytics) of     *)
(* viewers whose records grow as FurthestPoint says: the rows of           *)
(* viewer_sessions do, as Viewing shows.                                   *)
(*                                                                         *)
(* The player's idea of the duration is Duration * Step and need not be    *)
(* the one that was probed, which is 0 when it is not known.               *)
(***************************************************************************)
EXTENDS FurthestPoint, Analytics, Renditions

CONSTANTS
    Sources,       \* what Probe may find
    Step           \* the length of a step of playback

ASSUME SourcesAssumption == Sources \subseteq [height : Nat, duration : Nat] /\ Step \in Nat

(* A table has finitely many rows. *)
ASSUME ViewersAssumption == IsFiniteSet(Sessions) /\ Duration \in Nat

VARIABLES height, duration

figuresVars == <<reached, record, height, duration>>

FiguresInit ==
    /\ Init
    /\ \E source \in Sources : height = source.height /\ duration = source.duration

FiguresNext == Next /\ UNCHANGED <<height, duration>>

FiguresSpec == FiguresInit /\ [][FiguresNext]_figuresVars

(* computeAnalytics *)
Rows == [s \in {s \in Sessions : record[s] \notin {NoRow, Removed}} |->
            [at |-> record[s].at * Step, played |-> record[s].played]]

Summary == Summarize(Rows, duration)

(* Everything keeps its type, and the curve has no point or all of them,   *)
(* each at a whole number of hundredths (analytics.go:70-72, 112-114).     *)
FiguresTypeOK ==
    /\ reached \in [Sessions -> 0..Duration]
    /\ record \in [Sessions -> [at : 0..Duration, played : BOOLEAN] \cup {NoRow, Removed}]
    /\ DOMAIN Summary.curve \in {{}, 0..Buckets}
    /\ \A i \in DOMAIN Summary.curve :
           /\ Summary.curve[i].time \in Nat
           /\ Summary.curve[i].time % Hundredth = 0

-----------------------------------------------------------------------------
AtMost(f, g) == f.num * g.den <= g.num * f.den

Near(a, b, most) == a <= b + most /\ b <= a + most

(* Every share the dashboard shows lies between 0 and 1, without viewers,  *)
(* without plays, with a duration of 0, and with progress past the         *)
(* duration that was probed (analytics.go:33-63).                          *)
SharesInRange ==
    LET shares == {Summary.playRate, Summary.avgWatch}
                  \cup {Summary.curve[i].retention : i \in DOMAIN Summary.curve}
    IN  \A f \in shares : f.den > 0 /\ 0 <= f.num /\ f.num <= f.den

(* The drop-off curve starts with everybody who played, at time 0, never   *)
(* rises and never goes back in time.  Every point is shown where it was   *)
(* counted to half a hundredth of a second, the last at most so far from   *)
(* the end, before or past it (analytics.go:65-87, 112-114).               *)
CurveFalls ==
    LET curve == Summary.curve
    IN  DOMAIN curve # {} =>
            /\ curve[0].time = 0
            /\ Summary.plays > 0 => curve[0].retention.num = Summary.plays
            /\ \A i \in 0..Buckets :
                   Near(2 * Buckets * curve[i].time, 2 * duration * i, Buckets * Hundredth)
            /\ \A i \in 1..Buckets :
                   /\ curve[i - 1].time <= curve[i].time
                   /\ AtMost(curve[i].retention, curve[i - 1].retention)

(* The two ways in which the dashboard tells how much was watched agree:   *)
(* the average lies between the areas under the curve that its samples     *)
(* allow for (analytics.go:40-52 and 69-100).                              *)
AverageFitsCurve ==
    LET curve == Summary.curve
        Area(I) == MapThenSumSet(LAMBDA i : curve[i].retention.num, I)
    IN  DOMAIN curve # {} /\ Summary.plays > 0 =>
            /\ AtMost(Fraction(Area(1..Buckets), Buckets * Summary.plays), Summary.avgWatch)
            /\ AtMost(Summary.avgWatch, Fraction(Area(0..Buckets - 1), Buckets * Summary.plays))

(* As long as nobody else starts to play and the video is there, no figure *)
(* about the plays falls (viewer_sessions.go:8-11, analytics.go:33-100).   *)
FiguresGrow ==
    [][LET old == Summary  new == Summary'
       IN  new.plays = old.plays /\ DOMAIN Rows \subseteq DOMAIN Rows' =>
              /\ AtMost(old.avgWatch, new.avgWatch)
              /\ \A i \in DOMAIN old.curve :
                    AtMost(old.curve[i].retention, new.curve[i].retention)]_figuresVars

(* There is always a rendition; none is higher than the source unless all  *)
(* are, and then it is the lowest; every stream is scaled to the rendition *)
(* it is named for, under its own name (transcode.go:32-46, 57-66).        *)
RenditionsFit ==
    LET all == {DefaultRenditions[i] : i \in DOMAIN DefaultRenditions}
        streams == StreamMap(SelectRenditions(height, DefaultRenditions))
        made == {Rendition(streams[i].name, streams[i].scale) : i \in DOMAIN streams}
        fitting == {r \in all : r.height <= height}
    IN  /\ made = IF fitting # {} THEN fitting
                  ELSE {r \in all : \A other \in all : r.height <= other.height}
        /\ \A i \in DOMAIN streams : streams[i].stream = streams[i].filter
        /\ {streams[i].stream : i \in DOMAIN streams} = 0..Len(streams) - 1

(* The thumbnail is taken inside every video of more than a second.        *)
SeekInside ==
    duration > 100 * Hundredth => 0 < SeekTime(duration) /\ SeekTime(duration) < duration
=============================================================================
