------------------------------ MODULE Analytics ------------------------------
(***************************************************************************)
(* internal/analytics/analytics.go: what the dashboard shows of the viewer *)
(* sessions of a video.  "rows" maps each session that has a row to what   *)
(* it holds, times are as in Times, and a float64 between 0 and 1 is the   *)
(* fraction it stands for, num / den.                                      *)
(***************************************************************************)
EXTENDS Times, FiniteSets, FiniteSetsExt

CONSTANT Buckets  \* defaultBuckets

ASSUME BucketsAssumption == Buckets \in Nat

Zero == [num |-> 0, den |-> 1]
Fraction(num, den) == [num |-> num, den |-> den]

PlayedIn(rows) == {s \in DOMAIN rows : rows[s].played}

(* Slips: no clamp; strictly later than the sample; samples counted from 1; *)
(* who stopped at a sample; a time that is not rounded.                    *)
UnclampedTime(at, duration) == IF duration <= 0 THEN 0 ELSE at

PassedSample(at, i, duration) == at * Buckets > duration * i

ReachedNext(at, i, duration) == at * Buckets >= duration * (i + 1)

StoppedAtSample(at, i, duration) ==
    duration * i <= at * Buckets /\ at * Buckets < duration * (i + 1)

UnroundedTime(i, duration) == (duration * i) \div Buckets

(* watchFraction and clamp01, as the time that the fraction is of duration. *)
WatchedTime(at, duration) ==
    IF duration <= 0 THEN 0 ELSE IF at > duration THEN duration ELSE at

(* at >= duration * i / Buckets *)
ReachedSample(at, i, duration) == at * Buckets >= duration * i

(* round2(duration * i / Buckets): the nearest hundredth, the later of two. *)
SampleTime(i, duration) ==
    LET sample == Buckets * Hundredth
    IN  Hundredth * ((2 * duration * i + sample) \div (2 * sample))

RetentionAt(rows, i, duration) ==
    LET played == PlayedIn(rows)
    IN  IF played = {} THEN Zero
        ELSE Fraction(Cardinality({s \in played : ReachedSample(rows[s].at, i, duration)}),
                      Cardinality(played))

(* One point for each i in 0..Buckets; none when the duration is unknown. *)
DropoffCurve(rows, duration) ==
    [i \in (IF duration <= 0 \/ Buckets <= 0 THEN {} ELSE 0..Buckets) |->
        [time |-> SampleTime(i, duration), retention |-> RetentionAt(rows, i, duration)]]

PlayRate(rows) ==
    IF DOMAIN rows = {} THEN Zero
    ELSE Fraction(Cardinality(PlayedIn(rows)), Cardinality(DOMAIN rows))

AvgWatch(rows, duration) ==
    IF PlayedIn(rows) = {} \/ duration <= 0 THEN Zero
    ELSE Fraction(MapThenSumSet(LAMBDA s : WatchedTime(rows[s].at, duration), PlayedIn(rows)),
                  duration * Cardinality(PlayedIn(rows)))

Summarize(rows, duration) ==
    [impressions |-> Cardinality(DOMAIN rows),
     plays |-> Cardinality(PlayedIn(rows)),
     playRate |-> PlayRate(rows),
     avgWatch |-> AvgWatch(rows, duration),
     curve |-> DropoffCurve(rows, duration)]
=============================================================================
