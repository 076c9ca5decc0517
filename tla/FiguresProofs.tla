---------------------------- MODULE FiguresProofs ----------------------------
(***************************************************************************)
(* Theorems about Figures, for any number of viewers and samples, any      *)
(* duration that the probe finds and any that the player goes by.          *)
(***************************************************************************)
EXTENDS Figures, AnalyticsProofs, SequenceTheorems

-----------------------------------------------------------------------------
(* The records *)

RecordsOK ==
    /\ reached \in [Sessions -> 0..Duration]
    /\ record \in [Sessions -> [at : 0..Duration, played : BOOLEAN] \cup {NoRow, Removed}]
    /\ height \in Nat /\ duration \in Nat

LEMMA RecordsStart == FiguresInit => RecordsOK
    BY SourcesAssumption, ViewersAssumption DEF FiguresInit, Init, RecordsOK

LEMMA RecordsStep == RecordsOK /\ [FiguresNext]_figuresVars => RecordsOK'
<1>1. SUFFICES ASSUME RecordsOK, [FiguresNext]_figuresVars PROVE RecordsOK'
    OBVIOUS
<1>2. CASE UNCHANGED figuresVars
    BY <1>1, <1>2 DEF figuresVars, RecordsOK
<1>3. CASE FiguresNext
  <2>1. height' = height /\ duration' = duration
      BY <1>3 DEF FiguresNext
  <2>2. ASSUME NEW s \in Sessions, Reach(s) PROVE RecordsOK'
    <3>1. PICK t \in (reached[s] + 1)..Duration : reached' = [reached EXCEPT ![s] = t]
        BY <2>2 DEF Reach
    <3>2. t \in 0..Duration
        BY <1>1, <3>1, ViewersAssumption DEF RecordsOK
    <3>3. QED
        BY <1>1, <2>1, <2>2, <3>1, <3>2 DEF Reach, RecordsOK
  <2>3. ASSUME NEW s \in Sessions, NEW new \in [at : 0..reached[s], played : BOOLEAN],
               Note(s, new)
        PROVE  RecordsOK'
    <3>1. new \in [at : 0..Duration, played : BOOLEAN]
        BY <1>1, ViewersAssumption DEF RecordsOK
    <3>2. QED
        BY <1>1, <2>1, <2>3, <3>1 DEF Note, RecordsOK
  <2>4. CASE Remove
      BY <1>1, <2>1, <2>4 DEF Remove, RecordsOK
  <2>5. QED
      BY <1>3, <2>2, <2>3, <2>4 DEF FiguresNext, Next
<1>4. QED
    BY <1>1, <1>2, <1>3

(* The rows that computeAnalytics reads and what Probe found keep their    *)
(* types (analytics_handlers.go:10, transcode.go:97).                      *)
THEOREM RecordsInvariant == FiguresSpec => []RecordsOK
    BY RecordsStart, RecordsStep, PTL DEF FiguresSpec

(* What is summarized are rows as the database holds them. *)
LEMMA RowsAreTyped == RecordsOK => RowsTypeOK(Rows)
<1>1. SUFFICES ASSUME RecordsOK PROVE RowsTypeOK(Rows)
    OBVIOUS
<1>2. DOMAIN Rows \subseteq Sessions /\ IsFiniteSet(DOMAIN Rows)
    BY ViewersAssumption, FS_Subset DEF Rows
<1>3. ASSUME NEW s \in DOMAIN Rows
      PROVE  Rows[s] \in [at : Nat, played : BOOLEAN]
  <2>1. record[s] \in [at : 0..Duration, played : BOOLEAN]
      BY <1>1 DEF RecordsOK, Rows
  <2>2. record[s].at * Step \in Nat
      BY <2>1, SourcesAssumption, ViewersAssumption
  <2>3. QED
      BY <2>1, <2>2 DEF Rows
<1>4. Rows \in [DOMAIN Rows -> [at : Nat, played : BOOLEAN]]
    BY <1>3 DEF Rows
<1>5. QED
    BY <1>2, <1>4 DEF RowsTypeOK

LEMMA CurvePoints ==
    ASSUME RecordsOK, NEW i \in DOMAIN Summary.curve
    PROVE  /\ duration > 0 /\ Buckets > 0 /\ i \in 0..Buckets
           /\ Summary.curve[i].time = SampleTime(i, duration)
           /\ Summary.curve[i].retention = RetentionAt(Rows, i, duration)
    BY BucketsAssumption DEF RecordsOK, Summary, Summarize, DropoffCurve

(* Everything keeps its type, and the curve has no point or all of them,   *)
(* each at a whole number of hundredths (analytics.go:70-72, 112-114), for *)
(* any durations and any unit of time.                                     *)
THEOREM FiguresTypeCorrect == FiguresSpec => []FiguresTypeOK
<1>1. RecordsOK => FiguresTypeOK
  <2>1. SUFFICES ASSUME RecordsOK PROVE FiguresTypeOK
      OBVIOUS
  <2>2. DOMAIN Summary.curve \in {{}, 0..Buckets}
      BY DEF Summary, Summarize, DropoffCurve
  <2>3. \A i \in DOMAIN Summary.curve :
            Summary.curve[i].time \in Nat /\ Summary.curve[i].time % Hundredth = 0
      BY <2>1, CurvePoints, SampleTimes DEF RecordsOK
  <2>4. QED
      BY <2>1, <2>2, <2>3 DEF FiguresTypeOK, RecordsOK
<1>2. QED
    BY <1>1, RecordsInvariant, PTL

-----------------------------------------------------------------------------
(* The figures *)

(* Every share the dashboard shows lies between 0 and 1, for any number of *)
(* viewers and plays, an unknown duration, and progress past the duration  *)
(* that was probed (analytics.go:33-63).                                   *)
THEOREM SharesAreInRange == FiguresSpec => []SharesInRange
<1>1. ASSUME RecordsOK PROVE SharesInRange
  <2>1. RowsTypeOK(Rows) /\ duration \in Nat
      BY <1>1, RowsAreTyped DEF RecordsOK
  <2>2. IsShare(Summary.playRate) /\ IsShare(Summary.avgWatch)
      BY <2>1, PlayRateShare, AvgWatchShare DEF Summary, Summarize
  <2>3. \A i \in DOMAIN Summary.curve : IsShare(Summary.curve[i].retention)
      BY <1>1, <2>1, CurvePoints, RetentionShare
  <2>4. QED
      BY <2>2, <2>3 DEF SharesInRange, IsShare
<1>2. QED
    BY <1>1, RecordsInvariant, PTL

(* The drop-off curve starts with everybody who played, at time 0, never   *)
(* rises and never goes back in time, and every point is shown where it    *)
(* was counted to half a hundredth of a second, for any viewers, duration  *)
(* and number of samples (analytics.go:65-87, 112-114).                    *)
THEOREM CurveAlwaysFalls == FiguresSpec => []CurveFalls
<1>1. ASSUME RecordsOK PROVE CurveFalls
  <2>1. SUFFICES ASSUME DOMAIN Summary.curve # {}
                 PROVE  /\ Summary.curve[0].time = 0
                        /\ Summary.plays > 0 => Summary.curve[0].retention.num = Summary.plays
                        /\ \A i \in 0..Buckets : Near(2 * Buckets * Summary.curve[i].time,
                                                      2 * duration * i, Buckets * Hundredth)
                        /\ \A i \in 1..Buckets :
                               /\ Summary.curve[i - 1].time <= Summary.curve[i].time
                               /\ AtMost(Summary.curve[i].retention,
                                         Summary.curve[i - 1].retention)
      BY DEF CurveFalls
  <2>2. DOMAIN Summary.curve = 0..Buckets /\ Buckets \in Nat
      BY <2>1, BucketsAssumption DEF Summary, Summarize, DropoffCurve
  <2>3. RowsTypeOK(Rows) /\ duration \in Nat /\ Buckets > 0
      BY <1>1, <2>1, RowsAreTyped, CurvePoints DEF RecordsOK
  <2>4. /\ Summary.curve[0].time = 0
        /\ \A i \in 0..Buckets : Near(2 * Buckets * Summary.curve[i].time,
                                      2 * duration * i, Buckets * Hundredth)
    <3>1. ASSUME NEW i \in 0..Buckets
          PROVE  /\ i = 0 => Summary.curve[i].time = 0
                 /\ Near(2 * Buckets * Summary.curve[i].time,
                         2 * duration * i, Buckets * Hundredth)
      <4>1. Summary.curve[i].time = SampleTime(i, duration)
          BY <1>1, <2>2, CurvePoints
      <4>2. QED
          BY <2>3, <4>1, SampleTimes DEF Near
    <3>2. QED
        BY <2>2, <3>1
  <2>5. Summary.plays = Cardinality(PlayedIn(Rows))
      BY DEF Summary, Summarize
  <2>6. Summary.plays > 0 => Summary.curve[0].retention.num = Summary.plays
    <3>1. CASE PlayedIn(Rows) = {}
        BY <2>5, <3>1, FS_EmptySet
    <3>2. CASE PlayedIn(Rows) # {}
        BY <1>1, <2>2, <2>3, <2>5, <3>2, CurvePoints, RetentionIs, AllAtStart DEF Fraction
    <3>3. QED
        BY <3>1, <3>2
  <2>7. ASSUME NEW i \in 1..Buckets
        PROVE  AtMost(RetentionAt(Rows, i, duration), RetentionAt(Rows, i - 1, duration))
    <3>1. CASE PlayedIn(Rows) = {}
        BY <3>1 DEF RetentionAt, Zero, AtMost
    <3>2. CASE PlayedIn(Rows) # {}
      <4>1. Cardinality(Retained(Rows, i, duration))
                <= Cardinality(Retained(Rows, i - 1, duration))
          BY <2>2, <2>3, RetainedShrinks
      <4>2. /\ Cardinality(Retained(Rows, i, duration)) \in Nat
            /\ Cardinality(Retained(Rows, i - 1, duration)) \in Nat
            /\ Cardinality(PlayedIn(Rows)) \in Nat
          BY <2>3, RetainedFinite, PlayedFinite
      <4>3. QED
          BY <3>2, <4>1, <4>2, RetentionIs, TimesLess DEF AtMost, Fraction
    <3>3. QED
        BY <3>1, <3>2
  <2>8. ASSUME NEW i \in 1..Buckets
        PROVE  /\ Summary.curve[i - 1].time <= Summary.curve[i].time
               /\ AtMost(Summary.curve[i].retention, Summary.curve[i - 1].retention)
    <3>1. /\ i \in DOMAIN Summary.curve /\ i - 1 \in DOMAIN Summary.curve
          /\ i \in Nat /\ i - 1 \in Nat /\ i - 1 <= i
        BY <2>2
    <3>2. SampleTime(i - 1, duration) <= SampleTime(i, duration)
        BY <2>3, <3>1, SamplesInOrder
    <3>3. QED
        BY <1>1, <2>7, <3>1, <3>2, CurvePoints
  <2>9. QED
      BY <2>4, <2>6, <2>8
<1>2. QED
    BY <1>1, RecordsInvariant, PTL

(* The two ways in which the dashboard tells how much was watched agree,   *)
(* for any viewers: the average lies between the areas under the curve     *)
(* that its samples allow for (analytics.go:40-52 and 69-100).             *)
THEOREM AverageAlwaysFits == FiguresSpec => []AverageFitsCurve
<1>1. ASSUME RecordsOK PROVE AverageFitsCurve
  <2> DEFINE plays == Cardinality(PlayedIn(Rows))
             sum == WatchedSum(Rows, duration)
             lower == AreaUnder(Summary.curve, 1..Buckets)
             upper == AreaUnder(Summary.curve, 0..Buckets - 1)
  <2>1. SUFFICES ASSUME DOMAIN Summary.curve # {}, Summary.plays > 0
                 PROVE  /\ AtMost(Fraction(lower, Buckets * Summary.plays), Summary.avgWatch)
                        /\ AtMost(Summary.avgWatch, Fraction(upper, Buckets * Summary.plays))
      BY DEF AverageFitsCurve, AreaUnder
  <2>2. /\ DOMAIN Summary.curve = 0..Buckets /\ Buckets \in Nat
        /\ Summary.plays = plays
      BY <2>1, BucketsAssumption DEF Summary, Summarize, DropoffCurve
  <2>3. RowsTypeOK(Rows) /\ duration \in Nat /\ Buckets > 0 /\ duration > 0
      BY <1>1, <2>1, RowsAreTyped, CurvePoints DEF RecordsOK
  <2>4. plays \in Nat /\ plays > 0 /\ PlayedIn(Rows) # {}
      BY <2>1, <2>2, <2>3, PlayedFinite, FS_EmptySet
  <2>5. \A i \in 0..Buckets :
            Summary.curve[i].retention.num = Cardinality(Retained(Rows, i, duration))
      BY <1>1, <2>2, <2>4, CurvePoints, RetentionIs DEF Fraction
  <2>6. /\ lower \in Nat /\ upper \in Nat /\ sum \in Nat
        /\ duration * lower <= Buckets * sum /\ Buckets * sum <= duration * upper
    <3>1. sum \in Nat
        BY <2>3, WatchedSumInside
    <3>2. QED
        BY <2>3, <2>5, <3>1, AreasFit
  <2>7. Summary.avgWatch = Fraction(sum, duration * plays)
      BY <2>3, <2>4, AvgWatchIs DEF Summary, Summarize
  <2> HIDE DEF lower, upper, sum, plays
  <2>8. /\ lower * (duration * plays) = (duration * lower) * plays
        /\ sum * (Buckets * plays) = (Buckets * sum) * plays
        /\ upper * (duration * plays) = (duration * upper) * plays
        /\ duration * lower \in Nat /\ Buckets * sum \in Nat /\ duration * upper \in Nat
      BY <2>2, <2>3, <2>4, <2>6
  <2>9. /\ (duration * lower) * plays <= (Buckets * sum) * plays
        /\ (Buckets * sum) * plays <= (duration * upper) * plays
      BY <2>4, <2>6, <2>8, TimesLess
  <2>10. QED
      BY <2>2, <2>7, <2>8, <2>9 DEF AtMost, Fraction
<1>2. QED
    BY <1>1, RecordsInvariant, PTL

-----------------------------------------------------------------------------
(* How they grow *)

(* A row that is there before and after a step only got further. *)
LEMMA RowsGrow ==
    ASSUME RecordsOK, RecordsOK', [FiguresNext]_figuresVars,
           NEW s \in DOMAIN Rows, s \in DOMAIN Rows'
    PROVE  Rows[s].at <= Rows'[s].at /\ (Rows[s].played => Rows'[s].played)
<1>1. /\ s \in Sessions /\ record[s] \notin {NoRow, Removed}
      /\ record'[s] \notin {NoRow, Removed}
      /\ Rows[s] = [at |-> record[s].at * Step, played |-> record[s].played]
      /\ Rows'[s] = [at |-> record'[s].at * Step, played |-> record'[s].played]
    BY DEF Rows
<1>2. record[s].at \in Nat /\ record'[s].at \in Nat
    BY <1>1, ViewersAssumption DEF RecordsOK
<1>3. record[s].at <= record'[s].at /\ (record[s].played => record'[s].played)
  <2>1. CASE record' = record
      BY <1>2, <2>1
  <2>2. CASE Remove
      BY <1>1, <2>2 DEF Remove
  <2>3. ASSUME NEW v \in Sessions, NEW new, Note(v, new)
        PROVE  record[s].at <= record'[s].at /\ (record[s].played => record'[s].played)
    <3>1. CASE v = s
        BY <1>1, <2>3, <3>1 DEF Note, RecordsOK
    <3>2. CASE v # s
        BY <1>1, <1>2, <2>3, <3>2 DEF Note, RecordsOK
    <3>3. QED
        BY <3>1, <3>2
  <2>4. QED
      BY <2>1, <2>2, <2>3 DEF FiguresNext, Next, Reach, figuresVars
<1>4. record[s].at * Step <= record'[s].at * Step
    BY <1>2, <1>3, SourcesAssumption, TimesLess
<1>5. QED
    BY <1>1, <1>3, <1>4

(* As long as nobody else starts to play and the video is there, no figure *)
(* about the plays falls (viewer_sessions.go:8-11, analytics.go:33-100).   *)
THEOREM FiguresAlwaysGrow == FiguresSpec => FiguresGrow
<1> DEFINE Grows == LET old == Summary  new == Summary'
                    IN  new.plays = old.plays /\ DOMAIN Rows \subseteq DOMAIN Rows' =>
                          /\ AtMost(old.avgWatch, new.avgWatch)
                          /\ \A i \in DOMAIN old.curve :
                                AtMost(old.curve[i].retention, new.curve[i].retention)
<1>1. ASSUME RecordsOK, RecordsOK', [FiguresNext]_figuresVars PROVE Grows
  <2>1. SUFFICES ASSUME Summary'.plays = Summary.plays, DOMAIN Rows \subseteq DOMAIN Rows'
                 PROVE  /\ AtMost(Summary.avgWatch, Summary'.avgWatch)
                        /\ \A i \in DOMAIN Summary.curve :
                              AtMost(Summary.curve[i].retention, Summary'.curve[i].retention)
      OBVIOUS
  <2>2. RowsTypeOK(Rows) /\ RowsTypeOK(Rows') /\ duration \in Nat /\ duration' = duration
    <3>1. RowsTypeOK(Rows)
        BY <1>1, RowsAreTyped
    <3>2. RowsTypeOK(Rows)'
        BY <1>1, RowsAreTyped, PTL
    <3>3. duration \in Nat /\ duration' = duration
        BY <1>1 DEF RecordsOK, FiguresNext, figuresVars
    <3>4. QED
        BY <3>1, <3>2, <3>3 DEF RowsTypeOK
  <2> DEFINE rows == Rows
             later == Rows'
  <2>3. Summary = Summarize(rows, duration) /\ Summary' = Summarize(later, duration)
      BY <2>2 DEF Summary
  <2>4. \A s \in DOMAIN rows : rows[s].at <= later[s].at /\ (rows[s].played => later[s].played)
      BY <1>1, <2>1, RowsGrow
  <2> HIDE DEF rows, later
  <2>5. RowsTypeOK(rows) /\ RowsTypeOK(later)
      BY <2>2 DEF rows, later
  <2>6. PlayedIn(later) = PlayedIn(rows)
    <3>1. PlayedIn(rows) \subseteq PlayedIn(later)
        BY <2>1, <2>4 DEF PlayedIn, rows, later
    <3>2. Cardinality(PlayedIn(rows)) = Cardinality(PlayedIn(later))
        BY <2>1, <2>3 DEF Summarize
    <3>3. QED
        BY <2>5, <3>1, <3>2, PlayedFinite, FS_Subset
  <2>7. \A s \in PlayedIn(rows) : rows[s].at <= later[s].at
      BY <2>4 DEF PlayedIn
  <2>8. AtMost(AvgWatch(rows, duration), AvgWatch(later, duration))
    <3>1. CASE PlayedIn(rows) = {} \/ duration <= 0
        BY <2>6, <3>1 DEF AvgWatch, Zero, AtMost
    <3>2. CASE PlayedIn(rows) # {} /\ duration > 0
      <4> DEFINE den == duration * Cardinality(PlayedIn(rows))
      <4>1. /\ AvgWatch(rows, duration) = Fraction(WatchedSum(rows, duration), den)
            /\ AvgWatch(later, duration) = Fraction(WatchedSum(later, duration), den)
          BY <2>2, <2>6, <3>2, AvgWatchIs
      <4>2. den \in Nat
          BY <2>2, <2>5, PlayedFinite
      <4>3. /\ WatchedSum(rows, duration) \in Nat /\ WatchedSum(later, duration) \in Nat
            /\ WatchedSum(rows, duration) <= WatchedSum(later, duration)
          BY <2>2, <2>5, <2>6, <2>7, WatchedSumInside, WatchedSumGrows
      <4> HIDE DEF den
      <4>4. QED
          BY <4>1, <4>2, <4>3, TimesLess DEF AtMost, Fraction
    <3>3. QED
        BY <2>2, <3>1, <3>2
  <2>9. ASSUME NEW i \in DOMAIN Summary.curve
        PROVE  AtMost(Summary.curve[i].retention, Summary'.curve[i].retention)
    <3>1. /\ i \in 0..Buckets
          /\ Summary.curve[i].retention = RetentionAt(rows, i, duration)
          /\ Summary'.curve[i].retention = RetentionAt(later, i, duration)
        BY <2>3, <2>9 DEF Summarize, DropoffCurve
    <3>2. CASE PlayedIn(rows) = {}
        BY <2>6, <3>1, <3>2 DEF RetentionAt, Zero, AtMost
    <3>3. CASE PlayedIn(rows) # {}
      <4>1. /\ RetentionAt(rows, i, duration)
                   = Fraction(Cardinality(Retained(rows, i, duration)),
                              Cardinality(PlayedIn(rows)))
            /\ RetentionAt(later, i, duration)
                   = Fraction(Cardinality(Retained(later, i, duration)),
                              Cardinality(PlayedIn(rows)))
          BY <2>6, <3>3, RetentionIs
      <4>2. Cardinality(Retained(rows, i, duration))
                <= Cardinality(Retained(later, i, duration))
          BY <2>2, <2>5, <2>6, <2>7, <3>1, BucketsAssumption, RetainedGrows
      <4>3. /\ Cardinality(Retained(rows, i, duration)) \in Nat
            /\ Cardinality(Retained(later, i, duration)) \in Nat
            /\ Cardinality(PlayedIn(rows)) \in Nat
          BY <2>5, RetainedFinite, PlayedFinite
      <4>4. QED
          BY <3>1, <4>1, <4>2, <4>3, TimesLess DEF AtMost, Fraction
    <3>4. QED
        BY <3>2, <3>3
  <2>10. QED
      BY <2>3, <2>8, <2>9 DEF Summarize
<1>2. QED
    BY <1>1, RecordsInvariant, PTL DEF FiguresSpec, FiguresGrow

-----------------------------------------------------------------------------
(* The renditions *)

(* The candidates of DefaultRenditions. *)
Low == Rendition("360p", 360)
Middle == Rendition("720p", 720)
High == Rendition("1080p", 1080)

LEMMA Heights ==
    /\ DefaultRenditions = <<Low, Middle, High>> /\ Len(DefaultRenditions) = 3
    /\ Low.height = 360 /\ Middle.height = 720 /\ High.height = 1080
    BY DEF DefaultRenditions, Low, Middle, High, Rendition

LEMMA AppendOne ==
    ASSUME NEW a, NEW b
    PROVE  Append(<<a>>, b) = <<a, b>>
<1> DEFINE S == {a, b}
           more == Append(<<a>>, b)
<1>1. <<a>> \in Seq(S) /\ <<a, b>> \in Seq(S) /\ Len(<<a>>) = 1 /\ Len(<<a, b>>) = 2
    OBVIOUS
<1>2. more \in Seq(S) /\ Len(more) = 2 /\ more[1] = a /\ more[2] = b
    BY <1>1, AppendProperties
<1>3. \A i \in 1..Len(more) : more[i] = <<a, b>>[i]
    BY <1>2
<1>4. QED
    BY <1>1, <1>2, <1>3, SeqEqual

LEMMA AppendTwo ==
    ASSUME NEW a, NEW b, NEW c
    PROVE  Append(<<a, b>>, c) = <<a, b, c>>
<1> DEFINE S == {a, b, c}
           more == Append(<<a, b>>, c)
<1>1. /\ <<a, b>> \in Seq(S) /\ <<a, b, c>> \in Seq(S)
      /\ Len(<<a, b>>) = 2 /\ Len(<<a, b, c>>) = 3
    OBVIOUS
<1>2. more \in Seq(S) /\ Len(more) = 3 /\ more[1] = a /\ more[2] = b /\ more[3] = c
    BY <1>1, AppendProperties
<1>3. \A i \in 1..Len(more) : more[i] = <<a, b, c>>[i]
    BY <1>2
<1>4. QED
    BY <1>1, <1>2, <1>3, SeqEqual

(* The loop over the three candidates, unfolded. *)
LEMMA Selected ==
    ASSUME NEW h \in Nat
    PROVE  SelectRenditions(h, DefaultRenditions) =
               IF h >= 1080 THEN <<Low, Middle, High>>
               ELSE IF h >= 720 THEN <<Low, Middle>> ELSE <<Low>>
<1> DEFINE Turn(f, n) == IF n = 0 THEN <<>>
                         ELSE IF DefaultRenditions[n].height > h THEN f[n - 1]
                         ELSE Append(f[n - 1], DefaultRenditions[n])
           Loop(f) == f = [n \in 0..Len(DefaultRenditions) |-> Turn(f, n)]
           selected == CHOOSE f : Loop(f)
           first == IF h >= 360 THEN <<Low>> ELSE <<>>
           second == IF h >= 720 THEN <<Low, Middle>> ELSE first
           third == IF h >= 1080 THEN <<Low, Middle, High>> ELSE second
           table == [n \in 0..3 |-> IF n = 0 THEN <<>> ELSE IF n = 1 THEN first
                                    ELSE IF n = 2 THEN second ELSE third]
<1>1. ASSUME NEW f
      PROVE  /\ Turn(f, 0) = <<>>
             /\ f[0] = <<>> => Turn(f, 1) = first
             /\ f[1] = first => Turn(f, 2) = second
             /\ f[2] = second => Turn(f, 3) = third
  <2>1. Turn(f, 0) = <<>>
      OBVIOUS
  <2>2. f[0] = <<>> => Turn(f, 1) = first
    <3>1. DefaultRenditions[1] = Low /\ Append(<<>>, Low) = <<Low>>
        BY Heights
    <3>2. Turn(f, 1) = IF Low.height > h THEN f[0] ELSE Append(f[0], Low)
        BY <3>1
    <3>3. Low.height > h <=> ~(h >= 360)
        BY Heights
    <3> HIDE DEF Turn
    <3>4. QED
        BY <3>1, <3>2, <3>3
  <2>3. f[1] = first => Turn(f, 2) = second
    <3>1. DefaultRenditions[2] = Middle /\ Append(<<Low>>, Middle) = <<Low, Middle>>
        BY Heights, AppendOne
    <3>2. Turn(f, 2) = IF Middle.height > h THEN f[1] ELSE Append(f[1], Middle)
        BY <3>1
    <3>3. Middle.height > h <=> ~(h >= 720)
        BY Heights
    <3>4. h >= 720 => first = <<Low>>
        OBVIOUS
    <3> HIDE DEF Turn, first
    <3>5. QED
        BY <3>1, <3>2, <3>3, <3>4
  <2>4. f[2] = second => Turn(f, 3) = third
    <3>1. /\ DefaultRenditions[3] = High
          /\ Append(<<Low, Middle>>, High) = <<Low, Middle, High>>
        BY Heights, AppendTwo
    <3>2. Turn(f, 3) = IF High.height > h THEN f[2] ELSE Append(f[2], High)
        BY <3>1
    <3>3. High.height > h <=> ~(h >= 1080)
        BY Heights
    <3>4. h >= 1080 => second = <<Low, Middle>>
        OBVIOUS
    <3> HIDE DEF Turn, second
    <3>5. QED
        BY <3>1, <3>2, <3>3, <3>4
  <2>5. QED
      BY <2>1, <2>2, <2>3, <2>4
<1> HIDE DEF Turn, first, second, third
<1>2. \A f : Loop(f) <=> f = [n \in 0..3 |-> Turn(f, n)]
    BY Heights
<1>3. Loop(table)
  <2>1. table[0] = <<>> /\ table[1] = first /\ table[2] = second /\ table[3] = third
      OBVIOUS
  <2>2. \A n \in 0..3 : n \in {0, 1, 2, 3}
      OBVIOUS
  <2>3. \A n \in 0..3 : table[n] = Turn(table, n)
    <3> HIDE DEF table
    <3> QED
        BY <1>1, <2>1, <2>2
  <2>4. table = [n \in 0..3 |-> table[n]]
      OBVIOUS
  <2> HIDE DEF table, Loop
  <2>5. QED
      BY <1>2, <2>3, <2>4
<1>4. selected = [n \in 0..3 |-> Turn(selected, n)]
  <2>1. Loop(selected)
    <3> HIDE DEF Loop, table
    <3> QED
        BY <1>3
  <2> HIDE DEF Loop, selected
  <2>2. QED
      BY <1>2, <2>1
<1>5. selected[3] = third
  <2> HIDE DEF selected
  <2>1. selected[0] = Turn(selected, 0) /\ selected[1] = Turn(selected, 1)
        /\ selected[2] = Turn(selected, 2) /\ selected[3] = Turn(selected, 3)
      BY <1>4
  <2>2. QED
      BY <1>1, <2>1
<1>6. SelectRenditions(h, DefaultRenditions)
          = IF selected[3] = <<>> /\ DefaultRenditions # <<>> THEN <<DefaultRenditions[1]>>
            ELSE selected[3]
    BY Heights DEF SelectRenditions, Turn
<1>7. QED
  <2> HIDE DEF selected
  <2>1. DefaultRenditions # <<>> /\ DefaultRenditions[1] = Low
      BY Heights
  <2>2. <<Low>> # <<>> /\ <<Low, Middle>> # <<>> /\ <<Low, Middle, High>> # <<>>
      OBVIOUS
  <2>3. QED
      BY <1>5, <1>6, <2>1, <2>2 DEF first, second, third

(* The streams are named, filtered and scaled for what was selected. *)
LEMMA Fit == ASSUME height \in Nat PROVE RenditionsFit
<1> DEFINE all == {DefaultRenditions[i] : i \in DOMAIN DefaultRenditions}
           chosen == SelectRenditions(height, DefaultRenditions)
           streams == StreamMap(chosen)
           made == {Rendition(streams[i].name, streams[i].scale) : i \in DOMAIN streams}
           fitting == {r \in all : r.height <= height}
<1>1. all = {Low, Middle, High}
    BY Heights
<1>2. fitting = IF height >= 1080 THEN {Low, Middle, High}
                ELSE IF height >= 720 THEN {Low, Middle}
                ELSE IF height >= 360 THEN {Low} ELSE {}
    BY <1>1, Heights
<1>3. {r \in all : \A other \in all : r.height <= other.height} = {Low}
    BY <1>1, Heights
<1>4. \A r \in {Low, Middle, High} : Rendition(r.name, r.height) = r
    BY DEF Low, Middle, High, Rendition
<1>5. /\ Len(chosen) \in 1..3 /\ DOMAIN chosen = 1..Len(chosen)
      /\ \A i \in DOMAIN chosen : chosen[i] \in {Low, Middle, High}
      /\ {chosen[i] : i \in DOMAIN chosen} =
             IF height >= 1080 THEN {Low, Middle, High}
             ELSE IF height >= 720 THEN {Low, Middle} ELSE {Low}
  <2>1. CASE height >= 1080
      BY <2>1, Selected
  <2>2. CASE height >= 720 /\ ~(height >= 1080)
      BY <2>2, Selected
  <2>3. CASE ~(height >= 720)
      BY <2>3, Selected
  <2>4. QED
      BY <2>1, <2>2, <2>3
<1> HIDE DEF all, chosen, fitting
<1>6. /\ DOMAIN streams = 1..Len(chosen) /\ Len(streams) = Len(chosen)
      /\ \A i \in DOMAIN streams :
             /\ streams[i].stream = i - 1 /\ streams[i].filter = i - 1
             /\ Rendition(streams[i].name, streams[i].scale) = chosen[i]
  <2>1. streams = [i \in 1..Len(chosen) |->
                      [stream |-> i - 1, name |-> chosen[i].name,
                       filter |-> i - 1, scale |-> chosen[i].height]]
      BY <1>5 DEF StreamMap
  <2>2. QED
      BY <1>4, <1>5, <2>1
<1> HIDE DEF streams
<1>7. made = {chosen[i] : i \in DOMAIN chosen}
    BY <1>5, <1>6
<1> HIDE DEF made
<1>8. made = IF fitting # {} THEN fitting
             ELSE {r \in all : \A other \in all : r.height <= other.height}
  <2>1. CASE height >= 360
      BY <1>2, <1>5, <1>7, <2>1
  <2>2. CASE ~(height >= 360)
      BY <1>2, <1>3, <1>5, <1>7, <2>2
  <2>3. QED
      BY <2>1, <2>2
<1>9. {streams[i].stream : i \in DOMAIN streams} = 0..Len(streams) - 1
  <2>1. {streams[i].stream : i \in DOMAIN streams} = {i - 1 : i \in 1..Len(chosen)}
      BY <1>6
  <2>2. ASSUME NEW k \in 0..Len(chosen) - 1
        PROVE  k + 1 \in 1..Len(chosen) /\ k = (k + 1) - 1
      BY <1>5
  <2>3. {i - 1 : i \in 1..Len(chosen)} = 0..Len(chosen) - 1
      BY <1>5, <2>2
  <2>4. QED
      BY <1>6, <2>1, <2>3
<1>10. QED
    BY <1>6, <1>8, <1>9 DEF RenditionsFit, all, chosen, fitting, streams, made

(* There is always a rendition; none is higher than the source unless all  *)
(* are, and then it is the lowest; every stream is scaled to the rendition *)
(* it is named for, under its own name (transcode.go:32-46, 57-66).        *)
THEOREM RenditionsAlwaysFit == FiguresSpec => []RenditionsFit
<1>1. RecordsOK => RenditionsFit
    BY Fit DEF RecordsOK
<1>2. QED
    BY <1>1, RecordsInvariant, PTL

-----------------------------------------------------------------------------
(* The thumbnail *)

(* The thumbnail is taken inside every video of more than a second         *)
(* (transcode_queue.go:160-173).                                           *)
THEOREM ThumbnailInside == FiguresSpec => []SeekInside
<1>1. ASSUME RecordsOK, duration > 100 * Hundredth
      PROVE  0 < SeekTime(duration) /\ SeekTime(duration) < duration
  <2>1. /\ duration \in Nat /\ Hundredth \in Nat /\ Hundredth > 0
        /\ 4 * Hundredth \in Nat /\ 4 * Hundredth > 0
      BY <1>1, HundredthAssumption DEF RecordsOK
  <2>2. CASE duration > 400 * Hundredth
    <3> DEFINE below == duration \div (4 * Hundredth)
    <3>1. PICK k \in {below, below + 1} : SeekTime(duration) = Hundredth * k
        BY <2>2 DEF SeekTime
    <3>2. below \in Nat /\ (4 * Hundredth) * below <= duration /\ below >= 100
      <4>1. duration >= 100 * (4 * Hundredth)
          BY <2>1, <2>2
      <4>2. QED
          BY <2>1, <4>1, Quotient, DivBetween
    <3> HIDE DEF below
    <3>3. /\ Hundredth * below \in Nat /\ 4 * (Hundredth * below) <= duration
          /\ Hundredth * (below + 1) = Hundredth * below + Hundredth
          /\ Hundredth * 100 <= Hundredth * below
        BY <2>1, <3>2, TimesLess
    <3>4. QED
        BY <2>1, <2>2, <3>1, <3>3
  <2>3. CASE ~(duration > 400 * Hundredth)
      BY <1>1, <2>1, <2>3 DEF SeekTime
  <2>4. QED
      BY <2>2, <2>3
<1>2. RecordsOK => SeekInside
    BY <1>1 DEF SeekInside
<1>3. QED
    BY <1>2, RecordsInvariant, PTL
=============================================================================
