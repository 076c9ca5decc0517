\* Two viewers, four steps of 0.7 s by the player's clock; the probe found no
\* duration, a shorter one, or one that the samples do not divide.
CONSTANTS
    Sessions = {v1, v2}
    Duration = 4
    NoRow = NoRow
    Removed = Removed
    Hundredth = 10
    Buckets = 3
    Sources <- MCSources
    Step = 700
SPECIFICATION FiguresSpec
INVARIANTS FiguresTypeOK SharesInRange CurveFalls AverageFitsCurve RenditionsFit SeekInside
PROPERTIES FiguresGrow
CHECK_DEADLOCK FALSE
