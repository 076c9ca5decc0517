\* One viewer of a video with a lead gate.
CONSTANTS
    viewer = viewer
    form = form
    soon = soon
    atEnd = atEnd
    Sessions = {viewer}
    Duration = 2
    Gates <- MCGates
    NoGate = NoGate
    CTAs = {}
    EndCTAs = {}
    CTAAt <- MCCTAAt
    Submits = {form}
    SessionOf <- MCSessionOf
    Hooks = {}
    NoHook = "none"
    NoRow = NoRow
    Removed = Removed
    MaxEdits = 1
    MaxEvents = 2
SPECIFICATION Spec
INVARIANTS GateStopsPlayback
CHECK_DEADLOCK FALSE
