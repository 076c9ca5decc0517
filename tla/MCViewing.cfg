\* One viewer, a form that can be sent again when it is refused, a CTA in the
\* video and one at its end, and an operator who makes two changes and may
\* delete the video.
CONSTANTS
    viewer = viewer
    form = form
    soon = soon
    atEnd = atEnd
    Sessions = {viewer}
    Duration = 2
    Gates <- MCGates
    NoGate = NoGate
    CTAs = {soon, atEnd}
    EndCTAs = {atEnd}
    CTAAt <- MCCTAAt
    Submits = {form}
    SessionOf <- MCSessionOf
    Hooks = {"url"}
    NoHook = "none"
    NoRow = NoRow
    Removed = Removed
    MaxEdits = 2
    MaxEvents = 2
SPECIFICATION Spec
INVARIANTS TypeOK GatePassedByLead BeforeGateHolds GateNotMissed HeartbeatFollows HookHasLead ClicksGenuine NoOrphans
PROPERTIES RecordsFurthest
CHECK_DEADLOCK FALSE
