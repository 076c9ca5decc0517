------------------------------- MODULE Viewing -------------------------------
(***************************************************************************)
(* A viewer watches (Player) what the server serves and records (EmbedApi) *)
(* while the operator changes the settings or deletes the video.           *)
(***************************************************************************)
EXTENDS EmbedApi, Player

vars == <<wires, serverVars, playerVars>>

TypeOK == WireTypeOK /\ ServerTypeOK /\ PlayerTypeOK

Init == WireInit /\ ServerInit /\ PlayerInit

(* The viewer clicks a CTA that is shown, then or earlier, and the click   *)
(* arrives.                                                                *)
ClickCTA(s, c) == c \in shown[s] /\ RecordCTAClick(s, c)

Next ==
    \/ (ServeViewers \/ Operate) /\ UNCHANGED playerVars
    \/ (\E s \in Sessions, c \in CTAs : ClickCTA(s, c)) /\ UNCHANGED playerVars
    \/ View /\ UNCHANGED serverVars

Spec == Init /\ [][Next]_vars

-----------------------------------------------------------------------------
CONSTANT Removed
ASSUME RemovedAssumption == Removed # NoRow /\ Removed \notin Reports

Figures == INSTANCE FurthestPoint WITH
    record <- [s \in Sessions |-> IF live THEN watch[s] ELSE Removed]

(* The row of each session implements FurthestPoint, whichever reports are *)
(* lost, late, repeated or out of order, and whenever the video goes       *)
(* (viewer_sessions.go:8-26, player.ts:128-199).                           *)
RecordsFurthest == Figures!Spec

(* The gate opens only on a lead that is on record (player.ts:233-258).    *)
GatePassedByLead ==
    \A s \in Sessions :
        gateResolved[s] /\ live => \E k \in leads : SessionOf[k] = s

(* Once the listeners have caught up, a video whose gate comes before      *)
(* playback does not play until the gate is passed (player.ts:131-139).    *)
BeforeGateHolds ==
    \A s \in Sessions : Held(s) /\ events[s] = <<>> => ~playing[s]

(* Once the listeners have caught up, nobody is at or past the time of a   *)
(* gate without having been shown it, by playing or by seeking; a gate at  *)
(* the start is shown once the video moves (player.ts:143-154).            *)
GateNotMissed ==
    \A s \in Sessions :
        LET held == manifest[s].gate
        IN  /\ Ready(s) /\ events[s] = <<>>
            /\ held.enabled /\ held.position = "timestamp"
            /\ held.at <= pos[s] /\ pos[s] # 0
            => gateShown[s]

(* The heartbeat beats exactly while the video plays (player.ts:175-189).  *)
HeartbeatFollows ==
    \A s \in Sessions : events[s] = <<>> => (timer[s] <=> playing[s])

(* The customer's system hears only of leads that are on record            *)
(* (embed_handlers.go:124-143).                                            *)
HookHasLead ==
    live => \A call \in calls \cup received : call.lead \in leads

(* A click on record is on a CTA that exists, was shown, and whose time    *)
(* the viewer has come to (player.ts:156-172, ctas.go:57-64).              *)
ClicksGenuine ==
    \A click \in clicks :
        /\ click[2] \in ctas \cap shown[click[1]]
        /\ reached[click[1]] >= IF click[2] \in EndCTAs THEN Duration ELSE CTAAt[click[2]]

(* Nothing is recorded for a video that is gone, whatever handlers had     *)
(* loaded of it (embed_handlers.go:80-140, 0001_init.sql:32-78).           *)
NoOrphans ==
    ~live => /\ \A s \in Sessions : watch[s] = NoRow
             /\ leads = {} /\ clicks = {} /\ ctas = {} /\ gate = NoGate

(* Playback waits for the gate, before playback or at its time             *)
(* (README.md:39).                                                         *)
GateStopsPlayback ==
    \A s \in Sessions : (Held(s) \/ Due(s)) /\ events[s] = <<>> => ~playing[s]
=============================================================================
