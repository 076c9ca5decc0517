------------------------------- MODULE Player -------------------------------
(***************************************************************************)
(* The embedded player (web/player/src/player.ts): the listeners on its    *)
(* video element, the heartbeat timer, the lead gate's form and the CTAs.  *)
(*                                                                         *)
(* The video element is the browser's: play() and pause() change whether   *)
(* it is playing at once and queue an event, playback and seeking queue    *)
(* timeupdate, and the end of the video stops it and queues ended.  The    *)
(* listeners run one event at a time, in the order queued, and see the     *)
(* element as it is by then.                                               *)
(***************************************************************************)
EXTENDS EmbedWire

CONSTANT MaxEvents  \* bound on events queued by the viewer and by playback

ASSUME MaxEventsAssumption == MaxEvents \in Nat \ {0}

VARIABLES
    pos,           \* video.currentTime
    playing,       \* ~video.paused
    events,        \* the element's queued events
    timer,         \* the heartbeat interval is set
    gateShown,
    gateResolved,
    shown,         \* shownCTAIds
    reached        \* the furthest pos so far, kept for the properties

element == <<pos, playing, events, reached>>
gates == <<gateShown, gateResolved>>
playerVars == <<element, timer, gates, shown>>

Events == {"play", "pause", "timeupdate", "ended"}

PlayerTypeOK ==
    /\ pos \in [Sessions -> 0..Duration]
    /\ playing \in [Sessions -> BOOLEAN]
    /\ events \in [Sessions -> Seq(Events)]
    /\ timer \in [Sessions -> BOOLEAN]
    /\ gateShown \in [Sessions -> BOOLEAN] /\ gateResolved \in [Sessions -> BOOLEAN]
    /\ shown \in [Sessions -> SUBSET CTAs]
    /\ reached \in [Sessions -> 0..Duration]

PlayerInit ==
    /\ pos = [s \in Sessions |-> 0]
    /\ playing = [s \in Sessions |-> FALSE]
    /\ events = [s \in Sessions |-> <<>>]
    /\ timer = [s \in Sessions |-> FALSE]
    /\ gateShown = [s \in Sessions |-> FALSE]
    /\ gateResolved = [s \in Sessions |-> FALSE]
    /\ shown = [s \in Sessions |-> {}]
    /\ reached = [s \in Sessions |-> 0]

Ready(s) == manifest[s].place = "rendered"

Queue(s, q) == events' = [events EXCEPT ![s] = q]

MoveTo(s, t) ==
    /\ pos' = [pos EXCEPT ![s] = t]
    /\ reached' = [reached EXCEPT ![s] = IF t > @ THEN t ELSE @]

SetPlaying(s, b) == playing' = [playing EXCEPT ![s] = b]

(* video.play() and video.pause(), on top of the queue q. *)
PlayOnto(s, q) ==
    IF playing[s] THEN Queue(s, q) /\ UNCHANGED <<pos, playing, reached>>
    ELSE /\ SetPlaying(s, TRUE)
         /\ MoveTo(s, IF pos[s] = Duration THEN 0 ELSE pos[s])
         /\ Queue(s, Append(q, "play"))

PauseOnto(s, q) ==
    /\ Queue(s, IF playing[s] THEN Append(q, "pause") ELSE q)
    /\ SetPlaying(s, FALSE)
    /\ UNCHANGED <<pos, reached>>

(* Slip: a gate is due at its time only. *)
DueExactly(s) == /\ manifest[s].gate.enabled /\ manifest[s].gate.position = "timestamp"
                 /\ ~gateResolved[s]
                 /\ pos[s] = manifest[s].gate.at

(* A gate to be passed before playback, and one at a time that has come. *)
Held(s) == /\ manifest[s].gate.enabled /\ manifest[s].gate.position = "before"
           /\ ~gateResolved[s]

Due(s) == /\ manifest[s].gate.enabled /\ manifest[s].gate.position = "timestamp"
          /\ ~gateResolved[s]
          /\ pos[s] >= manifest[s].gate.at

Handles(s, event) == events[s] # <<>> /\ Head(events[s]) = event

(* Slips: the play listener does not pause; the timer is not cleared; CTAs *)
(* are shown ahead of their time; the form takes any answer for a good one. *)
OnPlayOnly(s) ==
    /\ Handles(s, "play")
    /\ Report(s, pos[s], TRUE)
    /\ timer' = [timer EXCEPT ![s] = TRUE]
    /\ Queue(s, Tail(events[s]))
    /\ UNCHANGED <<pos, playing, reached, gates, shown, manifest, submit>>

OnPauseOnly(s) ==
    /\ Handles(s, "pause")
    /\ Queue(s, Tail(events[s]))
    /\ UNCHANGED <<pos, playing, reached, timer, gates, shown, wires>>

AllTimed(s) == manifest[s].ctas \ EndCTAs

TakeAnyAnswer(k) ==
    LET s == SessionOf[k]
    IN  /\ submit[k] \in {"stored", "refused"}
        /\ SubmitGoes(k, "done")
        /\ gateResolved' = [gateResolved EXCEPT ![s] = TRUE]
        /\ PlayOnto(s, events[s])
        /\ UNCHANGED <<timer, gateShown, shown, manifest, reported>>

-----------------------------------------------------------------------------
(* init: the manifest is asked for; its answer is rendered, with the gate  *)
(* in front of the video when it comes before playback.                    *)
FetchManifest(s) ==
    /\ manifest[s].place = "idle"
    /\ ManifestGoes(s, "asked")
    /\ UNCHANGED <<playerVars, reported, submit>>

Render(s) ==
    /\ manifest[s].place = "answered"
    /\ ManifestGoes(s, "rendered")
    /\ gateShown' = [gateShown EXCEPT ![s] = Held(s)]
    /\ Report(s, 0, FALSE)
    /\ UNCHANGED <<element, timer, gateResolved, shown, submit>>

(* The viewer and the passing of time. *)
PressPlay(s) ==
    /\ Ready(s) /\ ~playing[s] /\ Len(events[s]) < MaxEvents
    /\ PlayOnto(s, events[s])
    /\ UNCHANGED <<timer, gates, shown, wires>>

PressPause(s) ==
    /\ playing[s] /\ Len(events[s]) < MaxEvents
    /\ PauseOnto(s, events[s])
    /\ UNCHANGED <<timer, gates, shown, wires>>

Advance(s) ==
    /\ playing[s] /\ pos[s] < Duration /\ Len(events[s]) < MaxEvents
    /\ MoveTo(s, pos[s] + 1)
    /\ Queue(s, Append(events[s], "timeupdate"))
    /\ UNCHANGED <<playing, timer, gates, shown, wires>>

Seek(s, t) ==
    /\ Ready(s) /\ t # pos[s] /\ Len(events[s]) < MaxEvents
    /\ MoveTo(s, t)
    /\ Queue(s, Append(events[s], "timeupdate"))
    /\ UNCHANGED <<playing, timer, gates, shown, wires>>

EndPlayback(s) ==
    /\ playing[s] /\ pos[s] = Duration /\ Len(events[s]) < MaxEvents
    /\ SetPlaying(s, FALSE)
    /\ Queue(s, Append(events[s], "ended"))
    /\ UNCHANGED <<pos, reached, timer, gates, shown, wires>>

Heartbeat(s) ==
    /\ timer[s] /\ playing[s]
    /\ Report(s, pos[s], TRUE)
    /\ UNCHANGED <<playerVars, manifest, submit>>

(* wireEvents *)
OnPlay(s) ==
    /\ Handles(s, "play")
    /\ Report(s, pos[s], TRUE)
    /\ timer' = [timer EXCEPT ![s] = TRUE]
    /\ IF Held(s) THEN PauseOnto(s, Tail(events[s]))
       ELSE Queue(s, Tail(events[s])) /\ UNCHANGED <<pos, playing, reached>>
    /\ UNCHANGED <<gates, shown, manifest, submit>>

OnPause(s) ==
    /\ Handles(s, "pause")
    /\ timer' = [timer EXCEPT ![s] = FALSE]
    /\ Queue(s, Tail(events[s]))
    /\ UNCHANGED <<pos, playing, reached, gates, shown, wires>>

TimedCTAs(s) == {c \in manifest[s].ctas \ EndCTAs : pos[s] >= CTAAt[c]}

OnTimeupdate(s) ==
    /\ Handles(s, "timeupdate")
    /\ IF Due(s) /\ ~gateShown[s]
       THEN /\ PauseOnto(s, Tail(events[s]))
            /\ gateShown' = [gateShown EXCEPT ![s] = TRUE]
       ELSE Queue(s, Tail(events[s])) /\ UNCHANGED <<pos, playing, reached, gateShown>>
    /\ shown' = [shown EXCEPT ![s] = @ \cup TimedCTAs(s)]
    /\ UNCHANGED <<timer, gateResolved, wires>>

OnEnded(s) ==
    /\ Handles(s, "ended")
    /\ timer' = [timer EXCEPT ![s] = FALSE]
    /\ Report(s, Duration, TRUE)
    /\ shown' = [shown EXCEPT ![s] = @ \cup (manifest[s].ctas \cap EndCTAs)]
    /\ Queue(s, Tail(events[s]))
    /\ UNCHANGED <<pos, playing, reached, gates, manifest, submit>>

(* showLeadGate: the form can be sent while another answer is awaited. *)
SubmitLead(k) ==
    /\ gateShown[SessionOf[k]] /\ ~gateResolved[SessionOf[k]]
    /\ submit[k] = "idle"
    /\ SubmitGoes(k, "sent")
    /\ UNCHANGED <<playerVars, manifest, reported>>

(* A good answer removes the gate and plays, which the browser may refuse. *)
TakeAnswer(k) ==
    LET s == SessionOf[k]
    IN  /\ submit[k] = "stored"
        /\ SubmitGoes(k, "done")
        /\ gateResolved' = [gateResolved EXCEPT ![s] = TRUE]
        /\ \/ PlayOnto(s, events[s])
           \/ UNCHANGED element
        /\ UNCHANGED <<timer, gateShown, shown, manifest, reported>>

(* An error, or no answer at all: the form says so and can be sent again. *)
TakeRefusal(k) ==
    /\ submit[k] \in {"stored", "refused"}
    /\ SubmitGoes(k, "idle")
    /\ UNCHANGED <<playerVars, manifest, reported>>

Listen(s) == OnPlay(s) \/ OnPause(s) \/ OnTimeupdate(s) \/ OnEnded(s)

Watch(s) ==
    \/ FetchManifest(s) \/ Render(s)
    \/ PressPlay(s) \/ PressPause(s) \/ Advance(s) \/ EndPlayback(s)
    \/ \E t \in 0..Duration : Seek(s, t)
    \/ Heartbeat(s)
    \/ Listen(s)

FillForm(k) == SubmitLead(k) \/ TakeAnswer(k) \/ TakeRefusal(k)

View == (\E s \in Sessions : Watch(s)) \/ (\E k \in Submits : FillForm(k))
=============================================================================
