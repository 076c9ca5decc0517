---------------------------- MODULE ViewingProofs ----------------------------
(***************************************************************************)
(* Theorems about Viewing, for any number of viewers, CTAs and forms, any  *)
(* video length, any gates and any number of changes and queued events.    *)
(*                                                                         *)
(* The properties of the player hold once its listeners have caught up, so *)
(* what makes them inductive says what the queued events will still do.    *)
(***************************************************************************)
EXTENDS Viewing, TLAPS

-----------------------------------------------------------------------------
(* Queues of events *)

Queued(q, e) == \E i \in 1..Len(q) : q[i] = e

Turns == {"play", "pause", "ended"}

(* e is the last event of q that starts or stops the heartbeat.            *)
LastTurn(q, e) ==
    \E i \in 1..Len(q) : q[i] = e /\ \A j \in (i + 1)..Len(q) : q[j] = "timeupdate"

NoTurn(q) == \A i \in 1..Len(q) : q[i] = "timeupdate"

(* What an event added at the end changes. *)
LEMMA AppendEvent ==
    ASSUME NEW q \in Seq(Events), NEW x \in Events
    PROVE  /\ Append(q, x) \in Seq(Events) /\ Append(q, x) # <<>>
           /\ \A e \in Events : Queued(Append(q, x), e) <=> Queued(q, e) \/ x = e
           /\ NoTurn(Append(q, x)) <=> NoTurn(q) /\ x = "timeupdate"
           /\ \A e \in Turns : LastTurn(Append(q, x), e) <=>
                  (IF x = "timeupdate" THEN LastTurn(q, e) ELSE x = e)
<1> DEFINE r == Append(q, x)
<1>1. /\ r \in Seq(Events) /\ r # <<>> /\ Len(q) \in Nat /\ Len(r) = Len(q) + 1
      /\ \A i \in 1..Len(q) : r[i] = q[i]
      /\ r[Len(r)] = x
  <2>1. r \in Seq(Events) /\ Len(r) = Len(q) + 1 /\ Len(q) \in Nat
      OBVIOUS
  <2>2. r[Len(q) + 1] = x
      OBVIOUS
  <2>3. \A i \in 1..Len(q) : r[i] = q[i]
      OBVIOUS
  <2>4. r # <<>>
      BY <2>1
  <2>5. QED
      BY <2>1, <2>2, <2>3, <2>4
<1> HIDE DEF r
<1>2. \A e \in Events : Queued(r, e) <=> Queued(q, e) \/ x = e
    BY <1>1 DEF Queued
<1>3. NoTurn(r) <=> NoTurn(q) /\ x = "timeupdate"
    BY <1>1 DEF NoTurn
<1>4. \A e \in Turns : LastTurn(r, e) <=> (IF x = "timeupdate" THEN LastTurn(q, e) ELSE x = e)
  <2> SUFFICES ASSUME NEW e \in Turns
               PROVE  LastTurn(r, e) <=> (IF x = "timeupdate" THEN LastTurn(q, e) ELSE x = e)
      OBVIOUS
  <2>1. CASE x # "timeupdate"
    <3>1. LastTurn(r, e) => x = e
        BY <1>1, <2>1 DEF LastTurn
    <3>2. x = e => LastTurn(r, e)
      <4>1. Len(r) \in 1..Len(r) /\ (Len(r) + 1)..Len(r) = {}
          BY <1>1
      <4>2. QED
          BY <1>1, <4>1 DEF LastTurn
    <3>3. QED
        BY <2>1, <3>1, <3>2
  <2>2. CASE x = "timeupdate"
    <3>1. ASSUME LastTurn(q, e)
          PROVE  LastTurn(r, e)
        BY <1>1, <2>2, <3>1 DEF LastTurn
    <3>2. ASSUME LastTurn(r, e)
          PROVE  LastTurn(q, e)
        BY <1>1, <2>2, <3>2 DEF LastTurn, Turns
    <3>3. QED
        BY <2>2, <3>1, <3>2
  <2>3. QED
      BY <2>1, <2>2
<1>5. QED
    BY <1>1, <1>2, <1>3, <1>4 DEF r

(* What taking the first event changes. *)
LEMMA TakeEvent ==
    ASSUME NEW q \in Seq(Events), q # <<>>
    PROVE  /\ Tail(q) \in Seq(Events) /\ Head(q) \in Events
           /\ \A e \in Events : Queued(q, e) <=> Head(q) = e \/ Queued(Tail(q), e)
           /\ NoTurn(q) <=> Head(q) = "timeupdate" /\ NoTurn(Tail(q))
           /\ \A e \in Turns : LastTurn(q, e) <=>
                  LastTurn(Tail(q), e) \/ (Head(q) = e /\ NoTurn(Tail(q)))
<1> DEFINE r == Tail(q)
<1>1. /\ r \in Seq(Events) /\ Head(q) = q[1] /\ q[1] \in Events
      /\ Len(r) \in Nat /\ Len(q) = Len(r) + 1
      /\ \A i \in 1..Len(r) : r[i] = q[i + 1]
    OBVIOUS
<1> HIDE DEF r
<1>2. \A i \in 2..Len(q) : i - 1 \in 1..Len(r) /\ q[i] = r[i - 1]
    BY <1>1
<1>3. \A e \in Events : Queued(q, e) <=> q[1] = e \/ Queued(r, e)
  <2> SUFFICES ASSUME NEW e \in Events
               PROVE  Queued(q, e) <=> q[1] = e \/ Queued(r, e)
      OBVIOUS
  <2>1. Queued(q, e) => q[1] = e \/ Queued(r, e)
      BY <1>1, <1>2 DEF Queued
  <2>2. Queued(r, e) => Queued(q, e)
      BY <1>1 DEF Queued
  <2>3. q[1] = e => Queued(q, e)
      BY <1>1 DEF Queued
  <2>4. QED
      BY <2>1, <2>2, <2>3
<1>4. NoTurn(q) <=> q[1] = "timeupdate" /\ NoTurn(r)
  <2>1. NoTurn(q) => q[1] = "timeupdate" /\ NoTurn(r)
      BY <1>1 DEF NoTurn
  <2>2. ASSUME q[1] = "timeupdate", NoTurn(r), NEW i \in 1..Len(q)
        PROVE  q[i] = "timeupdate"
    <3>1. CASE i = 1
        BY <2>2, <3>1
    <3>2. CASE i # 1
      <4>1. i - 1 \in 1..Len(r) /\ q[i] = r[i - 1]
          BY <1>1, <1>2, <3>2
      <4>2. QED
          BY <2>2, <4>1 DEF NoTurn
    <3>3. QED
        BY <3>1, <3>2
  <2>3. q[1] = "timeupdate" /\ NoTurn(r) => NoTurn(q)
      BY <2>2 DEF NoTurn
  <2>4. QED
      BY <2>1, <2>3
<1>5. \A e \in Turns : LastTurn(q, e) <=> LastTurn(r, e) \/ (q[1] = e /\ NoTurn(r))
  <2> SUFFICES ASSUME NEW e \in Turns
               PROVE  LastTurn(q, e) <=> LastTurn(r, e) \/ (q[1] = e /\ NoTurn(r))
      OBVIOUS
  <2>1. ASSUME LastTurn(q, e)
        PROVE  LastTurn(r, e) \/ (q[1] = e /\ NoTurn(r))
    <3>1. PICK i \in 1..Len(q) : q[i] = e /\ \A j \in (i + 1)..Len(q) : q[j] = "timeupdate"
        BY <2>1 DEF LastTurn
    <3>2. CASE i = 1
        BY <1>1, <3>1, <3>2 DEF NoTurn
    <3>3. CASE i # 1
      <4>1. i - 1 \in 1..Len(r) /\ r[i - 1] = e
          BY <1>1, <1>2, <3>1, <3>3
      <4>2. \A j \in ((i - 1) + 1)..Len(r) : r[j] = "timeupdate"
          BY <1>1, <3>1, <3>3
      <4>3. QED
          BY <4>1, <4>2 DEF LastTurn
    <3>4. QED
        BY <3>2, <3>3
  <2>2. ASSUME LastTurn(r, e)
        PROVE  LastTurn(q, e)
    <3>1. PICK i \in 1..Len(r) : r[i] = e /\ \A j \in (i + 1)..Len(r) : r[j] = "timeupdate"
        BY <2>2 DEF LastTurn
    <3>2. i + 1 \in 1..Len(q) /\ q[i + 1] = e
        BY <1>1, <3>1
    <3>3. \A j \in ((i + 1) + 1)..Len(q) : q[j] = "timeupdate"
        BY <1>1, <1>2, <3>1
    <3>4. QED
        BY <3>2, <3>3 DEF LastTurn
  <2>3. ASSUME q[1] = e, NoTurn(r)
        PROVE  LastTurn(q, e)
    <3>1. 1 \in 1..Len(q) /\ \A j \in (1 + 1)..Len(q) : q[j] = "timeupdate"
        BY <1>1, <1>2, <2>3 DEF NoTurn
    <3>2. QED
        BY <2>3, <3>1 DEF LastTurn
  <2>4. QED
      BY <2>1, <2>2, <2>3
<1>6. QED
    BY <1>1, <1>3, <1>4, <1>5 DEF r

LEMMA NoEvents ==
    /\ <<>> \in Seq(Events) /\ NoTurn(<<>>)
    /\ \A e \in Events : ~Queued(<<>>, e)
    /\ \A e \in Turns : ~LastTurn(<<>>, e)
BY DEF NoTurn, Queued, LastTurn

-----------------------------------------------------------------------------
(* Types *)

ManifestType == [place : ManifestPlaces, ctas : SUBSET CTAs, gate : Gates \cup {DefaultGate}]

LEMMA ManifestTypes ==
    ASSUME WireTypeOK, NEW s \in Sessions, NEW place \in ManifestPlaces, ManifestGoes(s, place)
    PROVE  manifest' \in [Sessions -> ManifestType]
BY DEF WireTypeOK, ManifestGoes, ManifestType

LEMMA ReportTypes ==
    ASSUME WireTypeOK, NEW s \in Sessions, NEW at \in 0..Duration, NEW played \in BOOLEAN,
           Report(s, at, played)
    PROVE  reported' \in [Sessions -> SUBSET Reports]
<1>1. [at |-> at, played |-> played] \in Reports
    BY DEF Reports
<1>2. QED
    BY <1>1 DEF WireTypeOK, Report

(* The steps of the server leave the player alone, and the other way round. *)
LEMMA ServerTypeStep ==
    ASSUME TypeOK, (ServeViewers \/ Operate \/ \E s \in Sessions, c \in CTAs : ClickCTA(s, c)),
           UNCHANGED playerVars
    PROVE  TypeOK'
<1>1. PlayerTypeOK'
    BY DEF TypeOK, PlayerTypeOK, playerVars, element, gates
<1>2. ASSUME NEW s \in Sessions, ServeManifest(s)
      PROVE  WireTypeOK' /\ ServerTypeOK'
  <2> USE DEF ManifestPlaces, ManifestGoes
  <2>1. CASE ListCTAs(s)
      BY <2>1 DEF ListCTAs, TypeOK, WireTypeOK, ServerTypeOK, serverVars, settings, records,
         hooks
  <2>2. CASE GetLeadGate(s)
    <3>1. ServerTypeOK' /\ reported' = reported /\ submit' = submit
        BY <2>2 DEF GetLeadGate, TypeOK, ServerTypeOK, serverVars, settings, records, hooks
    <3>2. PICK g \in Gates \cup {DefaultGate} :
              manifest' = [manifest EXCEPT ![s].place = "answered", ![s].gate = g]
        BY <2>2 DEF GetLeadGate, TypeOK, ServerTypeOK
    <3>3. manifest' \in [Sessions -> ManifestType]
        BY <3>2 DEF TypeOK, WireTypeOK, ManifestType
    <3>4. QED
        BY <3>1, <3>3 DEF TypeOK, WireTypeOK, ManifestType
  <2>3. CASE LoadVideo(s) \/ FailManifest(s)
      BY <2>3 DEF LoadVideo, FailManifest, TypeOK, WireTypeOK, ServerTypeOK, serverVars,
         settings, records, hooks
  <2>4. QED
      BY <1>2, <2>1, <2>2, <2>3 DEF ServeManifest
<1>3. ASSUME NEW s \in Sessions, RecordProgress(s)
      PROVE  WireTypeOK' /\ ServerTypeOK'
  <2>1. PICK report \in reported[s] : watch' = [watch EXCEPT ![s] = Upserted(@, report)]
      BY <1>3 DEF RecordProgress
  <2>2. report \in Reports /\ watch[s] \in Reports \cup {NoRow}
      BY DEF TypeOK, WireTypeOK, ServerTypeOK
  <2>3. Upserted(watch[s], report) \in Reports
      BY <2>2 DEF Upserted, Reports
  <2>4. QED
      BY <1>3, <2>1, <2>3 DEF RecordProgress, TypeOK, WireTypeOK, ServerTypeOK, settings,
         hooks, wires
<1>4. ASSUME NEW k \in Submits, ServeLead(k)
      PROVE  WireTypeOK' /\ ServerTypeOK'
    BY <1>4 DEF ServeLead, LoadForLead, StoreLead, RefuseLead, SubmitGoes, SubmitPlaces,
       Call, TypeOK, WireTypeOK, ServerTypeOK, settings, records
<1>5. ASSUME NEW x \in calls, SendLead(x)
      PROVE  WireTypeOK' /\ ServerTypeOK'
    BY <1>5 DEF SendLead, TypeOK, WireTypeOK, ServerTypeOK, settings, records, wires
<1>6. ASSUME NEW s \in Sessions, NEW c \in CTAs, ClickCTA(s, c)
      PROVE  WireTypeOK' /\ ServerTypeOK'
    BY <1>6 DEF ClickCTA, RecordCTAClick, TypeOK, WireTypeOK, ServerTypeOK, settings, hooks,
       wires
<1>7. ASSUME Operate
      PROVE  WireTypeOK' /\ ServerTypeOK'
  <2> USE DEF TypeOK, ServerTypeOK, records, hooks
  <2>1. WireTypeOK'
      BY <1>7 DEF Operate, SetLeadGate, SetWebhook, CreateCTA, DeleteCTA, DeleteVideo,
         WireTypeOK, wires
  <2>2. gate' \in Gates \cup {NoGate} /\ hook' \in Hooks \cup {NoHook} /\ live' \in BOOLEAN
      BY <1>7 DEF Operate, SetLeadGate, SetWebhook, CreateCTA, DeleteCTA, DeleteVideo, Edit
  <2>3. edits' \in 0..MaxEdits
      BY <1>7, HooksAssumption DEF Operate, SetLeadGate, SetWebhook, CreateCTA, DeleteCTA,
         DeleteVideo, Edit
  <2>4. ctas' \subseteq CTAs /\ unused' \subseteq CTAs /\ leads' \subseteq Submits
      BY <1>7 DEF Operate, SetLeadGate, SetWebhook, CreateCTA, DeleteCTA, DeleteVideo
  <2>5. clicks' \subseteq Sessions \X CTAs
      BY <1>7 DEF Operate, SetLeadGate, SetWebhook, CreateCTA, DeleteCTA, DeleteVideo
  <2>6. watch' \in [Sessions -> Reports \cup {NoRow}]
      BY <1>7 DEF Operate, SetLeadGate, SetWebhook, CreateCTA, DeleteCTA, DeleteVideo
  <2>7. UNCHANGED hooks
      BY <1>7 DEF Operate, SetLeadGate, SetWebhook, CreateCTA, DeleteCTA, DeleteVideo
  <2>8. QED
      BY <2>1, <2>2, <2>3, <2>4, <2>5, <2>6, <2>7
<1>8. QED
    BY <1>1, <1>2, <1>3, <1>4, <1>5, <1>6, <1>7 DEF TypeOK, ServeViewers

(* The queue of events after a step. *)
LEMMA QueueTypes ==
    ASSUME TypeOK, NEW s \in Sessions
    PROVE  /\ events[s] \in Seq(Events) /\ pos[s] \in 0..Duration
           /\ playing[s] \in BOOLEAN /\ reached[s] \in 0..Duration
           /\ \A e \in Events : Append(events[s], e) \in Seq(Events)
           /\ events[s] # <<>> => /\ Tail(events[s]) \in Seq(Events)
                                  /\ \A e \in Events :
                                        Append(Tail(events[s]), e) \in Seq(Events)
<1>1. events[s] \in Seq(Events)
    BY DEF TypeOK, PlayerTypeOK
<1>2. \A q \in Seq(Events), e \in Events : Append(q, e) \in Seq(Events)
    BY AppendEvent
<1>3. events[s] # <<>> => Tail(events[s]) \in Seq(Events)
    BY <1>1, TakeEvent
<1>4. QED
    BY <1>1, <1>2, <1>3 DEF TypeOK, PlayerTypeOK

ElementTypes ==
    /\ pos \in [Sessions -> 0..Duration] /\ playing \in [Sessions -> BOOLEAN]
    /\ events \in [Sessions -> Seq(Events)] /\ reached \in [Sessions -> 0..Duration]

OtherTypes ==
    /\ timer \in [Sessions -> BOOLEAN]
    /\ gateShown \in [Sessions -> BOOLEAN] /\ gateResolved \in [Sessions -> BOOLEAN]
    /\ shown \in [Sessions -> SUBSET CTAs]

(* play() and pause() keep the types of the element. *)
LEMMA PlayPauseTypes ==
    ASSUME TypeOK, NEW s \in Sessions, NEW q \in Seq(Events),
           PlayOnto(s, q) \/ PauseOnto(s, q)
    PROVE  ElementTypes'
<1>1. Append(q, "play") \in Seq(Events) /\ Append(q, "pause") \in Seq(Events)
    BY AppendEvent DEF Events
<1>2. ElementTypes
    BY DEF TypeOK, PlayerTypeOK, ElementTypes
<1>3. CASE PlayOnto(s, q)
  <2>1. CASE playing[s]
      BY <1>2, <1>3, <2>1 DEF PlayOnto, Queue, ElementTypes
  <2>2. CASE ~playing[s]
    <3>1. PICK t \in 0..Duration : MoveTo(s, t)
        BY <1>2, <1>3, <2>2, DurationAssumption DEF PlayOnto, ElementTypes
    <3>2. QED
        BY <1>1, <1>2, <1>3, <2>2, <3>1 DEF PlayOnto, Queue, SetPlaying, MoveTo, ElementTypes
  <2>3. QED
      BY <2>1, <2>2
<1>4. CASE PauseOnto(s, q)
    BY <1>1, <1>2, <1>4 DEF PauseOnto, Queue, SetPlaying, ElementTypes
<1>5. QED
    BY <1>3, <1>4

LEMMA WatchTypeStep ==
    ASSUME TypeOK, NEW s \in Sessions, Watch(s)
    PROVE  WireTypeOK' /\ PlayerTypeOK'
<1> USE DurationAssumption
<1>1. WireTypeOK /\ ElementTypes /\ OtherTypes
    BY DEF TypeOK, PlayerTypeOK, ElementTypes, OtherTypes
<1>2. /\ events[s] \in Seq(Events) /\ pos[s] \in 0..Duration
      /\ playing[s] \in BOOLEAN /\ reached[s] \in 0..Duration
      /\ \A e \in Events : Append(events[s], e) \in Seq(Events)
      /\ events[s] # <<>> => Tail(events[s]) \in Seq(Events)
    BY QueueTypes
<1>3. "play" \in Events /\ "pause" \in Events /\ "timeupdate" \in Events /\ "ended" \in Events
    BY DEF Events
<1>4. CASE FetchManifest(s) \/ Render(s)
  <2>1. manifest' \in [Sessions -> ManifestType]
    <3>1. "asked" \in ManifestPlaces /\ "rendered" \in ManifestPlaces
        BY DEF ManifestPlaces
    <3>2. QED
        BY <1>1, <1>4, <3>1, ManifestTypes DEF FetchManifest, Render
  <2>2. reported' \in [Sessions -> SUBSET Reports]
    <3>1. CASE Report(s, 0, FALSE)
      <4>1. 0 \in 0..Duration /\ FALSE \in BOOLEAN
          OBVIOUS
      <4>2. QED
          BY <1>1, <3>1, <4>1, ReportTypes
    <3>2. QED
        BY <1>1, <1>4, <3>1 DEF FetchManifest, Render, WireTypeOK
  <2>3. ElementTypes' /\ OtherTypes'
      BY <1>1, <1>4 DEF FetchManifest, Render, ElementTypes, OtherTypes, playerVars, element,
         gates, Held
  <2>4. submit' = submit
      BY <1>4 DEF FetchManifest, Render
  <2>5. QED
      BY <1>1, <2>1, <2>2, <2>3, <2>4 DEF WireTypeOK, ManifestType, PlayerTypeOK,
         ElementTypes, OtherTypes
<1>5. CASE PressPlay(s) \/ PressPause(s)
  <2>1. ElementTypes'
      BY <1>2, <1>5, PlayPauseTypes DEF PressPlay, PressPause
  <2>2. OtherTypes' /\ WireTypeOK'
      BY <1>1, <1>5 DEF PressPlay, PressPause, OtherTypes, WireTypeOK, gates, wires
  <2>3. QED
      BY <2>1, <2>2 DEF PlayerTypeOK, ElementTypes, OtherTypes
<1>6. CASE Advance(s) \/ EndPlayback(s) \/ \E t \in 0..Duration : Seek(s, t)
  <2>1. ElementTypes'
    <3>1. CASE Advance(s)
        BY <1>1, <1>2, <1>3, <3>1 DEF Advance, MoveTo, Queue, ElementTypes
    <3>2. CASE EndPlayback(s)
        BY <1>1, <1>2, <1>3, <3>2 DEF EndPlayback, SetPlaying, Queue, ElementTypes
    <3>3. ASSUME NEW t \in 0..Duration, Seek(s, t)
          PROVE  ElementTypes'
        BY <1>1, <1>2, <1>3, <3>3 DEF Seek, MoveTo, Queue, ElementTypes
    <3>4. QED
        BY <1>6, <3>1, <3>2, <3>3
  <2>2. OtherTypes' /\ WireTypeOK'
      BY <1>1, <1>6 DEF Advance, EndPlayback, Seek, OtherTypes, WireTypeOK, gates, wires
  <2>3. QED
      BY <2>1, <2>2 DEF PlayerTypeOK, ElementTypes, OtherTypes
<1>7. CASE Heartbeat(s)
  <2>1. WireTypeOK'
      BY <1>1, <1>2, <1>7, ReportTypes DEF Heartbeat, WireTypeOK
  <2>2. ElementTypes' /\ OtherTypes'
      BY <1>1, <1>7 DEF Heartbeat, ElementTypes, OtherTypes, playerVars, element, gates
  <2>3. QED
      BY <2>1, <2>2 DEF PlayerTypeOK, ElementTypes, OtherTypes
<1>8. CASE Listen(s)
  <2>1. Tail(events[s]) \in Seq(Events)
      BY <1>2, <1>8 DEF Listen, OnPlay, OnPause, OnTimeupdate, OnEnded, Handles
  <2>2. WireTypeOK'
    <3>1. ASSUME NEW at \in 0..Duration, Report(s, at, TRUE)
          PROVE  reported' \in [Sessions -> SUBSET Reports]
        BY <1>1, <3>1, ReportTypes
    <3>2. UNCHANGED reported \/ Report(s, pos[s], TRUE) \/ Report(s, Duration, TRUE)
        BY <1>8 DEF Listen, OnPlay, OnPause, OnTimeupdate, OnEnded, wires
    <3>3. UNCHANGED <<manifest, submit>>
        BY <1>8 DEF Listen, OnPlay, OnPause, OnTimeupdate, OnEnded, wires
    <3>4. Duration \in 0..Duration
        OBVIOUS
    <3>5. reported' \in [Sessions -> SUBSET Reports]
        BY <1>1, <1>2, <3>1, <3>2, <3>4 DEF WireTypeOK
    <3>6. QED
        BY <1>1, <3>3, <3>5 DEF WireTypeOK
  <2>3. \/ PauseOnto(s, Tail(events[s]))
        \/ Queue(s, Tail(events[s])) /\ UNCHANGED <<pos, playing, reached>>
      BY <1>8 DEF Listen, OnPlay, OnPause, OnTimeupdate, OnEnded
  <2>4. ElementTypes'
      BY <1>1, <2>1, <2>3, PlayPauseTypes DEF Queue, ElementTypes
  <2>5. OtherTypes'
    <3>1. TimedCTAs(s) \subseteq CTAs
        BY <1>1 DEF TimedCTAs, WireTypeOK
    <3>2. QED
        BY <1>1, <1>8, <3>1, CTAsAssumption DEF Listen, OnPlay, OnPause, OnTimeupdate,
           OnEnded, OtherTypes, gates
  <2>6. QED
      BY <2>2, <2>4, <2>5 DEF PlayerTypeOK, ElementTypes, OtherTypes
<1>9. QED
    BY <1>4, <1>5, <1>6, <1>7, <1>8 DEF Watch

LEMMA PlayerTypeStep ==
    ASSUME TypeOK, View, UNCHANGED serverVars
    PROVE  TypeOK'
<1>1. ServerTypeOK'
    BY DEF TypeOK, ServerTypeOK, serverVars, settings, records, hooks
<1>2. ASSUME NEW k \in Submits, FillForm(k)
      PROVE  WireTypeOK' /\ PlayerTypeOK'
  <2>1. ElementTypes'
    <3>1. CASE UNCHANGED element
        BY <3>1 DEF TypeOK, PlayerTypeOK, ElementTypes, element
    <3>2. CASE PlayOnto(SessionOf[k], events[SessionOf[k]])
      <4>1. SessionOf[k] \in Sessions
          BY SubmitsAssumption
      <4>2. QED
          BY <3>2, <4>1, PlayPauseTypes, QueueTypes
    <3>3. QED
        BY <1>2, <3>1, <3>2 DEF FillForm, SubmitLead, TakeAnswer, TakeRefusal, playerVars
  <2>2. OtherTypes'
      BY <1>2 DEF FillForm, SubmitLead, TakeAnswer, TakeRefusal, playerVars, gates, TypeOK,
         PlayerTypeOK, OtherTypes
  <2>3. WireTypeOK'
      BY <1>2 DEF FillForm, SubmitLead, TakeAnswer, TakeRefusal, SubmitGoes, SubmitPlaces,
         TypeOK, WireTypeOK
  <2>4. QED
      BY <2>1, <2>2, <2>3 DEF PlayerTypeOK, ElementTypes, OtherTypes
<1>3. QED
    BY <1>1, <1>2, WatchTypeStep DEF TypeOK, View

LEMMA TypeStep ==
    ASSUME TypeOK, [Next]_vars
    PROVE  TypeOK'
<1>1. CASE UNCHANGED vars
    BY <1>1 DEF vars, wires, serverVars, settings, records, hooks, playerVars, element,
       gates, TypeOK, WireTypeOK, ServerTypeOK, PlayerTypeOK
<1>2. QED
    BY <1>1, ServerTypeStep, PlayerTypeStep DEF Next

LEMMA TypeStart == Init => TypeOK
BY DurationAssumption, HooksAssumption, NoEvents DEF Init, WireInit, ServerInit, PlayerInit,
   TypeOK, WireTypeOK, ServerTypeOK, PlayerTypeOK, ManifestPlaces, SubmitPlaces, DefaultGate

-----------------------------------------------------------------------------
(* The invariants *)

CTATime(c) == IF c \in EndCTAs THEN Duration ELSE CTAAt[c]

(* Before its manifest is rendered nothing happens in a player, and forms  *)
(* are sent from a gate that is shown.                                     *)
Opening(s) ==
    /\ ~Ready(s) => pos[s] = 0 /\ ~playing[s] /\ events[s] = <<>> /\ ~gateShown[s]
    /\ gateResolved[s] => gateShown[s]
    /\ \A k \in Submits : SessionOf[k] = s /\ submit[k] # "idle" => gateShown[s]

(* Nothing that is reported, queued or recorded is ahead of the viewer.    *)
NoneAhead(s) ==
    /\ pos[s] <= reached[s]
    /\ \A report \in reported[s] : report.at <= reached[s]
    /\ Queued(events[s], "ended") => reached[s] = Duration
    /\ watch[s] # NoRow => watch[s].at <= reached[s]

ShownInTime(s) == \A c \in shown[s] : reached[s] >= CTATime(c)

(* The last turn in the queue is the one the video took.                   *)
HeartbeatWillFollow(s) ==
    /\ \A e \in Turns : LastTurn(events[s], e) => (playing[s] <=> e = "play")
    /\ NoTurn(events[s]) => (timer[s] <=> playing[s])

(* A video that plays where it may not has a play to come, which pauses it. *)
HoldWillCome(s) == Held(s) /\ playing[s] => Queued(events[s], "play")

(* The gate of s has a time, and the video has come to it. *)
AtGate(s) ==
    /\ manifest[s].gate.enabled /\ manifest[s].gate.position = "timestamp"
    /\ manifest[s].gate.at <= pos[s]

(* A gate whose time has come is shown, or a timeupdate to come shows it.  *)
GateWillCome(s) ==
    Ready(s) /\ AtGate(s) /\ pos[s] # 0 => gateShown[s] \/ Queued(events[s], "timeupdate")

PlayerInv(s) == /\ Opening(s) /\ NoneAhead(s) /\ ShownInTime(s)
                /\ HeartbeatWillFollow(s) /\ HoldWillCome(s) /\ GateWillCome(s)

(* An answer that says stored is about a lead on record.                   *)
StoredOnRecord == live => \A k \in Submits : submit[k] = "stored" => k \in leads

LeadInv == StoredOnRecord /\ GatePassedByLead /\ HookHasLead
ViewingInv == /\ TypeOK /\ LeadInv /\ NoOrphans /\ ClicksGenuine
              /\ \A s \in Sessions : PlayerInv(s)

-----------------------------------------------------------------------------
(* Steps of the server *)

ServerStep ==
    /\ ServeViewers \/ Operate \/ \E s \in Sessions, c \in CTAs : ClickCTA(s, c)
    /\ UNCHANGED playerVars

(* A rendered manifest stays, a form that was not sent has no answer.      *)
LEMMA ServerWires ==
    ASSUME TypeOK, ServerStep
    PROVE  /\ \A s \in Sessions : /\ Ready(s)' <=> Ready(s)
                                  /\ Ready(s) => manifest'[s] = manifest[s]
           /\ UNCHANGED reported
           /\ \A k \in Submits : submit[k] = "idle" => submit'[k] = "idle"
<1>1. CASE UNCHANGED wires
    BY <1>1 DEF wires, Ready
<1>2. ASSUME NEW s \in Sessions, ServeManifest(s)
      PROVE  /\ \A t \in Sessions : /\ Ready(t)' <=> Ready(t)
                                    /\ Ready(t) => manifest'[t] = manifest[t]
             /\ UNCHANGED <<reported, submit>>
  <2>1. manifest[s].place # "rendered" /\ manifest'[s].place # "rendered"
        /\ \A t \in Sessions \ {s} : manifest'[t] = manifest[t]
    <3> USE <1>2 DEF ServeManifest, ManifestGoes, TypeOK, WireTypeOK
    <3>1. CASE LoadVideo(s)
        BY <3>1 DEF LoadVideo
    <3>2. CASE ListCTAs(s)
        BY <3>2 DEF ListCTAs
    <3>3. CASE GetLeadGate(s)
        BY <3>3 DEF GetLeadGate
    <3>4. CASE FailManifest(s)
        BY <3>4 DEF FailManifest
    <3>5. QED
        BY <3>1, <3>2, <3>3, <3>4
  <2>2. UNCHANGED <<reported, submit>>
      BY <1>2 DEF ServeManifest, LoadVideo, ListCTAs, GetLeadGate, FailManifest
  <2>3. QED
      BY <2>1, <2>2 DEF Ready
<1>3. ASSUME NEW k \in Submits, ServeLead(k)
      PROVE  /\ UNCHANGED <<manifest, reported>>
             /\ \A j \in Submits : submit[j] = "idle" => submit'[j] = "idle"
    BY <1>3 DEF ServeLead, LoadForLead, StoreLead, RefuseLead, SubmitGoes, TypeOK, WireTypeOK
<1>4. QED
  <2>1. CASE Operate
      BY <1>1, <2>1 DEF Operate, SetLeadGate, SetWebhook, CreateCTA, DeleteCTA, DeleteVideo
  <2>2. CASE \E s \in Sessions, c \in CTAs : ClickCTA(s, c)
      BY <1>1, <2>2 DEF ClickCTA, RecordCTAClick
  <2>3. CASE \/ \E s \in Sessions : RecordProgress(s)
             \/ \E x \in calls : SendLead(x)
      BY <1>1, <2>3 DEF RecordProgress, SendLead
  <2>4. QED
      BY <1>2, <1>3, <2>1, <2>2, <2>3 DEF ServerStep, ServeViewers, Ready

LEMMA ServerKeepsPlayerInv ==
    ASSUME TypeOK, ServerStep, NEW s \in Sessions, PlayerInv(s)
    PROVE  PlayerInv(s)'
<1> USE DEF PlayerInv
<1>1. /\ UNCHANGED <<pos, playing, events, reached, timer, gateShown, gateResolved>>
      /\ UNCHANGED <<shown, reported>>
      /\ Ready(s)' <=> Ready(s)
      /\ Ready(s) => manifest'[s] = manifest[s]
      /\ \A k \in Submits : submit[k] = "idle" => submit'[k] = "idle"
    BY ServerWires DEF ServerStep, playerVars, element, gates
<1>2. Opening(s)'
    BY <1>1 DEF Opening
<1>3. ShownInTime(s)' /\ HeartbeatWillFollow(s)'
    BY <1>1 DEF ShownInTime, HeartbeatWillFollow
<1>4. HoldWillCome(s)'
    BY <1>1 DEF HoldWillCome, Held, Opening
<1>5. GateWillCome(s)'
    BY <1>1 DEF GateWillCome, AtGate
<1>6. NoneAhead(s)'
  <2>1. CASE watch'[s] = watch[s] \/ watch'[s] = NoRow
      BY <1>1, <2>1 DEF NoneAhead
  <2>2. ASSUME NEW report \in reported[s], watch'[s] = Upserted(watch[s], report)
        PROVE  NoneAhead(s)'
      BY <1>1, <2>2 DEF NoneAhead, Upserted
  <2>3. ASSUME NEW t \in Sessions, RecordProgress(t)
        PROVE  NoneAhead(s)'
      BY <2>1, <2>2, <2>3 DEF RecordProgress, TypeOK, ServerTypeOK
  <2>4. CASE \E t \in Sessions : ServeManifest(t)
      BY <2>1, <2>4 DEF ServeManifest, LoadVideo, ListCTAs, GetLeadGate, FailManifest,
         serverVars, records
  <2>5. CASE Operate
      BY <2>1, <2>5 DEF Operate, SetLeadGate, SetWebhook, CreateCTA, DeleteCTA, DeleteVideo,
         records
  <2>6. CASE \E k \in Submits : ServeLead(k)
      BY <2>1, <2>6 DEF ServeLead, LoadForLead, StoreLead, RefuseLead, records
  <2>7. CASE \/ \E x \in calls : SendLead(x)
             \/ \E t \in Sessions, c \in CTAs : ClickCTA(t, c)
      BY <2>1, <2>7 DEF SendLead, ClickCTA, RecordCTAClick, records
  <2>8. QED
      BY <2>3, <2>4, <2>5, <2>6, <2>7 DEF ServerStep, ServeViewers
<1>7. QED
    BY <1>2, <1>3, <1>4, <1>5, <1>6

-----------------------------------------------------------------------------
(* Steps of the player *)

LEMMA MoveAt ==
    ASSUME TypeOK, NEW s \in Sessions, NEW t \in 0..Duration, MoveTo(s, t)
    PROVE  /\ pos'[s] = t /\ t <= reached'[s] /\ reached[s] <= reached'[s]
           /\ reached'[s] \in 0..Duration
           /\ t <= reached[s] => reached'[s] = reached[s]
BY DurationAssumption DEF MoveTo, TypeOK, PlayerTypeOK

LEMMA PauseAt ==
    ASSUME TypeOK, NEW s \in Sessions, NEW q \in Seq(Events), PauseOnto(s, q)
    PROVE  /\ pos'[s] = pos[s] /\ reached'[s] = reached[s] /\ playing'[s] = FALSE
           /\ events'[s] = IF playing[s] THEN Append(q, "pause") ELSE q
BY DEF PauseOnto, Queue, SetPlaying, TypeOK, PlayerTypeOK

LEMMA PlayAt ==
    ASSUME TypeOK, NEW s \in Sessions, NEW q \in Seq(Events), PlayOnto(s, q), pos[s] <= reached[s]
    PROVE  /\ pos'[s] = pos[s] \/ pos'[s] = 0
           /\ pos'[s] <= reached[s] /\ reached'[s] = reached[s] /\ playing'[s] = TRUE
           /\ events'[s] = IF playing[s] THEN q ELSE Append(q, "play")
<1>1. CASE playing[s]
    BY <1>1 DEF PlayOnto, Queue, TypeOK, PlayerTypeOK
<1>2. CASE ~playing[s]
  <2>1. PICK t \in 0..Duration : MoveTo(s, t) /\ (t = pos[s] \/ t = 0)
      BY <1>2, DurationAssumption DEF PlayOnto, TypeOK, PlayerTypeOK
  <2>2. t <= reached[s]
      BY <2>1, DurationAssumption DEF TypeOK, PlayerTypeOK
  <2>3. playing'[s] = TRUE /\ events'[s] = Append(q, "play")
      BY <1>2 DEF PlayOnto, SetPlaying, Queue, TypeOK, PlayerTypeOK
  <2>4. QED
      BY <1>2, <2>1, <2>2, <2>3, MoveAt
<1>3. QED
    BY <1>1, <1>2

(* The steps that start, move or stop the video, and those of the gate's   *)
(* form that play it, on top of the queue q.                               *)
LEMMA PlayKeeps ==
    ASSUME TypeOK, NEW s \in Sessions, PlayerInv(s), Ready(s), PlayOnto(s, events[s]),
           UNCHANGED <<timer, shown, gateShown, reported, watch>>,
           Ready(s)', manifest'[s] = manifest[s],
           gateResolved[s] => gateResolved'[s], gateResolved'[s] => gateShown[s],
           \A k \in Submits : submit[k] = "idle" => submit'[k] = "idle"
    PROVE  PlayerInv(s)'
<1> USE DEF PlayerInv
<1>1. /\ events[s] \in Seq(Events) /\ "play" \in Events /\ playing[s] \in BOOLEAN
      /\ pos[s] \in 0..Duration /\ reached[s] \in 0..Duration
    BY DEF Events, TypeOK, PlayerTypeOK
<1>2. /\ pos'[s] = pos[s] \/ pos'[s] = 0
      /\ pos'[s] <= reached[s] /\ reached'[s] = reached[s] /\ playing'[s] = TRUE
      /\ events'[s] = IF playing[s] THEN events[s] ELSE Append(events[s], "play")
    BY <1>1, PlayAt DEF NoneAhead
<1>3. /\ \A e \in Events :
             Queued(events'[s], e) <=> Queued(events[s], e) \/ (~playing[s] /\ e = "play")
      /\ NoTurn(events'[s]) <=> NoTurn(events[s]) /\ playing[s]
      /\ \A e \in Turns : LastTurn(events'[s], e) <=>
             (IF playing[s] THEN LastTurn(events[s], e) ELSE e = "play")
    BY <1>1, <1>2, AppendEvent
<1>4. Opening(s)'
    BY DEF Opening
<1>5. NoneAhead(s)' /\ ShownInTime(s)'
    BY <1>2, <1>3 DEF NoneAhead, ShownInTime, Events
<1>6. HeartbeatWillFollow(s)'
    BY <1>2, <1>3 DEF HeartbeatWillFollow
<1>7. HoldWillCome(s)'
    BY <1>2, <1>3 DEF HoldWillCome, Held, Events
<1>8. GateWillCome(s)'
    BY <1>1, <1>2, <1>3 DEF GateWillCome, AtGate, Events
<1>9. QED
    BY <1>4, <1>5, <1>6, <1>7, <1>8

LEMMA PressPauseKeeps ==
    ASSUME TypeOK, NEW s \in Sessions, PlayerInv(s), PressPause(s), UNCHANGED serverVars
    PROVE  PlayerInv(s)'
<1> USE DEF PlayerInv
<1>1. /\ events[s] \in Seq(Events) /\ "pause" \in Events
      /\ UNCHANGED <<timer, gateShown, gateResolved, shown, manifest, reported, submit, watch>>
    BY DEF Events, TypeOK, PlayerTypeOK, PressPause, gates, wires, serverVars, records
<1>2. /\ pos'[s] = pos[s] /\ reached'[s] = reached[s] /\ playing[s] /\ playing'[s] = FALSE
      /\ events'[s] = Append(events[s], "pause")
    BY <1>1, PauseAt DEF PressPause
<1>3. /\ \A e \in Events : Queued(events'[s], e) <=> Queued(events[s], e) \/ e = "pause"
      /\ ~NoTurn(events'[s])
      /\ \A e \in Turns : LastTurn(events'[s], e) <=> e = "pause"
    BY <1>1, <1>2, AppendEvent
<1>4. Opening(s)'
    BY <1>1, <1>2 DEF Opening, Ready
<1>5. NoneAhead(s)' /\ ShownInTime(s)'
    BY <1>1, <1>2, <1>3 DEF NoneAhead, ShownInTime, Events
<1>6. HeartbeatWillFollow(s)' /\ HoldWillCome(s)'
    BY <1>2, <1>3 DEF HeartbeatWillFollow, HoldWillCome
<1>7. GateWillCome(s)'
    BY <1>1, <1>2, <1>3 DEF GateWillCome, AtGate, Ready, Events
<1>8. QED
    BY <1>4, <1>5, <1>6, <1>7

(* Playback and seeking: a timeupdate is queued. *)
LEMMA MoveKeeps ==
    ASSUME TypeOK, NEW s \in Sessions, PlayerInv(s), Ready(s),
           NEW t \in 0..Duration, MoveTo(s, t), Queue(s, Append(events[s], "timeupdate")),
           UNCHANGED <<playing, timer, gates, shown, wires>>, UNCHANGED serverVars
    PROVE  PlayerInv(s)'
<1> USE DEF PlayerInv
<1>1. /\ events[s] \in Seq(Events) /\ "timeupdate" \in Events
      /\ UNCHANGED <<gateShown, gateResolved, manifest, reported, submit, watch>>
      /\ pos[s] \in 0..Duration /\ reached[s] \in 0..Duration
    BY DEF Events, TypeOK, PlayerTypeOK, gates, wires, serverVars, records
<1>2. /\ pos'[s] = t /\ t <= reached'[s] /\ reached[s] <= reached'[s] /\ reached'[s] \in 0..Duration
      /\ events'[s] = Append(events[s], "timeupdate")
    BY <1>1, MoveAt DEF Queue, TypeOK, PlayerTypeOK
<1>3. /\ \A e \in Events : Queued(events'[s], e) <=> Queued(events[s], e) \/ e = "timeupdate"
      /\ NoTurn(events'[s]) <=> NoTurn(events[s])
      /\ \A e \in Turns : LastTurn(events'[s], e) <=> LastTurn(events[s], e)
    BY <1>1, <1>2, AppendEvent
<1>4. Opening(s)'
    BY <1>1 DEF Opening, Ready
<1>5. NoneAhead(s)'
  <2>1. \A report \in reported[s] : report.at \in 0..Duration
      BY DEF TypeOK, WireTypeOK, Reports
  <2>2. watch[s] # NoRow => watch[s].at \in 0..Duration
      BY DEF TypeOK, ServerTypeOK, Reports
  <2>3. Queued(events'[s], "ended") => reached'[s] = Duration
      BY <1>1, <1>2, <1>3, DurationAssumption DEF NoneAhead, Events
  <2>4. QED
      BY <1>1, <1>2, <2>1, <2>2, <2>3, DurationAssumption DEF NoneAhead
<1>6. ShownInTime(s)'
  <2>1. \A c \in shown[s] : CTATime(c) \in Nat
      BY CTAsAssumption, DurationAssumption DEF CTATime, TypeOK, PlayerTypeOK
  <2>2. QED
      BY <1>1, <1>2, <2>1, DurationAssumption DEF ShownInTime
<1>7. HeartbeatWillFollow(s)'
    BY <1>1, <1>3 DEF HeartbeatWillFollow
<1>8. HoldWillCome(s)'
    BY <1>1, <1>3 DEF HoldWillCome, Held, Events
<1>9. GateWillCome(s)'
    BY <1>1, <1>3 DEF GateWillCome
<1>10. QED
    BY <1>4, <1>5, <1>6, <1>7, <1>8, <1>9

LEMMA EndPlaybackKeeps ==
    ASSUME TypeOK, NEW s \in Sessions, PlayerInv(s), EndPlayback(s), UNCHANGED serverVars
    PROVE  PlayerInv(s)'
<1> USE DEF PlayerInv
<1>1. /\ events[s] \in Seq(Events) /\ "ended" \in Events
      /\ UNCHANGED <<pos, reached, timer, gateShown, gateResolved, shown>>
      /\ UNCHANGED <<manifest, reported, submit, watch>>
      /\ pos[s] = Duration /\ playing[s] /\ reached[s] \in 0..Duration
    BY DEF Events, TypeOK, PlayerTypeOK, EndPlayback, gates, wires, serverVars, records
<1>2. playing'[s] = FALSE /\ events'[s] = Append(events[s], "ended")
    BY DEF EndPlayback, SetPlaying, Queue, TypeOK, PlayerTypeOK
<1>3. /\ \A e \in Events : Queued(events'[s], e) <=> Queued(events[s], e) \/ e = "ended"
      /\ ~NoTurn(events'[s])
      /\ \A e \in Turns : LastTurn(events'[s], e) <=> e = "ended"
    BY <1>1, <1>2, AppendEvent
<1>4. Opening(s)'
    BY <1>1 DEF Opening, Ready
<1>5. NoneAhead(s)' /\ ShownInTime(s)'
    BY <1>1, DurationAssumption DEF NoneAhead, ShownInTime
<1>6. HeartbeatWillFollow(s)' /\ HoldWillCome(s)'
    BY <1>2, <1>3 DEF HeartbeatWillFollow, HoldWillCome
<1>7. GateWillCome(s)'
    BY <1>1, <1>3 DEF GateWillCome, AtGate, Ready, Events
<1>8. QED
    BY <1>4, <1>5, <1>6, <1>7

(* Rendering, and the heartbeat's report. *)
LEMMA ManifestKeeps ==
    ASSUME TypeOK, NEW s \in Sessions, PlayerInv(s), FetchManifest(s) \/ Render(s),
           UNCHANGED serverVars
    PROVE  PlayerInv(s)'
<1> USE DEF PlayerInv
<1>1. /\ UNCHANGED <<pos, playing, events, reached, timer, gateResolved, shown, submit, watch>>
      /\ ~Ready(s) /\ pos[s] = 0 /\ ~playing[s] /\ events[s] = <<>> /\ ~gateShown[s]
      /\ ~gateResolved[s] /\ \A k \in Submits : SessionOf[k] = s => submit[k] = "idle"
    BY DEF FetchManifest, Render, Ready, Opening, playerVars, element, gates, serverVars,
       records
<1>2. Opening(s)'
  <2>1. CASE FetchManifest(s)
    <3>1. ~gateShown'[s]
        BY <1>1, <2>1 DEF FetchManifest, playerVars, gates
    <3>2. QED
        BY <1>1, <3>1 DEF Opening
  <2>2. CASE Render(s)
    <3>1. Ready(s)'
        BY <2>2 DEF Render, ManifestGoes, Ready, TypeOK, WireTypeOK
    <3>2. QED
        BY <1>1, <3>1 DEF Opening
  <2>3. QED
      BY <2>1, <2>2
<1>3. NoneAhead(s)' /\ ShownInTime(s)'
  <2>1. \A report \in reported'[s] : report \in reported[s] \/ report.at = 0
      BY DEF FetchManifest, Render, Report, TypeOK, WireTypeOK
  <2>2. QED
      BY <1>1, <2>1 DEF NoneAhead, ShownInTime
<1>4. HeartbeatWillFollow(s)' /\ HoldWillCome(s)' /\ GateWillCome(s)'
    BY <1>1 DEF HeartbeatWillFollow, HoldWillCome, GateWillCome
<1>5. QED
    BY <1>2, <1>3, <1>4

LEMMA HeartbeatKeeps ==
    ASSUME TypeOK, NEW s \in Sessions, PlayerInv(s), Heartbeat(s), UNCHANGED serverVars
    PROVE  PlayerInv(s)'
<1> USE DEF PlayerInv
<1>1. /\ UNCHANGED <<pos, playing, events, reached, timer, gateShown, gateResolved>>
      /\ UNCHANGED <<shown, manifest, submit, watch>>
      /\ \A report \in reported'[s] : report \in reported[s] \/ report.at = pos[s]
    BY DEF Heartbeat, Report, playerVars, element, gates, serverVars, records, TypeOK,
       WireTypeOK
<1>2. NoneAhead(s)'
    BY <1>1 DEF NoneAhead
<1>3. Opening(s)' /\ ShownInTime(s)' /\ HeartbeatWillFollow(s)' /\ HoldWillCome(s)' /\ GateWillCome(s)'
    BY <1>1 DEF Opening, ShownInTime, HeartbeatWillFollow, HoldWillCome, Held, GateWillCome,
       AtGate, Ready
<1>4. QED
    BY <1>2, <1>3

(* A listener takes the first event and may pause the video.               *)
LEMMA ListenAt ==
    ASSUME TypeOK, NEW s \in Sessions, NEW h \in Events, Handles(s, h),
           \/ PauseOnto(s, Tail(events[s]))
           \/ Queue(s, Tail(events[s])) /\ UNCHANGED <<pos, playing, reached>>
    PROVE  /\ pos'[s] = pos[s] /\ reached'[s] = reached[s]
           /\ \A e \in Events \ {h, "pause"} : Queued(events'[s], e) <=> Queued(events[s], e)
           /\ \A e \in Events \ {"pause"} : Queued(events'[s], e) => Queued(events[s], e)
           /\ NoTurn(events'[s]) => NoTurn(Tail(events[s])) /\ playing'[s] = playing[s]
           /\ \A e \in Turns : LastTurn(events'[s], e) =>
                  \/ LastTurn(events[s], e) /\ playing'[s] = playing[s]
                  \/ e = "pause" /\ playing'[s] = FALSE
           /\ PauseOnto(s, Tail(events[s])) => playing'[s] = FALSE
<1> DEFINE r == Tail(events[s])
<1>1. /\ events[s] \in Seq(Events) /\ events[s] # <<>> /\ Head(events[s]) = h
      /\ r \in Seq(Events) /\ "pause" \in Events /\ playing[s] \in BOOLEAN
    BY TakeEvent DEF Events, TypeOK, PlayerTypeOK, Handles
<1> HIDE DEF r
<1>2. /\ \A e \in Events : Queued(events[s], e) <=> h = e \/ Queued(r, e)
      /\ \A e \in Turns : LastTurn(r, e) => LastTurn(events[s], e)
    BY <1>1, TakeEvent DEF r
<1>3. CASE playing[s] /\ PauseOnto(s, r)
  <2>1. /\ pos'[s] = pos[s] /\ reached'[s] = reached[s] /\ playing'[s] = FALSE
        /\ events'[s] = Append(r, "pause")
      BY <1>1, <1>3, PauseAt
  <2>2. /\ \A e \in Events : Queued(events'[s], e) <=> Queued(r, e) \/ e = "pause"
        /\ ~NoTurn(events'[s])
        /\ \A e \in Turns : LastTurn(events'[s], e) <=> e = "pause"
      BY <1>1, <2>1, AppendEvent
  <2>3. QED
      BY <1>2, <2>1, <2>2
<1>4. CASE /\ pos'[s] = pos[s] /\ reached'[s] = reached[s] /\ playing'[s] = playing[s]
           /\ events'[s] = r
           /\ PauseOnto(s, r) => playing'[s] = FALSE
    BY <1>2, <1>4 DEF r
<1>5. CASE ~playing[s] /\ PauseOnto(s, r)
  <2>1. /\ pos'[s] = pos[s] /\ reached'[s] = reached[s] /\ playing'[s] = FALSE
        /\ events'[s] = r
      BY <1>1, <1>5, PauseAt
  <2>2. QED
      BY <1>1, <1>4, <1>5, <2>1
<1>6. CASE Queue(s, r) /\ UNCHANGED <<pos, playing, reached>>
  <2>1. events'[s] = r
      BY <1>6 DEF Queue, TypeOK, PlayerTypeOK
  <2>2. QED
      BY <1>3, <1>4, <1>5, <1>6, <2>1
<1>7. QED
    BY <1>3, <1>5, <1>6 DEF r

LEMMA OnPlayKeeps ==
    ASSUME TypeOK, NEW s \in Sessions, PlayerInv(s), OnPlay(s), UNCHANGED serverVars
    PROVE  PlayerInv(s)'
<1> USE DEF PlayerInv
<1>1. /\ Handles(s, "play") /\ "play" \in Events
      /\ \/ PauseOnto(s, Tail(events[s]))
         \/ ~Held(s) /\ Queue(s, Tail(events[s])) /\ UNCHANGED <<pos, playing, reached>>
      /\ UNCHANGED <<gateShown, gateResolved, shown, manifest, submit, watch>>
    BY DEF OnPlay, Events, gates, serverVars, records
<1>2. /\ pos'[s] = pos[s] /\ reached'[s] = reached[s]
      /\ \A e \in Events \ {"play", "pause"} : Queued(events'[s], e) <=> Queued(events[s], e)
      /\ NoTurn(events'[s]) => NoTurn(Tail(events[s])) /\ playing'[s] = playing[s]
      /\ \A e \in Turns : LastTurn(events'[s], e) =>
                  \/ LastTurn(events[s], e) /\ playing'[s] = playing[s]
                  \/ e = "pause" /\ playing'[s] = FALSE
      /\ PauseOnto(s, Tail(events[s])) => playing'[s] = FALSE
    BY <1>1, ListenAt
<1>3. /\ timer'[s] = TRUE /\ events[s] # <<>>
      /\ \A report \in reported'[s] : report \in reported[s] \/ report.at = pos[s]
    BY DEF OnPlay, Report, Handles, TypeOK, PlayerTypeOK, WireTypeOK
<1>4. NoTurn(Tail(events[s])) => playing[s]
  <2>1. NoTurn(Tail(events[s])) => LastTurn(events[s], "play")
      BY <1>1, TakeEvent DEF Handles, Turns, TypeOK, PlayerTypeOK
  <2>2. QED
      BY <2>1 DEF HeartbeatWillFollow, Turns
<1>5. Opening(s)'
    BY <1>1, <1>3 DEF Opening, Ready
<1>6. NoneAhead(s)' /\ ShownInTime(s)'
    BY <1>1, <1>2, <1>3 DEF NoneAhead, ShownInTime, Events
<1>7. HeartbeatWillFollow(s)'
    BY <1>2, <1>3, <1>4 DEF HeartbeatWillFollow
<1>8. HoldWillCome(s)'
    BY <1>1, <1>2 DEF HoldWillCome, Held
<1>9. GateWillCome(s)'
    BY <1>1, <1>2 DEF GateWillCome, AtGate, Ready, Events
<1>10. QED
    BY <1>5, <1>6, <1>7, <1>8, <1>9

LEMMA OnPauseKeeps ==
    ASSUME TypeOK, NEW s \in Sessions, PlayerInv(s), OnPause(s), UNCHANGED serverVars
    PROVE  PlayerInv(s)'
<1> USE DEF PlayerInv
<1>1. /\ Handles(s, "pause") /\ "pause" \in Events /\ events[s] # <<>>
      /\ Queue(s, Tail(events[s])) /\ UNCHANGED <<pos, playing, reached>>
      /\ UNCHANGED <<gateShown, gateResolved, shown, manifest, reported, submit, watch>>
    BY DEF OnPause, Handles, Events, gates, wires, serverVars, records
<1>2. /\ \A e \in Events \ {"pause"} : Queued(events'[s], e) <=> Queued(events[s], e)
      /\ NoTurn(events'[s]) => LastTurn(events[s], "pause")
      /\ \A e \in Turns : LastTurn(events'[s], e) => LastTurn(events[s], e)
  <2>1. events'[s] = Tail(events[s]) /\ events[s] \in Seq(Events)
      BY <1>1 DEF Queue, TypeOK, PlayerTypeOK
  <2>2. QED
      BY <1>1, <2>1, TakeEvent DEF Handles, Turns
<1>3. timer'[s] = FALSE
    BY DEF OnPause, TypeOK, PlayerTypeOK
<1>4. Opening(s)'
    BY <1>1 DEF Opening, Ready
<1>5. NoneAhead(s)' /\ ShownInTime(s)'
    BY <1>1, <1>2 DEF NoneAhead, ShownInTime, Events
<1>6. HeartbeatWillFollow(s)'
    BY <1>1, <1>2, <1>3 DEF HeartbeatWillFollow, Turns
<1>7. HoldWillCome(s)'
    BY <1>1, <1>2 DEF HoldWillCome, Held, Events
<1>8. GateWillCome(s)'
    BY <1>1, <1>2 DEF GateWillCome, AtGate, Ready, Events
<1>9. QED
    BY <1>4, <1>5, <1>6, <1>7, <1>8

LEMMA OnTimeupdateKeeps ==
    ASSUME TypeOK, NEW s \in Sessions, PlayerInv(s), OnTimeupdate(s), UNCHANGED serverVars
    PROVE  PlayerInv(s)'
<1> USE DEF PlayerInv
<1>1. /\ Handles(s, "timeupdate") /\ "timeupdate" \in Events /\ events[s] # <<>>
      /\ \/ PauseOnto(s, Tail(events[s])) /\ gateShown'[s] = TRUE
         \/ /\ Queue(s, Tail(events[s])) /\ UNCHANGED <<pos, playing, reached, gateShown>>
            /\ Due(s) => gateShown[s]
      /\ UNCHANGED <<timer, gateResolved, manifest, reported, submit, watch>>
    BY DEF OnTimeupdate, Handles, Events, wires, serverVars, records, TypeOK, PlayerTypeOK
<1>2. /\ pos'[s] = pos[s] /\ reached'[s] = reached[s]
      /\ \A e \in Events \ {"timeupdate", "pause"} : Queued(events'[s], e) <=> Queued(events[s], e)
      /\ NoTurn(events'[s]) => NoTurn(Tail(events[s])) /\ playing'[s] = playing[s]
      /\ \A e \in Turns : LastTurn(events'[s], e) =>
                  \/ LastTurn(events[s], e) /\ playing'[s] = playing[s]
                  \/ e = "pause" /\ playing'[s] = FALSE
      /\ PauseOnto(s, Tail(events[s])) => playing'[s] = FALSE
    BY <1>1, ListenAt
<1>3. NoTurn(Tail(events[s])) => NoTurn(events[s])
    BY <1>1, TakeEvent DEF Handles, TypeOK, PlayerTypeOK
<1>4. Opening(s)'
    BY <1>1 DEF Opening, Ready
<1>5. NoneAhead(s)'
    BY <1>1, <1>2 DEF NoneAhead, Events
<1>6. ShownInTime(s)'
  <2>1. shown'[s] = shown[s] \cup TimedCTAs(s)
      BY DEF OnTimeupdate, TypeOK, PlayerTypeOK
  <2>2. ASSUME NEW c \in TimedCTAs(s)
        PROVE  reached[s] >= CTATime(c)
    <3>1. c \in CTAs /\ c \notin EndCTAs /\ pos[s] >= CTAAt[c]
        BY <2>2 DEF TimedCTAs, TypeOK, WireTypeOK
    <3>2. QED
        BY <3>1, CTAsAssumption, DurationAssumption DEF NoneAhead, CTATime, TypeOK,
           PlayerTypeOK
  <2>3. QED
      BY <1>2, <2>1, <2>2 DEF ShownInTime
<1>7. HeartbeatWillFollow(s)'
    BY <1>1, <1>2, <1>3 DEF HeartbeatWillFollow
<1>8. HoldWillCome(s)'
    BY <1>1, <1>2 DEF HoldWillCome, Held, Events
<1>9. GateWillCome(s)'
    BY <1>1, <1>2 DEF GateWillCome, AtGate, Ready, Due, Opening
<1>10. QED
    BY <1>4, <1>5, <1>6, <1>7, <1>8, <1>9

LEMMA OnEndedKeeps ==
    ASSUME TypeOK, NEW s \in Sessions, PlayerInv(s), OnEnded(s), UNCHANGED serverVars
    PROVE  PlayerInv(s)'
<1> USE DEF PlayerInv
<1>1. /\ Handles(s, "ended") /\ "ended" \in Events /\ events[s] # <<>>
      /\ Queue(s, Tail(events[s])) /\ UNCHANGED <<pos, playing, reached>>
      /\ UNCHANGED <<gateShown, gateResolved, manifest, submit, watch>>
    BY DEF OnEnded, Handles, Events, gates, serverVars, records
<1>2. /\ \A e \in Events \ {"ended"} : Queued(events'[s], e) <=> Queued(events[s], e)
      /\ Queued(events[s], "ended")
      /\ NoTurn(events'[s]) => LastTurn(events[s], "ended")
      /\ \A e \in Turns : LastTurn(events'[s], e) => LastTurn(events[s], e)
  <2>1. events'[s] = Tail(events[s]) /\ events[s] \in Seq(Events)
      BY <1>1 DEF Queue, TypeOK, PlayerTypeOK
  <2>2. QED
      BY <1>1, <2>1, TakeEvent DEF Handles, Turns
<1>3. /\ timer'[s] = FALSE /\ reached[s] = Duration
      /\ \A report \in reported'[s] : report \in reported[s] \/ report.at = Duration
    BY <1>2 DEF OnEnded, Report, NoneAhead, TypeOK, PlayerTypeOK, WireTypeOK
<1>4. Opening(s)'
    BY <1>1 DEF Opening, Ready
<1>5. NoneAhead(s)'
    BY <1>1, <1>2, <1>3, DurationAssumption DEF NoneAhead
<1>6. ShownInTime(s)'
  <2>1. shown'[s] = shown[s] \cup (manifest[s].ctas \cap EndCTAs)
      BY DEF OnEnded, TypeOK, PlayerTypeOK
  <2>2. QED
      BY <1>1, <1>3, <2>1, DurationAssumption DEF ShownInTime, CTATime
<1>7. HeartbeatWillFollow(s)'
    BY <1>1, <1>2, <1>3 DEF HeartbeatWillFollow, Turns
<1>8. HoldWillCome(s)'
    BY <1>1, <1>2 DEF HoldWillCome, Held, Events
<1>9. GateWillCome(s)'
    BY <1>1, <1>2 DEF GateWillCome, AtGate, Ready, Events
<1>10. QED
    BY <1>4, <1>5, <1>6, <1>7, <1>8, <1>9

(* What a step leaves alone of a session keeps its invariant. *)
LEMMA AloneKeeps ==
    ASSUME NEW s \in Sessions, PlayerInv(s),
           pos'[s] = pos[s], playing'[s] = playing[s], events'[s] = events[s], reached'[s] = reached[s],
           timer'[s] = timer[s], gateShown'[s] = gateShown[s], gateResolved'[s] = gateResolved[s],
           shown'[s] = shown[s], manifest'[s] = manifest[s], reported'[s] = reported[s],
           watch'[s] = watch[s],
           \A k \in Submits :
               SessionOf[k] = s /\ submit'[k] # "idle" => submit[k] # "idle" \/ gateShown[s]
    PROVE  PlayerInv(s)'
<1>1. Opening(s)'
    BY DEF PlayerInv, Opening, Ready
<1>2. NoneAhead(s)' /\ ShownInTime(s)' /\ HeartbeatWillFollow(s)'
    BY DEF PlayerInv, NoneAhead, ShownInTime, HeartbeatWillFollow
<1>3. HoldWillCome(s)' /\ GateWillCome(s)'
    BY DEF PlayerInv, HoldWillCome, Held, GateWillCome, AtGate, Ready
<1>4. QED
    BY <1>1, <1>2, <1>3 DEF PlayerInv

(* A player's step is its own session's. *)
LEMMA WatchAlone ==
    ASSUME TypeOK, NEW s \in Sessions, Watch(s), NEW t \in Sessions \ {s}
    PROVE  /\ pos'[t] = pos[t] /\ playing'[t] = playing[t] /\ events'[t] = events[t]
           /\ reached'[t] = reached[t] /\ timer'[t] = timer[t] /\ gateShown'[t] = gateShown[t]
           /\ gateResolved'[t] = gateResolved[t] /\ shown'[t] = shown[t]
           /\ manifest'[t] = manifest[t] /\ reported'[t] = reported[t] /\ submit' = submit
<1> USE DEF TypeOK, PlayerTypeOK, WireTypeOK
<1>1. CASE FetchManifest(s) \/ Render(s) \/ Heartbeat(s)
    BY <1>1 DEF FetchManifest, Render, Heartbeat, Report, ManifestGoes, playerVars, element,
       gates
<1>2. CASE PressPlay(s) \/ PressPause(s)
    BY <1>2 DEF PressPlay, PressPause, PlayOnto, PauseOnto, MoveTo, Queue, SetPlaying, gates,
       wires
<1>3. CASE Advance(s) \/ EndPlayback(s) \/ \E x \in 0..Duration : Seek(s, x)
    BY <1>3 DEF Advance, EndPlayback, Seek, MoveTo, Queue, SetPlaying, gates, wires
<1>4. CASE Listen(s)
    BY <1>4 DEF Listen, OnPlay, OnPause, OnTimeupdate, OnEnded, PauseOnto, Report, Queue,
       SetPlaying, gates, wires
<1>5. QED
    BY <1>1, <1>2, <1>3, <1>4 DEF Watch

LEMMA WatchKeepsPlayerInv ==
    ASSUME TypeOK, \A x \in Sessions : PlayerInv(x), UNCHANGED serverVars,
           NEW s \in Sessions, Watch(s), NEW t \in Sessions
    PROVE  PlayerInv(t)'
<1>1. CASE t # s
    BY <1>1, WatchAlone, AloneKeeps DEF serverVars, records
<1>2. CASE t = s
  <2> USE <1>2
  <2>1. PlayerInv(s) /\ pos[s] \in 0..Duration
      BY DEF TypeOK, PlayerTypeOK
  <2>2. CASE PressPlay(s)
    <3>1. /\ UNCHANGED <<timer, shown, gateShown, gateResolved, reported, watch, manifest, submit>>
          /\ Ready(s) /\ Ready(s)' /\ PlayOnto(s, events[s])
        BY <2>2 DEF PressPlay, gates, wires, serverVars, records, Ready
    <3>2. QED
        BY <2>1, <3>1, PlayKeeps DEF PlayerInv, Opening
  <2>3. CASE Advance(s)
    <3>1. pos[s] + 1 \in 0..Duration /\ Ready(s)
        BY <2>1, <2>3, DurationAssumption DEF Advance, PlayerInv, Opening
    <3>2. QED
        BY <2>1, <2>3, <3>1, MoveKeeps DEF Advance
  <2>4. CASE \E x \in 0..Duration : Seek(s, x)
      BY <2>1, <2>4, MoveKeeps DEF Seek
  <2>5. CASE PressPause(s) \/ EndPlayback(s) \/ FetchManifest(s) \/ Render(s) \/ Heartbeat(s)
      BY <2>1, <2>5, PressPauseKeeps, EndPlaybackKeeps, ManifestKeeps, HeartbeatKeeps
  <2>6. CASE Listen(s)
      BY <2>1, <2>6, OnPlayKeeps, OnPauseKeeps, OnTimeupdateKeeps, OnEndedKeeps DEF Listen
  <2>7. QED
      BY <2>2, <2>3, <2>4, <2>5, <2>6 DEF Watch
<1>3. QED
    BY <1>1, <1>2

LEMMA FillFormKeepsPlayerInv ==
    ASSUME TypeOK, \A x \in Sessions : PlayerInv(x), UNCHANGED serverVars,
           NEW k \in Submits, FillForm(k), NEW t \in Sessions
    PROVE  PlayerInv(t)'
<1> DEFINE s == SessionOf[k]
<1>1. s \in Sessions
    BY SubmitsAssumption
<1>2. /\ UNCHANGED <<manifest, reported, timer, gateShown, shown, watch>>
      /\ \A j \in Submits \ {k} : submit'[j] = submit[j]
      /\ gateShown[s]
    BY <1>1 DEF FillForm, SubmitLead, TakeAnswer, TakeRefusal, SubmitGoes, playerVars, gates,
       serverVars, records, TypeOK, WireTypeOK, PlayerInv, Opening
<1>3. CASE UNCHANGED <<element, gateResolved>>
    BY <1>2, <1>3, AloneKeeps DEF element
<1>4. CASE TakeAnswer(k)
  <2>1. /\ gateResolved' = [gateResolved EXCEPT ![s] = TRUE] /\ submit[k] = "stored"
        /\ PlayOnto(s, events[s]) \/ UNCHANGED element
      BY <1>4 DEF TakeAnswer
  <2>2. CASE t # s
    <3>1. /\ pos'[t] = pos[t] /\ playing'[t] = playing[t] /\ events'[t] = events[t]
          /\ reached'[t] = reached[t] /\ gateResolved'[t] = gateResolved[t]
        BY <1>1, <2>1, <2>2 DEF PlayOnto, MoveTo, Queue, SetPlaying, element, TypeOK,
           PlayerTypeOK
    <3>2. QED
        BY <1>1, <1>2, <2>2, <3>1, AloneKeeps
  <2>3. CASE t = s /\ PlayOnto(s, events[s])
    <3>1. Ready(s) /\ Ready(s)' /\ \A j \in Submits : submit[j] = "idle" => submit'[j] = "idle"
        BY <1>1, <1>2, <2>1 DEF PlayerInv, Opening, Ready
    <3>2. gateResolved[s] => gateResolved'[s]
        BY <1>1, <2>1 DEF TypeOK, PlayerTypeOK
    <3>3. QED
        BY <1>1, <1>2, <2>3, <3>1, <3>2, PlayKeeps
  <2>4. CASE t = s /\ UNCHANGED element
    <3>1. UNCHANGED <<pos, playing, events, reached>> /\ PlayerInv(s) /\ gateResolved'[s] = TRUE
        BY <1>1, <2>1, <2>4 DEF element, TypeOK, PlayerTypeOK
    <3>2. Opening(s)' /\ GateWillCome(s)'
        BY <1>1, <1>2, <3>1 DEF PlayerInv, Opening, GateWillCome, AtGate, Ready
    <3>3. NoneAhead(s)' /\ ShownInTime(s)' /\ HeartbeatWillFollow(s)'
        BY <1>2, <3>1 DEF PlayerInv, NoneAhead, ShownInTime, HeartbeatWillFollow
    <3>4. HoldWillCome(s)'
        BY <3>1 DEF HoldWillCome, Held
    <3>5. QED
        BY <2>4, <3>2, <3>3, <3>4 DEF PlayerInv
  <2>5. QED
      BY <2>1, <2>2, <2>3, <2>4
<1>5. QED
    BY <1>3, <1>4 DEF FillForm, SubmitLead, TakeRefusal, playerVars, gates

LEMMA PlayerInvStep ==
    ASSUME TypeOK, \A s \in Sessions : PlayerInv(s), [Next]_vars, NEW t \in Sessions
    PROVE  PlayerInv(t)'
<1>1. CASE UNCHANGED vars
    BY <1>1, AloneKeeps DEF vars, wires, serverVars, records, playerVars, element, gates
<1>2. CASE ServerStep
    BY <1>2, ServerKeepsPlayerInv
<1>3. CASE View /\ UNCHANGED serverVars
    BY <1>3, WatchKeepsPlayerInv, FillFormKeepsPlayerInv DEF View
<1>4. QED
    BY <1>1, <1>2, <1>3 DEF Next, ServerStep

-----------------------------------------------------------------------------
(* Records and the webhook *)

(* A step of the player leaves the server's state alone and opens a gate   *)
(* only on an answer that says stored.                                     *)
LEMMA PlayerLeads ==
    ASSUME TypeOK, LeadInv, View, UNCHANGED serverVars
    PROVE  LeadInv'
<1>1. UNCHANGED <<live, leads, calls, received>>
    BY DEF serverVars, records, hooks
<1>2. ASSUME NEW s \in Sessions, Watch(s)
      PROVE  UNCHANGED <<submit, gateResolved>>
    BY <1>2 DEF Watch, FetchManifest, Render, PressPlay, PressPause, Advance, EndPlayback,
       Seek, Heartbeat, Listen, OnPlay, OnPause, OnTimeupdate, OnEnded, ManifestGoes,
       playerVars, gates, wires
<1>3. ASSUME NEW k \in Submits, FillForm(k)
      PROVE  /\ \A j \in Submits : submit'[j] = "stored" => submit[j] = "stored"
             /\ \A s \in Sessions : gateResolved'[s] =>
                    gateResolved[s] \/ (s = SessionOf[k] /\ submit[k] = "stored")
    BY <1>3 DEF FillForm, SubmitLead, TakeAnswer, TakeRefusal, SubmitGoes, playerVars, gates,
       TypeOK, WireTypeOK, PlayerTypeOK
<1>4. StoredOnRecord'
    BY <1>1, <1>2, <1>3 DEF LeadInv, StoredOnRecord, View
<1>5. GatePassedByLead'
    BY <1>1, <1>2, <1>3 DEF LeadInv, StoredOnRecord, GatePassedByLead, View
<1>6. HookHasLead'
    BY <1>1 DEF LeadInv, HookHasLead
<1>7. QED
    BY <1>4, <1>5, <1>6 DEF LeadInv

LEMMA ServerLeads ==
    ASSUME TypeOK, LeadInv, ServerStep
    PROVE  LeadInv'
<1>1. gateResolved' = gateResolved
    BY DEF ServerStep, playerVars, gates
<1>2. CASE live' = FALSE
    BY <1>2 DEF LeadInv, StoredOnRecord, GatePassedByLead, HookHasLead
<1>3. CASE /\ UNCHANGED <<live, leads>>
           /\ \A k \in Submits : submit'[k] = "stored" => submit[k] = "stored"
           /\ calls' \subseteq calls /\ received' \subseteq received \cup calls
    BY <1>1, <1>3 DEF LeadInv, StoredOnRecord, GatePassedByLead, HookHasLead
<1>4. ASSUME NEW k \in Submits, StoreLead(k)
      PROVE  LeadInv'
  <2>1. /\ leads' = leads \cup {k} /\ live /\ live' = live /\ received' = received
        /\ \A j \in Submits : submit'[j] = "stored" => submit[j] = "stored" \/ j = k
        /\ \A x \in calls' : x \in calls \/ x.lead = k
      BY <1>4 DEF StoreLead, SubmitGoes, TypeOK, WireTypeOK
  <2>2. QED
      BY <1>1, <2>1 DEF LeadInv, StoredOnRecord, GatePassedByLead, HookHasLead
<1>5. ASSUME NEW k \in Submits, LoadForLead(k) \/ RefuseLead(k)
      PROVE  LeadInv'
    BY <1>3, <1>5 DEF LoadForLead, RefuseLead, records, SubmitGoes, TypeOK, WireTypeOK
<1>6. ASSUME NEW x \in calls, SendLead(x)
      PROVE  LeadInv'
    BY <1>3, <1>6 DEF SendLead, records, wires
<1>7. CASE Operate
    BY <1>2, <1>3, <1>7 DEF Operate, SetLeadGate, SetWebhook, CreateCTA, DeleteCTA,
       DeleteVideo, Edit, records, hooks, wires
<1>8. CASE \E s \in Sessions : ServeManifest(s) \/ RecordProgress(s)
    BY <1>3, <1>8 DEF ServeManifest, LoadVideo, ListCTAs, GetLeadGate, FailManifest,
       RecordProgress, serverVars, records, hooks, wires
<1>9. CASE \E s \in Sessions, c \in CTAs : ClickCTA(s, c)
    BY <1>3, <1>9 DEF ClickCTA, RecordCTAClick, hooks, wires
<1>10. QED
    BY <1>4, <1>5, <1>6, <1>7, <1>8, <1>9 DEF ServerStep, ServeViewers, ServeLead

LEMMA LeadInvStep ==
    ASSUME TypeOK, LeadInv, [Next]_vars
    PROVE  LeadInv'
<1>1. CASE UNCHANGED vars
    BY <1>1 DEF vars, wires, serverVars, records, hooks, playerVars, gates, LeadInv,
       StoredOnRecord, GatePassedByLead, HookHasLead
<1>2. QED
    BY <1>1, PlayerLeads, ServerLeads DEF Next, ServerStep

(* Whatever is recorded is recorded for a video that is there.             *)
LEMMA NoOrphansStep ==
    ASSUME TypeOK, NoOrphans, [Next]_vars
    PROVE  NoOrphans'
<1>1. CASE UNCHANGED <<live, watch, leads, clicks, ctas, gate>>
    BY <1>1 DEF NoOrphans
<1>2. CASE live' = live /\ live
    BY <1>2 DEF NoOrphans
<1>3. CASE DeleteVideo
    BY <1>3 DEF DeleteVideo, NoOrphans
<1>4. ASSUME ServerStep
      PROVE  NoOrphans'
  <2>1. CASE Operate
      BY <1>2, <1>3, <2>1 DEF Operate, SetLeadGate, SetWebhook, CreateCTA, DeleteCTA, Edit
  <2>2. CASE \E s \in Sessions : ServeManifest(s) \/ RecordProgress(s)
      BY <1>1, <1>2, <2>2 DEF ServeManifest, LoadVideo, ListCTAs, GetLeadGate, FailManifest,
         RecordProgress, serverVars, records, settings
  <2>3. CASE \E k \in Submits : ServeLead(k)
      BY <1>1, <1>2, <2>3 DEF ServeLead, LoadForLead, StoreLead, RefuseLead, records, settings
  <2>4. CASE \E x \in calls : SendLead(x)
      BY <1>1, <2>4 DEF SendLead, records, settings
  <2>5. CASE \E s \in Sessions, c \in CTAs : ClickCTA(s, c)
      BY <1>2, <2>5 DEF ClickCTA, RecordCTAClick
  <2>6. QED
      BY <1>4, <2>1, <2>2, <2>3, <2>4, <2>5 DEF ServerStep, ServeViewers
<1>5. QED
    BY <1>1, <1>4 DEF Next, ServerStep, vars, serverVars, records, settings

(* Clicks go with their CTA, and what was shown once stays shown.          *)
LEMMA ClicksStep ==
    ASSUME TypeOK, ClicksGenuine, \A s \in Sessions : PlayerInv(s), [Next]_vars
    PROVE  ClicksGenuine'
<1>1. \A s \in Sessions : PlayerInv(s)' /\ TypeOK'
    BY PlayerInvStep, TypeStep
<1>2. \A s \in Sessions : shown[s] \subseteq shown'[s]
  <2>1. CASE UNCHANGED shown
      BY <2>1
  <2>2. ASSUME NEW t \in Sessions, Watch(t)
        PROVE  UNCHANGED shown \/ \E S : shown' = [shown EXCEPT ![t] = @ \cup S]
    <3>1. CASE OnTimeupdate(t) \/ OnEnded(t)
        BY <3>1 DEF OnTimeupdate, OnEnded
    <3>2. QED
        BY <2>2, <3>1 DEF Watch, FetchManifest, Render, PressPlay, PressPause, Advance,
           EndPlayback, Seek, Heartbeat, Listen, OnPlay, OnPause, playerVars
  <2>3. ASSUME NEW t \in Sessions, Watch(t)
        PROVE  \A s \in Sessions : shown[s] \subseteq shown'[s]
    <3>1. ASSUME NEW S, shown' = [shown EXCEPT ![t] = @ \cup S]
          PROVE  \A s \in Sessions : shown[s] \subseteq shown'[s]
        BY <3>1 DEF TypeOK, PlayerTypeOK
    <3>2. QED
        BY <2>1, <2>2, <2>3, <3>1
  <2>4. CASE \E k \in Submits : FillForm(k)
      BY <2>1, <2>4 DEF FillForm, SubmitLead, TakeAnswer, TakeRefusal, playerVars
  <2>5. QED
      BY <2>1, <2>3, <2>4 DEF Next, View, vars, playerVars
<1>3. \A click \in clicks' : click[2] \in ctas' \cap shown'[click[1]]
  <2>1. CASE UNCHANGED <<clicks, ctas>>
      BY <1>2, <2>1 DEF ClicksGenuine, TypeOK, ServerTypeOK
  <2>2. ASSUME NEW s \in Sessions, NEW c \in CTAs, ClickCTA(s, c), UNCHANGED playerVars
        PROVE  \A click \in clicks' : click[2] \in ctas' \cap shown'[click[1]]
      BY <2>2 DEF ClickCTA, RecordCTAClick, ClicksGenuine, settings, playerVars
  <2>3. ASSUME Operate, UNCHANGED playerVars
        PROVE  \A click \in clicks' : click[2] \in ctas' \cap shown'[click[1]]
      BY <1>2, <2>3 DEF Operate, SetLeadGate, SetWebhook, CreateCTA, DeleteCTA, DeleteVideo,
         records, ClicksGenuine, TypeOK, ServerTypeOK
  <2>4. CASE ServeViewers
      BY <2>1, <2>4 DEF ServeViewers, ServeManifest, LoadVideo, ListCTAs, GetLeadGate,
         FailManifest, RecordProgress, ServeLead, LoadForLead, StoreLead, RefuseLead,
         SendLead, serverVars, records, settings
  <2>5. CASE UNCHANGED serverVars \/ UNCHANGED vars
      BY <2>1, <2>5 DEF vars, serverVars, records, settings
  <2>6. QED
      BY <2>2, <2>3, <2>4, <2>5 DEF Next
<1>4. QED
  <2> SUFFICES ASSUME NEW click \in clicks'
               PROVE  reached'[click[1]] >= IF click[2] \in EndCTAs THEN Duration ELSE CTAAt[click[2]]
      BY <1>3 DEF ClicksGenuine
  <2>1. click[1] \in Sessions /\ click[2] \in shown'[click[1]]
      BY <1>1, <1>3, TypeStep DEF TypeOK, ServerTypeOK
  <2>2. QED
      BY <1>1, <2>1 DEF PlayerInv, ShownInTime, CTATime

-----------------------------------------------------------------------------
(* The theorems *)

LEMMA ViewingStarts == Init => ViewingInv
<1> SUFFICES ASSUME Init
             PROVE  ViewingInv
    OBVIOUS
<1> USE DEF Init, WireInit, ServerInit, PlayerInit
<1>1. TypeOK
    BY TypeStart
<1>2. LeadInv /\ NoOrphans /\ ClicksGenuine
    BY DEF LeadInv, StoredOnRecord, GatePassedByLead, HookHasLead, NoOrphans, ClicksGenuine
<1>3. ASSUME NEW s \in Sessions
      PROVE  PlayerInv(s)
  <2>1. Opening(s) /\ NoneAhead(s) /\ ShownInTime(s)
      BY SubmitsAssumption, NoEvents DEF Opening, NoneAhead, ShownInTime, Events
  <2>2. HeartbeatWillFollow(s) /\ HoldWillCome(s) /\ GateWillCome(s)
      BY NoEvents DEF HeartbeatWillFollow, HoldWillCome, GateWillCome
  <2>3. QED
      BY <2>1, <2>2 DEF PlayerInv
<1>4. QED
    BY <1>1, <1>2, <1>3 DEF ViewingInv

LEMMA ViewingSteps == ViewingInv /\ [Next]_vars => ViewingInv'
BY TypeStep, LeadInvStep, NoOrphansStep, ClicksStep, PlayerInvStep DEF ViewingInv

(* What the player and the server keep together, with what the queued      *)
(* events will still do: the inductive invariant of a viewing.             *)
THEOREM ViewingInvariant == Spec => []ViewingInv
BY ViewingStarts, ViewingSteps, PTL DEF Spec

(* Every variable keeps its type, whatever the operator, the viewer and    *)
(* the network do (embed_handlers.go, player.ts).                          *)
THEOREM ViewingTypeCorrect == Spec => []TypeOK
<1>1. ViewingInv => TypeOK
    BY DEF ViewingInv
<1>2. QED
    BY <1>1, ViewingInvariant, PTL

(* A gate that was opened has a lead on record while the video is there    *)
(* (player.ts:233-258).                                                    *)
THEOREM LeadsBehindGates == Spec => []GatePassedByLead
<1>1. ViewingInv => GatePassedByLead
    BY DEF ViewingInv, LeadInv
<1>2. QED
    BY <1>1, ViewingInvariant, PTL

(* The customer's system hears only of leads that are on record, however   *)
(* often and however late it is called (embed_handlers.go:124-143).        *)
THEOREM LeadsBehindHooks == Spec => []HookHasLead
<1>1. ViewingInv => HookHasLead
    BY DEF ViewingInv, LeadInv
<1>2. QED
    BY <1>1, ViewingInvariant, PTL

(* No row outlives the video it hangs on (embed_handlers.go:80-140).       *)
THEOREM NothingOrphaned == Spec => []NoOrphans
<1>1. ViewingInv => NoOrphans
    BY DEF ViewingInv
<1>2. QED
    BY <1>1, ViewingInvariant, PTL

(* A recorded click is on a CTA that exists, was shown, and was due        *)
(* (player.ts:156-172).                                                    *)
THEOREM EveryClickGenuine == Spec => []ClicksGenuine
<1>1. ViewingInv => ClicksGenuine
    BY DEF ViewingInv
<1>2. QED
    BY <1>1, ViewingInvariant, PTL

(* What the invariant says of a player whose listeners have caught up.     *)
LEMMA CaughtUp == ViewingInv => HeartbeatFollows /\ BeforeGateHolds /\ GateNotMissed
<1> SUFFICES ASSUME ViewingInv, NEW s \in Sessions, events[s] = <<>>
             PROVE  /\ timer[s] <=> playing[s]
                    /\ Held(s) => ~playing[s]
                    /\ Ready(s) /\ AtGate(s) /\ pos[s] # 0 => gateShown[s]
    BY DEF HeartbeatFollows, BeforeGateHolds, GateNotMissed, AtGate
<1>1. NoTurn(events[s]) /\ ~Queued(events[s], "play") /\ ~Queued(events[s], "timeupdate")
    BY NoEvents DEF Events
<1>2. HeartbeatWillFollow(s) /\ HoldWillCome(s) /\ GateWillCome(s)
    BY DEF ViewingInv, PlayerInv
<1>3. QED
    BY <1>1, <1>2 DEF HeartbeatWillFollow, HoldWillCome, GateWillCome

(* With no event outstanding the heartbeat beats exactly while the video   *)
(* plays, whichever order the events came in (player.ts:175-189).          *)
THEOREM HeartbeatsFollow == Spec => []HeartbeatFollows
    BY CaughtUp, ViewingInvariant, PTL

(* With no event outstanding a gate before playback holds the video        *)
(* (player.ts:131-139).                                                    *)
THEOREM BeforeGatesHold == Spec => []BeforeGateHolds
    BY CaughtUp, ViewingInvariant, PTL

(* With no event outstanding a gate whose time has come was shown          *)
(* (player.ts:143-154).                                                    *)
THEOREM PlayerCatchesUp == Spec => []GateNotMissed
    BY CaughtUp, ViewingInvariant, PTL

-----------------------------------------------------------------------------
(* The refinement of FurthestPoint *)

Recorded == [s \in Sessions |-> IF live THEN watch[s] ELSE Removed]

LEMMA FiguresStart == Init => Figures!Init
BY DEF Init, ServerInit, PlayerInit, Figures!Init

LEMMA ReachStep ==
    ASSUME ViewingInv, ViewingInv', View, UNCHANGED serverVars
    PROVE  Figures!Next \/ UNCHANGED <<reached, Recorded>>
<1>1. Recorded' = Recorded
    BY DEF serverVars, records, Recorded
<1>2. reached \in [Sessions -> 0..Duration]
    BY DEF ViewingInv, TypeOK, PlayerTypeOK
<1>3. ASSUME NEW s \in Sessions, NEW t \in 0..Duration, MoveTo(s, t)
      PROVE  Figures!Next \/ UNCHANGED <<reached, Recorded>>
  <2>1. CASE t > reached[s]
    <3>1. t \in (reached[s] + 1)..Duration /\ reached' = [reached EXCEPT ![s] = t]
        BY <1>2, <1>3, <2>1, DurationAssumption DEF MoveTo
    <3>2. QED
        BY <1>1, <3>1 DEF Figures!Next, Figures!Reach, Recorded
  <2>2. CASE ~(t > reached[s])
      BY <1>1, <1>2, <1>3, <2>2 DEF MoveTo
  <2>3. QED
      BY <2>1, <2>2
<1>4. ASSUME NEW s \in Sessions, NEW q, PlayOnto(s, q) \/ PauseOnto(s, q)
      PROVE  Figures!Next \/ UNCHANGED <<reached, Recorded>>
  <2>1. pos[s] \in 0..Duration /\ 0 \in 0..Duration
      BY DurationAssumption DEF ViewingInv, TypeOK, PlayerTypeOK
  <2>2. QED
      BY <1>1, <1>3, <1>4, <2>1 DEF PlayOnto, PauseOnto
<1>5. ASSUME NEW s \in Sessions, Watch(s)
      PROVE  Figures!Next \/ UNCHANGED <<reached, Recorded>>
  <2>1. CASE FetchManifest(s) \/ Render(s) \/ Heartbeat(s) \/ EndPlayback(s)
      BY <1>1, <2>1 DEF FetchManifest, Render, Heartbeat, EndPlayback, playerVars, element
  <2>2. CASE PressPlay(s) \/ PressPause(s)
      BY <1>4, <2>2 DEF PressPlay, PressPause
  <2>3. CASE Advance(s)
    <3>1. pos[s] + 1 \in 0..Duration
        BY <2>3, DurationAssumption DEF Advance, ViewingInv, TypeOK, PlayerTypeOK
    <3>2. QED
        BY <1>3, <2>3, <3>1 DEF Advance
  <2>4. CASE \E t \in 0..Duration : Seek(s, t)
      BY <1>3, <2>4 DEF Seek
  <2>5. CASE Listen(s)
      BY <1>1, <1>4, <2>5 DEF Listen, OnPlay, OnPause, OnTimeupdate, OnEnded
  <2>6. QED
      BY <1>5, <2>1, <2>2, <2>3, <2>4, <2>5 DEF Watch
<1>6. ASSUME NEW k \in Submits, FillForm(k)
      PROVE  Figures!Next \/ UNCHANGED <<reached, Recorded>>
    BY <1>1, <1>4, <1>6, SubmitsAssumption DEF FillForm, SubmitLead, TakeAnswer, TakeRefusal,
       playerVars, element
<1>7. QED
    BY <1>5, <1>6 DEF View

LEMMA RecordStep ==
    ASSUME ViewingInv, ServerStep
    PROVE  Figures!Next \/ UNCHANGED <<reached, Recorded>>
<1>1. reached' = reached
    BY DEF ServerStep, playerVars, element
<1>2. CASE UNCHANGED <<live, watch>>
    BY <1>1, <1>2 DEF Recorded
<1>3. CASE DeleteVideo
  <2>1. Recorded' = [s \in Sessions |-> Removed]
      BY <1>3 DEF DeleteVideo, Recorded
  <2>2. QED
      BY <1>1, <2>1 DEF Figures!Next, Figures!Remove, Recorded
<1>4. ASSUME NEW s \in Sessions, RecordProgress(s)
      PROVE  Figures!Next
  <2>1. PICK report \in reported[s] : watch' = [watch EXCEPT ![s] = Upserted(@, report)]
      BY <1>4 DEF RecordProgress
  <2> DEFINE new == Upserted(watch[s], report)
  <2>2. /\ report \in Reports /\ watch[s] \in Reports \cup {NoRow} /\ reached[s] \in 0..Duration
        /\ watch \in [Sessions -> Reports \cup {NoRow}]
      BY DEF ViewingInv, TypeOK, WireTypeOK, ServerTypeOK, PlayerTypeOK
  <2>3. report.at <= reached[s] /\ (watch[s] # NoRow => watch[s].at <= reached[s])
      BY DEF ViewingInv, PlayerInv, NoneAhead
  <2>4. /\ new \in [at : 0..reached[s], played : BOOLEAN]
        /\ watch[s] # NoRow => watch[s].at <= new.at /\ (watch[s].played => new.played)
      BY <2>2, <2>3, DurationAssumption DEF Upserted, Reports
  <2>5. live /\ live' /\ Recorded[s] = watch[s] /\ watch[s] # Removed
      BY <1>4, <2>2, RemovedAssumption DEF RecordProgress, Recorded
  <2>6. Recorded' = [Recorded EXCEPT ![s] = new]
      BY <2>1, <2>2, <2>5 DEF Recorded
  <2> HIDE DEF new
  <2>7. \E x \in [at : 0..reached[s], played : BOOLEAN] : Figures!Note(s, x)
      BY <1>1, <2>4, <2>5, <2>6 DEF Figures!Note, Recorded
  <2>8. QED
      BY <2>7 DEF Figures!Next
<1>5. CASE Operate
    BY <1>2, <1>3, <1>5 DEF Operate, SetLeadGate, SetWebhook, CreateCTA, DeleteCTA, Edit,
       records
<1>6. CASE \E s \in Sessions : ServeManifest(s)
    BY <1>2, <1>6 DEF ServeManifest, LoadVideo, ListCTAs, GetLeadGate, FailManifest,
       serverVars, records
<1>7. CASE (\E k \in Submits : ServeLead(k)) \/ \E x \in calls : SendLead(x)
    BY <1>2, <1>7 DEF ServeLead, LoadForLead, StoreLead, RefuseLead, SendLead, records
<1>8. CASE \E s \in Sessions, c \in CTAs : ClickCTA(s, c)
    BY <1>2, <1>8 DEF ClickCTA, RecordCTAClick
<1>9. QED
    BY <1>4, <1>5, <1>6, <1>7, <1>8 DEF ServerStep, ServeViewers

(* What is recorded of each viewer grows to a point the viewer has been    *)
(* at and goes with the video, whichever reports are lost, late, repeated  *)
(* or out of order (viewer_sessions.go:8-26): Viewing implements           *)
(* FurthestPoint.                                                          *)
THEOREM ViewingRecordsFurthest == Spec => RecordsFurthest
<1>1. ViewingInv /\ ViewingInv' /\ [Next]_vars => [Figures!Next]_<<reached, Recorded>>
  <2> SUFFICES ASSUME ViewingInv, ViewingInv', [Next]_vars
               PROVE  Figures!Next \/ UNCHANGED <<reached, Recorded>>
      OBVIOUS
  <2>1. CASE UNCHANGED vars
      BY <2>1 DEF vars, serverVars, records, playerVars, element, Recorded
  <2>2. QED
      BY <2>1, ReachStep, RecordStep DEF Next, ServerStep
<1>2. QED
    BY <1>1, FiguresStart, ViewingInvariant, PTL DEF Spec, RecordsFurthest, Figures!Spec,
       Recorded
=============================================================================
