------------------------------ MODULE EmbedWire ------------------------------
(***************************************************************************)
(* What the embedded player (web/player/src/player.ts) and the server      *)
(* (internal/api/embed_handlers.go) share: the terms of a video's lead     *)
(* gate and CTAs, and the requests between them.  One video is followed,   *)
(* from the moment it is ready; a session is one load of its player.       *)
(*                                                                         *)
(* Time in the video is counted in steps of playback, from 0 to Duration.  *)
(***************************************************************************)
EXTENDS Integers, Sequences, FiniteSets

CONSTANTS
    Sessions,
    Duration,
    Gates,         \* lead gate settings: enabled, position, at
    NoGate,        \* no row in lead_gates
    CTAs,
    EndCTAs,       \* the CTAs with the trigger "end"
    CTAAt,         \* the time of the others
    Submits,       \* submissions of the lead form, with their retries
    SessionOf      \* the session each is made in

DefaultGate == [enabled |-> FALSE, position |-> "before", at |-> 0]
Reports == [at : 0..Duration, played : BOOLEAN]

ASSUME DurationAssumption == Duration \in Nat
ASSUME GatesAssumption ==
    /\ Gates \subseteq [enabled : BOOLEAN, position : {"before", "timestamp"}, at : Nat]
    /\ NoGate \notin Gates
ASSUME CTAsAssumption == EndCTAs \subseteq CTAs /\ CTAAt \in [CTAs -> Nat]
ASSUME SubmitsAssumption == SessionOf \in [Submits -> Sessions]

VARIABLES
    manifest,      \* where each session's manifest is, and what it says
    reported,      \* the progress reports each player has sent
    submit         \* where each submission is

wires == <<manifest, reported, submit>>

ManifestPlaces == {"idle", "asked", "found", "listed", "answered", "rendered", "failed"}
SubmitPlaces == {"idle", "sent", "loaded", "stored", "refused", "done"}

WireTypeOK ==
    /\ manifest \in [Sessions -> [place : ManifestPlaces, ctas : SUBSET CTAs,
                                  gate : Gates \cup {DefaultGate}]]
    /\ reported \in [Sessions -> SUBSET Reports]
    /\ submit \in [Submits -> SubmitPlaces]

WireInit ==
    /\ manifest = [s \in Sessions |-> [place |-> "idle", ctas |-> {}, gate |-> DefaultGate]]
    /\ reported = [s \in Sessions |-> {}]
    /\ submit = [k \in Submits |-> "idle"]

ManifestGoes(s, place) == manifest' = [manifest EXCEPT ![s].place = place]
SubmitGoes(k, place) == submit' = [submit EXCEPT ![k] = place]

(* reportProgress: a beacon, which may arrive late, after another, or never. *)
Report(s, at, played) ==
    reported' = [reported EXCEPT ![s] = @ \cup {[at |-> at, played |-> played]}]
=============================================================================
