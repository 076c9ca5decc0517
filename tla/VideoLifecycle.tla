---------------------------- MODULE VideoLifecycle ---------------------------
(***************************************************************************)
(* What the pipeline promises of every video that is uploaded once: the    *)
(* life its status tells (internal/db/models.go, "its lifecycle from       *)
(* upload through transcode"), and that it is published only when all it   *)
(* consists of is in the bucket, where it then stays until somebody asks   *)
(* for its deletion.  A request for deletion that has found the row        *)
(* condemns the video: nothing is promised of its objects from then on.    *)
(***************************************************************************)
CONSTANT Videos

VARIABLES
    phase,       \* where each video stands
    whole        \* the videos whose objects are all there, from one upload

lifecycleVars == <<phase, whole>>

Phases == {"none", "uploading", "transcoding", "ready", "failed", "condemned", "deleted"}
Live == {"uploading", "transcoding", "ready", "failed"}

LifecycleTypeOK == phase \in [Videos -> Phases] /\ whole \subseteq Videos

LifecycleInit == phase = [v \in Videos |-> "none"] /\ whole = {}

Become(v, p) == phase' = [phase EXCEPT ![v] = p]

Create(v) == phase[v] = "none" /\ Become(v, "uploading") /\ UNCHANGED whole

Accept(v) == phase[v] = "uploading" /\ Become(v, "transcoding") /\ UNCHANGED whole

Complete(v) == phase[v] = "transcoding" /\ whole' = whole \cup {v} /\ UNCHANGED phase

Publish(v) ==
    phase[v] = "transcoding" /\ v \in whole /\ Become(v, "ready") /\ UNCHANGED whole

Fail(v) == phase[v] = "transcoding" /\ Become(v, "failed") /\ UNCHANGED whole

Condemn(v) == phase[v] \in Live /\ Become(v, "condemned") /\ UNCHANGED whole

(* Of a condemned video, objects go, and may come back from a job that is  *)
(* still running.                                                          *)
Scrub(v) ==
    /\ phase[v] \in {"condemned", "deleted"}
    /\ whole' \in {whole \ {v}, whole \cup {v}}
    /\ UNCHANGED phase

Drop(v) ==
    /\ phase[v] = "condemned"
    /\ Become(v, "deleted")
    /\ whole' \in {whole \ {v}, whole \cup {v}}

LifecycleNext ==
    \E v \in Videos :
        \/ Create(v) \/ Accept(v) \/ Complete(v) \/ Publish(v) \/ Fail(v)
        \/ Condemn(v) \/ Scrub(v) \/ Drop(v)

(* A transcode comes to an end, one way or the other. *)
LifecycleFairness ==
    \A v \in Videos : WF_lifecycleVars(Publish(v) \/ Fail(v))

LifecycleSafety == LifecycleInit /\ [][LifecycleNext]_lifecycleVars

LifecycleSpec == LifecycleSafety /\ LifecycleFairness
=============================================================================
