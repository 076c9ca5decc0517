--------------------------- MODULE MCVideoPipeline ---------------------------
(* Small instances of VideoPipeline for TLC. *)
EXTENDS VideoPipeline, TLC

CONSTANTS u1, u2, d1

MCMediaFiles == <<"segment">>

(* Two uploads and a delete of the only video. *)
OneVideo == {1}
BothToOne == u1 :> 1 @@ u2 :> 1
DeleteTheOne == d1 :> 1

(* An upload to each of two videos, a delete of the first. *)
TwoVideos == {1, 2}
OneToEach == u1 :> 1 @@ u2 :> 2

(* The same with ids of which one begins the other. *)
NestedVideos == {1, 10}
OneToEachNested == u1 :> 1 @@ u2 :> 10
=============================================================================
