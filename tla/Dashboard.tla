------------------------------ MODULE Dashboard ------------------------------
(***************************************************************************)
(* The dashboard's page of one video                                       *)
(* (web/dashboard/src/pages/VideoDetailPage.tsx, with UploadWidget.tsx)    *)
(* over the life that VideoLifecycle promises of it: what the page shows   *)
(* is the answer to a load that arrived last, and loads overlap.           *)
(***************************************************************************)
EXTENDS VideoLifecycle, Integers

CONSTANTS
    Video,         \* the one whose page it is
    Loads,         \* loads of it that may be outstanding together
    Files,         \* files that may be on their way from the page together
    MaxDeletes,    \* bound on deletes that are outstanding together
    MaxLost,       \* bound on answers that are lost
    MaxVisits      \* bound on how often the page is opened

ASSUME PageAssumption ==
    Video \in Videos /\ MaxDeletes \in Nat /\ MaxLost \in Nat /\ MaxVisits \in Nat

VARIABLES
    open,          \* the page is mounted
    shown,         \* video?.status
    load,          \* where each load is: not in use, asked, or its answer
    upload,        \* where the upload of each file from this page is
    removing,      \* how many deletes from this page await their answer
    lost, visits

pageVars == <<open, shown, load, upload, removing, lost, visits>>
vars == <<lifecycleVars, pageVars>>

Final == {"ready", "failed"}

(* handleGetVideo: the row is there until the deletion is through; of a    *)
(* condemned video it may say anything.                                    *)
Answers ==
    CASE phase[Video] \in Live -> {phase[Video]}
      [] phase[Video] = "condemned" -> Live
      [] OTHER -> {"missing"}

TypeOK ==
    /\ LifecycleTypeOK
    /\ open \in BOOLEAN
    /\ shown \in Live \cup {"nothing"}
    /\ load \in [Loads -> Live \cup {"none", "asked", "missing"}]
    /\ upload \in [Files -> {"none", "sent", "accepted", "refused"}]
    /\ removing \in 0..MaxDeletes
    /\ lost \in 0..MaxLost /\ visits \in 0..MaxVisits
    /\ ~open => /\ \A l \in Loads : load[l] = "none"
                /\ \A f \in Files : upload[f] = "none"

Blank == shown' = "nothing" /\ upload' = [f \in Files |-> "none"]

Init ==
    /\ LifecycleInit
    /\ open = FALSE
    /\ shown = "nothing"
    /\ load = [l \in Loads |-> "none"]
    /\ upload = [f \in Files |-> "none"] /\ removing = 0
    /\ lost = 0 /\ visits = 0

LoadGoes(l, place) == load' = [load EXCEPT ![l] = place]

UploadGoes(f, place) == upload' = [upload EXCEPT ![f] = place]

LoadVideo == \E l \in Loads : load[l] = "none" /\ LoadGoes(l, "asked")

LoseOne == lost < MaxLost /\ lost' = lost + 1

(* Slips: polling ends with the first answer, or never; a failed load is a *)
(* failed video; what is outstanding outlives the page.                    *)
PollsUntilLoaded == open /\ shown = "nothing"

PollsAlways == open

LoseAsFailed(l) ==
    /\ load[l] # "none" /\ LoseOne
    /\ LoadGoes(l, "none")
    /\ shown' = "failed"
    /\ UNCHANGED <<lifecycleVars, open, upload, removing, visits>>

CloseOnly ==
    /\ open
    /\ open' = FALSE
    /\ UNCHANGED <<lifecycleVars, shown, load, upload, removing, lost, visits>>

-----------------------------------------------------------------------------
(* The effect that sets the interval, again after every answer taken. *)
Polls == open /\ shown \notin Final

(* From the list of videos, which may be out of date. *)
Open ==
    /\ ~open /\ visits < MaxVisits
    /\ phase[Video] # "none"
    /\ open' = TRUE
    /\ visits' = visits + 1
    /\ Blank
    /\ LoadVideo
    /\ UNCHANGED <<lifecycleVars, removing, lost>>

(* Statuses and uploads that come after it are for a component that is     *)
(* gone; a delete still navigates.                                         *)
Close ==
    /\ open
    /\ open' = FALSE
    /\ Blank
    /\ load' = [l \in Loads |-> "none"]
    /\ UNCHANGED <<lifecycleVars, removing, lost, visits>>

Poll ==
    /\ Polls
    /\ LoadVideo
    /\ UNCHANGED <<lifecycleVars, open, shown, upload, removing, lost, visits>>

GetVideo(l) ==
    /\ load[l] = "asked"
    /\ \E answer \in Answers : LoadGoes(l, answer)
    /\ UNCHANGED <<lifecycleVars, open, shown, upload, removing, lost, visits>>

(* No answer, or an error: the rejection is not handled. *)
Lose(l) ==
    /\ load[l] # "none" /\ LoseOne
    /\ LoadGoes(l, "none")
    /\ UNCHANGED <<lifecycleVars, open, shown, upload, removing, visits>>

(* setVideo, in the order in which the answers come. *)
SetVideo(l) ==
    /\ load[l] \in Live \cup {"missing"}
    /\ LoadGoes(l, "none")
    /\ shown' = IF load[l] = "missing" THEN shown ELSE load[l]
    /\ UNCHANGED <<lifecycleVars, open, upload, removing, lost, visits>>

(* UploadWidget: another file can be chosen while one is sent. *)
ChooseFile(f) ==
    /\ open /\ shown = "uploading" /\ upload[f] = "none"
    /\ UploadGoes(f, "sent")
    /\ UNCHANGED <<lifecycleVars, open, shown, load, removing, lost, visits>>

AcceptUpload(f) ==
    /\ upload[f] = "sent"
    /\ Accept(Video)
    /\ UploadGoes(f, "accepted")
    /\ UNCHANGED <<open, shown, load, removing, lost, visits>>

RefuseUpload(f) ==
    /\ \/ upload[f] = "sent" /\ UNCHANGED lost
       \/ upload[f] = "accepted" /\ LoseOne
    /\ UploadGoes(f, "refused")
    /\ UNCHANGED <<lifecycleVars, open, shown, load, removing, visits>>

(* onUploaded loads at once, also when the widget is no longer shown. *)
EndUpload(f) ==
    /\ \/ upload[f] = "accepted" /\ LoadVideo
       \/ upload[f] = "refused" /\ UNCHANGED load
    /\ UploadGoes(f, "none")
    /\ UNCHANGED <<lifecycleVars, open, shown, removing, lost, visits>>

(* onDelete: nothing keeps the button from being pressed again. *)
AskDelete ==
    /\ open /\ shown # "nothing" /\ removing < MaxDeletes
    /\ removing' = removing + 1
    /\ UNCHANGED <<lifecycleVars, open, shown, load, upload, lost, visits>>

DeleteFails ==
    /\ removing > 0
    /\ removing' = removing - 1
    /\ UNCHANGED <<lifecycleVars, open, shown, load, upload, lost, visits>>

(* To the list of videos, from whatever page is open by then. *)
Leave ==
    /\ removing > 0 /\ phase[Video] = "deleted"
    /\ removing' = removing - 1
    /\ open' = FALSE
    /\ Blank
    /\ load' = [l \in Loads |-> "none"]
    /\ UNCHANGED <<lifecycleVars, lost, visits>>

Page ==
    \/ Open \/ Close \/ Leave
    \/ Poll \/ (\E l \in Loads : GetVideo(l) \/ Lose(l) \/ SetVideo(l))
    \/ (\E f \in Files : ChooseFile(f) \/ AcceptUpload(f) \/ RefuseUpload(f) \/ EndUpload(f))
    \/ AskDelete \/ DeleteFails

(* A page elsewhere, or the pipeline. *)
Elsewhere == LifecycleNext /\ UNCHANGED pageVars

Next == Page \/ Elsewhere

(* The interval fires, and a load comes to an end. *)
Fairness ==
    /\ WF_vars(Poll)
    /\ \A l \in Loads : WF_vars(GetVideo(l)) /\ WF_vars(SetVideo(l))

Spec == Init /\ [][Next]_vars /\ Fairness

-----------------------------------------------------------------------------
(* What the page shows is never ahead of the video: not "ready" for one    *)
(* that never was, and not "failed" because a load did                     *)
(* (VideoDetailPage.tsx:26, 72-92).                                        *)
NotAhead ==
    phase[Video] \in Live =>
        /\ shown \in Final => shown = phase[Video]
        /\ shown = "transcoding" => phase[Video] # "uploading"

(* A page that stays open ends up with the status the video ends with,     *)
(* though answers are lost and an older one may overwrite a newer: that    *)
(* one sets the interval again (VideoDetailPage.tsx:43-47).                *)
EndIsShown == <>[](open /\ phase[Video] \in Final => shown = phase[Video])

(* And then it asks no more. *)
StopsAsking ==
    <>[](open /\ phase[Video] \in Final => \A l \in Loads : load[l] = "none")
=============================================================================
