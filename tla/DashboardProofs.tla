--------------------------- MODULE DashboardProofs ---------------------------
(***************************************************************************)
(* Theorems about the dashboard's page of a video, for any number of       *)
(* videos, of loads, uploads and deletes that overlap, of answers that are *)
(* lost and of visits.                                                     *)
(***************************************************************************)
EXTENDS Dashboard, TLAPS

(* A status that is not ahead of the video: an end only when the video has *)
(* come to it, and no progress it has not made.                            *)
Behind(status) ==
    /\ status \in Final => status = phase[Video]
    /\ status = "transcoding" => phase[Video] # "uploading"

UploadPlaces == {"none", "sent", "accepted", "refused"}

(* Every answer that is still on its way is as good as the one shown: it   *)
(* may arrive after a newer one.  And a video nobody has created has no    *)
(* page, so that no older answer can be ahead of its first status.         *)
AnswersBehind ==
    /\ phase[Video] \in Live =>
           Behind(shown) /\ \A l \in Loads : Behind(load[l])
    /\ phase[Video] = "none" => ~open /\ shown = "nothing"

PageInv == TypeOK /\ AnswersBehind

LEMMA PageStarts == Init => PageInv
<1>1. SUFFICES ASSUME Init PROVE PageInv
    OBVIOUS
<1>2. /\ phase \in [Videos -> Phases] /\ whole \subseteq Videos
      /\ phase[Video] = "none"
    BY <1>1, PageAssumption DEF Init, LifecycleInit, Phases
<1>3. /\ lost \in 0..MaxLost /\ visits \in 0..MaxVisits /\ removing \in 0..MaxDeletes
      /\ load \in [Loads -> Live \cup {"none", "asked", "missing"}]
      /\ \A l \in Loads : load[l] = "none"
    BY <1>1, PageAssumption DEF Init
<1>4. TypeOK
    BY <1>1, <1>2, <1>3 DEF Init, TypeOK, LifecycleTypeOK
<1>5. AnswersBehind
    BY <1>1, <1>2 DEF Init, AnswersBehind, Live
<1>6. QED
    BY <1>4, <1>5 DEF PageInv

-----------------------------------------------------------------------------
(* The life of the videos *)

(* A live video only gets further; one that is given up does not come back. *)
LEMMA PhaseMoves ==
    ASSUME LifecycleTypeOK, LifecycleNext
    PROVE  /\ LifecycleTypeOK'
           /\ phase'[Video] = "none" => phase[Video] = "none"
           /\ phase'[Video] \in Live =>
                  \/ phase'[Video] = phase[Video]
                  \/ phase[Video] = "none" /\ phase'[Video] = "uploading"
                  \/ phase[Video] = "uploading" /\ phase'[Video] = "transcoding"
                  \/ phase[Video] = "transcoding" /\ phase'[Video] \in Final
<1>1. PICK v \in Videos : \/ Create(v) \/ Accept(v) \/ Complete(v) \/ Publish(v) \/ Fail(v)
                          \/ Condemn(v) \/ Scrub(v) \/ Drop(v)
    BY DEF LifecycleNext
<1>2. Video \in Videos
    BY PageAssumption
<1>3. LifecycleTypeOK'
    BY <1>1
    DEF LifecycleTypeOK, Phases, Live, Become,
        Create, Accept, Complete, Publish, Fail, Condemn, Scrub, Drop
<1>4. CASE phase'[Video] = phase[Video]
    BY <1>3, <1>4
<1>5. CASE phase'[Video] # phase[Video]
  <2>1. v = Video
      BY <1>1, <1>2, <1>5
      DEF LifecycleTypeOK, Become,
          Create, Accept, Complete, Publish, Fail, Condemn, Scrub, Drop
  <2>2. QED
      BY <1>1, <1>2, <1>3, <1>5, <2>1
      DEF LifecycleTypeOK, Become, Live, Final,
          Create, Accept, Complete, Publish, Fail, Condemn, Scrub, Drop
<1>6. QED
    BY <1>4, <1>5

(* So what was not ahead of the video before is not ahead of it after. *)
LEMMA LifeGoesOn ==
    ASSUME PageInv, LifecycleNext,
           open' = open, shown' = shown, load' = load,
           removing' = removing, lost' = lost, visits' = visits,
           upload' \in [Files -> UploadPlaces],
           ~open => \A f \in Files : upload'[f] = "none"
    PROVE  PageInv'
<1>1. LifecycleTypeOK
    BY DEF PageInv, TypeOK
<1>2. TypeOK'
    BY <1>1, PhaseMoves DEF PageInv, TypeOK, UploadPlaces
<1>3. ASSUME NEW status, phase'[Video] \in Live, phase[Video] # "none",
             phase[Video] \in Live => Behind(status)
      PROVE  Behind(status)'
    BY <1>1, <1>3, PhaseMoves DEF Behind, Final, Live
<1>4. phase[Video] = "none" => \A l \in Loads : load[l] = "none"
    BY DEF PageInv, TypeOK, AnswersBehind
<1>5. AnswersBehind'
  <2>1. CASE phase[Video] = "none"
      BY <1>1, <1>4, <2>1, PhaseMoves DEF PageInv, AnswersBehind, Behind, Final
  <2>2. CASE phase[Video] # "none"
      BY <1>1, <1>3, <2>2, PhaseMoves DEF PageInv, AnswersBehind
  <2>3. QED
      BY <2>1, <2>2
<1>6. QED
    BY <1>2, <1>5 DEF PageInv

-----------------------------------------------------------------------------
(* The page *)

(* Steps of the page that leave the video alone: what is shown and every   *)
(* answer were there before, or say nothing of the video, or are an answer *)
(* it gives now.                                                           *)
LEMMA PageGoesOn ==
    ASSUME PageInv, TypeOK', UNCHANGED lifecycleVars,
           phase[Video] = "none" => ~open' /\ shown' = "nothing",
           \A status \in {shown'} \cup {load'[l] : l \in Loads} :
               \/ status \in {shown} \cup {load[l] : l \in Loads}
               \/ status \in {"none", "nothing", "asked", "missing"}
               \/ status \in Answers
    PROVE  PageInv'
<1>1. ASSUME NEW status \in {shown'} \cup {load'[l] : l \in Loads}, phase[Video] \in Live
      PROVE  Behind(status)
  <2>1. CASE status \in {shown} \cup {load[l] : l \in Loads}
      BY <1>1, <2>1 DEF PageInv, AnswersBehind
  <2>2. CASE status \in {"none", "nothing", "asked", "missing"}
      BY <2>2 DEF Behind, Final
  <2>3. CASE status \in Answers
      BY <1>1, <2>3 DEF Behind, Answers, Live
  <2>4. QED
      BY <2>1, <2>2, <2>3
<1>2. AnswersBehind'
    BY <1>1 DEF AnswersBehind, Behind, lifecycleVars
<1>3. QED
    BY <1>2 DEF PageInv

(* A step that only asks, answers or drops a load. *)
LEMMA LoadMoves ==
    ASSUME PageInv, NEW l \in Loads, NEW place, LoadGoes(l, place),
           place \in {"none", "asked", "missing"} \/ place \in Answers
    PROVE  /\ load' \in [Loads -> Live \cup {"none", "asked", "missing"}]
           /\ load'[l] = place
           /\ \A other \in Loads : other # l => load'[other] = load[other]
           /\ \A status \in {load'[other] : other \in Loads} :
                  status \in {load[other] : other \in Loads} \cup {place}
<1>1. Answers \subseteq Live \cup {"missing"}
    BY DEF Answers
<1>2. QED
    BY <1>1 DEF PageInv, TypeOK, LoadGoes

LEMMA OpenBehind == ASSUME PageInv, Open PROVE PageInv'
<1>1. PICK l \in Loads : LoadGoes(l, "asked")
    BY DEF Open, LoadVideo
<1>2. TypeOK'
  <2>1. /\ visits' \in 0..MaxVisits /\ lost' \in 0..MaxLost /\ removing' \in 0..MaxDeletes
      BY PageAssumption DEF PageInv, Open, TypeOK
  <2>2. load' \in [Loads -> Live \cup {"none", "asked", "missing"}]
      BY <1>1, LoadMoves
  <2>3. QED
      BY <2>1, <2>2 DEF PageInv, Open, TypeOK, LifecycleTypeOK, lifecycleVars, Blank
<1>3. QED
    BY <1>1, <1>2, LoadMoves, PageGoesOn DEF Open, Blank

LEMMA CloseBehind == ASSUME PageInv, Close \/ Leave PROVE PageInv'
<1>1. /\ ~open' /\ Blank /\ load' = [l \in Loads |-> "none"] /\ removing' \in 0..MaxDeletes
      /\ UNCHANGED <<lifecycleVars, lost, visits>>
    BY PageAssumption DEF PageInv, TypeOK, Close, Leave
<1>2. TypeOK'
    BY <1>1 DEF PageInv, Close, Leave, TypeOK, LifecycleTypeOK, lifecycleVars, Blank
<1>3. QED
    BY <1>1, <1>2, PageGoesOn DEF Blank

(* Steps that start a load, or none. *)
LEMMA AskBehind ==
    ASSUME PageInv, LoadVideo \/ UNCHANGED load, open,
           UNCHANGED <<lifecycleVars, open, shown, visits>>,
           upload' \in [Files -> UploadPlaces], removing' \in 0..MaxDeletes,
           lost' = lost \/ LoseOne
    PROVE  PageInv'
<1>1. CASE UNCHANGED load
  <2>1. TypeOK'
      BY <1>1, PageAssumption
      DEF PageInv, TypeOK, LifecycleTypeOK, lifecycleVars, LoseOne, UploadPlaces
  <2>2. QED
      BY <1>1, <2>1, PageGoesOn DEF PageInv, AnswersBehind
<1>2. CASE LoadVideo
  <2>1. PICK l \in Loads : LoadGoes(l, "asked")
      BY <1>2 DEF LoadVideo
  <2>2. TypeOK'
      BY <2>1, LoadMoves, PageAssumption
      DEF PageInv, TypeOK, LifecycleTypeOK, lifecycleVars, LoseOne, UploadPlaces
  <2>3. QED
      BY <2>1, <2>2, LoadMoves, PageGoesOn DEF PageInv, AnswersBehind
<1>3. QED
    BY <1>1, <1>2

LEMMA GetVideoBehind == ASSUME PageInv, NEW l \in Loads, GetVideo(l) PROVE PageInv'
<1>1. PICK answer \in Answers : LoadGoes(l, answer)
    BY DEF GetVideo
<1>2. open
    BY DEF PageInv, TypeOK, GetVideo
<1>3. TypeOK'
    BY <1>1, <1>2, LoadMoves DEF PageInv, GetVideo, TypeOK, LifecycleTypeOK, lifecycleVars
<1>4. QED
    BY <1>1, <1>3, LoadMoves, PageGoesOn DEF PageInv, AnswersBehind, GetVideo

LEMMA LoseBehind == ASSUME PageInv, NEW l \in Loads, Lose(l) PROVE PageInv'
<1>1. LoadGoes(l, "none") /\ open
    BY DEF PageInv, TypeOK, Lose
<1>2. TypeOK'
    BY <1>1, LoadMoves, PageAssumption
    DEF PageInv, Lose, LoseOne, TypeOK, LifecycleTypeOK, lifecycleVars
<1>3. QED
    BY <1>1, <1>2, LoadMoves, PageGoesOn DEF PageInv, AnswersBehind, Lose

LEMMA SetVideoBehind == ASSUME PageInv, NEW l \in Loads, SetVideo(l) PROVE PageInv'
<1>1. LoadGoes(l, "none") /\ open
    BY DEF PageInv, TypeOK, SetVideo, Live
<1>2. shown' \in {shown, load[l]} /\ shown' \in Live \cup {"nothing"}
    BY DEF PageInv, TypeOK, SetVideo
<1>3. TypeOK'
    BY <1>1, <1>2, LoadMoves DEF PageInv, SetVideo, TypeOK, LifecycleTypeOK, lifecycleVars
<1>4. QED
    BY <1>1, <1>2, <1>3, LoadMoves, PageGoesOn DEF PageInv, AnswersBehind, SetVideo

LEMMA AcceptBehind == ASSUME PageInv, NEW f \in Files, AcceptUpload(f) PROVE PageInv'
<1>1. LifecycleNext /\ open
    BY PageAssumption DEF AcceptUpload, LifecycleNext, PageInv, TypeOK
<1>2. upload' \in [Files -> UploadPlaces]
    BY DEF PageInv, TypeOK, AcceptUpload, UploadGoes, UploadPlaces
<1>3. QED
    BY <1>1, <1>2, LifeGoesOn DEF AcceptUpload

(* Steps of an upload other than its acceptance. *)
LEMMA UploadBehind ==
    ASSUME PageInv, NEW f \in Files, ChooseFile(f) \/ RefuseUpload(f) \/ EndUpload(f)
    PROVE  PageInv'
<1>1. open /\ removing' \in 0..MaxDeletes
    BY DEF PageInv, TypeOK, ChooseFile, RefuseUpload, EndUpload
<1>2. upload' \in [Files -> UploadPlaces]
    BY DEF PageInv, TypeOK, ChooseFile, RefuseUpload, EndUpload, UploadGoes, UploadPlaces
<1>3. QED
    BY <1>1, <1>2, AskBehind DEF ChooseFile, RefuseUpload, EndUpload

LEMMA AskDeleteBehind == ASSUME PageInv, AskDelete PROVE PageInv'
<1>1. upload' \in [Files -> UploadPlaces] /\ removing' \in 0..MaxDeletes
    BY PageAssumption DEF PageInv, TypeOK, AskDelete, UploadPlaces
<1>2. QED
    BY <1>1, AskBehind DEF AskDelete

(* Also when the page is gone. *)
LEMMA DeleteFailsBehind == ASSUME PageInv, DeleteFails PROVE PageInv'
<1>1. TypeOK'
    BY PageAssumption DEF PageInv, TypeOK, DeleteFails, LifecycleTypeOK, lifecycleVars
<1>2. QED
    BY <1>1, PageGoesOn DEF PageInv, AnswersBehind, DeleteFails

LEMMA PageSteps == PageInv /\ [Next]_vars => PageInv'
<1>1. SUFFICES ASSUME PageInv, [Next]_vars PROVE PageInv'
    OBVIOUS
<1>2. /\ upload \in [Files -> UploadPlaces] /\ removing \in 0..MaxDeletes
      /\ ~open => \A f \in Files : upload[f] = "none"
    BY <1>1 DEF PageInv, TypeOK, UploadPlaces
<1>3. CASE Open
    BY <1>1, <1>3, OpenBehind
<1>4. CASE Close \/ Leave
    BY <1>1, <1>4, CloseBehind
<1>5. CASE \E l \in Loads : GetVideo(l) \/ Lose(l) \/ SetVideo(l)
    BY <1>1, <1>5, GetVideoBehind, LoseBehind, SetVideoBehind
<1>6. CASE Poll
    BY <1>1, <1>2, <1>6, AskBehind DEF Poll, Polls
<1>7. CASE \E f \in Files : ChooseFile(f) \/ AcceptUpload(f) \/ RefuseUpload(f) \/ EndUpload(f)
    BY <1>1, <1>7, AcceptBehind, UploadBehind
<1>8. CASE AskDelete
    BY <1>1, <1>8, AskDeleteBehind
<1>9. CASE DeleteFails
    BY <1>1, <1>9, DeleteFailsBehind
<1>10. CASE Elsewhere
    BY <1>1, <1>2, <1>10, LifeGoesOn DEF Elsewhere, pageVars
<1>11. CASE UNCHANGED vars
  <2>1. TypeOK'
      BY <1>1, <1>11 DEF PageInv, TypeOK, LifecycleTypeOK, vars, lifecycleVars, pageVars
  <2>2. QED
      BY <1>1, <1>11, <2>1, PageGoesOn DEF PageInv, AnswersBehind, vars, pageVars
<1>12. QED
    BY <1>1, <1>3, <1>4, <1>5, <1>6, <1>7, <1>8, <1>9, <1>10, <1>11 DEF Next, Page

(* Whatever a load was answered was so by then: SetVideo never finds an    *)
(* answer that is ahead of the video (VideoDetailPage.tsx:20-48).          *)
THEOREM PageInvariant == Spec => []PageInv
    BY PageStarts, PageSteps, PTL DEF Spec

(* Every variable keeps its type; in particular nothing is outstanding for *)
(* a page that is gone (VideoDetailPage.tsx:26-92).                        *)
THEOREM PageTypeCorrect == Spec => []TypeOK
<1>1. PageInv => TypeOK
    BY DEF PageInv
<1>2. QED
    BY <1>1, PageInvariant, PTL

(* What the page shows is never ahead of the video, in whichever order the *)
(* answers to its loads come and however many are lost                     *)
(* (VideoDetailPage.tsx:26, 72-92).                                        *)
THEOREM PageNotAhead == Spec => []NotAhead
<1>1. PageInv => NotAhead
    BY DEF PageInv, AnswersBehind, Behind, NotAhead
<1>2. QED
    BY <1>1, PageInvariant, PTL
=============================================================================
