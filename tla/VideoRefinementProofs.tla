------------------------- MODULE VideoRefinementProofs ------------------------
(***************************************************************************)
(* VideoPipeline implements the safety part of VideoLifecycle when videos  *)
(* do not get in each other's way: one upload request each, and no prefix  *)
(* that covers another's keys.                                             *)
(***************************************************************************)
EXTENDS VideoPublishProofs

(* With "dbReply" a video can be ready and then failed, by the same job. *)
Separate ==
    /\ \A u, x \in Uploads : UploadOf[u] = UploadOf[x] => u = x
    /\ \A v, x \in Videos : PrefixCovers(v, x) <=> v = x
    /\ "dbReply" \notin Faults

-----------------------------------------------------------------------------
(* A step seen from VideoLifecycle, at the one video it is about. *)
VideoStep(v) ==
    \/ Phase(v)' = Phase(v) /\ (Whole(v)' <=> Whole(v))
    \/ Phase(v) = "none" /\ Phase(v)' = "uploading" /\ (Whole(v)' <=> Whole(v))
    \/ Phase(v) = "uploading" /\ Phase(v)' = "transcoding" /\ (Whole(v)' <=> Whole(v))
    \/ Phase(v) = "transcoding" /\ Phase(v)' = "transcoding" /\ Whole(v)'
    \/ Phase(v) = "transcoding" /\ Phase(v)' = "ready" /\ Whole(v) /\ Whole(v)'
    \/ Phase(v) = "transcoding" /\ Phase(v)' = "failed" /\ (Whole(v)' <=> Whole(v))
    \/ Phase(v) \in {"uploading", "transcoding", "ready", "failed"} /\ Phase(v)' = "condemned"
       /\ (Whole(v)' <=> Whole(v))
    \/ Phase(v) \in {"condemned", "deleted"} /\ Phase(v)' = Phase(v)
    \/ Phase(v) = "condemned" /\ Phase(v)' = "deleted"

Others(v) == \A x \in Videos \ {v} : Phase(x)' = Phase(x) /\ (Whole(x)' <=> Whole(x))

(* Such a step is one of VideoLifecycle, or a stutter. *)
LEMMA StepsOfLifecycle ==
    ASSUME NEW v \in Videos, Others(v), VideoStep(v)
    PROVE  [Lifecycle!LifecycleNext]_(Lifecycle!lifecycleVars)
<1> DEFINE phase == [x \in Videos |-> Phase(x)]
           whole == {x \in Videos : Whole(x)}
<1>1. phase' = [phase EXCEPT ![v] = Phase(v)']
    BY DEF Others
<1>2. phase[v] = Phase(v) /\ (v \in whole <=> Whole(v))
    OBVIOUS
<1>3. whole' = IF Whole(v)' THEN whole \cup {v} ELSE whole \ {v}
    BY DEF Others
<1>4. (Whole(v)' <=> Whole(v)) => whole' = whole
    BY <1>2, <1>3
<1>5. Phase(v)' = Phase(v) => phase' = phase
    BY <1>1, <1>2
<1>6. QED
  <2> USE <1>1, <1>2, <1>3, <1>4, <1>5
      DEF Lifecycle!LifecycleNext, Lifecycle!lifecycleVars, Lifecycle!Become, Lifecycle!Live
  <2>1. CASE Phase(v)' = Phase(v) /\ (Whole(v)' <=> Whole(v))
      BY <2>1
  <2>2. CASE Phase(v) = "none" /\ Phase(v)' = "uploading" /\ (Whole(v)' <=> Whole(v))
      BY <2>2 DEF Lifecycle!Create
  <2>3. CASE Phase(v) = "uploading" /\ Phase(v)' = "transcoding" /\ (Whole(v)' <=> Whole(v))
      BY <2>3 DEF Lifecycle!Accept
  <2>4. CASE Phase(v) = "transcoding" /\ Phase(v)' = "transcoding" /\ Whole(v)'
      BY <2>4 DEF Lifecycle!Complete
  <2>5. CASE Phase(v) = "transcoding" /\ Phase(v)' = "ready" /\ Whole(v) /\ Whole(v)'
      BY <2>5 DEF Lifecycle!Publish
  <2>6. CASE Phase(v) = "transcoding" /\ Phase(v)' = "failed" /\ (Whole(v)' <=> Whole(v))
      BY <2>6 DEF Lifecycle!Fail
  <2>7. CASE Phase(v) \in {"uploading", "transcoding", "ready", "failed"}
             /\ Phase(v)' = "condemned" /\ (Whole(v)' <=> Whole(v))
      BY <2>7 DEF Lifecycle!Condemn
  <2>8. CASE Phase(v) \in {"condemned", "deleted"} /\ Phase(v)' = Phase(v)
      BY <2>8 DEF Lifecycle!Scrub
  <2>9. CASE Phase(v) = "condemned" /\ Phase(v)' = "deleted"
      BY <2>9 DEF Lifecycle!Drop
  <2>10. QED
      BY <2>1, <2>2, <2>3, <2>4, <2>5, <2>6, <2>7, <2>8, <2>9 DEF VideoStep

-----------------------------------------------------------------------------
(* Where a video stands while a request or a job is at it. *)
UploadStage ==
    \A u \in Uploads : up[u] \in {"checked", "copying", "saved"} =>
                          status[UploadOf[u]] \in {"uploading", "deleted"}

JobStage ==
    \A u \in Uploads : Pending(u) => status[UploadOf[u]] \in {"transcoding", "deleted"}

DeleteStage ==
    \A d \in Deletes : del[d] \notin {"idle", "rejected"} => status[DeleteOf[d]] # "none"

(* Objects lie under the video they were uploaded to. *)
OwnObjects ==
    \A v \in Videos, n \in Names : bucket[v][n] # NoUpload => UploadOf[bucket[v][n]] = v

ThumbnailSaved == \A v \in Videos : v \in thumbKey => status[v] = "ready"

StageInv == UploadStage /\ JobStage /\ DeleteStage

LifeInv == Separate /\ StageInv /\ OwnObjects /\ ThumbnailSaved

Context == TypeInv /\ HolderInv /\ PlaylistInv /\ LifeInv

(* The steps that change a status. *)
LEMMA StatusStep ==
    ASSUME TypeInv, Separate, [Next]_vars, NEW v \in Videos, status'[v] # status[v]
    PROVE  \/ CreateVideo(v) /\ status[v] = "none" /\ status'[v] = "uploading"
           \/ \E u \in Uploads : UploadOf[u] = v /\ RecordUpload(u) /\ status'[v] = "transcoding"
           \/ \E w \in Workers :
                 /\ pc[w] # "cleanup" /\ job[w] \in Uploads /\ UploadOf[job[w]] = v
                 /\ (MarkReady(w) /\ status'[v] = "ready") \/ (MarkFailed(w) /\ status'[v] = "failed")
           \/ \E d \in Deletes : DeleteOf[d] = v /\ DeleteRow(d) /\ status'[v] = "deleted"
<1> USE DEF TypeInv, TypeOK, rows, SetStatus
<1>1. ASSUME NEW x \in Videos, CreateVideo(x)
      PROVE  CreateVideo(v) /\ status[v] = "none" /\ status'[v] = "uploading"
    BY <1>1 DEF CreateVideo
<1>2. ASSUME NEW u \in Uploads, UploadStep(u)
      PROVE  UploadOf[u] = v /\ RecordUpload(u) /\ status'[v] = "transcoding"
    BY <1>2, RequestAssumption DEF UploadStep, FinishUpload, CheckUpload, RejectBody, CreateTemp, CopyBody,
                CopyFails, RecordUpload, RecordFails, EnqueueJob, Separate
<1>3. ASSUME NEW w \in Workers, WorkerStep(w)
      PROVE  /\ pc[w] # "cleanup" /\ job[w] \in Uploads /\ UploadOf[job[w]] = v
             /\ (MarkReady(w) /\ status'[v] = "ready") \/ (MarkFailed(w) /\ status'[v] = "failed")
  <2>1. MarkReady(w) \/ MarkFailed(w)
      BY <1>3 DEF WorkerStep, TakeJob, Transcode, PutThumbnail, SkipThumbnail, PutNext, PutFails,
                  MarkReadyFails, RemoveSource, Separate
  <2>2. pc[w] # "cleanup" /\ job[w] \in Uploads /\ UploadOf[job[w]] \in Videos
      BY <2>1, RequestAssumption DEF MarkReady, MarkFailed, WorkerHasJob
  <2>3. CASE MarkReady(w)
      BY <2>2, <2>3 DEF MarkReady, SaveReady
  <2>4. CASE MarkFailed(w)
      BY <2>2, <2>4 DEF MarkFailed
  <2>5. QED
      BY <2>1, <2>2, <2>3, <2>4
<1>4. ASSUME NEW d \in Deletes, DeleteStep(d)
      PROVE  DeleteOf[d] = v /\ DeleteRow(d) /\ status'[v] = "deleted"
    BY <1>4, RequestAssumption DEF DeleteStep, FinishDelete, CheckDelete, ListKeys, DeleteKey, PurgeFails,
                DeleteRow, DeleteRowFails
<1>5. ~Crash /\ ~UNCHANGED vars
    BY DEF Crash, vars
<1>6. QED
    BY <1>1, <1>2, <1>3, <1>4, <1>5 DEF Next, AtRest

(* An upload has a job to be done from the record on. *)
LEMMA PendingStep ==
    ASSUME TypeInv, [Next]_vars, NEW u \in Uploads, Pending(u)'
    PROVE  Pending(u) \/ RecordUpload(u)
<1> USE DEF TypeInv, TypeOK, Pending, InQueue, UploadGoes, WorkerGoes
<1>1. CASE UNCHANGED <<up, queue, workers>>
    BY <1>1 DEF workers
<1>2. ASSUME NEW v \in Videos, CreateVideo(v) PROVE UNCHANGED <<up, queue, workers>>
    BY <1>2 DEF CreateVideo
<1>3. ASSUME NEW d \in Deletes, DeleteStep(d) PROVE UNCHANGED <<up, queue, workers>>
    BY <1>3 DEF DeleteStep, FinishDelete, CheckDelete, ListKeys, DeleteKey, PurgeFails, DeleteRow,
                DeleteRowFails
<1>4. ASSUME NEW x \in Uploads, UploadStep(x) PROVE Pending(u) \/ RecordUpload(u)
  <2>1. CASE EnqueueJob(x)
    <3>1. up[x] = "recorded" /\ queue' = Append(queue, x) /\ UNCHANGED workers
          /\ up' = [up EXCEPT ![x] = "done"]
        BY <2>1 DEF EnqueueJob
    <3>2. \A i \in DOMAIN queue' : (i \in DOMAIN queue /\ queue'[i] = queue[i]) \/ queue'[i] = x
        BY <3>1
    <3>3. QED
        BY <3>1, <3>2 DEF workers
  <2>2. CASE ~EnqueueJob(x)
      BY <1>4, <2>2 DEF UploadStep, FinishUpload, CheckUpload, RejectBody, CreateTemp, CopyBody, CopyFails,
                        RecordUpload, RecordFails, workers
  <2>3. QED
      BY <2>1, <2>2
<1>5. ASSUME NEW w \in Workers, WorkerStep(w) PROVE Pending(u)
  <2>1. CASE TakeJob(w)
    <3>1. /\ queue # <<>> /\ queue' = Tail(queue) /\ job' = [job EXCEPT ![w] = queue[1]]
          /\ UNCHANGED up /\ \A x \in Workers : x # w => pc'[x] = pc[x]
        BY <2>1 DEF TakeJob
    <3>2. 1 \in DOMAIN queue /\ \A i \in DOMAIN queue' : i + 1 \in DOMAIN queue /\ queue'[i] = queue[i + 1]
        BY <3>1
    <3>3. QED
        BY <3>1, <3>2
  <2>2. CASE ~TakeJob(w)
    <3>1. /\ UNCHANGED <<up, queue>>
          /\ \A x \in Workers : job'[x] = u => job[x] = u /\ (pc[x] = "cleanup" => pc'[x] = "cleanup")
        BY <1>5, <2>2, RequestAssumption DEF WorkerStep, Transcode, PutThumbnail, SkipThumbnail, PutNext, PutFails,
                    MarkReady, MarkReadyFails, MarkFailed, RemoveSource
    <3>2. QED
        BY <3>1
  <2>3. QED
      BY <2>1, <2>2
<1>6. ~Crash
  <2>1. SUFFICES ASSUME Crash PROVE FALSE
      OBVIOUS
  <2>2. queue' = <<>> /\ up'[u] # "recorded" /\ \A w \in Workers : job'[w] = NoUpload
      BY <2>1 DEF Crash
  <2>3. QED
      BY <2>2, RequestAssumption
<1>7. UNCHANGED vars => UNCHANGED <<up, queue, workers>>
    BY DEF vars
<1>8. QED
    BY <1>1, <1>2, <1>3, <1>4, <1>5, <1>6, <1>7 DEF Next, AtRest

(* An upload is under way from the check of the status on. *)
LEMMA UnderWayStep ==
    ASSUME TypeInv, [Next]_vars, NEW u \in Uploads, up'[u] \in {"checked", "copying", "saved"}
    PROVE  \/ up[u] \in {"checked", "copying", "saved"} /\ ~RecordUpload(u)
           \/ status[UploadOf[u]] = "uploading" /\ UNCHANGED status
<1> USE DEF TypeInv, TypeOK, UploadGoes
<1>1. CASE UNCHANGED up
    BY <1>1 DEF RecordUpload
<1>2. ASSUME NEW x \in Uploads, UploadStep(x)
      PROVE  \/ up[u] \in {"checked", "copying", "saved"} /\ ~RecordUpload(u)
             \/ status[UploadOf[u]] = "uploading" /\ UNCHANGED status
    BY <1>2 DEF UploadStep, FinishUpload, CheckUpload, RejectBody, CreateTemp, CopyBody, CopyFails,
                RecordUpload, RecordFails, EnqueueJob, rows
<1>3. ASSUME NEW v \in Videos, CreateVideo(v) PROVE UNCHANGED up
    BY <1>3 DEF CreateVideo
<1>4. ASSUME NEW d \in Deletes, DeleteStep(d) PROVE UNCHANGED up
    BY <1>4 DEF DeleteStep, FinishDelete, CheckDelete, ListKeys, DeleteKey, PurgeFails, DeleteRow,
                DeleteRowFails
<1>5. ASSUME NEW w \in Workers, WorkerStep(w) PROVE UNCHANGED up
    BY <1>5 DEF WorkerStep, TakeJob, Transcode, PutThumbnail, SkipThumbnail, PutNext, PutFails,
                MarkReady, MarkReadyFails, MarkFailed, RemoveSource
<1>6. ~Crash
    BY DEF Crash
<1>7. UNCHANGED vars => UNCHANGED up
    BY DEF vars
<1>8. QED
    BY <1>1, <1>2, <1>3, <1>4, <1>5, <1>6, <1>7 DEF Next, AtRest

-----------------------------------------------------------------------------
LEMMA UploadStageStep == Context /\ [Next]_vars => UploadStage'
<1> SUFFICES ASSUME Context, [Next]_vars, NEW u \in Uploads, up'[u] \in {"checked", "copying", "saved"}
             PROVE  status'[UploadOf[u]] \in {"uploading", "deleted"}
    BY DEF UploadStage
<1> USE DEF Context, LifeInv, StageInv
<1>1. CASE status'[UploadOf[u]] = status[UploadOf[u]]
    BY <1>1, UnderWayStep DEF UploadStage
<1>2. CASE status'[UploadOf[u]] # status[UploadOf[u]]
  <2>1. up[u] \in {"checked", "copying", "saved"} /\ ~RecordUpload(u)
      BY <1>2, UnderWayStep
  <2>2. UploadOf[u] \in Videos
      BY RequestAssumption
  <2>3. \A x \in Uploads : UploadOf[x] = UploadOf[u] => x = u
      BY DEF Separate
  <2>4. \A w \in Workers : job[w] # u
      BY <2>1 DEF HolderInv, JobHeldOnce, InWorker
  <2>5. status'[UploadOf[u]] \in {"uploading", "deleted"}
      BY <1>2, <2>1, <2>2, <2>3, <2>4, StatusStep
  <2>6. QED
      BY <2>5
<1>3. QED
    BY <1>1, <1>2

LEMMA JobStageStep == Context /\ [Next]_vars => JobStage'
<1> SUFFICES ASSUME Context, [Next]_vars, NEW u \in Uploads, Pending(u)'
             PROVE  status'[UploadOf[u]] \in {"transcoding", "deleted"}
    BY DEF JobStage
<1> USE DEF Context, LifeInv, StageInv
<1>1. UploadOf[u] \in Videos
    BY RequestAssumption
<1>2. CASE RecordUpload(u)
  <2>1. status[UploadOf[u]] \in {"uploading", "deleted"} /\ SetStatus(UploadOf[u], "transcoding")
      BY <1>2 DEF RecordUpload, UploadStage
  <2>2. QED
      BY <1>1, <2>1 DEF SetStatus, HasRow, TypeInv, TypeOK
<1>3. CASE Pending(u) /\ status'[UploadOf[u]] = status[UploadOf[u]]
    BY <1>3 DEF JobStage
<1>4. CASE Pending(u) /\ status'[UploadOf[u]] # status[UploadOf[u]]
  <2>1. status[UploadOf[u]] \in {"transcoding", "deleted"}
      BY <1>4 DEF JobStage
  <2>2. ASSUME NEW w \in Workers, job[w] = u, pc[w] # "cleanup", MarkReady(w) \/ MarkFailed(w)
        PROVE  FALSE
    <3>1. UNCHANGED <<up, queue, job>> /\ pc'[w] = "cleanup"
        BY <2>2 DEF MarkReady, MarkFailed, WorkerGoes, TypeInv, TypeOK
    <3>2. up[u] = "done" /\ ~InQueue(u) /\ \A x \in Workers : job[x] = u => x = w
        BY <2>2, RequestAssumption DEF HolderInv, JobHeldOnce, InWorker
    <3>3. QED
        BY <3>1, <3>2 DEF Pending, InQueue
  <2>3. \A x \in Uploads : UploadOf[x] = UploadOf[u] => x = u
      BY DEF Separate
  <2>4. status'[UploadOf[u]] \in {"transcoding", "deleted"}
      BY <1>1, <1>4, <2>1, <2>2, <2>3, StatusStep
  <2>5. QED
      BY <2>4
<1>5. QED
    BY <1>2, <1>3, <1>4, PendingStep

LEMMA DeleteStageStep == Context /\ [Next]_vars => DeleteStage'
<1> SUFFICES ASSUME Context, [Next]_vars, NEW d \in Deletes, del'[d] \notin {"idle", "rejected"}
             PROVE  status'[DeleteOf[d]] # "none"
    BY DEF DeleteStage
<1> USE DEF Context, LifeInv, StageInv
<1>1. DeleteOf[d] \in Videos
    BY RequestAssumption
<1>2. status[DeleteOf[d]] # "none" => status'[DeleteOf[d]] # "none"
    BY <1>1, StatusStep
<1>3. CASE del[d] \notin {"idle", "rejected"}
    BY <1>2, <1>3 DEF DeleteStage
<1>4. CASE del[d] \in {"idle", "rejected"}
  <2>1. HasRow(DeleteOf[d])
    <3> USE DEF TypeInv, TypeOK
    <3>1. ASSUME NEW x \in Deletes, DeleteStep(x) PROVE HasRow(DeleteOf[d])
        BY <1>4, <3>1 DEF DeleteStep, FinishDelete, CheckDelete, ListKeys, DeleteKey, PurgeFails, DeleteRow,
                          DeleteRowFails, DeleteGoes
    <3>2. ASSUME NEW v \in Videos, CreateVideo(v) PROVE FALSE
        BY <1>4, <3>2 DEF CreateVideo, deletes
    <3>3. ASSUME NEW u \in Uploads, UploadStep(u) PROVE FALSE
        BY <1>4, <3>3 DEF UploadStep, FinishUpload, CheckUpload, RejectBody, CreateTemp, CopyBody,
                          CopyFails, RecordUpload, RecordFails, EnqueueJob, deletes
    <3>4. ASSUME NEW w \in Workers, WorkerStep(w) PROVE FALSE
        BY <1>4, <3>4 DEF WorkerStep, TakeJob, Transcode, PutThumbnail, SkipThumbnail, PutNext, PutFails,
                          MarkReady, MarkReadyFails, MarkFailed, RemoveSource, deletes
    <3>5. ~Crash /\ ~UNCHANGED vars
        BY <1>4 DEF Crash, vars, deletes
    <3>6. QED
        BY <3>1, <3>2, <3>3, <3>4, <3>5 DEF Next, AtRest
  <2>2. QED
      BY <1>2, <2>1 DEF HasRow
<1>5. QED
    BY <1>3, <1>4

(* A step of the bucket puts under the job's video, or deletes.            *)
LEMMA ObjectStep ==
    ASSUME TypeInv, [Next]_vars
    PROVE  \/ UNCHANGED bucket
           \/ \E w \in Workers, n \in Names :
                 /\ pc[w] \in {"thumbnail", "putting"} /\ job[w] \in Uploads /\ Put(job[w], n)
                 /\ UNCHANGED <<rows, del>>
           \/ \E d \in Deletes : DeleteKey(d)
<1>1. ASSUME NEW d \in Deletes, DeleteStep(d) PROVE DeleteKey(d) \/ UNCHANGED bucket
    BY <1>1 DEF DeleteStep, FinishDelete, CheckDelete, ListKeys, PurgeFails, DeleteRow, DeleteRowFails
<1>2. ASSUME NEW w \in Workers, WorkerStep(w), bucket' # bucket
      PROVE  \E n \in Names : /\ pc[w] \in {"thumbnail", "putting"} /\ job[w] \in Uploads
                               /\ Put(job[w], n) /\ UNCHANGED <<rows, del>>
  <2>1. PutThumbnail(w) \/ SkipThumbnail(w) \/ PutNext(w) \/ PutFails(w)
      BY <1>2 DEF WorkerStep, TakeJob, Transcode, MarkReady, MarkReadyFails, MarkFailed, RemoveSource
  <2>2. pc[w] \in {"thumbnail", "putting"} /\ UNCHANGED <<rows, del>>
      BY <2>1 DEF PutThumbnail, SkipThumbnail, PutNext, PutFails, deletes
  <2>3. job[w] \in Uploads
      BY <2>2 DEF TypeInv, WorkerHasJob
  <2>4. CASE PutThumbnail(w) \/ SkipThumbnail(w)
      BY <1>2, <2>2, <2>3, <2>4, OrderShape DEF PutThumbnail, SkipThumbnail
  <2>5. CASE PutNext(w) \/ PutFails(w)
    <3>1. Put(job[w], UploadOrder[sent[w] + 1]) /\ sent[w] < Len(UploadOrder)
        BY <1>2, <2>5 DEF PutNext, PutFails
    <3>2. sent[w] + 1 \in 1..Len(UploadOrder)
        BY <3>1, OrderShape DEF TypeInv, TypeOK
    <3>3. UploadOrder[sent[w] + 1] \in Names
        BY <3>2, OrderShape
    <3>4. QED
        BY <2>2, <2>3, <3>1, <3>3
  <2>6. QED
      BY <2>1, <2>4, <2>5
<1>3. ASSUME NEW x \in Videos, CreateVideo(x) PROVE UNCHANGED bucket
    BY <1>3 DEF CreateVideo
<1>4. ASSUME NEW u \in Uploads, UploadStep(u) PROVE UNCHANGED bucket
    BY <1>4 DEF UploadStep, FinishUpload, CheckUpload, RejectBody, CreateTemp, CopyBody, CopyFails,
                RecordUpload, RecordFails, EnqueueJob
<1>5. Crash \/ UNCHANGED vars => UNCHANGED bucket
    BY DEF Crash, vars
<1>6. QED
    BY <1>1, <1>2, <1>3, <1>4, <1>5 DEF Next, AtRest

LEMMA OwnObjectsStep == Context /\ [Next]_vars => OwnObjects'
<1> SUFFICES ASSUME Context, [Next]_vars PROVE OwnObjects'
    OBVIOUS
<1> USE DEF Context, LifeInv, OwnObjects, TypeInv, TypeOK
<1>1. CASE UNCHANGED bucket
    BY <1>1
<1>2. ASSUME NEW u \in Uploads, NEW n \in Names, Put(u, n) PROVE OwnObjects'
  <2>1. /\ \A v \in Videos : v # UploadOf[u] => bucket'[v] = bucket[v]
        /\ \A m \in Names : bucket'[UploadOf[u]][m] = IF m = n THEN u ELSE bucket[UploadOf[u]][m]
      BY <1>2, PutEffect
  <2>2. ASSUME NEW v \in Videos, NEW m \in Names, bucket'[v][m] # NoUpload
        PROVE  UploadOf[bucket'[v][m]] = v
    <3>1. CASE v # UploadOf[u]
        BY <2>1, <2>2, <3>1
    <3>2. CASE v = UploadOf[u] /\ m = n
        BY <2>1, <3>2
    <3>3. CASE v = UploadOf[u] /\ m # n
      <4>1. bucket'[v][m] = bucket[v][m]
          BY <2>1, <3>3
      <4>2. QED
          BY <2>2, <4>1
    <3>4. QED
        BY <3>1, <3>2, <3>3
  <2>3. QED
      BY <2>2
<1>3. ASSUME NEW d \in Deletes, DeleteKey(d) PROVE OwnObjects'
    BY <1>3 DEF DeleteKey
<1>4. QED
    BY <1>1, <1>2, <1>3, ObjectStep

(* A row gets a thumbnail with the status ready, and keeps it with that.   *)
LEMMA ThumbnailStep == Context /\ [Next]_vars => ThumbnailSaved'
<1> SUFFICES ASSUME Context, [Next]_vars, NEW v \in Videos, v \in thumbKey'
             PROVE  status'[v] = "ready"
    BY DEF ThumbnailSaved
<1> USE DEF Context, LifeInv, StageInv
<1>1. CASE v \notin thumbKey
  <2> USE DEF TypeInv, TypeOK, rows
  <2>1. ASSUME NEW x \in Videos, CreateVideo(x) PROVE FALSE
      BY <1>1, <2>1 DEF CreateVideo
  <2>2. ASSUME NEW u \in Uploads, UploadStep(u) PROVE FALSE
      BY <1>1, <2>2 DEF UploadStep, FinishUpload, CheckUpload, RejectBody, CreateTemp, CopyBody, CopyFails,
                        RecordUpload, RecordFails, EnqueueJob
  <2>3. ASSUME NEW d \in Deletes, DeleteStep(d) PROVE FALSE
      BY <1>1, <2>3 DEF DeleteStep, FinishDelete, CheckDelete, ListKeys, DeleteKey, PurgeFails, DeleteRow,
                        DeleteRowFails
  <2>4. ASSUME NEW w \in Workers, WorkerStep(w) PROVE status'[v] = "ready"
    <3>1. MarkReady(w)
        BY <1>1, <2>4 DEF WorkerStep, TakeJob, Transcode, PutThumbnail, SkipThumbnail, PutNext, PutFails,
                          MarkReadyFails, MarkFailed, RemoveSource, Separate
    <3>2. QED
        BY <1>1, <3>1 DEF MarkReady, SaveReady, SetStatus
  <2>5. ~Crash /\ ~UNCHANGED vars
      BY <1>1 DEF Crash, vars
  <2>6. QED
      BY <2>1, <2>2, <2>3, <2>4, <2>5 DEF Next, AtRest
<1>2. CASE v \in thumbKey /\ status'[v] = status[v]
    BY <1>2 DEF ThumbnailSaved
<1>3. CASE v \in thumbKey /\ status'[v] # status[v]
  <2>1. status[v] = "ready"
      BY <1>3 DEF ThumbnailSaved
  <2>2. ASSUME NEW u \in Uploads, UploadOf[u] = v, RecordUpload(u) PROVE FALSE
      BY <2>1, <2>2 DEF RecordUpload, UploadStage
  <2>3. ASSUME NEW w \in Workers, job[w] \in Uploads, pc[w] # "cleanup", UploadOf[job[w]] = v PROVE FALSE
      BY <2>1, <2>3 DEF Pending, JobStage
  <2>4. ASSUME NEW d \in Deletes, DeleteOf[d] = v, DeleteRow(d) PROVE FALSE
      BY <2>4 DEF DeleteRow
  <2>5. QED
      BY <1>3, <2>1, <2>2, <2>3, <2>4, StatusStep
<1>4. QED
    BY <1>1, <1>2, <1>3

LEMMA LifeInit == Separate /\ Init => LifeInv
<1> SUFFICES ASSUME Separate, Init PROVE LifeInv
    OBVIOUS
<1>1. DOMAIN queue = {}
    BY DEF Init
<1>2. JobStage
    BY <1>1, RequestAssumption DEF Init, JobStage, Pending, InQueue
<1>3. UploadStage /\ DeleteStage /\ OwnObjects /\ ThumbnailSaved
    BY DEF Init, UploadStage, DeleteStage, OwnObjects, ThumbnailSaved
<1>4. QED
    BY <1>2, <1>3 DEF LifeInv, StageInv

LEMMA LifeStep == Context /\ [Next]_vars => LifeInv'
BY UploadStageStep, JobStageStep, DeleteStageStep, OwnObjectsStep, ThumbnailStep
   DEF LifeInv, StageInv, Separate, Context, PrefixCovers

-----------------------------------------------------------------------------
(* The steps of the pipeline, seen from VideoLifecycle. *)
LifecycleStep == [Lifecycle!LifecycleNext]_(Lifecycle!lifecycleVars)

(* A video none of whose parts changes looks the same. *)
LEMMA SeenAlike ==
    ASSUME NEW v, status'[v] = status[v], bucket'[v] = bucket[v], v \in thumbKey' <=> v \in thumbKey,
           Condemned(v)' <=> Condemned(v)
    PROVE  Phase(v)' = Phase(v) /\ (Whole(v)' <=> Whole(v))
BY DEF Phase, HasRow, Whole

LEMMA SeenStutter ==
    ASSUME UNCHANGED <<rows, bucket>>, \A v \in Videos : Condemned(v)' <=> Condemned(v)
    PROVE  LifecycleStep
<1>1. \A v \in Videos : Phase(v)' = Phase(v) /\ (Whole(v)' <=> Whole(v))
    BY SeenAlike DEF rows
<1>2. UNCHANGED Lifecycle!lifecycleVars
    BY <1>1 DEF Lifecycle!lifecycleVars
<1>3. QED
    BY <1>2 DEF LifecycleStep

LEMMA SameDeletes == UNCHANGED del => \A v \in Videos : Condemned(v)' <=> Condemned(v)
BY DEF Condemned

(* The deletes that condemn a video are those that disturb it. *)
LEMMA NotCondemned ==
    ASSUME TypeInv, Separate, NEW v \in Videos, ~Condemned(v)
    PROVE  Undisturbed(v) /\ AcceptedOnce(v)
<1>1. AcceptedOnce(v)
    BY DEF Separate, AcceptedOnce
<1>2. \A d \in Deletes : DeleteOf[d] = v => del[d] \in {"idle", "rejected"}
    BY DEF Condemned, TypeInv, TypeOK, DeletePlaces
<1>3. QED
    BY <1>1, <1>2, RequestAssumption DEF Separate, Undisturbed

LEMMA SeenCreate ==
    ASSUME Context, NEW v \in Videos, CreateVideo(v)
    PROVE  LifecycleStep
<1> USE DEF Context, LifeInv, StageInv, TypeInv, TypeOK
<1>1. /\ status[v] = "none" /\ status' = [status EXCEPT ![v] = "uploading"]
      /\ UNCHANGED <<thumbKey, bucket, del>>
    BY DEF CreateVideo, deletes
<1>2. \A x \in Videos : Condemned(x)' <=> Condemned(x)
    BY <1>1, SameDeletes
<1>3. ~Condemned(v)
    BY <1>1 DEF Condemned, DeleteStage
<1>4. Others(v)
    BY <1>1, <1>2, SeenAlike DEF Others
<1>5. Phase(v) = "none" /\ Phase(v)' = "uploading" /\ (Whole(v)' <=> Whole(v))
    BY <1>1, <1>2, <1>3 DEF Phase, Whole
<1>6. QED
    BY <1>4, <1>5, StepsOfLifecycle DEF VideoStep, LifecycleStep

(* A statement of the form UPDATE ... WHERE id = v, on a video in phase    *)
(* from, if it has not been asked to be deleted.                           *)
LEMMA SeenUpdate ==
    ASSUME Context, NEW v \in Videos, NEW from, NEW to,
           <<from, to>> \in {<<"uploading", "transcoding">>, <<"transcoding", "ready">>,
                             <<"transcoding", "failed">>},
           status[v] \in {from, "deleted"}, SetStatus(v, to),
           UNCHANGED <<bucket, del>>, thumbKey' \ {v} = thumbKey \ {v},
           to # "ready" \/ ~HasRow(v) => UNCHANGED thumbKey,
           to = "ready" /\ ~Condemned(v) /\ HasRow(v) => Whole(v) /\ Whole(v)'
    PROVE  LifecycleStep
<1> USE DEF Context, LifeInv, TypeInv, TypeOK
<1>1. \A x \in Videos : Condemned(x)' <=> Condemned(x)
    BY SameDeletes
<1>2. status' = [status EXCEPT ![v] = IF HasRow(v) THEN to ELSE status[v]]
    BY DEF SetStatus
<1>3. Others(v)
    BY <1>1, <1>2, SeenAlike DEF Others
<1>4. CASE status[v] = "deleted"
    BY <1>1, <1>2, <1>3, <1>4, StepsOfLifecycle DEF VideoStep, LifecycleStep, Phase, HasRow
<1>5. CASE status[v] # "deleted" /\ Condemned(v)
    BY <1>1, <1>2, <1>3, <1>5, StepsOfLifecycle DEF VideoStep, LifecycleStep, Phase, HasRow
<1>6. CASE status[v] # "deleted" /\ ~Condemned(v)
  <2>1. Phase(v) = from /\ Phase(v)' = to /\ HasRow(v)
      BY <1>1, <1>2, <1>6 DEF Phase, HasRow
  <2>2. to # "ready" => (Whole(v)' <=> Whole(v))
      BY DEF Whole
  <2>3. VideoStep(v)
      BY <1>6, <2>1, <2>2 DEF VideoStep
  <2>4. QED
      BY <1>3, <2>3, StepsOfLifecycle DEF LifecycleStep
<1>7. QED
    BY <1>4, <1>5, <1>6

LEMMA SeenRecord ==
    ASSUME Context, NEW u \in Uploads, RecordUpload(u)
    PROVE  LifecycleStep
<1>1. /\ UploadOf[u] \in Videos /\ status[UploadOf[u]] \in {"uploading", "deleted"}
      /\ SetStatus(UploadOf[u], "transcoding") /\ UNCHANGED <<thumbKey, bucket, del>>
    BY RequestAssumption DEF RecordUpload, deletes, Context, LifeInv, StageInv, UploadStage
<1>2. QED
    BY <1>1, SeenUpdate

LEMMA SeenFailed ==
    ASSUME Context, NEW w \in Workers, MarkFailed(w)
    PROVE  LifecycleStep
<1>1. /\ job[w] \in Uploads /\ UploadOf[job[w]] \in Videos
      /\ status[UploadOf[job[w]]] \in {"transcoding", "deleted"}
    BY RequestAssumption DEF MarkFailed, Context, TypeInv, WorkerHasJob, LifeInv, StageInv, JobStage, Pending
<1>2. UNCHANGED <<thumbKey, bucket, del>>
    BY DEF MarkFailed, deletes
<1>3. CASE SetStatus(UploadOf[job[w]], "failed")
    BY <1>1, <1>2, <1>3, SeenUpdate
<1>4. CASE UNCHANGED status
    BY <1>2, <1>4, SeenStutter, SameDeletes DEF rows
<1>5. QED
    BY <1>3, <1>4 DEF MarkFailed

(* The row becomes ready when the worker has put everything. *)
LEMMA SeenReady ==
    ASSUME Context, PublishInv, NEW w \in Workers, MarkReady(w)
    PROVE  LifecycleStep
<1>1. PICK u \in Uploads : job[w] = u
    BY DEF MarkReady, Context, TypeInv, WorkerHasJob
<1> DEFINE v == UploadOf[u]
<1>2. v \in Videos /\ status[v] \in {"transcoding", "deleted"}
    BY <1>1, RequestAssumption DEF MarkReady, Context, LifeInv, StageInv, JobStage, Pending
<1>3. /\ SetStatus(v, "ready") /\ UNCHANGED <<bucket, del>>
      /\ thumbKey' = IF thumb[w] /\ HasRow(v) THEN thumbKey \cup {v} ELSE thumbKey \ {v}
    BY <1>1 DEF MarkReady, SaveReady, deletes
<1>4. v \notin thumbKey
    BY <1>2 DEF Context, LifeInv, ThumbnailSaved
<1>5. ASSUME ~Condemned(v) PROVE Whole(v) /\ Whole(v)'
  <2>1. Undisturbed(v) /\ AcceptedOnce(v)
      BY <1>2, <1>5, NotCondemned DEF Context, LifeInv
  <2>2. /\ \A i \in 1..Len(UploadOrder) : bucket[v][UploadOrder[i]] = u
        /\ thumb[w] => bucket[v]["thumbnail"] = u
      BY <1>1, <1>2, <2>1 DEF MarkReady, PublishInv, SoleProgressInv, Writing
  <2>3. WholeFrom(v, u) /\ WholeFrom(v, u)'
      BY <1>3, <1>4, <2>2 DEF WholeFrom
  <2>4. QED
      BY <2>3, OrderShape DEF Whole, WholeFrom
<1>6. /\ thumbKey' \ {v} = thumbKey \ {v}
      /\ ~HasRow(v) => UNCHANGED thumbKey
    BY <1>3, <1>4
<1>7. QED
    BY <1>2, <1>3, <1>5, <1>6, SeenUpdate

(* An object put completes the video, or leaves it as it is. *)
LEMMA SeenPut ==
    ASSUME Context, NEW w \in Workers, NEW n \in Names, pc[w] \in {"thumbnail", "putting"},
           job[w] \in Uploads, Put(job[w], n), UNCHANGED <<rows, del>>
    PROVE  LifecycleStep
<1>1. PICK u \in Uploads : job[w] = u
    OBVIOUS
<1> DEFINE v == UploadOf[u]
<1>2. v \in Videos /\ status[v] \in {"transcoding", "deleted"}
    BY <1>1, RequestAssumption DEF Context, LifeInv, StageInv, JobStage, Pending
<1>3. /\ \A x \in Videos : x # v => bucket'[x] = bucket[x]
      /\ \A m \in Names : bucket'[v][m] = IF m = n THEN u ELSE bucket[v][m]
    BY <1>1, PutEffect DEF Context, TypeInv
<1>4. \A x \in Videos : Condemned(x)' <=> Condemned(x)
    BY SameDeletes
<1>5. Others(v)
    BY <1>3, <1>4, SeenAlike DEF Others, rows
<1>6. Phase(v)' = Phase(v) /\ Phase(v) \in {"transcoding", "condemned", "deleted"}
    BY <1>2, <1>4 DEF Phase, HasRow, rows
<1>7. Whole(v) => Whole(v)'
  <2>1. SUFFICES ASSUME NEW x \in Uploads, WholeFrom(v, x) PROVE WholeFrom(v, x)'
      BY OrderShape DEF Whole, WholeFrom
  <2>2. x = u
    <3>1. 1 \in 1..Len(UploadOrder) /\ UploadOrder[1] \in Names
        BY OrderShape, MediaAssumption
    <3>2. UploadOf[x] = v
        BY <1>2, <2>1, <3>1, RequestAssumption DEF WholeFrom, Context, LifeInv, OwnObjects
    <3>3. QED
        BY <3>2 DEF Context, LifeInv, Separate
  <2>3. QED
      BY <1>3, <2>1, <2>2, OrderShape DEF WholeFrom, rows
<1>8. VideoStep(v)
    BY <1>6, <1>7 DEF VideoStep
<1>9. QED
    BY <1>2, <1>5, <1>8, StepsOfLifecycle DEF LifecycleStep

-----------------------------------------------------------------------------
(* A delete condemns the video when it finds its row. *)
LEMMA SeenCheck ==
    ASSUME Context, NEW d \in Deletes, CheckDelete(d)
    PROVE  LifecycleStep
<1> DEFINE v == DeleteOf[d]
<1> USE DEF Context, TypeInv, TypeOK, DeleteGoes, Condemned
<1>1. v \in Videos /\ UNCHANGED <<rows, bucket>>
    BY RequestAssumption DEF CheckDelete
<1>2. \A x \in Videos : x # v => (Condemned(x)' <=> Condemned(x))
    BY DEF CheckDelete
<1>3. Condemned(v) => Condemned(v)'
    BY DEF CheckDelete
<1>4. Condemned(v)' => Condemned(v) \/ HasRow(v)
    BY DEF CheckDelete
<1>5. CASE Condemned(v)' <=> Condemned(v)
    BY <1>1, <1>2, <1>5, SeenStutter
<1>6. CASE ~Condemned(v) /\ Condemned(v)' /\ HasRow(v)
  <2> HIDE DEF Condemned
  <2>1. Others(v)
      BY <1>1, <1>2, SeenAlike DEF Others, rows
  <2>2. Phase(v) \in {"uploading", "transcoding", "ready", "failed"} /\ Phase(v)' = "condemned"
      BY <1>1, <1>6 DEF Phase, HasRow, rows
  <2>3. Whole(v)' <=> Whole(v)
      BY <1>1 DEF Whole, rows
  <2>4. VideoStep(v)
      BY <2>2, <2>3 DEF VideoStep
  <2>5. QED
      BY <1>1, <2>1, <2>4, StepsOfLifecycle DEF LifecycleStep
<1>7. QED
    BY <1>3, <1>4, <1>5, <1>6

LEMMA SeenDeleteKey ==
    ASSUME Context, NEW d \in Deletes, DeleteKey(d)
    PROVE  LifecycleStep
<1> DEFINE v == DeleteOf[d]
<1>1. PICK key \in listed[d] : bucket' = [bucket EXCEPT ![key[1]][key[2]] = NoUpload]
    BY DEF DeleteKey
<1>2. v \in Videos /\ del[d] = "purging" /\ UNCHANGED <<rows, del>>
    BY RequestAssumption DEF DeleteKey
<1>3. key[1] = v
    BY <1>2, RequestAssumption DEF Context, TypeInv, TypeOK, Keys, PlaylistInv, ListedInv, LifeInv, Separate
<1>4. \A x \in Videos : Condemned(x)' <=> Condemned(x)
    BY <1>2, SameDeletes
<1>5. \A x \in Videos : x # v => bucket'[x] = bucket[x]
    BY <1>1, <1>3 DEF Context, TypeInv, TypeOK
<1>6. Others(v)
    BY <1>2, <1>4, <1>5, SeenAlike DEF Others, rows
<1>7. Condemned(v) /\ status[v] # "none"
    BY <1>2 DEF Condemned, Context, LifeInv, StageInv, DeleteStage
<1>8. Phase(v)' = Phase(v) /\ Phase(v) \in {"condemned", "deleted"}
    BY <1>2, <1>4, <1>7 DEF Phase, HasRow, rows
<1>9. VideoStep(v)
    BY <1>8 DEF VideoStep
<1>10. QED
    BY <1>2, <1>6, <1>9, StepsOfLifecycle DEF LifecycleStep

LEMMA SeenDeleteRow ==
    ASSUME Context, NEW d \in Deletes, DeleteRow(d)
    PROVE  LifecycleStep
<1> DEFINE v == DeleteOf[d]
<1> USE DEF Context, TypeInv, TypeOK
<1>1. /\ v \in Videos /\ del[d] = "purging" /\ UNCHANGED bucket
      /\ del' = [del EXCEPT ![d] = "done"]
      /\ status' = [status EXCEPT ![v] = IF HasRow(v) THEN "deleted" ELSE @]
      /\ thumbKey' = thumbKey \ {v}
    BY RequestAssumption DEF DeleteRow, DeleteGoes, SetStatus
<1>2. \A x \in Videos : Condemned(x)' <=> Condemned(x)
    BY <1>1 DEF Condemned
<1>3. Others(v)
    BY <1>1, <1>2, SeenAlike DEF Others
<1>4. Condemned(v) /\ status[v] # "none"
    BY <1>1 DEF Condemned, LifeInv, StageInv, DeleteStage
<1>5. Phase(v) \in {"condemned", "deleted"} /\ Phase(v)' = "deleted"
    BY <1>1, <1>4 DEF Phase, HasRow
<1>6. VideoStep(v)
    BY <1>5 DEF VideoStep
<1>7. QED
    BY <1>1, <1>3, <1>6, StepsOfLifecycle DEF LifecycleStep

(* Steps that change no row, no object and nothing about condemned videos. *)
LEMMA SeenUpload ==
    ASSUME Context, NEW u \in Uploads, UploadStep(u)
    PROVE  LifecycleStep
<1>1. CASE RecordUpload(u)
    BY <1>1, SeenRecord
<1>2. CASE ~RecordUpload(u)
  <2>1. UNCHANGED <<rows, bucket, del>>
      BY <1>2 DEF UploadStep, FinishUpload, CheckUpload, RejectBody, CreateTemp, CopyBody, CopyFails,
                  RecordFails, EnqueueJob, Context, LifeInv, Separate, rows, deletes
  <2>2. QED
      BY <2>1, SameDeletes, SeenStutter
<1>3. QED
    BY <1>1, <1>2

LEMMA SeenDelete ==
    ASSUME Context, NEW d \in Deletes, DeleteStep(d)
    PROVE  LifecycleStep
<1>1. CASE CheckDelete(d) \/ DeleteKey(d) \/ DeleteRow(d)
    BY <1>1, SeenCheck, SeenDeleteKey, SeenDeleteRow
<1>2. CASE ListKeys(d) \/ PurgeFails(d) \/ DeleteRowFails(d)
  <2>1. /\ UNCHANGED <<rows, bucket>>
        /\ del[d] \in {"checked", "purging"} /\ del'[d] \in {"purging", "done"}
        /\ \A x \in Deletes : x # d => del'[x] = del[x]
      BY <1>2 DEF ListKeys, PurgeFails, DeleteRowFails, DeleteGoes, Context, TypeInv, TypeOK
  <2>2. \A v \in Videos : Condemned(v)' <=> Condemned(v)
      BY <2>1 DEF Condemned
  <2>3. QED
      BY <2>1, <2>2, SeenStutter
<1>3. QED
    BY <1>1, <1>2 DEF DeleteStep, FinishDelete

LEMMA SeenWorker ==
    ASSUME Context, PublishInv, [Next]_vars, NEW w \in Workers, WorkerStep(w)
    PROVE  LifecycleStep
<1>1. CASE MarkReady(w) \/ MarkFailed(w)
    BY <1>1, SeenReady, SeenFailed
<1>2. CASE ~MarkReady(w) /\ ~MarkFailed(w)
  <2>1. UNCHANGED <<rows, del>>
      BY <1>2 DEF WorkerStep, TakeJob, Transcode, PutThumbnail, SkipThumbnail, PutNext, PutFails,
                  MarkReadyFails, RemoveSource, Context, LifeInv, Separate, rows, deletes
  <2>2. CASE UNCHANGED bucket
      BY <2>1, <2>2, SameDeletes, SeenStutter
  <2>3. ASSUME NEW d \in Deletes, DeleteKey(d) PROVE LifecycleStep
      BY <2>3, SeenDeleteKey
  <2>4. QED
      BY <2>2, <2>3, ObjectStep, SeenPut DEF Context
<1>3. QED
    BY <1>1, <1>2

LEMMA SeenCrash ==
    ASSUME Context, Crash
    PROVE  LifecycleStep
<1>1. UNCHANGED <<rows, bucket>>
    BY DEF Crash
<1>2. del' = [d \in Deletes |-> IF del[d] \in {"idle", "rejected"} THEN del[d] ELSE "done"]
    BY DEF Crash
<1>3. del \in [Deletes -> DeletePlaces]
    BY DEF Context, TypeInv, TypeOK
<1>4. \A v \in Videos : Condemned(v)' <=> Condemned(v)
    BY <1>2, <1>3 DEF Condemned, DeletePlaces
<1>5. QED
    BY <1>1, <1>4, SeenStutter

(* Every step of the pipeline is a step of VideoLifecycle or a stutter. *)
LEMMA SeenStep == Context /\ PublishInv /\ [Next]_vars => LifecycleStep
<1> SUFFICES ASSUME Context, PublishInv, [Next]_vars PROVE LifecycleStep
    OBVIOUS
<1>1. CASE UNCHANGED vars
    BY <1>1, SameDeletes, SeenStutter DEF vars, deletes
<1>2. QED
    BY <1>1, SeenCreate, SeenUpload, SeenDelete, SeenWorker, SeenCrash DEF Next, AtRest

LEMMA SeenInit == Init => Lifecycle!LifecycleInit
<1> SUFFICES ASSUME Init PROVE Lifecycle!LifecycleInit
    OBVIOUS
<1>1. \A v \in Videos : Phase(v) = "none"
    BY DEF Init, Phase, HasRow
<1>2. \A v \in Videos : ~Whole(v)
  <2>1. SUFFICES ASSUME NEW v \in Videos, NEW u \in Uploads, WholeFrom(v, u) PROVE FALSE
      BY OrderShape DEF Whole, WholeFrom
  <2>2. 1 \in 1..Len(UploadOrder) /\ UploadOrder[1] \in Names
      BY OrderShape, MediaAssumption
  <2>3. QED
      BY <2>1, <2>2, RequestAssumption DEF Init, WholeFrom
<1>3. QED
    BY <1>1, <1>2 DEF Lifecycle!LifecycleInit

(* The status of a video tells which handlers and workers are at it        *)
(* (videos.go).                                                            *)
THEOREM LifeInvariant == Separate /\ Spec => []LifeInv
<1>1. TypeInv /\ HolderInv /\ PlaylistInv /\ LifeInv /\ [Next]_vars => LifeInv'
    BY LifeStep DEF Context
<1>2. QED
    BY <1>1, LifeInit, TypeInvariant, HolderInvariant, PlaylistInvariant, PTL DEF Spec

(* The pipeline implements the safety part of VideoLifecycle, for videos   *)
(* that are uploaded to once and whose prefixes are disjoint: each handler *)
(* and worker step is one step in the life of one video, or none, whatever *)
(* fails and whenever the process restarts.                                *)
THEOREM PipelineImplementsLifecycle == Separate /\ Spec => Lifecycle!LifecycleSafety
<1>1. /\ Init => Lifecycle!LifecycleInit
      /\ TypeInv /\ HolderInv /\ PlaylistInv /\ LifeInv /\ PublishInv /\ [Next]_vars
            => [Lifecycle!LifecycleNext]_(Lifecycle!lifecycleVars)
    BY SeenInit, SeenStep DEF Context, LifecycleStep
<1>2. QED
    BY <1>1, LifeInvariant, TypeInvariant, HolderInvariant, PlaylistInvariant, PublishInvariant, PTL
       DEF Spec, Lifecycle!LifecycleSafety
=============================================================================
