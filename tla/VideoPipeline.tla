---------------------------- MODULE VideoPipeline ----------------------------
(***************************************************************************)
(* A video from its creation to its deletion: the upload handler, the      *)
(* delete handler and the transcode workers of internal/api, which share   *)
(* the videos table (internal/db/videos.go), the bucket                    *)
(* (internal/storage/storage.go), the temporary directory and the          *)
(* in-memory job queue (internal/api/transcode_queue.go).                  *)
(*                                                                         *)
(* One step is one statement another process can see the effect of: a      *)
(* database statement, an object store call, a channel operation or a      *)
(* change to a temporary file.  Between two steps of a request or of a     *)
(* worker every other request and worker may run.                          *)
(***************************************************************************)
EXTENDS Integers, Sequences

CONSTANTS
    Videos,        \* the ids the videos sequence hands out
    Uploads,       \* upload requests; a job and its temporary file are named by them
    Deletes,       \* delete requests
    Workers,       \* the goroutines of the transcode pool
    NoUpload,      \* "nothing there": no job, or no object under a key
    UploadOf,      \* the video each upload request names in its URL
    DeleteOf,      \* the video each delete request names in its URL
    MediaFiles,    \* the rendition files ToHLS writes, in directory order
    QueueCap,      \* capacity of the jobs channel
    IdDigits,      \* decimal digits a video id may have
    Faults,        \* what may go wrong
    MaxCrashes     \* bound on restarts of the process

(* "db": a statement fails without effect.  "dbReply": a statement takes   *)
(* effect and its caller is told it failed (the request's 60 s deadline or *)
(* the connection ended first).  "media": ffmpeg, ffprobe or a local file  *)
(* fails.  "storage": an object store call fails.                          *)
FaultKinds == {"db", "dbReply", "media", "storage"}

ASSUME IdAssumption == Videos \subseteq Nat /\ IdDigits \in Nat
ASSUME RequestAssumption == /\ UploadOf \in [Uploads -> Videos]
                            /\ DeleteOf \in [Deletes -> Videos]
                            /\ NoUpload \notin Uploads
ASSUME MediaAssumption == MediaFiles \in Seq(STRING \ {"source", "thumbnail", "master"})
ASSUME BoundAssumption == QueueCap \in Nat \ {0} /\ MaxCrashes \in Nat
ASSUME FaultAssumption == Faults \subseteq FaultKinds

VARIABLES
    status,      \* videos.status; "none" and "deleted" when there is no row
    thumbKey,    \* the rows whose thumbnail_key is set
    bucket,      \* for every video and object name, the upload that wrote it
    tmp,         \* the clipfolio-upload-* files on disk
    up,          \* where each upload request stands
    del,         \* where each delete request stands
    listed,      \* the keys each delete request has yet to delete
    queue,       \* the jobs channel
    pc,          \* where each worker stands
    job,         \* the upload each worker has the job of
    sent,        \* how many files of UploadOrder each worker has put
    thumb,       \* whether each worker has put the thumbnail
    crashes      \* restarts so far

rows == <<status, thumbKey>>
deletes == <<del, listed>>
workers == <<pc, job, sent, thumb>>
vars == <<rows, bucket, tmp, up, deletes, queue, workers, crashes>>

-----------------------------------------------------------------------------
(* Here and below, a "slip" is a variant of the definition of the same     *)
(* subject with a mistake in it; no specification uses one.  With it in    *)
(* the place of the definition some property fails, which tells that the   *)
(* property depends on the definition.                                     *)
(* Slips: the master playlist first; a prefix without the id.              *)
MasterFirst == <<"source", "master">> \o MediaFiles

AnyVideo(v, w) == TRUE

(* The objects of one video, and the order process puts them in: the       *)
(* source, then os.ReadDir's order, in which the names of rendition files  *)
(* ("360p.m3u8", "360p_000.ts", ...) all sort before "master.m3u8".        *)
UploadOrder == Append(<<"source">> \o MediaFiles, "master")

Names == {"thumbnail"} \cup {UploadOrder[i] : i \in DOMAIN UploadOrder}

Keys == Videos \X Names

(* The keys of w start with the prefix "videos/v": the decimal digits of v *)
(* begin those of w, because the prefix has no slash after the id.         *)
PrefixCovers(v, w) == v = w \/ \E k \in 1..IdDigits : w \div 10^k = v

(* Every statement but the INSERT has a WHERE id = ... and succeeds when   *)
(* it matches no row.                                                      *)
HasRow(v) == status[v] \notin {"none", "deleted"}

SetStatus(v, s) == status' = [status EXCEPT ![v] = IF HasRow(v) THEN s ELSE @]

Put(u, name) == bucket' = [bucket EXCEPT ![UploadOf[u]][name] = u]

UploadGoes(u, place) == up' = [up EXCEPT ![u] = place]

DeleteGoes(d, place) == del' = [del EXCEPT ![d] = place]

WorkerGoes(w, place) == pc' = [pc EXCEPT ![w] = place]

UploadPlaces == {"idle", "checked", "copying", "saved", "recorded", "done", "rejected"}
DeletePlaces == {"idle", "checked", "purging", "done", "rejected"}
WorkerPlaces == {"idle", "transcode", "thumbnail", "putting", "failing", "cleanup"}

TypeOK ==
    /\ status \in [Videos -> {"none", "uploading", "transcoding", "ready",
                              "failed", "deleted"}]
    /\ thumbKey \subseteq Videos
    /\ bucket \in [Videos -> [Names -> Uploads \cup {NoUpload}]]
    /\ tmp \subseteq Uploads
    /\ up \in [Uploads -> UploadPlaces]
    /\ del \in [Deletes -> DeletePlaces]
    /\ listed \in [Deletes -> SUBSET Keys]
    /\ queue \in Seq(Uploads)
    /\ Len(queue) \in 0..QueueCap
    /\ pc \in [Workers -> WorkerPlaces]
    /\ job \in [Workers -> Uploads \cup {NoUpload}]
    /\ sent \in [Workers -> 0..Len(UploadOrder)]
    /\ thumb \in [Workers -> BOOLEAN]
    /\ crashes \in 0..MaxCrashes

Init ==
    /\ status = [v \in Videos |-> "none"]
    /\ thumbKey = {}
    /\ bucket = [v \in Videos |-> [n \in Names |-> NoUpload]]
    /\ tmp = {}
    /\ up = [u \in Uploads |-> "idle"]
    /\ del = [d \in Deletes |-> "idle"]
    /\ listed = [d \in Deletes |-> {}]
    /\ queue = <<>>
    /\ pc = [w \in Workers |-> "idle"]
    /\ job = [w \in Workers |-> NoUpload]
    /\ sent = [w \in Workers |-> 0]
    /\ thumb = [w \in Workers |-> FALSE]
    /\ crashes = 0

-----------------------------------------------------------------------------
(* Slips of EnqueueJob: a channel without bound, a send repeated, the file *)
(* removed when the handler returns, a send that drops when full.          *)
EnqueueUnbounded(u) ==
    /\ up[u] = "recorded"
    /\ queue' = Append(queue, u)
    /\ UploadGoes(u, "done")
    /\ UNCHANGED <<rows, bucket, tmp, deletes, workers, crashes>>

EnqueueAgain(u) ==
    /\ up[u] = "recorded"
    /\ Len(queue) < QueueCap
    /\ queue' = Append(queue, u)
    /\ UNCHANGED <<rows, bucket, tmp, up, deletes, workers, crashes>>

EnqueueAndRemove(u) ==
    /\ up[u] = "recorded"
    /\ Len(queue) < QueueCap
    /\ queue' = Append(queue, u)
    /\ tmp' = tmp \ {u}
    /\ UploadGoes(u, "done")
    /\ UNCHANGED <<rows, bucket, deletes, workers, crashes>>

EnqueueOrDrop(u) ==
    /\ up[u] = "recorded"
    /\ queue' = IF Len(queue) < QueueCap THEN Append(queue, u) ELSE queue
    /\ UploadGoes(u, "done")
    /\ UNCHANGED <<rows, bucket, tmp, deletes, workers, crashes>>

(* Slip of DeleteRow: it does not wait for the purge. *)
DeleteRowEarly(d) ==
    /\ del[d] = "purging"
    /\ DeleteGoes(d, "done")
    /\ SetStatus(DeleteOf[d], "deleted")
    /\ thumbKey' = thumbKey \ {DeleteOf[d]}
    /\ UNCHANGED <<bucket, tmp, up, listed, queue, workers, crashes>>

(* Slips of PutFails: the error is ignored, or returned as nil. *)
PutIgnoresError(w) ==
    /\ pc[w] = "putting" /\ sent[w] < Len(UploadOrder)
    /\ "storage" \in Faults
    /\ sent' = [sent EXCEPT ![w] = @ + 1]
    /\ UNCHANGED <<rows, bucket, tmp, up, deletes, queue, pc, job, thumb, crashes>>

PutFailsUnreported(w) ==
    /\ pc[w] = "putting" /\ sent[w] < Len(UploadOrder)
    /\ "storage" \in Faults
    /\ WorkerGoes(w, "cleanup")
    /\ UNCHANGED <<rows, bucket, tmp, up, deletes, queue, job, sent, thumb, crashes>>

(* Slip of MarkFailed: the error is logged and the status stays. *)
LogFailureOnly(w) ==
    /\ pc[w] = "failing"
    /\ WorkerGoes(w, "cleanup")
    /\ UNCHANGED <<rows, bucket, tmp, up, deletes, queue, job, sent, thumb, crashes>>

-----------------------------------------------------------------------------
(* handleCreateVideo.  An id is used once; of two INSERTs under way either *)
(* may commit first.                                                       *)
CreateVideo(v) ==
    /\ status[v] = "none"
    /\ status' = [status EXCEPT ![v] = "uploading"]
    /\ UNCHANGED <<thumbKey, bucket, tmp, up, deletes, queue, workers, crashes>>

-----------------------------------------------------------------------------
(* handleUploadVideo, a step at a time. *)

(* getOwnedVideo and the check of the row it returned; the status is not   *)
(* looked at again.  A 404 (also when the query fails) and a 409 end the   *)
(* request.  "rejected" requests are those that end without a job.         *)
CheckUpload(u) ==
    /\ up[u] = "idle"
    /\ \/ status[UploadOf[u]] = "uploading" /\ UploadGoes(u, "checked")
       \/ status[UploadOf[u]] # "uploading" /\ UploadGoes(u, "rejected")
       \/ "db" \in Faults /\ UploadGoes(u, "rejected")
    /\ UNCHANGED <<rows, bucket, tmp, deletes, queue, workers, crashes>>

(* The body is too large, malformed, cut off or without a file field, or   *)
(* there is no room for a temporary file.                                  *)
RejectBody(u) ==
    /\ up[u] = "checked"
    /\ UploadGoes(u, "rejected")
    /\ UNCHANGED <<rows, bucket, tmp, deletes, queue, workers, crashes>>

CreateTemp(u) ==
    /\ up[u] = "checked"
    /\ UploadGoes(u, "copying")
    /\ tmp' = tmp \cup {u}
    /\ UNCHANGED <<rows, bucket, deletes, queue, workers, crashes>>

CopyBody(u) ==
    /\ up[u] = "copying"
    /\ UploadGoes(u, "saved")
    /\ UNCHANGED <<rows, bucket, tmp, deletes, queue, workers, crashes>>

CopyFails(u) ==
    /\ "media" \in Faults
    /\ up[u] = "copying"
    /\ UploadGoes(u, "rejected")
    /\ tmp' = tmp \ {u}
    /\ UNCHANGED <<rows, bucket, deletes, queue, workers, crashes>>

(* SetVideoSourceKey: whatever the status has become since the check. *)
RecordUpload(u) ==
    /\ up[u] = "saved"
    /\ UploadGoes(u, "recorded")
    /\ SetStatus(UploadOf[u], "transcoding")
    /\ UNCHANGED <<thumbKey, bucket, tmp, deletes, queue, workers, crashes>>

RecordFails(u) ==
    /\ up[u] = "saved"
    /\ \/ "db" \in Faults /\ UNCHANGED status
       \/ "dbReply" \in Faults /\ SetStatus(UploadOf[u], "transcoding")
    /\ UploadGoes(u, "rejected")
    /\ tmp' = tmp \ {u}
    /\ UNCHANGED <<thumbKey, bucket, deletes, queue, workers, crashes>>

(* Enqueue: the send blocks while the channel is full. *)
EnqueueJob(u) ==
    /\ up[u] = "recorded"
    /\ Len(queue) < QueueCap
    /\ queue' = Append(queue, u)
    /\ UploadGoes(u, "done")
    /\ UNCHANGED <<rows, bucket, tmp, deletes, workers, crashes>>

-----------------------------------------------------------------------------
(* handleDeleteVideo, a step at a time. *)

CheckDelete(d) ==
    /\ del[d] = "idle"
    /\ \/ HasRow(DeleteOf[d]) /\ DeleteGoes(d, "checked")
       \/ ~HasRow(DeleteOf[d]) /\ DeleteGoes(d, "rejected")
       \/ "db" \in Faults /\ DeleteGoes(d, "rejected")
    /\ UNCHANGED <<rows, bucket, tmp, up, listed, queue, workers, crashes>>

(* DeletePrefix lists the keys under the prefix once, ... *)
ListKeys(d) ==
    /\ del[d] = "checked"
    /\ DeleteGoes(d, "purging")
    /\ listed' = [listed EXCEPT ![d] = {key \in Keys : /\ PrefixCovers(DeleteOf[d], key[1])
                                                       /\ bucket[key[1]][key[2]] # NoUpload}]
    /\ UNCHANGED <<rows, bucket, tmp, up, queue, workers, crashes>>

(* ... and deletes the listed keys one at a time, whatever they hold by then. *)
DeleteKey(d) ==
    /\ del[d] = "purging"
    /\ \E key \in listed[d] :
          /\ bucket' = [bucket EXCEPT ![key[1]][key[2]] = NoUpload]
          /\ listed' = [listed EXCEPT ![d] = @ \ {key}]
    /\ UNCHANGED <<rows, tmp, up, del, queue, workers, crashes>>

(* A failed list or delete gives up on the rest and leaves the row. *)
PurgeFails(d) ==
    /\ "storage" \in Faults
    /\ del[d] \in {"checked", "purging"}
    /\ DeleteGoes(d, "done")
    /\ listed' = [listed EXCEPT ![d] = {}]
    /\ UNCHANGED <<rows, bucket, tmp, up, queue, workers, crashes>>

(* DeleteVideo; "dbReply" leaves the same state as success. *)
DeleteRow(d) ==
    /\ del[d] = "purging" /\ listed[d] = {}
    /\ DeleteGoes(d, "done")
    /\ SetStatus(DeleteOf[d], "deleted")
    /\ thumbKey' = thumbKey \ {DeleteOf[d]}
    /\ UNCHANGED <<bucket, tmp, up, listed, queue, workers, crashes>>

DeleteRowFails(d) ==
    /\ "db" \in Faults
    /\ del[d] = "purging" /\ listed[d] = {}
    /\ DeleteGoes(d, "done")
    /\ UNCHANGED <<rows, bucket, tmp, up, listed, queue, workers, crashes>>

-----------------------------------------------------------------------------
(* A transcode worker: the loop of worker and the steps of process. *)

TakeJob(w) ==
    /\ pc[w] = "idle"
    /\ queue # <<>>
    /\ job' = [job EXCEPT ![w] = Head(queue)]
    /\ queue' = Tail(queue)
    /\ WorkerGoes(w, "transcode")
    /\ UNCHANGED <<rows, bucket, tmp, up, deletes, sent, thumb, crashes>>

(* Available, Probe, MkdirTemp and ToHLS touch nothing that is shared. *)
Transcode(w) ==
    /\ pc[w] = "transcode"
    /\ \/ WorkerGoes(w, "thumbnail")
       \/ "media" \in Faults /\ WorkerGoes(w, "failing")
    /\ UNCHANGED <<rows, bucket, tmp, up, deletes, queue, job, sent, thumb, crashes>>

PutThumbnail(w) ==
    /\ pc[w] = "thumbnail"
    /\ Put(job[w], "thumbnail")
    /\ thumb' = [thumb EXCEPT ![w] = TRUE]
    /\ WorkerGoes(w, "putting")
    /\ UNCHANGED <<rows, tmp, up, deletes, queue, job, sent, crashes>>

(* Without a thumbnail, or with one whose upload is reported failed, the   *)
(* job goes on and thumbnailKey stays "".                                  *)
SkipThumbnail(w) ==
    /\ pc[w] = "thumbnail"
    /\ \/ Faults \cap {"media", "storage"} # {} /\ UNCHANGED bucket
       \/ "storage" \in Faults /\ Put(job[w], "thumbnail")
    /\ WorkerGoes(w, "putting")
    /\ UNCHANGED <<rows, tmp, up, deletes, queue, job, sent, thumb, crashes>>

(* The source, then every entry of the output directory. *)
PutNext(w) ==
    /\ pc[w] = "putting" /\ sent[w] < Len(UploadOrder)
    /\ Put(job[w], UploadOrder[sent[w] + 1])
    /\ sent' = [sent EXCEPT ![w] = @ + 1]
    /\ UNCHANGED <<rows, tmp, up, deletes, queue, pc, job, thumb, crashes>>

(* A file cannot be read, the master playlist was never written, or Put    *)
(* reports an error, with or without having stored the object.             *)
PutFails(w) ==
    /\ pc[w] = "putting" /\ sent[w] < Len(UploadOrder)
    /\ \/ Faults \cap {"media", "storage"} # {} /\ UNCHANGED bucket
       \/ "storage" \in Faults /\ Put(job[w], UploadOrder[sent[w] + 1])
    /\ WorkerGoes(w, "failing")
    /\ UNCHANGED <<rows, tmp, up, deletes, queue, job, sent, thumb, crashes>>

(* MarkVideoReady writes the status and the thumbnail key in one statement. *)
SaveReady(v, hasThumb) ==
    /\ SetStatus(v, "ready")
    /\ thumbKey' = IF hasThumb /\ HasRow(v) THEN thumbKey \cup {v} ELSE thumbKey \ {v}

MarkReady(w) ==
    /\ pc[w] = "putting" /\ sent[w] = Len(UploadOrder)
    /\ SaveReady(UploadOf[job[w]], thumb[w])
    /\ WorkerGoes(w, "cleanup")
    /\ UNCHANGED <<bucket, tmp, up, deletes, queue, job, sent, thumb, crashes>>

MarkReadyFails(w) ==
    /\ pc[w] = "putting" /\ sent[w] = Len(UploadOrder)
    /\ \/ "db" \in Faults /\ UNCHANGED rows
       \/ "dbReply" \in Faults /\ SaveReady(UploadOf[job[w]], thumb[w])
    /\ WorkerGoes(w, "failing")
    /\ UNCHANGED <<bucket, tmp, up, deletes, queue, job, sent, thumb, crashes>>

(* MarkVideoFailed; its own error is only logged, so with "db" the status  *)
(* stays as it was.                                                        *)
MarkFailed(w) ==
    /\ pc[w] = "failing"
    /\ \/ SetStatus(UploadOf[job[w]], "failed")
       \/ "db" \in Faults /\ UNCHANGED status
    /\ WorkerGoes(w, "cleanup")
    /\ UNCHANGED <<thumbKey, bucket, tmp, up, deletes, queue, job, sent, thumb, crashes>>

RemoveSource(w) ==
    /\ pc[w] = "cleanup"
    /\ tmp' = tmp \ {job[w]}
    /\ WorkerGoes(w, "idle")
    /\ job' = [job EXCEPT ![w] = NoUpload]
    /\ sent' = [sent EXCEPT ![w] = 0]
    /\ thumb' = [thumb EXCEPT ![w] = FALSE]
    /\ UNCHANGED <<rows, bucket, up, deletes, queue, crashes>>

-----------------------------------------------------------------------------
(* The process ends, at any point, and starts again: the rows, the bucket  *)
(* and the temporary files stay, everything in memory is gone.  SIGTERM is *)
(* the same: run returns, and with it the process, without waiting for     *)
(* handlers or workers.                                                    *)
Crash ==
    /\ crashes < MaxCrashes
    /\ crashes' = crashes + 1
    /\ up' = [u \in Uploads |-> IF up[u] \in {"idle", "done"} THEN up[u] ELSE "rejected"]
    /\ del' = [d \in Deletes |-> IF del[d] \in {"idle", "rejected"} THEN del[d] ELSE "done"]
    /\ listed' = [d \in Deletes |-> {}]
    /\ queue' = <<>>
    /\ pc' = [w \in Workers |-> "idle"]
    /\ job' = [w \in Workers |-> NoUpload]
    /\ sent' = [w \in Workers |-> 0]
    /\ thumb' = [w \in Workers |-> FALSE]
    /\ UNCHANGED <<rows, bucket, tmp>>

(* The server waits for requests: nothing is left to do for those that     *)
(* have come.  Any other state without a successor is a deadlock.          *)
AtRest ==
    /\ \A v \in Videos : status[v] # "none"
    /\ \A u \in Uploads : up[u] \in {"done", "rejected"}
    /\ \A d \in Deletes : del[d] \in {"done", "rejected"}
    /\ queue = <<>>
    /\ \A w \in Workers : pc[w] = "idle"
    /\ UNCHANGED vars

(* What an upload request does once its body has been received. *)
FinishUpload(u) ==
    CopyBody(u) \/ CopyFails(u) \/ RecordUpload(u) \/ RecordFails(u) \/ EnqueueJob(u)

UploadStep(u) == CheckUpload(u) \/ RejectBody(u) \/ CreateTemp(u) \/ FinishUpload(u)

(* What a delete request does once it has found the row. *)
FinishDelete(d) ==
    ListKeys(d) \/ DeleteKey(d) \/ PurgeFails(d) \/ DeleteRow(d) \/ DeleteRowFails(d)

DeleteStep(d) == CheckDelete(d) \/ FinishDelete(d)

WorkerStep(w) ==
    \/ TakeJob(w) \/ Transcode(w) \/ PutThumbnail(w) \/ SkipThumbnail(w)
    \/ PutNext(w) \/ PutFails(w) \/ MarkReady(w) \/ MarkReadyFails(w)
    \/ MarkFailed(w) \/ RemoveSource(w)

Next ==
    \/ \E v \in Videos : CreateVideo(v)
    \/ \E u \in Uploads : UploadStep(u)
    \/ \E d \in Deletes : DeleteStep(d)
    \/ \E w \in Workers : WorkerStep(w)
    \/ Crash
    \/ AtRest

Spec == Init /\ [][Next]_vars

(* A handler that has the whole body, and a worker, run until they block;  *)
(* calls they make return.  A client may stall before its body is in (the  *)
(* server sets no read timeout), and nobody need send a request at all.    *)
Fairness ==
    /\ \A u \in Uploads : WF_vars(FinishUpload(u))
    /\ \A d \in Deletes : WF_vars(FinishDelete(d))
    /\ \A w \in Workers : WF_vars(WorkerStep(w))

FairSpec == Spec /\ Fairness

-----------------------------------------------------------------------------
(* Who has an upload's job and its temporary file. *)
InHandler(u) == up[u] \in {"copying", "saved", "recorded"}
InQueue(u) == \E i \in DOMAIN queue : queue[i] = u
InWorker(u) == \E w \in Workers : job[w] = u
Held(u) == InHandler(u) \/ InQueue(u) \/ InWorker(u)

(* An accepted upload's job is in one place at a time: still with the      *)
(* handler that will send it, or once in the channel, or with one worker;  *)
(* so no two workers write the same upload and no job runs twice, whatever *)
(* fails and whenever the process restarts.                                *)
JobHeldOnce ==
    /\ \A i, j \in DOMAIN queue : queue[i] = queue[j] => i = j
    /\ \A w, x \in Workers : job[w] = job[x] /\ job[w] # NoUpload => w = x
    /\ \A u \in Uploads : ~(InQueue(u) /\ InWorker(u))
    /\ \A u \in Uploads : InQueue(u) \/ InWorker(u) => up[u] = "done"

(* Nobody loses the file it is about to read: the temporary file of a job  *)
(* exists from the handler's CreateTemp to the worker's Remove, across the *)
(* hand-over through the channel; and every error path of the handler and  *)
(* of the worker removes it, so that only a restart leaves files behind.   *)
TmpFileHeld ==
    /\ \A u \in Uploads : Held(u) => u \in tmp
    /\ crashes = 0 => \A u \in tmp : Held(u)

Pending(u) ==
    \/ up[u] = "recorded"
    \/ InQueue(u)
    \/ \E w \in Workers : job[w] = u /\ pc[w] # "cleanup"

Orderly == crashes = 0 /\ Faults \cap {"db", "dbReply"} = {}

(* A video whose status says transcoding has a job that will change the    *)
(* status.  Restarts lose the job and database errors the update, so both  *)
(* are excluded (README.md of clipfolio, "Limits", tells of the restart).  *)
NoStrandedVideo ==
    Orderly => \A v \in Videos : status[v] = "transcoding" =>
                                   \E u \in Uploads : UploadOf[u] = v /\ Pending(u)

-----------------------------------------------------------------------------
(* No delete whose prefix covers v's keys has found its row. *)
Undisturbed(v) ==
    \A d \in Deletes : PrefixCovers(DeleteOf[d], v) => del[d] \in {"idle", "rejected"}

(* At most one upload of v was accepted, that is, sent its job. *)
AcceptedOnce(v) ==
    \A u1, u2 \in {u \in Uploads : UploadOf[u] = v /\ up[u] = "done"} : u1 = u2

(* All a manifest of v leads to is there, and comes from one upload. *)
Whole(v) ==
    \E u \in Uploads :
        /\ \A i \in DOMAIN UploadOrder : bucket[v][UploadOrder[i]] = u
        /\ v \in thumbKey => bucket[v]["thumbnail"] = u

(* A master playlist in the bucket never names a file that is not there,   *)
(* at no point of a job, of several jobs for one video, of a failed job or *)
(* of one that a restart cut off: process puts it last.                    *)
PlaylistComplete ==
    \A v \in Videos : Undisturbed(v) /\ bucket[v]["master"] # NoUpload =>
        \A i \in DOMAIN UploadOrder : bucket[v][UploadOrder[i]] # NoUpload

(* A ready video is whole: every object is there, the thumbnail too if the *)
(* row names one, and all were written for the same upload, as long as one *)
(* upload of it was accepted and no delete has begun that covers it.       *)
ReadyIsWhole ==
    \A v \in Videos : status[v] = "ready" /\ Undisturbed(v) /\ AcceptedOnce(v) => Whole(v)

AtRestBeforePurge(v) ==
    /\ \A u \in Uploads : UploadOf[u] = v => up[u] \in {"done", "rejected"} /\ ~Held(u)
    /\ \A d \in Deletes : DeleteOf[d] = v => del[d] \in {"idle", "checked", "rejected"}

Gone(v) == \A n \in Names : bucket[v][n] = NoUpload

(* A delete that lists the keys after the last upload of the video has     *)
(* come to rest leaves no object behind once the row is gone: a row is not *)
(* deleted over a purge that failed or was cut off.                        *)
CleanDelete ==
    \A v \in Videos :
        [](AtRestBeforePurge(v) => [](status[v] = "deleted" => Gone(v)))

(* Every upload the server has recorded comes to an end the dashboard can  *)
(* show: its polling stops on ready and failed.                            *)
UploadSettles ==
    \A v \in Videos : status[v] = "transcoding" ~> status[v] \in {"ready", "failed", "deleted"}

(* Every temporary file is removed in the end, also behind a full channel. *)
TmpFileReclaimed == \A u \in Uploads : u \in tmp ~> u \notin tmp

-----------------------------------------------------------------------------
(* The life of a video as VideoLifecycle tells it. *)
Condemned(v) ==
    \E d \in Deletes : DeleteOf[d] = v /\ del[d] \in {"checked", "purging", "done"}

Phase(v) == IF HasRow(v) /\ Condemned(v) THEN "condemned" ELSE status[v]

Lifecycle == INSTANCE VideoLifecycle WITH
    phase <- [v \in Videos |-> Phase(v)],
    whole <- {v \in Videos : Whole(v)}

(* The pipeline implements the life VideoLifecycle describes, including    *)
(* that every transcode ends.                                              *)
ImplementsLifecycle == Lifecycle!LifecycleSpec

-----------------------------------------------------------------------------
(* What a player of v fetches is all there, and from one upload. *)
Playable(v) ==
    \E u \in Uploads : \A i \in 2..Len(UploadOrder) : bucket[v][UploadOrder[i]] = u

(* getPublicVideo (embed_handlers.go) "only ever returns a video that has  *)
(* finished transcoding, so a viewer never lands on a half-uploaded        *)
(* asset".  Two uploads that both passed the check break it.               *)
NoHalfUploadedAsset ==
    \A v \in Videos : status[v] = "ready" /\ Undisturbed(v) => Playable(v)

(* videoStorageDir (storage_paths.go) is "the object storage prefix        *)
(* holding everything for one video": what a delete of another video       *)
(* removes is not this video's.  The prefix of id 1 is also that of 10.    *)
SpareOtherVideos ==
    \A v \in Videos :
        /\ status[v] = "ready"
        /\ AcceptedOnce(v)
        /\ \A d \in Deletes : DeleteOf[d] = v => del[d] = "idle"
        => Playable(v)

(* The dashboard asks "Delete this video and all its data?".  A worker     *)
(* that is still at the video puts objects back after they were listed,    *)
(* and when its job is over nothing removes them any more.                 *)
DeletedLeavesNothing ==
    \A v \in Videos :
        status[v] = "deleted" /\ (\A u \in Uploads : UploadOf[u] = v => ~Held(u)) => Gone(v)
=============================================================================
