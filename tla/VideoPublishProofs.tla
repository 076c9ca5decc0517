-------------------------- MODULE VideoPublishProofs -------------------------
(***************************************************************************)
(* Theorems about what the bucket of VideoPipeline holds: a playlist is    *)
(* put after all it names, a ready video is whole, and a delete that       *)
(* begins when nobody is at the video leaves nothing.                      *)
(***************************************************************************)
EXTENDS VideoPipelineProofs

(* A delete holds keys only while it purges, and only keys it covers. *)
ListedInv ==
    \A d \in Deletes : \A key \in listed[d] :
        del[d] = "purging" /\ PrefixCovers(DeleteOf[d], key[1])

(* A job starts with nothing put. *)
FreshInv ==
    \A w \in Workers : pc[w] \in {"idle", "transcode", "thumbnail"} => sent[w] = 0 /\ ~thumb[w]

Writing(w, v) == pc[w] = "putting" /\ UploadOf[job[w]] = v

(* What a worker has put of an undisturbed video is there; another job of  *)
(* the same video may have overwritten it, never removed it.               *)
ProgressInv ==
    \A v \in Videos, w \in Workers : Undisturbed(v) /\ Writing(w, v) =>
        \A i \in 1..sent[w] : bucket[v][UploadOrder[i]] # NoUpload

PlaylistInv == ListedInv /\ FreshInv /\ ProgressInv /\ PlaylistComplete

(* If one upload was accepted, what its worker has put is there as put. *)
SoleProgressInv ==
    \A v \in Videos, w \in Workers : Undisturbed(v) /\ AcceptedOnce(v) /\ Writing(w, v) =>
        /\ \A i \in 1..sent[w] : bucket[v][UploadOrder[i]] = job[w]
        /\ thumb[w] => bucket[v]["thumbnail"] = job[w]

WholeFrom(v, u) ==
    /\ \A i \in 1..Len(UploadOrder) : bucket[v][UploadOrder[i]] = u
    /\ v \in thumbKey => bucket[v]["thumbnail"] = u

(* The job of u is over, but for its failure to be recorded. *)
Over(u) ==
    up[u] = "done" /\ ~InQueue(u) /\ \A w \in Workers : job[w] = u => pc[w] \in {"failing", "cleanup"}

(* A ready video got all its objects from an upload that writes no more. *)
ReadyInv ==
    \A v \in Videos : Undisturbed(v) /\ AcceptedOnce(v) /\ status[v] = "ready" =>
        \E u \in Uploads : UploadOf[u] = v /\ Over(u) /\ WholeFrom(v, u)

PublishInv == SoleProgressInv /\ ReadyInv

-----------------------------------------------------------------------------
(* What no step undoes: a delete that has begun, an accepted upload. *)
LEMMA DoneStays ==
    ASSUME TypeInv, [Next]_vars
    PROVE  /\ \A d \in Deletes : del[d] \notin {"idle", "rejected"} => del'[d] \notin {"idle", "rejected"}
           /\ \A u \in Uploads : up[u] = "done" => up'[u] = "done"
<1> USE DEF TypeInv, TypeOK, deletes, workers, rows
<1>1. ASSUME NEW v \in Videos, CreateVideo(v) PROVE UNCHANGED <<up, del>>
    BY <1>1 DEF CreateVideo
<1>2. ASSUME NEW u \in Uploads, UploadStep(u)
      PROVE  UNCHANGED del /\ up[u] # "done" /\ \A x \in Uploads : x # u => up'[x] = up[x]
    BY <1>2 DEF UploadStep, FinishUpload, CheckUpload, RejectBody, CreateTemp, CopyBody, CopyFails,
                RecordUpload, RecordFails, EnqueueJob, UploadGoes
<1>3. ASSUME NEW d \in Deletes, DeleteStep(d)
      PROVE  UNCHANGED up /\ (\A x \in Deletes : x # d => del'[x] = del[x])
             /\ (del[d] \notin {"idle", "rejected"} => del'[d] \notin {"idle", "rejected"})
    BY <1>3 DEF DeleteStep, FinishDelete, CheckDelete, ListKeys, DeleteKey, PurgeFails, DeleteRow,
                DeleteRowFails, DeleteGoes
<1>4. ASSUME NEW w \in Workers, WorkerStep(w) PROVE UNCHANGED <<up, del>>
    BY <1>4 DEF WorkerStep, TakeJob, Transcode, PutThumbnail, SkipThumbnail, PutNext, PutFails,
                MarkReady, MarkReadyFails, MarkFailed, RemoveSource
<1>5. CASE Crash
    BY <1>5 DEF Crash
<1>6. CASE UNCHANGED vars
    BY <1>6 DEF vars
<1>7. QED
    BY <1>1, <1>2, <1>3, <1>4, <1>5, <1>6 DEF Next, AtRest

LEMMA PremisesStay ==
    ASSUME TypeInv, [Next]_vars, NEW v \in Videos
    PROVE  /\ Undisturbed(v)' => Undisturbed(v)
           /\ AcceptedOnce(v)' => AcceptedOnce(v)
BY DoneStays DEF Undisturbed, AcceptedOnce

(* What Put changes. *)
LEMMA PutEffect ==
    ASSUME TypeOK, NEW u \in Uploads, NEW n \in Names, Put(u, n)
    PROVE  /\ UploadOf[u] \in Videos
           /\ \A v \in Videos : v # UploadOf[u] => bucket'[v] = bucket[v]
           /\ \A m \in Names : bucket'[UploadOf[u]][m] =
                                   IF m = n THEN u ELSE bucket[UploadOf[u]][m]
<1>1. UploadOf[u] \in Videos
    BY RequestAssumption
<1>2. bucket \in [Videos -> [Names -> Uploads \cup {NoUpload}]]
    BY DEF TypeOK
<1>3. QED
    BY <1>1, <1>2 DEF Put

-----------------------------------------------------------------------------
LEMMA ListedStep == TypeInv /\ ListedInv /\ [Next]_vars => ListedInv'
<1> SUFFICES ASSUME TypeInv, ListedInv, [Next]_vars
             PROVE  ListedInv'
    OBVIOUS
<1> USE DEF TypeInv, TypeOK, deletes, workers, rows
<1>1. ASSUME UNCHANGED deletes PROVE ListedInv'
    BY <1>1 DEF ListedInv
<1>2. ASSUME NEW v \in Videos, CreateVideo(v) PROVE ListedInv'
    BY <1>1, <1>2 DEF CreateVideo
<1>3. ASSUME NEW u \in Uploads, UploadStep(u) PROVE ListedInv'
    BY <1>1, <1>3 DEF UploadStep, FinishUpload, CheckUpload, RejectBody, CreateTemp, CopyBody,
                      CopyFails, RecordUpload, RecordFails, EnqueueJob
<1>4. ASSUME NEW d \in Deletes, DeleteStep(d) PROVE ListedInv'
  <2>1. \A x \in Deletes : x # d => del'[x] = del[x] /\ listed'[x] = listed[x]
      BY <1>4 DEF DeleteStep, FinishDelete, CheckDelete, ListKeys, DeleteKey, PurgeFails, DeleteRow,
                  DeleteRowFails, DeleteGoes
  <2>2. CASE CheckDelete(d)
      BY <2>1, <2>2 DEF CheckDelete, ListedInv
  <2>3. CASE ListKeys(d)
      BY <2>1, <2>3 DEF ListKeys, DeleteGoes, ListedInv
  <2>4. CASE DeleteKey(d)
      BY <2>1, <2>4 DEF DeleteKey, ListedInv
  <2>5. CASE PurgeFails(d)
      BY <2>1, <2>5 DEF PurgeFails, ListedInv
  <2>6. CASE DeleteRow(d) \/ DeleteRowFails(d)
      BY <2>1, <2>6 DEF DeleteRow, DeleteRowFails, ListedInv
  <2>7. QED
      BY <1>4, <2>2, <2>3, <2>4, <2>5, <2>6 DEF DeleteStep, FinishDelete
<1>5. ASSUME NEW w \in Workers, WorkerStep(w) PROVE ListedInv'
    BY <1>1, <1>5 DEF WorkerStep, TakeJob, Transcode, PutThumbnail, SkipThumbnail, PutNext, PutFails,
                      MarkReady, MarkReadyFails, MarkFailed, RemoveSource
<1>6. CASE Crash
    BY <1>6 DEF Crash, ListedInv
<1>7. CASE UNCHANGED vars
    BY <1>1, <1>7 DEF vars
<1>8. QED
    BY <1>2, <1>3, <1>4, <1>5, <1>6, <1>7 DEF Next, AtRest

LEMMA FreshStep == TypeInv /\ FreshInv /\ [Next]_vars => FreshInv'
<1> SUFFICES ASSUME TypeInv, FreshInv, [Next]_vars
             PROVE  FreshInv'
    OBVIOUS
<1> USE DEF TypeInv, TypeOK, deletes, workers, rows
<1>1. ASSUME UNCHANGED workers PROVE FreshInv'
    BY <1>1 DEF FreshInv
<1>2. ASSUME NEW v \in Videos, CreateVideo(v) PROVE FreshInv'
    BY <1>1, <1>2 DEF CreateVideo
<1>3. ASSUME NEW u \in Uploads, UploadStep(u) PROVE FreshInv'
    BY <1>1, <1>3 DEF UploadStep, FinishUpload, CheckUpload, RejectBody, CreateTemp, CopyBody,
                      CopyFails, RecordUpload, RecordFails, EnqueueJob
<1>4. ASSUME NEW d \in Deletes, DeleteStep(d) PROVE FreshInv'
    BY <1>1, <1>4 DEF DeleteStep, FinishDelete, CheckDelete, ListKeys, DeleteKey, PurgeFails,
                      DeleteRow, DeleteRowFails
<1>5. ASSUME NEW w \in Workers, WorkerStep(w) PROVE FreshInv'
    BY <1>5 DEF FreshInv, WorkerStep, TakeJob, Transcode, PutThumbnail, SkipThumbnail, PutNext,
                PutFails, MarkReady, MarkReadyFails, MarkFailed, RemoveSource, WorkerGoes
<1>6. CASE Crash
    BY <1>6 DEF Crash, FreshInv
<1>7. CASE UNCHANGED vars
    BY <1>1, <1>7 DEF vars
<1>8. QED
    BY <1>2, <1>3, <1>4, <1>5, <1>6, <1>7 DEF Next, AtRest

-----------------------------------------------------------------------------
(* A step that removes nothing from an undisturbed video, puts no playlist *)
(* and moves no worker past a file.                                        *)
Grows(v) ==
    \A i \in 1..Len(UploadOrder) :
        bucket[v][UploadOrder[i]] # NoUpload => bucket'[v][UploadOrder[i]] # NoUpload

LEMMA PlaylistFrame ==
    ASSUME TypeInv, ProgressInv, PlaylistComplete, [Next]_vars,
           \A v \in Videos : Undisturbed(v)' => Grows(v),
           \A v \in Videos : Undisturbed(v)' /\ bucket'[v]["master"] # NoUpload
                             => bucket[v]["master"] # NoUpload,
           \A x \in Workers : pc'[x] = "putting" =>
               sent'[x] = 0 \/ (pc[x] = "putting" /\ job'[x] = job[x] /\ sent'[x] = sent[x])
    PROVE  ProgressInv' /\ PlaylistComplete'
<1>1. \A v \in Videos : Undisturbed(v)' => Undisturbed(v)
    BY PremisesStay
<1>2. DOMAIN UploadOrder = 1..Len(UploadOrder) /\ Len(UploadOrder) \in Nat
    BY OrderShape
<1>3. ASSUME NEW v \in Videos, NEW x \in Workers, Undisturbed(v)', Writing(x, v)',
             NEW i \in 1..sent'[x]
      PROVE  bucket'[v][UploadOrder[i]] # NoUpload
  <2>1. pc'[x] = "putting" /\ UploadOf[job'[x]] = v
      BY <1>3 DEF Writing
  <2>2. pc[x] = "putting" /\ job'[x] = job[x] /\ sent'[x] = sent[x]
      BY <2>1
  <2>3. Undisturbed(v) /\ Writing(x, v) /\ i \in 1..sent[x]
      BY <1>1, <1>3, <2>1, <2>2 DEF Writing
  <2>4. bucket[v][UploadOrder[i]] # NoUpload
      BY <2>3 DEF ProgressInv
  <2>5. i \in 1..Len(UploadOrder)
      BY <1>2, <2>3 DEF TypeInv, TypeOK
  <2>6. QED
      BY <1>3, <2>4, <2>5 DEF Grows
<1>4. PlaylistComplete'
    BY <1>1, <1>2 DEF PlaylistComplete, Grows
<1>5. QED
    BY <1>3, <1>4 DEF ProgressInv

(* A worker puts its next file. *)
LEMMA PlaylistPut ==
    ASSUME TypeInv, ProgressInv, PlaylistComplete, [Next]_vars, NEW w \in Workers,
           pc[w] = "putting", sent[w] < Len(UploadOrder), Put(job[w], UploadOrder[sent[w] + 1]),
           UNCHANGED job,
           \A x \in Workers : x # w => pc'[x] = pc[x] /\ sent'[x] = sent[x],
           pc'[w] = "putting" => sent'[w] = sent[w] + 1
    PROVE  ProgressInv' /\ PlaylistComplete'
<1> DEFINE u == job[w]
           k == sent[w] + 1
<1>1. /\ DOMAIN UploadOrder = 1..Len(UploadOrder) /\ Len(UploadOrder) \in Nat
      /\ sent[w] \in Nat /\ k \in 1..Len(UploadOrder) /\ \A i \in 1..k : i = k \/ i \in 1..sent[w]
    BY OrderShape DEF TypeInv, TypeOK
<1>2. UploadOrder[k] \in Names /\ \A i \in 1..Len(UploadOrder) : UploadOrder[i] \in Names
    BY <1>1, OrderShape
<1>3. u \in Uploads /\ u # NoUpload
    BY RequestAssumption DEF TypeInv, TypeOK, WorkerHasJob
<1>4. /\ UploadOf[u] \in Videos
      /\ \A v \in Videos : v # UploadOf[u] => bucket'[v] = bucket[v]
      /\ \A m \in Names : bucket'[UploadOf[u]][m] =
                              IF m = UploadOrder[k] THEN u ELSE bucket[UploadOf[u]][m]
    BY <1>2, <1>3, PutEffect DEF TypeInv
<1>5. \A v \in Videos : Grows(v)
    BY <1>2, <1>3, <1>4 DEF Grows
<1>6. bucket'[UploadOf[u]][UploadOrder[k]] # NoUpload
    BY <1>2, <1>3, <1>4
<1>7. \A v \in Videos : Undisturbed(v)' => Undisturbed(v)
    BY PremisesStay
<1>8. ASSUME NEW v \in Videos, NEW x \in Workers, Undisturbed(v)', Writing(x, v)',
             NEW i \in 1..sent'[x]
      PROVE  bucket'[v][UploadOrder[i]] # NoUpload
  <2>1. pc[x] = "putting" /\ UploadOf[job[x]] = v /\ Writing(x, v) /\ Undisturbed(v)
      BY <1>7, <1>8 DEF Writing
  <2>2. \A j \in 1..sent[x] : bucket[v][UploadOrder[j]] # NoUpload
      BY <2>1 DEF ProgressInv
  <2>3. \A j \in 1..sent[x] : j \in 1..Len(UploadOrder)
      BY <1>1 DEF TypeInv, TypeOK
  <2>4. \A j \in 1..sent[x] : bucket'[v][UploadOrder[j]] # NoUpload
      BY <1>5, <2>2, <2>3 DEF Grows
  <2>5. i \in 1..sent[x] \/ (x = w /\ i = k)
      BY <1>1, <1>8 DEF Writing
  <2>6. QED
      BY <1>6, <2>1, <2>4, <2>5
<1>9. ASSUME NEW v \in Videos, Undisturbed(v)', bucket'[v]["master"] # NoUpload,
             NEW i \in 1..Len(UploadOrder)
      PROVE  bucket'[v][UploadOrder[i]] # NoUpload
  <2>1. CASE bucket[v]["master"] # NoUpload
      BY <1>1, <1>5, <1>7, <1>9, <2>1 DEF PlaylistComplete, Grows
  <2>2. CASE bucket[v]["master"] = NoUpload
    <3>1. v = UploadOf[u] /\ UploadOrder[k] = "master"
        BY <1>4, <1>9, <2>2, OrderShape
    <3>2. k = Len(UploadOrder)
        BY <1>1, <3>1, OrderShape
    <3>3. i = k \/ i \in 1..sent[w]
        BY <1>1, <3>2
    <3>4. Writing(w, v) /\ Undisturbed(v)
        BY <1>7, <1>9, <3>1 DEF Writing
    <3>5. i \in 1..sent[w] => bucket[v][UploadOrder[i]] # NoUpload
        BY <3>4 DEF ProgressInv
    <3>6. QED
        BY <1>5, <1>6, <3>1, <3>3, <3>5 DEF Grows
  <2>3. QED
      BY <2>1, <2>2
<1>10. PlaylistComplete'
    BY <1>1, <1>9 DEF PlaylistComplete
<1>11. QED
    BY <1>8, <1>10 DEF ProgressInv

LEMMA PlaylistDelete ==
    ASSUME TypeInv, PlaylistInv, [Next]_vars, NEW d \in Deletes, DeleteStep(d)
    PROVE  ProgressInv' /\ PlaylistComplete'
<1>1. UNCHANGED workers
    BY DEF DeleteStep, FinishDelete, CheckDelete, ListKeys, DeleteKey, PurgeFails, DeleteRow,
           DeleteRowFails
<1>2. CASE DeleteKey(d)
  <2>1. PICK key \in listed[d] : bucket' = [bucket EXCEPT ![key[1]][key[2]] = NoUpload]
      BY <1>2 DEF DeleteKey
  <2>2. del[d] = "purging" /\ del' = del /\ PrefixCovers(DeleteOf[d], key[1]) /\ key[1] \in Videos
      BY <1>2, <2>1 DEF DeleteKey, PlaylistInv, ListedInv, TypeInv, TypeOK, Keys
  <2>3. ~Undisturbed(key[1])'
      BY <2>2 DEF Undisturbed
  <2>4. \A v \in Videos : Undisturbed(v)' => bucket'[v] = bucket[v]
      BY <2>1, <2>2, <2>3 DEF TypeInv, TypeOK
  <2>5. QED
      BY <1>1, <2>4, PlaylistFrame DEF Grows, PlaylistInv, workers
<1>3. CASE ~DeleteKey(d)
  <2>1. UNCHANGED bucket
      BY <1>3 DEF DeleteStep, FinishDelete, CheckDelete, ListKeys, PurgeFails, DeleteRow,
                  DeleteRowFails
  <2>2. QED
      BY <1>1, <2>1, PlaylistFrame DEF Grows, PlaylistInv, workers
<1>4. QED
    BY <1>2, <1>3

(* A thumbnail is no file of UploadOrder. *)
LEMMA ThumbnailApart ==
    ASSUME TypeOK, NEW u \in Uploads, Put(u, "thumbnail")
    PROVE  \A v \in Videos, i \in 1..Len(UploadOrder) :
               bucket'[v][UploadOrder[i]] = bucket[v][UploadOrder[i]]
<1>1. "thumbnail" \in Names
    BY OrderShape
<1>2. \A i \in 1..Len(UploadOrder) : UploadOrder[i] \in Names /\ UploadOrder[i] # "thumbnail"
    BY OrderShape
<1>3. QED
    BY <1>1, <1>2, PutEffect

LEMMA PlaylistWorker ==
    ASSUME TypeInv, PlaylistInv, [Next]_vars, NEW w \in Workers, WorkerStep(w)
    PROVE  ProgressInv' /\ PlaylistComplete'
<1> USE DEF PlaylistInv, WorkerGoes
<1>1. pc[w] # "idle" => job[w] \in Uploads
    BY DEF TypeInv, WorkerHasJob
<1>2. \E i \in 1..Len(UploadOrder) : UploadOrder[i] = "master"
    BY OrderShape
<1>3. CASE PutNext(w)
    BY <1>3, PlaylistPut DEF PutNext, TypeInv, TypeOK
<1>4. CASE PutFails(w) /\ Put(job[w], UploadOrder[sent[w] + 1])
    BY <1>4, PlaylistPut DEF PutFails, TypeInv, TypeOK
<1>5. CASE pc[w] = "thumbnail" /\ Put(job[w], "thumbnail")
  <2>1. \A v \in Videos, i \in 1..Len(UploadOrder) :
            bucket'[v][UploadOrder[i]] = bucket[v][UploadOrder[i]]
      BY <1>1, <1>5, ThumbnailApart DEF TypeInv
  <2>2. PutThumbnail(w) \/ SkipThumbnail(w)
      BY <1>5 DEF WorkerStep, TakeJob, Transcode, PutNext, PutFails, MarkReady, MarkReadyFails,
                  MarkFailed, RemoveSource
  <2>3. /\ sent[w] = 0 /\ UNCHANGED <<job, sent>>
        /\ \A x \in Workers : x # w => pc'[x] = pc[x]
      BY <1>5, <2>2 DEF PutThumbnail, SkipThumbnail, FreshInv, TypeInv, TypeOK
  <2>4. QED
      BY <1>2, <2>1, <2>3, PlaylistFrame DEF Grows
<1>6. CASE UNCHANGED bucket /\ ~PutNext(w)
  <2>1. /\ \A x \in Workers : x # w => pc'[x] = pc[x] /\ job'[x] = job[x] /\ sent'[x] = sent[x]
        /\ pc'[w] = "putting" => sent'[w] = 0
      BY <1>6 DEF WorkerStep, TakeJob, Transcode, PutThumbnail, SkipThumbnail, PutFails, MarkReady,
                  MarkReadyFails, MarkFailed, RemoveSource, FreshInv, TypeInv, TypeOK
  <2>2. QED
      BY <1>6, <2>1, PlaylistFrame DEF Grows
<1>7. QED
    BY <1>3, <1>4, <1>5, <1>6 DEF WorkerStep, TakeJob, Transcode, PutThumbnail, SkipThumbnail,
                                  PutFails, MarkReady, MarkReadyFails, MarkFailed, RemoveSource

LEMMA PlaylistInit == Init => PlaylistInv
BY OrderShape DEF Init, PlaylistInv, ListedInv, FreshInv, ProgressInv, Writing, PlaylistComplete

LEMMA PlaylistStep == TypeInv /\ PlaylistInv /\ [Next]_vars => PlaylistInv'
<1> SUFFICES ASSUME TypeInv, PlaylistInv, [Next]_vars
             PROVE  ProgressInv' /\ PlaylistComplete'
    BY ListedStep, FreshStep DEF PlaylistInv
<1> USE DEF PlaylistInv
<1>1. ASSUME UNCHANGED <<bucket, workers>> PROVE ProgressInv' /\ PlaylistComplete'
    BY <1>1, PlaylistFrame DEF Grows, workers
<1>2. ASSUME NEW v \in Videos, CreateVideo(v) PROVE ProgressInv' /\ PlaylistComplete'
    BY <1>1, <1>2 DEF CreateVideo
<1>3. ASSUME NEW u \in Uploads, UploadStep(u) PROVE ProgressInv' /\ PlaylistComplete'
    BY <1>1, <1>3 DEF UploadStep, FinishUpload, CheckUpload, RejectBody, CreateTemp, CopyBody,
                      CopyFails, RecordUpload, RecordFails, EnqueueJob
<1>4. CASE Crash
  <2>1. UNCHANGED bucket /\ \A x \in Workers : pc'[x] # "putting"
      BY <1>4 DEF Crash
  <2>2. QED
      BY <2>1, PlaylistFrame DEF Grows
<1>5. CASE UNCHANGED vars
    BY <1>1, <1>5 DEF vars
<1>6. QED
    BY <1>2, <1>3, <1>4, <1>5, PlaylistDelete, PlaylistWorker DEF Next, AtRest

(* What process has put of a video nobody deletes is there                 *)
(* (transcode_queue.go, process).                                          *)
THEOREM PlaylistInvariant == Spec => []PlaylistInv
BY PlaylistInit, PlaylistStep, TypeInvariant, PTL DEF Spec

(* A master playlist in the bucket never names a file that is not there,   *)
(* for every set of rendition files, workers, faults and restarts.         *)
THEOREM PlaylistsComplete == Spec => []PlaylistComplete
<1>1. PlaylistInv => PlaylistComplete
    BY DEF PlaylistInv
<1>2. QED
    BY <1>1, PlaylistInvariant, PTL

-----------------------------------------------------------------------------
(* With one accepted upload a video has at most one worker at it. *)
LEMMA OneWriter ==
    ASSUME TypeInv, HolderInv, NEW v \in Videos, AcceptedOnce(v),
           NEW u \in Uploads, UploadOf[u] = v, up[u] = "done",
           NEW w \in Workers, job[w] \in Uploads, UploadOf[job[w]] = v
    PROVE  job[w] = u
<1>1. up[job[w]] = "done"
    BY DEF HolderInv, JobHeldOnce, InWorker
<1>2. QED
    BY <1>1 DEF AcceptedOnce

(* A job that is over stays over. *)
LEMMA OverStays ==
    ASSUME TypeInv, [Next]_vars, NEW u \in Uploads, Over(u)
    PROVE  Over(u)'
<1>1. up[u] = "done" /\ up'[u] = "done" /\ ~InQueue(u)
      /\ \A w \in Workers : job[w] = u => pc[w] \in {"failing", "cleanup"}
    BY DoneStays DEF Over
<1>2. u # NoUpload
    BY RequestAssumption
<1>3. ASSUME UNCHANGED <<queue, pc, job>> PROVE Over(u)'
    BY <1>1, <1>3 DEF Over, InQueue
<1>4. ASSUME NEW v \in Videos, CreateVideo(v) PROVE Over(u)'
    BY <1>3, <1>4 DEF CreateVideo, workers
<1>5. ASSUME NEW x \in Uploads, UploadStep(x) PROVE Over(u)'
  <2>1. CASE EnqueueJob(x)
    <3>1. x # u /\ queue' = Append(queue, x) /\ queue \in Seq(Uploads) /\ UNCHANGED <<pc, job>>
        BY <1>1, <2>1 DEF EnqueueJob, workers, TypeInv, TypeOK
    <3>2. \A y : (\E i \in DOMAIN queue' : queue'[i] = y)
                 <=> (\E i \in DOMAIN queue : queue[i] = y) \/ y = x
        BY <3>1, AppendHolds
    <3>3. ~InQueue(u)'
        BY <1>1, <3>1, <3>2 DEF InQueue
    <3>4. QED
        BY <1>1, <3>1, <3>3 DEF Over
  <2>2. CASE ~EnqueueJob(x)
      BY <1>3, <1>5, <2>2 DEF UploadStep, FinishUpload, CheckUpload, RejectBody, CreateTemp, CopyBody,
                              CopyFails, RecordUpload, RecordFails, workers
  <2>3. QED
      BY <2>1, <2>2
<1>6. ASSUME NEW d \in Deletes, DeleteStep(d) PROVE Over(u)'
    BY <1>3, <1>6 DEF DeleteStep, FinishDelete, CheckDelete, ListKeys, DeleteKey, PurgeFails,
                      DeleteRow, DeleteRowFails, workers
<1>7. ASSUME NEW w \in Workers, WorkerStep(w) PROVE Over(u)'
  <2>1. CASE TakeJob(w)
    <3>1. queue \in Seq(Uploads) /\ queue # <<>> /\ queue' = Tail(queue)
          /\ job' = [job EXCEPT ![w] = Head(queue)] /\ pc' = [pc EXCEPT ![w] = "transcode"]
        BY <2>1 DEF TakeJob, WorkerGoes, TypeInv, TypeOK
    <3>2. /\ \A i \in DOMAIN queue' : i + 1 \in DOMAIN queue /\ queue'[i] = queue[i + 1]
          /\ 1 \in DOMAIN queue /\ Head(queue) = queue[1]
        BY <3>1
    <3>3. ~InQueue(u)' /\ Head(queue) # u
        BY <1>1, <3>2 DEF InQueue
    <3>4. \A x \in Workers : job'[x] = u => job[x] = u /\ pc'[x] = pc[x]
        BY <3>1, <3>3 DEF TypeInv, TypeOK
    <3>5. QED
        BY <1>1, <3>3, <3>4 DEF Over
  <2>2. CASE RemoveSource(w)
    <3>1. queue' = queue /\ \A x \in Workers : job'[x] = u => job[x] = u /\ pc'[x] = pc[x]
        BY <1>2, <2>2 DEF RemoveSource, WorkerGoes, TypeInv, TypeOK
    <3>2. QED
        BY <1>1, <3>1 DEF Over, InQueue
  <2>3. CASE ~TakeJob(w) /\ ~RemoveSource(w)
    <3>1. /\ UNCHANGED <<queue, job>> /\ \A x \in Workers : x # w => pc'[x] = pc[x]
          /\ pc[w] = "failing" => pc'[w] = "cleanup"
          /\ pc[w] # "cleanup"
        BY <1>7, <2>3 DEF WorkerStep, Transcode, PutThumbnail, SkipThumbnail, PutNext, PutFails,
                          MarkReady, MarkReadyFails, MarkFailed, WorkerGoes, TypeInv, TypeOK
    <3>2. QED
        BY <1>1, <3>1 DEF Over, InQueue
  <2>4. QED
      BY <2>1, <2>2, <2>3
<1>8. CASE Crash
  <2>1. queue' = <<>> /\ \A w \in Workers : job'[w] = NoUpload
      BY <1>8 DEF Crash
  <2>2. DOMAIN queue' = {}
      BY <2>1
  <2>3. QED
      BY <1>1, <1>2, <2>1, <2>2 DEF Over, InQueue
<1>9. CASE UNCHANGED vars
    BY <1>3, <1>9 DEF vars, workers
<1>10. QED
    BY <1>4, <1>5, <1>6, <1>7, <1>8, <1>9 DEF Next, AtRest

(* The objects of an undisturbed video change in a step of its worker. *)
LEMMA BucketStep ==
    ASSUME TypeInv, ListedInv, [Next]_vars, NEW v \in Videos, Undisturbed(v)'
    PROVE  \/ bucket'[v] = bucket[v]
           \/ \E w \in Workers : /\ pc[w] \in {"thumbnail", "putting"}
                                 /\ UploadOf[job[w]] = v
                                 /\ pc'[w] # pc[w] \/ sent'[w] # sent[w]
<1>1. CASE UNCHANGED bucket
    BY <1>1
<1>2. ASSUME NEW d \in Deletes, DeleteStep(d) PROVE bucket'[v] = bucket[v]
  <2>1. CASE DeleteKey(d)
    <3>1. PICK key \in listed[d] : bucket' = [bucket EXCEPT ![key[1]][key[2]] = NoUpload]
        BY <2>1 DEF DeleteKey
    <3>2. del[d] = "purging" /\ del' = del /\ PrefixCovers(DeleteOf[d], key[1]) /\ key[1] \in Videos
        BY <2>1, <3>1 DEF DeleteKey, ListedInv, TypeInv, TypeOK, Keys
    <3>3. key[1] # v
        BY <3>2 DEF Undisturbed
    <3>4. QED
        BY <3>1, <3>3 DEF TypeInv, TypeOK
  <2>2. CASE ~DeleteKey(d)
      BY <1>2, <2>2 DEF DeleteStep, FinishDelete, CheckDelete, ListKeys, PurgeFails, DeleteRow,
                        DeleteRowFails
  <2>3. QED
      BY <2>1, <2>2
<1>3. ASSUME NEW w \in Workers, WorkerStep(w), bucket' # bucket
      PROVE  /\ pc[w] \in {"thumbnail", "putting"}
             /\ pc'[w] # pc[w] \/ sent'[w] # sent[w]
             /\ \A x \in Videos : x # UploadOf[job[w]] => bucket'[x] = bucket[x]
  <2>1. PutThumbnail(w) \/ SkipThumbnail(w) \/ PutNext(w) \/ PutFails(w)
      BY <1>3 DEF WorkerStep, TakeJob, Transcode, MarkReady, MarkReadyFails, MarkFailed, RemoveSource
  <2>2. pc[w] \in {"thumbnail", "putting"} /\ (pc'[w] # pc[w] \/ sent'[w] # sent[w])
      BY <2>1, OrderShape DEF PutThumbnail, SkipThumbnail, PutNext, PutFails, WorkerGoes, TypeInv, TypeOK
  <2>3. job[w] \in Uploads
      BY <2>2 DEF TypeInv, WorkerHasJob
  <2>4. \E n : Put(job[w], n)
      BY <1>3, <2>1 DEF PutThumbnail, SkipThumbnail, PutNext, PutFails
  <2>5. \A x \in Videos : x # UploadOf[job[w]] => bucket'[x] = bucket[x]
      BY <2>3, <2>4, RequestAssumption DEF Put, TypeInv, TypeOK
  <2>6. QED
      BY <2>2, <2>5
<1>4. ASSUME NEW x \in Videos, CreateVideo(x) PROVE UNCHANGED bucket
    BY <1>4 DEF CreateVideo
<1>5. ASSUME NEW u \in Uploads, UploadStep(u) PROVE UNCHANGED bucket
    BY <1>5 DEF UploadStep, FinishUpload, CheckUpload, RejectBody, CreateTemp, CopyBody, CopyFails,
                RecordUpload, RecordFails, EnqueueJob
<1>6. Crash \/ UNCHANGED vars => UNCHANGED bucket
    BY DEF Crash, vars
<1>7. QED
    BY <1>1, <1>2, <1>3, <1>4, <1>5, <1>6 DEF Next, AtRest

(* A video becomes ready, and its row gets a thumbnail, by its worker only. *)
LEMMA ReadyStatus ==
    ASSUME TypeInv, [Next]_vars, NEW v \in Videos, status'[v] = "ready"
    PROVE  \/ status[v] = "ready" /\ (v \in thumbKey' => v \in thumbKey)
           \/ \E w \in Workers :
                 /\ pc[w] = "putting" /\ sent[w] = Len(UploadOrder) /\ UploadOf[job[w]] = v
                 /\ pc' \in [Workers -> WorkerPlaces] /\ pc'[w] \in {"cleanup", "failing"}
                 /\ v \in thumbKey' => thumb[w]
                 /\ UNCHANGED <<bucket, up, queue, job>>
<1> USE DEF TypeInv, TypeOK, rows
<1>1. TypeInv'
    BY TypeStep
<1>2. CASE UNCHANGED rows
    BY <1>2
<1>3. ASSUME NEW x \in Videos, CreateVideo(x) PROVE status[v] = "ready" /\ UNCHANGED thumbKey
    BY <1>3 DEF CreateVideo
<1>4. ASSUME NEW u \in Uploads, UploadStep(u) PROVE status[v] = "ready" /\ UNCHANGED thumbKey
    BY <1>4, RequestAssumption DEF UploadStep, FinishUpload, CheckUpload, RejectBody, CreateTemp, CopyBody,
                CopyFails, RecordUpload, RecordFails, EnqueueJob, SetStatus
<1>5. ASSUME NEW d \in Deletes, DeleteStep(d)
      PROVE  status[v] = "ready" /\ (v \in thumbKey' => v \in thumbKey)
    BY <1>5, RequestAssumption DEF DeleteStep, FinishDelete, CheckDelete, ListKeys, DeleteKey, PurgeFails,
                DeleteRow, DeleteRowFails, SetStatus
<1>6. ASSUME NEW w \in Workers, WorkerStep(w), ~UNCHANGED rows
      PROVE  \/ status[v] = "ready" /\ (v \in thumbKey' => v \in thumbKey)
             \/ /\ pc[w] = "putting" /\ sent[w] = Len(UploadOrder) /\ UploadOf[job[w]] = v
                /\ pc'[w] \in {"cleanup", "failing"}
                /\ v \in thumbKey' => thumb[w]
                /\ UNCHANGED <<bucket, up, queue, job>>
  <2>1. MarkReady(w) \/ MarkReadyFails(w) \/ MarkFailed(w)
      BY <1>6 DEF WorkerStep, TakeJob, Transcode, PutThumbnail, SkipThumbnail, PutNext, PutFails,
                  RemoveSource
  <2>2. UploadOf[job[w]] \in Videos
      BY <2>1, RequestAssumption DEF MarkReady, MarkReadyFails, MarkFailed, WorkerHasJob
  <2>3. CASE MarkFailed(w)
      BY <2>2, <2>3 DEF MarkFailed, SetStatus
  <2>4. CASE MarkReady(w) \/ MarkReadyFails(w)
    <3>1. /\ SaveReady(UploadOf[job[w]], thumb[w])
          /\ pc[w] = "putting" /\ sent[w] = Len(UploadOrder)
          /\ pc'[w] \in {"cleanup", "failing"} /\ UNCHANGED <<bucket, up, queue, job>>
        BY <1>6, <2>4 DEF MarkReady, MarkReadyFails, WorkerGoes
    <3>2. CASE UploadOf[job[w]] = v
        BY <3>1, <3>2 DEF SaveReady
    <3>3. CASE UploadOf[job[w]] # v
        BY <2>2, <3>1, <3>3 DEF SaveReady, SetStatus
    <3>4. QED
        BY <3>2, <3>3
  <2>5. QED
      BY <2>1, <2>3, <2>4
<1>7. Crash \/ UNCHANGED vars => UNCHANGED rows
    BY DEF Crash, vars
<1>8. QED
    BY <1>1, <1>2, <1>3, <1>4, <1>5, <1>6, <1>7 DEF Next, AtRest

(* How a worker comes to be putting, and to the counts it has then. *)
LEMMA WritingStep ==
    ASSUME TypeInv, FreshInv, [Next]_vars, NEW w \in Workers, pc'[w] = "putting"
    PROVE  \/ PutNext(w)
           \/ PutThumbnail(w) /\ sent[w] = 0
           \/ SkipThumbnail(w) /\ sent[w] = 0 /\ ~thumb[w]
           \/ /\ pc[w] = "putting" /\ job'[w] = job[w] /\ sent'[w] = sent[w] /\ thumb'[w] = thumb[w]
<1>1. CASE UNCHANGED workers
    BY <1>1 DEF workers
<1>2. ASSUME NEW x \in Workers, WorkerStep(x), x # w
      PROVE  pc'[w] = pc[w] /\ job'[w] = job[w] /\ sent'[w] = sent[w] /\ thumb'[w] = thumb[w]
    BY <1>2 DEF WorkerStep, TakeJob, Transcode, PutThumbnail, SkipThumbnail, PutNext, PutFails,
                MarkReady, MarkReadyFails, MarkFailed, RemoveSource, WorkerGoes, TypeInv, TypeOK
<1>3. ASSUME WorkerStep(w) PROVE PutNext(w) \/ PutThumbnail(w) \/ SkipThumbnail(w)
    BY <1>3 DEF WorkerStep, TakeJob, Transcode, PutFails, MarkReady, MarkReadyFails, MarkFailed,
                RemoveSource, WorkerGoes, TypeInv, TypeOK
<1>4. PutThumbnail(w) \/ SkipThumbnail(w) => sent[w] = 0 /\ ~thumb[w]
    BY DEF PutThumbnail, SkipThumbnail, FreshInv
<1>5. ASSUME NEW x \in Videos, CreateVideo(x) PROVE UNCHANGED workers
    BY <1>5 DEF CreateVideo
<1>6. ASSUME NEW u \in Uploads, UploadStep(u) PROVE UNCHANGED workers
    BY <1>6 DEF UploadStep, FinishUpload, CheckUpload, RejectBody, CreateTemp, CopyBody, CopyFails,
                RecordUpload, RecordFails, EnqueueJob
<1>7. ASSUME NEW d \in Deletes, DeleteStep(d) PROVE UNCHANGED workers
    BY <1>7 DEF DeleteStep, FinishDelete, CheckDelete, ListKeys, DeleteKey, PurgeFails, DeleteRow,
                DeleteRowFails
<1>8. ~Crash
    BY DEF Crash
<1>9. UNCHANGED vars => UNCHANGED workers
    BY DEF vars
<1>10. QED
    BY <1>1, <1>2, <1>3, <1>4, <1>5, <1>6, <1>7, <1>8, <1>9 DEF Next, AtRest

LEMMA SoleStep ==
    TypeInv /\ HolderInv /\ PlaylistInv /\ SoleProgressInv /\ [Next]_vars => SoleProgressInv'
<1> SUFFICES ASSUME TypeInv, HolderInv, PlaylistInv, SoleProgressInv, [Next]_vars,
                    NEW v \in Videos, NEW w \in Workers,
                    Undisturbed(v)', AcceptedOnce(v)', Writing(w, v)'
             PROVE  /\ \A i \in 1..sent'[w] : bucket'[v][UploadOrder[i]] = job'[w]
                    /\ thumb'[w] => bucket'[v]["thumbnail"] = job'[w]
    BY DEF SoleProgressInv
<1>1. Undisturbed(v) /\ AcceptedOnce(v)
    BY PremisesStay
<1>2. pc'[w] = "putting" /\ UploadOf[job'[w]] = v
    BY DEF Writing
<1>3. /\ Len(UploadOrder) \in Nat
      /\ \A i \in 1..Len(UploadOrder) : UploadOrder[i] \in Names /\ UploadOrder[i] # "thumbnail"
    BY OrderShape
<1>4. "thumbnail" \in Names
    BY OrderShape
<1>5. pc[w] # "idle" => job[w] \in Uploads
    BY DEF TypeInv, WorkerHasJob
<1>6. CASE PutNext(w)
  <2> DEFINE k == sent[w] + 1
  <2>1. /\ pc[w] = "putting" /\ UNCHANGED <<job, thumb>> /\ Put(job[w], UploadOrder[k])
        /\ sent'[w] = k /\ k \in 1..Len(UploadOrder) /\ sent[w] \in Nat
      BY <1>3, <1>6 DEF PutNext, TypeInv, TypeOK
  <2>2. /\ \A i \in 1..sent[w] : bucket[v][UploadOrder[i]] = job[w]
        /\ thumb[w] => bucket[v]["thumbnail"] = job[w]
      BY <1>1, <1>2, <2>1 DEF SoleProgressInv, Writing
  <2>3. \A m \in Names : bucket'[v][m] = IF m = UploadOrder[k] THEN job[w] ELSE bucket[v][m]
      BY <1>2, <1>3, <1>5, <2>1, PutEffect DEF TypeInv
  <2>4. \A i \in 1..sent'[w] : i = k \/ i \in 1..sent[w]
      BY <2>1
  <2>5. \A i \in 1..sent'[w] : UploadOrder[i] \in Names
      BY <1>3, <2>1
  <2>6. \A i \in 1..sent'[w] : bucket'[v][UploadOrder[i]] = job[w]
      BY <2>2, <2>3, <2>4, <2>5
  <2>7. thumb[w] => bucket'[v]["thumbnail"] = job[w]
      BY <1>3, <1>4, <2>1, <2>2, <2>3
  <2>8. QED
      BY <2>1, <2>6, <2>7
<1>7. CASE PutThumbnail(w) /\ sent[w] = 0
  <2>1. Put(job[w], "thumbnail") /\ UNCHANGED <<job, sent>> /\ pc[w] # "idle"
      BY <1>7 DEF PutThumbnail
  <2>2. bucket'[v]["thumbnail"] = job[w]
      BY <1>2, <1>4, <1>5, <2>1, PutEffect DEF TypeInv
  <2>3. QED
      BY <1>7, <2>1, <2>2
<1>8. CASE SkipThumbnail(w) /\ sent[w] = 0 /\ ~thumb[w]
    BY <1>8 DEF SkipThumbnail
<1>9. CASE pc[w] = "putting" /\ job'[w] = job[w] /\ sent'[w] = sent[w] /\ thumb'[w] = thumb[w]
  <2>1. /\ \A i \in 1..sent[w] : bucket[v][UploadOrder[i]] = job[w]
        /\ thumb[w] => bucket[v]["thumbnail"] = job[w]
      BY <1>1, <1>2, <1>9 DEF SoleProgressInv, Writing
  <2>2. ASSUME NEW x \in Workers, pc[x] \in {"thumbnail", "putting"}, UploadOf[job[x]] = v,
               pc'[x] # pc[x] \/ sent'[x] # sent[x]
        PROVE  FALSE
    <3>1. x # w
        BY <1>2, <1>9, <2>2
    <3>2. job[w] \in Uploads /\ job[x] \in Uploads
        BY <1>9, <2>2 DEF TypeInv, WorkerHasJob
    <3>3. up[job[w]] = "done"
        BY <3>2 DEF HolderInv, JobHeldOnce, InWorker
    <3>4. job[x] = job[w]
        BY <1>1, <1>2, <1>9, <2>2, <3>2, <3>3, OneWriter
    <3>5. QED
        BY <3>1, <3>2, <3>4, RequestAssumption DEF HolderInv, JobHeldOnce
  <2>3. bucket'[v] = bucket[v]
      BY <2>2, BucketStep DEF PlaylistInv
  <2>4. QED
      BY <1>9, <2>1, <2>3
<1>10. QED
    BY <1>2, <1>6, <1>7, <1>8, <1>9, WritingStep DEF PlaylistInv

LEMMA ReadyStep ==
    TypeInv /\ HolderInv /\ PlaylistInv /\ PublishInv /\ [Next]_vars => ReadyInv'
<1> SUFFICES ASSUME TypeInv, HolderInv, PlaylistInv, PublishInv, [Next]_vars,
                    NEW v \in Videos, Undisturbed(v)', AcceptedOnce(v)', status'[v] = "ready"
             PROVE  \E u \in Uploads : UploadOf[u] = v /\ Over(u)' /\ WholeFrom(v, u)'
    BY DEF ReadyInv
<1>1. Undisturbed(v) /\ AcceptedOnce(v)
    BY PremisesStay
<1>2. CASE status[v] = "ready" /\ (v \in thumbKey' => v \in thumbKey)
  <2>1. PICK u \in Uploads : UploadOf[u] = v /\ Over(u) /\ WholeFrom(v, u)
      BY <1>1, <1>2 DEF PublishInv, ReadyInv
  <2>2. Over(u)'
      BY <2>1, OverStays
  <2>3. ASSUME NEW w \in Workers, pc[w] \in {"thumbnail", "putting"}, UploadOf[job[w]] = v
        PROVE  FALSE
    <3>1. job[w] \in Uploads
        BY <2>3 DEF TypeInv, WorkerHasJob
    <3>2. job[w] = u
        BY <1>1, <2>1, <2>3, <3>1, OneWriter DEF Over
    <3>3. QED
        BY <2>1, <2>3, <3>2 DEF Over
  <2>4. bucket'[v] = bucket[v]
      BY <2>3, BucketStep DEF PlaylistInv
  <2>5. WholeFrom(v, u)'
      BY <1>2, <2>1, <2>4 DEF WholeFrom
  <2>6. QED
      BY <2>1, <2>2, <2>5
<1>3. ASSUME NEW w \in Workers,
             pc[w] = "putting", sent[w] = Len(UploadOrder), UploadOf[job[w]] = v,
             pc'[w] \in {"cleanup", "failing"},
             v \in thumbKey' => thumb[w],
             UNCHANGED <<bucket, up, queue, job>>
      PROVE  \E u \in Uploads : UploadOf[u] = v /\ Over(u)' /\ WholeFrom(v, u)'
  <2>1. job[w] \in Uploads /\ job[w] # NoUpload
      BY <1>3, RequestAssumption DEF TypeInv, WorkerHasJob
  <2>2. up[job[w]] = "done" /\ ~InQueue(job[w]) /\ \A x \in Workers : job[x] = job[w] => x = w
      BY <2>1 DEF HolderInv, JobHeldOnce, InWorker
  <2>3. Over(job[w])'
      BY <1>3, <2>2 DEF Over, InQueue
  <2>4. /\ \A i \in 1..Len(UploadOrder) : bucket[v][UploadOrder[i]] = job[w]
        /\ thumb[w] => bucket[v]["thumbnail"] = job[w]
      BY <1>1, <1>3 DEF PublishInv, SoleProgressInv, Writing
  <2>5. WholeFrom(v, job[w])'
      BY <1>3, <2>4 DEF WholeFrom
  <2>6. QED
      BY <1>3, <2>1, <2>3, <2>5
<1>4. QED
    BY <1>2, <1>3, ReadyStatus

LEMMA PublishInit == Init => PublishInv
BY DEF Init, PublishInv, SoleProgressInv, ReadyInv, Writing

LEMMA PublishStep ==
    TypeInv /\ HolderInv /\ PlaylistInv /\ PublishInv /\ [Next]_vars => PublishInv'
BY SoleStep, ReadyStep DEF PublishInv

(* What process has put for the only upload is there as put, and stays     *)
(* (transcode_queue.go, process).                                          *)
THEOREM PublishInvariant == Spec => []PublishInv
BY PublishInit, PublishStep, TypeInvariant, HolderInvariant, PlaylistInvariant, PTL DEF Spec

(* A ready video is whole when one upload of it was accepted and no delete *)
(* has begun that covers it, for every set of rendition files, workers,    *)
(* faults and restarts.                                                    *)
THEOREM ReadyVideosWhole == Spec => []ReadyIsWhole
<1>1. DOMAIN UploadOrder = 1..Len(UploadOrder)
    BY OrderShape
<1>2. PublishInv => ReadyIsWhole
    BY <1>1 DEF PublishInv, ReadyInv, WholeFrom, ReadyIsWhole, Whole
<1>3. QED
    BY <1>2, PublishInvariant, PTL

-----------------------------------------------------------------------------
(* A clean delete.  Once the uploads of a video have come to rest nobody   *)
(* puts an object of it back, so what a purge has listed is all there is.  *)
Settled(v) ==
    \A u \in Uploads : UploadOf[u] = v => up[u] \in {"done", "rejected"} /\ ~Held(u)

PurgeSeesAll(v) ==
    \A d \in Deletes : DeleteOf[d] = v /\ del[d] = "purging" =>
        \A n \in Names : bucket[v][n] # NoUpload => <<v, n>> \in listed[d]

CleanInv(v) == Settled(v) /\ PurgeSeesAll(v) /\ (status[v] = "deleted" => Gone(v))

(* A row goes by a delete that ends with it. *)
DeletedByDelete ==
    \A v \in Videos : status[v] = "deleted" =>
                          \E d \in Deletes : DeleteOf[d] = v /\ del[d] = "done"

LEMMA ByDeleteInit == Init => DeletedByDelete
    BY DEF Init, DeletedByDelete

LEMMA RowGoesByDelete ==
    ASSUME TypeInv, [Next]_vars, NEW v \in Videos, status'[v] = "deleted", status[v] # "deleted"
    PROVE  \E d \in Deletes : DeleteRow(d) /\ DeleteOf[d] = v
<1>1. ASSUME NEW x \in Videos, CreateVideo(x) PROVE FALSE
    BY <1>1 DEF CreateVideo, TypeInv, TypeOK
<1>2. ASSUME NEW u \in Uploads, UploadStep(u) PROVE FALSE
    BY <1>2 DEF UploadStep, FinishUpload, CheckUpload, RejectBody, CreateTemp, CopyBody,
                CopyFails, RecordUpload, RecordFails, EnqueueJob, SetStatus, rows,
                TypeInv, TypeOK
<1>3. ASSUME NEW w \in Workers, WorkerStep(w) PROVE FALSE
    BY <1>3 DEF WorkerStep, TakeJob, Transcode, PutThumbnail, SkipThumbnail, PutNext, PutFails,
                MarkReady, MarkReadyFails, MarkFailed, RemoveSource, SaveReady, SetStatus,
                rows, TypeInv, TypeOK
<1>4. ASSUME NEW d \in Deletes, DeleteStep(d) PROVE DeleteRow(d) /\ DeleteOf[d] = v
  <2>1. CASE DeleteRow(d)
      BY <2>1 DEF DeleteRow, SetStatus, TypeInv, TypeOK
  <2>2. CASE ~DeleteRow(d)
      BY <1>4, <2>2 DEF DeleteStep, FinishDelete, CheckDelete, ListKeys, DeleteKey, PurgeFails,
                        DeleteRowFails, rows
  <2>3. QED
      BY <2>1, <2>2
<1>5. ASSUME Crash \/ UNCHANGED vars PROVE FALSE
    BY <1>5 DEF Crash, vars, rows
<1>6. QED
    BY <1>1, <1>2, <1>3, <1>4, <1>5 DEF Next, AtRest

LEMMA ByDeleteStep == TypeInv /\ DeletedByDelete /\ [Next]_vars => DeletedByDelete'
<1> SUFFICES ASSUME TypeInv, DeletedByDelete, [Next]_vars PROVE DeletedByDelete'
    OBVIOUS
<1>1. \A d \in Deletes : del[d] = "done" => del'[d] = "done"
  <2>1. ASSUME NEW d \in Deletes, DeleteStep(d)
        PROVE  \A x \in Deletes : del[x] = "done" => del'[x] = "done"
      BY <2>1 DEF DeleteStep, FinishDelete, CheckDelete, ListKeys, DeleteKey, PurgeFails,
                  DeleteRow, DeleteRowFails, DeleteGoes, TypeInv, TypeOK
  <2>2. CASE Crash
      BY <2>2 DEF Crash
  <2>3. ASSUME NEW v \in Videos, CreateVideo(v) PROVE del' = del
      BY <2>3 DEF CreateVideo, deletes
  <2>4. ASSUME NEW u \in Uploads, UploadStep(u) PROVE del' = del
      BY <2>4 DEF UploadStep, FinishUpload, CheckUpload, RejectBody, CreateTemp, CopyBody,
                  CopyFails, RecordUpload, RecordFails, EnqueueJob, deletes
  <2>5. ASSUME NEW w \in Workers, WorkerStep(w) PROVE del' = del
      BY <2>5 DEF WorkerStep, TakeJob, Transcode, PutThumbnail, SkipThumbnail, PutNext,
                  PutFails, MarkReady, MarkReadyFails, MarkFailed, RemoveSource, deletes
  <2>6. CASE UNCHANGED vars
      BY <2>6 DEF vars, deletes
  <2>7. QED
      BY <2>1, <2>2, <2>3, <2>4, <2>5, <2>6 DEF Next, AtRest
<1>2. ASSUME NEW v \in Videos, status'[v] = "deleted", status[v] # "deleted"
      PROVE  \E d \in Deletes : DeleteOf[d] = v /\ del'[d] = "done"
  <2>1. PICK d \in Deletes : DeleteRow(d) /\ DeleteOf[d] = v
      BY <1>2, RowGoesByDelete
  <2>2. QED
      BY <2>1 DEF DeleteRow, DeleteGoes, TypeInv, TypeOK
<1>3. QED
    BY <1>1, <1>2 DEF DeletedByDelete

(* Before a purge there is nothing to show of it. *)
LEMMA CleanStart ==
    ASSUME DeletedByDelete, NEW v \in Videos, AtRestBeforePurge(v)
    PROVE  CleanInv(v)
    BY DEF DeletedByDelete, AtRestBeforePurge, CleanInv, Settled, PurgeSeesAll

(* No job of a video whose uploads have come to rest comes up again. *)
LEMMA StaysSettled ==
    ASSUME TypeInv, HolderInv, [Next]_vars, NEW v \in Videos, Settled(v)
    PROVE  Settled(v)'
<1>1. ASSUME NEW u \in Uploads, UploadOf[u] = v
      PROVE  up'[u] \in {"done", "rejected"} /\ ~Held(u)'
  <2>1. up[u] \in {"done", "rejected"} /\ ~InQueue(u) /\ ~InWorker(u)
      BY <1>1 DEF Settled, Held
  <2>2. ASSUME UNCHANGED <<up, queue, job>>
        PROVE  up'[u] \in {"done", "rejected"} /\ ~Held(u)'
      BY <2>1, <2>2 DEF Held, InHandler, InQueue, InWorker
  <2>3. ASSUME NEW x \in Uploads, UploadStep(x)
        PROVE  up'[u] \in {"done", "rejected"} /\ ~Held(u)'
    <3>1. x # u /\ up'[u] = up[u] /\ job' = job
        BY <2>1, <2>3 DEF UploadStep, FinishUpload, CheckUpload, RejectBody, CreateTemp,
                          CopyBody, CopyFails, RecordUpload, RecordFails, EnqueueJob,
                          UploadGoes, workers, TypeInv, TypeOK
    <3>2. ~InQueue(u)'
      <4>1. CASE EnqueueJob(x)
        <5>1. queue \in Seq(Uploads) /\ queue' = Append(queue, x)
            BY <4>1 DEF EnqueueJob, TypeInv, TypeOK
        <5>2. (\E i \in DOMAIN queue' : queue'[i] = u)
                  <=> (\E i \in DOMAIN queue : queue[i] = u) \/ u = x
            BY <5>1, AppendHolds
        <5>3. QED
            BY <2>1, <3>1, <5>2 DEF InQueue
      <4>2. CASE ~EnqueueJob(x)
        <5>1. queue' = queue
            BY <2>3, <4>2 DEF UploadStep, FinishUpload, CheckUpload, RejectBody, CreateTemp,
                              CopyBody, CopyFails, RecordUpload, RecordFails
        <5>2. QED
            BY <2>1, <5>1 DEF InQueue
      <4>3. QED
          BY <4>1, <4>2
    <3>3. QED
        BY <2>1, <3>1, <3>2 DEF Held, InHandler, InWorker
  <2>4. ASSUME NEW w \in Workers, WorkerStep(w)
        PROVE  up'[u] \in {"done", "rejected"} /\ ~Held(u)'
    <3>1. CASE TakeJob(w)
      <4>1. /\ queue # <<>> /\ job' = [job EXCEPT ![w] = Head(queue)]
            /\ queue' = Tail(queue) /\ up' = up
          BY <3>1 DEF TakeJob
      <4>2. queue \in Seq(Uploads) /\ \A i, j \in DOMAIN queue : queue[i] = queue[j] => i = j
          BY DEF TypeInv, TypeOK, HolderInv, JobHeldOnce
      <4>3. /\ (\E i \in DOMAIN queue' : queue'[i] = u)
                   <=> (\E i \in DOMAIN queue : queue[i] = u) /\ u # Head(queue)
            /\ \E i \in DOMAIN queue : queue[i] = Head(queue)
          BY <4>1, <4>2, TailHolds
      <4>4. ~InQueue(u)' /\ Head(queue) # u
          BY <2>1, <4>3 DEF InQueue
      <4>5. ~InWorker(u)'
          BY <2>1, <4>1, <4>4 DEF InWorker, TypeInv, TypeOK
      <4>6. QED
          BY <2>1, <4>1, <4>4, <4>5 DEF Held, InHandler
    <3>2. CASE RemoveSource(w)
      <4>1. UNCHANGED <<up, queue>> /\ job' = [job EXCEPT ![w] = NoUpload] /\ NoUpload # u
          BY <3>2, RequestAssumption DEF RemoveSource
      <4>2. ~InWorker(u)'
          BY <2>1, <4>1 DEF InWorker, TypeInv, TypeOK
      <4>3. QED
          BY <2>1, <4>1, <4>2 DEF Held, InHandler, InQueue
    <3>3. CASE ~TakeJob(w) /\ ~RemoveSource(w)
      <4>1. UNCHANGED <<up, queue, job>>
          BY <2>4, <3>3 DEF WorkerStep, Transcode, PutThumbnail, SkipThumbnail, PutNext,
                            PutFails, MarkReady, MarkReadyFails, MarkFailed
      <4>2. QED
          BY <2>2, <4>1
    <3>4. QED
        BY <3>1, <3>2, <3>3
  <2>5. CASE Crash
    <3>1. up'[u] = up[u] \/ up'[u] = "rejected"
        BY <2>5 DEF Crash
    <3>2. queue' = <<>> /\ \A w \in Workers : job'[w] = NoUpload
        BY <2>5 DEF Crash
    <3>3. DOMAIN queue' = {} /\ NoUpload # u
        BY <3>2, RequestAssumption
    <3>4. QED
        BY <2>1, <3>1, <3>2, <3>3 DEF Held, InHandler, InQueue, InWorker
  <2>6. ASSUME \/ \E x \in Videos : CreateVideo(x)
               \/ \E d \in Deletes : DeleteStep(d)
               \/ UNCHANGED vars
        PROVE  UNCHANGED <<up, queue, job>>
      BY <2>6 DEF CreateVideo, DeleteStep, FinishDelete, CheckDelete, ListKeys, DeleteKey,
                  PurgeFails, DeleteRow, DeleteRowFails, vars, workers
  <2>7. QED
      BY <2>2, <2>3, <2>4, <2>5, <2>6 DEF Next, AtRest
<1>2. QED
    BY <1>1 DEF Settled

(* Then nobody puts an object of it; deletes take some away. *)
LEMMA NothingComesBack ==
    ASSUME TypeInv, [Next]_vars, NEW v \in Videos, Settled(v),
           NEW n \in Names, bucket'[v][n] # NoUpload
    PROVE  bucket[v][n] # NoUpload
<1>1. ASSUME NEW w \in Workers, NEW name, pc[w] # "idle", Put(job[w], name)
      PROVE  bucket'[v] = bucket[v]
  <2>1. job[w] \in Uploads /\ UploadOf[job[w]] # v
      BY <1>1 DEF Settled, Held, InWorker, TypeInv, WorkerHasJob
  <2>2. QED
      BY <1>1, <2>1 DEF Put, TypeInv, TypeOK
<1>2. ASSUME NEW w \in Workers, WorkerStep(w) PROVE bucket'[v] = bucket[v]
  <2>1. bucket' = bucket \/ (pc[w] # "idle" /\ \E name \in Names : Put(job[w], name))
                  \/ (pc[w] # "idle" /\ \E i \in Int : Put(job[w], UploadOrder[i]))
      BY <1>2 DEF WorkerStep, TakeJob, Transcode, PutThumbnail, SkipThumbnail, PutNext, PutFails,
                  MarkReady, MarkReadyFails, MarkFailed, RemoveSource, Names, TypeInv, TypeOK
  <2>2. QED
      BY <1>1, <2>1
<1>3. ASSUME NEW d \in Deletes, DeleteKey(d)
      PROVE  bucket[v][n] # NoUpload
  <2>1. PICK key \in listed[d] : bucket' = [bucket EXCEPT ![key[1]][key[2]] = NoUpload]
      BY <1>3 DEF DeleteKey
  <2>2. key[1] \in Videos /\ key[2] \in Names
      BY <2>1 DEF TypeInv, TypeOK, Keys
  <2>3. QED
      BY <2>1, <2>2 DEF TypeInv, TypeOK
<1>4. ASSUME NEW d \in Deletes, DeleteStep(d), ~DeleteKey(d)
      PROVE  bucket' = bucket
    BY <1>4 DEF DeleteStep, FinishDelete, CheckDelete, ListKeys, PurgeFails, DeleteRow,
                DeleteRowFails
<1>5. ASSUME NEW u \in Uploads, UploadStep(u) PROVE bucket' = bucket
    BY <1>5 DEF UploadStep, FinishUpload, CheckUpload, RejectBody, CreateTemp, CopyBody,
                CopyFails, RecordUpload, RecordFails, EnqueueJob
<1>6. ASSUME Crash \/ UNCHANGED vars \/ \E x \in Videos : CreateVideo(x)
      PROVE  bucket' = bucket
    BY <1>6 DEF Crash, vars, CreateVideo
<1>7. QED
    BY <1>2, <1>3, <1>4, <1>5, <1>6 DEF Next, AtRest

(* What is left for a purge is still on its list. *)
LEMMA PurgeGoesOn ==
    ASSUME TypeInv, [Next]_vars, NEW v \in Videos, Settled(v), PurgeSeesAll(v)
    PROVE  PurgeSeesAll(v)'
<1> SUFFICES ASSUME NEW d \in Deletes, DeleteOf[d] = v, del'[d] = "purging",
                    NEW n \in Names, bucket'[v][n] # NoUpload
             PROVE  <<v, n>> \in listed'[d]
    BY DEF PurgeSeesAll
<1>1. bucket[v][n] # NoUpload
    BY NothingComesBack
<1>2. CASE ListKeys(d)
  <2>1. PrefixCovers(v, v) /\ <<v, n>> \in Keys
      BY DEF PrefixCovers, Keys
  <2>2. QED
      BY <1>1, <1>2, <2>1 DEF ListKeys, TypeInv, TypeOK
<1>3. CASE del[d] = "purging"
  <2>1. <<v, n>> \in listed[d]
      BY <1>1, <1>3 DEF PurgeSeesAll
  <2>2. CASE listed' = listed
      BY <2>1, <2>2
  <2>3. ASSUME NEW x \in Deletes, DeleteKey(x) PROVE <<v, n>> \in listed'[d]
    <3>1. PICK key \in listed[x] :
              /\ bucket' = [bucket EXCEPT ![key[1]][key[2]] = NoUpload]
              /\ listed' = [listed EXCEPT ![x] = @ \ {key}]
        BY <2>3 DEF DeleteKey
    <3>2. key \in Keys
        BY <3>1 DEF TypeInv, TypeOK
    <3>3. key # <<v, n>>
        BY <3>1, <3>2 DEF TypeInv, TypeOK, Keys
    <3>4. QED
        BY <2>1, <3>1, <3>3 DEF TypeInv, TypeOK
  <2>4. ASSUME NEW x \in Deletes, DeleteStep(x), ~DeleteKey(x) PROVE <<v, n>> \in listed'[d]
    <3>1. CASE x = d
        BY <1>3, <2>1, <2>4, <3>1 DEF DeleteStep, FinishDelete, CheckDelete, ListKeys, PurgeFails,
                          DeleteRow, DeleteRowFails, DeleteGoes, TypeInv, TypeOK
    <3>2. CASE x # d
        BY <2>1, <2>4, <3>2 DEF DeleteStep, FinishDelete, CheckDelete, ListKeys, PurgeFails,
                          DeleteRow, DeleteRowFails, TypeInv, TypeOK
    <3>3. QED
        BY <3>1, <3>2
  <2>5. CASE Crash
      BY <2>5 DEF Crash
  <2>6. ASSUME \/ \E x \in Videos : CreateVideo(x)
               \/ \E u \in Uploads : UploadStep(u)
               \/ \E w \in Workers : WorkerStep(w)
               \/ UNCHANGED vars
        PROVE  listed' = listed
      BY <2>6 DEF CreateVideo, UploadStep, FinishUpload, CheckUpload, RejectBody, CreateTemp,
                  CopyBody, CopyFails, RecordUpload, RecordFails, EnqueueJob, WorkerStep,
                  TakeJob, Transcode, PutThumbnail, SkipThumbnail, PutNext, PutFails, MarkReady,
                  MarkReadyFails, MarkFailed, RemoveSource, vars, deletes
  <2>7. QED
      BY <2>2, <2>3, <2>4, <2>5, <2>6 DEF Next, AtRest
<1>4. CASE del[d] # "purging" /\ ~ListKeys(d)
  <2>1. ASSUME NEW x \in Deletes, DeleteStep(x) PROVE FALSE
      BY <1>4, <2>1 DEF DeleteStep, FinishDelete, CheckDelete, DeleteKey, PurgeFails,
                        DeleteRow, DeleteRowFails, ListKeys, DeleteGoes, TypeInv, TypeOK
  <2>2. CASE Crash
      BY <1>4, <2>2 DEF Crash
  <2>3. ASSUME \/ \E x \in Videos : CreateVideo(x)
               \/ \E u \in Uploads : UploadStep(u)
               \/ \E w \in Workers : WorkerStep(w)
               \/ UNCHANGED vars
        PROVE  del' = del
      BY <2>3 DEF CreateVideo, UploadStep, FinishUpload, CheckUpload, RejectBody, CreateTemp,
                  CopyBody, CopyFails, RecordUpload, RecordFails, EnqueueJob, WorkerStep,
                  TakeJob, Transcode, PutThumbnail, SkipThumbnail, PutNext, PutFails, MarkReady,
                  MarkReadyFails, MarkFailed, RemoveSource, vars, deletes
  <2>4. QED
      BY <1>4, <2>1, <2>2, <2>3 DEF Next, AtRest
<1>5. QED
    BY <1>2, <1>3, <1>4

(* The row goes only when the list is empty. *)
LEMMA CleanStep ==
    ASSUME TypeInv, HolderInv, [Next]_vars, NEW v \in Videos, CleanInv(v)
    PROVE  CleanInv(v)'
<1>1. Settled(v)' /\ PurgeSeesAll(v)'
    BY StaysSettled, PurgeGoesOn DEF CleanInv
<1>2. ASSUME status'[v] = "deleted" PROVE Gone(v)'
  <2>1. CASE Gone(v)
    <3>1. \A n \in Names : bucket'[v][n] = NoUpload
        BY <2>1, NothingComesBack DEF CleanInv, Gone
    <3>2. QED
        BY <3>1 DEF Gone
  <2>2. CASE status[v] # "deleted"
    <3>1. PICK d \in Deletes : DeleteRow(d) /\ DeleteOf[d] = v
        BY <1>2, <2>2, RowGoesByDelete
    <3>2. del[d] = "purging" /\ listed[d] = {} /\ bucket' = bucket
        BY <3>1 DEF DeleteRow
    <3>3. QED
        BY <3>1, <3>2 DEF CleanInv, PurgeSeesAll, Gone
  <2>3. QED
      BY <2>1, <2>2 DEF CleanInv
<1>3. QED
    BY <1>1, <1>2 DEF CleanInv

(* A delete that lists the keys after the last upload of the video has     *)
(* come to rest leaves no object behind once the row is gone, whatever     *)
(* fails, restarts, or is deleted at the same time                         *)
(* (video_handlers.go:78-93, storage.go:80-101).                           *)
THEOREM DeletesAreClean == Spec => CleanDelete
<1>1. ASSUME NEW v \in Videos
      PROVE  Spec => [](AtRestBeforePurge(v) => [](status[v] = "deleted" => Gone(v)))
  <2>1. DeletedByDelete /\ AtRestBeforePurge(v) => CleanInv(v)
      BY CleanStart
  <2>2. TypeInv /\ HolderInv /\ [Next]_vars /\ CleanInv(v) => CleanInv(v)'
      BY CleanStep
  <2>3. CleanInv(v) => (status[v] = "deleted" => Gone(v))
      BY DEF CleanInv
  <2>4. QED
      BY <2>1, <2>2, <2>3, ByDeleteInit, ByDeleteStep, TypeInvariant, HolderInvariant, PTL
         DEF Spec
<1>2. QED
    BY <1>1 DEF CleanDelete
=============================================================================
