------------------------- MODULE VideoPipelineProofs -------------------------
(***************************************************************************)
(* Theorems about VideoPipeline, for any number of videos, requests,       *)
(* workers and rendition files, any queue capacity, any faults and any     *)
(* number of restarts.                                                     *)
(***************************************************************************)
EXTENDS VideoPipeline, SequenceTheorems, TLAPS

USE IdAssumption, RequestAssumption, BoundAssumption, FaultAssumption

-----------------------------------------------------------------------------
(* A sequence with an element put before it and one after it. *)
LEMMA Framed ==
    ASSUME NEW S, NEW x \in S, NEW y \in S, NEW m \in Seq(S)
    PROVE  LET q == Append(<<x>> \o m, y)
           IN  /\ q \in Seq(S)
               /\ Len(q) = Len(m) + 2
               /\ q[1] = x
               /\ \A i \in 2..(Len(m) + 1) : q[i] = m[i - 1]
               /\ q[Len(m) + 2] = y
<1>1. <<x>> \in Seq(S) /\ Len(<<x>>) = 1 /\ <<x>>[1] = x
    OBVIOUS
<1>2. /\ <<x>> \o m \in Seq(S)
      /\ Len(<<x>> \o m) = 1 + Len(m)
      /\ \A i \in 1..(1 + Len(m)) :
            (<<x>> \o m)[i] = IF i <= 1 THEN <<x>>[i] ELSE m[i - 1]
    BY <1>1, ConcatProperties
<1>3. QED
    BY <1>1, <1>2

(* The order of uploads: the source, the rendition files, the playlist. *)
LEMMA OrderShape ==
    /\ UploadOrder \in Seq(Names)
    /\ Len(UploadOrder) = Len(MediaFiles) + 2
    /\ Len(UploadOrder) \in Nat
    /\ DOMAIN UploadOrder = 1..Len(UploadOrder)
    /\ \A i \in 1..Len(UploadOrder) : UploadOrder[i] \in Names
    /\ \A i \in 1..Len(UploadOrder) : UploadOrder[i] = "master" <=> i = Len(UploadOrder)
    /\ \A i \in 1..Len(UploadOrder) : UploadOrder[i] # "thumbnail"
    /\ {"thumbnail", "master"} \subseteq Names
<1> DEFINE S == STRING \cup {"source", "master"}
<1>1. MediaFiles \in Seq(S) /\ Len(MediaFiles) \in Nat
      /\ \A i \in 1..Len(MediaFiles) :
            MediaFiles[i] \notin {"source", "thumbnail", "master"}
    BY MediaAssumption
<1>2. /\ UploadOrder \in Seq(S)
      /\ Len(UploadOrder) = Len(MediaFiles) + 2
      /\ UploadOrder[1] = "source"
      /\ \A i \in 2..(Len(MediaFiles) + 1) : UploadOrder[i] = MediaFiles[i - 1]
      /\ UploadOrder[Len(MediaFiles) + 2] = "master"
  <2>1. "source" \in S /\ "master" \in S
      OBVIOUS
  <2>2. QED
    <3> HIDE DEF S
    <3>1. QED
        BY <1>1, <2>1, Framed DEF UploadOrder
<1>3. DOMAIN UploadOrder = 1..Len(UploadOrder)
    BY <1>2
<1>4. \A i \in 1..Len(UploadOrder) : UploadOrder[i] \in Names
    BY <1>3 DEF Names
<1>5. UploadOrder \in Seq(Names)
    BY <1>2, <1>3, <1>4
<1>6. \A i \in 1..Len(UploadOrder) :
         /\ UploadOrder[i] = "master" <=> i = Len(UploadOrder)
         /\ UploadOrder[i] # "thumbnail"
  <2> TAKE i \in 1..Len(UploadOrder)
  <2>1. i = 1 \/ i \in 2..(Len(MediaFiles) + 1) \/ i = Len(MediaFiles) + 2
      BY <1>1, <1>2
  <2>2. CASE i = 1
      BY <2>2, <1>1, <1>2
  <2>3. CASE i \in 2..(Len(MediaFiles) + 1)
      BY <2>3, <1>1, <1>2
  <2>4. CASE i = Len(MediaFiles) + 2
      BY <2>4, <1>1, <1>2
  <2>5. QED
      BY <2>1, <2>2, <2>3, <2>4
<1>7. {"thumbnail", "master"} \subseteq Names
    BY <1>1, <1>2, <1>4 DEF Names
<1>8. QED
    BY <1>1, <1>2, <1>3, <1>4, <1>5, <1>6, <1>7

-----------------------------------------------------------------------------
(* Type correctness.  The channel never holds more than QueueCap jobs, and *)
(* a worker never counts past the last file it has to put.  With it goes   *)
(* that a worker has a job exactly when it is not idle.                    *)
WorkerHasJob == \A w \in Workers : pc[w] # "idle" <=> job[w] \in Uploads

TypeInv == TypeOK /\ WorkerHasJob

LEMMA TypeInit == Init => TypeInv
BY OrderShape DEF Init, TypeInv, TypeOK, WorkerHasJob, UploadPlaces, DeletePlaces, WorkerPlaces

LEMMA TypeCreate ==
    ASSUME TypeInv, NEW v \in Videos, CreateVideo(v)
    PROVE  TypeInv'
BY DEF TypeInv, TypeOK, WorkerHasJob, CreateVideo, deletes, workers

LEMMA TypeUpload ==
    ASSUME TypeInv, NEW u \in Uploads, UploadStep(u)
    PROVE  TypeInv'
<1> USE DEF TypeInv, TypeOK, WorkerHasJob, UploadPlaces, UploadGoes, rows, deletes, workers
<1>1. CASE CheckUpload(u)    BY <1>1 DEF CheckUpload
<1>2. CASE RejectBody(u)     BY <1>2 DEF RejectBody
<1>3. CASE CreateTemp(u)     BY <1>3 DEF CreateTemp
<1>4. CASE CopyBody(u)       BY <1>4 DEF CopyBody
<1>5. CASE CopyFails(u)      BY <1>5 DEF CopyFails
<1>6. CASE RecordUpload(u)   BY <1>6 DEF RecordUpload, SetStatus
<1>7. CASE RecordFails(u)    BY <1>7 DEF RecordFails, SetStatus
<1>8. CASE EnqueueJob(u)     BY <1>8 DEF EnqueueJob
<1>9. QED
    BY <1>1, <1>2, <1>3, <1>4, <1>5, <1>6, <1>7, <1>8 DEF UploadStep, FinishUpload

LEMMA TypeDelete ==
    ASSUME TypeInv, NEW d \in Deletes, DeleteStep(d)
    PROVE  TypeInv'
<1> USE DEF TypeInv, TypeOK, WorkerHasJob, DeletePlaces, DeleteGoes, rows, deletes, workers
<1>1. CASE CheckDelete(d)    BY <1>1 DEF CheckDelete
<1>2. CASE ListKeys(d)       BY <1>2 DEF ListKeys
<1>3. CASE DeleteKey(d)
  <2>1. PICK key \in listed[d] :
            /\ bucket' = [bucket EXCEPT ![key[1]][key[2]] = NoUpload]
            /\ listed' = [listed EXCEPT ![d] = @ \ {key}]
      BY <1>3 DEF DeleteKey
  <2>2. bucket' \in [Videos -> [Names -> Uploads \cup {NoUpload}]]
      BY <2>1 DEF Keys
  <2>3. listed' \in [Deletes -> SUBSET Keys]
      BY <2>1
  <2>4. QED
      BY <1>3, <2>2, <2>3 DEF DeleteKey
<1>4. CASE PurgeFails(d)     BY <1>4 DEF PurgeFails
<1>5. CASE DeleteRow(d)      BY <1>5 DEF DeleteRow, SetStatus
<1>6. CASE DeleteRowFails(d) BY <1>6 DEF DeleteRowFails
<1>7. QED
    BY <1>1, <1>2, <1>3, <1>4, <1>5, <1>6 DEF DeleteStep, FinishDelete

LEMMA PutType ==
    ASSUME TypeOK, NEW u \in Uploads, NEW n \in Names, Put(u, n)
    PROVE  bucket' \in [Videos -> [Names -> Uploads \cup {NoUpload}]]
<1>1. UploadOf[u] \in Videos
    OBVIOUS
<1>2. QED
    BY <1>1 DEF TypeOK, Put

LEMMA SaveReadyType ==
    ASSUME TypeOK, NEW v \in Videos, NEW hasThumb, SaveReady(v, hasThumb)
    PROVE  /\ status' \in [Videos -> {"none", "uploading", "transcoding", "ready",
                                     "failed", "deleted"}]
           /\ thumbKey' \subseteq Videos
<1>1. CASE HasRow(v)
    BY <1>1 DEF TypeOK, SaveReady, SetStatus
<1>2. CASE ~HasRow(v)
    BY <1>2 DEF TypeOK, SaveReady, SetStatus
<1>3. QED
    BY <1>1, <1>2

LEMMA TypeWorker ==
    ASSUME TypeInv, NEW w \in Workers, WorkerStep(w)
    PROVE  TypeInv'
<1>0. Len(UploadOrder) \in Nat
    BY OrderShape
<1>a. pc[w] # "idle" => job[w] \in Uploads /\ UploadOf[job[w]] \in Videos
    BY DEF TypeInv, TypeOK, WorkerHasJob
<1>b. pc[w] = "putting" /\ sent[w] < Len(UploadOrder) => UploadOrder[sent[w] + 1] \in Names
    BY <1>0, OrderShape DEF TypeInv, TypeOK
<1>c. pc[w] # "idle" /\ Put(job[w], "thumbnail") =>
         bucket' \in [Videos -> [Names -> Uploads \cup {NoUpload}]]
    BY <1>a, PutType DEF TypeInv, Names
<1>d. pc[w] = "putting" /\ sent[w] < Len(UploadOrder)
         /\ Put(job[w], UploadOrder[sent[w] + 1]) =>
         bucket' \in [Videos -> [Names -> Uploads \cup {NoUpload}]]
    BY <1>a, <1>b, PutType DEF TypeInv
<1>e. pc[w] # "idle" /\ SaveReady(UploadOf[job[w]], thumb[w]) =>
         /\ status' \in [Videos -> {"none", "uploading", "transcoding", "ready",
                                   "failed", "deleted"}]
         /\ thumbKey' \subseteq Videos
    BY <1>a, SaveReadyType DEF TypeInv
<1> USE <1>0, <1>a DEF TypeInv, TypeOK, WorkerHasJob, WorkerPlaces, WorkerGoes,
                       rows, deletes, workers
<1>1. CASE TakeJob(w)        BY <1>1 DEF TakeJob
<1>2. CASE Transcode(w)      BY <1>2 DEF Transcode
<1>3. CASE PutThumbnail(w)   BY <1>3, <1>c DEF PutThumbnail
<1>4. CASE SkipThumbnail(w)  BY <1>4, <1>c DEF SkipThumbnail
<1>5. CASE PutNext(w)        BY <1>5, <1>d DEF PutNext
<1>6. CASE PutFails(w)       BY <1>6, <1>d DEF PutFails
<1>7. CASE MarkReady(w)      BY <1>7, <1>e DEF MarkReady
<1>8. CASE MarkReadyFails(w) BY <1>8, <1>e DEF MarkReadyFails
<1>9. CASE MarkFailed(w)     BY <1>9 DEF MarkFailed, SetStatus
<1>10. CASE RemoveSource(w)  BY <1>10 DEF RemoveSource
<1>11. QED
    BY <1>1, <1>2, <1>3, <1>4, <1>5, <1>6, <1>7, <1>8, <1>9, <1>10 DEF WorkerStep

LEMMA TypeCrash == TypeInv /\ Crash => TypeInv'
BY OrderShape DEF TypeInv, TypeOK, WorkerHasJob, Crash, UploadPlaces, DeletePlaces, WorkerPlaces, rows

LEMMA TypeStutter == TypeInv /\ UNCHANGED vars => TypeInv'
BY DEF TypeInv, TypeOK, WorkerHasJob, vars, rows, deletes, workers

LEMMA TypeStep == TypeInv /\ [Next]_vars => TypeInv'
BY TypeCreate, TypeUpload, TypeDelete, TypeWorker, TypeCrash, TypeStutter DEF Next, AtRest

(* A worker has a job exactly when it is not idle (transcode_queue.go,     *)
(* worker).                                                                *)
THEOREM TypeInvariant == Spec => []TypeInv
BY TypeInit, TypeStep, PTL DEF Spec

(* The type invariant of every run. *)
THEOREM TypeCorrect == Spec => []TypeOK
<1>1. TypeInv => TypeOK
    BY DEF TypeInv
<1>2. QED
    BY <1>1, TypeInvariant, PTL

-----------------------------------------------------------------------------
(* What a sequence holds after Append and Tail. *)
LEMMA AppendHolds ==
    ASSUME NEW S, NEW q \in Seq(S), NEW e \in S
    PROVE  \A x : (\E i \in DOMAIN Append(q, e) : Append(q, e)[i] = x)
                  <=> (\E i \in DOMAIN q : q[i] = x) \/ x = e
<1>1. /\ DOMAIN Append(q, e) = 1..(Len(q) + 1)
      /\ DOMAIN q = 1..Len(q)
      /\ \A i \in 1..Len(q) : Append(q, e)[i] = q[i]
      /\ Append(q, e)[Len(q) + 1] = e
      /\ Len(q) \in Nat
    OBVIOUS
<1>2. \A i \in 1..(Len(q) + 1) : i \in 1..Len(q) \/ i = Len(q) + 1
    BY <1>1
<1>3. QED
    BY <1>1, <1>2

LEMMA AppendDistinct ==
    ASSUME NEW S, NEW q \in Seq(S), NEW e \in S,
           \A i, j \in DOMAIN q : q[i] = q[j] => i = j,
           \A i \in DOMAIN q : q[i] # e
    PROVE  \A i, j \in DOMAIN Append(q, e) : Append(q, e)[i] = Append(q, e)[j] => i = j
<1>1. /\ DOMAIN Append(q, e) = 1..(Len(q) + 1)
      /\ DOMAIN q = 1..Len(q)
      /\ \A i \in 1..Len(q) : Append(q, e)[i] = q[i]
      /\ Append(q, e)[Len(q) + 1] = e
      /\ Len(q) \in Nat
    OBVIOUS
<1>2. \A i \in 1..(Len(q) + 1) : i \in 1..Len(q) \/ i = Len(q) + 1
    BY <1>1
<1>3. QED
    BY <1>1, <1>2

LEMMA TailHolds ==
    ASSUME NEW S, NEW q \in Seq(S), q # <<>>,
           \A i, j \in DOMAIN q : q[i] = q[j] => i = j
    PROVE  /\ \A x : (\E i \in DOMAIN Tail(q) : Tail(q)[i] = x)
                     <=> (\E i \in DOMAIN q : q[i] = x) /\ x # Head(q)
           /\ \A i, j \in DOMAIN Tail(q) : Tail(q)[i] = Tail(q)[j] => i = j
           /\ Head(q) \in S
           /\ \E i \in DOMAIN q : q[i] = Head(q)
<1>1. /\ DOMAIN q = 1..Len(q)
      /\ DOMAIN Tail(q) = 1..(Len(q) - 1)
      /\ \A i \in 1..(Len(q) - 1) : Tail(q)[i] = q[i + 1]
      /\ Head(q) = q[1]
      /\ Len(q) \in Nat /\ Len(q) > 0
      /\ Head(q) \in S
    OBVIOUS
<1>2. \A i \in 1..Len(q) : i = 1 \/ (i - 1 \in 1..(Len(q) - 1) /\ q[i] = Tail(q)[i - 1])
    BY <1>1
<1>3. \A x : (\E i \in DOMAIN Tail(q) : Tail(q)[i] = x)
             <=> (\E i \in DOMAIN q : q[i] = x) /\ x # Head(q)
  <2> TAKE x
  <2>1. ASSUME NEW i \in DOMAIN Tail(q), Tail(q)[i] = x
        PROVE  (\E k \in DOMAIN q : q[k] = x) /\ x # Head(q)
    <3>1. i + 1 \in DOMAIN q /\ q[i + 1] = x /\ 1 \in DOMAIN q /\ i + 1 # 1
        BY <1>1, <2>1
    <3>2. QED
        BY <1>1, <3>1
  <2>2. ASSUME NEW i \in DOMAIN q, q[i] = x, x # Head(q)
        PROVE  \E k \in DOMAIN Tail(q) : Tail(q)[k] = x
      BY <1>1, <1>2, <2>2
  <2>3. QED
      BY <2>1, <2>2
<1>4. \A i, j \in DOMAIN Tail(q) : Tail(q)[i] = Tail(q)[j] => i = j
  <2> SUFFICES ASSUME NEW i \in DOMAIN Tail(q), NEW j \in DOMAIN Tail(q), Tail(q)[i] = Tail(q)[j]
               PROVE  i = j
      OBVIOUS
  <2>1. i + 1 \in DOMAIN q /\ j + 1 \in DOMAIN q /\ q[i + 1] = q[j + 1]
      BY <1>1
  <2>2. i + 1 = j + 1
      BY <2>1
  <2>3. QED
      BY <2>2, <1>1
<1>5. QED
    BY <1>1, <1>3, <1>4

-----------------------------------------------------------------------------
(* Every job and every temporary file has one holder.  The two properties  *)
(* need each other: a worker may remove the file of its job because no     *)
(* other holder has the job.                                               *)
HolderInv == JobHeldOnce /\ TmpFileHeld

holders == <<up, queue, job, tmp, crashes>>

LEMMA HolderInit == Init => HolderInv
BY DEF Init, HolderInv, JobHeldOnce, TmpFileHeld, Held, InHandler, InQueue, InWorker

LEMMA HolderFrame == HolderInv /\ UNCHANGED holders => HolderInv'
BY DEF holders, HolderInv, JobHeldOnce, TmpFileHeld, Held, InHandler, InQueue, InWorker

(* A request moves while its upload is in no queue and with no worker. *)
LEMMA HolderHandler ==
    ASSUME TypeInv, HolderInv, NEW u \in Uploads, up[u] # "done",
           UNCHANGED <<queue, job, crashes>>,
           NEW p \in UploadPlaces, p # "done", UploadGoes(u, p),
           LET withFile == {"copying", "saved", "recorded"}
           IN  \/ p \in withFile /\ tmp' = tmp \cup {u}
               \/ p \in withFile /\ up[u] \in withFile /\ tmp' = tmp
               \/ p = "rejected" /\ tmp' = tmp \ {u}
               \/ p \in {"checked", "rejected"} /\ up[u] \in {"idle", "checked"} /\ tmp' = tmp
    PROVE  HolderInv'
<1>1. up' \in [Uploads -> UploadPlaces] /\ up'[u] = p /\ \A x \in Uploads : x # u => up'[x] = up[x]
    BY DEF UploadGoes, TypeInv, TypeOK
<1>2. ~InQueue(u) /\ ~InWorker(u)
    BY DEF HolderInv, JobHeldOnce
<1>3. \A x : (InQueue(x)' <=> InQueue(x)) /\ (InWorker(x)' <=> InWorker(x))
    BY DEF InQueue, InWorker
<1>4. JobHeldOnce'
    BY <1>1, <1>2, <1>3 DEF HolderInv, JobHeldOnce
<1>5. \A x \in Uploads : x # u => (Held(x)' <=> Held(x))
    BY <1>1, <1>3 DEF Held, InHandler
<1>6. Held(u)' <=> p \in {"copying", "saved", "recorded"}
    BY <1>1, <1>2, <1>3 DEF Held, InHandler
<1>7. /\ up[u] \in {"idle", "checked"} => ~Held(u)
      /\ up[u] \in {"copying", "saved", "recorded"} => Held(u)
    BY <1>2 DEF Held, InHandler
<1>8. TmpFileHeld'
    BY <1>5, <1>6, <1>7 DEF HolderInv, TmpFileHeld, TypeInv, TypeOK
<1>9. QED
    BY <1>4, <1>8 DEF HolderInv

LEMMA HolderEnqueue ==
    ASSUME TypeInv, HolderInv, NEW u \in Uploads, EnqueueJob(u)
    PROVE  HolderInv'
<1>1. /\ up[u] = "recorded" /\ queue' = Append(queue, u)
      /\ up' = [up EXCEPT ![u] = "done"]
      /\ UNCHANGED <<job, tmp, crashes>>
    BY DEF EnqueueJob, UploadGoes, workers
<1>2. ~InQueue(u) /\ ~InWorker(u) /\ InHandler(u) /\ u \in tmp
    BY <1>1 DEF HolderInv, JobHeldOnce, TmpFileHeld, Held, InHandler
<1>3. /\ \A x : InQueue(x)' <=> InQueue(x) \/ x = u
      /\ \A i, j \in DOMAIN queue' : queue'[i] = queue'[j] => i = j
  <2>1. \A i, j \in DOMAIN queue : queue[i] = queue[j] => i = j
      BY DEF HolderInv, JobHeldOnce
  <2>2. \A i \in DOMAIN queue : queue[i] # u
      BY <1>2 DEF InQueue
  <2>3. queue \in Seq(Uploads) /\ queue' = Append(queue, u)
      BY <1>1 DEF TypeInv, TypeOK
  <2>4. \A i, j \in DOMAIN queue' : queue'[i] = queue'[j] => i = j
      BY <2>1, <2>2, <2>3, AppendDistinct
  <2>5. \A x : (\E i \in DOMAIN queue' : queue'[i] = x) <=> (\E i \in DOMAIN queue : queue[i] = x) \/ x = u
      BY <2>3, AppendHolds
  <2>6. QED
      BY <2>4, <2>5 DEF InQueue
<1>4. \A x : InWorker(x)' <=> InWorker(x)
    BY <1>1 DEF InWorker
<1>5. up'[u] = "done" /\ \A x \in Uploads : x # u => up'[x] = up[x]
    BY <1>1 DEF TypeInv, TypeOK
<1>6. JobHeldOnce'
    BY <1>1, <1>2, <1>3, <1>4, <1>5 DEF HolderInv, JobHeldOnce
<1>7. \A x \in Uploads : Held(x)' <=> Held(x)
    BY <1>2, <1>3, <1>4, <1>5 DEF Held, InHandler
<1>8. TmpFileHeld'
    BY <1>1, <1>7 DEF HolderInv, TmpFileHeld, TypeInv, TypeOK
<1>9. QED
    BY <1>6, <1>8 DEF HolderInv

LEMMA HolderUpload ==
    ASSUME TypeInv, HolderInv, NEW u \in Uploads, UploadStep(u)
    PROVE  HolderInv'
<1> USE DEF UploadGoes, UploadPlaces, deletes, workers
<1>1. CASE CheckUpload(u)    BY <1>1, HolderHandler DEF CheckUpload
<1>2. CASE RejectBody(u)     BY <1>2, HolderHandler DEF RejectBody
<1>3. CASE CreateTemp(u)     BY <1>3, HolderHandler DEF CreateTemp
<1>4. CASE CopyBody(u)       BY <1>4, HolderHandler DEF CopyBody
<1>5. CASE CopyFails(u)      BY <1>5, HolderHandler DEF CopyFails
<1>6. CASE RecordUpload(u)   BY <1>6, HolderHandler DEF RecordUpload
<1>7. CASE RecordFails(u)    BY <1>7, HolderHandler DEF RecordFails
<1>8. CASE EnqueueJob(u)     BY <1>8, HolderEnqueue
<1>9. QED
    BY <1>1, <1>2, <1>3, <1>4, <1>5, <1>6, <1>7, <1>8 DEF UploadStep, FinishUpload

LEMMA HolderTake ==
    ASSUME TypeInv, HolderInv, NEW w \in Workers, TakeJob(w)
    PROVE  HolderInv'
<1>1. /\ pc[w] = "idle" /\ queue # <<>>
      /\ job' = [job EXCEPT ![w] = Head(queue)] /\ queue' = Tail(queue)
      /\ UNCHANGED <<up, tmp, crashes>>
    BY DEF TakeJob
<1>2. queue \in Seq(Uploads) /\ \A i, j \in DOMAIN queue : queue[i] = queue[j] => i = j
    BY DEF TypeInv, TypeOK, HolderInv, JobHeldOnce
<1>3. Head(queue) \in Uploads /\ \E i \in DOMAIN queue : queue[i] = Head(queue)
    BY <1>1, <1>2, TailHolds
<1>4. \A i, j \in DOMAIN queue' : queue'[i] = queue'[j] => i = j
    BY <1>1, <1>2, TailHolds
<1>5. \A x : (\E i \in DOMAIN queue' : queue'[i] = x)
             <=> (\E i \in DOMAIN queue : queue[i] = x) /\ x # Head(queue)
    BY <1>1, <1>2, TailHolds
<1>6. \A x : InQueue(x)' <=> InQueue(x) /\ x # Head(queue)
    BY <1>5 DEF InQueue
<1>7. job[w] = NoUpload /\ job'[w] = Head(queue) /\ \A x \in Workers : x # w => job'[x] = job[x]
    BY <1>1 DEF TypeInv, TypeOK, WorkerHasJob
<1>8. \A x \in Uploads : InWorker(x)' <=> InWorker(x) \/ x = Head(queue)
    BY <1>7 DEF InWorker
<1>9. InQueue(Head(queue)) /\ ~InWorker(Head(queue)) /\ up[Head(queue)] = "done"
    BY <1>3 DEF HolderInv, JobHeldOnce, InQueue
<1>10. \A x, y \in Workers : job'[x] = job'[y] /\ job'[x] # NoUpload => x = y
    BY <1>7, <1>9 DEF HolderInv, JobHeldOnce, InWorker
<1>11. JobHeldOnce'
    BY <1>1, <1>4, <1>6, <1>8, <1>9, <1>10 DEF HolderInv, JobHeldOnce
<1>12. \A x \in Uploads : Held(x)' <=> Held(x)
    BY <1>1, <1>6, <1>8, <1>9 DEF Held, InHandler
<1>13. TmpFileHeld'
    BY <1>1, <1>12 DEF HolderInv, TmpFileHeld, TypeInv, TypeOK
<1>14. QED
    BY <1>11, <1>13 DEF HolderInv

LEMMA HolderRemove ==
    ASSUME TypeInv, HolderInv, NEW w \in Workers, RemoveSource(w)
    PROVE  HolderInv'
<1>1. /\ pc[w] = "cleanup" /\ tmp' = tmp \ {job[w]}
      /\ job' = [job EXCEPT ![w] = NoUpload]
      /\ UNCHANGED <<up, queue, crashes>>
    BY DEF RemoveSource
<1>2. job[w] \in Uploads /\ job'[w] = NoUpload /\ \A x \in Workers : x # w => job'[x] = job[x]
    BY <1>1 DEF TypeInv, TypeOK, WorkerHasJob
<1>3. InWorker(job[w]) /\ ~InQueue(job[w]) /\ up[job[w]] = "done"
    BY <1>2 DEF HolderInv, JobHeldOnce, InWorker
<1>4. \A x \in Uploads : InWorker(x)' <=> InWorker(x) /\ x # job[w]
    BY <1>2 DEF InWorker, HolderInv, JobHeldOnce
<1>5. \A x : InQueue(x)' <=> InQueue(x)
    BY <1>1 DEF InQueue
<1>6. JobHeldOnce'
    BY <1>1, <1>2, <1>4, <1>5 DEF HolderInv, JobHeldOnce
<1>7. \A x \in Uploads : Held(x)' <=> Held(x) /\ x # job[w]
    BY <1>1, <1>3, <1>4, <1>5 DEF Held, InHandler
<1>8. TmpFileHeld'
    BY <1>1, <1>7 DEF HolderInv, TmpFileHeld, TypeInv, TypeOK
<1>9. QED
    BY <1>6, <1>8 DEF HolderInv

LEMMA HolderCrash == TypeInv /\ HolderInv /\ Crash => HolderInv'
<1> SUFFICES ASSUME TypeInv, HolderInv, Crash
             PROVE  HolderInv'
    OBVIOUS
<1>1. /\ crashes' # 0 /\ tmp' = tmp /\ queue' = <<>>
      /\ \A w \in Workers : job'[w] = NoUpload
      /\ \A u \in Uploads : up'[u] \in {"idle", "done", "rejected"}
    BY DEF Crash, TypeInv, TypeOK
<1>2. DOMAIN queue' = {}
    BY <1>1
<1>3. \A u \in Uploads : ~InQueue(u)' /\ ~InWorker(u)' /\ ~InHandler(u)'
    BY <1>1, <1>2 DEF InQueue, InWorker, InHandler
<1>4. QED
    BY <1>1, <1>2, <1>3 DEF HolderInv, JobHeldOnce, TmpFileHeld, Held

LEMMA HolderStep == TypeInv /\ HolderInv /\ [Next]_vars => HolderInv'
<1> SUFFICES ASSUME TypeInv, HolderInv, [Next]_vars
             PROVE  HolderInv'
    OBVIOUS
<1>1. ASSUME NEW v \in Videos, CreateVideo(v) PROVE HolderInv'
    BY <1>1, HolderFrame DEF CreateVideo, holders, workers
<1>2. ASSUME NEW u \in Uploads, UploadStep(u) PROVE HolderInv'
    BY <1>2, HolderUpload
<1>3. ASSUME NEW d \in Deletes, DeleteStep(d) PROVE HolderInv'
  <2>1. UNCHANGED holders
      BY <1>3 DEF DeleteStep, FinishDelete, CheckDelete, ListKeys, DeleteKey, PurgeFails,
                  DeleteRow, DeleteRowFails, holders, workers
  <2>2. QED
      BY <2>1, HolderFrame
<1>4. ASSUME NEW w \in Workers, WorkerStep(w) PROVE HolderInv'
  <2>1. CASE TakeJob(w)       BY <2>1, HolderTake
  <2>2. CASE RemoveSource(w)  BY <2>2, HolderRemove
  <2>3. CASE ~TakeJob(w) /\ ~RemoveSource(w)
    <3>1. UNCHANGED holders
        BY <1>4, <2>3 DEF WorkerStep, Transcode, PutThumbnail, SkipThumbnail, PutNext, PutFails,
                          MarkReady, MarkReadyFails, MarkFailed, holders
    <3>2. QED
        BY <3>1, HolderFrame
  <2>4. QED
      BY <2>1, <2>2, <2>3
<1>5. CASE Crash
    BY <1>5, HolderCrash
<1>6. CASE UNCHANGED vars
    BY <1>6, HolderFrame DEF vars, holders, workers
<1>7. QED
    BY <1>1, <1>2, <1>3, <1>4, <1>5, <1>6 DEF Next, AtRest

(* A job and its temporary file have one holder from handler to worker     *)
(* (video_handlers.go, transcode_queue.go).                                *)
THEOREM HolderInvariant == Spec => []HolderInv
BY HolderInit, HolderStep, TypeInvariant, PTL DEF Spec

(* No job is held twice, so none runs twice. *)
THEOREM JobsHeldOnce == Spec => []JobHeldOnce
<1>1. HolderInv => JobHeldOnce
    BY DEF HolderInv
<1>2. QED
    BY <1>1, HolderInvariant, PTL

(* A temporary file is there as long as its job is, and no longer. *)
THEOREM TmpFilesHeld == Spec => []TmpFileHeld
<1>1. HolderInv => TmpFileHeld
    BY DEF HolderInv
<1>2. QED
    BY <1>1, HolderInvariant, PTL

-----------------------------------------------------------------------------
(* A video in transcoding has a job.  The witness is passed along: from    *)
(* the handler to the channel to the worker, which changes the status on   *)
(* both of its ways to the Remove.                                         *)
LEMMA StrandedInit == Init => NoStrandedVideo
BY DEF Init, NoStrandedVideo

(* A step that leaves the status of v, or takes it out of transcoding, and *)
(* after which v's pending uploads are pending still.                      *)
LEMMA StrandedFrame ==
    ASSUME NoStrandedVideo, crashes' = crashes,
           \A v \in Videos : status'[v] = "transcoding" =>
              \/ status[v] = "transcoding"
                 /\ \A u \in Uploads : UploadOf[u] = v /\ Pending(u) => Pending(u)'
              \/ \E u \in Uploads : UploadOf[u] = v /\ Pending(u)'
    PROVE  NoStrandedVideo'
BY DEF NoStrandedVideo, Orderly

LEMMA StrandedUpload ==
    ASSUME TypeInv, NoStrandedVideo, NEW u \in Uploads, UploadStep(u)
    PROVE  NoStrandedVideo'
<1> USE DEF UploadGoes, deletes, workers, rows
<1>1. CASE RecordUpload(u)
  <2>1. Pending(u)'
      BY <1>1 DEF RecordUpload, Pending, TypeInv, TypeOK
  <2>2. \A x \in Uploads : Pending(x) => Pending(x)'
      BY <1>1 DEF RecordUpload, Pending, InQueue, TypeInv, TypeOK
  <2>3. \A v \in Videos : v # UploadOf[u] => status'[v] = status[v]
      BY <1>1 DEF RecordUpload, SetStatus, TypeInv, TypeOK
  <2>4. QED
      BY <1>1, <2>1, <2>2, <2>3, StrandedFrame DEF RecordUpload
<1>2. CASE EnqueueJob(u)
  <2>1. queue' = Append(queue, u) /\ UNCHANGED <<status, crashes>> /\ queue \in Seq(Uploads)
      BY <1>2 DEF EnqueueJob, TypeInv, TypeOK
  <2>2. \A x : (\E i \in DOMAIN queue' : queue'[i] = x) <=> (\E i \in DOMAIN queue : queue[i] = x) \/ x = u
      BY <2>1, AppendHolds
  <2>3. \A x \in Uploads : Pending(x) => Pending(x)'
      BY <1>2, <2>2 DEF EnqueueJob, Pending, InQueue, TypeInv, TypeOK
  <2>4. QED
      BY <2>1, <2>3, StrandedFrame
<1>3. CASE RecordFails(u)
  <2>1. Orderly => UNCHANGED status
      BY <1>3 DEF RecordFails, Orderly
  <2>2. \A x \in Uploads : Pending(x) => Pending(x)'
      BY <1>3 DEF RecordFails, Pending, InQueue, TypeInv, TypeOK
  <2>3. crashes' = crashes
      BY <1>3 DEF RecordFails
  <2>4. QED
      BY <2>1, <2>2, <2>3 DEF NoStrandedVideo, Orderly
<1>4. CASE CheckUpload(u) \/ RejectBody(u) \/ CreateTemp(u) \/ CopyBody(u) \/ CopyFails(u)
  <2>1. UNCHANGED <<status, queue, pc, job, crashes>>
        /\ up[u] # "recorded" /\ \A x \in Uploads : x # u => up'[x] = up[x]
      BY <1>4 DEF CheckUpload, RejectBody, CreateTemp, CopyBody, CopyFails, TypeInv, TypeOK
  <2>2. \A x \in Uploads : Pending(x) => Pending(x)'
      BY <2>1 DEF Pending, InQueue
  <2>3. QED
      BY <2>1, <2>2, StrandedFrame
<1>5. QED
    BY <1>1, <1>2, <1>3, <1>4 DEF UploadStep, FinishUpload

LEMMA StrandedDelete ==
    ASSUME TypeInv, NoStrandedVideo, NEW d \in Deletes, DeleteStep(d)
    PROVE  NoStrandedVideo'
<1>1. UNCHANGED <<up, queue, workers, crashes>>
    BY DEF DeleteStep, FinishDelete, CheckDelete, ListKeys, DeleteKey, PurgeFails, DeleteRow,
           DeleteRowFails
<1>2. \A x \in Uploads : Pending(x) => Pending(x)'
    BY <1>1 DEF Pending, InQueue, workers
<1>3. \A v \in Videos : status'[v] = "transcoding" => status[v] = "transcoding"
    BY DEF DeleteStep, FinishDelete, CheckDelete, ListKeys, DeleteKey, PurgeFails, DeleteRow,
           DeleteRowFails, SetStatus, rows, TypeInv, TypeOK
<1>4. QED
    BY <1>1, <1>2, <1>3, StrandedFrame

LEMMA StrandedWorker ==
    ASSUME TypeInv, HolderInv, NoStrandedVideo, NEW w \in Workers, WorkerStep(w)
    PROVE  NoStrandedVideo'
<1> USE DEF WorkerGoes, deletes, rows
<1>1. CASE TakeJob(w)
  <2>1. /\ job' = [job EXCEPT ![w] = Head(queue)] /\ queue' = Tail(queue) /\ queue # <<>>
        /\ pc[w] = "idle" /\ pc' = [pc EXCEPT ![w] = "transcode"]
        /\ UNCHANGED <<status, up, crashes>>
      BY <1>1 DEF TakeJob
  <2>2. queue \in Seq(Uploads) /\ \A i, j \in DOMAIN queue : queue[i] = queue[j] => i = j
      BY DEF TypeInv, TypeOK, HolderInv, JobHeldOnce
  <2>3. \A x : (\E i \in DOMAIN queue' : queue'[i] = x)
               <=> (\E i \in DOMAIN queue : queue[i] = x) /\ x # Head(queue)
      BY <2>1, <2>2, TailHolds
  <2>4. pc'[w] # "cleanup" /\ job'[w] = Head(queue) /\ job[w] \notin Uploads
        /\ \A x \in Workers : x # w => job'[x] = job[x] /\ pc'[x] = pc[x]
      BY <2>1 DEF TypeInv, TypeOK, WorkerHasJob
  <2>5. ASSUME NEW x \in Uploads, Pending(x)
        PROVE  Pending(x)'
    <3>1. CASE up[x] = "recorded"
        BY <3>1, <2>1 DEF Pending
    <3>2. CASE InQueue(x)
      <4>1. InQueue(x)' \/ x = Head(queue)
          BY <3>2, <2>3 DEF InQueue
      <4>2. QED
          BY <4>1, <2>4 DEF Pending
    <3>3. CASE \E y \in Workers : job[y] = x /\ pc[y] # "cleanup"
        BY <3>3, <2>4 DEF Pending
    <3>4. QED
        BY <2>5, <3>1, <3>2, <3>3 DEF Pending
  <2>6. QED
      BY <2>1, <2>5, StrandedFrame
<1>2. CASE RemoveSource(w)
  <2>1. /\ pc[w] = "cleanup" /\ UNCHANGED <<status, up, queue, crashes>>
        /\ \A x \in Workers : x # w => job'[x] = job[x] /\ pc'[x] = pc[x]
      BY <1>2 DEF RemoveSource, TypeInv, TypeOK
  <2>2. \A x \in Uploads : Pending(x) => Pending(x)'
      BY <2>1 DEF Pending, InQueue
  <2>3. QED
      BY <2>1, <2>2, StrandedFrame
<1>3. CASE MarkReady(w) \/ MarkFailed(w)
  <2>1. /\ UNCHANGED <<up, queue, job, crashes>>
        /\ \A x \in Workers : x # w => pc'[x] = pc[x]
      BY <1>3 DEF MarkReady, MarkFailed, TypeInv, TypeOK
  <2>2. pc[w] # "idle" /\ job[w] \in Uploads /\ UploadOf[job[w]] \in Videos
      BY <1>3 DEF MarkReady, MarkFailed, TypeInv, TypeOK, WorkerHasJob
  <2>3. \A x \in Uploads : UploadOf[x] # UploadOf[job[w]] /\ Pending(x) => Pending(x)'
      BY <2>1 DEF Pending, InQueue
  <2>4. /\ Orderly => status'[UploadOf[job[w]]] # "transcoding"
        /\ \A v \in Videos : v # UploadOf[job[w]] => status'[v] = status[v]
      BY <1>3, <2>2 DEF MarkReady, MarkFailed, SaveReady, SetStatus, HasRow, Orderly, TypeInv, TypeOK
  <2>5. QED
      BY <2>1, <2>3, <2>4 DEF NoStrandedVideo, Orderly
<1>4. CASE MarkReadyFails(w)
  <2>1. ~Orderly'
      BY <1>4 DEF MarkReadyFails, Orderly
  <2>2. QED
      BY <2>1 DEF NoStrandedVideo
<1>5. CASE Transcode(w) \/ PutThumbnail(w) \/ SkipThumbnail(w) \/ PutNext(w) \/ PutFails(w)
  <2>1. /\ UNCHANGED <<status, up, queue, job, crashes>>
        /\ pc'[w] # "cleanup" /\ \A x \in Workers : x # w => pc'[x] = pc[x]
      BY <1>5 DEF Transcode, PutThumbnail, SkipThumbnail, PutNext, PutFails, TypeInv, TypeOK
  <2>2. \A x \in Uploads : Pending(x) => Pending(x)'
      BY <2>1 DEF Pending, InQueue
  <2>3. QED
      BY <2>1, <2>2, StrandedFrame
<1>6. QED
    BY <1>1, <1>2, <1>3, <1>4, <1>5 DEF WorkerStep

LEMMA StrandedStep == TypeInv /\ HolderInv /\ NoStrandedVideo /\ [Next]_vars => NoStrandedVideo'
<1> SUFFICES ASSUME TypeInv, HolderInv, NoStrandedVideo, [Next]_vars
             PROVE  NoStrandedVideo'
    OBVIOUS
<1>1. ASSUME NEW v \in Videos, CreateVideo(v) PROVE NoStrandedVideo'
  <2>1. UNCHANGED <<up, queue, pc, job, crashes>>
        /\ \A x \in Videos : status'[x] = "transcoding" => status[x] = "transcoding"
      BY <1>1 DEF CreateVideo, workers, TypeInv, TypeOK
  <2>2. \A x \in Uploads : Pending(x) => Pending(x)'
      BY <2>1 DEF Pending, InQueue
  <2>3. QED
      BY <2>1, <2>2, StrandedFrame
<1>2. CASE Crash
  <2>1. ~Orderly'
      BY <1>2 DEF Crash, Orderly, TypeInv, TypeOK
  <2>2. QED
      BY <2>1 DEF NoStrandedVideo
<1>3. CASE UNCHANGED vars
  <2>1. UNCHANGED <<status, up, queue, pc, job, crashes>>
      BY <1>3 DEF vars, rows, workers
  <2>2. \A x \in Uploads : Pending(x) => Pending(x)'
      BY <2>1 DEF Pending, InQueue
  <2>3. QED
      BY <2>1, <2>2, StrandedFrame
<1>4. QED
    BY <1>1, <1>2, <1>3, StrandedUpload, StrandedDelete, StrandedWorker DEF Next, AtRest

(* Without a restart or a database error no video is left in transcoding   *)
(* without a job that will take it out.                                    *)
THEOREM NoVideoStranded == Spec => []NoStrandedVideo
BY StrandedInit, StrandedStep, TypeInvariant, HolderInvariant, PTL DEF Spec
=============================================================================
