# A verification of clipfolio

Clipfolio hosts videos: an operator uploads a file, the server transcodes it to
HLS into an S3-compatible bucket, viewers watch it in an embedded player that
reports progress, shows CTAs and asks for an email address. One Go process does
all of it, beside Postgres, the bucket and the browsers.

These modules model that code in TLA+, check the models with TLC on small
instances and prove the main results with TLAPS for all instances. Paths below
are those of the repository.

## Inventory

| component | state | operations | talks to |
|---|---|---|---|
| video handlers (`internal/api/video_handlers.go`) | a request's local state, its temporary file | create, upload, delete, read, settings | rows, bucket, job queue |
| transcode queue (`internal/api/transcode_queue.go`) | the `jobs` channel (64), two workers, each with a job and a scratch directory | Enqueue, worker, process | rows, bucket, ffmpeg, temporary files |
| rows (`internal/db/*.go`) | users, sessions, videos, ctas, lead gates, viewer sessions, leads, clicks | one SQL statement each, no transactions but in Migrate | Postgres |
| object store (`internal/storage/storage.go`) | the bucket | Put, DeletePrefix, PublicURL | S3 |
| setup and sessions (`internal/api/auth_handlers.go`, `internal/auth`) | users, sessions, cookies | setup, login, logout, requireAuth | rows |
| embed API (`internal/api/embed_handlers.go`) | none of its own | manifest, progress, lead, CTA click | rows, webhook |
| webhook (`internal/webhook/webhook.go`) | none | SendLead | the operator's CRM |
| analytics (`internal/analytics/analytics.go`) | none (pure) | Summarize | viewer sessions |
| renditions (`internal/transcode/transcode.go`) | none (pure), and ffmpeg | SelectRenditions, BuildFFmpegArgs, ToHLS, Probe | ffmpeg |
| migrations (`internal/db/migrate.go`) | schema_migrations | Migrate | Postgres |
| process (`cmd/clipfolio/main.go`) | none | start, SIGTERM | all |
| player (`web/player/src/player.ts`) | gate shown/resolved, heartbeat timer, CTAs shown | play, pause, timeupdate, ended, submit | embed API |
| dashboard (`web/dashboard/src`) | the video last fetched | upload, poll, delete | video handlers |

What is hard, and what makes each part correct:

- **Video handlers, queue, workers, bucket, rows.** No statement spans two of
  these, nothing is locked, and three kinds of process (uploads, deletes, workers) work on the
  same video. Calls fail, with or without effect; the process may end between
  any two steps and forgets its queue. Correct means: each accepted upload is
  worked on once; its file is there as long as it is needed and no longer; a
  ready video can be played; no video waits for ever in *transcoding*; a delete
  leaves nothing, and touches nothing else.
- **Setup.** Count-then-insert without a transaction. Correct means: one
  administrator, and none without the token where one is set.
- **Progress, leads, webhook.** Beacons are lost, repeated and reordered; forms
  are submitted again; a video is deleted between the check and the insert.
  Correct means: progress never goes back, a stored lead was submitted, the
  webhook tells only of stored leads.
- **Player, dashboard.** Events and answers in any order. Correct means:
  nothing past an unresolved gate is played; an old answer does not hide a
  newer one.
- **Analytics, renditions.** Pure, with edges at zero. Correct means: fractions
  within 0 and 1, a curve that does not rise, always a rendition and none above
  the source if there is a choice.

`PROJECT.json` lists these hazards at their lines.

## Plan

In the order of importance; all steps but the last are done.

1. **VideoLifecycle**, **VideoPipeline**: the video's life, abstract and
   detailed; runs, refinement, findings.
2. **VideoPipelineProofs**, **VideoPublishProofs**: type correctness, job and file
   ownership, no stranded video, complete playlists, whole videos, clean deletes.
3. **VideoRefinementProofs**: the pipeline implements
   `VideoLifecycle!LifecycleSafety` when each video is uploaded to once and no
   prefix covers another's keys.
4. **Migrations**, **Accounts** and their composition **Service**: processes
   that start, migrate at once, serve and stop; setup, login, logout, sessions.
5. **EmbedWire**, **EmbedApi**, **Player** and their composition **Viewing**,
   which implements **FurthestPoint**.
6. **Analytics**, **Renditions**, checked together in **Figures**.
7. **Dashboard**, over `VideoLifecycle`.
8. **ServiceProofs**: the safety of `Service`.
9. **ViewingProofs**: the safety of `Viewing` and its refinement of
   `FurthestPoint`.
10. **DashboardProofs**: the page's type correctness and `NotAhead`.
11. **AnalyticsProofs**, **FiguresProofs**: the arithmetic of the figures (sums,
   shares, samples), and with it every property of `Figures`.
12. Open: a pipeline that is published more than once (`VideoLifecycle` with the
   two uploads that `AcceptedOnce` excludes), to say what a player may then meet.

## The modules

| module | stands for | composed in |
|---|---|---|
| `VideoPipeline` | upload, delete, queue, workers, bucket | instantiates `VideoLifecycle` |
| `VideoLifecycle` | abstract: the life of a video's status | |
| `Migrations` | `db.Migrate` in several processes | `Service` |
| `Accounts` | setup, login, logout, requireAuth, cookies | `Service` |
| `EmbedWire` | what player and server share | `EmbedApi`, `Player` |
| `EmbedApi` | public handlers, operator's settings, their tables, the webhook | `Viewing` |
| `Player` | the embedded player and its video element | `Viewing` |
| `FurthestPoint` | abstract: the record of how far a viewer came | instantiated by `Viewing`, extended by `Figures` |
| `Times` | the unit of time | `Analytics`, `Renditions` |
| `Analytics`, `Renditions` | pure functions | `Figures` |
| `Dashboard` | the page of a video | extends `VideoLifecycle` |

`MC...` modules give the constants of the small instances; each `.cfg` is one
run. `VideoPipelineProofs` extends `VideoPipeline`, and `VideoPublishProofs` and
then `VideoRefinementProofs` extend it; `ServiceProofs`, `ViewingProofs` and
`DashboardProofs` extend the module they are named for, `AnalyticsProofs` extends
`Analytics`, and `FiguresProofs` extends `Figures` and `AnalyticsProofs`.

### VideoPipeline

State and the code it stands for:

| variable | code |
|---|---|
| `status`, `thumbKey` | `videos.status`, and whether `videos.thumbnail_key` is set; `"none"` before the INSERT, `"deleted"` after the DELETE |
| `bucket` | for each video and object name, which upload's data is stored |
| `tmp` | the `clipfolio-upload-*` files; a file is named by its upload |
| `up`, `del` | where each request stands in `handleUploadVideo`, `handleDeleteVideo` |
| `listed` | what `DeletePrefix` has listed and not yet deleted |
| `queue` | the channel `jobs`, capacity `QueueCap` |
| `pc`, `job`, `sent`, `thumb` | where a worker stands in `worker` and `process`, its job, how many files it has put, whether `thumbnailKey` is non-empty |
| `crashes` | how often the process was restarted |

One action is one effect another process can see. `handleUploadVideo` is
CheckUpload, then RejectBody or CreateTemp, CopyBody or CopyFails,
RecordUpload or RecordFails, EnqueueJob. `handleDeleteVideo` is CheckDelete,
ListKeys, DeleteKey for each key, DeleteRow or DeleteRowFails, with PurgeFails
in between. `worker` and `process` are TakeJob, Transcode, PutThumbnail or
SkipThumbnail, PutNext for each file or PutFails, MarkReady or MarkReadyFails,
MarkFailed on the error paths, RemoveSource. Crash ends the process.

Two conversions matter and are modelled by what they do: `UploadOrder` is the
order `process` puts files in (the source, then `os.ReadDir`'s order, in which
`master.m3u8` sorts last), and `PrefixCovers` is what the prefix `videos/%d`
covers, which has no slash after the id.

`Faults` selects what may go wrong: `db` (a statement fails without effect),
`dbReply` (it takes effect and its caller is told it failed), `media` (ffmpeg
or a local file), `storage` (a list, put or delete fails; a put also after it
took effect).

What is abstracted: an object is the upload that wrote it; the names are the
source, the thumbnail, the rendition files and the master playlist; columns
nobody decides on (error, duration, source and playlist keys, which are
functions of the id) are left out; videos have one owner, who is signed in; a
listing is one page (up to 1000 keys; more pages would be more listings); the
scratch directory is private to a worker; Available, Probe, MkdirTemp and ToHLS
are one step, since nothing they touch is shared; every source gives the same
set of rendition files.

Definitions called slips (`MasterFirst`, `EnqueueAgain`, ...) are mistaken
variants of the definition they are named for. They are in no specification;
each property fails when one of them takes the place of the definition.

### VideoLifecycle

A promise and not a translation: a video is created, accepted,
published or failed, condemned by a delete that found its row, dropped. It is
published only when whole, and stays whole until condemned; every
transcode ends. `VideoPipeline` maps a status to a phase, with *condemned* for
a row that some delete has found, and *whole* to having every object from one
upload.

### Migrations, Accounts, Service

`Migrations`: `table` and `recorded` are `schema_migrations`, `applied` the
migrations whose contents were committed, in the order of the commits; `pc` and
`at` say where each process is in the loop. One action is one statement
(EnsureTable and CreateTable for `CREATE TABLE IF NOT EXISTS`, which looks before
it creates; SkipApplied or FindPending for the SELECT; ExecContents,
RecordMigration and CommitMigration for the transaction). What Postgres does is
modelled from what the code relies on: uncommitted rows are invisible, a second
insert of one key and a second CREATE of one table wait for the first
transaction (`Locked`) and fail if it commits. A migration in `Clashing` fails
where it was applied before, as `0001_init.sql` does; others, a future
`INSERT` or `ALTER ... IF NOT EXISTS`, do not, and then only the primary key protects
them. FailStart, CommitUnanswered and StopServing are the mishaps, at most
`MaxMishaps`.

`Accounts`: `users` and `sessions` are the tables, `call` says where each request stands,
`cookie` and `carried` the browsers' side. Setup is CountUsers, RefuseForm or
CreateUser, StartSession; login is FindAccount, StartSession; the answer reaches
its browser in ReceiveSession. Logout is SendCookie, DropSession, ClearCookie; a
dashboard request is SendCookie, RequireAuth. Every statement may fail (`db`) and
those that write may fail after they took effect (`dbReply`). The emptiness of the email
and bodies that do not parse are left out: they are refused like a short password.
`GetSession` and `GetUserByID` are one step, since users are never deleted
and nothing writes between a token and its user.

`Service` serves a request only in a process that has come up, and a process
that stops takes its requests with it (`LoseCalls`).

### EmbedWire, EmbedApi, Player, Viewing

One video is followed from the moment it is ready, which it stays until it is
deleted (with one accepted upload, by `VideoLifecycle`). A session is one load of
the player. Time in it is counted in steps of playback.

`EmbedApi`: the rows that hang on the video, and `live`, the video's own. A
handler loads the video and then runs its statement. Rows of a video that is gone
cannot be inserted (foreign keys), and a video does not come back, so load and
statement are one step where nothing else of the load is kept; the manifest is
three reads (LoadVideo, ListCTAs, GetLeadGate), and a lead keeps the webhook URL
from LoadForLead to StoreLead. A report that has arrived stays among those that
may arrive: the upsert with GREATEST and OR is idempotent, so this is
duplication, delay and reordering without a bag. SendLead is the goroutine's call.

`Player`: the video element (`pos`, `playing`) changes at once and queues events;
one listener runs at a time and finds the element as it is by then. OnPlay,
OnPause, OnTimeupdate and OnEnded are the listeners, Render is the end of `init`,
Heartbeat the interval, SubmitLead, TakeAnswer and TakeRefusal the form. The
pause event a browser adds before ended would only stop the interval that ended
stops. The form can be sent again while an answer is awaited, as another
element of `Submits`.

`Viewing` joins both; `FurthestPoint` says what analytics may rely on, and
`RecordsFurthest` that the tables do as it says.

### Times, Analytics, Renditions, Figures

Operators, one for each function. A float64 between 0 and 1 is the fraction it
stands for, so comparisons are exact. Times are integers in a unit finer than what they
are rounded to, as ffprobe prints microseconds: `Hundredth` says how many of these
make a hundredth of a second. SampleTime rounds to hundredths as `round2` does and
SeekTime as `%.2f` does, to the even one of two. A sample is counted at its exact time
(ReachedSample) and shown at the rounded one, so the last may be shown past the end of
the video: at 10.03 s of 10.026667. `Figures` applies the functions to every record
that `FurthestPoint` allows, with a duration that Probe found and that need not be the
player's.

### Dashboard

`load` holds the requests for the video that are outstanding, each asked, or
answered and not yet arrived; SetVideo takes answers in any order. `Polls` is the
effect that sets the interval: it is set exactly as long as the page is open
and shows no end. `upload` holds the files that were sent: the input of UploadWidget
stays enabled while one is sent, so there may be several, of which the server accepts
one in the life of `VideoLifecycle`. `removing` counts the deletes that await their
answer, as nothing disables the button; an answer navigates to the list even when the
page that asked is gone. The video lives as `VideoLifecycle` says, so what the page
relies on is what the pipeline was shown to promise.

## The runs

| run | instance | checks | distinct states |
|---|---|---|---|
| pipeline_race | 1 video, 2 uploads, 1 delete, 2 workers, queue of 1, every fault, 1 restart | TypeOK, JobHeldOnce, TmpFileHeld, PlaylistComplete, ReadyIsWhole | 1.9 million |
| pipeline_fair | as before with 1 worker, media and storage faults, fair | NoStrandedVideo, CleanDelete, UploadSettles, TmpFileReclaimed | 47 thousand |
| pipeline_lifecycle | 2 videos, an upload each, a delete of one, 2 workers, media and storage faults, fair | ImplementsLifecycle | 163 thousand |
| half_uploaded, delete_race | as pipeline_race, nothing fails | NoHalfUploadedAsset, DeletedLeavesNothing: violated | |
| delete_prefix | videos 1 and 10, an upload each, a delete of 1, nothing fails | SpareOtherVideos: violated | |
| service | 2 processes, 2 migrations, 3 setups, a login, a logout, a dashboard request, 2 browsers, every fault, 1 mishap, fair | TypeOK, AppliedOnce, ServesWholeSchema, OneComesUp, ServedToHolder, LoggedOutStaysOut, AccountHolderGetsIn | 443 thousand |
| setup_race | 2 setups, nothing fails | OneAdmin: violated | |
| viewing | 1 viewer, a video of 2 steps, 2 CTAs, 2 gates, a form that can be sent again when refused, 2 changes by the operator, 2 queued events | TypeOK, GatePassedByLead, BeforeGateHolds, GateNotMissed, HeartbeatFollows, HookHasLead, ClicksGenuine, NoOrphans, RecordsFurthest | 460 thousand |
| gate_skipped | the same | GateStopsPlayback: violated | |
| figures | 2 viewers, 4 steps, 3 samples, 9 sources | FiguresTypeOK, SharesInRange, CurveFalls, AverageFitsCurve, FiguresGrow, RenditionsFit, SeekInside | 11 thousand |
| dashboard | 1 video, 2 loads, 2 uploads and 2 deletes at a time, 1 answer lost, opened twice, fair | TypeOK, NotAhead, EndIsShown, StopsAsking | 141 thousand |

The passing runs show, in words:

- `JobHeldOnce`, `TmpFileHeld`: through the handler, the channel and the worker
  a job has exactly one holder, and the file it needs is there while it does;
  without a restart no file outlives its job.
- `PlaylistComplete`: as long as no delete that covers the video has found its
  row, a master playlist in the bucket names only files that are there, whatever failed or restarted.
- `ReadyIsWhole`: a ready video has all objects, from one upload, if one
  was accepted and no delete has begun that covers it.
- `NoStrandedVideo`, `UploadSettles`: without restarts and database errors
  a video in *transcoding* has a job that will take it out, and in the end does.
- `CleanDelete`: after uploads have come to rest, a row that is gone left no
  objects, even if an earlier purge failed halfway.
- `TmpFileReclaimed`: every temporary file goes, also of those that waited for
  a full channel.
- `ImplementsLifecycle`: all of `VideoLifecycle`, step by step.
- `AppliedOnce`, `ServesWholeSchema`, `OneComesUp`: processes that start at once
  do not apply a file twice or out of order, none serves on half a schema, and
  one comes up without help: who loses a race exits, but not everybody
  does, and nobody waits for ever.
- `ServedToHolder`, `AccountHolderGetsIn`: who is served has typed the
  credentials of the account, and who types them is never told that they are wrong
  (a failing statement may still turn them away), also when the setup that made the
  account was answered 500.
- `LoggedOutStaysOut`: a browser that was told it is logged out has dropped the
  session for good, whatever else it has outstanding. That the session's row is gone as
  well is said only where no statement fails; the run has failing statements, and
  that part rests on the theorem.
- `GatePassedByLead`, `BeforeGateHolds`, `GateNotMissed`: a gate opens only on a
  stored lead, a gate before playback holds however play is pressed, and a
  gate at a time is shown however that time was reached (one at the start, when the
  video first moves). Submissions that overlap are in the theorem and not in the run.
- `HeartbeatFollows`, `RecordsFurthest`, `ClicksGenuine`: what is recorded of a
  viewer is what happened.
- `HookHasLead`, `NoOrphans`: the customer's system hears of stored leads only,
  and nothing outlives the video.
- `SharesInRange` to `FiguresGrow`: the figures are shares, agree with each other, and
  grow with the records. `CurveFalls`: the curve never rises or goes back, and
  rounding moves no point further than half a hundredth of a second. `AverageFitsCurve` is
  the reference definition: the average watched is the area under the drop-off curve, to
  the width of a sample.
- `NotAhead`, `EndIsShown`, `StopsAsking`: the page shows what was so, ends with
  the status the video ends with, and stops.

The premises are the boundary of what the code does: the first three violating runs
show what happens beyond it, without any fault. Two uploads may both pass the
status check (`video_handlers.go:101`) before either sets the status (134), and
a ready video is then a mixture. A delete neither stops nor waits for the jobs
of the video, and what they put after the listing stays. And the delete of video 1
deletes the objects of videos 10 to 19, 100 to 199 and so on. Of the other two,
setup_race has two setups that both counted no users
(`auth_handlers.go:38`) before either made its account, and gate_skipped a viewer who
presses play behind a gate at a timestamp: the listener paused the video when it
showed the gate and does so no more.

Bounds. Two uploads and two workers are the smallest number for every race
between jobs, a queue of one makes the second handler block, one rendition file
gives a put before it, the put itself and a put after it (source, segment,
master). One restart between any two steps is enough to lose the queue and each
partial job; what a restart finds does not depend on how many came before. A
delete is run against both, and a second delete would only list what is left.
The theorems remove these bounds for the properties proved.

In service, two processes and two files, one of which clashes, are the smallest
race in which one process may be a file behind; a single mishap reaches
every state between two statements, and the theorems have no bound. Three setups
are two that race, with one email in two spellings, and one without the token. In
viewing, two steps put a time before, at and after the gate and two before the CTA; two
queued events and those the listeners add suffice for a listener to find the element other
than its event left it; two changes are what is needed to make and unmake a setting
while a manifest is read. One submission is outstanding at a time in the instance;
`EmbedApi` and `Player` allow more. In figures, two viewers are the fewest with an
average and a step in the curve, and three samples do not divide the durations; a unit of a
millisecond gives durations whose last sample is rounded down, up and from half-way.
In dashboard, two loads are what it takes for one to overtake another, and two uploads or
deletes for one to be refused after the other was accepted.

Fairness. `FairSpec` assumes weak fairness of each worker, of each upload
handler once its body is received, and of each delete handler once it has found
the row. The code justifies it: goroutines are scheduled, S3, database and
ffmpeg calls return (possibly with an error), and a channel hands its room to
the sender that has waited longest, so that a handler blocked in Enqueue
is served (the model needs only weak fairness here since, with two uploads, the
channel that has room stays so until the waiting handler sends). No fairness
is assumed of clients: they need send no request, and may stall in the middle
of a body, for which the server sets no read timeout. In the liveness runs there are no
restarts and no database errors, because with either a video does stay in
*transcoding*; the repository's README says so of restarts ("Limits").

`Service!FairSpec` assumes weak fairness of each process's next step in
Migrate: statements return, and Postgres ends a wait for a lock when its
holder's transaction ends. Nothing starts an exited process again by fairness.
`Dashboard!Spec` assumes that the interval fires, that a load is answered and its
answer taken, and the fairness of the pipeline is not needed: `EndIsShown` speaks
of videos that have come to an end. At most `MaxLost` answers are lost; a page
that never gets an answer shows nothing.

Deadlock is checked in the runs of the pipeline and of the dashboard. The others
may stop: every request has been made, the video has been deleted. In the pipeline, `AtRest` is the stuttering step of a server
whose requests have all been answered, and is enabled in no other state.

## What is proved

For all values of the constants that satisfy the five named assumptions
(`IdAssumption` ... `FaultAssumption`): any sets of videos, requests and workers,
any rendition files, capacity, faults and number of restarts. Those of
`ServiceProofs` need the assumptions of `Migrations` and `Accounts`, and hold for any
processes, files, requests, browsers and faults. Those of `ViewingProofs` need the
assumptions of `EmbedWire`, `EmbedApi` and `Viewing`, and hold for any viewers, gates, CTAs,
forms and length of the video, with any number of changes and queued events. Those of
`DashboardProofs` hold for any videos, overlapping loads, uploads and deletes, lost answers
and visits, and those of `FiguresProofs` for any sources, unit of time, steps, samples and
viewers, if there are
finitely many of these (`ViewersAssumption`: they are rows of a table, and what is summed
over an infinite set has no value).

| theorem | property | module |
|---|---|---|
| TypeCorrect | `TypeOK` | VideoPipelineProofs |
| JobsHeldOnce | `JobHeldOnce` | VideoPipelineProofs |
| TmpFilesHeld | `TmpFileHeld` | VideoPipelineProofs |
| NoVideoStranded | `NoStrandedVideo` | VideoPipelineProofs |
| PlaylistsComplete | `PlaylistComplete` | VideoPublishProofs |
| ReadyVideosWhole | `ReadyIsWhole` | VideoPublishProofs |
| DeletesAreClean | `CleanDelete` | VideoPublishProofs |
| PipelineImplementsLifecycle | the safety part of `ImplementsLifecycle`, given `Separate` | VideoRefinementProofs |
| ServiceTypeCorrect | `TypeOK` of `Service` | ServiceProofs |
| MigrationsAppliedOnce | `AppliedOnce` | ServiceProofs |
| WholeSchemaServed | `ServesWholeSchema` | ServiceProofs |
| RequestsServedToHolder | `ServedToHolder` | ServiceProofs |
| HolderGetsIn | `AccountHolderGetsIn` | ServiceProofs |
| LoggedOutForGood | `LoggedOutStaysOut` | ServiceProofs |
| ViewingTypeCorrect | `TypeOK` of `Viewing` | ViewingProofs |
| LeadsBehindGates | `GatePassedByLead` | ViewingProofs |
| LeadsBehindHooks | `HookHasLead` | ViewingProofs |
| NothingOrphaned | `NoOrphans` | ViewingProofs |
| EveryClickGenuine | `ClicksGenuine` | ViewingProofs |
| HeartbeatsFollow | `HeartbeatFollows` | ViewingProofs |
| BeforeGatesHold | `BeforeGateHolds` | ViewingProofs |
| PlayerCatchesUp | `GateNotMissed` | ViewingProofs |
| ViewingRecordsFurthest | `RecordsFurthest` | ViewingProofs |
| PageTypeCorrect | `TypeOK` of `Dashboard` | DashboardProofs |
| PageNotAhead | `NotAhead` | DashboardProofs |
| FiguresTypeCorrect | `FiguresTypeOK` | FiguresProofs |
| SharesAreInRange | `SharesInRange` | FiguresProofs |
| CurveAlwaysFalls | `CurveFalls` | FiguresProofs |
| AverageAlwaysFits | `AverageFitsCurve` | FiguresProofs |
| FiguresAlwaysGrow | `FiguresGrow` | FiguresProofs |
| RenditionsAlwaysFit | `RenditionsFit` | FiguresProofs |
| ThumbnailInside | `SeekInside` | FiguresProofs |

For the pipeline the argument is a chain of invariants, each inductive given those before it:

1. `TypeInv` is `TypeOK` and that a worker has a job exactly when it is not
   idle; without the latter `UploadOf[job[w]]` has no value.
2. `HolderInv` is `JobHeldOnce /\ TmpFileHeld`. Neither is inductive alone: a
   worker may remove its file only because nobody else holds the job, and the
   file of a job is there only because one holder at a time removes it.
3. `NoStrandedVideo` passes a witness along from the handler to the channel to
   the worker. When a worker lets go of it, it has changed the status.
4. `PlaylistInv` adds to `PlaylistComplete` that a delete holds only keys it covers
   and only while purging, that a job starts with nothing put (`FreshInv`), and
   that what an undisturbed video's worker has counted as put is there
   (`ProgressInv`). The put of the playlist is the last, so the count says that all
   else is there.
5. `PublishInv` strengthens the count for a video with one accepted upload
   (`SoleProgressInv`: what was counted is there *as put*, as `HolderInv` leaves no
   second writer), and says of a ready video that the upload its objects are
   from is over (`Over`), so that nobody will overwrite them.

6. `LifeInv` says where a video stands while something is at it: *uploading* until
   its upload is recorded, *transcoding* while its job is pending (or deleted in
   either case), and that objects lie under the video they were uploaded to.
   `SeenCreate` to `SeenCrash` then map each action to the step of `VideoLifecycle` it
   is, or to a stutter. The put that completes a video is its `Complete`, and
   `PublishInv` shows that it came before the `Publish`.

`DeletesAreClean` rests on an invariant of its own, `CleanInv(v)`, which holds from when
`AtRestBeforePurge(v)` does: no job of the video is left or comes up again (`StaysSettled`), so
nothing of it comes back to the bucket (`NothingComesBack`), so each delete that is purging
still has on its list whatever is left (`PurgeGoesOn`), and a row goes only when that
list is empty. That it starts at `AtRestBeforePurge(v)` takes `DeletedByDelete`: a row
that is gone has a delete that ended.

The theorem of 6 assumes `Separate`: one upload request for a video, no prefix
that covers another's keys, and no `dbReply`. The first two are what the violating
runs deny. With the third, the statement that makes a row ready may take effect and
report an error, and the worker then marks the ready video failed. It
holds with every other fault and any number of restarts, where the run
pipeline_lifecycle has no database errors and no restart.

For the service there are two, one for each part, as no step changes both but a
stop, which only moves requests to *lost*. `MigrateInv` adds to `AppliedOnce` that a
process in its loop has everything before its file in place (`InOrder`), and that a
row that is inserted and not committed is not there and has one owner
(`OneInserts`): a commit then appends the next file and no other. `PublishNext` says
so once for both ways a commit can go. `AccountInv` says that every account is what
its setup typed, with the token (`AccountsTyped`), that a request acts only for an account it
has matched (`SessionsMatched`), and that this still held for the session of
every request that was served (`ChecksMatched`). A match is never undone, because accounts
are only added (`StaysMatched`); most steps match nothing (`NothingMatched`). `LoggedOutStaysOut` is about
browsers, so `LogoutInv` follows the cookie: what a browser holds or carries into a
request is a session it has been sent (`CookiesReceived`, `CarriedReceived`), so a session
is not received again once it was given up; the session a logout carried is gone from its
browser once the answer is there (`CookieGivenUp`), and from the table once the handler is
through, unless a statement failed (`SessionGivenUp`).

For a viewing, `ViewingInv` has three parts. The properties of the player speak of
states with an empty queue, so `PlayerInv` says of each session what its queued events
will still do: the last play, pause or ended in the queue is the turn the video took
(`HeartbeatWillFollow`), a video that plays against its gate has a play to come whose
listener pauses it (`HoldWillCome`), a gate whose time has come is shown or a timeupdate to
come shows it (`GateWillCome`). `AppendEvent` and `TakeEvent` say what adding and taking
an event does to such statements, and nothing else in the proof looks into a queue.
`NoneAhead` says that reports, records and a queued ended are not ahead of the viewer,
which `ClicksGenuine` and the refinement need: a report may arrive when the viewer is long
elsewhere. `LeadInv` adds that an answer that says stored is about a lead on record
(`StoredOnRecord`). Each action changes one session; `AloneKeeps` does the others.

For the page, `PageInv` says `Behind` of the status shown and of every answer on its
way, as any of them may be the one that is shown next, and old ones after newer; that a
status which was behind stays behind is what `PhaseMoves` says of `VideoLifecycle`.

For the figures only `RecordsOK` is needed of the reachable states: that records, height
and duration have their types. The rest is arithmetic, done for any rows in
`AnalyticsProofs`. A sum is a fold over a finite set; the prover has no induction
over such a set, but it has that a well-founded order has minimal elements, and
that is stated of sets, not of operators: `SubsetsAllGood` draws from it that a set of subsets
which is closed under adding an element has them all. `SumBounds`, `SumsCompare` (what holds
of the addends holds of the sums) and `CountBothWays` (pairs may be counted by rows or
by columns) follow. `AverageAlwaysFits` is the last in a row: the area under the curve counts
pairs of a viewer and a sample; counted by viewers it is the number of samples each has
reached, which is the time watched to within a sample (`ReachedIsWatched`,
`WatchedIsReached`). `SampleTimes` and `SamplesInOrder` say of the rounding that it moves a
sample by at most half a hundredth and keeps their order. `FiguresAlwaysGrow` has
`RowsGrow`, that a step only takes a row further; with as many plays as before, those who play are the same viewers. The loop of
SelectRenditions goes over three candidates and is unfolded (`Selected`).

`OrderShape` is the lemma about `UploadOrder` (the playlist is last and
nowhere else, the thumbnail is no part of it); `AppendHolds`, `AppendDistinct`
and `TailHolds` are those about the channel.

Model-checked only: `UploadSettles`, `TmpFileReclaimed`, `OneComesUp`, `EndIsShown`,
`StopsAsking`, and of `ImplementsLifecycle` the last conjunct, that every transcode ends.
These are liveness under fairness, which is beyond the prover. Every other property of the
passing runs is a theorem, `ImplementsLifecycle` under the premise `Separate`. The
violations are counterexamples and need none.

## Not modelled

- ffmpeg itself (which streams it finds, whether a seek yields a frame), and of
  `BuildFFmpegArgs` the arguments that set no stream, scale or name.
- The dashboard's list, editors and sign-in pages: each sends a request that is
  modelled at the server and shows the answer. The preview, which is rendered again
  when some settings change, is a hazard in `PROJECT.json` and in no model.
- Several owners: an account sees its own videos (`getOwnedVideo`), and one account is the
  normal case. The pipeline and the viewers know no owner.
- Configuration but for the setup token; connecting to the object store; routing but for
  what passes requireAuth; static files, encodings, hashing and token
  generation; styling, HLS attachment and mounting in the player; the build, scripts and test support.
- The rounding errors of float64 itself: what is computed before `round2`, `%.2f` or a
  comparison is exact in the model, so which of two hundredths is taken may differ where
  a time lies half-way between them.
