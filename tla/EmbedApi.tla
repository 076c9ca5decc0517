------------------------------ MODULE EmbedApi ------------------------------
(***************************************************************************)
(* The public handlers (internal/api/embed_handlers.go), the operator's    *)
(* settings (internal/api/video_handlers.go) and the tables they share     *)
(* (internal/db/ctas.go, viewer_sessions.go), with their foreign keys:     *)
(* every row hangs on its video, clicks on their CTA, and goes with it.    *)
(*                                                                         *)
(* A handler first loads the video (getPublicVideo, getOwnedVideo), then   *)
(* runs its statement.  A video that is gone stays gone, and a foreign key *)
(* refuses the statement then, so load and statement are one step where    *)
(* the handler keeps nothing else of what it loaded.  The manifest's three *)
(* queries and a lead's load, which keeps the webhook's URL, are steps of  *)
(* their own.                                                              *)
(***************************************************************************)
EXTENDS EmbedWire

CONSTANTS
    Hooks,         \* webhook URLs
    NoHook,        \* the empty URL
    NoRow,         \* no row in viewer_sessions
    MaxEdits       \* bound on changes of the settings

ASSUME HooksAssumption == NoHook \notin Hooks /\ NoRow \notin Reports /\ MaxEdits \in Nat

VARIABLES
    live,          \* the video's row is there, and ready
    gate,          \* its row of lead_gates
    ctas,          \* its rows of ctas
    unused,        \* the CTA ids not yet handed out
    hook,          \* its webhook_url
    watch,         \* each session's row of viewer_sessions
    leads,         \* the submissions that have rows of leads
    clicks,        \* rows of cta_clicks
    hookSeen,      \* the URL each submission's handler has loaded
    calls,         \* webhook calls in goroutines
    received,      \* webhook calls the customer's system got
    edits

settings == <<gate, ctas, unused, hook, edits>>
records == <<watch, leads, clicks>>
hooks == <<hookSeen, calls, received>>
serverVars == <<live, settings, records, hooks>>

Call == [lead : Submits, url : Hooks]

ServerTypeOK ==
    /\ live \in BOOLEAN
    /\ gate \in Gates \cup {NoGate}
    /\ ctas \subseteq CTAs /\ unused \subseteq CTAs
    /\ hook \in Hooks \cup {NoHook}
    /\ watch \in [Sessions -> Reports \cup {NoRow}]
    /\ leads \subseteq Submits
    /\ clicks \subseteq Sessions \X CTAs
    /\ hookSeen \in [Submits -> Hooks \cup {NoHook}]
    /\ calls \subseteq Call /\ received \subseteq Call
    /\ edits \in 0..MaxEdits

ServerInit ==
    /\ live = TRUE
    /\ gate = NoGate
    /\ ctas = {} /\ unused = CTAs
    /\ hook = NoHook
    /\ watch = [s \in Sessions |-> NoRow]
    /\ leads = {} /\ clicks = {}
    /\ hookSeen = [k \in Submits |-> NoHook]
    /\ calls = {} /\ received = {}
    /\ edits = 0

(* Slips: the row takes the report as it comes, or adds it up; a report is *)
(* inserted without the foreign key; the webhook is called when the video  *)
(* is loaded.                                                              *)
LastReport(row, report) == report

SumOfReports(row, report) ==
    IF row = NoRow THEN report
    ELSE [at |-> row.at + report.at, played |-> row.played \/ report.played]

UpsertUnkeyed(s) ==
    /\ \E report \in reported[s] : watch' = [watch EXCEPT ![s] = report]
    /\ UNCHANGED <<live, settings, leads, clicks, hooks, wires>>

CallOnLoad(k) ==
    /\ submit[k] = "sent" /\ live
    /\ SubmitGoes(k, "loaded")
    /\ hookSeen' = [hookSeen EXCEPT ![k] = hook]
    /\ calls' = IF hook = NoHook THEN calls ELSE calls \cup {[lead |-> k, url |-> hook]}
    /\ UNCHANGED <<live, settings, records, received, manifest, reported>>

-----------------------------------------------------------------------------
(* handleEmbedManifest: the video, then its CTAs, then its gate, which     *)
(* defaults to a disabled one when there is no row (any more).             *)
LoadVideo(s) ==
    /\ manifest[s].place = "asked" /\ live
    /\ ManifestGoes(s, "found")
    /\ UNCHANGED <<serverVars, reported, submit>>

ListCTAs(s) ==
    /\ manifest[s].place = "found"
    /\ manifest' = [manifest EXCEPT ![s].place = "listed", ![s].ctas = ctas]
    /\ UNCHANGED <<serverVars, reported, submit>>

GetLeadGate(s) ==
    /\ manifest[s].place = "listed"
    /\ manifest' = [manifest EXCEPT ![s].place = "answered",
                                    ![s].gate = IF gate = NoGate THEN DefaultGate ELSE gate]
    /\ UNCHANGED <<serverVars, reported, submit>>

(* Not found, a failed query, or an answer that is lost. *)
FailManifest(s) ==
    /\ manifest[s].place \in {"asked", "found", "listed", "answered"}
    /\ ManifestGoes(s, "failed")
    /\ UNCHANGED <<serverVars, reported, submit>>

(* UpsertViewerProgress: GREATEST and OR. *)
Upserted(row, report) ==
    IF row = NoRow THEN report
    ELSE [at |-> IF report.at > row.at THEN report.at ELSE row.at,
          played |-> row.played \/ report.played]

(* handleEmbedProgress.  The upsert is idempotent, so nothing is lost by   *)
(* leaving a report that has arrived among those that may.                 *)
RecordProgress(s) ==
    /\ live
    /\ \E report \in reported[s] : watch' = [watch EXCEPT ![s] = Upserted(@, report)]
    /\ UNCHANGED <<live, settings, leads, clicks, hooks, wires>>

(* handleEmbedLead *)
LoadForLead(k) ==
    /\ submit[k] = "sent" /\ live
    /\ SubmitGoes(k, "loaded")
    /\ hookSeen' = [hookSeen EXCEPT ![k] = hook]
    /\ UNCHANGED <<live, settings, records, calls, received, manifest, reported>>

StoreLead(k) ==
    /\ submit[k] = "loaded" /\ live
    /\ leads' = leads \cup {k}
    /\ \/ /\ SubmitGoes(k, "stored")
          /\ calls' = IF hookSeen[k] = NoHook THEN calls
                      ELSE calls \cup {[lead |-> k, url |-> hookSeen[k]]}
       \/ SubmitGoes(k, "refused") /\ UNCHANGED calls  \* stored, told that it failed
    /\ hookSeen' = [hookSeen EXCEPT ![k] = NoHook]
    /\ UNCHANGED <<live, settings, watch, clicks, received, manifest, reported>>

(* Lost, not found, refused by the foreign key, or a failed statement. *)
RefuseLead(k) ==
    /\ submit[k] \in {"sent", "loaded"}
    /\ SubmitGoes(k, "refused")
    /\ hookSeen' = [hookSeen EXCEPT ![k] = NoHook]
    /\ UNCHANGED <<live, settings, records, calls, received, manifest, reported>>

(* The goroutine: one call, whose error is dropped. *)
SendLead(call) ==
    /\ calls' = calls \ {call}
    /\ received' \in {received, received \cup {call}}
    /\ UNCHANGED <<live, settings, records, hookSeen, wires>>

(* handleEmbedCTAClick.  A click has no effect before it arrives. *)
RecordCTAClick(s, c) ==
    /\ live /\ c \in ctas
    /\ clicks' = clicks \cup {<<s, c>>}
    /\ UNCHANGED <<live, settings, watch, leads, hooks, wires>>

-----------------------------------------------------------------------------
(* The operator. *)
Edit == live /\ edits < MaxEdits /\ edits' = edits + 1

SetLeadGate(g) ==
    /\ Edit
    /\ gate' = g
    /\ UNCHANGED <<live, ctas, unused, hook, records, hooks, wires>>

SetWebhook(url) ==
    /\ Edit
    /\ hook' = url
    /\ UNCHANGED <<live, gate, ctas, unused, records, hooks, wires>>

CreateCTA(c) ==
    /\ Edit
    /\ c \in unused
    /\ unused' = unused \ {c}
    /\ ctas' = ctas \cup {c}
    /\ UNCHANGED <<live, gate, hook, records, hooks, wires>>

DeleteCTA(c) ==
    /\ Edit
    /\ c \in ctas
    /\ ctas' = ctas \ {c}
    /\ clicks' = {click \in clicks : click[2] # c}
    /\ UNCHANGED <<live, gate, unused, hook, watch, leads, hooks, wires>>

(* DeleteVideo, with all that hangs on the row. *)
DeleteVideo ==
    /\ live
    /\ live' = FALSE
    /\ gate' = NoGate /\ ctas' = {}
    /\ watch' = [s \in Sessions |-> NoRow]
    /\ leads' = {} /\ clicks' = {}
    /\ UNCHANGED <<unused, hook, edits, hooks, wires>>

Operate ==
    \/ \E g \in Gates : SetLeadGate(g)
    \/ \E url \in Hooks \cup {NoHook} : SetWebhook(url)
    \/ \E c \in CTAs : CreateCTA(c) \/ DeleteCTA(c)
    \/ DeleteVideo

ServeManifest(s) == LoadVideo(s) \/ ListCTAs(s) \/ GetLeadGate(s) \/ FailManifest(s)

ServeLead(k) == LoadForLead(k) \/ StoreLead(k) \/ RefuseLead(k)

ServeViewers ==
    \/ \E s \in Sessions : ServeManifest(s) \/ RecordProgress(s)
    \/ \E k \in Submits : ServeLead(k)
    \/ \E call \in calls : SendLead(call)
=============================================================================
