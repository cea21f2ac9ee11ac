---------------------------- MODULE GatewayLive -----------------------------
(***************************************************************************)
(* One paid live session in the gateway: the request that opens it          *)
(* (paidLiveOpen.ts), the reconciler that recovers and settles it           *)
(* (paidLiveReconciler.ts), the RTMP dispatcher that relays its publishers  *)
(* (dispatcher.ts) and the customer's end request (routes/live/streams.ts), *)
(* all over one row of media.paid_operations.                               *)
(*                                                                          *)
(* A task may be overtaken at every await, except where merging two steps   *)
(* changes nothing another task can see: a remote call and the fenced write *)
(* of its answer, a write and the release after it.  The tasks of the one   *)
(* gateway process (liveSessionDirectory.ts: "Single-instance v0") share an *)
(* owner name, so they take the recovery lease from each other; a crash     *)
(* loses tasks, publishers and relays and leaves the lease to a dead owner. *)
(* PaidOperation shows that at most one remembered claim carries the row's  *)
(* version: here "holder" is the task that remembers it.  putSecrets is one *)
(* step (PaidOperation has the two steps it really is).                     *)
(*                                                                          *)
(* Units, URLs, keys, playback ids, output health and the text of reasons   *)
(* are left out; a lease or a grace period is only ever running or over.    *)
(* Refills are left out because no execution reaches one: see RecStatus.    *)
(***************************************************************************)
EXTENDS Naturals

CONSTANTS
    Conns,          \* RTMP connections that may publish
    MaxPublishes,   \* bound on publish attempts
    MaxEnds,        \* bound on customer end requests
    MaxFaults,      \* bound on failed calls, slow tasks, relay errors, crashes
    None

ASSUME GatewayAssumption ==
    /\ MaxPublishes \in Nat
    /\ MaxEnds \in Nat
    /\ MaxFaults \in Nat
    /\ None \notin Conns

VARIABLES
    row,        \* the row of paid_operations and its secrets
    holder,     \* task whose claim carries the row's lifecycle_version
    stream,     \* status of live_streams: active and reconnecting are "live"
    open,       \* step of openPaidLiveStream
    rec,        \* reconcileOne
    conn,       \* connections whose socket is open
    up,         \* step of the postPublish handler, per connection
    down,       \* step of scheduleAuthoritativeReconcile, per connection
    child,      \* ffmpeg relay, per connection
    relaying,   \* activeByStream
    broker,     \* the broker's session
    loc,        \* LOC's operation
    spent       \* publishes, ends and faults so far

processVars == <<open, rec, conn, up, down, child, relaying>>
vars == <<row, holder, stream, processVars, broker, loc, spent>>

Opener == <<"open", None>>
Rec == <<"rec", None>>
Up(p) == <<"up", p>>
Down(p) == <<"down", p>>
Nobody == <<"nobody", None>>

Winddown == {"winddown_requested", "winddown_pending", "winddown_retry",
             "winddown_failed"}

\* reconcileOne before a claim.
RecIdle == [pc |-> "idle", outer |-> FALSE]

Init ==
    /\ row = [status |-> "absent", owner |-> "none", fresh |-> FALSE,
              retry |-> FALSE, context |-> "none", work |-> "none",
              lease |-> "none", gone |-> "no",
              reason |-> FALSE]
    /\ holder = Nobody
    /\ stream = "none"
    /\ open = "start"
    /\ rec = RecIdle
    /\ conn = {}
    /\ up = [p \in Conns |-> "idle"]
    /\ down = [p \in Conns |-> "idle"]
    /\ child = [p \in Conns |-> "none"]
    /\ relaying = None
    /\ broker = "none"
    /\ loc = "none"
    /\ spent = [publishes |-> 0, ends |-> 0, faults |-> 0]

-----------------------------------------------------------------------------
(* The row: claim, fenced write, release.                                   *)

Open == row.status \notin {"absent", "settled"}

\* A fenced statement finds the claim current and its lease unexpired.
Fence(t) == holder = t /\ row.fresh

\* claimByLiveStreamId: the process may take its own lease over.
Claimable == Open /\ (row.owner # "dead" \/ ~row.fresh)

Claim(t) ==
    /\ holder' = t
    /\ row' = [row EXCEPT !.owner = "this", !.fresh = TRUE]

\* releaseClaim does nothing when the claim is stale.
Release(t) ==
    IF holder = t
    THEN /\ holder' = Nobody
         /\ row' = [row EXCEPT !.owner = "none", !.fresh = FALSE]
    ELSE UNCHANGED <<row, holder>>

\* A fenced write and the release that follows it.  A task that takes the claim
\* between the two leaves what it leaves by taking it after them.
WriteAndRelease(r) ==
    /\ row' = [r EXCEPT !.retry = FALSE, !.owner = "none", !.fresh = FALSE]
    /\ holder' = Nobody

\* A failed call.
Fault ==
    /\ spent.faults < MaxFaults
    /\ spent' = [spent EXCEPT !.faults = @ + 1]

-----------------------------------------------------------------------------
(* What the opening request and the reconciler share.  A call and the       *)
(* fenced write of its answer are one step: a failed call also stands for   *)
(* an answer that arrived and was not written.                              *)

\* What a remote answer shows: the set of fields in which it agrees with what
\* was asked.  The empty set is a call that failed, or another kind of answer.
Answers(fields) == {fields, {}} \union {fields \ {f} : f \in fields}

PreparedFields == {"schema", "binding", "broker_url"}
OpenedFields == {"schema", "snapshot", "binding", "descriptor", "endpoints"}
SessionFields == {"schema", "work_id", "descriptor", "unit"}

mapPreparedSession(a) == {"schema", "binding"} \subseteq a

\* A preparation reserves nothing.
prepareSession == UNCHANGED <<loc, broker>>

\* requireSnapshot: capability, offering, protocol and route binding.
requireSnapshot(a) == {"snapshot", "binding"} \subseteq a
mapSessionOpen(a) ==
    requireSnapshot(a) /\ {"schema", "descriptor", "endpoints"} \subseteq a

\* The broker's answer is for this authorization, descriptor and unit.
sessionOpened(a) == {"schema", "work_id", "descriptor", "unit"} \subseteq a

\* The broker's refusal with its signed envelope, and LOC's answer to a close.
RefusalFields == {"schema", "envelope", "session", "work", "domain", "unit", "units"}
ClosedFields == {"schema", "session_id", "actual_units", "outcome", "work_id"}

\* The refusal is of this session and work, and every count in it is zero.
capacityEvidence(e) == RefusalFields \subseteq e
mapClose(a) == {"schema", "session_id", "actual_units", "outcome"} \subseteq a

\* The request identity is the same on every attempt: what is there is returned.
openSession == loc' = IF loc = "none" THEN "open" ELSE loc
brokerOpen == broker' = IF broker = "none" THEN "open" ELSE broker
closeSession == loc' = "closed"

\* paidSessionClient.open: LOC prepares and authorises, the broker opens.
OpenAccepted ==
    /\ broker # "refused"
    /\ openSession
    /\ brokerOpen
    /\ UNCHANGED spent

\* One of the three calls fails or its answer is refused; what was asked may
\* have been done.
OpenFailed ==
    /\ Fault
    /\ \/ \E a \in Answers(PreparedFields) :
             /\ ~mapPreparedSession(a) \/ "broker_url" \notin a
             /\ prepareSession
       \/ \E a \in Answers(OpenedFields) :
             /\ ~mapSessionOpen(a)
             /\ openSession \/ (a = {} /\ UNCHANGED loc)
             /\ UNCHANGED broker
       \/ \E a \in Answers(SessionFields) :
             /\ ~sessionOpened(a)
             /\ openSession
             /\ brokerOpen \/ (a = {} /\ UNCHANGED broker)

\* A capacity refusal is settled with LOC at zero before it is thrown, unless its
\* evidence is refused or LOC's close fails; a failed close may have been done.
settleCapacityOpen ==
    \/ closeSession /\ UNCHANGED spent
    \/ /\ Fault
       /\ \E e \in Answers(RefusalFields) : ~capacityEvidence(e)
       /\ openSession
    \/ /\ Fault
       /\ \E a \in Answers(ClosedFields) :
             /\ ~mapClose(a) \/ "work_id" \notin a
             /\ closeSession \/ (a = {} /\ openSession)

\* capacity_exhausted.  A replay meets LOC's recorded answer and the broker's: a
\* refused session is refused again.
OpenRefused ==
    /\ broker \in {"none", "refused"}
    /\ broker' = "refused"
    /\ settleCapacityOpen

\* recordProgress("issuing_key"): broker identity and session lease.  work_id
\* is not among the columns.
RecordOpened(t) ==
    IF Fence(t)
    THEN row' = [row EXCEPT !.status = "issuing_key", !.retry = FALSE,
                            !.lease = IF @ = "none" THEN "running" ELSE @]
    ELSE UNCHANGED row

\* The runner issues a stream key while its session is open.
KeyIssued == broker = "open" /\ UNCHANGED spent
KeyRefused == \/ broker # "open" /\ UNCHANGED spent
              \/ Fault

\* putSecrets with the control handle, the credential and the ingest key.
PutContext(t) ==
    IF Fence(t) THEN row' = [row EXCEPT !.context = "full"] ELSE UNCHANGED row

\* recordProgress("active").
RecordActive(t) ==
    IF Fence(t)
    THEN row' = [row EXCEPT !.status = "active", !.retry = FALSE]
    ELSE UNCHANGED row

-----------------------------------------------------------------------------
(* media.live_streams, written without a claim.                             *)

insertStream == stream' = "idle"
updateStatus(status) == stream' = status

-----------------------------------------------------------------------------
(* openPaidLiveStream.  A lost fence or a failed call ends the request; the *)
(* claim is always the latest, so releasing it works unless it was taken.   *)

OpenFrame == UNCHANGED <<rec, conn, up, down, child, relaying>>

\* The row of live_streams comes first, the operation with its intent second.
OpenInsert ==
    /\ open = "start"
    /\ insertStream
    /\ open' = "create"
    /\ OpenFrame
    /\ UNCHANGED <<row, holder, broker, loc, spent>>

OpenCreate ==
    /\ open = "create"
    /\ row' = [row EXCEPT !.status = "opening", !.owner = "this",
                          !.fresh = TRUE, !.context = "intent",
                          !.work = "pending"]
    /\ holder' = Opener
    /\ open' = "call"
    /\ OpenFrame
    /\ UNCHANGED <<stream, broker, loc, spent>>

OpenCall ==
    /\ open = "call"
    /\ \/ /\ OpenAccepted
          /\ RecordOpened(Opener)
          /\ open' = IF Fence(Opener) THEN "issue" ELSE "release"
       \/ /\ OpenFailed \/ OpenRefused
          /\ open' = "release"
          /\ UNCHANGED row
    /\ OpenFrame
    /\ UNCHANGED <<holder, stream>>

\* Mutant: activation does not wait for the secrets.
OpenIssue_unsaved ==
    /\ open = "issue"
    /\ \/ KeyIssued /\ open' = "activate"
       \/ KeyRefused /\ open' = "release"
    /\ OpenFrame
    /\ UNCHANGED <<row, holder, stream, broker, loc>>

OpenIssue ==
    /\ open = "issue"
    /\ \/ /\ KeyIssued
          /\ PutContext(Opener)
          /\ open' = IF Fence(Opener) THEN "activate" ELSE "release"
       \/ /\ KeyRefused
          /\ open' = "release"
          /\ UNCHANGED row
    /\ OpenFrame
    /\ UNCHANGED <<holder, stream, broker, loc>>

OpenActivate ==
    /\ open = "activate"
    /\ RecordActive(Opener)
    /\ open' = IF Fence(Opener) THEN "list" ELSE "release"
    /\ OpenFrame
    /\ UNCHANGED <<holder, stream, broker, loc, spent>>

\* The stream, and then its playback id, are written without a claim.
OpenList ==
    /\ open = "list"
    /\ updateStatus("live")
    /\ open' = "release"
    /\ OpenFrame
    /\ UNCHANGED <<row, holder, broker, loc, spent>>

OpenRelease ==
    /\ open = "release"
    /\ Release(Opener)
    /\ open' = "done"
    /\ OpenFrame
    /\ UNCHANGED <<stream, broker, loc, spent>>

OpenStep ==
    \/ OpenCreate \/ OpenCall \/ OpenIssue \/ OpenActivate
    \/ OpenList \/ OpenRelease

-----------------------------------------------------------------------------
(* reconcileOne.  One pass runs at a time.  rec.outer says whether the      *)
(* claim in its own variable "owned" is the latest the pass was given:      *)
(* the functions it calls keep the newer ones to themselves.                *)

RecFrame == UNCHANGED <<open, conn, up, down, child, relaying>>
RecGoes(pc) == rec' = [rec EXCEPT !.pc = pc]

RecClaim ==
    /\ rec.pc = "idle"
    /\ Open /\ ~row.retry
    /\ row.owner = "none" \/ ~row.fresh
    /\ Claim(Rec)
    /\ rec' = [pc |-> "read", outer |-> TRUE]
    /\ RecFrame
    /\ UNCHANGED <<stream, broker, loc, spent>>

\* Mutant: the session's own lease is not looked at.
EndDue_noLease == row.status \in Winddown \/ row.gone = "over"

\* What makes a pass end the session.
EndDue == \/ row.status \in Winddown
          \/ row.gone = "over"
          \/ row.lease = "expired"

\* Mutant: an open that already has its broker identity is not resumed.
Resumable_opening == row.status = "opening"

Resumable == row.status \in {"opening", "issuing_key"}

\* readSecrets is fenced, so the row is still the one the claim returned.
\* Without the stored context a pass can only resume an open.
RecRead ==
    /\ rec.pc = "read"
    /\ RecGoes(CASE ~Fence(Rec) -> "release"
                 [] Fence(Rec) /\ row.context = "full" ->
                      IF EndDue THEN "end" ELSE "control"
                 [] Fence(Rec) /\ row.context = "intent" ->
                      IF Resumable THEN "reopen" ELSE "fail")
    /\ RecFrame
    /\ UNCHANGED <<row, holder, stream, broker, loc, spent>>

\* repairLiveArtifacts, without a claim.  It leaves the stream of a lost relay
\* "reconnecting".
Repair == updateStatus("live")

\* The repair, and then the control window: it yields nothing, or the frame of
\* an ended session.  The other frames only change units and health.
RecControl ==
    /\ rec.pc = "control"
    /\ Repair
    /\ \/ RecGoes("status")
       \/ broker = "closed" /\ RecGoes("ended")
    /\ RecFrame
    /\ UNCHANGED <<row, holder, broker, loc, spent>>

RecEnded ==
    /\ rec.pc = "ended"
    /\ IF Fence(Rec)
       THEN /\ row' = [row EXCEPT !.status = "winddown_pending",
                                  !.reason = TRUE, !.retry = FALSE]
            /\ RecGoes("end")
       ELSE UNCHANGED row /\ RecGoes("status")
    /\ RecFrame
    /\ UNCHANGED <<holder, stream, broker, loc, spent>>

\* The catch block schedules a retry and drops the claim it is given.
Catch ==
    /\ IF Fence(Rec) /\ rec.outer
       THEN row' = [row EXCEPT !.retry = TRUE] /\ holder' = Nobody
       ELSE UNCHANGED <<row, holder>>
    /\ RecGoes("release")
    /\ RecFrame
    /\ UNCHANGED <<stream, broker, loc, spent>>

\* paidSessionClient.status refuses an answer whose work_id is not the row's.
\* Only a refill, which a status must ask for, ever stores the broker's work_id:
\* the answer is refused, and nothing after it (recording the answer, refills)
\* is reached.
RecStatus ==
    /\ rec.pc = "status"
    /\ row.work # "issued"
    /\ Catch

RecFail == rec.pc = "fail" /\ Catch

\* The finally block: release, or claim whatever is there and release that.  The
\* second takes the claim from any other task of the process.
RecRelease ==
    /\ rec.pc = "release"
    /\ IF holder = Rec /\ rec.outer
       THEN Release(Rec) /\ rec' = RecIdle
       ELSE UNCHANGED <<row, holder>> /\ RecGoes("reclaim")
    /\ RecFrame
    /\ UNCHANGED <<stream, broker, loc, spent>>

RecReclaim ==
    /\ rec.pc = "reclaim"
    /\ IF Claimable
       THEN /\ row' = [row EXCEPT !.owner = "none", !.fresh = FALSE]
            /\ holder' = Nobody
       ELSE UNCHANGED <<row, holder>>
    /\ rec' = RecIdle
    /\ RecFrame
    /\ UNCHANGED <<stream, broker, loc, spent>>

(* resumeOpeningSession.                                                    *)

RecReopen ==
    /\ rec.pc = "reopen"
    /\ \/ /\ OpenAccepted
          /\ RecordOpened(Rec)
          /\ rec' = IF Fence(Rec) THEN [pc |-> "issue", outer |-> FALSE]
                    ELSE [rec EXCEPT !.pc = "release"]
       \/ /\ OpenFailed \/ OpenRefused
          /\ RecGoes("fail")
          /\ UNCHANGED row
    /\ RecFrame
    /\ UNCHANGED <<holder, stream>>

RecIssue ==
    /\ rec.pc = "issue"
    /\ \/ /\ KeyIssued
          /\ PutContext(Rec)
          /\ RecGoes(IF Fence(Rec) THEN "activate" ELSE "release")
       \/ /\ KeyRefused
          /\ RecGoes("fail")
          /\ UNCHANGED row
    /\ RecFrame
    /\ UNCHANGED <<holder, stream, broker, loc>>

RecActivate ==
    /\ rec.pc = "activate"
    /\ RecordActive(Rec)
    /\ RecGoes(IF Fence(Rec) THEN "publish" ELSE "release")
    /\ RecFrame
    /\ UNCHANGED <<holder, stream, broker, loc, spent>>

RecPublish ==
    /\ rec.pc = "publish"
    /\ Repair
    /\ RecGoes("release")
    /\ RecFrame
    /\ UNCHANGED <<row, holder, broker, loc, spent>>

(* executeWinddown.                                                         *)

\* Mutant: a broker that is still winding down counts as closed.
BrokerEnd_early == broker' \in {"winding", "closed"} /\ RecGoes("close")

\* The broker closes the session or starts to; only a closed one is settled.
BrokerEnd ==
    \/ /\ broker' = "closed"
       /\ RecGoes("close")
    \/ /\ broker # "closed"
       /\ broker' = "winding"
       /\ RecGoes("endPending")

\* The end request is not fenced: it is sent even if the claim was taken.  A
\* failed one may have arrived.
RecEnd ==
    /\ rec.pc = "end"
    /\ \/ BrokerEnd /\ UNCHANGED spent
       \/ /\ Fault
          /\ broker' \in IF broker = "closed" THEN {broker} ELSE {broker, "winding"}
          /\ RecGoes("endFail")
    /\ RecFrame
    /\ UNCHANGED <<row, holder, stream, loc>>

\* The broker's record of the session and the signed envelope beside it.
EvidenceFields ==
    {"schema", "envelope", "session", "work", "unit", "units", "sequence", "outcome"}

settlementLookup(e) == {"schema", "envelope"} \subseteq e

\* Record and envelope name this session, its work and its unit; claimed, debited
\* and signed units are the same and the debit did not fail.
Evidence(e) == {"session", "work", "unit", "units", "sequence", "outcome"} \subseteq e

\* LOC accepts the signed settlement, again if need be.
RecClose ==
    /\ rec.pc = "close"
    /\ \/ /\ Fault
          /\ \E e \in Answers(EvidenceFields) : ~(settlementLookup(e) /\ Evidence(e))
          /\ UNCHANGED loc
          /\ RecGoes("endFail")
       \/ /\ Fault
          /\ \E a \in Answers(ClosedFields) :
                /\ ~mapClose(a) \/ "work_id" \notin a
                /\ closeSession \/ (a = {} /\ UNCHANGED loc)
          /\ RecGoes("endFail")
       \/ closeSession /\ UNCHANGED spent /\ RecGoes("settle")
    /\ RecFrame
    /\ UNCHANGED <<row, holder, stream, broker>>

\* The catch block: pending closure, retryable or permanent failure.
RecEndFail ==
    /\ rec.pc \in {"endPending", "endFail"}
    /\ \/ /\ Fence(Rec)
          /\ \E status \in IF rec.pc = "endPending" THEN {"winddown_pending"}
                           ELSE {"winddown_retry", "winddown_failed"} :
               row' = [row EXCEPT !.status = status, !.reason = TRUE,
                                  !.retry = TRUE]
          /\ holder' = Nobody
       \/ ~Fence(Rec) /\ UNCHANGED <<row, holder>>
    /\ RecGoes("release")
    /\ RecFrame
    /\ UNCHANGED <<stream, broker, loc, spent>>

\* recordLiveTerminal: one transaction.
RecSettle ==
    /\ rec.pc = "settle"
    /\ IF Fence(Rec)
       THEN /\ row' = [row EXCEPT !.status = "settled", !.owner = "none",
                                  !.fresh = FALSE, !.retry = FALSE,
                                  !.context = "none"]
            /\ holder' = Nobody
            /\ stream' = "ended"
       ELSE UNCHANGED <<row, holder, stream>>
    /\ RecGoes("release")
    /\ RecFrame
    /\ UNCHANGED <<broker, loc, spent>>

RecStep ==
    \/ RecClaim \/ RecRead \/ RecControl \/ RecEnded \/ RecStatus
    \/ RecFail \/ RecRelease \/ RecReclaim
    \/ RecReopen \/ RecIssue \/ RecActivate \/ RecPublish
    \/ RecEnd \/ RecClose \/ RecEndFail \/ RecSettle

-----------------------------------------------------------------------------
(* The dispatcher, attachDispatcher.                                        *)

PubFrame == UNCHANGED <<open, rec, broker, loc>>
UpGoes(p, pc) == up' = [up EXCEPT ![p] = pc]
DownGoes(p, pc) == down' = [down EXCEPT ![p] = pc]

\* activeByNmsSession has a relay for the connection.
Registered(p) == child[p] \in {"running", "broken"}

\* The socket of a refused publisher is destroyed.
Reject(p) == UpGoes(p, "idle") /\ conn' = conn \ {p}

\* postPublish.  The customer has the stream key once the opening request has
\* returned, or died and been recovered; another publish of the same path must
\* not be pending (pendingPaths) and the stream must not have ended.
Publish(p) ==
    /\ open = "done"
    /\ p \notin conn /\ child[p] = "none" /\ down[p] = "idle"
    /\ stream = "live"
    /\ \A q \in Conns : up[q] = "idle"
    /\ spent.publishes < MaxPublishes
    /\ spent' = [spent EXCEPT !.publishes = @ + 1]
    /\ conn' = conn \cup {p}
    /\ UpGoes(p, "claim")
    /\ PubFrame
    /\ UNCHANGED <<row, holder, stream, down, child, relaying>>

UpClaim(p) ==
    /\ up[p] = "claim"
    /\ IF Claimable
       THEN Claim(Up(p)) /\ UpGoes(p, "start") /\ UNCHANGED conn
       ELSE Reject(p) /\ UNCHANGED <<row, holder>>
    /\ PubFrame
    /\ UNCHANGED <<stream, down, child, relaying, spent>>

\* The private ingest coordinates, activeByStream, "relay_starting" and the relay
\* itself.  relayDisconnectedAt stays as it was read; the publisher may have gone
\* by now.
UpStart(p) ==
    /\ up[p] = "start"
    /\ IF Fence(Up(p)) /\ row.context = "full" /\ relaying = None
       THEN /\ WriteAndRelease([row EXCEPT !.status = "relay_starting"])
            /\ child' = [child EXCEPT ![p] = "running"]
            /\ relaying' = p
            /\ UpGoes(p, "mark")
            /\ UNCHANGED conn
       ELSE Release(Up(p)) /\ Reject(p) /\ UNCHANGED <<child, relaying>>
    /\ PubFrame
    /\ UNCHANGED <<stream, down, spent>>

\* persistRelayState("active"): nobody looks at its result.
UpMark(p) ==
    /\ up[p] = "mark"
    /\ IF Claimable
       THEN Claim(Up(p)) /\ UpGoes(p, "marked")
       ELSE UNCHANGED <<row, holder>> /\ UpGoes(p, "list")
    /\ PubFrame
    /\ UNCHANGED <<stream, conn, down, child, relaying, spent>>

UpMarked(p) ==
    /\ up[p] = "marked"
    /\ IF Fence(Up(p))
       THEN WriteAndRelease([row EXCEPT !.status = "active",
                                        !.gone = "no"])
       ELSE UNCHANGED <<row, holder>>
    /\ UpGoes(p, "list")
    /\ PubFrame
    /\ UNCHANGED <<stream, conn, down, child, relaying, spent>>

UpList(p) ==
    /\ up[p] = "list"
    /\ updateStatus("live")
    /\ UpGoes(p, "idle")
    /\ PubFrame
    /\ UNCHANGED <<row, holder, conn, down, child, relaying, spent>>

UpStep(p) ==
    UpClaim(p) \/ UpStart(p) \/ UpMark(p) \/ UpMarked(p) \/ UpList(p)

\* donePublish.  A publisher without a registered relay leaves no trace.
DonePublish(p) ==
    /\ p \in conn
    /\ conn' = conn \ {p}
    /\ IF Registered(p)
       THEN /\ down[p] = "idle"
            /\ child' = [child EXCEPT ![p] = IF @ = "running" THEN "killed"
                                             ELSE "none"]
            /\ relaying' = None
            /\ DownGoes(p, "claim")
       ELSE UNCHANGED <<child, relaying, down>>
    /\ PubFrame
    /\ UNCHANGED <<row, holder, stream, up, spent>>

\* The exit of a relay, killed or by itself.  activeByStream loses its entry
\* whichever relay that entry is for.
ChildExit(p) ==
    /\ child[p] \in {"running", "killed"}
    /\ child' = [child EXCEPT ![p] = "none"]
    /\ relaying' = None
    /\ IF child[p] = "running"
       THEN down[p] = "idle" /\ DownGoes(p, "claim")
       ELSE UNCHANGED down
    /\ PubFrame
    /\ UNCHANGED <<row, holder, stream, conn, up, spent>>

\* The error event leaves the maps alone.
ChildError(p) ==
    /\ child[p] = "running" /\ down[p] = "idle"
    /\ Fault
    /\ child' = [child EXCEPT ![p] = "broken"]
    /\ DownGoes(p, "claim")
    /\ PubFrame
    /\ UNCHANGED <<row, holder, stream, conn, up, relaying>>

\* scheduleAuthoritativeReconcile gives up when it cannot claim or write.
DownClaim(p) ==
    /\ down[p] = "claim"
    /\ IF Claimable
       THEN Claim(Down(p)) /\ DownGoes(p, "mark")
       ELSE UNCHANGED <<row, holder>> /\ DownGoes(p, "idle")
    /\ PubFrame
    /\ UNCHANGED <<stream, conn, up, child, relaying, spent>>

DownMark(p) ==
    /\ down[p] = "mark"
    /\ IF Fence(Down(p))
       THEN /\ WriteAndRelease([row EXCEPT !.status = "reconcile_pending",
                                           !.gone = "grace"])
            /\ DownGoes(p, "list")
       ELSE UNCHANGED <<row, holder>> /\ DownGoes(p, "idle")
    /\ PubFrame
    /\ UNCHANGED <<stream, conn, up, child, relaying, spent>>

DownList(p) ==
    /\ down[p] = "list"
    /\ updateStatus("live")
    /\ DownGoes(p, "idle")
    /\ PubFrame
    /\ UNCHANGED <<row, holder, conn, up, child, relaying, spent>>

DownStep(p) == DownClaim(p) \/ DownMark(p) \/ DownList(p)

-----------------------------------------------------------------------------
(* The customer, the broker, time and crashes.                              *)

\* Mutant: the reason is not stored with the request.
requestSessionWinddown_noReason ==
    row' = [row EXCEPT !.status = "winddown_requested",
                       !.owner = "none", !.fresh = FALSE]

\* The statement of requestWinddown revokes every claim.
requestSessionWinddown ==
    row' = [row EXCEPT !.status = "winddown_requested", !.reason = TRUE,
                       !.owner = "none", !.fresh = FALSE]

\* POST /v1/live/streams/:id/end.
CustomerEnd ==
    /\ Open
    /\ spent.ends < MaxEnds
    /\ spent' = [spent EXCEPT !.ends = @ + 1]
    /\ requestSessionWinddown
    /\ holder' = Nobody
    /\ UNCHANGED <<stream, processVars, broker, loc>>

\* The broker ends a session by itself, or finishes closing it.
BrokerCloses ==
    /\ broker \in {"open", "winding"}
    /\ broker' = "closed"
    /\ UNCHANGED <<row, holder, stream, processVars, loc, spent>>

Passes(field, from, to) ==
    /\ Open /\ row[field] = from
    /\ row' = [row EXCEPT ![field] = to]
    /\ UNCHANGED <<holder, stream, processVars, broker, loc>>

\* The recovery lease ends when nobody remembers the claim any more, or under a
\* task that takes longer than the lease.
LeaseAbandoned ==
    holder = Nobody /\ Passes("fresh", TRUE, FALSE) /\ UNCHANGED spent
LeaseOutlasted ==
    holder # Nobody /\ Passes("fresh", TRUE, FALSE) /\ Fault

SessionLeaseEnds == Passes("lease", "running", "expired") /\ UNCHANGED spent
GraceEnds == Passes("gone", "grace", "over") /\ UNCHANGED spent
RetryDue == Passes("retry", TRUE, FALSE) /\ UNCHANGED spent

\* A crash, and the restart with another owner name.
Crash ==
    /\ Fault
    /\ row' = [row EXCEPT !.owner = IF @ = "this" THEN "dead" ELSE @]
    /\ holder' = Nobody
    /\ open' = IF open = "start" THEN open ELSE "done"
    /\ rec' = RecIdle
    /\ conn' = {}
    /\ up' = [p \in Conns |-> "idle"]
    /\ down' = [p \in Conns |-> "idle"]
    /\ child' = [p \in Conns |-> "none"]
    /\ relaying' = None
    /\ UNCHANGED <<stream, broker, loc>>

Next ==
    \/ OpenInsert \/ OpenStep
    \/ RecStep
    \/ \E p \in Conns :
         \/ Publish(p) \/ UpStep(p)
         \/ DonePublish(p) \/ ChildExit(p) \/ ChildError(p) \/ DownStep(p)
    \/ CustomerEnd \/ BrokerCloses
    \/ LeaseAbandoned \/ LeaseOutlasted
    \/ SessionLeaseEnds \/ GraceEnds \/ RetryDue
    \/ Crash

\* The event loop runs one of the tasks that can run, the timer runs the
\* reconciler, time passes and a broker that was told to end a session ends it.
\* Nobody has to publish, end a stream or lose a relay.
Fairness ==
    /\ WF_vars(OpenStep \/ \E p \in Conns : UpStep(p) \/ DownStep(p))
    /\ WF_vars(RecStep)
    /\ WF_vars(LeaseAbandoned \/ RetryDue) /\ WF_vars(SessionLeaseEnds)
    /\ WF_vars(broker = "winding" /\ BrokerCloses)

Spec == Init /\ [][Next]_vars /\ Fairness

-----------------------------------------------------------------------------
(* Properties.                                                              *)

Statuses == {"absent", "opening", "issuing_key", "active", "relay_starting",
             "reconcile_pending", "settled"} \cup Winddown

RowType ==
    [status : Statuses, owner : {"none", "this", "dead"},
     fresh : BOOLEAN, retry : BOOLEAN,
     context : {"none", "intent", "full"},
     work : {"none", "pending", "issued"},
     lease : {"none", "running", "expired"},
     gone : {"no", "grace", "over"}, reason : BOOLEAN]

OpenSteps == {"start", "create", "call", "issue", "activate", "list", "release",
              "done"}
RecSteps == {"idle", "read", "control", "ended", "status", "fail", "release",
             "reclaim", "reopen", "issue", "activate", "publish", "end",
             "endPending", "endFail", "close", "settle"}
UpSteps == {"idle", "claim", "start", "mark", "marked", "list"}
DownSteps == {"idle", "claim", "mark", "list"}
Tasks == {Opener, Rec} \cup {Up(p) : p \in Conns} \cup {Down(p) : p \in Conns}

\* Columns, tasks and the outside keep their types, and a task that believes in
\* a current claim works for the owner the row names.
TypeOK ==
    /\ row \in RowType
    /\ holder \in Tasks \cup {Nobody}
    /\ holder # Nobody => row.owner = "this"
    /\ stream \in {"none", "idle", "live", "ended"}
    /\ open \in OpenSteps
    /\ rec \in [pc : RecSteps, outer : BOOLEAN]
    /\ conn \subseteq Conns
    /\ up \in [Conns -> UpSteps]
    /\ down \in [Conns -> DownSteps]
    /\ child \in [Conns -> {"none", "running", "broken", "killed"}]
    /\ relaying \in Conns \cup {None}
    /\ broker \in {"none", "open", "refused", "winding", "closed"}
    /\ loc \in {"none", "open", "closed"}

\* A session that LOC has authorised or the broker has opened is never
\* forgotten: until the broker has closed it and LOC has accepted the
\* settlement there is an unsettled row with the identities to replay or end
\* it, whichever call failed and wherever the gateway crashed.
NeverForgotten ==
    (loc = "open" \/ broker \in {"open", "winding"})
        => Open /\ row.context # "none"

\* publicStatus, what GET /v1/live/streams/:id tells the customer.
publicStatus ==
    CASE row.status = "settled" -> "ended"
      [] row.status \in Winddown \/ (row.reason /\ row.status # "settled") ->
           "ending"
      [] row.status \in {"opening", "issuing_key"} /\ ~row.reason -> "opening"
      [] row.status \in {"active", "relay_starting", "reconcile_pending"}
           /\ ~row.reason /\ stream = "live" -> "ready"
      [] OTHER -> stream

\* A customer who is told "ready", and so given the stream key, finds the
\* private ingest coordinates in place when they publish.
ReadyIsPublishable ==
    publicStatus = "ready" => row.context = "full" /\ row.lease # "none"

\* A stream that was reported as ending is never reported as usable again,
\* although the dispatcher overwrites the status column for a publisher that
\* comes or goes in between.
EndingIsFinal ==
    [][publicStatus = "ending" => publicStatus' \in {"ending", "ended"}]_vars

\* Once the control handle is stored the session is settled, whatever tasks
\* take the lease from each other, however often the gateway crashes (finitely
\* often) and whoever publishes: at the latest when its lease is over.  Only the
\* settling transaction erases the context, so a session that is never settled
\* keeps it for ever.
Settles == []<>(row.context = "full" => row.status = "settled")

\* "On gateway restart, incomplete opens replay the encrypted original LOC/open":
\* an open that was cut off anywhere is replayed until its context is stored or,
\* if the broker had no capacity, until LOC has closed it at zero, unless the
\* customer ends the stream or the broker closes the session first.
OpenRecovers ==
    []<>(row.status # "absent" =>
            \/ row.context = "full"
            \/ broker = "refused" /\ loc = "closed"
            \/ row.reason \/ broker = "closed")

\* live-pipeline.md: "authenticated HTTP state remains authoritative".  The
\* reconciler asks about the session the broker has, so the answer is accepted.
StatusAccepted == rec.pc = "status" => row.work = "issued"
=============================================================================
