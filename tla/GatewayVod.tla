----------------------------- MODULE GatewayVod -----------------------------
(***************************************************************************)
(* One asset in the gateway: its upload (routes/vod/uploads.ts), the         *)
(* requests that transcode, delete and play it (routes/vod/vod.ts,           *)
(* playback.ts), the paid job each submit starts in the background           *)
(* (paidAbrOrchestrator.ts over paidJobClient.ts and locClient.ts) and the   *)
(* recovery timer that resumes unfinished jobs (paidAbrRecovery.ts).         *)
(*                                                                           *)
(* A task may be overtaken at every await; a call whose answer only decides  *)
(* where the same task goes on is one step with what it decides.  All tasks  *)
(* of the process share one owner name, so a claim is told apart by its      *)
(* lifecycle_version alone: holder[s] is the task that remembers the version *)
(* of s's row (PaidOperation shows there is at most one).  A submit names    *)
(* its request id, its operation row and its encoding job.                   *)
(*                                                                           *)
(* The broker and LOC are external: LOC answers a repeated open with what it *)
(* recorded and refuses one whose input changed, the broker runs a request   *)
(* id once and repeats its settled answer.  Signatures, URLs, descriptors    *)
(* and wei are left out; units are computed.                                 *)
(***************************************************************************)
EXTENDS Integers, Sequences, FiniteSets, Functions

CONSTANTS
    Submits,        \* POST /v1/vod/submit requests for the asset
    Ladder,         \* video renditions of the tier each one asks for, in order
    Duration,       \* seconds of source, as probed
    FrameRate,      \* frames per second, as probed
    MaxFaults,      \* bound on failed calls, refusals, slow tasks and crashes
    Rec             \* the recovery pass: index.ts runs one at a time

DIMENSIONS == [name \in {"240p", "360p", "480p", "720p", "1080p", "2160p"} |->
    CASE name = "240p"  -> 426 * 240
      [] name = "360p"  -> 640 * 360
      [] name = "480p"  -> 854 * 480
      [] name = "720p"  -> 1280 * 720
      [] name = "1080p" -> 1920 * 1080
      [] name = "2160p" -> 3840 * 2160]

Names(s) == Range(Ladder[s])
Resolutions == UNION {Names(s) : s \in Submits}

\* PRESETS: every tier has a rendition of the same resolution and codec.
ASSUME VodAssumption ==
    /\ Rec \notin Submits
    /\ \A s \in Submits : Ladder[s] \in Seq(DOMAIN DIMENSIONS) /\ Ladder[s] # <<>>
    /\ \E r \in Resolutions : \A s \in Submits : r \in Names(s)
    /\ Duration \in Nat \ {0} /\ FrameRate \in Nat \ {0}
    /\ MaxFaults \in Nat

VARIABLES
    asset,      \* row of media.assets
    upload,     \* row of media.uploads
    rend,       \* rows of media.renditions, by resolution
    job,        \* row of media.encoding_jobs each submit inserts
    op,         \* row of media.paid_operations each submit inserts
    holder,     \* task that remembers op[s]'s lifecycle_version
    playback,   \* whether the asset has a row of media.playback_ids
    task,       \* the background tasks and the recovery pass
    loc,        \* LOC's operation under each request id
    broker,     \* the broker's job under each request id
    faults      \* faults so far

vars == <<asset, upload, rend, job, op, holder, playback, task, loc, broker,
          faults>>
product == <<asset, upload, rend, job, playback>>

Tasks == Submits \union {Rec}
None == "none"

AssetRow == [status : {None, "preparing", "queued", "ready", "deleted"},
             source : BOOLEAN, probed : BOOLEAN, deleted : BOOLEAN]
UploadRow == {None, "inserting", "waiting", "completed"}
RenditionRow == {None, "queued", "completed"}
JobRow == {None, "running", "completed"}
OperationRow == [status : {None, "opening", "unresolved", "failed", "settled"},
                 fresh : BOOLEAN, due : BOOLEAN, secrets : BOOLEAN,
                 terminal : BOOLEAN, claimed : Nat]

Start == [pc |-> "idle", sub |-> None, rows |-> {}, verify |-> FALSE,
          result |-> None]

Init ==
    /\ asset = [status |-> None, source |-> FALSE, probed |-> FALSE,
                deleted |-> FALSE]
    /\ upload = None
    /\ rend = [r \in Resolutions |-> None]
    /\ job = [s \in Submits |-> None]
    /\ op = [s \in Submits |-> [status |-> None, fresh |-> FALSE, due |-> TRUE,
                                secrets |-> FALSE, terminal |-> FALSE,
                                claimed |-> 0]]
    /\ holder = [s \in Submits |-> None]
    /\ playback = FALSE
    /\ task = [t \in Tasks |-> Start]
    /\ loc = [s \in Submits |-> [at |-> None, estimated |-> 0, actual |-> 0]]
    /\ broker = [s \in Submits |-> [at |-> None, units |-> 0, body |-> None]]
    /\ faults = 0

Fault == faults < MaxFaults /\ faults' = faults + 1

-----------------------------------------------------------------------------
(* Units (vodUsage.ts).                                                      *)

CeilDiv(n, d) == (n + d - 1) \div d

\* Total pixels of the delivered video, in megapixels, rounded up once.
calculateAbrFrameMegapixelUnits(s, frames) ==
    CeilDiv(FoldFunction(LAMBDA r, sum : sum + frames * DIMENSIONS[r], 0, Ladder[s]),
            1000000)

FundingFrames(slack) == Duration * FrameRate + slack * FrameRate
estimatedUnits(s) == calculateAbrFrameMegapixelUnits(s, FundingFrames(0))
maxTotalUnits(s) == calculateAbrFrameMegapixelUnits(s, FundingFrames(2))

\* reconcileAbrUsage: the signed claim is what the body shows, within funding.
reconcileAbrUsage(s, observed, signed) ==
    signed = observed /\ signed <= maxTotalUnits(s)

-----------------------------------------------------------------------------
(* Rows.  A fenced statement finds the claim current and its lease running.  *)

Fence(t) == LET s == task[t].sub IN holder[s] = t /\ op[s].fresh

Goes(t, pc) == task' = [task EXCEPT ![t].pc = pc]

\* The end of a task: an exception in the background, or the pass is over.
Ends(t) == task' = [task EXCEPT ![t] = [Start EXCEPT !.pc =
                        IF t = Rec THEN "idle" ELSE "over"]]

\* execute throws: nothing is recorded by the orchestrator, the recovery
\* records a retry ("encumbered" or "recovery_retry").
Throws(t) ==
    IF t = Rec
    THEN task' = [task EXCEPT ![t].pc = "retry", ![t].result = "failed"]
    ELSE Ends(t)

-----------------------------------------------------------------------------
(* The asset and its upload.                                                 *)

\* AssetRepo.updateStatus writes the status whatever it was.  The source_url,
\* tier and offering it is given are not among the columns it knows.
updateStatus(status) == asset' = [asset EXCEPT !.status = status]

\* The asset row and the upload row are two inserts.
CreateUpload ==
    /\ \/ asset.status = None /\ upload = None
          /\ asset' = [asset EXCEPT !.status = "preparing"]
          /\ upload' = "inserting"
       \/ upload = "inserting" /\ upload' = "waiting" /\ UNCHANGED asset
    /\ UNCHANGED <<rend, job, op, holder, playback, task, loc, broker, faults>>

CompleteUpload ==
    /\ upload = "waiting"
    /\ upload' = "completed"
    /\ updateStatus("preparing")
    /\ UNCHANGED <<rend, job, op, holder, playback, task, loc, broker, faults>>

\* A row that AssetRepo.insert was given with its source_url, as the tests do:
\* no handler does, and CompleteUpload's row never gets one.
InsertAsset ==
    /\ asset.status = None
    /\ asset' = [asset EXCEPT !.status = "preparing", !.source = TRUE]
    /\ UNCHANGED <<upload, rend, job, op, holder, playback, task, loc, broker,
                   faults>>

\* softDelete: also of an asset deleted before, and while its job runs.
DeleteAsset ==
    /\ asset.status # None
    /\ asset' = [asset EXCEPT !.status = "deleted", !.deleted = TRUE]
    /\ UNCHANGED <<upload, rend, job, op, holder, playback, task, loc, broker,
                   faults>>

\* What GET /v1/playback/:id answers with a URL.
Playable == playback /\ ~asset.deleted /\ asset.status = "ready"

-----------------------------------------------------------------------------
(* POST /v1/vod/submit.  The asset is read before the route is chosen.       *)

Submit(s) ==
    /\ task[s].pc = "idle"
    /\ asset.status # None /\ ~asset.deleted
    /\ task' = [task EXCEPT ![s].pc = "route", ![s].sub = s]
    /\ UNCHANGED <<product, op, holder, loc, broker, faults>>

\* No route, or one that is not a streaming paid job in the right unit: 503.
\* Otherwise the asset is queued and the job is started in the background.
SelectWorker(s) ==
    /\ task[s].pc = "route"
    /\ \/ /\ updateStatus("queued")
          /\ Goes(s, "prepare")
          /\ UNCHANGED faults
       \/ Fault /\ Ends(s) /\ UNCHANGED asset
    /\ UNCHANGED <<upload, rend, job, op, holder, playback, loc, broker>>

\* runPaidAbrAsset up to the estimate: no source, a failed probe or a foreign
\* estimator end it.
Prepare(s) ==
    /\ task[s].pc = "prepare"
    /\ \/ ~asset.source /\ Ends(s) /\ UNCHANGED <<asset, faults>>
       \/ /\ asset.source
          /\ asset' = [asset EXCEPT !.status = "preparing", !.probed = TRUE]
          /\ \/ Goes(s, "rows") /\ UNCHANGED faults
             \/ Fault /\ Ends(s)
       \/ asset.source /\ Fault /\ Ends(s) /\ UNCHANGED asset
    /\ UNCHANGED <<upload, rend, job, op, holder, playback, loc, broker>>

\* Mutant: a second row of a resolution is as good as the first.
InsertRendition_upsert(s) ==
    /\ task[s].pc = "rows"
    /\ LET r == Ladder[s][Cardinality(task[s].rows) + 1]
           rows == task[s].rows \union {r}
       IN /\ rend' = [rend EXCEPT ![r] = "queued"]
          /\ task' = [task EXCEPT ![s].rows = rows,
                         ![s].pc = IF rows = Names(s) THEN "job" ELSE "rows"]
    /\ UNCHANGED <<asset, upload, job, op, holder, playback, loc, broker, faults>>

\* One insert per rendition, outside any transaction: a row of the same
\* resolution and codec (renditions_asset_resolution_codec) ends the task.
InsertRendition(s) ==
    /\ task[s].pc = "rows"
    /\ LET r == Ladder[s][Cardinality(task[s].rows) + 1]
           rows == task[s].rows \union {r}
       IN IF rend[r] = None
          THEN /\ rend' = [rend EXCEPT ![r] = "queued"]
               /\ task' = [task EXCEPT ![s].rows = rows,
                              ![s].pc = IF rows = Names(s) THEN "job" ELSE "rows"]
          ELSE Ends(s) /\ UNCHANGED rend
    /\ UNCHANGED <<asset, upload, job, op, holder, playback, loc, broker, faults>>

InsertJob(s) ==
    /\ task[s].pc = "job"
    /\ job' = [job EXCEPT ![s] = "running"]
    /\ Goes(s, "operation")
    /\ UNCHANGED <<asset, upload, rend, op, holder, playback, loc, broker, faults>>

insertStatement(secrets) ==
    [status |-> "opening", fresh |-> TRUE, due |-> TRUE, secrets |-> secrets,
     terminal |-> FALSE, claimed |-> 0]

\* Mutant: the intent is stored once LOC has answered.
insertWithSecrets_noIntent(s) ==
    /\ task[s].pc = "operation"
    /\ op' = [op EXCEPT ![s] = insertStatement(FALSE)]
    /\ holder' = [holder EXCEPT ![s] = s]
    /\ Goes(s, "open")
    /\ UNCHANGED <<product, loc, broker, faults>>

\* The operation, its claim and its intent in one transaction.
insertWithSecrets(s) ==
    /\ task[s].pc = "operation"
    /\ op' = [op EXCEPT ![s] = insertStatement(TRUE)]
    /\ holder' = [holder EXCEPT ![s] = s]
    /\ Goes(s, "open")
    /\ UNCHANGED <<product, loc, broker, faults>>

-----------------------------------------------------------------------------
(* What a remote answer shows: the set of fields in which it agrees with what *)
(* was asked.  The empty set is a call that failed, timed out or answered     *)
(* with something else; any flaw is one of the counted faults.                *)

Answers(fields) == {fields, {}} \union {fields \ {f} : f \in fields}
Charge(flawless) == IF flawless THEN UNCHANGED faults ELSE Fault

OpenFields == {"schema", "snapshot", "binding", "broker_url", "transport",
               "settle_endpoint"}
ClaimFields == {"schema", "identity", "units", "quote", "debited"}
SettleFields == {"schema", "job_id", "actual_units", "work_id"}

\* requireSnapshot: capability, offering, protocol and route binding.
requireSnapshot(a) == {"snapshot", "binding"} \subseteq a

mapJobOpen(a) ==
    "schema" \in a /\ requireSnapshot(a)
    /\ {"broker_url", "transport", "settle_endpoint"} \subseteq a

\* The signed envelope names this request, job, quote and unit, and its units
\* are the claimed, the billed and the debited ones.
validateSettlement(a) == ClaimFields \subseteq a

mapJobSettlement(a) == SettleFields \subseteq a

\* The units of the last result event of the body, if there is one: a failed
\* job ends with an error event.  A miscounted body shows any other number.
terminalJsonFromSse(s) ==
    CASE broker[s].body \in {"result", "drifted"} -> {broker[s].units}
      [] broker[s].body = "miscounted" -> (0 .. broker[s].units + 1) \ {broker[s].units}
      [] broker[s].body \in {"error", None} -> {}

\* The manifest and the renditions of the result are the requested ones.
validateOutputCoordinates(s) == broker[s].body # "drifted"

validateAbrTerminal(s) ==
    /\ \E observed \in terminalJsonFromSse(s) :
          reconcileAbrUsage(s, observed, broker[s].units)
    /\ validateOutputCoordinates(s)

-----------------------------------------------------------------------------
(* paidJobClient.execute, for the orchestrator and for the recovery.         *)

\* The recovery takes both numbers from funded_units.
EstimateSent(t) ==
    IF t = Rec THEN maxTotalUnits(task[t].sub) ELSE estimatedUnits(task[t].sub)

\* LOC records the first open of a request id.
LocOpens(s, units) ==
    IF loc[s].at = None
    THEN loc' = [loc EXCEPT ![s].at = "open", ![s].estimated = units]
    ELSE UNCHANGED loc

LocReplays(s, units) == loc[s].at = None \/ loc[s].estimated = units

validateOpenUnits(estimated, maximum) == estimated >= 1 /\ maximum >= estimated

openJob(t) ==
    /\ task[t].pc = "open"
    /\ validateOpenUnits(EstimateSent(t), maxTotalUnits(task[t].sub))
    /\ LET s == task[t].sub IN
       \E a \in Answers(OpenFields) :
          /\ Charge(a = OpenFields)
          /\ LocOpens(s, EstimateSent(t)) \/ (a = {} /\ UNCHANGED loc)
          /\ IF LocReplays(s, EstimateSent(t)) /\ mapJobOpen(a)
             THEN Goes(t, "post")
             ELSE Throws(t)
    /\ UNCHANGED <<product, op, holder, broker>>

Awaits(t, pc, verify) ==
    task' = [task EXCEPT ![t].pc = pc, ![t].verify = verify]

\* The broker admits a request id once.  capacity_exhausted comes with a
\* settlement of zero units; another refusal leaves nothing.
postJob(t) ==
    /\ task[t].pc = "post"
    /\ LET s == task[t].sub IN
       \/ /\ broker[s].at = None
          /\ \/ /\ broker' = [broker EXCEPT ![s].at = "running"]
                /\ \/ Awaits(t, "stream", TRUE) /\ UNCHANGED faults
                   \/ Awaits(t, "exchange", FALSE) /\ Fault
             \/ /\ broker' = [broker EXCEPT ![s].at = "refused"]
                /\ Awaits(t, "zero", FALSE)
                /\ Fault
             \/ Throws(t) /\ Fault /\ UNCHANGED broker
       \/ /\ broker[s].at \in {"running", "accounting"}
          /\ Awaits(t, "exchange", FALSE)
          /\ UNCHANGED <<broker, faults>>
       \/ /\ broker[s].at = "refused"
          /\ Awaits(t, "zero", FALSE)
          /\ UNCHANGED <<broker, faults>>
       \/ /\ broker[s].at = "settled"
          /\ Awaits(t, "settle", TRUE)
          /\ UNCHANGED <<broker, faults>>
       \/ Awaits(t, "exchange", FALSE) /\ Fault /\ UNCHANGED broker
    /\ UNCHANGED <<product, op, holder, loc>>

\* The stream ends with its settlement in the headers, with the job id alone,
\* or with neither; a body that breaks off throws outside the try block.
streamEnds(t) ==
    /\ task[t].pc = "stream"
    /\ LET s == task[t].sub IN
       \/ broker[s].at = "settled" /\ Awaits(t, "settle", TRUE) /\ UNCHANGED faults
       \/ broker[s].at = "accounting" /\ Awaits(t, "poll", TRUE) /\ UNCHANGED faults
       \/ Fault /\ (Throws(t) \/ Awaits(t, "exchange", FALSE))
    /\ UNCHANGED <<product, op, holder, loc, broker>>

\* A result that is no settlement, or one without a terminal event.
Unresolved(t, kind) ==
    task' = [task EXCEPT ![t].pc = "progress", ![t].result = kind]

\* Mutant: the record of a job that is admitted counts as its settlement.
recoverExchange_admitted(t) ==
    /\ task[t].pc = "exchange"
    /\ LET s == task[t].sub IN
       \/ broker[s].at = None /\ Unresolved(t, "unresolved") /\ UNCHANGED faults
       \/ broker[s].at # None /\ Awaits(t, "settle", FALSE) /\ UNCHANGED faults
       \/ Fault /\ Throws(t)
    /\ UNCHANGED <<product, op, holder, loc, broker>>

\* recoverExchange: the broker's record of the request id, without the body.
recoverExchange(t) ==
    /\ task[t].pc = "exchange"
    /\ LET s == task[t].sub IN
       \/ /\ broker[s].at \in {None, "running"}
          /\ Unresolved(t, "unresolved")
          /\ UNCHANGED faults
       \/ broker[s].at = "accounting" /\ Awaits(t, "poll", FALSE) /\ UNCHANGED faults
       \/ /\ broker[s].at \in {"settled", "refused"}
          /\ Awaits(t, "settle", FALSE)
          /\ UNCHANGED faults
       \/ Fault /\ Throws(t)
    /\ UNCHANGED <<product, op, holder, loc, broker>>

\* pollSettlement gives up after its attempts.
pollSettlement(t) ==
    /\ task[t].pc = "poll"
    /\ LET s == task[t].sub IN
       \/ broker[s].at = "settled" /\ Goes(t, "settle") /\ UNCHANGED faults
       \/ broker[s].at = "accounting" /\ Unresolved(t, "unresolved") /\ UNCHANGED faults
       \/ Fault /\ Throws(t)
    /\ UNCHANGED <<product, op, holder, loc, broker>>

\* LOC is told the units of the signed payload: the broker's at that time.
LocSettles(s) ==
    IF loc[s].at = "open"
    THEN loc' = [loc EXCEPT ![s].at = "settled", ![s].actual = broker[s].units]
    ELSE UNCHANGED loc

\* Mutant: the terminal event is not validated.
settle_unverified(t) ==
    /\ task[t].pc = "settle"
    /\ LocSettles(task[t].sub)
    /\ IF task[t].verify THEN Goes(t, "terminal") ELSE Unresolved(t, "settled")
    /\ UNCHANGED <<product, op, holder, broker, faults>>

\* The terminal event, where there is one, is validated before LOC is settled.
settle(t) ==
    /\ task[t].pc = "settle"
    /\ LET s == task[t].sub IN
       \E claim \in Answers(ClaimFields), a \in Answers(SettleFields) :
          /\ Charge(claim = ClaimFields /\ a = SettleFields)
          /\ IF validateSettlement(claim) /\ (task[t].verify => validateAbrTerminal(s))
             THEN /\ LocSettles(s) \/ (a = {} /\ UNCHANGED loc)
                  /\ CASE ~mapJobSettlement(a) -> Throws(t)
                       [] mapJobSettlement(a) /\ task[t].verify -> Goes(t, "terminal")
                       [] mapJobSettlement(a) /\ ~task[t].verify -> Unresolved(t, "settled")
             ELSE Throws(t) /\ UNCHANGED loc
    /\ UNCHANGED <<product, op, holder, broker>>

\* capacity_exhausted is settled at zero and thrown.
settleZero(t) ==
    /\ task[t].pc = "zero"
    /\ LET s == task[t].sub IN
       \/ LocSettles(s) /\ UNCHANGED faults
       \/ UNCHANGED loc /\ Fault
    /\ Throws(t)
    /\ UNCHANGED <<product, op, holder, broker>>

-----------------------------------------------------------------------------
(* What the orchestrator and the recovery write.  A lost fence throws.       *)

recordProgress(t) ==
    /\ task[t].pc = "progress"
    /\ LET s == task[t].sub IN
       IF Fence(t)
       THEN /\ op' = [op EXCEPT ![s].status = task[t].result, ![s].due = TRUE]
            /\ Goes(t, "retry")
       ELSE Ends(t) /\ UNCHANGED op
    /\ UNCHANGED <<product, holder, loc, broker, faults>>

\* The lease is kept: the next pass waits for it and for next_retry_at.
recordRetry(t) ==
    /\ task[t].pc = "retry"
    /\ LET s == task[t].sub IN
       IF Fence(t)
       THEN /\ op' = [op EXCEPT ![s].status = task[t].result, ![s].due = FALSE]
            /\ holder' = [holder EXCEPT ![s] = None]
       ELSE UNCHANGED <<op, holder>>
    /\ Ends(t)
    /\ UNCHANGED <<product, loc, broker, faults>>

\* The rows the task knows are the ladder of the result.  The recovery knows
\* every row the asset had when the pass began.
completed(t) == task[t].rows = Names(task[t].sub)

\* One transaction: the rows must still be open.
recordVodTerminal(t) ==
    /\ task[t].pc = "terminal"
    /\ LET s == task[t].sub IN
       IF /\ completed(t)
          /\ Fence(t) /\ ~op[s].terminal
          /\ \A r \in Names(s) : rend[r] = "queued"
       THEN /\ op' = [op EXCEPT ![s] = [@ EXCEPT !.status = "settled",
                          !.fresh = FALSE, !.due = TRUE, !.secrets = FALSE,
                          !.terminal = TRUE, !.claimed = broker[s].units]]
            /\ holder' = [holder EXCEPT ![s] = None]
            /\ rend' = [r \in Resolutions |->
                           IF r \in Names(s) THEN "completed" ELSE rend[r]]
            /\ job' = [job EXCEPT ![s] = "completed"]
            /\ asset' = [asset EXCEPT !.status = "ready"]
            /\ playback' = TRUE
       ELSE UNCHANGED <<op, holder, rend, job, asset, playback>>
    /\ Ends(t)
    /\ UNCHANGED <<upload, loc, broker, faults>>

-----------------------------------------------------------------------------
(* recoverPaidAbrOperations.                                                 *)

\* Mutant: only an operation that was never opened is recovered.
Recoverable_opening(s) ==
    op[s].status = "opening" /\ ~op[s].terminal /\ op[s].due /\ ~op[s].fresh

Recoverable(s) ==
    op[s].status # None /\ ~op[s].terminal /\ op[s].due /\ ~op[s].fresh

claimRecoverable(s) ==
    /\ task[Rec].pc = "idle"
    /\ Recoverable(s)
    /\ op' = [op EXCEPT ![s].fresh = TRUE]
    /\ holder' = [holder EXCEPT ![s] = Rec]
    /\ task' = [task EXCEPT ![Rec] = [Start EXCEPT !.pc = "read", !.sub = s]]
    /\ UNCHANGED <<product, loc, broker, faults>>

\* The intent (fenced), the probed duration, the rows and the running job.
\* The rows are not read again.
recoverOne ==
    /\ task[Rec].pc = "read"
    /\ IF /\ Fence(Rec) /\ op[task[Rec].sub].secrets
          /\ asset.probed
          /\ \E s \in Submits : job[s] = "running"
       THEN task' = [task EXCEPT ![Rec].pc = "open",
                        ![Rec].rows = {r \in Resolutions : rend[r] # None}]
       ELSE Ends(Rec)
    /\ UNCHANGED <<product, op, holder, loc, broker, faults>>

-----------------------------------------------------------------------------
(* Time, the broker and the process.                                         *)

Expires(s) ==
    /\ op[s].fresh
    /\ op' = [op EXCEPT ![s].fresh = FALSE]
    /\ UNCHANGED <<product, holder, task, loc, broker>>

Working(s) == \E t \in Tasks : holder[s] = t /\ task[t].sub = s

\* The lease of a task that is gone.
LeaseExpires(s) == Expires(s) /\ ~Working(s) /\ UNCHANGED faults

\* A task that outlives its lease, which neither caller of execute renews, is
\* one of the counted faults.
LeaseOutlived(s) == Expires(s) /\ Working(s) /\ Fault

RetryDue(s) ==
    /\ ~op[s].due
    /\ op' = [op EXCEPT ![s].due = TRUE]
    /\ UNCHANGED <<product, holder, task, loc, broker, faults>>

Bodies == {"result", "drifted", "miscounted", "error"}

\* The job ends with a result, or, as one of the counted faults, with a wrong
\* one, with more units than were funded or with an error event; it is then
\* accounted for.
BrokerWorks(s) ==
    /\ \/ /\ broker[s].at = "running"
          /\ \E units \in {estimatedUnits(s), maxTotalUnits(s) + 1},
                body \in Bodies :
                /\ units > maxTotalUnits(s) => body = "result"
                /\ Charge(body = "result" /\ units <= maxTotalUnits(s))
                /\ broker' = [broker EXCEPT ![s] =
                       [at |-> "accounting", units |-> units, body |-> body]]
       \/ /\ broker[s].at = "accounting"
          /\ broker' = [broker EXCEPT ![s].at = "settled"]
          /\ UNCHANGED faults
    /\ UNCHANGED <<product, op, holder, task, loc>>

\* The process restarts: its tasks are gone, its leases run on.
Crash ==
    /\ Fault
    /\ task' = [t \in Tasks |-> IF t = Rec \/ task[t].pc = "idle" THEN Start
                                ELSE [Start EXCEPT !.pc = "over"]]
    /\ holder' = [s \in Submits |-> None]
    /\ UNCHANGED <<product, op, loc, broker>>

-----------------------------------------------------------------------------
SubmitStep(s) ==
    \/ SelectWorker(s) \/ Prepare(s) \/ InsertRendition(s) \/ InsertJob(s)
    \/ insertWithSecrets(s)

ExecuteStep(t) ==
    \/ openJob(t) \/ postJob(t) \/ streamEnds(t) \/ recoverExchange(t)
    \/ pollSettlement(t) \/ settle(t) \/ settleZero(t)
    \/ recordProgress(t) \/ recordRetry(t) \/ recordVodTerminal(t)

Next ==
    \/ CreateUpload \/ CompleteUpload \/ InsertAsset \/ DeleteAsset
    \/ \E s \in Submits : Submit(s) \/ SubmitStep(s) \/ claimRecoverable(s)
    \/ \E t \in Tasks : ExecuteStep(t)
    \/ recoverOne
    \/ \E s \in Submits : LeaseExpires(s) \/ LeaseOutlived(s)
                         \/ RetryDue(s) \/ BrokerWorks(s)
    \/ Crash

\* A started task runs, the timer fires, time passes and the broker works, each
\* on one of the submits that wait for it.
Fairness ==
    /\ \A s \in Submits : WF_vars(SubmitStep(s))
    /\ WF_vars(\E s \in Submits : claimRecoverable(s))
    /\ WF_vars(\E s \in Submits : LeaseExpires(s) \/ RetryDue(s))
    /\ WF_vars(\E s \in Submits : BrokerWorks(s))
    /\ \A t \in Tasks : WF_vars(ExecuteStep(t))
    /\ WF_vars(recoverOne)

Spec == Init /\ [][Next]_vars /\ Fairness

-----------------------------------------------------------------------------
(* Properties.                                                               *)

Touched(s) == op[s].status # None \/ loc[s].at # None \/ broker[s].at # None

\* However the submits of an asset interleave, crash and are recovered, LOC and
\* the broker see one job: the renditions' unique index stops every other task
\* before it has an operation, and a recovery repeats a request id.
OneJob ==
    \A s, u \in Submits : Touched(s) /\ Touched(u) => s = u

\* Money and work are never held without the row and the intent a recovery
\* needs to find them: they are stored before the first call and kept until
\* the operation is terminal, which it is only once LOC is settled.
NeverForgotten ==
    \A s \in Submits :
       /\ loc[s].at # None \/ broker[s].at # None =>
             op[s].status # None /\ (op[s].secrets \/ op[s].terminal)
       /\ broker[s].at # None => loc[s].at # None
       /\ op[s].terminal => loc[s].at = "settled"

\* The customer's view changes as a whole: renditions, job, playback id,
\* readiness and the erased intent belong to the one terminal transaction, and
\* what is played was delivered, accounted for and within its funding.
AllOrNothing ==
    LET done == {s \in Submits : op[s].terminal} IN
    /\ \A s \in done :
          /\ \A r \in Names(s) : rend[r] = "completed"
          /\ job[s] = "completed" /\ playback /\ ~op[s].secrets
          /\ broker[s].body = "result"
          /\ op[s].claimed = loc[s].actual /\ op[s].claimed <= maxTotalUnits(s)
    /\ \A r \in Resolutions : rend[r] = "completed" => \E s \in done : r \in Names(s)
    /\ asset.status = "ready" \/ playback => done # {}

\* LOC settles a request id once, so it must hear the broker's last word.  A task
\* that lost the stream, or took over from one that died, asks for the record
\* while the job may still run or be accounted for; the first task may settle it
\* meanwhile.  On every path (headers, poll, exchange, replay, refusal) LOC is
\* settled only after the broker, at the units the broker ends with.
SettledWhenFinal ==
    \A s \in Submits : loc[s].at = "settled" =>
       broker[s].at \in {"settled", "refused"} /\ loc[s].actual = broker[s].units

\* What keeps an operation from ever being terminal: its own task is over and
\* LOC holds the estimate that task sent (the recovery sends another), the job
\* failed, overran or was refused, or another tier left rows the recovery does
\* not expect.
Stuck(s) ==
    \/ task[s].pc = "over" /\ loc[s].estimated = estimatedUnits(s)
    \/ broker[s].at = "refused"
    \/ broker[s].at \in {"accounting", "settled"} /\ ~validateAbrTerminal(s)
    \/ \E r \in Resolutions \ Names(s) : rend[r] # None

\* An operation is driven to its terminal transaction by its task or, when that
\* died before LOC was asked, by the recovery, through crashes, lost answers,
\* expired leases and settlements found without their body: an operation, which
\* is never removed, cannot stay short of both for ever.
Converges ==
    []<>(\A s \in Submits : op[s].status # None => op[s].terminal \/ Stuck(s))

\* docs/design-docs/transcode-pipeline.md: recovery repeats the same LOC
\* operation with identical bytes and request ID.
OpenRepeats ==
    \A t \in Tasks :
       task[t].pc = "open" /\ loc[task[t].sub].at # None =>
          EstimateSent(t) = loc[task[t].sub].estimated
=============================================================================
