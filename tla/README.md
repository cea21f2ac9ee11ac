# TLA+ verification of livepeer-modules-transcode

The repository sells video transcoding over Livepeer: a TypeScript gateway takes
customers' requests, pays for remote work and survives restarts in the middle of it;
Go runners do the work next to a GPU and report signed, metered usage. This directory
holds TLA+ models of the parts whose correctness depends on interleavings, crashes
and retries, the TLC configurations that check them on small instances, and TLAPS
proofs of the invariants that matter most.

Paths below are relative to `src/`.

## The system

| part | state | who touches it concurrently |
| --- | --- | --- |
| live-runner session store (`live-runner/store.go`, `contract.go`) | one encrypted file per session: lifecycle, stream keys, metering cursor, output health, event outbox, callback cursor, dead letters | HTTP handlers, one run loop and one meter per session, the callback worker, start-up recovery |
| live-runner runtime (`live-runner/runtime.go`, `server.go`, `recovery.go`, `app.go`, `metering.go`, `router.go`, `media.go`) | map of run loops, capacity tokens, GPU leases, per-session handler locks, MediaMTX paths, FFmpeg processes | create and DELETE handlers, run loops, meters, MediaMTX, shutdown, crash |
| live-runner callbacks (`live-runner/callback.go`) | cursor in the store, attempts in flight | worker, broker, crash |
| GPU admission gate (`transcode-core/gpu_admission.go`) | three lock files | three runner processes |
| gateway paid operations (`transcode-gateway/src/repo/paidOperations.ts`) | one Postgres row per operation with an owner, a lease and a version, plus encrypted secrets | several gateway processes, customers' requests |
| gateway live sessions (`engine/service/paidLive*.ts`, `livepeer/paidSession*.ts`, `runtime/rtmp/dispatcher.ts`, `routes/live/streams.ts`) | the row's status and session_runtime, the relay processes | open request, reconciler timer, RTMP dispatcher, customer's end, broker |
| gateway VOD (`routes/vod/*.ts`, `engine/service/paidAbr*.ts`, `livepeer/paidJobClient.ts`) | an asset's rows (upload, renditions, encoding job, playback id) and its paid operation | uploads, submits, the background task of each submit, recovery timer, delete and play requests |
| gateway accounts (`auth/*`, `routes/auth/*`, `middleware/*`) | waitlist, users, API keys, portal sessions | sign-up, verification, operator, login, key rotation, deletion, over one connection pool |
| gateway route selection (`livepeer/routeSelector*.ts`, `routeHealth.ts`, `routeProtocol.ts`, `locClient.ts`) | snapshot caches, suppressed brokers, route health | dispatching requests, outcomes of earlier attempts, operator, clock |
| abr-runner workloads (`abr-runner/workload_store_v2.go`, `abr_handler_v2.go`, `abr_executor_v2.go`) | journal file per workload, in-memory executions and subscribers | requests, retries, disconnects, executor, crash |
| transcode-runner VOD (`transcode-runner/vod_v2.go`) | state file per job, in-memory executions | requests, retries, executor, crash |

What makes it hard: a session is owned by whoever holds the newest version of a row
while clocks disagree; a runner's record is written by five goroutines and must load
again after every one of them; usage is billed from a sliding playlist that repeats
itself; a stop request, a failure and a finalization race each other; every step can
be the last one before a crash.

## Modules

| module | models | notes |
| --- | --- | --- |
| `LiveSessionStore` | `live-runner/store.go` | one session record, every mutator as an action |
| `LiveRuntime` | `live-runner/runtime.go`, `server.go`, `recovery.go`, `app.go` | handlers, run loop, recovery, shutdown; the record is its lifecycle |
| `GpuAdmission`, `GpuLease` | `transcode-core/gpu_admission.go` | system calls on lock files, and the cohort lease they implement |
| `CallbackDelivery`, `OrderedDelivery` | `live-runner/callback.go` | the worker over several sessions and brokers, and the delivery order it implements |
| `AbrWorkload` | `abr-runner/abr_handler_v2.go`, `workload_store_v2.go`, `abr_executor_v2.go` | requests, executions, journals and the resumable executor |
| `PaidOperation` | `transcode-gateway/src/repo/paidOperations.ts` | the row, its fence and the claims processes remember |
| `GatewayLive` | `transcode-gateway/src/engine/service/paidLiveOpen.ts`, `paidLiveReconciler.ts`, `runtime/rtmp/dispatcher.ts`, `routes/live/streams.ts` | the tasks of one gateway over one row, with broker and LOC |
| `GatewayVod` | `routes/vod/uploads.ts`, `vod.ts`, `playback.ts`, `engine/service/paidAbrOrchestrator.ts`, `paidAbrRecovery.ts`, `livepeer/paidJobClient.ts` | one asset, its submits, their background tasks and the recovery, with broker and LOC |
| `Accounts` | `auth/`, `routes/auth/`, `middleware/` | accounts, keys and sessions over READ COMMITTED transactions and a bounded pool |
| `RouteSelection` | `livepeer/routeSelector*.ts`, `routeHealth.ts`, `routeProtocol.ts`, `locClient.ts` and the worker resolvers | concurrent selections over cached snapshots, health and suppression |
| `RunnerProofs` | | theorems about `GpuAdmission` and `LiveRuntime` |
| `DurableStateProofs` | | theorems about `PaidOperation` and `CallbackDelivery` |
| other `...Proofs` | | theorems about the module of that name |
| `MC...` | | constants, symmetry and bounds for TLC, where the `.cfg` alone cannot give them |

`LiveSessionStore` keeps the record in five groups of fields (`life`, `keys`, `meter`,
`health`, `outbox`) and in `final` what each finalizer has read. The store's mutex and
atomic file replacement make each operation one step. `loadLocked` validates the
record, so every action has the validation as its guard: a record that fails it is
unreachable for ever. Times are readings passed in by the caller, in any order.

`GpuAdmission` has one action per system call of `Acquire`; `ex` and `sh` are the
holders of exclusive and shared locks of each file. `ProcessDies` drops the locks of a
process. Its specification is `GateSpec`, so that `RunnerProofs` can speak of it and of
`LiveRuntime` at once.

`PaidOperation` has one action per SQL statement or transaction. `claims` are all
claims any process still remembers, including expired ones: a fenced statement may be
issued under any of them at any time. Gateways read their own clocks, up to `Skew`
away from the database's.

`GatewayLive` is the layer above: the opening request (`open`), a pass of the reconciler
(`rec`), the `postPublish` handler (`up`) and `scheduleAuthoritativeReconcile` (`down`) of
each connection have a program counter each and work on one row through the operations
of `PaidOperation`. Of the claims only the current one matters, so `holder` is the task
that remembers it; `ClaimsUnique`, proved for `PaidOperation`, is what allows this. The
tasks of a process share an owner name and take the claim from each other at any time;
`rec.outer` says whether the variable `owned` of `reconcileOne` is the newest claim of
the pass or one that a callee has used up. `row.context` is what the stored secrets are
good for: the intent of the open, or everything needed to publish to the session and to
end it. Broker, LOC and runner are external, and modelled by what the client code accepts
from them. What an answer shows is the set of fields in which it agrees with what was
asked (`Answers`): a failed call is the empty set, and each of the client's validations
asks for its fields, so a refused answer is one action with what the callee may already
have done. An open that the broker refuses for want of capacity is settled with LOC at zero;
`OpenRecovers` counts that as an end of the open.

`GatewayVod` follows one asset. A submit inserts the asset's rows one statement at a time
and stops at the first one that the unique index of the renditions refuses; its
background task then opens, streams, polls, settles and writes the terminal transaction,
and the recovery resumes it from the stored intent. Units are computed as in
`vodUsage.ts`, with the dimensions of all tiers. LOC is told the units of the broker's signed payload;
`SettledWhenFinal` says that this happens only once the broker can no longer change them. `CompleteUpload` sets the asset's status and leaves its source alone,
because `AssetRepo.updateStatus` ignores the `source_url` it is given, and no other
handler stores one. So that the paid job can be checked at all, `InsertAsset` inserts a
row with its source through `AssetRepo.insert`, as the repository's tests do.

`Accounts` has the tables of the `auth` schema, and requests with a program counter where
they await something inside or between transactions. A statement on a row another
transaction has written waits for it; a statement on a second connection takes one from
the pool, and fails after the pool's time-out. It may fail only when the
pool is empty or a row is locked, whose waiters hold connections too (`NoConnection`). `OldAccessEnds` is about steps:
the commit of a rotation replaces the key that was active, and a key that lets nobody in never lets
anyone in again. Hashing is left out, tokens are model values.

`RouteSelection` models parsing, filtering and ordering as operators over route records,
and a call of the selector as the steps before and after the resolver answers. A JSON
document is a function from its keys to what stands under them, so that a missing key, a
value of the wrong type and a well-formed value are told apart and nothing else is.
`Array.sort` leaves routes that compare equal in the resolver's order, which may be any,
so `Sorted` gives the set of lists it may leave. A node without a URL is skipped whatever
its capabilities say; one with a URL fails the whole listing when it does not parse. An
inspection that finds its snapshot stores it again after its await (`storeAgain`), over
whatever a load has put there in between. Tier hints, prices and header filters are part of
the selector although no dispatcher of the repository passes them. `rankCandidates` is the code's loop.
`log` is a history variable: all outcomes reported, in order.

`LiveRuntime` gives the create and DELETE handler of a session, its run loop and its
meter a program counter each. `lockSessionV1` is `lock`; the run loop takes no lock.
FFmpeg is `ladder`; MediaMTX is `admitted` (authorized publishers not online yet) and
`publishing`, and every call to it may fail.

`CallbackDelivery` keeps of each session record its events, the callback cursor and the
credentials, and gives the one worker a program counter. A POST whose answer is lost
may still be processed by the broker later. An answer whose
status no dead letter can hold ends the runner, which is started again with the event
still at the head; such answers count against `MaxCrashes`, since a broker that always
gives one is never served. `LiveSessionStore` has the same store
operations one record at a time and with all their fields; here several sessions share
the worker, which is what starvation is about. Its specification is `DeliverySpec`, so
that `DurableStateProofs` can speak of it and of `PaidOperation`.

`AbrWorkload` reduces an encoded rendition to its pixels, which is what is billed (0 for
an audio-only one, `Absent` for none); playlist and stream are uploaded in two steps, and
every step of the executor may fail up to its return. It reduces progress events to the wake-ups they cause. A request, an execution and a journal each
have their state; the coordinator's mutex and the store's make their operations steps.
A crash keeps the journal and the uploaded objects and may damage the local encodings.

A mutant definition (named
`<action>_<defect>`) stands before some actions: it is the action with a plausible
defect, used to see that a property notices it, and no specification uses it.

## Runs

| run | module, configuration | expected | properties | shows |
| --- | --- | --- | --- | --- |
| `store` | `MCLiveSessionStore`, `LiveSessionStore.cfg` | pass | `RecordLoads`, `MeteredOnce`, `TerminalEventAgrees`, `FirstReasonWins` | One session through creation, key rotation, playlists that repeat segments, output failures, two concurrent finalizers, callback delivery and crashes, with a sequence counter that overflows: every saved record loads again, every segment is billed once, and the first stop request and the final usage are what the terminal event tells. |
| `gpu_admission` | `MCGpuAdmission`, `GpuAdmission.cfg` | pass | `NothingStranded`, `RefusedOnlyByOpposing`, `ImplementsLease` | Two live and two batch workloads in three processes interleave their system calls and crash: the gate implements the cohort lease, refuses only for an opposing lease, strands no lock and always frees its mutex. |
| `paid_operation` | `MCPaidOperation`, `PaidOperation.cfg` | pass | `ClaimsUnique`, `StaleNeverWrites`, `TerminalPermanent`, `WinddownSticks` | Two gateways with skewed clocks claim, lose, renew, release and mutate one operation: no two claims share a version, only the current claim writes, and terminal and wind-down states stay. |
| `runtime` | `LiveRuntime`, `LiveRuntime.cfg` | pass | `CapacityExact`, `NoRuntimeAfterEnd`, `DeleteReleases`, `DeleteAnswered` | A create and a DELETE at once, publisher, FFmpeg, meter, batch work and crashes: an ended session gets no new runtime, every path gives back exactly what it took, and a DELETE is always answered, with everything released. |
| `callback_delivery` | `MCCallbackDelivery`, `CallbackDelivery.cfg` | pass | `HeadReserved`, `ImplementsDelivery`, `NoStarvation`, `CredentialsErased` | One worker, a session whose broker answers and one whose broker need not: events arrive in order, the silent broker does not hold up the other session, and a crash between the last acknowledgement and the erasure of credentials is made good. |
| `gateway_live` | `GatewayLive`, `GatewayLive.cfg` | pass | `NeverForgotten`, `ReadyIsPublishable`, `EndingIsFinal`, `Settles`, `OpenRecovers` | Opening request, reconciler, dispatcher and customer take the claim from each other, with a publisher that comes and goes, a fault anywhere and a crash: no paid session is forgotten, ready and ending mean what they say, an open is replayed until it is stored or its refusal settled at zero, and an opened session is settled. |
| `gateway_status` | `GatewayLive`, `GatewayLive_status.cfg` | violation | `StatusAccepted` | The row keeps the placeholder work_id of the insert, so every status answer of the broker is refused as belonging to another session. |
| `abr_workload` | `AbrWorkload`, `AbrWorkload.cfg` | pass | `BilledIsStored`, `NoWorkAfterTerminal`, `CancelIsNotFailure`, `ClientReleased` | Two connections, a reused workload id, damaged files and a crash: the bill is for what is stored, an ended workload is never worked on again, a client's departure fails nothing and a waiting client is always released. |
| `gateway_vod` | `MCGatewayVod`, `GatewayVod.cfg` | pass | `OneJob`, `NeverForgotten`, `AllOrNothing`, `SettledWhenFinal`, `Converges` | Two submits of different tiers race for an asset while tasks die, answers are lost or wrong and leases run out: one job is paid for, it is never forgotten, its result appears as a whole, LOC hears the broker's last word, and the recovery finishes what it can. |
| `vod_recovery` | `MCGatewayVod`, `GatewayVod_recovery.cfg` | violation | `OpenRepeats` | The recovery repeats the open of a job under the same request id with another estimated_units than the orchestrator sent. |
| `accounts` | `Accounts`, `Accounts.cfg` | pass | `KeyPerAccount`, `OldAccessEnds`, `KeepsLink`, `Answered` | Signups, operator decisions, logins and key rotations interleave while mails, statements and the process fail and the pool runs out: one active key per account, the access of a key that was replaced ends for good, a working verification link is never lost, and no request is stuck. |
| `routes` | `MCRouteSelection`, `RouteSelection.cfg` | pass | `HealthFromHistory`, `AnswersServe`, `SnapshotFresh` | Three concurrent calls load, race for the cache, pick routes and report outcomes while the clock runs, brokers are suppressed and the registry changes: what is answered can serve the request, is fresh, is in order, and a route cools down for what it did and no longer. |

Deadlock is checked except where a bound on sequences, versions or time ends the
behaviour (the store, the paid operation, route selection) and where nothing is left to
do (a settled live session, a finished asset, an account with no request left).

Bounds. The store's sequences stop at 2 or 3 and counts at 1, which reaches every
overflow check; three key requests are needed to see one rotation overlap another; two
segments of unequal length make fractional seconds; two finalizers are the DELETE
handler and `failSession`. The paid operation has two gateways, because a third adds no
new relation between a claim and the row, and a version bound that leaves room for
claim, loss, claim and write. The gate has two workloads per cohort in three processes,
so that cohort members meet each other and the other cohort. The runtime has one
session, one token and two failures, which are a restart and the end; a create then meets
the run loop it wants to replace, and batch work competes for the GPU. With two sessions
for the token, one failure and one request at a time, `CapacityExact` and
`NoRuntimeAfterEnd` hold as well (1.1 million states, without the liveness properties). The callback worker has a session with a silent broker and one with an
answering broker, and enough events for one to be sent late while the next is at the
head. The gateway's live session has one connection, one publish, one end and one fault
or crash: each task then meets each other task in the middle of its claim, and the fault
falls on every call in turn. The abr-runner has one workload (workloads share only the limit), two connections,
two request contents, and two sizes an encoding may have (one of them audio only), so that a second encoding can
differ from the first; one rendition and one crash reach every crash point. The asset has
two submits of different tiers, which share one rendition and not the other, and two
faults: enough for a lost answer followed by a crash, or an expired lease followed by a
refusal; one second of source at two frames makes the rounding of units visible. Accounts
has one address (rows of different addresses are never read together), three keys and
sessions, two requests at a time and as many connections as requests, which is when
rotations can wait for each other. Route selection has three interchangeable calls, of
which two may be inspections (one loads, another finds its snapshot or loads beside it;
the three-way race of loads is explored with `select`), a registry of two brokers with
good routes and routes of one defect each, and a clock that passes the snapshot's
lifetime and the cool-down.

Fairness. In `LiveRuntime` goroutines that can run do run, a cancelled FFmpeg is
killed (`exec.CommandContext`), a contended `sync.Mutex` reaches its oldest waiter
(strong fairness of the two lock steps), a stopped process is started again, and a kick
that start-up repeats for ever is answered in the end. In `CallbackDelivery` the worker's
timer fires and its steps are taken; of the brokers only the answering one is assumed to
answer. In `AbrWorkload` goroutines that can run do run, and FFmpeg and the transfers
come to an end, successfully or not. In `GatewayLive` the event loop runs one of the
tasks of requests and connections that can run, the interval timer starts passes, the
session's lease, and claims and retry delays, run out, and a broker that was told to end a
session ends it; calls fail and tasks outlast their lease only `MaxFaults`
times, without which nothing could be settled. `GatewayVod` assumes the same of its tasks,
the recovery timer, leases, retry delays and the broker's work. Both state their liveness
properties as what cannot stay so for ever, about rows that are never removed, which is
as strong as "leads to" and cheaper to check. In `Accounts` a request
takes its next step when it can; the statement that revokes a key waits for a row lock
that others may take again and again, and PostgreSQL serves lock waiters in order, so it is
strongly fair. Clients, publishers, crashes,
timeouts and batch work are never assumed to happen.

## Proofs

| theorem | module | property | establishes |
| --- | --- | --- | --- |
| `TypeCorrect` | `LiveSessionStoreProofs` |  | The store's state keeps its types for every bound on sequences, counts and durations. |
| `RecordAlwaysLoads` | `LiveSessionStoreProofs` | `RecordLoads` | Every record the store saves passes the validation that every later load runs. |
| `MeteringExact` | `LiveSessionStoreProofs` | `MeteredOnce` | The metered timeline is the duration of the set of segments seen, however playlists repeat them. |
| `SecretsKept` | `LiveSessionStoreProofs` |  | Undelivered events keep the secrets they are delivered with. |
| `TerminalEventExact` | `LiveSessionStoreProofs` | `TerminalEventAgrees` | The terminal event in the outbox agrees with the record's state, reason and usage, with any number of finalizers. |
| `FirstReasonKept` | `LiveSessionStoreProofs` | `FirstReasonWins` | The first stop request decides reason and terminal state. |
| `TerminalStays` | `LiveSessionStoreProofs` |  | A terminal record is never changed again except by delivery. |
| `KeysRotateInOrder` | `LiveSessionStoreProofs` |  | A new stream key is issued only when the previous rotation is complete. |
| `NoLockStranded` | `RunnerProofs` | `NothingStranded` | For any workloads and processes the locks are exactly those of granted leases and of the caller inside the mutex. |
| `RefusalJustified` | `RunnerProofs` | `RefusedOnlyByOpposing` | A capacity refusal happens only while an opposing workload holds a lease. |
| `GateImplementsLease` | `RunnerProofs` | `ImplementsLease` | The system-call level gate implements the abstract cohort lease. |
| `TypeCorrect` | `DurableStateProofs` |  | The row, the claims and the pending secret writes keep their types. |
| `OneClaimCurrent` | `DurableStateProofs` | `ClaimsUnique` | For any gateways, lease lengths and clock skew no two claims carry the same version and none is ahead of the row. |
| `StaleWritesRefused` | `DurableStateProofs` | `StaleNeverWrites` | Every fenced write to the row was made by the claim that is current. |
| `SettledForGood` | `DurableStateProofs` | `TerminalPermanent` | A terminal row never changes again. |
| `WinddownKept` | `DurableStateProofs` | `WinddownSticks` | A wind-down reason is never cleared. |
| `CapacityHolds` | `RunnerProofs` | `CapacityExact` | For any finite set of sessions, any capacity, failures and crashes, the tokens out are exactly one per admitted session and never exceed the limit, and a session holds its one GPU lease until it releases it. |
| `DeleteReleasesHolds` | `RunnerProofs` | `DeleteReleases` | When a DELETE takes its last step, the session's run loop has stopped and its token and GPU lease are back. |
| `NoRuntimeAfterEndHolds` | `RunnerProofs` | `NoRuntimeAfterEnd` | However create, DELETE, failures, recovery and crashes interleave, no runtime is started for a session that a DELETE has ended. |
| `RuntimeImplementsLease` | `RunnerProofs` |  | The live runner and the batch work beside it use the GPU as the abstract cohort lease allows: sessions share it, batch work never holds it with them. |
| `HeadAlwaysReserved` | `DurableStateProofs` | `HeadReserved` | For any sessions, events and crashes the event the worker handles is the reserved head of its outbox and has its credentials. |
| `DeliveryInOrder` | `DurableStateProofs` | `ImplementsDelivery` | The worker implements OrderedDelivery: the broker sees each session's events in sequence order, except those it refused for good. |
| `TypeCorrect` | `GatewayLiveProofs` |  | Columns, tasks, broker and LOC keep their types, and a task with a current claim works for the owner the row names. |
| `SessionsNeverForgotten` | `GatewayLiveProofs` | `NeverForgotten` | For any connections, publishes, ends, failed calls and crashes, what LOC or the broker still has open is an open row with the identities to replay or end it. |
| `ReadyMeansPublishable` | `GatewayLiveProofs` | `ReadyIsPublishable` | A stream reported as ready has its ingest coordinates and session lease stored, whoever took the claim in between. |
| `EndingStaysFinal` | `GatewayLiveProofs` | `EndingIsFinal` | A stream reported as ending is never reported as usable again. |
| `BillingSound` | `AbrWorkloadProofs` | `BilledIsStored` | For any workloads, renditions, requests and crashes a delivered checkpoint names the stored stream and the playlist beside it is of the same encoding, and terminal usage is the usage of the delivered checkpoints. |
| `TerminalEndsWork` | `AbrWorkloadProofs` | `NoWorkAfterTerminal` | For any limit and any number of clients no execution works on an ended workload or outside the coordinator's map. |
| `FailuresAreReal` | `AbrWorkloadProofs` | `CancelIsNotFailure` | A workload is failed only by an execution with an error of its own: an execution whose clients left leaves it resumable. |
| `OneJobHolds` | `GatewayVodProofs` | `OneJob` | For any number of submits with a rendition in common, any faults and crashes, at most one submit of an asset ever has an operation, a LOC job or a broker job. |
| `NeverForgottenHolds` | `GatewayVodProofs` | `NeverForgotten` | LOC's and the broker's jobs always have a row with its stored intent, or a terminal row whose job LOC has settled. |
| `SettledWhenFinalHolds` | `GatewayVodProofs` | `SettledWhenFinal` | Whichever task settles, on whichever path and however late, LOC is settled only after the broker and at the units the broker ends with. |
| `AllOrNothingHolds` | `GatewayVodProofs` | `AllOrNothing` | Whatever the broker sends and wherever a task stops, the customer sees an asset's renditions, job, playback id and readiness together after a delivered and validated result, or none of them. |
| `KeyPerAccountHolds` | `AccountsProofs` | `KeyPerAccount` | For any number of accounts, keys, requests and connections, an approved account has exactly one active key and no other has one. |
| `OldAccessEndsHolds` | `AccountsProofs` | `OldAccessEnds` | A rotation that commits replaces the key that is active until then, and a key that lets nobody in, by itself or by a session, never does again. |
| `KeepsLinkHolds` | `AccountsProofs` | `KeepsLink` | However resends, failed mails, rollbacks and other requests race, a signup keeps a working link until it is used, expires or the account goes. |
| `HealthFromHistoryHolds` | `RouteSelectionProofs` | `HealthFromHistory` | For any routes, outcomes, threshold and cool-down the tracker's states, summary and cool-down counter are what a replay of all outcomes gives. |
| `SnapshotFreshHolds` | `RouteSelectionProofs` | `SnapshotFresh` | For any number of calls that load at once and any delay of the resolver, an answer from the cache shows what was true less than a TTL ago. |
| `AnswersServeHolds` | `RouteSelectionProofs` | `AnswersServe` | For any registry, requests and races of loads, outcomes and suppressions, every route select or selectWorker answers with can serve the request; those of select are within its price and not suppressed, and no cooling one stands before a ready one. |
| `AlwaysRanked` | `RouteSelectionProofs` |  | For any finite set of candidates whose preference counts, prices, URLs and addresses compare as numbers, compareCandidates is a strict order and some list satisfies it: a select that has its snapshot has an answer. |

The inductive invariant of `LiveSessionStore` adds to the checked invariants that
pending events have consecutive sequences ending at the last one and that each
finalizer's snapshot was taken while the session was stopping, with the usage it still
has; that is what makes the two-step finalization agree with the record. In
`GpuAdmission` it says which locks each program counter holds; the refinement maps the
lease holders to the union of the shared locks. In `LiveRuntime` it adds to
`CapacityExact` what a handler may rely on while it holds the session's lock: a create
past its load works on a session that no DELETE has ended, and a DELETE that finalizes
has seen the run loop gone. Neither follows from the handler's own steps, because the run
loop takes no lock. `RuntimeImplementsLease` closes the loop with the gate: the runner's
use of its leases, with batch work beside it, is itself a `GpuLease`. In `PaidOperation` it says that claims
are never newer than the row, that an unowned row is newer than every claim, and that a
terminal row is unowned. In `CallbackDelivery`
it says that the events before the head are settled, that nothing beyond the head was
ever sent, that an active session has its credentials and that the worker's event is the
reserved head. In `AbrWorkload` it says what the executor knows of the rendition it is
at: not delivered yet, its file the prepared one, and its playlist and then its stream
at their destinations of that encoding; for
`CancelIsNotFailure` also that an execution about to record a failure has a cause of its
own. In `GatewayLive` it says that a row is open exactly while it has an intent or a context,
that a claim is held on open rows only, that nothing exists outside before the insert,
and what a task has established when it reaches a step: the broker's close and LOC's
acceptance before the settlement, the session lease before the key, the context before
the activation and before any relay. That is needed because a step is taken long after
the read that justified it, when the claim may be gone. In `GatewayVod` it says that the
rendition every tier has in common is a lock: only the submit that inserted its row comes
to have an operation; and what LOC, the broker and the row hold when a task reaches a step.
`AllOrNothing` needs a second invariant over it (`WholeInv`): a task that reaches the
terminal transaction works for an operation whose result was validated against the
signed units, and nothing the broker holds can change after that.
In `Accounts` it says that an account has at most one active key and an approved one has
one, that a key's owner is approved, and whose key a rotation in progress replaces: the old
key stays active for other transactions until the commit. For `KeepsLink` it adds that a
resend commits a token only after it was mailed. `RouteSelection` has three invariants. For
`SnapshotFresh`, a snapshot expires within a TTL of a moment at which the resolver had what
it shows, because a load reads the clock before it sends its request. For
`HealthFromHistory`, a route's state counts the penalties of its current streak and ends
its cool-down with the last one that the streak started. The property replays the log with
a recursive function, and what such a function computes takes induction over data; so
the invariant also says that the replay of the log so far exists and is unique, and each
outcome recorded extends it by one step. For `AnswersServe` (`ServeInv`), every snapshot in the
cache and every answer of the resolver is a finite set of candidates whose protocol and axes
come out of the parser, so that a candidate the filter lets through declares what the
dispatcher relies on; sorting and splitting then only reorder what fitted. A select filters
the snapshot it asked for after the wait, so the suppressed brokers are those of the moment
of the answer. What the loop of `rankCandidates` returns is an induction over its turns,
which the provers can follow when the turns at which a fact holds are collected in a set: a
least turn outside the set would contradict the one before it (`Upto`, from `WFMin` of the
library). `AlwaysRanked` shows in the same way that `Sorted` is never empty, without which a
select could not answer and `AnswersServe` would say nothing of it; it takes the number of
matching leaves, a sum over a set, to be a number. The assumptions on constants are named in each module; `RouteSelection` assumes
that a listing of the resolver is finite, which an answer on the wire is.

Proved and not part of a run: `SecretsOutliveEvents`, `TerminalIsFinal` and
`KeyRotationOrdered` of the store, which a single guard carries.

Only model-checked: liveness (`DeleteAnswered`, `NoStarvation`, `CredentialsErased`,
`ClientReleased`, `Settles`, `OpenRecovers`, `Converges`, `Answered`), because fairness is
beyond the prover. Every other property of a run is a theorem. No module with proofs uses
RECURSIVE operators.

## Findings

- **`StatusAccepted`** (`src/transcode-gateway/src/livepeer/paidSessionClient.ts:264`, code bug): paidLiveOpen.ts:82 inserts the row with workId "pending:<request>" and neither the open nor its recovery writes the broker's work_id (only a refill does, which a status answer must ask for first), so status() compares the broker's work_id with the placeholder and refuses every answer: no status is recorded, no refill is requested and a session ends with its first lease; docs/design-docs/live-pipeline.md:119-120 says "authenticated HTTP state remains authoritative, and startup/background reconciliation repairs missed or reordered frames" and transcode-gateway/README.md:137 that the gateway "requests a refill at 15 remaining units"; test/engine/paidLiveReconciler.test.ts:26 starts from a row that already has "work-1".
- **`OpenRepeats`** (`src/transcode-gateway/src/engine/service/paidAbrRecovery.ts:69`, code bug): recoverOne opens the job with estimatedUnits = maxTotalUnits = funded_units, while runPaidAbrAsset sent its smaller estimate under the same idempotency key; LOC refuses the changed input, the refusal is no PaidJobClientError and the row is retried for ever as "recovery_retry"; docs/design-docs/transcode-pipeline.md:108-109 says "Recovery repeats or queries the same LOC operation with identical bytes and request ID" and docs/references/2026-08-24-livepeer-modules-v2-contract-baseline.md:39-41 "Identical idempotent opens return the recorded response and snapshot without reselection; changed open input returns `request_id_reuse`".

## Hazards no property covers

- atomicity, `src/transcode-gateway/src/repo/paidOperations.ts:749`: putSecrets tests the claim in an EXISTS over another table, which at READ COMMITTED reads the statement's snapshot and locks nothing: the upsert may wait for a row lock and then overwrite the secrets of a gateway that has claimed in between, although engine/types/paidOperation.ts:52-54 says that a stale gateway cannot overwrite a newer owner. PutSecretsCheck and putSecretsWrite model the two steps and TLC shows the overwrite; StaleNeverWrites states what the row itself guarantees.
- crash recovery, `src/live-runner/recovery.go:47`: A crash between the saved record and the admission, or after a refused admission, is found by recovery as an active session: the next start may find more active sessions than it has tokens and exits, every time, although live-runner/README.md:16-19 says start-up "converges pending key activation, active sessions, and durable stopping intents before serving HTTP". RecoverRefused models the refusal; it takes two sessions for one token to see it, one more than the run's liveness properties allow.
- protocol sequence, `src/transcode-gateway/src/engine/service/paidLiveReconciler.ts:126`: requestSessionWinddown overwrites the status "opening" or "issuing_key" of a session whose control handle is not stored yet; from then on reconcileOne finds neither a context nor a status it resumes and throws on every pass, although docs/design-docs/live-pipeline.md:60-61 says that an explicit end drives close and reconciliation. CustomerEnd, Resumable and RecFail model it; Settles is about the sessions that have their control handle and OpenRecovers excepts an open that was ended.
- stale state, `src/transcode-gateway/src/repo/assets.ts:117`: updateStatus drops the source_url that completing an upload passes to it: the background task of an uploaded asset finds no source and ends, and the asset stays queued. CompleteUpload models it; every run of the paid job starts from a row inserted with its source, and the comment uploads.ts:126-129 promises otherwise.

The models show these too; each is a case nothing in the repository decides, or a smaller
disagreement with a document, and no run states it:

- `live-runner/runtime.go:384`: after a cancel `select` may take `meterDone` first, and
  `run` returns without waiting for FFmpeg (`live-runner/README.md:118-119`: termination
  joins it).
- `live-runner/runtime.go:468`: when `KickPublisher` fails or the join times out a failed
  session stays stopping until a DELETE or a restart.
- `live-runner/router.go:57`: a publisher that is authorized and not online yet is missed
  by the kick.
- `live-runner/runtime.go:369`: a router error that is not retryable frees the GPU lease of
  an active session.
- `abr-runner/abr_handler_v2.go:131`: a retry may attach to an execution that is being
  cancelled, gets no terminal event and must retry.
- `runtime/rtmp/dispatcher.ts:195`: `persistRelayState("active")` may lose its claim, and
  the grace period then runs for a publisher that is back.
- `paidLiveReconciler.ts:425`: an open that is resumed after the broker has closed the
  session fails at the key for ever.
- `paidAbrRecovery.ts:118`: a losing submit of a higher tier leaves rendition rows that the
  recovery expects in the result; it throws after LOC was settled, on every pass (`Stuck`
  excepts it from `Converges`).
- `routes/vod/vod.ts:144`: a second submit of a ready asset overwrites its status.
- `routes/auth` key rotation: when `createSession` fails after the commit the answer is an
  error although the key was replaced.
- The selector's `loadSelectSnapshot`: one route whose extra does not parse fails the whole load.

## Not modelled

- live-runner callback worker and dispatcher (partly): SweepOnce and DeliverNext over several sessions, lost answers, requests processed late, permanent rejections, crashes and the erasure of credentials. The cursor's times and the jitter of the retry delay are left out: a delay passes sooner or later.
- gateway live sessions: open, reconciler, RTMP dispatcher, customer routes (partly): The opening request, every pass of the reconciler, the dispatcher's handlers, the customer's end, the broker, LOC, lease and grace periods and crashes over one row. Refills, which no execution reaches, units, playback ids, output health and the HLS proxy are left out.
- gateway VOD: uploads, submits, paid jobs and their recovery, playback (partly): One asset: upload, concurrent submits of different tiers, their background tasks, the recovery timer, LOC, the broker, leases, lost answers and crashes, with the units of the real formula. The listing and status endpoints only read; the audio-only rendition has no row and is left out.
- gateway accounts: waitlist, approvals, API keys, sessions (partly): Every request that writes, with its transactions, row locks, connections of the pool, lost mails and crashes. The rate limiter, the listing, the statistics and the CSV export are left out: they change no account.
- live-runner MediaMTX supervision, HLS listing, metrics (not modelled): process.go starts and stops one child process, hls.go parses a playlist from disk, metrics.go exports counters; LiveRuntime and LiveSessionStore have their outcomes as inputs.
- gateway LOC client and transport (partly): The calls of LOC and what their answers must satisfy are part of the modules that make them; refills, the wire encoding and the HTTP transport below it are not.
- gateway object storage, e-mail and configuration (not modelled): Clients of external services and the reading of the environment; their outcomes are inputs of the modules that use them.
- transcode-runner VOD jobs (not modelled): A journal file per job, one execution per job and a resumable prepare, upload and finish, as in abr-runner with a single rendition and with clients that poll the journal; AbrWorkload models that scheme, and no module of its own states it for this runner.
- transcode-core FFmpeg arguments, presets, filters, GPU detection (not modelled): Argument building, file parsing and process I/O; no concurrent state.
- web frontends (not modelled): Presentation over the gateway's API.
- build, deployment and test tooling (not modelled): Images, compose files and test drivers; no part of the running system.

## Plan

What would add most from here, in this order:

1. transcode-runner jobs, along the lines of `AbrWorkload`;
2. several gateways over one live session, and refills once a status answer can be
   accepted;
3. the HTTP transport of the LOC client: retries and their idempotency keys.
