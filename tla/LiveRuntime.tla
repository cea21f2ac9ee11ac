----------------------------- MODULE LiveRuntime -----------------------------
(***************************************************************************)
(* The live runner around its session store: HTTP create and terminate      *)
(* handlers (server.go), the runtime coordinator with one run loop and one  *)
(* meter per session (runtime.go, metering.go), start-up recovery           *)
(* (recovery.go) and process start, shutdown and death (app.go).            *)
(*                                                                          *)
(* A session record is reduced to its lifecycle; LiveSessionStore has the   *)
(* rest of it.  Handlers of one session exclude each other through          *)
(* lockSessionV1; the run loop takes no such lock, and its failSession      *)
(* races with them.  FFmpeg is `ladder`, MediaMTX is the set of sessions    *)
(* with an online publisher and the outcome of each call to it.             *)
(***************************************************************************)
EXTENDS Integers, FiniteSets

CONSTANTS
    Sessions,
    MaxConcurrent,   \* LIVE_RUNNER_MAX_CONCURRENT, positive
    MaxFailures      \* restart limit of the ladder within a failure window

ASSUME RuntimeAssumption ==
    /\ IsFiniteSet(Sessions)
    /\ MaxConcurrent \in Nat \ {0}
    /\ MaxFailures \in Nat \ {0}

VARIABLES
    up,         \* where the process is in RunLiveRunnerV1
    recovering, \* sessions that RecoverLiveSessionsV1 has yet to handle
    rec,        \* durable lifecycle of each session, and what a stop leads to
    create,     \* the create handler of each session and the record it loaded
    term,       \* the terminate handler of each session
    lock,       \* who holds lockSessionV1
    run,        \* the entry in coordinator.sessions and its run loop
    tokens,     \* local capacity tokens taken: the length of the capacity channel
    leases,     \* GPU leases held for each session
    batch,      \* another process holds the GPU for batch work
    admitted,   \* sessions with a publisher that Authorize let in, not yet online
    publishing, \* sessions whose ingest path is online
    ladder      \* sessions with a running FFmpeg process

vars == <<up, recovering, rec, create, term, lock, run, tokens, leases, batch,
          admitted, publishing, ladder>>

TerminalStates == {"ended", "failed"}

NoRun == [pc |-> "none", cancelled |-> FALSE, meter |-> "none", join |-> FALSE]

Init ==
    /\ up = "down"
    /\ recovering = {}
    /\ rec = [s \in Sessions |-> [state |-> "none", target |-> "ended",
                                  started |-> FALSE, failures |-> 0]]
    /\ create = [s \in Sessions |-> [pc |-> "idle", started |-> FALSE]]
    /\ term = [s \in Sessions |-> "idle"]
    /\ lock = [s \in Sessions |-> "free"]
    /\ run = [s \in Sessions |-> NoRun]
    /\ tokens = 0
    /\ leases = [s \in Sessions |-> 0]
    /\ batch = FALSE
    /\ admitted = {}
    /\ publishing = {}
    /\ ladder = {}

store == <<rec>>
process == <<up, recovering>>
handlers == <<create, term, lock>>
capacity == <<tokens, leases, batch>>
media == <<admitted, publishing, ladder>>

-----------------------------------------------------------------------------
(* EnsureSession.  Its critical section looks the session up and takes a     *)
(* local token and the GPU lease.                                            *)

Registered(s) == run[s].pc # "none"
LocalFull == tokens >= MaxConcurrent

\* Both are granted and the session is registered.
Admit(s) ==
    /\ ~Registered(s) /\ ~LocalFull /\ ~batch
    /\ run' = [run EXCEPT ![s] = [NoRun EXCEPT !.pc = "new"]]
    /\ tokens' = tokens + 1
    /\ leases' = [leases EXCEPT ![s] = @ + 1]
    /\ UNCHANGED batch

\* No token, an opposing cohort, or a lock file error; the token goes back.
Refuse(s, why) ==
    /\ ~Registered(s)
    /\ why = "capacity" => LocalFull \/ batch
    /\ UNCHANGED <<run, tokens, leases, batch>>

\* The registered run loop and its meter start.
Go(s) ==
    run' = [run EXCEPT ![s] = [NoRun EXCEPT !.pc = "await", !.meter = "polling"]]

-----------------------------------------------------------------------------
(* POST /v1/sessions.                                                        *)

\* CreateOrReplay: a new record, or an active one again.
CreateOrReplay(s) ==
    /\ up = "serving"
    /\ create[s].pc = "idle"
    /\ rec[s].state \in {"none", "active"}
    /\ rec' = [rec EXCEPT ![s].state = "active"]
    /\ create' = [create EXCEPT ![s].pc = "lock"]
    /\ UNCHANGED <<process, term, lock, run, capacity, media>>

\* The handler answers and the deferred unlock runs.
CreateReply(s) ==
    /\ create' = [create EXCEPT ![s] = [pc |-> "idle", started |-> FALSE]]
    /\ lock' = [lock EXCEPT ![s] = "free"]

\* Mutant: the record is loaded without the session's lock.
CreateLoad_unlocked(s) ==
    /\ create[s].pc = "lock"
    /\ rec[s].state = "active"
    /\ create' = [create EXCEPT ![s] = [pc |-> "ensure", started |-> rec[s].started]]
    /\ UNCHANGED <<process, store, term, lock, run, capacity, media>>

\* The session's lock, then Load; a record that is stopping or terminal is 410.
CreateLoad(s) ==
    /\ create[s].pc = "lock"
    /\ lock[s] = "free"
    /\ IF rec[s].state = "active"
       THEN /\ create' = [create EXCEPT ![s] = [pc |-> "ensure",
                                                started |-> rec[s].started]]
            /\ lock' = [lock EXCEPT ![s] = "create"]
       ELSE CreateReply(s)
    /\ UNCHANGED <<process, store, term, run, capacity, media>>

\* A registered session is answered 200 with the recorded descriptor.
CreateReplayed(s) ==
    /\ create[s].pc = "ensure"
    /\ Registered(s)
    /\ CreateReply(s)
    /\ UNCHANGED <<process, store, term, run, capacity, media>>

\* 429 or 503; the record stays as it is.
CreateRefused(s, why) ==
    /\ create[s].pc = "ensure"
    /\ Refuse(s, why)
    /\ CreateReply(s)
    /\ UNCHANGED <<process, store, term, media>>

CreateAdmitted(s) ==
    /\ create[s].pc = "ensure"
    /\ Admit(s)
    /\ create' = [create EXCEPT ![s].pc = "announce"]
    /\ UNCHANGED <<process, store, term, lock, media>>

\* session.started is emitted if the loaded record had no event, and the run loop
\* starts.
CreateAnnounce(s) ==
    /\ create[s].pc = "announce"
    /\ create[s].started \/ rec[s].state = "active"
    /\ rec' = [rec EXCEPT ![s].started = TRUE]
    /\ Go(s)
    /\ CreateReply(s)
    /\ UNCHANGED <<process, term, capacity, media>>

\* Mutant: the failure path keeps the local token.
CreateGivesBack_keepsToken(s) ==
    /\ create[s].pc = "announce"
    /\ ~create[s].started
    /\ run' = [run EXCEPT ![s] = NoRun]
    /\ leases' = [leases EXCEPT ![s] = @ - 1]
    /\ CreateReply(s)
    /\ UNCHANGED <<process, store, term, tokens, batch, media>>

\* The event cannot be stored: everything is given back.
CreateGivesBack(s) ==
    /\ create[s].pc = "announce"
    /\ ~create[s].started
    /\ run' = [run EXCEPT ![s] = NoRun]
    /\ tokens' = tokens - 1
    /\ leases' = [leases EXCEPT ![s] = @ - 1]
    /\ CreateReply(s)
    /\ UNCHANGED <<process, store, term, batch, media>>

CreateStep(s) ==
    \/ CreateLoad(s)
    \/ CreateReplayed(s)
    \/ \E why \in {"capacity", "error"} : CreateRefused(s, why)
    \/ CreateAdmitted(s)
    \/ CreateAnnounce(s)
    \/ CreateGivesBack(s)

-----------------------------------------------------------------------------
(* DELETE /v1/sessions/{id}.                                                 *)

Terminate(s) ==
    /\ up = "serving"
    /\ term[s] = "idle"
    /\ term' = [term EXCEPT ![s] = "lock"]
    /\ UNCHANGED <<process, store, create, lock, run, capacity, media>>

TermReply(s) ==
    /\ term' = [term EXCEPT ![s] = "idle"]
    /\ lock' = [lock EXCEPT ![s] = "free"]

\* The session's lock, then Load; unknown and ended sessions are answered at once.
TermLoad(s) ==
    /\ term[s] = "lock"
    /\ lock[s] = "free"
    /\ IF rec[s].state \in {"active", "stopping"}
       THEN /\ term' = [term EXCEPT ![s] = "begin"]
            /\ lock' = [lock EXCEPT ![s] = "terminate"]
       ELSE TermReply(s)
    /\ UNCHANGED <<process, store, create, run, capacity, media>>

\* beginTerminalV1 keeps the first stop and its target, and leaves an ended
\* record alone.
Begin(s, target) ==
    rec' = IF rec[s].state = "active"
           THEN [rec EXCEPT ![s].state = "stopping", ![s].target = target]
           ELSE rec

\* A record that has ended since TermLoad is refused by CompleteLiveTermination.
TermBegin(s) ==
    /\ term[s] = "begin"
    /\ Begin(s, "ended")
    /\ IF rec'[s].state = "stopping"
       THEN term' = [term EXCEPT ![s] = "cancel"] /\ UNCHANGED lock
       ELSE TermReply(s)
    /\ UNCHANGED <<process, create, run, capacity, media>>

\* Mutant: a registered run loop is not cancelled.
TermCancel_dropped(s) ==
    /\ term[s] = "cancel"
    /\ term' = [term EXCEPT ![s] = "kick"]
    /\ UNCHANGED <<process, store, create, lock, run, capacity, media>>

\* TerminateSession cancels a registered run loop ...
TermCancel(s) ==
    /\ term[s] = "cancel"
    /\ run' = IF Registered(s) THEN [run EXCEPT ![s].cancelled = TRUE] ELSE run
    /\ term' = [term EXCEPT ![s] = "kick"]
    /\ UNCHANGED <<process, store, create, lock, capacity, media>>

\* ... disconnects the publisher, waits for the loop whatever came of that ...
TermKick(s, ok) ==
    /\ term[s] = "kick"
    /\ publishing' = IF ok THEN publishing \ {s} ELSE publishing
    /\ term' = [term EXCEPT ![s] = IF ok THEN "wait" ELSE "failed"]
    /\ UNCHANGED <<process, store, create, lock, run, capacity, admitted, ladder>>

\* Mutant: the loop is not waited for.
TermDone_early(s) ==
    /\ term[s] = "wait"
    /\ term' = [term EXCEPT ![s] = "finalize"]
    /\ UNCHANGED <<process, store, create, lock, run, capacity, media>>

TermDone(s) ==
    /\ term[s] \in {"wait", "failed"}
    /\ ~Registered(s)
    /\ IF term[s] = "wait"
       THEN term' = [term EXCEPT ![s] = "finalize"] /\ UNCHANGED lock
       ELSE TermReply(s)
    /\ UNCHANGED <<process, store, create, run, capacity, media>>

\* ... or until the client goes away (503).
TermAbandon(s) ==
    /\ term[s] \in {"wait", "failed"}
    /\ Registered(s)
    /\ TermReply(s)
    /\ UNCHANGED <<process, store, create, run, capacity, media>>

\* FinalizeLiveTerminationV1.
Finalize(s) ==
    rec' = [rec EXCEPT ![s].state = IF @ = "stopping" THEN rec[s].target ELSE @]

TermFinalize(s) ==
    /\ term[s] = "finalize"
    /\ Finalize(s)
    /\ TermReply(s)
    /\ UNCHANGED <<process, create, run, capacity, media>>

TermStep(s) ==
    \/ TermLoad(s)
    \/ TermBegin(s)
    \/ TermCancel(s)
    \/ \E ok \in BOOLEAN : TermKick(s, ok)
    \/ TermDone(s)
    \/ TermFinalize(s)

-----------------------------------------------------------------------------
(* The run loop.                                                             *)

To(s, pc) == run' = [run EXCEPT ![s].pc = pc]

\* WaitForRTMPPublisher; a router error that is not retryable ends the loop.
Await(s) ==
    /\ run[s].pc = "await"
    /\ \/ s \in publishing /\ ~run[s].cancelled /\ To(s, "launch")
       \/ run[s].cancelled /\ To(s, "unwind")
    /\ UNCHANGED <<process, store, handlers, capacity, media>>

AwaitError(s) ==
    /\ run[s].pc = "await"
    /\ To(s, "unwind")
    /\ UNCHANGED <<process, store, handlers, capacity, media>>

\* FFmpeg starts, unless the context is cancelled or the start fails.
Launch(s) ==
    /\ run[s].pc = "launch"
    /\ ~run[s].cancelled
    /\ ladder' = ladder \cup {s}
    /\ To(s, "ladder")
    /\ UNCHANGED <<process, store, handlers, capacity, admitted, publishing>>

LaunchFailed(s) ==
    /\ run[s].pc = "launch"
    /\ To(s, "exited")
    /\ UNCHANGED <<process, store, handlers, capacity, media>>

\* The select after a start takes any case that is ready.  The meter also ends,
\* with an empty reason, because the context was cancelled.
LadderExited(s) ==
    /\ run[s].pc \in {"ladder", "join"}
    /\ s \notin ladder
    /\ To(s, "exited")
    /\ UNCHANGED <<process, store, handlers, capacity, media>>

MeterEnded(s) ==
    /\ run[s].pc \in {"ladder", "backoff"}
    /\ run[s].meter \in {"failed", "stopped"}
    /\ run' = [run EXCEPT
                 ![s].pc = IF run[s].meter = "failed" THEN "fail" ELSE "unwind",
                 ![s].join = (run[s].pc = "ladder" /\ run[s].meter = "failed"),
                 ![s].meter = "taken"]
    /\ UNCHANGED <<process, store, handlers, capacity, media>>

Cancelled(s) ==
    /\ run[s].pc \in {"ladder", "backoff"}
    /\ run[s].cancelled
    /\ To(s, IF run[s].pc = "ladder" THEN "join" ELSE "unwind")
    /\ UNCHANGED <<process, store, handlers, capacity, media>>

\* After an exit: cancelled, publisher gone, or a restart, counted from 1 again
\* when the failure window is over.  Counts beyond the limit are not told apart.
AfterExit(s) ==
    /\ run[s].pc = "exited"
    /\ \/ run[s].cancelled /\ To(s, "unwind") /\ UNCHANGED rec
       \/ ~run[s].cancelled /\ To(s, "await") /\ UNCHANGED rec
       \/ /\ ~run[s].cancelled /\ s \in publishing
          /\ IF rec[s].state # "active"
             THEN To(s, "unwind") /\ UNCHANGED rec
             ELSE \E n \in {1, rec[s].failures + 1} :
                    /\ rec' = [rec EXCEPT ![s].failures =
                                 IF n <= MaxFailures THEN n ELSE MaxFailures]
                    /\ run' = [run EXCEPT
                                 ![s].pc = IF n >= MaxFailures THEN "fail" ELSE "backoff",
                                 ![s].join = FALSE]
    /\ UNCHANGED <<process, handlers, capacity, media>>

BackoffOver(s) ==
    /\ run[s].pc = "backoff"
    /\ To(s, "await")
    /\ UNCHANGED <<process, store, handlers, capacity, media>>

\* failSession: the stop is recorded and the loop's own context cancelled ...
FailBegin(s) ==
    /\ run[s].pc = "fail"
    /\ Begin(s, "failed")
    /\ run' = IF rec'[s].state = "stopping"
              THEN [run EXCEPT ![s].pc = "failkick", ![s].cancelled = TRUE]
              ELSE [run EXCEPT ![s].pc = "unwind"]
    /\ UNCHANGED <<process, handlers, capacity, media>>

\* ... the publisher disconnected, FFmpeg joined, the record finalized.  A kick
\* that fails, or a join that times out, leaves the record stopping.
FailKick(s, ok) ==
    /\ run[s].pc = "failkick"
    /\ publishing' = IF ok THEN publishing \ {s} ELSE publishing
    /\ To(s, IF ~ok THEN "unwind" ELSE IF run[s].join THEN "failjoin" ELSE "failfinal")
    /\ UNCHANGED <<process, store, handlers, capacity, admitted, ladder>>

FailJoin(s) ==
    /\ run[s].pc = "failjoin"
    /\ s \notin ladder
    /\ To(s, "failfinal")
    /\ UNCHANGED <<process, store, handlers, capacity, media>>

FailJoinTimeout(s) ==
    /\ run[s].pc = "failjoin"
    /\ s \in ladder
    /\ To(s, "unwind")
    /\ UNCHANGED <<process, store, handlers, capacity, media>>

FailFinalize(s) ==
    /\ run[s].pc = "failfinal"
    /\ Finalize(s)
    /\ To(s, "unwind")
    /\ UNCHANGED <<process, handlers, capacity, media>>

\* The deferred calls: cancel and join the meter, close the lease, return the
\* token, leave the map and close done.
Unwind(s) ==
    /\ run[s].pc = "unwind"
    /\ run' = [run EXCEPT ![s].pc = "joinmeter", ![s].cancelled = TRUE]
    /\ UNCHANGED <<process, store, handlers, capacity, media>>

CloseLease(s) ==
    /\ run[s].pc = "joinmeter"
    /\ run[s].meter # "polling"
    /\ leases' = [leases EXCEPT ![s] = @ - 1]
    /\ To(s, "release")
    /\ UNCHANGED <<process, store, handlers, tokens, batch, media>>

releaseLocal(s) ==
    /\ run[s].pc = "release"
    /\ tokens' = tokens - 1
    /\ To(s, "remove")
    /\ UNCHANGED <<process, store, handlers, leases, batch, media>>

remove(s) ==
    /\ run[s].pc = "remove"
    /\ run' = [run EXCEPT ![s] = NoRun]
    /\ UNCHANGED <<process, store, handlers, capacity, media>>

RunStep(s) ==
    \/ Await(s)
    \/ Launch(s)
    \/ LaunchFailed(s)
    \/ LadderExited(s)
    \/ MeterEnded(s)
    \/ Cancelled(s)
    \/ AfterExit(s)
    \/ BackoffOver(s)
    \/ FailBegin(s)
    \/ \E ok \in BOOLEAN : FailKick(s, ok)
    \/ FailJoin(s)
    \/ FailFinalize(s)
    \/ Unwind(s)
    \/ CloseLease(s)
    \/ releaseLocal(s)
    \/ remove(s)

\* The meter reports output_failed once a poll of an online ingest finds the
\* failure deadline passed, and ends when its context does.
MeterFails(s) ==
    /\ run[s].meter = "polling"
    /\ s \in publishing /\ rec[s].state = "active"
    /\ run' = [run EXCEPT ![s].meter = "failed"]
    /\ UNCHANGED <<process, store, handlers, capacity, media>>

MeterStops(s) ==
    /\ run[s].meter = "polling"
    /\ run[s].cancelled
    /\ run' = [run EXCEPT ![s].meter = "stopped"]
    /\ UNCHANGED <<process, store, handlers, capacity, media>>

-----------------------------------------------------------------------------
(* MediaMTX and FFmpeg.                                                      *)

\* Authorize admits a publisher of an active session.
Authorize(s) ==
    /\ up = "serving"
    /\ rec[s].state = "active"
    /\ s \notin publishing
    /\ admitted' = admitted \cup {s}
    /\ UNCHANGED <<process, store, handlers, run, capacity, publishing, ladder>>

\* The publisher's path goes online some time after the answer.
Online(s) ==
    /\ s \in admitted
    /\ admitted' = admitted \ {s}
    /\ publishing' = publishing \cup {s}
    /\ UNCHANGED <<process, store, handlers, run, capacity, ladder>>

Unpublish(s) ==
    /\ s \in publishing
    /\ publishing' = publishing \ {s}
    /\ UNCHANGED <<process, store, handlers, run, capacity, admitted, ladder>>

\* FFmpeg ends by itself, or because its context was cancelled.
LadderExits(s) ==
    /\ s \in ladder
    /\ ladder' = ladder \ {s}
    /\ UNCHANGED <<process, store, handlers, run, capacity, admitted, publishing>>

\* Batch work on the same GPU comes and goes; it excludes live leases.
BatchStart ==
    /\ ~batch /\ \A s \in Sessions : leases[s] = 0
    /\ batch' = TRUE
    /\ UNCHANGED <<process, store, handlers, run, tokens, leases, media>>

BatchEnd ==
    /\ batch
    /\ batch' = FALSE
    /\ UNCHANGED <<process, store, handlers, run, tokens, leases, media>>

-----------------------------------------------------------------------------
(* The process.                                                              *)

\* Nothing but the records and the opposing cohort's lock survives.
Dead ==
    /\ up' = "down"
    /\ recovering' = {}
    /\ create' = [s \in Sessions |-> [pc |-> "idle", started |-> FALSE]]
    /\ term' = [s \in Sessions |-> "idle"]
    /\ lock' = [s \in Sessions |-> "free"]
    /\ run' = [s \in Sessions |-> NoRun]
    /\ tokens' = 0
    /\ leases' = [s \in Sessions |-> 0]
    /\ admitted' = {}
    /\ publishing' = {}
    /\ ladder' = {}
    /\ UNCHANGED batch

Start ==
    /\ up = "down"
    /\ up' = "recovering"
    /\ recovering' = {s \in Sessions : rec[s].state \in {"active", "stopping"}}
    /\ UNCHANGED <<store, handlers, run, capacity, media>>

\* RecoverLiveSessionsV1: a stopping session is terminated, ...
RecoverStopping(s) ==
    /\ s \in recovering /\ rec[s].state = "stopping"
    /\ Finalize(s)
    /\ recovering' = recovering \ {s}
    /\ UNCHANGED <<up, handlers, run, capacity, media>>

\* ... an active one gets a runtime, ...
RecoverActive(s) ==
    /\ s \in recovering /\ rec[s].state = "active"
    /\ ~Registered(s) /\ ~LocalFull /\ ~batch
    /\ rec' = [rec EXCEPT ![s].started = TRUE]
    /\ Go(s)
    /\ tokens' = tokens + 1
    /\ leases' = [leases EXCEPT ![s] = @ + 1]
    /\ recovering' = recovering \ {s}
    /\ UNCHANGED <<up, handlers, batch, media>>

\* ... and any error ends the process: no capacity, a lock file, a kick.
RecoverRefused(s, why) ==
    /\ s \in recovering /\ rec[s].state = "active"
    /\ why = "capacity" => LocalFull \/ batch
    /\ Dead
    /\ UNCHANGED rec

RecoverKickFails(s) ==
    /\ s \in recovering /\ rec[s].state = "stopping"
    /\ Dead
    /\ UNCHANGED rec

Serve ==
    /\ up = "recovering" /\ recovering = {}
    /\ up' = "serving"
    /\ UNCHANGED <<recovering, store, handlers, run, capacity, media>>

\* Shutdown waits for the handlers, cancels every run loop, ...
Shutdown ==
    /\ up = "serving"
    /\ \A s \in Sessions : create[s].pc = "idle" /\ term[s] = "idle"
    /\ up' = "joining"
    /\ run' = [s \in Sessions |-> IF Registered(s)
                                  THEN [run[s] EXCEPT !.cancelled = TRUE]
                                  ELSE run[s]]
    /\ UNCHANGED <<recovering, store, handlers, capacity, media>>

\* ... joins them and exits.
ShutdownDone ==
    /\ up = "joining"
    /\ \A s \in Sessions : ~Registered(s)
    /\ Dead
    /\ UNCHANGED rec

\* A crash, an exit of MediaMTX, or a shutdown that times out.
Crash ==
    /\ up # "down"
    /\ Dead
    /\ UNCHANGED rec

SessionStep(s) ==
    \/ CreateOrReplay(s)
    \/ CreateStep(s)
    \/ Terminate(s)
    \/ TermStep(s)
    \/ TermAbandon(s)
    \/ RunStep(s)
    \/ AwaitError(s)
    \/ FailJoinTimeout(s)
    \/ MeterFails(s)
    \/ MeterStops(s)
    \/ Authorize(s)
    \/ Online(s)
    \/ Unpublish(s)
    \/ LadderExits(s)
    \/ RecoverStopping(s)
    \/ RecoverActive(s)
    \/ \E why \in {"capacity", "error"} : RecoverRefused(s, why)
    \/ RecoverKickFails(s)

Next ==
    \/ \E s \in Sessions : SessionStep(s)
    \/ BatchStart
    \/ BatchEnd
    \/ Start
    \/ Serve
    \/ Shutdown
    \/ ShutdownDone
    \/ Crash

Spec == Init /\ [][Next]_vars

\* Goroutines that can run do run, a cancelled FFmpeg is killed, and sync.Mutex
\* hands a contended lock to its oldest waiter.  The process is restarted, and a
\* kick that start-up repeats for ever is answered in the end.  Clients, publishers,
\* batch work, crashes and timeouts are not fair.
FairSpec ==
    /\ Spec
    /\ WF_vars(Start)
    /\ \A s \in Sessions :
         /\ SF_vars(RecoverStopping(s))
         /\ WF_vars(CreateStep(s))
         /\ WF_vars(TermStep(s))
         /\ SF_vars(CreateLoad(s))
         /\ SF_vars(TermLoad(s))
         /\ WF_vars(RunStep(s))
         /\ WF_vars(MeterStops(s))
         /\ WF_vars(run[s].cancelled /\ LadderExits(s))

-----------------------------------------------------------------------------
(* Properties.                                                              *)

RunPcs == {"none", "new", "await", "launch", "ladder", "join", "exited", "backoff",
           "fail", "failkick", "failjoin", "failfinal", "unwind", "joinmeter",
           "release", "remove"}

\* The variables keep their types.
TypeOK ==
    /\ up \in {"down", "recovering", "serving", "joining"}
    /\ recovering \subseteq Sessions
    /\ rec \in [Sessions -> [state : {"none", "active", "stopping"} \cup TerminalStates,
                             target : TerminalStates, started : BOOLEAN,
                             failures : 0..MaxFailures]]
    /\ create \in [Sessions -> [pc : {"idle", "lock", "ensure", "announce"},
                                started : BOOLEAN]]
    /\ term \in [Sessions -> {"idle", "lock", "begin", "cancel", "kick", "wait",
                              "failed", "finalize"}]
    /\ lock \in [Sessions -> {"free", "create", "terminate"}]
    /\ run \in [Sessions -> [pc : RunPcs, cancelled : BOOLEAN, join : BOOLEAN,
                             meter : {"none", "polling", "failed", "stopped", "taken"}]]
    /\ tokens \in Nat /\ leases \in [Sessions -> Nat]
    /\ batch \in BOOLEAN
    /\ admitted \subseteq Sessions /\ publishing \subseteq Sessions
    /\ ladder \subseteq Sessions

\* Sessions between their admission and releaseLocal.
Holders == {s \in Sessions : run[s].pc \notin {"none", "remove"}}

\* Every admission gives back exactly what it took, on every path: a session
\* holds one token and one lease while it is registered and none afterwards, so
\* the tokens never exceed the limit and none is ever lost.
CapacityExact ==
    /\ tokens = Cardinality(Holders)
    /\ tokens <= MaxConcurrent
    /\ \A s \in Sessions :
         leases[s] = IF run[s].pc \in {"none", "release", "remove"} THEN 0 ELSE 1

\* The session lock and the load under it keep a create that raced a DELETE from
\* starting a runtime for the session that the DELETE has ended.
NoRuntimeAfterEnd ==
    [][\A s \in Sessions : rec[s].state = "ended" /\ ~Registered(s) => ~Registered(s)']_vars

\* A DELETE that ends a session has stopped its run loop and freed its capacity.
DeleteReleases ==
    [][\A s \in Sessions : term[s] = "finalize" /\ term'[s] = "idle" =>
         s \notin Holders /\ leases[s] = 0]_vars

\* Termination cannot deadlock with the session's run loop, meter, FFmpeg or a
\* concurrent create: a DELETE is answered.
DeleteAnswered == \A s \in Sessions : term[s] # "idle" ~> term[s] = "idle"
=============================================================================
