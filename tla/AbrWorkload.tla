----------------------------- MODULE AbrWorkload -----------------------------
(***************************************************************************)
(* The abr-runner: requests for workloads (abr_handler_v2.go), the one      *)
(* execution each workload may have, its durable journal                    *)
(* (workload_store_v2.go) and the executor that resumes from the journal's  *)
(* checkpoints (abr_executor_v2.go).                                        *)
(*                                                                          *)
(* An encoded rendition is the pixels it has, 0 for an audio-only one:      *)
(* encoding again may give a different number.  Progress events matter only *)
(* as wake-ups of the subscribers.  Only a workload's execution writes its  *)
(* journal, so the copy it loads is the journal itself.                     *)
(***************************************************************************)
EXTENDS Integers, FiniteSets, FiniteSetsExt

CONSTANTS
    Workloads,
    Requests,    \* connections, used again after they close
    Hashes,      \* request contents
    Renditions,
    Pixels,      \* what an encoding may measure
    UnitPixels,  \* 1_000_000
    Limit,
    MaxCrashes

ASSUME AbrAssumption ==
    /\ Workloads # {} /\ Hashes # {} /\ Renditions # {}
    /\ Pixels \subseteq Nat
    /\ UnitPixels \in Nat \ {0}
    /\ Limit \in Nat \ {0}
    /\ MaxCrashes \in Nat

VARIABLES
    journal,  \* WorkloadJournalV2
    units,    \* the usage in its terminal event
    file,     \* pixels of the local playlist and stream, Absent when damaged
    playlist, \* pixels of the encoding whose playlist was uploaded last
    stored,   \* pixels of the stream uploaded last
    active,   \* abrExecutionV2: registered, cancelled, subscribers
    proc,     \* the goroutine of run and Execute
    req,      \* ServeHTTP
    crashes

vars == <<journal, units, file, playlist, stored, active, proc, req, crashes>>
disk == <<journal, units, file, playlist, stored>>

Absent == -1
Nothing == [r \in Renditions |-> Absent]
NoJournal == [state |-> "none", hash |-> CHOOSE h \in Hashes : TRUE, prepared |-> Nothing,
              delivered |-> Nothing, manifest |-> "none"]
NoExecution == [on |-> FALSE, cancelled |-> FALSE, subs |-> {}]
NoProc == [pc |-> "none", at |-> CHOOSE r \in Renditions : TRUE, cause |-> "none"]
NoRequest == [pc |-> "idle", w |-> CHOOSE w \in Workloads : TRUE,
              note |-> FALSE, closed |-> FALSE]

Init ==
    /\ journal = [w \in Workloads |-> NoJournal]
    /\ units = [w \in Workloads |-> 0]
    /\ file = [w \in Workloads |-> Nothing]
    /\ playlist = [w \in Workloads |-> Nothing]
    /\ stored = [w \in Workloads |-> Nothing]
    /\ active = [w \in Workloads |-> NoExecution]
    /\ proc = [w \in Workloads |-> NoProc]
    /\ req = [q \in Requests |-> NoRequest]
    /\ crashes = 0

\* ceil(sum of pixels / 1_000_000), of what is delivered
CalculateFrameMegapixelUnits(delivered) ==
    (MapThenSumSet(LAMBDA r : delivered[r], {r \in Renditions : delivered[r] # Absent})
        + UnitPixels - 1) \div UnitPixels

Registered == {w \in Workloads : active[w].on}

-----------------------------------------------------------------------------
(* ServeHTTP.                                                                *)

\* LoadOrCreate and ClassifyWorkloadReplayV2.
Arrive(q, w, h) ==
    /\ req[q].pc = "idle"
    /\ LET known == journal[w].state # "none"
           pc == CASE known /\ journal[w].hash # h -> "conflict"
                   [] journal[w].state \in {"succeeded", "failed"} -> "answered"
                   [] OTHER -> "subscribe"
       IN  /\ req' = [req EXCEPT ![q] = [NoRequest EXCEPT !.pc = pc, !.w = w]]
           /\ journal' = IF known THEN journal
                         ELSE [journal EXCEPT ![w] = [NoJournal EXCEPT !.state = "in_progress",
                                                                       !.hash = h]]
    /\ UNCHANGED <<units, file, playlist, stored, active, proc, crashes>>

\* The journal is loaded again under the coordinator's lock.
SubscribeTerminal(q) ==
    /\ req[q].pc = "subscribe"
    /\ journal[req[q].w].state # "in_progress"
    /\ req' = [req EXCEPT ![q].pc = "answered"]
    /\ UNCHANGED <<disk, active, proc, crashes>>

\* 429: every place is taken, or live work has the GPU.
SubscribeRefused(q) ==
    /\ req[q].pc = "subscribe"
    /\ journal[req[q].w].state = "in_progress"
    /\ ~active[req[q].w].on
    /\ req' = [req EXCEPT ![q].pc = "refused"]
    /\ UNCHANGED <<disk, active, proc, crashes>>

Attach(q, w) == [active EXCEPT ![w].on = TRUE, ![w].subs = @ \cup {q}]

\* Mutant: the journal is not loaded again.
SubscribeStart_noReload(q) ==
    LET w == req[q].w IN
    /\ req[q].pc = "subscribe"
    /\ ~active[w].on
    /\ Cardinality(Registered) < Limit
    /\ active' = Attach(q, w)
    /\ proc' = [proc EXCEPT ![w].pc = "start"]
    /\ req' = [req EXCEPT ![q].pc = "wait"]
    /\ UNCHANGED <<disk, crashes>>

SubscribeStart(q) ==
    LET w == req[q].w IN
    /\ req[q].pc = "subscribe"
    /\ journal[w].state = "in_progress"
    /\ ~active[w].on
    /\ Cardinality(Registered) < Limit
    /\ active' = Attach(q, w)
    /\ proc' = [proc EXCEPT ![w].pc = "start"]
    /\ req' = [req EXCEPT ![q].pc = "wait"]
    /\ UNCHANGED <<disk, crashes>>

\* Even to an execution that has been cancelled.
SubscribeAttach(q) ==
    LET w == req[q].w IN
    /\ req[q].pc = "subscribe"
    /\ journal[w].state = "in_progress"
    /\ active[w].on
    /\ active' = Attach(q, w)
    /\ req' = [req EXCEPT ![q].pc = "wait"]
    /\ UNCHANGED <<disk, proc, crashes>>

\* A notification, then the closed channel: the journal is loaded each time.
Wake(q) ==
    /\ req[q].pc = "wait"
    /\ req[q].note \/ req[q].closed
    /\ req' = [req EXCEPT
         ![q].note = FALSE,
         ![q].pc = CASE journal[req[q].w].state # "in_progress" -> "ended"
                     [] ~req[q].note -> "dropped"
                     [] OTHER -> "wait"]
    /\ UNCHANGED <<disk, active, proc, crashes>>

\* The client goes away.
Leave(q) ==
    /\ req[q].pc = "wait"
    /\ req' = [req EXCEPT ![q].pc = "dropped"]
    /\ UNCHANGED <<disk, active, proc, crashes>>

\* Close and detach: whatever execution the workload has now is cancelled once
\* it has no subscriber.
Detach(q) ==
    LET w == req[q].w
        subs == active[w].subs \ {q}
    IN  /\ req[q].pc \in {"ended", "dropped"}
        /\ active' = IF active[w].on
                     THEN [active EXCEPT ![w].subs = subs, ![w].cancelled = @ \/ subs = {}]
                     ELSE active
        /\ req' = [req EXCEPT ![q] = NoRequest]
        /\ UNCHANGED <<disk, proc, crashes>>

Answered(q) ==
    /\ req[q].pc \in {"conflict", "answered", "refused"}
    /\ req' = [req EXCEPT ![q] = NoRequest]
    /\ UNCHANGED <<disk, active, proc, crashes>>

-----------------------------------------------------------------------------
(* Execute.                                                                  *)

Running == {"start", "pick", "encoded", "prepared", "listed", "uploaded", "manifest_ready",
            "packaged"}

Step(w, from, to) == proc[w].pc = from /\ proc' = [proc EXCEPT ![w].pc = to]

\* Every journal operation of the reporter refuses a workload that has ended.
Open(w) == journal[w].state = "in_progress"

\* The subscribers' channels have room for one notification.
Notified(w) == [q \in Requests |->
    IF q \in active[w].subs THEN [req[q] EXCEPT !.note = TRUE] ELSE req[q]]

\* ensureInput, the probe and any later progress report.
Progress(w) ==
    /\ Open(w)
    /\ \/ Step(w, "start", "pick")
       \/ proc[w].pc \in Running /\ UNCHANGED proc
    /\ req' = Notified(w)
    /\ UNCHANGED <<disk, active, crashes>>

\* Mutant: the prepared file is not hashed again.
PickPrepared_unchecked(w, r) ==
    /\ proc[w].pc = "pick"
    /\ journal[w].delivered[r] = Absent
    /\ journal[w].prepared[r] # Absent
    /\ proc' = [proc EXCEPT ![w].pc = "prepared", ![w].at = r]
    /\ UNCHANGED <<disk, active, req, crashes>>

\* A rendition without a delivered checkpoint: a prepared file that is still
\* valid is used again, otherwise FFmpeg encodes and its output is measured.
PickPrepared(w, r) ==
    /\ proc[w].pc = "pick"
    /\ journal[w].delivered[r] = Absent
    /\ journal[w].prepared[r] # Absent
    /\ file[w][r] = journal[w].prepared[r]
    /\ proc' = [proc EXCEPT ![w].pc = "prepared", ![w].at = r]
    /\ UNCHANGED <<disk, active, req, crashes>>

encodeRendition(w, r, p) ==
    /\ proc[w].pc = "pick"
    /\ journal[w].delivered[r] = Absent
    /\ journal[w].prepared[r] = Absent \/ file[w][r] # journal[w].prepared[r]
    /\ file' = [file EXCEPT ![w][r] = p]
    /\ proc' = [proc EXCEPT ![w].pc = "encoded", ![w].at = r]
    /\ UNCHANGED <<journal, units, playlist, stored, active, req, crashes>>

SavePrepared(w) ==
    LET r == proc[w].at IN
    /\ Open(w)
    /\ Step(w, "encoded", "prepared")
    /\ journal' = [journal EXCEPT ![w].prepared[r] = file[w][r]]
    /\ UNCHANGED <<units, file, playlist, stored, active, req, crashes>>

\* The playlist, and then the stream it names.
UploadPlaylist(w) ==
    LET r == proc[w].at IN
    /\ Step(w, "prepared", "listed")
    /\ playlist' = [playlist EXCEPT ![w][r] = file[w][r]]
    /\ UNCHANGED <<journal, units, file, stored, active, req, crashes>>

UploadStream(w) ==
    LET r == proc[w].at IN
    /\ Step(w, "listed", "uploaded")
    /\ stored' = [stored EXCEPT ![w][r] = file[w][r]]
    /\ UNCHANGED <<journal, units, file, playlist, active, req, crashes>>

SaveDelivered(w) ==
    LET r == proc[w].at IN
    /\ Open(w)
    /\ Step(w, "uploaded", "pick")
    /\ journal' = [journal EXCEPT ![w].delivered[r] = journal[w].prepared[r]]
    /\ UNCHANGED <<units, file, playlist, stored, active, req, crashes>>

\* Everything is delivered: the manifest is packaged, uploaded and recorded.
SavePreparedManifest(w) ==
    /\ Open(w)
    /\ \A r \in Renditions : journal[w].delivered[r] # Absent
    /\ IF journal[w].manifest = "delivered"
       THEN Step(w, "pick", "packaged") /\ UNCHANGED journal
       ELSE /\ Step(w, "pick", "manifest_ready")
            /\ journal' = [journal EXCEPT ![w].manifest = "prepared"]
    /\ UNCHANGED <<units, file, playlist, stored, active, req, crashes>>

SaveDeliveredManifest(w) ==
    /\ Open(w)
    /\ Step(w, "manifest_ready", "packaged")
    /\ journal' = [journal EXCEPT ![w].manifest = "delivered"]
    /\ UNCHANGED <<units, file, playlist, stored, active, req, crashes>>

\* The usage and the request's hash are computed, and Execute returns.
ExecuteReturns(w) ==
    /\ Step(w, "packaged", "ok")
    /\ UNCHANGED <<disk, active, req, crashes>>

\* Any step may fail, and any step that watches its context ends when cancelled;
\* what an interrupted encoding leaves behind is not a prepared file.
ExecuteFails(w, cause) ==
    /\ proc[w].pc \in Running
    /\ cause = "cancel" => active[w].cancelled
    /\ proc' = [proc EXCEPT ![w].pc = "error", ![w].cause = cause]
    /\ UNCHANGED <<disk, active, req, crashes>>

-----------------------------------------------------------------------------
(* run.                                                                      *)

\* Mutant: the context is not looked at.
Conclude_noContext(w) ==
    /\ proc[w].pc \in {"ok", "error"}
    /\ proc' = [proc EXCEPT ![w].pc = IF @ = "ok" THEN "result" ELSE "failure"]
    /\ UNCHANGED <<disk, active, req, crashes>>

\* ctx.Err()
Conclude(w) ==
    /\ proc[w].pc \in {"ok", "error"}
    /\ proc' = [proc EXCEPT ![w].pc = CASE active[w].cancelled -> "finish"
                                        [] @ = "ok" -> "result"
                                        [] OTHER -> "failure"]
    /\ UNCHANGED <<disk, active, req, crashes>>

recordTerminal(w, from, state) ==
    /\ Step(w, from, "notify")
    /\ Open(w)
    /\ journal' = [journal EXCEPT ![w].state = state]
    /\ units' = [units EXCEPT ![w] = CalculateFrameMegapixelUnits(journal[w].delivered)]
    /\ UNCHANGED <<file, playlist, stored, active, req, crashes>>

RecordTerminalResult(w) ==
    /\ journal[w].manifest = "delivered"
    /\ \A r \in Renditions : journal[w].delivered[r] # Absent
    /\ recordTerminal(w, "result", "succeeded")

RecordTerminalError(w) == recordTerminal(w, "failure", "failed")

\* The journal cannot be written: nobody is told and the workload stays open.
RecordFails(w) ==
    /\ proc[w].pc \in {"result", "failure"}
    /\ proc' = [proc EXCEPT ![w].pc = "finish"]
    /\ UNCHANGED <<disk, active, req, crashes>>

notify(w) ==
    /\ Step(w, "notify", "finish")
    /\ req' = Notified(w)
    /\ UNCHANGED <<disk, active, crashes>>

\* Mutant: the channels of the execution's subscribers stay open.
finish_noClose(w) ==
    /\ proc[w].pc = "finish"
    /\ proc' = [proc EXCEPT ![w] = NoProc]
    /\ active' = [active EXCEPT ![w] = NoExecution]
    /\ UNCHANGED <<disk, req, crashes>>

finish(w) ==
    /\ proc[w].pc = "finish"
    /\ proc' = [proc EXCEPT ![w] = NoProc]
    /\ req' = [q \in Requests |->
         IF q \in active[w].subs THEN [req[q] EXCEPT !.closed = TRUE] ELSE req[q]]
    /\ active' = [active EXCEPT ![w] = NoExecution]
    /\ UNCHANGED <<disk, crashes>>

-----------------------------------------------------------------------------
\* The process dies; a file that was never synced may be damaged.
Crash ==
    /\ crashes < MaxCrashes
    /\ crashes' = crashes + 1
    /\ active' = [w \in Workloads |-> NoExecution]
    /\ proc' = [w \in Workloads |-> NoProc]
    /\ req' = [q \in Requests |-> NoRequest]
    /\ file' \in {file, [w \in Workloads |-> Nothing]}
    /\ UNCHANGED <<journal, units, playlist, stored>>

Handler(q) ==
    \/ SubscribeTerminal(q)
    \/ SubscribeRefused(q)
    \/ SubscribeStart(q)
    \/ SubscribeAttach(q)
    \/ Wake(q)
    \/ Detach(q)
    \/ Answered(q)

\* What the goroutine does next, short of failing or reporting once more.
Proceed(w) ==
    \/ Progress(w) /\ proc[w].pc = "start" /\ proc'[w].pc = "pick"
    \/ \E r \in Renditions : PickPrepared(w, r) \/ \E p \in Pixels : encodeRendition(w, r, p)
    \/ SavePrepared(w)
    \/ UploadPlaylist(w)
    \/ UploadStream(w)
    \/ SaveDelivered(w)
    \/ SavePreparedManifest(w)
    \/ SaveDeliveredManifest(w)
    \/ ExecuteReturns(w)
    \/ Conclude(w)
    \/ RecordTerminalResult(w)
    \/ RecordTerminalError(w)
    \/ notify(w)
    \/ finish(w)

Next ==
    \/ \E q \in Requests : \/ \E w \in Workloads, h \in Hashes : Arrive(q, w, h)
                           \/ Handler(q)
                           \/ Leave(q)
    \/ \E w \in Workloads : \/ Proceed(w)
                            \/ Progress(w)
                            \/ \E cause \in {"real", "cancel"} : ExecuteFails(w, cause)
                            \/ RecordFails(w)
    \/ Crash

Spec == Init /\ [][Next]_vars

\* Goroutines that can run do run, and FFmpeg and the transfers come to an end.
FairSpec ==
    /\ Spec
    /\ \A q \in Requests : WF_vars(Handler(q))
    /\ \A w \in Workloads : WF_vars(Proceed(w))

-----------------------------------------------------------------------------
(* Properties.                                                               *)

Pcs == Running \cup {"none", "ok", "error", "result", "failure", "notify", "finish"}

\* The variables keep their types; an execution leaves nothing behind in the map.
TypeOK ==
    /\ journal \in [Workloads -> [state : {"none", "in_progress", "succeeded", "failed"},
                                  hash : Hashes, prepared : [Renditions -> Int],
                                  delivered : [Renditions -> Int],
                                  manifest : {"none", "prepared", "delivered"}]]
    /\ units \in [Workloads -> Nat]
    /\ \A disks \in {file, playlist, stored} : disks \in [Workloads -> [Renditions -> Int]]
    /\ active \in [Workloads -> [on : BOOLEAN, cancelled : BOOLEAN, subs : SUBSET Requests]]
    /\ \A w \in Workloads : ~active[w].on => active[w] = NoExecution
    /\ proc \in [Workloads -> [pc : Pcs, at : Renditions, cause : {"none", "real", "cancel"}]]
    /\ req \in [Requests -> [pc : {"idle", "subscribe", "conflict", "answered", "refused",
                                   "wait", "ended", "dropped"},
                             w : Workloads, note : BOOLEAN, closed : BOOLEAN]]
    /\ crashes \in Nat

\* What is billed is what was delivered: a delivered checkpoint names the stream
\* that is at its destination, and the playlist beside it is of the same
\* encoding, across crashes between the two uploads, damaged files and repeated
\* encodings; the usage of the terminal event is the usage of those objects.
BilledIsStored ==
    \A w \in Workloads :
        /\ \A r \in Renditions :
               journal[w].delivered[r] # Absent =>
                   stored[w][r] = journal[w].delivered[r] /\ playlist[w][r] = stored[w][r]
        /\ journal[w].state \in {"succeeded", "failed"} =>
               units[w] = CalculateFrameMegapixelUnits(journal[w].delivered)
        /\ journal[w].state = "succeeded" =>
               \A r \in Renditions : journal[w].delivered[r] # Absent

\* "Reloading the journal while holding the coordinator lock closes the race
\* between a terminal write and removal of the active execution": no execution
\* works on a workload that has ended, and none without its place and lease.
NoWorkAfterTerminal ==
    \A w \in Workloads :
        proc[w].pc \in Running \cup {"ok", "error", "result", "failure"} =>
            journal[w].state = "in_progress" /\ active[w].on

\* An execution that ended because its clients left fails nothing: the workload
\* stays resumable.
CancelIsNotFailure ==
    [][\A w \in Workloads :
         journal'[w].state = "failed" /\ journal[w].state # "failed" => proc[w].cause = "real"]_vars

\* A waiting client is always released, by the terminal event or by the end of
\* the execution: no wake-up is lost.
ClientReleased == \A q \in Requests : []<>(req[q].pc # "wait")
=============================================================================
