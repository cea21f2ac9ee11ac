-------------------------- MODULE AbrWorkloadProofs --------------------------
(***************************************************************************)
(* What the abr-runner bills is what it delivered, for any workloads,       *)
(* renditions, requests and crashes.                                        *)
(***************************************************************************)
EXTENDS AbrWorkload, TLAPS

Working == Running \cup {"ok", "error", "result", "failure"}

Records == [state : {"none", "in_progress", "succeeded", "failed"}, hash : Hashes,
            prepared : [Renditions -> Int], delivered : [Renditions -> Int],
            manifest : {"none", "prepared", "delivered"}]
Executions == [on : BOOLEAN, cancelled : BOOLEAN, subs : SUBSET Requests]
Procs == [pc : Pcs, at : Renditions, cause : {"none", "real", "cancel"}]
Connections == [pc : {"idle", "subscribe", "conflict", "answered", "refused", "wait",
                      "ended", "dropped"},
                w : Workloads, note : BOOLEAN, closed : BOOLEAN]

DiskShape ==
    /\ journal \in [Workloads -> Records]
    /\ DOMAIN units = Workloads
    /\ file \in [Workloads -> [Renditions -> Int]]
    /\ playlist \in [Workloads -> [Renditions -> Int]]
    /\ stored \in [Workloads -> [Renditions -> Int]]
Shape ==
    /\ DiskShape
    /\ active \in [Workloads -> Executions]
    /\ proc \in [Workloads -> Procs]
    /\ req \in [Requests -> Connections]

\* What the executor knows of the rendition it is at.
AtHand(w) ==
    LET r == proc[w].at IN
    /\ proc[w].pc \in {"encoded", "prepared", "listed", "uploaded"} =>
           journal[w].delivered[r] = Absent
    /\ proc[w].pc \in {"prepared", "listed", "uploaded"} => file[w][r] = journal[w].prepared[r]
    /\ proc[w].pc \in {"listed", "uploaded"} => playlist[w][r] = journal[w].prepared[r]
    /\ proc[w].pc = "uploaded" => stored[w][r] = journal[w].prepared[r]

Billed(w) ==
    /\ \A r \in Renditions :
           journal[w].delivered[r] # Absent =>
               stored[w][r] = journal[w].delivered[r] /\ playlist[w][r] = stored[w][r]
    /\ journal[w].state \in {"succeeded", "failed"} =>
           units[w] = CalculateFrameMegapixelUnits(journal[w].delivered)
    /\ journal[w].state = "succeeded" => \A r \in Renditions : journal[w].delivered[r] # Absent

Busy(w) == proc[w].pc \in Working => journal[w].state = "in_progress" /\ active[w].on

IInv == Shape /\ \A w \in Workloads : AtHand(w) /\ Billed(w) /\ Busy(w)

\* A connection that was woken is still a connection.
LEMMA WokenConnection ==
    ASSUME NEW c \in Connections, NEW pc \in {"ended", "dropped", "wait"}
    PROVE  [c EXCEPT !.note = FALSE, !.pc = pc] \in Connections
BY ZenonT(60) DEF Connections

\* A journal with another manifest step, or another state, is still a journal.
LEMMA RecordFields ==
    ASSUME NEW r \in Records,
           NEW m \in {"none", "prepared", "delivered"},
           NEW state \in {"none", "in_progress", "succeeded", "failed"}
    PROVE  [r EXCEPT !.manifest = m] \in Records /\ [r EXCEPT !.state = state] \in Records
BY DEF Records

\* An empty record of each kind has its type: the CHOOSEs of NoJournal, NoProc
\* and NoRequest pick members of sets that are not empty.
LEMMA EmptyTypes ==
    /\ NoJournal.hash \in Hashes
    /\ NoProc.at \in Renditions
    /\ NoRequest.w \in Workloads
BY AbrAssumption DEF NoJournal, NoProc, NoRequest

\* Every initial state satisfies the inductive invariant.
LEMMA InitInv == Init => IInv
<1> SUFFICES ASSUME Init PROVE IInv
  OBVIOUS
<1>1. Shape
  BY EmptyTypes DEF Init, Shape, DiskShape, Records, Executions, Procs, Connections,
                    NoJournal, NoProc, NoRequest, NoExecution, Nothing, Absent, Pcs
<1>2. ASSUME NEW w \in Workloads PROVE AtHand(w) /\ Billed(w) /\ Busy(w)
  BY <1>2 DEF Init, AtHand, Billed, Busy, NoJournal, NoProc, Nothing, Absent, Working, Running
<1> QED BY <1>1, <1>2 DEF IInv

\* Attaching a subscriber keeps the type of the map of executions.
LEMMA AttachShape ==
    ASSUME Shape, NEW q \in Requests, NEW w \in Workloads
    PROVE  Attach(q, w) \in [Workloads -> Executions]
<1>1. active[w].subs \cup {q} \in SUBSET Requests
  BY DEF Shape, Executions
<1> QED BY ZenonT(60), <1>1 DEF Shape, Executions, Attach

\* A step of the handlers: they change the journal only by creating it, and
\* start an execution only for a journal that is in progress.
LEMMA HandlerInv ==
    ASSUME IInv, NEW q \in Requests,
           \/ \E w \in Workloads, h \in Hashes : Arrive(q, w, h)
           \/ Handler(q)
           \/ Leave(q)
    PROVE  IInv'
<1> USE DEF IInv
<1>1. ASSUME NEW v \in Workloads, NEW h \in Hashes, Arrive(q, v, h) PROVE IInv'
  <2>1. Shape'
    <3>1. DiskShape'
      <4>1. Nothing \in [Renditions -> Int]
        BY DEF Nothing, Absent
      <4> QED BY ZenonT(60), <1>1, <4>1, EmptyTypes DEF Arrive, Shape, DiskShape, Records, NoJournal
    <3>2. req' \in [Requests -> Connections]
      BY ZenonT(60), <1>1, EmptyTypes DEF Arrive, Shape, Connections, NoRequest
    <3> QED BY ZenonT(60), <3>1, <3>2, <1>1 DEF Arrive, Shape
  <2>2. ASSUME NEW w \in Workloads PROVE (AtHand(w) /\ Billed(w) /\ Busy(w))'
    <3>1. CASE w = v /\ journal[v].state = "none"
      <4>1. journal'[w].delivered = Nothing /\ journal'[w].state = "in_progress"
        BY ZenonT(60), <1>1, <3>1 DEF Arrive, Shape, DiskShape, Records, NoJournal
      <4>2. proc[w].pc \notin Working
        BY SMTT(60), ZenonT(60), <3>1 DEF Busy
      <4>3. AtHand(w)'
        BY ZenonT(60), <4>2, <1>1 DEF Arrive, AtHand, Working, Running
      <4>4. Billed(w)'
        BY SMTT(60), ZenonT(60), <4>1 DEF Billed, Nothing, Absent
      <4>5. Busy(w)'
        BY ZenonT(60), <4>2, <1>1 DEF Arrive, Busy
      <4> QED BY <4>3, <4>4, <4>5
    <3>2. CASE ~(w = v /\ journal[v].state = "none")
      <4>1. journal'[w] = journal[w]
        BY ZenonT(60), <1>1, <3>2 DEF Arrive, Shape, DiskShape
      <4>2. AtHand(w)'
        BY ZenonT(60), <4>1, <1>1 DEF Arrive, AtHand
      <4>3. Billed(w)'
        BY ZenonT(60), <4>1, <1>1 DEF Arrive, Billed
      <4>4. Busy(w)'
        BY ZenonT(60), <4>1, <1>1 DEF Arrive, Busy
      <4> QED BY <4>2, <4>3, <4>4
    <3> QED BY <3>1, <3>2
  <2> QED BY <2>1, <2>2
<1>2. ASSUME SubscribeTerminal(q) \/ SubscribeRefused(q) \/ Wake(q) \/ Answered(q) \/ Leave(q)
      PROVE  IInv'
  <2>1. UNCHANGED <<journal, units, file, playlist, stored, active, proc>>
    BY <1>2 DEF SubscribeTerminal, SubscribeRefused, Wake, Answered, Leave, disk
  <2>2. req' \in [Requests -> Connections]
    <3>1. CASE Wake(q)
      <4> DEFINE pc == CASE journal[req[q].w].state # "in_progress" -> "ended"
                         [] ~req[q].note -> "dropped"
                         [] OTHER -> "wait"
      <4>1. pc \in {"ended", "dropped", "wait"}
        OBVIOUS
      <4>2. req' = [req EXCEPT ![q].note = FALSE, ![q].pc = pc]
        BY SMTT(60), ZenonT(60), <3>1 DEF Wake
      <4> HIDE DEF pc
      <4>3. [req[q] EXCEPT !.note = FALSE, !.pc = pc] \in Connections
        BY ZenonT(60), <4>1, WokenConnection DEF Shape
      <4> QED BY <4>2, <4>3 DEF Shape
    <3>2. CASE Answered(q)
      BY <3>2, EmptyTypes DEF Answered, Shape, Connections, NoRequest
    <3>3. CASE SubscribeTerminal(q) \/ SubscribeRefused(q) \/ Leave(q)
      <4>1. PICK pc \in {"answered", "refused", "dropped"} : req' = [req EXCEPT ![q].pc = pc]
        BY <3>3 DEF SubscribeTerminal, SubscribeRefused, Leave
      <4> QED BY <4>1 DEF Shape, Connections
    <3> QED BY <1>2, <3>1, <3>2, <3>3
  <2>3. Shape'
    BY <2>1, <2>2 DEF Shape, DiskShape
  <2> QED BY <2>1, <2>3 DEF Shape, AtHand, Billed, Busy
<1>3. CASE SubscribeStart(q)
  <2>1. Shape'
    <3>1. active' \in [Workloads -> Executions]
      BY <1>3, AttachShape DEF SubscribeStart, Shape, Connections
    <3>2. req' \in [Requests -> Connections]
      BY <1>3, EmptyTypes DEF SubscribeStart, Shape, Connections, NoRequest
    <3>3. proc' \in [Workloads -> Procs]
      BY ZenonT(60), <1>3 DEF SubscribeStart, Shape, Procs, Pcs, Running
    <3> QED BY <3>1, <3>2, <3>3, <1>3 DEF SubscribeStart, disk, Shape, DiskShape
  <2>2. ASSUME NEW w \in Workloads PROVE (AtHand(w) /\ Billed(w) /\ Busy(w))'
    <3>1. CASE w = req[q].w
      <4>1. proc'[w].pc = "start" /\ active'[w].on /\ journal[w].state = "in_progress"
        BY <1>3, <3>1 DEF SubscribeStart, Shape, Attach, Executions, Procs
      <4> QED BY <4>1, <1>3 DEF SubscribeStart, disk, AtHand, Billed, Busy
    <3>2. CASE w # req[q].w
      <4>1. proc'[w] = proc[w] /\ active'[w] = active[w]
        BY <1>3, <3>2 DEF SubscribeStart, Shape, Attach, Executions, Procs
      <4> QED BY <4>1, <1>3 DEF SubscribeStart, disk, AtHand, Billed, Busy
    <3> QED BY <3>1, <3>2
  <2> QED BY <2>1, <2>2
<1>4. CASE SubscribeAttach(q)
  <2>1. Shape'
    <3>1. active' \in [Workloads -> Executions]
      BY <1>4, AttachShape DEF SubscribeAttach, Shape, Connections
    <3>2. req' \in [Requests -> Connections]
      BY <1>4, EmptyTypes DEF SubscribeAttach, Shape, Connections, NoRequest
    <3> QED BY <3>1, <3>2, <1>4 DEF SubscribeAttach, disk, Shape, DiskShape
  <2>2. ASSUME NEW w \in Workloads PROVE (AtHand(w) /\ Billed(w) /\ Busy(w))'
    <3>1. active[w].on => active'[w].on
      BY <1>4 DEF SubscribeAttach, Shape, Attach, Executions
    <3> QED BY <3>1, <1>4 DEF SubscribeAttach, disk, AtHand, Billed, Busy
  <2> QED BY <2>1, <2>2
<1>5. CASE Detach(q)
  <2>1. Shape'
    <3>1. active' \in [Workloads -> Executions]
      <4> DEFINE v == req[q].w
                 subs == active[v].subs \ {q}
                 b == active[v].cancelled \/ subs = {}
      <4>1. b \in BOOLEAN /\ v \in Workloads
        BY DEF Shape, Connections
      <4>2. active' \in {active, [active EXCEPT ![v].subs = subs, ![v].cancelled = b]}
        BY <1>5 DEF Detach
      <4>3. subs \in SUBSET Requests
        BY <4>1 DEF Shape, Executions
      <4> HIDE DEF v, subs, b
      <4> QED BY <4>1, <4>2, <4>3 DEF Shape, Executions
    <3>2. req' \in [Requests -> Connections]
      BY SMTT(60), ZenonT(60), <1>5, EmptyTypes DEF Detach, Shape, Connections, NoRequest
    <3> QED BY <3>1, <3>2, <1>5 DEF Detach, disk, Shape, DiskShape
  <2>2. ASSUME NEW w \in Workloads PROVE (AtHand(w) /\ Billed(w) /\ Busy(w))'
    <3>1. active[w].on => active'[w].on
      BY <1>5 DEF Detach, Shape, Executions
    <3> QED BY ZenonT(60), <3>1, <1>5 DEF Detach, disk, AtHand, Billed, Busy
  <2> QED BY <2>1, <2>2
<1> QED BY <1>1, <1>2, <1>3, <1>4, <1>5 DEF Handler

\* A step of the execution of v leaves every other workload alone.
LEMMA Elsewhere ==
    ASSUME IInv, NEW w \in Workloads,
           journal'[w] = journal[w], units'[w] = units[w], file'[w] = file[w],
           playlist'[w] = playlist[w], stored'[w] = stored[w],
           active'[w] = active[w], proc'[w] = proc[w]
    PROVE  (AtHand(w) /\ Billed(w) /\ Busy(w))'
BY DEF IInv, AtHand, Billed, Busy

\* A notification keeps the type of the requests.
LEMMA NotifiedShape ==
    ASSUME Shape, NEW w \in Workloads
    PROVE  Notified(w) \in [Requests -> Connections]
<1>1. ASSUME NEW q \in Requests PROVE [req[q] EXCEPT !.note = TRUE] \in Connections
  BY ZenonT(60) DEF Shape, Connections
<1>2. ASSUME NEW q \in Requests PROVE req[q] \in Connections
  BY DEF Shape
<1> QED BY <1>1, <1>2 DEF Notified

\* Steps of an execution that write neither a checkpoint nor a file.
LEMMA QuietInv ==
    ASSUME IInv, NEW v \in Workloads,
           \/ Progress(v)
           \/ \E cause \in {"real", "cancel"} : ExecuteFails(v, cause)
           \/ ExecuteReturns(v)
           \/ Conclude(v)
           \/ RecordFails(v)
           \/ notify(v)
    PROVE  IInv'
<1> USE DEF IInv
<1>1. UNCHANGED <<journal, units, file, playlist, stored, active>>
  BY DEF Progress, ExecuteFails, ExecuteReturns, Conclude, RecordFails, notify, disk
<1>2. req' \in [Requests -> Connections]
  BY NotifiedShape DEF Progress, ExecuteFails, ExecuteReturns, Conclude, RecordFails, notify, Shape
<1>3. /\ proc' \in [Workloads -> Procs]
      /\ \A w \in Workloads \ {v} : proc'[w] = proc[w]
      /\ \/ proc'[v] = proc[v]
         \/ /\ proc'[v].pc \in {"pick", "ok", "error", "result", "failure"}
            /\ proc[v].pc \in Working
         \/ proc'[v].pc = "finish"
  <2>1. CASE Progress(v)
    BY <2>1 DEF Progress, Step, Shape, Procs, Pcs, Running, Working
  <2>2. CASE \E cause \in {"real", "cancel"} : ExecuteFails(v, cause)
    BY <2>2 DEF ExecuteFails, Shape, Procs, Pcs, Running, Working
  <2>3. CASE Conclude(v)
    BY SMTT(60), ZenonT(60), <2>3 DEF Conclude, Shape, Procs, Pcs, Running, Working
  <2>4. CASE RecordFails(v) \/ notify(v)
    BY <2>4 DEF RecordFails, notify, Step, Shape, Procs, Pcs, Running, Working
  <2>5. CASE ExecuteReturns(v)
    BY <2>5 DEF ExecuteReturns, Step, Shape, Procs, Pcs, Running, Working
  <2> QED BY <2>1, <2>2, <2>3, <2>4, <2>5
<1>4. Shape'
  BY <1>1, <1>2, <1>3 DEF Shape, DiskShape
<1>5. ASSUME NEW w \in Workloads PROVE (AtHand(w) /\ Billed(w) /\ Busy(w))'
  <2>1. CASE proc'[w] = proc[w]
    BY <2>1, <1>1, Elsewhere
  <2>2. CASE proc'[w] # proc[w]
    <3>1. Billed(w)'
      BY <1>1 DEF Billed
    <3>2. AtHand(w)'
      BY <1>3, <2>2 DEF AtHand
    <3>3. Busy(w)'
      BY <1>1, <1>3, <2>2 DEF Busy, Working, Running
    <3> QED BY <3>1, <3>2, <3>3
  <2> QED BY <2>1, <2>2
<1> QED BY <1>4, <1>5

\* The steps that take a rendition from its encoding to its delivery.
LEMMA RenditionInv ==
    ASSUME IInv, NEW v \in Workloads,
           \/ \E r \in Renditions : PickPrepared(v, r)
           \/ \E r \in Renditions, p \in Pixels : encodeRendition(v, r, p)
           \/ SavePrepared(v)
           \/ UploadPlaylist(v)
           \/ UploadStream(v)
           \/ SaveDelivered(v)
    PROVE  IInv'
<1> USE DEF IInv
<1>0. v \in Workloads /\ proc[v].at \in Renditions /\ Pixels \subseteq Int
  BY AbrAssumption DEF Shape, Procs
<1>1. CASE \E r \in Renditions : PickPrepared(v, r)
  <2>1. PICK r \in Renditions : PickPrepared(v, r)
    BY <1>1
  <2>2. /\ UNCHANGED <<journal, units, file, playlist, stored, active, req>>
        /\ proc' = [proc EXCEPT ![v].pc = "prepared", ![v].at = r]
    BY <2>1 DEF PickPrepared, disk
  <2>3. proc'[v].pc = "prepared" /\ proc'[v].at = r
    BY <2>2 DEF Shape, Procs
  <2>4. Shape'
    <3>1. proc' \in [Workloads -> Procs]
      BY ZenonT(60), <2>2 DEF Shape, Procs, Pcs, Running
    <3> QED BY <3>1, <2>2 DEF Shape, DiskShape
  <2>5. AtHand(v)' /\ Billed(v)' /\ Busy(v)'
    <3>1. AtHand(v)'
      BY <2>1, <2>2, <2>3 DEF PickPrepared, AtHand
    <3>2. Billed(v)'
      BY <2>2 DEF Billed
    <3>3. Busy(v)'
      BY <2>1, <2>2 DEF PickPrepared, Busy, Working, Running
    <3> QED BY <3>1, <3>2, <3>3
  <2>6. ASSUME NEW w \in Workloads \ {v} PROVE (AtHand(w) /\ Billed(w) /\ Busy(w))'
    BY <2>2, Elsewhere DEF Shape
  <2> QED BY <2>4, <2>5, <2>6
<1>2. CASE \E r \in Renditions, p \in Pixels : encodeRendition(v, r, p)
  <2>1. PICK r \in Renditions, p \in Pixels : encodeRendition(v, r, p)
    BY <1>2
  <2>2. /\ UNCHANGED <<journal, units, playlist, stored, active, req>>
        /\ file' = [file EXCEPT ![v][r] = p]
        /\ proc' = [proc EXCEPT ![v].pc = "encoded", ![v].at = r]
    BY <2>1 DEF encodeRendition
  <2>3. proc'[v].pc = "encoded" /\ proc'[v].at = r
    BY <2>2 DEF Shape, Procs
  <2>4. Shape'
    <3>1. file' \in [Workloads -> [Renditions -> Int]]
      BY <2>2, <1>0 DEF Shape, DiskShape
    <3>2. proc' \in [Workloads -> Procs]
      BY ZenonT(60), <2>2 DEF Shape, Procs, Pcs, Running
    <3> QED BY <3>1, <3>2, <2>2 DEF Shape, DiskShape
  <2>5. AtHand(v)' /\ Billed(v)' /\ Busy(v)'
    <3>1. AtHand(v)'
      BY <2>1, <2>2, <2>3 DEF encodeRendition, AtHand
    <3>2. Billed(v)'
      BY <2>2 DEF Billed
    <3>3. Busy(v)'
      BY <2>1, <2>2 DEF encodeRendition, Busy, Working, Running
    <3> QED BY <3>1, <3>2, <3>3
  <2>6. ASSUME NEW w \in Workloads \ {v} PROVE (AtHand(w) /\ Billed(w) /\ Busy(w))'
    BY <2>2, Elsewhere DEF Shape, DiskShape
  <2> QED BY <2>4, <2>5, <2>6
<1>3. CASE SavePrepared(v)
  <2> DEFINE r == proc[v].at
  <2>2. /\ UNCHANGED <<units, file, playlist, stored, active, req>>
        /\ journal' = [journal EXCEPT ![v].prepared[r] = file[v][r]]
        /\ proc' = [proc EXCEPT ![v].pc = "prepared"]
    BY <1>3 DEF SavePrepared, Step
  <2>3. proc'[v].pc = "prepared" /\ proc'[v].at = r /\ proc[v].pc = "encoded"
    BY <1>3, <2>2 DEF Shape, Procs, SavePrepared, Step
  <2>4. Shape'
    <3>1. journal' \in [Workloads -> Records]
      <4>1. journal[v] \in Records /\ file[v][r] \in Int
        BY <1>0 DEF Shape, DiskShape, Records
      <4>2. [journal[v].prepared EXCEPT ![r] = file[v][r]] \in [Renditions -> Int]
        BY <4>1, <1>0 DEF Records
      <4>3. [journal[v] EXCEPT !.prepared[r] = file[v][r]] \in Records
        BY <4>1, <4>2 DEF Records
      <4> QED BY <2>2, <4>3 DEF Shape, DiskShape
    <3>2. proc' \in [Workloads -> Procs]
      BY <2>2 DEF Shape, Procs, Pcs, Running
    <3> QED BY <3>1, <3>2, <2>2 DEF Shape, DiskShape
  <2>5. /\ journal'[v].prepared[r] = file[v][r]
        /\ journal'[v].delivered = journal[v].delivered
        /\ journal'[v].state = journal[v].state
    BY <2>2, <1>0 DEF Shape, DiskShape, Records
  <2>6. AtHand(v)' /\ Billed(v)' /\ Busy(v)'
    <3>1. AtHand(v)'
      BY <2>2, <2>3, <2>5 DEF AtHand
    <3>2. Billed(v)'
      BY <2>2, <2>5 DEF Billed
    <3>3. Busy(v)'
      BY <2>2, <2>3, <2>5 DEF Busy, Working, Running
    <3> QED BY <3>1, <3>2, <3>3
  <2>7. ASSUME NEW w \in Workloads \ {v} PROVE (AtHand(w) /\ Billed(w) /\ Busy(w))'
    BY <2>2, Elsewhere DEF Shape, DiskShape
  <2> QED BY <2>4, <2>6, <2>7
<1>4. CASE UploadPlaylist(v)
  <2> DEFINE r == proc[v].at
  <2>2. /\ UNCHANGED <<journal, units, file, stored, active, req>>
        /\ playlist' = [playlist EXCEPT ![v][r] = file[v][r]]
        /\ proc' = [proc EXCEPT ![v].pc = "listed"]
    BY <1>4 DEF UploadPlaylist, Step
  <2>3. proc'[v].pc = "listed" /\ proc'[v].at = r /\ proc[v].pc = "prepared"
    BY <1>4, <2>2 DEF Shape, Procs, UploadPlaylist, Step
  <2>4. Shape'
    <3>1. playlist' \in [Workloads -> [Renditions -> Int]]
      BY <2>2, <1>0 DEF Shape, DiskShape
    <3>2. proc' \in [Workloads -> Procs]
      BY ZenonT(60), <2>2 DEF Shape, Procs, Pcs, Running
    <3> QED BY <3>1, <3>2, <2>2 DEF Shape, DiskShape
  <2>5. /\ playlist'[v][r] = file[v][r]
        /\ \A x \in Renditions \ {r} : playlist'[v][x] = playlist[v][x]
    BY <2>2, <1>0 DEF Shape, DiskShape
  <2>6. AtHand(v)' /\ Billed(v)' /\ Busy(v)'
    <3>1. AtHand(v)'
      BY <2>2, <2>3, <2>5 DEF AtHand
    <3>2. Billed(v)'
      BY <2>2, <2>3, <2>5, <1>0 DEF Billed, AtHand
    <3>3. Busy(v)'
      BY <2>2, <2>3 DEF Busy, Working, Running
    <3> QED BY <3>1, <3>2, <3>3
  <2>7. ASSUME NEW w \in Workloads \ {v} PROVE (AtHand(w) /\ Billed(w) /\ Busy(w))'
    BY <2>2, Elsewhere DEF Shape, DiskShape
  <2> QED BY <2>4, <2>6, <2>7
<1>6. CASE UploadStream(v)
  <2> DEFINE r == proc[v].at
  <2>2. /\ UNCHANGED <<journal, units, file, playlist, active, req>>
        /\ stored' = [stored EXCEPT ![v][r] = file[v][r]]
        /\ proc' = [proc EXCEPT ![v].pc = "uploaded"]
    BY <1>6 DEF UploadStream, Step
  <2>3. proc'[v].pc = "uploaded" /\ proc'[v].at = r /\ proc[v].pc = "listed"
    BY <1>6, <2>2 DEF Shape, Procs, UploadStream, Step
  <2>4. Shape'
    <3>1. stored' \in [Workloads -> [Renditions -> Int]]
      BY <2>2, <1>0 DEF Shape, DiskShape
    <3>2. proc' \in [Workloads -> Procs]
      BY ZenonT(60), <2>2 DEF Shape, Procs, Pcs, Running
    <3> QED BY <3>1, <3>2, <2>2 DEF Shape, DiskShape
  <2>5. /\ stored'[v][r] = file[v][r]
        /\ \A x \in Renditions \ {r} : stored'[v][x] = stored[v][x]
    BY <2>2, <1>0 DEF Shape, DiskShape
  <2>6. AtHand(v)' /\ Billed(v)' /\ Busy(v)'
    <3>1. AtHand(v)'
      BY <2>2, <2>3, <2>5 DEF AtHand
    <3>2. Billed(v)'
      BY <2>2, <2>3, <2>5, <1>0 DEF Billed, AtHand
    <3>3. Busy(v)'
      BY <2>2, <2>3 DEF Busy, Working, Running
    <3> QED BY <3>1, <3>2, <3>3
  <2>7. ASSUME NEW w \in Workloads \ {v} PROVE (AtHand(w) /\ Billed(w) /\ Busy(w))'
    BY <2>2, Elsewhere DEF Shape, DiskShape
  <2> QED BY <2>4, <2>6, <2>7
<1>5. CASE SaveDelivered(v)
  <2> DEFINE r == proc[v].at
  <2>2. /\ UNCHANGED <<units, file, playlist, stored, active, req>>
        /\ journal' = [journal EXCEPT ![v].delivered[r] = journal[v].prepared[r]]
        /\ proc' = [proc EXCEPT ![v].pc = "pick"]
        /\ journal[v].state = "in_progress"
    BY <1>5 DEF SaveDelivered, Step, Open
  <2>3. proc'[v].pc = "pick" /\ proc[v].pc = "uploaded"
    BY <1>5, <2>2 DEF Shape, Procs, SaveDelivered, Step
  <2>4. Shape'
    <3>1. journal' \in [Workloads -> Records]
      <4>1. journal[v] \in Records /\ journal[v].prepared[r] \in Int
        BY <1>0 DEF Shape, DiskShape, Records
      <4>2. [journal[v].delivered EXCEPT ![r] = journal[v].prepared[r]] \in [Renditions -> Int]
        BY <4>1, <1>0 DEF Records
      <4>3. [journal[v] EXCEPT !.delivered[r] = journal[v].prepared[r]] \in Records
        BY <4>1, <4>2 DEF Records
      <4> QED BY <2>2, <4>3 DEF Shape, DiskShape
    <3>2. proc' \in [Workloads -> Procs]
      BY <2>2 DEF Shape, Procs, Pcs, Running
    <3> QED BY <3>1, <3>2, <2>2 DEF Shape, DiskShape
  <2>5. /\ journal'[v].delivered[r] = journal[v].prepared[r]
        /\ \A x \in Renditions \ {r} : journal'[v].delivered[x] = journal[v].delivered[x]
        /\ journal'[v].state = "in_progress"
    BY <2>2, <1>0 DEF Shape, DiskShape, Records
  <2>6. AtHand(v)' /\ Billed(v)' /\ Busy(v)'
    <3>1. AtHand(v)'
      BY ZenonT(60), <2>3 DEF AtHand
    <3>2. Billed(v)'
      BY <2>2, <2>3, <2>5, <1>0 DEF Billed, AtHand
    <3>3. Busy(v)'
      BY <2>2, <2>3, <2>5 DEF Busy, Working, Running
    <3> QED BY <3>1, <3>2, <3>3
  <2>7. ASSUME NEW w \in Workloads \ {v} PROVE (AtHand(w) /\ Billed(w) /\ Busy(w))'
    BY <2>2, Elsewhere DEF Shape, DiskShape
  <2> QED BY <2>4, <2>6, <2>7
<1> QED BY <1>1, <1>2, <1>3, <1>4, <1>5, <1>6

\* The manifest, the terminal record and the end of an execution.
LEMMA ConclusionInv ==
    ASSUME IInv, NEW v \in Workloads,
           \/ SavePreparedManifest(v)
           \/ SaveDeliveredManifest(v)
           \/ RecordTerminalResult(v)
           \/ RecordTerminalError(v)
           \/ finish(v)
    PROVE  IInv'
<1> USE DEF IInv
<1>1. CASE SavePreparedManifest(v) \/ SaveDeliveredManifest(v)
  <2>1. PICK m \in {"none", "prepared", "delivered"} :
            journal' = [journal EXCEPT ![v].manifest = m]
    BY <1>1 DEF SavePreparedManifest, SaveDeliveredManifest, Shape, DiskShape, Records
  <2>2. PICK to \in {"packaged", "manifest_ready"} : proc' = [proc EXCEPT ![v].pc = to]
    BY <1>1 DEF SavePreparedManifest, SaveDeliveredManifest, Step
  <2>3. UNCHANGED <<units, file, playlist, stored, active, req>> /\ journal[v].state = "in_progress"
        /\ proc[v].pc \in {"pick", "manifest_ready"}
    BY <1>1 DEF SavePreparedManifest, SaveDeliveredManifest, Open, Step
  <2>4. Shape'
    <3>a. journal[v] \in Records
      BY DEF Shape, DiskShape
    <3>0. [journal[v] EXCEPT !.manifest = m] \in Records
      BY ZenonT(60), <3>a, RecordFields
    <3>1. journal' \in [Workloads -> Records]
      BY <3>0, <2>1 DEF Shape, DiskShape
    <3>2. proc' \in [Workloads -> Procs]
      BY <2>2 DEF Shape, Procs, Pcs, Running
    <3> QED BY <3>1, <3>2, <2>3 DEF Shape, DiskShape
  <2>5. /\ journal'[v].delivered = journal[v].delivered
        /\ journal'[v].state = "in_progress"
        /\ proc'[v].pc = to
    BY <2>1, <2>2, <2>3 DEF Shape, DiskShape, Records, Procs
  <2>6. AtHand(v)' /\ Billed(v)' /\ Busy(v)'
    <3>1. AtHand(v)'
      BY <2>5 DEF AtHand
    <3>2. Billed(v)'
      BY <2>3, <2>5 DEF Billed
    <3>3. Busy(v)'
      BY <2>3, <2>5 DEF Busy, Working, Running
    <3> QED BY <3>1, <3>2, <3>3
  <2>7. ASSUME NEW w \in Workloads \ {v} PROVE (AtHand(w) /\ Billed(w) /\ Busy(w))'
    BY <2>1, <2>2, <2>3, Elsewhere DEF Shape, DiskShape
  <2> QED BY <2>4, <2>6, <2>7
<1>2. CASE RecordTerminalResult(v) \/ RecordTerminalError(v)
  <2>1. PICK state \in {"succeeded", "failed"} :
            /\ journal' = [journal EXCEPT ![v].state = state]
            /\ state = "succeeded" => \A r \in Renditions : journal[v].delivered[r] # Absent
    BY <1>2 DEF RecordTerminalResult, RecordTerminalError, recordTerminal
  <2>2. /\ units' = [units EXCEPT ![v] = CalculateFrameMegapixelUnits(journal[v].delivered)]
        /\ proc' = [proc EXCEPT ![v].pc = "notify"]
        /\ UNCHANGED <<file, playlist, stored, active, req>>
    BY <1>2 DEF RecordTerminalResult, RecordTerminalError, recordTerminal, Step
  <2>3. Shape'
    <3>a. journal[v] \in Records
      BY DEF Shape, DiskShape
    <3>0. [journal[v] EXCEPT !.state = state] \in Records
      BY ZenonT(60), <3>a, RecordFields
    <3>1. journal' \in [Workloads -> Records]
      BY <3>0, <2>1 DEF Shape, DiskShape
    <3>2. proc' \in [Workloads -> Procs]
      BY <2>2 DEF Shape, Procs, Pcs
    <3>3. DOMAIN units' = Workloads
      BY <2>2 DEF Shape, DiskShape
    <3> QED BY <3>1, <3>2, <3>3, <2>2 DEF Shape, DiskShape
  <2>4. /\ journal'[v].delivered = journal[v].delivered
        /\ journal'[v].state = state
        /\ proc'[v].pc = "notify"
    BY <2>1, <2>2 DEF Shape, DiskShape, Records, Procs
  <2>5. units'[v] = CalculateFrameMegapixelUnits(journal[v].delivered)
    BY <2>2 DEF Shape, DiskShape
  <2>6. AtHand(v)' /\ Billed(v)' /\ Busy(v)'
    <3>1. AtHand(v)'
      BY <2>4 DEF AtHand
    <3>2. Billed(v)'
      BY <2>1, <2>2, <2>4, <2>5 DEF Billed
    <3>3. Busy(v)'
      BY <2>4 DEF Busy, Working, Running
    <3> QED BY <3>1, <3>2, <3>3
  <2>7. ASSUME NEW w \in Workloads \ {v} PROVE (AtHand(w) /\ Billed(w) /\ Busy(w))'
    BY <2>1, <2>2, Elsewhere DEF Shape, DiskShape
  <2> QED BY <2>3, <2>6, <2>7
<1>3. CASE finish(v)
  <2>1. /\ proc' = [proc EXCEPT ![v] = NoProc]
        /\ active' = [active EXCEPT ![v] = NoExecution]
        /\ UNCHANGED <<journal, units, file, playlist, stored>>
    BY <1>3 DEF finish, disk
  <2>2. Shape'
    <3>1. proc' \in [Workloads -> Procs]
      BY <2>1, EmptyTypes DEF Shape, Procs, Pcs, NoProc
    <3>2. active' \in [Workloads -> Executions]
      BY <2>1 DEF Shape, Executions, NoExecution
    <3>3. req' \in [Requests -> Connections]
      <4>1. ASSUME NEW q \in Requests
            PROVE  req[q] \in Connections /\ [req[q] EXCEPT !.closed = TRUE] \in Connections
        BY ZenonT(60) DEF Shape, Connections
      <4> QED BY <1>3, <4>1 DEF finish
    <3> QED BY <2>1, <3>1, <3>2, <3>3 DEF Shape, DiskShape
  <2>3. proc'[v].pc = "none"
    BY <2>1 DEF Shape, NoProc
  <2>4. AtHand(v)' /\ Billed(v)' /\ Busy(v)'
    <3>1. AtHand(v)'
      BY <2>3 DEF AtHand
    <3>2. Billed(v)'
      BY <2>1 DEF Billed
    <3>3. Busy(v)'
      BY <2>3 DEF Busy, Working, Running
    <3> QED BY <3>1, <3>2, <3>3
  <2>5. ASSUME NEW w \in Workloads \ {v} PROVE (AtHand(w) /\ Billed(w) /\ Busy(w))'
    BY <2>1, Elsewhere DEF Shape
  <2> QED BY <2>2, <2>4, <2>5
<1> QED BY <1>1, <1>2, <1>3

\* A crash keeps the journal and the delivered objects and ends every execution.
LEMMA CrashInv == ASSUME IInv, Crash PROVE IInv'
<1> USE DEF IInv
<1>1. Shape'
  <2>1. file' \in [Workloads -> [Renditions -> Int]]
    BY DEF Crash, Shape, DiskShape, Nothing, Absent
  <2>2. active' \in [Workloads -> Executions]
    BY DEF Crash, Executions, NoExecution
  <2>3. proc' \in [Workloads -> Procs]
    BY EmptyTypes DEF Crash, Procs, Pcs, NoProc
  <2>4. req' \in [Requests -> Connections]
    BY EmptyTypes DEF Crash, Connections, NoRequest
  <2> QED BY <2>1, <2>2, <2>3, <2>4 DEF Crash, Shape, DiskShape
<1>2. ASSUME NEW w \in Workloads PROVE (AtHand(w) /\ Billed(w) /\ Busy(w))'
  <2>1. proc'[w].pc = "none"
    BY DEF Crash, NoProc
  <2>2. AtHand(w)'
    BY <2>1 DEF AtHand
  <2>3. Billed(w)'
    BY DEF Crash, Billed
  <2>4. Busy(w)'
    BY <2>1 DEF Busy, Working, Running
  <2> QED BY <2>2, <2>3, <2>4
<1> QED BY <1>1, <1>2

\* The invariant is inductive.
LEMMA NextInv == ASSUME IInv, [Next]_vars PROVE IInv'
<1>1. CASE UNCHANGED vars
  BY <1>1 DEF IInv, Shape, DiskShape, AtHand, Billed, Busy, vars
<1>2. CASE Next
  <2>1. ASSUME NEW q \in Requests,
               \/ \E w \in Workloads, h \in Hashes : Arrive(q, w, h)
               \/ Handler(q)
               \/ Leave(q)
        PROVE  IInv'
    BY <2>1, HandlerInv
  <2>2. ASSUME NEW v \in Workloads, Proceed(v) PROVE IInv'
    BY <2>2, QuietInv, RenditionInv, ConclusionInv DEF Proceed
  <2>3. ASSUME NEW v \in Workloads,
               \/ Progress(v)
               \/ \E cause \in {"real", "cancel"} : ExecuteFails(v, cause)
               \/ RecordFails(v)
        PROVE  IInv'
    BY <2>3, QuietInv
  <2>4. CASE Crash
    BY <2>4, CrashInv
  <2> QED BY <1>2, <2>1, <2>2, <2>3, <2>4 DEF Next
<1> QED BY ZenonT(60), <1>1, <1>2

\* IInv holds in every reachable state.
LEMMA Invariance == Spec => []IInv
BY InitInv, NextInv, PTL DEF Spec

\* For any number of workloads, renditions, requests and crashes, a delivered
\* checkpoint (SaveDelivered) names the object at its destination and the usage
\* of a terminal event (recordTerminal) is that of the delivered checkpoints.
THEOREM BillingSound == Spec => []BilledIsStored
<1>1. IInv => BilledIsStored
  BY DEF IInv, Billed, BilledIsStored
<1> QED BY <1>1, Invariance, PTL

\* No execution works on a workload whose journal has ended, nor outside the
\* coordinator's map: the reload in Subscribe closes that race.
THEOREM TerminalEndsWork == Spec => []NoWorkAfterTerminal
<1>1. IInv => NoWorkAfterTerminal
  BY DEF IInv, Busy, Working, NoWorkAfterTerminal
<1> QED BY <1>1, Invariance, PTL

-----------------------------------------------------------------------------
(* Cancellation.  That a failure was a real one is known two steps before it  *)
(* is recorded: an execution that ended because its clients left was          *)
(* cancelled, and stays so until it is gone.                                  *)

CauseKnown(w) ==
    /\ proc[w].pc = "error" => \/ proc[w].cause = "real"
                               \/ proc[w].cause = "cancel" /\ active[w].cancelled
    /\ proc[w].pc = "failure" => proc[w].cause = "real"

CauseInv == \A w \in Workloads : CauseKnown(w)

FailsForReal ==
    \A w \in Workloads :
       journal'[w].state = "failed" /\ journal[w].state # "failed" => proc[w].cause = "real"

\* A handler starts or ends no cancellation that an execution has seen.
LEMMA HandlerCause ==
    ASSUME IInv, CauseInv, NEW q \in Requests,
           \/ \E w \in Workloads, h \in Hashes : Arrive(q, w, h)
           \/ Handler(q)
           \/ Leave(q)
    PROVE  CauseInv'
<1>0. Shape
  BY DEF IInv
<1>1. ASSUME NEW w \in Workloads,
             proc'[w] = proc[w], active[w].cancelled => active'[w].cancelled
      PROVE  CauseKnown(w)'
  BY <1>1 DEF CauseInv, CauseKnown
<1>2. CASE UNCHANGED <<active, proc>>
  BY <1>1, <1>2 DEF CauseInv
<1>3. CASE SubscribeStart(q)
  <2>1. PICK v \in Workloads : v = req[q].w
    BY <1>0 DEF Shape, Connections
  <2>2. /\ proc' = [proc EXCEPT ![v].pc = "start"]
        /\ active' = [active EXCEPT ![v].on = TRUE, ![v].subs = @ \cup {q}]
    BY ZenonT(60), <1>3, <2>1 DEF SubscribeStart, Attach
  <2>3. proc'[v].pc = "start" /\ \A w \in Workloads \ {v} : proc'[w] = proc[w]
    BY <1>0, <2>1, <2>2 DEF Shape, Procs
  <2>4. \A w \in Workloads \ {v} : active'[w] = active[w]
    BY <1>0, <2>1, <2>2 DEF Shape
  <2>5. CauseKnown(v)'
    BY SMTT(60), ZenonT(60), <2>3 DEF CauseKnown
  <2> QED BY <1>1, <2>3, <2>4, <2>5 DEF CauseInv
<1>4. CASE SubscribeAttach(q)
  <2> DEFINE v == req[q].w
             subs == active[v].subs \cup {q}
  <2>1. /\ active' = [active EXCEPT ![v].on = TRUE, ![v].subs = subs]
        /\ UNCHANGED proc
    BY ZenonT(60), <1>4 DEF SubscribeAttach, Attach
  <2> HIDE DEF subs, v
  <2>2. ASSUME NEW w \in Workloads PROVE active[w].cancelled => active'[w].cancelled
    BY <1>0, <2>1 DEF Shape, Executions
  <2> QED BY ZenonT(60), <1>1, <2>1, <2>2 DEF CauseInv
<1>5. CASE Detach(q)
  <2> DEFINE v == req[q].w
             subs == active[v].subs \ {q}
  <2>1. /\ \/ UNCHANGED active
           \/ active' = [active EXCEPT ![v].subs = subs, ![v].cancelled = @ \/ subs = {}]
        /\ UNCHANGED proc
    BY ZenonT(60), <1>5 DEF Detach
  <2> HIDE DEF subs, v
  <2>2. ASSUME NEW w \in Workloads PROVE active[w].cancelled => active'[w].cancelled
    BY <1>0, <2>1 DEF Shape, Executions
  <2> QED BY ZenonT(60), <1>1, <2>1, <2>2 DEF CauseInv
<1> QED BY ZenonT(60), <1>2, <1>3, <1>4, <1>5 DEF Handler, Arrive, Leave, SubscribeTerminal,
           SubscribeRefused, Wake, Answered

\* An execution reports a failure only after it has looked at its context.
LEMMA ExecutionCause ==
    ASSUME IInv, CauseInv, NEW v \in Workloads,
           \/ Proceed(v)
           \/ Progress(v)
           \/ \E cause \in {"real", "cancel"} : ExecuteFails(v, cause)
           \/ RecordFails(v)
    PROVE  CauseInv'
<1>0. Shape
  BY DEF IInv
<1>1. ASSUME NEW w \in Workloads, proc'[w] = proc[w], active'[w] = active[w]
      PROVE  CauseKnown(w)'
  BY <1>1 DEF CauseInv, CauseKnown
<1>2. ASSUME \A w \in Workloads \ {v} : proc'[w] = proc[w] /\ active'[w] = active[w],
             CauseKnown(v)'
      PROVE  CauseInv'
  BY <1>1, <1>2 DEF CauseInv
<1>3. ASSUME NEW pc, pc \notin {"error", "failure"}, proc' = [proc EXCEPT ![v].pc = pc],
             UNCHANGED active
      PROVE  CauseInv'
  <2>1. proc'[v].pc = pc
    BY <1>0, <1>3 DEF Shape, Procs
  <2>2. CauseKnown(v)'
    BY <1>3, <2>1 DEF CauseKnown
  <2> QED BY <1>0, <1>2, <1>3, <2>2 DEF Shape
<1>4. CASE UNCHANGED <<proc, active>>
  BY <1>1, <1>4 DEF CauseInv
<1>5. ASSUME NEW r \in Renditions,
             PickPrepared(v, r) \/ \E p \in Pixels : encodeRendition(v, r, p)
      PROVE  CauseInv'
  <2>1. PICK pc \in {"prepared", "encoded"} : proc' = [proc EXCEPT ![v].pc = pc, ![v].at = r]
    BY <1>5 DEF PickPrepared, encodeRendition
  <2>2. proc'[v].pc = pc /\ UNCHANGED active
    BY <1>0, <1>5, <2>1 DEF PickPrepared, encodeRendition, Shape, Procs
  <2>3. CauseKnown(v)'
    BY <2>2 DEF CauseKnown
  <2> QED BY <1>0, <1>2, <2>1, <2>2, <2>3 DEF Shape
<1>6. ASSUME NEW cause \in {"real", "cancel"}, ExecuteFails(v, cause) PROVE CauseInv'
  <2>1. /\ proc'[v].pc = "error" /\ proc'[v].cause = cause
        /\ UNCHANGED active /\ (cause = "cancel" => active[v].cancelled)
        /\ \A w \in Workloads \ {v} : proc'[w] = proc[w]
    BY <1>0, <1>6 DEF ExecuteFails, Shape, Procs
  <2>2. CauseKnown(v)'
    BY <2>1 DEF CauseKnown
  <2> QED BY <1>2, <2>1, <2>2
<1>7. CASE Conclude(v)
  <2>1. /\ proc'[v].pc \in {"finish", "result", "failure"}
        /\ proc'[v].pc = "failure" => proc[v].pc = "error" /\ ~active[v].cancelled
        /\ proc'[v].cause = proc[v].cause
        /\ UNCHANGED active
        /\ \A w \in Workloads \ {v} : proc'[w] = proc[w]
    BY <1>0, <1>7 DEF Conclude, Shape, Procs
  <2>2. CauseKnown(v)'
    BY <2>1 DEF CauseInv, CauseKnown
  <2> QED BY <1>2, <2>1, <2>2
<1>8. CASE finish(v)
  <2>1. /\ proc'[v].pc = "none"
        /\ \A w \in Workloads \ {v} : proc'[w] = proc[w] /\ active'[w] = active[w]
    BY <1>0, <1>8 DEF finish, NoProc, Shape
  <2>2. CauseKnown(v)'
    BY <2>1 DEF CauseKnown
  <2> QED BY <1>2, <2>1, <2>2
<1>9. CASE \/ Progress(v) \/ SavePrepared(v) \/ UploadPlaylist(v)
           \/ UploadStream(v) \/ SaveDelivered(v)
           \/ SavePreparedManifest(v) \/ SaveDeliveredManifest(v)
           \/ RecordTerminalResult(v) \/ RecordTerminalError(v)
           \/ ExecuteReturns(v) \/ notify(v) \/ RecordFails(v)
  <2>1. UNCHANGED active
    BY ZenonT(60), <1>9 DEF Progress, SavePrepared, UploadPlaylist, UploadStream,
       SaveDelivered, SavePreparedManifest,
       SaveDeliveredManifest, RecordTerminalResult, RecordTerminalError, recordTerminal,
       ExecuteReturns, notify, RecordFails
  <2>2. \/ UNCHANGED proc
        \/ \E pc \in {"pick", "prepared", "listed", "uploaded", "packaged", "ok",
                      "manifest_ready", "notify", "finish"} : proc' = [proc EXCEPT ![v].pc = pc]
    BY ZenonT(60), <1>9 DEF Progress, SavePrepared, UploadPlaylist, UploadStream,
       SaveDelivered, SavePreparedManifest,
       SaveDeliveredManifest, RecordTerminalResult, RecordTerminalError, recordTerminal,
       ExecuteReturns, notify, RecordFails, Step
  <2> QED BY <1>3, <1>4, <2>1, <2>2
<1> QED BY <1>5, <1>6, <1>7, <1>8, <1>9 DEF Proceed

\* The journal of a workload fails only where run records a real failure.
LEMMA FailureRecorded == ASSUME IInv, CauseInv, [Next]_vars PROVE FailsForReal
<1>0. Shape
  BY DEF IInv
<1> SUFFICES ASSUME NEW w \in Workloads, journal'[w].state = "failed",
                    journal[w].state # "failed"
             PROVE  proc[w].cause = "real"
  BY DEF FailsForReal
<1>1. ASSUME NEW v \in Workloads, RecordTerminalError(v) PROVE proc[w].cause = "real"
  <2>1. w = v
    BY <1>0, <1>1 DEF RecordTerminalError, recordTerminal, Shape, DiskShape, Records
  <2> QED BY <1>1, <2>1 DEF RecordTerminalError, recordTerminal, Step, CauseInv, CauseKnown
<1>2. ASSUME NEW v \in Workloads, RecordTerminalResult(v) PROVE FALSE
  BY <1>0, <1>2 DEF RecordTerminalResult, recordTerminal, Shape, DiskShape, Records
<1>3. ASSUME NEW v \in Workloads,
             \/ SavePrepared(v) \/ SaveDelivered(v)
             \/ SavePreparedManifest(v) \/ SaveDeliveredManifest(v)
      PROVE  FALSE
  <2>1. CASE SavePrepared(v)
    BY <1>0, <2>1 DEF SavePrepared, Shape, DiskShape, Records
  <2>2. CASE SaveDelivered(v)
    BY <1>0, <2>2 DEF SaveDelivered, Shape, DiskShape, Records
  <2>3. CASE SavePreparedManifest(v) \/ SaveDeliveredManifest(v)
    BY <1>0, <2>3 DEF SavePreparedManifest, SaveDeliveredManifest, Shape, DiskShape, Records
  <2> QED BY <1>3, <2>1, <2>2, <2>3
<1>4. ASSUME NEW q \in Requests, NEW v \in Workloads, NEW h \in Hashes, Arrive(q, v, h)
      PROVE  FALSE
  <2> DEFINE row == [NoJournal EXCEPT !.state = "in_progress", !.hash = h]
  <2>1. row.state = "in_progress"
    BY DEF NoJournal
  <2>2. journal' = journal \/ journal' = [journal EXCEPT ![v] = row]
    BY <1>4 DEF Arrive
  <2> HIDE DEF row
  <2> QED BY SMTT(60), ZenonT(60), <1>0, <2>1, <2>2 DEF Shape, DiskShape
<1>5. journal' # journal
  OBVIOUS
<1>6. ASSUME NEW q \in Requests, Handler(q) \/ Leave(q) PROVE FALSE
  BY ZenonT(60), <1>5, <1>6 DEF Handler, Leave, SubscribeTerminal, SubscribeRefused, SubscribeStart,
     SubscribeAttach, Wake, Detach, Answered, disk
<1>7. ASSUME NEW v \in Workloads,
             \/ Progress(v) \/ \E cause \in {"real", "cancel"} : ExecuteFails(v, cause)
             \/ RecordFails(v) \/ ExecuteReturns(v) \/ Conclude(v)
             \/ UploadPlaylist(v) \/ UploadStream(v) \/ notify(v) \/ finish(v)
             \/ \E r \in Renditions : \/ PickPrepared(v, r)
                                      \/ \E p \in Pixels : encodeRendition(v, r, p)
      PROVE  FALSE
  BY <1>5, <1>7 DEF Progress, ExecuteFails, RecordFails, ExecuteReturns, Conclude,
     UploadPlaylist, UploadStream, notify, finish,
     PickPrepared, encodeRendition, disk
<1>8. ~Crash /\ ~UNCHANGED vars
  BY <1>5 DEF Crash, vars
<1> QED BY <1>1, <1>2, <1>3, <1>4, <1>6, <1>7, <1>8 DEF Next, Proceed

\* A workload is recorded as failed only for an error that was not the departure
\* of its clients (the ctx.Err() check in run).
THEOREM FailuresAreReal == Spec => CancelIsNotFailure
<1>1. Init => CauseInv
  BY DEF Init, CauseInv, CauseKnown, NoProc
<1>2. ASSUME IInv, CauseInv, [Next]_vars PROVE CauseInv'
  <2>1. CASE Crash
    BY <2>1 DEF Crash, CauseInv, CauseKnown, NoProc
  <2>2. CASE UNCHANGED vars
    BY <1>2, <2>2 DEF vars, CauseInv, CauseKnown
  <2> QED BY <1>2, <2>1, <2>2, HandlerCause, ExecutionCause DEF Next
<1>3. ASSUME IInv, CauseInv, [Next]_vars PROVE [FailsForReal]_vars
  BY <1>3, FailureRecorded
<1> QED
  BY <1>1, <1>2, <1>3, Invariance, PTL DEF Spec, CancelIsNotFailure, FailsForReal
=============================================================================
