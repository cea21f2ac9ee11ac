---------------------------- MODULE RunnerProofs ----------------------------
(***************************************************************************)
(* Proofs about the runners' use of the GPU: the admission gate             *)
(* (GpuAdmission) for any workloads in any processes, and the live runner   *)
(* that takes its leases (LiveRuntime) for any finite set of sessions.      *)
(*                                                                          *)
(* The gate leaves no lock behind and implements GpuLease.  The argument is *)
(* that of the code's comments: admission is serialized by the mutex, so    *)
(* that the opposing cohort, once probed empty, stays empty until the own   *)
(* lock is taken (ProbeHolds).                                              *)
(*                                                                          *)
(* The live runner takes and gives back a capacity token and a lease with   *)
(* every runtime, and starts none for a session that ended: the handlers of *)
(* a session exclude each other by its lock (CreateOK, TermOK), so that     *)
(* what a handler read under the lock holds until it gives the lock up.     *)
(***************************************************************************)
EXTENDS GpuAdmission, LiveRuntime, FiniteSetTheorems, TLAPS

-----------------------------------------------------------------------------
(* The gate.                                                                 *)

Admitting(w) == pc[w] \notin {"idle", "mutex", "held"}
Leased(w) == pc[w] \in {"granted", "held"}

\* One caller at a time is inside Acquire.
Serialized == \A v, w \in Workloads : Admitting(v) /\ Admitting(w) => v = w

\* The cohort files are locked exclusively only by the probe in progress.
ProbesOnly ==
    \A c \in {"live", "batch"} :
        ex[c] = {w \in Workloads : pc[w] = "unprobe" /\ Opposing(w) = c}

\* What the probe found is still true when the own lock is taken.
ProbeHolds ==
    \A v, w \in Workloads : pc[w] \in {"unprobe", "own"} /\ Leased(v) =>
        Cohort[v] = Cohort[w]

OneCohort == \A v, w \in Workloads : Leased(v) /\ Leased(w) => Cohort[v] = Cohort[w]

GateInv ==
    /\ GateTypeOK
    /\ NothingStranded
    /\ sh["mutex"] = {}
    /\ Serialized
    /\ ProbesOnly
    /\ ProbeHolds
    /\ OneCohort

\* At first nobody holds a lock.
LEMMA GateInitInv == GateInit => GateInv
BY DEF GateInit, GateInv, GateTypeOK, NothingStranded, Serialized, ProbesOnly, ProbeHolds, OneCohort,
   Admitting, Leased, Files

\* The opposing file is the other cohort's.
LEMMA OpposingCohort ==
    \A w \in Workloads : /\ Cohort[w] \in {"live", "batch"}
                         /\ Opposing(w) \in {"live", "batch"}
                         /\ Opposing(w) # Cohort[w]
BY CohortAssumption DEF Opposing

\* Every step keeps the invariant.
LEMMA GateNextInv == GateInv /\ [GateNext]_gateVars => GateInv'
<1> SUFFICES ASSUME GateInv, [GateNext]_gateVars PROVE GateInv'
  OBVIOUS
<1> USE OpposingCohort DEF GateInv, GateTypeOK, Files
<1>1. ASSUME NEW w \in Workloads, Call(w) \/ MutexError(w) PROVE GateInv'
  BY <1>1 DEF Call, MutexError, NothingStranded, Serialized, ProbesOnly, ProbeHolds, OneCohort,
     Admitting, Leased, Opposing
<1>2. ASSUME NEW w \in Workloads, LockMutex(w) PROVE GateInv'
  BY <1>2 DEF LockMutex, ExclusiveFree, NothingStranded, Serialized, ProbesOnly, ProbeHolds,
     OneCohort, Admitting, Leased, Opposing
<1>3. ASSUME NEW w \in Workloads, ProbeOpposing(w) PROVE GateInv'
  BY <1>3 DEF ProbeOpposing, ExclusiveFree, NothingStranded, Serialized, ProbesOnly, ProbeHolds,
     OneCohort, Admitting, Leased, Opposing
<1>4. ASSUME NEW w \in Workloads, DropProbe(w) PROVE GateInv'
  BY <1>4 DEF DropProbe, NothingStranded, Serialized, ProbesOnly, ProbeHolds,
     OneCohort, Admitting, Leased, Opposing
<1>5. ASSUME NEW w \in Workloads, TakeOwn(w) PROVE GateInv'
  BY <1>5 DEF TakeOwn, SharedFree, NothingStranded, Serialized, ProbesOnly, ProbeHolds,
     OneCohort, Admitting, Leased, Opposing
<1>6. ASSUME NEW w \in Workloads, SystemError(w) PROVE GateInv'
  BY <1>6 DEF SystemError, NothingStranded, Serialized, ProbesOnly, ProbeHolds,
     OneCohort, Admitting, Leased, Opposing
<1>7. ASSUME NEW w \in Workloads, UnlockMutex(w) PROVE GateInv'
  BY <1>7 DEF UnlockMutex, NothingStranded, Serialized, ProbesOnly, ProbeHolds,
     OneCohort, Admitting, Leased, Opposing
<1>8. ASSUME NEW w \in Workloads, Close(w) PROVE GateInv'
  BY <1>8 DEF Close, NothingStranded, Serialized, ProbesOnly, ProbeHolds,
     OneCohort, Admitting, Leased, Opposing
<1>9. ASSUME NEW p \in Processes, ProcessDies(p) PROVE GateInv'
  BY <1>9 DEF ProcessDies, NothingStranded, Serialized, ProbesOnly, ProbeHolds,
     OneCohort, Admitting, Leased, Opposing
<1>10. ASSUME UNCHANGED gateVars PROVE GateInv'
  BY <1>10 DEF gateVars, NothingStranded, Serialized, ProbesOnly, ProbeHolds,
     OneCohort, Admitting, Leased, Opposing
<1> QED
  BY <1>1, <1>2, <1>3, <1>4, <1>5, <1>6, <1>7, <1>8, <1>9, <1>10 DEF GateNext, Acquire

\* The invariant holds in every reachable state.
THEOREM GateInvariance == GateSpec => []GateInv
BY GateInitInv, GateNextInv, PTL DEF GateSpec

\* The locks on the cohort files and the mutex are those of callers that were
\* granted a lease or are inside Acquire, whatever failed or crashed before.
THEOREM NoLockStranded == GateSpec => []NothingStranded
<1>1. GateInv => NothingStranded
  BY DEF GateInv
<1> QED BY <1>1, GateInvariance, PTL

\* Acquire refuses a workload only for a lease of the opposing cohort.
THEOREM RefusalJustified == GateSpec => RefusedOnlyByOpposing
<1> DEFINE A == \A w \in Workloads :
              pc[w] # "refused" /\ pc'[w] = "refused" =>
                \E h \in sh[Opposing(w)] : Cohort[h] # Cohort[w]
<1>1. ASSUME GateInv, [GateNext]_gateVars PROVE [A]_gateVars
  <2> SUFFICES ASSUME GateNext PROVE A
    BY <1>1
  <2> USE <1>1, OpposingCohort DEF GateInv, GateTypeOK, Files
  <2>1. ASSUME NEW w \in Workloads, ProbeOpposing(w) PROVE A
    <3>1. ex[Opposing(w)] = {}
      BY <2>1 DEF ProbeOpposing, ProbesOnly, Serialized, Admitting
    <3> QED BY <2>1, <3>1 DEF ProbeOpposing, ExclusiveFree, NothingStranded
  <2>2. ASSUME NEW w \in Workloads, TakeOwn(w) PROVE A
    <3>1. ex[Cohort[w]] = {}
      BY <2>2 DEF TakeOwn, ProbesOnly, Serialized, Admitting
    <3> QED BY <2>2, <3>1 DEF TakeOwn, SharedFree
  <2>3. ASSUME NEW w \in Workloads,
               \/ Call(w) \/ LockMutex(w) \/ DropProbe(w) \/ UnlockMutex(w)
               \/ SystemError(w) \/ MutexError(w) \/ Close(w)
        PROVE  A
    BY <2>3 DEF Call, LockMutex, DropProbe, UnlockMutex, SystemError, MutexError, Close
  <2>4. ASSUME NEW p \in Processes, ProcessDies(p) PROVE A
    BY <2>4 DEF ProcessDies
  <2> QED BY <2>1, <2>2, <2>3, <2>4 DEF GateNext, Acquire
<1> QED BY <1>1, GateInvariance, PTL DEF GateSpec, RefusedOnlyByOpposing

\* The gate implements GpuLease: its only steps that lock or unlock a cohort
\* file in shared mode grant or release leases, and a grant finds no workload
\* of the other cohort.
THEOREM GateImplementsLease == GateSpec => ImplementsLease
<1> DEFINE h == sh["live"] \cup sh["batch"]
<1>1. GateInit => Leases!Init
  BY DEF GateInit, Leases!Init, Files
<1>2. ASSUME GateInv, [GateNext]_gateVars PROVE [Leases!Next]_h
  <2> USE <1>2, OpposingCohort DEF GateInv, GateTypeOK, Files
  <2>1. h \subseteq Workloads
    OBVIOUS
  <2>2. ASSUME sh' = sh PROVE h' = h
    BY <2>2
  <2>3. ASSUME NEW w \in Workloads, TakeOwn(w) PROVE [Leases!Next]_h
    <3>1. CASE sh' = [sh EXCEPT ![Cohort[w]] = @ \cup {w}]
      <4>1. h' = h \cup {w}
        BY <3>1
      <4>2. w \notin h /\ \A v \in h : Cohort[v] = Cohort[w]
        BY <2>3 DEF TakeOwn, NothingStranded, ProbeHolds, Leased
      <4>3. Leases!Grant(w)
        BY <4>1, <4>2 DEF Leases!Grant
      <4> QED BY <4>3 DEF Leases!Next
    <3> QED BY <2>2, <2>3, <3>1 DEF TakeOwn
  <2>4. ASSUME NEW S \in SUBSET Workloads, \A c \in {"live", "batch"} : sh'[c] = sh[c] \ S
        PROVE  [Leases!Next]_h
    <3>1. h' = h \ (S \cap h) /\ S \cap h \in SUBSET Workloads
      BY <2>1, <2>4
    <3>2. Leases!Release(S \cap h)
      BY <3>1 DEF Leases!Release
    <3> QED BY <3>1, <3>2 DEF Leases!Next
  <2>5. ASSUME NEW w \in Workloads, Close(w) PROVE [Leases!Next]_h
    <3>1. \A c \in {"live", "batch"} : sh'[c] = sh[c] \ {w}
      BY <2>5 DEF Close, NothingStranded
    <3>2. {w} \in SUBSET Workloads
      OBVIOUS
    <3> QED BY <2>4, <3>1, <3>2, Zenon
  <2>6. ASSUME NEW p \in Processes, ProcessDies(p) PROVE [Leases!Next]_h
    <3>1. \A c \in {"live", "batch"} :
            sh'[c] = sh[c] \ {w \in Workloads : ProcessOf[w] = p}
      BY <2>6 DEF ProcessDies
    <3> QED BY ZenonT(60), <2>4, <3>1
  <2>7. ASSUME NEW w \in Workloads,
               \/ Call(w) \/ LockMutex(w) \/ ProbeOpposing(w) \/ DropProbe(w)
               \/ UnlockMutex(w) \/ SystemError(w) \/ MutexError(w)
        PROVE  sh' = sh
    BY <2>7 DEF Call, LockMutex, ProbeOpposing, DropProbe, UnlockMutex, SystemError, MutexError
  <2>8. ASSUME UNCHANGED gateVars PROVE sh' = sh
    BY <2>8 DEF gateVars
  <2>9. ASSUME GateNext PROVE [Leases!Next]_h \/ sh' = sh
    BY <2>3, <2>5, <2>6, <2>7, <2>9 DEF GateNext, Acquire
  <2>10. [Leases!Next]_h \/ sh' = sh
    BY <1>2, <2>8, <2>9
  <2> QED BY <2>2, <2>10
<1> QED BY <1>1, <1>2, GateInvariance, PTL DEF GateSpec, ImplementsLease, Leases!Spec

-----------------------------------------------------------------------------
(* The live runner.  CapacityExact is not inductive: that a create which     *)
(* gives back has what it gives back, and that nobody registers the session  *)
(* a DELETE waited for, rest on the session lock and on who runs when.       *)

\* Variables are functions to records with the fields the actions write.
RuntimeShape ==
    /\ rec = [s \in Sessions |-> rec[s]]
    /\ create = [s \in Sessions |-> create[s]]
    /\ term = [s \in Sessions |-> term[s]]
    /\ lock = [s \in Sessions |-> lock[s]]
    /\ run = [s \in Sessions |-> run[s]]
    /\ leases = [s \in Sessions |-> leases[s]]
    /\ \A s \in Sessions :
          /\ DOMAIN rec[s] = {"state", "target", "started", "failures"}
          /\ DOMAIN create[s] = {"pc", "started"}
          /\ DOMAIN run[s] = {"pc", "cancelled", "meter", "join"}

\* Where a terminate handler holds the session's lock.
Locked == {"begin", "cancel", "kick", "wait", "failed", "finalize"}

\* A create that has loaded its record holds the lock, so that meanwhile only
\* failSession ends the session, and not as "ended".
NotDeleted(s) ==
    /\ rec[s].state \in {"active", "stopping", "failed"}
    /\ rec[s].state = "stopping" => rec[s].target = "failed"
CreateOK(s) ==
    /\ create[s].pc \in {"ensure", "announce"} => lock[s] = "create" /\ NotDeleted(s)
    /\ create[s].pc = "announce" => run[s].pc = "new"
    /\ create[s].pc # "idle" => up = "serving"

\* A DELETE that finalizes has seen the run loop gone.
TermOK(s) ==
    /\ term[s] \in Locked => lock[s] = "terminate"
    /\ term[s] = "finalize" => run[s].pc = "none"
    /\ term[s] # "idle" => up = "serving"

RuntimeInv ==
    /\ RuntimeShape
    /\ CapacityExact
    /\ recovering \subseteq Sessions
    /\ recovering # {} => up = "recovering"
    /\ \A s \in Sessions : CreateOK(s) /\ TermOK(s)

\* Where the run loop holds its token and its lease.
Loop == RunPcs \ {"none", "release", "remove"}

\* A step of one session leaves the others alone ...
Only(s) ==
    \A u \in Sessions \ {s} :
       /\ rec'[u] = rec[u] /\ create'[u] = create[u] /\ term'[u] = term[u]
       /\ lock'[u] = lock[u] /\ run'[u] = run[u] /\ leases'[u] = leases[u]

\* ... and moves its run loop, or writes its record.
Runs(s, at) ==
    /\ run' = [u \in Sessions |-> run'[u]]
    /\ \A u \in Sessions : DOMAIN run'[u] = {"pc", "cancelled", "meter", "join"}
    /\ \A u \in Sessions \ {s} : run'[u] = run[u]
    /\ run'[s].pc = at
Writes(s) ==
    /\ rec' = [u \in Sessions |-> rec'[u]]
    /\ \A u \in Sessions : DOMAIN rec'[u] = {"state", "target", "started", "failures"}
    /\ \A u \in Sessions \ {s} : rec'[u] = rec[u]

\* At first there is no session and no handler.
LEMMA InitRuntimeInv == Init => RuntimeInv
<1> SUFFICES ASSUME Init PROVE RuntimeInv
  OBVIOUS
<1>1. RuntimeShape /\ \A s \in Sessions : CreateOK(s) /\ TermOK(s)
  BY DEF Init, RuntimeShape, CreateOK, TermOK, NoRun, Locked
<1>2. Holders = {}
  BY DEF Init, Holders, NoRun
<1>3. CapacityExact
  BY <1>2, FS_EmptySet, RuntimeAssumption DEF Init, CapacityExact, NoRun
<1> QED
  BY <1>1, <1>3 DEF Init, RuntimeInv

\* A step that concerns one session keeps the invariant of the others.
LEMMA SessionKeeps ==
  ASSUME RuntimeInv, NEW s \in Sessions, RuntimeShape', CapacityExact', Only(s),
         up' = up, recovering' \subseteq recovering, CreateOK(s)', TermOK(s)'
  PROVE  RuntimeInv'
<1>1. \A u \in Sessions : CreateOK(u)' /\ TermOK(u)'
  BY DEF RuntimeInv, Only, CreateOK, TermOK, NotDeleted
<1> QED
  BY <1>1 DEF RuntimeInv

\* Tokens and leases go with the places of the run loops.
LEMMA CapacityKeeps ==
  ASSUME CapacityExact, tokens' = tokens,
         \A u \in Sessions : leases'[u] = leases[u],
         \A u \in Sessions : \/ run'[u].pc = run[u].pc
                             \/ run[u].pc \in Loop /\ run'[u].pc \in Loop
  PROVE  CapacityExact'
<1>1. Holders' = Holders
  BY DEF Holders, Loop
<1> QED
  BY <1>1 DEF CapacityExact, Loop

\* Finitely many hold a lease at once.
LEMMA HoldersFinite == IsFiniteSet(Holders) /\ IsFiniteSet(Holders')
<1>1. Holders \subseteq Sessions /\ Holders' \subseteq Sessions
  BY DEF Holders
<1> QED
  BY <1>1, FS_Subset, RuntimeAssumption

\* An admission takes one token and one lease.
LEMMA AdmitExact ==
  ASSUME CapacityExact, NEW s \in Sessions, run[s].pc = "none", ~LocalFull,
         tokens' = tokens + 1, leases'[s] = leases[s] + 1,
         run'[s].pc \in Loop,
         \A u \in Sessions \ {s} : run'[u] = run[u] /\ leases'[u] = leases[u]
  PROVE  CapacityExact'
<1>1. Holders' = Holders \union {s} /\ s \notin Holders
  BY DEF Holders, Loop
<1>2. Cardinality(Holders') = Cardinality(Holders) + 1
  BY <1>1, HoldersFinite, FS_AddElement
<1>3. tokens \in Nat /\ MaxConcurrent \in Nat
  BY HoldersFinite, FS_CardinalityType, RuntimeAssumption DEF CapacityExact
<1> QED
  BY <1>2, <1>3 DEF CapacityExact, LocalFull, Loop

\* Leaving the holders gives back one token.
LEMMA ReleaseExact ==
  ASSUME CapacityExact, NEW s \in Sessions, s \in Holders, tokens' = tokens - 1,
         run'[s].pc \in {"none", "remove"}, leases'[s] = 0,
         \A u \in Sessions \ {s} : run'[u] = run[u] /\ leases'[u] = leases[u]
  PROVE  CapacityExact'
<1>1. Holders' = Holders \ {s}
  BY DEF Holders
<1>2. Cardinality(Holders') = Cardinality(Holders) - 1
  BY <1>1, HoldersFinite, FS_RemoveElement
<1>3. tokens \in Nat /\ MaxConcurrent \in Nat
  BY HoldersFinite, FS_CardinalityType, RuntimeAssumption DEF CapacityExact
<1> QED
  BY <1>2, <1>3 DEF CapacityExact

-----------------------------------------------------------------------------
(* The run loop.                                                             *)

\* A run loop that goes somewhere runs there.
LEMMA ToRuns ==
  ASSUME RuntimeShape, NEW s \in Sessions, NEW at, To(s, at) PROVE Runs(s, at)
  BY ZenonT(60) DEF To, Runs, RuntimeShape

\* A run loop left alone stays.
LEMMA KeepsRun ==
  ASSUME RuntimeShape, NEW s \in Sessions, UNCHANGED run PROVE Runs(s, run[s].pc)
  BY DEF Runs, RuntimeShape

\* A record left alone stays.
LEMMA KeepsRecord ==
  ASSUME RuntimeShape, NEW s \in Sessions, UNCHANGED rec
  PROVE  Writes(s) /\ rec'[s] = rec[s]
  BY DEF Writes, RuntimeShape

\* beginTerminalV1 and FinalizeLiveTerminationV1, for a stop that is a failure.
LEMMA BeginWrites ==
  ASSUME RuntimeShape, NEW s \in Sessions, NEW target, Begin(s, target)
  PROVE  /\ Writes(s)
         /\ rec[s].state = "active" => rec'[s].state = "stopping" /\ rec'[s].target = target
         /\ rec[s].state # "active" => rec'[s] = rec[s]
<1>1. CASE rec[s].state = "active"
  <2>1. rec' = [rec EXCEPT ![s].state = "stopping", ![s].target = target]
    BY <1>1 DEF Begin
  <2> QED
    BY ZenonT(60), <1>1, <2>1 DEF Writes, RuntimeShape
<1>2. CASE rec[s].state # "active"
  BY <1>2, KeepsRecord DEF Begin
<1> QED
  BY <1>1, <1>2

\* Finalizing writes the record of one session.
LEMMA FinalizeWrites ==
  ASSUME RuntimeShape, NEW s \in Sessions, Finalize(s)
  PROVE  /\ Writes(s)
         /\ rec'[s].state = IF rec[s].state = "stopping" THEN rec[s].target
                            ELSE rec[s].state
         /\ rec'[s].target = rec[s].target
  BY ZenonT(60) DEF Finalize, Writes, RuntimeShape

\* A step of the run loop that holds on to its token and its lease.
LEMMA LoopKeeps ==
  ASSUME RuntimeInv, NEW s \in Sessions, UNCHANGED <<process, handlers, tokens, leases>>,
         Writes(s), NotDeleted(s) => NotDeleted(s)', NEW at, Runs(s, at),
         at = run[s].pc \/ (at \in Loop /\ run[s].pc \in Loop \ {"new"})
  PROVE  RuntimeInv'
<1>1. /\ UNCHANGED <<up, recovering, create, term, lock, tokens, leases>>
      /\ RuntimeShape
  BY DEF process, handlers, RuntimeInv
<1>2. RuntimeShape' /\ Only(s)
  BY ZenonT(60), <1>1 DEF RuntimeShape, Only, Runs, Writes
<1>3. CapacityExact'
  <2>1. \A u \in Sessions : \/ run'[u].pc = run[u].pc
                            \/ run[u].pc \in Loop /\ run'[u].pc \in Loop
    BY DEF Runs
  <2> QED
    BY <1>1, <2>1, CapacityKeeps DEF RuntimeInv
<1>4. CreateOK(s)' /\ TermOK(s)'
  <2>1. CreateOK(s) /\ TermOK(s)
    BY DEF RuntimeInv
  <2> QED
    BY <1>1, <2>1 DEF CreateOK, TermOK, Runs, Loop
<1> QED
  BY <1>1, <1>2, <1>3, <1>4, SessionKeeps

\* The loop's steps that leave the record alone.
LEMMA LoopStep ==
  ASSUME RuntimeInv, NEW s \in Sessions,
         \/ Await(s) \/ AwaitError(s) \/ Launch(s) \/ LaunchFailed(s) \/ LadderExited(s)
         \/ MeterEnded(s) \/ Cancelled(s) \/ BackoffOver(s)
         \/ \E ok \in BOOLEAN : FailKick(s, ok)
         \/ FailJoin(s) \/ FailJoinTimeout(s) \/ Unwind(s) \/ MeterFails(s) \/ MeterStops(s)
  PROVE  RuntimeInv'
<1>0. RuntimeShape
  BY DEF RuntimeInv
<1>1. UNCHANGED <<process, store, handlers, tokens, leases>>
  BY ZenonT(60) DEF Await, AwaitError, Launch, LaunchFailed, LadderExited, MeterEnded, Cancelled,
     BackoffOver, FailKick, FailJoin, FailJoinTimeout, Unwind, MeterFails, MeterStops, capacity
<1>2. Writes(s) /\ (NotDeleted(s) => NotDeleted(s)')
  BY ZenonT(60), <1>0, <1>1, KeepsRecord DEF store, NotDeleted
<1>3. ASSUME NEW at \in Loop, run[s].pc \in Loop \ {"new"}, To(s, at) PROVE RuntimeInv'
  BY <1>0, <1>1, <1>2, <1>3, ToRuns, LoopKeeps
<1>4. CASE \/ Await(s) \/ AwaitError(s) \/ Launch(s) \/ LaunchFailed(s) \/ LadderExited(s)
           \/ BackoffOver(s) \/ FailJoin(s) \/ FailJoinTimeout(s)
  <2>1. /\ run[s].pc \in {"await", "launch", "ladder", "join", "backoff", "failjoin"}
        /\ \/ To(s, "launch") \/ To(s, "unwind") \/ To(s, "ladder") \/ To(s, "exited")
           \/ To(s, "await") \/ To(s, "failfinal")
    BY ZenonT(60), <1>4 DEF Await, AwaitError, Launch, LaunchFailed, LadderExited, BackoffOver,
       FailJoin, FailJoinTimeout
  <2> QED
    BY ZenonT(60), <1>3, <2>1 DEF Loop, RunPcs
<1>5. CASE Cancelled(s)
  BY <1>3, <1>5 DEF Cancelled, Loop, RunPcs
<1>6. ASSUME NEW ok \in BOOLEAN, FailKick(s, ok) PROVE RuntimeInv'
  <2>1. run[s].pc = "failkick" /\ \E at \in {"unwind", "failjoin", "failfinal"} : To(s, at)
    BY <1>6 DEF FailKick
  <2> QED
    BY <1>3, <2>1 DEF Loop, RunPcs
<1>7. CASE Unwind(s)
  <2>1. Runs(s, "joinmeter")
    BY ZenonT(60), <1>0, <1>7 DEF Unwind, Runs, RuntimeShape
  <2> QED
    BY <1>1, <1>2, <1>7, <2>1, LoopKeeps DEF Unwind, Loop, RunPcs
<1>8. CASE MeterFails(s) \/ MeterStops(s)
  <2>1. \E m : run' = [run EXCEPT ![s].meter = m]
    BY <1>8 DEF MeterFails, MeterStops
  <2>2. Runs(s, run[s].pc)
    BY ZenonT(60), <1>0, <2>1 DEF Runs, RuntimeShape
  <2> QED
    BY <1>1, <1>2, <2>2, LoopKeeps
<1>9. CASE MeterEnded(s)
  <2>1. /\ run[s].pc \in {"ladder", "backoff"}
        /\ \E at \in {"fail", "unwind"} : \E j :
              run' = [run EXCEPT ![s].pc = at, ![s].join = j, ![s].meter = "taken"]
    BY ZenonT(60), <1>9 DEF MeterEnded
  <2>2. PICK at \in {"fail", "unwind"} : \E j :
           run' = [run EXCEPT ![s].pc = at, ![s].join = j, ![s].meter = "taken"]
    BY ZenonT(60), <2>1
  <2>3. Runs(s, at)
    BY ZenonT(60), <1>0, <2>2 DEF Runs, RuntimeShape
  <2> QED
    BY <1>1, <1>2, <2>1, <2>3, LoopKeeps DEF Loop, RunPcs
<1> QED
  BY <1>4, <1>5, <1>6, <1>7, <1>8, <1>9

\* The loop's steps that write the record: failures are counted, or the session
\* fails.
LEMMA FailStep ==
  ASSUME RuntimeInv, NEW s \in Sessions, AfterExit(s) \/ FailBegin(s) \/ FailFinalize(s)
  PROVE  RuntimeInv'
<1>0. RuntimeShape
  BY DEF RuntimeInv
<1>1. UNCHANGED <<process, handlers, tokens, leases>>
  BY ZenonT(60) DEF AfterExit, FailBegin, FailFinalize, capacity
<1>2. CASE AfterExit(s)
  <2>1. /\ run[s].pc = "exited"
        /\ \/ UNCHANGED rec
           \/ \E n : rec' = [rec EXCEPT ![s].failures = n]
    BY ZenonT(60), <1>2 DEF AfterExit
  <2>2. Writes(s) /\ (NotDeleted(s) => NotDeleted(s)')
    <3>1. CASE UNCHANGED rec
      BY <1>0, <3>1, KeepsRecord DEF NotDeleted
    <3>2. ASSUME NEW n, rec' = [rec EXCEPT ![s].failures = n] PROVE <2>2
      BY ZenonT(60), <1>0, <3>2 DEF Writes, RuntimeShape, NotDeleted
    <3> QED
      BY ZenonT(60), <2>1, <3>1, <3>2
  <2>3. \E at \in {"unwind", "await", "fail", "backoff"} :
           To(s, at) \/ run' = [run EXCEPT ![s].pc = at, ![s].join = FALSE]
    <3>1. \/ To(s, "unwind") \/ To(s, "await")
          \/ \E n : run' = [run EXCEPT ![s].pc = IF n >= MaxFailures THEN "fail" ELSE "backoff",
                                       ![s].join = FALSE]
      BY ZenonT(60), <1>2 DEF AfterExit
    <3> QED
      BY ZenonT(60), <3>1
  <2>4. PICK at \in {"unwind", "await", "fail", "backoff"} :
           To(s, at) \/ run' = [run EXCEPT ![s].pc = at, ![s].join = FALSE]
    BY <2>3
  <2>5. Runs(s, at)
    <3>1. CASE run' = [run EXCEPT ![s].pc = at, ![s].join = FALSE]
      BY ZenonT(60), <1>0, <3>1 DEF Runs, RuntimeShape
    <3> QED
      BY <1>0, <2>4, <3>1, ToRuns
  <2> QED
    BY <1>1, <2>1, <2>2, <2>5, LoopKeeps DEF Loop, RunPcs
<1>3. CASE FailBegin(s)
  <2>1. run[s].pc = "fail" /\ Begin(s, "failed")
    BY <1>3 DEF FailBegin
  <2>2. Writes(s) /\ (NotDeleted(s) => NotDeleted(s)')
    BY <1>0, <2>1, BeginWrites DEF NotDeleted
  <2>3. \/ run' = [run EXCEPT ![s].pc = "failkick", ![s].cancelled = TRUE]
        \/ run' = [run EXCEPT ![s].pc = "unwind"]
    BY ZenonT(60), <1>3 DEF FailBegin
  <2>4. Runs(s, "failkick") \/ Runs(s, "unwind")
    BY ZenonT(60), <1>0, <2>3 DEF Runs, RuntimeShape
  <2> QED
    BY <1>1, <2>1, <2>2, <2>4, LoopKeeps DEF Loop, RunPcs
<1>4. CASE FailFinalize(s)
  <2>1. run[s].pc = "failfinal" /\ Finalize(s) /\ Runs(s, "unwind")
    BY <1>0, <1>4, ToRuns DEF FailFinalize
  <2>2. Writes(s) /\ (NotDeleted(s) => NotDeleted(s)')
    BY <1>0, <2>1, FinalizeWrites DEF NotDeleted
  <2> QED
    BY <1>1, <2>1, <2>2, LoopKeeps DEF Loop, RunPcs
<1> QED
  BY <1>2, <1>3, <1>4

\* The deferred calls give the lease and the token back, each once.
LEMMA ReleaseStep ==
  ASSUME RuntimeInv, NEW s \in Sessions, CloseLease(s) \/ releaseLocal(s) \/ remove(s)
  PROVE  RuntimeInv'
<1>0. /\ RuntimeShape /\ CapacityExact /\ CreateOK(s) /\ TermOK(s)
      /\ UNCHANGED <<up, recovering, rec, create, term, lock>>
  BY DEF RuntimeInv, CloseLease, releaseLocal, remove, process, store, handlers
<1>1. PICK at \in {"release", "remove", "none"} :
         /\ Runs(s, at)
         /\ run[s].pc = IF at = "release" THEN "joinmeter"
                        ELSE IF at = "remove" THEN "release" ELSE "remove"
         /\ at = "release" => tokens' = tokens /\ leases' = [leases EXCEPT ![s] = @ - 1]
         /\ at = "remove" => tokens' = tokens - 1 /\ leases' = leases
         /\ at = "none" => tokens' = tokens /\ leases' = leases
  <2>1. CASE CloseLease(s)
    BY ZenonT(60), <1>0, <2>1, ToRuns DEF CloseLease
  <2>2. CASE releaseLocal(s)
    BY <1>0, <2>2, ToRuns DEF releaseLocal
  <2>3. CASE remove(s)
    <3>1. run' = [run EXCEPT ![s] = NoRun] /\ run[s].pc = "remove"
          /\ UNCHANGED <<tokens, leases>>
      BY <2>3 DEF remove, capacity
    <3>2. NoRun.pc = "none" /\ DOMAIN NoRun = {"pc", "cancelled", "meter", "join"}
      BY DEF NoRun
    <3>3. Runs(s, "none")
      BY ZenonT(60), <1>0, <3>1, <3>2 DEF Runs, RuntimeShape
    <3> QED
      BY <3>1, <3>3
  <2> QED
    BY ZenonT(60), <2>1, <2>2, <2>3
<1>2. /\ leases' = [u \in Sessions |-> leases'[u]]
      /\ \A u \in Sessions \ {s} : leases'[u] = leases[u]
      /\ leases'[s] = IF at = "release" THEN leases[s] - 1 ELSE leases[s]
  BY <1>0, <1>1 DEF RuntimeShape
<1>3. RuntimeShape' /\ Only(s)
  BY <1>0, <1>1, <1>2 DEF RuntimeShape, Only, Runs
<1>4. CapacityExact'
  <2>1. CASE at = "remove"
    <3>1. s \in Holders /\ leases'[s] = 0
      BY <1>0, <1>1, <1>2, <2>1 DEF Holders, CapacityExact
    <3> QED
      BY ZenonT(60), <1>0, <1>1, <1>2, <2>1, <3>1, ReleaseExact DEF Runs
  <2>2. CASE at # "remove"
    <3>1. Holders' = Holders
      BY <1>1, <2>2 DEF Holders, Runs
    <3> QED
      BY <1>0, <1>1, <1>2, <2>2, <3>1 DEF CapacityExact, Runs
  <2> QED
    BY <2>1, <2>2
<1>5. CreateOK(s)' /\ TermOK(s)'
  BY ZenonT(60), <1>0, <1>1 DEF CreateOK, TermOK, NotDeleted, Runs
<1> QED
  BY <1>0, <1>3, <1>4, <1>5, SessionKeeps

-----------------------------------------------------------------------------
(* DELETE.                                                                   *)

\* A terminate handler that moves on or answers, while no create has the lock.
LEMMA TermKeeps ==
  ASSUME RuntimeInv, NEW s \in Sessions, UNCHANGED <<process, create, tokens, leases>>,
         Writes(s), Runs(s, run[s].pc), create[s].pc \notin {"ensure", "announce"},
         NEW p, term' = [term EXCEPT ![s] = p],
         UNCHANGED lock \/ \E l : lock' = [lock EXCEPT ![s] = l],
         p \in Locked => lock'[s] = "terminate",
         p = "finalize" => run[s].pc = "none",
         p # "idle" => up = "serving"
  PROVE  RuntimeInv'
<1>1. RuntimeShape /\ UNCHANGED <<up, recovering, create, tokens, leases>>
  BY DEF RuntimeInv, process
<1>2. /\ lock' = [u \in Sessions |-> lock'[u]]
      /\ \A u \in Sessions \ {s} : lock'[u] = lock[u]
      /\ term' = [u \in Sessions |-> term'[u]]
      /\ \A u \in Sessions \ {s} : term'[u] = term[u]
      /\ term'[s] = p
  BY ZenonT(60), <1>1 DEF RuntimeShape
<1>3. RuntimeShape' /\ Only(s)
  BY <1>1, <1>2 DEF RuntimeShape, Only, Runs, Writes
<1>4. CapacityExact'
  BY ZenonT(60), <1>1, CapacityKeeps DEF RuntimeInv, Runs
<1>5. CreateOK(s)' /\ TermOK(s)'
  BY <1>1, <1>2 DEF RuntimeInv, CreateOK, TermOK, Runs
<1> QED
  BY ZenonT(60), <1>1, <1>3, <1>4, <1>5, SessionKeeps

\* The steps of the DELETE handler.
LEMMA TermStepKeeps ==
  ASSUME RuntimeInv, NEW s \in Sessions, Terminate(s) \/ TermStep(s) \/ TermAbandon(s)
  PROVE  RuntimeInv'
<1>0. RuntimeShape /\ CreateOK(s) /\ TermOK(s)
  BY DEF RuntimeInv
<1>1. ASSUME UNCHANGED rec PROVE Writes(s)
  BY <1>0, <1>1, KeepsRecord
<1>2. ASSUME UNCHANGED run PROVE Runs(s, run[s].pc)
  BY <1>0, <1>2, KeepsRun
<1>3. ASSUME term[s] \in Locked \/ lock[s] = "free"
      PROVE  create[s].pc \notin {"ensure", "announce"}
  BY <1>0, <1>3 DEF CreateOK, TermOK
<1>4. ASSUME TermReply(s), term[s] \in Locked \/ lock[s] = "free", Writes(s), UNCHANGED run,
             UNCHANGED <<process, create, tokens, leases>>
      PROVE  RuntimeInv'
  BY ZenonT(60), <1>2, <1>3, <1>4, TermKeeps DEF TermReply, Locked
<1>5. CASE Terminate(s)
  <2>1. /\ UNCHANGED <<process, create, tokens, leases, rec, run, lock>> /\ up = "serving"
        /\ term' = [term EXCEPT ![s] = "lock"]
    BY <1>5 DEF Terminate, capacity, store
  <2>2. RuntimeShape' /\ Only(s) /\ term'[s] = "lock"
    BY ZenonT(60), <1>0, <2>1 DEF RuntimeShape, Only
  <2>3. CapacityExact'
    BY <2>1, CapacityKeeps DEF RuntimeInv
  <2>4. CreateOK(s)' /\ TermOK(s)'
    BY <1>0, <2>1, <2>2 DEF CreateOK, TermOK, NotDeleted, Locked, process
  <2> QED
    BY <2>1, <2>2, <2>3, <2>4, SessionKeeps DEF process
<1>6. CASE TermLoad(s)
  <2>1. /\ UNCHANGED <<process, create, tokens, leases, rec, run>> /\ lock[s] = "free"
        /\ term[s] = "lock" /\ up = "serving"
    BY ZenonT(60), <1>0, <1>6 DEF TermLoad, capacity, store, TermOK
  <2>2. CASE TermReply(s)
    BY <1>1, <1>4, <2>1, <2>2
  <2>3. CASE /\ term' = [term EXCEPT ![s] = "begin"]
             /\ lock' = [lock EXCEPT ![s] = "terminate"]
    <3>1. lock'[s] = "terminate"
      BY <1>0, <2>3 DEF RuntimeShape
    <3> QED
      BY ZenonT(60), <1>1, <1>2, <1>3, <2>1, <2>3, <3>1, TermKeeps
  <2> QED
    BY <1>6, <2>2, <2>3 DEF TermLoad
<1>7. CASE TermBegin(s)
  <2>1. /\ UNCHANGED <<process, create, tokens, leases, run>> /\ Begin(s, "ended")
        /\ term[s] \in Locked /\ lock[s] = "terminate" /\ up = "serving"
    BY ZenonT(60), <1>0, <1>7 DEF TermBegin, capacity, TermOK, Locked
  <2>2. Writes(s)
    BY <1>0, <2>1, BeginWrites
  <2>3. CASE TermReply(s)
    BY <1>4, <2>1, <2>2, <2>3
  <2>4. CASE term' = [term EXCEPT ![s] = "cancel"] /\ UNCHANGED lock
    BY ZenonT(60), <1>2, <1>3, <2>1, <2>2, <2>4, TermKeeps
  <2> QED
    BY ZenonT(60), <1>7, <2>3, <2>4 DEF TermBegin
<1>8. CASE TermCancel(s)
  <2>1. /\ UNCHANGED <<process, create, tokens, leases, rec, lock>>
        /\ term[s] \in Locked /\ lock[s] = "terminate" /\ up = "serving"
        /\ term' = [term EXCEPT ![s] = "kick"]
    BY <1>0, <1>8 DEF TermCancel, capacity, store, TermOK, Locked
  <2>2. Runs(s, run[s].pc)
    <3>1. UNCHANGED run \/ run' = [run EXCEPT ![s].cancelled = TRUE]
      BY <1>8 DEF TermCancel
    <3> QED
      BY <1>0, <1>2, <3>1 DEF Runs, RuntimeShape
  <2> QED
    BY ZenonT(60), <1>1, <1>3, <2>1, <2>2, TermKeeps
<1>9. ASSUME NEW ok \in BOOLEAN, TermKick(s, ok) PROVE RuntimeInv'
  <2>1. /\ UNCHANGED <<process, create, tokens, leases, rec, run, lock>>
        /\ term[s] \in Locked /\ lock[s] = "terminate" /\ up = "serving"
        /\ \E p \in {"wait", "failed"} : term' = [term EXCEPT ![s] = p]
    BY ZenonT(60), <1>0, <1>9 DEF TermKick, capacity, store, TermOK, Locked
  <2> QED
    BY ZenonT(60), <1>1, <1>2, <1>3, <2>1, TermKeeps
<1>10. CASE TermDone(s) \/ TermAbandon(s)
  <2>1. /\ UNCHANGED <<process, create, tokens, leases, rec, run>>
        /\ term[s] \in Locked /\ lock[s] = "terminate" /\ up = "serving"
        /\ \/ TermReply(s)
           \/ /\ term' = [term EXCEPT ![s] = "finalize"] /\ UNCHANGED lock
              /\ run[s].pc = "none"
    BY ZenonT(60), <1>0, <1>10 DEF TermDone, TermAbandon, capacity, store, TermOK, Locked, Registered
  <2>2. CASE TermReply(s)
    BY <1>1, <1>4, <2>1, <2>2
  <2>3. CASE /\ term' = [term EXCEPT ![s] = "finalize"] /\ UNCHANGED lock
             /\ run[s].pc = "none"
    BY ZenonT(60), <1>1, <1>2, <1>3, <2>1, <2>3, TermKeeps
  <2> QED
    BY ZenonT(60), <2>1, <2>2, <2>3
<1>11. CASE TermFinalize(s)
  <2>1. /\ UNCHANGED <<process, create, tokens, leases, run>> /\ TermReply(s)
        /\ term[s] \in Locked /\ Writes(s)
    BY ZenonT(60), <1>0, <1>11, FinalizeWrites DEF TermFinalize, capacity, Locked
  <2> QED
    BY <1>4, <2>1
<1> QED
  BY <1>5, <1>6, <1>7, <1>8, <1>9, <1>10, <1>11 DEF TermStep

-----------------------------------------------------------------------------
(* POST.                                                                     *)

\* A create handler and the lock and lease it may have change for its session.
Handles(s) ==
    /\ create' = [u \in Sessions |-> create'[u]]
    /\ \A u \in Sessions : DOMAIN create'[u] = {"pc", "started"}
    /\ lock' = [u \in Sessions |-> lock'[u]]
    /\ leases' = [u \in Sessions |-> leases'[u]]
    /\ \A u \in Sessions \ {s} :
          create'[u] = create[u] /\ lock'[u] = lock[u] /\ leases'[u] = leases[u]

\* A step of the create handler that does not answer.
LEMMA CreateKeeps ==
  ASSUME RuntimeInv, NEW s \in Sessions, UNCHANGED <<process, term>>, CapacityExact',
         Writes(s), NEW at, Runs(s, at), Handles(s), CreateOK(s)',
         term[s] \in Locked => lock'[s] = "terminate",
         term[s] = "finalize" => at = "none"
  PROVE  RuntimeInv'
<1>1. RuntimeShape /\ UNCHANGED <<up, recovering, term>> /\ TermOK(s)
  BY DEF RuntimeInv, process
<1>2. RuntimeShape' /\ Only(s)
  BY <1>1 DEF RuntimeShape, Only, Runs, Writes, Handles
<1>3. TermOK(s)'
  BY <1>1 DEF TermOK, Runs
<1> QED
  BY ZenonT(60), <1>1, <1>2, <1>3, SessionKeeps

\* The handler answers: the lock it gives up is no terminate handler's.
LEMMA ReplyKeeps ==
  ASSUME RuntimeInv, NEW s \in Sessions, UNCHANGED <<process, term>>, CapacityExact',
         Writes(s), NEW at, Runs(s, at), CreateReply(s),
         create[s].pc \in {"ensure", "announce"} \/ lock[s] = "free",
         UNCHANGED leases \/ \E n : leases' = [leases EXCEPT ![s] = n]
  PROVE  RuntimeInv'
<1> DEFINE idle == [pc |-> "idle", started |-> FALSE]
<1>1. DOMAIN idle = {"pc", "started"} /\ idle.pc = "idle"
  OBVIOUS
<1>2. create' = [create EXCEPT ![s] = idle] /\ lock' = [lock EXCEPT ![s] = "free"]
  BY ZenonT(60), SMTT(60) DEF CreateReply
<1> HIDE DEF idle
<1>3. RuntimeShape /\ CreateOK(s) /\ TermOK(s)
  BY DEF RuntimeInv
<1>4. Handles(s) /\ create'[s].pc = "idle"
  BY ZenonT(60), <1>1, <1>2, <1>3 DEF Handles, RuntimeShape
<1>5. term[s] \notin Locked
  BY ZenonT(60), <1>3 DEF CreateOK, TermOK
<1>6. term[s] # "finalize"
  BY <1>5 DEF Locked
<1>7. CreateOK(s)'
  BY <1>4 DEF CreateOK
<1> QED
  BY ZenonT(60), <1>4, <1>5, <1>6, <1>7, CreateKeeps

\* What Admit and Go make of the coordinator's entry.
LEMMA NewRuns ==
  ASSUME RuntimeInv, NEW s \in Sessions,
         run' = [run EXCEPT ![s] = [NoRun EXCEPT !.pc = "new"]]
  PROVE  Runs(s, "new")
<1> DEFINE new == [NoRun EXCEPT !.pc = "new"]
<1>1. new.pc = "new" /\ DOMAIN new = {"pc", "cancelled", "meter", "join"}
  BY DEF NoRun
<1>2. run' = [run EXCEPT ![s] = new]
  OBVIOUS
<1> HIDE DEF new
<1> QED
  BY ZenonT(60), <1>1, <1>2 DEF Runs, RuntimeInv, RuntimeShape

\* A run loop that is started waits first.
LEMMA GoRuns == ASSUME RuntimeShape, NEW s \in Sessions, Go(s) PROVE Runs(s, "await")
<1> DEFINE await == [NoRun EXCEPT !.pc = "await", !.meter = "polling"]
<1>1. await.pc = "await" /\ DOMAIN await = {"pc", "cancelled", "meter", "join"}
  BY DEF NoRun
<1>2. run' = [run EXCEPT ![s] = await]
  BY DEF Go
<1> HIDE DEF await
<1> QED
  BY ZenonT(60), <1>1, <1>2 DEF Runs, RuntimeShape

\* An admission, by a create or by the recovery.
LEMMA AdmitRuns ==
  ASSUME RuntimeInv, NEW s \in Sessions, ~Registered(s), ~LocalFull,
         tokens' = tokens + 1, leases' = [leases EXCEPT ![s] = @ + 1],
         NEW at \in {"new", "await"}, Runs(s, at)
  PROVE  CapacityExact'
<1>1. RuntimeShape /\ CapacityExact
  BY DEF RuntimeInv
<1>2. run[s].pc = "none" /\ run'[s].pc \in Loop
  BY DEF Registered, Runs, Loop, RunPcs
<1>3. leases'[s] = leases[s] + 1 /\ \A u \in Sessions \ {s} : leases'[u] = leases[u]
  BY <1>1 DEF RuntimeShape
<1>4. \A u \in Sessions \ {s} : run'[u] = run[u]
  BY DEF Runs
<1> QED
  BY <1>1, <1>2, <1>3, <1>4, AdmitExact

\* The steps of the create handler.
LEMMA CreateStepKeeps ==
  ASSUME RuntimeInv, NEW s \in Sessions, CreateOrReplay(s) \/ CreateStep(s)
  PROVE  RuntimeInv'
<1>0. RuntimeShape /\ CapacityExact /\ CreateOK(s) /\ TermOK(s)
  BY DEF RuntimeInv
<1>1. UNCHANGED <<process, term>>
  BY ZenonT(60) DEF CreateOrReplay, CreateStep, CreateLoad, CreateReplayed, CreateRefused,
     CreateAdmitted, CreateAnnounce, CreateGivesBack
<1>2. ASSUME UNCHANGED rec PROVE Writes(s) /\ (NotDeleted(s) => NotDeleted(s)')
  BY ZenonT(60), <1>0, <1>2, KeepsRecord DEF NotDeleted
<1>3. ASSUME UNCHANGED <<run, tokens, leases>>
      PROVE  Runs(s, run[s].pc) /\ CapacityExact'
  BY <1>0, <1>3, KeepsRun, CapacityKeeps
<1>4. CASE CreateOrReplay(s)
  <2>1. /\ UNCHANGED <<lock, run, tokens, leases>> /\ up = "serving" /\ create[s].pc = "idle"
        /\ rec' = [rec EXCEPT ![s].state = "active"]
        /\ create' = [create EXCEPT ![s].pc = "lock"]
    BY <1>4 DEF CreateOrReplay, capacity
  <2>2. Handles(s) /\ Writes(s) /\ create'[s].pc = "lock"
    BY ZenonT(60), <1>0, <2>1 DEF Handles, Writes, RuntimeShape
  <2>3. CreateOK(s)'
    BY ZenonT(60), <1>1, <2>1, <2>2 DEF CreateOK, process
  <2> QED
    BY <1>0, <1>1, <1>3, <2>1, <2>2, <2>3, CreateKeeps DEF TermOK
<1>5. CASE CreateLoad(s)
  <2>1. UNCHANGED <<rec, run, tokens, leases>> /\ create[s].pc = "lock" /\ lock[s] = "free"
    BY ZenonT(60), <1>5 DEF CreateLoad, store, capacity
  <2>2. CASE CreateReply(s)
    BY ZenonT(60), <1>1, <1>2, <1>3, <2>1, <2>2, ReplyKeeps
  <2> DEFINE c == [pc |-> "ensure", started |-> rec[s].started]
  <2>3. CASE /\ rec[s].state = "active" /\ create' = [create EXCEPT ![s] = c]
             /\ lock' = [lock EXCEPT ![s] = "create"]
    <3>1. c.pc = "ensure" /\ DOMAIN c = {"pc", "started"}
      OBVIOUS
    <3> HIDE DEF c
    <3>2. Handles(s) /\ create'[s].pc = "ensure" /\ lock'[s] = "create"
      BY ZenonT(60), <1>0, <2>1, <2>3, <3>1 DEF Handles, RuntimeShape
    <3>3. CreateOK(s)' /\ term[s] \notin Locked
      BY <1>0, <1>1, <2>1, <2>3, <3>2 DEF CreateOK, TermOK, NotDeleted, process
    <3>4. term[s] # "finalize"
      BY ZenonT(60), <3>3 DEF Locked
    <3> QED
      BY ZenonT(60), <1>1, <1>2, <1>3, <2>1, <3>2, <3>3, <3>4, CreateKeeps
  <2> QED
    BY ZenonT(60), <1>5, <2>2, <2>3 DEF CreateLoad
<1>6. CASE CreateReplayed(s) \/ \E why \in {"capacity", "error"} : CreateRefused(s, why)
  <2>1. /\ UNCHANGED <<rec, run, tokens, leases>> /\ create[s].pc = "ensure"
        /\ CreateReply(s)
    BY ZenonT(60), <1>6 DEF CreateReplayed, CreateRefused, Refuse, store, capacity
  <2> QED
    BY ZenonT(60), <1>1, <1>2, <1>3, <2>1, ReplyKeeps
<1>7. CASE CreateAdmitted(s)
  <2>1. /\ UNCHANGED <<rec, lock>> /\ create[s].pc = "ensure" /\ ~Registered(s) /\ ~LocalFull
        /\ run' = [run EXCEPT ![s] = [NoRun EXCEPT !.pc = "new"]]
        /\ tokens' = tokens + 1 /\ leases' = [leases EXCEPT ![s] = @ + 1]
        /\ create' = [create EXCEPT ![s].pc = "announce"]
    BY <1>7 DEF CreateAdmitted, Admit, store
  <2>2. CapacityExact' /\ Runs(s, "new")
    BY ZenonT(60), <2>1, AdmitRuns, NewRuns
  <2>3. Handles(s) /\ create'[s].pc = "announce"
    BY ZenonT(60), <1>0, <2>1 DEF Handles, RuntimeShape
  <2>4. CreateOK(s)' /\ lock[s] = "create" /\ term[s] \notin Locked
    BY <1>0, <1>1, <1>2, <2>1, <2>2, <2>3 DEF CreateOK, TermOK, Runs, process
  <2>5. term[s] # "finalize"
    BY <2>4 DEF Locked
  <2> QED
    BY <1>1, <1>2, <2>1, <2>2, <2>3, <2>4, <2>5, CreateKeeps
<1>8. CASE CreateAnnounce(s)
  <2>1. /\ UNCHANGED <<tokens, leases>> /\ create[s].pc = "announce" /\ Go(s) /\ CreateReply(s)
        /\ rec' = [rec EXCEPT ![s].started = TRUE]
    BY <1>8 DEF CreateAnnounce, capacity
  <2>2. Writes(s)
    BY ZenonT(60), <1>0, <2>1 DEF Writes, RuntimeShape
  <2>3. Runs(s, "await") /\ run[s].pc = "new"
    BY <1>0, <2>1, GoRuns DEF CreateOK
  <2>4. CapacityExact'
    BY <1>0, <2>1, <2>3, CapacityKeeps DEF Runs, Loop, RunPcs
  <2> QED
    BY <1>1, <2>1, <2>2, <2>3, <2>4, ReplyKeeps
<1>9. CASE CreateGivesBack(s)
  <2>1. /\ UNCHANGED rec /\ create[s].pc = "announce" /\ run[s].pc = "new" /\ CreateReply(s)
        /\ run' = [run EXCEPT ![s] = NoRun] /\ tokens' = tokens - 1
        /\ leases' = [leases EXCEPT ![s] = @ - 1]
    BY <1>0, <1>9 DEF CreateGivesBack, store, CreateOK
  <2>2. Runs(s, "none")
    <3>1. NoRun.pc = "none" /\ DOMAIN NoRun = {"pc", "cancelled", "meter", "join"}
      BY DEF NoRun
    <3> QED
      BY ZenonT(60), <1>0, <2>1, <3>1 DEF Runs, RuntimeShape
  <2>3. /\ s \in Holders /\ leases'[s] = 0
        /\ \A u \in Sessions \ {s} : leases'[u] = leases[u]
    BY <1>0, <2>1 DEF Holders, CapacityExact, RuntimeShape
  <2>4. CapacityExact'
    BY <1>0, <2>1, <2>2, <2>3, ReleaseExact DEF Runs
  <2> QED
    BY ZenonT(60), <1>1, <1>2, <2>1, <2>2, <2>4, ReplyKeeps
<1> QED
  BY SMTT(60), ZenonT(60), <1>4, <1>5, <1>6, <1>7, <1>8, <1>9 DEF CreateStep

-----------------------------------------------------------------------------
(* The process and its surroundings.                                         *)

\* Death takes the run loops with their tokens and leases.
LEMMA DeadKeeps == ASSUME RuntimeInv, Dead, UNCHANGED rec PROVE RuntimeInv'
<1> DEFINE idle == [pc |-> "idle", started |-> FALSE]
<1>1. /\ DOMAIN idle = {"pc", "started"} /\ idle.pc = "idle"
      /\ NoRun.pc = "none" /\ DOMAIN NoRun = {"pc", "cancelled", "meter", "join"}
  BY DEF NoRun
<1>2. /\ create' = [s \in Sessions |-> idle] /\ term' = [s \in Sessions |-> "idle"]
      /\ lock' = [s \in Sessions |-> "free"] /\ run' = [s \in Sessions |-> NoRun]
      /\ leases' = [s \in Sessions |-> 0] /\ tokens' = 0 /\ recovering' = {}
  BY ZenonT(60) DEF Dead
<1> HIDE DEF idle
<1>3. RuntimeShape' /\ \A s \in Sessions : CreateOK(s)' /\ TermOK(s)'
  BY <1>1, <1>2 DEF RuntimeInv, RuntimeShape, CreateOK, TermOK, Locked
<1>4. Holders' = {}
  BY <1>1, <1>2 DEF Holders
<1>5. CapacityExact'
  BY <1>1, <1>2, <1>4, FS_EmptySet, RuntimeAssumption DEF CapacityExact
<1> QED
  BY <1>2, <1>3, <1>5 DEF RuntimeInv

\* Recovery handles one session after another before the process serves.
LEMMA RecoverKeeps ==
  ASSUME RuntimeInv, NEW s \in Sessions, RecoverStopping(s) \/ RecoverActive(s)
  PROVE  RuntimeInv'
<1>0. RuntimeShape /\ CapacityExact /\ CreateOK(s) /\ TermOK(s)
  BY DEF RuntimeInv
<1>1. /\ UNCHANGED <<up, create, term, lock>> /\ recovering' = recovering \ {s}
      /\ up = "recovering"
  BY DEF RecoverStopping, RecoverActive, handlers, RuntimeInv
<1>2. create[s].pc = "idle" /\ term[s] = "idle"
  BY <1>0, <1>1 DEF CreateOK, TermOK
<1>3. PICK at : Writes(s) /\ Runs(s, at) /\ CapacityExact' /\ Handles(s)
  <2>1. CASE RecoverStopping(s)
    <3>1. UNCHANGED <<run, tokens, leases>> /\ Finalize(s)
      BY <2>1 DEF RecoverStopping, capacity
    <3>2. Handles(s)
      BY <1>0, <1>1, <3>1 DEF Handles, RuntimeShape
    <3> QED
      BY ZenonT(60), <1>0, <3>1, <3>2, FinalizeWrites, KeepsRun, CapacityKeeps
  <2>2. CASE RecoverActive(s)
    <3>1. /\ ~Registered(s) /\ ~LocalFull /\ Go(s) /\ tokens' = tokens + 1
          /\ leases' = [leases EXCEPT ![s] = @ + 1]
          /\ rec' = [rec EXCEPT ![s].started = TRUE]
      BY <2>2 DEF RecoverActive
    <3>2. Runs(s, "await")
      BY <1>0, <3>1, GoRuns
    <3>3. Handles(s) /\ Writes(s)
      BY ZenonT(60), <1>0, <1>1, <3>1 DEF Handles, Writes, RuntimeShape
    <3> QED
      BY ZenonT(60), <3>1, <3>2, <3>3, AdmitRuns
  <2> QED
    BY ZenonT(60), <2>1, <2>2
<1>4. RuntimeShape' /\ Only(s)
  BY ZenonT(60), <1>0, <1>1, <1>3 DEF RuntimeShape, Only, Runs, Writes, Handles
<1>5. CreateOK(s)' /\ TermOK(s)'
  BY ZenonT(60), <1>1, <1>2 DEF CreateOK, TermOK, Locked
<1> QED
  BY <1>1, <1>3, <1>4, <1>5, SessionKeeps

\* Start-up, shutdown, batch work and what MediaMTX and FFmpeg do.
LEMMA ProcessKeeps ==
  ASSUME RuntimeInv,
         \/ Start \/ Serve \/ Shutdown \/ BatchStart \/ BatchEnd \/ UNCHANGED vars
         \/ \E s \in Sessions : \/ Authorize(s) \/ Online(s) \/ Unpublish(s)
                                \/ LadderExits(s)
  PROVE  RuntimeInv'
<1>0. RuntimeShape /\ CapacityExact /\ \A s \in Sessions : CreateOK(s) /\ TermOK(s)
  BY DEF RuntimeInv
<1>1. UNCHANGED <<rec, create, term, lock, tokens, leases>>
  BY ZenonT(60) DEF Start, Serve, Shutdown, BatchStart, BatchEnd, Authorize, Online, Unpublish,
     LadderExits, vars, store, handlers, capacity
<1>2. /\ run' = [s \in Sessions |-> run'[s]]
      /\ \A s \in Sessions : /\ DOMAIN run'[s] = {"pc", "cancelled", "meter", "join"}
                              /\ run'[s].pc = run[s].pc
  <2>1. CASE UNCHANGED run
    BY <1>0, <2>1 DEF RuntimeShape
  <2>2. CASE Shutdown
    <3>1. run' = [s \in Sessions |-> IF Registered(s)
                                     THEN [run[s] EXCEPT !.cancelled = TRUE]
                                     ELSE run[s]]
      BY <2>2 DEF Shutdown
    <3>2. \A s \in Sessions :
             /\ DOMAIN [run[s] EXCEPT !.cancelled = TRUE] = DOMAIN run[s]
             /\ [run[s] EXCEPT !.cancelled = TRUE].pc = run[s].pc
      BY ZenonT(60), <1>0 DEF RuntimeShape
    <3> QED
      BY <1>0, <3>1, <3>2 DEF RuntimeShape
  <2> QED
    BY ZenonT(60), <2>1, <2>2 DEF Start, Serve, BatchStart, BatchEnd, Authorize, Online,
       Unpublish, LadderExits, vars
<1>3. RuntimeShape' /\ CapacityExact'
  BY <1>0, <1>1, <1>2, CapacityKeeps DEF RuntimeShape
<1>4. /\ recovering' \subseteq Sessions
      /\ recovering' # {} => up' = "recovering"
      /\ \A s \in Sessions : create[s].pc # "idle" \/ term[s] # "idle" => up' = "serving"
  <2>1. CASE UNCHANGED <<up, recovering>>
    BY <1>0, <2>1 DEF RuntimeInv, CreateOK, TermOK
  <2>2. CASE Start \/ Serve \/ Shutdown
    BY ZenonT(60), <1>0, <2>2 DEF RuntimeInv, CreateOK, TermOK, Start, Serve, Shutdown
  <2> QED
    BY ZenonT(60), <2>1, <2>2 DEF BatchStart, BatchEnd, Authorize, Online, Unpublish, LadderExits,
       vars, process
<1>5. \A s \in Sessions : CreateOK(s)' /\ TermOK(s)'
  BY <1>0, <1>1, <1>2, <1>4 DEF CreateOK, TermOK, NotDeleted
<1> QED
  BY <1>3, <1>4, <1>5 DEF RuntimeInv

\* The steps that end the process.
Dies ==
    \/ ShutdownDone \/ Crash
    \/ \E s \in Sessions : \/ RecoverKickFails(s)
                           \/ \E why \in {"capacity", "error"} : RecoverRefused(s, why)

\* Every step keeps the invariant.
LEMMA NextRuntimeInv == RuntimeInv /\ [Next]_vars => RuntimeInv'
<1> SUFFICES ASSUME RuntimeInv, Next \/ UNCHANGED vars PROVE RuntimeInv'
  OBVIOUS
<1>1. CASE Dies
  <2>1. Dead /\ UNCHANGED rec
    BY ZenonT(60), <1>1 DEF Dies, ShutdownDone, Crash, RecoverKickFails, RecoverRefused
  <2> QED
    BY <2>1, DeadKeeps
<1>2. ASSUME NEW s \in Sessions, RunStep(s) PROVE RuntimeInv'
  BY ZenonT(60), <1>2, LoopStep, FailStep, ReleaseStep DEF RunStep
<1>3. ASSUME NEW s \in Sessions, SessionStep(s) PROVE RuntimeInv'
  BY ZenonT(60), <1>1, <1>2, <1>3, CreateStepKeeps, TermStepKeeps, LoopStep, RecoverKeeps,
     ProcessKeeps DEF SessionStep, Dies
<1> QED
  BY ZenonT(60), <1>1, <1>3, ProcessKeeps DEF Next, Dies

\* Every admission gives back exactly what it took, whatever the sessions.
THEOREM CapacityHolds == Spec => []CapacityExact
<1>1. RuntimeInv => CapacityExact
  BY DEF RuntimeInv
<1> QED
  BY <1>1, InitRuntimeInv, NextRuntimeInv, PTL DEF Spec

\* A DELETE that ends a session has seen its run loop gone, token and lease
\* given back, whatever else ran meanwhile.
THEOREM DeleteReleasesHolds == Spec => DeleteReleases
<1> DEFINE A == \A s \in Sessions : term[s] = "finalize" /\ term'[s] = "idle" =>
                   s \notin Holders /\ leases[s] = 0
<1>1. RuntimeInv => [A]_vars
  BY DEF RuntimeInv, TermOK, CapacityExact, Holders
<1> QED
  BY <1>1, InitRuntimeInv, NextRuntimeInv, PTL DEF Spec, DeleteReleases

\* The steps that register a session.
LEMMA RegisterStep ==
  ASSUME RuntimeInv, Next, NEW s \in Sessions, ~Registered(s), Registered(s)'
  PROVE  CreateAdmitted(s) \/ RecoverActive(s)
<1>0. RuntimeShape /\ run[s].pc = "none" /\ run'[s].pc # "none" /\ run' # run
  BY DEF RuntimeInv, Registered
<1>1. CASE Dies
  <2>1. run' = [u \in Sessions |-> NoRun]
    BY ZenonT(60), <1>1 DEF Dies, ShutdownDone, Crash, RecoverKickFails, RecoverRefused, Dead
  <2> QED
    BY <1>0, <2>1 DEF NoRun
<1>2. CASE Shutdown
  BY <1>0, <1>2 DEF Shutdown, Registered
<1>3. ASSUME NEW u \in Sessions, NEW r, run' = [run EXCEPT ![u] = r],
             run[u].pc # "none" \/ r.pc = run[u].pc
      PROVE  FALSE
  BY <1>0, <1>3 DEF RuntimeShape
<1>4. ASSUME NEW u \in Sessions, NEW r, run' = [run EXCEPT ![u] = r] PROVE u = s
  BY <1>0, <1>4 DEF RuntimeShape
<1>5. ASSUME NEW u \in Sessions, MeterFails(u) \/ MeterStops(u) PROVE FALSE
  <2>1. PICK m : run' = [run EXCEPT ![u].meter = m]
    BY <1>5 DEF MeterFails, MeterStops
  <2> QED
    BY ZenonT(60), <1>0, <2>1 DEF RuntimeShape
<1>6. ASSUME NEW u \in Sessions, TermStep(u) PROVE FALSE
  <2>1. Registered(u) /\ run' = [run EXCEPT ![u].cancelled = TRUE]
    BY ZenonT(60), <1>0, <1>6 DEF TermStep, TermLoad, TermBegin, TermCancel, TermKick, TermDone,
       TermFinalize
  <2> QED
    BY ZenonT(60), <1>0, <2>1 DEF RuntimeShape
<1>7. ASSUME NEW u \in Sessions,
             \/ Await(u) \/ AwaitError(u) \/ Launch(u) \/ LaunchFailed(u) \/ LadderExited(u)
             \/ Cancelled(u) \/ BackoffOver(u) \/ \E ok \in BOOLEAN : FailKick(u, ok)
             \/ FailJoin(u) \/ FailJoinTimeout(u) \/ FailFinalize(u) \/ CloseLease(u)
             \/ releaseLocal(u)
      PROVE  FALSE
  <2>1. run[u].pc # "none" /\ \E at : To(u, at)
    BY ZenonT(60), <1>7 DEF Await, AwaitError, Launch, LaunchFailed, LadderExited, Cancelled,
       BackoffOver, FailKick, FailJoin, FailJoinTimeout, FailFinalize, CloseLease, releaseLocal
  <2> QED
    BY <1>0, <2>1, ToRuns DEF Runs
<1>8. ASSUME NEW u \in Sessions,
             MeterEnded(u) \/ AfterExit(u) \/ FailBegin(u) \/ Unwind(u) \/ remove(u)
      PROVE  FALSE
  <2>1. run[u].pc # "none" /\ (s # u => run'[s] = run[s])
    BY ZenonT(60), <1>0, <1>8 DEF MeterEnded, AfterExit, FailBegin, Unwind, remove, To, RuntimeShape
  <2> QED
    BY <1>0, <2>1
<1>9. ASSUME NEW u \in Sessions, CreateOrReplay(u) \/ CreateStep(u) PROVE CreateAdmitted(s)
  <2>1. CreateAdmitted(u) \/ CreateAnnounce(u) \/ CreateGivesBack(u)
    BY ZenonT(60), <1>0, <1>9 DEF CreateOrReplay, CreateStep, CreateLoad, CreateReplayed,
       CreateRefused, Refuse
  <2>2. CASE CreateAnnounce(u) \/ CreateGivesBack(u)
    <3>1. run[u].pc = "new" /\ \E r : run' = [run EXCEPT ![u] = r]
      BY <2>2 DEF CreateAnnounce, CreateGivesBack, Go, RuntimeInv, CreateOK
    <3> QED
      BY ZenonT(60), <1>3, <3>1
  <2>3. CASE CreateAdmitted(u)
    <3>1. \E r : run' = [run EXCEPT ![u] = r]
      BY ZenonT(60), <2>3 DEF CreateAdmitted, Admit
    <3> QED
      BY ZenonT(60), <1>4, <2>3, <3>1
  <2> QED
    BY <2>1, <2>2, <2>3
<1>10. ASSUME NEW u \in Sessions, RecoverActive(u) PROVE RecoverActive(s)
  <2>1. \E r : run' = [run EXCEPT ![u] = r]
    BY ZenonT(60), <1>10 DEF RecoverActive, Go
  <2> QED
    BY ZenonT(60), <1>4, <1>10, <2>1
<1>11. ASSUME NEW u \in Sessions,
              \/ Terminate(u) \/ TermAbandon(u) \/ Authorize(u) \/ Online(u) \/ Unpublish(u)
              \/ LadderExits(u) \/ RecoverStopping(u) \/ BatchStart \/ BatchEnd \/ Start \/ Serve
       PROVE  FALSE
  BY ZenonT(60), <1>0, <1>11 DEF Terminate, TermAbandon, Authorize, Online, Unpublish, LadderExits,
     RecoverStopping, BatchStart, BatchEnd, Start, Serve
<1>12. ASSUME NEW u \in Sessions, RunStep(u) PROVE FALSE
  BY ZenonT(60), <1>7, <1>8, <1>12 DEF RunStep
<1>13. ASSUME NEW u \in Sessions, SessionStep(u) PROVE CreateAdmitted(s) \/ RecoverActive(s)
  BY ZenonT(60), <1>1, <1>5, <1>6, <1>7, <1>9, <1>10, <1>11, <1>12, <1>13 DEF SessionStep, Dies
<1> QED
  BY ZenonT(60), <1>1, <1>2, <1>11, <1>13 DEF Next, Dies

\* A create that raced a DELETE starts no runtime for the session it ended.
THEOREM NoRuntimeAfterEndHolds == Spec => NoRuntimeAfterEnd
<1> DEFINE A == \A s \in Sessions :
                   rec[s].state = "ended" /\ ~Registered(s) => ~Registered(s)'
<1>1. RuntimeInv /\ [Next]_vars => [A]_vars
  <2> SUFFICES ASSUME RuntimeInv, Next, NEW s \in Sessions, rec[s].state = "ended",
                      ~Registered(s), Registered(s)'
               PROVE  FALSE
    OBVIOUS
  <2>1. CreateAdmitted(s) \/ RecoverActive(s)
    BY RegisterStep
  <2> QED
    BY <2>1 DEF CreateAdmitted, RecoverActive, RuntimeInv, CreateOK, NotDeleted
<1> QED
  BY <1>1, InitRuntimeInv, NextRuntimeInv, PTL DEF Spec, NoRuntimeAfterEnd

-----------------------------------------------------------------------------
(* The lease the live runner counts on is the one the gate implements.       *)

\* The batch work of the other processes, as one workload.
Batch == CHOOSE b : b \notin Sessions
GpuHolders ==
    {s \in Sessions : leases[s] # 0} \union (IF batch THEN {Batch} ELSE {})
RuntimeLeases == INSTANCE GpuLease WITH
    Workloads <- Sessions \union {Batch},
    Cohort <- [w \in Sessions \union {Batch} |-> IF w = Batch THEN "batch" ELSE "live"],
    holders <- GpuHolders

\* Batch work is no session.
LEMMA BatchApart == Batch \notin Sessions
<1>1. \E b : b \notin Sessions
  BY NoSetContainsEverything
<1> QED
  BY <1>1 DEF Batch

\* How a step changes the leases: one is granted while no batch work holds the
\* GPU, one or all are given back, or batch work comes or goes.
LEMMA LeaseSteps ==
  ASSUME RuntimeInv, Next
  PROVE  \/ UNCHANGED <<leases, batch>>
         \/ \E s \in Sessions : /\ run[s].pc = "none" /\ ~batch /\ UNCHANGED batch
                                /\ leases' = [leases EXCEPT ![s] = @ + 1]
         \/ \E s \in Sessions : /\ run[s].pc \in {"new", "joinmeter"} /\ UNCHANGED batch
                                /\ leases' = [leases EXCEPT ![s] = @ - 1]
         \/ leases' = [s \in Sessions |-> 0] /\ UNCHANGED batch
         \/ BatchStart \/ BatchEnd
<1> DEFINE P == UNCHANGED <<leases, batch>>
           G(s) == /\ run[s].pc = "none" /\ ~batch /\ UNCHANGED batch
                   /\ leases' = [leases EXCEPT ![s] = @ + 1]
           R(s) == /\ run[s].pc \in {"new", "joinmeter"} /\ UNCHANGED batch
                   /\ leases' = [leases EXCEPT ![s] = @ - 1]
           D == leases' = [s \in Sessions |-> 0] /\ UNCHANGED batch
<1>1. ASSUME NEW s \in Sessions, CreateOrReplay(s) \/ CreateStep(s) PROVE P \/ G(s) \/ R(s)
  <2>1. CASE CreateAdmitted(s)
    BY ZenonT(60), <2>1 DEF CreateAdmitted, Admit, Registered
  <2>2. CASE CreateGivesBack(s)
    BY <2>2 DEF CreateGivesBack, RuntimeInv, CreateOK
  <2> QED
    BY ZenonT(60), <1>1, <2>1, <2>2 DEF CreateOrReplay, CreateStep, CreateLoad, CreateReplayed,
       CreateRefused, Refuse, CreateAnnounce, capacity
<1>2. ASSUME NEW s \in Sessions, Terminate(s) \/ TermStep(s) \/ TermAbandon(s) PROVE P
  BY ZenonT(60), <1>2 DEF Terminate, TermStep, TermAbandon, TermLoad, TermBegin, TermCancel,
     TermKick, TermDone, TermFinalize, capacity
<1>3. ASSUME NEW s \in Sessions, RunStep(s) PROVE P \/ R(s)
  BY ZenonT(60), <1>3 DEF RunStep, Await, Launch, LaunchFailed, LadderExited, MeterEnded, Cancelled,
     AfterExit, BackoffOver, FailBegin, FailKick, FailJoin, FailFinalize, Unwind, CloseLease,
     releaseLocal, remove, capacity
<1>4. ASSUME NEW s \in Sessions,
             \/ AwaitError(s) \/ FailJoinTimeout(s) \/ MeterFails(s) \/ MeterStops(s)
             \/ Authorize(s) \/ Online(s) \/ Unpublish(s) \/ LadderExits(s)
             \/ RecoverStopping(s)
      PROVE  P
  BY ZenonT(60), <1>4 DEF AwaitError, FailJoinTimeout, MeterFails, MeterStops, Authorize, Online,
     Unpublish, LadderExits, RecoverStopping, capacity
<1>5. ASSUME NEW s \in Sessions, RecoverActive(s) PROVE G(s)
  BY ZenonT(60), <1>5 DEF RecoverActive, Registered
<1>6. ASSUME Dies PROVE D
  BY ZenonT(60), <1>6 DEF Dies, ShutdownDone, Crash, RecoverKickFails, RecoverRefused, Dead
<1>7. ASSUME Start \/ Serve \/ Shutdown PROVE P
  BY ZenonT(60), <1>7 DEF Start, Serve, Shutdown, capacity
<1> HIDE DEF P, G, R, D
<1>8. ASSUME NEW s \in Sessions, SessionStep(s)
      PROVE  P \/ D \/ \E u \in Sessions : G(u) \/ R(u)
  BY ZenonT(60), <1>1, <1>2, <1>3, <1>4, <1>5, <1>6, <1>8 DEF SessionStep, Dies
<1>9. P \/ D \/ (\E u \in Sessions : G(u) \/ R(u)) \/ BatchStart \/ BatchEnd
  BY ZenonT(60), <1>6, <1>7, <1>8 DEF Next, Dies
<1>10. CASE P \/ D \/ BatchStart \/ BatchEnd
  BY <1>10 DEF P, D
<1>11. ASSUME NEW u \in Sessions, G(u) \/ R(u)
       PROVE  \/ \E s \in Sessions : /\ run[s].pc = "none" /\ ~batch /\ UNCHANGED batch
                                     /\ leases' = [leases EXCEPT ![s] = @ + 1]
              \/ \E s \in Sessions : /\ run[s].pc \in {"new", "joinmeter"} /\ UNCHANGED batch
                                     /\ leases' = [leases EXCEPT ![s] = @ - 1]
  BY ZenonT(60), <1>11 DEF G, R
<1> QED
  BY ZenonT(60), <1>9, <1>10, <1>11

\* Live sessions and batch work never hold the GPU together: each step of the
\* live runner is a grant or a release of the cohort lease the gate implements.
THEOREM RuntimeImplementsLease == Spec => RuntimeLeases!Spec
<1>1. Init => RuntimeLeases!Init
  BY DEF Init, RuntimeLeases!Init, GpuHolders
<1>2. ASSUME RuntimeInv, [Next]_vars PROVE [RuntimeLeases!Next]_GpuHolders
  <2> USE BatchApart
  <2>1. RuntimeShape /\ CapacityExact /\ GpuHolders \subseteq Sessions \union {Batch}
    BY <1>2 DEF RuntimeInv, GpuHolders
  <2>2. CASE UNCHANGED <<leases, batch>>
    BY <2>2 DEF GpuHolders
  <2>3. ASSUME NEW s \in Sessions, run[s].pc = "none", ~batch, UNCHANGED batch,
               leases' = [leases EXCEPT ![s] = @ + 1]
        PROVE  RuntimeLeases!Next
    <3>1. leases[s] = 0 /\ leases'[s] = 1 /\ \A u \in Sessions \ {s} : leases'[u] = leases[u]
      BY <2>1, <2>3 DEF CapacityExact, RuntimeShape
    <3>2. /\ s \notin GpuHolders /\ GpuHolders \subseteq Sessions
          /\ GpuHolders' = GpuHolders \union {s}
      BY <2>3, <3>1 DEF GpuHolders
    <3>3. RuntimeLeases!Grant(s)
      BY <3>2 DEF RuntimeLeases!Grant
    <3> QED
      BY <3>3 DEF RuntimeLeases!Next
  <2>4. ASSUME NEW S, S \subseteq GpuHolders, GpuHolders' = GpuHolders \ S
        PROVE  RuntimeLeases!Next
    BY <2>1, <2>4 DEF RuntimeLeases!Next, RuntimeLeases!Release
  <2>5. ASSUME NEW s \in Sessions, run[s].pc \in {"new", "joinmeter"}, UNCHANGED batch,
               leases' = [leases EXCEPT ![s] = @ - 1]
        PROVE  RuntimeLeases!Next
    <3>1. leases[s] = 1 /\ leases'[s] = 0 /\ \A u \in Sessions \ {s} : leases'[u] = leases[u]
      BY <2>1, <2>5 DEF CapacityExact, RuntimeShape
    <3>2. {s} \subseteq GpuHolders /\ GpuHolders' = GpuHolders \ {s}
      BY <2>5, <3>1 DEF GpuHolders
    <3> QED
      BY ZenonT(60), <2>4, <3>2
  <2>6. CASE leases' = [s \in Sessions |-> 0] /\ UNCHANGED batch
    <3>1. GpuHolders' = GpuHolders \ (GpuHolders \ {Batch})
      BY <2>6 DEF GpuHolders
    <3> QED
      BY ZenonT(60), <2>4, <3>1
  <2>7. CASE BatchStart
    <3>1. GpuHolders = {} /\ GpuHolders' = {Batch}
      BY <2>7 DEF BatchStart, GpuHolders
    <3>2. RuntimeLeases!Grant(Batch)
      BY <3>1 DEF RuntimeLeases!Grant
    <3> QED
      BY <3>2 DEF RuntimeLeases!Next
  <2>8. CASE BatchEnd
    <3>1. {Batch} \subseteq GpuHolders /\ GpuHolders' = GpuHolders \ {Batch}
      BY <2>8 DEF BatchEnd, GpuHolders
    <3> QED
      BY ZenonT(60), <2>4, <3>1
  <2>9. CASE Next
    BY ZenonT(60), <1>2, <2>2, <2>3, <2>5, <2>6, <2>7, <2>8, <2>9, LeaseSteps
  <2>10. CASE UNCHANGED vars
    BY <2>2, <2>10 DEF vars
  <2> QED
    BY <1>2, <2>9, <2>10
<1> QED
  BY <1>1, <1>2, InitRuntimeInv, NextRuntimeInv, PTL DEF Spec, RuntimeLeases!Spec
=============================================================================
