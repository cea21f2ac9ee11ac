---------------------------- MODULE GpuAdmission ----------------------------
(***************************************************************************)
(* The cross-process GPU admission gate, transcode-core/gpu_admission.go.   *)
(*                                                                          *)
(* Live and batch runners on one host share three lock files: .mutex, .live *)
(* and .batch.  Acquire takes the mutex, probes the opposing cohort's file  *)
(* with a non-blocking exclusive flock, drops that lock, and keeps a shared *)
(* flock on its own cohort's file for the lifetime of the workload.  Every  *)
(* system call is a step of its own, so the calls of several processes      *)
(* interleave.  A workload opens its own descriptors, hence its own locks;  *)
(* the kernel drops all of them when the process dies.                      *)
(***************************************************************************)
CONSTANTS
    Workloads,   \* concurrent callers of Acquire
    Cohort,      \* [Workloads -> {"live", "batch"}]
    Processes,
    ProcessOf    \* the process a workload runs in

ASSUME CohortAssumption == Cohort \in [Workloads -> {"live", "batch"}]
ASSUME ProcessAssumption == ProcessOf \in [Workloads -> Processes]

VARIABLES
    pc,   \* where each caller is in Acquire
    ex,   \* holders of an exclusive flock, per file
    sh    \* holders of a shared flock, per file

gateVars == <<pc, ex, sh>>

Files == {"mutex", "live", "batch"}
Opposing(w) == IF Cohort[w] = "live" THEN "batch" ELSE "live"

\* flock, seen from one more open file description.
ExclusiveFree(f) == ex[f] = {} /\ sh[f] = {}
SharedFree(f) == ex[f] = {}

GateInit ==
    /\ pc = [w \in Workloads |-> "idle"]
    /\ ex = [f \in Files |-> {}]
    /\ sh = [f \in Files |-> {}]

\* Acquire opens the mutex file ...
Call(w) ==
    /\ pc[w] = "idle"
    /\ pc' = [pc EXCEPT ![w] = "mutex"]
    /\ UNCHANGED <<ex, sh>>

\* Mutant: the admission is not serialized.
LockMutex_shared(w) ==
    /\ pc[w] = "mutex"
    /\ pc' = [pc EXCEPT ![w] = "probe"]
    /\ UNCHANGED <<ex, sh>>

\* ... and blocks in flock(LOCK_EX) until it is free.
LockMutex(w) ==
    /\ pc[w] = "mutex"
    /\ ExclusiveFree("mutex")
    /\ ex' = [ex EXCEPT !["mutex"] = {w}]
    /\ pc' = [pc EXCEPT ![w] = "probe"]
    /\ UNCHANGED sh

\* Mutant: the probe is given up for a shared one, which never conflicts.
ProbeOpposing_shared(w) ==
    /\ pc[w] = "probe"
    /\ SharedFree(Opposing(w))
    /\ pc' = [pc EXCEPT ![w] = "own"]
    /\ UNCHANGED <<ex, sh>>

\* LOCK_EX|LOCK_NB on the opposing cohort: any live lease refuses it.
ProbeOpposing(w) ==
    /\ pc[w] = "probe"
    /\ IF ExclusiveFree(Opposing(w))
       THEN /\ ex' = [ex EXCEPT ![Opposing(w)] = {w}]
            /\ pc' = [pc EXCEPT ![w] = "unprobe"]
       ELSE /\ pc' = [pc EXCEPT ![w] = "refused"]
            /\ UNCHANGED ex
    /\ UNCHANGED sh

\* The probe's lock is dropped before the own lease is taken.
DropProbe(w) ==
    /\ pc[w] = "unprobe"
    /\ ex' = [ex EXCEPT ![Opposing(w)] = {}]
    /\ pc' = [pc EXCEPT ![w] = "own"]
    /\ UNCHANGED sh

\* LOCK_SH|LOCK_NB on the own cohort.
TakeOwn(w) ==
    /\ pc[w] = "own"
    /\ IF SharedFree(Cohort[w])
       THEN /\ sh' = [sh EXCEPT ![Cohort[w]] = @ \cup {w}]
            /\ pc' = [pc EXCEPT ![w] = "granted"]
       ELSE /\ pc' = [pc EXCEPT ![w] = "refused"]
            /\ UNCHANGED sh
    /\ UNCHANGED ex

\* An open or a flock fails for another reason; Acquire returns the error.
SystemError(w) ==
    /\ pc[w] \in {"probe", "own"}
    /\ pc' = [pc EXCEPT ![w] = "failed"]
    /\ UNCHANGED <<ex, sh>>

\* The same before the mutex is held: there is nothing to unlock.
MutexError(w) ==
    /\ pc[w] = "mutex"
    /\ pc' = [pc EXCEPT ![w] = "idle"]
    /\ UNCHANGED <<ex, sh>>

\* The deferred unlock, on every path out of Acquire.
UnlockMutex(w) ==
    /\ pc[w] \in {"granted", "refused", "failed"}
    /\ ex' = [ex EXCEPT !["mutex"] = {}]
    /\ pc' = [pc EXCEPT ![w] = IF @ = "granted" THEN "held" ELSE "idle"]
    /\ UNCHANGED sh

\* Mutant: the lease's descriptor is not closed.
Close_leaks(w) ==
    /\ pc[w] = "held"
    /\ pc' = [pc EXCEPT ![w] = "idle"]
    /\ UNCHANGED <<ex, sh>>

\* GPUAdmissionLease.Close, at the end of the workload.
Close(w) ==
    /\ pc[w] = "held"
    /\ sh' = [sh EXCEPT ![Cohort[w]] = @ \ {w}]
    /\ pc' = [pc EXCEPT ![w] = "idle"]
    /\ UNCHANGED ex

\* A process dies: the kernel closes its descriptors and drops their locks.
ProcessDies(p) ==
    LET dead == {w \in Workloads : ProcessOf[w] = p} IN
    /\ pc' = [w \in Workloads |-> IF w \in dead THEN "idle" ELSE pc[w]]
    /\ ex' = [f \in Files |-> ex[f] \ dead]
    /\ sh' = [f \in Files |-> sh[f] \ dead]

Acquire(w) ==
    \/ LockMutex(w)
    \/ ProbeOpposing(w)
    \/ DropProbe(w)
    \/ TakeOwn(w)
    \/ UnlockMutex(w)

GateNext ==
    \/ \E w \in Workloads : \/ Call(w)
                            \/ Acquire(w)
                            \/ SystemError(w)
                            \/ MutexError(w)
                            \/ Close(w)
    \/ \E p \in Processes : ProcessDies(p)

GateSpec == GateInit /\ [][GateNext]_gateVars

-----------------------------------------------------------------------------
(* Properties.                                                              *)

\* Callers are at a known place in Acquire and locks belong to callers.
GateTypeOK ==
    /\ pc \in [Workloads -> {"idle", "mutex", "probe", "unprobe", "own", "granted",
                             "refused", "failed", "held"}]
    /\ ex \in [Files -> SUBSET Workloads]
    /\ sh \in [Files -> SUBSET Workloads]

\* Acquire refuses for capacity only while a workload of the opposing cohort
\* holds a lease.  Members of one cohort never refuse each other, although each
\* of them passes through an exclusive lock on the other cohort's file.
RefusedOnlyByOpposing ==
    [][\A w \in Workloads :
         pc[w] # "refused" /\ pc'[w] = "refused" =>
           \E h \in sh[Opposing(w)] : Cohort[h] # Cohort[w]]_gateVars

\* The cohort files are locked by the workloads that were granted a lease and
\* by no other: a crashed, failed or refused caller leaves no lock behind.
NothingStranded ==
    /\ \A c \in {"live", "batch"} :
         sh[c] = {w \in Workloads : Cohort[w] = c /\ pc[w] \in {"granted", "held"}}
    /\ ex["mutex"] = {w \in Workloads :
                        pc[w] \notin {"idle", "mutex", "held"}}

\* The gate implements the lease it promises: live and batch workloads never
\* hold the GPU together.
Leases == INSTANCE GpuLease WITH holders <- sh["live"] \cup sh["batch"]
ImplementsLease == Leases!Spec
=============================================================================
