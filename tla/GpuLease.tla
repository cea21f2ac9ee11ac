------------------------------ MODULE GpuLease ------------------------------
(***************************************************************************)
(* What GPU admission promises (transcode-core/gpu_admission.go, the        *)
(* comment on GPUAdmissionCohort): workloads of one cohort may hold the     *)
(* physical GPU together, live and batch workloads never do, and leases can *)
(* be given back singly or, when a process dies, several at once.           *)
(***************************************************************************)
CONSTANTS Workloads, Cohort

VARIABLE holders

Init == holders = {}

Grant(w) ==
    /\ w \notin holders
    /\ \A h \in holders : Cohort[h] = Cohort[w]
    /\ holders' = holders \cup {w}

Release(S) ==
    /\ S \subseteq holders
    /\ holders' = holders \ S

Next ==
    \/ \E w \in Workloads : Grant(w)
    \/ \E S \in SUBSET Workloads : Release(S)

Spec == Init /\ [][Next]_holders
=============================================================================
