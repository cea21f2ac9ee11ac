--------------------------- MODULE MCGpuAdmission ---------------------------
(* Two live and two batch workloads; a live pair shares a process.           *)
EXTENDS GpuAdmission, TLC

CONSTANTS l1, l2, b1, b2

MCCohort == l1 :> "live" @@ l2 :> "live" @@ b1 :> "batch" @@ b2 :> "batch"
MCProcessOf == l1 :> "live_runner" @@ l2 :> "live_runner"
               @@ b1 :> "abr_runner" @@ b2 :> "transcode_runner"
=============================================================================
