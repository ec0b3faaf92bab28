----------------------------- MODULE MCVideoJobs -----------------------------
(* Model-checking instance of VideoJobs.  Three jobs let one run, one wait *)
(* behind it and one be created meanwhile; two halts let a stop and a      *)
(* crash both happen, with a restart in between.  The liveness run uses    *)
(* two jobs and one halt to keep the fair-cycle search small.             *)
EXTENDS VideoJobs

MCMaxJobs == 3
MCMaxHalts == 2
MCLiveJobs == 2
MCLiveHalts == 1
MCNoHalts == 0
=============================================================================
