----------------------------- MODULE VideoSystem -----------------------------
(***************************************************************************)
(* The profile service and the job scheduler together, as they share the  *)
(* database of migration 27:                                              *)
(*  - create_job reads the profile (404), re-checks mode and consent and   *)
(*    requires a reference image before it inserts the job row;           *)
(*  - _process_job reads the profile again and re-validates it before the *)
(*    running transition;                                                 *)
(*  - delete_profile cascades to the profile's job rows (ON DELETE         *)
(*    CASCADE) and sets its assets' profile_id to NULL (ON DELETE SET      *)
(*    NULL); the worker may be processing one of those jobs;              *)
(*  - the asset row of a completed job names the job's profile, so its     *)
(*    insert fails on the foreign key once the profile is gone;           *)
(*  - the consent configuration is read at every check and changes only    *)
(*    when the process is started again.                                  *)
(* All HTTP handlers (job, profile and image store ones) run one at a     *)
(* time on the event loop: a profile handler runs only while no job       *)
(* handler is between two of its transactions.                            *)
(***************************************************************************)
EXTENDS Naturals

CONSTANTS
  MaxJobs, MaxHalts, DiskCanFail,                  \* as in VideoJobs
  Profiles, Images, Blank, MaxNames, Configs, Unset, \* as in VideoProfiles
  NoProfile   \* a NULL profile_id

VARIABLES
  svc, halts, nextJob, status, cancelReq, output, ended, assets, queued,
  wpc, wjob, active, proc, temp, stopEvent, apc, ajob, astale,
  profiles, used, mode, consent, refs, images, requireConsent, result,
  jobProfile,    \* video_jobs.profile_id
  assetProfile   \* video_assets.profile_id of each job's asset

J == INSTANCE VideoJobs
P == INSTANCE VideoProfiles

ASSUME NoProfileAssumption == NoProfile \notin Profiles
ASSUME SysConfigsAssumption == Configs \subseteq BOOLEAN
ASSUME SysJobsAssumption ==
  MaxJobs \in Nat \ {0} /\ MaxHalts \in Nat /\ DiskCanFail \in BOOLEAN

jvars == <<svc, halts, nextJob, status, cancelReq, output, ended, assets,
           queued, wpc, wjob, active, proc, temp, stopEvent, apc, ajob, astale>>
links == <<jobProfile, assetProfile>>
pvars == <<profiles, used, mode, consent, refs, images, requireConsent, result>>
vars == <<jvars, pvars, links>>

SysTypeOK ==
  /\ J!TypeOK
  /\ P!ProfileTypeOK
  /\ jobProfile \in [J!Jobs -> Profiles \cup {NoProfile}]
  /\ assetProfile \in [J!Jobs -> Profiles \cup {NoProfile}]

SysInit ==
  /\ J!Init
  /\ P!ProfileInit
  /\ jobProfile = [j \in J!Jobs |-> NoProfile]
  /\ assetProfile = [j \in J!Jobs |-> NoProfile]

(* A profile passes _validate_profile_mode under the current config.      *)
Consented(p) == P!ValidProfileMode(mode[p], consent[p])

-----------------------------------------------------------------------------
(* create_job for profile p: get_profile, _validate_profile_mode and the  *)
(* reference check pass, and the waiting row is inserted with profile_id. *)
(* A failing check raises before any write.                               *)
SysCreateJob(p) ==
  /\ p \in profiles
  /\ Consented(p)
  /\ refs[p] # <<>>
  /\ J!CreateJob
  /\ jobProfile' = [jobProfile EXCEPT ![nextJob + 1] = p]
  /\ UNCHANGED <<pvars, assetProfile>>

(* start(): the process starts with the configuration now in force.       *)
SysStart ==
  /\ J!Start
  /\ requireConsent' \in Configs
  /\ UNCHANGED <<profiles, used, mode, consent, refs, images, result, links>>

(* Mutant of SysWorkerStart: the profile is not validated again.          *)
SysWorkerStart_NoRevalidate ==
  /\ J!WorkerStart
  /\ UNCHANGED <<pvars, links>>

(* _process_job: get_profile raises when the profile is gone and          *)
(* _validate_profile_mode when it no longer passes; either escapes before *)
(* the try block and leaves the job as it is.  Otherwise the disk check   *)
(* and the running transition of VideoJobs.                               *)
SysWorkerStart ==
  \/ /\ wpc = "start"
     /\ ~(jobProfile[wjob] \in profiles /\ Consented(jobProfile[wjob]))
     /\ wpc' = "idle"
     /\ UNCHANGED <<svc, halts, nextJob, status, cancelReq, output, ended, assets, queued, wjob, active, proc,
                    temp, stopEvent, apc, ajob, astale, pvars, links>>
  \/ /\ wpc = "start"
     /\ jobProfile[wjob] \in profiles
     /\ Consented(jobProfile[wjob])
     /\ J!WorkerStart
     /\ UNCHANGED <<pvars, links>>

(* The completion transaction; a new asset row takes the job's profile.   *)
SysWorkerComplete ==
  /\ J!WorkerComplete
  /\ assetProfile' = [j \in J!Jobs |->
                        IF j \in assets' \ assets THEN jobProfile[j]
                        ELSE assetProfile[j]]
  /\ UNCHANGED <<pvars, jobProfile>>

(* delete_profile(p): the row goes, and with it (CASCADE) its references  *)
(* and its job rows; its assets keep their row with profile_id NULL.      *)
SysDeleteProfile(p) ==
  LET gone == {j \in J!Jobs : status[j] # "none" /\ jobProfile[j] = p} IN
  /\ P!DeleteProfile(p)
  /\ status' = [j \in J!Jobs |-> IF j \in gone THEN "none" ELSE status[j]]
  /\ cancelReq' = [j \in J!Jobs |-> cancelReq[j] /\ j \notin gone]
  /\ output' = [j \in J!Jobs |-> output[j] /\ j \notin gone]
  /\ ended' = [j \in J!Jobs |-> ended[j] /\ j \notin gone]
  /\ assetProfile' = [j \in J!Jobs |->
                        IF assetProfile[j] = p THEN NoProfile
                        ELSE assetProfile[j]]
  /\ UNCHANGED <<svc, halts, nextJob, assets, queued, wpc, wjob, active,
                 proc, temp, stopEvent, apc, ajob, astale, jobProfile>>

(* A profile or image store handler other than delete_profile.  The       *)
(* configuration changes only with SysStart.                              *)
ProfileHandler ==
  \/ \E m \in P!Modes, c \in BOOLEAN : P!CreateProfile(m, c)
  \/ \E p \in Profiles, m \in P!Modes \cup {Unset}, c \in BOOLEAN \cup {Unset} :
       P!UpdateProfile(p, m, c)
  \/ \E p \in Profiles, L \in P!Requests : P!SetReferences(p, L)
  \/ \E i \in Images : P!ImageAdded(i) \/ P!ImageDeleted(i)

(* Steps of VideoJobs that neither read nor write profiles.               *)
JobStep ==
  \/ J!CreateJobEnqueue \/ J!CancelJobCommit \/ J!CancelJobSignal
  \/ \E j \in J!Jobs : J!CancelJob(j) \/ J!ProcExit(j)
  \/ J!Stop \/ J!Exit \/ J!Crash
  \/ J!WorkerLoop \/ J!WorkerTimeout \/ J!WorkerDequeue
  \/ J!WorkerCheckCancel \/ J!WorkerKeyframes \/ J!WorkerEncoding
  \/ J!WorkerSpawn \/ J!WorkerPoll \/ J!WorkerFinalCheck
  \/ J!WorkerMarkCancelled \/ J!WorkerMarkError

SysNext ==
  \/ JobStep /\ UNCHANGED <<pvars, links>>
  \/ \E p \in Profiles : SysCreateJob(p)
  \/ SysStart
  \/ SysWorkerStart
  \/ SysWorkerComplete
  \/ /\ svc = "running" /\ apc = "idle"
     /\ \/ \E p \in Profiles : SysDeleteProfile(p)
        \/ ProfileHandler /\ UNCHANGED <<jvars, links>>

SysSpec == SysInit /\ [][SysNext]_vars

-----------------------------------------------------------------------------
(* Spec 4.4 step 3: a job is only encoded for a profile that passes the   *)
(* mode and consent rule of the configuration in force, also when it was  *)
(* created under another configuration before a restart.                  *)
EncodeOnlyConsented ==
  \A j \in J!Jobs :
    status[j] \in {"running", "encoding"} => Consented(jobProfile[j])
=============================================================================
