-------------------------- MODULE VideoSystem_proofs --------------------------
(***************************************************************************)
(* Proofs about the composition of profiles and jobs, for every number of *)
(* jobs, halts, profile ids and images.                                   *)
(***************************************************************************)
EXTENDS VideoSystem, ReferenceLists_proofs, TLAPS

Jobs == J!Jobs

(* A step keeps status a function on the jobs and writes no row that did  *)
(* not exist: every UPDATE of the worker and of cancel_job misses a       *)
(* deleted row.                                                           *)
StatusKept ==
  /\ status' \in [Jobs -> J!Statuses]
  /\ \A k \in Jobs : status'[k] # "none" => status[k] # "none"

(* "UPDATE video_jobs SET status = v WHERE id = j" creates no row.        *)
LEMMA RowUpdateKept ==
  ASSUME status \in [Jobs -> J!Statuses],
         NEW j, NEW v \in J!Statuses \ {"none"},
         status' = J!RowUpdate(status, j, v)
  PROVE  StatusKept
  BY DEF StatusKept, J!RowUpdate, Jobs

LEMMA UnchangedKept ==
  ASSUME status \in [Jobs -> J!Statuses], status' = status
  PROVE  StatusKept
  BY DEF StatusKept

(* The job rows that exist belong to existing profiles: delete_profile's *)
(* cascade removes a profile's rows and every later UPDATE of the worker  *)
(* misses them.  It is what keeps the profile of a running job readable  *)
(* in EncodeConsented.                                                    *)
NoJobOfDeletedProfile ==
  \A j \in J!Jobs : status[j] # "none" => jobProfile[j] \in profiles

(* The invariant: the job rows that exist belong to existing profiles.    *)
SInv ==
  /\ status \in [Jobs -> J!Statuses]
  /\ jobProfile \in [Jobs -> Profiles \cup {NoProfile}]
  /\ NoJobOfDeletedProfile

LEMMA SInit == SysInit => SInv
  BY DEF SysInit, J!Init, SInv, NoJobOfDeletedProfile, Jobs, J!Statuses

(* A step that keeps the profiles and the jobs' profile_id, and creates   *)
(* no row, keeps the invariant.                                           *)
LEMMA KeptStep ==
  ASSUME SInv, StatusKept, profiles' = profiles, jobProfile' = jobProfile
  PROVE  SInv'
  BY DEF SInv, StatusKept, NoJobOfDeletedProfile, Jobs

(* Every step of VideoJobs other than the insert of create_job creates no *)
(* job row.                                                               *)
LEMMA JobStepKept ==
  ASSUME SInv, JobStep
  PROVE  StatusKept
<1> USE DEF SInv
<1> DEFINE Unch == status' = status
<1>1. CASE J!CreateJobEnqueue \/ J!CancelJobSignal \/ J!Stop \/ J!Exit
           \/ J!Crash \/ J!WorkerLoop \/ J!WorkerTimeout \/ J!WorkerDequeue
           \/ J!WorkerKeyframes \/ J!WorkerSpawn \/ J!WorkerPoll
           \/ J!WorkerFinalCheck
  <2>1. Unch
    BY <1>1 DEF J!CreateJobEnqueue, J!CancelJobSignal, J!Stop, J!Exit,
                J!Crash, J!WorkerLoop, J!WorkerTimeout, J!WorkerDequeue,
                J!WorkerKeyframes, J!WorkerSpawn, J!WorkerPoll,
                J!WorkerFinalCheck, J!WorkerUnchanged, J!VolatileLost, J!db
  <2>2. QED
    BY <2>1, UnchangedKept
<1>2. CASE \E j \in J!Jobs : J!CancelJob(j) \/ J!ProcExit(j)
  <2>1. Unch
    BY <1>2 DEF J!CancelJob, J!ProcExit, J!db
  <2>2. QED
    BY <2>1, UnchangedKept
<1>3. CASE J!CancelJobCommit
  <2>1. CASE astale = "waiting"
    BY <1>3, <2>1, RowUpdateKept DEF J!CancelJobCommit, J!Statuses
  <2>2. CASE astale # "waiting"
    BY <1>3, <2>2, UnchangedKept DEF J!CancelJobCommit
  <2>3. QED
    BY <2>1, <2>2
<1>4. CASE J!WorkerCheckCancel
  <2>1. CASE J!CancelRequested(wjob)
    BY <1>4, <2>1, RowUpdateKept DEF J!WorkerCheckCancel, J!Statuses
  <2>2. CASE ~J!CancelRequested(wjob)
    BY <1>4, <2>2, UnchangedKept DEF J!WorkerCheckCancel
  <2>3. QED
    BY <2>1, <2>2
<1>5. CASE J!WorkerEncoding
  BY <1>5, RowUpdateKept DEF J!WorkerEncoding, J!Statuses
<1>6. CASE J!WorkerMarkCancelled
  BY <1>6, RowUpdateKept DEF J!WorkerMarkCancelled, J!Statuses
<1>7. CASE J!WorkerMarkError
  BY <1>7, RowUpdateKept DEF J!WorkerMarkError, J!Statuses
<1>8. QED
  BY <1>1, <1>2, <1>3, <1>4, <1>5, <1>6, <1>7 DEF JobStep

(* The profile handlers other than delete_profile remove no profile row.  *)
LEMMA HandlerKeepsProfiles ==
  ASSUME ProfileHandler
  PROVE  profiles \subseteq profiles'
  BY DEF ProfileHandler, P!CreateProfile, P!UpdateProfile, P!SetReferences,
         P!Reject, P!ImageAdded, P!ImageDeleted

LEMMA SStep == SInv /\ [SysNext]_vars => SInv'
<1> SUFFICES ASSUME SInv, [SysNext]_vars PROVE SInv'
  OBVIOUS
<1>1. CASE JobStep /\ UNCHANGED <<pvars, links>>
  BY <1>1, JobStepKept, KeptStep DEF pvars, links
<1>2. CASE \E p \in Profiles : SysCreateJob(p)
  <2> PICK p \in Profiles : SysCreateJob(p)
    BY <1>2
  <2>1. /\ status' = [status EXCEPT ![nextJob + 1] = "waiting"]
        /\ jobProfile' = [jobProfile EXCEPT ![nextJob + 1] = p]
        /\ p \in profiles /\ profiles' = profiles
    BY DEF SysCreateJob, J!CreateJob, pvars
  <2>2. QED
    BY <2>1 DEF SInv, NoJobOfDeletedProfile, Jobs, J!Statuses
<1>3. CASE SysStart
  <2>1. StatusKept
    BY <1>3 DEF SysStart, J!Start, SInv, StatusKept, Jobs, J!Statuses
  <2>2. QED
    BY <1>3, <2>1, KeptStep DEF SysStart, links
<1>4. CASE SysWorkerStart
  <2>1. StatusKept
    <3>1. CASE status' = status
      BY <3>1, UnchangedKept DEF SInv
    <3>2. CASE status' = J!RowUpdate(status, wjob, "running")
      BY <3>2, RowUpdateKept DEF SInv, J!Statuses
    <3>3. QED
      BY <1>4, <3>1, <3>2 DEF SysWorkerStart, J!WorkerStart
  <2>2. QED
    BY <1>4, <2>1, KeptStep DEF SysWorkerStart, pvars, links
<1>5. CASE SysWorkerComplete
  <2>1. StatusKept
    BY <1>5 DEF SysWorkerComplete, J!WorkerComplete, SInv, StatusKept,
                Jobs, J!Statuses
  <2>2. QED
    BY <1>5, <2>1, KeptStep DEF SysWorkerComplete, pvars
<1>6. CASE \E p \in Profiles : SysDeleteProfile(p)
  <2> PICK p \in Profiles : SysDeleteProfile(p)
    BY <1>6
  <2>1. /\ profiles' = profiles \ {p}
        /\ status' = [j \in Jobs |->
                        IF status[j] # "none" /\ jobProfile[j] = p
                        THEN "none" ELSE status[j]]
        /\ jobProfile' = jobProfile
    BY DEF SysDeleteProfile, P!DeleteProfile, Jobs
  <2>2. QED
    BY <2>1 DEF SInv, NoJobOfDeletedProfile, Jobs, J!Statuses
<1>7. CASE ProfileHandler /\ UNCHANGED <<jvars, links>>
  BY <1>7, HandlerKeepsProfiles DEF jvars, links, SInv, NoJobOfDeletedProfile
<1>8. CASE UNCHANGED vars
  BY <1>8 DEF vars, jvars, pvars, links, SInv, NoJobOfDeletedProfile
<1>9. QED
  BY <1>1, <1>2, <1>3, <1>4, <1>5, <1>6, <1>7, <1>8 DEF SysNext

-----------------------------------------------------------------------------
(* The worker between the running transition and the end of the try      *)
(* block: _process_job validated its job's profile under the current      *)
(* configuration, and as long as the row exists that still holds, for    *)
(* the UPDATE to encoding may still come.                                 *)
WorkerConsented ==
  wpc \in J!InTry /\ wjob \in Jobs /\ status[wjob] # "none"
    => Consented(jobProfile[wjob])

(* The invariant behind EncodeOnlyConsented.                              *)
EInv ==
  /\ SInv
  /\ profiles \subseteq used
  /\ mode \in [Profiles -> P!Modes]
  /\ consent \in [Profiles -> BOOLEAN]
  /\ requireConsent \in BOOLEAN
  /\ EncodeOnlyConsented
  /\ WorkerConsented

Active == {"running", "encoding"}

(* A job row becomes running or encoding only if it already was, or by    *)
(* the worker's UPDATE to encoding inside the try block.                  *)
ActiveFrom ==
  \A k \in Jobs :
    status'[k] \in Active =>
      \/ status[k] \in Active
      \/ k = wjob /\ wpc \in J!InTry /\ status[k] # "none"

(* A job step enters the try block only from inside it, on the same job.  *)
TryKept == wpc' \in J!InTry => wpc \in J!InTry /\ wjob' = wjob

(* An UPDATE to a status that is neither running nor encoding.            *)
LEMMA RowUpdatePassive ==
  ASSUME status \in [Jobs -> J!Statuses],
         NEW j, NEW v \in J!Statuses \ Active,
         status' = J!RowUpdate(status, j, v)
  PROVE  ActiveFrom
  BY DEF ActiveFrom, J!RowUpdate, Jobs, Active

LEMMA JobStepActive ==
  ASSUME SInv, JobStep
  PROVE  ActiveFrom /\ TryKept
<1> USE DEF SInv
<1>1. CASE J!CreateJobEnqueue \/ J!CancelJobSignal \/ J!Stop
           \/ J!WorkerLoop \/ J!WorkerTimeout \/ J!WorkerKeyframes
           \/ J!WorkerSpawn \/ J!WorkerPoll \/ J!WorkerFinalCheck
  BY <1>1 DEF J!CreateJobEnqueue, J!CancelJobSignal, J!Stop,
              J!WorkerLoop, J!WorkerTimeout, J!WorkerKeyframes, J!WorkerSpawn,
              J!WorkerPoll, J!WorkerFinalCheck, J!WorkerUnchanged, J!db,
              J!InTry, ActiveFrom, TryKept
<1>2. CASE J!Exit \/ J!Crash
  BY <1>2 DEF J!Exit, J!Crash, J!VolatileLost, J!db, J!InTry,
              ActiveFrom, TryKept
<1>3. CASE J!WorkerDequeue
  BY <1>3 DEF J!WorkerDequeue, J!WorkerUnchanged, J!db, J!InTry,
              ActiveFrom, TryKept
<1>4. CASE \E j \in J!Jobs : J!CancelJob(j) \/ J!ProcExit(j)
  BY <1>4 DEF J!CancelJob, J!ProcExit, J!db, ActiveFrom, TryKept
<1>5. CASE J!CancelJobCommit
  <2>1. TryKept
    BY <1>5 DEF J!CancelJobCommit, TryKept
  <2>2. CASE astale = "waiting"
    BY <1>5, <2>1, <2>2, RowUpdatePassive DEF J!CancelJobCommit, J!Statuses, Active
  <2>3. CASE astale # "waiting"
    BY <1>5, <2>1, <2>3 DEF J!CancelJobCommit, ActiveFrom
  <2>4. QED
    BY <2>2, <2>3
<1>6. CASE J!WorkerCheckCancel
  <2>1. TryKept
    BY <1>6 DEF J!WorkerCheckCancel, J!WorkerUnchanged, J!InTry, TryKept
  <2>2. CASE J!CancelRequested(wjob)
    BY <1>6, <2>1, <2>2, RowUpdatePassive
       DEF J!WorkerCheckCancel, J!Statuses, Active
  <2>3. CASE ~J!CancelRequested(wjob)
    BY <1>6, <2>1, <2>3 DEF J!WorkerCheckCancel, ActiveFrom
  <2>4. QED
    BY <2>2, <2>3
<1>7. CASE J!WorkerEncoding
  <2>1. TryKept
    BY <1>7 DEF J!WorkerEncoding, J!WorkerUnchanged, J!InTry, TryKept
  <2>2. ActiveFrom
    BY <1>7 DEF J!WorkerEncoding, J!RowUpdate, J!InTry, ActiveFrom, Jobs
  <2>3. QED
    BY <2>1, <2>2
<1>8. CASE J!WorkerMarkCancelled \/ J!WorkerMarkError
  <2>1. TryKept
    BY <1>8 DEF J!WorkerMarkCancelled, J!WorkerMarkError, J!WorkerUnchanged,
                J!InTry, TryKept
  <2>2. ActiveFrom
    BY <1>8, RowUpdatePassive
       DEF J!WorkerMarkCancelled, J!WorkerMarkError, J!Statuses, Active
  <2>3. QED
    BY <2>1, <2>2
<1>9. QED
  BY <1>1, <1>2, <1>3, <1>4, <1>5, <1>6, <1>7, <1>8 DEF JobStep

(* A profile handler other than delete_profile keeps every stored        *)
(* profile consented: create_profile writes only a fresh id and           *)
(* update_profile validates the effective post-patch values; neither      *)
(* changes the configuration.                                             *)
LEMMA HandlerKeepsConsent ==
  ASSUME mode \in [Profiles -> P!Modes], consent \in [Profiles -> BOOLEAN],
         requireConsent \in BOOLEAN, profiles \subseteq used,
         ProfileHandler
  PROVE  /\ mode' \in [Profiles -> P!Modes]
         /\ consent' \in [Profiles -> BOOLEAN]
         /\ requireConsent' = requireConsent
         /\ profiles' \subseteq used'
         /\ \A q \in profiles : Consented(q) => Consented(q)'
<1>1. CASE \E m \in P!Modes, c \in BOOLEAN : P!CreateProfile(m, c)
  <2> PICK m \in P!Modes, c \in BOOLEAN : P!CreateProfile(m, c)
    BY <1>1
  <2>1. CASE ~P!ValidProfileMode(m, c) /\ P!Reject("invalid")
    BY <2>1 DEF P!Reject, Consented, P!ValidProfileMode
  <2>2. CASE /\ P!ValidProfileMode(m, c)
             /\ \E p \in Profiles \ used :
                  /\ profiles' = profiles \cup {p}
                  /\ used' = used \cup {p}
                  /\ mode' = [mode EXCEPT ![p] = m]
                  /\ consent' = [consent EXCEPT ![p] = c]
             /\ requireConsent' = requireConsent
    <3> PICK p \in Profiles \ used :
              /\ profiles' = profiles \cup {p}
              /\ used' = used \cup {p}
              /\ mode' = [mode EXCEPT ![p] = m]
              /\ consent' = [consent EXCEPT ![p] = c]
      BY <2>2
    <3>1. \A q \in profiles : mode'[q] = mode[q] /\ consent'[q] = consent[q]
      OBVIOUS
    <3>2. QED
      BY <2>2, <3>1 DEF Consented, P!ValidProfileMode
  <2>3. QED
    BY <2>1, <2>2 DEF P!CreateProfile
<1>2. CASE \E p \in Profiles, m \in P!Modes \cup {Unset}, c \in BOOLEAN \cup {Unset} :
             P!UpdateProfile(p, m, c)
  <2> PICK p \in Profiles, m \in P!Modes \cup {Unset}, c \in BOOLEAN \cup {Unset} :
             P!UpdateProfile(p, m, c)
    BY <1>2
  <2>0. /\ (IF m = Unset THEN mode[p] ELSE m) \in P!Modes
        /\ (IF c = Unset THEN consent[p] ELSE c) \in BOOLEAN
    OBVIOUS
  <2>1. CASE p \notin profiles /\ P!Reject("not_found")
    BY <2>1 DEF P!Reject, Consented, P!ValidProfileMode
  <2>2. CASE /\ p \in profiles
             /\ ~P!ValidProfileMode(IF m = Unset THEN mode[p] ELSE m,
                                    IF c = Unset THEN consent[p] ELSE c)
             /\ P!Reject("invalid")
    BY <2>2 DEF P!Reject, Consented, P!ValidProfileMode
  <2>3. CASE /\ p \in profiles
             /\ P!ValidProfileMode(IF m = Unset THEN mode[p] ELSE m,
                                   IF c = Unset THEN consent[p] ELSE c)
             /\ mode' = [mode EXCEPT ![p] = IF m = Unset THEN mode[p] ELSE m]
             /\ consent' = [consent EXCEPT ![p] = IF c = Unset THEN consent[p] ELSE c]
             /\ UNCHANGED <<profiles, used, requireConsent>>
    BY <2>0, <2>3 DEF Consented, P!ValidProfileMode
  <2>4. QED
    BY <2>1, <2>2, <2>3 DEF P!UpdateProfile
<1>3. CASE \E p \in Profiles, L \in P!Requests : P!SetReferences(p, L)
  <2>1. /\ profiles' = profiles /\ used' = used /\ mode' = mode
        /\ consent' = consent /\ requireConsent' = requireConsent
    BY <1>3 DEF P!SetReferences, P!Reject
  <2>2. QED
    BY <2>1 DEF Consented, P!ValidProfileMode
<1>4. CASE \E i \in Images : P!ImageAdded(i) \/ P!ImageDeleted(i)
  <2>1. /\ profiles' = profiles /\ used' = used /\ mode' = mode
        /\ consent' = consent /\ requireConsent' = requireConsent
    BY <1>4 DEF P!ImageAdded, P!ImageDeleted
  <2>2. QED
    BY <2>1 DEF Consented, P!ValidProfileMode
<1>5. QED
  BY <1>1, <1>2, <1>3, <1>4 DEF ProfileHandler

LEMMA EInit == SysInit => EInv
<1> SUFFICES ASSUME SysInit PROVE EInv
  OBVIOUS
<1>1. SInv
  BY SInit
<1>2. requireConsent \in BOOLEAN
  BY SysConfigsAssumption DEF SysInit, P!ProfileInit
<1>3. QED
  BY <1>1, <1>2 DEF SysInit, J!Init, P!ProfileInit, EInv, EncodeOnlyConsented,
                    WorkerConsented, J!InTry, P!Modes

LEMMA EStep == EInv /\ [SysNext]_vars => EInv'
<1> SUFFICES ASSUME EInv, [SysNext]_vars PROVE EInv'
  OBVIOUS
<1>0. SInv'
  BY SStep DEF EInv
<1> USE DEF EInv, SInv
<1>1. CASE JobStep /\ UNCHANGED <<pvars, links>>
  <2>1. ActiveFrom /\ TryKept /\ StatusKept
    BY <1>1, JobStepActive, JobStepKept
  <2>2. /\ profiles' = profiles /\ used' = used /\ mode' = mode
        /\ consent' = consent /\ requireConsent' = requireConsent
        /\ jobProfile' = jobProfile
    BY <1>1 DEF pvars, links
  <2>3. EncodeOnlyConsented'
    BY <2>1, <2>2 DEF EncodeOnlyConsented, WorkerConsented, ActiveFrom,
                      Consented, P!ValidProfileMode, Active, Jobs
  <2>4. WorkerConsented'
    BY <2>1, <2>2 DEF WorkerConsented, TryKept, StatusKept, Consented,
                      P!ValidProfileMode
  <2>5. QED
    BY <1>0, <2>2, <2>3, <2>4
<1>2. CASE \E p \in Profiles : SysCreateJob(p)
  <2> PICK p \in Profiles : SysCreateJob(p)
    BY <1>2
  <2>1. /\ status' = [status EXCEPT ![nextJob + 1] = "waiting"]
        /\ jobProfile' = [jobProfile EXCEPT ![nextJob + 1] = p]
        /\ Consented(p)
        /\ wpc' = wpc /\ wjob' = wjob
        /\ profiles' = profiles /\ used' = used /\ mode' = mode
        /\ consent' = consent /\ requireConsent' = requireConsent
    BY DEF SysCreateJob, J!CreateJob, pvars
  <2>2. EncodeOnlyConsented'
    BY <2>1 DEF EncodeOnlyConsented, Consented, P!ValidProfileMode, Jobs
  <2>3. WorkerConsented'
    BY <2>1 DEF WorkerConsented, Consented, P!ValidProfileMode, Jobs
  <2>4. QED
    BY <1>0, <2>1, <2>2, <2>3
<1>3. CASE SysStart
  <2>1. /\ \A k \in Jobs : status'[k] \notin Active
        /\ wpc' = "idle"
        /\ requireConsent' \in BOOLEAN
        /\ profiles' = profiles /\ used' = used /\ mode' = mode
        /\ consent' = consent
    BY <1>3, SysConfigsAssumption DEF SysStart, J!Start, links, Active, Jobs
  <2>2. QED
    BY <1>0, <2>1 DEF EncodeOnlyConsented, WorkerConsented, J!InTry, Active, Jobs
<1>4. CASE SysWorkerStart
  <2>1. /\ profiles' = profiles /\ used' = used /\ mode' = mode
        /\ consent' = consent /\ requireConsent' = requireConsent
        /\ jobProfile' = jobProfile /\ wjob' = wjob /\ wpc = "start"
    BY <1>4 DEF SysWorkerStart, J!WorkerStart, J!WorkerUnchanged, pvars, links
  <2>2. CASE wpc' = "idle" /\ status' = status
    BY <1>0, <2>1, <2>2 DEF EncodeOnlyConsented, WorkerConsented, J!InTry,
                            Consented, P!ValidProfileMode
  <2>3. CASE /\ status' = J!RowUpdate(status, wjob, "running")
             /\ wpc' = "keyframes"
             /\ Consented(jobProfile[wjob])
    <3>1. EncodeOnlyConsented'
      BY <2>1, <2>3 DEF EncodeOnlyConsented, J!RowUpdate, Consented,
                        P!ValidProfileMode, Jobs
    <3>2. WorkerConsented'
      BY <2>1, <2>3 DEF WorkerConsented, Consented, P!ValidProfileMode
    <3>3. QED
      BY <1>0, <2>1, <3>1, <3>2
  <2>4. QED
    BY <1>4, <2>2, <2>3 DEF SysWorkerStart, J!WorkerStart
<1>5. CASE SysWorkerComplete
  <2>1. /\ profiles' = profiles /\ used' = used /\ mode' = mode
        /\ consent' = consent /\ requireConsent' = requireConsent
        /\ jobProfile' = jobProfile /\ wjob' = wjob
    BY <1>5 DEF SysWorkerComplete, J!WorkerComplete, J!WorkerUnchanged, pvars
  <2>2. CASE status[wjob] # "none"
             /\ status' = [status EXCEPT ![wjob] = "completed"]
             /\ wpc' = "idle"
    BY <1>0, <2>1, <2>2 DEF EncodeOnlyConsented, WorkerConsented, J!InTry,
                            Consented, P!ValidProfileMode, Jobs
  <2>3. CASE status[wjob] = "none" /\ status' = status /\ wpc' = "mark_error"
    BY <1>0, <2>1, <2>3 DEF EncodeOnlyConsented, WorkerConsented,
                            Consented, P!ValidProfileMode
  <2>4. QED
    BY <1>5, <2>2, <2>3 DEF SysWorkerComplete, J!WorkerComplete
<1>6. CASE \E p \in Profiles : SysDeleteProfile(p)
  <2> PICK p \in Profiles : SysDeleteProfile(p)
    BY <1>6
  <2>1. /\ profiles' = profiles \ {p}
        /\ status' = [j \in Jobs |->
                        IF status[j] # "none" /\ jobProfile[j] = p
                        THEN "none" ELSE status[j]]
        /\ used' = used /\ mode' = mode
        /\ consent' = consent /\ requireConsent' = requireConsent
        /\ jobProfile' = jobProfile /\ wjob' = wjob /\ wpc' = wpc
    BY DEF SysDeleteProfile, P!DeleteProfile, Jobs
  <2>2. QED
    BY <1>0, <2>1 DEF EncodeOnlyConsented, WorkerConsented, Consented,
                      P!ValidProfileMode, Jobs
<1>7. CASE ProfileHandler /\ UNCHANGED <<jvars, links>>
  <2>1. /\ mode' \in [Profiles -> P!Modes]
        /\ consent' \in [Profiles -> BOOLEAN]
        /\ requireConsent' = requireConsent
        /\ profiles' \subseteq used'
        /\ \A q \in profiles : Consented(q) => Consented(q)'
    BY <1>7, HandlerKeepsConsent
  <2>2. /\ status' = status /\ jobProfile' = jobProfile
        /\ wpc' = wpc /\ wjob' = wjob
    BY <1>7 DEF jvars, links
  <2>3. EncodeOnlyConsented'
    BY <2>1, <2>2 DEF EncodeOnlyConsented, NoJobOfDeletedProfile, Jobs
  <2>4. WorkerConsented'
    BY <2>1, <2>2 DEF WorkerConsented, NoJobOfDeletedProfile, Jobs
  <2>5. QED
    BY <1>0, <2>1, <2>3, <2>4
<1>8. CASE UNCHANGED vars
  BY <1>0, <1>8 DEF vars, jvars, pvars, links, EncodeOnlyConsented,
                    WorkerConsented, Consented, P!ValidProfileMode
<1>9. QED
  BY <1>1, <1>2, <1>3, <1>4, <1>5, <1>6, <1>7, <1>8 DEF SysNext

(* Spec 4.4 step 3, for every number of jobs and profiles and both        *)
(* settings of the consent configuration: a job row is running or         *)
(* encoding only for a profile that passes the mode and consent rule in   *)
(* force, whatever update_profile, delete_profile and restarts did while  *)
(* the worker was between its check and its UPDATEs.                     *)
THEOREM EncodeConsented == SysSpec => []EncodeOnlyConsented
<1>1. EInv => EncodeOnlyConsented
  BY DEF EInv
<1>2. QED
  BY EInit, EStep, <1>1, PTL DEF SysSpec

-----------------------------------------------------------------------------
(* The job ids the queue, the handler and the worker hold are job rows'   *)
(* ids: create_job takes the next id below the bound, start() enqueues    *)
(* ids it read from the table, and the worker takes ids off the queue.    *)
WInv ==
  /\ nextJob \in 0..MaxJobs
  /\ queued \subseteq Jobs
  /\ apc # "idle" => ajob \in Jobs
  /\ wpc \notin {"none", "exited", "idle", "get"} => wjob \in Jobs

LEMMA WInit == SysInit => WInv
  BY SysJobsAssumption DEF SysInit, J!Init, WInv, J!NoJob

(* Every job step keeps the ids real.                                     *)
LEMMA JobStepW ==
  ASSUME WInv, JobStep
  PROVE  WInv'
<1> USE DEF WInv
<1>1. CASE J!CancelJobCommit \/ J!WorkerCheckCancel \/ J!WorkerKeyframes
           \/ J!WorkerEncoding \/ J!WorkerSpawn \/ J!WorkerPoll
           \/ J!WorkerFinalCheck \/ J!WorkerMarkCancelled
           \/ J!WorkerMarkError \/ J!Stop \/ J!WorkerLoop \/ J!WorkerTimeout
  BY <1>1 DEF J!CancelJobCommit, J!WorkerCheckCancel, J!WorkerKeyframes,
              J!WorkerEncoding, J!WorkerSpawn, J!WorkerPoll,
              J!WorkerFinalCheck, J!WorkerMarkCancelled, J!WorkerMarkError,
              J!Stop, J!WorkerLoop, J!WorkerTimeout, J!WorkerUnchanged
<1>2. CASE J!CreateJobEnqueue \/ J!CancelJobSignal
  BY <1>2 DEF J!CreateJobEnqueue, J!CancelJobSignal
<1>3. CASE \E j \in J!Jobs : J!CancelJob(j) \/ J!ProcExit(j)
  BY <1>3 DEF J!CancelJob, J!ProcExit, Jobs
<1>4. CASE J!Exit \/ J!Crash
  BY <1>4 DEF J!Exit, J!Crash, J!VolatileLost
<1>5. CASE J!WorkerDequeue
  BY <1>5 DEF J!WorkerDequeue, J!WorkerUnchanged
<1>6. QED
  BY <1>1, <1>2, <1>3, <1>4, <1>5 DEF JobStep

LEMMA WStep == WInv /\ [SysNext]_vars => WInv'
<1> SUFFICES ASSUME WInv, [SysNext]_vars PROVE WInv'
  OBVIOUS
<1> USE DEF WInv
<1>1. CASE JobStep /\ UNCHANGED <<pvars, links>>
  BY <1>1, JobStepW
<1>2. CASE \E p \in Profiles : SysCreateJob(p)
  <2> PICK p \in Profiles : SysCreateJob(p)
    BY <1>2
  <2>1. /\ nextJob < MaxJobs /\ nextJob' = nextJob + 1 /\ ajob' = nextJob + 1
        /\ queued' = queued /\ wpc' = wpc /\ wjob' = wjob
    BY DEF SysCreateJob, J!CreateJob
  <2>2. QED
    BY <2>1, SysJobsAssumption DEF Jobs, J!Jobs
<1>3. CASE SysStart
  BY <1>3 DEF SysStart, J!Start, Jobs, J!Jobs
<1>4. CASE SysWorkerStart
  BY <1>4 DEF SysWorkerStart, J!WorkerStart, J!WorkerUnchanged
<1>5. CASE SysWorkerComplete
  BY <1>5 DEF SysWorkerComplete, J!WorkerComplete, J!WorkerUnchanged
<1>6. CASE \E p \in Profiles : SysDeleteProfile(p)
  BY <1>6 DEF SysDeleteProfile
<1>7. CASE ProfileHandler /\ UNCHANGED <<jvars, links>>
  BY <1>7 DEF jvars
<1>8. CASE UNCHANGED vars
  BY <1>8 DEF vars, jvars
<1>9. QED
  BY <1>1, <1>2, <1>3, <1>4, <1>5, <1>6, <1>7, <1>8 DEF SysNext

-----------------------------------------------------------------------------
(* Types of the whole system.  A theorem of VideoJobs_proofs or            *)
(* VideoProfiles_proofs cannot be cited through INSTANCE, so the type     *)
(* arguments of the components are restated here for their actions as   *)
(* steps of the composition.                                              *)

(* The invariant behind SysTypeOK: the types, with the job ids of WInv.   *)
TInv == SysTypeOK /\ WInv

(* Every step of VideoJobs that does not touch profiles keeps its types. *)
LEMMA JobStepType ==
  ASSUME J!TypeOK, WInv, JobStep
  PROVE  J!TypeOK'
<1> USE SysJobsAssumption
    DEF J!TypeOK, WInv, Jobs, J!Jobs, J!NoJob, J!Statuses, J!ProcStates,
        J!WorkerPCs, J!ApiPCs, J!RowUpdate, J!CancelRequested, J!db
<1>1. CASE J!Stop
  BY <1>1 DEF J!Stop
<1>2. CASE J!Exit
  BY <1>2 DEF J!Exit, J!VolatileLost
<1>3. CASE J!Crash
  <2>1. UNCHANGED <<nextJob, status, cancelReq, output, ended, assets,
                    proc, temp>>
    BY <1>3 DEF J!Crash
  <2>2. halts' \in 0..MaxHalts
    BY <1>3 DEF J!Crash
  <2>3. QED
    BY <1>3, <2>1, <2>2 DEF J!Crash, J!VolatileLost
<1>4. CASE J!CreateJobEnqueue
  BY <1>4 DEF J!CreateJobEnqueue
<1>5. CASE \E j \in J!Jobs : J!CancelJob(j)
  BY <1>5 DEF J!CancelJob
<1>6. CASE J!CancelJobCommit
  BY <1>6 DEF J!CancelJobCommit
<1>7. CASE J!CancelJobSignal
  BY <1>7 DEF J!CancelJobSignal
<1>8. CASE \E j \in J!Jobs : J!ProcExit(j)
  BY <1>8 DEF J!ProcExit
<1>9. CASE J!WorkerLoop \/ J!WorkerTimeout \/ J!WorkerDequeue
  BY <1>9 DEF J!WorkerLoop, J!WorkerTimeout, J!WorkerDequeue, J!WorkerUnchanged
<1>10. CASE J!WorkerCheckCancel
  BY <1>10 DEF J!WorkerCheckCancel, J!WorkerUnchanged
<1>14. CASE J!WorkerKeyframes
  BY <1>14 DEF J!WorkerKeyframes, J!WorkerUnchanged
<1>15. CASE J!WorkerEncoding
  BY <1>15 DEF J!WorkerEncoding, J!WorkerUnchanged
<1>11. CASE J!WorkerSpawn
  BY <1>11 DEF J!WorkerSpawn, J!WorkerUnchanged
<1>16. CASE J!WorkerPoll
  BY <1>16 DEF J!WorkerPoll, J!WorkerUnchanged
<1>17. CASE J!WorkerFinalCheck
  BY <1>17 DEF J!WorkerFinalCheck, J!WorkerUnchanged
<1>12. CASE J!WorkerMarkCancelled \/ J!WorkerMarkError
  BY <1>12 DEF J!WorkerMarkCancelled, J!WorkerMarkError, J!WorkerUnchanged
<1>13. QED
  BY <1>1, <1>2, <1>3, <1>4, <1>5, <1>6, <1>7, <1>8, <1>9, <1>10, <1>11,
     <1>12, <1>14, <1>15, <1>16, <1>17 DEF JobStep

(* The profile service's copy of Without is the one of ReferenceLists.    *)
LEMMA SysWithout ==
  ASSUME NEW s, NEW x
  PROVE  P!Without(s, x) = Without(s, x)
  BY DEF P!Without, Without

(* Every profile handler other than delete_profile keeps the profile     *)
(* tables' types; attach stores a cleaned list of images and an image    *)
(* deletion filters every list.                                           *)
LEMMA HandlerProfileType ==
  ASSUME P!ProfileTypeOK, ProfileHandler
  PROVE  P!ProfileTypeOK'
<1> USE SysConfigsAssumption DEF P!ProfileTypeOK, P!Results
<1>1. CASE \E m \in P!Modes, c \in BOOLEAN : P!CreateProfile(m, c)
  <2> PICK m \in P!Modes, c \in BOOLEAN : P!CreateProfile(m, c)
    BY <1>1
  <2>1. QED
    BY DEF P!CreateProfile, P!Reject
<1>2. CASE \E p \in Profiles, m \in P!Modes \cup {Unset}, c \in BOOLEAN \cup {Unset} :
             P!UpdateProfile(p, m, c)
  <2> PICK p \in Profiles, m \in P!Modes \cup {Unset}, c \in BOOLEAN \cup {Unset} :
             P!UpdateProfile(p, m, c)
    BY <1>2
  <2> DEFINE em == IF m = Unset THEN mode[p] ELSE m
             ec == IF c = Unset THEN consent[p] ELSE c
  <2>0. em \in P!Modes /\ ec \in BOOLEAN
    OBVIOUS
  <2>1. QED
    BY <2>0 DEF P!UpdateProfile, P!Reject
<1>3. CASE \E p \in Profiles, L \in P!Requests : P!SetReferences(p, L)
  <2> PICK p \in Profiles, L \in P!Requests : P!SetReferences(p, L)
    BY <1>3
  <2> DEFINE clean == P!CleanNames(L)
  <2>1. clean \in Seq(Images \cup {Blank}) /\ Range(clean) \subseteq Range(L)
    <3>1. L \in Seq(Images \cup {Blank})
      <4>1. PICK n \in 0..MaxNames : L \in [1..n -> Images \cup {Blank}]
        BY DEF P!Requests
      <4>2. QED
        BY <4>1
    <3>2. QED
      BY <3>1, SysWithout, WithoutProperties DEF P!CleanNames
  <2>2. CASE \/ P!Reject("not_found") \/ P!Reject("invalid")
             \/ P!Reject("integrity")
    BY <2>2 DEF P!Reject
  <2>3. CASE /\ p \in profiles
             /\ P!Range(clean) \subseteq images
             /\ P!IsInjective(clean)
             /\ refs' = [refs EXCEPT ![p] = clean]
             /\ result' = "ok"
             /\ UNCHANGED <<profiles, used, mode, consent, images, requireConsent>>
    <3>1. clean \in Seq(Images)
      <4>1. Len(clean) \in Nat /\ clean \in [1..Len(clean) -> Images \cup {Blank}]
        BY <2>1
      <4>2. \A i \in 1..Len(clean) : clean[i] \in Images
        BY <2>3 DEF P!Range
      <4>3. QED
        BY <4>1, <4>2
    <3>2. QED
      BY <2>3, <3>1
  <2>4. QED
    BY <2>2, <2>3 DEF P!SetReferences
<1>4. CASE \E i \in Images : P!ImageAdded(i)
  BY <1>4 DEF P!ImageAdded
<1>5. CASE \E i \in Images : P!ImageDeleted(i)
  <2> PICK i \in Images : P!ImageDeleted(i)
    BY <1>5
  <2>1. \A q \in Profiles : P!Without(refs[q], i) \in Seq(Images)
    BY SysWithout, WithoutProperties
  <2>2. QED
    BY <2>1 DEF P!ImageDeleted
<1>6. QED
  BY <1>1, <1>2, <1>3, <1>4, <1>5 DEF ProfileHandler

LEMMA TInit == SysInit => TInv
<1> SUFFICES ASSUME SysInit PROVE TInv
  OBVIOUS
<1>1. WInv
  BY WInit
<1>2. J!TypeOK
  <2>1. J!Init
    BY DEF SysInit
  <2>2. /\ status \in [J!Jobs -> J!Statuses] /\ proc \in [J!Jobs -> J!ProcStates]
        /\ cancelReq \in [J!Jobs -> BOOLEAN] /\ output \in [J!Jobs -> BOOLEAN]
        /\ ended \in [J!Jobs -> BOOLEAN]
    BY <2>1 DEF J!Init, J!Statuses, J!ProcStates
  <2>3. /\ halts \in 0..MaxHalts /\ nextJob \in 0..MaxJobs
        /\ wjob \in J!Jobs \cup {J!NoJob} /\ ajob \in J!Jobs \cup {J!NoJob}
    BY <2>1, SysJobsAssumption DEF J!Init
  <2>4. QED
    BY <2>1, <2>2, <2>3 DEF J!Init, J!TypeOK, J!Statuses, J!WorkerPCs, J!ApiPCs
<1>3. P!ProfileTypeOK
  BY SysConfigsAssumption DEF SysInit, P!ProfileInit, P!ProfileTypeOK,
                              P!Modes, P!Results
<1>4. QED
  BY <1>1, <1>2, <1>3 DEF SysInit, TInv, SysTypeOK

(* Every step of the composition keeps the types: the job steps and the   *)
(* profile handlers as in their components, and the steps that join them *)
(* write a profile id (create_job, completion) or clear the rows of a     *)
(* deleted profile (delete_profile's cascade).                            *)
LEMMA TStep == TInv /\ [SysNext]_vars => TInv'
<1> SUFFICES ASSUME TInv, [SysNext]_vars PROVE SysTypeOK'
  BY WStep DEF TInv
<1>0. WInv'
  BY WStep DEF TInv
<1> USE SysJobsAssumption
    DEF TInv, SysTypeOK, J!TypeOK, WInv, Jobs, J!Jobs, J!NoJob, J!Statuses,
        J!ProcStates, J!WorkerPCs, J!ApiPCs, J!RowUpdate
<1>1. CASE JobStep /\ UNCHANGED <<pvars, links>>
  BY <1>1, JobStepType DEF pvars, links, P!ProfileTypeOK
<1>2. CASE \E p \in Profiles : SysCreateJob(p)
  <2> PICK p \in Profiles : SysCreateJob(p)
    BY <1>2
  <2>1. nextJob < MaxJobs /\ nextJob' = nextJob + 1
    BY DEF SysCreateJob, J!CreateJob
  <2>2. QED
    BY <2>1 DEF SysCreateJob, J!CreateJob, pvars, P!ProfileTypeOK
<1>3. CASE SysStart
  <2>1. J!Start /\ requireConsent' \in Configs
    BY <1>3 DEF SysStart
  <2>2. status' \in [J!Jobs -> J!Statuses]
    BY <2>1 DEF J!Start
  <2>3. queued' \subseteq J!Jobs /\ wpc' \in J!WorkerPCs /\ wjob' = J!NoJob
    BY <2>1 DEF J!Start
  <2>4. J!TypeOK'
    BY <2>1, <2>2, <2>3 DEF J!Start
  <2>5. P!ProfileTypeOK'
    BY <1>3 DEF SysStart, P!ProfileTypeOK
  <2>6. QED
    BY <1>3, <2>4, <2>5 DEF SysStart, links
<1>4. CASE SysWorkerStart
  BY <1>4 DEF SysWorkerStart, J!WorkerStart, J!WorkerUnchanged, pvars, links,
              P!ProfileTypeOK
<1>5. CASE SysWorkerComplete
  <2>1. wpc = "complete"
    BY <1>5 DEF SysWorkerComplete, J!WorkerComplete
  <2>2. wjob \in J!Jobs
    BY <2>1
  <2>3. QED
    BY <1>5, <2>2 DEF SysWorkerComplete, J!WorkerComplete, J!WorkerUnchanged,
                      pvars, P!ProfileTypeOK
<1>6. CASE \E p \in Profiles : SysDeleteProfile(p)
  <2> PICK p \in Profiles : SysDeleteProfile(p)
    BY <1>6
  <2>1. J!TypeOK'
    BY DEF SysDeleteProfile
  <2>2. P!ProfileTypeOK'
    <3>1. P!DeleteProfile(p)
      BY DEF SysDeleteProfile
    <3>2. refs' \in [Profiles -> Seq(Images)]
      BY <3>1 DEF P!DeleteProfile, P!ProfileTypeOK
    <3>3. QED
      BY <3>1, <3>2 DEF P!DeleteProfile, P!ProfileTypeOK, P!Results
  <2>3. QED
    BY <2>1, <2>2 DEF SysDeleteProfile
<1>7. CASE ProfileHandler /\ UNCHANGED <<jvars, links>>
  BY <1>7, HandlerProfileType DEF jvars, links
<1>8. CASE UNCHANGED vars
  <2>1. UNCHANGED <<jvars, pvars, links>>
    BY <1>8 DEF vars
  <2>2. J!TypeOK'
    BY <2>1 DEF jvars
  <2>3. P!ProfileTypeOK'
    BY <2>1 DEF pvars, P!ProfileTypeOK
  <2>4. QED
    BY <2>1, <2>2, <2>3 DEF links
<1>9. QED
  BY <1>1, <1>2, <1>3, <1>4, <1>5, <1>6, <1>7, <1>8 DEF SysNext

(* Every step of the composed service (job handlers, the worker, the      *)
(* profile handlers and delete_profile's cascade onto video_jobs and      *)
(* video_assets) keeps the types of both services and of the profile_id   *)
(* columns, for every number of jobs and every set of profiles.          *)
THEOREM SysTypeCorrect == SysSpec => []SysTypeOK
<1>1. TInv => SysTypeOK
  BY DEF TInv
<1>2. QED
  BY TInit, TStep, <1>1, PTL DEF SysSpec
=============================================================================
