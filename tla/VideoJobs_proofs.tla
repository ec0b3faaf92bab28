--------------------------- MODULE VideoJobs_proofs ---------------------------
(***************************************************************************)
(* Proofs about the job scheduler model VideoJobs, for every MaxJobs,     *)
(* MaxHalts and DiskCanFail that satisfy the module's assumptions.        *)
(***************************************************************************)
EXTENDS VideoJobs, TLAPS

USE JobsAssumption, HaltsAssumption, DiskAssumption
    DEF Jobs, NoJob, Statuses, ProcStates, WorkerPCs, ApiPCs, RowUpdate,
        CancelRequested

(* The worker and the handler hold a job id whenever they are busy.      *)
BusyHasJob ==
  /\ wpc \notin {"none", "exited", "idle", "get"} => wjob \in Jobs
  /\ apc # "idle" => ajob \in Jobs

TypeInv == TypeOK /\ BusyHasJob

LEMMA TypeInit == Init => TypeInv
<1> SUFFICES ASSUME Init PROVE TypeInv
  OBVIOUS
<1>1. /\ svc \in {"down", "running", "stopping"}
      /\ halts \in 0..MaxHalts
      /\ nextJob \in 0..MaxJobs
      /\ status \in [Jobs -> Statuses]
      /\ cancelReq \in [Jobs -> BOOLEAN]
      /\ output \in [Jobs -> BOOLEAN]
      /\ ended \in [Jobs -> BOOLEAN]
      /\ assets \subseteq Jobs
      /\ queued \subseteq Jobs
  BY DEF Init
<1>2. /\ wpc \in WorkerPCs
      /\ wjob \in Jobs \cup {NoJob}
      /\ active \subseteq Jobs
      /\ proc \in [Jobs -> ProcStates]
      /\ temp \subseteq Jobs
      /\ stopEvent \in BOOLEAN
      /\ apc \in ApiPCs
      /\ ajob \in Jobs \cup {NoJob}
      /\ astale \in Statuses
  BY DEF Init
<1>3. BusyHasJob
  BY DEF Init, BusyHasJob
<1>4. QED
  BY <1>1, <1>2, <1>3 DEF TypeInv, TypeOK

LEMMA TypeStep == TypeInv /\ [Next]_vars => TypeInv'
<1> SUFFICES ASSUME TypeInv, [Next]_vars PROVE TypeInv'
  OBVIOUS
<1> USE DEF TypeInv, BusyHasJob
<1>1. CASE Start
  BY <1>1 DEF Start, TypeOK
<1>2. CASE Stop
  BY <1>2 DEF Stop, TypeOK, db
<1>3. CASE Exit
  BY <1>3 DEF Exit, VolatileLost, TypeOK, db
<1>4. CASE Crash
  <2>1. UNCHANGED <<nextJob, status, cancelReq, output, ended, assets,
                    proc, temp>>
    BY <1>4 DEF Crash, db
  <2>2. halts' \in 0..MaxHalts
    BY <1>4 DEF Crash, TypeOK
  <2>3. QED
    BY <1>4, <2>1, <2>2 DEF Crash, VolatileLost, TypeOK
<1>5. CASE CreateJob
  BY <1>5 DEF CreateJob, TypeOK
<1>6. CASE CreateJobEnqueue
  BY <1>6 DEF CreateJobEnqueue, TypeOK, db
<1>7. CASE \E j \in Jobs : CancelJob(j)
  BY <1>7 DEF CancelJob, TypeOK, db
<1>8. CASE CancelJobCommit
  BY <1>8 DEF CancelJobCommit, TypeOK
<1>9. CASE CancelJobSignal
  BY <1>9 DEF CancelJobSignal, TypeOK, db
<1>10. CASE \E j \in Jobs : ProcExit(j)
  BY <1>10 DEF ProcExit, TypeOK, db
<1>11. CASE Worker
  <2> USE DEF WorkerUnchanged, TypeOK, db
  <2>1. CASE WorkerLoop BY <2>1 DEF WorkerLoop
  <2>2. CASE WorkerTimeout BY <2>2 DEF WorkerTimeout
  <2>3. CASE WorkerDequeue BY <2>3 DEF WorkerDequeue
  <2>4. CASE WorkerCheckCancel BY <2>4 DEF WorkerCheckCancel
  <2>5. CASE WorkerStart BY <2>5 DEF WorkerStart
  <2>6. CASE WorkerKeyframes BY <2>6 DEF WorkerKeyframes
  <2>7. CASE WorkerEncoding BY <2>7 DEF WorkerEncoding
  <2>8. CASE WorkerSpawn BY <2>8 DEF WorkerSpawn
  <2>9. CASE WorkerPoll BY <2>9 DEF WorkerPoll
  <2>10. CASE WorkerFinalCheck BY <2>10 DEF WorkerFinalCheck
  <2>11. CASE WorkerComplete BY <2>11 DEF WorkerComplete
  <2>12. CASE WorkerMarkCancelled BY <2>12 DEF WorkerMarkCancelled
  <2>13. CASE WorkerMarkError BY <2>13 DEF WorkerMarkError
  <2>14. QED
    BY <1>11, <2>1, <2>2, <2>3, <2>4, <2>5, <2>6, <2>7, <2>8, <2>9,
       <2>10, <2>11, <2>12, <2>13 DEF Worker
<1>12. CASE UNCHANGED vars
  BY <1>12 DEF vars, db, TypeOK
<1>13. QED
  BY <1>1, <1>2, <1>3, <1>4, <1>5, <1>6, <1>7, <1>8, <1>9, <1>10,
     <1>11, <1>12 DEF Next, Api, Host

(* Every step keeps each variable in its type: status, flags and process  *)
(* states stay functions over Jobs, the counters stay within their bounds *)
(* and the program counters within their sets.                           *)
THEOREM TypeCorrect == Spec => []TypeOK
<1>1. Init => TypeInv
  BY TypeInit
<1>2. TypeInv /\ [Next]_vars => TypeInv'
  BY TypeStep
<1>3. QED
  BY <1>1, <1>2, PTL DEF Spec, TypeInv

-----------------------------------------------------------------------------
(* RunningIsSupervised is inductive once the types are known: start()     *)
(* clears every running or encoding row, only the worker writes those     *)
(* statuses and only for its current job, and it leaves that job only     *)
(* through a step that writes a terminal status.                          *)
IInv == TypeInv /\ RunningIsSupervised

LEMMA SupervisedStep == IInv /\ [Next]_vars => RunningIsSupervised'
<1> SUFFICES ASSUME TypeInv, RunningIsSupervised, [Next]_vars
             PROVE RunningIsSupervised'
  BY DEF IInv
<1> USE DEF RunningIsSupervised, InTry, TypeInv, TypeOK
(* Steps that touch none of svc, status, wpc and wjob.                    *)
<1>1. ASSUME UNCHANGED <<svc, status, wpc, wjob>>
      PROVE RunningIsSupervised'
  BY <1>1
<1>2. CASE Start
  BY <1>2 DEF Start
<1>3. CASE Stop
  <2>1. UNCHANGED <<status, wpc, wjob>>
    BY <1>3 DEF Stop, db
  <2>2. QED
    BY <1>3, <2>1 DEF Stop
<1>4. CASE Exit \/ Crash
  BY <1>4 DEF Exit, Crash
<1>5. CASE CreateJob
  BY <1>5 DEF CreateJob
<1>6. CASE CreateJobEnqueue \/ CancelJobSignal
  <2>1. UNCHANGED <<svc, status, wpc, wjob>>
    BY <1>6 DEF CreateJobEnqueue, CancelJobSignal, db
  <2>2. QED
    BY <2>1, <1>1
<1>7. CASE \E j \in Jobs : CancelJob(j) \/ ProcExit(j)
  <2>1. UNCHANGED <<svc, status, wpc, wjob>>
    BY <1>7 DEF CancelJob, ProcExit, db
  <2>2. QED
    BY <2>1, <1>1
<1>8. CASE CancelJobCommit
  BY <1>8 DEF CancelJobCommit
<1>9. CASE Worker
  <2> USE DEF WorkerUnchanged
  <2>1. CASE WorkerLoop \/ WorkerTimeout \/ WorkerFinalCheck
    <3>1. UNCHANGED <<svc, status>>
      BY <2>1 DEF WorkerLoop, WorkerTimeout, WorkerFinalCheck, db
    <3>2. QED
      BY <2>1, <3>1 DEF WorkerLoop, WorkerTimeout, WorkerFinalCheck
  <2>2. CASE WorkerDequeue
    <3>1. UNCHANGED <<svc, status>>
      BY <2>2 DEF WorkerDequeue, db
    <3>2. QED
      BY <2>2, <3>1 DEF WorkerDequeue
  <2>3. CASE WorkerCheckCancel
    BY <2>3 DEF WorkerCheckCancel
  <2>4. CASE WorkerStart
    BY <2>4 DEF WorkerStart
  <2>5. CASE WorkerKeyframes \/ WorkerSpawn \/ WorkerPoll
    <3>1. UNCHANGED <<svc, status, wjob>>
      BY <2>5 DEF WorkerKeyframes, WorkerSpawn, WorkerPoll, db
    <3>2. QED
      BY <2>5, <3>1 DEF WorkerKeyframes, WorkerSpawn, WorkerPoll
  <2>6. CASE WorkerEncoding
    BY <2>6 DEF WorkerEncoding
  <2>7. CASE WorkerComplete \/ WorkerMarkCancelled \/ WorkerMarkError
    BY <2>7 DEF WorkerComplete, WorkerMarkCancelled, WorkerMarkError
  <2>8. QED
    BY <1>9, <2>1, <2>2, <2>3, <2>4, <2>5, <2>6, <2>7 DEF Worker
<1>10. CASE UNCHANGED vars
  <2>1. UNCHANGED <<svc, status, wpc, wjob>>
    BY <1>10 DEF vars, db
  <2>2. QED
    BY <2>1, <1>1
<1>11. QED
  BY <1>2, <1>3, <1>4, <1>5, <1>6, <1>7, <1>8, <1>9, <1>10
  DEF Next, Api, Host

(* Spec 4.4: while the service is up, every running or encoding job is    *)
(* the one the worker is processing inside the try block of _process_job, *)
(* for every number of jobs and of stops and crashes.                     *)
THEOREM Supervised == Spec => []RunningIsSupervised
<1>1. Init => IInv
  BY TypeInit DEF Init, IInv, RunningIsSupervised
<1>2. IInv /\ [Next]_vars => IInv'
  BY TypeStep, SupervisedStep DEF IInv
<1>3. QED
  BY <1>1, <1>2, PTL DEF Spec, IInv

-----------------------------------------------------------------------------
(* The invariant behind AssetFromSuccessfulEncode.  An asset is inserted  *)
(* for the worker's job after it saw ffmpeg exit with 0; nobody but the   *)
(* worker starts a process, and the worker starts one only for a job that *)
(* has no asset yet: it dequeued the job as waiting, and a waiting row    *)
(* never has an asset, as create_job only inserts rows with a new id,     *)
(* above every id in use.                                                 *)
PreEncode == {"check_cancel", "start", "keyframes", "encoding", "spawn", "poll"}

AssetInv ==
  /\ TypeInv
  /\ AssetFromSuccessfulEncode
  /\ \A j \in Jobs : j > nextJob => status[j] = "none" /\ j \notin assets
  /\ \A j \in Jobs : status[j] = "waiting" => j \notin assets
  /\ wpc \in PreEncode => wjob \notin assets
  /\ wpc \in {"final_check", "complete"} => proc[wjob] = "exited_ok"

(* The invariant behind WaitingIsScheduled, when the disk check cannot    *)
(* fail.                                                                  *)
SchedInv == TypeInv /\ WaitingIsScheduled

LEMMA AssetStep == AssetInv /\ [Next]_vars => AssetInv'
<1> SUFFICES ASSUME AssetInv, [Next]_vars PROVE AssetInv'
  OBVIOUS
<1>0. TypeInv'
  BY TypeStep DEF AssetInv
<1> USE <1>0 DEF AssetInv, TypeInv, TypeOK, BusyHasJob,
                 AssetFromSuccessfulEncode, PreEncode
<1>1. CASE Start
  BY <1>1 DEF Start
<1>2. CASE Stop
  BY <1>2 DEF Stop, db
<1>3. CASE Exit \/ Crash
  BY <1>3 DEF Exit, Crash, VolatileLost, db
<1>4. CASE CreateJob
  BY <1>4 DEF CreateJob
<1>5. CASE CreateJobEnqueue \/ CancelJobSignal
  BY <1>5 DEF CreateJobEnqueue, CancelJobSignal, db
<1>6. CASE \E j \in Jobs : CancelJob(j) \/ ProcExit(j)
  <2> PICK j \in Jobs : CancelJob(j) \/ ProcExit(j)
    BY <1>6
  <2>1. CASE CancelJob(j)
    BY <2>1 DEF CancelJob, db
  <2>2. CASE ProcExit(j)
    <3> PICK code \in {"exited_ok", "exited_fail"} :
          proc' = [proc EXCEPT ![j] = code]
      BY <2>2 DEF ProcExit
    <3>1. proc[j] = "running" /\ UNCHANGED <<nextJob, status, assets, wpc, wjob>>
      BY <2>2 DEF ProcExit, db
    <3>2. \A k \in Jobs : proc[k] = "exited_ok" => proc'[k] = "exited_ok"
      BY <3>1
    <3>3. QED
      BY <3>1, <3>2
  <2>3. QED
    BY <2>1, <2>2
<1>7. CASE CancelJobCommit
  BY <1>7 DEF CancelJobCommit
<1>8. CASE Worker
  <2> USE DEF WorkerUnchanged
  <2>1. CASE WorkerLoop \/ WorkerTimeout \/ WorkerFinalCheck
    BY <2>1 DEF WorkerLoop, WorkerTimeout, WorkerFinalCheck, db
  <2>2. CASE WorkerDequeue
    BY <2>2 DEF WorkerDequeue, db
  <2>3. CASE WorkerCheckCancel
    BY <2>3 DEF WorkerCheckCancel
  <2>4. CASE WorkerStart
    BY <2>4 DEF WorkerStart
  <2>5. CASE WorkerKeyframes \/ WorkerSpawn
    BY <2>5 DEF WorkerKeyframes, WorkerSpawn, db
  <2>6. CASE WorkerPoll
    BY <2>6 DEF WorkerPoll, db
  <2>7. CASE WorkerEncoding
    BY <2>7 DEF WorkerEncoding
  <2>8. CASE WorkerComplete
    BY <2>8 DEF WorkerComplete
  <2>9. CASE WorkerMarkCancelled \/ WorkerMarkError
    BY <2>9 DEF WorkerMarkCancelled, WorkerMarkError
  <2>10. QED
    BY <1>8, <2>1, <2>2, <2>3, <2>4, <2>5, <2>6, <2>7, <2>8, <2>9 DEF Worker
<1>9. CASE UNCHANGED vars
  BY <1>9 DEF vars, db
<1>10. QED
  BY <1>1, <1>2, <1>3, <1>4, <1>5, <1>6, <1>7, <1>8, <1>9 DEF Next, Api, Host

(* Spec 3 and 4.4, for every number of jobs and of stops and crashes: an  *)
(* asset row exists only for a job whose ffmpeg process exited with 0,    *)
(* although stop(), cancel_job and the process itself change its state    *)
(* concurrently with the worker's final check and completion.             *)
THEOREM AssetsFromSuccess == Spec => []AssetFromSuccessfulEncode
<1>1. Init => AssetInv
  BY TypeInit DEF Init, AssetInv, AssetFromSuccessfulEncode, PreEncode
<1>2. AssetInv => AssetFromSuccessfulEncode
  BY DEF AssetInv
<1>3. QED
  BY <1>1, AssetStep, <1>2, PTL DEF Spec

LEMMA SchedStep ==
  ASSUME ~DiskCanFail
  PROVE  SchedInv /\ [Next]_vars => SchedInv'
<1> SUFFICES ASSUME SchedInv, [Next]_vars PROVE SchedInv'
  OBVIOUS
<1>0. TypeInv'
  BY TypeStep DEF SchedInv
<1> USE <1>0 DEF SchedInv, TypeInv, TypeOK, BusyHasJob, WaitingIsScheduled
<1>1. CASE Start
  BY <1>1 DEF Start
<1>2. CASE Stop \/ Exit \/ Crash
  BY <1>2 DEF Stop, Exit, Crash
<1>3. CASE CreateJob
  BY <1>3 DEF CreateJob
<1>4. CASE CreateJobEnqueue \/ CancelJobSignal
  BY <1>4 DEF CreateJobEnqueue, CancelJobSignal, db
<1>5. CASE \E j \in Jobs : CancelJob(j) \/ ProcExit(j)
  BY <1>5 DEF CancelJob, ProcExit, db
<1>6. CASE CancelJobCommit
  BY <1>6 DEF CancelJobCommit
<1>7. CASE Worker
  <2> USE DEF WorkerUnchanged
  <2>1. CASE WorkerLoop \/ WorkerTimeout \/ WorkerFinalCheck
    BY <2>1 DEF WorkerLoop, WorkerTimeout, WorkerFinalCheck, db
  <2>2. CASE WorkerDequeue
    BY <2>2 DEF WorkerDequeue, db
  <2>3. CASE WorkerCheckCancel
    BY <2>3 DEF WorkerCheckCancel
  <2>4. CASE WorkerStart
    BY <2>4 DEF WorkerStart
  <2>5. CASE WorkerKeyframes \/ WorkerSpawn \/ WorkerPoll
    BY <2>5 DEF WorkerKeyframes, WorkerSpawn, WorkerPoll, db
  <2>6. CASE WorkerEncoding \/ WorkerComplete \/ WorkerMarkCancelled
             \/ WorkerMarkError
    BY <2>6 DEF WorkerEncoding, WorkerComplete, WorkerMarkCancelled,
                WorkerMarkError
  <2>7. QED
    BY <1>7, <2>1, <2>2, <2>3, <2>4, <2>5, <2>6 DEF Worker
<1>8. CASE UNCHANGED vars
  BY <1>8 DEF vars, db
<1>9. QED
  BY <1>1, <1>2, <1>3, <1>4, <1>5, <1>6, <1>7, <1>8 DEF Next, Api, Host

(* Spec 7, for every number of jobs and of stops and crashes, when the    *)
(* disk check of _process_job cannot fail: while the service runs, every  *)
(* waiting job is queued, being enqueued by create_job, or being checked  *)
(* by the worker.  With a failing disk check it does not hold: the job    *)
(* stays waiting and off the queue until the next start().                *)
THEOREM Scheduled ==
  ASSUME ~DiskCanFail
  PROVE  Spec => []WaitingIsScheduled
<1>1. Init => SchedInv
  BY TypeInit DEF Init, SchedInv, WaitingIsScheduled
<1>2. SchedInv /\ [Next]_vars => SchedInv'
  BY SchedStep
<1>3. QED
  BY <1>1, <1>2, PTL DEF Spec, SchedInv
=============================================================================
