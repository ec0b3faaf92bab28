------------------------------ MODULE VideoJobs ------------------------------
(***************************************************************************)
(* The job scheduler and worker of VideoService                            *)
(* (src/invokeai/app/services/video/video_service.py).                     *)
(*                                                                         *)
(* Three kinds of actor share the video_jobs rows:                         *)
(*  - the single VideoWorker thread (_run_worker, _process_job,            *)
(*    _encode_video), whose program counter is wpc;                        *)
(*  - the HTTP handlers create_job and cancel_job.  The routers are        *)
(*    "async def" functions that call the synchronous service without      *)
(*    awaiting, so handlers run one at a time on the event loop (apc), but *)
(*    each transaction of a handler interleaves with the worker thread;    *)
(*  - the ffmpeg subprocesses (proc), and the host that starts, stops or   *)
(*    kills the service process (svc).                                     *)
(*                                                                         *)
(* Each SQL transaction is one step.  Job ids are opaque uuids; job k is   *)
(* the k-th job created, so created_at order is numeric order.  Progress,  *)
(* the error text, timestamps other than ended_at, and the request payload *)
(* are data no property here tells apart and are left out.                 *)
(***************************************************************************)
EXTENDS Naturals, FiniteSets

CONSTANTS
  MaxJobs,      \* number of jobs create_job succeeds for
  MaxHalts,     \* bound on stop() calls plus crashes of the service process
  DiskCanFail   \* whether _ensure_free_space may find the disk too full

ASSUME JobsAssumption == MaxJobs \in Nat \ {0}
ASSUME HaltsAssumption == MaxHalts \in Nat
ASSUME DiskAssumption == DiskCanFail \in BOOLEAN

Jobs == 1..MaxJobs
NoJob == 0

(* VideoJobStatus values, and "none" for an id that has no row.           *)
Statuses == {"none", "waiting", "running", "encoding",
             "completed", "error", "cancelled"}
Terminal == {"completed", "error", "cancelled"}
Unfinished == {"waiting", "running", "encoding"}

(* What an ffmpeg process is doing, as process.poll() would tell.         *)
ProcStates == {"none", "running", "exited_ok", "exited_fail", "terminated"}

(* Program counter of the worker thread.  "none": no thread (service      *)
(* down); "exited": the loop has seen the stop event.                     *)
WorkerPCs == {"none", "exited", "idle", "get", "check_cancel", "start",
              "keyframes", "encoding", "spawn", "poll", "final_check",
              "complete", "mark_cancelled", "mark_error"}
(* The worker is inside the try block of _process_job (after the running  *)
(* transition), where every exit path writes a terminal status.           *)
InTry == {"keyframes", "encoding", "spawn", "poll", "final_check",
          "complete", "mark_cancelled", "mark_error"}

(* Program counter of the HTTP handler being run.                          *)
ApiPCs == {"idle", "enqueue", "cancel_tx", "cancel_signal"}

VARIABLES
  svc,        \* "down", "running" (after start()), "stopping" (after stop())
  halts,      \* stops and crashes so far
  nextJob,    \* jobs created so far
  status,     \* video_jobs.status per job
  cancelReq,  \* video_jobs.cancel_requested
  output,     \* video_jobs.output_video_id IS NOT NULL
  ended,      \* video_jobs.ended_at IS NOT NULL
  assets,     \* jobs that have a video_assets row
  queued,     \* job ids in self._queue (FIFO in created_at order)
  wpc, wjob,  \* worker program counter and the job it processes
  active,     \* keys of self._active_processes
  proc,       \* state of the ffmpeg process spawned for each job
  temp,       \* jobs whose <temp>/<job_id> directory exists
  stopEvent,  \* self._stop_event
  apc, ajob,  \* handler program counter and the job it handles
  astale      \* the status cancel_job read in its get_job call

db == <<status, cancelReq, output, ended, assets>>
vars == <<svc, halts, nextJob, db, queued, wpc, wjob, active, proc, temp,
          stopEvent, apc, ajob, astale>>

TypeOK ==
  /\ svc \in {"down", "running", "stopping"}
  /\ halts \in 0..MaxHalts
  /\ nextJob \in 0..MaxJobs
  /\ status \in [Jobs -> Statuses]
  /\ cancelReq \in [Jobs -> BOOLEAN]
  /\ output \in [Jobs -> BOOLEAN]
  /\ ended \in [Jobs -> BOOLEAN]
  /\ assets \subseteq Jobs
  /\ queued \subseteq Jobs
  /\ wpc \in WorkerPCs
  /\ wjob \in Jobs \cup {NoJob}
  /\ active \subseteq Jobs
  /\ proc \in [Jobs -> ProcStates]
  /\ temp \subseteq Jobs
  /\ stopEvent \in BOOLEAN
  /\ apc \in ApiPCs
  /\ ajob \in Jobs \cup {NoJob}
  /\ astale \in Statuses

-----------------------------------------------------------------------------
(* An empty database and no service process.                              *)
Init ==
  /\ svc = "down"
  /\ halts = 0
  /\ nextJob = 0
  /\ status = [j \in Jobs |-> "none"]
  /\ cancelReq = [j \in Jobs |-> FALSE]
  /\ output = [j \in Jobs |-> FALSE]
  /\ ended = [j \in Jobs |-> FALSE]
  /\ assets = {}
  /\ queued = {}
  /\ wpc = "none"
  /\ wjob = NoJob
  /\ active = {}
  /\ proc = [j \in Jobs |-> "none"]
  /\ temp = {}
  /\ stopEvent = FALSE
  /\ apc = "idle"
  /\ ajob = NoJob
  /\ astale = "none"

(* The in-memory state a new process starts from: queue, worker, process  *)
(* map, stop event and handlers are gone; rows, files and orphaned ffmpeg *)
(* processes survive.                                                      *)
VolatileLost ==
  /\ queued' = {}
  /\ wpc' = "none"
  /\ wjob' = NoJob
  /\ active' = {}
  /\ stopEvent' = FALSE
  /\ apc' = "idle"
  /\ ajob' = NoJob
  /\ astale' = "none"

(* "UPDATE video_jobs SET <column> = v WHERE id = j": the column f of    *)
(* job j becomes v if the row exists; a row deleted by the cascade of     *)
(* delete_profile (status "none") is left alone.                          *)
RowUpdate(f, j, v) == IF status[j] = "none" THEN f ELSE [f EXCEPT ![j] = v]

(* _is_cancel_requested: the cancel_requested column, and True when the   *)
(* row is gone.                                                            *)
CancelRequested(j) == status[j] = "none" \/ cancelReq[j]

-----------------------------------------------------------------------------
(***************************************************************************)
(* Service lifecycle: start(), stop(), and the end of the process.        *)
(***************************************************************************)

(* Mutant of Start: the recovery UPDATE is missing.                      *)
Start_NoRecovery ==
  /\ svc = "down"
  /\ queued' = {j \in Jobs : status[j] = "waiting"}
  /\ stopEvent' = FALSE
  /\ wpc' = "idle"
  /\ wjob' = NoJob
  /\ svc' = "running"
  /\ UNCHANGED <<halts, nextJob, db, active, proc, temp, apc, ajob, astale>>

(* Mutant of Start: the waiting rows are not put back on the queue.       *)
Start_NoReenqueue ==
  /\ svc = "down"
  /\ status' = [j \in Jobs |->
                  IF status[j] \in {"running", "encoding"}
                  THEN "error" ELSE status[j]]
  /\ queued' = {}
  /\ stopEvent' = FALSE
  /\ wpc' = "idle"
  /\ wjob' = NoJob
  /\ svc' = "running"
  /\ UNCHANGED <<halts, nextJob, cancelReq, output, ended, assets, active,
                 proc, temp, apc, ajob, astale>>

(* start(): one transaction marks every running or encoding row as error  *)
(* (ended_at is not written) and selects the waiting ids, which are put   *)
(* on the queue; then the stop event is cleared and the worker started.   *)
Start ==
  /\ svc = "down"
  /\ status' = [j \in Jobs |->
                  IF status[j] \in {"running", "encoding"}
                  THEN "error" ELSE status[j]]
  /\ queued' = {j \in Jobs : status[j] = "waiting"}
  /\ stopEvent' = FALSE
  /\ wpc' = "idle"
  /\ wjob' = NoJob
  /\ svc' = "running"
  /\ UNCHANGED <<halts, nextJob, cancelReq, output, ended, assets, active,
                 proc, temp, apc, ajob, astale>>

(* stop(): set the stop event and terminate every process in the map.     *)
(* It runs on the event loop, so no handler is in progress.               *)
Stop ==
  /\ svc = "running"
  /\ apc = "idle"
  /\ halts < MaxHalts
  /\ halts' = halts + 1
  /\ stopEvent' = TRUE
  /\ proc' = [j \in Jobs |->
                IF j \in active /\ proc[j] = "running"
                THEN "terminated" ELSE proc[j]]
  /\ svc' = "stopping"
  /\ UNCHANGED <<nextJob, db, queued, wpc, wjob, active, temp,
                 apc, ajob, astale>>

(* After stop() the join times out or the worker exits; the process ends. *)
Exit ==
  /\ svc = "stopping"
  /\ svc' = "down"
  /\ VolatileLost
  /\ UNCHANGED <<halts, nextJob, db, proc, temp>>

(* The service process is killed at an arbitrary point.                   *)
Crash ==
  /\ svc = "running"
  /\ halts < MaxHalts
  /\ halts' = halts + 1
  /\ svc' = "down"
  /\ VolatileLost
  /\ UNCHANGED <<nextJob, db, proc, temp>>

-----------------------------------------------------------------------------
(***************************************************************************)
(* The HTTP handlers create_job and cancel_job.                            *)
(***************************************************************************)

(* Mutant of CreateJob: an off-by-one in the bound on created jobs.       *)
CreateJob_OffByOne ==
  /\ svc = "running"
  /\ apc = "idle"
  /\ nextJob <= MaxJobs
  /\ LET j == nextJob + 1 IN
       /\ nextJob' = j
       /\ status' = [status EXCEPT ![j] = "waiting"]
       /\ apc' = "enqueue"
       /\ ajob' = j
  /\ UNCHANGED <<svc, halts, cancelReq, output, ended, assets, queued, wpc,
                 wjob, active, proc, temp, stopEvent, astale>>

(* create_job: the profile checks passed (a failing check writes nothing);*)
(* the row is inserted as waiting.                                         *)
CreateJob ==
  /\ svc = "running"
  /\ apc = "idle"
  /\ nextJob < MaxJobs
  /\ LET j == nextJob + 1 IN
       /\ nextJob' = j
       /\ status' = [status EXCEPT ![j] = "waiting"]
       /\ apc' = "enqueue"
       /\ ajob' = j
  /\ UNCHANGED <<svc, halts, cancelReq, output, ended, assets, queued, wpc,
                 wjob, active, proc, temp, stopEvent, astale>>

(* create_job, after the insert has committed: self._queue.put(job_id).    *)
CreateJobEnqueue ==
  /\ apc = "enqueue"
  /\ queued' = queued \cup {ajob}
  /\ apc' = "idle"
  /\ ajob' = NoJob
  /\ UNCHANGED <<svc, halts, nextJob, db, wpc, wjob, active, proc, temp,
                 stopEvent, astale>>

(* cancel_job, get_job: a terminal job returns at once (no state change); *)
(* otherwise the status read is kept for the next transaction.            *)
CancelJob(j) ==
  /\ svc = "running"
  /\ apc = "idle"
  /\ status[j] \in Unfinished
  /\ apc' = "cancel_tx"
  /\ ajob' = j
  /\ astale' = status[j]
  /\ UNCHANGED <<svc, halts, nextJob, db, queued, wpc, wjob, active, proc,
                 temp, stopEvent>>

(* cancel_job, second transaction: set cancel_requested and, if the status *)
(* read before was waiting, mark the job cancelled and remove its temp dir.*)
CancelJobCommit ==
  /\ apc = "cancel_tx"
  /\ cancelReq' = RowUpdate(cancelReq, ajob, TRUE)
  /\ IF astale = "waiting"
       THEN /\ status' = RowUpdate(status, ajob, "cancelled")
            /\ ended' = RowUpdate(ended, ajob, TRUE)
            /\ temp' = temp \ {ajob}
       ELSE UNCHANGED <<status, ended, temp>>
  /\ apc' = "cancel_signal"
  /\ UNCHANGED <<svc, halts, nextJob, output, assets, queued, wpc, wjob,
                 active, proc, stopEvent, ajob, astale>>

(* cancel_job, last: look the job up in the process map, terminate it.    *)
CancelJobSignal ==
  /\ apc = "cancel_signal"
  /\ proc' = IF ajob \in active /\ proc[ajob] = "running"
               THEN [proc EXCEPT ![ajob] = "terminated"] ELSE proc
  /\ apc' = "idle"
  /\ ajob' = NoJob
  /\ astale' = "none"
  /\ UNCHANGED <<svc, halts, nextJob, db, queued, wpc, wjob, active, temp,
                 stopEvent>>

-----------------------------------------------------------------------------
(* The ffmpeg process for job j finishes on its own, well or badly.       *)
ProcExit(j) ==
  /\ proc[j] = "running"
  /\ \E code \in {"exited_ok", "exited_fail"} :
       proc' = [proc EXCEPT ![j] = code]
  /\ UNCHANGED <<svc, halts, nextJob, db, queued, wpc, wjob, active, temp,
                 stopEvent, apc, ajob, astale>>

-----------------------------------------------------------------------------
(***************************************************************************)
(* The worker thread.                                                      *)
(***************************************************************************)

(* Only the worker's program counter and the db/file/process variables an *)
(* action names change.                                                   *)
WorkerUnchanged(changed) ==
  /\ UNCHANGED <<svc, halts, nextJob, stopEvent, apc, ajob, astale>>
  /\ changed

(* Top of the loop: "while not self._stop_event.is_set()".                *)
WorkerLoop ==
  /\ wpc = "idle"
  /\ wpc' = IF stopEvent THEN "exited" ELSE "get"
  /\ WorkerUnchanged(UNCHANGED <<db, queued, wjob, active, proc, temp>>)

(* self._queue.get(timeout=0.5) with an empty queue: Empty, continue.     *)
WorkerTimeout ==
  /\ wpc = "get"
  /\ queued = {}
  /\ wpc' = "idle"
  /\ WorkerUnchanged(UNCHANGED <<db, queued, wjob, active, proc, temp>>)

(* get() returns the oldest queued id; _process_job re-reads the job and  *)
(* returns unless it is still waiting.                                    *)
WorkerDequeue ==
  /\ wpc = "get"
  /\ \E j \in queued :
       /\ \A k \in queued : j <= k
       /\ queued' = queued \ {j}
       /\ wjob' = j
       /\ wpc' = IF status[j] = "waiting" THEN "check_cancel" ELSE "idle"
  /\ WorkerUnchanged(UNCHANGED <<db, active, proc, temp>>)

(* _is_cancel_requested; if set, _mark_job_cancelled and return.           *)
WorkerCheckCancel ==
  /\ wpc = "check_cancel"
  /\ IF CancelRequested(wjob)
       THEN /\ status' = RowUpdate(status, wjob, "cancelled")
            /\ ended' = RowUpdate(ended, wjob, TRUE)
            /\ wpc' = "idle"
       ELSE /\ wpc' = "start"
            /\ UNCHANGED <<status, ended>>
  /\ WorkerUnchanged(UNCHANGED <<cancelReq, output, assets, queued, wjob,
                                 active, proc, temp>>)

(* get_profile, _validate_profile_mode and _ensure_free_space, then the   *)
(* transaction "SET status = running ... WHERE id = ?", which does not    *)
(* look at the current status.  A failed disk check raises before the try *)
(* block: the exception leaves _process_job and the job stays waiting.    *)
WorkerStart ==
  /\ wpc = "start"
  /\ \/ /\ DiskCanFail
        /\ wpc' = "idle"
        /\ UNCHANGED status
     \/ /\ status' = RowUpdate(status, wjob, "running")
        /\ wpc' = "keyframes"
  /\ WorkerUnchanged(UNCHANGED <<cancelReq, output, ended, assets, queued,
                                 wjob, active, proc, temp>>)

(* mkdir <temp>/<job_id> and _prepare_keyframes, which raises a           *)
(* validation error when a reference image is invalid or missing.         *)
WorkerKeyframes ==
  /\ wpc = "keyframes"
  /\ temp' = temp \cup {wjob}
  /\ wpc' \in {"encoding", "mark_error"}
  /\ WorkerUnchanged(UNCHANGED <<db, queued, wjob, active, proc>>)

(* "SET status = encoding ... WHERE id = ?", again without a status check.*)
WorkerEncoding ==
  /\ wpc = "encoding"
  /\ status' = RowUpdate(status, wjob, "encoding")
  /\ wpc' = "spawn"
  /\ WorkerUnchanged(UNCHANGED <<cancelReq, output, ended, assets, queued,
                                 wjob, active, proc, temp>>)

(* _encode_video: resolve ffmpeg and Popen it (either may fail with a     *)
(* service error), then register it in _active_processes.                 *)
WorkerSpawn ==
  /\ wpc = "spawn"
  /\ \/ /\ proc' = [proc EXCEPT ![wjob] = "running"]
        /\ active' = active \cup {wjob}
        /\ wpc' = "poll"
     \/ /\ wpc' = "mark_error"
        /\ UNCHANGED <<proc, active>>
  /\ WorkerUnchanged(UNCHANGED <<db, queued, wjob, temp>>)

(* Mutant of WorkerPoll: the returncode check is dropped, so any exited   *)
(* or terminated process counts as a successful encode.                   *)
WorkerPoll_IgnoreExitCode ==
  /\ wpc = "poll"
  /\ active' = active \ {wjob}
  /\ \/ /\ proc[wjob] = "running"
        /\ CancelRequested(wjob)
        /\ proc' = [proc EXCEPT ![wjob] = "terminated"]
        /\ wpc' = "mark_cancelled"
     \/ /\ proc[wjob] \in {"exited_ok", "exited_fail", "terminated"}
        /\ wpc' = "final_check"
        /\ UNCHANGED proc
  /\ WorkerUnchanged(UNCHANGED <<db, queued, wjob, temp>>)

(* One pass of "while process.poll() is None" that ends the loop, and the *)
(* code after it; the finally clause pops the map entry.  While the       *)
(* process runs and no cancel is requested the pass only writes progress  *)
(* 60 and sleeps, which this model does not distinguish from waiting.     *)
WorkerPoll ==
  /\ wpc = "poll"
  /\ active' = active \ {wjob}
  /\ \/ /\ proc[wjob] = "running"
        /\ CancelRequested(wjob)
        /\ proc' = [proc EXCEPT ![wjob] = "terminated"]
        /\ wpc' = "mark_cancelled"
     \/ /\ proc[wjob] = "exited_ok"
        /\ wpc' = "final_check"
        /\ UNCHANGED proc
     \/ /\ proc[wjob] \in {"exited_fail", "terminated"}
        /\ wpc' = "mark_error"
        /\ UNCHANGED proc
  /\ WorkerUnchanged(UNCHANGED <<db, queued, wjob, temp>>)

(* The final _is_cancel_requested before the asset is written.            *)
WorkerFinalCheck ==
  /\ wpc = "final_check"
  /\ wpc' = IF CancelRequested(wjob) THEN "mark_cancelled" ELSE "complete"
  /\ WorkerUnchanged(UNCHANGED <<db, queued, wjob, active, proc, temp>>)

(* One transaction inserts the video_assets row and sets the job          *)
(* completed with output_video_id and ended_at; finally removes the temp  *)
(* directory.  The asset row names the job's profile: when delete_profile *)
(* has removed it (and by cascade the job row) since the final check, the *)
(* foreign key rejects the insert, the transaction rolls back and the     *)
(* except clause marks the (missing) row as error.                        *)
WorkerComplete ==
  /\ wpc = "complete"
  /\ \/ /\ status[wjob] # "none"
        /\ assets' = assets \cup {wjob}
        /\ status' = [status EXCEPT ![wjob] = "completed"]
        /\ output' = [output EXCEPT ![wjob] = TRUE]
        /\ ended' = [ended EXCEPT ![wjob] = TRUE]
        /\ temp' = temp \ {wjob}
        /\ wpc' = "idle"
     \/ /\ status[wjob] = "none"
        /\ wpc' = "mark_error"
        /\ UNCHANGED <<assets, status, output, ended, temp>>
  /\ WorkerUnchanged(UNCHANGED <<cancelReq, queued, wjob, active, proc>>)

(* except VideoCancelledError: _mark_job_cancelled; finally _cleanup_temp; *)
(* the re-raised error is swallowed by _run_worker.                       *)
WorkerMarkCancelled ==
  /\ wpc = "mark_cancelled"
  /\ status' = RowUpdate(status, wjob, "cancelled")
  /\ ended' = RowUpdate(ended, wjob, TRUE)
  /\ temp' = temp \ {wjob}
  /\ wpc' = "idle"
  /\ WorkerUnchanged(UNCHANGED <<cancelReq, output, assets, queued, wjob,
                                 active, proc>>)

(* Mutant of WorkerMarkError: the error UPDATE does not reach the row.    *)
WorkerMarkError_NoStatus ==
  /\ wpc = "mark_error"
  /\ temp' = temp \ {wjob}
  /\ wpc' = "idle"
  /\ WorkerUnchanged(UNCHANGED <<db, queued, wjob, active, proc>>)

(* except Exception: _mark_job_error; finally _cleanup_temp.              *)
WorkerMarkError ==
  /\ wpc = "mark_error"
  /\ status' = RowUpdate(status, wjob, "error")
  /\ ended' = RowUpdate(ended, wjob, TRUE)
  /\ temp' = temp \ {wjob}
  /\ wpc' = "idle"
  /\ WorkerUnchanged(UNCHANGED <<cancelReq, output, assets, queued, wjob,
                                 active, proc>>)

Worker ==
  \/ WorkerLoop \/ WorkerTimeout \/ WorkerDequeue \/ WorkerCheckCancel
  \/ WorkerStart \/ WorkerKeyframes \/ WorkerEncoding \/ WorkerSpawn
  \/ WorkerPoll \/ WorkerFinalCheck \/ WorkerComplete
  \/ WorkerMarkCancelled \/ WorkerMarkError

Api ==
  \/ CreateJob \/ CreateJobEnqueue
  \/ \E j \in Jobs : CancelJob(j)
  \/ CancelJobCommit \/ CancelJobSignal

Host ==
  \/ Start \/ Stop \/ Exit \/ Crash
  \/ \E j \in Jobs : ProcExit(j)

Next == Worker \/ Api \/ Host

(***************************************************************************)
(* Fairness.  The worker thread and a handler already running keep        *)
(* stepping; an ffmpeg run ends (its input is finite and "-t" bounds the  *)
(* output); a stopping process ends (join has a 5 s timeout); the host    *)
(* restarts a service that is down.  Clients, stop() and crashes are not  *)
(* fair.                                                                  *)
(***************************************************************************)
Fairness ==
  /\ WF_vars(Worker)
  /\ WF_vars(CreateJobEnqueue \/ CancelJobCommit \/ CancelJobSignal)
  /\ \A j \in Jobs : WF_vars(ProcExit(j))
  /\ WF_vars(Start)
  /\ WF_vars(Exit)

Spec == Init /\ [][Next]_vars
FairSpec == Spec /\ Fairness

-----------------------------------------------------------------------------
(***************************************************************************)
(* Properties.                                                             *)
(***************************************************************************)

(* Spec 4.4: after start() no job is running or encoding without the live *)
(* worker supervising it: while the service is up, a running or encoding  *)
(* row is the worker's current job and the worker is inside the try block *)
(* of _process_job, whose every exit writes a terminal status.  It rests  *)
(* on the recovery UPDATE in start() and on the worker being the only one *)
(* to write running or encoding.                                          *)
RunningIsSupervised ==
  svc # "down" =>
    \A j \in Jobs :
      status[j] \in {"running", "encoding"} => wjob = j /\ wpc \in InTry

(* Spec 7: _process_job never lets a job be forgotten: while the service  *)
(* runs, a waiting job is on the queue, about to be put there by          *)
(* create_job, or the worker is deciding whether to start it.             *)
WaitingIsScheduled ==
  svc = "running" =>
    \A j \in Jobs :
      status[j] = "waiting" =>
        \/ j \in queued
        \/ apc = "enqueue" /\ ajob = j
        \/ wjob = j /\ wpc \in {"check_cancel", "start"}

(* Spec 5: every job emits a terminal transition; a waiting, running or   *)
(* encoding job eventually becomes completed, error or cancelled.         *)
EveryJobTerminates ==
  \A j \in Jobs : status[j] \in Unfinished ~> status[j] \in Terminal

(* Spec 8.1: output_video_id is set exactly for completed jobs.  The      *)
(* status cancel_job read in get_job may be stale by its second           *)
(* transaction.                                                           *)
OutputIffCompleted ==
  \A j \in Jobs : output[j] <=> status[j] = "completed"

(* Spec 3 and 5: a job terminates once; a completed, error or cancelled   *)
(* row never changes status again.  The worker's running and encoding     *)
(* UPDATEs do not check the current status.                               *)
TerminalIsFinal ==
  [][\A j \in Jobs : status[j] \in Terminal => status'[j] = status[j]]_status

(* Spec 8 S3 and 9: a job whose encoder was terminated after a cancel     *)
(* request ends cancelled, not error.  cancel_job terminates the process  *)
(* itself; the worker then sees a non-zero exit code.                     *)
CancelledEncodeNotError ==
  \A j \in Jobs :
    proc[j] = "terminated" /\ cancelReq[j] => status[j] # "error"

(* Spec 3 and 4.4: a video_assets row exists only for a job whose ffmpeg  *)
(* run exited with status 0, whatever stop(), cancel_job or a crash did   *)
(* to the process in between.                                             *)
AssetFromSuccessfulEncode ==
  \A j \in assets : proc[j] = "exited_ok"

(* Spec 4.4 (shutdown) and 9: stop() delivers termination to every active *)
(* encoder, so when the process ends after a graceful stop no ffmpeg      *)
(* process it registered is still running.  stop() terminates the map's   *)
(* entries when it is called; the worker, still inside _process_job, may  *)
(* Popen and register a new process afterwards.                            *)
NoEncoderOutlivesStop ==
  [][Exit => \A j \in active : proc[j] # "running"]_vars

=============================================================================
