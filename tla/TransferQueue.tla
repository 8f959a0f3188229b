---------------------------- MODULE TransferQueue ----------------------------
(***************************************************************************)
(* The asynchronous transfer queue of LocalDrop (src/transfer_queue.c):    *)
(* a fixed table of jobs, a ring buffer of the slots that wait, one worker *)
(* thread that sends one file at a time, the request threads that enqueue, *)
(* and the main thread that starts, drains and stops the queue.  Files in  *)
(* staging/ are part of the state, because the queue owns and removes them.*)
(*                                                                         *)
(* A critical section under queue_lock is one step; what the code does     *)
(* outside the lock (the sweep of staging/, opening and sending the file,  *)
(* aborting a refused upload) is a step of its own.                        *)
(*                                                                         *)
(* A request stands for the upload it stages, for the file's name and for  *)
(* the job id it is given: all three are fresh for every request.          *)
(***************************************************************************)
EXTENDS Integers

CONSTANTS
    Requests,         \* the /api/send requests; also their files and job ids
    Nil,              \* an empty string field
    MaxJobs,          \* MAX_TRANSFER_JOBS
    JobRetention,     \* JOB_RETENTION_SECONDS
    StagingRetention, \* STAGING_RETENTION_SECONDS
    JobTime,          \* bound on serving one job: CURLOPT_TIMEOUT and dispatch
    UploadSlack,      \* see QueuedFileKept
    MaxTime,          \* bound on the clock
    MaxStarts         \* bound on the number of process starts

ASSUME RequestsAssumption == Nil \notin Requests
ASSUME NumbersAssumption ==
    /\ MaxJobs \in Nat \ {0}
    /\ JobRetention \in Nat
    /\ StagingRetention \in Nat
    /\ JobTime \in Nat
    /\ UploadSlack \in Nat
    /\ MaxTime \in Nat
    /\ MaxStarts \in Nat
\* A full queue and the job before it, 129 jobs of at most 300 s each, are
\* served well within the 86400 s after which a staged file is swept.
ASSUME RetentionAssumption ==
    MaxJobs * JobTime + JobTime + UploadSlack < StagingRetention

VARIABLES
    now,           \* time(NULL); the clock does not jump back
    jobs,          \* the job table
    pending_queue, queue_head, queue_tail, queue_count,
    queue_running,
    worker,        \* where the worker thread is
    slot,          \* its local job_index
    taken,         \* (history) id of the job it took out of the ring
    path,          \* the file libcurl has open
    send_result,   \* what transfer_send_file returned
    since,         \* when the job now being served became the worker's next
    main,          \* where the main thread is
    starts,        \* number of process starts so far
    req,           \* where each request is
    staged,        \* files present in staging/
    mtime,         \* their modification times
    received       \* how often the peer received each file

queueVars  == <<jobs, pending_queue, queue_head, queue_tail, queue_count>>
workerVars == <<worker, slot, taken, path, send_result>>
fileVars   == <<staged, mtime>>
vars == <<now, queueVars, queue_running, workerVars, since, main, starts, req,
          fileVars, received>>

Slots == 0 .. MaxJobs - 1

\* TransferJob: in_use and status are only ever set together, so the status
\* "unused" stands for in_use = 0.
JobStatus == {"unused", "queued", "in_progress", "completed", "failed"}
Job == [status : JobStatus, id : Requests \cup {Nil}, filepath : Requests \cup {Nil},
        created_at : Nat, updated_at : Nat]
NoJob == [status |-> "unused", id |-> Nil, filepath |-> Nil,
          created_at |-> 0, updated_at |-> 0]

Terminal == {"completed", "failed"}
InUse(s) == jobs[s].status # "unused"

\* The worker is serving a job: between taking it and recording its outcome.
Serving == worker \in {"send", "sending", "finish"}
HasWork == Serving \/ queue_count > 0
-----------------------------------------------------------------------------
(* Staging files and the job table.                                        *)

Mut_sweep_job_retention(S) == {f \in S : mtime[f] + JobRetention > now}
\* What cleanup_expired_staging_files leaves of the files S.
cleanup_expired_staging_files(S) == {f \in S : mtime[f] + StagingRetention > now}

Mut_prune_any_status(s) == InUse(s) /\ jobs[s].updated_at + JobRetention <= now
Mut_prune_early(s) == jobs[s].status \in Terminal
\* prune_terminal_jobs_locked clears exactly these slots.
Prunable(s) == jobs[s].status \in Terminal /\ jobs[s].updated_at + JobRetention <= now

\* The table after prune_terminal_jobs_locked, ...
prune_terminal_jobs_locked == [s \in Slots |-> IF Prunable(s) THEN NoJob ELSE jobs[s]]

Mut_prune_keeps_files == {}
\* ... and the files transfer_job_cleanup deletes meanwhile.
PrunedFiles == {jobs[s].filepath : s \in {k \in Slots : Prunable(k)}}

\* The first unused slot of a table.
FirstUnused(table, s) ==
    /\ table[s].status = "unused"
    /\ \A k \in Slots : k < s => table[k].status # "unused"

\* What transfer_status_get and /api/transfers/<id> show of r's job.
transfer_status_get(r) ==
    IF \E s \in Slots : InUse(s) /\ jobs[s].id = r
    THEN jobs[CHOOSE s \in Slots : /\ InUse(s) /\ jobs[s].id = r
                                  /\ \A k \in Slots : k < s => jobs[k].id # r].status
    ELSE "not found"

\* What transfer_job_create stores.
NewJob(r) == [status |-> "queued", id |-> r, filepath |-> r,
              created_at |-> now, updated_at |-> now]

\* The job in slot s with a new status and path, as of now.
Updated(s, status, filepath) ==
    [status |-> status, id |-> jobs[s].id, filepath |-> filepath,
     created_at |-> jobs[s].created_at, updated_at |-> now]

Mut_no_signal == UNCHANGED worker
\* pthread_cond_signal(&queue_cond): the only thread that can wait is the
\* worker, which re-evaluates its loop condition when it wakes.
Signal == worker' = IF worker = "waiting" THEN "loop" ELSE worker
-----------------------------------------------------------------------------
(* A request thread handling /api/send.                                    *)

\* The upload has been sealed in staging/ (server.c, seal_uploaded_stage); its
\* last bytes may have been written long before.
seal_uploaded_stage(r) ==
    /\ main = "serving"
    /\ req[r] = "idle"
    /\ req' = [req EXCEPT ![r] = "staged"]
    /\ staged' = staged \cup {r}
    /\ \E t \in 0 .. now : mtime' = [mtime EXCEPT ![r] = t]
    /\ UNCHANGED <<now, queueVars, queue_running, workerVars, since, main, starts, received>>

\* transfer_enqueue sweeps staging/ before it takes the lock.
transfer_enqueue_sweep(r) ==
    /\ req[r] = "staged"
    /\ req' = [req EXCEPT ![r] = "swept"]
    /\ staged' = cleanup_expired_staging_files(staged)
    /\ UNCHANGED <<now, queueVars, queue_running, workerVars, since, main, starts,
                   mtime, received>>

\* The ring is full: nothing is pruned.
transfer_enqueue_full(r) ==
    /\ req[r] = "swept"
    /\ queue_count >= MaxJobs
    /\ req' = [req EXCEPT ![r] = "refused"]
    /\ UNCHANGED <<now, queueVars, queue_running, workerVars, since, main, starts,
                   fileVars, received>>

\* transfer_job_create fails, after pruning: no unused slot, or no random token.
transfer_enqueue_refused(r) ==
    /\ req[r] = "swept"
    /\ queue_count < MaxJobs
    /\ jobs' = prune_terminal_jobs_locked
    /\ staged' = staged \ PrunedFiles
    /\ req' = [req EXCEPT ![r] = "refused"]
    /\ UNCHANGED <<now, pending_queue, queue_head, queue_tail, queue_count, queue_running,
                   workerVars, since, main, starts, mtime, received>>

\* The table once transfer_job_create has filled slot s for r.
transfer_job_create(r, s) ==
    /\ FirstUnused(prune_terminal_jobs_locked, s)
    /\ jobs' = [prune_terminal_jobs_locked EXCEPT ![s] = NewJob(r)]

Mut_push_head(s) ==
    /\ pending_queue' = [pending_queue EXCEPT ![queue_head] = s]
    /\ queue_tail' = (queue_tail + 1) % MaxJobs
    /\ queue_count' = queue_count + 1
Mut_push_no_wrap(s) ==
    /\ pending_queue' = [pending_queue EXCEPT ![queue_tail] = s]
    /\ queue_tail' = queue_tail + 1
    /\ queue_count' = queue_count + 1
\* Append slot s to the ring.
Push(s) ==
    /\ pending_queue' = [pending_queue EXCEPT ![queue_tail] = s]
    /\ queue_tail' = (queue_tail + 1) % MaxJobs
    /\ queue_count' = queue_count + 1

transfer_enqueue(r) ==
    /\ req[r] = "swept"
    /\ queue_count < MaxJobs
    /\ \E s \in Slots : transfer_job_create(r, s) /\ Push(s)
    /\ staged' = staged \ PrunedFiles
    /\ Signal
    /\ since' = IF HasWork THEN since ELSE now
    /\ req' = [req EXCEPT ![r] = "accepted"]
    /\ UNCHANGED <<now, queue_head, queue_running, slot, taken, path, send_result,
                   main, starts, mtime, received>>

\* The handler aborts the upload of a refused request (server.c).
upload_stage_abort(r) ==
    /\ req[r] = "refused"
    /\ req' = [req EXCEPT ![r] = "aborted"]
    /\ staged' = staged \ {r}
    /\ UNCHANGED <<now, queueVars, queue_running, workerVars, since, main, starts,
                   mtime, received>>
-----------------------------------------------------------------------------
(* The worker thread, transfer_worker_run.                                 *)

\* The locals of the loop body before they are set.
NoLocals == slot' = 0 /\ taken' = Nil /\ path' = Nil /\ send_result' = 0

worker_wait ==
    /\ worker = "loop"
    /\ queue_running /\ queue_count = 0
    /\ worker' = "waiting"
    /\ UNCHANGED <<now, queueVars, queue_running, slot, taken, path, send_result, since,
                   main, starts, req, fileVars, received>>

\* pthread_cond_wait may return without a signal.
worker_spurious_wakeup ==
    /\ worker = "waiting"
    /\ worker' = "loop"
    /\ UNCHANGED <<now, queueVars, queue_running, slot, taken, path, send_result, since,
                   main, starts, req, fileVars, received>>

Mut_exit_undrained == worker = "loop" /\ ~queue_running
\* The exit condition of the loop.
MayExit == worker = "loop" /\ ~queue_running /\ queue_count = 0

worker_exit ==
    /\ MayExit
    /\ worker' = "exited"
    /\ UNCHANGED <<now, queueVars, queue_running, slot, taken, path, send_result, since,
                   main, starts, req, fileVars, received>>

Mut_next_latest == pending_queue[(queue_tail + MaxJobs - 1) % MaxJobs]
\* The slot the worker takes next.
NextSlot == pending_queue[queue_head]

\* Take a slot out of the ring.  A slot no longer in use is skipped.
worker_take ==
    /\ worker = "loop"
    /\ queue_count > 0
    /\ queue_head' = (queue_head + 1) % MaxJobs
    /\ queue_count' = queue_count - 1
    /\ LET s == NextSlot IN
         /\ slot' = s
         /\ taken' = jobs[s].id
         /\ worker' = IF InUse(s) THEN "send" ELSE "loop"
         /\ jobs' = IF InUse(s)
                    THEN [jobs EXCEPT ![s] = Updated(s, "in_progress", jobs[s].filepath)]
                    ELSE jobs
    /\ UNCHANGED <<now, pending_queue, queue_tail, queue_running, path, send_result,
                   since, main, starts, req, fileVars, received>>

\* transfer_send_file, without the lock: it reads the path out of the slot and
\* opens the file, ...
send_open ==
    /\ worker = "send"
    /\ jobs[slot].filepath \in staged
    /\ path' = jobs[slot].filepath
    /\ worker' = "sending"
    /\ UNCHANGED <<now, queueVars, queue_running, slot, taken, send_result, since,
                   main, starts, req, fileVars, received>>

\* ... or fails before anything is sent (no file, bad address, no curl handle).
send_open_fails ==
    /\ worker = "send"
    /\ send_result' = -1
    /\ worker' = "finish"
    /\ UNCHANGED <<now, queueVars, queue_running, slot, taken, path, since,
                   main, starts, req, fileVars, received>>

\* The progress callback, under the lock.
transfer_job_progress ==
    /\ worker = "sending"
    /\ InUse(slot)
    /\ jobs' = [jobs EXCEPT ![slot] = Updated(slot, "in_progress", jobs[slot].filepath)]
    /\ UNCHANGED <<now, pending_queue, queue_head, queue_tail, queue_count, queue_running,
                   workerVars, since, main, starts, req, fileVars, received>>

Mut_any_answer(got, result) == TRUE
\* A 2xx answer means that the peer has the file; an error, a timeout or
\* another answer leaves open whether it has.
AnswerAllows(got, result) == result = 0 => got

\* curl_easy_perform returns and the answer is classified.
send_returns ==
    /\ worker = "sending"
    /\ \E got \in BOOLEAN, result \in {0, -1} :
         /\ AnswerAllows(got, result)
         /\ received' = IF got THEN [received EXCEPT ![path] = @ + 1] ELSE received
         /\ send_result' = result
    /\ worker' = "finish"
    /\ UNCHANGED <<now, queueVars, queue_running, slot, taken, path, since,
                   main, starts, req, fileVars>>

\* The outcome is recorded under the lock; a completed job gives up its file.
worker_finish ==
    /\ worker = "finish"
    /\ worker' = "loop"
    /\ NoLocals
    /\ since' = now
    /\ \/ ~InUse(slot) /\ UNCHANGED <<jobs, staged>>
       \/ /\ InUse(slot) /\ send_result = 0
          /\ jobs' = [jobs EXCEPT ![slot] = Updated(slot, "completed", Nil)]
          /\ staged' = staged \ {jobs[slot].filepath}
       \/ /\ InUse(slot) /\ send_result # 0
          /\ jobs' = [jobs EXCEPT ![slot] = Updated(slot, "failed", jobs[slot].filepath)]
          /\ UNCHANGED staged
    /\ UNCHANGED <<now, pending_queue, queue_head, queue_tail, queue_count, queue_running,
                   main, starts, req, mtime, received>>
-----------------------------------------------------------------------------
(* The main thread, the end of the process, and time.                      *)

\* Static memory of a new process.
ZeroedQueue ==
    /\ jobs' = [s \in Slots |-> NoJob]
    /\ pending_queue' = [s \in Slots |-> 0]
    /\ queue_head' = 0 /\ queue_tail' = 0 /\ queue_count' = 0

\* What a process leaves behind of its requests.
Abandoned == [r \in Requests |->
                 IF req[r] = "accepted" THEN "gone"
                 ELSE IF req[r] \in {"staged", "swept", "refused"} THEN "lost"
                 ELSE req[r]]

transfer_queue_init ==
    /\ main \in {"down", "stopped"}
    /\ starts < MaxStarts
    /\ starts' = starts + 1
    /\ main' = "serving"
    /\ ZeroedQueue
    /\ queue_running' = TRUE
    /\ worker' = "loop" /\ NoLocals
    /\ since' = now
    /\ req' = Abandoned
    /\ staged' = cleanup_expired_staging_files(staged)
    /\ UNCHANGED <<now, mtime, received>>

\* server_stop (main.c): no request thread survives it.
server_stop ==
    /\ main = "serving"
    /\ \A r \in Requests : req[r] \notin {"staged", "swept", "refused"}
    /\ main' = "stopping"
    /\ UNCHANGED <<now, queueVars, queue_running, workerVars, since, starts, req,
                   fileVars, received>>

transfer_queue_shutdown ==
    /\ main = "stopping"
    /\ main' = "joining"
    /\ queue_running' = FALSE
    /\ Signal
    /\ UNCHANGED <<now, queueVars, slot, taken, path, send_result, since, starts, req,
                   fileVars, received>>

\* pthread_join(queue_thread) returns.
transfer_queue_joined ==
    /\ main = "joining"
    /\ worker = "exited"
    /\ main' = "stopped"
    /\ UNCHANGED <<now, queueVars, queue_running, workerVars, since, starts, req,
                   fileVars, received>>

\* The process is killed: memory is lost, files stay.
crash ==
    /\ main \in {"serving", "stopping", "joining"}
    /\ main' = "down"
    /\ ZeroedQueue
    /\ queue_running' = FALSE
    /\ worker' = "exited" /\ NoLocals
    /\ req' = Abandoned
    /\ UNCHANGED <<now, since, starts, fileVars, received>>

\* A second passes.  Serving a job takes at most JobTime.
tick ==
    /\ now < MaxTime
    /\ HasWork => now < since + JobTime
    /\ now' = now + 1
    /\ UNCHANGED <<queueVars, queue_running, workerVars, since, main, starts, req,
                   fileVars, received>>

\* Nothing is left to happen once no further process is started.
ended ==
    /\ main \in {"down", "stopped"}
    /\ starts = MaxStarts
    /\ UNCHANGED vars
-----------------------------------------------------------------------------
Init ==
    /\ now = 0
    /\ jobs = [s \in Slots |-> NoJob]
    /\ pending_queue = [s \in Slots |-> 0]
    /\ queue_head = 0 /\ queue_tail = 0 /\ queue_count = 0
    /\ queue_running = FALSE
    /\ worker = "exited" /\ slot = 0 /\ taken = Nil /\ path = Nil /\ send_result = 0
    /\ since = 0
    /\ main = "down"
    /\ starts = 0
    /\ req = [r \in Requests |-> "idle"]
    /\ staged = {}
    /\ mtime = [r \in Requests |-> 0]
    /\ received = [r \in Requests |-> 0]

RequestStep(r) ==
    \/ seal_uploaded_stage(r)
    \/ transfer_enqueue_sweep(r)
    \/ transfer_enqueue_full(r)
    \/ transfer_enqueue_refused(r)
    \/ transfer_enqueue(r)
    \/ upload_stage_abort(r)

WorkerStep ==
    \/ worker_wait
    \/ worker_exit
    \/ worker_take
    \/ send_open
    \/ send_open_fails
    \/ send_returns
    \/ worker_finish

MainStep ==
    \/ transfer_queue_init
    \/ server_stop
    \/ transfer_queue_shutdown
    \/ transfer_queue_joined

Next ==
    \/ \E r \in Requests : RequestStep(r)
    \/ WorkerStep
    \/ worker_spurious_wakeup
    \/ transfer_job_progress
    \/ MainStep
    \/ crash
    \/ tick
    \/ ended

Spec == Init /\ [][Next]_vars

\* Threads of a live process keep running: the worker (libcurl returns, at the
\* latest at its timeout), a request thread inside transfer_enqueue, and main
\* once it is shutting down.  Requests, signals and crashes are not owed.
Fairness ==
    /\ WF_vars(WorkerStep)
    /\ \A r \in Requests : WF_vars(\/ transfer_enqueue_sweep(r)
                                    \/ transfer_enqueue_full(r)
                                    \/ transfer_enqueue_refused(r)
                                    \/ transfer_enqueue(r)
                                    \/ upload_stage_abort(r))
    /\ WF_vars(transfer_queue_shutdown)
    /\ WF_vars(transfer_queue_joined)
    /\ WF_vars(tick)

FairSpec == Spec /\ Fairness
-----------------------------------------------------------------------------
(* Properties.                                                             *)

TypeOK ==
    /\ now \in Nat
    /\ jobs \in [Slots -> Job]
    /\ pending_queue \in [Slots -> Slots]
    /\ queue_head \in Slots /\ queue_tail \in Slots
    /\ queue_count \in 0 .. MaxJobs
    /\ queue_running \in BOOLEAN
    /\ worker \in {"loop", "waiting", "send", "sending", "finish", "exited"}
    /\ slot \in Slots
    /\ taken \in Requests \cup {Nil}
    /\ path \in Requests \cup {Nil}
    /\ send_result \in {0, -1}
    /\ since \in Nat
    /\ main \in {"down", "serving", "stopping", "joining", "stopped"}
    /\ starts \in Nat
    /\ req \in [Requests -> {"idle", "staged", "swept", "refused", "aborted",
                             "accepted", "lost", "gone"}]
    /\ staged \in SUBSET Requests
    /\ mtime \in [Requests -> Nat]
    /\ received \in [Requests -> Nat]

\* The slot that is k places behind the head of the ring.
Waiting(k) == pending_queue[(queue_head + k) % MaxJobs]

\* The ring buffer and the job table agree: the ring holds each queued slot
\* once and nothing else, whatever pruning, slot reuse and wrap-around did.
\* Hence the worker never skips a slot, and no accepted job is forgotten.
RingMatchesTable ==
    /\ queue_tail = (queue_head + queue_count) % MaxJobs
    /\ \A k \in 0 .. queue_count - 1 : jobs[Waiting(k)].status = "queued"
    /\ \A i, k \in 0 .. queue_count - 1 : Waiting(i) = Waiting(k) => i = k
    /\ \A s \in Slots : jobs[s].status = "queued" =>
                         \E k \in 0 .. queue_count - 1 : Waiting(k) = s

\* The worker reads its slot without the lock while it sends: until it records
\* the outcome, that slot holds the job it took, the file it sends is that
\* job's, and no other job is in progress.
WorkerOwnsSlot ==
    /\ Serving => /\ jobs[slot].status = "in_progress"
                  /\ jobs[slot].id = taken
                  /\ jobs[slot].filepath = taken
    /\ worker = "sending" => path = taken
    /\ \A s \in Slots : jobs[s].status = "in_progress" => Serving /\ s = slot

\* A job reported as completed was received by the peer, and no file is ever
\* sent twice: a failed or interrupted job is not retried by the queue.
DeliveredOnce ==
    /\ \A s \in Slots : jobs[s].status = "completed" => received[jobs[s].id] = 1
    /\ \A r \in Requests : received[r] <= 1

\* Every file in staging/ has one owner that will remove it: the request still
\* handling it, or a job that still names it; only files of requests that the
\* process abandoned when it ended have none (they are left to the sweep).
NoStrayFile ==
    \A f \in staged : \/ req[f] \in {"staged", "swept", "refused", "lost", "gone"}
                      \/ \E s \in Slots : jobs[s].filepath = f

\* The sweep of staging/ never takes the file of a job that waits or is being
\* sent, if at most UploadSlack passed between the last write to the file and
\* transfer_enqueue: a full queue is served before the retention runs out.
QueuedFileKept ==
    \A s \in Slots :
        /\ jobs[s].status \in {"queued", "in_progress"}
        /\ jobs[s].created_at - mtime[jobs[s].id] <= UploadSlack
        => jobs[s].id \in staged

\* transfer_queue_shutdown drains: when it returns, every accepted job of this
\* process that is still in the table has an outcome.
StoppedMeansDrained ==
    main = "stopped" => /\ queue_count = 0
                        /\ \A s \in Slots : jobs[s].status \notin {"queued", "in_progress"}

\* An outcome, once visible to /api/transfers, does not change, and the job
\* stays visible for JobRetention unless the process ends.
OutcomeIsFinal ==
    [][\A s \in Slots :
          jobs[s].status \in Terminal =>
              \/ jobs'[s] = jobs[s]
              \/ now >= jobs[s].updated_at + JobRetention
              \/ main' # main]_vars

\* Every accepted job gets an outcome, unless the process ends first: no wakeup
\* of the worker is lost.
AcceptedJobEnds ==
    \A r \in Requests :
        req[r] = "accepted" ~>
            \/ req[r] = "gone"
            \/ transfer_status_get(r) \in Terminal \cup {"not found"}

\* transfer_queue_shutdown returns (or the process dies): the worker sees that
\* it must stop even if it waits when the flag is cleared.
ShutdownReturns == main = "joining" ~> main \in {"stopped", "down"}

-----------------------------------------------------------------------------
(* Refinement: the queue implements JobQueue.                              *)

JobOf(r) ==
    CASE req[r] = "gone" -> "forgotten"
      [] req[r] = "accepted" -> IF transfer_status_get(r) = "not found"
                                THEN "forgotten" ELSE transfer_status_get(r)
      [] OTHER -> "none"

Abstract == INSTANCE JobQueue WITH
    state <- [r \in Requests |-> JobOf(r)],
    line  <- [i \in 1 .. queue_count |-> jobs[Waiting(i - 1)].id]

\* The ring buffer, the slot table and their pruning implement a first-come
\* first-served line of jobs, served one at a time to an outcome; with the
\* threads' fairness the line keeps moving.
ImplementsJobQueue == Abstract!FairSpec
-----------------------------------------------------------------------------
(* What the documentation says.                                            *)

\* README.md says that outgoing files are "cleaned up after completion or
\* failure"; a crash is excused.
FailedFileCleanedUp ==
    \A r \in Requests : transfer_status_get(r) = "failed" ~> r \notin staged \/ main = "down"

\* docs/wiki/API.md says that transfer state "is eventually cleaned up from
\* memory after retention windows expire".
ExpiredJobForgotten ==
    \A s \in Slots : Prunable(s) ~> ~Prunable(s)
=============================================================================
