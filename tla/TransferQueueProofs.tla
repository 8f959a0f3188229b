------------------------- MODULE TransferQueueProofs -------------------------
(***************************************************************************)
(* Proofs about TransferQueue, for every number of requests, every table   *)
(* size and every retention that satisfies the module's assumptions.       *)
(***************************************************************************)
EXTENDS TransferQueue, Sequences, TLAPS

(* The inductive invariant is the conjunction of TypeOK, RingMatchesTable, *)
(* WorkerOwnsSlot, NoStrayFile and QueuedFileKept with the parts below.    *)

\* A slot in use belongs to one accepted request, and names its file until the
\* job has completed; an unused slot is all zeroes.
TableInv ==
    \A s \in Slots :
        /\ jobs[s].status = "unused" => jobs[s] = NoJob
        /\ InUse(s) => jobs[s].id \in Requests /\ req[jobs[s].id] = "accepted"
        /\ jobs[s].status \in {"queued", "in_progress", "failed"} =>
               jobs[s].filepath = jobs[s].id
        /\ jobs[s].status = "completed" => jobs[s].filepath = Nil
        /\ \A k \in Slots : InUse(s) /\ InUse(k) /\ jobs[s].id = jobs[k].id => s = k

\* How the threads' control states depend on one another.
ControlInv ==
    /\ main = "serving" => queue_running
    /\ main \in {"down", "stopped"} => worker = "exited"
    /\ worker = "exited" => queue_count = 0 /\ ~queue_running
    /\ \A r \in Requests : req[r] \in {"staged", "swept", "refused"} => main = "serving"

\* Nothing is delivered before its job is taken, nor again after its outcome.
DeliveryInv ==
    /\ \A r \in Requests : received[r] <= 1
    /\ \A r \in Requests : req[r] \notin {"accepted", "gone"} => received[r] = 0
    /\ \A s \in Slots : jobs[s].status = "queued" => received[jobs[s].id] = 0
    /\ \A s \in Slots : jobs[s].status = "completed" => received[jobs[s].id] = 1
    /\ worker \in {"send", "sending"} => received[taken] = 0
    /\ worker = "finish" /\ send_result = 0 => received[taken] = 1

\* How long the job in slot s, with n jobs to be served before it, may have
\* waited when the worker turned to the job it serves now.
WaitedAtMost(s, n) == since - jobs[s].created_at <= (MaxJobs - n) * JobTime

\* Every job in front of a queued job costs it at most JobTime.
TimeInv ==
    /\ since <= now
    /\ HasWork => now <= since + JobTime
    /\ Serving => WaitedAtMost(slot, 0)
    /\ \A k \in 0 .. queue_count - 1 :
           WaitedAtMost(Waiting(k), IF Serving THEN k + 1 ELSE k)

\* A file whose request is still being handled is in staging/ unless it is
\* older than the retention.
HandledFileKept ==
    \A r \in Requests : req[r] \in {"staged", "swept", "refused"} =>
                            r \in staged \/ mtime[r] + StagingRetention <= now

-----------------------------------------------------------------------------
(* Arithmetic of the ring.                                                 *)

\* One modulo of the ring's index arithmetic wraps at most once.
LEMMA RingIndex ==
  ASSUME NEW h \in Slots, NEW k \in 0 .. MaxJobs
  PROVE  /\ (h + k) % MaxJobs \in Slots
         /\ (h + k) % MaxJobs = IF h + k < MaxJobs THEN h + k ELSE h + k - MaxJobs
BY NumbersAssumption DEF Slots

\* Two places of the ring differ if their distances from the head do.
LEMMA RingDistinct ==
  ASSUME NEW h \in Slots, NEW i \in 0 .. MaxJobs - 1, NEW k \in 0 .. MaxJobs - 1,
         (h + i) % MaxJobs = (h + k) % MaxJobs
  PROVE  i = k
<1>1. i \in 0 .. MaxJobs /\ k \in 0 .. MaxJobs
  BY NumbersAssumption
<1>2. (h + i) % MaxJobs = IF h + i < MaxJobs THEN h + i ELSE h + i - MaxJobs
  BY <1>1, RingIndex
<1>3. (h + k) % MaxJobs = IF h + k < MaxJobs THEN h + k ELSE h + k - MaxJobs
  BY <1>1, RingIndex
<1>4. QED
  BY <1>2, <1>3, NumbersAssumption DEF Slots

\* Moving the head moves every place one nearer.
LEMMA RingShift ==
  ASSUME NEW h \in Slots, NEW k \in 0 .. MaxJobs - 1
  PROVE  (((h + 1) % MaxJobs) + k) % MaxJobs = (h + (k + 1)) % MaxJobs
<1>1. (h + 1) % MaxJobs \in Slots
      /\ (h + 1) % MaxJobs = IF h + 1 < MaxJobs THEN h + 1 ELSE h + 1 - MaxJobs
  BY RingIndex, NumbersAssumption, 1 \in 0 .. MaxJobs
<1>2. k \in 0 .. MaxJobs /\ k + 1 \in 0 .. MaxJobs
  BY NumbersAssumption
<1>3. (h + (k + 1)) % MaxJobs =
        IF h + (k + 1) < MaxJobs THEN h + (k + 1) ELSE h + (k + 1) - MaxJobs
  BY <1>2, RingIndex
<1>4. \A g \in Slots : (g + k) % MaxJobs = IF g + k < MaxJobs THEN g + k ELSE g + k - MaxJobs
  BY <1>2, RingIndex
<1>5. CASE h + 1 < MaxJobs
  BY <1>1, <1>3, <1>4, <1>5, NumbersAssumption DEF Slots
<1>6. CASE ~(h + 1 < MaxJobs)
  BY <1>1, <1>3, <1>4, <1>6, NumbersAssumption DEF Slots
<1>7. QED
  BY <1>5, <1>6
-----------------------------------------------------------------------------
(* Types.                                                                  *)

\* Pruning yields a table.
LEMMA PruneType ==
  ASSUME TypeOK
  PROVE  prune_terminal_jobs_locked \in [Slots -> Job]
BY DEF TypeOK, prune_terminal_jobs_locked, NoJob, Job, JobStatus

\* A cleared slot is a job, ...
LEMMA NoJobType == NoJob \in Job
BY DEF NoJob, Job, JobStatus

\* ... and so is what transfer_job_create stores, ...
LEMMA NewJobType ==
  ASSUME TypeOK, NEW r \in Requests
  PROVE  NewJob(r) \in Job
BY DEF TypeOK, NewJob, Job, JobStatus

\* ... and an updated one.
LEMMA UpdatedType ==
  ASSUME TypeOK, NEW s \in Slots, NEW status \in JobStatus, NEW f \in Requests \cup {Nil}
  PROVE  Updated(s, status, f) \in Job
BY DEF TypeOK, Updated, Job

\* The type invariant holds initially ...
LEMMA TypeInit == Init => TypeOK
<1> SUFFICES ASSUME Init PROVE TypeOK
  OBVIOUS
<1>1. 0 \in Slots /\ 0 \in 0 .. MaxJobs
  BY NumbersAssumption DEF Slots
<1>2. jobs \in [Slots -> Job]
  BY NoJobType DEF Init
<1>3. QED
  BY <1>1, <1>2 DEF Init, TypeOK

\* ... and every step preserves it.
LEMMA TypeNext == TypeOK /\ [Next]_vars => TypeOK'
<1> SUFFICES ASSUME TypeOK, [Next]_vars PROVE TypeOK'
  OBVIOUS
<1> USE NumbersAssumption
<1>1. ASSUME NEW r \in Requests, RequestStep(r) PROVE TypeOK'
  <2>1. CASE seal_uploaded_stage(r)
    BY <2>1 DEF TypeOK, seal_uploaded_stage, queueVars, workerVars, fileVars
  <2>2. CASE transfer_enqueue_sweep(r)
    BY <2>2 DEF TypeOK, transfer_enqueue_sweep, cleanup_expired_staging_files,
                queueVars, workerVars
  <2>3. CASE transfer_enqueue_full(r)
    BY <2>3 DEF TypeOK, transfer_enqueue_full, queueVars, workerVars, fileVars
  <2>4. CASE transfer_enqueue_refused(r)
    BY <2>4, PruneType DEF TypeOK, transfer_enqueue_refused, workerVars
  <2>5. CASE transfer_enqueue(r)
    <3>1. PICK s \in Slots : transfer_job_create(r, s) /\ Push(s)
      BY <2>5 DEF transfer_enqueue
    <3>2. jobs' \in [Slots -> Job]
      BY <3>1, PruneType, NewJobType DEF transfer_job_create
    <3>3. /\ pending_queue' \in [Slots -> Slots]
          /\ queue_tail' \in Slots
          /\ queue_count' \in 0 .. MaxJobs
      <4>1. 1 \in 0 .. MaxJobs
        OBVIOUS
      <4>2. QED
        BY <2>5, <3>1, <4>1, RingIndex DEF Push, TypeOK, transfer_enqueue
    <3>4. worker' \in {"loop", "waiting", "send", "sending", "finish", "exited"}
      BY <2>5 DEF transfer_enqueue, Signal, TypeOK
    <3>5. since' \in Nat
      BY <2>5 DEF transfer_enqueue, TypeOK
    <3>6. QED
      BY <2>5, <3>2, <3>3, <3>4, <3>5 DEF TypeOK, transfer_enqueue
  <2>6. CASE upload_stage_abort(r)
    BY <2>6 DEF TypeOK, upload_stage_abort, queueVars, workerVars
  <2>7. QED
    BY <1>1, <2>1, <2>2, <2>3, <2>4, <2>5, <2>6 DEF RequestStep
<1>2. ASSUME WorkerStep PROVE TypeOK'
  <2>1. CASE worker_wait
    BY <2>1 DEF TypeOK, worker_wait, queueVars, fileVars
  <2>2. CASE worker_exit
    BY <2>2 DEF TypeOK, worker_exit, queueVars, fileVars
  <2>3. CASE worker_take
    <3>1. NextSlot \in Slots
      BY DEF NextSlot, TypeOK
    <3>2. jobs' \in [Slots -> Job] /\ taken' \in Requests \cup {Nil} /\ slot' \in Slots
      BY <2>3, <3>1 DEF worker_take, Updated, TypeOK, Job, JobStatus
    <3>3. queue_head' \in Slots /\ queue_count' \in 0 .. MaxJobs
      <4>1. 1 \in 0 .. MaxJobs
        OBVIOUS
      <4>2. QED
        BY <2>3, <4>1, RingIndex DEF worker_take, TypeOK
    <3>4. QED
      BY <2>3, <3>2, <3>3 DEF worker_take, TypeOK, fileVars
  <2>4. CASE send_open
    BY <2>4 DEF TypeOK, send_open, queueVars, fileVars
  <2>5. CASE send_open_fails
    BY <2>5 DEF TypeOK, send_open_fails, queueVars, fileVars
  <2>6. CASE send_returns
    <3>1. /\ \/ received' = received
             \/ received' = [received EXCEPT ![path] = received[path] + 1]
          /\ send_result' \in {0, -1}
      BY <2>6 DEF send_returns
    <3>2. received' \in [Requests -> Nat]
      BY <3>1 DEF TypeOK
    <3>3. QED
      BY <2>6, <3>1, <3>2 DEF TypeOK, send_returns, queueVars, fileVars
  <2>7. CASE worker_finish
    <3>1. slot \in Slots /\ jobs[slot].filepath \in Requests \cup {Nil}
      BY DEF TypeOK, Job
    <3>2. /\ Updated(slot, "completed", Nil) \in Job
          /\ Updated(slot, "failed", jobs[slot].filepath) \in Job
      BY <3>1, UpdatedType DEF JobStatus
    <3>3. jobs' \in [Slots -> Job] /\ staged' \in SUBSET Requests
      BY <2>7, <3>1, <3>2 DEF worker_finish, TypeOK
    <3>4. 0 \in Slots
      BY DEF Slots
    <3>5. QED
      BY <2>7, <3>3, <3>4 DEF worker_finish, NoLocals, TypeOK
  <2>8. QED
    BY <1>2, <2>1, <2>2, <2>3, <2>4, <2>5, <2>6, <2>7 DEF WorkerStep
<1>3. CASE worker_spurious_wakeup
  BY <1>3 DEF TypeOK, worker_spurious_wakeup, queueVars, fileVars
<1>4. CASE transfer_job_progress
  BY <1>4 DEF TypeOK, transfer_job_progress, Updated, Job, JobStatus, workerVars, fileVars
<1>5. ASSUME MainStep PROVE TypeOK'
  <2>1. CASE transfer_queue_init
    <3>1. 0 \in Slots /\ 0 \in 0 .. MaxJobs
      BY DEF Slots
    <3>2. Abandoned \in [Requests -> {"idle", "staged", "swept", "refused", "aborted",
                                       "accepted", "lost", "gone"}]
      BY DEF Abandoned, TypeOK
    <3>3. QED
      BY <2>1, <3>1, <3>2, NoJobType
      DEF TypeOK, transfer_queue_init, ZeroedQueue, NoLocals, cleanup_expired_staging_files
  <2>2. CASE server_stop
    BY <2>2 DEF TypeOK, server_stop, queueVars, workerVars, fileVars
  <2>3. CASE transfer_queue_shutdown
    BY <2>3 DEF TypeOK, transfer_queue_shutdown, Signal, queueVars, fileVars
  <2>4. CASE transfer_queue_joined
    BY <2>4 DEF TypeOK, transfer_queue_joined, queueVars, workerVars, fileVars
  <2>5. QED
    BY <1>5, <2>1, <2>2, <2>3, <2>4 DEF MainStep
<1>6. CASE crash
  <2>1. 0 \in Slots /\ 0 \in 0 .. MaxJobs
    BY DEF Slots
  <2>2. Abandoned \in [Requests -> {"idle", "staged", "swept", "refused", "aborted",
                                     "accepted", "lost", "gone"}]
    BY DEF Abandoned, TypeOK
  <2>3. QED
    BY <1>6, <2>1, <2>2, NoJobType DEF TypeOK, crash, ZeroedQueue, NoLocals, fileVars
<1>7. CASE tick
  BY <1>7 DEF TypeOK, tick, queueVars, workerVars, fileVars
<1>8. CASE ended \/ UNCHANGED vars
  BY <1>8 DEF TypeOK, ended, vars, queueVars, workerVars, fileVars
<1>9. QED
  BY <1>1, <1>2, <1>3, <1>4, <1>5, <1>6, <1>7, <1>8 DEF Next

\* Every variable of the queue keeps its type: in particular the ring's indices
\* stay inside the table and its count never exceeds it.
THEOREM TypeCorrect == Spec => []TypeOK
BY TypeInit, TypeNext, PTL DEF Spec
-----------------------------------------------------------------------------
(* What the steps on the ring do to it.                                    *)

\* The place behind a place.
LEMMA RingAdvance ==
  ASSUME NEW h \in Slots, NEW k \in 0 .. MaxJobs - 1
  PROVE  (((h + k) % MaxJobs) + 1) % MaxJobs = (h + (k + 1)) % MaxJobs
<1>1. k \in 0 .. MaxJobs /\ k + 1 \in 0 .. MaxJobs /\ 1 \in 0 .. MaxJobs
  BY NumbersAssumption
<1>2. (h + k) % MaxJobs \in Slots
      /\ (h + k) % MaxJobs = IF h + k < MaxJobs THEN h + k ELSE h + k - MaxJobs
  BY <1>1, RingIndex
<1>3. (h + (k + 1)) % MaxJobs =
        IF h + (k + 1) < MaxJobs THEN h + (k + 1) ELSE h + (k + 1) - MaxJobs
  BY <1>1, RingIndex
<1>4. \A g \in Slots : (g + 1) % MaxJobs = IF g + 1 < MaxJobs THEN g + 1 ELSE g + 1 - MaxJobs
  BY <1>1, RingIndex
<1>5. CASE h + k < MaxJobs
  BY <1>2, <1>3, <1>4, <1>5, NumbersAssumption DEF Slots
<1>6. CASE ~(h + k < MaxJobs)
  BY <1>2, <1>3, <1>4, <1>6, NumbersAssumption DEF Slots
<1>7. QED
  BY <1>5, <1>6

\* The ring holds slots.
LEMMA WaitingType ==
  ASSUME TypeOK, NEW k \in 0 .. queue_count - 1
  PROVE  Waiting(k) \in Slots
<1>1. k \in 0 .. MaxJobs
  BY NumbersAssumption DEF TypeOK
<1>2. QED
  BY <1>1, RingIndex DEF TypeOK, Waiting

\* Pruning clears some slots with an outcome and touches nothing else.
LEMMA PruneEffect ==
  ASSUME NEW s \in Slots
  PROVE  \/ prune_terminal_jobs_locked[s] = jobs[s] /\ ~Prunable(s)
         \/ /\ prune_terminal_jobs_locked[s] = NoJob
            /\ Prunable(s)
            /\ jobs[s].status \in Terminal
BY DEF prune_terminal_jobs_locked, Prunable

\* An accepted request fills one slot and stands at the end of the ring.
LEMMA EnqueueEffect ==
  ASSUME TypeOK, RingMatchesTable, NEW r \in Requests, transfer_enqueue(r)
  PROVE  \E s \in Slots :
           /\ jobs' = [prune_terminal_jobs_locked EXCEPT ![s] = NewJob(r)]
           /\ prune_terminal_jobs_locked[s].status = "unused"
           /\ queue_tail' = (queue_head + queue_count') % MaxJobs
           /\ \A k \in 0 .. queue_count - 1 : Waiting(k)' = Waiting(k)
           /\ \A k \in {queue_count} : Waiting(k)' = s
<1>1. PICK s \in Slots : transfer_job_create(r, s) /\ Push(s)
  BY DEF transfer_enqueue
<1>2. /\ queue_count \in 0 .. MaxJobs - 1
      /\ queue_head' = queue_head
      /\ queue_head \in Slots /\ queue_tail \in Slots
      /\ queue_tail = (queue_head + queue_count) % MaxJobs
  BY NumbersAssumption DEF transfer_enqueue, TypeOK, RingMatchesTable
<1>3. queue_tail' = (queue_head + queue_count') % MaxJobs
  BY <1>1, <1>2, RingAdvance DEF Push
<1>4. ASSUME NEW k \in 0 .. queue_count - 1 PROVE Waiting(k)' = Waiting(k)
  <2>1. k \in 0 .. MaxJobs - 1 /\ k # queue_count /\ k \in 0 .. MaxJobs
    BY <1>2, NumbersAssumption
  <2>2. (queue_head + k) % MaxJobs # queue_tail /\ (queue_head + k) % MaxJobs \in Slots
    BY <1>2, <2>1, RingDistinct, RingIndex
  <2>3. QED
    BY <1>1, <1>2, <2>2 DEF Push, Waiting, TypeOK
<1>5. ASSUME NEW k \in {queue_count} PROVE Waiting(k)' = s
  <2>1. pending_queue'[queue_tail] = s
    BY <1>1, <1>2 DEF Push, TypeOK
  <2>2. QED
    BY <1>2, <2>1 DEF Waiting
<1>6. QED
  BY <1>1, <1>3, <1>4, <1>5 DEF transfer_job_create, FirstUnused

\* The worker takes the first slot of the ring, which holds a queued job; the
\* others move up.
LEMMA TakeEffect ==
  ASSUME TypeOK, RingMatchesTable, worker_take
  PROVE  /\ NextSlot \in Slots
         /\ NextSlot = Waiting(0)
         /\ jobs[NextSlot].status = "queued"
         /\ InUse(NextSlot)
         /\ queue_tail = (queue_head' + queue_count') % MaxJobs
         /\ queue_count' \in 0 .. MaxJobs - 1
         /\ \A k \in 0 .. queue_count' - 1 : Waiting(k)' = Waiting(k + 1)
<1> USE NumbersAssumption
<1>1. /\ queue_count \in 1 .. MaxJobs
      /\ queue_count' = queue_count - 1
      /\ queue_head \in Slots
      /\ queue_head' = (queue_head + 1) % MaxJobs
      /\ pending_queue' = pending_queue
  BY DEF worker_take, TypeOK
<1>2. NextSlot = Waiting(0)
  <2>1. (queue_head + 0) % MaxJobs = queue_head
    BY <1>1 DEF Slots
  <2>2. QED
    BY <2>1 DEF NextSlot, Waiting
<1>3. NextSlot \in Slots /\ jobs[NextSlot].status = "queued"
  BY <1>1, <1>2, WaitingType DEF RingMatchesTable
<1>4. ASSUME NEW k \in 0 .. queue_count' - 1 PROVE Waiting(k)' = Waiting(k + 1)
  BY <1>1, RingShift DEF Waiting
<1>5. queue_tail = (queue_head' + queue_count') % MaxJobs
  <2>1. (queue_head' + (queue_count - 1)) % MaxJobs
           = (queue_head + ((queue_count - 1) + 1)) % MaxJobs
    BY <1>1, RingShift, queue_count - 1 \in 0 .. MaxJobs - 1
  <2>2. QED
    BY <1>1, <2>1 DEF RingMatchesTable
<1>6. QED
  BY <1>1, <1>2, <1>3, <1>4, <1>5 DEF InUse

\* The new process' queue is empty.
LEMMA ZeroedEffect ==
  ASSUME ZeroedQueue
  PROVE  /\ RingMatchesTable'
         /\ \A s \in Slots : jobs'[s] = NoJob
<1>1. \A s \in Slots : jobs'[s] = NoJob
  BY DEF ZeroedQueue
<1>2. queue_tail' = (queue_head' + queue_count') % MaxJobs
  BY NumbersAssumption DEF ZeroedQueue
<1>3. queue_count' = 0 /\ 0 .. queue_count' - 1 = {}
  BY DEF ZeroedQueue
<1>4. QED
  BY <1>1, <1>2, <1>3 DEF RingMatchesTable, NoJob
-----------------------------------------------------------------------------
(* The ring and the table.                                                 *)

\* A step that leaves the ring and the set of queued slots alone.
LEMMA RingKept ==
  ASSUME TypeOK, RingMatchesTable,
         UNCHANGED <<pending_queue, queue_head, queue_tail, queue_count>>,
         \A s \in Slots : jobs'[s].status = "queued" <=> jobs[s].status = "queued"
  PROVE  RingMatchesTable'
<1>1. \A k \in 0 .. queue_count - 1 : Waiting(k)' = Waiting(k) /\ Waiting(k) \in Slots
  BY WaitingType DEF Waiting
<1>2. QED
  BY <1>1 DEF RingMatchesTable

\* An accepted request keeps ring and table in step, ...
LEMMA RingEnqueue ==
  ASSUME TypeOK, RingMatchesTable, NEW r \in Requests, transfer_enqueue(r)
  PROVE  RingMatchesTable'
<1>1. PICK s \in Slots :
           /\ jobs' = [prune_terminal_jobs_locked EXCEPT ![s] = NewJob(r)]
           /\ prune_terminal_jobs_locked[s].status = "unused"
           /\ queue_tail' = (queue_head + queue_count') % MaxJobs
           /\ \A k \in 0 .. queue_count - 1 : Waiting(k)' = Waiting(k)
           /\ \A k \in {queue_count} : Waiting(k)' = s
  BY EnqueueEffect
<1>2. queue_count' = queue_count + 1 /\ queue_count \in Nat /\ queue_head' = queue_head
  BY DEF transfer_enqueue, Push, TypeOK
<1>3. jobs'[s].status = "queued" /\ jobs[s].status # "queued"
  BY <1>1, PruneType, PruneEffect DEF NewJob, Terminal
<1>4. ASSUME NEW t \in Slots, t # s
      PROVE  jobs'[t].status = "queued" <=> jobs[t].status = "queued"
  <2>1. jobs'[t] = prune_terminal_jobs_locked[t]
    BY <1>1, <1>4, PruneType
  <2>2. QED
    BY <2>1, PruneEffect DEF NoJob, Terminal
<1>5. \A k \in 0 .. queue_count - 1 : Waiting(k) \in Slots /\ Waiting(k) # s
  BY <1>3, WaitingType DEF RingMatchesTable
<1>6. ASSUME NEW k \in 0 .. queue_count' - 1
      PROVE  \/ k \in 0 .. queue_count - 1 /\ Waiting(k)' = Waiting(k)
             \/ k = queue_count /\ Waiting(k)' = s
  BY <1>1, <1>2
<1>7. \A k \in 0 .. queue_count' - 1 : jobs'[Waiting(k)'].status = "queued"
  BY <1>3, <1>4, <1>5, <1>6 DEF RingMatchesTable
<1>8. \A i, k \in 0 .. queue_count' - 1 : Waiting(i)' = Waiting(k)' => i = k
  BY <1>5, <1>6 DEF RingMatchesTable
<1>9. ASSUME NEW t \in Slots, jobs'[t].status = "queued"
      PROVE  \E k \in 0 .. queue_count' - 1 : Waiting(k)' = t
  <2>1. CASE t = s
    BY <1>1, <1>2, <2>1
  <2>2. CASE t # s
    <3>1. PICK k \in 0 .. queue_count - 1 : Waiting(k) = t
      BY <1>4, <1>9, <2>2 DEF RingMatchesTable
    <3>2. k \in 0 .. queue_count' - 1 /\ Waiting(k)' = t
      BY <1>1, <1>2, <3>1
    <3>3. QED
      BY <3>2
  <2>3. QED
    BY <2>1, <2>2
<1>10. QED
  BY <1>1, <1>2, <1>7, <1>8, <1>9 DEF RingMatchesTable

\* ... and so does the worker taking a job.
LEMMA RingTake ==
  ASSUME TypeOK, RingMatchesTable, worker_take
  PROVE  RingMatchesTable'
<1>1. /\ NextSlot \in Slots /\ NextSlot = Waiting(0)
      /\ jobs[NextSlot].status = "queued" /\ InUse(NextSlot)
      /\ queue_tail = (queue_head' + queue_count') % MaxJobs
      /\ queue_count' \in 0 .. MaxJobs - 1
      /\ \A k \in 0 .. queue_count' - 1 : Waiting(k)' = Waiting(k + 1)
  BY TakeEffect
<1>2. /\ queue_count' = queue_count - 1 /\ queue_count \in Nat /\ queue_tail' = queue_tail
      /\ jobs' = [jobs EXCEPT ![NextSlot] = Updated(NextSlot, "in_progress",
                                                    jobs[NextSlot].filepath)]
  BY <1>1 DEF worker_take, TypeOK
<1>3. /\ jobs'[NextSlot].status = "in_progress"
      /\ \A t \in Slots : t # NextSlot => jobs'[t] = jobs[t]
  BY <1>1, <1>2 DEF Updated, TypeOK
<1>4. \A k \in 0 .. queue_count' - 1 :
        /\ k + 1 \in 0 .. queue_count - 1 /\ k + 1 # 0 /\ 0 \in 0 .. queue_count - 1
        /\ Waiting(k + 1) \in Slots
  BY <1>1, <1>2, WaitingType
<1>5. \A k \in 0 .. queue_count' - 1 : Waiting(k + 1) # NextSlot
  BY <1>1, <1>4 DEF RingMatchesTable
<1>6. ASSUME NEW k \in 0 .. queue_count' - 1 PROVE jobs'[Waiting(k)'].status = "queued"
  <2>1. k + 1 \in 0 .. queue_count - 1 /\ Waiting(k + 1) \in Slots \ {NextSlot}
    BY <1>4, <1>5
  <2>2. jobs[Waiting(k + 1)].status = "queued"
    BY <2>1 DEF RingMatchesTable
  <2>3. QED
    BY <1>1, <1>3, <2>1, <2>2
<1>7. \A i, k \in 0 .. queue_count' - 1 : Waiting(i)' = Waiting(k)' => i = k
  <2>1. SUFFICES ASSUME NEW i \in 0 .. queue_count' - 1, NEW k \in 0 .. queue_count' - 1,
                        Waiting(i + 1) = Waiting(k + 1)
                 PROVE  i = k
    BY <1>1
  <2>2. i + 1 = k + 1
    BY <1>4, <2>1 DEF RingMatchesTable
  <2>3. QED
    BY <2>2, <1>1
<1>8. ASSUME NEW t \in Slots, jobs'[t].status = "queued"
      PROVE  \E k \in 0 .. queue_count' - 1 : Waiting(k)' = t
  <2>1. t # NextSlot /\ jobs[t].status = "queued"
    BY <1>3, <1>8
  <2>2. PICK k \in 0 .. queue_count - 1 : Waiting(k) = t
    BY <2>1 DEF RingMatchesTable
  <2>3. k # 0 /\ k - 1 \in 0 .. queue_count' - 1 /\ (k - 1) + 1 = k
    BY <1>1, <1>2, <2>1, <2>2
  <2>4. Waiting(k - 1)' = t
    BY <1>1, <2>2, <2>3
  <2>5. QED
    BY <2>3, <2>4
<1>9. queue_tail' = (queue_head' + queue_count') % MaxJobs
  BY <1>1, <1>2
<1>10. QED
  BY <1>6, <1>7, <1>8, <1>9 DEF RingMatchesTable

\* The steps that touch neither the job table nor the ring.
Elsewhere(r) ==
    \/ seal_uploaded_stage(r) \/ transfer_enqueue_sweep(r) \/ transfer_enqueue_full(r)
    \/ upload_stage_abort(r)
    \/ worker_wait \/ worker_exit \/ send_open \/ send_open_fails \/ send_returns
    \/ worker_spurious_wakeup
    \/ server_stop \/ transfer_queue_shutdown \/ transfer_queue_joined
    \/ tick \/ ended \/ UNCHANGED vars

\* Every step is one of those, or one of these.
LEMMA StepCases ==
  ASSUME [Next]_vars
  PROVE  \/ \E r \in Requests : \/ transfer_enqueue(r)
                                \/ transfer_enqueue_refused(r)
                                \/ Elsewhere(r)
         \/ worker_take \/ transfer_job_progress \/ worker_finish
         \/ transfer_queue_init \/ crash
         \/ \A r : Elsewhere(r)
BY Zenon DEF Next, RequestStep, WorkerStep, MainStep, Elsewhere

\* They leave the table and the ring as they are.
LEMMA ElsewhereEffect ==
  ASSUME NEW r, Elsewhere(r)
  PROVE  UNCHANGED queueVars
BY DEF Elsewhere, seal_uploaded_stage, transfer_enqueue_sweep, transfer_enqueue_full,
       upload_stage_abort, worker_wait, worker_exit, send_open, send_open_fails,
       send_returns, worker_spurious_wakeup, server_stop, transfer_queue_shutdown,
       transfer_queue_joined, tick, ended, vars

\* Every step keeps the ring and the table in step.
LEMMA RingNext ==
  ASSUME TypeOK, RingMatchesTable, WorkerOwnsSlot, [Next]_vars
  PROVE  RingMatchesTable'
<1>1. ASSUME NEW r \in Requests, transfer_enqueue_refused(r) PROVE RingMatchesTable'
  <2>1. ASSUME NEW s \in Slots
        PROVE  jobs'[s].status = "queued" <=> jobs[s].status = "queued"
    BY <1>1, PruneEffect DEF transfer_enqueue_refused, NoJob, Terminal
  <2>2. QED
    BY <1>1, <2>1, RingKept DEF transfer_enqueue_refused
<1>2. CASE transfer_job_progress
  <2>1. jobs[slot].status = "in_progress" /\ jobs'[slot].status = "in_progress"
    BY <1>2 DEF transfer_job_progress, WorkerOwnsSlot, Serving, Updated, TypeOK
  <2>2. QED
    BY <1>2, <2>1, RingKept DEF transfer_job_progress, TypeOK
<1>3. CASE worker_finish
  <2>1. /\ jobs[slot].status = "in_progress"
        /\ jobs'[slot].status # "queued"
        /\ \A s \in Slots : s # slot => jobs'[s] = jobs[s]
    BY <1>3 DEF worker_finish, WorkerOwnsSlot, Serving, Updated, TypeOK
  <2>2. QED
    BY <1>3, <2>1, RingKept DEF worker_finish, TypeOK
<1>4. CASE transfer_queue_init \/ crash
  BY <1>4, ZeroedEffect DEF transfer_queue_init, crash
<1>5. ASSUME NEW r, Elsewhere(r) PROVE RingMatchesTable'
  BY <1>5, ElsewhereEffect, RingKept DEF queueVars
<1>6. QED
  BY <1>1, <1>2, <1>3, <1>4, <1>5, RingEnqueue, RingTake, StepCases
-----------------------------------------------------------------------------
(* Control, the table and the worker's slot.                               *)

\* Every step keeps the threads' control states consistent.
LEMMA ControlNext ==
  ASSUME TypeOK, ControlInv, RingMatchesTable, [Next]_vars
  PROVE  ControlInv'
<1>1. ASSUME NEW r \in Requests, transfer_enqueue(r) PROVE ControlInv'
  <2>1. main = "serving" /\ queue_running /\ worker # "exited"
    BY <1>1 DEF transfer_enqueue, ControlInv
  <2>2. worker' # "exited" /\ main' = main /\ queue_running' = queue_running
    BY <1>1, <2>1 DEF transfer_enqueue, Signal
  <2>3. QED
    BY <1>1, <2>1, <2>2 DEF ControlInv
<1>2. ASSUME NEW r \in Requests, transfer_enqueue_refused(r) PROVE ControlInv'
  BY <1>2 DEF transfer_enqueue_refused, ControlInv, workerVars, TypeOK
<1>3. ASSUME NEW r \in Requests,
             \/ seal_uploaded_stage(r) \/ transfer_enqueue_sweep(r)
             \/ transfer_enqueue_full(r) \/ upload_stage_abort(r)
      PROVE  ControlInv'
  BY <1>3 DEF seal_uploaded_stage, transfer_enqueue_sweep, transfer_enqueue_full,
              upload_stage_abort, ControlInv, workerVars, queueVars, TypeOK
<1>4. CASE worker_take
  BY <1>4, TakeEffect DEF worker_take, ControlInv
<1>5. CASE transfer_job_progress \/ worker_finish \/ worker_wait \/ worker_exit
           \/ send_open \/ send_open_fails \/ send_returns \/ worker_spurious_wakeup
  BY <1>5 DEF transfer_job_progress, worker_finish, worker_wait, worker_exit, MayExit,
              send_open, send_open_fails, send_returns, worker_spurious_wakeup,
              ControlInv, workerVars, queueVars
<1>6. CASE transfer_queue_init \/ crash
  <2>1. \A r \in Requests : req'[r] \notin {"staged", "swept", "refused"}
    BY <1>6 DEF transfer_queue_init, crash, Abandoned
  <2>2. QED
    BY <1>6, <2>1 DEF transfer_queue_init, crash, ZeroedQueue, ControlInv
<1>7. CASE server_stop \/ transfer_queue_joined
  BY <1>7 DEF server_stop, transfer_queue_joined, ControlInv, workerVars, queueVars
<1>8. CASE transfer_queue_shutdown
  BY <1>8 DEF transfer_queue_shutdown, Signal, ControlInv, queueVars
<1>9. CASE tick \/ ended \/ UNCHANGED vars
  BY <1>9 DEF tick, ended, vars, ControlInv, workerVars, queueVars
<1>10. QED
  BY <1>1, <1>2, <1>3, <1>4, <1>5, <1>6, <1>7, <1>8, <1>9
  DEF Next, RequestStep, WorkerStep, MainStep

\* A step that changes no job, and no request with a job, keeps the table.
LEMMA TableKept ==
  ASSUME TypeOK, TableInv, jobs' = jobs,
         \A r \in Requests : req[r] = "accepted" => req'[r] = "accepted"
  PROVE  TableInv'
BY DEF TableInv, InUse

\* Every step keeps the table's slots well formed.
LEMMA TableNext ==
  ASSUME TypeOK, TableInv, WorkerOwnsSlot, RingMatchesTable, [Next]_vars
  PROVE  TableInv'
<1>1. ASSUME NEW r \in Requests, transfer_enqueue(r) PROVE TableInv'
  <2>1. PICK s \in Slots :
           /\ jobs' = [prune_terminal_jobs_locked EXCEPT ![s] = NewJob(r)]
           /\ prune_terminal_jobs_locked[s].status = "unused"
    BY <1>1, EnqueueEffect
  <2>2. jobs'[s] = NewJob(r)
    BY <2>1, PruneType
  <2>3. \A t \in Slots : t # s => jobs'[t] \in {jobs[t], NoJob}
    BY <2>1, PruneType, PruneEffect
  <2>4. /\ req' = [req EXCEPT ![r] = "accepted"] /\ req[r] = "swept"
        /\ req \in [Requests -> {"idle", "staged", "swept", "refused", "aborted",
                                 "accepted", "lost", "gone"}]
    BY <1>1 DEF transfer_enqueue, TypeOK
  <2>5. \A t \in Slots : t # s /\ jobs'[t].status # "unused" =>
             jobs'[t] = jobs[t] /\ jobs[t].id # r /\ InUse(t)
    BY <2>3, <2>4 DEF TableInv, NoJob, InUse
  <2>6. \A t \in Slots : t # s /\ jobs'[t].status = "unused" => jobs'[t] = NoJob
    BY <2>3 DEF TableInv
  <2>7. QED
    BY <2>2, <2>4, <2>5, <2>6 DEF TableInv, InUse, NewJob
<1>2. ASSUME NEW r \in Requests, transfer_enqueue_refused(r) PROVE TableInv'
  <2>1. \A t \in Slots : jobs'[t] \in {jobs[t], NoJob}
    BY <1>2, PruneEffect DEF transfer_enqueue_refused
  <2>2. \A t \in Slots : jobs'[t].status # "unused" => jobs'[t] = jobs[t] /\ InUse(t)
    BY <2>1 DEF NoJob, InUse
  <2>3. \A t \in Slots : jobs'[t].status = "unused" => jobs'[t] = NoJob
    BY <2>1 DEF TableInv
  <2>4. \A q \in Requests : req[q] = "accepted" => req'[q] = "accepted"
    BY <1>2 DEF transfer_enqueue_refused, TypeOK
  <2>5. QED
    BY <2>2, <2>3, <2>4 DEF TableInv, InUse
<1>3. ASSUME NEW s \in Slots, InUse(s), req' = req,
             jobs[s].status \in {"queued", "in_progress"},
             \/ jobs' = [jobs EXCEPT ![s] = Updated(s, "in_progress", jobs[s].filepath)]
             \/ jobs' = [jobs EXCEPT ![s] = Updated(s, "failed", jobs[s].filepath)]
             \/ jobs' = [jobs EXCEPT ![s] = Updated(s, "completed", Nil)]
      PROVE  TableInv'
  <2>1. /\ jobs'[s].id = jobs[s].id
        /\ \/ jobs'[s].status = "completed" /\ jobs'[s].filepath = Nil
           \/ /\ jobs'[s].status \in {"in_progress", "failed"}
              /\ jobs'[s].filepath = jobs[s].filepath
    BY <1>3 DEF Updated, TypeOK
  <2>2. \A t \in Slots : t # s => jobs'[t] = jobs[t]
    BY <1>3 DEF TypeOK
  <2>3. QED
    BY <1>3, <2>1, <2>2 DEF TableInv, InUse
<1>4. CASE worker_take
  BY <1>3, <1>4, TakeEffect DEF worker_take
<1>5. CASE transfer_job_progress
  BY <1>3, <1>5 DEF transfer_job_progress, WorkerOwnsSlot, Serving, TypeOK
<1>6. CASE worker_finish
  <2>1. slot \in Slots /\ InUse(slot) /\ jobs[slot].status = "in_progress"
    BY <1>6 DEF worker_finish, WorkerOwnsSlot, Serving, TypeOK, InUse
  <2>2. QED
    BY <1>3, <1>6, <2>1 DEF worker_finish
<1>7. CASE transfer_queue_init \/ crash
  BY <1>7, ZeroedEffect DEF transfer_queue_init, crash, TableInv, InUse, NoJob
<1>8. ASSUME NEW r, Elsewhere(r), r \in Requests \/ \A q : Elsewhere(q) PROVE TableInv'
  <2>1. jobs' = jobs
    BY <1>8, ElsewhereEffect DEF queueVars
  <2>2. \A q \in Requests : req[q] = "accepted" => req'[q] = "accepted"
    BY <1>8 DEF Elsewhere, seal_uploaded_stage, transfer_enqueue_sweep,
                transfer_enqueue_full, upload_stage_abort, worker_wait, worker_exit,
                send_open, send_open_fails, send_returns, worker_spurious_wakeup,
                server_stop, transfer_queue_shutdown, transfer_queue_joined, tick,
                ended, vars, TypeOK
  <2>3. QED
    BY <2>1, <2>2, TableKept
<1>9. QED
  BY <1>1, <1>2, <1>4, <1>5, <1>6, <1>7, <1>8, StepCases

\* A step that leaves the worker and the jobs in progress alone.
LEMMA OwnerKept ==
  ASSUME TypeOK, WorkerOwnsSlot,
         UNCHANGED <<slot, taken, path>>,
         worker' = worker \/ (~Serving /\ ~Serving'),
         \A s \in Slots : \/ jobs'[s] = jobs[s]
                         \/ /\ jobs[s].status # "in_progress"
                            /\ jobs'[s].status # "in_progress"
  PROVE  WorkerOwnsSlot'
BY DEF WorkerOwnsSlot, Serving, TypeOK

\* Every step leaves the worker its slot: until the outcome is recorded, no
\* request thread prunes or reuses it.
LEMMA OwnerNext ==
  ASSUME TypeOK, TableInv, WorkerOwnsSlot, RingMatchesTable, [Next]_vars
  PROVE  WorkerOwnsSlot'
<1>1. ASSUME NEW r \in Requests, transfer_enqueue(r) PROVE WorkerOwnsSlot'
  <2>1. PICK s \in Slots :
           /\ jobs' = [prune_terminal_jobs_locked EXCEPT ![s] = NewJob(r)]
           /\ prune_terminal_jobs_locked[s].status = "unused"
    BY <1>1, EnqueueEffect
  <2>2. jobs[s].status # "in_progress" /\ jobs'[s].status # "in_progress"
    BY <2>1, PruneEffect, PruneType DEF NewJob, Terminal
  <2>3. ASSUME NEW t \in Slots, t # s
        PROVE  jobs'[t] = jobs[t] \/ (/\ jobs[t].status # "in_progress"
                                      /\ jobs'[t].status # "in_progress")
    BY <2>1, <2>3, PruneEffect, PruneType DEF NoJob, Terminal
  <2>4. worker' = worker \/ (~Serving /\ ~Serving')
    BY <1>1 DEF transfer_enqueue, Signal, Serving
  <2>5. QED
    BY <1>1, <2>2, <2>3, <2>4, OwnerKept DEF transfer_enqueue
<1>2. ASSUME NEW r \in Requests, transfer_enqueue_refused(r) PROVE WorkerOwnsSlot'
  <2>1. ASSUME NEW t \in Slots
        PROVE  jobs'[t] = jobs[t] \/ (/\ jobs[t].status # "in_progress"
                                      /\ jobs'[t].status # "in_progress")
    BY <1>2, PruneEffect DEF transfer_enqueue_refused, NoJob, Terminal
  <2>2. QED
    BY <1>2, <2>1, OwnerKept DEF transfer_enqueue_refused, workerVars
<1>3. CASE worker_take
  <2>1. /\ NextSlot \in Slots /\ jobs[NextSlot].status = "queued" /\ InUse(NextSlot)
        /\ jobs[NextSlot].filepath = jobs[NextSlot].id
        /\ ~Serving
    BY <1>3, TakeEffect DEF TableInv, worker_take, Serving
  <2>2. /\ slot' = NextSlot /\ taken' = jobs[NextSlot].id /\ worker' = "send"
        /\ jobs' = [jobs EXCEPT ![NextSlot] = Updated(NextSlot, "in_progress",
                                                       jobs[NextSlot].filepath)]
    BY <1>3, <2>1 DEF worker_take
  <2>3. /\ jobs'[NextSlot].status = "in_progress"
        /\ jobs'[NextSlot].id = jobs[NextSlot].id
        /\ jobs'[NextSlot].filepath = jobs[NextSlot].id
        /\ \A t \in Slots : t # NextSlot => jobs'[t] = jobs[t]
    BY <2>1, <2>2 DEF Updated, TypeOK
  <2>4. QED
    BY <2>1, <2>2, <2>3 DEF WorkerOwnsSlot, Serving
<1>4. CASE transfer_job_progress
  <2>1. /\ slot \in Slots /\ Serving /\ Serving'
        /\ jobs'[slot].status = "in_progress"
        /\ jobs'[slot].id = jobs[slot].id
        /\ jobs'[slot].filepath = jobs[slot].filepath
        /\ \A t \in Slots : t # slot => jobs'[t] = jobs[t]
    BY <1>4 DEF transfer_job_progress, Updated, Serving, workerVars, TypeOK
  <2>2. QED
    BY <1>4, <2>1 DEF transfer_job_progress, workerVars, WorkerOwnsSlot
<1>5. CASE worker_finish
  <2>1. slot \in Slots /\ InUse(slot) /\ ~Serving' /\ worker' # "sending"
    BY <1>5 DEF worker_finish, WorkerOwnsSlot, Serving, TypeOK, InUse
  <2>2. jobs'[slot].status # "in_progress" /\ \A t \in Slots : t # slot => jobs'[t] = jobs[t]
    BY <1>5, <2>1 DEF worker_finish, Updated, TypeOK
  <2>3. QED
    BY <2>1, <2>2 DEF WorkerOwnsSlot
<1>6. CASE transfer_queue_init \/ crash
  <2>1. ~Serving' /\ worker' # "sending"
    BY <1>6 DEF transfer_queue_init, crash, Serving
  <2>2. QED
    BY <1>6, <2>1, ZeroedEffect DEF transfer_queue_init, crash, WorkerOwnsSlot, NoJob
<1>7. CASE send_open \/ send_open_fails \/ send_returns
  BY <1>7 DEF send_open, send_open_fails, send_returns, WorkerOwnsSlot, Serving, queueVars
<1>8. CASE worker_wait \/ worker_exit \/ worker_spurious_wakeup
           \/ transfer_queue_shutdown
  BY <1>8, OwnerKept DEF worker_wait, worker_exit, MayExit, worker_spurious_wakeup,
       transfer_queue_shutdown, Signal, Serving, queueVars
<1>9. ASSUME NEW r \in Requests,
             \/ seal_uploaded_stage(r) \/ transfer_enqueue_sweep(r)
             \/ transfer_enqueue_full(r) \/ upload_stage_abort(r)
      PROVE  WorkerOwnsSlot'
  BY <1>9, OwnerKept DEF seal_uploaded_stage, transfer_enqueue_sweep,
       transfer_enqueue_full, upload_stage_abort, workerVars, queueVars
<1>10. CASE server_stop \/ transfer_queue_joined \/ tick \/ ended \/ UNCHANGED vars
  BY <1>10, OwnerKept DEF server_stop, transfer_queue_joined, tick, ended, vars,
       workerVars, queueVars
<1>11. QED
  BY <1>1, <1>2, <1>3, <1>4, <1>5, <1>6, <1>7, <1>8, <1>9, <1>10
  DEF Next, RequestStep, WorkerStep, MainStep
-----------------------------------------------------------------------------
(* The first invariants.                                                   *)

CoreInv == TypeOK /\ RingMatchesTable /\ WorkerOwnsSlot /\ TableInv /\ ControlInv

\* The core invariant holds initially ...
LEMMA CoreInit == Init => CoreInv
<1> SUFFICES ASSUME Init PROVE CoreInv
  OBVIOUS
<1>1. TypeOK
  BY TypeInit
<1>2. \A s \in Slots : jobs[s] = NoJob
  BY DEF Init
<1>3. RingMatchesTable
  <2>1. queue_tail = (queue_head + queue_count) % MaxJobs
    BY NumbersAssumption DEF Init
  <2>2. queue_count = 0 /\ 0 .. queue_count - 1 = {}
    BY DEF Init
  <2>3. QED
    BY <1>2, <2>1, <2>2 DEF RingMatchesTable, NoJob
<1>4. WorkerOwnsSlot
  BY <1>2 DEF Init, WorkerOwnsSlot, Serving, NoJob
<1>5. TableInv
  BY <1>2 DEF TableInv, InUse, NoJob
<1>6. ControlInv
  BY DEF Init, ControlInv
<1>7. QED
  BY <1>1, <1>3, <1>4, <1>5, <1>6 DEF CoreInv

\* ... and is inductive.
LEMMA CoreNext == CoreInv /\ [Next]_vars => CoreInv'
BY TypeNext, RingNext, OwnerNext, TableNext, ControlNext DEF CoreInv

\* It holds of every behaviour.
LEMMA CoreAlways == Spec => []CoreInv
BY CoreInit, CoreNext, PTL DEF Spec

\* The ring and the job table agree whatever pruning, slot reuse and
\* wrap-around do: no accepted job is forgotten and none is queued twice.
THEOREM RingAgrees == Spec => []RingMatchesTable
BY CoreAlways, PTL DEF CoreInv

\* The worker's unlocked reads of its slot are safe: the slot holds the job it
\* took until it records the outcome.
THEOREM SlotIsOwned == Spec => []WorkerOwnsSlot
BY CoreAlways, PTL DEF CoreInv

\* transfer_queue_shutdown returns only when the queue is drained.
THEOREM ShutdownDrains == Spec => []StoppedMeansDrained
<1>1. CoreInv => StoppedMeansDrained
  <2> SUFFICES ASSUME CoreInv, main = "stopped"
               PROVE  /\ queue_count = 0
                      /\ \A s \in Slots : jobs[s].status \notin {"queued", "in_progress"}
    BY DEF StoppedMeansDrained
  <2>1. queue_count = 0 /\ ~Serving
    BY DEF CoreInv, ControlInv, Serving
  <2>2. 0 .. queue_count - 1 = {}
    BY <2>1
  <2>3. QED
    BY <2>1, <2>2 DEF CoreInv, RingMatchesTable, WorkerOwnsSlot
<1>2. QED
  BY <1>1, CoreAlways, PTL
-----------------------------------------------------------------------------
(* Delivery.                                                               *)

\* A step that delivers nothing, takes no job and reports no outcome.
LEMMA DeliveryKept ==
  ASSUME TypeOK, DeliveryInv,
         UNCHANGED <<received, taken, send_result>>,
         worker' = worker \/ (~Serving /\ ~Serving'),
         \A r \in Requests : req[r] \in {"accepted", "gone"} => req'[r] \in {"accepted", "gone"},
         \A s \in Slots : jobs'[s].status \in {"queued", "completed"} => jobs'[s] = jobs[s]
  PROVE  DeliveryInv'
BY DEF DeliveryInv, Serving, TypeOK

\* Every step keeps the account of deliveries.
LEMMA DeliveryNext ==
  ASSUME CoreInv, DeliveryInv, [Next]_vars
  PROVE  DeliveryInv'
<1> USE DEF CoreInv
<1>1. ASSUME NEW r \in Requests, transfer_enqueue(r) PROVE DeliveryInv'
  <2>1. PICK s \in Slots :
           /\ jobs' = [prune_terminal_jobs_locked EXCEPT ![s] = NewJob(r)]
           /\ prune_terminal_jobs_locked[s].status = "unused"
    BY <1>1, EnqueueEffect
  <2>2. jobs'[s] = NewJob(r) /\ received[r] = 0
    BY <1>1, <2>1, PruneType DEF DeliveryInv, transfer_enqueue
  <2>3. \A t \in Slots : t # s /\ jobs'[t].status \in {"queued", "completed"}
                          => jobs'[t] = jobs[t]
    BY <2>1, PruneEffect, PruneType DEF NoJob
  <2>4. \A q \in Requests : req'[q] \notin {"accepted", "gone"} =>
                               req[q] \notin {"accepted", "gone"}
    BY <1>1 DEF transfer_enqueue, TypeOK
  <2>5. /\ UNCHANGED <<received, taken, send_result>>
        /\ worker' = worker \/ (~Serving /\ ~Serving')
    BY <1>1 DEF transfer_enqueue, Signal, Serving
  <2>6. QED
    BY <2>2, <2>3, <2>4, <2>5 DEF DeliveryInv, NewJob, Serving
<1>2. ASSUME NEW r \in Requests, transfer_enqueue_refused(r) PROVE DeliveryInv'
  <2>1. \A t \in Slots : jobs'[t].status \in {"queued", "completed"} => jobs'[t] = jobs[t]
    BY <1>2, PruneEffect DEF transfer_enqueue_refused, NoJob
  <2>2. \A q \in Requests : req[q] \in {"accepted", "gone"} => req'[q] \in {"accepted", "gone"}
    BY <1>2 DEF transfer_enqueue_refused, TypeOK
  <2>3. QED
    BY <1>2, <2>1, <2>2, DeliveryKept DEF transfer_enqueue_refused, workerVars
<1>3. CASE worker_take
  <2>1. /\ NextSlot \in Slots /\ jobs[NextSlot].status = "queued" /\ InUse(NextSlot)
    BY <1>3, TakeEffect
  <2>2. /\ taken' = jobs[NextSlot].id /\ worker' = "send"
        /\ received' = received /\ req' = req
        /\ jobs' = [jobs EXCEPT ![NextSlot] = Updated(NextSlot, "in_progress",
                                                       jobs[NextSlot].filepath)]
    BY <1>3, <2>1 DEF worker_take
  <2>3. /\ jobs'[NextSlot].status = "in_progress"
        /\ \A t \in Slots : t # NextSlot => jobs'[t] = jobs[t]
    BY <2>1, <2>2 DEF Updated, TypeOK
  <2>4. QED
    BY <2>1, <2>2, <2>3 DEF DeliveryInv
<1>4. CASE transfer_job_progress
  <2>1. \A t \in Slots : jobs'[t].status \in {"queued", "completed"} => jobs'[t] = jobs[t]
    BY <1>4 DEF transfer_job_progress, Updated, TypeOK
  <2>2. QED
    BY <1>4, <2>1, DeliveryKept DEF transfer_job_progress, workerVars
<1>5. CASE worker_finish
  <2>1. /\ slot \in Slots /\ InUse(slot) /\ jobs[slot].id = taken
        /\ worker' = "loop" /\ received' = received /\ req' = req
    BY <1>5 DEF worker_finish, WorkerOwnsSlot, Serving, TypeOK, InUse
  <2>2. \A t \in Slots : t # slot => jobs'[t] = jobs[t]
    BY <1>5, <2>1 DEF worker_finish, TypeOK
  <2>3. /\ jobs'[slot].id = taken
        /\ jobs'[slot].status \in Terminal
        /\ jobs'[slot].status = "completed" => send_result = 0
    BY <1>5, <2>1 DEF worker_finish, Updated, TypeOK, Terminal
  <2>4. jobs'[slot].status = "completed" => received[taken] = 1
    BY <1>5, <2>3 DEF DeliveryInv, worker_finish
  <2>5. QED
    BY <2>1, <2>2, <2>3, <2>4 DEF DeliveryInv, Terminal
<1>6. CASE transfer_queue_init \/ crash
  <2>1. \A q \in Requests : req'[q] \notin {"accepted", "gone"} =>
                               req[q] \notin {"accepted", "gone"}
    BY <1>6 DEF transfer_queue_init, crash, Abandoned
  <2>2. worker' \in {"loop", "exited"} /\ received' = received
    BY <1>6 DEF transfer_queue_init, crash
  <2>3. QED
    BY <1>6, <2>1, <2>2, ZeroedEffect DEF transfer_queue_init, crash, DeliveryInv, NoJob
<1>7. CASE send_returns
  <2>1. PICK got \in BOOLEAN, result \in {0, -1} :
           /\ result = 0 => got
           /\ received' = IF got THEN [received EXCEPT ![path] = received[path] + 1]
                          ELSE received
           /\ send_result' = result
    BY <1>7 DEF send_returns, AnswerAllows
  <2>2. /\ path = taken /\ slot \in Slots /\ jobs[slot].id = taken
        /\ jobs[slot].status = "in_progress" /\ taken \in Requests
        /\ req[taken] = "accepted" /\ received[taken] = 0
    BY <1>7 DEF send_returns, WorkerOwnsSlot, Serving, TableInv, InUse, TypeOK, DeliveryInv
  <2>3. /\ \A q \in Requests : q # taken => received'[q] = received[q]
        /\ received'[taken] = IF got THEN 1 ELSE 0
    BY <2>1, <2>2 DEF TypeOK
  <2>4. UNCHANGED <<jobs, req, taken>> /\ worker' = "finish"
    BY <1>7 DEF send_returns, queueVars
  <2>5. \A s \in Slots : jobs[s].status \in {"queued", "completed"} =>
                            jobs[s].id # taken /\ jobs[s].id \in Requests
    BY <2>2 DEF TableInv, InUse
  <2>6. QED
    BY <2>1, <2>2, <2>3, <2>4, <2>5 DEF DeliveryInv
<1>8. CASE send_open \/ send_open_fails
  BY <1>8 DEF send_open, send_open_fails, DeliveryInv, queueVars
<1>9. CASE worker_wait \/ worker_exit \/ worker_spurious_wakeup
           \/ transfer_queue_shutdown
  BY <1>9, DeliveryKept DEF worker_wait, worker_exit, MayExit, worker_spurious_wakeup,
       transfer_queue_shutdown, Signal, Serving, queueVars
<1>10. ASSUME NEW r \in Requests,
             \/ seal_uploaded_stage(r) \/ transfer_enqueue_sweep(r)
             \/ transfer_enqueue_full(r) \/ upload_stage_abort(r)
      PROVE  DeliveryInv'
  <2>1. \A q \in Requests : req[q] \in {"accepted", "gone"} => req'[q] \in {"accepted", "gone"}
    BY <1>10 DEF seal_uploaded_stage, transfer_enqueue_sweep, transfer_enqueue_full,
                 upload_stage_abort, TypeOK
  <2>2. QED
    BY <1>10, <2>1, DeliveryKept DEF seal_uploaded_stage, transfer_enqueue_sweep,
       transfer_enqueue_full, upload_stage_abort, workerVars, queueVars
<1>11. CASE server_stop \/ transfer_queue_joined \/ tick \/ ended \/ UNCHANGED vars
  BY <1>11, DeliveryKept DEF server_stop, transfer_queue_joined, tick, ended, vars,
       workerVars, queueVars
<1>12. QED
  BY <1>1, <1>2, <1>3, <1>4, <1>5, <1>6, <1>7, <1>8, <1>9, <1>10, <1>11
  DEF Next, RequestStep, WorkerStep, MainStep

\* No file is delivered twice, and a job reported as completed was delivered,
\* across any number of crashes and restarts.
THEOREM DeliveryIsOnce == Spec => []DeliveredOnce
<1>1. Init => DeliveryInv
  BY DEF Init, DeliveryInv, NoJob
<1>2. CoreInv /\ DeliveryInv /\ [Next]_vars => DeliveryInv'
  BY DeliveryNext
<1>3. DeliveryInv => DeliveredOnce
  BY DEF DeliveryInv, DeliveredOnce
<1>4. QED
  BY <1>1, <1>2, <1>3, CoreAlways, PTL DEF Spec
-----------------------------------------------------------------------------
(* Outcomes.                                                               *)

\* A step changes a job that has an outcome only by pruning it after its
\* retention, or together with the end or the start of a process.
LEMMA OutcomeStep ==
  ASSUME CoreInv, Next, NEW s \in Slots, jobs[s].status \in Terminal
  PROVE  \/ jobs'[s] = jobs[s]
         \/ now >= jobs[s].updated_at + JobRetention
         \/ main' # main
<1> USE DEF CoreInv
<1>1. ASSUME Prunable(s) PROVE now >= jobs[s].updated_at + JobRetention
  BY <1>1, NumbersAssumption DEF Prunable, TypeOK, Job
<1>2. ASSUME NEW r \in Requests, transfer_enqueue(r)
      PROVE  jobs'[s] = jobs[s] \/ Prunable(s)
  <2>1. PICK t \in Slots :
           /\ jobs' = [prune_terminal_jobs_locked EXCEPT ![t] = NewJob(r)]
           /\ prune_terminal_jobs_locked[t].status = "unused"
    BY <1>2, EnqueueEffect
  <2>2. QED
    BY <2>1, PruneEffect, PruneType DEF Terminal
<1>3. ASSUME NEW r \in Requests, transfer_enqueue_refused(r)
      PROVE  jobs'[s] = jobs[s] \/ Prunable(s)
  BY <1>3, PruneEffect DEF transfer_enqueue_refused
<1>4. CASE worker_take
  BY <1>4, TakeEffect DEF worker_take, TypeOK, Terminal
<1>5. CASE transfer_job_progress \/ worker_finish
  <2>1. slot # s
    BY <1>5 DEF transfer_job_progress, worker_finish, WorkerOwnsSlot, Serving, Terminal
  <2>2. QED
    BY <1>5, <2>1 DEF transfer_job_progress, worker_finish, TypeOK
<1>6. CASE transfer_queue_init \/ crash
  BY <1>6 DEF transfer_queue_init, crash
<1>7. ASSUME NEW r, Elsewhere(r) PROVE jobs'[s] = jobs[s]
  BY <1>7, ElsewhereEffect DEF queueVars
<1>8. QED
  BY <1>1, <1>2, <1>3, <1>4, <1>5, <1>6, <1>7, StepCases

\* An outcome never changes while the process lives and its retention lasts.
THEOREM OutcomesAreFinal == Spec => OutcomeIsFinal
<1>1. CoreInv /\ [Next]_vars =>
        [\A s \in Slots :
            jobs[s].status \in Terminal =>
                \/ jobs'[s] = jobs[s]
                \/ now >= jobs[s].updated_at + JobRetention
                \/ main' # main]_vars
  BY OutcomeStep
<1>2. QED
  BY <1>1, CoreAlways, PTL DEF Spec, OutcomeIsFinal
-----------------------------------------------------------------------------
(* Files.                                                                  *)

\* Every step leaves every file in staging/ an owner.
LEMMA OwnedFileNext ==
  ASSUME CoreInv, NoStrayFile, [Next]_vars
  PROVE  NoStrayFile'
<1> USE DEF CoreInv
<1> DEFINE Handled == {"staged", "swept", "refused", "lost", "gone"}
<1>1. ASSUME NEW r \in Requests, transfer_enqueue(r) PROVE NoStrayFile'
  <2>1. PICK s \in Slots :
           /\ jobs' = [prune_terminal_jobs_locked EXCEPT ![s] = NewJob(r)]
           /\ prune_terminal_jobs_locked[s].status = "unused"
    BY <1>1, EnqueueEffect
  <2>2. jobs'[s].filepath = r
    BY <2>1, PruneType DEF NewJob
  <2>3. /\ staged' = staged \ PrunedFiles
        /\ \A q \in Requests : q # r => req'[q] = req[q]
    BY <1>1 DEF transfer_enqueue, TypeOK
  <2>4. ASSUME NEW f \in staged', f # r, req[f] \notin Handled
        PROVE  \E t \in Slots : jobs'[t].filepath = f
    <3>1. PICK t \in Slots : jobs[t].filepath = f
      BY <2>3, <2>4 DEF NoStrayFile
    <3>2. ~Prunable(t)
      BY <2>3, <3>1, <2>4 DEF PrunedFiles
    <3>3. f \in Requests /\ f # Nil
      BY <2>3, RequestsAssumption DEF TypeOK
    <3>4. t # s /\ jobs'[t] = jobs[t]
      <4>1. prune_terminal_jobs_locked[t] = jobs[t]
        BY <3>2, PruneEffect
      <4>2. jobs[t].status # "unused"
        BY <3>1, <3>3 DEF TableInv, NoJob
      <4>3. QED
        BY <2>1, <4>1, <4>2, PruneType
    <3>5. QED
      BY <3>1, <3>4
  <2>5. QED
    BY <2>2, <2>3, <2>4 DEF NoStrayFile, TypeOK
<1>2. ASSUME NEW r \in Requests, transfer_enqueue_refused(r) PROVE NoStrayFile'
  <2>1. /\ staged' = staged \ PrunedFiles
        /\ \A q \in Requests : req[q] \in Handled => req'[q] \in Handled
    BY <1>2 DEF transfer_enqueue_refused, TypeOK
  <2>2. ASSUME NEW f \in staged', NEW t \in Slots, jobs[t].filepath = f
        PROVE  jobs'[t].filepath = f
    <3>1. ~Prunable(t)
      BY <2>1, <2>2 DEF PrunedFiles
    <3>2. QED
      BY <1>2, <2>2, <3>1, PruneEffect DEF transfer_enqueue_refused
  <2>3. QED
    BY <2>1, <2>2 DEF NoStrayFile, TypeOK
<1>3. ASSUME \A t \in Slots : jobs'[t].filepath = jobs[t].filepath,
             staged' \subseteq staged, req' = req
      PROVE  NoStrayFile'
  BY <1>3 DEF NoStrayFile
<1>4. CASE worker_take
  <2>1. NextSlot \in Slots /\ InUse(NextSlot)
    BY <1>4, TakeEffect
  <2>2. \A t \in Slots : jobs'[t].filepath = jobs[t].filepath
    BY <1>4, <2>1 DEF worker_take, Updated, TypeOK
  <2>3. QED
    BY <1>3, <1>4, <2>2 DEF worker_take, fileVars
<1>5. CASE transfer_job_progress
  <2>1. \A t \in Slots : jobs'[t].filepath = jobs[t].filepath
    BY <1>5 DEF transfer_job_progress, Updated, TypeOK
  <2>2. QED
    BY <1>3, <1>5, <2>1 DEF transfer_job_progress, fileVars
<1>6. CASE worker_finish
  <2>1. slot \in Slots /\ InUse(slot) /\ req' = req
    BY <1>6 DEF worker_finish, WorkerOwnsSlot, Serving, TypeOK, InUse
  <2>2. \A t \in Slots : t # slot => jobs'[t] = jobs[t]
    BY <1>6, <2>1 DEF worker_finish, TypeOK
  <2>3. /\ staged' \subseteq staged
        /\ \/ staged' = staged \ {jobs[slot].filepath}
           \/ jobs'[slot].filepath = jobs[slot].filepath
    BY <1>6, <2>1 DEF worker_finish, Updated, TypeOK
  <2>4. QED
    BY <2>1, <2>2, <2>3 DEF NoStrayFile
<1>7. CASE transfer_queue_init \/ crash
  <2>1. staged' \subseteq staged
    BY <1>7 DEF transfer_queue_init, crash, cleanup_expired_staging_files, fileVars
  <2>2. ASSUME NEW f \in staged, req[f] \notin Handled PROVE req[f] = "accepted"
    <3>1. PICK t \in Slots : jobs[t].filepath = f
      BY <2>2 DEF NoStrayFile
    <3>2. f # Nil /\ jobs[t] \in Job
      BY RequestsAssumption DEF TypeOK
    <3>3. jobs[t].status \in {"queued", "in_progress", "failed"}
      BY <3>1, <3>2 DEF TableInv, NoJob, Job, JobStatus
    <3>4. QED
      BY <3>1, <3>3 DEF TableInv, InUse
  <2>3. \A f \in staged : req'[f] \in Handled
    BY <1>7, <2>2 DEF transfer_queue_init, crash, Abandoned, TypeOK
  <2>4. QED
    BY <2>1, <2>3 DEF NoStrayFile
<1>8. ASSUME NEW r \in Requests, seal_uploaded_stage(r) PROVE NoStrayFile'
  BY <1>8 DEF seal_uploaded_stage, NoStrayFile, TypeOK, queueVars
<1>9. ASSUME NEW r \in Requests, transfer_enqueue_sweep(r) PROVE NoStrayFile'
  BY <1>9 DEF transfer_enqueue_sweep, cleanup_expired_staging_files, NoStrayFile, TypeOK,
              queueVars
<1>10. ASSUME NEW r \in Requests, transfer_enqueue_full(r) PROVE NoStrayFile'
  BY <1>10 DEF transfer_enqueue_full, NoStrayFile, TypeOK, queueVars, fileVars
<1>11. ASSUME NEW r \in Requests, upload_stage_abort(r) PROVE NoStrayFile'
  BY <1>11 DEF upload_stage_abort, NoStrayFile, TypeOK, queueVars
<1>12. CASE \/ worker_wait \/ worker_exit \/ send_open \/ send_open_fails \/ send_returns
            \/ worker_spurious_wakeup
  BY <1>12 DEF worker_wait, worker_exit, send_open, send_open_fails, send_returns,
               worker_spurious_wakeup, queueVars, fileVars, NoStrayFile
<1>13. CASE \/ server_stop \/ transfer_queue_shutdown \/ transfer_queue_joined
            \/ tick \/ ended \/ UNCHANGED vars
  BY <1>13 DEF server_stop, transfer_queue_shutdown, transfer_queue_joined, tick, ended,
               vars, queueVars, fileVars, NoStrayFile
<1>14. QED
  BY <1>1, <1>2, <1>4, <1>5, <1>6, <1>7, <1>8, <1>9, <1>10, <1>11, <1>12, <1>13
  DEF Next, RequestStep, WorkerStep, MainStep

\* No file is left in staging/ without a request or a job that will remove it,
\* except by the end of a process.
THEOREM FilesAreOwned == Spec => []NoStrayFile
<1>1. Init => NoStrayFile
  BY DEF Init, NoStrayFile
<1>2. CoreInv /\ NoStrayFile /\ [Next]_vars => NoStrayFile'
  BY OwnedFileNext
<1>3. QED
  BY <1>1, <1>2, CoreAlways, PTL DEF Spec
-----------------------------------------------------------------------------
(* Time.                                                                   *)

\* One job less in front, one JobTime more that may have passed.
LEMMA WaitStep ==
  ASSUME NEW n \in Nat
  PROVE  /\ (MaxJobs - n) * JobTime = (MaxJobs - (n + 1)) * JobTime + JobTime
         /\ (MaxJobs - n) * JobTime \in Int
         /\ n <= MaxJobs => 0 <= (MaxJobs - n) * JobTime
<1>1. MaxJobs \in Int /\ JobTime \in Nat
  BY NumbersAssumption
<1>2. QED
  BY <1>1

\* A step that leaves the ring, the worker and the clock alone.
LEMMA TimeKept ==
  ASSUME TypeOK, TimeInv,
         UNCHANGED <<now, since, pending_queue, queue_head, queue_count, slot>>,
         Serving' = Serving,
         Serving => jobs'[slot].created_at = jobs[slot].created_at,
         \A k \in 0 .. queue_count - 1 :
             jobs'[Waiting(k)].created_at = jobs[Waiting(k)].created_at
  PROVE  TimeInv'
<1>1. \A k \in 0 .. queue_count - 1 : Waiting(k)' = Waiting(k)
  BY DEF Waiting
<1>2. HasWork' = HasWork
  BY DEF HasWork
<1>3. QED
  BY <1>1, <1>2 DEF TimeInv, WaitedAtMost

\* Every step respects the bound on how long a job may wait.
LEMMA TimeNext ==
  ASSUME CoreInv, TimeInv, [Next]_vars
  PROVE  TimeInv'
<1> USE DEF CoreInv
<1>1. ASSUME NEW r \in Requests, transfer_enqueue(r) PROVE TimeInv'
  <2>1. PICK s \in Slots :
           /\ jobs' = [prune_terminal_jobs_locked EXCEPT ![s] = NewJob(r)]
           /\ prune_terminal_jobs_locked[s].status = "unused"
           /\ queue_tail' = (queue_head + queue_count') % MaxJobs
           /\ \A k \in 0 .. queue_count - 1 : Waiting(k)' = Waiting(k)
           /\ \A k \in {queue_count} : Waiting(k)' = s
    BY <1>1, EnqueueEffect
  <2>2. /\ queue_count' = queue_count + 1 /\ queue_count \in 0 .. MaxJobs - 1
        /\ now' = now /\ slot' = slot /\ now \in Nat /\ since \in Nat
        /\ Serving' = Serving
        /\ since' = IF HasWork THEN since ELSE now
    <3>1. queue_count' = queue_count + 1 /\ queue_count \in 0 .. MaxJobs - 1
      BY <1>1, NumbersAssumption DEF transfer_enqueue, Push, TypeOK
    <3>2. Serving' = Serving
      BY <1>1 DEF transfer_enqueue, Signal, Serving
    <3>3. QED
      BY <1>1, <3>1, <3>2 DEF transfer_enqueue, TypeOK
  <2>3. HasWork' /\ since' <= now' /\ now' <= since' + JobTime
    BY <2>2, NumbersAssumption DEF HasWork, TimeInv
  <2>4. ASSUME NEW t \in Slots, jobs[t].status \in {"queued", "in_progress"}
        PROVE  jobs'[t] = jobs[t]
    BY <2>1, <2>4, PruneEffect, PruneType DEF Terminal
  <2>5. ASSUME Serving' PROVE WaitedAtMost(slot, 0)'
    <3>1. Serving /\ since' = since /\ slot \in Slots
      BY <2>2, <2>5 DEF HasWork, TypeOK
    <3>2. jobs'[slot] = jobs[slot]
      BY <2>4, <3>1 DEF WorkerOwnsSlot
    <3>3. QED
      BY <2>2, <3>1, <3>2 DEF TimeInv, WaitedAtMost
  <2>6. ASSUME NEW k \in 0 .. queue_count - 1
        PROVE  WaitedAtMost(Waiting(k), IF Serving THEN k + 1 ELSE k)'
    <3>1. Waiting(k) \in Slots /\ jobs[Waiting(k)].status = "queued"
      BY <2>6, WaitingType DEF RingMatchesTable
    <3>2. jobs'[Waiting(k)'] = jobs[Waiting(k)]
      BY <2>1, <2>4, <3>1
    <3>3. since' = since
      BY <2>2, <2>6 DEF HasWork
    <3>4. QED
      BY <2>2, <3>2, <3>3 DEF TimeInv, WaitedAtMost
  <2>7. ASSUME NEW k \in {queue_count}
        PROVE  WaitedAtMost(Waiting(k), IF Serving THEN k + 1 ELSE k)'
    <3>1. jobs'[Waiting(k)'].created_at = now
      BY <2>1, PruneType DEF NewJob
    <3>2. k \in Nat /\ k + 1 <= MaxJobs /\ k <= MaxJobs
      BY <2>2, NumbersAssumption
    <3>3. /\ 0 <= (MaxJobs - k) * JobTime /\ (MaxJobs - k) * JobTime \in Int
          /\ 0 <= (MaxJobs - (k + 1)) * JobTime /\ (MaxJobs - (k + 1)) * JobTime \in Int
      BY <3>2, WaitStep, k + 1 \in Nat
    <3>4. since' - now <= 0
      BY <2>2, <2>3
    <3>5. QED
      BY <2>2, <3>1, <3>3, <3>4 DEF WaitedAtMost
  <2>8. \A k \in 0 .. queue_count' - 1 : k \in 0 .. queue_count - 1 \/ k \in {queue_count}
    BY <2>2
  <2>9. QED
    BY <2>3, <2>5, <2>6, <2>7, <2>8 DEF TimeInv
<1>2. ASSUME NEW r \in Requests, transfer_enqueue_refused(r) PROVE TimeInv'
  <2>1. ASSUME NEW t \in Slots, jobs[t].status \in {"queued", "in_progress"}
        PROVE  jobs'[t] = jobs[t]
    BY <1>2, <2>1, PruneEffect DEF transfer_enqueue_refused, Terminal
  <2>2. Serving => jobs'[slot] = jobs[slot]
    BY <2>1 DEF WorkerOwnsSlot, TypeOK
  <2>3. \A k \in 0 .. queue_count - 1 : jobs'[Waiting(k)] = jobs[Waiting(k)]
    BY <2>1, WaitingType DEF RingMatchesTable
  <2>4. QED
    BY <1>2, <2>2, <2>3, TimeKept DEF transfer_enqueue_refused, workerVars, Serving
<1>3. CASE worker_take
  <2>1. /\ NextSlot \in Slots /\ NextSlot = Waiting(0)
        /\ InUse(NextSlot) /\ queue_count' \in 0 .. MaxJobs - 1
        /\ \A k \in 0 .. queue_count' - 1 : Waiting(k)' = Waiting(k + 1)
    BY <1>3, TakeEffect
  <2>2. /\ queue_count' = queue_count - 1 /\ queue_count \in Nat
        /\ ~Serving /\ Serving' /\ slot' = NextSlot /\ UNCHANGED <<now, since>>
        /\ jobs' = [jobs EXCEPT ![NextSlot] = Updated(NextSlot, "in_progress",
                                                       jobs[NextSlot].filepath)]
        /\ HasWork /\ HasWork'
    BY <1>3, <2>1 DEF worker_take, TypeOK, Serving, HasWork
  <2>3. \A t \in Slots : jobs'[t].created_at = jobs[t].created_at
    BY <2>1, <2>2 DEF Updated, TypeOK
  <2>4. WaitedAtMost(slot, 0)'
    <3>1. 0 \in 0 .. queue_count - 1
      BY <2>1, <2>2
    <3>2. WaitedAtMost(Waiting(0), 0)
      BY <2>2, <3>1 DEF TimeInv
    <3>3. QED
      BY <2>1, <2>2, <2>3, <3>2 DEF WaitedAtMost
  <2>5. ASSUME NEW k \in 0 .. queue_count' - 1
        PROVE  WaitedAtMost(Waiting(k), IF Serving THEN k + 1 ELSE k)'
    <3>1. k + 1 \in 0 .. queue_count - 1
      BY <2>1, <2>2
    <3>2. WaitedAtMost(Waiting(k + 1), k + 1) /\ Waiting(k + 1) \in Slots
      BY <2>2, <3>1, WaitingType DEF TimeInv
    <3>3. QED
      BY <2>1, <2>2, <2>3, <3>2 DEF WaitedAtMost
  <2>6. QED
    BY <2>2, <2>4, <2>5 DEF TimeInv
<1>4. CASE transfer_job_progress
  <2>1. \A t \in Slots : jobs'[t].created_at = jobs[t].created_at
    BY <1>4 DEF transfer_job_progress, Updated, TypeOK
  <2>2. QED
    BY <1>4, <2>1, TimeKept, WaitingType
    DEF transfer_job_progress, workerVars, Serving, TypeOK
<1>5. CASE worker_finish
  <2>1. /\ slot \in Slots /\ Serving /\ ~Serving' /\ HasWork
        /\ since' = now /\ now' = now /\ now \in Nat /\ since \in Nat
        /\ UNCHANGED <<pending_queue, queue_head, queue_count>>
    BY <1>5 DEF worker_finish, Serving, HasWork, TypeOK
  <2>2. \A t \in Slots : jobs'[t].created_at = jobs[t].created_at
    BY <1>5, <2>1 DEF worker_finish, Updated, TypeOK
  <2>3. ASSUME NEW k \in 0 .. queue_count - 1
        PROVE  WaitedAtMost(Waiting(k), k)'
    <3>1. /\ WaitedAtMost(Waiting(k), k + 1) /\ Waiting(k) \in Slots
          /\ now <= since + JobTime
      BY <2>1, WaitingType DEF TimeInv
    <3>2. Waiting(k)' = Waiting(k)
      BY <2>1 DEF Waiting
    <3>3. k \in Nat
      BY DEF TypeOK
    <3>4. /\ (MaxJobs - k) * JobTime = (MaxJobs - (k + 1)) * JobTime + JobTime
          /\ (MaxJobs - (k + 1)) * JobTime \in Int
      BY <3>3, WaitStep, k + 1 \in Nat
    <3>5. jobs[Waiting(k)].created_at \in Nat
      BY <3>1 DEF TypeOK, Job
    <3>6. now - jobs[Waiting(k)].created_at <= (MaxJobs - k) * JobTime
      BY <2>1, <3>1, <3>4, <3>5, NumbersAssumption DEF WaitedAtMost
    <3>7. QED
      BY <2>1, <2>2, <3>1, <3>2, <3>6 DEF WaitedAtMost
  <2>4. since' <= now' /\ (HasWork' => now' <= since' + JobTime)
    BY <2>1, NumbersAssumption
  <2>5. QED
    BY <2>1, <2>3, <2>4 DEF TimeInv
<1>6. CASE transfer_queue_init
  <2>1. /\ since' = now /\ now' = now /\ ~Serving' /\ queue_count' = 0 /\ now \in Nat
    BY <1>6 DEF transfer_queue_init, ZeroedQueue, Serving, TypeOK
  <2>2. 0 .. queue_count' - 1 = {} /\ ~HasWork'
    BY <2>1 DEF HasWork
  <2>3. QED
    BY <2>1, <2>2 DEF TimeInv
<1>7. CASE crash
  <2>1. /\ since' = since /\ now' = now /\ ~Serving' /\ queue_count' = 0
    BY <1>7 DEF crash, ZeroedQueue, Serving
  <2>2. 0 .. queue_count' - 1 = {} /\ ~HasWork'
    BY <2>1 DEF HasWork
  <2>3. QED
    BY <2>1, <2>2 DEF TimeInv
<1>8. CASE tick
  <2>1. UNCHANGED <<queueVars, workerVars, since>> /\ now' = now + 1
    BY <1>8 DEF tick
  <2>2. /\ Serving' = Serving /\ HasWork' = HasWork
        /\ \A k \in 0 .. queue_count - 1 : Waiting(k)' = Waiting(k)
    BY <2>1 DEF Serving, HasWork, Waiting, queueVars, workerVars
  <2>3. since' <= now' /\ (HasWork' => now' <= since' + JobTime)
    BY <1>8, <2>1, <2>2, NumbersAssumption DEF tick, TimeInv, TypeOK
  <2>4. QED
    BY <2>1, <2>2, <2>3 DEF TimeInv, WaitedAtMost, queueVars, workerVars
<1>9. CASE \/ worker_wait \/ worker_exit \/ send_open \/ send_open_fails \/ send_returns
           \/ worker_spurious_wakeup
  BY <1>9, TimeKept DEF worker_wait, worker_exit, MayExit, send_open, send_open_fails,
       send_returns, worker_spurious_wakeup, Serving, queueVars
<1>10. ASSUME NEW r \in Requests,
             \/ seal_uploaded_stage(r) \/ transfer_enqueue_sweep(r)
             \/ transfer_enqueue_full(r) \/ upload_stage_abort(r)
      PROVE  TimeInv'
  BY <1>10, TimeKept DEF seal_uploaded_stage, transfer_enqueue_sweep,
       transfer_enqueue_full, upload_stage_abort, workerVars, queueVars, Serving
<1>11. CASE server_stop \/ transfer_queue_shutdown \/ transfer_queue_joined \/ ended
            \/ UNCHANGED vars
  BY <1>11, TimeKept DEF server_stop, transfer_queue_shutdown, Signal,
       transfer_queue_joined, ended, vars, workerVars, queueVars, Serving
<1>12. QED
  BY <1>1, <1>2, <1>3, <1>4, <1>5, <1>6, <1>7, <1>8, <1>9, <1>10, <1>11
  DEF Next, RequestStep, WorkerStep, MainStep

\* Every step keeps the files of requests being handled until they expire.
LEMMA HandledFileNext ==
  ASSUME CoreInv, HandledFileKept, [Next]_vars
  PROVE  HandledFileKept'
<1> USE NumbersAssumption DEF CoreInv
<1> DEFINE InHandler == {"staged", "swept", "refused"}
<1>1. ASSUME now' = now \/ now' = now + 1,
             mtime' = mtime,
             \A r \in Requests : req'[r] \in InHandler => req[r] \in InHandler,
             \A f \in staged : \/ f \in staged'
                               \/ req'[f] \notin InHandler
                               \/ mtime[f] + StagingRetention <= now
      PROVE  HandledFileKept'
  BY <1>1 DEF HandledFileKept, TypeOK
<1>2. \A f \in PrunedFiles : f \in Requests => req[f] = "accepted"
  <2>1. SUFFICES ASSUME NEW s \in Slots, Prunable(s), jobs[s].filepath \in Requests
                 PROVE  req[jobs[s].filepath] = "accepted"
    BY DEF PrunedFiles
  <2>2. QED
    BY <2>1, RequestsAssumption DEF Prunable, Terminal, TableInv, InUse
<1>3. ASSUME NEW r \in Requests, transfer_enqueue(r) PROVE HandledFileKept'
  BY <1>1, <1>2, <1>3 DEF transfer_enqueue, TypeOK
<1>4. ASSUME NEW r \in Requests, transfer_enqueue_refused(r) PROVE HandledFileKept'
  BY <1>1, <1>2, <1>4 DEF transfer_enqueue_refused, TypeOK
<1>5. ASSUME NEW r \in Requests, seal_uploaded_stage(r) PROVE HandledFileKept'
  BY <1>5 DEF seal_uploaded_stage, HandledFileKept, TypeOK
<1>6. ASSUME NEW r \in Requests, transfer_enqueue_sweep(r) PROVE HandledFileKept'
  BY <1>1, <1>6 DEF transfer_enqueue_sweep, cleanup_expired_staging_files, TypeOK
<1>7. ASSUME NEW r \in Requests, transfer_enqueue_full(r) PROVE HandledFileKept'
  BY <1>1, <1>7 DEF transfer_enqueue_full, fileVars, TypeOK
<1>8. ASSUME NEW r \in Requests, upload_stage_abort(r) PROVE HandledFileKept'
  BY <1>1, <1>8 DEF upload_stage_abort, TypeOK
<1>9. CASE worker_finish
  <2>1. /\ slot \in Slots /\ jobs[slot].status = "in_progress"
        /\ jobs[slot].filepath = jobs[slot].id
    BY <1>9 DEF worker_finish, WorkerOwnsSlot, Serving, TypeOK
  <2>2. req[jobs[slot].filepath] = "accepted"
    BY <2>1 DEF TableInv, InUse
  <2>3. staged \ {jobs[slot].filepath} \subseteq staged'
    BY <1>9 DEF worker_finish
  <2>4. QED
    BY <1>1, <1>9, <2>2, <2>3 DEF worker_finish
<1>10. CASE transfer_queue_init \/ crash
  <2>1. \A r \in Requests : req'[r] \notin InHandler
    BY <1>10 DEF transfer_queue_init, crash, Abandoned
  <2>2. QED
    BY <2>1 DEF HandledFileKept
<1>11. CASE \/ worker_take \/ worker_wait \/ worker_exit \/ send_open \/ send_open_fails
            \/ send_returns \/ worker_spurious_wakeup \/ transfer_job_progress
  BY <1>1, <1>11 DEF worker_take, worker_wait, worker_exit, send_open, send_open_fails,
       send_returns, worker_spurious_wakeup, transfer_job_progress, fileVars
<1>12. CASE \/ server_stop \/ transfer_queue_shutdown \/ transfer_queue_joined
            \/ tick \/ ended \/ UNCHANGED vars
  BY <1>1, <1>12 DEF server_stop, transfer_queue_shutdown, transfer_queue_joined, tick,
       ended, vars, fileVars
<1>13. QED
  BY <1>3, <1>4, <1>5, <1>6, <1>7, <1>8, <1>9, <1>10, <1>11, <1>12
  DEF Next, RequestStep, WorkerStep, MainStep

Unfinished == {"queued", "in_progress"}

\* A job without an outcome is younger than the time it takes to serve a full
\* queue and the job before it.
LEMMA JobAge ==
  ASSUME CoreInv, TimeInv, NEW s \in Slots, jobs[s].status \in Unfinished
  PROVE  now - jobs[s].created_at <= MaxJobs * JobTime + JobTime
<1> USE DEF CoreInv
<1>1. PICK n \in Nat : HasWork /\ WaitedAtMost(s, n)
  <2>1. CASE jobs[s].status = "in_progress"
    BY <2>1 DEF WorkerOwnsSlot, TimeInv, HasWork
  <2>2. CASE jobs[s].status = "queued"
    <3>1. PICK k \in 0 .. queue_count - 1 : Waiting(k) = s
      BY <2>2 DEF RingMatchesTable
    <3>2. HasWork /\ k \in Nat /\ k + 1 \in Nat
      BY <3>1 DEF HasWork, TypeOK
    <3>3. QED
      BY <3>1, <3>2 DEF TimeInv
  <2>3. QED
    BY <2>1, <2>2 DEF Unfinished
<1>2. /\ now \in Nat /\ since \in Nat /\ jobs[s].created_at \in Nat
      /\ JobTime \in Nat /\ MaxJobs \in Nat
  BY NumbersAssumption DEF TypeOK, Job
<1>3. (MaxJobs - n) * JobTime <= MaxJobs * JobTime
  <2>1. (MaxJobs - n) * JobTime = MaxJobs * JobTime - n * JobTime /\ 0 <= n * JobTime
    BY <1>2
  <2>2. MaxJobs * JobTime \in Int /\ n * JobTime \in Int
    BY <1>2
  <2>3. QED
    BY <2>1, <2>2
<1>4. (MaxJobs - n) * JobTime \in Int /\ MaxJobs * JobTime \in Int
  BY <1>2
<1>5. now <= since + JobTime /\ since - jobs[s].created_at <= (MaxJobs - n) * JobTime
  BY <1>1 DEF TimeInv, WaitedAtMost
<1>6. QED
  BY <1>2, <1>3, <1>4, <1>5

\* So its file is not yet old enough to be swept.
LEMMA FileNotExpired ==
  ASSUME CoreInv, TimeInv, NEW s \in Slots, jobs[s].status \in Unfinished,
         jobs[s].created_at - mtime[jobs[s].id] <= UploadSlack
  PROVE  ~(mtime[jobs[s].id] + StagingRetention <= now)
<1>1. now - jobs[s].created_at <= MaxJobs * JobTime + JobTime
  BY JobAge
<1>2. jobs[s].id \in Requests
  BY DEF CoreInv, TableInv, InUse, Unfinished
<1>3. /\ now \in Nat /\ jobs[s].created_at \in Nat /\ mtime[jobs[s].id] \in Nat
      /\ JobTime \in Nat /\ StagingRetention \in Nat /\ UploadSlack \in Nat
      /\ MaxJobs * JobTime \in Int
  BY <1>2, NumbersAssumption DEF CoreInv, TypeOK, Job
<1>4. QED
  BY <1>1, <1>3, RetentionAssumption

\* Every step leaves the files of unfinished jobs where they are.
LEMMA QueuedFileNext ==
  ASSUME CoreInv, TimeInv, HandledFileKept, QueuedFileKept, [Next]_vars
  PROVE  QueuedFileKept'
<1> USE DEF CoreInv
<1>1. \A s \in Slots : jobs[s].status \in Unfinished =>
         jobs[s].id \in Requests /\ req[jobs[s].id] = "accepted"
  BY DEF TableInv, InUse, Unfinished
<1>2. ASSUME NEW s \in Slots, jobs[s].status \in Unfinished
      PROVE  jobs[s].id \notin PrunedFiles
  <2>1. SUFFICES ASSUME NEW t \in Slots, Prunable(t), jobs[t].filepath = jobs[s].id
                 PROVE  FALSE
    BY DEF PrunedFiles
  <2>2. jobs[t].id = jobs[s].id /\ InUse(t) /\ InUse(s)
    BY <1>1, <1>2, <2>1, RequestsAssumption DEF Prunable, Terminal, TableInv, InUse, Unfinished
  <2>3. s = t
    BY <2>2 DEF TableInv
  <2>4. QED
    BY <1>2, <2>1, <2>3 DEF Prunable, Terminal, Unfinished
<1>3. ASSUME NEW s \in Slots, jobs'[s].status \in Unfinished,
             jobs[s].status \in Unfinished,
             jobs'[s].id = jobs[s].id, jobs'[s].created_at = jobs[s].created_at,
             mtime'[jobs[s].id] = mtime[jobs[s].id],
             jobs[s].id \in staged =>
                 jobs[s].id \in staged' \/ mtime[jobs[s].id] + StagingRetention <= now
      PROVE  jobs'[s].created_at - mtime'[jobs'[s].id] <= UploadSlack =>
                 jobs'[s].id \in staged'
  BY <1>3, FileNotExpired DEF QueuedFileKept, Unfinished
<1>4. ASSUME NEW r \in Requests, transfer_enqueue(r) PROVE QueuedFileKept'
  <2>1. PICK s \in Slots :
           /\ jobs' = [prune_terminal_jobs_locked EXCEPT ![s] = NewJob(r)]
           /\ prune_terminal_jobs_locked[s].status = "unused"
    BY <1>4, EnqueueEffect
  <2>2. jobs'[s].id = r /\ jobs'[s].created_at = now
    BY <2>1, PruneType DEF NewJob
  <2>3. mtime' = mtime /\ staged' = staged \ PrunedFiles /\ req[r] = "swept"
    BY <1>4 DEF transfer_enqueue
  <2>4. ASSUME now - mtime[r] <= UploadSlack PROVE r \in staged'
    <3>1. /\ now \in Nat /\ mtime[r] \in Nat /\ StagingRetention \in Nat
          /\ UploadSlack \in Nat /\ 0 <= MaxJobs * JobTime /\ JobTime \in Nat
          /\ MaxJobs * JobTime \in Int
      BY NumbersAssumption DEF TypeOK
    <3>2. ~(mtime[r] + StagingRetention <= now)
      BY <2>4, <3>1, RetentionAssumption
    <3>3. r \in staged
      BY <2>3, <3>2 DEF HandledFileKept
    <3>4. r \notin PrunedFiles
      BY <2>3, RequestsAssumption
      DEF PrunedFiles, Prunable, Terminal, TableInv, InUse
    <3>5. QED
      BY <2>3, <3>3, <3>4
  <2>5. ASSUME NEW t \in Slots, t # s, jobs'[t].status \in Unfinished
        PROVE  jobs'[t].created_at - mtime'[jobs'[t].id] <= UploadSlack =>
                 jobs'[t].id \in staged'
    <3>1. jobs'[t] = jobs[t]
      BY <2>1, <2>5, PruneEffect, PruneType DEF NoJob, Unfinished
    <3>2. QED
      BY <1>2, <1>3, <2>3, <2>5, <3>1
  <2>6. QED
    BY <2>2, <2>3, <2>4, <2>5 DEF QueuedFileKept, Unfinished
<1>5. ASSUME NEW r \in Requests, transfer_enqueue_refused(r) PROVE QueuedFileKept'
  <2>1. ASSUME NEW t \in Slots, jobs'[t].status \in Unfinished
        PROVE  jobs'[t].created_at - mtime'[jobs'[t].id] <= UploadSlack =>
                 jobs'[t].id \in staged'
    <3>1. jobs'[t] = jobs[t]
      BY <1>5, <2>1, PruneEffect DEF transfer_enqueue_refused, NoJob, Unfinished
    <3>2. QED
      BY <1>2, <1>3, <1>5, <2>1, <3>1 DEF transfer_enqueue_refused
  <2>2. QED
    BY <2>1 DEF QueuedFileKept, Unfinished
<1>6. ASSUME NEW s \in Slots, jobs[s].status \in Unfinished, UNCHANGED <<staged, mtime>>,
             jobs' = [jobs EXCEPT ![s] = Updated(s, "in_progress", jobs[s].filepath)]
      PROVE  QueuedFileKept'
  <2>1. \A t \in Slots : /\ jobs'[t].id = jobs[t].id
                         /\ jobs'[t].created_at = jobs[t].created_at
                         /\ jobs'[t].status \in Unfinished => jobs[t].status \in Unfinished
    BY <1>6 DEF Updated, TypeOK
  <2>2. QED
    BY <1>6, <2>1 DEF QueuedFileKept, Unfinished
<1>7. CASE worker_take
  BY <1>6, <1>7, TakeEffect DEF worker_take, fileVars, Unfinished
<1>8. CASE transfer_job_progress
  BY <1>6, <1>8 DEF transfer_job_progress, WorkerOwnsSlot, Serving, TypeOK, fileVars,
                    Unfinished
<1>9. CASE worker_finish
  <2>1. /\ slot \in Slots /\ InUse(slot) /\ jobs[slot].status = "in_progress"
        /\ jobs[slot].filepath = jobs[slot].id /\ mtime' = mtime
    BY <1>9 DEF worker_finish, WorkerOwnsSlot, Serving, TypeOK, InUse
  <2>2. /\ jobs'[slot].status \in Terminal
        /\ \A t \in Slots : t # slot => jobs'[t] = jobs[t]
        /\ staged \ {jobs[slot].id} \subseteq staged'
    BY <1>9, <2>1 DEF worker_finish, Updated, TypeOK, Terminal
  <2>3. \A t \in Slots : t # slot /\ jobs[t].status \in Unfinished => jobs[t].id # jobs[slot].id
    BY <2>1 DEF TableInv, InUse, Unfinished
  <2>4. QED
    BY <2>1, <2>2, <2>3 DEF QueuedFileKept, Terminal, Unfinished
<1>10. CASE transfer_queue_init \/ crash
  BY <1>10, ZeroedEffect DEF transfer_queue_init, crash, QueuedFileKept, NoJob
<1>11. ASSUME jobs' = jobs,
              \A s \in Slots : jobs[s].status \in Unfinished =>
                 /\ mtime'[jobs[s].id] = mtime[jobs[s].id]
                 /\ jobs[s].id \in staged =>
                       \/ jobs[s].id \in staged'
                       \/ mtime[jobs[s].id] + StagingRetention <= now
       PROVE  QueuedFileKept'
  BY <1>3, <1>11 DEF QueuedFileKept, Unfinished
<1>12. ASSUME NEW r \in Requests, seal_uploaded_stage(r) PROVE QueuedFileKept'
  BY <1>1, <1>11, <1>12 DEF seal_uploaded_stage, queueVars, TypeOK
<1>13. ASSUME NEW r \in Requests, transfer_enqueue_sweep(r) PROVE QueuedFileKept'
  <2>1. \A f \in staged : f \in staged' \/ mtime[f] + StagingRetention <= now
    BY <1>13, NumbersAssumption DEF transfer_enqueue_sweep, cleanup_expired_staging_files,
                                    TypeOK
  <2>2. QED
    BY <1>11, <1>13, <2>1 DEF transfer_enqueue_sweep, queueVars
<1>14. ASSUME NEW r \in Requests, transfer_enqueue_full(r) PROVE QueuedFileKept'
  BY <1>11, <1>14 DEF transfer_enqueue_full, queueVars, fileVars
<1>15. ASSUME NEW r \in Requests, upload_stage_abort(r) PROVE QueuedFileKept'
  BY <1>1, <1>11, <1>15 DEF upload_stage_abort, queueVars
<1>16. CASE \/ worker_wait \/ worker_exit \/ send_open \/ send_open_fails \/ send_returns
            \/ worker_spurious_wakeup
  BY <1>11, <1>16 DEF worker_wait, worker_exit, send_open, send_open_fails, send_returns,
       worker_spurious_wakeup, queueVars, fileVars
<1>17. CASE \/ server_stop \/ transfer_queue_shutdown \/ transfer_queue_joined
            \/ tick \/ ended \/ UNCHANGED vars
  BY <1>11, <1>17 DEF server_stop, transfer_queue_shutdown, transfer_queue_joined, tick,
       ended, vars, queueVars, fileVars
<1>18. QED
  BY <1>4, <1>5, <1>7, <1>8, <1>9, <1>10, <1>12, <1>13, <1>14, <1>15, <1>16, <1>17
  DEF Next, RequestStep, WorkerStep, MainStep

\* However full the queue is, the sweep of staging/ by other requests never
\* takes the file of a job that waits or is being sent.
THEOREM QueuedFilesAreKept == Spec => []QueuedFileKept
<1>1. Init => TimeInv /\ HandledFileKept /\ QueuedFileKept
  <2> SUFFICES ASSUME Init PROVE TimeInv /\ HandledFileKept /\ QueuedFileKept
    OBVIOUS
  <2>1. queue_count = 0 /\ 0 .. queue_count - 1 = {} /\ ~Serving /\ ~HasWork
    BY DEF Init, Serving, HasWork
  <2>2. QED
    BY <2>1 DEF Init, TimeInv, HandledFileKept, QueuedFileKept, NoJob
<1>2. /\ CoreInv /\ TimeInv /\ HandledFileKept /\ QueuedFileKept
      /\ [Next]_vars
      => TimeInv' /\ HandledFileKept' /\ QueuedFileKept'
  BY TimeNext, HandledFileNext, QueuedFileNext
<1>3. QED
  BY <1>1, <1>2, CoreAlways, PTL DEF Spec
-----------------------------------------------------------------------------
(* The refinement of JobQueue.                                             *)

\* With the requests at and the jobs in table, the state of r's job is v, said
\* without the scan of transfer_status_get.
Shows(at, table, r, v) ==
    \/ at[r] \notin {"accepted", "gone"} /\ v = "none"
    \/ at[r] = "gone" /\ v = "forgotten"
    \/ at[r] = "accepted" /\ v = "forgotten" /\ \A s \in Slots : table[s].id # r
    \/ at[r] = "accepted" /\ \E s \in Slots : table[s].id = r /\ v = table[s].status

\* The scan finds the one slot of a request, if it has one.
LEMMA JobIsShown ==
  TypeOK /\ TableInv => \A r \in Requests : \A v : Shows(req, jobs, r, v) <=> v = JobOf(r)
<1> SUFFICES ASSUME TypeOK, TableInv, NEW r \in Requests
             PROVE  \A v : Shows(req, jobs, r, v) <=> v = JobOf(r)
  OBVIOUS
<1>1. ASSUME NEW s \in Slots, jobs[s].id = r PROVE InUse(s)
  BY <1>1, RequestsAssumption DEF TableInv, InUse, NoJob
<1>2. ASSUME NEW s \in Slots, NEW k \in Slots, jobs[s].id = r, jobs[k].id = r PROVE s = k
  BY <1>1, <1>2 DEF TableInv
<1>3. ASSUME req[r] = "accepted", NEW s \in Slots, jobs[s].id = r
      PROVE  JobOf(r) = jobs[s].status
  <2> DEFINE First(t) == InUse(t) /\ jobs[t].id = r /\ \A k \in Slots : k < t => jobs[k].id # r
             first == CHOOSE t \in Slots : First(t)
  <2>1. First(s)
    BY <1>1, <1>2, <1>3, NumbersAssumption DEF Slots
  <2>2. \A t \in Slots : First(t) => t = s
    BY <1>2, <1>3
  <2>3. first = s
    <3> HIDE DEF First
    <3> QED
      BY <2>1, <2>2
  <2>4. transfer_status_get(r) = jobs[first].status
    BY <2>1, Zenon DEF transfer_status_get
  <2>5. transfer_status_get(r) = jobs[s].status /\ jobs[s].status # "not found"
    <3>1. jobs[s].status \in JobStatus
      BY DEF TypeOK, Job
    <3> HIDE DEF first
    <3> QED
      BY <2>3, <2>4, <3>1 DEF JobStatus
  <2> QED
    BY <1>3, <2>5 DEF JobOf
<1>4. ASSUME req[r] = "accepted", \A s \in Slots : jobs[s].id # r
      PROVE  JobOf(r) = "forgotten"
  <2>1. transfer_status_get(r) = "not found"
    BY <1>4 DEF transfer_status_get
  <2> QED
    BY <1>4, <2>1 DEF JobOf
<1>5. req[r] = "gone" => JobOf(r) = "forgotten"
  BY DEF JobOf
<1>6. req[r] \notin {"accepted", "gone"} => JobOf(r) = "none"
  BY DEF JobOf
<1> QED
  BY <1>2, <1>3, <1>4, <1>5, <1>6 DEF Shows

\* The same after a step.
LEMMA JobIsShownNext ==
  TypeOK' /\ TableInv' => \A r \in Requests : \A v : Shows(req', jobs', r, v) <=> v = JobOf(r)'
<1>1. (TypeOK /\ TableInv => \A r \in Requests : \A v : Shows(req, jobs, r, v) <=> v = JobOf(r))'
  BY JobIsShown, PTL
<1> QED
  BY <1>1

\* The state and the line of JobQueue.
States == [r \in Requests |-> JobOf(r)]
Line == [i \in 1 .. queue_count |-> jobs[Waiting(i - 1)].id]

\* The state of JobQueue after a step.
LEMMA StatesAre ==
  ASSUME CoreInv, CoreInv', NEW f, DOMAIN f = Requests, f = [r \in Requests |-> f[r]],
         \A r \in Requests : Shows(req', jobs', r, f[r])
  PROVE  States' = f
<1>1. \A r \in Requests : f[r] = JobOf(r)'
  BY JobIsShownNext DEF CoreInv
<1> QED
  BY <1>1 DEF States

\* What JobQueue's state says of a job.
LEMMA StateIs ==
  ASSUME CoreInv, NEW r \in Requests
  PROVE  /\ Shows(req, jobs, r, States[r])
         /\ \A v : Shows(req, jobs, r, v) => States[r] = v
BY JobIsShown DEF CoreInv, States

\* The line is a sequence of requests.
LEMMA LineIs ==
  ASSUME CoreInv
  PROVE  /\ Line \in Seq(Requests) /\ Len(Line) = queue_count
         /\ \A i \in 1 .. queue_count : Line[i] = jobs[Waiting(i - 1)].id
<1>1. ASSUME NEW i \in 1 .. queue_count PROVE jobs[Waiting(i - 1)].id \in Requests
  <2>1. i - 1 \in 0 .. queue_count - 1
    BY DEF CoreInv, TypeOK
  <2>2. Waiting(i - 1) \in Slots /\ jobs[Waiting(i - 1)].status = "queued"
    BY <2>1, WaitingType DEF CoreInv, RingMatchesTable
  <2> QED
    BY <2>2 DEF CoreInv, TableInv, InUse
<1>2. queue_count \in Nat
  BY DEF CoreInv, TypeOK
<1> QED
  BY <1>1, <1>2 DEF Line

\* A step that changes neither the ring nor the jobs in it leaves the line alone.
LEMMA LineKept ==
  ASSUME CoreInv, UNCHANGED <<pending_queue, queue_head, queue_count>>,
         \A s \in Slots : jobs[s].status = "queued" => jobs'[s].id = jobs[s].id
  PROVE  Line' = Line
<1>1. ASSUME NEW i \in 1 .. queue_count PROVE jobs'[Waiting(i - 1)'].id = jobs[Waiting(i - 1)].id
  <2>1. i - 1 \in 0 .. queue_count - 1
    BY DEF CoreInv, TypeOK
  <2>2. Waiting(i - 1) \in Slots /\ jobs[Waiting(i - 1)].status = "queued"
    BY <2>1, WaitingType DEF CoreInv, RingMatchesTable
  <2>3. Waiting(i - 1)' = Waiting(i - 1)
    BY DEF Waiting
  <2> QED
    BY <2>2, <2>3
<1> QED
  BY <1>1 DEF Line

\* JobQueue's actions, in terms of States and Line.
LEMMA AbstractActions ==
  /\ Abstract!Init <=> States = [r \in Requests |-> "none"] /\ Line = << >>
  /\ \A S : Abstract!In(S) = {r \in Requests : States[r] \in S}
  /\ \A G : Abstract!Forgetting(G) = [r \in Requests |-> IF r \in G THEN "forgotten" ELSE States[r]]
  /\ \A r : Abstract!Accept(r) <=>
              /\ States[r] = "none"
              /\ \E G \in SUBSET Abstract!In({"completed", "failed"}) :
                   States' = [Abstract!Forgetting(G) EXCEPT ![r] = "queued"]
              /\ Line' = Append(Line, r)
  /\ Abstract!Refuse <=>
       /\ \E G \in SUBSET Abstract!In({"completed", "failed"}) : States' = Abstract!Forgetting(G)
       /\ Line' = Line
  /\ Abstract!Serve <=>
       /\ Line # << >>
       /\ Abstract!In({"in_progress"}) = {}
       /\ States' = [States EXCEPT ![Head(Line)] = "in_progress"]
       /\ Line' = Tail(Line)
  /\ \A r : Abstract!End(r) <=>
              /\ States[r] = "in_progress"
              /\ \E outcome \in {"completed", "failed"} : States' = [States EXCEPT ![r] = outcome]
              /\ Line' = Line
  /\ Abstract!Stop <=> /\ States' = Abstract!Forgetting(Requests \ Abstract!In({"none"}))
                       /\ Line' = << >>
  /\ UNCHANGED Abstract!jvars <=> States' = States /\ Line' = Line
<1>1. Abstract!Init <=> States = [r \in Requests |-> "none"] /\ Line = << >>
  BY Zenon DEF Abstract!Init, States, Line
<1>2. \A S : Abstract!In(S) = {r \in Requests : States[r] \in S}
  BY Zenon DEF Abstract!In, States
<1>3. \A G : Abstract!Forgetting(G) = [r \in Requests |-> IF r \in G THEN "forgotten" ELSE States[r]]
  BY Zenon DEF Abstract!Forgetting, States
<1>4. \A r : Abstract!Accept(r) <=>
              /\ States[r] = "none"
              /\ \E G \in SUBSET Abstract!In({"completed", "failed"}) :
                   States' = [Abstract!Forgetting(G) EXCEPT ![r] = "queued"]
              /\ Line' = Append(Line, r)
  BY Zenon DEF Abstract!Accept, States, Line
<1>5. Abstract!Refuse <=>
       /\ \E G \in SUBSET Abstract!In({"completed", "failed"}) : States' = Abstract!Forgetting(G)
       /\ Line' = Line
  BY Zenon DEF Abstract!Refuse, States, Line
<1>6. Abstract!Serve <=>
       /\ Line # << >>
       /\ Abstract!In({"in_progress"}) = {}
       /\ States' = [States EXCEPT ![Head(Line)] = "in_progress"]
       /\ Line' = Tail(Line)
  BY Zenon DEF Abstract!Serve, States, Line
<1>7. \A r : Abstract!End(r) <=>
              /\ States[r] = "in_progress"
              /\ \E outcome \in {"completed", "failed"} : States' = [States EXCEPT ![r] = outcome]
              /\ Line' = Line
  BY Zenon DEF Abstract!End, States, Line
<1>8. Abstract!Stop <=> /\ States' = Abstract!Forgetting(Requests \ Abstract!In({"none"}))
                        /\ Line' = << >>
  BY Zenon DEF Abstract!Stop, States, Line
<1>9. UNCHANGED Abstract!jvars <=> States' = States /\ Line' = Line
  BY DEF Abstract!jvars, States, Line
<1> QED
  BY <1>1, <1>2, <1>3, <1>4, <1>5, <1>6, <1>7, <1>8, <1>9

\* The queue starts as an empty line.
LEMMA RefinesInit == Init => Abstract!Init
<1> SUFFICES ASSUME Init PROVE Abstract!Init
  OBVIOUS
<1>1. CoreInv
  BY CoreInit
<1>2. \A r \in Requests : Shows(req, jobs, r, "none")
  BY DEF Init, Shows
<1>3. \A r \in Requests : States[r] = "none"
  BY <1>1, <1>2, StateIs
<1>4. States = [r \in Requests |-> "none"]
  BY <1>3 DEF States
<1>5. Line = << >>
  BY DEF Init, Line
<1> QED
  BY <1>4, <1>5, AbstractActions

\* The requests whose jobs are pruned.
Pruned == {r \in Requests : \E s \in Slots : Prunable(s) /\ jobs[s].id = r}

\* JobQueue may forget them.
LEMMA PrunedHaveEnded ==
  ASSUME CoreInv
  PROVE  Pruned \in SUBSET Abstract!In({"completed", "failed"})
<1> SUFFICES ASSUME NEW r \in Pruned PROVE r \in Abstract!In({"completed", "failed"})
  OBVIOUS
<1>1. PICK s \in Slots : r \in Requests /\ Prunable(s) /\ jobs[s].id = r
  BY DEF Pruned
<1>2. InUse(s) /\ jobs[s].status \in {"completed", "failed"}
  BY <1>1 DEF Prunable, Terminal, InUse
<1>3. req[r] = "accepted"
  BY <1>1, <1>2 DEF CoreInv, TableInv
<1>4. Shows(req, jobs, r, jobs[s].status)
  BY <1>1, <1>3 DEF Shows
<1>5. States[r] = jobs[s].status
  BY <1>1, <1>4, StateIs
<1> QED
  BY <1>1, <1>2, <1>5, AbstractActions

\* What pruning does to the jobs of the requests that it does not concern.
LEMMA PruneShows ==
  ASSUME CoreInv, NEW q \in Requests, req'[q] = req[q],
         \A s \in Slots : \/ jobs'[s] = prune_terminal_jobs_locked[s]
                          \/ /\ prune_terminal_jobs_locked[s].status = "unused"
                             /\ jobs'[s].id # q
  PROVE  Shows(req', jobs', q, IF q \in Pruned THEN "forgotten" ELSE States[q])
<1>1. Shows(req, jobs, q, States[q])
  BY StateIs
<1>2. ASSUME NEW s \in Slots, jobs[s].id = q, ~Prunable(s)
      PROVE  jobs'[s] = jobs[s]
  <2>1. InUse(s)
    BY <1>2, RequestsAssumption DEF CoreInv, TableInv, InUse, NoJob
  <2>2. prune_terminal_jobs_locked[s] = jobs[s]
    BY <1>2, PruneEffect
  <2> QED
    BY <2>1, <2>2 DEF InUse
<1>3. ASSUME NEW s \in Slots, jobs'[s].id = q PROVE jobs[s].id = q /\ ~Prunable(s)
  BY <1>3, PruneEffect, RequestsAssumption DEF NoJob
<1>4. ASSUME NEW s \in Slots, NEW k \in Slots, jobs[s].id = q, jobs[k].id = q PROVE s = k
  BY <1>4, RequestsAssumption DEF CoreInv, TableInv, InUse, NoJob
<1>5. CASE q \in Pruned
  <2>1. PICK s \in Slots : Prunable(s) /\ jobs[s].id = q
    BY <1>5 DEF Pruned
  <2>2. req[q] = "accepted"
    BY <2>1 DEF CoreInv, TableInv, InUse, Prunable, Terminal
  <2>3. \A k \in Slots : jobs'[k].id # q
    BY <1>3, <1>4, <2>1
  <2> QED
    BY <1>5, <2>2, <2>3 DEF Shows
<1>6. CASE q \notin Pruned
  <2>1. \A s \in Slots : jobs[s].id = q <=> jobs'[s].id = q
    BY <1>2, <1>3, <1>6 DEF Pruned
  <2>2. \A s \in Slots : jobs[s].id = q => jobs'[s].status = jobs[s].status
    BY <1>2, <1>6 DEF Pruned
  <2> QED
    BY <1>1, <1>6, <2>1, <2>2 DEF Shows
<1> QED
  BY <1>5, <1>6

\* transfer_enqueue accepts.
LEMMA RefinesEnqueue ==
  ASSUME CoreInv, CoreInv', NEW r \in Requests, transfer_enqueue(r)
  PROVE  Abstract!Accept(r)
<1>1. PICK s \in Slots :
        /\ jobs' = [prune_terminal_jobs_locked EXCEPT ![s] = NewJob(r)]
        /\ prune_terminal_jobs_locked[s].status = "unused"
        /\ \A k \in 0 .. queue_count - 1 : Waiting(k)' = Waiting(k)
        /\ \A k \in {queue_count} : Waiting(k)' = s
  BY EnqueueEffect DEF CoreInv
<1>2. /\ req' = [req EXCEPT ![r] = "accepted"] /\ req[r] = "swept"
      /\ queue_count' = queue_count + 1 /\ queue_count \in Nat
  BY DEF transfer_enqueue, Push, CoreInv, TypeOK
<1>3. States[r] = "none"
  BY <1>2, StateIs DEF Shows
<1>4. /\ jobs'[s] = NewJob(r)
      /\ \A t \in Slots : t # s => jobs'[t] = prune_terminal_jobs_locked[t]
  BY <1>1, PruneType DEF CoreInv
<1> DEFINE f == [Abstract!Forgetting(Pruned) EXCEPT ![r] = "queued"]
<1>5. /\ f = [q \in Requests |-> f[q]] /\ DOMAIN f = Requests /\ f[r] = "queued"
      /\ \A q \in Requests : q # r => f[q] = IF q \in Pruned THEN "forgotten" ELSE States[q]
  BY AbstractActions
<1>6. States' = f
  <2> HIDE DEF f
  <2>1. Shows(req', jobs', r, f[r])
    BY <1>2, <1>4, <1>5 DEF Shows, NewJob, CoreInv, TypeOK
  <2>2. ASSUME NEW q \in Requests, q # r PROVE Shows(req', jobs', q, f[q])
    <3>1. req'[q] = req[q]
      BY <1>2, <2>2 DEF CoreInv, TypeOK
    <3>2. jobs'[s].id # q
      BY <1>4, <2>2 DEF NewJob
    <3> QED
      BY <1>1, <1>4, <1>5, <2>2, <3>1, <3>2, PruneShows
  <2> QED
    BY <1>5, <2>1, <2>2, StatesAre
<1>7. Line' = Append(Line, r)
  <2>1. ASSUME NEW i \in 1 .. queue_count PROVE Line'[i] = Line[i]
    <3>1. i - 1 \in 0 .. queue_count - 1
      BY <1>2
    <3>2. Waiting(i - 1) \in Slots /\ jobs[Waiting(i - 1)].status = "queued"
      BY <3>1, WaitingType DEF CoreInv, RingMatchesTable
    <3>3. prune_terminal_jobs_locked[Waiting(i - 1)] = jobs[Waiting(i - 1)]
      BY <3>2, PruneEffect DEF Terminal
    <3>4. jobs'[Waiting(i - 1)] = jobs[Waiting(i - 1)]
      BY <1>1, <1>4, <3>2, <3>3
    <3> QED
      BY <1>1, <1>2, <3>1, <3>4 DEF Line
  <2>2. Line'[queue_count + 1] = r
    BY <1>1, <1>2, <1>4 DEF Line, NewJob
  <2>3. Line' = [i \in 1 .. queue_count + 1 |-> Line'[i]]
    BY <1>2 DEF Line
  <2> QED
    BY <1>2, <2>1, <2>2, <2>3, LineIs
<1>8. Pruned \in SUBSET Abstract!In({"completed", "failed"})
  BY PrunedHaveEnded
<1> QED
  BY <1>3, <1>6, <1>7, <1>8, AbstractActions

\* A request that is refused after pruning.
LEMMA RefinesRefused ==
  ASSUME CoreInv, CoreInv', NEW r \in Requests, transfer_enqueue_refused(r)
  PROVE  Abstract!Refuse
<1> DEFINE f == Abstract!Forgetting(Pruned)
<1>1. /\ f = [q \in Requests |-> f[q]] /\ DOMAIN f = Requests
      /\ \A q \in Requests : f[q] = IF q \in Pruned THEN "forgotten" ELSE States[q]
  BY AbstractActions
<1>2. /\ jobs' = prune_terminal_jobs_locked /\ req' = [req EXCEPT ![r] = "refused"]
      /\ req[r] = "swept" /\ UNCHANGED <<pending_queue, queue_head, queue_count>>
  BY DEF transfer_enqueue_refused
<1>3. States' = f
  <2> HIDE DEF f
  <2>1. ASSUME NEW q \in Requests, q # r PROVE Shows(req', jobs', q, f[q])
    BY <1>1, <1>2, <2>1, PruneShows DEF CoreInv, TypeOK
  <2>2. r \notin Pruned /\ States[r] = "none"
    <3>1. States[r] = "none"
      BY <1>2, StateIs DEF Shows
    <3> QED
      BY <3>1, PrunedHaveEnded, AbstractActions
  <2>3. Shows(req', jobs', r, f[r])
    BY <1>1, <1>2, <2>2 DEF Shows, CoreInv, TypeOK
  <2> QED
    BY <1>1, <2>1, <2>3, StatesAre
<1>4. Line' = Line
  <2>1. \A s \in Slots : jobs[s].status = "queued" => jobs'[s] = jobs[s]
    BY <1>2, PruneEffect DEF Terminal
  <2> QED
    BY <1>2, <2>1, LineKept
<1>5. Pruned \in SUBSET Abstract!In({"completed", "failed"})
  BY PrunedHaveEnded
<1> QED
  BY <1>3, <1>4, <1>5, AbstractActions

\* The job of one slot moves to another status.
LEMMA OneMoves ==
  ASSUME CoreInv, CoreInv', NEW s \in Slots, InUse(s), req' = req, NEW filepath,
         NEW status, jobs' = [jobs EXCEPT ![s] = Updated(s, status, filepath)]
  PROVE  /\ jobs[s].id \in Requests /\ States[jobs[s].id] = jobs[s].status
         /\ States' = [States EXCEPT ![jobs[s].id] = status]
<1>1. /\ jobs'[s].id = jobs[s].id /\ jobs'[s].status = status
      /\ \A t \in Slots : t # s => jobs'[t] = jobs[t]
  BY DEF Updated, CoreInv, TypeOK
<1>2. /\ jobs[s].id \in Requests /\ req[jobs[s].id] = "accepted"
      /\ \A t \in Slots : jobs[t].id = jobs[s].id => t = s
  BY RequestsAssumption DEF CoreInv, TableInv, InUse, NoJob
<1>3. States[jobs[s].id] = jobs[s].status
  <2>1. Shows(req, jobs, jobs[s].id, jobs[s].status)
    BY <1>2 DEF Shows
  <2> QED
    BY <1>2, <2>1, StateIs
<1> DEFINE f == [States EXCEPT ![jobs[s].id] = status]
<1>4. /\ f = [q \in Requests |-> f[q]] /\ DOMAIN f = Requests /\ f[jobs[s].id] = status
      /\ \A q \in Requests : q # jobs[s].id => f[q] = States[q]
  BY <1>2 DEF States
<1> HIDE DEF f
<1>5. Shows(req', jobs', jobs[s].id, f[jobs[s].id])
  BY <1>1, <1>2, <1>4 DEF Shows
<1>6. ASSUME NEW q \in Requests, q # jobs[s].id PROVE Shows(req', jobs', q, f[q])
  <2>1. Shows(req, jobs, q, States[q])
    BY StateIs
  <2>2. \A t \in Slots : /\ jobs'[t].id = q <=> jobs[t].id = q
                         /\ jobs[t].id = q => jobs'[t].status = jobs[t].status
    BY <1>1, <1>6
  <2> QED
    BY <1>4, <1>6, <2>1, <2>2 DEF Shows
<1>7. States' = f
  BY <1>4, <1>5, <1>6, StatesAre
<1> QED
  BY <1>2, <1>3, <1>7 DEF f

\* The worker serves the first in line.
LEMMA RefinesTake ==
  ASSUME CoreInv, CoreInv', worker_take
  PROVE  Abstract!Serve
<1>1. /\ NextSlot \in Slots /\ NextSlot = Waiting(0) /\ jobs[NextSlot].status = "queued"
      /\ InUse(NextSlot) /\ queue_count' \in 0 .. MaxJobs - 1
      /\ \A k \in 0 .. queue_count' - 1 : Waiting(k)' = Waiting(k + 1)
  BY TakeEffect DEF CoreInv
<1>2. /\ queue_count' = queue_count - 1 /\ queue_count \in Nat /\ queue_count > 0 /\ req' = req
      /\ jobs' = [jobs EXCEPT ![NextSlot] = Updated(NextSlot, "in_progress",
                                                    jobs[NextSlot].filepath)]
      /\ ~Serving
  BY <1>1 DEF worker_take, CoreInv, TypeOK, Serving
<1>3. Line # << >> /\ Head(Line) = jobs[NextSlot].id
  <2>1. Line[1] = jobs[Waiting(0)].id /\ Len(Line) > 0 /\ Line \in Seq(Requests)
    BY <1>2, LineIs
  <2> QED
    BY <1>1, <2>1
<1>4. States' = [States EXCEPT ![Head(Line)] = "in_progress"]
  BY <1>1, <1>2, <1>3, OneMoves
<1>5. Abstract!In({"in_progress"}) = {}
  <2>1. ASSUME NEW r \in Requests, States[r] = "in_progress" PROVE FALSE
    <3>1. Shows(req, jobs, r, "in_progress")
      BY <2>1, StateIs
    <3>2. PICK s \in Slots : jobs[s].status = "in_progress"
      BY <3>1 DEF Shows
    <3> QED
      BY <1>2, <3>2 DEF CoreInv, WorkerOwnsSlot
  <2> QED
    BY <2>1, AbstractActions
<1>6. Line' = Tail(Line)
  <2>1. ASSUME NEW i \in 1 .. queue_count - 1 PROVE Line'[i] = Line[i + 1]
    <3>1. i - 1 \in 0 .. queue_count' - 1 /\ (i - 1) + 1 = i /\ i \in 0 .. queue_count - 1
          /\ (i + 1) - 1 = i /\ i + 1 \in 1 .. queue_count /\ i # 0 /\ 0 \in 0 .. queue_count - 1
      BY <1>1, <1>2
    <3>2. Waiting(i - 1)' = Waiting(i) /\ Waiting(i) \in Slots
      BY <1>1, <3>1, WaitingType DEF CoreInv
    <3>3. Waiting(i) # NextSlot
      BY <1>1, <3>1 DEF CoreInv, RingMatchesTable
    <3>4. jobs'[Waiting(i)] = jobs[Waiting(i)]
      BY <1>2, <3>2, <3>3 DEF CoreInv, TypeOK
    <3>5. Line'[i] = jobs'[Waiting(i - 1)'].id
      BY <1>2 DEF Line
    <3>6. Line[i + 1] = jobs[Waiting(i)].id
      BY <3>1, LineIs
    <3> QED
      BY <3>2, <3>4, <3>5, <3>6
  <2>2. Line' = [i \in 1 .. queue_count - 1 |-> Line'[i]]
    BY <1>2 DEF Line
  <2> QED
    BY <1>2, <2>1, <2>2, LineIs
<1> QED
  BY <1>3, <1>4, <1>5, <1>6, AbstractActions

\* The worker's outcome ends the job; its progress is nothing to JobQueue.
LEMMA RefinesOutcome ==
  ASSUME CoreInv, CoreInv', worker_finish \/ transfer_job_progress
  PROVE  (\E r \in Requests : Abstract!End(r)) \/ UNCHANGED Abstract!jvars
<1>1. /\ slot \in Slots /\ InUse(slot) /\ jobs[slot].status = "in_progress" /\ req' = req
      /\ UNCHANGED <<pending_queue, queue_head, queue_count>>
  BY DEF worker_finish, transfer_job_progress, CoreInv, WorkerOwnsSlot, Serving, InUse, TypeOK
<1>2. PICK status \in {"completed", "failed", "in_progress"}, filepath \in Requests \cup {Nil} :
         /\ jobs' = [jobs EXCEPT ![slot] = Updated(slot, status, filepath)]
  <2>1. jobs[slot].filepath \in Requests \cup {Nil}
    BY <1>1 DEF CoreInv, TypeOK, Job
  <2> QED
    BY <1>1, <2>1 DEF worker_finish, transfer_job_progress
<1>3. /\ jobs[slot].id \in Requests /\ States[jobs[slot].id] = "in_progress"
      /\ States' = [States EXCEPT ![jobs[slot].id] = status]
  BY <1>1, <1>2, OneMoves
<1>4. Line' = Line
  <2>1. \A s \in Slots : jobs'[s].id = jobs[s].id
    BY <1>2 DEF Updated, CoreInv, TypeOK
  <2> QED
    BY <1>1, <2>1, LineKept
<1>5. CASE status = "in_progress"
  <2>1. States' = States
    BY <1>3, <1>5 DEF States
  <2> QED
    BY <1>4, <2>1, AbstractActions
<1>6. CASE status \in {"completed", "failed"}
  BY <1>3, <1>4, <1>6, AbstractActions
<1> QED
  BY <1>2, <1>5, <1>6

\* The end of a process, or the start of the next, forgets all jobs.
LEMMA RefinesStop ==
  ASSUME CoreInv, CoreInv', transfer_queue_init \/ crash
  PROVE  Abstract!Stop
<1>1. /\ \A s \in Slots : jobs'[s] = NoJob
      /\ queue_count' = 0 /\ req' = Abandoned
  BY ZeroedEffect DEF transfer_queue_init, crash, ZeroedQueue
<1> DEFINE f == Abstract!Forgetting(Requests \ Abstract!In({"none"}))
<1>2. /\ f = [q \in Requests |-> f[q]] /\ DOMAIN f = Requests
      /\ \A q \in Requests : f[q] = IF States[q] # "none" THEN "forgotten" ELSE "none"
  BY AbstractActions
<1> HIDE DEF f
<1>3. ASSUME NEW q \in Requests PROVE Shows(req', jobs', q, f[q])
  <2>1. Shows(req, jobs, q, States[q])
    BY StateIs
  <2>2. States[q] = "none" <=> req[q] \notin {"accepted", "gone"}
    <3>1. ASSUME NEW s \in Slots, jobs[s].id = q PROVE jobs[s].status # "none"
      BY DEF CoreInv, TypeOK, Job, JobStatus
    <3> QED
      BY <2>1, <3>1 DEF Shows
  <2>3. /\ req[q] \in {"accepted", "gone"} => req'[q] = "gone"
        /\ req[q] \notin {"accepted", "gone"} => req'[q] \notin {"accepted", "gone"}
    BY <1>1 DEF Abandoned
  <2> QED
    BY <1>2, <2>2, <2>3 DEF Shows
<1>4. States' = f
  BY <1>2, <1>3, StatesAre
<1>5. Line' = << >>
  BY <1>1 DEF Line
<1> QED
  BY <1>4, <1>5, AbstractActions DEF f

\* The other steps are nothing to JobQueue.
LEMMA RefinesElsewhere ==
  ASSUME CoreInv, CoreInv', NEW r, Elsewhere(r), r \in Requests \/ \A q : Elsewhere(q)
  PROVE  UNCHANGED Abstract!jvars
<1>1. UNCHANGED queueVars
  BY ElsewhereEffect
<1>2. \A q \in Requests : \/ req'[q] = req[q]
                          \/ req[q] \notin {"accepted", "gone"} /\ req'[q] \notin {"accepted", "gone"}
  BY DEF Elsewhere, seal_uploaded_stage, transfer_enqueue_sweep,
         transfer_enqueue_full, upload_stage_abort, worker_wait, worker_exit,
         send_open, send_open_fails, send_returns, worker_spurious_wakeup,
         server_stop, transfer_queue_shutdown, transfer_queue_joined, tick,
         ended, vars, CoreInv, TypeOK
<1>3. ASSUME NEW q \in Requests PROVE Shows(req', jobs', q, States[q])
  <2>1. Shows(req, jobs, q, States[q])
    BY StateIs
  <2> QED
    BY <1>1, <1>2, <2>1 DEF Shows, queueVars
<1>4. States = [q \in Requests |-> States[q]] /\ DOMAIN States = Requests
  BY DEF States
<1>5. States' = States
  BY <1>3, <1>4, StatesAre
<1>6. Line' = Line
  BY <1>1, LineKept DEF queueVars
<1> QED
  BY <1>5, <1>6, AbstractActions

\* The safety part of ImplementsJobQueue: whatever the ring, the table, pruning,
\* crashes and restarts do, the jobs are served in the order of transfer_enqueue,
\* one at a time, and end once.
THEOREM QueueIsJobQueue == Spec => Abstract!Spec
<1>1. CoreInv /\ CoreInv' /\ [Next]_vars => [Abstract!Next]_(Abstract!jvars)
  <2> SUFFICES ASSUME CoreInv, CoreInv', [Next]_vars
               PROVE  Abstract!Next \/ UNCHANGED Abstract!jvars
    OBVIOUS
  <2> QED
    BY StepCases, RefinesEnqueue, RefinesRefused, RefinesTake, RefinesOutcome, RefinesStop,
       RefinesElsewhere
    DEF Abstract!Next
<1> QED
  BY <1>1, RefinesInit, CoreAlways, PTL DEF Spec, Abstract!Spec
===============================================================================
