------------------------- MODULE UploadHandlerProofs -------------------------
(***************************************************************************)
(* Proofs about UploadHandler, for every set of requests and file names    *)
(* and every limit and retention time.                                     *)
(***************************************************************************)
EXTENDS UploadHandler, TLAPS

\* How the flags of a connection_info go together: nothing happens before the
\* token was looked at, a refused token is an error, and only an authorized
\* request starts a file.
FlagsAgree ==
    /\ started \subseteq authorized /\ authorized \subseteq checked
    /\ failed \subseteq checked
    /\ checked \subseteq authorized \cup failed
    /\ \A r \in Requests : phase[r] = "new" => r \notin checked

\* What is true of a connection until its body ends.
OpenConnection ==
    \A r \in Requests :
        phase[r] \in {"new", "body"} =>
            /\ answer[r] = "none"
            /\ r \notin saved
            /\ r \notin failed => bytes[r] = sent[r]

\* Before the token was looked at the client has sent no part of the file.
NothingUnchecked == \A r \in Requests : r \notin checked => sent[r] = 0 /\ bytes[r] = 0

\* An open stage has a file name.
StageIsNamed == \A r \in Requests : stage[r] # "none" => name[r] \in Names

\* The queue has only files of sends that were saved.
QueuedIsSaved == queued \subseteq Sends \cap saved

\* A file that request_completed leaves alone has another owner.
SavedIsOwned == \A f \in saved \cap staging : f \in queued \cup orphans

\* A committed file is at its path, or one of the same name and time is.
CommitInv ==
    \A r \in Uploads :
        answer[r] = "ok" =>
            /\ path[r] = [time |-> saved_at[r], name |-> name[r]]
            /\ \E q \in Uploads : /\ downloads[path[r]] = q
                                  /\ answer[q] = "ok"
                                  /\ name[q] = name[r]
                                  /\ saved_at[q] = saved_at[r]

\* The inductive invariant.
ConnInv ==
    /\ FlagsAgree
    /\ OpenConnection
    /\ NothingUnchecked
    /\ StageIsNamed
    /\ QueuedIsSaved

IInv ==
    /\ TypeOK
    /\ ConnInv
    /\ SavedIsOwned
    /\ NoStrayStage
    /\ HandedOnIsComplete
    /\ CommitInv
-----------------------------------------------------------------------------
\* The invariant holds before the first connection.
LEMMA InitIInv == Init => IInv
<1> SUFFICES ASSUME Init PROVE IInv
  OBVIOUS
<1>1. TypeOK
  BY NumbersAssumption DEF Init, TypeOK, StageState
<1>2. ConnInv
  BY DEF Init, ConnInv, FlagsAgree, OpenConnection, NothingUnchecked, StageIsNamed, QueuedIsSaved
<1>3. SavedIsOwned /\ NoStrayStage /\ HandedOnIsComplete /\ CommitInv
  BY DEF Init, SavedIsOwned, NoStrayStage, HandedOnIsComplete, CommitInv, Requests
<1> QED
  BY <1>1, <1>2, <1>3 DEF IInv

\* Steps that touch only a connection's own record keep what IInv says of the
\* two directories, because what they change is of a connection without answer.
LEMMA PiecesKeep ==
    ASSUME IInv, NEW r \in Requests, NEW k \in 0 .. MaxPiece,
           \/ connect(r) \/ authorize_request(r) \/ receive_malformed(r)
           \/ receive_dropped(r, k) \/ open_fails(r, k)
    PROVE  IInv'
<1> USE NumbersAssumption
    DEF IInv, TypeOK, ConnInv, FlagsAgree, OpenConnection, NothingUnchecked, StageIsNamed,
        QueuedIsSaved, SavedIsOwned, NoStrayStage, HandedOnIsComplete, CommitInv, Requests,
        flagVars, stageVars, pathVars, diskVars
<1>1. CASE connect(r)
  BY <1>1 DEF connect
<1>2. CASE authorize_request(r)
  BY <1>2 DEF authorize_request
<1>3. CASE receive_malformed(r)
  BY <1>3 DEF receive_malformed
<1>4. CASE receive_dropped(r, k)
  BY <1>4 DEF receive_dropped, Sending
<1>5. CASE open_fails(r, k)
  BY <1>5 DEF open_fails, Sending
<1> QED
  BY <1>1, <1>2, <1>3, <1>4, <1>5

\* A piece of the file: what is counted is what was sent, or the request fails.
LEMMA PostKeeps ==
    ASSUME IInv, NEW r \in Requests, NEW n \in Names, NEW k \in 0 .. MaxPiece,
           iterate_post(r, n, k)
    PROVE  IInv'
<1> USE DEF iterate_post, Sending, pathVars
<1>1. TypeOK'
  BY NumbersAssumption DEF IInv, TypeOK, Fits, StageState
<1>2. ConnInv'
  BY DEF IInv, TypeOK, ConnInv, Fits, FlagsAgree, OpenConnection, NothingUnchecked,
         StageIsNamed, QueuedIsSaved
<1>3. SavedIsOwned' /\ NoStrayStage'
  BY DEF IInv, TypeOK, ConnInv, OpenConnection, SavedIsOwned, NoStrayStage
<1>4. HandedOnIsComplete' /\ CommitInv'
  BY DEF IInv, TypeOK, ConnInv, OpenConnection, HandedOnIsComplete, CommitInv, Requests
<1> QED
  BY <1>1, <1>2, <1>3, <1>4 DEF IInv

\* The end of a body that hands nothing on.
LEMMA FailuresKeep ==
    ASSUME IInv, NEW r \in Requests,
           \/ finish_refused(r) \/ validate_target_peer(r) \/ finish_seal_fails(r)
           \/ finish_rename_fails(r) \/ finish_enqueue_fails(r)
    PROVE  IInv'
<1> USE NumbersAssumption, RequestsAssumption
    DEF IInv, TypeOK, StageState, ConnInv, FlagsAgree, OpenConnection, NothingUnchecked,
        StageIsNamed, QueuedIsSaved, SavedIsOwned, NoStrayStage, HandedOnIsComplete, CommitInv,
        Requests, Answered, Complete, flagVars, stageVars, pathVars, diskVars
<1>1. CASE finish_refused(r)
  BY <1>1 DEF finish_refused
<1>2. CASE validate_target_peer(r)
  BY <1>2 DEF validate_target_peer
<1>3. CASE finish_seal_fails(r)
  BY <1>3 DEF finish_seal_fails
<1>4. CASE finish_rename_fails(r)
  BY <1>4 DEF finish_rename_fails, Sealing
<1>5. CASE finish_enqueue_fails(r)
  BY <1>5 DEF finish_enqueue_fails, Swept
<1> QED
  BY <1>1, <1>2, <1>3, <1>4, <1>5

\* rename may put the file over another one, but then both have the same name
\* and time.
LEMMA CommitKeeps ==
    ASSUME IInv, NEW r \in Requests, finish_commit(r)
    PROVE  IInv'
<1> DEFINE p == FinalPath(r)
<1>1. /\ r \in Uploads /\ r \notin saved /\ answer[r] = "none"
      /\ now \in 0 .. MaxTime /\ name[r] \in Names
  BY DEF IInv, TypeOK, ConnInv, OpenConnection, StageIsNamed, finish_commit, Sealing, Answered
<1>2. p \in Paths /\ p.time = now /\ p.name = name[r]
  BY <1>1 DEF Paths, FinalPath
<1>3. /\ downloads' = [downloads EXCEPT ![p] = r]
      /\ path' = [path EXCEPT ![r] = p] /\ saved_at' = [saved_at EXCEPT ![r] = now]
      /\ answer' = [answer EXCEPT ![r] = "ok"] /\ name' = name
  BY DEF finish_commit, Answered
<1>4. TypeOK'
  <2>1. downloads' \in [Paths -> Requests \cup {Nil}] /\ path' \in [Requests -> Paths \cup {NoPath}]
    BY <1>2, <1>3 DEF IInv, TypeOK
  <2> QED
    BY <2>1, NumbersAssumption
    DEF IInv, TypeOK, StageState, finish_commit, Sealing, Answered
<1>5. ConnInv'
  BY DEF IInv, TypeOK, ConnInv, FlagsAgree, OpenConnection, NothingUnchecked, StageIsNamed,
         QueuedIsSaved, finish_commit, Sealing, Answered
<1>6. SavedIsOwned' /\ NoStrayStage'
  BY DEF IInv, TypeOK, SavedIsOwned, NoStrayStage, finish_commit, Answered
<1>7. HandedOnIsComplete'
  BY DEF IInv, TypeOK, ConnInv, FlagsAgree, OpenConnection, HandedOnIsComplete, finish_commit,
         Sealing, Answered, Complete
<1>8. CommitInv'
  <2> SUFFICES ASSUME NEW u \in Uploads, answer'[u] = "ok"
               PROVE  /\ path'[u] = [time |-> saved_at'[u], name |-> name'[u]]
                      /\ \E q \in Uploads : /\ downloads'[path'[u]] = q
                                            /\ answer'[q] = "ok"
                                            /\ name'[q] = name'[u]
                                            /\ saved_at'[q] = saved_at'[u]
    BY DEF CommitInv
  <2>1. u \in Requests /\ r \in Requests
    BY DEF Requests
  <2>2. downloads \in [Paths -> Requests \cup {Nil}] /\ path \in [Requests -> Paths \cup {NoPath}]
        /\ saved_at \in [Requests -> 0 .. MaxTime]
        /\ answer \in [Requests -> {"none", "ok", "error"}]
    BY DEF IInv, TypeOK
  <2>3. CASE u = r
    <3>1. path'[u] = p /\ saved_at'[u] = now /\ downloads'[p] = r /\ answer'[r] = "ok"
      BY <1>2, <1>3, <2>1, <2>2, <2>3
    <3> QED
      BY <1>1, <1>3, <2>3, <3>1 DEF FinalPath
  <2>4. CASE u # r
    <3>1. answer[u] = "ok" /\ path'[u] = path[u] /\ saved_at'[u] = saved_at[u]
      BY <1>3, <2>1, <2>2, <2>4
    <3>2. path[u] = [time |-> saved_at[u], name |-> name[u]]
      BY <3>1 DEF IInv, CommitInv
    <3>3. CASE path[u] = p
      <4>1. saved_at[u] = now /\ name[u] = name[r]
        BY <1>2, <3>2, <3>3
      <4>2. downloads'[p] = r /\ answer'[r] = "ok" /\ saved_at'[r] = now
        BY <1>2, <1>3, <2>1, <2>2
      <4> QED
        BY <1>1, <1>3, <3>1, <3>2, <3>3, <4>1, <4>2
    <3>4. CASE path[u] # p
      <4> PICK q \in Uploads : /\ downloads[path[u]] = q /\ answer[q] = "ok"
                               /\ name[q] = name[u] /\ saved_at[q] = saved_at[u]
        BY <3>1 DEF IInv, CommitInv
      <4>1. q # r /\ q \in Requests
        BY <1>1 DEF Requests
      <4>2. answer'[q] = "ok" /\ saved_at'[q] = saved_at[q]
        BY <1>3, <2>2, <4>1
      <4>3. downloads'[path[u]] = downloads[path[u]]
        BY <1>3, <2>2, <3>4
      <4> QED
        BY <1>3, <3>1, <3>2, <4>2, <4>3
    <3> QED
      BY <3>3, <3>4
  <2> QED
    BY <2>3, <2>4
<1> QED
  BY <1>4, <1>5, <1>6, <1>7, <1>8 DEF IInv

\* transfer_enqueue: the queue becomes the owner in the step that saves the file.
LEMMA EnqueueKeeps ==
    ASSUME IInv, NEW r \in Requests, finish_enqueue(r)
    PROVE  IInv'
<1> USE DEF finish_enqueue, Sealing, Answered, Complete, pathVars
<1>1. TypeOK'
  BY NumbersAssumption DEF IInv, TypeOK, StageState, Swept
<1>2. ConnInv'
  BY DEF IInv, TypeOK, ConnInv, FlagsAgree, OpenConnection, NothingUnchecked, StageIsNamed,
         QueuedIsSaved
<1>3. SavedIsOwned' /\ NoStrayStage'
  BY DEF IInv, TypeOK, SavedIsOwned, NoStrayStage, Swept
<1>4. HandedOnIsComplete'
  BY DEF IInv, TypeOK, ConnInv, FlagsAgree, OpenConnection, HandedOnIsComplete
<1>5. CommitInv'
  BY RequestsAssumption DEF IInv, TypeOK, ConnInv, OpenConnection, CommitInv, Requests
<1> QED
  BY <1>1, <1>2, <1>3, <1>4, <1>5 DEF IInv

\* The steps of the queue, of the process and of time, and the end of a request.
LEMMA EndsKeep ==
    ASSUME IInv,
           \/ \E r \in Requests : request_completed(r) \/ queue_removes(r)
           \/ restart \/ tick
    PROVE  IInv'
<1> USE NumbersAssumption
    DEF IInv, TypeOK, ConnInv, FlagsAgree, OpenConnection, NothingUnchecked, StageIsNamed,
        QueuedIsSaved, SavedIsOwned, NoStrayStage, HandedOnIsComplete, CommitInv, Requests,
        flagVars, stageVars, pathVars, diskVars
<1>1. ASSUME NEW r \in Requests, request_completed(r) PROVE IInv'
  BY <1>1 DEF request_completed, Unsaved
<1>2. ASSUME NEW r \in Requests, queue_removes(r) PROVE IInv'
  BY <1>2 DEF queue_removes
<1>3. CASE restart
  BY <1>3 DEF restart, Swept
<1>4. CASE tick
  BY <1>4 DEF tick
<1> QED
  BY <1>1, <1>2, <1>3, <1>4

\* Every step keeps the invariant.
LEMMA NextIInv == IInv /\ [Next]_vars => IInv'
<1> SUFFICES ASSUME IInv, [Next]_vars PROVE IInv'
  OBVIOUS
<1>1. CASE UNCHANGED vars
  BY <1>1
  DEF IInv, TypeOK, ConnInv, FlagsAgree, OpenConnection, NothingUnchecked, StageIsNamed,
      QueuedIsSaved, SavedIsOwned, NoStrayStage, HandedOnIsComplete, CommitInv,
      vars, flagVars, stageVars, pathVars, diskVars
<1>2. CASE Next
  BY <1>2, NumbersAssumption, PiecesKeep, PostKeeps, FailuresKeep, CommitKeeps, EnqueueKeeps,
     EndsKeep
  DEF Next
<1> QED
  BY <1>1, <1>2
-----------------------------------------------------------------------------
\* The inductive invariant holds in every state of the specification.
THEOREM Invariance == Spec => []IInv
<1> QED
  BY InitIInv, NextIInv, PTL DEF Spec

\* NoStrayStage: whatever way a request ends, every staged file has someone who
\* removes it.
THEOREM StagesAreOwned == Spec => []NoStrayStage
<1>1. IInv => NoStrayStage
  BY DEF IInv
<1> QED
  BY <1>1, Invariance, PTL

\* HandedOnIsComplete: commit and enqueue see only complete, authorized files.
THEOREM HandOnsAreComplete == Spec => []HandedOnIsComplete
<1>1. IInv => HandedOnIsComplete
  BY DEF IInv
<1> QED
  BY <1>1, Invariance, PTL

\* CommittedIsKept: a committed file is lost only to one of its name and second.
THEOREM CommitsAreKept == Spec => []CommittedIsKept
<1>1. IInv => CommittedIsKept
  BY DEF IInv, CommitInv, CommittedIsKept
<1> QED
  BY <1>1, Invariance, PTL

\* QueueOwnsFile: request_completed, commits and aborts of other requests leave
\* a file of the queue alone.
THEOREM QueueKeepsFile == Spec => QueueOwnsFile
<1> DEFINE Kept == \A r \in queued \cap staging :
                      r \notin staging' => r \notin queued' \/ mtime[r] + StagingRetention <= now
<1>1. IInv /\ [Next]_vars => [Kept]_vars
  <2> SUFFICES ASSUME IInv, Next, NEW f \in queued \cap staging, f \notin staging'
               PROVE  f \notin queued' \/ mtime[f] + StagingRetention <= now
    OBVIOUS
  <2>1. f \in Sends /\ f \in saved /\ f \in Requests /\ f \notin Uploads
    BY RequestsAssumption DEF IInv, ConnInv, QueuedIsSaved, Requests
  <2>2. phase[f] \notin {"new", "body"}
    BY <2>1 DEF IInv, ConnInv, OpenConnection
  <2>3. mtime[f] + StagingRetention > now \/ mtime[f] + StagingRetention <= now
    BY <2>1, NumbersAssumption DEF IInv, TypeOK
  <2>4. ASSUME NEW r \in Requests, finish_enqueue(r) \/ finish_enqueue_fails(r)
        PROVE  mtime[f] + StagingRetention <= now
    <3>1. r # f
      BY <2>2, <2>4 DEF finish_enqueue, finish_enqueue_fails, Answered
    <3>2. mtime'[f] = mtime[f]
      BY <2>1, <2>4, <3>1 DEF finish_enqueue, finish_enqueue_fails, Sealing, IInv, TypeOK
    <3> QED
      BY <2>3, <2>4, <3>1, <3>2 DEF finish_enqueue, finish_enqueue_fails, Swept
  <2>5. ASSUME NEW r \in Requests, finish_commit(r) \/ request_completed(r)
        PROVE  FALSE
    BY <2>1, <2>5 DEF finish_commit, request_completed, Unsaved
  <2>6. ASSUME NEW r \in Requests, queue_removes(r)
        PROVE  f \notin queued'
    BY <2>6 DEF queue_removes
  <2>7. CASE restart
    BY <2>7 DEF restart
  <2>8. ASSUME NEW r \in Requests, NEW k \in 0 .. MaxPiece,
               \/ receive_dropped(r, k) \/ open_fails(r, k)
               \/ \E n \in Names : iterate_post(r, n, k)
        PROVE  FALSE
    BY <2>8 DEF receive_dropped, open_fails, iterate_post, diskVars
  <2>9. ASSUME NEW r \in Requests,
               \/ connect(r) \/ authorize_request(r) \/ receive_malformed(r)
               \/ finish_refused(r) \/ validate_target_peer(r) \/ finish_seal_fails(r)
               \/ finish_rename_fails(r)
        PROVE  FALSE
    BY <2>9 DEF connect, authorize_request, receive_malformed, finish_refused,
                validate_target_peer, finish_seal_fails, finish_rename_fails, diskVars
  <2>10. CASE tick
    BY <2>10 DEF tick, diskVars
  <2> QED
    BY <2>4, <2>5, <2>6, <2>7, <2>8, <2>9, <2>10 DEF Next
<1> QED
  BY <1>1, Invariance, PTL DEF Spec, QueueOwnsFile
=============================================================================
