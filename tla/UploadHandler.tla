---------------------------- MODULE UploadHandler ----------------------------
(***************************************************************************)
(* The life of a POST request that carries a file (src/server.c with       *)
(* src/storage.c): /upload, which commits the file to downloads/, and      *)
(* /api/send, which hands it to the transfer queue.                        *)
(*                                                                         *)
(* libmicrohttpd runs one thread per connection.  It calls                 *)
(* answer_to_connection once for the headers, once per piece of the body   *)
(* and once at its end, then request_completed, which also runs when the   *)
(* client goes away.  A call touches its own connection_info and the two   *)
(* directories only, so one call is one step, except that the look at the  *)
(* request's token, made by the call for the first piece, is a step of its *)
(* own.                                                                    *)
(*                                                                         *)
(* A request also stands for its staging file, whose name is random.  The  *)
(* form fields matter here only through validate_target_peer, which may    *)
(* refuse a send; a piece that carries one changes nothing.  What the      *)
(* transfer queue does with its own files is queue_removes.                *)
(***************************************************************************)
EXTENDS Integers

CONSTANTS
    Uploads,           \* requests to /upload
    Sends,             \* requests to /api/send
    Names,             \* sanitised file names
    Nil,               \* no file name yet
    MaxFileSize,       \* MAX_FILE_SIZE
    StagingRetention,  \* STAGING_RETENTION_SECONDS
    MaxPiece,          \* bound on the size of a piece
    MaxSent,           \* bound on the bytes a client sends
    MaxTime            \* bound on the clock

Requests == Uploads \cup Sends

ASSUME RequestsAssumption ==
    /\ Uploads \cap Sends = {}
    /\ Nil \notin Names
ASSUME NumbersAssumption ==
    /\ MaxFileSize \in Nat
    /\ StagingRetention \in Nat \ {0}
    /\ MaxPiece \in Nat
    /\ MaxSent \in Nat
    /\ MaxTime \in Nat

VARIABLES
    now,
    phase,      \* where each connection is
    checked,    \* requests with auth_checked
    authorized, \* requests with request_authorized
    failed,     \* requests with response_status >= 400
    started,    \* requests with upload_in_progress
    saved,      \* requests with file_saved
    stage,      \* fp and sealed of each UploadStage
    name,       \* original_name
    bytes,      \* bytes_received
    sent,       \* bytes of the file that the client has sent
    answer,     \* the answer to each request
    path,       \* where its file was committed: <time>_<name>
    saved_at,   \* (history) when it was committed
    staging,    \* files in staging/
    mtime,      \* their modification times
    downloads,  \* what is at each path of downloads/
    queued,     \* requests whose file belongs to the transfer queue
    orphans     \* files in staging/ whose process died

flagVars  == <<checked, authorized, failed, started, saved>>
stageVars == <<stage, name, bytes>>
pathVars  == <<path, saved_at>>
diskVars  == <<staging, mtime, downloads>>
vars == <<now, phase, flagVars, stageVars, sent, answer, pathVars, diskVars, queued, orphans>>

\* "broken": fclose failed, there is neither an open file nor a sealed one.
StageState == {"none", "open", "broken", "sealed"}
Paths == [time : 0 .. MaxTime, name : Names]
NoPath == [time |-> 0, name |-> Nil]
-----------------------------------------------------------------------------
(* The calls for the headers and for the pieces of the body.               *)

\* The first call allocates a zeroed connection_info.
connect(r) ==
    /\ phase[r] = "new"
    /\ phase' = [phase EXCEPT ![r] = "body"]
    /\ UNCHANGED <<now, flagVars, stageVars, sent, answer, pathVars, diskVars, queued, orphans>>

\* authorize_upload_request or authorize_ui_request, once per request.  The
\* token may be refused, and the rate limit may refuse it whatever its token.
authorize_request(r) ==
    /\ phase[r] = "body" /\ r \notin checked
    /\ checked' = checked \cup {r}
    /\ \/ authorized' = authorized \cup {r} /\ UNCHANGED failed
       \/ failed' = failed \cup {r} /\ UNCHANGED authorized
    /\ UNCHANGED <<now, phase, started, saved, stageVars, sent, answer, pathVars, diskVars,
                   queued, orphans>>

\* The client sends k bytes of the file.
Sending(r, k) ==
    /\ phase[r] = "body" /\ r \in checked
    /\ sent[r] + k <= MaxSent
    /\ sent' = [sent EXCEPT ![r] = @ + k]

\* They are dropped: the request is not authorized, or it failed already.
receive_dropped(r, k) ==
    /\ r \notin authorized \/ r \in failed
    /\ Sending(r, k)
    /\ UNCHANGED <<now, phase, flagVars, stageVars, answer, pathVars, diskVars, queued, orphans>>

\* MHD_post_process cannot parse a piece.
receive_malformed(r) ==
    /\ phase[r] = "body" /\ r \in authorized
    /\ failed' = failed \cup {r}
    /\ UNCHANGED <<now, phase, checked, authorized, started, saved, stageVars, sent, answer,
                   pathVars, diskVars, queued, orphans>>

\* upload_stage_open fails.
open_fails(r, k) ==
    /\ r \in authorized /\ r \notin failed /\ stage[r] = "none"
    /\ Sending(r, k)
    /\ failed' = failed \cup {r}
    /\ UNCHANGED <<now, phase, checked, authorized, started, saved, stageVars, answer, pathVars,
                   diskVars, queued, orphans>>

\* upload_stage_write: the limit is checked before anything is written.
Fits(r, k) == bytes[r] + k <= MaxFileSize

\* iterate_post with k bytes of the file named n.  The first call opens the
\* stage; a second file of the same form is appended to the first one.  stdio
\* may keep the bytes in its buffer, so the modification time may stay.
iterate_post(r, n, k) ==
    /\ r \in authorized /\ r \notin failed
    /\ Sending(r, k)
    /\ started' = started \cup {r}
    /\ stage' = [stage EXCEPT ![r] = "open"]
    /\ name' = IF stage[r] = "none" THEN [name EXCEPT ![r] = n] ELSE name
    /\ staging' = IF stage[r] = "none" THEN staging \cup {r} ELSE staging
    /\ \E t \in {mtime[r], now} :
         /\ stage[r] = "none" => t = now
         /\ mtime' = [mtime EXCEPT ![r] = t]
    /\ \/ /\ Fits(r, k)
          /\ bytes' = [bytes EXCEPT ![r] = @ + k]
          /\ UNCHANGED failed
       \/ k > 0 /\ failed' = failed \cup {r} /\ UNCHANGED bytes
    /\ UNCHANGED <<now, phase, checked, authorized, saved, answer, pathVars, downloads, queued,
                   orphans>>
-----------------------------------------------------------------------------
(* The call at the end of the body.                                        *)

Answered(r, a) ==
    /\ phase[r] = "body"
    /\ phase' = [phase EXCEPT ![r] = "answered"]
    /\ answer' = [answer EXCEPT ![r] = a]

Mut_accept_failed(r) == r \in started
\* Nothing failed and a file was sent.
Complete(r) == r \notin failed /\ r \in started

\* An error status from an earlier piece, or no file at all.
finish_refused(r) ==
    /\ ~Complete(r)
    /\ Answered(r, "error")
    /\ UNCHANGED <<now, flagVars, stageVars, sent, pathVars, diskVars, queued, orphans>>

\* The target of a send is no active peer, is not paired or has no token.
validate_target_peer(r) ==
    /\ r \in Sends /\ Complete(r)
    /\ failed' = failed \cup {r}
    /\ Answered(r, "error")
    /\ UNCHANGED <<now, checked, authorized, started, saved, stageVars, sent, pathVars,
                   diskVars, queued, orphans>>

\* upload_stage_seal fails: in fflush, which leaves the file open, or in fclose.
finish_seal_fails(r) ==
    /\ Complete(r) /\ stage[r] = "open"
    /\ Answered(r, "error")
    /\ \E s \in {"open", "broken"} : stage' = [stage EXCEPT ![r] = s]
    /\ failed' = failed \cup {r}
    /\ UNCHANGED <<now, checked, authorized, started, saved, name, bytes, sent, pathVars,
                   diskVars, queued, orphans>>

\* upload_stage_seal: the last bytes reach the file.
Sealing(r) ==
    /\ Complete(r) /\ stage[r] = "open"
    /\ stage' = [stage EXCEPT ![r] = "sealed"]
    /\ \E t \in {mtime[r], now} : mtime' = [mtime EXCEPT ![r] = t]

Mut_final_path_untimed(r) == [time |-> 0, name |-> name[r]]
\* The name upload_stage_commit gives the file.
FinalPath(r) == [time |-> now, name |-> name[r]]

\* commit_uploaded_file: rename replaces whatever is at the path.
finish_commit(r) ==
    /\ r \in Uploads
    /\ Sealing(r)
    /\ r \in staging
    /\ staging' = staging \ {r}
    /\ downloads' = [downloads EXCEPT ![FinalPath(r)] = r]
    /\ path' = [path EXCEPT ![r] = FinalPath(r)]
    /\ saved_at' = [saved_at EXCEPT ![r] = now]
    /\ saved' = saved \cup {r}
    /\ Answered(r, "ok")
    /\ UNCHANGED <<now, checked, authorized, failed, started, name, bytes, sent, queued,
                   orphans>>

\* rename fails; it must if the sweep took the staging file.
finish_rename_fails(r) ==
    /\ r \in Uploads
    /\ Sealing(r)
    /\ failed' = failed \cup {r}
    /\ Answered(r, "error")
    /\ UNCHANGED <<now, checked, authorized, started, saved, name, bytes, sent, pathVars,
                   staging, downloads, queued, orphans>>

\* cleanup_expired_staging_files with the modification times m.
Swept(m) == {f \in staging : m[f] + StagingRetention > now}

\* seal_uploaded_stage and a successful transfer_enqueue, which sweeps first.
finish_enqueue(r) ==
    /\ r \in Sends
    /\ Sealing(r)
    /\ saved' = saved \cup {r}
    /\ staging' = Swept(mtime')
    /\ queued' = queued \cup {r}
    /\ Answered(r, "ok")
    /\ UNCHANGED <<now, checked, authorized, failed, started, name, bytes, sent, pathVars,
                   downloads, orphans>>

\* transfer_enqueue refuses: file_saved is cleared again and the file removed.
finish_enqueue_fails(r) ==
    /\ r \in Sends
    /\ Complete(r) /\ stage[r] = "open"
    /\ stage' = [stage EXCEPT ![r] = "none"]
    /\ name' = [name EXCEPT ![r] = Nil]
    /\ bytes' = [bytes EXCEPT ![r] = 0]
    /\ \E t \in {mtime[r], now} : mtime' = [mtime EXCEPT ![r] = t]
    /\ staging' = Swept(mtime') \ {r}
    /\ Answered(r, "error")
    /\ UNCHANGED <<now, flagVars, sent, pathVars, downloads, queued, orphans>>
-----------------------------------------------------------------------------
(* The end of a request, the queue, the process, and time.                 *)

Mut_abort_always(r) == {r}
Mut_never_abort(r) == {}
\* What upload_stage_abort unlinks when request_completed calls it; it is not
\* called if the file was saved.
Unsaved(r) == IF r \in saved THEN {} ELSE {r}

\* After the answer, or at any time when the client goes away or the server
\* stops.
request_completed(r) ==
    /\ phase[r] \in {"body", "answered"}
    /\ phase' = [phase EXCEPT ![r] = "done"]
    /\ staging' = staging \ Unsaved(r)
    /\ UNCHANGED <<now, flagVars, stageVars, sent, answer, pathVars, mtime, downloads, queued,
                   orphans>>

\* The transfer queue is through with a file and removes it (TransferQueue).
queue_removes(r) ==
    /\ r \in queued
    /\ queued' = queued \ {r}
    /\ staging' = staging \ {r}
    /\ UNCHANGED <<now, phase, flagVars, stageVars, sent, answer, pathVars, mtime, downloads,
                   orphans>>

\* The process dies and another one is started, which sweeps staging/.
restart ==
    /\ phase' = [r \in Requests |-> IF phase[r] = "new" THEN "new" ELSE "done"]
    /\ staging' = Swept(mtime)
    /\ orphans' = orphans \cup staging'
    /\ queued' = {}
    /\ UNCHANGED <<now, flagVars, stageVars, sent, answer, pathVars, mtime, downloads>>

tick ==
    /\ now < MaxTime
    /\ now' = now + 1
    /\ UNCHANGED <<phase, flagVars, stageVars, sent, answer, pathVars, diskVars, queued, orphans>>

Init ==
    /\ now = 0
    /\ phase = [r \in Requests |-> "new"]
    /\ checked = {} /\ authorized = {} /\ failed = {} /\ started = {} /\ saved = {}
    /\ stage = [r \in Requests |-> "none"]
    /\ name = [r \in Requests |-> Nil]
    /\ bytes = [r \in Requests |-> 0]
    /\ sent = [r \in Requests |-> 0]
    /\ answer = [r \in Requests |-> "none"]
    /\ path = [r \in Requests |-> NoPath]
    /\ saved_at = [r \in Requests |-> 0]
    /\ staging = {}
    /\ mtime = [r \in Requests |-> 0]
    /\ downloads = [p \in Paths |-> Nil]
    /\ queued = {} /\ orphans = {}

Next ==
    \/ \E r \in Requests :
         \/ connect(r)
         \/ authorize_request(r)
         \/ receive_malformed(r)
         \/ \E k \in 0 .. MaxPiece :
              \/ receive_dropped(r, k)
              \/ open_fails(r, k)
              \/ \E n \in Names : iterate_post(r, n, k)
         \/ finish_refused(r)
         \/ validate_target_peer(r)
         \/ finish_seal_fails(r)
         \/ finish_commit(r)
         \/ finish_rename_fails(r)
         \/ finish_enqueue(r)
         \/ finish_enqueue_fails(r)
         \/ request_completed(r)
         \/ queue_removes(r)
    \/ restart
    \/ tick

Spec == Init /\ [][Next]_vars
-----------------------------------------------------------------------------
(* Properties.                                                             *)

TypeOK ==
    /\ now \in 0 .. MaxTime
    /\ phase \in [Requests -> {"new", "body", "answered", "done"}]
    /\ checked \subseteq Requests /\ authorized \subseteq Requests
    /\ failed \subseteq Requests /\ started \subseteq Requests /\ saved \subseteq Requests
    /\ stage \in [Requests -> StageState]
    /\ name \in [Requests -> Names \cup {Nil}]
    /\ bytes \in [Requests -> 0 .. MaxFileSize]
    /\ sent \in [Requests -> 0 .. MaxSent]
    /\ answer \in [Requests -> {"none", "ok", "error"}]
    /\ path \in [Requests -> Paths \cup {NoPath}]
    /\ saved_at \in [Requests -> 0 .. MaxTime]
    /\ staging \subseteq Requests
    /\ mtime \in [Requests -> 0 .. MaxTime]
    /\ downloads \in [Paths -> Requests \cup {Nil}]
    /\ queued \subseteq Requests /\ orphans \subseteq Requests

\* Whatever way a request ends, every file in staging/ has someone who will
\* remove it: the connection that writes it, the transfer queue, or the sweep
\* after the process that wrote it died.
NoStrayStage ==
    \A f \in staging : phase[f] \in {"body", "answered"} \/ f \in queued \/ f \in orphans

\* A file that is handed on, to downloads/ or to the queue, came with a token
\* that was accepted and holds every byte the client sent, within the limit:
\* no error on the way is forgotten when the body ends.
HandedOnIsComplete ==
    \A r \in Requests :
        answer[r] = "ok" => /\ r \in authorized
                            /\ bytes[r] = sent[r]
                            /\ bytes[r] <= MaxFileSize

\* The file of an upload that was answered with success is at its path, unless
\* an upload of the same name was committed in the same second after it.
CommittedIsKept ==
    \A r \in Uploads :
        answer[r] = "ok" =>
            \/ downloads[path[r]] = r
            \/ \E q \in Uploads \ {r} : /\ downloads[path[r]] = q
                                        /\ name[q] = name[r]
                                        /\ saved_at[q] = saved_at[r]

\* A file the queue has accepted is not taken away by the connection that
\* delivered it: only the queue itself or the sweep of an old file removes it.
QueueOwnsFile ==
    [][\A r \in queued \cap staging :
          r \notin staging' => r \notin queued' \/ mtime[r] + StagingRetention <= now]_vars

\* What README.md says, "Received files are committed into `downloads/`": the
\* file of every upload answered with success is there.
ReceivedIsInDownloads ==
    \A r \in Uploads : answer[r] = "ok" => \E p \in Paths : downloads[p] = r
=============================================================================
