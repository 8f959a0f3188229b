------------------------------- MODULE Lifecycle -------------------------------
(***************************************************************************)
(* main (src/main.c): the parts are started in order, each may fail, and   *)
(* are stopped again, while request threads, the queue's worker and the    *)
(* Avahi callbacks use them.  SIGINT may come at any time.                 *)
(*                                                                         *)
(* What a stopped part would do to a thread that still uses it is left     *)
(* open: locks are destroyed and libcurl is gone.  get_local_ip never      *)
(* returns NULL, so the path for that is left out.                         *)
(***************************************************************************)
EXTENDS Integers, Sequences, SequencesExt

CONSTANTS
    Requests,  \* request threads
    MaxJobs    \* size of the queue

\* What is assumed of the constants.
ParametersOK == MaxJobs \in Nat

\* The calls of main, in order.
Starts == <<"registry", "curl", "auth", "storage", "queue", "discovery", "server">>
Parts == Range(Starts)

\* The steps of discovery_init.
AvahiSteps == <<"poll", "client", "group", "service", "commit", "browser">>

VARIABLES
    at,                 \* the number of the part that main starts next
    stopping,           \* the parts that main has yet to stop, in order
    phase,              \* of main
    keep_running,
    up,                 \* the parts that run
    avahi,              \* the steps of discovery_init that were done
    discovery_enabled,
    active,             \* the requests that are handled
    queued,             \* jobs in the queue
    worker              \* of the queue

mainVars == <<at, stopping, phase>>
discoveryVars == <<avahi, discovery_enabled>>
workVars == <<active, queued, worker>>
vars == <<mainVars, keep_running, up, discoveryVars, workVars>>

Phases == {"starting", "serving", "stopping", "exited"}
-----------------------------------------------------------------------------
(* Starting.                                                               *)

Mut_auth_left == <<"curl", "registry">>
\* What main stops when storage_init fails.
AfterStorageFailed == <<"auth", "curl", "registry">>

\* What main stops when a start fails, and at the end.
AfterFailed(part) ==
    CASE part = "registry" -> << >>
      [] part = "curl" -> <<"registry">>
      [] part = "auth" -> <<"curl", "registry">>
      [] part = "storage" -> AfterStorageFailed
      [] part = "queue" -> <<"storage", "auth", "curl", "registry">>
      [] part = "server" -> <<"discovery", "queue", "storage", "auth", "curl", "registry">>

Mut_curl_first == <<"server", "discovery", "curl", "queue", "storage", "auth", "registry">>
AtEnd == <<"server", "discovery", "queue", "storage", "auth", "curl", "registry">>

\* The part that comes next.
Following == at + 1

start_ok ==
    /\ phase = "starting" /\ Starts[at] # "discovery"
    /\ up' = up \cup {Starts[at]}
    /\ worker' = IF Starts[at] = "queue" THEN "waiting" ELSE worker
    /\ at' = Following
    /\ phase' = IF Starts[at] = "server" THEN "serving" ELSE phase
    /\ UNCHANGED <<stopping, keep_running, discoveryVars, active, queued>>

start_fails ==
    /\ phase = "starting" /\ Starts[at] # "discovery"
    /\ stopping' = AfterFailed(Starts[at])
    /\ phase' = "stopping"
    /\ UNCHANGED <<at, keep_running, up, discoveryVars, workVars>>

\* discovery_init goes on.
discovery_step ==
    /\ phase = "starting" /\ Starts[at] = "discovery"
    /\ Len(avahi) < Len(AvahiSteps)
    /\ avahi' = Append(avahi, AvahiSteps[Len(avahi) + 1])
    /\ UNCHANGED <<mainVars, keep_running, up, discovery_enabled, workVars>>

\* It returns 0, or -1 at any step, which frees nothing; main goes on without.
discovery_returns ==
    /\ phase = "starting" /\ Starts[at] = "discovery"
    /\ discovery_enabled' = (avahi = AvahiSteps)
    /\ up' = IF avahi = AvahiSteps THEN up \cup {"discovery"} ELSE up
    /\ at' = Following
    /\ UNCHANGED <<stopping, phase, keep_running, avahi, workVars>>

sigint_handler ==
    /\ phase # "exited"
    /\ keep_running' = FALSE
    /\ UNCHANGED <<mainVars, up, discoveryVars, workVars>>
-----------------------------------------------------------------------------
(* While the parts run.                                                    *)

Mut_accepts_while_stopping == "server" \in up
\* Connections are accepted until MHD_stop_daemon is called.
Accepts == "server" \in up /\ phase # "stopping"

request_starts(r) ==
    /\ Accepts /\ r \notin active
    /\ active' = active \cup {r}
    /\ UNCHANGED <<mainVars, keep_running, up, discoveryVars, queued, worker>>

\* /api/send enqueues a job.
request_enqueues(r) ==
    /\ r \in active /\ queued < MaxJobs
    /\ queued' = queued + 1
    /\ UNCHANGED <<mainVars, keep_running, up, discoveryVars, active, worker>>

request_ends(r) ==
    /\ r \in active
    /\ active' = active \ {r}
    /\ UNCHANGED <<mainVars, keep_running, up, discoveryVars, queued, worker>>

\* transfer_worker_run takes a job; when the queue is told to stop it goes on
\* until the queue is empty.
worker_takes ==
    /\ worker = "waiting" /\ queued > 0
    /\ queued' = queued - 1 /\ worker' = "sending"
    /\ UNCHANGED <<mainVars, keep_running, up, discoveryVars, active>>

worker_done ==
    /\ worker = "sending"
    /\ worker' = "waiting"
    /\ UNCHANGED <<mainVars, keep_running, up, discoveryVars, active, queued>>

\* The loop of main; discovery_poll runs callbacks (see PeerRegistry).
loop_ends ==
    /\ phase = "serving" /\ ~keep_running
    /\ stopping' = AtEnd
    /\ phase' = "stopping"
    /\ UNCHANGED <<at, keep_running, up, discoveryVars, workVars>>
-----------------------------------------------------------------------------
(* Stopping.                                                               *)

\* MHD_stop_daemon joins the request threads.
StopReturns(part) ==
    CASE part = "server" -> active = {}
      [] part = "queue" -> queued = 0 /\ worker # "sending"
      [] OTHER -> TRUE

\* discovery_cleanup frees what there is, but only if discovery is enabled.
stop_part ==
    LET part == Head(stopping) IN
    /\ phase = "stopping" /\ stopping # << >>
    /\ StopReturns(part)
    /\ up' = up \ {part}
    /\ avahi' = IF part = "discovery" /\ discovery_enabled THEN << >> ELSE avahi
    /\ worker' = IF part = "queue" THEN "none" ELSE worker
    /\ stopping' = Tail(stopping)
    /\ UNCHANGED <<at, phase, keep_running, discovery_enabled, active, queued>>

main_returns ==
    /\ phase = "stopping" /\ stopping = << >>
    /\ phase' = "exited"
    /\ UNCHANGED <<at, stopping, keep_running, up, discoveryVars, workVars>>
-----------------------------------------------------------------------------
Init ==
    /\ at = 1 /\ stopping = << >> /\ phase = "starting"
    /\ keep_running = TRUE
    /\ up = {}
    /\ avahi = << >> /\ discovery_enabled = FALSE
    /\ active = {} /\ queued = 0 /\ worker = "none"

Main ==
    \/ start_ok \/ start_fails \/ discovery_step \/ discovery_returns
    \/ loop_ends \/ stop_part \/ main_returns
Work ==
    \/ \E r \in Requests : request_starts(r) \/ request_enqueues(r) \/ request_ends(r)
    \/ worker_takes \/ worker_done

Next == Main \/ Work \/ sigint_handler
Spec == Init /\ [][Next]_vars

\* main goes on, requests end (the longest wait is 30 s for the peer in
\* /api/pair) and so do transfers (300 s).
Fairness ==
    /\ WF_vars(Main)
    /\ \A r \in Requests : WF_vars(request_ends(r))
    /\ WF_vars(worker_takes) /\ WF_vars(worker_done)
-----------------------------------------------------------------------------
(* Properties.                                                             *)

TypeOK ==
    /\ at \in 1 .. Len(Starts) + 1
    /\ stopping \in Seq(Parts)
    /\ phase \in Phases
    /\ keep_running \in BOOLEAN /\ discovery_enabled \in BOOLEAN
    /\ up \subseteq Parts
    /\ avahi \in Seq(Range(AvahiSteps)) /\ IsPrefix(avahi, AvahiSteps)
    /\ active \subseteq Requests
    /\ queued \in 0 .. MaxJobs
    /\ worker \in {"none", "waiting", "sending"}

\* Nobody uses a part that is not up: every request may use the registry,
\* libcurl, the sessions, the files and the queue, the worker sends with libcurl
\* from the staging directory, and the callbacks write the registry.
UsedIsUp ==
    /\ active # {} => {"registry", "curl", "auth", "storage", "queue"} \subseteq up
    /\ worker = "sending" => {"curl", "storage", "queue"} \subseteq up
    /\ "discovery" \in up => "registry" \in up

\* Whichever start fails and whenever SIGINT comes, everything that was started
\* is stopped again and no accepted job is left; the exception is a discovery
\* that failed halfway.
ExitIsClean ==
    phase = "exited" => up = {} /\ queued = 0 /\ (avahi = << >> \/ ~discovery_enabled)

\* SIGINT ends the process, even during the start and under load.
InterruptEnds == ~keep_running ~> phase = "exited"
=============================================================================
