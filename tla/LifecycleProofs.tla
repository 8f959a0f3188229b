---------------------------- MODULE LifecycleProofs ----------------------------
(***************************************************************************)
(* Proofs about the start and the end of the process (src/main.c), for     *)
(* every number of requests and every size of the queue.                   *)
(***************************************************************************)
EXTENDS MCShutdown, Sequences, TLAPS

\* The parts that main has yet to stop, at any point of either way to the end:
\* what it stops after a failed start is the rest of what it stops at the end.
Remaining ==
    {<<"server", "discovery", "queue", "storage", "auth", "curl", "registry">>,
     <<"discovery", "queue", "storage", "auth", "curl", "registry">>,
     <<"queue", "storage", "auth", "curl", "registry">>,
     <<"storage", "auth", "curl", "registry">>,
     <<"auth", "curl", "registry">>, <<"curl", "registry">>, <<"registry">>, << >>}

\* What main has started so far.
Started == {L!Starts[k] : k \in 1 .. at - 1}

\* Discovery, unless it is enabled: main does without it.
Missing == IF discovery_enabled THEN {} ELSE {"discovery"}

\* What is up in each phase.
UpIsKnown ==
    /\ phase = "starting" => at <= 7 /\ up = Started \ Missing /\ (at <= 6 => ~discovery_enabled)
    /\ phase = "serving" => up = L!Parts \ Missing
    /\ phase = "stopping" => stopping \in Remaining /\ up = L!Range(stopping) \ Missing
    /\ phase = "exited" => up = {}

\* Who uses what.
UsersInv ==
    /\ active # {} => "server" \in up
    /\ thread = "sending" \/ queued > 0 => "queue" \in up
    /\ thread = "none" <=> "queue" \notin up
    /\ discovery_enabled /\ "discovery" \notin up => avahi = << >>

\* The inductive invariant.
IInv == L!TypeOK /\ UpIsKnown /\ UsersInv
-----------------------------------------------------------------------------
\* The parts.
LEMMA PartsAre ==
    /\ L!Parts = {"registry", "curl", "auth", "storage", "queue", "discovery", "server"}
    /\ Len(L!Starts) = 7
    /\ L!Starts[1] = "registry" /\ L!Starts[2] = "curl" /\ L!Starts[3] = "auth" /\ L!Starts[4] = "storage"
    /\ L!Starts[5] = "queue" /\ L!Starts[6] = "discovery" /\ L!Starts[7] = "server"
<1>1. /\ Len(L!Starts) = 7 /\ DOMAIN L!Starts = 1 .. 7
      /\ L!Starts[1] = "registry" /\ L!Starts[2] = "curl" /\ L!Starts[3] = "auth" /\ L!Starts[4] = "storage"
      /\ L!Starts[5] = "queue" /\ L!Starts[6] = "discovery" /\ L!Starts[7] = "server"
  BY DEF L!Starts
<1> QED
  BY <1>1 DEF L!Parts, L!Range

\* What is stopped first of the rest, and what is left then.
LEMMA RestOf ==
    ASSUME NEW s \in Remaining
    PROVE  /\ s \in Seq(L!Parts)
           /\ s = << >> => L!Range(s) = {}
           /\ s # << >> =>
                /\ Tail(s) \in Remaining /\ L!Range(Tail(s)) = L!Range(s) \ {Head(s)}
                /\ Head(s) \in L!Range(s)
                /\ Head(s) \in L!Parts
           /\ L!Range(s) \subseteq L!Parts
           /\ "server" \in L!Range(s) => Head(s) = "server" /\ L!Range(s) = L!Parts
           /\ "queue" \in L!Range(s) => {"registry", "curl", "storage"} \subseteq L!Range(s)
           /\ "discovery" \in L!Range(s) => "registry" \in L!Range(s)
<1>1. CASE s = <<"server", "discovery", "queue", "storage", "auth", "curl", "registry">>
  BY <1>1, PartsAre DEF Remaining, L!Range
<1>2. CASE s = <<"discovery", "queue", "storage", "auth", "curl", "registry">>
  BY <1>2, PartsAre DEF Remaining, L!Range
<1>3. CASE s = <<"queue", "storage", "auth", "curl", "registry">>
  BY <1>3, PartsAre DEF Remaining, L!Range
<1>4. CASE s = <<"storage", "auth", "curl", "registry">>
  BY <1>4, PartsAre DEF Remaining, L!Range
<1>5. CASE s = <<"auth", "curl", "registry">>
  BY <1>5, PartsAre DEF Remaining, L!Range
<1>6. CASE s = <<"curl", "registry">>
  BY <1>6, PartsAre DEF Remaining, L!Range
<1>7. CASE s = <<"registry">>
  BY <1>7, PartsAre DEF Remaining, L!Range
<1>8. CASE s = << >>
  BY <1>8, PartsAre DEF Remaining, L!Range
<1> QED
  BY <1>1, <1>2, <1>3, <1>4, <1>5, <1>6, <1>7, <1>8 DEF Remaining

\* A failed start is followed by the stop of what was started before it.
LEMMA FailureStops ==
    ASSUME at \in 1 .. 7, at # 6
    PROVE  L!AfterFailed(L!Starts[at]) \in Remaining /\ L!Range(L!AfterFailed(L!Starts[at])) = Started
<1>1. CASE at = 1
  BY <1>1, PartsAre DEF L!AfterFailed, Remaining, L!Range, Started
<1>2. CASE at = 2
  BY <1>2, PartsAre DEF L!AfterFailed, Remaining, L!Range, Started
<1>3. CASE at = 3
  BY <1>3, PartsAre DEF L!AfterFailed, Remaining, L!Range, Started
<1>4. CASE at = 4
  BY <1>4, PartsAre DEF L!AfterFailed, L!AfterStorageFailed, Remaining, L!Range, Started
<1>5. CASE at = 5
  BY <1>5, PartsAre DEF L!AfterFailed, Remaining, L!Range, Started
<1>7. CASE at = 7
  BY <1>7, PartsAre DEF L!AfterFailed, Remaining, L!Range, Started
<1> QED
  BY <1>1, <1>2, <1>3, <1>4, <1>5, <1>7

LEMMA EndStops == L!AtEnd \in Remaining /\ L!Range(L!AtEnd) = L!Parts
  BY PartsAre DEF L!AtEnd, Remaining, L!Range

\* In every phase a part is up only with the parts it needs.
LEMMA UpWithNeeds ==
    ASSUME IInv
    PROVE  /\ "server" \in up => {"registry", "curl", "auth", "storage", "queue"} \subseteq up
           /\ "queue" \in up => {"registry", "curl", "storage"} \subseteq up
           /\ "discovery" \in up => "registry" \in up
<1>1. CASE phase = "starting"
  <2>1. at \in 1 .. 7 /\ up = Started \ Missing
    BY <1>1, PartsAre DEF IInv, L!TypeOK, UpIsKnown
  <2>2. "server" \notin Started
    BY <2>1, PartsAre DEF Started
  <2>3. "queue" \in Started => {"registry", "curl", "storage"} \subseteq Started
    BY <2>1, PartsAre DEF Started
  <2>4. "discovery" \in Started => "registry" \in Started
    BY <2>1, PartsAre DEF Started
  <2> QED
    BY <2>1, <2>2, <2>3, <2>4 DEF Missing
<1>2. CASE phase = "serving"
  BY <1>2, PartsAre DEF IInv, UpIsKnown, Missing
<1>3. CASE phase = "stopping"
  BY <1>3, RestOf, PartsAre DEF IInv, UpIsKnown, Missing
<1>4. CASE phase = "exited"
  BY <1>4 DEF IInv, UpIsKnown
<1> QED
  BY <1>1, <1>2, <1>3, <1>4 DEF IInv, L!TypeOK, L!Phases

\* discovery_init does its steps in order.
AvahiOK == avahi \in Seq(L!Range(L!AvahiSteps)) /\ L!IsPrefix(avahi, L!AvahiSteps)

LEMMA AvahiGrows ==
    ASSUME AvahiOK, Len(avahi) < Len(L!AvahiSteps),
           avahi' = Append(avahi, L!AvahiSteps[Len(avahi) + 1])
    PROVE  AvahiOK'
<1> DEFINE n == Len(avahi)
<1>1. /\ L!AvahiSteps \in Seq(L!Range(L!AvahiSteps)) /\ Len(L!AvahiSteps) = 6 /\ n \in 0 .. 5
  <2>1. Len(L!AvahiSteps) = 6 /\ DOMAIN L!AvahiSteps = 1 .. 6
    BY DEF L!AvahiSteps
  <2>2. L!AvahiSteps \in Seq(L!Range(L!AvahiSteps))
    <3>1. L!AvahiSteps = [i \in 1 .. 6 |-> L!AvahiSteps[i]]
      BY <2>1 DEF L!AvahiSteps
    <3>2. \A i \in 1 .. 6 : L!AvahiSteps[i] \in L!Range(L!AvahiSteps)
      BY <2>1 DEF L!Range
    <3> QED
      BY <3>1, <3>2
  <2>3. n \in Nat
    BY DEF AvahiOK
  <2>4. n < 6
    BY <2>1
  <2> HIDE DEF n
  <2>5. n \in 0 .. 5
    BY <2>3, <2>4
  <2> QED
    BY <2>1, <2>2, <2>5
<1>2. \A i \in 1 .. n : avahi[i] = L!AvahiSteps[i]
  <2>1. SubSeq(avahi, 1, n) = SubSeq(L!AvahiSteps, 1, n)
    BY DEF AvahiOK, L!IsPrefix
  <2>2. ASSUME NEW i \in 1 .. n
        PROVE  SubSeq(avahi, 1, n)[i] = avahi[i] /\ SubSeq(L!AvahiSteps, 1, n)[i] = L!AvahiSteps[i]
    BY <1>1, <2>2 DEF AvahiOK
  <2> QED
    BY <2>1, <2>2
<1>3. /\ avahi' \in Seq(L!Range(L!AvahiSteps)) /\ Len(avahi') = n + 1
      /\ \A i \in 1 .. n + 1 : avahi'[i] = L!AvahiSteps[i]
  BY <1>1, <1>2 DEF AvahiOK
<1>4. SubSeq(avahi', 1, n + 1) = SubSeq(L!AvahiSteps, 1, n + 1)
  BY <1>1, <1>3
<1> QED
  BY <1>1, <1>3, <1>4 DEF AvahiOK, L!IsPrefix

LEMMA NoAvahi == << >> \in Seq(L!Range(L!AvahiSteps)) /\ L!IsPrefix(<< >>, L!AvahiSteps)
  BY DEF L!IsPrefix, L!AvahiSteps

\* The first state.
LEMMA InitIInv == ASSUME L!ParametersOK, L!Init PROVE IInv
<1>1. L!TypeOK
  <2>1. at \in 1 .. Len(L!Starts) + 1 /\ stopping \in Seq(L!Parts) /\ phase \in L!Phases
    BY PartsAre DEF L!Init, L!Phases
  <2>2. avahi \in Seq(L!Range(L!AvahiSteps)) /\ L!IsPrefix(avahi, L!AvahiSteps)
    BY NoAvahi DEF L!Init
  <2>3. keep_running \in BOOLEAN /\ discovery_enabled \in BOOLEAN
    BY Zenon DEF L!Init
  <2>4. queued \in 0 .. MaxJobs
    BY DEF L!Init, L!ParametersOK
  <2> QED
    BY <2>1, <2>2, <2>3, <2>4, Zenon DEF L!Init, L!TypeOK
<1>2. UpIsKnown
  BY DEF L!Init, UpIsKnown, Started
<1>3. UsersInv
  BY DEF L!Init, UsersInv
<1> QED
  BY <1>1, <1>2, <1>3 DEF IInv

\* Starting.
LEMMA StartKeeps == ASSUME L!ParametersOK, IInv, L!start_ok \/ L!start_fails PROVE IInv'
<1>1. at \in 1 .. 7 /\ at # 6 /\ phase = "starting" /\ up = Started \ Missing
  BY PartsAre DEF L!start_ok, L!start_fails, IInv, L!TypeOK, UpIsKnown
<1>2. L!Starts[at] \in L!Parts /\ L!Starts[at] # "discovery"
  BY <1>1, PartsAre
<1>3. AvahiOK /\ AvahiOK'
  BY DEF IInv, L!TypeOK, AvahiOK, L!start_ok, L!start_fails, L!discoveryVars
<1>4. CASE L!start_ok
  <2>1. /\ at' = at + 1 /\ at' \in 1 .. 8 /\ up' = up \cup {L!Starts[at]}
        /\ phase' = IF at = 7 THEN "serving" ELSE "starting"
        /\ thread' = IF at = 5 THEN "waiting" ELSE thread
        /\ UNCHANGED <<stopping, keep_running, discovery_enabled, avahi, active, queued>>
    BY <1>1, <1>4, PartsAre DEF L!start_ok, L!Following, L!discoveryVars
  <2>2. L!TypeOK'
    <3>1. at' \in 1 .. Len(L!Starts) + 1
      BY <2>1, PartsAre
    <3>2. up' \subseteq L!Parts
      BY <1>2, <2>1 DEF IInv, L!TypeOK
    <3>3. phase' \in L!Phases
      BY <2>1 DEF L!Phases
    <3>4. thread' \in {"none", "waiting", "sending"}
      BY <2>1 DEF IInv, L!TypeOK
    <3> QED
      BY <1>3, <2>1, <3>1, <3>2, <3>3, <3>4, Zenon DEF IInv, L!TypeOK, AvahiOK
  <2>3. Started' = Started \cup {L!Starts[at]} /\ Missing' = Missing
    BY <1>1, <2>1, PartsAre DEF Started, Missing
  <2>4. up' = Started' \ Missing' /\ (at' <= 6 => ~discovery_enabled')
    BY <1>1, <1>2, <2>1, <2>3 DEF Missing, IInv, UpIsKnown
  <2>5. at = 7 => Started' = L!Parts
    BY <2>1, PartsAre DEF Started
  <2>6. UpIsKnown'
    BY <1>1, <2>1, <2>4, <2>5 DEF UpIsKnown
  <2>7. L!Starts[at] = "queue" <=> at = 5
    BY <1>1, PartsAre
  <2>8. UsersInv'
    BY <1>2, <2>1, <2>7 DEF IInv, UsersInv, L!TypeOK
  <2> QED
    BY <2>2, <2>6, <2>8 DEF IInv
<1>5. CASE L!start_fails
  <2>1. /\ stopping' = L!AfterFailed(L!Starts[at]) /\ phase' = "stopping"
        /\ UNCHANGED <<at, keep_running, up, discovery_enabled, avahi, active, queued, thread>>
    BY <1>5 DEF L!start_fails, L!discoveryVars, L!workVars
  <2>2. stopping' \in Remaining /\ stopping' \in Seq(L!Parts) /\ L!Range(stopping') = Started
    BY <1>1, <2>1, FailureStops, RestOf
  <2>3. L!TypeOK'
    BY <1>3, <2>1, <2>2 DEF IInv, L!TypeOK, L!Phases, AvahiOK
  <2>4. UpIsKnown'
    BY <1>1, <2>1, <2>2 DEF UpIsKnown, Missing
  <2>5. UsersInv'
    BY <2>1 DEF IInv, UsersInv
  <2> QED
    BY <2>3, <2>4, <2>5 DEF IInv
<1> QED
  BY <1>4, <1>5

\* discovery_init, whether it gets through or not.
LEMMA DiscoveryKeeps ==
    ASSUME L!ParametersOK, IInv, L!discovery_step \/ L!discovery_returns PROVE IInv'
<1>1. /\ at = 6 /\ phase = "starting" /\ up = Started \ Missing /\ ~discovery_enabled
      /\ discovery_enabled = FALSE
  BY PartsAre DEF L!discovery_step, L!discovery_returns, IInv, L!TypeOK, UpIsKnown
<1>2. "discovery" \notin up /\ "discovery" \notin Started
  BY <1>1, PartsAre DEF Started, Missing
<1>3. CASE L!discovery_step
  <2>1. UNCHANGED <<at, stopping, phase, keep_running, up, discovery_enabled, active, queued, thread>>
    BY <1>3 DEF L!discovery_step, L!mainVars, L!workVars
  <2>2. AvahiOK'
    BY <1>3, AvahiGrows DEF L!discovery_step, IInv, L!TypeOK, AvahiOK
  <2>3. L!TypeOK'
    BY <2>1, <2>2 DEF IInv, L!TypeOK, AvahiOK
  <2>4. UpIsKnown' /\ UsersInv'
    BY <1>1, <2>1 DEF IInv, UpIsKnown, UsersInv, Missing, Started
  <2> QED
    BY <2>3, <2>4 DEF IInv
<1>4. CASE L!discovery_returns
  <2>1. /\ UNCHANGED <<stopping, phase, keep_running, avahi, active, queued, thread>>
        /\ at' = 7 /\ discovery_enabled' = (avahi = L!AvahiSteps)
        /\ up' = IF discovery_enabled' THEN up \cup {"discovery"} ELSE up
    <3>1. at' = 7
      BY <1>1, <1>4 DEF L!discovery_returns, L!Following
    <3> QED
      BY <1>4, <3>1, Zenon DEF L!discovery_returns, L!workVars
  <2>2. L!TypeOK'
    BY <2>1, PartsAre DEF IInv, L!TypeOK
  <2>3. Started' = Started \cup {"discovery"}
    BY <1>1, <2>1, PartsAre DEF Started
  <2>4. up' = Started' \ Missing'
    BY <1>1, <1>2, <2>1, <2>3 DEF Missing
  <2>5. UpIsKnown'
    BY <1>1, <2>1, <2>4 DEF UpIsKnown
  <2>6. UsersInv'
    BY <1>1, <2>1 DEF IInv, UsersInv
  <2> QED
    BY <2>2, <2>5, <2>6 DEF IInv
<1> QED
  BY <1>3, <1>4

\* Requests, the thread and the signal.
LEMMA WorkKeeps == ASSUME L!ParametersOK, IInv, L!Work \/ L!sigint_handler PROVE IInv'
<1>1. UNCHANGED <<at, stopping, phase, up, avahi, discovery_enabled>>
  BY DEF L!Work, L!request_starts, L!request_enqueues, L!request_ends, L!worker_takes, L!worker_done,
         L!sigint_handler, L!mainVars, L!discoveryVars
<1>2. UpIsKnown'
  BY <1>1 DEF IInv, UpIsKnown, Started, Missing
<1>3. L!TypeOK'
  <2>1. keep_running' \in BOOLEAN
    BY Zenon DEF IInv, L!TypeOK, L!Work, L!request_starts, L!request_enqueues, L!request_ends, L!worker_takes,
                 L!worker_done, L!sigint_handler
  <2>2. active' \subseteq Requests
    BY DEF IInv, L!TypeOK, L!Work, L!request_starts, L!request_enqueues, L!request_ends, L!worker_takes,
           L!worker_done, L!sigint_handler, L!workVars
  <2>3. queued' \in 0 .. MaxJobs
    BY DEF IInv, L!TypeOK, L!ParametersOK, L!Work, L!request_starts, L!request_enqueues, L!request_ends,
           L!worker_takes, L!worker_done, L!sigint_handler, L!workVars
  <2>4. thread' \in {"none", "waiting", "sending"}
    BY DEF IInv, L!TypeOK, L!Work, L!request_starts, L!request_enqueues, L!request_ends, L!worker_takes,
           L!worker_done, L!sigint_handler, L!workVars
  <2> QED
    BY <1>1, <2>1, <2>2, <2>3, <2>4, Zenon DEF IInv, L!TypeOK
<1>4. UsersInv'
  BY <1>1, UpWithNeeds
  DEF IInv, L!TypeOK, L!ParametersOK, UsersInv, L!Work, L!request_starts, L!request_enqueues, L!request_ends,
      L!worker_takes, L!worker_done, L!sigint_handler, L!workVars, L!Accepts
<1> QED
  BY <1>2, <1>3, <1>4 DEF IInv

\* Stopping.
LEMMA StopKeeps ==
    ASSUME L!ParametersOK, IInv, L!loop_ends \/ L!stop_part \/ L!main_returns PROVE IInv'
<1>1. CASE L!loop_ends
  <2>1. /\ UNCHANGED <<at, keep_running, up, avahi, discovery_enabled, active, queued, thread>>
        /\ stopping' = L!AtEnd /\ phase' = "stopping" /\ up = L!Parts \ Missing
    BY <1>1 DEF L!loop_ends, L!discoveryVars, L!workVars, IInv, UpIsKnown
  <2>2. stopping' \in Remaining /\ stopping' \in Seq(L!Parts) /\ L!Range(stopping') = L!Parts
    BY <2>1, EndStops, RestOf
  <2>3. L!TypeOK'
    BY <2>1, <2>2 DEF IInv, L!TypeOK, L!Phases
  <2>4. UpIsKnown' /\ UsersInv'
    BY <2>1, <2>2 DEF IInv, UpIsKnown, UsersInv, Missing
  <2> QED
    BY <2>3, <2>4 DEF IInv
<1>2. CASE L!stop_part
  <2> DEFINE part == Head(stopping)
  <2>1. /\ stopping \in Remaining /\ stopping # << >> /\ up = L!Range(stopping) \ Missing
        /\ phase = "stopping" /\ L!StopReturns(part)
    BY <1>2 DEF L!stop_part, IInv, UpIsKnown
  <2>2. /\ UNCHANGED <<at, phase, keep_running, discovery_enabled, active, queued>>
        /\ up' = up \ {part} /\ stopping' = Tail(stopping)
        /\ avahi' = IF part = "discovery" /\ discovery_enabled THEN << >> ELSE avahi
        /\ thread' = IF part = "queue" THEN "none" ELSE thread
    BY <1>2 DEF L!stop_part
  <2>3. /\ stopping' \in Remaining /\ L!Range(stopping') = L!Range(stopping) \ {part}
        /\ stopping' \in Seq(L!Parts) /\ part \in L!Parts /\ part \in L!Range(stopping)
    BY <2>1, <2>2, RestOf
  <2>4. AvahiOK'
    BY <2>2, NoAvahi DEF IInv, L!TypeOK, AvahiOK
  <2>5. L!TypeOK'
    BY <2>2, <2>3, <2>4 DEF IInv, L!TypeOK, AvahiOK
  <2>6. UpIsKnown'
    BY <2>1, <2>2, <2>3 DEF UpIsKnown, Missing
  <2>7. /\ part = "server" => active = {}
        /\ part = "queue" => queued = 0 /\ thread # "sending"
    BY <2>1 DEF L!StopReturns
  <2>8. /\ part = "queue" => "queue" \in up
        /\ part = "discovery" /\ discovery_enabled => "discovery" \in up
    BY <2>1, <2>3 DEF Missing
  <2>9. UsersInv'
    BY <2>2, <2>7, <2>8 DEF IInv, UsersInv, L!TypeOK
  <2> QED
    BY <2>5, <2>6, <2>9 DEF IInv
<1>3. CASE L!main_returns
  <2>1. /\ UNCHANGED <<at, stopping, keep_running, up, avahi, discovery_enabled, active, queued, thread>>
        /\ phase' = "exited" /\ stopping = << >> /\ stopping \in Remaining
        /\ up = L!Range(stopping) \ Missing
    BY <1>3 DEF L!main_returns, L!discoveryVars, L!workVars, IInv, UpIsKnown
  <2>2. up = {}
    BY <2>1, RestOf
  <2>3. L!TypeOK'
    BY <2>1 DEF IInv, L!TypeOK, L!Phases
  <2>4. UpIsKnown' /\ UsersInv'
    BY <2>1, <2>2 DEF IInv, UpIsKnown, UsersInv
  <2> QED
    BY <2>3, <2>4 DEF IInv
<1> QED
  BY <1>1, <1>2, <1>3

\* The inductive invariant holds in every state of the specification.
LEMMA Invariance == ASSUME L!ParametersOK PROVE L!Spec => []IInv
<1>1. L!Init => IInv
  BY InitIInv
<1>2. IInv /\ [L!Next]_(L!vars) => IInv'
  <2>1. ASSUME IInv, UNCHANGED L!vars PROVE IInv'
    BY <2>1
    DEF L!vars, L!mainVars, L!discoveryVars, L!workVars, IInv, L!TypeOK, UpIsKnown, UsersInv, Started, Missing
  <2>2. ASSUME IInv, L!Next PROVE IInv'
    BY <2>2, StartKeeps, DiscoveryKeeps, StopKeeps, WorkKeeps DEF L!Next, L!Main
  <2> QED
    BY <2>1, <2>2
<1> QED
  BY <1>1, <1>2, PTL DEF L!Spec
-----------------------------------------------------------------------------
\* TypeOK of the process: among others, discovery_init does its steps in order.
THEOREM TypeCorrect == ASSUME L!ParametersOK PROVE L!Spec => []L!TypeOK
<1>1. IInv => L!TypeOK
  BY DEF IInv
<1> QED
  BY <1>1, Invariance, PTL

\* UsedIsUp: main stops every part before the parts that it uses, whichever start
\* failed, and waits for its users first.
THEOREM NothingDeadIsUsed == L!Spec => []UsedIsUp
<1>1. IInv => L!UsedIsUp
  BY UpWithNeeds DEF IInv, UsersInv, L!UsedIsUp
<1> QED
  BY <1>1, Invariance, ParametersAssumption, PTL DEF UsedIsUp

\* ExitIsClean: each way out of main stops what was started, and no accepted job
\* is left.
THEOREM ExitsAreClean == L!Spec => []ExitIsClean
<1>1. IInv => L!ExitIsClean
  BY DEF IInv, L!TypeOK, L!ParametersOK, UpIsKnown, UsersInv, L!ExitIsClean
<1> QED
  BY <1>1, Invariance, ParametersAssumption, PTL DEF ExitIsClean
-----------------------------------------------------------------------------
(* The run.                                                                *)

\* What is proved of the process, here, and of the queue, in TransferQueueProofs,
\* holds of the specification that TLC checks: to each the other's steps are
\* stutters.
LEMMA EndsParts == EndsSpec => Spec /\ L!Spec
<1>1. EndsInit => Init /\ L!Init
  BY DEF EndsInit
<1>2. [EndsNext]_<<about, vars, processVars>> => [Next]_vars /\ [L!Next]_(L!vars)
  BY DEF EndsNext, processVars, L!vars, L!mainVars, L!discoveryVars, L!workVars
<1> QED
  BY <1>1, <1>2, PTL DEF EndsSpec, Spec, L!Spec
===============================================================================
