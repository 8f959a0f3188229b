------------------------------ MODULE JobQueue ------------------------------
(***************************************************************************)
(* What the transfer queue promises, without slots, rings, locks, files or *)
(* time: accepted jobs are served one at a time, in the order in which     *)
(* they were accepted; each ends as completed or failed; only a job that   *)
(* has ended, or all jobs when the process ends, may be forgotten.         *)
(***************************************************************************)
EXTENDS Sequences

CONSTANT Requests

VARIABLES
    state,  \* of the job of each request
    line    \* the jobs that wait, first come first

jvars == <<state, line>>

\* The requests whose job is in one of the states S.
In(S) == {r \in Requests : state[r] \in S}

Init ==
    /\ state = [r \in Requests |-> "none"]
    /\ line = <<>>

\* state with the jobs of G forgotten.
Forgetting(G) == [r \in Requests |-> IF r \in G THEN "forgotten" ELSE state[r]]

\* Jobs that have ended may be forgotten when another request is accepted ...
Accept(r) ==
    /\ state[r] = "none"
    /\ \E G \in SUBSET In({"completed", "failed"}) :
         state' = [Forgetting(G) EXCEPT ![r] = "queued"]
    /\ line' = Append(line, r)

\* ... or refused.
Refuse ==
    /\ \E G \in SUBSET In({"completed", "failed"}) : state' = Forgetting(G)
    /\ UNCHANGED line

Serve ==
    /\ line # <<>>
    /\ In({"in_progress"}) = {}
    /\ state' = [state EXCEPT ![Head(line)] = "in_progress"]
    /\ line' = Tail(line)

End(r) ==
    /\ state[r] = "in_progress"
    /\ \E outcome \in {"completed", "failed"} : state' = [state EXCEPT ![r] = outcome]
    /\ UNCHANGED line

\* The process ends.
Stop ==
    /\ state' = Forgetting(Requests \ In({"none"}))
    /\ line' = <<>>

Next ==
    \/ \E r \in Requests : Accept(r) \/ End(r)
    \/ Refuse
    \/ Serve
    \/ Stop

Spec == Init /\ [][Next]_jvars

\* The line keeps moving.
FairSpec == Spec /\ WF_jvars(Serve) /\ \A r \in Requests : WF_jvars(End(r))
=============================================================================
