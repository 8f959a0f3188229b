------------------------------ MODULE MCShutdown ------------------------------
(***************************************************************************)
(* What must come to an end, for TLC: the jobs of the queue and its        *)
(* shutdown (TransferQueue), and the process with all its parts            *)
(* (Lifecycle, which sees of the queue only whether it is drained).  A     *)
(* behaviour exercises one of them, chosen at its start.                   *)
(***************************************************************************)
EXTENDS TransferQueue

VARIABLES
    about,
    at, stopping, phase, keep_running, up, avahi, discovery_enabled, active, queued, thread

L == INSTANCE Lifecycle WITH worker <- thread

ASSUME ParametersAssumption == L!ParametersOK

processVars ==
    <<at, stopping, phase, keep_running, up, avahi, discovery_enabled, active, queued, thread>>

EndsInit == about \in {"queue", "process"} /\ Init /\ L!Init

EndsNext ==
    /\ UNCHANGED about
    /\ \/ about = "queue" /\ Next /\ UNCHANGED processVars
       \/ about = "process" /\ L!Next /\ UNCHANGED vars

EndsSpec ==
    /\ EndsInit /\ [][EndsNext]_<<about, vars, processVars>>
    /\ about = "queue" => Fairness
    /\ about = "process" => L!Fairness
-----------------------------------------------------------------------------
(* The properties of Lifecycle, as this module sees them.                  *)

\* Nobody uses a part that is not up.
UsedIsUp == L!UsedIsUp
\* Everything that was started is stopped again and no accepted job is left.
ExitIsClean == L!ExitIsClean
\* SIGINT ends the process.
InterruptEnds == L!InterruptEnds
===============================================================================
