--------------------------------- MODULE MCUi ---------------------------------
(***************************************************************************)
(* The page of src/ui.c for TLC: the session of a tab (WebClient) and its  *)
(* send dialog (SendDialog).  They share nothing but the page, so that a   *)
(* behaviour exercises one of them, chosen at its start.                   *)
(***************************************************************************)
EXTENDS WebClient

CONSTANTS Devices, Files, Nil, MaxRequests

VARIABLES about, selectedDevice, value, dialog, requests, sent, cleared, last

D == INSTANCE SendDialog

ASSUME ParametersAssumption == ParametersOK /\ D!ParametersOK

dialogVars == <<selectedDevice, value, dialog, requests, sent, cleared, last>>

UiInit == about \in {"session", "dialog"} /\ Init /\ D!Init

UiNext ==
    /\ UNCHANGED about
    /\ \/ about = "session" /\ Next /\ UNCHANGED dialogVars
       \/ about = "dialog" /\ D!Next /\ UNCHANGED vars

UiSpec == UiInit /\ [][UiNext]_<<about, vars, dialogVars>> /\ Fairness
-----------------------------------------------------------------------------
(* The property of SendDialog, as this module sees it.                     *)

\* A file goes to the device that was clicked for it, or for a reason nowhere.
SentWhereClicked == D!SentWhereClicked
===============================================================================
