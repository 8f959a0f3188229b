------------------------------ MODULE SendDialog ------------------------------
(***************************************************************************)
(* Sending a file from the page (src/ui.c): the button of a device sets    *)
(* selectedDevice and opens the browser's file dialog; a file chosen there *)
(* fires the change listener, which waits for /api/send and then clears    *)
(* what it used, while the user may already be in the next dialog.         *)
(*                                                                         *)
(* The browser is external: a change event is fired only if the chosen     *)
(* file is not the one that the input holds already.                       *)
(***************************************************************************)
EXTENDS Integers

CONSTANTS
    Devices, Files, Nil,
    MaxRequests  \* bound on the files sent

\* What is assumed of the constants.
ParametersOK == Nil \notin Devices \cup Files /\ MaxRequests \in Nat

VARIABLES
    selectedDevice,
    value,     \* the file that sendFileInput holds
    dialog,    \* the device whose button opened the dialog
    requests,  \* what waits for the answer of /api/send
    sent,      \* number of requests so far
    cleared,   \* (history) an answer arrived since the dialog was opened
    last       \* (history) the file chosen last, if no answer arrived since

vars == <<selectedDevice, value, dialog, requests, sent, cleared, last>>

Mut_selects_if_none(d) == IF selectedDevice = Nil THEN d ELSE selectedDevice
\* The device that a click on the button of d selects.
Selected(d) == d

click(d) ==
    /\ dialog = Nil
    /\ selectedDevice' = Selected(d)
    /\ dialog' = d
    /\ cleared' = FALSE
    /\ UNCHANGED <<value, requests, sent, last>>

\* Some browsers empty the input; the listener returns without a file.
cancel ==
    /\ dialog # Nil
    /\ dialog' = Nil
    /\ value' \in {value, Nil}
    /\ UNCHANGED <<selectedDevice, requests, sent, cleared, last>>

\* The listener runs, if at all, up to the fetch.
change(f) ==
    /\ dialog # Nil
    /\ dialog' = Nil
    /\ value' = f /\ last' = f
    /\ \/ /\ f # value /\ selectedDevice # Nil
          /\ sent < MaxRequests /\ sent' = sent + 1
          /\ requests' = requests \cup {[n |-> sent + 1, file |-> f, to |-> selectedDevice]}
       \/ (f = value \/ selectedDevice = Nil) /\ UNCHANGED <<sent, requests>>
    /\ UNCHANGED <<selectedDevice, cleared>>

Mut_keeps_the_file == value
\* What the input holds when the listener has come to its end.
AfterAnswer == Nil

\* The answer arrives and the listener goes on.
answered(r) ==
    /\ r \in requests
    /\ requests' = requests \ {r}
    /\ value' = AfterAnswer /\ selectedDevice' = Nil
    /\ cleared' = TRUE /\ last' = Nil
    /\ UNCHANGED <<dialog, sent>>

\* fetch throws: the listener ends there and clears nothing.
fetch_fails(r) ==
    /\ r \in requests
    /\ requests' = requests \ {r}
    /\ UNCHANGED <<selectedDevice, value, dialog, sent, cleared, last>>

Init ==
    /\ selectedDevice = Nil /\ value = Nil /\ dialog = Nil
    /\ requests = {} /\ sent = 0 /\ cleared = FALSE /\ last = Nil

Next ==
    \/ \E d \in Devices : click(d)
    \/ cancel
    \/ \E f \in Files : change(f)
    \/ \E r \in requests : answered(r) \/ fetch_fails(r)

Spec == Init /\ [][Next]_vars
-----------------------------------------------------------------------------
(* Properties.                                                             *)

\* The user chose f, and nothing was sent.
Dropped(f) == change(f) /\ requests' = requests

\* However late answers fall into the next dialog, a file is sent to the device
\* whose button the user clicked for it.  A chosen file goes unsent only if an
\* answer arrived while the dialog was open, or if it is the file chosen last and
\* no answer has arrived since.  The latter takes in the retry after a failed
\* connection: fetch throws before the listener empties the input, and choosing
\* the same file again fires no event.  After an answer, whatever its status, the
\* same file can be sent again, and a cancelled dialog loses none.
SentWhereClicked ==
    [][/\ \A r \in requests' \ requests : r.to = dialog
       /\ \A f \in Files : Dropped(f) => cleared \/ f = last]_vars
===============================================================================
