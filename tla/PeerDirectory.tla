---------------------------- MODULE PeerDirectory ----------------------------
(***************************************************************************)
(* What the peer registry promises: a directory with one entry per         *)
(* endpoint.  An endpoint that is seen is online under the name it was     *)
(* last seen with; when a name is gone, everything listed under it is      *)
(* offline; an endpoint that was paired stays paired.  The directory never *)
(* forgets an endpoint, and turns one away only when it is full of others. *)
(***************************************************************************)
EXTENDS Integers, FiniteSets

CONSTANTS Names, Endpoints, Nil, MaxPeers

VARIABLES
    directory,
    refused    \* the endpoints that were turned away

Entry == [name : Names, active : BOOLEAN, paired : BOOLEAN]
Listed == {e \in Endpoints : directory[e] # Nil}

Seen(n, e) ==
    /\ directory[e] # Nil \/ Cardinality(Listed) < MaxPeers
    /\ directory' = [directory EXCEPT ![e] =
           [name |-> n, active |-> TRUE, paired |-> directory[e] # Nil /\ directory[e].paired]]
    /\ UNCHANGED refused

Refused(e) ==
    /\ directory[e] = Nil /\ Cardinality(Listed) >= MaxPeers
    /\ refused' = refused \cup {e}
    /\ UNCHANGED directory

Gone(n) ==
    /\ directory' = [e \in Endpoints |->
           IF e \in Listed /\ directory[e].name = n
           THEN [directory[e] EXCEPT !.active = FALSE] ELSE directory[e]]
    /\ UNCHANGED refused

Paired(e) ==
    /\ directory[e] # Nil
    /\ directory' = [directory EXCEPT ![e].paired = TRUE]
    /\ UNCHANGED refused

Init == directory = [e \in Endpoints |-> Nil] /\ refused = {}

Next ==
    \/ \E n \in Names, e \in Endpoints : Seen(n, e)
    \/ \E n \in Names : Gone(n)
    \/ \E e \in Endpoints : Paired(e) \/ Refused(e)

Spec == Init /\ [][Next]_<<directory, refused>>
=============================================================================
