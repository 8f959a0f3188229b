-------------------------------- MODULE MCPeers --------------------------------
(***************************************************************************)
(* How a node comes to its peers, for TLC: PeerRegistry, the list of one   *)
(* node, and Pairing, the tokens of two.  Each abstracts from the other    *)
(* (Pairing from what happens to a listed peer, PeerRegistry from how a    *)
(* pairing comes to succeed or fail),                                      *)
(* so that a behaviour exercises one of them, chosen at its start.         *)
(***************************************************************************)
EXTENDS PeerRegistry, TLC

CONSTANTS
    s1, s2, s3, n1, n2,
    Nodes, a, b, Offset, TokenTTL, MaxPairings, MaxRestarts, MaxTime

VARIABLES about, now, pairings, held, entry, paired, job, restarts

\* Two interfaces of one node, and a node with our own name.
TwoAndOurs == (s1 :> n1) @@ (s2 :> n1) @@ (s3 :> n2)

\* The clock of one node is ahead.
OneAhead == (a :> 1) @@ (b :> 0)

P == INSTANCE Pairing

ASSUME ParametersAssumption == P!ParametersOK

pairingVars == <<now, pairings, held, entry, paired, job, restarts>>

PeersInit == about \in {"registry", "pairing"} /\ Init /\ P!Init

PeersNext ==
    /\ UNCHANGED about
    /\ \/ about = "registry" /\ Next /\ UNCHANGED pairingVars
       \/ about = "pairing" /\ P!Next /\ UNCHANGED vars

\* Nothing that Fairness speaks of is enabled in the part that was not chosen.
PeersSpec == PeersInit /\ [][PeersNext]_<<about, vars, pairingVars>> /\ Fairness /\ P!Fairness
-----------------------------------------------------------------------------
(* The properties of Pairing, as this module sees them.                    *)

\* After a success both nodes hold its token unless pairings overlapped, and list
\* each other as paired, but for what two ignored results of full tables leave out.
SuccessIsMutual == P!SuccessIsMutual
\* A queued file is refused for its token only for one of the listed reasons.
RefusedForReason == P!RefusedForReason
\* Every pairing ends.
PairingEnds == P!PairingEnds
================================================================================
