---------------------------- MODULE MCDiscovered ----------------------------
(***************************************************************************)
(* PeerRegistry for TLC, with a record of the endpoints that discovery     *)
(* found: those that a resolver ever had when it ended.                    *)
(***************************************************************************)
EXTENDS PeerRegistry, TLC

CONSTANTS s1, n1

VARIABLE discovered   \* (history)

OneName == s1 :> n1

DiscoveredInit == Init /\ discovered = {}

DiscoveredNext ==
    /\ Next
    /\ discovered' = discovered \cup ({r.found : r \in resolvers \ resolvers'} \ {Nil})

DiscoveredSpec == DiscoveredInit /\ [][DiscoveredNext]_<<vars, discovered>>

\* docs/wiki/API.md:190, "Remote sends are only allowed to active discovered peers
\* that are already paired": whom /api/send lets a file go to, discovery has found.
SendsOnlyToDiscovered ==
    \A e \in Endpoints : validate_target_peer(e) => e \in discovered
=============================================================================
