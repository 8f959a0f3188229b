----------------------------- MODULE PeerRegistry -----------------------------
(***************************************************************************)
(* The registry of peers (src/peer_registry.c), the Avahi callbacks that   *)
(* fill it (src/discovery.c) and the requests that use it (src/server.c).  *)
(* A registry function holds registry_lock, so a call of one is a step;    *)
(* a request takes several.                                                *)
(*                                                                         *)
(* Avahi is external.  A service is one announcement of a node, on one     *)
(* interface and protocol; a node may have several under one name.  The    *)
(* browser reports in order that services come and go.  For a service that *)
(* came a resolver is started, which some time later reports the address   *)
(* it found, or fails; it may still report a service that has gone.        *)
(*                                                                         *)
(* last_seen is only displayed and is left out.                            *)
(***************************************************************************)
EXTENDS Integers, Sequences, FiniteSets

CONSTANTS
    Services,
    Names,       \* service names, and the names that peers send when pairing
    NameOf,      \* the name of each service
    LocalName,   \* local_device_name
    Endpoints,   \* address and port
    Nil,
    Requests,    \* request threads
    MaxPeers,    \* PEER_REGISTRY_MAX_PEERS
    MaxChanges   \* bound on the changes on the network and the requests together

ASSUME SetsAssumption ==
    /\ NameOf \in [Services -> Names]
    /\ LocalName \in Names
    /\ Nil \notin Endpoints /\ Nil \notin [name : Names, active : BOOLEAN, paired : BOOLEAN]
ASSUME NumbersAssumption == MaxPeers \in Nat \ {0} /\ MaxChanges \in Nat

Slots == 0 .. MaxPeers - 1

VARIABLES
    registry, registry_count,
    address,    \* the endpoint at which each service is announced, or Nil
    changes,    \* number of changes on the network and of requests so far
    events,     \* browser events that are not handled yet, in order
    resolvers,  \* running resolvers and what they found
    req,        \* where each request thread is, with which endpoint
    ghosts,     \* (history) endpoints online without an announcement behind them
    excused,    \* (history) services that need not be online
    refused     \* (history) endpoints that found the table full

tableVars   == <<registry, registry_count>>
networkVars == <<address, changes>>
avahiVars   == <<events, resolvers>>
historyVars == <<ghosts, excused, refused>>
vars == <<tableVars, networkVars, avahiVars, req, historyVars>>

\* PeerInfo.
Peer == [name : Names, peer : Endpoints, active : BOOLEAN, paired : BOOLEAN]

Event == [kind : {"new", "remove"}, service : Services]
\* A service that is announced again while its resolver is still at work gets
\* another one, with another n.
Resolver == [service : Services, n : 1 .. MaxChanges, found : Endpoints \cup {Nil}]
RequestState == [at : {"idle", "added", "pairing", "exchanged", "paired"},
                 peer : Endpoints \cup {Nil}]
Idle == [at |-> "idle", peer |-> Nil]
-----------------------------------------------------------------------------
(* The functions of the registry.                                          *)

Mut_used_misses_last == 0 .. registry_count - 2
\* The part of the table that the scans look at.
Used == 0 .. registry_count - 1

\* The entry that a scan for an endpoint stops at.
Finds(i, e) ==
    /\ i \in Used /\ registry[i].peer = e
    /\ \A j \in 0 .. i - 1 : registry[j].peer # e
IsListed(e) == \E i \in Slots : Finds(i, e)
Online(e) == \E i \in Slots : Finds(i, e) /\ registry[i].active

Mut_seen_again_unpaired(i, n) ==
    [name |-> n, peer |-> registry[i].peer, active |-> TRUE, paired |-> FALSE]
\* What a peer that is seen again looks like.
SeenAgain(i, n) ==
    [name |-> n, peer |-> registry[i].peer, active |-> TRUE, paired |-> registry[i].paired]

HasRoom == registry_count < MaxPeers
Full(e) == ~IsListed(e) /\ registry_count >= MaxPeers

\* peer_registry_add_or_update returns 0.
peer_registry_add_or_update(n, e) ==
    \/ \E i \in Slots :
         /\ Finds(i, e)
         /\ registry' = [registry EXCEPT ![i] = SeenAgain(i, n)]
         /\ UNCHANGED registry_count
    \/ /\ ~IsListed(e) /\ HasRoom
       /\ registry' = [registry EXCEPT ![registry_count] =
              [name |-> n, peer |-> e, active |-> TRUE, paired |-> FALSE]]
       /\ registry_count' = registry_count + 1

Mut_named_first(n) ==
    {i \in Used : registry[i].name = n /\ \A j \in 0 .. i - 1 : registry[j].name # n}
\* The entries with a name.
Named(n) == {i \in Used : registry[i].name = n}

peer_registry_mark_inactive(n) ==
    /\ registry' = [i \in Slots |->
           IF i \in Named(n) THEN [registry[i] EXCEPT !.active = FALSE] ELSE registry[i]]
    /\ UNCHANGED registry_count

\* peer_registry_set_paired(e, 1); it returns -1 if e is not listed.
peer_registry_set_paired(e) ==
    /\ \/ \E i \in Slots :
            Finds(i, e) /\ registry' = [registry EXCEPT ![i] = [registry[i] EXCEPT !.paired = TRUE]]
       \/ ~IsListed(e) /\ UNCHANGED registry
    /\ UNCHANGED registry_count
-----------------------------------------------------------------------------
(* The network.                                                            *)

Changed == changes < MaxChanges /\ changes' = changes + 1

\* A service is announced at e, or is withdrawn.
announce(s, e) ==
    /\ Changed
    /\ address[s] = Nil
    /\ address' = [address EXCEPT ![s] = e]
    /\ events' = Append(events, [kind |-> "new", service |-> s])
    /\ excused' = excused \ {s}
    /\ UNCHANGED <<tableVars, resolvers, req, ghosts, refused>>

withdraw(s) ==
    /\ Changed
    /\ address[s] # Nil
    /\ address' = [address EXCEPT ![s] = Nil]
    /\ events' = Append(events, [kind |-> "remove", service |-> s])
    /\ UNCHANGED <<tableVars, resolvers, req, historyVars>>

\* A node gets another address; its service stays, so the browser is silent.
\* What is listed at the old address may stay so.
move(s, e) ==
    /\ Changed
    /\ address[s] \notin {Nil, e}
    /\ address' = [address EXCEPT ![s] = e]
    /\ excused' = excused \cup {s}
    /\ ghosts' = ghosts \cup {address[s]}
    /\ UNCHANGED <<tableVars, avahiVars, req, refused>>

\* A resolver finds the address of its service.
resolver_looks(r) ==
    /\ r \in resolvers /\ r.found = Nil /\ address[r.service] # Nil
    /\ resolvers' = (resolvers \ {r}) \cup {[r EXCEPT !.found = address[r.service]]}
    /\ UNCHANGED <<tableVars, networkVars, events, req, historyVars>>
-----------------------------------------------------------------------------
(* The callbacks, run by discovery_poll in the main thread.                *)

\* The least number that no resolver of s has.
Fresh(s, k) ==
    LET used == {r.n : r \in {q \in resolvers : q.service = s}} IN
    k \notin used /\ 1 .. k - 1 \subseteq used

Mut_starts_for_unknown_name(s) ==
    {[service |-> s, n |-> k, found |-> Nil] : k \in
        {k \in 1 .. MaxChanges : Fresh(s, k) /\ Named(NameOf[s]) = {} /\ NameOf[s] # LocalName}}
\* The resolver started for the service that came: none for our own.
Starts(s) ==
    {[service |-> s, n |-> k, found |-> Nil] : k \in
        {k \in 1 .. MaxChanges : Fresh(s, k) /\ NameOf[s] # LocalName}}

browse_new ==
    /\ events # << >> /\ Head(events).kind = "new"
    /\ events' = Tail(events)
    /\ resolvers' = resolvers \cup Starts(Head(events).service)
    /\ UNCHANGED <<tableVars, networkVars, req, historyVars>>

\* The service t will be seen where it is: an event or a resolver is under way.
Underway(t) ==
    \/ \E i \in 2 .. Len(events) : events[i].kind = "new" /\ events[i].service = t
    \/ \E r \in resolvers : r.service = t /\ r.found \in {Nil, address[t]}

\* All peers of that name are marked, whichever of its services went.
browse_remove ==
    /\ events # << >> /\ Head(events).kind = "remove"
    /\ LET s == Head(events).service
           hit == {registry[i].peer : i \in Named(NameOf[s])} IN
       /\ IF NameOf[s] = LocalName THEN UNCHANGED <<tableVars, ghosts, excused>>
          ELSE /\ peer_registry_mark_inactive(NameOf[s])
               /\ ghosts' = ghosts \ hit
               /\ excused' = excused \cup {t \in Services : address[t] \in hit /\ ~Underway(t)}
    /\ events' = Tail(events)
    /\ UNCHANGED <<networkVars, resolvers, req, refused>>

\* What a resolver reports is still so, or the callback that ends it is to come.
NotLate(r) ==
    \/ address[r.service] = r.found
    \/ \E i \in DOMAIN events : events[i].kind = "remove" /\ events[i].service = r.service

\* AVAHI_RESOLVER_FOUND.
resolve_found(r) ==
    /\ r \in resolvers /\ r.found # Nil
    /\ resolvers' = resolvers \ {r}
    /\ \/ /\ peer_registry_add_or_update(NameOf[r.service], r.found)
          /\ ghosts' = IF NotLate(r) THEN ghosts ELSE ghosts \cup {r.found}
          /\ UNCHANGED <<excused, refused>>
       \/ /\ Full(r.found)
          /\ excused' = excused \cup {r.service}
          /\ refused' = refused \cup {r.found}
          /\ UNCHANGED <<tableVars, ghosts>>
    /\ UNCHANGED <<networkVars, events, req>>

\* AVAHI_RESOLVER_FAILURE: nobody tries again.
resolve_failed(r) ==
    /\ r \in resolvers
    /\ resolvers' = resolvers \ {r}
    /\ excused' = excused \cup {r.service}
    /\ UNCHANGED <<tableVars, networkVars, events, req, ghosts, refused>>
-----------------------------------------------------------------------------
(* The requests.                                                           *)

Goto(r, at, e) == req' = [req EXCEPT ![r] = [at |-> at, peer |-> e]]

\* /api/pair/exchange, after the token was issued: the endpoint is listed,
\* then marked as paired.  The result of neither call is looked at.
exchange_add(r, n, e) ==
    /\ Changed
    /\ req[r].at = "idle"
    /\ Goto(r, "added", e)
    /\ \/ /\ peer_registry_add_or_update(n, e)
          /\ ghosts' = ghosts \cup {e} /\ UNCHANGED refused
       \/ /\ Full(e)
          /\ refused' = refused \cup {e} /\ UNCHANGED <<tableVars, ghosts>>
    /\ UNCHANGED <<address, avahiVars, excused>>

exchange_set_paired(r) ==
    /\ req[r].at = "added"
    /\ peer_registry_set_paired(req[r].peer)
    /\ Goto(r, "exchanged", req[r].peer)
    /\ UNCHANGED <<networkVars, avahiVars, historyVars>>

\* /api/pair looks the target up, asks it without a lock, and marks it.
pair_find(r, e) ==
    /\ Changed
    /\ req[r].at = "idle"
    /\ Online(e)
    /\ Goto(r, "pairing", e)
    /\ UNCHANGED <<tableVars, address, avahiVars, historyVars>>

pair_refused(r) ==
    /\ req[r].at = "pairing"
    /\ req' = [req EXCEPT ![r] = Idle]
    /\ UNCHANGED <<tableVars, networkVars, avahiVars, historyVars>>

pair_set_paired(r) ==
    /\ req[r].at = "pairing"
    /\ peer_registry_set_paired(req[r].peer)
    /\ Goto(r, "paired", req[r].peer)
    /\ UNCHANGED <<networkVars, avahiVars, historyVars>>

\* /api/send lets a file go to e; that there is a token is Pairing's business.
validate_target_peer(e) ==
    \E i \in Slots : Finds(i, e) /\ registry[i].active /\ registry[i].paired

answered(r) ==
    /\ req[r].at \in {"exchanged", "paired"}
    /\ req' = [req EXCEPT ![r] = Idle]
    /\ UNCHANGED <<tableVars, networkVars, avahiVars, historyVars>>
-----------------------------------------------------------------------------
NoPeer == [name |-> Nil, peer |-> Nil, active |-> FALSE, paired |-> FALSE]

\* peer_registry_init, discovery_init.
Init ==
    /\ registry = [i \in Slots |-> NoPeer] /\ registry_count = 0
    /\ address = [s \in Services |-> Nil] /\ changes = 0
    /\ events = << >> /\ resolvers = {}
    /\ req = [r \in Requests |-> Idle]
    /\ ghosts = {} /\ excused = {} /\ refused = {}

discovery_poll ==
    \/ browse_new
    \/ browse_remove
    \/ \E r \in resolvers : resolve_found(r) \/ resolve_failed(r)

Network ==
    \E s \in Services :
        \/ \E e \in Endpoints : announce(s, e) \/ move(s, e)
        \/ withdraw(s)

Handlers ==
    \E r \in Requests :
        \/ \E e \in Endpoints : pair_find(r, e) \/ \E n \in Names : exchange_add(r, n, e)
        \/ exchange_set_paired(r)
        \/ pair_refused(r)
        \/ pair_set_paired(r)
        \/ answered(r)

Next ==
    \/ Network
    \/ \E r \in resolvers : resolver_looks(r)
    \/ discovery_poll
    \/ Handlers

Spec == Init /\ [][Next]_vars

\* The main loop keeps polling, and Avahi answers every resolver.
Fairness ==
    /\ WF_vars(\E r \in resolvers : resolver_looks(r))
    /\ WF_vars(discovery_poll)
-----------------------------------------------------------------------------
(* Properties.                                                             *)

TypeOK ==
    /\ registry \in [Slots -> Peer \cup {NoPeer}]
    /\ registry_count \in 0 .. MaxPeers
    /\ \A i \in Slots : i < registry_count <=> registry[i] # NoPeer
    /\ address \in [Services -> Endpoints \cup {Nil}]
    /\ changes \in 0 .. MaxChanges
    /\ events \in Seq(Event)
    /\ resolvers \subseteq Resolver
    /\ req \in [Requests -> RequestState]
    /\ ghosts \subseteq Endpoints /\ excused \subseteq Services /\ refused \subseteq Endpoints

\* No endpoint is listed twice, although each caller of the registry scans the
\* table, and another may have listed the endpoint since the caller last looked.
UniqueEntry ==
    \A i, j \in Slots :
        registry[i] # NoPeer /\ registry[j] # NoPeer /\ registry[i].peer = registry[j].peer => i = j

\* What the scans make of the table: for each endpoint the entry they stop at.
EntryOf(p) == [name |-> p.name, active |-> p.active, paired |-> p.paired]
DirectoryView ==
    [e \in Endpoints |->
        IF \E i \in Slots : registry[i].peer = e
        THEN EntryOf(registry[CHOOSE j \in Slots : Finds(j, e)]) ELSE Nil]

\* The table and its linear scans implement a directory: no interleaving of
\* callbacks and requests loses, unpairs or renames an endpoint, leaves a peer of
\* a removed name online, or turns an endpoint away that is listed or that there
\* is room for.
Directory == INSTANCE PeerDirectory WITH directory <- DirectoryView
ImplementsDirectory == Directory!Spec

\* When no event of the browser is outstanding, a peer that is online is
\* announced, or one of three things happened to it since it was last offline: it
\* paired with us, its resolver reported it after its removal, or it moved away.
OnlineIsAnnounced ==
    events = << >> =>
        \A e \in Endpoints : Online(e) => e \in ghosts \/ \E s \in Services : address[s] = e

\* A service that stays on the network comes online and stays so, unless its
\* resolver failed, the table was full, the node moved, or another service of its
\* name was removed after it had come online: no order of events loses a peer
\* otherwise.  In particular one that is withdrawn and announced again does, and
\* one whose resolver is at work while another service of its name goes.
AnnouncedComesOnline ==
    \A s \in Services :
        NameOf[s] # LocalName =>
            (<>[](address[s] # Nil /\ s \notin excused) =>
             <>[](address[s] # Nil /\ Online(address[s])))
=============================================================================
