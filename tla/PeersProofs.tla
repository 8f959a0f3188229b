----------------------------- MODULE PeersProofs -----------------------------
(***************************************************************************)
(* Proofs about how a node comes to its peers: PeerRegistry implements     *)
(* PeerDirectory, and what is online is announced, for every network,      *)
(* every set of requests and every table size.                             *)
(***************************************************************************)
EXTENDS PeerRegistry, FiniteSetTheorems, TLAPS

\* The browser has yet to report that s is gone.
RemovalPending(s) == \E k \in DOMAIN events : events[k].kind = "remove" /\ events[k].service = s

\* A service of a name that is not our own stands behind a peer: it is announced
\* there, or its removal, which will mark the peer, is still to be handled.
HasService(i) ==
    \E s \in Services :
        /\ NameOf[s] = registry[i].name /\ NameOf[s] # LocalName
        /\ address[s] = registry[i].peer \/ RemovalPending(s)

\* It does so behind every peer that is online and no ghost.
OnlineHasService ==
    \A i \in Slots : registry[i].active /\ registry[i].peer \notin ghosts => HasService(i)

\* Resolvers are started for other names only.
ResolvesOthers == \A r \in resolvers : NameOf[r.service] # LocalName

\* The inductive invariant.
IInv == TypeOK /\ UniqueEntry /\ ResolvesOthers /\ OnlineHasService
-----------------------------------------------------------------------------
(* The table.                                                              *)

USE SetsAssumption, NumbersAssumption

\* What TypeOK says of the table.
TableOK ==
    /\ registry \in [Slots -> Peer \cup {NoPeer}]
    /\ registry_count \in 0 .. MaxPeers
    /\ \A i \in Slots : i < registry_count <=> registry[i] # NoPeer

\* An entry in use is a peer.
LEMMA EntryIsPeer ==
    ASSUME TableOK, NEW i \in Slots, registry[i] # NoPeer
    PROVE  registry[i] \in Peer /\ i \in Used
  BY DEF TableOK, Used, Slots

\* A scan finds an endpoint exactly where it is listed.
LEMMA ScanFinds ==
    ASSUME TableOK, UniqueEntry, NEW e \in Endpoints, NEW i \in Slots
    PROVE  Finds(i, e) <=> registry[i].peer = e
<1>1. ASSUME registry[i].peer = e PROVE Finds(i, e)
  <2>1. registry[i] # NoPeer
    BY <1>1 DEF NoPeer
  <2>2. i \in Used
    BY <2>1, EntryIsPeer
  <2>3. ASSUME NEW j \in 0 .. i - 1 PROVE registry[j].peer # e
    <3>1. j \in Slots /\ j # i
      BY <2>3 DEF Slots
    <3>2. registry[j] # NoPeer
      BY <2>2, <3>1, <2>3 DEF TableOK, Used, Slots
    <3> QED
      BY <1>1, <2>1, <3>1, <3>2 DEF UniqueEntry
  <2> QED
    BY <1>1, <2>2, <2>3 DEF Finds
<1> QED
  BY <1>1 DEF Finds

\* Hence the directory shows every entry as it is.
ViewIsTable ==
    \A e \in Endpoints :
        /\ \A i \in Slots :
             registry[i].peer = e =>
                DirectoryView[e] = EntryOf(registry[i])
        /\ (\A i \in Slots : registry[i].peer # e) => DirectoryView[e] = Nil

LEMMA ViewShowsTable == TableOK /\ UniqueEntry => ViewIsTable
<1> SUFFICES ASSUME TableOK, UniqueEntry, NEW e \in Endpoints
             PROVE  /\ \A i \in Slots :
                         registry[i].peer = e =>
                            DirectoryView[e] = EntryOf(registry[i])
                    /\ (\A i \in Slots : registry[i].peer # e) => DirectoryView[e] = Nil
  BY DEF ViewIsTable
<1>1. ASSUME NEW i \in Slots, registry[i].peer = e
      PROVE  DirectoryView[e] = EntryOf(registry[i])
  <2>1. \A j \in Slots : Finds(j, e) <=> j = i
    <3>1. registry[i] # NoPeer
      BY <1>1 DEF NoPeer
    <3>2. \A j \in Slots : Finds(j, e) <=> registry[j].peer = e
      BY ScanFinds
    <3>3. \A j \in Slots : registry[j].peer = e => registry[j] # NoPeer
      BY DEF NoPeer
    <3> QED
      BY <1>1, <3>1, <3>2, <3>3 DEF UniqueEntry
  <2>2. (CHOOSE j \in Slots : Finds(j, e)) = i
    BY <2>1
  <2> QED
    BY <1>1, <2>2, Zenon DEF DirectoryView
<1>2. (\A i \in Slots : registry[i].peer # e) => DirectoryView[e] = Nil
  BY DEF DirectoryView
<1> QED
  BY <1>1, <1>2

\* In the next state as well.
LEMMA ViewShowsTableNext == TableOK' /\ UniqueEntry' => ViewIsTable'
  BY ViewShowsTable, PTL

\* An entry of the directory is not Nil and tells what the peer was.
LEMMA EntryTells ==
    ASSUME NEW p \in Peer
    PROVE  /\ EntryOf(p) # Nil /\ EntryOf(p) \in Directory!Entry
           /\ EntryOf(p).name = p.name /\ EntryOf(p).active = p.active
           /\ EntryOf(p).paired = p.paired
  BY DEF EntryOf, Peer, Directory!Entry

\* Two directories that show the same are equal.
LEMMA ViewIsFunction ==
    /\ DirectoryView = [e \in Endpoints |-> DirectoryView[e]]
    /\ DirectoryView' = [e \in Endpoints |-> DirectoryView'[e]]
  BY DEF DirectoryView

\* The directory lists as many endpoints as the table.
LEMMA ListedFits ==
    ASSUME TableOK, UniqueEntry
    PROVE  Directory!Cardinality(Directory!Listed) = registry_count
<1> DEFINE Peers == {registry[i].peer : i \in Used}
<1>1. registry_count \in Nat /\ IsFiniteSet(Used) /\ Cardinality(Used) = registry_count
  <2>1. registry_count \in Nat
    BY DEF TableOK
  <2>2. /\ IsFiniteSet(0 .. registry_count - 1)
        /\ Cardinality(0 .. registry_count - 1) =
             IF 0 > registry_count - 1 THEN 0 ELSE registry_count - 1 - 0 + 1
    BY <2>1, FS_Interval
  <2> QED
    BY <2>1, <2>2 DEF Used
<1>2. \A i \in Used : i \in Slots /\ registry[i] # NoPeer /\ registry[i] \in Peer
  BY EntryIsPeer DEF TableOK, Used, Slots
<1>3. Cardinality(Peers) = Cardinality(Used)
  <2> DEFINE peerAt == [i \in Used |-> registry[i].peer]
  <2>1. peerAt \in Surjection(Used, Peers)
    BY DEF Surjection
  <2>2. peerAt \in Injection(Used, Peers)
    BY <1>2 DEF Injection, IsInjective, UniqueEntry
  <2>3. ExistsBijection(Used, Peers)
    BY <2>1, <2>2 DEF ExistsBijection, Bijection
  <2> QED
    BY <1>1, <2>3, FS_Bijection
<1>4. Directory!Listed = Peers
  <2>1. ASSUME NEW e \in Endpoints, DirectoryView[e] # Nil PROVE e \in Peers
    <3>1. PICK i \in Slots : registry[i].peer = e
      BY <2>1, ViewShowsTable DEF ViewIsTable
    <3>2. registry[i] # NoPeer
      BY <3>1 DEF NoPeer
    <3> QED
      BY <3>1, <3>2, EntryIsPeer
  <2>2. ASSUME NEW i \in Used PROVE registry[i].peer \in Endpoints /\ DirectoryView[registry[i].peer] # Nil
    <3>1. i \in Slots /\ registry[i] \in Peer /\ registry[i].peer \in Endpoints
      BY <1>2 DEF Peer
    <3>2. DirectoryView[registry[i].peer] = EntryOf(registry[i])
      BY <3>1, ViewShowsTable DEF ViewIsTable
    <3> QED
      BY <3>1, <3>2, EntryTells
  <2> QED
    BY <2>1, <2>2 DEF Directory!Listed
<1>5. Directory!Cardinality(Directory!Listed) = Cardinality(Directory!Listed)
  BY Zenon DEF Directory!Cardinality, Cardinality
<1> QED
  BY <1>1, <1>3, <1>4, <1>5

\* peer_registry_add_or_update writes one entry.
Writes(i, n, e) ==
    /\ registry'[i] \in Peer
    /\ registry'[i].name = n /\ registry'[i].peer = e /\ registry'[i].active
    /\ \A j \in Slots : j # i => registry'[j] = registry[j]

LEMMA AddKeeps ==
    ASSUME TableOK, UniqueEntry, NEW n \in Names, NEW e \in Endpoints,
           peer_registry_add_or_update(n, e), UNCHANGED refused
    PROVE  TableOK' /\ UniqueEntry' /\ Directory!Seen(n, e) /\ \E i \in Slots : Writes(i, n, e)
<1>1. \A i \in Slots : Finds(i, e) <=> registry[i].peer = e
  BY ScanFinds
<1>2. CASE \E i \in Slots : Finds(i, e) /\ registry' = [registry EXCEPT ![i] = SeenAgain(i, n)]
                                        /\ registry_count' = registry_count
  <2>1. PICK i \in Slots : /\ registry[i].peer = e /\ registry_count' = registry_count
                           /\ registry' = [registry EXCEPT ![i] = SeenAgain(i, n)]
    BY <1>1, <1>2
  <2>2. registry[i] # NoPeer /\ registry[i] \in Peer
    <3>1. registry[i] # NoPeer
      BY <2>1 DEF NoPeer
    <3> QED
      BY <3>1, EntryIsPeer
  <2>3. /\ registry'[i] = SeenAgain(i, n)
        /\ \A j \in Slots : j # i => registry'[j] = registry[j]
    BY <2>1 DEF TableOK
  <2>4. /\ registry'[i] \in Peer /\ registry'[i] # NoPeer
        /\ registry'[i].name = n /\ registry'[i].peer = e
        /\ registry'[i].active /\ registry'[i].paired = registry[i].paired
    BY <2>1, <2>2, <2>3 DEF SeenAgain, Peer, NoPeer
  <2>5. TableOK'
    BY <2>1, <2>2, <2>3, <2>4 DEF TableOK
  <2>6. UniqueEntry'
    BY <2>1, <2>2, <2>3, <2>4 DEF UniqueEntry
  <2>7. Directory!Seen(n, e)
    <3>1. ViewIsTable /\ ViewIsTable'
      BY <2>5, <2>6, ViewShowsTable, ViewShowsTableNext
    <3>2. DirectoryView[e] # Nil /\ DirectoryView[e].paired = registry[i].paired
      BY <2>1, <2>2, <3>1, EntryTells DEF ViewIsTable
    <3>3. DirectoryView'[e] = [name |-> n, active |-> TRUE, paired |-> registry[i].paired]
      <4>1. DirectoryView'[e] = EntryOf(registry'[i])
        BY <2>4, <3>1 DEF ViewIsTable
      <4> QED
        BY <2>4, <4>1 DEF EntryOf, Peer
    <3>4. ASSUME NEW f \in Endpoints, f # e PROVE DirectoryView'[f] = DirectoryView[f]
      BY <2>1, <2>3, <2>4, <3>1, <3>4 DEF ViewIsTable
    <3>5. registry[i].paired \in BOOLEAN
      BY <2>2 DEF Peer
    <3> QED
      BY <3>2, <3>3, <3>4, <3>5, ViewIsFunction DEF Directory!Seen
  <2> QED
    BY <2>3, <2>4, <2>5, <2>6, <2>7 DEF Writes
<1>3. CASE /\ ~IsListed(e) /\ HasRoom /\ registry_count' = registry_count + 1
           /\ registry' = [registry EXCEPT ![registry_count] =
                  [name |-> n, peer |-> e, active |-> TRUE, paired |-> FALSE]]
  <2> DEFINE i == registry_count
  <2>1. i \in Slots /\ registry[i] = NoPeer
    BY <1>3 DEF HasRoom, Slots, TableOK
  <2>2. \A j \in Slots : registry[j].peer # e
    BY <1>1, <1>3 DEF IsListed
  <2>3. /\ registry'[i] = [name |-> n, peer |-> e, active |-> TRUE, paired |-> FALSE]
        /\ \A j \in Slots : j # i => registry'[j] = registry[j]
    BY <1>3, <2>1 DEF TableOK
  <2>4. registry'[i] \in Peer /\ registry'[i] # NoPeer
    BY <2>3 DEF Peer, NoPeer
  <2>5. TableOK'
    BY <1>3, <2>1, <2>3, <2>4 DEF TableOK, HasRoom, Slots
  <2>6. UniqueEntry'
    BY <2>2, <2>3, <2>4 DEF UniqueEntry
  <2>7. Directory!Seen(n, e)
    <3>1. ViewIsTable /\ ViewIsTable'
      BY <2>5, <2>6, ViewShowsTable, ViewShowsTableNext
    <3>2. DirectoryView[e] = Nil
      BY <2>2, <3>1 DEF ViewIsTable
    <3>3. DirectoryView'[e] = [name |-> n, active |-> TRUE, paired |-> FALSE]
      <4>1. DirectoryView'[e] = EntryOf(registry'[i])
        BY <2>1, <2>3, <3>1 DEF ViewIsTable
      <4> QED
        BY <2>3, <4>1 DEF EntryOf
    <3>4. ASSUME NEW f \in Endpoints, f # e PROVE DirectoryView'[f] = DirectoryView[f]
      <4>1. registry[i].peer # f /\ registry'[i].peer # f
        BY <2>1, <2>3, <3>4 DEF NoPeer
      <4> QED
        BY <2>1, <2>3, <3>1, <4>1 DEF ViewIsTable
    <3>5. Directory!Cardinality(Directory!Listed) < MaxPeers
      BY <1>3, ListedFits DEF HasRoom
    <3> QED
      BY <3>2, <3>3, <3>4, <3>5, ViewIsFunction DEF Directory!Seen
  <2> QED
    BY <2>1, <2>3, <2>4, <2>5, <2>6, <2>7 DEF Writes
<1> QED
  BY <1>2, <1>3 DEF peer_registry_add_or_update

\* A peer is not the empty entry.
LEMMA PeerIsSome == ASSUME NEW p \in Peer PROVE p # NoPeer
  BY DEF Peer, NoPeer

\* One changed flag, of a peer or of its entry in the directory.
Offline(p) == [p EXCEPT !.active = FALSE]
Marked(p) == [p EXCEPT !.paired = TRUE]

LEMMA ChangedPeer ==
    ASSUME NEW p \in Peer
    PROVE  /\ Offline(p) \in Peer
           /\ Offline(p).name = p.name /\ Offline(p).peer = p.peer
           /\ Offline(p).active = FALSE /\ Offline(p).paired = p.paired
           /\ Marked(p) \in Peer
           /\ Marked(p).name = p.name /\ Marked(p).peer = p.peer
           /\ Marked(p).active = p.active /\ Marked(p).paired = TRUE
<1>1. Offline(p) \in Peer /\ Marked(p) \in Peer
  BY Zenon DEF Peer, Offline, Marked
<1> QED
  BY <1>1, SMT DEF Peer, Offline, Marked

LEMMA ChangedEntry ==
    ASSUME NEW p \in Peer
    PROVE  /\ Offline(EntryOf(p)) = [name |-> p.name, active |-> FALSE, paired |-> p.paired]
           /\ Marked(EntryOf(p)) = [name |-> p.name, active |-> p.active, paired |-> TRUE]
<1>1. ASSUME NEW q \in Directory!Entry, NEW r \in Directory!Entry, q.name = r.name,
             q.active = r.active, q.paired = r.paired
      PROVE  q = r
  BY <1>1, SMT DEF Directory!Entry
<1>2. ASSUME NEW d \in Directory!Entry
      PROVE  /\ Offline(d) \in Directory!Entry /\ Marked(d) \in Directory!Entry
             /\ Offline(d).name = d.name /\ Offline(d).active = FALSE /\ Offline(d).paired = d.paired
             /\ Marked(d).name = d.name /\ Marked(d).active = d.active /\ Marked(d).paired = TRUE
  <2>1. Offline(d) \in Directory!Entry /\ Marked(d) \in Directory!Entry
    BY Zenon DEF Directory!Entry, Offline, Marked
  <2> QED
    BY <2>1, SMT DEF Directory!Entry, Offline, Marked
<1> DEFINE off == [name |-> p.name, active |-> FALSE, paired |-> p.paired]
           on == [name |-> p.name, active |-> p.active, paired |-> TRUE]
<1>3. /\ off \in Directory!Entry /\ off.name = p.name /\ off.active = FALSE /\ off.paired = p.paired
      /\ on \in Directory!Entry /\ on.name = p.name /\ on.active = p.active /\ on.paired = TRUE
  BY SMT DEF Directory!Entry, Peer
<1> HIDE DEF off, on
<1>4. Offline(EntryOf(p)) = off /\ Marked(EntryOf(p)) = on
  <2> DEFINE d == EntryOf(p)
  <2>1. d \in Directory!Entry /\ d.name = p.name /\ d.active = p.active /\ d.paired = p.paired
    BY EntryTells
  <2> HIDE DEF d
  <2>2. /\ Offline(d) \in Directory!Entry /\ Marked(d) \in Directory!Entry
        /\ Offline(d).name = d.name /\ Offline(d).active = FALSE /\ Offline(d).paired = d.paired
        /\ Marked(d).name = d.name /\ Marked(d).active = d.active /\ Marked(d).paired = TRUE
    BY <1>2, <2>1, Zenon
  <2>3. Offline(d) = off
    BY <1>1, <1>3, <2>1, <2>2, Zenon
  <2>4. Marked(d) = on
    BY <1>1, <1>3, <2>1, <2>2, Zenon
  <2> QED
    BY <2>3, <2>4 DEF d
<1> QED
  BY <1>4 DEF off, on

\* peer_registry_mark_inactive reaches every entry of the name, and no other.
LEMMA MarkKeeps ==
    ASSUME TableOK, UniqueEntry, NEW n \in Names, peer_registry_mark_inactive(n), UNCHANGED refused
    PROVE  /\ TableOK' /\ UniqueEntry' /\ Directory!Gone(n)
           /\ \A i \in Slots :
                /\ registry'[i].peer = registry[i].peer /\ registry'[i].name = registry[i].name
                /\ i \in Named(n) => ~registry'[i].active
                /\ i \notin Named(n) => registry'[i] = registry[i]
<1>1. registry_count' = registry_count
  BY DEF peer_registry_mark_inactive
<1>2. \A i \in Slots : i \notin Named(n) => registry'[i] = registry[i]
  BY DEF peer_registry_mark_inactive
<1>3. ASSUME NEW i \in Slots, i \in Named(n) PROVE registry[i] \in Peer
  <2>1. registry[i] # NoPeer
    BY <1>3 DEF Named, Used, Slots, TableOK
  <2> QED
    BY <2>1, EntryIsPeer
<1>4. ASSUME NEW i \in Slots, i \in Named(n)
      PROVE  /\ registry'[i] \in Peer /\ registry'[i] # NoPeer /\ registry[i] # NoPeer
             /\ registry'[i].peer = registry[i].peer /\ registry'[i].name = registry[i].name
             /\ registry'[i].active = FALSE /\ registry'[i].paired = registry[i].paired
  <2>1. registry'[i] = Offline(registry[i])
    BY <1>4, Zenon DEF peer_registry_mark_inactive, Offline
  <2>2. registry[i] \in Peer
    BY <1>3, <1>4
  <2>3. /\ Offline(registry[i]) \in Peer
        /\ Offline(registry[i]).name = registry[i].name
        /\ Offline(registry[i]).peer = registry[i].peer
        /\ Offline(registry[i]).active = FALSE
        /\ Offline(registry[i]).paired = registry[i].paired
    BY <2>2, ChangedPeer, Zenon
  <2>4. registry[i] # NoPeer /\ Offline(registry[i]) # NoPeer
    BY <2>2, <2>3, PeerIsSome, Zenon
  <2> QED
    BY <2>1, <2>3, <2>4, Zenon
<1>5. TableOK'
  <2>1. registry' \in [Slots -> Peer \cup {NoPeer}]
    <3>1. registry' = [i \in Slots |-> registry'[i]]
      BY DEF peer_registry_mark_inactive
    <3> QED
      BY <1>2, <1>4, <3>1 DEF TableOK
  <2> QED
    BY <2>1, <1>1, <1>2, <1>4 DEF TableOK
<1>6. UniqueEntry'
  <2>1. \A i \in Slots : /\ registry'[i].peer = registry[i].peer
                         /\ registry'[i] # NoPeer => registry[i] # NoPeer
    BY <1>2, <1>4, Zenon
  <2> QED
    BY <2>1 DEF UniqueEntry
<1>7. Directory!Gone(n)
  <2>1. ViewIsTable /\ ViewIsTable'
    BY <1>5, <1>6, ViewShowsTable, ViewShowsTableNext
  <2>2. ASSUME NEW e \in Endpoints
        PROVE  DirectoryView'[e] = IF e \in Directory!Listed /\ DirectoryView[e].name = n
                                   THEN Offline(DirectoryView[e])
                                   ELSE DirectoryView[e]
    <3>1. CASE \A i \in Slots : registry[i].peer # e
      <4>1. \A i \in Slots : registry'[i].peer # e
        BY <1>2, <1>4, <3>1
      <4>2. DirectoryView[e] = Nil /\ DirectoryView'[e] = Nil
        BY <2>1, <3>1, <4>1 DEF ViewIsTable
      <4> QED
        BY <4>2 DEF Directory!Listed
    <3>2. ASSUME NEW i \in Slots, registry[i].peer = e
          PROVE  DirectoryView'[e] = IF e \in Directory!Listed /\ DirectoryView[e].name = n
                                     THEN Offline(DirectoryView[e])
                                     ELSE DirectoryView[e]
      <4>1. registry[i] \in Peer /\ registry[i] # NoPeer /\ i \in Used
        <5>1. registry[i] # NoPeer
          BY <3>2 DEF NoPeer
        <5> QED
          BY <5>1, EntryIsPeer
      <4>2. /\ DirectoryView[e] = EntryOf(registry[i]) /\ DirectoryView[e] # Nil
            /\ DirectoryView[e].name = registry[i].name /\ e \in Directory!Listed
        BY <2>1, <3>2, <4>1, EntryTells DEF ViewIsTable, Directory!Listed
      <4>3. DirectoryView'[e] = EntryOf(registry'[i])
        BY <1>2, <1>4, <2>1, <3>2 DEF ViewIsTable
      <4>4. CASE i \in Named(n)
        <5>1. EntryOf(registry'[i]) = Offline(EntryOf(registry[i]))
          <6>1. Offline(EntryOf(registry[i])) =
                  [name |-> registry[i].name, active |-> FALSE, paired |-> registry[i].paired]
            BY <4>1, ChangedEntry
          <6> QED
            BY <1>4, <4>4, <6>1, Zenon DEF EntryOf
        <5>2. DirectoryView[e].name = n
          BY <4>2, <4>4 DEF Named
        <5> QED
          BY <4>2, <4>3, <5>1, <5>2
      <4>5. CASE i \notin Named(n)
        BY <1>2, <4>1, <4>2, <4>3, <4>5 DEF Named
      <4> QED
        BY <4>4, <4>5
    <3> QED
      BY <3>1, <3>2
  <2> QED
    BY <2>2, ViewIsFunction, Zenon DEF Directory!Gone, Offline
<1> QED
  BY <1>2, <1>3, <1>4, <1>5, <1>6, <1>7

\* peer_registry_set_paired changes one flag, or nothing.
LEMMA PairKeeps ==
    ASSUME TableOK, UniqueEntry, NEW e, peer_registry_set_paired(e), UNCHANGED refused
    PROVE  /\ TableOK' /\ UniqueEntry'
           /\ DirectoryView' = DirectoryView \/ (e \in Endpoints /\ Directory!Paired(e))
           /\ \A i \in Slots :
                /\ registry'[i].peer = registry[i].peer /\ registry'[i].name = registry[i].name
                /\ registry'[i].active = registry[i].active
<1>1. registry_count' = registry_count
  BY DEF peer_registry_set_paired
<1>2. CASE registry' = registry
  BY <1>1, <1>2 DEF TableOK, UniqueEntry, DirectoryView, Finds, Used
<1>3. CASE registry' # registry
  <2>1. PICK i \in Slots : /\ Finds(i, e)
                           /\ registry' = [registry EXCEPT ![i] = [registry[i] EXCEPT !.paired = TRUE]]
    BY <1>3 DEF peer_registry_set_paired
  <2>2. registry[i] \in Peer /\ registry[i].peer = e /\ e \in Endpoints
    <3>1. registry[i] # NoPeer /\ registry[i].peer = e
      BY <2>1 DEF Finds, Used, TableOK, Slots
    <3> QED
      BY <3>1, EntryIsPeer DEF Peer
  <2>3. \A j \in Slots : j # i => registry'[j] = registry[j]
    BY <2>1, Zenon DEF TableOK
  <2>4. /\ registry'[i] \in Peer /\ registry'[i] # NoPeer /\ registry[i] # NoPeer
        /\ registry'[i].name = registry[i].name /\ registry'[i].peer = e
        /\ registry'[i].active = registry[i].active /\ registry'[i].paired = TRUE
    <3>1. registry'[i] = Marked(registry[i])
      BY <2>1, Zenon DEF TableOK, Marked
    <3> QED
      <4>1. /\ Marked(registry[i]) \in Peer
            /\ Marked(registry[i]).name = registry[i].name
            /\ Marked(registry[i]).peer = registry[i].peer
            /\ Marked(registry[i]).active = registry[i].active
            /\ Marked(registry[i]).paired = TRUE
        BY <2>2, ChangedPeer, Zenon
      <4>2. registry[i] # NoPeer /\ Marked(registry[i]) # NoPeer
        BY <2>2, <4>1, PeerIsSome, Zenon
      <4> QED
        BY <2>2, <3>1, <4>1, <4>2, Zenon
  <2>5. TableOK'
    BY <1>1, <2>1, <2>3, <2>4 DEF TableOK
  <2>6. UniqueEntry'
    BY <2>2, <2>3, <2>4 DEF UniqueEntry
  <2>7. Directory!Paired(e)
    <3>1. ViewIsTable /\ ViewIsTable'
      BY <2>5, <2>6, ViewShowsTable, ViewShowsTableNext
    <3>2. DirectoryView[e] = EntryOf(registry[i]) /\ DirectoryView[e] # Nil
      BY <2>2, <3>1, EntryTells DEF ViewIsTable
    <3>3. DirectoryView'[e] = EntryOf(registry'[i])
      BY <2>2, <2>4, <3>1 DEF ViewIsTable
    <3>4. EntryOf(registry'[i]) = Marked(EntryOf(registry[i]))
      <4>1. Marked(EntryOf(registry[i])) =
              [name |-> registry[i].name, active |-> registry[i].active, paired |-> TRUE]
        BY <2>2, ChangedEntry
      <4> QED
        BY <2>4, <4>1, Zenon DEF EntryOf
    <3>5. ASSUME NEW f \in Endpoints, f # e PROVE DirectoryView'[f] = DirectoryView[f]
      BY <2>2, <2>3, <2>4, <3>1, <3>5 DEF ViewIsTable
    <3>6. DirectoryView'[e] = Marked(DirectoryView[e])
      BY <3>2, <3>3, <3>4
    <3> QED
      BY <2>2, <3>2, <3>5, <3>6, ViewIsFunction DEF Directory!Paired, Marked
  <2> QED
    BY <2>2, <2>3, <2>4, <2>5, <2>6, <2>7
<1> QED
  BY <1>2, <1>3

\* Whoever leaves the table alone leaves the directory alone.
LEMMA TableStays ==
    ASSUME TableOK, UniqueEntry, UNCHANGED tableVars
    PROVE  TableOK' /\ UniqueEntry' /\ DirectoryView' = DirectoryView
  BY DEF tableVars, TableOK, UniqueEntry, DirectoryView, Finds, Used

\* An endpoint that finds the table full is turned away by the directory, too.
LEMMA FullRefuses ==
    ASSUME TableOK, UniqueEntry, NEW e \in Endpoints, Full(e), UNCHANGED tableVars,
           refused' = refused \cup {e}
    PROVE  Directory!Refused(e)
<1>1. DirectoryView[e] = Nil
  BY ScanFinds, ViewShowsTable DEF ViewIsTable, Full, IsListed
<1>2. Directory!Cardinality(Directory!Listed) >= MaxPeers
  BY ListedFits DEF Full
<1> QED
  BY <1>1, <1>2, TableStays DEF Directory!Refused
-----------------------------------------------------------------------------
(* The steps.                                                              *)

\* What TypeOK says of everything but the table.
RestOK ==
    /\ address \in [Services -> Endpoints \cup {Nil}]
    /\ changes \in 0 .. MaxChanges
    /\ events \in Seq(Event)
    /\ resolvers \subseteq Resolver
    /\ req \in [Requests -> RequestState]
    /\ ghosts \subseteq Endpoints /\ excused \subseteq Services /\ refused \subseteq Endpoints

LEMMA TypeParts == TypeOK <=> TableOK /\ RestOK
  BY DEF TypeOK, TableOK, RestOK

\* A step of the directory, or none.
DirectoryStep == [Directory!Next]_<<DirectoryView, refused>>

\* The first state.
LEMMA InitIInv == ASSUME Init PROVE IInv /\ Directory!Init
<1>1. \A i \in Slots : registry[i] = NoPeer
  BY DEF Init
<1>2. NoPeer.peer = Nil /\ NoPeer.active = FALSE
  BY DEF NoPeer
<1>3. TypeOK
  <2>1. TableOK
    BY <1>1 DEF Init, TableOK, Slots
  <2>2. RestOK
    BY DEF Init, RestOK, RequestState, Idle
  <2> QED
    BY <2>1, <2>2, TypeParts
<1>4. IInv
  BY <1>1, <1>2, <1>3 DEF IInv, UniqueEntry, ResolvesOthers, OnlineHasService, Init
<1>5. Directory!Init
  BY <1>1, <1>2 DEF Directory!Init, DirectoryView, Init
<1> QED
  BY <1>4, <1>5

\* An event that is appended is pending, and so is what was; a handled event is
\* the first one.
LEMMA AppendKeeps ==
    ASSUME events \in Seq(Event), NEW x \in Event, events' = Append(events, x)
    PROVE  /\ events' \in Seq(Event)
           /\ \A s : RemovalPending(s) => RemovalPending(s)'
           /\ x.kind = "remove" => RemovalPending(x.service)'
<1>1. events' \in Seq(Event) /\ Len(events') = Len(events) + 1 /\ events'[Len(events) + 1] = x
      /\ \A k \in DOMAIN events : k \in DOMAIN events' /\ events'[k] = events[k]
  OBVIOUS
<1>2. Len(events) + 1 \in DOMAIN events'
  BY <1>1
<1> QED
  BY <1>1, <1>2 DEF RemovalPending

LEMMA TailKeeps ==
    ASSUME events \in Seq(Event), events # << >>, events' = Tail(events)
    PROVE  /\ Head(events) \in Event /\ events' \in Seq(Event)
           /\ \A s : RemovalPending(s) =>
                       \/ RemovalPending(s)'
                       \/ Head(events).kind = "remove" /\ Head(events).service = s
<1>1. Head(events) \in Event /\ events' \in Seq(Event) /\ Head(events) = events[1]
  OBVIOUS
<1>2. \A k \in DOMAIN events : k = 1 \/ (k - 1 \in DOMAIN events' /\ events'[k - 1] = events[k])
  OBVIOUS
<1> QED
  BY <1>1, <1>2 DEF RemovalPending

\* A step that leaves the table alone keeps the invariant if it keeps what stands
\* behind the peers.
LEMMA OutsideKeeps ==
    ASSUME IInv, UNCHANGED tableVars, RestOK', ResolvesOthers',
           ghosts \subseteq ghosts',
           UNCHANGED refused \/ \E e \in Endpoints : Directory!Refused(e),
           \A s \in Services :
               /\ RemovalPending(s) => RemovalPending(s)'
               /\ address[s] # Nil => \/ address'[s] = address[s] \/ address[s] \in ghosts'
                                      \/ RemovalPending(s)'
    PROVE  IInv' /\ DirectoryStep
<1>1. TableOK /\ UniqueEntry
  BY TypeParts DEF IInv
<1>2. TableOK' /\ UniqueEntry' /\ DirectoryView' = DirectoryView
  BY <1>1, TableStays
<1>3. TypeOK'
  BY <1>2 DEF TypeOK, TableOK, RestOK
<1>4. OnlineHasService'
  <2> SUFFICES ASSUME NEW i \in Slots, registry[i].active, registry[i].peer \notin ghosts'
               PROVE  HasService(i)'
    BY DEF OnlineHasService, tableVars
  <2>1. PICK s \in Services :
          /\ NameOf[s] = registry[i].name /\ NameOf[s] # LocalName
          /\ address[s] = registry[i].peer \/ RemovalPending(s)
    BY DEF IInv, OnlineHasService, HasService
  <2>2. registry[i].peer # Nil
    <3>1. registry[i] # NoPeer
      BY DEF NoPeer
    <3> QED
      BY <1>1, <3>1, EntryIsPeer DEF Peer
  <2>3. address'[s] = registry[i].peer \/ RemovalPending(s)'
    BY <2>1, <2>2
  <2> QED
    BY <2>1, <2>3 DEF HasService, tableVars
<1> QED
  BY <1>2, <1>3, <1>4 DEF IInv, DirectoryStep, Directory!Next

\* Changes on the network.
LEMMA NetworkKeeps == ASSUME IInv, Network PROVE IInv' /\ DirectoryStep
<1> USE DEF networkVars, avahiVars, historyVars
<1>1. RestOK
  BY TypeParts DEF IInv
<1>2. ASSUME NEW s \in Services, NEW e \in Endpoints, announce(s, e) PROVE IInv' /\ DirectoryStep
  <2> DEFINE x == [kind |-> "new", service |-> s]
  <2>1. x \in Event /\ changes' \in 0 .. MaxChanges /\ events' = Append(events, x)
    BY <1>1, <1>2 DEF announce, Changed, Event, RestOK
  <2>2. events' \in Seq(Event) /\ \A t : RemovalPending(t) => RemovalPending(t)'
    BY <1>1, <2>1, AppendKeeps DEF RestOK
  <2>3. RestOK' /\ ResolvesOthers'
    BY <1>1, <1>2, <2>1, <2>2 DEF announce, RestOK, IInv, ResolvesOthers
  <2>4. \A t \in Services : address[t] # Nil => address'[t] = address[t]
    BY <1>1, <1>2 DEF announce, RestOK
  <2> QED
    BY <1>2, <2>2, <2>3, <2>4, OutsideKeeps DEF announce
<1>3. ASSUME NEW s \in Services, NEW e \in Endpoints, move(s, e) PROVE IInv' /\ DirectoryStep
  <2>1. changes' \in 0 .. MaxChanges
    BY <1>1, <1>3 DEF move, Changed, RestOK
  <2>2. RestOK' /\ ResolvesOthers'
    BY <1>1, <1>3, <2>1 DEF move, RestOK, IInv, ResolvesOthers
  <2>3. \A t : RemovalPending(t) => RemovalPending(t)'
    BY <1>3 DEF move, RemovalPending
  <2>4. \A t \in Services : address'[t] = address[t] \/ address[t] \in ghosts'
    BY <1>1, <1>3 DEF move, RestOK
  <2> QED
    BY <1>3, <2>2, <2>3, <2>4, OutsideKeeps DEF move
<1>4. ASSUME NEW s \in Services, withdraw(s) PROVE IInv' /\ DirectoryStep
  <2> DEFINE x == [kind |-> "remove", service |-> s]
  <2>1. x \in Event /\ changes' \in 0 .. MaxChanges /\ events' = Append(events, x)
    BY <1>1, <1>4 DEF withdraw, Changed, Event, RestOK
  <2>2. /\ events' \in Seq(Event) /\ \A t : RemovalPending(t) => RemovalPending(t)'
        /\ RemovalPending(s)'
    BY <1>1, <2>1, AppendKeeps DEF RestOK
  <2>3. RestOK' /\ ResolvesOthers'
    BY <1>1, <1>4, <2>1, <2>2 DEF withdraw, RestOK, IInv, ResolvesOthers
  <2>4. \A t \in Services : address'[t] = address[t] \/ RemovalPending(t)'
    BY <1>1, <1>4, <2>2 DEF withdraw, RestOK
  <2> QED
    BY <1>4, <2>2, <2>3, <2>4, OutsideKeeps DEF withdraw
<1> QED
  BY <1>2, <1>3, <1>4 DEF Network

\* The callbacks that leave the table alone, and resolvers at work.
LEMMA ResolversKeep ==
    ASSUME IInv,
           browse_new \/ \E r \in resolvers : resolver_looks(r) \/ resolve_failed(r)
    PROVE  IInv' /\ DirectoryStep
<1> USE DEF networkVars, avahiVars, historyVars
<1>1. RestOK
  BY TypeParts DEF IInv
<1>2. CASE browse_new
  <2>1. /\ Head(events) \in Event /\ events' \in Seq(Event)
        /\ \A s : RemovalPending(s) => RemovalPending(s)'
    BY <1>1, <1>2, TailKeeps DEF browse_new, RestOK
  <2>2. Head(events).service \in Services
    BY <2>1 DEF Event
  <2>3. \A r \in Starts(Head(events).service) : r \in Resolver /\ NameOf[r.service] # LocalName
    BY <2>2 DEF Starts, Resolver
  <2>4. resolvers' = resolvers \cup Starts(Head(events).service)
    BY <1>2 DEF browse_new
  <2>5. resolvers' \subseteq Resolver /\ ResolvesOthers'
    BY <1>1, <2>3, <2>4 DEF RestOK, IInv, ResolvesOthers
  <2>6. RestOK'
    BY <1>1, <1>2, <2>1, <2>5 DEF browse_new, RestOK
  <2> QED
    BY <1>2, <2>1, <2>5, <2>6, OutsideKeeps DEF browse_new
<1>3. ASSUME NEW r \in resolvers, resolver_looks(r) PROVE IInv' /\ DirectoryStep
  <2>1. r \in Resolver /\ address[r.service] \in Endpoints \cup {Nil}
    BY <1>1 DEF RestOK, Resolver
  <2> DEFINE x == [r EXCEPT !.found = address[r.service]]
  <2>2. x \in Resolver /\ x.service = r.service
    BY <2>1 DEF Resolver
  <2>3. resolvers' = (resolvers \ {r}) \cup {x}
    BY <1>3 DEF resolver_looks
  <2> HIDE DEF x
  <2>4. resolvers' \subseteq Resolver /\ ResolvesOthers'
    BY <1>1, <2>2, <2>3 DEF RestOK, IInv, ResolvesOthers
  <2>5. RestOK'
    BY <1>1, <1>3, <2>4 DEF resolver_looks, RestOK
  <2>6. \A s : RemovalPending(s) => RemovalPending(s)'
    BY <1>3 DEF resolver_looks, RemovalPending
  <2> QED
    BY <1>3, <2>4, <2>5, <2>6, OutsideKeeps DEF resolver_looks
<1>4. ASSUME NEW r \in resolvers, resolve_failed(r) PROVE IInv' /\ DirectoryStep
  <2>1. RestOK' /\ ResolvesOthers'
    BY <1>1, <1>4 DEF resolve_failed, RestOK, Resolver, IInv, ResolvesOthers
  <2>2. \A s : RemovalPending(s) => RemovalPending(s)'
    BY <1>4 DEF resolve_failed, RemovalPending
  <2> QED
    BY <1>4, <2>1, <2>2, OutsideKeeps DEF resolve_failed
<1> QED
  BY <1>2, <1>3, <1>4

\* A removal takes every peer of the name offline, whatever stands behind it.
LEMMA RemoveKeeps == ASSUME IInv, browse_remove PROVE IInv' /\ DirectoryStep
<1> USE DEF networkVars, avahiVars, historyVars
<1> DEFINE s0 == Head(events).service
           n == NameOf[s0]
           hit == {registry[i].peer : i \in Named(n)}
<1>1. TableOK /\ UniqueEntry /\ RestOK
  BY TypeParts DEF IInv
<1>2. /\ Head(events) \in Event /\ events' \in Seq(Event)
      /\ \A s : RemovalPending(s) => RemovalPending(s)' \/ s = s0
  BY <1>1, TailKeeps DEF browse_remove, RestOK
<1>3. s0 \in Services /\ n \in Names
  BY <1>2 DEF Event
<1>4. UNCHANGED <<address, changes, resolvers, req, refused>> /\ ResolvesOthers'
  BY DEF browse_remove, IInv, ResolvesOthers
<1>5. CASE n = LocalName
  <2>1. UNCHANGED <<registry, registry_count, ghosts, excused>>
    BY <1>5, Zenon DEF browse_remove, tableVars
  <2>2. RestOK'
    BY <1>1, <1>2, <1>4, <2>1 DEF RestOK
  <2>3. TableOK' /\ UniqueEntry' /\ DirectoryView' = DirectoryView
    BY <1>1, <2>1, TableStays DEF tableVars
  <2>4. OnlineHasService'
    <3> SUFFICES ASSUME NEW i \in Slots, registry[i].active, registry[i].peer \notin ghosts
                 PROVE  HasService(i)'
      BY <2>1 DEF OnlineHasService
    <3>1. PICK s \in Services :
            /\ NameOf[s] = registry[i].name /\ NameOf[s] # LocalName
            /\ address[s] = registry[i].peer \/ RemovalPending(s)
      BY DEF IInv, OnlineHasService, HasService
    <3>2. address'[s] = registry[i].peer \/ RemovalPending(s)'
      BY <1>2, <1>4, <1>5, <3>1
    <3> QED
      BY <2>1, <3>1, <3>2 DEF HasService
  <2> QED
    BY <1>4, <2>2, <2>3, <2>4 DEF IInv, DirectoryStep, TypeOK, TableOK, RestOK
<1>6. CASE n # LocalName
  <2>1. /\ peer_registry_mark_inactive(n) /\ ghosts' = ghosts \ hit
        /\ excused' = excused \cup {t \in Services : address[t] \in hit /\ ~Underway(t)}
    BY <1>6, Zenon DEF browse_remove
  <2>2. /\ TableOK' /\ UniqueEntry' /\ Directory!Gone(n)
        /\ \A i \in Slots :
             /\ registry'[i].peer = registry[i].peer /\ registry'[i].name = registry[i].name
             /\ i \in Named(n) => ~registry'[i].active
             /\ i \notin Named(n) => registry'[i] = registry[i]
    BY <1>1, <1>3, <1>4, <2>1, MarkKeeps
  <2>3. RestOK'
    BY <1>1, <1>2, <1>4, <2>1 DEF RestOK
  <2>4. OnlineHasService'
    <3> SUFFICES ASSUME NEW i \in Slots, registry'[i].active, registry'[i].peer \notin ghosts'
                 PROVE  HasService(i)'
      BY DEF OnlineHasService
    <3>1. i \notin Named(n) /\ registry'[i] = registry[i]
      BY <2>2
    <3>2. registry[i] # NoPeer
      BY <3>1 DEF NoPeer
    <3>3. i \in Used /\ registry[i].name # n
      BY <1>1, <3>1, <3>2, EntryIsPeer DEF Named
    <3>4. registry[i].peer \notin hit
      <4> SUFFICES ASSUME NEW j \in Named(n), registry[j].peer = registry[i].peer PROVE FALSE
        OBVIOUS
      <4>1. j \in Slots /\ registry[j] # NoPeer /\ registry[j].name = n
        BY <1>1 DEF Named, Used, TableOK, Slots
      <4> QED
        BY <1>1, <3>2, <3>3, <4>1 DEF UniqueEntry
    <3>5. registry[i].active /\ registry[i].peer \notin ghosts
      BY <2>1, <3>1, <3>4
    <3>6. PICK s \in Services :
            /\ NameOf[s] = registry[i].name /\ NameOf[s] # LocalName
            /\ address[s] = registry[i].peer \/ RemovalPending(s)
      BY <3>5 DEF IInv, OnlineHasService, HasService
    <3>7. address'[s] = registry'[i].peer \/ RemovalPending(s)'
      BY <1>2, <1>4, <3>1, <3>3, <3>6
    <3> QED
      BY <3>1, <3>6, <3>7 DEF HasService
  <2> QED
    BY <1>3, <1>4, <2>2, <2>3, <2>4
    DEF IInv, DirectoryStep, Directory!Next, TypeOK, TableOK, RestOK
<1> QED
  BY <1>5, <1>6

\* A peer is listed or seen again: it is a ghost, or its service stands behind it.
LEMMA WriteKeeps ==
    ASSUME IInv, NEW n \in Names, NEW e \in Endpoints, peer_registry_add_or_update(n, e),
           RestOK', ResolvesOthers', UNCHANGED <<address, events, refused>>,
           ghosts \subseteq ghosts',
           \/ e \in ghosts'
           \/ \E s \in Services : /\ NameOf[s] = n /\ n # LocalName
                                  /\ address[s] = e \/ RemovalPending(s)
    PROVE  IInv' /\ DirectoryStep
<1>1. TableOK /\ UniqueEntry
  BY TypeParts DEF IInv
<1>2. TableOK' /\ UniqueEntry' /\ Directory!Seen(n, e)
  BY <1>1, AddKeeps
<1>3. PICK i \in Slots : Writes(i, n, e)
  BY <1>1, AddKeeps
<1>4. \A s : RemovalPending(s) <=> RemovalPending(s)'
  BY DEF RemovalPending
<1>5. OnlineHasService'
  <2> SUFFICES ASSUME NEW j \in Slots, registry'[j].active, registry'[j].peer \notin ghosts'
               PROVE  HasService(j)'
    BY DEF OnlineHasService
  <2>1. CASE j = i
    BY <1>3, <1>4, <2>1 DEF Writes, HasService
  <2>2. CASE j # i
    <3>1. registry'[j] = registry[j] /\ registry[j].active /\ registry[j].peer \notin ghosts
      BY <1>3, <2>2 DEF Writes
    <3> QED
      BY <1>4, <3>1 DEF IInv, OnlineHasService, HasService
  <2> QED
    BY <2>1, <2>2
<1> QED
  BY <1>2, <1>5 DEF IInv, DirectoryStep, Directory!Next, TypeOK, TableOK, RestOK

\* What a resolver found.
LEMMA FoundKeeps ==
    ASSUME IInv, NEW r \in resolvers, resolve_found(r) PROVE IInv' /\ DirectoryStep
<1> USE DEF networkVars, avahiVars, historyVars
<1>1. RestOK
  BY TypeParts DEF IInv
<1>2. /\ r \in Resolver /\ r.service \in Services /\ r.found \in Endpoints
      /\ NameOf[r.service] \in Names /\ NameOf[r.service] # LocalName
  BY <1>1 DEF resolve_found, RestOK, Resolver, IInv, ResolvesOthers
<1>3. UNCHANGED <<address, changes, events, req>> /\ resolvers' = resolvers \ {r}
  BY DEF resolve_found
<1>4. ResolvesOthers'
  BY <1>3 DEF IInv, ResolvesOthers
<1>5. \A s : RemovalPending(s) => RemovalPending(s)'
  BY <1>3 DEF RemovalPending
<1>6. CASE /\ peer_registry_add_or_update(NameOf[r.service], r.found)
           /\ ghosts' = IF NotLate(r) THEN ghosts ELSE ghosts \cup {r.found}
           /\ UNCHANGED <<excused, refused>>
  <2>1. RestOK' /\ ghosts \subseteq ghosts'
    BY <1>1, <1>2, <1>3, <1>6 DEF RestOK
  <2>2. \/ r.found \in ghosts'
        \/ address[r.service] = r.found \/ RemovalPending(r.service)
    BY <1>6 DEF NotLate, RemovalPending
  <2> QED
    BY <1>2, <1>3, <1>4, <1>6, <2>1, <2>2, WriteKeeps
<1>7. CASE /\ Full(r.found) /\ excused' = excused \cup {r.service}
           /\ refused' = refused \cup {r.found} /\ UNCHANGED <<tableVars, ghosts>>
  <2>1. RestOK'
    BY <1>1, <1>2, <1>3, <1>7 DEF RestOK
  <2>2. Directory!Refused(r.found)
    BY <1>2, <1>7, TypeParts, FullRefuses DEF IInv
  <2> QED
    BY <1>2, <1>3, <1>4, <1>5, <1>7, <2>1, <2>2, OutsideKeeps
<1> QED
  BY <1>6, <1>7 DEF resolve_found

\* The requests: a pairing lists a ghost, the flag concerns nobody else.
LEMMA HandlersKeep == ASSUME IInv, Handlers PROVE IInv' /\ DirectoryStep
<1> USE DEF networkVars, avahiVars, historyVars
<1>1. TableOK /\ UniqueEntry /\ RestOK
  BY TypeParts DEF IInv
<1>2. PICK r \in Requests :
        \/ \E e \in Endpoints : pair_find(r, e) \/ \E n \in Names : exchange_add(r, n, e)
        \/ exchange_set_paired(r) \/ pair_refused(r) \/ pair_set_paired(r) \/ answered(r)
  BY DEF Handlers
<1>3. UNCHANGED <<address, events, resolvers, excused>> /\ changes' \in 0 .. MaxChanges
  BY <1>1, <1>2
  DEF pair_find, exchange_add, exchange_set_paired, pair_refused, pair_set_paired, answered,
      Changed, RestOK
<1>4. req' \in [Requests -> RequestState]
  <2>1. Idle \in RequestState /\ req[r].peer \in Endpoints \cup {Nil}
    BY <1>1 DEF Idle, RequestState, RestOK
  <2>2. \A at \in {"added", "pairing", "exchanged", "paired"}, e \in Endpoints \cup {Nil} :
          [at |-> at, peer |-> e] \in RequestState
    BY DEF RequestState
  <2>3. \E x \in RequestState : req' = [req EXCEPT ![r] = x]
    BY <1>2, <2>1, <2>2
    DEF pair_find, exchange_add, exchange_set_paired, pair_refused, pair_set_paired, answered, Goto
  <2> QED
    BY <1>1, <2>3 DEF RestOK
<1>5. ResolvesOthers' /\ \A s : RemovalPending(s) <=> RemovalPending(s)'
  BY <1>3 DEF IInv, ResolvesOthers, RemovalPending
<1>6. ASSUME UNCHANGED <<tableVars, ghosts>>, refused' \subseteq Endpoints,
             UNCHANGED refused \/ \E e \in Endpoints : Directory!Refused(e)
      PROVE  IInv' /\ DirectoryStep
  <2>1. RestOK'
    BY <1>1, <1>3, <1>4, <1>6 DEF RestOK
  <2> QED
    BY <1>3, <1>5, <1>6, <2>1, OutsideKeeps
<1>7. ASSUME NEW n \in Names, NEW e \in Endpoints, exchange_add(r, n, e)
      PROVE  IInv' /\ DirectoryStep
  <2>1. CASE peer_registry_add_or_update(n, e) /\ ghosts' = ghosts \cup {e} /\ UNCHANGED refused
    <3>1. RestOK'
      BY <1>1, <1>3, <1>4, <2>1 DEF RestOK
    <3> QED
      BY <1>3, <1>5, <2>1, <3>1, WriteKeeps
  <2>2. CASE Full(e) /\ refused' = refused \cup {e} /\ UNCHANGED <<tableVars, ghosts>>
    <3>1. Directory!Refused(e) /\ refused' \subseteq Endpoints
      BY <1>1, <2>2, FullRefuses DEF RestOK
    <3> QED
      BY <1>6, <2>2, <3>1
  <2> QED
    BY <1>7, <2>1, <2>2 DEF exchange_add
<1>8. ASSUME peer_registry_set_paired(req[r].peer), ghosts' = ghosts, refused' = refused
      PROVE  IInv' /\ DirectoryStep
  <2>1. /\ TableOK' /\ UniqueEntry'
        /\ \/ DirectoryView' = DirectoryView
           \/ req[r].peer \in Endpoints /\ Directory!Paired(req[r].peer)
        /\ \A i \in Slots :
             /\ registry'[i].peer = registry[i].peer /\ registry'[i].name = registry[i].name
             /\ registry'[i].active = registry[i].active
    BY <1>1, <1>8, PairKeeps
  <2>2. RestOK'
    BY <1>1, <1>3, <1>4, <1>8 DEF RestOK
  <2>3. OnlineHasService'
    BY <1>3, <1>5, <1>8, <2>1 DEF IInv, OnlineHasService, HasService
  <2>4. DirectoryStep
    BY <1>8, <2>1 DEF DirectoryStep, Directory!Next
  <2> QED
    BY <1>5, <2>1, <2>2, <2>3, <2>4 DEF IInv, TypeOK, TableOK, RestOK
<1>9. refused \subseteq Endpoints
  BY <1>1 DEF RestOK
<1> QED
  BY <1>2, <1>6, <1>7, <1>8, <1>9
  DEF pair_find, exchange_set_paired, pair_refused, pair_set_paired, answered

\* Every step keeps the invariant and is a step of the directory.
LEMMA NextIInv == ASSUME IInv, [Next]_vars PROVE IInv' /\ DirectoryStep
<1>1. CASE UNCHANGED vars
  <2>1. RestOK' /\ ResolvesOthers' /\ \A s : RemovalPending(s) <=> RemovalPending(s)'
    BY <1>1, TypeParts
    DEF vars, networkVars, avahiVars, historyVars, IInv, RestOK, ResolvesOthers, RemovalPending
  <2> QED
    BY <1>1, <2>1, OutsideKeeps DEF vars, networkVars, avahiVars, historyVars
<1>2. CASE Next
  BY <1>2, NetworkKeeps, ResolversKeep, RemoveKeeps, FoundKeeps, HandlersKeep
  DEF Next, discovery_poll
<1> QED
  BY <1>1, <1>2

\* The inductive invariant holds in every state of the specification.
LEMMA Invariance == Spec => []IInv
<1>1. Init => IInv
  BY InitIInv
<1>2. IInv /\ [Next]_vars => IInv'
  BY NextIInv
<1> QED
  BY <1>1, <1>2, PTL DEF Spec
-----------------------------------------------------------------------------
\* TypeOK of the registry: among others, the entries in use are the first
\* registry_count ones, which is what the scans of src/peer_registry.c rely on.
THEOREM TypeCorrect == Spec => []TypeOK
<1>1. IInv => TypeOK
  BY DEF IInv
<1> QED
  BY <1>1, Invariance, PTL

\* UniqueEntry: no interleaving of the callers lists an endpoint twice, so that a
\* scan, which stops at the first entry, sees all there is about an endpoint.
THEOREM EntriesAreUnique == Spec => []UniqueEntry
<1>1. IInv => UniqueEntry
  BY DEF IInv
<1> QED
  BY <1>1, Invariance, PTL

\* OnlineIsAnnounced: an event that is lost, or that marks too few peers, would
\* leave one online that nothing stands behind.
THEOREM OnlineAreAnnounced == Spec => []OnlineIsAnnounced
<1>1. IInv => OnlineIsAnnounced
  <2> SUFFICES ASSUME IInv, events = << >>, NEW e \in Endpoints, Online(e), e \notin ghosts
               PROVE  \E s \in Services : address[s] = e
    BY DEF OnlineIsAnnounced
  <2>1. PICK i \in Slots : Finds(i, e) /\ registry[i].active
    BY DEF Online
  <2>2. HasService(i) /\ registry[i].peer = e
    BY <2>1 DEF IInv, OnlineHasService, Finds
  <2> QED
    BY <2>2 DEF HasService, RemovalPending
<1> QED
  BY <1>1, Invariance, PTL

\* ImplementsDirectory: the array with its count and its linear scans is a
\* directory, which turns an endpoint away only when it is full of others.
THEOREM RegistryIsDirectory == Spec => ImplementsDirectory
<1>1. Init => Directory!Init
  BY InitIInv
<1>2. IInv /\ [Next]_vars => [Directory!Next]_<<DirectoryView, refused>>
  BY NextIInv DEF DirectoryStep
<1> QED
  BY <1>1, <1>2, Invariance, PTL DEF Spec, ImplementsDirectory, Directory!Spec
=============================================================================
