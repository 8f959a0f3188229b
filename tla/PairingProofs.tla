----------------------------- MODULE PairingProofs -----------------------------
(***************************************************************************)
(* Proofs about pairing between two nodes, for every difference of their   *)
(* clocks, every lifetime of the tokens and any number of pairings and     *)
(* restarts.                                                               *)
(***************************************************************************)
EXTENDS MCPeers, Sequences, TLAPS

\* How far the two threads of a pairing are.
Stages ==
    \A p \in DOMAIN pairings :
        /\ pairings[p].client \in {"stored", "ok"} => pairings[p].server = "answered"
        /\ pairings[p].kept => pairings[p].server = "answered" /\ pairings[p].client # "waiting"

\* While a pairing that overlaps with none is the last, no other is open.
SoloIsAlone ==
    \A p \in DOMAIN pairings : pairings[p].solo /\ p = Len(pairings) =>
        \A q \in DOMAIN pairings : q # p => ~P!Open(q)

\* A node that holds the token it asked for stored it.
HeldIsKept ==
    \A n \in Nodes : held[n].active =>
        /\ held[n].token \in DOMAIN pairings
        /\ n = P!From(held[n].token) => pairings[held[n].token].kept
\* So did one that queued a file with the token it asked for.
JobIsKept == job # P!NoJob => (job.from = P!From(job.token) => pairings[job.token].kept)

\* Node n has the token of pairing p, unless it has expired there.
HasToken(n, p) ==
    \/ held[n].active /\ held[n].token = p /\ held[n].expires_at = pairings[p].expires_at
    \/ pairings[p].expires_at <= P!Clock(n)

\* The last pairing, if nothing disturbed it, has left its token on the node that
\* issued it, and on the one that stored it; if that one could not, it has none.
LastIsHeld ==
    \A p \in DOMAIN pairings : p = Len(pairings) /\ pairings[p].solo /\ pairings[p].lasting =>
        /\ pairings[p].server \in {"issued", "answered"} => HasToken(P!To(p), p)
        /\ pairings[p].kept => HasToken(P!From(p), p)
        /\ pairings[p].client \in {"stored", "ok"} /\ ~pairings[p].kept => ~held[P!From(p)].active

\* A node that asks lists the other, and each marks the other as paired before it
\* says so, unless the table of the one that was asked is full.
AnsweredIsListed ==
    \A p \in DOMAIN pairings :
        /\ pairings[p].client \in {"waiting", "stored"} => entry[P!From(p)] = "listed"
        /\ pairings[p].lasting =>
              /\ pairings[p].server = "answered" => paired[P!To(p)] \/ entry[P!To(p)] = "full"
              /\ pairings[p].client = "ok" => paired[P!From(p)]

\* The inductive invariant.
IInv ==
    /\ P!TypeOK /\ Stages /\ SoloIsAlone
    /\ HeldIsKept /\ JobIsKept /\ LastIsHeld /\ AnsweredIsListed
-----------------------------------------------------------------------------
(* The operators of the model.                                             *)

\* The two nodes.
LEMMA TwoNodes ==
    ASSUME P!ParametersOK, NEW n \in Nodes
    PROVE  /\ P!Other(n) \in Nodes /\ P!Other(n) # n
           /\ \A m \in Nodes : m = n \/ m = P!Other(n)
<1>1. PICK k, l \in Nodes : k # l /\ Nodes = {k, l}
  BY DEF P!ParametersOK
<1>2. \E m \in Nodes : m # n
  BY <1>1
<1>3. P!Other(n) \in Nodes /\ P!Other(n) # n
  BY <1>2 DEF P!Other
<1> QED
  BY <1>1, <1>3

Clients == {"waiting", "stored", "ok", "failed"}
Servers == {"arriving", "issued", "answered", "refused", "gone"}

\* The fields of a pairing.
LEMMA Fields ==
    ASSUME NEW r \in P!Attempt
    PROVE  /\ r.from \in Nodes /\ r.client \in Clients /\ r.server \in Servers
           /\ r.expires_at \in Nat
           /\ r.solo \in BOOLEAN /\ r.lasting \in BOOLEAN /\ r.kept \in BOOLEAN
  BY DEF P!Attempt, Clients, Servers

\* What the steps do to the record of a pairing.
Moved(r, c, s) == [r EXCEPT !.client = c, !.server = s]
Stored(r) == [r EXCEPT !.client = "stored", !.kept = TRUE]
Issued(r, x) == [r EXCEPT !.server = "issued", !.expires_at = x]
Crossed(r) == [r EXCEPT !.solo = FALSE]
Ended(r, c, s) == [r EXCEPT !.client = c, !.server = s, !.lasting = FALSE]

LEMMA MovedIs ==
    ASSUME NEW r \in P!Attempt, NEW c \in Clients, NEW s \in Servers
    PROVE  /\ Moved(r, c, s) \in P!Attempt
           /\ Moved(r, c, s).client = c /\ Moved(r, c, s).server = s
           /\ Moved(r, c, s).from = r.from /\ Moved(r, c, s).expires_at = r.expires_at
           /\ Moved(r, c, s).solo = r.solo /\ Moved(r, c, s).lasting = r.lasting
           /\ Moved(r, c, s).kept = r.kept
  BY DEF Moved, P!Attempt, Clients, Servers

LEMMA StoredIs ==
    ASSUME NEW r \in P!Attempt
    PROVE  /\ Stored(r) \in P!Attempt
           /\ Stored(r).client = "stored" /\ Stored(r).server = r.server
           /\ Stored(r).from = r.from /\ Stored(r).expires_at = r.expires_at
           /\ Stored(r).solo = r.solo /\ Stored(r).lasting = r.lasting
           /\ Stored(r).kept = TRUE
  BY DEF Stored, P!Attempt

LEMMA IssuedIs ==
    ASSUME NEW r \in P!Attempt, NEW x \in Nat
    PROVE  /\ Issued(r, x) \in P!Attempt
           /\ Issued(r, x).client = r.client /\ Issued(r, x).server = "issued"
           /\ Issued(r, x).from = r.from /\ Issued(r, x).expires_at = x
           /\ Issued(r, x).solo = r.solo /\ Issued(r, x).lasting = r.lasting
           /\ Issued(r, x).kept = r.kept
  BY DEF Issued, P!Attempt

LEMMA CrossedIs ==
    ASSUME NEW r \in P!Attempt
    PROVE  /\ Crossed(r) \in P!Attempt
           /\ Crossed(r).client = r.client /\ Crossed(r).server = r.server
           /\ Crossed(r).from = r.from /\ Crossed(r).expires_at = r.expires_at
           /\ Crossed(r).solo = FALSE /\ Crossed(r).lasting = r.lasting
           /\ Crossed(r).kept = r.kept
  BY DEF Crossed, P!Attempt

LEMMA EndedIs ==
    \A r \in P!Attempt, c \in Clients, s \in Servers :
        /\ Ended(r, c, s) \in P!Attempt
        /\ Ended(r, c, s).client = c /\ Ended(r, c, s).server = s
        /\ Ended(r, c, s).from = r.from /\ Ended(r, c, s).expires_at = r.expires_at
        /\ Ended(r, c, s).solo = r.solo /\ Ended(r, c, s).lasting = FALSE
        /\ Ended(r, c, s).kept = r.kept
<1> TAKE r \in P!Attempt, c \in Clients, s \in Servers
<1> QED
  BY Zenon DEF Ended, P!Attempt, Clients, Servers

\* One pairing changes.
LEMMA OneChanges ==
    ASSUME pairings \in Seq(P!Attempt), NEW p \in DOMAIN pairings, NEW r \in P!Attempt,
           pairings' = [pairings EXCEPT ![p] = r]
    PROVE  /\ pairings' \in Seq(P!Attempt)
           /\ DOMAIN pairings' = DOMAIN pairings /\ Len(pairings') = Len(pairings)
           /\ pairings'[p] = r
           /\ \A q \in DOMAIN pairings : q # p => pairings'[q] = pairings[q]
  OBVIOUS

\* Only the stages of pairing p change.
Moves(p, c, s) ==
    /\ pairings' \in Seq(P!Attempt)
    /\ DOMAIN pairings' = DOMAIN pairings /\ Len(pairings') = Len(pairings)
    /\ \A q \in DOMAIN pairings : q # p => pairings'[q] = pairings[q]
    /\ pairings'[p].client = c /\ pairings'[p].server = s
    /\ pairings'[p].from = pairings[p].from /\ pairings'[p].expires_at = pairings[p].expires_at
    /\ pairings'[p].solo = pairings[p].solo /\ pairings'[p].lasting = pairings[p].lasting
    /\ pairings'[p].kept = pairings[p].kept

LEMMA GoesMoves ==
    ASSUME pairings \in Seq(P!Attempt), NEW p \in DOMAIN pairings
    PROVE  /\ \A c \in Clients : P!ClientGoes(p, c) => Moves(p, c, pairings[p].server)
           /\ \A s \in Servers : P!ServerGoes(p, s) => Moves(p, pairings[p].client, s)
<1>1. ASSUME NEW c \in Clients, P!ClientGoes(p, c) PROVE Moves(p, c, pairings[p].server)
  <2> DEFINE r == [pairings[p] EXCEPT !.client = c]
  <2>1. /\ r \in P!Attempt
        /\ r.client = c /\ r.server = pairings[p].server
        /\ r.from = pairings[p].from /\ r.expires_at = pairings[p].expires_at
        /\ r.solo = pairings[p].solo /\ r.lasting = pairings[p].lasting
        /\ r.kept = pairings[p].kept
    <3>1. pairings[p] \in P!Attempt
      OBVIOUS
    <3> QED
      BY <3>1, Zenon DEF P!Attempt, Clients
  <2>2. pairings' = [pairings EXCEPT ![p] = r]
    BY <1>1, Zenon DEF P!ClientGoes
  <2> HIDE DEF r
  <2> QED
    BY <2>1, <2>2, OneChanges DEF Moves
<1>2. ASSUME NEW s \in Servers, P!ServerGoes(p, s) PROVE Moves(p, pairings[p].client, s)
  <2> DEFINE r == [pairings[p] EXCEPT !.server = s]
  <2>1. /\ r \in P!Attempt
        /\ r.client = pairings[p].client /\ r.server = s
        /\ r.from = pairings[p].from /\ r.expires_at = pairings[p].expires_at
        /\ r.solo = pairings[p].solo /\ r.lasting = pairings[p].lasting
        /\ r.kept = pairings[p].kept
    <3>1. pairings[p] \in P!Attempt
      OBVIOUS
    <3> QED
      BY <3>1, Zenon DEF P!Attempt, Servers
  <2>2. pairings' = [pairings EXCEPT ![p] = r]
    BY <1>2, Zenon DEF P!ServerGoes
  <2> HIDE DEF r
  <2> QED
    BY <2>1, <2>2, OneChanges DEF Moves
<1> QED
  BY <1>1, <1>2, Zenon

\* pair_fails moves both.
LEMMA FailsMoves ==
    ASSUME pairings \in Seq(P!Attempt), NEW p \in DOMAIN pairings, P!pair_fails(p)
    PROVE  Moves(p, "failed",
                 IF pairings[p].server \in {"answered", "refused"} THEN "gone" ELSE pairings[p].server)
<1> DEFINE s == IF pairings[p].server \in {"answered", "refused"} THEN "gone" ELSE pairings[p].server
<1>1. pairings' = [pairings EXCEPT ![p] = Moved(pairings[p], "failed", s)]
  BY Zenon DEF P!pair_fails, Moved
<1>2. pairings[p] \in P!Attempt /\ "failed" \in Clients /\ s \in Servers
  <2>1. pairings[p] \in P!Attempt
    OBVIOUS
  <2> QED
    BY <2>1 DEF P!Attempt, Clients, Servers
<1> HIDE DEF s
<1>3. Moved(pairings[p], "failed", s) \in P!Attempt
  BY <1>2, MovedIs
<1>4. Moves(p, "failed", s)
  BY <1>1, <1>2, <1>3, MovedIs, OneChanges DEF Moves
<1> QED
  BY <1>4 DEF s

Entries == {"room", "listed", "full"}

\* What the calls do to the registry of a node.
LEMMA SetPairedIs ==
    ASSUME paired \in [Nodes -> BOOLEAN], NEW n \in Nodes, NEW listed \in BOOLEAN,
           P!peer_registry_set_paired(n, listed)
    PROVE  /\ paired' \in [Nodes -> BOOLEAN] /\ (listed => paired'[n])
           /\ \A m \in Nodes : paired[m] => paired'[m]
  BY DEF P!peer_registry_set_paired

LEMMA AddIs ==
    ASSUME entry \in [Nodes -> Entries], NEW n \in Nodes, P!peer_registry_add_or_update(n)
    PROVE  /\ entry' \in [Nodes -> Entries]
           /\ \A m \in Nodes : entry[m] \in {"listed", "full"} => entry'[m] = entry[m]
  BY DEF P!peer_registry_add_or_update, Entries
-----------------------------------------------------------------------------
(* The first state.                                                        *)
LEMMA InitIInv == ASSUME P!ParametersOK, P!Init PROVE IInv
<1>1. P!TypeOK
  BY DEF P!ParametersOK, P!Init, P!TypeOK, P!NoRecord, P!Record
<1>2. HeldIsKept
  BY DEF P!Init, HeldIsKept, P!NoRecord
<1> QED
  BY <1>1, <1>2 DEF P!Init, IInv, Stages, SoloIsAlone, JobIsKept, LastIsHeld, AnsweredIsListed
-----------------------------------------------------------------------------
(* Each step keeps the invariant.                                          *)

\* A thread goes on and stores no token.  Nothing that has ended starts again; a
\* token was issued and a peer listed before either side says so.
LEMMA MoveKeeps ==
    ASSUME P!ParametersOK, IInv, NEW p \in DOMAIN pairings, NEW c \in Clients, NEW s \in Servers,
           Moves(p, c, s),
           UNCHANGED <<now, held, job, restarts>>,
           paired' \in [Nodes -> BOOLEAN], \A n \in Nodes : paired[n] => paired'[n],
           entry' \in [Nodes -> Entries],
           \A n \in Nodes : entry[n] \in {"listed", "full"} => entry'[n] = entry[n],
           c \in {"waiting", "stored"} => pairings[p].client \in {"waiting", "stored"},
           s \in {"arriving", "issued"} => pairings[p].server \in {"arriving", "issued"},
           c \in {"stored", "ok"} => s = "answered",
           pairings[p].kept => s = "answered" /\ c # "waiting",
           s \in {"issued", "answered"} => pairings[p].server \in {"issued", "answered"},
           s = "answered" => \/ paired'[P!To(p)] \/ entry'[P!To(p)] = "full"
                             \/ pairings[p].server = "answered",
           c = "ok" => paired'[P!From(p)],
           c \in {"stored", "ok"} => pairings[p].client \in {"stored", "ok"} \/ ~held[P!From(p)].active
    PROVE  IInv'
<1>1. /\ pairings \in Seq(P!Attempt) /\ pairings' \in Seq(P!Attempt)
      /\ DOMAIN pairings' = DOMAIN pairings /\ Len(pairings') = Len(pairings)
      /\ \A q \in DOMAIN pairings : q # p => pairings'[q] = pairings[q]
      /\ pairings'[p].client = c /\ pairings'[p].server = s
      /\ \A q \in DOMAIN pairings :
            /\ pairings[q] \in P!Attempt /\ P!From(q) \in Nodes
            /\ pairings'[q].from = pairings[q].from
            /\ pairings'[q].expires_at = pairings[q].expires_at
            /\ pairings'[q].solo = pairings[q].solo
            /\ pairings'[q].lasting = pairings[q].lasting
            /\ pairings'[q].kept = pairings[q].kept
  <2>1. pairings \in Seq(P!Attempt)
    BY DEF IInv, P!TypeOK
  <2>2. \A q \in DOMAIN pairings : pairings[q] \in P!Attempt /\ P!From(q) \in Nodes
    BY <2>1, Fields DEF P!From
  <2> QED
    BY <2>1, <2>2 DEF Moves
<1>2. P!TypeOK'
  <2>1. \A q \in DOMAIN pairings : pairings'[q].client = "stored" => pairings'[q].server = "answered"
    BY <1>1 DEF IInv, P!TypeOK
  <2> QED
    BY <1>1, <2>1, Zenon DEF IInv, P!TypeOK, Entries
<1>3. Stages'
  BY <1>1 DEF IInv, Stages
<1>4. SoloIsAlone'
  BY <1>1 DEF IInv, SoloIsAlone, P!Open
<1>5. HeldIsKept' /\ JobIsKept'
  <2>1. job # P!NoJob => job.token \in DOMAIN pairings
    BY DEF IInv, P!TypeOK
  <2> QED
    BY <1>1, <2>1 DEF IInv, HeldIsKept, JobIsKept, P!From
<1>6. LastIsHeld'
  <2>1. ASSUME NEW q \in DOMAIN pairings, NEW n \in Nodes, HasToken(n, q) PROVE HasToken(n, q)'
    BY <1>1, <2>1 DEF HasToken, P!Clock
  <2>2. \A q \in DOMAIN pairings : P!From(q)' = P!From(q) /\ P!To(q)' = P!To(q) /\ P!To(q) \in Nodes
    BY <1>1, TwoNodes DEF P!From, P!To
  <2> QED
    BY <1>1, <2>1, <2>2 DEF IInv, LastIsHeld
<1>7. AnsweredIsListed'
  BY <1>1, TwoNodes DEF IInv, AnsweredIsListed, P!From, P!To
<1> QED
  BY <1>2, <1>3, <1>4, <1>5, <1>6, <1>7 DEF IInv

\* The steps of that kind.
LEMMA ThreadKeeps ==
    ASSUME P!ParametersOK, IInv, NEW p \in DOMAIN pairings,
           \/ P!pair_fails(p) \/ P!pair_marks(p) \/ P!exchange_refuses(p) \/ P!exchange_marks(p) \/ P!loses(p)
    PROVE  IInv'
<1>1. /\ pairings \in Seq(P!Attempt) /\ pairings[p] \in P!Attempt
      /\ pairings[p].client \in Clients /\ pairings[p].server \in Servers
      /\ paired \in [Nodes -> BOOLEAN] /\ entry \in [Nodes -> Entries]
      /\ P!From(p) \in Nodes /\ P!To(p) \in Nodes
  <2>1. pairings \in Seq(P!Attempt) /\ paired \in [Nodes -> BOOLEAN] /\ entry \in [Nodes -> Entries]
    BY DEF IInv, P!TypeOK, Entries
  <2>2. pairings[p] \in P!Attempt
    BY <2>1
  <2> QED
    BY <2>1, <2>2, Fields, TwoNodes DEF P!From, P!To
<1>2. /\ pairings[p].client \in {"stored", "ok"} => pairings[p].server = "answered"
      /\ pairings[p].kept => pairings[p].server = "answered" /\ pairings[p].client # "waiting"
  BY DEF IInv, Stages
<1>3. /\ pairings[p].client = "ok" => paired[P!From(p)] \/ ~pairings[p].lasting
      /\ pairings[p].server = "answered" =>
            paired[P!To(p)] \/ entry[P!To(p)] = "full" \/ ~pairings[p].lasting
      /\ pairings[p].client \in {"waiting", "stored"} => entry[P!From(p)] = "listed"
  BY DEF IInv, AnsweredIsListed
<1>4. CASE P!pair_fails(p)
  <2> DEFINE s == IF pairings[p].server \in {"answered", "refused"} THEN "gone" ELSE pairings[p].server
  <2>1. Moves(p, "failed", s)
    BY <1>1, <1>4, FailsMoves
  <2>2. /\ pairings[p].client = "waiting" /\ ~pairings[p].kept
        /\ UNCHANGED <<now, held, entry, paired, job, restarts>>
    BY <1>2, <1>4 DEF P!pair_fails
  <2>3. s \in Servers /\ s # "answered" /\ "failed" \in Clients
        /\ (s \in {"arriving", "issued"} => pairings[p].server = s)
    BY <1>1 DEF Servers, Clients
  <2> HIDE DEF s
  <2> QED
    BY <1>1, <2>1, <2>2, <2>3, MoveKeeps
<1>5. CASE P!pair_marks(p)
  <2>1. Moves(p, "ok", pairings[p].server) /\ "ok" \in Clients
    BY <1>1, <1>5, GoesMoves DEF P!pair_marks, Clients
  <2>2. /\ pairings[p].client = "stored" /\ pairings[p].server = "answered"
        /\ UNCHANGED <<now, held, entry, job, restarts>>
    BY <1>2, <1>5 DEF P!pair_marks
  <2>3. /\ paired' \in [Nodes -> BOOLEAN] /\ paired'[P!From(p)]
        /\ \A n \in Nodes : paired[n] => paired'[n]
    <3>1. P!peer_registry_set_paired(P!From(p), entry[P!From(p)] = "listed") /\ entry[P!From(p)] = "listed"
      BY <1>3, <1>5 DEF P!pair_marks
    <3> QED
      BY <1>1, <3>1, SetPairedIs
  <2> QED
    BY <1>1, <2>1, <2>2, <2>3, MoveKeeps
<1>6. CASE P!exchange_refuses(p)
  <2>1. Moves(p, pairings[p].client, "refused") /\ "refused" \in Servers
    BY <1>1, <1>6, GoesMoves DEF P!exchange_refuses, Servers
  <2>2. /\ pairings[p].server = "arriving" /\ ~pairings[p].kept
        /\ pairings[p].client \notin {"stored", "ok"}
        /\ UNCHANGED <<now, held, entry, paired, job, restarts>>
    BY <1>2, <1>6 DEF P!exchange_refuses, P!ExchangeRuns
  <2> QED
    BY <1>1, <2>1, <2>2, MoveKeeps
<1>7. CASE P!exchange_marks(p)
  <2>1. Moves(p, pairings[p].client, "answered") /\ "answered" \in Servers
    BY <1>1, <1>7, GoesMoves DEF P!exchange_marks, Servers
  <2>2. /\ pairings[p].server = "issued" /\ ~pairings[p].kept
        /\ pairings[p].client \notin {"stored", "ok"}
        /\ UNCHANGED <<now, held, job, restarts>>
    BY <1>2, <1>7 DEF P!exchange_marks
  <2>3. /\ paired' \in [Nodes -> BOOLEAN] /\ (P!Marked(p) => paired'[P!To(p)])
        /\ \A n \in Nodes : paired[n] => paired'[n]
    <3>1. P!peer_registry_set_paired(P!To(p), P!Marked(p)) /\ P!Marked(p) \in BOOLEAN
      BY <1>7 DEF P!exchange_marks, P!Marked
    <3> QED
      BY <1>1, <3>1, SetPairedIs
  <2>4. /\ entry' \in [Nodes -> Entries]
        /\ \A n \in Nodes : entry[n] \in {"listed", "full"} => entry'[n] = entry[n]
    BY <1>1, <1>7, AddIs DEF P!exchange_marks
  <2>5. paired'[P!To(p)] \/ entry'[P!To(p)] = "full"
    BY <1>1, <2>3, <2>4 DEF P!Marked
  <2> QED
    BY <1>1, <2>1, <2>2, <2>3, <2>4, <2>5, MoveKeeps
<1>8. CASE P!loses(p)
  <2>1. Moves(p, pairings[p].client, "gone") /\ "gone" \in Servers
    BY <1>1, <1>8, GoesMoves DEF P!loses, Servers
  <2>2. /\ ~pairings[p].kept /\ pairings[p].client \notin {"stored", "ok"}
        /\ UNCHANGED <<now, held, entry, paired, job, restarts>>
    BY <1>2, <1>8 DEF P!loses, P!Answered
  <2> QED
    BY <1>1, <2>1, <2>2, MoveKeeps
<1> QED
  BY <1>4, <1>5, <1>6, <1>7, <1>8

\* What a stored token is.
LEMMA UpsertHolds ==
    ASSUME held \in [Nodes -> P!Record], NEW n \in Nodes, NEW p \in P!Ids, NEW x \in Nat,
           P!upsert_peer_token_locked(n, p, x)
    PROVE  /\ held' \in [Nodes -> P!Record]
           /\ held'[n].active /\ held'[n].token = p /\ held'[n].expires_at = x
           /\ \A m \in Nodes : m # n => held'[m] = held[m]
  BY DEF P!upsert_peer_token_locked, P!Record

\* pair_stores keeps it: the token is the asking node's now.  Any other pairing
\* that could lose by it has overlapped with this one.
LEMMA StoreKeeps ==
    ASSUME P!ParametersOK, IInv, NEW p \in DOMAIN pairings, P!pair_stores(p)
    PROVE  IInv'
<1>1. /\ pairings \in Seq(P!Attempt) /\ pairings[p] \in P!Attempt /\ p \in P!Ids
      /\ held \in [Nodes -> P!Record] /\ pairings[p].expires_at \in Nat
      /\ P!From(p) \in Nodes
      /\ pairings[p].client = "waiting" /\ pairings[p].server = "answered" /\ ~pairings[p].kept
      /\ UNCHANGED <<now, entry, paired, job, restarts>>
  <2>1. pairings \in Seq(P!Attempt) /\ held \in [Nodes -> P!Record] /\ Len(pairings) <= MaxPairings
    BY DEF IInv, P!TypeOK
  <2>2. pairings[p] \in P!Attempt /\ p \in P!Ids
    BY <2>1 DEF P!Ids, P!ParametersOK
  <2>3. pairings[p].client = "waiting" /\ pairings[p].server = "answered" /\ ~pairings[p].kept
    BY DEF P!pair_stores, P!Answered, IInv, Stages
  <2> QED
    BY <2>1, <2>2, <2>3, Fields DEF P!From, P!pair_stores
<1>2. CASE ~held[P!From(p)].active /\ P!ClientGoes(p, "stored") /\ UNCHANGED held
  <2>1. Moves(p, "stored", pairings[p].server) /\ "stored" \in Clients /\ pairings[p].server \in Servers
    BY <1>1, <1>2, GoesMoves, Fields DEF Clients
  <2>2. paired \in [Nodes -> BOOLEAN] /\ entry \in [Nodes -> Entries]
    BY DEF IInv, P!TypeOK, Entries
  <2> QED
    BY <1>1, <1>2, <2>1, <2>2, MoveKeeps
<1>3. CASE /\ P!upsert_peer_token_locked(P!From(p), p, pairings[p].expires_at)
           /\ pairings' = [pairings EXCEPT ![p].client = "stored", ![p].kept = TRUE]
  <2>1. pairings' = [pairings EXCEPT ![p] = Stored(pairings[p])]
    BY <1>3, Zenon DEF Stored
  <2>2. /\ pairings' \in Seq(P!Attempt)
        /\ DOMAIN pairings' = DOMAIN pairings /\ Len(pairings') = Len(pairings)
        /\ \A q \in DOMAIN pairings : q # p => pairings'[q] = pairings[q]
        /\ pairings'[p].client = "stored" /\ pairings'[p].server = "answered"
        /\ pairings'[p].kept
        /\ \A q \in DOMAIN pairings :
              /\ pairings[q] \in P!Attempt /\ P!From(q) \in Nodes /\ P!To(q) \in Nodes
              /\ pairings'[q].from = pairings[q].from
              /\ pairings'[q].expires_at = pairings[q].expires_at
              /\ pairings'[q].solo = pairings[q].solo
              /\ pairings'[q].lasting = pairings[q].lasting
              /\ pairings'[q].server = pairings[q].server
              /\ pairings[q].kept => pairings'[q].kept
    <3>1. Stored(pairings[p]) \in P!Attempt
      BY <1>1, StoredIs
    <3>2. \A q \in DOMAIN pairings : pairings[q] \in P!Attempt /\ P!From(q) \in Nodes /\ P!To(q) \in Nodes
      BY <1>1, Fields, TwoNodes DEF P!From, P!To
    <3>3. /\ pairings' \in Seq(P!Attempt)
          /\ DOMAIN pairings' = DOMAIN pairings /\ Len(pairings') = Len(pairings)
          /\ pairings'[p] = Stored(pairings[p])
          /\ \A q \in DOMAIN pairings : q # p => pairings'[q] = pairings[q]
      BY <1>1, <2>1, <3>1, OneChanges
    <3>4. /\ pairings'[p].client = "stored" /\ pairings'[p].server = pairings[p].server
          /\ pairings'[p].from = pairings[p].from
          /\ pairings'[p].expires_at = pairings[p].expires_at
          /\ pairings'[p].solo = pairings[p].solo /\ pairings'[p].lasting = pairings[p].lasting
          /\ pairings'[p].kept = TRUE
      BY <1>1, <3>3, StoredIs
    <3> QED
      BY <1>1, <3>2, <3>3, <3>4
  <2>3. /\ held' \in [Nodes -> P!Record]
        /\ held'[P!From(p)].active /\ held'[P!From(p)].token = p
        /\ held'[P!From(p)].expires_at = pairings[p].expires_at
        /\ \A m \in Nodes : m # P!From(p) => held'[m] = held[m]
    BY <1>1, <1>3, UpsertHolds
  <2>4. P!TypeOK'
    <3>1. \A q \in DOMAIN pairings : pairings'[q].client = "stored" => pairings'[q].server = "answered"
      BY <1>1, <2>2 DEF IInv, P!TypeOK
    <3> QED
      BY <1>1, <2>2, <2>3, <3>1, Zenon DEF IInv, P!TypeOK
  <2>5. Stages'
    BY <2>2 DEF IInv, Stages
  <2>6. SoloIsAlone'
    BY <1>1, <2>2 DEF IInv, SoloIsAlone, P!Open
  <2>7. HeldIsKept'
    BY <1>1, <2>2, <2>3 DEF IInv, HeldIsKept, P!From
  <2>8. JobIsKept'
    <3>1. job # P!NoJob => job.token \in DOMAIN pairings
      BY DEF IInv, P!TypeOK
    <3> QED
      BY <1>1, <2>2, <3>1 DEF IInv, JobIsKept, P!From
  <2>9. LastIsHeld'
    <3>1. SUFFICES ASSUME NEW q \in DOMAIN pairings, q = Len(pairings), pairings[q].solo, pairings[q].lasting
                   PROVE  /\ pairings'[q].server \in {"issued", "answered"} => HasToken(P!To(q), q)'
                          /\ pairings'[q].kept => HasToken(P!From(q), q)'
                          /\ pairings'[q].kept
      BY <2>2 DEF LastIsHeld, P!From, P!To
    <3>2. q = p
      BY <1>1, <3>1 DEF IInv, SoloIsAlone, P!Open
    <3>3. HasToken(P!To(p), p)
      BY <1>1, <3>1, <3>2 DEF IInv, LastIsHeld
    <3>4. P!To(p) \in Nodes /\ P!To(p) # P!From(p) /\ P!To(p)' = P!To(p) /\ P!From(p)' = P!From(p)
      BY <1>1, <2>2, TwoNodes DEF P!To, P!From
    <3>5. HasToken(P!To(p), p)'
      BY <1>1, <2>2, <2>3, <3>3, <3>4 DEF HasToken, P!Clock
    <3>6. HasToken(P!From(p), p)'
      BY <1>1, <2>2, <2>3, <3>4 DEF HasToken
    <3> QED
      BY <2>2, <3>2, <3>5, <3>6
  <2>10. AnsweredIsListed'
    BY <1>1, <2>2 DEF IInv, AnsweredIsListed, P!From, P!To
  <2> QED
    BY <2>4, <2>5, <2>6, <2>7, <2>8, <2>9, <2>10 DEF IInv
<1> QED
  BY <1>2, <1>3, Zenon DEF P!pair_stores

\* exchange_issues keeps it, for the same reason.
LEMMA IssueKeeps ==
    ASSUME P!ParametersOK, IInv, NEW p \in DOMAIN pairings, P!exchange_issues(p)
    PROVE  IInv'
<1> DEFINE x == P!Clock(P!To(p)) + TokenTTL
<1>1. /\ pairings \in Seq(P!Attempt) /\ pairings[p] \in P!Attempt /\ p \in P!Ids
      /\ held \in [Nodes -> P!Record]
      /\ P!From(p) \in Nodes /\ P!To(p) \in Nodes /\ P!To(p) # P!From(p)
      /\ pairings[p].server = "arriving" /\ ~pairings[p].kept
      /\ pairings[p].client \notin {"stored", "ok"}
      /\ UNCHANGED <<now, entry, paired, job, restarts>>
  <2>1. pairings \in Seq(P!Attempt) /\ held \in [Nodes -> P!Record] /\ Len(pairings) <= MaxPairings
    BY DEF IInv, P!TypeOK
  <2>2. pairings[p] \in P!Attempt /\ p \in P!Ids
    BY <2>1 DEF P!Ids, P!ParametersOK
  <2>3. pairings[p].server = "arriving" /\ ~pairings[p].kept /\ pairings[p].client \notin {"stored", "ok"}
    BY DEF P!exchange_issues, P!ExchangeRuns, IInv, Stages
  <2> QED
    BY <2>1, <2>2, <2>3, Fields, TwoNodes DEF P!From, P!To, P!exchange_issues
<1>2. x \in Nat
  BY <1>1 DEF IInv, P!TypeOK, P!ParametersOK, P!Clock
<1>3. P!upsert_peer_token_locked(P!To(p), p, x) /\ pairings' = [pairings EXCEPT ![p] = Issued(pairings[p], x)]
  BY Zenon DEF P!exchange_issues, Issued
<1> HIDE DEF x
<1>4. /\ pairings' \in Seq(P!Attempt)
      /\ DOMAIN pairings' = DOMAIN pairings /\ Len(pairings') = Len(pairings)
      /\ \A q \in DOMAIN pairings : q # p => pairings'[q] = pairings[q]
      /\ pairings'[p].server = "issued" /\ pairings'[p].expires_at = x
      /\ \A q \in DOMAIN pairings :
            /\ P!From(q) \in Nodes /\ P!To(q) \in Nodes
            /\ pairings'[q].from = pairings[q].from
            /\ pairings'[q].client = pairings[q].client
            /\ pairings'[q].solo = pairings[q].solo
            /\ pairings'[q].lasting = pairings[q].lasting
            /\ pairings'[q].kept = pairings[q].kept
  <2>1. Issued(pairings[p], x) \in P!Attempt
    BY <1>1, <1>2, IssuedIs
  <2>2. \A q \in DOMAIN pairings : pairings[q] \in P!Attempt /\ P!From(q) \in Nodes /\ P!To(q) \in Nodes
    BY <1>1, Fields, TwoNodes DEF P!From, P!To
  <2>3. /\ pairings' \in Seq(P!Attempt)
        /\ DOMAIN pairings' = DOMAIN pairings /\ Len(pairings') = Len(pairings)
        /\ pairings'[p] = Issued(pairings[p], x)
        /\ \A q \in DOMAIN pairings : q # p => pairings'[q] = pairings[q]
    BY <1>1, <1>3, <2>1, OneChanges
  <2>4. /\ pairings'[p].client = pairings[p].client /\ pairings'[p].server = "issued"
        /\ pairings'[p].from = pairings[p].from /\ pairings'[p].expires_at = x
        /\ pairings'[p].solo = pairings[p].solo /\ pairings'[p].lasting = pairings[p].lasting
        /\ pairings'[p].kept = pairings[p].kept
    <3> DEFINE r == Issued(pairings[p], x)
    <3>1. /\ r.client = pairings[p].client /\ r.server = "issued"
          /\ r.from = pairings[p].from /\ r.expires_at = x
          /\ r.solo = pairings[p].solo /\ r.lasting = pairings[p].lasting
          /\ r.kept = pairings[p].kept
      BY <1>1, <1>2, IssuedIs, Zenon
    <3> QED
      BY <2>3, <3>1, Zenon
  <2> QED
    BY <2>2, <2>3, <2>4
<1>5. /\ held' \in [Nodes -> P!Record]
      /\ held'[P!To(p)].active /\ held'[P!To(p)].token = p /\ held'[P!To(p)].expires_at = x
      /\ \A m \in Nodes : m # P!To(p) => held'[m] = held[m]
  BY <1>1, <1>2, <1>3, UpsertHolds
<1>6. P!TypeOK'
  <2>1. \A q \in DOMAIN pairings : pairings'[q].client = "stored" => pairings'[q].server = "answered"
    BY <1>1, <1>4 DEF IInv, P!TypeOK
  <2> QED
    BY <1>1, <1>4, <1>5, <2>1, Zenon DEF IInv, P!TypeOK
<1>7. Stages'
  BY <1>1, <1>4 DEF IInv, Stages
<1>8. SoloIsAlone'
  BY <1>1, <1>4 DEF IInv, SoloIsAlone, P!Open
<1>9. HeldIsKept'
  <2>1. SUFFICES ASSUME NEW m \in Nodes, held'[m].active
                 PROVE  /\ held'[m].token \in DOMAIN pairings
                        /\ m = pairings[held'[m].token].from => pairings[held'[m].token].kept
    BY <1>4 DEF HeldIsKept, P!From
  <2>2. CASE m = P!To(p)
    BY <1>1, <1>5, <2>2 DEF P!From
  <2>3. CASE m # P!To(p)
    BY <1>5, <2>1, <2>3 DEF IInv, HeldIsKept, P!From
  <2> QED
    BY <2>2, <2>3
<1>10. JobIsKept'
  <2>1. job # P!NoJob => job.token \in DOMAIN pairings
    BY DEF IInv, P!TypeOK
  <2> QED
    BY <1>1, <1>4, <2>1 DEF IInv, JobIsKept, P!From
<1>11. LastIsHeld'
  <2>1. SUFFICES ASSUME NEW q \in DOMAIN pairings, q = Len(pairings), pairings[q].solo, pairings[q].lasting
                 PROVE  /\ pairings'[q].server \in {"issued", "answered"} => HasToken(P!To(q), q)'
                        /\ pairings'[q].kept => HasToken(P!From(q), q)'
                        /\ pairings[q].client \notin {"stored", "ok"}
    BY <1>4 DEF LastIsHeld, P!From, P!To
  <2>2. q = p
    BY <1>1, <2>1 DEF IInv, SoloIsAlone, P!Open
  <2>3. P!To(p)' = P!To(p) /\ ~pairings'[p].kept
    BY <1>1, <1>4 DEF P!To
  <2>4. HasToken(P!To(p), p)'
    BY <1>1, <1>4, <1>5, <2>3 DEF HasToken
  <2> QED
    BY <1>1, <2>2, <2>3, <2>4
<1>12. AnsweredIsListed'
  BY <1>1, <1>4 DEF IInv, AnsweredIsListed, P!From, P!To
<1> QED
  BY <1>6, <1>7, <1>8, <1>9, <1>10, <1>11, <1>12 DEF IInv

\* pair_start keeps it: a new pairing holds nothing yet, and is solo only if no
\* other is open.
LEMMA StartKeeps ==
    ASSUME P!ParametersOK, IInv, NEW n \in Nodes, P!pair_start(n)
    PROVE  IInv'
<1> DEFINE solo == \A p \in DOMAIN pairings : ~P!Open(p)
           new == [from |-> n, client |-> "waiting", server |-> "arriving", expires_at |-> 0,
                   solo |-> solo, lasting |-> TRUE, kept |-> FALSE]
           old == [p \in DOMAIN pairings |-> IF P!Open(p) THEN Crossed(pairings[p]) ELSE pairings[p]]
           len == Len(pairings)
<1>1. /\ pairings \in Seq(P!Attempt) /\ len \in Nat /\ DOMAIN pairings = 1 .. len /\ len < MaxPairings
      /\ \A q \in DOMAIN pairings : pairings[q] \in P!Attempt
      /\ UNCHANGED <<now, held, entry, paired, job, restarts>> /\ entry[n] = "listed"
  BY DEF IInv, P!TypeOK, P!pair_start
<1>2. pairings' = Append(old, new)
  BY Zenon DEF P!pair_start, Crossed
<1>3. /\ new \in P!Attempt /\ new.client = "waiting" /\ new.server = "arriving"
      /\ new.from = n /\ new.lasting /\ ~new.kept
      /\ new.solo => \A p \in DOMAIN pairings : ~P!Open(p)
  BY Zenon DEF P!Attempt
<1>4. /\ old \in Seq(P!Attempt) /\ Len(old) = len
      /\ \A q \in DOMAIN pairings :
            /\ P!Open(q) => ~old[q].solo
            /\ old[q].from = pairings[q].from
            /\ old[q].client = pairings[q].client
            /\ old[q].server = pairings[q].server
            /\ old[q].lasting = pairings[q].lasting
            /\ old[q].kept = pairings[q].kept
  <2>1. ASSUME NEW q \in DOMAIN pairings
        PROVE  /\ old[q] \in P!Attempt
               /\ P!Open(q) => old[q].solo = FALSE
               /\ old[q].from = pairings[q].from
               /\ old[q].client = pairings[q].client
               /\ old[q].server = pairings[q].server
               /\ old[q].lasting = pairings[q].lasting
               /\ old[q].kept = pairings[q].kept
    <3>1. pairings[q] \in P!Attempt
      BY <1>1
    <3>2. CASE P!Open(q)
      <4>1. old[q] = Crossed(pairings[q])
        BY <3>2
      <4> QED
        BY <3>1, <3>2, <4>1, CrossedIs, Zenon
    <3>3. CASE ~P!Open(q)
      <4>1. old[q] = pairings[q]
        BY <3>3
      <4> QED
        BY <3>1, <3>3, <4>1, Zenon
    <3> QED
      BY <3>2, <3>3, Zenon
  <2>2. DOMAIN old = 1 .. len
    BY <1>1
  <2>3. old = [q \in 1 .. len |-> old[q]]
    BY <1>1
  <2> HIDE DEF old
  <2>4. len \in Nat /\ \A q \in 1 .. len : old[q] \in P!Attempt
    BY <1>1, <2>1
  <2>5. old \in Seq(P!Attempt) /\ Len(old) = len
    <3> HIDE DEF len
    <3> QED
      BY <2>3, <2>4
  <2> QED
    BY <2>1, <2>5
<1> HIDE DEF new, old
<1>5. /\ pairings' \in Seq(P!Attempt) /\ Len(pairings') = len + 1 /\ DOMAIN pairings' = 1 .. len + 1
      /\ pairings'[len + 1] = new
      /\ \A q \in DOMAIN pairings : q \in DOMAIN pairings' /\ q # len + 1 /\ pairings'[q] = old[q]
      /\ \A q \in DOMAIN pairings' : q \in DOMAIN pairings \/ q = len + 1
  BY <1>1, <1>2, <1>3, <1>4
<1>6. \A q \in DOMAIN pairings :
         /\ pairings'[q].from = pairings[q].from
         /\ pairings'[q].client = pairings[q].client
         /\ pairings'[q].server = pairings[q].server
         /\ pairings'[q].lasting = pairings[q].lasting
         /\ pairings'[q].kept = pairings[q].kept
  BY <1>4, <1>5
<1>7. P!TypeOK'
  <2>1. \A q \in DOMAIN pairings' : pairings'[q].client = "stored" => pairings'[q].server = "answered"
    BY <1>3, <1>5, <1>6 DEF IInv, P!TypeOK
  <2>2. job' = P!NoJob \/ job' \in [from : Nodes, token : DOMAIN pairings']
    BY <1>1, <1>5 DEF IInv, P!TypeOK
  <2>3. len + 1 <= MaxPairings
    BY <1>1 DEF P!ParametersOK
  <2> QED
    BY <1>1, <1>5, <2>1, <2>2, <2>3, Zenon DEF IInv, P!TypeOK
<1>8. Stages'
  BY <1>3, <1>5, <1>6 DEF IInv, Stages
<1>9. SoloIsAlone'
  <2>1. \A q \in DOMAIN pairings : P!Open(q)' <=> P!Open(q)
    BY <1>6 DEF P!Open
  <2> QED
    BY <1>1, <1>3, <1>5, <2>1 DEF SoloIsAlone
<1>10. HeldIsKept' /\ JobIsKept'
  <2>1. job # P!NoJob => job.token \in DOMAIN pairings
    BY DEF IInv, P!TypeOK
  <2> QED
    BY <1>1, <1>5, <1>6, <2>1 DEF IInv, HeldIsKept, JobIsKept, P!From
<1>11. LastIsHeld'
  BY <1>1, <1>3, <1>5 DEF LastIsHeld
<1>12. AnsweredIsListed'
  BY <1>1, <1>3, <1>5, <1>6 DEF IInv, AnsweredIsListed, P!From, P!To
<1> QED
  BY <1>7, <1>8, <1>9, <1>10, <1>11, <1>12 DEF IInv

\* restart keeps it: no pairing so far is lasting.
LEMMA RestartKeeps ==
    ASSUME P!ParametersOK, IInv, NEW n \in Nodes, P!restart(n)
    PROVE  IInv'
<1> DEFINE C(p) == IF P!From(p) = n /\ pairings[p].client \in {"waiting", "stored"}
                   THEN "failed" ELSE pairings[p].client
           S(p) == IF P!To(p) = n /\ pairings[p].server \in {"arriving", "issued"}
                   THEN "gone" ELSE pairings[p].server
           E(p) == Ended(pairings[p], C(p), S(p))
<1>1. /\ pairings \in Seq(P!Attempt) /\ Len(pairings) \in Nat /\ DOMAIN pairings = 1 .. Len(pairings)
      /\ \A q \in DOMAIN pairings : pairings[q] \in P!Attempt
  BY DEF IInv, P!TypeOK
<1>2. /\ pairings' = [p \in DOMAIN pairings |-> E(p)]
      /\ restarts < MaxRestarts /\ restarts' = restarts + 1 /\ now' = now
      /\ held' = [held EXCEPT ![n] = P!NoRecord]
      /\ entry' = [entry EXCEPT ![n] = "room"]
      /\ paired' = [paired EXCEPT ![n] = FALSE]
      /\ job' \in {P!NoJob, job}
  BY Zenon DEF P!restart, Ended
<1>3. ASSUME NEW q \in DOMAIN pairings
      PROVE  /\ E(q) \in P!Attempt /\ E(q).client = C(q) /\ E(q).server = S(q)
             /\ E(q).from = pairings[q].from /\ E(q).solo = pairings[q].solo
             /\ E(q).lasting = FALSE /\ E(q).kept = pairings[q].kept
  <2>1. pairings[q] \in P!Attempt
    BY <1>1
  <2>2. C(q) \in Clients /\ S(q) \in Servers
    BY <2>1, Fields DEF Clients, Servers
  <2> HIDE DEF C, S
  <2> QED
    BY <2>1, <2>2, EndedIs
<1> HIDE DEF E
<1>4. /\ pairings' \in Seq(P!Attempt)
      /\ DOMAIN pairings' = DOMAIN pairings /\ Len(pairings') = Len(pairings)
      /\ \A q \in DOMAIN pairings : pairings'[q] = E(q)
  <2>1. \A q \in 1 .. Len(pairings) : E(q) \in P!Attempt
    BY <1>1, <1>3
  <2> DEFINE len == Len(pairings)
  <2>2. len \in Nat /\ pairings' = [p \in 1 .. len |-> E(p)] /\ DOMAIN pairings = 1 .. len
    BY <1>1, <1>2
  <2>3. /\ pairings' \in Seq(P!Attempt) /\ DOMAIN pairings' = 1 .. len /\ Len(pairings') = len
        /\ \A q \in 1 .. len : pairings'[q] = E(q)
    <3>1. \A q \in 1 .. len : E(q) \in P!Attempt
      BY <2>1
    <3> HIDE DEF len
    <3> QED
      BY <2>2, <3>1
  <2> QED
    BY <2>2, <2>3
<1>5. \A q \in DOMAIN pairings :
         /\ pairings'[q].client = C(q) /\ pairings'[q].server = S(q)
         /\ pairings'[q].from = pairings[q].from /\ pairings'[q].solo = pairings[q].solo
         /\ ~pairings'[q].lasting /\ pairings'[q].kept = pairings[q].kept
  BY <1>3, <1>4
<1>6. /\ held' \in [Nodes -> P!Record] /\ ~held'[n].active
      /\ \A m \in Nodes : m # n => held'[m] = held[m]
  BY <1>2 DEF IInv, P!TypeOK, P!NoRecord, P!Record
<1>7. P!TypeOK'
  <2>1. \A q \in DOMAIN pairings : pairings'[q].client = "stored" => pairings'[q].server = "answered"
    BY <1>5 DEF IInv, P!TypeOK
  <2>2. /\ paired' \in [Nodes -> BOOLEAN] /\ restarts' \in 0 .. MaxRestarts
        /\ entry' \in [Nodes -> {"room", "listed", "full"}]
    BY <1>2 DEF IInv, P!TypeOK, P!ParametersOK
  <2>3. job' = P!NoJob \/ job' \in [from : Nodes, token : DOMAIN pairings]
    BY <1>2, Zenon DEF IInv, P!TypeOK
  <2> QED
    BY <1>2, <1>4, <1>6, <2>1, <2>2, <2>3, Zenon DEF IInv, P!TypeOK
<1>8. Stages'
  BY <1>4, <1>5 DEF IInv, Stages
<1>9. SoloIsAlone'
  BY <1>4, <1>5 DEF IInv, SoloIsAlone, P!Open
<1>10. HeldIsKept'
  BY <1>4, <1>5, <1>6 DEF IInv, HeldIsKept, P!From
<1>11. JobIsKept'
  <2>1. job # P!NoJob => job.token \in DOMAIN pairings
    BY DEF IInv, P!TypeOK
  <2> QED
    BY <1>2, <1>5, <2>1 DEF IInv, JobIsKept, P!From
<1>12. LastIsHeld'
  BY <1>4, <1>5 DEF LastIsHeld
<1>13. AnsweredIsListed'
  <2>1. ASSUME NEW q \in DOMAIN pairings, C(q) \in {"waiting", "stored"}
        PROVE  entry'[P!From(q)] = "listed"
    <3>1. P!From(q) # n /\ pairings[q].client \in {"waiting", "stored"} /\ P!From(q) \in Nodes
      BY <1>1, <2>1, Fields DEF P!From
    <3> QED
      BY <1>2, <3>1 DEF IInv, AnsweredIsListed, P!TypeOK
  <2> QED
    BY <1>4, <1>5, <2>1 DEF AnsweredIsListed, P!From
<1> QED
  BY <1>7, <1>8, <1>9, <1>10, <1>11, <1>12, <1>13 DEF IInv

\* A registry that grows lists no fewer.
LEMMA GrowKeeps ==
    ASSUME P!ParametersOK, IInv, NEW n \in Nodes, P!registry_grows(n)
    PROVE  IInv'
<1>1. UNCHANGED <<now, pairings, held, paired, job, restarts>>
  BY DEF P!registry_grows
<1>2. /\ entry' \in [Nodes -> {"room", "listed", "full"}]
      /\ \A m \in Nodes : entry[m] \in {"listed", "full"} => entry'[m] = entry[m]
  BY DEF P!registry_grows, IInv, P!TypeOK
<1>3. P!TypeOK'
  BY <1>1, <1>2, Zenon DEF IInv, P!TypeOK
<1>4. Stages' /\ SoloIsAlone' /\ HeldIsKept' /\ JobIsKept'
  BY <1>1 DEF IInv, Stages, SoloIsAlone, P!Open, HeldIsKept, JobIsKept, P!From
<1>5. LastIsHeld'
  BY <1>1 DEF IInv, LastIsHeld, HasToken, P!Clock, P!From, P!To
<1>6. AnsweredIsListed'
  <2>1. \A q \in DOMAIN pairings : P!From(q) \in Nodes /\ P!To(q) \in Nodes
    <3>1. \A q \in DOMAIN pairings : pairings[q] \in P!Attempt
      BY DEF IInv, P!TypeOK
    <3> QED
      BY <3>1, Fields, TwoNodes DEF P!From, P!To
  <2> QED
    BY <1>1, <1>2, <2>1 DEF IInv, AnsweredIsListed, P!From, P!To
<1> QED
  BY <1>3, <1>4, <1>5, <1>6 DEF IInv

\* A lookup clears an expired record only; time brings expiry only nearer.
LEMMA TimeKeeps ==
    ASSUME P!ParametersOK, IInv, (\E n \in Nodes : P!passes(n)) \/ P!tick
    PROVE  IInv'
<1>1. /\ UNCHANGED <<pairings, entry, paired, job, restarts>>
      /\ pairings \in Seq(P!Attempt)
      /\ \A q \in DOMAIN pairings : pairings[q] \in P!Attempt
  BY DEF P!passes, P!tick, IInv, P!TypeOK
<1>2. /\ held' \in [Nodes -> P!Record] /\ now' \in 0 .. MaxTime /\ now <= now'
      /\ \A m \in Nodes : \/ held'[m] = held[m]
                          \/ ~held'[m].active /\ now' = now /\ held[m].expires_at <= P!Clock(m)
  <2>1. held \in [Nodes -> P!Record] /\ now \in 0 .. MaxTime /\ MaxTime \in Nat
    BY DEF IInv, P!TypeOK, P!ParametersOK
  <2>2. ASSUME NEW n \in Nodes, P!passes(n)
        PROVE  /\ held' \in [Nodes -> P!Record] /\ now' = now
               /\ \A m \in Nodes : m # n => held'[m] = held[m]
               /\ ~held'[n].active /\ held[n].expires_at <= P!Clock(n)
    BY <2>1, <2>2 DEF P!passes, P!Expired, P!NoRecord, P!Record
  <2>3. CASE P!tick
    BY <2>1, <2>3 DEF P!tick
  <2> QED
    BY <2>1, <2>2, <2>3
<1>3. P!TypeOK'
  BY <1>1, <1>2, Zenon DEF IInv, P!TypeOK
<1>4. Stages' /\ SoloIsAlone' /\ JobIsKept' /\ AnsweredIsListed'
  BY <1>1 DEF IInv, Stages, SoloIsAlone, P!Open, JobIsKept, P!From, AnsweredIsListed, P!To
<1>5. HeldIsKept'
  BY <1>1, <1>2 DEF IInv, HeldIsKept, P!From
<1>6. ASSUME NEW q \in DOMAIN pairings, NEW m \in Nodes, HasToken(m, q)
      PROVE  HasToken(m, q)'
  <2>1. /\ pairings[q].expires_at \in Nat /\ P!Clock(m) \in Nat /\ P!Clock(m)' \in Nat
        /\ P!Clock(m) <= P!Clock(m)' /\ (now' = now => P!Clock(m)' = P!Clock(m))
    BY <1>1, <1>2, Fields DEF P!Clock, P!ParametersOK, IInv, P!TypeOK
  <2> QED
    BY <1>1, <1>2, <1>6, <2>1 DEF HasToken
<1>7. LastIsHeld'
  <2>1. \A q \in DOMAIN pairings : P!From(q) \in Nodes /\ P!To(q) \in Nodes /\ P!From(q)' = P!From(q) /\ P!To(q)' = P!To(q)
    BY <1>1, Fields, TwoNodes DEF P!From, P!To
  <2> QED
    BY <1>1, <1>2, <1>6, <2>1 DEF IInv, LastIsHeld
<1> QED
  BY <1>3, <1>4, <1>5, <1>7 DEF IInv

\* The steps of a job, and steps that change nothing.
LEMMA JobKeeps ==
    ASSUME P!ParametersOK, IInv, (\E n \in Nodes : P!send(n)) \/ P!upload \/ UNCHANGED P!vars
    PROVE  IInv'
<1>1. UNCHANGED <<now, pairings, held, entry, paired, restarts>>
  BY DEF P!send, P!upload, P!vars
<1>2. /\ job' = P!NoJob \/ job' \in [from : Nodes, token : DOMAIN pairings]
      /\ JobIsKept'
  <2>1. ASSUME NEW n \in Nodes, P!send(n) 
        PROVE  job' \in [from : Nodes, token : DOMAIN pairings] /\ JobIsKept'
    <3>1. held[n].active /\ job' = [from |-> n, token |-> held[n].token]
      BY <2>1 DEF P!send, P!Live
    <3>2. held[n].token \in DOMAIN pairings
      BY <3>1 DEF IInv, HeldIsKept
    <3>3. job'.from = n /\ job'.token = held[n].token
      BY <3>1
    <3>4. JobIsKept'
      BY <1>1, <3>1, <3>2, <3>3 DEF IInv, HeldIsKept, JobIsKept, P!From
    <3> QED
      BY <3>1, <3>2, <3>4
  <2>2. CASE P!upload
    BY <2>2 DEF P!upload, JobIsKept
  <2>3. CASE UNCHANGED P!vars
    BY <2>3 DEF P!vars, IInv, P!TypeOK, JobIsKept, P!From
  <2> QED
    BY <2>1, <2>2, <2>3, Zenon
<1>3. P!TypeOK'
  BY <1>1, <1>2, Zenon DEF IInv, P!TypeOK
<1>4. Stages' /\ SoloIsAlone' /\ HeldIsKept' /\ AnsweredIsListed'
  BY <1>1 DEF IInv, Stages, SoloIsAlone, P!Open, HeldIsKept, P!From, AnsweredIsListed, P!To
<1>5. LastIsHeld'
  BY <1>1 DEF IInv, LastIsHeld, HasToken, P!Clock, P!From, P!To
<1> QED
  BY <1>2, <1>3, <1>4, <1>5 DEF IInv
-----------------------------------------------------------------------------
(* What follows.                                                           *)

LEMMA Invariance == ASSUME P!ParametersOK PROVE P!Spec => []IInv
<1>1. ASSUME IInv, [P!Next]_(P!vars) PROVE IInv'
  <2>1. ASSUME NEW p \in DOMAIN pairings, P!Handlers(p) \/ P!pair_fails(p) \/ P!loses(p) PROVE IInv'
    BY <1>1, <2>1, ThreadKeeps, StoreKeeps, IssueKeeps DEF P!Handlers
  <2>2. ASSUME NEW n \in Nodes, P!pair_start(n) \/ P!restart(n) PROVE IInv'
    BY <1>1, <2>2, StartKeeps, RestartKeeps
  <2> QED
    BY <1>1, <2>1, <2>2, GrowKeeps, TimeKeeps, JobKeeps DEF P!Next
<1> QED
  BY <1>1, InitIInv, PTL DEF P!Spec

\* Every state that is reached has its type.
THEOREM TypeCorrect == ASSUME P!ParametersOK PROVE P!Spec => []P!TypeOK
<1>1. IInv => P!TypeOK
  BY DEF IInv
<1> QED
  BY <1>1, Invariance, PTL

\* SuccessIsMutual: what the success of /api/pair is worth.  Both nodes hold the
\* token, and list each other as paired, but for the two results that the code
\* ignores: then the node that asked holds no token, or the table of the other is
\* full.
THEOREM SuccessesAreMutual == P!Spec => []SuccessIsMutual
<1>1. ASSUME IInv PROVE P!SuccessIsMutual
  <2>1. \A p \in DOMAIN pairings : P!From(p) \in Nodes /\ \A n \in Nodes : n = P!From(p) \/ n = P!To(p)
    <3>1. \A p \in DOMAIN pairings : pairings[p] \in P!Attempt
      BY <1>1 DEF IInv, P!TypeOK
    <3> QED
      BY <3>1, Fields, TwoNodes, ParametersAssumption DEF P!From, P!To
  <2>2. P!SettledAgrees
    BY <1>1, <2>1 DEF P!SettledAgrees, P!Settles, P!HasOrExpired, IInv, Stages, LastIsHeld, HasToken
  <2>3. P!BothListed
    BY <1>1, <2>1 DEF P!BothListed, IInv, Stages, AnsweredIsListed
  <2> QED
    BY <2>2, <2>3 DEF P!SuccessIsMutual
<1> QED
  BY <1>1, Invariance, ParametersAssumption, PTL DEF SuccessIsMutual

\* RefusedForReason: when the other node refuses the token of a queued file, the
\* token expired there, a node restarted, or another pairing came in between.
THEOREM RefusalsHaveReasons == P!Spec => []RefusedForReason
<1>1. ASSUME IInv PROVE P!RefusedForReason
  <2> DEFINE p == job.token
             n == P!Other(job.from)
  <2>1. SUFFICES ASSUME job # P!NoJob, ~(pairings[p].expires_at <= P!Clock(n)),
                        pairings[p].lasting, pairings[p].solo, ~(p < Len(pairings)),
                        ~(job.from = P!To(p) /\ ~pairings[p].kept)
                 PROVE  P!Accepts(n, p)
    BY DEF P!RefusedForReason
  <2>2. job.from \in Nodes /\ p \in DOMAIN pairings /\ pairings[p] \in P!Attempt /\ n \in Nodes
    BY <1>1, <2>1, TwoNodes, ParametersAssumption DEF IInv, P!TypeOK
  <2>3. p = Len(pairings)
    BY <1>1, <2>1, <2>2 DEF IInv, P!TypeOK
  <2>4. pairings[p].kept /\ n \in {P!From(p), P!To(p)}
    <3>1. P!From(p) \in Nodes /\ \A m \in Nodes : m \in {P!From(p), P!To(p)}
      BY <2>2, Fields, TwoNodes, ParametersAssumption DEF P!From, P!To
    <3>2. job.from = P!From(p) => pairings[p].kept
      BY <1>1, <2>1 DEF IInv, JobIsKept
    <3> QED
      BY <2>1, <2>2, <3>1, <3>2
  <2>5. HasToken(n, p)
    BY <1>1, <2>1, <2>2, <2>3, <2>4 DEF IInv, LastIsHeld, Stages
  <2> QED
    BY <2>1, <2>5 DEF HasToken, P!Accepts, P!Live, P!Expired
<1> QED
  BY <1>1, Invariance, ParametersAssumption, PTL DEF RefusedForReason
-----------------------------------------------------------------------------
(* The run.                                                                *)

\* What is proved of the pairings, here, and of the list, in PeersProofs, holds of
\* the specification that TLC checks: to each the other's steps are stutters.
LEMMA PeersParts == PeersSpec => Spec /\ P!Spec
<1>1. PeersInit => Init /\ P!Init
  BY DEF PeersInit
<1>2. [PeersNext]_<<about, vars, pairingVars>> => [Next]_vars /\ [P!Next]_(P!vars)
  BY DEF PeersNext, pairingVars, P!vars
<1> QED
  BY <1>1, <1>2, PTL DEF PeersSpec, Spec, P!Spec
================================================================================
