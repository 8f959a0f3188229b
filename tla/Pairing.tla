-------------------------------- MODULE Pairing --------------------------------
(***************************************************************************)
(* Pairing between two nodes: /api/pair on one (src/server.c) asks         *)
(* /api/pair/exchange on the other through transfer_pair_peer              *)
(* (src/transfer.c); afterwards /api/send and /upload use the token.       *)
(* Every request has a thread, so pairings may overlap, in one direction   *)
(* or in both.  A request or an answer may be lost; the asking side gives  *)
(* up after 30 s, while the other side may still handle the request.       *)
(*                                                                         *)
(* The tables of PeerTokens are reduced to what concerns the two nodes:    *)
(* each node's record for the other.  Whether other peers fill the rest is *)
(* left open.  Of each registry it is kept whether the other node is       *)
(* listed, and if not, whether there is room; a listed peer stays active   *)
(* (see PeerRegistry for the rest).                                        *)
(* The token of a pairing is named by the pairing that issued it.          *)
(***************************************************************************)
EXTENDS Integers, Sequences

CONSTANTS
    Nodes,        \* the two
    Offset,       \* how far the clock of each node is ahead of the slower one
    TokenTTL,     \* the seven days of auth_issue_pair_token
    MaxPairings,  \* bound on the pairings asked for
    MaxRestarts,  \* bound on the restarts
    MaxTime       \* bound on the time

\* What is assumed of the constants.
ParametersOK ==
    /\ \E m, n \in Nodes : m # n /\ Nodes = {m, n}
    /\ Offset \in [Nodes -> Nat]
    /\ TokenTTL \in Nat \ {0}
    /\ MaxPairings \in Nat /\ MaxRestarts \in Nat /\ MaxTime \in Nat

Other(n) == CHOOSE m \in Nodes : m # n

VARIABLES
    now,
    pairings,  \* the pairings asked for so far
    held,      \* each node's record for the other
    entry,     \* the other node in each node's registry: not there and room for it,
               \* listed, or not there and the table full of others
    paired,    \* the peer is listed as paired
    job,       \* a file queued for the other node, with the token it has
    restarts

vars == <<now, pairings, held, entry, paired, job, restarts>>

Ids == 1 .. MaxPairings

\* The thread of /api/pair and the one of /api/pair/exchange.  History: no other
\* pairing was open at the same time; no node restarted since; the result of
\* auth_store_peer_token, which the code does not look at.
Attempt == [from : Nodes,
            client : {"waiting", "stored", "ok", "failed"},
            server : {"arriving", "issued", "answered", "refused", "gone"},
            expires_at : Nat,
            solo : BOOLEAN, lasting : BOOLEAN, kept : BOOLEAN]

Record == [active : BOOLEAN, token : Ids \cup {0}, expires_at : Nat]
NoRecord == [active |-> FALSE, token |-> 0, expires_at |-> 0]
NoJob == [from |-> "nobody", token |-> 0]

Clock(n) == now + Offset[n]
Expired(n) == held[n].active /\ held[n].expires_at <= Clock(n)
Live(n) == held[n].active /\ ~Expired(n)

From(p) == pairings[p].from
To(p) == Other(pairings[p].from)
Open(p) ==
    \/ pairings[p].client \in {"waiting", "stored"}
    \/ pairings[p].server \in {"arriving", "issued"}
ClientGoes(p, c) == pairings' = [pairings EXCEPT ![p].client = c]
ServerGoes(p, s) == pairings' = [pairings EXCEPT ![p].server = s]
-----------------------------------------------------------------------------
(* The token records.                                                      *)

Mut_upsert_keeps_live(n, p, x) ==
    held' = IF Live(n) THEN held
            ELSE [held EXCEPT ![n] = [active |-> TRUE, token |-> p, expires_at |-> x]]
\* upsert_peer_token_locked reuses the peer's record, even an expired one, else
\* it takes a free one.
upsert_peer_token_locked(n, p, x) ==
    held' = [held EXCEPT ![n] = [active |-> TRUE, token |-> p, expires_at |-> x]]
-----------------------------------------------------------------------------
(* The registry of node n, as far as it concerns the other node.           *)

\* peer_registry_add_or_update: -1 if the table is full of others.
peer_registry_add_or_update(n) ==
    entry' = [entry EXCEPT ![n] = IF @ = "full" THEN @ ELSE "listed"]

\* peer_registry_set_paired: -1 if the other node is not listed.
peer_registry_set_paired(n, listed) ==
    paired' = [paired EXCEPT ![n] = @ \/ listed]

\* The network: the other node is discovered, or others are until the table is
\* full.
registry_grows(n) ==
    /\ entry[n] = "room"
    /\ \E e \in {"listed", "full"} : entry' = [entry EXCEPT ![n] = e]
    /\ UNCHANGED <<now, pairings, held, paired, job, restarts>>
-----------------------------------------------------------------------------
(* /api/pair on the asking node.                                           *)

\* The target is found in the registry; transfer_pair_peer sends it the code the
\* user typed.
pair_start(n) ==
    /\ Len(pairings) < MaxPairings
    /\ entry[n] = "listed"
    /\ LET solo == \A p \in DOMAIN pairings : ~Open(p) IN
       pairings' = Append(
           [p \in DOMAIN pairings |-> IF Open(p) THEN [pairings[p] EXCEPT !.solo = FALSE]
                                                 ELSE pairings[p]],
           [from |-> n, client |-> "waiting", server |-> "arriving",
            expires_at |-> 0, solo |-> solo, lasting |-> TRUE, kept |-> FALSE])
    /\ UNCHANGED <<now, held, entry, paired, job, restarts>>

\* The peer refuses, the connection breaks or 30 s pass.
pair_fails(p) ==
    /\ pairings[p].client = "waiting"
    /\ pairings' = [pairings EXCEPT ![p].client = "failed",
                                    ![p].server = IF @ \in {"answered", "refused"} THEN "gone" ELSE @]
    /\ UNCHANGED <<now, held, entry, paired, job, restarts>>

\* transfer_pair_peer returns 0: a 2xx answer with a token.
Answered(p) == pairings[p].client = "waiting" /\ pairings[p].server = "answered"

\* The answer arrives and auth_store_peer_token stores it, with the
\* expiry in the answer: the asking node takes the other's clock for its own.
pair_stores(p) ==
    LET n == From(p) IN
    /\ Answered(p)
    /\ \/ /\ upsert_peer_token_locked(n, p, pairings[p].expires_at)
          /\ pairings' = [pairings EXCEPT ![p].client = "stored", ![p].kept = TRUE]
       \/ /\ ~held[n].active  \* and no record is free
          /\ ClientGoes(p, "stored") /\ UNCHANGED held
    /\ UNCHANGED <<now, entry, paired, job, restarts>>

\* peer_registry_set_paired, then the answer to the user.
pair_marks(p) ==
    /\ pairings[p].client = "stored"
    /\ peer_registry_set_paired(From(p), entry[From(p)] = "listed")
    /\ ClientGoes(p, "ok")
    /\ UNCHANGED <<now, held, entry, job, restarts>>
-----------------------------------------------------------------------------
(* /api/pair/exchange on the other node.                                   *)

Mut_exchange_when_not_pairing(p) ==
    /\ pairings[p].server = "arriving"
    /\ \A q \in DOMAIN pairings : From(q) = To(p) => pairings[q].client # "waiting"
\* The handler runs in a thread of its own.
ExchangeRuns(p) == pairings[p].server = "arriving"

\* A code that is wrong or has expired, the rate limit, a table without room.
exchange_refuses(p) ==
    /\ ExchangeRuns(p)
    /\ ServerGoes(p, "refused")
    /\ UNCHANGED <<now, held, entry, paired, job, restarts>>

\* auth_issue_pair_token.
exchange_issues(p) ==
    LET n == To(p)
        x == Clock(n) + TokenTTL IN
    /\ ExchangeRuns(p)
    /\ upsert_peer_token_locked(n, p, x)
    /\ pairings' = [pairings EXCEPT ![p].server = "issued", ![p].expires_at = x]
    /\ UNCHANGED <<now, entry, paired, job, restarts>>

Mut_marks_before_adding(p) == entry[To(p)] = "listed"
\* The call that marks the peer finds it: it was listed, or there was room.
Marked(p) == entry[To(p)] # "full"

\* peer_registry_add_or_update, then peer_registry_set_paired.  The result of
\* neither is looked at: with a full table nothing is listed or marked, and the
\* answer is the same.
exchange_marks(p) ==
    /\ pairings[p].server = "issued"
    /\ peer_registry_add_or_update(To(p))
    /\ peer_registry_set_paired(To(p), Marked(p))
    /\ ServerGoes(p, "answered")
    /\ UNCHANGED <<now, held, job, restarts>>
-----------------------------------------------------------------------------
(* What happens to the two nodes.                                          *)

\* The connection breaks before the request or the answer arrives.
loses(p) ==
    /\ pairings[p].server = "arriving" \/ Answered(p)
    /\ ServerGoes(p, "gone")
    /\ UNCHANGED <<now, held, entry, paired, job, restarts>>

\* Everything but the files is in memory.
restart(n) ==
    /\ restarts < MaxRestarts
    /\ restarts' = restarts + 1
    /\ held' = [held EXCEPT ![n] = NoRecord]
    /\ entry' = [entry EXCEPT ![n] = "room"]
    /\ paired' = [paired EXCEPT ![n] = FALSE]
    /\ job' = IF job.from = n THEN NoJob ELSE job
    /\ pairings' = [p \in DOMAIN pairings |->
           [pairings[p] EXCEPT
               !.client = IF From(p) = n /\ @ \in {"waiting", "stored"} THEN "failed" ELSE @,
               !.server = IF To(p) = n /\ @ \in {"arriving", "issued"} THEN "gone" ELSE @,
               !.lasting = FALSE]]
    /\ UNCHANGED now

\* A lookup, for this peer or another, passes the record and clears it.
passes(n) ==
    /\ Expired(n)
    /\ held' = [held EXCEPT ![n] = NoRecord]
    /\ UNCHANGED <<now, pairings, entry, paired, job, restarts>>

tick ==
    /\ now < MaxTime
    /\ now' = now + 1
    /\ UNCHANGED <<pairings, held, entry, paired, job, restarts>>
-----------------------------------------------------------------------------
(* Sending.                                                                *)

\* /api/send: validate_target_peer finds a token, which goes into the job.  An
\* expired one is cleared by the same lookup (passes), and the request refused.
send(n) ==
    /\ job = NoJob
    /\ paired[n] /\ Live(n)
    /\ job' = [from |-> n, token |-> held[n].token]
    /\ UNCHANGED <<now, pairings, held, entry, paired, restarts>>

\* auth_validate_peer_token on the other node, some time later.
Accepts(n, t) == Live(n) /\ held[n].token = t

upload ==
    /\ job # NoJob
    /\ job' = NoJob
    /\ UNCHANGED <<now, pairings, held, entry, paired, restarts>>
-----------------------------------------------------------------------------
Init ==
    /\ now = 0 /\ restarts = 0
    /\ pairings = << >>
    /\ held = [n \in Nodes |-> NoRecord]
    /\ entry = [n \in Nodes |-> "room"]
    /\ paired = [n \in Nodes |-> FALSE]
    /\ job = NoJob

Handlers(p) ==
    \/ pair_stores(p) \/ pair_marks(p)
    \/ exchange_refuses(p) \/ exchange_issues(p) \/ exchange_marks(p)

Next ==
    \/ \E n \in Nodes : pair_start(n) \/ send(n)
    \/ \E p \in DOMAIN pairings : Handlers(p) \/ pair_fails(p) \/ loses(p)
    \/ \E n \in Nodes : restart(n) \/ passes(n) \/ registry_grows(n)
    \/ upload
    \/ tick

Spec == Init /\ [][Next]_vars

\* Threads that can go on do.  Giving up is not relied on except when the
\* connection has failed or the peer refused.
Fairness ==
    \A p \in Ids :
        /\ WF_vars(p \in DOMAIN pairings /\ Handlers(p))
        /\ WF_vars(/\ p \in DOMAIN pairings
                   /\ pairings[p].server \in {"refused", "gone"} /\ pair_fails(p))
-----------------------------------------------------------------------------
(* Properties.                                                             *)

TypeOK ==
    /\ now \in 0 .. MaxTime
    /\ pairings \in Seq(Attempt) /\ Len(pairings) <= MaxPairings
    /\ held \in [Nodes -> Record]
    /\ entry \in [Nodes -> {"room", "listed", "full"}]
    /\ paired \in [Nodes -> BOOLEAN]
    /\ job = NoJob \/ job \in [from : Nodes, token : DOMAIN pairings]
    /\ restarts \in 0 .. MaxRestarts
    /\ \A p \in DOMAIN pairings : pairings[p].client = "stored" => pairings[p].server = "answered"

\* Pairing p is the last one, overlapped with none, was not disturbed, and the
\* user was told that it succeeded.
Settles(p) ==
    /\ p = Len(pairings)
    /\ pairings[p].solo /\ pairings[p].lasting
    /\ pairings[p].client = "ok"

HasOrExpired(n, p) == held[n].token = p \/ pairings[p].expires_at <= Clock(n)

\* A pairing that overlaps with no other and is answered with success leaves its
\* token on the node that issued it, until a node restarts or the token expires,
\* whatever lost answers, late requests and crossed pairings came before it.  So
\* it does on the node that asked, or that node has no token at all: its table
\* was full of others and auth_store_peer_token failed, which /api/pair does not
\* look at.  It never goes on with an older token.
SettledAgrees ==
    \A p \in DOMAIN pairings : Settles(p) =>
        /\ HasOrExpired(To(p), p)
        /\ HasOrExpired(From(p), p) \/ (~pairings[p].kept /\ ~held[From(p)].active)

\* When the user is told that the pairing succeeded and no node has restarted
\* since, the node that asked lists the other as paired, and so does the other,
\* unless its registry was full of others: /api/pair/exchange answers success
\* although it has listed nothing.
BothListed ==
    \A p \in DOMAIN pairings :
        pairings[p].client = "ok" /\ pairings[p].lasting =>
            paired[From(p)] /\ (paired[To(p)] \/ entry[To(p)] = "full")

\* What success of /api/pair is worth.  As far as pairings do not overlap both
\* nodes hold the token, and they list each other as paired, with two exceptions,
\* each the full table of a call whose result the code ignores: the asking node
\* may hold no token, the other may not list it.
SuccessIsMutual == SettledAgrees /\ BothListed

\* A file queued with a token is refused by the other node only if the token has
\* expired there, a node restarted, its pairing overlapped with another, a later
\* pairing was asked for, or the node that asked for the token has not stored it
\* (yet).  In particular the asking node can rely on what it was answered.
RefusedForReason ==
    LET p == job.token IN
    job # NoJob /\ ~Accepts(Other(job.from), p) =>
        \/ pairings[p].expires_at <= Clock(Other(job.from))
        \/ ~pairings[p].lasting \/ ~pairings[p].solo \/ p < Len(pairings)
        \/ job.from = To(p) /\ ~pairings[p].kept

\* Two nodes that pair with each other at the same time do not wait for each
\* other: every pairing ends, even without the timeout of 30 s.
PairingEnds == \A p \in Ids : 
    (p \in DOMAIN pairings) ~> (p \in DOMAIN pairings /\ pairings[p].client \in {"ok", "failed"})

\* docs/wiki/API.md: the pair token "Authenticates paired peer uploads".  When
\* nothing is under way and two nodes, not restarted, list each other as paired
\* with live tokens, an upload with the token is accepted.
PairTokenAuthenticates ==
    /\ \A p \in DOMAIN pairings : ~Open(p) /\ pairings[p].client = "ok"
    /\ \A n \in Nodes : paired[n] /\ Live(n)
    => \A n \in Nodes : Accepts(Other(n), held[n].token)
=============================================================================
