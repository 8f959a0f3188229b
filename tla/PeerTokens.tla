------------------------------ MODULE PeerTokens ------------------------------
(***************************************************************************)
(* Pairing codes and peer tokens of src/auth.c.  Every function runs under *)
(* auth_lock, so a call is one step.  /api/pair/exchange issues a token to *)
(* a peer that knows the code, /api/pair stores the token another node     *)
(* issued; both write the same table, which is keyed by the peer's address *)
(* and port.  /upload validates a token by address alone.                  *)
(*                                                                         *)
(* Codes and tokens are random: they stand for the order they are made in. *)
(* A call that fails for want of random bytes changes nothing.             *)
(***************************************************************************)
EXTENDS Integers, FiniteSets

CONSTANTS
    Addresses, Ports, \* of the peers
    Nil,              \* no peer
    MaxRecords,       \* MAX_PEER_TOKENS
    CodeTTL,          \* PAIRING_CODE_TTL_SECONDS
    TokenTTL,         \* the seven days of auth_issue_pair_token
    MaxTokens,        \* bound on the number of tokens
    MaxTime           \* bound on the clock

Endpoints == [ip : Addresses, port : Ports]

\* What is assumed of the constants.
ParametersOK ==
    /\ IsFiniteSet(Endpoints) /\ Nil \notin Endpoints
    /\ MaxRecords \in Nat \ {0}
    /\ CodeTTL \in Nat \ {0}
    /\ TokenTTL \in Nat \ {0}
    /\ MaxTokens \in Nat
    /\ MaxTime \in Nat

Slots == 0 .. MaxRecords - 1
Tokens == 1 .. MaxTokens

VARIABLES
    now,
    pairing_code, pairing_code_expires_at,
    made_at,        \* (history) when the current code was made
    peer_tokens,    \* the table
    made,           \* number of tokens so far
    latest,         \* (history) the last token written for each endpoint
    outcome         \* (history) what the last call did

codeVars == <<pairing_code, pairing_code_expires_at, made_at>>
vars == <<now, codeVars, peer_tokens, made, latest, outcome>>

\* PeerTokenRecord; the fields of an inactive record are never read.
Record == [active : BOOLEAN, peer : Endpoints \cup {Nil}, token : Tokens \cup {0},
           expires_at : 0 .. MaxTime + TokenTTL]
NoRecord == [active |-> FALSE, peer |-> Nil, token |-> 0, expires_at |-> 0]
NoToken == [token |-> 0, expires_at |-> 0]

\* The token that a call accepted or returned, for which address and peer.
Outcome == [call : {"none", "issued", "full", "got", "valid"}, token : Tokens \cup {0},
            ip : Addresses \cup {Nil}, peer : Endpoints \cup {Nil}]
NoOutcome == [call |-> "none", token |-> 0, ip |-> Nil, peer |-> Nil]
-----------------------------------------------------------------------------
(* The pairing code.                                                       *)

Mut_code_valid_after == pairing_code_expires_at >= now
\* The code is still good.
CodeValid == pairing_code_expires_at > now

\* When a code made now expires.
CodeExpiry == now + CodeTTL

\* ensure_pairing_code_locked replaces a code that has expired.
ensure_pairing_code_locked ==
    IF CodeValid THEN UNCHANGED codeVars
    ELSE /\ pairing_code' = pairing_code + 1
         /\ pairing_code_expires_at' = CodeExpiry
         /\ made_at' = now

auth_get_pairing_code ==
    /\ ensure_pairing_code_locked
    /\ outcome' = NoOutcome
    /\ UNCHANGED <<now, peer_tokens, made, latest>>
-----------------------------------------------------------------------------
(* The table of tokens.                                                    *)

Mut_holds_by_address(i, e) == peer_tokens[i].active /\ peer_tokens[i].peer.ip = e.ip
\* Record i is the record of endpoint e.
Holds(i, e) == peer_tokens[i].active /\ peer_tokens[i].peer = e

Mut_target_first_free(i, e) ==
    /\ Holds(i, e) \/ ~peer_tokens[i].active
    /\ \A j \in 0 .. i - 1 : ~Holds(j, e) /\ peer_tokens[j].active
\* The record that upsert_peer_token_locked writes: the endpoint's own, else
\* the first inactive one.  A record that has expired is not inactive.
Target(i, e) ==
    \/ Holds(i, e) /\ \A j \in 0 .. i - 1 : ~Holds(j, e)
    \/ /\ \A j \in Slots : ~Holds(j, e)
       /\ ~peer_tokens[i].active /\ \A j \in 0 .. i - 1 : peer_tokens[j].active

\* upsert_peer_token_locked with a new token that expires at x.
upsert_peer_token_locked(e, x) ==
    /\ made < MaxTokens
    /\ made' = made + 1
    /\ \E i \in Slots :
         /\ Target(i, e)
         /\ peer_tokens' = [peer_tokens EXCEPT ![i] =
                [active |-> TRUE, peer |-> e, token |-> made + 1, expires_at |-> x]]
    /\ latest' = [latest EXCEPT ![e] = [token |-> made + 1, expires_at |-> x]]

\* It returns -1.
NoTarget(e) == \A i \in Slots : ~Target(i, e)

\* The code the peer sent is compared after an expired code was replaced.
auth_issue_pair_token(e, code) ==
    /\ ensure_pairing_code_locked
    /\ \/ /\ code = pairing_code'
          /\ upsert_peer_token_locked(e, now + TokenTTL)
          /\ outcome' = [call |-> "issued", token |-> made + 1, ip |-> e.ip, peer |-> e]
       \/ /\ code = pairing_code' /\ NoTarget(e)
          /\ outcome' = [call |-> "full", token |-> 0, ip |-> e.ip, peer |-> e]
          /\ UNCHANGED <<peer_tokens, made, latest>>
       \/ /\ outcome' = NoOutcome  \* a wrong code, or no random token
          /\ UNCHANGED <<peer_tokens, made, latest>>
    /\ UNCHANGED now

\* The expiry of a stored token comes from the other node.
auth_store_peer_token(e, x) ==
    /\ \/ upsert_peer_token_locked(e, x)
       \/ NoTarget(e) /\ UNCHANGED <<peer_tokens, made, latest>>
    /\ outcome' = NoOutcome
    /\ UNCHANGED <<now, codeVars>>

Mut_expired_late(i) == peer_tokens[i].active /\ peer_tokens[i].expires_at < now
\* A token ends in the very second it expires.
Expired(i) == peer_tokens[i].active /\ peer_tokens[i].expires_at <= now

\* The two lookups clear what has expired as far as they scan.
Scanned(m) == [i \in Slots |-> IF i < m /\ Expired(i) THEN NoRecord ELSE peer_tokens[i]]

FoundFor(i, e) == Holds(i, e) /\ ~Expired(i)
FoundFrom(i, ip, t) ==
    /\ peer_tokens[i].active /\ ~Expired(i)
    /\ peer_tokens[i].peer.ip = ip /\ peer_tokens[i].token = t

auth_get_peer_token(e) ==
    /\ \/ \E m \in Slots :
            /\ FoundFor(m, e) /\ \A j \in 0 .. m - 1 : ~FoundFor(j, e)
            /\ peer_tokens' = Scanned(m)
            /\ outcome' = [call |-> "got", token |-> peer_tokens[m].token, ip |-> e.ip,
                           peer |-> e]
       \/ /\ \A i \in Slots : ~FoundFor(i, e)
          /\ peer_tokens' = Scanned(MaxRecords)
          /\ outcome' = NoOutcome
    /\ UNCHANGED <<now, codeVars, made, latest>>

auth_validate_peer_token(ip, t) ==
    /\ \/ \E m \in Slots :
            /\ FoundFrom(m, ip, t) /\ \A j \in 0 .. m - 1 : ~FoundFrom(j, ip, t)
            /\ peer_tokens' = Scanned(m)
            /\ outcome' = [call |-> "valid", token |-> t, ip |-> ip, peer |-> Nil]
       \/ /\ \A i \in Slots : ~FoundFrom(i, ip, t)
          /\ peer_tokens' = Scanned(MaxRecords)
          /\ outcome' = NoOutcome
    /\ UNCHANGED <<now, codeVars, made, latest>>

tick ==
    /\ now < MaxTime
    /\ now' = now + 1
    /\ outcome' = NoOutcome
    /\ UNCHANGED <<codeVars, peer_tokens, made, latest>>

\* auth_init clears the table and makes the first code.
Init ==
    /\ now = 0
    /\ pairing_code = 1 /\ pairing_code_expires_at = CodeTTL /\ made_at = 0
    /\ peer_tokens = [i \in Slots |-> NoRecord]
    /\ made = 0
    /\ latest = [e \in Endpoints |-> NoToken]
    /\ outcome = NoOutcome

\* A peer knows a code that was made, or guesses one.
Next ==
    \/ auth_get_pairing_code
    \/ \E e \in Endpoints :
         \/ \E code \in 0 .. pairing_code + 1 : auth_issue_pair_token(e, code)
         \/ \E x \in now .. now + TokenTTL : auth_store_peer_token(e, x)
         \/ auth_get_peer_token(e)
    \/ \E ip \in Addresses, t \in Tokens : auth_validate_peer_token(ip, t)
    \/ tick

Spec == Init /\ [][Next]_vars
-----------------------------------------------------------------------------
(* Properties.                                                             *)

TypeOK ==
    /\ now \in 0 .. MaxTime
    /\ pairing_code \in Nat
    /\ pairing_code_expires_at \in 0 .. MaxTime + CodeTTL
    /\ made_at \in 0 .. MaxTime
    /\ peer_tokens \in [Slots -> Record]
    /\ made \in 0 .. MaxTokens
    /\ latest \in [Endpoints -> [token : Tokens \cup {0}, expires_at : 0 .. MaxTime + TokenTTL]]
    /\ outcome \in Outcome

\* docs/wiki/API.md: "Pairing codes are temporary".  A token is issued only for
\* a code made less than CodeTTL ago, and a code shown to the user is not
\* replaced before the time announced with it.
CodeIsTemporary ==
    [][/\ outcome'.call = "issued" /\ outcome # outcome' => now < made_at' + CodeTTL
       /\ pairing_code' # pairing_code => now >= made_at + CodeTTL]_vars

\* A token that a lookup returns for a peer, or that /upload accepts from an
\* address, has not expired and is the last one written for its endpoint: after
\* pairing again, in either direction, the older token is dead.
FoundIsLatest ==
    /\ outcome.call = "got" => /\ latest[outcome.peer].token = outcome.token
                               /\ now < latest[outcome.peer].expires_at
    /\ outcome.call = "valid" =>
         \E e \in Endpoints : /\ e.ip = outcome.ip
                              /\ latest[e].token = outcome.token
                              /\ now < latest[e].expires_at

\* The last token written for an endpoint can be looked up until it expires,
\* whatever was paired, looked up and cleared in between.
PairedStaysPaired ==
    \A e \in Endpoints :
        now < latest[e].expires_at =>
            \E i \in Slots : FoundFor(i, e) /\ peer_tokens[i].token = latest[e].token

\* With the right code a peer is refused only if as many other endpoints as the
\* table has records were paired (their tokens may have expired since).
RefusedOnlyWhenFull ==
    outcome.call = "full" =>
        Cardinality({e \in Endpoints \ {outcome.peer} : latest[e] # NoToken}) >= MaxRecords
=============================================================================
