------------------------------ MODULE UiSessions ------------------------------
(***************************************************************************)
(* The administrative sessions of src/auth.c: a fixed table in which       *)
(* auth_create_ui_session looks for a slot and auth_validate_ui_session    *)
(* for a token.  Both run under auth_lock, so a call is one step.  A call  *)
(* with a wrong administrative code, without a usable slot or without      *)
(* random bytes changes nothing and is left out.                           *)
(*                                                                         *)
(* Tokens are random and stand here for the number of the session.         *)
(***************************************************************************)
EXTENDS Integers

CONSTANTS
    Clients,      \* client addresses
    Nil,          \* no client
    MaxSessions,  \* MAX_UI_SESSIONS
    SessionTTL,   \* UI_SESSION_TTL_SECONDS
    MaxTokens,    \* bound on the number of sessions created
    MaxTime       \* bound on the clock

\* What is assumed of the constants.
ParametersOK ==
    /\ Nil \notin Clients
    /\ MaxSessions \in Nat \ {0}
    /\ SessionTTL \in Nat \ {0}
    /\ MaxTokens \in Nat
    /\ MaxTime \in Nat

Slots == 0 .. MaxSessions - 1
Tokens == 1 .. MaxTokens

VARIABLES
    now,
    ui_sessions,  \* the table
    created,      \* number of tokens handed out
    owner,        \* (history) whom each token was handed to
    since,        \* (history) and when
    answer        \* (history) the token that the last call accepted, for whom

vars == <<now, ui_sessions, created, owner, since, answer>>

\* UiSession; the fields of an inactive session are never read.
Session == [active : BOOLEAN, token : Tokens \cup {0}, client_ip : Clients \cup {Nil},
            expires_at : 0 .. MaxTime + SessionTTL]
NoSession == [active |-> FALSE, token |-> 0, client_ip |-> Nil, expires_at |-> 0]
NoAnswer == [token |-> 0, client |-> Nil]
-----------------------------------------------------------------------------
Mut_expired_early(i) == ui_sessions[i].expires_at <= now + 1
\* A session ends in the very second it expires.
Expired(i) == ui_sessions[i].expires_at <= now

\* A slot that a new session of client c may take.
Usable(i, c) == ~ui_sessions[i].active \/ Expired(i) \/ ui_sessions[i].client_ip = c

\* What auth_create_ui_session writes into slot i.
NewSession(i, c) ==
    [active |-> TRUE, token |-> created + 1, client_ip |-> c, expires_at |-> now + SessionTTL]

\* The first usable slot is taken; this may be another one than the slot of an
\* earlier session of the same client.
auth_create_ui_session(c) ==
    /\ created < MaxTokens
    /\ \E i \in Slots :
         /\ Usable(i, c)
         /\ \A j \in 0 .. i - 1 : ~Usable(j, c)
         /\ ui_sessions' = [ui_sessions EXCEPT ![i] = NewSession(i, c)]
    /\ created' = created + 1
    /\ owner' = [owner EXCEPT ![created + 1] = c]
    /\ since' = [since EXCEPT ![created + 1] = now]
    /\ answer' = NoAnswer
    /\ UNCHANGED now

Mut_accepts_any_client(i, c, t) ==
    ui_sessions[i].active /\ ~Expired(i) /\ ui_sessions[i].token = t
\* The slot at which the scan of auth_validate_ui_session stops.
Accepts(i, c, t) ==
    /\ ui_sessions[i].active /\ ~Expired(i)
    /\ ui_sessions[i].client_ip = c /\ ui_sessions[i].token = t

\* Sessions that ended are cleared as far as the scan goes.
Scanned(m) == [i \in Slots |-> IF i < m /\ Expired(i) THEN NoSession ELSE ui_sessions[i]]

auth_validate_ui_session(c, t) ==
    /\ \/ \E m \in Slots :
            /\ Accepts(m, c, t)
            /\ \A j \in 0 .. m - 1 : ~Accepts(j, c, t)
            /\ ui_sessions' = Scanned(m)
            /\ answer' = [token |-> t, client |-> c]
       \/ /\ \A i \in Slots : ~Accepts(i, c, t)
          /\ ui_sessions' = Scanned(MaxSessions)
          /\ answer' = NoAnswer
    /\ UNCHANGED <<now, created, owner, since>>

tick ==
    /\ now < MaxTime
    /\ now' = now + 1
    /\ answer' = NoAnswer
    /\ UNCHANGED <<ui_sessions, created, owner, since>>

\* auth_init clears the table.
Init ==
    /\ now = 0
    /\ ui_sessions = [i \in Slots |-> NoSession]
    /\ created = 0
    /\ owner = [t \in Tokens |-> Nil]
    /\ since = [t \in Tokens |-> 0]
    /\ answer = NoAnswer

Next ==
    \/ \E c \in Clients : auth_create_ui_session(c)
    \/ \E c \in Clients, t \in Tokens : auth_validate_ui_session(c, t)
    \/ tick

Spec == Init /\ [][Next]_vars
-----------------------------------------------------------------------------
(* Properties.                                                             *)

TypeOK ==
    /\ now \in 0 .. MaxTime
    /\ ui_sessions \in [Slots -> Session]
    /\ created \in 0 .. MaxTokens
    /\ owner \in [Tokens -> Clients \cup {Nil}]
    /\ since \in [Tokens -> 0 .. MaxTime]
    /\ answer \in [token : Tokens \cup {0}, client : Clients \cup {Nil}]

\* A token is accepted only from the client it was handed to (docs/wiki/API.md:
\* "UI sessions are bound to the client IP that unlocked them") and only for
\* SessionTTL, whatever slots were reused since.
AcceptedIsOwn ==
    answer.token # 0 => /\ owner[answer.token] = answer.client
                        /\ now < since[answer.token] + SessionTTL

\* The latest token of a client is accepted until it expires: no other client's
\* unlock and no scan ever takes a live session away.
UnlockedStaysUnlocked ==
    \A t \in 1 .. created :
        /\ now < since[t] + SessionTTL
        /\ \A u \in t + 1 .. created : owner[u] # owner[t]
        => \E i \in Slots : Accepts(i, owner[t], t)
=============================================================================
