-------------------------------- MODULE MCAuth --------------------------------
(***************************************************************************)
(* The three tables of src/auth.c for TLC: the rate limiter, the sessions  *)
(* and the peer tokens.  They share auth_lock and the clock and nothing    *)
(* else, so that a behaviour exercises one of them, chosen at its start.   *)
(***************************************************************************)
EXTENDS MCRateLimiter

CONSTANTS
    Clients, MaxSessions, SessionTTL, MaxSessionTokens, MaxSessionTime,
    Addresses, Ports, CodeTTL, TokenTTL, MaxTokens

VARIABLES
    table,
    ui_sessions, created, owner, since, answer,
    pairing_code, pairing_code_expires_at, made_at, peer_tokens, made, latest, outcome

S == INSTANCE UiSessions WITH MaxTokens <- MaxSessionTokens, MaxTime <- MaxSessionTime
P == INSTANCE PeerTokens

ASSUME ParametersAssumption == S!ParametersOK /\ P!ParametersOK

limitVars == <<rate_limits, asks, seen, result, opened, windows, admitted>>
sessionVars == <<ui_sessions, created, owner, since, answer>>
tokenVars == <<pairing_code, pairing_code_expires_at, made_at, peer_tokens, made, latest, outcome>>

AuthInit ==
    /\ table \in {"rate_limits", "ui_sessions", "peer_tokens"}
    /\ Init /\ S!Init /\ P!Init

AuthNext ==
    /\ UNCHANGED table
    /\ \/ table = "rate_limits" /\ Next /\ UNCHANGED <<sessionVars, tokenVars>>
       \/ table = "ui_sessions" /\ S!Next /\ UNCHANGED <<limitVars, tokenVars>>
       \/ table = "peer_tokens" /\ P!Next /\ UNCHANGED <<limitVars, sessionVars>>

AuthSpec == AuthInit /\ [][AuthNext]_<<table, now, limitVars, sessionVars, tokenVars>>
-----------------------------------------------------------------------------
(* The properties of UiSessions and PeerTokens, as this module sees them.  *)

\* A token is accepted only from the client it was handed to, for SessionTTL.
AcceptedIsOwn == S!AcceptedIsOwn
\* The latest token of a client is accepted until it expires.
UnlockedStaysUnlocked == S!UnlockedStaysUnlocked
\* A token that is returned or accepted is the last one written for its endpoint
\* and has not expired.
FoundIsLatest == P!FoundIsLatest
\* The last token written for an endpoint can be looked up until it expires.
PairedStaysPaired == P!PairedStaysPaired
\* With the right code a peer is refused only by a full table.
RefusedOnlyWhenFull == P!RefusedOnlyWhenFull
\* Codes end after CodeTTL and are not replaced before.
CodeIsTemporary == P!CodeIsTemporary
===============================================================================
