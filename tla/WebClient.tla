------------------------------- MODULE WebClient -------------------------------
(***************************************************************************)
(* The session in the browser: the script of src/ui.c in one tab, and what *)
(* the handlers of src/server.c answer to it.  A tab is single-threaded,   *)
(* but between a fetch and its answer anything may happen in it, on the    *)
(* server, and in the other tabs, which share localStorage.                *)
(*                                                                         *)
(* Requests that need no session (/, /api/devices) and the upload form,    *)
(* which looks at no status but 200, leave the session alone and are left  *)
(* out, like all that is drawn but the pairing code.  A request for        *)
(* pairing or for sending is an "action".  Tokens stand for the order they *)
(* are made in; 0 is the empty token.                                      *)
(***************************************************************************)
EXTENDS Integers

CONSTANTS
    MaxTokens,  \* bound on the sessions made
    MaxLoads    \* bound on the times the page is loaded again

\* What is assumed of the constants.
ParametersOK == MaxTokens \in Nat /\ MaxLoads \in Nat

Tokens == 1 .. MaxTokens
Paths == {"unlock", "code", "transfers", "action"}

VARIABLES
    live,          \* the tokens of the client's sessions on the server
    made,          \* sessions made so far
    localStorage,  \* 'localdropUiToken'
    uiToken,
    shown,         \* the tab shows a pairing code
    offered,       \* a send button was enabled since the page was loaded
    request,       \* the tab's request for each path (bound: one at a time)
    loads

serverVars == <<live, made>>
vars == <<serverVars, localStorage, uiToken, shown, offered, request, loads>>

\* status 0 is a request without an answer yet, 500 an answer without success
\* that is neither 401 nor 403, like 429 and 502; token is the header it was sent
\* with and new the token in the answer to an unlock.
Status == {0, 200, 401, 403, 500}
Request == [sent : BOOLEAN, status : Status, token : Tokens \cup {0}, new : Tokens \cup {0}]
NoRequest == [sent |-> FALSE, status |-> 0, token |-> 0, new |-> 0]

Unanswered(path) == request[path].sent /\ request[path].status = 0
isUnlocked == uiToken # 0
-----------------------------------------------------------------------------
(* The page.                                                               *)

\* fetch with the token tok, if none is under way for the path.
Fetching(reqs, path, tok) ==
    [reqs EXCEPT ![path] = IF @.sent THEN @ ELSE [NoRequest EXCEPT !.sent = TRUE, !.token = tok]]

\* setUiToken writes the token through to localStorage; updateAuthState hides
\* what needs a session.
setUiToken(tok) ==
    /\ uiToken' = tok
    /\ localStorage' = tok
    /\ shown' = (shown /\ tok # 0)

\* The page is loaded again: what was under way is forgotten.
load ==
    /\ loads < MaxLoads /\ loads' = loads + 1
    /\ uiToken' = localStorage
    /\ shown' = FALSE /\ offered' = FALSE
    /\ LET none == [path \in Paths |-> NoRequest] IN
       request' = IF localStorage = 0 THEN none
                  ELSE Fetching(Fetching(none, "code", localStorage), "transfers", localStorage)
    /\ UNCHANGED <<serverVars, localStorage>>

\* The user acts, or the timer of 3 s fires.
Fetches(path) ==
    /\ ~request[path].sent
    /\ request' = Fetching(request, path, uiToken)
    /\ UNCHANGED <<serverVars, localStorage, uiToken, shown, offered, loads>>

unlockSession == ~isUnlocked /\ Fetches("unlock")  \* the form is hidden otherwise
refreshPairingCode == isUnlocked /\ Fetches("code")
refreshTransfers == isUnlocked /\ Fetches("transfers")
pairDevice == isUnlocked /\ Fetches("action")

\* refreshDevices draws the buttons; that for sending is enabled in a tab with a
\* session.
renderDevice ==
    /\ isUnlocked
    /\ offered' = TRUE
    /\ UNCHANGED <<serverVars, localStorage, uiToken, shown, request, loads>>

\* The change listener of the file dialog looks at no session.  The button, or the
\* dialog that it opened, may have outlasted the one it was enabled for.
sendFile == offered /\ Fetches("action")

Mut_drops_on_any_error(status) == status >= 400
Mut_drops_on_403(status) == status = 403
\* The answers for which apiFetch drops the session.
DropsOn(status) == status \in {401, 403}

\* apiFetch and its caller go on.  The token that an error drops is the tab's
\* present one, and a pairing code is shown even if it has none.  unlockSession
\* goes on with refreshPairingCode; the refreshTransfers at its end, and the one
\* after a file was queued, come later and are like those of the timer.
receive(path) ==
    LET r == request[path]
        ok == r.status = 200
        drops == DropsOn(r.status) /\ isUnlocked
        done == [request EXCEPT ![path] = NoRequest] IN
    /\ r.status # 0
    /\ \/ drops /\ setUiToken(0)
       \/ path = "unlock" /\ ok /\ setUiToken(r.new)
       \/ /\ ~drops /\ ~(path = "unlock" /\ ok)
          /\ shown' = (shown \/ (path = "code" /\ ok))
          /\ UNCHANGED <<uiToken, localStorage>>
    /\ request' = IF path = "unlock" /\ ok THEN Fetching(done, "code", r.new) ELSE done
    /\ UNCHANGED <<serverVars, offered, loads>>

\* fetch throws: the connection failed.
fetch_fails(path) ==
    /\ request[path].sent
    /\ request' = [request EXCEPT ![path] = NoRequest]
    /\ UNCHANGED <<serverVars, localStorage, uiToken, shown, offered, loads>>
-----------------------------------------------------------------------------
(* The server.                                                             *)

Answer(path, status) == request' = [request EXCEPT ![path].status = status]

\* rate_limit_request refuses, or the handler fails.
limited(path) ==
    /\ Unanswered(path)
    /\ Answer(path, 500)
    /\ UNCHANGED <<serverVars, localStorage, uiToken, shown, offered, loads>>

\* authorize_ui_request, then the handler; pairing and sending answer 403 if
\* the peer is not active, not paired or without a token.
authorized(path) ==
    /\ path # "unlock" /\ Unanswered(path)
    /\ \/ request[path].token \notin live /\ Answer(path, 401)
       \/ /\ request[path].token \in live
          /\ \/ Answer(path, 200)
             \/ path = "action" /\ Answer(path, 403)
    /\ UNCHANGED <<serverVars, localStorage, uiToken, shown, offered, loads>>

\* auth_create_ui_session: the client's old session ends if its slot is reused.
Creates ==
    /\ made < MaxTokens /\ made' = made + 1
    /\ live' \in {{made + 1}, live \cup {made + 1}}

\* The token in the answer to an unlock.
Issued == made + 1

unlock ==
    /\ Unanswered("unlock")
    /\ \/ /\ Creates
          /\ request' = [request EXCEPT !["unlock"].status = 200, !["unlock"].new = Issued]
       \/ Answer("unlock", 401) /\ UNCHANGED serverVars
    /\ UNCHANGED <<localStorage, uiToken, shown, offered, loads>>

\* A session is made for another tab, or for a page that is gone.
unlock_elsewhere ==
    /\ Creates
    /\ UNCHANGED <<localStorage, uiToken, shown, offered, request, loads>>

\* Another tab runs setUiToken, with a token it got at some time or with none.
other_tab ==
    /\ localStorage' \in 0 .. made
    /\ UNCHANGED <<serverVars, uiToken, shown, offered, request, loads>>

\* Sessions expire, or the server restarts.
sessions_end ==
    /\ \E S \in SUBSET live : live' = live \ S
    /\ UNCHANGED <<made, localStorage, uiToken, shown, offered, request, loads>>
-----------------------------------------------------------------------------
Init ==
    /\ live = {} /\ made = 0 /\ loads = 0
    /\ localStorage = 0 /\ uiToken = 0
    /\ shown = FALSE /\ offered = FALSE
    /\ request = [path \in Paths |-> NoRequest]

Next ==
    \/ unlockSession \/ refreshPairingCode \/ refreshTransfers \/ load
    \/ pairDevice \/ renderDevice \/ sendFile
    \/ \E path \in Paths :
         receive(path) \/ authorized(path) \/ limited(path) \/ fetch_fails(path)
    \/ unlock \/ unlock_elsewhere \/ other_tab
    \/ sessions_end

Spec == Init /\ [][Next]_vars

\* The timer fires, what arrived is handled, and the rate limit and the network
\* let a poll and its answer through from time to time.
Fairness ==
    /\ WF_vars(refreshTransfers)
    /\ WF_vars(receive("transfers"))
    /\ SF_vars(authorized("transfers"))
    /\ SF_vars(request["transfers"].status # 500 /\ receive("transfers"))
-----------------------------------------------------------------------------
(* Properties.                                                             *)

TypeOK ==
    /\ made \in 0 .. MaxTokens /\ live \subseteq 1 .. made
    /\ localStorage \in 0 .. made /\ uiToken \in 0 .. made
    /\ shown \in BOOLEAN /\ offered \in BOOLEAN
    /\ request \in [Paths -> Request]
    /\ loads \in 0 .. MaxLoads
    /\ request["unlock"].status = 200 => request["unlock"].new # 0

\* The answer to a request is being handled.
Handled(path) == request[path].sent /\ ~request'[path].sent

\* While the page is open, it loses a session that is still good on the server
\* only to a 403 or to an answer that was meant for another token; the rate
\* limit, a server error or a lost connection never logs the user out.
LostForReason ==
    [][isUnlocked /\ uiToken \in live /\ uiToken' = 0 /\ loads' = loads =>
        \E path \in Paths :
            /\ Handled(path)
            /\ request[path].status = 403 \/ request[path].token # uiToken]_vars

\* A tab that works with a token the server no longer knows finds out: the poll
\* is refused and the tab locks, whatever other answers arrive in between.
DeadTokenIsDropped == (isUnlocked /\ uiToken \notin live) ~> (~isUnlocked \/ uiToken \in live)
=============================================================================
