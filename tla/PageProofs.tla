----------------------------- MODULE PageProofs -----------------------------
(***************************************************************************)
(* Proofs about the page of src/ui.c: the session of a tab (WebClient) and *)
(* its send dialog (SendDialog), for any number of sessions, loads,        *)
(* devices, files and requests.                                            *)
(***************************************************************************)
EXTENDS MCUi, Sequences, TLAPS
-----------------------------------------------------------------------------
(* The session of a tab.                                                   *)

\* What is known of the request r for a path, if m tokens were made and those of l
\* live: an answer is to a request that was sent; an unlock is sent without a
\* token, since the form is hidden otherwise; and a 401 means that the token is
\* dead, as it then stays.
Right(path, r, m, l) ==
    /\ r.status # 0 => r.sent
    /\ r.token \in 0 .. m /\ r.new \in 0 .. m
    /\ path = "unlock" => r.token = 0 /\ (r.status = 200 => r.new # 0)
    /\ path # "unlock" /\ r.status = 401 => r.token \notin l

SessionInv == TypeOK /\ \A path \in Paths : Right(path, request[path], made, live)

\* Tokens are only added, in their order.
TokensGrow ==
    /\ made' \in 0 .. MaxTokens /\ made <= made'
    /\ live' \subseteq live \cup {made'} /\ (made' = made => live' \subseteq live)
    /\ live' \subseteq 1 .. made'

LEMMA RightStays ==
    ASSUME TypeOK, ParametersOK, TokensGrow, NEW path \in Paths, NEW r \in Request, Right(path, r, made, live)
    PROVE  Right(path, r, made', live')
  BY DEF Right, TokensGrow, TypeOK, ParametersOK

\* A request that is sent.
Fetched(tok) == [NoRequest EXCEPT !.sent = TRUE, !.token = tok]

LEMMA NoRequestIs ==
    /\ NoRequest \in Request /\ NoRequest.sent = FALSE /\ NoRequest.status = 0
    /\ NoRequest.token = 0 /\ NoRequest.new = 0
  BY DEF NoRequest, Request, Status

LEMMA FetchedIs ==
    ASSUME NEW tok \in Tokens \cup {0}
    PROVE  /\ Fetched(tok) \in Request /\ Fetched(tok).sent = TRUE
           /\ Fetched(tok).status = 0 /\ Fetched(tok).token = tok /\ Fetched(tok).new = 0
  BY DEF Fetched, NoRequest, Request, Status

\* fetch leaves every request but the one that it sends.
LEMMA FetchingIs ==
    ASSUME NEW reqs \in [Paths -> Request], NEW path \in Paths, NEW tok \in Tokens \cup {0}
    PROVE  /\ Fetching(reqs, path, tok) \in [Paths -> Request]
           /\ \A p \in Paths : \/ Fetching(reqs, path, tok)[p] = reqs[p]
                               \/ p = path /\ Fetching(reqs, path, tok)[p] = Fetched(tok)
<1>1. Fetching(reqs, path, tok) = [reqs EXCEPT ![path] = IF reqs[path].sent THEN reqs[path] ELSE Fetched(tok)]
  BY Zenon DEF Fetching, Fetched
<1>2. Fetched(tok) \in Request
  BY FetchedIs
<1> QED
  BY <1>1, <1>2

\* The answer to a request.
WithStatus(r, status) == [r EXCEPT !.status = status]
Unlocks(r, tok) == [r EXCEPT !.status = 200, !.new = tok]

LEMMA WithStatusIs ==
    ASSUME NEW r \in Request, NEW status \in Status
    PROVE  /\ WithStatus(r, status) \in Request /\ WithStatus(r, status).status = status
           /\ WithStatus(r, status).sent = r.sent /\ WithStatus(r, status).token = r.token
           /\ WithStatus(r, status).new = r.new
  BY DEF WithStatus, Request

LEMMA UnlocksIs ==
    \A r \in Request, tok \in Tokens \cup {0} :
        /\ Unlocks(r, tok) \in Request /\ Unlocks(r, tok).status = 200
        /\ Unlocks(r, tok).sent = r.sent /\ Unlocks(r, tok).token = r.token
        /\ Unlocks(r, tok).new = tok
<1> TAKE r \in Request, tok \in Tokens \cup {0}
<1>1. 200 \in Status
  BY DEF Status
<1> QED
  BY <1>1, Zenon DEF Unlocks, Request

\* It is enough to look at the requests that change.
LEMMA RequestsKeep ==
    ASSUME ParametersOK, SessionInv, TokensGrow,
           request' \in [Paths -> Request],
           \A p \in Paths : request'[p] = request[p] \/ Right(p, request'[p], made', live'),
           uiToken' \in 0 .. made', localStorage' \in 0 .. made',
           shown' \in BOOLEAN, offered' \in BOOLEAN, loads' \in 0 .. MaxLoads
    PROVE  SessionInv'
<1>1. ASSUME NEW p \in Paths PROVE Right(p, request'[p], made', live')
  <2>1. CASE request'[p] = request[p]
    <3>1. request[p] \in Request /\ Right(p, request[p], made, live)
      BY DEF SessionInv, TypeOK
    <3>2. PICK r \in Request : r = request[p]
      BY <3>1
    <3>3. Right(p, r, made', live')
      BY <3>1, <3>2, RightStays DEF SessionInv
    <3> QED
      BY <2>1, <3>2, <3>3
  <2> QED
    BY <2>1
<1>2. request'["unlock"].status = 200 => request'["unlock"].new # 0
  <2>1. "unlock" \in Paths
    BY DEF Paths
  <2> QED
    BY <1>1, <2>1 DEF Right
<1>3. TypeOK'
  BY <1>2, Zenon DEF TokensGrow, TypeOK
<1> QED
  BY <1>1, <1>3 DEF SessionInv

LEMMA SessionInit == ASSUME ParametersOK, Init PROVE SessionInv
<1>1. request \in [Paths -> Request] /\ \A path \in Paths : request[path] = NoRequest
  BY NoRequestIs DEF Init
<1>2. \A path \in Paths : Right(path, request[path], made, live)
  BY <1>1, NoRequestIs DEF Right, Init
<1>3. request["unlock"].status # 200
  BY <1>1, NoRequestIs DEF Paths
<1>4. /\ made \in 0 .. MaxTokens /\ live \subseteq 1 .. made /\ loads \in 0 .. MaxLoads
      /\ localStorage \in 0 .. made /\ uiToken \in 0 .. made
  BY DEF Init, ParametersOK
<1>5. shown \in BOOLEAN /\ offered \in BOOLEAN
  BY Zenon DEF Init
<1> QED
  BY <1>1, <1>2, <1>3, <1>4, <1>5, Zenon DEF SessionInv, TypeOK

\* The steps of the tab.
LEMMA TabKeeps ==
    ASSUME ParametersOK, SessionInv,
           \/ unlockSession \/ refreshPairingCode \/ refreshTransfers \/ load
           \/ pairDevice \/ renderDevice \/ sendFile
           \/ \E path \in Paths : receive(path) \/ fetch_fails(path)
    PROVE  SessionInv'
<1>1. /\ TokensGrow /\ made' = made /\ live' = live
      /\ request \in [Paths -> Request] /\ made \in Nat /\ 0 .. made \subseteq Tokens \cup {0}
      /\ uiToken \in 0 .. made /\ localStorage \in 0 .. made
      /\ shown \in BOOLEAN /\ offered \in BOOLEAN /\ loads \in 0 .. MaxLoads
  <2>1. made' = made /\ live' = live
    BY DEF unlockSession, refreshPairingCode, refreshTransfers, pairDevice, renderDevice, sendFile, Fetches,
           load, receive, fetch_fails, serverVars
  <2>2. /\ request \in [Paths -> Request] /\ made \in 0 .. MaxTokens /\ live \subseteq 1 .. made
        /\ uiToken \in 0 .. made /\ localStorage \in 0 .. made
        /\ shown \in BOOLEAN /\ offered \in BOOLEAN /\ loads \in 0 .. MaxLoads
    BY DEF SessionInv, TypeOK
  <2> QED
    BY <2>1, <2>2 DEF TokensGrow, ParametersOK, Tokens
<1>2. /\ \A p \in Paths : Right(p, NoRequest, made', live')
      /\ \A p \in Paths, tok \in 0 .. made : p # "unlock" \/ tok = 0 => Right(p, Fetched(tok), made', live')
  <2>1. \A p \in Paths : Right(p, NoRequest, made', live')
    BY <1>1, NoRequestIs DEF Right
  <2>2. ASSUME NEW p \in Paths, NEW tok \in 0 .. made, p # "unlock" \/ tok = 0
        PROVE  Right(p, Fetched(tok), made', live')
    <3>1. tok \in Tokens \cup {0}
      BY <1>1
    <3>2. Fetched(tok).status = 0 /\ Fetched(tok).token = tok /\ Fetched(tok).new = 0
      BY <3>1, FetchedIs, Zenon
    <3> QED
      BY <1>1, <2>2, <3>2 DEF Right
  <2> QED
    BY <2>1, <2>2
<1>3. ASSUME NEW path \in Paths, path = "unlock" => ~isUnlocked, Fetches(path)
      PROVE  SessionInv'
  <2>1. uiToken \in Tokens \cup {0} /\ (path = "unlock" => uiToken = 0)
    BY <1>1, <1>3 DEF isUnlocked
  <2>2. request' = Fetching(request, path, uiToken) /\ UNCHANGED <<localStorage, uiToken, shown, offered, loads>>
    BY <1>3 DEF Fetches
  <2>3. /\ request' \in [Paths -> Request]
        /\ \A p \in Paths : request'[p] = request[p] \/ (p = path /\ request'[p] = Fetched(uiToken))
    BY <1>1, <2>1, <2>2, FetchingIs
  <2>4. Right(path, Fetched(uiToken), made', live')
    BY <1>1, <1>2, <2>1
  <2> QED
    BY <1>1, <2>2, <2>3, <2>4, RequestsKeep
<1>4. CASE load
  <2> DEFINE none == [path \in Paths |-> NoRequest]
             code == Fetching(none, "code", localStorage)
             both == Fetching(code, "transfers", localStorage)
  <2>1. /\ loads' \in 0 .. MaxLoads /\ uiToken' = localStorage /\ localStorage' = localStorage
        /\ shown' \in BOOLEAN /\ offered' \in BOOLEAN /\ request' \in {none, both}
    <3>1. /\ loads < MaxLoads /\ loads' = loads + 1 /\ uiToken' = localStorage
          /\ localStorage' = localStorage /\ shown' = FALSE /\ offered' = FALSE
          /\ request' = none \/ request' = both
      BY <1>4, Zenon DEF load
    <3>2. loads' \in 0 .. MaxLoads
      BY <1>1, <3>1 DEF ParametersOK
    <3> QED
      BY <3>1, <3>2, Zenon
  <2>2. localStorage \in Tokens \cup {0} /\ "code" \in Paths /\ "transfers" \in Paths
    BY <1>1 DEF Paths
  <2>3. none \in [Paths -> Request] /\ \A p \in Paths : none[p] = NoRequest
    BY NoRequestIs
  <2> HIDE DEF none
  <2>4. /\ code \in [Paths -> Request]
        /\ \A p \in Paths : code[p] = none[p] \/ (p = "code" /\ code[p] = Fetched(localStorage))
    BY <2>2, <2>3, FetchingIs
  <2> HIDE DEF code
  <2>5. /\ both \in [Paths -> Request]
        /\ \A p \in Paths : both[p] = code[p] \/ (p = "transfers" /\ both[p] = Fetched(localStorage))
    BY <2>2, <2>4, FetchingIs
  <2> HIDE DEF both
  <2>6. /\ request' \in [Paths -> Request]
        /\ \A p \in Paths : Right(p, request'[p], made', live')
    BY <1>1, <1>2, <2>1, <2>3, <2>4, <2>5
  <2> QED
    BY <1>1, <2>1, <2>6, RequestsKeep
<1>5. ASSUME NEW path \in Paths, fetch_fails(path)
      PROVE  SessionInv'
  <2>1. request' = [request EXCEPT ![path] = NoRequest] /\ UNCHANGED <<localStorage, uiToken, shown, offered, loads>>
    BY <1>5 DEF fetch_fails
  <2>2. /\ request' \in [Paths -> Request]
        /\ \A p \in Paths : request'[p] = request[p] \/ request'[p] = NoRequest
    BY <1>1, <2>1, NoRequestIs
  <2> QED
    BY <1>1, <1>2, <2>1, <2>2, RequestsKeep
<1>6. ASSUME NEW path \in Paths, receive(path)
      PROVE  SessionInv'
  <2> DEFINE done == [request EXCEPT ![path] = NoRequest]
             new == request[path].new
  <2>1. /\ done \in [Paths -> Request]
        /\ \A p \in Paths : done[p] = request[p] \/ done[p] = NoRequest
    BY <1>1, NoRequestIs
  <2>2. /\ request' \in {done, Fetching(done, "code", new)}
        /\ UNCHANGED <<offered, loads>>
        /\ \/ uiToken' = 0 /\ localStorage' = 0
           \/ uiToken' = new /\ localStorage' = new
           \/ uiToken' = uiToken /\ localStorage' = localStorage
    BY <1>6, Zenon DEF receive, setUiToken
  <2>3. shown' \in BOOLEAN
    BY <1>6, Zenon DEF receive, setUiToken
  <2>4. new \in 0 .. made
    BY DEF SessionInv, Right
  <2>5. "code" \in Paths /\ new \in Tokens \cup {0}
    BY <1>1, <2>4 DEF Paths
  <2> HIDE DEF done, new
  <2>6. /\ Fetching(done, "code", new) \in [Paths -> Request]
        /\ \A p \in Paths : \/ Fetching(done, "code", new)[p] = done[p]
                            \/ p = "code" /\ Fetching(done, "code", new)[p] = Fetched(new)
    BY <2>1, <2>5, FetchingIs
  <2>7. /\ request' \in [Paths -> Request]
        /\ \A p \in Paths : request'[p] = request[p] \/ Right(p, request'[p], made', live')
    BY <1>1, <1>2, <2>1, <2>2, <2>4, <2>6
  <2>8. uiToken' \in 0 .. made' /\ localStorage' \in 0 .. made'
    BY <1>1, <2>2, <2>4
  <2> QED
    BY <1>1, <2>2, <2>3, <2>7, <2>8, RequestsKeep
<1>7. CASE renderDevice
  <2>1. UNCHANGED <<localStorage, uiToken, shown, request, loads>> /\ offered' = TRUE
    BY <1>7 DEF renderDevice
  <2>2. offered' \in BOOLEAN
    BY <2>1, Zenon
  <2> QED
    BY <1>1, <2>1, <2>2, RequestsKeep
<1> QED
  <2>1. \A path \in {"unlock", "code", "transfers", "action"} : path \in Paths
    BY DEF Paths
  <2> QED
    BY <1>3, <1>4, <1>5, <1>6, <1>7, <2>1, Zenon
    DEF unlockSession, refreshPairingCode, refreshTransfers, pairDevice, sendFile

\* The steps of the server, and of other tabs.
LEMMA ServerKeeps ==
    ASSUME ParametersOK, SessionInv,
           \/ \E path \in Paths : authorized(path) \/ limited(path)
           \/ unlock \/ unlock_elsewhere \/ other_tab \/ sessions_end
           \/ UNCHANGED vars
    PROVE  SessionInv'
<1>1. /\ request \in [Paths -> Request] /\ \A p \in Paths : Right(p, request[p], made, live)
      /\ made \in 0 .. MaxTokens /\ live \subseteq 1 .. made /\ MaxTokens \in Nat
      /\ uiToken \in 0 .. made /\ localStorage \in 0 .. made
      /\ shown \in BOOLEAN /\ offered \in BOOLEAN /\ loads \in 0 .. MaxLoads
  BY DEF SessionInv, TypeOK, ParametersOK
<1>2. ASSUME NEW path \in Paths, NEW status \in Status, Answer(path, status),
             Unanswered(path), path = "unlock" => status # 200,
             path # "unlock" /\ status = 401 => request[path].token \notin live,
             UNCHANGED <<live, made, localStorage, uiToken, shown, offered, loads>>
      PROVE  SessionInv'
  <2>1. request' = [request EXCEPT ![path] = WithStatus(request[path], status)]
    BY <1>2, Zenon DEF Answer, WithStatus
  <2>2. request[path] \in Request /\ Right(path, request[path], made, live) /\ request[path].sent
    BY <1>1, <1>2 DEF Unanswered
  <2> DEFINE r == WithStatus(request[path], status)
  <2>3. /\ r \in Request /\ r.status = status /\ r.sent /\ r.token = request[path].token
        /\ r.new = request[path].new
    BY <2>2, WithStatusIs, Zenon
  <2> HIDE DEF r
  <2>4. Right(path, r, made', live')
    BY <1>2, <2>2, <2>3 DEF Right
  <2>5. /\ request' \in [Paths -> Request] /\ request'[path] = r
        /\ \A p \in Paths : p # path => request'[p] = request[p]
    <3>1. request' = [request EXCEPT ![path] = r]
      BY <2>1 DEF r
    <3> QED
      BY <1>1, <2>3, <3>1
  <2>6. TokensGrow
    BY <1>1, <1>2 DEF TokensGrow
  <2> QED
    BY <1>1, <1>2, <2>4, <2>5, <2>6, RequestsKeep
<1>3. ASSUME NEW path \in Paths, authorized(path) \/ limited(path)
      PROVE  SessionInv'
  <2>1. {200, 401, 403, 500} \subseteq Status
    BY DEF Status
  <2>2. Unanswered(path) /\ UNCHANGED <<live, made, localStorage, uiToken, shown, offered, loads>>
    BY <1>3 DEF authorized, limited, serverVars
  <2>3. CASE limited(path)
    BY <1>2, <2>1, <2>2, <2>3 DEF limited
  <2>4. CASE authorized(path)
    <3>1. path # "unlock" /\ \/ request[path].token \notin live /\ Answer(path, 401)
                             \/ Answer(path, 200)
                             \/ Answer(path, 403)
      BY <2>4 DEF authorized
    <3> QED
      BY <1>2, <2>1, <2>2, <3>1
  <2> QED
    BY <1>3, <2>3, <2>4
<1>4. ASSUME Creates
      PROVE  /\ TokensGrow /\ made' = made + 1 /\ made' \in Tokens
             /\ 0 .. made \subseteq 0 .. made'
  BY <1>1, <1>4 DEF Creates, TokensGrow, Tokens
<1>5. CASE unlock
  <2>1. CASE Answer("unlock", 401) /\ UNCHANGED <<live, made>>
    <3>1. 401 \in Status /\ "unlock" \in Paths
      BY DEF Status, Paths
    <3>2. Unanswered("unlock") /\ UNCHANGED <<localStorage, uiToken, shown, offered, loads>>
      BY <1>5, Zenon DEF unlock
    <3> QED
      BY <1>2, <2>1, <3>1, <3>2
  <2>2. CASE /\ Creates
             /\ request' = [request EXCEPT !["unlock"].status = 200, !["unlock"].new = made + 1]
    <3> DEFINE r == Unlocks(request["unlock"], made + 1)
    <3>1. request' = [request EXCEPT !["unlock"] = r]
      BY <2>2, Zenon DEF Unlocks
    <3>2. Unanswered("unlock") /\ UNCHANGED <<localStorage, uiToken, shown, offered, loads>>
      BY <1>5, Zenon DEF unlock
    <3>3. /\ "unlock" \in Paths
          /\ request["unlock"] \in Request /\ Right("unlock", request["unlock"], made, live)
          /\ request["unlock"].sent
      BY <1>1, <3>2 DEF Unanswered, Paths
    <3>4. made + 1 \in Tokens \cup {0}
      BY <1>4, <2>2
    <3>5. /\ r \in Request /\ r.status = 200 /\ r.sent
          /\ r.token = request["unlock"].token /\ r.new = made + 1
      BY <3>3, <3>4, UnlocksIs
    <3> HIDE DEF r
    <3>6. Right("unlock", r, made', live')
      BY <1>1, <1>4, <2>2, <3>3, <3>5 DEF Right
    <3>7. /\ request' \in [Paths -> Request] /\ request'["unlock"] = r
          /\ \A p \in Paths : p # "unlock" => request'[p] = request[p]
      BY <1>1, <3>1, <3>3, <3>5
    <3> QED
      BY <1>1, <1>4, <2>2, <3>2, <3>6, <3>7, RequestsKeep
  <2> QED
    BY <1>5, <2>1, <2>2, Zenon DEF unlock, serverVars, Issued
<1>6. CASE unlock_elsewhere
  <2>1. Creates /\ UNCHANGED <<localStorage, uiToken, shown, offered, request, loads>>
    BY <1>6 DEF unlock_elsewhere
  <2> QED
    BY <1>1, <1>4, <2>1, RequestsKeep
<1>7. CASE other_tab \/ sessions_end \/ UNCHANGED vars
  <2>1. /\ made' = made /\ live' \subseteq live /\ localStorage' \in 0 .. made
        /\ UNCHANGED <<uiToken, shown, offered, request, loads>>
    BY <1>1, <1>7 DEF other_tab, sessions_end, vars, serverVars
  <2>2. TokensGrow
    BY <1>1, <2>1 DEF TokensGrow
  <2> QED
    BY <1>1, <2>1, <2>2, RequestsKeep
<1> QED
  BY <1>3, <1>5, <1>6, <1>7

LEMMA SessionAlways == ASSUME ParametersOK PROVE Spec => []SessionInv
<1>1. ASSUME SessionInv, [Next]_vars PROVE SessionInv'
  BY <1>1, TabKeeps, ServerKeeps DEF Next
<1> QED
  BY <1>1, SessionInit, PTL DEF Spec

\* LostForReason: the tab drops a session that is good on the server only for a
\* 403, or for an answer that was meant for another token.
THEOREM SessionsAreLostForReason == Spec => LostForReason
<1> DEFINE HasReason ==
               isUnlocked /\ uiToken \in live /\ uiToken' = 0 /\ loads' = loads =>
                   \E path \in Paths :
                       /\ Handled(path)
                       /\ request[path].status = 403 \/ request[path].token # uiToken
<1>1. ASSUME SessionInv, [Next]_vars,
             isUnlocked, uiToken \in live, uiToken' = 0, loads' = loads
      PROVE  \E path \in Paths :
                 /\ Handled(path)
                 /\ request[path].status = 403 \/ request[path].token # uiToken
  <2>1. uiToken # 0 /\ uiToken' # uiToken /\ loads' = loads /\ loads \in Int
    BY <1>1 DEF isUnlocked, SessionInv, TypeOK
  <2>2. PICK path \in Paths : receive(path)
    BY <1>1, <2>1
    DEF Next, vars, unlockSession, refreshPairingCode, refreshTransfers, pairDevice,
        renderDevice, sendFile, Fetches, load, authorized, limited, fetch_fails, unlock, unlock_elsewhere,
        other_tab, sessions_end
  <2>3. Right(path, request[path], made, live) /\ request[path].status # 0
    BY <1>1, <2>2 DEF SessionInv, receive
  <2>4. request[path].status \in {401, 403}
    BY <1>1, <2>1, <2>2, <2>3 DEF receive, setUiToken, DropsOn, Right
  <2>5. request[path].sent /\ ~request'[path].sent
    <3>1. request[path].status # 200
      BY <2>4
    <3>2. request' = [request EXCEPT ![path] = NoRequest]
      BY <2>2, <3>1, Zenon DEF receive
    <3> QED
      BY <1>1, <2>3, <3>2, NoRequestIs DEF Right, SessionInv, TypeOK
  <2>6. request[path].status = 401 => request[path].token # uiToken
    BY <1>1, <2>1, <2>3 DEF Right
  <2> QED
    BY <2>4, <2>5, <2>6 DEF Handled
<1>2. SessionInv /\ [Next]_vars => [HasReason]_vars
  BY <1>1
<1> QED
  BY <1>2, SessionAlways, ParametersAssumption, PTL DEF Spec, LostForReason

-----------------------------------------------------------------------------
(* The send dialog.                                                        *)

\* Requests have numbers, so that the next is a new one; the device of the dialog
\* is selected, unless an answer has cleared it since; and the input holds no file
\* but the one chosen last.
DialogInv ==
    /\ sent \in Nat /\ \A r \in requests : r.n \in Nat /\ r.n <= sent
    /\ dialog # Nil => selectedDevice = dialog \/ (selectedDevice = Nil /\ cleared)
    /\ value \in {last, Nil}

LEMMA DialogAlways == ASSUME D!ParametersOK PROVE D!Spec => []DialogInv
<1>1. D!Init => DialogInv
  BY DEF D!Init, DialogInv
<1>2. ASSUME DialogInv, [D!Next]_(D!vars) PROVE DialogInv'
  <2>1. ASSUME NEW d \in Devices, D!click(d) PROVE DialogInv'
    BY <1>2, <2>1 DEF D!click, D!Selected, DialogInv
  <2>2. CASE D!cancel
    BY <1>2, <2>2 DEF D!cancel, DialogInv
  <2>3. ASSUME NEW f \in Files, D!change(f) PROVE DialogInv'
    BY <1>2, <2>3 DEF D!change, DialogInv
  <2>4. ASSUME NEW r \in requests, D!answered(r) \/ D!fetch_fails(r) PROVE DialogInv'
    BY <1>2, <2>4 DEF D!answered, D!fetch_fails, D!AfterAnswer, DialogInv
  <2>5. CASE UNCHANGED D!vars
    BY <1>2, <2>5 DEF D!vars, DialogInv
  <2> QED
    BY <1>2, <2>1, <2>2, <2>3, <2>4, <2>5 DEF D!Next
<1> QED
  BY <1>1, <1>2, PTL DEF D!Spec

\* SentWhereClicked: a file goes to the device that was clicked for it, and goes
\* unsent only if an answer arrived while the dialog was open, or if it is the file
\* chosen last and no answer has arrived since, as in a retry after fetch threw.
THEOREM FilesGoWhereClicked == D!Spec => SentWhereClicked
<1> DEFINE GoesRight == /\ \A r \in requests' \ requests : r.to = dialog
                        /\ \A f \in Files : D!Dropped(f) => cleared \/ f = last
<1>1. ASSUME DialogInv, D!Next PROVE \A r \in requests' \ requests : r.to = dialog
  <2>1. ASSUME NEW f \in Files, D!change(f) PROVE \A r \in requests' \ requests : r.to = dialog
    BY <1>1, <2>1 DEF D!change, DialogInv
  <2> QED
    BY <1>1, <2>1 DEF D!Next, D!click, D!cancel, D!answered, D!fetch_fails
<1>2. ASSUME DialogInv, NEW f \in Files, D!Dropped(f) PROVE cleared \/ f = last
  <2> DEFINE new == [n |-> sent + 1, file |-> f, to |-> selectedDevice]
  <2>1. new \notin requests
    BY <1>2 DEF DialogInv
  <2>2. dialog # Nil /\ (f = value \/ selectedDevice = Nil)
    BY <1>2, <2>1 DEF D!Dropped, D!change
  <2> QED
    BY <1>2, <2>2, ParametersAssumption DEF DialogInv, D!ParametersOK
<1>3. DialogInv /\ [D!Next]_(D!vars) => [GoesRight]_(D!vars)
  BY <1>1, <1>2
<1> QED
  BY <1>3, DialogAlways, ParametersAssumption, PTL DEF D!Spec, D!SentWhereClicked, SentWhereClicked
-----------------------------------------------------------------------------
(* The run.                                                                *)

\* What is proved of the session and of the dialog holds of the specification
\* that TLC checks: to each the other's steps are stutters.
LEMMA UiParts == UiSpec => Spec /\ D!Spec
<1>1. UiInit => Init /\ D!Init
  BY DEF UiInit
<1>2. [UiNext]_<<about, vars, dialogVars>> => [Next]_vars /\ [D!Next]_(D!vars)
  BY DEF UiNext, dialogVars, D!vars
<1> QED
  BY <1>1, <1>2, PTL DEF UiSpec, Spec, D!Spec
===============================================================================
