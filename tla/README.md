# LocalDrop: a verification project

LocalDrop (C, `src/`) is a LAN file-sharing service: a web server takes files
from a browser or from another LocalDrop node, and a queue sends files to
discovered and paired nodes. This directory holds TLA+ modules that model its
stateful parts, TLC configurations that check them on small instances, and
TLAPS proofs for every size of the tables. Source paths below are relative to
the repository.

## 1. Inventory

### The parts, their state and their operations

| Part | State | Operations |
|---|---|---|
| Transfer queue, `src/transfer_queue.c` | job table, ring of waiting slots, `queue_running`, one worker thread | init, enqueue (sweep, prune, create, push, signal), worker loop, progress callback, status, shutdown |
| Transfer client, `src/transfer.c` | none of its own (libcurl) | `transfer_send_file`, `transfer_pair_peer` |
| Storage, `src/storage.c` | `staging/`, `downloads/`, one `UploadStage` per request | open, write, seal, commit, abort, delete, sweep |
| HTTP server, `src/server.c` | one `connection_info` per request | headers, pieces of the body, end of the body, `request_completed` |
| Auth, `src/auth.c` | UI sessions, pairing code, peer tokens, rate limit windows, all under `auth_lock` | create/validate session, get code, issue/store/get/validate token, allow |
| Peer registry, `src/peer_registry.c` | table of endpoints with `active` and `paired` | add or update, mark inactive, set paired, find, snapshot |
| Discovery, `src/discovery.c` | Avahi browser and resolvers | browse and resolve callbacks, poll |
| Lifecycle, `src/main.c` | which parts are up | start-up ladder, main loop, stop |
| JSON, `src/json_utils.c` | a growing buffer per answer | append, format, escape |
| Web page, `src/ui.c` | token (shared by tabs through localStorage), shown pairing code, selected device | unlock, polls, pairing, sending |
| Crypto, `src/crypto.c` | none | random values |

### How they interact

libmicrohttpd runs one thread per connection and calls
`answer_to_connection` and `request_completed`. A request thread uses the auth
tables (under `auth_lock`), the registry (under `registry_lock`), the queue
(under `queue_lock`) and the two directories (under no lock). The worker thread
of the queue calls libcurl without a lock. The main thread polls Avahi, whose
callbacks write the registry, and starts and stops everything. Two nodes
interact through `/upload` (a file, with a peer token) and
`/api/pair/exchange` (a pairing code for a token).

### What is hard

* The worker reads a slot of the table without the lock while requests prune
  and reuse slots; wakeups; the ring's wrap-around; drain at shutdown.
* A staged file changes hands: connection, queue, sweep; each may delete it.
  The sweep runs in every enqueue, under no lock.
* A transfer that times out may or may not have been received.
* A crash loses all tables and keeps all files.
* Fixed tables with lazy expiry: slots are reused by one function, expired by
  another, and looked up by a third.
* The rate limiter reads the clock before it takes the lock.
* Pairing writes two tables on each of two nodes, without a lock across them;
  its answer may be lost, and it may cross with another pairing.
* Avahi's events and the answers of its resolvers come in an order of their
  own, and a name stands for several endpoints.
* The page uses after an `await` what it read before it.
* `main` stops parts in an order that must suit every thread that uses them.

`PROJECT.json` lists these hazards at their lines with the properties that
would catch them.

### What makes each part correct

* Queue: ring and table agree, the worker keeps its slot, jobs are served in
  order and end, outcomes are final, shutdown drains, files are neither lost
  nor leaked, nothing is delivered twice.
* Upload handling: only complete and authorized files are handed on, no staged
  file is left over, what was answered with success is there.
* Rate limiter: at most `limit` per window, windows do not open early, no
  refusal without a reason.
* Sessions and tokens: a credential works for its owner, for its lifetime, and
  for no one else and no longer; nobody else's operation takes it away.
* Registry and discovery: one entry per endpoint, the flags follow what was
  last observed, no order of events loses a peer.
* Pairing: after success both nodes list each other and hold the same token.
* Page: it holds a session as long as the server does, and shows and sends what
  the user asked for.
* Lifecycle: everything started is stopped, in an order its users survive.
* Text: buffers hold what was put into them, names stay plain, and what one
  node writes the other reads.

## 2. Modules

| Module | Models | Checked by | Proved in |
|---|---|---|---|
| `TransferQueue` | `transfer_queue.c`, the send part of `transfer.c`, the sweep of `storage.c` | `MCTransferQueue`, `MCShutdown` | `TransferQueueProofs` |
| `JobQueue` | the abstract promise of the queue: jobs are served first come first served, one at a time, to an outcome | refinement from `TransferQueue`, in `MCShutdown` | `TransferQueueProofs` |
| `UploadHandler` | `/upload` and `/api/send` in `server.c`, `UploadStage` in `storage.c` | `MCReceive`, `MCUploadHandler` | `UploadHandlerProofs` |
| `RateLimiter` | `auth_rate_limit_allow` | `MCAuth`, `MCRateLimiter` | `AuthProofs` |
| `UiSessions` | UI sessions in `auth.c` | `MCAuth` | `AuthProofs` |
| `PeerTokens` | pairing code and peer tokens in `auth.c` | `MCAuth` | `AuthProofs` |
| `PeerRegistry` | `peer_registry.c`, the callbacks of `discovery.c`, the handlers that use the registry | `MCPeers`, `MCDiscovered` | `PeersProofs` |
| `PeerDirectory` | the abstract promise of the registry: what is listed for an endpoint, and who is turned away | refinement from `PeerRegistry`, in `MCPeers` | `PeersProofs` |
| `Pairing` | two nodes: `/api/pair`, `/api/pair/exchange`, `transfer_pair_peer`, the use of the token | `MCPeers`, `MCPairing` | `PairingProofs` |
| `WebClient` | the session in the script of `ui.c` and what the handlers answer to it | `MCUi` | `PageProofs` |
| `SendDialog` | the send button and its listener in `ui.c` | `MCUi` | `PageProofs` |
| `Lifecycle` | `main.c`, `discovery_init` and `discovery_cleanup`, the threads that run meanwhile | `MCShutdown` | `LifecycleProofs` |
| `JsonText` | `json_utils.c`, the answer with a token, the search for it in `transfer.c` | `MCReceive` | `TextProofs` |
| `FormFields` | `copy_form_value` | `MCReceive` | `TextProofs` |
| `FileNames` | `sanitize_filename` and the names in `staging/` and `downloads/` | `MCReceive` | `TextProofs` |

`MCShutdown`, `MCReceive`, `MCAuth`, `MCPeers` and `MCUi` each put side by side
the specifications of parts that belong together but share no state, or see
each other only through what each abstracts from. A behaviour exercises one of
the parts, chosen in its initial state (`about` or `table`), and leaves
the others alone; so the states are the sum of the parts' states, not their
product. The first part is extended, the others are instances: their properties
are named once more in the MC module, and the conditions on their constants
(`ParametersOK`) are the assumption `ParametersAssumption` there. A proof
module extends the module of its component, or the MC module where the component
is an instance in it; then its theorems speak of that instance
(`P!Spec => []FoundIsLatest`), with constants that have no values: a `.cfg` gives
them values for TLC only.

### TransferQueue

State: `jobs`, `pending_queue`, `queue_head`, `queue_tail`, `queue_count`,
`queue_running` are the static variables of the file. `worker`, `slot`,
`path`, `send_result` are the worker thread's position and locals; `main` is
the main thread; `req[r]` is where request `r` is; `staged` and `mtime` are
`staging/`. `taken`, `received` and `since` are history: the job the worker
took, deliveries at the peer, and when the job now served became the next.

Atomicity: a critical section under `queue_lock` is one step. Outside the lock
there are steps of their own: the sweep in `transfer_enqueue`, the read of the
slot and opening of the file, `curl_easy_perform`, and the abort of a refused
upload. `pthread_cond_wait` may wake spuriously. A send may fail although the
peer received the file. `crash` ends the process at any moment;
`transfer_queue_init` may start another one, with empty tables, and sweeps.
`server_stop` waits for request threads, as `MHD_stop_daemon` does.

A request stands for its file and its job id (both random and fresh).

### JobQueue

`state` of each job and the `line` of waiting jobs. `TransferQueue` implements
it with the line read out of the ring and the state out of the table
(`ImplementsJobQueue`, fairness included).

### UploadHandler

One connection is `phase`, the flags of `connection_info` as sets
(`checked`, `authorized`, `failed`, `started`, `saved`) and its `UploadStage`
(`stage`, `name`, `bytes`). `sent` counts what the client sent, `saved_at` when
the file was committed (history). Every call of `answer_to_connection` is an
action: the first one (`connect`), the pieces (`receive_*`, `open_fails`,
`iterate_post`), the end of the body (`finish_*`, `validate_target_peer`), and
`request_completed`, which may come at any time. The look at the token is a
step of its own, taken once, before the first piece is parsed; the token of any
request may be accepted or refused there, and so may the request by the rate
limit. stdio buffers, so a write may leave the
modification time unchanged. `finish_commit` renames over whatever is at the
path. Enqueueing sweeps `staging/` first. `queue_removes` is the transfer queue
deleting its file; `restart` is a process that dies and one that starts.

### RateLimiter, UiSessions, PeerTokens

The tables slot by slot, with the scans as the code does them: which slot is
found first, and which expired slots a scan clears before it stops. A call of
the rate limiter is two steps, because it reads the clock before it takes the
lock; in the other two modules everything happens under the lock. Fields of an
inactive record are never read and are reset. Tokens and codes are fresh
numbers. What other nodes announce as a token's expiry is arbitrary within
`TokenTTL`.

### PeerRegistry and PeerDirectory

`registry` and `registry_count` are the static variables of the file; each
function of the registry holds `registry_lock` and is one step. A handler that
calls two of them, or waits for another node in between, takes several steps
(`req`). Avahi is external: `announce`, `withdraw` and `move` are what nodes do,
`events` the browser's events in order, `resolvers` the resolvers that run. A
resolver reads the address some time before its callback runs, and the callback
may run after the removal of its service. `discovery_poll` runs one callback.
`ghosts`, `excused` and `refused` are history: which endpoints are online for a
reason other than an announcement; which services need not be online (resolver
failed, table full, node moved, or another service of the same name removed after
this one had come online); and which endpoints a full table turned away. The
removal of a service of the name excuses nobody whose own event or resolver is
still under way: that one has to come online again.

`PeerDirectory` is what the table promises: an entry per endpoint that is seen,
gone or paired, and never forgotten, and a refusal only of an endpoint that is
not listed when as many are as fit. `PeerRegistry` implements it, with the
entry that the linear scan finds. The scan hides a second entry for an endpoint,
so that `UniqueEntry` is an invariant of its own.

`MCDiscovered` adds a record of the endpoints that discovery found.

### Pairing

`held[n]` is node `n`'s record for the other node; `entry[n]` is what its
registry has of the other node: listed, not listed and room for it, or not listed
and full of others (`registry_grows`); `paired[n]` is the flag of the entry,
`pairings` every pairing asked for so far, with the position of the
thread on each side. `loses` breaks the connection before the request or its
answer, `pair_fails` is any failure the asking side sees, `restart` empties a
node's tables. The nodes' clocks differ by `Offset`. A lookup that passes an
expired record clears it (`passes`), as the scans of `PeerTokens` do. A send
copies the token into `job`; the other node looks at it later.

Two results are ignored, as in the code, and `SuccessIsMutual` names what each
leaves behind a success. `/api/pair/exchange` lists and marks nothing when its
registry is full (`server.c:634-635`, `peer_registry.c:68`): `exchange_marks`
answers all the same, and the issuing node does not list the other. `/api/pair`
ignores `auth_store_peer_token` (`server.c:761`), which fails when the node has no
record for the peer and none is free; whether other peers take the records is left
open. The asking node then has no token, and `kept` remembers it.

### WebClient and SendDialog

`WebClient` has one tab in full and the others as an environment that writes
localStorage. A request is sent, answered by the server and received by the tab
in three steps; at most one per path is under way, a bound. The answers are
those of the handlers, 401 and 403 apart from all other failures. Dropping the
session and writing the token go through `setUiToken`, as in the script.
`pairDevice` needs a session; `sendFile`, the listener of the file dialog, looks at
none and needs only a button that was once drawn enabled (`offered`), so that a
tab that was locked meanwhile may still send.

`SendDialog` has the click, the file dialog, the listener up to its `await`, and
the rest of it. `dialog` remembers whose button was clicked, `last` the file chosen
last while no answer has arrived since. When the connection fails, the `await`
throws, the listener ends before it empties the input, and the browser fires no
event when the same file is chosen again.

### Lifecycle

`up` are the parts that run; `stopping` is what `main` has yet to stop, taken
from the path it is on: after a failed start or at the end. `discovery_init` is
taken step by step, because it may fail in between and frees nothing. The
threads appear as requests (`active`), `queued` jobs and the `worker`; stopping
the server waits for the requests, stopping the queue drains it.

### JsonText, FormFields, FileNames

Text is a sequence of classes of characters, as far as the code tells them
apart. `JsonText` appends byte by byte into a buffer that doubles, and reads the
result back twice: as a JSON reader does and as `extract_json_string_field`
does. A message may contain every class of characters. The JSON reader is the page;
between nodes the message, too, is read by the search in the raw text
(`transfer.c:351`, `transfer.c:374`), which would stop at an escaped quote, but the
messages of these answers are fixed strings without one. `FormFields` feeds values
in pieces to `copy_form_value`. `FileNames` takes a name through staging,
committing and sending on.

## 3. Runs

| Run | Question | Result |
|---|---|---|
| `queue` | safety of the queue with three requests, two slots, pruning, sweep, shutdown, crash and restart | holds, 3.3 million states |
| `shutdown` | do accepted jobs and the process end, is everything that was started stopped in an order its users survive, does the queue implement `JobQueue` | holds under fairness, 62 thousand states |
| `receive` | who owns a staged file, is what is handed on complete, when can a committed file be replaced; bounds and content of form fields; bounds, escaping and search of answers; names through two nodes | holds, 7.1 million states |
| `auth` | limits, windows and refusals with stale clocks; ownership and lifetime of sessions, codes and tokens | holds, 620 thousand states |
| `peers` | does the registry follow discovery in every order of events, is no endpoint listed twice, does it implement `PeerDirectory`; what is a success of pairing worth after lost answers, full tables and a restart, what is a queued token worth, do nodes wait for each other | holds under fairness, 541 thousand states |
| `ui` | when does a tab lose its session, does it notice a dead one, where do files go when answers fall into the next dialog | holds under fairness, 127 thousand states |
| `queue_failed_file` | "cleaned up after completion or failure" (README.md) | violated |
| `queue_forget` | "eventually cleaned up from memory" (docs/wiki/API.md) | violated |
| `upload_overwrite` | "Received files are committed into `downloads/`" (README.md) | violated |
| `rate_limit_full` | "request rate limiting by client IP and scope" (docs/wiki/Architecture.md) | violated |
| `pairing_crossed` | the token "Authenticates paired peer uploads" (docs/wiki/API.md) | violated |
| `registry_send` | "only allowed to active discovered peers" (docs/wiki/API.md) | violated |

The violated runs are the findings in `PROJECT.json`:

* A failed job keeps its file until somebody enqueues again
  (`transfer_queue.c:234`), and a job past its retention stays in memory until
  then (`transfer_queue.c:105`): pruning and sweeping happen only in
  `transfer_enqueue`, and at start.
* Of two uploads of one name committed in the same second only the later
  exists, though both were answered with success (`storage.c:212`).
* A client with no requests of its own is refused when the table of windows is
  full of others (`auth.c:435`).
* Two pairings that overlap can leave the nodes with different tokens, both
  listed as paired (`server.c:761`), and the page offers no new pairing.
* A node that pairs with us is listed, active and paired though discovery never
  found it (`server.c:634`), and `/api/send` accepts it as a target.

### Observations

Behaviour that the models show and that a reader of the code may not expect.
Where a property of a passing run has to make room for it, the property names
it, so that it holds in every other case.

* A node that pairs with us becomes online though discovery never saw it or saw
  it leave (`server.c:634`), and so does one whose resolver answers after its
  removal (`discovery.c:40`): `ghosts` in `OnlineIsAnnounced`. What becomes a
  target of sends that way is the finding of `registry_send`.
* A node that withdraws its service on one interface goes offline on all
  (`discovery.c:84`), for good if the others stay announced: `excused` in
  `AnnouncedComesOnline`.
* A pairing is reported as a success although the other node's registry, or this
  node's table of tokens, was full and kept nothing (`server.c:634`,
  `server.c:761`): the exceptions in `SuccessIsMutual`.
* A peer whose token expired stays listed as paired, because nothing resets the
  flag (`server.c:361`); `/api/send` then answers 403.
* The page takes a 403 about the target peer for the end of its session
  (`ui.c:202`): a reason in `LostForReason`.
* It shows a pairing code that arrives after it was locked (`ui.c:240`).
* It forgets the device of an open dialog when the answer for another one
  arrives (`ui.c:407`), and the file chosen then goes nowhere: `cleared` in
  `SentWhereClicked`.
* After a failed connection the same file cannot be sent again until another one
  was chosen, the answer to another send arrived, the page was loaded again or, in
  some browsers, a dialog was cancelled: `fetch` throws (`ui.c:398`) before the input is emptied (`ui.c:406`), and the browser
  sees no change. This is `last` in `SentWhereClicked`.
* A discovery that failed halfway is never released (`main.c:195`): the
  exception in `ExitIsClean`.

### Bounds

* `queue`: two slots and three requests make the ring wrap, a slot be reused and
  the table be full. `JobRetention = 1` and `MaxTime = 4` let jobs expire and be
  pruned; `StagingRetention = 4` is the least value `RetentionAssumption` allows
  with two slots and `JobTime = 1`, so that the sweep runs as early as it can.
  The real values (128 jobs, 300 s each, 86400 s) satisfy the assumption. Two
  starts show one restart.
* `shutdown`: two requests, so that one job waits while the other is sent; for
  the process two requests and two jobs, and the parts of `main`.
* `receive`: two uploads of one name and a send; files of one byte and clients
  that send up to two reach the limit and pass it. A retention of one second
  lets the sweep take files of stalled requests, and two seconds tell commits
  of one second from those of different ones. `upload_overwrite` has three
  uploads and two names.
  The texts of `receive`: a field shorter than its buffer, as long or longer, in
  all pieces, three times. An initial capacity of 4 makes the buffer of an answer double up
  to 64, reached at different offsets by different messages; five characters
  hold the whole pattern that the search looks for, quotes and colon included.
  Names of ten characters are cut at the buffer of ten; shorter ones are refused
  by the file system on the first or the second node.
* `auth`: two records or sessions and three keys or clients make the tables
  full, and so do two addresses with two ports; times run past the end of a
  lifetime, so that slots expire and are reused. The sessions have bounds of
  their own (`MaxSessionTokens`, `MaxSessionTime`), so that a slot is used a
  second time to the end.
* `peers`: a table of two entries for three endpoints fills up; one node with
  two interfaces shows what a shared name does, another has our own name.
  `MaxChanges = 4` bounds the changes on the network and the requests together:
  a service comes, goes and comes back while a peer pairs; both services of a
  name come, one is removed while the other stays or is still being resolved,
  and there is one more to disturb it. (With the excuse of `browse_remove` taken
  away, TLC finds `AnnouncedComesOnline` violated by such a removal.)
  Two pairings can cross; one clock is ahead, a token lives two ticks, so that
  it may expire at one node and not at the other, and a restart may hit either
  node between any two steps.
* `ui`: two sessions and one reload, every path has a request; two devices, two
  files and three requests of the dialog.
* Every counter is bounded by a named constant (`MaxTime`, `MaxStarts`,
  `MaxSent`, `MaxPiece`, `MaxTokens`, `MaxSessionTokens`, `MaxSessionTime`,
  `MaxChanges`, `MaxPairings`,
  `MaxRestarts`, `MaxLoads`, `MaxRequests`, `MaxJobs`, `MaxMessage`,
  `MaxLength`, `MaxValues`, `MaxNodes`).

Requests, uploads and keys with the same limit are interchangeable; symmetry is
used in `queue`, `receive`, `upload_overwrite` and `rate_limit_full`, which
check no liveness.

`CHECK_DEADLOCK FALSE` appears where a model may come to rest with nothing owed:
when every request is over and the clock is at its bound (uploads, pairing),
when the network changes no more (`peers`), when the process has exited
(`shutdown`), and when a text is complete (`receive`).

Among the type invariants only that of the queue is a property of a run, because
the ranges of the ring's indices are part of what could go wrong. The proofs
state the types they need as parts of their inductive invariants; only in
`SendDialog`, `FileNames` and `JsonText` those are narrower than `TypeOK`, which
documents the variables there.

### Fairness

In `TransferQueue` the worker, a request thread inside
`transfer_enqueue`, and the main thread inside `transfer_queue_shutdown` are
threads of a running process and keep running; libcurl returns, at the latest
at its timeout (`transfer.c:240`); time passes. Nothing forces a request to
arrive, the user to stop the program, or a crash. `tick` is bounded by
`JobTime` while the worker has work, which is that timeout.

* `PeerRegistry`: the loop of `main` keeps polling, and Avahi answers every
  resolver, with an address or a failure.
* `Pairing`: request threads keep running. The timeout of 30 s is not relied on;
  an asking thread gives up when the connection failed or the peer refused.
* `WebClient`: the timer of 3 s fires and what arrived is handled. A poll is
  answered by its handler again and again (strong fairness): one tab polls 20
  times a minute, and the limit of 30 starts anew every minute.
* `Lifecycle`: `main` goes on, requests end (30 s at most for the peer in
  `/api/pair`), and so do transfers (300 s).

A behaviour of `shutdown` is fair to the part it exercises; in `peers` and `ui`
the other part enables nothing that its fairness speaks of.

## 4. Proofs

`TransferQueueProofs` proves, for every number of slots, requests and starts:

* `TypeCorrect`, `RingAgrees`, `SlotIsOwned`, `ShutdownDrains`,
  `DeliveryIsOnce`, `FilesAreOwned`, `QueuedFilesAreKept`: the invariants
  `TypeOK`, `RingMatchesTable`, `WorkerOwnsSlot`, `StoppedMeansDrained`,
  `DeliveredOnce`, `NoStrayFile`, `QueuedFileKept`;
* `OutcomesAreFinal`: the action property `OutcomeIsFinal`.

The inductive invariant starts with `CoreInv`: `TypeOK`, `RingMatchesTable`,
`WorkerOwnsSlot`, `TableInv` (which requests the jobs of the table belong to,
each to one) and `ControlInv` (how the positions of main, worker and requests
go together). Ring and table need each other: that a pruned or reused slot is
not in the ring follows from its status, and that the slot the worker takes is
queued follows from the ring. On top of it come `DeliveryInv` (what has been
received, by where the worker is), `NoStrayFile`, and, for the sweep, `TimeInv`:
when the worker turned to the job it serves now, a job with `n` jobs before it
had waited at most `(MaxJobs - n) * JobTime`, so with `RetentionAssumption` it
is served before its file expires. Arithmetic
lemmas about the ring (`RingIndex`, `RingShift`, `RingAdvance`, ...) come first.

`QueuedFilesAreKept` rests on `RetentionAssumption` and on the bound on serving
a job (`JobTime`), and speaks of files enqueued at most `UploadSlack` after
their last write; a file that lay longer may be swept under its job, which then
fails.

On top of `CoreInv` also rests `QueueIsJobQueue`: `TransferQueue` implements
`JobQueue`, its fairness apart. The proof first shows what the mapped variables
are: the scan of the table finds the one slot of a request (`JobIsShown`), and
the line is a sequence of requests (`LineIs`). `AbstractActions` states
`JobQueue`'s actions in those terms. Then each step is a step of `JobQueue` or a
stutter: an accepted enqueue prunes and joins the line (`RefinesEnqueue`), a
refused one only prunes (`RefinesRefused`), the worker takes the head
(`RefinesTake`) and ends the job (`RefinesOutcome`), the end of a process forgets
everything (`RefinesStop`), all else is invisible (`RefinesElsewhere`).

`UploadHandlerProofs`, for any set of requests and names, any size and any
retention: `StagesAreOwned`, `HandOnsAreComplete`, `CommitsAreKept` and
`QueueKeepsFile`, the properties `NoStrayStage`, `HandedOnIsComplete`,
`CommittedIsKept` and `QueueOwnsFile`. The inductive invariant says how the flags
of a `connection_info` go together (`FlagsAgree`), what is true until the body
ends (`OpenConnection`: nothing is saved, and all that was sent without a failure
was written), that nothing comes in before the token was looked at, and that a
file `request_completed` leaves alone has another owner (`SavedIsOwned`).
`CommitInv` names the file that is at a path now.

`AuthProofs`, for every size of the three tables, every lifetime and limit, and
any number of threads, keys, clients and endpoints:

* Windows: `TypeCorrect`, `LimitHolds`, `WindowsStayApart`, `RefusalHasReason`.
  `LimitInv` says that no two records are about one key (`UniqueRecord`), that a
  record describes the latest window of its key (`RecordIsLatest`), and that a
  key without a record has no open window (`NoRecordIsOver`): the last covers a
  thread with an old clock value whose record another thread has cleared. A full
  table gives an injection from slots into open windows.
* Codes and tokens: `OnlyLatestIsFound`, `PairsStay`, `RefusalsAreForRoom`,
  `CodesAreTemporary`. `TokenInv` has the same shape (`UniqueToken`,
  `TokenIsLatest`, `NoTokenIsOver`): without uniqueness a scan that stops at the
  first match could answer with an older token, and one that clears expired
  records on its way could clear the wrong one.
* Sessions: `OnlyOwnIsAccepted`, `UnlocksStay`, from `SessionIsHandedOut`: a
  session of the table is one that was handed out, to the client and for the time
  it names.

`PeersProofs`, for every network, any requests and any table: `TypeCorrect`
(entries fill the array from its start), `EntriesAreUnique` (`UniqueEntry`),
`OnlineAreAnnounced` and `RegistryIsDirectory`, the refinement
`ImplementsDirectory`. `UniqueEntry` makes the entry that the linear scan finds
the entry of the endpoint, and with it as many endpoints are listed as there are
entries (`ListedFits`), so that a table without room is a full directory
(`FullRefuses`). For
`OnlineIsAnnounced`, which speaks of the moments without events, the invariant
says what holds in between: an online entry has a service behind it that is
announced, or whose removal is still to be handled (`OnlineHasService`), whatever
resolvers answer late.

`PairingProofs`, for two nodes, any difference of their clocks, any lifetime and
any number of pairings and restarts: `TypeCorrect`, `SuccessesAreMutual`,
`RefusalsHaveReasons`. The invariant follows the two threads of a pairing
(`Stages`), says that nothing is open beside the last pairing while it overlaps
with none (`SoloIsAlone`), and that such a pairing, if nothing disturbed it,
holds its token on each side from the step that wrote it until it expires there
(`LastIsHeld`), or, on the asking side, that nothing was stored because no record
was free. `AnsweredIsListed` says the same of the two registries: the asking node
listed the other before it asked, and the issuing node lists and marks the asking
one before it answers, unless its table is full, and then it stays so. `HeldIsKept` and `JobIsKept` bring that to a
file that was queued with the token.

`LifecycleProofs`, for any number of requests and jobs: `TypeCorrect`,
`NothingDeadIsUsed` (`UsedIsUp`), `ExitsAreClean`. What `main` has yet to stop is
always one of eight lists (`Remaining`), because the ladder after a failed start
is a rest of the one at the end; `UpIsKnown` says what is up in each phase, and
`UsersInv` which part each thread needs.

`PageProofs`, for any number of sessions, loads, devices and files:
`SessionsAreLostForReason` (`LostForReason`) and `FilesGoWhereClicked`
(`SentWhereClicked`). The first needs to know of every answer under way that a
401 is about a token that is dead by then (`Right`); the second that the dialog's
device is selected unless an answer has cleared it, and that the input holds
nothing but the file chosen last, and nothing once an answer has arrived.

`TextProofs`, for all sizes and lengths:

* `FieldsAreCopied`: `FieldIsCopied`, which is `InBounds` and `HoldsValue`.
  `HoldsValue` is not inductive, because a piece that starts behind the end
  writes nothing, not even a NUL; the invariant adds `LastIsNUL`, that the last
  byte is never anything but the NUL `calloc` put there. A piece is either late
  (`LatePiece`) or copied as far as it fits (`EarlyPiece`, with `CopyFits`).
* `NamesAreUsable`: `NameIsUsable`. What the second node stages is a name the
  first one made plain (`NamesInv`), and sanitising it again adds nothing.
* `AnswersAreUnderstood`: `AnswerIsUnderstood`, from an invariant for each of its
  three parts.
  * `BufferInv`: the text and its NUL fit. That enough doublings for `n` bytes
    are among the first `n` is shown by the least number for which they would
    not be (`GrownFits`).
  * `ReadInv`: a JSON reader that follows the answer byte by byte has read the
    message written so far. What the reader reads is a recursive function, whose
    value the provers cannot compute for a text of any length; the invariant says
    instead that there is a reading of the text with the right end (`ReadAs`).
    Every step of the builder continues it (`ReadsOn`, with `EscapedReads`,
    `QuoteEnds` and `EndStays` for what is appended), and there is only one
    (`ReadingIsUnique`), so that it is what the reader reads.
  * `AnswerInv` says how an answer is put together, for `TokensAreFound`: in the
    message every quote has its backslash before it (`Framed`), so that the
    pattern, in which `token` comes before a quote, matches nowhere but at the
    key (`KeyIsFound`). The search looks at raw text, so that this does not
    follow from the message being read back.

Where a run composes several parts, a lemma shows that its specification implies
those of its parts, so that what is proved of them holds of what TLC checks:
`ReceiveParts`, `UiParts`, `PeersParts`, `EndsParts` and `AuthParts`. The last speaks
of the behaviours about one table at a time, because the three share the clock.

The assumptions are those on the constants (`ParametersAssumption` and its like:
sizes, limits and lifetimes are natural numbers, tables have a slot, the sets
of keys and endpoints are finite) and `RetentionAssumption`. The bounds
that make TLC's instances finite are constants too and may have any value.

Only model-checked:

* Liveness under fairness, which is out of the proof system's reach: `InterruptEnds`,
  `AcceptedJobEnds`, `ShutdownReturns`, `AnnouncedComesOnline`, `PairingEnds`,
  `DeadTokenIsDropped`, and the fairness in `ImplementsJobQueue`,
  whose safety part is the theorem `QueueIsJobQueue`.

## 5. Not modelled

* The drawing of the page, its progress bar and `/api/devices` in it; the QR
  code and the search for the local address in `main.c`: output only.
* `src/crypto.c`: random values, taken as fresh.
* Parsing of addresses, ports and of the expiry in an answer; the answer's
  pieces being put together (`write_response`).
* Failures of `malloc` (except in `JsonText`), of mutex operations and of
  `pthread_create` at start.
* Clocks that jump back.
* Sizes near the limit of `size_t`: lengths and capacities of text are natural
  numbers.
* What an uninitialised message contains (`server.c:268`, `server.c:727`): only
  the wording of an answer depends on it.

## 6. Plan

1. Done: `TransferQueue` with `JobQueue`, `UploadHandler`, `RateLimiter`,
   `UiSessions`, `PeerTokens`; `PeerRegistry` with `PeerDirectory`, `Pairing`,
   `WebClient`, `SendDialog`, `Lifecycle`, `JsonText`, `FormFields`,
   `FileNames`.
2. Done: the proofs of section 4. Every safety property of a passing run is
   stated by a theorem.
3. Left, and with TLC: liveness under fairness.
