----------------------------- MODULE RateLimiter -----------------------------
(***************************************************************************)
(* auth_rate_limit_allow (src/auth.c): a fixed table of counting windows,  *)
(* one per client address and scope, shared by all request threads.        *)
(*                                                                         *)
(* A call reads the clock before it takes auth_lock, so by the time it     *)
(* looks at the table its clock value may be old and another thread, with  *)
(* a newer value, may have changed the table.  The call is therefore two   *)
(* steps: reading the clock, and the critical section.                     *)
(*                                                                         *)
(* A key stands for a client address and a scope.  Every caller in         *)
(* src/server.c uses the same window; the limit depends on the scope.      *)
(***************************************************************************)
EXTENDS Integers, FiniteSets

CONSTANTS
    Threads,     \* request threads
    Keys,        \* pairs of a client address and a scope
    Nil,         \* no key
    Limit,       \* the limit of each key
    Window,      \* window_seconds
    MaxRecords,  \* MAX_RATE_LIMITS
    MaxTime      \* bound on the clock

ASSUME KeysAssumption == IsFiniteSet(Keys) /\ Nil \notin Keys
ASSUME LimitAssumption == Limit \in [Keys -> Nat \ {0}]
ASSUME NumbersAssumption ==
    /\ Window \in Nat \ {0}
    /\ MaxRecords \in Nat \ {0}
    /\ MaxTime \in Nat

Slots == 0 .. MaxRecords - 1

VARIABLES
    now,
    rate_limits,  \* the table
    asks,         \* the key each thread asks about
    seen,         \* the clock value its call has read
    result,       \* what its last call returned
    opened,       \* (history) recorded start of each key's latest window
    windows,      \* (history) how many windows each key has had
    admitted      \* (history) requests admitted in the latest window

vars == <<now, rate_limits, asks, seen, result, opened, windows, admitted>>

\* RateLimitRecord.  The fields of an inactive record are never read.
Record == [active : BOOLEAN, key : Keys \cup {Nil}, count : Nat,
           window_started_at : 0 .. MaxTime]
NoRecord == [active |-> FALSE, key |-> Nil, count |-> 0, window_started_at |-> 0]
-----------------------------------------------------------------------------
Mut_expired_early(i, t) ==
    rate_limits[i].active /\ rate_limits[i].window_started_at + Window <= t + 1
\* The window of record i is over for a call that has read the clock value t.
Expired(i, t) ==
    rate_limits[i].active /\ rate_limits[i].window_started_at + Window <= t

Mut_empty_inactive(i, t) == ~rate_limits[i].active
\* What empty_index may point to.
Empty(i, t) == ~rate_limits[i].active \/ Expired(i, t)

\* The scan stops at the record of the key.
Matches(i, k, t) == rate_limits[i].active /\ ~Expired(i, t) /\ rate_limits[i].key = k

\* The table after the scan has passed the records before m.
Scanned(m, t) ==
    [i \in Slots |-> IF i < m /\ Expired(i, t) THEN NoRecord ELSE rate_limits[i]]

\* A thread calls auth_rate_limit_allow: time(NULL), before the lock.
enter(th, k) ==
    /\ asks[th] = Nil
    /\ asks' = [asks EXCEPT ![th] = k]
    /\ seen' = [seen EXCEPT ![th] = now]
    /\ result' = [result EXCEPT ![th] = "none"]
    /\ UNCHANGED <<now, rate_limits, opened, windows, admitted>>

Return(th, r) ==
    /\ asks' = [asks EXCEPT ![th] = Nil]
    /\ seen' = [seen EXCEPT ![th] = 0]
    /\ result' = [result EXCEPT ![th] = r]
    /\ UNCHANGED now

Mut_below_limit(n, k) == n <= Limit[k]
\* The test of the count.
BelowLimit(n, k) == n < Limit[k]

\* The key has a record, and its count is below the limit ...
allow_counted(th) ==
    /\ asks[th] # Nil
    /\ \E m \in Slots :
         /\ Matches(m, asks[th], seen[th])
         /\ \A i \in Slots : i < m => ~Matches(i, asks[th], seen[th])
         /\ BelowLimit(rate_limits[m].count, asks[th])
         /\ rate_limits' =
              [Scanned(m, seen[th]) EXCEPT
                 ![m] = [active |-> TRUE, key |-> asks[th],
                         count |-> rate_limits[m].count + 1,
                         window_started_at |-> rate_limits[m].window_started_at]]
    /\ admitted' = [admitted EXCEPT ![asks[th]] = @ + 1]
    /\ Return(th, "allowed")
    /\ UNCHANGED <<opened, windows>>

\* ... or has reached it.
deny_at_limit(th) ==
    /\ asks[th] # Nil
    /\ \E m \in Slots :
         /\ Matches(m, asks[th], seen[th])
         /\ \A i \in Slots : i < m => ~Matches(i, asks[th], seen[th])
         /\ ~BelowLimit(rate_limits[m].count, asks[th])
         /\ rate_limits' = Scanned(m, seen[th])
    /\ Return(th, "denied")
    /\ UNCHANGED <<opened, windows, admitted>>

\* window_started_at of a new window.
WindowStart(th) == seen[th]

\* The key has no record: a window is opened in the first empty one, ...
allow_new(th) ==
    /\ asks[th] # Nil
    /\ \A i \in Slots : ~Matches(i, asks[th], seen[th])
    /\ \E e \in Slots :
         /\ Empty(e, seen[th])
         /\ \A i \in Slots : i < e => ~Empty(i, seen[th])
         /\ rate_limits' =
              [Scanned(MaxRecords, seen[th]) EXCEPT
                 ![e] = [active |-> TRUE, key |-> asks[th], count |-> 1,
                         window_started_at |-> WindowStart(th)]]
    /\ opened' = [opened EXCEPT ![asks[th]] = seen[th]]
    /\ windows' = [windows EXCEPT ![asks[th]] = @ + 1]
    /\ admitted' = [admitted EXCEPT ![asks[th]] = 1]
    /\ Return(th, "allowed")

\* ... or there is none.
deny_full(th) ==
    /\ asks[th] # Nil
    /\ \A i \in Slots : ~Matches(i, asks[th], seen[th]) /\ ~Empty(i, seen[th])
    /\ Return(th, "denied")
    /\ UNCHANGED <<rate_limits, opened, windows, admitted>>

tick ==
    /\ now < MaxTime
    /\ now' = now + 1
    /\ UNCHANGED <<rate_limits, asks, seen, result, opened, windows, admitted>>
-----------------------------------------------------------------------------
\* auth_init clears the table.
Init ==
    /\ now = 0
    /\ rate_limits = [i \in Slots |-> NoRecord]
    /\ asks = [th \in Threads |-> Nil]
    /\ seen = [th \in Threads |-> 0]
    /\ result = [th \in Threads |-> "none"]
    /\ opened = [k \in Keys |-> 0 - Window]
    /\ windows = [k \in Keys |-> 0]
    /\ admitted = [k \in Keys |-> 0]

Call(th) ==
    \/ \E k \in Keys : enter(th, k)
    \/ allow_counted(th)
    \/ deny_at_limit(th)
    \/ allow_new(th)
    \/ deny_full(th)

Next ==
    \/ \E th \in Threads : Call(th)
    \/ tick

Spec == Init /\ [][Next]_vars
-----------------------------------------------------------------------------
(* Properties.                                                             *)

TypeOK ==
    /\ now \in 0 .. MaxTime
    /\ rate_limits \in [Slots -> Record]
    /\ asks \in [Threads -> Keys \cup {Nil}]
    /\ seen \in [Threads -> 0 .. MaxTime]
    /\ result \in [Threads -> {"none", "allowed", "denied"}]
    /\ opened \in [Keys -> Int]
    /\ windows \in [Keys -> Nat]
    /\ admitted \in [Keys -> Nat]

\* No client is admitted more often than its limit in one window, although
\* records move between slots as windows end and other keys come and go.
LimitPerWindow == \A k \in Keys : admitted[k] <= Limit[k]

\* A key's next window opens only when its last one is over by the real clock,
\* even for a thread whose own clock value is old and whose key's record was
\* cleared by another thread meanwhile.
WindowsApart ==
    [][\A k \in Keys : windows'[k] # windows[k] => now >= opened[k] + Window]_vars

\* The keys whose latest window is not over at t.
InWindow(t) == {k \in Keys : opened[k] + Window > t}

\* A request is refused only if its key has used up its limit or at least
\* MAX_RATE_LIMITS keys have a window open: no slot is lost to a duplicate or
\* an ended window.
RefusedWithReason ==
    [][\A th \in Threads :
          result[th] # "denied" /\ result'[th] = "denied" =>
              \/ admitted[asks[th]] >= Limit[asks[th]]
              \/ Cardinality(InWindow(seen[th])) >= MaxRecords]_vars

\* What docs/wiki/Architecture.md says, "request rate limiting by client IP and
\* scope": a client is refused only for its own requests in that scope.
RefusedForOwnRequests ==
    [][\A th \in Threads :
          result[th] # "denied" /\ result'[th] = "denied" =>
              admitted[asks[th]] >= Limit[asks[th]]]_vars
=============================================================================
