------------------------------ MODULE AuthProofs ------------------------------
(***************************************************************************)
(* Proofs about the three tables of src/auth.c, for every number of        *)
(* threads, keys, clients and peers, every table size, limit and lifetime: *)
(* the windows of RateLimiter, the codes and tokens of PeerTokens, and the *)
(* administrative sessions of UiSessions.                                  *)
(***************************************************************************)
EXTENDS MCAuth, FiniteSetTheorems, TLAPS

-----------------------------------------------------------------------------
(* The windows of the rate limiter.                                        *)

\* A call's clock value is not in the future.
SeenInPast == \A th \in Threads : seen[th] <= now

\* No two records are about the same key.
UniqueRecord ==
    \A i, j \in Slots :
        /\ rate_limits[i].active /\ rate_limits[j].active
        /\ rate_limits[i].key = rate_limits[j].key
        => i = j

\* A record describes the latest window of its key.
RecordIsLatest ==
    \A i \in Slots :
        rate_limits[i].active =>
            /\ rate_limits[i].key \in Keys
            /\ opened[rate_limits[i].key] = rate_limits[i].window_started_at
            /\ admitted[rate_limits[i].key] = rate_limits[i].count

\* A key without a record has no window that is still open.
NoRecordIsOver ==
    \A k \in Keys :
        (\A i \in Slots : ~(rate_limits[i].active /\ rate_limits[i].key = k))
        => now >= opened[k] + Window

\* The inductive invariant.
LimitInv ==
    /\ TypeOK
    /\ SeenInPast
    /\ UniqueRecord
    /\ RecordIsLatest
    /\ NoRecordIsOver
    /\ LimitPerWindow
-----------------------------------------------------------------------------
\* The scan changes records only by clearing those whose window is over.
LEMMA ScanClears ==
    ASSUME TypeOK, NEW m \in Nat, NEW t \in 0 .. MaxTime
    PROVE  /\ Scanned(m, t) \in [Slots -> Record]
           /\ \A i \in Slots : Scanned(m, t)[i].active =>
                                 rate_limits[i].active /\ Scanned(m, t)[i] = rate_limits[i]
           /\ \A i \in Slots : rate_limits[i].active /\ ~Scanned(m, t)[i].active =>
                                 rate_limits[i].window_started_at + Window <= t
<1>1. NoRecord \in Record /\ ~NoRecord.active
  BY NumbersAssumption DEF NoRecord, Record
<1>2. QED
  BY <1>1 DEF TypeOK, Scanned, Expired

\* A table that only lost records whose window is over keeps the invariant's
\* facts about records.
LEMMA ClearingKeeps ==
    ASSUME LimitInv, now' = now, seen' \in [Threads -> 0 .. MaxTime], SeenInPast',
           UNCHANGED <<opened, windows, admitted>>,
           asks' \in [Threads -> Keys \cup {Nil}],
           result' \in [Threads -> {"none", "allowed", "denied"}],
           rate_limits' \in [Slots -> Record],
           \A i \in Slots : rate_limits'[i].active =>
               rate_limits[i].active /\ rate_limits'[i] = rate_limits[i],
           \A i \in Slots : rate_limits[i].active /\ ~rate_limits'[i].active =>
               rate_limits[i].window_started_at + Window <= now
    PROVE  LimitInv'
<1>1. TypeOK'
  BY DEF LimitInv, TypeOK
<1>2. UniqueRecord'
  BY DEF LimitInv, UniqueRecord
<1>3. RecordIsLatest'
  BY DEF LimitInv, RecordIsLatest
<1>4. NoRecordIsOver'
  <2> SUFFICES ASSUME NEW k \in Keys,
                      \A i \in Slots : ~(rate_limits'[i].active /\ rate_limits'[i].key = k)
               PROVE  now >= opened[k] + Window
    BY DEF NoRecordIsOver
  <2>1. CASE \A i \in Slots : ~(rate_limits[i].active /\ rate_limits[i].key = k)
    BY <2>1 DEF LimitInv, NoRecordIsOver
  <2>2. CASE \E i \in Slots : rate_limits[i].active /\ rate_limits[i].key = k
    <3> PICK i \in Slots : rate_limits[i].active /\ rate_limits[i].key = k
      BY <2>2
    <3>1. rate_limits[i].window_started_at + Window <= now
      OBVIOUS
    <3>2. opened[k] = rate_limits[i].window_started_at
      BY DEF LimitInv, RecordIsLatest
    <3>3. rate_limits[i].window_started_at \in Int /\ now \in Int
      BY NumbersAssumption DEF LimitInv, TypeOK, Record
    <3> QED
      BY <3>1, <3>2, <3>3, NumbersAssumption
  <2> QED
    BY <2>1, <2>2
<1>5. LimitPerWindow'
  BY DEF LimitInv, LimitPerWindow
<1> QED
  BY <1>1, <1>2, <1>3, <1>4, <1>5 DEF LimitInv

\* A call that returns keeps the types and the times of the threads.
LEMMA ReturnKeeps ==
    ASSUME LimitInv, NEW th \in Threads, NEW r \in {"allowed", "denied"}, Return(th, r)
    PROVE  /\ now' = now /\ SeenInPast'
           /\ seen' \in [Threads -> 0 .. MaxTime]
           /\ asks' \in [Threads -> Keys \cup {Nil}]
           /\ result' \in [Threads -> {"none", "allowed", "denied"}]
  BY NumbersAssumption DEF LimitInv, TypeOK, Return, SeenInPast
-----------------------------------------------------------------------------
\* The invariant holds when auth_init has cleared the table.
LEMMA InitIInv == Init => LimitInv
  BY NumbersAssumption, LimitAssumption
  DEF Init, LimitInv, TypeOK, SeenInPast, UniqueRecord, RecordIsLatest, NoRecordIsOver,
      LimitPerWindow, Record, NoRecord

\* Reading the clock before the lock disturbs nothing but the thread's own values.
LEMMA EnterKeeps ==
    ASSUME LimitInv, NEW th \in Threads, NEW k \in Keys, enter(th, k)
    PROVE  LimitInv'
<1>1. TypeOK' /\ SeenInPast'
  BY NumbersAssumption DEF LimitInv, TypeOK, SeenInPast, enter
<1>2. (UniqueRecord /\ RecordIsLatest /\ NoRecordIsOver /\ LimitPerWindow)'
  BY DEF LimitInv, UniqueRecord, RecordIsLatest, NoRecordIsOver, LimitPerWindow, enter
<1> QED
  BY <1>1, <1>2 DEF LimitInv

\* Counting a request in the record of its key keeps the invariant.
LEMMA CountedKeeps ==
    ASSUME LimitInv, NEW th \in Threads, allow_counted(th)
    PROVE  LimitInv'
<1> DEFINE k == asks[th]
           t == seen[th]
<1>1. k \in Keys /\ t \in 0 .. MaxTime /\ t <= now /\ now \in Nat
  BY NumbersAssumption DEF allow_counted, LimitInv, TypeOK, SeenInPast
<1>2. PICK m \in Slots :
         /\ Matches(m, k, t)
         /\ BelowLimit(rate_limits[m].count, k)
         /\ rate_limits' =
              [Scanned(m, t) EXCEPT
                 ![m] = [active |-> TRUE, key |-> k,
                         count |-> rate_limits[m].count + 1,
                         window_started_at |-> rate_limits[m].window_started_at]]
  BY DEF allow_counted
<1>3. m \in Nat
  BY NumbersAssumption DEF Slots
<1>4. /\ Scanned(m, t) \in [Slots -> Record]
      /\ \A i \in Slots : Scanned(m, t)[i].active =>
                            rate_limits[i].active /\ Scanned(m, t)[i] = rate_limits[i]
      /\ \A i \in Slots : rate_limits[i].active /\ ~Scanned(m, t)[i].active =>
                            rate_limits[i].window_started_at + Window <= t
  BY <1>1, <1>3, ScanClears DEF LimitInv
<1>5. /\ rate_limits[m].active /\ rate_limits[m].key = k
      /\ rate_limits[m].count \in Nat /\ rate_limits[m].window_started_at \in 0 .. MaxTime
      /\ rate_limits[m].count < Limit[k] /\ Limit[k] \in Nat
      /\ admitted[k] = rate_limits[m].count
      /\ opened[k] = rate_limits[m].window_started_at
  BY <1>1, <1>2, LimitAssumption
  DEF Matches, BelowLimit, LimitInv, TypeOK, Record, RecordIsLatest
<1>6. /\ now' = now /\ SeenInPast' /\ seen' \in [Threads -> 0 .. MaxTime]
      /\ asks' \in [Threads -> Keys \cup {Nil}]
      /\ result' \in [Threads -> {"none", "allowed", "denied"}]
      /\ opened' = opened /\ windows' = windows
      /\ admitted' = [admitted EXCEPT ![k] = @ + 1]
  BY ReturnKeeps DEF allow_counted
<1>7. /\ rate_limits'[m] = [active |-> TRUE, key |-> k,
                            count |-> rate_limits[m].count + 1,
                            window_started_at |-> rate_limits[m].window_started_at]
      /\ \A i \in Slots \ {m} : rate_limits'[i] = Scanned(m, t)[i]
  BY <1>2, <1>4
<1>8. rate_limits' \in [Slots -> Record]
  BY <1>1, <1>2, <1>4, <1>5 DEF Record
<1>9. TypeOK'
  BY <1>1, <1>6, <1>8 DEF LimitInv, TypeOK
<1>10. UniqueRecord'
  BY <1>4, <1>5, <1>7 DEF LimitInv, UniqueRecord
<1>11. admitted' \in [Keys -> Nat] /\ admitted'[k] = rate_limits[m].count + 1
       /\ \A j \in Keys \ {k} : admitted'[j] = admitted[j]
  BY <1>1, <1>5, <1>6 DEF LimitInv, TypeOK
<1>12. RecordIsLatest'
  <2> SUFFICES ASSUME NEW i \in Slots, rate_limits'[i].active
               PROVE  /\ rate_limits'[i].key \in Keys
                      /\ opened'[rate_limits'[i].key] = rate_limits'[i].window_started_at
                      /\ admitted'[rate_limits'[i].key] = rate_limits'[i].count
    BY DEF RecordIsLatest
  <2>1. CASE i = m
    BY <2>1, <1>1, <1>5, <1>6, <1>7, <1>11
  <2>2. CASE i # m
    <3>1. rate_limits[i].active /\ rate_limits'[i] = rate_limits[i]
      BY <2>2, <1>4, <1>7
    <3>2. rate_limits[i].key # k
      BY <2>2, <3>1, <1>5 DEF LimitInv, UniqueRecord
    <3> QED
      BY <3>1, <3>2, <1>6, <1>11 DEF LimitInv, RecordIsLatest
  <2> QED
    BY <2>1, <2>2
<1>13. NoRecordIsOver'
  <2> SUFFICES ASSUME NEW j \in Keys,
                      \A i \in Slots : ~(rate_limits'[i].active /\ rate_limits'[i].key = j)
               PROVE  now >= opened[j] + Window
    BY <1>6 DEF NoRecordIsOver
  <2>1. CASE \A i \in Slots : ~(rate_limits[i].active /\ rate_limits[i].key = j)
    BY <2>1 DEF LimitInv, NoRecordIsOver
  <2>2. CASE \E i \in Slots : rate_limits[i].active /\ rate_limits[i].key = j
    <3> PICK i \in Slots : rate_limits[i].active /\ rate_limits[i].key = j
      BY <2>2
    <3>1. i # m
      BY <1>5, <1>7
    <3>2. rate_limits[i].window_started_at + Window <= t
      BY <3>1, <1>4, <1>7
    <3>3. opened[j] = rate_limits[i].window_started_at
      BY DEF LimitInv, RecordIsLatest
    <3>4. rate_limits[i].window_started_at \in Int
      BY NumbersAssumption DEF LimitInv, TypeOK, Record
    <3> QED
      BY <3>2, <3>3, <3>4, <1>1, NumbersAssumption
  <2> QED
    BY <2>1, <2>2
<1>14. LimitPerWindow'
  BY <1>5, <1>11 DEF LimitInv, LimitPerWindow
<1> QED
  BY <1>6, <1>9, <1>10, <1>12, <1>13, <1>14 DEF LimitInv

\* A refusal at the limit clears at most records whose window is over.
LEMMA DeniedAtLimitKeeps ==
    ASSUME LimitInv, NEW th \in Threads, deny_at_limit(th)
    PROVE  LimitInv'
<1> DEFINE t == seen[th]
<1>1. t \in 0 .. MaxTime /\ t <= now /\ now \in Nat
  BY NumbersAssumption DEF LimitInv, TypeOK, SeenInPast
<1>2. PICK m \in Slots : rate_limits' = Scanned(m, t)
  BY DEF deny_at_limit
<1>3. m \in Nat
  BY NumbersAssumption DEF Slots
<1>4. /\ rate_limits' \in [Slots -> Record]
      /\ \A i \in Slots : rate_limits'[i].active =>
                            rate_limits[i].active /\ rate_limits'[i] = rate_limits[i]
      /\ \A i \in Slots : rate_limits[i].active /\ ~rate_limits'[i].active =>
                            rate_limits[i].window_started_at + Window <= t
  BY <1>1, <1>2, <1>3, ScanClears DEF LimitInv
<1>5. \A i \in Slots : rate_limits[i].active /\ ~rate_limits'[i].active =>
                         rate_limits[i].window_started_at + Window <= now
  BY <1>1, <1>4, NumbersAssumption DEF LimitInv, TypeOK, Record
<1>6. UNCHANGED <<opened, windows, admitted>> /\ Return(th, "denied")
  BY DEF deny_at_limit
<1> QED
  BY <1>4, <1>5, <1>6, ReturnKeeps, ClearingKeeps

\* A refusal by a full table leaves the table alone.
LEMMA DeniedFullKeeps ==
    ASSUME LimitInv, NEW th \in Threads, deny_full(th)
    PROVE  LimitInv'
<1>1. UNCHANGED <<rate_limits, opened, windows, admitted>> /\ Return(th, "denied")
  BY DEF deny_full
<1>2. rate_limits' \in [Slots -> Record]
  BY <1>1 DEF LimitInv, TypeOK
<1> QED
  BY <1>1, <1>2, ReturnKeeps, ClearingKeeps

\* A new record is the only one of its key, and the key's last window is over.
LEMMA NewKeeps ==
    ASSUME LimitInv, NEW th \in Threads, allow_new(th)
    PROVE  /\ LimitInv'
           /\ asks[th] \in Keys
           /\ now >= opened[asks[th]] + Window
           /\ windows' = [windows EXCEPT ![asks[th]] = @ + 1]
<1> DEFINE k == asks[th]
           t == seen[th]
           new == [active |-> TRUE, key |-> k, count |-> 1, window_started_at |-> t]
<1>1. k \in Keys /\ t \in 0 .. MaxTime /\ t <= now /\ now \in Nat
  BY NumbersAssumption DEF allow_new, LimitInv, TypeOK, SeenInPast
<1>2. PICK e \in Slots :
         /\ Empty(e, t)
         /\ rate_limits' = [Scanned(MaxRecords, t) EXCEPT ![e] = new]
  BY DEF allow_new, WindowStart
<1>3. \A i \in Slots : ~Matches(i, k, t)
  BY DEF allow_new
<1>4. /\ Scanned(MaxRecords, t) \in [Slots -> Record]
      /\ \A i \in Slots : Scanned(MaxRecords, t)[i].active =>
              rate_limits[i].active /\ Scanned(MaxRecords, t)[i] = rate_limits[i]
      /\ \A i \in Slots : rate_limits[i].active /\ ~Scanned(MaxRecords, t)[i].active =>
              rate_limits[i].window_started_at + Window <= t
  BY <1>1, ScanClears, NumbersAssumption DEF LimitInv
<1>5. /\ rate_limits'[e] = new
      /\ \A i \in Slots \ {e} : rate_limits'[i] = Scanned(MaxRecords, t)[i]
  BY <1>2, <1>4
<1>6. rate_limits' \in [Slots -> Record]
  BY <1>1, <1>2, <1>4 DEF Record
<1>7. \A i \in Slots : Scanned(MaxRecords, t)[i].active => Scanned(MaxRecords, t)[i].key # k
  <2> SUFFICES ASSUME NEW i \in Slots, Scanned(MaxRecords, t)[i].active
               PROVE  Scanned(MaxRecords, t)[i].key # k
    OBVIOUS
  <2>1. rate_limits[i].active /\ Scanned(MaxRecords, t)[i] = rate_limits[i]
    BY <1>4
  <2>2. i < MaxRecords
    BY NumbersAssumption DEF Slots
  <2>3. ~Expired(i, t)
    <3>1. SUFFICES ASSUME Expired(i, t) PROVE FALSE
      OBVIOUS
    <3>2. Scanned(MaxRecords, t)[i] = NoRecord
      BY <2>2, <3>1 DEF Scanned
    <3> QED
      BY <3>2 DEF NoRecord
  <2> QED
    BY <1>3, <2>1, <2>3 DEF Matches
<1>8. now >= opened[k] + Window
  <2>1. CASE \A i \in Slots : ~(rate_limits[i].active /\ rate_limits[i].key = k)
    BY <2>1, <1>1 DEF LimitInv, NoRecordIsOver
  <2>2. CASE \E i \in Slots : rate_limits[i].active /\ rate_limits[i].key = k
    <3> PICK i \in Slots : rate_limits[i].active /\ rate_limits[i].key = k
      BY <2>2
    <3>1. rate_limits[i].window_started_at + Window <= t
      BY <1>3 DEF Matches, Expired
    <3>2. opened[k] = rate_limits[i].window_started_at
      BY DEF LimitInv, RecordIsLatest
    <3>3. rate_limits[i].window_started_at \in Int
      BY NumbersAssumption DEF LimitInv, TypeOK, Record
    <3> QED
      BY <3>1, <3>2, <3>3, <1>1, NumbersAssumption
  <2> QED
    BY <2>1, <2>2
<1>9. /\ now' = now /\ SeenInPast' /\ seen' \in [Threads -> 0 .. MaxTime]
      /\ asks' \in [Threads -> Keys \cup {Nil}]
      /\ result' \in [Threads -> {"none", "allowed", "denied"}]
      /\ opened' = [opened EXCEPT ![k] = t]
      /\ windows' = [windows EXCEPT ![k] = @ + 1]
      /\ admitted' = [admitted EXCEPT ![k] = 1]
  BY ReturnKeeps DEF allow_new
<1>10. TypeOK'
  BY <1>1, <1>6, <1>9 DEF LimitInv, TypeOK
<1>11. UniqueRecord'
  BY <1>4, <1>5, <1>7 DEF LimitInv, UniqueRecord
<1>12. /\ opened'[k] = t /\ admitted'[k] = 1
       /\ \A j \in Keys \ {k} : opened'[j] = opened[j] /\ admitted'[j] = admitted[j]
  BY <1>1, <1>9 DEF LimitInv, TypeOK
<1>13. RecordIsLatest'
  <2> SUFFICES ASSUME NEW i \in Slots, rate_limits'[i].active
               PROVE  /\ rate_limits'[i].key \in Keys
                      /\ opened'[rate_limits'[i].key] = rate_limits'[i].window_started_at
                      /\ admitted'[rate_limits'[i].key] = rate_limits'[i].count
    BY DEF RecordIsLatest
  <2>1. CASE i = e
    BY <2>1, <1>1, <1>5, <1>12
  <2>2. CASE i # e
    <3>1. rate_limits[i].active /\ rate_limits'[i] = rate_limits[i] /\ rate_limits[i].key # k
      BY <2>2, <1>4, <1>5, <1>7
    <3> QED
      BY <3>1, <1>12 DEF LimitInv, RecordIsLatest
  <2> QED
    BY <2>1, <2>2
<1>14. NoRecordIsOver'
  <2> SUFFICES ASSUME NEW j \in Keys,
                      \A i \in Slots : ~(rate_limits'[i].active /\ rate_limits'[i].key = j)
               PROVE  now >= opened'[j] + Window
    BY <1>9 DEF NoRecordIsOver
  <2>1. j # k
    BY <1>5
  <2>2. opened'[j] = opened[j]
    BY <2>1, <1>12
  <2>3. CASE \A i \in Slots : ~(rate_limits[i].active /\ rate_limits[i].key = j)
    BY <2>2, <2>3 DEF LimitInv, NoRecordIsOver
  <2>4. CASE \E i \in Slots : rate_limits[i].active /\ rate_limits[i].key = j
    <3> PICK i \in Slots : rate_limits[i].active /\ rate_limits[i].key = j
      BY <2>4
    <3>1. rate_limits[i].window_started_at + Window <= t
      <4>1. CASE i = e
        BY <4>1, <1>2 DEF Empty, Expired
      <4>2. CASE i # e
        BY <4>2, <1>4, <1>5
      <4> QED
        BY <4>1, <4>2
    <3>2. opened[j] = rate_limits[i].window_started_at
      BY DEF LimitInv, RecordIsLatest
    <3>3. rate_limits[i].window_started_at \in Int
      BY NumbersAssumption DEF LimitInv, TypeOK, Record
    <3> QED
      BY <2>2, <3>1, <3>2, <3>3, <1>1, NumbersAssumption
  <2> QED
    BY <2>3, <2>4
<1>15. LimitPerWindow'
  BY <1>1, <1>12, LimitAssumption DEF LimitInv, LimitPerWindow
<1> QED
  BY <1>1, <1>8, <1>9, <1>10, <1>11, <1>13, <1>14, <1>15 DEF LimitInv

\* Time only moves windows towards their end.
LEMMA TickKeeps ==
    ASSUME LimitInv, tick
    PROVE  LimitInv'
<1>1. now \in Nat /\ now' = now + 1 /\ now' \in 0 .. MaxTime
  BY NumbersAssumption DEF LimitInv, TypeOK, tick
<1>2. TypeOK'
  BY <1>1 DEF LimitInv, TypeOK, tick
<1>3. SeenInPast'
  BY <1>1, NumbersAssumption DEF LimitInv, TypeOK, SeenInPast, tick
<1>4. (UniqueRecord /\ RecordIsLatest /\ LimitPerWindow)'
  BY DEF LimitInv, UniqueRecord, RecordIsLatest, LimitPerWindow, tick
<1>5. NoRecordIsOver'
  BY <1>1, NumbersAssumption DEF LimitInv, TypeOK, NoRecordIsOver, tick
<1> QED
  BY <1>2, <1>3, <1>4, <1>5 DEF LimitInv

\* Every step keeps the inductive invariant.
LEMMA StepIInv == LimitInv /\ [Next]_vars => LimitInv'
<1> SUFFICES ASSUME LimitInv, [Next]_vars PROVE LimitInv'
  OBVIOUS
<1>1. CASE tick
  BY <1>1, TickKeeps
<1>2. CASE UNCHANGED vars
  BY <1>2 DEF vars, LimitInv, TypeOK, SeenInPast, UniqueRecord, RecordIsLatest, NoRecordIsOver,
              LimitPerWindow
<1>3. ASSUME NEW th \in Threads, Call(th) PROVE LimitInv'
  BY <1>3, EnterKeeps, CountedKeeps, DeniedAtLimitKeeps, NewKeeps, DeniedFullKeeps DEF Call
<1> QED
  BY <1>1, <1>2, <1>3 DEF Next

\* The inductive invariant holds in every reachable state.
LEMMA AlwaysIInv == Spec => []LimitInv
  BY InitIInv, StepIInv, PTL DEF Spec
-----------------------------------------------------------------------------
\* The table, the calls and the history keep their types.
THEOREM TypeCorrect == Spec => []TypeOK
<1>1. LimitInv => TypeOK
  BY DEF LimitInv
<1> QED
  BY AlwaysIInv, <1>1, PTL

\* In no window is a client admitted more often than its limit, however the
\* calls of the request threads interleave.
THEOREM LimitHolds == Spec => []LimitPerWindow
<1>1. LimitInv => LimitPerWindow
  BY DEF LimitInv
<1> QED
  BY AlwaysIInv, <1>1, PTL

\* A window opens only when the key's last one is over, even if the call that
\* opens it has an old clock value.
THEOREM WindowsStayApart == Spec => WindowsApart
<1>1. LimitInv /\ [Next]_vars =>
          [\A k \in Keys : windows'[k] # windows[k] => now >= opened[k] + Window]_vars
  <2> SUFFICES ASSUME LimitInv, Next, NEW k \in Keys, windows'[k] # windows[k]
               PROVE  now >= opened[k] + Window
    OBVIOUS
  <2>1. PICK th \in Threads : allow_new(th)
    BY DEF Next, Call, enter, allow_counted, deny_at_limit, deny_full, tick
  <2>2. asks[th] = k
    BY <2>1, NewKeeps DEF LimitInv, TypeOK
  <2> QED
    BY <2>1, <2>2, NewKeeps
<1> QED
  BY AlwaysIInv, <1>1, PTL DEF Spec, WindowsApart
-----------------------------------------------------------------------------
\* A full table means as many open windows.
LEMMA FullTable ==
    ASSUME LimitInv, NEW t \in 0 .. MaxTime, \A i \in Slots : ~Empty(i, t)
    PROVE  Cardinality(InWindow(t)) >= MaxRecords
<1> DEFINE f == [i \in Slots |-> rate_limits[i].key]
<1>1. \A i \in Slots : /\ rate_limits[i].active /\ rate_limits[i].key \in Keys
                       /\ rate_limits[i].key \in InWindow(t)
  <2> SUFFICES ASSUME NEW i \in Slots
               PROVE  /\ rate_limits[i].active /\ rate_limits[i].key \in Keys
                      /\ rate_limits[i].key \in InWindow(t)
    OBVIOUS
  <2>1. rate_limits[i].active /\ ~(rate_limits[i].window_started_at + Window <= t)
    BY DEF Empty, Expired
  <2>2. /\ rate_limits[i].key \in Keys
        /\ opened[rate_limits[i].key] = rate_limits[i].window_started_at
    BY <2>1 DEF LimitInv, RecordIsLatest
  <2>3. rate_limits[i].window_started_at \in Int
    BY NumbersAssumption DEF LimitInv, TypeOK, Record
  <2> QED
    BY <2>1, <2>2, <2>3, NumbersAssumption DEF InWindow
<1>2. f \in [Slots -> InWindow(t)]
  BY <1>1
<1>3. \A i, j \in Slots : f[i] = f[j] => i = j
  BY <1>1 DEF LimitInv, UniqueRecord
<1>4. f \in Injection(Slots, InWindow(t))
  BY <1>2, <1>3 DEF Injection, IsInjective
<1>5. IsFiniteSet(InWindow(t))
  BY KeysAssumption, FS_Subset DEF InWindow
<1>6. Cardinality(Slots) <= Cardinality(InWindow(t))
  BY <1>4, <1>5, FS_Injection
<1>7. Cardinality(Slots) = MaxRecords
  BY FS_Interval, NumbersAssumption DEF Slots
<1>8. Cardinality(InWindow(t)) \in Nat
  BY <1>5, FS_CardinalityType
<1> QED
  BY <1>6, <1>7, <1>8, NumbersAssumption

\* A refusal has a reason: the limit, or as many open windows as the table has
\* records.
THEOREM RefusalHasReason == Spec => RefusedWithReason
<1> DEFINE Reason(th) == \/ admitted[asks[th]] >= Limit[asks[th]]
                         \/ Cardinality(InWindow(seen[th])) >= MaxRecords
<1>1. LimitInv /\ [Next]_vars =>
          [\A th \in Threads :
              result[th] # "denied" /\ result'[th] = "denied" => Reason(th)]_vars
  <2> SUFFICES ASSUME LimitInv, Next, NEW th \in Threads,
                      result[th] # "denied", result'[th] = "denied"
               PROVE  Reason(th)
    OBVIOUS
  <2>1. deny_at_limit(th) \/ deny_full(th)
    BY DEF Next, Call, enter, allow_counted, deny_at_limit, allow_new, deny_full, tick,
           Return, LimitInv, TypeOK
  <2>2. CASE deny_at_limit(th)
    <3>1. PICK m \in Slots : /\ Matches(m, asks[th], seen[th])
                             /\ ~(rate_limits[m].count < Limit[asks[th]])
      BY <2>2 DEF deny_at_limit, BelowLimit
    <3>2. /\ asks[th] \in Keys
          /\ admitted[asks[th]] = rate_limits[m].count
      BY <3>1 DEF Matches, LimitInv, RecordIsLatest
    <3>3. rate_limits[m].count \in Nat /\ Limit[asks[th]] \in Nat
      BY <3>2, LimitAssumption DEF LimitInv, TypeOK, Record
    <3> QED
      BY <3>1, <3>2, <3>3
  <2>3. CASE deny_full(th)
    <3>1. seen[th] \in 0 .. MaxTime
      BY DEF LimitInv, TypeOK
    <3> QED
      BY <2>3, <3>1, FullTable DEF deny_full
  <2> QED
    BY <2>1, <2>2, <2>3
<1> QED
  BY AlwaysIInv, <1>1, PTL DEF Spec, RefusedWithReason

-----------------------------------------------------------------------------
(* Pairing codes and peer tokens.                                          *)

\* The code expires CodeTTL after it was made.
CodeExpires == pairing_code_expires_at = made_at + CodeTTL

\* No two records are about the same endpoint.
UniqueToken ==
    \A i, j \in P!Slots :
        /\ peer_tokens[i].active /\ peer_tokens[j].active
        /\ peer_tokens[i].peer = peer_tokens[j].peer
        => i = j

\* A record holds the token last written for its endpoint.
TokenIsLatest ==
    \A i \in P!Slots :
        peer_tokens[i].active =>
            /\ peer_tokens[i].peer \in P!Endpoints
            /\ peer_tokens[i].token # 0
            /\ latest[peer_tokens[i].peer].token = peer_tokens[i].token
            /\ latest[peer_tokens[i].peer].expires_at = peer_tokens[i].expires_at

\* The last token of an endpoint without a record has expired.
NoTokenIsOver ==
    \A e \in P!Endpoints : (\A i \in P!Slots : ~P!Holds(i, e)) => latest[e].expires_at <= now

\* What the inductive invariant says of the table.
TokenTableInv == UniqueToken /\ TokenIsLatest /\ NoTokenIsOver

\* The inductive invariant.
TokenInv ==
    /\ P!TypeOK
    /\ CodeExpires
    /\ TokenTableInv
    /\ P!FoundIsLatest
    /\ P!RefusedOnlyWhenFull
-----------------------------------------------------------------------------
\* A nonempty set of natural numbers has a least element.
LEMMA LeastNatural ==
    ASSUME NEW A \in SUBSET Nat, A # {}
    PROVE  \E m \in A : \A k \in A : m <= k
<1> DEFINE R == {ss \in Nat \X Nat : ss[1] < ss[2]}
<1>1. IsWellFoundedOn(R, Nat)
  BY NatLessThanWellFounded, Zenon DEF OpToRel
<1> HIDE DEF R
<1>2. PICK m \in A : \A y \in A : ~(<<y, m>> \in R)
  BY <1>1, WFMin
<1>3. ASSUME NEW k \in A PROVE m <= k
  <2>1. k < m => <<k, m>> \in R
    BY SMT DEF R
  <2> QED
    BY <1>2, <2>1, SMT
<1> QED
  BY <1>3

\* Only a full table without a record of the endpoint has no target.
LEMMA NoTargetIsFull ==
    ASSUME P!ParametersOK, P!TypeOK, UniqueToken, NEW e \in P!Endpoints, P!NoTarget(e)
    PROVE  \A i \in P!Slots : peer_tokens[i].active /\ ~P!Holds(i, e)
<1>1. \A j \in P!Slots : ~P!Holds(j, e)
  <2> SUFFICES ASSUME NEW i \in P!Slots, P!Holds(i, e) PROVE FALSE
    OBVIOUS
  <2>1. \A j \in 0 .. i - 1 : j \in P!Slots /\ j # i
    BY DEF P!ParametersOK, P!Slots
  <2>2. \A j \in 0 .. i - 1 : ~P!Holds(j, e)
    BY <2>1 DEF UniqueToken, P!Holds
  <2> QED
    BY <2>2 DEF P!NoTarget, P!Target
<1>2. \A j \in P!Slots : peer_tokens[j].active
  <2> DEFINE Free == {j \in P!Slots : ~peer_tokens[j].active}
  <2> SUFFICES ASSUME Free # {} PROVE FALSE
    OBVIOUS
  <2>1. Free \in SUBSET Nat
    BY DEF P!ParametersOK, P!Slots
  <2>2. PICK i \in Free : \A j \in Free : i <= j
    BY <2>1, LeastNatural
  <2>3. \A j \in 0 .. i - 1 : j \in P!Slots /\ ~(i <= j)
    BY <2>2 DEF P!ParametersOK, P!Slots
  <2>4. \A j \in 0 .. i - 1 : peer_tokens[j].active
    BY <2>2, <2>3
  <2> QED
    BY <1>1, <2>2, <2>4 DEF P!NoTarget, P!Target
<1> QED
  BY <1>1, <1>2

\* A lookup changes records only by clearing those that have expired.
LEMMA TokenScanClears ==
    ASSUME P!ParametersOK, P!TypeOK, NEW m \in Nat
    PROVE  /\ P!Scanned(m) \in [P!Slots -> P!Record]
           /\ \A i \in P!Slots : P!Scanned(m)[i].active =>
                                 peer_tokens[i].active /\ P!Scanned(m)[i] = peer_tokens[i]
           /\ \A i \in P!Slots : peer_tokens[i].active /\ ~P!Scanned(m)[i].active =>
                                 peer_tokens[i].expires_at <= now
<1>1. P!NoRecord \in P!Record /\ ~P!NoRecord.active
  BY DEF P!NoRecord, P!Record, P!ParametersOK
<1> QED
  BY <1>1 DEF P!TypeOK, P!Scanned, P!Expired

\* Hence it keeps what the invariant says of the table.
LEMMA TokenClearingKeeps ==
    ASSUME P!ParametersOK, P!TypeOK, TokenTableInv, NEW m \in Nat, peer_tokens' = P!Scanned(m),
           now' = now, latest' = latest
    PROVE  peer_tokens' \in [P!Slots -> P!Record] /\ TokenTableInv'
<1>1. /\ peer_tokens' \in [P!Slots -> P!Record]
      /\ \A i \in P!Slots : peer_tokens'[i].active =>
                            peer_tokens[i].active /\ peer_tokens'[i] = peer_tokens[i]
      /\ \A i \in P!Slots : peer_tokens[i].active /\ ~peer_tokens'[i].active =>
                            peer_tokens[i].expires_at <= now
  BY TokenScanClears
<1>2. UniqueToken' /\ TokenIsLatest'
  BY <1>1 DEF TokenTableInv, UniqueToken, TokenIsLatest
<1>3. NoTokenIsOver'
  <2> SUFFICES ASSUME NEW e \in P!Endpoints, \A i \in P!Slots : ~P!Holds(i, e)'
               PROVE  latest[e].expires_at <= now
    BY DEF NoTokenIsOver
  <2>1. CASE \A i \in P!Slots : ~P!Holds(i, e)
    BY <2>1 DEF TokenTableInv, NoTokenIsOver
  <2>2. CASE \E i \in P!Slots : P!Holds(i, e)
    <3> PICK i \in P!Slots : P!Holds(i, e)
      BY <2>2
    <3>1. peer_tokens[i].expires_at <= now
      BY <1>1 DEF P!Holds
    <3> QED
      BY <3>1 DEF P!Holds, TokenTableInv, TokenIsLatest
  <2> QED
    BY <2>1, <2>2
<1> QED
  BY <1>1, <1>2, <1>3 DEF TokenTableInv

\* Writing a token replaces the record of its endpoint, or makes the only one.
LEMMA UpsertKeeps ==
    ASSUME P!ParametersOK, P!TypeOK, TokenTableInv, NEW e \in P!Endpoints,
           NEW x \in 0 .. MaxTime + TokenTTL, P!upsert_peer_token_locked(e, x), now' = now
    PROVE  /\ peer_tokens' \in [P!Slots -> P!Record]
           /\ made' \in 0 .. MaxTokens
           /\ latest' \in [P!Endpoints -> [token : P!Tokens \cup {0},
                                         expires_at : 0 .. MaxTime + TokenTTL]]
           /\ TokenTableInv'
<1> DEFINE new == [active |-> TRUE, peer |-> e, token |-> made + 1, expires_at |-> x]
<1>1. PICK i \in P!Slots : P!Target(i, e) /\ peer_tokens' = [peer_tokens EXCEPT ![i] = new]
  BY DEF P!upsert_peer_token_locked
<1>2. made + 1 \in P!Tokens /\ made' = made + 1 /\ made + 1 # 0 /\ made' \in 0 .. MaxTokens
  BY DEF P!upsert_peer_token_locked, P!TypeOK, P!Tokens, P!ParametersOK
<1>3. new \in P!Record
  BY <1>2 DEF P!Record
<1>4. /\ peer_tokens' \in [P!Slots -> P!Record] /\ peer_tokens'[i] = new
      /\ \A j \in P!Slots \ {i} : peer_tokens'[j] = peer_tokens[j]
  BY <1>1, <1>3 DEF P!TypeOK
<1>5. latest' = [latest EXCEPT ![e] = [token |-> made + 1, expires_at |-> x]]
  BY DEF P!upsert_peer_token_locked
<1>6. /\ latest' \in [P!Endpoints -> [token : P!Tokens \cup {0}, expires_at : 0 .. MaxTime + TokenTTL]]
      /\ latest'[e] = [token |-> made + 1, expires_at |-> x]
      /\ \A f \in P!Endpoints \ {e} : latest'[f] = latest[f]
  BY <1>2, <1>5 DEF P!TypeOK
<1>7. \A j \in P!Slots \ {i} : ~P!Holds(j, e)
  BY <1>1 DEF P!Target, TokenTableInv, UniqueToken, P!Holds
<1>8. peer_tokens[i].active => peer_tokens[i].peer = e
  BY <1>1 DEF P!Target, P!Holds
<1>9. UniqueToken'
  BY <1>4, <1>7 DEF TokenTableInv, UniqueToken, P!Holds
<1>10. TokenIsLatest'
  BY <1>2, <1>4, <1>6, <1>7 DEF TokenTableInv, TokenIsLatest, P!Holds
<1>11. NoTokenIsOver'
  <2> SUFFICES ASSUME NEW f \in P!Endpoints, \A j \in P!Slots : ~P!Holds(j, f)'
               PROVE  latest'[f].expires_at <= now
    BY DEF NoTokenIsOver
  <2>1. f # e
    BY <1>4 DEF P!Holds
  <2>2. \A j \in P!Slots : ~P!Holds(j, f)
    BY <1>4, <1>8, <2>1 DEF P!Holds
  <2> QED
    BY <1>6, <2>1, <2>2 DEF TokenTableInv, NoTokenIsOver
<1> QED
  BY <1>2, <1>4, <1>6, <1>9, <1>10, <1>11 DEF TokenTableInv

\* PeerTokens counts as FiniteSets does.
LEMMA CountedAlike == \A T : (P!IsFiniteSet(T) <=> IsFiniteSet(T)) /\ P!Cardinality(T) = Cardinality(T)
  BY Zenon DEF P!IsFiniteSet, IsFiniteSet, P!Cardinality, Cardinality

\* A full table has records of as many endpoints as it has slots.
LEMMA FullIsPaired ==
    ASSUME P!ParametersOK, P!TypeOK, TokenTableInv, NEW e \in P!Endpoints, P!NoTarget(e)
    PROVE  Cardinality({f \in P!Endpoints \ {e} : latest[f] # P!NoToken}) >= MaxRecords
<1> DEFINE T == {f \in P!Endpoints \ {e} : latest[f] # P!NoToken}
           peerOf == [i \in P!Slots |-> peer_tokens[i].peer]
<1>1. \A i \in P!Slots : peer_tokens[i].active /\ ~P!Holds(i, e)
  BY NoTargetIsFull DEF TokenTableInv
<1>2. \A i \in P!Slots : peer_tokens[i].peer \in T
  <2> SUFFICES ASSUME NEW i \in P!Slots PROVE peer_tokens[i].peer \in T
    OBVIOUS
  <2>1. peer_tokens[i].peer \in P!Endpoints /\ peer_tokens[i].peer # e
    BY <1>1 DEF P!Holds, TokenTableInv, TokenIsLatest
  <2>2. latest[peer_tokens[i].peer].token # 0
    BY <1>1 DEF TokenTableInv, TokenIsLatest
  <2> QED
    BY <2>1, <2>2 DEF P!NoToken
<1>3. peerOf \in Injection(P!Slots, T)
  BY <1>1, <1>2 DEF Injection, IsInjective, TokenTableInv, UniqueToken
<1>4. IsFiniteSet(T) /\ Cardinality(T) \in Nat
  BY FS_Subset, FS_CardinalityType, CountedAlike DEF P!ParametersOK
<1>5. Cardinality(P!Slots) <= Cardinality(T)
  BY <1>3, <1>4, FS_Injection
<1>6. Cardinality(P!Slots) = MaxRecords
  BY FS_Interval DEF P!ParametersOK, P!Slots
<1> QED
  BY <1>4, <1>5, <1>6 DEF P!ParametersOK
-----------------------------------------------------------------------------
\* The invariant holds after auth_init.
LEMMA InitTokenInv == ASSUME P!ParametersOK, P!Init PROVE TokenInv
<1>1. P!TypeOK
  BY DEF P!ParametersOK, P!Init, P!TypeOK, P!Record, P!NoRecord, P!NoToken, P!Outcome, P!NoOutcome
<1>2. CodeExpires /\ TokenTableInv
  BY DEF P!ParametersOK, P!Init, CodeExpires, TokenTableInv, UniqueToken, TokenIsLatest,
         NoTokenIsOver, P!NoRecord, P!NoToken
<1>3. P!FoundIsLatest /\ P!RefusedOnlyWhenFull
  BY DEF P!Init, P!FoundIsLatest, P!RefusedOnlyWhenFull, P!NoOutcome
<1> QED
  BY <1>1, <1>2, <1>3 DEF TokenInv

\* ensure_pairing_code_locked leaves a code that is good now.
LEMMA EnsureKeeps ==
    ASSUME P!ParametersOK, P!TypeOK, CodeExpires, P!ensure_pairing_code_locked
    PROVE  /\ pairing_code' \in Nat /\ pairing_code_expires_at' \in 0 .. MaxTime + CodeTTL
           /\ made_at' \in 0 .. MaxTime
           /\ CodeExpires'
           /\ now < made_at' + CodeTTL
           /\ pairing_code' # pairing_code => now >= made_at + CodeTTL
  BY DEF P!ParametersOK, P!TypeOK, CodeExpires, P!ensure_pairing_code_locked, P!CodeValid, P!CodeExpiry,
         P!codeVars

\* Issuing, with the right code, a wrong one, or into a full table.
LEMMA IssueKeeps ==
    ASSUME P!ParametersOK, TokenInv, NEW e \in P!Endpoints, NEW code, P!auth_issue_pair_token(e, code)
    PROVE  TokenInv'
<1>1. now' = now /\ P!ensure_pairing_code_locked /\ now + TokenTTL \in 0 .. MaxTime + TokenTTL
      /\ e.ip \in Addresses
  BY DEF P!auth_issue_pair_token, TokenInv, P!TypeOK, P!ParametersOK, P!Endpoints
<1>2. /\ pairing_code' \in Nat /\ pairing_code_expires_at' \in 0 .. MaxTime + CodeTTL
      /\ made_at' \in 0 .. MaxTime /\ CodeExpires'
  BY <1>1, EnsureKeeps DEF TokenInv
<1>3. CASE P!upsert_peer_token_locked(e, now + TokenTTL)
           /\ outcome' = [call |-> "issued", token |-> made + 1, ip |-> e.ip, peer |-> e]
  <2>1. /\ peer_tokens' \in [P!Slots -> P!Record] /\ made' \in 0 .. MaxTokens
        /\ latest' \in [P!Endpoints -> [token : P!Tokens \cup {0}, expires_at : 0 .. MaxTime + TokenTTL]]
        /\ TokenTableInv'
    BY <1>1, <1>3, UpsertKeeps DEF TokenInv
  <2>2. made + 1 \in P!Tokens
    BY <1>3 DEF P!upsert_peer_token_locked, TokenInv, P!TypeOK, P!Tokens, P!ParametersOK
  <2>3. P!TypeOK'
    BY <1>1, <1>2, <1>3, <2>1, <2>2 DEF TokenInv, P!TypeOK, P!Outcome
  <2> QED
    BY <1>2, <1>3, <2>1, <2>3 DEF TokenInv, P!FoundIsLatest, P!RefusedOnlyWhenFull
<1>4. CASE P!NoTarget(e) /\ UNCHANGED <<peer_tokens, made, latest>>
           /\ outcome' = [call |-> "full", token |-> 0, ip |-> e.ip, peer |-> e]
  <2>1. P!TypeOK'
    BY <1>1, <1>2, <1>4 DEF TokenInv, P!TypeOK, P!Outcome
  <2>2. TokenTableInv'
    BY <1>1, <1>4 DEF TokenInv, TokenTableInv, UniqueToken, TokenIsLatest, NoTokenIsOver, P!Holds
  <2>3. P!RefusedOnlyWhenFull'
    BY <1>4, FullIsPaired, CountedAlike DEF TokenInv, P!RefusedOnlyWhenFull
  <2> QED
    BY <1>2, <1>4, <2>1, <2>2, <2>3 DEF TokenInv, P!FoundIsLatest
<1>5. CASE outcome' = P!NoOutcome /\ UNCHANGED <<peer_tokens, made, latest>>
  <2>1. P!TypeOK'
    BY <1>1, <1>2, <1>5 DEF TokenInv, P!TypeOK, P!Outcome, P!NoOutcome
  <2>2. TokenTableInv'
    BY <1>1, <1>5 DEF TokenInv, TokenTableInv, UniqueToken, TokenIsLatest, NoTokenIsOver, P!Holds
  <2> QED
    BY <1>2, <1>5, <2>1, <2>2 DEF TokenInv, P!FoundIsLatest, P!RefusedOnlyWhenFull, P!NoOutcome
<1> QED
  BY <1>3, <1>4, <1>5 DEF P!auth_issue_pair_token

\* Storing the token of another node.
LEMMA StoreKeeps ==
    ASSUME P!ParametersOK, TokenInv, NEW e \in P!Endpoints, NEW x \in now .. now + TokenTTL,
           P!auth_store_peer_token(e, x)
    PROVE  TokenInv'
<1>1. x \in 0 .. MaxTime + TokenTTL
  BY DEF TokenInv, P!TypeOK, P!ParametersOK
<1>2. now' = now /\ UNCHANGED P!codeVars /\ outcome' = P!NoOutcome
  BY DEF P!auth_store_peer_token
<1>3. /\ peer_tokens' \in [P!Slots -> P!Record] /\ made' \in 0 .. MaxTokens
      /\ latest' \in [P!Endpoints -> [token : P!Tokens \cup {0}, expires_at : 0 .. MaxTime + TokenTTL]]
      /\ TokenTableInv'
  <2>1. CASE P!upsert_peer_token_locked(e, x)
    BY <1>1, <1>2, <2>1, UpsertKeeps DEF TokenInv
  <2>2. CASE UNCHANGED <<peer_tokens, made, latest>>
    BY <1>2, <2>2
    DEF TokenInv, P!TypeOK, TokenTableInv, UniqueToken, TokenIsLatest, NoTokenIsOver, P!Holds
  <2> QED
    BY <2>1, <2>2 DEF P!auth_store_peer_token
<1>4. P!TypeOK' /\ CodeExpires'
  BY <1>2, <1>3 DEF TokenInv, P!TypeOK, CodeExpires, P!codeVars, P!Outcome, P!NoOutcome
<1> QED
  BY <1>2, <1>3, <1>4 DEF TokenInv, P!FoundIsLatest, P!RefusedOnlyWhenFull, P!NoOutcome

\* The two lookups find only the latest token of an endpoint.
LEMMA LookupsKeep ==
    ASSUME P!ParametersOK, TokenInv,
           \/ \E e \in P!Endpoints : P!auth_get_peer_token(e)
           \/ \E ip \in Addresses, t \in P!Tokens : P!auth_validate_peer_token(ip, t)
    PROVE  TokenInv'
<1>1. now' = now /\ UNCHANGED P!codeVars /\ made' = made /\ latest' = latest
  BY DEF P!auth_get_peer_token, P!auth_validate_peer_token
<1>2. PICK m \in Nat : peer_tokens' = P!Scanned(m)
  <2>1. P!Slots \subseteq Nat /\ MaxRecords \in Nat
    BY DEF P!Slots, P!ParametersOK
  <2> QED
    BY <2>1 DEF P!auth_get_peer_token, P!auth_validate_peer_token
<1>3. peer_tokens' \in [P!Slots -> P!Record] /\ TokenTableInv'
  BY <1>1, <1>2, TokenClearingKeeps DEF TokenInv
<1>4. /\ outcome' \in P!Outcome
      /\ outcome'.call \notin {"issued", "full"}
      /\ outcome'.call = "got" =>
           \E m0 \in P!Slots : P!FoundFor(m0, outcome'.peer) /\ peer_tokens[m0].token = outcome'.token
      /\ outcome'.call = "valid" =>
           \E m0 \in P!Slots : P!FoundFrom(m0, outcome'.ip, outcome'.token)
  <2>1. ASSUME NEW e \in P!Endpoints, P!auth_get_peer_token(e) PROVE <1>4!:
    <3>1. e.ip \in Addresses
      BY DEF P!Endpoints
    <3>2. \A i \in P!Slots : peer_tokens[i].token \in P!Tokens \cup {0}
      BY DEF TokenInv, P!TypeOK, P!Record
    <3> QED
      BY <2>1, <3>1, <3>2 DEF P!auth_get_peer_token, P!Outcome, P!NoOutcome
  <2>2. ASSUME NEW ip \in Addresses, NEW t \in P!Tokens, P!auth_validate_peer_token(ip, t)
        PROVE  <1>4!:
    BY <2>2 DEF P!auth_validate_peer_token, P!Outcome, P!NoOutcome
  <2> QED
    BY <2>1, <2>2
<1>5. P!TypeOK' /\ CodeExpires'
  BY <1>1, <1>3, <1>4 DEF TokenInv, P!TypeOK, CodeExpires, P!codeVars
<1>6. \A i \in P!Slots : peer_tokens[i].active /\ ~P!Expired(i) =>
                         now < peer_tokens[i].expires_at
  BY DEF P!Expired, TokenInv, P!TypeOK, P!Record, P!ParametersOK
<1>7. P!FoundIsLatest'
  <2>1. outcome'.call = "got" => /\ latest'[outcome'.peer].token = outcome'.token
                                 /\ now' < latest'[outcome'.peer].expires_at
    BY <1>1, <1>4, <1>6 DEF P!FoundFor, P!Holds, TokenInv, TokenTableInv, TokenIsLatest
  <2>2. outcome'.call = "valid" =>
          \E e \in P!Endpoints : /\ e.ip = outcome'.ip
                                 /\ latest'[e].token = outcome'.token
                                 /\ now' < latest'[e].expires_at
    BY <1>1, <1>4, <1>6 DEF P!FoundFrom, TokenInv, TokenTableInv, TokenIsLatest
  <2> QED
    BY <2>1, <2>2 DEF P!FoundIsLatest
<1>8. P!RefusedOnlyWhenFull'
  BY <1>4 DEF P!RefusedOnlyWhenFull
<1> QED
  BY <1>3, <1>5, <1>7, <1>8 DEF TokenInv

\* Showing the code, and time.
LEMMA OthersKeep ==
    ASSUME P!ParametersOK, TokenInv, P!auth_get_pairing_code \/ P!tick
    PROVE  TokenInv'
<1>1. peer_tokens' = peer_tokens /\ made' = made /\ latest' = latest /\ outcome' = P!NoOutcome
      /\ now <= now' /\ now' \in 0 .. MaxTime /\ now \in 0 .. MaxTime
  BY DEF P!auth_get_pairing_code, P!tick, TokenInv, P!TypeOK, P!ParametersOK
<1>2. /\ pairing_code' \in Nat /\ pairing_code_expires_at' \in 0 .. MaxTime + CodeTTL
      /\ made_at' \in 0 .. MaxTime /\ CodeExpires'
  <2>1. CASE P!auth_get_pairing_code
    BY <2>1, EnsureKeeps DEF TokenInv, P!auth_get_pairing_code
  <2>2. CASE P!tick
    BY <2>2 DEF TokenInv, P!TypeOK, P!tick, CodeExpires, P!codeVars
  <2> QED
    BY <2>1, <2>2
<1>3. P!TypeOK'
  BY <1>1, <1>2 DEF TokenInv, P!TypeOK, P!Outcome, P!NoOutcome
<1>4. UniqueToken' /\ TokenIsLatest'
  BY <1>1 DEF TokenInv, TokenTableInv, UniqueToken, TokenIsLatest
<1>5. NoTokenIsOver'
  <2> SUFFICES ASSUME NEW e \in P!Endpoints, \A i \in P!Slots : ~P!Holds(i, e)'
               PROVE  latest[e].expires_at <= now'
    BY <1>1 DEF NoTokenIsOver
  <2>1. latest[e].expires_at <= now
    BY <1>1 DEF TokenInv, TokenTableInv, NoTokenIsOver, P!Holds
  <2>2. latest[e].expires_at \in Int
    BY DEF TokenInv, P!TypeOK, P!ParametersOK
  <2> QED
    BY <1>1, <2>1, <2>2
<1> QED
  BY <1>1, <1>2, <1>3, <1>4, <1>5 DEF TokenInv, TokenTableInv, P!FoundIsLatest, P!RefusedOnlyWhenFull, P!NoOutcome

\* Every step keeps the invariant.
LEMMA NextTokenInv == ASSUME P!ParametersOK, TokenInv, [P!Next]_(P!vars) PROVE TokenInv'
<1>1. CASE UNCHANGED P!vars
  BY <1>1
  DEF TokenInv, P!TypeOK, CodeExpires, TokenTableInv, UniqueToken, TokenIsLatest, NoTokenIsOver, P!Holds,
      P!FoundIsLatest, P!RefusedOnlyWhenFull, P!vars, P!codeVars
<1>2. CASE P!Next
  BY <1>2, IssueKeeps, StoreKeeps, LookupsKeep, OthersKeep DEF P!Next
<1> QED
  BY <1>1, <1>2

\* The inductive invariant holds in every state of the specification.
LEMMA TokenInvariance == ASSUME P!ParametersOK PROVE P!Spec => []TokenInv
<1>1. P!Init => TokenInv
  BY InitTokenInv
<1>2. TokenInv /\ [P!Next]_(P!vars) => TokenInv'
  BY NextTokenInv
<1> QED
  BY <1>1, <1>2, PTL DEF P!Spec
-----------------------------------------------------------------------------
\* FoundIsLatest: auth_get_peer_token and auth_validate_peer_token find only the
\* token last written for an endpoint, and only while it lives.
THEOREM OnlyLatestIsFound == P!Spec => []FoundIsLatest
<1>1. TokenInv => P!FoundIsLatest
  BY DEF TokenInv
<1> QED
  BY <1>1, TokenInvariance, ParametersAssumption, PTL DEF FoundIsLatest

\* PairedStaysPaired: no write for another endpoint and no scan takes a live
\* token away.
THEOREM PairsStay == P!Spec => []PairedStaysPaired
<1>1. TokenInv => P!PairedStaysPaired
  <2> SUFFICES ASSUME TokenInv, NEW e \in P!Endpoints, now < latest[e].expires_at
               PROVE  \E i \in P!Slots : P!FoundFor(i, e) /\ peer_tokens[i].token = latest[e].token
    BY DEF P!PairedStaysPaired
  <2>1. now \in Int /\ latest[e].expires_at \in Int
    BY DEF TokenInv, P!TypeOK, P!ParametersOK
  <2>2. PICK i \in P!Slots : P!Holds(i, e)
    BY <2>1 DEF TokenInv, TokenTableInv, NoTokenIsOver
  <2>3. peer_tokens[i].token = latest[e].token /\ peer_tokens[i].expires_at = latest[e].expires_at
    BY <2>2 DEF TokenInv, TokenTableInv, TokenIsLatest, P!Holds
  <2> QED
    BY <2>1, <2>2, <2>3 DEF P!FoundFor, P!Expired
<1> QED
  BY <1>1, TokenInvariance, ParametersAssumption, PTL DEF PairedStaysPaired

\* RefusedOnlyWhenFull: upsert_peer_token_locked fails only for want of a record.
THEOREM RefusalsAreForRoom == P!Spec => []RefusedOnlyWhenFull
<1>1. TokenInv => P!RefusedOnlyWhenFull
  BY DEF TokenInv
<1> QED
  BY <1>1, TokenInvariance, ParametersAssumption, PTL DEF RefusedOnlyWhenFull

\* CodeIsTemporary: a token is issued only for a code that is good, and a code is
\* replaced only when it is not.
THEOREM CodesAreTemporary == P!Spec => CodeIsTemporary
<1> DEFINE Temporary ==
      /\ outcome'.call = "issued" /\ outcome # outcome' => now < made_at' + CodeTTL
      /\ pairing_code' # pairing_code => now >= made_at + CodeTTL
<1> USE ParametersAssumption
<1>1. TokenInv /\ [P!Next]_(P!vars) => [Temporary]_(P!vars)
  <2> SUFFICES ASSUME TokenInv, P!Next PROVE Temporary
    OBVIOUS
  <2>1. ASSUME NEW e \in P!Endpoints, NEW code, P!auth_issue_pair_token(e, code) PROVE Temporary
    BY <2>1, EnsureKeeps DEF TokenInv, P!auth_issue_pair_token
  <2>2. CASE P!auth_get_pairing_code
    BY <2>2, EnsureKeeps DEF TokenInv, P!auth_get_pairing_code, P!NoOutcome
  <2>3. ASSUME NEW e \in P!Endpoints, NEW x, P!auth_store_peer_token(e, x) PROVE Temporary
    BY <2>3 DEF P!auth_store_peer_token, P!NoOutcome, P!codeVars
  <2>4. ASSUME NEW e \in P!Endpoints, P!auth_get_peer_token(e) PROVE Temporary
    BY <2>4 DEF P!auth_get_peer_token, P!NoOutcome, P!codeVars
  <2>5. ASSUME NEW ip \in Addresses, NEW t \in P!Tokens, P!auth_validate_peer_token(ip, t)
        PROVE  Temporary
    BY <2>5 DEF P!auth_validate_peer_token, P!NoOutcome, P!codeVars
  <2>6. CASE P!tick
    BY <2>6 DEF P!tick, P!NoOutcome, P!codeVars
  <2> QED
    BY <2>1, <2>2, <2>3, <2>4, <2>5, <2>6 DEF P!Next
<1> QED
  BY <1>1, TokenInvariance, ParametersAssumption, PTL DEF P!Spec, P!CodeIsTemporary, CodeIsTemporary
-----------------------------------------------------------------------------
(* The administrative sessions.                                            *)

\* A token was handed to some client, and not in the future.
HandedOut == \A t \in 1 .. created : owner[t] \in Clients /\ since[t] <= now

\* A session in the table is one that was handed out: to the client and until the
\* second it names.
SessionIsHandedOut ==
    \A i \in S!Slots :
        ui_sessions[i].active =>
            /\ ui_sessions[i].token \in 1 .. created
            /\ ui_sessions[i].client_ip = owner[ui_sessions[i].token]
            /\ ui_sessions[i].expires_at = since[ui_sessions[i].token] + SessionTTL

\* The inductive invariant of the sessions.
SessionInv ==
    /\ S!TypeOK
    /\ HandedOut
    /\ SessionIsHandedOut
    /\ S!AcceptedIsOwn
    /\ S!UnlockedStaysUnlocked

\* The first state.
LEMMA InitSessionInv == ASSUME S!ParametersOK, S!Init PROVE SessionInv
  BY DEF S!ParametersOK, S!Init, SessionInv, S!TypeOK, HandedOut, SessionIsHandedOut,
         S!AcceptedIsOwn, S!UnlockedStaysUnlocked, S!Slots, S!Tokens, S!Session, S!NoSession,
         S!NoAnswer

\* A new session takes no slot of another client whose session still lives.
LEMMA CreateKeeps ==
    ASSUME S!ParametersOK, SessionInv, NEW c \in Clients, S!auth_create_ui_session(c)
    PROVE  SessionInv'
<1> DEFINE n == created + 1
<1>1. PICK i \in S!Slots :
        /\ S!Usable(i, c)
        /\ ui_sessions' = [ui_sessions EXCEPT ![i] = S!NewSession(i, c)]
  BY DEF S!auth_create_ui_session
<1>2. /\ n \in S!Tokens /\ created' = n /\ created \in Nat /\ now' = now
      /\ owner' = [owner EXCEPT ![n] = c] /\ since' = [since EXCEPT ![n] = now]
      /\ answer' = S!NoAnswer
  BY DEF S!auth_create_ui_session, SessionInv, S!TypeOK, S!Tokens, S!ParametersOK
<1>3. S!NewSession(i, c) \in S!Session
  BY <1>2 DEF S!NewSession, S!Session, SessionInv, S!TypeOK, S!ParametersOK
<1>4. S!TypeOK'
  BY <1>1, <1>2, <1>3 DEF SessionInv, S!TypeOK, S!NoAnswer, S!ParametersOK, S!Tokens
<1>5. \A t \in 1 .. created :
        t \in S!Tokens /\ t # n /\ owner'[t] = owner[t] /\ since'[t] = since[t]
  BY <1>2 DEF SessionInv, S!TypeOK, S!Tokens, S!ParametersOK
<1>6. owner'[n] = c /\ since'[n] = now
  BY <1>2 DEF SessionInv, S!TypeOK
<1>7. HandedOut'
  BY <1>2, <1>5, <1>6 DEF SessionInv, HandedOut, S!TypeOK
<1>8. /\ ui_sessions'[i] = S!NewSession(i, c)
      /\ \A j \in S!Slots : j # i => ui_sessions'[j] = ui_sessions[j]
  BY <1>1 DEF SessionInv, S!TypeOK
<1>9. SessionIsHandedOut'
  BY <1>2, <1>5, <1>6, <1>8 DEF SessionInv, SessionIsHandedOut, S!NewSession, S!TypeOK
<1>10. S!AcceptedIsOwn'
  BY <1>2 DEF S!AcceptedIsOwn, S!NoAnswer
<1>11. S!UnlockedStaysUnlocked'
  <2> SUFFICES ASSUME NEW t \in 1 .. n, now < since'[t] + SessionTTL,
                      \A u \in t + 1 .. n : owner'[u] # owner'[t]
               PROVE  \E j \in S!Slots : S!Accepts(j, owner[t], t)'
    BY <1>2 DEF S!UnlockedStaysUnlocked
  <2>1. CASE t = n
    BY <2>1, <1>2, <1>6, <1>8
    DEF S!Accepts, S!Expired, S!NewSession, SessionInv, S!TypeOK, S!ParametersOK
  <2>2. CASE t # n
    <3>1. t \in 1 .. created /\ n \in t + 1 .. n /\ owner[t] # c
      BY <2>2, <1>2, <1>5, <1>6
    <3>2. \A u \in t + 1 .. created : u \in t + 1 .. n /\ owner[u] # owner[t]
      BY <3>1, <1>2, <1>5
    <3>3. PICK j \in S!Slots : S!Accepts(j, owner[t], t)
      BY <3>1, <3>2, <1>5 DEF SessionInv, S!UnlockedStaysUnlocked
    <3>4. j # i
      BY <3>1, <3>3, <1>1 DEF S!Accepts, S!Usable
    <3> QED
      BY <3>1, <3>3, <3>4, <1>2, <1>5, <1>8 DEF S!Accepts, S!Expired
  <2> QED
    BY <2>1, <2>2
<1> QED
  BY <1>4, <1>7, <1>9, <1>10, <1>11 DEF SessionInv

\* A validation clears only sessions that ended.
LEMMA ValidateKeeps ==
    ASSUME S!ParametersOK, SessionInv, NEW c \in Clients, NEW t \in S!Tokens,
           S!auth_validate_ui_session(c, t)
    PROVE  SessionInv'
<1>1. now' = now /\ created' = created /\ owner' = owner /\ since' = since
  BY DEF S!auth_validate_ui_session
<1>2. PICK m \in Int : ui_sessions' = S!Scanned(m)
  BY DEF S!auth_validate_ui_session, S!Slots, S!ParametersOK
<1>3. S!NoSession \in S!Session /\ ~S!NoSession.active
  BY DEF S!NoSession, S!Session, S!ParametersOK
<1>4. \A i \in S!Slots : \/ ui_sessions'[i] = ui_sessions[i]
                         \/ S!Expired(i) /\ ui_sessions'[i] = S!NoSession
  BY <1>2 DEF S!Scanned
<1>5. ui_sessions' \in [S!Slots -> S!Session]
  BY <1>2, <1>3 DEF S!Scanned, SessionInv, S!TypeOK
<1>6. \/ answer' = S!NoAnswer
      \/ /\ answer' = [token |-> t, client |-> c]
         /\ \E i \in S!Slots : S!Accepts(i, c, t)
  BY DEF S!auth_validate_ui_session
<1>7. S!TypeOK'
  BY <1>1, <1>5, <1>6 DEF SessionInv, S!TypeOK, S!NoAnswer
<1>8. HandedOut'
  BY <1>1 DEF SessionInv, HandedOut
<1>9. SessionIsHandedOut'
  BY <1>1, <1>3, <1>4 DEF SessionInv, SessionIsHandedOut
<1>10. S!AcceptedIsOwn'
  <2>1. CASE answer' = S!NoAnswer
    BY <2>1 DEF S!AcceptedIsOwn, S!NoAnswer
  <2>2. CASE answer' # S!NoAnswer
    <3>1. PICK i \in S!Slots : S!Accepts(i, c, t)
      BY <2>2, <1>6
    <3>2. owner[t] = c /\ ui_sessions[i].expires_at = since[t] + SessionTTL
      BY <3>1 DEF S!Accepts, SessionInv, SessionIsHandedOut
    <3>3. now < since[t] + SessionTTL
      BY <3>1, <3>2 DEF S!Accepts, S!Expired, SessionInv, S!TypeOK, S!ParametersOK
    <3> QED
      BY <3>2, <3>3, <2>2, <1>1, <1>6 DEF S!AcceptedIsOwn
  <2> QED
    BY <2>1, <2>2
<1>11. S!UnlockedStaysUnlocked'
  BY <1>1, <1>4 DEF SessionInv, S!UnlockedStaysUnlocked, S!Accepts, S!Expired
<1> QED
  BY <1>7, <1>8, <1>9, <1>10, <1>11 DEF SessionInv

\* Time ends sessions and takes none away.
LEMMA SessionTickKeeps == ASSUME S!ParametersOK, SessionInv, S!tick PROVE SessionInv'
<1>1. /\ now \in Nat /\ now' = now + 1 /\ now' \in 0 .. MaxSessionTime /\ answer' = S!NoAnswer
      /\ ui_sessions' = ui_sessions /\ created' = created /\ owner' = owner /\ since' = since
  BY DEF S!tick, SessionInv, S!TypeOK, S!ParametersOK
<1>2. S!TypeOK' /\ HandedOut' /\ SessionIsHandedOut'
  BY <1>1 DEF SessionInv, S!TypeOK, HandedOut, SessionIsHandedOut, S!NoAnswer, S!Tokens, S!ParametersOK
<1>3. S!AcceptedIsOwn'
  BY <1>1 DEF S!AcceptedIsOwn, S!NoAnswer
<1>4. S!UnlockedStaysUnlocked'
  <2> SUFFICES ASSUME NEW t \in 1 .. created, now + 1 < since[t] + SessionTTL,
                      \A u \in t + 1 .. created : owner[u] # owner[t]
               PROVE  \E i \in S!Slots : S!Accepts(i, owner[t], t)'
    BY <1>1 DEF S!UnlockedStaysUnlocked
  <2>1. since[t] + SessionTTL \in Int
    BY DEF SessionInv, S!TypeOK, S!Tokens, S!ParametersOK
  <2>2. PICK i \in S!Slots : S!Accepts(i, owner[t], t)
    BY <1>1, <2>1 DEF SessionInv, S!UnlockedStaysUnlocked
  <2>3. ui_sessions[i].expires_at = since[t] + SessionTTL
    BY <2>2 DEF S!Accepts, SessionInv, SessionIsHandedOut
  <2> QED
    BY <1>1, <2>1, <2>2, <2>3 DEF S!Accepts, S!Expired
<1> QED
  BY <1>2, <1>3, <1>4 DEF SessionInv

\* The inductive invariant of the sessions holds in every state.
LEMMA SessionInvariance == ASSUME S!ParametersOK PROVE S!Spec => []SessionInv
<1>1. S!Init => SessionInv
  BY InitSessionInv
<1>2. SessionInv /\ [S!Next]_S!vars => SessionInv'
  <2>1. ASSUME SessionInv, UNCHANGED S!vars PROVE SessionInv'
    BY <2>1
    DEF S!vars, SessionInv, S!TypeOK, HandedOut, SessionIsHandedOut, S!AcceptedIsOwn,
        S!UnlockedStaysUnlocked, S!Accepts, S!Expired
  <2>2. ASSUME SessionInv, S!Next PROVE SessionInv'
    BY <2>2, CreateKeeps, ValidateKeeps, SessionTickKeeps DEF S!Next
  <2> QED
    BY <2>1, <2>2
<1> QED
  BY <1>1, <1>2, PTL DEF S!Spec

\* AcceptedIsOwn: auth_validate_ui_session accepts a token only from the client it
\* was handed to and only while it lives, whatever slots were reused.
THEOREM OnlyOwnIsAccepted == S!Spec => []AcceptedIsOwn
<1>1. SessionInv => S!AcceptedIsOwn
  BY DEF SessionInv
<1> QED
  BY <1>1, SessionInvariance, ParametersAssumption, PTL DEF AcceptedIsOwn

\* UnlockedStaysUnlocked: no unlock of another client and no scan takes a live
\* session away.
THEOREM UnlocksStay == S!Spec => []UnlockedStaysUnlocked
<1>1. SessionInv => S!UnlockedStaysUnlocked
  BY DEF SessionInv
<1> QED
  BY <1>1, SessionInvariance, ParametersAssumption, PTL DEF UnlockedStaysUnlocked
-----------------------------------------------------------------------------
(* The run.                                                                *)

\* What is proved of the three tables holds of the specification that TLC checks,
\* in the behaviours about the table: they share the clock, whose bound is a
\* table's own.
LEMMA AuthParts ==
    /\ AuthSpec /\ table = "rate_limits" => Spec
    /\ AuthSpec /\ table = "ui_sessions" => S!Spec
    /\ AuthSpec /\ table = "peer_tokens" => P!Spec
<1>1. AuthInit => Init /\ S!Init /\ P!Init
  BY DEF AuthInit
<1>2. table = "rate_limits" /\ [AuthNext]_<<table, now, limitVars, sessionVars, tokenVars>>
        => (table = "rate_limits")' /\ [Next]_vars
  BY DEF AuthNext, limitVars, vars
<1>3. table = "ui_sessions" /\ [AuthNext]_<<table, now, limitVars, sessionVars, tokenVars>>
        => (table = "ui_sessions")' /\ [S!Next]_(S!vars)
  BY DEF AuthNext, sessionVars, S!vars
<1>4. table = "peer_tokens" /\ [AuthNext]_<<table, now, limitVars, sessionVars, tokenVars>>
        => (table = "peer_tokens")' /\ [P!Next]_(P!vars)
  BY DEF AuthNext, tokenVars, P!vars, P!codeVars
<1> QED
  BY <1>1, <1>2, <1>3, <1>4, PTL DEF AuthSpec, Spec, S!Spec, P!Spec
===============================================================================
