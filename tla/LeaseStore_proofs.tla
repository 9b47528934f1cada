-------------------------- MODULE LeaseStore_proofs --------------------------
(***************************************************************************)
(* Proofs about LeaseStore, for any number of workers, any clock error and  *)
(* any bounds.                                                             *)
(*                                                                         *)
(* The invariant ties the three places a token lives in together: the row   *)
(* always carries the newest token (RowOK), no worker holds a newer one and *)
(* no two workers the same (TokensDistinct), what a worker read is a        *)
(* version the row has had (SeenIsPast), and a worker outside a heartbeat   *)
(* knows the row's expiry or holds a lease that is over (ExpiryOK).         *)
(* ExpiryOK is what a takeover needs: it shows that the lease taken over is *)
(* the one its last holder believes in.                                     *)
(***************************************************************************)
EXTENDS LeaseStore, TLAPS

(* A version number stands for one content of the row: what a worker has    *)
(* read is the row itself or an older version of it.                        *)
SeenIsPast ==
    \A w \in Worker : seen[w] # Nil =>
        /\ state # Nil
        /\ seen[w].version <= state.version
        /\ seen[w].version = state.version => seen[w] = state

(* The row carries the newest token. *)
RowOK == IF lease = Nil THEN counter = 0 ELSE lease.token = counter

(* What an idle worker believes about the expiry of its lease. *)
Informed(w) ==
    held[w] # Nil /\ pc[w] = "idle" =>
        \/ held[w].token = lease.token /\ held[w].expires = lease.expires
        \/ held[w].expires <= now

NoneAhead == \A w \in Worker : ahead[w] = 0

ExpiryOK == NoneAhead => \A w \in Worker : Informed(w)

BeatOK == \A w \in Worker : pc[w] = "update" => beat[w].expires \in Positive

IInv == TypeOK /\ RowOK /\ TokensDistinct /\ SeenIsPast /\ ExpiryOK /\ BeatOK

(* At first there is no row, and no worker holds or has read one.           *)
LEMMA InitIInv == Init => IInv
BY ClockAssumption
   DEF Init, IInv, TypeOK, RowOK, TokensDistinct, SeenIsPast, ExpiryOK, Informed, NoneAhead,
       BeatOK, NoBeat

(* An acquisition issues a token no worker holds yet, and if no clock is    *)
(* ahead the lease it replaces is over in real time too.                    *)
LEMMA AcquireStep ==
    ASSUME IInv, NEW w \in Worker, NEW l \in LeaseId, NEW ttl \in Ttl, NEW t \in Epochs(w),
           Acquire(w, l, ttl, t)
    PROVE  IInv'
<1> USE NilAssumption
<1>1. /\ t \in Nat /\ t <= now + ahead[w] /\ ttl \in Positive /\ now \in Nat
      /\ ahead[w] \in Nat
  BY TtlAssumption, ClockAssumption DEF Epochs, IInv, TypeOK, Positive
<1>2. lease' \in TaskLease /\ lease' # Nil
  <2>1. lease # Nil => lease \in TaskLease
    BY DEF IInv, TypeOK
  <2>2. counter + 1 \in Positive /\ t + ttl \in Positive
    BY <1>1 DEF IInv, TypeOK, Positive
  <2>3. (IF lease = Nil THEN 1 ELSE lease.version + 1) \in Positive
    BY <2>1 DEF TaskLease, Positive
  <2>4. lease' \in TaskLease
    BY <2>2, <2>3 DEF Acquire, TaskLease
  <2> QED BY <2>4
<1>3. TypeOK'
  BY <1>2 DEF Acquire, IInv, TypeOK
<1>4. RowOK'
  BY <1>2 DEF Acquire, RowOK
<1>5. \A v \in Worker : held[v] # Nil => held[v].token < counter'
  <2> SUFFICES ASSUME NEW v \in Worker, held[v] # Nil PROVE held[v].token < counter'
    OBVIOUS
  <2>1. held[v].token <= counter /\ held[v] \in TaskLease /\ counter \in Nat
    BY DEF IInv, TypeOK, TokensDistinct, RowOK
  <2> QED BY <2>1 DEF Acquire, TaskLease, Positive
<1>6. lease'.token = counter' /\ counter' \in Nat /\ held' = [held EXCEPT ![w] = lease']
  BY DEF Acquire, IInv, TypeOK
<1>7. TokensDistinct'
  <2> SUFFICES ASSUME NEW u \in Worker, held'[u] # Nil
               PROVE  /\ lease' # Nil
                      /\ held'[u].token <= lease'.token
                      /\ \A v \in Worker \ {u} : held'[v] # Nil => held'[v].token # held'[u].token
    BY DEF TokensDistinct
  <2>1. \A v \in Worker : held'[v] = IF v = w THEN lease' ELSE held[v]
    BY <1>6 DEF IInv, TypeOK
  <2>2. \A v \in Worker : held[v] # Nil => held[v].token \in Nat
    BY DEF IInv, TypeOK, TaskLease, Positive
  <2>3. held'[u].token <= lease'.token
    BY <2>1, <2>2, <1>5, <1>6
  <2>4. \A v \in Worker \ {u} : held'[v] # Nil => held'[v].token # held'[u].token
    <3>1. \A v \in Worker \ {u} : held[v] # Nil /\ held[u] # Nil => held[v].token # held[u].token
      BY DEF IInv, TokensDistinct
    <3> QED BY <3>1, <2>1, <2>2, <1>5, <1>6
  <2> QED BY <2>3, <2>4, <1>2
<1>8. SeenIsPast'
  BY DEF Acquire, IInv, SeenIsPast
<1>9. ExpiryOK'
  <2> SUFFICES ASSUME NoneAhead', NEW v \in Worker, held'[v] # Nil, pc'[v] = "idle"
               PROVE  \/ held'[v].token = lease'.token /\ held'[v].expires = lease'.expires
                      \/ held'[v].expires <= now'
    BY DEF ExpiryOK, Informed
  <2>1. CASE v = w
    BY <2>1, <1>6 DEF IInv, TypeOK
  <2>2. CASE v # w
    <3>1. held'[v] = held[v] /\ pc'[v] = pc[v] /\ now' = now /\ NoneAhead
      BY <2>2, <1>6 DEF Acquire, IInv, TypeOK, NoneAhead
    <3>2. Informed(v) /\ lease # Nil
      BY <3>1 DEF IInv, ExpiryOK, TokensDistinct
    <3>3. ahead[w] = 0 /\ t <= now /\ lease.expires <= t
      BY <3>1, <3>2, <1>1 DEF NoneAhead, Acquire, Free
    <3>4. lease.expires \in Nat
      BY <3>2 DEF IInv, TypeOK, TaskLease, Positive
    <3> QED BY <3>1, <3>2, <3>3, <3>4, <1>1 DEF Informed
  <2> QED BY <2>1, <2>2
<1>10. BeatOK'
  BY DEF Acquire, IInv, BeatOK
<1> QED BY <1>3, <1>4, <1>7, <1>8, <1>9, <1>10 DEF IInv

(* A refusal or a crash only makes a worker forget.                         *)
LEMMA ForgetStep ==
    ASSUME IInv, NEW w \in Worker, Refused(w) \/ Crash(w)
    PROVE  IInv'
<1>1. /\ held' = [held EXCEPT ![w] = Nil]
      /\ pc' = [pc EXCEPT ![w] = "idle"]
      /\ beat' = [beat EXCEPT ![w] = NoBeat]
      /\ seen' = seen \/ seen' = [seen EXCEPT ![w] = Nil]
      /\ UNCHANGED <<now, ahead, counter, lease, state>>
  BY DEF Refused, Crash, rows
<1>2. TypeOK'
  BY <1>1 DEF IInv, TypeOK, NoBeat
<1>3. RowOK'
  BY <1>1 DEF IInv, RowOK
<1>4. TokensDistinct'
  BY <1>1 DEF IInv, TypeOK, TokensDistinct
<1>5. SeenIsPast'
  BY <1>1 DEF IInv, TypeOK, SeenIsPast
<1>6. ExpiryOK'
  BY <1>1 DEF IInv, TypeOK, ExpiryOK, Informed, NoneAhead
<1>7. BeatOK'
  BY <1>1 DEF IInv, TypeOK, BeatOK
<1> QED BY <1>2, <1>3, <1>4, <1>5, <1>6, <1>7 DEF IInv

(* Reading the row again tells its holder the row's expiry.                 *)
LEMMA ReadBackStep ==
    ASSUME IInv, NEW w \in Worker, NEW t \in Nat, Current(held[w], t),
           held' = [held EXCEPT ![w] = lease],
           pc' = [pc EXCEPT ![w] = "idle"],
           beat' = [beat EXCEPT ![w] = NoBeat] \/ beat' = beat,
           UNCHANGED <<now, ahead, rows, seen>>
    PROVE  IInv'
<1>1. lease # Nil /\ held[w] # Nil /\ lease.token = held[w].token
  BY DEF Current, Matches
<1>2. TypeOK'
  BY <1>1 DEF IInv, TypeOK, NoBeat, rows
<1>3. RowOK'
  BY DEF IInv, RowOK, rows
<1>4. TokensDistinct'
  BY <1>1 DEF IInv, TypeOK, TokensDistinct, rows
<1>5. SeenIsPast'
  BY DEF IInv, TypeOK, SeenIsPast, rows
<1>6. ExpiryOK'
  BY <1>1 DEF IInv, TypeOK, ExpiryOK, Informed, NoneAhead, rows
<1>7. BeatOK'
  BY <1>1 DEF IInv, TypeOK, BeatOK
<1> QED BY <1>2, <1>3, <1>4, <1>5, <1>6, <1>7 DEF IInv

(* A renewal keeps the grant, and the worker that makes it is the only one  *)
(* that may believe in the lease it changes.                                *)
LEMMA RenewStep ==
    ASSUME IInv, NEW w \in Worker, HeartbeatUpdate(w)
    PROVE  IInv'
<1>1. CASE ~SameVersion(w)
  BY <1>1, ForgetStep DEF HeartbeatUpdate
<1>2. CASE SameVersion(w)
  <2>1. /\ lease # Nil /\ held[w] # Nil /\ lease.token = held[w].token
        /\ lease \in TaskLease /\ beat[w].expires \in Positive
    BY <1>2 DEF SameVersion, Matches, HeartbeatUpdate, IInv, TypeOK, BeatOK
  <2>2. /\ lease' = [lease EXCEPT !.expires = beat[w].expires, !.version = @ + 1]
        /\ pc' = [pc EXCEPT ![w] = "reread"]
        /\ UNCHANGED <<now, ahead, counter, state, held, seen, beat>>
    BY <1>2 DEF HeartbeatUpdate
  <2>3. lease' \in TaskLease /\ lease'.token = lease.token
    <3> DEFINE moved == [lease EXCEPT !.expires = beat[w].expires]
    <3>1. moved \in TaskLease /\ moved.token = lease.token
      BY <2>1 DEF TaskLease
    <3>2. lease' = [moved EXCEPT !.version = lease.version + 1]
      BY <2>2
    <3>3. lease.version + 1 \in Positive
      BY <2>1 DEF TaskLease, Positive
    <3> HIDE DEF moved
    <3> QED BY <3>1, <3>2, <3>3 DEF TaskLease
  <2>4. TypeOK'
    BY <2>2, <2>3 DEF IInv, TypeOK
  <2>5. RowOK'
    BY <2>1, <2>2, <2>3, NilAssumption DEF IInv, RowOK
  <2>6. TokensDistinct'
    BY <2>2, <2>3, NilAssumption DEF IInv, TokensDistinct
  <2>7. SeenIsPast'
    BY <2>2 DEF IInv, SeenIsPast
  <2>8. ExpiryOK'
    <3> SUFFICES ASSUME NoneAhead', NEW v \in Worker, held'[v] # Nil, pc'[v] = "idle"
                 PROVE  \/ held'[v].token = lease'.token /\ held'[v].expires = lease'.expires
                        \/ held'[v].expires <= now'
      BY DEF ExpiryOK, Informed
    <3>1. v # w /\ pc[v] = "idle" /\ held[v] # Nil /\ NoneAhead
      BY <2>2 DEF IInv, TypeOK, NoneAhead
    <3>2. held[v].token # lease.token
      BY <2>1, <3>1 DEF IInv, TokensDistinct
    <3>3. Informed(v)
      BY <3>1 DEF IInv, ExpiryOK
    <3> QED BY <2>2, <3>1, <3>2, <3>3 DEF Informed
  <2>9. BeatOK'
    BY <2>2 DEF IInv, TypeOK, BeatOK
  <2> QED BY <2>4, <2>5, <2>6, <2>7, <2>8, <2>9 DEF IInv
<1> QED BY <1>1, <1>2

(* The first read of a heartbeat fixes a positive expiry and changes nothing *)
(* else.                                                                    *)
LEMMA ReadStep ==
    ASSUME IInv, NEW w \in Worker, NEW ttl \in Ttl, NEW t \in Epochs(w),
           HeartbeatRead(w, ttl, t)
    PROVE  IInv'
<1>1. CASE ~Current(held[w], t)
  BY <1>1, ForgetStep DEF HeartbeatRead
<1>2. CASE Current(held[w], t)
  <2>1. /\ pc' = [pc EXCEPT ![w] = "update"]
        /\ beat' = [beat EXCEPT ![w] = [version |-> lease.version, expires |-> t + ttl,
                                        epoch |-> t]]
        /\ UNCHANGED <<now, ahead, counter, lease, state, held, seen>>
    BY <1>2 DEF HeartbeatRead, rows
  <2>2. lease.version \in Nat /\ t \in Nat /\ t + ttl \in Positive
    BY <1>2, TtlAssumption DEF Current, Matches, IInv, TypeOK, TaskLease, Epochs, Positive
  <2>3. TypeOK'
    BY <2>1, <2>2 DEF IInv, TypeOK, Positive
  <2>4. RowOK' /\ TokensDistinct' /\ SeenIsPast'
    BY <2>1 DEF IInv, RowOK, TokensDistinct, SeenIsPast
  <2>5. ExpiryOK'
    BY <2>1 DEF IInv, TypeOK, ExpiryOK, Informed, NoneAhead
  <2>6. BeatOK'
    BY <2>1, <2>2 DEF IInv, TypeOK, BeatOK
  <2> QED BY <2>3, <2>4, <2>5, <2>6 DEF IInv
<1> QED BY <1>1, <1>2

(* A write of the task state gives it the next version: what any worker has *)
(* read is older.                                                           *)
LEMMA WriteStep ==
    ASSUME IInv, NEW w \in Worker, state' \in TaskState,
           state # Nil => state'.version = state.version + 1,
           seen' = [seen EXCEPT ![w] = state'],
           UNCHANGED <<now, ahead, counter, lease, held, pc, beat>>
    PROVE  IInv'
<1>1. TypeOK'
  BY DEF IInv, TypeOK
<1>2. SeenIsPast'
  <2> SUFFICES ASSUME NEW v \in Worker, seen'[v] # Nil
               PROVE  /\ state' # Nil
                      /\ seen'[v].version <= state'.version
                      /\ seen'[v].version = state'.version => seen'[v] = state'
    BY DEF SeenIsPast
  <2>1. state' # Nil /\ state'.version \in Nat
    BY NilAssumption DEF TaskState, Positive
  <2>2. CASE v = w
    BY <2>1, <2>2 DEF IInv, TypeOK
  <2>3. CASE v # w
    <3>1. seen[v] # Nil /\ seen'[v] = seen[v]
      BY <2>3 DEF IInv, TypeOK
    <3>2. /\ state # Nil /\ state \in TaskState /\ seen[v] \in TaskState
          /\ seen[v].version <= state.version
      BY <3>1 DEF IInv, TypeOK, SeenIsPast
    <3> QED BY <2>1, <3>1, <3>2 DEF TaskState, Positive
  <2> QED BY <2>2, <2>3
<1>3. RowOK' /\ TokensDistinct' /\ ExpiryOK' /\ BeatOK'
  BY DEF IInv, RowOK, TokensDistinct, ExpiryOK, Informed, NoneAhead, BeatOK
<1> QED BY <1>1, <1>2, <1>3 DEF IInv

LEMMA InitializeStep ==
    ASSUME IInv, NEW w \in Worker, NEW name \in StateName, NEW t \in Epochs(w),
           InitializeState(w, name, t)
    PROVE  IInv'
<1>1. CASE ~Current(held[w], t)
  BY <1>1, ForgetStep DEF InitializeState
<1>2. CASE Current(held[w], t)
  <2>1. held[w] \in TaskLease
    BY <1>2 DEF Current, Matches, IInv, TypeOK
  <2>2. state' \in TaskState /\ state = Nil
    BY <1>2, <2>1 DEF InitializeState, TaskState, TaskLease, Positive
  <2> QED BY <1>2, <2>2, WriteStep DEF InitializeState
<1> QED BY <1>1, <1>2

LEMMA SwapStep ==
    ASSUME IInv, NEW w \in Worker, NEW name \in StateName, NEW t \in Epochs(w),
           CompareAndSwap(w, name, t)
    PROVE  IInv'
<1>1. CASE ~Current(held[w], t)
  BY <1>1, ForgetStep DEF CompareAndSwap
<1>2. CASE Current(held[w], t)
  <2>1. held[w] \in TaskLease /\ state # Nil /\ state \in TaskState
    BY <1>2 DEF Current, Matches, CompareAndSwap, IInv, TypeOK
  <2>2. state' \in TaskState /\ state'.version = state.version + 1
    BY <1>2, <2>1 DEF CompareAndSwap, TaskState, TaskLease, Positive
  <2> QED BY <1>2, <2>2, WriteStep DEF CompareAndSwap
<1> QED BY <1>1, <1>2

LEMMA GetStateStep ==
    ASSUME IInv, NEW w \in Worker, GetState(w)
    PROVE  IInv'
<1>1. /\ seen' = [seen EXCEPT ![w] = state]
      /\ UNCHANGED <<now, ahead, counter, lease, state, held, pc, beat>>
  BY DEF GetState, rows
<1>2. TypeOK'
  BY <1>1 DEF IInv, TypeOK
<1>3. SeenIsPast'
  BY <1>1 DEF IInv, TypeOK, SeenIsPast, TaskState, Positive
<1>4. RowOK' /\ TokensDistinct' /\ ExpiryOK' /\ BeatOK'
  BY <1>1 DEF IInv, RowOK, TokensDistinct, ExpiryOK, Informed, NoneAhead, BeatOK
<1> QED BY <1>2, <1>3, <1>4 DEF IInv

LEMMA TickStep ==
    ASSUME IInv, Tick
    PROVE  IInv'
<1>1. now' = now + 1 /\ UNCHANGED <<ahead, counter, lease, state, held, seen, pc, beat>>
  BY DEF Tick, rows, local
<1>2. TypeOK'
  BY <1>1 DEF IInv, TypeOK
<1>3. RowOK' /\ TokensDistinct' /\ SeenIsPast' /\ BeatOK'
  BY <1>1 DEF IInv, RowOK, TokensDistinct, SeenIsPast, BeatOK
<1>4. ExpiryOK'
  <2>1. \A w \in Worker : held[w] # Nil => held[w].expires \in Nat
    BY DEF IInv, TypeOK, TaskLease, Positive
  <2> QED BY <1>1, <2>1 DEF IInv, TypeOK, ExpiryOK, Informed, NoneAhead
<1> QED BY <1>2, <1>3, <1>4 DEF IInv

(* IInv holds in every reachable state of the store.                        *)
THEOREM Inductive == Spec => []IInv
<1>1. IInv /\ [Next]_vars => IInv'
  <2> SUFFICES ASSUME IInv, [Next]_vars PROVE IInv'
    OBVIOUS
  <2>1. CASE UNCHANGED vars
    BY <2>1 DEF vars, IInv, TypeOK, RowOK, TokensDistinct, SeenIsPast, ExpiryOK, Informed,
                NoneAhead, BeatOK
  <2>2. CASE Tick
    BY <2>2, TickStep
  <2>3. ASSUME NEW w \in Worker, Operation(w) PROVE IInv'
    <3>1. CASE HeartbeatReread(w)
      <4>1. CASE ~Current(held[w], beat[w].epoch)
        BY <3>1, <4>1, ForgetStep DEF HeartbeatReread
      <4>2. CASE Current(held[w], beat[w].epoch)
        <5>1. beat[w].epoch \in Nat
          BY DEF IInv, TypeOK
        <5> QED BY <3>1, <4>2, <5>1, ReadBackStep DEF HeartbeatReread
      <4> QED BY <4>1, <4>2
    <3>2. ASSUME NEW t \in Epochs(w), RequireCurrent(w, t) PROVE IInv'
      <4>1. CASE ~Current(held[w], t)
        BY <3>2, <4>1, ForgetStep DEF RequireCurrent
      <4>2. CASE Current(held[w], t)
        <5>1. t \in Nat /\ pc' = [pc EXCEPT ![w] = "idle"]
          BY <3>2, <4>2 DEF Epochs, RequireCurrent, IInv, TypeOK
        <5> QED BY <3>2, <4>2, <5>1, ReadBackStep DEF RequireCurrent
      <4> QED BY <4>1, <4>2
    <3> QED BY <2>3, <3>1, <3>2, AcquireStep, ForgetStep, RenewStep, ReadStep, InitializeStep,
               SwapStep, GetStateStep DEF Operation
  <2> QED BY <2>1, <2>2, <2>3 DEF Next
<1> QED BY <1>1, InitIInv, PTL DEF Spec

(* The rows and what workers remember of them are always well formed.       *)
THEOREM TypeCorrect == Spec => []TypeOK
<1>1. IInv => TypeOK
  BY DEF IInv
<1> QED BY <1>1, Inductive, PTL

(* No two workers ever hold the same fencing token, and none holds a newer   *)
(* one than the row.                                                         *)
THEOREM DistinctTokens == Spec => []TokensDistinct
<1>1. IInv => TokensDistinct
  BY DEF IInv
<1> QED BY <1>1, Inductive, PTL

(* A compare-and-swap that succeeds overwrites what its worker had read.    *)
THEOREM Swaps == Spec => NoLostUpdate
<1> DEFINE Kept == state # Nil /\ state' # state =>
                      \E w \in Worker : seen[w] = state /\ seen'[w] = state'
<1>1. IInv /\ [Next]_vars => [Kept]_vars
  <2> SUFFICES ASSUME IInv, Next, state # Nil, state' # state
               PROVE  \E w \in Worker : seen[w] = state /\ seen'[w] = state'
    OBVIOUS
  <2>1. ~Tick
    BY DEF Tick, rows
  <2>2. PICK w \in Worker : Operation(w)
    BY <2>1 DEF Next
  <2>3. ~Refused(w)
    BY DEF Refused, rows
  <2>4. \E t \in Epochs(w), name \in StateName : CompareAndSwap(w, name, t)
    BY <2>2, <2>3 DEF Operation, Acquire, RequireCurrent, HeartbeatRead, HeartbeatUpdate,
                      HeartbeatReread, InitializeState, GetState, Crash, rows
  <2>5. /\ seen[w] # Nil
        /\ state.version = seen[w].version
        /\ seen' = [seen EXCEPT ![w] = state']
    BY <2>3, <2>4 DEF CompareAndSwap
  <2>6. seen[w] = state /\ seen'[w] = state'
    BY <2>5 DEF IInv, TypeOK, SeenIsPast
  <2> QED BY <2>6
<1> QED BY <1>1, Inductive, PTL DEF Spec, NoLostUpdate

(* With no clock ahead of real time, one worker at most is outside a        *)
(* heartbeat with a lease that has not expired.                             *)
THEOREM Exclusion == Spec => []OneLiveLease
<1>1. IInv => OneLiveLease
  <2> SUFFICES ASSUME IInv, NoneAhead, NEW w \in Worker, NEW v \in Worker,
                      held[w] # Nil, pc[w] = "idle", held[w].expires > now,
                      held[v] # Nil, pc[v] = "idle", held[v].expires > now
               PROVE  w = v
    BY DEF OneLiveLease, NoneAhead
  <2>1. held[w].expires \in Nat /\ held[v].expires \in Nat /\ now \in Nat
    BY DEF IInv, TypeOK, TaskLease, Positive
  <2>2. held[w].token = lease.token /\ held[v].token = lease.token
    BY <2>1 DEF IInv, ExpiryOK, Informed
  <2> QED BY <2>2 DEF IInv, TokensDistinct
<1> QED BY <1>1, Inductive, PTL

(* Every write of the task state and every renewal of the lease is made     *)
(* under the newest token ever issued.                                      *)
THEOREM Fencing == Spec => OnlyNewestGrantWrites
<1> DEFINE Fenced ==
      /\ state' # state => state'.token = counter
      /\ lease' # lease => /\ lease'.token = counter'
                           /\ counter' = counter => /\ lease'.id = lease.id
                                                    /\ lease'.worker = lease.worker
<1>1. IInv /\ [Next]_vars => [Fenced]_vars
  <2> SUFFICES ASSUME IInv, Next PROVE Fenced
    OBVIOUS
  <2>1. ASSUME NEW w \in Worker, NEW t, Current(held[w], t)
        PROVE  held[w].token = counter
    BY <2>1 DEF Current, Matches, IInv, RowOK
  <2>2. CASE Tick
    BY <2>2 DEF Tick, rows
  <2>3. ASSUME NEW w \in Worker, Operation(w) PROVE Fenced
    <3>1. ASSUME Refused(w) \/ Crash(w) \/ GetState(w) PROVE Fenced
      BY <3>1 DEF Refused, Crash, GetState, rows
    <3>2. ASSUME NEW t, NEW l, NEW ttl, Acquire(w, l, ttl, t) PROVE Fenced
      BY <3>2 DEF Acquire, IInv, TypeOK
    <3>3. CASE HeartbeatUpdate(w)
      <4>1. CASE ~SameVersion(w)
        BY <3>1, <3>3, <4>1 DEF HeartbeatUpdate
      <4>2. CASE SameVersion(w)
        <5>1. lease # Nil /\ lease \in TaskLease /\ lease.token = counter
          BY <4>2 DEF SameVersion, Matches, IInv, TypeOK, RowOK
        <5> QED BY <3>3, <4>2, <5>1 DEF HeartbeatUpdate, TaskLease
      <4> QED BY <4>1, <4>2
    <3>4. ASSUME NEW t, NEW name,
                 InitializeState(w, name, t) \/ CompareAndSwap(w, name, t)
          PROVE  Fenced
      BY <2>1, <3>1, <3>4 DEF InitializeState, CompareAndSwap
    <3>5. ASSUME NEW t, NEW ttl, HeartbeatRead(w, ttl, t) \/ RequireCurrent(w, t)
          PROVE  Fenced
      BY <3>1, <3>5 DEF HeartbeatRead, RequireCurrent, rows
    <3>6. CASE HeartbeatReread(w)
      BY <3>1, <3>6 DEF HeartbeatReread, rows
    <3> QED BY <2>3, <3>1, <3>2, <3>3, <3>4, <3>5, <3>6 DEF Operation
  <2> QED BY <2>2, <2>3 DEF Next
<1> QED BY <1>1, Inductive, PTL DEF Spec, OnlyNewestGrantWrites
=============================================================================
