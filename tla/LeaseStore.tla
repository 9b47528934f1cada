----------------------------- MODULE LeaseStore -----------------------------
(***************************************************************************)
(* LeaseStore (core/night_shift/leases.py): single-owner leases on one      *)
(* task, with fencing tokens, and the versioned task state they protect,   *)
(* in a SQLite file that several workers open.                             *)
(*                                                                         *)
(* acquire, initialize_state and compare_and_swap_state run in one BEGIN    *)
(* IMMEDIATE transaction and are one action each.  heartbeat is a read, a   *)
(* conditional UPDATE and a second read, each with its own connection, and  *)
(* is three actions.  Tasks are independent rows, so one task stands for    *)
(* all of them.                                                            *)
(*                                                                         *)
(* The store never reads a clock: every call brings the caller's now_epoch, *)
(* which may be old when the transaction starts (the caller waited) and    *)
(* may be ahead of real time (the caller's clock is wrong).                 *)
(***************************************************************************)
EXTENDS Naturals, FiniteSets

CONSTANTS
    Worker,
    LeaseId,     \* lease ids callers choose; nothing keeps them from reusing one
    StateName,   \* the states a task can be put in
    Ttl,         \* the lease durations callers ask for
    MaxDelay,    \* how old a caller's now_epoch may be
    MaxAhead,    \* how far a worker's clock may be ahead
    MaxNow,      \* bound: real time
    MaxToken,    \* bound: fencing tokens issued
    MaxVersion,  \* bound: row versions
    Nil          \* no row, no lease held

(* Tokens and versions count from 1, and so does every expiry.              *)
Positive == Nat \ {0}

TaskLease == [id : LeaseId, worker : Worker, token : Positive, expires : Positive,
              version : Positive]
TaskState == [name : StateName, version : Positive, token : Positive]

ASSUME TtlAssumption == Ttl \subseteq Positive
ASSUME ClockAssumption == MaxDelay \in Nat /\ MaxAhead \in Nat
ASSUME BoundAssumption == MaxNow \in Nat /\ MaxToken \in Nat /\ MaxVersion \in Nat
ASSUME NilAssumption == Nil \notin TaskLease \cup TaskState

VARIABLES
    now,      \* real time
    ahead,    \* ahead[w]: how far w's clock is ahead of it
    counter,  \* lease_counters.last_fencing_token, 0 before the first
    lease,    \* the row of leases
    state,    \* the row of task_states
    held,     \* held[w]: the TaskLease w was given last and still works under
    seen,     \* seen[w]: the TaskState w read last
    pc,       \* pc[w]: the step of w's heartbeat, or idle
    beat      \* beat[w]: version read, new expiry and epoch of that heartbeat

rows  == <<counter, lease, state>>
local == <<held, seen, pc, beat>>
vars  == <<now, ahead, counter, lease, state, held, seen, pc, beat>>

NoBeat == [version |-> 0, expires |-> 0, epoch |-> 0]

TypeOK ==
    /\ now \in Nat
    /\ ahead \in [Worker -> 0..MaxAhead]
    /\ counter \in Nat
    /\ lease \in TaskLease \cup {Nil}
    /\ state \in TaskState \cup {Nil}
    /\ held \in [Worker -> TaskLease \cup {Nil}]
    /\ seen \in [Worker -> TaskState \cup {Nil}]
    /\ pc \in [Worker -> {"idle", "update", "reread"}]
    /\ beat \in [Worker -> [version : Nat, expires : Nat, epoch : Nat]]

Init ==
    /\ now = 0
    /\ ahead \in [Worker -> 0..MaxAhead]
    /\ counter = 0
    /\ lease = Nil
    /\ state = Nil
    /\ held = [w \in Worker |-> Nil]
    /\ seen = [w \in Worker |-> Nil]
    /\ pc = [w \in Worker |-> "idle"]
    /\ beat = [w \in Worker |-> NoBeat]

-----------------------------------------------------------------------------
(* The now_epoch a call of w may carry. *)
Epochs(w) == {t \in 0..(now + ahead[w]) : now <= t + MaxDelay}

(* acquire's test under its write lock. *)
Free(t) == lease # Nil => lease.expires <= t

(* Mutant of Matches: only the lease id is compared. *)
MatchesId(l) == lease # Nil /\ l # Nil /\ lease.id = l.id

(* The row still carries the lease id and fencing token of l. *)
Matches(l) == lease # Nil /\ l # Nil /\ lease.id = l.id /\ lease.token = l.token

(* The checks of require_current, and those inside both state writes. *)
Current(l, t) == Matches(l) /\ t < lease.expires

(* A call of w that was refused: w knows that its lease is gone. *)
Refused(w) ==
    /\ held' = [held EXCEPT ![w] = Nil]
    /\ pc' = [pc EXCEPT ![w] = "idle"]
    /\ beat' = [beat EXCEPT ![w] = NoBeat]
    /\ UNCHANGED <<now, ahead, rows, seen>>

-----------------------------------------------------------------------------
(* Mutant of Acquire: a takeover reuses the token of the expired lease. *)
AcquireReusingToken(w, l, ttl, t) ==
    /\ pc[w] = "idle"
    /\ Free(t)
    /\ counter' = IF lease = Nil THEN 1 ELSE counter
    /\ lease' = [id |-> l, worker |-> w, token |-> counter', expires |-> t + ttl,
                 version |-> IF lease = Nil THEN 1 ELSE lease.version + 1]
    /\ lease'.version <= MaxVersion
    /\ held' = [held EXCEPT ![w] = lease']
    /\ UNCHANGED <<now, ahead, state, seen, pc, beat>>

Acquire(w, l, ttl, t) ==
    /\ pc[w] = "idle"
    /\ counter < MaxToken
    /\ Free(t)
    /\ counter' = counter + 1
    /\ lease' = [id |-> l, worker |-> w, token |-> counter + 1, expires |-> t + ttl,
                 version |-> IF lease = Nil THEN 1 ELSE lease.version + 1]
    /\ held' = [held EXCEPT ![w] = lease']
    /\ UNCHANGED <<now, ahead, state, seen, pc, beat>>

(* require_current as a call of its own: it hands out the row again. *)
RequireCurrent(w, t) ==
    /\ pc[w] = "idle"
    /\ held[w] # Nil
    /\ \/ /\ Current(held[w], t)
          /\ held' = [held EXCEPT ![w] = lease]
          /\ UNCHANGED <<now, ahead, rows, seen, pc, beat>>
       \/ /\ ~Current(held[w], t)
          /\ Refused(w)

(* heartbeat's first read. *)
HeartbeatRead(w, ttl, t) ==
    /\ pc[w] = "idle"
    /\ held[w] # Nil
    /\ \/ /\ Current(held[w], t)
          /\ pc' = [pc EXCEPT ![w] = "update"]
          /\ beat' = [beat EXCEPT ![w] = [version |-> lease.version,
                                          expires |-> t + ttl, epoch |-> t]]
          /\ UNCHANGED <<now, ahead, rows, held, seen>>
       \/ /\ ~Current(held[w], t)
          /\ Refused(w)

(* Mutant of SameVersion: the UPDATE's WHERE clause is the task id alone. *)
AnyVersion(w) == lease # Nil

(* The WHERE clause of heartbeat's UPDATE.  Expiry is not looked at again. *)
SameVersion(w) == Matches(held[w]) /\ lease.version = beat[w].version

HeartbeatUpdate(w) ==
    /\ pc[w] = "update"
    /\ \/ /\ SameVersion(w)
          /\ lease.version < MaxVersion
          /\ lease' = [lease EXCEPT !.expires = beat[w].expires, !.version = @ + 1]
          /\ pc' = [pc EXCEPT ![w] = "reread"]
          /\ UNCHANGED <<now, ahead, counter, state, held, seen, beat>>
       \/ /\ ~SameVersion(w)
          /\ Refused(w)

(* heartbeat returns the row it reads after the UPDATE committed. *)
HeartbeatReread(w) ==
    /\ pc[w] = "reread"
    /\ \/ /\ Current(held[w], beat[w].epoch)
          /\ held' = [held EXCEPT ![w] = lease]
          /\ pc' = [pc EXCEPT ![w] = "idle"]
          /\ beat' = [beat EXCEPT ![w] = NoBeat]
          /\ UNCHANGED <<now, ahead, rows, seen>>
       \/ /\ ~Current(held[w], beat[w].epoch)
          /\ Refused(w)

(* Mutant of InitializeState: versions start at 0, which no swap may expect. *)
InitializeAtZero(w, name, t) ==
    /\ pc[w] = "idle"
    /\ held[w] # Nil
    /\ Current(held[w], t)
    /\ state = Nil
    /\ state' = [name |-> name, version |-> 0, token |-> held[w].token]
    /\ seen' = [seen EXCEPT ![w] = state']
    /\ UNCHANGED <<now, ahead, counter, lease, held, pc, beat>>

(* The INSERT of initialize_state, under the same lock as its lease check. *)
InitializeState(w, name, t) ==
    /\ pc[w] = "idle"
    /\ held[w] # Nil
    /\ \/ /\ Current(held[w], t)
          /\ state = Nil
          /\ state' = [name |-> name, version |-> 1, token |-> held[w].token]
          /\ seen' = [seen EXCEPT ![w] = state']
          /\ UNCHANGED <<now, ahead, counter, lease, held, pc, beat>>
       \/ /\ ~Current(held[w], t)
          /\ Refused(w)

(* Mutant of CompareAndSwap: the UPDATE does not compare the version. *)
SwapBlindly(w, name, t) ==
    /\ pc[w] = "idle"
    /\ held[w] # Nil
    /\ seen[w] # Nil
    /\ state # Nil
    /\ Current(held[w], t)
    /\ state.version < MaxVersion
    /\ state' = [name |-> name, version |-> state.version + 1, token |-> held[w].token]
    /\ seen' = [seen EXCEPT ![w] = state']
    /\ UNCHANGED <<now, ahead, counter, lease, held, pc, beat>>

(* Lease check and version check are one transaction.  A version conflict   *)
(* raises and leaves the lease with the worker.                             *)
CompareAndSwap(w, name, t) ==
    /\ pc[w] = "idle"
    /\ held[w] # Nil
    /\ seen[w] # Nil
    /\ \/ /\ Current(held[w], t)
          /\ state # Nil
          /\ state.version = seen[w].version
          /\ state.version < MaxVersion
          /\ state' = [name |-> name, version |-> state.version + 1, token |-> held[w].token]
          /\ seen' = [seen EXCEPT ![w] = state']
          /\ UNCHANGED <<now, ahead, counter, lease, held, pc, beat>>
       \/ /\ ~Current(held[w], t)
          /\ Refused(w)

GetState(w) ==
    /\ pc[w] = "idle"
    /\ seen' = [seen EXCEPT ![w] = state]
    /\ UNCHANGED <<now, ahead, rows, held, pc, beat>>

(* The worker's process ends; its memory is gone, the rows stay.            *)
Crash(w) ==
    /\ held' = [held EXCEPT ![w] = Nil]
    /\ seen' = [seen EXCEPT ![w] = Nil]
    /\ pc' = [pc EXCEPT ![w] = "idle"]
    /\ beat' = [beat EXCEPT ![w] = NoBeat]
    /\ UNCHANGED <<now, ahead, rows>>

Tick ==
    /\ now < MaxNow
    /\ now' = now + 1
    /\ UNCHANGED <<ahead, rows, local>>

Operation(w) ==
    \/ \E t \in Epochs(w) :
          \/ \E l \in LeaseId, ttl \in Ttl : Acquire(w, l, ttl, t)
          \/ \E ttl \in Ttl : HeartbeatRead(w, ttl, t)
          \/ \E name \in StateName : InitializeState(w, name, t) \/ CompareAndSwap(w, name, t)
          \/ RequireCurrent(w, t)
    \/ HeartbeatUpdate(w)
    \/ HeartbeatReread(w)
    \/ GetState(w)
    \/ Crash(w)

Next == Tick \/ \E w \in Worker : Operation(w)

Spec == Init /\ [][Next]_vars
-----------------------------------------------------------------------------
(* A fencing token belongs to one grant: no two workers ever work under the *)
(* same one, however leases expire, are renewed and are taken over, and     *)
(* none is newer than the row.                                              *)
TokensDistinct ==
    \A w \in Worker : held[w] # Nil =>
        /\ lease # Nil
        /\ held[w].token <= lease.token
        /\ \A v \in Worker \ {w} : held[v] # Nil => held[v].token # held[w].token

(* Whatever the clocks say, a step changes the task state only with the     *)
(* newest token ever issued, and renews the lease only for the grant that   *)
(* has it: a superseded worker can change neither (acquire is the only step *)
(* that issues a token).                                                    *)
OnlyNewestGrantWrites ==
    [][/\ state' # state => state'.token = counter
       /\ lease' # lease => /\ lease'.token = counter'
                            /\ counter' = counter => /\ lease'.id = lease.id
                                                     /\ lease'.worker = lease.worker
      ]_vars

(* No write is lost: the worker that changes an existing task state had     *)
(* read exactly the content it overwrites, although the swap compares the   *)
(* version number alone, and it knows the new content.                      *)
NoLostUpdate ==
    [][state # Nil /\ state' # state =>
          \E w \in Worker : seen[w] = state /\ seen'[w] = state'
      ]_vars

(* When no clock is ahead of real time, no two workers outside a heartbeat  *)
(* hold leases that have not expired: late calls, renewals that shorten a   *)
(* lease and takeovers in the middle of a heartbeat included.               *)
OneLiveLease ==
    (\A w \in Worker : ahead[w] = 0) =>
        \A w, v \in Worker :
            /\ held[w] # Nil /\ pc[w] = "idle" /\ held[w].expires > now
            /\ held[v] # Nil /\ pc[v] = "idle" /\ held[v].expires > now
            => w = v
=============================================================================
