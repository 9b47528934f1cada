-------------------------- MODULE OperationRuntime --------------------------
(***************************************************************************)
(* OperationRuntime.execute and its IdempotencyLedger                       *)
(* (core/operations/runtime_v1.py, ledger_v1.py, invoke_v1.py): threads of   *)
(* one process run operations that carry an idempotency key.  The first     *)
(* caller of a key reserves it and runs the handler; callers with the same  *)
(* request wait on one condition variable, shared by all keys, until the    *)
(* result is stored or their own deadline passes.                          *)
(*                                                                         *)
(* What runs under the condition's lock is one action, up to the wait that  *)
(* releases it.  A thread that wait() put to sleep is "asleep"; notify_all   *)
(* or its timeout makes it "awake", and it evaluates the loop again when it *)
(* has the lock back.  The handler runs without the lock; it may return     *)
(* anything, raise, hang, or end its thread with an exception that is no    *)
(* Exception (KeyboardInterrupt, SystemExit), which nothing catches.        *)
(***************************************************************************)
EXTENDS OperationResult

CONSTANTS
    Thread,
    Outcome,   \* what handlers return
    MaxNow,    \* bound: the monotonic clock
    None       \* no record, no request, no reply

ASSUME OutcomeAssumption == Outcome \subseteq HandlerOutcome
ASSUME NowAssumption == MaxNow \in Nat
ASSUME NoneAssumption == None \notin Request \cup Result

VARIABLES
    now,      \* time.monotonic()
    records,  \* records[k]: the ledger's record of k, or none
    call,     \* call[t]: the execute call t is in or was in last
    runs      \* runs[k]: how often a handler was started under k (history)

vars == <<now, records, call, runs>>

NoRecord == [digest |-> None, state |-> "none", result |-> None]
Record == {NoRecord} \cup [digest : Request, state : {"running"}, result : {None}]
                     \cup [digest : Request, state : {"done"}, result : Result]

(* reply is what execute returned, result what it is about to store; head   *)
(* is forgotten once it is no longer needed.                                *)
Call == [pc : {"idle", "reserve", "asleep", "awake", "decide", "handler", "complete"},
         request : Request \cup {None}, head : Head \cup {None}, deadline : Nat,
         result : Result \cup {None}, reply : Result \cup {None}]

Idle == [pc |-> "idle", request |-> None, head |-> None, deadline |-> 0,
         result |-> None, reply |-> None]

TypeOK ==
    /\ now \in Nat
    /\ records \in [Key -> Record]
    /\ call \in [Thread -> Call]
    /\ runs \in [Key -> Nat]
    /\ \A t \in Thread : call[t].pc # "idle" => call[t].request # None
    /\ \A t \in Thread : call[t].pc = "complete" => call[t].result # None

Init ==
    /\ now = 0
    /\ records = [k \in Key |-> NoRecord]
    /\ call = [t \in Thread |-> Idle]
    /\ runs = [k \in Key |-> 0]

-----------------------------------------------------------------------------
KeyOf(t) == call[t].request.key
Expired(t) == now >= call[t].deadline

Goto(t, pc) == call' = [call EXCEPT ![t].pc = pc]

(* execute returns r. *)
Return(t, r) ==
    call' = [call EXCEPT ![t] = [Idle EXCEPT !.request = call[t].request, !.reply = r]]

Blocked(t, code) == Return(t, Plain(call[t].request, "blocked", code))

(* The part of execute before the ledger.  The caller brings the head and   *)
(* the privacy scope it runs under.                                         *)
Execute(t, request, head, scope) ==
    /\ call[t].pc = "idle"
    /\ now + request.timeout <= MaxNow
    /\ call' = [call EXCEPT ![t] =
          IF request.scope = scope
          THEN [Idle EXCEPT !.pc = "reserve", !.request = request, !.head = head,
                            !.deadline = now + request.timeout]
          ELSE [Idle EXCEPT !.request = request,
                            !.reply = Plain(request, "blocked", "PRIVACY_SCOPE_MISMATCH")]]
    /\ UNCHANGED <<now, records, runs>>

(* Mutant of ReserveFirst: the record is looked up before the lock is taken, *)
(* so a reservation made in between is overwritten.                         *)
ReserveOver(t) ==
    /\ call[t].pc = "reserve"
    /\ records[KeyOf(t)].state \in {"none", "running"}
    /\ records' = [records EXCEPT ![KeyOf(t)] =
                     [digest |-> call[t].request, state |-> "running", result |-> None]]
    /\ Goto(t, "decide")
    /\ UNCHANGED <<now, runs>>

(* reserve finds no record of the key: the caller is to execute. *)
ReserveFirst(t) ==
    /\ call[t].pc = "reserve"
    /\ records[KeyOf(t)] = NoRecord
    /\ records' = [records EXCEPT ![KeyOf(t)] =
                     [digest |-> call[t].request, state |-> "running", result |-> None]]
    /\ Goto(t, "decide")
    /\ UNCHANGED <<now, runs>>

(* Mutant of SameDigest: the digest of the request is not compared. *)
AnyDigest(t) == records[KeyOf(t)] # NoRecord

SameDigest(t) == records[KeyOf(t)].digest = call[t].request

ReserveConflict(t) ==
    /\ call[t].pc = "reserve"
    /\ records[KeyOf(t)] # NoRecord
    /\ ~SameDigest(t)
    /\ Blocked(t, "IDEMPOTENCY_CONFLICT")
    /\ UNCHANGED <<now, records, runs>>

(* The while loop of reserve: replay, time out, or wait (again). *)
WaitLoop(t) ==
    /\ \/ call[t].pc = "reserve" /\ records[KeyOf(t)] # NoRecord /\ SameDigest(t)
       \/ call[t].pc = "awake"
    /\ \/ /\ records[KeyOf(t)].state = "done"
          /\ Return(t, records[KeyOf(t)].result)
       \/ /\ records[KeyOf(t)].state = "running"
          /\ Expired(t)
          /\ Blocked(t, "IDEMPOTENCY_IN_FLIGHT_TIMEOUT")
       \/ /\ records[KeyOf(t)].state = "running"
          /\ ~Expired(t)
          /\ call' = [call EXCEPT ![t].pc = "asleep", ![t].head = None]
    /\ UNCHANGED <<now, records, runs>>

(* Mutant of WaitTimesOut: wait() is called without a timeout. *)
WaitForever(t) ==
    /\ call[t].pc = "asleep"
    /\ records[KeyOf(t)].state = "done"
    /\ Goto(t, "awake")
    /\ UNCHANGED <<now, records, runs>>

(* wait(remaining) gives up at the deadline. *)
WaitTimesOut(t) ==
    /\ call[t].pc = "asleep"
    /\ Expired(t)
    /\ Goto(t, "awake")
    /\ UNCHANGED <<now, records, runs>>

(* A stale head is answered without the handler, and the answer is stored.  *)
Decide(t) ==
    /\ call[t].pc = "decide"
    /\ \/ /\ call[t].request.head # call[t].head
          /\ call' = [call EXCEPT ![t].pc = "complete", ![t].head = None,
                                  ![t].result = Plain(call[t].request, "blocked", "STALE_HEAD")]
          /\ UNCHANGED runs
       \/ /\ call[t].request.head = call[t].head
          /\ call' = [call EXCEPT ![t].pc = "handler", ![t].head = None]
          /\ runs' = [runs EXCEPT ![KeyOf(t)] = @ + 1]
    /\ UNCHANGED <<now, records>>

(* The handler returns an outcome; the deadline is looked at afterwards.    *)
HandlerReturns(t, outcome) ==
    /\ call[t].pc = "handler"
    /\ call' = [call EXCEPT ![t].pc = "complete",
                  ![t].result = FinalizeOutcome(call[t].request, outcome, Expired(t))]
    /\ UNCHANGED <<now, records, runs>>

(* The handler raises an Exception, or returns what finalize_outcome        *)
(* rejects: an answer without effects is stored, whatever the handler did.   *)
HandlerFails(t) ==
    /\ call[t].pc = "handler"
    /\ call' = [call EXCEPT ![t].pc = "complete",
                            ![t].result = Plain(call[t].request, "failure", "HANDLER_ERROR")]
    /\ UNCHANGED <<now, records, runs>>

(* Mutant of HandlerAborts: complete runs in a finally, without a result.   *)
HandlerAbortsStoring(t) ==
    /\ call[t].pc = "handler"
    /\ Goto(t, "complete")
    /\ UNCHANGED <<now, records, runs>>

(* A BaseException leaves execute without complete: the key stays running.  *)
HandlerAborts(t) ==
    /\ call[t].pc = "handler"
    /\ call' = [call EXCEPT ![t] = [Idle EXCEPT !.request = call[t].request]]
    /\ UNCHANGED <<now, records, runs>>

(* Mutant of Notified: notify() in place of notify_all() wakes one waiter. *)
NotifiedOne(t) ==
    LET asleep == {u \in Thread : call[u].pc = "asleep"}
    IN  IF asleep = {} THEN {} ELSE {CHOOSE u \in asleep : TRUE}

(* The threads notify_all wakes. *)
Notified(t) == {u \in Thread : call[u].pc = "asleep"}

(* complete: store, wake every waiter of every key, and return. *)
Complete(t) ==
    /\ call[t].pc = "complete"
    /\ records[KeyOf(t)].state = "running"
    /\ records' = [records EXCEPT ![KeyOf(t)].state = "done",
                                  ![KeyOf(t)].result = call[t].result]
    /\ call' = [u \in Thread |->
                  IF u = t
                  THEN [Idle EXCEPT !.request = call[t].request, !.reply = call[t].result]
                  ELSE IF u \in Notified(t) THEN [call[u] EXCEPT !.pc = "awake"]
                  ELSE call[u]]
    /\ UNCHANGED <<now, runs>>

Tick ==
    /\ now < MaxNow
    /\ now' = now + 1
    /\ UNCHANGED <<records, call, runs>>

(* What the runtime itself does for t; the rest is up to handler and caller. *)
Step(t) ==
    \/ ReserveFirst(t) \/ ReserveConflict(t) \/ WaitLoop(t) \/ WaitTimesOut(t)
    \/ Decide(t) \/ Complete(t)

Handler(t) ==
    \/ \E o \in Outcome : HandlerReturns(t, o)
    \/ HandlerFails(t)
    \/ HandlerAborts(t)

Next ==
    \/ Tick
    \/ \E t \in Thread :
          \/ Step(t)
          \/ Handler(t)
          \/ \E q \in Request, h \in Head, s \in Scope : Execute(t, q, h, s)

(* Threads are scheduled and the clock runs; handlers owe nothing. *)
Fairness == WF_vars(Tick) /\ \A t \in Thread : WF_vars(Step(t))

Spec == Init /\ [][Next]_vars
FairSpec == Spec /\ Fairness
-----------------------------------------------------------------------------
(* OperationRuntime promises at most one handler run per idempotency key,   *)
(* whatever callers race, time out, retry or die: a key is run again        *)
(* neither by a caller whose wait timed out nor after an abort.             *)
OneRunPerKey == \A k \in Key : runs[k] <= 1

Unstored == {"PRIVACY_SCOPE_MISMATCH", "IDEMPOTENCY_CONFLICT", "IDEMPOTENCY_IN_FLIGHT_TIMEOUT"}

(* Exact replay: every answer that is not a refusal is the one result       *)
(* stored for exactly that request, now and for ever, so any two callers    *)
(* of a key that get an answer get the same; and a success among them is    *)
(* honest: its effects were declared, its evidence is there, and a handler   *)
(* ran.                                                                     *)
RepliesAgree ==
    \A t \in Thread :
        LET r == call[t].reply
        IN  r # None /\ r.errors \cap Unstored = {} =>
              /\ records[r.request.key] = [digest |-> call[t].request, state |-> "done",
                                           result |-> r]
              /\ ValidResult(r)
              /\ r.status = "success" => runs[r.request.key] = 1

(* No lost wake-up: a thread sleeps only while the record it waits for is   *)
(* running.  The check of the record, the decision to sleep and the notify  *)
(* of complete are three steps of two threads.                              *)
NoLostWakeup ==
    \A t \in Thread : call[t].pc = "asleep" => records[KeyOf(t)].state = "running"

(* A caller that waits for another caller's handler returns, even when that *)
(* handler hangs or its thread died without completing.                     *)
WaitersReturn ==
    \A t \in Thread : call[t].pc \in {"asleep", "awake"} ~> call[t].pc = "idle"
=============================================================================
