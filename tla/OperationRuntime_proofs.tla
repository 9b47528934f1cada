----------------------- MODULE OperationRuntime_proofs -----------------------
(***************************************************************************)
(* Proofs about OperationRuntime, for any number of threads, any requests   *)
(* and handler outcomes, any bound on time.                                 *)
(*                                                                         *)
(* The invariant says who may touch a record: as long as a thread decides,  *)
(* handles or completes, its key is running under its own request, and it   *)
(* is the only such thread of the key (Owned).  From that a record that is  *)
(* done never changes again, which is what replay rests on; and the result   *)
(* a record is done with is honest because the one about to be stored was    *)
(* (StoredOK, ResultOK).  A thread that waits keeps its key bound to its     *)
(* request (WaiterOK), so what it replays answers what it asked.            *)
(***************************************************************************)
EXTENDS OperationRuntime, TLAPS

Owner(t) == call[t].pc \in {"decide", "handler", "complete"}

(* A key belongs to the one thread that executes its request. *)
Owned ==
    /\ \A t \in Thread : Owner(t) =>
          /\ records[KeyOf(t)].state = "running"
          /\ records[KeyOf(t)].digest = call[t].request
    /\ \A t, u \in Thread : Owner(t) /\ Owner(u) /\ KeyOf(t) = KeyOf(u) => t = u

(* A waiting thread's key is bound to its request. *)
WaiterOK ==
    \A t \in Thread :
        /\ call[t].pc \in {"asleep", "awake"} => records[KeyOf(t)].digest = call[t].request
        /\ call[t].pc = "asleep" => records[KeyOf(t)].state = "running"

(* The handler has not been started while the key's thread still decides.   *)
RunsOK ==
    /\ \A k \in Key : runs[k] \in {0, 1} /\ (records[k] = NoRecord => runs[k] = 0)
    /\ \A t \in Thread : call[t].pc = "decide" => runs[KeyOf(t)] = 0

Honest(r, k) ==
    /\ ValidResult(r)
    /\ r.request.key = k
    /\ r.status = "success" => runs[k] = 1

(* A bound key is bound to a request of that key, and its result answers it. *)
StoredOK ==
    \A k \in Key :
        /\ records[k].state # "none" => records[k].digest.key = k
        /\ records[k].state = "done" => /\ records[k].result.request = records[k].digest
                                        /\ Honest(records[k].result, k)

(* What is about to be stored. *)
ResultOK ==
    \A t \in Thread :
        /\ call[t].pc = "handler" => runs[KeyOf(t)] = 1
        /\ call[t].pc = "complete" => /\ call[t].result.request = call[t].request
                                      /\ Honest(call[t].result, KeyOf(t))

IInv == TypeOK /\ Owned /\ WaiterOK /\ RunsOK /\ StoredOK /\ ResultOK /\ RepliesAgree

-----------------------------------------------------------------------------
(* Whatever a handler returns, finalize_outcome makes a result of it that   *)
(* the response validation accepts: a handler that reports an undeclared    *)
(* effect, lacks evidence or is late is never a success.                    *)
LEMMA FinalizeValid ==
    ASSUME NEW q \in Request, NEW o \in HandlerOutcome, NEW expired \in BOOLEAN
    PROVE  /\ FinalizeOutcome(q, o, expired) \in Result
           /\ ValidResult(FinalizeOutcome(q, o, expired))
           /\ FinalizeOutcome(q, o, expired).request = q
<1> DEFINE policy == {c \in PolicyCode :
                        \/ c = "UNDECLARED_SIDE_EFFECT" /\ Undeclared(q, o)
                        \/ c = "EVIDENCE_MISSING" /\ Missing(q, o)
                        \/ c = "TIMEOUT" /\ expired}
           errors == o.errors \cup policy
           status == CASE policy # {} -> Degraded(o)
                       [] policy = {} /\ o.effects # {}
                            /\ o.status \in {"failure", "blocked", "skipped"} -> "partial"
                       [] policy = {} /\ o.status = "success" /\ errors # {} -> Degraded(o)
                       [] OTHER -> o.status
<1>1. FinalizeOutcome(q, o, expired) =
        [request |-> q, status |-> status, effects |-> o.effects, kinds |-> o.kinds,
         sha |-> o.sha, errors |-> errors]
  BY DEF FinalizeOutcome
<1>2. /\ o.status \in Status /\ o.effects \subseteq Effect /\ o.kinds \subseteq Kind
      /\ o.sha \in BOOLEAN /\ o.errors \subseteq {"REPORTED"}
  BY DEF HandlerOutcome
<1>3. q.allowed \subseteq Effect /\ q.required \subseteq Kind
  BY RequestAssumption DEF RequestEnvelope
<1>4. Degraded(o) = IF o.effects # {} THEN "partial" ELSE "failure"
  BY DEF Degraded
<1>5. CASE policy # {}
  <2>1. status = Degraded(o)
    BY <1>5
  <2>2. status \in Status /\ status # "success" /\ (o.effects # {} => status = "partial")
    BY <2>1, <1>4 DEF Status
  <2>3. errors \subseteq ErrorCode
    BY <1>2 DEF ErrorCode
  <2> HIDE DEF policy, errors, status
  <2> QED BY <1>1, <1>2, <2>2, <2>3 DEF Result, ValidResult
<1>6. CASE policy = {}
  <2>1. ~Undeclared(q, o) /\ ~Missing(q, o)
    BY <1>6 DEF PolicyCode
  <2>2. /\ o.effects \subseteq q.allowed /\ q.required \subseteq o.kinds
        /\ "commit" \in o.effects => o.sha
    BY <2>1, <1>2, <1>3 DEF Undeclared, Missing
  <2>3. errors = o.errors
    BY <1>6
  <2>4. CASE o.effects # {} /\ o.status \in {"failure", "blocked", "skipped"}
    <3>1. status = "partial"
      BY <2>4, <1>6
    <3> HIDE DEF policy, errors, status
    <3> QED BY <1>1, <1>2, <2>3, <3>1 DEF Result, ValidResult, Status, ErrorCode
  <2>5. CASE o.status = "success" /\ errors # {}
    <3>1. status = Degraded(o)
      BY <2>5, <1>6
    <3> HIDE DEF policy, errors, status
    <3> QED BY <1>1, <1>2, <1>4, <2>3, <3>1 DEF Result, ValidResult, Status, ErrorCode
  <2>6. CASE /\ ~(o.effects # {} /\ o.status \in {"failure", "blocked", "skipped"})
             /\ ~(o.status = "success" /\ errors # {})
    <3>1. status = o.status
      BY <2>6, <1>6
    <3> HIDE DEF policy, errors, status
    <3> QED BY <1>1, <1>2, <2>2, <2>3, <2>6, <3>1 DEF Result, ValidResult, Status, ErrorCode
  <2> QED BY <2>4, <2>5, <2>6
<1> QED BY <1>5, <1>6

(* A blocked or failed answer is a result, and honest by having no effects. *)
LEMMA PlainValid ==
    ASSUME NEW q \in Request, NEW status \in {"blocked", "failure"}, NEW code \in ErrorCode
    PROVE  /\ Plain(q, status, code) \in Result
           /\ ValidResult(Plain(q, status, code))
           /\ Plain(q, status, code).request = q
           /\ Plain(q, status, code).status # "success"
           /\ Plain(q, status, code).errors = {code}
BY DEF Plain, Result, ValidResult, Status


-----------------------------------------------------------------------------
(* What t's new call c must satisfy when a step changes nothing else.       *)
CallOK(t, c) ==
    /\ c \in Call
    /\ c.pc # "idle" => c.request \in Request
    /\ c.pc \in {"decide", "handler", "complete"} => Owner(t) /\ c.request = call[t].request
    /\ c.pc \notin {"decide", "handler"}
    /\ c.pc \in {"asleep", "awake"} => records[c.request.key].digest = c.request
    /\ c.pc = "asleep" => records[c.request.key].state = "running"
    /\ c.pc = "complete" => /\ c.result \in Result
                            /\ c.result.request = c.request
                            /\ Honest(c.result, c.request.key)
    /\ c.reply # None /\ c.reply.errors \cap Unstored = {} =>
         /\ records[c.reply.request.key] = [digest |-> c.request, state |-> "done",
                                            result |-> c.reply]
         /\ ValidResult(c.reply)
         /\ c.reply.status = "success" => runs[c.reply.request.key] = 1

LEMMA CallStep ==
    ASSUME IInv, NEW t \in Thread, NEW c, CallOK(t, c),
           call' = [call EXCEPT ![t] = c], UNCHANGED <<now, records, runs>>
    PROVE  IInv'
<1>1. /\ call'[t] = c
      /\ \A u \in Thread : u # t => call'[u] = call[u]
      /\ records' = records /\ runs' = runs /\ now' = now
      /\ call' \in [Thread -> Call]
  BY DEF IInv, TypeOK, CallOK
<1>2. TypeOK'
  BY <1>1, NoneAssumption DEF IInv, TypeOK, CallOK
<1>3. Owned'
  BY <1>1 DEF IInv, Owned, Owner, KeyOf, CallOK
<1>4. WaiterOK'
  BY <1>1 DEF IInv, WaiterOK, KeyOf, CallOK
<1>5. RunsOK'
  BY <1>1 DEF IInv, RunsOK, KeyOf, CallOK
<1>6. StoredOK'
  BY <1>1 DEF IInv, StoredOK, Honest
<1>7. ResultOK'
  BY <1>1 DEF IInv, ResultOK, Honest, KeyOf, CallOK
<1>8. RepliesAgree'
  BY <1>1 DEF IInv, RepliesAgree, CallOK
<1> QED BY <1>2, <1>3, <1>4, <1>5, <1>6, <1>7, <1>8 DEF IInv

(* The request of a call that is not over, and its key. *)
LEMMA RequestOf ==
    ASSUME TypeOK, NEW t \in Thread, call[t].pc # "idle"
    PROVE  call[t].request \in Request /\ KeyOf(t) \in Key /\ call[t] \in Call
BY RequestAssumption DEF TypeOK, Call, KeyOf, RequestEnvelope

(* An answer that is no refusal is stored, under a key. *)
LEMMA ReplyStored ==
    ASSUME IInv, NEW u \in Thread, call[u].reply # None,
           call[u].reply.errors \cap Unstored = {}
    PROVE  /\ call[u].reply.request.key \in Key
           /\ records[call[u].reply.request.key].state = "done"
<1>1. call[u].reply \in Result
  BY DEF IInv, TypeOK, Call
<1>2. records[call[u].reply.request.key] =
        [digest |-> call[u].request, state |-> "done", result |-> call[u].reply]
  BY Zenon DEF IInv, RepliesAgree
<1> QED BY <1>1, <1>2, RequestAssumption DEF Result, RequestEnvelope

(* A refusal ends the call with an answer that is stored nowhere.           *)
LEMMA BlockedOK ==
    ASSUME TypeOK, NEW t \in Thread, call[t].pc # "idle", NEW code \in Unstored
    PROVE  CallOK(t, [Idle EXCEPT !.request = call[t].request,
                                  !.reply = Plain(call[t].request, "blocked", code)])
<1>1. call[t].request \in Request
  BY RequestOf
<1>2. code \in ErrorCode
  BY DEF Unstored, ErrorCode, BlockedCode
<1>3. /\ Plain(call[t].request, "blocked", code) \in Result
      /\ Plain(call[t].request, "blocked", code).errors = {code}
  BY <1>1, <1>2, PlainValid
<1> QED BY <1>1, <1>3 DEF CallOK, Call, Idle

-----------------------------------------------------------------------------
(* At first there is no record and no call.                                 *)
LEMMA InitIInv == Init => IInv
<1> SUFFICES ASSUME Init PROVE IInv
  OBVIOUS
<1>1. TypeOK
  BY DEF Init, TypeOK, Record, Call, Idle
<1> QED BY <1>1 DEF Init, IInv, Owned, Owner, WaiterOK, RunsOK, StoredOK, ResultOK, RepliesAgree,
                     NoRecord, Idle

(* A call begins, or is refused for its privacy scope. *)
LEMMA ExecuteStep ==
    ASSUME IInv, NEW t \in Thread, NEW q \in Request, NEW h \in Head, NEW s \in Scope,
           Execute(t, q, h, s)
    PROVE  IInv'
<1>1. q \in RequestEnvelope /\ now + q.timeout \in Nat
  BY RequestAssumption DEF RequestEnvelope, IInv, TypeOK
<1>2. CASE q.scope = s
  <2> DEFINE c == [Idle EXCEPT !.pc = "reserve", !.request = q, !.head = h,
                               !.deadline = now + q.timeout]
  <2>1. CallOK(t, c)
    BY <1>1 DEF CallOK, Call, Idle
  <2> QED BY <1>2, <2>1, CallStep DEF Execute
<1>3. CASE q.scope # s
  <2> DEFINE c == [Idle EXCEPT !.request = q, !.reply = Plain(q, "blocked", "PRIVACY_SCOPE_MISMATCH")]
  <2>1. /\ Plain(q, "blocked", "PRIVACY_SCOPE_MISMATCH") \in Result
        /\ Plain(q, "blocked", "PRIVACY_SCOPE_MISMATCH").errors = {"PRIVACY_SCOPE_MISMATCH"}
    BY PlainValid DEF ErrorCode, BlockedCode
  <2>2. CallOK(t, c)
    BY <1>1, <2>1 DEF CallOK, Call, Idle, Unstored
  <2> QED BY <1>3, <2>2, CallStep DEF Execute
<1> QED BY <1>2, <1>3

(* The first caller of a key becomes its owner: no other thread owns, waits  *)
(* for or was answered from a key without a record.                         *)
LEMMA ReserveFirstStep ==
    ASSUME IInv, NEW t \in Thread, ReserveFirst(t)
    PROVE  IInv'
<1> DEFINE k == KeyOf(t)
           new == [digest |-> call[t].request, state |-> "running", result |-> None]
<1>1. call[t].pc = "reserve" /\ records[k] = NoRecord
  BY DEF ReserveFirst
<1>2. call[t].request \in Request /\ k \in Key /\ k = call[t].request.key /\ call[t] \in Call
  BY <1>1, RequestOf DEF IInv, KeyOf
<1>3. /\ records' = [records EXCEPT ![k] = new]
      /\ call' = [call EXCEPT ![t].pc = "decide"]
      /\ runs' = runs /\ now' = now
  BY DEF ReserveFirst, Goto
<1>4. /\ records'[k] = new
      /\ \A j \in Key : j # k => records'[j] = records[j]
      /\ call'[t] = [call[t] EXCEPT !.pc = "decide"]
      /\ \A u \in Thread : u # t => call'[u] = call[u]
  BY <1>2, <1>3 DEF IInv, TypeOK
<1>5. new \in Record /\ [call[t] EXCEPT !.pc = "decide"] \in Call
  BY <1>2 DEF Record, Call
<1>6. TypeOK'
  <2>1. records' \in [Key -> Record] /\ call' \in [Thread -> Call]
    BY <1>2, <1>3, <1>5 DEF IInv, TypeOK
  <2> QED BY <2>1, <1>1, <1>3, <1>4 DEF IInv, TypeOK
<1>7. \A u \in Thread : call[u].pc # "idle" => KeyOf(u) \in Key
  BY RequestOf DEF IInv
<1>8. \A u \in Thread : Owner(u) \/ call[u].pc \in {"asleep", "awake"} => KeyOf(u) # k
  <2>1. \A u \in Thread : Owner(u) => KeyOf(u) # k
    BY <1>1 DEF IInv, Owned, NoRecord
  <2>2. ASSUME NEW u \in Thread, call[u].pc \in {"asleep", "awake"} PROVE KeyOf(u) # k
    <3>1. call[u].request \in Request /\ records[KeyOf(u)].digest = call[u].request
      BY <2>2, RequestOf DEF IInv, WaiterOK
    <3> QED BY <3>1, <1>1, NoneAssumption DEF NoRecord
  <2> QED BY <2>1, <2>2
<1>9. /\ \A u \in Thread : KeyOf(u)' = KeyOf(u) /\ call'[u].request = call[u].request
      /\ call'[t].pc = "decide"
  BY <1>2, <1>4 DEF KeyOf, Call
<1>10. \A u \in Thread : u # t => (Owner(u)' <=> Owner(u))
  BY <1>4 DEF Owner
<1>11. Owned'
  <2>1. ASSUME NEW u \in Thread, Owner(u)'
        PROVE  records'[KeyOf(u)'].state = "running" /\ records'[KeyOf(u)'].digest = call'[u].request
    <3>1. CASE u = t
      BY <3>1, <1>4, <1>9
    <3>2. CASE u # t
      <4>1. Owner(u) /\ KeyOf(u) # k /\ KeyOf(u) \in Key
        BY <2>1, <3>2, <1>7, <1>8, <1>10 DEF Owner
      <4> QED BY <4>1, <1>4, <1>9 DEF IInv, Owned
    <3> QED BY <3>1, <3>2
  <2>2. ASSUME NEW u \in Thread, NEW v \in Thread, Owner(u)', Owner(v)', KeyOf(u)' = KeyOf(v)'
        PROVE  u = v
    BY <2>2, <1>8, <1>9, <1>10 DEF IInv, Owned
  <2> QED BY <2>1, <2>2 DEF Owned
<1>12. WaiterOK'
  BY <1>4, <1>5, <1>7, <1>8, <1>9 DEF IInv, WaiterOK, Call
<1>13. RunsOK'
  BY <1>1, <1>2, <1>3, <1>4, <1>7, <1>9, NoneAssumption DEF IInv, RunsOK, NoRecord
<1>14. StoredOK'
  BY <1>2, <1>3, <1>4 DEF IInv, StoredOK, Honest
<1>15. ResultOK'
  BY <1>3, <1>4, <1>9 DEF IInv, ResultOK, Honest
<1>16. RepliesAgree'
  <2> SUFFICES ASSUME NEW u \in Thread, call[u].reply # None,
                      call[u].reply.errors \cap Unstored = {}
               PROVE  records'[call[u].reply.request.key] = records[call[u].reply.request.key]
    BY <1>2, <1>3, <1>4 DEF IInv, RepliesAgree, Call
  <2> QED BY ReplyStored, <1>1, <1>4 DEF NoRecord
<1> QED BY <1>6, <1>11, <1>12, <1>13, <1>14, <1>15, <1>16 DEF IInv

(* A conflicting request is refused. *)
LEMMA ReserveConflictStep ==
    ASSUME IInv, NEW t \in Thread, ReserveConflict(t)
    PROVE  IInv'
<1> DEFINE c == [Idle EXCEPT !.request = call[t].request,
                             !.reply = Plain(call[t].request, "blocked", "IDEMPOTENCY_CONFLICT")]
<1>1. CallOK(t, c)
  BY BlockedOK DEF ReserveConflict, Unstored, IInv
<1> HIDE DEF c
<1> QED BY <1>1, CallStep DEF ReserveConflict, Blocked, Return, c

(* A caller replays the stored result, gives up, or sleeps (again).         *)
LEMMA WaitLoopStep ==
    ASSUME IInv, NEW t \in Thread, WaitLoop(t)
    PROVE  IInv'
<1> DEFINE k == KeyOf(t)
<1>1. /\ call[t].request \in Request /\ k \in Key /\ k = call[t].request.key
      /\ call[t] \in Call /\ call[t].pc \in {"reserve", "awake"}
  BY RequestOf DEF IInv, WaitLoop, KeyOf
<1>2. records[k].digest = call[t].request /\ records[k] \in Record
  BY <1>1 DEF IInv, WaitLoop, WaiterOK, SameDigest, TypeOK
<1>3. CASE records[k].state = "done" /\ Return(t, records[k].result)
  <2> DEFINE c == [Idle EXCEPT !.request = call[t].request, !.reply = records[k].result]
  <2>1. /\ records[k] = [digest |-> call[t].request, state |-> "done",
                         result |-> records[k].result]
        /\ records[k].result \in Result
    BY <1>2, <1>3 DEF Record, NoRecord
  <2>2. records[k].result.request = call[t].request /\ Honest(records[k].result, k)
    BY <1>1, <1>2, <1>3 DEF IInv, StoredOK
  <2>3. CallOK(t, c)
    BY <1>1, <2>1, <2>2 DEF CallOK, Call, Idle, Honest
  <2> QED BY <1>3, <2>3, CallStep DEF WaitLoop, Return
<1>4. CASE Blocked(t, "IDEMPOTENCY_IN_FLIGHT_TIMEOUT")
  <2> DEFINE c == [Idle EXCEPT !.request = call[t].request,
                      !.reply = Plain(call[t].request, "blocked", "IDEMPOTENCY_IN_FLIGHT_TIMEOUT")]
  <2>1. CallOK(t, c)
    BY <1>1, BlockedOK DEF Unstored, IInv
  <2> HIDE DEF c
  <2> QED BY <1>4, <2>1, CallStep DEF WaitLoop, Blocked, Return, c
<1>5. CASE /\ records[k].state = "running"
           /\ call' = [call EXCEPT ![t].pc = "asleep", ![t].head = None]
  <2> DEFINE c == [call[t] EXCEPT !.pc = "asleep", !.head = None]
  <2>1. c \in Call /\ call' = [call EXCEPT ![t] = c]
    BY <1>1, <1>5 DEF Call, IInv, TypeOK
  <2>2. CallOK(t, c)
    BY <1>1, <1>2, <1>5, <2>1 DEF CallOK, Call, IInv, RepliesAgree
  <2> QED BY <2>1, <2>2, CallStep DEF WaitLoop
<1> QED BY <1>3, <1>4, <1>5 DEF WaitLoop

(* A sleeper whose deadline has passed wakes up. *)
LEMMA WaitTimesOutStep ==
    ASSUME IInv, NEW t \in Thread, WaitTimesOut(t)
    PROVE  IInv'
<1> DEFINE c == [call[t] EXCEPT !.pc = "awake"]
<1>1. /\ call[t].pc = "asleep" /\ call[t] \in Call /\ call[t].request \in Request
      /\ records[call[t].request.key].digest = call[t].request
  BY RequestOf DEF IInv, WaitTimesOut, WaiterOK, KeyOf
<1>2. c \in Call /\ call' = [call EXCEPT ![t] = c]
  BY <1>1 DEF WaitTimesOut, Goto, Call, IInv, TypeOK
<1>3. CallOK(t, c)
  BY <1>1, <1>2 DEF CallOK, Call, IInv, RepliesAgree
<1> QED BY <1>2, <1>3, CallStep DEF WaitTimesOut

(* Storing r next: the answer to t's own request, honest. *)
LEMMA ToCompleteOK ==
    ASSUME IInv, NEW t \in Thread, Owner(t), NEW r \in Result,
           r.request = call[t].request, Honest(r, KeyOf(t)),
           NEW h \in Head \cup {None}
    PROVE  LET c == [call[t] EXCEPT !.pc = "complete", !.head = h, !.result = r]
           IN  CallOK(t, c)
<1>1. call[t] \in Call /\ call[t].request \in Request /\ KeyOf(t) = call[t].request.key
  BY RequestOf DEF IInv, Owner, KeyOf
<1> QED BY <1>1 DEF CallOK, Call, IInv, RepliesAgree

(* A stale head is answered, or the handler is started: for the first time,  *)
(* because the key's thread was still deciding.                             *)
LEMMA DecideStep ==
    ASSUME IInv, NEW t \in Thread, Decide(t)
    PROVE  IInv'
<1> DEFINE k == KeyOf(t)
<1>1. /\ call[t].pc = "decide" /\ Owner(t) /\ k \in Key /\ k = call[t].request.key
      /\ call[t] \in Call /\ call[t].request \in Request
  BY RequestOf DEF IInv, Decide, Owner, KeyOf
<1>2. CASE call[t].request.head # call[t].head
  <2> DEFINE r == Plain(call[t].request, "blocked", "STALE_HEAD")
             c == [call[t] EXCEPT !.pc = "complete", !.head = None, !.result = r]
  <2>1. /\ r \in Result /\ ValidResult(r) /\ r.request = call[t].request
        /\ r.status # "success"
    BY <1>1, PlainValid DEF ErrorCode, BlockedCode
  <2>2. CallOK(t, c)
    <3> HIDE DEF r
    <3> QED BY <1>1, <2>1, ToCompleteOK DEF Honest
  <2>3. call' = [call EXCEPT ![t] = c]
    BY <1>2 DEF Decide, IInv, TypeOK
  <2> QED BY <1>2, <2>2, <2>3, CallStep DEF Decide
<1>3. CASE call[t].request.head = call[t].head
  <2>1. /\ call' = [call EXCEPT ![t].pc = "handler", ![t].head = None]
        /\ runs' = [runs EXCEPT ![k] = @ + 1]
        /\ records' = records /\ now' = now
    BY <1>3 DEF Decide
  <2>2. /\ call'[t] = [call[t] EXCEPT !.pc = "handler", !.head = None]
        /\ \A u \in Thread : u # t => call'[u] = call[u]
        /\ call'[t] \in Call /\ call' \in [Thread -> Call]
    BY <1>1, <2>1 DEF IInv, TypeOK, Call
  <2>3. /\ runs' \in [Key -> Nat] /\ runs[k] = 0 /\ runs'[k] = 1
        /\ \A j \in Key : j # k => runs'[j] = runs[j]
    BY <1>1, <2>1 DEF IInv, TypeOK, RunsOK
  <2>4. /\ \A u \in Thread : KeyOf(u)' = KeyOf(u)
        /\ call'[t].pc = "handler"
    BY <1>1, <2>2 DEF KeyOf, Call
  <2>5. \A u \in Thread : Owner(u)' <=> Owner(u)
    BY <1>1, <2>2, <2>4 DEF Owner
  <2>6. \A u \in Thread : call[u].pc # "idle" => KeyOf(u) \in Key
    BY RequestOf DEF IInv
  <2>7. records[k].state = "running" /\ records[k] # NoRecord
    BY <1>1 DEF IInv, Owned, NoRecord
  <2>8. TypeOK'
    BY <1>1, <2>1, <2>2, <2>3 DEF IInv, TypeOK
  <2>9. Owned'
    BY <2>1, <2>2, <2>4, <2>5 DEF IInv, Owned
  <2>10. WaiterOK'
    BY <1>1, <2>1, <2>2, <2>4 DEF IInv, WaiterOK
  <2>11. RunsOK'
    <3>1. ASSUME NEW u \in Thread, call'[u].pc = "decide" PROVE runs'[KeyOf(u)'] = 0
      <4>1. u # t /\ call[u].pc = "decide" /\ Owner(u)
        BY <3>1, <1>1, <2>2 DEF Call, Owner
      <4>2. KeyOf(u) # k
        BY <4>1, <1>1 DEF IInv, Owned
      <4> QED BY <4>1, <4>2, <2>3, <2>4, <2>6 DEF IInv, RunsOK
    <3>2. ASSUME NEW j \in Key
          PROVE  runs'[j] \in {0, 1} /\ (records'[j] = NoRecord => runs'[j] = 0)
      BY <2>1, <2>3, <2>7 DEF IInv, RunsOK
    <3> QED BY <3>1, <3>2 DEF RunsOK
  <2>12. StoredOK'
    BY <2>1, <2>3, <2>7 DEF IInv, StoredOK, Honest
  <2>13. ResultOK'
    <3> SUFFICES ASSUME NEW u \in Thread
                 PROVE  /\ call'[u].pc = "handler" => runs'[KeyOf(u)'] = 1
                        /\ call'[u].pc = "complete" =>
                              /\ call'[u].result.request = call'[u].request
                              /\ ValidResult(call'[u].result)
                              /\ call'[u].result.request.key = KeyOf(u)'
                              /\ call'[u].result.status = "success" => runs'[KeyOf(u)'] = 1
      BY DEF ResultOK, Honest
    <3>1. CASE u = t
      BY <3>1, <1>1, <2>2, <2>3, <2>4 DEF Call
    <3>2. CASE u # t /\ Owner(u)
      <4>1. KeyOf(u) # k /\ KeyOf(u) \in Key
        BY <3>2, <1>1, <2>6 DEF IInv, Owned, Owner
      <4> QED BY <3>2, <4>1, <2>2, <2>3, <2>4 DEF IInv, ResultOK, Honest
    <3>3. CASE u # t /\ ~Owner(u)
      BY <3>3, <2>2 DEF Owner
    <3> QED BY <3>1, <3>2, <3>3
  <2>14. RepliesAgree'
    <3> SUFFICES ASSUME NEW u \in Thread, call[u].reply # None,
                        call[u].reply.errors \cap Unstored = {}
                 PROVE  runs'[call[u].reply.request.key] = runs[call[u].reply.request.key]
      BY <1>1, <2>1, <2>2 DEF IInv, RepliesAgree
    <3> QED BY ReplyStored, <2>3, <2>7
  <2> QED BY <2>8, <2>9, <2>10, <2>11, <2>12, <2>13, <2>14 DEF IInv
<1> QED BY <1>2, <1>3

(* The handler ends, in one of three ways. *)
LEMMA HandlerStep ==
    ASSUME IInv, NEW t \in Thread, Handler(t)
    PROVE  IInv'
<1>1. /\ call[t].pc = "handler" /\ Owner(t) /\ KeyOf(t) \in Key
      /\ call[t] \in Call /\ call[t].request \in Request
      /\ KeyOf(t) = call[t].request.key /\ runs[KeyOf(t)] = 1
  BY RequestOf DEF IInv, Handler, HandlerReturns, HandlerFails, HandlerAborts, Owner, ResultOK, KeyOf
<1>2. ASSUME NEW r \in Result, ValidResult(r), r.request = call[t].request,
             UNCHANGED <<now, records, runs>>,
             call' = [call EXCEPT ![t].pc = "complete", ![t].result = r]
      PROVE  IInv'
  <2> DEFINE c == [call[t] EXCEPT !.pc = "complete", !.head = call[t].head, !.result = r]
  <2>1. CallOK(t, c)
    BY <1>1, <1>2, ToCompleteOK DEF Honest, Call
  <2>2. call' = [call EXCEPT ![t] = c]
    BY <1>1, <1>2 DEF IInv, TypeOK, Call
  <2> HIDE DEF c
  <2> QED BY <1>2, <2>1, <2>2, CallStep
<1>3. ASSUME NEW o \in Outcome, HandlerReturns(t, o) PROVE IInv'
  <2>1. o \in HandlerOutcome /\ Expired(t) \in BOOLEAN
    BY OutcomeAssumption DEF Expired
  <2> DEFINE r == FinalizeOutcome(call[t].request, o, Expired(t))
  <2>2. r \in Result /\ ValidResult(r) /\ r.request = call[t].request
    BY <1>1, <2>1, FinalizeValid
  <2>3. /\ call' = [call EXCEPT ![t].pc = "complete", ![t].result = r]
        /\ UNCHANGED <<now, records, runs>>
    BY <1>3 DEF HandlerReturns
  <2> HIDE DEF r
  <2> QED BY <2>2, <2>3, <1>2
<1>4. CASE HandlerFails(t)
  <2> DEFINE r == Plain(call[t].request, "failure", "HANDLER_ERROR")
  <2>1. r \in Result /\ ValidResult(r) /\ r.request = call[t].request
    BY <1>1, PlainValid DEF ErrorCode, HandlerCode
  <2>2. /\ call' = [call EXCEPT ![t].pc = "complete", ![t].result = r]
        /\ UNCHANGED <<now, records, runs>>
    BY <1>4 DEF HandlerFails
  <2> HIDE DEF r
  <2> QED BY <2>1, <2>2, <1>2
<1>5. CASE HandlerAborts(t)
  <2> DEFINE c == [Idle EXCEPT !.request = call[t].request]
  <2>1. CallOK(t, c)
    BY <1>1 DEF CallOK, Call, Idle
  <2> QED BY <2>1, <1>5, CallStep DEF HandlerAborts
<1> QED BY <1>3, <1>4, <1>5 DEF Handler

(* complete stores the owner's result and wakes every sleeper.              *)
LEMMA CompleteStep ==
    ASSUME IInv, NEW t \in Thread, Complete(t)
    PROVE  IInv'
<1> DEFINE k == KeyOf(t)
           new == [records[k] EXCEPT !.state = "done", !.result = call[t].result]
           over == [Idle EXCEPT !.request = call[t].request, !.reply = call[t].result]
<1>1. /\ call[t].pc = "complete" /\ Owner(t) /\ k \in Key /\ k = call[t].request.key
      /\ call[t] \in Call /\ call[t].request \in Request
  BY RequestOf DEF IInv, Complete, Owner, KeyOf
<1>2. /\ call[t].result \in Result /\ call[t].result.request = call[t].request
      /\ Honest(call[t].result, k)
  BY <1>1 DEF IInv, TypeOK, ResultOK, Call
<1>3. records[k] = [digest |-> call[t].request, state |-> "running", result |-> None]
  BY <1>1 DEF IInv, TypeOK, Owned, Record, NoRecord
<1>4. /\ records'[k] = [digest |-> call[t].request, state |-> "done", result |-> call[t].result]
      /\ \A j \in Key : j # k => records'[j] = records[j]
      /\ records' \in [Key -> Record]
  <2>1. records' = [records EXCEPT ![k] = new]
    BY DEF Complete, IInv, TypeOK
  <2>2. new = [digest |-> call[t].request, state |-> "done", result |-> call[t].result]
    <3>1. records[k] \in [digest : Request, state : {"running"}, result : {None}]
      BY <1>1, <1>3
    <3>2. new \in [digest : Request, state : {"done"}, result : Result]
      BY <1>2, <3>1
    <3>3. /\ new.digest = call[t].request /\ new.state = "done"
          /\ new.result = call[t].result
      BY <1>3, <3>1
    <3> HIDE DEF new
    <3> QED BY <3>2, <3>3
  <2>3. new \in Record
    BY <1>1, <1>2, <2>2 DEF Record
  <2> HIDE DEF new
  <2> QED BY <1>1, <2>1, <2>2, <2>3 DEF IInv, TypeOK
<1>5. runs' = runs /\ now' = now
  BY DEF Complete
<1>6. /\ call'[t] = over /\ over \in Call
      /\ \A u \in Thread : u # t => call'[u] = IF call[u].pc = "asleep"
                                              THEN [call[u] EXCEPT !.pc = "awake"]
                                              ELSE call[u]
  BY <1>1, <1>2 DEF Complete, Notified, Call, Idle
<1>7. call' \in [Thread -> Call]
  <2>1. ASSUME NEW u \in Thread PROVE call'[u] \in Call
    <3>1. call[u] \in Call /\ [call[u] EXCEPT !.pc = "awake"] \in Call
      BY DEF IInv, TypeOK, Call
    <3> QED BY <3>1, <1>6
  <2> QED BY <2>1 DEF Complete
<1>8. ASSUME NEW u \in Thread, u # t
      PROVE  /\ call'[u].request = call[u].request /\ call'[u].result = call[u].result
             /\ call'[u].reply = call[u].reply /\ KeyOf(u)' = KeyOf(u)
             /\ (call'[u].pc = call[u].pc /\ call[u].pc # "asleep")
                   \/ (call'[u].pc = "awake" /\ call[u].pc = "asleep")
  BY <1>6, <1>8 DEF IInv, TypeOK, Call, KeyOf
<1>9. call'[t].pc = "idle" /\ call'[t].request = call[t].request /\ call'[t].reply = call[t].result
  BY <1>6 DEF Idle
<1>10. \A u \in Thread : call[u].pc # "idle" => KeyOf(u) \in Key
  BY RequestOf DEF IInv
<1>11. \A u \in Thread : u # t /\ Owner(u) => KeyOf(u) # k
  BY <1>1 DEF IInv, Owned
<1>12. \A u \in Thread : Owner(u)' => u # t /\ Owner(u)
  BY <1>8, <1>9 DEF Owner
<1>13. TypeOK'
  <2>1. \A u \in Thread : (call'[u].pc # "idle" => call'[u].request # None)
                          /\ (call'[u].pc = "complete" => call'[u].result # None)
    BY <1>8, <1>9 DEF IInv, TypeOK
  <2> QED BY <2>1, <1>4, <1>5, <1>7 DEF IInv, TypeOK
<1>14. Owned'
  <2>1. ASSUME NEW u \in Thread, Owner(u)'
        PROVE  records'[KeyOf(u)'].state = "running" /\ records'[KeyOf(u)'].digest = call'[u].request
    <3>1. u # t /\ Owner(u) /\ KeyOf(u) # k /\ KeyOf(u) \in Key
      BY <2>1, <1>10, <1>11, <1>12 DEF Owner
    <3> QED BY <3>1, <1>4, <1>8 DEF IInv, Owned
  <2>2. ASSUME NEW u \in Thread, NEW v \in Thread, Owner(u)', Owner(v)', KeyOf(u)' = KeyOf(v)'
        PROVE  u = v
    BY <2>2, <1>8, <1>12 DEF IInv, Owned
  <2> QED BY <2>1, <2>2 DEF Owned
<1>15. WaiterOK'
  <2> SUFFICES ASSUME NEW u \in Thread, call'[u].pc \in {"asleep", "awake"}
               PROVE  call'[u].pc # "asleep" /\ records'[KeyOf(u)'].digest = call'[u].request
    BY DEF WaiterOK
  <2>1. u # t /\ call'[u].pc = "awake" /\ call[u].pc \in {"asleep", "awake"}
    BY <1>8, <1>9
  <2>2. KeyOf(u) \in Key /\ records[KeyOf(u)].digest = call[u].request
    BY <2>1, <1>10 DEF IInv, WaiterOK
  <2> QED BY <2>1, <2>2, <1>3, <1>4, <1>8
<1>16. RunsOK'
  <2>1. \A u \in Thread : call'[u].pc = "decide" => runs'[KeyOf(u)'] = 0
    BY <1>5, <1>8, <1>9 DEF IInv, RunsOK
  <2> QED BY <2>1, <1>4, <1>5 DEF IInv, RunsOK, NoRecord
<1>17. StoredOK'
  BY <1>1, <1>2, <1>4, <1>5 DEF IInv, StoredOK, Honest
<1>18. ResultOK'
  BY <1>5, <1>8, <1>9 DEF IInv, ResultOK, Honest
<1>19. RepliesAgree'
  <2> SUFFICES ASSUME NEW u \in Thread, call'[u].reply # None,
                      call'[u].reply.errors \cap Unstored = {}
               PROVE  LET r == call'[u].reply
                      IN  /\ records'[r.request.key] = [digest |-> call'[u].request,
                                                        state |-> "done", result |-> r]
                          /\ ValidResult(r)
                          /\ r.status = "success" => runs'[r.request.key] = 1
    BY DEF RepliesAgree
  <2>1. CASE u = t
    BY <2>1, <1>1, <1>2, <1>4, <1>5, <1>9 DEF Honest
  <2>2. CASE u # t
    <3>1. /\ call[u].reply # None /\ call[u].reply \in Result
          /\ call[u].reply.errors \cap Unstored = {}
          /\ call'[u].reply = call[u].reply /\ call'[u].request = call[u].request
      BY <2>2, <1>8 DEF IInv, TypeOK, Call
    <3>2. call[u].reply.request.key \in Key \ {k}
      BY <3>1, <1>3, ReplyStored
    <3> QED BY <3>1, <3>2, <1>4, <1>5 DEF IInv, RepliesAgree
  <2> QED BY <2>1, <2>2
<1> QED BY <1>13, <1>14, <1>15, <1>16, <1>17, <1>18, <1>19 DEF IInv

-----------------------------------------------------------------------------
(* Nothing but the clock changes. *)
LEMMA TickStep ==
    ASSUME IInv, Tick \/ UNCHANGED vars
    PROVE  IInv'
<1>1. call' = call /\ records' = records /\ runs' = runs /\ now' \in Nat
  BY DEF Tick, vars, IInv, TypeOK
<1> QED BY <1>1 DEF IInv, TypeOK, Owned, Owner, WaiterOK, RunsOK, StoredOK, ResultOK, Honest,
                    RepliesAgree, KeyOf

(* The invariant is inductive. *)
LEMMA NextIInv == IInv /\ [Next]_vars => IInv'
<1> SUFFICES ASSUME IInv, [Next]_vars PROVE IInv'
  OBVIOUS
<1>1. CASE Tick \/ UNCHANGED vars
  BY <1>1, TickStep
<1>2. ASSUME NEW t \in Thread, Step(t) PROVE IInv'
  BY <1>2, ReserveFirstStep, ReserveConflictStep, WaitLoopStep, WaitTimesOutStep, DecideStep,
     CompleteStep DEF Step
<1>3. ASSUME NEW t \in Thread, Handler(t) PROVE IInv'
  BY <1>3, HandlerStep
<1>4. ASSUME NEW t \in Thread, NEW q \in Request, NEW h \in Head, NEW s \in Scope,
             Execute(t, q, h, s)
      PROVE  IInv'
  BY <1>4, ExecuteStep
<1> QED BY <1>1, <1>2, <1>3, <1>4 DEF Next

LEMMA Invariant == Spec => []IInv
BY InitIInv, NextIInv, PTL DEF Spec

(* Type correctness: no record or answer is ever malformed, and nothing is   *)
(* stored without a result.                                                 *)
THEOREM TypeCorrect == Spec => []TypeOK
<1>1. IInv => TypeOK
  BY DEF IInv
<1> QED BY <1>1, Invariant, PTL

(* At most one handler run per idempotency key, whatever callers race, time  *)
(* out, retry or die.                                                       *)
THEOREM OneRun == Spec => []OneRunPerKey
<1>1. IInv => OneRunPerKey
  BY DEF IInv, RunsOK, OneRunPerKey
<1> QED BY <1>1, Invariant, PTL

(* Every answer that is not a refusal is the one stored for that very        *)
(* request, and a success is honest.                                        *)
THEOREM ExactReplay == Spec => []RepliesAgree
<1>1. IInv => RepliesAgree
  BY DEF IInv
<1> QED BY <1>1, Invariant, PTL

(* A thread sleeps only while the record it waits for is running.           *)
THEOREM NoWakeupIsLost == Spec => []NoLostWakeup
<1>1. IInv => NoLostWakeup
  BY DEF IInv, WaiterOK, NoLostWakeup
<1> QED BY <1>1, Invariant, PTL
=============================================================================
