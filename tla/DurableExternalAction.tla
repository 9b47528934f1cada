------------------------ MODULE DurableExternalAction ------------------------
(***************************************************************************)
(* DurableExternalActionCoordinator (core/durable_external_action_v1.py):   *)
(* several workers coordinate one logical external action through an       *)
(* append-only stream in a shared SQLite file.                             *)
(*                                                                         *)
(* Every operation is the same kind of non-atomic sequence: load the        *)
(* stream, decide, append with the head that was loaded                    *)
(* (compare-and-append), load again.  Each load and each append is one      *)
(* action here, so other workers, crashes and restarts fall between any     *)
(* two of them.  SQLite makes a single read or append atomic.               *)
(*                                                                         *)
(* execute is reserve, begin_dispatch, the provider call and                *)
(* confirm_success in one call of a worker; the other operations are also   *)
(* called on their own, by a caller that never invokes the provider.        *)
(* Calls the code refuses raise: the worker is idle again, nothing else     *)
(* changes.                                                                 *)
(***************************************************************************)
EXTENDS ActionStream

CONSTANTS
    Worker,         \* processes and threads that own a coordinator
    Reconciler,     \* the workers that look the provider up and confirm no effect
    RefsOf,         \* the dispatch references callers use for an attempt
    Offered,        \* the operations called on their own, beside execute
    Disciplined,    \* callers use fresh attempt ids and settled provider evidence only
    MaxTransitions, \* _MAX_TRANSITIONS
    ReserveTries    \* range(4) in reserve

StandaloneOp == {"begin_dispatch", "mark_pre_effect_failed", "mark_outcome_unknown",
                 "confirm_no_effect", "confirm_success", "recover_receipt"}

ASSUME ReconcilerAssumption == Reconciler \subseteq Worker
ASSUME RefsAssumption == RefsOf \in [Attempt -> SUBSET DispatchRef]
ASSUME OfferedAssumption == Offered \subseteq StandaloneOp
ASSUME DisciplinedAssumption == Disciplined \in BOOLEAN
ASSUME LimitAssumption == MaxTransitions \in Nat \ {0} /\ ReserveTries \in Nat \ {0}

VARIABLES
    stream,    \* the records of this action's stream in the SQLite file
    effects,   \* receipts of the provider effects that happened, in order
    returned,  \* receipts execute has returned to some caller
    evidence,  \* evidence[w]: the attempt reconciler w found without effect, or Nil
    pc,        \* pc[w]: the step of worker w's current call
    call,      \* call[w]: its operation and arguments
    head,      \* head[w]: the stream head it will append after
    tries      \* tries[w]: reserve's lost races in this call

store == <<stream, effects, returned>>
local == <<pc, call, head, tries>>
vars  == <<stream, effects, returned, evidence, pc, call, head, tries>>

Op == StandaloneOp \cup {"reserve", "none"}
Step == {"idle", "load", "records", "owned", "append", "recheck", "recheck_records",
         "verify", "invoke"}

(* exec says that the operation runs inside execute. *)
Call == [op : Op, intent : Intent \cup {Nil}, attempt : Attempt \cup {Nil},
         ref : DispatchRef \cup {Nil}, receipt : Receipt \cup {Nil}, exec : BOOLEAN]

NoCall == [op |-> "none", intent |-> Nil, attempt |-> Nil, ref |-> Nil,
           receipt |-> Nil, exec |-> FALSE]

TypeOK ==
    /\ stream \in Seq(Record)
    /\ effects \in Seq(Receipt)
    /\ returned \subseteq Receipt
    /\ evidence \in [Worker -> Attempt \cup {Nil}]
    /\ pc \in [Worker -> Step]
    /\ call \in [Worker -> Call]
    /\ head \in [Worker -> Nat]
    /\ tries \in [Worker -> Nat]

Init ==
    /\ stream = <<>>
    /\ effects = <<>>
    /\ returned = {}
    /\ evidence = [w \in Worker |-> Nil]
    /\ pc = [w \in Worker |-> "idle"]
    /\ call = [w \in Worker |-> NoCall]
    /\ head = [w \in Worker |-> 0]
    /\ tries = [w \in Worker |-> 0]

-----------------------------------------------------------------------------
(* Reading the stream.                                                     *)

current == Fold(stream)

(* _records and _load raise past the transition limit, for another intent   *)
(* under the same logical action id, and on a stream that does not fold.    *)
Loads(w) ==
    /\ Len(stream) <= MaxTransitions
    /\ stream # <<>> => stream[1].intent = call[w].intent
    /\ Foldable(stream)

(* Mutant of LastIsDispatch: the replay test looks at the event type only. *)
LastIsAnyDispatch(attempt, ref) == stream # <<>> /\ stream[Len(stream)].type = "DISPATCHED"

(* begin_dispatch's replay test: the last record is this very dispatch. *)
LastIsDispatch(attempt, ref) ==
    /\ stream # <<>>
    /\ stream[Len(stream)].type = "DISPATCHED"
    /\ stream[Len(stream)].attempt = attempt
    /\ stream[Len(stream)].ref = ref

At(w, step, ops) == pc[w] = step /\ call[w].op \in ops

Goto(w, step) ==
    /\ pc' = [pc EXCEPT ![w] = step]
    /\ UNCHANGED <<call, head, tries>>

(* Keep the head just loaded and go on to step. *)
Remember(w, step) ==
    /\ pc' = [pc EXCEPT ![w] = step]
    /\ head' = [head EXCEPT ![w] = Len(stream)]
    /\ UNCHANGED <<call, tries>>

(* The call returns, raises or dies: nothing of it is left in the worker. *)
Finish(w) ==
    /\ pc' = [pc EXCEPT ![w] = "idle"]
    /\ call' = [call EXCEPT ![w] = NoCall]
    /\ head' = [head EXCEPT ![w] = 0]
    /\ tries' = [tries EXCEPT ![w] = 0]

(* The next operation of execute. *)
Proceed(w, op, receipt) ==
    /\ pc' = [pc EXCEPT ![w] = "load"]
    /\ call' = [call EXCEPT ![w] = [@ EXCEPT !.op = op, !.receipt = receipt]]
    /\ head' = [head EXCEPT ![w] = 0]
    /\ tries' = [tries EXCEPT ![w] = 0]

(* execute hands a receipt to its caller; the other operations just return. *)
FinishWith(w, receipt) ==
    /\ returned' = IF call[w].exec THEN returned \cup {receipt} ELSE returned
    /\ Finish(w)
    /\ UNCHANGED <<stream, effects, evidence>>

(* begin_dispatch returns: inside execute the provider is called next. *)
Dispatched(w) == IF call[w].exec THEN Goto(w, "invoke") ELSE Finish(w)

-----------------------------------------------------------------------------
(* Callers.                                                                *)

Start(w, c) ==
    /\ pc[w] = "idle"
    /\ pc' = [pc EXCEPT ![w] = "load"]
    /\ call' = [call EXCEPT ![w] = c]
    /\ UNCHANGED <<stream, effects, returned, head, tries>>

(* No record and no running call names the attempt. *)
Fresh(a) ==
    /\ \A n \in 1..Len(stream) : stream[n].attempt # a
    /\ \A w \in Worker : call[w].attempt # a

Execute(w, i, a, d) ==
    /\ Disciplined => Fresh(a)
    /\ Start(w, [NoCall EXCEPT !.op = "reserve", !.intent = i, !.attempt = a,
                               !.ref = d, !.exec = TRUE])
    /\ UNCHANGED evidence

CallBeginDispatch(w, i, a, d) ==
    /\ "begin_dispatch" \in Offered
    /\ Start(w, [NoCall EXCEPT !.op = "begin_dispatch", !.intent = i, !.attempt = a, !.ref = d])
    /\ UNCHANGED evidence

CallMark(w, op, i, a) ==
    /\ op \in Offered \cap {"mark_pre_effect_failed", "mark_outcome_unknown"}
    /\ Start(w, [NoCall EXCEPT !.op = op, !.intent = i, !.attempt = a])
    /\ UNCHANGED evidence

(* A provider callback or a reconciler presents a receipt of a real effect, *)
(* as often and as late as it likes.                                        *)
CallWithReceipt(w, op, r) ==
    /\ op \in Offered \cap {"confirm_success", "recover_receipt"}
    /\ Start(w, [NoCall EXCEPT !.op = op, !.intent = r.intent, !.attempt = r.attempt,
                               !.receipt = r])
    /\ UNCHANGED evidence

(* No execute of this attempt can still reach the provider. *)
Settled(a) ==
    \A w \in Worker : call[w].exec /\ call[w].attempt = a =>
                          call[w].op \notin {"reserve", "begin_dispatch"}

HadEffect(a) == \E n \in 1..Len(effects) : effects[n].attempt = a

(* A reconciler reads an unknown outcome and asks the provider about it.    *)
(* Disciplined evidence is final; otherwise it may be premature.            *)
LookUp(w) ==
    /\ "confirm_no_effect" \in Offered
    /\ w \in Reconciler
    /\ pc[w] = "idle"
    /\ evidence[w] = Nil
    /\ current.phase = "OUTCOME_UNKNOWN"
    /\ ~HadEffect(current.owner)
    /\ Disciplined => Settled(current.owner)
    /\ evidence' = [evidence EXCEPT ![w] = current.owner]
    /\ UNCHANGED <<store, local>>

(* The call carries the reconciliation reference only: the attempt it was   *)
(* found for (kept in call.attempt) is not an argument the code sees.       *)
CallConfirmNoEffect(w, i) ==
    /\ evidence[w] # Nil
    /\ Start(w, [NoCall EXCEPT !.op = "confirm_no_effect", !.intent = i,
                               !.attempt = evidence[w]])
    /\ evidence' = [evidence EXCEPT ![w] = Nil]

-----------------------------------------------------------------------------
(* The operations, one load or append at a time.                           *)

Marks == {"mark_pre_effect_failed", "mark_outcome_unknown"}
MarkedPhase(op) ==
    IF op = "mark_pre_effect_failed" THEN "PRE_EFFECT_FAILED" ELSE "OUTCOME_UNKNOWN"
WithReceipt == {"confirm_success", "recover_receipt"}

LoadRaises(w) ==
    /\ pc[w] \in {"load", "records", "owned", "recheck", "recheck_records", "verify"}
    /\ ~Loads(w)
    /\ Finish(w)
    /\ UNCHANGED <<store, evidence>>

LoadReserve(w) ==
    /\ At(w, "load", {"reserve"})
    /\ Loads(w)
    /\ \/ /\ current.phase \in {"NONE"} \cup Retryable
          /\ Remember(w, "append")
          /\ UNCHANGED <<store, evidence>>
       \/ /\ current.phase \in {"RESERVED", "OUTCOME_UNKNOWN"}
          /\ Finish(w)
          /\ UNCHANGED <<store, evidence>>
       \/ /\ current.phase \in Confirmed
          /\ FinishWith(w, current.receipt)

(* Unless the outcome is unknown nothing of begin_dispatch's second read is   *)
(* used, and the step "owned" stands for it too.                             *)
LoadBeginDispatch(w) ==
    /\ At(w, "load", {"begin_dispatch"})
    /\ Loads(w)
    /\ CASE current.phase = "NONE"            -> Finish(w)
         [] current.phase = "OUTCOME_UNKNOWN" -> Remember(w, "records")
         [] OTHER                             -> Remember(w, "owned")
    /\ UNCHANGED <<store, evidence>>

(* The second read of begin_dispatch, whose head is not kept. *)
ReadRecords(w) ==
    /\ pc[w] = "records"
    /\ Loads(w)
    /\ IF LastIsDispatch(call[w].attempt, call[w].ref) THEN Dispatched(w) ELSE Finish(w)
    /\ UNCHANGED <<store, evidence>>

(* Mutant of CheckOwned: _owned does not compare the owner. *)
CheckReserved(w) ==
    /\ pc[w] = "owned"
    /\ Loads(w)
    /\ IF current.phase = "RESERVED" THEN Goto(w, "append") ELSE Finish(w)
    /\ UNCHANGED <<store, evidence>>

(* _owned: a further load, whose head is discarded. *)
CheckOwned(w) ==
    /\ pc[w] = "owned"
    /\ Loads(w)
    /\ IF current.phase = "RESERVED" /\ current.owner = call[w].attempt
       THEN Goto(w, "append")
       ELSE Finish(w)
    /\ UNCHANGED <<store, evidence>>

LoadMark(w) ==
    /\ At(w, "load", Marks)
    /\ Loads(w)
    /\ IF current.phase = MarkedPhase(call[w].op) /\ current.owner = call[w].attempt
       THEN Finish(w)
       ELSE Remember(w, "owned")
    /\ UNCHANGED <<store, evidence>>

LoadConfirmNoEffect(w) ==
    /\ At(w, "load", {"confirm_no_effect"})
    /\ Loads(w)
    /\ IF current.phase = "OUTCOME_UNKNOWN" THEN Remember(w, "append") ELSE Finish(w)
    /\ UNCHANGED <<store, evidence>>

(* confirm_success and recover_receipt: a receipt already recorded is       *)
(* replayed, a different one is refused.                                    *)
LoadReceipt(w) ==
    /\ At(w, "load", WithReceipt)
    /\ Loads(w)
    /\ \/ /\ current.phase = "OUTCOME_UNKNOWN"
          /\ current.owner = call[w].attempt
          /\ Remember(w, "append")
          /\ UNCHANGED <<store, evidence>>
       \/ /\ current.phase \in Confirmed
          /\ current.receipt = call[w].receipt
          /\ FinishWith(w, current.receipt)
       \/ /\ \/ current.phase \in {"NONE", "RESERVED"} \cup Retryable
             \/ current.phase = "OUTCOME_UNKNOWN" /\ current.owner # call[w].attempt
             \/ current.phase \in Confirmed /\ current.receipt # call[w].receipt
          /\ Finish(w)
          /\ UNCHANGED <<store, evidence>>

RecordOf(c) ==
    [type    |-> CASE c.op = "reserve"                -> "RESERVED"
                   [] c.op = "begin_dispatch"         -> "DISPATCHED"
                   [] c.op = "mark_pre_effect_failed" -> "PRE_EFFECT_FAILED"
                   [] c.op = "mark_outcome_unknown"   -> "OUTCOME_UNKNOWN"
                   [] c.op = "confirm_no_effect"      -> "CONFIRMED_NO_EFFECT"
                   [] c.op = "confirm_success"        -> "CONFIRMED_SUCCESS"
                   [] c.op = "recover_receipt"        -> "RECEIPT_RECOVERED",
     intent  |-> c.intent,
     attempt |-> IF c.op \in {"confirm_no_effect", "recover_receipt"} THEN Nil ELSE c.attempt,
     ref     |-> IF c.op = "begin_dispatch" THEN c.ref ELSE Nil,
     receipt |-> c.receipt]

(* Mutant of HeadMatches: the append compares no head. *)
HeadIgnored(w) == pc[w] = "append"

(* append_batch compares the expected head inside its transaction. *)
HeadMatches(w) == head[w] = Len(stream)

AppendCommits(w) ==
    /\ pc[w] = "append"
    /\ HeadMatches(w)
    /\ stream' = Append(stream, RecordOf(call[w]))
    /\ Goto(w, "verify")
    /\ UNCHANGED <<effects, returned, evidence>>

(* A lost race: reserve tries again, a mark raises, the rest look who won. *)
AppendLoses(w) ==
    /\ pc[w] = "append"
    /\ ~HeadMatches(w)
    /\ CASE call[w].op = "reserve" /\ tries[w] + 1 < ReserveTries ->
              /\ pc' = [pc EXCEPT ![w] = "load"]
              /\ tries' = [tries EXCEPT ![w] = @ + 1]
              /\ head' = [head EXCEPT ![w] = 0]
              /\ UNCHANGED call
         [] call[w].op \in {"begin_dispatch", "confirm_no_effect"} \cup WithReceipt ->
              Goto(w, "recheck")
         [] OTHER -> Finish(w)
    /\ UNCHANGED <<store, evidence>>

RecheckDispatch(w) ==
    /\ At(w, "recheck", {"begin_dispatch"})
    /\ Loads(w)
    /\ IF current.owner = call[w].attempt THEN Goto(w, "recheck_records") ELSE Finish(w)
    /\ UNCHANGED <<store, evidence>>

(* The winner's owner was compared in the load before: the last record is   *)
(* compared by its reference only.                                          *)
RecheckRecords(w) ==
    /\ pc[w] = "recheck_records"
    /\ Loads(w)
    /\ IF LastIsDispatch(stream[Len(stream)].attempt, call[w].ref)
       THEN Dispatched(w)
       ELSE Finish(w)
    /\ UNCHANGED <<store, evidence>>

(* Another reconciler won or not: either way the call is over. *)
RecheckNoEffect(w) ==
    /\ At(w, "recheck", {"confirm_no_effect"})
    /\ Loads(w)
    /\ Finish(w)
    /\ UNCHANGED <<store, evidence>>

RecheckReceipt(w) ==
    /\ At(w, "recheck", WithReceipt)
    /\ Loads(w)
    /\ IF current.phase \in Confirmed /\ current.receipt = call[w].receipt
       THEN FinishWith(w, current.receipt)
       ELSE Finish(w) /\ UNCHANGED <<store, evidence>>

(* Mutant of VerifyReserve: execute calls the provider before the fence. *)
VerifyReserveUnfenced(w) ==
    /\ At(w, "verify", {"reserve"})
    /\ Loads(w)
    /\ Goto(w, "invoke")
    /\ UNCHANGED <<store, evidence>>

(* The load after a committed append. *)
VerifyReserve(w) ==
    /\ At(w, "verify", {"reserve"})
    /\ Loads(w)
    /\ IF current.phase = "RESERVED" /\ current.owner = call[w].attempt
       THEN Proceed(w, "begin_dispatch", Nil)
       ELSE Finish(w)
    /\ UNCHANGED <<store, evidence>>

VerifyDispatch(w) ==
    /\ At(w, "verify", {"begin_dispatch"})
    /\ Loads(w)
    /\ IF current.phase = "OUTCOME_UNKNOWN" THEN Dispatched(w) ELSE Finish(w)
    /\ UNCHANGED <<store, evidence>>

VerifyOutcome(w) ==
    /\ At(w, "verify", Marks \cup {"confirm_no_effect"})
    /\ Loads(w)
    /\ Finish(w)
    /\ UNCHANGED <<store, evidence>>

(* execute returns the receipt of the reloaded record, or its own if the    *)
(* record has none.                                                         *)
VerifyReceipt(w) ==
    /\ At(w, "verify", WithReceipt)
    /\ Loads(w)
    /\ FinishWith(w, IF current.receipt # Nil THEN current.receipt ELSE call[w].receipt)

-----------------------------------------------------------------------------
(* The provider and failures.                                              *)

(* The provider performs the effect; its answer arrives or is lost.         *)
ProviderEffect(w) ==
    /\ pc[w] = "invoke"
    /\ Len(effects) < MaxEffects
    /\ LET r == [intent |-> call[w].intent, attempt |-> call[w].attempt,
                 id |-> Len(effects) + 1]
       IN /\ effects' = Append(effects, r)
          /\ Proceed(w, "confirm_success", r) \/ Finish(w)
    /\ UNCHANGED <<stream, returned, evidence>>

(* provider_call raises without an effect. *)
ProviderRefuses(w) ==
    /\ pc[w] = "invoke"
    /\ Finish(w)
    /\ UNCHANGED <<store, evidence>>

(* The process dies or an exception the operation does not catch leaves it, *)
(* after any step: a busy database, a kill, a lost caller.                  *)
Crash(w) ==
    /\ pc[w] # "idle"
    /\ Finish(w)
    /\ UNCHANGED <<store, evidence>>

Begin(w) ==
    \/ \E i \in Intent, a \in Attempt : \E d \in RefsOf[a] :
          Execute(w, i, a, d) \/ CallBeginDispatch(w, i, a, d)
    \/ \E op \in Marks, i \in Intent, a \in Attempt : CallMark(w, op, i, a)
    \/ \E op \in WithReceipt, n \in 1..Len(effects) : CallWithReceipt(w, op, effects[n])
    \/ \E i \in Intent : CallConfirmNoEffect(w, i)
    \/ LookUp(w)

(* The steps the coordinator takes by itself once it is called. *)
Run(w) ==
    \/ LoadRaises(w)
    \/ LoadReserve(w) \/ LoadBeginDispatch(w) \/ LoadMark(w)
    \/ LoadConfirmNoEffect(w) \/ LoadReceipt(w)
    \/ ReadRecords(w) \/ CheckOwned(w)
    \/ AppendCommits(w) \/ AppendLoses(w)
    \/ RecheckDispatch(w) \/ RecheckRecords(w) \/ RecheckNoEffect(w) \/ RecheckReceipt(w)
    \/ VerifyReserve(w) \/ VerifyDispatch(w) \/ VerifyOutcome(w) \/ VerifyReceipt(w)

Provider(w) == ProviderEffect(w) \/ ProviderRefuses(w)

Next == \E w \in Worker : Begin(w) \/ Run(w) \/ Provider(w) \/ Crash(w)

Spec == Init /\ [][Next]_vars
-----------------------------------------------------------------------------
(* What has to hold whatever the callers do.                               *)

(* Decisions taken on stale loads never write an illegal transition: the    *)
(* stream stays one that _load accepts, so no call can brick the action.    *)
StreamFoldable == Foldable(stream)

(* The durable coordinator implements the in-process reference coordinator: *)
(* every committed append is one of its transitions, every other step of    *)
(* any worker leaves the action alone.                                      *)
Reference == INSTANCE ExternalAction
             WITH phase <- current.phase, intent <- current.intent, owner <- current.owner,
                  attempts <- current.attempts, receipt <- current.receipt

ImplementsReference == Reference!Spec

(* The provider is called only by an attempt whose DISPATCHED record is     *)
(* already durable (module docstring, lines 10-12).                         *)
FencedInvocation ==
    \A w \in Worker : pc[w] = "invoke" =>
        \E n \in 1..Len(stream) : /\ stream[n].type = "DISPATCHED"
                                  /\ stream[n].attempt = call[w].attempt

(* Whatever execute returned to anybody is the receipt the stream confirms, *)
(* for good: all callers of the action see the same one.                    *)
ReceiptsAgree ==
    \A r \in returned : current.phase \in Confirmed /\ current.receipt = r

(* What also holds when attempts are fresh, evidence is final and only one  *)
(* reconciler confirms the absence of an effect.                            *)

(* The logical action reaches the outside world at most once, over all      *)
(* attempts, crashes and retries ("exactly-once", line 1 of the module).    *)
AtMostOneEffect == Len(effects) <= 1

(* While some worker is about to call the provider nobody may be allowed to *)
(* try again: the outcome is unknown and belongs to that worker's attempt.  *)
NoRetryWhileInvoking ==
    \A w \in Worker : pc[w] = "invoke" =>
        current.phase = "OUTCOME_UNKNOWN" /\ current.owner = call[w].attempt

(* A stream that offers a new attempt, or is in the middle of a reservation, *)
(* does so only if the outside world has seen nothing of the action.        *)
RetryableMeansNoEffect ==
    current.phase \in {"NONE", "RESERVED"} \cup Retryable => effects = <<>>

(* Nobody may try again while an effect is possible or known: the two       *)
(* together.                                                                *)
RetryIsSafe == NoRetryWhileInvoking /\ RetryableMeansNoEffect
=============================================================================
