----------------------------- MODULE CaseLedger -----------------------------
(***************************************************************************)
(* CanonicalCaseLedger over SQLiteProvenanceStore, and the case lifecycle    *)
(* recorded through it (core/case_ledger/ledger.py, contracts.py;            *)
(* core/case_product_hardening_v1.py): processes with a ledger object each   *)
(* append to the history of one case, file, close and reopen it, and         *)
(* restore it from a bundle.                                               *)
(*                                                                         *)
(* An event id is a digest of the event and of the id before it, so an       *)
(* event is written here as the history that it ends: a sequence of bodies. *)
(* A backend record digest covers all records before it, so the head of the *)
(* case's stream is the stream.  A read of the store is one action, as is   *)
(* its compare-and-append transaction; a call is three of them, and what    *)
(* other processes do fits in between.                                     *)
(***************************************************************************)
EXTENDS Naturals, Sequences

CONSTANTS
    Process,
    Receipt,   \* receipts of filings, as numbers
    Bundles,   \* histories exported elsewhere
    Limit,     \* max_events
    Synced     \* callers rebuild their Case from the events they read

Type == {"note", "receipt", "filed", "delta", "closed", "reopened"}

(* ref: the receipt of a filing; how many events an assessment or delta was *)
(* based on.  epoch: the lifecycle epoch a closing or reopening sets.  A     *)
(* note is any other event: an object revision, a classification.           *)
Body == [type : Type, ref : Nat, epoch : Nat]
History == Seq(Body)

ASSUME LimitAssumption == Limit \in Nat \ {0}
ASSUME ReceiptAssumption == Receipt \subseteq Nat
ASSUME BundleAssumption == Bundles \subseteq History
ASSUME SyncedAssumption == Synced \in BOOLEAN

VARIABLES
    stream,   \* the case's records in the store, each with the event it holds
    call,     \* call[p]: the call p is in or was in last
    view,     \* view[p]: the history p has seen; its end is p's expected_head
    case,     \* case[p]: p's Case object
    decided,  \* decided[p]: position and epoch of p's assessment or decision
    acked     \* the histories callers were told their call had written

vars == <<stream, call, view, case, decided, acked>>

Call == [pc : {"idle", "snapshot", "write", "verify"},
         todo : History,          \* events still to append, or the bundle
         expected : History,      \* expected_head
         restore : BOOLEAN, snap : Seq(History), event : History, wrote : BOOLEAN,
         reply : {"none", "ok", "refused", "doubt"}]

NoCall == [pc |-> "idle", todo |-> <<>>, expected |-> <<>>, restore |-> FALSE,
           snap |-> <<>>, event |-> <<>>, wrote |-> FALSE, reply |-> "none"]

CaseState == [status : {"NEW", "FILED", "CLOSED", "ANALYSIS"}, epoch : Nat]
NewCase == [status |-> "NEW", epoch |-> 0]

TypeOK ==
    /\ stream \in Seq(History)
    /\ call \in [Process -> Call]
    /\ view \in [Process -> History]
    /\ case \in [Process -> CaseState]
    /\ decided \in [Process -> [position : Nat, epoch : Nat]]
    /\ acked \subseteq History
    /\ Len(stream) <= Limit
    /\ \A p \in Process : call[p].pc \in {"snapshot", "write", "verify"} /\ ~call[p].restore
          => call[p].todo # <<>>

Init ==
    /\ stream = <<>>
    /\ call = [p \in Process |-> NoCall]
    /\ view = [p \in Process |-> <<>>]
    /\ case = [p \in Process |-> NewCase]
    /\ decided = [p \in Process |-> [position |-> 0, epoch |-> 0]]
    /\ acked = {}

-----------------------------------------------------------------------------
(* The events of a history, as the store keeps them. *)
Events(h) == [i \in 1..Len(h) |-> SubSeq(h, 1, i)]

End(s) == IF s = <<>> THEN <<>> ELSE s[Len(s)]

(* _decode_case_records: every event names its place and the event before.  *)
Decodes(s) ==
    /\ Len(s) <= Limit
    /\ \A i \in 1..Len(s) :
          /\ Len(s[i]) = i
          /\ SubSeq(s[i], 1, i - 1) = (IF i = 1 THEN <<>> ELSE s[i - 1])

Content(type, ref, epoch) == [type |-> type, ref |-> ref, epoch |-> epoch]

LastOf(h, types) ==
    LET I == {i \in 1..Len(h) : h[i].type \in types}
    IN  IF I = {} THEN 0 ELSE CHOOSE i \in I : \A j \in I : j <= i

(* The Case a history leads to. *)
CaseOf(h) ==
    LET s == LastOf(h, {"filed", "closed", "reopened"})
        e == LastOf(h, {"closed", "reopened"})
    IN  [status |-> IF s = 0 THEN "NEW"
                    ELSE CASE h[s].type = "filed" -> "FILED"
                           [] h[s].type = "closed" -> "CLOSED"
                           [] h[s].type = "reopened" -> "ANALYSIS",
         epoch |-> IF e = 0 THEN 0 ELSE h[e].epoch]

-----------------------------------------------------------------------------
Idle(p) == call[p].pc = "idle"

(* The caller reads the events and takes the head for its expected_head.    *)
Read(p) ==
    /\ Idle(p)
    /\ Decodes(stream)
    /\ view' = [view EXCEPT ![p] = End(stream)]
    /\ case' = IF Synced THEN [case EXCEPT ![p] = CaseOf(End(stream))] ELSE case
    /\ UNCHANGED <<stream, call, decided, acked>>

(* ClosureAssessment.build, ReopenDecision.build, ResponseDelta.build.       *)
Decide(p) ==
    /\ Idle(p)
    /\ decided' = [decided EXCEPT ![p] =
                     [position |-> Len(view[p]), epoch |-> case[p].epoch]]
    /\ UNCHANGED <<stream, call, view, case, acked>>

Begin(p, todo) ==
    /\ Idle(p)
    /\ call' = [call EXCEPT ![p] = [NoCall EXCEPT !.pc = "snapshot", !.todo = todo,
                                                  !.expected = view[p]]]
    /\ UNCHANGED <<stream, view, case, decided, acked>>

AppendNote(p) == Begin(p, <<Content("note", 0, 0)>>)

(* record_receipt_and_file_case: two appends, the second on the first.       *)
FileCase(p, r) == Begin(p, <<Content("receipt", r, 0), Content("filed", r, 0)>>)

(* Mutant of Current: the position of the assessment is not compared.       *)
CurrentUnchecked(p) == TRUE

Current(p) == decided[p].position = Len(view[p])

RecordDelta(p) ==
    /\ Current(p)
    /\ Begin(p, <<Content("delta", decided[p].position, 0)>>)

CloseCase(p) ==
    /\ Current(p)
    /\ Begin(p, <<Content("closed", decided[p].position, decided[p].epoch)>>)

ReopenCase(p) ==
    /\ case[p].status = "CLOSED"
    /\ decided[p].epoch = case[p].epoch
    /\ Begin(p, <<Content("reopened", 0, decided[p].epoch + 1)>>)

RestoreCase(p, bundle) ==
    /\ Idle(p)
    /\ Len(bundle) <= Limit
    /\ call' = [call EXCEPT ![p] = [NoCall EXCEPT !.pc = "snapshot", !.todo = bundle,
                                                  !.restore = TRUE]]
    /\ UNCHANGED <<stream, view, case, decided, acked>>

-----------------------------------------------------------------------------
(* The call is over; reply says what it returned or raised.  What it wrote   *)
(* is remembered for an error only.                                         *)
Finish(p, reply) ==
    call' = [call EXCEPT ![p] =
               [NoCall EXCEPT !.reply = reply,
                              !.wrote = reply # "ok" /\ call[p].wrote,
                              !.event = IF reply = "doubt" THEN call[p].event ELSE <<>>]]

Fail(p, reply) == Finish(p, reply) /\ UNCHANGED <<stream, view, case, decided, acked>>

(* Mutant of Expected: the caller's head is not compared with the case's.   *)
ExpectedIgnored(p) == TRUE

Expected(p) == End(stream) = call[p].expected

(* Mutant of BelowLimit: an off-by-one. *)
AtLimit(s) == Len(s) <= Limit

BelowLimit(s) == Len(s) < Limit

(* Mutant of Restorable: a bundle may be restored on top of a history.      *)
RestorableAlways == TRUE

Restorable == stream = <<>>

(* append_event reads the case and compares the caller's expected_head, or  *)
(* restore_case finds it empty.                                             *)
Snapshot(p) ==
    /\ call[p].pc = "snapshot"
    /\ LET fits == /\ Decodes(stream)
                   /\ \/ call[p].restore /\ Restorable
                      \/ ~call[p].restore /\ Expected(p) /\ BelowLimit(stream)
       IN  \/ /\ fits
              /\ call' = [call EXCEPT ![p] =
                    [@ EXCEPT !.pc = "write", !.snap = stream,
                              !.event = IF call[p].restore THEN call[p].todo
                                        ELSE Append(End(stream), Head(call[p].todo))]]
              /\ UNCHANGED <<stream, view, case, decided, acked>>
           \/ ~fits /\ Fail(p, "refused")

(* Mutant of BackendHeadMatches: expected_stream_heads is not passed on.     *)
BackendHeadIgnored(p) == TRUE

BackendHeadMatches(p) == stream = call[p].snap

Records(p) == IF call[p].restore THEN Events(call[p].event) ELSE <<call[p].event>>

(* append_batch: all records or none. *)
Write(p) ==
    /\ call[p].pc = "write"
    /\ \/ /\ BackendHeadMatches(p)
          /\ stream' = stream \o Records(p)
          /\ call' = [call EXCEPT ![p] = [@ EXCEPT !.pc = "verify", !.wrote = TRUE]]
          /\ UNCHANGED <<view, case, decided, acked>>
       \/ ~BackendHeadMatches(p) /\ Fail(p, "refused")

(* BEGIN IMMEDIATE finds the database locked for too long. *)
Busy(p) ==
    /\ call[p].pc = "write"
    /\ Fail(p, "refused")

(* What the second read has to show: exactly what was written, at the end.  *)
Shown(p) ==
    /\ Decodes(stream)
    /\ call[p].restore \/ Len(stream) = Len(call[p].snap) + 1
    /\ End(stream) = call[p].event

(* The Case after an event of its own process, as the lifecycle calls set it. *)
CaseAfter(c, body) ==
    CASE body.type = "filed" -> [c EXCEPT !.status = "FILED"]
      [] body.type = "closed" -> [status |-> "CLOSED", epoch |-> body.epoch]
      [] body.type = "reopened" -> [status |-> "ANALYSIS", epoch |-> body.epoch]
      [] OTHER -> c

(* append_event returns; a filing goes on with its second append.           *)
VerifyAppend(p) ==
    /\ call[p].pc = "verify"
    /\ ~call[p].restore
    /\ Shown(p)
    /\ acked' = acked \cup {call[p].event}
    /\ \/ /\ Len(call[p].todo) = 1
          /\ Finish(p, "ok")
          /\ view' = [view EXCEPT ![p] = call[p].event]
          /\ case' = [case EXCEPT ![p] = CaseAfter(@, Head(call[p].todo))]
       \/ /\ Len(call[p].todo) > 1
          /\ call' = [call EXCEPT ![p] =
                [@ EXCEPT !.pc = "snapshot", !.todo = Tail(call[p].todo),
                          !.expected = call[p].event, !.wrote = FALSE]]
          /\ UNCHANGED <<view, case>>
    /\ UNCHANGED <<stream, decided>>

VerifyRestore(p) ==
    /\ call[p].pc = "verify"
    /\ call[p].restore
    /\ Shown(p)
    /\ acked' = acked \cup {call[p].event}
    /\ Finish(p, "ok")
    /\ UNCHANGED <<stream, view, case, decided>>

(* The second read shows more, or something else. *)
VerifyFails(p) ==
    /\ call[p].pc = "verify"
    /\ ~Shown(p)
    /\ Fail(p, "doubt")

(* The process dies; with it what it knew. *)
Crash(p) ==
    /\ call' = [call EXCEPT ![p] = NoCall]
    /\ view' = [view EXCEPT ![p] = <<>>]
    /\ case' = [case EXCEPT ![p] = NewCase]
    /\ decided' = [decided EXCEPT ![p] = [position |-> 0, epoch |-> 0]]
    /\ UNCHANGED <<stream, acked>>

Next ==
    \E p \in Process :
        \/ Read(p) \/ Decide(p) \/ AppendNote(p)
        \/ \E r \in Receipt : FileCase(p, r)
        \/ RecordDelta(p) \/ CloseCase(p) \/ ReopenCase(p)
        \/ \E b \in Bundles : RestoreCase(p, b)
        \/ Snapshot(p) \/ Write(p) \/ Busy(p)
        \/ VerifyAppend(p) \/ VerifyRestore(p) \/ VerifyFails(p)
        \/ Crash(p)

Spec == Init /\ [][Next]_vars
-----------------------------------------------------------------------------
(* The store never holds a history _decode_case_records would reject: two   *)
(* processes that took the same snapshot never both extend it.              *)
Decodable == Decodes(stream)

(* A CASE_FILED event stands right after the event of its receipt, though    *)
(* they are two appends and any process may come in between or die there.   *)
FiledRight(h) ==
    \A i \in 1..Len(h) :
        h[i].type = "filed" =>
            i > 1 /\ h[i - 1] = Content("receipt", h[i].ref, 0)

FiledRightAfterReceipt == FiledRight(End(stream))

(* Decisions hold for the history they stand in: a closing or a delta was    *)
(* assessed on exactly the events before it, a closing keeps the epoch they  *)
(* lead to, a reopening follows a closing and takes the next epoch - when     *)
(* the callers' Case objects follow the events they read, which nothing in   *)
(* the code sees to.                                                        *)
SoundAt(h, i) ==
    LET before == CaseOf(SubSeq(h, 1, i - 1))
    IN  /\ h[i].type \in {"delta", "closed"} => h[i].ref = i - 1
        /\ h[i].type = "closed" => h[i].epoch = before.epoch
        /\ h[i].type = "reopened" => before.status = "CLOSED" /\ h[i].epoch = before.epoch + 1

DecisionsSound == Synced => \A i \in 1..Len(End(stream)) : SoundAt(End(stream), i)

(* What an error means: after a lost head the failed append wrote nothing;  *)
(* after a failed verification its event is in the history for good.        *)
ErrorsTell ==
    \A p \in Process :
        /\ call[p].reply = "refused" => ~call[p].wrote
        /\ call[p].reply = "doubt" =>
              SubSeq(End(stream), 1, Len(call[p].event)) = call[p].event

(* The ledger implements the append-only log.                               *)
CL == INSTANCE CaseLog WITH log <- End(stream)

ImplementsCaseLog == CL!Spec
=============================================================================
