--------------------------- MODULE OperationResult ---------------------------
(***************************************************************************)
(* What an operation of the Operation Contract v1 answers                   *)
(* (core/operations/policy_v1.py, result_v1.py, validate_result_v1.py):     *)
(* the outcome a handler hands back, what finalize_outcome makes of it, and *)
(* what the response validation accepts.                                   *)
(*                                                                         *)
(* A request is what its digest covers; equal requests have equal digests   *)
(* and the digest is the request itself.  Evidence items are kept as the    *)
(* set of their kinds and whether a commit item carries an exact SHA, error *)
(* items as the set of their codes.                                        *)
(***************************************************************************)
EXTENDS Naturals, FiniteSets

CONSTANTS
    Key,      \* idempotency keys
    Head,     \* repository heads
    Scope,    \* privacy scopes
    Effect,   \* side effects, "commit" among them
    Kind,     \* evidence kinds, "commit" among them
    Request   \* the request envelopes callers send

RequestEnvelope ==
    [key : Key, head : Head, scope : Scope, allowed : SUBSET Effect,
     required : SUBSET Kind, timeout : Nat \ {0}, input : Nat]

ASSUME RequestAssumption == Request \subseteq RequestEnvelope

Status == {"success", "failure", "partial", "skipped", "blocked"}

(* Blocked before the handler; the first three are never stored. *)
BlockedCode == {"PRIVACY_SCOPE_MISMATCH", "IDEMPOTENCY_CONFLICT",
                "IDEMPOTENCY_IN_FLIGHT_TIMEOUT", "STALE_HEAD"}
(* HANDLER_CONTRACT_ERROR or UNHANDLED_HANDLER_ERROR, treated alike. *)
HandlerCode == {"HANDLER_ERROR"}
PolicyCode == {"UNDECLARED_SIDE_EFFECT", "EVIDENCE_MISSING", "TIMEOUT"}
ErrorCode == BlockedCode \cup HandlerCode \cup PolicyCode \cup {"REPORTED"}

(* What a handler returns: errors says whether it reported any itself.      *)
HandlerOutcome ==
    {o \in [status : Status, effects : SUBSET Effect, kinds : SUBSET Kind,
            sha : BOOLEAN, errors : SUBSET {"REPORTED"}] :
        o.sha => "commit" \in o.kinds}

Result == [request : Request, status : Status, effects : SUBSET Effect,
           kinds : SUBSET Kind, sha : BOOLEAN, errors : SUBSET ErrorCode]

(* A result without effects: blocked, or failed by an exception. *)
Plain(request, status, code) ==
    [request |-> request, status |-> status, effects |-> {}, kinds |-> {},
     sha |-> FALSE, errors |-> {code}]

Undeclared(request, outcome) == outcome.effects \ request.allowed # {}

Missing(request, outcome) ==
    \/ request.required \ outcome.kinds # {}
    \/ "commit" \in outcome.effects /\ ~outcome.sha

(* What something that may not be called a success is called instead. *)
Degraded(outcome) == IF outcome.effects # {} THEN "partial" ELSE "failure"

(* finalize_outcome: three checks that each degrade the status, then the    *)
(* two repairs of what is left.                                             *)
FinalizeOutcome(request, outcome, expired) ==
    LET policy == {c \in PolicyCode :
                     \/ c = "UNDECLARED_SIDE_EFFECT" /\ Undeclared(request, outcome)
                     \/ c = "EVIDENCE_MISSING" /\ Missing(request, outcome)
                     \/ c = "TIMEOUT" /\ expired}
        errors == outcome.errors \cup policy
        status == CASE policy # {} -> Degraded(outcome)
                    [] policy = {} /\ outcome.effects # {}
                         /\ outcome.status \in {"failure", "blocked", "skipped"} -> "partial"
                    [] policy = {} /\ outcome.status = "success" /\ errors # {} ->
                         Degraded(outcome)
                    [] OTHER -> outcome.status
    IN  [request |-> request, status |-> status, effects |-> outcome.effects,
         kinds |-> outcome.kinds, sha |-> outcome.sha, errors |-> errors]

(* The response half of validate_operation_envelope: a result that breaks   *)
(* it is never built.                                                       *)
ValidResult(result) ==
    /\ result.effects # {} => result.status \in {"success", "partial"}
    /\ result.status = "success" =>
         /\ result.errors = {}
         /\ result.effects \subseteq result.request.allowed
         /\ result.request.required \subseteq result.kinds
         /\ "commit" \in result.effects => result.sha
=============================================================================
