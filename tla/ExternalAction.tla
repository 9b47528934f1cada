--------------------------- MODULE ExternalAction ---------------------------
(***************************************************************************)
(* What a coordinator promises for one logical external action: every      *)
(* operation is one atomic transition of a single record.  This is         *)
(* SafeExternalActionCoordinator (core/external_action_execution_v1.py),    *)
(* whose operations run under one RLock and which its docstring calls the  *)
(* reference semantics the durable coordinator mirrors.  A call the code   *)
(* refuses raises and changes nothing, so it is a stuttering step here.    *)
(***************************************************************************)
EXTENDS Naturals

CONSTANTS
    Attempt,    \* attempt ids
    Intent,     \* intents that share this logical action id
    Receipt,    \* confirmed-success receipts, with fields intent and attempt
    Nil         \* no intent, no owner, no receipt

VARIABLES
    phase,      \* CoordinatedAction.state, "NONE" before the first reservation
    intent,     \* the identity the logical key is bound to
    owner,      \* owner_attempt_id
    attempts,   \* attempt_count
    receipt     \* the confirmed receipt

avars == <<phase, intent, owner, attempts, receipt>>

Init ==
    /\ phase = "NONE"
    /\ intent = Nil
    /\ owner = Nil
    /\ attempts = 0
    /\ receipt = Nil

(* reserve with disposition INVOKE_ALLOWED: a first reservation binds the  *)
(* intent, a later one needs the earlier attempt proven without effect.    *)
Reserve(i, a) ==
    /\ \/ phase = "NONE"
       \/ phase \in {"PRE_EFFECT_FAILED", "CONFIRMED_NO_EFFECT"} /\ intent = i
    /\ phase' = "RESERVED"
    /\ intent' = i
    /\ owner' = a
    /\ attempts' = attempts + 1
    /\ receipt' = Nil

(* begin_dispatch, and mark_outcome_unknown which calls it: the fence       *)
(* before the provider is invoked.                                         *)
BeginDispatch(a) ==
    /\ phase = "RESERVED"
    /\ owner = a
    /\ phase' = "OUTCOME_UNKNOWN"
    /\ UNCHANGED <<intent, owner, attempts, receipt>>

MarkPreEffectFailed(a) ==
    /\ phase = "RESERVED"
    /\ owner = a
    /\ phase' = "PRE_EFFECT_FAILED"
    /\ UNCHANGED <<intent, owner, attempts, receipt>>

ConfirmNoEffect ==
    /\ phase = "OUTCOME_UNKNOWN"
    /\ phase' = "CONFIRMED_NO_EFFECT"
    /\ UNCHANGED <<intent, owner, attempts, receipt>>

(* A receipt is recorded under the attempt and the intent it names only. *)
RecordReceipt(r, outcome) ==
    /\ phase = "OUTCOME_UNKNOWN"
    /\ r.attempt = owner
    /\ r.intent = intent
    /\ phase' = outcome
    /\ receipt' = r
    /\ UNCHANGED <<intent, owner, attempts>>

ConfirmSuccess(r) == RecordReceipt(r, "CONFIRMED_EXTERNAL_SUCCESS")
RecoverReceipt(r) == RecordReceipt(r, "RECEIPT_RECOVERED")

Next ==
    \/ \E i \in Intent, a \in Attempt : Reserve(i, a)
    \/ \E a \in Attempt : BeginDispatch(a) \/ MarkPreEffectFailed(a)
    \/ ConfirmNoEffect
    \/ \E r \in Receipt : ConfirmSuccess(r) \/ RecoverReceipt(r)

Spec == Init /\ [][Next]_avars
=============================================================================
