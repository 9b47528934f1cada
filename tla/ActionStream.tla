---------------------------- MODULE ActionStream ----------------------------
(***************************************************************************)
(* The append-only operational stream of ONE logical external action, and  *)
(* what DurableExternalActionCoordinator._load folds it to                 *)
(* (core/durable_external_action_v1.py).                                   *)
(*                                                                         *)
(* A record keeps what the coordinator's decisions read: the event type,   *)
(* the identity digest of the intent it was written for, the attempt id,   *)
(* the dispatch reference and the receipt.  Digests, timestamps, schemas   *)
(* and the text checks of the payload decoders are abstracted away.  The   *)
(* head of a stream is its length: a record digest covers the sequence     *)
(* number and the previous digest, so equal heads mean equal streams.      *)
(***************************************************************************)
EXTENDS Naturals, Sequences, FiniteSets

CONSTANTS
    Attempt,     \* attempt ids
    Intent,      \* immutable intents (identity digests) that name this logical action
    DispatchRef, \* dispatch references
    MaxEffects,  \* bound: provider effects a behaviour may contain
    Nil          \* a field a record does not have

ASSUME MaxEffectsAssumption == MaxEffects \in Nat

(* A confirmed-success receipt: the intent and attempt it names, and which  *)
(* provider effect it is evidence of.                                      *)
Receipt == [intent : Intent, attempt : Attempt, id : 1..MaxEffects]

ASSUME NilAssumption == Nil \notin Attempt \cup Intent \cup DispatchRef \cup Receipt

EventType == {"RESERVED", "DISPATCHED", "PRE_EFFECT_FAILED", "OUTCOME_UNKNOWN",
              "CONFIRMED_SUCCESS", "CONFIRMED_NO_EFFECT", "RECEIPT_RECOVERED"}

Record == [type    : EventType,
           intent  : Intent,
           attempt : Attempt \cup {Nil},
           ref     : DispatchRef \cup {Nil},
           receipt : Receipt \cup {Nil}]

(* Mutant of Confirmed: an unknown outcome is replayed as a confirmed one. *)
ConfirmedOrUnknown == {"CONFIRMED_EXTERNAL_SUCCESS", "RECEIPT_RECOVERED", "OUTCOME_UNKNOWN"}

(* Mutant of Retryable: an unknown outcome may be tried again. *)
RetryableOrUnknown == {"PRE_EFFECT_FAILED", "CONFIRMED_NO_EFFECT", "OUTCOME_UNKNOWN"}

Confirmed == {"CONFIRMED_EXTERNAL_SUCCESS", "RECEIPT_RECOVERED"}
Retryable == {"PRE_EFFECT_FAILED", "CONFIRMED_NO_EFFECT"}
Phase == {"NONE", "RESERVED", "OUTCOME_UNKNOWN"} \cup Retryable \cup Confirmed

(* The state a record leaves the action in. *)
PhaseAfter(type) ==
    CASE type = "RESERVED"            -> "RESERVED"
      [] type = "DISPATCHED"          -> "OUTCOME_UNKNOWN"
      [] type = "OUTCOME_UNKNOWN"     -> "OUTCOME_UNKNOWN"
      [] type = "PRE_EFFECT_FAILED"   -> "PRE_EFFECT_FAILED"
      [] type = "CONFIRMED_SUCCESS"   -> "CONFIRMED_EXTERNAL_SUCCESS"
      [] type = "CONFIRMED_NO_EFFECT" -> "CONFIRMED_NO_EFFECT"
      [] type = "RECEIPT_RECOVERED"   -> "RECEIPT_RECOVERED"

(* The states in which a record is a legal next record. *)
PhaseBefore(type) ==
    CASE type = "RESERVED" -> Retryable
      [] type \in {"DISPATCHED", "PRE_EFFECT_FAILED", "OUTCOME_UNKNOWN"} -> {"RESERVED"}
      [] type \in {"CONFIRMED_SUCCESS", "CONFIRMED_NO_EFFECT", "RECEIPT_RECOVERED"}
            -> {"OUTCOME_UNKNOWN"}

(* The latest reservation at or before position n. *)
IsOwnerIndex(s, n, j) ==
    /\ j \in 1..n
    /\ s[j].type = "RESERVED"
    /\ \A k \in (j + 1)..n : s[k].type # "RESERVED"

Owner(s, n) == s[CHOOSE j \in 1..n : IsOwnerIndex(s, n, j)].attempt

(* What a record says about the attempt that owns the reservation under it. *)
NamesOwner(r, owner) ==
    /\ r.type = "DISPATCHED" => r.attempt = owner
    /\ r.type \in {"CONFIRMED_SUCCESS", "RECEIPT_RECOVERED"} =>
           /\ r.receipt \in Receipt
           /\ r.receipt.attempt = owner
           /\ r.receipt.intent = r.intent

(* The streams _load accepts: it raises on every other. *)
Foldable(s) ==
    s # <<>> =>
       /\ s[1].type = "RESERVED"
       /\ \A n \in 1..Len(s) : s[n].intent = s[1].intent
       /\ \A n \in 2..Len(s) : /\ PhaseAfter(s[n - 1].type) \in PhaseBefore(s[n].type)
                               /\ NamesOwner(s[n], Owner(s, n - 1))

(* The reservations of a stream: one per attempt that was allowed to invoke. *)
Reservations(s) == {n \in 1..Len(s) : s[n].type = "RESERVED"}

NoAction == [phase |-> "NONE", intent |-> Nil, owner |-> Nil, attempts |-> 0, receipt |-> Nil]

(* The CoordinatedAction _load returns for a foldable stream. *)
Fold(s) ==
    IF s = <<>>
    THEN NoAction
    ELSE LET last == s[Len(s)]
         IN [phase    |-> PhaseAfter(last.type),
             intent   |-> s[1].intent,
             owner    |-> Owner(s, Len(s)),
             attempts |-> Cardinality(Reservations(s)),
             receipt  |-> IF PhaseAfter(last.type) \in Confirmed THEN last.receipt ELSE Nil]
=============================================================================
