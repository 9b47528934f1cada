--------------------------- MODULE ActionStreamFold ---------------------------
(***************************************************************************)
(* _load as the code computes it, record by record                         *)
(* (core/durable_external_action_v1.py), against ActionStream's closed     *)
(* definitions Foldable and Fold.  The streams are all streams of records,  *)
(* whatever another writer of the file could leave behind.                  *)
(***************************************************************************)
EXTENDS ActionStream

VARIABLES
    read,  \* the records the loop has read
    loaded \* the action it has computed from them

Raised == [NoAction EXCEPT !.phase = "raised"]

(* One turn of _load's loop: the record applied to what the loop has so far, *)
(* Raised once any check has failed.                                         *)
ApplyRecord(action, r) ==
    CASE action = Raised -> Raised
      [] action # Raised /\ action.phase = "NONE" ->
            IF r.type = "RESERVED"
            THEN [phase |-> "RESERVED", intent |-> r.intent, owner |-> r.attempt,
                  attempts |-> 1, receipt |-> Nil]
            ELSE Raised
      [] action # Raised /\ action.phase # "NONE" ->
            IF r.intent # action.intent
            THEN Raised
            ELSE CASE /\ r.type = "RESERVED"
                      /\ action.phase \in {"PRE_EFFECT_FAILED", "CONFIRMED_NO_EFFECT"} ->
                         [action EXCEPT !.phase = "RESERVED", !.owner = r.attempt,
                                        !.attempts = @ + 1, !.receipt = Nil]
                   [] /\ r.type = "DISPATCHED"
                      /\ action.phase = "RESERVED"
                      /\ r.attempt = action.owner ->
                         [action EXCEPT !.phase = "OUTCOME_UNKNOWN"]
                   [] r.type = "PRE_EFFECT_FAILED" /\ action.phase = "RESERVED" ->
                         [action EXCEPT !.phase = "PRE_EFFECT_FAILED"]
                   [] r.type = "OUTCOME_UNKNOWN" /\ action.phase = "RESERVED" ->
                         [action EXCEPT !.phase = "OUTCOME_UNKNOWN"]
                   [] r.type = "CONFIRMED_NO_EFFECT" /\ action.phase = "OUTCOME_UNKNOWN" ->
                         [action EXCEPT !.phase = "CONFIRMED_NO_EFFECT"]
                   [] /\ r.type \in {"CONFIRMED_SUCCESS", "RECEIPT_RECOVERED"}
                      /\ action.phase = "OUTCOME_UNKNOWN"
                      /\ r.receipt.attempt = action.owner
                      /\ r.receipt.intent = action.intent ->
                         [action EXCEPT !.phase = IF r.type = "CONFIRMED_SUCCESS"
                                                  THEN "CONFIRMED_EXTERNAL_SUCCESS"
                                                  ELSE "RECEIPT_RECOVERED",
                                        !.receipt = r.receipt]
                   [] OTHER -> Raised

(* A record of each type with the payload that type carries. *)
Bare(type, i) == [type |-> type, intent |-> i, attempt |-> Nil, ref |-> Nil, receipt |-> Nil]

AnyRecord ==
    UNION {
        {[Bare(t, i) EXCEPT !.attempt = a] :
            t \in EventType \ {"CONFIRMED_SUCCESS", "CONFIRMED_NO_EFFECT", "RECEIPT_RECOVERED"},
            i \in Intent, a \in Attempt},
        {Bare("CONFIRMED_NO_EFFECT", i) : i \in Intent},
        {[Bare(t, i) EXCEPT !.receipt = r] :
            t \in {"CONFIRMED_SUCCESS", "RECEIPT_RECOVERED"}, i \in Intent, r \in Receipt}}

LoadInit == read = <<>> /\ loaded = NoAction

(* One more record; a stream that ends here is a stream like any other. *)
Turn(r) == read' = Append(read, r) /\ loaded' = ApplyRecord(loaded, r)

LoadNext == \E r \in AnyRecord : Turn(r)

LoadSpec == LoadInit /\ [][LoadNext]_<<read, loaded>>

(* The loop accepts exactly the streams Foldable describes, and computes    *)
(* exactly Fold for them: what the other modules and proofs say of Fold is  *)
(* true of the code's loop.                                                 *)
FoldIsLoad == loaded = IF Foldable(read) THEN Fold(read) ELSE Raised
=============================================================================
