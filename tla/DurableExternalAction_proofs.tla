--------------------- MODULE DurableExternalAction_proofs ---------------------
(***************************************************************************)
(* Proofs about DurableExternalAction for every set of workers, attempts,   *)
(* intents and references, every transition limit and every caller          *)
(* discipline.                                                             *)
(*                                                                         *)
(* The inductive invariant says what a worker's stale decision is worth: a  *)
(* worker about to append holds a head that is not newer than the stream,   *)
(* and IF that head still is the stream's head, the guards it evaluated     *)
(* (some of them in a later load than the one the head came from) still     *)
(* hold of the stream.  Compare-and-append then makes every committed       *)
(* record a legal transition of the reference coordinator.                  *)
(*                                                                         *)
(* Two further invariants, about callers whose attempts have references of  *)
(* their own: FInv, that the provider is called behind a durable dispatch,  *)
(* and DInv, that careful callers cause its effect once.                    *)
(***************************************************************************)
EXTENDS DurableExternalAction, ActionStreamFold, FiniteSetTheorems, TLAPS

-----------------------------------------------------------------------------
(* What appending one record does to Foldable and to Fold: lemmas about     *)
(* streams only, cited for the single step that changes a stream.           *)

(* Every position has a reservation at or before it.                        *)
HasOwners(s) == \A n \in 1..Len(s) : \E j \in 1..n : IsOwnerIndex(s, n, j)

(* There is one latest reservation, so Owner is its attempt.                *)
LEMMA OwnerOfIndex ==
    ASSUME NEW s \in Seq(Record), NEW n \in 1..Len(s), NEW j \in 1..n, IsOwnerIndex(s, n, j)
    PROVE  Owner(s, n) = s[j].attempt
<1>1. ASSUME NEW k \in 1..n, IsOwnerIndex(s, n, k)
      PROVE  k = j
  BY <1>1 DEF IsOwnerIndex
<1>2. QED
  BY <1>1 DEF Owner

(* A record appended later does not change the owner of an earlier position. *)
LEMMA OwnerOfPrefix ==
    ASSUME NEW s \in Seq(Record), NEW r \in Record, NEW n \in 1..Len(s), HasOwners(s)
    PROVE  Owner(Append(s, r), n) = Owner(s, n)
<1> DEFINE t == Append(s, r)
<1>1. t \in Seq(Record) /\ Len(t) = Len(s) + 1 /\ \A k \in 1..Len(s) : t[k] = s[k]
  OBVIOUS
<1>2. PICK j \in 1..n : IsOwnerIndex(s, n, j)
  BY DEF HasOwners
<1>3. IsOwnerIndex(t, n, j)
  BY <1>1, <1>2 DEF IsOwnerIndex
<1> HIDE DEF t
<1>4. Owner(t, n) = t[j].attempt
  BY <1>1, <1>3, OwnerOfIndex
<1>5. Owner(s, n) = s[j].attempt
  BY <1>2, OwnerOfIndex
<1>6. QED
  BY <1>1, <1>4, <1>5 DEF t

(* The owner after an append: the new reservation's attempt, else as before. *)
LEMMA OwnerAppend ==
    ASSUME NEW s \in Seq(Record), NEW r \in Record, HasOwners(s),
           s = <<>> => r.type = "RESERVED"
    PROVE  /\ HasOwners(Append(s, r))
           /\ Owner(Append(s, r), Len(s) + 1) =
                 IF r.type = "RESERVED" THEN r.attempt ELSE Owner(s, Len(s))
<1> DEFINE t == Append(s, r)
<1>1. /\ t \in Seq(Record) /\ Len(t) = Len(s) + 1 /\ t[Len(s) + 1] = r
      /\ \A k \in 1..Len(s) : t[k] = s[k]
      /\ Len(s) \in Nat
  OBVIOUS
<1>2. ASSUME NEW n \in 1..Len(s)
      PROVE  \E j \in 1..n : IsOwnerIndex(t, n, j)
  BY <1>1 DEF HasOwners, IsOwnerIndex
<1>3. CASE r.type = "RESERVED"
  <2>1. IsOwnerIndex(t, Len(s) + 1, Len(s) + 1)
    BY <1>1, <1>3 DEF IsOwnerIndex
  <2> HIDE DEF t
  <2>2. Owner(t, Len(s) + 1) = r.attempt
    BY <1>1, <2>1, OwnerOfIndex
  <2>3. HasOwners(t)
    BY <1>1, <1>2, <2>1 DEF HasOwners
  <2>4. QED
    BY <1>3, <2>2, <2>3 DEF t
<1>4. CASE r.type # "RESERVED"
  <2>1. s # <<>> /\ Len(s) \in 1..Len(s)
    BY <1>4
  <2>2. PICK j \in 1..Len(s) : IsOwnerIndex(s, Len(s), j)
    BY <2>1 DEF HasOwners
  <2>3. j \in 1..Len(s) + 1 /\ IsOwnerIndex(t, Len(s) + 1, j)
    BY <1>1, <1>4, <2>2 DEF IsOwnerIndex
  <2> HIDE DEF t
  <2>4. Owner(t, Len(s) + 1) = s[j].attempt
    BY <1>1, <2>3, OwnerOfIndex
  <2>5. Owner(s, Len(s)) = s[j].attempt
    BY <2>1, <2>2, OwnerOfIndex
  <2>6. HasOwners(t)
    BY <1>1, <1>2, <2>3 DEF HasOwners
  <2>7. QED
    BY <1>4, <2>4, <2>5, <2>6 DEF t
<1>5. QED
  BY <1>3, <1>4

(* A record that is legal after the last one keeps the stream foldable.     *)
LEMMA FoldableAppend ==
    ASSUME NEW s \in Seq(Record), NEW r \in Record, HasOwners(s), Foldable(s),
           s = <<>> => r.type = "RESERVED",
           s # <<>> => /\ r.intent = s[1].intent
                       /\ PhaseAfter(s[Len(s)].type) \in PhaseBefore(r.type)
                       /\ NamesOwner(r, Owner(s, Len(s)))
    PROVE  Foldable(Append(s, r))
<1> DEFINE t == Append(s, r)
<1>1. /\ t \in Seq(Record) /\ Len(t) = Len(s) + 1 /\ t[Len(s) + 1] = r
      /\ \A k \in 1..Len(s) : t[k] = s[k]
      /\ Len(s) \in Nat
  OBVIOUS
<1>2. CASE s = <<>>
  BY <1>1, <1>2 DEF Foldable
<1>3. CASE s # <<>>
  <2>1. Len(s) >= 1 /\ t[1] = s[1]
    BY <1>1, <1>3
  <2>2. t[1].type = "RESERVED" /\ \A n \in 1..Len(t) : t[n].intent = t[1].intent
    BY <1>1, <1>3, <2>1 DEF Foldable
  <2>3. ASSUME NEW n \in 2..Len(t)
        PROVE  PhaseAfter(t[n - 1].type) \in PhaseBefore(t[n].type)
    BY <1>1, <1>3, <2>1 DEF Foldable
  <2>4. ASSUME NEW n \in 2..Len(t)
        PROVE  NamesOwner(t[n], Owner(t, n - 1))
    <3>1. n - 1 \in 1..Len(s)
      BY <1>1
    <3>2. Owner(t, n - 1) = Owner(s, n - 1)
      BY <3>1, OwnerOfPrefix
    <3>3. CASE n = Len(s) + 1
      BY <1>1, <1>3, <3>2, <3>3
    <3>4. CASE n # Len(s) + 1
      <4>1. n \in 2..Len(s) /\ t[n] = s[n]
        BY <1>1, <3>4
      <4>2. QED
        BY <1>3, <3>2, <4>1 DEF Foldable
    <3>5. QED
      BY <3>3, <3>4
  <2>5. QED
    BY <2>2, <2>3, <2>4 DEF Foldable
<1>4. QED
  BY <1>2, <1>3

(* The number of reservations grows by the reservations appended.           *)
LEMMA ReservationsAppend ==
    ASSUME NEW s \in Seq(Record), NEW r \in Record
    PROVE  /\ Cardinality(Reservations(s)) \in Nat
           /\ Cardinality(Reservations(Append(s, r))) =
                 Cardinality(Reservations(s)) + (IF r.type = "RESERVED" THEN 1 ELSE 0)
<1> DEFINE R == Reservations(s)
           T == Reservations(Append(s, r))
<1>1. R \subseteq 1..Len(s) /\ Len(s) \in Nat
  BY DEF Reservations
<1>2. IsFiniteSet(1..Len(s))
  BY <1>1, FS_Interval
<1>3. IsFiniteSet(R)
  BY <1>1, <1>2, FS_Subset
<1>4. Cardinality(R) \in Nat
  BY <1>3, FS_CardinalityType
<1>5. T = IF r.type = "RESERVED" THEN R \cup {Len(s) + 1} ELSE R
  BY DEF Reservations
<1>6. Len(s) + 1 \notin R
  BY <1>1
<1> HIDE DEF R, T
<1>7. Cardinality(R \cup {Len(s) + 1}) = Cardinality(R) + 1
  BY <1>3, <1>6, FS_AddElement
<1>8. Cardinality(T) = Cardinality(R) + (IF r.type = "RESERVED" THEN 1 ELSE 0)
  BY <1>4, <1>5, <1>7
<1>9. QED
  BY <1>4, <1>8 DEF R, T

(* What _load returns after one more record.                                *)
LEMMA FoldAppend ==
    ASSUME NEW s \in Seq(Record), NEW r \in Record, HasOwners(s),
           s = <<>> => r.type = "RESERVED"
    PROVE  Fold(Append(s, r)) =
             [phase    |-> PhaseAfter(r.type),
              intent   |-> IF s = <<>> THEN r.intent ELSE Fold(s).intent,
              owner    |-> IF r.type = "RESERVED" THEN r.attempt ELSE Fold(s).owner,
              attempts |-> Fold(s).attempts + (IF r.type = "RESERVED" THEN 1 ELSE 0),
              receipt  |-> IF PhaseAfter(r.type) \in Confirmed THEN r.receipt ELSE Nil]
<1> DEFINE t == Append(s, r)
<1>1. /\ t # <<>> /\ Len(t) = Len(s) + 1 /\ t[Len(t)] = r
      /\ s # <<>> => t[1] = s[1]
      /\ s = <<>> => t[1] = r
  OBVIOUS
<1>2. Cardinality(Reservations(s)) \in Nat
      /\ Cardinality(Reservations(t)) = Cardinality(Reservations(s)) + (IF r.type = "RESERVED" THEN 1 ELSE 0)
  BY ReservationsAppend
<1>3. Owner(t, Len(t)) = IF r.type = "RESERVED" THEN r.attempt ELSE Owner(s, Len(s))
  BY <1>1, OwnerAppend
<1>4. s = <<>> => Cardinality(Reservations(s)) = 0
  <2>1. s = <<>> => Reservations(s) = {}
    BY DEF Reservations
  <2>2. QED
    BY <2>1, FS_EmptySet
<1> HIDE DEF t
<1>5. Fold(t) = [phase    |-> PhaseAfter(r.type),
                 intent   |-> t[1].intent,
                 owner    |-> Owner(t, Len(t)),
                 attempts |-> Cardinality(Reservations(t)),
                 receipt  |-> IF PhaseAfter(r.type) \in Confirmed THEN r.receipt ELSE Nil]
  BY <1>1 DEF Fold
<1>6. CASE s = <<>>
  <2>1. Fold(s).attempts = 0
    BY <1>6 DEF Fold, NoAction
  <2>2. QED
    BY <1>1, <1>2, <1>3, <1>4, <1>5, <1>6, <2>1 DEF t
<1>7. CASE s # <<>>
  <2>1. /\ Fold(s).intent = s[1].intent
        /\ Fold(s).owner = Owner(s, Len(s))
        /\ Fold(s).attempts = Cardinality(Reservations(s))
    BY <1>7 DEF Fold
  <2>2. QED
    BY <1>1, <1>2, <1>3, <1>5, <1>7, <2>1 DEF t
<1>8. QED
  BY <1>6, <1>7

-----------------------------------------------------------------------------
(* The loop of _load.                                                      *)

(* A record that may not come next: no stream that goes on from there folds. *)
Legal(s, r) ==
    /\ s = <<>> => r.type = "RESERVED"
    /\ s # <<>> => /\ r.intent = s[1].intent
                   /\ PhaseAfter(s[Len(s)].type) \in PhaseBefore(r.type)
                   /\ NamesOwner(r, Owner(s, Len(s)))

StartsReserved(s) == s # <<>> => s[1].type = "RESERVED"

(* A foldable stream is a foldable stream and a record legal after it.      *)
LEMMA FoldableIff ==
    ASSUME NEW s \in Seq(Record), NEW r \in Record, StartsReserved(s) => HasOwners(s)
    PROVE  Foldable(Append(s, r)) <=> Foldable(s) /\ Legal(s, r)
<1> DEFINE t == Append(s, r)
<1>1. /\ t \in Seq(Record) /\ Len(t) = Len(s) + 1 /\ t[Len(s) + 1] = r /\ t # <<>>
      /\ \A k \in 1..Len(s) : t[k] = s[k]
      /\ Len(s) \in Nat /\ (s = <<>> <=> Len(s) = 0)
  OBVIOUS
<1>2. ASSUME Foldable(s), Legal(s, r)
      PROVE  Foldable(t)
  BY <1>2, FoldableAppend DEF Legal, Foldable, StartsReserved
<1>3. ASSUME Foldable(t)
      PROVE  Foldable(s) /\ Legal(s, r)
  <2> HIDE DEF t
  <2>1. /\ t[1].type = "RESERVED"
        /\ \A n \in 1..Len(t) : t[n].intent = t[1].intent
        /\ \A n \in 2..Len(t) : /\ PhaseAfter(t[n - 1].type) \in PhaseBefore(t[n].type)
                                /\ NamesOwner(t[n], Owner(t, n - 1))
    BY <1>1, <1>3 DEF Foldable
  <2>2. CASE s = <<>>
    BY <1>1, <2>1, <2>2 DEF Foldable, Legal
  <2>3. CASE s # <<>>
    <3>1. s[1] = t[1] /\ 1 \in 1..Len(s) /\ Len(s) \in 1..Len(s)
      BY <1>1, <2>3
    <3>2. HasOwners(s)
      BY <2>1, <3>1 DEF StartsReserved
    <3>3. ASSUME NEW n \in 1..Len(s)
          PROVE  Owner(t, n) = Owner(s, n)
      BY <3>2, OwnerOfPrefix DEF t
    <3>4. Foldable(s)
      <4>1. \A n \in 1..Len(s) : n \in 1..Len(t) /\ t[n] = s[n]
        BY <1>1
      <4>2. ASSUME NEW n \in 2..Len(s)
            PROVE  /\ PhaseAfter(s[n - 1].type) \in PhaseBefore(s[n].type)
                   /\ NamesOwner(s[n], Owner(s, n - 1))
        <5>1. n \in 2..Len(t) /\ n \in 1..Len(s) /\ n - 1 \in 1..Len(s)
          BY <1>1
        <5>2. t[n] = s[n] /\ t[n - 1] = s[n - 1] /\ Owner(t, n - 1) = Owner(s, n - 1)
          BY <3>3, <4>1, <5>1
        <5>3. QED
          BY <2>1, <5>1, <5>2
      <4>3. QED
        BY <2>1, <3>1, <4>1, <4>2 DEF Foldable
    <3>5. Legal(s, r)
      BY <1>1, <2>1, <2>3, <3>1, <3>3 DEF Legal
    <3>6. QED
      BY <3>4, <3>5
  <2>4. QED
    BY <2>2, <2>3
<1>4. QED
  BY <1>2, <1>3

(* What the loop has read is a stream of records, and a stream that starts  *)
(* with a reservation has an owner at every position.                       *)
LoadInv ==
    /\ read \in Seq(Record)
    /\ StartsReserved(read) => HasOwners(read)
    /\ FoldIsLoad

(* Records carry a receipt exactly when their type confirms.                *)
LEMMA RecordTypes ==
    ASSUME NEW r \in AnyRecord
    PROVE  /\ r \in Record
           /\ r.type \in {"CONFIRMED_SUCCESS", "RECEIPT_RECOVERED"} => r.receipt \in Receipt
<1>1. CASE \E t \in EventType \ {"CONFIRMED_SUCCESS", "CONFIRMED_NO_EFFECT", "RECEIPT_RECOVERED"},
              i \in Intent, b \in Attempt : r = [Bare(t, i) EXCEPT !.attempt = b]
  BY <1>1 DEF Bare, Record, EventType
<1>2. CASE \E i \in Intent : r = Bare("CONFIRMED_NO_EFFECT", i)
  BY <1>2 DEF Bare, Record, EventType
<1>3. CASE \E t \in {"CONFIRMED_SUCCESS", "RECEIPT_RECOVERED"}, i \in Intent, c \in Receipt :
              r = [Bare(t, i) EXCEPT !.receipt = c]
  <2>1. PICK t \in {"CONFIRMED_SUCCESS", "RECEIPT_RECOVERED"}, i \in Intent, c \in Receipt :
              r = [type |-> t, intent |-> i, attempt |-> Nil, ref |-> Nil, receipt |-> c]
    BY <1>3 DEF Bare
  <2>2. QED
    BY <2>1 DEF Record, EventType
<1>4. QED
  BY <1>1, <1>2, <1>3 DEF AnyRecord

(* The action of a foldable stream, read off its last record.               *)
LEMMA FoldFacts ==
    ASSUME NEW s \in Seq(Record), Foldable(s)
    PROVE  /\ Fold(s) # Raised
           /\ s = <<>> => Fold(s) = NoAction /\ Fold(s).phase = "NONE"
           /\ s # <<>> => /\ Fold(s).phase = PhaseAfter(s[Len(s)].type)
                          /\ Fold(s).phase \in Phase \ {"NONE"}
                          /\ Fold(s).intent = s[1].intent
                          /\ Fold(s).owner = Owner(s, Len(s))
                          /\ Fold(s).phase \notin Confirmed => Fold(s).receipt = Nil
                          /\ Fold(s) = [phase |-> Fold(s).phase, intent |-> Fold(s).intent,
                                        owner |-> Fold(s).owner, attempts |-> Fold(s).attempts,
                                        receipt |-> Fold(s).receipt]
<1>1. s # <<>> => s[Len(s)] \in Record
  OBVIOUS
<1>2. QED
  BY <1>1 DEF Fold, NoAction, Raised, PhaseAfter, Phase, Retryable, Confirmed, Record, EventType

(* One turn of the loop extends what it has computed to one more record.    *)
LEMMA TurnFolds ==
    ASSUME NEW s \in Seq(Record), NEW r \in AnyRecord, StartsReserved(s) => HasOwners(s),
           NEW a, a = IF Foldable(s) THEN Fold(s) ELSE Raised
    PROVE  ApplyRecord(a, r) = IF Foldable(Append(s, r)) THEN Fold(Append(s, r)) ELSE Raised
<1>1. r \in Record /\ (r.type \in {"CONFIRMED_SUCCESS", "RECEIPT_RECOVERED"} => r.receipt \in Receipt)
  BY RecordTypes
<1>2. Foldable(Append(s, r)) <=> Foldable(s) /\ Legal(s, r)
  BY <1>1, FoldableIff
<1>3. CASE ~Foldable(s)
  BY <1>2, <1>3 DEF ApplyRecord
<1>4. CASE Foldable(s) /\ s = <<>>
  <2>1. a = NoAction /\ a # Raised /\ a.phase = "NONE"
    BY <1>4 DEF Fold, NoAction, Raised
  <2>2. CASE r.type = "RESERVED"
    <3>1. ApplyRecord(a, r) = [phase |-> "RESERVED", intent |-> r.intent, owner |-> r.attempt,
                               attempts |-> 1, receipt |-> Nil]
      BY <2>1, <2>2 DEF ApplyRecord
    <3>2. Fold(s).attempts = 0 /\ HasOwners(s)
      BY <1>4 DEF Fold, NoAction, HasOwners
    <3>3. PhaseAfter(r.type) = "RESERVED" /\ "RESERVED" \notin Confirmed
      BY <2>2 DEF PhaseAfter, Confirmed
    <3>4. Fold(Append(s, r)) = [phase |-> PhaseAfter(r.type), intent |-> r.intent,
                                owner |-> r.attempt, attempts |-> Fold(s).attempts + 1,
                                receipt |-> Nil]
      <4>1. Fold(Append(s, r)) =
              [phase    |-> PhaseAfter(r.type),
               intent   |-> IF s = <<>> THEN r.intent ELSE Fold(s).intent,
               owner    |-> IF r.type = "RESERVED" THEN r.attempt ELSE Fold(s).owner,
               attempts |-> Fold(s).attempts + (IF r.type = "RESERVED" THEN 1 ELSE 0),
               receipt  |-> IF PhaseAfter(r.type) \in Confirmed THEN r.receipt ELSE Nil]
        BY <1>1, <2>2, <3>2, FoldAppend
      <4>2. QED
        BY <1>4, <2>2, <3>3, <4>1
    <3>5. QED
      BY <1>2, <1>4, <2>2, <3>1, <3>2, <3>3, <3>4 DEF Legal
  <2>3. CASE r.type # "RESERVED"
    BY <1>2, <1>4, <2>1, <2>3 DEF ApplyRecord, Legal
  <2>4. QED
    BY <2>2, <2>3
<1>5. CASE Foldable(s) /\ s # <<>>
  <2>1. /\ a = Fold(s) /\ a # Raised /\ a.phase # "NONE"
        /\ a.phase = PhaseAfter(s[Len(s)].type) /\ a.intent = s[1].intent
        /\ a.owner = Owner(s, Len(s))
        /\ a.phase \notin Confirmed => a.receipt = Nil
        /\ a = [phase |-> a.phase, intent |-> a.intent, owner |-> a.owner,
                attempts |-> a.attempts, receipt |-> a.receipt]
    BY <1>5, FoldFacts
  <2>2. HasOwners(s)
    BY <1>5 DEF Foldable, StartsReserved
  <2>3. Fold(Append(s, r)) =
          [phase    |-> PhaseAfter(r.type),
           intent   |-> a.intent,
           owner    |-> IF r.type = "RESERVED" THEN r.attempt ELSE a.owner,
           attempts |-> a.attempts + (IF r.type = "RESERVED" THEN 1 ELSE 0),
           receipt  |-> IF PhaseAfter(r.type) \in Confirmed THEN r.receipt ELSE Nil]
    BY <1>1, <1>5, <2>1, <2>2, FoldAppend
  <2>4. a.attempts \in Nat
    BY <1>1, <1>5, <2>1, ReservationsAppend DEF Fold
  <2>5. Legal(s, r) <=> /\ r.intent = a.intent
                        /\ a.phase \in PhaseBefore(r.type)
                        /\ NamesOwner(r, a.owner)
    BY <1>5, <2>1 DEF Legal
  <2>6. CASE r.intent # a.intent
    BY <1>2, <2>1, <2>5, <2>6 DEF ApplyRecord
  <2>7. CASE r.intent = a.intent
    <3>1. r.type \in EventType
      BY <1>1 DEF Record
    <3> HIDE DEF Legal
    <3>2. CASE r.type = "RESERVED"
      <4>1. Legal(s, r) <=> a.phase \in Retryable
        BY <2>5, <2>7, <3>2 DEF PhaseBefore, NamesOwner
      <4>2. CASE a.phase \in Retryable
        <5>1. ApplyRecord(a, r) =
                 [a EXCEPT !.phase = "RESERVED", !.owner = r.attempt,
                           !.attempts = @ + 1, !.receipt = Nil]
          BY <2>1, <2>7, <3>2, <4>2 DEF ApplyRecord, Retryable
        <5>2. ApplyRecord(a, r) =
                 [phase |-> "RESERVED", intent |-> a.intent, owner |-> r.attempt,
                  attempts |-> a.attempts + 1, receipt |-> Nil]
          BY <2>1, <5>1
        <5>3. QED
          BY <1>2, <1>5, <2>3, <3>2, <4>1, <4>2, <5>2 DEF PhaseAfter, Confirmed
      <4>3. CASE a.phase \notin Retryable
        BY <1>2, <2>1, <2>7, <3>2, <4>1, <4>3 DEF ApplyRecord, Retryable
      <4>4. QED
        BY <4>2, <4>3
    <3>3. CASE r.type = "DISPATCHED"
      BY <1>2, <1>5, <2>1, <2>3, <2>4, <2>5, <2>7, <3>3
      DEF ApplyRecord, PhaseAfter, PhaseBefore, NamesOwner, Retryable, Confirmed
    <3>4. CASE r.type \in {"PRE_EFFECT_FAILED", "OUTCOME_UNKNOWN", "CONFIRMED_NO_EFFECT"}
      BY <1>2, <1>5, <2>1, <2>3, <2>4, <2>5, <2>7, <3>4
      DEF ApplyRecord, PhaseAfter, PhaseBefore, NamesOwner, Retryable, Confirmed
    <3>5. CASE r.type \in {"CONFIRMED_SUCCESS", "RECEIPT_RECOVERED"}
      <4>1. Legal(s, r) <=> /\ a.phase = "OUTCOME_UNKNOWN"
                            /\ r.receipt.attempt = a.owner
                            /\ r.receipt.intent = a.intent
        BY <1>1, <2>5, <2>7, <3>5 DEF PhaseBefore, NamesOwner
      <4>2. CASE Legal(s, r)
        <5>1. ApplyRecord(a, r) = [a EXCEPT !.phase = PhaseAfter(r.type), !.receipt = r.receipt]
          BY <2>1, <2>7, <3>5, <4>1, <4>2 DEF ApplyRecord, PhaseAfter
        <5>2. ApplyRecord(a, r) =
                 [phase |-> PhaseAfter(r.type), intent |-> a.intent, owner |-> a.owner,
                  attempts |-> a.attempts, receipt |-> r.receipt]
          BY <2>1, <5>1
        <5>3. PhaseAfter(r.type) \in Confirmed
          BY <3>5 DEF PhaseAfter, Confirmed
        <5>4. QED
          BY <1>2, <1>5, <2>3, <2>4, <3>5, <4>2, <5>2, <5>3
      <4>3. CASE ~Legal(s, r)
        BY <1>2, <2>1, <2>7, <3>5, <4>1, <4>3 DEF ApplyRecord
      <4>4. QED
        BY <4>2, <4>3
    <3>6. QED
      BY <3>1, <3>2, <3>3, <3>4, <3>5 DEF EventType
  <2>8. QED
    BY <2>6, <2>7
<1>6. QED
  BY <1>3, <1>4, <1>5

(* Every turn keeps the invariant.                                          *)
LEMMA LoadInvariant == LoadSpec => []LoadInv
<1>1. LoadInit => LoadInv
  <2>1. Foldable(<<>>) /\ Fold(<<>>) = NoAction /\ HasOwners(<<>>)
    BY DEF Foldable, Fold, HasOwners
  <2>2. QED
    BY <2>1 DEF LoadInit, LoadInv, FoldIsLoad
<1>2. LoadInv /\ [LoadNext]_<<read, loaded>> => LoadInv'
  <2>1. ASSUME LoadInv, NEW r \in AnyRecord, Turn(r)
        PROVE  LoadInv'
    <3>1. r \in Record /\ read' \in Seq(Record)
      BY <2>1, RecordTypes DEF LoadInv, Turn
    <3>2. FoldIsLoad'
      BY <2>1, TurnFolds DEF LoadInv, FoldIsLoad, Turn
    <3>3. StartsReserved(read') => HasOwners(read')
      <4>1. SUFFICES ASSUME StartsReserved(read')
                     PROVE  HasOwners(read')
        OBVIOUS
      <4>2. StartsReserved(read) /\ (read = <<>> => r.type = "RESERVED")
        BY <2>1, <3>1, <4>1 DEF StartsReserved, Turn, LoadInv
      <4>3. QED
        BY <2>1, <3>1, <4>2, OwnerAppend DEF LoadInv, Turn
    <3>4. QED
      BY <3>1, <3>2, <3>3 DEF LoadInv
  <2>2. ASSUME LoadInv, UNCHANGED <<read, loaded>>
        PROVE  LoadInv'
    BY <2>2 DEF LoadInv, FoldIsLoad
  <2>3. QED
    BY <2>1, <2>2 DEF LoadNext
<1>3. QED
  BY <1>1, <1>2, PTL DEF LoadSpec

(* The loop of _load accepts exactly the foldable streams and computes      *)
(* exactly Fold: for streams of every length.                               *)
THEOREM LoadComputesFold == LoadSpec => []FoldIsLoad
<1>1. LoadInv => FoldIsLoad
  BY DEF LoadInv
<1>2. QED
  BY <1>1, LoadInvariant, PTL

-----------------------------------------------------------------------------
(* The inductive invariant.                                                *)

(* Arguments of a running call.                                             *)
CallOK(w) ==
    /\ pc[w] # "idle" => /\ call[w].op \in StandaloneOp \cup {"reserve"}
                         /\ call[w].intent \in Intent
                         /\ call[w].attempt \in Attempt
    /\ pc[w] \in {"records", "recheck_records", "invoke"} => call[w].op = "begin_dispatch"
    /\ pc[w] = "invoke" => call[w].exec
    /\ pc[w] = "owned" => call[w].op \in Marks \cup {"begin_dispatch"}
    /\ call[w].op \in WithReceipt => /\ call[w].receipt \in Receipt
                                     /\ call[w].receipt.attempt = call[w].attempt
                                     /\ call[w].receipt.intent = call[w].intent

(* The guards of the operation, of the stream as it is now.                 *)
Appendable(w) ==
    /\ stream # <<>> => stream[1].intent = call[w].intent
    /\ call[w].op = "reserve" => current.phase \in {"NONE"} \cup Retryable
    /\ call[w].op \in Marks \cup {"begin_dispatch"} =>
           current.phase = "RESERVED" /\ current.owner = call[w].attempt
    /\ call[w].op = "confirm_no_effect" => current.phase = "OUTCOME_UNKNOWN"
    /\ call[w].op \in WithReceipt =>
           current.phase = "OUTCOME_UNKNOWN" /\ current.owner = call[w].attempt

HeadOK(w) ==
    /\ head[w] <= Len(stream)
    /\ pc[w] = "append" /\ head[w] = Len(stream) => Appendable(w)

IInv ==
    /\ TypeOK
    /\ StreamFoldable
    /\ HasOwners(stream)
    /\ \A w \in Worker : CallOK(w) /\ HeadOK(w)

-----------------------------------------------------------------------------
LEMMA InitIInv == Init => IInv
<1> SUFFICES ASSUME Init PROVE IInv
  OBVIOUS
<1>1. TypeOK
  BY DEF Init, TypeOK, Call, NoCall, Op, StandaloneOp, Step
<1>2. StreamFoldable /\ HasOwners(stream)
  BY DEF Init, StreamFoldable, Foldable, HasOwners
<1>3. \A w \in Worker : CallOK(w) /\ HeadOK(w)
  BY DEF Init, CallOK, HeadOK, NoCall, WithReceipt
<1>4. QED
  BY <1>1, <1>2, <1>3 DEF IInv

(* What the stream looks like to a worker that may append to it.            *)
LEMMA AppendStep ==
    ASSUME IInv, NEW w \in Worker, AppendCommits(w)
    PROVE  /\ RecordOf(call[w]) \in Record
           /\ Appendable(w)
           /\ stream = <<>> => call[w].op = "reserve"
           /\ stream' = Append(stream, RecordOf(call[w]))
           /\ StreamFoldable'
           /\ HasOwners(stream)'
<1> DEFINE c == call[w]
           r == RecordOf(c)
<1>1. /\ c \in Call /\ c.op \in StandaloneOp \cup {"reserve"}
      /\ c.intent \in Intent /\ c.attempt \in Attempt
      /\ stream \in Seq(Record)
  BY DEF IInv, TypeOK, CallOK, AppendCommits
<1>2. Appendable(w) /\ stream' = Append(stream, r)
  BY DEF IInv, HeadOK, AppendCommits, HeadMatches
<1>3. r \in Record
  BY <1>1 DEF RecordOf, Record, Call, StandaloneOp, EventType
<1>4. stream = <<>> => current.phase = "NONE"
  BY DEF current, Fold, NoAction
<1>5. stream = <<>> => c.op = "reserve"
  BY <1>1, <1>2, <1>4 DEF Appendable, StandaloneOp, Marks, WithReceipt
<1>6. stream # <<>> => /\ r.intent = stream[1].intent
                       /\ PhaseAfter(stream[Len(stream)].type) \in PhaseBefore(r.type)
                       /\ NamesOwner(r, Owner(stream, Len(stream)))
  <2> SUFFICES ASSUME stream # <<>>
               PROVE  /\ r.intent = stream[1].intent
                      /\ PhaseAfter(stream[Len(stream)].type) \in PhaseBefore(r.type)
                      /\ NamesOwner(r, Owner(stream, Len(stream)))
    OBVIOUS
  <2>1. /\ current.phase = PhaseAfter(stream[Len(stream)].type)
        /\ current.owner = Owner(stream, Len(stream))
    BY DEF Fold, current
  <2>2. current.phase # "NONE"
    <3>1. stream[Len(stream)] \in Record
      BY <1>1
    <3>2. stream[Len(stream)].type \in EventType
      BY <3>1 DEF Record
    <3>3. QED
      BY <2>1, <3>2 DEF PhaseAfter, EventType
  <2>3. r.intent = stream[1].intent
    BY <1>2 DEF RecordOf, Appendable
  <2>4. PhaseAfter(stream[Len(stream)].type) \in PhaseBefore(r.type)
    BY <1>1, <1>2, <2>1, <2>2
       DEF RecordOf, Appendable, PhaseBefore, StandaloneOp, Marks, WithReceipt, Retryable
  <2>5. c.op \in WithReceipt => /\ c.receipt \in Receipt
                                /\ c.receipt.attempt = c.attempt
                                /\ c.receipt.intent = c.intent
    BY DEF IInv, CallOK
  <2>6. NamesOwner(r, Owner(stream, Len(stream)))
    BY <1>1, <1>2, <2>1, <2>5
       DEF NamesOwner, RecordOf, Appendable, StandaloneOp, Marks, WithReceipt
  <2>7. QED
    BY <2>3, <2>4, <2>6
<1>7. stream = <<>> => r.type = "RESERVED"
  BY <1>5 DEF RecordOf
<1>8. Foldable(stream) /\ HasOwners(stream)
  BY DEF IInv, StreamFoldable
<1> HIDE DEF r
<1>9. Foldable(Append(stream, r))
  BY <1>1, <1>3, <1>6, <1>7, <1>8, FoldableAppend
<1>10. HasOwners(Append(stream, r))
  BY <1>1, <1>3, <1>7, <1>8, OwnerAppend
<1>11. QED
  BY <1>2, <1>3, <1>5, <1>9, <1>10 DEF r, StreamFoldable

-----------------------------------------------------------------------------
(* Steps that only move one worker on.                                     *)

(* What a step of w leaves alone in the other workers.                      *)
OthersKeep(w) ==
    \A v \in Worker \ {w} : pc'[v] = pc[v] /\ call'[v] = call[v] /\ head'[v] = head[v]

StoreTyped ==
    /\ effects' \in Seq(Receipt)
    /\ returned' \subseteq Receipt
    /\ evidence' \in [Worker -> Attempt \cup {Nil}]

LEMMA LocalStep ==
    ASSUME IInv, NEW w \in Worker, stream' = stream, TypeOK', OthersKeep(w),
           CallOK(w)', HeadOK(w)'
    PROVE  IInv'
<1>1. ASSUME NEW v \in Worker, v # w
      PROVE  CallOK(v)' /\ HeadOK(v)'
  <2>1. CallOK(v) /\ HeadOK(v)
    BY DEF IInv
  <2>2. pc'[v] = pc[v] /\ call'[v] = call[v] /\ head'[v] = head[v]
    BY <1>1 DEF OthersKeep
  <2>3. QED
    BY <2>1, <2>2 DEF CallOK, HeadOK, Appendable, current
<1>2. StreamFoldable' /\ HasOwners(stream)'
  BY DEF IInv, StreamFoldable
<1>3. QED
  BY <1>1, <1>2 DEF IInv

LEMMA FinishStep ==
    ASSUME IInv, NEW w \in Worker, Finish(w), stream' = stream, StoreTyped
    PROVE  IInv'
<1>1. TypeOK'
  BY DEF IInv, TypeOK, Finish, StoreTyped, Step, Call, NoCall, Op
<1>2. OthersKeep(w)
  BY DEF OthersKeep, Finish, IInv, TypeOK
<1>3. pc'[w] = "idle" /\ call'[w] = NoCall /\ head'[w] = 0
  BY DEF Finish, IInv, TypeOK
<1>4. CallOK(w)'
  BY <1>3 DEF CallOK, NoCall, WithReceipt
<1>5. HeadOK(w)'
  BY <1>3 DEF HeadOK, IInv, TypeOK
<1>6. QED
  BY <1>1, <1>2, <1>4, <1>5, LocalStep

LEMMA GotoStep ==
    ASSUME IInv, NEW w \in Worker, NEW step \in Step, Goto(w, step), stream' = stream,
           StoreTyped, pc[w] # "idle",
           step \in {"records", "recheck_records", "invoke"} => call[w].op = "begin_dispatch",
           step = "invoke" => call[w].exec,
           step = "owned" => call[w].op \in Marks \cup {"begin_dispatch"},
           step = "append" => Appendable(w)
    PROVE  IInv'
<1>1. TypeOK'
  BY DEF IInv, TypeOK, Goto, StoreTyped
<1>2. OthersKeep(w)
  BY DEF OthersKeep, Goto, IInv, TypeOK
<1>3. pc'[w] = step /\ call'[w] = call[w] /\ head'[w] = head[w]
  BY DEF Goto, IInv, TypeOK
<1>4. CallOK(w)'
  BY <1>3 DEF CallOK, IInv
<1>5. HeadOK(w)'
  BY <1>3 DEF HeadOK, IInv, Appendable, current
<1>6. QED
  BY <1>1, <1>2, <1>4, <1>5, LocalStep

LEMMA RememberStep ==
    ASSUME IInv, NEW w \in Worker, NEW step \in {"append", "records", "owned"},
           Remember(w, step), UNCHANGED <<store, evidence>>, pc[w] # "idle",
           step = "records" => call[w].op = "begin_dispatch",
           step = "owned" => call[w].op \in Marks \cup {"begin_dispatch"},
           step = "append" => Appendable(w)
    PROVE  IInv'
<1>1. TypeOK'
  BY DEF IInv, TypeOK, Remember, store, Step
<1>2. OthersKeep(w)
  BY DEF OthersKeep, Remember, IInv, TypeOK
<1>3. pc'[w] = step /\ call'[w] = call[w] /\ head'[w] = Len(stream) /\ stream' = stream
  BY DEF Remember, IInv, TypeOK, store
<1>4. CallOK(w)'
  BY <1>3 DEF CallOK, IInv
<1>5. HeadOK(w)'
  BY <1>3 DEF HeadOK, IInv, TypeOK, Appendable, current
<1>6. QED
  BY <1>1, <1>2, <1>3, <1>4, <1>5, LocalStep

LEMMA ProceedStep ==
    ASSUME IInv, NEW w \in Worker, NEW op, NEW receipt,
           \/ op = "begin_dispatch" /\ receipt = Nil
           \/ /\ op = "confirm_success"
              /\ receipt \in Receipt
              /\ receipt.attempt = call[w].attempt
              /\ receipt.intent = call[w].intent,
           Proceed(w, op, receipt), stream' = stream, StoreTyped, pc[w] # "idle"
    PROVE  IInv'
<1>1. call[w] \in Call
  BY DEF IInv, TypeOK
<1>2. [call[w] EXCEPT !.op = op, !.receipt = receipt] \in Call
  BY <1>1 DEF Call, Op, StandaloneOp
<1>3. TypeOK'
  BY <1>2 DEF IInv, TypeOK, Proceed, StoreTyped, Step
<1>4. OthersKeep(w)
  BY DEF OthersKeep, Proceed, IInv, TypeOK
<1>5. /\ pc'[w] = "load" /\ head'[w] = 0
      /\ call'[w] = [call[w] EXCEPT !.op = op, !.receipt = receipt]
  BY DEF Proceed, IInv, TypeOK
<1>6. call[w].intent \in Intent /\ call[w].attempt \in Attempt
  BY DEF IInv, CallOK
<1>7. CallOK(w)'
  BY <1>1, <1>5, <1>6 DEF CallOK, Call, StandaloneOp, WithReceipt
<1>8. HeadOK(w)'
  BY <1>5 DEF HeadOK, IInv, TypeOK
<1>9. QED
  BY <1>3, <1>4, <1>7, <1>8, LocalStep

(* A confirmed stream carries a receipt.                                    *)
LEMMA ConfirmedReceipt ==
    ASSUME IInv, current.receipt # Nil \/ current.phase \in Confirmed
    PROVE  current.receipt \in Receipt /\ current.phase \in Confirmed
<1>1. stream # <<>>
  BY DEF current, Fold, NoAction, Confirmed
<1> DEFINE last == stream[Len(stream)]
<1>2. /\ stream \in Seq(Record) /\ Len(stream) \in 1..Len(stream)
      /\ Foldable(stream)
  BY <1>1 DEF IInv, TypeOK, StreamFoldable
<1>3. PhaseAfter(last.type) \in Confirmed /\ current.receipt = last.receipt
      /\ current.phase = PhaseAfter(last.type)
  BY <1>1 DEF current, Fold
<1>4. last \in Record
  BY <1>2
<1>5. last.type \in {"CONFIRMED_SUCCESS", "RECEIPT_RECOVERED"}
  BY <1>3, <1>4 DEF Record, EventType, PhaseAfter, Confirmed
<1>6. Len(stream) # 1
  BY <1>1, <1>2, <1>5 DEF Foldable
<1>7. NamesOwner(last, Owner(stream, Len(stream) - 1))
  <2>1. \A n \in 2..Len(stream) : NamesOwner(stream[n], Owner(stream, n - 1))
    BY <1>1, <1>2, Zenon DEF Foldable
  <2>2. Len(stream) \in Nat /\ Len(stream) >= 1
    BY <1>1, <1>2
  <2>3. \A n \in Nat : n >= 1 /\ n # 1 => n \in 2..n
    OBVIOUS
  <2>4. Len(stream) \in 2..Len(stream)
    BY <1>6, <2>2, <2>3
  <2>5. QED
    BY <2>1, <2>4
<1>8. QED
  BY <1>3, <1>5, <1>7 DEF NamesOwner

LEMMA AppendCommitsStep ==
    ASSUME IInv, NEW w \in Worker, AppendCommits(w)
    PROVE  IInv'
<1> DEFINE r == RecordOf(call[w])
<1>1. /\ r \in Record /\ stream' = Append(stream, r)
      /\ StreamFoldable' /\ HasOwners(stream)'
  BY AppendStep
<1> HIDE DEF r
<1>2. stream \in Seq(Record) /\ stream' \in Seq(Record) /\ Len(stream') = Len(stream) + 1
  BY <1>1 DEF IInv, TypeOK
<1>3. TypeOK'
  BY <1>2 DEF IInv, TypeOK, AppendCommits, Goto, Step
<1>4. /\ \A v \in Worker : call'[v] = call[v] /\ head'[v] = head[v]
      /\ \A v \in Worker : v # w => pc'[v] = pc[v]
      /\ pc'[w] = "verify" /\ pc[w] = "append"
  BY DEF AppendCommits, Goto, IInv, TypeOK
<1>5. ASSUME NEW v \in Worker
      PROVE  CallOK(v)' /\ HeadOK(v)'
  <2>1. CallOK(v) /\ head[v] <= Len(stream) /\ head[v] \in Nat
    BY DEF IInv, HeadOK, TypeOK
  <2>2. CallOK(v)'
    BY <1>4, <2>1 DEF CallOK
  <2>3. HeadOK(v)'
    BY <1>2, <1>4, <2>1 DEF HeadOK
  <2>4. QED
    BY <2>2, <2>3
<1>6. QED
  BY <1>1, <1>3, <1>5 DEF IInv

LEMMA FinishWithStep ==
    ASSUME IInv, NEW w \in Worker, NEW receipt \in Receipt, FinishWith(w, receipt)
    PROVE  IInv'
<1>1. StoreTyped /\ stream' = stream /\ Finish(w)
  BY DEF FinishWith, StoreTyped, IInv, TypeOK
<1>2. QED
  BY <1>1, FinishStep

LEMMA DispatchedStep ==
    ASSUME IInv, NEW w \in Worker, Dispatched(w), UNCHANGED <<store, evidence>>,
           pc[w] # "idle", call[w].op = "begin_dispatch"
    PROVE  IInv'
<1>1. StoreTyped /\ stream' = stream
  BY DEF store, StoreTyped, IInv, TypeOK
<1>2. CASE call[w].exec
  BY <1>1, <1>2, GotoStep DEF Dispatched, Step
<1>3. CASE ~call[w].exec
  BY <1>1, <1>3, FinishStep DEF Dispatched
<1>4. QED
  BY <1>2, <1>3

(* Every step the coordinator takes by itself.                              *)
LEMMA RunStep ==
    ASSUME IInv, NEW w \in Worker, Run(w)
    PROVE  IInv'
<1>1. UNCHANGED <<store, evidence>> => StoreTyped /\ stream' = stream
  BY DEF store, StoreTyped, IInv, TypeOK
<1>2. pc[w] # "idle" => call[w].op \in StandaloneOp \cup {"reserve"}
  BY DEF IInv, CallOK
<1>3. Loads(w) => (stream # <<>> => stream[1].intent = call[w].intent)
  BY DEF Loads
<1>4. CASE LoadRaises(w)
  BY <1>1, <1>4, FinishStep DEF LoadRaises
<1>5. CASE LoadReserve(w)
  <2>1. CASE /\ current.phase \in {"NONE"} \cup Retryable
             /\ Remember(w, "append")
             /\ UNCHANGED <<store, evidence>>
    <3>1. Appendable(w) /\ pc[w] # "idle"
      BY <1>3, <1>5, <2>1
         DEF Appendable, LoadReserve, At, Marks, WithReceipt
    <3>2. QED
      BY <2>1, <3>1, RememberStep
  <2>2. CASE Finish(w) /\ UNCHANGED <<store, evidence>>
    BY <1>1, <2>2, FinishStep
  <2>3. CASE current.phase \in Confirmed /\ FinishWith(w, current.receipt)
    BY <2>3, ConfirmedReceipt, FinishWithStep
  <2>4. QED
    BY <1>5, <2>1, <2>2, <2>3 DEF LoadReserve
<1>6. CASE LoadBeginDispatch(w)
  <2>1. UNCHANGED <<store, evidence>> /\ pc[w] # "idle" /\ call[w].op = "begin_dispatch"
    BY <1>6 DEF LoadBeginDispatch, At
  <2>2. Finish(w) \/ Remember(w, "records") \/ Remember(w, "owned")
    BY <1>6 DEF LoadBeginDispatch
  <2>3. QED
    BY <1>1, <2>1, <2>2, FinishStep, RememberStep
<1>7. CASE ReadRecords(w)
  <2>1. UNCHANGED <<store, evidence>> /\ pc[w] # "idle" /\ call[w].op = "begin_dispatch"
    BY <1>7 DEF ReadRecords, IInv, CallOK
  <2>2. Dispatched(w) \/ Finish(w)
    BY <1>7 DEF ReadRecords
  <2>3. QED
    BY <1>1, <2>1, <2>2, FinishStep, DispatchedStep
<1>8. CASE CheckOwned(w)
  <2>1. /\ UNCHANGED <<store, evidence>> /\ pc[w] # "idle" /\ Loads(w)
        /\ call[w].op \in Marks \cup {"begin_dispatch"}
    BY <1>8 DEF CheckOwned, IInv, CallOK
  <2>2. CASE current.phase = "RESERVED" /\ current.owner = call[w].attempt
    <3>1. Appendable(w)
      BY <1>3, <2>1, <2>2 DEF Appendable, Marks, WithReceipt
    <3>2. Goto(w, "append")
      BY <1>8, <2>2 DEF CheckOwned
    <3>3. QED
      BY <1>1, <2>1, <3>1, <3>2, GotoStep DEF Step
  <2>3. CASE ~(current.phase = "RESERVED" /\ current.owner = call[w].attempt)
    BY <1>1, <1>8, <2>1, <2>3, FinishStep DEF CheckOwned
  <2>4. QED
    BY <2>2, <2>3
<1>9. CASE LoadMark(w)
  <2>1. UNCHANGED <<store, evidence>> /\ pc[w] # "idle" /\ call[w].op \in Marks
    BY <1>9 DEF LoadMark, At
  <2>2. Finish(w) \/ Remember(w, "owned")
    BY <1>9 DEF LoadMark
  <2>3. QED
    BY <1>1, <2>1, <2>2, FinishStep, RememberStep
<1>10. CASE LoadConfirmNoEffect(w)
  <2>1. /\ UNCHANGED <<store, evidence>> /\ pc[w] # "idle" /\ Loads(w)
        /\ call[w].op = "confirm_no_effect"
    BY <1>10 DEF LoadConfirmNoEffect, At
  <2>2. CASE current.phase = "OUTCOME_UNKNOWN"
    <3>1. Appendable(w)
      BY <1>3, <2>1, <2>2 DEF Appendable, Marks, WithReceipt
    <3>2. QED
      BY <1>10, <2>1, <2>2, <3>1, RememberStep DEF LoadConfirmNoEffect
  <2>3. CASE current.phase # "OUTCOME_UNKNOWN"
    BY <1>1, <1>10, <2>1, <2>3, FinishStep DEF LoadConfirmNoEffect
  <2>4. QED
    BY <2>2, <2>3
<1>11. CASE LoadReceipt(w)
  <2>1. CASE /\ current.phase = "OUTCOME_UNKNOWN" /\ current.owner = call[w].attempt
             /\ Remember(w, "append")
             /\ UNCHANGED <<store, evidence>>
    <3>1. Appendable(w) /\ pc[w] # "idle"
      BY <1>3, <1>11, <2>1 DEF Appendable, LoadReceipt, At, Marks, WithReceipt
    <3>2. QED
      BY <2>1, <3>1, RememberStep
  <2>2. CASE current.phase \in Confirmed /\ FinishWith(w, current.receipt)
    BY <2>2, ConfirmedReceipt, FinishWithStep
  <2>3. CASE Finish(w) /\ UNCHANGED <<store, evidence>>
    BY <1>1, <2>3, FinishStep
  <2>4. QED
    BY <1>11, <2>1, <2>2, <2>3 DEF LoadReceipt
<1>12. CASE AppendCommits(w)
  BY <1>12, AppendCommitsStep
<1>13. CASE AppendLoses(w)
  <2>1. UNCHANGED <<store, evidence>> /\ pc[w] = "append"
    BY <1>13 DEF AppendLoses
  <2>2. CASE /\ pc' = [pc EXCEPT ![w] = "load"]
             /\ tries' = [tries EXCEPT ![w] = @ + 1]
             /\ head' = [head EXCEPT ![w] = 0]
             /\ UNCHANGED call
    <3>1. TypeOK' /\ stream' = stream
      BY <2>1, <2>2 DEF IInv, TypeOK, store, Step
    <3>2. OthersKeep(w)
      BY <2>2 DEF OthersKeep, IInv, TypeOK
    <3>3. pc'[w] = "load" /\ call'[w] = call[w] /\ head'[w] = 0
      BY <2>2 DEF IInv, TypeOK
    <3>4. CallOK(w)' /\ HeadOK(w)'
      BY <2>1, <3>1, <3>3 DEF IInv, CallOK, HeadOK, TypeOK
    <3>5. QED
      BY <3>1, <3>2, <3>4, LocalStep
  <2>3. CASE Goto(w, "recheck")
    BY <1>1, <2>1, <2>3, GotoStep DEF Step
  <2>4. CASE Finish(w)
    BY <1>1, <2>1, <2>4, FinishStep
  <2>5. QED
    BY <1>13, <2>2, <2>3, <2>4 DEF AppendLoses
<1>14. CASE RecheckDispatch(w)
  <2>1. UNCHANGED <<store, evidence>> /\ pc[w] # "idle" /\ call[w].op = "begin_dispatch"
    BY <1>14 DEF RecheckDispatch, At
  <2>2. Goto(w, "recheck_records") \/ Finish(w)
    BY <1>14 DEF RecheckDispatch
  <2>3. QED
    BY <1>1, <2>1, <2>2, FinishStep, GotoStep DEF Step
<1>15. CASE RecheckRecords(w)
  <2>1. UNCHANGED <<store, evidence>> /\ pc[w] # "idle" /\ call[w].op = "begin_dispatch"
    BY <1>15 DEF RecheckRecords, IInv, CallOK
  <2>2. Dispatched(w) \/ Finish(w)
    BY <1>15 DEF RecheckRecords
  <2>3. QED
    BY <1>1, <2>1, <2>2, FinishStep, DispatchedStep
<1>16. CASE RecheckNoEffect(w)
  BY <1>1, <1>16, FinishStep DEF RecheckNoEffect
<1>17. CASE RecheckReceipt(w)
  <2>1. CASE current.phase \in Confirmed /\ FinishWith(w, current.receipt)
    BY <2>1, ConfirmedReceipt, FinishWithStep
  <2>2. CASE Finish(w) /\ UNCHANGED <<store, evidence>>
    BY <1>1, <2>2, FinishStep
  <2>3. QED
    BY <1>17, <2>1, <2>2 DEF RecheckReceipt
<1>18. CASE VerifyReserve(w)
  <2>1. UNCHANGED <<store, evidence>> /\ pc[w] # "idle"
    BY <1>18 DEF VerifyReserve, At
  <2>2. Proceed(w, "begin_dispatch", Nil) \/ Finish(w)
    BY <1>18 DEF VerifyReserve
  <2>3. QED
    BY <1>1, <2>1, <2>2, FinishStep, ProceedStep
<1>19. CASE VerifyDispatch(w)
  <2>1. UNCHANGED <<store, evidence>> /\ pc[w] # "idle" /\ call[w].op = "begin_dispatch"
    BY <1>19 DEF VerifyDispatch, At
  <2>2. Dispatched(w) \/ Finish(w)
    BY <1>19 DEF VerifyDispatch
  <2>3. QED
    BY <1>1, <2>1, <2>2, FinishStep, DispatchedStep
<1>20. CASE VerifyOutcome(w)
  BY <1>1, <1>20, FinishStep DEF VerifyOutcome
<1>21. CASE VerifyReceipt(w)
  <2>1. call[w].receipt \in Receipt
    BY <1>21 DEF VerifyReceipt, At, IInv, CallOK
  <2>2. (IF current.receipt # Nil THEN current.receipt ELSE call[w].receipt) \in Receipt
    BY <2>1, ConfirmedReceipt
  <2>3. QED
    BY <1>21, <2>2, FinishWithStep DEF VerifyReceipt
<1>22. QED
  BY <1>4, <1>5, <1>6, <1>7, <1>8, <1>9, <1>10, <1>11, <1>12, <1>13, <1>14, <1>15, <1>16,
     <1>17, <1>18, <1>19, <1>20, <1>21 DEF Run

(* The callers, the provider and crashes.                                   *)
LEMMA StartStep ==
    ASSUME IInv, NEW w \in Worker, NEW c \in Call, Start(w, c),
           evidence' \in [Worker -> Attempt \cup {Nil}],
           c.op \in StandaloneOp \cup {"reserve"}, c.intent \in Intent, c.attempt \in Attempt,
           c.op \in WithReceipt => /\ c.receipt \in Receipt
                                   /\ c.receipt.attempt = c.attempt
                                   /\ c.receipt.intent = c.intent
    PROVE  IInv'
<1>1. TypeOK' /\ stream' = stream
  BY DEF IInv, TypeOK, Start, Step
<1>2. OthersKeep(w)
  BY DEF OthersKeep, Start, IInv, TypeOK
<1>3. pc'[w] = "load" /\ call'[w] = c /\ head'[w] = head[w]
  BY DEF Start, IInv, TypeOK
<1>4. CallOK(w)'
  BY <1>3 DEF CallOK
<1>5. HeadOK(w)'
  BY <1>1, <1>3 DEF HeadOK, IInv
<1>6. QED
  BY <1>1, <1>2, <1>4, <1>5, LocalStep

LEMMA BeginStep ==
    ASSUME IInv, NEW w \in Worker, Begin(w)
    PROVE  IInv'
<1> USE DEF Call, NoCall, Op, StandaloneOp, WithReceipt
<1>1. evidence \in [Worker -> Attempt \cup {Nil}]
  BY DEF IInv, TypeOK
<1>2. CASE \E i \in Intent, a \in Attempt : \E d \in RefsOf[a] :
              Execute(w, i, a, d) \/ CallBeginDispatch(w, i, a, d)
  <2>0. PICK i \in Intent, a \in Attempt : \E d \in RefsOf[a] :
           Execute(w, i, a, d) \/ CallBeginDispatch(w, i, a, d)
    BY <1>2
  <2>1. PICK d \in RefsOf[a] : Execute(w, i, a, d) \/ CallBeginDispatch(w, i, a, d)
    BY <2>0
  <2>2. d \in DispatchRef
    BY RefsAssumption
  <2>3. [NoCall EXCEPT !.op = "reserve", !.intent = i, !.attempt = a,
                       !.ref = d, !.exec = TRUE] \in Call
    BY <2>2
  <2>4. [NoCall EXCEPT !.op = "begin_dispatch", !.intent = i, !.attempt = a, !.ref = d] \in Call
    BY <2>2
  <2>5. CASE Execute(w, i, a, d)
    BY <1>1, <2>3, <2>5, StartStep DEF Execute
  <2>6. CASE CallBeginDispatch(w, i, a, d)
    BY <1>1, <2>4, <2>6, StartStep DEF CallBeginDispatch
  <2>7. QED
    BY <2>1, <2>5, <2>6
<1>3. CASE \E op \in Marks, i \in Intent, a \in Attempt : CallMark(w, op, i, a)
  <2>1. PICK op \in Marks, i \in Intent, a \in Attempt : CallMark(w, op, i, a)
    BY <1>3
  <2>2. [NoCall EXCEPT !.op = op, !.intent = i, !.attempt = a] \in Call
    BY DEF Marks
  <2>3. QED
    BY <1>1, <2>1, <2>2, StartStep DEF CallMark, Marks
<1>4. CASE \E op \in WithReceipt, n \in 1..Len(effects) : CallWithReceipt(w, op, effects[n])
  <2>1. PICK op \in WithReceipt, n \in 1..Len(effects) : CallWithReceipt(w, op, effects[n])
    BY <1>4
  <2>2. effects[n] \in Receipt
    BY DEF IInv, TypeOK
  <2>3. effects[n].intent \in Intent /\ effects[n].attempt \in Attempt
    BY <2>2 DEF Receipt
  <2>4. [NoCall EXCEPT !.op = op, !.intent = effects[n].intent,
                       !.attempt = effects[n].attempt, !.receipt = effects[n]] \in Call
    BY <2>2, <2>3
  <2>5. QED
    BY <1>1, <2>1, <2>2, <2>3, <2>4, StartStep DEF CallWithReceipt
<1>5. CASE \E i \in Intent : CallConfirmNoEffect(w, i)
  <2>1. PICK i \in Intent : CallConfirmNoEffect(w, i)
    BY <1>5
  <2>2. evidence[w] \in Attempt /\ evidence' \in [Worker -> Attempt \cup {Nil}]
    BY <1>1, <2>1 DEF CallConfirmNoEffect
  <2>3. [NoCall EXCEPT !.op = "confirm_no_effect", !.intent = i,
                       !.attempt = evidence[w]] \in Call
    BY <2>2
  <2>4. QED
    BY <2>1, <2>2, <2>3, StartStep DEF CallConfirmNoEffect
<1>6. CASE LookUp(w)
  <2>1. UNCHANGED <<store, local>> /\ stream' = stream
    BY <1>6 DEF LookUp, store
  <2>2. current.owner \in Attempt \cup {Nil}
    <3>1. stream # <<>>
      BY <1>6 DEF LookUp, current, Fold, NoAction
    <3>2. stream \in Seq(Record) /\ Len(stream) \in 1..Len(stream)
      BY <3>1 DEF IInv, TypeOK
    <3>3. PICK j \in 1..Len(stream) : IsOwnerIndex(stream, Len(stream), j)
      BY <3>2 DEF IInv, HasOwners
    <3>4. Owner(stream, Len(stream)) = stream[j].attempt
      BY <3>2, <3>3, OwnerOfIndex
    <3>5. stream[j] \in Record
      BY <3>2, <3>3
    <3>6. QED
      BY <3>1, <3>4, <3>5 DEF current, Fold, Record
  <2>3. evidence' \in [Worker -> Attempt \cup {Nil}]
    BY <1>1, <1>6, <2>2 DEF LookUp
  <2>4. TypeOK'
    BY <2>1, <2>3 DEF IInv, TypeOK, store, local
  <2>5. OthersKeep(w)
    BY <2>1 DEF OthersKeep, local
  <2>6. CallOK(w)' /\ HeadOK(w)'
    BY <2>1 DEF IInv, CallOK, HeadOK, Appendable, current, local
  <2>7. QED
    BY <2>1, <2>4, <2>5, <2>6, LocalStep
<1>7. QED
  BY <1>2, <1>3, <1>4, <1>5, <1>6 DEF Begin

LEMMA ProviderStep ==
    ASSUME IInv, NEW w \in Worker, Provider(w)
    PROVE  IInv'
<1>1. CASE ProviderRefuses(w)
  <2>1. Finish(w) /\ stream' = stream /\ StoreTyped
    BY <1>1 DEF ProviderRefuses, store, StoreTyped, IInv, TypeOK
  <2>2. QED
    BY <2>1, FinishStep
<1>2. CASE ProviderEffect(w)
  <2> DEFINE r == [intent |-> call[w].intent, attempt |-> call[w].attempt,
                   id |-> Len(effects) + 1]
  <2>1. /\ pc[w] = "invoke" /\ effects' = Append(effects, r)
        /\ stream' = stream /\ returned' = returned /\ evidence' = evidence
        /\ Proceed(w, "confirm_success", r) \/ Finish(w)
    BY <1>2 DEF ProviderEffect
  <2>2. r \in Receipt
    BY <1>2, <2>1, MaxEffectsAssumption DEF ProviderEffect, IInv, CallOK, TypeOK, Receipt
  <2>3. r.attempt = call[w].attempt /\ r.intent = call[w].intent
    OBVIOUS
  <2> HIDE DEF r
  <2>4. StoreTyped
    BY <2>1, <2>2 DEF StoreTyped, IInv, TypeOK
  <2>5. QED
    BY <2>1, <2>2, <2>3, <2>4, FinishStep, ProceedStep
<1>3. QED
  BY <1>1, <1>2 DEF Provider

LEMMA CrashStep ==
    ASSUME IInv, NEW w \in Worker, Crash(w)
    PROVE  IInv'
<1>1. Finish(w) /\ stream' = stream /\ StoreTyped
  BY DEF Crash, store, StoreTyped, IInv, TypeOK
<1>2. QED
  BY <1>1, FinishStep

LEMMA NextIInv == IInv /\ [Next]_vars => IInv'
<1> SUFFICES ASSUME IInv, [Next]_vars PROVE IInv'
  OBVIOUS
<1>1. CASE Next
  BY <1>1, BeginStep, RunStep, ProviderStep, CrashStep DEF Next
<1>2. CASE UNCHANGED vars
  BY <1>2 DEF vars, IInv, TypeOK, StreamFoldable, CallOK, HeadOK, Appendable, current
<1>3. QED
  BY <1>1, <1>2

-----------------------------------------------------------------------------
(* The invariant holds in every reachable state.                           *)
THEOREM Inductive == Spec => []IInv
BY InitIInv, NextIInv, PTL DEF Spec

(* Every variable keeps the type of the Python value it stands for.         *)
THEOREM TypeCorrect == Spec => []TypeOK
BY Inductive, PTL DEF IInv

(* However the loads, appends, crashes and retries of any number of workers *)
(* interleave, the stream stays one that _load accepts.                     *)
THEOREM Foldability == Spec => []StreamFoldable
BY Inductive, PTL DEF IInv

-----------------------------------------------------------------------------
(* Refinement of the in-process reference coordinator.                     *)

LEMMA CurrentTyped ==
    ASSUME IInv
    PROVE  /\ current.attempts \in Nat
           /\ current.phase \notin Confirmed => current.receipt = Nil
           /\ stream # <<>> => current.intent = stream[1].intent
           /\ stream = <<>> <=> current.phase = "NONE"
<1>1. stream \in Seq(Record)
  BY DEF IInv, TypeOK
<1>2. current.attempts \in Nat
  <2>1. CASE stream = <<>>
    BY <2>1 DEF current, Fold, NoAction
  <2>2. CASE stream # <<>>
    <3>1. PICK r \in Record : TRUE
      BY <1>1, <2>2
    <3>2. Cardinality(Reservations(stream)) \in Nat
      BY <1>1, <3>1, ReservationsAppend
    <3>3. QED
      BY <2>2, <3>2 DEF current, Fold
  <2>3. QED
    BY <2>1, <2>2
<1>3. current.phase \notin Confirmed => current.receipt = Nil
  BY ConfirmedReceipt
<1>4. stream # <<>> => current.intent = stream[1].intent
  BY DEF current, Fold
<1>5. stream = <<>> => current.phase = "NONE"
  BY DEF current, Fold, NoAction
<1>6. stream # <<>> => current.phase # "NONE"
  <2> SUFFICES ASSUME stream # <<>> PROVE current.phase # "NONE"
    OBVIOUS
  <2>1. stream[Len(stream)] \in Record
    BY <1>1
  <2>2. stream[Len(stream)].type \in EventType
    BY <2>1 DEF Record
  <2>3. current.phase = PhaseAfter(stream[Len(stream)].type)
    BY DEF current, Fold
  <2>4. QED
    BY <2>2, <2>3 DEF EventType, PhaseAfter
<1>7. QED
  BY <1>2, <1>3, <1>4, <1>5, <1>6

(* A step that leaves the stream alone is invisible to the reference.       *)
LEMMA SameStream ==
    ASSUME stream' = stream
    PROVE  UNCHANGED Reference!avars
BY DEF Reference!avars, current

(* The action after a committed append.                                     *)
LEMMA CurrentAfter ==
    ASSUME IInv, NEW w \in Worker, AppendCommits(w),
           NEW r, r = RecordOf(call[w])
    PROVE  current' = [phase    |-> PhaseAfter(r.type),
                       intent   |-> IF stream = <<>> THEN r.intent ELSE current.intent,
                       owner    |-> IF r.type = "RESERVED" THEN r.attempt ELSE current.owner,
                       attempts |-> current.attempts + (IF r.type = "RESERVED" THEN 1 ELSE 0),
                       receipt  |-> IF PhaseAfter(r.type) \in Confirmed THEN r.receipt ELSE Nil]
<1>1. /\ r \in Record /\ stream' = Append(stream, r)
      /\ stream = <<>> => call[w].op = "reserve"
  BY AppendStep
<1>2. stream = <<>> => r.type = "RESERVED"
  BY <1>1 DEF RecordOf
<1>3. HasOwners(stream) /\ stream \in Seq(Record)
  BY DEF IInv, TypeOK
<1>4. Fold(Append(stream, r)) =
         [phase    |-> PhaseAfter(r.type),
          intent   |-> IF stream = <<>> THEN r.intent ELSE Fold(stream).intent,
          owner    |-> IF r.type = "RESERVED" THEN r.attempt ELSE Fold(stream).owner,
          attempts |-> Fold(stream).attempts + (IF r.type = "RESERVED" THEN 1 ELSE 0),
          receipt  |-> IF PhaseAfter(r.type) \in Confirmed THEN r.receipt ELSE Nil]
  BY <1>1, <1>2, <1>3, FoldAppend
<1>5. QED
  BY <1>1, <1>4 DEF current

(* A committed append is the reference's transition of the same name.       *)
LEMMA AppendRefines ==
    ASSUME IInv, NEW w \in Worker, AppendCommits(w)
    PROVE  Reference!Next
<1> DEFINE c == call[w]
           r == RecordOf(c)
<1>1. /\ r \in Record /\ Appendable(w) /\ stream' = Append(stream, r)
      /\ stream = <<>> => c.op = "reserve"
  BY AppendStep
<1>2. /\ c.op \in StandaloneOp \cup {"reserve"}
      /\ c.intent \in Intent /\ c.attempt \in Attempt
      /\ c.op \in WithReceipt => /\ c.receipt \in Receipt
                                 /\ c.receipt.attempt = c.attempt
                                 /\ c.receipt.intent = c.intent
  BY DEF IInv, CallOK, AppendCommits
<1>3. current' = [phase    |-> PhaseAfter(r.type),
                  intent   |-> IF stream = <<>> THEN r.intent ELSE current.intent,
                  owner    |-> IF r.type = "RESERVED" THEN r.attempt ELSE current.owner,
                  attempts |-> current.attempts + (IF r.type = "RESERVED" THEN 1 ELSE 0),
                  receipt  |-> IF PhaseAfter(r.type) \in Confirmed THEN r.receipt ELSE Nil]
  BY CurrentAfter
<1>4. /\ current.attempts \in Nat
      /\ current.phase \notin Confirmed => current.receipt = Nil
      /\ stream # <<>> => current.intent = c.intent
      /\ stream = <<>> <=> current.phase = "NONE"
  BY <1>1, CurrentTyped DEF Appendable
<1>5. CASE c.op = "reserve"
  <2>1. r.type = "RESERVED" /\ r.intent = c.intent /\ r.attempt = c.attempt
    BY <1>5 DEF RecordOf
  <2>2. /\ current'.phase = "RESERVED" /\ current'.intent = c.intent
        /\ current'.owner = c.attempt /\ current'.attempts = current.attempts + 1
        /\ current'.receipt = Nil
    <3> HIDE DEF r, c
    <3>1. PhaseAfter(r.type) = "RESERVED" /\ "RESERVED" \notin Confirmed
      BY <2>1 DEF PhaseAfter, Confirmed
    <3>2. QED
      BY <1>3, <1>4, <2>1, <3>1
  <2>3. current.phase \in {"NONE"} \cup Retryable
    BY <1>1, <1>5 DEF Appendable
  <2>4. Reference!Reserve(c.intent, c.attempt)
    BY <1>4, <2>2, <2>3 DEF Reference!Reserve, Retryable
  <2>5. QED
    BY <1>2, <2>4 DEF Reference!Next
<1>6. CASE c.op \in {"begin_dispatch", "mark_outcome_unknown"}
  <2>1. r.type \in {"DISPATCHED", "OUTCOME_UNKNOWN"}
    BY <1>6 DEF RecordOf
  <2>2. current.phase = "RESERVED" /\ current.owner = c.attempt
    BY <1>1, <1>6 DEF Appendable, Marks
  <2>3. /\ current'.phase = "OUTCOME_UNKNOWN" /\ current'.intent = current.intent
        /\ current'.owner = current.owner /\ current'.attempts = current.attempts
        /\ current'.receipt = current.receipt
    <3> HIDE DEF r, c
    <3>1. /\ PhaseAfter(r.type) = "OUTCOME_UNKNOWN" /\ r.type # "RESERVED"
          /\ "OUTCOME_UNKNOWN" \notin Confirmed /\ "RESERVED" \notin Confirmed
      BY <2>1 DEF PhaseAfter, Confirmed
    <3>2. QED
      BY <1>3, <1>4, <2>2, <3>1
  <2>4. Reference!BeginDispatch(c.attempt)
    BY <2>2, <2>3 DEF Reference!BeginDispatch
  <2>5. QED
    BY <1>2, <2>4 DEF Reference!Next
<1>7. CASE c.op = "mark_pre_effect_failed"
  <2>1. r.type = "PRE_EFFECT_FAILED"
    BY <1>7 DEF RecordOf
  <2>2. current.phase = "RESERVED" /\ current.owner = c.attempt
    BY <1>1, <1>7 DEF Appendable, Marks
  <2>3. /\ current'.phase = "PRE_EFFECT_FAILED" /\ current'.intent = current.intent
        /\ current'.owner = current.owner /\ current'.attempts = current.attempts
        /\ current'.receipt = current.receipt
    <3> HIDE DEF r, c
    <3>1. /\ PhaseAfter(r.type) = "PRE_EFFECT_FAILED"
          /\ "PRE_EFFECT_FAILED" \notin Confirmed /\ "RESERVED" \notin Confirmed
      BY <2>1 DEF PhaseAfter, Confirmed
    <3>2. QED
      BY <1>3, <1>4, <2>1, <2>2, <3>1
  <2>4. Reference!MarkPreEffectFailed(c.attempt)
    BY <2>2, <2>3 DEF Reference!MarkPreEffectFailed
  <2>5. QED
    BY <1>2, <2>4 DEF Reference!Next
<1>8. CASE c.op = "confirm_no_effect"
  <2>1. r.type = "CONFIRMED_NO_EFFECT"
    BY <1>8 DEF RecordOf
  <2>2. current.phase = "OUTCOME_UNKNOWN"
    BY <1>1, <1>8 DEF Appendable
  <2>3. /\ current'.phase = "CONFIRMED_NO_EFFECT" /\ current'.intent = current.intent
        /\ current'.owner = current.owner /\ current'.attempts = current.attempts
        /\ current'.receipt = current.receipt
    <3> HIDE DEF r, c
    <3>1. /\ PhaseAfter(r.type) = "CONFIRMED_NO_EFFECT"
          /\ "CONFIRMED_NO_EFFECT" \notin Confirmed /\ "OUTCOME_UNKNOWN" \notin Confirmed
      BY <2>1 DEF PhaseAfter, Confirmed
    <3>2. QED
      BY <1>3, <1>4, <2>1, <2>2, <3>1
  <2>4. Reference!ConfirmNoEffect
    BY <2>2, <2>3 DEF Reference!ConfirmNoEffect
  <2>5. QED
    BY <2>4 DEF Reference!Next
<1>9. CASE c.op \in WithReceipt
  <2>1. /\ c.op = "confirm_success" => r.type = "CONFIRMED_SUCCESS"
        /\ c.op = "recover_receipt" => r.type = "RECEIPT_RECOVERED"
        /\ r.receipt = c.receipt
    BY DEF RecordOf
  <2>2. /\ current.phase = "OUTCOME_UNKNOWN" /\ current.owner = c.attempt
        /\ current.intent = c.intent
    BY <1>1, <1>4, <1>9 DEF Appendable
  <2>3. /\ c.op = "confirm_success" => current'.phase = "CONFIRMED_EXTERNAL_SUCCESS"
        /\ c.op = "recover_receipt" => current'.phase = "RECEIPT_RECOVERED"
        /\ current'.intent = current.intent
        /\ current'.owner = current.owner /\ current'.attempts = current.attempts
        /\ current'.receipt = c.receipt
    <3>1. c.op \in {"confirm_success", "recover_receipt"}
      BY <1>9 DEF WithReceipt
    <3> HIDE DEF r, c
    <3>2. /\ r.type # "RESERVED" /\ PhaseAfter(r.type) \in Confirmed
          /\ c.op = "confirm_success" => PhaseAfter(r.type) = "CONFIRMED_EXTERNAL_SUCCESS"
          /\ c.op = "recover_receipt" => PhaseAfter(r.type) = "RECEIPT_RECOVERED"
      BY <2>1, <3>1 DEF PhaseAfter, Confirmed
    <3>3. QED
      BY <1>3, <1>4, <2>1, <2>2, <3>2
  <2>4. /\ c.op = "confirm_success" => Reference!ConfirmSuccess(c.receipt)
        /\ c.op = "recover_receipt" => Reference!RecoverReceipt(c.receipt)
    BY <1>2, <1>9, <2>2, <2>3
       DEF Reference!ConfirmSuccess, Reference!RecoverReceipt, Reference!RecordReceipt
  <2>5. QED
    BY <1>2, <1>9, <2>4 DEF Reference!Next, WithReceipt
<1>10. QED
  BY <1>2, <1>5, <1>6, <1>7, <1>8, <1>9 DEF StandaloneOp, WithReceipt

(* Only a committed append changes the stream.                              *)
LEMMA StreamSteps ==
    ASSUME [Next]_vars
    PROVE  stream' = stream \/ \E w \in Worker : AppendCommits(w)
<1>1. CASE UNCHANGED vars
  BY <1>1 DEF vars
<1>2. ASSUME NEW w \in Worker, Begin(w)
      PROVE  stream' = stream
  BY <1>2 DEF Begin, Execute, CallBeginDispatch, CallMark, CallWithReceipt,
              CallConfirmNoEffect, LookUp, Start, store
<1>3. ASSUME NEW w \in Worker, Run(w), ~AppendCommits(w)
      PROVE  stream' = stream
  BY <1>3 DEF Run, LoadRaises, LoadReserve, LoadBeginDispatch, LoadMark, LoadConfirmNoEffect,
              LoadReceipt, ReadRecords, CheckOwned, AppendLoses, RecheckDispatch,
              RecheckRecords, RecheckNoEffect, RecheckReceipt, VerifyReserve, VerifyDispatch,
              VerifyOutcome, VerifyReceipt, FinishWith, store
<1>4. ASSUME NEW w \in Worker, Provider(w) \/ Crash(w)
      PROVE  stream' = stream
  BY <1>4 DEF Provider, ProviderEffect, ProviderRefuses, Crash, store
<1>5. QED
  BY <1>1, <1>2, <1>3, <1>4 DEF Next

(* The durable coordinator, with all its interleavings, crashes and         *)
(* retries, implements the in-process reference coordinator, as the          *)
(* reference's docstring claims (core/external_action_execution_v1.py).      *)
THEOREM Refinement == Spec => ImplementsReference
<1>1. Init => Reference!Init
  BY DEF Init, current, Fold, NoAction, Reference!Init
<1>2. IInv /\ [Next]_vars => [Reference!Next]_(Reference!avars)
  <2> SUFFICES ASSUME IInv, [Next]_vars PROVE [Reference!Next]_(Reference!avars)
    OBVIOUS
  <2>1. CASE stream' = stream
    BY <2>1, SameStream
  <2>2. CASE \E w \in Worker : AppendCommits(w)
    BY <2>2, AppendRefines
  <2>3. QED
    BY <2>1, <2>2, StreamSteps
<1>3. QED
  BY <1>1, <1>2, Inductive, PTL DEF Spec, ImplementsReference, Reference!Spec

-----------------------------------------------------------------------------
(* One receipt for all callers.                                            *)

(* A worker that has just appended a receipt finds the stream confirmed     *)
(* when it loads again, whatever happened in between.                       *)
VerifiesConfirmed ==
    \A w \in Worker : At(w, "verify", WithReceipt) => current.phase \in Confirmed

RInv == ReceiptsAgree /\ VerifiesConfirmed

(* Nothing is appended to a confirmed stream, so what was returned stays.   *)
LEMMA AppendRInv ==
    ASSUME IInv, RInv, NEW w \in Worker, AppendCommits(w)
    PROVE  RInv'
<1> DEFINE c == call[w]
           r == RecordOf(c)
<1>1. /\ r \in Record /\ Appendable(w) /\ stream' = Append(stream, r)
      /\ stream = <<>> => c.op = "reserve"
  BY AppendStep
<1>2. c.op \in StandaloneOp \cup {"reserve"}
  BY DEF IInv, CallOK, AppendCommits
<1>3. current.phase \notin Confirmed
  BY <1>1, <1>2
     DEF Appendable, Confirmed, Retryable, StandaloneOp, Marks, WithReceipt
<1>4. returned = {} /\ returned' = returned
  BY <1>3 DEF RInv, ReceiptsAgree, AppendCommits
<1>5. \A v \in Worker : ~At(v, "verify", WithReceipt)
  BY <1>3 DEF RInv, VerifiesConfirmed
<1>6. /\ \A v \in Worker : v # w => pc'[v] = pc[v]
      /\ call' = call
  BY DEF AppendCommits, Goto, IInv, TypeOK
<1>7. c.op \in WithReceipt => current'.phase \in Confirmed
  <2> SUFFICES ASSUME c.op \in WithReceipt PROVE current'.phase \in Confirmed
    OBVIOUS
  <2>1. r.type \in {"CONFIRMED_SUCCESS", "RECEIPT_RECOVERED"}
    BY DEF RecordOf, WithReceipt
  <2> HIDE DEF r, c
  <2>2. current'.phase = PhaseAfter(r.type)
    BY CurrentAfter DEF r, c
  <2>3. PhaseAfter(r.type) \in Confirmed
    BY <2>1 DEF PhaseAfter, Confirmed
  <2>4. QED
    BY <2>2, <2>3
<1>8. VerifiesConfirmed'
  BY <1>5, <1>6, <1>7 DEF VerifiesConfirmed, At
<1>9. ReceiptsAgree'
  BY <1>4 DEF ReceiptsAgree
<1>10. QED
  BY <1>8, <1>9 DEF RInv

(* Every other step returns at most the receipt the stream confirms.        *)
LEMMA SameStreamRInv ==
    ASSUME IInv, RInv, NEW w \in Worker, stream' = stream,
           Begin(w) \/ Run(w) \/ Provider(w) \/ Crash(w), ~AppendCommits(w)
    PROVE  RInv'
<1>1. current' = current
  BY DEF current
<1>2. \A v \in Worker : v # w => pc'[v] = pc[v] /\ call'[v] = call[v]
  BY DEF Begin, Execute, CallBeginDispatch, CallMark, CallWithReceipt, CallConfirmNoEffect,
         LookUp, Start, Run, LoadRaises, LoadReserve, LoadBeginDispatch, LoadMark,
         LoadConfirmNoEffect, LoadReceipt, ReadRecords, CheckOwned, AppendLoses,
         RecheckDispatch, RecheckRecords, RecheckNoEffect, RecheckReceipt, VerifyReserve,
         VerifyDispatch, VerifyOutcome, VerifyReceipt, FinishWith, Finish, Remember, Goto,
         Proceed, Dispatched, Provider, ProviderEffect, ProviderRefuses, Crash, local,
         IInv, TypeOK
<1>3. pc'[w] = "verify" => pc'[w] = pc[w] /\ call'[w] = call[w]
  BY DEF Begin, Execute, CallBeginDispatch, CallMark, CallWithReceipt, CallConfirmNoEffect,
         LookUp, Start, Run, LoadRaises, LoadReserve, LoadBeginDispatch, LoadMark,
         LoadConfirmNoEffect, LoadReceipt, ReadRecords, CheckOwned, AppendLoses,
         RecheckDispatch, RecheckRecords, RecheckNoEffect, RecheckReceipt, VerifyReserve,
         VerifyDispatch, VerifyOutcome, VerifyReceipt, FinishWith, Finish, Remember, Goto,
         Proceed, Dispatched, Provider, ProviderEffect, ProviderRefuses, Crash, local,
         IInv, TypeOK
<1>4. VerifiesConfirmed'
  BY <1>1, <1>2, <1>3 DEF RInv, VerifiesConfirmed, At
<1>5. current.phase \in Confirmed => current.receipt \in Receipt
  BY ConfirmedReceipt
<1>6. returned' = returned \/ (current.phase \in Confirmed
                                /\ returned' \subseteq returned \cup {current.receipt})
  <2>1. CASE Begin(w)
    BY <2>1 DEF Begin, Execute, CallBeginDispatch, CallMark, CallWithReceipt,
                CallConfirmNoEffect, LookUp, Start, store
  <2>2. CASE Provider(w) \/ Crash(w)
    BY <2>2 DEF Provider, ProviderEffect, ProviderRefuses, Crash, store
  <2>3. CASE LoadReserve(w)
    BY <2>3 DEF LoadReserve, FinishWith, store
  <2>4. CASE LoadReceipt(w)
    BY <2>4 DEF LoadReceipt, FinishWith, store
  <2>5. CASE RecheckReceipt(w)
    BY <2>5 DEF RecheckReceipt, FinishWith, store
  <2>6. CASE VerifyReceipt(w)
    <3>1. current.phase \in Confirmed
      BY <2>6 DEF VerifyReceipt, RInv, VerifiesConfirmed
    <3>2. current.receipt # Nil
      BY <1>5, <3>1, NilAssumption
    <3>3. QED
      BY <2>6, <3>1, <3>2 DEF VerifyReceipt, FinishWith
  <2>7. CASE \/ LoadRaises(w) \/ LoadBeginDispatch(w) \/ LoadMark(w) \/ LoadConfirmNoEffect(w)
             \/ ReadRecords(w) \/ CheckOwned(w) \/ AppendLoses(w) \/ RecheckDispatch(w)
             \/ RecheckRecords(w) \/ RecheckNoEffect(w) \/ VerifyReserve(w)
             \/ VerifyDispatch(w) \/ VerifyOutcome(w)
    BY <2>7 DEF LoadRaises, LoadBeginDispatch, LoadMark, LoadConfirmNoEffect, ReadRecords,
                CheckOwned, AppendLoses, RecheckDispatch, RecheckRecords, RecheckNoEffect,
                VerifyReserve, VerifyDispatch, VerifyOutcome, store
  <2>8. QED
    BY <2>1, <2>2, <2>3, <2>4, <2>5, <2>6, <2>7 DEF Run
<1>7. ReceiptsAgree'
  BY <1>1, <1>6 DEF RInv, ReceiptsAgree
<1>8. QED
  BY <1>4, <1>7 DEF RInv

(* Every receipt execute ever returned, to any caller, in any attempt, is   *)
(* the one the stream confirms.                                             *)
THEOREM OneReceipt == Spec => []ReceiptsAgree
<1>1. Init => RInv
  BY DEF Init, RInv, ReceiptsAgree, VerifiesConfirmed, At
<1>2. IInv /\ RInv /\ [Next]_vars => RInv'
  <2> SUFFICES ASSUME IInv, RInv, [Next]_vars PROVE RInv'
    OBVIOUS
  <2>1. CASE UNCHANGED vars
    BY <2>1 DEF vars, RInv, ReceiptsAgree, VerifiesConfirmed, At, current
  <2>2. ASSUME NEW w \in Worker, AppendCommits(w)
        PROVE  RInv'
    BY <2>2, AppendRInv
  <2>3. ASSUME NEW w \in Worker, Begin(w) \/ Run(w) \/ Provider(w) \/ Crash(w),
               ~\E v \in Worker : AppendCommits(v)
        PROVE  RInv'
    BY <2>3, StreamSteps, SameStreamRInv
  <2>4. QED
    BY <2>1, <2>2, <2>3 DEF Next
<1>3. QED
  BY <1>1, <1>2, Inductive, PTL DEF Spec, RInv

-----------------------------------------------------------------------------
(* What each kind of step does to the calls of the workers: the proofs      *)
(* below need no more of the operations than this.                          *)

(* The call is over, or goes on without having dispatched anything.         *)
Ends(w) == pc'[w] = "idle" /\ call'[w] = NoCall

MovesOn(w) ==
    /\ pc[w] \notin {"idle", "verify", "invoke"}
    /\ pc'[w] \notin {"idle", "verify", "invoke"}
    /\ call'[w] = call[w]

(* execute has its reservation and goes on to the fence.                    *)
EntersFence(w) ==
    /\ call[w].op = "reserve" /\ pc[w] # "idle"
    /\ pc'[w] = "load"
    /\ call'[w] = [call[w] EXCEPT !.op = "begin_dispatch", !.receipt = Nil]

(* execute takes the fence for its own: it appended it and finds the outcome *)
(* unknown, or the last record is a dispatch with its reference.            *)
PassesFence(w) ==
    /\ pc[w] # "idle" /\ call[w].op = "begin_dispatch" /\ call[w].exec
    /\ pc'[w] = "invoke"
    /\ call'[w] = call[w]
    /\ \/ pc[w] = "verify" /\ current.phase = "OUTCOME_UNKNOWN"
       \/ LastIsDispatch(stream[Len(stream)].attempt, call[w].ref)

OnlyLocal(w) ==
    /\ stream' = stream /\ effects' = effects /\ evidence' = evidence
    /\ OthersKeep(w)

(* The steps of the coordinator that append nothing.                        *)
LEMMA RunKinds ==
    ASSUME IInv, NEW w \in Worker, Run(w), ~AppendCommits(w)
    PROVE  /\ OnlyLocal(w)
           /\ Ends(w) \/ MovesOn(w) \/ EntersFence(w) \/ PassesFence(w)
<1> DEFINE Kind == Ends(w) \/ MovesOn(w) \/ EntersFence(w) \/ PassesFence(w)
<1>1. stream' = stream /\ effects' = effects /\ evidence' = evidence
  BY DEF Run, LoadRaises, LoadReserve, LoadBeginDispatch, LoadMark, LoadConfirmNoEffect,
         LoadReceipt, ReadRecords, CheckOwned, AppendLoses, RecheckDispatch,
         RecheckRecords, RecheckNoEffect, RecheckReceipt, VerifyReserve, VerifyDispatch,
         VerifyOutcome, VerifyReceipt, FinishWith, store
<1>2. OthersKeep(w)
  BY DEF OthersKeep, Run, LoadRaises, LoadReserve, LoadBeginDispatch, LoadMark,
         LoadConfirmNoEffect, LoadReceipt, ReadRecords, CheckOwned, AppendLoses,
         RecheckDispatch, RecheckRecords, RecheckNoEffect, RecheckReceipt, VerifyReserve,
         VerifyDispatch, VerifyOutcome, VerifyReceipt, FinishWith, Finish, Remember, Goto,
         Proceed, Dispatched, IInv, TypeOK
<1> HIDE DEF Kind
<1>0. SUFFICES Kind
  BY <1>1, <1>2 DEF OnlyLocal, Kind
<1> USE DEF Kind
<1>3. Finish(w) => Ends(w)
  BY DEF Finish, Ends, IInv, TypeOK
<1>4. ASSUME NEW step \in {"records", "owned", "append", "recheck", "recheck_records"},
             pc[w] \notin {"idle", "verify", "invoke"}, Goto(w, step) \/ Remember(w, step)
      PROVE  MovesOn(w)
  BY <1>4 DEF Goto, Remember, MovesOn, IInv, TypeOK
<1>5. ASSUME Dispatched(w), pc[w] # "idle", call[w].op = "begin_dispatch",
             \/ pc[w] = "verify" /\ current.phase = "OUTCOME_UNKNOWN"
             \/ LastIsDispatch(stream[Len(stream)].attempt, call[w].ref)
      PROVE  Ends(w) \/ PassesFence(w)
  <2>1. CASE call[w].exec
    BY <1>5, <2>1 DEF Dispatched, Goto, PassesFence, IInv, TypeOK
  <2>2. CASE ~call[w].exec
    BY <1>3, <1>5, <2>2 DEF Dispatched
  <2>3. QED
    BY <2>1, <2>2
<1>6. CASE LoadRaises(w) \/ RecheckNoEffect(w) \/ VerifyOutcome(w) \/ VerifyReceipt(w)
            \/ RecheckReceipt(w)
  BY <1>3, <1>6 DEF LoadRaises, RecheckNoEffect, VerifyOutcome, VerifyReceipt, RecheckReceipt,
                    FinishWith
<1>7. CASE LoadReserve(w) \/ LoadReceipt(w) \/ LoadMark(w) \/ LoadConfirmNoEffect(w)
            \/ LoadBeginDispatch(w) \/ CheckOwned(w) \/ RecheckDispatch(w)
  <2>1. pc[w] \notin {"idle", "verify", "invoke"}
    BY <1>7 DEF LoadReserve, LoadReceipt, LoadMark, LoadConfirmNoEffect, LoadBeginDispatch,
                CheckOwned, RecheckDispatch, At
  <2>2. \/ Finish(w)
        \/ \E step \in {"records", "owned", "append", "recheck", "recheck_records"} :
               Goto(w, step) \/ Remember(w, step)
    BY <1>7 DEF LoadReserve, LoadReceipt, LoadMark, LoadConfirmNoEffect, LoadBeginDispatch,
                CheckOwned, RecheckDispatch, FinishWith
  <2>3. QED
    BY <1>3, <1>4, <2>1, <2>2
<1>8. CASE ReadRecords(w)
  <2>1. pc[w] = "records" /\ call[w].op = "begin_dispatch"
    BY <1>8 DEF ReadRecords, IInv, CallOK
  <2>2. CASE LastIsDispatch(call[w].attempt, call[w].ref)
    BY <1>5, <1>8, <2>1, <2>2 DEF ReadRecords, LastIsDispatch
  <2>3. CASE ~LastIsDispatch(call[w].attempt, call[w].ref)
    BY <1>3, <1>8, <2>3 DEF ReadRecords
  <2>4. QED
    BY <2>2, <2>3
<1>9. CASE AppendLoses(w)
  <2>1. CASE /\ pc' = [pc EXCEPT ![w] = "load"]
             /\ UNCHANGED call
    BY <1>9, <2>1 DEF AppendLoses, MovesOn, IInv, TypeOK
  <2>2. CASE Goto(w, "recheck") \/ Finish(w)
    BY <1>3, <1>4, <1>9, <2>2 DEF AppendLoses
  <2>3. QED
    BY <1>9, <2>1, <2>2 DEF AppendLoses
<1>10. CASE RecheckRecords(w)
  <2>1. pc[w] = "recheck_records" /\ call[w].op = "begin_dispatch"
    BY <1>10 DEF RecheckRecords, IInv, CallOK
  <2>2. CASE LastIsDispatch(stream[Len(stream)].attempt, call[w].ref)
    BY <1>5, <1>10, <2>1, <2>2 DEF RecheckRecords
  <2>3. CASE ~LastIsDispatch(stream[Len(stream)].attempt, call[w].ref)
    BY <1>3, <1>10, <2>3 DEF RecheckRecords
  <2>4. QED
    BY <2>2, <2>3
<1>11. CASE VerifyReserve(w)
  <2>1. CASE Proceed(w, "begin_dispatch", Nil)
    BY <1>11, <2>1 DEF VerifyReserve, At, Proceed, EntersFence, IInv, TypeOK
  <2>2. CASE Finish(w)
    BY <1>3, <2>2
  <2>3. QED
    BY <1>11, <2>1, <2>2 DEF VerifyReserve
<1>12. CASE VerifyDispatch(w)
  <2>1. pc[w] = "verify" /\ call[w].op = "begin_dispatch"
    BY <1>12 DEF VerifyDispatch, At
  <2>2. CASE current.phase = "OUTCOME_UNKNOWN"
    BY <1>5, <1>12, <2>1, <2>2 DEF VerifyDispatch
  <2>3. CASE current.phase # "OUTCOME_UNKNOWN"
    BY <1>3, <1>12, <2>3 DEF VerifyDispatch
  <2>4. QED
    BY <2>2, <2>3
<1>13. QED
  BY <1>6, <1>7, <1>8, <1>9, <1>10, <1>11, <1>12 DEF Run

(* The calls a worker may begin, and what is known of their arguments.      *)
Begins(w) ==
    LET c == call'[w]
    IN  /\ pc[w] = "idle" /\ pc'[w] = "load"
        /\ c.attempt \in Attempt
        /\ \/ /\ c.op = "reserve" /\ c.exec /\ evidence' = evidence
              /\ c.ref \in RefsOf[c.attempt]
              /\ Disciplined => Fresh(c.attempt)
           \/ /\ c.op = "begin_dispatch" /\ ~c.exec /\ evidence' = evidence
              /\ c.ref \in RefsOf[c.attempt]
           \/ c.op \in Marks /\ ~c.exec /\ evidence' = evidence
           \/ c.op \in WithReceipt /\ ~c.exec /\ evidence' = evidence /\ HadEffect(c.attempt)
           \/ /\ c.op = "confirm_no_effect" /\ ~c.exec /\ c.attempt = evidence[w]
              /\ evidence' = [evidence EXCEPT ![w] = Nil]

LEMMA BeginKinds ==
    ASSUME IInv, NEW w \in Worker, Begin(w), ~LookUp(w)
    PROVE  /\ stream' = stream /\ effects' = effects /\ OthersKeep(w)
           /\ Begins(w)
<1>1. ASSUME NEW c, Start(w, c)
      PROVE  /\ stream' = stream /\ effects' = effects /\ OthersKeep(w)
             /\ pc[w] = "idle" /\ pc'[w] = "load" /\ call'[w] = c
  BY <1>1 DEF Start, OthersKeep, IInv, TypeOK
<1>2. ASSUME NEW i \in Intent, NEW a \in Attempt, NEW d \in RefsOf[a], Execute(w, i, a, d)
      PROVE  /\ stream' = stream /\ effects' = effects /\ OthersKeep(w)
             /\ Begins(w)
  <2> DEFINE c == [NoCall EXCEPT !.op = "reserve", !.intent = i, !.attempt = a,
                                 !.ref = d, !.exec = TRUE]
  <2>1. c.op = "reserve" /\ c.attempt = a /\ c.ref = d /\ c.exec
    BY DEF NoCall
  <2>2. Start(w, c) /\ (Disciplined => Fresh(a)) /\ evidence' = evidence
    BY <1>2 DEF Execute
  <2> HIDE DEF c
  <2>3. QED
    BY <1>1, <2>1, <2>2 DEF Begins
<1>3. ASSUME NEW i \in Intent, NEW a \in Attempt, NEW d \in RefsOf[a],
             CallBeginDispatch(w, i, a, d)
      PROVE  /\ stream' = stream /\ effects' = effects /\ OthersKeep(w)
             /\ Begins(w)
  <2> DEFINE c == [NoCall EXCEPT !.op = "begin_dispatch", !.intent = i, !.attempt = a, !.ref = d]
  <2>1. c.op = "begin_dispatch" /\ c.attempt = a /\ c.ref = d /\ ~c.exec
    BY DEF NoCall
  <2>2. Start(w, c) /\ evidence' = evidence
    BY <1>3 DEF CallBeginDispatch
  <2> HIDE DEF c
  <2>3. QED
    BY <1>1, <2>1, <2>2 DEF Begins
<1>4. ASSUME NEW op \in Marks, NEW i \in Intent, NEW a \in Attempt, CallMark(w, op, i, a)
      PROVE  /\ stream' = stream /\ effects' = effects /\ OthersKeep(w)
             /\ Begins(w)
  <2> DEFINE c == [NoCall EXCEPT !.op = op, !.intent = i, !.attempt = a]
  <2>1. c.op = op /\ c.attempt = a /\ ~c.exec
    BY DEF NoCall
  <2>2. Start(w, c) /\ evidence' = evidence
    BY <1>4 DEF CallMark
  <2> HIDE DEF c
  <2>3. QED
    BY <1>1, <2>1, <2>2 DEF Begins
<1>5. ASSUME NEW op \in WithReceipt, NEW n \in 1..Len(effects),
             CallWithReceipt(w, op, effects[n])
      PROVE  /\ stream' = stream /\ effects' = effects /\ OthersKeep(w)
             /\ Begins(w)
  <2> DEFINE c == [NoCall EXCEPT !.op = op, !.intent = effects[n].intent,
                                 !.attempt = effects[n].attempt, !.receipt = effects[n]]
  <2>1. c.op = op /\ c.attempt = effects[n].attempt /\ ~c.exec
    BY DEF NoCall
  <2>2. Start(w, c) /\ evidence' = evidence
    BY <1>5 DEF CallWithReceipt
  <2>3. effects[n] \in Receipt
    BY DEF IInv, TypeOK
  <2>4. effects[n].attempt \in Attempt /\ HadEffect(effects[n].attempt)
    BY <2>3 DEF HadEffect, Receipt
  <2> HIDE DEF c
  <2>5. QED
    BY <1>1, <2>1, <2>2, <2>4 DEF Begins
<1>6. ASSUME NEW i \in Intent, CallConfirmNoEffect(w, i)
      PROVE  /\ stream' = stream /\ effects' = effects /\ OthersKeep(w)
             /\ Begins(w)
  <2> DEFINE c == [NoCall EXCEPT !.op = "confirm_no_effect", !.intent = i,
                                 !.attempt = evidence[w]]
  <2>1. c.op = "confirm_no_effect" /\ c.attempt = evidence[w] /\ ~c.exec
    BY DEF NoCall
  <2>2. Start(w, c) /\ evidence' = [evidence EXCEPT ![w] = Nil]
    BY <1>6 DEF CallConfirmNoEffect
  <2>3. evidence[w] \in Attempt
    BY <1>6 DEF CallConfirmNoEffect, IInv, TypeOK
  <2> HIDE DEF c
  <2>4. QED
    BY <1>1, <2>1, <2>2, <2>3 DEF Begins
<1>7. QED
  BY <1>2, <1>3, <1>4, <1>5, <1>6, Zenon DEF Begin

(* The provider is called: there is one effect more, and the call goes on   *)
(* with its receipt or is over.                                             *)
LEMMA EffectKind ==
    ASSUME IInv, NEW w \in Worker, ProviderEffect(w)
    PROVE  /\ stream' = stream /\ evidence' = evidence /\ OthersKeep(w)
           /\ pc[w] = "invoke" /\ call[w].exec /\ call[w].op = "begin_dispatch"
           /\ \E r \in Receipt : /\ r.attempt = call[w].attempt
                                /\ effects' = Append(effects, r)
           /\ \/ Ends(w)
              \/ /\ pc'[w] = "load" /\ call'[w].op = "confirm_success"
                 /\ call'[w].attempt = call[w].attempt
<1> DEFINE r == [intent |-> call[w].intent, attempt |-> call[w].attempt,
                 id |-> Len(effects) + 1]
<1>1. /\ pc[w] = "invoke" /\ effects' = Append(effects, r)
      /\ stream' = stream /\ evidence' = evidence
      /\ Proceed(w, "confirm_success", r) \/ Finish(w)
  BY DEF ProviderEffect
<1>2. r \in Receipt /\ r.attempt = call[w].attempt
  BY <1>1, MaxEffectsAssumption DEF ProviderEffect, IInv, CallOK, TypeOK, Receipt
<1>3. call[w].exec /\ call[w].op = "begin_dispatch" /\ call[w] \in Call
  BY <1>1 DEF IInv, CallOK, TypeOK
<1> HIDE DEF r
<1>4. OthersKeep(w)
  BY <1>1 DEF OthersKeep, Proceed, Finish, IInv, TypeOK
<1>5. CASE Proceed(w, "confirm_success", r)
  <2>1. pc'[w] = "load" /\ call'[w] = [call[w] EXCEPT !.op = "confirm_success", !.receipt = r]
    BY <1>5 DEF Proceed, IInv, TypeOK
  <2>2. QED
    BY <1>1, <1>2, <1>3, <1>4, <2>1 DEF Call
<1>6. CASE Finish(w)
  BY <1>1, <1>2, <1>3, <1>4, <1>6 DEF Finish, Ends, IInv, TypeOK
<1>7. QED
  BY <1>1, <1>5, <1>6

LEMMA EndKind ==
    ASSUME IInv, NEW w \in Worker, ProviderRefuses(w) \/ Crash(w)
    PROVE  OnlyLocal(w) /\ Ends(w)
BY DEF ProviderRefuses, Crash, store, Finish, OnlyLocal, OthersKeep, Ends, IInv, TypeOK

-----------------------------------------------------------------------------
(* The fence.                                                              *)

(* Attempts have dispatch references of their own: a caller that lost a race *)
(* recognises the winner's record by its reference alone.                   *)
OwnReferences == \A a, b \in Attempt : RefsOf[a] \cap RefsOf[b] # {} => a = b

HasDispatched(a) ==
    \E n \in 1..Len(stream) : stream[n].type = "DISPATCHED" /\ stream[n].attempt = a

(* A dispatch carries a reference of the attempt that made it, and so does   *)
(* the call that may make it.                                               *)
DispatchesNamed ==
    \A n \in 1..Len(stream) : stream[n].type = "DISPATCHED" =>
        stream[n].attempt \in Attempt /\ stream[n].ref \in RefsOf[stream[n].attempt]

CallNamed(w) ==
    call[w].op \in {"reserve", "begin_dispatch"} => call[w].ref \in RefsOf[call[w].attempt]

(* Whoever has appended its dispatch, or is at the provider, finds it in the *)
(* stream.                                                                 *)
FencedWhen(w) ==
    At(w, "verify", {"begin_dispatch"}) \/ pc[w] = "invoke" => HasDispatched(call[w].attempt)

FInv ==
    /\ DispatchesNamed
    /\ \A w \in Worker : CallNamed(w) /\ FencedWhen(w)

(* A step that appends nothing concerns the worker that takes it.           *)
LEMMA LocalFInv ==
    ASSUME IInv, FInv, NEW w \in Worker, stream' = stream, OthersKeep(w),
           CallNamed(w)', FencedWhen(w)'
    PROVE  FInv'
<1>1. DispatchesNamed'
  BY DEF FInv, DispatchesNamed
<1>2. ASSUME NEW v \in Worker, v # w
      PROVE  CallNamed(v)' /\ FencedWhen(v)'
  BY <1>2 DEF FInv, CallNamed, FencedWhen, OthersKeep, At, HasDispatched
<1>3. QED
  BY <1>1, <1>2 DEF FInv

(* The last record of a stream is a dispatch with this reference: it is a    *)
(* dispatch of the attempt the reference belongs to.                        *)
LEMMA ReferenceTells ==
    ASSUME IInv, DispatchesNamed, OwnReferences, NEW a \in Attempt, NEW d \in RefsOf[a],
           LastIsDispatch(stream[Len(stream)].attempt, d)
    PROVE  stream[Len(stream)].attempt = a /\ HasDispatched(a)
<1> DEFINE last == stream[Len(stream)]
<1>1. /\ Len(stream) \in 1..Len(stream)
      /\ last.type = "DISPATCHED" /\ last.ref = d
  BY DEF LastIsDispatch, IInv, TypeOK
<1>2. last.attempt \in Attempt /\ d \in RefsOf[last.attempt]
  BY <1>1 DEF DispatchesNamed
<1>3. last.attempt = a
  BY <1>2 DEF OwnReferences
<1>4. QED
  BY <1>1, <1>3 DEF HasDispatched

LEMMA AppendFInv ==
    ASSUME IInv, FInv, NEW w \in Worker, AppendCommits(w)
    PROVE  FInv'
<1> DEFINE r == RecordOf(call[w])
<1>1. r \in Record /\ stream' = Append(stream, r) /\ stream \in Seq(Record)
  BY AppendStep DEF IInv, TypeOK
<1>2. /\ call' = call /\ pc'[w] = "verify" /\ \A v \in Worker \ {w} : pc'[v] = pc[v]
  BY DEF AppendCommits, Goto, IInv, TypeOK
<1>3. call[w].attempt \in Attempt
  BY DEF IInv, CallOK, AppendCommits
<1>4. r.type = "DISPATCHED" => /\ call[w].op = "begin_dispatch"
                               /\ r.attempt = call[w].attempt /\ r.ref = call[w].ref
  <2>1. call[w].op \in StandaloneOp \cup {"reserve"}
    BY DEF IInv, CallOK, AppendCommits
  <2>2. QED
    BY <2>1 DEF RecordOf, StandaloneOp
<1>5. call[w].op = "begin_dispatch" => r.type = "DISPATCHED" /\ r.attempt = call[w].attempt
  BY DEF RecordOf
<1> HIDE DEF r
<1>6. /\ Len(stream') = Len(stream) + 1 /\ Len(stream) \in Nat /\ stream'[Len(stream) + 1] = r
      /\ \A n \in 1..Len(stream) : stream'[n] = stream[n]
  BY <1>1
<1>7. DispatchesNamed'
  BY <1>3, <1>4, <1>6 DEF FInv, DispatchesNamed, CallNamed
<1>8. ASSUME NEW a, HasDispatched(a)
      PROVE  HasDispatched(a)'
  BY <1>6, <1>8 DEF HasDispatched
<1>9. call[w].op = "begin_dispatch" => HasDispatched(call[w].attempt)'
  BY <1>2, <1>5, <1>6 DEF HasDispatched
<1>10. ASSUME NEW v \in Worker
       PROVE  CallNamed(v)' /\ FencedWhen(v)'
  <2>1. CallNamed(v) /\ FencedWhen(v)
    BY DEF FInv
  <2>2. CallNamed(v)'
    BY <1>2, <2>1 DEF CallNamed
  <2>3. CASE v = w
    BY <1>2, <1>9, <2>2, <2>3 DEF FencedWhen, At
  <2>4. CASE v # w
    BY <1>2, <1>8, <2>1, <2>2, <2>4 DEF FencedWhen, At
  <2>5. QED
    BY <2>3, <2>4
<1>11. QED
  BY <1>7, <1>10 DEF FInv

LEMMA NextFInv ==
    ASSUME IInv, FInv, OwnReferences, [Next]_vars
    PROVE  FInv'
<1>1. CASE UNCHANGED vars
  BY <1>1 DEF vars, FInv, DispatchesNamed, CallNamed, FencedWhen, At, HasDispatched
<1>2. ASSUME NEW w \in Worker, AppendCommits(w)
      PROVE  FInv'
  BY <1>2, AppendFInv
<1>3. ASSUME NEW w \in Worker, Ends(w), stream' = stream, OthersKeep(w)
      PROVE  FInv'
  <2>1. CallNamed(w)' /\ FencedWhen(w)'
    BY <1>3 DEF CallNamed, FencedWhen, At, Ends, NoCall
  <2>2. QED
    BY <1>3, <2>1, LocalFInv
<1>4. ASSUME NEW w \in Worker, Run(w), ~AppendCommits(w)
      PROVE  FInv'
  <2>1. OnlyLocal(w) /\ (Ends(w) \/ MovesOn(w) \/ EntersFence(w) \/ PassesFence(w))
    BY <1>4, RunKinds
  <2>2. stream' = stream /\ OthersKeep(w) /\ CallNamed(w) /\ FencedWhen(w)
    BY <2>1 DEF OnlyLocal, FInv
  <2>3. CASE MovesOn(w)
    <3>1. CallNamed(w)' /\ FencedWhen(w)'
      BY <2>2, <2>3 DEF CallNamed, FencedWhen, At, MovesOn
    <3>2. QED
      BY <2>2, <3>1, LocalFInv
  <2>4. CASE EntersFence(w)
    <3>1. call[w] \in Call
      BY DEF IInv, TypeOK
    <3>2. CallNamed(w)' /\ FencedWhen(w)'
      BY <2>2, <2>4, <3>1 DEF CallNamed, FencedWhen, At, EntersFence, Call
    <3>3. QED
      BY <2>2, <3>2, LocalFInv
  <2>5. CASE PassesFence(w)
    <3>1. /\ call[w].op = "begin_dispatch" /\ call'[w] = call[w] /\ pc[w] # "idle"
          /\ call[w].attempt \in Attempt /\ call[w].ref \in RefsOf[call[w].attempt]
      BY <2>2, <2>5 DEF PassesFence, CallNamed, IInv, CallOK
    <3>2. HasDispatched(call[w].attempt)
      <4>1. CASE pc[w] = "verify"
        BY <2>2, <3>1, <4>1 DEF FencedWhen, At
      <4>2. CASE LastIsDispatch(stream[Len(stream)].attempt, call[w].ref)
        BY <3>1, <4>2, ReferenceTells DEF FInv
      <4>3. QED
        BY <2>5, <4>1, <4>2 DEF PassesFence
    <3>3. CallNamed(w)' /\ FencedWhen(w)'
      BY <2>2, <3>1, <3>2 DEF CallNamed, FencedWhen, HasDispatched
    <3>4. QED
      BY <2>2, <3>3, LocalFInv
  <2>6. QED
    BY <1>3, <2>1, <2>2, <2>3, <2>4, <2>5
<1>5. ASSUME NEW w \in Worker, Begin(w)
      PROVE  FInv'
  <2>1. CASE LookUp(w)
    BY <2>1 DEF LookUp, store, local, FInv, DispatchesNamed, CallNamed, FencedWhen, At,
                HasDispatched
  <2>2. CASE ~LookUp(w)
    <3>1. stream' = stream /\ OthersKeep(w) /\ Begins(w)
      BY <1>5, <2>2, BeginKinds
    <3>2. CallNamed(w)' /\ FencedWhen(w)'
      BY <3>1 DEF Begins, CallNamed, FencedWhen, At, Marks, WithReceipt
    <3>3. QED
      BY <3>1, <3>2, LocalFInv
  <2>3. QED
    BY <2>1, <2>2
<1>6. ASSUME NEW w \in Worker, ProviderEffect(w)
      PROVE  FInv'
  <2>1. /\ stream' = stream /\ OthersKeep(w)
        /\ Ends(w) \/ (pc'[w] = "load" /\ call'[w].op = "confirm_success")
    BY <1>6, EffectKind
  <2>2. CASE pc'[w] = "load" /\ call'[w].op = "confirm_success"
    <3>1. CallNamed(w)' /\ FencedWhen(w)'
      BY <2>2 DEF CallNamed, FencedWhen, At
    <3>2. QED
      BY <2>1, <3>1, LocalFInv
  <2>3. QED
    BY <1>3, <2>1, <2>2
<1>7. ASSUME NEW w \in Worker, ProviderRefuses(w) \/ Crash(w)
      PROVE  FInv'
  BY <1>3, <1>7, EndKind DEF OnlyLocal
<1>8. QED
  BY <1>1, <1>2, <1>4, <1>5, <1>6, <1>7 DEF Next, Provider

(* Nobody reaches the provider without a durable DISPATCHED record of its    *)
(* attempt (module docstring, lines 10-12), however loads, appends and       *)
(* crashes interleave, provided attempts do not share dispatch references.  *)
THEOREM FencedCalls ==
    ASSUME OwnReferences
    PROVE  Spec => []FencedInvocation
<1>1. Init => FInv
  BY DEF Init, FInv, DispatchesNamed, CallNamed, FencedWhen, At, NoCall
<1>2. IInv /\ FInv /\ [Next]_vars => FInv'
  BY NextFInv
<1>3. FInv => FencedInvocation
  BY DEF FInv, FencedWhen, FencedInvocation, HasDispatched
<1>4. QED
  BY <1>1, <1>2, <1>3, Inductive, PTL DEF Spec

-----------------------------------------------------------------------------
(* At most one effect.                                                     *)

(* How careful callers have to be: attempt ids are fresh and what is said of *)
(* the provider is final (Disciplined), one worker reconciles, and attempts  *)
(* have references of their own.                                            *)
CarefulCallers ==
    /\ Disciplined
    /\ \A v, w \in Reconciler : v = w
    /\ OwnReferences

(* An execute that may still call the provider, and one that is sure to.    *)
Live(w) == call[w].exec /\ call[w].op \in {"reserve", "begin_dispatch"}
Fencing(w) == call[w].exec /\ (pc[w] = "invoke" \/ At(w, "verify", {"begin_dispatch"}))

(* Reconciler w has found attempt a without effect and not yet recorded it.  *)
Finding(w, a) ==
    \/ evidence[w] = a
    \/ call[w].op = "confirm_no_effect" /\ pc[w] # "verify" /\ call[w].attempt = a

FindingHolds(a) ==
    /\ current.phase = "OUTCOME_UNKNOWN" /\ current.owner = a
    /\ ~HadEffect(a) /\ Settled(a)

WorkerCareful(w) ==
    /\ pc[w] = "idle" => call[w] = NoCall
    /\ call[w].op \in WithReceipt => HadEffect(call[w].attempt)
    /\ Live(w) => ~HadEffect(call[w].attempt)
    /\ Fencing(w) => current.phase = "OUTCOME_UNKNOWN" /\ current.owner = call[w].attempt
    /\ call[w].op = "confirm_no_effect" => evidence[w] = Nil
    /\ \A a \in Attempt : Finding(w, a) => w \in Reconciler /\ FindingHolds(a)

(* One execute per attempt, and every effect is the owner's.                *)
OneLivePerAttempt ==
    \A v, w \in Worker : Live(v) /\ Live(w) /\ call[v].attempt = call[w].attempt => v = w

EffectsOwned ==
    /\ Len(effects) <= 1
    /\ \A n \in 1..Len(effects) : /\ effects[n].attempt = current.owner
                                 /\ current.phase \in {"OUTCOME_UNKNOWN"} \cup Confirmed

DInv ==
    /\ \A w \in Worker : WorkerCareful(w)
    /\ OneLivePerAttempt
    /\ EffectsOwned

(* The owner's attempt is in the stream, so it is never fresh again.        *)
LEMMA OwnerNotFresh ==
    ASSUME IInv, NEW a \in Attempt, Fresh(a)
    PROVE  current.owner # a
<1>1. CASE stream = <<>>
  BY <1>1, NilAssumption DEF current, Fold, NoAction
<1>2. CASE stream # <<>>
  <2>1. stream \in Seq(Record) /\ Len(stream) \in 1..Len(stream)
    BY <1>2 DEF IInv, TypeOK
  <2>2. PICK j \in 1..Len(stream) : IsOwnerIndex(stream, Len(stream), j)
    BY <2>1 DEF IInv, HasOwners
  <2>3. Owner(stream, Len(stream)) = stream[j].attempt
    BY <2>1, <2>2, OwnerOfIndex
  <2>4. QED
    BY <1>2, <2>3 DEF current, Fold, Fresh
<1>3. QED
  BY <1>1, <1>2

(* After a dispatch the outcome is unknown and the dispatcher owns it.      *)
LEMMA DispatcherOwns ==
    ASSUME IInv, NEW d, LastIsDispatch(stream[Len(stream)].attempt, d)
    PROVE  current.phase = "OUTCOME_UNKNOWN" /\ current.owner = stream[Len(stream)].attempt
<1> DEFINE n == Len(stream)
<1>1. /\ stream \in Seq(Record) /\ stream # <<>> /\ stream[n].type = "DISPATCHED"
      /\ n \in Nat /\ n >= 1
  BY DEF LastIsDispatch, IInv, TypeOK
<1>2. Foldable(stream)
  BY DEF IInv, StreamFoldable
<1>3. n # 1
  BY <1>1, <1>2 DEF Foldable
<1>4. n \in 2..n /\ n - 1 \in 1..n /\ n \in 1..n
  <2>1. \A k \in Nat : k >= 1 /\ k # 1 => k \in 2..k /\ k - 1 \in 1..k /\ k \in 1..k
    OBVIOUS
  <2>2. QED
    BY <1>1, <1>3, <2>1
<1>5. stream[n].attempt = Owner(stream, n - 1)
  <2>1. \A k \in 2..n : NamesOwner(stream[k], Owner(stream, k - 1))
    BY <1>1, <1>2, Zenon DEF Foldable
  <2>2. NamesOwner(stream[n], Owner(stream, n - 1))
    BY <1>4, <2>1
  <2>3. QED
    BY <1>1, <2>2 DEF NamesOwner
<1>6. PICK j \in 1..n - 1 : IsOwnerIndex(stream, n - 1, j)
  BY <1>4 DEF IInv, HasOwners
<1>7. j \in 1..n /\ IsOwnerIndex(stream, n, j)
  BY <1>1, <1>4, <1>6 DEF IsOwnerIndex
<1> HIDE DEF n
<1>8. Owner(stream, n) = stream[j].attempt /\ Owner(stream, n - 1) = stream[j].attempt
  BY <1>1, <1>4, <1>6, <1>7, OwnerOfIndex DEF n
<1>9. QED
  BY <1>1, <1>5, <1>8 DEF n, current, Fold, PhaseAfter

(* A step that appends nothing and has no effect concerns the worker that    *)
(* takes it: it may not become able to call the provider for the owner, nor  *)
(* for an attempt that has had its effect or its execute.                   *)
LEMMA LocalDInv ==
    ASSUME IInv, DInv, NEW w \in Worker, stream' = stream, effects' = effects, OthersKeep(w),
           \A v \in Worker \ {w} : evidence'[v] = evidence[v],
           pc'[w] = "idle" => call'[w] = NoCall,
           call'[w].op \in WithReceipt => HadEffect(call'[w].attempt),
           Live(w)' => \/ Live(w) /\ call'[w].attempt = call[w].attempt
                       \/ /\ ~HadEffect(call'[w].attempt)
                          /\ call'[w].attempt # current.owner
                          /\ \A v \in Worker : call[v].attempt # call'[w].attempt,
           Fencing(w)' => /\ current.phase = "OUTCOME_UNKNOWN"
                          /\ current.owner = call'[w].attempt,
           call'[w].op = "confirm_no_effect" => evidence'[w] = Nil,
           \A a \in Attempt : Finding(w, a)' => Finding(w, a)
    PROVE  DInv'
<1>1. current' = current
  BY DEF current
<1>2. \A a : HadEffect(a)' <=> HadEffect(a)
  BY DEF HadEffect
<1>3. ASSUME NEW v \in Worker, v # w
      PROVE  /\ pc'[v] = pc[v] /\ call'[v] = call[v] /\ evidence'[v] = evidence[v]
             /\ Live(v)' <=> Live(v)
  BY <1>3 DEF OthersKeep, Live
<1>4. Live(w)' => ~HadEffect(call'[w].attempt)
  BY DEF DInv, WorkerCareful
<1>5. ASSUME NEW a \in Attempt, FindingHolds(a)
      PROVE  FindingHolds(a)'
  <2>1. \A v \in Worker : Live(v) => call[v].attempt # a
    BY <1>5 DEF FindingHolds, Settled, Live
  <2>2. Live(w)' => call'[w].attempt # a
    BY <1>5, <2>1 DEF FindingHolds
  <2>3. \A v \in Worker : Live(v)' => call'[v].attempt # a
    BY <1>3, <2>1, <2>2
  <2>4. Settled(a)'
    BY <2>3 DEF Settled, Live
  <2>5. QED
    BY <1>1, <1>2, <1>5, <2>4 DEF FindingHolds
<1>6. WorkerCareful(w)'
  <2>1. WorkerCareful(w)
    BY DEF DInv
  <2>2. \A a \in Attempt : Finding(w, a)' => w \in Reconciler /\ FindingHolds(a)'
    BY <1>5, <2>1 DEF WorkerCareful
  <2>3. QED
    BY <1>1, <1>2, <1>4, <2>2 DEF WorkerCareful
<1>7. ASSUME NEW v \in Worker, v # w
      PROVE  WorkerCareful(v)'
  <2>1. WorkerCareful(v)
    BY DEF DInv
  <2>2. pc'[v] = pc[v] /\ call'[v] = call[v] /\ evidence'[v] = evidence[v]
    BY <1>3, <1>7
  <2>3. \A a \in Attempt : Finding(v, a)' => v \in Reconciler /\ FindingHolds(a)'
    BY <1>5, <2>1, <2>2 DEF WorkerCareful, Finding
  <2>4. QED
    BY <1>1, <1>2, <2>1, <2>2, <2>3 DEF WorkerCareful, Live, Fencing, At
<1>8. OneLivePerAttempt'
  <2>1. ASSUME NEW u \in Worker, u # w, Live(u)', Live(w)', call'[u].attempt = call'[w].attempt
        PROVE  FALSE
    BY <1>3, <2>1 DEF DInv, OneLivePerAttempt
  <2>2. ASSUME NEW u \in Worker, NEW v \in Worker, u # w, v # w, Live(u)', Live(v)',
               call'[u].attempt = call'[v].attempt
        PROVE  u = v
    BY <1>3, <2>2 DEF DInv, OneLivePerAttempt
  <2>3. QED
    BY <2>1, <2>2 DEF OneLivePerAttempt
<1>9. EffectsOwned'
  BY <1>1 DEF DInv, EffectsOwned
<1>10. QED
  BY <1>6, <1>7, <1>8, <1>9 DEF DInv

LEMMA EndsDInv ==
    ASSUME IInv, DInv, NEW w \in Worker, OnlyLocal(w), Ends(w)
    PROVE  DInv'
<1>1. ~Live(w)' /\ ~Fencing(w)' /\ call'[w].op = "none" /\ pc'[w] = "idle"
  BY DEF Ends, NoCall, Live, Fencing
<1>2. \A a \in Attempt : Finding(w, a)' => Finding(w, a)
  BY <1>1 DEF Finding, OnlyLocal
<1>3. QED
  BY <1>1, <1>2, LocalDInv DEF OnlyLocal, Ends, WithReceipt

(* The steps of the coordinator that append nothing.                        *)
LEMMA RunDInv ==
    ASSUME IInv, FInv, DInv, CarefulCallers, NEW w \in Worker, Run(w), ~AppendCommits(w)
    PROVE  DInv'
<1>1. OnlyLocal(w) /\ (Ends(w) \/ MovesOn(w) \/ EntersFence(w) \/ PassesFence(w))
  BY RunKinds
<1>2. WorkerCareful(w) /\ call[w] \in Call
  BY DEF DInv, IInv, TypeOK
<1>3. CASE MovesOn(w)
  <2>1. (Live(w)' <=> Live(w)) /\ ~Fencing(w)' /\ call'[w] = call[w] /\ pc'[w] # "idle"
    BY <1>3 DEF MovesOn, Live, Fencing, At
  <2>2. \A a \in Attempt : Finding(w, a)' => Finding(w, a)
    BY <1>1, <1>3 DEF Finding, OnlyLocal, MovesOn
  <2>3. QED
    BY <1>1, <1>2, <2>1, <2>2, LocalDInv DEF OnlyLocal, WorkerCareful
<1>4. CASE EntersFence(w)
  <2>1. /\ call'[w].op = "begin_dispatch" /\ call'[w].attempt = call[w].attempt
        /\ call'[w].exec = call[w].exec /\ pc'[w] = "load" /\ call[w].op = "reserve"
    BY <1>2, <1>4 DEF EntersFence, Call
  <2>2. (Live(w)' => Live(w)) /\ ~Fencing(w)'
    BY <2>1 DEF Live, Fencing, At
  <2>3. \A a \in Attempt : Finding(w, a)' => Finding(w, a)
    BY <1>1, <2>1 DEF Finding, OnlyLocal
  <2>4. QED
    BY <1>1, <2>1, <2>2, <2>3, LocalDInv DEF OnlyLocal, WithReceipt
<1>5. CASE PassesFence(w)
  <2>1. /\ call'[w] = call[w] /\ call[w].op = "begin_dispatch" /\ call[w].exec
        /\ pc[w] # "idle" /\ pc'[w] = "invoke"
    BY <1>5 DEF PassesFence
  <2>2. call[w].attempt \in Attempt /\ call[w].ref \in RefsOf[call[w].attempt]
    BY <2>1 DEF IInv, CallOK, FInv, CallNamed
  <2>3. current.phase = "OUTCOME_UNKNOWN" /\ current.owner = call[w].attempt
    <3>1. CASE pc[w] = "verify"
      BY <1>2, <2>1, <3>1 DEF WorkerCareful, Fencing, At
    <3>2. CASE LastIsDispatch(stream[Len(stream)].attempt, call[w].ref)
      BY <2>2, <3>2, ReferenceTells, DispatcherOwns DEF FInv, CarefulCallers
    <3>3. QED
      BY <1>5, <3>1, <3>2 DEF PassesFence
  <2>4. Live(w)
    BY <2>1 DEF Live
  <2>5. \A a \in Attempt : Finding(w, a)' => Finding(w, a)
    BY <1>1, <2>1 DEF Finding, OnlyLocal
  <2>6. QED
    BY <1>1, <2>1, <2>3, <2>4, <2>5, LocalDInv DEF OnlyLocal, WithReceipt
<1>6. QED
  BY <1>1, <1>3, <1>4, <1>5, EndsDInv

(* The callers: a fresh attempt is not the owner's, and what a reconciler    *)
(* finds about the owner holds until it is recorded.                        *)
LEMMA BeginDInv ==
    ASSUME IInv, DInv, CarefulCallers, NEW w \in Worker, Begin(w)
    PROVE  DInv'
<1>1. CASE LookUp(w)
  <2>1. /\ stream' = stream /\ effects' = effects /\ pc' = pc /\ call' = call
        /\ evidence' = [evidence EXCEPT ![w] = current.owner]
        /\ w \in Reconciler /\ pc[w] = "idle" /\ FindingHolds(current.owner)
    BY <1>1 DEF LookUp, store, local, FindingHolds, CarefulCallers
  <2>2. evidence \in [Worker -> Attempt \cup {Nil}]
    BY DEF IInv, TypeOK
  <2>3. current' = current /\ \A a : FindingHolds(a)' <=> FindingHolds(a)
    BY <2>1 DEF current, FindingHolds, HadEffect, Settled
  <2>4. call[w] = NoCall
    BY <2>1 DEF DInv, WorkerCareful
  <2>5. ASSUME NEW v \in Worker
        PROVE  WorkerCareful(v)'
    <3>1. WorkerCareful(v)
      BY DEF DInv
    <3>2. /\ Live(v)' <=> Live(v)
          /\ Fencing(v)' <=> Fencing(v)
          /\ \A a : HadEffect(a)' <=> HadEffect(a)
      BY <2>1 DEF Live, Fencing, At, HadEffect
    <3>3. CASE v = w
      <4>1. \A a \in Attempt : Finding(w, a)' => a = current.owner
        BY <2>1, <2>2, <2>4 DEF Finding, NoCall
      <4>2. \A a \in Attempt : Finding(w, a)' => w \in Reconciler /\ FindingHolds(a)'
        BY <2>1, <2>3, <4>1
      <4>3. call'[v].op # "confirm_no_effect"
        BY <2>1, <2>4, <3>3 DEF NoCall
      <4>4. QED
        BY <2>1, <2>3, <3>1, <3>2, <3>3, <4>2, <4>3 DEF WorkerCareful
    <3>4. CASE v # w
      <4>1. evidence'[v] = evidence[v]
        BY <2>1, <2>2, <3>4
      <4>2. \A a \in Attempt : Finding(v, a)' => Finding(v, a)
        BY <2>1, <4>1 DEF Finding
      <4>3. QED
        BY <2>1, <2>3, <3>1, <3>2, <4>1, <4>2 DEF WorkerCareful
    <3>5. QED
      BY <3>3, <3>4
  <2>6. OneLivePerAttempt' /\ EffectsOwned'
    BY <2>1, <2>3 DEF DInv, OneLivePerAttempt, Live, EffectsOwned
  <2>7. QED
    BY <2>5, <2>6 DEF DInv
<1>2. CASE ~LookUp(w)
  <2>1. stream' = stream /\ effects' = effects /\ OthersKeep(w) /\ Begins(w)
    BY <1>2, BeginKinds
  <2>2. /\ evidence \in [Worker -> Attempt \cup {Nil}] /\ Nil \notin Attempt
        /\ WorkerCareful(w)
    BY NilAssumption DEF IInv, TypeOK, DInv
  <2>3. /\ \A v \in Worker \ {w} : evidence'[v] = evidence[v]
        /\ call'[w].op = "confirm_no_effect" => evidence'[w] = Nil
        /\ evidence'[w] \in {evidence[w], Nil}
    BY <2>1, <2>2 DEF Begins, Marks, WithReceipt
  <2>4. ~Fencing(w)' /\ pc'[w] # "idle"
    BY <2>1 DEF Begins, Fencing, At
  <2>5. call'[w].op \in WithReceipt => HadEffect(call'[w].attempt)
    BY <2>1 DEF Begins, WithReceipt, Marks
  <2>6. ASSUME Live(w)'
        PROVE  /\ ~HadEffect(call'[w].attempt)
               /\ call'[w].attempt # current.owner
               /\ \A v \in Worker : call[v].attempt # call'[w].attempt
    <3>1. Fresh(call'[w].attempt) /\ call'[w].attempt \in Attempt
      BY <2>1, <2>6 DEF Begins, Live, CarefulCallers, Marks, WithReceipt
    <3>2. call'[w].attempt # current.owner
      BY <3>1, OwnerNotFresh
    <3>3. QED
      BY <3>1, <3>2 DEF Fresh, HadEffect, DInv, EffectsOwned
  <2>7. \A a \in Attempt : Finding(w, a)' => Finding(w, a)
    BY <2>1, <2>2, <2>3 DEF Finding, Begins, Marks, WithReceipt
  <2>8. QED
    BY <2>1, <2>3, <2>4, <2>5, <2>6, <2>7, LocalDInv
<1>3. QED
  BY <1>1, <1>2

(* A committed append: while an execute is sure to call the provider, or a   *)
(* finding is not yet recorded, no other record can be.                     *)
LEMMA AppendDInv ==
    ASSUME IInv, DInv, CarefulCallers, NEW w \in Worker, AppendCommits(w)
    PROVE  DInv'
<1> DEFINE c == call[w]
           r == RecordOf(c)
<1>1. /\ Appendable(w) /\ WorkerCareful(w)
      /\ c.op \in StandaloneOp \cup {"reserve"} /\ c.attempt \in Attempt
  BY AppendStep DEF IInv, CallOK, AppendCommits, DInv
<1>2. /\ effects' = effects /\ evidence' = evidence /\ call' = call
      /\ pc[w] = "append" /\ pc'[w] = "verify"
      /\ \A v \in Worker \ {w} : pc'[v] = pc[v]
  BY DEF AppendCommits, Goto, IInv, TypeOK
<1>3. /\ current'.phase = PhaseAfter(r.type)
      /\ current'.owner = IF r.type = "RESERVED" THEN r.attempt ELSE current.owner
  <2> HIDE DEF r
  <2>1. current' = [phase    |-> PhaseAfter(r.type),
                    intent   |-> IF stream = <<>> THEN r.intent ELSE current.intent,
                    owner    |-> IF r.type = "RESERVED" THEN r.attempt ELSE current.owner,
                    attempts |-> current.attempts + (IF r.type = "RESERVED" THEN 1 ELSE 0),
                    receipt  |-> IF PhaseAfter(r.type) \in Confirmed THEN r.receipt ELSE Nil]
    BY CurrentAfter DEF r
  <2>2. QED
    BY <2>1
<1>4. /\ \A a : HadEffect(a)' <=> HadEffect(a)
      /\ \A a : Settled(a)' <=> Settled(a)
      /\ \A v \in Worker : Live(v)' <=> Live(v)
  BY <1>2 DEF HadEffect, Settled, Live
<1>5. ASSUME current.phase = "OUTCOME_UNKNOWN"
      PROVE  /\ c.op \in WithReceipt \cup {"confirm_no_effect"}
             /\ c.op \in WithReceipt => /\ current.owner = c.attempt /\ HadEffect(c.attempt)
                                        /\ r.type \in {"CONFIRMED_SUCCESS", "RECEIPT_RECOVERED"}
             /\ c.op = "confirm_no_effect" =>
                   /\ w \in Reconciler /\ FindingHolds(current.owner)
                   /\ r.type = "CONFIRMED_NO_EFFECT"
  <2>1. c.op \in WithReceipt \cup {"confirm_no_effect"}
    BY <1>1, <1>5 DEF Appendable, StandaloneOp, Marks, WithReceipt, Retryable
  <2>2. c.op \in WithReceipt => /\ current.owner = c.attempt /\ HadEffect(c.attempt)
                                /\ r.type \in {"CONFIRMED_SUCCESS", "RECEIPT_RECOVERED"}
    BY <1>1 DEF Appendable, WorkerCareful, RecordOf, WithReceipt
  <2>3. c.op = "confirm_no_effect" => /\ w \in Reconciler /\ FindingHolds(c.attempt)
                                      /\ r.type = "CONFIRMED_NO_EFFECT"
    BY <1>1, <1>2 DEF WorkerCareful, Finding, RecordOf
  <2>4. QED
    BY <2>1, <2>2, <2>3 DEF FindingHolds
<1> HIDE DEF r
<1>6. ASSUME NEW v \in Worker, Fencing(v)
      PROVE  FALSE
  <2>1. /\ current.phase = "OUTCOME_UNKNOWN" /\ current.owner = call[v].attempt
        /\ Live(v) /\ ~HadEffect(call[v].attempt)
    <3>1. WorkerCareful(v) /\ CallOK(v)
      BY DEF DInv, IInv
    <3>2. Live(v)
      BY <1>6, <3>1 DEF Fencing, Live, At, CallOK
    <3>3. QED
      BY <1>6, <3>1, <3>2 DEF WorkerCareful
  <2>2. ~Settled(current.owner)
    BY <2>1 DEF Settled, Live
  <2>3. QED
    BY <1>5, <2>1, <2>2 DEF FindingHolds
<1>7. ASSUME NEW v \in Worker, NEW a \in Attempt, Finding(v, a)
      PROVE  v = w /\ c.op = "confirm_no_effect"
  <2>1. v \in Reconciler /\ FindingHolds(a)
    BY <1>7 DEF DInv, WorkerCareful
  <2>2. c.op = "confirm_no_effect" /\ w \in Reconciler
    BY <1>5, <2>1 DEF FindingHolds
  <2>3. QED
    BY <2>1, <2>2 DEF CarefulCallers
<1>8. ASSUME NEW v \in Worker
      PROVE  \A a \in Attempt : ~Finding(v, a)'
  <2>1. SUFFICES ASSUME NEW a \in Attempt, Finding(v, a)' PROVE FALSE
    OBVIOUS
  <2>2. CASE v # w
    BY <1>2, <1>7, <2>1, <2>2 DEF Finding
  <2>3. CASE v = w
    <3>1. evidence[w] = a
      BY <1>2, <2>1, <2>3 DEF Finding
    <3>2. c.op = "confirm_no_effect"
      BY <1>7, <3>1 DEF Finding
    <3>3. evidence[w] = Nil /\ Nil \notin Attempt
      BY <1>1, <3>2, NilAssumption DEF WorkerCareful
    <3>4. QED
      BY <3>1, <3>3
  <2>4. QED
    BY <2>2, <2>3
<1>9. Fencing(w)' => current'.phase = "OUTCOME_UNKNOWN" /\ current'.owner = c.attempt
  <2> SUFFICES ASSUME Fencing(w)'
               PROVE  current'.phase = "OUTCOME_UNKNOWN" /\ current'.owner = c.attempt
    OBVIOUS
  <2>1. c.op = "begin_dispatch"
    BY <1>2 DEF Fencing, At
  <2>2. current.owner = c.attempt
    BY <1>1, <2>1 DEF Appendable
  <2>3. r.type = "DISPATCHED"
    BY <2>1 DEF r, RecordOf
  <2>4. QED
    BY <1>3, <2>2, <2>3 DEF PhaseAfter
<1>10. ASSUME NEW v \in Worker
       PROVE  WorkerCareful(v)'
  <2>1. WorkerCareful(v)
    BY DEF DInv
  <2>2. Fencing(v)' => current'.phase = "OUTCOME_UNKNOWN" /\ current'.owner = call[v].attempt
    <3>1. CASE v = w
      BY <1>9, <3>1
    <3>2. CASE v # w
      BY <1>2, <1>6, <3>2 DEF Fencing, At
    <3>3. QED
      BY <3>1, <3>2
  <2>3. pc'[v] = "idle" => call'[v] = NoCall
    BY <1>2, <2>1 DEF WorkerCareful
  <2>4. QED
    BY <1>2, <1>4, <1>8, <2>1, <2>2, <2>3 DEF WorkerCareful
<1>11. OneLivePerAttempt'
  BY <1>2, <1>4 DEF DInv, OneLivePerAttempt
<1>12. EffectsOwned'
  <2> SUFFICES ASSUME NEW n \in 1..Len(effects)
               PROVE  /\ effects[n].attempt = current'.owner
                      /\ current'.phase \in {"OUTCOME_UNKNOWN"} \cup Confirmed
    BY <1>2 DEF DInv, EffectsOwned
  <2>1. /\ effects[n].attempt = current.owner
        /\ current.phase \in {"OUTCOME_UNKNOWN"} \cup Confirmed
    BY DEF DInv, EffectsOwned
  <2>2. current.phase = "OUTCOME_UNKNOWN"
    BY <1>1, <2>1
       DEF Appendable, Confirmed, Retryable, StandaloneOp, Marks, WithReceipt
  <2>3. HadEffect(current.owner)
    BY <2>1 DEF HadEffect
  <2>4. r.type \in {"CONFIRMED_SUCCESS", "RECEIPT_RECOVERED"}
    BY <1>5, <2>2, <2>3 DEF FindingHolds
  <2>5. QED
    BY <1>3, <2>1, <2>4 DEF PhaseAfter, Confirmed
<1>13. QED
  BY <1>10, <1>11, <1>12 DEF DInv

(* The provider is called: for the owner's attempt, which had no effect yet. *)
LEMMA EffectDInv ==
    ASSUME IInv, DInv, NEW w \in Worker, ProviderEffect(w)
    PROVE  DInv'
<1>1. /\ stream' = stream /\ evidence' = evidence /\ OthersKeep(w)
      /\ pc[w] = "invoke" /\ call[w].exec /\ call[w].op = "begin_dispatch"
      /\ Ends(w) \/ (/\ pc'[w] = "load" /\ call'[w].op = "confirm_success"
                     /\ call'[w].attempt = call[w].attempt)
  BY EffectKind
<1>2. PICK r \in Receipt : r.attempt = call[w].attempt /\ effects' = Append(effects, r)
  BY EffectKind
<1>3. WorkerCareful(w) /\ Live(w) /\ Fencing(w)
  BY <1>1 DEF DInv, Live, Fencing
<1>4. /\ current.phase = "OUTCOME_UNKNOWN" /\ current.owner = call[w].attempt
      /\ ~HadEffect(call[w].attempt)
  BY <1>3 DEF WorkerCareful
<1>5. current' = current
  BY <1>1 DEF current
<1>6. effects \in Seq(Receipt) /\ Len(effects) = 0
  <2>1. effects \in Seq(Receipt) /\ Len(effects) \in Nat
    BY DEF IInv, TypeOK
  <2>2. ~\E n \in 1..Len(effects) : TRUE
    BY <1>4 DEF HadEffect, DInv, EffectsOwned
  <2>3. QED
    BY <2>1, <2>2
<1>7. /\ Len(effects') = 1 /\ effects'[1] = r
      /\ \A a : HadEffect(a)' <=> a = call[w].attempt
  BY <1>2, <1>6 DEF HadEffect
<1>8. EffectsOwned'
  BY <1>2, <1>4, <1>5, <1>7 DEF EffectsOwned
<1>9. ~Live(w)' /\ ~Fencing(w)'
  BY <1>1 DEF Ends, NoCall, Live, Fencing, At
<1>10. ASSUME NEW v \in Worker, v # w
       PROVE  /\ pc'[v] = pc[v] /\ call'[v] = call[v] /\ evidence'[v] = evidence[v]
              /\ (Live(v)' <=> Live(v)) /\ (Fencing(v)' <=> Fencing(v))
  BY <1>1, <1>10 DEF OthersKeep, Live, Fencing, At
<1>11. ASSUME NEW v \in Worker, NEW a \in Attempt
       PROVE  ~Finding(v, a)
  <2>1. SUFFICES ASSUME Finding(v, a) PROVE FALSE
    OBVIOUS
  <2>2. FindingHolds(a)
    BY <2>1 DEF DInv, WorkerCareful
  <2>3. QED
    BY <1>3, <1>4, <2>2 DEF FindingHolds, Settled, Live
<1>12. WorkerCareful(w)'
  <2>1. call'[w].op # "confirm_no_effect" /\ (pc'[w] = "idle" => call'[w] = NoCall)
    BY <1>1 DEF Ends, NoCall
  <2>2. \A a \in Attempt : ~Finding(w, a)'
    BY <1>1, <1>11, <2>1 DEF Finding
  <2>3. call'[w].op \in WithReceipt => HadEffect(call[w].attempt)'
    BY <1>1, <1>7 DEF Ends, NoCall, WithReceipt
  <2>4. QED
    BY <1>9, <2>1, <2>2, <2>3 DEF WorkerCareful
<1>13. ASSUME NEW v \in Worker, v # w
       PROVE  WorkerCareful(v)'
  <2>1. WorkerCareful(v)
    BY DEF DInv
  <2>2. \A a \in Attempt : ~Finding(v, a)'
    BY <1>10, <1>11, <1>13 DEF Finding
  <2>3. call'[v].op \in WithReceipt => HadEffect(call[v].attempt)'
    BY <1>6, <1>10, <1>13, <2>1 DEF WorkerCareful, HadEffect
  <2>4. Live(v)' => ~HadEffect(call[v].attempt)'
    BY <1>3, <1>7, <1>10, <1>13 DEF DInv, OneLivePerAttempt
  <2>5. QED
    BY <1>5, <1>10, <1>13, <2>1, <2>2, <2>3, <2>4 DEF WorkerCareful
<1>14. OneLivePerAttempt'
  BY <1>9, <1>10 DEF DInv, OneLivePerAttempt
<1>15. QED
  BY <1>8, <1>12, <1>13, <1>14 DEF DInv

LEMMA NextDInv ==
    ASSUME IInv, FInv, DInv, CarefulCallers, [Next]_vars
    PROVE  DInv'
<1>1. CASE UNCHANGED vars
  BY <1>1 DEF vars, DInv, WorkerCareful, OneLivePerAttempt, EffectsOwned, Live, Fencing, At,
              Finding, FindingHolds, HadEffect, Settled, current
<1>2. ASSUME NEW w \in Worker, Run(w)
      PROVE  DInv'
  BY <1>2, RunDInv, AppendDInv
<1>3. ASSUME NEW w \in Worker, ProviderRefuses(w) \/ Crash(w)
      PROVE  DInv'
  BY <1>3, EndKind, EndsDInv
<1>4. QED
  BY <1>1, <1>2, <1>3, BeginDInv, EffectDInv DEF Next, Provider

LEMMA CarefulInvariant ==
    ASSUME CarefulCallers
    PROVE  Spec => [](FInv /\ DInv)
<1>1. Init => FInv /\ DInv
  <2> SUFFICES ASSUME Init PROVE FInv /\ DInv
    OBVIOUS
  <2>1. FInv
    BY DEF Init, FInv, DispatchesNamed, CallNamed, FencedWhen, At, NoCall
  <2>2. ASSUME NEW w \in Worker
        PROVE  /\ pc[w] = "idle" /\ call[w] = NoCall /\ call[w].op = "none" /\ ~call[w].exec
               /\ \A a \in Attempt : ~Finding(w, a)
    BY NilAssumption DEF Init, NoCall, Finding
  <2>3. DInv
    BY <2>2 DEF Init, DInv, WorkerCareful, OneLivePerAttempt, EffectsOwned, Live, Fencing,
                At, WithReceipt
  <2>4. QED
    BY <2>1, <2>3
<1>2. IInv /\ FInv /\ DInv /\ [Next]_vars => FInv' /\ DInv'
  BY NextFInv, NextDInv DEF CarefulCallers
<1>3. QED
  BY <1>1, <1>2, Inductive, PTL DEF Spec

(* The external effect of a logical action happens at most once, over all    *)
(* attempts, crashes, lost answers and retries of any number of workers     *)
(* ("exactly-once", line 1 of the module), provided the callers are careful. *)
THEOREM OneEffect ==
    ASSUME CarefulCallers
    PROVE  Spec => []AtMostOneEffect
<1>1. FInv /\ DInv => AtMostOneEffect
  BY DEF DInv, EffectsOwned, AtMostOneEffect
<1>2. QED
  BY <1>1, CarefulInvariant, PTL

(* While an execute is about to call the provider nobody may reserve, and    *)
(* wherever somebody may, the outside world has seen nothing.               *)
THEOREM SafeRetries ==
    ASSUME CarefulCallers
    PROVE  Spec => []RetryIsSafe
<1>1. IInv /\ FInv /\ DInv => RetryIsSafe
  <2> SUFFICES ASSUME IInv, DInv PROVE RetryIsSafe
    OBVIOUS
  <2>1. NoRetryWhileInvoking
    BY DEF DInv, WorkerCareful, Fencing, IInv, CallOK, NoRetryWhileInvoking
  <2>2. ASSUME current.phase \in {"NONE", "RESERVED"} \cup Retryable
        PROVE  effects = <<>>
    <3>1. effects \in Seq(Receipt) /\ current.phase \notin {"OUTCOME_UNKNOWN"} \cup Confirmed
      BY <2>2 DEF IInv, TypeOK, Retryable, Confirmed
    <3>2. ~\E n \in 1..Len(effects) : TRUE
      BY <3>1 DEF DInv, EffectsOwned
    <3>3. QED
      BY <3>1, <3>2
  <2>3. QED
    BY <2>1, <2>2 DEF RetryIsSafe, RetryableMeansNoEffect
<1>2. QED
  BY <1>1, CarefulInvariant, Inductive, PTL
=============================================================================
