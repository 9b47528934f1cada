------------------------ MODULE AgentRuntime_proofs ------------------------
(***************************************************************************)
(* Theorems about AgentRuntime: types, conservation of permits, the audit   *)
(* trail, and the bound the circuit breaker puts on failures in a row.      *)
(*                                                                         *)
(* Every step of a call replaces its record by another.  Moved says what    *)
(* any such step keeps, PermitStep what it does to the permits, HealthStep   *)
(* what it does to the shared health; each step is all three, and the        *)
(* invariants follow from these alone.                                     *)
(***************************************************************************)
EXTENDS AgentRuntime, FiniteSetTheorems, WellFoundedInduction, TLAPS

Holding(c) == c.pc \in {"loop", "execute", "release"}

(* Calls that will still try p, or are trying it. *)
Ahead(c, p) == p \in c.todo \/ c.current = p

CallOK(c) ==
    /\ c.pc # "idle" => c.cap # None
    /\ c.pc = "execute" <=> c.current # None
    /\ c.pc \in {"filter", "rank"} => c.left # {}
    /\ c.current \notin c.todo

IInv ==
    /\ TypeOK
    /\ \A t \in Thread : CallOK(call[t])
    /\ PermitsConserved

Moved(t, c) ==
    /\ c \in Call
    /\ CallOK(c)
    /\ call' = [call EXCEPT ![t] = c]
    /\ \A p \in Provider : Ahead(c, p) => Ahead(call[t], p) \/ Listable(p)
    /\ audit' \in [Thread -> Seq(AuditRecord)]

PermitStep(t, c) ==
    \/ /\ permits' = permits
       /\ Holding(c) <=> Holding(call[t])
       /\ Holding(c) => c.cap = call[t].cap
    \/ /\ ~Holding(call[t]) /\ Holding(c)
       /\ c.cap \in Capability /\ permits[c.cap] > 0
       /\ permits' = [permits EXCEPT ![c.cap] = @ - 1]
    \/ /\ Holding(call[t]) /\ ~Holding(c)
       /\ permits' = [permits EXCEPT ![call[t].cap] = @ + 1]

HealthStep(t, c) ==
    \/ UNCHANGED <<health, failures>>
    \/ /\ call[t].current \in Provider
       /\ ~Ahead(c, call[t].current)
       /\ \E k \in Capability : RecordFailure(call[t].current, k)
    \/ call[t].current \in Provider /\ RecordSuccess(call[t].current)

CallStep(t) == \E c : Moved(t, c) /\ PermitStep(t, c) /\ HealthStep(t, c)

-----------------------------------------------------------------------------
LEMMA NotStartedOK == NotStarted \in Call /\ CallOK(NotStarted)
<1>1. [p \in Provider |-> 0] \in [Provider -> 0..2]
  OBVIOUS
<1> QED BY <1>1, NoneAssumption DEF NotStarted, Call, CallOK

(* A nonempty set of providers has a least one. *)
LEMMA LeastOf ==
    ASSUME NEW S \in SUBSET Provider, S # {}
    PROVE  Least(S) \in S
<1>1. \A x \in S : x \in Nat
  BY ProviderAssumption
<1>2. PICK p \in S : \A q \in S : ~(<<q, p>> \in OpToRel(<, Nat))
  BY <1>1, WFMin, NatLessThanWellFounded
<1>3. \A q \in S : ~(q < p)
  BY <1>1, <1>2 DEF OpToRel
<1>4. \A q \in S : p <= q
  BY <1>1, <1>3
<1> QED BY <1>4 DEF Least

LEMMA NoteOK ==
    ASSUME IInv, NEW t \in Thread, NEW provider \in Provider \cup {None},
           NEW outcome \in Outcome, Note(t, provider, outcome)
    PROVE  audit' \in [Thread -> Seq(AuditRecord)]
<1> DEFINE r == [provider |-> provider, outcome |-> outcome]
<1>1. r \in AuditRecord
  BY DEF AuditRecord
<1> HIDE DEF r
<1>2. Append(audit[t], r) \in Seq(AuditRecord)
  BY <1>1 DEF IInv, TypeOK
<1> QED BY <1>2 DEF Note, r, IInv, TypeOK

(* A call that ends, but for its permit. *)
LEMMA LeavingMoves ==
    ASSUME IInv, NEW t \in Thread, NEW pc \in {"release", "raise"},
           NEW how \in {"returned", "raised", "escaped"},
           call[t].pc # "idle", Leaving(t, pc, how),
           audit' \in [Thread -> Seq(AuditRecord)]
    PROVE  \E c : Moved(t, c) /\ c.pc = pc /\ c.cap = call[t].cap
                  /\ \A p \in Provider : ~Ahead(c, p)
<1> DEFINE c == [NotStarted EXCEPT !.pc = pc, !.cap = call[t].cap, !.ended = how]
<1>1. call[t] \in Call /\ CallOK(call[t])
  BY DEF IInv, TypeOK
<1>2. /\ c \in Call /\ c.pc = pc /\ c.cap = call[t].cap
      /\ c.todo = {} /\ c.current = None
  BY <1>1, NotStartedOK DEF Call, NotStarted
<1>3. call' = [call EXCEPT ![t] = c]
  BY DEF Leaving
<1> HIDE DEF c
<1>4. CallOK(c) /\ \A p \in Provider : ~Ahead(c, p)
  BY <1>1, <1>2, NoneAssumption DEF CallOK, Ahead
<1> QED BY <1>2, <1>3, <1>4 DEF Moved

(* A call that goes on with its next provider. *)
LEMMA ContinueMoves ==
    ASSUME IInv, NEW t \in Thread, call[t].pc = "execute", Continue(t),
           audit' \in [Thread -> Seq(AuditRecord)]
    PROVE  \E c : Moved(t, c) /\ c.pc = "loop" /\ c.cap = call[t].cap
                  /\ ~Ahead(c, call[t].current)
<1> DEFINE c == [call[t] EXCEPT !.pc = "loop", !.current = None]
<1>1. call[t] \in Call /\ CallOK(call[t])
  BY DEF IInv, TypeOK
<1>2. /\ c \in Call /\ c.pc = "loop" /\ c.cap = call[t].cap
      /\ c.todo = call[t].todo /\ c.current = None
  BY <1>1 DEF Call
<1>3. call' = [call EXCEPT ![t] = c]
  BY DEF Continue
<1> HIDE DEF c
<1>4. c.todo \subseteq Provider
  BY <1>2 DEF Call
<1>5. CallOK(c) /\ ~Ahead(c, call[t].current)
      /\ \A p \in Provider : Ahead(c, p) => Ahead(call[t], p)
  BY <1>1, <1>2, <1>4, NoneAssumption DEF CallOK, Ahead
<1> QED BY <1>2, <1>3, <1>5 DEF Moved

LEMMA CurrentProvider ==
    ASSUME IInv, NEW t \in Thread, call[t].pc = "execute"
    PROVE  call[t].current \in Provider /\ call[t].cap \in Capability
BY DEF IInv, TypeOK, CallOK, Call

LEMMA StartStep ==
    ASSUME IInv, NEW t \in Thread, NEW k \in Capability, NEW cancelled \in BOOLEAN,
           Start(t, k, cancelled)
    PROVE  CallStep(t)
<1> DEFINE c == IF cancelled
                THEN [NotStarted EXCEPT !.cap = k, !.pc = "raise", !.ended = "raised"]
                ELSE [NotStarted EXCEPT !.cap = k, !.pc = "filter", !.left = Certified[k]]
           a == IF cancelled THEN <<[provider |-> None, outcome |-> "CANCELLED"]>> ELSE <<>>
<1>1. Certified[k] \subseteq Provider /\ Certified[k] # {} /\ k # None
  BY PolicyAssumption, NoneAssumption
<1>2. /\ c \in Call /\ c.pc \in {"raise", "filter"} /\ c.cap = k
      /\ c.pc = "filter" => c.left = Certified[k]
      /\ c.todo = {} /\ c.current = None
  BY <1>1, NotStartedOK DEF Call, NotStarted
<1>3. a \in Seq(AuditRecord)
  <2>1. [provider |-> None, outcome |-> "CANCELLED"] \in AuditRecord
    BY DEF AuditRecord, Outcome
  <2> QED BY <2>1
<1>4. call' = [call EXCEPT ![t] = c] /\ audit' = [audit EXCEPT ![t] = a]
      /\ call[t].pc = "idle" /\ UNCHANGED <<health, failures, permits>>
  BY DEF Start, shared
<1> HIDE DEF c, a
<1>5. audit' \in [Thread -> Seq(AuditRecord)]
  BY <1>3, <1>4 DEF IInv, TypeOK
<1>6. CallOK(c) /\ \A p \in Provider : ~Ahead(c, p)
  BY <1>1, <1>2, NoneAssumption DEF CallOK, Ahead
<1>7. Moved(t, c)
  BY <1>2, <1>4, <1>5, <1>6 DEF Moved
<1>8. PermitStep(t, c) /\ HealthStep(t, c)
  BY <1>2, <1>4 DEF PermitStep, HealthStep, Holding
<1> QED BY <1>7, <1>8 DEF CallStep

(* The caller cancels, or the deadline passes. *)
LEMMA FlagStep ==
    ASSUME IInv, NEW t \in Thread, Cancel(t) \/ DeadlinePasses(t)
    PROVE  CallStep(t)
<1>1. call[t] \in Call /\ CallOK(call[t])
  BY DEF IInv, TypeOK
<1>2. ASSUME NEW c \in Call, call' = [call EXCEPT ![t] = c],
             c.pc = call[t].pc, c.cap = call[t].cap, c.left = call[t].left,
             c.todo = call[t].todo, c.current = call[t].current
      PROVE  CallStep(t)
  <2>1. audit' \in [Thread -> Seq(AuditRecord)]
    BY DEF Cancel, DeadlinePasses, IInv, TypeOK
  <2>2. CallOK(c) /\ \A p \in Provider : Ahead(c, p) => Ahead(call[t], p)
    BY <1>1, <1>2 DEF CallOK, Ahead
  <2>3. UNCHANGED <<health, failures, permits>>
    BY DEF Cancel, DeadlinePasses, shared
  <2>4. Moved(t, c)
    BY <1>2, <2>1, <2>2 DEF Moved
  <2>5. PermitStep(t, c) /\ HealthStep(t, c)
    BY <1>2, <2>3 DEF PermitStep, HealthStep, Holding
  <2> QED BY <2>4, <2>5 DEF CallStep
<1>3. CASE Cancel(t)
  <2> DEFINE c == [call[t] EXCEPT !.cancelled = TRUE]
  <2>1. /\ c \in Call /\ c.pc = call[t].pc /\ c.cap = call[t].cap /\ c.left = call[t].left
        /\ c.todo = call[t].todo /\ c.current = call[t].current
    BY <1>1 DEF Call
  <2>2. call' = [call EXCEPT ![t] = c]
    BY <1>3 DEF Cancel
  <2> HIDE DEF c
  <2> QED BY <1>2, <2>1, <2>2
<1>4. CASE DeadlinePasses(t)
  <2> DEFINE c == [call[t] EXCEPT !.expired = TRUE]
  <2>1. /\ c \in Call /\ c.pc = call[t].pc /\ c.cap = call[t].cap /\ c.left = call[t].left
        /\ c.todo = call[t].todo /\ c.current = call[t].current
    BY <1>1 DEF Call
  <2>2. call' = [call EXCEPT ![t] = c]
    BY <1>4 DEF DeadlinePasses
  <2> HIDE DEF c
  <2> QED BY <1>2, <2>1, <2>2
<1> QED BY <1>3, <1>4

(* A call that leaves before it had a permit. *)
LEMMA RaiseStep ==
    ASSUME IInv, NEW t \in Thread, call[t].pc \in {"filter", "acquire"}, Raise(t),
           audit' \in [Thread -> Seq(AuditRecord)],
           UNCHANGED <<health, failures, permits>>
    PROVE  CallStep(t)
<1>1. PICK c : Moved(t, c) /\ c.pc = "raise"
  BY LeavingMoves DEF Raise
<1>2. PermitStep(t, c) /\ HealthStep(t, c)
  BY <1>1 DEF PermitStep, HealthStep, Holding
<1> QED BY <1>1, <1>2 DEF CallStep

LEMMA FilterStep ==
    ASSUME IInv, NEW t \in Thread, Filter(t)
    PROVE  CallStep(t)
<1> DEFINE p == Least(call[t].left)
           left == call[t].left \ {p}
           listed == call[t].todo \cup (IF Listable(p) THEN {p} ELSE {})
<1>1. call[t] \in Call /\ CallOK(call[t]) /\ call[t].pc = "filter"
      /\ UNCHANGED <<health, failures, permits>>
  BY DEF IInv, TypeOK, Filter, shared
<1>2. p \in Provider /\ call[t].left \subseteq Provider /\ call[t].todo \subseteq Provider
  <2>1. call[t].left \in SUBSET Provider /\ call[t].left # {}
    BY <1>1 DEF Call, CallOK
  <2> QED BY <2>1, <1>1, LeastOf DEF Call
<1>3. left \subseteq Provider /\ listed \subseteq Provider
      /\ \A q \in listed : q \in call[t].todo \/ Listable(q)
  BY <1>2
<1>4. call[t].current = None
  BY <1>1 DEF IInv, CallOK
<1>5. ASSUME NEW c \in Call, call' = [call EXCEPT ![t] = c], UNCHANGED audit,
             c.pc \in {"filter", "rank"}, c.cap = call[t].cap, c.left # {},
             c.todo = listed, c.current = call[t].current
      PROVE  CallStep(t)
  <2>1. audit' \in [Thread -> Seq(AuditRecord)]
    BY <1>5 DEF IInv, TypeOK
  <2> HIDE DEF listed, left, p
  <2>2. CallOK(c) /\ \A q \in Provider : Ahead(c, q) => Ahead(call[t], q) \/ Listable(q)
    BY <1>1, <1>3, <1>4, <1>5, NoneAssumption DEF CallOK, Ahead
  <2>3. Moved(t, c)
    BY <1>5, <2>1, <2>2 DEF Moved
  <2>4. PermitStep(t, c) /\ HealthStep(t, c)
    BY <1>1, <1>5 DEF PermitStep, HealthStep, Holding
  <2> QED BY <2>3, <2>4 DEF CallStep
<1>6. CASE /\ left # {}
           /\ call' = [call EXCEPT ![t] = [@ EXCEPT !.left = left, !.todo = listed]]
           /\ UNCHANGED audit
  <2> DEFINE c == [call[t] EXCEPT !.left = left, !.todo = listed]
  <2> HIDE DEF listed, left, p
  <2>1. /\ c \in Call /\ c.pc = "filter" /\ c.cap = call[t].cap /\ c.left = left
        /\ c.todo = listed /\ c.current = call[t].current
    BY <1>1, <1>3 DEF Call
  <2>2. call' = [call EXCEPT ![t] = c] /\ UNCHANGED audit
    BY <1>6
  <2> HIDE DEF c
  <2> QED BY <1>5, <1>6, <2>1, <2>2
<1>7. CASE /\ listed # {}
           /\ call' = [call EXCEPT ![t] = [@ EXCEPT !.pc = "rank", !.left = listed,
                                                    !.todo = listed]]
           /\ UNCHANGED audit
  <2> DEFINE c == [call[t] EXCEPT !.pc = "rank", !.left = listed, !.todo = listed]
  <2> HIDE DEF listed, left, p
  <2>1. /\ c \in Call /\ c.pc = "rank" /\ c.cap = call[t].cap /\ c.left = listed
        /\ c.todo = listed /\ c.current = call[t].current
    BY <1>1, <1>3 DEF Call
  <2>2. call' = [call EXCEPT ![t] = c] /\ UNCHANGED audit
    BY <1>7
  <2> HIDE DEF c
  <2> QED BY <1>5, <1>7, <2>1, <2>2
<1>8. CASE Raise(t) /\ Note(t, None, "CONTRACT_ERROR")
  <2>1. audit' \in [Thread -> Seq(AuditRecord)]
    BY <1>8, NoteOK DEF Outcome
  <2> QED BY <1>1, <1>8, <2>1, RaiseStep
<1> QED BY <1>6, <1>7, <1>8 DEF Filter

LEMMA RankStep ==
    ASSUME IInv, NEW t \in Thread, Rank(t)
    PROVE  CallStep(t)
<1> DEFINE p == Least(call[t].left)
           left == call[t].left \ {p}
           rank == [call[t].rank EXCEPT ![p] = HealthRank[health[p]]]
           pc == IF left = {} THEN "acquire" ELSE "rank"
           c == [call[t] EXCEPT !.left = left, !.rank = rank, !.pc = pc]
<1>1. call[t] \in Call /\ CallOK(call[t]) /\ call[t].pc = "rank"
      /\ UNCHANGED <<health, failures, permits, audit>>
  BY DEF IInv, TypeOK, Rank, shared
<1>10. call' = [call EXCEPT ![t] = c]
  BY DEF Rank
<1>2. p \in Provider /\ call[t].left \subseteq Provider
  <2>1. call[t].left \in SUBSET Provider /\ call[t].left # {}
    BY <1>1 DEF Call, CallOK
  <2> QED BY <2>1, LeastOf
<1>3. left \subseteq Provider /\ pc \in {"acquire", "rank"} /\ (pc = "rank" => left # {})
  BY <1>2
<1>4. rank \in [Provider -> 0..2]
  <2>1. HealthRank[health[p]] \in 0..2
    BY <1>2 DEF HealthRank, Health, IInv, TypeOK
  <2>2. call[t].rank \in [Provider -> 0..2]
    BY <1>1 DEF Call
  <2> HIDE DEF p
  <2> QED BY <2>1, <2>2
<1> HIDE DEF p, left, rank, pc
<1>5. /\ c \in Call /\ c.pc = pc /\ c.cap = call[t].cap /\ c.left = left
      /\ c.todo = call[t].todo /\ c.current = call[t].current
  BY <1>1, <1>3, <1>4 DEF Call
<1> HIDE DEF c
<1>6. CallOK(c) /\ \A q \in Provider : Ahead(c, q) => Ahead(call[t], q)
  BY <1>1, <1>3, <1>5 DEF CallOK, Ahead
<1>7. audit' \in [Thread -> Seq(AuditRecord)]
  BY <1>1 DEF IInv, TypeOK
<1>8. Moved(t, c)
  BY <1>10, <1>5, <1>6, <1>7 DEF Moved
<1>9. PermitStep(t, c) /\ HealthStep(t, c)
  BY <1>1, <1>3, <1>5 DEF PermitStep, HealthStep, Holding
<1> QED BY <1>8, <1>9 DEF CallStep

LEMMA AcquireStep ==
    ASSUME IInv, NEW t \in Thread, Acquire(t)
    PROVE  CallStep(t)
<1> DEFINE c == [call[t] EXCEPT !.pc = "loop"]
<1>1. call[t] \in Call /\ CallOK(call[t]) /\ call[t].pc = "acquire"
      /\ UNCHANGED <<health, failures, audit>>
      /\ call' = [call EXCEPT ![t] = c]
      /\ permits[call[t].cap] > 0 /\ permits' = [permits EXCEPT ![call[t].cap] = @ - 1]
  BY DEF IInv, TypeOK, Acquire, shared
<1>2. /\ c \in Call /\ c.pc = "loop" /\ c.cap = call[t].cap
      /\ c.todo = call[t].todo /\ c.current = call[t].current
  BY <1>1 DEF Call
<1> HIDE DEF c
<1>3. CallOK(c) /\ \A q \in Provider : Ahead(c, q) => Ahead(call[t], q)
  BY <1>1, <1>2 DEF CallOK, Ahead
<1>4. audit' \in [Thread -> Seq(AuditRecord)]
  BY <1>1 DEF IInv, TypeOK
<1>5. Moved(t, c)
  BY <1>1, <1>2, <1>3, <1>4 DEF Moved
<1>6. c.cap \in Capability
  BY <1>1, <1>2 DEF Call, CallOK
<1>7. PermitStep(t, c) /\ HealthStep(t, c)
  BY <1>1, <1>2, <1>6 DEF PermitStep, HealthStep, Holding
<1> QED BY <1>5, <1>7 DEF CallStep

(* run has left its loop and has still to give back the permit. *)
LEMMA LeaveStep ==
    ASSUME IInv, NEW t \in Thread, call[t].pc \in {"loop", "execute"},
           NEW how \in {"returned", "raised", "escaped"}, Leave(t, how),
           audit' \in [Thread -> Seq(AuditRecord)], permits' = permits,
           \/ UNCHANGED <<health, failures>>
           \/ call[t].pc = "execute" /\ RecordSuccess(call[t].current)
    PROVE  CallStep(t)
<1>1. PICK c : Moved(t, c) /\ c.pc = "release" /\ c.cap = call[t].cap
  BY LeavingMoves DEF Leave
<1>2. PermitStep(t, c)
  BY <1>1 DEF PermitStep, Holding
<1>3. HealthStep(t, c)
  BY CurrentProvider DEF HealthStep
<1> QED BY <1>1, <1>2, <1>3 DEF CallStep

LEMMA SubmitStep ==
    ASSUME IInv, NEW t \in Thread, Submit(t)
    PROVE  CallStep(t)
<1>1. PICK p \in Provider :
          /\ p \in call[t].todo
          /\ call' = [call EXCEPT ![t] =
                [@ EXCEPT !.pc = "execute", !.current = p, !.todo = call[t].todo \ {p},
                          !.rank[p] = 0]]
  BY DEF Submit, NextProvider
<1> DEFINE rank == [call[t].rank EXCEPT ![p] = 0]
           todo == call[t].todo \ {p}
           c == [call[t] EXCEPT !.pc = "execute", !.current = p, !.todo = todo,
                                !.rank = rank]
<1>2. call[t] \in Call /\ CallOK(call[t]) /\ call[t].pc = "loop"
      /\ UNCHANGED <<health, failures, permits, audit>>
  BY DEF IInv, TypeOK, Submit, shared
<1>3. call' = [call EXCEPT ![t] = c]
  BY <1>1
<1>4. rank \in [Provider -> 0..2] /\ todo \subseteq Provider
  BY <1>2 DEF Call
<1> HIDE DEF rank, todo
<1>5. /\ c \in Call /\ c.pc = "execute" /\ c.cap = call[t].cap
      /\ c.todo = todo /\ c.current = p
  BY <1>2, <1>4 DEF Call
<1> HIDE DEF c
<1>6. CallOK(c) /\ \A q \in Provider : Ahead(c, q) => Ahead(call[t], q)
  BY <1>1, <1>2, <1>5, NoneAssumption DEF CallOK, Ahead, todo
<1>7. audit' \in [Thread -> Seq(AuditRecord)]
  BY <1>2 DEF IInv, TypeOK
<1>8. Moved(t, c)
  BY <1>3, <1>5, <1>6, <1>7 DEF Moved
<1>9. PermitStep(t, c) /\ HealthStep(t, c)
  BY <1>2, <1>5 DEF PermitStep, HealthStep, Holding
<1> QED BY <1>8, <1>9 DEF CallStep

(* A provider failed and the call goes on. *)
LEMMA FailureStep ==
    ASSUME IInv, NEW t \in Thread, call[t].pc = "execute",
           RecordFailure(call[t].current, call[t].cap), Continue(t),
           audit' \in [Thread -> Seq(AuditRecord)], permits' = permits
    PROVE  CallStep(t)
<1>1. PICK c : Moved(t, c) /\ c.pc = "loop" /\ c.cap = call[t].cap /\ ~Ahead(c, call[t].current)
  BY ContinueMoves
<1>2. PermitStep(t, c)
  BY <1>1 DEF PermitStep, Holding
<1>3. HealthStep(t, c)
  BY <1>1, CurrentProvider DEF HealthStep
<1> QED BY <1>1, <1>2, <1>3 DEF CallStep

LEMMA EndStep ==
    ASSUME IInv, NEW t \in Thread, Release(t) \/ RaiseBeforeTry(t)
    PROVE  CallStep(t)
<1>1. call' = [call EXCEPT ![t] = NotStarted] /\ audit' = [audit EXCEPT ![t] = <<>>]
      /\ UNCHANGED <<health, failures>>
  BY DEF Release, RaiseBeforeTry, End, shared
<1>2. audit' \in [Thread -> Seq(AuditRecord)]
  BY <1>1 DEF IInv, TypeOK
<1>3. /\ NotStarted.pc = "idle"
      /\ \A p \in Provider : ~Ahead(NotStarted, p)
  BY NoneAssumption DEF NotStarted, Ahead
<1>4. Moved(t, NotStarted)
  BY <1>1, <1>2, <1>3, NotStartedOK DEF Moved
<1>5. PermitStep(t, NotStarted)
  BY <1>3 DEF PermitStep, Holding, Release, RaiseBeforeTry
<1>6. HealthStep(t, NotStarted)
  BY <1>1 DEF HealthStep
<1> QED BY <1>4, <1>5, <1>6 DEF CallStep

(* Whatever run does by itself, and whatever becomes of its providers.      *)
LEMMA RunSteps ==
    ASSUME IInv, NEW t \in Thread, RunStep(t) \/ ProviderEnds(t)
    PROVE  CallStep(t)
<1>1. audit \in [Thread -> Seq(AuditRecord)]
  BY DEF IInv, TypeOK
<1>2. CASE AcquireTimesOut(t)
  <2>1. audit' \in [Thread -> Seq(AuditRecord)]
    BY <1>2, NoteOK DEF AcquireTimesOut, Outcome
  <2> QED BY <1>2, <2>1, RaiseStep DEF AcquireTimesOut, shared
<1>3. CASE LoopCancelled(t)
  <2>1. audit' \in [Thread -> Seq(AuditRecord)]
    BY <1>3, NoteOK DEF LoopCancelled, Outcome
  <2> QED BY <1>3, <2>1, LeaveStep DEF LoopCancelled, shared
<1>4. CASE LoopFails(t)
  <2>1. audit' \in [Thread -> Seq(AuditRecord)]
    BY <1>4, NoteOK DEF LoopFails, Outcome
  <2> QED BY <1>4, <2>1, LeaveStep DEF LoopFails, shared
<1>5. CASE ProviderTimesOut(t) \/ ProviderRaises(t)
  <2>1. audit' \in [Thread -> Seq(AuditRecord)]
    BY <1>5, NoteOK, CurrentProvider DEF ProviderTimesOut, ProviderRaises, Outcome
  <2> QED BY <1>5, <2>1, FailureStep DEF ProviderTimesOut, ProviderRaises
<1>6. CASE RejectAnswer(t)
  BY <1>1, <1>6, FailureStep DEF RejectAnswer
<1>7. CASE AcceptCancelled(t)
  <2>1. audit' \in [Thread -> Seq(AuditRecord)]
    BY <1>7, NoteOK, CurrentProvider DEF AcceptCancelled, Outcome
  <2> QED BY <1>7, <2>1, LeaveStep DEF AcceptCancelled, shared
<1>8. CASE AcceptAnswer(t)
  <2>1. audit' \in [Thread -> Seq(AuditRecord)]
    BY <1>8, NoteOK, CurrentProvider DEF AcceptAnswer, Outcome
  <2> QED BY <1>8, <2>1, LeaveStep DEF AcceptAnswer
<1>9. CASE Escape(t)
  BY <1>1, <1>9, LeaveStep DEF Escape, shared
<1> QED BY <1>2, <1>3, <1>4, <1>5, <1>6, <1>7, <1>8, <1>9, FilterStep, RankStep,
           AcquireStep, SubmitStep, EndStep DEF RunStep, ProviderEnds

(* Everything that may happen. *)
LEMMA Steps ==
    ASSUME IInv, [Next]_vars
    PROVE  \/ \E t \in Thread : CallStep(t)
           \/ \E p \in Provider, h \in OperatorSets : SetHealth(p, h)
           \/ UNCHANGED vars
BY RunSteps, StartStep, FlagStep DEF Next

-----------------------------------------------------------------------------
(* Permits. *)
Holders(k) == {t \in Thread : call[t].cap = k /\ Holds(t)}

LEMMA HoldersFinite ==
    ASSUME NEW k \in Capability
    PROVE  IsFiniteSet(Holders(k)) /\ Cardinality(Holders(k)) \in Nat
<1>1. Holders(k) \subseteq Thread
  BY DEF Holders
<1> QED BY <1>1, ThreadAssumption, FS_Subset, FS_CardinalityType

LEMMA PermitsNext ==
    ASSUME IInv, NEW t \in Thread, CallStep(t)
    PROVE  /\ PermitsConserved'
           /\ permits' \in [Capability -> Nat]
           /\ \A k \in Capability : permits'[k] <= MaxConcurrency[k]
<1>1. PICK c : Moved(t, c) /\ PermitStep(t, c)
  BY DEF CallStep
<1>2. /\ call'[t] = c /\ \A u \in Thread : u # t => call'[u] = call[u]
      /\ \A u \in Thread : Holds(u)' <=> Holding(call'[u])
      /\ \A u \in Thread : Holds(u) <=> Holding(call[u])
  BY <1>1 DEF Moved, IInv, TypeOK, Holds, Holding
<1>3. /\ permits \in [Capability -> Nat]
      /\ \A k \in Capability : MaxConcurrency[k] \in Nat
      /\ Holding(call[t]) => call[t].cap \in Capability
  BY PolicyAssumption DEF IInv, TypeOK, CallOK, Call, Holding
<1>4. \A k \in Capability : permits[k] + Cardinality(Holders(k)) = MaxConcurrency[k]
  BY DEF IInv, PermitsConserved, Holders
<1>5. ASSUME NEW k \in Capability
      PROVE  /\ permits'[k] \in Nat /\ permits'[k] <= MaxConcurrency[k]
             /\ permits'[k] + Cardinality(Holders(k)') = MaxConcurrency[k]
  <2>1. IsFiniteSet(Holders(k)) /\ Cardinality(Holders(k)) \in Nat
    BY HoldersFinite
  <2> DEFINE n == Cardinality(Holders(k))
  <2>2. permits[k] \in Nat /\ MaxConcurrency[k] \in Nat /\ permits[k] + n = MaxConcurrency[k]
    BY <1>3, <1>4
  <2>3. CASE Holders(k)' = Holders(k) /\ permits'[k] = permits[k]
    <3> HIDE DEF n
    <3>1. Cardinality(Holders(k)') = n
      BY <2>3 DEF n
    <3> QED BY <2>1, <2>2, <2>3, <3>1 DEF n
  <2>4. CASE /\ Holders(k)' = Holders(k) \cup {t} /\ t \notin Holders(k)
             /\ permits'[k] = permits[k] - 1 /\ permits[k] > 0
    <3>1. Cardinality(Holders(k)') = n + 1
      BY <2>1, <2>4, FS_AddElement
    <3> HIDE DEF n
    <3> QED BY <2>1, <2>2, <2>4, <3>1 DEF n
  <2>5. CASE /\ Holders(k)' = Holders(k) \ {t} /\ t \in Holders(k)
             /\ permits'[k] = permits[k] + 1
    <3>1. Cardinality(Holders(k)') = n - 1 /\ Cardinality(Holders(k)') \in Nat
      BY <2>1, <2>5, FS_RemoveElement, FS_CardinalityType
    <3> HIDE DEF n
    <3> QED BY <2>1, <2>2, <2>5, <3>1 DEF n
  <2>6. CASE permits' = permits /\ (Holding(c) <=> Holding(call[t]))
             /\ (Holding(c) => c.cap = call[t].cap)
    <3>1. Holders(k)' = Holders(k)
      BY <1>2, <2>6 DEF Holders
    <3> QED BY <2>3, <2>6, <3>1
  <2>7. CASE /\ ~Holding(call[t]) /\ Holding(c)
             /\ c.cap \in Capability /\ permits[c.cap] > 0
             /\ permits' = [permits EXCEPT ![c.cap] = @ - 1]
    <3>1. CASE c.cap = k
      <4>1. Holders(k)' = Holders(k) \cup {t} /\ t \notin Holders(k)
        BY <1>2, <2>7, <3>1 DEF Holders
      <4>2. permits'[k] = permits[k] - 1 /\ permits[k] > 0
        BY <1>3, <2>7, <3>1
      <4> QED BY <2>4, <4>1, <4>2
    <3>2. CASE c.cap # k
      <4>1. Holders(k)' = Holders(k)
        BY <1>2, <2>7, <3>2 DEF Holders
      <4>2. permits'[k] = permits[k]
        BY <1>3, <2>7, <3>2
      <4> QED BY <2>3, <4>1, <4>2
    <3> QED BY <3>1, <3>2
  <2>8. CASE /\ Holding(call[t]) /\ ~Holding(c)
             /\ permits' = [permits EXCEPT ![call[t].cap] = @ + 1]
    <3>1. CASE call[t].cap = k
      <4>1. Holders(k)' = Holders(k) \ {t} /\ t \in Holders(k)
        BY <1>2, <2>8, <3>1 DEF Holders
      <4>2. permits'[k] = permits[k] + 1
        BY <1>3, <2>8, <3>1
      <4> QED BY <2>5, <4>1, <4>2
    <3>2. CASE call[t].cap # k
      <4>1. Holders(k)' = Holders(k)
        BY <1>2, <2>8, <3>2 DEF Holders
      <4>2. permits'[k] = permits[k]
        BY <1>3, <2>8, <3>2
      <4> QED BY <2>3, <4>1, <4>2
    <3> QED BY <3>1, <3>2
  <2> QED BY <1>1, <2>6, <2>7, <2>8 DEF PermitStep
<1>6. DOMAIN permits' = Capability /\ permits' = [k \in Capability |-> permits'[k]]
  BY <1>1, <1>3 DEF PermitStep
<1>7. permits' \in [Capability -> Nat]
  BY <1>5, <1>6
<1>8. PermitsConserved'
  BY <1>5 DEF PermitsConserved, Holders
<1> QED BY <1>5, <1>7, <1>8

LEMMA HealthNext ==
    ASSUME IInv, NEW t \in Thread, NEW c, HealthStep(t, c)
    PROVE  health' \in [Provider -> Health] /\ failures' \in [Provider -> Nat]
<1>1. health \in [Provider -> Health] /\ failures \in [Provider -> Nat]
  BY DEF IInv, TypeOK
<1> QED BY <1>1 DEF HealthStep, RecordFailure, RecordSuccess, Health

LEMMA InitIInv == Init => IInv
<1> SUFFICES ASSUME Init PROVE IInv
  OBVIOUS
<1>1. \A t \in Thread : call[t] = NotStarted
  BY DEF Init
<1>2. TypeOK
  <2>1. health \in [Provider -> Health] /\ failures \in [Provider -> Nat]
    BY DEF Init, Health
  <2>2. permits \in [Capability -> Nat]
        /\ \A k \in Capability : permits[k] <= MaxConcurrency[k]
    BY PolicyAssumption DEF Init
  <2>3. call \in [Thread -> Call]
    BY NotStartedOK DEF Init
  <2>4. audit \in [Thread -> Seq(AuditRecord)]
    BY DEF Init
  <2>5. \A t \in Thread : call[t].pc = "idle"
    BY <1>1 DEF NotStarted
  <2> QED BY <2>1, <2>2, <2>3, <2>4, <2>5 DEF TypeOK
<1>3. PermitsConserved
  <2>1. ASSUME NEW k \in Capability PROVE Holders(k) = {}
    BY <1>1 DEF Holders, Holds, NotStarted
  <2>2. ASSUME NEW k \in Capability
        PROVE  permits[k] + Cardinality(Holders(k)) = MaxConcurrency[k]
    <3>1. Cardinality(Holders(k)) = 0
      BY <2>1, FS_EmptySet
    <3>2. permits[k] = MaxConcurrency[k] /\ MaxConcurrency[k] \in Nat
      BY PolicyAssumption DEF Init
    <3> QED BY <3>1, <3>2
  <2> QED BY <2>2 DEF PermitsConserved, Holders
<1> QED BY <1>1, <1>2, <1>3, NotStartedOK DEF IInv

LEMMA NextIInv == IInv /\ [Next]_vars => IInv'
<1> SUFFICES ASSUME IInv, [Next]_vars PROVE IInv'
  OBVIOUS
<1>1. ASSUME NEW t \in Thread, CallStep(t) PROVE IInv'
  <2>1. PICK c : Moved(t, c) /\ HealthStep(t, c)
    BY <1>1 DEF CallStep
  <2>2. /\ call' \in [Thread -> Call]
        /\ \A u \in Thread : CallOK(call'[u])
    BY <2>1 DEF Moved, IInv, TypeOK
  <2>3. \A u \in Thread : /\ call'[u].pc # "idle" => call'[u].cap # None
                          /\ call'[u].pc = "execute" => call'[u].current # None
    BY <2>2 DEF CallOK
  <2>4. health' \in [Provider -> Health] /\ failures' \in [Provider -> Nat]
    BY <2>1, HealthNext
  <2>5. audit' \in [Thread -> Seq(AuditRecord)]
    BY <2>1 DEF Moved
  <2> QED BY <1>1, <2>2, <2>3, <2>4, <2>5, PermitsNext DEF IInv, TypeOK
<1>2. ASSUME NEW p \in Provider, NEW h \in OperatorSets, SetHealth(p, h) PROVE IInv'
  <2>1. health' \in [Provider -> Health] /\ failures' \in [Provider -> Nat]
    BY <1>2, OperatorAssumption DEF SetHealth, IInv, TypeOK
  <2> QED BY <1>2, <2>1 DEF SetHealth, IInv, TypeOK, PermitsConserved, Holds
<1>3. CASE UNCHANGED vars
  BY <1>3 DEF vars, IInv, TypeOK, PermitsConserved, Holds
<1> QED BY <1>1, <1>2, <1>3, Steps

LEMMA Invariant == Spec => []IInv
<1> QED BY InitIInv, NextIInv, PTL DEF Spec

(* Types are kept on every exit path, the number of permits included.       *)
THEOREM TypeCorrect == Spec => []TypeOK
<1>1. IInv => TypeOK
  BY DEF IInv
<1> QED BY <1>1, Invariant, PTL

(* However calls end, every permit taken is given back exactly once.        *)
THEOREM Permits == Spec => []PermitsConserved
<1>1. IInv => PermitsConserved
  BY DEF IInv
<1> QED BY <1>1, Invariant, PTL

-----------------------------------------------------------------------------
(* The circuit breaker. *)
AheadOf(p) == {t \in Thread : Ahead(call[t], p)}

BInv ==
    "DEGRADED" \notin OperatorSets =>
        \A p \in Provider :
            failures[p] >= MaxThreshold =>
                /\ health[p] = "UNHEALTHY"
                /\ failures[p] + Cardinality(AheadOf(p)) < MaxThreshold + Cardinality(Thread)

LEMMA MaxThresholdIs ==
    /\ MaxThreshold \in Nat \ {0}
    /\ \A k \in Capability : Threshold[k] <= MaxThreshold
<1>1. PICK c \in Capability : \A d \in Capability : Threshold[d] <= Threshold[c]
  BY ThresholdAssumption
<1>2. \E n \in {Threshold[d] : d \in Capability} : \A d \in Capability : Threshold[d] <= n
  BY <1>1
<1>3. /\ MaxThreshold \in {Threshold[d] : d \in Capability}
      /\ \A d \in Capability : Threshold[d] <= MaxThreshold
  BY <1>2 DEF MaxThreshold
<1> QED BY <1>3, PolicyAssumption

LEMMA AheadFinite ==
    ASSUME NEW p \in Provider
    PROVE  IsFiniteSet(AheadOf(p)) /\ Cardinality(AheadOf(p)) \in Nat
<1>1. AheadOf(p) \subseteq Thread
  BY DEF AheadOf
<1> QED BY <1>1, ThreadAssumption, FS_Subset, FS_CardinalityType

(* A call comes to stand ahead of a provider only while that is listable.   *)
LEMMA AheadShrinks ==
    ASSUME IInv, NEW t \in Thread, NEW c, Moved(t, c), NEW p \in Provider, ~Listable(p)
    PROVE  /\ AheadOf(p)' \subseteq AheadOf(p)
           /\ ~Ahead(c, p) => AheadOf(p)' \subseteq AheadOf(p) \ {t}
<1>1. call'[t] = c /\ \A u \in Thread : u # t => call'[u] = call[u]
  BY DEF Moved, IInv, TypeOK
<1>2. Ahead(c, p) => Ahead(call[t], p)
  BY DEF Moved
<1>3. AheadOf(p)' = {u \in Thread : Ahead(call'[u], p)}
  BY DEF AheadOf, Ahead
<1> QED BY <1>1, <1>2, <1>3 DEF AheadOf

LEMMA BreakerCall ==
    ASSUME IInv, BInv, NEW t \in Thread, CallStep(t)
    PROVE  BInv'
<1> SUFFICES ASSUME "DEGRADED" \notin OperatorSets, NEW p \in Provider,
                    failures'[p] >= MaxThreshold
             PROVE  /\ health'[p] = "UNHEALTHY"
                    /\ failures'[p] + Cardinality(AheadOf(p)')
                          < MaxThreshold + Cardinality(Thread)
  BY DEF BInv, MaxThreshold
<1>1. PICK c : Moved(t, c) /\ HealthStep(t, c)
  BY DEF CallStep
<1> DEFINE n == Cardinality(AheadOf(p))
           m == Cardinality(AheadOf(p)')
           T == Cardinality(Thread)
<1>2. /\ failures \in [Provider -> Nat] /\ health \in [Provider -> Health]
      /\ failures[p] \in Nat /\ MaxThreshold \in Nat \ {0}
      /\ \A k \in Capability : Threshold[k] \in Nat /\ Threshold[k] <= MaxThreshold
  BY MaxThresholdIs, PolicyAssumption DEF IInv, TypeOK
<1>3. /\ IsFiniteSet(AheadOf(p)) /\ n \in Nat /\ T \in Nat
      /\ AheadOf(p)' \subseteq Thread
  BY AheadFinite, ThreadAssumption, FS_CardinalityType DEF AheadOf
<1>4. failures[p] >= MaxThreshold
         => ~Listable(p) /\ health[p] = "UNHEALTHY" /\ failures[p] + n < MaxThreshold + T
  BY DEF BInv, Listable
<1>5. CASE failures'[p] = failures[p] /\ health'[p] = health[p]
  <2>1. AheadOf(p)' \subseteq AheadOf(p)
    BY <1>1, <1>4, <1>5, AheadShrinks
  <2>2. m \in Nat /\ m <= n
    BY <1>3, <2>1, FS_Subset, FS_CardinalityType
  <2> HIDE DEF n, m, T
  <2>3. failures[p] + m < MaxThreshold + T
    BY <1>2, <1>3, <1>4, <1>5, <2>2
  <2> QED BY <1>4, <1>5, <2>3 DEF m, T
<1>6. CASE call[t].current = p /\ ~Ahead(c, p) /\ \E k \in Capability : RecordFailure(p, k)
  <2>1. PICK k \in Capability : RecordFailure(p, k)
    BY <1>6
  <2>2. failures'[p] = failures[p] + 1
    BY <1>2, <2>1 DEF RecordFailure
  <2>3. health'[p] = "UNHEALTHY"
    <3>1. failures[p] + 1 >= Threshold[k]
      BY <1>2, <2>2
    <3> QED BY <1>2, <2>1, <3>1 DEF RecordFailure
  <2>4. t \in AheadOf(p)
    BY <1>6 DEF AheadOf, Ahead
  <2>5. CASE failures[p] >= MaxThreshold
    <3>1. AheadOf(p)' \subseteq AheadOf(p) \ {t}
      BY <1>1, <1>4, <1>6, <2>5, AheadShrinks
    <3>2. IsFiniteSet(AheadOf(p) \ {t}) /\ Cardinality(AheadOf(p) \ {t}) = n - 1
      BY <1>3, <2>4, FS_RemoveElement
    <3>3. m \in Nat /\ m <= Cardinality(AheadOf(p) \ {t})
      BY <3>1, <3>2, FS_Subset, FS_CardinalityType
    <3> HIDE DEF n, m, T
    <3>4. failures'[p] + m < MaxThreshold + T
      BY <1>2, <1>3, <1>4, <2>2, <2>5, <3>2, <3>3
    <3> QED BY <2>3, <3>4 DEF m, T
  <2>6. CASE ~(failures[p] >= MaxThreshold)
    <3>1. AheadOf(p)' \subseteq Thread \ {t}
      <4>1. call'[t] = c
        BY <1>1 DEF Moved, IInv, TypeOK
      <4> QED BY <1>6, <4>1 DEF AheadOf, Ahead
    <3>2. IsFiniteSet(Thread \ {t}) /\ Cardinality(Thread \ {t}) = T - 1
      BY ThreadAssumption, FS_RemoveElement
    <3>3. m \in Nat /\ m <= Cardinality(Thread \ {t})
      BY <3>1, <3>2, FS_Subset, FS_CardinalityType
    <3> HIDE DEF n, m, T
    <3>4. failures'[p] + m < MaxThreshold + T
      BY <1>2, <1>3, <2>2, <2>6, <3>2, <3>3
    <3> QED BY <2>3, <3>4 DEF m, T
  <2> QED BY <2>5, <2>6
<1>7. CASE RecordSuccess(p)
  BY <1>2, <1>7 DEF RecordSuccess
<1>8. CASE call[t].current # p
  <2>1. failures'[p] = failures[p] /\ health'[p] = health[p]
    BY <1>1, <1>2, <1>8 DEF HealthStep, RecordFailure, RecordSuccess
  <2> QED BY <1>5, <2>1
<1> QED BY <1>1, <1>5, <1>6, <1>7, <1>8 DEF HealthStep

LEMMA BreakerNext == IInv /\ BInv /\ [Next]_vars => BInv'
<1> SUFFICES ASSUME IInv, BInv, [Next]_vars PROVE BInv'
  OBVIOUS
<1>1. ASSUME NEW q \in Provider, NEW h \in OperatorSets, SetHealth(q, h) PROVE BInv'
  <2> SUFFICES ASSUME "DEGRADED" \notin OperatorSets, NEW p \in Provider,
                      failures'[p] >= MaxThreshold
               PROVE  /\ health'[p] = "UNHEALTHY"
                      /\ failures'[p] + Cardinality(AheadOf(p)')
                            < MaxThreshold + Cardinality(Thread)
    BY DEF BInv, MaxThreshold
  <2>1. AheadOf(p)' = AheadOf(p)
    BY <1>1 DEF SetHealth, AheadOf, Ahead
  <2>2. /\ h \in {"HEALTHY", "UNHEALTHY"}
        /\ failures \in [Provider -> Nat] /\ health \in [Provider -> Health]
        /\ MaxThreshold \in Nat \ {0}
    BY OperatorAssumption, MaxThresholdIs DEF Health, IInv, TypeOK
  <2>3. failures'[p] = failures[p]
        /\ (health'[p] = health[p] \/ health'[p] = "UNHEALTHY")
    BY <1>1, <2>2 DEF SetHealth
  <2> QED BY <2>1, <2>3 DEF BInv
<1>2. CASE UNCHANGED vars
  BY <1>2 DEF vars, BInv, AheadOf, Ahead, MaxThreshold
<1> QED BY <1>1, <1>2, BreakerCall, Steps

(* Once a provider has failed as often as the largest threshold says, every  *)
(* further failure in a row uses up a call that had listed it before.        *)
THEOREM Breaker == Spec => []BreakerBound
<1>1. Init => BInv
  <2> SUFFICES ASSUME Init PROVE BInv
    OBVIOUS
  <2>1. \A p \in Provider : failures[p] = 0
    BY DEF Init
  <2> QED BY <2>1, MaxThresholdIs DEF BInv
<1>2. IInv /\ BInv => BreakerBound
  <2> SUFFICES ASSUME IInv, BInv, "DEGRADED" \notin OperatorSets, NEW p \in Provider
               PROVE  failures[p] < MaxThreshold + Cardinality(Thread)
    BY DEF BreakerBound
  <2>1. /\ failures[p] \in Nat /\ MaxThreshold \in Nat \ {0}
        /\ Cardinality(Thread) \in Nat /\ Cardinality(AheadOf(p)) \in Nat
    BY MaxThresholdIs, AheadFinite, ThreadAssumption, FS_CardinalityType DEF IInv, TypeOK
  <2>2. failures[p] >= MaxThreshold
           => failures[p] + Cardinality(AheadOf(p)) < MaxThreshold + Cardinality(Thread)
    BY DEF BInv
  <2> HIDE DEF BInv
  <2> QED BY <2>1, <2>2
<1> QED BY <1>1, <1>2, BreakerNext, Invariant, PTL DEF Spec

-----------------------------------------------------------------------------
(* The audit trail.  Told is what AuditTells says of one call; Open is what  *)
(* holds as well while the call runs: it has failures of providers that it   *)
(* will not try again, and every provider it knows of is certified.          *)
Told(c, a) ==
    LET tried == IF c.ended \in {"no", "escaped"} THEN Len(a) ELSE Len(a) - 1
    IN  /\ tried >= 0
        /\ \A i \in 1..tried : Failed(a[i]) /\ a[i].provider \in Certified[c.cap]
        /\ \A i, j \in 1..Len(a) :
              i # j /\ a[i].provider # None => a[i].provider # a[j].provider
        /\ tried < Len(a) => ~Failed(a[Len(a)])
        /\ c.ended = "returned" <=> Len(a) > 0 /\ a[Len(a)].outcome = "SUCCESS"

Untried(c, a) ==
    /\ \A i \in 1..Len(a) : /\ Failed(a[i]) /\ a[i].provider \in Certified[c.cap]
                            /\ ~Ahead(c, a[i].provider)
    /\ \A i, j \in 1..Len(a) : i # j => a[i].provider # a[j].provider

Open(c, a) ==
    /\ c.ended = "no"
    /\ c.pc \in {"idle", "filter", "rank", "acquire"} => a = <<>>
    /\ c.pc # "idle" =>
          /\ c.todo \cup c.left \subseteq Certified[c.cap]
          /\ c.current \in Certified[c.cap] \cup {None}
    /\ Untried(c, a)

Fits(c, a) == Told(c, a) /\ (c.pc \notin {"release", "raise"} => Open(c, a))

AInv == \A t \in Thread : Fits(call[t], audit[t])

(* Only the record and the audit trail of the call that moves change.       *)
LEMMA OthersFit ==
    ASSUME IInv, AInv, NEW t \in Thread, NEW c, NEW a, Fits(c, a),
           call' = [call EXCEPT ![t] = c], audit' = [audit EXCEPT ![t] = a]
    PROVE  AInv'
<1>1. call'[t] = c /\ audit'[t] = a
  BY DEF IInv, TypeOK
<1>2. \A u \in Thread : u # t => call'[u] = call[u] /\ audit'[u] = audit[u]
  BY DEF IInv, TypeOK
<1>3. \A u \in Thread : Fits(call'[u], audit'[u])
  BY <1>1, <1>2 DEF AInv
<1>4. AInv' <=> \A u \in Thread : Fits(call'[u], audit'[u])
  BY DEF AInv, Fits, Told, Open, Untried, Ahead, Failed
<1> QED BY <1>3, <1>4

(* What stands in the trail of a call that runs is told already.            *)
LEMMA OpenTold ==
    ASSUME NEW c, NEW a \in Seq(AuditRecord), Open(c, a)
    PROVE  Fits(c, a)
<1>1. Len(a) \in Nat /\ c.ended = "no"
  BY DEF Open
<1>2. \A i \in 1..Len(a) : Failed(a[i]) /\ a[i].provider \in Certified[c.cap]
  BY DEF Open, Untried
<1>3. \A i, j \in 1..Len(a) : i # j => a[i].provider # a[j].provider
  BY DEF Open, Untried
<1>4. Len(a) > 0 => a[Len(a)].outcome # "SUCCESS"
  <2>1. Len(a) > 0 => Failed(a[Len(a)])
    BY <1>1, <1>2
  <2> QED BY <2>1 DEF Failed
<1>5. Told(c, a)
  BY <1>1, <1>2, <1>3, <1>4 DEF Told
<1> QED BY <1>5 DEF Fits

(* A step that records nothing and only narrows what is ahead of the call.  *)
LEMMA QuietFits ==
    ASSUME IInv, AInv, NEW t \in Thread, call[t].pc \notin {"release", "raise"},
           NEW c \in Call, call' = [call EXCEPT ![t] = c], audit' = audit,
           c.ended = call[t].ended, c.cap = call[t].cap, call[t].pc # "idle",
           c.todo \cup c.left \subseteq call[t].todo \cup call[t].left,
           c.current \in call[t].todo \cup {call[t].current, None},
           \/ /\ call[t].pc \in {"filter", "rank", "acquire"}
              /\ c.pc \in {"filter", "rank", "acquire", "loop"}
           \/ /\ call[t].pc \in {"loop", "execute"}
              /\ c.pc \in {"loop", "execute"}
              /\ c.todo \subseteq call[t].todo
    PROVE  AInv'
<1> DEFINE a == audit[t]
<1>1. a \in Seq(AuditRecord) /\ audit' = [audit EXCEPT ![t] = a]
  BY DEF IInv, TypeOK
<1>2. Open(call[t], a) /\ call[t] \in Call
  BY DEF AInv, Fits, IInv, TypeOK
<1> HIDE DEF a
<1>3. c.todo \cup c.left \subseteq Certified[c.cap]
      /\ c.current \in Certified[c.cap] \cup {None}
  BY <1>2 DEF Open
<1>4. c.pc \in {"idle", "filter", "rank", "acquire"} => a = <<>>
  BY <1>2 DEF Open
<1>5. Untried(c, a)
  <2>1. CASE a = <<>>
    <3>1. 1..Len(a) = {}
      BY <2>1
    <3> QED BY <3>1 DEF Untried
  <2>2. CASE c.todo \subseteq call[t].todo
    <3>1. ASSUME NEW i \in 1..Len(a) PROVE ~Ahead(c, a[i].provider)
      <4>1. ~Ahead(call[t], a[i].provider) /\ Failed(a[i])
        BY <1>2 DEF Open, Untried
      <4> QED BY <2>2, <4>1 DEF Ahead, Failed
    <3> QED BY <1>2, <3>1 DEF Open, Untried
  <2> QED BY <1>2, <2>1, <2>2 DEF Open
<1>6. Open(c, a)
  BY <1>2, <1>3, <1>4, <1>5 DEF Open
<1> QED BY <1>1, <1>6, OpenTold, OthersFit

(* A terminal record of a call that runs: no failure, of no provider that   *)
(* has one, and SUCCESS exactly when the call returned.                     *)
LEMMA TerminalFits ==
    ASSUME IInv, AInv, NEW t \in Thread, call[t].pc \notin {"release", "raise"},
           NEW pc \in {"release", "raise"}, NEW how \in {"returned", "raised"},
           Leaving(t, pc, how), NEW provider \in {None, call[t].current},
           NEW outcome \in {"SUCCESS", "CANCELLED", "TIMEOUT", "CONTRACT_ERROR"},
           Note(t, provider, outcome), how = "returned" <=> outcome = "SUCCESS"
    PROVE  AInv'
<1> DEFINE c == [NotStarted EXCEPT !.pc = pc, !.cap = call[t].cap, !.ended = how]
           r == [provider |-> provider, outcome |-> outcome]
           a == audit[t]
           n == Len(a)
           b == Append(a, r)
<1>1. c.pc = pc /\ c.ended = how /\ c.cap = call[t].cap
  BY DEF NotStarted
<1>2. call' = [call EXCEPT ![t] = c] /\ audit' = [audit EXCEPT ![t] = b]
  BY DEF Leaving, Note
<1>3. a \in Seq(AuditRecord) /\ Open(call[t], a) /\ call[t] \in Call
  BY DEF AInv, Fits, IInv, TypeOK
<1>4. r.provider = provider /\ r.outcome = outcome /\ ~Failed(r)
  BY DEF Failed
<1> HIDE DEF c, r, a
<1>5. n \in Nat /\ Len(b) = n + 1 /\ b[n + 1] = r /\ \A i \in 1..n : b[i] = a[i]
  BY <1>3
<1> HIDE DEF n, b
<1>6. \A i \in 1..n : Failed(b[i]) /\ b[i].provider \in Certified[c.cap]
                      /\ ~Ahead(call[t], b[i].provider) /\ b[i].provider # None
  BY <1>1, <1>3, <1>5 DEF Open, Untried, Failed, n
<1>7. \A i \in 1..n : b[i].provider # provider
  BY <1>6 DEF Ahead
<1>8. \A i, j \in 1..Len(b) :
          i # j /\ b[i].provider # None => b[i].provider # b[j].provider
  <2> SUFFICES ASSUME NEW i \in 1..Len(b), NEW j \in 1..Len(b), i # j,
                      b[i].provider # None
               PROVE  b[i].provider # b[j].provider
    OBVIOUS
  <2>1. (i \in 1..n \/ i = n + 1) /\ (j \in 1..n \/ j = n + 1)
    BY <1>5
  <2>2. CASE i \in 1..n /\ j \in 1..n
    BY <1>3, <1>5, <2>2 DEF Open, Untried, n
  <2> QED BY <1>4, <1>5, <1>7, <2>1, <2>2
<1>9. Told(c, b)
  <2>1. (c.ended \notin {"no", "escaped"}) /\ Len(b) - 1 = n /\ Len(b) > 0
    BY <1>1, <1>5
  <2>2. ~Failed(b[Len(b)])
    BY <1>4, <1>5
  <2>3. c.ended = "returned" <=> Len(b) > 0 /\ b[Len(b)].outcome = "SUCCESS"
    BY <1>1, <1>4, <1>5, <2>1
  <2> QED BY <1>5, <1>6, <1>8, <2>1, <2>2, <2>3 DEF Told
<1>10. Fits(c, b)
  BY <1>1, <1>9 DEF Fits
<1> QED BY <1>2, <1>10, OthersFit

(* An exception nobody catches leaves the failures recorded before it.      *)
LEMMA EscapeFits ==
    ASSUME IInv, AInv, NEW t \in Thread, Escape(t)
    PROVE  AInv'
<1> DEFINE c == [NotStarted EXCEPT !.pc = "release", !.cap = call[t].cap, !.ended = "escaped"]
           a == audit[t]
<1>1. c.pc = "release" /\ c.ended = "escaped" /\ c.cap = call[t].cap
  BY DEF NotStarted
<1>2. call' = [call EXCEPT ![t] = c] /\ audit' = [audit EXCEPT ![t] = a]
  BY DEF Escape, Leave, Leaving, IInv, TypeOK
<1>3. a \in Seq(AuditRecord) /\ Open(call[t], a)
  BY DEF AInv, Fits, IInv, TypeOK, Escape
<1> HIDE DEF c, a
<1>4. Told(call[t], a)
  BY <1>3, OpenTold DEF Fits
<1>5. Told(c, a)
  BY <1>1, <1>3, <1>4 DEF Told, Open
<1>6. Fits(c, a)
  BY <1>1, <1>5 DEF Fits
<1> QED BY <1>2, <1>6, OthersFit

(* A failure of the current provider, with its record.                      *)
LEMMA FailureFits ==
    ASSUME IInv, AInv, NEW t \in Thread, call[t].pc = "execute",
           Note(t, call[t].current, "FAILED"), Continue(t)
    PROVE  AInv'
<1> DEFINE c == [call[t] EXCEPT !.pc = "loop", !.current = None]
           r == [provider |-> call[t].current, outcome |-> "FAILED"]
           a == audit[t]
           n == Len(a)
           b == Append(a, r)
<1>1. a \in Seq(AuditRecord) /\ Open(call[t], a) /\ call[t] \in Call /\ CallOK(call[t])
  BY DEF AInv, Fits, IInv, TypeOK
<1>2. /\ c.pc = "loop" /\ c.ended = call[t].ended /\ c.cap = call[t].cap
      /\ c.todo = call[t].todo /\ c.left = call[t].left /\ c.current = None
  BY <1>1 DEF Call
<1>3. call' = [call EXCEPT ![t] = c] /\ audit' = [audit EXCEPT ![t] = b]
  BY DEF Continue, Note
<1>4. r \in AuditRecord /\ r.provider = call[t].current /\ Failed(r)
  BY CurrentProvider, NoneAssumption DEF AuditRecord, Outcome, Failed
<1> HIDE DEF c, r, a
<1>5. n \in Nat /\ Len(b) = n + 1 /\ b[n + 1] = r /\ \A i \in 1..n : b[i] = a[i]
  BY <1>1
<1>6. b \in Seq(AuditRecord)
  BY <1>1, <1>4
<1> HIDE DEF n, b
<1>7. \A i \in 1..n : /\ Failed(b[i]) /\ b[i].provider \in Certified[c.cap]
                      /\ ~Ahead(call[t], b[i].provider)
  BY <1>1, <1>2, <1>5 DEF Open, Untried, n
<1>8. r.provider \in Certified[c.cap]
  BY <1>1, <1>2, <1>4 DEF Open, Failed
<1>9. \A i \in 1..Len(b) : i \in 1..n \/ i = n + 1
  BY <1>5
<1>10. Untried(c, b)
  <2>1. ASSUME NEW i \in 1..Len(b)
        PROVE  Failed(b[i]) /\ b[i].provider \in Certified[c.cap] /\ ~Ahead(c, b[i].provider)
    <3>1. CASE i \in 1..n
      BY <1>2, <1>7, <3>1 DEF Ahead, Failed
    <3>2. CASE i = n + 1
      BY <1>1, <1>2, <1>4, <1>5, <1>8, <3>2 DEF Ahead, Failed, CallOK
    <3> QED BY <1>9, <3>1, <3>2
  <2>2. ASSUME NEW i \in 1..Len(b), NEW j \in 1..Len(b), i # j
        PROVE  b[i].provider # b[j].provider
    <3>1. CASE i \in 1..n /\ j \in 1..n
      BY <1>1, <1>5, <2>2, <3>1 DEF Open, Untried, n
    <3>2. \A k \in 1..n : b[k].provider # r.provider
      BY <1>4, <1>7 DEF Ahead
    <3> QED BY <1>5, <1>9, <2>2, <3>1, <3>2
  <2> QED BY <2>1, <2>2 DEF Untried
<1>11. Open(c, b)
  BY <1>1, <1>2, <1>10 DEF Open
<1> QED BY <1>3, <1>6, <1>11, OpenTold, OthersFit

(* A call begins with an empty trail, or with the record of a cancellation. *)
LEMMA StartFits ==
    ASSUME IInv, AInv, NEW t \in Thread, NEW k \in Capability, NEW cancelled \in BOOLEAN,
           Start(t, k, cancelled)
    PROVE  AInv'
<1>1. Certified[k] \subseteq Provider
  BY PolicyAssumption
<1>2. CASE cancelled
  <2> DEFINE c == [NotStarted EXCEPT !.cap = k, !.pc = "raise", !.ended = "raised"]
             r == [provider |-> None, outcome |-> "CANCELLED"]
             a == <<r>>
  <2>1. c.pc = "raise" /\ c.ended = "raised"
    BY DEF NotStarted
  <2>2. call' = [call EXCEPT ![t] = c] /\ audit' = [audit EXCEPT ![t] = a]
    BY <1>2 DEF Start
  <2>3. r.outcome = "CANCELLED" /\ ~Failed(r)
    BY DEF Failed
  <2> HIDE DEF c, r
  <2>4. Len(a) = 1 /\ a[1] = r
    OBVIOUS
  <2> HIDE DEF a
  <2>5. Told(c, a)
    <3>1. Len(a) - 1 = 0 /\ 1..0 = {} /\ \A i \in 1..1 : i = 1
      BY <2>4
    <3> QED BY <2>1, <2>3, <2>4, <3>1 DEF Told
  <2>6. Fits(c, a)
    BY <2>1, <2>5 DEF Fits
  <2> QED BY <2>2, <2>6, OthersFit
<1>3. CASE ~cancelled
  <2> DEFINE c == [NotStarted EXCEPT !.cap = k, !.pc = "filter", !.left = Certified[k]]
             a == <<>>
  <2>1. /\ c.pc = "filter" /\ c.ended = "no" /\ c.cap = k
        /\ c.todo = {} /\ c.left = Certified[k] /\ c.current = None
    BY DEF NotStarted
  <2>2. call' = [call EXCEPT ![t] = c] /\ audit' = [audit EXCEPT ![t] = a]
    BY <1>3 DEF Start
  <2> HIDE DEF c
  <2>3. a \in Seq(AuditRecord) /\ 1..Len(a) = {}
    OBVIOUS
  <2>4. Open(c, a)
    BY <2>1, <2>3 DEF Open, Untried
  <2> QED BY <2>2, <2>3, <2>4, OpenTold, OthersFit
<1> QED BY <1>2, <1>3

LEMMA NotStartedFits == Fits(NotStarted, <<>>)
<1>1. <<>> \in Seq(AuditRecord) /\ 1..Len(<<>>) = {}
  OBVIOUS
<1>2. NotStarted.pc = "idle" /\ NotStarted.ended = "no"
  BY DEF NotStarted
<1>3. Open(NotStarted, <<>>)
  BY <1>1, <1>2 DEF Open, Untried
<1> QED BY <1>1, <1>3, OpenTold

(* The caller, the clock, the two passes over the providers, the permit and  *)
(* a submission write no record.                                            *)
LEMMA QuietSteps ==
    ASSUME IInv, AInv, NEW t \in Thread,
           \/ Cancel(t) \/ DeadlinePasses(t) \/ Rank(t) \/ Acquire(t) \/ Submit(t)
           \/ RejectAnswer(t)
    PROVE  AInv'
<1>1. call[t] \in Call /\ CallOK(call[t])
  BY DEF IInv, TypeOK
<1>2. audit' = audit
  BY DEF Cancel, DeadlinePasses, Rank, Acquire, Submit, RejectAnswer
<1>3. CASE Cancel(t)
  <2> DEFINE c == [call[t] EXCEPT !.cancelled = TRUE]
  <2>1. /\ c \in Call /\ c.pc = call[t].pc /\ c.cap = call[t].cap /\ c.left = call[t].left
        /\ c.todo = call[t].todo /\ c.current = call[t].current /\ c.ended = call[t].ended
    BY <1>1 DEF Call
  <2>2. call' = [call EXCEPT ![t] = c] /\ call[t].pc \in {"loop", "execute"}
    BY <1>3 DEF Cancel
  <2> HIDE DEF c
  <2> QED BY <1>2, <2>1, <2>2, QuietFits
<1>4. CASE DeadlinePasses(t)
  <2> DEFINE c == [call[t] EXCEPT !.expired = TRUE]
  <2>1. /\ c \in Call /\ c.pc = call[t].pc /\ c.cap = call[t].cap /\ c.left = call[t].left
        /\ c.todo = call[t].todo /\ c.current = call[t].current /\ c.ended = call[t].ended
    BY <1>1 DEF Call
  <2>2. call' = [call EXCEPT ![t] = c] /\ call[t].pc \in {"acquire", "loop"}
    BY <1>4 DEF DeadlinePasses
  <2> HIDE DEF c
  <2> QED BY <1>2, <2>1, <2>2, QuietFits
<1>5. CASE Acquire(t)
  <2> DEFINE c == [call[t] EXCEPT !.pc = "loop"]
  <2>1. /\ c \in Call /\ c.pc = "loop" /\ c.cap = call[t].cap /\ c.left = call[t].left
        /\ c.todo = call[t].todo /\ c.current = call[t].current /\ c.ended = call[t].ended
    BY <1>1 DEF Call
  <2>2. call' = [call EXCEPT ![t] = c] /\ call[t].pc = "acquire"
    BY <1>5 DEF Acquire
  <2> HIDE DEF c
  <2> QED BY <1>2, <2>1, <2>2, QuietFits
<1>6. CASE RejectAnswer(t)
  <2> DEFINE c == [call[t] EXCEPT !.pc = "loop", !.current = None]
  <2>1. /\ c \in Call /\ c.pc = "loop" /\ c.cap = call[t].cap /\ c.left = call[t].left
        /\ c.todo = call[t].todo /\ c.current = None /\ c.ended = call[t].ended
    BY <1>1 DEF Call
  <2>2. call' = [call EXCEPT ![t] = c] /\ call[t].pc = "execute"
    BY <1>6 DEF RejectAnswer, Continue
  <2> HIDE DEF c
  <2> QED BY <1>2, <2>1, <2>2, QuietFits
<1>7. CASE Submit(t)
  <2>1. PICK p \in Provider :
            /\ p \in call[t].todo
            /\ call' = [call EXCEPT ![t] =
                  [@ EXCEPT !.pc = "execute", !.current = p, !.todo = call[t].todo \ {p},
                            !.rank[p] = 0]]
    BY <1>7 DEF Submit, NextProvider
  <2> DEFINE rank == [call[t].rank EXCEPT ![p] = 0]
             todo == call[t].todo \ {p}
             c == [call[t] EXCEPT !.pc = "execute", !.current = p, !.todo = todo,
                                  !.rank = rank]
  <2>2. call' = [call EXCEPT ![t] = c] /\ call[t].pc = "loop"
    <3>1. call[t].pc = "loop"
      BY <1>7 DEF Submit
    <3>2. [call[t] EXCEPT !.pc = "execute", !.current = p, !.todo = call[t].todo \ {p},
                          !.rank[p] = 0] = c
      OBVIOUS
    <3> HIDE DEF c
    <3> QED BY <2>1, <3>1, <3>2
  <2>3. rank \in [Provider -> 0..2] /\ todo \subseteq Provider /\ todo \subseteq call[t].todo
    <3>1. call[t].rank \in [Provider -> 0..2] /\ call[t].todo \subseteq Provider
      BY <1>1 DEF Call
    <3> QED BY <3>1
  <2> HIDE DEF rank, todo
  <2>4. /\ c \in Call /\ c.pc = "execute" /\ c.cap = call[t].cap /\ c.left = call[t].left
        /\ c.todo = todo /\ c.current = p /\ c.ended = call[t].ended
    BY <1>1, <2>3 DEF Call
  <2> HIDE DEF c
  <2> QED BY <1>2, <2>1, <2>2, <2>3, <2>4, QuietFits
<1>8. CASE Rank(t)
  <2> DEFINE p == Least(call[t].left)
             left == call[t].left \ {p}
             rank == [call[t].rank EXCEPT ![p] = HealthRank[health[p]]]
             pc == IF left = {} THEN "acquire" ELSE "rank"
             c == [call[t] EXCEPT !.left = left, !.rank = rank, !.pc = pc]
  <2>1. call' = [call EXCEPT ![t] = c] /\ call[t].pc = "rank"
    BY <1>8 DEF Rank
  <2>2. call'[t] \in Call
    <3>1. CallStep(t)
      BY <1>8, RankStep
    <3> QED BY <3>1 DEF CallStep, Moved, IInv, TypeOK
  <2>3. /\ c.pc = pc /\ c.cap = call[t].cap /\ c.left = left
        /\ c.todo = call[t].todo /\ c.current = call[t].current /\ c.ended = call[t].ended
    BY <1>1 DEF Call
  <2>4. pc \in {"acquire", "rank"} /\ left \subseteq call[t].left
    OBVIOUS
  <2>5. c \in Call
    BY <2>1, <2>2 DEF IInv, TypeOK
  <2> HIDE DEF c, pc, left, rank
  <2> QED BY <1>2, <2>1, <2>3, <2>4, <2>5, QuietFits
<1> QED BY <1>3, <1>4, <1>5, <1>6, <1>7, <1>8

LEMMA FilterFits ==
    ASSUME IInv, AInv, NEW t \in Thread, Filter(t)
    PROVE  AInv'
<1> DEFINE p == Least(call[t].left)
           left == call[t].left \ {p}
           listed == call[t].todo \cup (IF Listable(p) THEN {p} ELSE {})
<1>1. call[t] \in Call /\ CallOK(call[t]) /\ call[t].pc = "filter"
  BY DEF IInv, TypeOK, Filter
<1>2. left \subseteq Provider /\ listed \subseteq Provider
      /\ left \subseteq call[t].left /\ listed \subseteq call[t].todo \cup call[t].left
  <2>1. call[t].left \in SUBSET Provider /\ call[t].left # {} /\ call[t].todo \subseteq Provider
    BY <1>1 DEF Call, CallOK
  <2>2. p \in call[t].left
    BY <2>1, LeastOf
  <2> QED BY <2>1, <2>2
<1> HIDE DEF left, listed
<1>3. CASE /\ call' = [call EXCEPT ![t] = [@ EXCEPT !.left = left, !.todo = listed]]
           /\ UNCHANGED audit
  <2> DEFINE c == [call[t] EXCEPT !.left = left, !.todo = listed]
  <2>1. /\ c \in Call /\ c.pc = "filter" /\ c.cap = call[t].cap /\ c.left = left
        /\ c.todo = listed /\ c.current = call[t].current /\ c.ended = call[t].ended
    BY <1>1, <1>2 DEF Call
  <2>2. call' = [call EXCEPT ![t] = c] /\ audit' = audit
    BY <1>3
  <2> HIDE DEF c
  <2> QED BY <1>1, <1>2, <2>1, <2>2, QuietFits
<1>4. CASE /\ call' = [call EXCEPT ![t] = [@ EXCEPT !.pc = "rank", !.left = listed,
                                                    !.todo = listed]]
           /\ UNCHANGED audit
  <2> DEFINE c == [call[t] EXCEPT !.pc = "rank", !.left = listed, !.todo = listed]
  <2>1. /\ c \in Call /\ c.pc = "rank" /\ c.cap = call[t].cap /\ c.left = listed
        /\ c.todo = listed /\ c.current = call[t].current /\ c.ended = call[t].ended
    BY <1>1, <1>2 DEF Call
  <2>2. call' = [call EXCEPT ![t] = c] /\ audit' = audit
    BY <1>4
  <2> HIDE DEF c
  <2> QED BY <1>1, <1>2, <2>1, <2>2, QuietFits
<1>5. CASE Raise(t) /\ Note(t, None, "CONTRACT_ERROR")
  BY <1>1, <1>5, TerminalFits DEF Raise
<1> QED BY <1>3, <1>4, <1>5 DEF Filter, left, listed

LEMMA AuditNext == IInv /\ AInv /\ [Next]_vars => AInv'
<1> SUFFICES ASSUME IInv, AInv, [Next]_vars PROVE AInv'
  OBVIOUS
<1>1. ASSUME UNCHANGED <<call, audit>> PROVE AInv'
  BY <1>1 DEF AInv, Fits, Told, Open, Untried, Ahead, Failed
<1>2. CASE \E p \in Provider, h \in OperatorSets : SetHealth(p, h)
  BY <1>1, <1>2 DEF SetHealth
<1>3. CASE UNCHANGED vars
  BY <1>1, <1>3 DEF vars
<1>4. ASSUME NEW t \in Thread, RunStep(t) \/ ProviderEnds(t) PROVE AInv'
  <2>1. CASE AcquireTimesOut(t)
    BY <2>1, TerminalFits DEF AcquireTimesOut, Raise
  <2>2. CASE LoopCancelled(t)
    BY <2>2, TerminalFits DEF LoopCancelled, Leave
  <2>3. CASE LoopFails(t)
    BY <2>3, TerminalFits DEF LoopFails, Leave
  <2>4. CASE ProviderTimesOut(t) \/ ProviderRaises(t)
    BY <2>4, FailureFits DEF ProviderTimesOut, ProviderRaises
  <2>5. CASE AcceptCancelled(t)
    BY <2>5, TerminalFits DEF AcceptCancelled, Leave
  <2>6. CASE AcceptAnswer(t)
    BY <2>6, TerminalFits DEF AcceptAnswer, Leave
  <2>7. CASE Release(t) \/ RaiseBeforeTry(t)
    BY <2>7, NotStartedFits, OthersFit DEF Release, RaiseBeforeTry, End
  <2> QED BY <1>4, <2>1, <2>2, <2>3, <2>4, <2>5, <2>6, <2>7, EscapeFits, FilterFits, QuietSteps
          DEF RunStep, ProviderEnds
<1> QED BY <1>2, <1>3, <1>4, StartFits, QuietSteps DEF Next

(* However a call ends, its audit trail says so: failures of different       *)
(* certified providers, then one terminal record that is SUCCESS exactly     *)
(* when the caller has a result, for any number of calls, providers and      *)
(* capabilities and whatever providers and operators do.                    *)
THEOREM AuditTrail == Spec => []AuditTells
<1>1. Init => AInv
  BY NotStartedFits DEF Init, AInv
<1>2. AInv => AuditTells
  BY DEF AInv, Fits, Told, AuditTells
<1> QED BY <1>1, <1>2, AuditNext, Invariant, PTL DEF Spec
=============================================================================
