---------------------------- MODULE AgentRuntime ----------------------------
(***************************************************************************)
(* HardenedAgentRuntime.run and the health state its calls share            *)
(* (core/p3/runtime.py): threads of one process ask for a capability, list  *)
(* the certified providers that are not UNHEALTHY, wait for a permit of the *)
(* capability's semaphore, and try the listed providers in order of health  *)
(* and identity until one answers.                                         *)
(*                                                                         *)
(* What runs under the runtime's lock is one action: each read of a         *)
(* provider's health is a step of its own, and the list a call works from   *)
(* is as old as its wait for the permit.  Time is not counted: a deadline   *)
(* or a provider timeout may pass at any moment after it is set.  A         *)
(* provider may answer, answer wrongly, raise, or never return; what run    *)
(* then does depends on nothing it does not set itself, so it goes with the *)
(* provider's last step.  A provider thread that timed out goes on by       *)
(* itself, but nobody reads its future any more: it is no state here.  Only *)
(* its own call appends to audit[t], with the step that decides the record. *)
(***************************************************************************)
EXTENDS Integers, FiniteSets, Sequences

CONSTANTS
    Thread,
    Provider,        \* registered providers, in the order of their identities
    Capability,
    Certified,       \* Certified[c]: the providers of c its policy certifies
    MaxConcurrency,  \* MaxConcurrency[c]: permits of c
    Threshold,       \* Threshold[c]: failures that make a provider UNHEALTHY
    OperatorSets,    \* what set_health is called with
    None

Health == {"HEALTHY", "DEGRADED", "UNHEALTHY"}

ASSUME ProviderAssumption == Provider \subseteq Nat /\ IsFiniteSet(Provider)
ASSUME PolicyAssumption ==
    /\ Certified \in [Capability -> (SUBSET Provider) \ {{}}]
    /\ MaxConcurrency \in [Capability -> Nat \ {0}]
    /\ Threshold \in [Capability -> Nat \ {0}]
ASSUME ThreadAssumption == IsFiniteSet(Thread)
ASSUME ThresholdAssumption == \E c \in Capability : \A d \in Capability : Threshold[d] <= Threshold[c]
ASSUME OperatorAssumption == OperatorSets \subseteq Health
ASSUME NoneAssumption == None \notin Provider \cup Capability

VARIABLES
    health,    \* _health
    failures,  \* _failures: failures in a row
    permits,   \* the value of the semaphore of each capability
    call,      \* call[t]: the run call t is in
    audit      \* audit[t]: the audit records of that call, until it is over

vars == <<health, failures, permits, call, audit>>

(* FAILED is a TIMEOUT or PROVIDER_ERROR of a provider that was tried.      *)
Outcome == {"SUCCESS", "CANCELLED", "TIMEOUT", "FAILED", "CONTRACT_ERROR"}
AuditRecord == [provider : Provider \cup {None}, outcome : Outcome]

(* left: providers whose health is still to be read; todo: those to try;    *)
(* rank: their health when the list was sorted; ended: how run left.         *)
Call == [pc : {"idle", "filter", "rank", "acquire", "loop", "execute", "release", "raise"},
         cap : Capability \cup {None}, cancelled : BOOLEAN, expired : BOOLEAN,
         left : SUBSET Provider, todo : SUBSET Provider, rank : [Provider -> 0..2],
         current : Provider \cup {None},
         ended : {"no", "returned", "raised", "escaped"}]

NotStarted == [pc |-> "idle", cap |-> None, cancelled |-> FALSE, expired |-> FALSE,
               left |-> {}, todo |-> {}, rank |-> [p \in Provider |-> 0],
               current |-> None, ended |-> "no"]

TypeOK ==
    /\ health \in [Provider -> Health]
    /\ failures \in [Provider -> Nat]
    /\ permits \in [Capability -> Nat]
    /\ \A c \in Capability : permits[c] <= MaxConcurrency[c]
    /\ call \in [Thread -> Call]
    /\ audit \in [Thread -> Seq(AuditRecord)]
    /\ \A t \in Thread : call[t].pc # "idle" => call[t].cap # None
    /\ \A t \in Thread : call[t].pc = "execute" => call[t].current # None

Init ==
    /\ health = [p \in Provider |-> "HEALTHY"]
    /\ failures = [p \in Provider |-> 0]
    /\ permits = MaxConcurrency
    /\ call = [t \in Thread |-> NotStarted]
    /\ audit = [t \in Thread |-> <<>>]

-----------------------------------------------------------------------------
HealthRank == [h \in Health |-> CASE h = "HEALTHY" -> 0 [] h = "DEGRADED" -> 1
                                  [] h = "UNHEALTHY" -> 2]

Least(S) == CHOOSE p \in S : \A q \in S : p <= q

(* Mutant of Listable: health does not matter. *)
ListableAlways(p) == TRUE

Listable(p) == health[p] # "UNHEALTHY"

Note(t, provider, outcome) ==
    audit' = [audit EXCEPT ![t] = Append(@, [provider |-> provider, outcome |-> outcome])]

RecordFailure(p, c) ==
    /\ failures' = [failures EXCEPT ![p] = @ + 1]
    /\ health' = [health EXCEPT ![p] =
                    IF failures[p] + 1 >= Threshold[c] THEN "UNHEALTHY" ELSE "DEGRADED"]

RecordSuccess(p) ==
    /\ failures' = [failures EXCEPT ![p] = 0]
    /\ health' = [health EXCEPT ![p] = "HEALTHY"]

(* run is over but for the finally that releases the permit, or before the  *)
(* try that this finally belongs to.                                        *)
Leaving(t, pc, how) ==
    call' = [call EXCEPT ![t] = [NotStarted EXCEPT !.pc = pc, !.cap = call[t].cap,
                                                   !.ended = how]]
Leave(t, how) == Leaving(t, "release", how)
Raise(t) == Leaving(t, "raise", "raised")

(* run goes on with the next provider. *)
Continue(t) == call' = [call EXCEPT ![t] = [@ EXCEPT !.pc = "loop", !.current = None]]

shared == <<health, failures>>

-----------------------------------------------------------------------------
SetHealth(p, h) ==
    /\ health' = [health EXCEPT ![p] = h]
    /\ failures' = IF h = "HEALTHY" THEN [failures EXCEPT ![p] = 0] ELSE failures
    /\ UNCHANGED <<permits, call, audit>>

(* The caller may have cancelled before the call.                           *)
Start(t, c, cancelled) ==
    /\ call[t].pc = "idle"
    /\ call' = [call EXCEPT ![t] =
          IF cancelled
          THEN [NotStarted EXCEPT !.cap = c, !.pc = "raise", !.ended = "raised"]
          ELSE [NotStarted EXCEPT !.cap = c, !.pc = "filter", !.left = Certified[c]]]
    /\ audit' = [audit EXCEPT ![t] =
          IF cancelled THEN <<[provider |-> None, outcome |-> "CANCELLED"]>> ELSE <<>>]
    /\ UNCHANGED <<shared, permits>>

(* While a call lists providers or waits for its permit, nothing looks at the *)
(* token: such a cancellation is taken when the call has the permit.         *)
Cancel(t) ==
    /\ call[t].pc \in {"loop", "execute"}
    /\ ~call[t].cancelled
    /\ call' = [call EXCEPT ![t] = [@ EXCEPT !.cancelled = TRUE]]
    /\ UNCHANGED <<shared, permits, audit>>

(* A deadline that passes while a provider runs is noticed after it.        *)
DeadlinePasses(t) ==
    /\ call[t].pc \in {"acquire", "loop"}
    /\ ~call[t].expired
    /\ call' = [call EXCEPT ![t] = [@ EXCEPT !.expired = TRUE]]
    /\ UNCHANGED <<shared, permits, audit>>

(* The first pass of _eligible reads every provider's health once and keeps *)
(* those that are not UNHEALTHY; the call ends when none is left.            *)
Filter(t) ==
    /\ call[t].pc = "filter"
    /\ LET p == Least(call[t].left)
           left == call[t].left \ {p}
           listed == call[t].todo \cup (IF Listable(p) THEN {p} ELSE {})
       IN  \/ /\ left # {}
              /\ call' = [call EXCEPT ![t] = [@ EXCEPT !.left = left, !.todo = listed]]
              /\ UNCHANGED audit
           \/ /\ left = {} /\ listed # {}
              /\ call' = [call EXCEPT ![t] = [@ EXCEPT !.pc = "rank", !.left = listed,
                                                    !.todo = listed]]
              /\ UNCHANGED audit
           \/ /\ left = {} /\ listed = {}
              /\ Raise(t)
              /\ Note(t, None, "CONTRACT_ERROR")
    /\ UNCHANGED <<shared, permits>>

(* The sort of _eligible reads the health of the listed providers again.    *)
Rank(t) ==
    /\ call[t].pc = "rank"
    /\ LET p == Least(call[t].left)
           left == call[t].left \ {p}
       IN  call' = [call EXCEPT ![t] =
                      [@ EXCEPT !.left = left, !.rank[p] = HealthRank[health[p]],
                                !.pc = IF left = {} THEN "acquire" ELSE "rank"]]
    /\ UNCHANGED <<shared, permits, audit>>

Acquire(t) ==
    /\ call[t].pc = "acquire"
    /\ permits[call[t].cap] > 0
    /\ permits' = [permits EXCEPT ![call[t].cap] = @ - 1]
    /\ call' = [call EXCEPT ![t] = [@ EXCEPT !.pc = "loop"]]
    /\ UNCHANGED <<shared, audit>>

(* Mutant of AcquireTimesOut: the semaphore is acquired without a timeout.  *)
AcquireWaits(t) == FALSE /\ UNCHANGED vars

(* Second mutant of AcquireTimesOut: the acquisition stands inside the try.  *)
AcquireInTry(t) ==
    /\ call[t].pc = "acquire"
    /\ call[t].expired
    /\ permits[call[t].cap] = 0
    /\ Leave(t, "raised")
    /\ Note(t, None, "TIMEOUT")
    /\ UNCHANGED <<shared, permits>>

(* acquire looks at the value once more before it gives up. *)
AcquireTimesOut(t) ==
    /\ call[t].pc = "acquire"
    /\ call[t].expired
    /\ permits[call[t].cap] = 0
    /\ Raise(t)
    /\ Note(t, None, "TIMEOUT")
    /\ UNCHANGED <<shared, permits>>

LoopCancelled(t) ==
    /\ call[t].pc = "loop"
    /\ call[t].todo # {}
    /\ call[t].cancelled
    /\ Leave(t, "raised")
    /\ Note(t, None, "CANCELLED")
    /\ UNCHANGED <<shared, permits>>

(* No provider is left, or no time. *)
LoopFails(t) ==
    /\ call[t].pc = "loop"
    /\ call[t].todo = {} \/ (~call[t].cancelled /\ call[t].expired)
    /\ Leave(t, "raised")
    /\ Note(t, None, "CONTRACT_ERROR")
    /\ UNCHANGED <<shared, permits>>

(* The listed provider of the best health, the first identity among equals. *)
NextProvider(t, p) ==
    /\ p \in call[t].todo
    /\ \A q \in call[t].todo :
          \/ call[t].rank[p] < call[t].rank[q]
          \/ call[t].rank[p] = call[t].rank[q] /\ p <= q

Submit(t) ==
    /\ call[t].pc = "loop"
    /\ ~call[t].cancelled
    /\ ~call[t].expired
    /\ \E p \in Provider :
          /\ NextProvider(t, p)
          /\ call' = [call EXCEPT ![t] =
                [@ EXCEPT !.pc = "execute", !.current = p, !.todo = call[t].todo \ {p},
                          !.rank[p] = 0]]
    /\ UNCHANGED <<shared, permits, audit>>

(* future.result gives up on a provider that is still running; a provider   *)
(* that itself raises TimeoutError is taken for one, which looks the same.  *)
ProviderTimesOut(t) ==
    /\ call[t].pc = "execute"
    /\ RecordFailure(call[t].current, call[t].cap)
    /\ Note(t, call[t].current, "FAILED")
    /\ Continue(t)
    /\ UNCHANGED permits

ProviderRaises(t) ==
    /\ call[t].pc = "execute"
    /\ RecordFailure(call[t].current, call[t].cap)
    /\ Note(t, call[t].current, "FAILED")
    /\ Continue(t)
    /\ UNCHANGED permits

(* Mutant of AcceptCancelled: the record is made, the raise forgotten.      *)
AcceptCancelledGoesOn(t) ==
    /\ call[t].pc = "execute"
    /\ call[t].cancelled
    /\ Note(t, call[t].current, "CANCELLED")
    /\ Continue(t)
    /\ UNCHANGED <<shared, permits>>

AcceptCancelled(t) ==
    /\ call[t].pc = "execute"
    /\ call[t].cancelled
    /\ Leave(t, "raised")
    /\ Note(t, call[t].current, "CANCELLED")
    /\ UNCHANGED <<shared, permits>>

(* An answer for another task, of another provider or over its step budget   *)
(* is a failure of the provider, without an audit record.                   *)
RejectAnswer(t) ==
    /\ call[t].pc = "execute"
    /\ ~call[t].cancelled
    /\ RecordFailure(call[t].current, call[t].cap)
    /\ Continue(t)
    /\ UNCHANGED <<permits, audit>>

AcceptAnswer(t) ==
    /\ call[t].pc = "execute"
    /\ ~call[t].cancelled
    /\ RecordSuccess(call[t].current)
    /\ Leave(t, "returned")
    /\ Note(t, call[t].current, "SUCCESS")
    /\ UNCHANGED permits

(* Mutant of Escape: nothing releases the permit. *)
EscapeLeaks(t) ==
    /\ call[t].pc = "execute"
    /\ Leaving(t, "raise", "escaped")
    /\ UNCHANGED <<shared, permits, audit>>

(* A provider that exits (a BaseException), or an artifact without a digest, *)
(* ends run with an exception nothing here catches: no failure is counted,   *)
(* nothing recorded.                                                        *)
Escape(t) ==
    /\ call[t].pc = "execute"
    /\ Leave(t, "escaped")
    /\ UNCHANGED <<shared, permits, audit>>

(* The call is over and forgotten; the runtime keeps its audit records.     *)
End(t) ==
    /\ call' = [call EXCEPT ![t] = NotStarted]
    /\ audit' = [audit EXCEPT ![t] = <<>>]

Release(t) ==
    /\ call[t].pc = "release"
    /\ permits' = [permits EXCEPT ![call[t].cap] = @ + 1]
    /\ End(t)
    /\ UNCHANGED shared

RaiseBeforeTry(t) ==
    /\ call[t].pc = "raise"
    /\ End(t)
    /\ UNCHANGED <<shared, permits>>

(* What run does by itself: its own steps and its timeouts. *)
RunStep(t) ==
    \/ Filter(t) \/ Rank(t) \/ Acquire(t) \/ AcquireTimesOut(t)
    \/ LoopCancelled(t) \/ LoopFails(t) \/ Submit(t) \/ ProviderTimesOut(t)
    \/ Release(t) \/ RaiseBeforeTry(t)

(* How a provider may end, and what run makes of it. *)
ProviderEnds(t) ==
    \/ ProviderRaises(t) \/ AcceptCancelled(t) \/ RejectAnswer(t) \/ AcceptAnswer(t)
    \/ Escape(t)

Next ==
    \/ \E p \in Provider, h \in OperatorSets : SetHealth(p, h)
    \/ \E t \in Thread :
          \/ \E c \in Capability, b \in BOOLEAN : Start(t, c, b)
          \/ Cancel(t)
          \/ DeadlinePasses(t)
          \/ ProviderEnds(t)
          \/ RunStep(t)

(* Threads are scheduled and their timeouts fire; providers owe nothing, and *)
(* the semaphore gives its permits to whom it likes.                        *)
Fairness == \A t \in Thread : WF_vars(RunStep(t)) /\ WF_vars(DeadlinePasses(t))

Spec == Init /\ [][Next]_vars
FairSpec == Spec /\ Fairness
-----------------------------------------------------------------------------
Holds(t) == call[t].pc \in {"loop", "execute", "release"}

(* On every path out of run - answers, failures, cancellations, timeouts,    *)
(* exceptions nobody catches - a permit is given back exactly once: no more  *)
(* calls of a capability work at a time than its policy allows, and no       *)
(* permit is ever lost.                                                     *)
PermitsConserved ==
    \A c \in Capability :
        permits[c] + Cardinality({t \in Thread : call[t].cap = c /\ Holds(t)})
            = MaxConcurrency[c]

(* The circuit breaker, across all policies that share a provider: from the  *)
(* failure that reaches the largest threshold on, only calls that had listed *)
(* the provider before still try it, each once, however old their list is.   *)
(* It needs an operator who does not call a failing provider DEGRADED.       *)
MaxThreshold == CHOOSE n \in {Threshold[c] : c \in Capability} :
                    \A c \in Capability : Threshold[c] <= n

BreakerBound ==
    "DEGRADED" \notin OperatorSets =>
        \A p \in Provider : failures[p] < MaxThreshold + Cardinality(Thread)

Failed(record) == record.provider # None /\ record.outcome = "FAILED"

(* The audit trail tells how a call ended: a call that left has one terminal *)
(* record, the last, and it says SUCCESS exactly if the caller got a result; *)
(* before it stand failures of different certified providers.  Only a call   *)
(* that escaped has no terminal record.                                     *)
AuditTells ==
    \A t \in Thread :
        LET a == audit[t]
            tried == IF call[t].ended \in {"no", "escaped"} THEN Len(a) ELSE Len(a) - 1
        IN  /\ tried >= 0
            /\ \A i \in 1..tried : Failed(a[i]) /\ a[i].provider \in Certified[call[t].cap]
            /\ \A i, j \in 1..Len(a) :
                  i # j /\ a[i].provider # None => a[i].provider # a[j].provider
            /\ tried < Len(a) => ~Failed(a[Len(a)])
            /\ call[t].ended = "returned" <=> Len(a) > 0 /\ a[Len(a)].outcome = "SUCCESS"

(* Every call ends, though providers may hang and others may keep taking    *)
(* the permits it waits for.                                                *)
RunsEnd == \A t \in Thread : call[t].pc # "idle" ~> call[t].pc = "idle"
=============================================================================
