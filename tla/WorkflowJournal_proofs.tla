----------------------- MODULE WorkflowJournal_proofs -----------------------
(***************************************************************************)
(* Proofs about WorkflowJournal, for any number of engines and events.      *)
(*                                                                         *)
(* A call decides on reads that may be stale when it appends, so the        *)
(* invariant says what those reads still guarantee at that moment           *)
(* (CallOK): the workflow has been started, and the transition is legal     *)
(* from some phase in the journal.  Only if calls do not overlap            *)
(* (OneCall) is it legal from the last one (FreshOK).                       *)
(***************************************************************************)
EXTENDS WorkflowJournal, TLAPS

HasEvent(id, to) == \E n \in 1..Len(journal) : journal[n].id = id /\ journal[n].to = to

CallOK(e) ==
    /\ pc[e] # "idle" =>
          /\ call[e] \in Event
          /\ Starting(e) => call[e].to \in {"DISCOVERED", "READY"}
    /\ pc[e] = "check" => ~Starting(e)
    /\ pc[e] \in {"check", "append"} /\ ~Starting(e) => journal # <<>>
    /\ pc[e] = "append" /\ ~Starting(e) =>
          \E m \in 1..Len(journal) : Allowed(journal[m].to, call[e].to)
    /\ pc[e] = "reply" => HasEvent(call[e].id, call[e].to)

OneCall == exclusive => \A e, f \in Engine : pc[e] # "idle" /\ pc[f] # "idle" => e = f

FreshOK(e) ==
    exclusive /\ pc[e] = "append" /\ ~Starting(e) =>
        Allowed(journal[Len(journal)].to, call[e].to)

IInv ==
    /\ TypeOK
    /\ StartedOnce /\ EventOnce /\ AckedIsDurable /\ ReachedFromVisited /\ LegalHistory
    /\ \A e \in Engine : CallOK(e) /\ FreshOK(e)
    /\ OneCall

History == StartedOnce /\ EventOnce /\ ReachedFromVisited /\ LegalHistory

LEMMA InitIInv == Init => IInv
BY DEF Init, IInv, TypeOK, StartedOnce, EventOnce, AckedIsDurable, ReachedFromVisited,
       LegalHistory, CallOK, FreshOK, OneCall, Starting

(* A step that leaves the journal alone and moves one engine only keeps the *)
(* invariant if the engine's new position is justified.                     *)
LEMMA QuietStep ==
    ASSUME IInv, NEW e \in Engine, UNCHANGED <<journal, exclusive>>,
           NEW step \in {"idle", "read", "check", "append", "reply"},
           NEW c \in Event \cup {Nil},
           pc' = [pc EXCEPT ![e] = step], call' = [call EXCEPT ![e] = c],
           acked' \subseteq [id : EventId \cup {StartId}, to : Phase], AckedIsDurable',
           CallOK(e)', FreshOK(e)',
           exclusive /\ pc[e] = "idle" => step = "idle" \/ \A f \in Engine : pc[f] = "idle"
    PROVE  IInv'
<1>1. TypeOK'
  BY DEF IInv, TypeOK
<1>2. History'
  BY DEF IInv, History, StartedOnce, EventOnce, ReachedFromVisited, LegalHistory
<1>3. ASSUME NEW f \in Engine PROVE CallOK(f)' /\ FreshOK(f)'
  <2>1. CASE f = e
    BY <2>1
  <2>2. CASE f # e
    <3>1. pc'[f] = pc[f] /\ call'[f] = call[f]
      BY <2>2 DEF IInv, TypeOK
    <3> QED BY <3>1 DEF IInv, CallOK, FreshOK, Starting, HasEvent
  <2> QED BY <2>1, <2>2
<1>4. OneCall'
  BY DEF IInv, TypeOK, OneCall
<1> QED BY <1>1, <1>2, <1>3, <1>4 DEF IInv, History

(* The end of a call that acknowledges nothing. *)
LEMMA FinishStep ==
    ASSUME IInv, NEW e \in Engine, Finish(e), UNCHANGED <<journal, exclusive, acked>>
    PROVE  IInv'
<1>1. acked' \subseteq [id : EventId \cup {StartId}, to : Phase] /\ AckedIsDurable'
  BY DEF IInv, TypeOK, AckedIsDurable
<1>2. pc'[e] = "idle"
  BY DEF Finish, IInv, TypeOK
<1>3. CallOK(e)' /\ FreshOK(e)'
  BY <1>2 DEF CallOK, FreshOK
<1> QED BY <1>1, <1>3, QuietStep DEF Finish

(* The end of a call whose event is in the journal. *)
LEMMA ReplyStep ==
    ASSUME IInv, NEW e \in Engine, Reply(e), UNCHANGED <<journal, exclusive>>,
           call[e] \in Event, HasEvent(call[e].id, call[e].to)
    PROVE  IInv'
<1>1. acked' \subseteq [id : EventId \cup {StartId}, to : Phase]
  BY DEF Reply, IInv, TypeOK, Event
<1>2. AckedIsDurable'
  BY DEF Reply, IInv, AckedIsDurable, HasEvent
<1>3. pc'[e] = "idle"
  BY DEF Reply, Finish, IInv, TypeOK
<1>4. CallOK(e)' /\ FreshOK(e)'
  BY <1>3 DEF CallOK, FreshOK
<1> QED BY <1>1, <1>2, <1>4, QuietStep DEF Reply, Finish

(* The other steps inside a call. *)
LEMMA GotoStep ==
    ASSUME IInv, NEW e \in Engine, NEW step \in {"check", "append", "reply"}, Goto(e, step),
           pc[e] # "idle", UNCHANGED <<journal, exclusive, acked>>,
           step = "check" => ~Starting(e) /\ journal # <<>>,
           step = "append" /\ ~Starting(e) => /\ journal # <<>>
                                              /\ Allowed(CurrentPhase, call[e].to),
           step = "reply" => HasEvent(call[e].id, call[e].to)
    PROVE  IInv'
<1>1. acked' \subseteq [id : EventId \cup {StartId}, to : Phase] /\ AckedIsDurable'
  BY DEF IInv, TypeOK, AckedIsDurable
<1>2. pc'[e] = step /\ call' = [call EXCEPT ![e] = call[e]] /\ call[e] \in Event
      /\ (Starting(e) => call[e].to \in {"DISCOVERED", "READY"})
  BY DEF Goto, IInv, TypeOK, CallOK
<1>3. journal # <<>> => /\ Len(journal) \in 1..Len(journal)
                        /\ CurrentPhase = journal[Len(journal)].to
  BY DEF IInv, TypeOK, CurrentPhase, PhaseAt
<1>4. CallOK(e)'
  BY <1>2, <1>3 DEF CallOK, Goto, Starting, HasEvent
<1>5. FreshOK(e)'
  BY <1>2, <1>3 DEF FreshOK, Goto, Starting
<1> QED BY <1>1, <1>2, <1>4, <1>5, QuietStep DEF Goto

LEMMA CallStep ==
    ASSUME IInv, NEW e \in Engine, NEW event \in Event, Call(e, event),
           event.id = StartId => event.to \in {"DISCOVERED", "READY"}
    PROVE  IInv'
<1>1. acked' \subseteq [id : EventId \cup {StartId}, to : Phase] /\ AckedIsDurable'
  BY DEF Call, IInv, TypeOK, AckedIsDurable
<1>2. pc'[e] = "read" /\ call'[e] = event
  BY DEF Call, IInv, TypeOK
<1>3. CallOK(e)' /\ FreshOK(e)'
  BY <1>2 DEF CallOK, FreshOK, Starting
<1> QED BY <1>1, <1>3, QuietStep DEF Call

(* What appending an event does to the journal's positions. *)
LEMMA Appended ==
    ASSUME NEW s \in Seq(Event), NEW event \in Event
    PROVE  /\ Append(s, event) \in Seq(Event)
           /\ Len(s) \in Nat
           /\ Len(Append(s, event)) = Len(s) + 1
           /\ \A n \in 1..Len(s) : Append(s, event)[n] = s[n]
           /\ Append(s, event)[Len(s) + 1] = event
OBVIOUS

(* The event a call appends is new, comes first exactly if it is the start, *)
(* and is legal from a phase in the journal.                                *)
LEMMA AppendHistory ==
    ASSUME IInv, NEW e \in Engine, pc[e] = "append", ~Recorded(call[e]),
           journal' = Append(journal, call[e]), UNCHANGED exclusive
    PROVE  History' /\ journal' \in Seq(Event)
<1> DEFINE new == call[e]
           last == Len(journal) + 1
<1>1. new \in Event /\ journal \in Seq(Event) /\ CallOK(e) /\ FreshOK(e)
  BY DEF IInv, TypeOK, CallOK
<1>2. /\ journal' \in Seq(Event) /\ Len(journal) \in Nat
      /\ Len(journal') = last
      /\ \A n \in 1..Len(journal) : journal'[n] = journal[n]
      /\ journal'[last] = new
  BY <1>1, Appended
<1>3. \A n \in 1..Len(journal) : journal[n].id # new.id
  BY DEF Recorded
<1>4. journal = <<>> <=> Starting(e)
  <2>1. CASE journal # <<>>
    <3>1. 1 \in 1..Len(journal) /\ journal[1].id = StartId
      BY <2>1, <1>1 DEF IInv, StartedOnce
    <3> QED BY <2>1, <3>1, <1>3 DEF Starting
  <2>2. CASE journal = <<>>
    BY <2>2, <1>1 DEF CallOK
  <2> QED BY <2>1, <2>2
<1>5. StartedOnce'
  <2> SUFFICES ASSUME NEW n \in 1..last
               PROVE  /\ journal'[n].id = StartId <=> n = 1
                      /\ n = 1 => journal'[n].to \in {"DISCOVERED", "READY"}
    BY <1>2 DEF StartedOnce
  <2>1. CASE n \in 1..Len(journal)
    BY <2>1, <1>2 DEF IInv, StartedOnce
  <2>2. CASE n = last
    <3>1. n = 1 <=> journal = <<>>
      BY <2>2, <1>1, <1>2
    <3> QED BY <2>2, <3>1, <1>1, <1>2, <1>4 DEF CallOK, Starting
  <2> QED BY <2>1, <2>2, <1>2
<1>6. EventOnce'
  <2> SUFFICES ASSUME NEW m \in 1..last, NEW n \in 1..last, journal'[m].id = journal'[n].id
               PROVE  m = n
    BY <1>2 DEF EventOnce
  <2>1. CASE m \in 1..Len(journal) /\ n \in 1..Len(journal)
    BY <2>1, <1>2 DEF IInv, EventOnce
  <2>2. CASE m = last \/ n = last
    BY <2>2, <1>2, <1>3
  <2> QED BY <2>1, <2>2, <1>2
<1>7. ReachedFromVisited'
  <2> SUFFICES ASSUME NEW n \in 2..last
               PROVE  \E m \in 1..(n - 1) : Allowed(journal'[m].to, journal'[n].to)
    BY <1>2 DEF ReachedFromVisited
  <2>1. CASE n \in 2..Len(journal)
    <3>1. PICK m \in 1..(n - 1) : Allowed(journal[m].to, journal[n].to)
      BY <2>1 DEF IInv, ReachedFromVisited
    <3>2. m \in 1..Len(journal) /\ n \in 1..Len(journal)
      BY <2>1, <1>2
    <3> QED BY <3>1, <3>2, <1>2
  <2>2. CASE n = last
    <3>1. journal # <<>>
      BY <2>2, <1>1, <1>2
    <3>2. PICK m \in 1..Len(journal) : Allowed(journal[m].to, new.to)
      BY <3>1, <1>1, <1>4 DEF CallOK
    <3> QED BY <2>2, <3>2, <1>2
  <2> QED BY <2>1, <2>2, <1>2
<1>8. LegalHistory'
  <2> SUFFICES ASSUME exclusive, NEW n \in 2..last
               PROVE  Allowed(journal'[n - 1].to, journal'[n].to)
    BY <1>2 DEF LegalHistory
  <2>1. CASE n \in 2..Len(journal)
    <3>1. n - 1 \in 1..Len(journal) /\ n \in 1..Len(journal)
      BY <2>1, <1>2
    <3> QED BY <2>1, <3>1, <1>2 DEF IInv, LegalHistory
  <2>2. CASE n = last
    <3>1. journal # <<>> /\ n - 1 = Len(journal) /\ n - 1 \in 1..Len(journal)
      BY <2>2, <1>1, <1>2
    <3> QED BY <2>2, <3>1, <1>1, <1>2, <1>4 DEF FreshOK
  <2> QED BY <2>1, <2>2, <1>2
<1> QED BY <1>2, <1>5, <1>6, <1>7, <1>8 DEF History

(* append_event: the new event justifies the reply, and nothing another      *)
(* engine relies on is lost, since events are only added.                   *)
LEMMA AppendStep ==
    ASSUME IInv, NEW e \in Engine, AppendEvent(e)
    PROVE  IInv'
<1>1. pc[e] = "append" /\ call[e] \in Event /\ journal \in Seq(Event) /\ UNCHANGED exclusive
  BY DEF AppendEvent, IInv, TypeOK, CallOK
<1>2. CASE Recorded(call[e]) /\ ~SameContent(call[e])
  BY <1>2, FinishStep DEF AppendEvent
<1>3. CASE Recorded(call[e]) /\ SameContent(call[e])
  <2>1. HasEvent(call[e].id, call[e].to) /\ UNCHANGED journal
    BY <1>3 DEF SameContent, HasEvent, AppendEvent
  <2>2. CASE Starting(e)
    BY <1>1, <1>3, <2>1, <2>2, ReplyStep DEF AppendEvent
  <2>3. CASE ~Starting(e)
    BY <1>1, <1>3, <2>1, <2>3, GotoStep DEF AppendEvent
  <2> QED BY <2>2, <2>3
<1>4. CASE ~Recorded(call[e])
  <2>1. journal' = Append(journal, call[e])
    BY <1>4 DEF AppendEvent
  <2>2. History' /\ journal' \in Seq(Event)
    BY <1>1, <1>4, <2>1, AppendHistory
  <2>3. /\ Len(journal) \in Nat
        /\ Len(journal') = Len(journal) + 1
        /\ \A n \in 1..Len(journal) : journal'[n] = journal[n]
        /\ journal'[Len(journal) + 1] = call[e]
        /\ journal' # <<>>
    BY <1>1, <2>1, Appended
  <2>4. \E n \in 1..Len(journal') : /\ journal'[n].id = call[e].id
                                   /\ journal'[n].to = call[e].to
    <3>1. Len(journal) + 1 \in 1..Len(journal')
      BY <2>3
    <3> QED BY <3>1, <2>3
  <2>5. \/ /\ pc' = [pc EXCEPT ![e] = "idle"]
           /\ call' = [call EXCEPT ![e] = Nil]
           /\ acked' = acked \cup {[id |-> call[e].id, to |-> call[e].to]}
        \/ /\ pc' = [pc EXCEPT ![e] = "reply"]
           /\ call' = call
           /\ acked' = acked
    BY <1>4 DEF AppendEvent, Reply, Finish, Goto
  <2>6. TypeOK'
    BY <1>1, <2>2, <2>5 DEF IInv, TypeOK, Event
  <2>7. AckedIsDurable'
    <3>1. \A r \in acked : \E n \in 1..Len(journal') : /\ journal'[n].id = r.id
                                                      /\ journal'[n].to = r.to
      BY <2>3 DEF IInv, AckedIsDurable
    <3>2. CASE acked' = acked
      BY <3>1, <3>2 DEF AckedIsDurable
    <3>3. CASE acked' = acked \cup {[id |-> call[e].id, to |-> call[e].to]}
      BY <2>4, <3>1, <3>3 DEF AckedIsDurable
    <3> QED BY <2>5, <3>2, <3>3
  <2>8. ASSUME NEW f \in Engine PROVE CallOK(f)' /\ FreshOK(f)'
    <3>1. CASE f = e
      <4>1. pc'[e] = "idle" \/ (pc'[e] = "reply" /\ call'[e] = call[e])
        BY <2>5 DEF IInv, TypeOK
      <4>2. CASE pc'[e] = "idle"
        BY <3>1, <4>2 DEF CallOK, FreshOK
      <4>3. CASE pc'[e] = "reply" /\ call'[e] = call[e]
        BY <1>1, <2>4, <3>1, <4>3 DEF IInv, CallOK, FreshOK, HasEvent, Starting
      <4> QED BY <4>1, <4>2, <4>3
    <3>2. CASE f # e
      <4>1. pc'[f] = pc[f] /\ call'[f] = call[f] /\ CallOK(f)
        BY <2>5, <3>2 DEF IInv, TypeOK
      <4>2. HasEvent(call[f].id, call[f].to) => HasEvent(call[f].id, call[f].to)'
        BY <2>3, <4>1 DEF HasEvent
      <4>3. ASSUME NEW m \in 1..Len(journal), Allowed(journal[m].to, call[f].to)
            PROVE  \E k \in 1..Len(journal') : Allowed(journal'[k].to, call'[f].to)
        <5>1. m \in 1..Len(journal') /\ journal'[m] = journal[m]
          BY <2>3
        <5> QED BY <4>1, <4>3, <5>1
      <4>4. CallOK(f)'
        BY <2>3, <4>1, <4>2, <4>3 DEF CallOK, Starting
      <4>5. exclusive => pc[f] = "idle"
        BY <1>1, <3>2 DEF IInv, OneCall
      <4>6. FreshOK(f)'
        BY <1>1, <4>1, <4>5 DEF FreshOK
      <4> QED BY <4>4, <4>6
    <3> QED BY <3>1, <3>2
  <2>9. OneCall'
    BY <1>1, <2>5 DEF IInv, TypeOK, OneCall
  <2> QED BY <2>2, <2>6, <2>7, <2>8, <2>9 DEF IInv, History
<1> QED BY <1>2, <1>3, <1>4

(* IInv holds in every reachable state, for calls that overlap and for calls *)
(* that do not.                                                             *)
THEOREM Inductive == Spec => []IInv
<1>1. IInv /\ [Next]_vars => IInv'
  <2> SUFFICES ASSUME IInv, [Next]_vars PROVE IInv'
    OBVIOUS
  <2>1. CASE UNCHANGED vars
    BY <2>1 DEF vars, IInv, TypeOK, StartedOnce, EventOnce, AckedIsDurable, ReachedFromVisited,
                LegalHistory, CallOK, FreshOK, OneCall, HasEvent, Starting
  <2>2. ASSUME NEW e \in Engine, Step(e) PROVE IInv'
    <3>1. ASSUME NEW phase \in InitialPhase, NEW at \in Epoch, CallStart(e, phase, at)
          PROVE  IInv'
      <4>1. [id |-> StartId, to |-> phase, at |-> at] \in Event
        BY DEF Event, InitialPhase, Phase, Normal
      <4> QED BY <3>1, <4>1, CallStep DEF CallStart, InitialPhase
    <3>2. ASSUME NEW id \in EventId, NEW phase \in Requested, NEW at \in Epoch,
                 CallTransition(e, id, phase, at)
          PROVE  IInv'
      <4>1. [id |-> id, to |-> phase, at |-> at] \in Event /\ id # StartId
        BY RequestedAssumption, EventIdAssumption DEF Event
      <4> QED BY <3>2, <4>1, CallStep DEF CallTransition
    <3>3. CASE ReadStart(e)
      <4>1. CASE journal = <<>>
        BY <3>3, <4>1, GotoStep DEF ReadStart
      <4>2. CASE journal # <<>> /\ journal[1].to = call[e].to
        <5>1. 1 \in 1..Len(journal)
          BY <4>2 DEF IInv, TypeOK
        <5>2. HasEvent(call[e].id, call[e].to)
          BY <3>3, <4>2, <5>1 DEF ReadStart, IInv, StartedOnce, Starting, HasEvent
        <5> QED BY <3>3, <4>2, <5>2, GotoStep DEF ReadStart
      <4>3. CASE journal # <<>> /\ journal[1].to # call[e].to
        BY <3>3, <4>3, FinishStep DEF ReadStart
      <4> QED BY <4>1, <4>2, <4>3
    <3>4. CASE ReadTransition(e)
      BY <3>4, FinishStep, GotoStep DEF ReadTransition
    <3>5. CASE CheckTransition(e)
      <4>1. ~Starting(e) /\ journal # <<>>
        BY <3>5 DEF CheckTransition, IInv, CallOK
      <4> QED BY <3>5, <4>1, FinishStep, GotoStep DEF CheckTransition
    <3>6. CASE AppendEvent(e)
      BY <3>6, AppendStep
    <3>7. CASE ReadReply(e)
      BY <3>7, ReplyStep DEF ReadReply, IInv, CallOK
    <3>8. CASE Crash(e)
      BY <3>8, FinishStep DEF Crash
    <3> QED BY <2>2, <3>1, <3>2, <3>3, <3>4, <3>5, <3>6, <3>7, <3>8 DEF Step
  <2> QED BY <2>1, <2>2 DEF Next
<1> QED BY <1>1, InitIInv, PTL DEF Spec

(* Only events of the engine's own making are ever journaled or acknowledged. *)
THEOREM TypeCorrect == Spec => []TypeOK
<1>1. IInv => TypeOK
  BY DEF IInv
<1> QED BY <1>1, Inductive, PTL

(* However starts race, the journal begins with the one start event, and no *)
(* event is journaled twice, whatever is retried or delivered twice.        *)
THEOREM Once == Spec => []EventsOnce
<1>1. IInv => EventsOnce
  BY DEF IInv, EventsOnce
<1> QED BY <1>1, Inductive, PTL

(* What a call acknowledged stays in the journal.                           *)
THEOREM Durable == Spec => []AckedIsDurable
<1>1. IInv => AckedIsDurable
  BY DEF IInv
<1> QED BY <1>1, Inductive, PTL

(* Racing engines journal transitions from phases the workflow was in only; *)
(* without overlapping calls the journal is a path of the state machine.    *)
THEOREM Legality == Spec => []HistoryLegal
<1>1. IInv => HistoryLegal
  BY DEF IInv, HistoryLegal
<1> QED BY <1>1, Inductive, PTL
=============================================================================
