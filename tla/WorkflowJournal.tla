--------------------------- MODULE WorkflowJournal ---------------------------
(***************************************************************************)
(* One Night Shift workflow: LocalJournalWorkflowEngine                     *)
(* (core/night_shift/engine.py) over the event table of DurableEventJournal *)
(* (core/night_shift/journal.py), with the phases of state_machine.py.      *)
(*                                                                         *)
(* Any number of engines may open the journal's SQLite file.  append_event  *)
(* is one transaction and one action; start and transition read the journal *)
(* before it and after it, in transactions of their own.  Hashes and the    *)
(* other tables of the file are left out.                                   *)
(***************************************************************************)
EXTENDS Naturals, Sequences

CONSTANTS
    Engine,      \* processes with an engine on this journal
    EventId,     \* event ids callers give to transitions
    Requested,   \* the phases callers ask for
    Epoch,       \* created_at_epoch values
    MaxEvents,   \* bound: events in the journal
    Nil          \* no call

Normal == [
    DISCOVERED          |-> {"LIVE_STATE_VERIFIED"},
    LIVE_STATE_VERIFIED |-> {"READY"},
    READY               |-> {"LEASED"},
    LEASED              |-> {"RUNNING"},
    RUNNING             |-> {"VALIDATING"},
    VALIDATING          |-> {"FROZEN"},
    FROZEN              |-> {"READY_FOR_REVIEW"},
    READY_FOR_REVIEW    |-> {"REVIEWED_PASS"},
    REVIEWED_PASS       |-> {"SIGNED_OR_ATTESTED"},
    SIGNED_OR_ATTESTED  |-> {"CI_PENDING"},
    CI_PENDING          |-> {"READY_FOR_PROMOTION"},
    READY_FOR_PROMOTION |-> {"READY_FOR_HUMAN", "LANDING"},
    READY_FOR_HUMAN     |-> {"LANDING"},
    LANDING             |-> {"POST_LANDING_VERIFY"},
    POST_LANDING_VERIFY |-> {"CLOSED_PASS"}]

Control == {"WAITING_EXTERNAL", "BLOCKED", "BLOCKED_BY", "FAILED", "QUARANTINED",
            "SUPERSEDED", "PAUSED"}
Recoverable == {"WAITING_EXTERNAL", "BLOCKED", "BLOCKED_BY", "PAUSED"}
Terminal == {"CLOSED_PASS", "FAILED", "QUARANTINED", "SUPERSEDED"}

(* Mutant of InitialPhase: start does not parse the phase it is given. *)
UnparsedPhase == {"DISCOVERED", "READY", "discovered"}

InitialPhase == {"DISCOVERED", "READY"}

Phase == DOMAIN Normal \cup Control \cup {"CLOSED_PASS"}

(* require_transition lets the phase change. *)
Allowed(from, to) ==
    /\ from \notin Terminal
    /\ \/ from \in DOMAIN Normal /\ to \in Normal[from]
       \/ from \in Recoverable /\ to = "READY"
       \/ from \notin Control /\ to \in Control

ASSUME RequestedAssumption == Requested \subseteq Phase
ASSUME BoundAssumption == MaxEvents \in Nat

(* start derives its event id from the workflow id. *)
StartId == "start"
ASSUME EventIdAssumption == StartId \notin EventId

Event == [id : EventId \cup {StartId}, to : Phase, at : Epoch]

ASSUME NilAssumption == Nil \notin Event

VARIABLES
    journal,    \* the events of this workflow, in order
    exclusive,  \* callers hold a lease: one start or transition runs at a time
    pc,         \* pc[e]: the step of engine e's call
    call,       \* call[e]: the event it is to append, or Nil
    acked       \* the event id and phase of the calls that returned without raising

vars == <<journal, exclusive, pc, call, acked>>

TypeOK ==
    /\ journal \in Seq(Event)
    /\ exclusive \in BOOLEAN
    /\ pc \in [Engine -> {"idle", "read", "check", "append", "reply"}]
    /\ call \in [Engine -> Event \cup {Nil}]
    /\ acked \subseteq [id : EventId \cup {StartId}, to : Phase]

Init ==
    /\ journal = <<>>
    /\ exclusive \in BOOLEAN
    /\ pc = [e \in Engine |-> "idle"]
    /\ call = [e \in Engine |-> Nil]
    /\ acked = {}

-----------------------------------------------------------------------------
(* replay_state over the first n events. *)
PhaseAt(s, n) == IF n = 0 THEN "DISCOVERED" ELSE s[n].to

(* Mutant of CurrentPhase: replay stops at the first event. *)
FirstPhase == PhaseAt(journal, IF journal = <<>> THEN 0 ELSE 1)

CurrentPhase == PhaseAt(journal, Len(journal))

Goto(e, step) ==
    /\ pc' = [pc EXCEPT ![e] = step]
    /\ UNCHANGED call

(* The call returns, raises or dies. *)
Finish(e) ==
    /\ pc' = [pc EXCEPT ![e] = "idle"]
    /\ call' = [call EXCEPT ![e] = Nil]

Reply(e) ==
    /\ acked' = acked \cup {[id |-> call[e].id, to |-> call[e].to]}
    /\ Finish(e)

Call(e, event) ==
    /\ pc[e] = "idle"
    /\ exclusive => \A f \in Engine : pc[f] = "idle"
    /\ pc' = [pc EXCEPT ![e] = "read"]
    /\ call' = [call EXCEPT ![e] = event]
    /\ UNCHANGED <<journal, exclusive, acked>>

CallStart(e, phase, at) ==
    /\ phase \in InitialPhase
    /\ Call(e, [id |-> StartId, to |-> phase, at |-> at])

CallTransition(e, id, phase, at) == Call(e, [id |-> id, to |-> phase, at |-> at])

Starting(e) == call[e].id = StartId

(* start's first read: a workflow that exists must have begun in the same   *)
(* phase.                                                                   *)
ReadStart(e) ==
    /\ pc[e] = "read" /\ Starting(e)
    /\ CASE journal = <<>>                 -> Goto(e, "append")
         [] journal # <<>> /\ journal[1].to = call[e].to -> Goto(e, "reply")
         [] OTHER                          -> Finish(e)
    /\ UNCHANGED <<journal, exclusive, acked>>

(* Mutant of ReadTransition: transition does not ask whether there is a start. *)
ReadUnstarted(e) ==
    /\ pc[e] = "read" /\ ~Starting(e)
    /\ Goto(e, "check")
    /\ UNCHANGED <<journal, exclusive, acked>>

(* transition's first read: the workflow must have been started. *)
ReadTransition(e) ==
    /\ pc[e] = "read" /\ ~Starting(e)
    /\ IF journal = <<>> THEN Finish(e) ELSE Goto(e, "check")
    /\ UNCHANGED <<journal, exclusive, acked>>

(* Mutant of CheckTransition: require_transition is not called. *)
CheckNothing(e) ==
    /\ pc[e] = "check"
    /\ Goto(e, "append")
    /\ UNCHANGED <<journal, exclusive, acked>>

(* transition's second read, replayed to the phase it decides on. *)
CheckTransition(e) ==
    /\ pc[e] = "check"
    /\ IF Allowed(CurrentPhase, call[e].to) THEN Goto(e, "append") ELSE Finish(e)
    /\ UNCHANGED <<journal, exclusive, acked>>

(* Mutant of Recorded: the id is not looked up before the INSERT. *)
NothingRecorded(event) == event \in {}

(* append_event finds the id in the table. *)
Recorded(event) == \E n \in 1..Len(journal) : journal[n].id = event.id

(* Mutant of SameContent: a reused id passes for a duplicate. *)
SameId(event) == \E n \in 1..Len(journal) : journal[n].id = event.id

(* ... and with the very same content: an exact duplicate is no error. *)
SameContent(event) == \E n \in 1..Len(journal) : journal[n] = event

(* append_event compares no phase: nothing ties it to the reads before it.  *)
(* start returns without another read.                                      *)
AppendEvent(e) ==
    /\ pc[e] = "append"
    /\ UNCHANGED exclusive
    /\ \/ /\ ~Recorded(call[e])
          /\ Len(journal) < MaxEvents
          /\ journal' = Append(journal, call[e])
          /\ IF Starting(e) THEN Reply(e) ELSE Goto(e, "reply") /\ UNCHANGED acked
       \/ /\ Recorded(call[e])
          /\ SameContent(call[e])
          /\ IF Starting(e) THEN Reply(e) ELSE Goto(e, "reply") /\ UNCHANGED acked
          /\ UNCHANGED journal
       \/ /\ Recorded(call[e])
          /\ ~SameContent(call[e])
          /\ Finish(e)
          /\ UNCHANGED <<journal, acked>>

(* The last read, whose phase the call returns. *)
ReadReply(e) ==
    /\ pc[e] = "reply"
    /\ Reply(e)
    /\ UNCHANGED <<journal, exclusive>>

(* The engine's process ends; the journal stays. *)
Crash(e) ==
    /\ pc[e] # "idle"
    /\ Finish(e)
    /\ UNCHANGED <<journal, exclusive, acked>>

Step(e) ==
    \/ \E phase \in InitialPhase, at \in Epoch : CallStart(e, phase, at)
    \/ \E id \in EventId, phase \in Requested, at \in Epoch : CallTransition(e, id, phase, at)
    \/ ReadStart(e) \/ ReadTransition(e) \/ CheckTransition(e)
    \/ AppendEvent(e) \/ ReadReply(e) \/ Crash(e)

Next == \E e \in Engine : Step(e)

Spec == Init /\ [][Next]_vars
-----------------------------------------------------------------------------
(* However starts and transitions of several engines race, the journal      *)
(* begins with the one start event, in a phase a workflow may begin in.     *)
StartedOnce ==
    \A n \in 1..Len(journal) :
        /\ journal[n].id = StartId <=> n = 1
        /\ n = 1 => journal[n].to \in {"DISCOVERED", "READY"}

(* Retries after a crash and duplicate deliveries never journal an event    *)
(* twice.                                                                   *)
EventOnce ==
    \A m, n \in 1..Len(journal) : journal[m].id = journal[n].id => m = n

(* The two together: every event of the workflow is recorded at most once,  *)
(* whoever records, retries or delivers it.                                 *)
EventsOnce == StartedOnce /\ EventOnce

(* A call that returned has its event in the journal with the phase it      *)
(* asked for: its retry under the same id can be an exact duplicate only.   *)
AckedIsDurable ==
    \A r \in acked : \E n \in 1..Len(journal) : journal[n].id = r.id /\ journal[n].to = r.to

(* Every transition in the journal was legal from a phase the workflow had  *)
(* been in before: all that racing engines guarantee.                       *)
ReachedFromVisited ==
    \A n \in 2..Len(journal) : \E m \in 1..(n - 1) : Allowed(journal[m].to, journal[n].to)

(* When calls do not overlap, crashes and retries included, the journal is  *)
(* a path of the state machine.                                             *)
LegalHistory ==
    exclusive => \A n \in 2..Len(journal) : Allowed(journal[n - 1].to, journal[n].to)

(* The journal is as legal as the callers let it be: with overlapping calls *)
(* and without.                                                             *)
HistoryLegal == ReachedFromVisited /\ LegalHistory

(* state_machine.py, require_transition: "terminal workflow phase cannot    *)
(* transition".                                                             *)
TerminalIsFinal ==
    \A n \in 1..Len(journal) : journal[n].to \in Terminal => n = Len(journal)
=============================================================================
