------------------------------- MODULE CaseLog -------------------------------
(***************************************************************************)
(* What the canonical case ledger promises (core/case_ledger/ledger.py,      *)
(* docs/CANONICAL_CASE_LEDGER_V1.md): the history of a case only ever grows, *)
(* by one event at its end or by one bundle while it is empty, never         *)
(* beyond its limit, and what a caller was told stays a prefix of it.        *)
(***************************************************************************)
EXTENDS Naturals, Sequences

CONSTANTS
    Body,    \* contents of events
    Limit    \* max_events

VARIABLES
    log,     \* the history: the contents of its events in order
    acked    \* the histories callers were told their call had written

logvars == <<log, acked>>

Init == log = <<>> /\ acked = {}

AppendEvent ==
    /\ Len(log) < Limit
    /\ log' \in Seq(Body)
    /\ Len(log') = Len(log) + 1
    /\ SubSeq(log', 1, Len(log)) = log
    /\ UNCHANGED acked

RestoreBundle ==
    /\ log = <<>>
    /\ log' \in Seq(Body)
    /\ Len(log') <= Limit
    /\ UNCHANGED acked

(* The call that wrote the first n events returns.                          *)
Acknowledge(n) ==
    /\ acked' = acked \cup {SubSeq(log, 1, n)}
    /\ UNCHANGED log

Next ==
    \/ AppendEvent
    \/ RestoreBundle
    \/ \E n \in 0..Len(log) : Acknowledge(n)

Spec == Init /\ [][Next]_logvars
=============================================================================
