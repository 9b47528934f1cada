-------------------------- MODULE CaseLedger_proofs --------------------------
(***************************************************************************)
(* Proofs about CaseLedger, for any number of processes, any limit and any   *)
(* bundles: the stream of a case always decodes, its end is its whole        *)
(* history, and that history evolves as CaseLog says.                       *)
(*                                                                         *)
(* The inductive invariant ties each call to the store it read: between the  *)
(* snapshot and the write, its event extends the snapshot's end (CallsOK),   *)
(* so the head the transaction compares is all the write rests on; after     *)
(* the write, its event stays a prefix of the history.                      *)
(***************************************************************************)
EXTENDS CaseLedger, SequenceTheorems, WellFoundedInduction, TLAPS

Prefix(e, h) == Len(e) <= Len(h) /\ SubSeq(h, 1, Len(e)) = e

(* What an idle call left behind, and what a call under way has prepared.   *)
CallOK(c) ==
    /\ c.pc # "idle" => c.reply = "none"
    /\ c.pc \in {"snapshot", "write"} => ~c.wrote
    /\ c.reply = "refused" => ~c.wrote
    /\ c.pc # "idle" /\ c.restore => Len(c.todo) <= Limit
    /\ c.pc \in {"write", "verify"} /\ ~c.restore =>
          /\ Decodes(c.snap) /\ Len(c.snap) < Limit
          /\ c.event = Append(End(c.snap), Head(c.todo))
    /\ c.pc = "write" /\ c.restore => c.snap = <<>> /\ c.event = c.todo
    /\ c.pc = "verify" \/ c.reply = "doubt" => Prefix(c.event, End(stream))

CallsOK == \A p \in Process : CallOK(call[p])

IInv == TypeOK /\ Decodable /\ CallsOK

-----------------------------------------------------------------------------
LEMMA PrefixSelf ==
    ASSUME NEW h \in History
    PROVE  Prefix(h, h)
BY SubSeqFull, LenProperties DEF Prefix, History

LEMMA PrefixAppend ==
    ASSUME NEW e \in History, NEW h \in History, NEW b \in Body, Prefix(e, h)
    PROVE  Prefix(e, Append(h, b))
<1>1. Append(h, b) = h \o <<b>> /\ Len(Append(h, b)) = Len(h) + 1
  BY AppendIsConcat, AppendProperties DEF History
<1>2. Len(e) \in Nat /\ Len(h) \in Nat /\ Len(e) <= Len(h)
  BY LenProperties DEF History, Prefix
<1>3. CASE Len(e) = 0
  <2>1. SubSeq(Append(h, b), 1, 0) = <<>> /\ SubSeq(h, 1, 0) = <<>>
    BY SubSeqEmpty
  <2> QED BY <1>1, <1>2, <1>3, <2>1 DEF Prefix
<1>4. CASE Len(e) # 0
  <2>1. <<b>> \in Seq(Body) /\ Len(e) \in 1..Len(h) /\ 1 \in 1..Len(h)
    BY <1>2, <1>4
  <2>2. SubSeq(h \o <<b>>, 1, Len(e)) = SubSeq(h, 1, Len(e))
    BY <2>1, SubSeqOfConcat1 DEF History
  <2> QED BY <1>1, <1>2, <2>2 DEF Prefix
<1> QED BY <1>3, <1>4

(* The end of a stream that decodes is a history as long as the stream.     *)
LEMMA EndOf ==
    ASSUME NEW s \in Seq(History), Decodes(s)
    PROVE  /\ End(s) \in History
           /\ Len(End(s)) = Len(s)
           /\ End(s) = <<>> <=> s = <<>>
<1>1. CASE s = <<>>
  BY <1>1, EmptySeq DEF End, History
<1>2. CASE s # <<>>
  <2>1. Len(s) \in 1..Len(s)
    BY <1>2, EmptySeq
  <2>2. s[Len(s)] \in History /\ Len(s[Len(s)]) = Len(s)
    BY <2>1, ElementOfSeq DEF Decodes
  <2>3. s[Len(s)] # <<>>
    BY <2>1, <2>2, EmptySeq
  <2> QED BY <1>2, <2>2, <2>3 DEF End
<1> QED BY <1>1, <1>2

(* A stream that decodes still does when its end's successor is appended.   *)
LEMMA AppendDecodes ==
    ASSUME NEW s \in Seq(History), Decodes(s), Len(s) < Limit, NEW b \in Body
    PROVE  /\ s \o <<Append(End(s), b)>> \in Seq(History)
           /\ Decodes(s \o <<Append(End(s), b)>>)
           /\ End(s \o <<Append(End(s), b)>>) = Append(End(s), b)
<1> DEFINE e == Append(End(s), b)
           u == s \o <<e>>
<1>1. End(s) \in History /\ Len(End(s)) = Len(s) /\ Len(s) \in Nat
  BY EndOf, LenProperties
<1>2. e \in History /\ Len(e) = Len(s) + 1
  BY <1>1, AppendProperties DEF History
<1>3. SubSeq(e, 1, Len(s)) = End(s)
  BY <1>1, PrefixSelf, PrefixAppend DEF Prefix
<1> HIDE DEF e
<1>4. /\ u \in Seq(History) /\ Len(u) = Len(s) + 1
      /\ \A i \in 1..Len(s) + 1 : u[i] = IF i <= Len(s) THEN s[i] ELSE e
  <2>1. <<e>> \in Seq(History) /\ Len(<<e>>) = 1 /\ <<e>>[1] = e
    BY <1>2
  <2>2. \A i \in 1..Len(s) + 1 : u[i] = IF i <= Len(s) THEN s[i] ELSE <<e>>[i - Len(s)]
    BY <2>1, ConcatProperties
  <2>3. \A i \in 1..Len(s) + 1 : i > Len(s) => i - Len(s) = 1
    BY <1>1
  <2>4. u \in Seq(History) /\ Len(u) = Len(s) + 1
    BY <2>1, ConcatProperties
  <2> QED BY <2>1, <2>2, <2>3, <2>4
<1> HIDE DEF u
<1>5. End(u) = e
  BY <1>1, <1>4, EmptySeq DEF End
<1>6. ASSUME NEW i \in 1..Len(u)
      PROVE  Len(u[i]) = i /\ SubSeq(u[i], 1, i - 1) = (IF i = 1 THEN <<>> ELSE u[i - 1])
  <2>1. CASE i <= Len(s)
    <3>1. i \in 1..Len(s) /\ u[i] = s[i] /\ (i # 1 => u[i - 1] = s[i - 1])
      BY <2>1, <1>1, <1>4
    <3> QED BY <3>1 DEF Decodes
  <2>2. CASE i = Len(s) + 1 /\ i = 1
    <3>1. SubSeq(u[i], 1, 0) = <<>>
      BY SubSeqEmpty
    <3> QED BY <2>2, <3>1, <1>1, <1>2, <1>4
  <2>3. CASE i = Len(s) + 1 /\ i # 1
    <3>1. u[i] = e /\ u[i - 1] = s[Len(s)] /\ s # <<>>
      BY <2>3, <1>1, <1>4, EmptySeq
    <3> QED BY <3>1, <2>3, <1>1, <1>2, <1>3 DEF End
  <2> QED BY <2>1, <2>2, <2>3, <1>1, <1>4
<1>7. Decodes(u)
  BY <1>1, <1>4, <1>6, LimitAssumption DEF Decodes
<1> QED BY <1>4, <1>5, <1>7 DEF u, e

(* The records of a bundle decode, and end in the bundle.                   *)
LEMMA EventsDecode ==
    ASSUME NEW h \in History, Len(h) <= Limit
    PROVE  /\ Events(h) \in Seq(History)
           /\ Decodes(Events(h))
           /\ End(Events(h)) = h
<1> DEFINE u == Events(h)
<1>1. Len(h) \in Nat
  BY LenProperties DEF History
<1>2. ASSUME NEW i \in 1..Len(h)
      PROVE  SubSeq(h, 1, i) \in History /\ Len(SubSeq(h, 1, i)) = i
  <2>1. \A j \in 1..i : h[j] \in Body
    BY <1>1, ElementOfSeq DEF History
  <2> QED BY <2>1, SubSeqProperties DEF History
<1>3. u \in Seq(History) /\ Len(u) = Len(h) /\ \A i \in 1..Len(h) : u[i] = SubSeq(h, 1, i)
  BY <1>1, <1>2 DEF Events
<1> HIDE DEF u
<1>4. ASSUME NEW i \in 1..Len(u)
      PROVE  Len(u[i]) = i /\ SubSeq(u[i], 1, i - 1) = (IF i = 1 THEN <<>> ELSE u[i - 1])
  <2>1. CASE i = 1
    <3>1. SubSeq(u[i], 1, 0) = <<>>
      BY SubSeqEmpty
    <3>2. Len(u[i]) = i
      BY <1>2, <1>3
    <3> QED BY <2>1, <3>1, <3>2
  <2>2. CASE i # 1
    <3>1. i \in 1..Len(h) /\ 1 \in 1..Len(h) /\ 1 \in 1..(i - 1 + 1) /\ i - 1 \in 1..(i - 1 + 1)
      BY <2>2, <1>1, <1>3
    <3>2. SubSeq(SubSeq(h, 1, i), 1, i - 1) = SubSeq(h, 1, i - 1)
      BY <3>1, SubSeqOfSubSeq DEF History
    <3>3. i - 1 \in 1..Len(h)
      BY <3>1, <2>2
    <3> QED BY <2>2, <3>1, <3>2, <3>3, <1>2, <1>3
  <2> QED BY <2>1, <2>2
<1>5. Decodes(u)
  BY <1>3, <1>4 DEF Decodes
<1>6. End(u) = h
  <2>1. CASE h = <<>>
    BY <2>1, <1>3, EmptySeq DEF End, History
  <2>2. CASE h # <<>>
    <3>1. Len(h) \in 1..Len(h) /\ u # <<>>
      BY <2>2, <1>3, EmptySeq DEF History
    <3> QED BY <3>1, <1>3, SubSeqFull DEF End, History
  <2> QED BY <2>1, <2>2
<1> QED BY <1>3, <1>5, <1>6 DEF u

(* A set of naturals that is bounded has a largest element.                 *)
LEMMA LargestOf ==
    ASSUME NEW n \in Nat, NEW I \in SUBSET (1..n), I # {}
    PROVE  \E i \in I : \A j \in I : j <= i
<1> DEFINE D == {n - i : i \in I}
<1>1. D \subseteq Nat /\ D # {}
  <2>1. \A i \in I : n - i \in Nat
    OBVIOUS
  <2>2. PICK i \in I : TRUE
    OBVIOUS
  <2>3. n - i \in D
    OBVIOUS
  <2> QED BY <2>1, <2>3
<1>2. PICK d \in D : \A e \in D : ~(<<e, d>> \in OpToRel(<, Nat))
  BY <1>1, WFMin, NatLessThanWellFounded
<1>3. \A e \in D : ~(e < d)
  BY <1>1, <1>2 DEF OpToRel
<1>4. PICK i \in I : d = n - i
  BY <1>2
<1>5. ASSUME NEW j \in I PROVE j <= i
  <2>1. ~(n - j < n - i)
    BY <1>3, <1>4
  <2> QED BY <2>1
<1> QED BY <1>5

LEMMA LastOfOK ==
    ASSUME NEW h \in History, NEW types
    PROVE  /\ LastOf(h, types) \in 0..Len(h)
           /\ LastOf(h, types) # 0 => h[LastOf(h, types)].type \in types
<1> DEFINE I == {i \in 1..Len(h) : h[i].type \in types}
<1>1. Len(h) \in Nat
  BY LenProperties DEF History
<1>2. CASE I = {}
  BY <1>1, <1>2 DEF LastOf
<1>3. CASE I # {}
  <2>1. \E i \in I : \A j \in I : j <= i
    BY <1>1, <1>3, LargestOf
  <2>2. LastOf(h, types) \in I
    BY <1>3, <2>1 DEF LastOf
  <2> QED BY <2>2, <1>1
<1> QED BY <1>2, <1>3

LEMMA CaseOfOK ==
    ASSUME NEW h \in History
    PROVE  CaseOf(h) \in CaseState
<1> DEFINE s == LastOf(h, {"filed", "closed", "reopened"})
           e == LastOf(h, {"closed", "reopened"})
<1>1. /\ s \in 0..Len(h) /\ (s # 0 => h[s].type \in {"filed", "closed", "reopened"})
      /\ e \in 0..Len(h)
  BY LastOfOK
<1>2. e # 0 => h[e].epoch \in Nat
  <2>1. e # 0 => e \in 1..Len(h)
    BY <1>1, LenProperties DEF History
  <2>2. e # 0 => h[e] \in Body
    BY <2>1, ElementOfSeq DEF History
  <2> QED BY <2>2 DEF Body
<1> HIDE DEF s, e
<1>3. (IF s = 0 THEN "NEW"
       ELSE CASE h[s].type = "filed" -> "FILED"
              [] h[s].type = "closed" -> "CLOSED"
              [] h[s].type = "reopened" -> "ANALYSIS") \in {"NEW", "FILED", "CLOSED", "ANALYSIS"}
  BY <1>1
<1>4. (IF e = 0 THEN 0 ELSE h[e].epoch) \in Nat
  BY <1>2
<1> QED BY <1>3, <1>4 DEF CaseOf, CaseState, s, e

-----------------------------------------------------------------------------
LEMMA InitIInv == Init => IInv
<1> SUFFICES ASSUME Init PROVE IInv
  OBVIOUS
<1>1. NoCall \in Call /\ NewCase \in CaseState /\ <<>> \in History
  BY DEF NoCall, Call, History, NewCase, CaseState
<1>2. TypeOK
  BY <1>1, LimitAssumption DEF Init, TypeOK, NoCall, NewCase
<1>3. Decodable
  BY LimitAssumption DEF Init, Decodable, Decodes
<1>4. CallsOK
  BY DEF Init, CallsOK, CallOK, NoCall
<1> QED BY <1>2, <1>3, <1>4 DEF IInv

(* A step that reads, or only changes what a process knows.                 *)
LEMMA QuietStep ==
    ASSUME IInv, NEW p \in Process, NEW c \in Call,
           call' = [call EXCEPT ![p] = c], stream' = stream,
           CallOK(c),
           c.pc \in {"snapshot", "write", "verify"} /\ ~c.restore => c.todo # <<>>,
           view' \in [Process -> History], case' \in [Process -> CaseState],
           decided' \in [Process -> [position : Nat, epoch : Nat]],
           acked' \subseteq History
    PROVE  IInv'
<1>1. /\ call' \in [Process -> Call] /\ call'[p] = c
      /\ \A q \in Process : q # p => call'[q] = call[q]
  BY DEF IInv, TypeOK
<1>2. TypeOK'
  BY <1>1 DEF IInv, TypeOK
<1>3. Decodable'
  BY DEF IInv, Decodable
<1>4. CallsOK'
  <2>1. ASSUME NEW q \in Process PROVE CallOK(call'[q])
    BY <1>1 DEF IInv, CallsOK
  <2> QED BY <2>1 DEF CallsOK, CallOK
<1> QED BY <1>2, <1>3, <1>4 DEF IInv

LEMMA NoCallOK == NoCall \in Call /\ NoCall.pc = "idle" /\ CallOK(NoCall)
<1>1. <<>> \in History /\ <<>> \in Seq(History)
  BY EmptySeq DEF History
<1> QED BY <1>1 DEF NoCall, Call, CallOK

(* What a process knows, with no call begun. *)
LEMMA KnowStep ==
    ASSUME IInv, NEW p \in Process, call' = call, stream' = stream,
           view' \in [Process -> History], case' \in [Process -> CaseState],
           decided' \in [Process -> [position : Nat, epoch : Nat]], acked' = acked
    PROVE  IInv'
<1>1. call' = [call EXCEPT ![p] = call[p]] /\ call[p] \in Call
  BY DEF IInv, TypeOK
<1>2. /\ CallOK(call[p])
      /\ call[p].pc \in {"snapshot", "write", "verify"} /\ ~call[p].restore
            => call[p].todo # <<>>
      /\ acked' \subseteq History
  BY DEF IInv, TypeOK, CallsOK
<1> QED BY <1>1, <1>2, QuietStep

LEMMA ReadStep ==
    ASSUME IInv, NEW p \in Process, Read(p) \/ Decide(p)
    PROVE  IInv'
<1>1. CASE Read(p)
  <2>1. End(stream) \in History
    BY <1>1, EndOf DEF Read, IInv, TypeOK
  <2>2. view' \in [Process -> History] /\ case' \in [Process -> CaseState]
    BY <1>1, <2>1, CaseOfOK DEF Read, IInv, TypeOK
  <2> QED BY <1>1, <2>2, KnowStep DEF Read, IInv, TypeOK
<1>2. CASE Decide(p)
  <2>1. Len(view[p]) \in Nat /\ case[p].epoch \in Nat
    BY LenProperties DEF IInv, TypeOK, History, CaseState
  <2>2. decided' \in [Process -> [position : Nat, epoch : Nat]]
    BY <1>2, <2>1 DEF Decide, IInv, TypeOK
  <2> QED BY <1>2, <2>2, KnowStep DEF Decide, IInv, TypeOK
<1> QED BY <1>1, <1>2

LEMMA BeginStep ==
    ASSUME IInv, NEW p \in Process, NEW todo \in History, todo # <<>>, Begin(p, todo)
    PROVE  IInv'
<1> DEFINE c == [NoCall EXCEPT !.pc = "snapshot", !.todo = todo, !.expected = view[p]]
<1>1. view[p] \in History
  BY DEF IInv, TypeOK
<1>2. /\ c \in Call /\ c.pc = "snapshot" /\ c.todo = todo /\ c.reply = "none"
      /\ ~c.wrote /\ ~c.restore
  <2>1. <<>> \in History /\ <<>> \in Seq(History)
    BY EmptySeq DEF History
  <2> QED BY <1>1, <2>1 DEF NoCall, Call
<1>3. call' = [call EXCEPT ![p] = c]
  BY DEF Begin
<1> HIDE DEF c
<1>4. CallOK(c)
  BY <1>2 DEF CallOK
<1> QED BY <1>2, <1>3, <1>4, QuietStep DEF Begin, IInv, TypeOK

LEMMA RestoreBegins ==
    ASSUME IInv, NEW p \in Process, NEW b \in Bundles, RestoreCase(p, b)
    PROVE  IInv'
<1> DEFINE c == [NoCall EXCEPT !.pc = "snapshot", !.todo = b, !.restore = TRUE]
<1>1. /\ c \in Call /\ c.pc = "snapshot" /\ c.todo = b /\ c.reply = "none"
      /\ ~c.wrote /\ c.restore
  <2>1. <<>> \in History /\ <<>> \in Seq(History) /\ b \in History
    BY EmptySeq, BundleAssumption DEF History
  <2> QED BY <2>1 DEF NoCall, Call
<1>2. call' = [call EXCEPT ![p] = c] /\ Len(b) <= Limit
  BY DEF RestoreCase
<1> HIDE DEF c
<1>3. CallOK(c)
  BY <1>1, <1>2 DEF CallOK
<1> QED BY <1>1, <1>2, <1>3, QuietStep DEF RestoreCase, IInv, TypeOK

(* The events the lifecycle calls begin with. *)
LEMMA ContentOK ==
    ASSUME NEW type \in Type, NEW r \in Nat, NEW e \in Nat
    PROVE  Content(type, r, e) \in Body
BY DEF Content, Body

LEMMA LifecycleStep ==
    ASSUME IInv, NEW p \in Process,
           \/ AppendNote(p) \/ (\E r \in Receipt : FileCase(p, r))
           \/ RecordDelta(p) \/ CloseCase(p) \/ ReopenCase(p)
    PROVE  IInv'
<1>1. decided[p].position \in Nat /\ decided[p].epoch \in Nat
  BY DEF IInv, TypeOK
<1>2. CASE AppendNote(p)
  <2>1. <<Content("note", 0, 0)>> \in History
    BY ContentOK DEF History, Type
  <2> QED BY <1>2, <2>1, BeginStep DEF AppendNote
<1>3. ASSUME NEW r \in Receipt, FileCase(p, r) PROVE IInv'
  <2>1. Content("receipt", r, 0) \in Body /\ Content("filed", r, 0) \in Body
    BY ContentOK, ReceiptAssumption DEF Type
  <2>2. <<Content("receipt", r, 0), Content("filed", r, 0)>> \in History
    BY <2>1 DEF History
  <2> QED BY <1>3, <2>2, BeginStep DEF FileCase
<1>4. CASE RecordDelta(p)
  <2>1. <<Content("delta", decided[p].position, 0)>> \in History
    BY <1>1, ContentOK DEF History, Type
  <2> QED BY <1>4, <2>1, BeginStep DEF RecordDelta
<1>5. CASE CloseCase(p)
  <2>1. <<Content("closed", decided[p].position, decided[p].epoch)>> \in History
    BY <1>1, ContentOK DEF History, Type
  <2> QED BY <1>5, <2>1, BeginStep DEF CloseCase
<1>6. CASE ReopenCase(p)
  <2>1. <<Content("reopened", 0, decided[p].epoch + 1)>> \in History
    BY <1>1, ContentOK DEF History, Type
  <2> QED BY <1>6, <2>1, BeginStep DEF ReopenCase
<1> QED BY <1>2, <1>3, <1>4, <1>5, <1>6

(* A call that is over. *)
LEMMA FinishStep ==
    ASSUME IInv, NEW p \in Process, NEW reply \in {"ok", "refused", "doubt"},
           call[p].pc # "idle", Finish(p, reply), stream' = stream,
           reply = "refused" => call[p].pc \in {"snapshot", "write"},
           reply = "doubt" => call[p].pc = "verify",
           view' \in [Process -> History], case' \in [Process -> CaseState],
           decided' = decided, acked' \subseteq History
    PROVE  IInv'
<1> DEFINE w == reply # "ok" /\ call[p].wrote
           e == IF reply = "doubt" THEN call[p].event ELSE <<>>
           c == [NoCall EXCEPT !.reply = reply, !.wrote = w, !.event = e]
<1>1. call[p] \in Call /\ CallOK(call[p])
  BY DEF IInv, TypeOK, CallsOK
<1>2. <<>> \in History /\ <<>> \in Seq(History)
  BY EmptySeq DEF History
<1>3. e \in History /\ w \in BOOLEAN
  BY <1>1, <1>2 DEF Call
<1>4. call' = [call EXCEPT ![p] = c]
  BY DEF Finish
<1>5. /\ reply = "refused" => ~w
      /\ reply = "doubt" => Prefix(e, End(stream))
  BY <1>1 DEF CallOK
<1> HIDE DEF w, e
<1>6. /\ c \in Call /\ c.pc = "idle" /\ c.reply = reply /\ c.wrote = w /\ c.event = e
  BY <1>2, <1>3 DEF NoCall, Call
<1> HIDE DEF c
<1>7. CallOK(c)
  BY <1>5, <1>6 DEF CallOK
<1> QED BY <1>4, <1>6, <1>7, QuietStep DEF IInv, TypeOK

LEMMA FailStep ==
    ASSUME IInv, NEW p \in Process, NEW reply \in {"refused", "doubt"}, Fail(p, reply),
           call[p].pc # "idle",
           reply = "refused" => call[p].pc \in {"snapshot", "write"},
           reply = "doubt" => call[p].pc = "verify"
    PROVE  IInv'
BY FinishStep DEF Fail, IInv, TypeOK

LEMMA CrashStep ==
    ASSUME IInv, NEW p \in Process, Crash(p)
    PROVE  IInv'
<1>1. /\ view' \in [Process -> History] /\ case' \in [Process -> CaseState]
      /\ decided' \in [Process -> [position : Nat, epoch : Nat]]
  <2>1. <<>> \in History /\ NewCase \in CaseState /\ [position |-> 0, epoch |-> 0]
                                                      \in [position : Nat, epoch : Nat]
    BY EmptySeq DEF History, NewCase, CaseState
  <2> QED BY <2>1 DEF Crash, IInv, TypeOK
<1> QED BY <1>1, NoCallOK, QuietStep DEF Crash, IInv, TypeOK

(* The snapshot that fits prepares the event. *)
LEMMA SnapshotFits ==
    ASSUME IInv, NEW p \in Process, call[p].pc = "snapshot", Decodes(stream),
           \/ call[p].restore /\ Restorable
           \/ ~call[p].restore /\ Expected(p) /\ BelowLimit(stream),
           call' = [call EXCEPT ![p] =
                    [@ EXCEPT !.pc = "write", !.snap = stream,
                              !.event = IF call[p].restore THEN call[p].todo
                                        ELSE Append(End(stream), Head(call[p].todo))]],
           UNCHANGED <<stream, view, case, decided, acked>>
    PROVE  IInv'
<1> DEFINE e == IF call[p].restore THEN call[p].todo
                ELSE Append(End(stream), Head(call[p].todo))
           c == [call[p] EXCEPT !.pc = "write", !.snap = stream, !.event = e]
<1>1. /\ call[p] \in Call /\ CallOK(call[p]) /\ stream \in Seq(History)
      /\ ~call[p].restore => call[p].todo # <<>>
  BY DEF IInv, TypeOK, CallsOK
<1>2. call[p].todo \in History /\ call[p].restore \in BOOLEAN
  BY <1>1 DEF Call
<1>3. e \in History
  <2>1. CASE call[p].restore
    BY <2>1, <1>2
  <2>2. CASE ~call[p].restore
    <3>1. Head(call[p].todo) \in Body /\ End(stream) \in History
      BY <2>2, <1>1, <1>2, HeadTailProperties, EndOf DEF History
    <3> QED BY <2>2, <3>1, AppendProperties DEF History
  <2> QED BY <2>1, <2>2
<1>4. /\ call[p].restore => e = call[p].todo /\ stream = <<>>
      /\ ~call[p].restore => e = Append(End(stream), Head(call[p].todo))
                             /\ Len(stream) < Limit
  BY DEF Restorable, BelowLimit
<1>5. call' = [call EXCEPT ![p] = c]
  OBVIOUS
<1> HIDE DEF e
<1>6. /\ c \in Call /\ c.pc = "write" /\ c.snap = stream /\ c.event = e
      /\ c.todo = call[p].todo /\ c.restore = call[p].restore
      /\ c.reply = call[p].reply /\ c.wrote = call[p].wrote
  BY <1>1, <1>3 DEF Call
<1> HIDE DEF c
<1>7. CallOK(c)
  BY <1>1, <1>4, <1>6 DEF CallOK
<1> QED BY <1>1, <1>5, <1>6, <1>7, QuietStep DEF IInv, TypeOK

LEMMA SnapshotStep ==
    ASSUME IInv, NEW p \in Process, Snapshot(p)
    PROVE  IInv'
<1>1. call[p].pc = "snapshot"
  BY DEF Snapshot
<1>2. CASE Fail(p, "refused")
  BY <1>1, <1>2, FailStep
<1>3. CASE ~Fail(p, "refused")
  BY <1>1, <1>3, SnapshotFits DEF Snapshot
<1> QED BY <1>2, <1>3

(* What the write adds to the case's history. *)
LEMMA WriteFacts ==
    ASSUME IInv, NEW p \in Process, call[p].pc = "write", BackendHeadMatches(p),
           stream' = stream \o Records(p)
    PROVE  /\ stream' \in Seq(History) /\ Decodes(stream')
           /\ End(stream') = call[p].event
           /\ End(stream) \in History /\ call[p].event \in History
           /\ \/ /\ ~call[p].restore
                 /\ Len(End(stream)) < Limit
                 /\ call[p].event = Append(End(stream), Head(call[p].todo))
                 /\ Head(call[p].todo) \in Body
              \/ /\ call[p].restore
                 /\ End(stream) = <<>>
                 /\ call[p].event = call[p].todo
                 /\ Len(call[p].todo) <= Limit
<1>1. /\ call[p] \in Call /\ CallOK(call[p]) /\ stream \in Seq(History) /\ Decodes(stream)
      /\ ~call[p].restore => call[p].todo # <<>>
  BY DEF IInv, TypeOK, CallsOK, Decodable
<1>2. call[p].todo \in History /\ call[p].event \in History
  BY <1>1 DEF Call
<1>3. End(stream) \in History /\ Len(End(stream)) = Len(stream)
  BY <1>1, EndOf
<1>4. CASE ~call[p].restore
  <2>1. Head(call[p].todo) \in Body
    BY <1>1, <1>2, <1>4, HeadTailProperties DEF History
  <2>2. Len(stream) < Limit /\ call[p].event = Append(End(stream), Head(call[p].todo))
    BY <1>1, <1>4 DEF CallOK, BackendHeadMatches
  <2>3. stream' = stream \o <<Append(End(stream), Head(call[p].todo))>>
    BY <1>4, <2>2 DEF Records
  <2> QED BY <1>1, <1>2, <1>3, <1>4, <2>1, <2>2, <2>3, AppendDecodes
<1>5. CASE call[p].restore
  <2>1. stream = <<>> /\ call[p].event = call[p].todo /\ Len(call[p].todo) <= Limit
    BY <1>1, <1>5 DEF CallOK, BackendHeadMatches
  <2>2. /\ Events(call[p].todo) \in Seq(History) /\ Decodes(Events(call[p].todo))
        /\ End(Events(call[p].todo)) = call[p].todo
    BY <1>2, <2>1, EventsDecode
  <2>3. stream' = Events(call[p].todo)
    BY <1>5, <2>1, <2>2, ConcatEmptySeq DEF Records
  <2>4. End(stream) = <<>>
    BY <2>1 DEF End
  <2> QED BY <1>2, <1>3, <1>5, <2>1, <2>2, <2>3, <2>4
<1> QED BY <1>4, <1>5

(* Every prefix of the history stays one. *)
LEMMA WriteKeepsPrefix ==
    ASSUME IInv, NEW p \in Process, call[p].pc = "write", BackendHeadMatches(p),
           stream' = stream \o Records(p), NEW e \in History, Prefix(e, End(stream))
    PROVE  Prefix(e, End(stream'))
<1>1. CASE ~call[p].restore
  BY <1>1, WriteFacts, PrefixAppend
<1>2. CASE call[p].restore
  <2>1. End(stream) = <<>> /\ Len(End(stream')) \in Nat
    BY <1>2, WriteFacts, LenProperties DEF History
  <2>2. Len(e) = 0 /\ e = <<>>
    BY <2>1, EmptySeq, LenProperties DEF Prefix, History
  <2>3. SubSeq(End(stream'), 1, 0) = <<>>
    BY SubSeqEmpty
  <2> QED BY <2>1, <2>2, <2>3 DEF Prefix
<1> QED BY <1>1, <1>2

LEMMA WriteGrant ==
    ASSUME IInv, NEW p \in Process, call[p].pc = "write", BackendHeadMatches(p),
           stream' = stream \o Records(p),
           call' = [call EXCEPT ![p] = [@ EXCEPT !.pc = "verify", !.wrote = TRUE]],
           UNCHANGED <<view, case, decided, acked>>
    PROVE  IInv'
<1> DEFINE c == [call[p] EXCEPT !.pc = "verify", !.wrote = TRUE]
<1>1. call[p] \in Call /\ CallOK(call[p]) /\ call[p].event \in History
  BY DEF IInv, TypeOK, CallsOK, Call
<1>2. /\ c \in Call /\ c.pc = "verify" /\ c.snap = call[p].snap /\ c.event = call[p].event
      /\ c.todo = call[p].todo /\ c.restore = call[p].restore
      /\ c.reply = call[p].reply /\ c.reply = "none"
  BY <1>1 DEF Call, CallOK
<1> HIDE DEF c
<1>3. /\ call' \in [Process -> Call] /\ call'[p] = c
      /\ \A q \in Process : q # p => call'[q] = call[q]
  BY <1>2 DEF IInv, TypeOK, c
<1>4. TypeOK'
  <2>1. stream' \in Seq(History) /\ Len(stream') <= Limit
    BY WriteFacts DEF Decodes
  <2> QED BY <1>2, <1>3, <2>1 DEF IInv, TypeOK
<1>5. Decodable'
  BY WriteFacts DEF Decodable
<1>6. CallsOK'
  <2>1. Prefix(c.event, End(stream'))
    BY <1>2, WriteFacts, PrefixSelf
  <2>2. ASSUME NEW q \in Process PROVE CallOK(call[q])'
    <3>1. CASE q = p
      BY <3>1, <1>1, <1>2, <1>3, <2>1 DEF CallOK
    <3>2. CASE q # p
      <4>1. /\ call'[q] = call[q] /\ CallOK(call[q]) /\ call[q].event \in History
        BY <3>2, <1>3 DEF IInv, TypeOK, CallsOK, Call
      <4>2. call[q].pc = "verify" \/ call[q].reply = "doubt"
              => Prefix(call[q].event, End(stream'))
        BY <4>1, WriteKeepsPrefix DEF CallOK
      <4> QED BY <4>1, <4>2 DEF CallOK
    <3> QED BY <3>1, <3>2
  <2> QED BY <2>2 DEF CallsOK
<1> QED BY <1>4, <1>5, <1>6 DEF IInv

LEMMA WriteStep ==
    ASSUME IInv, NEW p \in Process, Write(p) \/ Busy(p)
    PROVE  IInv'
<1>1. call[p].pc = "write"
  BY DEF Write, Busy
<1>2. CASE Fail(p, "refused")
  BY <1>1, <1>2, FailStep
<1>3. CASE ~Fail(p, "refused")
  BY <1>1, <1>3, WriteGrant DEF Write, Busy
<1> QED BY <1>2, <1>3

LEMMA TailOK ==
    ASSUME NEW h \in History, h # <<>>
    PROVE  /\ Head(h) \in Body /\ Tail(h) \in History
           /\ Len(h) > 1 => Tail(h) # <<>>
<1>1. Head(h) \in Body /\ Tail(h) \in History /\ Len(h) \in Nat
  BY HeadTailProperties, LenProperties DEF History
<1>2. Len(Tail(h)) = Len(h) - 1
  BY HeadTailProperties DEF History
<1>3. Tail(h) = <<>> => Len(Tail(h)) = 0
  BY EmptySeq
<1> QED BY <1>1, <1>2, <1>3

LEMMA VerifyAppendStep ==
    ASSUME IInv, NEW p \in Process, VerifyAppend(p)
    PROVE  IInv'
<1>1. /\ call[p].pc = "verify" /\ ~call[p].restore
      /\ UNCHANGED <<stream, decided>>
      /\ acked' = acked \cup {call[p].event}
  BY DEF VerifyAppend
<1>2. /\ call[p] \in Call /\ CallOK(call[p]) /\ call[p].todo # <<>>
  BY <1>1 DEF IInv, TypeOK, CallsOK
<1>3. call[p].event \in History /\ call[p].todo \in History /\ call[p].reply = "none"
  BY <1>1, <1>2 DEF Call, CallOK
<1>4. /\ Head(call[p].todo) \in Body /\ Tail(call[p].todo) \in History
      /\ Len(call[p].todo) > 1 => Tail(call[p].todo) # <<>>
  BY <1>2, <1>3, TailOK
<1>5. acked' \subseteq History
  BY <1>1, <1>3 DEF IInv, TypeOK
<1>6. CASE /\ Finish(p, "ok")
           /\ view' = [view EXCEPT ![p] = call[p].event]
           /\ case' = [case EXCEPT ![p] = CaseAfter(@, Head(call[p].todo))]
  <2>1. CaseAfter(case[p], Head(call[p].todo)) \in CaseState
    <3>1. case[p] \in CaseState /\ Head(call[p].todo).epoch \in Nat
      BY <1>4 DEF IInv, TypeOK, Body
    <3> QED BY <3>1 DEF CaseAfter, CaseState
  <2>2. view' \in [Process -> History] /\ case' \in [Process -> CaseState]
    BY <1>3, <1>6, <2>1 DEF IInv, TypeOK
  <2> QED BY <1>1, <1>5, <1>6, <2>2, FinishStep
<1>7. CASE /\ Len(call[p].todo) > 1
           /\ call' = [call EXCEPT ![p] =
                 [@ EXCEPT !.pc = "snapshot", !.todo = Tail(call[p].todo),
                           !.expected = call[p].event, !.wrote = FALSE]]
           /\ UNCHANGED <<view, case>>
  <2> DEFINE c == [call[p] EXCEPT !.pc = "snapshot", !.todo = Tail(call[p].todo),
                                  !.expected = call[p].event, !.wrote = FALSE]
  <2>1. call' = [call EXCEPT ![p] = c]
    BY <1>7
  <2>2. /\ c \in Call /\ c.pc = "snapshot" /\ c.todo = Tail(call[p].todo) /\ ~c.wrote
        /\ ~c.restore /\ c.reply = "none"
    BY <1>1, <1>2, <1>3, <1>4 DEF Call
  <2> HIDE DEF c
  <2>3. CallOK(c)
    BY <2>2 DEF CallOK
  <2> QED BY <1>1, <1>4, <1>5, <1>7, <2>1, <2>2, <2>3, QuietStep DEF IInv, TypeOK
<1> QED BY <1>6, <1>7 DEF VerifyAppend

LEMMA VerifyRestoreStep ==
    ASSUME IInv, NEW p \in Process, VerifyRestore(p)
    PROVE  IInv'
<1>1. call[p].event \in History
  BY DEF IInv, TypeOK, Call
<1>2. acked' \subseteq History
  BY <1>1 DEF VerifyRestore, IInv, TypeOK
<1> QED BY <1>2, FinishStep DEF VerifyRestore, IInv, TypeOK

LEMMA NextIInv == IInv /\ [Next]_vars => IInv'
<1> SUFFICES ASSUME IInv, [Next]_vars PROVE IInv'
  OBVIOUS
<1>1. CASE UNCHANGED vars
  BY <1>1 DEF vars, IInv, TypeOK, Decodable, CallsOK, CallOK
<1>2. ASSUME NEW p \in Process, VerifyFails(p) PROVE IInv'
  BY <1>2, FailStep DEF VerifyFails
<1> QED BY <1>1, <1>2, ReadStep, LifecycleStep, RestoreBegins, SnapshotStep, WriteStep,
           VerifyAppendStep, VerifyRestoreStep, CrashStep DEF Next

LEMMA Invariant == Spec => []IInv
BY InitIInv, NextIInv, PTL DEF Spec

(* Type correctness, for any processes, receipts, bundles and limit.        *)
THEOREM TypeCorrect == Spec => []TypeOK
<1>1. IInv => TypeOK
  BY DEF IInv
<1> QED BY <1>1, Invariant, PTL

(* The store never holds a history that its reader rejects.                 *)
THEOREM AlwaysDecodable == Spec => []Decodable
<1>1. IInv => Decodable
  BY DEF IInv
<1> QED BY <1>1, Invariant, PTL

(* A refused call wrote nothing, a doubtful one its event for good.         *)
THEOREM Errors == Spec => []ErrorsTell
<1>1. IInv => ErrorsTell
  BY DEF IInv, CallsOK, CallOK, ErrorsTell, Prefix
<1> QED BY <1>1, Invariant, PTL

-----------------------------------------------------------------------------
(* Refinement: the write is the step of the log, a verification that shows   *)
(* the event acknowledges the whole history, and all else stutters.         *)
LEMMA InitLog == Init => CL!Init
BY DEF Init, CL!Init, End

LEMMA LogStep ==
    ASSUME IInv, [Next]_vars
    PROVE  [CL!Next]_(CL!logvars)
<1> DEFINE h == End(stream)
<1>1. h \in History /\ Decodes(stream) /\ stream \in Seq(History)
  BY EndOf DEF IInv, TypeOK, Decodable
<1>2. CASE UNCHANGED <<stream, acked>>
  <2>1. h' = h /\ acked' = acked
    BY <1>2 DEF End
  <2> QED BY <2>1 DEF CL!logvars
<1>3. ASSUME NEW p \in Process, Write(p), ~UNCHANGED stream
      PROVE  CL!Next
  <2>1. /\ call[p].pc = "write" /\ BackendHeadMatches(p) /\ acked' = acked
        /\ stream' = stream \o Records(p)
    BY <1>3 DEF Write, Fail
  <2>2. h' = call[p].event /\ call[p].event \in History
    BY <2>1, WriteFacts
  <2>3. CASE ~call[p].restore
    <3>1. /\ Len(h) < Limit /\ h' = Append(h, Head(call[p].todo))
          /\ Head(call[p].todo) \in Body
      BY <2>1, <2>2, <2>3, WriteFacts
    <3>2. Prefix(h, h') /\ Len(h') = Len(h) + 1
      BY <1>1, <3>1, PrefixSelf, PrefixAppend, AppendProperties DEF History
    <3>3. CL!AppendEvent
      BY <2>1, <2>2, <3>1, <3>2 DEF CL!AppendEvent, Prefix, History
    <3> QED BY <3>3 DEF CL!Next
  <2>4. CASE call[p].restore
    <3>1. h = <<>> /\ Len(h') <= Limit
      BY <2>1, <2>2, <2>4, WriteFacts
    <3>2. CL!RestoreBundle
      BY <2>1, <2>2, <3>1 DEF CL!RestoreBundle, History
    <3> QED BY <3>2 DEF CL!Next
  <2> QED BY <2>3, <2>4
<1>4. ASSUME NEW p \in Process, VerifyAppend(p) \/ VerifyRestore(p)
      PROVE  CL!Next
  <2>1. /\ stream' = stream /\ acked' = acked \cup {call[p].event} /\ h = call[p].event
    BY <1>4 DEF VerifyAppend, VerifyRestore, Shown
  <2>2. SubSeq(h, 1, Len(h)) = h /\ Len(h) \in 0..Len(h)
    BY <1>1, SubSeqFull, LenProperties DEF History
  <2>3. h' = h
    BY <2>1 DEF End
  <2>4. CL!Acknowledge(Len(h))
    BY <2>1, <2>2, <2>3 DEF CL!Acknowledge
  <2> QED BY <2>2, <2>4 DEF CL!Next
<1>5. ASSUME NEW p \in Process,
             \/ Read(p) \/ Decide(p) \/ AppendNote(p)
             \/ \E r \in Receipt : FileCase(p, r)
             \/ RecordDelta(p) \/ CloseCase(p) \/ ReopenCase(p)
             \/ \E b \in Bundles : RestoreCase(p, b)
             \/ Snapshot(p) \/ Busy(p) \/ VerifyFails(p) \/ Crash(p)
      PROVE  UNCHANGED <<stream, acked>>
  BY <1>5 DEF Read, Decide, AppendNote, FileCase, RecordDelta, CloseCase, ReopenCase,
              RestoreCase, Begin, Snapshot, Busy, VerifyFails, Fail, Crash
<1>6. ASSUME NEW p \in Process, Write(p), UNCHANGED stream
      PROVE  UNCHANGED <<stream, acked>>
  BY <1>6 DEF Write, Fail
<1>7. CASE UNCHANGED vars
  BY <1>2, <1>7 DEF vars
<1> QED BY <1>2, <1>3, <1>4, <1>5, <1>6, <1>7 DEF Next

(* The ledger implements the append-only log of a case: whatever races, its  *)
(* history grows by one event at its end or by one bundle while it is empty, *)
(* and what a caller was told stays.                                       *)
THEOREM Refinement == Spec => ImplementsCaseLog
<1>1. IInv /\ [Next]_vars => [CL!Next]_(CL!logvars)
  BY LogStep
<1> QED BY <1>1, InitLog, Invariant, PTL DEF Spec, ImplementsCaseLog, CL!Spec

-----------------------------------------------------------------------------
(* What each step of a call makes of the call.                              *)
LEMMA SnapshotCall ==
    ASSUME IInv, NEW p \in Process, Snapshot(p), ~Fail(p, "refused")
    PROVE  /\ call'[p].pc = "write" /\ call'[p].restore = call[p].restore
           /\ call'[p].todo = call[p].todo /\ call'[p].expected = call[p].expected
           /\ call'[p].snap = stream
           /\ call[p].pc = "snapshot"
           /\ ~call[p].restore => End(stream) = call[p].expected
           /\ call[p].restore => call'[p].event = call[p].todo
           /\ \A q \in Process : q # p => call'[q] = call[q]
           /\ UNCHANGED <<stream, view, case, decided>>
<1> DEFINE e == IF call[p].restore THEN call[p].todo
                ELSE Append(End(stream), Head(call[p].todo))
           c == [call[p] EXCEPT !.pc = "write", !.snap = stream, !.event = e]
<1>1. /\ call' = [call EXCEPT ![p] = c] /\ call[p] \in Call /\ call[p].pc = "snapshot"
      /\ ~call[p].restore => End(stream) = call[p].expected
      /\ UNCHANGED <<stream, view, case, decided>>
  BY DEF Snapshot, Expected, IInv, TypeOK
<1> HIDE DEF e
<1>2. c.pc = "write" /\ c.snap = stream /\ c.event = e
      /\ c.todo = call[p].todo /\ c.restore = call[p].restore /\ c.expected = call[p].expected
  BY <1>1 DEF Call
<1> HIDE DEF c
<1>3. call'[p] = c /\ \A q \in Process : q # p => call'[q] = call[q]
  BY <1>1 DEF IInv, TypeOK
<1> QED BY <1>1, <1>2, <1>3 DEF e

LEMMA WriteCall ==
    ASSUME IInv, NEW p \in Process, Write(p), ~Fail(p, "refused")
    PROVE  /\ call'[p].pc = "verify" /\ call'[p].restore = call[p].restore
           /\ call'[p].todo = call[p].todo /\ call'[p].expected = call[p].expected
           /\ call'[p].snap = call[p].snap /\ call'[p].event = call[p].event
           /\ call[p].pc = "write" /\ BackendHeadMatches(p)
           /\ stream' = stream \o Records(p)
           /\ \A q \in Process : q # p => call'[q] = call[q]
           /\ UNCHANGED <<view, case, decided>>
<1> DEFINE c == [call[p] EXCEPT !.pc = "verify", !.wrote = TRUE]
<1>1. /\ call' = [call EXCEPT ![p] = c] /\ call[p] \in Call /\ call[p].pc = "write"
      /\ BackendHeadMatches(p) /\ stream' = stream \o Records(p)
      /\ UNCHANGED <<view, case, decided>>
  BY DEF Write, IInv, TypeOK
<1>2. /\ c.pc = "verify" /\ c.snap = call[p].snap /\ c.event = call[p].event
      /\ c.todo = call[p].todo /\ c.restore = call[p].restore /\ c.expected = call[p].expected
  BY <1>1 DEF Call
<1> HIDE DEF c
<1>3. call'[p] = c /\ \A q \in Process : q # p => call'[q] = call[q]
  BY <1>1 DEF IInv, TypeOK
<1> QED BY <1>1, <1>2, <1>3

LEMMA NextAppendCall ==
    ASSUME IInv, NEW p \in Process, VerifyAppend(p), ~Finish(p, "ok")
    PROVE  /\ call'[p].pc = "snapshot" /\ ~call'[p].restore /\ ~call[p].restore
           /\ call'[p].todo = Tail(call[p].todo) /\ call'[p].expected = call[p].event
           /\ call[p].pc = "verify" /\ Len(call[p].todo) > 1 /\ call[p].todo \in History
           /\ End(call[p].snap) \in History
           /\ call[p].event = Append(End(call[p].snap), Head(call[p].todo))
           /\ \A q \in Process : q # p => call'[q] = call[q]
           /\ UNCHANGED <<stream, view, case, decided>>
<1> DEFINE c == [call[p] EXCEPT !.pc = "snapshot", !.todo = Tail(call[p].todo),
                                !.expected = call[p].event, !.wrote = FALSE]
<1>1. /\ call' = [call EXCEPT ![p] = c] /\ call[p] \in Call /\ call[p].pc = "verify"
      /\ ~call[p].restore /\ Len(call[p].todo) > 1 /\ CallOK(call[p])
      /\ UNCHANGED <<stream, view, case, decided>>
  BY DEF VerifyAppend, IInv, TypeOK, CallsOK
<1>2. /\ c.pc = "snapshot" /\ c.todo = Tail(call[p].todo) /\ c.expected = call[p].event
      /\ ~c.restore
  BY <1>1 DEF Call
<1> HIDE DEF c
<1>3. call'[p] = c /\ \A q \in Process : q # p => call'[q] = call[q]
  BY <1>1 DEF IInv, TypeOK
<1>4. call[p].todo \in History /\ call[p].snap \in Seq(History)
  BY <1>1 DEF Call
<1>5. /\ call[p].event = Append(End(call[p].snap), Head(call[p].todo))
      /\ End(call[p].snap) \in History
  BY <1>1, <1>4, EndOf DEF CallOK
<1> QED BY <1>1, <1>2, <1>3, <1>4, <1>5

(* A call that is over, or a process that died. *)
LEMMA OverCall ==
    ASSUME IInv, NEW p \in Process,
           Crash(p) \/ (\E reply \in {"ok", "refused", "doubt"} : Finish(p, reply))
    PROVE  call'[p].pc = "idle" /\ \A q \in Process : q # p => call'[q] = call[q]
<1>1. CASE Crash(p)
  BY <1>1 DEF Crash, NoCall, IInv, TypeOK
<1>2. ASSUME NEW reply \in {"ok", "refused", "doubt"}, Finish(p, reply)
      PROVE  call'[p].pc = "idle" /\ \A q \in Process : q # p => call'[q] = call[q]
  <2> DEFINE c == [NoCall EXCEPT !.reply = reply,
                                 !.wrote = reply # "ok" /\ call[p].wrote,
                                 !.event = IF reply = "doubt" THEN call[p].event ELSE <<>>]
  <2>1. call' = [call EXCEPT ![p] = c] /\ c.pc = "idle"
    BY <1>2 DEF Finish, NoCall
  <2> HIDE DEF c
  <2> QED BY <2>1 DEF IInv, TypeOK
<1> QED BY <1>1, <1>2

(* Everything a process may do. *)
LEMMA Steps ==
    ASSUME IInv, NEW p \in Process,
           \/ Read(p) \/ Decide(p) \/ AppendNote(p)
           \/ \E r \in Receipt : FileCase(p, r)
           \/ RecordDelta(p) \/ CloseCase(p) \/ ReopenCase(p)
           \/ \E b \in Bundles : RestoreCase(p, b)
           \/ Snapshot(p) \/ Write(p) \/ Busy(p)
           \/ VerifyAppend(p) \/ VerifyRestore(p) \/ VerifyFails(p)
           \/ Crash(p)
    PROVE  \/ Read(p) \/ Decide(p)
           \/ AppendNote(p) \/ \E r \in Receipt : FileCase(p, r)
           \/ RecordDelta(p) \/ CloseCase(p) \/ ReopenCase(p)
           \/ \E b \in Bundles : RestoreCase(p, b)
           \/ Snapshot(p) /\ ~Fail(p, "refused")
           \/ Write(p) /\ ~Fail(p, "refused")
           \/ VerifyAppend(p)
           \/ \E reply \in {"ok", "refused", "doubt"} : Fail(p, reply)
           \/ VerifyRestore(p)
           \/ Crash(p)
BY DEF Busy, VerifyFails

LEMMA BeginCall ==
    ASSUME IInv, NEW p \in Process, NEW todo, Begin(p, todo)
    PROVE  /\ call'[p].pc = "snapshot" /\ ~call'[p].restore
           /\ call'[p].todo = todo /\ call'[p].expected = view[p]
           /\ \A q \in Process : q # p => call'[q] = call[q]
           /\ UNCHANGED <<stream, view, case, decided>>
<1> DEFINE c == [NoCall EXCEPT !.pc = "snapshot", !.todo = todo, !.expected = view[p]]
<1>1. /\ call' = [call EXCEPT ![p] = c] /\ c.pc = "snapshot" /\ ~c.restore
      /\ c.todo = todo /\ c.expected = view[p] /\ UNCHANGED <<stream, view, case, decided>>
  BY DEF Begin, NoCall
<1> HIDE DEF c
<1> QED BY <1>1 DEF IInv, TypeOK

LEMMA RestoreCall ==
    ASSUME IInv, NEW p \in Process, NEW b \in Bundles, RestoreCase(p, b)
    PROVE  /\ call'[p].pc = "snapshot" /\ call'[p].restore /\ call'[p].todo = b
           /\ \A q \in Process : q # p => call'[q] = call[q]
           /\ UNCHANGED <<stream, view, case, decided>>
<1> DEFINE c == [NoCall EXCEPT !.pc = "snapshot", !.todo = b, !.restore = TRUE]
<1>1. /\ call' = [call EXCEPT ![p] = c] /\ c.pc = "snapshot" /\ c.restore
      /\ c.todo = b /\ UNCHANGED <<stream, view, case, decided>>
  BY DEF RestoreCase, NoCall
<1> HIDE DEF c
<1> QED BY <1>1 DEF IInv, TypeOK

-----------------------------------------------------------------------------
(* Filings.  An event that files may only follow its receipt; a call that    *)
(* files has the receipt before it in its list or at the end of the head it  *)
(* expects.                                                                *)
Filing(b, before) == b.type = "filed" => before = Content("receipt", b.ref, 0)

Follows(h, b) ==
    b.type = "filed" => h # <<>> /\ h[Len(h)] = Content("receipt", b.ref, 0)

FiledOK(c) ==
    /\ c.pc # "idle" /\ c.restore => FiledRight(c.todo)
    /\ c.pc # "idle" /\ ~c.restore =>
          /\ Follows(c.expected, Head(c.todo))
          /\ \A i \in 1..Len(c.todo) - 1 : Filing(c.todo[i + 1], c.todo[i])
    /\ c.pc \in {"write", "verify"} /\ ~c.restore => End(c.snap) = c.expected
    /\ c.pc = "write" /\ c.restore => c.event = c.todo

FiledInv == FiledRightAfterReceipt /\ \A p \in Process : FiledOK(call[p])

LEMMA FiledAppend ==
    ASSUME NEW h \in History, NEW b \in Body, FiledRight(h), Follows(h, b)
    PROVE  FiledRight(Append(h, b))
<1>1. /\ Len(Append(h, b)) = Len(h) + 1 /\ Len(h) \in Nat
      /\ \A i \in 1..Len(h) : Append(h, b)[i] = h[i]
      /\ Append(h, b)[Len(h) + 1] = b
  BY AppendProperties, LenProperties DEF History
<1> DEFINE a == Append(h, b)
<1> HIDE DEF a
<1>2. ASSUME NEW i \in 1..Len(a), a[i].type = "filed"
      PROVE  i > 1 /\ a[i - 1] = Content("receipt", a[i].ref, 0)
  <2>1. CASE i \in 1..Len(h)
    <3>1. a[i] = h[i] /\ i > 1 /\ h[i - 1] = Content("receipt", h[i].ref, 0)
      BY <1>1, <1>2, <2>1 DEF FiledRight, a
    <3>2. a[i - 1] = h[i - 1]
      BY <1>1, <2>1, <3>1 DEF a
    <3> QED BY <3>1, <3>2
  <2>2. CASE i = Len(h) + 1
    <3>1. a[i] = b
      BY <1>1, <2>2 DEF a
    <3>2. h # <<>> /\ h[Len(h)] = Content("receipt", b.ref, 0)
      BY <1>2, <3>1 DEF Follows
    <3>3. Len(h) \in 1..Len(h)
      BY <3>2, EmptySeq DEF History
    <3>4. a[Len(h)] = h[Len(h)]
      BY <1>1, <3>3 DEF a
    <3> QED BY <2>2, <3>1, <3>2, <3>3, <3>4, <1>1
  <2> QED BY <1>1, <2>1, <2>2 DEF a
<1> QED BY <1>2 DEF FiledRight, a

(* A filing's list, and any list of one. *)
LEMMA FilingList ==
    ASSUME IInv, FiledInv, NEW p \in Process, NEW b \in Body, b.type # "filed",
           Begin(p, <<b>>) \/ \E r \in Receipt :
               b = Content("receipt", r, 0) /\ Begin(p, <<b, Content("filed", r, 0)>>)
    PROVE  FiledInv'
<1>1. CASE Begin(p, <<b>>)
  <2>1. Head(<<b>>) = b /\ Len(<<b>>) = 1
    OBVIOUS
  <2>2. FiledOK(call'[p])
    BY <1>1, <2>1, BeginCall DEF FiledOK, Follows
  <2> QED BY <1>1, <2>2, BeginCall DEF FiledInv, FiledRightAfterReceipt, End
<1>2. ASSUME NEW r \in Receipt, b = Content("receipt", r, 0),
             Begin(p, <<b, Content("filed", r, 0)>>)
      PROVE  FiledInv'
  <2> DEFINE l == <<b, Content("filed", r, 0)>>
  <2>1. Head(l) = b /\ Len(l) = 2 /\ l[1] = b /\ l[2] = Content("filed", r, 0)
    OBVIOUS
  <2>2. Filing(l[2], l[1])
    BY <1>2, <2>1 DEF Filing, Content
  <2>3. Begin(p, l)
    BY <1>2
  <2> HIDE DEF l
  <2>4. FiledOK(call'[p])
    BY <2>1, <2>2, <2>3, BeginCall DEF FiledOK, Follows
  <2> QED BY <2>3, <2>4, BeginCall DEF FiledInv, FiledRightAfterReceipt, End
<1> QED BY <1>1, <1>2

(* The places of a list without its head. *)
LEMMA TailPlaces ==
    ASSUME NEW h \in History, Len(h) > 1
    PROVE  /\ h # <<>> /\ Head(h) = h[1] /\ Head(h) \in Body
           /\ Tail(h) \in History /\ Tail(h) # <<>> /\ Head(Tail(h)) = h[2]
           /\ Len(Tail(h)) = Len(h) - 1 /\ Len(h) \in Nat
           /\ \A i \in 1..Len(h) - 1 : Tail(h)[i] = h[i + 1]
<1>1. Len(h) \in Nat /\ h # <<>>
  BY LenProperties, EmptySeq DEF History
<1>2. /\ Head(h) \in Body /\ Tail(h) \in History
      /\ Len(Tail(h)) = Len(h) - 1
      /\ \A i \in 1..Len(Tail(h)) : Tail(h)[i] = h[i + 1]
  BY <1>1, HeadTailProperties DEF History
<1>3. Tail(h) # <<>>
  BY <1>1, TailOK
<1>4. Tail(h)[1] = h[2]
  BY <1>1, <1>2
<1>5. Head(h) = h[1]
  BY <1>1 DEF History
<1>6. Head(Tail(h)) = Tail(h)[1]
  <2> DEFINE u == Tail(h)
  <2>1. u \in Seq(Body) /\ u # <<>>
    BY <1>2, <1>3 DEF History
  <2> HIDE DEF u
  <2>2. Head(u) = u[1]
    BY <2>1
  <2> QED BY <2>2 DEF u
<1> QED BY <1>1, <1>2, <1>3, <1>4, <1>5, <1>6

LEMMA FiledNextAppend ==
    ASSUME IInv, FiledInv, NEW p \in Process, VerifyAppend(p), ~Finish(p, "ok")
    PROVE  FiledInv'
<1> DEFINE h == End(call[p].snap)
           l == call[p].todo
           b == Head(l)
<1>1. /\ h \in History /\ l \in History /\ Len(l) > 1
      /\ call[p].event = Append(h, b)
  BY NextAppendCall
<1>2. /\ l[1] = b /\ b \in Body /\ Head(Tail(l)) = l[2] /\ Len(Tail(l)) = Len(l) - 1
      /\ \A i \in 1..Len(l) - 1 : Tail(l)[i] = l[i + 1]
      /\ Len(l) \in Nat
  BY <1>1, TailPlaces
<1>3. \A i \in 1..Len(l) - 1 : Filing(l[i + 1], l[i])
  BY NextAppendCall DEF FiledInv, FiledOK
<1>4. /\ Append(h, b) # <<>> /\ Append(h, b)[Len(Append(h, b))] = b
  BY <1>1, <1>2, AppendProperties DEF History
<1>5. Follows(Append(h, b), Head(Tail(l)))
  <2>1. 1 \in 1..Len(l) - 1 /\ 1 + 1 = 2
    BY <1>1, <1>2
  <2>2. Filing(l[2], l[1])
    BY <1>3, <2>1
  <2> QED BY <2>2, <1>2, <1>4 DEF Filing, Follows
<1>6. ASSUME NEW i \in 1..Len(Tail(l)) - 1
      PROVE  Filing(Tail(l)[i + 1], Tail(l)[i])
  <2>1. i \in 1..Len(l) - 1 /\ i + 1 \in 1..Len(l) - 1
    BY <1>2
  <2>2. Tail(l)[i] = l[i + 1] /\ Tail(l)[i + 1] = l[(i + 1) + 1]
    BY <1>2, <2>1
  <2> QED BY <2>1, <2>2, <1>3
<1>7. call'[p].todo = Tail(l) /\ call'[p].expected = Append(h, b)
      /\ ~call'[p].restore /\ call'[p].pc = "snapshot"
  BY <1>1, NextAppendCall
<1> HIDE DEF h, l, b
<1>8. FiledOK(call'[p])
  BY <1>5, <1>6, <1>7 DEF FiledOK
<1> QED BY <1>8, NextAppendCall DEF FiledInv, FiledRightAfterReceipt, End

LEMMA FiledWrite ==
    ASSUME IInv, FiledInv, NEW p \in Process, Write(p), ~Fail(p, "refused")
    PROVE  FiledInv'
<1>1. FiledOK(call'[p])
  BY WriteCall DEF FiledInv, FiledOK
<1>2. FiledRight(End(stream'))
  <2>1. CASE ~call[p].restore
    <3>1. /\ End(stream) \in History /\ Head(call[p].todo) \in Body
          /\ End(stream') = Append(End(stream), Head(call[p].todo))
      BY <2>1, WriteCall, WriteFacts
    <3>2. Follows(End(stream), Head(call[p].todo))
      BY <2>1, WriteCall DEF FiledInv, FiledOK, BackendHeadMatches
    <3> QED BY <3>1, <3>2, FiledAppend DEF FiledInv, FiledRightAfterReceipt
  <2>2. CASE call[p].restore
    BY <2>2, WriteCall, WriteFacts DEF FiledInv, FiledOK
  <2> QED BY <2>1, <2>2
<1> QED BY <1>1, <1>2, WriteCall DEF FiledInv, FiledRightAfterReceipt

LEMMA FiledSnapshot ==
    ASSUME IInv, FiledInv, NEW p \in Process, Snapshot(p), ~Fail(p, "refused")
    PROVE  FiledInv'
<1>1. FiledOK(call'[p])
  BY SnapshotCall DEF FiledInv, FiledOK
<1> QED BY <1>1, SnapshotCall DEF FiledInv, FiledRightAfterReceipt, End

LEMMA FiledNext ==
    ASSUME \A b \in Bundles : FiledRight(b), IInv, FiledInv, [Next]_vars
    PROVE  FiledInv'
<1>1. CASE call' = call /\ stream' = stream
  BY <1>1 DEF FiledInv, FiledRightAfterReceipt, FiledOK, End
<1>2. ASSUME NEW p \in Process, stream' = stream, call'[p].pc = "idle",
             \A q \in Process : q # p => call'[q] = call[q]
      PROVE  FiledInv'
  <2>1. FiledOK(call'[p])
    BY <1>2 DEF FiledOK
  <2> QED BY <1>2, <2>1 DEF FiledInv, FiledRightAfterReceipt, End
<1>3. ASSUME NEW p \in Process, NEW b \in Bundles, RestoreCase(p, b) PROVE FiledInv'
  <2>1. FiledOK(call'[p])
    BY <1>3, RestoreCall DEF FiledOK
  <2> QED BY <1>3, <2>1, RestoreCall DEF FiledInv, FiledRightAfterReceipt, End
<1>4. ASSUME NEW p \in Process,
             \/ AppendNote(p) \/ \E r \in Receipt : FileCase(p, r)
             \/ RecordDelta(p) \/ CloseCase(p) \/ ReopenCase(p)
      PROVE  FiledInv'
  <2>1. decided[p].position \in Nat /\ decided[p].epoch \in Nat
    BY DEF IInv, TypeOK
  <2>2. ASSUME NEW r \in Receipt, FileCase(p, r) PROVE FiledInv'
    <3>1. Content("receipt", r, 0) \in Body /\ Content("receipt", r, 0).type # "filed"
      BY ContentOK, ReceiptAssumption DEF Type, Content
    <3> QED BY <2>2, <3>1, FilingList DEF FileCase
  <2>3. ASSUME NEW type \in Type \ {"filed"}, NEW r \in Nat, NEW e \in Nat,
               Begin(p, <<Content(type, r, e)>>)
        PROVE  FiledInv'
    <3>1. Content(type, r, e) \in Body /\ Content(type, r, e).type # "filed"
      BY ContentOK DEF Content
    <3> QED BY <2>3, <3>1, FilingList
  <2> QED BY <1>4, <2>1, <2>2, <2>3 DEF AppendNote, RecordDelta, CloseCase, ReopenCase, Type
<1>5. ASSUME NEW p \in Process, VerifyAppend(p) PROVE FiledInv'
  <2>1. CASE Finish(p, "ok")
    BY <1>5, <2>1, <1>2, OverCall DEF VerifyAppend
  <2> QED BY <1>5, <2>1, FiledNextAppend
<1>6. ASSUME NEW p \in Process,
             \/ \E reply \in {"ok", "refused", "doubt"} : Fail(p, reply)
             \/ VerifyRestore(p) \/ Crash(p)
      PROVE  FiledInv'
  BY <1>6, <1>2, OverCall DEF Fail, VerifyRestore, Crash
<1>7. ASSUME NEW p \in Process, Read(p) \/ Decide(p) PROVE FiledInv'
  BY <1>7, <1>1 DEF Read, Decide
<1>8. CASE UNCHANGED vars
  BY <1>1, <1>8 DEF vars
<1> QED BY <1>3, <1>4, <1>5, <1>6, <1>7, <1>8, FiledWrite, FiledSnapshot, Steps DEF Next

(* However processes interleave or die between its two appends, a filing     *)
(* stands right after its receipt - if it does in the bundles restored.     *)
THEOREM Filings ==
    ASSUME \A b \in Bundles : FiledRight(b)
    PROVE  Spec => []FiledRightAfterReceipt
<1>1. Init => FiledInv
  BY DEF Init, FiledInv, FiledRightAfterReceipt, FiledRight, FiledOK, NoCall, End
<1>2. IInv /\ FiledInv /\ [Next]_vars => FiledInv'
  BY FiledNext
<1>3. FiledInv => FiledRightAfterReceipt
  BY DEF FiledInv
<1> QED BY <1>1, <1>2, <1>3, Invariant, PTL DEF Spec

-----------------------------------------------------------------------------
(* Decisions.  What a process knows is a prefix of the history, its Case is  *)
(* that prefix's, its decision holds for the prefix it was based on; so the  *)
(* body it sends holds for the head it expects, which the snapshot compares. *)
SoundHistory(h) == \A i \in 1..Len(h) : SoundAt(h, i)

Sound(h, b) ==
    /\ b.type \in {"delta", "closed"} => b.ref = Len(h)
    /\ b.type = "closed" => b.epoch = CaseOf(h).epoch
    /\ b.type = "reopened" => CaseOf(h).status = "CLOSED" /\ b.epoch = CaseOf(h).epoch + 1

Knows(p) ==
    /\ Prefix(view[p], End(stream))
    /\ case[p] = CaseOf(view[p])
    /\ decided[p].position <= Len(End(stream))
    /\ decided[p].epoch = CaseOf(SubSeq(End(stream), 1, decided[p].position)).epoch

Sends(c, k) ==
    /\ c.pc # "idle" /\ c.restore => SoundHistory(c.todo)
    /\ c.pc # "idle" /\ ~c.restore =>
          /\ Sound(c.expected, Head(c.todo))
          /\ CaseOf(c.expected) = k
          /\ Len(c.todo) > 1 => /\ Head(c.todo).type = "receipt"
                                /\ Len(c.todo) = 2 /\ c.todo[2].type = "filed"
    /\ c.pc \in {"write", "verify"} /\ ~c.restore => End(c.snap) = c.expected

DecInv ==
    /\ SoundHistory(End(stream))
    /\ \A p \in Process : Knows(p) /\ Sends(call[p], case[p])

LEMMA LastOfAppend ==
    ASSUME NEW h \in History, NEW b \in Body, NEW types
    PROVE  LastOf(Append(h, b), types)
               = IF b.type \in types THEN Len(h) + 1 ELSE LastOf(h, types)
<1> DEFINE a == Append(h, b)
           I == {i \in 1..Len(h) : h[i].type \in types}
           J == {i \in 1..Len(a) : a[i].type \in types}
<1>1. /\ Len(a) = Len(h) + 1 /\ Len(h) \in Nat
      /\ \A i \in 1..Len(h) : a[i] = h[i]
      /\ a[Len(h) + 1] = b
  BY AppendProperties, LenProperties DEF History
<1> HIDE DEF a
<1>2. CASE b.type \in types
  <2>1. Len(h) + 1 \in J /\ \A j \in J : j <= Len(h) + 1
    BY <1>1, <1>2
  <2>2. \A i \in J : (\A j \in J : j <= i) => i = Len(h) + 1
    BY <1>1, <2>1
  <2>3. LastOf(a, types) = CHOOSE i \in J : \A j \in J : j <= i
    BY <2>1 DEF LastOf
  <2> HIDE DEF J
  <2>4. LastOf(a, types) \in J /\ \A j \in J : j <= LastOf(a, types)
    BY <2>1, <2>3
  <2> QED BY <1>2, <2>2, <2>4 DEF a
<1>3. CASE b.type \notin types
  <2>1. J \subseteq I
    <3>1. ASSUME NEW j \in J PROVE j \in I
      <4>1. j \in 1..Len(h) + 1 /\ a[j].type \in types
        BY <1>1
      <4>2. j # Len(h) + 1
        BY <1>1, <1>3, <4>1
      <4>3. j \in 1..Len(h)
        BY <1>1, <4>1, <4>2
      <4> QED BY <1>1, <4>1, <4>3
    <3> QED BY <3>1
  <2>2. I \subseteq J
    BY <1>1
  <2>3. J = I
    BY <2>1, <2>2
  <2>4. /\ LastOf(a, types) = IF J = {} THEN 0 ELSE CHOOSE i \in J : \A j \in J : j <= i
        /\ LastOf(h, types) = IF I = {} THEN 0 ELSE CHOOSE i \in I : \A j \in I : j <= i
    BY DEF LastOf
  <2> HIDE DEF I, J
  <2>5. LastOf(a, types) = LastOf(h, types)
    BY <2>3, <2>4
  <2> QED BY <1>3, <2>5 DEF a
<1> QED BY <1>2, <1>3

(* The Case a history leads to follows its events. *)
LEMMA CaseOfAppend ==
    ASSUME NEW h \in History, NEW b \in Body
    PROVE  CaseOf(Append(h, b)) = CaseAfter(CaseOf(h), b)
<1> DEFINE a == Append(h, b)
           S == {"filed", "closed", "reopened"}
           E == {"closed", "reopened"}
<1>1. /\ Len(h) \in Nat
      /\ \A i \in 1..Len(h) : a[i] = h[i]
      /\ a[Len(h) + 1] = b
  BY AppendProperties, LenProperties DEF History
<1>2. /\ LastOf(a, S) = IF b.type \in S THEN Len(h) + 1 ELSE LastOf(h, S)
      /\ LastOf(a, E) = IF b.type \in E THEN Len(h) + 1 ELSE LastOf(h, E)
  BY LastOfAppend
<1>3. /\ LastOf(h, S) \in 0..Len(h) /\ LastOf(h, E) \in 0..Len(h)
      /\ LastOf(h, S) # 0 => h[LastOf(h, S)].type \in S
  BY LastOfOK
<1>4. /\ LastOf(h, S) # 0 => a[LastOf(h, S)] = h[LastOf(h, S)]
      /\ LastOf(h, E) # 0 => a[LastOf(h, E)] = h[LastOf(h, E)]
  BY <1>1, <1>3
<1> DEFINE status(i, g) == IF i = 0 THEN "NEW"
                           ELSE CASE g[i].type = "filed" -> "FILED"
                                  [] g[i].type = "closed" -> "CLOSED"
                                  [] g[i].type = "reopened" -> "ANALYSIS"
           epoch(i, g) == IF i = 0 THEN 0 ELSE g[i].epoch
<1>5. /\ CaseOf(a) = [status |-> status(LastOf(a, S), a), epoch |-> epoch(LastOf(a, E), a)]
      /\ CaseOf(h) = [status |-> status(LastOf(h, S), h), epoch |-> epoch(LastOf(h, E), h)]
  BY DEF CaseOf
<1>6. b.type \notin S => status(LastOf(a, S), a) = status(LastOf(h, S), h)
  <2> DEFINE i == LastOf(h, S)
  <2>1. i # 0 => a[i] = h[i] /\ h[i].type \in S
    BY <1>3, <1>4
  <2>2. b.type \notin S => LastOf(a, S) = i
    BY <1>2
  <2> HIDE DEF i, a
  <2>3. CASE i = 0
    BY <2>2, <2>3 DEF i
  <2>4. CASE i # 0
    BY <2>1, <2>2, <2>4 DEF i
  <2> QED BY <2>3, <2>4
<1>7. b.type \notin E => epoch(LastOf(a, E), a) = epoch(LastOf(h, E), h)
  <2> DEFINE i == LastOf(h, E)
  <2>1. i # 0 => a[i] = h[i]
    BY <1>4
  <2>2. b.type \notin E => LastOf(a, E) = i
    BY <1>2
  <2> HIDE DEF i, a
  <2>3. epoch(i, a) = epoch(i, h)
    BY <2>1
  <2> QED BY <2>2, <2>3 DEF i
<1>8. /\ b.type = "filed" => status(LastOf(a, S), a) = "FILED"
      /\ b.type = "closed" => status(LastOf(a, S), a) = "CLOSED"
      /\ b.type = "reopened" => status(LastOf(a, S), a) = "ANALYSIS"
      /\ b.type \in E => epoch(LastOf(a, E), a) = b.epoch
  BY <1>1, <1>2
<1> HIDE DEF status, epoch, a
<1>9. CASE b.type = "filed"
  BY <1>5, <1>7, <1>8, <1>9 DEF CaseAfter, a
<1>10. CASE b.type \in E
  BY <1>5, <1>8, <1>10 DEF CaseAfter, a
<1>11. CASE b.type \notin S
  BY <1>5, <1>6, <1>7, <1>11 DEF CaseAfter, a
<1> QED BY <1>9, <1>10, <1>11

(* The first n events of a history do not change when one is appended.      *)
LEMMA SubSeqAppend ==
    ASSUME NEW h \in History, NEW b \in Body, NEW n \in 0..Len(h)
    PROVE  SubSeq(Append(h, b), 1, n) = SubSeq(h, 1, n)
<1>1. Append(h, b) = h \o <<b>> /\ <<b>> \in Seq(Body) /\ Len(h) \in Nat
  BY AppendIsConcat, LenProperties DEF History
<1>2. CASE n = 0
  <2>1. SubSeq(Append(h, b), 1, 0) = <<>> /\ SubSeq(h, 1, 0) = <<>>
    BY SubSeqEmpty
  <2> QED BY <1>2, <2>1
<1>3. CASE n # 0
  <2>1. 1 \in 1..Len(h) /\ n \in 1..Len(h)
    BY <1>1, <1>3
  <2> QED BY <1>1, <2>1, SubSeqOfConcat1 DEF History
<1> QED BY <1>2, <1>3

LEMMA SoundAppend ==
    ASSUME NEW h \in History, NEW b \in Body, SoundHistory(h), Sound(h, b)
    PROVE  SoundHistory(Append(h, b))
<1> DEFINE a == Append(h, b)
<1>1. /\ Len(a) = Len(h) + 1 /\ Len(h) \in Nat
      /\ \A i \in 1..Len(h) : a[i] = h[i]
      /\ a[Len(h) + 1] = b
  BY AppendProperties, LenProperties DEF History
<1>2. \A n \in 0..Len(h) : SubSeq(a, 1, n) = SubSeq(h, 1, n)
  BY SubSeqAppend
<1>3. SubSeq(h, 1, Len(h)) = h
  BY SubSeqFull DEF History
<1> HIDE DEF a
<1>4. ASSUME NEW i \in 1..Len(a) PROVE SoundAt(a, i)
  <2>1. CASE i \in 1..Len(h)
    <3>1. i - 1 \in 0..Len(h) /\ SoundAt(h, i)
      BY <2>1, <1>1 DEF SoundHistory
    <3>2. a[i] = h[i] /\ SubSeq(a, 1, i - 1) = SubSeq(h, 1, i - 1)
      BY <2>1, <3>1, <1>1, <1>2
    <3> QED BY <3>1, <3>2 DEF SoundAt
  <2>2. CASE i = Len(h) + 1
    <3>1. i - 1 = Len(h) /\ Len(h) \in 0..Len(h) /\ a[i] = b
      BY <2>2, <1>1
    <3>2. SubSeq(a, 1, i - 1) = h
      BY <3>1, <1>2, <1>3
    <3> QED BY <3>1, <3>2 DEF SoundAt, Sound
  <2> QED BY <1>1, <2>1, <2>2
<1> QED BY <1>4 DEF SoundHistory, a

(* What every process knows outlives a write. *)
LEMMA WriteKeepsKnowledge ==
    ASSUME IInv, NEW p \in Process, Write(p), ~Fail(p, "refused"),
           NEW q \in Process, Knows(q)
    PROVE  Knows(q)'
<1> DEFINE h == End(stream)
           d == decided[q]
<1>1. view' = view /\ case' = case /\ decided' = decided
  BY WriteCall
<1>2. Prefix(view[q], End(stream'))
  BY WriteCall, WriteKeepsPrefix DEF Knows, IInv, TypeOK
<1>3. h \in History /\ d.position \in Nat /\ d.position <= Len(h) /\ Len(h) \in Nat
  <2>1. h \in History
    BY WriteCall, WriteFacts
  <2> QED BY <2>1, LenProperties DEF IInv, TypeOK, Knows, History
<1>4. CASE ~call[p].restore
  <2>1. End(stream') = Append(h, Head(call[p].todo)) /\ Head(call[p].todo) \in Body
    BY <1>4, WriteCall, WriteFacts
  <2>2. Len(End(stream')) = Len(h) + 1
    BY <2>1, <1>3, AppendProperties DEF History
  <2>3. SubSeq(End(stream'), 1, d.position) = SubSeq(h, 1, d.position)
    BY <2>1, <1>3, SubSeqAppend
  <2>4. d.position <= Len(End(stream'))
    BY <1>3, <2>2
  <2>5. d.epoch = CaseOf(SubSeq(End(stream'), 1, d.position)).epoch
    BY <2>3 DEF Knows
  <2> QED BY <1>1, <1>2, <2>4, <2>5 DEF Knows
<1>5. CASE call[p].restore
  <2>1. h = <<>> /\ Len(End(stream')) \in Nat
    BY <1>5, WriteCall, WriteFacts, LenProperties DEF History
  <2>2. d.position = 0
    BY <2>1, <1>3, EmptySeq
  <2>3. SubSeq(End(stream'), 1, 0) = <<>> /\ SubSeq(h, 1, 0) = <<>>
    BY SubSeqEmpty
  <2>4. d.position <= Len(End(stream'))
    BY <2>1, <2>2
  <2>5. d.epoch = CaseOf(SubSeq(End(stream'), 1, d.position)).epoch
    BY <2>2, <2>3 DEF Knows
  <2> QED BY <1>1, <1>2, <2>4, <2>5 DEF Knows
<1> QED BY <1>4, <1>5

LEMMA DecisionWrite ==
    ASSUME IInv, DecInv, NEW p \in Process, Write(p), ~Fail(p, "refused")
    PROVE  DecInv'
<1>1. \A q \in Process : Knows(q)'
  BY WriteKeepsKnowledge DEF DecInv
<1>2. Sends(call[p], case[p])'
  BY WriteCall DEF DecInv, Sends
<1>3. SoundHistory(End(stream'))
  <2>1. CASE ~call[p].restore
    <3>1. /\ End(stream) \in History /\ Head(call[p].todo) \in Body
          /\ End(stream') = Append(End(stream), Head(call[p].todo))
      BY <2>1, WriteCall, WriteFacts
    <3>2. Sound(End(stream), Head(call[p].todo))
      BY <2>1, WriteCall DEF DecInv, Sends, BackendHeadMatches
    <3> QED BY <3>1, <3>2, SoundAppend DEF DecInv
  <2>2. CASE call[p].restore
    BY <2>2, WriteCall, WriteFacts DEF DecInv, Sends
  <2> QED BY <2>1, <2>2
<1> QED BY <1>1, <1>2, <1>3, WriteCall DEF DecInv

(* A call that begins with one body that holds for what its process knows,  *)
(* or with a receipt and its filing.                                        *)
LEMMA DecisionBegin ==
    ASSUME IInv, DecInv, NEW p \in Process, NEW l \in History, Begin(p, l),
           Sound(view[p], Head(l)),
           Len(l) > 1 => Head(l).type = "receipt" /\ Len(l) = 2 /\ l[2].type = "filed"
    PROVE  DecInv'
<1>1. Sends(call'[p], case'[p])
  BY BeginCall DEF Sends, DecInv, Knows
<1> QED BY <1>1, BeginCall DEF DecInv, Knows, End

(* A decision that is still current was based on all that is known.         *)
LEMMA CurrentEpoch ==
    ASSUME IInv, DecInv, NEW p \in Process, Current(p)
    PROVE  decided[p].epoch = CaseOf(view[p]).epoch
BY DEF DecInv, Knows, Current, Prefix

LEMMA DecisionLifecycle ==
    ASSUME IInv, DecInv, NEW p \in Process,
           \/ AppendNote(p) \/ \E r \in Receipt : FileCase(p, r)
           \/ RecordDelta(p) \/ CloseCase(p) \/ ReopenCase(p)
    PROVE  DecInv'
<1>1. decided[p].position \in Nat /\ decided[p].epoch \in Nat
  BY DEF IInv, TypeOK
<1>2. ASSUME NEW b \in Body, Sound(view[p], b), Begin(p, <<b>>) PROVE DecInv'
  <2>1. <<b>> \in History /\ Head(<<b>>) = b /\ Len(<<b>>) = 1
    BY DEF History
  <2> QED BY <1>2, <2>1, DecisionBegin
<1>3. CASE AppendNote(p)
  <2>1. Content("note", 0, 0) \in Body /\ Sound(view[p], Content("note", 0, 0))
    BY ContentOK DEF Type, Content, Sound
  <2> QED BY <1>2, <1>3, <2>1 DEF AppendNote
<1>4. ASSUME NEW r \in Receipt, FileCase(p, r) PROVE DecInv'
  <2> DEFINE b == Content("receipt", r, 0)
             f == Content("filed", r, 0)
             l == <<b, f>>
  <2>1. b \in Body /\ f \in Body /\ b.type = "receipt" /\ f.type = "filed"
    BY ContentOK, ReceiptAssumption DEF Type, Content
  <2>2. Begin(p, l)
    BY <1>4 DEF FileCase
  <2> HIDE DEF b, f
  <2>3. l \in History /\ Head(l) = b /\ Len(l) = 2 /\ l[2] = f
    BY <2>1 DEF History
  <2> HIDE DEF l
  <2>4. Sound(view[p], b)
    BY <2>1 DEF Sound
  <2> QED BY <2>1, <2>2, <2>3, <2>4, DecisionBegin
<1>5. CASE RecordDelta(p)
  <2> DEFINE b == Content("delta", decided[p].position, 0)
  <2>1. b \in Body /\ Sound(view[p], b)
    BY <1>1, <1>5, ContentOK DEF Type, Content, Sound, RecordDelta, Current
  <2> QED BY <1>2, <1>5, <2>1 DEF RecordDelta
<1>6. CASE CloseCase(p)
  <2> DEFINE b == Content("closed", decided[p].position, decided[p].epoch)
  <2>1. b \in Body /\ Sound(view[p], b)
    BY <1>1, <1>6, ContentOK, CurrentEpoch DEF Type, Content, Sound, CloseCase, Current
  <2> QED BY <1>2, <1>6, <2>1 DEF CloseCase
<1>7. CASE ReopenCase(p)
  <2> DEFINE b == Content("reopened", 0, decided[p].epoch + 1)
  <2>1. case[p] = CaseOf(view[p])
    BY DEF DecInv, Knows
  <2>2. b \in Body /\ Sound(view[p], b)
    BY <1>1, <1>7, <2>1, ContentOK DEF Type, Content, Sound, ReopenCase
  <2> QED BY <1>2, <1>7, <2>2 DEF ReopenCase
<1> QED BY <1>3, <1>4, <1>5, <1>6, <1>7

LEMMA DecisionNextAppend ==
    ASSUME IInv, DecInv, NEW p \in Process, VerifyAppend(p), ~Finish(p, "ok")
    PROVE  DecInv'
<1> DEFINE h == End(call[p].snap)
           l == call[p].todo
           b == Head(l)
<1>1. /\ h \in History /\ l \in History /\ Len(l) > 1
      /\ call[p].event = Append(h, b)
  BY NextAppendCall
<1>2. b \in Body /\ Head(Tail(l)) = l[2] /\ Len(Tail(l)) = Len(l) - 1
  BY <1>1, TailPlaces
<1>3. /\ h = call[p].expected /\ CaseOf(h) = case[p]
      /\ b.type = "receipt" /\ Len(l) = 2 /\ l[2].type = "filed"
  BY <1>1, NextAppendCall DEF DecInv, Sends
<1>4. CaseOf(Append(h, b)) = case[p]
  BY <1>1, <1>2, <1>3, CaseOfAppend DEF CaseAfter
<1>5. Sound(Append(h, b), Head(Tail(l))) /\ ~(Len(Tail(l)) > 1)
  <2>1. Head(Tail(l)).type = "filed" /\ Len(Tail(l)) = 1
    BY <1>2, <1>3
  <2> DEFINE t == Tail(l)
  <2> HIDE DEF h, l, b, t
  <2> QED BY <2>1 DEF Sound, t
<1>6. call'[p].todo = Tail(l) /\ call'[p].expected = Append(h, b)
      /\ ~call'[p].restore /\ call'[p].pc = "snapshot" /\ case' = case
  BY <1>1, NextAppendCall
<1> HIDE DEF h, l, b
<1>7. Sends(call'[p], case'[p])
  BY <1>4, <1>5, <1>6 DEF Sends
<1> QED BY <1>7, NextAppendCall DEF DecInv, Knows, End

(* The process that finished knows its event, and its Case follows it.      *)
LEMMA DecisionAppended ==
    ASSUME IInv, DecInv, NEW p \in Process, VerifyAppend(p), Finish(p, "ok")
    PROVE  DecInv'
<1> DEFINE h == End(call[p].snap)
           b == Head(call[p].todo)
           e == call[p].event
<1>1. /\ call[p] \in Call /\ call[p].pc = "verify" /\ ~call[p].restore /\ CallOK(call[p])
      /\ call[p].todo # <<>> /\ stream' = stream /\ decided' = decided
      /\ End(stream) = e
  BY DEF VerifyAppend, Shown, IInv, TypeOK, CallsOK
<1>2. call'[p].pc = "idle" /\ \A q \in Process : q # p => call'[q] = call[q]
  BY OverCall
<1>3. e = Append(h, b) /\ h \in History /\ b \in Body /\ e \in History
  <2>1. call[p].snap \in Seq(History) /\ call[p].todo \in History /\ e \in History
    BY <1>1 DEF Call
  <2> QED BY <2>1, <1>1, EndOf, HeadTailProperties DEF CallOK, History
<1>4. CaseOf(e) = CaseAfter(case[p], b)
  <2>1. CaseOf(h) = case[p]
    BY <1>1 DEF DecInv, Sends
  <2> QED BY <2>1, <1>3, CaseOfAppend
<1>5. view' = [view EXCEPT ![p] = e] /\ case' = [case EXCEPT ![p] = CaseAfter(@, b)]
  <2>1. call'[p].pc # "snapshot"
    BY <1>2
  <2>2. call' # [call EXCEPT ![p] =
                [@ EXCEPT !.pc = "snapshot", !.todo = Tail(call[p].todo),
                          !.expected = call[p].event, !.wrote = FALSE]]
    <3> DEFINE c == [call[p] EXCEPT !.pc = "snapshot", !.todo = Tail(call[p].todo),
                                    !.expected = call[p].event, !.wrote = FALSE]
    <3>1. c.pc = "snapshot"
      BY <1>1 DEF Call
    <3> HIDE DEF c
    <3>2. call' # [call EXCEPT ![p] = c]
      BY <2>1, <3>1 DEF IInv, TypeOK
    <3> QED BY <3>2 DEF c
  <2> QED BY <2>2 DEF VerifyAppend
<1>6. /\ view'[p] = e /\ case'[p] = CaseOf(e)
      /\ \A q \in Process : q # p => view'[q] = view[q] /\ case'[q] = case[q]
  BY <1>4, <1>5 DEF IInv, TypeOK
<1>7. Prefix(e, End(stream))
  BY <1>1, <1>3, PrefixSelf
<1> HIDE DEF e, h, b
<1>8. Knows(p)'
  BY <1>1, <1>6, <1>7 DEF DecInv, Knows, End
<1>9. \A q \in Process : q # p => Knows(q)'
  BY <1>1, <1>6 DEF DecInv, Knows, End
<1>10. \A q \in Process : Sends(call[q], case[q])'
  <2>1. Sends(call'[p], case'[p])
    BY <1>2 DEF Sends
  <2> QED BY <2>1, <1>2, <1>6 DEF DecInv, Sends
<1> QED BY <1>1, <1>8, <1>9, <1>10 DEF DecInv, End

LEMMA DecisionRead ==
    ASSUME Synced, IInv, DecInv, NEW p \in Process, Read(p) \/ Decide(p)
    PROVE  DecInv'
<1>1. call' = call /\ stream' = stream /\ call[p].pc = "idle"
  BY DEF Read, Decide, Idle
<1>2. CASE Read(p)
  <2>1. End(stream) \in History
    BY <1>2, EndOf DEF Read, IInv, TypeOK
  <2>2. /\ view'[p] = End(stream) /\ case'[p] = CaseOf(End(stream))
        /\ \A q \in Process : q # p => view'[q] = view[q] /\ case'[q] = case[q]
        /\ decided' = decided
    BY <1>2 DEF Read, IInv, TypeOK
  <2>3. Knows(p)'
    BY <1>1, <2>1, <2>2, PrefixSelf DEF DecInv, Knows, End
  <2>4. \A q \in Process : q # p => Knows(q)'
    BY <1>1, <2>2 DEF DecInv, Knows, End
  <2>5. \A q \in Process : Sends(call[q], case[q])'
    <3>1. Sends(call'[p], case'[p])
      BY <1>1 DEF Sends
    <3> QED BY <3>1, <1>1, <2>2 DEF DecInv, Sends
  <2> QED BY <1>1, <2>3, <2>4, <2>5 DEF DecInv, End
<1>3. CASE Decide(p)
  <2>1. /\ decided'[p].position = Len(view[p]) /\ decided'[p].epoch = case[p].epoch
        /\ \A q \in Process : q # p => decided'[q] = decided[q]
        /\ view' = view /\ case' = case
    BY <1>3 DEF Decide, IInv, TypeOK
  <2>2. Knows(p)'
    BY <1>1, <2>1 DEF DecInv, Knows, Prefix, End
  <2>3. \A q \in Process : q # p => Knows(q)'
    BY <1>1, <2>1 DEF DecInv, Knows, End
  <2> QED BY <1>1, <2>1, <2>2, <2>3 DEF DecInv, Sends, End
<1> QED BY <1>2, <1>3

(* A new process, or one that died: it knows nothing, and no case is new.   *)
LEMMA CaseOfNothing == CaseOf(<<>>) = NewCase
<1>1. Len(<<>>) = 0
  BY EmptySeq
<1>2. \A types : LastOf(<<>>, types) = 0
  BY <1>1 DEF LastOf
<1> QED BY <1>2 DEF CaseOf, NewCase

LEMMA DecisionCrash ==
    ASSUME IInv, DecInv, NEW p \in Process, Crash(p)
    PROVE  DecInv'
<1>1. /\ view'[p] = <<>> /\ case'[p] = NewCase /\ stream' = stream
      /\ decided'[p].position = 0 /\ decided'[p].epoch = 0
      /\ \A q \in Process : q # p => /\ view'[q] = view[q] /\ case'[q] = case[q]
                                     /\ decided'[q] = decided[q]
  BY DEF Crash, IInv, TypeOK
<1>2. call'[p].pc = "idle" /\ \A q \in Process : q # p => call'[q] = call[q]
  BY OverCall
<1>3. /\ Len(<<>>) = 0 /\ Len(End(stream)) \in Nat
      /\ SubSeq(End(stream), 1, 0) = <<>>
  BY EmptySeq, SubSeqEmpty, EndOf, LenProperties DEF IInv, TypeOK, Decodable, History
<1>4. Prefix(<<>>, End(stream))
  BY <1>3 DEF Prefix
<1>5. Knows(p)'
  <2>1. CaseOf(<<>>) = NewCase /\ NewCase.epoch = 0
    BY CaseOfNothing DEF NewCase
  <2>2. End(stream)' = End(stream)
    BY <1>1 DEF End
  <2> DEFINE e == End(stream)
  <2> HIDE DEF e
  <2>3. /\ Prefix(<<>>, e) /\ Len(e) \in Nat /\ SubSeq(e, 1, 0) = <<>> /\ End(stream)' = e
    BY <1>3, <1>4, <2>2 DEF e
  <2>4. 0 <= Len(e)
    BY <2>3
  <2> QED BY <1>1, <2>1, <2>3, <2>4 DEF Knows
<1>6. \A q \in Process : q # p => Knows(q)'
  BY <1>1 DEF DecInv, Knows, End
<1>7. \A q \in Process : Sends(call[q], case[q])'
  BY <1>1, <1>2 DEF DecInv, Sends
<1> QED BY <1>1, <1>5, <1>6, <1>7 DEF DecInv, End

(* A call that is over, whatever it replied, knows no more and no less.     *)
LEMMA DecisionOver ==
    ASSUME IInv, DecInv, NEW p \in Process,
           (\E reply \in {"ok", "refused", "doubt"} : Fail(p, reply)) \/ VerifyRestore(p)
    PROVE  DecInv'
<1>1. \E reply \in {"ok", "refused", "doubt"} : Finish(p, reply)
  BY DEF Fail, VerifyRestore
<1>2. UNCHANGED <<stream, view, case, decided>>
  BY DEF Fail, VerifyRestore
<1>3. call'[p].pc = "idle" /\ \A q \in Process : q # p => call'[q] = call[q]
  BY <1>1, OverCall
<1>4. Sends(call'[p], case'[p])
  BY <1>3 DEF Sends
<1> QED BY <1>2, <1>3, <1>4 DEF DecInv, Knows, End

LEMMA DecisionSnapshot ==
    ASSUME IInv, DecInv, NEW p \in Process, Snapshot(p), ~Fail(p, "refused")
    PROVE  DecInv'
<1>1. Sends(call'[p], case'[p])
  BY SnapshotCall DEF DecInv, Sends
<1> QED BY <1>1, SnapshotCall DEF DecInv, Knows, End

LEMMA DecisionNext ==
    ASSUME Synced, \A b \in Bundles : SoundHistory(b), IInv, DecInv, [Next]_vars
    PROVE  DecInv'
<1>1. ASSUME NEW p \in Process, NEW b \in Bundles, RestoreCase(p, b) PROVE DecInv'
  <2>1. Sends(call'[p], case'[p])
    BY <1>1, RestoreCall DEF Sends
  <2> QED BY <1>1, <2>1, RestoreCall DEF DecInv, Knows, End
<1>2. ASSUME NEW p \in Process, VerifyAppend(p) PROVE DecInv'
  BY <1>2, DecisionAppended, DecisionNextAppend
<1>3. CASE UNCHANGED vars
  BY <1>3 DEF vars, DecInv, Knows, End
<1> QED BY <1>1, <1>2, <1>3, DecisionLifecycle, DecisionRead, DecisionOver, DecisionCrash,
           DecisionWrite, DecisionSnapshot, Steps DEF Next

LEMMA InitDec == Init => DecInv
<1> SUFFICES ASSUME Init PROVE DecInv
  OBVIOUS
<1>1. stream = <<>> /\ End(stream) = <<>> /\ Len(<<>>) = 0 /\ SubSeq(<<>>, 1, 0) = <<>>
  BY EmptySeq, SubSeqEmpty DEF Init, End
<1>2. SoundHistory(<<>>)
  BY <1>1 DEF SoundHistory
<1>3. Prefix(<<>>, <<>>)
  BY <1>1 DEF Prefix
<1>4. ASSUME NEW p \in Process PROVE Knows(p)
  <2>1. /\ view[p] = <<>> /\ case[p] = NewCase
        /\ decided[p].position = 0 /\ decided[p].epoch = 0
    BY DEF Init
  <2>2. CaseOf(<<>>) = NewCase /\ NewCase.epoch = 0
    BY CaseOfNothing DEF NewCase
  <2> DEFINE e == End(stream)
  <2> HIDE DEF e
  <2>3. e = <<>> /\ Len(e) = 0 /\ SubSeq(e, 1, 0) = <<>> /\ Prefix(<<>>, e)
    BY <1>1, <1>3 DEF e
  <2>4. Knows(p) <=> /\ Prefix(view[p], e)
                     /\ case[p] = CaseOf(view[p])
                     /\ decided[p].position <= Len(e)
                     /\ decided[p].epoch = CaseOf(SubSeq(e, 1, decided[p].position)).epoch
    BY DEF Knows, e
  <2>5. Prefix(view[p], e) /\ decided[p].position <= Len(e)
    BY <2>1, <2>3
  <2>6. SubSeq(e, 1, decided[p].position) = <<>>
    BY <2>1, <2>3
  <2>7. /\ CaseOf(view[p]) = NewCase
        /\ CaseOf(SubSeq(e, 1, decided[p].position)).epoch = decided[p].epoch
    BY <2>1, <2>2, <2>6
  <2> QED BY <2>1, <2>4, <2>5, <2>7
<1>5. ASSUME NEW p \in Process PROVE Sends(call[p], case[p])
  BY DEF Init, NoCall, Sends
<1> QED BY <1>1, <1>2, <1>4, <1>5 DEF DecInv

(* Assessments and decisions of any number of processes hold for the history *)
(* they end up in - if the callers' Cases follow the events they read, and   *)
(* the decisions of the bundles restored hold for those.                    *)
THEOREM Decisions ==
    ASSUME Synced, \A b \in Bundles : SoundHistory(b)
    PROVE  Spec => []DecisionsSound
<1>1. Init => DecInv
  BY InitDec
<1>2. IInv /\ DecInv /\ [Next]_vars => DecInv'
  BY DecisionNext
<1>3. DecInv => DecisionsSound
  BY DEF DecInv, DecisionsSound, SoundHistory
<1> QED BY <1>1, <1>2, <1>3, Invariant, PTL DEF Spec
=============================================================================
