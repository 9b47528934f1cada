------------------------ MODULE PrivateEvidence_proofs ------------------------
(***************************************************************************)
(* Theorems about PrivateEvidence: types, that what was returned stays      *)
(* stored, that published capsules restore, and that an issued recovery set *)
(* loses no member but with a device.                                      *)
(*                                                                         *)
(* Two invariants.  SInv is about the directory and its writers: an attempt *)
(* number has one writer, so evidence its writer is done with is Settled -  *)
(* nobody has it to write or to remove any more - and indexes, derivations  *)
(* and results only ever name settled evidence.  RInv is about builders,    *)
(* capsules and sets: a build number belongs to one job or one set, what a  *)
(* builder scans contains what had been returned before it began, and a     *)
(* member that is missing where its job or set had put it was lost, or was  *)
(* removed in the place of a member that was.                              *)
(***************************************************************************)
EXTENDS PrivateEvidence, FiniteSetTheorems, TLAPS

WriteJob == [pc : Writes, todo : Seq(File), result : Result]
BuildJob == [pc : Builds, no : 1..MaxCalls, places : Targets, before : SUBSET Result,
             base : SUBSET File, seen : SUBSET File, lo : SUBSET File, hi : SUBSET File,
             keys : SUBSET Key, staged : Seq(SUBSET File), published : 0..2]
Job == {Idle} \cup WriteJob \cup BuildJob

(* What a job has still to write. *)
Todo(j) == IF j.pc \in Writes THEN {j.todo[i] : i \in 1..Len(j.todo)} ELSE {}

IsEvidence(f) == f[1] \in {"object", "manifest", "receipt"}
Evidence(n) == {<<"object", n>>, <<"manifest", n>>, <<"receipt", n>>}
AttemptOf(f) == IF IsEvidence(f) THEN f[2] ELSE f[3]

(* A complete file that nobody has to write or may remove. *)
Stored(f) == f \in whole /\ \A p \in Process : f \notin Todo(job[p])
Settled(n) == \A e \in Evidence(n) : Stored(e)

Indexed(s, id) == \E f \in whole : f[1] = "index" /\ f[2] = s /\ made[f[3]].id = id

Belongs(f, r) ==
    \/ f \in Evidence(r.ref)
    \/ f = <<"index", r.source, r.ref>>
    \/ f = <<"derivation", r.of, r.ref>>

EvidenceFirst(s) ==
    \A i, k \in 1..Len(s) : i < k /\ IsEvidence(s[k]) => IsEvidence(s[i])

(* What a writer is done with is stored, indexed and derived. *)
WriterOK(p) ==
    LET j == job[p]
        r == j.result
    IN  /\ j.todo # <<>> /\ EvidenceFirst(j.todo)
        /\ \A f \in Todo(j) : Belongs(f, r)
        /\ r.ref <= Len(made)
        /\ \A e \in Evidence(r.ref) : e \in Todo(j) \/ Stored(e)
        /\ r.of # 0 =>
              /\ Settled(r.of)
              /\ ~syncFailed => <<"derivation", r.of, r.ref>> \in Todo(j) \cup whole
        /\ ~syncFailed => \/ <<"index", r.source, r.ref>> \in Todo(j) /\ made[r.ref].id = r.id
                          \/ Indexed(r.source, r.id)

Creating(j) == j.pc \in {"fill", "sync"}
HeadOK(p) ==
    /\ job[p].pc = "fill" => Head(job[p].todo) \in files \ whole
    /\ job[p].pc = "sync" => Head(job[p].todo) \in whole

BoundIn(f) ==
    /\ f[1] = "index" => Settled(f[3])
    /\ f[1] = "derivation" => Settled(f[2]) /\ Settled(f[3])

(* What a result that was returned relies on. *)
Kept(r) ==
    /\ Settled(r.ref)
    /\ ~syncFailed => /\ r.of # 0 => <<"derivation", r.of, r.ref>> \in whole
                      /\ Indexed(r.source, r.id)

Exclusive ==
    \A p, q \in Process : p # q =>
        /\ \A f \in Todo(job[p]) \cap Todo(job[q]) : ~IsEvidence(f) /\ f[1] # "index"
        /\ Creating(job[p]) /\ Creating(job[q]) => Head(job[p].todo) # Head(job[q].todo)

STypes ==
    /\ files \subseteq File /\ whole \subseteq files /\ PathsUnique(files)
    /\ made \in Seq(Made) /\ builds \in Nat /\ Len(made) + builds <= MaxCalls
    /\ returned \subseteq Result /\ syncFailed \in BOOLEAN
    /\ job \in [Process -> Job]

SInv ==
    /\ STypes
    /\ \A f \in files : AttemptOf(f) <= Len(made) /\ BoundIn(f)
    /\ \A p \in Process : job[p].pc \in Writes => WriterOK(p) /\ HeadOK(p)
    /\ Exclusive
    /\ \A r \in returned : Kept(r)

-----------------------------------------------------------------------------
(* Directories whose manifests belong to attempts made so far. *)
Known(D) == \A n \in Having(D, "manifest") : n <= Len(made)

Scanning(j) == j.pc \in {"verify", "snapshot", "copy"}

BuilderOK(p) ==
    LET j == job[p]
    IN  /\ j.no <= builds /\ j.before \subseteq returned /\ j.seen \subseteq j.base
        /\ \A k \in 1..Len(j.staged) :
              /\ j.staged[k] = j.staged[1] /\ Known(j.staged[k])
              /\ \A r \in j.before : Holds(j.staged[k], r)
        /\ Scanning(j) =>
              /\ Len(j.staged) < Len(j.places) /\ j.published = 0
              /\ Known(j.base) /\ Known(j.lo)
              /\ \A r \in j.before : Holds(j.base, r)
        /\ ~Scanning(j) =>
              Len(j.staged) = Len(j.places) /\ CapsuleVerified(j.staged[1], j.keys)
        /\ j.pc = "publish" => j.published < Len(j.places)
        /\ j.pc = "confirm" => j.published = 2 /\ Len(j.places) = 2

MemberOK(d) ==
    LET m == members[d]
    IN  /\ m.no <= builds
        /\ CapsuleVerified(m.files, m.keys) /\ Known(m.files)
        /\ \A r \in m.before : Holds(m.files, r)

SetOK(st) ==
    /\ st.no <= builds /\ Len(st.places) = 2 /\ st.before \subseteq returned
    /\ Known(st.files) /\ \A r \in st.before : Holds(st.files, r)

(* A build number belongs to one job or one set, and members that carry it   *)
(* are copies of what that job staged or that set holds.                    *)
Numbers ==
    /\ \A p, q \in Process : p # q /\ job[p].pc \in Builds /\ job[q].pc \in Builds
                                => job[p].no # job[q].no
    /\ \A p \in Process, st \in sets : job[p].pc \in Builds => job[p].no # st.no
    /\ \A st, su \in sets : st.no = su.no => st = su
    /\ \A d \in Device : members[d] # None =>
          /\ \A st \in sets : members[d].no = st.no => members[d].files = st.files
          /\ \A p \in Process : job[p].pc \in Builds /\ members[d].no = job[p].no =>
                ~Scanning(job[p]) /\ members[d].files = job[p].staged[1]

(* Where a build or a set has put a member, and where it is gone from. *)
Has(st, n, d) == st.no = n /\ \E k \in 1..2 : st.places[k] = d
Puts(j, n, d) == j.pc \in Builds /\ j.no = n /\ \E k \in 1..j.published : j.places[k] = d
Claimed(n, d) ==
    \/ \E st \in sets : Has(st, n, d)
    \/ \E p \in Process : Puts(job[p], n, d)
At(d, n) == members[d] # None /\ members[d].no = n
Absent == {c \in (1..MaxCalls) \X Device : Claimed(c[1], c[2]) /\ ~At(c[2], c[1])}

RTypes ==
    /\ losses \in 0..MaxLosses
    /\ members \in [Device -> Capsule \cup {None}]
    /\ sets \subseteq RecoverySet

RInv ==
    /\ RTypes
    /\ \A p \in Process : job[p].pc \in Builds => BuilderOK(p)
    /\ \A d \in Device : members[d] # None => MemberOK(d)
    /\ \A st \in sets : SetOK(st)
    /\ Numbers
    /\ IsFiniteSet(Absent) /\ Cardinality(Absent) <= losses

-----------------------------------------------------------------------------
(* Files and what is left to write.                                        *)

LEMMA FileKinds ==
    ASSUME NEW f \in File
    PROVE  /\ AttemptOf(f) \in Attempt
           /\ \/ IsEvidence(f) /\ f[2] \in Attempt /\ f \in Evidence(f[2])
              \/ /\ ~IsEvidence(f) /\ f[1] = "index" /\ f = <<"index", f[2], f[3]>>
                 /\ f[2] \in AnySource /\ f[3] \in Attempt
              \/ /\ ~IsEvidence(f) /\ f[1] = "derivation" /\ f = <<"derivation", f[2], f[3]>>
                 /\ f[2] \in Attempt /\ f[3] \in Attempt
<1>1. CASE f \in {"object", "manifest", "receipt"} \X Attempt
  BY <1>1 DEF IsEvidence, Evidence, AttemptOf
<1>2. CASE f \in {"index"} \X AnySource \X Attempt
  BY <1>2 DEF IsEvidence, AttemptOf
<1>3. CASE f \in {"derivation"} \X Attempt \X Attempt
  BY <1>3 DEF IsEvidence, AttemptOf
<1> QED BY <1>1, <1>2, <1>3 DEF File

LEMMA EvidenceIs ==
    ASSUME NEW n, NEW e \in Evidence(n)
    PROVE  /\ IsEvidence(e) /\ e[2] = n /\ AttemptOf(e) = n
           /\ e[1] # "index" /\ e[1] # "derivation"
           /\ n \in Attempt => e \in File
BY DEF Evidence, IsEvidence, AttemptOf, File

LEMMA ReadableIs ==
    ASSUME NEW D, NEW n
    PROVE  Readable(D, n) <=> Evidence(n) \subseteq D
BY DEF Readable, Evidence

LEMMA SettledReadable ==
    ASSUME NEW n, Settled(n)
    PROVE  Readable(whole, n)
BY ReadableIs DEF Settled, Stored

(* The kinds of jobs are told apart by their step. *)
LEMMA JobKinds ==
    ASSUME NEW j \in Job
    PROVE  /\ j.pc \in Writes => j \in WriteJob
           /\ j.pc \in Builds => j \in BuildJob
           /\ j.pc \notin Writes /\ j.pc \notin Builds => j = Idle
<1>1. Idle.pc = "idle"
  BY DEF Idle
<1>2. j \in WriteJob => j.pc \in Writes
  BY DEF WriteJob
<1>3. j \in BuildJob => j.pc \in Builds
  BY DEF BuildJob
<1> QED BY <1>1, <1>2, <1>3 DEF Job, Writes, Builds

LEMMA IdleTodo == Todo(Idle) = {} /\ Idle.pc \notin Writes /\ Idle.pc \notin Builds
BY DEF Todo, Idle, Writes, Builds

LEMMA TodoIs ==
    ASSUME NEW j \in WriteJob, j.todo # <<>>
    PROVE  /\ Head(j.todo) \in Todo(j) /\ Todo(j) \subseteq File
           /\ Todo(j) = {j.todo[i] : i \in 1..Len(j.todo)}
           /\ j.pc \in Writes
<1>1. j.pc \in Writes /\ j.todo \in Seq(File)
  BY DEF WriteJob
<1>2. Todo(j) = {j.todo[i] : i \in 1..Len(j.todo)}
  BY <1>1 DEF Todo
<1>3. Head(j.todo) = j.todo[1] /\ 1 \in 1..Len(j.todo)
  BY <1>1
<1>4. \A i \in 1..Len(j.todo) : j.todo[i] \in File
  BY <1>1
<1> QED BY <1>1, <1>2, <1>3, <1>4

LEMMA TailTodo ==
    ASSUME NEW j \in WriteJob, j.todo # <<>>
    PROVE  /\ Tail(j.todo) = <<>> => Todo(j) = {Head(j.todo)}
           /\ Tail(j.todo) # <<>> =>
                LET k == [j EXCEPT !.pc = "open", !.todo = Tail(j.todo)]
                IN  /\ k \in WriteJob /\ k.pc = "open" /\ k.result = j.result
                    /\ k.todo = Tail(j.todo)
                    /\ Todo(j) = Todo(k) \cup {Head(j.todo)}
                    /\ EvidenceFirst(j.todo) => EvidenceFirst(k.todo)
<1> DEFINE s == j.todo
           n == Len(s)
<1>1. s \in Seq(File) /\ n \in Nat \ {0} /\ Head(s) = s[1]
  BY DEF WriteJob
<1>2. Tail(s) \in Seq(File) /\ Len(Tail(s)) = n - 1
      /\ \A i \in 1..(n - 1) : Tail(s)[i] = s[i + 1]
  BY <1>1
<1>3. Todo(j) = {s[i] : i \in 1..n}
  BY TodoIs
<1>4. ASSUME Tail(s) = <<>> PROVE Todo(j) = {Head(s)}
  <2>1. n = 1
    <3>1. Len(<<>>) = 0
      OBVIOUS
    <3>2. Len(Tail(s)) = 0
      BY <1>4, <3>1, Zenon
    <3>3. n - 1 = 0
      BY <1>2, <3>2
    <3> QED BY <1>1, <3>3
  <2>2. \A i : i \in 1..n <=> i = 1
    BY <2>1
  <2> HIDE DEF n, s
  <2> QED BY <1>1, <1>3, <2>2
<1>5. ASSUME Tail(s) # <<>>
      PROVE  LET k == [j EXCEPT !.pc = "open", !.todo = Tail(s)]
             IN  /\ k \in WriteJob /\ k.pc = "open" /\ k.result = j.result
                 /\ k.todo = Tail(s)
                 /\ Todo(j) = Todo(k) \cup {Head(s)}
                 /\ EvidenceFirst(s) => EvidenceFirst(k.todo)
  <2> DEFINE k == [j EXCEPT !.pc = "open", !.todo = Tail(s)]
  <2>1. k \in WriteJob /\ k.pc = "open" /\ k.result = j.result /\ k.todo = Tail(s)
    BY <1>2 DEF WriteJob, Writes
  <2> HIDE DEF k
  <2>2. Todo(k) = {k.todo[i] : i \in 1..(n - 1)}
    BY <1>2, <1>5, <2>1, TodoIs
  <2> HIDE DEF n, s
  <2>3. \A i \in 1..n : i = 1 \/ (i - 1 \in 1..(n - 1) /\ (i - 1) + 1 = i)
    BY <1>1
  <2>4. \A i \in 1..(n - 1) : i + 1 \in 1..n
    BY <1>1
  <2>5. \A i \in 1..(n - 1) : k.todo[i] = s[i + 1]
    BY <1>2, <2>1
  <2>6. Todo(j) = Todo(k) \cup {Head(s)}
    <3>1. ASSUME NEW x \in Todo(j) PROVE x \in Todo(k) \cup {Head(s)}
      <4>1. PICK i \in 1..n : x = s[i]
        BY <1>3
      <4>2. CASE i = 1
        BY <1>1, <4>1, <4>2
      <4>3. CASE i # 1
        BY <1>2, <2>1, <2>2, <2>3, <4>1, <4>3
      <4> QED BY <4>2, <4>3
    <3>2. ASSUME NEW x \in Todo(k) PROVE x \in Todo(j)
      BY <1>3, <2>2, <2>4, <2>5
    <3>3. Head(s) \in Todo(j)
      BY <1>1, <1>3
    <3> QED BY <3>1, <3>2, <3>3
  <2>7. ASSUME EvidenceFirst(s) PROVE EvidenceFirst(k.todo)
    <3> SUFFICES ASSUME NEW i \in 1..(n - 1), NEW m \in 1..(n - 1), i < m,
                        IsEvidence(k.todo[m])
                 PROVE  IsEvidence(k.todo[i])
      BY <1>2, <2>1 DEF EvidenceFirst
    <3>1. k.todo[m] = s[m + 1] /\ k.todo[i] = s[i + 1] /\ i + 1 < m + 1
          /\ m + 1 \in 1..n /\ i + 1 \in 1..n
      BY <1>1, <2>4, <2>5
    <3> QED BY <2>7, <3>1 DEF EvidenceFirst, n
  <2> QED BY <2>1, <2>6, <2>7 DEF k
<1> QED BY <1>4, <1>5

(* With evidence ahead of everything else, an index or a derivation at the  *)
(* head means that no evidence is left.                                     *)
LEMMA HeadLast ==
    ASSUME NEW j \in WriteJob, j.todo # <<>>, EvidenceFirst(j.todo), ~IsEvidence(Head(j.todo))
    PROVE  \A f \in Todo(j) : ~IsEvidence(f)
<1>1. j.todo \in Seq(File) /\ Head(j.todo) = j.todo[1] /\ Len(j.todo) \in Nat
  BY DEF WriteJob
<1>2. ASSUME NEW i \in 1..Len(j.todo) PROVE ~IsEvidence(j.todo[i])
  <2>1. i = 1 \/ (1 < i /\ 1 \in 1..Len(j.todo))
    BY <1>1
  <2> QED BY <1>1, <2>1 DEF EvidenceFirst
<1> QED BY <1>2, TodoIs

-----------------------------------------------------------------------------
(* What every step keeps of the directory: attempts stay what they are, only *)
(* a file somebody has still to write is removed, the removal of a complete *)
(* one is a failed fsync, and old evidence is never written again.          *)
GoesOn ==
    /\ made' \in Seq(Made)
    /\ Len(made) <= Len(made') /\ \A n \in 1..Len(made) : made'[n] = made[n]
    /\ \A f \in whole : f \in whole' \/ \E p \in Process : f \in Todo(job[p])
    /\ ~syncFailed' => ~syncFailed /\ whole \subseteq whole'
    /\ \A p \in Process : \A f \in Todo(job'[p]) :
          f \in Todo(job[p]) \/ ~IsEvidence(f) \/ f[2] > Len(made)

LEMMA SettledNumber ==
    ASSUME SInv, NEW n, Settled(n)
    PROVE  n \in Attempt /\ n <= Len(made) /\ Evidence(n) \subseteq whole
<1>1. <<"object", n>> \in files
  BY DEF SInv, STypes, Settled, Stored, Evidence
<1>2. AttemptOf(<<"object", n>>) = n
  BY DEF AttemptOf, IsEvidence
<1>3. n \in Attempt /\ n <= Len(made)
  BY <1>1, <1>2, FileKinds DEF SInv, STypes
<1> QED BY <1>3 DEF Settled, Stored

LEMMA StoredKept ==
    ASSUME SInv, GoesOn, NEW n, n <= Len(made), n \in Attempt, NEW f \in Evidence(n), Stored(f)
    PROVE  Stored(f)'
<1>1. IsEvidence(f) /\ f[2] = n
  BY EvidenceIs
<1>2. Len(made) \in Nat /\ n \in Nat
  BY DEF SInv, STypes, Attempt
<1>3. ~(f[2] > Len(made))
  BY <1>1, <1>2
<1>4. \A p \in Process : f \notin Todo(job'[p])
  BY <1>1, <1>3 DEF GoesOn, Stored
<1>5. f \in whole'
  BY DEF GoesOn, Stored
<1> QED BY <1>4, <1>5 DEF Stored, Todo

LEMMA SettledKept ==
    ASSUME SInv, GoesOn, NEW n, Settled(n)
    PROVE  Settled(n)'
<1>1. n \in Attempt /\ n <= Len(made)
  BY SettledNumber
<1>2. \A f \in Evidence(n) : Stored(f)'
  BY <1>1, StoredKept DEF Settled
<1> QED BY <1>2 DEF Settled, Evidence

LEMMA IndexedKept ==
    ASSUME SInv, GoesOn, ~syncFailed', NEW s, NEW id, Indexed(s, id)
    PROVE  Indexed(s, id)'
<1>1. PICK f \in whole : f[1] = "index" /\ f[2] = s /\ made[f[3]].id = id
  BY DEF Indexed
<1>2. f \in File /\ f \in files /\ ~IsEvidence(f)
  BY <1>1 DEF SInv, STypes, IsEvidence
<1>3. f[3] \in 1..Len(made)
  <2>1. f[3] \in Attempt /\ f[3] <= Len(made)
    BY <1>1, <1>2, FileKinds DEF SInv, AttemptOf
  <2>2. Len(made) \in Nat /\ MaxCalls \in Nat
    BY BoundsAssumption DEF SInv, STypes
  <2> QED BY <2>1, <2>2 DEF Attempt
<1>4. made'[f[3]] = made[f[3]] /\ f \in whole'
  BY <1>3 DEF GoesOn
<1> QED BY <1>1, <1>4 DEF Indexed

LEMMA KeptKept ==
    ASSUME SInv, GoesOn, NEW r, Kept(r)
    PROVE  Kept(r)'
<1>1. Settled(r.ref)'
  BY SettledKept DEF Kept
<1>2. ASSUME ~syncFailed'
      PROVE  (r.of # 0 => <<"derivation", r.of, r.ref>> \in whole') /\ Indexed(r.source, r.id)'
  <2>1. ~syncFailed /\ whole \subseteq whole'
    BY <1>2 DEF GoesOn
  <2> QED BY <1>2, <2>1, IndexedKept DEF Kept
<1> QED BY <1>1, <1>2 DEF Kept

LEMMA BoundKept ==
    ASSUME SInv, GoesOn, NEW f, BoundIn(f)
    PROVE  BoundIn(f)'
BY SettledKept DEF BoundIn

(* A writer with the same files to write is as it was. *)
LEMMA WriterKept ==
    ASSUME SInv, GoesOn, NEW p \in Process, job[p].pc \in Writes, job'[p].pc \in Writes,
           job'[p].todo = job[p].todo, job'[p].result = job[p].result
    PROVE  WriterOK(p)'
<1> DEFINE j == job[p]
           r == j.result
<1>1. WriterOK(p) /\ j \in WriteJob /\ j.todo # <<>>
      /\ Len(made) \in Nat /\ Len(made') \in Nat /\ Len(made) <= Len(made')
  <2>1. WriterOK(p) /\ j \in Job
    BY DEF SInv, STypes
  <2>2. j \in WriteJob /\ j.todo # <<>>
    BY <2>1, JobKinds DEF WriterOK
  <2> QED BY <2>1, <2>2 DEF SInv, STypes, GoesOn
<1>2. Todo(job[p])' = Todo(job[p])
  BY DEF Todo
<1>3. r.ref \in Attempt /\ r.ref \in 1..Len(made)
  <2>1. r.ref \in Attempt
    BY <1>1 DEF WriteJob, Result
  <2>2. r.ref <= Len(made)
    BY <1>1 DEF WriterOK
  <2> QED BY <1>1, <2>1, <2>2 DEF Attempt
<1>4. r.ref <= Len(made')
  BY <1>1, <1>3 DEF GoesOn
<1>5. \A e \in Evidence(r.ref) : e \in Todo(j) \/ Stored(e)'
  BY <1>1, <1>3, StoredKept DEF WriterOK
<1>6. r.of # 0 => Settled(r.of)'
  BY <1>1, SettledKept DEF WriterOK
<1>7. ~syncFailed' => ~syncFailed /\ whole \subseteq whole'
  BY DEF GoesOn
<1>8. made'[r.ref] = made[r.ref]
  BY <1>3 DEF GoesOn
<1>9. ~syncFailed' /\ Indexed(r.source, r.id) => Indexed(r.source, r.id)'
  BY IndexedKept
<1> QED BY <1>1, <1>2, <1>4, <1>5, <1>6, <1>7, <1>8, <1>9 DEF WriterOK

LEMMA Writers ==
    ASSUME SInv, NEW p \in Process, job[p].pc \in Writes
    PROVE  /\ job[p] \in WriteJob /\ job[p].todo # <<>> /\ WriterOK(p) /\ HeadOK(p)
           /\ job[p].todo \in Seq(File) /\ job[p].result \in Result
           /\ job[p].result.ref \in Attempt
           /\ Head(job[p].todo) \in Todo(job[p]) /\ Todo(job[p]) \subseteq File
           /\ \A f \in Todo(job[p]) : AttemptOf(f) = job[p].result.ref
<1>1. job[p] \in WriteJob /\ job[p].todo # <<>> /\ WriterOK(p) /\ HeadOK(p)
  BY JobKinds DEF SInv, STypes, WriterOK
<1>2. job[p].todo \in Seq(File) /\ job[p].result \in Result
  BY <1>1 DEF WriteJob
<1>3. job[p].result.ref \in Attempt
  BY <1>2 DEF Result
<1>4. Head(job[p].todo) \in Todo(job[p]) /\ Todo(job[p]) \subseteq File
  BY <1>1, TodoIs
<1>5. ASSUME NEW f \in Todo(job[p]) PROVE AttemptOf(f) = job[p].result.ref
  <2>1. Belongs(f, job[p].result)
    BY <1>1 DEF WriterOK
  <2> QED BY <2>1, EvidenceIs DEF Belongs, AttemptOf, IsEvidence
<1> QED BY <1>1, <1>2, <1>3, <1>4, <1>5

(* No file of an attempt still to come is in the directory or to be written. *)
LEMMA Numbered ==
    ASSUME SInv, NEW p \in Process, NEW f \in Todo(job[p])
    PROVE  f \in File /\ AttemptOf(f) \in Nat /\ AttemptOf(f) <= Len(made) /\ job[p].pc \in Writes
<1>1. job[p].pc \in Writes
  BY DEF Todo
<1>2. f \in File /\ AttemptOf(f) = job[p].result.ref /\ job[p].result.ref <= Len(made)
      /\ job[p].result.ref \in Attempt
  BY <1>1, Writers DEF WriterOK
<1> QED BY <1>1, <1>2 DEF Attempt

(* One process moves; the rest of the invariant follows from what it does.  *)
LEMMA ProcessMoves ==
    ASSUME SInv, GoesOn, NEW p \in Process, NEW j \in Job, job' = [job EXCEPT ![p] = j],
           files' \subseteq File, whole' \subseteq files', PathsUnique(files'),
           builds' \in Nat, Len(made') + builds' <= MaxCalls,
           returned' \subseteq Result, syncFailed' \in BOOLEAN,
           \A f \in files' \ files : AttemptOf(f) <= Len(made') /\ BoundIn(f)',
           \A q \in Process \ {p} : Creating(job[q]) =>
                /\ Head(job[q].todo) \in files' <=> Head(job[q].todo) \in files
                /\ Head(job[q].todo) \in whole' <=> Head(job[q].todo) \in whole
                /\ Creating(j) => Head(j.todo) # Head(job[q].todo),
           j.pc \in Writes => WriterOK(p)' /\ HeadOK(p)',
           \A f \in Todo(j) : \/ f \in Todo(job[p])
                              \/ ~IsEvidence(f) /\ f[1] # "index"
                              \/ AttemptOf(f) \in Nat /\ AttemptOf(f) > Len(made),
           \A r \in returned' \ returned : Kept(r)'
    PROVE  SInv'
<1>1. job'[p] = j /\ \A q \in Process : q # p => job'[q] = job[q]
  BY DEF SInv, STypes
<1>2. STypes'
  <2>1. job' \in [Process -> Job]
    BY DEF SInv, STypes
  <2>2. made' \in Seq(Made)
    BY DEF GoesOn
  <2> QED BY <2>1, <2>2 DEF STypes, PathsUnique
<1>3. \A f \in files' : AttemptOf(f) <= Len(made') /\ BoundIn(f)'
  <2> SUFFICES ASSUME NEW f \in files', f \in files
               PROVE  AttemptOf(f) <= Len(made') /\ BoundIn(f)'
    OBVIOUS
  <2>1. AttemptOf(f) <= Len(made) /\ BoundIn(f) /\ AttemptOf(f) \in Attempt
    BY FileKinds DEF SInv, STypes
  <2>2. Len(made) \in Nat /\ Len(made') \in Nat /\ AttemptOf(f) \in Nat
        /\ Len(made) <= Len(made')
    BY <2>1 DEF SInv, STypes, GoesOn, Attempt
  <2> QED BY <2>1, <2>2, BoundKept
<1>4. ASSUME NEW q \in Process, job'[q].pc \in Writes PROVE WriterOK(q)' /\ HeadOK(q)'
  <2>1. CASE q = p
    BY <1>1, <1>4, <2>1
  <2>2. CASE q # p
    <3>1. job'[q] = job[q] /\ job[q].pc \in Writes /\ HeadOK(q)
      BY <1>1, <1>4, <2>2 DEF SInv
    <3>2. Creating(job[q]) => /\ Head(job[q].todo) \in files' <=> Head(job[q].todo) \in files
                              /\ Head(job[q].todo) \in whole' <=> Head(job[q].todo) \in whole
      BY <2>2
    <3>3. HeadOK(q)'
      BY <3>1, <3>2 DEF HeadOK, Creating
    <3> QED BY <3>1, <3>3, WriterKept
  <2> QED BY <2>1, <2>2
<1>5. ASSUME NEW q \in Process, NEW u \in Process, q # u
      PROVE  /\ \A f \in Todo(job'[q]) \cap Todo(job'[u]) : ~IsEvidence(f) /\ f[1] # "index"
             /\ Creating(job'[q]) /\ Creating(job'[u])
                    => Head(job'[q].todo) # Head(job'[u].todo)
  <2>1. ASSUME NEW v \in Process, v # p, NEW f \in Todo(j) \cap Todo(job[v])
        PROVE  ~IsEvidence(f) /\ f[1] # "index"
    <3>1. AttemptOf(f) \in Nat /\ AttemptOf(f) <= Len(made) /\ Len(made) \in Nat
      BY Numbered DEF SInv, STypes
    <3>2. ~(AttemptOf(f) > Len(made))
      BY <3>1
    <3> QED BY <2>1, <3>2 DEF SInv, Exclusive
  <2>2. CASE q = p
    BY <1>1, <1>5, <2>1, <2>2
  <2>3. CASE u = p
    BY <1>1, <1>5, <2>1, <2>3
  <2>4. CASE q # p /\ u # p
    BY <1>1, <1>5, <2>4 DEF SInv, Exclusive
  <2> QED BY <2>2, <2>3, <2>4
<1>6. Exclusive'
  BY <1>5 DEF Exclusive, Todo, Creating
<1>7. \A r \in returned' : Kept(r)'
  BY KeptKept DEF SInv
<1> QED BY <1>2, <1>3, <1>4, <1>6, <1>7 DEF SInv

-----------------------------------------------------------------------------
(* Calls that write evidence, and their files.                             *)

Files(s) == {s[i] : i \in 1..Len(s)}

LEMMA EvidenceFilesAre ==
    ASSUME NEW n \in Attempt
    PROVE  LET s == EvidenceFiles(n)
           IN  /\ s \in Seq(File) /\ Len(s) = 3
               /\ Files(s) = Evidence(n)
               /\ EvidenceFirst(s)
<1> DEFINE s == EvidenceFiles(n)
<1>1. Len(s) = 3 /\ s[1] = <<"object", n>> /\ s[2] = <<"manifest", n>> /\ s[3] = <<"receipt", n>>
  BY DEF EvidenceFiles
<1>2. s \in Seq(File)
  BY DEF EvidenceFiles, File
<1>3. \A i : i \in 1..3 <=> i = 1 \/ i = 2 \/ i = 3
  OBVIOUS
<1> HIDE DEF s
<1>4. Files(s) = Evidence(n)
  BY <1>1, <1>3 DEF Files, Evidence
<1>5. \A i \in 1..Len(s) : s[i] \in Evidence(n)
  BY <1>1, <1>3 DEF Evidence
<1>6. EvidenceFirst(s)
  BY <1>5, EvidenceIs DEF EvidenceFirst
<1> QED BY <1>1, <1>2, <1>4, <1>6 DEF s

(* What follows the evidence may be in any order. *)
LEMMA AppendedFile ==
    ASSUME NEW s \in Seq(File), NEW f \in File, ~IsEvidence(f), EvidenceFirst(s)
    PROVE  LET t == Append(s, f)
           IN  /\ t \in Seq(File) /\ Len(t) = Len(s) + 1
               /\ Files(t) = Files(s) \cup {f}
               /\ EvidenceFirst(t)
<1> DEFINE t == Append(s, f)
           n == Len(s)
<1>1. n \in Nat /\ t \in Seq(File) /\ Len(t) = n + 1 /\ t[n + 1] = f
      /\ \A i \in 1..n : t[i] = s[i]
  OBVIOUS
<1> HIDE DEF t
<1>2. \A i \in 1..Len(t) : i \in 1..n \/ i = n + 1
  BY <1>1
<1>3. \A i \in 1..n : i \in 1..Len(t)
  BY <1>1
<1>4. n + 1 \in 1..Len(t)
  BY <1>1
<1>5. Files(t) = Files(s) \cup {f}
  <2>1. Files(s) = {s[i] : i \in 1..n} /\ Files(t) = {t[i] : i \in 1..Len(t)}
    BY DEF Files
  <2> HIDE DEF n
  <2>2. ASSUME NEW x \in Files(t) PROVE x \in Files(s) \cup {f}
    BY <1>1, <1>2, <2>1
  <2>3. ASSUME NEW x \in Files(s) PROVE x \in Files(t)
    BY <1>1, <1>3, <2>1
  <2>4. f \in Files(t)
    BY <1>1, <1>4, <2>1
  <2> QED BY <2>2, <2>3, <2>4
<1>6. EvidenceFirst(t)
  <2> SUFFICES ASSUME NEW i \in 1..Len(t), NEW k \in 1..Len(t), i < k, IsEvidence(t[k])
               PROVE  IsEvidence(t[i])
    BY DEF EvidenceFirst
  <2>1. k \in 1..n
    BY <1>1, <1>2
  <2>2. i \in 1..n
    BY <1>1, <2>1
  <2> QED BY <1>1, <2>1, <2>2 DEF EvidenceFirst
<1> QED BY <1>1, <1>5, <1>6 DEF t, n

LEMMA OtherFiles ==
    /\ \A s, n : ~IsEvidence(<<"index", s, n>>) /\ AttemptOf(<<"index", s, n>>) = n
    /\ \A m, n : ~IsEvidence(<<"derivation", m, n>>) /\ AttemptOf(<<"derivation", m, n>>) = n
    /\ \A s \in AnySource, n \in Attempt : <<"index", s, n>> \in File
    /\ \A m \in Attempt, n \in Attempt : <<"derivation", m, n>> \in File
<1>1. \A s, n : <<"index", s, n>>[1] = "index" /\ <<"index", s, n>>[3] = n
  OBVIOUS
<1>2. \A m, n : <<"derivation", m, n>>[1] = "derivation" /\ <<"derivation", m, n>>[3] = n
  OBVIOUS
<1>3. \A s, n : ~IsEvidence(<<"index", s, n>>) /\ AttemptOf(<<"index", s, n>>) = n
  BY <1>1 DEF IsEvidence, AttemptOf
<1>4. \A m, n : ~IsEvidence(<<"derivation", m, n>>) /\ AttemptOf(<<"derivation", m, n>>) = n
  BY <1>2 DEF IsEvidence, AttemptOf
<1>5. \A s \in AnySource, n \in Attempt : <<"index", s, n>> \in File
  BY DEF File
<1>6. \A m \in Attempt, n \in Attempt : <<"derivation", m, n>> \in File
  BY DEF File
<1> QED BY <1>3, <1>4, <1>5, <1>6

LEMMA ImportFilesAre ==
    ASSUME NEW s \in AnySource, NEW n \in Attempt
    PROVE  LET t == ImportFiles(s, n)
           IN  /\ t \in Seq(File) /\ Len(t) = 4
               /\ Files(t) = Evidence(n) \cup {<<"index", s, n>>}
               /\ EvidenceFirst(t)
<1> DEFINE e == EvidenceFiles(n)
           f == <<"index", s, n>>
<1>1. e \in Seq(File) /\ Len(e) = 3 /\ Files(e) = Evidence(n) /\ EvidenceFirst(e)
  BY EvidenceFilesAre
<1>2. f \in File /\ ~IsEvidence(f)
  BY OtherFiles
<1>3. ImportFiles(s, n) = Append(e, f)
  BY DEF ImportFiles
<1> HIDE DEF e, f
<1>4. Files(ImportFiles(s, n)) = Evidence(n) \cup {f}
  BY <1>1, <1>2, <1>3, AppendedFile
<1>5. ImportFiles(s, n) \in Seq(File) /\ Len(ImportFiles(s, n)) = 3 + 1
      /\ EvidenceFirst(ImportFiles(s, n))
  BY <1>1, <1>2, <1>3, AppendedFile
<1> QED BY <1>4, <1>5 DEF f

LEMMA DeriveFilesAre ==
    ASSUME NEW s \in AnySource, NEW m \in Attempt, NEW n \in Attempt
    PROVE  LET t == Append(ImportFiles(s, n), <<"derivation", m, n>>)
           IN  /\ t \in Seq(File) /\ Len(t) = 5
               /\ Files(t) = Evidence(n) \cup {<<"index", s, n>>, <<"derivation", m, n>>}
               /\ EvidenceFirst(t)
<1> DEFINE e == ImportFiles(s, n)
           f == <<"derivation", m, n>>
           g == <<"index", s, n>>
<1>1. e \in Seq(File) /\ Len(e) = 4 /\ Files(e) = Evidence(n) \cup {g} /\ EvidenceFirst(e)
  BY ImportFilesAre
<1>2. f \in File /\ ~IsEvidence(f)
  BY OtherFiles
<1> HIDE DEF e, f, g
<1>3. Append(e, f) \in Seq(File) /\ Len(Append(e, f)) = 4 + 1 /\ EvidenceFirst(Append(e, f))
  BY <1>1, <1>2, AppendedFile
<1>4. Files(Append(e, f)) = Evidence(n) \cup {g, f}
  BY <1>1, <1>2, AppendedFile
<1> QED BY <1>3, <1>4 DEF e, f, g

(* A new attempt: its number is fresh, and all it relies on is settled.     *)
LEMMA WriteBegins ==
    ASSUME SInv, NEW p \in Process, job[p] = Idle,
           NEW s \in AnySource, NEW id \in Content \cup Output, NEW key \in Key,
           NEW of \in Attempt \cup {0}, NEW todo \in Seq(File), Len(todo) > 0,
           Write(p, s, id, key, of, todo), EvidenceFirst(todo),
           NEW n, n = Len(made) + 1, Evidence(n) \subseteq Files(todo),
           \A f \in Files(todo) : \/ f \in Evidence(n)
                                  \/ f = <<"index", s, n>>
                                  \/ f = <<"derivation", of, n>>,
           of # 0 => Settled(of) /\ <<"derivation", of, n>> \in Files(todo),
           ~syncFailed => <<"index", s, n>> \in Files(todo) \/ Indexed(s, id)
    PROVE  SInv'
<1> DEFINE m == [source |-> s, id |-> id, key |-> key]
           r == [source |-> s, id |-> id, ref |-> n, of |-> of]
           j == [pc |-> "open", todo |-> todo, result |-> r]
<1>1. /\ job' = [job EXCEPT ![p] = j] /\ made' = Append(made, m)
      /\ Len(made) + builds < MaxCalls
      /\ UNCHANGED <<files, whole, returned, syncFailed, builds>>
  BY DEF Write, Become, recovery
<1>2. made \in Seq(Made) /\ Len(made) \in Nat /\ builds \in Nat /\ MaxCalls \in Nat
  BY BoundsAssumption DEF SInv, STypes
<1>3. n \in Attempt /\ n \in Nat
  BY <1>1, <1>2 DEF Attempt
<1>4. m \in Made /\ m.id = id
  BY DEF Made
<1>5. r \in Result /\ r.source = s /\ r.id = id /\ r.ref = n /\ r.of = of
  BY <1>3 DEF Result
<1> HIDE DEF m, r
<1>6. made' \in Seq(Made) /\ Len(made') = n /\ made'[n] = m
      /\ \A i \in 1..Len(made) : made'[i] = made[i]
  BY <1>1, <1>2, <1>4
<1>7. j \in WriteJob /\ j.pc = "open" /\ j.todo = todo /\ j.result = r
  BY <1>5 DEF WriteJob, Writes
<1> HIDE DEF j
<1>8. todo # <<>>
  <2>1. Len(<<>>) = 0
    OBVIOUS
  <2> QED BY <2>1
<1>9. Todo(j) = Files(todo)
  BY <1>7, <1>8, TodoIs DEF Files
<1>10. Todo(job[p]) = {}
  BY IdleTodo
<1>11. \A f \in Todo(j) : Belongs(f, r) /\ AttemptOf(f) = n
  <2> SUFFICES ASSUME NEW f \in Todo(j) PROVE Belongs(f, r) /\ AttemptOf(f) = n
    OBVIOUS
  <2>1. f \in Evidence(n) \/ f = <<"index", s, n>> \/ f = <<"derivation", of, n>>
    BY <1>9
  <2> QED BY <1>5, <2>1, EvidenceIs, OtherFiles DEF Belongs
<1>12. job'[p] = j /\ \A q \in Process : q # p => job'[q] = job[q]
  BY <1>1 DEF SInv, STypes
<1>13. GoesOn
  <2>1. \A q \in Process : \A f \in Todo(job'[q]) :
            f \in Todo(job[q]) \/ ~IsEvidence(f) \/ f[2] > Len(made)
    <3> SUFFICES ASSUME NEW q \in Process, NEW f \in Todo(job'[q]), q = p
                 PROVE  ~IsEvidence(f) \/ f[2] > Len(made)
      BY <1>12
    <3>1. AttemptOf(f) = n
      BY <1>11, <1>12
    <3> QED BY <1>2, <3>1 DEF AttemptOf
  <2>2. Len(made) <= Len(made')
    BY <1>2, <1>6
  <2> QED BY <1>1, <1>6, <2>1, <2>2 DEF GoesOn
<1>14. WriterOK(p)' /\ HeadOK(p)'
  <2>1. \A e \in Evidence(n) : e \in Todo(j)
    BY <1>9
  <2>2. of # 0 => Settled(of)'
    BY <1>13, SettledKept
  <2>3. ~syncFailed' => \/ <<"index", s, n>> \in Todo(j) /\ made'[n].id = id
                        \/ Indexed(s, id)'
    BY <1>1, <1>4, <1>6, <1>9, <1>13, IndexedKept
  <2>4. n <= Len(made')
    BY <1>3, <1>6
  <2>5. Todo(job[p])' = Todo(j)
    BY <1>12 DEF Todo
  <2>6. WriterOK(p)'
    BY <1>5, <1>7, <1>8, <1>9, <1>11, <1>12, <2>1, <2>2, <2>3, <2>4, <2>5 DEF WriterOK
  <2> QED BY <1>7, <1>12, <2>6 DEF HeadOK
<1>15. \A f \in Todo(j) : AttemptOf(f) \in Nat /\ AttemptOf(f) > Len(made)
  BY <1>2, <1>3, <1>11
<1>16. ~Creating(j)
  BY <1>7 DEF Creating
<1>17. Len(made') + builds' <= MaxCalls
  BY <1>1, <1>2, <1>6
<1>18. j \in Job
  BY <1>7 DEF Job
<1>19. /\ files' \subseteq File /\ whole' \subseteq files' /\ PathsUnique(files')
       /\ returned' \subseteq Result /\ syncFailed' \in BOOLEAN /\ builds' \in Nat
       /\ files' = files /\ whole' = whole /\ returned' = returned
  BY <1>1 DEF SInv, STypes
<1> QED BY <1>1, <1>13, <1>14, <1>15, <1>16, <1>17, <1>18, <1>19, ProcessMoves

LEMMA ReturnedIs ==
    ASSUME SInv, NEW r \in returned
    PROVE  /\ Kept(r) /\ r \in Result /\ r.ref \in Attempt /\ r.of \in Attempt \cup {0}
           /\ r.source \in AnySource /\ r.id \in Content \cup Output
           /\ made[r.ref] \in Made /\ made[r.ref].key \in Key
<1>1. Kept(r) /\ r \in Result
  BY DEF SInv, STypes
<1>2. r.ref \in Attempt /\ r.ref <= Len(made)
  BY <1>1, SettledNumber DEF Kept
<1>3. Len(made) \in Nat /\ made \in Seq(Made) /\ r.ref \in 1..Len(made)
  BY <1>2 DEF SInv, STypes, Attempt
<1>4. made[r.ref] \in Made
  BY <1>3
<1> QED BY <1>1, <1>2, <1>4 DEF Result, Made

LEMMA NextAttempt ==
    ASSUME SInv, Len(made) + builds < MaxCalls
    PROVE  Len(made) + 1 \in Attempt
BY BoundsAssumption DEF SInv, STypes, Attempt

LEMMA ImportNewSInv ==
    ASSUME SInv, NEW p \in Process, NEW s \in Source, NEW id \in Content, ImportNew(p, s, id)
    PROVE  SInv'
<1>0. PICK n : n = Len(made) + 1
  OBVIOUS
<1> DEFINE todo == ImportFiles(s, n)
<1>1. job[p] = Idle /\ Write(p, s, id, ActiveKey, 0, todo)
  BY <1>0 DEF ImportNew
<1>2. n \in Attempt
  BY <1>0, <1>1, NextAttempt DEF Write
<1>3. s \in AnySource /\ id \in Content \cup Output /\ ActiveKey \in Key
      /\ 0 \in Attempt \cup {0}
  BY DEF AnySource, ActiveKey, Key
<1>4. todo \in Seq(File) /\ Len(todo) = 4 /\ EvidenceFirst(todo)
      /\ Files(todo) = Evidence(n) \cup {<<"index", s, n>>}
  BY <1>2, <1>3, ImportFilesAre
<1> HIDE DEF todo
<1>5. /\ Len(todo) > 0 /\ Evidence(n) \subseteq Files(todo)
      /\ <<"index", s, n>> \in Files(todo)
      /\ \A f \in Files(todo) : f \in Evidence(n) \/ f = <<"index", s, n>>
                               \/ f = <<"derivation", 0, n>>
  BY <1>4
<1>6. (0 # 0 => Settled(0) /\ <<"derivation", 0, n>> \in Files(todo))
      /\ (~syncFailed => <<"index", s, n>> \in Files(todo) \/ Indexed(s, id))
  BY <1>5
<1> QED BY ZenonT(60), <1>0, <1>1, <1>3, <1>4, <1>5, <1>6, WriteBegins

LEMMA RotateSInv ==
    ASSUME SInv, NEW p \in Process, NEW r \in returned, Rotate(p, r)
    PROVE  SInv'
<1>0. PICK n : n = Len(made) + 1
  OBVIOUS
<1> DEFINE todo == EvidenceFiles(n)
           key == 3 - made[r.ref].key
<1>1. job[p] = Idle /\ Write(p, r.source, r.id, key, 0, todo)
  BY <1>0 DEF Rotate
<1>2. n \in Attempt
  BY <1>0, <1>1, NextAttempt DEF Write
<1>3. r.source \in AnySource /\ r.id \in Content \cup Output /\ key \in Key
      /\ 0 \in Attempt \cup {0}
  BY ReturnedIs DEF Key
<1>4. todo \in Seq(File) /\ Len(todo) = 3 /\ EvidenceFirst(todo) /\ Files(todo) = Evidence(n)
  BY <1>2, EvidenceFilesAre
<1>5. ~syncFailed => Indexed(r.source, r.id)
  BY ReturnedIs DEF Kept
<1> HIDE DEF todo, key
<1>6. PICK s, id, k : s = r.source /\ id = r.id /\ k = key
  OBVIOUS
<1>7. Write(p, s, id, k, 0, todo) /\ s \in AnySource /\ id \in Content \cup Output /\ k \in Key
      /\ (~syncFailed => Indexed(s, id))
  BY <1>1, <1>3, <1>5, <1>6
<1>8. /\ Len(todo) > 0 /\ Evidence(n) \subseteq Files(todo)
      /\ \A f \in Files(todo) : f \in Evidence(n) \/ f = <<"index", s, n>>
                               \/ f = <<"derivation", 0, n>>
  BY <1>4
<1>9. job[p] = Idle /\ 0 \in Attempt \cup {0}
  BY <1>1
<1>10. (0 # 0 => Settled(0) /\ <<"derivation", 0, n>> \in Files(todo))
       /\ (~syncFailed => <<"index", s, n>> \in Files(todo) \/ Indexed(s, id))
  BY <1>7
<1> QED BY ZenonT(60), <1>0, <1>4, <1>7, <1>8, <1>9, <1>10, WriteBegins

LEMMA DeriveNewSInv ==
    ASSUME SInv, NEW p \in Process, NEW r \in returned, NEW out \in Output,
           DeriveNew(p, r, out)
    PROVE  SInv'
<1>0. PICK n : n = Len(made) + 1
  OBVIOUS
<1> DEFINE todo == Append(ImportFiles(r.id, n), <<"derivation", r.ref, n>>)
<1>1. job[p] = Idle /\ r.id \in Content /\ Write(p, r.id, out, ActiveKey, r.ref, todo)
  BY <1>0 DEF DeriveNew
<1>2. n \in Attempt /\ r.ref \in Attempt /\ Settled(r.ref)
  BY <1>0, <1>1, NextAttempt, ReturnedIs DEF Write, Kept
<1>3. r.id \in AnySource /\ out \in Content \cup Output /\ ActiveKey \in Key
  BY <1>1 DEF AnySource, ActiveKey, Key
<1>4. todo \in Seq(File) /\ Len(todo) = 5 /\ EvidenceFirst(todo)
      /\ Files(todo) = Evidence(n) \cup {<<"index", r.id, n>>, <<"derivation", r.ref, n>>}
  BY <1>2, <1>3, DeriveFilesAre
<1> HIDE DEF todo
<1>5. PICK s, of : s = r.id /\ of = r.ref
  OBVIOUS
<1>6. /\ Write(p, s, out, ActiveKey, of, todo) /\ s \in AnySource /\ of \in Attempt
      /\ Settled(of)
      /\ Files(todo) = Evidence(n) \cup {<<"index", s, n>>, <<"derivation", of, n>>}
  BY <1>1, <1>2, <1>3, <1>4, <1>5
<1>7. /\ Len(todo) > 0 /\ Evidence(n) \subseteq Files(todo)
      /\ <<"index", s, n>> \in Files(todo) /\ <<"derivation", of, n>> \in Files(todo)
      /\ \A f \in Files(todo) : f \in Evidence(n) \/ f = <<"index", s, n>>
                               \/ f = <<"derivation", of, n>>
  BY <1>4, <1>6
<1> QED BY <1>0, <1>1, <1>3, <1>4, <1>6, <1>7, WriteBegins

LEMMA ImportKnownSInv ==
    ASSUME SInv, NEW p \in Process, NEW s \in Source, NEW id \in Content,
           ImportKnown(p, s, id)
    PROVE  SInv'
<1>1. PICK f \in IndexAt(s) \cap whole :
          /\ made[f[3]].id = id
          /\ returned' = returned \cup {[source |-> s, id |-> id, ref |-> f[3], of |-> 0]}
  BY DEF ImportKnown
<1> DEFINE r == [source |-> s, id |-> id, ref |-> f[3], of |-> 0]
<1>2. f \in files /\ f \in File /\ f \in whole /\ BoundIn(f)
  BY <1>1 DEF IndexAt, SInv, STypes
<1>3. f[1] = "index" /\ f[2] = s /\ f[3] \in Attempt
  <2>1. Path(f) = <<"index", s>>
    BY <1>1 DEF IndexAt
  <2>2. f[1] = "index"
    <3>1. CASE f[1] # "index"
      <4>1. f = <<"index", s>>
        BY <2>1, <3>1 DEF Path
      <4> QED BY <3>1, <4>1
    <3> QED BY <3>1
  <2>3. <<f[1], f[2]>> = <<"index", s>>
    BY <2>1, <2>2 DEF Path
  <2>4. f[3] \in Attempt
    BY <1>2, <2>2, FileKinds DEF AttemptOf, IsEvidence
  <2> QED BY <2>2, <2>3, <2>4
<1>4. r \in Result /\ r.ref = f[3] /\ r.of = 0 /\ r.source = s /\ r.id = id
  BY <1>3 DEF Result, AnySource
<1>5. Settled(f[3]) /\ Indexed(s, id)
  BY <1>1, <1>2, <1>3 DEF BoundIn, Indexed
<1>6. Kept(r)
  BY <1>4, <1>5 DEF Kept
<1>7. UNCHANGED <<files, whole, made, syncFailed, job, builds>>
  BY DEF ImportKnown, recovery
<1> HIDE DEF r
<1>8. returned' \subseteq Result
  BY <1>1, <1>4 DEF SInv, STypes, r
<1>9. \A u \in returned' : Kept(u)
  BY <1>1, <1>6 DEF SInv, r
<1>10. STypes'
  BY <1>7, <1>8 DEF SInv, STypes, PathsUnique
<1>11. \A h \in files' : AttemptOf(h) <= Len(made') /\ BoundIn(h)'
  BY <1>7 DEF SInv, BoundIn, Settled, Stored
<1>12. \A q \in Process : job'[q].pc \in Writes => WriterOK(q)' /\ HeadOK(q)'
  BY <1>7 DEF SInv, WriterOK, HeadOK, Settled, Stored, Indexed
<1>13. Exclusive'
  BY <1>7 DEF SInv, Exclusive
<1>14. \A u : Kept(u) <=> Kept(u)'
  BY <1>7 DEF Kept, Settled, Stored, Indexed
<1>15. \A u \in returned' : Kept(u)'
  BY <1>9, <1>14
<1> QED BY <1>10, <1>11, <1>12, <1>13, <1>15 DEF SInv

-----------------------------------------------------------------------------
(* Writing the files.                                                      *)

(* A writer with one file less to write, because the file is complete.      *)
LEMMA OneFileLess ==
    ASSUME SInv, GoesOn, NEW p \in Process, job[p].pc \in Writes,
           NEW j \in Job, job' = [job EXCEPT ![p] = j],
           Head(job[p].todo) \in whole, whole' = whole, made' = made,
           Todo(j) \subseteq Todo(job[p]), Todo(job[p]) \subseteq Todo(j) \cup {Head(job[p].todo)},
           NEW r, r = job[p].result
    PROVE  /\ \A e \in Evidence(r.ref) : e \in Todo(j) \/ Stored(e)'
           /\ r.of # 0 => Settled(r.of)'
           /\ ~syncFailed /\ r.of # 0 => <<"derivation", r.of, r.ref>> \in Todo(j) \cup whole
           /\ ~syncFailed => \/ <<"index", r.source, r.ref>> \in Todo(j) /\ made[r.ref].id = r.id
                             \/ Indexed(r.source, r.id)
<1> DEFINE h == Head(job[p].todo)
<1>1. WriterOK(p) /\ r \in Result /\ r.ref \in Attempt /\ r.ref <= Len(made)
  BY Writers DEF WriterOK
<1>2. job'[p] = j /\ \A q \in Process : q # p => job'[q] = job[q]
  BY DEF SInv, STypes
<1>3. ASSUME NEW e \in Evidence(r.ref), e \notin Todo(j) PROVE Stored(e)'
  <2>1. CASE e \in Todo(job[p])
    <3>1. e = h /\ e \in whole'
      BY <1>3, <2>1
    <3>2. \A q \in Process : e \notin Todo(job'[q])
      BY <1>2, <1>3, <2>1, EvidenceIs DEF SInv, Exclusive
    <3> QED BY <3>1, <3>2 DEF Stored, Todo
  <2>2. CASE Stored(e)
    BY <1>1, <2>2, StoredKept
  <2> QED BY <1>1, <1>3, <2>1, <2>2 DEF WriterOK
<1>4. r.of # 0 => Settled(r.of)'
  BY <1>1, SettledKept DEF WriterOK
<1>5. ~syncFailed /\ r.of # 0 => <<"derivation", r.of, r.ref>> \in Todo(j) \cup whole
  BY <1>1 DEF WriterOK
<1>6. ASSUME ~syncFailed
      PROVE  \/ <<"index", r.source, r.ref>> \in Todo(j) /\ made[r.ref].id = r.id
             \/ Indexed(r.source, r.id)
  <2> DEFINE f == <<"index", r.source, r.ref>>
  <2>1. CASE f \in Todo(job[p]) /\ made[r.ref].id = r.id
    <3>1. CASE f \in Todo(j)
      BY <2>1, <3>1
    <3>2. CASE f \notin Todo(j)
      <4>1. f \in whole
        BY <2>1, <3>2
      <4> QED BY <2>1, <4>1 DEF Indexed
    <3> QED BY <3>1, <3>2
  <2>2. CASE Indexed(r.source, r.id)
    BY <2>2
  <2> QED BY <1>1, <1>6, <2>1, <2>2 DEF WriterOK
<1> QED BY <1>3, <1>4, <1>5, <1>6

LEMMA FileDoneSInv ==
    ASSUME SInv, NEW p \in Process, job[p].pc \in Writes, Head(job[p].todo) \in whole,
           FileDone(p), UNCHANGED <<files, whole, made, syncFailed, builds>>
    PROVE  SInv'
<1>1. /\ job[p] \in WriteJob /\ job[p].todo # <<>> /\ WriterOK(p)
      /\ job[p].todo \in Seq(File) /\ job[p].result \in Result
  BY Writers
<1> DEFINE s == job[p].todo
           r == job[p].result
<1>2. ASSUME NEW j \in Job, job' = [job EXCEPT ![p] = j], Todo(j) \subseteq Todo(job[p])
      PROVE  GoesOn
  <2>1. job'[p] = j /\ \A q \in Process : q # p => job'[q] = job[q]
    BY <1>2 DEF SInv, STypes
  <2>2. \A q \in Process : \A f \in Todo(job'[q]) : f \in Todo(job[q])
    BY <1>2, <2>1
  <2>3. made' \in Seq(Made) /\ Len(made) <= Len(made')
    BY DEF SInv, STypes
  <2> QED BY <2>2, <2>3 DEF GoesOn
<1>3. /\ files' \subseteq File /\ whole' \subseteq files' /\ PathsUnique(files')
      /\ syncFailed' \in BOOLEAN /\ builds' \in Nat /\ Len(made') + builds' <= MaxCalls
  BY DEF SInv, STypes
<1>4. CASE Tail(s) # <<>>
  <2> DEFINE j == [job[p] EXCEPT !.pc = "open", !.todo = Tail(s)]
  <2>1. /\ j \in WriteJob /\ j.pc = "open" /\ j.result = r /\ j.todo = Tail(s)
        /\ Todo(job[p]) = Todo(j) \cup {Head(s)} /\ EvidenceFirst(j.todo)
    BY <1>1, <1>4, TailTodo DEF WriterOK
  <2>2. job' = [job EXCEPT ![p] = j] /\ returned' = returned
    BY <1>4 DEF FileDone, Become
  <2> HIDE DEF j
  <2>3. j \in Job /\ j.pc \in Writes /\ ~Creating(j)
    BY <2>1 DEF Job, Writes, Creating
  <2>4. Todo(j) \subseteq Todo(job[p]) /\ Todo(job[p]) \subseteq Todo(j) \cup {Head(s)}
    BY <2>1
  <2>5. GoesOn
    BY <1>2, <2>2, <2>3, <2>4
  <2>6. job'[p] = j /\ Todo(job[p])' = Todo(j)
    <3>1. job'[p] = j
      BY <2>2 DEF SInv, STypes
    <3> QED BY <3>1 DEF Todo
  <2>7. WriterOK(p)'
    <3>1. PICK u : u = r
      OBVIOUS
    <3>2. /\ \A e \in Evidence(u.ref) : e \in Todo(j) \/ Stored(e)'
          /\ u.of # 0 => Settled(u.of)'
          /\ ~syncFailed /\ u.of # 0 => <<"derivation", u.of, u.ref>> \in Todo(j) \cup whole
          /\ ~syncFailed => \/ <<"index", u.source, u.ref>> \in Todo(j) /\ made[u.ref].id = u.id
                            \/ Indexed(u.source, u.id)
      BY <2>2, <2>3, <2>4, <2>5, <3>1, OneFileLess
    <3>3. Indexed(u.source, u.id) => Indexed(u.source, u.id)'
      BY DEF Indexed
    <3>4. u.ref <= Len(made') /\ \A f \in Todo(j) : Belongs(f, u)
      BY <1>1, <2>4, <3>1 DEF WriterOK
    <3>5. job'[p].result = u /\ job'[p].todo # <<>> /\ EvidenceFirst(job'[p].todo)
      BY <1>4, <2>1, <2>6, <3>1
    <3> QED BY <2>6, <3>2, <3>3, <3>4, <3>5 DEF WriterOK
  <2>8. HeadOK(p)'
    BY <2>1, <2>6 DEF HeadOK
  <2>9. returned' \subseteq Result /\ returned' \ returned = {} /\ files' \ files = {}
    BY <2>2 DEF SInv, STypes
  <2> QED BY <1>3, <2>2, <2>3, <2>4, <2>5, <2>7, <2>8, <2>9, ProcessMoves
<1>5. CASE Tail(s) = <<>>
  <2>1. job' = [job EXCEPT ![p] = Idle] /\ returned' = returned \cup {r}
    BY <1>5 DEF FileDone, Become
  <2>2. Todo(job[p]) = {Head(s)} /\ Todo(Idle) = {} /\ Idle \in Job
        /\ Idle.pc \notin Writes /\ ~Creating(Idle)
    BY <1>1, <1>5, TailTodo, IdleTodo DEF Job, Creating, Idle
  <2>3. GoesOn
    BY <1>2, <2>1, <2>2
  <2>4. PICK u : u = r
    OBVIOUS
  <2>5. Kept(u)'
    <3>1. /\ \A e \in Evidence(u.ref) : Stored(e)'
          /\ ~syncFailed /\ u.of # 0 => <<"derivation", u.of, u.ref>> \in whole
          /\ ~syncFailed => Indexed(u.source, u.id)
      BY <2>1, <2>2, <2>3, <2>4, OneFileLess
    <3>2. Settled(u.ref)'
      BY <3>1 DEF Settled, Evidence
    <3>3. Indexed(u.source, u.id) => Indexed(u.source, u.id)'
      BY DEF Indexed
    <3> QED BY <3>1, <3>2, <3>3 DEF Kept
  <2>6. returned' \subseteq Result
    BY <1>1, <2>1 DEF SInv, STypes
  <2>7. \A v \in returned' \ returned : Kept(v)'
    BY <2>1, <2>4, <2>5
  <2> QED BY <1>3, <2>1, <2>2, <2>3, <2>6, <2>7, ProcessMoves
<1> QED BY <1>4, <1>5

LEMMA SameTodo ==
    ASSUME NEW j \in WriteJob, NEW pc \in Writes
    PROVE  LET k == [j EXCEPT !.pc = pc]
           IN  /\ k \in WriteJob /\ k \in Job /\ k.pc = pc
               /\ k.todo = j.todo /\ k.result = j.result /\ Todo(k) = Todo(j)
<1> DEFINE k == [j EXCEPT !.pc = pc]
<1>1. k \in WriteJob /\ k.pc = pc /\ k.todo = j.todo /\ k.result = j.result
      /\ j.pc \in Writes
  BY DEF WriteJob
<1> HIDE DEF k
<1>2. Todo(k) = Todo(j)
  BY <1>1 DEF Todo
<1> QED BY <1>1, <1>2 DEF Job, k

(* The file a writer creates names evidence that is settled already.        *)
LEMMA HeadBound ==
    ASSUME SInv, NEW p \in Process, job[p].pc \in Writes
    PROVE  BoundIn(Head(job[p].todo))
<1> DEFINE h == Head(job[p].todo)
           r == job[p].result
<1>1. /\ job[p] \in WriteJob /\ job[p].todo # <<>> /\ WriterOK(p)
      /\ h \in Todo(job[p]) /\ h \in File /\ r.ref \in Attempt
  BY Writers
<1>2. Belongs(h, r)
  BY <1>1 DEF WriterOK
<1>3. ASSUME ~IsEvidence(h) PROVE Settled(r.ref)
  <2>1. \A f \in Todo(job[p]) : ~IsEvidence(f)
    BY <1>1, <1>3, HeadLast DEF WriterOK
  <2>2. \A e \in Evidence(r.ref) : Stored(e)
    BY <1>1, <2>1, EvidenceIs DEF WriterOK
  <2> QED BY <2>2 DEF Settled
<1>4. CASE h[1] = "index"
  <2>1. h = <<"index", r.source, r.ref>> /\ ~IsEvidence(h)
    BY <1>2, <1>4, EvidenceIs DEF Belongs, IsEvidence
  <2>2. h[3] = r.ref
    BY <2>1
  <2> QED BY <1>3, <1>4, <2>1, <2>2 DEF BoundIn
<1>5. CASE h[1] = "derivation"
  <2>1. h = <<"derivation", r.of, r.ref>> /\ ~IsEvidence(h)
    BY <1>2, <1>5, EvidenceIs DEF Belongs, IsEvidence
  <2>2. h[2] = r.of /\ h[3] = r.ref /\ h[2] \in Attempt
    BY <1>1, <1>5, <2>1, FileKinds
  <2>3. Settled(r.of)
    BY <1>1, <2>2 DEF WriterOK, Attempt
  <2> QED BY <1>3, <1>5, <2>1, <2>2, <2>3 DEF BoundIn
<1> QED BY <1>4, <1>5 DEF BoundIn

LEMMA OpenFileSInv ==
    ASSUME SInv, NEW p \in Process, OpenFile(p)
    PROVE  SInv'
<1>0. PICK f : f = Head(job[p].todo)
  OBVIOUS
<1> DEFINE j == [job[p] EXCEPT !.pc = "fill"]
<1>1. job[p].pc = "open" /\ job[p].pc \in Writes
      /\ UNCHANGED <<whole, made, syncFailed, builds>>
  BY DEF OpenFile, Writes, recovery
<1>2. /\ job[p] \in WriteJob /\ job[p].todo # <<>> /\ WriterOK(p) /\ f \in File
      /\ f \in Todo(job[p])
  BY <1>0, <1>1, Writers
<1>3. CASE /\ \A g \in files : Path(g) # Path(f)
           /\ files' = files \cup {f} /\ Become(p, j) /\ UNCHANGED returned
  <2>1. /\ job' = [job EXCEPT ![p] = j] /\ j \in Job /\ j.pc = "fill" /\ j.pc \in Writes
        /\ j.todo = job[p].todo /\ j.result = job[p].result /\ Todo(j) = Todo(job[p])
    BY <1>2, <1>3, SameTodo DEF Become, Writes
  <2> HIDE DEF j
  <2>2. job'[p] = j /\ \A q \in Process : q # p => job'[q] = job[q]
    BY <2>1 DEF SInv, STypes
  <2>3. GoesOn
    <3>1. \A q \in Process : Todo(job'[q]) = Todo(job[q])
      BY <2>1, <2>2
    <3> QED BY <1>1, <3>1 DEF GoesOn, SInv, STypes
  <2>4. f \notin files
    BY <1>3
  <2>5. /\ files' \subseteq File /\ whole' \subseteq files' /\ PathsUnique(files')
        /\ returned' \subseteq Result /\ syncFailed' \in BOOLEAN /\ builds' \in Nat
        /\ Len(made') + builds' <= MaxCalls /\ returned' \ returned = {}
    BY <1>1, <1>2, <1>3 DEF SInv, STypes, PathsUnique
  <2>6. WriterOK(p)'
    BY <1>1, <2>1, <2>2, <2>3, WriterKept
  <2>7. HeadOK(p)'
    BY <1>0, <1>1, <1>3, <2>1, <2>2, <2>4 DEF HeadOK, SInv, STypes
  <2>8. AttemptOf(f) <= Len(made') /\ BoundIn(f)'
    <3>1. BoundIn(f)
      BY <1>0, <1>1, HeadBound
    <3> QED BY <1>1, <1>2, <2>3, <3>1, BoundKept, Numbered
  <2>9. ASSUME NEW q \in Process \ {p}, Creating(job[q])
        PROVE  /\ Head(job[q].todo) \in files' <=> Head(job[q].todo) \in files
               /\ Head(job[q].todo) \in whole' <=> Head(job[q].todo) \in whole
               /\ Head(j.todo) # Head(job[q].todo)
    <3>1. Head(job[q].todo) \in files
      BY <2>9 DEF SInv, STypes, HeadOK, Creating, Writes
    <3> QED BY <1>0, <1>1, <1>3, <2>1, <2>4, <3>1
  <2>10. files' \ files \subseteq {f}
    BY <1>3
  <2> QED BY <2>1, <2>3, <2>5, <2>6, <2>7, <2>8, <2>9, <2>10, ProcessMoves
<1>4. CASE f \in whole /\ FileDone(p) /\ UNCHANGED files
  BY <1>0, <1>1, <1>4, FileDoneSInv
<1>5. CASE Become(p, Idle) /\ UNCHANGED <<files, returned>>
  <2>1. job' = [job EXCEPT ![p] = Idle] /\ Idle \in Job /\ Idle.pc \notin Writes
        /\ Todo(Idle) = {} /\ ~Creating(Idle)
    BY <1>5, IdleTodo DEF Become, Job, Creating, Idle
  <2>2. job'[p] = Idle /\ \A q \in Process : q # p => job'[q] = job[q]
    BY <2>1 DEF SInv, STypes
  <2>3. GoesOn
    BY <1>1, <2>1, <2>2 DEF GoesOn, SInv, STypes
  <2>4. /\ files' \subseteq File /\ whole' \subseteq files' /\ PathsUnique(files')
        /\ returned' \subseteq Result /\ syncFailed' \in BOOLEAN /\ builds' \in Nat
        /\ Len(made') + builds' <= MaxCalls /\ returned' \ returned = {} /\ files' \ files = {}
    BY <1>1, <1>5 DEF SInv, STypes
  <2> QED BY <1>1, <1>5, <2>1, <2>3, <2>4, ProcessMoves
<1> QED BY <1>0, <1>3, <1>4, <1>5 DEF OpenFile

LEMMA FillFileSInv ==
    ASSUME SInv, NEW p \in Process, FillFile(p)
    PROVE  SInv'
<1> DEFINE f == Head(job[p].todo)
           j == [job[p] EXCEPT !.pc = "sync"]
<1>1. job[p].pc = "fill" /\ job[p].pc \in Writes /\ Creating(job[p])
      /\ UNCHANGED <<files, made, returned, syncFailed, builds>>
      /\ whole' = whole \cup {f} /\ Become(p, j)
  BY DEF FillFile, Writes, recovery, Creating
<1>2. job[p] \in WriteJob /\ f \in files \ whole
  BY <1>1, Writers DEF HeadOK
<1>3. /\ job' = [job EXCEPT ![p] = j] /\ j \in Job /\ j.pc = "sync" /\ j.pc \in Writes
      /\ j.todo = job[p].todo /\ j.result = job[p].result /\ Todo(j) = Todo(job[p])
  BY <1>1, <1>2, SameTodo DEF Become, Writes
<1> HIDE DEF j
<1>4. job'[p] = j /\ \A q \in Process : q # p => job'[q] = job[q]
  BY <1>3 DEF SInv, STypes
<1>5. GoesOn
  <2>1. \A q \in Process : Todo(job'[q]) = Todo(job[q])
    BY <1>3, <1>4
  <2> QED BY <1>1, <2>1 DEF GoesOn, SInv, STypes
<1>6. /\ files' \subseteq File /\ whole' \subseteq files' /\ PathsUnique(files')
      /\ returned' \subseteq Result /\ syncFailed' \in BOOLEAN /\ builds' \in Nat
      /\ Len(made') + builds' <= MaxCalls /\ returned' \ returned = {} /\ files' \ files = {}
  BY <1>1, <1>2 DEF SInv, STypes
<1>7. WriterOK(p)'
  BY <1>1, <1>3, <1>4, <1>5, WriterKept
<1>8. HeadOK(p)'
  BY <1>1, <1>3, <1>4 DEF HeadOK
<1>9. ASSUME NEW q \in Process \ {p}, Creating(job[q])
      PROVE  /\ Head(job[q].todo) \in files' <=> Head(job[q].todo) \in files
             /\ Head(job[q].todo) \in whole' <=> Head(job[q].todo) \in whole
             /\ Head(j.todo) # Head(job[q].todo)
  BY <1>1, <1>3, <1>9 DEF SInv, Exclusive
<1> HIDE DEF f
<1> QED BY <1>3, <1>5, <1>6, <1>7, <1>8, <1>9, ProcessMoves

LEMMA SyncFileSInv ==
    ASSUME SInv, NEW p \in Process, SyncFile(p)
    PROVE  SInv'
<1>1. job[p].pc = "sync" /\ job[p].pc \in Writes
      /\ FileDone(p) /\ UNCHANGED <<files, whole, made, syncFailed, builds>>
  BY DEF SyncFile, Writes, recovery
<1>2. Head(job[p].todo) \in whole
  BY <1>1, Writers DEF HeadOK
<1> QED BY <1>1, <1>2, FileDoneSInv

(* Only a failed fsync takes away a complete file. *)
LEMMA WriteFailsSInv ==
    ASSUME SInv, NEW p \in Process, WriteFails(p)
    PROVE  SInv'
<1> DEFINE f == Head(job[p].todo)
<1>1. job[p].pc \in Writes /\ Creating(job[p]) /\ job' = [job EXCEPT ![p] = Idle]
      /\ files' = files \ {f} /\ whole' = whole \ {f}
      /\ syncFailed' = (syncFailed \/ job[p].pc = "sync")
      /\ UNCHANGED <<made, returned, builds>>
  BY DEF WriteFails, Writes, Creating, recovery, Become
<1>2. f \in Todo(job[p]) /\ HeadOK(p)
  BY <1>1, Writers
<1>3. ~syncFailed' => ~syncFailed /\ f \notin whole
  BY <1>1, <1>2 DEF HeadOK, Creating
<1>4. Idle \in Job /\ Idle.pc \notin Writes /\ Todo(Idle) = {} /\ ~Creating(Idle)
  BY IdleTodo DEF Job, Creating, Idle
<1>5. job'[p] = Idle /\ \A q \in Process : q # p => job'[q] = job[q]
  BY <1>1 DEF SInv, STypes
<1>6. GoesOn
  <2>1. \A g \in whole : g \in whole' \/ \E q \in Process : g \in Todo(job[q])
    BY <1>1, <1>2
  <2>2. ~syncFailed' => ~syncFailed /\ whole \subseteq whole'
    BY <1>1, <1>3
  <2>3. \A q \in Process : \A g \in Todo(job'[q]) : g \in Todo(job[q])
    BY <1>4, <1>5
  <2> QED BY <1>1, <2>1, <2>2, <2>3 DEF GoesOn, SInv, STypes
<1>7. /\ files' \subseteq File /\ whole' \subseteq files' /\ PathsUnique(files')
      /\ returned' \subseteq Result /\ syncFailed' \in BOOLEAN /\ builds' \in Nat
      /\ Len(made') + builds' <= MaxCalls /\ returned' \ returned = {} /\ files' \ files = {}
  BY <1>1 DEF SInv, STypes, PathsUnique
<1>8. ASSUME NEW q \in Process \ {p}, Creating(job[q])
      PROVE  /\ Head(job[q].todo) \in files' <=> Head(job[q].todo) \in files
             /\ Head(job[q].todo) \in whole' <=> Head(job[q].todo) \in whole
  <2>1. Head(job[q].todo) # f
    BY <1>1, <1>8 DEF SInv, Exclusive
  <2> QED BY <1>1, <2>1
<1> HIDE DEF f
<1> QED BY <1>1, <1>4, <1>6, <1>7, <1>8, ProcessMoves

(* The derivation of an output that is there already writes one receipt.    *)
LEMMA DeriveKnownSInv ==
    ASSUME SInv, NEW p \in Process, NEW r \in returned, NEW out \in Output,
           DeriveKnown(p, r, out)
    PROVE  SInv'
<1>1. PICK f \in IndexAt(r.id) \cap whole :
          /\ made[f[3]].id = out
          /\ Become(p, [pc |-> "open", todo |-> <<<<"derivation", r.ref, f[3]>>>>,
                        result |-> [source |-> r.id, id |-> out, ref |-> f[3], of |-> r.ref]])
  BY DEF DeriveKnown
<1>2. f \in files /\ f \in File /\ f \in whole /\ BoundIn(f) /\ AttemptOf(f) <= Len(made)
  BY DEF IndexAt, SInv, STypes
<1>3. f[1] = "index" /\ f[2] = r.id /\ f[3] \in Attempt /\ f[3] <= Len(made)
  <2>1. Path(f) = <<"index", r.id>>
    BY DEF IndexAt
  <2>2. f[1] = "index"
    <3>1. CASE f[1] # "index"
      <4>1. f = <<"index", r.id>>
        BY <2>1, <3>1 DEF Path
      <4> QED BY <3>1, <4>1
    <3> QED BY <3>1
  <2>3. <<f[1], f[2]>> = <<"index", r.id>>
    BY <2>1, <2>2 DEF Path
  <2>4. f[3] \in Attempt /\ AttemptOf(f) = f[3]
    BY <1>2, <2>2, FileKinds DEF AttemptOf, IsEvidence
  <2> QED BY <1>2, <2>2, <2>3, <2>4
<1>4. job[p] = Idle /\ r.id \in Content /\ UNCHANGED <<store, builds>>
  BY DEF DeriveKnown, recovery
<1>5. PICK n, m, s : n = f[3] /\ m = r.ref /\ s = r.id
  OBVIOUS
<1>6. /\ n \in Attempt /\ n <= Len(made) /\ m \in Attempt /\ s \in AnySource
      /\ Settled(n) /\ Settled(m) /\ Indexed(s, out)
  <2>1. Settled(n) /\ Indexed(s, out)
    BY <1>1, <1>2, <1>3, <1>5 DEF BoundIn, Indexed
  <2>2. Settled(m) /\ m \in Attempt
    BY <1>5, ReturnedIs DEF Kept
  <2> QED BY <1>3, <1>4, <1>5, <2>1, <2>2 DEF AnySource
<1> DEFINE g == <<"derivation", m, n>>
           u == [source |-> s, id |-> out, ref |-> n, of |-> m]
           j == [pc |-> "open", todo |-> <<g>>, result |-> u]
<1>7. job' = [job EXCEPT ![p] = j]
  BY <1>1, <1>5 DEF Become
<1>8. u \in Result /\ u.source = s /\ u.id = out /\ u.ref = n /\ u.of = m
  BY <1>6 DEF Result
<1>9. g \in File /\ ~IsEvidence(g) /\ g[1] # "index"
  BY <1>6, OtherFiles
<1> HIDE DEF u
<1>10. Belongs(g, u)
  BY <1>8 DEF Belongs
<1> HIDE DEF g
<1>11. j \in WriteJob /\ j.pc = "open" /\ j.todo = <<g>> /\ j.result = u
  BY <1>8, <1>9 DEF WriteJob, Writes
<1> HIDE DEF j
<1>12. j.todo # <<>> /\ Len(j.todo) = 1 /\ j.todo[1] = g
  BY <1>11
<1>13. Todo(j) = {g} /\ EvidenceFirst(j.todo)
  <2>1. \A i : i \in 1..1 <=> i = 1
    OBVIOUS
  <2>2. Todo(j) = {j.todo[i] : i \in 1..Len(j.todo)}
    BY <1>11, <1>12, TodoIs
  <2> QED BY <1>9, <1>12, <2>1, <2>2 DEF EvidenceFirst
<1>14. j \in Job /\ j.pc \in Writes /\ ~Creating(j)
  BY <1>11 DEF Job, Writes, Creating
<1>15. job'[p] = j /\ \A q \in Process : q # p => job'[q] = job[q]
  BY <1>7 DEF SInv, STypes
<1>16. GoesOn
  <2>1. \A q \in Process : \A h \in Todo(job'[q]) : h \in Todo(job[q]) \/ ~IsEvidence(h)
    BY <1>9, <1>13, <1>15
  <2> QED BY <1>4, <2>1 DEF GoesOn, SInv, STypes, store
<1>17. WriterOK(p)'
  <2>1. Settled(n)' /\ Settled(m)'
    BY <1>6, <1>16, SettledKept
  <2>2. ~syncFailed' => Indexed(s, out)'
    BY <1>6, <1>16, IndexedKept
  <2>3. Todo(job[p])' = {g} /\ job'[p].todo # <<>> /\ EvidenceFirst(job'[p].todo)
        /\ job'[p].result = u
    <3>1. Todo(job[p])' = Todo(j)
      BY <1>15 DEF Todo
    <3> QED BY <1>11, <1>12, <1>13, <1>15, <3>1
  <2>4. n <= Len(made')
    BY <1>4, <1>6 DEF store
  <2>5. \A e \in Evidence(n) : Stored(e)'
    BY <2>1 DEF Settled, Evidence
  <2>6. g = <<"derivation", m, n>>
    BY DEF g
  <2> QED BY <1>8, <1>10, <2>1, <2>2, <2>3, <2>4, <2>5, <2>6 DEF WriterOK
<1>18. HeadOK(p)'
  BY <1>11, <1>15 DEF HeadOK
<1>19. /\ files' \subseteq File /\ whole' \subseteq files' /\ PathsUnique(files')
       /\ returned' \subseteq Result /\ syncFailed' \in BOOLEAN /\ builds' \in Nat
       /\ Len(made') + builds' <= MaxCalls /\ returned' \ returned = {} /\ files' \ files = {}
       /\ files' = files /\ whole' = whole
  BY <1>4 DEF SInv, STypes, store
<1> QED BY <1>7, <1>9, <1>13, <1>14, <1>16, <1>17, <1>18, <1>19, ProcessMoves

(* Builders, and whoever dies, leave the directory alone. *)
LEMMA StoreStays ==
    ASSUME SInv, NEW p \in Process, NEW j \in Job, j.pc \notin Writes,
           job' = [job EXCEPT ![p] = j], UNCHANGED store,
           builds' \in Nat, Len(made) + builds' <= MaxCalls
    PROVE  SInv'
<1>1. job'[p] = j /\ \A q \in Process : q # p => job'[q] = job[q]
  BY DEF SInv, STypes
<1>2. Todo(j) = {} /\ ~Creating(j)
  BY DEF Todo, Creating, Writes
<1>3. GoesOn
  <2>1. \A q \in Process : \A h \in Todo(job'[q]) : h \in Todo(job[q])
    BY <1>1, <1>2
  <2> QED BY <2>1 DEF GoesOn, SInv, STypes, store
<1>4. /\ files' \subseteq File /\ whole' \subseteq files' /\ PathsUnique(files')
      /\ returned' \subseteq Result /\ syncFailed' \in BOOLEAN
      /\ Len(made') + builds' <= MaxCalls /\ returned' \ returned = {} /\ files' \ files = {}
      /\ files' = files /\ whole' = whole
  BY DEF SInv, STypes, store
<1> QED BY <1>2, <1>3, <1>4, ProcessMoves

LEMMA StoreSame ==
    ASSUME SInv, UNCHANGED <<store, job, builds>>
    PROVE  SInv'
<1>1. UNCHANGED <<files, whole, made, returned, syncFailed, job, builds>>
  BY DEF store
<1>2. STypes'
  BY <1>1 DEF SInv, STypes, PathsUnique
<1>3. \A h \in files' : AttemptOf(h) <= Len(made') /\ BoundIn(h)'
  BY <1>1 DEF SInv, BoundIn, Settled, Stored
<1>4. ASSUME NEW q \in Process, job'[q].pc \in Writes
      PROVE  WriterOK(q)' /\ HeadOK(q)'
  <2>1. WriterOK(q) /\ HeadOK(q)
    BY <1>1, <1>4 DEF SInv
  <2>2. HeadOK(q)'
    BY <1>1, <2>1 DEF HeadOK
  <2>3. WriterOK(q)'
    BY <1>1, <2>1 DEF WriterOK, Settled, Stored, Indexed
  <2> QED BY <2>2, <2>3
<1>5. Exclusive'
  BY <1>1 DEF SInv, Exclusive
<1>6. \A u \in returned' : Kept(u)'
  BY <1>1 DEF SInv, Kept, Settled, Stored, Indexed
<1> QED BY <1>2, <1>3, <1>4, <1>5, <1>6 DEF SInv

LEMMA InitSInv == Init => SInv
<1> SUFFICES ASSUME Init PROVE SInv
  OBVIOUS
<1>1. \A p \in Process : job[p] = Idle /\ job[p].pc \notin Writes /\ Todo(job[p]) = {}
                         /\ ~Creating(job[p])
  BY IdleTodo DEF Init, Creating, Idle
<1>2. STypes
  <2>1. made \in Seq(Made) /\ Len(made) = 0
    BY DEF Init
  <2>2. job \in [Process -> Job]
    BY DEF Init, Job
  <2>3. builds \in Nat /\ Len(made) + builds <= MaxCalls
    BY <2>1, BoundsAssumption DEF Init
  <2>4. /\ files \subseteq File /\ whole \subseteq files /\ PathsUnique(files)
        /\ returned \subseteq Result /\ syncFailed \in BOOLEAN
    BY DEF Init, PathsUnique
  <2> QED BY <2>1, <2>2, <2>3, <2>4 DEF STypes
<1> QED BY <1>1, <1>2 DEF SInv, Exclusive, Init

-----------------------------------------------------------------------------
(* Builders, capsules and sets: what every step keeps.                     *)
Grows ==
    /\ made' \in Seq(Made)
    /\ Len(made) <= Len(made') /\ \A n \in 1..Len(made) : made'[n] = made[n]
    /\ ~syncFailed' => ~syncFailed
    /\ returned \subseteq returned'
    /\ builds' \in Nat /\ builds <= builds'

LEMMA SameKeys ==
    ASSUME SInv, Grows, NEW D, Known(D)
    PROVE  /\ Known(D)' /\ KeysOf(D)' = KeysOf(D)
           /\ \A keys : CapsuleVerified(D, keys) => CapsuleVerified(D, keys)'
<1>1. Len(made) \in Nat /\ Len(made') \in Nat /\ Len(made) <= Len(made')
  BY DEF SInv, STypes, Grows
<1>2. \A n \in Having(D, "manifest") : n \in Nat /\ 1 <= n /\ n <= Len(made)
  BY DEF Known, Having, Attempt
<1>3. Known(D)'
  <2>1. \A n \in Having(D, "manifest") : n <= Len(made')
    BY <1>1, <1>2
  <2> QED BY <2>1 DEF Known, Having
<1>4. \A n \in Having(D, "manifest") : made'[n] = made[n]
  BY <1>1, <1>2 DEF Grows
<1>5. KeysOf(D)' = KeysOf(D)
  <2>1. KeysOf(D)' = {made'[n].key : n \in Having(D, "manifest")}
    BY DEF KeysOf, Having
  <2>2. KeysOf(D) = {made[n].key : n \in Having(D, "manifest")}
    BY DEF KeysOf
  <2> QED BY <1>4, <2>1, <2>2
<1>6. ASSUME NEW keys, CapsuleVerified(D, keys) PROVE CapsuleVerified(D, keys)'
  <2>1. EvidenceBound(D)' /\ IndexesBound(D)' /\ DerivationsBound(D)'
    BY <1>6 DEF CapsuleVerified, Verified, EvidenceBound, IndexesBound, DerivationsBound,
                Having, Readable
  <2> QED BY <1>5, <1>6, <2>1 DEF CapsuleVerified, Verified
<1> QED BY <1>3, <1>5, <1>6

LEMMA HoldsKept ==
    ASSUME Grows, NEW D, NEW r, Holds(D, r)
    PROVE  Holds(D, r)'
BY DEF Grows, Holds, Readable

LEMMA BuilderKept ==
    ASSUME SInv, RInv, Grows, NEW p \in Process, job[p].pc \in Builds, job'[p] = job[p]
    PROVE  BuilderOK(p)'
<1>1. PICK j : j = job[p]
  OBVIOUS
<1>2. /\ BuilderOK(p) /\ j \in BuildJob /\ j.no \in Nat /\ j.staged \in Seq(SUBSET File)
      /\ builds \in Nat
  BY <1>1, JobKinds DEF RInv, SInv, STypes, BuildJob
<1>3. j.no <= builds'
  BY <1>1, <1>2 DEF BuilderOK, Grows
<1>4. j.before \subseteq returned' /\ j.seen \subseteq j.base
  BY <1>1, <1>2 DEF BuilderOK, Grows
<1>5. ASSUME NEW k \in 1..Len(j.staged)
      PROVE  /\ j.staged[k] = j.staged[1] /\ Known(j.staged[k])'
             /\ \A r \in j.before : Holds(j.staged[k], r)'
  <2>1. PICK D : D = j.staged[k]
    OBVIOUS
  <2>2. j.staged[k] = j.staged[1] /\ Known(D) /\ \A r \in j.before : Holds(D, r)
    BY <1>1, <1>2, <2>1 DEF BuilderOK
  <2> QED BY <2>1, <2>2, SameKeys, HoldsKept
<1>6. ASSUME Scanning(j)
      PROVE  /\ Len(j.staged) < Len(j.places) /\ j.published = 0
             /\ Known(j.base)' /\ Known(j.lo)'
             /\ \A r \in j.before : Holds(j.base, r)'
  <2>1. /\ Len(j.staged) < Len(j.places) /\ j.published = 0
        /\ Known(j.base) /\ Known(j.lo) /\ \A r \in j.before : Holds(j.base, r)
    BY <1>1, <1>2, <1>6 DEF BuilderOK
  <2> QED BY <2>1, SameKeys, HoldsKept
<1>7. ASSUME ~Scanning(j)
      PROVE  Len(j.staged) = Len(j.places) /\ CapsuleVerified(j.staged[1], j.keys)'
  <2>1. Len(j.staged) = Len(j.places) /\ CapsuleVerified(j.staged[1], j.keys)
    BY <1>1, <1>2, <1>7 DEF BuilderOK
  <2>2. Len(j.places) \in {1, 2}
    BY <1>2, TargetsAssumption DEF BuildJob
  <2>3. Known(j.staged[1])
    BY <1>1, <1>2, <2>1, <2>2 DEF BuilderOK
  <2> QED BY <2>1, <2>3, SameKeys
<1>8. /\ j.pc = "publish" => j.published < Len(j.places)
      /\ j.pc = "confirm" => j.published = 2 /\ Len(j.places) = 2
  BY <1>1, <1>2 DEF BuilderOK
<1>9. job'[p] = j
  BY <1>1
<1> QED BY <1>3, <1>4, <1>5, <1>6, <1>7, <1>8, <1>9 DEF BuilderOK

LEMMA MemberKept ==
    ASSUME SInv, RInv, Grows, NEW d \in Device, members[d] # None, members'[d] = members[d]
    PROVE  MemberOK(d)'
<1>1. PICK m : m = members[d]
  OBVIOUS
<1>2. MemberOK(d) /\ m \in Capsule /\ m.no \in Nat /\ builds \in Nat
  BY <1>1 DEF RInv, RTypes, Capsule, SInv, STypes
<1>3. m.no <= builds'
  BY <1>1, <1>2 DEF MemberOK, Grows
<1>4. CapsuleVerified(m.files, m.keys)' /\ Known(m.files)' /\ \A r \in m.before : Holds(m.files, r)'
  BY <1>1, <1>2, SameKeys, HoldsKept DEF MemberOK
<1> QED BY <1>1, <1>3, <1>4 DEF MemberOK

LEMMA SetKept ==
    ASSUME SInv, RInv, Grows, NEW st \in sets
    PROVE  SetOK(st)'
<1>1. SetOK(st) /\ st.no \in Nat /\ builds \in Nat
  BY DEF RInv, RTypes, RecoverySet, SInv, STypes
<1>2. st.no <= builds'
  BY <1>1 DEF SetOK, Grows
<1>3. Known(st.files)' /\ \A r \in st.before : Holds(st.files, r)'
  BY <1>1, SameKeys, HoldsKept DEF SetOK
<1> QED BY <1>1, <1>2, <1>3 DEF SetOK, Grows

(* Jobs as RInv types them. *)
LEMMA Builders ==
    ASSUME SInv, RInv, NEW p \in Process, job[p].pc \in Builds
    PROVE  /\ job[p] \in BuildJob /\ BuilderOK(p) /\ job[p].pc \notin Writes
           /\ job[p].no \in Nat /\ job[p].no \in 1..MaxCalls /\ job[p].no <= builds
           /\ job[p].places \in Targets /\ job[p].places \in Seq(Device)
           /\ Len(job[p].places) \in {1, 2}
           /\ Len(job[p].places) = 2 => job[p].places[1] # job[p].places[2]
           /\ job[p].staged \in Seq(SUBSET File) /\ job[p].published \in 0..2
<1>1. job[p] \in BuildJob /\ BuilderOK(p)
  BY JobKinds DEF RInv, SInv, STypes
<1> QED BY <1>1, TargetsAssumption DEF BuildJob, BuilderOK, Builds, Writes

(* Numbers are kept by jobs that stay what they are or begin with a fresh   *)
(* number, while no member and no set is new.                               *)
LEMMA NumbersKept ==
    ASSUME SInv, RInv, sets' = sets,
           \A d \in Device : members'[d] = members[d] \/ members'[d] = None,
           \A q \in Process : job'[q].pc \in Builds =>
               \/ /\ job[q].pc \in Builds /\ job'[q].no = job[q].no
                  /\ ~Scanning(job[q]) => ~Scanning(job'[q]) /\ job'[q].staged = job[q].staged
               \/ job'[q].no = builds + 1,
           \A q, u \in Process :
               job'[q].pc \in Builds /\ job'[u].pc \in Builds
               /\ job'[q].no = builds + 1 /\ job'[u].no = builds + 1 => q = u
    PROVE  Numbers'
<1>1. builds \in Nat
  BY DEF SInv, STypes
<1>2. \A q \in Process : job[q].pc \in Builds => job[q].no \in Nat /\ job[q].no # builds + 1
  BY <1>1, Builders
<1>3. \A st \in sets : st.no \in Nat /\ st.no # builds + 1
  BY <1>1 DEF RInv, RTypes, SetOK, RecoverySet
<1>4. \A d \in Device : members[d] # None => members[d].no \in Nat /\ members[d].no # builds + 1
  <2> SUFFICES ASSUME NEW d \in Device, members[d] # None
               PROVE  members[d].no \in Nat /\ members[d].no # builds + 1
    OBVIOUS
  <2>1. members[d] \in Capsule /\ members[d].no <= builds
    BY DEF RInv, RTypes, MemberOK
  <2> QED BY <1>1, <2>1 DEF Capsule
<1>5. ASSUME NEW p \in Process, NEW q \in Process, p # q,
             job'[p].pc \in Builds, job'[q].pc \in Builds
      PROVE  job'[p].no # job'[q].no
  BY <1>2, <1>5 DEF RInv, Numbers
<1>6. ASSUME NEW p \in Process, NEW st \in sets, job'[p].pc \in Builds
      PROVE  job'[p].no # st.no
  BY <1>3, <1>6 DEF RInv, Numbers
<1>7. ASSUME NEW d \in Device, members'[d] # None, NEW p \in Process, job'[p].pc \in Builds,
             members'[d].no = job'[p].no
      PROVE  ~Scanning(job'[p]) /\ members'[d].files = job'[p].staged[1]
  <2>1. members'[d] = members[d] /\ members[d] # None
    BY <1>7
  <2>2. job'[p].no # builds + 1
    BY <1>4, <1>7, <2>1
  <2> QED BY <1>7, <2>1, <2>2 DEF RInv, Numbers
<1>8. ASSUME NEW d \in Device, members'[d] # None, NEW st \in sets, members'[d].no = st.no
      PROVE  members'[d].files = st.files
  BY <1>8 DEF RInv, Numbers
<1>9. \A st, su \in sets : st.no = su.no => st = su
  BY DEF RInv, Numbers
<1> QED BY <1>5, <1>6, <1>7, <1>8, <1>9 DEF Numbers, Scanning

LEMMA AbsentKept ==
    ASSUME RInv, losses' \in Nat, losses <= losses',
           \A n \in 1..MaxCalls, d \in Device :
               Claimed(n, d)' /\ ~At(d, n)' => Claimed(n, d) /\ ~At(d, n)
    PROVE  IsFiniteSet(Absent)' /\ (Cardinality(Absent) <= losses)'
<1>1. Absent' = {c \in (1..MaxCalls) \X Device : Claimed(c[1], c[2])' /\ ~At(c[2], c[1])'}
  BY DEF Absent, Claimed, At
<1>2. Absent' \subseteq Absent
  <2> SUFFICES ASSUME NEW c \in Absent' PROVE c \in Absent
    OBVIOUS
  <2>1. c \in (1..MaxCalls) \X Device /\ Claimed(c[1], c[2])' /\ ~At(c[2], c[1])'
    BY <1>1
  <2>2. c[1] \in 1..MaxCalls /\ c[2] \in Device
    BY <2>1
  <2> QED BY <2>1, <2>2 DEF Absent
<1>3. IsFiniteSet(Absent) /\ Cardinality(Absent) \in Nat /\ Cardinality(Absent) <= losses
      /\ losses \in Nat
  BY FS_CardinalityType DEF RInv, RTypes
<1>4. IsFiniteSet(Absent') /\ Cardinality(Absent') <= Cardinality(Absent)
      /\ Cardinality(Absent') \in Nat
  BY <1>2, <1>3, FS_Subset, FS_CardinalityType
<1>5. Cardinality(Absent') <= losses'
  BY <1>3, <1>4
<1> QED BY <1>4, <1>5

(* One process moves and no member or set is new. *)
LEMMA BuilderMoves ==
    ASSUME SInv, RInv, Grows, NEW p \in Process, NEW j \in Job, job' = [job EXCEPT ![p] = j],
           UNCHANGED <<members, sets, losses>>,
           j.pc \in Builds =>
               /\ BuilderOK(p)'
               /\ \/ /\ job[p].pc \in Builds /\ j.no = job[p].no
                     /\ ~Scanning(job[p]) => ~Scanning(j) /\ j.staged = job[p].staged
                  \/ j.no = builds + 1,
           \A n, d : Puts(j, n, d) => Puts(job[p], n, d)
    PROVE  RInv'
<1>1. job'[p] = j /\ \A q \in Process : q # p => job'[q] = job[q]
  BY DEF SInv, STypes
<1>2. RTypes'
  BY DEF RInv, RTypes
<1>3. \A q \in Process : job'[q].pc \in Builds => BuilderOK(q)'
  <2> SUFFICES ASSUME NEW q \in Process, job'[q].pc \in Builds PROVE BuilderOK(q)'
    OBVIOUS
  <2>1. CASE q = p
    BY <1>1, <2>1
  <2>2. CASE q # p
    BY <1>1, <2>2, BuilderKept
  <2> QED BY <2>1, <2>2
<1>4. \A d \in Device : members'[d] # None => MemberOK(d)'
  BY MemberKept
<1>5. \A st \in sets' : SetOK(st)'
  BY SetKept
<1>6. Numbers'
  <2>1. ASSUME NEW q \in Process, job'[q].pc \in Builds
        PROVE  \/ /\ job[q].pc \in Builds /\ job'[q].no = job[q].no
                  /\ ~Scanning(job[q]) => ~Scanning(job'[q]) /\ job'[q].staged = job[q].staged
               \/ job'[q].no = builds + 1
    BY <1>1, <2>1
  <2>2. ASSUME NEW q \in Process, job'[q].pc \in Builds, job'[q].no = builds + 1
        PROVE  q = p
    <3>1. ASSUME q # p PROVE FALSE
      <4>1. job[q].pc \in Builds /\ job[q].no = builds + 1
        BY <1>1, <2>2, <3>1
      <4>2. job[q].no \in Nat /\ job[q].no <= builds /\ builds \in Nat
        BY <4>1, Builders DEF SInv, STypes
      <4> QED BY <4>1, <4>2
    <3> QED BY <3>1
  <2>3. \A q, u \in Process :
            job'[q].pc \in Builds /\ job'[u].pc \in Builds
            /\ job'[q].no = builds + 1 /\ job'[u].no = builds + 1 => q = u
    BY <2>2
  <2>4. sets' = sets /\ \A d \in Device : members'[d] = members[d]
    OBVIOUS
  <2> QED BY <2>1, <2>3, <2>4, NumbersKept
<1>7. IsFiniteSet(Absent)' /\ (Cardinality(Absent) <= losses)'
  <2>1. losses' \in Nat /\ losses <= losses'
    BY DEF RInv, RTypes
  <2>2. ASSUME NEW n \in 1..MaxCalls, NEW d \in Device, Claimed(n, d)', ~At(d, n)'
        PROVE  Claimed(n, d) /\ ~At(d, n)
    <3>1. ~At(d, n)
      BY <2>2 DEF At
    <3>2. CASE \E st \in sets' : Has(st, n, d)
      BY <3>1, <3>2 DEF Claimed
    <3>3. CASE \E q \in Process : Puts(job'[q], n, d)
      BY <1>1, <3>1, <3>3 DEF Claimed
    <3>4. (\E st \in sets' : Has(st, n, d)) \/ (\E q \in Process : Puts(job'[q], n, d))
      BY <2>2 DEF Claimed, Has, Puts
    <3> QED BY <3>2, <3>3, <3>4
  <2> QED BY <2>1, <2>2, AbsentKept
<1> QED BY <1>2, <1>3, <1>4, <1>5, <1>6, <1>7 DEF RInv

(* Imports, rotations, derivations and their writes. *)
Writing(p) ==
    \/ \E s \in Source, id \in Content : ImportNew(p, s, id) \/ ImportKnown(p, s, id)
    \/ \E r \in returned : Rotate(p, r)
    \/ \E r \in returned, out \in Output : DeriveNew(p, r, out) \/ DeriveKnown(p, r, out)
    \/ WriteStep(p)

LEMMA WritingSInv ==
    ASSUME SInv, NEW p \in Process, Writing(p)
    PROVE  SInv'
BY ImportNewSInv, ImportKnownSInv, RotateSInv, DeriveNewSInv, DeriveKnownSInv, OpenFileSInv,
   FillFileSInv, SyncFileSInv, WriteFailsSInv DEF Writing, WriteStep

LEMMA WritingMoves ==
    ASSUME SInv, NEW p \in Process, Writing(p)
    PROVE  /\ UNCHANGED recovery /\ returned \subseteq returned' /\ (syncFailed => syncFailed')
           /\ made' = made \/ \E m : made' = Append(made, m)
           /\ \E j : job' = [job EXCEPT ![p] = j] /\ j.pc \notin Builds
<1>1. \A todo, r : [pc |-> "open", todo |-> todo, result |-> r].pc \notin Builds
  BY DEF Builds
<1>2. Idle.pc \notin Builds
  BY IdleTodo
<1>3. ASSUME NEW pc \in Writes, job[p].pc \in Writes, NEW todo
      PROVE  /\ [job[p] EXCEPT !.pc = pc].pc \notin Builds
             /\ [job[p] EXCEPT !.pc = pc, !.todo = todo].pc \notin Builds
  <2>1. job[p] \in WriteJob
    BY <1>3, Writers
  <2> QED BY <2>1 DEF WriteJob, Writes, Builds
<1>4. ASSUME NEW s, NEW id, NEW key, NEW of, NEW todo, Write(p, s, id, key, of, todo)
      PROVE  /\ UNCHANGED <<recovery, returned, syncFailed>>
             /\ \E m : made' = Append(made, m)
             /\ \E j : job' = [job EXCEPT ![p] = j] /\ j.pc \notin Builds
  BY <1>1, <1>4 DEF Write, Become
<1>5. ASSUME job[p].pc \in Writes, FileDone(p)
      PROVE  /\ returned \subseteq returned'
             /\ \E j : job' = [job EXCEPT ![p] = j] /\ j.pc \notin Builds
  <2>1. CASE Tail(job[p].todo) # <<>>
    BY <1>3, <1>5, <2>1 DEF FileDone, Become, Writes
  <2>2. CASE Tail(job[p].todo) = <<>>
    BY <1>2, <1>5, <2>2 DEF FileDone, Become
  <2> QED BY <2>1, <2>2
<1>6. CASE \E s \in Source, id \in Content : ImportNew(p, s, id)
  BY <1>4, <1>6 DEF ImportNew
<1>7. CASE \E s \in Source, id \in Content : ImportKnown(p, s, id)
  <2>1. UNCHANGED <<recovery, job, made, syncFailed>> /\ returned \subseteq returned'
        /\ job[p] = Idle
    BY <1>7 DEF ImportKnown
  <2>2. job' = [job EXCEPT ![p] = Idle]
    BY <2>1 DEF SInv, STypes
  <2> QED BY <1>2, <2>1, <2>2
<1>8. CASE \E r \in returned : Rotate(p, r)
  BY <1>4, <1>8 DEF Rotate
<1>9. CASE \E r \in returned, out \in Output : DeriveNew(p, r, out)
  BY <1>4, <1>9 DEF DeriveNew
<1>10. CASE \E r \in returned, out \in Output : DeriveKnown(p, r, out)
  <2>1. PICK r \in returned, out \in Output : DeriveKnown(p, r, out)
    BY <1>10
  <2>2. UNCHANGED store /\ UNCHANGED recovery
    BY <2>1 DEF DeriveKnown
  <2>3. \E j : job' = [job EXCEPT ![p] = j] /\ j.pc \notin Builds
    <3>1. PICK f \in IndexAt(r.id) \cap whole :
             Become(p, [pc |-> "open", todo |-> <<<<"derivation", r.ref, f[3]>>>>,
                        result |-> [source |-> r.id, id |-> out, ref |-> f[3], of |-> r.ref]])
      BY <2>1 DEF DeriveKnown
    <3> QED BY <1>1, <3>1 DEF Become
  <2> QED BY <2>2, <2>3 DEF store
<1>11. CASE OpenFile(p)
  <2>1. job[p].pc \in Writes /\ UNCHANGED <<recovery, made, syncFailed>>
    BY <1>11 DEF OpenFile, Writes
  <2>2. CASE Become(p, [job[p] EXCEPT !.pc = "fill"]) /\ UNCHANGED returned
    BY <1>3, <2>1, <2>2 DEF Become, Writes
  <2>3. CASE Become(p, Idle) /\ UNCHANGED returned
    BY <1>2, <2>1, <2>3 DEF Become
  <2> QED BY <1>5, <1>11, <2>1, <2>2, <2>3 DEF OpenFile
<1>12. CASE FillFile(p)
  BY <1>3, <1>12 DEF FillFile, Become, Writes
<1>13. CASE SyncFile(p)
  BY <1>5, <1>13 DEF SyncFile, Writes
<1>14. CASE WriteFails(p)
  BY <1>2, <1>14 DEF WriteFails, Become
<1> QED BY <1>6, <1>7, <1>8, <1>9, <1>10, <1>11, <1>12, <1>13, <1>14 DEF Writing, WriteStep

LEMMA WritingRInv ==
    ASSUME SInv, RInv, NEW p \in Process, Writing(p)
    PROVE  RInv'
<1>1. SInv'
  BY WritingSInv
<1>2. PICK j : job' = [job EXCEPT ![p] = j] /\ j.pc \notin Builds
  BY WritingMoves
<1>3. /\ UNCHANGED recovery /\ returned \subseteq returned' /\ (syncFailed => syncFailed')
      /\ made' = made \/ \E m : made' = Append(made, m)
  BY WritingMoves
<1>4. j \in Job
  BY <1>1, <1>2 DEF SInv, STypes
<1>5. Grows
  <2>1. made \in Seq(Made) /\ made' \in Seq(Made)
    BY <1>1 DEF SInv, STypes
  <2>2. ASSUME NEW m, made' = Append(made, m)
        PROVE  Len(made) <= Len(made') /\ \A n \in 1..Len(made) : made'[n] = made[n]
    <3>1. Len(made') = Len(made) + 1 /\ Len(made) \in Nat
      BY <2>1, <2>2
    <3>2. ASSUME NEW n \in 1..Len(made) PROVE made'[n] = made[n]
      BY <2>1, <2>2, <3>2
    <3> QED BY <3>1, <3>2
  <2>3. Len(made) <= Len(made') /\ \A n \in 1..Len(made) : made'[n] = made[n]
    BY <1>3, <2>1, <2>2
  <2> QED BY <1>3, <2>1, <2>3 DEF Grows, recovery, SInv, STypes
<1>6. \A n, d : ~Puts(j, n, d)
  BY <1>2 DEF Puts
<1> QED BY <1>2, <1>3, <1>4, <1>5, <1>6, BuilderMoves DEF recovery

-----------------------------------------------------------------------------
(* What a builder scans.                                                   *)

(* The directory holds all that was returned. *)
LEMMA StoreHolds ==
    ASSUME SInv
    PROVE  /\ files \subseteq File /\ whole \subseteq files /\ Known(files)
           /\ \A r \in returned : Holds(files, r)
<1>1. files \subseteq File /\ whole \subseteq files
  BY DEF SInv, STypes
<1>2. ASSUME NEW n \in Having(files, "manifest") PROVE n <= Len(made)
  <2>1. <<"manifest", n>> \in files /\ AttemptOf(<<"manifest", n>>) = n
    BY <1>2 DEF Having, AttemptOf, IsEvidence
  <2> QED BY <2>1 DEF SInv
<1>3. ASSUME NEW r \in returned PROVE Holds(files, r)
  <2>1. Kept(r)
    BY DEF SInv
  <2>2. Readable(files, r.ref)
    BY <1>1, <2>1, SettledReadable DEF Kept, Readable
  <2> QED BY <1>1, <2>1, <2>2 DEF Kept, Holds
<1> QED BY <1>1, <1>2, <1>3 DEF Known

(* Whatever a scan may list is known, and holds what its builder has to keep. *)
LEMMA ListingIs ==
    ASSUME SInv, RInv, NEW p \in Process, Scanning(job[p]), NEW D \in Listings(job[p])
    PROVE  /\ D \subseteq File /\ Known(D) /\ KeysOf(D) \subseteq Key
           /\ \A r \in job[p].before : Holds(D, r)
<1>0. PICK j : j = job[p]
  OBVIOUS
<1>1. job[p].pc \in Builds
  BY DEF Scanning, Builds
<1>2. /\ j \in BuildJob /\ j.base \subseteq File /\ j.lo \subseteq File /\ j.seen \subseteq j.base
      /\ Known(j.base) /\ Known(j.lo) /\ j.before \subseteq returned
      /\ \A r \in j.before : Holds(j.base, r)
  BY <1>0, <1>1, Builders DEF BuilderOK, BuildJob
<1>3. D \in {Lower(j) \cup X : X \in SUBSET (Upper(j) \ Lower(j))}
  BY <1>0 DEF Listings
<1>4. Lower(j) \subseteq D /\ D \subseteq Lower(j) \cup Upper(j)
  BY <1>3
<1>5. j.base \cap files \subseteq D /\ D \subseteq j.base \cup j.lo \cup files
  BY <1>2, <1>4, StoreHolds DEF Lower, Upper
<1>6. D \subseteq File
  BY <1>2, <1>5, StoreHolds
<1>7. Known(D)
  <2>1. Having(D, "manifest") \subseteq
           Having(j.base, "manifest") \cup Having(j.lo, "manifest") \cup Having(files, "manifest")
    BY <1>5 DEF Having
  <2> QED BY <1>2, <2>1, StoreHolds DEF Known
<1>8. KeysOf(D) \subseteq Key
  <2>1. ASSUME NEW n \in Having(D, "manifest") PROVE made[n].key \in Key
    <3>1. n \in 1..Len(made)
      <4>1. n <= Len(made) /\ n \in Nat /\ 1 <= n
        BY <1>7 DEF Known, Having, Attempt
      <4> QED BY <4>1 DEF SInv, STypes
    <3>2. made[n] \in Made
      BY <3>1 DEF SInv, STypes
    <3> QED BY <3>2 DEF Made
  <2> QED BY <2>1 DEF KeysOf
<1>9. ASSUME NEW r \in j.before PROVE Holds(D, r)
  <2>1. Holds(j.base, r) /\ Holds(files, r)
    BY <1>2, StoreHolds
  <2> QED BY <1>5, <2>1 DEF Holds, Readable
<1> QED BY <1>0, <1>6, <1>7, <1>8, <1>9

(* A builder that has published nothing begins, or takes a step. *)
LEMMA NextJob ==
    ASSUME SInv, RInv, NEW p \in Process, NEW k \in BuildJob, job' = [job EXCEPT ![p] = k],
           UNCHANGED <<store, members, sets, losses>>,
           \/ Scanning(job[p]) /\ k.no = job[p].no /\ builds' = builds
           \/ k.no = builds + 1 /\ builds' = builds + 1 /\ Len(made) + builds < MaxCalls,
           k.before \subseteq returned, k.published = 0, k.seen \subseteq k.base,
           \A i \in 1..Len(k.staged) :
              /\ k.staged[i] = k.staged[1] /\ Known(k.staged[i])
              /\ \A r \in k.before : Holds(k.staged[i], r),
           Scanning(k) => /\ Len(k.staged) < Len(k.places)
                          /\ Known(k.base) /\ Known(k.lo)
                          /\ \A r \in k.before : Holds(k.base, r),
           ~Scanning(k) => /\ k.pc = "publish" /\ Len(k.staged) = Len(k.places)
                           /\ CapsuleVerified(k.staged[1], k.keys)
    PROVE  SInv' /\ RInv'
<1>1. builds \in Nat /\ builds' \in Nat /\ builds <= builds' /\ Len(made) + builds' <= MaxCalls
      /\ Len(made) \in Nat
  BY BoundsAssumption DEF SInv, STypes
<1>2. k \in Job /\ k.pc \in Builds /\ k.pc \notin Writes
  BY DEF Job, BuildJob, Builds, Writes
<1>3. SInv'
  BY <1>1, <1>2, StoreStays
<1>4. Grows
  BY <1>1 DEF Grows, store, SInv, STypes
<1>5. job'[p] = k
  BY DEF SInv, STypes
<1>6. k.no <= builds'
  <2>1. CASE Scanning(job[p]) /\ k.no = job[p].no /\ builds' = builds
    <3>1. job[p].pc \in Builds
      BY <2>1 DEF Scanning, Builds
    <3> QED BY <2>1, <3>1, Builders
  <2>2. CASE k.no = builds + 1 /\ builds' = builds + 1
    BY <1>1, <2>2
  <2> QED BY <2>1, <2>2
<1>7. Len(k.places) \in {1, 2}
  BY TargetsAssumption DEF BuildJob
<1>8. BuilderOK(p)'
  <2>1. \A i \in 1..Len(k.staged) :
              /\ k.staged[i] = k.staged[1] /\ Known(k.staged[i])'
              /\ \A r \in k.before : Holds(k.staged[i], r)'
    <3> SUFFICES ASSUME NEW i \in 1..Len(k.staged)
                 PROVE  /\ k.staged[i] = k.staged[1] /\ Known(k.staged[i])'
                        /\ \A r \in k.before : Holds(k.staged[i], r)'
      OBVIOUS
    <3>1. PICK D : D = k.staged[i]
      OBVIOUS
    <3> QED BY <1>4, <3>1, SameKeys, HoldsKept
  <2>2. ASSUME Scanning(k)
        PROVE  /\ Len(k.staged) < Len(k.places) /\ Known(k.base)' /\ Known(k.lo)'
               /\ \A r \in k.before : Holds(k.base, r)'
    BY <1>4, <2>2, SameKeys, HoldsKept
  <2>3. ASSUME ~Scanning(k)
        PROVE  /\ k.pc = "publish" /\ Len(k.staged) = Len(k.places)
               /\ CapsuleVerified(k.staged[1], k.keys)'
    <3>1. 1 \in 1..Len(k.staged)
      BY <1>7, <2>3
    <3>2. Known(k.staged[1])
      BY <3>1
    <3> QED BY <1>4, <2>3, <3>2, SameKeys
  <2>4. k.pc = "publish" => k.published < Len(k.places)
    <3>1. k.pc = "publish" => ~Scanning(k)
      BY DEF Scanning
    <3> QED BY <1>7, <3>1
  <2>5. k.pc # "confirm"
    BY <2>3 DEF Scanning
  <2>6. k.before \subseteq returned'
    BY DEF store
  <2> QED BY <1>5, <1>6, <2>1, <2>2, <2>3, <2>4, <2>5, <2>6 DEF BuilderOK
<1>9. \/ /\ job[p].pc \in Builds /\ k.no = job[p].no
         /\ ~Scanning(job[p]) => ~Scanning(k) /\ k.staged = job[p].staged
      \/ k.no = builds + 1
  BY DEF Scanning, Builds
<1>10. \A n, d : ~Puts(k, n, d)
  BY DEF Puts
<1>11. RInv'
  BY <1>2, <1>4, <1>8, <1>9, <1>10, BuilderMoves
<1> QED BY <1>3, <1>11

LEMMA NextScanIs ==
    ASSUME SInv, NEW j \in BuildJob, NEW pc \in Builds, NEW k, k = NextScan(j, pc)
    PROVE  /\ k \in BuildJob /\ k.pc = pc /\ k.no = j.no /\ k.places = j.places
           /\ k.before = j.before /\ k.base = files /\ k.seen = whole
           /\ k.lo = {} /\ k.hi = {} /\ k.keys = j.keys
           /\ k.staged = j.staged /\ k.published = j.published
           /\ Known(k.lo) /\ Known(k.base)
<1>1. files \subseteq File /\ whole \subseteq File
  BY StoreHolds
<1>2. Known({}) /\ Known(files)
  BY StoreHolds DEF Known, Having
<1> QED BY <1>1, <1>2 DEF NextScan, BuildJob

LEMMA BeginBuildInv ==
    ASSUME SInv, RInv, NEW p \in Process, NEW t \in Targets, BeginBuild(p, t)
    PROVE  SInv' /\ RInv'
<1> DEFINE k == [pc |-> "verify", no |-> builds + 1, places |-> t, before |-> returned,
                 base |-> files, seen |-> whole, lo |-> {}, hi |-> {}, keys |-> {},
                 staged |-> <<>>, published |-> 0]
<1>1. /\ builds' = builds + 1 /\ Len(made) + builds < MaxCalls
      /\ UNCHANGED <<store, members, sets, losses>> /\ job' = [job EXCEPT ![p] = k]
  BY DEF BeginBuild, Become
<1>2. files \subseteq File /\ whole \subseteq files /\ Known(files)
      /\ \A r \in returned : Holds(files, r)
  BY StoreHolds
<1>3. k \in BuildJob
  <2>1. builds + 1 \in 1..MaxCalls
    BY <1>1, BoundsAssumption DEF SInv, STypes
  <2>2. <<>> \in Seq(SUBSET File) /\ "verify" \in Builds /\ 0 \in 0..2 /\ returned \subseteq Result
    BY DEF Builds, SInv, STypes
  <2> QED BY <1>2, <2>1, <2>2 DEF BuildJob
<1>4. /\ k.pc = "verify" /\ k.no = builds + 1 /\ k.places = t /\ k.before = returned
      /\ k.base = files /\ k.seen = whole /\ k.lo = {} /\ k.staged = <<>> /\ k.published = 0
  OBVIOUS
<1> HIDE DEF k
<1>5. Scanning(k)
  BY <1>4 DEF Scanning
<1>6. Len(k.staged) = 0
  <2>1. Len(<<>>) = 0
    OBVIOUS
  <2> QED BY <1>4, <2>1, Zenon
<1>7. Len(k.staged) < Len(k.places)
  <2>1. Len(t) \in {1, 2}
    BY TargetsAssumption
  <2>2. Len(k.places) \in {1, 2}
    BY <1>4, <2>1, Zenon
  <2>3. \A n \in {1, 2} : 0 < n
    OBVIOUS
  <2> QED BY <1>6, <2>2, <2>3, Zenon
<1>8. Known(k.lo) /\ Known(k.base)
  BY <1>2, <1>4 DEF Known, Having
<1>9. \A i \in 1..Len(k.staged) : FALSE
  BY <1>6
<1>10. k.seen \subseteq k.base /\ k.before \subseteq returned
       /\ \A r \in k.before : Holds(k.base, r)
  BY <1>2, <1>4
<1> QED BY <1>1, <1>3, <1>4, <1>5, <1>7, <1>8, <1>9, <1>10, NextJob

LEMMA VerifyStoreInv ==
    ASSUME SInv, RInv, NEW p \in Process, VerifyStore(p)
    PROVE  SInv' /\ RInv'
<1>0. PICK j : j = job[p]
  OBVIOUS
<1>1. job[p].pc \in Builds /\ Scanning(job[p])
  BY DEF VerifyStore, Scanning, Builds
<1>2. PICK D \in Listings(job[p]) :
         job' = [job EXCEPT ![p] = [NextScan(j, "snapshot") EXCEPT !.keys = KeysOf(D)]]
  BY <1>0 DEF VerifyStore, Become
<1>3. UNCHANGED <<store, members, sets, losses>> /\ builds' = builds
  BY DEF VerifyStore, recovery
<1>4. PICK h : h = NextScan(j, "snapshot")
  OBVIOUS
<1>5. KeysOf(D) \subseteq Key
  BY <1>1, ListingIs
<1>6. j \in BuildJob /\ BuilderOK(p)
  BY <1>0, <1>1, Builders
<1>7. "snapshot" \in Builds
  BY DEF Builds
<1>8. /\ h \in BuildJob /\ h.pc = "snapshot" /\ h.no = j.no /\ h.places = j.places
      /\ h.before = j.before /\ h.base = files /\ h.seen = whole
      /\ h.staged = j.staged /\ h.published = j.published /\ Known(h.lo) /\ Known(h.base)
  BY <1>4, <1>6, <1>7, NextScanIs
<1>9. PICK k : k = [h EXCEPT !.keys = KeysOf(D)]
  OBVIOUS
<1>10. /\ k \in BuildJob /\ k.pc = "snapshot" /\ k.no = j.no /\ k.places = j.places
       /\ k.before = j.before /\ k.base = files /\ k.seen = whole
       /\ k.staged = j.staged /\ k.published = j.published /\ k.lo = h.lo
  BY <1>5, <1>8, <1>9 DEF BuildJob
<1>11. Scanning(k) /\ job' = [job EXCEPT ![p] = k]
  BY <1>2, <1>4, <1>9, <1>10 DEF Scanning
<1>12. /\ j.before \subseteq returned /\ j.published = 0 /\ Len(j.staged) < Len(j.places)
       /\ \A i \in 1..Len(j.staged) :
              /\ j.staged[i] = j.staged[1] /\ Known(j.staged[i])
              /\ \A r \in j.before : Holds(j.staged[i], r)
  BY <1>0, <1>1, <1>6 DEF BuilderOK
<1>13. /\ k.before \subseteq returned /\ k.published = 0 /\ k.seen \subseteq k.base
       /\ Len(k.staged) < Len(k.places) /\ Known(k.base) /\ Known(k.lo)
       /\ \A r \in k.before : Holds(k.base, r)
       /\ k.no = job[p].no
  BY <1>0, <1>8, <1>10, <1>12, StoreHolds
<1>14. \A i \in 1..Len(k.staged) :
              /\ k.staged[i] = k.staged[1] /\ Known(k.staged[i])
              /\ \A r \in k.before : Holds(k.staged[i], r)
  BY <1>10, <1>12
<1> QED BY <1>1, <1>3, <1>10, <1>11, <1>13, <1>14, NextJob

LEMMA TakeSnapshotInv ==
    ASSUME SInv, RInv, NEW p \in Process, TakeSnapshot(p)
    PROVE  SInv' /\ RInv'
<1>0. PICK j : j = job[p]
  OBVIOUS
<1>1. job[p].pc \in Builds /\ Scanning(job[p])
  BY DEF TakeSnapshot, Scanning, Builds
<1>2. PICK lo, hi : lo = Lower(j) /\ hi = Upper(j)
  OBVIOUS
<1>3. /\ job' = [job EXCEPT ![p] = [NextScan(j, "copy") EXCEPT !.lo = lo, !.hi = hi]]
      /\ UNCHANGED <<store, members, sets, losses>> /\ builds' = builds
  BY <1>0, <1>2 DEF TakeSnapshot, Become, recovery
<1>4. PICK h : h = NextScan(j, "copy")
  OBVIOUS
<1>6. j \in BuildJob /\ BuilderOK(p)
  BY <1>0, <1>1, Builders
<1>7. "copy" \in Builds
  BY DEF Builds
<1>8. /\ h \in BuildJob /\ h.pc = "copy" /\ h.no = j.no /\ h.places = j.places
      /\ h.before = j.before /\ h.base = files /\ h.seen = whole
      /\ h.staged = j.staged /\ h.published = j.published /\ Known(h.base)
  BY <1>4, <1>6, <1>7, NextScanIs
<1>5. lo \subseteq File /\ hi \subseteq File /\ Known(lo)
  <2>1. /\ j.base \subseteq File /\ j.lo \subseteq File /\ j.seen \subseteq j.base
        /\ Known(j.base) /\ Known(j.lo)
    BY <1>0, <1>1, <1>6 DEF BuilderOK, BuildJob
  <2>2. lo \subseteq j.base \cup j.lo /\ lo \subseteq File /\ hi \subseteq File
    BY <1>2, <2>1, StoreHolds DEF Lower, Upper
  <2> QED BY <2>1, <2>2 DEF Known, Having
<1>9. PICK k : k = [h EXCEPT !.lo = lo, !.hi = hi]
  OBVIOUS
<1>10. /\ k \in BuildJob /\ k.pc = "copy" /\ k.no = j.no /\ k.places = j.places
       /\ k.before = j.before /\ k.base = files /\ k.seen = whole
       /\ k.staged = j.staged /\ k.published = j.published /\ k.lo = lo
  BY <1>5, <1>8, <1>9 DEF BuildJob
<1>11. Scanning(k) /\ job' = [job EXCEPT ![p] = k]
  BY <1>3, <1>4, <1>9, <1>10 DEF Scanning
<1>12. /\ j.before \subseteq returned /\ j.published = 0 /\ Len(j.staged) < Len(j.places)
       /\ \A i \in 1..Len(j.staged) :
              /\ j.staged[i] = j.staged[1] /\ Known(j.staged[i])
              /\ \A r \in j.before : Holds(j.staged[i], r)
  BY <1>0, <1>1, <1>6 DEF BuilderOK
<1>13. /\ k.before \subseteq returned /\ k.published = 0 /\ k.seen \subseteq k.base
       /\ Len(k.staged) < Len(k.places) /\ Known(k.base) /\ Known(k.lo)
       /\ \A r \in k.before : Holds(k.base, r)
       /\ k.no = job[p].no
  BY <1>0, <1>5, <1>8, <1>10, <1>12, StoreHolds
<1>14. \A i \in 1..Len(k.staged) :
              /\ k.staged[i] = k.staged[1] /\ Known(k.staged[i])
              /\ \A r \in k.before : Holds(k.staged[i], r)
  BY <1>10, <1>12
<1> QED BY <1>1, <1>3, <1>10, <1>11, <1>13, <1>14, NextJob

LEMMA StageCopyInv ==
    ASSUME SInv, RInv, NEW p \in Process, StageCopy(p)
    PROVE  SInv' /\ RInv'
<1>0. PICK j : j = job[p]
  OBVIOUS
<1>1. job[p].pc \in Builds /\ Scanning(job[p])
  BY DEF StageCopy, Scanning, Builds
<1>2. PICK D \in Listings(job[p]) :
         /\ CapsuleVerified(D, j.keys)
         /\ \A i \in 1..Len(j.staged) : j.staged[i] = D
         /\ Staged(p, D)
  BY <1>0 DEF StageCopy
<1>3. UNCHANGED <<store, members, sets, losses>> /\ builds' = builds
  BY DEF StageCopy, recovery
<1>4. PICK pc : pc = IF Len(j.staged) + 1 < Len(j.places) THEN "verify" ELSE "publish"
  OBVIOUS
<1>5. PICK h : h = NextScan(j, pc)
  OBVIOUS
<1>6. D \subseteq File /\ Known(D) /\ \A r \in j.before : Holds(D, r)
  BY <1>0, <1>1, ListingIs
<1>7. j \in BuildJob /\ BuilderOK(p)
  BY <1>0, <1>1, Builders
<1>8. pc \in Builds
  BY <1>4 DEF Builds
<1>9. /\ h \in BuildJob /\ h.pc = pc /\ h.no = j.no /\ h.places = j.places
      /\ h.before = j.before /\ h.base = files /\ h.seen = whole /\ h.keys = j.keys
      /\ h.staged = j.staged /\ h.published = j.published /\ Known(h.lo) /\ Known(h.base)
  BY <1>5, <1>7, <1>8, NextScanIs
<1>10. PICK s : s = Append(j.staged, D)
  OBVIOUS
<1>11. j.staged \in Seq(SUBSET File) /\ Len(j.staged) \in Nat
  BY <1>7 DEF BuildJob
<1>12. s \in Seq(SUBSET File) /\ Len(s) = Len(j.staged) + 1
  BY <1>6, <1>10, <1>11
<1>13. \A i \in 1..Len(s) : s[i] = D
  <2> SUFFICES ASSUME NEW i \in 1..Len(s) PROVE s[i] = D
    OBVIOUS
  <2>1. CASE i = Len(j.staged) + 1
    BY <1>10, <1>11, <2>1
  <2>2. CASE i # Len(j.staged) + 1
    <3>1. i \in 1..Len(j.staged)
      BY <1>11, <1>12, <2>2
    <3> QED BY <1>2, <1>10, <1>11, <3>1
  <2> QED BY <2>1, <2>2
<1>14. PICK k : k = [h EXCEPT !.staged = s]
  OBVIOUS
<1>15. /\ k \in BuildJob /\ k.pc = pc /\ k.no = j.no /\ k.places = j.places
       /\ k.before = j.before /\ k.base = files /\ k.seen = whole /\ k.keys = j.keys
       /\ k.staged = s /\ k.published = j.published /\ k.lo = h.lo
  BY <1>9, <1>12, <1>14 DEF BuildJob
<1>16. job' = [job EXCEPT ![p] = k]
  <2>1. [NextScan(j, pc) EXCEPT !.staged = Append(@, D)] = k
    BY <1>5, <1>9, <1>10, <1>14
  <2> QED BY <1>0, <1>2, <1>4, <2>1 DEF Staged, Become
<1>17. /\ j.before \subseteq returned /\ j.published = 0 /\ Len(j.staged) < Len(j.places)
  BY <1>0, <1>1, <1>7 DEF BuilderOK
<1>18. Len(j.places) \in Nat /\ 1 \in 1..Len(s)
  BY <1>7, <1>11, <1>12, TargetsAssumption DEF BuildJob
<1>19. /\ k.before \subseteq returned /\ k.published = 0 /\ k.seen \subseteq k.base
       /\ Known(k.base) /\ Known(k.lo) /\ k.no = job[p].no
       /\ \A r \in k.before : Holds(k.base, r)
  BY <1>0, <1>9, <1>15, <1>17, StoreHolds
<1>20. \A i \in 1..Len(k.staged) :
              /\ k.staged[i] = k.staged[1] /\ Known(k.staged[i])
              /\ \A r \in k.before : Holds(k.staged[i], r)
  BY <1>6, <1>13, <1>15, <1>18
<1>21. Scanning(k) => Len(k.staged) < Len(k.places)
  BY <1>4, <1>12, <1>15 DEF Scanning
<1>22. ~Scanning(k) => /\ k.pc = "publish" /\ Len(k.staged) = Len(k.places)
                       /\ CapsuleVerified(k.staged[1], k.keys)
  BY <1>2, <1>4, <1>11, <1>12, <1>13, <1>15, <1>17, <1>18 DEF Scanning
<1> QED BY <1>1, <1>3, <1>15, <1>16, <1>19, <1>20, <1>21, <1>22, NextJob

LEMMA CrashInv ==
    ASSUME SInv, RInv, NEW p \in Process, Crash(p)
    PROVE  SInv' /\ RInv'
<1>1. /\ job' = [job EXCEPT ![p] = Idle] /\ UNCHANGED <<store, members, sets, losses>>
      /\ builds' = builds
  BY DEF Crash, Become, recovery
<1>2. Idle \in Job /\ Idle.pc \notin Writes /\ Idle.pc \notin Builds
  BY IdleTodo DEF Job
<1>3. builds' \in Nat /\ Len(made) + builds' <= MaxCalls
  BY <1>1 DEF SInv, STypes
<1>4. Grows
  BY <1>1 DEF Grows, store, SInv, STypes
<1>5. \A n, d : ~Puts(Idle, n, d)
  BY <1>2 DEF Puts
<1>6. SInv'
  BY <1>1, <1>2, <1>3, StoreStays
<1> QED BY <1>1, <1>2, <1>4, <1>5, <1>6, BuilderMoves

LEMMA RotateSetInv ==
    ASSUME SInv, RInv, NEW p \in Process, NEW st \in sets, NEW i \in 1..2, NEW t \in Targets,
           RotateSet(p, st, i, t)
    PROVE  SInv' /\ RInv'
<1>1. PICK keys : keys = members[st.places[i]].keys
  OBVIOUS
<1>2. PICK two : two = <<st.files, st.files>>
  OBVIOUS
<1> DEFINE k == [pc |-> "publish", no |-> builds + 1, places |-> t, before |-> st.before,
                 base |-> {}, seen |-> {}, lo |-> {}, hi |-> {}, keys |-> keys,
                 staged |-> two, published |-> 0]
<1>3. /\ builds' = builds + 1 /\ Len(made) + builds < MaxCalls /\ Len(t) = 2
      /\ UNCHANGED <<store, members, sets, losses>> /\ job' = [job EXCEPT ![p] = k]
  BY <1>1, <1>2 DEF RotateSet, Become
<1>4. st \in RecoverySet /\ SetOK(st)
  BY DEF RInv, RTypes
<1>5. st.places[i] \in Device
  <2>1. st.places \in Seq(Device) /\ Len(st.places) = 2
    BY <1>4, TargetsAssumption DEF SetOK, RecoverySet
  <2> QED BY <2>1
<1>6. CapsuleVerified(st.files, keys) /\ keys \subseteq Key
  <2>1. members[st.places[i]] # None /\ CapsuleVerified(st.files, keys)
    BY <1>1 DEF RotateSet, Restorable, IsMember
  <2>2. members[st.places[i]] \in Capsule
    BY <1>5, <2>1 DEF RInv, RTypes
  <2> QED BY <1>1, <2>1, <2>2 DEF Capsule
<1>7. /\ two \in Seq(SUBSET File) /\ Len(two) = 2
      /\ \A n \in 1..2 : two[n] = st.files
  BY <1>2, <1>4 DEF RecoverySet
<1>8. k \in BuildJob
  <2>1. builds + 1 \in 1..MaxCalls
    BY <1>3, BoundsAssumption DEF SInv, STypes
  <2>2. "publish" \in Builds /\ 0 \in 0..2 /\ st.before \subseteq Result
    BY <1>4 DEF Builds, RecoverySet
  <2> QED BY <1>6, <1>7, <2>1, <2>2 DEF BuildJob
<1>9. /\ k.pc = "publish" /\ k.no = builds + 1 /\ k.places = t /\ k.before = st.before
      /\ k.base = {} /\ k.seen = {} /\ k.staged = two /\ k.published = 0 /\ k.keys = keys
  OBVIOUS
<1> HIDE DEF k
<1>10. ~Scanning(k) /\ k.seen \subseteq k.base
  BY <1>9 DEF Scanning
<1>11. Len(k.staged) = Len(k.places)
  BY <1>3, <1>7, <1>9
<1>12. Known(st.files) /\ st.before \subseteq returned /\ \A r \in st.before : Holds(st.files, r)
  BY <1>4 DEF SetOK
<1>13. \A n \in 1..Len(k.staged) : k.staged[n] = st.files
  BY <1>7, <1>9
<1>14. 1 \in 1..Len(k.staged)
  <2>1. Len(k.staged) = 2
    BY <1>7, <1>9
  <2> QED BY <2>1
<1>15. CapsuleVerified(k.staged[1], k.keys)
  <2>1. k.staged[1] = st.files
    BY <1>13, <1>14
  <2> QED BY <1>6, <1>9, <2>1
<1>16. \A n \in 1..Len(k.staged) :
              /\ k.staged[n] = k.staged[1] /\ Known(k.staged[n])
              /\ \A r \in k.before : Holds(k.staged[n], r)
  BY <1>9, <1>12, <1>13, <1>14
<1> QED BY <1>3, <1>8, <1>9, <1>10, <1>11, <1>12, <1>15, <1>16, NextJob

-----------------------------------------------------------------------------
(* Publication, confirmation, clean-up and loss.                           *)

(* A member of its staged capsule is put where there was none. *)
LEMMA MemberAppears ==
    ASSUME SInv, RInv, NEW p \in Process, job[p].pc = "publish",
           NEW x \in Job, job' = [job EXCEPT ![p] = x],
           UNCHANGED <<store, builds, sets, losses>>,
           NEW d \in Device, members[d] = None, NEW m \in Capsule,
           members' = [members EXCEPT ![d] = m],
           m.no = job[p].no, m.files = job[p].staged[1], m.keys = job[p].keys,
           m.before = job[p].before,
           x.pc \notin Writes,
           x.pc \in Builds => /\ x.no = job[p].no /\ x.staged = job[p].staged /\ ~Scanning(x)
                              /\ BuilderOK(p)',
           \A n, e : Puts(x, n, e) => Puts(job[p], n, e) \/ (n = job[p].no /\ e = d)
    PROVE  SInv' /\ RInv'
<1>0. PICK j : j = job[p]
  OBVIOUS
<1>1. job[p].pc \in Builds /\ ~Scanning(job[p])
  BY DEF Builds, Scanning
<1>2. /\ job'[p] = x /\ \A q \in Process : q # p => job'[q] = job[q]
      /\ builds' \in Nat /\ Len(made) + builds' <= MaxCalls
  BY DEF SInv, STypes
<1>3. SInv'
  BY <1>2, StoreStays
<1>4. Grows
  BY DEF Grows, store, SInv, STypes
<1>5. /\ members \in [Device -> Capsule \cup {None}] /\ members'[d] = m
      /\ \A e \in Device : e # d => members'[e] = members[e]
      /\ members' \in [Device -> Capsule \cup {None}]
  BY DEF RInv, RTypes
<1>6. RTypes'
  BY <1>5 DEF RInv, RTypes
<1>7. \A q \in Process : job'[q].pc \in Builds => BuilderOK(q)'
  <2> SUFFICES ASSUME NEW q \in Process, job'[q].pc \in Builds PROVE BuilderOK(q)'
    OBVIOUS
  <2>1. CASE q = p
    BY <1>2, <2>1
  <2>2. CASE q # p
    BY <1>2, <1>4, <2>2, BuilderKept
  <2> QED BY <2>1, <2>2
<1>8. ASSUME NEW e \in Device, members'[e] # None PROVE MemberOK(e)'
  <2>1. CASE e # d
    BY <1>4, <1>5, <1>8, <2>1, MemberKept
  <2>2. CASE e = d
    <3>1. j \in BuildJob /\ BuilderOK(p) /\ Len(j.places) \in {1, 2}
      BY <1>0, <1>1, Builders
    <3>2. Len(j.staged) = Len(j.places) /\ CapsuleVerified(j.staged[1], j.keys) /\ j.no <= builds
      BY <1>0, <1>1, <3>1 DEF BuilderOK
    <3>3. 1 \in 1..Len(j.staged)
      BY <3>1, <3>2
    <3>4. Known(j.staged[1]) /\ \A r \in j.before : Holds(j.staged[1], r)
      BY <1>0, <3>1, <3>3 DEF BuilderOK
    <3>5. CapsuleVerified(m.files, m.keys)' /\ Known(m.files)' /\ \A r \in m.before : Holds(m.files, r)'
      BY <1>0, <1>4, <3>2, <3>4, SameKeys, HoldsKept
    <3>6. m.no <= builds'
      BY <1>0, <3>2
    <3> QED BY <1>5, <2>2, <3>5, <3>6 DEF MemberOK
  <2> QED BY <2>1, <2>2
<1>9. \A st \in sets' : SetOK(st)'
  BY <1>4, SetKept
<1>10. Numbers'
  <2>0. Numbers
    BY DEF RInv
  <2>1. \A q \in Process : job'[q].pc \in Builds =>
            /\ job[q].pc \in Builds /\ job'[q].no = job[q].no
            /\ ~Scanning(job[q]) => ~Scanning(job'[q]) /\ job'[q].staged = job[q].staged
    BY <1>1, <1>2
  <2>2. \A q, u \in Process : q # u /\ job'[q].pc \in Builds /\ job'[u].pc \in Builds
                                => job'[q].no # job'[u].no
    BY <2>0, <2>1 DEF Numbers
  <2>3. \A q \in Process, st \in sets : job'[q].pc \in Builds => job'[q].no # st.no
    BY <2>0, <2>1 DEF Numbers
  <2>4. ASSUME NEW e \in Device, members'[e] # None, NEW st \in sets, members'[e].no = st.no
        PROVE  members'[e].files = st.files
    <3>1. CASE e = d
      BY <1>1, <1>5, <2>0, <2>4, <3>1 DEF Numbers
    <3>2. CASE e # d
      BY <1>5, <2>0, <2>4, <3>2 DEF Numbers
    <3> QED BY <3>1, <3>2
  <2>5. ASSUME NEW e \in Device, members'[e] # None, NEW q \in Process, job'[q].pc \in Builds,
               members'[e].no = job'[q].no
        PROVE  ~Scanning(job'[q]) /\ members'[e].files = job'[q].staged[1]
    <3>1. CASE e # d
      BY <1>5, <2>0, <2>1, <2>5, <3>1 DEF Numbers
    <3>2. CASE e = d
      <4>1. q = p
        BY <1>1, <1>5, <2>0, <2>1, <2>5, <3>2 DEF Numbers
      <4> QED BY <1>1, <1>2, <1>5, <2>1, <2>5, <3>2, <4>1
    <3> QED BY <3>1, <3>2
  <2>6. \A st, su \in sets : st.no = su.no => st = su
    BY <2>0 DEF Numbers
  <2> QED BY <2>2, <2>3, <2>4, <2>5, <2>6 DEF Numbers
<1>11. IsFiniteSet(Absent)' /\ (Cardinality(Absent) <= losses)'
  <2>1. losses' \in Nat /\ losses <= losses'
    BY DEF RInv, RTypes
  <2>2. ASSUME NEW n \in 1..MaxCalls, NEW e \in Device, Claimed(n, e)', ~At(e, n)'
        PROVE  Claimed(n, e) /\ ~At(e, n)
    <3>1. ~At(e, n)
      BY <1>5, <2>2 DEF At
    <3>2. CASE \E st \in sets' : Has(st, n, e)
      BY <3>1, <3>2 DEF Claimed
    <3>3. CASE \E q \in Process : Puts(job'[q], n, e)
      <4>1. PICK q \in Process : Puts(job'[q], n, e)
        BY <3>3
      <4>2. ~(n = job[p].no /\ e = d)
        <5>1. m # None
          BY NoneAssumption
        <5>2. ASSUME n = job[p].no, e = d PROVE FALSE
          BY <1>5, <2>2, <5>1, <5>2 DEF At
        <5> QED BY <5>2
      <4>3. Puts(job[q], n, e)
        BY <1>2, <4>1, <4>2
      <4> QED BY <3>1, <4>3 DEF Claimed
    <3>4. (\E st \in sets' : Has(st, n, e)) \/ (\E q \in Process : Puts(job'[q], n, e))
      BY <2>2 DEF Claimed, Has, Puts
    <3> QED BY <3>2, <3>3, <3>4
  <2> QED BY <2>1, <2>2, AbsentKept
<1>12. RInv'
  BY <1>6, <1>7, <1>8, <1>9, <1>10, <1>11 DEF RInv
<1> QED BY <1>3, <1>12

LEMMA PublishInv ==
    ASSUME SInv, RInv, NEW p \in Process, Publish(p)
    PROVE  SInv' /\ RInv'
<1>0. PICK j : j = job[p]
  OBVIOUS
<1>1. PICK k : k = j.published + 1
  OBVIOUS
<1>2. PICK d : d = j.places[k]
  OBVIOUS
<1>3. PICK m : m = [no |-> j.no, files |-> j.staged[k], keys |-> j.keys, before |-> j.before]
  OBVIOUS
<1>4. PICK x : x = CASE k < Len(j.places)             -> [j EXCEPT !.published = k]
                     [] k = Len(j.places) /\ k = 2    -> [j EXCEPT !.published = k,
                                                                   !.pc = "confirm"]
                     [] OTHER                         -> Idle
  OBVIOUS
<1>5. /\ job[p].pc = "publish" /\ members[d] = None /\ members' = [members EXCEPT ![d] = m]
      /\ job' = [job EXCEPT ![p] = x] /\ UNCHANGED <<store, builds, sets, losses>>
  BY <1>0, <1>1, <1>2, <1>3, <1>4 DEF Publish, Become
<1>6. job[p].pc \in Builds /\ ~Scanning(job[p])
  BY <1>5 DEF Builds, Scanning
<1>7. /\ j \in BuildJob /\ BuilderOK(p) /\ Len(j.places) \in {1, 2} /\ j.published \in 0..2
      /\ j.places \in Seq(Device) /\ j.staged \in Seq(SUBSET File)
  BY <1>0, <1>6, Builders
<1>8. /\ j.no <= builds /\ j.before \subseteq returned /\ j.seen \subseteq j.base
      /\ Len(j.staged) = Len(j.places) /\ CapsuleVerified(j.staged[1], j.keys)
      /\ j.published < Len(j.places)
      /\ \A i \in 1..Len(j.staged) :
              /\ j.staged[i] = j.staged[1] /\ Known(j.staged[i])
              /\ \A r \in j.before : Holds(j.staged[i], r)
  BY <1>0, <1>5, <1>6, <1>7 DEF BuilderOK
<1>9. k \in 1..Len(j.places) /\ k \in 1..2
  BY <1>1, <1>7, <1>8
<1>10. d \in Device /\ j.staged[k] \subseteq File /\ j.staged[k] = j.staged[1]
  BY <1>2, <1>7, <1>8, <1>9
<1>11. m \in Capsule
  BY <1>3, <1>7, <1>10 DEF BuildJob, Capsule
<1>12. /\ m.no = job[p].no /\ m.files = job[p].staged[1] /\ m.keys = job[p].keys
       /\ m.before = job[p].before
  BY <1>0, <1>3, <1>10
<1>13. Grows
  BY <1>5 DEF Grows, store, SInv, STypes
<1>14. job'[p] = x
  BY <1>5 DEF SInv, STypes
<1>15. ASSUME NEW pc,
              \/ pc = "publish" /\ k < Len(j.places)
              \/ pc = "confirm" /\ k = 2 /\ Len(j.places) = 2,
              x = [j EXCEPT !.published = k, !.pc = pc]
       PROVE  /\ x \in Job /\ x.pc \notin Writes
              /\ x.no = j.no /\ x.staged = j.staged /\ ~Scanning(x) /\ BuilderOK(p)'
              /\ \A n, e : Puts(x, n, e) => Puts(j, n, e) \/ (n = j.no /\ e = d)
  <2>1. /\ x \in BuildJob /\ x.pc = pc /\ x.no = j.no /\ x.staged = j.staged
        /\ x.places = j.places /\ x.keys = j.keys /\ x.before = j.before
        /\ x.base = j.base /\ x.seen = j.seen /\ x.published = k
    <3>1. pc \in Builds
      BY <1>15 DEF Builds
    <3>2. k \in 0..2
      BY <1>9
    <3> QED BY <1>7, <1>15, <3>1, <3>2 DEF BuildJob
  <2>2. x \in Job /\ x.pc \notin Writes /\ ~Scanning(x) /\ x.pc \in Builds
    BY <1>15, <2>1 DEF Job, Writes, Scanning, Builds
  <2>3. ASSUME NEW i \in 1..Len(x.staged)
        PROVE  /\ x.staged[i] = x.staged[1] /\ Known(x.staged[i])'
               /\ \A r \in x.before : Holds(x.staged[i], r)'
    <3>1. PICK D : D = x.staged[i]
      OBVIOUS
    <3>2. D = x.staged[1] /\ Known(D) /\ \A r \in x.before : Holds(D, r)
      BY <1>8, <2>1, <3>1
    <3> QED BY <1>13, <3>1, <3>2, SameKeys, HoldsKept
  <2>4. CapsuleVerified(x.staged[1], x.keys)'
    <3>1. 1 \in 1..Len(j.staged)
      BY <1>7, <1>8
    <3>2. Known(j.staged[1])
      BY <1>8, <3>1
    <3> QED BY <1>8, <1>13, <2>1, <3>2, SameKeys
  <2>5. BuilderOK(p)'
    <3>1. x.no <= builds' /\ x.before \subseteq returned' /\ x.seen \subseteq x.base
      BY <1>5, <1>8, <2>1 DEF store
    <3>2. Len(x.staged) = Len(x.places)
      BY <1>8, <2>1
    <3>3. /\ x.pc = "publish" => x.published < Len(x.places)
          /\ x.pc = "confirm" => x.published = 2 /\ Len(x.places) = 2
      BY <1>15, <2>1
    <3> QED BY <1>14, <2>2, <2>3, <2>4, <3>1, <3>2, <3>3 DEF BuilderOK
  <2>6. ASSUME NEW n, NEW e, Puts(x, n, e) PROVE Puts(j, n, e) \/ (n = j.no /\ e = d)
    <3>1. x.no = n
      BY <2>6 DEF Puts
    <3>2. PICK i \in 1..k : j.places[i] = e
      BY <2>1, <2>6 DEF Puts
    <3>3. CASE i = k
      BY <1>2, <2>1, <3>1, <3>2, <3>3
    <3>4. CASE i # k
      <4>1. i \in 1..j.published
        BY <1>1, <1>7, <1>9, <3>4
      <4>2. j.pc \in Builds
        BY <1>0, <1>6
      <4> QED BY <2>1, <3>1, <3>2, <4>1, <4>2 DEF Puts
    <3> QED BY <3>3, <3>4
  <2> QED BY <2>1, <2>2, <2>5, <2>6
<1>16. /\ x \in Job /\ x.pc \notin Writes
       /\ x.pc \in Builds => /\ x.no = job[p].no /\ x.staged = job[p].staged /\ ~Scanning(x)
                             /\ BuilderOK(p)'
       /\ \A n, e : Puts(x, n, e) => Puts(job[p], n, e) \/ (n = job[p].no /\ e = d)
  <2>1. CASE k < Len(j.places)
    <3>1. x = [j EXCEPT !.published = k]
      BY <1>4, <2>1
    <3>2. j.pc = "publish"
      BY <1>0, <1>5
    <3>3. [j EXCEPT !.published = k] = [j EXCEPT !.published = k, !.pc = "publish"]
      BY <1>7, <3>2 DEF BuildJob
    <3>4. x = [j EXCEPT !.published = k, !.pc = "publish"]
      BY <3>1, <3>3
    <3>5. /\ x \in Job /\ x.pc \notin Writes
          /\ x.no = j.no /\ x.staged = j.staged /\ ~Scanning(x) /\ BuilderOK(p)'
          /\ \A n, e : Puts(x, n, e) => Puts(j, n, e) \/ (n = j.no /\ e = d)
      BY <1>15, <2>1, <3>4
    <3> QED BY <1>0, <3>5
  <2>2. CASE k = Len(j.places) /\ k = 2
    <3>1. x = [j EXCEPT !.published = k, !.pc = "confirm"]
      BY <1>4, <2>2
    <3> QED BY <1>0, <1>15, <2>2, <3>1
  <2>3. CASE ~(k < Len(j.places)) /\ ~(k = Len(j.places) /\ k = 2)
    <3>1. x = Idle
      BY <1>4, <2>3
    <3>2. x \in Job /\ x.pc \notin Writes /\ x.pc \notin Builds
      BY <3>1, IdleTodo DEF Job
    <3>3. \A n, e : ~Puts(x, n, e)
      BY <3>2 DEF Puts
    <3> QED BY <3>2, <3>3
  <2> QED BY <2>1, <2>2, <2>3
<1> QED BY <1>5, <1>10, <1>11, <1>12, <1>16, MemberAppears

LEMMA ConfirmInv ==
    ASSUME SInv, RInv, NEW p \in Process, Confirm(p)
    PROVE  SInv' /\ RInv'
<1>0. PICK j : j = job[p]
  OBVIOUS
<1>1. PICK st : st = [no |-> j.no, places |-> j.places, files |-> j.staged[1], before |-> j.before]
  OBVIOUS
<1>2. /\ job[p].pc = "confirm" /\ sets' = sets \cup {st} /\ job' = [job EXCEPT ![p] = Idle]
      /\ UNCHANGED <<store, builds, members, losses>>
  BY <1>0, <1>1 DEF Confirm, Become
<1>3. job[p].pc \in Builds /\ ~Scanning(job[p])
  BY <1>2 DEF Builds, Scanning
<1>4. /\ j \in BuildJob /\ BuilderOK(p) /\ j.no \in 1..MaxCalls /\ j.no <= builds
      /\ j.places \in Targets /\ j.staged \in Seq(SUBSET File) /\ j.before \subseteq Result
  BY <1>0, <1>3, Builders DEF BuildJob
<1>5. /\ j.published = 2 /\ Len(j.places) = 2 /\ Len(j.staged) = 2 /\ j.before \subseteq returned
      /\ \A i \in 1..Len(j.staged) :
              /\ Known(j.staged[i])
              /\ \A r \in j.before : Holds(j.staged[i], r)
  BY <1>0, <1>2, <1>3, <1>4 DEF BuilderOK
<1>6. /\ st.no = j.no /\ st.places = j.places /\ st.files = j.staged[1] /\ st.before = j.before
      /\ st \in RecoverySet
  <2>1. j.staged[1] \subseteq File
    BY <1>4, <1>5
  <2> QED BY <1>1, <1>4, <2>1 DEF RecoverySet
<1>7. /\ job'[p] = Idle /\ \A q \in Process : q # p => job'[q] = job[q]
      /\ builds' \in Nat /\ Len(made) + builds' <= MaxCalls
  BY <1>2 DEF SInv, STypes
<1>8. Idle \in Job /\ Idle.pc \notin Writes /\ Idle.pc \notin Builds
  BY IdleTodo DEF Job
<1>9. SInv'
  BY <1>2, <1>7, <1>8, StoreStays
<1>10. Grows
  BY <1>2 DEF Grows, store, SInv, STypes
<1>11. RTypes'
  BY <1>2, <1>6 DEF RInv, RTypes
<1>12. \A q \in Process : job'[q].pc \in Builds => BuilderOK(q)'
  BY <1>7, <1>8, <1>10, BuilderKept
<1>13. \A d \in Device : members'[d] # None => MemberOK(d)'
  BY <1>2, <1>10, MemberKept
<1>14. ASSUME NEW su \in sets' PROVE SetOK(su)'
  <2>1. CASE su \in sets
    BY <1>10, <2>1, SetKept
  <2>2. CASE su = st
    <3>1. Known(st.files) /\ \A r \in st.before : Holds(st.files, r)
      BY <1>5, <1>6
    <3>2. Known(st.files)' /\ \A r \in st.before : Holds(st.files, r)'
      BY <1>10, <3>1, SameKeys, HoldsKept
    <3>3. st.no <= builds' /\ Len(st.places) = 2 /\ st.before \subseteq returned'
      BY <1>2, <1>4, <1>5, <1>6 DEF store
    <3> QED BY <2>2, <3>2, <3>3 DEF SetOK
  <2> QED BY <1>2, <2>1, <2>2
<1>15. Numbers'
  <2>0. Numbers
    BY DEF RInv
  <2>1. \A q \in Process : job'[q].pc \in Builds => q # p /\ job'[q] = job[q]
    BY <1>7, <1>8
  <2>2. \A q, u \in Process : q # u /\ job'[q].pc \in Builds /\ job'[u].pc \in Builds
                                => job'[q].no # job'[u].no
    BY <2>0, <2>1 DEF Numbers
  <2>3. \A q \in Process, su \in sets' : job'[q].pc \in Builds => job'[q].no # su.no
    BY <1>0, <1>2, <1>3, <1>6, <2>0, <2>1 DEF Numbers
  <2>4. \A su, sv \in sets' : su.no = sv.no => su = sv
    BY <1>0, <1>2, <1>3, <1>6, <2>0 DEF Numbers
  <2>5. ASSUME NEW d \in Device, members'[d] # None, NEW su \in sets', members'[d].no = su.no
        PROVE  members'[d].files = su.files
    <3>1. CASE su \in sets
      BY <1>2, <2>0, <2>5, <3>1 DEF Numbers
    <3>2. CASE su = st
      BY <1>0, <1>2, <1>3, <1>6, <2>0, <2>5, <3>2 DEF Numbers
    <3> QED BY <1>2, <3>1, <3>2
  <2>6. \A d \in Device, q \in Process :
            members'[d] # None /\ job'[q].pc \in Builds /\ members'[d].no = job'[q].no =>
                ~Scanning(job'[q]) /\ members'[d].files = job'[q].staged[1]
    BY <1>2, <2>0, <2>1 DEF Numbers
  <2> QED BY <2>2, <2>3, <2>4, <2>5, <2>6 DEF Numbers
<1>16. IsFiniteSet(Absent)' /\ (Cardinality(Absent) <= losses)'
  <2>1. losses' \in Nat /\ losses <= losses'
    BY <1>2 DEF RInv, RTypes
  <2>2. ASSUME NEW n \in 1..MaxCalls, NEW d \in Device, Claimed(n, d)', ~At(d, n)'
        PROVE  Claimed(n, d) /\ ~At(d, n)
    <3>1. ~At(d, n)
      BY <1>2, <2>2 DEF At
    <3>2. CASE \E su \in sets' : Has(su, n, d)
      <4>1. PICK su \in sets' : Has(su, n, d)
        BY <3>2
      <4>2. CASE su = st
        <5>1. j.no = n /\ \E i \in 1..j.published : j.places[i] = d
          BY <1>5, <1>6, <4>1, <4>2 DEF Has
        <5>2. Puts(job[p], n, d)
          BY <1>0, <1>3, <5>1 DEF Puts
        <5> QED BY <3>1, <5>2 DEF Claimed
      <4>3. CASE su \in sets
        BY <3>1, <4>1, <4>3 DEF Claimed
      <4> QED BY <1>2, <4>2, <4>3
    <3>3. CASE \E q \in Process : Puts(job'[q], n, d)
      <4>1. PICK q \in Process : Puts(job'[q], n, d)
        BY <3>3
      <4>2. job'[q] = job[q]
        BY <1>7, <1>8, <4>1 DEF Puts
      <4> QED BY <3>1, <4>1, <4>2 DEF Claimed
    <3>4. (\E su \in sets' : Has(su, n, d)) \/ (\E q \in Process : Puts(job'[q], n, d))
      BY <2>2 DEF Claimed, Has, Puts
    <3> QED BY <3>2, <3>3, <3>4
  <2> QED BY <2>1, <2>2, AbsentKept
<1> QED BY <1>9, <1>11, <1>12, <1>13, <1>14, <1>15, <1>16 DEF RInv

(* A build that fails, or ends: its number is nobody's, so that a member it *)
(* removes in the place of its own takes over a loss that was its own.      *)
LEMMA BuildFailsInv ==
    ASSUME SInv, RInv, NEW p \in Process, BuildFails(p)
    PROVE  SInv' /\ RInv'
<1>0. PICK j : j = job[p]
  OBVIOUS
<1>1. /\ job[p].pc \in Builds /\ job' = [job EXCEPT ![p] = Idle]
      /\ members' = [d \in Device |-> IF \E k \in 1..j.published : j.places[k] = d
                                      THEN None ELSE members[d]]
      /\ UNCHANGED <<store, builds, sets, losses>>
  BY <1>0 DEF BuildFails, Cleanup, Become
<1>2. j.no \in 1..MaxCalls
  BY <1>0, <1>1, Builders
<1>3. /\ job'[p] = Idle /\ \A q \in Process : q # p => job'[q] = job[q]
      /\ builds' \in Nat /\ Len(made) + builds' <= MaxCalls
  BY <1>1 DEF SInv, STypes
<1>4. Idle \in Job /\ Idle.pc \notin Writes /\ Idle.pc \notin Builds
  BY IdleTodo DEF Job
<1>5. SInv'
  BY <1>1, <1>3, <1>4, StoreStays
<1>6. Grows
  BY <1>1 DEF Grows, store, SInv, STypes
<1>7. \A d \in Device : /\ members'[d] = members[d] \/ members'[d] = None
                        /\ members'[d] # members[d] => \E k \in 1..j.published : j.places[k] = d
  BY <1>1
<1>8. RTypes'
  BY <1>1 DEF RInv, RTypes
<1>9. \A q \in Process : job'[q].pc \in Builds => BuilderOK(q)'
  BY <1>3, <1>4, <1>6, BuilderKept
<1>10. ASSUME NEW d \in Device, members'[d] # None PROVE MemberOK(d)'
  BY <1>6, <1>7, <1>10, MemberKept
<1>11. \A st \in sets' : SetOK(st)'
  BY <1>1, <1>6, SetKept
<1>12. Numbers'
  <2>1. \A q \in Process : job'[q].pc \in Builds => q # p /\ job'[q] = job[q]
    BY <1>3, <1>4
  <2>2. \A q \in Process : job'[q].pc \in Builds => job'[q].no # builds + 1
    <3> SUFFICES ASSUME NEW q \in Process, job'[q].pc \in Builds PROVE job'[q].no # builds + 1
      OBVIOUS
    <3>1. job[q].no \in Nat /\ job[q].no <= builds /\ builds \in Nat /\ job'[q] = job[q]
      BY <2>1, Builders DEF SInv, STypes
    <3> QED BY <3>1
  <2>3. \A q \in Process : job'[q].pc \in Builds =>
            /\ job[q].pc \in Builds /\ job'[q].no = job[q].no
            /\ ~Scanning(job[q]) => ~Scanning(job'[q]) /\ job'[q].staged = job[q].staged
    BY <2>1
  <2>4. sets' = sets /\ \A d \in Device : members'[d] = members[d] \/ members'[d] = None
    BY <1>1, <1>7
  <2> QED BY <2>2, <2>3, <2>4, NumbersKept
<1>13. IsFiniteSet(Absent)' /\ (Cardinality(Absent) <= losses)'
  <2>1. Absent' = {c \in (1..MaxCalls) \X Device : Claimed(c[1], c[2])' /\ ~At(c[2], c[1])'}
    BY DEF Absent, Claimed, At
  <2>2. ASSUME NEW n, NEW d \in Device, Claimed(n, d)'
        PROVE  Claimed(n, d) /\ n # j.no
    <3>0. Numbers
      BY DEF RInv
    <3>1. CASE \E st \in sets' : Has(st, n, d)
      BY <1>0, <1>1, <3>0, <3>1 DEF Claimed, Has, Numbers
    <3>2. CASE \E q \in Process : Puts(job'[q], n, d)
      <4>1. PICK q \in Process : Puts(job'[q], n, d)
        BY <3>2
      <4>2. q # p /\ job'[q] = job[q] /\ job[q].pc \in Builds /\ job[q].no = n
        BY <1>3, <1>4, <4>1 DEF Puts
      <4> QED BY <1>0, <1>1, <3>0, <4>1, <4>2 DEF Claimed, Numbers
    <3>3. (\E st \in sets' : Has(st, n, d)) \/ (\E q \in Process : Puts(job'[q], n, d))
      BY <2>2 DEF Claimed, Has, Puts
    <3> QED BY <3>1, <3>2, <3>3
  <2>3. ASSUME NEW c \in Absent', c \notin Absent
        PROVE  /\ <<j.no, c[2]>> \in Absent /\ members[c[2]].no = c[1]
    <3>1. /\ c = <<c[1], c[2]>> /\ c[1] \in 1..MaxCalls /\ c[2] \in Device
          /\ Claimed(c[1], c[2])' /\ ~At(c[2], c[1])'
      BY <2>1, <2>3
    <3>2. Claimed(c[1], c[2]) /\ c[1] # j.no
      BY <2>2, <3>1
    <3>3. At(c[2], c[1])
      BY <2>3, <3>1, <3>2 DEF Absent
    <3>4. members'[c[2]] # members[c[2]]
      BY <3>1, <3>3 DEF At
    <3>5. Puts(j, j.no, c[2])
      BY <1>0, <1>1, <1>7, <3>1, <3>4 DEF Puts
    <3>6. Claimed(j.no, c[2]) /\ ~At(c[2], j.no)
      BY <1>0, <3>2, <3>3, <3>5 DEF Claimed, At
    <3> QED BY <1>2, <3>1, <3>3, <3>6 DEF Absent, At
  <2>4. \A c \in Absent' : c = <<c[1], c[2]>> /\ c[2] \in Device /\ c[1] # j.no
    BY <2>1, <2>2
  <2> DEFINE g == [c \in Absent' |-> IF c \in Absent THEN c ELSE <<j.no, c[2]>>]
  <2>5. g \in [Absent' -> Absent]
    BY <2>3
  <2>6. ASSUME NEW b \in Absent', NEW c \in Absent', g[b] = g[c] PROVE b = c
    <3>1. CASE b \in Absent /\ c \in Absent
      BY <2>6, <3>1
    <3>2. CASE b \notin Absent /\ c \notin Absent
      <4>1. b[2] = c[2]
        BY <2>6, <3>2
      <4>2. members[b[2]].no = b[1] /\ members[c[2]].no = c[1]
        BY <2>3, <3>2
      <4>3. b = <<b[1], b[2]>> /\ c = <<c[1], c[2]>>
        BY <2>4
      <4> QED BY <4>1, <4>2, <4>3, Zenon
    <3>3. CASE b \in Absent /\ c \notin Absent
      <4>1. b = <<j.no, c[2]>>
        BY <2>6, <3>3
      <4> QED BY <2>4, <4>1
    <3>4. CASE b \notin Absent /\ c \in Absent
      <4>1. c = <<j.no, b[2]>>
        BY <2>6, <3>4
      <4> QED BY <2>4, <4>1
    <3> QED BY <3>1, <3>2, <3>3, <3>4
  <2> HIDE DEF g
  <2>7. g \in Injection(Absent', Absent)
    BY <2>5, <2>6 DEF Injection, IsInjective
  <2>8. IsFiniteSet(Absent) /\ Cardinality(Absent) <= losses /\ losses \in Nat /\ losses' = losses
    BY <1>1 DEF RInv, RTypes
  <2>9. IsFiniteSet(Absent') /\ Cardinality(Absent') <= Cardinality(Absent)
    BY <2>7, <2>8, FS_Injection
  <2>10. Cardinality(Absent) \in Nat /\ Cardinality(Absent') \in Nat
    BY <2>8, <2>9, FS_CardinalityType
  <2>11. Cardinality(Absent') <= losses'
    BY <2>8, <2>9, <2>10
  <2> QED BY <2>9, <2>11
<1> QED BY <1>5, <1>8, <1>9, <1>10, <1>11, <1>12, <1>13 DEF RInv

LEMMA LoseMemberInv ==
    ASSUME SInv, RInv, NEW d \in Device, LoseMember(d)
    PROVE  SInv' /\ RInv'
<1>1. /\ losses < MaxLosses /\ members[d] # None /\ members' = [members EXCEPT ![d] = None]
      /\ losses' = losses + 1 /\ UNCHANGED <<store, job, builds, sets>>
  BY DEF LoseMember
<1>2. SInv'
  BY <1>1, StoreSame
<1>3. Grows
  BY <1>1 DEF Grows, store, SInv, STypes
<1>4. \A e \in Device : members'[e] = IF e = d THEN None ELSE members[e]
  BY <1>1 DEF RInv, RTypes
<1>5. losses \in Nat /\ losses' \in 0..MaxLosses
  BY <1>1, BoundsAssumption DEF RInv, RTypes
<1>6. RTypes'
  BY <1>1, <1>5 DEF RInv, RTypes
<1>7. \A q \in Process : job'[q].pc \in Builds => BuilderOK(q)'
  BY <1>1, <1>3, BuilderKept
<1>8. \A e \in Device : members'[e] # None => MemberOK(e)'
  BY <1>3, <1>4, MemberKept
<1>9. \A st \in sets' : SetOK(st)'
  BY <1>1, <1>3, SetKept
<1>10. Numbers'
  BY <1>1, <1>4 DEF RInv, Numbers
<1>11. IsFiniteSet(Absent)' /\ (Cardinality(Absent) <= losses)'
  <2>1. PICK c : c = <<members[d].no, d>>
    OBVIOUS
  <2>2. Absent' = {b \in (1..MaxCalls) \X Device : Claimed(b[1], b[2])' /\ ~At(b[2], b[1])'}
    BY DEF Absent, Claimed, At
  <2>3. \A n, e : Claimed(n, e)' => Claimed(n, e)
    BY <1>1 DEF Claimed, Has, Puts
  <2>4. Absent' \subseteq Absent \cup {c}
    <3> SUFFICES ASSUME NEW b \in Absent', b \notin Absent PROVE b = c
      OBVIOUS
    <3>1. b \in (1..MaxCalls) \X Device /\ Claimed(b[1], b[2]) /\ ~At(b[2], b[1])'
      BY <2>2, <2>3
    <3>2. At(b[2], b[1])
      BY <3>1 DEF Absent
    <3>3. b = <<b[1], b[2]>> /\ b[2] \in Device
      BY <3>1
    <3>4. members[b[2]].no = b[1] /\ b[2] = d
      BY <1>4, <3>1, <3>2, <3>3 DEF At
    <3> QED BY <2>1, <3>3, <3>4
  <2>5. IsFiniteSet(Absent) /\ Cardinality(Absent) \in Nat /\ Cardinality(Absent) <= losses
    BY FS_CardinalityType DEF RInv
  <2>6. IsFiniteSet(Absent \cup {c}) /\ Cardinality(Absent \cup {c}) <= Cardinality(Absent) + 1
        /\ Cardinality(Absent \cup {c}) \in Nat
    BY <2>5, FS_AddElement, FS_CardinalityType
  <2>7. /\ IsFiniteSet(Absent') /\ Cardinality(Absent') <= Cardinality(Absent \cup {c})
        /\ Cardinality(Absent') \in Nat
    BY <2>4, <2>6, FS_Subset, FS_CardinalityType
  <2>8. Cardinality(Absent') <= losses'
    BY <1>1, <1>5, <2>5, <2>6, <2>7
  <2> QED BY <2>7, <2>8
<1> QED BY <1>2, <1>6, <1>7, <1>8, <1>9, <1>10, <1>11 DEF RInv

-----------------------------------------------------------------------------
(* The two invariants together.                                            *)

LEMMA InitRInv == Init => RInv
<1> SUFFICES ASSUME Init PROVE RInv
  OBVIOUS
<1>1. \A p \in Process : job[p] = Idle /\ job[p].pc \notin Builds
  BY IdleTodo DEF Init
<1>2. members = [d \in Device |-> None] /\ sets = {} /\ losses = 0
  BY DEF Init
<1>3. RTypes
  BY <1>2, BoundsAssumption DEF RTypes
<1>4. \A d \in Device : members[d] = None
  BY <1>2
<1>5. Numbers
  BY <1>1, <1>2, <1>4 DEF Numbers
<1>6. Absent = {}
  BY <1>1, <1>2 DEF Absent, Claimed, Has, Puts
<1>7. IsFiniteSet(Absent) /\ Cardinality(Absent) <= losses
  BY <1>2, <1>6, FS_EmptySet
<1> QED BY <1>1, <1>2, <1>3, <1>4, <1>5, <1>7 DEF RInv

LEMMA Stutter ==
    ASSUME SInv, RInv, UNCHANGED vars
    PROVE  SInv' /\ RInv'
<1>1. UNCHANGED <<store, job, builds, members, sets, losses>>
  BY DEF vars, store
<1>2. SInv'
  BY <1>1, StoreSame
<1>3. Grows
  BY <1>1 DEF Grows, store, SInv, STypes
<1>4. RTypes'
  BY <1>1 DEF RInv, RTypes
<1>5. \A q \in Process : job'[q].pc \in Builds => BuilderOK(q)'
  BY <1>1, <1>3, BuilderKept
<1>6. \A d \in Device : members'[d] # None => MemberOK(d)'
  BY <1>1, <1>3, MemberKept
<1>7. \A st \in sets' : SetOK(st)'
  BY <1>1, <1>3, SetKept
<1>8. Numbers'
  BY <1>1 DEF RInv, Numbers
<1>9. IsFiniteSet(Absent)' /\ (Cardinality(Absent) <= losses)'
  <2>1. losses' \in Nat /\ losses <= losses'
    BY <1>1 DEF RInv, RTypes
  <2>2. \A n \in 1..MaxCalls, d \in Device :
               Claimed(n, d)' /\ ~At(d, n)' => Claimed(n, d) /\ ~At(d, n)
    BY <1>1 DEF Claimed, At, Has, Puts
  <2> QED BY <2>1, <2>2, AbsentKept
<1> QED BY <1>2, <1>4, <1>5, <1>6, <1>7, <1>8, <1>9 DEF RInv

LEMMA NextInv ==
    ASSUME SInv, RInv, [Next]_vars
    PROVE  SInv' /\ RInv'
<1>1. ASSUME NEW p \in Process, Call(p) PROVE SInv' /\ RInv'
  <2>1. CASE Writing(p)
    BY <2>1, WritingSInv, WritingRInv
  <2>2. CASE \E t \in Targets : BeginBuild(p, t)
    BY <2>2, BeginBuildInv
  <2>3. CASE \E st \in sets, k \in 1..2, t \in Targets : RotateSet(p, st, k, t)
    BY <2>3, RotateSetInv
  <2> QED BY <1>1, <2>1, <2>2, <2>3 DEF Call, Writing
<1>2. ASSUME NEW p \in Process, WriteStep(p) PROVE SInv' /\ RInv'
  BY <1>2, WritingSInv, WritingRInv DEF Writing
<1>3. ASSUME NEW p \in Process, BuildStep(p) PROVE SInv' /\ RInv'
  BY <1>3, VerifyStoreInv, TakeSnapshotInv, StageCopyInv, PublishInv, ConfirmInv, BuildFailsInv
     DEF BuildStep
<1>4. ASSUME NEW p \in Process, Crash(p) PROVE SInv' /\ RInv'
  BY <1>4, CrashInv
<1>5. ASSUME NEW d \in Device, LoseMember(d) PROVE SInv' /\ RInv'
  BY <1>5, LoseMemberInv
<1>6. CASE UNCHANGED vars
  BY <1>6, Stutter
<1> QED BY <1>1, <1>2, <1>3, <1>4, <1>5, <1>6 DEF Next

LEMMA Invariant == Spec => [](SInv /\ RInv)
<1>1. Init => SInv /\ RInv
  BY InitSInv, InitRInv
<1>2. SInv /\ RInv /\ [Next]_vars => (SInv /\ RInv)'
  BY NextInv
<1> QED BY <1>1, <1>2, PTL DEF Spec

-----------------------------------------------------------------------------
(* What the invariants imply.                                              *)

(* Types, and that no two files of the directory have one path: exclusive   *)
(* creation of the indexes holds however imports race.                      *)
THEOREM TypeCorrect == Spec => []TypeOK
<1>1. ASSUME SInv, RInv PROVE TypeOK
  <2>1. ASSUME NEW p \in Process PROVE JobTypeOK(job[p])
    <3>1. PICK j : j = job[p]
      OBVIOUS
    <3>2. j \in Job
      BY <1>1, <3>1 DEF SInv, STypes
    <3>3. CASE j.pc \in Writes
      <4>1. j \in WriteJob /\ j.pc # "idle"
        BY <3>2, <3>3, JobKinds DEF Writes
      <4>2. DOMAIN j = {"pc", "todo", "result"} /\ j.todo \in Seq(File) /\ j.result \in Result
        BY <4>1 DEF WriteJob
      <4>3. j.pc \notin Builds
        BY <3>3 DEF Writes, Builds
      <4> QED BY <3>1, <3>3, <4>1, <4>2, <4>3 DEF JobTypeOK
    <3>4. CASE j.pc \in Builds
      <4>1. /\ j \in BuildJob /\ BuilderOK(p) /\ Len(j.places) \in {1, 2}
            /\ j.staged \in Seq(SUBSET File) /\ j.published \in 0..2
        BY <1>1, <3>1, <3>4, Builders
      <4>2. /\ j.places \in Targets /\ j.no \in 1..MaxCalls /\ j.before \subseteq returned
            /\ j.base \subseteq File /\ j.seen \subseteq j.base /\ j.lo \subseteq File
            /\ j.hi \subseteq File /\ j.keys \subseteq Key
        BY <3>1, <4>1 DEF BuildJob, BuilderOK
      <4>3. Len(j.staged) <= Len(j.places)
        BY <3>1, <4>1 DEF BuilderOK
      <4>4. j.published \in 0..Len(j.places)
        <5>1. CASE Scanning(j)
          BY <3>1, <4>1, <5>1 DEF BuilderOK
        <5>2. CASE j.pc = "publish"
          BY <3>1, <4>1, <5>2 DEF BuilderOK
        <5>3. CASE j.pc = "confirm"
          BY <3>1, <4>1, <5>3 DEF BuilderOK
        <5> QED BY <3>4, <5>1, <5>2, <5>3 DEF Scanning, Builds
      <4>5. j.pc \notin Writes /\ j.pc # "idle"
        BY <3>4 DEF Writes, Builds
      <4> QED BY <3>1, <3>4, <4>2, <4>3, <4>4, <4>5 DEF JobTypeOK
    <3>5. CASE j.pc \notin Writes /\ j.pc \notin Builds
      <4>1. j = Idle /\ j.pc = "idle"
        BY <3>2, <3>5, JobKinds DEF Idle
      <4> QED BY <3>1, <3>5, <4>1 DEF JobTypeOK
    <3> QED BY <3>3, <3>4, <3>5
  <2>2. \A d \in Device : members[d] = None \/ members[d] \in Capsule
    BY <1>1 DEF RInv, RTypes
  <2> QED BY <1>1, <2>1, <2>2 DEF TypeOK, SInv, STypes, RInv, RTypes
<1> QED BY <1>1, Invariant, PTL

(* Whatever import_evidence, reencrypt_evidence or a derivation returned    *)
(* stays complete in the directory, and callers of one source agree on its  *)
(* content: for any processes, sources and schedules.                       *)
THEOREM StoredForGood == Spec => []ReturnedIsStored
<1>1. ASSUME SInv, RInv PROVE ReturnedIsStored
  <2>1. ASSUME NEW r \in returned PROVE Kept(r) /\ Holds(whole, r)
    <3>1. Kept(r)
      BY <1>1 DEF SInv
    <3>2. Readable(whole, r.ref)
      BY <3>1, SettledReadable DEF Kept
    <3> QED BY <3>1, <3>2 DEF Kept, Holds
  <2>2. ASSUME ~syncFailed, NEW q \in returned, NEW r \in returned, q.source = r.source
        PROVE  q.id = r.id
    <3>1. Indexed(q.source, q.id) /\ Indexed(r.source, r.id)
      BY <2>1, <2>2 DEF Kept
    <3>2. PICK f \in whole : f[1] = "index" /\ f[2] = q.source /\ made[f[3]].id = q.id
      BY <3>1 DEF Indexed
    <3>3. PICK g \in whole : g[1] = "index" /\ g[2] = r.source /\ made[g[3]].id = r.id
      BY <3>1 DEF Indexed
    <3>4. f \in files /\ g \in files /\ PathsUnique(files)
      BY <1>1 DEF SInv, STypes
    <3>5. Path(f) = Path(g)
      BY <2>2, <3>2, <3>3 DEF Path
    <3>6. f = g
      BY <3>4, <3>5 DEF PathsUnique
    <3> QED BY <3>2, <3>3, <3>6
  <2> QED BY <2>1, <2>2 DEF ReturnedIsStored
<1> QED BY <1>1, Invariant, PTL

(* A published recovery capsule is a store that _verify_store accepts, with *)
(* the keys of its envelope and all that had been returned before its build *)
(* began, whatever was written while it was scanned.                        *)
THEOREM CapsulesAreComplete == Spec => []CapsulesRestore
<1>1. ASSUME SInv, RInv PROVE CapsulesRestore
  BY <1>1 DEF RInv, MemberOK, CapsuleVerified, CapsulesRestore
<1> QED BY <1>1, Invariant, PTL

(* The members that issued recovery sets miss are no more than the devices  *)
(* that were lost: no build removes a member of an issued set unless the    *)
(* loss of another made room for it.                                        *)
THEOREM SetsStayRedundant == Spec => []SetsRedundant
<1>1. ASSUME SInv, RInv PROVE SetsRedundant
  <2>1. ASSUME NEW m \in MissingMembers
        PROVE  /\ m[1] \in sets /\ m[2] \in 1..2 /\ m = <<m[1], m[2]>>
               /\ <<m[1].no, m[1].places[m[2]]>> \in Absent
    <3>1. /\ m[1] \in sets /\ m[2] \in 1..2 /\ m = <<m[1], m[2]>>
          /\ ~IsMember(m[1].places[m[2]], m[1].no, m[1].files)
      BY DEF MissingMembers
    <3>2. PICK st, k, d : st = m[1] /\ k = m[2] /\ d = st.places[k]
      OBVIOUS
    <3>3. st \in RecoverySet /\ SetOK(st) /\ k \in 1..2
      BY <1>1, <3>1, <3>2 DEF RInv, RTypes
    <3>4. st.no \in 1..MaxCalls /\ d \in Device
      <4>1. st.places \in Seq(Device) /\ Len(st.places) = 2
        BY <3>3, TargetsAssumption DEF SetOK, RecoverySet
      <4>2. d \in Device
        BY <3>2, <3>3, <4>1
      <4> QED BY <3>3, <4>2 DEF RecoverySet
    <3>5. Claimed(st.no, d)
      BY <3>1, <3>2, <3>3 DEF Claimed, Has
    <3>6. ~At(d, st.no)
      BY <1>1, <3>1, <3>2, <3>4 DEF At, IsMember, RInv, Numbers
    <3>7. <<st.no, d>> \in Absent
      BY <3>4, <3>5, <3>6 DEF Absent
    <3> QED BY <3>1, <3>2, <3>7
  <2> DEFINE g == [m \in MissingMembers |-> <<m[1].no, m[1].places[m[2]]>>]
  <2>2. g \in [MissingMembers -> Absent]
    BY <2>1
  <2>3. ASSUME NEW l \in MissingMembers, NEW m \in MissingMembers, g[l] = g[m] PROVE l = m
    <3>1. l[1].no = m[1].no /\ l[1].places[l[2]] = m[1].places[m[2]]
      BY <2>3
    <3>2. l[1] = m[1]
      BY <1>1, <2>1, <3>1 DEF RInv, Numbers
    <3>3. m[1].places[1] # m[1].places[2]
      <4>1. m[1] \in RecoverySet /\ SetOK(m[1])
        BY <1>1, <2>1 DEF RInv, RTypes
      <4> QED BY <4>1, TargetsAssumption DEF SetOK, RecoverySet
    <3>4. l[2] = m[2]
      <4>0. \A n \in 1..2 : n \in {1, 2}
        OBVIOUS
      <4>1. l[2] \in {1, 2} /\ m[2] \in {1, 2}
        BY <2>1, <4>0, Zenon
      <4> QED BY <3>1, <3>2, <3>3, <4>1
    <3> QED BY <2>1, <3>2, <3>4, Zenon
  <2> HIDE DEF g
  <2>4. g \in Injection(MissingMembers, Absent)
    BY <2>2, <2>3 DEF Injection, IsInjective
  <2>5. IsFiniteSet(Absent) /\ Cardinality(Absent) <= losses /\ losses \in Nat
    BY <1>1 DEF RInv, RTypes
  <2>6. /\ Cardinality(MissingMembers) <= Cardinality(Absent)
        /\ Cardinality(MissingMembers) \in Nat /\ Cardinality(Absent) \in Nat
    BY <2>4, <2>5, FS_Injection, FS_CardinalityType
  <2> QED BY <2>5, <2>6 DEF SetsRedundant
<1> QED BY <1>1, Invariant, PTL
=============================================================================
