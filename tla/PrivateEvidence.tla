---------------------------- MODULE PrivateEvidence ----------------------------
(***************************************************************************)
(* The private evidence of one case: a directory of immutable files that    *)
(* several processes (ingestion, pilot and recovery scripts) extend and     *)
(* copy without a lock                                                      *)
(* (core/private_evidence_v1.py, core/private_evidence_rotation_v1.py,      *)
(* core/private_evidence_derivation_v1.py), and the recovery capsules made  *)
(* of it in redundant sets (core/private_evidence_recovery_v1.py,           *)
(* core/private_evidence_recovery_set_v1.py,                                *)
(* core/private_evidence_recovery_ops_v1.py).                               *)
(*                                                                         *)
(* An import, a key rotation or a derivation writes its files one after the *)
(* other; each is created exclusively, written and synced, three steps      *)
(* between which other processes run and this one may fail or die.  A       *)
(* capsule is made from three scans of the directory, each of which may     *)
(* miss or include the files that appear while it runs.                     *)
(*                                                                         *)
(* A file is named by its kind and by the attempt that makes it: nonces and *)
(* timestamps make the digests of two attempts different.  Encryption is    *)
(* represented by which key a file needs.                                   *)
(***************************************************************************)
EXTENDS Naturals, Sequences, FiniteSets

CONSTANTS
    Process,     \* processes that have the store open
    Source,      \* logical sources (source_ref) that callers import
    Content,     \* evidence ids of the bytes they present
    Output,      \* evidence ids of what derivations produce
    Device,      \* the places of recovery members: one per device
    Targets,     \* destinations callers choose: sequences of one or two devices
    MaxCalls,    \* bound: calls that write evidence or build capsules
    MaxLosses,   \* bound: members lost with their device
    None         \* a device without a member

ASSUME TargetsAssumption ==
    \A t \in Targets : /\ t \in Seq(Device) /\ Len(t) \in {1, 2}
                       /\ Len(t) = 2 => t[1] # t[2]
ASSUME BoundsAssumption == MaxCalls \in Nat /\ MaxLosses \in Nat

VARIABLES
    files,      \* the files in the store's directory
    whole,      \* those of them that are completely written
    made,       \* made[n]: source, content and key of attempt n
    returned,   \* the ImportedEvidence and DerivedEvidence callers have got
    syncFailed, \* history: some fsync of a completely written file has failed
    job,        \* job[p]: what process p is in the middle of
    builds,     \* number of capsules and sets begun
    members,    \* members[d]: the capsule directory on device d, or None
    sets,       \* the recovery sets issued to callers
    losses      \* number of members lost

store == <<files, whole, made, returned, syncFailed>>
recovery == <<builds, members, sets, losses>>
vars == <<files, whole, made, returned, syncFailed, job, builds, members, sets, losses>>

Key == 1..2
ActiveKey == 1
Attempt == 1..MaxCalls

(* A derivation is imported under a source of its own, named by its input. *)
AnySource == Source \cup Content
Made == [source : AnySource, id : Content \cup Output, key : Key]

File == ({"object", "manifest", "receipt"} \X Attempt)
        \cup ({"index"} \X AnySource \X Attempt)
        \cup ({"derivation"} \X Attempt \X Attempt)

(* An index is found by its source, every other file by its own digest. *)
Path(f) == IF f[1] = "index" THEN <<f[1], f[2]>> ELSE f
PathsUnique(D) == \A f, g \in D : Path(f) = Path(g) => f = g

(* What a caller gets: ref is the attempt whose manifest and receipt it     *)
(* names, of the attempt it was derived from, or 0.                         *)
Result == [source : AnySource, id : Content \cup Output, ref : Attempt, of : Attempt \cup {0}]

Idle == [pc |-> "idle"]
Writes == {"open", "fill", "sync"}
Builds == {"verify", "snapshot", "copy", "publish", "confirm"}

Capsule == [no : 1..MaxCalls, files : SUBSET File, keys : SUBSET Key, before : SUBSET Result]
RecoverySet == [no : 1..MaxCalls, places : Targets, files : SUBSET File, before : SUBSET Result]

ASSUME NoneAssumption == None \notin Capsule

(* A writer has files to write and a result to return.  A builder knows     *)
(* what had been returned when it began (before), the directory and its     *)
(* complete files when its scan began (base, seen), the files its snapshot  *)
(* surely and possibly lists (lo, hi), the keys it has resolved, the        *)
(* capsules it has staged and how many of them it has published.            *)
JobTypeOK(j) ==
    CASE j.pc = "idle" -> j = Idle
      [] j.pc \in Writes ->
            DOMAIN j = {"pc", "todo", "result"} /\ j.todo \in Seq(File) /\ j.result \in Result
      [] j.pc \in Builds ->
            /\ j.places \in Targets /\ j.no \in 1..MaxCalls /\ j.before \subseteq returned
            /\ j.base \subseteq File /\ j.seen \subseteq j.base /\ j.lo \subseteq File
            /\ j.hi \subseteq File /\ j.keys \subseteq Key
            /\ Len(j.staged) <= Len(j.places) /\ j.published \in 0..Len(j.places)

(* Types, and that a path of the directory has one file. *)
TypeOK ==
    /\ files \subseteq File /\ whole \subseteq files /\ PathsUnique(files)
    /\ made \in Seq(Made) /\ Len(made) + builds <= MaxCalls
    /\ returned \subseteq Result /\ syncFailed \in BOOLEAN
    /\ \A p \in Process : JobTypeOK(job[p])
    /\ builds \in Nat /\ losses \in 0..MaxLosses
    /\ \A d \in Device : members[d] = None \/ members[d] \in Capsule
    /\ \A st \in sets : st \in RecoverySet

Init ==
    /\ files = {} /\ whole = {} /\ made = <<>> /\ returned = {} /\ syncFailed = FALSE
    /\ job = [p \in Process |-> Idle]
    /\ builds = 0 /\ members = [d \in Device |-> None] /\ sets = {} /\ losses = 0

Become(p, j) == job' = [job EXCEPT ![p] = j]

-----------------------------------------------------------------------------
(* What a directory D holds.                                               *)

Readable(D, n) == {<<"object", n>>, <<"manifest", n>>, <<"receipt", n>>} \subseteq D

Having(D, kind) == {n \in Attempt : <<kind, n>> \in D}
KeysOf(D) == {made[n].key : n \in Having(D, "manifest")}

(* Every manifest has its object and receipt, and there are no others. *)
EvidenceBound(D) ==
    /\ Having(D, "manifest") # {}
    /\ Having(D, "receipt") = Having(D, "manifest")
    /\ Having(D, "object") = Having(D, "manifest")

IndexesBound(D) == \A f \in D : f[1] = "index" => Readable(D, f[3])

DerivationsBound(D) == \A f \in D : f[1] = "derivation" => Readable(D, f[2]) /\ Readable(D, f[3])

(* _verify_store accepts the directory; the store's own key is in use. *)
Verified(D) ==
    EvidenceBound(D) /\ IndexesBound(D) /\ DerivationsBound(D) /\ ActiveKey \in KeysOf(D)

(* _verify_capsule_root accepts a capsule of D whose envelope has these keys. *)
CapsuleVerified(D, keys) == Verified(D) /\ KeysOf(D) = keys

-----------------------------------------------------------------------------
(* Import, rotation and derivation.                                        *)

(* The files of attempt n in the order they are written. *)
EvidenceFiles(n) == <<<<"object", n>>, <<"manifest", n>>, <<"receipt", n>>>>

(* Mutant of ImportFiles: the encrypted bytes are written last. *)
ObjectLast(s, n) == <<<<"manifest", n>>, <<"receipt", n>>, <<"index", s, n>>, <<"object", n>>>>

ImportFiles(s, n) == Append(EvidenceFiles(n), <<"index", s, n>>)

IndexAt(s) == {f \in files : Path(f) = <<"index", s>>}

(* Attempt n begins to write: nonce and keys are drawn, no file exists yet. *)
Write(p, s, id, key, of, todo) ==
    /\ Len(made) + builds < MaxCalls
    /\ made' = Append(made, [source |-> s, id |-> id, key |-> key])
    /\ Become(p, [pc |-> "open", todo |-> todo,
                  result |-> [source |-> s, id |-> id, ref |-> Len(made) + 1, of |-> of]])
    /\ UNCHANGED <<files, whole, returned, syncFailed, recovery>>

ImportNew(p, s, id) ==
    /\ job[p] = Idle
    /\ IndexAt(s) = {}
    /\ Write(p, s, id, ActiveKey, 0, ImportFiles(s, Len(made) + 1))

(* The source is indexed with the same bytes: the recorded reference is     *)
(* returned.  Other bytes and an index that cannot be read yet, or ever,    *)
(* make the call raise.                                                     *)
ImportKnown(p, s, id) ==
    /\ job[p] = Idle
    /\ \E f \in IndexAt(s) \cap whole :
          /\ made[f[3]].id = id
          /\ {<<"manifest", f[3]>>, <<"receipt", f[3]>>} \subseteq whole
          /\ returned' = returned \cup {[source |-> s, id |-> id, ref |-> f[3], of |-> 0]}
    /\ UNCHANGED <<files, whole, made, syncFailed, job, recovery>>

(* reencrypt_evidence: new files under the other key, no index. *)
Rotate(p, r) ==
    /\ job[p] = Idle
    /\ Readable(whole, r.ref)
    /\ Write(p, r.source, r.id, 3 - made[r.ref].key, 0, EvidenceFiles(Len(made) + 1))

(* _persist_derivation imports the output under the derivation's source     *)
(* and then writes the derivation receipt.                                  *)
DeriveNew(p, r, out) ==
    /\ job[p] = Idle
    /\ r.id \in Content
    /\ Readable(whole, r.ref)
    /\ IndexAt(r.id) = {}
    /\ LET n == Len(made) + 1
       IN Write(p, r.id, out, ActiveKey, r.ref,
                Append(ImportFiles(r.id, n), <<"derivation", r.ref, n>>))

DeriveKnown(p, r, out) ==
    /\ job[p] = Idle
    /\ r.id \in Content
    /\ Readable(whole, r.ref)
    /\ \E f \in IndexAt(r.id) \cap whole :
          /\ made[f[3]].id = out
          /\ Become(p, [pc |-> "open", todo |-> <<<<"derivation", r.ref, f[3]>>>>,
                        result |-> [source |-> r.id, id |-> out, ref |-> f[3], of |-> r.ref]])
    /\ UNCHANGED <<store, recovery>>

(* The file is there: the call goes on to the next or returns. *)
FileDone(p) ==
    IF Tail(job[p].todo) # <<>>
    THEN Become(p, [job[p] EXCEPT !.pc = "open", !.todo = Tail(@)]) /\ UNCHANGED returned
    ELSE Become(p, Idle) /\ returned' = returned \cup {job[p].result}

(* Mutant of OpenFile: the file is opened without O_EXCL. *)
OpenAlways(p) ==
    /\ job[p].pc = "open"
    /\ files' = files \cup {Head(job[p].todo)}
    /\ Become(p, [job[p] EXCEPT !.pc = "fill"])
    /\ UNCHANGED <<whole, made, returned, syncFailed, recovery>>

(* _exclusive_json creates the file.  If the path is taken, the file there  *)
(* has to be this very one, completely written.                             *)
OpenFile(p) ==
    /\ job[p].pc = "open"
    /\ LET f == Head(job[p].todo)
       IN \/ /\ \A g \in files : Path(g) # Path(f)
             /\ files' = files \cup {f}
             /\ Become(p, [job[p] EXCEPT !.pc = "fill"])
             /\ UNCHANGED returned
          \/ /\ f \in whole
             /\ FileDone(p)
             /\ UNCHANGED files
          \/ /\ f \notin whole
             /\ \E g \in files : Path(g) = Path(f)
             /\ Become(p, Idle)
             /\ UNCHANGED <<files, returned>>
    /\ UNCHANGED <<whole, made, syncFailed, recovery>>

FillFile(p) ==
    /\ job[p].pc = "fill"
    /\ whole' = whole \cup {Head(job[p].todo)}
    /\ Become(p, [job[p] EXCEPT !.pc = "sync"])
    /\ UNCHANGED <<files, made, returned, syncFailed, recovery>>

SyncFile(p) ==
    /\ job[p].pc = "sync"
    /\ FileDone(p)
    /\ UNCHANGED <<files, whole, made, syncFailed, recovery>>

(* write or fsync raises: the file is removed again. *)
WriteFails(p) ==
    /\ job[p].pc \in {"fill", "sync"}
    /\ files' = files \ {Head(job[p].todo)}
    /\ whole' = whole \ {Head(job[p].todo)}
    /\ syncFailed' = (syncFailed \/ job[p].pc = "sync")
    /\ Become(p, Idle)
    /\ UNCHANGED <<made, returned, recovery>>

-----------------------------------------------------------------------------
(* Recovery capsules and sets.                                             *)

Free(t) == \A k \in 1..Len(t) : members[t[k]] = None

(* A scan surely lists the files that are there all the while, and possibly *)
(* those that appear or go while it runs.  A file read incomplete ends the   *)
(* build, whichever scan meets it.  The copy has to list what the snapshot   *)
(* lists.                                                                   *)
Lower(j) == (j.base \cap files) \cup j.lo
Upper(j) == (whole \cup j.seen) \cap (IF j.pc = "copy" THEN j.hi ELSE File)
Listings(j) == IF Lower(j) \subseteq Upper(j)
               THEN {D \in {Lower(j) \cup X : X \in SUBSET (Upper(j) \ Lower(j))} : PathsUnique(D)}
               ELSE {}

NextScan(j, pc) == [j EXCEPT !.pc = pc, !.base = files, !.seen = whole, !.lo = {}, !.hi = {}]

(* create_recovery_capsule, or create_redundant_recovery_set for two targets. *)
BeginBuild(p, t) ==
    /\ job[p] = Idle
    /\ Len(made) + builds < MaxCalls
    /\ Free(t)
    /\ builds' = builds + 1
    /\ Become(p, [pc |-> "verify", no |-> builds', places |-> t, before |-> returned,
                  base |-> files, seen |-> whole, lo |-> {}, hi |-> {}, keys |-> {},
                  staged |-> <<>>, published |-> 0])
    /\ UNCHANGED <<store, members, sets, losses>>

(* _verify_store and _resolve_keys. *)
VerifyStore(p) ==
    /\ job[p].pc = "verify"
    /\ \E D \in Listings(job[p]) :
          /\ Verified(D)
          /\ Become(p, [NextScan(job[p], "snapshot") EXCEPT !.keys = KeysOf(D)])
    /\ UNCHANGED <<store, recovery>>

TakeSnapshot(p) ==
    /\ job[p].pc = "snapshot"
    /\ Lower(job[p]) \subseteq Upper(job[p])
    /\ Become(p, [NextScan(job[p], "copy") EXCEPT !.lo = Lower(job[p]), !.hi = Upper(job[p])])
    /\ UNCHANGED <<store, recovery>>

(* The next capsule of the set is built, or all staged ones are published.  *)
Staged(p, D) ==
    Become(p, [NextScan(job[p], IF Len(job[p].staged) + 1 < Len(job[p].places)
                                THEN "verify" ELSE "publish") EXCEPT !.staged = Append(@, D)])

(* Mutant of StageCopy: the staged capsule is not verified. *)
StageUnverified(p) ==
    /\ job[p].pc = "copy"
    /\ \E D \in Listings(job[p]) : Staged(p, D)
    /\ UNCHANGED <<store, recovery>>

(* The copy is the snapshot and is verified as a store of its own; the       *)
(* members of a set have to share one snapshot.                             *)
StageCopy(p) ==
    /\ job[p].pc = "copy"
    /\ \E D \in Listings(job[p]) :
          /\ CapsuleVerified(D, job[p].keys)
          /\ \A k \in 1..Len(job[p].staged) : job[p].staged[k] = D
          /\ Staged(p, D)
    /\ UNCHANGED <<store, recovery>>

(* os.replace puts a stage at its target, which must still be free. *)
Publish(p) ==
    /\ job[p].pc = "publish"
    /\ LET j == job[p]
           k == j.published + 1
       IN /\ members[j.places[k]] = None
          /\ members' = [members EXCEPT ![j.places[k]] =
                [no |-> j.no, files |-> j.staged[k], keys |-> j.keys, before |-> j.before]]
          /\ Become(p, CASE k < Len(j.places)             -> [j EXCEPT !.published = k]
                         [] k = Len(j.places) /\ k = 2    -> [j EXCEPT !.published = k,
                                                                       !.pc = "confirm"]
                         [] OTHER                         -> Idle)
    /\ UNCHANGED <<store, builds, sets, losses>>

IsMember(d, no, D) == members[d] # None /\ members[d].no = no /\ members[d].files = D

(* verify_redundant_recovery_set at the targets; the set is returned. *)
Confirm(p) ==
    /\ job[p].pc = "confirm"
    /\ LET j == job[p]
       IN /\ \A k \in 1..2 : IsMember(j.places[k], j.no, j.staged[k])
          /\ sets' = sets \cup {[no |-> j.no, places |-> j.places, files |-> j.staged[1],
                                 before |-> j.before]}
    /\ Become(p, Idle)
    /\ UNCHANGED <<store, builds, members, losses>>

(* Mutant of Cleanup: the targets are removed, published by it or not. *)
CleanupTargets(j) ==
    members' = [d \in Device |-> IF \E k \in 1..Len(j.places) : j.places[k] = d
                                 THEN None ELSE members[d]]

(* Stages and what this build has published are removed, by their paths. *)
Cleanup(j) ==
    members' = [d \in Device |-> IF \E k \in 1..j.published : j.places[k] = d
                                 THEN None ELSE members[d]]

(* A check of a build fails, a target is taken, a disk is full. *)
BuildFails(p) ==
    /\ job[p].pc \in Builds
    /\ Cleanup(job[p])
    /\ Become(p, Idle)
    /\ UNCHANGED <<store, builds, sets, losses>>

(* restore_recovery_set_member accepts the set's member k. *)
Restorable(st, k) ==
    /\ IsMember(st.places[k], st.no, st.files)
    /\ CapsuleVerified(st.files, members[st.places[k]].keys)

(* rotate_recovery_set_secrets: a surviving member is verified and restored *)
(* to a private stage, and a new set is made of the stage, where nobody     *)
(* else writes.                                                             *)
RotateSet(p, st, k, t) ==
    /\ job[p] = Idle
    /\ Len(made) + builds < MaxCalls
    /\ Len(t) = 2
    /\ Restorable(st, k)
    /\ Free(t)
    /\ builds' = builds + 1
    /\ Become(p, [pc |-> "publish", no |-> builds', places |-> t, before |-> st.before,
                  base |-> {}, seen |-> {}, lo |-> {}, hi |-> {},
                  keys |-> members[st.places[k]].keys,
                  staged |-> <<st.files, st.files>>, published |-> 0])
    /\ UNCHANGED <<store, members, sets, losses>>

-----------------------------------------------------------------------------
(* Failures.                                                               *)

(* The process dies: its files and published members stay as they are. *)
Crash(p) ==
    /\ job[p] # Idle
    /\ Become(p, Idle)
    /\ UNCHANGED <<store, recovery>>

(* A device is lost with its member and replaced by an empty one. *)
LoseMember(d) ==
    /\ losses < MaxLosses
    /\ members[d] # None
    /\ members' = [members EXCEPT ![d] = None]
    /\ losses' = losses + 1
    /\ UNCHANGED <<store, job, builds, sets>>

Call(p) ==
    \/ \E s \in Source, id \in Content : ImportNew(p, s, id) \/ ImportKnown(p, s, id)
    \/ \E r \in returned : Rotate(p, r)
    \/ \E r \in returned, out \in Output : DeriveNew(p, r, out) \/ DeriveKnown(p, r, out)
    \/ \E t \in Targets : BeginBuild(p, t)
    \/ \E st \in sets, k \in 1..2, t \in Targets : RotateSet(p, st, k, t)

WriteStep(p) == OpenFile(p) \/ FillFile(p) \/ SyncFile(p) \/ WriteFails(p)

BuildStep(p) == VerifyStore(p) \/ TakeSnapshot(p) \/ StageCopy(p) \/ Publish(p)
                \/ Confirm(p) \/ BuildFails(p)

Next ==
    \/ \E p \in Process : Call(p) \/ WriteStep(p) \/ BuildStep(p) \/ Crash(p)
    \/ \E d \in Device : LoseMember(d)

Spec == Init /\ [][Next]_vars
-----------------------------------------------------------------------------
(* What callers rely on.                                                   *)

(* The result r can be had from a directory D: its evidence is readable, and *)
(* so is its derivation unless an fsync has failed after another process had *)
(* found the file complete that is then removed.                            *)
Holds(D, r) ==
    /\ Readable(D, r.ref)
    /\ ~syncFailed /\ r.of # 0 => <<"derivation", r.of, r.ref>> \in D

(* Whatever was returned to any caller stays complete in the store, however *)
(* imports race, fail and die later; and a source stands for one content    *)
(* for all callers ("same logical source with different bytes ... fails     *)
(* closed", docs/PRIVATE_CASE_EVIDENCE_INTAKE_V1.md), again unless an fsync *)
(* has failed behind another process's back.                                *)
ReturnedIsStored ==
    /\ \A r \in returned : Holds(whole, r)
    /\ ~syncFailed => \A q, r \in returned : q.source = r.source => q.id = r.id

(* A published capsule restores: it is a directory that _verify_store       *)
(* accepts, the envelope has exactly its keys, and it holds everything that *)
(* had been returned to anybody before its creation began, though the store *)
(* was scanned three times while others wrote.                              *)
CapsulesRestore ==
    \A d \in Device : members[d] # None =>
        /\ Verified(members[d].files)
        /\ KeysOf(members[d].files) = members[d].keys
        /\ \A r \in members[d].before : Holds(members[d].files, r)

(* Issued sets lose no member to other builds: of the two members of every   *)
(* set no more are missing than devices were lost, whatever other sets are   *)
(* begun at the same targets, fail and clean up.                            *)
MissingMembers ==
    {m \in sets \X (1..2) : ~IsMember(m[1].places[m[2]], m[1].no, m[1].files)}
SetsRedundant == Cardinality(MissingMembers) <= losses
=============================================================================
