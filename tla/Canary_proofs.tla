---------------------------- MODULE Canary_proofs ----------------------------
(***************************************************************************)
(* Proofs about Canary, for any number of processes and tasks, any budget,   *)
(* lease time and bound on the clock.                                       *)
(*                                                                         *)
(* Everything a run does after it acquired its lease rests on its fencing    *)
(* token: no two runs of a task work under the same one (TokensOK).  So the  *)
(* branch of a task, created under one token, belongs to one run, whose      *)
(* clean-up cannot hit another's worktree (TreesOwned); and the one row of   *)
(* task_states names the one run that may write (WritesOK).                 *)
(***************************************************************************)
EXTENDS Canary, FiniteSetTheorems, TLAPS

(* A run that has a lease, and so a token. *)
Working(r) == r.pc \notin {"idle", "reserve", "acquire"}

(* Tokens of working runs were issued, and are distinct per task.           *)
TokensOK ==
    /\ \A p \in Process : Working(run[p]) => run[p].token \in 1..token[T(p)]
    /\ \A p, q \in Process :
          p # q /\ Working(run[p]) /\ Working(run[q]) /\ T(p) = T(q)
              => run[p].token # run[q].token

(* Who is about to write, and who has written. *)
WritesOK ==
    \A p \in Process :
        /\ run[p].pc = "mutate" => state[T(p)] = run[p].token
        /\ run[p].pc \in {"commit", "verify"} \/ run[p].receipt =>
              Working(run[p]) /\ run[p].token \in mutated[T(p)]

IInv == TypeOK /\ BudgetHeld /\ TokensOK /\ WritesOK /\ OneExecution /\ TreesOwned

(* The task of a run that is under way is a task. *)
LEMMA TaskOf ==
    ASSUME TypeOK, NEW p \in Process, run[p].pc # "idle"
    PROVE  T(p) \in Task /\ run[p] \in Run
BY DEF TypeOK, Run, T

-----------------------------------------------------------------------------
(* What p's new run r must satisfy when a step changes nothing else but      *)
(* history.                                                                *)
Fits(p, r) ==
    /\ r \in Run
    /\ r.pc # "idle" => r.task # None
    /\ r.pc \notin {"idle", "reserve"} => r.ordinal # 0 /\ r.ordinal = ordinal[r.task]
    /\ Working(r) => Working(run[p]) /\ r.task = T(p) /\ r.token = run[p].token
    /\ r.pc \in Cleaning => run[p].pc \in Cleaning
    /\ r.pc \in Cleaning => (r.pc = "unbranch" <=> run[p].pc = "unbranch")
    /\ r.pc # "mutate"
    /\ r.pc \in {"commit", "verify"} \/ r.receipt => Working(r) /\ r.token \in mutated[r.task]
    /\ run[p].pc \in Cleaning => r.pc \in Cleaning \/ run[p].token \in left'[T(p)]

LEMMA RunStep ==
    ASSUME IInv, NEW p \in Process, NEW r, Fits(p, r), run' = [run EXCEPT ![p] = r],
           left' \in [Task -> SUBSET Nat], \A t \in Task : left[t] \subseteq left'[t],
           UNCHANGED <<now, budget, leases, git, mutated, receipts>>
    PROVE  IInv'
<1>1. /\ run'[p] = r /\ \A q \in Process : q # p => run'[q] = run[q]
      /\ run' \in [Process -> Run]
  BY DEF IInv, TypeOK, Fits
<1>2. /\ now' = now /\ consumed' = consumed /\ ordinal' = ordinal /\ token' = token
      /\ expires' = expires /\ state' = state /\ tree' = tree /\ branch' = branch
      /\ mutated' = mutated /\ receipts' = receipts
  BY DEF budget, leases, git
<1>3. TypeOK'
  BY <1>1, <1>2 DEF IInv, TypeOK, Fits
<1>4. BudgetHeld'
  BY <1>1, <1>2 DEF IInv, BudgetHeld, T, Fits
<1>5. TokensOK'
  BY <1>1, <1>2 DEF IInv, TokensOK, T, Fits
<1>6. WritesOK'
  BY <1>1, <1>2 DEF IInv, WritesOK, T, Fits
<1>7. OneExecution'
  BY <1>2 DEF IInv, OneExecution
<1>8. TreesOwned'
  <2>1. ASSUME NEW q \in Process, run'[q].pc \in Cleaning
        PROVE  /\ branch'[T(q)'] = run'[q].token
               /\ tree'[T(q)'] = IF run'[q].pc = "unbranch" THEN 0 ELSE run'[q].token
    <3>1. CASE q = p
      <4>1. Working(r)
        BY <2>1, <3>1, <1>1 DEF Working, Cleaning
      <4> QED BY <2>1, <3>1, <4>1, <1>1, <1>2 DEF IInv, TreesOwned, T, Fits
    <3>2. CASE q # p
      BY <2>1, <3>2, <1>1, <1>2 DEF IInv, TreesOwned, T
    <3> QED BY <3>1, <3>2
  <2>2. ASSUME NEW t \in Task
        PROVE  /\ tree'[t] \in {0, branch'[t]}
               /\ branch'[t] # 0 => \/ \E q \in Process : InTree(q, t, branch[t])'
                                   \/ branch'[t] \in left'[t]
    <3>1. tree'[t] \in {0, branch'[t]}
      BY <1>2 DEF IInv, TreesOwned
    <3>2. CASE branch[t] \in left[t]
      BY <3>1, <3>2, <1>2
    <3>3. ASSUME NEW q \in Process, InTree(q, t, branch[t])
          PROVE  InTree(q, t, branch[t])' \/ branch'[t] \in left'[t]
      <4>1. CASE q = p
        BY <3>3, <4>1, <1>1, <1>2 DEF InTree, T, Fits, Working, Cleaning
      <4>2. CASE q # p
        BY <3>3, <4>2, <1>1, <1>2 DEF InTree, T
      <4> QED BY <4>1, <4>2
    <3> QED BY <3>1, <3>2, <3>3, <1>2 DEF IInv, TreesOwned
  <2> QED BY <2>1, <2>2 DEF TreesOwned
<1> QED BY <1>3, <1>4, <1>5, <1>6, <1>7, <1>8 DEF IInv

LEMMA InitIInv == Init => IInv
<1> SUFFICES ASSUME Init PROVE IInv
  OBVIOUS
<1>1. \A p \in Process : run[p] = NoRun
  BY DEF Init
<1>2. \A p \in Process : run[p].pc = "idle" /\ ~Working(run[p]) /\ ~run[p].receipt
                         /\ run[p].pc \notin Cleaning
  BY <1>1 DEF NoRun, Working, Cleaning
<1>3. TypeOK
  BY <1>2, BoundAssumption DEF Init, TypeOK, NoRun, Run
<1>4. BudgetHeld
  <2>1. {t \in Task : ordinal[t] # 0} = {}
    BY DEF Init
  <2>2. consumed = 0 /\ \A t \in Task : ordinal[t] = 0
    BY DEF Init
  <2>3. consumed = Cardinality({t \in Task : ordinal[t] # 0})
    BY <2>1, <2>2, FS_EmptySet
  <2>4. consumed <= MaxTasks /\ \A t \in Task : mutated[t] = {}
    BY <2>2, BoundAssumption DEF Init
  <2> QED BY <1>2, <2>2, <2>3, <2>4 DEF BudgetHeld
<1>5. TokensOK /\ WritesOK
  BY <1>2 DEF TokensOK, WritesOK
<1>6. OneExecution
  BY DEF Init, OneExecution
<1>7. TreesOwned
  BY <1>2 DEF Init, TreesOwned
<1> QED BY <1>3, <1>4, <1>5, <1>6, <1>7 DEF IInv

(* What no invariant reads may change. *)
LEMMA ClockStep ==
    ASSUME IInv, now' \in Nat, UNCHANGED <<budget, leases, git, run, history>>
    PROVE  IInv'
<1>1. /\ consumed' = consumed /\ ordinal' = ordinal /\ token' = token
      /\ expires' = expires /\ state' = state /\ tree' = tree /\ branch' = branch
      /\ mutated' = mutated /\ receipts' = receipts /\ left' = left /\ run' = run
  BY DEF budget, leases, git, history
<1>2. TypeOK'
  BY <1>1 DEF IInv, TypeOK
<1>3. BudgetHeld' /\ TokensOK' /\ WritesOK'
  BY <1>1 DEF IInv, BudgetHeld, TokensOK, WritesOK, T
<1>4. OneExecution'
  BY <1>1 DEF IInv, OneExecution
<1>5. TreesOwned'
  BY <1>1 DEF IInv, TreesOwned, T, InTree
<1> QED BY <1>2, <1>3, <1>4, <1>5 DEF IInv

LEMMA StartStep ==
    ASSUME IInv, NEW p \in Process, NEW t \in Task, Start(p, t)
    PROVE  IInv'
<1> DEFINE r == [NoRun EXCEPT !.pc = "reserve", !.task = t, !.epoch = now]
<1>1. Fits(p, r)
  BY TaskAssumption DEF Fits, Start, At, NoRun, Run, Working, Cleaning, IInv, TypeOK, T
<1> QED BY <1>1, RunStep DEF Start, history, IInv, TypeOK

(* A run that dies or raises; CheckWorktree's mismatch is another lemma.     *)
LEMMA StopStep ==
    ASSUME IInv, NEW p \in Process, Stop(p),
           \/ left' = left /\ run[p].pc \notin Cleaning
           \/ /\ run[p].pc \in Cleaning
              /\ left' = [left EXCEPT ![T(p)] = @ \cup {run[p].token}],
           UNCHANGED <<now, budget, leases, git, mutated, receipts>>
    PROVE  IInv'
<1>1. /\ left' \in [Task -> SUBSET Nat] /\ \A t \in Task : left[t] \subseteq left'[t]
      /\ run[p].pc \in Cleaning => run[p].token \in left'[T(p)]
  <2>1. CASE run[p].pc \in Cleaning
    <3>1. T(p) \in Task /\ run[p].token \in Nat
      BY <2>1, TaskOf DEF IInv, Cleaning, Run
    <3> QED BY <2>1, <3>1 DEF IInv, TypeOK
  <2>2. CASE run[p].pc \notin Cleaning
    BY <2>2 DEF IInv, TypeOK
  <2> QED BY <2>1, <2>2
<1>2. Fits(p, NoRun)
  BY <1>1 DEF Fits, NoRun, Run, Working, Cleaning
<1> QED BY <1>1, <1>2, RunStep DEF Stop

(* A run that only goes on to its next step. *)
LEMMA GotoStep ==
    ASSUME IInv, NEW p \in Process, NEW r \in Run,
           run[p].pc # "idle",
           run' = [run EXCEPT ![p] = r], r.task = T(p), r.token = run[p].token,
           r.ordinal # 0, r.ordinal = ordinal[T(p)],
           Working(r) => Working(run[p]),
           r.pc \in Cleaning <=> run[p].pc \in Cleaning,
           r.pc = "unbranch" <=> run[p].pc = "unbranch",
           r.pc \notin {"idle", "mutate"},
           r.pc \in {"commit", "verify"} \/ r.receipt => Working(r) /\ r.token \in mutated[T(p)],
           UNCHANGED <<now, budget, leases, git, mutated, receipts, left>>
    PROVE  IInv'
<1>1. Fits(p, r)
  BY TaskOf DEF Fits, IInv, TypeOK, T, Run
<1> QED BY <1>1, RunStep DEF IInv, TypeOK

-----------------------------------------------------------------------------
(* The reservation that is granted: one more task, one more consumed.       *)
LEMMA ReserveGrant ==
    ASSUME IInv, NEW p \in Process, At(p, "reserve"), ~Reserved(T(p)), BudgetLeft,
           consumed' = consumed + 1,
           ordinal' = [ordinal EXCEPT ![T(p)] = consumed + 1],
           run' = [run EXCEPT ![p] = [@ EXCEPT !.pc = "acquire", !.ordinal = consumed + 1]],
           UNCHANGED <<now, leases, git, history>>
    PROVE  IInv'
<1> DEFINE r == [run[p] EXCEPT !.pc = "acquire", !.ordinal = consumed + 1]
<1>1. T(p) \in Task /\ run[p] \in Run /\ consumed \in Nat /\ consumed < MaxTasks
  BY TaskOf, BoundAssumption DEF IInv, TypeOK, At, BudgetLeft
<1>2. /\ run' = [run EXCEPT ![p] = r] /\ r \in Run
      /\ r.task = T(p) /\ r.pc = "acquire" /\ r.ordinal = consumed + 1
      /\ r.receipt = run[p].receipt /\ r.token = run[p].token
  <2>1. r \in Run /\ r.task = run[p].task /\ r.pc = "acquire" /\ r.ordinal = consumed + 1
        /\ r.receipt = run[p].receipt /\ r.token = run[p].token
    <3>1. r.ordinal \in Nat
      BY <1>1 DEF Run
    <3> QED BY <1>1, <3>1 DEF Run
  <2> QED BY <2>1 DEF T
<1> HIDE DEF r
<1>3. /\ run'[p] = r /\ \A q \in Process : q # p => run'[q] = run[q]
      /\ run' \in [Process -> Run]
  BY <1>2 DEF IInv, TypeOK
<1>4. /\ now' = now /\ token' = token /\ expires' = expires /\ state' = state
      /\ tree' = tree /\ branch' = branch
      /\ mutated' = mutated /\ receipts' = receipts /\ left' = left
  BY DEF leases, git, history
<1>5. /\ \A q \in Process : /\ Working(run'[q]) => q # p /\ run'[q] = run[q]
                            /\ run'[q].pc \in Cleaning => q # p /\ run'[q] = run[q]
      /\ ~run[p].receipt /\ run[p].pc = "reserve"
  BY <1>2, <1>3 DEF Working, Cleaning, IInv, WritesOK, At
<1>6. TypeOK'
  <2>1. consumed' \in 0..MaxTasks /\ ordinal' \in [Task -> Nat]
    BY <1>1, BoundAssumption DEF IInv, TypeOK
  <2>2. \A q \in Process : run'[q].pc # "idle" => run'[q].task # None
    BY <1>1, <1>2, <1>3, TaskAssumption DEF IInv, TypeOK
  <2> QED BY <1>3, <1>4, <2>1, <2>2 DEF IInv, TypeOK
<1>7. BudgetHeld'
  <2> DEFINE S == {t \in Task : ordinal[t] # 0}
  <2>1. /\ {t \in Task : ordinal'[t] # 0} = S \cup {T(p)}
        /\ T(p) \notin S /\ IsFiniteSet(S)
    <3>1. ordinal \in [Task -> Nat] /\ ordinal[T(p)] = 0
      BY DEF IInv, TypeOK, Reserved
    <3>2. IsFiniteSet(S)
      BY FS_Subset, TaskAssumption
    <3> QED BY <1>1, <3>1, <3>2
  <2>2. Cardinality(S \cup {T(p)}) = consumed + 1
    BY <2>1, FS_AddElement DEF IInv, BudgetHeld
  <2>3. consumed' = Cardinality({t \in Task : ordinal'[t] # 0})
    BY <2>1, <2>2
  <2>4. \A t \in Task : ordinal'[t] = IF t = T(p) THEN consumed + 1 ELSE ordinal[t]
    BY DEF IInv, TypeOK
  <2>5. \A t \in Task : ordinal[t] \in Nat /\ ordinal[t] <= consumed
    BY DEF IInv, TypeOK, BudgetHeld
  <2>6. /\ \A t \in Task : ordinal'[t] <= consumed'
        /\ \A t, u \in Task : t # u /\ ordinal'[t] # 0 => ordinal'[t] # ordinal'[u]
    BY <2>4, <2>5, <1>1 DEF IInv, BudgetHeld
  <2>7. ASSUME NEW q \in Process, run'[q].pc \notin {"idle", "reserve"}
        PROVE  run'[q].ordinal # 0 /\ run'[q].ordinal = ordinal'[T(q)']
    <3>1. CASE q = p
      BY <3>1, <1>1, <1>2, <1>3, <2>4 DEF T
    <3>2. CASE q # p
      <4>1. run'[q] = run[q] /\ run[q].ordinal # 0 /\ run[q].ordinal = ordinal[run[q].task]
        BY <2>7, <3>2, <1>3 DEF IInv, BudgetHeld, T
      <4>2. run[q].task \in Task /\ run[q].task # T(p)
        BY <4>1, <2>7, TaskOf DEF IInv, T, Reserved
      <4> QED BY <4>1, <4>2, <2>4 DEF T
    <3> QED BY <3>1, <3>2
  <2>8. consumed' <= MaxTasks
    BY <1>1, BoundAssumption
  <2>9. \A t \in Task : mutated'[t] # {} => ordinal'[t] # 0
    BY <1>1, <1>4, <2>4 DEF IInv, BudgetHeld
  <2> QED BY <2>3, <2>6, <2>7, <2>8, <2>9 DEF BudgetHeld
<1>8. TokensOK'
  BY <1>4, <1>5 DEF IInv, TokensOK, T
<1>9. WritesOK'
  BY <1>2, <1>3, <1>4, <1>5 DEF IInv, WritesOK, T
<1>10. OneExecution'
  BY <1>4 DEF IInv, OneExecution
<1>11. TreesOwned'
  <2>1. ASSUME NEW t \in Task, NEW q \in Process, InTree(q, t, branch[t])
        PROVE  InTree(q, t, branch[t])'
    BY <2>1, <1>3, <1>4, <1>5 DEF InTree, T, Cleaning
  <2>2. \A q \in Process :
          run'[q].pc \in Cleaning =>
              /\ branch'[T(q)'] = run'[q].token
              /\ tree'[T(q)'] = IF run'[q].pc = "unbranch" THEN 0 ELSE run'[q].token
    BY <1>4, <1>5 DEF IInv, TreesOwned, T
  <2> QED BY <2>1, <2>2, <1>4 DEF IInv, TreesOwned
<1> QED BY <1>6, <1>7, <1>8, <1>9, <1>10, <1>11 DEF IInv

(* Reserve, all of it. *)
LEMMA ReserveStep ==
    ASSUME IInv, NEW p \in Process, Reserve(p)
    PROVE  IInv'
<1>1. run[p] \in Run /\ T(p) \in Task /\ run[p].pc = "reserve" /\ ~run[p].receipt
  BY TaskOf DEF Reserve, At, IInv, WritesOK, Working
<1>2. CASE /\ Reserved(T(p)) /\ UNCHANGED budget
           /\ run' = [run EXCEPT ![p] = [@ EXCEPT !.pc = "acquire", !.ordinal = ordinal[T(p)]]]
  <2> DEFINE r == [run[p] EXCEPT !.pc = "acquire", !.ordinal = ordinal[T(p)]]
  <2>1. /\ run' = [run EXCEPT ![p] = r] /\ r \in Run /\ r.task = T(p)
        /\ r.token = run[p].token /\ r.ordinal = ordinal[T(p)] /\ r.ordinal # 0
        /\ r.pc = "acquire" /\ ~r.receipt
    BY <1>1, <1>2 DEF IInv, TypeOK, Run, T, Reserved
  <2> HIDE DEF r
  <2> QED BY <1>1, <1>2, <2>1, GotoStep DEF Reserve, Working, Cleaning, history
<1>3. CASE Stop(p) /\ UNCHANGED budget
  BY <1>1, <1>3, StopStep DEF Reserve, Cleaning, history
<1>4. CASE /\ ~Reserved(T(p)) /\ BudgetLeft
           /\ consumed' = consumed + 1
           /\ ordinal' = [ordinal EXCEPT ![T(p)] = consumed + 1]
           /\ run' = [run EXCEPT ![p] = [@ EXCEPT !.pc = "acquire", !.ordinal = consumed + 1]]
  BY <1>4, ReserveGrant DEF Reserve
<1> QED BY <1>2, <1>3, <1>4 DEF Reserve

-----------------------------------------------------------------------------
(* TreesOwned when worktrees, branches and the runs at work in them stay.   *)
LEMMA TreesStay ==
    ASSUME TreesOwned, UNCHANGED git, \A t \in Task : left[t] \subseteq left'[t],
           \A q \in Process :
               /\ run[q].pc \in Cleaning <=> run'[q].pc \in Cleaning
               /\ run[q].pc \in Cleaning =>
                     /\ T(q)' = T(q) /\ run'[q].token = run[q].token
                     /\ run[q].pc = "unbranch" <=> run'[q].pc = "unbranch"
    PROVE  TreesOwned'
<1>1. tree' = tree /\ branch' = branch
  BY DEF git
<1>2. ASSUME NEW q \in Process, run'[q].pc \in Cleaning
      PROVE  /\ branch'[T(q)'] = run'[q].token
             /\ tree'[T(q)'] = IF run'[q].pc = "unbranch" THEN 0 ELSE run'[q].token
  BY <1>1, <1>2 DEF TreesOwned
<1>3. ASSUME NEW t \in Task
      PROVE  /\ tree'[t] \in {0, branch'[t]}
             /\ branch'[t] # 0 => \/ \E q \in Process : InTree(q, t, branch[t])'
                                 \/ branch'[t] \in left'[t]
  <2>1. ASSUME NEW q \in Process, InTree(q, t, branch[t])
        PROVE  InTree(q, t, branch[t])'
    BY <2>1, <1>1 DEF InTree
  <2> QED BY <2>1, <1>1 DEF TreesOwned
<1> QED BY <1>2, <1>3 DEF TreesOwned

(* The lease that is granted: a token of its own. *)
LEMMA AcquireGrant ==
    ASSUME IInv, NEW p \in Process, At(p, "acquire"),
           token' = [token EXCEPT ![T(p)] = @ + 1],
           expires' = [expires EXCEPT ![T(p)] = run[p].epoch + Ttl],
           run' = [run EXCEPT ![p] = [@ EXCEPT !.pc = "path", !.token = token[T(p)] + 1]],
           UNCHANGED <<now, budget, state, git, history>>
    PROVE  IInv'
<1> DEFINE k == token[T(p)] + 1
           r == [run[p] EXCEPT !.pc = "path", !.token = k]
<1>1. T(p) \in Task /\ run[p] \in Run /\ token[T(p)] \in Nat /\ k \in Nat \ {0}
  BY TaskOf DEF IInv, TypeOK, At
<1>2. /\ run' = [run EXCEPT ![p] = r] /\ r \in Run
      /\ r.task = T(p) /\ r.pc = "path" /\ r.ordinal = run[p].ordinal
      /\ r.receipt = run[p].receipt /\ r.token = k
  <2>1. r \in Run /\ r.task = run[p].task /\ r.pc = "path" /\ r.ordinal = run[p].ordinal
        /\ r.receipt = run[p].receipt /\ r.token = k
    <3> HIDE DEF k
    <3> QED BY <1>1 DEF Run
  <2> QED BY <2>1 DEF T
<1>3. /\ run'[p] = r /\ \A q \in Process : q # p => run'[q] = run[q]
      /\ run' \in [Process -> Run]
  <2> HIDE DEF r
  <2> QED BY <1>2 DEF IInv, TypeOK
<1> HIDE DEF r
<1>4. /\ now' = now /\ consumed' = consumed /\ ordinal' = ordinal /\ state' = state
      /\ tree' = tree /\ branch' = branch
      /\ mutated' = mutated /\ receipts' = receipts /\ left' = left
  BY DEF budget, git, history
<1>5. /\ \A t \in Task : token'[t] = IF t = T(p) THEN k ELSE token[t]
      /\ \A t \in Task : token[t] \in Nat
  BY <1>1 DEF IInv, TypeOK
<1> HIDE DEF k
<1>6. ~run[p].receipt /\ run[p].pc = "acquire"
  BY DEF IInv, WritesOK, At, Working
<1>7. TypeOK'
  <2>1. token' \in [Task -> Nat]
    BY <1>1 DEF IInv, TypeOK, k
  <2>2. expires' \in [Task -> Nat]
    <3>1. run[p].epoch + Ttl \in Nat
      BY <1>1, BoundAssumption DEF Run
    <3> QED BY <3>1 DEF IInv, TypeOK
  <2>3. \A q \in Process : run'[q].pc # "idle" => run'[q].task # None
    BY <1>1, <1>2, <1>3, TaskAssumption DEF IInv, TypeOK
  <2> QED BY <1>3, <1>4, <2>1, <2>2, <2>3 DEF IInv, TypeOK
<1>8. BudgetHeld'
  <2>1. \A q \in Process :
          run'[q].pc \notin {"idle", "reserve"} =>
              run'[q].ordinal # 0 /\ run'[q].ordinal = ordinal[T(q)']
    BY <1>2, <1>3, <1>6 DEF IInv, BudgetHeld, T
  <2> QED BY <2>1, <1>4 DEF IInv, BudgetHeld
<1>9. TokensOK'
  <2>1. ASSUME NEW q \in Process, Working(run'[q])
        PROVE  run'[q].token \in 1..token'[T(q)']
    <3>1. CASE q = p
      <4>1. run'[q].token = k /\ run'[q].task = T(p) /\ token'[T(p)] = k
        BY <3>1, <1>1, <1>2, <1>3, <1>5
      <4>2. k \in 1..k
        BY <1>1
      <4> QED BY <4>1, <4>2 DEF T
    <3>2. CASE q # p
      <4>1. run'[q] = run[q] /\ run[q].token \in 1..token[run[q].task]
        BY <2>1, <3>2, <1>3 DEF IInv, TokensOK, T
      <4>2. run[q].task \in Task
        BY <4>1, <2>1, TaskOf DEF IInv, Working, T
      <4>3. token[run[q].task] <= token'[run[q].task]
        <5>1. CASE run[q].task = T(p)
          <6>1. token'[run[q].task] = token[T(p)] + 1
            BY <4>2, <5>1, <1>5 DEF k
          <6> QED BY <5>1, <6>1, <1>1
        <5>2. CASE run[q].task # T(p)
          BY <4>2, <5>2, <1>5
        <5> QED BY <5>1, <5>2
      <4>4. token[run[q].task] \in Nat /\ token'[run[q].task] \in Nat
        BY <4>2, <1>1, <1>5
      <4>5. run[q].token \in 1..token'[run[q].task]
        BY <4>1, <4>3, <4>4
      <4> QED BY <4>1, <4>5 DEF T
    <3> QED BY <3>1, <3>2
  <2>2. ASSUME NEW q \in Process, q # p, Working(run[q]), T(q) = T(p)
        PROVE  run[q].token # k
    <3>1. run[q].token \in 1..token[T(p)]
      BY <2>2 DEF IInv, TokensOK
    <3> QED BY <3>1, <1>1 DEF k
  <2>3. ASSUME NEW q \in Process, NEW u \in Process, q # u,
               Working(run'[q]), Working(run'[u]), T(q)' = T(u)'
        PROVE  run'[q].token # run'[u].token
    <3>1. CASE q = p
      BY <2>2, <2>3, <3>1, <1>2, <1>3 DEF T
    <3>2. CASE u = p
      BY <2>2, <2>3, <3>2, <1>2, <1>3 DEF T
    <3>3. CASE q # p /\ u # p
      BY <2>3, <3>3, <1>3 DEF T, IInv, TokensOK
    <3> QED BY <3>1, <3>2, <3>3
  <2> QED BY <2>1, <2>3 DEF TokensOK
<1>10. WritesOK'
  BY <1>2, <1>3, <1>4, <1>6 DEF IInv, WritesOK, T
<1>11. OneExecution'
  BY <1>4 DEF IInv, OneExecution
<1>12. TreesOwned'
  BY <1>2, <1>3, <1>4, <1>6, TreesStay DEF IInv, T, Cleaning, git
<1> QED BY <1>7, <1>8, <1>9, <1>10, <1>11, <1>12 DEF IInv

LEMMA AcquireStep ==
    ASSUME IInv, NEW p \in Process, Acquire(p)
    PROVE  IInv'
<1>1. CASE Stop(p) /\ UNCHANGED <<token, expires>>
  BY <1>1, StopStep DEF Acquire, At, Cleaning, history, leases
<1>2. CASE ~(Stop(p) /\ UNCHANGED <<token, expires>>)
  BY <1>2, AcquireGrant DEF Acquire
<1> QED BY <1>1, <1>2

-----------------------------------------------------------------------------
(* What Goto does to a run that is under way. *)
LEMMA GotoFacts ==
    ASSUME IInv, NEW p \in Process, run[p].pc # "idle",
           NEW pc \in {"add", "initialize", "mutate", "commit", "remove", "unbranch",
                       "check", "verify"},
           Goto(p, pc)
    PROVE  /\ run' \in [Process -> Run]
           /\ run'[p].pc = pc /\ run'[p].task = T(p) /\ run'[p].token = run[p].token
           /\ run'[p].ordinal = run[p].ordinal /\ run'[p].receipt = run[p].receipt
           /\ run'[p] \in Run /\ run' = [run EXCEPT ![p] = run'[p]]
           /\ \A q \in Process : q # p => run'[q] = run[q]
           /\ \A q \in Process : run'[q].pc # "idle" => run'[q].task # None
<1> DEFINE r == [run[p] EXCEPT !.pc = pc]
<1>1. run[p] \in Run /\ T(p) \in Task /\ run \in [Process -> Run]
  BY TaskOf DEF IInv, TypeOK
<1>2. /\ r \in Run /\ r.task = T(p) /\ r.pc = pc /\ r.ordinal = run[p].ordinal
      /\ r.receipt = run[p].receipt /\ r.token = run[p].token
  BY <1>1 DEF Run, T
<1>3. run' = [run EXCEPT ![p] = r]
  BY DEF Goto
<1> HIDE DEF r
<1>4. run'[p] = r /\ \A q \in Process : q # p => run'[q] = run[q]
  BY <1>1, <1>3
<1>5. run' \in [Process -> Run] /\ run' = [run EXCEPT ![p] = run'[p]]
  BY <1>1, <1>2, <1>3, <1>4
<1>6. \A q \in Process : run'[q].pc # "idle" => run'[q].task # None
  BY <1>1, <1>2, <1>4, TaskAssumption DEF IInv, TypeOK
<1> QED BY <1>2, <1>4, <1>5, <1>6

LEMMA StopFacts ==
    ASSUME IInv, NEW p \in Process, Stop(p)
    PROVE  /\ run' \in [Process -> Run]
           /\ run'[p] = NoRun /\ run'[p].pc = "idle" /\ ~run'[p].receipt
           /\ \A q \in Process : q # p => run'[q] = run[q]
           /\ \A q \in Process : run'[q].pc # "idle" => run'[q].task # None
<1>1. NoRun \in Run /\ NoRun.pc = "idle" /\ ~NoRun.receipt
  BY DEF NoRun, Run
<1> QED BY <1>1 DEF IInv, TypeOK, Stop

(* The budget and the tokens while one run goes on, writes or ends. *)
LEMMA BudgetTokens ==
    ASSUME IInv, NEW p \in Process, UNCHANGED <<budget, token>>, Working(run[p]),
           \A t \in Task : mutated'[t] = mutated[t] \/ t = T(p),
           \A q \in Process : q # p => run'[q] = run[q],
           run'[p].pc # "idle" =>
               /\ run'[p].task = T(p) /\ run'[p].ordinal = run[p].ordinal
               /\ run'[p].token = run[p].token
    PROVE  BudgetHeld' /\ TokensOK'
<1>1. consumed' = consumed /\ ordinal' = ordinal /\ token' = token
  BY DEF budget
<1>2. BudgetHeld'
  <2>1. \A q \in Process :
          run'[q].pc \notin {"idle", "reserve"} =>
              run'[q].ordinal # 0 /\ run'[q].ordinal = ordinal[T(q)']
    BY DEF IInv, BudgetHeld, T, Working
  <2>2. ordinal[T(p)] # 0
    BY DEF IInv, BudgetHeld, Working
  <2>3. \A t \in Task : mutated'[t] # {} => ordinal[t] # 0
    BY <2>2 DEF IInv, BudgetHeld
  <2> QED BY <2>1, <2>3, <1>1 DEF IInv, BudgetHeld
<1>3. TokensOK'
  <2>1. ASSUME NEW q \in Process, Working(run'[q])
        PROVE  Working(run[q]) /\ T(q)' = T(q) /\ run'[q].token = run[q].token
    BY <2>1 DEF Working, T
  <2> QED BY <2>1, <1>1 DEF IInv, TokensOK
<1> QED BY <1>2, <1>3

(* No two runs of a task are at work in its worktree: the branch is one's.  *)
LEMMA OneOwner ==
    ASSUME IInv, NEW p \in Process, NEW q \in Process, p # q,
           run[p].pc \in Cleaning, run[q].pc \in Cleaning
    PROVE  T(p) # T(q)
<1>1. Working(run[p]) /\ Working(run[q])
  BY DEF Working, Cleaning
<1>2. branch[T(p)] = run[p].token /\ branch[T(q)] = run[q].token
  BY DEF IInv, TreesOwned
<1> QED BY <1>1, <1>2 DEF IInv, TokensOK

(* The token of a working run is not 0. *)
LEMMA TokenOf ==
    ASSUME IInv, NEW p \in Process, Working(run[p])
    PROVE  run[p].token \in Nat \ {0} /\ T(p) \in Task
<1>1. T(p) \in Task /\ token[T(p)] \in Nat
  BY TaskOf DEF Working, IInv, TypeOK
<1>2. run[p].token \in 1..token[T(p)]
  BY DEF IInv, TokensOK
<1> QED BY <1>1, <1>2

(* The worktree that is created: where nothing stood. *)
LEMMA AddGrant ==
    ASSUME IInv, NEW p \in Process, At(p, "add"), Addable(T(p)),
           tree' = [tree EXCEPT ![T(p)] = run[p].token],
           branch' = [branch EXCEPT ![T(p)] = run[p].token],
           Goto(p, "check"),
           UNCHANGED <<now, budget, leases, history>>
    PROVE  IInv'
<1>1. Working(run[p]) /\ run[p].pc = "add" /\ run[p].token \in Nat \ {0} /\ T(p) \in Task
  BY TokenOf DEF At, Working
<1>2. /\ now' = now /\ consumed' = consumed /\ ordinal' = ordinal
      /\ token' = token /\ expires' = expires /\ state' = state
      /\ mutated' = mutated /\ receipts' = receipts /\ left' = left
  BY DEF budget, leases, history
<1>3. TypeOK'
  BY <1>1, <1>2, GotoFacts DEF IInv, TypeOK
<1>4. BudgetHeld' /\ TokensOK'
  BY <1>1, <1>2, GotoFacts, BudgetTokens DEF budget
<1>5. WritesOK'
  BY <1>1, <1>2, GotoFacts DEF IInv, WritesOK, Working, T
<1>6. OneExecution'
  BY <1>2 DEF IInv, OneExecution
<1>7. TreesOwned'
  <2>1. /\ tree[T(p)] = 0 /\ branch[T(p)] = 0
        /\ \A t \in Task : /\ tree'[t] = IF t = T(p) THEN run[p].token ELSE tree[t]
                           /\ branch'[t] = IF t = T(p) THEN run[p].token ELSE branch[t]
    BY DEF Addable, IInv, TypeOK
  <2>2. ASSUME NEW q \in Process, q # p, run[q].pc \in Cleaning
        PROVE  T(q) # T(p) /\ T(q) \in Task
    BY <2>1, <2>2, TokenOf DEF Working, Cleaning, IInv, TreesOwned
  <2>3. ASSUME NEW q \in Process, run'[q].pc \in Cleaning
        PROVE  /\ branch'[T(q)'] = run'[q].token
               /\ tree'[T(q)'] = IF run'[q].pc = "unbranch" THEN 0 ELSE run'[q].token
    <3>1. CASE q = p
      BY <3>1, <2>1, <1>1, GotoFacts DEF T
    <3>2. CASE q # p
      BY <3>2, <2>1, <2>2, <2>3, <1>1, GotoFacts DEF IInv, TreesOwned, T
    <3> QED BY <3>1, <3>2
  <2>4. ASSUME NEW t \in Task
        PROVE  /\ tree'[t] \in {0, branch'[t]}
               /\ branch'[t] # 0 => \/ \E q \in Process : InTree(q, t, branch[t])'
                                   \/ branch'[t] \in left'[t]
    <3>1. CASE t = T(p)
      <4>1. tree'[t] = run[p].token /\ branch'[t] = run[p].token
        BY <3>1, <2>1
      <4>2. run'[p].token = branch'[t] /\ run'[p].task = t /\ run'[p].pc \in Cleaning
        BY <3>1, <4>1, <1>1, GotoFacts DEF Cleaning
      <4> QED BY <4>1, <4>2 DEF InTree, T
    <3>2. CASE t # T(p)
      <4>1. ASSUME NEW q \in Process, InTree(q, t, branch[t])
            PROVE  InTree(q, t, branch[t])'
        BY <4>1, <3>2, <1>1, GotoFacts DEF InTree, T
      <4> QED BY <3>2, <4>1, <2>1, <1>2 DEF IInv, TreesOwned
    <3> QED BY <3>1, <3>2
  <2> QED BY <2>3, <2>4 DEF TreesOwned
<1> QED BY <1>3, <1>4, <1>5, <1>6, <1>7 DEF IInv

LEMMA AddWorktreeStep ==
    ASSUME IInv, NEW p \in Process, AddWorktree(p)
    PROVE  IInv'
<1>1. CASE Stop(p) /\ UNCHANGED git
  BY <1>1, StopStep DEF AddWorktree, At, Cleaning, history
<1>2. CASE ~(Stop(p) /\ UNCHANGED git)
  BY <1>2, AddGrant DEF AddWorktree
<1> QED BY <1>1, <1>2

(* The steps that change nothing but the run. *)
LEMMA CheckPathStep ==
    ASSUME IInv, NEW p \in Process, CheckPath(p)
    PROVE  IInv'
<1>1. CASE tree[T(p)] = 0
  <2>1. Goto(p, "add") /\ run[p].pc = "path" /\ UNCHANGED <<now, budget, leases, git, history>>
    BY <1>1 DEF CheckPath, At
  <2>2. run[p].ordinal # 0 /\ run[p].ordinal = ordinal[T(p)]
    BY <2>1 DEF IInv, BudgetHeld
  <2>3. run[p].receipt => run[p].token \in mutated[T(p)]
    BY DEF IInv, WritesOK
  <2> QED BY <2>1, <2>2, <2>3, GotoFacts, GotoStep DEF Cleaning, Working, history
<1>2. CASE tree[T(p)] # 0
  BY <1>2, StopStep DEF CheckPath, At, Cleaning, history
<1> QED BY <1>1, <1>2

LEMMA CommitStep ==
    ASSUME IInv, NEW p \in Process, Commit(p)
    PROVE  IInv'
<1>1. PICK built \in BOOLEAN :
        run' = [run EXCEPT ![p] = [@ EXCEPT !.pc = "remove", !.receipt = built]]
  BY DEF Commit
<1> DEFINE r == [run[p] EXCEPT !.pc = "remove", !.receipt = built]
<1>2. run[p].pc = "commit" /\ run[p] \in Run /\ UNCHANGED <<now, budget, leases, git, history>>
  BY TaskOf DEF Commit, At, IInv
<1>3. /\ run' = [run EXCEPT ![p] = r] /\ r \in Run
      /\ r.task = T(p) /\ r.pc = "remove" /\ r.ordinal = run[p].ordinal
      /\ r.token = run[p].token
  BY <1>1, <1>2 DEF Run, T
<1> HIDE DEF r
<1>4. run[p].ordinal # 0 /\ run[p].ordinal = ordinal[T(p)]
  BY <1>2 DEF IInv, BudgetHeld
<1>5. run[p].token \in mutated[T(p)]
  BY <1>2 DEF IInv, WritesOK
<1> QED BY <1>2, <1>3, <1>4, <1>5, GotoStep DEF Cleaning, Working, history

LEMMA BreakStep ==
    ASSUME IInv, NEW p \in Process, Break(p)
    PROVE  IInv'
BY StopStep DEF Break

(* A worktree removed after a head that does not match: its branch stays,   *)
(* and its run is among those that left something.                          *)
LEMMA Mismatch ==
    ASSUME IInv, NEW p \in Process, At(p, "check"),
           tree' = [tree EXCEPT ![T(p)] = 0],
           left' = [left EXCEPT ![T(p)] = @ \cup {run[p].token}],
           Stop(p),
           UNCHANGED <<now, budget, leases, branch, mutated, receipts>>
    PROVE  IInv'
<1>1. Working(run[p]) /\ run[p].pc \in Cleaning /\ run[p].pc = "check"
      /\ run[p].token \in Nat \ {0} /\ T(p) \in Task
  BY TokenOf DEF At, Working, Cleaning
<1>2. /\ now' = now /\ consumed' = consumed /\ ordinal' = ordinal
      /\ token' = token /\ expires' = expires /\ state' = state
      /\ mutated' = mutated /\ receipts' = receipts /\ branch' = branch
  BY DEF budget, leases
<1>3. \A t \in Task : /\ tree'[t] = IF t = T(p) THEN 0 ELSE tree[t]
                      /\ left[t] \subseteq left'[t]
                      /\ t = T(p) => run[p].token \in left'[t]
  BY DEF IInv, TypeOK
<1>4. TypeOK'
  BY <1>1, <1>2, StopFacts DEF IInv, TypeOK
<1>5. BudgetHeld' /\ TokensOK'
  BY <1>1, <1>2, StopFacts, BudgetTokens DEF budget
<1>6. WritesOK'
  BY <1>2, StopFacts DEF IInv, WritesOK, T
<1>7. OneExecution'
  BY <1>2 DEF IInv, OneExecution
<1>8. TreesOwned'
  <2>1. ASSUME NEW q \in Process, run'[q].pc \in Cleaning
        PROVE  /\ branch'[T(q)'] = run'[q].token
               /\ tree'[T(q)'] = IF run'[q].pc = "unbranch" THEN 0 ELSE run'[q].token
    <3>1. q # p /\ run'[q] = run[q]
      BY <2>1, StopFacts DEF Cleaning
    <3>2. T(q) # T(p) /\ T(q) \in Task
      BY <2>1, <3>1, <1>1, OneOwner, TaskOf DEF IInv, Cleaning
    <3> QED BY <2>1, <3>1, <3>2, <1>2, <1>3 DEF IInv, TreesOwned, T
  <2>2. ASSUME NEW t \in Task
        PROVE  /\ tree'[t] \in {0, branch'[t]}
               /\ branch'[t] # 0 => \/ \E q \in Process : InTree(q, t, branch[t])'
                                   \/ branch'[t] \in left'[t]
    <3>1. CASE t = T(p)
      <4>1. branch[t] = run[p].token
        BY <3>1, <1>1 DEF IInv, TreesOwned
      <4> QED BY <3>1, <4>1, <1>2, <1>3
    <3>2. CASE t # T(p)
      <4>1. ASSUME NEW q \in Process, InTree(q, t, branch[t])
            PROVE  InTree(q, t, branch[t])'
        BY <4>1, <3>2, <1>2, StopFacts DEF InTree, T
      <4> QED BY <3>2, <4>1, <1>2, <1>3 DEF IInv, TreesOwned
    <3> QED BY <3>1, <3>2
  <2> QED BY <2>1, <2>2 DEF TreesOwned
<1> QED BY <1>4, <1>5, <1>6, <1>7, <1>8 DEF IInv

LEMMA CheckWorktreeStep ==
    ASSUME IInv, NEW p \in Process, CheckWorktree(p)
    PROVE  IInv'
<1>1. CASE Goto(p, "initialize") /\ UNCHANGED <<git, left>>
  <2>1. run[p].pc = "check" /\ UNCHANGED <<now, budget, leases, git, mutated, receipts, left>>
    BY <1>1 DEF CheckWorktree, At
  <2>2. run[p].ordinal # 0 /\ run[p].ordinal = ordinal[T(p)]
    BY <2>1 DEF IInv, BudgetHeld
  <2>3. run[p].receipt => run[p].token \in mutated[T(p)]
    BY DEF IInv, WritesOK
  <2> QED BY <1>1, <2>1, <2>2, <2>3, GotoFacts, GotoStep DEF Cleaning, Working
<1>2. CASE ~(Goto(p, "initialize") /\ UNCHANGED <<git, left>>)
  BY <1>2, Mismatch DEF CheckWorktree
<1> QED BY <1>1, <1>2

(* The one row of task_states: it stays with the token that inserted it.    *)
LEMMA InitializeGrant ==
    ASSUME IInv, NEW p \in Process, At(p, "initialize"), Initializable(p),
           state' = [state EXCEPT ![T(p)] = run[p].token],
           Goto(p, "mutate"),
           UNCHANGED <<now, budget, token, expires, git, history>>
    PROVE  IInv'
<1>1. Working(run[p]) /\ run[p].pc = "initialize"
      /\ run[p].token \in Nat \ {0} /\ T(p) \in Task
  BY TokenOf DEF At, Working
<1>2. /\ now' = now /\ consumed' = consumed /\ ordinal' = ordinal
      /\ token' = token /\ expires' = expires /\ tree' = tree /\ branch' = branch
      /\ mutated' = mutated /\ receipts' = receipts /\ left' = left
  BY DEF budget, git, history
<1>3. /\ state[T(p)] = 0
      /\ \A t \in Task : state'[t] = IF t = T(p) THEN run[p].token ELSE state[t]
  BY DEF Initializable, IInv, TypeOK
<1>4. TypeOK'
  BY <1>1, <1>2, GotoFacts DEF IInv, TypeOK
<1>5. BudgetHeld' /\ TokensOK'
  BY <1>1, <1>2, GotoFacts, BudgetTokens DEF budget
<1>6. WritesOK'
  <2>1. ASSUME NEW q \in Process, run'[q].pc = "mutate"
        PROVE  state'[T(q)'] = run'[q].token
    <3>1. CASE q = p
      BY <3>1, <1>1, <1>3, GotoFacts DEF T
    <3>2. CASE q # p
      <4>1. run'[q] = run[q] /\ Working(run[q]) /\ state[T(q)] = run[q].token
        BY <3>2, <2>1, <1>1, GotoFacts DEF IInv, WritesOK, Working
      <4>2. run[q].token # 0 /\ T(q) \in Task
        BY <4>1, TokenOf
      <4> QED BY <4>1, <4>2, <1>3 DEF T
    <3> QED BY <3>1, <3>2
  <2>2. ASSUME NEW q \in Process, run'[q].pc \in {"commit", "verify"} \/ run'[q].receipt
        PROVE  Working(run'[q]) /\ run'[q].token \in mutated'[T(q)']
    BY <2>2, <1>1, <1>2, GotoFacts DEF IInv, WritesOK, Working, T
  <2> QED BY <2>1, <2>2 DEF WritesOK
<1>7. OneExecution'
  BY <1>2, <1>3 DEF IInv, OneExecution
<1>8. TreesOwned'
  BY <1>1, <1>2, GotoFacts, TreesStay DEF IInv, T, Cleaning, git
<1> QED BY <1>4, <1>5, <1>6, <1>7, <1>8 DEF IInv

LEMMA InitializeStep ==
    ASSUME IInv, NEW p \in Process, InitializeState(p)
    PROVE  IInv'
<1>1. CASE Goto(p, "remove") /\ UNCHANGED state
  <2>1. run[p].pc = "initialize"
        /\ UNCHANGED <<now, budget, leases, git, mutated, receipts, left>>
    BY <1>1 DEF InitializeState, At, leases, history
  <2>2. run[p].ordinal # 0 /\ run[p].ordinal = ordinal[T(p)]
    BY <2>1 DEF IInv, BudgetHeld
  <2>3. run[p].receipt => run[p].token \in mutated[T(p)]
    BY DEF IInv, WritesOK
  <2> QED BY <1>1, <2>1, <2>2, <2>3, GotoFacts, GotoStep DEF Cleaning, Working
<1>2. CASE ~(Goto(p, "remove") /\ UNCHANGED state)
  BY <1>2, InitializeGrant DEF InitializeState
<1> QED BY <1>1, <1>2

LEMMA MutateStep ==
    ASSUME IInv, NEW p \in Process, Mutate(p)
    PROVE  IInv'
<1>1. Working(run[p]) /\ run[p].pc = "mutate"
      /\ run[p].token \in Nat \ {0} /\ T(p) \in Task /\ state[T(p)] = run[p].token
  BY TokenOf DEF Mutate, At, Working, IInv, WritesOK
<1>2. PICK pc \in {"commit", "remove"} : Goto(p, pc)
  BY DEF Mutate
<1>3. /\ now' = now /\ consumed' = consumed /\ ordinal' = ordinal
      /\ token' = token /\ expires' = expires /\ state' = state
      /\ tree' = tree /\ branch' = branch /\ receipts' = receipts /\ left' = left
  BY DEF Mutate, budget, leases, git
<1>4. \A t \in Task : /\ mutated[t] \subseteq mutated'[t]
                      /\ mutated'[t] = IF t = T(p) THEN mutated[t] \cup {run[p].token}
                                       ELSE mutated[t]
  BY <1>1 DEF Mutate, IInv, TypeOK
<1>5. /\ run' \in [Process -> Run]
      /\ run'[p].pc = pc /\ run'[p].task = T(p) /\ run'[p].token = run[p].token
      /\ run'[p].ordinal = run[p].ordinal /\ run'[p].receipt = run[p].receipt
      /\ \A q \in Process : q # p => run'[q] = run[q]
      /\ \A q \in Process : run'[q].pc # "idle" => run'[q].task # None
  BY <1>1, <1>2, GotoFacts
<1>6. TypeOK'
  <2>1. mutated' \in [Task -> SUBSET Nat]
    BY <1>1 DEF Mutate, IInv, TypeOK
  <2> QED BY <1>3, <1>5, <2>1 DEF IInv, TypeOK
<1>7. BudgetHeld' /\ TokensOK'
  BY <1>1, <1>3, <1>4, <1>5, BudgetTokens DEF budget
<1>8. WritesOK'
  <2>1. ASSUME NEW q \in Process, run'[q].pc = "mutate"
        PROVE  state'[T(q)'] = run'[q].token
    BY <2>1, <1>2, <1>3, <1>5 DEF IInv, WritesOK, T
  <2>2. ASSUME NEW q \in Process, run'[q].pc \in {"commit", "verify"} \/ run'[q].receipt
        PROVE  Working(run'[q]) /\ run'[q].token \in mutated'[T(q)']
    <3>1. CASE q = p
      BY <3>1, <1>1, <1>2, <1>4, <1>5 DEF Working, T
    <3>2. CASE q # p
      <4>1. run'[q] = run[q] /\ Working(run[q]) /\ run[q].token \in mutated[T(q)]
        BY <3>2, <2>2, <1>5 DEF IInv, WritesOK
      <4>2. T(q) \in Task
        BY <4>1, TokenOf
      <4> QED BY <4>1, <4>2, <1>4 DEF T
    <3> QED BY <3>1, <3>2
  <2> QED BY <2>1, <2>2 DEF WritesOK
<1>9. OneExecution'
  BY <1>1, <1>3, <1>4 DEF IInv, OneExecution
<1>10. TreesOwned'
  BY <1>1, <1>2, <1>3, <1>5, TreesStay DEF IInv, T, Cleaning, git
<1> QED BY <1>6, <1>7, <1>8, <1>9, <1>10 DEF IInv

LEMMA RemoveStep ==
    ASSUME IInv, NEW p \in Process, Remove(p)
    PROVE  IInv'
<1>1. Working(run[p]) /\ run[p].pc \in Cleaning /\ run[p].pc = "remove"
      /\ run[p].token \in Nat \ {0} /\ T(p) \in Task /\ Goto(p, "unbranch")
  BY TokenOf DEF Remove, At, Working, Cleaning
<1>2. /\ now' = now /\ consumed' = consumed /\ ordinal' = ordinal
      /\ token' = token /\ expires' = expires /\ state' = state /\ branch' = branch
      /\ mutated' = mutated /\ receipts' = receipts /\ left' = left
  BY DEF Remove, budget, leases, history
<1>3. \A t \in Task : tree'[t] = IF t = T(p) THEN 0 ELSE tree[t]
  BY DEF Remove, IInv, TypeOK
<1>4. TypeOK'
  BY <1>1, <1>2, GotoFacts DEF Remove, IInv, TypeOK
<1>5. BudgetHeld' /\ TokensOK'
  BY <1>1, <1>2, GotoFacts, BudgetTokens DEF budget
<1>6. WritesOK'
  BY <1>1, <1>2, GotoFacts DEF IInv, WritesOK, Working, T
<1>7. OneExecution'
  BY <1>2 DEF IInv, OneExecution
<1>8. TreesOwned'
  <2>1. ASSUME NEW q \in Process, run'[q].pc \in Cleaning
        PROVE  /\ branch'[T(q)'] = run'[q].token
               /\ tree'[T(q)'] = IF run'[q].pc = "unbranch" THEN 0 ELSE run'[q].token
    <3>1. CASE q = p
      BY <3>1, <1>1, <1>2, <1>3, GotoFacts DEF IInv, TreesOwned, T
    <3>2. CASE q # p
      <4>1. run'[q] = run[q]
        BY <3>2, <1>1, GotoFacts
      <4>2. T(q) # T(p) /\ T(q) \in Task
        BY <2>1, <3>2, <4>1, <1>1, OneOwner, TaskOf DEF IInv, Cleaning
      <4> QED BY <2>1, <4>1, <4>2, <1>2, <1>3 DEF IInv, TreesOwned, T
    <3> QED BY <3>1, <3>2
  <2>2. ASSUME NEW t \in Task
        PROVE  /\ tree'[t] \in {0, branch'[t]}
               /\ branch'[t] # 0 => \/ \E q \in Process : InTree(q, t, branch[t])'
                                   \/ branch'[t] \in left'[t]
    <3>1. ASSUME NEW q \in Process, InTree(q, t, branch[t])
          PROVE  InTree(q, t, branch[t])'
      BY <3>1, <1>1, <1>2, GotoFacts DEF InTree, T, Cleaning
    <3> QED BY <3>1, <1>2, <1>3 DEF IInv, TreesOwned
  <2> QED BY <2>1, <2>2 DEF TreesOwned
<1> QED BY <1>4, <1>5, <1>6, <1>7, <1>8 DEF IInv

(* The branch is deleted after the worktree: nothing of the run is left.    *)
LEMMA DeleteBranchStep ==
    ASSUME IInv, NEW p \in Process, DeleteBranch(p)
    PROVE  IInv'
<1>1. Working(run[p]) /\ run[p].pc \in Cleaning /\ run[p].pc = "unbranch"
      /\ T(p) \in Task /\ (Stop(p) \/ (run[p].receipt /\ Goto(p, "verify")))
  BY TokenOf DEF DeleteBranch, At, Working, Cleaning
<1>2. /\ now' = now /\ consumed' = consumed /\ ordinal' = ordinal
      /\ token' = token /\ expires' = expires /\ state' = state /\ tree' = tree
      /\ mutated' = mutated /\ receipts' = receipts /\ left' = left
  BY DEF DeleteBranch, budget, leases, history
<1>3. \A t \in Task : branch'[t] = IF t = T(p) THEN 0 ELSE branch[t]
  BY DEF DeleteBranch, IInv, TypeOK
<1>4. /\ run' \in [Process -> Run]
      /\ run'[p].pc \in {"idle", "verify"}
      /\ run'[p].pc # "idle" =>
            /\ run'[p].task = T(p) /\ run'[p].token = run[p].token
            /\ run'[p].ordinal = run[p].ordinal
      /\ run'[p].pc = "verify" \/ run'[p].receipt =>
            run[p].receipt /\ run'[p].pc = "verify"
      /\ \A q \in Process : q # p => run'[q] = run[q]
      /\ \A q \in Process : run'[q].pc # "idle" => run'[q].task # None
  <2>1. CASE Stop(p)
    BY <2>1, StopFacts
  <2>2. CASE run[p].receipt /\ Goto(p, "verify")
    BY <2>2, <1>1, GotoFacts
  <2> QED BY <1>1, <2>1, <2>2
<1>5. TypeOK'
  <2>1. branch' \in [Task -> Nat]
    BY DEF DeleteBranch, IInv, TypeOK
  <2> QED BY <1>2, <1>4, <2>1 DEF IInv, TypeOK
<1>6. BudgetHeld' /\ TokensOK'
  BY <1>1, <1>2, <1>4, BudgetTokens DEF budget
<1>7. WritesOK'
  BY <1>1, <1>2, <1>4 DEF IInv, WritesOK, Working, T
<1>8. OneExecution'
  BY <1>2 DEF IInv, OneExecution
<1>9. TreesOwned'
  <2>1. ASSUME NEW q \in Process, run'[q].pc \in Cleaning
        PROVE  /\ branch'[T(q)'] = run'[q].token
               /\ tree'[T(q)'] = IF run'[q].pc = "unbranch" THEN 0 ELSE run'[q].token
    <3>1. q # p /\ run'[q] = run[q]
      BY <2>1, <1>4 DEF Cleaning
    <3>2. T(q) # T(p) /\ T(q) \in Task
      BY <2>1, <3>1, <1>1, OneOwner, TaskOf DEF IInv, Cleaning
    <3> QED BY <2>1, <3>1, <3>2, <1>2, <1>3 DEF IInv, TreesOwned, T
  <2>2. ASSUME NEW t \in Task
        PROVE  /\ tree'[t] \in {0, branch'[t]}
               /\ branch'[t] # 0 => \/ \E q \in Process : InTree(q, t, branch[t])'
                                   \/ branch'[t] \in left'[t]
    <3>1. CASE t = T(p)
      BY <3>1, <1>1, <1>2, <1>3 DEF IInv, TreesOwned
    <3>2. CASE t # T(p)
      <4>1. ASSUME NEW q \in Process, InTree(q, t, branch[t])
            PROVE  InTree(q, t, branch[t])'
        BY <4>1, <3>2, <1>3, <1>4 DEF InTree, T
      <4> QED BY <3>2, <4>1, <1>2, <1>3 DEF IInv, TreesOwned
    <3> QED BY <3>1, <3>2
  <2> QED BY <2>1, <2>2 DEF TreesOwned
<1> QED BY <1>5, <1>6, <1>7, <1>8, <1>9 DEF IInv

(* A receipt is signed by a run that wrote. *)
LEMMA VerifyAndSignStep ==
    ASSUME IInv, NEW p \in Process, VerifyAndSign(p)
    PROVE  IInv'
<1>1. Working(run[p]) /\ run[p].pc = "verify" /\ run[p].pc \notin Cleaning
      /\ run[p].token \in Nat \ {0} /\ T(p) \in Task
  BY TokenOf DEF VerifyAndSign, At, Working, Cleaning
<1>2. /\ now' = now /\ consumed' = consumed /\ ordinal' = ordinal
      /\ token' = token /\ expires' = expires /\ state' = state /\ tree' = tree
      /\ branch' = branch /\ mutated' = mutated /\ left' = left /\ Stop(p)
  BY DEF VerifyAndSign, budget, leases, git
<1>3. \A t \in Task : receipts'[t] = IF t = T(p) THEN receipts[t] \cup {run[p].token}
                                     ELSE receipts[t]
  BY DEF VerifyAndSign, IInv, TypeOK
<1>4. TypeOK'
  BY <1>1, <1>2, StopFacts DEF VerifyAndSign, IInv, TypeOK
<1>5. BudgetHeld' /\ TokensOK'
  BY <1>1, <1>2, StopFacts, BudgetTokens DEF budget
<1>6. WritesOK'
  BY <1>2, StopFacts DEF IInv, WritesOK, Working, T
<1>7. OneExecution'
  <2>1. run[p].token \in mutated[T(p)]
    BY <1>1 DEF IInv, WritesOK
  <2> QED BY <2>1, <1>2, <1>3 DEF IInv, OneExecution
<1>8. TreesOwned'
  BY <1>1, <1>2, StopFacts, TreesStay DEF IInv, T, Cleaning, git
<1> QED BY <1>4, <1>5, <1>6, <1>7, <1>8 DEF IInv

-----------------------------------------------------------------------------
LEMMA NextIInv == IInv /\ [Next]_vars => IInv'
<1> SUFFICES ASSUME IInv, [Next]_vars PROVE IInv'
  OBVIOUS
<1>1. CASE UNCHANGED vars
  <2>1. now' = now /\ UNCHANGED <<budget, leases, git, run, history>>
    BY <1>1 DEF vars
  <2> QED BY <2>1, ClockStep DEF IInv, TypeOK
<1>2. CASE Tick
  <2>1. now' \in Nat
    BY <1>2 DEF Tick, IInv, TypeOK
  <2> QED BY <1>2, <2>1, ClockStep DEF Tick
<1>3. ASSUME NEW p \in Process,
             \/ \E t \in Task : Start(p, t)
             \/ Reserve(p) \/ Acquire(p) \/ CheckPath(p) \/ AddWorktree(p) \/ CheckWorktree(p)
             \/ InitializeState(p) \/ Mutate(p) \/ Commit(p)
             \/ Remove(p) \/ DeleteBranch(p) \/ VerifyAndSign(p) \/ Break(p)
      PROVE  IInv'
  BY <1>3, StartStep, ReserveStep, AcquireStep, CheckPathStep, AddWorktreeStep,
     CheckWorktreeStep, InitializeStep, MutateStep, CommitStep, RemoveStep,
     DeleteBranchStep, VerifyAndSignStep, BreakStep
<1> QED BY <1>1, <1>2, <1>3 DEF Next

LEMMA Invariant == Spec => []IInv
BY InitIInv, NextIInv, PTL DEF Spec

(* Type correctness, for any processes, tasks, budget and times.            *)
THEOREM TypeCorrect == Spec => []TypeOK
<1>1. IInv => TypeOK
  BY DEF IInv
<1> QED BY <1>1, Invariant, PTL

(* However many runs race, retry or die, no more than max_tasks tasks are     *)
(* consumed of the authority envelope, each counted once, and only they are  *)
(* ever written for.                                                        *)
THEOREM Budget == Spec => []BudgetHeld
<1>1. IInv => BudgetHeld
  BY DEF IInv
<1> QED BY <1>1, Invariant, PTL

(* A task is executed under one token at most, although a lease may expire   *)
(* under a run that is still at work.                                       *)
THEOREM ExecutedOnce == Spec => []OneExecution
<1>1. IInv => OneExecution
  BY DEF IInv
<1> QED BY <1>1, Invariant, PTL

(* No run's clean-up removes another's worktree, and what stands behind has  *)
(* a run that left it.                                                      *)
THEOREM OwnTrees == Spec => []TreesOwned
<1>1. IInv => TreesOwned
  BY DEF IInv
<1> QED BY <1>1, Invariant, PTL
=============================================================================
