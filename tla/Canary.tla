------------------------------- MODULE Canary -------------------------------
(***************************************************************************)
(* run_controlled_canary over the stores it composes                        *)
(* (core/night_shift/canary.py with authority.py, leases.py, worktrees.py    *)
(* and contracts.py): a run reserves its task from the envelope's budget,    *)
(* takes the task's lease, creates a worktree on a branch of the task,       *)
(* initialises the task state, mutates and commits, removes worktree and     *)
(* branch, verifies that, and signs a receipt.                             *)
(*                                                                         *)
(* Every transaction and every git command is one action; between any two   *)
(* of them another run may do all of its own, a run may die, or git may     *)
(* fail.  A run knows only the now_epoch it was called with.  Its evidence   *)
(* is checked before the first of these steps and changes nothing; a run    *)
(* here is one that passed.                                                *)
(***************************************************************************)
EXTENDS Naturals, FiniteSets

CONSTANTS
    Process,
    Task,
    MaxTasks,   \* envelope.max_tasks
    Expiry,     \* envelope.expires_at_epoch
    Ttl,        \* lease_ttl_seconds
    MaxNow,     \* bound: the clock
    None

ASSUME BoundAssumption ==
    /\ MaxTasks \in Nat \ {0} /\ Expiry \in Nat /\ Ttl \in Nat \ {0} /\ MaxNow \in Nat
ASSUME TaskAssumption == IsFiniteSet(Task) /\ None \notin Task

VARIABLES
    now,
    consumed,  \* envelope_usage.consumed_tasks
    ordinal,   \* ordinal[t]: authority_reservations of the envelope; 0: no row
    token,     \* token[t]: the newest fencing token of t; 0: no lease yet
    expires,   \* expires[t]: leases.expires_at_epoch
    state,     \* state[t]: the token that initialised task_states; 0: no row
    tree,      \* tree[t]: the token whose run created the worktree; 0: no path
    branch,    \* branch[t]: likewise for night-shift/<t>
    run,       \* run[p]: the run p is in
    mutated,   \* mutated[t]: tokens under which the worktree was written (history)
    receipts,  \* receipts[t]: tokens under which a receipt was signed (history)
    left       \* left[t]: tokens whose run ended without its clean-up (history)

budget == <<consumed, ordinal>>
leases == <<token, expires, state>>
git == <<tree, branch>>
history == <<mutated, receipts, left>>
vars == <<now, budget, leases, git, run, history>>

Run == [pc : {"idle", "reserve", "acquire", "path", "add", "check", "initialize",
              "mutate", "commit", "remove", "unbranch", "verify"},
        task : Task \cup {None}, epoch : Nat, ordinal : Nat, token : Nat,
        receipt : BOOLEAN]

NoRun == [pc |-> "idle", task |-> None, epoch |-> 0, ordinal |-> 0, token |-> 0,
          receipt |-> FALSE]

TypeOK ==
    /\ now \in Nat
    /\ consumed \in 0..MaxTasks
    /\ ordinal \in [Task -> Nat]
    /\ token \in [Task -> Nat] /\ expires \in [Task -> Nat] /\ state \in [Task -> Nat]
    /\ tree \in [Task -> Nat] /\ branch \in [Task -> Nat]
    /\ run \in [Process -> Run]
    /\ \A p \in Process : run[p].pc # "idle" => run[p].task # None
    /\ mutated \in [Task -> SUBSET Nat] /\ receipts \in [Task -> SUBSET Nat]
    /\ left \in [Task -> SUBSET Nat]

Init ==
    /\ now = 0
    /\ consumed = 0
    /\ ordinal = [t \in Task |-> 0]
    /\ token = [t \in Task |-> 0]
    /\ expires = [t \in Task |-> 0]
    /\ state = [t \in Task |-> 0]
    /\ tree = [t \in Task |-> 0]
    /\ branch = [t \in Task |-> 0]
    /\ run = [p \in Process |-> NoRun]
    /\ mutated = [t \in Task |-> {}]
    /\ receipts = [t \in Task |-> {}]
    /\ left = [t \in Task |-> {}]

-----------------------------------------------------------------------------
At(p, pc) == run[p].pc = pc
T(p) == run[p].task
Goto(p, pc) == run' = [run EXCEPT ![p].pc = pc]

(* The run raises, or its process dies. *)
Stop(p) == run' = [run EXCEPT ![p] = NoRun]

(* Between worktree add and branch -D the run has something to clean up.    *)
Cleaning == {"check", "initialize", "mutate", "commit", "remove", "unbranch"}

Tick ==
    /\ now < MaxNow
    /\ now' = now + 1
    /\ UNCHANGED <<budget, leases, git, run, history>>

Start(p, t) ==
    /\ At(p, "idle")
    /\ run' = [run EXCEPT ![p] = [NoRun EXCEPT !.pc = "reserve", !.task = t, !.epoch = now]]
    /\ UNCHANGED <<now, budget, leases, git, history>>

(* Mutant of BudgetLeft: an off-by-one. *)
BudgetLeftOrSpent == consumed <= MaxTasks

BudgetLeft == consumed < MaxTasks

(* Mutant of Reserved: a task that reserved before reserves again.          *)
ReservedNever(t) == FALSE

Reserved(t) == ordinal[t] # 0

(* reserve_task is one transaction; authorize_task then only looks at the   *)
(* reservation, whose row never changes.                                    *)
Reserve(p) ==
    /\ At(p, "reserve")
    /\ \/ /\ run[p].epoch < Expiry
          /\ Reserved(T(p))
          /\ run' = [run EXCEPT ![p] = [@ EXCEPT !.pc = "acquire", !.ordinal = ordinal[T(p)]]]
          /\ UNCHANGED budget
       \/ /\ run[p].epoch < Expiry
          /\ ~Reserved(T(p)) /\ BudgetLeft
          /\ consumed' = consumed + 1
          /\ ordinal' = [ordinal EXCEPT ![T(p)] = consumed + 1]
          /\ run' = [run EXCEPT ![p] = [@ EXCEPT !.pc = "acquire", !.ordinal = consumed + 1]]
       \/ /\ run[p].epoch >= Expiry \/ (~Reserved(T(p)) /\ ~BudgetLeft)
          /\ Stop(p)
          /\ UNCHANGED budget
    /\ UNCHANGED <<now, leases, git, history>>

Acquire(p) ==
    /\ At(p, "acquire")
    /\ \/ /\ expires[T(p)] <= run[p].epoch
          /\ token' = [token EXCEPT ![T(p)] = @ + 1]
          /\ expires' = [expires EXCEPT ![T(p)] = run[p].epoch + Ttl]
          /\ run' = [run EXCEPT ![p] = [@ EXCEPT !.pc = "path", !.token = token[T(p)] + 1]]
       \/ /\ expires[T(p)] > run[p].epoch
          /\ Stop(p)
          /\ UNCHANGED <<token, expires>>
    /\ UNCHANGED <<now, budget, state, git, history>>

(* create refuses a path that exists.  It stands before the try: what it    *)
(* raises is not cleaned up.                                                *)
CheckPath(p) ==
    /\ At(p, "path")
    /\ IF tree[T(p)] = 0 THEN Goto(p, "add") ELSE Stop(p)
    /\ UNCHANGED <<now, budget, leases, git, history>>

(* Mutant of Addable: worktree add --force -B. *)
AddableByForce(t) == TRUE

(* git refuses a path or a branch that exists. *)
Addable(t) == tree[t] = 0 /\ branch[t] = 0

AddWorktree(p) ==
    /\ At(p, "add")
    /\ \/ /\ Addable(T(p))
          /\ tree' = [tree EXCEPT ![T(p)] = run[p].token]
          /\ branch' = [branch EXCEPT ![T(p)] = run[p].token]
          /\ Goto(p, "check")
       \/ /\ ~Addable(T(p))
          /\ Stop(p)
          /\ UNCHANGED git
    /\ UNCHANGED <<now, budget, leases, history>>

(* create compares the new HEAD: on a mismatch it removes the worktree, but  *)
(* not the branch.                                                          *)
CheckWorktree(p) ==
    /\ At(p, "check")
    /\ \/ /\ Goto(p, "initialize")
          /\ UNCHANGED <<git, left>>
       \/ /\ tree' = [tree EXCEPT ![T(p)] = 0]
          /\ left' = [left EXCEPT ![T(p)] = @ \cup {run[p].token}]
          /\ Stop(p)
          /\ UNCHANGED branch
    /\ UNCHANGED <<now, budget, leases, mutated, receipts>>

(* Mutant of Initializable: the row is replaced. *)
InitializableAgain(p) == run[p].token = token[T(p)]

Initializable(p) == run[p].token = token[T(p)] /\ state[T(p)] = 0

(* The lease's expiry is compared with the epoch it was taken at.           *)
InitializeState(p) ==
    /\ At(p, "initialize")
    /\ \/ /\ Initializable(p)
          /\ state' = [state EXCEPT ![T(p)] = run[p].token]
          /\ Goto(p, "mutate")
       \/ /\ ~Initializable(p)
          /\ Goto(p, "remove")
          /\ UNCHANGED state
    /\ UNCHANGED <<now, budget, token, expires, git, history>>

(* The writer may raise with the file half written. *)
Mutate(p) ==
    /\ At(p, "mutate")
    /\ mutated' = [mutated EXCEPT ![T(p)] = @ \cup {run[p].token}]
    /\ Goto(p, "commit") \/ Goto(p, "remove")
    /\ UNCHANGED <<now, budget, leases, git, receipts, left>>

(* The scope check, the commit and the receipt, or what one of them raises. *)
Commit(p) ==
    /\ At(p, "commit")
    /\ \E built \in BOOLEAN :
          run' = [run EXCEPT ![p] = [@ EXCEPT !.pc = "remove", !.receipt = built]]
    /\ UNCHANGED <<now, budget, leases, git, history>>

Remove(p) ==
    /\ At(p, "remove")
    /\ tree' = [tree EXCEPT ![T(p)] = 0]
    /\ Goto(p, "unbranch")
    /\ UNCHANGED <<now, budget, leases, branch, history>>

DeleteBranch(p) ==
    /\ At(p, "unbranch")
    /\ branch' = [branch EXCEPT ![T(p)] = 0]
    /\ IF run[p].receipt THEN Goto(p, "verify") ELSE Stop(p)
    /\ UNCHANGED <<now, budget, leases, tree, history>>

(* A new run of the task may already have its own worktree and branch.      *)
VerifyAndSign(p) ==
    /\ At(p, "verify")
    /\ tree[T(p)] = 0 /\ branch[T(p)] = 0
    /\ receipts' = [receipts EXCEPT ![T(p)] = @ \cup {run[p].token}]
    /\ Stop(p)
    /\ UNCHANGED <<now, budget, leases, git, mutated, left>>

(* The process dies, or a command fails that nothing cleans up after: at    *)
(* any step, the clean-up itself included.  The operator's HEAD may also    *)
(* have moved, which the verification takes for a failed rollback.          *)
Break(p) ==
    /\ ~At(p, "idle")
    /\ left' = IF run[p].pc \in Cleaning
               THEN [left EXCEPT ![T(p)] = @ \cup {run[p].token}] ELSE left
    /\ Stop(p)
    /\ UNCHANGED <<now, budget, leases, git, mutated, receipts>>

Next ==
    \/ Tick
    \/ \E p \in Process :
          \/ \E t \in Task : Start(p, t)
          \/ Reserve(p) \/ Acquire(p) \/ CheckPath(p) \/ AddWorktree(p) \/ CheckWorktree(p)
          \/ InitializeState(p) \/ Mutate(p) \/ Commit(p)
          \/ Remove(p) \/ DeleteBranch(p) \/ VerifyAndSign(p) \/ Break(p)

Spec == Init /\ [][Next]_vars
-----------------------------------------------------------------------------
(* At most max_tasks tasks of the envelope are ever worked on, and retries   *)
(* cost nothing: however often runs are retried, race or die, no more tasks  *)
(* are consumed than the envelope allows, as many as reserved, each under an *)
(* ordinal of its own; a run works under the ordinal of its task, and no     *)
(* worktree was written for a task that has none.                           *)
BudgetHeld ==
    /\ consumed <= MaxTasks
    /\ consumed = Cardinality({t \in Task : ordinal[t] # 0})
    /\ \A t \in Task : ordinal[t] <= consumed
    /\ \A t, u \in Task : t # u /\ ordinal[t] # 0 => ordinal[t] # ordinal[u]
    /\ \A p \in Process :
          run[p].pc \notin {"idle", "reserve"} =>
              run[p].ordinal # 0 /\ run[p].ordinal = ordinal[T(p)]
    /\ \A t \in Task : mutated[t] # {} => ordinal[t] # 0

(* A task is executed at most once, whatever becomes of leases: its worktree *)
(* is written under one token only, and a receipt is signed only for that    *)
(* token.  A run that dies in between has used the task up.                  *)
OneExecution ==
    \A t \in Task : receipts[t] \subseteq mutated[t] /\ mutated[t] \subseteq {state[t]} \ {0}

(* Whose worktree it is: a run that writes, commits, or removes by path has  *)
(* created what stands there, though an earlier run whose lease expired may  *)
(* still be at work on the same path; and what stands there belongs to a run *)
(* that will remove it or to one that ended without its clean-up.           *)
InTree(p, t, k) ==
    /\ T(p) = t /\ run[p].token = k
    /\ run[p].pc \in Cleaning

TreesOwned ==
    /\ \A p \in Process :
          run[p].pc \in Cleaning =>
              /\ branch[T(p)] = run[p].token
              /\ tree[T(p)] = IF run[p].pc = "unbranch" THEN 0 ELSE run[p].token
    /\ \A t \in Task :
          /\ tree[t] \in {0, branch[t]}
          /\ branch[t] # 0 => \/ \E p \in Process : InTree(p, t, branch[t])
                             \/ branch[t] \in left[t]
=============================================================================
