----------------------------- MODULE JobStore -------------------------------
(***************************************************************************)
(* The state BitCI keeps about jobs, shared by the modules Clients, Claims, *)
(* Worker and Recovery: the jobs, leases and batch_refs tables, the private *)
(* Git refs, the job worktrees and the task processes, and what serve and  *)
(* its clients hold in memory (internal/bitci/controller.go).              *)
(*                                                                         *)
(* One statement or transaction, one Git command, one file operation or one *)
(* process start is a step of its own, so that a crash, another worker or a *)
(* client can come between any two of them.  Every optional event of the   *)
(* environment (a crash, an operator's command, a failing call) is named in *)
(* Events and counted by events, up to MaxEvents.                          *)
(*                                                                         *)
(* A definition commented "Mutant" is a faulty variant of the one after it; *)
(* it is used by no specification and shows what a property would catch.   *)
(***************************************************************************)
EXTENDS Integers, FiniteSets, Sequences

CONSTANTS
    Jobs,         \* row ids of the jobs table
    Batches,      \* batch names
    ShaBatches,   \* the batches submitted with a recorded commit SHA
    Resources,    \* resource names
    BatchOf,      \* Jobs -> Batches
    Needs,        \* Jobs -> Seq(Jobs): the rows of the task's needs, in order
    Uses,         \* Jobs -> SUBSET Resources: the task's resources
    Limit,        \* Jobs -> [Resources -> Nat]: limits of the job's config_json
    Undecodable,  \* jobs whose config_json snapshot no longer validates
    Prepared,     \* jobs whose config has a prepare command
    Foreign,      \* jobs whose worktree directory is there already, not theirs
    MaxWorkers,   \* --max-workers
    Events,       \* the kinds of environment events that may occur
    MaxEvents     \* how many may occur

ASSUME JobsAssumption ==
    /\ Jobs \subseteq Nat \ {0}
    /\ IsFiniteSet(Jobs)
    /\ ShaBatches \subseteq Batches
    /\ BatchOf \in [Jobs -> Batches]
    /\ Undecodable \subseteq Jobs
    /\ Prepared \subseteq Jobs
    /\ Foreign \subseteq Jobs

\* submit: "submit requires at least one task".
ASSUME BatchesAssumption == \A b \in Batches : \E j \in Jobs : BatchOf[j] = b

\* Config.Validate: needs are known and acyclic, and Ordered inserts a task
\* after its needs, in the same batch.
ASSUME NeedsAssumption ==
    /\ Needs \in [Jobs -> Seq(Jobs)]
    /\ \A j \in Jobs : \A i \in DOMAIN Needs[j] :
          /\ Needs[j][i] < j
          /\ BatchOf[Needs[j][i]] = BatchOf[j]

\* Config.Validate: a task's resources have positive limits.
ASSUME LimitAssumption ==
    /\ Uses \in [Jobs -> SUBSET Resources]
    /\ Limit \in [Jobs -> [Resources -> Nat \ {0}]]
    /\ MaxWorkers \in Nat \ {0}
    /\ MaxEvents \in Nat

VARIABLES
    \* the database
    state, exitCode, workerPid, cleanupPending,   \* columns of jobs
    leases,         \* leases(resource, job_id)
    batchRows,      \* batches with a batch_refs row
    \* the source repository, the state directory and the operating system
    refs,           \* batches with a refs/bitci/jobs/<batch> ref
    worktree,       \* stateDir/worktrees/job-N
    groupFile,      \* jobs whose worktree holds bitci-process-group
    proc,           \* the command's process group
    \* the memory of serve
    server,         \* what serve is doing
    at, cmd, out,   \* its worker goroutines, by the job each one runs
    recovery, seen, \* recoveries in progress, and the worker_pid each one read
    \* clients
    submitting,     \* the batch being submitted, under the stage lock
    releasing,      \* batches a cancel has yet to unpin
    events          \* environment events so far

rowVars  == <<state, exitCode, workerPid, cleanupPending, leases>>
pinVars  == <<batchRows, refs>>
treeVars == <<worktree, groupFile, proc>>
workVars == <<at, cmd, out>>
recVars  == <<recovery, seen>>
cliVars  == <<submitting, releasing>>
vars == <<rowVars, pinVars, treeVars, workVars, recVars, server, cliVars, events>>

-----------------------------------------------------------------------------
Terminal  == {"passed", "failed", "cancelled"}
States    == {"absent", "queued", "running"} \cup Terminal
Codes     == {"0", "125", "other"}
Commands  == {"prepare", "task"}
Actors    == {"boot", "tick", "client"}
Trees     == {"absent", "foreign", "bare", "owned"}
Procs     == {"none", "started", "recorded"}
Places    == {"idle", "claimed", "mkdir", "own", "populate", "start", "record",
              "setpid", "wait", "clear", "remove", "finish", "leases", "unpin"}
Tails     == {"idle", "commit", "kill", "remove", "unmark", "unpin", "sweep"}
Servers   == {"down", "pins", "tx", "tails", "aborted", "up", "failing", "stopping"}

Success == [code |-> "0", pending |-> FALSE]
Failed(pending) == [code |-> "other", pending |-> pending]

Sha(j)      == BatchOf[j] \in ShaBatches
JobsOf(b)   == {j \in Jobs : BatchOf[j] = b}
InState(s)  == {j \in Jobs : state[j] = s}
Holders(r)  == {j \in Jobs : <<r, j>> \in leases}
Busy        == {j \in Jobs : at[j] # "idle"}

\* The main loop has not reacted to an error it was sent: workers still claim.
Serving == server \in {"up", "failing"}

\* The stage gate and bitci-stage.lock: only a submit holds them over several
\* steps of this model.
StageFree == submitting = {}

\* Mutant: a worker keeps the mutex until its own removal.
WorktreeHeld == \A j \in Jobs : at[j] \notin {"mkdir", "own", "populate", "remove"}

\* worktreeMu, which one serve process shares between workers and recoveries:
\* a checkout holds it from its first to its last step.
WorktreeFree == \A j \in Jobs : at[j] \notin {"mkdir", "own", "populate"}

Event(kind) == kind \in Events /\ events < MaxEvents /\ events' = events + 1

\* A joined or direct error in a worker or in serveRecovery reaches Serve.
Report == server' = IF server = "up" THEN "failing" ELSE server

\* Mutant: a pending cleanup does not count.
ProtectedByState(st, pending, b) ==
    \E j \in JobsOf(b) : st[j] \in {"queued", "running"}

\* Mutant: a queued job does not count.
ProtectedByRunning(st, pending, b) ==
    \E j \in JobsOf(b) : st[j] = "running" \/ pending[j]

\* releaseBatchRefUnlocked and releaseFinishedBatchRefsUnlocked: a batch keeps
\* its ref while it has queued, running or cleanup-pending rows ...
Protected(st, pending, b) ==
    \E j \in JobsOf(b) : st[j] \in {"queued", "running"} \/ pending[j]

\* ... and a batch without a ref, or without rows, keeps its batch_refs row.
Releasable(st, pending, bs) ==
    {b \in bs \cap refs : /\ ~Protected(st, pending, b)
                          /\ \E j \in JobsOf(b) : st[j] # "absent"}

Release(st, pending, bs) ==
    /\ refs' = refs \ Releasable(st, pending, bs)
    /\ batchRows' = batchRows \ Releasable(st, pending, bs)

Init ==
    /\ state = [j \in Jobs |-> "absent"]
    /\ exitCode = [j \in Jobs |-> "null"]
    /\ workerPid = [j \in Jobs |-> "none"]
    /\ cleanupPending = [j \in Jobs |-> FALSE]
    /\ leases = {}
    /\ batchRows = {} /\ refs = {}
    /\ worktree = [j \in Jobs |-> IF j \in Foreign THEN "foreign" ELSE "absent"]
    /\ groupFile = {}
    /\ proc = [j \in Jobs |-> "none"]
    /\ server = "down"
    /\ at = [j \in Jobs |-> "idle"]
    /\ cmd = [j \in Jobs |-> "task"]
    /\ out = [j \in Jobs |-> Success]
    /\ recovery = [a \in Actors |-> [j \in Jobs |-> "idle"]]
    /\ seen = [a \in Actors |-> [j \in Jobs |-> "none"]]
    /\ submitting = {} /\ releasing = {}
    /\ events = 0
=============================================================================
