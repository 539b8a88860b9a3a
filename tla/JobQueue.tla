----------------------------- MODULE JobQueue -------------------------------
(***************************************************************************)
(* BitCI's queue: clients, workers and recoveries over one job store, what *)
(* is expected of them, and the abstract queue they implement.             *)
(***************************************************************************)
EXTENDS Clients, Claims, Worker, Recovery

ClientStep ==
    \/ \E b \in Batches : \/ SubmitPlain(b) \/ SubmitRow(b) \/ SubmitCommit(b)
                          \/ SubmitFails(b) \/ SubmitDies(b)
                          \/ CancelRelease(b) \/ CancelDies(b)
    \/ \E j \in Jobs : CancelContext(j) \/ RecoverDies(j)

WorkerStep(j) ==
    \/ SetupFails(j) \/ SetupPlain(j)
    \/ Collide(j) \/ BeginCheckout(j) \/ MakeDir(j) \/ WriteOwner(j)
    \/ CheckOut(j) \/ CheckoutFails(j) \/ LogFails(j)
    \/ Start(j) \/ StartFails(j) \/ RecordGroup(j) \/ RecordFails(j) \/ SetPid(j)
    \/ Reap(j) \/ ClearPid(j) \/ Remove(j) \/ RemoveFails(j)
    \/ Finish(j) \/ FinishFails(j)
    \/ ReleaseLeases(j) \/ ReleaseLeasesFails(j)
    \/ Unpin(j) \/ UnpinFails(j)

RecoveryStep(a, j) ==
    \/ FindOrphan(a, j) \/ CommitRecovery(a, j) \/ KillGroup(a, j)
    \/ RemoveTree(a, j) \/ CleanupFails(a, j) \/ ClearPending(a, j)
    \/ ReleaseRecovered(a, j) \/ SweepRecovered(a, j)

ServerStep == Serve \/ RestorePins \/ RecoverInterrupted \/ Recovery
              \/ Shutdown \/ Exit \/ Crash

Next ==
    \/ ClientStep
    \/ \E j \in Jobs : Claim(j) \/ WorkerStep(j) \/ ProcExit(j)
    \/ Sweep
    \/ \E a \in Actors, j \in Jobs : RecoveryStep(a, j)
    \/ ServerStep

Spec == Init /\ [][Next]_vars

\* Goroutines and started processes go on, a task ends (on its own or at its
\* timeout_seconds), and the service manager starts serve again after it exits.
\* What the environment may do, an Event, is never due.
ServerProgress ==
    Serve \/ RestorePins \/ RecoverInterrupted \/ Recovery \/ Shutdown \/ Exit

FairSpec ==
    /\ Spec
    /\ WF_vars(ServerProgress)
    /\ WF_vars(Sweep \/ \E j \in Jobs : Claim(j))
    /\ \A j \in Jobs : WF_vars(WorkerStep(j) \/ ProcExit(j))
    /\ \A a \in {"boot", "tick"} : WF_vars(\E j \in Jobs : RecoveryStep(a, j))
    /\ \A b \in Batches : WF_vars(SubmitCommit(b) \/ CancelRelease(b))

-----------------------------------------------------------------------------
\* The columns, tables, files and memory hold what the schema and the code allow.
TypeOK ==
    /\ state \in [Jobs -> States]
    /\ exitCode \in [Jobs -> Codes \cup {"null"}]
    /\ workerPid \in [Jobs -> Commands \cup {"none"}]
    /\ cleanupPending \in [Jobs -> BOOLEAN]
    /\ leases \subseteq Resources \X Jobs
    /\ batchRows \subseteq ShaBatches /\ refs \subseteq ShaBatches
    /\ worktree \in [Jobs -> Trees]
    /\ groupFile \subseteq Jobs
    /\ proc \in [Jobs -> Procs]
    /\ server \in Servers
    /\ at \in [Jobs -> Places]
    /\ cmd \in [Jobs -> Commands]
    /\ out \in [Jobs -> [code : Codes, pending : BOOLEAN]]
    /\ recovery \in [Actors -> [Jobs -> Tails]]
    /\ seen \in [Actors -> [Jobs -> Commands \cup {"none"}]]
    /\ submitting \subseteq ShaBatches /\ releasing \subseteq ShaBatches
    /\ events \in Nat

\* claimContext and ready: a resource is never leased beyond the limit in the
\* config snapshot of any of its holders.
LeasesWithinLimits ==
    \A l \in leases : Cardinality(Holders(l[1])) <= Limit[l[2]][l[1]]

\* claimContext, finish and the recoveries: a job runs, or passed, only after
\* all its needs passed, and runs only with all its leases.
RunningIsEntitled ==
    \A j \in Jobs :
        /\ state[j] \in {"running", "passed"} => Unmet(state, j) = {}
        /\ state[j] = "running" => Uses[j] \X {j} \subseteq leases

\* submit, releaseBatchRef and cleanupOrphanBatchRefs: the commit of a batch is
\* pinned while one of its jobs is unfinished or has a worktree to clean up.
NeededIsPinned ==
    \A j \in Jobs :
        Sha(j) /\ (state[j] \in {"queued", "running"} \/ cleanupPending[j])
            => BatchOf[j] \in refs

\* The same for unfinished jobs alone: it also holds while bitci recover fails a
\* job whose worker is alive and sets cleanup_pending again.
ActiveIsPinned ==
    \A j \in Jobs : Sha(j) /\ state[j] \in {"queued", "running"} => BatchOf[j] \in refs

\* jobCheckout and removeJobWorktree: a worktree on disk belongs to a worker at
\* work or is left, by cleanup_pending, to the next startup.
WorktreesTracked ==
    \A j \in Jobs : worktree[j] \in {"bare", "owned"} =>
        cleanupPending[j] \/ at[j] # "idle"

\* RecoverInterrupted: no task process that an earlier serve recorded is still
\* running when serve claims again.
NoRecordedOrphan ==
    Serving => \A j \in Jobs : proc[j] = "recorded" => at[j] # "idle"

\* finish: whatever recovered, cancelled or retired the job meanwhile, a worker
\* that comes to finish finds it running or recovered, and serve goes on.
FinishAccounts ==
    \A j \in Jobs : at[j] = "finish" => state[j] = "running" \/ Recovered(j)

\* finish, CancelContext and the recoveries write a row only in the state they
\* expect: a terminal job keeps its first verdict.
VerdictStands ==
    [][\A j \in Jobs : state[j] \in Terminal =>
          state'[j] = state[j] /\ exitCode'[j] = exitCode[j]]_vars

\* README: serve claims FIFO jobs when the limits allow them.  No claim
\* overtakes a queued job that could have been claimed.
ClaimsInOrder ==
    [][\A j \in Jobs : state[j] = "queued" /\ state'[j] = "running" =>
          \A k \in Jobs : k < j /\ state'[k] = "queued" => ~Claimable(state', k)]_vars

\* RecoverInterrupted: a startup that lets serve claim leaves no running job, no
\* worktree, and no ref that no queued job needs, whatever the crash left.
StartupIsClean ==
    [][server' = "up" /\ server \in {"tails", "aborted"} =>
          /\ \A j \in Jobs : /\ state'[j] # "running"
                             /\ ~cleanupPending'[j]
                             /\ worktree'[j] \in {"absent", "foreign"}
          /\ \A b \in refs' : \E j \in JobsOf(b) : state'[j] \in {"queued", "absent"}]_vars

\* RecoverOrphaned, which reads the running jobs before its transaction, never
\* fails one that a worker of this serve is at.
TickSparesActive ==
    [][\A j \in Jobs : recovery["tick"][j] = "commit" /\ recovery'["tick"][j] # "commit"
          /\ at[j] # "idle" => state'[j] = state[j]]_vars

\* config_test.go (terminal job retains leases): a serve that is up holds no
\* lease for a job that is over.
TerminalJobsHoldNoLease ==
    server = "up" => \A l \in leases : state[l[2]] = "running" \/ at[l[2]] # "idle"

\* README and the comment on RecoverOrphaned: a recovery, as it goes past its
\* cleanup of the job's processes, has killed none.
RecoveryNeverKills ==
    [][\A j \in Jobs, a \in {"tick", "client"} :
          recovery[a][j] = "kill" /\ recovery'[a][j] = "remove" => proc'[j] = proc[j]]_vars

\* The two states from which serve does not get going by itself: a lease whose
\* job is over (a crash between the statements of finish, or a DELETE that fails),
\* and a directory without its owner file (a crash or a failing write inside
\* jobCheckout), which ends every startup.
Jammed ==
    \/ \E l \in leases : state[l[2]] \in Terminal /\ at[l[2]] = "idle"
    \/ \E j \in Jobs : worktree[j] = "bare" /\ at[j] = "idle"

\* Every queued job is claimed and gets a verdict, is cancelled with its needs,
\* or the queue is jammed.
EveryJobEnds ==
    \A j \in Jobs : state[j] = "queued" ~> state[j] \in Terminal \/ Jammed

\* A running job gets a verdict, from its worker or from a recovery: nothing
\* that waits for the stage lock, worktreeMu or a process waits forever.
RunningEnds == \A j \in Jobs : state[j] = "running" ~> state[j] \in Terminal

\* README: each recorded SHA is kept reachable by a private ref until its batch
\* finishes; the ref of a finished batch goes.
FinishedIsUnpinned ==
    \A b \in ShaBatches :
       /\ \A j \in JobsOf(b) : state[j] \in Terminal /\ ~cleanupPending[j]
       ~> b \notin refs

-----------------------------------------------------------------------------
Queue == INSTANCE QueueSpec WITH status <- state, held <- leases

\* What submitters are promised, for the states and leases of the store.
QueueImplemented == Queue!Spec
=============================================================================
