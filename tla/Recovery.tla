----------------------------- MODULE Recovery -------------------------------
(***************************************************************************)
(* The three recoveries and the process that runs two of them: "tick" is   *)
(* RecoverOrphaned on serve's ticker, "client" is RecoverJob for bitci     *)
(* recover, "boot" is RecoverInterrupted when serve starts; serve's owner  *)
(* lock, its shutdown and its crash.                                       *)
(***************************************************************************)
EXTENDS JobStore

Pass(a, j, place) == recovery' = [recovery EXCEPT ![a][j] = place]

\* The recorded process group is gone, or none is recorded; the grace period
\* of orphanGraceExpired is taken to be over.
LooksOrphaned(j) ==
    state[j] = "running" /\ (workerPid[j] = "none" \/ proc[j] = "none")

\* Mutant: RecoverOrphaned does not look at serve's own workers.
SparesNone(a, j) == TRUE

\* RecoverOrphaned skips the jobs of serve's own workers, RecoverJob does not.
Spares(a, j) == a = "tick" => at[j] = "idle"

\* The job is read; what was read is used in the next step.
FindOrphan(a, j) ==
    /\ recovery[a][j] = "idle" /\ LooksOrphaned(j)
    /\ Spares(a, j)
    /\ \/ a = "tick" /\ server \in {"up", "failing", "stopping"} /\ UNCHANGED events
       \/ a = "client" /\ Event("recover")
    /\ Pass(a, j, "commit")
    /\ seen' = [seen EXCEPT ![a][j] = workerPid[j]]
    /\ UNCHANGED <<rowVars, pinVars, treeVars, workVars, server, cliVars>>

\* Mutant: the batch is not looked at.
CancelQueuedAll(bs) ==
    [j \in Jobs |-> IF state[j] = "queued" /\ bs # {} THEN "cancelled" ELSE state[j]]

\* What a recovered batch's queued rows become.
CancelQueued(bs) ==
    [j \in Jobs |-> IF state[j] = "queued" /\ BatchOf[j] \in bs THEN "cancelled" ELSE state[j]]

\* The UPDATE of recoverJobs is for the job as it was read.
AsRead(a, j) == state[j] = "running" /\ workerPid[j] = seen[a][j]

\* The transaction of recoverJobs, or nothing when the job has changed.
CommitRecovery(a, j) ==
    /\ recovery[a][j] = "commit"
    /\ IF AsRead(a, j)
       THEN /\ state' = [CancelQueued({BatchOf[j]}) EXCEPT ![j] = "failed"]
            /\ exitCode' = [exitCode EXCEPT ![j] = "125"]
            /\ workerPid' = [workerPid EXCEPT ![j] = "none"]
            /\ cleanupPending' = [cleanupPending EXCEPT ![j] = Sha(j)]
            /\ leases' = {l \in leases : l[2] # j}
            /\ Pass(a, j, IF Sha(j) THEN "kill" ELSE "sweep")
       ELSE Pass(a, j, "idle") /\ UNCHANGED rowVars
    /\ seen' = [seen EXCEPT ![a][j] = "none"]
    /\ UNCHANGED <<pinVars, treeVars, workVars, server, cliVars, events>>

\* Mutant: the group is left alone.
KilledNone(j) == proc

\* terminateJobProcessGroup: kill the recorded group, wait, remove the record.
Killed(j) == [proc EXCEPT ![j] = IF j \in groupFile THEN "none" ELSE @]

KillGroup(a, j) ==
    /\ recovery[a][j] = "kill"
    /\ proc' = Killed(j)
    /\ groupFile' = groupFile \ {j}
    /\ Pass(a, j, "remove")
    /\ UNCHANGED <<rowVars, pinVars, worktree, workVars, seen, server, cliVars, events>>

\* A client process has a worktreeMu of its own.
RemoveTree(a, j) ==
    /\ recovery[a][j] = "remove"
    /\ a = "client" \/ WorktreeFree
    /\ worktree[j] \in {"absent", "owned"}
    /\ worktree' = [worktree EXCEPT ![j] = "absent"]
    /\ groupFile' = groupFile \ {j}
    /\ Pass(a, j, "unmark")
    /\ UNCHANGED <<rowVars, pinVars, proc, workVars, seen, server, cliVars, events>>

\* The worktree is gone: cleanup_pending is cleared.
ClearPending(a, j) ==
    /\ recovery[a][j] = "unmark"
    /\ cleanupPending' = [cleanupPending EXCEPT ![j] = FALSE]
    /\ Pass(a, j, IF a = "boot" THEN "unpin" ELSE "sweep")
    /\ UNCHANGED <<state, exitCode, workerPid, leases, pinVars, treeVars, workVars,
                   seen, server, cliVars, events>>

\* At startup each job's batch is unpinned in turn ...
ReleaseRecovered(a, j) ==
    /\ recovery[a][j] = "unpin" /\ StageFree
    /\ Release(state, cleanupPending, {BatchOf[j]})
    /\ Pass(a, j, "idle")
    /\ UNCHANGED <<rowVars, treeVars, workVars, seen, server, cliVars, events>>

\* A cleanup fails: the group does not end or may not be killed, the worktree is
\* not removed (never without its owner file), the UPDATE or the release fails.
\* At startup serve then ends, in the ticker the error is reported.
CleanupFails(a, j) ==
    /\ \/ recovery[a][j] = "kill" /\ Event("kill") /\ proc' \in {proc, Killed(j)}
       \/ recovery[a][j] \in {"unmark", "unpin"} /\ Event("tail") /\ UNCHANGED proc
       \/ /\ recovery[a][j] = "remove" /\ UNCHANGED proc
          /\ a = "client" \/ WorktreeFree
          /\ \/ worktree[j] = "owned" /\ Event("remove")
             \/ worktree[j] \in {"bare", "foreign"} /\ UNCHANGED events
    /\ Pass(a, j, IF a = "boot" THEN "idle" ELSE "sweep")
    /\ \/ a = "boot" /\ server' = "aborted"
       \/ a = "tick" /\ Report
       \/ a = "client" /\ UNCHANGED server
    /\ UNCHANGED <<rowVars, pinVars, worktree, groupFile, workVars, seen, cliVars>>

\* ... and recoverJobs ends with releaseFinishedBatchRefs.
SweepRecovered(a, j) ==
    /\ recovery[a][j] = "sweep" /\ StageFree
    /\ Release(state, cleanupPending, Batches)
    /\ Pass(a, j, "idle")
    /\ UNCHANGED <<rowVars, treeVars, workVars, seen, server, cliVars, events>>

\* The process of bitci recover is killed.
RecoverDies(j) ==
    /\ recovery["client"][j] # "idle" /\ Event("client")
    /\ Pass("client", j, "idle")
    /\ seen' = [seen EXCEPT !["client"][j] = "none"]
    /\ UNCHANGED <<rowVars, pinVars, treeVars, workVars, server, cliVars>>

-----------------------------------------------------------------------------
(* serve itself. *)

\* The owner lock is taken: the lock of a dead process is free again.
Serve ==
    /\ server = "down"
    /\ server' = "pins"
    /\ UNCHANGED <<rowVars, pinVars, treeVars, workVars, recVars, cliVars, events>>

\* cleanupOrphanBatchRefs: rows of active batches get a missing ref back, the
\* others go with their ref.
RestorePins ==
    /\ server = "pins" /\ StageFree
    /\ LET active == {b \in batchRows : Protected(state, cleanupPending, b)}
       IN /\ refs' = (refs \ batchRows) \cup active
          /\ batchRows' = active
    /\ server' = "tx"
    /\ UNCHANGED <<rowVars, treeVars, workVars, recVars, cliVars, events>>

\* Mutant: jobs with a pending cleanup fail again.
LostOrPending == {j \in Jobs : state[j] = "running" \/ cleanupPending[j]}

\* The jobs the last serve left running.
Lost == InState("running")

\* Running jobs fail, their leases go, their batches' queued jobs are cancelled;
\* recorded-SHA jobs that ran or have a pending cleanup get their tail.
RecoverInterrupted ==
    /\ server = "tx"
    /\ LET running == Lost
           interrupted == {j \in Jobs : Sha(j) /\ (j \in running \/ cleanupPending[j])}
       IN /\ state' = [j \in Jobs |-> IF j \in running THEN "failed"
                                      ELSE CancelQueued({BatchOf[k] : k \in running})[j]]
          /\ exitCode' = [j \in Jobs |-> IF j \in running THEN "125" ELSE exitCode[j]]
          /\ leases' = {l \in leases : l[2] \notin running}
          /\ cleanupPending' = [j \in Jobs |-> cleanupPending[j] \/ j \in interrupted]
          /\ recovery' = [recovery EXCEPT !["boot"] =
                             [j \in Jobs |-> IF j \in interrupted THEN "kill" ELSE "idle"]]
    /\ server' = "tails"
    /\ UNCHANGED <<workerPid, pinVars, treeVars, workVars, seen, cliVars, events>>

\* Mutant: serve starts although a cleanup failed.
StartedAnyway == "up"

\* Any failure in the tails ends serve.
Started == IF server = "tails" THEN "up" ELSE "down"

\* releaseFinishedBatchRefs, then serve is up or gives up.
Recovery ==
    /\ server \in {"tails", "aborted"} /\ StageFree
    /\ \A j \in Jobs : recovery["boot"][j] = "idle"
    /\ Release(state, cleanupPending, Batches)
    /\ server' = Started
    /\ UNCHANGED <<rowVars, treeVars, workVars, recVars, cliVars, events>>

\* The context ends, an error shows in no other variable (a claim, a read of the
\* ticker, the RPC server), or the main loop takes one: serve stops claiming.
Shutdown ==
    /\ \/ server = "up" /\ Event("stop")
       \/ server = "failing" /\ UNCHANGED events
    /\ server' = "stopping"
    /\ UNCHANGED <<rowVars, pinVars, treeVars, workVars, recVars, cliVars>>

\* workers.Wait returned; the ticker's goroutine is not waited for.
Exit ==
    /\ server = "stopping" /\ Busy = {}
    /\ server' = "down"
    /\ recovery' = [recovery EXCEPT !["tick"] = [j \in Jobs |-> "idle"]]
    /\ seen' = [seen EXCEPT !["tick"] = [j \in Jobs |-> "none"]]
    /\ UNCHANGED <<rowVars, pinVars, treeVars, workVars, cliVars, events>>

\* serve is killed: task processes, files, refs and the database stay.
Crash ==
    /\ server # "down" /\ Event("crash")
    /\ server' = "down"
    /\ at' = [j \in Jobs |-> "idle"]
    /\ cmd' = [j \in Jobs |-> "task"]
    /\ out' = [j \in Jobs |-> Success]
    /\ recovery' = [a \in Actors |-> IF a = "client" THEN recovery[a] ELSE [j \in Jobs |-> "idle"]]
    /\ seen' = [a \in Actors |-> IF a = "client" THEN seen[a] ELSE [j \in Jobs |-> "none"]]
    /\ UNCHANGED <<rowVars, pinVars, treeVars, cliVars>>
=============================================================================
