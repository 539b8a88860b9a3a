------------------------------ MODULE Worker --------------------------------
(***************************************************************************)
(* runOnce after its claim: the steps of the worker goroutine that runs job *)
(* j, from its checkout to the release of what it held.                    *)
(***************************************************************************)
EXTENDS JobStore

Go(j, place) == at' = [at EXCEPT ![j] = place]

\* Mutant: a place that is not one of the worker's.
AfterRunSkipping(j) == "clean"

\* Mutant: the job is finished without its cleanup.
AfterRunKeeping(j) == "finish"

\* A command ended or never ran: a recorded-SHA job removes its worktree first.
AfterRun(j) == IF Sha(j) THEN "remove" ELSE "finish"

\* The run fails with a code of BitCI's own.
GiveUp(j, place) ==
    /\ Go(j, place)
    /\ out' = [out EXCEPT ![j] = Failed(FALSE)]

\* The config, the log file or the log header fails.
SetupFails(j) ==
    /\ at[j] = "claimed" /\ Event("setup")
    /\ GiveUp(j, "finish")
    /\ UNCHANGED <<rowVars, pinVars, treeVars, cmd, recVars, server, cliVars>>

SetupPlain(j) ==
    /\ at[j] = "claimed" /\ ~Sha(j)
    /\ Go(j, "start")
    /\ UNCHANGED <<rowVars, pinVars, treeVars, cmd, out, recVars, server, cliVars, events>>

\* jobCheckout: a directory already there is left alone and fails the job.
Collide(j) ==
    /\ at[j] = "claimed" /\ Sha(j) /\ WorktreeFree
    /\ worktree[j] # "absent"
    /\ GiveUp(j, "finish")
    /\ UNCHANGED <<rowVars, pinVars, treeVars, cmd, recVars, server, cliVars, events>>

\* Mutant: cleanup_pending is not set before the directory is made.
MarkNothing(j) == UNCHANGED cleanupPending

\* Otherwise cleanup_pending is set, whatever the job's state, ...
Mark(j) == cleanupPending' = [cleanupPending EXCEPT ![j] = TRUE]

BeginCheckout(j) ==
    /\ at[j] = "claimed" /\ Sha(j) /\ WorktreeFree
    /\ worktree[j] = "absent"
    /\ Mark(j)
    /\ Go(j, "mkdir")
    /\ UNCHANGED <<state, exitCode, workerPid, leases, pinVars, treeVars, cmd, out,
                   recVars, server, cliVars, events>>

\* ... the directory is made, ...
MakeDir(j) ==
    /\ at[j] = "mkdir"
    /\ worktree' = [worktree EXCEPT ![j] = "bare"]
    /\ Go(j, "own")
    /\ UNCHANGED <<rowVars, pinVars, groupFile, proc, cmd, out, recVars, server,
                   cliVars, events>>

\* ... the owner file is written, ...
WriteOwner(j) ==
    /\ at[j] = "own"
    /\ worktree' = [worktree EXCEPT ![j] = "owned"]
    /\ Go(j, "populate")
    /\ UNCHANGED <<rowVars, pinVars, groupFile, proc, cmd, out, recVars, server,
                   cliVars, events>>

\* ... and the recorded commit is checked out.
CheckOut(j) ==
    /\ at[j] = "populate" /\ worktree[j] = "owned"
    /\ Go(j, "start")
    /\ UNCHANGED <<rowVars, pinVars, treeVars, cmd, out, recVars, server, cliVars, events>>

\* A file operation or Git command fails; it always does once serve's context
\* is cancelled or a recovery removed the directory.
CheckoutFails(j) ==
    /\ at[j] \in {"mkdir", "own", "populate"}
    /\ \/ Event("checkout")
       \/ /\ at[j] = "populate" /\ UNCHANGED events
          /\ server = "stopping" \/ worktree[j] = "absent"
    /\ GiveUp(j, "remove")
    /\ UNCHANGED <<rowVars, pinVars, treeVars, cmd, recVars, server, cliVars>>

\* Writing the log after the checkout fails: the "worktree=" line finishes the
\* job with its cleanup pending, the "tested_sha=" line with nothing pending.
LogFails(j) ==
    /\ at[j] = "populate" /\ worktree[j] = "owned"
    /\ \E pending \in BOOLEAN :
          /\ Event(IF pending THEN "logWorktree" ELSE "logTested")
          /\ out' = [out EXCEPT ![j] = Failed(pending)]
    /\ Go(j, "finish")
    /\ UNCHANGED <<rowVars, pinVars, treeVars, cmd, recVars, server, cliVars>>

\* executeCommandWithRunEnvironment, for the prepare command and for the task.
Start(j) ==
    /\ at[j] = "start" /\ server # "stopping"
    /\ Sha(j) => worktree[j] = "owned"
    /\ proc' = [proc EXCEPT ![j] = "started"]
    /\ Go(j, IF Sha(j) THEN "record" ELSE "setpid")
    /\ UNCHANGED <<rowVars, pinVars, worktree, groupFile, cmd, out, recVars, server,
                   cliVars, events>>

\* The command is refused or cannot start; it never starts under a cancelled
\* context or in a directory that is gone.
StartFails(j) ==
    /\ at[j] = "start"
    /\ \/ Event("start")
       \/ /\ UNCHANGED events
          /\ server = "stopping" \/ (Sha(j) /\ worktree[j] # "owned")
    /\ GiveUp(j, AfterRun(j))
    /\ UNCHANGED <<rowVars, pinVars, treeVars, cmd, recVars, server, cliVars>>

\* The process group goes to bitci-process-group, if the directory is there.
RecordGroup(j) ==
    /\ at[j] = "record"
    /\ IF worktree[j] = "owned"
       THEN /\ groupFile' = groupFile \cup {j}
            /\ proc' = [proc EXCEPT ![j] = IF @ = "started" THEN "recorded" ELSE @]
       ELSE UNCHANGED <<groupFile, proc>>
    /\ Go(j, "setpid")
    /\ UNCHANGED <<rowVars, pinVars, worktree, cmd, out, recVars, server, cliVars, events>>

\* worker_pid is recorded for a running job only; a job recovered meanwhile has
\* its new process killed.
SetPid(j) ==
    /\ at[j] = "setpid"
    /\ IF state[j] = "running"
       THEN /\ workerPid' = [workerPid EXCEPT ![j] = cmd[j]]
            /\ Go(j, "wait")
            /\ UNCHANGED <<treeVars, out>>
       ELSE /\ proc' = [proc EXCEPT ![j] = "none"]
            /\ groupFile' = groupFile \ {j}
            /\ GiveUp(j, AfterRun(j))
            /\ UNCHANGED <<workerPid, worktree>>
    /\ UNCHANGED <<state, exitCode, cleanupPending, leases, pinVars, cmd, recVars,
                   server, cliVars, events>>

\* The file or the UPDATE fails: the process is killed.
RecordFails(j) ==
    /\ at[j] \in {"record", "setpid"} /\ Event("record")
    /\ proc' = [proc EXCEPT ![j] = "none"]
    /\ groupFile' = groupFile \ {j}
    /\ GiveUp(j, AfterRun(j))
    /\ UNCHANGED <<rowVars, pinVars, worktree, cmd, recVars, server, cliVars>>

\* The process group ends, on its own, at its timeout or killed by serve.
ProcExit(j) ==
    /\ proc[j] # "none"
    /\ proc' = [proc EXCEPT ![j] = "none"]
    /\ UNCHANGED <<rowVars, pinVars, worktree, groupFile, workVars, recVars, server,
                   cliVars, events>>

\* The command was waited for; the record of its group goes.
Reap(j) ==
    /\ at[j] = "wait" /\ proc[j] = "none"
    /\ groupFile' = groupFile \ {j}
    /\ Go(j, "clear")
    /\ UNCHANGED <<rowVars, pinVars, worktree, proc, cmd, out, recVars, server,
                   cliVars, events>>

\* worker_pid is cleared; verifyJobWorktree has its say on a success.
ClearPid(j) ==
    /\ at[j] = "clear"
    /\ workerPid' = [workerPid EXCEPT ![j] = IF @ = cmd[j] THEN "none" ELSE @]
    /\ \/ /\ Sha(j) => worktree[j] = "owned"
          /\ Go(j, IF cmd[j] = "prepare" THEN "start" ELSE AfterRun(j))
          /\ cmd' = [cmd EXCEPT ![j] = "task"]
          /\ UNCHANGED out
       \/ /\ GiveUp(j, AfterRun(j))
          /\ UNCHANGED cmd
    /\ UNCHANGED <<state, exitCode, cleanupPending, leases, pinVars, treeVars, recVars,
                   server, cliVars, events>>

\* cleanup: removeJobWorktree, which removes nothing it cannot verify.
Remove(j) ==
    /\ at[j] = "remove" /\ WorktreeFree
    /\ worktree[j] \in {"absent", "owned"}
    /\ worktree' = [worktree EXCEPT ![j] = "absent"]
    /\ groupFile' = groupFile \ {j}
    /\ Go(j, "finish")
    /\ UNCHANGED <<rowVars, pinVars, proc, cmd, out, recVars, server, cliVars, events>>

\* A removal that fails leaves the cleanup pending and spoils a success.
RemoveFails(j) ==
    /\ at[j] = "remove" /\ WorktreeFree
    /\ \/ worktree[j] = "owned" /\ Event("remove")
       \/ worktree[j] = "bare" /\ UNCHANGED events
    /\ out' = [out EXCEPT ![j].pending = TRUE,
                          ![j].code = IF @ = "0" THEN "125" ELSE @]
    /\ Go(j, "finish")
    /\ UNCHANGED <<rowVars, pinVars, treeVars, cmd, recVars, server, cliVars>>

\* finish accepts a job that is no longer running only when a recovery failed it.
Recovered(j) == state[j] = "failed" /\ exitCode[j] = "125" /\ workerPid[j] = "none"

Finish(j) ==
    /\ at[j] = "finish"
    /\ IF state[j] \in {"queued", "running"}
       THEN /\ state' = [state EXCEPT ![j] = IF out[j].code = "0" THEN "passed" ELSE "failed"]
            /\ exitCode' = [exitCode EXCEPT ![j] = out[j].code]
            /\ cleanupPending' = [cleanupPending EXCEPT ![j] = out[j].pending]
            /\ workerPid' = [workerPid EXCEPT ![j] = "none"]
            /\ Go(j, "leases")
            /\ UNCHANGED server
       ELSE /\ Go(j, "idle")
            /\ IF Recovered(j) THEN UNCHANGED server ELSE Report
            /\ UNCHANGED <<state, exitCode, cleanupPending, workerPid>>
    /\ UNCHANGED <<leases, pinVars, treeVars, cmd, out, recVars, cliVars, events>>

\* The UPDATE itself fails: the job stays running and serve hears of it.
FinishFails(j) ==
    /\ at[j] = "finish" /\ Event("finish")
    /\ Go(j, "idle")
    /\ Report
    /\ UNCHANGED <<rowVars, pinVars, treeVars, cmd, out, recVars, cliVars>>

\* The verdict is committed; the leases are a statement of their own.
ReleaseLeases(j) ==
    /\ at[j] = "leases"
    /\ leases' = {l \in leases : l[2] # j}
    /\ Go(j, "unpin")
    /\ UNCHANGED <<state, exitCode, workerPid, cleanupPending, pinVars, treeVars, cmd,
                   out, recVars, server, cliVars, events>>

\* The DELETE fails: the remaining steps run, then the joined error is returned.
ReleaseLeasesFails(j) ==
    /\ at[j] = "leases" /\ StageFree /\ Event("lease")
    /\ Release(state, cleanupPending, {BatchOf[j]})
    /\ Go(j, "idle")
    /\ Report
    /\ UNCHANGED <<rowVars, treeVars, cmd, out, recVars, cliVars>>

\* The release, or the log line and the pruning before it, fails and is reported.
UnpinFails(j) ==
    /\ at[j] = "unpin" /\ Event("unpin")
    /\ \/ UNCHANGED pinVars
       \/ StageFree /\ Release(state, cleanupPending, {BatchOf[j]})
    /\ Go(j, "idle")
    /\ Report
    /\ UNCHANGED <<rowVars, treeVars, cmd, out, recVars, cliVars>>

\* releaseBatchRef, then the worker is idle and the job no longer active.
Unpin(j) ==
    /\ at[j] = "unpin" /\ StageFree
    /\ Release(state, cleanupPending, {BatchOf[j]})
    /\ Go(j, "idle")
    /\ UNCHANGED <<rowVars, treeVars, cmd, out, recVars, server, cliVars, events>>
=============================================================================
