--------------------------- MODULE RecoveryProofs ---------------------------
(***************************************************************************)
(* Proofs about workers and recoveries, which meet in the rows, worktrees, *)
(* processes and pins of JobQueue.                                         *)
(***************************************************************************)
EXTENDS JobQueueProofs

USE DEF rowVars, pinVars, treeVars, workVars, recVars, cliVars, vars

-----------------------------------------------------------------------------
(* What a step leaves of the jobs it is not about. *)

\* A serve that has workers.
Staffed == {"up", "failing", "stopping"}

\* From the claim of a job until its verdict.
Working == Places \ {"idle", "leases", "unpin"}

\* What jobCheckout made of a worktree and nobody removed.
Made == {"bare", "owned"}

\* A step that is not about k may retire its queued row, no more.
Still(k) ==
    /\ \/ state'[k] = state[k] /\ exitCode'[k] = exitCode[k]
       \/ state[k] \in {"absent", "queued"} /\ state'[k] \in {"queued", "failed", "cancelled"}
    /\ workerPid'[k] = workerPid[k] /\ cleanupPending'[k] = cleanupPending[k]
    /\ worktree'[k] = worktree[k] /\ (k \in groupFile' <=> k \in groupFile)
    /\ proc'[k] = proc[k]
    /\ at'[k] = at[k] /\ out'[k] = out[k]
    /\ \A a \in Actors : recovery'[a][k] = recovery[a][k]

\* What is reported ends serve, or its startup.
Onward ==
    \/ server' = server
    \/ server \in {"up", "failing"} /\ server' \in {"failing", "stopping"}
    \/ server \in {"tails", "aborted"} /\ server' = "aborted"

\* The steps of a worker are about its job.
LEMMA WorkerOthers ==
    ASSUME TypeOK, NEW j \in Jobs, WorkerStep(j), NEW k \in Jobs, k # j
    PROVE  Still(k) /\ Onward
  <1> USE DEF TypeOK, Still, Onward, GiveUp, Go
  <1>1. CASE SetupFails(j)
    BY <1>1 DEF SetupFails
  <1>2. CASE SetupPlain(j)
    BY <1>2 DEF SetupPlain
  <1>3. CASE Collide(j)
    BY <1>3 DEF Collide
  <1>4. CASE BeginCheckout(j)
    BY <1>4 DEF BeginCheckout, Mark
  <1>5. CASE MakeDir(j)
    BY <1>5 DEF MakeDir
  <1>6. CASE WriteOwner(j)
    BY <1>6 DEF WriteOwner
  <1>7. CASE CheckOut(j)
    BY <1>7 DEF CheckOut
  <1>8. CASE CheckoutFails(j)
    BY <1>8 DEF CheckoutFails
  <1>9. CASE LogFails(j)
    BY <1>9 DEF LogFails
  <1>10. CASE Start(j)
    BY <1>10 DEF Start
  <1>11. CASE StartFails(j)
    BY <1>11 DEF StartFails, AfterRun
  <1>12. CASE RecordGroup(j)
    BY <1>12 DEF RecordGroup
  <1>13. CASE RecordFails(j)
    BY <1>13 DEF RecordFails, AfterRun
  <1>14. CASE SetPid(j)
    BY <1>14 DEF SetPid, AfterRun
  <1>15. CASE Reap(j)
    BY <1>15 DEF Reap
  <1>16. CASE ClearPid(j)
    BY <1>16 DEF ClearPid, AfterRun
  <1>17. CASE Remove(j)
    BY <1>17 DEF Remove
  <1>18. CASE RemoveFails(j)
    BY <1>18 DEF RemoveFails
  <1>19. CASE Finish(j)
    BY <1>19 DEF Finish, Report
  <1>20. CASE FinishFails(j)
    BY <1>20 DEF FinishFails, Report
  <1>21. CASE ReleaseLeases(j)
    BY <1>21 DEF ReleaseLeases
  <1>22. CASE ReleaseLeasesFails(j)
    BY <1>22 DEF ReleaseLeasesFails, Report
  <1>23. CASE Unpin(j)
    BY <1>23 DEF Unpin
  <1>24. CASE UnpinFails(j)
    BY <1>24 DEF UnpinFails, Report
  <1>25. QED
    BY <1>1, <1>2, <1>3, <1>4, <1>5, <1>6, <1>7, <1>8, <1>9, <1>10, <1>11, <1>12, <1>13, <1>14, <1>15, <1>16, <1>17, <1>18, <1>19, <1>20, <1>21, <1>22, <1>23, <1>24 DEF WorkerStep

\* The steps of a recovery are about the job it recovers.
LEMMA RecoveryOthers ==
    ASSUME TypeOK, NEW a \in Actors, NEW j \in Jobs, RecoveryStep(a, j),
           recovery["boot"][j] # "idle" => server \in {"tails", "aborted"},
           NEW k \in Jobs, k # j
    PROVE  Still(k) /\ Onward
  <1> USE DEF TypeOK, Still, Onward, Pass
  <1>1. CASE FindOrphan(a, j)
    BY <1>1 DEF FindOrphan
  <1>2. CASE CommitRecovery(a, j)
    <2>1. /\ workerPid'[k] = workerPid[k] /\ cleanupPending'[k] = cleanupPending[k]
          /\ exitCode'[k] = exitCode[k]
          /\ \E place \in Tails : recovery' = [recovery EXCEPT ![a][j] = place]
      <3>1. CASE AsRead(a, j)
        BY <1>2, <3>1 DEF CommitRecovery, Tails
      <3>2. CASE ~AsRead(a, j)
        BY <1>2, <3>2 DEF CommitRecovery, Tails
      <3>3. QED
        BY <3>1, <3>2
    <2>2. \/ state'[k] = state[k]
          \/ state[k] = "queued" /\ state'[k] = "cancelled"
      BY <1>2 DEF CommitRecovery, CancelQueued
    <2>3. QED
      BY <1>2, <2>1, <2>2 DEF CommitRecovery
  <1>3. CASE KillGroup(a, j)
    BY <1>3 DEF KillGroup, Killed
  <1>4. CASE RemoveTree(a, j)
    BY <1>4 DEF RemoveTree
  <1>5. CASE CleanupFails(a, j)
    BY <1>5 DEF CleanupFails, Killed, Report
  <1>6. CASE ClearPending(a, j)
    BY <1>6 DEF ClearPending
  <1>7. CASE ReleaseRecovered(a, j)
    BY <1>7 DEF ReleaseRecovered
  <1>8. CASE SweepRecovered(a, j)
    BY <1>8 DEF SweepRecovered
  <1>9. QED
    BY <1>1, <1>2, <1>3, <1>4, <1>5, <1>6, <1>7, <1>8 DEF RecoveryStep

\* A claim is about the job it takes, and retires others.
LEMMA ClaimOthers ==
    ASSUME TypeOK, NEW j \in Jobs, Claim(j), NEW k \in Jobs, k # j
    PROVE  Still(k) /\ Onward
  <1>1. PICK dropped \in SUBSET InState("queued") :
           /\ state' = [Retire(dropped) EXCEPT ![j] = "running"]
           /\ exitCode' = RetireCodes(dropped)
    BY DEF Claim
  <1>2. \/ state'[k] = state[k] /\ exitCode'[k] = exitCode[k]
        \/ state[k] \in {"absent", "queued"} /\ state'[k] \in {"queued", "failed", "cancelled"}
    BY <1>1 DEF Retire, RetireCodes, InState, TypeOK
  <1>3. QED
    BY <1>2 DEF Claim, TypeOK, Still, Onward

\* Clients, a scan that claims nothing and the end of a task are about no job
\* that is worked on or recovered, but for the end of bitci recover.
LEMMA StillForClients ==
    ASSUME Order, NEW k \in Jobs,
           \/ \E b \in Batches : \/ SubmitPlain(b) \/ SubmitRow(b) \/ SubmitCommit(b)
                                 \/ SubmitFails(b) \/ SubmitDies(b)
                                 \/ CancelRelease(b) \/ CancelDies(b)
           \/ \E j \in Jobs : CancelContext(j)
           \/ Sweep
           \/ UNCHANGED vars
    PROVE  Still(k) /\ Onward
  <1> USE DEF Order, TypeOK, Still, Onward
  <1>1. ASSUME NEW b \in Batches, SubmitPlain(b)
        PROVE  Still(k) /\ Onward
    BY <1>1 DEF SubmitPlain, Enqueue, IdsFollow, JobsOf
  <1>2. ASSUME NEW b \in Batches, SubmitRow(b)
        PROVE  Still(k) /\ Onward
    BY <1>2 DEF SubmitRow
  <1>3. ASSUME NEW b \in Batches, SubmitCommit(b)
        PROVE  Still(k) /\ Onward
    BY <1>3 DEF SubmitCommit, Enqueue, SubmittedIsNew, JobsOf
  <1>4. ASSUME NEW b \in Batches,
               SubmitFails(b) \/ SubmitDies(b) \/ CancelRelease(b) \/ CancelDies(b)
        PROVE  Still(k) /\ Onward
    BY <1>4 DEF SubmitFails, SubmitDies, CancelRelease, CancelDies
  <1>5. ASSUME NEW j \in Jobs, CancelContext(j)
        PROVE  Still(k) /\ Onward
    BY <1>5 DEF CancelContext, Cancellable
  <1>6. CASE Sweep
    BY <1>6 DEF Sweep, Retire, RetireCodes, InState
  <1>7. CASE UNCHANGED vars
    BY <1>7
  <1>8. QED
    BY <1>1, <1>2, <1>3, <1>4, <1>5, <1>6, <1>7

-----------------------------------------------------------------------------
(* Workers are attended: what a worker finds when it comes to finish. *)

\* Only a serve that is up has workers, and only one that starts has recoveries
\* of its startup; its ticker fails no job of a worker; and a job is running or
\* recovered until its worker gives the verdict.
Attended(j) ==
    /\ at[j] # "idle" => server \in Staffed
    /\ recovery["boot"][j] # "idle" =>
          /\ server \in {"tails", "aborted"}
          /\ recovery["boot"][j] \in {"kill", "remove", "unmark", "unpin"}
    /\ recovery["tick"][j] = "commit" => at[j] = "idle" /\ state[j] \notin {"absent", "queued"}
    /\ at[j] \in Working => state[j] = "running" \/ Recovered(j)

Attendance == Order /\ \A j \in Jobs : Attended(j)

\* A step that is not about a job leaves it attended.
LEMMA StillAttended ==
    ASSUME TypeOK, NEW k \in Jobs, Attended(k), Still(k), Onward, WorkedIsClaimed
    PROVE  Attended(k)'
  BY DEF TypeOK, Attended, Still, Onward, Recovered, Staffed, Working, WorkedIsClaimed, Actors,
         Servers

\* Workers are at a place of their own, and do not recover.
LEMMA WorkerServes ==
    ASSUME NEW j \in Jobs, WorkerStep(j)
    PROVE  at[j] # "idle" /\ UNCHANGED recovery
  BY DEF WorkerStep, SetupFails, SetupPlain, Collide, BeginCheckout, MakeDir,
         WriteOwner, CheckOut, CheckoutFails, LogFails, Start, StartFails, RecordGroup,
         RecordFails, SetPid, Reap, ClearPid, Remove, RemoveFails, Finish, FinishFails,
         ReleaseLeases, ReleaseLeasesFails, Unpin, UnpinFails

\* The steps of a worker: it goes on until its verdict, and after it.
LEMMA WorkerAttends ==
    ASSUME TypeOK, NEW j \in Jobs, WorkerStep(j), Attended(j)
    PROVE  Attended(j)'
  <1>0. server \in Staffed
    BY WorkerServes DEF Attended
  <1> USE DEF TypeOK, Attended, GiveUp, Go, Recovered, Staffed, Working, Places
  <1>1. CASE SetupFails(j)
    BY <1>0, <1>1 DEF SetupFails
  <1>2. CASE SetupPlain(j)
    BY <1>0, <1>2 DEF SetupPlain
  <1>3. CASE Collide(j)
    BY <1>0, <1>3 DEF Collide
  <1>4. CASE BeginCheckout(j)
    BY <1>0, <1>4 DEF BeginCheckout, Mark
  <1>5. CASE MakeDir(j)
    BY <1>0, <1>5 DEF MakeDir
  <1>6. CASE WriteOwner(j)
    BY <1>0, <1>6 DEF WriteOwner
  <1>7. CASE CheckOut(j)
    BY <1>0, <1>7 DEF CheckOut
  <1>8. CASE CheckoutFails(j)
    BY <1>0, <1>8 DEF CheckoutFails
  <1>9. CASE LogFails(j)
    BY <1>0, <1>9 DEF LogFails
  <1>10. CASE Start(j)
    BY <1>0, <1>10 DEF Start
  <1>11. CASE StartFails(j)
    BY <1>0, <1>11 DEF StartFails, AfterRun
  <1>12. CASE RecordGroup(j)
    BY <1>0, <1>12 DEF RecordGroup
  <1>13. CASE RecordFails(j)
    BY <1>0, <1>13 DEF RecordFails, AfterRun
  <1>14. CASE SetPid(j)
    BY <1>0, <1>14 DEF SetPid, AfterRun
  <1>15. CASE Reap(j)
    BY <1>0, <1>15 DEF Reap
  <1>16. CASE ClearPid(j)
    BY <1>0, <1>16 DEF ClearPid, AfterRun
  <1>17. CASE Remove(j)
    BY <1>0, <1>17 DEF Remove
  <1>18. CASE RemoveFails(j)
    BY <1>0, <1>18 DEF RemoveFails
  <1>19. CASE Finish(j)
    BY <1>0, <1>19 DEF Finish, Report
  <1>20. CASE FinishFails(j)
    BY <1>0, <1>20 DEF FinishFails, Report
  <1>21. CASE ReleaseLeases(j)
    BY <1>0, <1>21 DEF ReleaseLeases
  <1>22. CASE ReleaseLeasesFails(j)
    BY <1>0, <1>22 DEF ReleaseLeasesFails, Report
  <1>23. CASE Unpin(j)
    BY <1>0, <1>23 DEF Unpin
  <1>24. CASE UnpinFails(j)
    BY <1>0, <1>24 DEF UnpinFails, Report
  <1>25. QED
    BY <1>1, <1>2, <1>3, <1>4, <1>5, <1>6, <1>7, <1>8, <1>9, <1>10, <1>11, <1>12, <1>13, <1>14, <1>15, <1>16, <1>17, <1>18, <1>19, <1>20, <1>21, <1>22, <1>23, <1>24 DEF WorkerStep

\* A recovery fails the job it read, or goes on with what is left of it.
LEMMA RecoveryAttends ==
    ASSUME TypeOK, NEW a \in Actors, NEW j \in Jobs, RecoveryStep(a, j), Attended(j)
    PROVE  Attended(j)'
  <1> USE DEF TypeOK, Attended, Pass, Recovered, Staffed, Working, Actors
  <1>1. CASE FindOrphan(a, j)
    BY <1>1 DEF FindOrphan, LooksOrphaned, Spares
  <1>2. CASE CommitRecovery(a, j)
    <2>1. CASE AsRead(a, j)
      <3>1. /\ state'[j] = "failed" /\ exitCode'[j] = "125" /\ workerPid'[j] = "none"
            /\ recovery' = [recovery EXCEPT ![a][j] = IF Sha(j) THEN "kill" ELSE "sweep"]
            /\ UNCHANGED <<at, server>>
        BY <1>2, <2>1 DEF CommitRecovery, CancelQueued
      <3>2. a # "boot"
        BY <1>2 DEF CommitRecovery
      <3>3. QED
        BY <3>1, <3>2
    <2>2. CASE ~AsRead(a, j)
      BY <1>2, <2>2 DEF CommitRecovery
    <2>3. QED
      BY <2>1, <2>2
  <1>3. CASE KillGroup(a, j)
    BY <1>3 DEF KillGroup
  <1>4. CASE RemoveTree(a, j)
    BY <1>4 DEF RemoveTree
  <1>5. CASE CleanupFails(a, j)
    BY <1>5 DEF CleanupFails, Report
  <1>6. CASE ClearPending(a, j)
    BY <1>6 DEF ClearPending
  <1>7. CASE ReleaseRecovered(a, j)
    BY <1>7 DEF ReleaseRecovered
  <1>8. CASE SweepRecovered(a, j)
    BY <1>8 DEF SweepRecovered
  <1>9. QED
    BY <1>1, <1>2, <1>3, <1>4, <1>5, <1>6, <1>7, <1>8 DEF RecoveryStep

\* A claim gives a job that no recovery has read to a worker of a serve that is up.
LEMMA ClaimAttends ==
    ASSUME Order, NEW j \in Jobs, Claim(j), Attended(j)
    PROVE  Attended(j)'
  <1>1. /\ state'[j] = "running" /\ state[j] = "queued"
        /\ at' = [at EXCEPT ![j] = "claimed"] /\ server \in {"up", "failing"}
        /\ UNCHANGED <<recovery, server>>
    BY ClaimMoves DEF Claim, WorkerIdle, Serving, InState
  <1>2. QED
    BY <1>1 DEF Order, TypeOK, Attended, Staffed, Working, Places

\* Serve starts without workers, starts recoveries only then, and when it ends
\* its workers have.
LEMMA ServerAttends ==
    ASSUME Attendance, ServerStep, NEW k \in Jobs
    PROVE  Attended(k)'
  <1> USE DEF Attendance, Order, TypeOK, Attended, Recovered, Staffed, Working, Actors, Places
  <1>1. CASE Serve
    BY <1>1 DEF Serve
  <1>2. CASE RestorePins
    BY <1>2 DEF RestorePins
  <1>3. CASE RecoverInterrupted
    <2>1. at[k] = "idle" /\ UNCHANGED at
      BY <1>3 DEF RecoverInterrupted
    <2>2. /\ recovery'["tick"] = recovery["tick"]
          /\ recovery'["boot"][k] \in {"kill", "idle"}
      BY <1>3 DEF RecoverInterrupted
    <2>3. state[k] \notin {"absent", "queued"} => state'[k] \notin {"absent", "queued"}
      BY <1>3 DEF RecoverInterrupted, Lost, InState, CancelQueued
    <2>4. server' = "tails"
      BY <1>3 DEF RecoverInterrupted
    <2>5. QED
      BY <2>1, <2>2, <2>3, <2>4
  <1>4. CASE Recovery
    BY <1>4 DEF Recovery, Started
  <1>5. CASE Shutdown
    BY <1>5 DEF Shutdown
  <1>6. CASE Exit
    BY <1>6 DEF Exit, Busy
  <1>7. CASE Crash
    BY <1>7 DEF Crash
  <1>8. QED
    BY <1>1, <1>2, <1>3, <1>4, <1>5, <1>6, <1>7 DEF ServerStep

\* Attendance is inductive.
LEMMA AttendanceStep ==
    ASSUME Attendance, [Next]_vars
    PROVE  Attendance'
  <1>1. Order'
    BY OrderStep DEF Attendance
  <1>2. SUFFICES ASSUME NEW k \in Jobs PROVE Attended(k)'
    BY <1>1 DEF Attendance
  <1> USE DEF Attendance, Order
  <1>3. ASSUME NEW j \in Jobs, RecoverDies(j)
        PROVE  Attended(k)'
    BY <1>3 DEF TypeOK, RecoverDies, Pass, Attended, Recovered, Actors
  <1>4. ASSUME NEW j \in Jobs, Claim(j) \/ WorkerStep(j)
        PROVE  Attended(k)'
    BY <1>4, ClaimAttends, ClaimOthers, WorkerAttends, WorkerOthers, StillAttended
  <1>5. ASSUME NEW j \in Jobs, ProcExit(j)
        PROVE  Attended(k)'
    BY <1>5 DEF ProcExit, Attended, Recovered
  <1>6. ASSUME NEW a \in Actors, NEW j \in Jobs, RecoveryStep(a, j)
        PROVE  Attended(k)'
    <2>1. recovery["boot"][j] # "idle" => server \in {"tails", "aborted"}
      BY DEF Attended
    <2>2. QED
      BY <1>6, <2>1, RecoveryAttends, RecoveryOthers, StillAttended
  <1>7. CASE ServerStep
    BY <1>7, ServerAttends
  <1>8. CASE Sweep \/ UNCHANGED vars
    BY <1>8, StillForClients, StillAttended
  <1>9. CASE ClientStep
    <2>1. CASE \E j \in Jobs : RecoverDies(j)
      BY <1>3, <2>1
    <2>2. CASE ~\E j \in Jobs : RecoverDies(j)
      BY <1>9, <2>2, StillForClients, StillAttended DEF ClientStep
    <2>3. QED
      BY <2>1, <2>2
  <1>10. QED
    BY <1>4, <1>5, <1>6, <1>7, <1>8, <1>9 DEF Next

\* Nobody is at work when the queue is empty.
LEMMA InitAttendance == Init => Attendance
  <1>1. Init => Order
    BY InitOrder
  <1>2. QED
    BY <1>1 DEF Init, Attendance, Attended, Working, Actors

\* Whatever recovers, cancels or crashes: a worker's job is running or was failed
\* by a recovery until the worker's verdict (finish and recoverJobs), and what
\* the ticker has read and not yet written has no worker (RecoverOrphaned).
THEOREM AttendanceKept == Spec => []Attendance
  <1>1. Init => Attendance
    BY InitAttendance
  <1>2. Attendance /\ [Next]_vars => Attendance'
    BY AttendanceStep
  <1>3. QED
    BY <1>1, <1>2, PTL DEF Spec

\* A worker that comes to finish finds its job running or recovered, so that
\* serve does not end over it: what bitci recover, the ticker, cancels and
\* retiring scans write meanwhile leaves no third state.
THEOREM FinishKept == Spec => []FinishAccounts
  <1>1. Attendance => FinishAccounts
    BY DEF Attendance, Attended, FinishAccounts, Working, Places
  <1>2. QED
    BY <1>1, AttendanceKept, PTL

\* The ticker reads the running jobs without workers, and writes later: no worker
\* has got one of them in between.
THEOREM TickSpares == Spec => TickSparesActive
  <1> DEFINE Spared == \A j \in Jobs :
                recovery["tick"][j] = "commit" /\ recovery'["tick"][j] # "commit"
                /\ at[j] # "idle" => state'[j] = state[j]
  <1>1. Attendance => [Spared]_vars
    BY DEF Attendance, Attended
  <1>2. QED
    BY <1>1, AttendanceKept, PTL DEF TickSparesActive

-----------------------------------------------------------------------------
(* What bitci recover spares: a job that a worker is at.  Then its worker and  *)
(* the recoveries, of which several may be at one job, touch it in turn.       *)

\* What TickSparesActive says of the ticker, of bitci recover.  The code does not
\* see to it: RecoverJob, unlike RecoverOrphaned, does not know serve's workers.
RecoverSpares ==
    \A j \in Jobs : recovery["client"][j] = "commit" /\ recovery'["client"][j] # "commit"
        /\ at[j] # "idle" => state'[j] = state[j]

\* A job has a worker or recoveries past their transaction, and while a worker is
\* at it, it is running.
Apart(j) ==
    /\ recovery["tick"][j] # "idle" => server \in Staffed
    /\ \A a \in Actors :
          /\ recovery[a][j] # "idle" => state[j] \notin {"absent", "queued"}
          /\ recovery[a][j] \notin {"idle", "commit"} => at[j] = "idle"
    /\ at[j] \in Working => state[j] = "running"

\* What has not been claimed has left nothing, and what has no recorded SHA never
\* gets a worktree.
Bare(j) ==
    /\ state[j] \in {"absent", "queued"} =>
          ~cleanupPending[j] /\ worktree[j] \notin Made /\ proc[j] = "none"
    /\ ~Sha(j) =>
          /\ ~cleanupPending[j] /\ worktree[j] \notin Made /\ ~out[j].pending
          /\ at[j] \notin {"mkdir", "own", "populate", "record", "remove"}

\* cleanup_pending is set before the directory is made, until the verdict.
Marked(j) ==
    /\ at[j] = "claimed" => worktree[j] \notin Made
    /\ Sha(j) /\ at[j] \in Working \ {"claimed", "finish"} => cleanupPending[j]

\* A recorded process group has its file and a cleanup that will end it; it has
\* ended when that cleanup goes on, and only a worker has one while serve is up.
Recorded(j) ==
    /\ proc[j] # "none" => at[j] \in {"record", "setpid", "wait", "idle"}
    /\ proc[j] = "recorded" =>
          /\ Sha(j) /\ j \in groupFile /\ cleanupPending[j]
          /\ server \in Staffed => at[j] # "idle"
    /\ \A a \in Actors :
          /\ recovery[a][j] \in {"remove", "unmark", "unpin"} => proc[j] # "recorded"
          /\ recovery[a][j] = "unmark" => worktree[j] \notin Made

\* A startup has failed what was running, and still has what is pending to do.
Starting(j) ==
    server = "tails" =>
       /\ state[j] # "running"
       /\ cleanupPending[j] => recovery["boot"][j] \in {"kill", "remove", "unmark"}

Guarded(j) == Apart(j) /\ Bare(j) /\ Marked(j) /\ Recorded(j) /\ Starting(j)

Guard == Attendance /\ \A j \in Jobs : Guarded(j)

\* A step that is not about a job leaves it guarded.
LEMMA StillGuarded ==
    ASSUME Order, NEW k \in Jobs, Guarded(k), Still(k), Onward
    PROVE  Guarded(k)'
  <1> USE DEF Order, TypeOK, Guarded, Still, Onward, Staffed, Working, WorkedIsClaimed, Sha
  <1>1. Apart(k)'
    BY DEF Apart, Actors
  <1>2. Bare(k)'
    BY DEF Bare
  <1>3. Marked(k)'
    BY DEF Marked
  <1>4. Recorded(k)'
    BY DEF Recorded
  <1>5. Starting(k)'
    BY DEF Starting, Actors
  <1>6. QED
    BY <1>1, <1>2, <1>3, <1>4, <1>5

\* A worker's steps keep its job guarded.
LEMMA WorkerGuards ==
    ASSUME Attendance, NEW j \in Jobs, WorkerStep(j), Guarded(j)
    PROVE  Guarded(j)'
  <1>0. /\ server \in Staffed /\ UNCHANGED recovery /\ at[j] # "idle"
        /\ \A a \in Actors : recovery[a][j] \in {"idle", "commit"}
    BY WorkerServes DEF Attendance, Attended, Guarded, Apart
  <1> USE DEF Attendance, Order, TypeOK, Guarded, Apart, Bare, Marked, Recorded, Starting,
              GiveUp, Go, Staffed, Working, Places, Made, Sha
  <1>1. CASE SetupFails(j)
    BY <1>0, <1>1 DEF SetupFails, Failed
  <1>2. CASE SetupPlain(j)
    BY <1>0, <1>2 DEF SetupPlain
  <1>3. CASE Collide(j)
    BY <1>0, <1>3 DEF Collide, Failed
  <1>4. CASE BeginCheckout(j)
    BY <1>0, <1>4 DEF BeginCheckout, Mark
  <1>5. CASE MakeDir(j)
    BY <1>0, <1>5 DEF MakeDir
  <1>6. CASE WriteOwner(j)
    BY <1>0, <1>6 DEF WriteOwner
  <1>7. CASE CheckOut(j)
    BY <1>0, <1>7 DEF CheckOut
  <1>8. CASE CheckoutFails(j)
    BY <1>0, <1>8 DEF CheckoutFails, Failed
  <1>9. CASE LogFails(j)
    BY <1>0, <1>9 DEF LogFails, Failed
  <1>10. CASE Start(j)
    BY <1>0, <1>10 DEF Start
  <1>11. CASE StartFails(j)
    BY <1>0, <1>11 DEF StartFails, AfterRun, Failed
  <1>12. CASE RecordGroup(j)
    BY <1>0, <1>12 DEF RecordGroup
  <1>13. CASE RecordFails(j)
    BY <1>0, <1>13 DEF RecordFails, AfterRun, Failed
  <1>14. CASE SetPid(j)
    BY <1>0, <1>14 DEF SetPid, AfterRun, Failed
  <1>15. CASE Reap(j)
    BY <1>0, <1>15 DEF Reap
  <1>16. CASE ClearPid(j)
    BY <1>0, <1>16 DEF ClearPid, AfterRun, Failed
  <1>17. CASE Remove(j)
    BY <1>0, <1>17 DEF Remove
  <1>18. CASE RemoveFails(j)
    BY <1>0, <1>18 DEF RemoveFails
  <1>19. CASE Finish(j)
    BY <1>0, <1>19 DEF Finish, Report
  <1>20. CASE FinishFails(j)
    BY <1>0, <1>20 DEF FinishFails, Report
  <1>21. CASE ReleaseLeases(j)
    BY <1>0, <1>21 DEF ReleaseLeases
  <1>22. CASE ReleaseLeasesFails(j)
    BY <1>0, <1>22 DEF ReleaseLeasesFails, Report
  <1>23. CASE Unpin(j)
    BY <1>0, <1>23 DEF Unpin
  <1>24. CASE UnpinFails(j)
    BY <1>0, <1>24 DEF UnpinFails, Report
  <1>25. QED
    BY <1>1, <1>2, <1>3, <1>4, <1>5, <1>6, <1>7, <1>8, <1>9, <1>10, <1>11, <1>12, <1>13, <1>14, <1>15, <1>16, <1>17, <1>18, <1>19, <1>20, <1>21, <1>22, <1>23, <1>24 DEF WorkerStep

\* A recovery's steps keep its job guarded.
LEMMA RecoveryGuards ==
    ASSUME RecoverSpares, Attendance, NEW a \in Actors, NEW j \in Jobs, RecoveryStep(a, j),
           Guarded(j)
    PROVE  Guarded(j)'
  <1> USE DEF Attendance, Order, TypeOK, Attended, Guarded, Apart, Bare, Marked, Recorded,
              Starting, Pass, Staffed, Working, Made, Actors
  <1>0. /\ a = "boot" => server \in {"tails", "aborted"}
        /\ a = "tick" => server \in {"up", "failing", "stopping"}
    BY DEF RecoveryStep, FindOrphan, CommitRecovery, KillGroup, RemoveTree,
           CleanupFails, ClearPending, ReleaseRecovered, SweepRecovered
  <1>1. CASE FindOrphan(a, j)
    BY <1>0, <1>1 DEF FindOrphan, LooksOrphaned, Spares
  <1>2. CASE CommitRecovery(a, j)
    <2>1. CASE AsRead(a, j)
      <3>1. /\ state'[j] = "failed" /\ cleanupPending' = [cleanupPending EXCEPT ![j] = Sha(j)]
            /\ recovery' = [recovery EXCEPT ![a][j] = IF Sha(j) THEN "kill" ELSE "sweep"]
            /\ UNCHANGED <<at, server, out, proc, groupFile, worktree>>
        BY <1>2, <2>1 DEF CommitRecovery, CancelQueued
      <3>2. a # "boot" /\ at[j] = "idle"
        BY <1>2, <2>1, <3>1 DEF CommitRecovery, AsRead, RecoverSpares
      <3>3. cleanupPending'[j] <=> Sha(j)
        BY <3>1
      <3>4. /\ recovery'[a][j] \in {"kill", "sweep"}
            /\ \A b \in Actors : b # a => recovery'[b][j] = recovery[b][j]
        BY <3>1
      <3>5. state[j] = "running"
        BY <2>1 DEF AsRead
      <3>6. QED
        BY <1>0, <3>1, <3>2, <3>3, <3>4, <3>5
    <2>2. CASE ~AsRead(a, j)
      BY <1>0, <1>2, <2>2 DEF CommitRecovery
    <2>3. QED
      BY <2>1, <2>2
  <1>3. CASE KillGroup(a, j)
    BY <1>0, <1>3 DEF KillGroup, Killed
  <1>4. CASE RemoveTree(a, j)
    BY <1>0, <1>4 DEF RemoveTree
  <1>5. CASE CleanupFails(a, j)
    BY <1>0, <1>5 DEF CleanupFails, Report, Killed
  <1>6. CASE ClearPending(a, j)
    BY <1>0, <1>6 DEF ClearPending
  <1>7. CASE ReleaseRecovered(a, j)
    BY <1>0, <1>7 DEF ReleaseRecovered
  <1>8. CASE SweepRecovered(a, j)
    BY <1>0, <1>8 DEF SweepRecovered
  <1>9. QED
    BY <1>1, <1>2, <1>3, <1>4, <1>5, <1>6, <1>7, <1>8 DEF RecoveryStep

\* A claimed job is new to workers and recoveries.
LEMMA ClaimGuards ==
    ASSUME Attendance, NEW j \in Jobs, Claim(j), Guarded(j)
    PROVE  Guarded(j)'
  <1>1. /\ state'[j] = "running" /\ state[j] = "queued"
        /\ at' = [at EXCEPT ![j] = "claimed"] /\ out' = [out EXCEPT ![j] = Success]
        /\ server \in {"up", "failing"}
        /\ UNCHANGED <<recovery, server, cleanupPending, treeVars>>
    BY ClaimMoves DEF Claim, WorkerIdle, Serving, InState, Attendance
  <1>2. QED
    BY <1>1 DEF Attendance, Order, TypeOK, Guarded, Apart, Bare, Marked, Recorded, Starting,
                Staffed, Working, Places, Success

\* Serve as it comes and goes keeps every job guarded: a startup takes over all
\* that is running or pending, and is over when all of it is done.
LEMMA ServerGuards ==
    ASSUME Guard, ServerStep, NEW k \in Jobs
    PROVE  Guarded(k)'
  <1> USE DEF Guard, Attendance, Order, TypeOK, Attended, Guarded, Apart, Bare, Marked,
              Recorded, Starting, Staffed, Working, Made, Actors
  <1>1. CASE Serve
    BY <1>1 DEF Serve
  <1>2. CASE RestorePins
    BY <1>2 DEF RestorePins
  <1>3. CASE RecoverInterrupted
    <2> DEFINE taken == Sha(k) /\ (state[k] = "running" \/ cleanupPending[k])
    <2>1. at[k] = "idle" /\ recovery["tick"][k] = "idle"
          /\ UNCHANGED <<at, out, proc, groupFile, worktree>> /\ server' = "tails"
      BY <1>3 DEF RecoverInterrupted
    <2>2. /\ recovery'["tick"] = recovery["tick"] /\ recovery'["client"] = recovery["client"]
          /\ recovery'["boot"][k] = IF taken THEN "kill" ELSE "idle"
          /\ cleanupPending'[k] <=> cleanupPending[k] \/ taken
      BY <1>3 DEF RecoverInterrupted, Lost, InState
    <2>3. /\ state'[k] # "running"
          /\ state'[k] \in {"absent", "queued"} => state[k] \in {"absent", "queued"}
          /\ state[k] \in {"absent", "queued"} => state[k] # "running"
          /\ state[k] \notin {"absent", "queued"} => state'[k] \notin {"absent", "queued"}
      BY <1>3 DEF RecoverInterrupted, Lost, InState, CancelQueued
    <2>4. QED
      BY <2>1, <2>2, <2>3
  <1>4. CASE Recovery
    BY <1>4 DEF Recovery, Started
  <1>5. CASE Shutdown
    BY <1>5 DEF Shutdown
  <1>6. CASE Exit
    BY <1>6 DEF Exit, Busy
  <1>7. CASE Crash
    BY <1>7 DEF Crash, Success
  <1>8. QED
    BY <1>1, <1>2, <1>3, <1>4, <1>5, <1>6, <1>7 DEF ServerStep

\* Guard is inductive.
LEMMA GuardStep ==
    ASSUME [RecoverSpares]_vars, Guard, [Next]_vars
    PROVE  Guard'
  <1>1. Attendance'
    BY AttendanceStep DEF Guard
  <1>2. SUFFICES ASSUME NEW k \in Jobs PROVE Guarded(k)'
    BY <1>1 DEF Guard
  <1> USE DEF Guard, Attendance
  <1>3. TypeOK
    BY DEF Order
  <1>0. RecoverSpares
    BY DEF RecoverSpares
  <1>4. ASSUME NEW j \in Jobs, RecoverDies(j)
        PROVE  Guarded(k)'
    BY <1>3, <1>4 DEF RecoverDies, Pass, TypeOK, Guarded, Apart, Bare, Marked, Recorded, Starting,
                      Actors
  <1>5. ASSUME NEW j \in Jobs, Claim(j) \/ WorkerStep(j)
        PROVE  Guarded(k)'
    BY <1>3, <1>5, ClaimGuards, ClaimOthers, WorkerGuards, WorkerOthers, StillGuarded
  <1>6. ASSUME NEW j \in Jobs, ProcExit(j)
        PROVE  Guarded(k)'
    BY <1>3, <1>6 DEF ProcExit, TypeOK, Guarded, Apart, Bare, Marked, Recorded, Starting
  <1>7. ASSUME NEW a \in Actors, NEW j \in Jobs, RecoveryStep(a, j)
        PROVE  Guarded(k)'
    <2>1. recovery["boot"][j] # "idle" => server \in {"tails", "aborted"}
      BY DEF Attended
    <2>2. QED
      BY <1>0, <1>3, <1>7, <2>1, RecoveryGuards, RecoveryOthers, StillGuarded
  <1>8. CASE ServerStep
    BY <1>8, ServerGuards
  <1>9. CASE Sweep \/ UNCHANGED vars
    BY <1>9, StillForClients, StillGuarded
  <1>10. CASE ClientStep
    BY <1>4, <1>10, StillForClients, StillGuarded DEF ClientStep
  <1>11. QED
    BY <1>5, <1>6, <1>7, <1>8, <1>9, <1>10 DEF Next

\* While bitci recover fails no job that a worker is at, such a job is running and
\* nobody else's; what it leaves behind, a crash included, is marked in its row
\* until a recovery has ended its processes and removed its worktree, whichever
\* recoveries meet at it.
THEOREM GuardKept == Spec /\ [][RecoverSpares]_vars => []Guard
  <1>1. Init => Guard
    <2>1. Init => Attendance
      BY InitAttendance
    <2>2. QED
      BY <2>1 DEF Init, Guard, Guarded, Apart, Bare, Marked, Recorded, Starting, Working,
                  Made, Actors, Success
  <1>2. Guard /\ [Next]_vars /\ [RecoverSpares]_vars => Guard'
    BY GuardStep
  <1>3. QED
    BY <1>1, <1>2, PTL DEF Spec

\* RecoverInterrupted: once serve claims again, no task process that an earlier
\* serve recorded still runs, wherever that serve was killed, whatever failed in
\* the startups before, and with a bitci recover of the same jobs beside them.
THEOREM NoOrphanKept == Spec /\ [][RecoverSpares]_vars => []NoRecordedOrphan
  <1>1. Guard => NoRecordedOrphan
    BY DEF Guard, Guarded, Recorded, NoRecordedOrphan, Serving, Staffed
  <1>2. QED
    BY <1>1, GuardKept, PTL

-----------------------------------------------------------------------------
(* Worktrees. *)

\* The "tested_sha=" line can be written, see the run lost_worktree.
NoLogLoss == "logTested" \notin Events

\* A worktree on disk is marked, and the verdict will leave it so.
Tracked(j) ==
    worktree[j] \in Made => cleanupPending[j] /\ (at[j] = "finish" => out[j].pending)

\* A worker marks its worktree before it makes it, and when it gives up on it.
LEMMA WorkerTracks ==
    ASSUME NoLogLoss, Attendance, NEW j \in Jobs, WorkerStep(j), Guarded(j), Tracked(j)
    PROVE  Tracked(j)'
  <1> USE DEF Attendance, Order, TypeOK, Guarded, Apart, Bare, Marked, Tracked, GiveUp, Go,
              Working, Places, Made
  <1>1. CASE SetupFails(j)
    BY <1>1 DEF SetupFails
  <1>2. CASE SetupPlain(j)
    BY <1>2 DEF SetupPlain
  <1>3. CASE Collide(j)
    BY <1>3 DEF Collide
  <1>4. CASE BeginCheckout(j)
    BY <1>4 DEF BeginCheckout, Mark
  <1>5. CASE MakeDir(j)
    BY <1>5 DEF MakeDir
  <1>6. CASE WriteOwner(j)
    BY <1>6 DEF WriteOwner
  <1>7. CASE CheckOut(j)
    BY <1>7 DEF CheckOut
  <1>8. CASE CheckoutFails(j)
    BY <1>8 DEF CheckoutFails
  <1>9. CASE LogFails(j)
    BY <1>9 DEF LogFails, NoLogLoss, Event, Failed
  <1>10. CASE Start(j)
    BY <1>10 DEF Start
  <1>11. CASE StartFails(j)
    BY <1>11 DEF StartFails, AfterRun
  <1>12. CASE RecordGroup(j)
    BY <1>12 DEF RecordGroup
  <1>13. CASE RecordFails(j)
    BY <1>13 DEF RecordFails, AfterRun
  <1>14. CASE SetPid(j)
    BY <1>14 DEF SetPid, AfterRun
  <1>15. CASE Reap(j)
    BY <1>15 DEF Reap
  <1>16. CASE ClearPid(j)
    BY <1>16 DEF ClearPid, AfterRun
  <1>17. CASE Remove(j)
    BY <1>17 DEF Remove
  <1>18. CASE RemoveFails(j)
    BY <1>18 DEF RemoveFails
  <1>19. CASE Finish(j)
    BY <1>19 DEF Finish, Report
  <1>20. CASE FinishFails(j)
    BY <1>20 DEF FinishFails, Report
  <1>21. CASE ReleaseLeases(j)
    BY <1>21 DEF ReleaseLeases
  <1>22. CASE ReleaseLeasesFails(j)
    BY <1>22 DEF ReleaseLeasesFails, Report
  <1>23. CASE Unpin(j)
    BY <1>23 DEF Unpin
  <1>24. CASE UnpinFails(j)
    BY <1>24 DEF UnpinFails, Report
  <1>25. QED
    BY <1>1, <1>2, <1>3, <1>4, <1>5, <1>6, <1>7, <1>8, <1>9, <1>10, <1>11, <1>12, <1>13, <1>14, <1>15, <1>16, <1>17, <1>18, <1>19, <1>20, <1>21, <1>22, <1>23, <1>24 DEF WorkerStep

\* A recovery marks what a worker left, and clears the mark when it is gone.
LEMMA RecoveryTracks ==
    ASSUME Attendance, NEW a \in Actors, NEW j \in Jobs, RecoveryStep(a, j),
           Guarded(j), Tracked(j)
    PROVE  Tracked(j)'
  <1> USE DEF Attendance, Order, TypeOK, Guarded, Apart, Bare, Recorded, Tracked, Made
  <1>1. CASE FindOrphan(a, j)
    BY <1>1 DEF FindOrphan
  <1>2. CASE CommitRecovery(a, j)
    BY <1>2 DEF CommitRecovery
  <1>3. CASE KillGroup(a, j)
    BY <1>3 DEF KillGroup
  <1>4. CASE RemoveTree(a, j)
    BY <1>4 DEF RemoveTree
  <1>5. CASE CleanupFails(a, j)
    BY <1>5 DEF CleanupFails
  <1>6. CASE ClearPending(a, j)
    BY <1>6 DEF ClearPending
  <1>7. CASE ReleaseRecovered(a, j)
    BY <1>7 DEF ReleaseRecovered
  <1>8. CASE SweepRecovered(a, j)
    BY <1>8 DEF SweepRecovered
  <1>9. QED
    BY <1>1, <1>2, <1>3, <1>4, <1>5, <1>6, <1>7, <1>8 DEF RecoveryStep

\* No step loses track of a worktree.
LEMMA TrackedStep ==
    ASSUME NoLogLoss, Guard, [Next]_vars, \A j \in Jobs : Tracked(j), NEW k \in Jobs
    PROVE  Tracked(k)'
  <1> USE DEF Guard, Attendance
  <1>1. TypeOK
    BY DEF Order
  <1>2. Still(k) => Tracked(k)'
    BY DEF Still, Tracked
  <1>3. ASSUME NEW j \in Jobs, Claim(j)
        PROVE  Tracked(k)'
    <2>1. /\ worktree'[k] = worktree[k] /\ cleanupPending'[k] = cleanupPending[k]
          /\ k # j => at'[k] = at[k] /\ out'[k] = out[k]
          /\ at'[j] = "claimed"
      BY <1>1, <1>3 DEF Claim, TypeOK
    <2>2. QED
      BY <2>1 DEF Tracked
  <1>4. ASSUME NEW j \in Jobs, WorkerStep(j)
        PROVE  Tracked(k)'
    BY <1>1, <1>2, <1>4, WorkerTracks, WorkerOthers
  <1>5. ASSUME NEW j \in Jobs, ProcExit(j) \/ RecoverDies(j)
        PROVE  Tracked(k)'
    BY <1>5 DEF ProcExit, RecoverDies, Tracked
  <1>6. ASSUME NEW a \in Actors, NEW j \in Jobs, RecoveryStep(a, j)
        PROVE  Tracked(k)'
    <2>1. recovery["boot"][j] # "idle" => server \in {"tails", "aborted"}
      BY DEF Attended
    <2>2. QED
      BY <1>1, <1>2, <1>6, <2>1, RecoveryTracks, RecoveryOthers
  <1>7. CASE ServerStep
    <2>1. worktree'[k] = worktree[k] /\ at'[k] \in {at[k], "idle"}
      BY <1>1, <1>7 DEF TypeOK, ServerStep, Serve, RestorePins, RecoverInterrupted, Recovery,
                        Shutdown, Exit, Crash
    <2>2. cleanupPending[k] => cleanupPending'[k]
      BY <1>1, <1>7 DEF TypeOK, ServerStep, Serve, RestorePins, RecoverInterrupted, Recovery,
                        Shutdown, Exit, Crash
    <2>3. out'[k] = out[k] \/ at'[k] = "idle"
      BY <1>1, <1>7 DEF TypeOK, ServerStep, Serve, RestorePins, RecoverInterrupted, Recovery,
                        Shutdown, Exit, Crash
    <2>4. QED
      BY <2>1, <2>2, <2>3 DEF Tracked
  <1>8. CASE Sweep \/ UNCHANGED vars
    BY <1>2, <1>8, StillForClients
  <1>9. CASE ClientStep
    BY <1>2, <1>5, <1>9, StillForClients DEF ClientStep
  <1>10. QED
    BY <1>3, <1>4, <1>5, <1>6, <1>7, <1>8, <1>9 DEF Next

\* While bitci recover spares workers, and with logs that can be written, every
\* worktree that exists is marked in its row, at every moment.
LEMMA TrackedKept ==
    ASSUME NoLogLoss
    PROVE  Spec /\ [][RecoverSpares]_vars => [](Guard /\ \A j \in Jobs : Tracked(j))
  <1> DEFINE EveryTree == \A j \in Jobs : Tracked(j)
  <1>1. Init => EveryTree
    BY DEF Init, Tracked, Made
  <1>2. Guard /\ EveryTree /\ [Next]_vars => EveryTree'
    BY TrackedStep
  <1> HIDE DEF EveryTree
  <1>3. Spec /\ [][RecoverSpares]_vars => [](Guard /\ EveryTree)
    BY <1>1, <1>2, GuardKept, PTL DEF Spec
  <1>4. QED
    BY <1>3 DEF EveryTree

\* jobCheckout, cleanup and the recoveries lose no worktree: one that no worker
\* is at is in a row with cleanup_pending, for the next startup.
THEOREM WorktreesKept ==
    ASSUME NoLogLoss
    PROVE  Spec /\ [][RecoverSpares]_vars => []WorktreesTracked
  <1>1. (\A j \in Jobs : Tracked(j)) => WorktreesTracked
    BY DEF Tracked, WorktreesTracked, Made
  <1>2. QED
    BY <1>1, TrackedKept, PTL

-----------------------------------------------------------------------------
(* Pins of what is pending. *)

\* Refs go only by a release of what is over by the end of the step, or when a
\* startup has gone through all of them.
LEMMA RefsGo ==
    ASSUME TypeOK, [Next]_vars
    PROVE  \/ refs \subseteq refs'
           \/ \E bs : Release(state', cleanupPending', bs)
           \/ RestorePins
  <1>1. CASE ClientStep
    BY <1>1 DEF ClientStep, SubmitPlain, SubmitRow, SubmitCommit, SubmitFails, SubmitDies,
                CancelRelease, CancelDies, CancelContext, RecoverDies
  <1>2. ASSUME NEW j \in Jobs, Claim(j) \/ ProcExit(j)
        PROVE  refs \subseteq refs'
    BY <1>2 DEF Claim, ProcExit
  <1>3. ASSUME NEW j \in Jobs, WorkerStep(j)
        PROVE  refs \subseteq refs' \/ \E bs : Release(state', cleanupPending', bs)
    BY <1>3 DEF WorkerStep, SetupFails, SetupPlain, Collide, BeginCheckout, MakeDir,
           WriteOwner, CheckOut, CheckoutFails, LogFails, Start, StartFails, RecordGroup,
           RecordFails, SetPid, Reap, ClearPid, Remove, RemoveFails, Finish, FinishFails,
           ReleaseLeases, ReleaseLeasesFails, Unpin, UnpinFails
  <1>4. CASE Sweep
    BY <1>4 DEF Sweep
  <1>5. ASSUME NEW a \in Actors, NEW j \in Jobs, RecoveryStep(a, j)
        PROVE  refs \subseteq refs' \/ \E bs : Release(state', cleanupPending', bs)
    BY <1>5 DEF RecoveryStep, FindOrphan, CommitRecovery, KillGroup, RemoveTree, CleanupFails,
                ClearPending, ReleaseRecovered, SweepRecovered
  <1>6. CASE ServerStep
    BY <1>6 DEF ServerStep, Serve, RecoverInterrupted, Recovery, Shutdown, Exit, Crash
  <1>7. CASE UNCHANGED vars
    BY <1>7
  <1>8. QED
    BY <1>1, <1>2, <1>3, <1>4, <1>5, <1>6, <1>7 DEF Next

\* The ref of a batch with a pending cleanup stays.
LEMMA PendingKeeps ==
    ASSUME TypeOK, [Next]_vars, NEW k \in Jobs, BatchOf[k] \in refs, cleanupPending'[k]
    PROVE  BatchOf[k] \in refs'
  <1>1. ASSUME NEW bs, Release(state', cleanupPending', bs)
        PROVE  BatchOf[k] \in refs'
    BY <1>1 DEF Release, Releasable, Protected, JobsOf
  <1>2. CASE RestorePins
    BY <1>2 DEF RestorePins, Protected, JobsOf
  <1>3. QED
    BY <1>1, <1>2, RefsGo

\* A cleanup becomes pending while its job is running.
LEMMA PendingBegins ==
    ASSUME Guard, [Next]_vars, NEW k \in Jobs, ~cleanupPending[k], cleanupPending'[k]
    PROVE  state[k] = "running"
  <1> USE DEF Guard, Attendance, Order, TypeOK
  <1>1. ~Still(k)
    BY DEF Still
  <1>2. ASSUME NEW j \in Jobs, RecoverDies(j) \/ ProcExit(j) \/ Claim(j)
        PROVE  FALSE
    BY <1>2 DEF RecoverDies, ProcExit, Claim
  <1>3. ASSUME NEW j \in Jobs, WorkerStep(j)
        PROVE  state[k] = "running"
    <2>1. k = j
      BY <1>1, <1>3, WorkerOthers
    <2>2. CASE Finish(j)
      BY <2>1, <2>2 DEF Finish, Guarded, Apart, Working, Places
    <2>3. CASE BeginCheckout(j)
      BY <2>1, <2>3 DEF BeginCheckout, Guarded, Apart, Working, Places
    <2>4. CASE ~Finish(j) /\ ~BeginCheckout(j)
      BY <1>3, <2>4 DEF WorkerStep, SetupFails, SetupPlain, Collide, MakeDir,
           WriteOwner, CheckOut, CheckoutFails, LogFails, Start, StartFails, RecordGroup,
           RecordFails, SetPid, Reap, ClearPid, Remove, RemoveFails, FinishFails,
           ReleaseLeases, ReleaseLeasesFails, Unpin, UnpinFails
    <2>5. QED
      BY <2>2, <2>3, <2>4
  <1>4. ASSUME NEW a \in Actors, NEW j \in Jobs, RecoveryStep(a, j)
        PROVE  state[k] = "running"
    BY <1>4 DEF RecoveryStep, FindOrphan, CommitRecovery, AsRead, KillGroup, RemoveTree,
                CleanupFails, ClearPending, ReleaseRecovered, SweepRecovered
  <1>5. CASE ServerStep
    BY <1>5 DEF ServerStep, Serve, RestorePins, RecoverInterrupted, Lost, InState, Recovery,
                Shutdown, Exit, Crash
  <1>6. CASE Sweep \/ UNCHANGED vars
    BY <1>1, <1>6, StillForClients
  <1>7. CASE ClientStep
    BY <1>1, <1>2, <1>7, StillForClients DEF ClientStep
  <1>8. QED
    BY <1>2, <1>3, <1>4, <1>5, <1>6, <1>7 DEF Next

\* While bitci recover spares workers, a batch keeps its ref also while a worktree
\* of one of its jobs is to be cleaned up, through releases, crashes and startups.
THEOREM NeededKept == Spec /\ [][RecoverSpares]_vars => []NeededIsPinned
  <1>1. Init => NeededIsPinned
    BY DEF Init, NeededIsPinned
  <1>2. ASSUME Guard, ActiveIsPinned', NeededIsPinned, [Next]_vars
        PROVE  NeededIsPinned'
    <2>1. SUFFICES ASSUME NEW k \in Jobs, BatchOf[k] \in ShaBatches, cleanupPending'[k]
                   PROVE  BatchOf[k] \in refs'
      BY <1>2 DEF NeededIsPinned, ActiveIsPinned, Sha
    <2>2. BatchOf[k] \in refs
      <3>1. CASE cleanupPending[k]
        BY <1>2, <2>1, <3>1 DEF NeededIsPinned, Sha
      <3>2. CASE ~cleanupPending[k]
        BY <1>2, <2>1, <3>2, PendingBegins DEF NeededIsPinned, Sha
      <3>3. QED
        BY <3>1, <3>2
    <2>3. QED
      BY <1>2, <2>1, <2>2, PendingKeeps DEF Guard, Attendance, Order
  <1>3. QED
    BY <1>1, <1>2, GuardKept, PinKept, PTL DEF Spec

-----------------------------------------------------------------------------
(* Startups. *)

\* RecoverInterrupted: a serve that comes up has failed what was running, ended
\* and removed what was left of it, and released every ref that no queued job
\* needs, whatever the crashes and failed startups before left.
THEOREM StartupKept ==
    ASSUME NoLogLoss
    PROVE  Spec /\ [][RecoverSpares]_vars => StartupIsClean
  <1> DEFINE Clean ==
          server' = "up" /\ server \in {"tails", "aborted"} =>
             /\ \A j \in Jobs : /\ state'[j] # "running"
                                /\ ~cleanupPending'[j]
                                /\ worktree'[j] \in {"absent", "foreign"}
             /\ \A b \in refs' : \E j \in JobsOf(b) : state'[j] \in {"queued", "absent"}
             AllTracked == \A j \in Jobs : Tracked(j)
  <1>1. ASSUME Guard, AllTracked, [Next]_vars
        PROVE  Clean
    <2> SUFFICES ASSUME server' = "up", server \in {"tails", "aborted"}
                 PROVE  /\ \A j \in Jobs : /\ state'[j] # "running"
                                           /\ ~cleanupPending'[j]
                                           /\ worktree'[j] \in {"absent", "foreign"}
                        /\ \A b \in refs' : \E j \in JobsOf(b) : state'[j] \in {"queued", "absent"}
      OBVIOUS
    <2> USE <1>1 DEF Guard, Attendance, Order, TypeOK
    <2>1. Recovery /\ server = "tails"
      <3>1. ASSUME NEW j \in Jobs, Claim(j) \/ WorkerStep(j)
            PROVE  FALSE
        BY <3>1, WorkerServes DEF Claim, WorkerIdle, Serving, Attended, Staffed
      <3>2. ASSUME NEW a \in Actors, NEW j \in Jobs, RecoveryStep(a, j)
            PROVE  FALSE
        BY <3>2 DEF RecoveryStep, FindOrphan, CommitRecovery, KillGroup, RemoveTree,
                    CleanupFails, Report, ClearPending, ReleaseRecovered, SweepRecovered
      <3>3. QED
        BY <3>1, <3>2 DEF Next, ClientStep, SubmitPlain, SubmitRow, SubmitCommit, SubmitFails,
              SubmitDies, CancelRelease, CancelDies, CancelContext, RecoverDies, ProcExit,
              Sweep, ServerStep, Serve, RestorePins, RecoverInterrupted, Recovery, Started,
              Shutdown, Exit, Crash
    <2>2. /\ \A j \in Jobs : recovery["boot"][j] = "idle"
          /\ Release(state, cleanupPending, Batches)
          /\ UNCHANGED <<state, cleanupPending, worktree>>
      BY <2>1 DEF Recovery
    <2>3. \A j \in Jobs : state[j] # "running" /\ ~cleanupPending[j]
      BY <2>1, <2>2 DEF Guarded, Starting
    <2>4. \A j \in Jobs : worktree[j] \in {"absent", "foreign"}
      BY <1>1, <2>3 DEF Tracked, Made, Trees, AllTracked
    <2>5. ASSUME NEW b \in refs'
          PROVE  \E j \in JobsOf(b) : state[j] \in {"queued", "absent"}
      <3>1. b \in refs /\ b \in Batches /\ b \notin Releasable(state, cleanupPending, Batches)
        BY <2>2, JobsAssumption DEF Release
      <3>2. CASE Protected(state, cleanupPending, b)
        BY <2>3, <3>2 DEF Protected, JobsOf
      <3>3. CASE \A j \in JobsOf(b) : state[j] = "absent"
        BY <3>1, <3>3, BatchesAssumption DEF JobsOf
      <3>4. QED
        BY <3>1, <3>2, <3>3 DEF Releasable
    <2>6. QED
      BY <2>2, <2>3, <2>4, <2>5
  <1>2. Guard /\ AllTracked /\ [Next]_vars => [Clean]_vars
    BY <1>1
  <1> HIDE DEF AllTracked
  <1>3. Spec /\ [][RecoverSpares]_vars => [](Guard /\ AllTracked)
    BY TrackedKept DEF AllTracked
  <1>4. QED
    BY <1>2, <1>3, PTL DEF Spec, StartupIsClean

-----------------------------------------------------------------------------
(* Without bitci recover. *)

NoRecover == "recover" \notin Events

Unasked == \A j \in Jobs : recovery["client"][j] = "idle"

\* Where nobody runs bitci recover, it has nothing to write.
LEMMA UnaskedStep ==
    ASSUME NoRecover, Order, Unasked, [Next]_vars
    PROVE  Unasked'
  <1> SUFFICES ASSUME NEW k \in Jobs PROVE recovery'["client"][k] = "idle"
    BY DEF Unasked
  <1> USE DEF Order, TypeOK, Unasked, Still, Actors
  <1>1. ASSUME NEW j \in Jobs, RecoverDies(j)
        PROVE  FALSE
    BY <1>1 DEF RecoverDies
  <1>2. ASSUME NEW j \in Jobs, Claim(j) \/ WorkerStep(j) \/ ProcExit(j)
        PROVE  recovery'["client"][k] = "idle"
    BY <1>2, WorkerServes DEF Claim, ProcExit
  <1>3. ASSUME NEW a \in Actors, NEW j \in Jobs, RecoveryStep(a, j)
        PROVE  recovery'["client"][k] = "idle"
    <2>1. a # "client"
      BY <1>3 DEF NoRecover, Event, RecoveryStep, FindOrphan, CommitRecovery, KillGroup,
                  RemoveTree, CleanupFails, ClearPending, ReleaseRecovered, SweepRecovered
    <2>2. recovery'["client"] = recovery["client"]
      BY <1>3, <2>1 DEF RecoveryStep, FindOrphan, CommitRecovery, KillGroup, RemoveTree,
                  CleanupFails, ClearPending, ReleaseRecovered, SweepRecovered, Pass
    <2>3. QED
      BY <2>2
  <1>4. CASE ServerStep
    BY <1>4 DEF ServerStep, Serve, RestorePins, RecoverInterrupted, Recovery, Shutdown, Exit,
                Crash
  <1>5. CASE Sweep \/ UNCHANGED vars
    BY <1>5, StillForClients
  <1>6. CASE ClientStep
    BY <1>1, <1>6, StillForClients DEF ClientStep
  <1>7. QED
    BY <1>2, <1>3, <1>4, <1>5, <1>6 DEF Next

\* The hypothesis of the theorems above holds where nobody runs bitci recover: the
\* run crashes.
THEOREM SparedUnasked ==
    ASSUME NoRecover
    PROVE  Spec => [][RecoverSpares]_vars
  <1>1. Init => Unasked
    BY DEF Init, Unasked, Actors
  <1>2. Order /\ Unasked /\ [Next]_vars => Unasked'
    BY UnaskedStep
  <1>3. Unasked => [RecoverSpares]_vars
    BY DEF Unasked, RecoverSpares
  <1>4. QED
    BY <1>1, <1>2, <1>3, OrderKept, PTL DEF Spec

\* Without bitci recover, the four of them hold of every behaviour.
THEOREM KeptUnasked ==
    ASSUME NoRecover
    PROVE  /\ Spec => [](NoRecordedOrphan /\ NeededIsPinned)
           /\ NoLogLoss => (Spec => []WorktreesTracked /\ StartupIsClean)
  <1>1. Spec => [](NoRecordedOrphan /\ NeededIsPinned)
    BY SparedUnasked, NoOrphanKept, NeededKept, PTL
  <1>2. ASSUME NoLogLoss
        PROVE  Spec => []WorktreesTracked /\ StartupIsClean
    BY <1>2, SparedUnasked, WorktreesKept, StartupKept, PTL
  <1>3. QED
    BY <1>1, <1>2

-----------------------------------------------------------------------------
(* What the ticker recovers has no process. *)

\* A process is between its start and its wait, or an earlier serve left it; none
\* that this serve left belongs to a running job, so the ticker reads none.
Quieted(j) ==
    /\ proc[j] # "none" =>
          at[j] \in {"record", "setpid", "wait", "idle"} /\ state[j] \notin {"absent", "queued"}
    /\ state[j] = "running" =>
          server # "tails" /\ (server \in Staffed /\ at[j] = "idle" => proc[j] = "none")
    /\ recovery["tick"][j] # "idle" =>
          at[j] = "idle" /\ proc[j] = "none" /\ state[j] \notin {"absent", "queued"}

\* A step that is not about a job leaves it so.
LEMMA StillQuieted ==
    ASSUME TypeOK, WorkedIsClaimed, NEW k \in Jobs, Quieted(k), Still(k), Onward
    PROVE  Quieted(k)'
  BY DEF TypeOK, WorkedIsClaimed, Quieted, Still, Onward, Staffed, Actors

\* A worker leaves no process behind.
LEMMA WorkerQuiets ==
    ASSUME Attendance, NEW j \in Jobs, WorkerStep(j), Quieted(j)
    PROVE  Quieted(j)'
  <1>0. /\ at[j] # "idle" /\ UNCHANGED recovery /\ server \in Staffed
        /\ state[j] \notin {"absent", "queued"} /\ recovery["tick"][j] = "idle"
    BY WorkerServes DEF Attendance, Attended, Order, WorkedIsClaimed, Quieted
  <1> USE DEF Attendance, Order, TypeOK, Quieted, GiveUp, Go, Staffed, Report
  <1>1. CASE SetupFails(j)
    BY <1>0, <1>1 DEF SetupFails
  <1>2. CASE SetupPlain(j)
    BY <1>0, <1>2 DEF SetupPlain
  <1>3. CASE Collide(j)
    BY <1>0, <1>3 DEF Collide
  <1>4. CASE BeginCheckout(j)
    BY <1>0, <1>4 DEF BeginCheckout, Mark
  <1>5. CASE MakeDir(j)
    BY <1>0, <1>5 DEF MakeDir
  <1>6. CASE WriteOwner(j)
    BY <1>0, <1>6 DEF WriteOwner
  <1>7. CASE CheckOut(j)
    BY <1>0, <1>7 DEF CheckOut
  <1>8. CASE CheckoutFails(j)
    BY <1>0, <1>8 DEF CheckoutFails
  <1>9. CASE LogFails(j)
    BY <1>0, <1>9 DEF LogFails
  <1>10. CASE Start(j)
    BY <1>0, <1>10 DEF Start
  <1>11. CASE StartFails(j)
    BY <1>0, <1>11 DEF StartFails, AfterRun
  <1>12. CASE RecordGroup(j)
    BY <1>0, <1>12 DEF RecordGroup
  <1>13. CASE RecordFails(j)
    BY <1>0, <1>13 DEF RecordFails, AfterRun
  <1>14. CASE SetPid(j)
    BY <1>0, <1>14 DEF SetPid, AfterRun
  <1>15. CASE Reap(j)
    BY <1>0, <1>15 DEF Reap
  <1>16. CASE ClearPid(j)
    BY <1>0, <1>16 DEF ClearPid, AfterRun
  <1>17. CASE Remove(j)
    BY <1>0, <1>17 DEF Remove
  <1>18. CASE RemoveFails(j)
    BY <1>0, <1>18 DEF RemoveFails
  <1>19. CASE Finish(j)
    BY <1>0, <1>19 DEF Finish
  <1>20. CASE FinishFails(j)
    BY <1>0, <1>20 DEF FinishFails
  <1>21. CASE ReleaseLeases(j)
    BY <1>0, <1>21 DEF ReleaseLeases
  <1>22. CASE ReleaseLeasesFails(j)
    BY <1>0, <1>22 DEF ReleaseLeasesFails
  <1>23. CASE Unpin(j)
    BY <1>0, <1>23 DEF Unpin
  <1>24. CASE UnpinFails(j)
    BY <1>0, <1>24 DEF UnpinFails
  <1>25. QED
    BY <1>1, <1>2, <1>3, <1>4, <1>5, <1>6, <1>7, <1>8, <1>9, <1>10, <1>11, <1>12,
       <1>13, <1>14, <1>15, <1>16, <1>17, <1>18, <1>19, <1>20, <1>21, <1>22, <1>23, <1>24 DEF WorkerStep

\* A recovery ends processes and starts none, and the ticker reads a job of no
\* worker.
LEMMA RecoveryQuiets ==
    ASSUME Attendance, NEW a \in Actors, NEW j \in Jobs, RecoveryStep(a, j), Quieted(j)
    PROVE  Quieted(j)'
  <1> USE DEF Attendance, Order, TypeOK, Attended, Quieted, Pass, Staffed, Actors
  <1>1. CASE FindOrphan(a, j)
    BY <1>1 DEF FindOrphan, LooksOrphaned, Spares
  <1>2. CASE CommitRecovery(a, j)
    <2>1. CASE AsRead(a, j)
      <3>1. /\ state'[j] = "failed" /\ UNCHANGED <<at, proc, server>>
            /\ \E place \in Tails : recovery' = [recovery EXCEPT ![a][j] = place]
        BY <1>2, <2>1 DEF CommitRecovery, CancelQueued, Tails
      <3>2. recovery'["tick"][j] # "idle" => recovery["tick"][j] # "idle"
        BY <1>2, <3>1 DEF CommitRecovery
      <3>3. QED
        BY <3>1, <3>2
    <2>2. CASE ~AsRead(a, j)
      BY <1>2, <2>2 DEF CommitRecovery
    <2>3. QED
      BY <2>1, <2>2
  <1>3. CASE KillGroup(a, j)
    BY <1>3 DEF KillGroup, Killed
  <1>4. CASE RemoveTree(a, j)
    BY <1>4 DEF RemoveTree
  <1>5. CASE CleanupFails(a, j)
    BY <1>5 DEF CleanupFails, Report, Killed
  <1>6. CASE ClearPending(a, j)
    BY <1>6 DEF ClearPending
  <1>7. CASE ReleaseRecovered(a, j)
    BY <1>7 DEF ReleaseRecovered
  <1>8. CASE SweepRecovered(a, j)
    BY <1>8 DEF SweepRecovered
  <1>9. QED
    BY <1>1, <1>2, <1>3, <1>4, <1>5, <1>6, <1>7, <1>8 DEF RecoveryStep

\* A startup fails what is running before serve has a ticker.
LEMMA ServerQuiets ==
    ASSUME Attendance, ServerStep, NEW k \in Jobs, Quieted(k)
    PROVE  Quieted(k)'
  <1> USE DEF Attendance, Order, TypeOK, Attended, Quieted, Staffed, Actors
  <1>1. CASE Serve
    BY <1>1 DEF Serve
  <1>2. CASE RestorePins
    BY <1>2 DEF RestorePins
  <1>3. CASE RecoverInterrupted
    <2>1. /\ server' = "tails" /\ UNCHANGED <<at, proc>>
          /\ recovery'["tick"] = recovery["tick"]
          /\ state'[k] # "running"
          /\ state[k] \notin {"absent", "queued"} => state'[k] \notin {"absent", "queued"}
      BY <1>3 DEF RecoverInterrupted, Lost, InState, CancelQueued
    <2>2. QED
      BY <2>1
  <1>4. CASE Recovery
    BY <1>4 DEF Recovery, Started
  <1>5. CASE Shutdown
    BY <1>5 DEF Shutdown
  <1>6. CASE Exit
    BY <1>6 DEF Exit
  <1>7. CASE Crash
    BY <1>7 DEF Crash
  <1>8. QED
    BY <1>1, <1>2, <1>3, <1>4, <1>5, <1>6, <1>7 DEF ServerStep

\* Quieted is inductive.
LEMMA QuietedStep ==
    ASSUME Attendance, \A j \in Jobs : Quieted(j), [Next]_vars, NEW k \in Jobs
    PROVE  Quieted(k)'
  <1> USE DEF Attendance, Order
  <1>1. ASSUME NEW j \in Jobs, Claim(j)
        PROVE  Quieted(k)'
    <2>1. CASE k = j
      <3>1. /\ state[j] = "queued" /\ at' = [at EXCEPT ![j] = "claimed"]
            /\ UNCHANGED <<recovery, proc, server>> /\ server # "tails" /\ state'[j] = "running"
        BY <1>1, ClaimMoves DEF Claim, InState, WorkerIdle, Serving
      <3>2. QED
        BY <2>1, <3>1 DEF TypeOK, Quieted
    <2>2. QED
      BY <1>1, <2>1, ClaimOthers, StillQuieted
  <1>2. ASSUME NEW j \in Jobs, WorkerStep(j)
        PROVE  Quieted(k)'
    BY <1>2, WorkerQuiets, WorkerOthers, StillQuieted
  <1>3. ASSUME NEW j \in Jobs, ProcExit(j) \/ RecoverDies(j)
        PROVE  Quieted(k)'
    BY <1>3 DEF ProcExit, RecoverDies, Pass, TypeOK, Quieted, Actors
  <1>4. ASSUME NEW a \in Actors, NEW j \in Jobs, RecoveryStep(a, j)
        PROVE  Quieted(k)'
    <2>1. recovery["boot"][j] # "idle" => server \in {"tails", "aborted"}
      BY DEF Attended
    <2>2. QED
      BY <1>4, <2>1, RecoveryQuiets, RecoveryOthers, StillQuieted
  <1>5. CASE ServerStep
    BY <1>5, ServerQuiets
  <1>6. CASE Sweep \/ UNCHANGED vars
    BY <1>6, StillForClients, StillQuieted
  <1>7. CASE ClientStep
    BY <1>3, <1>7, StillForClients, StillQuieted DEF ClientStep
  <1>8. QED
    BY <1>1, <1>2, <1>3, <1>4, <1>5, <1>6, <1>7 DEF Next

\* RecoverOrphaned, as it goes past its cleanup of a job's processes, has killed
\* none: RecoveryNeverKills for the ticker alone.
TickNeverKills ==
    [][\A j \in Jobs : recovery["tick"][j] = "kill" /\ recovery'["tick"][j] = "remove"
          => proc'[j] = proc[j]]_vars

\* README and the comment on RecoverOrphaned are right about the ticker, after
\* any crash and beside any bitci recover: from its read of a job to the end of
\* its cleanup the job has no process (process ids that are given again apart).
\* What the finding recovery_kills shows is bitci recover's alone.
THEOREM TickKillsNone ==
    Spec => [](\A j \in Jobs : recovery["tick"][j] # "idle" => proc[j] = "none")
            /\ TickNeverKills
  <1> DEFINE Quiets == \A j \in Jobs : Quieted(j)
             Gone == \A j \in Jobs : recovery["tick"][j] # "idle" => proc[j] = "none"
             Past == \A j \in Jobs : recovery["tick"][j] = "kill" /\ recovery'["tick"][j] = "remove"
                        => proc'[j] = proc[j]
  <1>1. Init => Quiets
    BY DEF Init, Quieted, Actors, Staffed
  <1>2. Attendance /\ Quiets /\ [Next]_vars => Quiets'
    BY QuietedStep
  <1>3. Quiets => Gone
    BY DEF Quieted
  <1>4. Gone /\ Gone' => [Past]_vars
    OBVIOUS
  <1>5. Spec => []Gone /\ [][Past]_vars
    <2> HIDE DEF Quiets, Gone, Past
    <2>1. QED
      BY <1>1, <1>2, <1>3, <1>4, AttendanceKept, PTL DEF Spec
  <1>6. QED
    BY <1>5 DEF TickNeverKills

-----------------------------------------------------------------------------
(* What jams the queue. *)

\* The crash between two statements, the lease that is not deleted and the
\* checkout that fails, which the definition of Jammed is about.
NoCrash == "crash" \notin Events
NoLeaseLoss == "lease" \notin Events
NoHalfCheckout == "checkout" \notin Events

\* A lease is of a running job, or of one whose worker is to return it.
Returned(j) ==
    (\E l \in leases : l[2] = j) => state[j] = "running" \/ at[j] = "leases"

\* A directory without its owner file is one that a worker has just made.
Owned(j) == worktree[j] = "bare" => at[j] = "own"

\* The steps of a worker: the verdict is followed by the return of the leases.
LEMMA WorkerReturns ==
    ASSUME NoLeaseLoss, Order, NEW j \in Jobs, WorkerStep(j), Returned(j)
    PROVE  Returned(j)' /\ leases' \subseteq leases
  <1> USE DEF Order, TypeOK, WorkedIsClaimed, Returned, GiveUp, Go
  <1>1. CASE SetupFails(j)
    BY <1>1 DEF SetupFails
  <1>2. CASE SetupPlain(j)
    BY <1>2 DEF SetupPlain
  <1>3. CASE Collide(j)
    BY <1>3 DEF Collide
  <1>4. CASE BeginCheckout(j)
    BY <1>4 DEF BeginCheckout, Mark
  <1>5. CASE MakeDir(j)
    BY <1>5 DEF MakeDir
  <1>6. CASE WriteOwner(j)
    BY <1>6 DEF WriteOwner
  <1>7. CASE CheckOut(j)
    BY <1>7 DEF CheckOut
  <1>8. CASE CheckoutFails(j)
    BY <1>8 DEF CheckoutFails
  <1>9. CASE LogFails(j)
    BY <1>9 DEF LogFails
  <1>10. CASE Start(j)
    BY <1>10 DEF Start
  <1>11. CASE StartFails(j)
    BY <1>11 DEF StartFails, AfterRun
  <1>12. CASE RecordGroup(j)
    BY <1>12 DEF RecordGroup
  <1>13. CASE RecordFails(j)
    BY <1>13 DEF RecordFails, AfterRun
  <1>14. CASE SetPid(j)
    BY <1>14 DEF SetPid, AfterRun
  <1>15. CASE Reap(j)
    BY <1>15 DEF Reap
  <1>16. CASE ClearPid(j)
    BY <1>16 DEF ClearPid, AfterRun
  <1>17. CASE Remove(j)
    BY <1>17 DEF Remove
  <1>18. CASE RemoveFails(j)
    BY <1>18 DEF RemoveFails
  <1>19. CASE Finish(j)
    BY <1>19 DEF Finish
  <1>20. CASE FinishFails(j)
    BY <1>20 DEF FinishFails
  <1>21. CASE ReleaseLeases(j)
    BY <1>21 DEF ReleaseLeases
  <1>22. CASE ReleaseLeasesFails(j)
    BY <1>22 DEF ReleaseLeasesFails, NoLeaseLoss, Event
  <1>23. CASE Unpin(j)
    BY <1>23 DEF Unpin
  <1>24. CASE UnpinFails(j)
    BY <1>24 DEF UnpinFails
  <1>25. QED
    BY <1>1, <1>2, <1>3, <1>4, <1>5, <1>6, <1>7, <1>8, <1>9, <1>10, <1>11, <1>12,
       <1>13, <1>14, <1>15, <1>16, <1>17, <1>18, <1>19, <1>20, <1>21, <1>22, <1>23, <1>24 DEF WorkerStep

\* The steps of a worker: the owner file follows the directory.
LEMMA WorkerOwns ==
    ASSUME NoHalfCheckout, TypeOK, NEW j \in Jobs, WorkerStep(j), Owned(j)
    PROVE  Owned(j)'
  <1> USE DEF TypeOK, Owned, GiveUp, Go
  <1>1. CASE SetupFails(j)
    BY <1>1 DEF SetupFails
  <1>2. CASE SetupPlain(j)
    BY <1>2 DEF SetupPlain
  <1>3. CASE Collide(j)
    BY <1>3 DEF Collide
  <1>4. CASE BeginCheckout(j)
    BY <1>4 DEF BeginCheckout, Mark
  <1>5. CASE MakeDir(j)
    BY <1>5 DEF MakeDir
  <1>6. CASE WriteOwner(j)
    BY <1>6 DEF WriteOwner
  <1>7. CASE CheckOut(j)
    BY <1>7 DEF CheckOut
  <1>8. CASE CheckoutFails(j)
    BY <1>8 DEF CheckoutFails, NoHalfCheckout, Event
  <1>9. CASE LogFails(j)
    BY <1>9 DEF LogFails
  <1>10. CASE Start(j)
    BY <1>10 DEF Start
  <1>11. CASE StartFails(j)
    BY <1>11 DEF StartFails, AfterRun
  <1>12. CASE RecordGroup(j)
    BY <1>12 DEF RecordGroup
  <1>13. CASE RecordFails(j)
    BY <1>13 DEF RecordFails, AfterRun
  <1>14. CASE SetPid(j)
    BY <1>14 DEF SetPid, AfterRun
  <1>15. CASE Reap(j)
    BY <1>15 DEF Reap
  <1>16. CASE ClearPid(j)
    BY <1>16 DEF ClearPid, AfterRun
  <1>17. CASE Remove(j)
    BY <1>17 DEF Remove
  <1>18. CASE RemoveFails(j)
    BY <1>18 DEF RemoveFails
  <1>19. CASE Finish(j)
    BY <1>19 DEF Finish
  <1>20. CASE FinishFails(j)
    BY <1>20 DEF FinishFails
  <1>21. CASE ReleaseLeases(j)
    BY <1>21 DEF ReleaseLeases
  <1>22. CASE ReleaseLeasesFails(j)
    BY <1>22 DEF ReleaseLeasesFails
  <1>23. CASE Unpin(j)
    BY <1>23 DEF Unpin
  <1>24. CASE UnpinFails(j)
    BY <1>24 DEF UnpinFails
  <1>25. QED
    BY <1>1, <1>2, <1>3, <1>4, <1>5, <1>6, <1>7, <1>8, <1>9, <1>10, <1>11, <1>12,
       <1>13, <1>14, <1>15, <1>16, <1>17, <1>18, <1>19, <1>20, <1>21, <1>22, <1>23, <1>24 DEF WorkerStep

\* No other step than a crash or a failing DELETE leaves a lease behind.
LEMMA ReturnedStep ==
    ASSUME NoCrash, NoLeaseLoss, Attendance, \A j \in Jobs : Returned(j), [Next]_vars,
           NEW k \in Jobs
    PROVE  Returned(k)'
  <1> USE DEF Attendance, Order
  <1>1. Still(k) /\ leases' \subseteq leases => Returned(k)'
    BY DEF Still, Returned, WorkedIsClaimed
  <1>2. ASSUME NEW j \in Jobs, Claim(j)
        PROVE  Returned(k)'
    <2>1. CASE k = j
      BY <1>2, <2>1, ClaimMoves DEF Returned
    <2>2. CASE k # j
      <3>1. \A l \in leases' : l[2] = k => l \in leases
        BY <1>2, <2>2 DEF Claim
      <3>2. Still(k)
        BY <1>2, <2>2, ClaimOthers
      <3>3. QED
        BY <3>1, <3>2 DEF Still, Returned, WorkedIsClaimed
    <2>3. QED
      BY <2>1, <2>2
  <1>3. ASSUME NEW j \in Jobs, WorkerStep(j)
        PROVE  Returned(k)'
    BY <1>1, <1>3, WorkerReturns, WorkerOthers
  <1>4. ASSUME NEW j \in Jobs, ProcExit(j) \/ RecoverDies(j)
        PROVE  Returned(k)'
    BY <1>4 DEF ProcExit, RecoverDies, Returned
  <1>5. ASSUME NEW a \in Actors, NEW j \in Jobs, RecoveryStep(a, j)
        PROVE  Returned(k)'
    <2>1. /\ leases' \subseteq leases
          /\ \/ state'[j] = state[j]
             \/ ~\E l \in leases' : l[2] = j
          /\ at' = at
      BY <1>5 DEF RecoveryStep, FindOrphan, CommitRecovery, KillGroup, RemoveTree,
                  CleanupFails, ClearPending, ReleaseRecovered, SweepRecovered
    <2>2. k # j => Still(k)
      <3>1. recovery["boot"][j] # "idle" => server \in {"tails", "aborted"}
        BY DEF Attended
      <3>2. QED
        BY <1>5, <3>1, RecoveryOthers
    <2>3. k = j => Returned(k)'
      BY <2>1 DEF Returned
    <2>4. QED
      BY <1>1, <2>1, <2>2, <2>3
  <1>6. CASE ServerStep
    <2>1. CASE RecoverInterrupted
      <3>1. at[k] = "idle" /\ at' = at
        BY <2>1 DEF RecoverInterrupted, Attended, Staffed
      <3>2. state[k] = "running" => ~\E l \in leases' : l[2] = k
        BY <2>1 DEF RecoverInterrupted, Lost, InState
      <3>3. leases' \subseteq leases
        BY <2>1 DEF RecoverInterrupted
      <3>4. QED
        BY <3>1, <3>2, <3>3 DEF Returned
    <2>2. CASE ~RecoverInterrupted
      BY <1>6, <2>2 DEF ServerStep, Serve, RestorePins, Recovery, Shutdown, Exit, Crash,
                        NoCrash, Event, Returned
    <2>3. QED
      BY <2>1, <2>2
  <1>7. CASE Sweep \/ UNCHANGED vars
    BY <1>1, <1>7, StillForClients DEF Sweep
  <1>8. CASE ClientStep
    <2>1. leases' = leases
      BY <1>8 DEF ClientStep, SubmitPlain, SubmitRow, SubmitCommit, SubmitFails, SubmitDies,
                  CancelRelease, CancelDies, CancelContext, RecoverDies
    <2>2. QED
      BY <1>1, <1>4, <1>8, <2>1, StillForClients DEF ClientStep
  <1>9. QED
    BY <1>2, <1>3, <1>4, <1>5, <1>6, <1>7, <1>8 DEF Next

\* No other step than a crash or a failing checkout leaves a directory bare.
LEMMA OwnedStep ==
    ASSUME NoCrash, NoHalfCheckout, Attendance, \A j \in Jobs : Owned(j), [Next]_vars,
           NEW k \in Jobs
    PROVE  Owned(k)'
  <1> USE DEF Attendance, Order
  <1>1. Still(k) => Owned(k)'
    BY DEF Still, Owned
  <1>2. ASSUME NEW j \in Jobs, Claim(j)
        PROVE  Owned(k)'
    <2>1. at[j] = "idle" /\ at' = [at EXCEPT ![j] = "claimed"] /\ worktree' = worktree
      BY <1>2 DEF Claim, InState, WorkedIsClaimed
    <2>2. QED
      BY <2>1 DEF Owned, TypeOK
  <1>3. ASSUME NEW j \in Jobs, WorkerStep(j)
        PROVE  Owned(k)'
    BY <1>1, <1>3, WorkerOwns, WorkerOthers
  <1>4. ASSUME NEW j \in Jobs, ProcExit(j) \/ RecoverDies(j)
        PROVE  Owned(k)'
    BY <1>4 DEF ProcExit, RecoverDies, Owned
  <1>5. ASSUME NEW a \in Actors, NEW j \in Jobs, RecoveryStep(a, j)
        PROVE  Owned(k)'
    BY <1>5 DEF RecoveryStep, FindOrphan, CommitRecovery, KillGroup, RemoveTree, CleanupFails,
                ClearPending, ReleaseRecovered, SweepRecovered, TypeOK, Owned
  <1>6. CASE ServerStep
    BY <1>6 DEF ServerStep, Serve, RestorePins, RecoverInterrupted, Recovery, Shutdown, Exit,
                Crash, NoCrash, Event, Owned
  <1>7. CASE Sweep \/ UNCHANGED vars
    BY <1>1, <1>7, StillForClients
  <1>8. CASE ClientStep
    BY <1>1, <1>4, <1>8, StillForClients DEF ClientStep
  <1>9. QED
    BY <1>2, <1>3, <1>4, <1>5, <1>6, <1>7, <1>8 DEF Next

\* finish: the test's "terminal job retains leases" is impossible but for a crash
\* between the two statements of finish, and a DELETE that fails: the finding
\* lease_leak has no third cause, stops, failing calls and recoveries included.
THEOREM LeasesReturned ==
    ASSUME NoCrash, NoLeaseLoss
    PROVE  Spec => []TerminalJobsHoldNoLease
  <1> DEFINE Returns == \A j \in Jobs : Returned(j)
  <1>1. Init => Returns
    BY DEF Init, Returned
  <1>2. Attendance /\ Returns /\ [Next]_vars => Returns'
    BY ReturnedStep
  <1>3. Attendance /\ Returns => TerminalJobsHoldNoLease
    BY DEF Attendance, Order, TypeOK, Returned, TerminalJobsHoldNoLease
  <1> HIDE DEF Returns
  <1>4. QED
    BY <1>1, <1>2, <1>3, AttendanceKept, PTL DEF Spec

\* The queue jams by nothing but a crash, a lease whose DELETE fails or a checkout
\* that fails: the exception that EveryJobEnds makes is needed for these alone.
THEOREM NeverJammed ==
    ASSUME NoCrash, NoLeaseLoss, NoHalfCheckout
    PROVE  Spec => []~Jammed
  <1> DEFINE Free == \A j \in Jobs : Returned(j) /\ Owned(j)
  <1>1. Init => Free
    BY JobsAssumption DEF Init, Returned, Owned
  <1>2. Attendance /\ Free /\ [Next]_vars => Free'
    BY ReturnedStep, OwnedStep
  <1>3. Attendance /\ Free => ~Jammed
    BY DEF Attendance, Order, TypeOK, Returned, Owned, Jammed, Terminal
  <1> HIDE DEF Free
  <1>4. QED
    BY <1>1, <1>2, <1>3, AttendanceKept, PTL DEF Spec
=============================================================================
