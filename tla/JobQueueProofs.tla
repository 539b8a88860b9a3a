--------------------------- MODULE JobQueueProofs ---------------------------
(***************************************************************************)
(* Proofs about JobQueue for every value of its constants: the queue of    *)
(* QueueSpec is implemented, so what that queue promises holds of BitCI,   *)
(* whatever crashes, failures, cancels and recoveries come in between.     *)
(***************************************************************************)
EXTENDS JobQueue, FiniteSetTheorems, TLAPS

USE DEF rowVars, pinVars, treeVars, workVars, recVars, cliVars, vars

-----------------------------------------------------------------------------
(* Types: one lemma per part of the system, one step per action. *)

USE DEF States, Terminal, Codes, Commands, Actors, Trees, Procs, Places, Tails, Servers

\* Submitting and cancelling keep the types.
LEMMA ClientTypes ==
    ASSUME TypeOK, NEW b \in Batches,
           SubmitPlain(b) \/ SubmitRow(b) \/ SubmitCommit(b) \/ SubmitFails(b)
              \/ SubmitDies(b) \/ CancelRelease(b) \/ CancelDies(b)
    PROVE  TypeOK'
  <1>1. CASE SubmitPlain(b)
    BY <1>1, JobsAssumption DEF TypeOK, SubmitPlain, Enqueue
  <1>2. CASE SubmitRow(b)
    BY <1>2, JobsAssumption DEF TypeOK, SubmitRow
  <1>3. CASE SubmitCommit(b)
    BY <1>3, JobsAssumption DEF TypeOK, SubmitCommit, Enqueue
  <1>4. CASE SubmitFails(b)
    BY <1>4, JobsAssumption DEF TypeOK, SubmitFails, Event
  <1>5. CASE SubmitDies(b)
    BY <1>5, JobsAssumption DEF TypeOK, SubmitDies, Event
  <1>6. CASE CancelRelease(b)
    BY <1>6, JobsAssumption DEF TypeOK, CancelRelease, Release, Releasable
  <1>7. CASE CancelDies(b)
    BY <1>7, JobsAssumption DEF TypeOK, CancelDies, Event
  <1>8. QED
    BY <1>1, <1>2, <1>3, <1>4, <1>5, <1>6, <1>7

\* Cancelling a job and killing bitci recover keep the types.
LEMMA ClientJobTypes ==
    ASSUME TypeOK, NEW j \in Jobs, CancelContext(j) \/ RecoverDies(j)
    PROVE  TypeOK'
  <1>1. CASE CancelContext(j)
    BY <1>1, JobsAssumption DEF TypeOK, CancelContext, Event
  <1>2. CASE RecoverDies(j)
    BY <1>2 DEF TypeOK, RecoverDies, Event, Pass
  <1>3. QED
    BY <1>1, <1>2

\* The steps of a worker keep the types.
LEMMA WorkerTypes ==
    ASSUME TypeOK, NEW j \in Jobs, WorkerStep(j)
    PROVE  TypeOK'
  <1>1. CASE SetupFails(j)
    BY <1>1, JobsAssumption DEF TypeOK, SetupFails, Event, GiveUp, Go, Failed
  <1>2. CASE SetupPlain(j)
    BY <1>2, JobsAssumption DEF TypeOK, SetupPlain, Go
  <1>3. CASE Collide(j)
    BY <1>3, JobsAssumption DEF TypeOK, Collide, GiveUp, Go, Failed
  <1>4. CASE BeginCheckout(j)
    BY <1>4, JobsAssumption DEF TypeOK, BeginCheckout, Mark, Go
  <1>5. CASE MakeDir(j)
    BY <1>5, JobsAssumption DEF TypeOK, MakeDir, Go
  <1>6. CASE WriteOwner(j)
    BY <1>6, JobsAssumption DEF TypeOK, WriteOwner, Go
  <1>7. CASE CheckOut(j)
    BY <1>7, JobsAssumption DEF TypeOK, CheckOut, Go
  <1>8. CASE CheckoutFails(j)
    BY <1>8, JobsAssumption DEF TypeOK, CheckoutFails, Event, GiveUp, Go, Failed
  <1>9. CASE LogFails(j)
    BY <1>9, JobsAssumption DEF TypeOK, LogFails, Event, Go, Failed
  <1>10. CASE Start(j)
    BY <1>10, JobsAssumption DEF TypeOK, Start, Go
  <1>11. CASE StartFails(j)
    BY <1>11, JobsAssumption DEF TypeOK, StartFails, Event, GiveUp, Go, Failed,
       AfterRun
  <1>12. CASE RecordGroup(j)
    <2>1. CASE worktree[j] = "owned"
      <3>1. proc' \in [Jobs -> Procs]
        <4>1. proc \in [Jobs -> Procs]
          BY DEF TypeOK
        <4>2. proc' = proc \/ proc' = [proc EXCEPT ![j] = "recorded"]
          BY <1>12, <2>1, <4>1 DEF RecordGroup
        <4>3. QED
          BY <4>1, <4>2 DEF Procs
      <3>2. QED
        BY <1>12, <2>1, <3>1 DEF TypeOK, RecordGroup, Go
    <2>2. CASE worktree[j] # "owned"
      BY <1>12, <2>2 DEF TypeOK, RecordGroup, Go
    <2>3. QED
      BY <2>1, <2>2
  <1>13. CASE RecordFails(j)
    BY <1>13, JobsAssumption DEF TypeOK, RecordFails, Event, GiveUp, Go, Failed,
       AfterRun
  <1>14. CASE SetPid(j)
    <2>1. CASE state[j] = "running"
      <3>1. /\ workerPid' = [workerPid EXCEPT ![j] = cmd[j]] /\ Go(j, "wait")
            /\ UNCHANGED <<state, exitCode, cleanupPending, leases, pinVars, treeVars, cmd,
                           out, recVars, server, cliVars, events>>
        BY <1>14, <2>1 DEF SetPid
      <3>2. /\ workerPid' \in [Jobs -> Commands \cup {"none"}]
            /\ at' \in [Jobs -> Places]
        BY <3>1 DEF TypeOK, Go, Places
      <3>3. QED
        BY <3>1, <3>2 DEF TypeOK
    <2>2. CASE state[j] # "running"
      <3>1. /\ at' = [at EXCEPT ![j] = AfterRun(j)]
            /\ out' = [out EXCEPT ![j] = Failed(FALSE)]
            /\ proc' = [proc EXCEPT ![j] = "none"]
            /\ groupFile' = groupFile \ {j}
            /\ UNCHANGED <<rowVars, pinVars, worktree, cmd, recVars, server, cliVars,
                           events>>
        BY <1>14, <2>2 DEF SetPid, GiveUp, Go
      <3>2. QED
        BY <3>1 DEF TypeOK, Failed, AfterRun
    <2>3. QED
      BY <2>1, <2>2
  <1>15. CASE Reap(j)
    BY <1>15, JobsAssumption DEF TypeOK, Reap, Go
  <1>16. CASE ClearPid(j)
    <2>1. workerPid' \in [Jobs -> Commands \cup {"none"}]
      BY <1>16 DEF TypeOK, ClearPid
    <2>2. /\ cmd' = cmd \/ cmd' = [cmd EXCEPT ![j] = "task"]
          /\ out' = out \/ out' = [out EXCEPT ![j] = Failed(FALSE)]
      BY <1>16 DEF ClearPid, GiveUp
    <2>3. \E place \in {"start", "remove", "finish"} : Go(j, place)
      BY <1>16 DEF ClearPid, GiveUp, AfterRun
    <2>4. at' \in [Jobs -> Places]
      BY <2>3 DEF TypeOK, Go
    <2>5. /\ cmd' \in [Jobs -> Commands]
          /\ out' \in [Jobs -> [code : Codes, pending : BOOLEAN]]
      <3> DEFINE Outcomes == [code : Codes, pending : BOOLEAN]
      <3>1. Failed(FALSE) \in Outcomes /\ out \in [Jobs -> Outcomes]
        BY DEF Failed, TypeOK
      <3>2. cmd' \in [Jobs -> Commands]
        BY <2>2 DEF TypeOK
      <3> HIDE DEF Outcomes
      <3>3. out' \in [Jobs -> Outcomes]
        BY <2>2, <3>1
      <3>4. QED
        BY <3>2, <3>3 DEF Outcomes
    <2>6. UNCHANGED <<state, exitCode, cleanupPending, leases, pinVars, treeVars,
                      recVars, server, cliVars, events>>
      BY <1>16 DEF ClearPid
    <2>7. QED
      BY <2>1, <2>4, <2>5, <2>6 DEF TypeOK
  <1>17. CASE Remove(j)
    BY <1>17, JobsAssumption DEF TypeOK, Remove, Go
  <1>18. CASE RemoveFails(j)
    <2>1. out[j] \in [code : Codes, pending : BOOLEAN]
      BY DEF TypeOK
    <2>2. out' \in [Jobs -> [code : Codes, pending : BOOLEAN]]
      <3> DEFINE Outcomes == [code : Codes, pending : BOOLEAN]
                 o == [out[j] EXCEPT !.pending = TRUE,
                                     !.code = IF @ = "0" THEN "125" ELSE @]
      <3>1. o \in Outcomes /\ out \in [Jobs -> Outcomes]
        BY <2>1 DEF TypeOK, Codes
      <3>2. out' = [out EXCEPT ![j] = o]
        BY <1>18 DEF RemoveFails
      <3> HIDE DEF Outcomes, o
      <3>3. out' \in [Jobs -> Outcomes]
        BY <3>1, <3>2
      <3>4. QED
        BY <3>3 DEF Outcomes
    <2>3. QED
      BY <1>18, <2>2 DEF TypeOK, RemoveFails, Event, Go
  <1>19. CASE Finish(j)
    BY <1>19, JobsAssumption DEF TypeOK, Finish, Go, Report
  <1>20. CASE FinishFails(j)
    BY <1>20, JobsAssumption DEF TypeOK, FinishFails, Event, Go, Report
  <1>21. CASE ReleaseLeases(j)
    BY <1>21, JobsAssumption DEF TypeOK, ReleaseLeases, Go
  <1>22. CASE ReleaseLeasesFails(j)
    BY <1>22, JobsAssumption DEF TypeOK, ReleaseLeasesFails, Event, Go, Report,
       Release, Releasable
  <1>23. CASE Unpin(j)
    BY <1>23, JobsAssumption DEF TypeOK, Unpin, Go, Release, Releasable
  <1>24. CASE UnpinFails(j)
    BY <1>24, JobsAssumption DEF TypeOK, UnpinFails, Event, Go, Report, Release,
       Releasable
  <1>25. QED
    BY <1>1, <1>2, <1>3, <1>4, <1>5, <1>6, <1>7, <1>8, <1>9, <1>10, <1>11,
       <1>12, <1>13, <1>14, <1>15, <1>16, <1>17, <1>18, <1>19, <1>20, <1>21,
       <1>22, <1>23, <1>24 DEF WorkerStep

\* The steps of a recovery keep the types.
LEMMA RecoveryTypes ==
    ASSUME TypeOK, NEW a \in Actors, NEW j \in Jobs, RecoveryStep(a, j)
    PROVE  TypeOK'
  <1>1. CASE FindOrphan(a, j)
    BY <1>1, JobsAssumption DEF TypeOK, FindOrphan, Event, Pass, LooksOrphaned
  <1>2. CASE CommitRecovery(a, j)
    <2>1. /\ \/ state' = state
             \/ state' = [CancelQueued({BatchOf[j]}) EXCEPT ![j] = "failed"]
          /\ exitCode' = exitCode \/ exitCode' = [exitCode EXCEPT ![j] = "125"]
          /\ workerPid' = workerPid \/ workerPid' = [workerPid EXCEPT ![j] = "none"]
          /\ \/ cleanupPending' = cleanupPending
             \/ cleanupPending' = [cleanupPending EXCEPT ![j] = Sha(j)]
          /\ leases' \subseteq leases
      BY <1>2 DEF CommitRecovery
    <2>2. /\ Sha(j) \in BOOLEAN
          /\ CancelQueued({BatchOf[j]}) \in [Jobs -> States]
      BY DEF TypeOK, Sha, CancelQueued
    <2>3. \E place \in {"kill", "sweep", "idle"} : Pass(a, j, place)
      BY <1>2 DEF CommitRecovery
    <2>4. recovery' \in [Actors -> [Jobs -> Tails]]
      BY <2>3 DEF TypeOK, Pass
    <2>5. seen' \in [Actors -> [Jobs -> Commands \cup {"none"}]]
      BY <1>2 DEF TypeOK, CommitRecovery
    <2>6. /\ state' \in [Jobs -> States]
          /\ exitCode' \in [Jobs -> Codes \cup {"null"}]
          /\ workerPid' \in [Jobs -> Commands \cup {"none"}]
          /\ cleanupPending' \in [Jobs -> BOOLEAN]
          /\ leases' \subseteq Resources \X Jobs
      <3>1. state' \in [Jobs -> States]
        <4>1. state \in [Jobs -> States] /\ "failed" \in States
          BY DEF TypeOK, States, Terminal
        <4> DEFINE cancelled == CancelQueued({BatchOf[j]})
        <4>2. cancelled \in [Jobs -> States]
          BY <2>2
        <4>3. state' = state \/ state' = [cancelled EXCEPT ![j] = "failed"]
          BY <2>1
        <4> HIDE DEF cancelled
        <4>4. QED
          BY <4>1, <4>2, <4>3
      <3>2. exitCode' \in [Jobs -> Codes \cup {"null"}]
        BY <2>1 DEF TypeOK
      <3>3. workerPid' \in [Jobs -> Commands \cup {"none"}]
        BY <2>1 DEF TypeOK
      <3>4. cleanupPending' \in [Jobs -> BOOLEAN]
        <4>1. cleanupPending \in [Jobs -> BOOLEAN]
          BY DEF TypeOK
        <4>2. PICK pending \in BOOLEAN : pending = Sha(j)
          BY <2>2
        <4>3. \/ cleanupPending' = cleanupPending
              \/ cleanupPending' = [cleanupPending EXCEPT ![j] = pending]
          BY <2>1, <4>2
        <4>4. QED
          BY <4>1, <4>3
      <3>5. leases' \subseteq Resources \X Jobs
        BY <2>1 DEF TypeOK
      <3>6. QED
        BY <3>1, <3>2, <3>3, <3>4, <3>5
    <2>7. UNCHANGED <<pinVars, treeVars, workVars, server, cliVars, events>>
      BY <1>2 DEF CommitRecovery
    <2>8. QED
      BY <2>4, <2>5, <2>6, <2>7 DEF TypeOK
  <1>3. CASE KillGroup(a, j)
    BY <1>3, JobsAssumption DEF TypeOK, KillGroup, Pass, Killed
  <1>4. CASE RemoveTree(a, j)
    BY <1>4, JobsAssumption DEF TypeOK, RemoveTree, Pass
  <1>5. CASE CleanupFails(a, j)
    BY <1>5, JobsAssumption DEF TypeOK, CleanupFails, Event, Pass, Report, Killed
  <1>6. CASE ClearPending(a, j)
    BY <1>6, JobsAssumption DEF TypeOK, ClearPending, Pass
  <1>7. CASE ReleaseRecovered(a, j)
    BY <1>7, JobsAssumption DEF TypeOK, ReleaseRecovered, Pass, Release,
       Releasable
  <1>8. CASE SweepRecovered(a, j)
    BY <1>8, JobsAssumption DEF TypeOK, SweepRecovered, Pass, Release, Releasable
  <1>9. QED
    BY <1>1, <1>2, <1>3, <1>4, <1>5, <1>6, <1>7, <1>8 DEF RecoveryStep

\* The start, the shutdown and the crash of serve keep the types.
LEMMA ServerTypes ==
    ASSUME TypeOK, ServerStep
    PROVE  TypeOK'
  <1>1. CASE Serve
    BY <1>1, JobsAssumption DEF TypeOK, Serve
  <1>2. CASE RestorePins
    BY <1>2, JobsAssumption DEF TypeOK, RestorePins
  <1>3. CASE RecoverInterrupted
    BY <1>3, JobsAssumption DEF TypeOK, RecoverInterrupted, Lost, CancelQueued
  <1>4. CASE Recovery
    BY <1>4, JobsAssumption DEF TypeOK, Recovery, Started, Release, Releasable
  <1>5. CASE Shutdown
    BY <1>5, JobsAssumption DEF TypeOK, Shutdown, Event
  <1>6. CASE Exit
    BY <1>6, JobsAssumption DEF TypeOK, Exit
  <1>7. CASE Crash
    BY <1>7, JobsAssumption DEF TypeOK, Crash, Event, Success
  <1>8. QED
    BY <1>1, <1>2, <1>3, <1>4, <1>5, <1>6, <1>7 DEF ServerStep
\* A claim takes a job's leases, pins its batch and retires rows.
LEMMA ClaimTypes ==
    ASSUME TypeOK, NEW j \in Jobs, Claim(j)
    PROVE  TypeOK'
  BY JobsAssumption, LimitAssumption
  DEF TypeOK, Claim, Retire, RetireCodes, Success

\* A task's end and a stuttering step change nothing the types speak of.
LEMMA TypeStep ==
    ASSUME TypeOK, [Next]_vars
    PROVE  TypeOK'
  <1>1. CASE ClientStep
    BY <1>1, ClientTypes, ClientJobTypes DEF ClientStep
  <1>2. ASSUME NEW j \in Jobs, Claim(j) \/ WorkerStep(j) \/ ProcExit(j)
        PROVE  TypeOK'
    <2>1. CASE ProcExit(j)
      BY <2>1 DEF TypeOK, ProcExit
    <2>2. QED
      BY <1>2, <2>1, ClaimTypes, WorkerTypes
  <1>3. CASE Sweep
    BY <1>3, JobsAssumption DEF TypeOK, Sweep, Retire, RetireCodes, Release,
       Releasable
  <1>4. ASSUME NEW a \in Actors, NEW j \in Jobs, RecoveryStep(a, j)
        PROVE  TypeOK'
    BY <1>4, RecoveryTypes
  <1>5. CASE ServerStep
    BY <1>5, ServerTypes
  <1>6. CASE UNCHANGED vars
    BY <1>6 DEF TypeOK
  <1>7. QED
    BY <1>1, <1>2, <1>3, <1>4, <1>5, <1>6 DEF Next

\* Every reachable state of the job store, of serve's memory and of its clients
\* is of the declared types (the schema of the jobs table and the places of the
\* worker and recovery code).
THEOREM TypeCorrect == Spec => []TypeOK
  <1>1. Init => TypeOK
    BY JobsAssumption DEF Init, TypeOK, Success
  <1>2. TypeOK /\ [Next]_vars => TypeOK'
    BY TypeStep
  <1>3. QED
    BY <1>1, <1>2, PTL DEF Spec

HIDE DEF States, Terminal, Codes, Commands, Actors, Trees, Procs, Places, Tails, Servers

-----------------------------------------------------------------------------
(* The inductive invariant. *)

\* The stage lock is held for rows that are not in the table yet.
SubmittedIsNew == \A b \in submitting : \A j \in JobsOf(b) : state[j] = "absent"

\* A worker runs claimed jobs, and a claimed job is never queued again.
WorkedIsClaimed == \A j \in Jobs : at[j] # "idle" => state[j] \notin {"absent", "queued"}

\* A worker returns leases and pins of jobs that have their verdict.
ReturnedIsOver == \A j \in Jobs : at[j] \in {"leases", "unpin"} => state[j] \in Terminal

Order == TypeOK /\ SubmittedIsNew /\ WorkedIsClaimed /\ ReturnedIsOver

\* What most steps do: no row, lease or exit code changes, and workers move on
\* without reaching the steps after the verdict.
Quiet ==
    /\ UNCHANGED <<state, exitCode, leases>>
    /\ submitting' \subseteq submitting
    /\ \A j \in Jobs : at'[j] \notin {at[j], "idle"} =>
          /\ at[j] # "idle"
          /\ at'[j] \in {"leases", "unpin"} => at[j] \in {"leases", "unpin"}
    /\ \A j \in Jobs : state[j] \in {"queued", "running"} =>
          (BatchOf[j] \in refs => BatchOf[j] \in refs')

\* A release leaves the refs of queued and running jobs alone.
LEMMA ReleaseKeeps ==
    ASSUME NEW st, NEW pending, NEW bs, Release(st, pending, bs),
           NEW j \in Jobs, st[j] \in {"queued", "running"}, BatchOf[j] \in refs
    PROVE  BatchOf[j] \in refs'
  BY DEF Release, Releasable, Protected, JobsOf

\* The steps of a worker that are not the verdict or the return of the leases.
LEMMA QuietWorker ==
    ASSUME TypeOK, NEW j \in Jobs, WorkerStep(j), ~Finish(j), ~ReleaseLeases(j)
    PROVE  Quiet
  <1> USE DEF TypeOK, Quiet, GiveUp, Go
  <1>1. CASE SetupFails(j)
    BY <1>1 DEF SetupFails
  <1>2. CASE SetupPlain(j)
    BY <1>2 DEF SetupPlain
  <1>3. CASE Collide(j)
    BY <1>3 DEF Collide
  <1>4. CASE BeginCheckout(j)
    BY <1>4 DEF BeginCheckout
  <1>5. CASE MakeDir(j)
    BY <1>5 DEF MakeDir
  <1>6. CASE WriteOwner(j)
    BY <1>6 DEF WriteOwner
  <1>7. CASE CheckOut(j)
    BY <1>7 DEF CheckOut
  <1>8. CASE CheckoutFails(j)
    BY <1>8 DEF CheckoutFails
  <1>9. CASE LogFails(j)
    BY <1>9 DEF LogFails
  <1>10. CASE Start(j)
    BY <1>10 DEF Start
  <1>11. CASE StartFails(j)
    BY <1>11 DEF StartFails, AfterRun
  <1>12. CASE RecordGroup(j)
    BY <1>12 DEF RecordGroup
  <1>13. CASE RecordFails(j)
    BY <1>13 DEF RecordFails, AfterRun
  <1>14. CASE SetPid(j)
    BY <1>14 DEF SetPid, AfterRun
  <1>15. CASE Reap(j)
    BY <1>15 DEF Reap
  <1>16. CASE ClearPid(j)
    BY <1>16 DEF ClearPid, AfterRun
  <1>17. CASE Remove(j)
    BY <1>17 DEF Remove
  <1>18. CASE RemoveFails(j)
    BY <1>18 DEF RemoveFails
  <1>19. CASE FinishFails(j)
    BY <1>19 DEF FinishFails
  <1>20. CASE ReleaseLeasesFails(j)
    BY <1>20, ReleaseKeeps DEF ReleaseLeasesFails
  <1>21. CASE Unpin(j)
    BY <1>21, ReleaseKeeps DEF Unpin
  <1>22. CASE UnpinFails(j)
    BY <1>22, ReleaseKeeps DEF UnpinFails
  <1>23. QED
    BY <1>1, <1>2, <1>3, <1>4, <1>5, <1>6, <1>7, <1>8, <1>9, <1>10, <1>11, <1>12,
       <1>13, <1>14, <1>15, <1>16, <1>17, <1>18, <1>19, <1>20, <1>21, <1>22 DEF WorkerStep

\* The steps of a recovery after its transaction.
LEMMA QuietRecovery ==
    ASSUME TypeOK, NEW a \in Actors, NEW j \in Jobs,
           RecoveryStep(a, j), ~CommitRecovery(a, j)
    PROVE  Quiet
  <1> USE DEF TypeOK, Quiet
  <1>1. CASE FindOrphan(a, j)
    BY <1>1 DEF FindOrphan
  <1>2. CASE KillGroup(a, j)
    BY <1>2 DEF KillGroup
  <1>3. CASE RemoveTree(a, j)
    BY <1>3 DEF RemoveTree
  <1>4. CASE CleanupFails(a, j)
    BY <1>4 DEF CleanupFails
  <1>5. CASE ClearPending(a, j)
    BY <1>5 DEF ClearPending
  <1>6. CASE ReleaseRecovered(a, j)
    BY <1>6, ReleaseKeeps DEF ReleaseRecovered
  <1>7. CASE SweepRecovered(a, j)
    BY <1>7, ReleaseKeeps DEF SweepRecovered
  <1>8. QED
    BY <1>1, <1>2, <1>3, <1>4, <1>5, <1>6, <1>7 DEF RecoveryStep

\* The life of serve, but for the transaction of its startup.
LEMMA QuietServer ==
    ASSUME TypeOK, ServerStep, ~RecoverInterrupted
    PROVE  Quiet
  <1> USE DEF TypeOK, Quiet
  <1>1. CASE Serve
    BY <1>1 DEF Serve
  <1>2. CASE RestorePins
    BY <1>2 DEF RestorePins, Protected, JobsOf
  <1>3. CASE Recovery
    BY <1>3, ReleaseKeeps DEF Recovery
  <1>4. CASE Shutdown
    BY <1>4 DEF Shutdown
  <1>5. CASE Exit
    BY <1>5 DEF Exit
  <1>6. CASE Crash
    BY <1>6 DEF Crash
  <1>7. QED
    BY <1>1, <1>2, <1>3, <1>4, <1>5, <1>6 DEF ServerStep

\* Clients that fail, die or unpin what they cancelled.
LEMMA QuietClient ==
    ASSUME TypeOK, NEW b \in Batches,
           SubmitFails(b) \/ SubmitDies(b) \/ CancelRelease(b) \/ CancelDies(b)
    PROVE  Quiet
  <1> USE DEF TypeOK, Quiet
  <1>1. CASE SubmitFails(b)
    BY <1>1 DEF SubmitFails
  <1>2. CASE SubmitDies(b)
    BY <1>2 DEF SubmitDies
  <1>3. CASE CancelRelease(b)
    BY <1>3, ReleaseKeeps DEF CancelRelease
  <1>4. CASE CancelDies(b)
    BY <1>4 DEF CancelDies
  <1>5. QED
    BY <1>1, <1>2, <1>3, <1>4

\* The steps that are not quiet: ten places of the code write the jobs table's
\* states or the leases table, or make a batch pending.
Loud ==
    \/ \E b \in Batches : SubmitPlain(b) \/ SubmitRow(b) \/ SubmitCommit(b)
    \/ \E j \in Jobs : CancelContext(j) \/ Claim(j) \/ Finish(j) \/ ReleaseLeases(j)
    \/ Sweep
    \/ \E a \in Actors, j \in Jobs : CommitRecovery(a, j)
    \/ RecoverInterrupted

\* Every step is quiet or one of the loud ones.
LEMMA QuietOrLoud ==
    ASSUME TypeOK, [Next]_vars
    PROVE  Quiet \/ Loud
  <1>1. CASE ClientStep
    <2>1. ASSUME NEW j \in Jobs, RecoverDies(j)
          PROVE  Quiet
      BY <2>1 DEF TypeOK, Quiet, RecoverDies
    <2>2. QED
      BY <1>1, <2>1, QuietClient DEF ClientStep, Loud
  <1>2. ASSUME NEW j \in Jobs, Claim(j) \/ WorkerStep(j) \/ ProcExit(j)
        PROVE  Quiet \/ Loud
    <2>1. CASE ProcExit(j)
      BY <2>1 DEF TypeOK, Quiet, ProcExit
    <2>2. QED
      BY <1>2, <2>1, QuietWorker DEF Loud
  <1>3. ASSUME NEW a \in Actors, NEW j \in Jobs, RecoveryStep(a, j)
        PROVE  Quiet \/ Loud
    BY <1>3, QuietRecovery DEF Loud
  <1>4. CASE ServerStep
    BY <1>4, QuietServer DEF Loud
  <1>5. CASE UNCHANGED vars
    BY <1>5 DEF TypeOK, Quiet
  <1>6. QED
    BY <1>1, <1>2, <1>3, <1>4, <1>5 DEF Next, Loud

-----------------------------------------------------------------------------
(* The order in which a row changes. *)

\* The state and the exit code in the row of j stay or take one legal step.
Moved(j) ==
    \/ state'[j] = state[j] /\ exitCode'[j] = exitCode[j]
    \/ state[j] = "absent" /\ state'[j] = "queued"
    \/ state[j] = "queued" /\ state'[j] \in {"running", "failed", "cancelled"}
    \/ state[j] = "running" /\ state'[j] \in {"passed", "failed"}

\* A worker's verdict ends a running job and rewrites no other row.
LEMMA FinishMoves ==
    ASSUME Order, NEW j \in Jobs, Finish(j), NEW k \in Jobs
    PROVE  Moved(k)
  <1> USE DEF Order, TypeOK, Moved
  <1>1. CASE state[j] \in {"queued", "running"}
    <2>1. state[j] = "running"
      BY <1>1 DEF Finish, WorkedIsClaimed
    <2>2. /\ state' = [state EXCEPT ![j] = IF out[j].code = "0" THEN "passed" ELSE "failed"]
          /\ exitCode' = [exitCode EXCEPT ![j] = out[j].code]
      BY <1>1 DEF Finish
    <2>3. QED
      BY <2>1, <2>2
  <1>2. CASE state[j] \notin {"queued", "running"}
    BY <1>2 DEF Finish
  <1>3. QED
    BY <1>1, <1>2

\* A recovery fails the running job it took and cancels queued ones.
LEMMA RecoveryMoves ==
    ASSUME Order, NEW a \in Actors, NEW j \in Jobs, CommitRecovery(a, j), NEW k \in Jobs
    PROVE  Moved(k)
  <1> USE DEF Order, TypeOK, Moved
  <1>1. CASE AsRead(a, j)
    <2>1. /\ state[j] = "running"
          /\ state' = [CancelQueued({BatchOf[j]}) EXCEPT ![j] = "failed"]
          /\ exitCode' = [exitCode EXCEPT ![j] = "125"]
      BY <1>1 DEF CommitRecovery, AsRead
    <2>2. k # j => state'[k] = CancelQueued({BatchOf[j]})[k]
      BY <2>1 DEF CancelQueued
    <2>3. state'[j] = "failed"
      BY <2>1 DEF CancelQueued
    <2>4. k # j => state'[k] = IF state[k] = "queued" /\ BatchOf[k] = BatchOf[j]
                               THEN "cancelled" ELSE state[k]
      BY <2>2 DEF CancelQueued
    <2>5. QED
      BY <2>1, <2>3, <2>4
  <1>2. CASE ~AsRead(a, j)
    BY <1>2 DEF CommitRecovery
  <1>3. QED
    BY <1>1, <1>2

\* A claim starts one queued job and retires others.
LEMMA ClaimMoves ==
    ASSUME Order, NEW j \in Jobs, Claim(j), NEW k \in Jobs
    PROVE  Moved(k) /\ (k = j => state'[k] = "running")
  <1>1. PICK dropped \in SUBSET InState("queued") :
           /\ state' = [Retire(dropped) EXCEPT ![j] = "running"]
           /\ exitCode' = RetireCodes(dropped)
    BY DEF Claim
  <1>2. /\ state'[j] = "running" /\ state[j] = "queued"
        /\ k # j => state'[k] = Retire(dropped)[k]
    BY <1>1 DEF Claim, Retire, InState
  <1>3. QED
    BY <1>1, <1>2 DEF Moved, Retire, RetireCodes, InState, Order, TypeOK

\* Each loud step changes a row's state only as Moved allows.
LEMMA MovesLoud ==
    ASSUME Order, Loud, NEW k \in Jobs
    PROVE  Moved(k)
  <1> USE DEF Order, TypeOK, Moved
  <1>1. ASSUME NEW b \in Batches, SubmitPlain(b)
        PROVE  Moved(k)
    BY <1>1 DEF SubmitPlain, Enqueue, IdsFollow, JobsOf
  <1>2. ASSUME NEW b \in Batches, SubmitRow(b)
        PROVE  Moved(k)
    BY <1>2 DEF SubmitRow
  <1>3. ASSUME NEW b \in Batches, SubmitCommit(b)
        PROVE  Moved(k)
    BY <1>3 DEF SubmitCommit, Enqueue, SubmittedIsNew, JobsOf
  <1>4. ASSUME NEW j \in Jobs, CancelContext(j)
        PROVE  Moved(k)
    BY <1>4 DEF CancelContext, Cancellable
  <1>5. ASSUME NEW j \in Jobs, ReleaseLeases(j)
        PROVE  Moved(k)
    BY <1>5 DEF ReleaseLeases
  <1>6. CASE Sweep
    BY <1>6 DEF Sweep, Retire, RetireCodes, InState
  <1>7. CASE RecoverInterrupted
    BY <1>7 DEF RecoverInterrupted, Lost, CancelQueued, InState
  <1>8. QED
    BY <1>1, <1>2, <1>3, <1>4, <1>5, <1>6, <1>7, ClaimMoves, FinishMoves,
       RecoveryMoves DEF Loud

\* Every step takes every row a legal step of submit, claimContext, finish,
\* CancelContext or a recovery.
LEMMA Moves ==
    ASSUME Order, [Next]_vars, NEW k \in Jobs
    PROVE  Moved(k)
  BY QuietOrLoud, MovesLoud DEF Order, Quiet, Moved

\* Only a claim puts a worker to work, and only its verdict lets it go on to the
\* leases.
LEMMA WorkerLoud ==
    ASSUME Order, Loud, NEW k \in Jobs
    PROVE  /\ at'[k] # "idle" => at[k] # "idle" \/ state'[k] = "running"
           /\ at'[k] \in {"leases", "unpin"} =>
                 at[k] \in {"leases", "unpin"} \/ state'[k] \in Terminal
  <1> USE DEF Order, TypeOK
  <1>1. ASSUME NEW b \in Batches, SubmitPlain(b) \/ SubmitRow(b) \/ SubmitCommit(b)
        PROVE  UNCHANGED at
    BY <1>1 DEF SubmitPlain, SubmitRow, SubmitCommit
  <1>2. ASSUME NEW j \in Jobs, CancelContext(j)
        PROVE  UNCHANGED at
    BY <1>2 DEF CancelContext
  <1>3. ASSUME NEW j \in Jobs, Claim(j)
        PROVE  /\ at'[k] = IF k = j THEN "claimed" ELSE at[k]
               /\ k = j => state'[k] = "running"
    BY <1>3, ClaimMoves DEF Claim
  <1>4. ASSUME NEW j \in Jobs, Finish(j)
        PROVE  /\ at'[k] # "idle" => at[k] # "idle"
               /\ at'[k] \in {"leases", "unpin"} =>
                     at[k] \in {"leases", "unpin"} \/ state'[k] \in Terminal
    <2>1. CASE state[j] \in {"queued", "running"}
      BY <1>4, <2>1 DEF Finish, Go, Terminal
    <2>2. CASE state[j] \notin {"queued", "running"}
      BY <1>4, <2>2 DEF Finish, Go
    <2>3. QED
      BY <2>1, <2>2
  <1>5. ASSUME NEW j \in Jobs, ReleaseLeases(j)
        PROVE  /\ at[j] = "leases"
               /\ at'[k] = IF k = j THEN "unpin" ELSE at[k]
    BY <1>5 DEF ReleaseLeases, Go
  <1>6. CASE Sweep
    BY <1>6 DEF Sweep
  <1>7. ASSUME NEW a \in Actors, NEW j \in Jobs, CommitRecovery(a, j)
        PROVE  UNCHANGED at
    BY <1>7 DEF CommitRecovery
  <1>8. CASE RecoverInterrupted
    BY <1>8 DEF RecoverInterrupted
  <1>9. QED
    BY <1>1, <1>2, <1>3, <1>4, <1>5, <1>6, <1>7, <1>8 DEF Loud

\* After a loud step the batch under submission still has no rows.
LEMMA SubmittedLoud ==
    ASSUME Order, Loud
    PROVE  SubmittedIsNew'
  <1> USE DEF Order, SubmittedIsNew, JobsOf
  <1>1. ASSUME NEW b \in Batches, SubmitPlain(b) \/ SubmitRow(b) \/ SubmitCommit(b)
        PROVE  SubmittedIsNew'
    BY <1>1 DEF SubmitPlain, SubmitRow, SubmitCommit, IdsFollow, StageFree
  <1>2. ASSUME NEW j \in Jobs, Claim(j)
        PROVE  SubmittedIsNew'
    BY <1>2 DEF Claim, WorkerIdle, StageFree
  <1>3. CASE Sweep
    BY <1>3 DEF Sweep, WorkerIdle, StageFree
  <1>4. ASSUME NEW j \in Jobs, CancelContext(j) \/ Finish(j) \/ ReleaseLeases(j)
        PROVE  SubmittedIsNew'
    BY <1>4, MovesLoud DEF CancelContext, Cancellable, Finish, ReleaseLeases, TypeOK
  <1>5. ASSUME NEW a \in Actors, NEW j \in Jobs, CommitRecovery(a, j)
        PROVE  SubmittedIsNew'
    BY <1>5 DEF CommitRecovery, AsRead, CancelQueued
  <1>6. CASE RecoverInterrupted
    BY <1>6 DEF RecoverInterrupted, Lost, CancelQueued, InState
  <1>7. QED
    BY <1>1, <1>2, <1>3, <1>4, <1>5, <1>6 DEF Loud

\* Order is inductive.
LEMMA OrderStep ==
    ASSUME Order, [Next]_vars
    PROVE  Order'
  <1>1. TypeOK'
    BY TypeStep DEF Order
  <1>2. CASE Quiet
    BY <1>1, <1>2 DEF Order, TypeOK, Quiet, SubmittedIsNew, WorkedIsClaimed,
                      ReturnedIsOver, JobsOf, Terminal, Places
  <1>3. CASE Loud
    <2>1. WorkedIsClaimed' /\ ReturnedIsOver'
      BY <1>3, WorkerLoud, MovesLoud
      DEF Order, WorkedIsClaimed, ReturnedIsOver, Moved, Terminal
    <2>2. QED
      BY <1>1, <1>3, <2>1, SubmittedLoud DEF Order
  <1>4. QED
    BY <1>2, <1>3, QuietOrLoud DEF Order

\* The queue starts in order.
LEMMA InitOrder == Init => Order
  BY JobsAssumption DEF Init, Order, TypeOK, SubmittedIsNew, WorkedIsClaimed,
     ReturnedIsOver, Success, States, Terminal, Codes, Commands, Actors, Trees,
     Procs, Places, Tails, Servers

\* Rows are worked on in order: submitted, claimed, worked, given their verdict
\* and only then released (submit, claimContext, runOnce, finish).
THEOREM OrderKept == Spec => []Order
  <1>1. Init => Order
    BY InitOrder
  <1>2. Order /\ [Next]_vars => Order'
    BY OrderStep
  <1>3. QED
    BY <1>1, <1>2, PTL DEF Spec

-----------------------------------------------------------------------------
(* Verdicts. *)

\* A terminal job keeps its first verdict: no later finish, recovery, cancel or
\* scan rewrites the state or the exit code in its row.
THEOREM VerdictKept == Spec => VerdictStands
  <1> DEFINE Kept == \A j \in Jobs : state[j] \in Terminal =>
                        state'[j] = state[j] /\ exitCode'[j] = exitCode[j]
  <1>1. Order /\ [Next]_vars => [Kept]_vars
    BY Moves DEF Moved, Terminal
  <1>2. QED
    BY <1>1, OrderKept, PTL DEF Spec, VerdictStands

-----------------------------------------------------------------------------
(* Pins. *)

\* The commit of a recorded-SHA batch that still has work stays pinned: no
\* release, startup or failing client takes its private ref away.
THEOREM PinKept == Spec => []ActiveIsPinned
  <1>1. Init => ActiveIsPinned
    BY DEF Init, ActiveIsPinned
  <1>2. ASSUME Order, ActiveIsPinned, [Next]_vars
        PROVE  ActiveIsPinned'
    <2>1. SUFFICES ASSUME NEW k \in Jobs, BatchOf[k] \in ShaBatches,
                          state'[k] \in {"queued", "running"}
                   PROVE  BatchOf[k] \in refs'
      BY DEF ActiveIsPinned, Sha
    <2>2. \/ state[k] \in {"queued", "running"} /\ BatchOf[k] \in refs
          \/ state[k] = "absent" /\ state'[k] = "queued"
      BY <1>2, <2>1, Moves DEF Moved, ActiveIsPinned, Sha
    <2>3. CASE Quiet
      BY <2>1, <2>2, <2>3 DEF Quiet
    <2>4. ASSUME NEW b \in Batches, SubmitPlain(b)
          PROVE  BatchOf[k] \in refs'
      BY <2>1, <2>2, <2>4 DEF SubmitPlain, Enqueue, JobsOf
    <2>5. ASSUME NEW b \in Batches, SubmitRow(b)
          PROVE  BatchOf[k] \in refs'
      BY <2>1, <2>2, <2>5 DEF SubmitRow
    <2>6. ASSUME NEW b \in Batches, SubmitCommit(b)
          PROVE  BatchOf[k] \in refs'
      BY <2>1, <2>2, <2>6 DEF SubmitCommit, Enqueue, JobsOf
    <2>7. ASSUME NEW j \in Jobs, CancelContext(j) \/ Finish(j) \/ ReleaseLeases(j)
          PROVE  BatchOf[k] \in refs'
      <3>1. UNCHANGED refs
        BY <2>7 DEF CancelContext, Finish, ReleaseLeases
      <3>2. state[k] # "absent"
        BY <1>2, <2>1, <2>7 DEF CancelContext, Finish, ReleaseLeases, Order, TypeOK
      <3>3. QED
        BY <2>2, <3>1, <3>2
    <2>8. ASSUME NEW j \in Jobs, Claim(j)
          PROVE  BatchOf[k] \in refs'
      <3>1. refs \subseteq refs' /\ state[j] = "queued"
        BY <2>8 DEF Claim, InState
      <3>2. state[k] # "absent"
        BY <1>2, <2>1, <2>8, <3>1, ClaimMoves DEF Moved, Claim, Retire, Order, TypeOK
      <3>3. QED
        BY <2>2, <3>1, <3>2
    <2>9. CASE Sweep
      <3>1. PICK dropped \in SUBSET InState("queued") :
               /\ state' = Retire(dropped)
               /\ Release(Retire(dropped), cleanupPending, Batches)
        BY <2>9 DEF Sweep
      <3>2. Retire(dropped)[k] \in {"queued", "running"} /\ state[k] # "absent"
        BY <2>1, <3>1 DEF Retire
      <3>3. QED
        BY <2>2, <3>1, <3>2, ReleaseKeeps
    <2>10. ASSUME NEW a \in Actors, NEW j \in Jobs, CommitRecovery(a, j)
           PROVE  BatchOf[k] \in refs'
      <3>1. UNCHANGED refs
        BY <2>10 DEF CommitRecovery
      <3>2. state[k] # "absent"
        BY <1>2, <2>1, <2>10 DEF CommitRecovery, AsRead, CancelQueued, Order, TypeOK
      <3>3. QED
        BY <2>2, <3>1, <3>2
    <2>11. CASE RecoverInterrupted
      BY <2>1, <2>2, <2>11 DEF RecoverInterrupted, Lost, CancelQueued
    <2>12. QED
      BY <1>2, <2>3, <2>4, <2>5, <2>6, <2>7, <2>8, <2>9, <2>10, <2>11, QuietOrLoud
      DEF Order, Loud
  <1>3. QED
    BY <1>1, <1>2, OrderKept, PTL DEF Spec

-----------------------------------------------------------------------------
(* The abstract queue. *)

\* QueueSpec counts as JobQueue does.
LEMMA SameCardinality == \A S : Queue!Cardinality(S) = Cardinality(S)
  BY DEF Queue!Cardinality, Cardinality

\* A scan with or without a claim is a Drop or a Launch of QueueSpec.
LEMMA ClaimLaunches ==
    ASSUME Order, NEW j \in Jobs, Claim(j)
    PROVE  Queue!Next
  <1>1. PICK dropped \in SUBSET InState("queued") :
           /\ Scans({k \in InState("queued") : k < j}, dropped)
           /\ Claimable(Retire(dropped), j)
           /\ state' = [Retire(dropped) EXCEPT ![j] = "running"]
    BY DEF Claim
  <1> DEFINE verdict == [k \in dropped |-> IF k \in Undecodable THEN "failed" ELSE "cancelled"]
  <1>2. /\ DOMAIN verdict = dropped /\ verdict \in [dropped -> {"failed", "cancelled"}]
        /\ Queue!Left(verdict) = Retire(dropped)
    BY DEF Queue!Left, Retire
  <1>3. dropped \in SUBSET Queue!With("queued") /\ j \in Queue!With("queued") \ dropped
    BY <1>1, JobsAssumption DEF Claim, Scans, InState, Queue!With
  <1>4. Queue!Cardinality(Queue!With("running")) < MaxWorkers
    BY SameCardinality DEF Claim, WorkerIdle, InState, Queue!With
  <1>5. \A k \in Jobs : ResourcesFree(k) <=> Queue!Affordable(k)
    <2>1. \A r \in Resources : Holders(r) = Queue!HeldBy(r)
      BY DEF Holders, Queue!HeldBy
    <2>2. \A k \in Jobs : Uses[k] \subseteq Resources
      BY LimitAssumption
    <2>3. QED
      BY <2>1, <2>2, SameCardinality DEF ResourcesFree, Queue!Affordable
  <1>6. \A k \in Jobs : Unmet(Retire(dropped), k) = {} <=> Queue!NeedsPassed(k)
    <2>1. \A k \in Jobs : \A i \in DOMAIN Needs[k] : Needs[k][i] \in Jobs
      BY NeedsAssumption
    <2>2. \A k \in Jobs : Retire(dropped)[k] = "passed" <=> state[k] = "passed"
      BY DEF Retire, InState
    <2>3. QED
      BY <2>1, <2>2 DEF Unmet, Queue!NeedsPassed
  <1>7. Queue!NeedsPassed(j) /\ Queue!Affordable(j)
    BY <1>1, <1>5, <1>6 DEF Claimable
  <1>8. \A k \in Queue!With("queued") \ DOMAIN verdict :
           k < j => ~(Queue!NeedsPassed(k) /\ Queue!Affordable(k))
    BY <1>1, <1>2, <1>5, <1>6 DEF Scans, Claimable, InState, Queue!With
  <1>9. leases' = leases \cup (Uses[j] \X {j})
    BY DEF Claim
  <1>10. state' = [Queue!Left(verdict) EXCEPT ![j] = "running"]
    BY <1>1, <1>2
  <1> HIDE DEF verdict
  <1>11. Queue!Launch(j, verdict)
    BY <1>2, <1>3, <1>4, <1>7, <1>8, <1>9, <1>10 DEF Queue!Launch
  <1>12. QED
    BY <1>2, <1>3, <1>11 DEF Queue!Next

\* A scan that claims nothing drops queued jobs.
LEMMA SweepDrops ==
    ASSUME Order, Sweep
    PROVE  Queue!Next
  <1>1. PICK dropped \in SUBSET InState("queued") : dropped # {} /\ state' = Retire(dropped)
    BY DEF Sweep
  <1> DEFINE verdict == [k \in dropped |-> IF k \in Undecodable THEN "failed" ELSE "cancelled"]
  <1>2. /\ DOMAIN verdict = dropped /\ verdict \in [dropped -> {"failed", "cancelled"}]
        /\ Queue!Left(verdict) = Retire(dropped)
    BY DEF Queue!Left, Retire
  <1>3. dropped \in SUBSET Queue!With("queued") /\ UNCHANGED leases
    BY DEF Sweep, InState, Queue!With
  <1> HIDE DEF verdict
  <1>4. Queue!Drop(verdict)
    BY <1>1, <1>2, <1>3 DEF Queue!Drop
  <1>5. QED
    BY <1>2, <1>3, <1>4 DEF Queue!Next

\* Submitting a batch is one Accept, or a stutter when the batch has no jobs.
LEMMA SubmitAccepts ==
    ASSUME Order, NEW b \in Batches, SubmitPlain(b) \/ SubmitCommit(b)
    PROVE  Queue!Next \/ UNCHANGED <<state, leases>>
  <1>1. Enqueue(b) /\ UNCHANGED leases
    BY DEF SubmitPlain, SubmitCommit
  <1>2. \A j \in JobsOf(b) : state[j] = "absent"
    BY DEF SubmitPlain, SubmitCommit, IdsFollow, Order, SubmittedIsNew
  <1>3. CASE JobsOf(b) = {}
    BY <1>1, <1>3 DEF Enqueue, Order, TypeOK
  <1>4. ASSUME NEW j \in JobsOf(b)
        PROVE  Queue!Next
    <2>1. state' = [k \in Jobs |-> IF BatchOf[k] = BatchOf[j] THEN "queued" ELSE state[k]]
      BY <1>1 DEF Enqueue, JobsOf
    <2>2. j \in Jobs /\ Queue!Accept(BatchOf[j])
      BY <1>1, <1>2, <2>1 DEF Queue!Accept, JobsOf
    <2>3. QED
      BY <2>2 DEF Queue!Next
  <1>5. QED
    BY <1>3, <1>4

\* A cancel drops one job.
LEMMA CancelDrops ==
    ASSUME Order, NEW j \in Jobs, CancelContext(j)
    PROVE  Queue!Next
  <1> DEFINE verdict == [k \in {j} |-> "cancelled"]
  <1>1. DOMAIN verdict = {j} /\ verdict \in [{j} -> {"failed", "cancelled"}]
    OBVIOUS
  <1>2. {j} \in SUBSET Queue!With("queued") /\ UNCHANGED leases
    BY DEF CancelContext, Cancellable, Queue!With
  <1>3. state' = Queue!Left(verdict)
    BY DEF CancelContext, Queue!Left, Order, TypeOK
  <1> HIDE DEF verdict
  <1>4. Queue!Drop(verdict)
    BY <1>1, <1>2, <1>3 DEF Queue!Drop
  <1>5. QED
    BY <1>1, <1>2, <1>4 DEF Queue!Next

\* finish settles a running job, or changes nothing.
LEMMA FinishSettles ==
    ASSUME Order, NEW j \in Jobs, Finish(j)
    PROVE  Queue!Next \/ UNCHANGED <<state, leases>>
  <1>1. CASE state[j] \in {"queued", "running"}
    <2>1. state[j] = "running" /\ UNCHANGED leases
      BY <1>1 DEF Finish, Order, WorkedIsClaimed
    <2>2. PICK v \in {"passed", "failed"} : state' = [state EXCEPT ![j] = v]
      BY <1>1 DEF Finish
    <2>3. Queue!Settle(j, v)
      BY <2>1, <2>2 DEF Queue!Settle
    <2>4. QED
      BY <2>3 DEF Queue!Next
  <1>2. CASE state[j] \notin {"queued", "running"}
    BY <1>2 DEF Finish
  <1>3. QED
    BY <1>1, <1>2

\* A recovery gives up one running job, a startup all of them.
LEMMA RecoveryAborts ==
    ASSUME Order, (\E a \in Actors, j \in Jobs : CommitRecovery(a, j)) \/ RecoverInterrupted
    PROVE  Queue!Next \/ UNCHANGED <<state, leases>>
  <1> USE DEF Order, TypeOK
  <1>1. ASSUME NEW a \in Actors, NEW j \in Jobs, CommitRecovery(a, j)
        PROVE  Queue!Next \/ UNCHANGED <<state, leases>>
    <2>1. CASE AsRead(a, j)
      <3>1. /\ state[j] = "running"
            /\ state' = [CancelQueued({BatchOf[j]}) EXCEPT ![j] = "failed"]
            /\ leases' = {l \in leases : l[2] \notin {j}}
        BY <1>1, <2>1 DEF CommitRecovery, AsRead
      <3>2. state' = [k \in Jobs |->
                        IF k \in {j} THEN "failed"
                        ELSE IF state[k] = "queued" /\ \E i \in {j} : BatchOf[i] = BatchOf[k]
                        THEN "cancelled" ELSE state[k]]
        BY <3>1 DEF CancelQueued
      <3>3. Queue!Abort({j})
        BY <3>1, <3>2 DEF Queue!Abort, Queue!With
      <3>4. QED
        BY <3>3 DEF Queue!Next
    <2>2. CASE ~AsRead(a, j)
      BY <1>1, <2>2 DEF CommitRecovery
    <2>3. QED
      BY <2>1, <2>2
  <1>2. CASE RecoverInterrupted
    <2> DEFINE lost == InState("running")
    <2>1. /\ state' = [j \in Jobs |->
                        IF j \in lost THEN "failed"
                        ELSE IF state[j] = "queued" /\ \E k \in lost : BatchOf[k] = BatchOf[j]
                        THEN "cancelled" ELSE state[j]]
          /\ leases' = {l \in leases : l[2] \notin lost}
      BY <1>2 DEF RecoverInterrupted, Lost, CancelQueued
    <2>2. lost = Queue!With("running") /\ lost \in SUBSET Jobs
      BY DEF InState, Queue!With
    <2>3. CASE lost = {}
      BY <2>1, <2>3
    <2>4. CASE lost # {}
      BY <2>1, <2>2, <2>4 DEF Queue!Abort, Queue!Next
    <2>5. QED
      BY <2>3, <2>4
  <1>3. QED
    BY <1>1, <1>2

\* Every step of BitCI is one step of QueueSpec, or changes nothing there.
LEMMA StepImplements ==
    ASSUME Order, [Next]_vars
    PROVE  [Queue!Next]_<<state, leases>>
  <1>1. ASSUME NEW j \in Jobs, ReleaseLeases(j)
        PROVE  Queue!Next
    <2>1. Queue!Return(j)
      BY <1>1 DEF ReleaseLeases, Queue!Return, Order, ReturnedIsOver, Terminal
    <2>2. QED
      BY <2>1 DEF Queue!Next
  <1>2. ASSUME NEW b \in Batches, SubmitRow(b)
        PROVE  UNCHANGED <<state, leases>>
    BY <1>2 DEF SubmitRow
  <1>3. CASE Quiet
    BY <1>3 DEF Quiet
  <1>4. CASE Loud
    BY <1>1, <1>2, <1>4, ClaimLaunches, SweepDrops, SubmitAccepts, CancelDrops,
       FinishSettles, RecoveryAborts DEF Loud
  <1>5. QED
    BY <1>3, <1>4, QuietOrLoud DEF Order

\* BitCI implements its queue: submissions, claims in order, verdicts, returned
\* leases and recoveries, whatever else happens.
THEOREM Implements == Spec => QueueImplemented
  <1>1. Init => Queue!Init
    BY DEF Init, Queue!Init
  <1>2. Order /\ [Next]_vars => [Queue!Next]_<<state, leases>>
    BY StepImplements
  <1>3. QED
    BY <1>1, <1>2, OrderKept, PTL DEF Spec, QueueImplemented, Queue!Spec

-----------------------------------------------------------------------------
(* Claims: needs, leases and order. *)

\* Only a claim makes a job running.
LEMMA OnlyClaimsRun ==
    ASSUME Order, [Next]_vars, NEW k \in Jobs, state[k] # "running", state'[k] = "running"
    PROVE  Claim(k)
  <1> USE DEF Order, TypeOK
  <1>1. ~Quiet
    BY DEF Quiet
  <1>2. ASSUME NEW b \in Batches, SubmitPlain(b) \/ SubmitRow(b) \/ SubmitCommit(b)
        PROVE  FALSE
    BY <1>2 DEF SubmitPlain, SubmitRow, SubmitCommit, Enqueue
  <1>3. ASSUME NEW j \in Jobs, CancelContext(j) \/ Finish(j) \/ ReleaseLeases(j)
        PROVE  FALSE
    BY <1>3 DEF CancelContext, Finish, ReleaseLeases
  <1>4. ASSUME NEW j \in Jobs, Claim(j)
        PROVE  k = j
    BY <1>4 DEF Claim, Retire
  <1>5. CASE Sweep
    BY <1>5 DEF Sweep, Retire
  <1>6. ASSUME NEW a \in Actors, NEW j \in Jobs, CommitRecovery(a, j)
        PROVE  FALSE
    BY <1>6 DEF CommitRecovery, CancelQueued
  <1>7. CASE RecoverInterrupted
    BY <1>7 DEF RecoverInterrupted, Lost, CancelQueued
  <1>8. QED
    BY <1>1, <1>2, <1>3, <1>4, <1>5, <1>6, <1>7, QuietOrLoud DEF Loud

\* Leases appear with a claim and go with their job's run.
LEMMA LeasesMove ==
    ASSUME Order, [Next]_vars
    PROVE  \/ \E j \in Jobs : Claim(j)
           \/ /\ leases' \subseteq leases
              /\ \A l \in leases : state'[l[2]] = "running" => l \in leases'
  <1> USE DEF Order, TypeOK
  <1>1. CASE Quiet
    BY <1>1 DEF Quiet
  <1>2. ASSUME NEW b \in Batches, SubmitPlain(b) \/ SubmitRow(b) \/ SubmitCommit(b)
        PROVE  UNCHANGED leases
    BY <1>2 DEF SubmitPlain, SubmitRow, SubmitCommit
  <1>3. ASSUME NEW j \in Jobs, CancelContext(j) \/ Finish(j)
        PROVE  UNCHANGED leases
    BY <1>3 DEF CancelContext, Finish
  <1>4. ASSUME NEW j \in Jobs, ReleaseLeases(j)
        PROVE  leases' = {l \in leases : l[2] # j} /\ state'[j] # "running"
    BY <1>4 DEF ReleaseLeases, ReturnedIsOver, Terminal
  <1>5. CASE Sweep
    BY <1>5 DEF Sweep
  <1>6. ASSUME NEW a \in Actors, NEW j \in Jobs, CommitRecovery(a, j)
        PROVE  \/ UNCHANGED leases
               \/ leases' = {l \in leases : l[2] # j} /\ state'[j] # "running"
    BY <1>6 DEF CommitRecovery, CancelQueued
  <1>7. CASE RecoverInterrupted
    BY <1>7 DEF RecoverInterrupted, Lost, InState
  <1>8. QED
    BY <1>1, <1>2, <1>3, <1>4, <1>5, <1>6, <1>7, QuietOrLoud DEF Loud

\* A job runs only after its needs have passed and only while its resources are
\* leased to it (ready and the lease loop of claimContext), through every later
\* verdict, recovery and crash.
THEOREM EntitledKept == Spec => []RunningIsEntitled
  <1>1. Init => RunningIsEntitled
    BY DEF Init, RunningIsEntitled
  <1>2. ASSUME Order, RunningIsEntitled, [Next]_vars
        PROVE  RunningIsEntitled'
    <2>1. SUFFICES ASSUME NEW j \in Jobs, state'[j] \in {"running", "passed"}
                   PROVE  /\ Unmet(state', j) = {}
                          /\ state'[j] = "running" => Uses[j] \X {j} \subseteq leases'
      BY DEF RunningIsEntitled, Unmet
    <2>2. \A i \in DOMAIN Needs[j] : Needs[j][i] \in Jobs /\ Needs[j][i] # j
      BY NeedsAssumption, JobsAssumption
    <2>3. \A k \in Jobs : state[k] = "passed" => state'[k] = "passed"
      BY <1>2, Moves DEF Moved
    <2>4. CASE Claim(j)
      <3>1. PICK dropped \in SUBSET InState("queued") : Claimable(Retire(dropped), j)
        BY <2>4 DEF Claim
      <3>2. \A k \in Jobs : Retire(dropped)[k] = "passed" => state[k] = "passed"
        BY DEF Retire
      <3>3. Unmet(state', j) = {}
        BY <2>2, <2>3, <3>1, <3>2 DEF Claimable, Unmet
      <3>4. QED
        BY <2>4, <3>3 DEF Claim
    <2>5. CASE ~Claim(j)
      <3>1. state[j] \in {"running", "passed"}
        BY <1>2, <2>1, <2>5, OnlyClaimsRun, Moves DEF Moved
      <3>2. Unmet(state, j) = {}
        BY <1>2, <3>1 DEF RunningIsEntitled
      <3>3. Unmet(state', j) = {}
        BY <2>2, <2>3, <3>2 DEF Unmet
      <3>4. state'[j] = "running" => Uses[j] \X {j} \subseteq leases
        BY <1>2, <2>5, OnlyClaimsRun DEF RunningIsEntitled
      <3>5. ASSUME NEW k \in Jobs, Claim(k)
            PROVE  leases \subseteq leases'
        BY <3>5 DEF Claim
      <3>6. state'[j] = "running" => Uses[j] \X {j} \subseteq leases'
        BY <1>2, <3>4, <3>5, LeasesMove
      <3>7. QED
        BY <3>3, <3>6
    <2>6. QED
      BY <2>4, <2>5
  <1>3. QED
    BY <1>1, <1>2, OrderKept, PTL DEF Spec

\* No resource is leased beyond the limit of any of its holders, also when
\* batches with different snapshots share it and when leases outlive their job.
THEOREM LimitsKept == Spec => []LeasesWithinLimits
  <1>1. Init => LeasesWithinLimits
    BY DEF Init, LeasesWithinLimits
  <1>2. ASSUME Order, LeasesWithinLimits, [Next]_vars
        PROVE  LeasesWithinLimits'
    <2>1. \A r : /\ IsFiniteSet(Holders(r)) /\ Cardinality(Holders(r)) \in Nat
                 /\ IsFiniteSet(Holders(r)')
      BY JobsAssumption, FS_Subset, FS_CardinalityType DEF Holders
    <2>2. \A r \in Resources, j \in Jobs : Limit[j][r] \in Nat
      BY LimitAssumption
    <2>3. leases \subseteq Resources \X Jobs
      BY <1>2 DEF Order, TypeOK
    <2>4. ASSUME NEW j \in Jobs, Claim(j)
          PROVE  LeasesWithinLimits'
      <3>1. leases' = leases \cup (Uses[j] \X {j}) /\ ResourcesFree(j)
        BY <2>4 DEF Claim, Claimable
      <3>2. SUFFICES ASSUME NEW l \in leases'
                     PROVE  Cardinality(Holders(l[1])') <= Limit[l[2]][l[1]]
        BY DEF LeasesWithinLimits
      <3>3. l[1] \in Resources /\ l[2] \in Jobs
        BY <2>3, <3>1, LimitAssumption
      <3>4. CASE l[1] \in Uses[j]
        <4>1. Holders(l[1])' = Holders(l[1]) \cup {j}
          BY <3>1, <3>4 DEF Holders
        <4>2. Cardinality(Holders(l[1])') <= Cardinality(Holders(l[1])) + 1
          <5>1. IsFiniteSet(Holders(l[1])) /\ Cardinality(Holders(l[1])) \in Nat
            BY <2>1
          <5>2. Cardinality(Holders(l[1]) \cup {j}) =
                   IF j \in Holders(l[1]) THEN Cardinality(Holders(l[1]))
                   ELSE Cardinality(Holders(l[1])) + 1
            BY <5>1, FS_AddElement
          <5>3. QED
            BY <4>1, <5>1, <5>2
        <4>3. l[2] \in Holders(l[1]) \cup {j}
          BY <3>1, <3>3, <2>3 DEF Holders
        <4>4. Cardinality(Holders(l[1])) < Limit[l[2]][l[1]]
          BY <3>1, <3>4, <4>3 DEF ResourcesFree
        <4>5. Cardinality(Holders(l[1])') \in Nat
          BY <2>1, FS_CardinalityType
        <4>6. QED
          BY <2>1, <2>2, <3>3, <4>2, <4>4, <4>5
      <3>5. CASE l[1] \notin Uses[j]
        <4>1. Holders(l[1])' = Holders(l[1]) /\ l \in leases
          BY <3>1, <3>5 DEF Holders
        <4>2. QED
          BY <1>2, <4>1 DEF LeasesWithinLimits
      <3>6. QED
        BY <3>4, <3>5
    <2>5. CASE leases' \subseteq leases
      <3>1. SUFFICES ASSUME NEW l \in leases'
                     PROVE  Cardinality(Holders(l[1])') <= Limit[l[2]][l[1]]
        BY DEF LeasesWithinLimits
      <3>2. Holders(l[1])' \subseteq Holders(l[1])
        BY <2>5 DEF Holders
      <3>3. Cardinality(Holders(l[1])') <= Cardinality(Holders(l[1]))
        BY <2>1, <3>2, FS_Subset
      <3>4. Cardinality(Holders(l[1])) <= Limit[l[2]][l[1]]
        BY <1>2, <2>5 DEF LeasesWithinLimits
      <3>5. l[1] \in Resources /\ l[2] \in Jobs /\ Cardinality(Holders(l[1])') \in Nat
        BY <2>1, <2>3, <2>5, FS_CardinalityType
      <3>6. QED
        BY <2>1, <2>2, <3>3, <3>4, <3>5
    <2>6. QED
      BY <1>2, <2>4, <2>5, LeasesMove
  <1>3. QED
    BY <1>1, <1>2, OrderKept, PTL DEF Spec

\* A claim overtakes no queued job that its needs, its resources and its
\* snapshot would have allowed (the ORDER BY id scan of claimContext).
THEOREM OrderOfClaims == Spec => ClaimsInOrder
  <1> DEFINE InOrder == \A j \in Jobs : state[j] = "queued" /\ state'[j] = "running" =>
                \A k \in Jobs : k < j /\ state'[k] = "queued" => ~Claimable(state', k)
  <1>1. ASSUME Order, [Next]_vars
        PROVE  InOrder
    <2>1. SUFFICES ASSUME NEW j \in Jobs, state[j] = "queued", state'[j] = "running",
                          NEW k \in Jobs, k < j, state'[k] = "queued"
                   PROVE  ~Claimable(state', k)
      OBVIOUS
    <2>2. Claim(j)
      BY <1>1, <2>1, OnlyClaimsRun
    <2>3. PICK dropped \in SUBSET InState("queued") :
             /\ Scans({i \in InState("queued") : i < j}, dropped)
             /\ state' = [Retire(dropped) EXCEPT ![j] = "running"]
      BY <2>2 DEF Claim
    <2>4. k # j /\ \A i \in Jobs : i # j => state'[i] = Retire(dropped)[i]
      BY <2>1, <2>3, JobsAssumption DEF Retire
    <2>5. k \in InState("queued")
      BY <2>1, <2>4 DEF Retire, InState
    <2>6. ~Claimable(Retire(dropped), k)
      BY <2>1, <2>3, <2>5 DEF Scans
    <2>7. \A i \in DOMAIN Needs[k] : Needs[k][i] \in Jobs /\ Needs[k][i] # j
      BY <2>1, NeedsAssumption, JobsAssumption
    <2>8. Unmet(state', k) = Unmet(Retire(dropped), k)
      BY <2>4, <2>7 DEF Unmet
    <2>9. QED
      BY <2>6, <2>8 DEF Claimable
  <1>2. Order /\ [Next]_vars => [InOrder]_vars
    BY <1>1
  <1>3. QED
    BY <1>2, OrderKept, PTL DEF Spec, ClaimsInOrder
=============================================================================
