----------------------------- MODULE LogsProofs -----------------------------
(***************************************************************************)
(* What Logs keeps on every host: for every number of workers and jobs,    *)
(* every log_retention, and whatever fails.  ReaderProofs goes on with the *)
(* bytes of a log and with ReadLog.                                        *)
(***************************************************************************)
EXTENDS Logs, FiniteSetTheorems, TLAPS

USE DEF loopVars, fileVars, readVars, vars

ActorCall == [at : ActorPlaces, job : setup.jobs \cup {NoJob}, doomed : SUBSET setup.jobs,
              errand : Errands, logged : BOOLEAN, failed : BOOLEAN]
JobRow == [state : {"queued", "running", "over"}, stamp : Nat, path : BOOLEAN, file : BOOLEAN]

Types ==
    /\ setup \in Setups
    /\ channel \in Nat /\ taken \in BOOLEAN
    /\ actor \in [Actors -> ActorCall]
    /\ job \in [setup.jobs -> JobRow]
    /\ now \in Nat

\* The logs that pruneLogs keeps before that of j.
Newers(j) == {k \in Logged : Newer(k, j)}

-----------------------------------------------------------------------------
\* The workers whose error is, or was, in the channel.
Said == {w \in setup.workers : actor[w].at = "sent"}
One(said) == IF said THEN 1 ELSE 0

\* Every error that was sent is in the channel or was taken.
Accounts ==
    channel + One(taken) =
        Cardinality(Said) + One(rpc = "sent") + One(dashboard = "sent") + One(recovery = "sent")

\* Outside of serve nothing runs but the pruning of RecoverInterrupted.
Loop ==
    /\ Accounts
    /\ main = "up" => ~taken
    /\ main \in {"down", "starting"} =>
        /\ channel = 0 /\ ~taken /\ rpc = "off" /\ dashboard = "off" /\ recovery = "off"
        /\ \A w \in setup.workers : actor[w].at = "off"
    /\ actor[Startup].at # "off" =>
        /\ main = "starting" /\ actor[Startup].at \in {"list", "prune", "forget"}
        /\ actor[Startup].errand = "serve"

\* A worker has a job from its claim to its verdict, ...
Holding(at, errand) ==
    \/ at \in {"note", "run", "verdict"}
    \/ at \in {"list", "prune", "forget"} /\ errand = "create"
Holds(w) == Holding(actor[w].at, actor[w].errand)

\* ... whose row names a log only once there is one, ...
PathIs(at, path, logged) ==
    /\ path => at \in {"run", "verdict"}
    /\ path \/ at \in {"note", "run"} => logged

\* ... and which nobody else has.
Mine ==
    /\ \A j \in setup.jobs : job[j].state = "queued" => ~job[j].path
    /\ \A w \in Actors : Holds(w) =>
        /\ actor[w].job \in setup.jobs /\ job[actor[w].job].state = "running"
        /\ PathIs(actor[w].at, job[actor[w].job].path, actor[w].logged)
        /\ \A v \in Actors : Holds(v) /\ actor[v].job = actor[w].job => v = w

\* A log on a list stays one that has log_retention newer ones.
Overdue(j) ==
    /\ j \in setup.jobs /\ job[j].state = "over" /\ setup.retention # 0
    /\ Cardinality(Newers(j)) >= setup.retention
Doomed == \A w \in Actors : \A j \in actor[w].doomed : Overdue(j)

\* Somebody is going to prune, prunes what is too much, or there is not too much.
Prunes(w) ==
    \/ actor[w].at \in {"append", "list"}
    \/ /\ actor[w].at \in {"prune", "forget"}
       /\ Cardinality(Logged \ actor[w].doomed) <= setup.retention
Retained ==
    \/ setup.retention = 0 \/ pruneFailed \/ main = "down"
    \/ Cardinality(Logged) <= setup.retention
    \/ \E w \in Actors : Prunes(w)

LogsInv == Types /\ Loop /\ Mine /\ Doomed /\ Retained

-----------------------------------------------------------------------------
\* A step of w changes its own record only, to one with these fields.
ActorIs(w, at, j, doomed, errand, logged) ==
    /\ actor' \in [Actors -> ActorCall]
    /\ \A v \in Actors : v # w => actor'[v] = actor[v]
    /\ actor'[w].at = at /\ actor'[w].job = j /\ actor'[w].doomed = doomed
    /\ actor'[w].errand = errand /\ (actor'[w].logged <=> logged)

\* The same of a step that gives j another row.
JobIs(j, state, stamp, path) ==
    /\ job' \in [setup.jobs -> JobRow]
    /\ \A k \in setup.jobs : k # j => job'[k] = job[k]
    /\ job'[j].state = state /\ job'[j].stamp = stamp /\ (job'[j].path <=> path)

\* The case of another place only.
ActorAt(w, x) ==
    ActorIs(w, x, actor[w].job, actor[w].doomed, actor[w].errand, actor[w].logged)

-----------------------------------------------------------------------------
\* One record of a function, replaced by one of its type.
LEMMA Becomes ==
    ASSUME Types, NEW w \in Actors, NEW r \in ActorCall, actor' = [actor EXCEPT ![w] = r]
    PROVE  ActorIs(w, r.at, r.job, r.doomed, r.errand, r.logged)
  BY DEF Types, ActorIs

\* The case of a step that only goes on to another place.
LEMMA Goings ==
    ASSUME Types, NEW w \in Actors, NEW x \in ActorPlaces, Goes(w, x)
    PROVE  ActorAt(w, x)
  <1> DEFINE r == [actor[w] EXCEPT !.at = x]
  <1>1. actor' = [actor EXCEPT ![w] = r]
    BY DEF Goes, Types
  <1>2. /\ r \in ActorCall /\ r.at = x /\ r.job = actor[w].job /\ r.doomed = actor[w].doomed
        /\ r.errand = actor[w].errand /\ r.logged = actor[w].logged
    BY DEF Types, ActorCall
  <1>3. QED
    BY <1>1, <1>2, Becomes DEF ActorAt

\* The record of a goroutine that does not run.
LEMMA OffIs ==
    /\ Off \in ActorCall /\ Off.at = "off" /\ Off.job = NoJob /\ Off.doomed = {}
    /\ Off.errand = "create" /\ Off.logged = FALSE
  BY DEF Off, ActorCall, ActorPlaces, Errands

\* What each step makes of the record of its worker.
LEMMA ActorFields ==
    ASSUME Types, NEW w \in Actors
    PROVE  /\ \A j \in setup.jobs : Claim(w, j) => ActorIs(w, "list", j, {}, "create", FALSE)
           /\ ListLogs(w) => ActorIs(w, "prune", actor[w].job, Prunable, actor[w].errand,
                                     actor[w].logged)
           /\ \A j \in setup.jobs : RemoveLog(w, j) => ActorAt(w, "forget")
           /\ \A j \in setup.jobs : ForgetLog(w, j) =>
                ActorIs(w, "prune", actor[w].job, actor[w].doomed \ {j}, actor[w].errand,
                        actor[w].logged)
           /\ PruneFails(w) =>
                \/ actor[w].errand = "create" /\ ActorAt(w, "verdict")
                \/ /\ actor[w].errand = "release"
                   /\ ActorIs(w, "prune", actor[w].job, {}, "release", actor[w].logged)
                \/ Down
           /\ Create(w) => ActorIs(w, "note", actor[w].job, actor[w].doomed, actor[w].errand, TRUE)
           /\ CreateFails(w) =>
                ActorIs(w, "verdict", actor[w].job, actor[w].doomed, actor[w].errand, TRUE)
           /\ Note(w) => ActorAt(w, "run")
           /\ EndRun(w) => ActorAt(w, "verdict")
           /\ Verdict(w) => ActorAt(w, "append")
           /\ VerdictFails(w) \/ ClaimFails(w) => ActorAt(w, "send")
           /\ AppendTerminal(w) \/ AppendFails(w) =>
                ActorIs(w, "list", actor[w].job, actor[w].doomed, "release", actor[w].logged)
           /\ Release(w) => \/ ActorIs(w, "idle", NoJob, {}, "create", FALSE)
                            \/ ActorIs(w, "send", NoJob, {}, "create", FALSE)
           /\ WorkerReports(w) => ActorAt(w, "sent")
           /\ WorkerEnds(w) => ActorAt(w, "off")
  <1>1. ActorPlaces = {"off", "idle", "list", "prune", "forget", "note", "run", "verdict",
                       "append", "send", "sent"}
    BY DEF ActorPlaces
  <1>2. \A x \in ActorPlaces : Goes(w, x) => ActorAt(w, x)
    BY Goings
  <1>3. ASSUME NEW j \in setup.jobs, Claim(w, j)
        PROVE  ActorIs(w, "list", j, {}, "create", FALSE)
    <2> DEFINE r == [Off EXCEPT !.at = "list", !.job = j]
    <2>1. /\ r \in ActorCall /\ r.at = "list" /\ r.job = j /\ r.doomed = {}
          /\ r.errand = "create" /\ r.logged = FALSE
      BY OffIs, <1>1 DEF ActorCall
    <2>2. actor' = [actor EXCEPT ![w] = r]
      BY <1>3 DEF Claim
    <2> HIDE DEF r
    <2>3. QED
      BY <2>1, <2>2, Becomes
  <1>4. ASSUME ListLogs(w)
        PROVE  ActorIs(w, "prune", actor[w].job, Prunable, actor[w].errand, actor[w].logged)
    <2> DEFINE r == [actor[w] EXCEPT !.at = "prune", !.doomed = Prunable]
    <2>1. Prunable \in SUBSET setup.jobs
      BY DEF Prunable, Logged
    <2>2. /\ r \in ActorCall /\ r.at = "prune" /\ r.job = actor[w].job /\ r.doomed = Prunable
          /\ r.errand = actor[w].errand /\ r.logged = actor[w].logged
      BY <2>1, <1>1 DEF Types, ActorCall
    <2>3. actor' = [actor EXCEPT ![w] = r]
      BY <1>4 DEF ListLogs, Types
    <2>4. QED
      BY <2>2, <2>3, Becomes
  <1>5. ASSUME NEW j \in setup.jobs, ForgetLog(w, j)
        PROVE  ActorIs(w, "prune", actor[w].job, actor[w].doomed \ {j}, actor[w].errand,
                       actor[w].logged)
    <2> DEFINE r == [actor[w] EXCEPT !.at = "prune", !.doomed = actor[w].doomed \ {j}]
    <2>1. /\ r \in ActorCall /\ r.at = "prune" /\ r.job = actor[w].job
          /\ r.doomed = actor[w].doomed \ {j}
          /\ r.errand = actor[w].errand /\ r.logged = actor[w].logged
      BY <1>1 DEF Types, ActorCall
    <2>2. actor' = [actor EXCEPT ![w] = r]
      BY <1>5 DEF ForgetLog, Types
    <2>3. QED
      BY <2>1, <2>2, Becomes
  <1>6. ASSUME PruneFails(w), actor[w].errand = "release"
        PROVE  Down \/ ActorIs(w, "prune", actor[w].job, {}, "release", actor[w].logged)
    <2> DEFINE r == [actor[w] EXCEPT !.at = "prune", !.doomed = {}, !.failed = TRUE]
    <2>1. /\ r \in ActorCall /\ r.at = "prune" /\ r.job = actor[w].job
          /\ r.doomed = {} /\ r.errand = actor[w].errand /\ r.logged = actor[w].logged
      BY <1>1 DEF Types, ActorCall
    <2>2. actor' = [actor EXCEPT ![w] = r]
      BY <1>6 DEF PruneFails, Types
    <2>3. ActorIs(w, "prune", actor[w].job, {}, "release", actor[w].logged)
      BY <2>1, <2>2, <1>6, Becomes
    <2>4. QED
      BY <2>3
  <1>7. ASSUME NEW x \in {"note", "verdict"},
               actor' = [actor EXCEPT ![w].at = x, ![w].logged = TRUE]
        PROVE  ActorIs(w, x, actor[w].job, actor[w].doomed, actor[w].errand, TRUE)
    <2> DEFINE r == [actor[w] EXCEPT !.at = x, !.logged = TRUE]
    <2>1. /\ r \in ActorCall /\ r.at = x /\ r.job = actor[w].job
          /\ r.doomed = actor[w].doomed /\ r.errand = actor[w].errand /\ r.logged = TRUE
      BY <1>1, <1>7 DEF Types, ActorCall
    <2>2. actor' = [actor EXCEPT ![w] = r]
      BY <1>7 DEF Types
    <2>3. QED
      BY <2>1, <2>2, Becomes
  <1>8. ASSUME NEW failed \in BOOLEAN, ToRelease(w, failed)
        PROVE  ActorIs(w, "list", actor[w].job, actor[w].doomed, "release", actor[w].logged)
    <2> DEFINE r == [actor[w] EXCEPT !.at = "list", !.errand = "release", !.failed = failed]
    <2>1. /\ r \in ActorCall /\ r.at = "list" /\ r.job = actor[w].job
          /\ r.doomed = actor[w].doomed /\ r.errand = "release" /\ r.logged = actor[w].logged
      BY <1>1 DEF Types, ActorCall, Errands
    <2>2. actor' = [actor EXCEPT ![w] = r]
      BY <1>8 DEF ToRelease, Types
    <2>3. QED
      BY <2>1, <2>2, Becomes
  <1>9. ASSUME NEW x \in {"idle", "send"}, actor' = [actor EXCEPT ![w] = [Off EXCEPT !.at = x]]
        PROVE  ActorIs(w, x, NoJob, {}, "create", FALSE)
    <2> DEFINE r == [Off EXCEPT !.at = x]
    <2>1. /\ r \in ActorCall /\ r.at = x /\ r.job = NoJob /\ r.doomed = {}
          /\ r.errand = "create" /\ r.logged = FALSE
      BY OffIs, <1>1, <1>9 DEF ActorCall
    <2>2. actor' = [actor EXCEPT ![w] = r]
      BY <1>9
    <2> HIDE DEF r
    <2>3. QED
      BY <2>1, <2>2, Becomes
  <1>10. \A j \in setup.jobs : RemoveLog(w, j) => ActorAt(w, "forget")
    BY <1>1, <1>2 DEF RemoveLog
  <1>11. PruneFails(w) =>
            \/ actor[w].errand = "create" /\ ActorAt(w, "verdict")
            \/ /\ actor[w].errand = "release"
               /\ ActorIs(w, "prune", actor[w].job, {}, "release", actor[w].logged)
            \/ Down
    <2>1. ASSUME actor[w].errand = "create", PruneFails(w) PROVE ActorAt(w, "verdict")
      BY <1>1, <1>2, <2>1 DEF PruneFails
    <2>2. PruneFails(w) => Down \/ actor[w].errand \in {"create", "release"}
      BY DEF PruneFails
    <2>3. QED
      BY <1>6, <2>1, <2>2
  <1>12. Create(w) => ActorIs(w, "note", actor[w].job, actor[w].doomed, actor[w].errand, TRUE)
    BY <1>7 DEF Create
  <1>13. CreateFails(w) =>
            ActorIs(w, "verdict", actor[w].job, actor[w].doomed, actor[w].errand, TRUE)
    BY <1>7 DEF CreateFails
  <1>14. /\ Note(w) => ActorAt(w, "run")
         /\ EndRun(w) => ActorAt(w, "verdict")
         /\ Verdict(w) => ActorAt(w, "append")
         /\ VerdictFails(w) \/ ClaimFails(w) => ActorAt(w, "send")
         /\ WorkerReports(w) => ActorAt(w, "sent")
         /\ WorkerEnds(w) => ActorAt(w, "off")
    BY <1>1, <1>2 DEF Note, EndRun, Verdict, VerdictFails, ClaimFails, WorkerReports, WorkerEnds
  <1>15. AppendTerminal(w) \/ AppendFails(w) =>
            ActorIs(w, "list", actor[w].job, actor[w].doomed, "release", actor[w].logged)
    <2>1. AppendTerminal(w) \/ AppendFails(w) => \E failed \in BOOLEAN : ToRelease(w, failed)
      BY DEF AppendTerminal, AppendFails
    <2>2. QED
      BY <1>8, <2>1
  <1>16. Release(w) => \/ ActorIs(w, "idle", NoJob, {}, "create", FALSE)
                       \/ ActorIs(w, "send", NoJob, {}, "create", FALSE)
    <2>1. Release(w) => \E x \in {"idle", "send"} :
                           actor' = [actor EXCEPT ![w] = [Off EXCEPT !.at = x]]
      BY DEF Release
    <2>2. QED
      BY <1>9, <2>1
  <1>17. QED
    BY <1>3, <1>4, <1>5, <1>10, <1>11, <1>12, <1>13, <1>14, <1>15, <1>16

-----------------------------------------------------------------------------
\* The same of the row of a job.
LEMMA Rows ==
    ASSUME Types, NEW j \in setup.jobs, NEW r \in JobRow, job' = [job EXCEPT ![j] = r]
    PROVE  JobIs(j, r.state, r.stamp, r.path)
  BY DEF Types, JobIs

\* What each step makes of the row of a job.
LEMMA JobFields ==
    ASSUME Types, NEW w \in Actors, NEW j \in setup.jobs
    PROVE  /\ Claim(w, j) => JobIs(j, "running", job[j].stamp, job[j].path)
           /\ RemoveLog(w, j) => JobIs(j, job[j].state, job[j].stamp, job[j].path)
           /\ ForgetLog(w, j) => JobIs(j, job[j].state, job[j].stamp, FALSE)
           /\ Create(w) /\ actor[w].job = j => JobIs(j, job[j].state, job[j].stamp, job[j].path)
           /\ Note(w) /\ actor[w].job = j => JobIs(j, job[j].state, job[j].stamp, TRUE)
           /\ Verdict(w) /\ actor[w].job = j =>
                JobIs(j, "over", now', actor[w].logged) /\ now' \in Nat
  <1>1. job[j] \in JobRow /\ actor[w].logged \in BOOLEAN
    BY DEF Types, ActorCall
  <1>2. ASSUME Claim(w, j)
        PROVE  JobIs(j, "running", job[j].stamp, job[j].path)
    <2> DEFINE r == [job[j] EXCEPT !.state = "running"]
    <2>1. r \in JobRow /\ r.state = "running" /\ r.stamp = job[j].stamp /\ r.path = job[j].path
      BY <1>1 DEF JobRow
    <2>2. job' = [job EXCEPT ![j] = r]
      BY <1>2 DEF Claim, Types
    <2> HIDE DEF r
    <2>3. QED
      BY <2>1, <2>2, Rows
  <1>3. ASSUME RemoveLog(w, j)
        PROVE  JobIs(j, job[j].state, job[j].stamp, job[j].path)
    <2> DEFINE r == [job[j] EXCEPT !.file = FALSE]
    <2>1. r \in JobRow /\ r.state = job[j].state /\ r.stamp = job[j].stamp /\ r.path = job[j].path
      BY <1>1 DEF JobRow
    <2>2. job' = [job EXCEPT ![j] = r]
      BY <1>3 DEF RemoveLog, Types
    <2> HIDE DEF r
    <2>3. QED
      BY <2>1, <2>2, Rows
  <1>4. ASSUME ForgetLog(w, j)
        PROVE  JobIs(j, job[j].state, job[j].stamp, FALSE)
    <2> DEFINE r == [job[j] EXCEPT !.path = FALSE]
    <2>1. r \in JobRow /\ r.state = job[j].state /\ r.stamp = job[j].stamp /\ r.path = FALSE
      BY <1>1 DEF JobRow
    <2>2. job' = [job EXCEPT ![j] = r]
      BY <1>4 DEF ForgetLog, Types
    <2> HIDE DEF r
    <2>3. QED
      BY <2>1, <2>2, Rows
  <1>5. ASSUME Create(w), actor[w].job = j
        PROVE  JobIs(j, job[j].state, job[j].stamp, job[j].path)
    <2> DEFINE r == [job[j] EXCEPT !.file = TRUE]
    <2>1. r \in JobRow /\ r.state = job[j].state /\ r.stamp = job[j].stamp /\ r.path = job[j].path
      BY <1>1 DEF JobRow
    <2>2. job' = [job EXCEPT ![j] = r]
      BY <1>5 DEF Create, Types
    <2> HIDE DEF r
    <2>3. QED
      BY <2>1, <2>2, Rows
  <1>6. ASSUME Note(w), actor[w].job = j
        PROVE  JobIs(j, job[j].state, job[j].stamp, TRUE)
    <2> DEFINE r == [job[j] EXCEPT !.path = TRUE]
    <2>1. r \in JobRow /\ r.state = job[j].state /\ r.stamp = job[j].stamp /\ r.path = TRUE
      BY <1>1 DEF JobRow
    <2>2. job' = [job EXCEPT ![j] = r]
      BY <1>6 DEF Note, Types
    <2> HIDE DEF r
    <2>3. QED
      BY <2>1, <2>2, Rows
  <1>7. ASSUME Verdict(w), actor[w].job = j
        PROVE  JobIs(j, "over", now', actor[w].logged) /\ now' \in Nat
    <2> DEFINE r == [job[j] EXCEPT !.state = "over", !.stamp = now', !.path = actor[w].logged]
    <2>1. now' \in Nat
      BY <1>7 DEF Verdict, Stamps, Types
    <2>2. r \in JobRow /\ r.state = "over" /\ r.stamp = now' /\ r.path = actor[w].logged
      BY <1>1, <2>1 DEF JobRow
    <2>3. job' = [job EXCEPT ![j] = r]
      BY <1>7 DEF Verdict, Types
    <2> HIDE DEF r
    <2>4. QED
      BY <2>1, <2>2, <2>3, Rows
  <1>8. QED
    BY <1>2, <1>3, <1>4, <1>5, <1>6, <1>7

-----------------------------------------------------------------------------
\* The steps that change the record of w.
Moves(w) ==
    \/ \E j \in setup.jobs : Claim(w, j) \/ RemoveLog(w, j) \/ ForgetLog(w, j)
    \/ ListLogs(w) \/ Create(w) \/ Note(w) \/ EndRun(w) \/ Verdict(w) \/ AppendTerminal(w)
    \/ Release(w) \/ WorkerReports(w) \/ WorkerEnds(w) \/ ClaimFails(w) \/ CreateFails(w)
    \/ VerdictFails(w) \/ AppendFails(w) \/ PruneFails(w)

StartupMoves ==
    \/ ListLogs(Startup) \/ PruneFails(Startup)
    \/ \E j \in setup.jobs : RemoveLog(Startup, j) \/ ForgetLog(Startup, j)

\* The steps of the other goroutines, of the reader, and the writes of a job.
LoopOnly ==
    \/ Stop \/ TakeError \/ RpcFails \/ RpcReports \/ RpcEnds \/ DashboardFails
    \/ DashboardReports \/ RecoveryFails \/ RecoveryReports
    \/ UNCHANGED <<setup, loopVars, actor, job, now, pruneFailed>>

\* Every step is one of these.
LEMMA Kinds ==
    ASSUME [Next]_vars
    PROVE  \/ Start \/ Serve \/ Return \/ Killed \/ LoopOnly \/ StartupMoves
           \/ \E w \in setup.workers : Moves(w)
  <1>1. CASE ReaderStep \/ ReadFails
    BY <1>1 DEF ReaderStep, ReadRow, OpenLog, ReadLine, Answer, ReadFails, LoopOnly
  <1>2. ASSUME NEW w \in setup.workers, WorkerStep(w)
        PROVE  Moves(w) \/ LoopOnly
    BY <1>2 DEF WorkerStep, Moves, LoopOnly, Write
  <1>3. CASE LoopStep
    BY <1>3 DEF LoopStep, LoopOnly
  <1>4. CASE Failure
    <2>1. ASSUME NEW w \in Actors, PruneFails(w)
          PROVE  StartupMoves \/ \E v \in setup.workers : Moves(v)
      BY <2>1 DEF Actors, StartupMoves, Moves
    <2>2. ASSUME NEW w \in setup.workers,
                 ClaimFails(w) \/ CreateFails(w) \/ VerdictFails(w) \/ AppendFails(w)
          PROVE  Moves(w)
      BY <2>2 DEF Moves
    <2>3. CASE Stop \/ RpcFails \/ DashboardFails \/ RecoveryFails
      BY <2>3 DEF LoopOnly
    <2>4. QED
      BY <1>1, <1>4, <2>1, <2>2, <2>3 DEF Failure
  <1>5. CASE UNCHANGED vars
    BY <1>5 DEF LoopOnly
  <1>6. CASE ListLogs(Startup) \/ \E j \in setup.jobs : RemoveLog(Startup, j) \/ ForgetLog(Startup, j)
    BY <1>6 DEF StartupMoves
  <1>7. QED
    BY <1>1, <1>2, <1>3, <1>4, <1>5, <1>6 DEF Next

\* A step of w starts and ends at these places, and changes the record of w only,
\* unless it ends the process.
LEMMA MoveOf ==
    ASSUME Types, NEW w \in Actors, Moves(w)
    PROVE  /\ actor[w].at \notin {"off", "sent"}
           /\ setup' = setup
           /\ Down \/ /\ \A v \in Actors : v # w => actor'[v] = actor[v]
                      /\ actor' \in [Actors -> ActorCall]
                      /\ actor'[w].at # "sent" \/ WorkerReports(w)
                      /\ UNCHANGED loopVars \/ WorkerReports(w)
  <1> USE DEF ActorIs, ActorAt
  <1>1. ASSUME NEW j \in setup.jobs, Claim(w, j) \/ RemoveLog(w, j) \/ ForgetLog(w, j)
        PROVE  /\ actor[w].at \notin {"off", "sent"} /\ setup' = setup /\ UNCHANGED loopVars
               /\ \A v \in Actors : v # w => actor'[v] = actor[v]
               /\ actor' \in [Actors -> ActorCall] /\ actor'[w].at # "sent"
    <2>1. actor[w].at \notin {"off", "sent"} /\ setup' = setup /\ UNCHANGED loopVars
      BY <1>1 DEF Claim, RemoveLog, ForgetLog
    <2>2. \/ ActorIs(w, "list", j, {}, "create", FALSE)
          \/ ActorAt(w, "forget")
          \/ ActorIs(w, "prune", actor[w].job, actor[w].doomed \ {j}, actor[w].errand,
                     actor[w].logged)
      BY <1>1, ActorFields
    <2>3. QED
      BY <2>1, <2>2
  <1>2. ASSUME ListLogs(w) \/ Create(w) \/ Note(w) \/ EndRun(w) \/ Verdict(w) \/ AppendTerminal(w)
        PROVE  /\ actor[w].at \notin {"off", "sent"} /\ setup' = setup /\ UNCHANGED loopVars
               /\ \A v \in Actors : v # w => actor'[v] = actor[v]
               /\ actor' \in [Actors -> ActorCall] /\ actor'[w].at # "sent"
    <2>1. actor[w].at \notin {"off", "sent"} /\ setup' = setup /\ UNCHANGED loopVars
      BY <1>2 DEF ListLogs, Create, Note, EndRun, Verdict, AppendTerminal
    <2>2. \/ ActorIs(w, "prune", actor[w].job, Prunable, actor[w].errand, actor[w].logged)
          \/ ActorIs(w, "note", actor[w].job, actor[w].doomed, actor[w].errand, TRUE)
          \/ ActorAt(w, "run") \/ ActorAt(w, "verdict") \/ ActorAt(w, "append")
          \/ ActorIs(w, "list", actor[w].job, actor[w].doomed, "release", actor[w].logged)
      BY <1>2, ActorFields
    <2>3. QED
      BY <2>1, <2>2
  <1>3. ASSUME Release(w) \/ WorkerEnds(w) \/ ClaimFails(w) \/ CreateFails(w) \/ VerdictFails(w)
               \/ AppendFails(w)
        PROVE  /\ actor[w].at \notin {"off", "sent"} /\ setup' = setup /\ UNCHANGED loopVars
               /\ \A v \in Actors : v # w => actor'[v] = actor[v]
               /\ actor' \in [Actors -> ActorCall] /\ actor'[w].at # "sent"
    <2>1. actor[w].at \notin {"off", "sent"} /\ setup' = setup /\ UNCHANGED loopVars
      BY <1>3 DEF Release, WorkerEnds, ClaimFails, CreateFails, VerdictFails, AppendFails
    <2>2. \/ ActorIs(w, "idle", NoJob, {}, "create", FALSE)
          \/ ActorIs(w, "send", NoJob, {}, "create", FALSE)
          \/ ActorAt(w, "off") \/ ActorAt(w, "send")
          \/ ActorIs(w, "verdict", actor[w].job, actor[w].doomed, actor[w].errand, TRUE)
          \/ ActorIs(w, "list", actor[w].job, actor[w].doomed, "release", actor[w].logged)
      BY <1>3, ActorFields
    <2>3. QED
      BY <2>1, <2>2
  <1>4. ASSUME WorkerReports(w)
        PROVE  /\ actor[w].at \notin {"off", "sent"} /\ setup' = setup
               /\ \A v \in Actors : v # w => actor'[v] = actor[v]
               /\ actor' \in [Actors -> ActorCall]
    <2>1. actor[w].at \notin {"off", "sent"} /\ setup' = setup
      BY <1>4 DEF WorkerReports
    <2>2. ActorAt(w, "sent")
      BY <1>4, ActorFields
    <2>3. QED
      BY <2>1, <2>2
  <1>5. ASSUME PruneFails(w)
        PROVE  /\ actor[w].at \notin {"off", "sent"} /\ setup' = setup
               /\ Down \/ /\ \A v \in Actors : v # w => actor'[v] = actor[v]
                          /\ actor' \in [Actors -> ActorCall]
                          /\ actor'[w].at # "sent" /\ UNCHANGED loopVars
    <2>1. /\ actor[w].at \notin {"off", "sent"} /\ setup' = setup
          /\ Down \/ UNCHANGED loopVars
      BY <1>5 DEF PruneFails
    <2>2. \/ ActorAt(w, "verdict") \/ Down
          \/ ActorIs(w, "prune", actor[w].job, {}, "release", actor[w].logged)
      BY <1>5, ActorFields
    <2>3. QED
      BY <2>1, <2>2
  <1>6. QED
    BY <1>1, <1>2, <1>3, <1>4, <1>5 DEF Moves

\* Startup is no worker, and there are finitely many workers and jobs.
LEMMA Sizes ==
    ASSUME setup \in Setups
    PROVE  /\ Startup \notin setup.workers /\ IsFiniteSet(setup.workers)
           /\ IsFiniteSet(setup.jobs) /\ setup.jobs \subseteq Nat
           /\ setup.retention \in Nat
           /\ Cardinality(setup.workers) \in Nat
           /\ IsFiniteSet(Said) /\ Cardinality(Said) \in Nat
  <1>1. SetupType(setup)
    BY LogAssumption
  <1>2. Said \in SUBSET setup.workers
    BY DEF Said
  <1>3. IsFiniteSet(Said)
    BY <1>1, <1>2, FS_Subset DEF SetupType
  <1>4. QED
    BY <1>1, <1>3, FS_CardinalityType DEF SetupType

\* The end of the process: what its goroutines were doing is lost.
LEMMA DownIs ==
    ASSUME Types, Down, setup' = setup
    PROVE  /\ actor' \in [Actors -> ActorCall]
           /\ \A w \in Actors : actor'[w] = Off
           /\ Said' = {} /\ Loop'
  <1>1. actor' \in [Actors -> ActorCall] /\ \A w \in Actors : actor'[w] = Off
    BY OffIs DEF Down
  <1>2. Said' = {}
    BY <1>1, OffIs DEF Said, Actors
  <1>3. Cardinality(Said)' = 0
    BY <1>2, FS_EmptySet
  <1>4. Accounts'
    BY <1>3 DEF Accounts, Down, One
  <1>5. QED
    BY <1>1, <1>2, <1>4, OffIs DEF Loop, Down, Actors

\* Types is inductive.
LEMMA TypesKept ==
    ASSUME Types, [Next]_vars
    PROVE  Types'
  <1>1. CASE Start
    <2>1. PICK stamp \in IF Running = {} THEN {now} ELSE Stamps :
             /\ now' = stamp
             /\ job' = [j \in setup.jobs |->
                         IF j \in Running THEN [job[j] EXCEPT !.state = "over", !.stamp = stamp]
                         ELSE job[j]]
      BY <1>1 DEF Start
    <2>2. stamp \in Nat
      BY DEF Types, Stamps
    <2>3. \A j \in setup.jobs : /\ job[j] \in JobRow
                                /\ [job[j] EXCEPT !.state = "over", !.stamp = stamp] \in JobRow
      BY <2>2 DEF Types, JobRow
    <2>4. job' \in [setup.jobs -> JobRow] /\ now' \in Nat
      BY <2>1, <2>2, <2>3
    <2>5. [Off EXCEPT !.at = "list", !.errand = "serve"] \in ActorCall
      BY DEF Off, ActorCall, ActorPlaces, Errands
    <2>6. actor' \in [Actors -> ActorCall]
      BY <1>1, <2>5 DEF Start, Types
    <2>7. QED
      BY <1>1, <2>4, <2>6 DEF Start, Types, Actors, ActorCall
  <1>2. CASE Serve
    <2>1. [Off EXCEPT !.at = "idle"] \in ActorCall
      BY DEF Off, ActorCall, ActorPlaces, Errands
    <2>2. actor' \in [Actors -> ActorCall]
      BY <1>2, <2>1, OffIs DEF Serve
    <2>3. QED
      BY <1>2, <2>2 DEF Serve, Types, Actors, ActorCall
  <1>3. CASE Return \/ Killed
    <2>1. Down /\ UNCHANGED <<setup, job, now>>
      BY <1>3 DEF Return, Killed
    <2>2. QED
      BY <2>1, DownIs DEF Types, Down, Actors, ActorCall
  <1>4. CASE LoopOnly
    <2>1. UNCHANGED <<setup, actor, job, now>>
      BY <1>4 DEF LoopOnly, Stop, TakeError, RpcFails, RpcReports, RpcEnds, DashboardFails,
                  DashboardReports, RecoveryFails, RecoveryReports
    <2>2. \/ channel' = channel \/ channel' = channel + 1
          \/ channel > 0 /\ channel' = channel - 1
      BY <1>4 DEF LoopOnly, Stop, TakeError, RpcFails, RpcReports, RpcEnds, DashboardFails,
                  DashboardReports, RecoveryFails, RecoveryReports, Report
    <2>3. taken' = taken \/ taken' = TRUE
      BY <1>4 DEF LoopOnly, Stop, TakeError, RpcFails, RpcReports, RpcEnds, DashboardFails,
                  DashboardReports, RecoveryFails, RecoveryReports
    <2>4. channel' \in Nat
      BY <2>2 DEF Types
    <2>5. taken' \in BOOLEAN
      BY <2>3 DEF Types
    <2>6. QED
      BY <2>1, <2>4, <2>5 DEF Types, Actors, ActorCall
  <1>5. ASSUME NEW w \in Actors, Moves(w)
        PROVE  Types'
    <2>1. setup' = setup
      BY <1>5, MoveOf
    <2>2. actor' \in [Actors -> ActorCall]
      BY <1>5, <2>1, MoveOf, DownIs
    <2>3. /\ channel' \in {channel, channel + 1, 0}
          /\ taken' = taken \/ taken' = FALSE
      BY <1>5, MoveOf DEF Down, WorkerReports, Report
    <2>4. channel' \in Nat
      BY <2>3 DEF Types
    <2>5. taken' \in BOOLEAN
      BY <2>3 DEF Types
    <2>6. job' \in [setup.jobs -> JobRow] /\ now' \in Nat
      <3>1. ASSUME NEW j \in setup.jobs, Claim(w, j) \/ RemoveLog(w, j) \/ ForgetLog(w, j)
            PROVE  job' \in [setup.jobs -> JobRow] /\ now' = now
        BY <3>1, JobFields DEF JobIs, Claim, RemoveLog, ForgetLog
      <3>2. ASSUME Create(w) \/ Note(w) \/ Verdict(w), actor[w].job \in setup.jobs
            PROVE  job' \in [setup.jobs -> JobRow] /\ now' \in Nat
        BY <3>2, JobFields DEF JobIs, Create, Note, Types
      <3>3. ASSUME Create(w) \/ Note(w) \/ Verdict(w), actor[w].job \notin setup.jobs
            PROVE  job' = job /\ now' \in Nat
        BY <3>3 DEF Create, Note, Verdict, Stamps, Types
      <3>4. ASSUME ListLogs(w) \/ EndRun(w) \/ AppendTerminal(w) \/ Release(w) \/ WorkerReports(w)
                   \/ WorkerEnds(w) \/ ClaimFails(w) \/ CreateFails(w) \/ VerdictFails(w)
                   \/ AppendFails(w) \/ PruneFails(w)
            PROVE  job' = job /\ now' = now
        BY <3>4 DEF ListLogs, EndRun, AppendTerminal, Release, WorkerReports, WorkerEnds,
                    ClaimFails, CreateFails, VerdictFails, AppendFails, PruneFails
      <3>5. QED
        BY <1>5, <3>1, <3>2, <3>3, <3>4 DEF Moves, Types
    <2>7. QED
      BY <2>1, <2>2, <2>4, <2>5, <2>6 DEF Types, Actors, ActorCall
  <1>6. CASE StartupMoves
    BY <1>5, <1>6 DEF StartupMoves, Moves, Actors
  <1>7. QED
    BY <1>1, <1>2, <1>3, <1>4, <1>5, <1>6, Kinds DEF Actors

-----------------------------------------------------------------------------
\* Accounts when w reports, and when nobody does.
LEMMA SaidIs ==
    ASSUME Types, setup' = setup, NEW w \in setup.workers, actor[w].at # "sent",
           \A v \in Actors : v # w => actor'[v] = actor[v]
    PROVE  Cardinality(Said)' = Cardinality(Said) + One(actor'[w].at = "sent")
  <1>1. IsFiniteSet(Said) /\ w \notin Said
    BY Sizes DEF Types, Said
  <1>2. CASE actor'[w].at = "sent"
    <2>1. Said' = Said \cup {w}
      BY <1>2 DEF Said, Actors
    <2>2. Cardinality(Said \cup {w}) = Cardinality(Said) + 1
      BY <1>1, FS_AddElement
    <2>3. QED
      BY <1>2, <2>1, <2>2 DEF One
  <1>3. CASE actor'[w].at # "sent"
    <2>1. Said' = Said
      BY <1>3 DEF Said, Actors
    <2>2. Cardinality(Said) \in Nat
      BY Sizes DEF Types
    <2>3. QED
      BY <1>3, <2>1, <2>2 DEF One
  <1>4. QED
    BY <1>2, <1>3

\* Loop is inductive.
LEMMA LoopKept ==
    ASSUME Types, Loop, [Next]_vars
    PROVE  Loop'
  <1>0. Cardinality(Said) \in Nat /\ Startup \notin setup.workers /\ channel \in Nat
    BY Sizes DEF Types
  <1>1. CASE Start
    <2>1. /\ UNCHANGED <<setup, channel, taken, rpc, dashboard, recovery>>
          /\ main = "down" /\ main' = "starting"
          /\ actor' = [actor EXCEPT ![Startup] = [Off EXCEPT !.at = "list", !.errand = "serve"]]
      BY <1>1 DEF Start
    <2>2. /\ \A w \in setup.workers : actor'[w] = actor[w]
          /\ actor'[Startup].at = "list" /\ actor'[Startup].errand = "serve"
      BY <1>0, <2>1 DEF Types, Actors, Off
    <2>3. Said' = Said
      BY <2>1, <2>2 DEF Said
    <2>4. QED
      BY <2>1, <2>2, <2>3 DEF Loop, Accounts
  <1>2. CASE Serve
    <2>1. /\ UNCHANGED <<setup, channel, taken>>
          /\ main' = "up" /\ rpc' = "on" /\ dashboard' = "on" /\ recovery' = "on"
          /\ actor' = [w \in Actors |-> IF w = Startup THEN Off ELSE [Off EXCEPT !.at = "idle"]]
          /\ actor[Startup].at # "off"
      BY <1>2 DEF Serve
    <2>2. /\ \A w \in setup.workers : actor'[w].at = "idle"
          /\ actor'[Startup].at = "off"
      BY <1>0, <2>1 DEF Actors, Off
    <2>3. Said' = {} /\ Said = {}
      BY <2>1, <2>2 DEF Said, Loop
    <2>4. Cardinality(Said)' = 0 /\ channel' = 0 /\ ~taken'
      BY <2>1, <2>3, FS_EmptySet DEF Loop
    <2>5. Accounts'
      BY <2>1, <2>4 DEF Accounts, One
    <2>6. QED
      BY <2>1, <2>2, <2>4, <2>5 DEF Loop
  <1>3. CASE Return \/ Killed
    <2>1. Down /\ setup' = setup
      BY <1>3 DEF Return, Killed
    <2>2. QED
      BY <2>1, DownIs
  <1>4. CASE LoopOnly
    <2>1. UNCHANGED <<setup, actor>> /\ Said' = Said
      BY <1>4 DEF LoopOnly, Stop, TakeError, RpcFails, RpcReports, RpcEnds, DashboardFails,
                  DashboardReports, RecoveryFails, RecoveryReports, Said
    <2>2. Accounts'
      <3>1. CASE TakeError
        BY <1>0, <2>1, <3>1 DEF TakeError, Loop, Accounts, One
      <3>2. CASE RpcReports
        BY <1>0, <2>1, <3>2 DEF RpcReports, Report, Loop, Accounts, One
      <3>3. CASE DashboardReports
        BY <1>0, <2>1, <3>3 DEF DashboardReports, Report, Loop, Accounts, One
      <3>4. CASE RecoveryReports
        BY <1>0, <2>1, <3>4 DEF RecoveryReports, Report, Loop, Accounts, One
      <3>5. CASE Stop \/ RpcFails \/ RpcEnds \/ DashboardFails \/ RecoveryFails
        BY <2>1, <3>5 DEF Stop, RpcFails, RpcEnds, DashboardFails, RecoveryFails, Loop,
                          Accounts, One
      <3>6. CASE UNCHANGED loopVars
        BY <2>1, <3>6 DEF Loop, Accounts
      <3>7. QED
        BY <1>4, <3>1, <3>2, <3>3, <3>4, <3>5, <3>6 DEF LoopOnly
    <2>3. /\ main' = "up" => main = "up" /\ taken' = taken
          /\ main' \in {"down", "starting"} =>
                main = main' /\ UNCHANGED <<channel, taken, rpc, dashboard, recovery>>
          /\ main = "starting" => main' = "starting"
      BY <1>4 DEF LoopOnly, Stop, TakeError, RpcFails, RpcReports, RpcEnds, DashboardFails,
                  DashboardReports, RecoveryFails, RecoveryReports, Loop
    <2>4. QED
      BY <2>1, <2>2, <2>3 DEF Loop
  <1>5. ASSUME NEW w \in setup.workers, Moves(w), ~Down
        PROVE  Loop'
    <2>1. /\ actor[w].at \notin {"off", "sent"} /\ setup' = setup /\ w \in Actors
          /\ \A v \in Actors : v # w => actor'[v] = actor[v]
          /\ actor'[w].at # "sent" \/ WorkerReports(w)
          /\ UNCHANGED loopVars \/ WorkerReports(w)
      BY <1>5, MoveOf DEF Actors
    <2>2. Cardinality(Said)' = Cardinality(Said) + One(actor'[w].at = "sent")
      BY <2>1, SaidIs
    <2>3. main \notin {"down", "starting"} /\ actor'[Startup] = actor[Startup]
      BY <1>0, <2>1 DEF Loop, Actors
    <2>4. UNCHANGED <<main, taken, rpc, dashboard, recovery>>
      BY <2>1 DEF WorkerReports
    <2>5. Accounts'
      <3>1. CASE WorkerReports(w)
        <4>1. actor'[w].at = "sent"
          BY <2>1, <3>1, ActorFields DEF ActorIs, ActorAt
        <4>2. channel' = channel + 1
          BY <3>1 DEF WorkerReports, Report
        <4>3. QED
          BY <1>0, <2>2, <2>4, <4>1, <4>2 DEF Loop, Accounts, One
      <3>2. CASE actor'[w].at # "sent" /\ channel' = channel
        BY <1>0, <2>2, <2>4, <3>2 DEF Loop, Accounts, One
      <3>3. QED
        BY <2>1, <3>1, <3>2
    <2>6. QED
      BY <2>3, <2>4, <2>5 DEF Loop
  <1>6. CASE StartupMoves
    <2>1. Moves(Startup) /\ Startup \in Actors
      BY <1>6 DEF StartupMoves, Moves, Actors
    <2>2. actor[Startup].at # "off" /\ setup' = setup
      BY <2>1, MoveOf
    <2>3. CASE Down
      BY <2>2, <2>3, DownIs
    <2>4. CASE ~Down
      <3>1. /\ \A w \in setup.workers : actor'[w] = actor[w]
            /\ UNCHANGED loopVars
        BY <1>0, <1>6, <2>1, <2>4, MoveOf
           DEF StartupMoves, Actors, ListLogs, RemoveLog, ForgetLog, PruneFails
      <3>2. ~PruneFails(Startup)
        BY <2>2, <2>4 DEF PruneFails, Loop
      <3>3. actor'[Startup].at \in {"prune", "forget"} /\ actor'[Startup].errand = "serve"
        BY <1>6, <2>1, <2>2, <3>2, ActorFields DEF StartupMoves, ActorIs, ActorAt, Loop
      <3>4. Said' = Said
        BY <2>2, <3>1 DEF Said
      <3>5. QED
        BY <2>2, <3>1, <3>3, <3>4 DEF Loop, Accounts
    <2>5. QED
      BY <2>3, <2>4
  <1>7. ASSUME NEW w \in setup.workers, Moves(w), Down
        PROVE  Loop'
    BY <1>7, MoveOf, DownIs DEF Actors
  <1>8. QED
    BY <1>1, <1>2, <1>3, <1>4, <1>5, <1>6, <1>7, Kinds

-----------------------------------------------------------------------------
\* A step of w keeps Mine if it leaves the jobs of the others running, and gives
\* w nothing but a job that nobody else has.
LEMMA MineStep ==
    ASSUME Types, Mine, setup' = setup, NEW w \in Actors,
           \A v \in Actors : v # w => actor'[v] = actor[v],
           \A j \in setup.jobs : job'[j].state = "queued" =>
                job[j].state = "queued" /\ (job'[j].path => job[j].path),
           \A v \in Actors : v # w /\ Holds(v) =>
                /\ job'[actor[v].job].state = "running"
                /\ job'[actor[v].job].path => job[actor[v].job].path,
           Holding(actor'[w].at, actor'[w].errand) =>
                /\ actor'[w].job \in setup.jobs /\ job'[actor'[w].job].state = "running"
                /\ PathIs(actor'[w].at, job'[actor'[w].job].path, actor'[w].logged)
                /\ \A v \in Actors : v # w /\ Holds(v) => actor[v].job # actor'[w].job
    PROVE  Mine'
  <1>1. \A v \in Actors : Holds(v)' <=> Holding(actor'[v].at, actor'[v].errand)
    BY DEF Holds, Holding
  <1>2. ASSUME NEW v \in Actors, v # w
        PROVE  /\ Holds(v)' <=> Holds(v)
               /\ Holds(v) => PathIs(actor'[v].at, job'[actor'[v].job].path, actor'[v].logged)
    BY <1>1, <1>2 DEF Holds, Mine, PathIs
  <1>3. ASSUME NEW v \in Actors, Holds(v)'
        PROVE  /\ actor'[v].job \in setup.jobs /\ job'[actor'[v].job].state = "running"
               /\ PathIs(actor'[v].at, job'[actor'[v].job].path, actor'[v].logged)
               /\ \A u \in Actors : Holds(u)' /\ actor'[u].job = actor'[v].job => u = v
    <2>1. CASE v = w
      BY <1>1, <1>2, <1>3, <2>1
    <2>2. CASE v # w
      BY <1>1, <1>2, <1>3, <2>2 DEF Mine
    <2>3. QED
      BY <2>1, <2>2
  <1>4. \A j \in setup.jobs : job'[j].state = "queued" => ~job'[j].path
    BY DEF Mine
  <1>5. Actors' = Actors
    BY DEF Actors
  <1>6. ASSUME NEW v \in Actors, Holds(v)'
        PROVE  PathIs(actor[v].at, job[actor[v].job].path, actor[v].logged)'
    BY <1>3, <1>6 DEF PathIs
  <1>7. QED
    BY <1>3, <1>4, <1>5, <1>6 DEF Mine

\* The case of a step that changes no row, and takes w no job.
LEMMA MineStays ==
    ASSUME Types, Mine, setup' = setup, NEW w \in Actors,
           \A v \in Actors : v # w => actor'[v] = actor[v],
           \A j \in setup.jobs : /\ job'[j].state = job[j].state
                                 /\ job'[j].path => job[j].path,
           Holding(actor'[w].at, actor'[w].errand) =>
                /\ Holds(w) /\ actor'[w].job = actor[w].job
                /\ PathIs(actor'[w].at, job[actor[w].job].path, actor'[w].logged)
    PROVE  Mine'
  <1>1. \A v \in Actors : Holds(v) => actor[v].job \in setup.jobs
    BY DEF Mine
  <1>2. Holding(actor'[w].at, actor'[w].errand) =>
            /\ actor'[w].job \in setup.jobs /\ job'[actor'[w].job].state = "running"
            /\ PathIs(actor'[w].at, job'[actor'[w].job].path, actor'[w].logged)
            /\ \A v \in Actors : v # w /\ Holds(v) => actor[v].job # actor'[w].job
    BY <1>1 DEF Mine, PathIs
  <1>3. QED
    BY <1>1, <1>2, MineStep DEF Mine

\* Nobody has a job.
LEMMA MineNobody ==
    ASSUME Mine, setup' = setup,
           \A w \in Actors : ~Holding(actor'[w].at, actor'[w].errand),
           \A j \in setup.jobs : /\ job'[j].state = "queued" => job[j].state = "queued"
                                 /\ job'[j].path = job[j].path
    PROVE  Mine'
  <1>1. \A w \in Actors : ~Holds(w)'
    BY DEF Holds, Holding
  <1>2. QED
    BY <1>1 DEF Mine, Actors

\* The only step of w that ends the process is a failed pruning at startup.
LEMMA OnlyPruning ==
    ASSUME Types, Loop, NEW w \in Actors, Moves(w), Down
    PROVE  PruneFails(w)
  <1>1. main # "down" /\ main' = "down"
    BY MoveOf DEF Loop, Actors, Down
  <1>2. /\ ~\E j \in setup.jobs : Claim(w, j) \/ RemoveLog(w, j) \/ ForgetLog(w, j)
        /\ ~(ListLogs(w) \/ Create(w) \/ Note(w) \/ EndRun(w) \/ Verdict(w) \/ AppendTerminal(w))
        /\ ~(Release(w) \/ WorkerReports(w) \/ WorkerEnds(w) \/ ClaimFails(w) \/ CreateFails(w))
        /\ ~(VerdictFails(w) \/ AppendFails(w))
    BY <1>1 DEF Claim, RemoveLog, ForgetLog, ListLogs, Create, Note, EndRun, Verdict,
                AppendTerminal, Release, WorkerReports, WorkerEnds, ClaimFails, CreateFails,
                VerdictFails, AppendFails
  <1>3. QED
    BY <1>2 DEF Moves

\* Mine is inductive.
LEMMA MineKept ==
    ASSUME Types, Types', Loop, Mine, [Next]_vars
    PROVE  Mine'
  <1>1. CASE Start
    <2>1. /\ setup' = setup /\ main = "down"
          /\ actor' = [actor EXCEPT ![Startup] = [Off EXCEPT !.at = "list", !.errand = "serve"]]
      BY <1>1 DEF Start
    <2>2. \A w \in Actors : actor'[w].at = "off" \/ (actor'[w].at = "list"
                                                     /\ actor'[w].errand = "serve")
      BY <2>1 DEF Types, Actors, Off, Loop
    <2>3. \A w \in Actors : ~Holding(actor'[w].at, actor'[w].errand)
      BY <2>2 DEF Holding
    <2>4. PICK stamp : job' = [j \in setup.jobs |->
                         IF j \in Running THEN [job[j] EXCEPT !.state = "over", !.stamp = stamp]
                         ELSE job[j]]
      BY <1>1 DEF Start
    <2>5. \A j \in setup.jobs : /\ job'[j].state = "queued" => job[j].state = "queued"
                                /\ job'[j].path = job[j].path
      BY <2>4 DEF Types, JobRow
    <2>6. QED
      BY <2>1, <2>3, <2>5, MineNobody
  <1>2. CASE Serve
    <2>1. /\ UNCHANGED <<setup, job>>
          /\ actor' = [w \in Actors |-> IF w = Startup THEN Off ELSE [Off EXCEPT !.at = "idle"]]
      BY <1>2 DEF Serve
    <2>2. \A w \in Actors : actor'[w].at \in {"off", "idle"}
      BY <2>1 DEF Off
    <2>3. \A w \in Actors : ~Holding(actor'[w].at, actor'[w].errand)
      BY <2>2 DEF Holding
    <2>4. QED
      BY <2>1, <2>3, MineNobody
  <1>3. ASSUME Down, UNCHANGED <<setup, job>>
        PROVE  Mine'
    <2>1. \A w \in Actors : ~Holding(actor'[w].at, actor'[w].errand)
      BY <1>3, DownIs, OffIs DEF Holding
    <2>2. QED
      BY <1>3, <2>1, MineNobody
  <1>4. CASE LoopOnly
    <2>1. UNCHANGED <<setup, actor, job>>
      BY <1>4 DEF LoopOnly, Stop, TakeError, RpcFails, RpcReports, RpcEnds, DashboardFails,
                  DashboardReports, RecoveryFails, RecoveryReports
    <2>2. QED
      BY <2>1 DEF Mine, Holds, Holding, PathIs, Actors
  <1>5. ASSUME NEW w \in Actors, Moves(w), ~Down
        PROVE  Mine'
    <2>1. setup' = setup /\ \A v \in Actors : v # w => actor'[v] = actor[v]
      BY <1>5, MoveOf
    <2>2. ASSUME NEW j \in setup.jobs, Claim(w, j)
          PROVE  Mine'
      <3>1. /\ job[j].state = "queued" /\ JobIs(j, "running", job[j].stamp, job[j].path)
            /\ ActorIs(w, "list", j, {}, "create", FALSE)
        BY <2>2, JobFields, ActorFields DEF Claim
      <3>2. \A v \in Actors : Holds(v) => actor[v].job \in setup.jobs /\ actor[v].job # j
        BY <3>1 DEF Mine
      <3>3. PathIs("list", job'[j].path, actor'[w].logged)
        BY <3>1 DEF Mine, PathIs, JobIs, ActorIs
      <3>4. \A k \in setup.jobs : job'[k].state = "queued" =>
                job[k].state = "queued" /\ (job'[k].path => job[k].path)
        BY <3>1 DEF JobIs
      <3>5. \A v \in Actors : v # w /\ Holds(v) =>
                /\ job'[actor[v].job].state = "running"
                /\ job'[actor[v].job].path => job[actor[v].job].path
        BY <3>1, <3>2 DEF JobIs, Mine
      <3>6. /\ actor'[w].job = j /\ actor'[w].at = "list" /\ job'[j].state = "running"
        BY <3>1 DEF ActorIs, JobIs
      <3>7. QED
        BY <2>1, <3>2, <3>3, <3>4, <3>5, <3>6, MineStep
    <2>3. ASSUME NEW j \in setup.jobs, RemoveLog(w, j) \/ ForgetLog(w, j)
          PROVE  Mine'
      <3>1. /\ actor[w].at \in {"prune", "forget"}
            /\ \/ JobIs(j, job[j].state, job[j].stamp, job[j].path)
               \/ JobIs(j, job[j].state, job[j].stamp, FALSE)
        BY <2>3, JobFields DEF RemoveLog, ForgetLog
      <3>2. /\ actor'[w].at \in {"prune", "forget"} /\ actor'[w].job = actor[w].job
            /\ actor'[w].errand = actor[w].errand
            /\ actor'[w].logged <=> actor[w].logged
        <4>1. RemoveLog(w, j) => ActorAt(w, "forget")
          BY <1>5, ActorFields
        <4>2. ForgetLog(w, j) =>
                ActorIs(w, "prune", actor[w].job, actor[w].doomed \ {j}, actor[w].errand,
                        actor[w].logged)
          BY <1>5, ActorFields
        <4>3. QED
          BY <2>3, <4>1, <4>2 DEF ActorIs, ActorAt
      <3>3. \A k \in setup.jobs : job'[k].state = job[k].state /\ (job'[k].path => job[k].path)
        BY <3>1 DEF JobIs
      <3>4. Holding(actor'[w].at, actor'[w].errand) =>
              Holds(w) /\ PathIs(actor'[w].at, job[actor[w].job].path, actor'[w].logged)
        BY <3>1, <3>2 DEF Holding, Holds, PathIs, Mine
      <3>5. QED
        BY <2>1, <3>2, <3>3, <3>4, MineStays
    <2>4. ASSUME ListLogs(w) \/ EndRun(w) \/ CreateFails(w) \/ PruneFails(w)
          PROVE  Mine'
      <3>1. /\ job' = job
            /\ actor[w].at \in {"list", "prune", "forget", "note", "run"}
        BY <2>4 DEF ListLogs, EndRun, CreateFails, PruneFails
      <3>2. /\ ListLogs(w) => actor[w].at = "list"
            /\ EndRun(w) => actor[w].at = "run"
            /\ CreateFails(w) => Holds(w)
            /\ PruneFails(w) => actor[w].at \in {"list", "prune", "forget"}
        BY DEF ListLogs, EndRun, CreateFails, PruneFails, Holds, Holding
      <3>3. \/ /\ ListLogs(w)
               /\ ActorIs(w, "prune", actor[w].job, Prunable, actor[w].errand, actor[w].logged)
            \/ EndRun(w) /\ ActorAt(w, "verdict")
            \/ /\ CreateFails(w)
               /\ ActorIs(w, "verdict", actor[w].job, actor[w].doomed, actor[w].errand, TRUE)
            \/ PruneFails(w) /\ actor[w].errand = "create" /\ ActorAt(w, "verdict")
            \/ ActorIs(w, "prune", actor[w].job, {}, "release", actor[w].logged)
        BY <1>5, <2>4, ActorFields
      <3>4. Holding(actor'[w].at, actor'[w].errand) =>
              /\ Holds(w) /\ actor'[w].job = actor[w].job
              /\ PathIs(actor'[w].at, job[actor[w].job].path, actor'[w].logged)
        <4>1. CASE ListLogs(w)
          <5>1. /\ actor'[w].at = "prune" /\ actor'[w].job = actor[w].job
                /\ actor'[w].errand = actor[w].errand
                /\ actor'[w].logged <=> actor[w].logged
            <6>1. ActorIs(w, "prune", actor[w].job, Prunable, actor[w].errand, actor[w].logged)
              BY <1>5, <4>1, ActorFields
            <6>2. QED
              BY <6>1 DEF ActorIs
          <5>2. actor[w].at = "list"
            BY <3>2, <4>1
          <5>3. actor[w].errand = "create" => Holds(w)
            BY <5>2 DEF Holding, Holds
          <5>4. Holds(w) => ~job[actor[w].job].path
            BY <5>2 DEF PathIs, Mine
          <5>5. QED
            BY <5>1, <5>3, <5>4 DEF Holding, PathIs
        <4>2. CASE EndRun(w)
          BY <3>2, <4>2, ActorFields DEF ActorIs, ActorAt, Holding, Holds, PathIs, Mine
        <4>3. CASE CreateFails(w)
          BY <3>2, <4>3, ActorFields DEF ActorIs, Holding, Holds, PathIs, Mine
        <4>4. CASE PruneFails(w) /\ actor[w].errand = "create" /\ ActorAt(w, "verdict")
          BY <3>2, <4>4 DEF ActorIs, ActorAt, Holding, Holds, PathIs, Mine
        <4>5. CASE ActorIs(w, "prune", actor[w].job, {}, "release", actor[w].logged)
          BY <4>5 DEF ActorIs, Holding
        <4>6. QED
          BY <3>3, <4>1, <4>2, <4>3, <4>4, <4>5
      <3>5. QED
        BY <2>1, <3>1, <3>4, MineStays
    <2>5. ASSUME Create(w)
          PROVE  Mine'
      <3>1. /\ actor[w].at = "prune" /\ actor[w].errand = "create" /\ Holds(w)
        BY <2>5 DEF Create, Holds, Holding
      <3>2. actor[w].job \in setup.jobs /\ ~job[actor[w].job].path
        BY <3>1 DEF Mine, PathIs
      <3>3. /\ JobIs(actor[w].job, job[actor[w].job].state, job[actor[w].job].stamp,
                     job[actor[w].job].path)
            /\ ActorIs(w, "note", actor[w].job, actor[w].doomed, actor[w].errand, TRUE)
        BY <2>5, <3>2, JobFields, ActorFields
      <3>4. /\ actor'[w].at = "note" /\ actor'[w].job = actor[w].job /\ actor'[w].logged
            /\ PathIs("note", job[actor[w].job].path, actor'[w].logged)
        BY <3>2, <3>3 DEF ActorIs, PathIs
      <3>5. \A k \in setup.jobs : job'[k].state = job[k].state /\ (job'[k].path => job[k].path)
        BY <3>3 DEF JobIs
      <3>6. QED
        BY <2>1, <3>1, <3>4, <3>5, MineStays
    <2>6. ASSUME Note(w) \/ Verdict(w)
          PROVE  Mine'
      <3>1. Holds(w)
        BY <2>6 DEF Note, Verdict, Holds, Holding
      <3>2. /\ actor[w].job \in setup.jobs /\ job[actor[w].job].state = "running"
            /\ \A v \in Actors : v # w /\ Holds(v) =>
                  actor[v].job \in setup.jobs /\ actor[v].job # actor[w].job
            /\ Note(w) => actor[w].logged
        BY <3>1 DEF Mine, Note, PathIs
      <3>3. \/ /\ Note(w) /\ ActorAt(w, "run")
               /\ JobIs(actor[w].job, job[actor[w].job].state, job[actor[w].job].stamp, TRUE)
            \/ /\ ActorAt(w, "append")
               /\ JobIs(actor[w].job, "over", now', actor[w].logged)
        BY <2>6, <3>2, JobFields, ActorFields
      <3>4. /\ \A k \in setup.jobs : k # actor[w].job => job'[k] = job[k]
            /\ job'[actor[w].job].state # "queued"
        BY <3>2, <3>3 DEF JobIs
      <3>5. \A v \in Actors : v # w /\ Holds(v) =>
                /\ job'[actor[v].job].state = "running"
                /\ job'[actor[v].job].path => job[actor[v].job].path
        BY <3>2, <3>4 DEF Mine
      <3>6. Holding(actor'[w].at, actor'[w].errand) =>
                /\ actor'[w].job \in setup.jobs /\ job'[actor'[w].job].state = "running"
                /\ PathIs(actor'[w].at, job'[actor'[w].job].path, actor'[w].logged)
                /\ \A v \in Actors : v # w /\ Holds(v) => actor[v].job # actor'[w].job
        BY <3>2, <3>3 DEF ActorAt, ActorIs, JobIs, Holding, PathIs
      <3>7. \A k \in setup.jobs : job'[k].state = "queued" =>
                job[k].state = "queued" /\ (job'[k].path => job[k].path)
        BY <3>4
      <3>8. QED
        BY <2>1, <3>5, <3>6, <3>7, MineStep
    <2>7. ASSUME \/ AppendTerminal(w) \/ AppendFails(w) \/ Release(w) \/ WorkerReports(w)
                 \/ WorkerEnds(w) \/ ClaimFails(w) \/ VerdictFails(w)
          PROVE  Mine'
      <3>1. job' = job
        BY <2>7 DEF AppendTerminal, AppendFails, Release, WorkerReports, WorkerEnds, ClaimFails,
                    VerdictFails
      <3>2. \/ actor'[w].at \in {"idle", "send", "sent", "off"}
            \/ actor'[w].at = "list" /\ actor'[w].errand = "release"
        BY <2>7, ActorFields DEF ActorIs, ActorAt
      <3>3. ~Holding(actor'[w].at, actor'[w].errand)
        BY <3>2 DEF Holding
      <3>4. QED
        BY <2>1, <3>1, <3>3, MineStays
    <2>8. QED
      BY <1>5, <2>2, <2>3, <2>4, <2>5, <2>6, <2>7 DEF Moves
  <1>6. ASSUME NEW w \in Actors, Moves(w), Down
        PROVE  Mine'
    BY <1>3, <1>6, OnlyPruning DEF PruneFails
  <1>7. QED
    <2>1. StartupMoves => Moves(Startup) /\ Startup \in Actors
      BY DEF StartupMoves, Moves, Actors
    <2>2. Return \/ Killed => Down /\ UNCHANGED <<setup, job>>
      BY DEF Return, Killed
    <2>3. QED
      BY <1>1, <1>2, <1>3, <1>4, <1>5, <1>6, <2>1, <2>2, Kinds DEF Actors

-----------------------------------------------------------------------------
\* A finished job stays overdue if enough of the newer logs stay.
LEMMA OverdueIf ==
    ASSUME Types, setup' = setup, NEW j \in setup.jobs, job'[j].state = "over",
           setup.retention # 0, NEW S, S \subseteq Newers(j)',
           Cardinality(S) >= setup.retention
    PROVE  Overdue(j)'
  <1>1. Newers(j)' \in SUBSET setup.jobs
    BY DEF Newers, Logged
  <1>2. IsFiniteSet(Newers(j)')
    BY <1>1, Sizes, FS_Subset DEF Types
  <1>3. Cardinality(S) <= Cardinality(Newers(j)') /\ IsFiniteSet(S)
    BY <1>2, FS_Subset
  <1>4. Cardinality(S) \in Nat /\ Cardinality(Newers(j)') \in Nat /\ setup.retention \in Nat
    BY <1>2, <1>3, FS_CardinalityType, Sizes DEF Types
  <1>5. Cardinality(Newers(j)') >= setup.retention
    BY <1>3, <1>4
  <1>6. QED
    BY <1>5 DEF Overdue

\* So it does in a step that leaves the finished jobs alone.
LEMMA OverdueStays ==
    ASSUME Types, setup' = setup, NEW j, Overdue(j),
           \A k \in setup.jobs : job[k].state = "over" =>
                /\ job'[k].state = "over" /\ job'[k].stamp = job[k].stamp
                /\ job[k].path => job'[k].path
    PROVE  Overdue(j)'
  <1>1. /\ j \in setup.jobs /\ job[j].state = "over" /\ setup.retention # 0
        /\ Cardinality(Newers(j)) >= setup.retention
    BY DEF Overdue
  <1>2. Newers(j) \subseteq Newers(j)'
    <2>1. SUFFICES ASSUME NEW k \in Newers(j)
                   PROVE  k \in Newers(j)'
      OBVIOUS
    <2>2. k \in setup.jobs /\ job[k].state = "over" /\ job[k].path /\ Newer(k, j)
      BY DEF Newers, Logged
    <2>3. /\ job'[k].state = "over" /\ job'[k].stamp = job[k].stamp /\ job'[k].path
          /\ job'[j].stamp = job[j].stamp
      BY <1>1, <2>2
    <2>4. Newer(k, j)'
      BY <2>2, <2>3 DEF Newer
    <2>5. QED
      BY <2>2, <2>3, <2>4 DEF Newers, Logged
  <1>3. QED
    BY <1>1, <1>2, OverdueIf

\* And when the log of i goes: what is newer than i is newer than j.
LEMMA OverdueForgot ==
    ASSUME Types, setup' = setup, NEW j, Overdue(j), NEW i \in setup.jobs, Overdue(i),
           JobIs(i, job[i].state, job[i].stamp, FALSE)
    PROVE  Overdue(j)'
  <1>1. /\ j \in setup.jobs /\ job[j].state = "over" /\ setup.retention # 0
        /\ Cardinality(Newers(j)) >= setup.retention
        /\ Cardinality(Newers(i)) >= setup.retention
    BY DEF Overdue
  <1>2. \A k \in setup.jobs : /\ job'[k].state = job[k].state /\ job'[k].stamp = job[k].stamp
                              /\ k # i => job'[k].path = job[k].path
    BY DEF JobIs
  <1>3. \A k, l \in setup.jobs : Newer(k, l)' <=> Newer(k, l)
    BY <1>2 DEF Newer
  <1>4. \A k \in setup.jobs : k \in Nat /\ job[k].stamp \in Nat
    BY Sizes DEF Types, JobRow
  <1>5. CASE i \notin Newers(j)
    <2>1. Newers(j) \subseteq Newers(j)'
      BY <1>1, <1>2, <1>3, <1>5 DEF Newers, Logged
    <2>2. QED
      BY <1>1, <1>2, <2>1, OverdueIf
  <1>6. CASE i \in Newers(j)
    <2>1. ASSUME NEW k \in Newers(i)
          PROVE  k \in Newers(j)'
      <3>1. /\ k \in setup.jobs /\ job[k].state = "over" /\ job[k].path
            /\ Newer(k, i) /\ Newer(i, j)
        BY <1>6 DEF Newers, Logged
      <3>2. Newer(k, j) /\ k # i
        BY <1>1, <1>4, <3>1 DEF Newer
      <3>3. job'[k].state = "over" /\ job'[k].path /\ Newer(k, j)'
        BY <1>1, <1>2, <1>3, <3>1, <3>2
      <3>4. QED
        BY <3>1, <3>3 DEF Newers, Logged
    <2>2. Newers(i) \subseteq Newers(j)'
      BY <2>1
    <2>3. QED
      BY <1>1, <1>2, <2>2, OverdueIf
  <1>7. QED
    BY <1>5, <1>6

\* What a step does to the rows of the finished jobs: nothing, but that a pruning
\* forgets a log on its list.
LEMMA OverRows ==
    ASSUME Types, Mine, Doomed, [Next]_vars
    PROVE  \/ \A k \in setup.jobs : job[k].state = "over" =>
                /\ job'[k].state = "over" /\ job'[k].stamp = job[k].stamp
                /\ job[k].path => job'[k].path
           \/ \E i \in setup.jobs :
                Overdue(i) /\ JobIs(i, job[i].state, job[i].stamp, FALSE)
  <1> DEFINE Stays == \A k \in setup.jobs : job[k].state = "over" =>
                        /\ job'[k].state = "over" /\ job'[k].stamp = job[k].stamp
                        /\ job[k].path => job'[k].path
             Forgot == \E i \in setup.jobs :
                        Overdue(i) /\ JobIs(i, job[i].state, job[i].stamp, FALSE)
  <1>1. CASE Start
    <2>1. PICK stamp : job' = [j \in setup.jobs |->
                         IF j \in Running THEN [job[j] EXCEPT !.state = "over", !.stamp = stamp]
                         ELSE job[j]]
      BY <1>1 DEF Start
    <2>2. QED
      BY <2>1 DEF Running
  <1>2. CASE Serve \/ Return \/ Killed \/ LoopOnly
    <2>1. job' = job
      BY <1>2 DEF Serve, Return, Killed, LoopOnly, Stop, TakeError, RpcFails, RpcReports, RpcEnds,
                  DashboardFails, DashboardReports, RecoveryFails, RecoveryReports
    <2>2. QED
      BY <2>1
  <1>3. ASSUME NEW w \in Actors, NEW j \in setup.jobs, Claim(w, j)
        PROVE  Stays
    <2>1. job[j].state = "queued" /\ JobIs(j, "running", job[j].stamp, job[j].path)
      BY <1>3, JobFields DEF Claim
    <2>2. QED
      BY <2>1 DEF JobIs
  <1>4. ASSUME NEW w \in Actors, NEW j \in setup.jobs, RemoveLog(w, j)
        PROVE  Stays
    BY <1>4, JobFields DEF JobIs
  <1>5. ASSUME NEW w \in Actors, NEW j \in setup.jobs, ForgetLog(w, j)
        PROVE  Forgot
    <2>1. j \in actor[w].doomed
      BY <1>5 DEF ForgetLog, FirstDoomed
    <2>2. QED
      BY <1>5, <2>1, JobFields DEF Doomed
  <1>6. ASSUME NEW w \in Actors, Create(w) \/ Note(w) \/ Verdict(w)
        PROVE  Stays
    <2>1. Holds(w)
      BY <1>6 DEF Create, Note, Verdict, Holds, Holding
    <2>2. actor[w].job \in setup.jobs /\ job[actor[w].job].state = "running"
      BY <2>1 DEF Mine
    <2>3. \A k \in setup.jobs : k # actor[w].job => job'[k] = job[k]
      BY <1>6, <2>2, JobFields DEF JobIs
    <2>4. QED
      BY <2>2, <2>3
  <1>7. ASSUME NEW w \in Actors,
               ListLogs(w) \/ EndRun(w) \/ AppendTerminal(w) \/ Release(w) \/ WorkerReports(w)
               \/ WorkerEnds(w) \/ ClaimFails(w) \/ CreateFails(w) \/ VerdictFails(w)
               \/ AppendFails(w) \/ PruneFails(w)
        PROVE  Stays
    <2>1. job' = job
      BY <1>7 DEF ListLogs, EndRun, AppendTerminal, Release, WorkerReports, WorkerEnds,
                  ClaimFails, CreateFails, VerdictFails, AppendFails, PruneFails
    <2>2. QED
      BY <2>1
  <1>8. ASSUME NEW w \in Actors, Moves(w)
        PROVE  Stays \/ Forgot
    BY <1>3, <1>4, <1>5, <1>6, <1>7, <1>8 DEF Moves
  <1>9. StartupMoves => Moves(Startup) /\ Startup \in Actors
    BY DEF StartupMoves, Moves, Actors
  <1>10. QED
    BY <1>1, <1>2, <1>8, <1>9, Kinds DEF Actors

\* No step changes the setup.
LEMMA SameSetup ==
    ASSUME Types, [Next]_vars
    PROVE  setup' = setup
  <1>1. \A w \in Actors : Moves(w) => setup' = setup
    BY MoveOf
  <1>2. StartupMoves => Moves(Startup) /\ Startup \in Actors
    BY DEF StartupMoves, Moves, Actors
  <1>3. Start \/ Serve \/ Return \/ Killed => setup' = setup
    BY DEF Start, Serve, Return, Killed
  <1>4. LoopOnly => setup' = setup
    BY DEF LoopOnly, Stop, TakeError, RpcFails, RpcReports, RpcEnds, DashboardFails,
           DashboardReports, RecoveryFails, RecoveryReports
  <1>5. QED
    BY <1>1, <1>2, <1>3, <1>4, Kinds DEF Actors

\* Doomed is inductive.
LEMMA DoomedKept ==
    ASSUME Types, Loop, Mine, Doomed, [Next]_vars
    PROVE  Doomed'
  <1>1. setup' = setup /\ Actors' = Actors
    BY SameSetup DEF Actors
  <1>2. ASSUME NEW j, Overdue(j)
        PROVE  Overdue(j)'
    BY <1>1, <1>2, OverRows, OverdueStays, OverdueForgot
  <1>3. ASSUME NEW w \in Actors
        PROVE  \A j \in actor'[w].doomed : Overdue(j)
    <2>1. CASE Start
      <3>1. actor' = [actor EXCEPT ![Startup] = [Off EXCEPT !.at = "list", !.errand = "serve"]]
        BY <2>1 DEF Start
      <3>2. actor'[w] = actor[w] \/ actor'[w].doomed = {}
        BY <3>1 DEF Types, Off
      <3>3. QED
        BY <3>2 DEF Doomed
    <2>2. CASE Serve
      <3>1. actor' = [v \in Actors |-> IF v = Startup THEN Off ELSE [Off EXCEPT !.at = "idle"]]
        BY <2>2 DEF Serve
      <3>2. actor'[w].doomed = {}
        BY <3>1 DEF Off
      <3>3. QED
        BY <3>2
    <2>3. CASE Down
      BY <1>1, <2>3, DownIs, OffIs
    <2>4. CASE LoopOnly
      <3>1. actor' = actor
        BY <2>4 DEF LoopOnly, Stop, TakeError, RpcFails, RpcReports, RpcEnds, DashboardFails,
                    DashboardReports, RecoveryFails, RecoveryReports
      <3>2. QED
        BY <3>1 DEF Doomed
    <2>5. ASSUME NEW v \in Actors, Moves(v), ~Down
          PROVE  \A j \in actor'[w].doomed : Overdue(j)
      <3>1. CASE w # v
        BY <2>5, <3>1, MoveOf DEF Doomed
      <3>2. \/ actor'[v].doomed \subseteq actor[v].doomed
            \/ actor'[v].doomed = Prunable
        <4>1. ASSUME NEW j \in setup.jobs, Claim(v, j) \/ RemoveLog(v, j) \/ ForgetLog(v, j)
              PROVE  actor'[v].doomed \subseteq actor[v].doomed
          <5>1. actor'[v].doomed \in {{}, actor[v].doomed, actor[v].doomed \ {j}}
            BY <4>1, ActorFields DEF ActorIs, ActorAt
          <5>2. QED
            BY <5>1
        <4>2. ASSUME ListLogs(v) \/ Create(v) \/ Note(v) \/ EndRun(v) \/ Verdict(v)
                     \/ AppendTerminal(v)
              PROVE  actor'[v].doomed \in {Prunable, actor[v].doomed}
          BY <4>2, ActorFields DEF ActorIs, ActorAt
        <4>3. ASSUME Release(v) \/ WorkerReports(v) \/ WorkerEnds(v) \/ ClaimFails(v)
                     \/ CreateFails(v) \/ VerdictFails(v) \/ AppendFails(v) \/ PruneFails(v)
              PROVE  actor'[v].doomed \in {{}, actor[v].doomed}
          BY <2>5, <4>3, ActorFields DEF ActorIs, ActorAt
        <4>4. QED
          BY <2>5, <4>1, <4>2, <4>3 DEF Moves
      <3>3. \A j \in Prunable : Overdue(j)
        BY DEF Prunable, Overdue, Newers, Logged
      <3>4. QED
        BY <3>1, <3>2, <3>3 DEF Doomed
    <2>6. StartupMoves => Moves(Startup) /\ Startup \in Actors
      BY DEF StartupMoves, Moves, Actors
    <2>7. Return \/ Killed => Down
      BY DEF Return, Killed
    <2>8. QED
      BY <2>1, <2>2, <2>3, <2>4, <2>5, <2>6, <2>7, Kinds DEF Actors
  <1>4. QED
    BY <1>1, <1>2, <1>3 DEF Doomed

\* A log goes, or its name does, only by a pruning that had it on its list.
LEMMA NewestStep ==
    ASSUME Types, Mine, Doomed, [Next]_vars, NEW j \in setup.jobs,
           (job[j].file /\ ~job'[j].file) \/ (job[j].path /\ ~job'[j].path)
    PROVE  Overdue(j)
  <1>1. ASSUME NEW w \in Actors, NEW k \in setup.jobs, RemoveLog(w, k) \/ ForgetLog(w, k)
        PROVE  Overdue(j)
    <2>1. k \in actor[w].doomed
      BY <1>1 DEF RemoveLog, ForgetLog, FirstDoomed
    <2>2. k = j
      <3>1. CASE k # j
        BY <1>1, <3>1, JobFields DEF JobIs
      <3>2. QED
        BY <3>1
    <2>3. QED
      BY <2>1, <2>2 DEF Doomed
  <1>2. ASSUME NEW w \in Actors, NEW k \in setup.jobs, Claim(w, k)
        PROVE  FALSE
    <2>1. job' = [job EXCEPT ![k].state = "running"]
      BY <1>2 DEF Claim
    <2>2. job'[j].file = job[j].file /\ job'[j].path = job[j].path
      BY <2>1 DEF Types, JobRow
    <2>3. QED
      BY <2>2
  <1>3. ASSUME NEW w \in Actors, Create(w)
        PROVE  FALSE
    <2>1. job' = [job EXCEPT ![actor[w].job].file = TRUE]
      BY <1>3 DEF Create
    <2>2. (job[j].file => job'[j].file) /\ job'[j].path = job[j].path
      BY <2>1 DEF Types, JobRow
    <2>3. QED
      BY <2>2
  <1>4. ASSUME NEW w \in Actors, Note(w)
        PROVE  FALSE
    <2>1. job' = [job EXCEPT ![actor[w].job].path = TRUE]
      BY <1>4 DEF Note
    <2>2. (job[j].path => job'[j].path) /\ job'[j].file = job[j].file
      BY <2>1 DEF Types, JobRow
    <2>3. QED
      BY <2>2
  <1>5. ASSUME NEW w \in Actors, Verdict(w)
        PROVE  FALSE
    <2>1. Holds(w) /\ actor[w].at = "verdict"
      BY <1>5 DEF Verdict, Holds, Holding
    <2>2. job[actor[w].job].path => actor[w].logged
      BY <2>1 DEF Mine, PathIs
    <2>3. PICK stamp : job' = [job EXCEPT ![actor[w].job].state = "over",
                                          ![actor[w].job].stamp = stamp,
                                          ![actor[w].job].path = actor[w].logged]
      BY <1>5 DEF Verdict
    <2>4. (job[j].path => job'[j].path) /\ job'[j].file = job[j].file
      BY <2>2, <2>3 DEF Types, JobRow
    <2>5. QED
      BY <2>4
  <1>6. ASSUME NEW w \in Actors,
               ListLogs(w) \/ EndRun(w) \/ AppendTerminal(w) \/ Release(w) \/ WorkerReports(w)
               \/ WorkerEnds(w) \/ ClaimFails(w) \/ CreateFails(w) \/ VerdictFails(w)
               \/ AppendFails(w) \/ PruneFails(w)
        PROVE  job' = job
    BY <1>6 DEF ListLogs, EndRun, AppendTerminal, Release, WorkerReports, WorkerEnds,
                ClaimFails, CreateFails, VerdictFails, AppendFails, PruneFails
  <1>7. CASE Start
    <2>1. PICK stamp : job' = [k \in setup.jobs |->
                         IF k \in Running THEN [job[k] EXCEPT !.state = "over", !.stamp = stamp]
                         ELSE job[k]]
      BY <1>7 DEF Start
    <2>2. job'[j].file = job[j].file /\ job'[j].path = job[j].path
      BY <2>1 DEF Types, JobRow
    <2>3. QED
      BY <2>2
  <1>8. CASE Serve \/ Return \/ Killed \/ LoopOnly
    BY <1>8 DEF Serve, Return, Killed, LoopOnly, Stop, TakeError, RpcFails, RpcReports, RpcEnds,
                DashboardFails, DashboardReports, RecoveryFails, RecoveryReports
  <1>9. ASSUME NEW w \in Actors, Moves(w)
        PROVE  Overdue(j)
    BY <1>1, <1>2, <1>3, <1>4, <1>5, <1>6, <1>9 DEF Moves
  <1>10. StartupMoves => Moves(Startup) /\ Startup \in Actors
    BY DEF StartupMoves, Moves, Actors
  <1>11. QED
    BY <1>7, <1>8, <1>9, <1>10, Kinds DEF Actors

-----------------------------------------------------------------------------
\* OFFSET log_retention leaves that many logs at most: each has its own number of
\* newer ones.
LEMMA Few ==
    ASSUME Types, setup.retention # 0
    PROVE  Cardinality(Logged \ Prunable) <= setup.retention
  <1> DEFINE S == Logged \ Prunable
             T == 0 .. setup.retention - 1
             f == [j \in S |-> Cardinality(Newers(j))]
  <1>1. setup.retention \in Nat /\ IsFiniteSet(setup.jobs) /\ setup.jobs \subseteq Nat
    BY Sizes DEF Types
  <1>2. IsFiniteSet(T) /\ Cardinality(T) = setup.retention
    <2>1. 0 \in Int /\ setup.retention - 1 \in Int /\ ~(0 > setup.retention - 1)
      BY <1>1
    <2>2. /\ IsFiniteSet(0 .. setup.retention - 1)
          /\ Cardinality(0 .. setup.retention - 1) =
                IF 0 > setup.retention - 1 THEN 0 ELSE (setup.retention - 1) - 0 + 1
      BY <2>1, FS_Interval
    <2>3. QED
      BY <1>1, <2>1, <2>2
  <1>3. \A j \in setup.jobs : IsFiniteSet(Newers(j)) /\ Cardinality(Newers(j)) \in Nat
    <2>1. \A j \in setup.jobs : Newers(j) \in SUBSET setup.jobs
      BY DEF Newers, Logged
    <2>2. \A j \in setup.jobs : IsFiniteSet(Newers(j))
      BY <1>1, <2>1, FS_Subset
    <2>3. QED
      BY <2>2, FS_CardinalityType
  <1>4. S \in SUBSET setup.jobs /\ IsFiniteSet(S)
    <2>1. S \in SUBSET setup.jobs
      BY DEF Logged
    <2>2. QED
      BY <1>1, <2>1, FS_Subset
  <1>5. f \in [S -> T]
    <2>1. \A j \in S : ~(Cardinality(Newers(j)) >= setup.retention)
      BY DEF Prunable, Newers
    <2>2. QED
      BY <1>1, <1>3, <1>4, <2>1
  <1>6. ASSUME NEW j \in S, NEW k \in S, Newer(j, k)
        PROVE  Cardinality(Newers(j)) # Cardinality(Newers(k))
    <2>1. \A i \in setup.jobs : i \in Nat /\ job[i].stamp \in Nat
      BY <1>1 DEF Types, JobRow
    <2>2. j \in setup.jobs /\ k \in setup.jobs /\ j \in Logged
      BY <1>4
    <2>3. \A i \in setup.jobs : Newer(i, j) => Newer(i, k)
      BY <1>6, <2>1, <2>2 DEF Newer
    <2>4. Newers(j) \in SUBSET Newers(k)
      BY <2>3 DEF Newers, Logged
    <2>5. j \in Newers(k) /\ j \notin Newers(j)
      BY <1>6, <2>1, <2>2 DEF Newers, Newer
    <2>6. QED
      BY <1>3, <2>2, <2>4, <2>5, FS_Subset
  <1>7. \A j, k \in S : j # k => f[j] # f[k]
    <2>1. SUFFICES ASSUME NEW j \in S, NEW k \in S, j # k
                   PROVE  Cardinality(Newers(j)) # Cardinality(Newers(k))
      OBVIOUS
    <2>2. /\ j \in Nat /\ k \in Nat /\ job[j].stamp \in Nat /\ job[k].stamp \in Nat
      BY <1>1, <1>4 DEF Types, JobRow
    <2>3. Newer(j, k) \/ Newer(k, j)
      BY <2>1, <2>2 DEF Newer
    <2>4. QED
      BY <1>6, <2>3
  <1> HIDE DEF S, T, f
  <1>8. ~(Cardinality(T) < Cardinality(S))
    BY <1>2, <1>4, <1>5, <1>7, FS_PigeonHole
  <1>9. Cardinality(S) \in Nat
    BY <1>4, FS_CardinalityType
  <1>10. Cardinality(S) <= setup.retention
    BY <1>1, <1>2, <1>8, <1>9
  <1>11. QED
    BY <1>10 DEF S

\* Fewer logs are not too many if there were not.
LEMMA Fewer ==
    ASSUME Types, NEW S \in SUBSET setup.jobs, NEW T \in SUBSET S,
           Cardinality(S) <= setup.retention
    PROVE  Cardinality(T) <= setup.retention
  <1>1. IsFiniteSet(S) /\ setup.retention \in Nat
    BY Sizes, FS_Subset DEF Types
  <1>2. Cardinality(T) <= Cardinality(S) /\ IsFiniteSet(T)
    BY <1>1, FS_Subset
  <1>3. Cardinality(S) \in Nat /\ Cardinality(T) \in Nat
    BY <1>1, <1>2, FS_CardinalityType
  <1>4. QED
    BY <1>1, <1>2, <1>3

\* A step after which there are no more logs, and after which w prunes still or
\* has pruned.
LEMMA RetainedIf ==
    ASSUME Types, Retained, setup' = setup, Logged' \subseteq Logged,
           main # "down", pruneFailed => pruneFailed', NEW w \in Actors,
           \A v \in Actors : v # w => actor'[v] = actor[v],
           Prunes(w) => Prunes(w)' \/ Cardinality(Logged') <= setup.retention
    PROVE  Retained'
  <1>1. Logged \in SUBSET setup.jobs /\ Actors' = Actors
    BY DEF Logged, Actors
  <1>2. CASE Cardinality(Logged) <= setup.retention
    <2>1. Cardinality(Logged') <= setup.retention
      BY <1>1, <1>2, Fewer
    <2>2. QED
      BY <2>1 DEF Retained
  <1>3. ASSUME NEW v \in Actors, Prunes(v), v # w
        PROVE  Retained'
    <2>1. Prunes(v)'
      <3>1. CASE actor[v].at \in {"append", "list"}
        BY <1>3, <3>1 DEF Prunes
      <3>2. CASE /\ actor[v].at \in {"prune", "forget"}
                 /\ Cardinality(Logged \ actor[v].doomed) <= setup.retention
        <4>1. Cardinality(Logged' \ actor[v].doomed) <= setup.retention
          BY <1>1, <3>2, Fewer
        <4>2. QED
          BY <1>3, <3>2, <4>1 DEF Prunes
      <3>3. QED
        BY <1>3, <3>1, <3>2 DEF Prunes
    <2>2. QED
      BY <1>1, <1>3, <2>1 DEF Retained
  <1>4. CASE Prunes(w)
    BY <1>1, <1>4 DEF Retained
  <1>5. CASE setup.retention = 0 \/ pruneFailed
    BY <1>5 DEF Retained
  <1>6. QED
    BY <1>2, <1>3, <1>4, <1>5 DEF Retained

\* A step after which w prunes.
LEMMA RetainedAt ==
    ASSUME setup' = setup, NEW w \in Actors, actor'[w].at \in {"append", "list"}
    PROVE  Retained'
  <1>1. Prunes(w)' /\ Actors' = Actors
    BY DEF Prunes, Actors
  <1>2. QED
    BY <1>1 DEF Retained

\* Retained is inductive.
LEMMA RetainedKept ==
    ASSUME Types, Loop, Mine, Doomed, Retained, [Next]_vars
    PROVE  Retained'
  <1>1. setup' = setup /\ Actors' = Actors /\ Startup \in Actors
    BY SameSetup DEF Actors
  <1>2. CASE Start
    <2>1. actor' = [actor EXCEPT ![Startup] = [Off EXCEPT !.at = "list", !.errand = "serve"]]
      BY <1>2 DEF Start
    <2>2. actor'[Startup].at = "list"
      BY <1>1, <2>1 DEF Types, Off
    <2>3. QED
      BY <1>1, <2>2, RetainedAt
  <1>3. CASE Serve
    <2>1. /\ actor[Startup].at = "prune" /\ actor[Startup].doomed = {}
          /\ job' = job /\ pruneFailed' = pruneFailed /\ Logged' = Logged
      BY <1>1, <1>3 DEF Serve, Logged
    <2>2. main = "starting" /\ \A w \in Actors : w # Startup => actor[w].at = "off"
      BY <2>1 DEF Loop, Actors
    <2>3. \A w \in Actors : Prunes(w) => w = Startup
      BY <2>2 DEF Prunes
    <2>4. Prunes(Startup) => Cardinality(Logged) <= setup.retention
      <3>1. Logged \ {} = Logged
        OBVIOUS
      <3>2. QED
        BY <2>1, <3>1 DEF Prunes
    <2>5. QED
      BY <1>1, <2>1, <2>2, <2>3, <2>4 DEF Retained
  <1>4. CASE Down
    BY <1>4 DEF Down, Retained
  <1>5. CASE LoopOnly
    <2>1. UNCHANGED <<actor, job, pruneFailed>>
      BY <1>5 DEF LoopOnly, Stop, TakeError, RpcFails, RpcReports, RpcEnds, DashboardFails,
                  DashboardReports, RecoveryFails, RecoveryReports
    <2>2. main = "down" => main' = "down"
      BY <1>5 DEF LoopOnly, Stop, TakeError, RpcFails, RpcReports, RpcEnds, DashboardFails,
                  DashboardReports, RecoveryFails, RecoveryReports
    <2>3. Logged' = Logged
      BY <1>1, <2>1 DEF Logged
    <2>4. \A w \in Actors : Prunes(w) => Prunes(w)'
      BY <1>1, <2>1, <2>3 DEF Prunes
    <2>5. QED
      BY <1>1, <2>1, <2>2, <2>3, <2>4 DEF Retained
  <1>6. ASSUME NEW w \in Actors, Moves(w), ~Down
        PROVE  Retained'
    <2>1. \A v \in Actors : v # w => actor'[v] = actor[v]
      BY <1>6, MoveOf
    <2>2. main # "down"
      BY <1>6, MoveOf DEF Loop, Actors
    <2>3. ASSUME NEW j \in setup.jobs, Claim(w, j) \/ RemoveLog(w, j)
          PROVE  Retained'
      <3>1. \/ actor[w].at = "idle"
            \/ actor[w].at = "prune" /\ ActorAt(w, "forget")
        BY <2>3, ActorFields DEF Claim, RemoveLog
      <3>2. pruneFailed' = pruneFailed /\ Logged' = Logged
        <4>1. \/ /\ job[j].state = "queued"
                 /\ JobIs(j, "running", job[j].stamp, job[j].path)
              \/ JobIs(j, job[j].state, job[j].stamp, job[j].path)
          BY <2>3, JobFields DEF Claim
        <4>2. Logged' = Logged
          BY <1>1, <4>1 DEF Logged, JobIs
        <4>3. QED
          BY <2>3, <4>2 DEF Claim, RemoveLog
      <3>3. Prunes(w) => Prunes(w)'
        BY <1>1, <3>1, <3>2 DEF Prunes, ActorAt, ActorIs
      <3>4. QED
        BY <1>1, <2>1, <2>2, <3>2, <3>3, RetainedIf
    <2>4. ASSUME NEW j \in setup.jobs, ForgetLog(w, j)
          PROVE  Retained'
      <3>1. /\ j \in actor[w].doomed /\ actor[w].at = "forget"
            /\ actor'[w].at = "prune" /\ actor'[w].doomed = actor[w].doomed \ {j}
            /\ JobIs(j, job[j].state, job[j].stamp, FALSE) /\ pruneFailed' = pruneFailed
        BY <2>4, ActorFields, JobFields DEF ForgetLog, FirstDoomed, ActorIs
      <3>2. Logged' \subseteq Logged /\ j \notin Logged'
        BY <1>1, <3>1 DEF Logged, JobIs
      <3>3. Prunes(w) => Prunes(w)'
        <4>1. Logged' \ actor'[w].doomed \in SUBSET (Logged \ actor[w].doomed)
          BY <3>1, <3>2
        <4>2. Logged \ actor[w].doomed \in SUBSET setup.jobs
          BY DEF Logged
        <4>3. Cardinality(Logged \ actor[w].doomed) <= setup.retention =>
                 Cardinality(Logged' \ actor'[w].doomed) <= setup.retention
          BY <4>1, <4>2, Fewer
        <4>4. QED
          BY <1>1, <3>1, <4>3 DEF Prunes
      <3>4. QED
        BY <1>1, <2>1, <2>2, <3>1, <3>2, <3>3, RetainedIf
    <2>5. ASSUME ListLogs(w)
          PROVE  Retained'
      <3>1. /\ actor'[w].at = "prune" /\ actor'[w].doomed = Prunable /\ job' = job
        BY <2>5, ActorFields DEF ListLogs, ActorIs
      <3>2. Logged' = Logged
        BY <1>1, <3>1 DEF Logged
      <3>3. setup.retention # 0 => Prunes(w)'
        BY <1>1, <3>1, <3>2, Few DEF Prunes
      <3>4. QED
        BY <1>1, <3>3 DEF Retained
    <2>6. ASSUME Create(w) \/ CreateFails(w) \/ Release(w)
          PROVE  Retained'
      <3>1. /\ actor[w].at = "note" \/ (actor[w].at = "prune" /\ actor[w].doomed = {})
            /\ pruneFailed' = pruneFailed
        BY <2>6 DEF Create, CreateFails, Release
      <3>2. Logged' = Logged
        <4>1. CASE Create(w)
          <5>1. Holds(w)
            BY <4>1 DEF Create, Holds, Holding
          <5>2. actor[w].job \in setup.jobs
            BY <5>1 DEF Mine
          <5>3. JobIs(actor[w].job, job[actor[w].job].state, job[actor[w].job].stamp,
                      job[actor[w].job].path)
            BY <4>1, <5>2, JobFields
          <5>4. QED
            BY <1>1, <5>2, <5>3 DEF Logged, JobIs
        <4>2. CASE CreateFails(w) \/ Release(w)
          BY <1>1, <4>2 DEF CreateFails, Release, Logged
        <4>3. QED
          BY <2>6, <4>1, <4>2
      <3>3. Prunes(w) => Cardinality(Logged') <= setup.retention
        <4>1. Logged \ {} = Logged
          OBVIOUS
        <4>2. QED
          BY <3>1, <3>2, <4>1 DEF Prunes
      <3>4. QED
        BY <1>1, <2>1, <2>2, <3>1, <3>2, <3>3, RetainedIf
    <2>7. ASSUME Note(w)
          PROVE  Retained'
      <3>1. Holds(w) /\ actor[w].at = "note" /\ pruneFailed' = pruneFailed
        BY <2>7 DEF Note, Holds, Holding
      <3>2. actor[w].job \in setup.jobs /\ job[actor[w].job].state = "running"
        BY <3>1 DEF Mine
      <3>3. JobIs(actor[w].job, job[actor[w].job].state, job[actor[w].job].stamp, TRUE)
        BY <2>7, <3>2, JobFields
      <3>4. Logged' = Logged
        BY <1>1, <3>2, <3>3 DEF Logged, JobIs
      <3>5. ~Prunes(w)
        BY <3>1 DEF Prunes
      <3>6. QED
        BY <1>1, <2>1, <2>2, <3>1, <3>4, <3>5, RetainedIf
    <2>8. ASSUME EndRun(w) \/ WorkerReports(w) \/ WorkerEnds(w) \/ ClaimFails(w) \/ VerdictFails(w)
          PROVE  Retained'
      <3>1. /\ actor[w].at \in {"run", "send", "idle", "verdict"}
            /\ job' = job /\ pruneFailed' = pruneFailed
        BY <2>8 DEF EndRun, WorkerReports, WorkerEnds, ClaimFails, VerdictFails
      <3>2. Logged' = Logged /\ ~Prunes(w)
        BY <1>1, <3>1 DEF Logged, Prunes
      <3>3. QED
        BY <1>1, <2>1, <2>2, <3>1, <3>2, RetainedIf
    <2>9. ASSUME Verdict(w) \/ AppendTerminal(w) \/ AppendFails(w)
          PROVE  Retained'
      <3>1. actor'[w].at \in {"append", "list"}
        BY <2>9, ActorFields DEF ActorIs, ActorAt
      <3>2. QED
        BY <1>1, <3>1, RetainedAt
    <2>10. CASE PruneFails(w)
      BY <2>10 DEF PruneFails, Retained
    <2>11. QED
      BY <1>6, <2>3, <2>4, <2>5, <2>6, <2>7, <2>8, <2>9, <2>10 DEF Moves
  <1>7. StartupMoves => Moves(Startup)
    BY DEF StartupMoves, Moves
  <1>8. Return \/ Killed => Down
    BY DEF Return, Killed
  <1>9. QED
    BY <1>1, <1>2, <1>3, <1>4, <1>5, <1>6, <1>7, <1>8, Kinds DEF Actors

-----------------------------------------------------------------------------
\* LogsInv holds at first, ...
LEMMA LogsInit == Init => LogsInv
  <1> SUFFICES ASSUME Init
               PROVE  LogsInv
    OBVIOUS
  <1>1. setup \in Setups /\ Startup \notin setup.workers
    BY Sizes DEF Init
  <1>2. Types
    <2>1. \A j \in setup.jobs :
            [state |-> "queued", stamp |-> 0, path |-> FALSE, file |-> FALSE] \in JobRow
      BY DEF JobRow
    <2>2. actor \in [Actors -> ActorCall] /\ job \in [setup.jobs -> JobRow]
      BY <2>1, OffIs DEF Init
    <2>3. QED
      BY <2>2 DEF Init, Types
  <1>3. \A w \in Actors : actor[w] = Off
    BY DEF Init
  <1>4. \A w \in Actors : actor[w].at = "off" /\ actor[w].doomed = {}
    BY <1>3, OffIs
  <1>5. Said = {}
    BY <1>4 DEF Said, Actors
  <1>6. Cardinality(Said) = 0
    BY <1>5, FS_EmptySet
  <1>7. Accounts
    BY <1>6 DEF Init, Accounts, One
  <1>8. Loop
    BY <1>4, <1>7 DEF Init, Loop, Actors
  <1>9. Mine
    <2>1. \A w \in Actors : ~Holds(w)
      BY <1>4 DEF Holds, Holding
    <2>2. \A j \in setup.jobs : ~job[j].path
      BY DEF Init
    <2>3. QED
      BY <2>1, <2>2 DEF Mine
  <1>10. Doomed /\ Retained
    BY <1>4 DEF Doomed, Retained, Init
  <1>11. QED
    BY <1>2, <1>8, <1>9, <1>10 DEF LogsInv

\* The inductive invariant of serve and its logs: every error is accounted for,
\* every worker has a job of its own, every log on a list stays overdue, and where
\* there is one log too many somebody is pruning.
THEOREM LogsKept == Spec => []LogsInv
  <1>1. LogsInv /\ [Next]_vars => LogsInv'
    BY TypesKept, LoopKept, MineKept, DoomedKept, RetainedKept DEF LogsInv
  <1>2. QED
    BY <1>1, LogsInit, PTL DEF Spec

\* The channel of Serve: of its goroutines one more than its places can fail, and
\* one of them has been heard, or ServeRPC cannot fail any more.
THEOREM ErrorsFit == Spec => []ChannelSuffices
  <1>1. LogsInv => ChannelSuffices
    <2>1. SUFFICES ASSUME LogsInv, taken \/ rpc \notin {"send", "sent"},
                          \/ "send" \in {rpc, dashboard, recovery}
                          \/ \E w \in setup.workers : actor[w].at = "send"
                   PROVE  channel < Capacity
      BY DEF ChannelSuffices
    <2>2. /\ Cardinality(Said) \in Nat /\ Cardinality(setup.workers) \in Nat
          /\ IsFiniteSet(setup.workers) /\ Said \in SUBSET setup.workers /\ channel \in Nat
      BY <2>1, Sizes DEF LogsInv, Types, Said
    <2>3. Cardinality(Said) <= Cardinality(setup.workers)
      BY <2>2, FS_Subset
    <2>4. /\ One(taken) \in {0, 1} /\ One(rpc = "sent") \in {0, 1}
          /\ One(dashboard = "sent") \in {0, 1} /\ One(recovery = "sent") \in {0, 1}
          /\ One(taken) = 1 \/ One(rpc = "sent") = 0
      BY <2>1 DEF One
    <2>5. channel + One(taken) = Cardinality(Said) + One(rpc = "sent")
                                 + One(dashboard = "sent") + One(recovery = "sent")
      BY <2>1 DEF LogsInv, Loop, Accounts
    <2>6. CASE "send" \in {rpc, dashboard, recovery}
      <3>1. \/ One(rpc = "sent") = 0 /\ One(taken) = 1
            \/ One(dashboard = "sent") = 0 \/ One(recovery = "sent") = 0
        BY <2>1, <2>6 DEF One
      <3>2. QED
        BY <2>2, <2>3, <2>4, <2>5, <3>1 DEF Capacity
    <2>7. ASSUME NEW w \in setup.workers, actor[w].at = "send"
          PROVE  channel < Capacity
      <3>1. w \notin Said
        BY <2>7 DEF Said
      <3>2. Cardinality(Said) # Cardinality(setup.workers)
        BY <2>2, <3>1, FS_Subset
      <3>3. QED
        BY <2>2, <2>3, <2>4, <2>5, <3>2 DEF Capacity
    <2>8. QED
      BY <2>1, <2>6, <2>7
  <1>2. QED
    BY <1>1, LogsKept, PTL

\* log_retention holds whenever nobody has a job, whatever crashed before.
THEOREM RetentionKept == Spec => []WithinRetention
  <1>1. LogsInv => WithinRetention
    <2>1. SUFFICES ASSUME LogsInv, main = "up", setup.retention # 0, ~pruneFailed,
                          \A w \in setup.workers : actor[w].at = "idle"
                   PROVE  Cardinality(Logged) <= setup.retention
      BY DEF WithinRetention
    <2>2. \A w \in Actors : ~Prunes(w)
      BY <2>1 DEF LogsInv, Loop, Prunes, Actors
    <2>3. QED
      BY <2>1, <2>2 DEF LogsInv, Retained
  <1>2. QED
    BY <1>1, LogsKept, PTL

\* No pruning removes a log that is among the newest log_retention.
THEOREM NewestLogsKept == Spec => NewestKept
  <1> DEFINE A == \A j \in setup.jobs :
                    (job[j].file /\ ~job'[j].file) \/ (job[j].path /\ ~job'[j].path)
                    => /\ job[j].state = "over" /\ setup.retention # 0
                       /\ Cardinality({k \in Logged : Newer(k, j)}) >= setup.retention
  <1>1. LogsInv /\ [Next]_vars => [A]_vars
    BY NewestStep DEF LogsInv, Overdue, Newers
  <1>2. QED
    BY <1>1, LogsKept, PTL DEF Spec, NewestKept
=============================================================================
