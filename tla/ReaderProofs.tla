---------------------------- MODULE ReaderProofs ----------------------------
(***************************************************************************)
(* What a client of ReadLog gets, for every text a job may write, every    *)
(* size of window and buffer, and whoever writes, finishes, prunes and     *)
(* crashes meanwhile.                                                      *)
(***************************************************************************)
EXTENDS LogsProofs, Minimum

USE DEF loopVars, fileVars, readVars, vars

-----------------------------------------------------------------------------
(* The log that is followed. *)

\* It was created, and never will be again.
Made ==
    /\ setup.followed \in setup.jobs
    /\ job[setup.followed].state # "queued"
    /\ \A w \in Actors : Holds(w) /\ Followed(w) => actor[w].at \in {"note", "run", "verdict"}

\* It has what the job wrote so far, until the job ends.
Written ==
    \A w \in Actors : actor[w].at \in {"note", "run"} /\ Followed(w) =>
        /\ Len(log) <= Len(setup.text)
        /\ \A i \in 1 .. Len(log) : log[i] = setup.text[i]

\* The terminal line is for a job that is over.
Closed ==
    \A w \in Actors : actor[w].at = "append" =>
        actor[w].job \in setup.jobs /\ job[actor[w].job].state = "over"

FileInv ==
    /\ log \in Seq(Bytes)
    /\ setup.followed # NoJob => Written
    /\ Closed

\* What was in the log stays in it.
Grows ==
    /\ Len(log) <= Len(log')
    /\ \A i \in 1 .. Len(log) : log'[i] = log[i]

LEMMA SetupIs ==
    ASSUME setup \in Setups
    PROVE  /\ setup.followed \in setup.jobs \cup {NoJob}
           /\ setup.text \in Seq(Bytes) /\ Terminal \in Seq(Bytes)
           /\ NoJob \notin setup.jobs
  BY LogAssumption DEF SetupType

\* The steps that change the log.
LEMMA LogSteps ==
    ASSUME [Next]_vars
    PROVE  \/ log' = log
           \/ \E w \in setup.workers : Create(w) \/ Write(w) \/ AppendTerminal(w)
  <1>1. ASSUME NEW w \in setup.workers, WorkerStep(w)
        PROVE  log' = log \/ Create(w) \/ Write(w) \/ AppendTerminal(w)
    BY <1>1 DEF WorkerStep, Claim, RemoveLog, ForgetLog, ListLogs, Note, EndRun, Verdict, Release,
                WorkerReports, WorkerEnds
  <1>2. CASE Start \/ Serve \/ LoopStep
    BY <1>2 DEF Start, Serve, LoopStep, TakeError, Return, RpcReports, RpcEnds, DashboardReports,
                RecoveryReports
  <1>3. CASE ReaderStep
    BY <1>3 DEF ReaderStep, ReadRow, OpenLog, ReadLine, Answer
  <1>4. CASE Failure
    BY <1>4 DEF Failure, Stop, Killed, RpcFails, DashboardFails, RecoveryFails, ReadFails,
                ClaimFails, CreateFails, VerdictFails, AppendFails, PruneFails
  <1>5. CASE ListLogs(Startup) \/ \E j \in setup.jobs : RemoveLog(Startup, j) \/ ForgetLog(Startup, j)
    BY <1>5 DEF ListLogs, RemoveLog, ForgetLog
  <1>6. CASE UNCHANGED vars
    BY <1>6
  <1>7. QED
    BY <1>1, <1>2, <1>3, <1>4, <1>5, <1>6 DEF Next

\* What each does to the log.
LEMMA LogIs ==
    ASSUME Types, FileInv, NEW w \in setup.workers
    PROVE  /\ Write(w) => /\ Followed(w) /\ log' \in Seq(Bytes) /\ Len(log) < Len(log')
                          /\ Len(log') <= Len(setup.text)
                          /\ \A i \in 1 .. Len(log') : log'[i] = setup.text[i]
           /\ AppendTerminal(w) => log' \in Seq(Bytes) /\ Grows
           /\ Create(w) => log' \in Seq(Bytes)
  <1>1. /\ setup.text \in Seq(Bytes) /\ Terminal \in Seq(Bytes) /\ log \in Seq(Bytes)
        /\ Len(log) \in Nat /\ Len(setup.text) \in Nat
    BY SetupIs DEF Types, FileInv
  <1>2. ASSUME Write(w)
        PROVE  /\ Followed(w) /\ log' \in Seq(Bytes) /\ Len(log) < Len(log')
               /\ Len(log') <= Len(setup.text)
               /\ \A i \in 1 .. Len(log') : log'[i] = setup.text[i]
    <2>1. PICK n \in Len(log) + 1 .. Len(setup.text) : log' = SubSeq(setup.text, 1, n)
      BY <1>2 DEF Write
    <2>2. QED
      BY <1>1, <1>2, <2>1 DEF Write
  <1>3. ASSUME AppendTerminal(w)
        PROVE  log' \in Seq(Bytes) /\ Grows
    BY <1>1, <1>3 DEF AppendTerminal, Grows
  <1>4. ASSUME Create(w)
        PROVE  log' \in Seq(Bytes)
    BY <1>1, <1>4 DEF Create
  <1>5. QED
    BY <1>2, <1>3, <1>4

-----------------------------------------------------------------------------
\* A step of w that leaves the log alone keeps what is known of it, if w gets the
\* log of no job that has one, writes to none it did not create, and ends only a
\* job that is over.
LEMMA FileStep ==
    ASSUME Types, FileInv, setup' = setup, log' = log, NEW w \in Actors,
           \A v \in Actors : v # w => actor'[v] = actor[v],
           \A j \in setup.jobs : /\ job'[j].state = "queued" => job[j].state = "queued"
                                 /\ job[j].state = "over" => job'[j].state = "over",
           actor'[w].at \in {"note", "run"} =>
                actor[w].at \in {"note", "run"} /\ actor'[w].job = actor[w].job,
           actor'[w].at = "append" =>
                actor'[w].job \in setup.jobs /\ job'[actor'[w].job].state = "over",
           Holding(actor'[w].at, actor'[w].errand) =>
                \/ actor'[w].at \in {"note", "run", "verdict"}
                \/ Holds(w) /\ actor'[w].job = actor[w].job
                   /\ actor[w].at \notin {"note", "run", "verdict"}
                \/ actor'[w].job \in setup.jobs /\ job[actor'[w].job].state = "queued"
    PROVE  FileInv' /\ (Made => Made' /\ Grows)
  <1>1. Actors' = Actors /\ log \in Seq(Bytes)
    BY DEF Actors, FileInv
  <1>2. \A v \in Actors : Holds(v)' <=> Holding(actor'[v].at, actor'[v].errand)
    BY DEF Holds, Holding
  <1>3. setup.followed # NoJob => Written'
    <2>1. SUFFICES ASSUME setup.followed # NoJob, NEW v \in Actors,
                          actor'[v].at \in {"note", "run"}, actor'[v].job = setup.followed
                   PROVE  /\ Len(log) <= Len(setup.text)
                          /\ \A i \in 1 .. Len(log) : log[i] = setup.text[i]
      BY <1>1 DEF Written, Followed
    <2>2. actor[v].at \in {"note", "run"} /\ actor[v].job = setup.followed
      BY <2>1
    <2>3. QED
      BY <2>1, <2>2 DEF FileInv, Written, Followed
  <1>4. Closed'
    <2>1. SUFFICES ASSUME NEW v \in Actors, actor'[v].at = "append"
                   PROVE  actor'[v].job \in setup.jobs /\ job'[actor'[v].job].state = "over"
      BY <1>1 DEF Closed
    <2>2. QED
      BY <2>1 DEF FileInv, Closed
  <1>5. ASSUME Made
        PROVE  Made'
    <2>1. SUFFICES ASSUME NEW v \in Actors, Holding(actor'[v].at, actor'[v].errand),
                          actor'[v].job = setup.followed
                   PROVE  actor'[v].at \in {"note", "run", "verdict"}
      BY <1>1, <1>2, <1>5 DEF Made, Followed
    <2>2. CASE v = w
      BY <1>5, <2>1, <2>2 DEF Made, Followed
    <2>3. CASE v # w
      BY <1>5, <2>1, <2>3 DEF Made, Followed, Holds
    <2>4. QED
      BY <2>2, <2>3
  <1>6. Grows
    BY <1>1 DEF Grows
  <1>7. QED
    BY <1>1, <1>3, <1>4, <1>5, <1>6 DEF FileInv

\* The same of a step after which nobody has a job.
LEMMA FileNobody ==
    ASSUME Types, FileInv, setup' = setup, log' = log,
           \A w \in Actors : actor'[w].at \in {"off", "idle"} \/ (actor'[w].at = "list"
                                                                  /\ actor'[w].errand = "serve"),
           \A j \in setup.jobs : job'[j].state = "queued" => job[j].state = "queued"
    PROVE  FileInv' /\ (Made => Made' /\ Grows)
  <1>1. Actors' = Actors /\ log \in Seq(Bytes)
    BY DEF Actors, FileInv
  <1>2. \A w \in Actors : ~Holds(w)' /\ actor'[w].at \notin {"note", "run", "append"}
    BY DEF Holds, Holding
  <1>3. Written' /\ Closed' /\ (Made => Made')
    BY <1>1, <1>2 DEF Written, Closed, Made
  <1>4. Grows
    BY <1>1 DEF Grows
  <1>5. QED
    BY <1>1, <1>3, <1>4 DEF FileInv

\* The steps of w one by one.
LEMMA FileMoves ==
    ASSUME Types, Loop, Mine, FileInv, log' = log, NEW w \in Actors, Moves(w), ~Down,
           ~Create(w), ~AppendTerminal(w)
    PROVE  FileInv' /\ (Made => Made' /\ Grows)
  <1>1. setup' = setup /\ \A v \in Actors : v # w => actor'[v] = actor[v]
    BY MoveOf
  <1>2. ASSUME NEW j \in setup.jobs, Claim(w, j)
        PROVE  FileInv' /\ (Made => Made' /\ Grows)
    <2>1. /\ job[j].state = "queued" /\ JobIs(j, "running", job[j].stamp, job[j].path)
          /\ ActorIs(w, "list", j, {}, "create", FALSE)
      BY <1>2, JobFields, ActorFields DEF Claim
    <2>2. \A k \in setup.jobs : /\ job'[k].state = "queued" => job[k].state = "queued"
                                /\ job[k].state = "over" => job'[k].state = "over"
      BY <2>1 DEF JobIs
    <2>3. actor'[w].at = "list" /\ actor'[w].job = j
      BY <2>1 DEF ActorIs
    <2>4. QED
      BY <1>1, <2>1, <2>2, <2>3, FileStep
  <1>3. ASSUME NEW j \in setup.jobs, RemoveLog(w, j) \/ ForgetLog(w, j)
        PROVE  FileInv' /\ (Made => Made' /\ Grows)
    <2>1. /\ actor[w].at \in {"prune", "forget"}
          /\ \/ JobIs(j, job[j].state, job[j].stamp, job[j].path)
             \/ JobIs(j, job[j].state, job[j].stamp, FALSE)
      BY <1>3, JobFields DEF RemoveLog, ForgetLog
    <2>2. /\ actor'[w].at \in {"prune", "forget"} /\ actor'[w].job = actor[w].job
          /\ actor'[w].errand = actor[w].errand
      BY <1>3, ActorFields DEF ActorIs, ActorAt, Types, ActorCall
    <2>3. \A k \in setup.jobs : job'[k].state = job[k].state
      BY <2>1 DEF JobIs
    <2>4. Holding(actor'[w].at, actor'[w].errand) => Holds(w)
      BY <2>1, <2>2 DEF Holds, Holding
    <2>5. QED
      BY <1>1, <2>1, <2>2, <2>3, <2>4, FileStep
  <1>4. ASSUME ListLogs(w)
        PROVE  FileInv' /\ (Made => Made' /\ Grows)
    <2>1. /\ actor'[w].at = "prune" /\ actor'[w].job = actor[w].job
          /\ actor'[w].errand = actor[w].errand /\ actor[w].at = "list" /\ job' = job
      BY <1>4, ActorFields DEF ActorIs, ListLogs
    <2>2. Holding(actor'[w].at, actor'[w].errand) => Holds(w)
      BY <2>1 DEF Holds, Holding
    <2>3. QED
      BY <1>1, <2>1, <2>2, FileStep
  <1>5. ASSUME Note(w)
        PROVE  FileInv' /\ (Made => Made' /\ Grows)
    <2>1. Holds(w) /\ actor[w].at = "note"
      BY <1>5 DEF Note, Holds, Holding
    <2>2. actor[w].job \in setup.jobs
      BY <2>1 DEF Mine
    <2>3. /\ actor'[w].at = "run" /\ actor'[w].job = actor[w].job
          /\ JobIs(actor[w].job, job[actor[w].job].state, job[actor[w].job].stamp, TRUE)
      BY <1>5, <2>2, ActorFields, JobFields DEF ActorIs, ActorAt
    <2>4. \A k \in setup.jobs : job'[k].state = job[k].state
      BY <2>3 DEF JobIs
    <2>5. QED
      BY <1>1, <2>1, <2>3, <2>4, FileStep
  <1>6. ASSUME Verdict(w)
        PROVE  FileInv' /\ (Made => Made' /\ Grows)
    <2>1. Holds(w)
      BY <1>6 DEF Verdict, Holds, Holding
    <2>2. actor[w].job \in setup.jobs
      BY <2>1 DEF Mine
    <2>3. /\ actor'[w].at = "append" /\ actor'[w].job = actor[w].job
          /\ JobIs(actor[w].job, "over", now', actor[w].logged)
      BY <1>6, <2>2, ActorFields, JobFields DEF ActorIs, ActorAt
    <2>4. \A k \in setup.jobs : /\ job'[k].state = "queued" => job[k].state = "queued"
                                /\ job[k].state = "over" => job'[k].state = "over"
      BY <2>3 DEF JobIs
    <2>5. job'[actor'[w].job].state = "over" /\ ~Holding(actor'[w].at, actor'[w].errand)
      BY <2>3 DEF JobIs, Holding
    <2>6. QED
      BY <1>1, <2>2, <2>3, <2>4, <2>5, FileStep
  <1>7. ASSUME EndRun(w) \/ CreateFails(w) \/ (PruneFails(w) /\ ActorAt(w, "verdict"))
        PROVE  FileInv' /\ (Made => Made' /\ Grows)
    <2>1. job' = job
      BY <1>7 DEF EndRun, CreateFails, PruneFails
    <2>2. actor'[w].at = "verdict"
      BY <1>7, ActorFields DEF ActorIs, ActorAt
    <2>3. QED
      BY <1>1, <2>1, <2>2, FileStep
  <1>8. ASSUME \/ AppendFails(w) \/ Release(w) \/ WorkerReports(w) \/ WorkerEnds(w)
               \/ ClaimFails(w) \/ VerdictFails(w)
               \/ /\ PruneFails(w)
                  /\ ActorIs(w, "prune", actor[w].job, {}, "release", actor[w].logged)
        PROVE  FileInv' /\ (Made => Made' /\ Grows)
    <2>1. job' = job
      BY <1>8 DEF AppendFails, Release, WorkerReports, WorkerEnds, ClaimFails, VerdictFails,
                  PruneFails
    <2>2. \/ actor'[w].at \in {"idle", "send", "sent", "off"}
          \/ actor'[w].at \in {"list", "prune"} /\ actor'[w].errand = "release"
      BY <1>8, ActorFields DEF ActorIs, ActorAt
    <2>3. /\ actor'[w].at \notin {"note", "run", "append"}
          /\ ~Holding(actor'[w].at, actor'[w].errand)
      BY <2>2 DEF Holding
    <2>4. QED
      BY <1>1, <2>1, <2>3, FileStep
  <1>9. PruneFails(w) => \/ ActorAt(w, "verdict")
                         \/ ActorIs(w, "prune", actor[w].job, {}, "release", actor[w].logged)
    BY ActorFields
  <1>10. QED
    BY <1>2, <1>3, <1>4, <1>5, <1>6, <1>7, <1>8, <1>9 DEF Moves

\* A log that was made only grows, and what is known of it stays.
LEMMA FileKept ==
    ASSUME LogsInv, FileInv, [Next]_vars
    PROVE  FileInv' /\ (Made => Made' /\ Grows)
  <1> USE DEF LogsInv
  <1>1. /\ setup' = setup /\ Actors' = Actors /\ log \in Seq(Bytes) /\ Len(log) \in Nat
        /\ NoJob \notin setup.jobs
    BY SameSetup, SetupIs DEF Actors, FileInv, Types
  <1>2. ASSUME NEW w \in setup.workers, Create(w)
        PROVE  FileInv' /\ (Made => Made' /\ Grows)
    <2>1. w \in Actors /\ Holds(w) /\ actor[w].at = "prune"
      BY <1>2 DEF Create, Actors, Holds, Holding
    <2>2. /\ actor[w].job \in setup.jobs
          /\ \A v \in Actors : Holds(v) /\ actor[v].job = actor[w].job => v = w
      BY <2>1 DEF Mine
    <2>3. /\ actor'[w].at = "note" /\ actor'[w].job = actor[w].job
          /\ \A v \in Actors : v # w => actor'[v] = actor[v]
          /\ JobIs(actor[w].job, job[actor[w].job].state, job[actor[w].job].stamp,
                   job[actor[w].job].path)
      BY <1>2, <2>1, <2>2, ActorFields, JobFields DEF ActorIs
    <2>4. \A k \in setup.jobs : job'[k].state = job[k].state
      BY <2>3 DEF JobIs
    <2>5. log' = (IF Followed(w) THEN << >> ELSE log) /\ log' \in Seq(Bytes)
      BY <1>2, LogIs DEF Create
    <2>6. ASSUME setup.followed # NoJob
          PROVE  Written'
      <3>1. CASE Followed(w)
        <4>1. log' = << >>
          BY <2>5, <3>1
        <4>2. Len(setup.text) \in Nat /\ Len(<< >>) = 0
          BY SetupIs DEF Types
        <4>3. QED
          BY <1>1, <4>1, <4>2 DEF Written
      <3>2. CASE ~Followed(w)
        BY <1>1, <2>3, <2>5, <2>6, <3>2 DEF Written, FileInv, Followed
      <3>3. QED
        BY <3>1, <3>2
    <2>7. Closed'
      <3>1. SUFFICES ASSUME NEW v \in Actors, actor'[v].at = "append"
                     PROVE  actor'[v].job \in setup.jobs /\ job'[actor'[v].job].state = "over"
        BY <1>1 DEF Closed
      <3>2. QED
        BY <2>3, <2>4, <3>1 DEF FileInv, Closed
    <2>8. ASSUME Made
          PROVE  Made' /\ Grows
      <3>1. ~Followed(w)
        BY <2>1, <2>8 DEF Made
      <3>2. \A v \in Actors : v # w => (Holds(v)' <=> Holds(v)) /\ (Followed(v)' <=> Followed(v))
        BY <1>1, <2>3 DEF Holds, Holding, Followed
      <3>3. ~Followed(w)'
        BY <1>1, <2>3, <3>1 DEF Followed
      <3>4. Made'
        BY <1>1, <2>3, <2>4, <2>8, <3>2, <3>3 DEF Made
      <3>5. QED
        BY <1>1, <2>5, <3>1, <3>4 DEF Grows
    <2>9. QED
      BY <1>1, <2>5, <2>6, <2>7, <2>8 DEF FileInv
  <1>3. ASSUME NEW w \in setup.workers, Write(w)
        PROVE  FileInv' /\ (Made => Made' /\ Grows)
    <2>1. UNCHANGED <<actor, job>> /\ actor[w].at = "run" /\ w \in Actors
      BY <1>3 DEF Write, Actors
    <2>2. /\ Followed(w) /\ log' \in Seq(Bytes) /\ Len(log) < Len(log')
          /\ Len(log') <= Len(setup.text)
          /\ \A i \in 1 .. Len(log') : log'[i] = setup.text[i]
      BY <1>3, LogIs DEF FileInv
    <2>3. Holds(w)
      BY <2>1 DEF Holds, Holding
    <2>4. setup.followed # NoJob
      BY <1>1, <2>1, <2>2, <2>3 DEF Mine, Followed
    <2>5. /\ Len(log) <= Len(setup.text)
          /\ \A i \in 1 .. Len(log) : log[i] = setup.text[i]
      BY <2>1, <2>2, <2>4 DEF FileInv, Written
    <2>6. Grows
      <3>1. Len(log') \in Nat
        BY <2>2
      <3>2. \A i \in 1 .. Len(log) : i \in 1 .. Len(log')
        BY <1>1, <2>2, <3>1
      <3>3. QED
        BY <1>1, <2>2, <2>5, <3>2 DEF Grows
    <2>7. Written' /\ Closed' /\ (Made => Made')
      BY <1>1, <2>1, <2>2 DEF Written, Closed, Made, Holds, Holding, Followed, FileInv
    <2>8. QED
      BY <1>1, <2>2, <2>6, <2>7 DEF FileInv
  <1>4. ASSUME NEW w \in setup.workers, AppendTerminal(w)
        PROVE  FileInv' /\ (Made => Made' /\ Grows)
    <2>1. job' = job /\ actor[w].at = "append" /\ w \in Actors
      BY <1>4 DEF AppendTerminal, Actors
    <2>2. /\ actor'[w].at = "list" /\ actor'[w].errand = "release"
          /\ \A v \in Actors : v # w => actor'[v] = actor[v]
      BY <1>4, <2>1, ActorFields DEF ActorIs
    <2>3. log' \in Seq(Bytes) /\ Grows
      BY <1>4, LogIs DEF FileInv
    <2>4. actor[w].job \in setup.jobs /\ job[actor[w].job].state = "over"
      BY <2>1 DEF FileInv, Closed
    <2>5. ASSUME setup.followed # NoJob
          PROVE  Written'
      <3>1. SUFFICES ASSUME NEW v \in Actors, actor'[v].at \in {"note", "run"},
                            actor'[v].job = setup.followed
                     PROVE  /\ Len(log') <= Len(setup.text)
                            /\ \A i \in 1 .. Len(log') : log'[i] = setup.text[i]
        BY <1>1 DEF Written, Followed
      <3>2. v # w /\ actor[v].at \in {"note", "run"} /\ actor[v].job = setup.followed
        BY <2>2, <3>1
      <3>3. job[actor[v].job].state = "running"
        BY <3>2 DEF Mine, Holds, Holding
      <3>4. log' = log
        BY <1>4, <2>4, <3>2, <3>3 DEF AppendTerminal, Followed
      <3>5. QED
        BY <2>5, <3>2, <3>4 DEF FileInv, Written, Followed
    <2>6. Closed'
      <3>1. SUFFICES ASSUME NEW v \in Actors, actor'[v].at = "append"
                     PROVE  actor'[v].job \in setup.jobs /\ job'[actor'[v].job].state = "over"
        BY <1>1 DEF Closed
      <3>2. QED
        BY <2>1, <2>2, <3>1 DEF FileInv, Closed
    <2>7. ASSUME Made
          PROVE  Made'
      <3>1. ~Holds(w)'
        BY <2>2 DEF Holds, Holding
      <3>2. \A v \in Actors : v # w => (Holds(v)' <=> Holds(v)) /\ (Followed(v)' <=> Followed(v))
        BY <1>1, <2>2 DEF Holds, Holding, Followed
      <3>3. QED
        BY <1>1, <2>1, <2>2, <2>7, <3>1, <3>2 DEF Made
    <2>8. QED
      BY <1>1, <2>3, <2>5, <2>6, <2>7 DEF FileInv
  <1>5. ASSUME log' = log, ~\E w \in setup.workers : Create(w) \/ AppendTerminal(w)
        PROVE  FileInv' /\ (Made => Made' /\ Grows)
    <2>1. ASSUME Down, UNCHANGED job
          PROVE  FileInv' /\ (Made => Made' /\ Grows)
      BY <1>1, <1>5, <2>1, DownIs, OffIs, FileNobody
    <2>2. CASE Start
      <3>1. /\ main = "down"
            /\ actor' = [actor EXCEPT ![Startup] = [Off EXCEPT !.at = "list", !.errand = "serve"]]
        BY <2>2 DEF Start
      <3>2. \A w \in Actors : actor'[w].at = "off" \/ (actor'[w].at = "list"
                                                       /\ actor'[w].errand = "serve")
        BY <3>1 DEF Types, Actors, Off, Loop
      <3>3. PICK stamp : job' = [j \in setup.jobs |->
                           IF j \in Running THEN [job[j] EXCEPT !.state = "over", !.stamp = stamp]
                           ELSE job[j]]
        BY <2>2 DEF Start
      <3>4. \A j \in setup.jobs : job'[j].state = "queued" => job[j].state = "queued"
        BY <3>3 DEF Types, JobRow
      <3>5. QED
        BY <1>1, <1>5, <3>2, <3>4, FileNobody
    <2>3. CASE Serve
      <3>1. /\ job' = job
            /\ actor' = [w \in Actors |-> IF w = Startup THEN Off ELSE [Off EXCEPT !.at = "idle"]]
        BY <2>3 DEF Serve
      <3>2. \A w \in Actors : actor'[w].at \in {"off", "idle"}
        BY <3>1 DEF Off
      <3>3. QED
        BY <1>1, <1>5, <3>1, <3>2, FileNobody
    <2>4. CASE LoopOnly
      <3>1. UNCHANGED <<setup, actor, job>>
        BY <2>4 DEF LoopOnly, Stop, TakeError, RpcFails, RpcReports, RpcEnds, DashboardFails,
                    DashboardReports, RecoveryFails, RecoveryReports
      <3>2. Grows
        BY <1>1, <1>5 DEF Grows
      <3>3. QED
        BY <1>5, <3>1, <3>2 DEF FileInv, Written, Closed, Made, Holds, Holding, Followed, Actors
    <2>5. ASSUME NEW w \in Actors, Moves(w), ~Create(w), ~AppendTerminal(w)
          PROVE  FileInv' /\ (Made => Made' /\ Grows)
      <3>1. CASE Down
        <4>1. job' = job
          BY <2>5, <3>1, OnlyPruning DEF PruneFails
        <4>2. QED
          BY <2>1, <3>1, <4>1
      <3>2. QED
        BY <1>5, <2>5, <3>1, FileMoves
    <2>6. ASSUME StartupMoves
          PROVE  Startup \in Actors /\ Moves(Startup) /\ ~Create(Startup) /\ ~AppendTerminal(Startup)
      <3>1. Startup \in Actors /\ Moves(Startup)
        BY <2>6 DEF Actors, StartupMoves, Moves
      <3>2. actor[Startup].at # "off"
        BY <3>1, MoveOf
      <3>3. QED
        BY <3>1, <3>2 DEF Loop, Create, AppendTerminal
    <2>7. Return \/ Killed => Down /\ UNCHANGED job
      BY DEF Return, Killed
    <2>8. QED
      BY <1>5, <2>1, <2>2, <2>3, <2>4, <2>5, <2>6, <2>7, Kinds DEF Actors
  <1>6. QED
    BY <1>2, <1>3, <1>4, <1>5, LogSteps

-----------------------------------------------------------------------------
(* What a call of ReadLog finds. *)

ReaderCall == [at : {"idle", "open", "read", "done"}, terminal : BOOLEAN, size : Nat, pos : Nat,
               skipping : BOOLEAN, lines : Seq(Nat \X Nat)]

\* No byte of (from, to] ends a line.
NoEnd(from, to) == \A i \in from + 1 .. to : log[i] # Newline

\* readLogLine goes to the first newline, or to a place before it.
LEMMA LineFound ==
    ASSUME log \in Seq(Bytes), NEW pos \in Nat, pos <= Len(log), NEW remaining \in Int
    PROVE  LET here == NextLine(pos, remaining)
               to == pos + here.consumed
           IN /\ here.consumed \in Int /\ to \in Int
              /\ here.consumed > 0 => to \in Nat /\ pos < to /\ to <= Len(log)
              /\ here.met = "line" =>
                    here.consumed > 0 /\ log[to] = Newline /\ NoEnd(pos, to - 1)
              /\ here.met # "line" => NoEnd(pos, to)
  <1> DEFINE ends == {i \in pos + 1 .. Len(log) : log[i] = Newline}
             first == CHOOSE i \in ends : \A k \in ends : i <= k
             body == IF ends # {} THEN first - 1 - pos ELSE Len(log) - pos
             most == Buffer * ((remaining + Buffer - 1) \div Buffer)
             here == IF most <= body THEN [consumed |-> most, met |-> "full"]
                     ELSE IF ends # {} THEN [consumed |-> body + 1, met |-> "line"]
                     ELSE [consumed |-> body, met |-> "eof"]
             to == pos + here.consumed
  <1>1. here = NextLine(pos, remaining)
    BY DEF NextLine
  <1>2. Len(log) \in Nat /\ ends \subseteq Nat
    OBVIOUS
  <1>3. most \in Int
    <2>1. Buffer \in Nat \ {0}
      BY LogAssumption
    <2>2. (remaining + Buffer - 1) \div Buffer \in Int
      BY <2>1
    <2>3. QED
      BY <2>1, <2>2
  <1>4. CASE ends = {}
    <2>1. body = Len(log) - pos /\ NoEnd(pos, Len(log))
      BY <1>4 DEF NoEnd
    <2>2. (here = [consumed |-> most, met |-> "full"] /\ most <= body)
          \/ here = [consumed |-> body, met |-> "eof"]
      BY <1>4
    <2>3. here.met # "line" /\ here.consumed \in Int /\ here.consumed <= body
      <3> HIDE DEF here, body, most
      <3>1. QED
        BY <1>2, <1>3, <2>1, <2>2
    <2> HIDE DEF here, body
    <2>4. to \in Int /\ to <= Len(log) /\ (here.consumed > 0 => to \in Nat /\ pos < to)
      BY <1>2, <2>1, <2>3
    <2>5. NoEnd(pos, to)
      BY <1>2, <2>1, <2>4 DEF NoEnd
    <2>6. QED
      BY <1>1, <2>3, <2>4, <2>5
  <1>5. CASE ends # {}
    <2>1. first \in ends /\ \A k \in ends : first <= k
      BY <1>2, <1>5, Least
    <2> HIDE DEF first
    <2>2. first \in pos + 1 .. Len(log) /\ log[first] = Newline /\ body = first - 1 - pos
      BY <1>5, <2>1
    <2>3. NoEnd(pos, first - 1)
      <3>1. SUFFICES ASSUME NEW i \in pos + 1 .. first - 1, log[i] = Newline
                     PROVE  FALSE
        BY DEF NoEnd
      <3>2. i \in ends
        BY <1>2, <2>2, <3>1
      <3>3. QED
        BY <1>2, <2>1, <2>2, <3>1, <3>2
    <2>4. CASE most <= body
      <3>1. here.consumed = most /\ here.met # "line"
        BY <2>4
      <3> HIDE DEF here, most, body
      <3>2. here.consumed \in Int /\ to \in Int /\ to <= first - 1 /\ (here.consumed > 0 => to \in Nat /\ pos < to)
        BY <1>2, <1>3, <2>2, <2>4, <3>1
      <3>3. NoEnd(pos, to)
        BY <1>2, <2>2, <2>3, <3>2 DEF NoEnd
      <3>4. to <= Len(log)
        BY <1>2, <2>2, <3>2
      <3>5. QED
        BY <1>1, <3>1, <3>2, <3>3, <3>4
    <2>5. CASE ~(most <= body)
      <3>1. here.consumed = body + 1 /\ here.met = "line"
        BY <1>5, <2>5
      <3> HIDE DEF here, most, body
      <3>2. to = first /\ here.consumed \in Int /\ here.consumed > 0
        BY <1>2, <2>2, <3>1
      <3>3. to \in Nat /\ pos < to /\ to <= Len(log)
        BY <1>2, <2>2, <3>2
      <3>4. QED
        BY <1>1, <2>2, <2>3, <3>1, <3>2, <3>3
    <2>6. QED
      BY <2>4, <2>5
  <1>6. QED
    BY <1>4, <1>5

-----------------------------------------------------------------------------
(* What holds of a call of ReadLog. *)

\* A client that was given a log, or is being given one, has one that was made.
Started == reader.at # "idle" \/ cursor > 0 => Made

\* It is given nothing from beyond the end.
Span ==
    /\ cursor <= Len(log)
    /\ reader.at \in {"read", "done"} => cursor <= reader.pos /\ reader.pos <= Len(log)
    /\ reader.at \in {"idle", "open"} => reader.lines = << >> /\ reader.pos = 0

\* Between two lines a call is where a line begins, unless its cursor is not, and
\* what it has are complete lines.
Ready == reader.at = "read" =>
    /\ reader.skipping => reader.pos = cursor /\ cursor > 0 /\ log[cursor] # Newline
    /\ ~reader.skipping => Begins(reader.pos)
    /\ \A n \in 1 .. Len(reader.lines) : log[reader.lines[n][2]] = Newline

ReaderInv ==
    /\ reader \in ReaderCall /\ cursor \in Nat
    /\ Started /\ Span /\ Ready
    /\ WholeLinesOnce /\ WindowLinesArrive

\* A step that leaves the call alone.
LEMMA ReaderStays ==
    ASSUME ReaderInv, UNCHANGED <<reader, cursor>>, log \in Seq(Bytes), log' \in Seq(Bytes),
           Made => Made' /\ Grows
    PROVE  ReaderInv'
  <1>1. Len(log) \in Nat /\ Len(log') \in Nat /\ reader.lines \in Seq(Nat \X Nat)
        /\ reader.pos \in Nat /\ cursor \in Nat
    BY DEF ReaderInv, ReaderCall
  <1>2. CASE reader.at = "idle" /\ ~(cursor > 0)
    <2>1. cursor = 0 /\ reader.pos = 0 /\ reader.lines = << >> /\ Len(reader.lines) = 0
      BY <1>1, <1>2 DEF ReaderInv, Span
    <2>2. Started' /\ Span' /\ Ready'
      BY <1>1, <1>2, <2>1 DEF Started, Span, Ready
    <2>3. WholeLinesOnce'
      BY <2>1 DEF WholeLinesOnce
    <2>4. WindowLinesArrive'
      <3>1. \A s \in cursor .. reader.pos : s + 1 .. reader.pos = {}
        BY <2>1
      <3>2. QED
        BY <3>1 DEF WindowLinesArrive
    <2>5. QED
      BY <2>2, <2>3, <2>4 DEF ReaderInv
  <1>3. CASE reader.at # "idle" \/ cursor > 0
    <2>1. Made /\ Made' /\ Grows
      BY <1>3 DEF ReaderInv, Started
    <2>2. Started'
      BY <2>1 DEF Started
    <2>3. Span' /\ reader.pos <= Len(log)
      BY <1>1, <2>1 DEF ReaderInv, Span, Grows, ReaderCall
    <2>4. \A i \in 1 .. Len(log) : log'[i] = log[i]
      BY <2>1 DEF Grows
    <2>5. /\ \A s \in Nat : s <= Len(log) => (Begins(s)' <=> Begins(s))
          /\ \A s, e \in Nat : e <= Len(log) => (Inside(s, e)' <=> Inside(s, e))
      <3>1. ASSUME NEW s \in Nat, s <= Len(log)
            PROVE  Begins(s)' <=> Begins(s)
        <4>1. s = 0 \/ s \in 1 .. Len(log)
          BY <1>1, <3>1
        <4>2. s = 0 \/ log'[s] = log[s]
          BY <2>4, <4>1
        <4>3. QED
          BY <4>2 DEF Begins
      <3>2. ASSUME NEW s \in Nat, NEW e \in Nat, e <= Len(log)
            PROVE  Inside(s, e)' <=> Inside(s, e)
        <4>1. \A i \in s + 1 .. e - 1 : i \in 1 .. Len(log)
          BY <1>1, <3>2
        <4>2. \A i \in s + 1 .. e - 1 : log'[i] = log[i]
          BY <2>4, <4>1
        <4>3. QED
          BY <4>2 DEF Inside
      <3>3. QED
        BY <3>1, <3>2
    <2>6. \A n \in 1 .. Len(reader.lines) :
             LET s == reader.lines[n][1]  e == reader.lines[n][2]
             IN s \in Nat /\ e \in Nat /\ s < e /\ e <= reader.pos
      BY <1>1 DEF ReaderInv, WholeLinesOnce
    <2>7. \A n \in 1 .. Len(reader.lines) :
             LET s == reader.lines[n][1]  e == reader.lines[n][2]
             IN s \in Nat /\ s <= Len(log) /\ e \in Nat /\ e <= Len(log) /\ e \in 1 .. Len(log)
      BY <1>1, <2>3, <2>6
    <2>8. Ready'
      <3>1. cursor \in 0 .. Len(log)
        BY <1>1 DEF ReaderInv, Span
      <3>2. cursor > 0 => log'[cursor] = log[cursor]
        BY <1>1, <2>4, <3>1
      <3>3. \A n \in 1 .. Len(reader.lines) :
                log'[reader.lines[n][2]] = log[reader.lines[n][2]]
        BY <2>4, <2>7
      <3>4. QED
        BY <1>1, <2>3, <2>5, <3>2, <3>3 DEF ReaderInv, Ready
    <2>9. WholeLinesOnce'
      <3>1. SUFFICES ASSUME NEW n \in 1 .. Len(reader.lines)
                     PROVE  LET s == reader.lines[n][1]  e == reader.lines[n][2]
                            IN /\ s < e /\ e <= reader.pos
                               /\ s >= IF n = 1 THEN cursor ELSE reader.lines[n - 1][2]
                               /\ Begins(s)' /\ Inside(s, e)'
                               /\ log'[e] = Newline \/ (reader.terminal /\ n = Len(reader.lines)
                                                        /\ e = reader.size)
        BY DEF WholeLinesOnce
      <3>2. QED
        BY <2>4, <2>5, <2>7 DEF ReaderInv, WholeLinesOnce
    <2>10. WindowLinesArrive'
      <3>1. SUFFICES ASSUME NEW s \in cursor .. reader.pos, NEW e \in s + 1 .. reader.pos,
                            Begins(s)', Inside(s, e)', log'[e] = Newline, e - cursor <= Window
                     PROVE  \E n \in 1 .. Len(reader.lines) : reader.lines[n] = <<s, e>>
        BY DEF WindowLinesArrive
      <3>2. s \in Nat /\ e \in Nat /\ s <= Len(log) /\ e <= Len(log) /\ e \in 1 .. Len(log)
        BY <1>1, <2>3
      <3>3. Begins(s) /\ Inside(s, e) /\ log[e] = Newline
        BY <2>4, <2>5, <3>1, <3>2
      <3>4. QED
        BY <3>1, <3>3 DEF ReaderInv, WindowLinesArrive
    <2>11. QED
      BY <2>2, <2>3, <2>8, <2>9, <2>10 DEF ReaderInv
  <1>4. QED
    BY <1>2, <1>3

-----------------------------------------------------------------------------
\* A step makes a call with these fields.
ReaderIs(at, terminal, size, pos, skipping, lines) ==
    /\ reader' \in ReaderCall
    /\ reader'.at = at /\ (reader'.terminal <=> terminal) /\ reader'.size = size
    /\ reader'.pos = pos /\ (reader'.skipping <=> skipping) /\ reader'.lines = lines

LEMMA QuietIs ==
    ASSUME reader' = Quiet
    PROVE  ReaderIs("idle", FALSE, 0, 0, FALSE, << >>)
  <1>1. << >> \in Seq(Nat \X Nat)
    OBVIOUS
  <1>2. QED
    BY <1>1 DEF ReaderIs, Quiet, ReaderCall

\* What the row and the file make of the call.
LEMMA RowFields ==
    ASSUME ReadRow
    PROVE  \E terminal \in BOOLEAN : ReaderIs("open", terminal, 0, 0, FALSE, << >>)
  <1>1. << >> \in Seq(Nat \X Nat)
    OBVIOUS
  <1>2. PICK terminal \in BOOLEAN : reader' = [Quiet EXCEPT !.at = "open", !.terminal = terminal]
    BY DEF ReadRow
  <1>3. ReaderIs("open", terminal, 0, 0, FALSE, << >>)
    BY <1>1, <1>2 DEF ReaderIs, Quiet, ReaderCall
  <1>4. QED
    BY <1>3

LEMMA FileFields ==
    ASSUME reader \in ReaderCall, cursor \in Nat, log \in Seq(Bytes), OpenLog, reader' # Quiet
    PROVE  ReaderIs("read", reader.terminal, Len(log), cursor,
                    cursor > 0 /\ log[cursor] # Newline, reader.lines)
  <1>1. PICK skipping \in BOOLEAN :
           /\ skipping <=> cursor > 0 /\ log[cursor] # Newline
           /\ reader' = [reader EXCEPT !.at = "read", !.size = Len(log), !.pos = cursor,
                                       !.skipping = skipping]
    BY DEF OpenLog
  <1>2. ReaderIs("read", reader.terminal, Len(log), cursor, skipping, reader.lines)
    <2>1. Len(log) \in Nat
      OBVIOUS
    <2>2. QED
      BY <1>1, <2>1 DEF ReaderIs, ReaderCall
  <1>3. QED
    BY <1>1, <1>2 DEF ReaderIs

\* What going on, and being done, make of it.
LEMMA LineFields ==
    ASSUME reader \in ReaderCall, reader.at = "read",
           NEW to \in Nat, NEW lines \in Seq(Nat \X Nat)
    PROVE  /\ Done(to, lines) =>
                 ReaderIs("done", reader.terminal, reader.size, to, reader.skipping, lines)
           /\ Continue(to, lines) =>
                 ReaderIs("read", reader.terminal, reader.size, to, FALSE, lines)
  <1> DEFINE done == [reader EXCEPT !.at = "done", !.pos = to, !.lines = lines]
             next == [reader EXCEPT !.pos = to, !.lines = lines, !.skipping = FALSE]
  <1>1. /\ done \in ReaderCall /\ done.at = "done" /\ done.terminal = reader.terminal
        /\ done.size = reader.size /\ done.pos = to /\ done.skipping = reader.skipping
        /\ done.lines = lines
    BY DEF ReaderCall
  <1>2. /\ next \in ReaderCall /\ next.at = reader.at /\ next.terminal = reader.terminal
        /\ next.size = reader.size /\ next.pos = to /\ next.skipping = FALSE
        /\ next.lines = lines
    BY DEF ReaderCall
  <1> HIDE DEF done, next
  <1>3. Done(to, lines) => reader' = done
    BY DEF Done, done
  <1>4. Continue(to, lines) => reader' = next
    BY DEF Continue, next
  <1>5. QED
    BY <1>1, <1>2, <1>3, <1>4 DEF ReaderIs

\* What ReadLine does: it passes the rest of a line, a line that is too long or what
\* there is of one, returns a line, or what there is of the last one, or stops.
LEMMA LineCases ==
    ASSUME ReadLine, Here.met = "line" => Here.consumed > 0
    PROVE  \/ Here.met = "line" /\ reader.skipping /\ Continue(After, reader.lines)
           \/ /\ Here.met # "line" \/ (~reader.skipping /\ ~Fits)
              /\ Here.consumed > 0 /\ Done(After, reader.lines)
           \/ Here.met = "line" /\ ~reader.skipping /\ Continue(After, Deliver)
           \/ /\ Here.met # "line" /\ Here.consumed > 0 /\ ~reader.skipping /\ AtEnd
              /\ Done(After, Deliver)
           \/ Done(reader.pos, reader.lines)
  <1>1. CASE SkipRest
    BY <1>1 DEF SkipRest
  <1>2. CASE WholeLine
    BY <1>2 DEF WholeLine
  <1>3. CASE PartOfLine
    <2>1. CASE AtEnd /\ Fits
      BY <1>3, <2>1 DEF PartOfLine, Kept
    <2>2. CASE ~(AtEnd /\ Fits)
      BY <1>3, <2>2 DEF PartOfLine
    <2>3. QED
      BY <2>1, <2>2
  <1>4. CASE Here.consumed = 0 /\ Done(reader.pos, reader.lines)
    BY <1>4
  <1>5. QED
    BY <1>1, <1>2, <1>3, <1>4 DEF ReadLine

-----------------------------------------------------------------------------
\* A call that goes on to a later place, with the lines it has.
LEMMA LinesStay ==
    ASSUME ReaderInv, UNCHANGED <<cursor, log>>, NEW to \in Nat, reader.pos <= to,
           reader'.pos = to, reader'.lines = reader.lines, reader'.size = reader.size,
           reader'.terminal <=> reader.terminal
    PROVE  WholeLinesOnce'
  <1>1. reader.lines \in Seq(Nat \X Nat) /\ reader.pos \in Nat
    BY DEF ReaderInv, ReaderCall
  <1>2. SUFFICES ASSUME NEW n \in 1 .. Len(reader.lines)
                 PROVE  LET s == reader.lines[n][1]  e == reader.lines[n][2]
                        IN /\ s < e /\ e <= to
                           /\ s >= IF n = 1 THEN cursor ELSE reader.lines[n - 1][2]
                           /\ Begins(s) /\ Inside(s, e)
                           /\ log[e] = Newline \/ (reader.terminal /\ n = Len(reader.lines)
                                                   /\ e = reader.size)
    BY DEF WholeLinesOnce, Begins, Inside
  <1>3. reader.lines[n][2] \in Nat
    BY <1>1
  <1>4. reader.lines[n][2] <= reader.pos
    BY DEF ReaderInv, WholeLinesOnce
  <1>5. reader.lines[n][2] <= to
    BY <1>1, <1>3, <1>4
  <1>6. QED
    BY <1>5 DEF ReaderInv, WholeLinesOnce

\* What a step has to show of the lines it leaves.
LEMMA WholeLinesNext ==
    ASSUME UNCHANGED <<cursor, log>>,
           \A n \in 1 .. Len(reader'.lines) :
                LET s == reader'.lines[n][1]  e == reader'.lines[n][2]
                IN /\ s < e /\ e <= reader'.pos
                   /\ s >= IF n = 1 THEN cursor ELSE reader'.lines[n - 1][2]
                   /\ Begins(s) /\ Inside(s, e)
                   /\ \/ log[e] = Newline
                      \/ reader'.terminal /\ n = Len(reader'.lines) /\ e = reader'.size
    PROVE  WholeLinesOnce'
  BY DEF WholeLinesOnce, Begins, Inside

\* The same with one line more.
LEMMA LineAdded ==
    ASSUME ReaderInv, UNCHANGED <<cursor, log>>, NEW to \in Nat, reader.pos < to,
           reader.at = "read", ~reader.skipping, NoEnd(reader.pos, to - 1),
           log[to] = Newline \/ (reader.terminal /\ to = reader.size),
           reader'.pos = to, reader'.lines = Append(reader.lines, <<reader.pos, to>>),
           reader'.size = reader.size, reader'.terminal <=> reader.terminal
    PROVE  WholeLinesOnce'
  <1> DEFINE lines == Append(reader.lines, <<reader.pos, to>>)
             last == Len(reader.lines) + 1
  <1>1. reader.lines \in Seq(Nat \X Nat) /\ reader.pos \in Nat /\ Len(reader.lines) \in Nat
        /\ cursor \in Nat /\ cursor <= reader.pos
    BY DEF ReaderInv, ReaderCall, Span
  <1>2. /\ Len(lines) = last /\ lines[last] = <<reader.pos, to>>
        /\ \A n \in 1 .. Len(reader.lines) : lines[n] = reader.lines[n]
    BY <1>1
  <1> HIDE DEF lines
  <1>3. ASSUME NEW n \in 1 .. Len(reader.lines)
        PROVE  LET s == reader.lines[n][1]  e == reader.lines[n][2]
               IN /\ s < e /\ e <= reader.pos /\ e <= to
                  /\ s >= IF n = 1 THEN cursor ELSE reader.lines[n - 1][2]
                  /\ Begins(s) /\ Inside(s, e) /\ log[e] = Newline
    <2> DEFINE end == reader.lines[n][2]
    <2>1. end \in Nat /\ end <= reader.pos
      <3>1. reader.lines[n] \in Nat \X Nat
        BY <1>1
      <3>2. end <= reader.pos
        BY DEF ReaderInv, WholeLinesOnce
      <3>3. QED
        BY <3>1, <3>2
    <2>2. end <= to
      <3> HIDE DEF end
      <3>1. QED
        BY <1>1, <2>1
    <2>3. log[reader.lines[n][2]] = Newline
      BY DEF ReaderInv, Ready
    <2>4. QED
      BY <2>1, <2>2, <2>3 DEF ReaderInv, WholeLinesOnce
  <1>4. Begins(reader.pos) /\ Inside(reader.pos, to)
    BY DEF ReaderInv, Ready, NoEnd, Inside
  <1>5. reader.pos >= IF last = 1 THEN cursor ELSE lines[last - 1][2]
    <2>1. CASE last = 1
      BY <1>1, <2>1
    <2>2. CASE last # 1
      <3>1. last - 1 \in 1 .. Len(reader.lines) /\ last - 1 = Len(reader.lines)
        BY <1>1, <2>2
      <3>2. lines[last - 1] = reader.lines[Len(reader.lines)]
        BY <1>2, <3>1
      <3>3. reader.lines[Len(reader.lines)][2] <= reader.pos
        BY <1>3, <3>1
      <3>4. reader.lines[Len(reader.lines)][2] \in Nat
        BY <1>1, <3>1
      <3>5. QED
        BY <1>1, <2>2, <3>2, <3>3, <3>4
    <2>3. QED
      BY <2>1, <2>2
  <1> DEFINE Whole(n) ==
               LET s == lines[n][1]  e == lines[n][2]
               IN /\ s < e /\ e <= to
                  /\ s >= IF n = 1 THEN cursor ELSE lines[n - 1][2]
                  /\ Begins(s) /\ Inside(s, e)
                  /\ log[e] = Newline \/ (reader.terminal /\ n = last /\ e = reader.size)
  <1>6. ASSUME NEW n \in 1 .. last, n = last
        PROVE  Whole(n)
    <2>1. lines[n][1] = reader.pos /\ lines[n][2] = to /\ to <= to
      BY <1>2, <1>6
    <2>2. QED
      BY <1>4, <1>5, <1>6, <2>1
  <1>7. ASSUME NEW n \in 1 .. last, n # last
        PROVE  Whole(n)
    <2>1. n \in 1 .. Len(reader.lines)
      BY <1>1, <1>7
    <2> HIDE DEF last
    <2>2. lines[n] = reader.lines[n]
      BY <1>2, <2>1
    <2>3. n # 1 => n - 1 \in 1 .. Len(reader.lines)
      BY <1>1, <2>1
    <2>4. n # 1 => lines[n - 1] = reader.lines[n - 1]
      BY <1>2, <2>3
    <2>5. QED
      BY <1>3, <1>7, <2>1, <2>2, <2>4
  <1>8. reader'.lines = lines /\ Len(lines) = last
    BY <1>2 DEF lines
  <1>9. ASSUME NEW n \in 1 .. Len(reader'.lines)
        PROVE  LET s == reader'.lines[n][1]  e == reader'.lines[n][2]
               IN /\ s < e /\ e <= reader'.pos
                  /\ s >= IF n = 1 THEN cursor ELSE reader'.lines[n - 1][2]
                  /\ Begins(s) /\ Inside(s, e)
                  /\ \/ log[e] = Newline
                     \/ reader'.terminal /\ n = Len(reader'.lines) /\ e = reader'.size
    <2> HIDE DEF last
    <2>1. n \in 1 .. last /\ Len(reader'.lines) = last
      BY <1>8
    <2>2. Whole(n)
      BY <1>6, <1>7, <2>1
    <2>3. QED
      BY <1>8, <2>1, <2>2
  <1>10. QED
    BY <1>9, WholeLinesNext

\* What a step has to show of the lines it passes.
LEMMA WindowNext ==
    ASSUME UNCHANGED <<cursor, log>>, NEW to, reader'.pos = to,
           \A s \in cursor .. to : \A e \in s + 1 .. to :
                Begins(s) /\ Inside(s, e) /\ log[e] = Newline /\ e - cursor <= Window
                => \E n \in 1 .. Len(reader'.lines) : reader'.lines[n] = <<s, e>>
    PROVE  WindowLinesArrive'
  BY DEF WindowLinesArrive, Begins, Inside

\* A line within the window is returned, if it ends beyond where the call was only
\* when it is returned now.
LEMMA WindowStep ==
    ASSUME ReaderInv, UNCHANGED <<cursor, log>>, NEW to \in Nat, reader.pos <= to,
           reader'.pos = to,
           \A n \in 1 .. Len(reader.lines) :
                n \in 1 .. Len(reader'.lines) /\ reader'.lines[n] = reader.lines[n],
           \A s \in Nat, e \in reader.pos + 1 .. to :
                /\ cursor <= s /\ s < e /\ Begins(s) /\ Inside(s, e) /\ log[e] = Newline
                /\ e - cursor <= Window
                => \E n \in 1 .. Len(reader'.lines) : reader'.lines[n] = <<s, e>>
    PROVE  WindowLinesArrive'
  <1>1. reader.pos \in Nat /\ cursor \in Nat
    BY DEF ReaderInv, ReaderCall
  <1>2. SUFFICES ASSUME NEW s \in cursor .. to, NEW e \in s + 1 .. to,
                        Begins(s), Inside(s, e), log[e] = Newline, e - cursor <= Window
                 PROVE  \E n \in 1 .. Len(reader'.lines) : reader'.lines[n] = <<s, e>>
    BY WindowNext
  <1>3. CASE e <= reader.pos
    <2>1. s \in cursor .. reader.pos /\ e \in s + 1 .. reader.pos
      BY <1>1, <1>3
    <2>2. PICK n \in 1 .. Len(reader.lines) : reader.lines[n] = <<s, e>>
      BY <1>2, <2>1 DEF ReaderInv, WindowLinesArrive
    <2>3. QED
      BY <2>2
  <1>4. CASE ~(e <= reader.pos)
    <2>1. s \in Nat /\ e \in reader.pos + 1 .. to /\ cursor <= s /\ s < e
      BY <1>1, <1>4
    <2>2. QED
      BY <1>2, <2>1
  <1>5. QED
    BY <1>3, <1>4

\* What the call of readLogLine found, for a call that reads.
LEMMA HereFound ==
    ASSUME ReaderInv, log \in Seq(Bytes), reader.at = "read"
    PROVE  /\ Here.met = "line" => Here.consumed > 0 /\ log[After] = Newline
                                   /\ NoEnd(reader.pos, After - 1)
           /\ Here.met # "line" => NoEnd(reader.pos, After)
           /\ Here.consumed > 0 => After \in Nat /\ reader.pos < After /\ After <= Len(log)
           /\ ~Fits /\ After \in Nat => After - cursor > Window
  <1>1. /\ reader.pos \in Nat /\ cursor \in Nat /\ reader.pos <= Len(log)
        /\ Window \in Nat
    BY LogAssumption DEF ReaderInv, ReaderCall, Span
  <1>2. Remaining \in Int
    BY <1>1 DEF Remaining
  <1>3. LET here == NextLine(reader.pos, Remaining)
            to == reader.pos + here.consumed
        IN /\ here.consumed \in Int
           /\ here.consumed > 0 => to \in Nat /\ reader.pos < to /\ to <= Len(log)
           /\ here.met = "line" =>
                 here.consumed > 0 /\ log[to] = Newline /\ NoEnd(reader.pos, to - 1)
           /\ here.met # "line" => NoEnd(reader.pos, to)
    BY <1>1, <1>2, LineFound
  <1>4. Here.consumed \in Int => (~Fits => After - cursor > Window)
    BY <1>1 DEF Fits, Remaining, After
  <1>5. QED
    BY <1>3, <1>4 DEF Here, After

\* A call that went on, or is done.
LEMMA CallGoes ==
    ASSUME ReaderInv, log \in Seq(Bytes), UNCHANGED <<setup, actor, job, log, cursor>>,
           reader.at = "read", reader' \in ReaderCall, reader'.at \in {"read", "done"},
           reader.pos <= reader'.pos, reader'.pos <= Len(log),
           WholeLinesOnce', WindowLinesArrive', Ready'
    PROVE  ReaderInv'
  <1>1. Made'
    BY DEF ReaderInv, Started, Made, Holds, Holding, Followed, Actors
  <1>2. Span'
    BY DEF ReaderInv, ReaderCall, Span
  <1>3. QED
    BY <1>1, <1>2 DEF ReaderInv, Started

\* A call goes by whole lines, and leaves out none that it has the room for.
LEMMA ReadKept ==
    ASSUME ReaderInv, log \in Seq(Bytes), ReadLine
    PROVE  ReaderInv'
  <1>1. UNCHANGED <<setup, actor, job, log, cursor>> /\ reader.at = "read"
    BY DEF ReadLine, Reading
  <1>2. /\ reader \in ReaderCall /\ reader.pos \in Nat /\ reader.lines \in Seq(Nat \X Nat)
        /\ cursor \in Nat /\ reader.pos <= Len(log) /\ Len(log) \in Nat
        /\ Len(reader.lines) \in Nat
    BY <1>1 DEF ReaderInv, ReaderCall, Span
  <1>3. /\ Here.met = "line" => Here.consumed > 0 /\ log[After] = Newline
                                /\ NoEnd(reader.pos, After - 1)
        /\ Here.met # "line" => NoEnd(reader.pos, After)
        /\ Here.consumed > 0 => After \in Nat /\ reader.pos < After /\ After <= Len(log)
        /\ ~Fits /\ After \in Nat => After - cursor > Window
    BY <1>1, HereFound
  <1>4. ASSUME Here.consumed > 0
        PROVE  /\ <<reader.pos, After>> \in Nat \X Nat /\ Deliver \in Seq(Nat \X Nat)
               /\ Deliver = Append(reader.lines, <<reader.pos, After>>)
               /\ reader.pos <= After
               /\ \A n \in 1 .. Len(reader.lines) :
                     n \in 1 .. Len(Deliver) /\ Deliver[n] = reader.lines[n]
    BY <1>2, <1>3, <1>4 DEF Deliver
  <1>5. CASE Here.met = "line" /\ reader.skipping /\ Continue(After, reader.lines)
    <2>1. ReaderIs("read", reader.terminal, reader.size, After, FALSE, reader.lines)
      BY <1>1, <1>2, <1>3, <1>5, LineFields
    <2>2. WholeLinesOnce'
      BY <1>1, <1>3, <1>4, <1>5, <2>1, LinesStay DEF ReaderIs
    <2>3. ASSUME NEW s \in Nat, NEW e \in reader.pos + 1 .. After, s < e, Begins(s),
                 Inside(s, e), log[e] = Newline, cursor <= s
          PROVE  FALSE
      <3>1. e = After
        BY <1>2, <1>3, <1>5, <2>3 DEF NoEnd
      <3>2. s = reader.pos \/ s \in reader.pos + 1 .. After - 1
        BY <1>1, <1>2, <1>3, <1>5, <2>3, <3>1 DEF ReaderInv, Ready
      <3>3. QED
        BY <1>1, <1>2, <1>3, <1>5, <2>3, <3>2 DEF ReaderInv, Ready, Begins, NoEnd
    <2>4. WindowLinesArrive'
      BY <1>1, <1>2, <1>3, <1>4, <1>5, <2>1, <2>3, WindowStep DEF ReaderIs
    <2>5. Ready'
      BY <1>1, <1>3, <1>5, <2>1 DEF ReaderIs, ReaderInv, Ready, Begins
    <2>6. QED
      BY <1>1, <1>3, <1>4, <1>5, <2>1, <2>2, <2>4, <2>5, CallGoes DEF ReaderIs
  <1>6. CASE /\ Here.met # "line" \/ (~reader.skipping /\ ~Fits)
             /\ Here.consumed > 0 /\ Done(After, reader.lines)
    <2>1. ReaderIs("done", reader.terminal, reader.size, After, reader.skipping, reader.lines)
      BY <1>1, <1>2, <1>3, <1>6, LineFields
    <2>2. WholeLinesOnce'
      BY <1>1, <1>3, <1>4, <1>6, <2>1, LinesStay DEF ReaderIs
    <2>3. ASSUME NEW e \in reader.pos + 1 .. After, log[e] = Newline, e - cursor <= Window
          PROVE  FALSE
      <3>1. CASE Here.met # "line"
        BY <1>3, <2>3, <3>1 DEF NoEnd
      <3>2. CASE Here.met = "line" /\ ~Fits
        <4>1. e = After
          BY <1>2, <1>3, <2>3, <3>2 DEF NoEnd
        <4>2. QED
          BY <1>2, <1>3, <1>6, <2>3, <3>2, <4>1, LogAssumption
      <3>3. QED
        BY <1>6, <3>1, <3>2
    <2>4. WindowLinesArrive'
      BY <1>1, <1>2, <1>3, <1>4, <1>6, <2>1, <2>3, WindowStep DEF ReaderIs
    <2>5. Ready'
      BY <2>1 DEF ReaderIs, Ready
    <2>6. QED
      BY <1>1, <1>3, <1>4, <1>6, <2>1, <2>2, <2>4, <2>5, CallGoes DEF ReaderIs
  <1>7. ASSUME NEW at \in {"read", "done"}, Here.consumed > 0, ~reader.skipping,
               reader' \in ReaderCall, reader'.at = at, reader'.terminal <=> reader.terminal,
               reader'.size = reader.size, reader'.pos = After, reader'.lines = Deliver,
               NoEnd(reader.pos, After - 1), at = "read" => ~reader'.skipping,
               log[After] = Newline \/ (reader.terminal /\ After = reader.size /\ at = "done")
        PROVE  ReaderInv'
    <2>1. WholeLinesOnce'
      BY <1>1, <1>3, <1>4, <1>7, LineAdded
    <2>2. /\ Len(Deliver) = Len(reader.lines) + 1 /\ Len(Deliver) \in 1 .. Len(Deliver)
          /\ Deliver[Len(Deliver)] = <<reader.pos, After>>
      <3>1. Len(Deliver) = Len(reader.lines) + 1
        BY <1>2, <1>4, <1>7
      <3>2. Deliver[Len(reader.lines) + 1] = <<reader.pos, After>>
        BY <1>2, <1>4, <1>7
      <3>3. QED
        BY <1>2, <3>1, <3>2
    <2>3. ASSUME NEW s \in Nat, NEW e \in reader.pos + 1 .. After, s < e, Begins(s),
                 Inside(s, e), log[e] = Newline
          PROVE  \E n \in 1 .. Len(Deliver) : Deliver[n] = <<s, e>>
      <3>1. e = After
        BY <1>2, <1>3, <1>7, <2>3 DEF NoEnd
      <3>2. Begins(reader.pos)
        BY <1>1, <1>7 DEF ReaderInv, Ready
      <3>3. ~(s \in reader.pos + 1 .. After - 1)
        BY <1>2, <1>7, <2>3 DEF Begins, NoEnd
      <3>4. ~(s < reader.pos)
        <4>1. s < reader.pos => reader.pos \in s + 1 .. e - 1 /\ reader.pos # 0
          BY <1>2, <1>3, <1>7, <2>3, <3>1
        <4>2. QED
          BY <2>3, <3>2, <4>1 DEF Begins, Inside
      <3>5. s = reader.pos
        BY <1>2, <1>3, <1>7, <2>3, <3>1, <3>3, <3>4
      <3>6. QED
        BY <2>2, <3>1, <3>5
    <2>4. WindowLinesArrive'
      <3>1. After \in Nat /\ reader.pos <= After
        BY <1>3, <1>4, <1>7
      <3>2. \A n \in 1 .. Len(reader.lines) :
               n \in 1 .. Len(reader'.lines) /\ reader'.lines[n] = reader.lines[n]
        BY <1>4, <1>7
      <3>3. \A s \in Nat, e \in reader.pos + 1 .. After :
               /\ cursor <= s /\ s < e /\ Begins(s) /\ Inside(s, e) /\ log[e] = Newline
               /\ e - cursor <= Window
               => \E n \in 1 .. Len(reader'.lines) : reader'.lines[n] = <<s, e>>
        BY <1>7, <2>3
      <3>4. QED
        BY <1>1, <1>7, <3>1, <3>2, <3>3, WindowStep
    <2>5. Ready'
      <3>1. SUFFICES ASSUME at = "read"
                     PROVE  \A n \in 1 .. Len(Deliver) : log[Deliver[n][2]] = Newline
        BY <1>1, <1>7 DEF Ready, Begins
      <3>2. ASSUME NEW n \in 1 .. Len(Deliver)
            PROVE  log[Deliver[n][2]] = Newline
        <4>1. CASE n = Len(Deliver)
          <5>1. Deliver[n][2] = After
            BY <2>2, <4>1
          <5>2. QED
            BY <1>7, <3>1, <5>1
        <4>2. CASE n # Len(Deliver)
          <5>1. n \in 1 .. Len(reader.lines)
            BY <1>2, <2>2, <4>2
          <5>2. log[reader.lines[n][2]] = Newline
            BY <1>1, <5>1 DEF ReaderInv, Ready
          <5>3. QED
            BY <1>4, <1>7, <5>1, <5>2
        <4>3. QED
          BY <4>1, <4>2
      <3>3. QED
        BY <3>2
    <2>6. QED
      BY <1>1, <1>3, <1>4, <1>7, <2>1, <2>4, <2>5, CallGoes
  <1>8. CASE Here.met = "line" /\ ~reader.skipping /\ Continue(After, Deliver)
    <2>1. ReaderIs("read", reader.terminal, reader.size, After, FALSE, Deliver)
      BY <1>1, <1>2, <1>3, <1>4, <1>8, LineFields
    <2>2. QED
      BY <1>3, <1>7, <1>8, <2>1 DEF ReaderIs
  <1>9. CASE /\ Here.met # "line" /\ Here.consumed > 0 /\ ~reader.skipping /\ AtEnd
             /\ Done(After, Deliver)
    <2>1. ReaderIs("done", reader.terminal, reader.size, After, reader.skipping, Deliver)
      BY <1>1, <1>2, <1>3, <1>4, <1>9, LineFields
    <2>2. NoEnd(reader.pos, After - 1)
      BY <1>2, <1>3, <1>9 DEF NoEnd
    <2>3. QED
      BY <1>7, <1>9, <2>1, <2>2 DEF ReaderIs, AtEnd
  <1>10. CASE Done(reader.pos, reader.lines)
    <2>1. ReaderIs("done", reader.terminal, reader.size, reader.pos, reader.skipping,
                   reader.lines)
      BY <1>1, <1>2, <1>10, LineFields
    <2>2. reader.pos <= reader.pos
      BY <1>2
    <2>3. WholeLinesOnce'
      BY <1>1, <1>2, <2>1, <2>2, LinesStay DEF ReaderIs
    <2>4. WindowLinesArrive' /\ Ready'
      <3>1. reader.pos + 1 .. reader.pos = {}
        BY <1>2
      <3>2. WindowLinesArrive'
        BY <1>1, <1>2, <2>1, <2>2, <3>1, WindowStep DEF ReaderIs
      <3>3. QED
        BY <2>1, <3>2 DEF ReaderIs, Ready
    <2>5. QED
      BY <1>1, <1>2, <2>1, <2>2, <2>3, <2>4, CallGoes DEF ReaderIs
  <1>11. QED
    BY <1>3, <1>5, <1>6, <1>8, <1>9, <1>10, LineCases

-----------------------------------------------------------------------------
\* The steps that change the call.
LEMMA ReaderSteps ==
    ASSUME [Next]_vars
    PROVE  UNCHANGED <<reader, cursor>> \/ ReaderStep \/ ReadFails
  <1>1. ASSUME NEW w \in setup.workers, WorkerStep(w)
        PROVE  UNCHANGED <<reader, cursor>>
    BY <1>1 DEF WorkerStep, Claim, RemoveLog, ForgetLog, ListLogs, Create, Note, Write, EndRun,
                Verdict, AppendTerminal, Release, WorkerReports, WorkerEnds
  <1>2. CASE Start \/ Serve \/ LoopStep
    BY <1>2 DEF Start, Serve, LoopStep, TakeError, Return, RpcReports, RpcEnds, DashboardReports,
                RecoveryReports
  <1>3. CASE Failure
    BY <1>3 DEF Failure, Stop, Killed, RpcFails, DashboardFails, RecoveryFails, ClaimFails,
                CreateFails, VerdictFails, AppendFails, PruneFails
  <1>4. CASE ListLogs(Startup) \/ \E j \in setup.jobs : RemoveLog(Startup, j) \/ ForgetLog(Startup, j)
    BY <1>4 DEF ListLogs, RemoveLog, ForgetLog
  <1>5. CASE UNCHANGED vars
    BY <1>5
  <1>6. QED
    BY <1>1, <1>2, <1>3, <1>4, <1>5 DEF Next

\* A log that a row names was made.
LEMMA NamedIsMade ==
    ASSUME Types, Mine, setup.followed # NoJob, job[setup.followed].path
    PROVE  Made
  <1>1. setup.followed \in setup.jobs
    BY SetupIs DEF Types
  <1>2. ASSUME NEW w \in Actors, Holds(w), Followed(w)
        PROVE  actor[w].at \in {"note", "run", "verdict"}
    BY <1>2 DEF Mine, PathIs, Followed
  <1>3. QED
    BY <1>1, <1>2 DEF Made, Mine

\* ReaderInv is inductive.
LEMMA ReaderStepKept ==
    ASSUME LogsInv, FileInv, FileInv', ReaderInv, Made => Made' /\ Grows, [Next]_vars
    PROVE  ReaderInv'
  <1>1. log \in Seq(Bytes) /\ log' \in Seq(Bytes) /\ reader \in ReaderCall /\ cursor \in Nat
    BY DEF FileInv, ReaderInv
  <1>2. Len(log) \in Nat /\ reader.pos \in Nat
    BY <1>1 DEF ReaderCall
  <1>3. ASSUME UNCHANGED <<setup, actor, job, log>>, cursor' \in Nat, reader' \in ReaderCall,
               reader'.at \in {"idle", "open"}, reader'.pos = 0, reader'.lines = << >>,
               cursor' <= Len(log), Made
        PROVE  ReaderInv'
    <2>1. Started'
      BY <1>3 DEF Started, Made, Holds, Holding, Followed, Actors
    <2>2. Len(reader'.lines) = 0 /\ \A s \in cursor' .. 0 : s + 1 .. 0 = {}
      BY <1>3
    <2>3. Span' /\ Ready'
      BY <1>3 DEF Span, Ready
    <2>4. WholeLinesOnce'
      BY <2>2 DEF WholeLinesOnce
    <2>5. WindowLinesArrive'
      BY <1>3, <2>2 DEF WindowLinesArrive
    <2>6. QED
      BY <1>3, <2>1, <2>3, <2>4, <2>5 DEF ReaderInv
  <1>4. CASE UNCHANGED <<reader, cursor>>
    BY <1>1, <1>4, ReaderStays
  <1>5. CASE ReadRow
    <2>1. Made
      BY <1>5, NamedIsMade DEF ReadRow, LogsInv
    <2>2. PICK terminal \in BOOLEAN : ReaderIs("open", terminal, 0, 0, FALSE, << >>)
      BY <1>5, RowFields
    <2>3. QED
      BY <1>1, <1>3, <1>5, <2>1, <2>2 DEF ReaderIs, ReadRow, ReaderInv, Span
  <1>6. CASE OpenLog /\ reader' # Quiet
    <2>1. /\ ReaderIs("read", reader.terminal, Len(log), cursor,
                      cursor > 0 /\ log[cursor] # Newline, reader.lines)
          /\ UNCHANGED <<setup, actor, job, log, cursor>> /\ reader.at = "open"
      BY <1>1, <1>6, FileFields DEF OpenLog
    <2>2. Made' /\ reader.lines = << >> /\ Len(reader.lines) = 0 /\ cursor <= Len(log)
      BY <2>1 DEF ReaderInv, Started, Span, Made, Holds, Holding, Followed, Actors
    <2>3. Started'
      BY <2>2 DEF Started
    <2>4. Span'
      BY <1>1, <2>1, <2>2 DEF ReaderIs, Span
    <2>5. cursor = 0 \/ cursor > 0
      BY <1>1
    <2>6. Ready'
      BY <1>1, <2>1, <2>2, <2>5 DEF ReaderIs, Ready, Begins
    <2>7. WholeLinesOnce'
      BY <2>1, <2>2 DEF ReaderIs, WholeLinesOnce
    <2>8. WindowLinesArrive'
      <3>1. \A s \in cursor .. cursor : s + 1 .. cursor = {}
        BY <1>1
      <3>2. QED
        BY <2>1, <3>1 DEF ReaderIs, WindowLinesArrive
    <2>9. QED
      BY <1>1, <2>1, <2>3, <2>4, <2>6, <2>7, <2>8 DEF ReaderIs, ReaderInv
  <1>7. CASE ReadLine
    BY <1>1, <1>7, ReadKept
  <1>8. CASE Answer \/ ReadFails \/ (OpenLog /\ reader' = Quiet)
    <2>1. /\ ReaderIs("idle", FALSE, 0, 0, FALSE, << >>)
          /\ UNCHANGED <<setup, actor, job, log>>
      BY <1>8, QuietIs DEF Answer, ReadFails, OpenLog
    <2>2. reader.at # "idle"
      BY <1>8 DEF Answer, ReadFails, OpenLog
    <2>3. cursor' = cursor \/ (cursor' = reader.pos /\ reader.at \in {"read", "done"})
      BY <1>8 DEF Answer, ReadFails, OpenLog
    <2>4. Made /\ cursor' \in Nat /\ cursor' <= Len(log)
      BY <1>1, <1>2, <2>2, <2>3 DEF ReaderInv, Started, Span
    <2>5. QED
      BY <1>3, <2>1, <2>4 DEF ReaderIs
  <1>9. QED
    BY <1>4, <1>5, <1>6, <1>7, <1>8, ReaderSteps DEF ReaderStep

LEMMA ReaderInit == Init => FileInv /\ ReaderInv
  <1> SUFFICES ASSUME Init
               PROVE  FileInv /\ ReaderInv
    OBVIOUS
  <1>1. log = << >> /\ Len(log) = 0 /\ log \in Seq(Bytes) /\ cursor = 0 /\ cursor \in Nat
    BY DEF Init
  <1>2. \A w \in Actors : actor[w].at = "off"
    BY OffIs DEF Init
  <1>3. FileInv
    BY <1>1, <1>2 DEF FileInv, Written, Closed
  <1>4. << >> \in Seq(Nat \X Nat)
    OBVIOUS
  <1>5. /\ reader \in ReaderCall /\ reader.at = "idle" /\ reader.pos = 0 /\ reader.lines = << >>
        /\ Len(reader.lines) = 0
    BY <1>4 DEF Init, Quiet, ReaderCall
  <1>6. Started /\ Span /\ Ready /\ WholeLinesOnce
    BY <1>1, <1>5 DEF Started, Span, Ready, WholeLinesOnce
  <1>7. WindowLinesArrive
    <2>1. \A s \in 0 .. 0 : s + 1 .. 0 = {}
      OBVIOUS
    <2>2. QED
      BY <1>1, <1>5, <2>1 DEF WindowLinesArrive
  <1>8. QED
    BY <1>1, <1>3, <1>5, <1>6, <1>7 DEF ReaderInv

\* The inductive invariant of ReadLog: the log that is followed only grows from its
\* creation on, and a call is always between two lines of it.
THEOREM ReaderKept == Spec => [](FileInv /\ ReaderInv)
  <1>1. LogsInv /\ FileInv /\ ReaderInv /\ [Next]_vars => (FileInv /\ ReaderInv)'
    BY FileKept, ReaderStepKept
  <1>2. QED
    BY <1>1, ReaderInit, LogsKept, PTL DEF Spec

\* Whatever is written, finished, pruned and killed meanwhile: what ReadLog returns
\* are whole lines, each once and in order, ...
THEOREM LinesWhole == Spec => []WholeLinesOnce
  <1>1. ReaderInv => WholeLinesOnce
    BY DEF ReaderInv
  <1>2. QED
    BY <1>1, ReaderKept, PTL

\* ... and it passes no complete line that it has the room for.
THEOREM LinesArrive == Spec => []WindowLinesArrive
  <1>1. ReaderInv => WindowLinesArrive
    BY DEF ReaderInv
  <1>2. QED
    BY <1>1, ReaderKept, PTL

-----------------------------------------------------------------------------
(* The rest of TypeOK. *)

Places ==
    /\ main \in MainPlaces /\ channel <= Capacity
    /\ rpc \in Goroutines /\ dashboard \in Goroutines /\ recovery \in Goroutines
    /\ pruneFailed \in BOOLEAN /\ events \in Nat

\* No step sends an error where there is no place.
LEMMA PlacesKept ==
    ASSUME Types, Places, [Next]_vars
    PROVE  Places'
  <1>1. /\ setup' = setup /\ Capacity \in Nat /\ Capacity' = Capacity /\ channel \in Nat
    BY SameSetup, Sizes DEF Types, Capacity
  <1>2. ASSUME NEW kind, Event(kind)
        PROVE  events' \in Nat
    BY <1>2 DEF Event, Places
  <1>3. ASSUME Down, pruneFailed' \in BOOLEAN, events' \in Nat
        PROVE  Places'
    BY <1>1, <1>3 DEF Places, Down, MainPlaces, Goroutines
  <1>4. ASSUME UNCHANGED loopVars, pruneFailed' \in BOOLEAN, events' \in Nat
        PROVE  Places'
    BY <1>1, <1>4 DEF Places
  <1>5. ASSUME UNCHANGED <<main, taken, pruneFailed, events>>, Report,
               rpc' \in Goroutines, dashboard' \in Goroutines, recovery' \in Goroutines
        PROVE  Places'
    BY <1>1, <1>5 DEF Places, Report
  <1>6. ASSUME UNCHANGED <<channel, pruneFailed>>, main' \in MainPlaces, rpc' \in Goroutines,
               dashboard' \in Goroutines, recovery' \in Goroutines, events' \in Nat
        PROVE  Places'
    BY <1>1, <1>6 DEF Places
  <1>7. ASSUME NEW w \in setup.workers, WorkerStep(w)
        PROVE  Places'
    <2>1. CASE WorkerReports(w)
      BY <1>5, <2>1 DEF WorkerReports, Places
    <2>2. CASE Release(w)
      <3>1. events' \in Nat /\ UNCHANGED <<loopVars, fileVars>>
        BY <1>2, <2>2 DEF Release, Places
      <3>2. QED
        BY <1>4, <3>1 DEF Places
    <2>3. CASE ~WorkerReports(w) /\ ~Release(w)
      <3>1. UNCHANGED <<loopVars, pruneFailed, events>>
        BY <1>7, <2>3 DEF WorkerStep, Claim, RemoveLog, ForgetLog, ListLogs, Create, Note, Write,
                          EndRun, Verdict, AppendTerminal, WorkerEnds
      <3>2. QED
        BY <1>4, <3>1 DEF Places
    <2>4. QED
      BY <2>1, <2>2, <2>3
  <1>8. CASE Start \/ Serve
    BY <1>6, <1>8 DEF Start, Serve, Places, MainPlaces, Goroutines
  <1>9. CASE LoopStep
    <2>1. CASE TakeError
      BY <1>1, <2>1 DEF TakeError, Places, MainPlaces
    <2>2. CASE Return
      BY <1>3, <2>2 DEF Return, Places
    <2>3. CASE RpcReports \/ DashboardReports \/ RecoveryReports
      BY <1>5, <2>3 DEF RpcReports, DashboardReports, RecoveryReports, Places, Goroutines
    <2>4. CASE RpcEnds
      BY <1>6, <2>4 DEF RpcEnds, Places, Goroutines
    <2>5. QED
      BY <1>9, <2>1, <2>2, <2>3, <2>4 DEF LoopStep
  <1>10. CASE ReaderStep
    <2>1. UNCHANGED <<loopVars, pruneFailed, events>>
      BY <1>10 DEF ReaderStep, ReadRow, OpenLog, ReadLine, Answer
    <2>2. QED
      BY <1>4, <2>1 DEF Places
  <1>11. CASE Failure
    <2>1. CASE Killed
      BY <1>2, <1>3, <2>1 DEF Killed, Places
    <2>2. CASE Stop \/ RpcFails \/ DashboardFails \/ RecoveryFails
      <3>1. events' \in Nat
        BY <1>2, <2>2 DEF Stop, RpcFails, DashboardFails, RecoveryFails
      <3>2. QED
        BY <1>6, <2>2, <3>1 DEF Stop, RpcFails, DashboardFails, RecoveryFails, Places,
                                MainPlaces, Goroutines
    <2>3. ASSUME NEW w \in Actors, PruneFails(w)
          PROVE  Places'
      <3>1. events' \in Nat /\ pruneFailed' \in BOOLEAN /\ (Down \/ UNCHANGED loopVars)
        BY <1>2, <2>3 DEF PruneFails
      <3>2. QED
        BY <1>3, <1>4, <3>1
    <2>4. ASSUME NEW w \in setup.workers,
                 ClaimFails(w) \/ CreateFails(w) \/ VerdictFails(w) \/ AppendFails(w) \/ ReadFails
          PROVE  Places'
      <3>1. events' \in Nat
        BY <1>2, <2>4 DEF ClaimFails, CreateFails, VerdictFails, AppendFails, ReadFails, Places
      <3>2. UNCHANGED <<loopVars, pruneFailed>>
        BY <2>4 DEF ClaimFails, CreateFails, VerdictFails, AppendFails, ReadFails
      <3>3. QED
        BY <1>4, <3>1, <3>2 DEF Places
    <2>5. CASE ReadFails
      <3>1. events' \in Nat /\ UNCHANGED <<loopVars, pruneFailed>>
        BY <1>2, <2>5 DEF ReadFails
      <3>2. QED
        BY <1>4, <3>1 DEF Places
    <2>6. QED
      BY <1>11, <2>1, <2>2, <2>3, <2>4, <2>5 DEF Failure
  <1>12. CASE ListLogs(Startup) \/ \E j \in setup.jobs : RemoveLog(Startup, j) \/ ForgetLog(Startup, j)
    <2>1. UNCHANGED <<loopVars, pruneFailed, events>>
      BY <1>12 DEF ListLogs, RemoveLog, ForgetLog
    <2>2. QED
      BY <1>4, <2>1 DEF Places
  <1>13. CASE UNCHANGED vars
    BY <1>4, <1>13 DEF Places
  <1>14. QED
    BY <1>7, <1>8, <1>9, <1>10, <1>11, <1>12, <1>13 DEF Next

\* Every variable of serve and its logs has its type: there are never more errors in
\* the channel than it has places, and the log and every cursor are what they should be.
THEOREM LogTypes == Spec => []TypeOK
  <1>1. Init => Places
    <2>1. Init => setup \in Setups
      BY DEF Init
    <2>2. setup \in Setups => Capacity \in Nat /\ 0 <= Capacity
      BY Sizes DEF Capacity
    <2>3. Init => /\ main = "down" /\ channel = 0 /\ rpc = "off" /\ dashboard = "off"
                  /\ recovery = "off" /\ events = 0
      BY DEF Init
    <2>4. Init => pruneFailed \in BOOLEAN
      BY DEF Init
    <2>5. Init => channel <= Capacity /\ events \in Nat
      BY <2>1, <2>2, <2>3
    <2>6. QED
      BY <2>3, <2>4, <2>5 DEF Places, MainPlaces, Goroutines
  <1>2. LogsInv /\ Places /\ [Next]_vars => Places'
    BY PlacesKept DEF LogsInv
  <1>3. LogsInv /\ FileInv /\ ReaderInv /\ Places => TypeOK
    <2>1. ASSUME LogsInv, FileInv, ReaderInv, Places
          PROVE  TypeOK
      <3>1. channel \in 0 .. Capacity
        BY <2>1, Sizes DEF LogsInv, Types, Places, Capacity
      <3>2. reader.at \in {"idle", "open", "read", "done"} /\ reader.pos \in Nat /\ cursor \in Nat
        BY <2>1 DEF ReaderInv, ReaderCall
      <3>3. QED
        BY <2>1, <3>1, <3>2 DEF TypeOK, LogsInv, Types, FileInv, Places, ActorCall, JobRow
    <2>2. QED
      BY <2>1
  <1>4. QED
    BY <1>1, <1>2, <1>3, LogsKept, ReaderKept, PTL DEF Spec
=============================================================================
