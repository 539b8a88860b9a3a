-------------------------------- MODULE Logs --------------------------------
(***************************************************************************)
(* bitci serve and its logs: the goroutines, the log files they write and  *)
(* prune, and a client that follows one of the logs.                       *)
(***************************************************************************)
EXTENDS LogFiles, LogReader

LoopStep ==
    \/ TakeError \/ Return \/ RpcReports \/ RpcEnds \/ DashboardReports \/ RecoveryReports

WorkerStep(w) ==
    \/ \E j \in setup.jobs : Claim(w, j) \/ RemoveLog(w, j) \/ ForgetLog(w, j)
    \/ ListLogs(w) \/ Create(w) \/ Note(w) \/ Write(w) \/ EndRun(w) \/ Verdict(w)
    \/ AppendTerminal(w) \/ Release(w) \/ WorkerReports(w) \/ WorkerEnds(w)

ReaderStep == ReadRow \/ OpenLog \/ ReadLine \/ Answer

Failure ==
    \/ Stop \/ Killed \/ RpcFails \/ DashboardFails \/ RecoveryFails \/ ReadFails
    \/ \E w \in setup.workers :
          ClaimFails(w) \/ CreateFails(w) \/ VerdictFails(w) \/ AppendFails(w)
    \/ \E w \in Actors : PruneFails(w)

Next ==
    \/ Start \/ Serve
    \/ LoopStep
    \/ \E w \in setup.workers : WorkerStep(w)
    \/ ListLogs(Startup) \/ \E j \in setup.jobs : RemoveLog(Startup, j) \/ ForgetLog(Startup, j)
    \/ ReaderStep
    \/ Failure

Spec == Init /\ [][Next]_vars

\* Goroutines that can go on do, commands end at the latest with their timeout,
\* and the client goes on reading.  Nothing has to fail, or to be started.
Fairness ==
    /\ WF_vars(TakeError) /\ WF_vars(Return)
    /\ WF_vars(RpcReports) /\ WF_vars(RpcEnds)
    /\ \A w \in UNION {s.workers : s \in Setups} :
          WF_vars(w \in setup.workers /\ WorkerStep(w))
    /\ WF_vars(ReaderStep)

FairSpec == Spec /\ Fairness

-----------------------------------------------------------------------------
TypeOK ==
    /\ setup \in Setups
    /\ main \in MainPlaces /\ channel \in 0 .. Capacity /\ taken \in BOOLEAN
    /\ rpc \in Goroutines /\ dashboard \in Goroutines /\ recovery \in Goroutines
    /\ actor \in [Actors -> [at : ActorPlaces, job : setup.jobs \cup {NoJob},
                             doomed : SUBSET setup.jobs, errand : Errands,
                             logged : BOOLEAN, failed : BOOLEAN]]
    /\ job \in [setup.jobs -> [state : {"queued", "running", "over"}, stamp : Nat,
                              path : BOOLEAN, file : BOOLEAN]]
    /\ log \in Seq(Bytes) /\ now \in Nat
    /\ reader.at \in {"idle", "open", "read", "done"}
    /\ reader.pos \in Nat /\ cursor \in Nat
    /\ pruneFailed \in BOOLEAN
    /\ events \in Nat

\* errors := make(chan error, maxWorkers+2): once serve closes, nobody reads the
\* channel, and yet nobody with an error waits for a place in it, though there is
\* one goroutine more than places, unless a signal overtook the error of ServeRPC.
ChannelSuffices ==
    main = "closing" /\ (taken \/ rpc \notin {"send", "sent"})
    /\ ("send" \in {rpc, dashboard, recovery} \/ \E w \in setup.workers : actor[w].at = "send")
    => channel < Capacity

\* log_retention: when no job is running, no more finished jobs have a log, also
\* after crashes, unless a pruning failed.
WithinRetention ==
    main = "up" /\ setup.retention # 0 /\ ~pruneFailed
    /\ (\A w \in setup.workers : actor[w].at = "idle")
    => Cardinality(Logged) <= setup.retention

\* pruneLogs takes its list first and then goes by it, while others finish, prune
\* and crash: a log that goes has log_retention newer ones, then as well.
NewestKept ==
    [][\A j \in setup.jobs :
          (job[j].file /\ ~job'[j].file) \/ (job[j].path /\ ~job'[j].path)
          => /\ job[j].state = "over" /\ setup.retention # 0
             /\ Cardinality({k \in Logged : Newer(k, j)}) >= setup.retention]_vars

\* A line: it begins the log or follows a newline, and ends with its only one.
Begins(s) == s = 0 \/ log[s] = Newline
Inside(s, e) == \A i \in s + 1 .. e - 1 : log[i] # Newline

\* "ReadLog returns capped complete lines.  A terminal partial line is returned
\* once."  What a call returns are such lines, behind its cursor and in order;
\* only the last may lack its newline, when the job was over.
WholeLinesOnce ==
    \A n \in 1 .. Len(reader.lines) :
        LET s == reader.lines[n][1]  e == reader.lines[n][2]
        IN /\ s < e /\ e <= reader.pos
           /\ s >= IF n = 1 THEN cursor ELSE reader.lines[n - 1][2]
           /\ Begins(s) /\ Inside(s, e)
           /\ log[e] = Newline \/ (reader.terminal /\ n = Len(reader.lines) /\ e = reader.size)

\* "Oversized lines are skipped": no other is.  A complete line that lies within
\* maxLogReadBytes of the cursor of a call, and that the call passes, is returned.
WindowLinesArrive ==
    \A s \in cursor .. reader.pos : \A e \in s + 1 .. reader.pos :
        Begins(s) /\ Inside(s, e) /\ log[e] = Newline /\ e - cursor <= Window
        => \E n \in 1 .. Len(reader.lines) : reader.lines[n] = <<s, e>>

\* Serve returns after it took an error or a signal, whatever fails meanwhile.
ShutdownEnds ==
    (main = "closing" /\ (taken \/ rpc \notin {"send", "sent"})) ~> (main = "down")

\* Once its job is over, a client that goes on reading gets to the end of the log
\* and stays there, unless the log is pruned or was never made.
CaughtUp ==
    setup.followed # NoJob =>
        cursor = Len(log) \/ ~job[setup.followed].path \/ ~job[setup.followed].file
FollowerCatchesUp ==
    (setup.followed # NoJob /\ job[setup.followed].state = "over") ~> []CaughtUp
=============================================================================
