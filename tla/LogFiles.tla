------------------------------ MODULE LogFiles ------------------------------
(***************************************************************************)
(* The log files: startLog, pruneLogs and the log's part of finish, as the *)
(* workers run them at the same time, and RecoverInterrupted at startup.   *)
(***************************************************************************)
EXTENDS ServeLoop

\* Mutant: a running job has a log, too.
LoggedAnyState == {j \in setup.jobs : job[j].path}

Logged == {j \in setup.jobs : job[j].state = "over" /\ job[j].path}

\* ORDER BY finished_at DESC, id DESC
Newer(j, k) ==
    \/ job[j].stamp > job[k].stamp
    \/ job[j].stamp = job[k].stamp /\ j > k

\* The rows of pruneLogs' query: OFFSET log_retention, where 0 keeps them all.
Prunable ==
    {j \in Logged : /\ setup.retention # 0
                    /\ Cardinality({k \in Logged : Newer(k, j)}) >= setup.retention}

\* Time passes between two stamps, or not.
Stamps == {now, now + 1}

Running == {j \in setup.jobs : job[j].state = "running"}

\* RecoverInterrupted: the jobs that were running are over, and logs are pruned.
Start ==
    /\ main = "down"
    /\ main' = "starting"
    /\ \E stamp \in IF Running = {} THEN {now} ELSE Stamps :
          /\ now' = stamp
          /\ job' = [j \in setup.jobs |->
                      IF j \in Running THEN [job[j] EXCEPT !.state = "over", !.stamp = stamp]
                      ELSE job[j]]
    /\ actor' = [actor EXCEPT ![Startup] = [Off EXCEPT !.at = "list", !.errand = "serve"]]
    /\ UNCHANGED <<setup, channel, taken, rpc, dashboard, recovery, log, pruneFailed,
                   readVars, events>>

\* Serve starts its goroutines.
Serve ==
    /\ actor[Startup].at = "prune" /\ actor[Startup].doomed = {}
    /\ main' = "up"
    /\ rpc' = "on" /\ dashboard' = "on" /\ recovery' = "on"
    /\ actor' = [w \in Actors |-> IF w = Startup THEN Off ELSE [Off EXCEPT !.at = "idle"]]
    /\ UNCHANGED <<setup, channel, taken, fileVars, readVars, events>>

Claim(w, j) ==
    /\ actor[w].at = "idle" /\ job[j].state = "queued"
    /\ job' = [job EXCEPT ![j].state = "running"]
    /\ actor' = [actor EXCEPT ![w] = [Off EXCEPT !.at = "list", !.job = j]]
    /\ UNCHANGED <<setup, loopVars, log, now, pruneFailed, readVars, events>>

-----------------------------------------------------------------------------
\* pruneLogs, before a log is created and after a job has finished: the query, ...
ListLogs(w) ==
    /\ actor[w].at = "list"
    /\ actor' = [actor EXCEPT ![w].at = "prune", ![w].doomed = Prunable]
    /\ UNCHANGED <<setup, loopVars, fileVars, readVars, events>>

\* ... and for its rows, in their order, ...
FirstDoomed(w, j) ==
    /\ j \in actor[w].doomed
    /\ \A k \in actor[w].doomed : k = j \/ Newer(j, k)

\* ... the removal of the file ...
RemoveLog(w, j) ==
    /\ actor[w].at = "prune" /\ FirstDoomed(w, j)
    /\ job' = [job EXCEPT ![j].file = FALSE]
    /\ Goes(w, "forget")
    /\ UNCHANGED <<setup, loopVars, log, now, pruneFailed, readVars, events>>

\* ... and of its name.
ForgetLog(w, j) ==
    /\ actor[w].at = "forget" /\ FirstDoomed(w, j)
    /\ job' = [job EXCEPT ![j].path = FALSE]
    /\ actor' = [actor EXCEPT ![w].at = "prune", ![w].doomed = @ \ {j}]
    /\ UNCHANGED <<setup, loopVars, log, now, pruneFailed, readVars, events>>

\* startLog returns the error, and its job fails without a log; finish goes on,
\* to report it at the end; a startup ends the process.
PruneFails(w) ==
    /\ Event("prune")
    /\ actor[w].at \in {"list", "prune", "forget"}
    /\ actor[w].at = "prune" => actor[w].doomed # {}
    /\ pruneFailed' = TRUE
    /\ \/ /\ actor[w].errand = "create"
          /\ Goes(w, "verdict") /\ UNCHANGED loopVars
       \/ /\ actor[w].errand = "release"
          /\ actor' = [actor EXCEPT ![w].at = "prune", ![w].doomed = {}, ![w].failed = TRUE]
          /\ UNCHANGED loopVars
       \/ actor[w].errand = "serve" /\ Down
    /\ UNCHANGED <<setup, job, log, now, readVars>>

Followed(w) == actor[w].job = setup.followed

\* The file is created, ...
Create(w) ==
    /\ actor[w].at = "prune" /\ actor[w].doomed = {} /\ actor[w].errand = "create"
    /\ job' = [job EXCEPT ![actor[w].job].file = TRUE]
    /\ log' = IF Followed(w) THEN << >> ELSE log
    /\ actor' = [actor EXCEPT ![w].at = "note", ![w].logged = TRUE]
    /\ UNCHANGED <<setup, loopVars, now, pruneFailed, readVars, events>>

\* ... and then the row names it, ...
Note(w) ==
    /\ actor[w].at = "note"
    /\ job' = [job EXCEPT ![actor[w].job].path = TRUE]
    /\ Goes(w, "run")
    /\ UNCHANGED <<setup, loopVars, log, now, pruneFailed, readVars, events>>

\* ... or either fails.  job.LogPath was set before, and finish gets to see it.
CreateFails(w) ==
    /\ Event("create")
    /\ actor[w].at = "note" \/ (actor[w].at = "prune" /\ actor[w].doomed = {})
    /\ actor[w].errand = "create"
    /\ actor' = [actor EXCEPT ![w].at = "verdict", ![w].logged = TRUE]
    /\ UNCHANGED <<setup, loopVars, fileVars, readVars>>

\* The job writes some more bytes.
Write(w) ==
    /\ actor[w].at = "run" /\ Followed(w)
    /\ \E n \in Len(log) + 1 .. Len(setup.text) : log' = SubSeq(setup.text, 1, n)
    /\ UNCHANGED <<setup, loopVars, actor, job, now, pruneFailed, readVars, events>>

\* It ends, or serve kills it.
EndRun(w) ==
    /\ actor[w].at = "run"
    /\ Goes(w, "verdict")
    /\ UNCHANGED <<setup, loopVars, fileVars, readVars, events>>

-----------------------------------------------------------------------------
\* finish: the verdict with the name of the log, ...
Verdict(w) ==
    /\ actor[w].at = "verdict"
    /\ \E stamp \in Stamps :
          /\ now' = stamp
          /\ job' = [job EXCEPT ![actor[w].job].state = "over", ![actor[w].job].stamp = stamp,
                                ![actor[w].job].path = actor[w].logged]
    /\ Goes(w, "append")
    /\ UNCHANGED <<setup, loopVars, log, pruneFailed, readVars, events>>

VerdictFails(w) ==
    /\ Event("verdict")
    /\ actor[w].at = "verdict"
    /\ Goes(w, "send")
    /\ UNCHANGED <<setup, loopVars, fileVars, readVars>>

\* Mutant: the logs are pruned for the verdicts before this one only.
ToReleaseUnpruned(w, failed) ==
    actor' = [actor EXCEPT ![w].at = "prune", ![w].errand = "release", ![w].failed = failed]

ToRelease(w, failed) ==
    actor' = [actor EXCEPT ![w].at = "list", ![w].errand = "release", ![w].failed = failed]

\* ... the terminal line, which creates no file: it is an error if another
\* worker's pruning was faster, ...
AppendTerminal(w) ==
    LET there == job[actor[w].job].file
    IN /\ actor[w].at = "append"
       /\ log' = IF actor[w].logged /\ there /\ Followed(w) THEN log \o Terminal ELSE log
       /\ ToRelease(w, actor[w].logged /\ ~there)
       /\ UNCHANGED <<setup, loopVars, job, now, pruneFailed, readVars, events>>

AppendFails(w) ==
    /\ Event("append")
    /\ actor[w].at = "append" /\ actor[w].logged
    /\ ToRelease(w, TRUE)
    /\ UNCHANGED <<setup, loopVars, fileVars, readVars>>

\* ... the pruning, and the leases, the ref and the caches, which can fail, too.
\* An error stops serve.
Release(w) ==
    /\ actor[w].at = "prune" /\ actor[w].doomed = {} /\ actor[w].errand = "release"
    /\ \/ /\ actor' = [actor EXCEPT ![w] = [Off EXCEPT !.at = IF actor[w].failed THEN "send"
                                                              ELSE "idle"]]
          /\ UNCHANGED events
       \/ /\ Event("release")
          /\ actor' = [actor EXCEPT ![w] = [Off EXCEPT !.at = "send"]]
    /\ UNCHANGED <<setup, loopVars, fileVars, readVars>>
=============================================================================
