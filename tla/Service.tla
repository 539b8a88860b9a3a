------------------------------ MODULE Service -------------------------------
(***************************************************************************)
(* The managed service (service.go): what launchd does with it, and the    *)
(* commands that install, start, stop and remove it under the lifecycle    *)
(* lock.  One launchctl command, query or file operation is a step.        *)
(***************************************************************************)
EXTENDS HostState

Midway(u) == submit[u].at \notin {"new", "over"}

\* Submissions over RPC end with their serve.
HangUp == submit' = [u \in Submitters |->
             IF u \in InServe /\ Midway(u) THEN [submit[u] EXCEPT !.at = "over"] ELSE submit[u]]

\* RunAtLoad and KeepAlive: launchd runs serve while it has the service.  serve
\* loads the configuration, or exits again, and RecoverInterrupted ends the jobs
\* that an earlier serve left running.
Launch ==
    /\ loaded /\ serve = "down" /\ head \notin Broken
    /\ serve' = "up" /\ serveConfig' = head
    /\ job' = [u \in Submitters |->
                IF u \in Running THEN [job[u] EXCEPT !.state = "over"] ELSE job[u]]
    /\ UNCHANGED <<checkoutVars, lockedBy, stager, submit, plist, loaded, operator, events>>

\* claimContext, under the stage lock.
Claim(u) ==
    /\ serve = "up" /\ Free /\ job[u].state = "queued"
    /\ job' = [job EXCEPT ![u].state = "running"]
    /\ UNCHANGED <<checkoutVars, lockedBy, stager, submit, serviceVars, events>>

\* A worker finishes its job, of itself or because serve closes.
JobEnds(u) ==
    /\ serve \in {"up", "closing"} /\ job[u].state = "running"
    /\ job' = [job EXCEPT ![u].state = "over"]
    /\ UNCHANGED <<checkoutVars, lockedBy, stager, submit, serviceVars, events>>

\* The workers and the RPC handlers of a closing serve have returned.
Exit ==
    /\ serve = "closing" /\ Running = {}
    /\ \A u \in InServe : submit[u].at # "insert"
    /\ serve' = "down"
    /\ HangUp
    /\ UNCHANGED <<checkoutVars, lockedBy, stager, job, plist, loaded, serveConfig,
                   operator, events>>

ServeDies ==
    /\ Event("kill")
    /\ serve # "down"
    /\ serve' = "down"
    /\ HangUp
    /\ lockedBy' = IF lockedBy \in InServe THEN Nobody ELSE lockedBy
    /\ UNCHANGED <<checkoutVars, stager, job, plist, loaded, serveConfig, operator>>

-----------------------------------------------------------------------------
OperatorAt(c, place) == operator' = [operator EXCEPT ![c].at = place]

\* The command is over, whether it did what it should or not.
Returns(c) == operator' = [operator EXCEPT ![c] = Idle]

\* Mutant: everyone for himself.
LifecycleUnlocked == Operators # {}

\* withLifecycleLock: the operation under way holds the lock.
LifecycleFree == \A c \in Operators : operator[c].at = "idle"

\* install and uninstall load the configuration first, start only when it has to
\* configure the service, and stop never.
Begin(c, command) ==
    /\ operator[c].at = "idle" /\ LifecycleFree
    /\ command \in {"install", "uninstall"} => head \notin Broken
    /\ operator' = [operator EXCEPT ![c].command = command,
                      ![c].at = CASE command = "start" -> "status"
                                  [] command = "uninstall" -> "bootout"
                                  [] OTHER -> "check"]
    /\ UNCHANGED <<checkoutVars, lockedBy, stager, submit, job, plist, loaded, serve,
                   serveConfig, events>>

\* A step of an operator that changes only its own place.
Looks(c) ==
    UNCHANGED <<checkoutVars, lockedBy, stager, submit, job, plist, loaded, serve,
                serveConfig, events>>

\* Start: a service launchd has is left alone, a plist without one is refused.
Status(c) ==
    /\ operator[c].at = "status"
    /\ IF loaded \/ plist \/ head \in Broken THEN Returns(c) ELSE OperatorAt(c, "plist")
    /\ Looks(c)

\* Mutant: the service is changed whatever its jobs do.
CheckNothing(c) ==
    /\ operator[c].at = "check"
    /\ operator' = [operator EXCEPT
              ![c].known = {u \in Submitters : job[u].state # "absent"},
              ![c].at = IF operator[c].command = "install" THEN "plist" ELSE "bootout"]
    /\ Looks(c)

\* ensureNoActiveJobsFor.  known are the jobs there were.
CheckJobs(c) ==
    /\ operator[c].at = "check"
    /\ IF Active # {} THEN Returns(c)
       ELSE operator' = [operator EXCEPT
              ![c].known = {u \in Submitters : job[u].state # "absent"},
              ![c].at = IF operator[c].command = "install" THEN "plist" ELSE "bootout"]
    /\ Looks(c)

\* install overwrites the plist, start creates it.
WritePlist(c) ==
    /\ operator[c].at = "plist"
    /\ plist' = TRUE
    /\ IF operator[c].command = "install" THEN OperatorAt(c, "bootout")
       ELSE IF plist THEN Returns(c) ELSE OperatorAt(c, "bootstrap")
    /\ UNCHANGED <<checkoutVars, lockedBy, stager, submit, job, loaded, serve,
                   serveConfig, events>>

\* launchctl bootout: serve is told to stop, and not started again.  It is no
\* error that launchd does not have the service.
Bootout(c) ==
    /\ operator[c].at = "bootout"
    /\ loaded' = FALSE
    /\ serve' = IF serve = "up" THEN "closing" ELSE serve
    /\ OperatorAt(c, IF operator[c].command = "install" THEN "bootstrap" ELSE "remove")
    /\ UNCHANGED <<checkoutVars, lockedBy, stager, submit, job, plist, serveConfig, events>>

\* launchctl bootstrap: it fails for a service that launchd has.
Bootstrap(c) ==
    /\ operator[c].at = "bootstrap"
    /\ loaded' = TRUE
    /\ IF loaded THEN Returns(c) ELSE OperatorAt(c, "kickstart")
    /\ UNCHANGED <<checkoutVars, lockedBy, stager, submit, job, plist, serve,
                   serveConfig, events>>

\* launchctl kickstart -k: what runs is stopped, and launchd runs serve again.
Kickstart(c) ==
    /\ operator[c].at = "kickstart"
    /\ serve' = IF serve = "up" THEN "closing" ELSE serve
    /\ Returns(c)
    /\ UNCHANGED <<checkoutVars, lockedBy, stager, submit, job, plist, loaded,
                   serveConfig, events>>

RemovePlist(c) ==
    /\ operator[c].at = "remove"
    /\ plist' = FALSE
    /\ Returns(c)
    /\ UNCHANGED <<checkoutVars, lockedBy, stager, submit, job, loaded, serve,
                   serveConfig, events>>

\* A query, a launchctl command or a file operation fails and ends the command,
\* as does a signal; only install goes on after a failing bootout.
OperatorFails(c) ==
    /\ Event("operator")
    /\ operator[c].at # "idle"
    /\ \/ Returns(c)
       \/ /\ operator[c].at = "bootout" /\ operator[c].command = "install"
          /\ OperatorAt(c, "bootstrap")
    /\ UNCHANGED <<checkoutVars, lockedBy, stager, submit, job, plist, loaded, serve,
                   serveConfig>>

ServiceStep ==
    \/ Launch \/ Exit \/ ServeDies
    \/ \E u \in Submitters : Claim(u) \/ JobEnds(u)

OperatorStep(c) ==
    \/ \E command \in Commands : Begin(c, command)
    \/ Status(c) \/ CheckJobs(c) \/ WritePlist(c) \/ Bootout(c) \/ Bootstrap(c)
    \/ Kickstart(c) \/ RemovePlist(c) \/ OperatorFails(c)
=============================================================================
