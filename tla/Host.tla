-------------------------------- MODULE Host --------------------------------
(***************************************************************************)
(* Staging, submissions and service changes on one host, and what keeps    *)
(* them apart: the stage lock, the lifecycle lock and the checks for active *)
(* jobs.                                                                   *)
(***************************************************************************)
EXTENDS Staging, Service

Next ==
    \/ \E p \in Stagers : StagerStep(p)
    \/ \E u \in Submitters : SubmitterStep(u)
    \/ \E c \in Operators : OperatorStep(c)
    \/ CheckoutStep
    \/ ServiceStep

Spec == Init /\ [][Next]_vars

-----------------------------------------------------------------------------
TypeOK ==
    /\ head \in Commits /\ origin \in Commits
    /\ staged \in SomeCommit /\ moved \in BOOLEAN
    /\ lockedBy \in Stagers \cup Submitters \cup {Nobody}
    /\ stager \in [Stagers -> StagerCall]
    /\ submit \in [Submitters -> SubmitCall]
    /\ job \in [Submitters -> Job]
    /\ plist \in BOOLEAN /\ loaded \in BOOLEAN
    /\ serve \in Servers /\ serveConfig \in Commits
    /\ operator \in [Operators -> OperatorCall]
    /\ events \in Nat

\* README: stage-main records the trusted SHA it checked out.  Whatever fails or
\* dies between the switch and the row, the checkout is at the staged commit
\* unless someone moved it by hand.
StagedIsCheckedOut == staged # NoCommit /\ ~moved => head = staged

\* noActiveJobs and the stage lock: no staging moves the checkout while a job is
\* queued or running, whenever that job was submitted.
CheckoutWaitsForJobs ==
    [][\A p \in Stagers : stager'[p].at # stager[p].at /\ head' # head => Active = {}]_vars

\* The deferred restore of stageTrustedRef: a staging that fails, wherever, goes
\* back to the commit it found, unless it was killed, its restore failed, or
\* someone moved the checkout meanwhile.
FailedStagingRestores ==
    [][\A p \in Stagers :
          stager[p].at \notin {"new", "wait", "count"} /\ stager'[p].at = "failed"
          /\ stager[p].at # "failed" /\ stager'[p].alone
          => head' = stager[p].original]_vars

\* README: staging records the trusted SHA, and submit the config and the SHA.
\* Unless a staging or a hand came between, a client's job with a SHA has the
\* staged one and that commit's configuration, although it reads four places for it.
QuietSubmitAgrees ==
    [][\A u \in Submitters \ InServe :
          job[u].state = "absent" /\ job'[u].state = "queued" /\ job'[u].ref # NoCommit
          /\ submit[u].steady /\ staged # NoCommit /\ ~moved
          => job'[u].ref = staged /\ job'[u].config = staged]_vars

\* launchd never has a service whose plist is gone, also after a command that
\* failed midway: stop finds the state directory it has to check there.
LoadedHasPlist == loaded => plist

\* README: BitCI refuses service changes while jobs run.  stop and install stop
\* serve under no job that was there when they looked; one submitted since may
\* be hit.
StopSparesKnownJobs ==
    [][\A c \in Operators :
          operator[c].at = "bootout" /\ operator[c].command \in {"stop", "install"}
          /\ serve = "up" /\ serve' = "closing"
          => Active \cap operator[c].known = {}]_vars
=============================================================================
