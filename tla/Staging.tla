------------------------------ MODULE Staging -------------------------------
(***************************************************************************)
(* Staging a trusted commit in the dedicated checkout, and the submissions *)
(* it has to keep apart from (stage.go; SubmitContext and submit in        *)
(* controller.go).  One query, one statement or one Git command is a step. *)
(***************************************************************************)
EXTENDS HostState

\* A staging goes on at place.
StagerAt(p, place) == stager' = [stager EXCEPT ![p].at = place]

\* A staging returns: the deferred release frees the stage lock.
StagerEnds(p, place) == StagerAt(p, place) /\ Unlock(p)

\* Whoever moves the checkout disturbs the submissions that looked at it.
Disturb == submit' = [u \in Submitters |-> [submit[u] EXCEPT !.steady = FALSE]]

\* The command loads the configuration of the checkout.  StagePR and StageBranch
\* then read the remote SHA, before they lock; StageMain expects none.
Ask(p) ==
    /\ stager[p].at = "new" /\ head \notin Broken
    /\ \E expected \in {origin, NoCommit} :
          stager' = [stager EXCEPT ![p].at = "wait", ![p].expected = expected]
    /\ UNCHANGED <<checkoutVars, lockedBy, submit, job, serviceVars, events>>

LockToStage(p) ==
    /\ stager[p].at = "wait" /\ Free
    /\ lockedBy' = p
    /\ StagerAt(p, "count")
    /\ UNCHANGED <<checkoutVars, submit, job, serviceVars, events>>

\* noActiveJobs, then the commit to go back to.
NoActiveJobs(p) ==
    /\ stager[p].at = "count"
    /\ IF Active # {} THEN StagerEnds(p, "failed")
       ELSE /\ stager' = [stager EXCEPT ![p].at = "clear", ![p].original = head,
                                        ![p].alone = TRUE]
            /\ UNCHANGED lockedBy
    /\ UNCHANGED <<checkoutVars, submit, job, serviceVars, events>>

\* Mutant: the row of the last staging stays until it is overwritten.
KeepStagedCheckout(p) ==
    /\ stager[p].at = "clear"
    /\ StagerAt(p, "fetch")
    /\ UNCHANGED <<checkoutVars, lockedBy, submit, job, serviceVars, events>>

ClearStagedCheckout(p) ==
    /\ stager[p].at = "clear"
    /\ staged' = NoCommit
    /\ Disturb
    /\ StagerAt(p, "fetch")
    /\ UNCHANGED <<head, origin, moved, lockedBy, job, serviceVars, events>>

\* The checkout was clean, and the source is fetched to a ref of its own.
Fetch(p) ==
    /\ stager[p].at = "fetch"
    /\ stager' = [stager EXCEPT ![p].at = "switch", ![p].fetched = origin]
    /\ UNCHANGED <<checkoutVars, lockedBy, submit, job, serviceVars, events>>

\* The fetched commit is the one that was read before, if one was.
IsExpected(p) == stager[p].expected \in {NoCommit, stager[p].fetched}

\* git checkout --detach of what was fetched.  From here a failure goes back.
Switch(p) ==
    /\ stager[p].at = "switch"
    /\ IF IsExpected(p)
       THEN /\ head' = stager[p].fetched
            /\ Disturb
            /\ StagerAt(p, "load")
            /\ UNCHANGED lockedBy
       ELSE StagerEnds(p, "failed") /\ UNCHANGED <<head, submit>>
    /\ UNCHANGED <<origin, staged, moved, job, serviceVars, events>>

\* Mutant: targetCheckedOut is set after the new configuration was loaded.
LoadBeforeMark(p) ==
    /\ stager[p].at = "load"
    /\ IF head # stager[p].fetched \/ head \in Broken
       THEN StagerEnds(p, "failed") /\ UNCHANGED moved
       ELSE moved' = FALSE /\ StagerAt(p, "record") /\ UNCHANGED lockedBy
    /\ UNCHANGED <<head, origin, staged, submit, job, serviceVars, events>>

\* The checkout is verified and its bitci.json loaded.
Load(p) ==
    /\ stager[p].at = "load"
    /\ IF head # stager[p].fetched \/ head \in Broken
       THEN StagerAt(p, "undo") /\ UNCHANGED moved
       ELSE moved' = FALSE /\ StagerAt(p, "record")
    /\ UNCHANGED <<head, origin, staged, lockedBy, submit, job, serviceVars, events>>

RecordStagedCheckout(p) ==
    /\ stager[p].at = "record"
    /\ staged' = stager[p].fetched
    /\ Disturb
    /\ StagerEnds(p, "staged")
    /\ UNCHANGED <<head, origin, moved, job, serviceVars, events>>

\* Mutant: what was asked for is restored, and not what was there.
RestoreExpected(p) ==
    /\ stager[p].at = "undo"
    /\ head' = stager[p].expected
    /\ Disturb
    /\ StagerEnds(p, "failed")
    /\ UNCHANGED <<origin, staged, moved, job, serviceVars, events>>

\* The deferred restore: git checkout --detach of the original commit.
Restore(p) ==
    /\ stager[p].at = "undo"
    /\ head' = stager[p].original
    /\ Disturb
    /\ StagerEnds(p, "failed")
    /\ UNCHANGED <<origin, staged, moved, job, serviceVars, events>>

\* A query, a statement or a Git command fails, or the checkout is dirty; after
\* the switch there is something to undo.
StageFails(p) ==
    /\ Event("stage")
    /\ \/ /\ stager[p].at \in {"count", "clear", "fetch", "switch"}
          /\ StagerEnds(p, "failed")
       \/ /\ stager[p].at \in {"load", "record"}
          /\ StagerAt(p, "undo") /\ UNCHANGED lockedBy
    /\ UNCHANGED <<checkoutVars, submit, job, serviceVars>>

\* The restore fails, or the switch reports a failure (of a hook) after it moved
\* the checkout, and then nothing is restored.
RestoreFails(p) ==
    /\ Event("stage")
    /\ \/ stager[p].at = "undo" /\ UNCHANGED <<head, submit>>
       \/ stager[p].at = "switch" /\ IsExpected(p) /\ head' = stager[p].fetched /\ Disturb
    /\ stager' = [stager EXCEPT ![p].at = "failed", ![p].alone = FALSE]
    /\ Unlock(p)
    /\ UNCHANGED <<origin, staged, moved, job, serviceVars>>

\* The process is killed; the kernel frees its lock.
StagerDies(p) ==
    /\ Event("kill")
    /\ stager[p].at \notin {"new", "staged", "failed"}
    /\ stager' = [stager EXCEPT ![p].at = "failed", ![p].alone = FALSE]
    /\ Unlock(p)
    /\ UNCHANGED <<checkoutVars, submit, job, serviceVars>>

\* Someone moves the dedicated checkout by hand, or pushes to the staged ref.
MoveByHand(c) ==
    /\ Event("move")
    /\ c # head
    /\ head' = c /\ moved' = TRUE
    /\ Disturb
    /\ stager' = [p \in Stagers |-> [stager[p] EXCEPT !.alone = FALSE]]
    /\ UNCHANGED <<origin, staged, lockedBy, job, serviceVars>>

Push(c) ==
    /\ Event("push")
    /\ c # origin
    /\ origin' = c
    /\ UNCHANGED <<head, staged, moved, lockedBy, stager, submit, job, serviceVars>>

-----------------------------------------------------------------------------
SubmitterAt(u, place) == submit' = [submit EXCEPT ![u].at = place]

\* A client loads the configuration of the checkout; over RPC it is serve's.
OpenToSubmit(u) ==
    /\ submit[u].at = "new"
    /\ IF u \in InServe THEN serve = "up" ELSE head \notin Broken
    /\ submit' = [submit EXCEPT ![u].at = "head", ![u].steady = TRUE,
                                ![u].config = IF u \in InServe THEN serveConfig ELSE head]
    /\ UNCHANGED <<checkoutVars, lockedBy, stager, job, serviceVars, events>>

ReadHead(u) ==
    /\ submit[u].at = "head"
    /\ submit' = [submit EXCEPT ![u].at = "match", ![u].ref = head]
    /\ UNCHANGED <<checkoutVars, lockedBy, stager, job, serviceVars, events>>

\* Mutant: the requested commit is not compared with the staged one.
MatchesAny(ref) == ref \in Commits

MatchesStaged(ref) == staged \in {NoCommit, ref}

\* The staged row against the commit the caller asks for, or else the one read.
MatchStaged(u) ==
    /\ submit[u].at = "match"
    /\ \E requested \in Commits \cup {NoCommit} :
          LET ref == IF requested = NoCommit THEN submit[u].ref ELSE requested
          IN IF MatchesStaged(ref)
             THEN submit' = [submit EXCEPT ![u].at = "wait", ![u].ref = ref]
             ELSE SubmitterAt(u, "over")
    /\ UNCHANGED <<checkoutVars, lockedBy, stager, job, serviceVars, events>>

\* Mutant: submit does not wait for a staging.
SubmitUnlocked(u) ==
    /\ submit[u].at = "wait"
    /\ SubmitterAt(u, "insert")
    /\ UNCHANGED <<checkoutVars, lockedBy, stager, job, serviceVars, events>>

LockToSubmit(u) ==
    /\ submit[u].at = "wait" /\ Free
    /\ lockedBy' = u
    /\ SubmitterAt(u, "insert")
    /\ UNCHANGED <<checkoutVars, stager, job, serviceVars, events>>

\* The transaction of submit.
Insert(u) ==
    /\ submit[u].at = "insert"
    /\ job' = [job EXCEPT ![u] = [state |-> "queued", ref |-> submit[u].ref,
                                  config |-> submit[u].config]]
    /\ SubmitterAt(u, "over")
    /\ Unlock(u)
    /\ UNCHANGED <<checkoutVars, stager, serviceVars, events>>

\* checkoutSHA fails: without a requested commit, that submits a job of none.
HeadUnread(u) ==
    /\ Event("submit")
    /\ submit[u].at = "head"
    /\ SubmitterAt(u, "wait")
    /\ UNCHANGED <<checkoutVars, lockedBy, stager, job, serviceVars>>

\* A query or a statement fails, or the process is killed.
SubmitFails(u) ==
    /\ Event("submit")
    /\ submit[u].at \notin {"new", "over"}
    /\ SubmitterAt(u, "over")
    /\ Unlock(u)
    /\ UNCHANGED <<checkoutVars, stager, job, serviceVars>>

StagerStep(p) ==
    \/ Ask(p) \/ LockToStage(p) \/ NoActiveJobs(p) \/ ClearStagedCheckout(p)
    \/ Fetch(p) \/ Switch(p) \/ Load(p) \/ RecordStagedCheckout(p) \/ Restore(p)
    \/ StageFails(p) \/ RestoreFails(p) \/ StagerDies(p)

SubmitterStep(u) ==
    \/ OpenToSubmit(u) \/ ReadHead(u) \/ HeadUnread(u) \/ MatchStaged(u)
    \/ LockToSubmit(u) \/ Insert(u) \/ SubmitFails(u)

CheckoutStep == \E c \in Commits : MoveByHand(c) \/ Push(c)
=============================================================================
