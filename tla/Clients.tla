------------------------------ MODULE Clients -------------------------------
(***************************************************************************)
(* Submitting and cancelling jobs, by serve for its RPC clients or by a    *)
(* client process of its own: submit and CancelContext.                    *)
(***************************************************************************)
EXTENDS JobStore

Enqueue(b) ==
    state' = [j \in Jobs |-> IF j \in JobsOf(b) THEN "queued" ELSE state[j]]

\* Rows of jobs are never deleted: a batch gets its ids after those of every
\* batch submitted before it.
IdsFollow(b) ==
    /\ \A j \in JobsOf(b) : state[j] = "absent"
    /\ \A j \in JobsOf(b), k \in Jobs \ JobsOf(b) : k < j => state[k] # "absent"

\* A batch with no recorded SHA is one transaction.
SubmitPlain(b) ==
    /\ StageFree /\ IdsFollow(b) /\ b \notin ShaBatches
    /\ Enqueue(b)
    /\ UNCHANGED <<exitCode, workerPid, cleanupPending, leases, pinVars, treeVars,
                   workVars, recVars, server, cliVars, events>>

\* A recorded SHA: the batch_refs row is committed on its own first ...
SubmitRow(b) ==
    /\ StageFree /\ IdsFollow(b) /\ b \in ShaBatches
    /\ submitting' = {b}
    /\ batchRows' = batchRows \cup {b}
    /\ UNCHANGED <<rowVars, refs, treeVars, workVars, recVars, server, releasing, events>>

\* ... then the transaction inserts the jobs, pins the ref and commits.
SubmitCommit(b) ==
    /\ b \in submitting
    /\ Enqueue(b)
    /\ refs' = refs \cup {b}
    /\ submitting' = {}
    /\ UNCHANGED <<exitCode, workerPid, cleanupPending, leases, batchRows, treeVars,
                   workVars, recVars, server, releasing, events>>

\* The transaction fails: the ref, if it was made, and the row are removed.
SubmitFails(b) ==
    /\ b \in submitting /\ Event("submit")
    /\ batchRows' = batchRows \ {b}
    /\ submitting' = {}
    /\ UNCHANGED <<rowVars, refs, treeVars, workVars, recVars, server, releasing>>

\* The submitting process is killed before its commit, with or without the ref.
SubmitDies(b) ==
    /\ b \in submitting /\ Event("client")
    /\ refs' \in {refs, refs \cup {b}}
    /\ submitting' = {}
    /\ UNCHANGED <<rowVars, batchRows, treeVars, workVars, recVars, server, releasing>>

\* Mutant: a running job can be cancelled too.
CancellableUnlessDone(j) == state[j] \in {"queued", "running"}

\* The UPDATE of CancelContext is for queued jobs only.
Cancellable(j) == state[j] = "queued"

\* The job is cancelled at once; its batch's ref is released in a later step.
CancelContext(j) ==
    /\ Cancellable(j) /\ Event("cancel")
    /\ state' = [state EXCEPT ![j] = "cancelled"]
    /\ releasing' = releasing \cup ({BatchOf[j]} \cap ShaBatches)
    /\ UNCHANGED <<exitCode, workerPid, cleanupPending, leases, pinVars, treeVars,
                   workVars, recVars, server, submitting>>

\* releaseBatchRefContext, when the client gets the stage lock.
CancelRelease(b) ==
    /\ b \in releasing /\ StageFree
    /\ Release(state, cleanupPending, {b})
    /\ releasing' = releasing \ {b}
    /\ UNCHANGED <<rowVars, treeVars, workVars, recVars, server, submitting, events>>

\* The client is killed, or its context ends while it waits for the stage lock.
CancelDies(b) ==
    /\ b \in releasing /\ Event("client")
    /\ releasing' = releasing \ {b}
    /\ UNCHANGED <<rowVars, pinVars, treeVars, workVars, recVars, server, submitting>>
=============================================================================
