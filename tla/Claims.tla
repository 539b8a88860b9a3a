------------------------------ MODULE Claims --------------------------------
(***************************************************************************)
(* A worker takes a job: claimContext, one transaction under the stage lock, *)
(* and markActive, which follows at once.                                  *)
(***************************************************************************)
EXTENDS JobStore

Unmet(st, j) == {i \in DOMAIN Needs[j] : st[Needs[j][i]] # "passed"}

\* Mutant: a failed need leaves the job waiting.
BlockedNever(st, j) == FALSE

\* ready looks at the needs in order and stops at the first one not passed.
Blocked(st, j) ==
    \E i \in Unmet(st, j) :
        /\ \A k \in Unmet(st, j) : i <= k
        /\ st[Needs[j][i]] \in {"failed", "cancelled"}

\* Mutant: only the limit of the job's own snapshot is looked at.
ResourcesFreeByOwnLimit(j) ==
    \A r \in Uses[j] : Cardinality(Holders(r)) < Limit[j][r]

\* Every lease counts, whatever the state of its job; the lowest limit of the
\* job's own snapshot and of the holders' snapshots applies.
ResourcesFree(j) ==
    \A r \in Uses[j] : \A h \in Holders(r) \cup {j} :
        Cardinality(Holders(r)) < Limit[h][r]

\* Mutant: the needs are not looked at.
ClaimableUnready(st, j) ==
    j \notin Undecodable /\ ResourcesFree(j)

\* A row the scan claims when it comes to it.
Claimable(st, j) ==
    /\ j \notin Undecodable
    /\ Unmet(st, j) = {}
    /\ ResourcesFree(j)

\* The rows the scan retires: a snapshot that no longer decodes fails its job,
\* a failed or cancelled need cancels it.
Retire(dropped) ==
    [j \in Jobs |-> IF j \notin dropped THEN state[j]
                    ELSE IF j \in Undecodable THEN "failed" ELSE "cancelled"]

RetireCodes(dropped) ==
    [j \in Jobs |-> IF j \in dropped \cap Undecodable THEN "other" ELSE exitCode[j]]

\* Mutant: the scan may go past a row it could claim.
ScansAnyOrder(passed, dropped) ==
    /\ dropped \subseteq passed
    /\ \A j \in passed : j \in dropped <=> j \in Undecodable \/ Blocked(Retire(dropped), j)

\* The scan goes by id and sees its own updates: of the rows it passes, it
\* drops exactly those it finds undecodable or blocked and claims none.
Scans(passed, dropped) ==
    /\ dropped \subseteq passed
    /\ \A j \in passed :
          /\ j \in dropped <=> j \in Undecodable \/ Blocked(Retire(dropped), j)
          /\ ~Claimable(Retire(dropped), j)

\* A goroutine is free, and fewer jobs are running than --max-workers allows.
WorkerIdle ==
    /\ Serving /\ StageFree
    /\ Cardinality(Busy) < MaxWorkers
    /\ Cardinality(InState("running")) < MaxWorkers

\* The claim with pinClaimedJob and markActive, which follows at once.
Claim(j) ==
    /\ WorkerIdle
    /\ j \in InState("queued")
    /\ \E dropped \in SUBSET InState("queued") :
          /\ Scans({k \in InState("queued") : k < j}, dropped)
          /\ Claimable(Retire(dropped), j)
          /\ state' = [Retire(dropped) EXCEPT ![j] = "running"]
          /\ exitCode' = RetireCodes(dropped)
    /\ leases' = leases \cup (Uses[j] \X {j})
    /\ batchRows' = batchRows \cup ({BatchOf[j]} \cap ShaBatches)
    /\ refs' = refs \cup ({BatchOf[j]} \cap ShaBatches)
    /\ at' = [at EXCEPT ![j] = "claimed"]
    /\ cmd' = [cmd EXCEPT ![j] = IF j \in Prepared /\ Sha(j) THEN "prepare" ELSE "task"]
    /\ out' = [out EXCEPT ![j] = Success]
    /\ UNCHANGED <<workerPid, cleanupPending, treeVars, recVars, server, cliVars, events>>

\* Nothing to claim, but the scan retired rows: finished batches are unpinned
\* under the same stage lock.
Sweep ==
    /\ WorkerIdle
    /\ \E dropped \in SUBSET InState("queued") :
          /\ dropped # {}
          /\ Scans(InState("queued"), dropped)
          /\ state' = Retire(dropped)
          /\ exitCode' = RetireCodes(dropped)
          /\ Release(Retire(dropped), cleanupPending, Batches)
    /\ UNCHANGED <<workerPid, cleanupPending, leases, treeVars, workVars, recVars,
                   server, cliVars, events>>
=============================================================================
