----------------------------- MODULE QueueSpec ------------------------------
(***************************************************************************)
(* What BitCI's queue promises to those who submit jobs: each job has one  *)
(* verdict, runs after its needs and with its resources leased within      *)
(* everyone's limits, and is started in submission order among those that  *)
(* can start.  Checkouts, processes, pins, crashes and recoveries are      *)
(* hidden; JobQueue is shown to implement this module.                     *)
(***************************************************************************)
EXTENDS Integers, FiniteSets, Sequences

CONSTANTS Jobs, BatchOf, Needs, Uses, Limit, MaxWorkers

VARIABLES
    status,   \* the state of each job
    held      \* pairs <<resource, job>>

Verdicts == {"passed", "failed", "cancelled"}

With(s)    == {j \in Jobs : status[j] = s}
HeldBy(r)  == {j \in Jobs : <<r, j>> \in held}

Init ==
    /\ status = [j \in Jobs |-> "absent"]
    /\ held = {}

Accept(b) ==
    /\ \A j \in Jobs : BatchOf[j] = b => status[j] = "absent"
    /\ status' = [j \in Jobs |-> IF BatchOf[j] = b THEN "queued" ELSE status[j]]
    /\ UNCHANGED held

NeedsPassed(j) == \A i \in DOMAIN Needs[j] : status[Needs[j][i]] = "passed"

Affordable(j) ==
    \A r \in Uses[j] : \A h \in HeldBy(r) \cup {j} : Cardinality(HeldBy(r)) < Limit[h][r]

\* Queued jobs leave the queue without having run.
Left(verdict) ==
    [j \in Jobs |-> IF j \in DOMAIN verdict THEN verdict[j] ELSE status[j]]

Drop(verdict) ==
    /\ DOMAIN verdict # {}
    /\ status' = Left(verdict)
    /\ UNCHANGED held

\* A job starts; the earlier ones that could start have been started or leave.
Launch(j, verdict) ==
    /\ j \in With("queued") \ DOMAIN verdict
    /\ Cardinality(With("running")) < MaxWorkers
    /\ NeedsPassed(j) /\ Affordable(j)
    /\ \A k \in With("queued") \ DOMAIN verdict : k < j => ~(NeedsPassed(k) /\ Affordable(k))
    /\ status' = [Left(verdict) EXCEPT ![j] = "running"]
    /\ held' = held \cup (Uses[j] \X {j})

Settle(j, verdict) ==
    /\ status[j] = "running"
    /\ status' = [status EXCEPT ![j] = verdict]
    /\ UNCHANGED held

Return(j) ==
    /\ status[j] # "running"
    /\ held' = {l \in held : l[2] # j}
    /\ UNCHANGED status

\* Running jobs are given up: they fail, their leases return, and what is
\* queued in their batches is cancelled.
Abort(lost) ==
    /\ lost # {} /\ lost \subseteq With("running")
    /\ status' = [j \in Jobs |->
                    IF j \in lost THEN "failed"
                    ELSE IF status[j] = "queued" /\ \E k \in lost : BatchOf[k] = BatchOf[j]
                    THEN "cancelled" ELSE status[j]]
    /\ held' = {l \in held : l[2] \notin lost}

Next ==
    \/ \E j \in Jobs : \/ Accept(BatchOf[j]) \/ Return(j)
                       \/ \E v \in {"passed", "failed"} : Settle(j, v)
    \/ \E dropped \in SUBSET With("queued") :
          \E verdict \in [dropped -> {"failed", "cancelled"}] :
             Drop(verdict) \/ \E j \in Jobs : Launch(j, verdict)
    \/ \E lost \in SUBSET Jobs : Abort(lost)

Spec == Init /\ [][Next]_<<status, held>>
=============================================================================
