------------------------------- MODULE Retry --------------------------------
(***************************************************************************)
(* Retries of finished jobs: RetryContext, which reads the attempts so far *)
(* and submits the next ones, in serve for its RPC clients and in client   *)
(* processes.  retryMu serialises the retries of one process only.         *)
(*                                                                         *)
(* A definition commented "Mutant" is a faulty variant of the one after it. *)
(***************************************************************************)
EXTENDS Integers, FiniteSets, Sequences

CONSTANTS
    Tasks,       \* task names of the configuration
    Ordered,     \* Tasks -> Seq(Tasks): Config.Ordered of the task: its needs, then it
    MaxRetries,  \* Tasks -> Nat: max_retries, 0 for no limit
    Retriers,    \* callers of RetryContext
    ProcessOf,   \* Retriers -> the process each one calls in
    MaxRows      \* how many rows the jobs table may get

\* A task with all it needs, directly or not.
Needs(t) == {Ordered[t][i] : i \in DOMAIN Ordered[t]}

\* TaskOrder shows that Config.Ordered answers so: each task once, with its needs.
ASSUME RetryAssumption ==
    /\ \A t \in Tasks :
          /\ Ordered[t] \in Seq(Tasks)
          /\ \A i, k \in DOMAIN Ordered[t] : Ordered[t][i] = Ordered[t][k] => i = k
          /\ \A i \in DOMAIN Ordered[t] : Needs(Ordered[t][i]) \subseteq Needs(t)
    /\ MaxRetries \in [Tasks -> Nat]
    /\ MaxRows \in Nat

VARIABLES
    rows,    \* the jobs table
    lastId,  \* its last id
    call     \* what each retrier has found so far

vars == <<rows, lastId, call>>

Verdicts == {"passed", "failed", "cancelled"}
Unfinished == "pending"      \* queued or running

\* exit_code is null until a job ran.
CodeOf(st) == CASE st = "passed" -> "0" [] st = "failed" -> "other" [] OTHER -> "null"

Idle == [batch |-> 0, task |-> "none", found |-> <<>>]
Active(p) == call[p] # Idle

\* Mutant: a mutex of each call.
LockedByCall(p) == Active(p)

\* retryMu of the process of p is held.
Locked(p) == \E q \in Retriers : ProcessOf[q] = ProcessOf[p] /\ Active(q)

Init ==
    /\ rows = {} /\ lastId = 0
    /\ call = [p \in Retriers |-> Idle]

\* What submit writes for the i-th task of an order: info[i] is its retryInfo,
\* and the batch is named by its first id.
NewRow(order, info, i) ==
    [id |-> lastId + i, batch |-> lastId + 1, task |-> order[i], state |-> Unfinished,
     attempt |-> info[i].attempt, of |-> info[i].of, prior |-> info[i].prior,
     root |-> IF info[i].root = 0 THEN lastId + i ELSE info[i].root]

\* Mutant: the needs are not submitted.
NewRowsAlone(order, info) == {NewRow(order, info, Len(order))}

NewRows(order, info) == {NewRow(order, info, i) : i \in DOMAIN order}

Insert(order, info) ==
    /\ lastId + Len(order) <= MaxRows
    /\ rows' = rows \cup NewRows(order, info)
    /\ lastId' = lastId + Len(order)

\* A first submission of a task and its needs: retryInfo is zero.
SubmitContext(t) ==
    /\ Insert(Ordered[t], [i \in DOMAIN Ordered[t] |->
                             [attempt |-> 1, of |-> 0, root |-> 0, prior |-> "null"]])
    /\ UNCHANGED call

\* The queue gives a job its verdict: it runs after its needs passed.
Settle(r, verdict) ==
    /\ r \in rows /\ r.state = Unfinished
    /\ verdict # "cancelled" =>
          \A s \in rows : s.batch = r.batch /\ s.task \in Needs(r.task) \ {r.task}
                           => s.state = "passed"
    /\ rows' = (rows \ {r}) \cup {[r EXCEPT !.state = verdict]}
    /\ UNCHANGED <<lastId, call>>

\* The mutex, then the job to retry: it must have its verdict.  The history of
\* its batch is read too; nothing that is used of it ever changes.
RetryContext(p, r) ==
    /\ ~Active(p) /\ ~Locked(p)
    /\ r \in rows /\ r.state \in Verdicts
    /\ call' = [call EXCEPT ![p] = [batch |-> r.batch, task |-> r.task, found |-> <<>>]]
    /\ UNCHANGED <<rows, lastId>>

History(batch, name) == CHOOSE r \in rows : r.batch = batch /\ r.task = name

\* Mutant: the attempt that was asked for instead of the latest.
LatestIsAsked(h) == h

\* The latest attempt of the job's root.
Latest(h) ==
    LET attempts == {r \in rows : r.root = h.root}
    IN CHOOSE r \in attempts : \A s \in attempts :
          s.attempt < r.attempt \/ (s.attempt = r.attempt /\ s.id <= r.id)

\* Mutant: one attempt too many.
MayRetryOnceMore(r) ==
    /\ r.state \in Verdicts
    /\ MaxRetries[r.task] > 0 => r.attempt <= MaxRetries[r.task] + 1

\* No attempt is pending and max_retries allows another.
MayRetry(r) ==
    /\ r.state \in Verdicts
    /\ MaxRetries[r.task] > 0 => r.attempt <= MaxRetries[r.task]

\* The retryInfo of the attempt after r.
Info(r) ==
    [attempt |-> r.attempt + 1, of |-> r.id, root |-> r.root, prior |-> CodeOf(r.state)]

Asked(p) == Len(call[p].found) + 1

\* The next task of the order is looked up, a query of its own each.
ReadLatest(p) ==
    /\ Active(p) /\ Asked(p) <= Len(Ordered[call[p].task])
    /\ LET latest == Latest(History(call[p].batch, Ordered[call[p].task][Asked(p)]))
       IN IF MayRetry(latest)
          THEN call' = [call EXCEPT ![p].found = Append(@, Info(latest))]
          ELSE call' = [call EXCEPT ![p] = Idle]
    /\ UNCHANGED <<rows, lastId>>

\* All were found: the transaction of submit, and the mutex is free again.
SubmitRetry(p) ==
    /\ Active(p) /\ Asked(p) > Len(Ordered[call[p].task])
    /\ Insert(Ordered[call[p].task], call[p].found)
    /\ call' = [call EXCEPT ![p] = Idle]

\* A query, the stage lock or submit fails, or the process is killed.
RetryFails(p) ==
    /\ Active(p)
    /\ call' = [call EXCEPT ![p] = Idle]
    /\ UNCHANGED <<rows, lastId>>

Next ==
    \/ \E t \in Tasks : SubmitContext(t)
    \/ \E r \in rows : \/ \E verdict \in Verdicts : Settle(r, verdict)
                       \/ \E p \in Retriers : RetryContext(p, r)
    \/ \E p \in Retriers : ReadLatest(p) \/ SubmitRetry(p) \/ RetryFails(p)

Spec == Init /\ [][Next]_vars

-----------------------------------------------------------------------------
\* README: max_retries caps manual reruns for that task.
RerunsWithinLimit ==
    \A r \in rows : r.attempt = 1 /\ MaxRetries[r.task] > 0 =>
        Cardinality({s \in rows : s.root = r.id /\ s.attempt > 1}) <= MaxRetries[r.task]

\* RetryContext refuses a task that already has a pending retry, its own or the
\* retry of a task that needs it: one attempt of a job is unfinished at a time.
OneAttemptPending ==
    \A r, s \in rows : r.root = s.root /\ r.state = Unfinished /\ s.state = Unfinished => r = s

\* README: status records each attempt and its prior exit code.  Attempts of a
\* job are numbered without gaps or repeats, whichever attempt a retry was asked
\* for, and each one names the attempt before it and how that one ended.
AttemptsFollow ==
    \A r \in rows : r.attempt > 1 =>
        /\ \A s \in rows : s.root = r.root /\ s.attempt = r.attempt => s = r
        /\ \E s \in rows : /\ s.id = r.of /\ s.root = r.root /\ s.task = r.task
                           /\ s.attempt = r.attempt - 1
                           /\ s.state \in Verdicts /\ r.prior = CodeOf(s.state)

\* RetryContext never fails for want of history: every batch, a retry's too,
\* holds the needs of its tasks.
HistoryIsComplete ==
    \A r \in rows : \A name \in Needs(r.task) :
        \E s \in rows : s.batch = r.batch /\ s.task = name
=============================================================================
