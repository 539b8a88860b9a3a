# BitCI in TLA+

BitCI is a single-machine CI: clients submit tasks of a checkout as jobs, one
`bitci serve` process claims and runs them, and everything it must remember is
in one SQLite database, in private Git refs of the source repository and in
files under its state directory.  This directory holds TLA+ models of it, TLC
configurations that check them, and TLAPS proofs.  Line numbers are those of
`internal/bitci/controller.go` unless another file is named; `PROJECT.json`
lists, for every definition, the lines it stands for.

## 1. The system

| component | state | operations | interacts with |
|---|---|---|---|
| job store | tables `jobs`, `leases`, `batch_refs`; refs `refs/bitci/jobs/<batch>`; `worktrees/job-N` with an owner file and `bitci-process-group` | statements, transactions, `git update-ref`, file operations | everything below |
| submit, cancel | batch being submitted, ref to release | `submit`, `CancelContext` | run in serve (RPC) or in a client process; stage lock |
| claims | none of its own | `claimContext`, `ready`, `resourcesFree`, `pinClaimedJob` | worker goroutines; stage lock; one transaction |
| workers | place in `runOnce`, result so far | `runOnce`, `jobCheckout`, `executeCommandWithRunEnvironment`, `removeJobWorktree`, `finish` | process groups, `worktreeMu`, errors channel of serve |
| recovery | jobs read, cleanups to do | `RecoverInterrupted` (startup), `RecoverOrphaned` (ticker), `RecoverJob` (`bitci recover`) | the rows, processes, worktrees and refs of others |
| serve | owner lock, goroutines, context | `Serve`, `acquireOwner`, shutdown, exit, crash | claims, workers, the ticker, RPC and dashboard listeners |
| retry | `attempt`, `retry_of`, `retry_root`; `retryMu` | `RetryContext` | submit |
| staging (`stage.go`) | the source checkout, `staged_checkouts`, `bitci-stage.lock` | `StagePR`, `StageMain`, `StageBranch`, `stageTrustedRef` | submits and claims, by the stage lock |
| service (`service.go`) | plist, launchd state, lifecycle lock | install, start, stop, restart, upgrade, uninstall | active jobs |
| logs | `logs/*.log` | `startLog`, `appendTerminalLog`, `pruneLogs`, `ReadLog` | workers, readers |
| object cache | shared object directories | `copyRecordedObjects`, `pruneObjectCaches` | checkouts |
| config (`config.go`) | the JSON config, its snapshot in each job | `Validate`, `Ordered`, `Plan` | submit, claims |
| RPC, MCP, dashboard, CLI | connections | decode a request, call an operation above | |

What is hard in it:

* **Several processes over one database.**  `bitci submit`, `cancel`, `retry`
  and `recover` may each be a process of its own beside serve.  Only the stage
  lock and the owner lock are shared; `worktreeMu`, `retryMu` and the set of
  active jobs are in memory.
* **One job, many stores.**  A job's life is spread over rows, refs, files and
  processes that are updated by separate steps, any two of which a crash or
  another actor may come between.
* **Recovery beside live workers.**  A recovery decides from what it read
  earlier, and the worker it takes the job from may be alive.
* **A checkout that moves.**  Staging switches the one source checkout that
  submits read, between four reads of theirs; only the insertion of the jobs and
  the staging itself are under the stage lock.
* **Goroutines that end together.**  Workers, ticker, RPC and dashboard report
  over one bounded channel, which nobody reads once serve closes; workers prune
  each other's logs.
* **Failing steps.**  Each worker step has its own error path, which must leave
  the row, `cleanup_pending`, the leases and the pin in agreement.

The correctness of each part, in a sentence each: a job has one verdict; it
runs after its needs, with its leases, within every limit, and in submission
order; the recorded commit stays reachable while it is needed; no worktree and
no recorded process is forgotten; a recovery only takes jobs that nobody is
at; each job ends.  Staging must never move the checkout under a claim or a
submit and must restore it on failure; retries must respect `max_retries`; logs
must not be pruned while they are among the newest, and a client that follows
one must get whole lines, in order, to the end; `Ordered` must put needs first
and `Plan` must select by path.

## 2. Modules

| module | lines of the code | what it holds |
|---|---|---|
| `JobStore` | schema, `releaseBatchRefUnlockedContext`, locks | constants and assumptions, all variables, `Release`, `Init` |
| `Clients` | `submit`, `CancelContext` | submit in two commits, cancel and its late release, failures, death of the client |
| `Claims` | `claimContext`, `ready`, `resourcesFree`, `pinClaimedJob` | `Claim`, `Sweep` |
| `Worker` | `runOnce` and what it calls | one action per step from `claimed` to `unpin`, one per failure |
| `Recovery` | the three recoveries, `Serve` | steps of actors `boot`, `tick`, `client`; serve's states |
| `JobQueue` | | composition, fairness, properties |
| `QueueSpec` | | the abstract queue: `Accept`, `Drop`, `Launch`, `Settle`, `Return`, `Abort` |
| `Retry` | `RetryContext`, `submit` | retries that read the attempts so far and submit the next, in one process or several |
| `TaskOrder` | `config.go`: `Validate`, `ordered`, `TaskNames`, `Plan` | the order of tasks after their needs, its recursion on a stack |
| `HostState` | `HEAD`, `staged_checkouts`, `bitci-stage.lock`, plist, launchd | all variables of the host |
| `Staging` | `stage.go`, `SubmitContext`, `submit` | staging step by step with its restore; submissions around the stage lock |
| `Service` | `service.go` | install, start, stop, uninstall; what launchd does with serve |
| `Host` | | composition of the three, properties |
| `LogState` | `Serve`, `runOnce`, `ReadLog` | all variables of serve seen from its logs |
| `ServeLoop` | `Serve`, `serveRecovery`, `serveWorker` | the goroutines, the channel of their errors, stop and return |
| `LogFiles` | `startLog`, `pruneLogs`, `finish`, `appendTerminalLog` | the log's part of a job, with several workers pruning |
| `LogReader` | `ReadLog`, `readLogLine` | one call of a client after the other, with the byte cursor |
| `Logs` | | composition of the four, fairness, properties |
| `MCJobQueue`, `MCRetry`, `MCTaskOrder`, `MCHost`, `MCLogs` | | the small instances |
| `JobQueueProofs`, `RecoveryProofs` | | theorems of `JobQueue` |
| `TaskOrderProofs`, `HostProofs`, `RetryProofs` | | theorems of `TaskOrder`, `Host`, `Retry` |
| `LogsProofs`, `ReaderProofs` | | theorems of `Logs`: serve and pruning; `ReadLog` |
| `Minimum` | | every nonempty set of numbers has a least element |

State and code.  `state`, `exitCode`, `workerPid`, `cleanupPending` are the
columns of `jobs` (`absent` is "no row yet"); `leases` and `batchRows` are the
tables; `refs`, `worktree`, `groupFile`, `proc` are what Git, the file system
and the kernel hold.  `at`, `cmd`, `out` are the local state of a worker
goroutine, indexed by the job it runs (the queue depends on a worker only
through the job it is at, so goroutines have no names; `at[j] # "idle"` is also
`isActive`).  `recovery[a][j]` is the cleanup step an actor is at for a job and
`seen` the `worker_pid` it read.  `server` is where serve is: `pins`, `tx` and
`tails` are the three parts of `RecoverInterrupted`, `aborted` a startup that
met an error, `failing` an error sent to the main loop and not yet taken.

Steps.  A step is one committed statement or transaction, one Git command, one
file operation or one process start: these are what a crash or another process
can come between.  Two merges, both of statements nothing observable separates:
`markActive` follows the commit of a claim in the same step, and the last
release of `recoverJobs` (of the job's own batch, then of all) is one step.

`Retry` and `TaskOrder` stand beside this composition.  `Retry` keeps the rows
with their attempts and reduces the queue to the verdicts it gives; a retrier is
a caller in some process, `ProcessOf` says which, and `retryMu` is held by a
process while one of its retriers has a call.  What `RetryContext` reads of the
job and of its batch never changes, so these two reads are one step; each
task's latest attempt is a read of its own, and submitting is a step after
them.  `TaskOrder` runs the recursion of `ordered` on a stack, one call or return
a step, first for `Validate` over all tasks, then for any names a client or
`Plan` asks for.  It is where `NeedsAssumption` of the queue comes from: `submit`
inserts rows in this order.

`Host` reduces the queue to the state of one job per submission and keeps what
`JobStore` takes for granted: which SHA and which configuration a job gets.  A
commit stands for its SHA and for the `bitci.json` it holds.  `stager[p]` holds
the locals of one call of `stageTrustedRef` (`expectedSHA`, `originalSHA`,
`fetchedSHA`; place `undo` is the deferred restore), `submit[u]` those of one
call of `SubmitContext`, `operator[c]` one command of `service.go` after
another.  `alone`, `steady`, `known` and `moved` are no variables of the code:
they say whether somebody moved the checkout meanwhile and which jobs a command
could have seen, so that properties can state exactly what is promised.

`Logs` keeps of serve its goroutines and their channel, of a job its row's
state, `finished_at` and `log_path`, and of a log its bytes.  `actor[w]` is a
worker in `runOnce` and `finish`, or `RecoverInterrupted` (`Startup`), which
prunes in the same way; `doomed` is what is left of the list that its
`pruneLogs` queried, `logged` whether `job.LogPath` is set, `failed` whether an
error is kept to be returned at the end.  `main` is where `Serve` is, `taken`
that its select got an error, `channel` how many are in it.  Each query,
statement and file operation is a step; `ReadLog` reads the row, the size and
each line in steps of their own.

Abstractions, by name:

* PIDs are not reused: a recorded group is the one that was started.  `worker_pid`
  is the command (`prepare` or `task`) that was recorded.
* The five-second grace of `orphanGraceExpired` is over whenever a recovery looks.
* A ticker that finds several orphans recovers each in a transaction of its
  own; the code uses one for all, so the model has more interleavings.
* A client has a `worktreeMu` of its own, so its removals do not wait for serve.
* Errors that change no variable and only end serve (a claim that fails, the
  disk guard, a read by the ticker, the RPC server) are `Shutdown` on `stop`.
* `ClearPid` may fail a task whatever it did: exit status, timeout and
  `verifyJobWorktree` are one choice.
* `Host`: who owns the remote and whether tracked files changed are refusals of
  the staging; `restart` is `kickstart` after the check of `stop`, `upgrade` is
  an `install`; claims and releases of refs hold the stage lock for one step.
* `Logs`: each job is a batch of its own; only newlines are told apart from
  other bytes; `finished_at` does not go back and may repeat, and equal stamps
  are ordered by id; the jobs of a closing serve end as any others.
* Elsewhere, timestamps, durations, task names, log text and refused commands' reasons are
  left out.

Optional events of the environment (crash, stop, cancel, `bitci recover`, each
failing call) have a name; `Events` says which a run has and `MaxEvents` how
many may occur.  Failures that are certain in a state (a command cannot start
in a directory that is gone, anything under a cancelled context, a directory
without its owner file is not removed) are not events and always occur.

## 3. Runs

Instance A: batches `{1,2}` and `{3}`, job 2 needs job 1, jobs 2 and 3 share a
resource with limits 2 and 1 in their snapshots.  Instance C: a recorded batch
`{1,2}` with a prepare command, a plain batch `{3}` that shares job 1's
resource, and a batch `{4}` whose snapshot no longer decodes; job 2's worktree
directory is taken by somebody else.  Both have two workers.

| run | instance | events | question |
|---|---|---|---|
| `crash` | A, both SHAs | 3 of 15 kinds | does the queue keep its promises when serve dies, stops or its calls fail at any step? |
| `recover` | C | 3 of recover, stop, client, cancel, finish, lease | do recoveries, the ticker and live workers agree? |
| `live` | A, one SHA | 2 of crash, recover | does every job end? |
| `lease_leak` | A | 1 crash | *violated*, see findings |
| `recovery_kills` | A | 1 recover | *violated* |
| `lost_worktree` | A | 1 failing log line | *violated* |
| `kept_pin` | A | none | *violated* |
| `retry` | two clients of one serve, `test` needs `build`, `max_retries` 1 and 2, 5 rows | | do attempts follow each other, within the limit? |
| `retry_twice` | the same in two processes, 6 rows | | *violated* |
| `order` | all configurations of up to 3 tasks with up to 2 needs each, any 2 names | | is the order right, and does a valid configuration always have one? |
| `host` | a good and a broken commit, one staging, one submission by a client and one over RPC, two operators | 1 of 6 kinds | do staging, submits and service changes keep off each other? |
| `logs` | shutdown: two workers, no jobs | 4 of 6 kinds | does serve return whatever fails? |
| | retention: two workers, three jobs, `log_retention` 1 | 1 of kill, prune, create | are the right logs pruned? |
| | reading: one job, every text of 4 bytes; and one whose log is pruned | 1 of append, read; of prune, create, verdict, append, release | does a client that follows a log get its lines? |

Why the bounds suffice.  Two batches are needed for a lease to be contended
across snapshots, for a scan that retires one batch and claims another and for
a recovery that must leave the other batch alone; two jobs in one batch for a
need, for a pin shared by several jobs and for `CancelQueued`.  Two workers are
the fewest that can race.  Three events allow, for example, a crash, a crash
during the startup that follows, and a failing removal; or two recoveries of
one job and a cancel.  All other steps are unbounded.  No symmetry is used:
ids are ordered.

What runs leave out.  `recover` has no `crash`, `remove` or `logTested`:
`logTested` is the finding `lost_worktree`, and a worker that survives the
recovery of its own job makes its worktree again after the recovery cleared
`cleanup_pending`, so that one more failure loses it; that is the
same leak reached by a longer way.  For the same reason `recover` checks
`ActiveIsPinned` where `crash` checks the stronger `NeededIsPinned`: a worker
whose job was recovered marks `cleanup_pending` on a failed row whose batch may
be unpinned.  `CHECK_DEADLOCK FALSE` everywhere: an idle serve with an empty
queue takes no step of the model until somebody submits.

`MaxRows` is five rows in `retry`: enough for a batch of two, its retry and a
retry of the need alone, in any order and from any attempt.  In `order` three
tasks are enough for a need met along two paths and for cycles of every length
a visit can be in; needs and names may repeat, and names may be unknown.

In `host` one staging is enough, since a second would wait for the lock or find
what the first left, and `Init` starts from every such state: a staged commit or
none, a service or none.  The submission over RPC is there because it takes
serve's configuration and dies with it.  Two operators race for the lifecycle
lock.  The six kinds of events are failing or killed stagings, failing submits
and commands, a checkout moved by hand and a push between the reads; the proofs
are for any number of all of these.

The initial states of `logs` choose one of three hosts (`setup`).  Shutdown has
two workers, five goroutines in all for a channel with four places; four events
let all of them fail but one, whose error comes after the stop.  Retention has three
finished jobs for two workers and a limit of one, so that both prune the same
log, and a crash between any two steps.  For reading, `bufio.Reader` has 2 bytes,
`maxLogReadBytes` is 3 and `limit` 2 where the code has 4096, 1 MiB and 80: a line is
shorter than, as long as or longer than each, begins at every offset in a
window, and the texts are all those of 4 bytes, written at any pace.

Properties of the queue.  `TypeOK`; `LeasesWithinLimits` (also for leases that outlive their
job, and with the lowest limit of all holders' snapshots); `RunningIsEntitled`
(needs passed, leases held); `NeededIsPinned` and `ActiveIsPinned`;
`WorktreesTracked` (a worktree has a worker or is marked for the next
startup); `NoRecordedOrphan` (no process an earlier serve recorded runs
while a new serve claims); `FinishAccounts` (a worker always finds its job
running or recovered, otherwise serve shuts down for nothing);
`VerdictStands`, `ClaimsInOrder`, `StartupIsClean`, `TickSparesActive`;
`QueueImplemented` (refinement of `QueueSpec` by `status <- state, held <-
leases`); `EveryJobEnds` and `RunningEnds`.

Of the retries: `RerunsWithinLimit` (`max_retries`), `OneAttemptPending` (one
unfinished attempt of a job, though a retry of a task also retries what it
needs), `AttemptsFollow` (numbered without gaps, each naming the one before and
its result), `HistoryIsComplete` (a retry always finds its needs in its batch).
Of the order: `NeedsFirst`, `EachOnce`, `AnswerIsWanted` and `CyclesAreRefused`
against reference definitions by closure, `ValidIsOrderable` (what `Validate`
accepts never fails later).

Of the host: `StagedIsCheckedOut` (the row of `staged_checkouts` is true of the
checkout through every failure and kill), `CheckoutWaitsForJobs` (no staging
moves the checkout under a queued or running job), `FailedStagingRestores`,
`QuietSubmitAgrees` (a client's job has the staged commit and its
configuration, unless a staging or a hand came between its reads),
`LoadedHasPlist`, `StopSparesKnownJobs` (stop and install hit no job that was
there when they looked).

Of serve and its logs: `ChannelSuffices` and `ShutdownEnds` (nobody waits for a
place in the channel, and serve returns), `WithinRetention` and `NewestKept`
(`log_retention` is kept, and only by removing logs with that many newer
ones, though pruners go by lists that others overtake), `WholeLinesOnce`,
`WindowLinesArrive` and `FollowerCatchesUp` (what a client that follows a log
gets).  `ChannelSuffices` and `ShutdownEnds` except one case: a signal that
overtakes an error of `ServeRPC` already on its way, when everybody else fails
as well; then there is one error more than places.

Each property has a mutant: a definition commented *Mutant*, used nowhere,
which put in the place of the next definition makes TLC find the property
violated.  It shows that the property depends on that piece of the code.

Fairness (`FairSpec`).  Goroutines and started processes run on, so the steps
of each job's worker, of the claim loop and of the two recoveries in serve are
weakly fair; a task ends by itself or at its `timeout_seconds`, so `ProcExit`
is too; `service.go` installs a launchd agent with `KeepAlive`, so `Serve`
follows an exit; a submit or cancel that holds or waits for the stage lock goes
on unless it dies.  Submitting is a client's choice (`SubmitPlain`,
`SubmitRow`) and no `Event` is ever due.

In `logs`, `TakeError`, `Return`, the two ends of `ServeRPC`, each worker and the
client's reading are weakly fair: goroutines that can go on do, commands end at
the latest with their timeout.  Nothing has to fail, and nobody has to start or
stop serve.  Weak fairness of a worker is of all its steps together: it may choose
another one, but it may not stand still.

`EveryJobEnds` excepts `Jammed`, two states that the code does not leave by
itself: a lease whose job is over (finding `lease_leak`), and a worktree
directory without its owner file, left by a crash between lines 800 and 803,
which `removeJobWorktree` refuses, so that every startup fails.

## 4. Findings

1. `lease_leak`: `finish` commits the verdict (2782) and deletes the leases in a
   later statement (2805).  A crash in between leaves leases of a finished job,
   and `RecoverInterrupted` only returns those of running jobs (1538).
2. `recovery_kills`: README and the comment at 1200 say a recovery never kills
   a process; `recoverJobs` kills the recorded group (1341, 2701).
3. `lost_worktree`: when the `tested_sha` query or log line fails after the
   checkout (628-635), the job is finished without cleanup and with
   `cleanup_pending = 0`; nobody removes the worktree.
4. `kept_pin`: a scan that cancels the last jobs of one batch and claims a job
   of another returns before it releases the first batch's ref (1872, 1881).
5. `retry_twice`: `bitci retry` runs `RetryContext` in its own process, where
   `retryMu` (2873) excludes nobody; two of them read the same latest attempt
   and both submit the next, past `max_retries`.

Seen as well while modelling, and not stated by a line of the repository that
a run could refute:

* Logs.  A line that is shorter than 1 MiB but crosses the end of a call's
  window is skipped (3049-3052); `WindowLinesArrive` says which lines are not.
  A reader stays in front of a complete line that is too long until its job is
  over (3062-3065).  When a partial line was returned between the verdict and
  the terminal line, the terminal line counts as its rest and is skipped.
  Another worker may prune a log between the verdict of its job and
  `appendTerminalLog`, and a log whose creation failed is named by
  `job.LogPath` all the same: the missing file is an error of `finish` and
  stops serve.  A crash between the creation of a log and the `UPDATE` of
  `log_path` leaves a file that is never pruned.
* `bitci recover` beside a live worker.  A recovery clears `cleanup_pending` of the
  job it takes, and releases its ref, while the worker may be about to make the
  worktree or to start and record a command; if serve is killed then, the
  next startup does not look at that job, and the worktree, or the process, stays.
* Shutdown.  With every goroutine failing and a signal that overtakes the error
  of `ServeRPC`, the last one waits for a place for ever (1118); a worker that
  waits for the stage lock when serve stops reports `context canceled`.
* Staging and submits.  A submit that a staging overtakes between its reads and
  the stage lock records the commit of before (397); a staging that failed
  after it deleted the row leaves the check off; without a requested ref, a
  failing `checkoutSHA` submits a job with none.  A `git checkout` whose hook
  fails after the move is not restored.
* Service.  `uninstall` does not check for active jobs; a failing `bootstrap`
  leaves a plist for which `start` refuses to go on.

## 5. Proofs

Every safety invariant and action property that a passing run checks is also a
theorem, for every value of the constants that satisfies the assumptions below;
only liveness is left to TLC.  A run shows a property on a small instance and
with a mutant that breaks it, the theorem that no larger instance differs.

The theorems of the queue hold under `JobsAssumption`, `BatchesAssumption`,
`NeedsAssumption` and `LimitAssumption` in `JobStore` (job ids are a finite set
of positive integers, a batch has a job, needs precede their dependents and are
of the same batch, limits are positive: what `submit`, `Config.Validate`,
`Ordered` and SQLite's row ids give), and for every choice of `Events` and
`MaxEvents` unless a condition is named.

* `JobQueueProofs` proves `TypeCorrect`, one lemma per module and one step per
  action, and the inductive invariant `Order` = `TypeOK` and
  - `SubmittedIsNew`: a batch under submission has no rows yet (else its commit
    would requeue jobs);
  - `WorkedIsClaimed`: a worker is only at a job that was claimed (else `Finish`
    could settle a queued one);
  - `ReturnedIsOver`: a worker returns leases after the verdict (else leases of
    a running job could go).

  None of the other results is inductive without these.  Steps are split into
  `Quiet` ones, which change no row, lease or code, and `Loud` ones (claim,
  sweep, submit, cancel, finish, return, two recoveries); lemma `Moves` says
  which changes of a row's state a step can make.
* From `Order`: `VerdictKept` (`VerdictStands`), `PinKept` (`ActiveIsPinned`),
  `Implements` (`QueueImplemented`: quiet steps stutter, each loud one is a
  step of `QueueSpec`), `EntitledKept` (`RunningIsEntitled`), `LimitsKept`
  (`LeasesWithinLimits`, with the cardinality lemmas of `FiniteSetTheorems`),
  `OrderOfClaims` (`ClaimsInOrder`).

* `RecoveryProofs` is about one job at a time.  A step that is not about job `k`
  leaves it `Still`, or retires its queued row, and moves serve `Onward` or not
  at all; so each invariant is a formula over one job, and its proof is one
  lemma for the other jobs and one for each component's steps at this job.
  - `Attended`: who is at a job runs in the serve that is up, or is the
    startup; a worker's job is running or was failed by a recovery; the ticker
    commits only what has no worker.  With `Order` this is inductive for all
    events, and gives `FinishKept` (`FinishAccounts`) and `TickSpares`
    (`TickSparesActive`).
  - `Guarded` holds as long as `RecoverSpares` does: a `bitci recover` fails no
    job that a worker is at, at the moment of its `UPDATE`.  It may read one, run
    beside serve and its startups, be killed and come again.  The code makes sure of
    this for the ticker (`TickSparesActive`) and not for `RecoverJob`, so it is
    a hypothesis, `[][RecoverSpares]_vars`; where nobody runs the command it holds
    (`SparedUnasked`), and `KeptUnasked` gives the four results below without it.
    A job has a worker or recoveries past their `UPDATE`, not both, and of these
    any number (`Apart`); what was never claimed has left
    nothing (`Bare`); `cleanup_pending` is set before the directory is made
    (`Marked`); a recorded process has its file and a cleanup that will end it
    (`Recorded`); a startup still has what is pending to do (`Starting`).  From
    it `NoOrphanKept` (`NoRecordedOrphan`) and `NeededKept` (`NeededIsPinned`).
  - `Tracked` adds that a worktree on disk is marked and that the verdict will
    keep the mark.  It needs `NoLogLoss` too, the absence of the failure of
    finding `lost_worktree`, and gives `WorktreesKept` (`WorktreesTracked`) and
    `StartupKept` (`StartupIsClean`).
  - `Quieted` says that a process is between its start and its wait or was left
    by an earlier serve, and that none so left is of a running job once serve has
    a ticker.  It is inductive for all events and gives `TickKillsNone`: from the
    ticker's read of a job to the end of its cleanup the job has no process, so
    what the run `recovery_kills` refutes is true of the ticker.
  - `Returned` (a lease is of a running job or of one whose worker is to return
    it) and `Owned` (a directory without owner file was just made) say what jams
    the queue.  `LeasesReturned`: the run `lease_leak` has no cause but a crash or
    a failing `DELETE`.  `NeverJammed`: without those and failing checkouts,
    no state is `Jammed`, the exception that `EveryJobEnds` makes.

  The conditions are needed: without `RecoverSpares`, with `recover` and `crash`
  among the events, TLC finds each of the four results from `Guarded` and `Tracked`
  violated in instance A, and `StartupIsClean` with `logTested` and `crash` as
  well.  With it, TLC finds all of them and the invariant to hold there.

* `TaskOrderProofs` proves every property of `TaskOrder` from `NamesAssumption`
  alone (task names are a finite set, needs and requests are sequences of names),
  for configurations of any size, cyclic ones too.  A first invariant, `Inv`, is about
  the recursion: the calls under way are of different tasks that are not ordered
  yet (`Open`), each is for the need its caller has come to (`Calls`), the needs a
  call has gone past are ordered (`PassedIsSeen`), and `seen` is what `ordered`
  holds.  Without `Calls` a return could not tell that the need its caller
  goes past is the task just ordered.  From it `NeedsComeFirst` (`NeedsFirst`)
  and `TasksComeOnce` (`EachOnce`).
  A second one, `Search`, is about what was asked: the loop over the names is at
  the one that is visited (`Asking`), what it has gone past is ordered
  (`PassedIsAnswered`), and nothing is visited that nobody wants (`Reached`).
  At the end the ordered tasks hold the names asked for and are closed under needs;
  `Wanted` is the least such set, so they are the same (`AnswerKept`).  On a
  cycle the calls from the task met again to the last are tasks that all wait for
  one of them; the other way round, the first task of such a knot to be ordered
  would come before a need of it (`OrderedIsLoose`, by the least index in
  `Minimum`), so both directions of `CyclesRefused` hold without an induction over
  the recursion.  `Validate` asks for all tasks, hence what it accepts has no knot
  (`Validated`) and `ValidOrders` follows.  Two results carry over to the other
  modules: with `submit` inserting rows in this order every need is one
  earlier row of the batch (`BatchFits`), which is `NeedsAssumption` of the queue,
  and the order of a task holds the orders of its tasks (`AnswersNest`), which is
  what `RetryAssumption` says of `Ordered`.

* `HostProofs` proves every property of `Host`, from
  `HostAssumption` alone: any number of commits, stagings, submissions and
  operators, and any events.  The invariant is built in three layers.
  `CheckoutInv` says of the staging at work that it holds the stage lock
  (`Locked`), that no job is active from its count on (`NoneActive`), that the
  row is gone from its deletion on (`Cleared`), and where the checkout is at each
  of its steps (`AtOriginal`, `Verified`).  `SubmitInv` adds what a
  submission may rely on while it is `steady`.  `HostInv` adds one operator at
  a time, the plist under a loaded service, and the jobs a command found over.
  Each layer is inductive with the one below, and the action properties follow
  from it step by step.
* `RetryProofs` has two layers.  `SharedInv` holds for retries in any number of
  processes: ids and roots are numbered, a batch has a task once, attempts of a
  root are of one task, chained to the one before and limited (`Numbered`,
  `OneTask`, `Chained`, `Limited`), and what a call under way has read was given
  its verdict and stays in the rows (`CallIs`).  It gives `HistoryKept`
  (`HistoryIsComplete`) and `ChainKept`: two processes can give one number to two
  attempts, and what else they break follows from that.  `RetryInv` adds, under `OneProcess` (all
  retriers share `ProcessOf`), that the numbers of a root are distinct (`Roots`)
  and that what a call has read is still the latest (`OneCall`); it gives
  `OnePending`, `AttemptsKept` and `LimitKept` (`OneAttemptPending`,
  `AttemptsFollow`, `RerunsWithinLimit`).  The run `retry_twice` shows that
  `OneProcess` is needed.  The query for the latest attempt takes the highest number
  and, of equal ones, the highest id: two least elements, which `Minimum` finds
  from well-founded orderings.
* `LogsProofs` proves `ErrorsFit` (`ChannelSuffices`), `RetentionKept`
  (`WithinRetention`) and `NewestLogsKept` (`NewestKept`) from `LogAssumption`:
  any number of workers and jobs and any `log_retention`.  `LogsInv` has five
  parts.  `Types`.  `Loop`: every error that was sent is in the channel or was
  taken (`Accounts`), so that counting goroutines bounds the channel.  `Mine`:
  from claim to verdict a worker has a running job that nobody else has, whose
  row names a log only when there is one.  `Doomed`: every job on a pruner's list stays
  finished and stays behind `log_retention` newer logs; when one of these is
  forgotten, it had as many newer ones itself, and what is newer is
  transitive.  `Retained`: where there is one log too many, somebody has yet to prune.
  That a query leaves at most `log_retention` logs is lemma `Few`, a pigeonhole.

* `ReaderProofs` proves the rest of `Logs`: `LinesWhole` (`WholeLinesOnce`),
  `LinesArrive` (`WindowLinesArrive`) and `LogTypes` (`TypeOK`), for every text a
  job writes and every size of buffer, window and limit.  `FileInv` says that
  while a worker writes, the log is a beginning of its text, and that a terminal
  line is for a job that is over; with `Mine` it makes a log that was created
  (`Made`) grow only (`Grows`), since the one worker that could create it again
  is past that.  `ReaderInv` says that a call with a log has one that was made
  (`Started`), stays between its cursor and the end (`Span`), and is between two
  lines or skips the rest of the one its cursor is in (`Ready`).  `NextLine` is a
  `CHOOSE` of the first newline, which `LineFound` resolves with `Minimum`;
  `LineCases` reduces `ReadLine` to five outcomes, each with a lemma for the lines
  returned and one for the lines passed.

Assumptions on `Logs`: a setup has finitely many workers and jobs, follows one of its
jobs or none, and the text and the terminal line are sequences of `Bytes`, of
which `Newline` is one; `Buffer`, `Window` and `MaxLines` are positive.

Only model-checked: liveness under fairness (`EveryJobEnds`, `RunningEnds`,
`ShutdownEnds`, `FollowerCatchesUp`), which with `ENABLED` is out of the prover's
reach.  What `bitci recover` leaves when it takes the job of a live worker has no
theorem beyond those that hold for all events (`Order` and what follows from it,
`FinishKept`, `TickKillsNone`): the rest is then false.

## 6. Not modelled, and what is left

* Object cache: `copyRecordedObjects` and `pruneObjectCaches` keep copies of
  objects that Git can give again; a checkout that misses one fails as
  `CheckoutFails`, and a failing pruning as `Release` of `LogFiles`.
* The disk guard is one of the failures of a claim; how full a disk is, is not
  modelled.  `bitci worker` runs one claim and one job without the loop of serve
  and adds no step to them.
* A claim that fails between its pin and its commit waits for the only
  connection of the database (1794), which needs a failure of SQLite within a
  transaction; a transaction is one step here.
* Reuse of a PID after a reboot (1223), and starvation of a job that needs
  several resources (1838), which no line of the code excludes.
* A client that gives up after ten seconds and submits again (`rpc.go:245`):
  both submissions are jobs of their own, by design.
* Rendering (dashboard, CLI), JSON decoding (RPC, MCP), and the classification
  of command lines by `hasUnsafeCheckoutCommand`, which are pure functions of
  strings and are tested as such; a refused command is `StartFails`.  Of
  `Validate` the checks of single values, and of `Plan` the matching of path
  patterns, are left out for the same reason.
