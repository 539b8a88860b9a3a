------------------------------ MODULE LogState ------------------------------
(***************************************************************************)
(* bitci serve seen from its logs: the goroutines of Serve and the channel *)
(* their errors go to, the log files of the jobs and the rows that name    *)
(* them, and a client that follows one log with a cursor.                  *)
(*                                                                         *)
(* A log is the sequence of its bytes; only newlines are told apart.  Each *)
(* job is a batch of its own.                                              *)
(***************************************************************************)
EXTENDS Integers, Sequences, FiniteSets

CONSTANTS
    Setups,    \* hosts and what happens on them, see SetupType
    NoJob,     \* followed when nobody reads
    Startup,   \* RecoverInterrupted, which prunes logs like a worker
    Bytes,     \* what a log is made of
    Newline,   \* the byte that ends a line
    Terminal,  \* the bytes of the line appendTerminalLog writes
    Buffer,    \* the bytes of a bufio.Reader
    Window,    \* maxLogReadBytes
    MaxLines   \* the limit of a read

\* workers and jobs of the serve, its log_retention, the job whose log is
\* followed, the bytes this job writes, the kinds of failures and how many.
SetupType(setup) ==
    /\ IsFiniteSet(setup.workers) /\ Startup \notin setup.workers
    /\ setup.jobs \subseteq Nat /\ IsFiniteSet(setup.jobs)
    /\ setup.retention \in Nat /\ setup.budget \in Nat
    /\ setup.followed \in setup.jobs \cup {NoJob} /\ setup.text \in Seq(Bytes)

ASSUME LogAssumption ==
    /\ \A setup \in Setups : SetupType(setup)
    /\ NoJob \notin Nat
    /\ Newline \in Bytes /\ Terminal \in Seq(Bytes)
    /\ Buffer \in Nat \ {0} /\ Window \in Nat \ {0} /\ MaxLines \in Nat \ {0}

VARIABLES
    setup,
    main,        \* Serve itself: the process is down, starting, up or closing
    channel,     \* how many errors are in the channel
    taken,       \* Serve took an error from it
    rpc,         \* the goroutine of ServeRPC
    dashboard,   \* the goroutine of the dashboard
    recovery,    \* the goroutine of serveRecovery
    actor,       \* the workers, and Startup
    job,         \* the rows and log files
    log,         \* the bytes of the followed log
    now,         \* the last finished_at
    reader,      \* a call of ReadLog
    cursor,      \* the cursor its client has
    pruneFailed, \* a pruning failed
    events

loopVars == <<main, channel, taken, rpc, dashboard, recovery>>
fileVars == <<job, log, now, pruneFailed>>
readVars == <<reader, cursor>>
vars == <<setup, loopVars, actor, fileVars, readVars, events>>

-----------------------------------------------------------------------------
MainPlaces  == {"down", "starting", "up", "closing"}
\* A goroutine runs, has an error to report, reported it, or ended without.
Goroutines  == {"on", "send", "sent", "off"}
ActorPlaces == {"off", "idle", "list", "prune", "forget", "note", "run", "verdict",
                "append", "send", "sent"}
Errands     == {"create", "release", "serve"}

Actors == setup.workers \cup {Startup}
Off == [at |-> "off", job |-> NoJob, doomed |-> {}, errand |-> "create",
        logged |-> FALSE, failed |-> FALSE]
Quiet == [at |-> "idle", terminal |-> FALSE, size |-> 0, pos |-> 0,
          skipping |-> FALSE, lines |-> << >>]

Event(kind) ==
    /\ kind \in setup.events
    /\ events < setup.budget
    /\ events' = events + 1

Goes(w, place) == actor' = [actor EXCEPT ![w].at = place]

Init ==
    /\ setup \in Setups
    /\ main = "down" /\ channel = 0 /\ taken = FALSE
    /\ rpc = "off" /\ dashboard = "off" /\ recovery = "off"
    /\ actor = [w \in Actors |-> Off]
    /\ job = [j \in setup.jobs |->
                [state |-> "queued", stamp |-> 0, path |-> FALSE, file |-> FALSE]]
    /\ log = << >> /\ now = 0
    /\ reader = Quiet /\ cursor = 0
    /\ pruneFailed = FALSE
    /\ events = 0
=============================================================================
