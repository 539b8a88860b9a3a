----------------------------- MODULE HostState ------------------------------
(***************************************************************************)
(* What the processes on one host share around the queue: the dedicated    *)
(* checkout and its staged_checkouts row (stage.go), the stage lock, the   *)
(* jobs as far as staging and service changes look at them, and the launchd *)
(* service (service.go).                                                   *)
(*                                                                         *)
(* A commit stands for its SHA and for the bitci.json it holds.  Stagers,  *)
(* Submitters are processes that run one command, an operator runs one     *)
(* command after another.                                                  *)
(***************************************************************************)
EXTENDS Naturals, FiniteSets

CONSTANTS
    Commits,      \* SHAs of the repository
    NoCommit,     \* no SHA: no row, or nothing read yet
    Broken,       \* commits whose bitci.json does not load
    Stagers,      \* bitci stage-pr, stage-main and stage-branch
    Submitters,   \* bitci submit, and submissions over RPC: each one's job, too
    InServe,      \* the submitters that call over RPC
    Operators,    \* bitci start, stop and service install, uninstall
    Nobody,       \* the holder of a free lock
    Events, MaxEvents

ASSUME HostAssumption ==
    /\ NoCommit \notin Commits
    /\ Broken \subseteq Commits
    /\ InServe \subseteq Submitters
    /\ Stagers \cap Submitters = {}
    /\ Nobody \notin Stagers \cup Submitters
    /\ MaxEvents \in Nat

VARIABLES
    head,        \* the commit the checkout is at
    origin,      \* the commit of the remote ref that is staged
    staged,      \* the sha of the staged_checkouts row
    moved,       \* someone moved the checkout by hand since staging verified it
    lockedBy,    \* who holds bitci-stage.lock
    stager,      \* the calls of stageTrustedRef
    submit,      \* the calls of SubmitContext
    job,         \* the job of each submitter
    plist,       \* the service's plist is there
    loaded,      \* launchd has the service
    serve,       \* the bitci serve of the service
    serveConfig, \* the commit whose bitci.json serve loaded
    operator,    \* the calls of Install, Start, Stop and Uninstall
    events

checkoutVars == <<head, origin, staged, moved>>
serviceVars  == <<plist, loaded, serve, serveConfig, operator>>
vars == <<checkoutVars, lockedBy, stager, submit, job, serviceVars, events>>

-----------------------------------------------------------------------------
StagerPlaces == {"new", "wait", "count", "clear", "fetch", "switch", "load",
                 "record", "undo", "staged", "failed"}
SubmitPlaces == {"new", "head", "match", "wait", "insert", "over"}
JobStates    == {"absent", "queued", "running", "over"}
Servers      == {"down", "up", "closing"}
Commands     == {"install", "start", "stop", "uninstall"}
OperatorPlaces == {"idle", "status", "check", "plist", "bootout", "bootstrap",
                   "kickstart", "remove"}
SomeCommit == Commits \cup {NoCommit}

\* A call of stageTrustedRef: what it expects, goes back to and has fetched, and
\* whether nobody else moved the checkout so far.
StagerCall == [at : StagerPlaces, expected : SomeCommit, original : SomeCommit,
               fetched : SomeCommit, alone : BOOLEAN]

\* A call of SubmitContext: what it read, and whether nobody changed that so far.
SubmitCall == [at : SubmitPlaces, config : SomeCommit, ref : SomeCommit, steady : BOOLEAN]

Job == [state : JobStates, ref : SomeCommit, config : SomeCommit]

OperatorCall == [at : OperatorPlaces, command : Commands, known : SUBSET Submitters]
Idle == [at |-> "idle", command |-> "start", known |-> {}]

\* bitci-stage.lock: held over several steps by a stager or a submitter; a claim
\* and the release of a ref, which hold it too, are single steps here.
Free == lockedBy = Nobody
Unlock(holder) == lockedBy' = IF lockedBy = holder THEN Nobody ELSE lockedBy

Active == {u \in Submitters : job[u].state \in {"queued", "running"}}
Running == {u \in Submitters : job[u].state = "running"}

Event(kind) == kind \in Events /\ events < MaxEvents /\ events' = events + 1

\* An earlier staging is recorded or not, and the service installed or not.
Init ==
    /\ head \in Commits \ Broken /\ origin \in Commits
    /\ staged \in {NoCommit, head} /\ moved = FALSE
    /\ lockedBy = Nobody
    /\ stager = [p \in Stagers |->
          [at |-> "new", expected |-> NoCommit, original |-> NoCommit,
           fetched |-> NoCommit, alone |-> TRUE]]
    /\ submit = [u \in Submitters |->
          [at |-> "new", config |-> NoCommit, ref |-> NoCommit, steady |-> TRUE]]
    /\ job = [u \in Submitters |->
          [state |-> "absent", ref |-> NoCommit, config |-> NoCommit]]
    /\ plist \in BOOLEAN /\ loaded = plist
    /\ serve = "down" /\ serveConfig = head
    /\ operator = [c \in Operators |-> Idle]
    /\ events = 0
=============================================================================
