----------------------------- MODULE ServeLoop ------------------------------
(***************************************************************************)
(* Serve, serveRecovery and serveWorker: goroutines that report their first *)
(* error over one channel and end, and Serve, which takes one error or is  *)
(* stopped, and then waits for the workers and for ServeRPC.               *)
(***************************************************************************)
EXTENDS LogState

\* Mutant: one place short.
CapacityShort == Cardinality(setup.workers) + 1

\* make(chan error, maxWorkers+2)
Capacity == Cardinality(setup.workers) + 2

\* errors <- err
Report == channel < Capacity /\ channel' = channel + 1

\* The process ends; its goroutines and the channel with it.
Down ==
    /\ main' = "down" /\ channel' = 0 /\ taken' = FALSE
    /\ rpc' = "off" /\ dashboard' = "off" /\ recovery' = "off"
    /\ actor' = [w \in Actors |-> Off]

\* ctx.Done() of the select: a signal.
Stop ==
    /\ Event("stop")
    /\ main = "up"
    /\ main' = "closing"
    /\ UNCHANGED <<setup, channel, taken, rpc, dashboard, recovery, actor, fileVars, readVars>>

\* Mutant: the channel is not looked at first.
TakeAny ==
    /\ main = "up"
    /\ main' = "closing" /\ taken' = TRUE /\ channel' = channel - 1
    /\ UNCHANGED <<setup, rpc, dashboard, recovery, actor, fileVars, readVars, events>>

\* The other case: one error, whoever reported it.  Nobody reads the channel again.
TakeError ==
    /\ main = "up" /\ channel > 0
    /\ main' = "closing" /\ taken' = TRUE /\ channel' = channel - 1
    /\ UNCHANGED <<setup, rpc, dashboard, recovery, actor, fileVars, readVars, events>>

\* workers.Wait() of shutdown returns; it does not wait for the other two.
Return ==
    /\ main = "closing"
    /\ rpc \in {"sent", "off"}
    /\ \A w \in setup.workers : actor[w].at \in {"sent", "off"}
    /\ Down
    /\ UNCHANGED <<setup, fileVars, readVars, events>>

Killed ==
    /\ Event("kill")
    /\ main # "down"
    /\ Down
    /\ UNCHANGED <<setup, fileVars, readVars>>

\* Accept fails.  Once the context is cancelled that is no error.
RpcFails ==
    /\ Event("rpc") /\ main = "up" /\ rpc = "on"
    /\ rpc' = "send"
    /\ UNCHANGED <<setup, main, channel, taken, dashboard, recovery, actor, fileVars, readVars>>

RpcReports ==
    /\ rpc = "send" /\ Report
    /\ rpc' = "sent"
    /\ UNCHANGED <<setup, main, taken, dashboard, recovery, actor, fileVars, readVars, events>>

RpcEnds ==
    /\ main = "closing" /\ rpc = "on"
    /\ rpc' = "off"
    /\ UNCHANGED <<setup, main, channel, taken, dashboard, recovery, actor, fileVars,
                   readVars, events>>

\* The listener of the dashboard fails.
DashboardFails ==
    /\ Event("dashboard") /\ dashboard = "on"
    /\ dashboard' = "send"
    /\ UNCHANGED <<setup, main, channel, taken, rpc, recovery, actor, fileVars, readVars>>

DashboardReports ==
    /\ dashboard = "send" /\ Report
    /\ dashboard' = "sent"
    /\ UNCHANGED <<setup, main, taken, rpc, recovery, actor, fileVars, readVars, events>>

\* RecoverOrphaned fails other than by a busy database.
RecoveryFails ==
    /\ Event("recovery") /\ recovery = "on"
    /\ recovery' = "send"
    /\ UNCHANGED <<setup, main, channel, taken, rpc, dashboard, actor, fileVars, readVars>>

RecoveryReports ==
    /\ recovery = "send" /\ Report
    /\ recovery' = "sent"
    /\ UNCHANGED <<setup, main, taken, rpc, dashboard, actor, fileVars, readVars, events>>

\* The claim of a worker fails, or waits for the stage lock as serve closes.
ClaimFails(w) ==
    /\ actor[w].at = "idle"
    /\ Event("claim") \/ (main = "closing" /\ UNCHANGED events)
    /\ Goes(w, "send")
    /\ UNCHANGED <<setup, loopVars, fileVars, readVars>>

WorkerReports(w) ==
    /\ actor[w].at = "send" /\ Report
    /\ Goes(w, "sent")
    /\ UNCHANGED <<setup, main, taken, rpc, dashboard, recovery, fileVars, readVars, events>>

\* Mutant: a worker that found no job does not look at the context.
WorkerSleeps(w) ==
    /\ main = "up" /\ actor[w].at = "idle"
    /\ UNCHANGED vars

WorkerEnds(w) ==
    /\ main = "closing" /\ actor[w].at = "idle"
    /\ Goes(w, "off")
    /\ UNCHANGED <<setup, loopVars, fileVars, readVars, events>>
=============================================================================
