------------------------------- MODULE MCLogs -------------------------------
(***************************************************************************)
(* Small instances of Logs for TLC: one for the shutdown, one for retention *)
(* and one for every text that a followed job may write.                   *)
(***************************************************************************)
EXTENDS Logs

CONSTANTS w, v, x

Shutdown == [workers |-> {w, v}, jobs |-> {}, retention |-> 0, followed |-> NoJob,
    text |-> << >>, budget |-> 4,
    events |-> {"rpc", "dashboard", "recovery", "claim", "stop", "kill"}]

Retention == [workers |-> {w, v}, jobs |-> 1 .. 3, retention |-> 1, followed |-> NoJob,
    text |-> << >>, budget |-> 1,
    events |-> {"kill", "prune", "create"}]

\* The log is read as long as it is there, ...
Follow(text) == [workers |-> {w}, jobs |-> {1}, retention |-> 0, followed |-> 1,
    text |-> text, budget |-> 1, events |-> {"append", "read"}]

\* A job that ends early wrote the beginning of one of these.
Texts == [1 .. 4 -> {x, Newline}]

\* ... or until the next job is over.
Pruned == [Follow(<<x, Newline>>) EXCEPT !.jobs = 1 .. 2, !.retention = 1,
    !.events = {"prune", "create", "verdict", "append", "release"}]

MCSetups == {Shutdown, Retention, Pruned} \cup {Follow(text) : text \in Texts}
MCBytes == {x, Newline}
MCTerminal == <<x, Newline>>
=============================================================================
