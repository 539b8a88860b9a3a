------------------------------ MODULE MCRetry -------------------------------
(***************************************************************************)
(* Small instances of Retry for TLC: task "test" needs task "build".       *)
(***************************************************************************)
EXTENDS Retry

MCOrdered == [t \in Tasks |-> IF t = "test" THEN <<"build", "test">> ELSE <<"build">>]
MCMaxRetries == [t \in Tasks |-> IF t = "test" THEN 1 ELSE 2]

\* Two connections of one serve, or two bitci retry processes.
InServe == [p \in Retriers |-> "serve"]
InClients == [p \in Retriers |-> p]
=============================================================================
