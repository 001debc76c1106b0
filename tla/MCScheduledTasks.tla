-------------------------- MODULE MCScheduledTasks --------------------------
(* One daemon with callers in its own process.                               *)
EXTENDS ScheduledTasks, TLC

CONSTANTS once1, every1, operator1, daemon, api, cli

MCOnce == {once1}
MCOperators == {operator1}
MCAll == {once1, every1, operator1}
MCDaemons == {daemon}
MCApi == {api}
MCProc == [a \in {daemon, api, cli} |-> IF a = cli THEN "cli" ELSE "daemon"]
=============================================================================
