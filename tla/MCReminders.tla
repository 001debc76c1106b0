---------------------------- MODULE MCReminders ----------------------------
(* The server's daemon, beside a `run-due` of the command line.     *)
EXTENDS Reminders, TLC

CONSTANTS r1, r2, daemon, runDue, user

MCIds2 == {r1, r2}
MCDaemon == {daemon}
MCBoth == {daemon, runDue}
MCUsers == {user}
=============================================================================
