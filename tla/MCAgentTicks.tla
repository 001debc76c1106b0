---------------------------- MODULE MCAgentTicks ----------------------------
(* The server's scheduler and a command of the command line.                 *)
EXTENDS AgentTicks, TLC

CONSTANTS a1, server, cli

MCAgents == {a1}
MCSchedulers == {server}
MCCommands == {cli}
=============================================================================
