-------------------------- MODULE MCTokenApprovals --------------------------
(* Instances of TokenApprovals for TLC: the HTTP server and one CLI call.    *)
EXTENDS TokenApprovals, TLC

CONSTANTS a1, t1, t2, server, cli, voice, w1

MCIds1 == {a1}
MCOrigins == {voice}
MCWindows == {w1}
MCBoth == {server, cli}
MCThreads2 == {t1, t2}
MCTwoProcesses == t1 :> server @@ t2 :> cli
=============================================================================
