-------------------------- MODULE MCApprovalKernel --------------------------
(* The server: a voice command (/v1/voice/command), and a request that answers *)
(* by name or gives a code.                                                    *)
EXTENDS ApprovalKernel, TLC

CONSTANTS a1, a2, t1, t2, server, voice, http, w1

MCIds == {a1, a2}
MCOrigins == {voice, http}
MCVoice == {voice}
MCWindow == {w1}
MCThreads == {t1, t2}
MCProcesses == {server}
MCProcessOf == [t \in MCThreads |-> server]
MCOriginOf == t1 :> voice @@ t2 :> http

Symmetric == Permutations(MCIds)
=============================================================================
