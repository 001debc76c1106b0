------------------------- MODULE MCDeferredConsent -------------------------
(* Instances of DeferredConsent for TLC.                                     *)
EXTENDS DeferredConsent, TLC

CONSTANTS a1, a2, t1, t2, server, cli, voice, http, w1, w2

MCIds2 == {a1, a2}
MCOrigins == {voice, http}
MCVoice == {voice}
MCWindows == {w1, w2}
MCThreads2 == {t1, t2}
MCProcesses == {server, cli}
MCProcessOf == t1 :> cli @@ t2 :> server
MCTwoVoiceLoops == [t \in {t1, t2} |-> voice]

\* The two voice loops are alike, each with its own process.
LoopsSwapped == t1 :> t2 @@ t2 :> t1 @@ cli :> server @@ server :> cli

Symmetric ==
  Permutations(MCIds2) \cup Permutations(MCWindows) \cup {LoopsSwapped}
=============================================================================
