-------------------------- MODULE MCExecutivePlan --------------------------
(* Two steps in a chain: save after a yes, then open a window (tried twice); *)
(* and two terminals.                                                        *)
EXTENDS ExecutivePlan, TLC

CONSTANTS t1, t2

MCSteps == 1 .. 2
MCChain == [s \in MCSteps |-> {s - 1} \ {0}]
MCSave == {1}
MCOpenTwice == 1 :> 1 @@ 2 :> 2
MCOneRecovery == [s \in MCSteps |-> 1]
MCTerminals == {t1, t2}

Symmetric == Permutations(MCTerminals)
=============================================================================
