-------------------------- MODULE MCPatchProposals --------------------------
(***************************************************************************)
(* A proposal for two files over two terminals, which apply one at a time. *)
(***************************************************************************)
EXTENDS PatchProposals, TLC

CONSTANTS fix, main, test, t1, t2

MCProposals == {fix}
MCFiles == {main, test}
MCChanges == fix :> <<main, test>>
MCTerminals == {t1, t2}

Symmetric == Permutations(MCTerminals)
=============================================================================
