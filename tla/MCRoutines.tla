----------------------------- MODULE MCRoutines -----------------------------
(* Two servers with a daemon each over one scheduler.db.                     *)
EXTENDS Routines, TLC

CONSTANTS morning, pill, r1, r2, c1

MCRoutines == {morning}
MCReminders == {pill}
MCRunners == {r1, r2}
MCCallers == {c1}

Symmetric == Permutations(MCRunners)
=============================================================================
