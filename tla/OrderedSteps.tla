---------------------------- MODULE OrderedSteps ----------------------------
(***************************************************************************)
(* What a planner and a workflow engine promise alike: work is done in the *)
(* order the dependencies ask for.  before[s] is what s waits for, and     *)
(* never changes.  A step may begin again (a retry) and may count as done  *)
(* without having begun (a dry run marks it so); neither happens before    *)
(* everything it waits for is done, and what is done stays done.           *)
(***************************************************************************)
CONSTANT Steps

VARIABLES before, began, done

orderedVars == <<before, began, done>>

OrderedInit == /\ before \in [Steps -> SUBSET Steps]
               /\ began = {} /\ done = {}

Free(s) == before[s] \subseteq done

Begin(s) == Free(s) /\ began' = began \cup {s} /\ UNCHANGED <<before, done>>

Finish(s) == Free(s) /\ done' = done \cup {s} /\ UNCHANGED <<before, began>>

OrderedNext == \E s \in Steps : Begin(s) \/ Finish(s)

OrderedSpec == OrderedInit /\ [][OrderedNext]_orderedVars
=============================================================================
