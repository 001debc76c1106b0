------------------------------ MODULE Consent ------------------------------
(***************************************************************************)
(* What deferred consent promises (the three rules at the head of that     *)
(* section of pc_control.py, desktop/kernel/approvals.py): a question is   *)
(* put by one origin, at most one of an origin's questions is open, only   *)
(* that origin answers it, and the action is performed at most once and    *)
(* only if the answer was yes.  Nothing here says how.                     *)
(***************************************************************************)
CONSTANTS Ids, Origins, None

VARIABLES
  state,      \* of each question: unasked, open, granted, done or closed
  asker,      \* the origin that asked it
  answerer    \* the origin that said yes or no

consentVars == <<state, asker, answerer>>

Init == /\ state = [i \in Ids |-> "unasked"]
        /\ asker = [i \in Ids |-> None]
        /\ answerer = [i \in Ids |-> None]

OpenOf(o) == {i \in Ids : state[i] = "open" /\ asker[i] = o}

\* Asking closes whatever the same origin still had open, and may find
\* questions of anyone run out.
Ask(o, i) ==
  /\ state[i] = "unasked"
  /\ \E S \in SUBSET {j \in Ids : state[j] = "open"} :
       /\ OpenOf(o) \subseteq S
       /\ state' = [j \in Ids |-> IF j = i THEN "open"
                                  ELSE IF j \in S THEN "closed" ELSE state[j]]
  /\ asker' = [asker EXCEPT ![i] = o]
  /\ UNCHANGED answerer

\* Time runs out, the emergency stop, or a yes that came too late.
Close ==
  /\ \E S \in SUBSET {j \in Ids : state[j] = "open"} :
       state' = [j \in Ids |-> IF j \in S THEN "closed" ELSE state[j]]
  /\ UNCHANGED <<asker, answerer>>

Answer(i, verdict) ==
  /\ state[i] = "open"
  /\ state' = [state EXCEPT ![i] = verdict]
  /\ answerer' = [answerer EXCEPT ![i] = asker[i]]
  /\ UNCHANGED asker

Perform(i) ==
  /\ state[i] = "granted"
  /\ state' = [state EXCEPT ![i] = "done"]
  /\ UNCHANGED <<asker, answerer>>

Next == \/ \E i \in Ids : \/ \E o \in Origins : Ask(o, i)
                          \/ \E v \in {"granted", "closed"} : Answer(i, v)
                          \/ Perform(i)
        \/ Close

Spec == Init /\ [][Next]_consentVars
=============================================================================
