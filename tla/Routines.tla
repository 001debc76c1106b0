------------------------------ MODULE Routines ------------------------------
(***************************************************************************)
(* Routines and recurring reminders (task_scheduler.py, run by             *)
(* scheduler_daemon.py).  A tick claims what is due, which moves its next  *)
(* run on, and then delivers what it claimed: a reminder is a notification *)
(* row, a routine is a run of its actions.                                 *)
(*                                                                         *)
(* A claim is a SELECT and, in a transaction of its own, an UPDATE by id:  *)
(* `_lock` of the daemon keeps the ticks of one process apart and nothing  *)
(* keeps those of two.  Abstracted: what a routine's actions do, the       *)
(* phrases, the activity log; a routine has the one schedule the phrases   *)
(* can give it.                                                            *)
(***************************************************************************)
EXTENDS Integers, FiniteSets

CONSTANTS
  Routines,       \* names of routines, unique in their table
  Reminders,      \* ids of recurring reminders, never reused
  Daily,          \* the routines with a schedule: "morning routine"
  Day,            \* length of a day, in ticks of the clock
  Runners,        \* processes that host a daemon
  Callers,        \* HTTP requests, chats and commands that edit the tables
  RoutineLimit,   \* LIMIT of a claim of routines, 5
  ReminderLimit,  \* LIMIT of a claim of reminders, 10
  MaxTime,        \* bound on the clock
  MaxCuts,        \* bound on ticks that end by an exception or the process
  None            \* NULL

Items == Routines \cup Reminders

ASSUME ItemsAssumption ==
  Daily \subseteq Routines /\ Routines \cap Reminders = {} /\ None \notin Items
ASSUME ActorsAssumption ==
  IsFiniteSet(Runners) /\ Runners \cap Callers = {} /\ None \notin Runners \cup Callers
ASSUME BoundsAssumption ==
  /\ {Day, RoutineLimit, ReminderLimit} \subseteq Nat \ {0}
  /\ MaxTime \in Nat /\ MaxCuts \in Nat /\ None \notin Nat

VARIABLES
  rows,       \* routines and reminders
  now,        \* the clock
  pc,         \* where each runner's tick stands
  at,         \* the tick's `now`, read when it began
  picked,     \* what its SELECT returned: the run time of each row
  hand,       \* what it claimed and has not delivered
  busy,       \* the routine whose actions it runs
  edit,       \* the edit each caller has prepared and not written
  \* history
  claims,     \* how often each run time of an item was claimed
  told,       \* and delivered
  late,       \* writes somebody prepared for an item whose next run has changed since
  overtaken,  \* and how many of those were made
  wanted,     \* what the last edit said about an item's being enabled
  cuts        \* ticks that ended early

vars == <<rows, now, pc, at, picked, hand, busy, edit, claims, told, late,
          overtaken, wanted, cuts>>
tick == <<pc, at, picked, hand, busy>>

Times == 0..(MaxTime + Day)
Row == [status : {"absent", "new", "running", "done", "deleted"},
        enabled : BOOLEAN, next : Times \cup {None}]
Absent == [status |-> "absent", enabled |-> FALSE, next |-> None]
NoEdit == [id |-> None, enabled |-> FALSE, next |-> None]
Nothing == [i \in {} |-> None]

There(i) == rows[i].status \notin {"absent", "deleted"}

Init == /\ rows = [i \in Items |-> Absent]
        /\ now = 0
        /\ pc = [r \in Runners |-> "idle"]
        /\ at = [r \in Runners |-> 0]
        /\ picked = [r \in Runners |-> Nothing]
        /\ hand = [r \in Runners |-> Nothing]
        /\ busy = [r \in Runners |-> None]
        /\ edit = [c \in Callers |-> NoEdit]
        /\ claims = [i \in Items |-> [t \in Times |-> 0]]
        /\ told = [i \in Items |-> [t \in Times |-> 0]]
        /\ late = {}
        /\ overtaken = [i \in Items |-> 0]
        /\ wanted = [i \in Items |-> FALSE]
        /\ cuts = 0

(***************************************************************************)
(* _next_run_timestamp: the next start of a day, or a minute from now.     *)
(***************************************************************************)
\* Mutant of NextDaily: `if candidate < now` for `if candidate <= now`.
NextDailyOrNow(t) == ((t + Day - 1) \div Day) * Day

NextDaily(t) == (t \div Day + 1) * Day

NextRun(i, t) == IF i \in Daily THEN NextDaily(t)
                 ELSE IF i \in Reminders THEN t + 1 ELSE None

(***************************************************************************)
(* A caller holds a row to write, and a tick what its SELECT returned: a   *)
(* write of somebody else's that changes the next run overtakes both.      *)
(***************************************************************************)
Pending(a, i) == \/ a \in Runners /\ i \in DOMAIN picked[a]
                 \/ a \in Callers /\ edit[a].id = i

\* `a` is done with what it held, and has written to `rows` or given up.
Overtakes(a) ==
  late' = {p \in (Runners \cup Callers) \X Items :
             /\ p[1] # a
             /\ \/ p \in late
                \/ Pending(p[1], p[2]) /\ rows'[p[2]].next # rows[p[2]].next}

(***************************************************************************)
(* Edits.                                                                  *)
(***************************************************************************)
\* set_routine_enabled reads the row and computes the next run; upsert_routine
\* computes it for a row that may not be there yet.
Prepare(c, i, on) ==
  /\ edit[c] = NoEdit
  /\ rows[i] # Absent \/ on
  /\ edit' = [edit EXCEPT ![c] =
       [id |-> i, enabled |-> on,
        next |-> IF on THEN NextRun(i, now) ELSE None]]
  /\ UNCHANGED <<rows, now, tick, claims, told, late, overtaken, wanted, cuts>>

\* last_status survives the UPDATE, and the ON CONFLICT of the upsert.
Write(c) ==
  /\ edit[c] # NoEdit
  /\ LET e == edit[c]
     IN /\ rows' = [rows EXCEPT ![e.id] =
              [status |-> IF @ = Absent THEN "new" ELSE @.status,
               enabled |-> e.enabled, next |-> e.next]]
        /\ wanted' = [wanted EXCEPT ![e.id] = e.enabled]
        /\ overtaken' = [overtaken EXCEPT ![e.id] =
                           IF <<c, e.id>> \in late THEN @ + 1 ELSE @]
  /\ Overtakes(c)
  /\ edit' = [edit EXCEPT ![c] = NoEdit]
  /\ UNCHANGED <<now, tick, claims, told, cuts>>

AddReminder(i) ==
  /\ rows[i] = Absent
  /\ rows' = [rows EXCEPT ![i] =
                [status |-> "new", enabled |-> TRUE, next |-> NextRun(i, now)]]
  /\ wanted' = [wanted EXCEPT ![i] = TRUE]
  /\ UNCHANGED <<now, tick, edit, claims, told, late, overtaken, cuts>>

\* `grandpa reminders cancel` turns a reminder off and leaves its next run.
CancelReminder(i) ==
  /\ There(i)
  /\ rows' = [rows EXCEPT ![i].enabled = FALSE]
  /\ wanted' = [wanted EXCEPT ![i] = FALSE]
  /\ UNCHANGED <<now, tick, edit, claims, told, late, overtaken, cuts>>

\* `grandpa reminders clear --all`.
DeleteReminder(i) ==
  /\ There(i)
  /\ rows' = [rows EXCEPT ![i] = [Absent EXCEPT !.status = "deleted"]]
  /\ Overtakes(None)
  /\ wanted' = [wanted EXCEPT ![i] = FALSE]
  /\ UNCHANGED <<now, tick, edit, claims, told, overtaken, cuts>>

(***************************************************************************)
(* A tick: claim_due_reminders, claim_due_routines, then the deliveries.   *)
(***************************************************************************)
Claimed(r) == IF pc[r] = "idle" THEN Reminders ELSE Routines
Limit(r) == IF Claimed(r) = Reminders THEN ReminderLimit ELSE RoutineLimit

Due(i, t) == rows[i].enabled /\ rows[i].next # None /\ rows[i].next <= t

\* WHERE due ORDER BY next_run_at ASC LIMIT n.  A tick reads the clock once,
\* before its first SELECT; with nothing found there is no UPDATE.
Select(r, S) ==
  /\ pc[r] \in {"idle", "routines"}
  /\ at' = [at EXCEPT ![r] = IF pc[r] = "idle" THEN now ELSE @]
  /\ LET due == {i \in Claimed(r) : Due(i, at'[r])}
     IN /\ S \subseteq due
        /\ S = due \/ Cardinality(S) = Limit(r)
        /\ Cardinality(S) <= Limit(r)
        /\ \A i \in S, j \in due \ S : rows[i].next <= rows[j].next
  /\ picked' = [picked EXCEPT ![r] = [i \in S |-> rows[i].next]]
  /\ pc' = [pc EXCEPT ![r] = 
       IF @ = "idle" THEN IF S # {} THEN "claim_reminders" ELSE "routines"
                     ELSE IF S # {} THEN "claim_routines" ELSE "deliver"]
  /\ UNCHANGED <<rows, now, hand, busy, edit, claims, told, late, overtaken, wanted, cuts>>

\* Mutant of Advanced: the whole of the row read is written back.
AdvancedWhole(r, i) ==
  [status |-> IF i \in Routines THEN "running" ELSE "done", enabled |-> TRUE,
   next |-> NextRun(i, at[r])]

\* The row after the UPDATE ... WHERE id = ?: `enabled` is not written.
Advanced(r, i) ==
  [rows[i] EXCEPT !.status = IF i \in Routines THEN "running" ELSE "done",
                  !.next = NextRun(i, at[r])]

\* Mutant of Taken: the second claim takes the place of the first.
TakenLast(r) == picked[r]

\* What the tick is to deliver once the UPDATE is through.
Taken(r) == [i \in DOMAIN hand[r] \cup DOMAIN picked[r] |->
               IF i \in DOMAIN picked[r] THEN picked[r][i] ELSE hand[r][i]]

Claim(r) ==
  /\ pc[r] \in {"claim_reminders", "claim_routines"}
  /\ LET S == DOMAIN picked[r]
     IN /\ rows' = [i \in Items |-> IF i \in S /\ There(i)
                                    THEN Advanced(r, i) ELSE rows[i]]
        /\ overtaken' = [i \in Items |->
                           IF i \in S /\ <<r, i>> \in late
                           THEN overtaken[i] + 1 ELSE overtaken[i]]
        /\ claims' = [i \in Items |-> [t \in Times |->
                        IF i \in S /\ picked[r][i] = t THEN claims[i][t] + 1
                                                      ELSE claims[i][t]]]
        /\ hand' = [hand EXCEPT ![r] = Taken(r)]
  /\ Overtakes(r)
  /\ picked' = [picked EXCEPT ![r] = Nothing]
  /\ pc' = [pc EXCEPT ![r] = IF @ = "claim_reminders" THEN "routines" ELSE "deliver"]
  /\ UNCHANGED <<now, at, busy, edit, told, wanted, cuts>>

Without(f, i) == [j \in DOMAIN f \ {i} |-> f[j]]
Tell(r, i) == /\ told' = [told EXCEPT ![i][hand[r][i]] = @ + 1]
              /\ hand' = [hand EXCEPT ![r] = Without(@, i)]

\* The reminders come first.  add_notification is the delivery.
Remind(r, i) ==
  /\ pc[r] = "deliver"
  /\ i \in DOMAIN hand[r] \cap Reminders
  /\ Tell(r, i)
  /\ UNCHANGED <<rows, now, pc, at, picked, busy, edit, claims, late, overtaken, wanted, cuts>>

\* _run_routine looks at the row that was read, which was enabled then.
RunRoutine(r, i) ==
  /\ pc[r] = "deliver" /\ busy[r] = None
  /\ DOMAIN hand[r] \subseteq Routines
  /\ i \in DOMAIN hand[r]
  /\ Tell(r, i)
  /\ busy' = [busy EXCEPT ![r] = i]
  /\ UNCHANGED <<rows, now, pc, at, picked, edit, claims, late, overtaken, wanted, cuts>>

\* Mutant of Complete: a run that only staged approvals returns early.
CompleteHandled(r, outcome) ==
  /\ busy[r] # None
  /\ rows' = [rows EXCEPT ![busy[r]].status =
                IF outcome = "handled" THEN "done" ELSE @]
  /\ busy' = [busy EXCEPT ![r] = None]
  /\ UNCHANGED <<now, pc, at, picked, hand, edit, claims, told, late, overtaken, wanted, cuts>>

\* complete_routine writes whatever the run came to, and notifies.
Complete(r, outcome) ==
  /\ busy[r] # None
  /\ rows' = [rows EXCEPT ![busy[r]].status = "done"]
  /\ busy' = [busy EXCEPT ![r] = None]
  /\ UNCHANGED <<now, pc, at, picked, hand, edit, claims, told, late, overtaken, wanted, cuts>>

EndTick(r) ==
  /\ pc[r] = "deliver" /\ busy[r] = None /\ DOMAIN hand[r] = {}
  /\ pc' = [pc EXCEPT ![r] = "idle"]
  /\ at' = [at EXCEPT ![r] = 0]
  /\ UNCHANGED <<rows, now, picked, hand, busy, edit, claims, told, late, overtaken, wanted, cuts>>

\* A step raises, or the process ends and is started again: what was claimed
\* and not delivered is gone with the tick.
CutShort(r) ==
  /\ pc[r] # "idle"
  /\ cuts < MaxCuts
  /\ cuts' = cuts + 1
  /\ pc' = [pc EXCEPT ![r] = "idle"]
  /\ at' = [at EXCEPT ![r] = 0]
  /\ picked' = [picked EXCEPT ![r] = Nothing]
  /\ hand' = [hand EXCEPT ![r] = Nothing]
  /\ busy' = [busy EXCEPT ![r] = None]
  /\ UNCHANGED <<rows, now, edit, claims, told, overtaken, wanted>>
  /\ Overtakes(r)

PassTime == /\ now < MaxTime
            /\ now' = now + 1
            /\ UNCHANGED <<rows, tick, edit, claims, told, late, overtaken, wanted, cuts>>

Step(r) ==
  \/ Claim(r) \/ EndTick(r)
  \/ \E S \in SUBSET Claimed(r) : Select(r, S)
  \/ \E i \in Reminders : Remind(r, i)
  \/ \E i \in Routines : RunRoutine(r, i)
  \/ \E o \in {"handled", "requires_confirmation"} : Complete(r, o)

Next ==
  \/ \E r \in Runners : Step(r) \/ CutShort(r)
  \/ \E c \in Callers : \/ \E i \in Routines, on \in BOOLEAN : Prepare(c, i, on)
                        \/ Write(c)
  \/ \E i \in Reminders : AddReminder(i) \/ CancelReminder(i) \/ DeleteReminder(i)
  \/ PassTime

Spec == Init /\ [][Next]_vars
-----------------------------------------------------------------------------
TypeOK ==
  /\ rows \in [Items -> Row]
  /\ now \in 0..MaxTime
  /\ \A r \in Runners : /\ busy[r] \in Routines \cup {None}
                        /\ DOMAIN hand[r] \subseteq Items

\* A run that was due is delivered once, and once more at most for every write
\* that was overtaken: a claim that another process's claim, or an edit, came
\* before, or an edit that a claim came before (task_scheduler.py:307).
RepeatedOnlyIfOvertaken ==
  \A i \in Items, t \in Times : told[i][t] <= 1 + overtaken[i]

\* Next runs are moved on before anything is delivered, so what was claimed is
\* nowhere else: only a tick that was cut short loses it, and every other one
\* delivers each reminder and each routine it claimed (task_scheduler.py:676).
Holders(i, t) == {r \in Runners : i \in DOMAIN hand[r] /\ hand[r][i] = t}

LostOnlyByCut ==
  cuts = 0 =>
    \A i \in Items, t \in Times :
      claims[i][t] = told[i][t] + Cardinality(Holders(i, t))

\* A routine that says it is running is being run, or is about to be, unless a
\* tick was cut short (task_scheduler.py:330, :697).
RunningIsRun ==
  \A i \in Routines :
    rows[i].status = "running" =>
      cuts > 0 \/ \E r \in Runners : busy[r] = i \/ i \in DOMAIN hand[r]

\* Whatever claims run meanwhile, an item is enabled if and only if its last
\* edit said so, and one that is enabled and scheduled has a next run.
EditsKept ==
  \A i \in Items :
    /\ rows[i].enabled = wanted[i]
    /\ rows[i].enabled /\ i \in Daily \cup Reminders => rows[i].next # None
=============================================================================
