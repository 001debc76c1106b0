--------------------------- MODULE ScheduledTasks ---------------------------
(***************************************************************************)
(* Scheduled tasks (scheduler/scheduler.py, scheduler/store.py) and the    *)
(* operators that are run as such tasks (operators/manager.py).  A daemon  *)
(* polls for due tasks and runs them; callers create, pause, resume and    *)
(* cancel them, in the daemon's process or in one of their own.            *)
(*                                                                         *)
(* An edit reads a whole row and writes the whole row back: `_lock` makes  *)
(* the two one step for the threads of a process, and nothing does for two *)
(* processes.  Abstracted: prompts, tools and results; a cron expression   *)
(* is an interval.                                                         *)
(***************************************************************************)
EXTENDS Integers, FiniteSets

CONSTANTS
  Tasks,      \* task ids (uuid4: never reused)
  Once,       \* those of schedule_type "once"
  Operators,  \* the ids `operator:...`, one for each operator
  Daemons,    \* poll threads
  Callers,    \* callers of the API or the CLI
  Proc,       \* the process each of them runs in
  Period,     \* seconds of an interval, in ticks
  MaxTime,    \* bound on the clock
  MaxAborts,  \* bound on polls that end by an exception or with the process
  MaxRuns,    \* the count of a task's runs stops here
  None        \* NULL

Actors == Daemons \cup Callers

\* No operator is scheduled `once` (operators/loader.py, the manifests).
ASSUME TasksAssumption ==
  /\ Once \cup Operators \subseteq Tasks /\ Once \cap Operators = {}
  /\ None \notin Tasks
ASSUME ActorsAssumption == Daemons \cap Callers = {}
ASSUME BoundsAssumption ==
  /\ Period \in Nat \ {0} /\ MaxTime \in Nat
  /\ MaxAborts \in Nat /\ MaxRuns \in Nat /\ None \notin Nat

VARIABLES
  rows,       \* scheduled_tasks
  value,      \* schedule_value of a `once` task
  now,        \* the clock
  batch,      \* what each daemon's poll found due and has not started
  running,    \* the task each daemon is executing
  copy,       \* the edited row each actor is about to write, with the lock or not
  activating, \* the operator a caller has found not active
  runs,       \* how often each task was started
  wanted,     \* the last status a caller gave a task
  aborts      \* polls that ended early

vars == <<rows, value, now, batch, running, copy, activating, runs,
          wanted, aborts>>
history == <<runs, wanted, aborts>>

Times == 0..(MaxTime + Period)
Statuses == {"active", "paused", "completed", "cancelled"}
Row == [status : Statuses \cup {"absent"}, next : Times \cup {None}, ran : BOOLEAN]
Absent == [status |-> "absent", next |-> None, ran |-> FALSE]
NoCopy == [id |-> None, row |-> Absent, locked |-> FALSE]
Copies == {NoCopy} \cup [id : Tasks, row : Row, locked : BOOLEAN]

TypeOK ==
  /\ rows \in [Tasks -> Row]
  /\ value \in [Tasks -> Times]
  /\ now \in 0..MaxTime
  /\ batch \in [Daemons -> SUBSET Tasks]
  /\ running \in [Daemons -> Tasks \cup {None}]
  /\ copy \in [Actors -> Copies]
  /\ activating \in [Callers -> Operators \cup {None}]
  /\ runs \in [Tasks -> 0..MaxRuns]
  /\ wanted \in [Tasks -> Statuses \cup {"absent"}]
  /\ aborts \in 0..MaxAborts

Init == /\ rows = [i \in Tasks |-> Absent]
        /\ value = [i \in Tasks |-> 0]
        /\ now = 0
        /\ batch = [d \in Daemons |-> {}]
        /\ running = [d \in Daemons |-> None]
        /\ copy = [a \in Actors |-> NoCopy]
        /\ activating = [c \in Callers |-> None]
        /\ runs = [i \in Tasks |-> 0]
        /\ wanted = [i \in Tasks |-> "absent"]
        /\ aborts = 0

(***************************************************************************)
(* A row and its edits.                                                    *)
(***************************************************************************)
\* Mutant of NextRun: a `once` task that has run is due at its time again.
NextRunAgain(i, r) == IF i \in Once THEN value[i] ELSE now + Period

\* _compute_next_run
NextRun(i, r) == IF i \notin Once THEN now + Period
                 ELSE IF r.ran THEN None ELSE value[i]

Paused(i, r) == [r EXCEPT !.status = "paused"]
Resumed(i, r) == [r EXCEPT !.status = "active", !.next = NextRun(i, r)]
Cancelled(i, r) == [r EXCEPT !.status = "cancelled", !.next = None]
Edits(i, r) == {Paused(i, r), Resumed(i, r), Cancelled(i, r)}

Finished(i, r) ==
  LET next == NextRun(i, [r EXCEPT !.ran = TRUE])
  IN [status |-> IF next = None THEN "completed" ELSE r.status,
      next |-> next, ran |-> TRUE]

\* Mutant of LockFree: a thread that edits a row takes no lock.
NoLock(a) == copy[a] = NoCopy

\* `with self._lock`: a is between calls, and nobody of its process is between
\* the read and the write of an edit.
LockFree(a) == /\ copy[a] = NoCopy
               /\ \A b \in Actors : Proc[b] = Proc[a] => ~copy[b].locked

\* `INSERT OR REPLACE` of a whole row.
Save(i, r) == rows' = [rows EXCEPT ![i] = r]

Hold(a, i, r, locked) ==
  copy' = [copy EXCEPT ![a] = [id |-> i, row |-> r, locked |-> locked]]

(***************************************************************************)
(* The callers.                                                            *)
(***************************************************************************)
CreateTask(c, i, v) ==
  /\ LockFree(c)
  /\ i \notin Operators /\ rows[i] = Absent
  /\ i \in Once \/ v = 0
  /\ value' = [value EXCEPT ![i] = v]
  /\ Save(i, [status |-> "active", ran |-> FALSE,
              next |-> IF i \in Once THEN v ELSE now + Period])
  /\ wanted' = [wanted EXCEPT ![i] = "active"]
  /\ UNCHANGED <<now, batch, running, copy, activating, runs, aborts>>

\* pause_task, resume_task, cancel_task up to their read; an id that is not
\* there is a KeyError.
EditRead(c, i) ==
  /\ LockFree(c)
  /\ rows[i] # Absent
  /\ \E r \in Edits(i, rows[i]) : Hold(c, i, r, TRUE)
  /\ UNCHANGED <<rows, value, now, batch, running, activating>>
  /\ UNCHANGED history

\* activate goes on if its list shows the operator's task as not active (and
\* while the bounded ids last).
ActivateCheck(c, o) ==
  /\ LockFree(c) /\ activating[c] = None
  /\ rows[o].status # "active"
  /\ \E i \in Tasks \ (Operators \cup Once) : rows[i] = Absent
  /\ activating' = [activating EXCEPT ![c] = o]
  /\ UNCHANGED <<rows, value, now, batch, running, copy>>
  /\ UNCHANGED history

\* It creates a task with a random id, and then saves the same task under the
\* operator's own id, without the lock; the first one stays.
ActivateCreate(c, i) ==
  /\ LockFree(c) /\ activating[c] # None
  /\ i \notin Operators \cup Once /\ rows[i] = Absent
  /\ LET r == [status |-> "active", next |-> now + Period, ran |-> FALSE]
     IN Save(i, r) /\ Hold(c, activating[c], r, FALSE)
  /\ wanted' = [wanted EXCEPT ![i] = "active"]
  /\ activating' = [activating EXCEPT ![c] = None]
  /\ UNCHANGED <<value, now, batch, running, runs, aborts>>

Write(c) ==
  /\ copy[c] # NoCopy
  /\ Save(copy[c].id, copy[c].row)
  /\ copy' = [copy EXCEPT ![c] = NoCopy]
  /\ wanted' = [wanted EXCEPT ![copy[c].id] = copy[c].row.status]
  /\ UNCHANGED <<value, now, batch, running, activating, runs, aborts>>

(***************************************************************************)
(* The daemon.                                                             *)
(***************************************************************************)
\* Mutant of Due: what was missed while the daemon was busy or down is not run.
DueNow == {i \in Tasks : rows[i].status = "active" /\ rows[i].next = now}

\* get_due_tasks
Due == {i \in Tasks : /\ rows[i].status = "active"
                      /\ rows[i].next # None
                      /\ rows[i].next <= now}

Poll(d) ==
  /\ LockFree(d) /\ batch[d] = {} /\ running[d] = None
  /\ Due # {}
  /\ batch' = [batch EXCEPT ![d] = Due]
  /\ UNCHANGED <<rows, value, now, running, copy, activating>>
  /\ UNCHANGED history

\* _execute_task up to its `ask`: the row is not looked at again.
Start(d, i) ==
  /\ running[d] = None
  /\ i \in batch[d]
  /\ batch' = [batch EXCEPT ![d] = @ \ {i}]
  /\ running' = [running EXCEPT ![d] = i]
  /\ runs' = [runs EXCEPT ![i] = IF @ < MaxRuns THEN @ + 1 ELSE @]
  /\ UNCHANGED <<rows, value, now, copy, activating, wanted, aborts>>

\* The run is logged and the row read again; _compute_next_run gives its next.
Finish(d) ==
  /\ running[d] # None
  /\ LockFree(d)
  /\ Hold(d, running[d], Finished(running[d], rows[running[d]]), TRUE)
  /\ UNCHANGED <<rows, value, now, batch, running, activating>>
  /\ UNCHANGED history

FinishWrite(d) ==
  /\ copy[d] # NoCopy
  /\ Save(copy[d].id, copy[d].row)
  /\ copy' = [copy EXCEPT ![d] = NoCopy]
  /\ running' = [running EXCEPT ![d] = None]
  /\ UNCHANGED <<value, now, batch, activating>>
  /\ UNCHANGED history

\* A statement or a subscriber raises and ends the poll, or the process ends
\* and is started again.
Abort(d) ==
  /\ batch[d] # {} \/ running[d] # None
  /\ aborts < MaxAborts
  /\ aborts' = aborts + 1
  /\ batch' = [batch EXCEPT ![d] = {}]
  /\ running' = [running EXCEPT ![d] = None]
  /\ copy' = [copy EXCEPT ![d] = NoCopy]
  /\ UNCHANGED <<rows, value, now, activating, runs, wanted>>

Tick == /\ now < MaxTime
        /\ now' = now + 1
        /\ UNCHANGED <<rows, value, batch, running, copy, activating>>
        /\ UNCHANGED history

Step(d) == Poll(d) \/ (\E i \in Tasks : Start(d, i)) \/ Finish(d) \/ FinishWrite(d)

\* A caller makes one call at a time.
Call(c) == /\ activating[c] = None
           /\ \/ \E i \in Tasks, v \in 0..MaxTime : CreateTask(c, i, v)
              \/ \E i \in Tasks : EditRead(c, i)
              \/ \E o \in Operators : ActivateCheck(c, o)

Next == \/ \E c \in Callers :
             Call(c) \/ (\E i \in Tasks : ActivateCreate(c, i)) \/ Write(c)
        \/ \E d \in Daemons : Step(d) \/ Abort(d)
        \/ Tick

\* The poll thread goes round until it is stopped, `ask` returns or raises, and
\* a call that holds the lock ends.  The thread that waits for the lock gets it
\* between the calls of the others: they do not follow each other without a gap.
Fairness == /\ WF_vars(Tick)
            /\ \A d \in Daemons : SF_vars(Step(d))
            /\ \A c \in Callers : WF_vars(Write(c))

Spec == Init /\ [][Next]_vars /\ Fairness
-----------------------------------------------------------------------------
\* "Run once at that timestamp" (docs/user-guide/scheduler.md:14): a `once` task
\* is started once, plus once for every poll that ended before it was recorded.
OnceRunsOnce == \A i \in Once : runs[i] <= 1 + aborts

\* No edit is lost: a task has the status its last caller gave it, unless it was
\* a `once` task that has run meanwhile.
EditsKept ==
  \A i \in Tasks \ Operators :
    \/ rows[i].status = wanted[i]
    \/ i \in Once /\ rows[i].status = "completed"

Overdue(i) ==
  rows[i].status = "active" /\ rows[i].next # None /\ rows[i].next <= now

\* A task that is due does not stay so: it is run, or paused or cancelled,
\* however late the daemon gets to it.
DueIsRun == \A i \in Tasks : Overdue(i) ~> ~Overdue(i)
=============================================================================
