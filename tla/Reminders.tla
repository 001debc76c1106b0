----------------------------- MODULE Reminders -----------------------------
(***************************************************************************)
(* One-shot reminders (reminders.py, cli/reminders_cmd.py).  Schedulers    *)
(* read what is due, notify, and mark each row afterwards; users create,   *)
(* cancel and clear rows meanwhile.  A scheduler is the server's daemon    *)
(* thread, a `grandpa reminders watch` loop or one `run-due`; they share   *)
(* the table and nothing else.                                             *)
(*                                                                         *)
(* A tick is cut at every statement and at the notification.  Abstracted:  *)
(* the text of a reminder, how late it says it is, and the time stamps     *)
(* that nothing reads back.                                                *)
(***************************************************************************)
EXTENDS Integers, FiniteSets, FiniteSetsExt

CONSTANTS
  Ids,          \* reminder ids (uuid4: never reused)
  Schedulers,   \* who ticks
  Loops,        \* the schedulers that tick forever: the server's daemon
  Users,        \* callers that cancel
  Limit,        \* LIMIT of due_pending (25)
  MaxTime,      \* bound on the clock
  MaxCrashes,   \* bound on ticks cut short
  None          \* no reminder

ASSUME LoopsAssumption == Loops \subseteq Schedulers
ASSUME BoundsAssumption ==
  Limit \in Nat \ {0} /\ MaxTime \in Nat /\ MaxCrashes \in Nat
ASSUME NoneNotId == None \notin Ids
ASSUME SchedulersFinite == IsFiniteSet(Schedulers)

VARIABLES
  status,       \* of each reminder
  due,          \* its due_at
  now,          \* datetime.now(UTC)
  batch,        \* what each scheduler's tick has read and not reached yet
  current,      \* what it has just notified, not marked yet
  outcome,      \* what the notifier answered
  cancelling,   \* the reminder each user's cancel has found pending
  delivered,    \* how often each reminder was delivered, by whomever
  cuts,         \* how often a tick was cut between notifying it and marking it
  contested,    \* how often it was read while another tick had it in hand
  crashes       \* how many ticks were cut short

\* History: no guard reads it but the bound on crashes.
tally == <<delivered, cuts, contested, crashes>>

vars == <<status, due, now, batch, current, outcome, cancelling, tally>>

Closed == {"triggered", "failed", "cancelled"}

TypeOK ==
  /\ status \in [Ids -> Closed \cup {"absent", "pending", "deleted"}]
  /\ due \in [Ids -> 0..MaxTime]
  /\ now \in 0..MaxTime
  /\ batch \in [Schedulers -> SUBSET Ids]
  /\ current \in [Schedulers -> Ids \cup {None}]
  /\ outcome \in [Schedulers -> {"triggered", "failed"}]
  /\ cancelling \in [Users -> Ids \cup {None}]
  /\ delivered \in [Ids -> Nat]
  /\ cuts \in [Ids -> Nat]
  /\ contested \in [Ids -> Nat]
  /\ crashes \in 0..MaxCrashes

Init == /\ status = [i \in Ids |-> "absent"]
        /\ due = [i \in Ids |-> 0]
        /\ now = 0
        /\ batch = [s \in Schedulers |-> {}]
        /\ current = [s \in Schedulers |-> None]
        /\ outcome = [s \in Schedulers |-> "failed"]
        /\ cancelling = [u \in Users |-> None]
        /\ delivered = [i \in Ids |-> 0]
        /\ cuts = [i \in Ids |-> 0]
        /\ contested = [i \in Ids |-> 0]
        /\ crashes = 0

Exists(i) == status[i] \notin {"absent", "deleted"}

(***************************************************************************)
(* The store.                                                              *)
(***************************************************************************)
Create(i, d) ==
  /\ status[i] = "absent"
  /\ status' = [status EXCEPT ![i] = "pending"]
  /\ due' = [due EXCEPT ![i] = d]
  /\ UNCHANGED <<now, batch, current, outcome, cancelling, tally>>

\* Mutant of SetStatus: marking brings a deleted row back.
SetStatusUpsert(i, s) == status' = [status EXCEPT ![i] = s]

\* UPDATE ... WHERE id = ?, whatever the row's status is by now.
SetStatus(i, s) ==
  status' = IF Exists(i) THEN [status EXCEPT ![i] = s] ELSE status

\* cancel: the status is read and then set by a statement that ignores it.
CancelRead(u, i) ==
  /\ cancelling[u] = None
  /\ status[i] = "pending"
  /\ cancelling' = [cancelling EXCEPT ![u] = i]
  /\ UNCHANGED <<status, due, now, batch, current, outcome, tally>>

CancelSet(u) ==
  /\ cancelling[u] # None
  /\ SetStatus(cancelling[u], "cancelled")
  /\ cancelling' = [cancelling EXCEPT ![u] = None]
  /\ UNCHANGED <<due, now, batch, current, outcome, tally>>

\* reminders clear: the history, one status of it, or with --all everything.
Delete(S) ==
  /\ \E i \in Ids : status[i] \in S
  /\ status' = [i \in Ids |-> IF status[i] \in S THEN "deleted" ELSE status[i]]
  /\ UNCHANGED <<due, now, batch, current, outcome, cancelling, tally>>

Clearings == {{s} : s \in Closed} \cup {Closed, Closed \cup {"pending"}}

(***************************************************************************)
(* A tick.                                                                 *)
(***************************************************************************)
\* Mutant of DuePending: what is long overdue is not delivered any more.
DueRecently == {i \in Ids : status[i] = "pending" /\ due[i] = now}

DuePending == {i \in Ids : status[i] = "pending" /\ due[i] <= now}

\* ORDER BY due_at LIMIT n; ties fall either way.
Earliest(S, n) ==
  {T \in SUBSET S : /\ Cardinality(T) = Min({n, Cardinality(S)})
                    /\ \A i \in T, j \in S \ T : due[i] <= due[j]}

Resting(s) == batch[s] = {} /\ current[s] = None

\* A tick has read reminder i and not marked it yet.
InHand(i) == \E s \in Schedulers : i \in batch[s] \/ current[s] = i

\* Nothing in the row says that another scheduler has read it.
Read(s) ==
  /\ Resting(s)
  /\ DuePending # {}
  /\ \E T \in Earliest(DuePending, Limit) :
       /\ batch' = [batch EXCEPT ![s] = T]
       /\ contested' = [i \in Ids |-> IF i \in T /\ InHand(i) THEN contested[i] + 1
                                                           ELSE contested[i]]
  /\ UNCHANGED <<status, due, now, current, outcome, cancelling, delivered, cuts,
                 crashes>>

\* Mutant of Notify: a notification that fails is counted as sent.
NotifyOptimist(s, i, o) ==
  /\ i \in batch[s] /\ current[s] = None
  /\ \A j \in batch[s] : due[i] <= due[j]
  /\ batch' = [batch EXCEPT ![s] = @ \ {i}]
  /\ current' = [current EXCEPT ![s] = i]
  /\ outcome' = [outcome EXCEPT ![s] = "triggered"]
  /\ delivered' = IF o = "triggered" THEN [delivered EXCEPT ![i] = @ + 1]
                                     ELSE delivered
  /\ UNCHANGED <<status, due, now, cancelling, cuts, contested, crashes>>

Notify(s, i, o) ==
  /\ i \in batch[s] /\ current[s] = None
  /\ \A j \in batch[s] : due[i] <= due[j]
  /\ batch' = [batch EXCEPT ![s] = @ \ {i}]
  /\ current' = [current EXCEPT ![s] = i]
  /\ outcome' = [outcome EXCEPT ![s] = o]
  /\ delivered' = IF o = "triggered" THEN [delivered EXCEPT ![i] = @ + 1]
                                     ELSE delivered
  /\ UNCHANGED <<status, due, now, cancelling, cuts, contested, crashes>>

\* Mutant of Mark: a reminder delivered late is left as it is.
MarkOnTime(s, o) ==
  /\ current[s] # None
  /\ o \in {outcome[s], "failed"}
  /\ IF due[current[s]] = now THEN SetStatus(current[s], o) ELSE UNCHANGED status
  /\ current' = [current EXCEPT ![s] = None]
  /\ UNCHANGED <<due, now, batch, outcome, cancelling, tally>>

\* mark_triggered or mark_failed; a mark_triggered that raises is followed by
\* mark_failed.
Mark(s, o) ==
  /\ current[s] # None
  /\ o \in {outcome[s], "failed"}
  /\ SetStatus(current[s], o)
  /\ current' = [current EXCEPT ![s] = None]
  /\ UNCHANGED <<due, now, batch, outcome, cancelling, tally>>

\* The process ends, or the store raises out of the tick.
Crash(s) ==
  /\ ~Resting(s)
  /\ crashes < MaxCrashes
  /\ crashes' = crashes + 1
  /\ cuts' = [i \in Ids |-> IF current[s] = i THEN cuts[i] + 1 ELSE cuts[i]]
  /\ batch' = [batch EXCEPT ![s] = {}]
  /\ current' = [current EXCEPT ![s] = None]
  /\ UNCHANGED <<status, due, now, outcome, cancelling, delivered, contested>>

Tick == /\ now < MaxTime
        /\ now' = now + 1
        /\ UNCHANGED <<status, due, batch, current, outcome, cancelling, tally>>

Step(s) == \/ Read(s)
           \/ \E i \in Ids, o \in {"triggered", "failed"} : Notify(s, i, o)
           \/ \E o \in {"triggered", "failed"} : Mark(s, o)

Next == \/ \E i \in Ids, d \in 0..MaxTime : Create(i, d)
        \/ \E u \in Users : CancelSet(u) \/ \E i \in Ids : CancelRead(u, i)
        \/ \E S \in Clearings : Delete(S)
        \/ \E s \in Schedulers : Step(s) \/ Crash(s)
        \/ Tick

\* The daemon ticks, logs what a tick raised, waits its interval and ticks again,
\* and time passes.  `run-due` and `watch` tick while somebody runs them, and
\* nobody has to.
Fairness == WF_vars(Tick) /\ \A s \in Loops : WF_vars(Step(s))

Spec == Init /\ [][Next]_vars /\ Fairness
-----------------------------------------------------------------------------
\* A reminder is delivered once (tests/test_reminders.py,
\* test_due_reminder_triggers_exactly_once, which has one scheduler), however
\* late, whatever is cancelled, cleared or fails meanwhile.  Two things repeat a
\* delivery, each by one: a tick that ends between notifying and marking, and a
\* second scheduler that reads the reminder while the first has it in hand, for
\* the daemon and a `run-due` share the table and claim nothing.
RepeatsExplained ==
  \A i \in Ids : delivered[i] <= 1 + cuts[i] + contested[i]

\* A reminder that says it was triggered was delivered.
TriggeredWasDelivered ==
  \A i \in Ids : status[i] = "triggered" => delivered[i] > 0

\* "Nothing is dropped for being old": what is due does not stay pending, it is
\* delivered, or the notifier failed, or a user cancelled or cleared it.
DueIsHandled ==
  \A i \in Ids : (status[i] = "pending" /\ due[i] <= now) ~> status[i] # "pending"

\* What a user cleared is gone and does not come back into the lists.
ClearedStaysCleared ==
  [][\A i \in Ids : status[i] = "deleted" => status'[i] = "deleted"]_vars
=============================================================================
