------------------------ MODULE ScheduledTasksProofs ------------------------
(***************************************************************************)
(* What `_lock` guarantees when all callers are in the daemon's process,   *)
(* for any tasks and callers: no edit and no end of a run lose each other, *)
(* and a `once` task runs once for each poll that was not cut short.       *)
(*                                                                         *)
(* In another process neither holds: `grandpa scheduler` reads and writes  *)
(* whole rows beside the daemon (see the README).                          *)
(***************************************************************************)
EXTENDS ScheduledTasks, TLAPS

\* One scheduler: everybody takes the same lock.
OneProcess == \A a, b \in Actors : Proc[a] = Proc[b]

\* `start` makes no second poll thread.
OneDaemon == \A d, e \in Daemons : d = e

-----------------------------------------------------------------------------
(***************************************************************************)
(* The invariant of the edits.                                             *)
(***************************************************************************)
LockOK == \A a, b \in Actors : copy[a].locked /\ copy[b].locked => a = b

\* A row about to be written under the lock was made from the row that is still
\* there; the one write without the lock is of an operator's task.
CopyOK(a) ==
  copy[a] # NoCopy =>
    LET i == copy[a].id
        r == copy[a].row
    IN /\ a \in Daemons =>
            /\ copy[a].locked /\ running[a] = i
            /\ r.ran /\ (i \in Once => r.next = None)
            /\ \/ i \in Operators \/ r.status = rows[i].status
               \/ i \in Once /\ r.status = "completed"
       /\ a \in Callers =>
            /\ ~copy[a].locked => i \in Operators
            /\ i \in Once => r.ran = rows[i].ran /\ (r.ran => r.next = None)

\* A `once` task that has run has no next run.
RanOK == \A i \in Once : rows[i].ran => rows[i].next = None

EditsInv == /\ TypeOK /\ LockOK /\ RanOK /\ EditsKept
            /\ \A a \in Actors : CopyOK(a)

-----------------------------------------------------------------------------
(***************************************************************************)
(* Rows.                                                                   *)
(***************************************************************************)
LEMMA AbsentIsRow == Absent \in Row /\ NoCopy \in Copies /\ ~NoCopy.locked
BY DEF Absent, Row, NoCopy, Copies

LEMMA TimeIsTime ==
  ASSUME TypeOK
  PROVE  /\ now + Period \in Times /\ now + Period # None
         /\ \A v \in 0 .. MaxTime : v \in Times
         /\ \A t \in Times : t # None
BY BoundsAssumption DEF TypeOK, Times

LEMMA NextRunIsTime ==
  ASSUME TypeOK, NEW i \in Tasks, NEW r \in Row
  PROVE  /\ NextRun(i, r) \in Times \cup {None}
         /\ i \in Once /\ r.ran => NextRun(i, r) = None
         /\ i \notin Once => NextRun(i, r) # None
BY TimeIsTime DEF NextRun, TypeOK

\* What an edit makes of a row.
LEMMA EditsAreRows ==
  ASSUME TypeOK, NEW i \in Tasks, NEW r \in Row, NEW e \in Edits(i, r)
  PROVE  /\ e \in Row /\ e.ran = r.ran
         /\ i \in Once /\ (r.ran => r.next = None) => (e.ran => e.next = None)
<1>1. NextRun(i, r) \in Times \cup {None} /\ (i \in Once /\ r.ran => NextRun(i, r) = None)
  BY NextRunIsTime
<1>2. CASE e = Paused(i, r)
  BY <1>2 DEF Paused, Row, Statuses
<1>3. CASE e = Resumed(i, r)
  BY <1>1, <1>3 DEF Resumed, Row, Statuses
<1>4. CASE e = Cancelled(i, r)
  BY <1>4 DEF Cancelled, Row, Statuses
<1> QED
  BY <1>2, <1>3, <1>4 DEF Edits

\* What the end of a run makes of a row.
LEMMA FinishedIsRow ==
  ASSUME TypeOK, NEW i \in Tasks, NEW r \in Row
  PROVE  LET e == Finished(i, r)
         IN /\ e \in Row /\ e.ran /\ (i \in Once => e.next = None)
            /\ e.status = r.status \/ (i \in Once /\ e.status = "completed")
<1> DEFINE q == [r EXCEPT !.ran = TRUE]
           n == NextRun(i, q)
<1>1. q \in Row /\ q.ran
  BY DEF Row
<1> HIDE DEF q
<1>2. n \in Times \cup {None} /\ (i \in Once => n = None) /\ (i \notin Once => n # None)
  BY <1>1, NextRunIsTime
<1>3. Finished(i, r) = [status |-> IF n = None THEN "completed" ELSE r.status,
                        next |-> n, ran |-> TRUE]
  BY DEF Finished, q
<1> HIDE DEF n
<1> QED
  BY <1>2, <1>3 DEF Row, Statuses

\* `with self._lock`, when everybody takes the same one.
LEMMA LockIsFree ==
  ASSUME OneProcess, NEW a \in Actors, LockFree(a)
  PROVE  \A b \in Actors : ~copy[b].locked
BY DEF OneProcess, LockFree

LEMMA EditsInit == Init => EditsInv
<1> SUFFICES ASSUME Init PROVE EditsInv
  OBVIOUS
<1> USE DEF Init
<1>1. TypeOK
  BY AbsentIsRow, BoundsAssumption, TasksAssumption DEF TypeOK, Times, Statuses
<1>2. LockOK
  BY AbsentIsRow DEF LockOK
<1>3. RanOK
  BY TasksAssumption DEF RanOK, Absent
<1>4. EditsKept
  BY DEF EditsKept, Absent
<1>5. \A a \in Actors : CopyOK(a)
  BY DEF CopyOK
<1> QED
  BY <1>1, <1>2, <1>3, <1>4, <1>5 DEF EditsInv

-----------------------------------------------------------------------------
(***************************************************************************)
(* Its steps.                                                              *)
(***************************************************************************)
\* The rows stay, and so do the copies; no daemon that holds one leaves its task.
LEMMA EditsQuiet ==
  ASSUME EditsInv, TypeOK', rows' = rows, copy' = copy, wanted' = wanted,
         \A d \in Daemons : copy[d] # NoCopy => running'[d] = running[d]
  PROVE  EditsInv'
<1>1. LockOK' /\ RanOK' /\ EditsKept'
  BY DEF EditsInv, LockOK, RanOK, EditsKept
<1>2. ASSUME NEW a \in Actors PROVE CopyOK(a)'
  BY DEF EditsInv, CopyOK
<1> QED
  BY <1>1, <1>2 DEF EditsInv

LEMMA TasksTypesStep == ASSUME EditsInv, Next PROVE TypeOK'
<1> DEFINE P == TypeOK'
<1>a. /\ rows \in [Tasks -> Row] /\ value \in [Tasks -> Times] /\ now \in 0 .. MaxTime
      /\ batch \in [Daemons -> SUBSET Tasks] /\ running \in [Daemons -> Tasks \cup {None}]
      /\ copy \in [Actors -> Copies] /\ activating \in [Callers -> Operators \cup {None}]
      /\ runs \in [Tasks -> 0 .. MaxRuns] /\ wanted \in [Tasks -> Statuses \cup {"absent"}]
      /\ aborts \in 0 .. MaxAborts /\ TypeOK
      /\ Operators \subseteq Tasks /\ Callers \subseteq Actors /\ Daemons \subseteq Actors
  BY TasksAssumption DEF EditsInv, TypeOK, Actors
<1>b. ASSUME NEW a \in Actors, NEW i \in Tasks, NEW r \in Row, NEW l \in BOOLEAN, Hold(a, i, r, l)
      PROVE  copy' \in [Actors -> Copies]
  <2>1. [id |-> i, row |-> r, locked |-> l] \in Copies
    BY DEF Copies
  <2> QED
    BY <1>b, <2>1, <1>a DEF Hold
<1>c. \A a \in Actors : copy[a] # NoCopy => copy[a].id \in Tasks /\ copy[a].row \in Row
  BY <1>a DEF Copies
<1>1. ASSUME NEW c \in Callers, NEW i \in Tasks, NEW v \in 0 .. MaxTime, CreateTask(c, i, v) PROVE P
  <2> DEFINE r == [status |-> "active", ran |-> FALSE, next |-> IF i \in Once THEN v ELSE now + Period]
  <2>1. v \in Times /\ r \in Row
    BY <1>a, TimeIsTime DEF Row, Statuses
  <2>2. rows' = [rows EXCEPT ![i] = r] /\ value' = [value EXCEPT ![i] = v]
    BY <1>1 DEF CreateTask, Save
  <2> HIDE DEF r
  <2> QED
    BY <1>1, <2>1, <2>2, <1>a DEF CreateTask, TypeOK, Statuses
<1>2. ASSUME NEW c \in Callers, NEW i \in Tasks, EditRead(c, i) PROVE P
  <2>1. PICK r \in Edits(i, rows[i]) : Hold(c, i, r, TRUE)
    BY <1>2 DEF EditRead
  <2>2. r \in Row
    BY <1>a, EditsAreRows
  <2> QED
    BY <1>2, <2>1, <2>2, <1>a, <1>b DEF EditRead, TypeOK, history
<1>3. ASSUME NEW c \in Callers, NEW o \in Operators, ActivateCheck(c, o) PROVE P
  BY <1>3, <1>a DEF ActivateCheck, TypeOK, history
<1>4. ASSUME NEW c \in Callers, NEW i \in Tasks, ActivateCreate(c, i) PROVE P
  <2> DEFINE r == [status |-> "active", next |-> now + Period, ran |-> FALSE]
  <2>1. r \in Row
    BY <1>a, TimeIsTime DEF Row, Statuses
  <2>2. Save(i, r) /\ Hold(c, activating[c], r, FALSE) /\ activating[c] \in Operators
    BY <1>4, <1>a DEF ActivateCreate
  <2> HIDE DEF r
  <2> QED
    <3>1. rows' \in [Tasks -> Row]
      BY <2>1, <2>2, <1>a DEF Save
    <3>2. wanted' \in [Tasks -> Statuses \cup {"absent"}]
      BY <1>4, <1>a DEF ActivateCreate, Statuses
    <3>3. copy' \in [Actors -> Copies]
      BY <2>1, <2>2, <1>a, <1>b
    <3>4. activating' \in [Callers -> Operators \cup {None}]
      BY <1>4, <1>a DEF ActivateCreate
    <3> QED
      BY <1>4, <3>1, <3>2, <3>3, <3>4, <1>a DEF ActivateCreate, TypeOK
<1>5. ASSUME NEW c \in Callers, Write(c) PROVE P
  <2>1. copy[c].row.status \in Statuses \cup {"absent"} /\ copy[c].id \in Tasks /\ copy[c].row \in Row
    BY <1>5, <1>a, <1>c DEF Write, Row
  <2> QED
    BY <1>5, <2>1, <1>a, AbsentIsRow DEF Write, Save, TypeOK
<1>6. ASSUME NEW d \in Daemons, Poll(d) PROVE P
  BY <1>6, <1>a DEF Poll, Due, TypeOK, history
<1>7. ASSUME NEW d \in Daemons, NEW i \in Tasks, Start(d, i) PROVE P
  <2>1. runs' \in [Tasks -> 0 .. MaxRuns]
    <3>1. \A n \in 0 .. MaxRuns : (IF n < MaxRuns THEN n + 1 ELSE n) \in 0 .. MaxRuns
      BY BoundsAssumption
    <3> QED
      BY <1>7, <3>1, <1>a DEF Start
  <2>2. batch' \in [Daemons -> SUBSET Tasks]
    <3>1. batch[d] \ {i} \in SUBSET Tasks
      BY <1>a
    <3> QED
      BY <1>7, <3>1, <1>a DEF Start
  <2> QED
    BY <1>7, <2>1, <2>2, <1>a DEF Start, TypeOK
<1>8. ASSUME NEW d \in Daemons, Finish(d) PROVE P
  <2>1. running[d] \in Tasks /\ rows[running[d]] \in Row
    BY <1>8, <1>a DEF Finish
  <2>2. Finished(running[d], rows[running[d]]) \in Row
    BY <2>1, <1>a, FinishedIsRow
  <2> QED
    BY <1>8, <2>1, <2>2, <1>a, <1>b DEF Finish, TypeOK, history
<1>9. ASSUME NEW d \in Daemons, FinishWrite(d) PROVE P
  <2>1. copy[d].id \in Tasks /\ copy[d].row \in Row
    BY <1>9, <1>a, <1>c DEF FinishWrite
  <2> QED
    BY <1>9, <2>1, <1>a, AbsentIsRow DEF FinishWrite, Save, TypeOK, history
<1>10. ASSUME NEW d \in Daemons, Abort(d) PROVE P
  BY <1>10, <1>a, AbsentIsRow, BoundsAssumption DEF Abort, TypeOK
<1>11. ASSUME Tick PROVE P
  BY <1>11, <1>a, BoundsAssumption DEF Tick, TypeOK, history
<1> HIDE DEF P
<1>12. P
  BY <1>1, <1>2, <1>3, <1>4, <1>5, <1>6, <1>7, <1>8, <1>9, <1>10, <1>11
     DEF Next, Call, Step
<1> QED
  BY <1>12 DEF P

LEMMA EditsNext ==
  ASSUME OneProcess, EditsInv, Next
  PROVE  EditsInv'
<1> DEFINE P == EditsInv'
<1>a. /\ rows \in [Tasks -> Row] /\ now \in 0 .. MaxTime
      /\ running \in [Daemons -> Tasks \cup {None}]
      /\ copy \in [Actors -> Copies] /\ activating \in [Callers -> Operators \cup {None}]
      /\ wanted \in [Tasks -> Statuses \cup {"absent"}] /\ TypeOK
      /\ LockOK /\ RanOK /\ EditsKept
      /\ \A a \in Actors : CopyOK(a)
      /\ Operators \subseteq Tasks /\ Once \subseteq Tasks /\ Once \cap Operators = {}
      /\ Callers \subseteq Actors /\ Daemons \subseteq Actors /\ Callers \cap Daemons = {}
      /\ Actors = Daemons \cup Callers /\ None \notin Tasks
  BY TasksAssumption, ActorsAssumption DEF EditsInv, TypeOK, Actors
<1>b. TypeOK'
  BY TasksTypesStep
<1>c. \A a \in Actors : copy[a] # NoCopy =>
        copy[a].id \in Tasks /\ copy[a].row \in Row /\ copy[a].locked \in BOOLEAN
  BY <1>a DEF Copies
<1>d. \A a \in Actors : copy[a].locked => copy[a] # NoCopy
  BY AbsentIsRow
\* A row no copy was made from under the lock.
<1>e. ASSUME NEW a \in Actors, CopyOK(a), copy'[a] = copy[a], ~copy[a].locked PROVE CopyOK(a)'
  BY <1>a, <1>e DEF CopyOK
\* A row of another task, or of an operator's, is written.
<1>f. ASSUME NEW a \in Actors, CopyOK(a), copy'[a] = copy[a], NEW i \in Tasks, NEW r \in Row,
             rows' = [rows EXCEPT ![i] = r], i \in Operators \/ copy[a].id # i,
             a \in Daemons => running'[a] = running[a]
      PROVE  CopyOK(a)'
  BY <1>a, <1>c, <1>f DEF CopyOK
<1>1. ASSUME NEW c \in Callers, NEW i \in Tasks, NEW v \in 0 .. MaxTime, CreateTask(c, i, v) PROVE P
  <2> DEFINE r == [status |-> "active", ran |-> FALSE, next |-> IF i \in Once THEN v ELSE now + Period]
  <2>1. /\ rows' = [rows EXCEPT ![i] = r] /\ r.ran = FALSE /\ r.status = "active"
        /\ copy' = copy /\ running' = running
        /\ wanted' = [wanted EXCEPT ![i] = "active"]
    BY <1>1 DEF CreateTask, Save
  <2> HIDE DEF r
  <2>2. \A a \in Actors : ~copy[a].locked
    BY <1>1, <1>a, LockIsFree DEF CreateTask
  <2>3. \A a \in Actors : CopyOK(a)'
    BY <2>1, <2>2, <1>a, <1>e
  <2>4. RanOK' /\ EditsKept' /\ LockOK'
    BY <2>1, <1>a DEF RanOK, EditsKept, LockOK
  <2> QED
    BY <1>b, <2>3, <2>4 DEF EditsInv
<1>2. ASSUME NEW c \in Callers, NEW i \in Tasks, EditRead(c, i) PROVE P
  <2>1. PICK r \in Edits(i, rows[i]) : Hold(c, i, r, TRUE)
    BY <1>2 DEF EditRead
  <2>2. /\ rows[i] \in Row
        /\ r.ran = rows[i].ran /\ (i \in Once => (r.ran => r.next = None))
    BY <1>a, EditsAreRows DEF RanOK
  <2>3. /\ rows' = rows /\ wanted' = wanted /\ running' = running
        /\ copy'[c].id = i /\ copy'[c].row = r /\ copy'[c].locked
        /\ \A a \in Actors \ {c} : copy'[a] = copy[a] /\ ~copy[a].locked
    BY <1>2, <2>1, <1>a, LockIsFree DEF EditRead, Hold, history
  <2>4. \A a \in Actors \ {c} : CopyOK(a)'
    BY <2>3, <1>a, <1>e
  <2>5. CopyOK(c)'
    BY <2>2, <2>3, <1>a DEF CopyOK
  <2>6. RanOK' /\ EditsKept' /\ LockOK'
    BY <2>3, <1>a DEF RanOK, EditsKept, LockOK
  <2> QED
    BY <1>b, <2>4, <2>5, <2>6 DEF EditsInv
<1>3. ASSUME NEW c \in Callers, NEW o \in Operators, ActivateCheck(c, o) PROVE P
  BY <1>3, <1>b, EditsQuiet DEF ActivateCheck, history
<1>4. ASSUME NEW c \in Callers, NEW i \in Tasks, ActivateCreate(c, i) PROVE P
  <2> DEFINE r == [status |-> "active", next |-> now + Period, ran |-> FALSE]
  <2>1. /\ rows' = [rows EXCEPT ![i] = r] /\ r.ran = FALSE /\ r.status = "active"
        /\ copy' = [copy EXCEPT ![c] = [id |-> activating[c], row |-> r, locked |-> FALSE]]
        /\ running' = running /\ wanted' = [wanted EXCEPT ![i] = "active"]
        /\ activating[c] \in Operators
    BY <1>4, <1>a DEF ActivateCreate, Save, Hold
  <2> HIDE DEF r
  <2>2. \A a \in Actors : ~copy[a].locked
    BY <1>4, <1>a, LockIsFree DEF ActivateCreate
  <2>3. copy'[c].id \in Operators /\ ~copy'[c].locked /\ \A a \in Actors \ {c} : copy'[a] = copy[a]
    BY <2>1, <1>a
  <2>4. \A a \in Actors \ {c} : CopyOK(a)'
    BY <2>2, <2>3, <1>a, <1>e
  <2>5. CopyOK(c)'
    BY <2>3, <1>a DEF CopyOK
  <2>6. RanOK' /\ EditsKept' /\ LockOK'
    BY <2>1, <2>2, <2>3, <1>a DEF RanOK, EditsKept, LockOK
  <2> QED
    BY <1>b, <2>4, <2>5, <2>6 DEF EditsInv
<1>5. ASSUME NEW c \in Callers, Write(c) PROVE P
  <2> DEFINE i == copy[c].id
             r == copy[c].row
  <2>1. /\ copy[c] # NoCopy /\ i \in Tasks /\ r \in Row
        /\ rows' = [rows EXCEPT ![i] = r]
        /\ copy'[c] = NoCopy /\ \A a \in Actors \ {c} : copy'[a] = copy[a]
        /\ wanted' = [wanted EXCEPT ![i] = r.status] /\ running' = running
    BY <1>5, <1>a, <1>c DEF Write, Save
  <2>2. /\ ~copy[c].locked => i \in Operators
        /\ i \in Once => r.ran = rows[i].ran /\ (r.ran => r.next = None)
    BY <2>1, <1>a DEF CopyOK
  <2>3. ASSUME NEW a \in Actors \ {c} PROVE CopyOK(a)'
    <3>1. CopyOK(a) /\ copy'[a] = copy[a]
      BY <2>1, <1>a
    <3>2. CASE copy[a].locked
      <4>1. ~copy[c].locked
        BY <3>2, <1>a DEF LockOK
      <4> QED
        BY <3>1, <4>1, <2>1, <2>2, <1>f
    <3>3. CASE ~copy[a].locked
      BY <3>1, <3>3, <1>e
    <3> QED
      BY <3>2, <3>3
  <2>4. CopyOK(c)'
    BY <2>1 DEF CopyOK
  <2>5. RanOK' /\ EditsKept' /\ LockOK'
    BY <2>1, <2>2, <1>a, AbsentIsRow DEF RanOK, EditsKept, LockOK
  <2> QED
    BY <1>b, <2>3, <2>4, <2>5 DEF EditsInv
<1>6. ASSUME NEW d \in Daemons, Poll(d) PROVE P
  BY <1>6, <1>b, EditsQuiet DEF Poll, history
\* A daemon that starts a task has nothing to write.
<1>7. ASSUME NEW d \in Daemons, NEW i \in Tasks, Start(d, i) PROVE P
  <2>1. /\ rows' = rows /\ copy' = copy /\ wanted' = wanted
        /\ running[d] = None /\ \A e \in Daemons \ {d} : running'[e] = running[e]
    BY <1>7, <1>a DEF Start
  <2>2. copy[d] = NoCopy
    BY <2>1, <1>a, <1>c DEF CopyOK
  <2> QED
    BY <2>1, <2>2, <1>b, EditsQuiet
<1>8. ASSUME NEW d \in Daemons, Finish(d) PROVE P
  <2> DEFINE i == running[d]
             r == Finished(i, rows[i])
  <2>1. /\ i \in Tasks /\ rows[i] \in Row /\ rows' = rows /\ wanted' = wanted /\ running' = running
        /\ copy' = [copy EXCEPT ![d] = [id |-> i, row |-> r, locked |-> TRUE]]
    BY <1>8, <1>a DEF Finish, Hold, history
  <2>2. /\ r.ran /\ (i \in Once => r.next = None)
        /\ r.status = rows[i].status \/ (i \in Once /\ r.status = "completed")
    BY <2>1, <1>a, FinishedIsRow
  <2> HIDE DEF r
  <2>3. /\ copy'[d].id = i /\ copy'[d].row = r /\ copy'[d].locked
        /\ \A a \in Actors \ {d} : copy'[a] = copy[a] /\ ~copy[a].locked
    BY <1>8, <2>1, <1>a, LockIsFree DEF Finish
  <2>4. \A a \in Actors \ {d} : CopyOK(a)'
    BY <2>3, <1>a, <1>e
  <2>5. CopyOK(d)'
    BY <2>1, <2>2, <2>3, <1>a DEF CopyOK
  <2>6. RanOK' /\ EditsKept' /\ LockOK'
    BY <2>1, <2>3, <1>a DEF RanOK, EditsKept, LockOK
  <2> QED
    BY <1>b, <2>4, <2>5, <2>6 DEF EditsInv
<1>9. ASSUME NEW d \in Daemons, FinishWrite(d) PROVE P
  <2> DEFINE i == copy[d].id
             r == copy[d].row
  <2>1. /\ copy[d] # NoCopy /\ i \in Tasks /\ r \in Row
        /\ rows' = [rows EXCEPT ![i] = r] /\ wanted' = wanted
        /\ copy'[d] = NoCopy /\ \A a \in Actors \ {d} : copy'[a] = copy[a]
        /\ \A e \in Daemons \ {d} : running'[e] = running[e]
    BY <1>9, <1>a, <1>c DEF FinishWrite, Save, history
  <2>2. /\ copy[d].locked /\ r.ran /\ (i \in Once => r.next = None)
        /\ i \in Operators \/ r.status = rows[i].status \/ (i \in Once /\ r.status = "completed")
    BY <2>1, <1>a DEF CopyOK
  <2>3. \A a \in Actors \ {d} : ~copy[a].locked
    BY <2>2, <1>a DEF LockOK
  <2>4. ASSUME NEW a \in Actors \ {d} PROVE CopyOK(a)'
    <3>1. CopyOK(a) /\ copy'[a] = copy[a] /\ ~copy[a].locked
      BY <2>1, <2>3, <1>a
    <3> QED
      BY <3>1, <1>e
  <2>5. CopyOK(d)'
    BY <2>1 DEF CopyOK
  <2>6. RanOK' /\ LockOK'
    BY <2>1, <2>2, <1>a, AbsentIsRow DEF RanOK, LockOK
  <2>7. EditsKept'
    <3>1. ASSUME NEW j \in Tasks \ Operators
          PROVE  rows'[j].status = wanted[j] \/ (j \in Once /\ rows'[j].status = "completed")
      <4>1. rows[j].status = wanted[j] \/ (j \in Once /\ rows[j].status = "completed")
        BY <1>a DEF EditsKept
      <4> QED
        BY <4>1, <2>1, <2>2, <1>a
    <3> QED
      BY <3>1, <2>1 DEF EditsKept
  <2> QED
    BY <1>b, <2>4, <2>5, <2>6, <2>7 DEF EditsInv
<1>10. ASSUME NEW d \in Daemons, Abort(d) PROVE P
  <2>1. /\ rows' = rows /\ wanted' = wanted
        /\ copy'[d] = NoCopy /\ \A a \in Actors \ {d} : copy'[a] = copy[a]
        /\ \A e \in Daemons \ {d} : running'[e] = running[e]
    BY <1>10, <1>a DEF Abort
  <2>2. \A a \in Actors : CopyOK(a)'
    BY <2>1, <1>a DEF CopyOK
  <2>3. RanOK' /\ EditsKept' /\ LockOK'
    BY <2>1, <1>a, AbsentIsRow DEF RanOK, EditsKept, LockOK
  <2> QED
    BY <1>b, <2>2, <2>3 DEF EditsInv
<1>11. ASSUME Tick PROVE P
  BY <1>11, <1>b, EditsQuiet DEF Tick, history
<1> HIDE DEF P
<1>12. P
  BY <1>1, <1>2, <1>3, <1>4, <1>5, <1>6, <1>7, <1>8, <1>9, <1>10, <1>11
     DEF Next, Call, Step
<1> QED
  BY <1>12 DEF P

LEMMA EditsHold == ASSUME OneProcess PROVE Spec => []EditsInv
<1>1. ASSUME EditsInv, UNCHANGED vars PROVE EditsInv'
  <2>1. TypeOK'
    BY <1>1 DEF vars, EditsInv, TypeOK
  <2> QED
    BY <1>1, <2>1, EditsQuiet DEF vars
<1>2. EditsInv /\ [Next]_vars => EditsInv'
  BY <1>1, EditsNext
<1> QED
  BY <1>2, EditsInit, PTL DEF Spec

-----------------------------------------------------------------------------
(***************************************************************************)
(* Runs of a `once` task.                                                  *)
(***************************************************************************)
\* What a daemon has found due and not recorded has not run before, unless a
\* poll was cut short; a task is not found due again while it runs.
WorkOK ==
  \A d \in Daemons, i \in Once :
    /\ i \in batch[d] => ~rows[i].ran /\ running[d] # i
    /\ running[d] = i => ~rows[i].ran

Started(i) == rows[i].ran \/ \E d \in Daemons : running[d] = i

\* Each task has one run, whether recorded or under way, and one more for each
\* poll that was cut short.
RunsOK == \A i \in Once : runs[i] <= 1 + aborts /\ (~Started(i) => runs[i] <= aborts)

OnceInv == WorkOK /\ RunsOK

LEMMA OnceStep ==
  ASSUME OneProcess, OneDaemon, EditsInv, OnceInv, [Next]_vars
  PROVE  OnceInv'
<1> DEFINE P == OnceInv'
<1>a. /\ rows \in [Tasks -> Row] /\ batch \in [Daemons -> SUBSET Tasks]
      /\ running \in [Daemons -> Tasks \cup {None}] /\ copy \in [Actors -> Copies]
      /\ runs \in [Tasks -> 0 .. MaxRuns] /\ aborts \in Nat
      /\ \A i \in Once : runs[i] \in Nat
      /\ RanOK /\ \A a \in Actors : CopyOK(a)
      /\ Once \subseteq Tasks /\ Once \cap Operators = {}
      /\ Callers \subseteq Actors /\ Daemons \subseteq Actors
      /\ Callers \cap Daemons = {} /\ None \notin Tasks
  BY TasksAssumption, ActorsAssumption, BoundsAssumption DEF EditsInv, TypeOK, Actors
\* No `once` task starts, ends or is polled, and none changes whether it has run.
<1>b. ASSUME \A i \in Once : rows'[i].ran = rows[i].ran,
             batch' = batch, running' = running, runs' = runs, aborts' = aborts
      PROVE  P
  BY <1>b, <1>a DEF OnceInv, WorkOK, RunsOK, Started
<1>c. \A a \in Actors : copy[a] # NoCopy => copy[a].id \in Tasks /\ copy[a].row \in Row
  BY <1>a DEF Copies
<1>1. ASSUME NEW c \in Callers, NEW i \in Tasks, NEW v \in 0 .. MaxTime, CreateTask(c, i, v) PROVE P
  <2>1. rows[i].ran = FALSE
    BY <1>1 DEF CreateTask, Absent
  <2> DEFINE r == [status |-> "active", ran |-> FALSE, next |-> IF i \in Once THEN v ELSE now + Period]
  <2>2. rows' = [rows EXCEPT ![i] = r] /\ r.ran = FALSE
    BY <1>1 DEF CreateTask, Save
  <2> HIDE DEF r
  <2>3. \A j \in Once : rows'[j].ran = rows[j].ran
    BY <2>1, <2>2, <1>a
  <2> QED
    BY <1>1, <2>3, <1>b DEF CreateTask
<1>2. ASSUME NEW c \in Callers, NEW i \in Tasks, EditRead(c, i) PROVE P
  BY <1>2, <1>b DEF EditRead, history
<1>3. ASSUME NEW c \in Callers, NEW o \in Operators, ActivateCheck(c, o) PROVE P
  BY <1>3, <1>b DEF ActivateCheck, history
<1>4. ASSUME NEW c \in Callers, NEW i \in Tasks, ActivateCreate(c, i) PROVE P
  <2>1. \A j \in Once : rows'[j].ran = rows[j].ran
    BY <1>4, <1>a DEF ActivateCreate, Save
  <2> QED
    BY <1>4, <2>1, <1>b DEF ActivateCreate
<1>5. ASSUME NEW c \in Callers, Write(c) PROVE P
  <2>1. copy[c] # NoCopy /\ copy[c].id \in Tasks /\ rows' = [rows EXCEPT ![copy[c].id] = copy[c].row]
    BY <1>5, <1>a, <1>c DEF Write, Save
  <2>2. copy[c].id \in Once => copy[c].row.ran = rows[copy[c].id].ran
    BY <2>1, <1>a DEF CopyOK
  <2>3. \A j \in Once : rows'[j].ran = rows[j].ran
    BY <2>1, <2>2, <1>a
  <2> QED
    BY <1>5, <2>3, <1>b DEF Write
\* What has run has no next run, so it is not due.
<1>6. ASSUME NEW d \in Daemons, Poll(d) PROVE P
  <2>1. /\ rows' = rows /\ running' = running /\ runs' = runs /\ aborts' = aborts
        /\ running[d] = None /\ batch' = [batch EXCEPT ![d] = Due]
    BY <1>6 DEF Poll, history
  <2>2. \A i \in Once : i \in Due => ~rows[i].ran
    BY <1>a DEF Due, RanOK
  <2>3. WorkOK'
    BY <2>1, <2>2, <1>a DEF OnceInv, WorkOK
  <2>4. RunsOK'
    BY <2>1 DEF OnceInv, RunsOK, Started
  <2> QED
    BY <2>3, <2>4 DEF OnceInv
<1>7. ASSUME NEW d \in Daemons, NEW i \in Tasks, Start(d, i) PROVE P
  <2>1. /\ rows' = rows /\ aborts' = aborts /\ running[d] = None /\ i \in batch[d]
        /\ batch'[d] = batch[d] \ {i} /\ running'[d] = i
        /\ runs'[i] \in {runs[i], runs[i] + 1}
        /\ \A j \in Tasks \ {i} : runs'[j] = runs[j]
    BY <1>7, <1>a DEF Start
  <2>2. \A e \in Daemons : e = d
    BY DEF OneDaemon
  <2>3. WorkOK'
    BY <2>1, <2>2 DEF OnceInv, WorkOK
  <2>4. i \in Once => ~Started(i) /\ runs[i] <= aborts
    BY <2>1, <2>2, <1>a DEF OnceInv, WorkOK, RunsOK, Started
  <2>5. \A j \in Once \ {i} : ~Started(j)' => ~Started(j)
    BY <2>1, <2>2, <1>a DEF Started
  <2>6. i \in Once => Started(i)' /\ runs'[i] <= 1 + aborts
    BY <2>1, <2>4, <1>a DEF Started
  <2>7. RunsOK'
    BY <2>1, <2>5, <2>6, <1>a DEF OnceInv, RunsOK
  <2> QED
    BY <2>3, <2>7 DEF OnceInv
<1>8. ASSUME NEW d \in Daemons, Finish(d) PROVE P
  BY <1>8, <1>b DEF Finish, history
<1>9. ASSUME NEW d \in Daemons, FinishWrite(d) PROVE P
  <2> DEFINE i == copy[d].id
  <2>1. /\ copy[d] # NoCopy /\ i \in Tasks /\ running[d] = i /\ copy[d].row.ran
        /\ rows' = [rows EXCEPT ![i] = copy[d].row] /\ running'[d] = None
        /\ batch' = batch /\ runs' = runs /\ aborts' = aborts
    BY <1>9, <1>a, <1>c DEF FinishWrite, Save, CopyOK, history
  <2>2. \A e \in Daemons : e = d
    BY DEF OneDaemon
  <2>3. /\ \A j \in Once \ {i} : rows'[j] = rows[j]
        /\ i \in Once => rows'[i].ran
    BY <2>1, <1>a
  <2>4. WorkOK'
    BY <2>1, <2>2, <2>3, <1>a DEF OnceInv, WorkOK
  <2>5. \A j \in Once : ~Started(j)' => ~Started(j)
    BY <2>1, <2>2, <2>3 DEF Started
  <2>6. RunsOK'
    BY <2>1, <2>5 DEF OnceInv, RunsOK
  <2> QED
    BY <2>4, <2>6 DEF OnceInv
\* The run that is cut short is counted.
<1>10. ASSUME NEW d \in Daemons, Abort(d) PROVE P
  <2>1. /\ rows' = rows /\ runs' = runs /\ aborts' = aborts + 1
        /\ batch'[d] = {} /\ running'[d] = None
    BY <1>10, <1>a DEF Abort
  <2>2. \A e \in Daemons : e = d
    BY DEF OneDaemon
  <2>3. WorkOK'
    BY <2>1, <2>2, <1>a DEF OnceInv, WorkOK
  <2>4. RunsOK'
    BY <2>1, <1>a DEF OnceInv, RunsOK
  <2> QED
    BY <2>3, <2>4 DEF OnceInv
<1>11. ASSUME Tick \/ UNCHANGED vars PROVE P
  BY <1>11, <1>b DEF Tick, vars, history
<1> HIDE DEF P
<1>12. P
  BY <1>1, <1>2, <1>3, <1>4, <1>5, <1>6, <1>7, <1>8, <1>9, <1>10, <1>11
     DEF Next, Call, Step
<1> QED
  BY <1>12 DEF P

-----------------------------------------------------------------------------
\* No edit is lost, and the end of a run overwrites none, while everybody takes
\* the lock of one process (scheduler.py, pause_task, resume_task, cancel_task
\* and _execute_task): however many callers and daemons there are.
THEOREM TaskEditsKept ==
  ASSUME OneProcess
  PROVE  Spec => []EditsKept
<1>1. EditsInv => EditsKept
  BY DEF EditsInv
<1> QED
  BY <1>1, EditsHold, PTL

\* A `once` task is started once, and once more at most for each poll that was
\* cut short, whatever callers do to it meanwhile (_compute_next_run,
\* get_due_tasks).
THEOREM OnceIsOnce ==
  ASSUME OneProcess, OneDaemon
  PROVE  Spec => []OnceRunsOnce
<1>1. Init => OnceInv
  BY TasksAssumption DEF Init, OnceInv, WorkOK, RunsOK, Started, Absent
<1>2. EditsInv /\ OnceInv /\ [Next]_vars => OnceInv'
  BY OnceStep
<1>3. OnceInv => OnceRunsOnce
  BY DEF OnceInv, RunsOK, OnceRunsOnce
<1> QED
  BY <1>1, <1>2, <1>3, EditsHold, PTL DEF Spec
=============================================================================
