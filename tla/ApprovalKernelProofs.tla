------------------------ MODULE ApprovalKernelProofs ------------------------
(***************************************************************************)
(* The approval kernel keeps its promises for any number of actions,       *)
(* origins, threads and processes.  What _STORE_LOCK guarantees of token   *)
(* approvals: one process performs an action at most once, and does not    *)
(* perform what it rejected.  What the kernel adds: the two doors stay     *)
(* apart, an action is performed at most once and only with its own yes, a *)
(* staged keystroke is compared with its window or newer than the answer;  *)
(* and deferred consent implements Consent.                                *)
(*                                                                         *)
(* The lemmas speak of one call of one thread, in a system whose calls may *)
(* stand at any set of places P: the kernel runs the two protocols beside  *)
(* each other.  A call of one door is, to the invariants of the other, a   *)
(* step that decides pending rows and moves a thread among places of its   *)
(* own.                                                                    *)
(***************************************************************************)
EXTENDS ApprovalKernel, TLAPS

-----------------------------------------------------------------------------
(***************************************************************************)
(* What the statements of the approval store leave of a table, for this    *)
(* protocol and for the other one that runs over it.                       *)
(***************************************************************************)
\* A row is the same question as another: all but what became of it.
SameQuestion(a, b) ==
  /\ a.consent = b.consent /\ a.origin = b.origin /\ a.expires = b.expires
  /\ a.witness = b.witness /\ a.turn = b.turn     /\ a.reask = b.reask

\* Every row of table r2 is as in r, or was pending and has a status of S now.
ClosesTo(r, r2, S) ==
  \A i \in Ids : \/ r2[i] = r[i]
                 \/ /\ r[i].status = "pending"
                    /\ r2[i].status \in S
                    /\ SameQuestion(r2[i], r[i])

\* An update guarded by `status = 'pending'` keeps the table a table and
\* touches only rows that were pending.
LEMMA UpdatePendingCloses ==
  ASSUME NEW r \in [Ids -> Row], NEW S, NEW s \in Statuses
  PROVE  /\ UpdatePending(r, S, s) \in [Ids -> Row]
         /\ ClosesTo(r, UpdatePending(r, S, s), {s})
         /\ s # "pending" => \A i \in Ids : i \in S =>
              UpdatePending(r, S, s)[i].status # "pending"
         /\ \A i \in Ids \ S : UpdatePending(r, S, s)[i] = r[i]
<1>1. \A i \in Ids : UpdatePending(r, S, s)[i] =
                       IF i \in S /\ r[i].status = "pending"
                         THEN [r[i] EXCEPT !.status = s] ELSE r[i]
  BY DEF UpdatePending
<1>2. \A i \in Ids : /\ [r[i] EXCEPT !.status = s] \in Row
                     /\ [r[i] EXCEPT !.status = s].status = s
                     /\ SameQuestion([r[i] EXCEPT !.status = s], r[i])
  BY DEF Row, SameQuestion
<1>3. UpdatePending(r, S, s) \in [Ids -> Row]
  BY <1>2 DEF UpdatePending
<1>4. ClosesTo(r, UpdatePending(r, S, s), {s})
  BY <1>1, <1>2 DEF ClosesTo
<1>5. QED BY <1>1, <1>2, <1>3, <1>4

\* The sweep of overdue rows.
LEMMA ExpirePendingCloses ==
  ASSUME rows \in [Ids -> Row]
  PROVE  /\ ExpirePending(rows) \in [Ids -> Row]
         /\ ClosesTo(rows, ExpirePending(rows), {"expired"})
<1>1. "expired" \in Statuses
  BY DEF Statuses
<1>2. QED BY <1>1, UpdatePendingCloses DEF ExpirePending

\* A decision on one row: no other row changes, and this one is not pending
\* afterwards.
LEMMA MarkPendingDecisionCloses ==
  ASSUME rows \in [Ids -> Row], NEW id \in Ids,
         NEW s \in Statuses, s # "pending"
  PROVE  /\ MarkPendingDecision(rows, id, s) \in [Ids -> Row]
         /\ ClosesTo(rows, MarkPendingDecision(rows, id, s), {s})
         /\ MarkPendingDecision(rows, id, s)[id].status # "pending"
         /\ \A i \in Ids \ {id} : MarkPendingDecision(rows, id, s)[i] = rows[i]
<1> DEFINE r2 == UpdatePending(rows, {id}, s)
<1>1. /\ r2 \in [Ids -> Row]
      /\ ClosesTo(rows, r2, {s})
      /\ \A i \in Ids : i \in {id} => r2[i].status # "pending"
      /\ \A i \in Ids \ {id} : r2[i] = rows[i]
  BY UpdatePendingCloses
<1>2. QED BY <1>1 DEF MarkPendingDecision

\* The emergency stop leaves nothing pending.
LEMMA MarkAllPendingCancelledCloses ==
  ASSUME rows \in [Ids -> Row]
  PROVE  /\ MarkAllPendingCancelled(rows) \in [Ids -> Row]
         /\ ClosesTo(rows, MarkAllPendingCancelled(rows), {"cancelled"})
         /\ \A i \in Ids : MarkAllPendingCancelled(rows)[i].status # "pending"
<1>1. "cancelled" \in Statuses
  BY DEF Statuses
<1> DEFINE r2 == UpdatePending(rows, Ids, "cancelled")
<1>2. /\ r2 \in [Ids -> Row]
      /\ ClosesTo(rows, r2, {"cancelled"})
  BY <1>1, UpdatePendingCloses
<1>3. \A i \in Ids : r2[i].status # "pending"
  BY <1>1, <1>2 DEF UpdatePending, Row
<1>4. QED BY <1>2, <1>3 DEF MarkAllPendingCancelled
-----------------------------------------------------------------------------
Decided == Statuses \ {"absent", "pending"}

\* What a row that was pending may become.
Closings == {"expired", "cancelled", "approved", "rejected"}

\* The statuses the protocols write are statuses, and all decide a row.
LEMMA DecidedStatuses ==
  /\ Closings \cup {"completed", "failed"} \subseteq Decided
  /\ Decided \subseteq Statuses
  /\ "absent" \notin Decided /\ "pending" \notin Decided
  BY DEF Decided, Closings, Statuses

\* What a step may make of the table: a row is inserted pending, a pending
\* row is decided, and only a token row may be decided once more, when its
\* outcome is recorded.
Advances ==
  \A i \in Ids :
    \/ rows'[i] = rows[i]
    \/ /\ rows[i].status = "absent"
       /\ rows'[i].status = "pending"
    \/ /\ rows[i].status # "absent"
       /\ \/ rows[i].status = "pending" /\ rows'[i].status \in Closings
          \/ rows[i].consent = "token" /\ rows'[i].status \in Decided
       /\ SameQuestion(rows'[i], rows[i])

\* A table whose rows were only closed has advanced.
LEMMA ClosingAdvances ==
  ASSUME NEW S \in SUBSET Closings, ClosesTo(rows, rows', S)
  PROVE  Advances
  BY DEF ClosesTo, Advances

\* So has one in which, besides, a new row was inserted.
LEMMA InsertAdvances ==
  ASSUME NEW q \in [Ids -> Row], NEW S \in SUBSET Closings,
         ClosesTo(rows, q, S), NEW i \in Ids, rows[i].status = "absent",
         NEW row \in Row, row.status = "pending",
         rows' = [q EXCEPT ![i] = row]
  PROVE  /\ Advances
         /\ rows' \in [Ids -> Row]
         /\ rows'[i] = row
         /\ \A j \in Ids \ {i} : rows'[j] = q[j]
<1>1. rows'[i] = row /\ \A j \in Ids \ {i} : rows'[j] = q[j]
  OBVIOUS
<1>2. rows' \in [Ids -> Row]
  OBVIOUS
<1>3. Advances
  BY <1>1 DEF ClosesTo, Advances
<1>4. QED BY <1>1, <1>2, <1>3

\* What a row is about outlives every step.
LEMMA AdvancesKeep ==
  ASSUME Advances
  PROVE  \A i \in Ids :
           /\ rows[i].status # "absent" =>
                rows'[i].status # "absent" /\ SameQuestion(rows'[i], rows[i])
           /\ rows'[i].status \in {"absent", "pending"} =>
                rows[i].status \in {"absent", "pending"}
           /\ rows'[i].status = "absent" => rows'[i] = rows[i]
           /\ rows[i].consent = "deferred" =>
                rows[i].status \in {"absent", "pending"} \/ rows'[i] = rows[i]
           /\ rows'[i].status \in {"completed", "failed"} =>
                rows'[i] = rows[i] \/ rows'[i].consent = "token"
  BY DecidedStatuses DEF Advances, SameQuestion, Closings

-----------------------------------------------------------------------------
(***************************************************************************)
(* One call of one thread.                                                 *)
(***************************************************************************)
TypesAt(P) == /\ StoreTypeOK
              /\ pc \in [Threads -> P]
              /\ stop \in [Processes -> BOOLEAN]
              /\ runs \in [Processes -> [Ids -> Nat]]

\* A call that is about a row knows which, and what it has found redeemable
\* is a token row for good.
CallOK ==
  \A t \in Threads :
    /\ pc[t] \in {"approve_load", "reject_load"} => arg[t] \in Ids
    /\ pc[t] \in {"approve_mark", "execute", "record", "reject_mark"} =>
         /\ arg[t] \in Ids
         /\ rows[arg[t]].status # "absent"
         /\ rows[arg[t]].consent = "token"

\* No call of process p is about to perform i, and p has not performed it.
Untouched(p, i) ==
  /\ runs[p][i] = 0
  /\ \A u \in Threads : ProcessOf[u] = p /\ pc[u] = "execute" => arg[u] # i

\* Why the second redemption finds nothing: an undecided row has not been
\* performed anywhere; a call that found it undecided still holds its
\* process's lock when it marks it; and of the calls about to perform it,
\* there is one per process.
OnceInv ==
  /\ \A p \in Processes, i \in Ids : runs[p][i] \in {0, 1}
  /\ \A i \in Ids : rows[i].status \in {"absent", "pending"} =>
       /\ \A p \in Processes : runs[p][i] = 0
       /\ \A t \in Threads : pc[t] \in {"execute", "record"} => arg[t] # i
  /\ \A t \in Threads : pc[t] = "approve_mark" => Untouched(ProcessOf[t], arg[t])
  /\ \A t \in Threads : pc[t] = "execute" =>
       /\ runs[ProcessOf[t]][arg[t]] = 0
       /\ \A u \in Threads \ {t} :
            pc[u] = "execute" /\ ProcessOf[u] = ProcessOf[t] => arg[u] # arg[t]

\* Whoever holds a process's lock is inside the locked part of a call, and
\* only there.
LockMatchesCall ==
  \A t \in Threads : pc[t] \in LockedPcs <=> lock[ProcessOf[t]] = t

IndInv == TokenTypeOK /\ CallOK /\ LockMatchesCall /\ OnceInv

LEMMA TypeInit == TokenInit => TokenTypeOK
<1>1. Absent \in Row
  BY NoneAssumption DEF Absent, Row, Statuses
<1>2. QED
  BY <1>1, TimeAssumption
     DEF TokenInit, StoreInit, TokenTypeOK, StoreTypeOK, TokenPcs

\* A row inserted by _create_pending is a row.
LEMMA TokenRowType ==
  ASSUME now \in 0..MaxTime
  PROVE  /\ TokenRow \in Row
         /\ TokenRow.status = "pending"
         /\ TokenRow.consent = "token"
         /\ TokenRow.witness = None
  BY TimeAssumption DEF TokenRow, Row, Statuses

\* Thread t goes from one place of the token protocol to another, and no
\* other thread moves.
Moves(t, l) == /\ pc[t] \in TokenPcs /\ l \in TokenPcs
               /\ pc' = [pc EXCEPT ![t] = l]
               /\ \E x \in Ids \cup {None} : arg' = [arg EXCEPT ![t] = x]

\* What one step of a call does to the table and to the threads.
LEMMA TokenCallEffect ==
  ASSUME NEW P, TypesAt(P), CallOK, NEW t \in Threads, TokenCall(t)
  PROVE  /\ rows' \in [Ids -> Row]
         /\ Advances
         /\ \A i \in Ids : rows[i].status = "absent" =>
              \/ rows'[i].status = "absent"
              \/ rows'[i].consent = "token" /\ rows'[i].witness = None
         /\ now' = now
         /\ \E l \in TokenPcs : Moves(t, l)
<1> DEFINE Effect == /\ rows' \in [Ids -> Row]
                     /\ Advances
                     /\ \A i \in Ids : rows[i].status = "absent" =>
                          \/ rows'[i].status = "absent"
                          \/ rows'[i].consent = "token" /\ rows'[i].witness = None
<1>1. /\ rows \in [Ids -> Row] /\ now \in 0..MaxTime
      /\ arg \in [Threads -> Ids \cup {None}] /\ pc \in [Threads -> P]
  BY DEF TypesAt, StoreTypeOK
<1>2. /\ pc = [pc EXCEPT ![t] = pc[t]]
      /\ arg = [arg EXCEPT ![t] = arg[t]] /\ arg[t] \in Ids \cup {None}
  BY <1>1
<1>3. /\ \A s \in {"expired", "cancelled", "approved", "rejected",
                   "completed", "failed"} : s \in Statuses /\ s # "pending"
                                            /\ s \in Decided
      /\ \A s \in Closings : s \in Decided /\ {s} \in SUBSET Closings
  BY DecidedStatuses DEF Closings
<1>4. ASSUME rows' = rows PROVE Effect
  BY <1>1, <1>4 DEF Advances
<1>5. ASSUME NEW s \in Closings, rows' \in [Ids -> Row],
             ClosesTo(rows, rows', {s})
      PROVE  Effect
  <2>1. Advances
    BY <1>3, <1>5, ClosingAdvances
  <2>2. QED BY <1>5, <2>1 DEF ClosesTo
<1>6. ASSUME rows' = ExpirePending(rows) PROVE Effect
  BY <1>1, <1>3, <1>5, <1>6, ExpirePendingCloses DEF Closings
<1>7. ASSUME NEW i \in Ids, NEW s \in Closings,
             rows' = MarkPendingDecision(rows, i, s)
      PROVE  Effect
  <2>1. s \in Statuses /\ s # "pending"
    BY <1>3 DEF Closings
  <2>2. rows' \in [Ids -> Row] /\ ClosesTo(rows, rows', {s})
    BY <1>1, <1>7, <2>1, MarkPendingDecisionCloses
  <2>3. QED BY <1>5, <2>1, <2>2
<1> HIDE DEF Effect
<1> USE DEF At, Goto, Enter, Return, Moves, TokenPcs
<1>8. ASSUME NEW i \in Ids, CreatePending(t, i)
      PROVE  Effect /\ now' = now /\ \E l \in TokenPcs : Moves(t, l)
  <2>1. /\ ExpirePending(rows) \in [Ids -> Row]
        /\ ClosesTo(rows, ExpirePending(rows), {"expired"})
    BY <1>1, ExpirePendingCloses
  <2>2. /\ Advances /\ rows' \in [Ids -> Row] /\ rows'[i] = TokenRow
        /\ \A j \in Ids \ {i} : rows'[j] = ExpirePending(rows)[j]
    BY <1>1, <1>3, <1>8, <2>1, InsertAdvances, TokenRowType
       DEF CreatePending, Closings
  <2>3. Effect
    BY <1>1, <2>1, <2>2, TokenRowType DEF Effect, ClosesTo
  <2>4. QED BY <1>2, <1>8, <2>3 DEF CreatePending
<1>9. ASSUME NEW i \in Ids, ApproveBegin(t, i) \/ RejectBegin(t, i)
      PROVE  Effect /\ now' = now /\ \E l \in TokenPcs : Moves(t, l)
  BY <1>6, <1>9 DEF ApproveBegin, RejectBegin
<1>10. ASSUME NEW good \in BOOLEAN, ApproveRefuse(t, good) \/ ApproveLoad(t, good)
       PROVE  Effect /\ now' = now /\ \E l \in TokenPcs : Moves(t, l)
  BY <1>2, <1>4, <1>10 DEF ApproveRefuse, ApproveLoad
<1>11. ASSUME NEW good \in BOOLEAN,
              ApproveTooLate(t, good) \/ ApproveStopped(t, good)
       PROVE  Effect /\ now' = now /\ \E l \in TokenPcs : Moves(t, l)
  BY <1>7, <1>11 DEF ApproveTooLate, ApproveStopped, CallOK, Closings
<1>12. CASE ApproveMark(t)
  BY <1>2, <1>7, <1>12 DEF ApproveMark, CallOK, Effect, Closings
<1>13. CASE ApproveBlocked(t) \/ Execute(t)
  BY <1>2, <1>4, <1>13 DEF ApproveBlocked, Execute, Effect
<1>14. ASSUME NEW s \in {"completed", "failed"}, Record(t, s)
       PROVE  Effect /\ now' = now /\ \E l \in TokenPcs : Moves(t, l)
  <2>1. /\ arg[t] \in Ids /\ rows[arg[t]].status # "absent"
        /\ rows[arg[t]].consent = "token" /\ s \in Decided
        /\ rows' = [rows EXCEPT ![arg[t]].status = s]
    BY <1>3, <1>14 DEF Record, SetApprovalStatus, CallOK
  <2>2. \A i \in Ids : /\ [rows[i] EXCEPT !.status = s] \in Row
                       /\ [rows[i] EXCEPT !.status = s].status = s
                       /\ SameQuestion([rows[i] EXCEPT !.status = s], rows[i])
    BY <1>1, <1>3 DEF Row, SameQuestion
  <2>3. /\ rows'[arg[t]] = [rows[arg[t]] EXCEPT !.status = s]
        /\ \A i \in Ids \ {arg[t]} : rows'[i] = rows[i]
        /\ rows' \in [Ids -> Row]
    BY <1>1, <2>1, <2>2
  <2>4. Effect
    BY <2>1, <2>2, <2>3 DEF Effect, Advances
  <2>5. QED BY <1>14, <2>4 DEF Record
<1>15. CASE RejectRefuse(t) \/ RejectLoad(t)
  BY <1>2, <1>4, <1>15 DEF RejectRefuse, RejectLoad, Effect
<1>16. CASE RejectMark(t)
  BY <1>2, <1>7, <1>16 DEF RejectMark, CallOK, Effect, Closings
<1>17. CASE StopBegin(t)
  BY <1>6, <1>17 DEF StopBegin, Effect
<1>18. CASE StopCancel(t)
  BY <1>1, <1>2, <1>3, <1>5, <1>18, MarkAllPendingCancelledCloses
     DEF StopCancel, Effect, Closings
<1>19. CASE StopSet(t) \/ StopReset(t)
  BY <1>2, <1>4, <1>19 DEF StopSet, StopReset, Effect
<1>20. QED
  BY <1>8, <1>9, <1>10, <1>11, <1>12, <1>13, <1>14, <1>15, <1>16, <1>17,
     <1>18, <1>19 DEF TokenCall, Effect
-----------------------------------------------------------------------------
LEMMA TypeCall ==
  ASSUME NEW P, TokenPcs \subseteq P, TypesAt(P), CallOK,
         NEW t \in Threads, TokenCall(t)
  PROVE  TypesAt(P)'
<1>1. /\ rows' \in [Ids -> Row] /\ now' = now
      /\ \E l \in TokenPcs : Moves(t, l)
  BY TokenCallEffect
<1>2. /\ pc' \in [Threads -> P]
      /\ arg' \in [Threads -> Ids \cup {None}]
      /\ now' \in 0..MaxTime
  BY <1>1 DEF Moves, TypesAt, StoreTypeOK
<1>3. ProcessOf[t] \in Processes
  BY ThreadsAssumption
<1> USE DEF TypesAt, StoreTypeOK
<1>4. lock' \in [Processes -> Threads \cup {None}]
  <2>1. lock' = lock \/ Acquire(t) \/ Release(t)
    BY DEF TokenCall, CreatePending, ApproveBegin, ApproveRefuse,
           ApproveTooLate, ApproveStopped, ApproveLoad, ApproveMark,
           ApproveBlocked, Execute, Record, RejectBegin, RejectRefuse,
           RejectLoad, RejectMark, StopBegin, StopCancel, StopSet, StopReset
  <2>2. QED BY <1>3, <2>1 DEF Acquire, Release
<1>5. stop' \in [Processes -> BOOLEAN]
  <2>1. \/ stop' = stop
        \/ \E b \in BOOLEAN : stop' = [stop EXCEPT ![ProcessOf[t]] = b]
    BY DEF TokenCall, CreatePending, ApproveBegin, ApproveRefuse,
           ApproveTooLate, ApproveStopped, ApproveLoad, ApproveMark,
           ApproveBlocked, Execute, Record, RejectBegin, RejectRefuse,
           RejectLoad, RejectMark, StopBegin, StopCancel, StopSet, StopReset
  <2>2. QED BY <1>3, <2>1
<1>6. runs' \in [Processes -> [Ids -> Nat]]
  <2>1. CASE Execute(t)
    <3>1. arg[t] \in Ids
      BY <2>1 DEF Execute, At, CallOK
    <3>2. \A f \in [Ids -> Nat] :
            [f EXCEPT ![arg[t]] = f[arg[t]] + 1] \in [Ids -> Nat]
      BY <3>1
    <3>3. QED BY <1>3, <2>1, <3>1, <3>2 DEF Execute
  <2>2. CASE runs' = runs
    BY <2>2
  <2>3. QED
    BY <2>1, <2>2
       DEF TokenCall, CreatePending, ApproveBegin, ApproveRefuse,
           ApproveTooLate, ApproveStopped, ApproveLoad, ApproveMark,
           ApproveBlocked, Record, RejectBegin, RejectRefuse,
           RejectLoad, RejectMark, StopBegin, StopCancel, StopSet, StopReset
<1>7. QED BY <1>1, <1>2, <1>4, <1>5, <1>6

\* A process that ends leaves the table alone and its calls idle.
LEMMA TypeRestart ==
  ASSUME NEW P, "idle" \in P, TypesAt(P), NEW p \in Processes, Restart(p)
  PROVE  TypesAt(P)'
  BY DEF TypesAt, StoreTypeOK, Restart, RestartStore

LEMMA TypeClock ==
  ASSUME NEW P, TypesAt(P), Sweep \/ Tick, UNCHANGED <<stop, runs>>
  PROVE  TypesAt(P)'
  BY ExpirePendingCloses, TimeAssumption DEF TypesAt, StoreTypeOK, Sweep, Tick

\* The three ways a call of thread t moves: it takes the lock on its way into
\* the locked part, gives it up on its way out, or does neither.
LEMMA LockMoves ==
  ASSUME NEW P, pc \in [Threads -> P],
         lock \in [Processes -> Threads \cup {None}],
         LockMatchesCall, NEW t \in Threads, NEW l,
         pc' = [pc EXCEPT ![t] = l],
         \/ lock' = lock /\ (pc[t] \in LockedPcs <=> l \in LockedPcs)
         \/ Acquire(t) /\ pc[t] \notin LockedPcs /\ l \in LockedPcs
         \/ Release(t) /\ pc[t] \in LockedPcs /\ l \notin LockedPcs
  PROVE  LockMatchesCall'
<1>1. ProcessOf \in [Threads -> Processes] /\ None \notin Threads
  BY ThreadsAssumption, NoneAssumption
<1>2. /\ pc'[t] = l /\ \A u \in Threads \ {t} : pc'[u] = pc[u]
      /\ \A u \in Threads : pc[u] \in LockedPcs <=> lock[ProcessOf[u]] = u
  BY DEF LockMatchesCall
<1> SUFFICES ASSUME NEW u \in Threads
             PROVE  pc'[u] \in LockedPcs <=> lock'[ProcessOf[u]] = u
  BY DEF LockMatchesCall
<1>3. CASE lock' = lock /\ (pc[t] \in LockedPcs <=> l \in LockedPcs)
  BY <1>2, <1>3
<1>4. CASE Acquire(t) /\ pc[t] \notin LockedPcs /\ l \in LockedPcs
  <2>1. lock[ProcessOf[t]] = None /\ lock' = [lock EXCEPT ![ProcessOf[t]] = t]
    BY <1>4 DEF Acquire, LockFree
  <2>2. CASE ProcessOf[u] = ProcessOf[t]
    BY <1>1, <1>2, <1>4, <2>1, <2>2
  <2>3. CASE ProcessOf[u] # ProcessOf[t]
    BY <1>1, <1>2, <1>4, <2>1, <2>3
  <2>4. QED BY <2>2, <2>3
<1>5. CASE Release(t) /\ pc[t] \in LockedPcs /\ l \notin LockedPcs
  <2>1. lock[ProcessOf[t]] = t /\ lock' = [lock EXCEPT ![ProcessOf[t]] = None]
    BY <1>2, <1>5 DEF Release
  <2>2. CASE ProcessOf[u] = ProcessOf[t]
    BY <1>1, <1>2, <1>5, <2>1, <2>2
  <2>3. CASE ProcessOf[u] # ProcessOf[t]
    BY <1>1, <1>2, <1>5, <2>1, <2>3
  <2>4. QED BY <2>2, <2>3
<1>6. QED BY <1>3, <1>4, <1>5

LEMMA LockCall ==
  ASSUME NEW P, TypesAt(P), LockMatchesCall, NEW t \in Threads, TokenCall(t)
  PROVE  LockMatchesCall'
<1> USE LockMoves DEF TypesAt, StoreTypeOK, LockedPcs, At, Goto, Enter, Return
<1>1. ASSUME NEW i \in Ids, CreatePending(t, i) PROVE LockMatchesCall'
  BY <1>1 DEF CreatePending, LockMatchesCall
<1>2. ASSUME NEW i \in Ids, ApproveBegin(t, i) PROVE LockMatchesCall'
  BY <1>2 DEF ApproveBegin
<1>3. ASSUME NEW i \in Ids, RejectBegin(t, i) PROVE LockMatchesCall'
  BY <1>3 DEF RejectBegin
<1>4. ASSUME NEW good \in BOOLEAN, ApproveRefuse(t, good)
      PROVE  LockMatchesCall'
  BY <1>4 DEF ApproveRefuse
<1>5. ASSUME NEW good \in BOOLEAN, ApproveTooLate(t, good)
      PROVE  LockMatchesCall'
  BY <1>5 DEF ApproveTooLate
<1>6. ASSUME NEW good \in BOOLEAN, ApproveStopped(t, good)
      PROVE  LockMatchesCall'
  BY <1>6 DEF ApproveStopped
<1>7. ASSUME NEW good \in BOOLEAN, ApproveLoad(t, good)
      PROVE  LockMatchesCall'
  BY <1>7 DEF ApproveLoad
<1>8. CASE ApproveMark(t)
  BY <1>8 DEF ApproveMark
<1>9. CASE ApproveBlocked(t) \/ Execute(t)
  BY <1>9 DEF ApproveBlocked, Execute
<1>10. ASSUME NEW outcome \in {"completed", "failed"}, Record(t, outcome)
       PROVE  LockMatchesCall'
  BY <1>10 DEF Record
<1>11. CASE RejectRefuse(t)
  BY <1>11 DEF RejectRefuse
<1>12. CASE RejectLoad(t)
  BY <1>12 DEF RejectLoad
<1>13. CASE RejectMark(t)
  BY <1>13 DEF RejectMark
<1>14. CASE StopBegin(t) \/ StopCancel(t)
  BY <1>14 DEF StopBegin, StopCancel
<1>15. CASE StopSet(t)
  BY <1>15 DEF StopSet
<1>16. CASE StopReset(t)
  BY <1>16 DEF StopReset, LockMatchesCall
<1>17. QED
  BY <1>1, <1>2, <1>3, <1>4, <1>5, <1>6, <1>7, <1>8, <1>9, <1>10,
     <1>11, <1>12, <1>13, <1>14, <1>15, <1>16 DEF TokenCall

\* A process that ends takes its lock with it.
LEMMA LockRestart ==
  ASSUME NEW P, pc \in [Threads -> P],
         lock \in [Processes -> Threads \cup {None}],
         LockMatchesCall, NEW p \in Processes, RestartStore(p)
  PROVE  LockMatchesCall'
  BY ThreadsAssumption, NoneAssumption
     DEF RestartStore, LockMatchesCall, LockedPcs

LEMMA CallCall ==
  ASSUME NEW P, TypesAt(P), CallOK, NEW t \in Threads, TokenCall(t)
  PROVE  CallOK'
<1>1. /\ Advances
      /\ pc \in [Threads -> P] /\ arg \in [Threads -> Ids \cup {None}]
      /\ \E l \in TokenPcs : Moves(t, l)
  BY TokenCallEffect DEF TypesAt, StoreTypeOK
<1>2. \A u \in Threads \ {t} : pc'[u] = pc[u] /\ arg'[u] = arg[u]
  BY <1>1 DEF Moves
<1>3. \A i \in Ids : rows[i].status # "absent" =>
        rows'[i].status # "absent" /\ rows'[i].consent = rows[i].consent
  BY <1>1, AdvancesKeep DEF SameQuestion
<1> DEFINE Knows ==
      /\ pc'[t] \in {"approve_load", "reject_load"} => arg'[t] \in Ids
      /\ pc'[t] \in {"approve_mark", "execute", "record", "reject_mark"} =>
           /\ arg'[t] = arg[t] /\ arg[t] \in Ids
           /\ rows[arg[t]].status # "absent" /\ rows[arg[t]].consent = "token"
<1>4. Knows
  <2> USE <1>1 DEF CallOK, At, Goto, Enter, Return
  <2>1. ASSUME NEW i \in Ids,
               CreatePending(t, i) \/ ApproveBegin(t, i) \/ RejectBegin(t, i)
        PROVE  Knows
    BY <2>1 DEF CreatePending, ApproveBegin, RejectBegin
  <2>2. ASSUME NEW good \in BOOLEAN,
               \/ ApproveRefuse(t, good) \/ ApproveTooLate(t, good)
               \/ ApproveStopped(t, good)
        PROVE  Knows
    BY <2>2 DEF ApproveRefuse, ApproveTooLate, ApproveStopped
  <2>3. ASSUME NEW good \in BOOLEAN, ApproveLoad(t, good)
        PROVE  Knows
    BY <2>3 DEF ApproveLoad, Redeemable, Pending
  <2>4. CASE ApproveMark(t) \/ ApproveBlocked(t) \/ Execute(t)
    BY <2>4 DEF ApproveMark, ApproveBlocked, Execute
  <2>5. ASSUME NEW outcome \in {"completed", "failed"}, Record(t, outcome)
        PROVE  Knows
    BY <2>5 DEF Record
  <2>6. CASE RejectRefuse(t) \/ RejectLoad(t) \/ RejectMark(t)
    BY <2>6 DEF RejectRefuse, RejectLoad, RejectMark, Redeemable, Pending
  <2>7. CASE StopBegin(t) \/ StopCancel(t) \/ StopSet(t) \/ StopReset(t)
    BY <2>7 DEF StopBegin, StopCancel, StopSet, StopReset
  <2>8. QED
    BY <2>1, <2>2, <2>3, <2>4, <2>5, <2>6, <2>7 DEF TokenCall
<1>5. QED
  BY <1>2, <1>3, <1>4 DEF CallOK

\* The threads at the places S were there before, in the same call.
StillAt(S) ==
  \A t \in Threads : pc'[t] \in S => pc'[t] = pc[t] /\ arg'[t] = arg[t]

\* A step that starts nothing on a row keeps CallOK.
LEMMA CallQuiet ==
  ASSUME CallOK, Advances,
         StillAt({"approve_load", "reject_load", "approve_mark", "execute",
                  "record", "reject_mark"})
  PROVE  CallOK'
<1>1. \A i \in Ids : rows[i].status # "absent" =>
        rows'[i].status # "absent" /\ rows'[i].consent = rows[i].consent
  BY AdvancesKeep DEF SameQuestion
<1>2. QED BY <1>1 DEF CallOK, StillAt
-----------------------------------------------------------------------------
\* A step that performs nothing and puts no call closer to performing.
Quiet == /\ runs' = runs
         /\ Advances
         /\ StillAt({"approve_mark", "execute", "record"})

LEMMA OnceQuiet == ASSUME CallOK, OnceInv, Quiet PROVE OnceInv'
<1>1. \A i \in Ids : rows'[i].status \in {"absent", "pending"} =>
                       rows[i].status \in {"absent", "pending"}
  BY AdvancesKeep DEF Quiet
<1>2. (\A p \in Processes, i \in Ids : runs[p][i] \in {0, 1})'
  BY DEF Quiet, OnceInv
<1>3. (\A i \in Ids : rows[i].status \in {"absent", "pending"} =>
         /\ \A p \in Processes : runs[p][i] = 0
         /\ \A t \in Threads : pc[t] \in {"execute", "record"} => arg[t] # i)'
  BY <1>1 DEF Quiet, StillAt, OnceInv
<1>4. (\A t \in Threads : pc[t] = "approve_mark" =>
                            Untouched(ProcessOf[t], arg[t]))'
  <2> SUFFICES ASSUME NEW t \in Threads, pc'[t] = "approve_mark"
               PROVE  /\ runs'[ProcessOf[t]][arg'[t]] = 0
                      /\ \A u \in Threads :
                           ProcessOf[u] = ProcessOf[t] /\ pc'[u] = "execute"
                             => arg'[u] # arg'[t]
    BY DEF Untouched
  <2>1. /\ pc[t] = "approve_mark" /\ arg'[t] = arg[t] /\ runs' = runs
        /\ Untouched(ProcessOf[t], arg[t])
    BY DEF Quiet, StillAt, OnceInv
  <2>2. \A u \in Threads : pc'[u] = "execute"
                           => pc[u] = "execute" /\ arg'[u] = arg[u]
    BY DEF Quiet, StillAt
  <2>3. QED BY <2>1, <2>2 DEF Untouched
<1>5. (\A t \in Threads : pc[t] = "execute" =>
         /\ runs[ProcessOf[t]][arg[t]] = 0
         /\ \A u \in Threads \ {t} :
              pc[u] = "execute" /\ ProcessOf[u] = ProcessOf[t]
                => arg[u] # arg[t])'
  BY DEF Quiet, StillAt, OnceInv
<1>6. QED BY <1>2, <1>3, <1>4, <1>5 DEF OnceInv

\* All but three steps of the token protocol are quiet.
LEMMA CallIsQuiet ==
  ASSUME NEW P, TypesAt(P), CallOK, NEW t \in Threads, TokenCall(t)
  PROVE  \/ Quiet
         \/ \E good \in BOOLEAN : ApproveLoad(t, good)
         \/ ApproveMark(t)
         \/ Execute(t)
<1>1. /\ Advances
      /\ pc \in [Threads -> P] /\ arg \in [Threads -> Ids \cup {None}]
  BY TokenCallEffect DEF TypesAt, StoreTypeOK
<1> USE <1>1 DEF Quiet, StillAt, At, Goto, Enter, Return
<1>2. ASSUME NEW i \in Ids,
             CreatePending(t, i) \/ ApproveBegin(t, i) \/ RejectBegin(t, i)
      PROVE  Quiet
  BY <1>2 DEF CreatePending, ApproveBegin, RejectBegin
<1>3. ASSUME NEW good \in BOOLEAN,
             \/ ApproveRefuse(t, good) \/ ApproveTooLate(t, good)
             \/ ApproveStopped(t, good)
      PROVE  Quiet
  BY <1>3 DEF ApproveRefuse, ApproveTooLate, ApproveStopped
<1>4. CASE ApproveBlocked(t)
  BY <1>4 DEF ApproveBlocked
<1>5. ASSUME NEW outcome \in {"completed", "failed"}, Record(t, outcome)
      PROVE  Quiet
  BY <1>5 DEF Record
<1>6. CASE RejectRefuse(t) \/ RejectLoad(t) \/ RejectMark(t)
  BY <1>6 DEF RejectRefuse, RejectLoad, RejectMark
<1>7. CASE StopBegin(t) \/ StopCancel(t) \/ StopSet(t) \/ StopReset(t)
  BY <1>7 DEF StopBegin, StopCancel, StopSet, StopReset
<1>8. QED
  BY <1>2, <1>3, <1>4, <1>5, <1>6, <1>7 DEF TokenCall

\* What a redemption found redeemable is a pending row of its own.
LEMMA LoadFinds ==
  ASSUME NEW P, TypesAt(P), CallOK, NEW t \in Threads, NEW good \in BOOLEAN,
         ApproveLoad(t, good)
  PROVE  /\ UNCHANGED <<runs, rows, arg>> /\ arg[t] \in Ids
         /\ rows[arg[t]].status = "pending"
         /\ pc' = [pc EXCEPT ![t] = "approve_mark"]
  BY DEF ApproveLoad, Redeemable, Pending, At, Goto, CallOK

\* Marking decides the row, and nobody else of the process is marking one.
LEMMA MarkDecides ==
  ASSUME NEW P, TypesAt(P), CallOK, LockMatchesCall, NEW t \in Threads,
         ApproveMark(t)
  PROVE  /\ UNCHANGED <<runs, arg>> /\ arg[t] \in Ids
         /\ pc[t] = "approve_mark"
         /\ pc' = [pc EXCEPT ![t] = "execute"]
         /\ ClosesTo(rows, rows', {"approved"})
         /\ rows'[arg[t]].status \notin {"absent", "pending"}
         /\ \A u \in Threads \ {t} :
              pc[u] = "approve_mark" => ProcessOf[u] # ProcessOf[t]
<1>1. /\ UNCHANGED <<runs, arg>> /\ arg[t] \in Ids
      /\ pc[t] = "approve_mark"
      /\ rows[arg[t]].status # "absent"
      /\ pc' = [pc EXCEPT ![t] = "execute"]
      /\ rows' = MarkPendingDecision(rows, arg[t], "approved")
  BY DEF ApproveMark, At, Goto, CallOK
<1>2. "approved" \in Statuses /\ rows \in [Ids -> Row]
  BY DEF Statuses, TypesAt, StoreTypeOK
<1>3. /\ ClosesTo(rows, rows', {"approved"})
      /\ rows'[arg[t]].status # "pending"
  BY <1>1, <1>2, MarkPendingDecisionCloses
<1>4. rows'[arg[t]].status \notin {"absent", "pending"}
  BY <1>1, <1>3 DEF ClosesTo
<1>5. \A u \in Threads : pc[u] = "approve_mark" => lock[ProcessOf[u]] = u
  BY DEF LockMatchesCall, LockedPcs
<1>6. QED BY <1>1, <1>3, <1>4, <1>5

LEMMA OnceCall ==
  ASSUME NEW P, TypesAt(P), CallOK, LockMatchesCall, OnceInv,
         NEW t \in Threads, TokenCall(t)
  PROVE  OnceInv'
<1> DEFINE p == ProcessOf[t]
<1>1. /\ pc \in [Threads -> P] /\ arg \in [Threads -> Ids \cup {None}]
      /\ p \in Processes /\ ProcessOf \in [Threads -> Processes]
      /\ runs \in [Processes -> [Ids -> Nat]]
      /\ Advances
  BY ThreadsAssumption, TokenCallEffect DEF TypesAt, StoreTypeOK
<1>2. CASE Quiet
  BY <1>2, OnceQuiet
<1>3. ASSUME NEW good \in BOOLEAN, ApproveLoad(t, good) PROVE OnceInv'
  <2>1. /\ UNCHANGED <<runs, rows, arg>> /\ arg[t] \in Ids
        /\ rows[arg[t]].status = "pending"
        /\ pc' = [pc EXCEPT ![t] = "approve_mark"]
    BY <1>3, LoadFinds
  <2>2. Untouched(p, arg[t])
    BY <1>1, <2>1 DEF Untouched, OnceInv
  <2>3. QED BY <1>1, <2>1, <2>2 DEF OnceInv, Untouched
<1>4. CASE ApproveMark(t)
  <2>1. /\ UNCHANGED <<runs, arg>> /\ arg[t] \in Ids
        /\ pc[t] = "approve_mark"
        /\ pc' = [pc EXCEPT ![t] = "execute"]
        /\ rows'[arg[t]].status \notin {"absent", "pending"}
        /\ \A u \in Threads \ {t} : pc[u] = "approve_mark" => ProcessOf[u] # p
    BY <1>4, MarkDecides
  <2>2. \A i \in Ids : rows'[i].status \in {"absent", "pending"} =>
                         rows[i].status \in {"absent", "pending"}
    BY <1>1, AdvancesKeep
  <2>3. Untouched(p, arg[t])
    BY <2>1 DEF OnceInv
  <2>4. QED BY <1>1, <2>1, <2>2, <2>3 DEF OnceInv, Untouched
<1>5. CASE Execute(t)
  <2>1. /\ UNCHANGED <<rows, arg>> /\ arg[t] \in Ids
        /\ pc[t] = "execute"
        /\ pc' = [pc EXCEPT ![t] = "record"]
        /\ runs' = [runs EXCEPT ![p][arg[t]] = @ + 1]
    BY <1>5 DEF Execute, At, Goto, CallOK
  <2>2. /\ runs'[p][arg[t]] = 1
        /\ \A q \in Processes, i \in Ids :
             q # p \/ i # arg[t] => runs'[q][i] = runs[q][i]
    BY <1>1, <2>1 DEF OnceInv
  <2>3. \A u \in Threads \ {t} :
          pc[u] = "execute" /\ ProcessOf[u] = p => arg[u] # arg[t]
    BY <2>1 DEF OnceInv
  <2>4. \A u \in Threads : pc[u] = "approve_mark" /\ ProcessOf[u] = p
                            => arg[u] # arg[t]
    BY <2>1 DEF OnceInv, Untouched
  <2>5. rows[arg[t]].status \notin {"absent", "pending"}
    BY <2>1 DEF OnceInv
  <2>6. \A u \in Threads : pc[u] \in {"approve_mark", "execute"} => arg[u] \in Ids
    BY DEF CallOK
  <2>7. QED
    BY <1>1, <2>1, <2>2, <2>3, <2>4, <2>5, <2>6 DEF OnceInv, Untouched
<1>6. QED BY <1>2, <1>3, <1>4, <1>5, CallIsQuiet

\* What was rejected was not performed, and no redemption of it is under way.
RejectInv ==
  \A i \in Ids : rows[i].status = "rejected" =>
    /\ \A p \in Processes : runs[p][i] = 0
    /\ \A t \in Threads :
         pc[t] \in {"approve_mark", "execute", "record"} => arg[t] # i

\* A step that rejects at most pending rows no redemption has looked at.
LEMMA RejectQuiet ==
  ASSUME OnceInv, RejectInv, Quiet,
         \A i \in Ids : rows'[i].status = "rejected" =>
           \/ rows[i].status = "rejected"
           \/ /\ rows[i].status = "pending"
              /\ \A u \in Threads : pc[u] = "approve_mark" => arg[u] # i
  PROVE  RejectInv'
  BY DEF OnceInv, RejectInv, Quiet, StillAt

\* Of two calls of one process, one rejects and one redeems: the lock keeps
\* the look and the mark of each together.
LEMMA RejectCall ==
  ASSUME NEW P, TypesAt(P), CallOK, LockMatchesCall, OnceInv, RejectInv,
         \A p, q \in Processes : p = q, NEW t \in Threads, TokenCall(t)
  PROVE  RejectInv'
<1>1. /\ pc \in [Threads -> P] /\ arg \in [Threads -> Ids \cup {None}]
      /\ ProcessOf \in [Threads -> Processes]
      /\ runs \in [Processes -> [Ids -> Nat]]
      /\ rows \in [Ids -> Row]
  BY ThreadsAssumption DEF TypesAt, StoreTypeOK
<1>2. CASE Quiet
  <2>1. CASE RejectMark(t)
    <3>1. /\ pc[t] = "reject_mark" /\ arg[t] \in Ids
          /\ rows' = MarkPendingDecision(rows, arg[t], "rejected")
      BY <2>1 DEF RejectMark, At, CallOK
    <3>2. /\ \A i \in Ids \ {arg[t]} : rows'[i] = rows[i]
          /\ ClosesTo(rows, rows', {"rejected"})
      BY <1>1, <3>1, MarkPendingDecisionCloses DEF Statuses
    <3>3. \A u \in Threads : pc[u] \in LockedPcs => u = t
      BY <1>1, <3>1 DEF LockMatchesCall, LockedPcs
    <3>4. \A u \in Threads : pc[u] # "approve_mark"
      BY <3>1, <3>3 DEF LockedPcs
    <3>5. QED BY <1>2, <3>2, <3>4, RejectQuiet DEF ClosesTo
  <2>2. ASSUME \A i \in Ids : rows'[i].status = "rejected" =>
                                rows[i].status = "rejected"
        PROVE  RejectInv'
    BY <1>2, <2>2, RejectQuiet
  <2>3. ASSUME rows' = rows PROVE RejectInv'
    BY <2>2, <2>3
  <2>4. ASSUME NEW s \in Statuses \ {"rejected"}, ClosesTo(rows, rows', {s})
        PROVE  RejectInv'
    BY <2>2, <2>4 DEF ClosesTo
  <2>5. {"expired", "cancelled", "approved", "completed", "failed"}
          \subseteq Statuses \ {"rejected", "pending"}
    BY DEF Statuses
  <2>6. ASSUME NEW i \in Ids, CreatePending(t, i) PROVE RejectInv'
    <3>1. /\ ExpirePending(rows) \in [Ids -> Row]
          /\ ClosesTo(rows, ExpirePending(rows), {"expired"})
      BY <1>1, ExpirePendingCloses
    <3>2. /\ rows'[i].status = "pending"
          /\ \A j \in Ids \ {i} : rows'[j] = ExpirePending(rows)[j]
      BY <2>6, <3>1 DEF CreatePending, TokenRow
    <3>3. QED BY <2>2, <3>1, <3>2 DEF ClosesTo
  <2>7. ASSUME NEW i \in Ids, ApproveBegin(t, i) \/ RejectBegin(t, i)
        PROVE  RejectInv'
    BY <1>1, <2>4, <2>5, <2>7, ExpirePendingCloses DEF ApproveBegin, RejectBegin
  <2>8. ASSUME NEW good \in BOOLEAN, ApproveRefuse(t, good) \/ ApproveLoad(t, good)
        PROVE  RejectInv'
    BY <2>3, <2>8 DEF ApproveRefuse, ApproveLoad
  <2>9. ASSUME NEW good \in BOOLEAN,
               ApproveTooLate(t, good) \/ ApproveStopped(t, good)
        PROVE  RejectInv'
    <3>1. PICK s \in {"expired", "cancelled"} :
                 rows' = MarkPendingDecision(rows, arg[t], s)
      BY <2>9 DEF ApproveTooLate, ApproveStopped
    <3>2. arg[t] \in Ids /\ s \in Statuses \ {"rejected"} /\ s # "pending"
      BY <2>5, <2>9 DEF ApproveTooLate, ApproveStopped, At, CallOK
    <3>3. QED BY <1>1, <2>4, <3>1, <3>2, MarkPendingDecisionCloses
  <2>10. CASE ApproveMark(t)
    BY <2>4, <2>5, <2>10, MarkDecides
  <2>11. CASE ApproveBlocked(t) \/ Execute(t) \/ RejectRefuse(t) \/ RejectLoad(t)
              \/ StopSet(t) \/ StopReset(t)
    BY <2>3, <2>11
       DEF ApproveBlocked, Execute, RejectRefuse, RejectLoad, StopSet, StopReset
  <2>12. ASSUME NEW s \in {"completed", "failed"}, Record(t, s)
         PROVE  RejectInv'
    <3>1. rows' = [rows EXCEPT ![arg[t]].status = s] /\ s # "rejected"
      BY <2>12 DEF Record, SetApprovalStatus
    <3>2. \A i \in Ids : rows'[i] = rows[i] \/ rows'[i].status = s
      BY <1>1, <3>1 DEF Row
    <3>3. QED BY <2>2, <3>1, <3>2
  <2>13. CASE StopBegin(t) \/ StopCancel(t)
    BY <1>1, <2>4, <2>5, <2>13, ExpirePendingCloses,
       MarkAllPendingCancelledCloses DEF StopBegin, StopCancel
  <2>14. QED
    BY <2>1, <2>6, <2>7, <2>8, <2>9, <2>10, <2>11, <2>12, <2>13 DEF TokenCall
<1>3. ASSUME NEW good \in BOOLEAN, ApproveLoad(t, good) PROVE RejectInv'
  <2>1. /\ UNCHANGED <<runs, rows, arg>> /\ arg[t] \in Ids
        /\ rows[arg[t]].status = "pending"
        /\ pc' = [pc EXCEPT ![t] = "approve_mark"]
    BY <1>3, LoadFinds
  <2>2. QED BY <1>1, <2>1 DEF RejectInv
<1>4. CASE ApproveMark(t)
  <2>1. /\ UNCHANGED <<runs, arg>> /\ arg[t] \in Ids
        /\ pc[t] = "approve_mark"
        /\ pc' = [pc EXCEPT ![t] = "execute"]
        /\ ClosesTo(rows, rows', {"approved"})
    BY <1>4, MarkDecides
  <2>2. \A i \in Ids : rows'[i].status = "rejected" => rows[i].status = "rejected"
    BY <2>1 DEF ClosesTo
  <2>3. QED BY <1>1, <2>1, <2>2 DEF RejectInv
<1>5. CASE Execute(t)
  <2>1. /\ UNCHANGED <<rows, arg>> /\ arg[t] \in Ids
        /\ pc[t] = "execute"
        /\ pc' = [pc EXCEPT ![t] = "record"]
        /\ runs' = [runs EXCEPT ![ProcessOf[t]][arg[t]] = @ + 1]
    BY <1>5 DEF Execute, At, Goto, CallOK
  <2>2. \A q \in Processes, i \in Ids :
          i # arg[t] => runs'[q][i] = runs[q][i]
    BY <1>1, <2>1
  <2>3. QED BY <1>1, <2>1, <2>2 DEF RejectInv
<1>6. QED BY <1>2, <1>3, <1>4, <1>5, CallIsQuiet
-----------------------------------------------------------------------------
\* Restarts, sweeps and the clock perform nothing.
LEMMA RestartQuiet == ASSUME NEW p \in Processes, Restart(p) PROVE Quiet
  BY DEF Restart, RestartStore, Quiet, StillAt, Advances

LEMMA ClockQuiet ==
  ASSUME rows \in [Ids -> Row], Sweep \/ Tick, UNCHANGED <<stop, runs>>
  PROVE  Quiet /\ UNCHANGED <<lock, pc, arg>>
<1>1. ClosesTo(rows, ExpirePending(rows), {"expired"})
  BY ExpirePendingCloses
<1>2. CASE Sweep
  BY <1>1, <1>2, ClosingAdvances DEF Closings, Sweep, Quiet, StillAt
<1>3. CASE Tick
  BY <1>3 DEF Tick, Quiet, StillAt, Advances
<1>4. QED BY <1>2, <1>3

LEMMA Inductive == TokenSpec => []IndInv
<1>1. TokenInit => IndInv
  <2>1. TokenInit => CallOK /\ LockMatchesCall /\ OnceInv
    BY ThreadsAssumption, NoneAssumption
       DEF TokenInit, StoreInit, CallOK, LockMatchesCall, LockedPcs, OnceInv,
           Untouched
  <2>2. QED BY <2>1, TypeInit DEF IndInv
<1>2. IndInv /\ [TokenNext]_tokenVars => IndInv'
  <2> SUFFICES ASSUME IndInv, [TokenNext]_tokenVars PROVE IndInv'
    OBVIOUS
  <2>1. /\ TypesAt(TokenPcs) /\ CallOK /\ LockMatchesCall /\ OnceInv
        /\ (TypesAt(TokenPcs)' => TokenTypeOK')
    BY DEF IndInv, TokenTypeOK, TypesAt
  <2>2. ASSUME NEW t \in Threads, TokenCall(t) PROVE IndInv'
    BY <2>1, <2>2, TypeCall, CallCall, LockCall, OnceCall DEF IndInv
  <2>3. ASSUME NEW p \in Processes, Restart(p) PROVE IndInv'
    <3>1. "idle" \in TokenPcs /\ RestartStore(p)
      BY <2>3 DEF TokenPcs, Restart
    <3>2. TypesAt(TokenPcs)' /\ LockMatchesCall'
      BY <2>1, <2>3, <3>1, TypeRestart, LockRestart DEF TypesAt, StoreTypeOK
    <3>3. Quiet
      BY <2>3, RestartQuiet
    <3>4. CallOK'
      <4>1. \A t \in Threads : pc'[t] # "idle" => pc'[t] = pc[t] /\ arg'[t] = arg[t]
        BY <3>1 DEF RestartStore
      <4>2. QED BY <2>1, <3>3, <4>1, CallQuiet DEF Quiet, StillAt
    <3>5. QED BY <2>1, <3>2, <3>3, <3>4, OnceQuiet DEF IndInv
  <2>4. CASE (Sweep \/ Tick) /\ UNCHANGED <<stop, runs>>
    <3>1. TypesAt(TokenPcs)'
      BY <2>1, <2>4, TypeClock
    <3>2. Quiet /\ UNCHANGED <<lock, pc, arg>>
      BY <2>1, <2>4, ClockQuiet DEF TypesAt, StoreTypeOK
    <3>3. CallOK' /\ LockMatchesCall'
      BY <2>1, <3>2, CallQuiet DEF Quiet, StillAt, LockMatchesCall
    <3>4. QED BY <2>1, <3>1, <3>2, <3>3, OnceQuiet DEF IndInv
  <2>5. CASE UNCHANGED tokenVars
    <3>1. TokenTypeOK' /\ CallOK' /\ LockMatchesCall' /\ OnceInv'
      BY <2>5 DEF tokenVars, IndInv, TokenTypeOK, StoreTypeOK, CallOK,
                  LockMatchesCall, OnceInv, Untouched
    <3>2. QED BY <3>1 DEF IndInv
  <2>6. QED BY <2>2, <2>3, <2>4, <2>5 DEF TokenNext
<1>3. QED BY <1>1, <1>2, PTL DEF TokenSpec

\* Type correctness of the token protocol.
THEOREM TokenTypeCorrect == TokenSpec => []TokenTypeOK
<1>1. IndInv => TokenTypeOK
  BY DEF IndInv
<1>2. QED BY <1>1, Inductive, PTL

\* One process performs an action at most once, however its code is redeemed.
THEOREM OncePerProcess == TokenSpec => []PerformedOncePerProcess
<1>1. IndInv => PerformedOncePerProcess
  BY DEF IndInv, OnceInv, PerformedOncePerProcess
<1>2. QED BY <1>1, Inductive, PTL

\* With one process over the store, an action is performed at most once.
THEOREM OnceInOneProcess ==
  ASSUME \A p, q \in Processes : p = q
  PROVE  TokenSpec => []PerformedOnce
<1>1. IndInv => PerformedOnce
  BY DEF IndInv, OnceInv, PerformedOnce
<1>2. QED BY <1>1, Inductive, PTL

-----------------------------------------------------------------------------
(***************************************************************************)
(* Deferred consent, and the kernel that runs both doors.                  *)
(***************************************************************************)
DeferredTypesAt(P) ==
  /\ StoreTypeOK
  /\ pc \in [Threads -> P]
  /\ turn \in [Origins -> Nat]
  /\ window \in Windows \cup {None}
  /\ seen \in [Threads -> Ids \cup {None}]
  /\ reading \in [Threads -> Windows \cup {None}]
  /\ performed \in [Ids -> Nat]
  /\ answerer \in [Ids -> Origins \cup {None}]
  /\ newer \in [Threads -> SUBSET Ids]
  /\ others \in [Threads -> Nat]

\* The row i was staged by thread t's origin.
StagedBy(t, i) == /\ i \in Ids
                  /\ rows[i].status # "absent"
                  /\ rows[i].consent = "deferred"
                  /\ rows[i].origin = OriginOf[t]

\* An answer is about a row of its own origin, and so is a comparison with
\* the window.
AnswerKnows ==
  \A t \in Threads :
    /\ pc[t] \in {"claim", "deny", "perform"} => StagedBy(t, arg[t])
    /\ pc[t] \in {"turn_check", "witness_check", "restage"} =>
         StagedBy(t, seen[t]) /\ rows[seen[t]].witness # None

\* Thread t goes from one place of deferred consent to another, and no other
\* thread moves.
Steps(t, l) ==
  /\ pc[t] \in DeferredPcs /\ l \in DeferredPcs
  /\ pc' = [pc EXCEPT ![t] = l]
  /\ \E x \in Ids \cup {None} : arg' = [arg EXCEPT ![t] = x]
  /\ \E x \in Ids \cup {None} : seen' = [seen EXCEPT ![t] = x]
  /\ \E x \in Windows \cup {None} : reading' = [reading EXCEPT ![t] = x]

\* The two statements of staging: what is left of the table, and the row.
LEMMA StagedTable ==
  ASSUME rows \in [Ids -> Row], now \in 0..MaxTime, turn \in [Origins -> Nat],
         NEW o \in Origins, NEW i \in Ids, rows[i].status = "absent",
         NEW w \in Windows \cup {None}, NEW n \in Nat,
         rows' = Staged(o, i, w, n)
  PROVE  /\ rows' \in [Ids -> Row]
         /\ Advances
         /\ rows'[i].status = "pending"   /\ rows'[i].consent = "deferred"
         /\ rows'[i].origin = o           /\ rows'[i].witness = w
         /\ \A j \in Ids \ {i} :
              /\ \/ rows'[j] = rows[j]
                 \/ /\ rows[j].status = "pending"
                    /\ rows'[j].status \in {"expired", "cancelled"}
                    /\ SameQuestion(rows'[j], rows[j])
              /\ rows[j].consent = "deferred" /\ rows[j].origin = o
                   => rows'[j].status # "pending"
<1> DEFINE r1 == ExpirePending(rows)
           r2 == SupersedeDeferred(r1, o)
           S  == {j \in Ids : r1[j].consent = "deferred" /\ r1[j].origin = o}
           d  == DeferredRow(o, w, turn[o], n)
<1>1. r1 \in [Ids -> Row] /\ ClosesTo(rows, r1, {"expired"})
  BY ExpirePendingCloses
<1>2. r2 = UpdatePending(r1, S, "cancelled") /\ "cancelled" \in Statuses
  BY DEF SupersedeDeferred, Statuses
<1> HIDE DEF r1, r2, S
<1>3. /\ r2 \in [Ids -> Row] /\ ClosesTo(r1, r2, {"cancelled"})
      /\ \A j \in Ids : j \in S => r2[j].status # "pending"
  BY <1>1, <1>2, UpdatePendingCloses
<1>4. \A j \in Ids : \/ r2[j] = rows[j]
                     \/ /\ rows[j].status = "pending"
                        /\ r2[j].status \in {"expired", "cancelled"}
                        /\ SameQuestion(r2[j], rows[j])
  BY <1>1, <1>3 DEF ClosesTo, SameQuestion
<1>5. \A j \in Ids : rows[j].consent = "deferred" /\ rows[j].origin = o
                     => r2[j].status # "pending"
  <2>1. \A j \in Ids : SameQuestion(r1[j], rows[j])
    BY <1>1 DEF ClosesTo, SameQuestion
  <2>2. QED BY <1>3, <2>1 DEF S, SameQuestion
<1>6. /\ d \in Row /\ d.status = "pending" /\ d.consent = "deferred"
      /\ d.origin = o /\ d.witness = w
  <2>1. turn[o] \in Nat /\ now + TTL \in Nat
    BY TimeAssumption
  <2>2. QED BY <2>1 DEF DeferredRow, Row, Statuses
<1>7. rows' = [r2 EXCEPT ![i] = d]
  BY DEF Staged, r1, r2
<1> HIDE DEF d
<1>8. {"expired", "cancelled"} \in SUBSET Closings
  BY DEF Closings
<1>9. /\ Advances /\ rows' \in [Ids -> Row] /\ rows'[i] = d
      /\ \A j \in Ids \ {i} : rows'[j] = r2[j]
  BY <1>3, <1>4, <1>6, <1>7, <1>8, InsertAdvances DEF ClosesTo
<1>10. QED BY <1>4, <1>5, <1>6, <1>9

\* The row that one step inserts carries a witness only for an origin that
\* takes turns.
LEMMA StageInputs ==
  ASSUME NEW P, DeferredTypesAt(P), NEW t \in Threads, NEW w \in Witnesses(t)
  PROVE  /\ w \in Windows \cup {None}
         /\ OriginOf[t] \in Origins
         /\ w # None => OriginOf[t] \in WitnessOrigins
  BY OriginAssumption DEF Witnesses, DeferredTypesAt

\* A row that is not there is nobody's question, and only rows of an origin
\* that takes turns carry a witness.
RowsOK ==
  \A i \in Ids :
    /\ rows[i].status = "absent" => rows[i].consent = "token"
    /\ rows[i].witness # None =>
         rows[i].consent = "deferred" /\ rows[i].origin \in WitnessOrigins

\* What a call of thread t may insert: a question of its origin, every other
\* one of which is closed in the same step.
Inserts(t) ==
  \A i \in Ids : rows[i].status = "absent" =>
    \/ rows'[i] = rows[i]
    \/ /\ rows'[i].status = "pending" /\ rows'[i].consent = "deferred"
       /\ rows'[i].origin = OriginOf[t]
       /\ rows'[i].witness # None => OriginOf[t] \in WitnessOrigins
       /\ \A j \in Ids \ {i} :
            /\ rows'[j].status = "pending" => rows'[j] = rows[j]
            /\ rows[j].consent = "deferred" /\ rows[j].origin = OriginOf[t]
                 => rows'[j].status # "pending"

\* What deferred consent makes of a row that is there: nothing, or of a
\* pending one a decision, which is a yes or a no only for a deferred row.
Decides ==
  \A i \in Ids : rows[i].status # "absent" =>
    \/ rows'[i] = rows[i]
    \/ /\ rows[i].status = "pending"
       /\ \/ rows'[i].status \in {"expired", "cancelled"}
          \/ /\ rows'[i].status \in {"approved", "rejected"}
             /\ rows[i].consent = "deferred"

DeferredEffect(t) == rows' \in [Ids -> Row] /\ Advances /\ Decides /\ Inserts(t)

\* Closing rows, staging one and deciding one are all a call does to the table.
LEMMA CloseEffect ==
  ASSUME rows \in [Ids -> Row], rows' \in [Ids -> Row], NEW t,
         NEW s \in {"expired", "cancelled"}, ClosesTo(rows, rows', {s})
  PROVE  DeferredEffect(t)
<1>1. {s} \in SUBSET Closings
  BY DEF Closings
<1>2. Advances
  BY <1>1, ClosingAdvances
<1>3. QED BY <1>2 DEF DeferredEffect, ClosesTo, Decides, Inserts

LEMMA AnswerEffect ==
  ASSUME rows \in [Ids -> Row], NEW t, NEW i \in Ids,
         NEW s \in {"expired", "cancelled", "approved", "rejected"},
         s \in {"approved", "rejected"} => rows[i].consent = "deferred",
         rows' = MarkPendingDecision(rows, i, s)
  PROVE  DeferredEffect(t)
<1>1. {s} \in SUBSET Closings /\ s \in Statuses /\ s # "pending"
  BY DEF Closings, Statuses
<1>2. /\ rows' \in [Ids -> Row] /\ ClosesTo(rows, rows', {s})
      /\ \A j \in Ids \ {i} : rows'[j] = rows[j]
  BY <1>1, MarkPendingDecisionCloses
<1>3. Advances
  BY <1>1, <1>2, ClosingAdvances
<1>4. QED BY <1>2, <1>3 DEF DeferredEffect, ClosesTo, Decides, Inserts

LEMMA StageEffect ==
  ASSUME NEW P, DeferredTypesAt(P), NEW t \in Threads,
         NEW i \in Ids, rows[i].status = "absent",
         NEW w \in Windows \cup {None}, NEW n \in Nat,
         w # None => OriginOf[t] \in WitnessOrigins,
         rows' = Staged(OriginOf[t], i, w, n)
  PROVE  DeferredEffect(t)
<1>1. OriginOf[t] \in Origins
  BY OriginAssumption
<1>2. /\ rows \in [Ids -> Row] /\ now \in 0..MaxTime /\ turn \in [Origins -> Nat]
  BY DEF DeferredTypesAt, StoreTypeOK
<1>3. /\ rows' \in [Ids -> Row]
      /\ Advances
      /\ rows'[i].status = "pending"   /\ rows'[i].consent = "deferred"
      /\ rows'[i].origin = OriginOf[t] /\ rows'[i].witness = w
      /\ \A j \in Ids \ {i} :
           /\ \/ rows'[j] = rows[j]
              \/ /\ rows[j].status = "pending"
                 /\ rows'[j].status \in {"expired", "cancelled"}
                 /\ SameQuestion(rows'[j], rows[j])
           /\ rows[j].consent = "deferred" /\ rows[j].origin = OriginOf[t]
                => rows'[j].status # "pending"
  BY <1>1, <1>2, StagedTable
<1>4. QED BY <1>3 DEF DeferredEffect, Decides, Inserts

LEMMA DeferredCallEffect ==
  ASSUME NEW P, DeferredTypesAt(P), AnswerKnows, RowsOK,
         NEW t \in Threads, DeferredCall(t)
  PROVE  /\ DeferredEffect(t)
         /\ now' = now
         /\ \E l \in DeferredPcs : Steps(t, l)
<1> DEFINE Goal == /\ DeferredEffect(t)
                   /\ now' = now
                   /\ \E l \in DeferredPcs : Steps(t, l)
<1>1. /\ rows \in [Ids -> Row] /\ now \in 0..MaxTime
      /\ arg \in [Threads -> Ids \cup {None}] /\ pc \in [Threads -> P]
      /\ seen \in [Threads -> Ids \cup {None}]
      /\ reading \in [Threads -> Windows \cup {None}]
      /\ window \in Windows \cup {None}
  BY DEF DeferredTypesAt, StoreTypeOK
<1>2. /\ pc = [pc EXCEPT ![t] = pc[t]]
      /\ arg = [arg EXCEPT ![t] = arg[t]] /\ arg[t] \in Ids \cup {None}
      /\ seen = [seen EXCEPT ![t] = seen[t]] /\ seen[t] \in Ids \cup {None}
      /\ reading = [reading EXCEPT ![t] = reading[t]]
      /\ reading[t] \in Windows \cup {None}
  BY <1>1
<1>3. ASSUME rows' = rows PROVE DeferredEffect(t)
  BY <1>1, <1>3 DEF DeferredEffect, Advances, Decides, Inserts
<1>4. ASSUME rows' = ExpirePending(rows) PROVE DeferredEffect(t)
  BY <1>1, <1>4, ExpirePendingCloses, CloseEffect
<1> USE DEF At, Goto, Enter, Finish, FinishStaging, EndCall, Steps,
          DeferredPcs, deferredOnly, history
<1>5. ASSUME NEW i \in Ids, NEW w \in Witnesses(t), StageDeferred(t, i, w)
      PROVE  Goal
  <2>1. DeferredEffect(t)
    BY <1>5, StageEffect, StageInputs DEF StageDeferred
  <2>2. QED BY <1>2, <1>5, <2>1 DEF StageDeferred
<1>6. ASSUME NEW id \in Given(t), ApproveDeferred(t, id) \/ DenyDeferred(t, id)
      PROVE  Goal
  <2>1. id \in Ids \cup {None}
    BY DEF Given
  <2>2. QED BY <1>2, <1>4, <1>6, <2>1 DEF ApproveDeferred, DenyDeferred
<1>7. CASE PeekUnwitnessed(t) \/ InTurn(t) \/ WitnessMatches(t)
           \/ SelectNothing(t, "claim_select") \/ SelectNothing(t, "deny_select")
           \/ ClaimLost(t) \/ Perform(t) \/ OtherTurn(t) \/ BumpTurn(t)
           \/ TurnLost(t)
  <2>1. rows' = rows /\ now' = now
    BY <1>7 DEF PeekUnwitnessed, InTurn, WitnessMatches, SelectNothing,
                ClaimLost, Perform, OtherTurn, BumpTurn, TurnLost
  <2>2. \E l \in DeferredPcs : Steps(t, l)
    BY <1>2, <1>7
       DEF PeekUnwitnessed, InTurn, WitnessMatches, SelectNothing,
           ClaimLost, Perform, OtherTurn, BumpTurn, TurnLost
  <2>3. QED BY <1>3, <2>1, <2>2
<1>8. ASSUME NEW i \in Ids, Peek(t, i) PROVE Goal
  BY <1>2, <1>3, <1>8 DEF Peek
<1>9. CASE StaleTurn(t) \/ WitnessRefuses(t) \/ WitnessMismatch(t)
  <2>1. seen[t] \in Ids
    BY <1>9 DEF StaleTurn, WitnessRefuses, WitnessMismatch, AnswerKnows, StagedBy
  <2>2. DeferredEffect(t)
    BY <1>1, <1>9, <2>1, AnswerEffect
       DEF StaleTurn, WitnessRefuses, WitnessMismatch
  <2>3. QED
    BY <1>1, <1>2, <1>9, <2>2 DEF StaleTurn, WitnessRefuses, WitnessMismatch
<1>10. ASSUME NEW i \in Ids, Restage(t, i) PROVE Goal
  <2>1. /\ seen[t] \in Ids /\ rows[seen[t]].witness # None
        /\ rows[seen[t]].origin = OriginOf[t]
    BY <1>10 DEF Restage, AnswerKnows, StagedBy
  <2>2. OriginOf[t] \in WitnessOrigins /\ rows[seen[t]].reask + 1 \in Nat
    BY <1>1, <2>1 DEF RowsOK, Row
  <2>3. DeferredEffect(t)
    BY <1>2, <1>10, <2>2, StageEffect DEF Restage
  <2>4. QED BY <1>2, <1>10, <2>3 DEF Restage
<1>11. CASE ClaimSweep(t)
  BY <1>2, <1>4, <1>11 DEF ClaimSweep
<1>12. ASSUME NEW i \in Ids,
              \/ Select(t, i, "claim_select", "claim")
              \/ Select(t, i, "deny_select", "deny")
       PROVE  Goal
  BY <1>2, <1>3, <1>12 DEF Select
<1>13. CASE Claim(t) \/ Deny(t)
  <2>1. StagedBy(t, arg[t])
    BY <1>13 DEF Claim, Deny, AnswerKnows
  <2>2. DeferredEffect(t)
    BY <1>1, <1>13, <2>1, AnswerEffect DEF Claim, Deny, StagedBy
  <2>3. QED BY <1>2, <1>13, <2>2 DEF Claim, Deny
<1>14. QED
  BY <1>5, <1>6, <1>7, <1>8, <1>9, <1>10, <1>11, <1>12, <1>13
     DEF DeferredCall, Answering

\* Steps that insert no row.
LEMMA NothingInserted ==
  ASSUME NEW P, DeferredTypesAt(P), AnswerKnows, NEW t \in Threads,
         \/ UNCHANGED rows
         \/ rows' = ExpirePending(rows)
         \/ \E i \in Ids, s \in {"cancelled", "approved", "rejected"} :
              rows' = MarkPendingDecision(rows, i, s)
  PROVE  \A i \in Ids : rows[i].status = "absent" => rows'[i].status = "absent"
<1>1. rows \in [Ids -> Row]
  BY DEF DeferredTypesAt, StoreTypeOK
<1>2. CASE rows' = ExpirePending(rows)
  BY <1>1, <1>2, ExpirePendingCloses DEF ClosesTo
<1>3. ASSUME NEW i \in Ids, NEW s \in {"cancelled", "approved", "rejected"},
             rows' = MarkPendingDecision(rows, i, s)
      PROVE  \A j \in Ids : rows[j].status = "absent" => rows'[j].status = "absent"
  <2>1. s \in Statuses /\ s # "pending"
    BY DEF Statuses
  <2>2. ClosesTo(rows, rows', {s})
    BY <1>1, <1>3, <2>1, MarkPendingDecisionCloses
  <2>3. QED BY <2>2 DEF ClosesTo
<1>4. QED BY <1>2, <1>3

\* What a loop stages is noted with the answers of its origin that have yet to
\* choose a row.
LEMMA StagingNoted ==
  ASSUME NEW P, DeferredTypesAt(P), AnswerKnows, RowsOK,
         NEW t \in Threads, DeferredCall(t)
  PROVE  /\ newer' \in [Threads -> SUBSET Ids]
         /\ \A u \in Threads \ {t} : newer[u] \subseteq newer'[u]
         /\ \A i \in Ids, u \in Peeked(t) :
              rows[i].status = "absent" /\ rows'[i].status # "absent"
                => i \in newer'[u]
<1> DEFINE Goal ==
      /\ newer' \in [Threads -> SUBSET Ids]
      /\ \A u \in Threads \ {t} : newer[u] \subseteq newer'[u]
      /\ \A i \in Ids, u \in Peeked(t) :
           rows[i].status = "absent" /\ rows'[i].status # "absent"
             => i \in newer'[u]
<1> SUFFICES Goal
  OBVIOUS
<1>1. /\ newer \in [Threads -> SUBSET Ids] /\ rows \in [Ids -> Row]
      /\ now \in 0..MaxTime /\ turn \in [Origins -> Nat]
      /\ window \in Windows \cup {None}
      /\ reading \in [Threads -> Windows \cup {None}]
  BY DEF DeferredTypesAt, StoreTypeOK
<1>2. ASSUME NEW i \in Ids, NEW w \in Windows \cup {None}, NEW n \in Nat,
             rows[i].status = "absent", rows' = Staged(OriginOf[t], i, w, n),
             FinishStaging(t, i)
      PROVE  Goal
  <2>1. OriginOf[t] \in Origins
    BY OriginAssumption
  <2>2. \A j \in Ids \ {i} : \/ rows'[j] = rows[j]
                             \/ rows[j].status = "pending"
    BY <1>1, <1>2, <2>1, StagedTable
  <2>3. newer' = [u \in Threads |-> IF u = t THEN {}
                                    ELSE IF u \in Peeked(t) THEN newer[u] \cup {i}
                                    ELSE newer[u]]
    BY <1>2 DEF FinishStaging
  <2>4. Peeked(t) \subseteq Threads \ {t}
    BY DEF Peeked
  <2>5. newer' \in [Threads -> SUBSET Ids]
    BY <1>1, <2>3
  <2>6. ASSUME NEW j \in Ids, NEW u \in Peeked(t),
               rows[j].status = "absent", rows'[j].status # "absent"
        PROVE  j \in newer'[u]
    <3>1. j = i
      BY <2>2, <2>6
    <3>2. newer'[u] = newer[u] \cup {i}
      BY <2>3, <2>4
    <3>3. QED BY <3>1, <3>2
  <2>7. \A u \in Threads \ {t} : newer[u] \subseteq newer'[u]
    BY <2>3
  <2>8. QED BY <2>5, <2>6, <2>7
<1>3. ASSUME \/ newer' = newer
             \/ newer' = [newer EXCEPT ![t] = {}],
             \A i \in Ids : rows[i].status = "absent" => rows'[i].status = "absent"
      PROVE  Goal
  <2>1. newer' \in [Threads -> SUBSET Ids]
    BY <1>1, <1>3
  <2>2. \A u \in Threads \ {t} : newer[u] \subseteq newer'[u]
    BY <1>1, <1>3
  <2>3. QED BY <1>3, <2>1, <2>2
<1>4. ASSUME NEW i \in Ids, NEW w \in Witnesses(t), StageDeferred(t, i, w)
      PROVE  Goal
  BY <1>2, <1>4, StageInputs DEF StageDeferred
<1>5. ASSUME NEW i \in Ids, Restage(t, i) PROVE Goal
  <2>1. seen[t] \in Ids
    BY <1>5 DEF Restage, At, AnswerKnows, StagedBy
  <2>2. rows[seen[t]].reask + 1 \in Nat /\ reading[t] \in Windows \cup {None}
    BY <1>1, <2>1 DEF Row
  <2>3. QED BY <1>2, <1>5, <2>2 DEF Restage
<1> USE DEF Finish, deferredOnly, history
<1>6. CASE StaleTurn(t) \/ WitnessRefuses(t) \/ WitnessMismatch(t)
  <2>1. seen[t] \in Ids
    BY <1>6 DEF StaleTurn, WitnessRefuses, WitnessMismatch, At, AnswerKnows, StagedBy
  <2>2. /\ rows' = MarkPendingDecision(rows, seen[t], "cancelled")
        /\ newer' = newer \/ newer' = [newer EXCEPT ![t] = {}]
    BY <1>6 DEF StaleTurn, WitnessRefuses, WitnessMismatch
  <2>3. QED BY <1>3, <2>1, <2>2, NothingInserted
<1>7. CASE Claim(t) \/ Deny(t)
  <2>1. arg[t] \in Ids
    BY <1>7 DEF Claim, Deny, At, AnswerKnows, StagedBy
  <2>2. /\ \E s \in {"approved", "rejected"} :
             rows' = MarkPendingDecision(rows, arg[t], s)
        /\ newer' = newer \/ newer' = [newer EXCEPT ![t] = {}]
    BY <1>7 DEF Claim, Deny
  <2>3. QED BY <1>3, <2>1, <2>2, NothingInserted
<1>8. ASSUME NEW id \in Given(t), ApproveDeferred(t, id) \/ DenyDeferred(t, id)
      PROVE  Goal
  <2>1. rows' = ExpirePending(rows) /\ newer' = newer
    BY <1>8 DEF ApproveDeferred, DenyDeferred
  <2>2. QED BY <1>3, <2>1, NothingInserted
<1>9. CASE ClaimSweep(t)
  <2>1. rows' = ExpirePending(rows) /\ newer' = newer
    BY <1>9 DEF ClaimSweep
  <2>2. QED BY <1>3, <2>1, NothingInserted
<1>10. CASE \/ PeekUnwitnessed(t) \/ InTurn(t) \/ WitnessMatches(t)
            \/ SelectNothing(t, "claim_select") \/ SelectNothing(t, "deny_select")
            \/ ClaimLost(t) \/ Perform(t) \/ OtherTurn(t) \/ BumpTurn(t)
            \/ TurnLost(t)
  <2>1. rows' = rows /\ (newer' = newer \/ newer' = [newer EXCEPT ![t] = {}])
    BY <1>10 DEF PeekUnwitnessed, InTurn, WitnessMatches, SelectNothing,
                 ClaimLost, Perform, OtherTurn, BumpTurn, TurnLost
  <2>2. QED BY <1>3, <2>1
<1>11. ASSUME NEW i \in Ids,
              \/ Peek(t, i)
              \/ Select(t, i, "claim_select", "claim")
              \/ Select(t, i, "deny_select", "deny")
       PROVE  Goal
  <2>1. rows' = rows /\ newer' = newer
    BY <1>11 DEF Peek, Select
  <2>2. QED BY <1>3, <2>1
<1> HIDE DEF Goal, Finish, deferredOnly, history
<1>12. ASSUME Answering(t) PROVE Goal
  BY <1>5, <1>6, <1>7, <1>8, <1>9, <1>10, <1>11, <1>12 DEF Answering
<1>13. QED BY <1>4, <1>10, <1>12 DEF DeferredCall

\* A turn that a loop counts is noted with the answers of its origin that have
\* checked theirs.
LEMMA TurnsNoted ==
  ASSUME NEW P, DeferredTypesAt(P), NEW t \in Threads, DeferredCall(t)
  PROVE  /\ others' \in [Threads -> Nat]
         /\ \/ /\ turn' = turn
               /\ \A u \in Threads \ {t} : others'[u] = others[u]
            \/ /\ turn' = [turn EXCEPT ![OriginOf[t]] = @ + 1]
               /\ \A u \in Threads \ {t} :
                    others'[u] = IF u \in TurnChecked(t) THEN others[u] + 1
                                                         ELSE others[u]
<1>1. others \in [Threads -> Nat]
  BY DEF DeferredTypesAt
<1>2. CASE BumpTurn(t)
  <2>1. /\ turn' = [turn EXCEPT ![OriginOf[t]] = @ + 1]
        /\ others' = [u \in Threads |-> IF u \in TurnChecked(t) THEN others[u] + 1
                                                               ELSE others[u]]
    BY <1>2 DEF BumpTurn
  <2>2. others' \in [Threads -> Nat]
    BY <1>1, <2>1
  <2>3. QED BY <2>1, <2>2
<1>3. CASE /\ turn' = turn
           /\ others' = others \/ others' = [others EXCEPT ![t] = 0]
  <2>1. others' \in [Threads -> Nat]
    BY <1>1, <1>3
  <2>2. \A u \in Threads \ {t} : others'[u] = others[u]
    BY <1>1, <1>3
  <2>3. QED BY <1>3, <2>1, <2>2
<1>4. QED
  BY <1>2, <1>3
     DEF DeferredCall, Answering, StageDeferred, ApproveDeferred,
         DenyDeferred, PeekUnwitnessed, Peek, StaleTurn, InTurn,
         WitnessMatches, WitnessRefuses, WitnessMismatch, Restage,
         ClaimSweep, SelectNothing, Select, Claim, ClaimLost, Perform, Deny,
         OtherTurn, TurnLost, Finish, FinishStaging, EndCall, deferredOnly, history
-----------------------------------------------------------------------------
LEMMA DeferredTypeCall ==
  ASSUME NEW P, DeferredPcs \subseteq P, DeferredTypesAt(P), AnswerKnows,
         RowsOK, NEW t \in Threads, DeferredCall(t)
  PROVE  DeferredTypesAt(P)'
<1>1. /\ rows' \in [Ids -> Row] /\ now' = now
      /\ \E l \in DeferredPcs : Steps(t, l)
  BY DeferredCallEffect DEF DeferredEffect
<1>2. /\ pc' \in [Threads -> P]
      /\ arg' \in [Threads -> Ids \cup {None}]
      /\ seen' \in [Threads -> Ids \cup {None}]
      /\ reading' \in [Threads -> Windows \cup {None}]
      /\ now' \in 0..MaxTime
  BY <1>1 DEF Steps, DeferredTypesAt, StoreTypeOK
<1>3. ProcessOf[t] \in Processes /\ OriginOf[t] \in Origins
  BY ThreadsAssumption, OriginAssumption
<1> USE DEF DeferredTypesAt, StoreTypeOK, deferredOnly, history
<1>4. lock' \in [Processes -> Threads \cup {None}]
  <2>1. lock' = lock \/ Acquire(t) \/ Release(t)
    BY DEF DeferredCall, Answering, StageDeferred, ApproveDeferred,
           DenyDeferred, PeekUnwitnessed, Peek, StaleTurn, InTurn,
           WitnessMatches, WitnessRefuses, WitnessMismatch, Restage,
           ClaimSweep, SelectNothing, Select, Claim, ClaimLost, Perform, Deny,
           OtherTurn, BumpTurn, TurnLost
  <2>2. QED BY <1>3, <2>1 DEF Acquire, Release
<1>5. /\ turn' \in [Origins -> Nat] /\ window' = window
  <2>1. CASE BumpTurn(t)
    BY <1>3, <2>1 DEF BumpTurn
  <2>2. CASE turn' = turn /\ window' = window
    BY <2>2
  <2>3. QED
    BY <2>1, <2>2
       DEF DeferredCall, Answering, StageDeferred, ApproveDeferred,
           DenyDeferred, PeekUnwitnessed, Peek, StaleTurn, InTurn,
           WitnessMatches, WitnessRefuses, WitnessMismatch, Restage,
           ClaimSweep, SelectNothing, Select, Claim, ClaimLost, Perform, Deny,
           OtherTurn, TurnLost
<1>6. /\ performed' \in [Ids -> Nat]
      /\ answerer' \in [Ids -> Origins \cup {None}]
  <2>1. CASE Perform(t)
    <3>1. arg[t] \in Ids
      BY <2>1 DEF Perform, At, AnswerKnows, StagedBy
    <3>2. QED BY <2>1, <3>1 DEF Perform
  <2>2. CASE Claim(t) \/ Deny(t)
    BY <1>3, <2>2 DEF Claim, Deny
  <2>3. CASE performed' = performed /\ answerer' = answerer
    BY <2>3
  <2>4. QED
    BY <2>1, <2>2, <2>3
       DEF DeferredCall, Answering, StageDeferred, ApproveDeferred,
           DenyDeferred, PeekUnwitnessed, Peek, StaleTurn, InTurn,
           WitnessMatches, WitnessRefuses, WitnessMismatch, Restage,
           ClaimSweep, SelectNothing, Select, ClaimLost,
           OtherTurn, BumpTurn, TurnLost
<1>7. newer' \in [Threads -> SUBSET Ids] /\ others' \in [Threads -> Nat]
  BY StagingNoted, TurnsNoted
<1>8. QED BY <1>1, <1>2, <1>4, <1>5, <1>6, <1>7

\* A deferred answer takes the lock before it looks and gives it up with its
\* mark, won or lost.
LEMMA DeferredLockCall ==
  ASSUME NEW P, DeferredTypesAt(P), LockMatchesCall,
         NEW t \in Threads, DeferredCall(t)
  PROVE  LockMatchesCall'
<1> USE LockMoves
    DEF DeferredTypesAt, StoreTypeOK, LockedPcs, At, Goto, Enter, Finish,
        FinishStaging, EndCall
<1>1. ASSUME NEW i \in Ids, NEW w \in Witnesses(t), StageDeferred(t, i, w)
      PROVE  LockMatchesCall'
  BY <1>1 DEF StageDeferred
<1>2. ASSUME NEW id \in Given(t), ApproveDeferred(t, id) \/ DenyDeferred(t, id)
      PROVE  LockMatchesCall'
  BY <1>2 DEF ApproveDeferred, DenyDeferred
<1>3. CASE PeekUnwitnessed(t) \/ InTurn(t) \/ WitnessMatches(t) \/ ClaimSweep(t)
  BY <1>3 DEF PeekUnwitnessed, InTurn, WitnessMatches, ClaimSweep
<1>4. ASSUME NEW i \in Ids, Peek(t, i) PROVE LockMatchesCall'
  BY <1>4 DEF Peek
<1>5. CASE StaleTurn(t) \/ WitnessRefuses(t)
  BY <1>5 DEF StaleTurn, WitnessRefuses
<1>6. CASE WitnessMismatch(t)
  BY <1>6 DEF WitnessMismatch
<1>7. ASSUME NEW i \in Ids, Restage(t, i) PROVE LockMatchesCall'
  BY <1>7 DEF Restage
<1>8. CASE SelectNothing(t, "claim_select") \/ SelectNothing(t, "deny_select")
  BY <1>8 DEF SelectNothing
<1>9. ASSUME NEW i \in Ids, Select(t, i, "claim_select", "claim")
      PROVE  LockMatchesCall'
  BY <1>9 DEF Select
<1>10. ASSUME NEW i \in Ids, Select(t, i, "deny_select", "deny")
       PROVE  LockMatchesCall'
  BY <1>10 DEF Select
<1>11. CASE Claim(t)
  BY <1>11 DEF Claim
<1>12. CASE ClaimLost(t) \/ Deny(t)
  <2>1. PICK l \in {"turn_over", "idle"} : pc' = [pc EXCEPT ![t] = l]
    BY <1>12 DEF ClaimLost, Deny
  <2>2. Release(t) /\ pc[t] \in LockedPcs /\ l \notin LockedPcs
    BY <1>12 DEF ClaimLost, Deny
  <2>3. QED BY <2>1, <2>2
<1>13. CASE Perform(t)
  BY <1>13 DEF Perform
<1>14. CASE OtherTurn(t) \/ BumpTurn(t) \/ TurnLost(t)
  BY <1>14 DEF OtherTurn, BumpTurn, TurnLost
<1>15. QED
  BY <1>1, <1>2, <1>3, <1>4, <1>5, <1>6, <1>7, <1>8, <1>9, <1>10, <1>11,
     <1>12, <1>13, <1>14 DEF DeferredCall, Answering

\* The threads at the places S were there before, in the same call, and saw
\* the same row.
SameAt(S) ==
  \A t \in Threads : pc'[t] \in S =>
    /\ pc'[t] = pc[t] /\ arg'[t] = arg[t] /\ seen'[t] = seen[t]
    /\ newer'[t] = newer[t] /\ others'[t] = others[t]

AnswerPcs == {"claim", "deny", "perform", "turn_check", "witness_check", "restage"}

LEMMA KnowsQuiet ==
  ASSUME AnswerKnows, Advances, SameAt(AnswerPcs)
  PROVE  AnswerKnows'
<1> SUFFICES ASSUME NEW t \in Threads
             PROVE  /\ pc'[t] \in {"claim", "deny", "perform"} =>
                         StagedBy(t, arg[t])'
                    /\ pc'[t] \in {"turn_check", "witness_check", "restage"} =>
                         StagedBy(t, seen[t])' /\ rows'[seen'[t]].witness # None
  BY DEF AnswerKnows
<1>1. CASE pc'[t] \in AnswerPcs
  <2>1. pc'[t] = pc[t] /\ arg'[t] = arg[t] /\ seen'[t] = seen[t]
    BY <1>1 DEF SameAt
  <2>2. CASE pc[t] \in {"claim", "deny", "perform"}
    <3>1. StagedBy(t, arg[t]) /\ arg[t] \in Ids
      BY <2>2 DEF AnswerKnows, StagedBy
    <3>2. rows'[arg[t]].status # "absent" /\ SameQuestion(rows'[arg[t]], rows[arg[t]])
      BY <3>1, AdvancesKeep DEF StagedBy
    <3>3. QED BY <2>1, <2>2, <3>1, <3>2 DEF StagedBy, SameQuestion
  <2>3. CASE pc[t] \in {"turn_check", "witness_check", "restage"}
    <3>1. StagedBy(t, seen[t]) /\ seen[t] \in Ids /\ rows[seen[t]].witness # None
      BY <2>3 DEF AnswerKnows, StagedBy
    <3>2. rows'[seen[t]].status # "absent" /\ SameQuestion(rows'[seen[t]], rows[seen[t]])
      BY <3>1, AdvancesKeep DEF StagedBy
    <3>3. QED BY <2>1, <2>3, <3>1, <3>2 DEF StagedBy, SameQuestion
  <2>4. QED BY <1>1, <2>1, <2>2, <2>3 DEF AnswerPcs
<1>2. CASE pc'[t] \notin AnswerPcs
  BY <1>2 DEF AnswerPcs
<1>3. QED BY <1>1, <1>2

LEMMA KnowsCall ==
  ASSUME NEW P, DeferredTypesAt(P), AnswerKnows, RowsOK,
         NEW t \in Threads, DeferredCall(t)
  PROVE  AnswerKnows'
<1>1. /\ Advances /\ \E l \in DeferredPcs : Steps(t, l)
      /\ pc \in [Threads -> P] /\ arg \in [Threads -> Ids \cup {None}]
      /\ seen \in [Threads -> Ids \cup {None}]
  BY DeferredCallEffect DEF DeferredEffect, DeferredTypesAt, StoreTypeOK
<1>2. \A u \in Threads \ {t} : pc'[u] = pc[u] /\ arg'[u] = arg[u] /\ seen'[u] = seen[u]
  BY <1>1 DEF Steps
<1> DEFINE Knows ==
      /\ pc'[t] \in {"claim", "deny", "perform"} =>
           arg'[t] \in Ids /\ StagedBy(t, arg'[t])
      /\ pc'[t] \in {"turn_check", "witness_check", "restage"} =>
           /\ seen'[t] \in Ids /\ StagedBy(t, seen'[t])
           /\ rows[seen'[t]].witness # None
<1>3. Knows
  <2> USE <1>1 DEF AnswerKnows, At, Goto, Enter, Finish, FinishStaging, EndCall,
          deferredOnly, history
  <2>1. ASSUME NEW i \in Ids, NEW w \in Witnesses(t), StageDeferred(t, i, w)
        PROVE  Knows
    BY <2>1 DEF StageDeferred
  <2>2. ASSUME NEW id \in Given(t), ApproveDeferred(t, id) \/ DenyDeferred(t, id)
        PROVE  Knows
    BY <2>2 DEF ApproveDeferred, DenyDeferred
  <2>3. CASE PeekUnwitnessed(t) \/ ClaimSweep(t) \/ WitnessMatches(t)
    BY <2>3 DEF PeekUnwitnessed, ClaimSweep, WitnessMatches
  <2>4. ASSUME NEW i \in Ids, Peek(t, i) PROVE Knows
    BY <2>4 DEF Peek, WitnessedNow, DeferredPending, Pending, StagedBy
  <2>5. CASE InTurn(t) \/ WitnessMismatch(t)
    BY <2>5 DEF InTurn, WitnessMismatch, StagedBy
  <2>6. CASE StaleTurn(t) \/ WitnessRefuses(t)
    BY <2>6 DEF StaleTurn, WitnessRefuses
  <2>7. ASSUME NEW i \in Ids, Restage(t, i) PROVE Knows
    BY <2>7 DEF Restage
  <2>8. CASE SelectNothing(t, "claim_select") \/ SelectNothing(t, "deny_select")
    BY <2>8 DEF SelectNothing
  <2>9. ASSUME NEW i \in Ids,
               \/ Select(t, i, "claim_select", "claim")
               \/ Select(t, i, "deny_select", "deny")
        PROVE  Knows
    BY <2>9 DEF Select, Claimable, DeferredPending, Pending, StagedBy
  <2>10. CASE Claim(t)
    BY <2>10 DEF Claim, StagedBy
  <2>11. CASE ClaimLost(t) \/ Deny(t) \/ Perform(t)
    BY <2>11 DEF ClaimLost, Deny, Perform
  <2>12. CASE OtherTurn(t) \/ BumpTurn(t) \/ TurnLost(t)
    BY <2>12 DEF OtherTurn, BumpTurn, TurnLost
  <2>13. QED
    BY <2>1, <2>2, <2>3, <2>4, <2>5, <2>6, <2>7, <2>8, <2>9, <2>10, <2>11,
       <2>12 DEF DeferredCall, Answering
<1>4. \A u \in Threads, i \in Ids :
        StagedBy(u, i) => /\ rows'[i].status # "absent"
                          /\ rows'[i].consent = "deferred"
                          /\ rows'[i].origin = OriginOf[u]
                          /\ rows'[i].witness = rows[i].witness
  BY <1>1, AdvancesKeep DEF StagedBy, SameQuestion
<1>5. ASSUME NEW u \in Threads
      PROVE  /\ pc'[u] \in {"claim", "deny", "perform"} =>
                  arg'[u] \in Ids /\ StagedBy(u, arg'[u])
             /\ pc'[u] \in {"turn_check", "witness_check", "restage"} =>
                  /\ seen'[u] \in Ids /\ StagedBy(u, seen'[u])
                  /\ rows[seen'[u]].witness # None
  BY <1>2, <1>3 DEF AnswerKnows, StagedBy
<1>6. QED BY <1>4, <1>5 DEF AnswerKnows, StagedBy

\* A new row is a question of the one who staged it.
LEMMA RowsCall ==
  ASSUME NEW t \in Threads, RowsOK, Advances, Inserts(t)
  PROVE  RowsOK'
<1>1. \A i \in Ids : rows[i].status # "absent" =>
        rows'[i].status # "absent" /\ SameQuestion(rows'[i], rows[i])
  BY AdvancesKeep
<1>2. QED BY <1>1 DEF RowsOK, Inserts, SameQuestion

LEMMA RowsQuiet ==
  ASSUME RowsOK, Advances,
         \A i \in Ids : rows[i].status = "absent" =>
           \/ rows'[i].status = "absent"
           \/ rows'[i].consent = "token" /\ rows'[i].witness = None
  PROVE  RowsOK'
<1>1. \A i \in Ids : rows[i].status # "absent" =>
        rows'[i].status # "absent" /\ SameQuestion(rows'[i], rows[i])
  BY AdvancesKeep
<1>2. \A i \in Ids : rows'[i].status = "absent" => rows'[i] = rows[i]
  BY AdvancesKeep
<1>3. QED BY <1>1, <1>2 DEF RowsOK, SameQuestion
-----------------------------------------------------------------------------
\* Why no answer counts twice: nothing was performed for an undecided row, and
\* a call about to perform one has decided it itself, so there is one of them;
\* a decided row stays as it is, whatever the other door does.
AnswerInv ==
  /\ \A i \in Ids :
       /\ performed[i] \in {0, 1}
       /\ rows[i].status \in {"absent", "pending"} => performed[i] = 0
       /\ performed[i] = 1 => /\ rows[i].status = "approved"
                              /\ rows[i].consent = "deferred"
                              /\ answerer[i] = rows[i].origin
  /\ \A t \in Threads : pc[t] = "perform" =>
       /\ rows[arg[t]].status = "approved"
       /\ performed[arg[t]] = 0
       /\ answerer[arg[t]] = OriginOf[t]
       /\ \A u \in Threads \ {t} : pc[u] = "perform" => arg[u] # arg[t]

AnswerQuiet == /\ Advances
               /\ performed' = performed /\ answerer' = answerer
               /\ StillAt({"perform"})

LEMMA AnswerQuietStep ==
  ASSUME AnswerKnows, AnswerInv, AnswerQuiet
  PROVE  AnswerInv'
<1>1. \A i \in Ids :
        /\ rows'[i].status \in {"absent", "pending"} =>
             rows[i].status \in {"absent", "pending"}
        /\ rows[i].consent = "deferred" /\ rows[i].status = "approved" =>
             rows'[i] = rows[i]
  BY AdvancesKeep DEF AnswerQuiet
<1>2. (\A i \in Ids :
         /\ performed[i] \in {0, 1}
         /\ rows[i].status \in {"absent", "pending"} => performed[i] = 0
         /\ performed[i] = 1 => /\ rows[i].status = "approved"
                                /\ rows[i].consent = "deferred"
                                /\ answerer[i] = rows[i].origin)'
  BY <1>1 DEF AnswerInv, AnswerQuiet
<1>3. \A t \in Threads : pc[t] = "perform" =>
        arg[t] \in Ids /\ rows[arg[t]].consent = "deferred"
  BY DEF AnswerKnows, StagedBy
<1>4. (\A t \in Threads : pc[t] = "perform" =>
         /\ rows[arg[t]].status = "approved"
         /\ performed[arg[t]] = 0
         /\ answerer[arg[t]] = OriginOf[t]
         /\ \A u \in Threads \ {t} : pc[u] = "perform" => arg[u] # arg[t])'
  BY <1>1, <1>3 DEF AnswerInv, AnswerQuiet, StillAt
<1>5. QED BY <1>2, <1>4 DEF AnswerInv

\* All but three steps of deferred consent are quiet.
LEMMA AnswerCallIsQuiet ==
  ASSUME NEW P, DeferredTypesAt(P), AnswerKnows, RowsOK,
         NEW t \in Threads, DeferredCall(t)
  PROVE  AnswerQuiet \/ Claim(t) \/ Deny(t) \/ Perform(t)
<1>1. /\ Advances /\ \E l \in DeferredPcs : Steps(t, l)
      /\ pc \in [Threads -> P] /\ arg \in [Threads -> Ids \cup {None}]
  BY DeferredCallEffect DEF DeferredEffect, DeferredTypesAt, StoreTypeOK
<1>2. \A u \in Threads \ {t} : pc'[u] = pc[u] /\ arg'[u] = arg[u]
  BY <1>1 DEF Steps
<1> DEFINE Still == /\ performed' = performed /\ answerer' = answerer
                    /\ pc'[t] # "perform"
<1>3. SUFFICES ASSUME ~Claim(t), ~Deny(t), ~Perform(t)
               PROVE  Still
  BY <1>1, <1>2 DEF AnswerQuiet, StillAt
<1> USE <1>1 DEF At, Goto, Enter, Finish, FinishStaging, EndCall,
          deferredOnly, history
<1>4. ASSUME NEW i \in Ids, NEW w \in Witnesses(t), StageDeferred(t, i, w)
      PROVE  Still
  BY <1>4 DEF StageDeferred
<1>5. ASSUME NEW id \in Given(t), ApproveDeferred(t, id) \/ DenyDeferred(t, id)
      PROVE  Still
  BY <1>5 DEF ApproveDeferred, DenyDeferred
<1>6. CASE PeekUnwitnessed(t) \/ ClaimSweep(t) \/ WitnessMatches(t) \/ InTurn(t)
  BY <1>6 DEF PeekUnwitnessed, ClaimSweep, WitnessMatches, InTurn
<1>7. ASSUME NEW i \in Ids, Peek(t, i) \/ Restage(t, i) PROVE Still
  BY <1>7 DEF Peek, Restage
<1>8. CASE WitnessMismatch(t) \/ StaleTurn(t) \/ WitnessRefuses(t)
  BY <1>8 DEF WitnessMismatch, StaleTurn, WitnessRefuses
<1>9. CASE SelectNothing(t, "claim_select") \/ SelectNothing(t, "deny_select")
  BY <1>9 DEF SelectNothing
<1>10. ASSUME NEW i \in Ids,
              \/ Select(t, i, "claim_select", "claim")
              \/ Select(t, i, "deny_select", "deny")
       PROVE  Still
  BY <1>10 DEF Select
<1>11. CASE ClaimLost(t) \/ OtherTurn(t) \/ BumpTurn(t) \/ TurnLost(t)
  BY <1>11 DEF ClaimLost, OtherTurn, BumpTurn, TurnLost
<1>12. QED
  BY <1>3, <1>4, <1>5, <1>6, <1>7, <1>8, <1>9, <1>10, <1>11
     DEF DeferredCall, Answering

LEMMA AnswerCall ==
  ASSUME NEW P, DeferredTypesAt(P), AnswerKnows, RowsOK, AnswerInv,
         NEW t \in Threads, DeferredCall(t)
  PROVE  AnswerInv'
<1>1. /\ rows \in [Ids -> Row] /\ Advances
      /\ pc \in [Threads -> P] /\ arg \in [Threads -> Ids \cup {None}]
      /\ performed \in [Ids -> Nat] /\ answerer \in [Ids -> Origins \cup {None}]
  BY DeferredCallEffect DEF DeferredEffect, DeferredTypesAt, StoreTypeOK
<1>2. CASE AnswerQuiet
  BY <1>2, AnswerQuietStep
<1>3. ASSUME StagedBy(t, arg[t]), Pending(arg[t]),
             NEW s \in {"approved", "rejected"},
             rows' = MarkPendingDecision(rows, arg[t], s)
      PROVE  /\ rows'[arg[t]].status = s
             /\ rows'[arg[t]].consent = "deferred"
             /\ rows'[arg[t]].origin = OriginOf[t]
             /\ \A i \in Ids \ {arg[t]} : rows'[i] = rows[i]
  <2>1. arg[t] \in Ids /\ s \in Statuses /\ s # "pending"
    BY <1>3 DEF StagedBy, Statuses
  <2>2. /\ ClosesTo(rows, rows', {s})
        /\ rows'[arg[t]].status # "pending"
        /\ \A i \in Ids \ {arg[t]} : rows'[i] = rows[i]
    BY <1>1, <1>3, <2>1, MarkPendingDecisionCloses
  <2>3. QED BY <1>3, <2>1, <2>2 DEF ClosesTo, StagedBy, Pending, SameQuestion
<1>4. CASE Claim(t)
  <2>1. /\ pc[t] = "claim" /\ StagedBy(t, arg[t]) /\ arg[t] \in Ids
        /\ rows[arg[t]].status = "pending"
        /\ rows' = MarkPendingDecision(rows, arg[t], "approved")
        /\ answerer' = [answerer EXCEPT ![arg[t]] = OriginOf[t]]
        /\ pc' = [pc EXCEPT ![t] = "perform"]
        /\ UNCHANGED <<arg, performed>>
    BY <1>4 DEF Claim, At, Goto, AnswerKnows, StagedBy, Pending
  <2>2. /\ rows'[arg[t]].status = "approved"
        /\ rows'[arg[t]].consent = "deferred"
        /\ rows'[arg[t]].origin = OriginOf[t]
        /\ \A i \in Ids \ {arg[t]} : rows'[i] = rows[i]
    BY <1>3, <2>1 DEF Pending
  <2>3. performed[arg[t]] = 0
    BY <2>1 DEF AnswerInv
  <2>4. \A u \in Threads : pc[u] = "perform" => arg[u] # arg[t] /\ arg[u] \in Ids
    BY <2>1 DEF AnswerInv, AnswerKnows, StagedBy
  <2>5. QED BY <1>1, <2>1, <2>2, <2>3, <2>4 DEF AnswerInv
<1>5. CASE Deny(t)
  <2>1. /\ pc[t] = "deny" /\ StagedBy(t, arg[t]) /\ arg[t] \in Ids
        /\ rows[arg[t]].status = "pending"
        /\ rows' = MarkPendingDecision(rows, arg[t], "rejected")
        /\ answerer' = [answerer EXCEPT ![arg[t]] = OriginOf[t]]
        /\ UNCHANGED performed
    BY <1>5 DEF Deny, At, AnswerKnows, StagedBy, Pending
  <2>2. StillAt({"perform"})
    BY <1>1, <1>5 DEF Deny, Finish, EndCall, StillAt
  <2>3. /\ rows'[arg[t]].status = "rejected"
        /\ \A i \in Ids \ {arg[t]} : rows'[i] = rows[i]
    BY <1>3, <2>1 DEF Pending
  <2>4. performed[arg[t]] = 0
    BY <2>1 DEF AnswerInv
  <2>5. \A u \in Threads : pc[u] = "perform" => arg[u] # arg[t] /\ arg[u] \in Ids
    BY <2>1 DEF AnswerInv, AnswerKnows, StagedBy
  <2>6. QED BY <1>1, <2>1, <2>2, <2>3, <2>4, <2>5 DEF AnswerInv, StillAt
<1>6. CASE Perform(t)
  <2>1. /\ pc[t] = "perform" /\ StagedBy(t, arg[t]) /\ arg[t] \in Ids
        /\ performed' = [performed EXCEPT ![arg[t]] = @ + 1]
        /\ UNCHANGED <<rows, answerer>>
    BY <1>6 DEF Perform, At, AnswerKnows, StagedBy
  <2>2. /\ \A u \in Threads \ {t} : pc'[u] = pc[u] /\ arg'[u] = arg[u]
        /\ pc'[t] # "perform"
    BY <1>1, <1>6 DEF Perform, Finish, EndCall
  <2>3. /\ performed[arg[t]] = 0 /\ performed'[arg[t]] = 1
        /\ \A i \in Ids \ {arg[t]} : performed'[i] = performed[i]
        /\ rows[arg[t]].status = "approved"
        /\ answerer[arg[t]] = OriginOf[t]
        /\ \A u \in Threads \ {t} : pc[u] = "perform" => arg[u] # arg[t]
    BY <1>1, <2>1 DEF AnswerInv
  <2>4. \A u \in Threads : pc[u] = "perform" => arg[u] \in Ids
    BY DEF AnswerKnows, StagedBy
  <2>5. QED BY <2>1, <2>2, <2>3, <2>4 DEF AnswerInv, StagedBy
<1>7. QED BY <1>2, <1>4, <1>5, <1>6, AnswerCallIsQuiet
-----------------------------------------------------------------------------
(* Keystrokes wait for the turn after the one that asked.                  *)

\* No origin has two questions open.
OneOpen ==
  \A i, j \in Ids :
    /\ rows[i].status = "pending" /\ rows[i].consent = "deferred"
    /\ rows[j].status = "pending" /\ rows[j].consent = "deferred"
    /\ rows[i].origin = rows[j].origin
    => i = j

\* The open questions of thread t's origin that carry a witness.
Witnessed(t) == {i \in Ids : /\ StagedBy(t, i)
                             /\ rows[i].status = "pending"
                             /\ rows[i].witness # None}

\* The turn t compared was right, give or take those counted since.
InTime(t, i) == turn[OriginOf[t]] = rows[i].turn + 1 + others[t]

\* Until its claim, an answer of an origin that takes turns has compared every
\* witnessed question the claim could take, except one that is overdue or that
\* another loop staged in the meantime.
WitnessOK(t) ==
  /\ OriginOf[t] \in WitnessOrigins =>
       (pc[t] \in {"peek", "turn_check", "witness_check", "claim_sweep",
                   "claim_select"} => arg[t] = None)
  /\ pc[t] \in {"turn_check", "witness_check"} =>
       \A i \in Witnessed(t) :
         i = seen[t] \/ rows[i].expires <= now \/ i \in newer[t]
  /\ pc[t] = "witness_check" => InTime(t, seen[t])
  /\ pc[t] \in {"claim_sweep", "claim_select"} =>
       \A i \in Witnessed(t) : \/ rows[i].expires <= now
                               \/ seen[t] = i /\ InTime(t, i)
                               \/ i \in newer[t]
  /\ pc[t] \in {"claim", "perform"} /\ rows[arg[t]].witness # None =>
       (seen[t] = arg[t] /\ InTime(t, arg[t])) \/ arg[t] \in newer[t]

WitnessInv == OneOpen /\ \A t \in Threads : WitnessOK(t)

WitnessPcs == {"peek", "turn_check", "witness_check", "claim_sweep",
               "claim_select", "claim", "perform"}

\* Sweeping, deciding and inserting token rows opens no second question.
LEMMA OneOpenQuiet ==
  ASSUME OneOpen, Advances,
         \A i \in Ids : rows[i].status = "absent" =>
           rows'[i].status = "absent" \/ rows'[i].consent = "token"
  PROVE  OneOpen'
<1>1. \A i \in Ids : rows'[i].status = "pending" /\ rows'[i].consent = "deferred"
                     => rows'[i] = rows[i]
  BY DecidedStatuses DEF Advances
<1>2. QED BY <1>1 DEF OneOpen

\* Nor does staging, which closes the origin's earlier question.
LEMMA OneOpenCall ==
  ASSUME NEW t \in Threads, OneOpen, Advances, Inserts(t)
  PROVE  OneOpen'
<1>1. \A i \in Ids : rows[i].status # "absent" /\ rows'[i].status = "pending"
                     => rows'[i] = rows[i]
  BY DecidedStatuses DEF Advances
<1>2. SUFFICES ASSUME NEW i \in Ids, NEW j \in Ids,
                      rows'[i].status = "pending", rows'[i].consent = "deferred",
                      rows'[j].status = "pending", rows'[j].consent = "deferred",
                      rows'[i].origin = rows'[j].origin
               PROVE  i = j
  BY DEF OneOpen
<1>3. CASE rows[i].status = "absent"
  BY <1>1, <1>2, <1>3 DEF Inserts
<1>4. CASE rows[j].status = "absent"
  BY <1>1, <1>2, <1>4 DEF Inserts
<1>5. CASE rows[i].status # "absent" /\ rows[j].status # "absent"
  BY <1>1, <1>2, <1>5 DEF OneOpen
<1>6. QED BY <1>3, <1>4, <1>5

\* A step is noted with u: the questions it inserts, while u has yet to choose
\* a row, and the turns it counts, once u has checked its own.
Noted(u) ==
  /\ newer[u] \subseteq newer'[u]
  /\ OriginOf[u] \in WitnessOrigins =>
       /\ pc[u] \in CheckedPcs /\ seen[u] # None =>
            turn'[OriginOf[u]] + others[u] = turn[OriginOf[u]] + others'[u]
       /\ pc[u] \in PeekedPcs =>
            \A i \in Ids : /\ rows[i].status = "absent"
                           /\ rows'[i].status # "absent"
                           => \/ rows'[i].consent = "token"
                              \/ rows'[i].origin # OriginOf[u]
                              \/ i \in newer'[u]

LEMMA WitnessedShrinks ==
  ASSUME rows \in [Ids -> Row], rows' \in [Ids -> Row], Advances,
         RowsOK, RowsOK', NEW u \in Threads, Noted(u),
         turn \in [Origins -> Nat], turn' \in [Origins -> Nat],
         others \in [Threads -> Nat], others' \in [Threads -> Nat]
  PROVE  /\ pc[u] \in PeekedPcs => \A i \in Witnessed(u)' :
              \/ i \in newer'[u]
              \/ i \in Witnessed(u) /\ rows'[i].expires = rows[i].expires
         /\ pc[u] \in CheckedPcs =>
              \A i \in Ids : StagedBy(u, i) /\ rows[i].witness # None =>
                /\ rows'[i].witness # None
                /\ seen[u] = i /\ InTime(u, i) => InTime(u, i)'
<1>1. \A i \in Ids : StagedBy(u, i) /\ rows[i].witness # None =>
                       OriginOf[u] \in WitnessOrigins
  BY DEF RowsOK, StagedBy
<1>2. ASSUME pc[u] \in PeekedPcs, NEW i \in Witnessed(u)', i \notin newer'[u]
      PROVE  i \in Witnessed(u) /\ rows'[i].expires = rows[i].expires
  <2>1. /\ rows'[i].status = "pending" /\ rows'[i].consent = "deferred"
        /\ rows'[i].origin = OriginOf[u] /\ rows'[i].witness # None
        /\ i \in Ids
    BY <1>2 DEF Witnessed, StagedBy
  <2>2. OriginOf[u] \in WitnessOrigins
    BY <2>1 DEF RowsOK
  <2>3. rows[i].status # "absent"
    BY <1>2, <2>1, <2>2 DEF Noted
  <2>4. rows'[i] = rows[i]
    BY <2>1, <2>3, DecidedStatuses DEF Advances
  <2>5. QED BY <2>1, <2>3, <2>4 DEF Witnessed, StagedBy
<1>3. ASSUME pc[u] \in CheckedPcs,
             NEW i \in Ids, StagedBy(u, i), rows[i].witness # None
      PROVE  /\ rows'[i].witness # None
             /\ seen[u] = i /\ InTime(u, i) => InTime(u, i)'
  <2>1. SameQuestion(rows'[i], rows[i])
    BY <1>3, AdvancesKeep DEF StagedBy
  <2>2. ASSUME seen[u] = i, InTime(u, i) PROVE InTime(u, i)'
    <3>1. seen[u] # None
      BY <2>2, NoneAssumption
    <3>2. turn'[OriginOf[u]] + others[u] = turn[OriginOf[u]] + others'[u]
      BY <1>1, <1>3, <3>1 DEF Noted
    <3>3. rows'[i].turn = rows[i].turn
      BY <2>1 DEF SameQuestion
    <3>4. /\ turn[OriginOf[u]] \in Nat /\ turn'[OriginOf[u]] \in Nat
          /\ others[u] \in Nat /\ others'[u] \in Nat /\ rows[i].turn \in Int
      <4>1. OriginOf[u] \in Origins
        BY OriginAssumption
      <4>2. rows[i].turn \in Int
        BY <1>3 DEF Row
      <4>3. QED BY <4>1, <4>2
    <3>5. turn[OriginOf[u]] = rows[i].turn + 1 + others[u]
      BY <2>2 DEF InTime
    <3>6. turn'[OriginOf[u]] = rows'[i].turn + 1 + others'[u]
      BY <3>2, <3>3, <3>4, <3>5
    <3>7. QED BY <3>6 DEF InTime
  <2>3. QED BY <1>3, <2>1, <2>2 DEF SameQuestion
<1>4. QED BY <1>2, <1>3

LEMMA WitnessKeeps ==
  ASSUME rows \in [Ids -> Row], rows' \in [Ids -> Row], Advances,
         RowsOK, RowsOK', AnswerKnows, NEW u \in Threads,
         turn \in [Origins -> Nat], turn' \in [Origins -> Nat],
         others \in [Threads -> Nat], others' \in [Threads -> Nat],
         WitnessOK(u), now \in Nat, now' \in Nat, now <= now',
         pc'[u] \in WitnessPcs =>
           /\ pc'[u] = pc[u] /\ arg'[u] = arg[u] /\ seen'[u] = seen[u]
           /\ Noted(u)
  PROVE  WitnessOK(u)'
<1>1. CASE pc'[u] \notin WitnessPcs
  BY <1>1 DEF WitnessOK, WitnessPcs
<1>2. CASE pc'[u] \in WitnessPcs
  <2>1. /\ pc'[u] = pc[u] /\ arg'[u] = arg[u] /\ seen'[u] = seen[u]
        /\ newer[u] \subseteq newer'[u]
    BY <1>2 DEF Noted
  <2>2. /\ pc[u] \in PeekedPcs => \A i \in Witnessed(u)' :
             \/ i \in newer'[u]
             \/ i \in Witnessed(u) /\ rows'[i].expires = rows[i].expires
        /\ pc[u] \in CheckedPcs =>
             \A i \in Ids : StagedBy(u, i) /\ rows[i].witness # None =>
               /\ rows'[i].witness # None
               /\ seen[u] = i /\ InTime(u, i) => InTime(u, i)'
    BY <1>2, WitnessedShrinks
  <2>3. (OriginOf[u] \in WitnessOrigins =>
           (pc[u] \in {"peek", "turn_check", "witness_check", "claim_sweep",
                       "claim_select"} => arg[u] = None))'
    BY <2>1 DEF WitnessOK
  <2>4. pc[u] \in PeekedPcs =>
          \A i \in Witnessed(u)' :
            \/ i \in newer'[u]
            \/ /\ i \in Witnessed(u)
               /\ rows[i].expires <= now => rows'[i].expires <= now'
    BY <2>2 DEF Row, Witnessed
  <2>5. (pc[u] \in {"turn_check", "witness_check"} =>
           \A i \in Witnessed(u) :
             i = seen[u] \/ rows[i].expires <= now \/ i \in newer[u])'
    BY <2>1, <2>4 DEF WitnessOK, PeekedPcs
  <2>6. (pc[u] = "witness_check" => InTime(u, seen[u]))'
    <3>1. pc[u] = "witness_check" =>
            /\ seen[u] \in Ids /\ StagedBy(u, seen[u])
            /\ rows[seen[u]].witness # None /\ InTime(u, seen[u])
            /\ pc[u] \in CheckedPcs
      BY DEF AnswerKnows, WitnessOK, StagedBy, CheckedPcs
    <3>2. pc[u] = "witness_check" => InTime(u, seen[u])'
      BY <2>1, <2>2, <3>1 DEF InTime
    <3>3. QED BY <2>1, <3>2
  <2>7. (pc[u] \in {"claim_sweep", "claim_select"} =>
           \A i \in Witnessed(u) : \/ rows[i].expires <= now
                                   \/ seen[u] = i /\ InTime(u, i)
                                   \/ i \in newer[u])'
    <3>1. \A i \in Witnessed(u) : /\ i \in Ids /\ StagedBy(u, i)
                                  /\ rows[i].witness # None
      BY DEF Witnessed
    <3>2. QED BY <2>1, <2>2, <2>4, <3>1 DEF WitnessOK, PeekedPcs, CheckedPcs
  <2>8. (pc[u] \in {"claim", "perform"} /\ rows[arg[u]].witness # None =>
           (seen[u] = arg[u] /\ InTime(u, arg[u])) \/ arg[u] \in newer[u])'
    <3>1. SUFFICES ASSUME pc[u] \in {"claim", "perform"},
                          rows'[arg[u]].witness # None
                   PROVE  \/ (seen[u] = arg[u] /\ (InTime(u, arg[u])'))
                          \/ arg[u] \in newer'[u]
      BY <2>1
    <3>2. arg[u] \in Ids /\ StagedBy(u, arg[u]) /\ pc[u] \in CheckedPcs
      BY <3>1 DEF AnswerKnows, StagedBy, CheckedPcs
    <3>3. rows[arg[u]].witness # None
      BY <3>1, <3>2, AdvancesKeep DEF StagedBy, SameQuestion
    <3>4. (seen[u] = arg[u] /\ InTime(u, arg[u])) \/ arg[u] \in newer[u]
      BY <3>1, <3>3 DEF WitnessOK
    <3>5. QED BY <2>1, <2>2, <3>1, <3>2, <3>3, <3>4 DEF InTime
  <2>9. QED BY <2>3, <2>5, <2>6, <2>7, <2>8 DEF WitnessOK
<1>3. QED BY <1>1, <1>2

\* The caller's own comparisons, along its call.
LEMMA WitnessOwnCall ==
  ASSUME NEW P, DeferredTypesAt(P), AnswerKnows, RowsOK, OneOpen,
         NEW t \in Threads, DeferredCall(t), WitnessOK(t)
  PROVE  WitnessOK(t)'
<1>1. /\ rows \in [Ids -> Row] /\ rows' \in [Ids -> Row] /\ now' = now
      /\ now \in 0..MaxTime /\ Advances /\ Inserts(t)
      /\ \E l \in DeferredPcs : Steps(t, l)
      /\ pc \in [Threads -> P] /\ arg \in [Threads -> Ids \cup {None}]
      /\ seen \in [Threads -> Ids \cup {None}]
      /\ newer \in [Threads -> SUBSET Ids] /\ others \in [Threads -> Nat]
      /\ turn \in [Origins -> Nat] /\ OriginOf[t] \in Origins
  BY DeferredCallEffect, OriginAssumption
     DEF DeferredEffect, DeferredTypesAt, StoreTypeOK
<1>2. RowsOK' /\ now \in Nat
  BY <1>1, RowsCall, TimeAssumption
<1>3. None \notin Ids
  BY NoneAssumption
<1>4. \A i \in Witnessed(t) : i \in Ids /\ OriginOf[t] \in WitnessOrigins
  BY DEF Witnessed, StagedBy, RowsOK
<1>5. ASSUME pc'[t] \notin WitnessPcs PROVE WitnessOK(t)'
  BY <1>5 DEF WitnessOK, WitnessPcs
<1> USE DEF At, Goto, Enter, Finish, FinishStaging, EndCall,
          deferredOnly, history
<1>6. ASSUME rows' = rows, turn' = turn, others' = others
      PROVE  /\ Witnessed(t)' = Witnessed(t)
             /\ \A i : InTime(t, i)' <=> InTime(t, i)
  BY <1>6 DEF Witnessed, StagedBy, InTime
<1>7. ASSUME NEW i \in Ids, NEW w \in Witnesses(t), StageDeferred(t, i, w)
      PROVE  WitnessOK(t)'
  BY <1>1, <1>5, <1>7 DEF StageDeferred, WitnessPcs
<1>8. ASSUME NEW id \in Given(t), DenyDeferred(t, id) PROVE WitnessOK(t)'
  BY <1>1, <1>5, <1>8 DEF DenyDeferred, WitnessPcs
<1>9. ASSUME NEW id \in Given(t), ApproveDeferred(t, id) PROVE WitnessOK(t)'
  <2>1. pc'[t] = "peek" /\ arg'[t] = id
    BY <1>1, <1>9 DEF ApproveDeferred
  <2>2. OriginOf[t] \in WitnessOrigins => id = None
    BY DEF Given
  <2>3. QED BY <2>1, <2>2 DEF WitnessOK
<1>10. CASE PeekUnwitnessed(t)
  <2>1. /\ pc[t] = "peek" /\ pc'[t] = "claim_sweep" /\ WitnessedNow(t) = {}
        /\ arg'[t] = arg[t] /\ rows' = rows /\ turn' = turn
        /\ others' = others
    BY <1>1, <1>10 DEF PeekUnwitnessed
  <2>2. ASSUME NEW i \in Witnessed(t) PROVE rows'[i].expires <= now'
    <3>1. arg[t] = None /\ i \notin WitnessedNow(t)
      BY <1>4, <2>1 DEF WitnessOK
    <3>2. ~(rows[i].expires > now)
      BY <3>1 DEF WitnessedNow, DeferredPending, Pending, Witnessed, StagedBy
    <3>3. rows[i].expires \in Nat
      BY <1>1, <1>4 DEF Row
    <3>4. QED BY <1>1, <1>2, <2>1, <3>2, <3>3
  <2>3. QED BY <1>6, <2>1, <2>2 DEF WitnessOK
<1>11. ASSUME NEW i \in Ids, Peek(t, i) PROVE WitnessOK(t)'
  <2>1. /\ pc[t] = "peek" /\ pc'[t] = "turn_check" /\ i \in WitnessedNow(t)
        /\ arg'[t] = arg[t] /\ seen'[t] = i /\ rows' = rows /\ turn' = turn
        /\ others' = others
    BY <1>1, <1>11 DEF Peek
  <2>2. \A j \in Witnessed(t) : j = i
    BY <1>4, <2>1
       DEF OneOpen, WitnessedNow, DeferredPending, Pending, Witnessed, StagedBy
  <2>3. QED BY <1>6, <2>1, <2>2 DEF WitnessOK
<1>12. CASE InTurn(t)
  <2>1. /\ pc[t] = "turn_check" /\ pc'[t] = "witness_check"
        /\ NextTurn(t, seen[t])
        /\ UNCHANGED <<arg, seen, rows, turn, now, newer>>
        /\ others'[t] = 0
    BY <1>1, <1>12 DEF InTurn
  <2>2. seen[t] \in Ids
    BY <2>1 DEF AnswerKnows, StagedBy
  <2>3. turn[OriginOf[t]] \in Nat /\ rows[seen[t]].turn \in Int
    BY <1>1, <2>2 DEF Row
  <2>4. InTime(t, seen[t])'
    BY <2>1, <2>3 DEF NextTurn, InTime
  <2>5. Witnessed(t)' = Witnessed(t)
    BY <2>1 DEF Witnessed, StagedBy
  <2>6. QED BY <2>1, <2>4, <2>5 DEF WitnessOK
<1>13. CASE WitnessMatches(t)
  <2>1. /\ pc[t] = "witness_check" /\ pc'[t] = "claim_sweep"
        /\ UNCHANGED <<arg, seen, rows, turn, now, newer, others>>
    BY <1>1, <1>13 DEF WitnessMatches
  <2>2. \A i \in Witnessed(t) : \/ rows[i].expires <= now
                                \/ seen[t] = i /\ InTime(t, i)
                                \/ i \in newer[t]
    BY <2>1 DEF WitnessOK
  <2>3. QED BY <1>6, <2>1, <2>2 DEF WitnessOK
<1>14. CASE ClaimSweep(t)
  <2>1. /\ pc[t] = "claim_sweep" /\ pc'[t] = "claim_select"
        /\ UNCHANGED <<arg, seen, turn, now, newer, others>>
        /\ rows' = ExpirePending(rows)
    BY <1>1, <1>14 DEF ClaimSweep
  <2>2. Noted(t)
    BY <1>1, <2>1, ExpirePendingCloses DEF Noted, ClosesTo
  <2>3. /\ \A i \in Witnessed(t)' :
             \/ i \in newer'[t]
             \/ i \in Witnessed(t) /\ rows'[i].expires = rows[i].expires
        /\ \A i \in Ids : StagedBy(t, i) /\ rows[i].witness # None =>
             /\ rows'[i].witness # None
             /\ seen[t] = i /\ InTime(t, i) => InTime(t, i)'
    <3>1. pc[t] \in PeekedPcs /\ pc[t] \in CheckedPcs
      BY <2>1 DEF PeekedPcs, CheckedPcs
    <3>2. turn' \in [Origins -> Nat] /\ others' \in [Threads -> Nat]
      BY <1>1, <2>1
    <3>3. QED BY <1>1, <1>2, <2>2, <3>1, <3>2, WitnessedShrinks
  <2>4. \A i \in Witnessed(t) : \/ rows[i].expires <= now
                                \/ seen[t] = i /\ InTime(t, i)
                                \/ i \in newer[t]
    BY <2>1 DEF WitnessOK
  <2>5. \A i \in Witnessed(t) : i \in Ids /\ StagedBy(t, i) /\ rows[i].witness # None
    BY DEF Witnessed
  <2>6. \A i \in Witnessed(t)' : \/ rows'[i].expires <= now'
                                 \/ (seen'[t] = i /\ (InTime(t, i)'))
                                 \/ i \in newer'[t]
    BY <2>1, <2>3, <2>4, <2>5
  <2>7. OriginOf[t] \in WitnessOrigins => arg'[t] = None
    BY <2>1 DEF WitnessOK
  <2>8. QED BY <2>1, <2>6, <2>7 DEF WitnessOK
<1>15. ASSUME NEW i \in Ids, Select(t, i, "claim_select", "claim")
       PROVE  WitnessOK(t)'
  <2>1. /\ pc[t] = "claim_select" /\ pc'[t] = "claim" /\ i \in Claimable(t)
        /\ arg'[t] = i /\ UNCHANGED <<seen, rows, turn, now, newer, others>>
    BY <1>1, <1>15 DEF Select
  <2>2. ASSUME rows[i].witness # None
        PROVE  (seen[t] = i /\ InTime(t, i)) \/ i \in newer[t]
    <3>1. i \in Witnessed(t) /\ rows[i].expires > now
      BY <2>1, <2>2
         DEF Claimable, DeferredPending, Pending, Witnessed, StagedBy
    <3>2. ~(rows[i].expires <= now)
      BY <1>1, <1>2, <3>1 DEF Row
    <3>3. QED BY <2>1, <3>1, <3>2 DEF WitnessOK
  <2>3. QED BY <1>6, <2>1, <2>2 DEF WitnessOK, InTime
<1>16. CASE Claim(t)
  <2>1. /\ pc[t] = "claim" /\ pc'[t] = "perform"
        /\ UNCHANGED <<arg, seen, turn, newer, others>>
    BY <1>1, <1>16 DEF Claim
  <2>2. arg[t] \in Ids /\ SameQuestion(rows'[arg[t]], rows[arg[t]])
    BY <1>1, <2>1, AdvancesKeep DEF AnswerKnows, StagedBy
  <2>3. QED BY <2>1, <2>2 DEF WitnessOK, InTime, SameQuestion
<1>17. CASE StaleTurn(t) \/ WitnessRefuses(t) \/ WitnessMismatch(t)
  BY <1>1, <1>5, <1>17 DEF StaleTurn, WitnessRefuses, WitnessMismatch, WitnessPcs
<1>18. ASSUME NEW i \in Ids, Restage(t, i) \/ Select(t, i, "deny_select", "deny")
       PROVE  WitnessOK(t)'
  BY <1>1, <1>5, <1>18 DEF Restage, Select, WitnessPcs
<1>19. CASE SelectNothing(t, "claim_select") \/ SelectNothing(t, "deny_select")
  BY <1>1, <1>5, <1>19 DEF SelectNothing, WitnessPcs
<1>20. CASE ClaimLost(t) \/ Deny(t) \/ Perform(t)
  BY <1>1, <1>5, <1>20 DEF ClaimLost, Deny, Perform, WitnessPcs
<1>21. CASE OtherTurn(t) \/ BumpTurn(t) \/ TurnLost(t)
  BY <1>1, <1>5, <1>21 DEF OtherTurn, BumpTurn, TurnLost, WitnessPcs
<1>22. QED
  BY <1>7, <1>8, <1>9, <1>10, <1>11, <1>12, <1>13, <1>14, <1>15, <1>16, <1>17,
     <1>18, <1>19, <1>20, <1>21 DEF DeferredCall, Answering

\* What a loop does is noted with the others of its origin.
LEMMA CallNoted ==
  ASSUME NEW P, DeferredTypesAt(P), AnswerKnows, RowsOK,
         NEW t \in Threads, DeferredCall(t), NEW u \in Threads \ {t}
  PROVE  Noted(u)
<1>1. /\ Inserts(t) /\ OriginOf[t] \in Origins /\ OriginOf[u] \in Origins
      /\ turn \in [Origins -> Nat] /\ others \in [Threads -> Nat]
  BY DeferredCallEffect, OriginAssumption
     DEF DeferredEffect, DeferredTypesAt, StoreTypeOK
<1>2. /\ newer[u] \subseteq newer'[u]
      /\ \A i \in Ids : /\ rows[i].status = "absent"
                        /\ rows'[i].status # "absent"
                        /\ u \in Peeked(t)
                        => i \in newer'[u]
  BY StagingNoted
<1>3. OriginOf[u] \in WitnessOrigins /\ pc[u] \in CheckedPcs /\ seen[u] # None =>
        turn'[OriginOf[u]] + others[u] = turn[OriginOf[u]] + others'[u]
  <2> SUFFICES ASSUME pc[u] \in CheckedPcs, seen[u] # None
               PROVE  turn'[OriginOf[u]] + others[u]
                        = turn[OriginOf[u]] + others'[u]
    OBVIOUS
  <2>1. CASE turn' = turn /\ others'[u] = others[u]
    BY <2>1
  <2>2. CASE /\ turn' = [turn EXCEPT ![OriginOf[t]] = @ + 1]
             /\ others'[u] = IF u \in TurnChecked(t) THEN others[u] + 1
                                                     ELSE others[u]
    <3>1. turn[OriginOf[u]] \in Nat /\ others[u] \in Nat
      BY <1>1
    <3>2. CASE OriginOf[u] = OriginOf[t]
      <4>1. u \in TurnChecked(t)
        BY <3>2 DEF TurnChecked
      <4>2. /\ turn'[OriginOf[u]] = turn[OriginOf[u]] + 1
            /\ others'[u] = others[u] + 1
        BY <1>1, <2>2, <3>2, <4>1
      <4>3. QED BY <3>1, <4>2
    <3>3. CASE OriginOf[u] # OriginOf[t]
      <4>1. u \notin TurnChecked(t)
        BY <3>3 DEF TurnChecked
      <4>2. /\ turn'[OriginOf[u]] = turn[OriginOf[u]]
            /\ others'[u] = others[u]
        BY <1>1, <2>2, <3>3, <4>1
      <4>3. QED BY <4>2
    <3>4. QED BY <3>2, <3>3
  <2>3. QED BY <2>1, <2>2, TurnsNoted
<1>4. pc[u] \in PeekedPcs =>
        \A i \in Ids : /\ rows[i].status = "absent"
                       /\ rows'[i].status # "absent"
                       => \/ rows'[i].consent = "token"
                          \/ rows'[i].origin # OriginOf[u]
                          \/ i \in newer'[u]
  BY <1>1, <1>2 DEF Inserts, Peeked
<1>5. QED BY <1>2, <1>3, <1>4 DEF Noted

\* The caller's own comparisons, and those of the other loops.
LEMMA WitnessCall ==
  ASSUME NEW P, DeferredPcs \subseteq P, DeferredTypesAt(P), AnswerKnows, RowsOK,
         WitnessInv, NEW t \in Threads, DeferredCall(t)
  PROVE  WitnessInv'
<1>1. /\ rows \in [Ids -> Row] /\ rows' \in [Ids -> Row] /\ now' = now
      /\ now \in 0..MaxTime /\ Advances /\ Inserts(t)
      /\ \E l \in DeferredPcs : Steps(t, l)
      /\ pc \in [Threads -> P] /\ arg \in [Threads -> Ids \cup {None}]
      /\ seen \in [Threads -> Ids \cup {None}]
      /\ turn \in [Origins -> Nat] /\ others \in [Threads -> Nat]
      /\ turn' \in [Origins -> Nat] /\ others' \in [Threads -> Nat]
  BY DeferredCallEffect, DeferredTypeCall
     DEF DeferredEffect, DeferredTypesAt, StoreTypeOK
<1>2. OneOpen' /\ now \in Nat
  BY <1>1, OneOpenCall, TimeAssumption DEF WitnessInv
<1>3. WitnessOK(t)'
  BY WitnessOwnCall DEF WitnessInv
<1>4. ASSUME NEW u \in Threads \ {t} PROVE WitnessOK(u)'
  <2>1. pc'[u] = pc[u] /\ arg'[u] = arg[u] /\ seen'[u] = seen[u]
    BY <1>1 DEF Steps
  <2>2. Noted(u)
    BY CallNoted
  <2>3. RowsOK'
    BY <1>1, RowsCall
  <2>4. QED BY <1>1, <1>2, <2>1, <2>2, <2>3, WitnessKeeps DEF WitnessInv
<1>5. QED BY <1>2, <1>3, <1>4 DEF WitnessInv

\* Steps that neither stage a question nor count a turn.
LEMMA WitnessQuiet ==
  ASSUME rows \in [Ids -> Row], rows' \in [Ids -> Row], Advances,
         RowsOK, RowsOK', AnswerKnows, WitnessInv,
         turn \in [Origins -> Nat], others \in [Threads -> Nat],
         others' \in [Threads -> Nat],
         now \in Nat, now' \in Nat, now <= now', turn' = turn,
         SameAt(WitnessPcs),
         \A i \in Ids : rows[i].status = "absent" =>
           rows'[i].status = "absent" \/ rows'[i].consent = "token"
  PROVE  WitnessInv'
<1>1. OneOpen'
  BY OneOpenQuiet DEF WitnessInv
<1>2. ASSUME NEW u \in Threads PROVE WitnessOK(u)'
  <2>1. pc'[u] \in WitnessPcs =>
          /\ pc'[u] = pc[u] /\ arg'[u] = arg[u] /\ seen'[u] = seen[u]
          /\ Noted(u)
    BY DEF Noted, SameAt
  <2>2. QED BY <2>1, WitnessKeeps DEF WitnessInv
<1>3. QED BY <1>1, <1>2 DEF WitnessInv
-----------------------------------------------------------------------------
(* The two doors together.                                                 *)

KernelPcs == TokenPcs \cup DeferredPcs

\* Nothing staged at one door was performed at the other, and the statement
\* that needs no pending row only ever meets a token row.
DoorInv ==
  \A i \in Ids :
    /\ (\E p \in Processes : runs[p][i] > 0) => rows[i].consent = "token"
    /\ rows[i].status \in {"completed", "failed"} => rows[i].consent = "token"

KernelInv == /\ TypesAt(KernelPcs)
             /\ DeferredTypesAt(KernelPcs)
             /\ LockMatchesCall
             /\ CallOK /\ AnswerKnows /\ RowsOK
             /\ OnceInv /\ AnswerInv /\ DoorInv

LEMMA DoorStep ==
  ASSUME NEW P, TypesAt(P), CallOK, RowsOK, OnceInv, DoorInv, Advances,
         \/ runs' = runs
         \/ \E t \in Threads : Execute(t)
  PROVE  DoorInv'
<1>1. \A i \in Ids :
        /\ rows[i].status # "absent" => rows'[i].consent = rows[i].consent
        /\ rows'[i].status \in {"completed", "failed"} =>
             rows'[i] = rows[i] \/ rows'[i].consent = "token"
  BY AdvancesKeep DEF SameQuestion
<1>2. \A i \in Ids, p \in Processes :
        runs[p][i] > 0 => rows[i].status # "absent" /\ rows[i].consent = "token"
  BY DEF OnceInv, DoorInv
<1>3. \A i \in Ids, p \in Processes :
        runs'[p][i] > 0 => rows[i].status # "absent" /\ rows[i].consent = "token"
  <2>1. CASE runs' = runs
    BY <1>2, <2>1
  <2>2. ASSUME NEW t \in Threads, Execute(t) PROVE <1>3
    <3>1. /\ arg[t] \in Ids /\ rows[arg[t]].status # "absent"
          /\ rows[arg[t]].consent = "token"
          /\ runs' = [runs EXCEPT ![ProcessOf[t]][arg[t]] = @ + 1]
      BY <2>2 DEF Execute, At, CallOK
    <3>2. \A i \in Ids \ {arg[t]}, p \in Processes : runs'[p][i] = runs[p][i]
      BY <3>1 DEF TypesAt
    <3>3. QED BY <1>2, <3>1, <3>2
  <2>3. QED BY <2>1, <2>2
<1>4. QED BY <1>1, <1>3 DEF DoorInv

\* A call of one door leaves the other's invariants alone.
LEMMA TokenCallForeign ==
  ASSUME KernelInv, NEW t \in Threads, TokenCall(t), UNCHANGED deferredOnly
  PROVE  /\ AnswerQuiet
         /\ SameAt(AnswerPcs) /\ SameAt(WitnessPcs)
         /\ \A i \in Ids : rows[i].status = "absent" =>
              \/ rows'[i].status = "absent"
              \/ rows'[i].consent = "token" /\ rows'[i].witness = None
<1>1. /\ Advances /\ \E l \in TokenPcs : Moves(t, l)
      /\ pc \in [Threads -> KernelPcs] /\ arg \in [Threads -> Ids \cup {None}]
      /\ \A i \in Ids : rows[i].status = "absent" =>
           \/ rows'[i].status = "absent"
           \/ rows'[i].consent = "token" /\ rows'[i].witness = None
  BY TokenCallEffect DEF KernelInv, TypesAt, StoreTypeOK
<1>2. /\ pc'[t] \in TokenPcs
      /\ \A u \in Threads \ {t} : pc'[u] = pc[u] /\ arg'[u] = arg[u]
  BY <1>1 DEF Moves
<1>3. /\ seen' = seen /\ performed' = performed /\ answerer' = answerer
      /\ newer' = newer /\ others' = others
  BY DEF deferredOnly, history
<1>4. SameAt(AnswerPcs) /\ SameAt(WitnessPcs) /\ StillAt({"perform"})
  BY <1>2, <1>3 DEF SameAt, StillAt, AnswerPcs, WitnessPcs, TokenPcs
<1>5. QED BY <1>1, <1>3, <1>4 DEF AnswerQuiet

LEMMA DeferredCallForeign ==
  ASSUME KernelInv, NEW t \in Threads, DeferredCall(t), UNCHANGED <<stop, runs>>
  PROVE  /\ Quiet /\ Decides /\ Inserts(t)
         /\ StillAt({"approve_load", "reject_load", "approve_mark", "execute",
                     "record", "reject_mark"})
<1>1. /\ Advances /\ Decides /\ Inserts(t)
      /\ \E l \in DeferredPcs : Steps(t, l)
      /\ pc \in [Threads -> KernelPcs] /\ arg \in [Threads -> Ids \cup {None}]
  BY DeferredCallEffect DEF KernelInv, DeferredEffect, TypesAt, StoreTypeOK
<1>2. /\ pc'[t] \in DeferredPcs
      /\ \A u \in Threads \ {t} : pc'[u] = pc[u] /\ arg'[u] = arg[u]
  BY <1>1 DEF Steps
<1>3. StillAt({"approve_load", "reject_load", "approve_mark", "execute",
               "record", "reject_mark"})
  BY <1>2 DEF StillAt, DeferredPcs
<1>4. QED BY <1>1, <1>3 DEF Quiet, StillAt

\* What neither door's calls do: restarts, the window, sweeps, the clock.
Outside == \/ \E w \in Windows \cup {None} : WindowChanges(w) /\ UNCHANGED <<stop, runs>>
           \/ \E p \in Processes : KernelRestart(p)
           \/ (Sweep \/ Tick) /\ UNCHANGED <<stop, runs, deferredOnly>>
           \/ UNCHANGED kernelVars

LEMMA OutsideIsQuiet ==
  ASSUME KernelInv, Outside
  PROVE  /\ TypesAt(KernelPcs)' /\ DeferredTypesAt(KernelPcs)'
         /\ LockMatchesCall'
         /\ ClosesTo(rows, rows', {"expired"})
         /\ Quiet /\ AnswerQuiet /\ turn' = turn /\ now <= now'
         /\ SameAt(AnswerPcs) /\ SameAt(WitnessPcs)
         /\ StillAt({"approve_load", "reject_load", "approve_mark", "execute",
                     "record", "reject_mark"})
<1> DEFINE Goal ==
             /\ TypesAt(KernelPcs)' /\ DeferredTypesAt(KernelPcs)'
             /\ LockMatchesCall'
             /\ ClosesTo(rows, rows', {"expired"}) /\ Advances
             /\ runs' = runs /\ performed' = performed /\ answerer' = answerer
             /\ turn' = turn /\ now <= now'
             /\ \A t \in Threads : pc'[t] # "idle" =>
                  /\ pc'[t] = pc[t] /\ arg'[t] = arg[t] /\ seen'[t] = seen[t]
                  /\ newer'[t] = newer[t] /\ others'[t] = others[t]
<1>1. /\ TypesAt(KernelPcs) /\ DeferredTypesAt(KernelPcs) /\ LockMatchesCall
      /\ "idle" \in KernelPcs
      /\ rows \in [Ids -> Row] /\ now \in 0..MaxTime
  BY DEF KernelInv, KernelPcs, TokenPcs, TypesAt, StoreTypeOK
<1>2. now <= now /\ now <= now + 1
  BY <1>1, TimeAssumption
<1>3. ClosesTo(rows, rows, {"expired"})
  BY DEF ClosesTo
<1>4. ASSUME NEW w \in Windows \cup {None}, WindowChanges(w),
             UNCHANGED <<stop, runs>>
      PROVE  Goal
  BY <1>1, <1>2, <1>3, <1>4
     DEF WindowChanges, TypesAt, DeferredTypesAt, StoreTypeOK,
         LockMatchesCall, Advances, history
<1>5. ASSUME NEW p \in Processes, KernelRestart(p) PROVE Goal
  <2>1. /\ Restart(p) /\ RestartStore(p) /\ RestartDeferred(p)
        /\ UNCHANGED <<rows, now, runs, turn, window, performed, answerer>>
    BY <1>5 DEF KernelRestart, Restart, RestartDeferred, RestartStore
  <2>2. TypesAt(KernelPcs)'
    BY <1>1, <2>1, TypeRestart
  <2>3. DeferredTypesAt(KernelPcs)'
    BY <1>1, <2>1, <2>2 DEF RestartDeferred, TypesAt, DeferredTypesAt
  <2>4. LockMatchesCall'
    BY <1>1, <2>1, LockRestart DEF TypesAt, StoreTypeOK
  <2>5. \A t \in Threads : pc'[t] # "idle" =>
          /\ pc'[t] = pc[t] /\ arg'[t] = arg[t] /\ seen'[t] = seen[t]
          /\ newer'[t] = newer[t] /\ others'[t] = others[t]
    BY <2>1 DEF RestartStore, RestartDeferred
  <2>6. QED BY <1>2, <1>3, <2>1, <2>2, <2>3, <2>4, <2>5 DEF Advances
<1>6. ASSUME Sweep \/ Tick, UNCHANGED <<stop, runs, deferredOnly>>
      PROVE  Goal
  <2>1. TypesAt(KernelPcs)'
    BY <1>1, <1>6, TypeClock
  <2>2. /\ Quiet /\ UNCHANGED <<lock, pc, arg>>
    BY <1>1, <1>6, ClockQuiet
  <2>3. /\ UNCHANGED <<runs, turn, window, seen, reading, performed, answerer,
                    newer, others>>
        /\ now <= now'
    BY <1>2, <1>6 DEF Sweep, Tick, deferredOnly, history
  <2>4. ClosesTo(rows, rows', {"expired"})
    BY <1>1, <1>3, <1>6, ExpirePendingCloses DEF Sweep, Tick
  <2>5. DeferredTypesAt(KernelPcs)' /\ LockMatchesCall'
    BY <1>1, <2>1, <2>2, <2>3 DEF TypesAt, DeferredTypesAt, LockMatchesCall
  <2>6. runs' = runs /\ Advances /\ pc' = pc /\ arg' = arg /\ seen' = seen
        /\ newer' = newer /\ others' = others
    BY <2>2, <2>3 DEF Quiet
  <2>7. QED BY <2>1, <2>3, <2>4, <2>5, <2>6
<1>7. ASSUME UNCHANGED kernelVars PROVE Goal
  <2>1. UNCHANGED <<rows, now, lock, pc, arg, stop, runs, turn, window, seen,
                    reading, performed, answerer, newer, others>>
    BY <1>7 DEF kernelVars, deferredOnly, history
  <2>2. TypesAt(KernelPcs)' /\ DeferredTypesAt(KernelPcs)' /\ LockMatchesCall'
    BY <1>1, <2>1 DEF TypesAt, DeferredTypesAt, StoreTypeOK, LockMatchesCall
  <2>3. QED BY <1>2, <1>3, <2>1, <2>2 DEF Advances
<1> HIDE DEF Goal
<1>8. Goal
  BY <1>4, <1>5, <1>6, <1>7 DEF Outside
<1>9. QED
  BY <1>8 DEF Goal, Quiet, AnswerQuiet, StillAt, SameAt, AnswerPcs, WitnessPcs

LEMMA KernelInit1 == KernelInit => KernelInv
<1> SUFFICES ASSUME KernelInit PROVE KernelInv
  OBVIOUS
<1>1. TokenTypeOK
  BY TypeInit DEF KernelInit
<1>2. TypesAt(KernelPcs) /\ DeferredTypesAt(KernelPcs)
  BY <1>1 DEF TokenTypeOK, TypesAt, DeferredTypesAt, KernelPcs, KernelInit,
              DeferredInit
<1>3. /\ \A t \in Threads : pc[t] = "idle"
      /\ \A i \in Ids : /\ rows[i].status = "absent"
                        /\ rows[i].consent = "token"
                        /\ rows[i].witness = None
                        /\ performed[i] = 0
                        /\ \A p \in Processes : runs[p][i] = 0
      /\ lock = [p \in Processes |-> None]
  BY DEF KernelInit, DeferredInit, TokenInit, StoreInit, Absent
<1>4. LockMatchesCall
  BY <1>3, ThreadsAssumption, NoneAssumption DEF LockMatchesCall, LockedPcs
<1>5. CallOK /\ AnswerKnows /\ RowsOK /\ OnceInv /\ AnswerInv /\ DoorInv
  BY <1>3 DEF CallOK, AnswerKnows, RowsOK, OnceInv, AnswerInv, DoorInv
<1>6. QED BY <1>2, <1>4, <1>5 DEF KernelInv

LEMMA KernelStep == KernelInv /\ [KernelNext]_kernelVars => KernelInv'
<1> SUFFICES ASSUME KernelInv, [KernelNext]_kernelVars PROVE KernelInv'
  OBVIOUS
<1>1. /\ TypesAt(KernelPcs) /\ DeferredTypesAt(KernelPcs) /\ LockMatchesCall
      /\ CallOK /\ AnswerKnows /\ RowsOK /\ OnceInv /\ AnswerInv /\ DoorInv
      /\ TokenPcs \subseteq KernelPcs /\ DeferredPcs \subseteq KernelPcs
  BY DEF KernelInv, KernelPcs
<1>2. ASSUME NEW t \in Threads, TokenCall(t), UNCHANGED deferredOnly
      PROVE  KernelInv'
  <2>1. TypesAt(KernelPcs)' /\ CallOK' /\ LockMatchesCall' /\ OnceInv'
    BY <1>1, <1>2, TypeCall, CallCall, LockCall, OnceCall
  <2>2. DeferredTypesAt(KernelPcs)'
    BY <1>1, <1>2, <2>1 DEF TypesAt, DeferredTypesAt, deferredOnly, history
  <2>3. /\ AnswerQuiet /\ Advances /\ SameAt(AnswerPcs)
        /\ \A i \in Ids : rows[i].status = "absent" =>
             \/ rows'[i].status = "absent"
             \/ rows'[i].consent = "token" /\ rows'[i].witness = None
    BY <1>2, TokenCallForeign DEF AnswerQuiet
  <2>4. AnswerKnows' /\ RowsOK' /\ AnswerInv'
    BY <1>1, <2>3, KnowsQuiet, RowsQuiet, AnswerQuietStep
  <2>5. runs' = runs \/ Execute(t)
    BY <1>1, <1>2, CallIsQuiet DEF Quiet, ApproveLoad, ApproveMark
  <2>6. DoorInv'
    BY <1>1, <2>3, <2>5, DoorStep
  <2>7. QED BY <2>1, <2>2, <2>4, <2>6 DEF KernelInv
<1>3. ASSUME NEW t \in Threads, DeferredCall(t), UNCHANGED <<stop, runs>>
      PROVE  KernelInv'
  <2>1. DeferredTypesAt(KernelPcs)' /\ AnswerKnows' /\ LockMatchesCall' /\ AnswerInv'
    BY <1>1, <1>3, DeferredTypeCall, KnowsCall, DeferredLockCall, AnswerCall
  <2>2. TypesAt(KernelPcs)'
    BY <1>1, <1>3, <2>1 DEF TypesAt, DeferredTypesAt
  <2>3. /\ Quiet /\ Advances /\ Inserts(t)
        /\ StillAt({"approve_load", "reject_load", "approve_mark", "execute",
                    "record", "reject_mark"})
    BY <1>3, DeferredCallForeign DEF Quiet
  <2>4. CallOK' /\ RowsOK' /\ OnceInv'
    BY <1>1, <2>3, CallQuiet, RowsCall, OnceQuiet
  <2>5. DoorInv'
    BY <1>1, <1>3, <2>3, DoorStep
  <2>6. QED BY <2>1, <2>2, <2>4, <2>5 DEF KernelInv
<1>4. CASE Outside
  <2>1. /\ TypesAt(KernelPcs)' /\ DeferredTypesAt(KernelPcs)'
        /\ LockMatchesCall' /\ ClosesTo(rows, rows', {"expired"})
        /\ Quiet /\ AnswerQuiet /\ Advances /\ runs' = runs
        /\ SameAt(AnswerPcs)
        /\ StillAt({"approve_load", "reject_load", "approve_mark", "execute",
                    "record", "reject_mark"})
    BY <1>4, OutsideIsQuiet DEF Quiet
  <2>2. \A i \in Ids : rows[i].status = "absent" => rows'[i].status = "absent"
    BY <2>1 DEF ClosesTo
  <2>3. CallOK' /\ AnswerKnows' /\ RowsOK'
    BY <1>1, <2>1, <2>2, CallQuiet, KnowsQuiet, RowsQuiet
  <2>4. OnceInv' /\ AnswerInv' /\ DoorInv'
    BY <1>1, <2>1, OnceQuiet, AnswerQuietStep, DoorStep
  <2>5. QED BY <2>1, <2>3, <2>4 DEF KernelInv
<1>5. QED BY <1>2, <1>3, <1>4 DEF KernelNext, Outside

LEMMA KernelInductive == KernelSpec => []KernelInv
  BY KernelInit1, KernelStep, PTL DEF KernelSpec

\* Every step of the kernel inserts, closes or decides, and nothing else.
LEMMA StepAdvances ==
  ASSUME KernelInv, [KernelNext]_kernelVars
  PROVE  Advances
<1>1. /\ TypesAt(KernelPcs) /\ CallOK
  BY DEF KernelInv
<1>2. ASSUME NEW t \in Threads, TokenCall(t) PROVE Advances
  BY <1>1, <1>2, TokenCallEffect
<1>3. ASSUME NEW t \in Threads, DeferredCall(t), UNCHANGED <<stop, runs>>
      PROVE  Advances
  BY <1>3, DeferredCallForeign DEF Quiet
<1>4. CASE Outside
  BY <1>4, OutsideIsQuiet DEF Quiet
<1>5. QED BY <1>2, <1>3, <1>4 DEF KernelNext, Outside

\* Type correctness of the two protocols, whoever runs beside whom.
THEOREM KernelTypeCorrect ==
  KernelSpec => [](TypesAt(KernelPcs) /\ DeferredTypesAt(KernelPcs))
<1>1. KernelInv => TypesAt(KernelPcs) /\ DeferredTypesAt(KernelPcs)
  BY DEF KernelInv
<1>2. QED BY <1>1, KernelInductive, PTL

\* A code redeems at most once in a process, with deferred consent beside it.
THEOREM KernelOncePerProcess == KernelSpec => []PerformedOncePerProcess
<1>1. KernelInv => PerformedOncePerProcess
  BY DEF KernelInv, OnceInv, PerformedOncePerProcess
<1>2. QED BY <1>1, KernelInductive, PTL

\* A deferred row is never performed with a code, nor a token row with a yes,
\* and only a token row gets an outcome recorded.
THEOREM DoorsStayApart == KernelSpec => []DoorsApart
<1>1. KernelInv => DoorsApart
  <2>1. \A x \in {0, 1} : x > 0 => x = 1
    OBVIOUS
  <2>2. KernelInv => \A i \in Ids : performed[i] > 0 => rows[i].consent = "deferred"
    BY <2>1 DEF KernelInv, AnswerInv
  <2>3. QED BY <2>2 DEF KernelInv, DoorInv, DoorsApart
<1>2. QED BY <1>1, KernelInductive, PTL

\* A staged action is performed at most once, and only after the yes of the
\* origin that staged it, whichever calls, stops and sweeps of whichever
\* processes come between.
THEOREM OnlyWithOwnYes == KernelSpec => []PerformedOnlyWithOwnYes
<1>1. KernelInv => PerformedOnlyWithOwnYes
  <2>1. \A x \in {0, 1} : x <= 1
    OBVIOUS
  <2>2. QED BY <2>1 DEF KernelInv, AnswerInv, PerformedOnlyWithOwnYes
<1>2. QED BY <1>1, KernelInductive, PTL

\* A deferred row that was decided is never written again, by either door.
THEOREM DecidedDeferredStays == KernelSpec => DeferredIsFinal
<1> DEFINE Final == \A i \in Ids : /\ rows[i].consent = "deferred"
                                   /\ rows[i].status # "pending"
                                   => rows'[i] = rows[i]
<1>1. KernelInv /\ [KernelNext]_kernelVars => [Final]_kernelVars
  <2> SUFFICES ASSUME KernelInv, [KernelNext]_kernelVars PROVE Final
    OBVIOUS
  <2>1. RowsOK
    BY DEF KernelInv
  <2>2. Advances
    BY StepAdvances
  <2>3. QED BY <2>1, <2>2, AdvancesKeep DEF RowsOK
<1>2. QED BY <1>1, KernelInductive, PTL DEF KernelSpec, DeferredIsFinal
-----------------------------------------------------------------------------
(* With one process, and with one voice loop.                              *)

LEMMA RejectStep ==
  ASSUME \A p, q \in Processes : p = q,
         KernelInv, RejectInv, [KernelNext]_kernelVars
  PROVE  RejectInv'
<1>1. /\ TypesAt(KernelPcs) /\ CallOK /\ LockMatchesCall /\ OnceInv
  BY DEF KernelInv
<1>2. ASSUME NEW t \in Threads, TokenCall(t) PROVE RejectInv'
  BY <1>1, <1>2, RejectCall
<1>3. ASSUME NEW t \in Threads, DeferredCall(t), UNCHANGED <<stop, runs>>
      PROVE  RejectInv'
  <2>1. Quiet /\ Decides /\ Inserts(t)
    BY <1>3, DeferredCallForeign
  <2>2. \A u \in Threads : pc[u] = "approve_mark" => rows[arg[u]].consent = "token"
    BY <1>1 DEF CallOK
  <2>3. ASSUME NEW i \in Ids, rows'[i].status = "rejected"
        PROVE  \/ rows[i].status = "rejected"
               \/ /\ rows[i].status = "pending"
                  /\ rows[i].consent = "deferred"
    BY <2>1, <2>3 DEF Decides, Inserts
  <2>4. QED BY <1>1, <2>1, <2>2, <2>3, RejectQuiet
<1>4. CASE Outside
  <2>1. Quiet /\ ClosesTo(rows, rows', {"expired"})
    BY <1>4, OutsideIsQuiet
  <2>2. QED BY <1>1, <2>1, RejectQuiet DEF ClosesTo
<1>5. QED BY <1>2, <1>3, <1>4 DEF KernelNext, Outside

\* In one process, what somebody rejected was not performed and never will be:
\* the lock keeps a redemption's look and mark together, and a rejection's.
\* (Two processes have a lock each; see the README.)
THEOREM RejectedStays ==
  ASSUME \A p, q \in Processes : p = q
  PROVE  KernelSpec => []RejectedNeverPerformed
<1>1. KernelInit => RejectInv
  BY DEF KernelInit, TokenInit, StoreInit, Absent, RejectInv
<1>2. KernelInv /\ RejectInv /\ [KernelNext]_kernelVars => RejectInv'
  BY RejectStep
<1>3. RejectInv => RejectedNeverPerformed
  BY DEF RejectInv, RejectedNeverPerformed
<1>4. QED BY <1>1, <1>2, <1>3, KernelInductive, PTL DEF KernelSpec

LEMMA WitnessStep ==
  ASSUME KernelInv, WitnessInv, [KernelNext]_kernelVars
  PROVE  WitnessInv'
<1>1. /\ TypesAt(KernelPcs) /\ DeferredTypesAt(KernelPcs)
      /\ CallOK /\ AnswerKnows /\ RowsOK
      /\ rows \in [Ids -> Row] /\ now \in Nat
      /\ turn \in [Origins -> Nat] /\ others \in [Threads -> Nat]
      /\ DeferredPcs \subseteq KernelPcs
  BY TimeAssumption DEF KernelInv, TypesAt, DeferredTypesAt, StoreTypeOK, KernelPcs
<1>2. /\ rows' \in [Ids -> Row] /\ now' \in Nat /\ RowsOK'
      /\ others' \in [Threads -> Nat]
  BY KernelStep, TimeAssumption
     DEF KernelInv, TypesAt, DeferredTypesAt, StoreTypeOK
<1>3. ASSUME NEW t \in Threads, TokenCall(t), UNCHANGED deferredOnly
      PROVE  WitnessInv'
  <2>1. /\ SameAt(WitnessPcs) /\ Advances
        /\ \A i \in Ids : rows[i].status = "absent" =>
             rows'[i].status = "absent" \/ rows'[i].consent = "token"
    BY <1>3, TokenCallForeign DEF AnswerQuiet
  <2>2. now' = now /\ now <= now' /\ turn' = turn
    BY <1>1, <1>3, TokenCallEffect DEF deferredOnly, history
  <2>3. QED BY <1>1, <1>2, <2>1, <2>2, WitnessQuiet
<1>4. ASSUME NEW t \in Threads, DeferredCall(t) PROVE WitnessInv'
  BY <1>1, <1>4, WitnessCall
<1>5. CASE Outside
  <2>1. /\ SameAt(WitnessPcs) /\ Advances /\ turn' = turn /\ now <= now'
        /\ ClosesTo(rows, rows', {"expired"})
    BY <1>5, OutsideIsQuiet DEF Quiet
  <2>2. \A i \in Ids : rows[i].status = "absent" => rows'[i].status = "absent"
    BY <2>1 DEF ClosesTo
  <2>3. QED BY <1>1, <1>2, <2>1, <2>2, WitnessQuiet
<1>6. QED BY <1>3, <1>4, <1>5 DEF KernelNext, Outside

\* A keystroke is sent by a call that compared this very row with the window
\* and with the turn, or was staged by another loop of the origin since that
\* call peeked: however many loops answer for an origin, and whatever the
\* other door does.
THEOREM KeystrokesCompared == KernelSpec => []SentAsCompared
<1>1. KernelInit => WitnessInv
  BY DEF KernelInit, TokenInit, StoreInit, Absent, WitnessInv, OneOpen, WitnessOK
<1>2. KernelInv /\ WitnessInv /\ [KernelNext]_kernelVars => WitnessInv'
  BY WitnessStep
<1>3. WitnessInv => SentAsCompared
  BY DEF WitnessInv, WitnessOK, InTime, SentAsCompared, At
<1>4. QED BY <1>1, <1>2, <1>3, KernelInductive, PTL DEF KernelSpec
-----------------------------------------------------------------------------
(* Deferred consent implements Consent.                                    *)

\* Of this protocol alone, every row that is there is a question.
OnlyQuestions ==
  \A i \in Ids : rows[i].status # "absent" => rows[i].consent = "deferred"

DeferredInv == /\ DeferredTypesAt(DeferredPcs)
               /\ AnswerKnows /\ RowsOK /\ AnswerInv /\ OnlyQuestions

LEMMA DeferredInit1 == DeferredInit => DeferredInv
<1> SUFFICES ASSUME DeferredInit PROVE DeferredInv
  OBVIOUS
<1>1. Absent \in Row
  BY NoneAssumption DEF Absent, Row, Statuses
<1>2. DeferredTypesAt(DeferredPcs)
  BY <1>1, TimeAssumption
     DEF DeferredInit, StoreInit, DeferredTypesAt, StoreTypeOK, DeferredPcs
<1>3. AnswerKnows /\ RowsOK /\ AnswerInv /\ OnlyQuestions
  BY DEF DeferredInit, StoreInit, Absent, AnswerKnows, RowsOK, AnswerInv,
         OnlyQuestions
<1>4. QED BY <1>2, <1>3 DEF DeferredInv

\* What nobody's answer does: a restart, the window, the stop of some process,
\* sweeps and the clock.
Elsewhere == \/ \E w \in Windows \cup {None} : WindowChanges(w)
             \/ \E p \in Processes : RestartDeferred(p)
             \/ StoppedElsewhere
             \/ (Sweep \/ Tick) /\ UNCHANGED deferredOnly
             \/ UNCHANGED deferredVars

LEMMA ElsewhereCloses ==
  ASSUME DeferredInv, Elsewhere
  PROVE  /\ DeferredTypesAt(DeferredPcs)'
         /\ \E s \in {"expired", "cancelled"} : ClosesTo(rows, rows', {s})
         /\ performed' = performed /\ answerer' = answerer
         /\ SameAt(AnswerPcs) /\ SameAt(WitnessPcs)
<1> DEFINE Goal == /\ DeferredTypesAt(DeferredPcs)'
                   /\ \E s \in {"expired", "cancelled"} : ClosesTo(rows, rows', {s})
                   /\ performed' = performed /\ answerer' = answerer
                   /\ \A t \in Threads : pc'[t] # "idle" =>
                        /\ pc'[t] = pc[t] /\ arg'[t] = arg[t]
                        /\ seen'[t] = seen[t]
                        /\ newer'[t] = newer[t] /\ others'[t] = others[t]
<1>1. /\ DeferredTypesAt(DeferredPcs) /\ rows \in [Ids -> Row]
      /\ now \in 0..MaxTime /\ "idle" \in DeferredPcs
  BY DEF DeferredInv, DeferredTypesAt, StoreTypeOK, DeferredPcs
<1>2. ClosesTo(rows, rows, {"expired"})
  BY DEF ClosesTo
<1>3. /\ ExpirePending(rows) \in [Ids -> Row]
      /\ ClosesTo(rows, ExpirePending(rows), {"expired"})
      /\ MarkAllPendingCancelled(rows) \in [Ids -> Row]
      /\ ClosesTo(rows, MarkAllPendingCancelled(rows), {"cancelled"})
  BY <1>1, ExpirePendingCloses, MarkAllPendingCancelledCloses
<1> USE DEF DeferredTypesAt, StoreTypeOK
<1>4. ASSUME NEW w \in Windows \cup {None}, WindowChanges(w) PROVE Goal
  BY <1>1, <1>2, <1>4 DEF WindowChanges, history
<1>5. ASSUME NEW p \in Processes, RestartDeferred(p) PROVE Goal
  BY <1>1, <1>2, <1>5 DEF RestartDeferred, RestartStore
<1>6. ASSUME StoppedElsewhere PROVE Goal
  BY <1>1, <1>3, <1>6 DEF StoppedElsewhere, deferredOnly, history
<1>7. ASSUME Sweep, UNCHANGED deferredOnly PROVE Goal
  BY <1>1, <1>3, <1>7 DEF Sweep, deferredOnly, history
<1>8. ASSUME Tick, UNCHANGED deferredOnly PROVE Goal
  <2>1. now' \in 0..MaxTime
    BY <1>1, <1>8, TimeAssumption DEF Tick
  <2>2. QED BY <1>1, <1>2, <1>8, <2>1 DEF Tick, deferredOnly, history
<1>9. ASSUME UNCHANGED deferredVars PROVE Goal
  BY <1>1, <1>2, <1>9 DEF deferredVars, deferredOnly, history
<1> HIDE DEF Goal
<1>10. Goal
  BY <1>4, <1>5, <1>6, <1>7, <1>8, <1>9 DEF Elsewhere
<1>11. QED BY <1>10 DEF Goal, SameAt, AnswerPcs, WitnessPcs

\* Nobody else's step counts a turn or turns the clock back.
LEMMA ElsewhereTurns ==
  ASSUME DeferredInv, Elsewhere
  PROVE  turn' = turn /\ now \in Nat /\ now' \in Nat /\ now <= now'
<1>1. now \in Nat /\ now <= now /\ now <= now + 1
  BY TimeAssumption DEF DeferredInv, DeferredTypesAt, StoreTypeOK
<1>2. /\ turn' = turn
      /\ now' = now \/ now' = now + 1
  BY DEF Elsewhere, WindowChanges, RestartDeferred, RestartStore, StoppedElsewhere,
         Sweep, Tick, deferredVars, deferredOnly
<1>3. QED BY <1>1, <1>2

LEMMA DeferredStep == DeferredInv /\ [DeferredNext]_deferredVars => DeferredInv'
<1> SUFFICES ASSUME DeferredInv, [DeferredNext]_deferredVars PROVE DeferredInv'
  OBVIOUS
<1>1. /\ DeferredTypesAt(DeferredPcs) /\ AnswerKnows /\ RowsOK /\ AnswerInv
      /\ OnlyQuestions
  BY DEF DeferredInv
<1>2. ASSUME NEW t \in Threads, DeferredCall(t) PROVE DeferredInv'
  <2>1. DeferredTypesAt(DeferredPcs)' /\ AnswerKnows' /\ AnswerInv'
    BY <1>1, <1>2, DeferredTypeCall, KnowsCall, AnswerCall
  <2>2. Advances /\ Inserts(t)
    BY <1>1, <1>2, DeferredCallEffect DEF DeferredEffect
  <2>3. RowsOK'
    BY <1>1, <2>2, RowsCall
  <2>4. OnlyQuestions'
    BY <1>1, <2>2, AdvancesKeep DEF OnlyQuestions, Inserts, SameQuestion
  <2>5. QED BY <2>1, <2>3, <2>4 DEF DeferredInv
<1>3. CASE Elsewhere
  <2>1. /\ DeferredTypesAt(DeferredPcs)' /\ SameAt(AnswerPcs)
        /\ performed' = performed /\ answerer' = answerer
    BY <1>3, ElsewhereCloses
  <2>2. PICK s \in {"expired", "cancelled"} : ClosesTo(rows, rows', {s})
    BY <1>3, ElsewhereCloses
  <2>3. Advances
    BY <2>2, ClosingAdvances DEF Closings
  <2>4. AnswerQuiet
    BY <2>1, <2>3 DEF AnswerQuiet, StillAt, SameAt, AnswerPcs
  <2>5. AnswerKnows' /\ RowsOK' /\ AnswerInv'
    BY <1>1, <2>1, <2>2, <2>3, <2>4, KnowsQuiet, RowsQuiet, AnswerQuietStep
       DEF ClosesTo
  <2>6. OnlyQuestions'
    BY <1>1, <2>2 DEF OnlyQuestions, ClosesTo, SameQuestion
  <2>7. QED BY <2>1, <2>5, <2>6 DEF DeferredInv
<1>4. QED BY <1>2, <1>3 DEF DeferredNext, Elsewhere

LEMMA DeferredInductive == DeferredSpec => []DeferredInv
  BY DeferredInit1, DeferredStep, PTL DEF DeferredSpec

LEMMA DeferredWitnessStep ==
  ASSUME DeferredInv, WitnessInv, [DeferredNext]_deferredVars
  PROVE  WitnessInv'
<1>1. /\ DeferredTypesAt(DeferredPcs) /\ AnswerKnows /\ RowsOK
      /\ rows \in [Ids -> Row]
      /\ turn \in [Origins -> Nat] /\ others \in [Threads -> Nat]
  BY DEF DeferredInv, DeferredTypesAt, StoreTypeOK
<1>2. rows' \in [Ids -> Row] /\ RowsOK' /\ others' \in [Threads -> Nat]
  BY DeferredStep DEF DeferredInv, DeferredTypesAt, StoreTypeOK
<1>3. ASSUME NEW t \in Threads, DeferredCall(t) PROVE WitnessInv'
  BY <1>1, <1>3, WitnessCall
<1>4. CASE Elsewhere
  <2>1. /\ SameAt(WitnessPcs) /\ turn' = turn
        /\ now \in Nat /\ now' \in Nat /\ now <= now'
    BY <1>4, ElsewhereCloses, ElsewhereTurns
  <2>2. PICK s \in {"expired", "cancelled"} : ClosesTo(rows, rows', {s})
    BY <1>4, ElsewhereCloses
  <2>3. {s} \in SUBSET Closings
    BY <2>2 DEF Closings
  <2>4. Advances
    BY <1>1, <2>2, <2>3, ClosingAdvances
  <2>5. \A i \in Ids : rows[i].status = "absent" => rows'[i].status = "absent"
    BY <2>2 DEF ClosesTo
  <2>6. QED BY <1>1, <1>2, <2>1, <2>4, <2>5, WitnessQuiet
<1>5. QED BY <1>3, <1>4 DEF DeferredNext, Elsewhere

\* The same of deferred consent alone, whose rows the emergency stop of any
\* process may close between two steps of an answer.
THEOREM StagedKeystrokesCompared == DeferredSpec => []SentAsCompared
<1>1. DeferredInit => WitnessInv
  BY DEF DeferredInit, StoreInit, Absent, WitnessInv, OneOpen, WitnessOK
<1>2. DeferredInv /\ WitnessInv /\ [DeferredNext]_deferredVars => WitnessInv'
  BY DeferredWitnessStep
<1>3. WitnessInv => SentAsCompared
  BY DEF WitnessInv, WitnessOK, InTime, SentAsCompared, At
<1>4. QED BY <1>1, <1>2, <1>3, DeferredInductive, PTL DEF DeferredSpec
-----------------------------------------------------------------------------
\* What a row amounts to, before a step and after it.
LEMMA Meaning ==
  ASSUME rows \in [Ids -> Row], AnswerInv, NEW i \in Ids
  PROVE  LET q == QuestionState[i]  s == rows[i].status IN
         /\ s = "absent"  <=> q = "unasked"
         /\ s = "pending" <=> q = "open"
         /\ s = "approved" /\ performed[i] = 0 <=> q = "granted"
         /\ s = "approved" /\ performed[i] = 1 <=> q = "done"
         /\ s \notin {"absent", "pending", "approved"} <=> q = "closed"
<1>1. performed[i] \in {0, 1} /\ (performed[i] = 1 => rows[i].status = "approved")
  BY DEF AnswerInv
<1>2. QED BY <1>1 DEF QuestionState

LEMMA MeaningNext ==
  ASSUME (rows \in [Ids -> Row])', AnswerInv', NEW i \in Ids
  PROVE  LET q == QuestionState'[i]  s == rows'[i].status IN
         /\ s = "absent"  <=> q = "unasked"
         /\ s = "pending" <=> q = "open"
         /\ s = "approved" /\ performed'[i] = 0 <=> q = "granted"
         /\ s = "approved" /\ performed'[i] = 1 <=> q = "done"
         /\ s \notin {"absent", "pending", "approved"} <=> q = "closed"
<1>1. performed'[i] \in {0, 1} /\ (performed'[i] = 1 => rows'[i].status = "approved")
  BY DEF AnswerInv
<1>2. QED BY <1>1 DEF QuestionState

\* Closing rows, by time, by the stop or for an answer that came too late, is
\* Consent's Close.
LEMMA ClosingMaps ==
  ASSUME DeferredInv, DeferredInv', performed' = performed, answerer' = answerer,
         NEW s \in {"expired", "cancelled"}, ClosesTo(rows, rows', {s})
  PROVE  C!Close
<1> DEFINE S == {j \in Ids : QuestionState[j] = "open" /\ QuestionState'[j] = "closed"}
<1>1. /\ rows \in [Ids -> Row] /\ AnswerInv /\ (rows \in [Ids -> Row])' /\ AnswerInv'
  BY DEF DeferredInv, DeferredTypesAt, StoreTypeOK
<1>2. ASSUME NEW j \in Ids
      PROVE  /\ QuestionState'[j] = IF j \in S THEN "closed" ELSE QuestionState[j]
             /\ rows'[j].origin = rows[j].origin
  <2>1. CASE rows'[j] = rows[j]
    BY <1>1, <2>1 DEF QuestionState
  <2>2. CASE /\ rows[j].status = "pending" /\ rows'[j].status = s
             /\ SameQuestion(rows'[j], rows[j])
    BY <1>1, <2>2, Meaning, MeaningNext DEF SameQuestion
  <2>3. QED BY <2>1, <2>2 DEF ClosesTo
<1>3. QuestionState' = [j \in Ids |-> IF j \in S THEN "closed" ELSE QuestionState[j]]
  BY <1>2 DEF QuestionState
<1>4. S \in SUBSET {j \in Ids : QuestionState[j] = "open"}
  OBVIOUS
<1>5. AskedBy' = AskedBy
  BY <1>2 DEF AskedBy
<1>6. QED BY <1>3, <1>4, <1>5 DEF C!Close

\* Staging is Consent's Ask: the origin's earlier question goes with it.
LEMMA StagingMaps ==
  ASSUME DeferredInv, DeferredInv', performed' = performed, answerer' = answerer,
         NEW t \in Threads, NEW i \in Ids, rows[i].status = "absent",
         NEW w \in Windows \cup {None}, NEW n \in Nat,
         rows' = Staged(OriginOf[t], i, w, n)
  PROVE  C!Ask(OriginOf[t], i)
<1> DEFINE o == OriginOf[t]
           S == {j \in Ids : QuestionState[j] = "open" /\ QuestionState'[j] = "closed"}
<1>1. /\ rows \in [Ids -> Row] /\ AnswerInv /\ (rows \in [Ids -> Row])' /\ AnswerInv'
  BY DEF DeferredInv, DeferredTypesAt, StoreTypeOK
<1>2. /\ rows' \in [Ids -> Row]
      /\ Advances
      /\ rows'[i].status = "pending"   /\ rows'[i].consent = "deferred"
      /\ rows'[i].origin = o           /\ rows'[i].witness = w
      /\ \A j \in Ids \ {i} :
           /\ \/ rows'[j] = rows[j]
              \/ /\ rows[j].status = "pending"
                 /\ rows'[j].status \in {"expired", "cancelled"}
                 /\ SameQuestion(rows'[j], rows[j])
           /\ rows[j].consent = "deferred" /\ rows[j].origin = o
                => rows'[j].status # "pending"
  <2>1. /\ rows \in [Ids -> Row] /\ now \in 0..MaxTime
        /\ turn \in [Origins -> Nat] /\ OriginOf[t] \in Origins
    BY OriginAssumption DEF DeferredInv, DeferredTypesAt, StoreTypeOK
  <2>2. QED BY <2>1, StagedTable
<1>3. QuestionState[i] = "unasked" /\ QuestionState'[i] = "open"
  BY <1>1, <1>2, Meaning, MeaningNext
<1>4. ASSUME NEW j \in Ids \ {i}
      PROVE  /\ QuestionState'[j] = IF j \in S THEN "closed" ELSE QuestionState[j]
             /\ rows'[j].origin = rows[j].origin
  <2>1. CASE rows'[j] = rows[j]
    BY <1>1, <2>1 DEF QuestionState
  <2>2. CASE /\ rows[j].status = "pending"
             /\ rows'[j].status \in {"expired", "cancelled"}
             /\ SameQuestion(rows'[j], rows[j])
    BY <1>1, <2>2, Meaning, MeaningNext DEF SameQuestion
  <2>3. QED BY <1>2, <2>1, <2>2
<1>5. QuestionState' = [j \in Ids |-> IF j = i THEN "open"
                                      ELSE IF j \in S THEN "closed"
                                      ELSE QuestionState[j]]
  BY <1>3, <1>4 DEF QuestionState
<1>6. C!OpenOf(o) \subseteq S
  <2>1. ASSUME NEW j \in Ids, QuestionState[j] = "open", rows[j].origin = o
        PROVE  QuestionState'[j] = "closed"
    <3>1. rows[j].status = "pending" /\ j # i
      BY <1>1, <1>3, <2>1, Meaning
    <3>2. rows[j].consent = "deferred"
      BY <3>1 DEF DeferredInv, OnlyQuestions
    <3>3. rows'[j].status \in {"expired", "cancelled"}
      BY <1>2, <2>1, <3>1, <3>2
    <3>4. QED BY <1>1, <3>3, MeaningNext
  <2>2. QED BY <2>1 DEF C!OpenOf, AskedBy
<1>7. S \in SUBSET {j \in Ids : QuestionState[j] = "open"}
  OBVIOUS
<1>8. AskedBy' = [AskedBy EXCEPT ![i] = o]
  BY <1>2, <1>4 DEF AskedBy
<1>9. QED BY <1>3, <1>5, <1>6, <1>7, <1>8 DEF C!Ask

\* A yes or a no that finds the row pending is Consent's Answer ...
LEMMA AnswerMaps ==
  ASSUME DeferredInv, DeferredInv', performed' = performed,
         NEW t \in Threads, StagedBy(t, arg[t]), Pending(arg[t]),
         answerer' = [answerer EXCEPT ![arg[t]] = OriginOf[t]],
         NEW s \in {"approved", "rejected"},
         rows' = MarkPendingDecision(rows, arg[t], s)
  PROVE  C!Answer(arg[t], IF s = "approved" THEN "granted" ELSE "closed")
<1> DEFINE i == arg[t]
           v == IF s = "approved" THEN "granted" ELSE "closed"
<1>1. /\ rows \in [Ids -> Row] /\ AnswerInv /\ (rows \in [Ids -> Row])' /\ AnswerInv'
      /\ i \in Ids /\ s \in Statuses /\ s # "pending"
  BY DEF DeferredInv, DeferredTypesAt, StoreTypeOK, StagedBy, Statuses
<1>2. /\ ClosesTo(rows, rows', {s})
      /\ rows'[i].status # "pending"
      /\ \A j \in Ids \ {i} : rows'[j] = rows[j]
  BY <1>1, MarkPendingDecisionCloses
<1>3. /\ rows'[i].status = s /\ rows'[i].origin = rows[i].origin
      /\ rows[i].status = "pending" /\ rows[i].origin = OriginOf[t]
  BY <1>1, <1>2 DEF ClosesTo, SameQuestion, StagedBy, Pending
<1>4. performed[i] = 0
  BY <1>1, <1>3 DEF AnswerInv
<1>5. QuestionState[i] = "open" /\ QuestionState'[i] = v
  BY <1>1, <1>3, <1>4, Meaning, MeaningNext
<1>6. \A j \in Ids \ {i} : QuestionState'[j] = QuestionState[j]
  BY <1>2 DEF QuestionState
<1>7. QuestionState' = [QuestionState EXCEPT ![i] = v]
  BY <1>1, <1>5, <1>6 DEF QuestionState
<1>8. AskedBy' = AskedBy /\ AskedBy[i] = OriginOf[t]
  BY <1>1, <1>2, <1>3 DEF AskedBy
<1>9. QED BY <1>5, <1>7, <1>8 DEF C!Answer

\* ... and the performance that follows is its Perform.
LEMMA PerformMaps ==
  ASSUME DeferredInv, DeferredInv', NEW t \in Threads, Perform(t)
  PROVE  C!Perform(arg[t])
<1> DEFINE i == arg[t]
<1>1. /\ rows \in [Ids -> Row] /\ AnswerInv /\ (rows \in [Ids -> Row])' /\ AnswerInv'
      /\ pc[t] = "perform" /\ i \in Ids /\ UNCHANGED <<rows, answerer>>
      /\ performed \in [Ids -> Nat]
      /\ performed' = [performed EXCEPT ![i] = @ + 1]
  BY DEF DeferredInv, DeferredTypesAt, StoreTypeOK, Perform, At, AnswerKnows,
         StagedBy
<1>2. performed[i] = 0 /\ performed'[i] = 1 /\ rows[i].status = "approved"
  BY <1>1 DEF AnswerInv
<1>3. QuestionState[i] = "granted" /\ QuestionState'[i] = "done"
  BY <1>1, <1>2, Meaning, MeaningNext
<1>4. \A j \in Ids \ {i} : QuestionState'[j] = QuestionState[j]
  BY <1>1 DEF QuestionState
<1>5. QuestionState' = [QuestionState EXCEPT ![i] = "done"]
  BY <1>1, <1>3, <1>4 DEF QuestionState
<1>6. QED BY <1>1, <1>3, <1>5 DEF C!Perform, AskedBy

\* Each step of deferred consent is one of Consent's, or none.
LEMMA ConsentStep ==
  ASSUME DeferredInv, DeferredInv', [DeferredNext]_deferredVars
  PROVE  [C!Next]_C!consentVars
<1>1. /\ AnswerKnows /\ RowsOK /\ DeferredTypesAt(DeferredPcs)
      /\ rows \in [Ids -> Row] /\ now \in 0..MaxTime
      /\ seen \in [Threads -> Ids \cup {None}]
      /\ reading \in [Threads -> Windows \cup {None}]
  BY DEF DeferredInv, DeferredTypesAt, StoreTypeOK
<1>2. ASSUME NEW s \in {"expired", "cancelled"}, ClosesTo(rows, rows', {s}),
             performed' = performed, answerer' = answerer
      PROVE  C!Next
  BY <1>2, ClosingMaps DEF C!Next
<1>3. ASSUME rows' = rows, performed' = performed, answerer' = answerer
      PROVE  C!Next
  BY <1>2, <1>3 DEF ClosesTo
<1>4. ASSUME rows' = ExpirePending(rows), performed' = performed,
             answerer' = answerer
      PROVE  C!Next
  BY <1>1, <1>2, <1>4, ExpirePendingCloses
<1>5. ASSUME NEW t \in Threads, NEW i \in Ids, rows[i].status = "absent",
             NEW w \in Windows \cup {None}, NEW n \in Nat,
             rows' = Staged(OriginOf[t], i, w, n),
             performed' = performed, answerer' = answerer
      PROVE  C!Next
  <2>1. OriginOf[t] \in Origins
    BY OriginAssumption
  <2>2. QED BY <1>5, <2>1, StagingMaps DEF C!Next
<1>6. ASSUME NEW t \in Threads, DeferredCall(t) PROVE C!Next
  <2>1. ASSUME NEW i \in Ids, NEW w \in Witnesses(t), StageDeferred(t, i, w)
        PROVE  C!Next
    BY <1>1, <1>5, <2>1, StageInputs DEF StageDeferred
  <2>2. ASSUME NEW id \in Given(t), ApproveDeferred(t, id) \/ DenyDeferred(t, id)
        PROVE  C!Next
    BY <1>4, <2>2 DEF ApproveDeferred, DenyDeferred, deferredOnly, history
  <2>3. CASE PeekUnwitnessed(t) \/ InTurn(t) \/ WitnessMatches(t)
             \/ SelectNothing(t, "claim_select") \/ SelectNothing(t, "deny_select")
             \/ ClaimLost(t) \/ OtherTurn(t) \/ BumpTurn(t) \/ TurnLost(t)
    <3>1. rows' = rows /\ performed' = performed /\ answerer' = answerer
      BY <2>3 DEF PeekUnwitnessed, InTurn, WitnessMatches, SelectNothing,
                  ClaimLost, OtherTurn, BumpTurn, TurnLost, deferredOnly, history
    <3>2. QED BY <1>3, <3>1
  <2>4. ASSUME NEW i \in Ids,
               \/ Peek(t, i)
               \/ Select(t, i, "claim_select", "claim")
               \/ Select(t, i, "deny_select", "deny")
        PROVE  C!Next
    BY <1>3, <2>4 DEF Peek, Select, deferredOnly, history
  <2>5. CASE StaleTurn(t) \/ WitnessRefuses(t) \/ WitnessMismatch(t)
    <3>1. /\ seen[t] \in Ids /\ performed' = performed /\ answerer' = answerer
          /\ rows' = MarkPendingDecision(rows, seen[t], "cancelled")
      BY <1>1, <2>5
         DEF StaleTurn, WitnessRefuses, WitnessMismatch, At, AnswerKnows, StagedBy
    <3>2. ClosesTo(rows, rows', {"cancelled"})
      BY <1>1, <3>1, MarkPendingDecisionCloses DEF Statuses
    <3>3. QED BY <1>2, <3>1, <3>2
  <2>6. ASSUME NEW i \in Ids, Restage(t, i) PROVE C!Next
    <3>1. /\ seen[t] \in Ids /\ rows[i].status = "absent"
          /\ performed' = performed /\ answerer' = answerer
          /\ rows' = Staged(OriginOf[t], i, reading[t], rows[seen[t]].reask + 1)
      BY <1>1, <2>6 DEF Restage, At, AnswerKnows, StagedBy
    <3>2. rows[seen[t]].reask + 1 \in Nat /\ reading[t] \in Windows \cup {None}
      BY <1>1, <3>1 DEF Row
    <3>3. QED BY <1>5, <3>1, <3>2
  <2>7. CASE ClaimSweep(t)
    BY <1>4, <2>7 DEF ClaimSweep, deferredOnly, history
  <2>8. CASE Claim(t) \/ Deny(t)
    <3>1. /\ StagedBy(t, arg[t]) /\ Pending(arg[t]) /\ arg[t] \in Ids
          /\ performed' = performed
          /\ answerer' = [answerer EXCEPT ![arg[t]] = OriginOf[t]]
      BY <1>1, <2>8 DEF Claim, Deny, At, AnswerKnows, StagedBy
    <3>2. PICK s \in {"approved", "rejected"} :
                 rows' = MarkPendingDecision(rows, arg[t], s)
      BY <2>8 DEF Claim, Deny
    <3>3. C!Answer(arg[t], IF s = "approved" THEN "granted" ELSE "closed")
      BY <3>1, <3>2, AnswerMaps
    <3>4. (IF s = "approved" THEN "granted" ELSE "closed") \in {"granted", "closed"}
      OBVIOUS
    <3>5. QED BY <3>1, <3>3, <3>4 DEF C!Next
  <2>9. CASE Perform(t)
    <3>1. arg[t] \in Ids
      BY <1>1, <2>9 DEF Perform, At, AnswerKnows, StagedBy
    <3>2. QED BY <2>9, <3>1, PerformMaps DEF C!Next
  <2>10. QED
    BY <1>6, <2>1, <2>2, <2>3, <2>4, <2>5, <2>6, <2>7, <2>8, <2>9
       DEF DeferredCall, Answering
<1>7. CASE Elsewhere
  <2>1. PICK s \in {"expired", "cancelled"} : ClosesTo(rows, rows', {s})
    BY <1>7, ElsewhereCloses
  <2>2. performed' = performed /\ answerer' = answerer
    BY <1>7, ElsewhereCloses
  <2>3. QED BY <1>2, <2>1, <2>2
<1>8. QED BY <1>6, <1>7 DEF DeferredNext, Elsewhere

\* Deferred consent, with all its calls, sweeps, stops and restarts, is
\* Consent: each question is asked once, answered at most once and by its own
\* asker, performed at most once and only after a yes.
THEOREM DeferredImplementsConsent == DeferredSpec => ConsentKept
<1>1. DeferredInit => C!Init
  <2>1. DeferredInit => QuestionState = [i \in Ids |-> "unasked"]
    BY DEF DeferredInit, StoreInit, Absent, QuestionState
  <2>2. DeferredInit => AskedBy = [i \in Ids |-> None]
    BY DEF DeferredInit, StoreInit, Absent, AskedBy
  <2>3. QED BY <2>1, <2>2 DEF C!Init, DeferredInit
<1>2. DeferredInv /\ DeferredInv' /\ [DeferredNext]_deferredVars
        => [C!Next]_C!consentVars
  BY ConsentStep
<1>3. QED
  BY <1>1, <1>2, DeferredInductive, PTL DEF DeferredSpec, ConsentKept, C!Spec
=============================================================================
