--------------------------- MODULE TokenApprovals ---------------------------
(***************************************************************************)
(* Token approvals and the emergency stop (pc_control.py).  An action that *)
(* needs approval is inserted pending and its code is printed on the       *)
(* console; whoever holds the code redeems it over HTTP or with            *)
(* `grandpa approve`, which is another process with a lock and an          *)
(* emergency-stop flag of its own.                                         *)
(*                                                                         *)
(* A call is cut where another thread can act: at every statement, at the  *)
(* acquisition of the lock and before the action is executed.              *)
(***************************************************************************)
EXTENDS ApprovalStore

CONSTANT Risky      \* ids of MEDIUM or HIGH risk: what the stop holds back

ASSUME RiskyAssumption == Risky \subseteq Ids

VARIABLES
  stop,             \* _EMERGENCY_STOP_ACTIVE of each process
  runs              \* how often each process performed each action

tokenVars == <<rows, now, lock, pc, arg, stop, runs>>

TokenPcs == {"idle", "approve_load", "approve_mark", "execute", "record",
             "reject_load", "reject_mark", "stop_cancel", "stop_set"}

TokenTypeOK == /\ StoreTypeOK
               /\ pc \in [Threads -> TokenPcs]
               /\ stop \in [Processes -> BOOLEAN]
               /\ runs \in [Processes -> [Ids -> Nat]]

TokenInit == /\ StoreInit
             /\ stop = [p \in Processes |-> FALSE]
             /\ runs = [p \in Processes |-> [i \in Ids |-> 0]]

Stopped(t, i) == stop[ProcessOf[t]] /\ i \in Risky

(***************************************************************************)
(* run_local_action, for a request that needs approval.                    *)
(***************************************************************************)
CreatePending(t, i) ==
  /\ At(t, "idle")
  /\ rows[i].status = "absent"
  /\ rows' = [ExpirePending(rows) EXCEPT ![i] = TokenRow]
  /\ UNCHANGED <<now, lock, pc, arg, stop, runs>>

(***************************************************************************)
(* approve_local_action.                                                   *)
(***************************************************************************)
ApproveBegin(t, i) ==
  /\ Acquire(t)
  /\ Enter(t, "approve_load", i)
  /\ rows' = ExpirePending(rows)
  /\ UNCHANGED <<now, stop, runs>>

\* Mutant of Redeemable: the row is loaded whatever has been decided about it.
RedeemableDecided(i, good) ==
  rows[i].status # "absent" /\ rows[i].consent = "token" /\ good

\* Mutant of Redeemable: nobody asks whose consent the row waits for.
RedeemableByAnyone(i, good) == Pending(i) /\ good

\* The code given is for this action, and the row is one a code may approve.
Redeemable(i, good) == Pending(i) /\ rows[i].consent = "token" /\ good

ApproveRefuse(t, good) ==
  /\ At(t, "approve_load")
  /\ ~Redeemable(arg[t], good)
  /\ Release(t)
  /\ Return(t)
  /\ UNCHANGED <<rows, now, stop, runs>>

ApproveTooLate(t, good) ==
  /\ At(t, "approve_load")
  /\ Redeemable(arg[t], good)
  /\ rows[arg[t]].expires <= now
  /\ rows' = MarkPendingDecision(rows, arg[t], "expired")
  /\ Release(t)
  /\ Return(t)
  /\ UNCHANGED <<now, stop, runs>>

ApproveStopped(t, good) ==
  /\ At(t, "approve_load")
  /\ Redeemable(arg[t], good)
  /\ rows[arg[t]].expires > now
  /\ Stopped(t, arg[t])
  /\ rows' = MarkPendingDecision(rows, arg[t], "cancelled")
  /\ Release(t)
  /\ Return(t)
  /\ UNCHANGED <<now, stop, runs>>

\* Mutant of ApproveLoad: the lock covers the check and not the marking.
ApproveLoadReleases(t, good) ==
  /\ At(t, "approve_load")
  /\ Redeemable(arg[t], good)
  /\ rows[arg[t]].expires > now
  /\ ~Stopped(t, arg[t])
  /\ Release(t)
  /\ Goto(t, "approve_mark")
  /\ UNCHANGED <<rows, now, stop, runs>>

ApproveLoad(t, good) ==
  /\ At(t, "approve_load")
  /\ Redeemable(arg[t], good)
  /\ rows[arg[t]].expires > now
  /\ ~Stopped(t, arg[t])
  /\ Goto(t, "approve_mark")
  /\ UNCHANGED <<rows, now, lock, stop, runs>>

\* Whether the row was still pending is known here, and not looked at.
ApproveMark(t) ==
  /\ At(t, "approve_mark")
  /\ rows' = MarkPendingDecision(rows, arg[t], "approved")
  /\ Release(t)
  /\ Goto(t, "execute")
  /\ UNCHANGED <<now, stop, runs>>

\* The flag is read again outside the lock; the row stays 'approved'.
ApproveBlocked(t) ==
  /\ At(t, "execute")
  /\ Stopped(t, arg[t])
  /\ Return(t)
  /\ UNCHANGED <<rows, now, lock, stop, runs>>

Execute(t) ==
  /\ At(t, "execute")
  /\ ~Stopped(t, arg[t])
  /\ runs' = [runs EXCEPT ![ProcessOf[t]][arg[t]] = @ + 1]
  /\ Goto(t, "record")
  /\ UNCHANGED <<rows, now, lock, stop>>

Record(t, outcome) ==
  /\ At(t, "record")
  /\ rows' = SetApprovalStatus(rows, arg[t], outcome)
  /\ Return(t)
  /\ UNCHANGED <<now, lock, stop, runs>>

(***************************************************************************)
(* reject_local_action.                                                    *)
(***************************************************************************)
RejectBegin(t, i) ==
  /\ Acquire(t)
  /\ Enter(t, "reject_load", i)
  /\ rows' = ExpirePending(rows)
  /\ UNCHANGED <<now, stop, runs>>

RejectRefuse(t) ==
  /\ At(t, "reject_load")
  /\ ~Redeemable(arg[t], TRUE)
  /\ Release(t)
  /\ Return(t)
  /\ UNCHANGED <<rows, now, stop, runs>>

RejectLoad(t) ==
  /\ At(t, "reject_load")
  /\ Redeemable(arg[t], TRUE)
  /\ Goto(t, "reject_mark")
  /\ UNCHANGED <<rows, now, lock, stop, runs>>

RejectMark(t) ==
  /\ At(t, "reject_mark")
  /\ rows' = MarkPendingDecision(rows, arg[t], "rejected")
  /\ Release(t)
  /\ Return(t)
  /\ UNCHANGED <<now, stop, runs>>

(***************************************************************************)
(* emergency_stop takes no lock: expire, cancel, and only then the flag.   *)
(* The flag is cleared by reset_emergency_stop, and belongs to one process.*)
(***************************************************************************)
StopBegin(t) ==
  /\ Enter(t, "stop_cancel", None)
  /\ rows' = ExpirePending(rows)
  /\ UNCHANGED <<now, lock, stop, runs>>

StopCancel(t) ==
  /\ At(t, "stop_cancel")
  /\ rows' = MarkAllPendingCancelled(rows)
  /\ Goto(t, "stop_set")
  /\ UNCHANGED <<now, lock, stop, runs>>

StopSet(t) ==
  /\ At(t, "stop_set")
  /\ stop' = [stop EXCEPT ![ProcessOf[t]] = TRUE]
  /\ Return(t)
  /\ UNCHANGED <<rows, now, lock, runs>>

StopReset(t) ==
  /\ At(t, "idle")
  /\ stop' = [stop EXCEPT ![ProcessOf[t]] = FALSE]
  /\ UNCHANGED <<rows, now, lock, pc, arg, runs>>

\* The emergency-stop flag is a variable of the process, so it goes too.
Restart(p) ==
  /\ RestartStore(p)
  /\ stop' = [stop EXCEPT ![p] = FALSE]
  /\ UNCHANGED runs

TokenCall(t) ==
  \/ \E i \in Ids : CreatePending(t, i) \/ ApproveBegin(t, i) \/ RejectBegin(t, i)
  \/ \E good \in BOOLEAN : \/ ApproveRefuse(t, good)
                           \/ ApproveTooLate(t, good)
                           \/ ApproveStopped(t, good)
                           \/ ApproveLoad(t, good)
  \/ ApproveMark(t) \/ ApproveBlocked(t) \/ Execute(t)
  \/ \E outcome \in {"completed", "failed"} : Record(t, outcome)
  \/ RejectRefuse(t) \/ RejectLoad(t) \/ RejectMark(t)
  \/ StopBegin(t) \/ StopCancel(t) \/ StopSet(t) \/ StopReset(t)

TokenNext == \/ \E t \in Threads : TokenCall(t)
             \/ \E p \in Processes : Restart(p)
             \/ (Sweep \/ Tick) /\ UNCHANGED <<stop, runs>>

TokenSpec == TokenInit /\ [][TokenNext]_tokenVars
-----------------------------------------------------------------------------
\* One process performs an action at most once, however often its code is
\* redeemed and from however many threads (tests/test_pc_control.py,
\* test_duplicate_approval_does_not_execute_twice): the check and the marking
\* are under _STORE_LOCK.
PerformedOncePerProcess == \A p \in Processes, i \in Ids : runs[p][i] <= 1

\* The same over the whole machine, which shares one store.
PerformedOnce ==
  \A p, q \in Processes, i \in Ids :
    runs[p][i] > 0 /\ runs[q][i] > 0 => p = q /\ runs[p][i] = 1

\* An action somebody rejected was never performed and never will be
\* ("Rejected the pending local action.").
RejectedNeverPerformed ==
  \A i \in Ids : rows[i].status = "rejected" =>
                   \A p \in Processes : runs[p][i] = 0
=============================================================================
