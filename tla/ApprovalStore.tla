--------------------------- MODULE ApprovalStore ---------------------------
(***************************************************************************)
(* The one approval store of the PC-control kernel: the table              *)
(* pc_control_approvals and the statements pc_control.py issues against    *)
(* it.  Token approvals (an operator redeems a code, from the HTTP server  *)
(* or from `grandpa approve`) and deferred consent (a caller answers yes   *)
(* on its next turn) are rows of this same table; TokenApprovals and       *)
(* DeferredConsent are the two protocols run over it.                      *)
(*                                                                         *)
(* Every SQL statement, and every `with conn` block with its writes, is    *)
(* atomic; what happens between two of them is not.  The table is shared   *)
(* by every process of the machine, _STORE_LOCK by the threads of one.     *)
(*                                                                         *)
(* Abstracted: the payload, target and parameters of a row, the audit log, *)
(* decision timestamps and the days-long retention sweep of decided rows.  *)
(***************************************************************************)
EXTENDS Integers, FiniteSets

CONSTANTS
  Ids,        \* action ids (uuid4: never reused)
  Origins,    \* who may stage deferred consent: "voice", "chat", "http", ...
  Windows,    \* readings of the foreground window, up to their hard fields
  Threads,    \* threads that call the kernel
  Processes,  \* operating-system processes sharing the database
  ProcessOf,  \* the process each thread runs in
  TTL,        \* PENDING_TTL_SECONDS, in clock ticks
  MaxTime,    \* bound on the clock
  None        \* no witness, no lock holder, no id given

ASSUME ThreadsAssumption == ProcessOf \in [Threads -> Processes]
ASSUME TimeAssumption == TTL \in Nat \ {0} /\ MaxTime \in Nat
ASSUME NoneAssumption == None \notin Threads \cup Windows \cup Ids \cup Origins

VARIABLES
  rows,       \* the table; an id not inserted yet has status "absent"
  now,        \* time.time()
  lock,       \* holder of each process's _STORE_LOCK
  pc,         \* where each thread is in the call it is making
  arg         \* the row that call is about; None before it is known

Statuses == {"absent", "pending", "approved", "completed", "failed",
             "rejected", "expired", "cancelled"}

Row == [status  : Statuses,
        consent : {"token", "deferred"},
        origin  : Origins \cup {None},
        expires : Nat,
        witness : Windows \cup {None},
        turn    : Int,
        reask   : Nat]

Absent == [status |-> "absent", consent |-> "token", origin |-> None,
           expires |-> 0, witness |-> None, turn |-> -1, reask |-> 0]

StoreTypeOK == /\ rows \in [Ids -> Row]
               /\ now \in 0..MaxTime
               /\ lock \in [Processes -> Threads \cup {None}]
               /\ arg \in [Threads -> Ids \cup {None}]

StoreInit == /\ rows = [i \in Ids |-> Absent]
             /\ now = 0
             /\ lock = [p \in Processes |-> None]
             /\ pc = [t \in Threads |-> "idle"]
             /\ arg = [t \in Threads |-> None]

Pending(i) == rows[i].status = "pending"

(***************************************************************************)
(* The statements.  Each maps a table to the table it leaves.              *)
(***************************************************************************)

\* UPDATE ... WHERE status = 'pending' AND ...: every statement but one.
UpdatePending(r, S, s) ==
  [i \in Ids |-> IF i \in S /\ r[i].status = "pending"
                   THEN [r[i] EXCEPT !.status = s] ELSE r[i]]

ExpirePending(r) ==
  UpdatePending(r, {i \in Ids : r[i].expires <= now}, "expired")

\* Mutant of MarkPendingDecision: `AND status = 'pending'` is missing.
MarkDecision(r, id, s) == [r EXCEPT ![id].status = s]

MarkPendingDecision(r, id, s) == UpdatePending(r, {id}, s)

\* Mutant of MarkAllPendingCancelled: the stop cancels decided rows too.
MarkAllCancelled(r) ==
  [i \in Ids |-> IF r[i].status # "absent"
                   THEN [r[i] EXCEPT !.status = "cancelled"] ELSE r[i]]

MarkAllPendingCancelled(r) == UpdatePending(r, Ids, "cancelled")

SupersedeDeferred(r, o) ==
  UpdatePending(r, {i \in Ids : r[i].consent = "deferred" /\ r[i].origin = o},
                "cancelled")

\* The one statement without `status = 'pending'` in its WHERE clause.
SetApprovalStatus(r, id, s) == [r EXCEPT ![id].status = s]

TokenRow ==
  [status |-> "pending", consent |-> "token", origin |-> None,
   expires |-> now + TTL, witness |-> None, turn |-> -1, reask |-> 0]

DeferredRow(o, w, turn, reask) ==
  [status |-> "pending", consent |-> "deferred", origin |-> o,
   expires |-> now + TTL, witness |-> w,
   turn |-> IF w = None THEN -1 ELSE turn, reask |-> reask]

\* Mutant of DeferredPending: `AND origin = ?` is missing.
DeferredOfAnyone(o, id) ==
  {i \in Ids : /\ Pending(i)
               /\ rows[i].consent = "deferred"
               /\ id \in {None, i}}

\* SELECT ... WHERE status = 'pending' AND consent = 'deferred' AND origin = o
\* AND (id IS NULL OR action_id = id).  ORDER BY created_at DESC LIMIT 1
\* has nothing to choose between: staging supersedes the origin's earlier row.
DeferredPending(o, id) ==
  {i \in Ids : /\ Pending(i)
               /\ rows[i].consent = "deferred"
               /\ rows[i].origin = o
               /\ id \in {None, i}}

(***************************************************************************)
(* _STORE_LOCK: a lock of the process, so nothing keeps a thread of        *)
(* another process out.                                                    *)
(***************************************************************************)
LockFree(t) == lock[ProcessOf[t]] = None
Acquire(t)  == LockFree(t) /\ lock' = [lock EXCEPT ![ProcessOf[t]] = t]
Release(t)  == lock' = [lock EXCEPT ![ProcessOf[t]] = None]

\* Where a call holds it: codes and rejections while they look and mark, answers
\* to a deferred question between their SELECT and their UPDATE.
LockedPcs == {"approve_load", "approve_mark", "reject_load", "reject_mark",
              "claim", "deny"}

(***************************************************************************)
(* Where a call stands.                                                    *)
(***************************************************************************)
At(t, l)    == pc[t] = l
Goto(t, l)  == pc' = [pc EXCEPT ![t] = l] /\ UNCHANGED arg
Enter(t, l, id) == /\ At(t, "idle")
                   /\ pc' = [pc EXCEPT ![t] = l]
                   /\ arg' = [arg EXCEPT ![t] = id]
Return(t)   == /\ pc' = [pc EXCEPT ![t] = "idle"]
               /\ arg' = [arg EXCEPT ![t] = None]

(***************************************************************************)
(* Expiry run on its own: counting, listing or creating actions sweeps     *)
(* overdue rows, and none of them takes the lock to do it.                 *)
(***************************************************************************)
Sweep == /\ rows' = ExpirePending(rows)
         /\ UNCHANGED <<now, lock, pc, arg>>

Tick == /\ now < MaxTime
        /\ now' = now + 1
        /\ UNCHANGED <<rows, lock, pc, arg>>

\* A process ends and is started again: its calls and its lock are gone, the
\* table is not.
RestartStore(p) ==
  /\ pc' = [t \in Threads |-> IF ProcessOf[t] = p THEN "idle" ELSE pc[t]]
  /\ arg' = [t \in Threads |-> IF ProcessOf[t] = p THEN None ELSE arg[t]]
  /\ lock' = [lock EXCEPT ![p] = None]
  /\ UNCHANGED <<rows, now>>
=============================================================================
