-------------------------- MODULE DeferredConsent --------------------------
(***************************************************************************)
(* Deferred consent (deferred_actions.py over the deferred half of         *)
(* pc_control.py).  A caller that cannot ask mid-action stages the action  *)
(* under its origin; that origin's next yes claims the row and performs    *)
(* it.  A row of synthetic input carries a witness, the foreground window  *)
(* it was approved against, and the turn it was staged on; both are        *)
(* checked before the claim, and a mismatch is asked about again once.     *)
(*                                                                         *)
(* Each thread is one entry point with one origin: the server's event loop *)
(* ("http"), a chat, a voice loop.  Both voice loops count the turns of    *)
(* the one origin "voice" (voice/session.py, voice/assistant.py).          *)
(***************************************************************************)
EXTENDS ApprovalStore

CONSTANTS
  OriginOf,        \* the origin each thread stages and answers under
  WitnessOrigins,  \* WITNESS_ORIGINS: those that take turns, {"voice"}
  MaxReasks,       \* MAX_REASKS = 1
  MaxTurn          \* bound on the turn counter

ASSUME OriginAssumption == OriginOf \in [Threads -> Origins]
ASSUME ReaskAssumption == MaxReasks \in Nat /\ MaxTurn \in Nat

VARIABLES
  turn,            \* origin_turns
  window,          \* what focus_witness.capture reads now; None when it fails
  seen,            \* the row each thread's call peeked at
  reading,         \* the window a mismatch is to be asked about again
  performed,       \* how often each staged action was performed
  answerer,        \* the origin whose answer claimed the row
  newer,           \* rows other loops of the origin staged since t peeked
  others           \* turns they counted since t checked the turn

\* What the other loops of an origin do during a call is history: it decides
\* nothing, and says what an answer may have missed.
history == <<newer, others>>

deferredOnly == <<turn, window, seen, reading, performed, answerer, history>>
deferredVars == <<rows, now, lock, pc, arg, deferredOnly>>

DeferredPcs == {"idle", "peek", "turn_check", "witness_check", "restage",
                "claim_sweep", "claim_select", "claim", "perform",
                "deny_select", "deny", "turn_over"}

DeferredTypeOK ==
  /\ StoreTypeOK
  /\ pc \in [Threads -> DeferredPcs]
  /\ turn \in [Origins -> Nat]
  /\ window \in Windows \cup {None}
  /\ seen \in [Threads -> Ids \cup {None}]
  /\ reading \in [Threads -> Windows \cup {None}]
  /\ performed \in [Ids -> Nat]
  /\ answerer \in [Ids -> Origins \cup {None}]
  /\ newer \in [Threads -> SUBSET Ids]
  /\ others \in [Threads -> Nat]

DeferredInit ==
  /\ StoreInit
  /\ turn = [o \in Origins |-> 0]
  /\ window \in Windows \cup {None}
  /\ seen = [t \in Threads |-> None]
  /\ reading = [t \in Threads |-> None]
  /\ performed = [i \in Ids |-> 0]
  /\ answerer = [i \in Ids |-> None]
  /\ newer = [t \in Threads |-> {}]
  /\ others = [t \in Threads |-> 0]

\* A call ends; for an origin that takes turns the turn is still to be counted.
EndCall(t) ==
  /\ pc' = [pc EXCEPT ![t] = IF OriginOf[t] \in WitnessOrigins THEN "turn_over"
                                                              ELSE "idle"]
  /\ arg' = [arg EXCEPT ![t] = None]
  /\ seen' = [seen EXCEPT ![t] = None]
  /\ reading' = [reading EXCEPT ![t] = None]
  /\ others' = [others EXCEPT ![t] = 0]

Finish(t) == EndCall(t) /\ newer' = [newer EXCEPT ![t] = {}]

PeekedPcs == {"turn_check", "witness_check", "claim_sweep", "claim_select"}
CheckedPcs == {"witness_check", "claim_sweep", "claim_select", "claim", "perform"}

\* The other loops whose answer has peeked, and has yet to choose a row, ...
Peeked(t) == {u \in Threads \ {t} :
                OriginOf[u] = OriginOf[t] /\ pc[u] \in PeekedPcs}

\* ... and those whose answer has compared the turn of the row it peeked at.
TurnChecked(t) == {u \in Threads \ {t} :
                     /\ OriginOf[u] = OriginOf[t]
                     /\ seen[u] # None /\ pc[u] \in CheckedPcs}

FinishStaging(t, i) ==
  /\ EndCall(t)
  /\ newer' = [u \in Threads |-> IF u = t THEN {}
                                ELSE IF u \in Peeked(t) THEN newer[u] \cup {i}
                                ELSE newer[u]]

\* The table after o staged i: the sweep, then the one transaction that
\* supersedes o's earlier row and inserts the new one.
Staged(o, i, w, reasks) ==
  [SupersedeDeferred(ExpirePending(rows), o)
     EXCEPT ![i] = DeferredRow(o, w, turn[o], reasks)]

(***************************************************************************)
(* Staging.  Synthetic input needs a witness, which only the origins of    *)
(* WITNESS_ORIGINS may carry and only when the window can be read.         *)
(***************************************************************************)
Witnesses(t) ==
  {None} \cup (IF OriginOf[t] \in WitnessOrigins THEN {window} ELSE {})

StageDeferred(t, i, w) ==
  /\ At(t, "idle")
  /\ LockFree(t)
  /\ rows[i].status = "absent"
  /\ rows' = Staged(OriginOf[t], i, w, 0)
  /\ FinishStaging(t, i)
  /\ UNCHANGED <<now, lock, turn, window, performed, answerer>>

(***************************************************************************)
(* approve: the witness is checked against the row peeked at ...           *)
(***************************************************************************)
ApproveDeferred(t, id) ==
  /\ Enter(t, "peek", id)
  /\ rows' = ExpirePending(rows)
  /\ UNCHANGED <<now, lock, deferredOnly>>

WitnessedNow(t) ==
  {i \in DeferredPending(OriginOf[t], arg[t]) :
     rows[i].expires > now /\ rows[i].witness # None}

PeekUnwitnessed(t) ==
  /\ At(t, "peek")
  /\ WitnessedNow(t) = {}
  /\ Goto(t, "claim_sweep")
  /\ UNCHANGED <<rows, now, lock, deferredOnly>>

Peek(t, i) ==
  /\ At(t, "peek")
  /\ i \in WitnessedNow(t)
  /\ seen' = [seen EXCEPT ![t] = i]
  /\ Goto(t, "turn_check")
  /\ UNCHANGED <<rows, now, lock, turn, window, reading, performed, answerer,
                 history>>

NextTurn(t, i) == turn[OriginOf[t]] = rows[i].turn + 1

StaleTurn(t) ==
  /\ At(t, "turn_check")
  /\ ~NextTurn(t, seen[t])
  /\ LockFree(t)
  /\ rows' = MarkPendingDecision(rows, seen[t], "cancelled")
  /\ Finish(t)
  /\ UNCHANGED <<now, lock, turn, window, performed, answerer>>

\* Mutant of InTurn: the turn a row was staged on is not looked at.
AnyTurn(t) ==
  /\ At(t, "turn_check")
  /\ others' = [others EXCEPT ![t] = 0]
  /\ Goto(t, "witness_check")
  /\ UNCHANGED <<rows, now, lock, turn, window, seen, reading, performed, answerer,
                 newer>>

InTurn(t) ==
  /\ At(t, "turn_check")
  /\ NextTurn(t, seen[t])
  /\ others' = [others EXCEPT ![t] = 0]
  /\ Goto(t, "witness_check")
  /\ UNCHANGED <<rows, now, lock, turn, window, seen, reading, performed, answerer,
                 newer>>

Matched(i) == window # None /\ window = rows[i].witness

WitnessMatches(t) ==
  /\ At(t, "witness_check")
  /\ Matched(seen[t])
  /\ Goto(t, "claim_sweep")
  /\ UNCHANGED <<rows, now, lock, deferredOnly>>

\* The second mismatch, or a window that cannot be read, drops the action.
WitnessRefuses(t) ==
  /\ At(t, "witness_check")
  /\ ~Matched(seen[t])
  /\ rows[seen[t]].reask >= MaxReasks \/ window = None
  /\ LockFree(t)
  /\ rows' = MarkPendingDecision(rows, seen[t], "cancelled")
  /\ Finish(t)
  /\ UNCHANGED <<now, lock, turn, window, performed, answerer>>

WitnessMismatch(t) ==
  /\ At(t, "witness_check")
  /\ ~Matched(seen[t])
  /\ rows[seen[t]].reask < MaxReasks /\ window # None
  /\ LockFree(t)
  /\ rows' = MarkPendingDecision(rows, seen[t], "cancelled")
  /\ reading' = [reading EXCEPT ![t] = window]
  /\ Goto(t, "restage")
  /\ UNCHANGED <<now, lock, turn, window, seen, performed, answerer, history>>

Restage(t, i) ==
  /\ At(t, "restage")
  /\ LockFree(t)
  /\ rows[i].status = "absent"
  /\ rows' = Staged(OriginOf[t], i, reading[t], rows[seen[t]].reask + 1)
  /\ FinishStaging(t, i)
  /\ UNCHANGED <<now, lock, turn, window, performed, answerer>>

(***************************************************************************)
(* ... and the claim takes the row the origin has pending by then.         *)
(***************************************************************************)
ClaimSweep(t) ==
  /\ At(t, "claim_sweep")
  /\ rows' = ExpirePending(rows)
  /\ Goto(t, "claim_select")
  /\ UNCHANGED <<now, lock, deferredOnly>>

Claimable(t) ==
  {i \in DeferredPending(OriginOf[t], arg[t]) : rows[i].expires > now}

SelectNothing(t, from) ==
  /\ At(t, from)
  /\ LockFree(t)
  /\ Claimable(t) = {}
  /\ Finish(t)
  /\ UNCHANGED <<rows, now, lock, turn, window, performed, answerer>>

Select(t, i, from, to) ==
  /\ At(t, from)
  /\ Acquire(t)
  /\ i \in Claimable(t)
  /\ pc' = [pc EXCEPT ![t] = to]
  /\ arg' = [arg EXCEPT ![t] = i]
  /\ UNCHANGED <<rows, now, deferredOnly>>

\* UPDATE ... WHERE action_id = ? AND status = 'pending', won or lost.
Claim(t) ==
  /\ At(t, "claim")
  /\ Pending(arg[t])
  /\ rows' = MarkPendingDecision(rows, arg[t], "approved")
  /\ answerer' = [answerer EXCEPT ![arg[t]] = OriginOf[t]]
  /\ Release(t)
  /\ Goto(t, "perform")
  /\ UNCHANGED <<now, turn, window, seen, reading, performed, history>>

ClaimLost(t) ==
  /\ pc[t] \in {"claim", "deny"}
  /\ ~Pending(arg[t])
  /\ Release(t)
  /\ Finish(t)
  /\ UNCHANGED <<rows, now, turn, window, performed, answerer>>

Perform(t) ==
  /\ At(t, "perform")
  /\ performed' = [performed EXCEPT ![arg[t]] = @ + 1]
  /\ Finish(t)
  /\ UNCHANGED <<rows, now, lock, turn, window, answerer>>

(***************************************************************************)
(* deny.                                                                   *)
(***************************************************************************)
DenyDeferred(t, id) ==
  /\ Enter(t, "deny_select", id)
  /\ rows' = ExpirePending(rows)
  /\ UNCHANGED <<now, lock, deferredOnly>>

Deny(t) ==
  /\ At(t, "deny")
  /\ Pending(arg[t])
  /\ rows' = MarkPendingDecision(rows, arg[t], "rejected")
  /\ answerer' = [answerer EXCEPT ![arg[t]] = OriginOf[t]]
  /\ Release(t)
  /\ Finish(t)
  /\ UNCHANGED <<now, turn, window, performed>>

(***************************************************************************)
(* Turns and the world.                                                    *)
(***************************************************************************)
\* A voice turn about something else.
OtherTurn(t) ==
  /\ OriginOf[t] \in WitnessOrigins
  /\ At(t, "idle")
  /\ Goto(t, "turn_over")
  /\ UNCHANGED <<rows, now, lock, deferredOnly>>

BumpTurn(t) ==
  /\ At(t, "turn_over")
  /\ LockFree(t)
  /\ turn[OriginOf[t]] < MaxTurn
  /\ turn' = [turn EXCEPT ![OriginOf[t]] = @ + 1]
  /\ others' = [u \in Threads |-> IF u \in TurnChecked(t) THEN others[u] + 1
                                                         ELSE others[u]]
  /\ Goto(t, "idle")
  /\ UNCHANGED <<rows, now, lock, window, seen, reading, performed, answerer,
                 newer>>

\* Counting failed, and "bookkeeping must not end a turn": it ends uncounted.
TurnLost(t) ==
  /\ At(t, "turn_over")
  /\ Goto(t, "idle")
  /\ UNCHANGED <<rows, now, lock, deferredOnly>>

WindowChanges(w) ==
  /\ window' = w
  /\ UNCHANGED <<rows, now, lock, pc, arg, turn, seen, reading, performed,
                 answerer, history>>

\* The emergency stop of any process reaches deferred rows too.
StoppedElsewhere ==
  /\ rows' = MarkAllPendingCancelled(rows)
  /\ UNCHANGED <<now, lock, pc, arg, deferredOnly>>

RestartDeferred(p) ==
  /\ RestartStore(p)
  /\ seen' = [t \in Threads |-> IF ProcessOf[t] = p THEN None ELSE seen[t]]
  /\ reading' = [t \in Threads |-> IF ProcessOf[t] = p THEN None ELSE reading[t]]
  /\ newer' = [t \in Threads |-> IF ProcessOf[t] = p THEN {} ELSE newer[t]]
  /\ others' = [t \in Threads |-> IF ProcessOf[t] = p THEN 0 ELSE others[t]]
  /\ UNCHANGED <<turn, window, performed, answerer>>

\* A spoken or typed yes names no row; an HTTP request names one that was
\* staged, long resolved ones included.
Given(t) ==
  {None} \cup (IF OriginOf[t] \in WitnessOrigins THEN {}
               ELSE {i \in Ids : rows[i].status # "absent"})

Answering(t) ==
  \/ \E id \in Given(t) : ApproveDeferred(t, id) \/ DenyDeferred(t, id)
  \/ PeekUnwitnessed(t) \/ StaleTurn(t) \/ InTurn(t)
  \/ WitnessMatches(t) \/ WitnessRefuses(t) \/ WitnessMismatch(t)
  \/ ClaimSweep(t) \/ SelectNothing(t, "claim_select")
  \/ SelectNothing(t, "deny_select")
  \/ Claim(t) \/ ClaimLost(t) \/ Perform(t) \/ Deny(t)
  \/ \E i \in Ids : \/ Peek(t, i)
                    \/ Restage(t, i)
                    \/ Select(t, i, "claim_select", "claim")
                    \/ Select(t, i, "deny_select", "deny")

DeferredCall(t) ==
  \/ \E i \in Ids, w \in Witnesses(t) : StageDeferred(t, i, w)
  \/ Answering(t)
  \/ OtherTurn(t)
  \/ BumpTurn(t)
  \/ TurnLost(t)

DeferredNext ==
  \/ \E t \in Threads : DeferredCall(t)
  \/ \E w \in Windows \cup {None} : WindowChanges(w)
  \/ \E p \in Processes : RestartDeferred(p)
  \/ StoppedElsewhere
  \/ (Sweep \/ Tick) /\ UNCHANGED deferredOnly

DeferredSpec == DeferredInit /\ [][DeferredNext]_deferredVars
-----------------------------------------------------------------------------
\* A staged action is performed at most once, and only with the yes of the
\* origin that staged it: whatever was denied, superseded, expired or stopped
\* in the meantime is not performed, however the answers race.
PerformedOnlyWithOwnYes ==
  \A i \in Ids :
    /\ performed[i] <= 1
    /\ performed[i] = 1 => /\ rows[i].status = "approved"
                           /\ answerer[i] = rows[i].origin

\* A keystroke is sent by a call that compared this very row with the window,
\* on the turn right after the one that staged it (deferred_actions.py, the
\* three preconditions), give or take the turns another loop of the origin
\* counted since.  The one other way to be sent is to be staged by another
\* loop between the comparison and the claim, which takes the row the origin
\* has pending by then: that row was compared with nothing.
SentAsCompared ==
  \A t \in Threads :
    At(t, "perform") /\ rows[arg[t]].witness # None
      => \/ /\ seen[t] = arg[t]
            /\ turn[OriginOf[t]] = rows[arg[t]].turn + 1 + others[t]
         \/ arg[t] \in newer[t]

\* What the table and the answers amount to, in the terms of Consent.
QuestionState ==
  [i \in Ids |->
     IF rows[i].status = "absent" THEN "unasked"
     ELSE IF rows[i].status = "pending" THEN "open"
     ELSE IF rows[i].status # "approved"
       THEN IF performed[i] = 0 THEN "closed" ELSE "broken"
     ELSE IF performed[i] = 0 THEN "granted"
     ELSE IF performed[i] = 1 THEN "done" ELSE "broken"]

AskedBy == [i \in Ids |-> rows[i].origin]

\* The table, the performances and the answers implement Consent.
C == INSTANCE Consent WITH state <- QuestionState, asker <- AskedBy,
                           answerer <- answerer
ConsentKept == C!Spec
=============================================================================
