--------------------------- MODULE ApprovalKernel ---------------------------
(***************************************************************************)
(* The approval kernel as it runs: codes, spoken answers and the emergency *)
(* stop over one table (desktop/kernel/approvals.py is the facade of       *)
(* both).  A thread makes one call at a time, of either kind.              *)
(***************************************************************************)
EXTENDS TokenApprovals, DeferredConsent

kernelVars == <<rows, now, lock, pc, arg, stop, runs, deferredOnly>>

KernelInit == TokenInit /\ DeferredInit

KernelRestart(p) == Restart(p) /\ RestartDeferred(p)

KernelNext ==
  \/ \E t \in Threads : TokenCall(t) /\ UNCHANGED deferredOnly
  \/ \E t \in Threads : DeferredCall(t) /\ UNCHANGED <<stop, runs>>
  \/ \E w \in Windows \cup {None} : WindowChanges(w) /\ UNCHANGED <<stop, runs>>
  \/ \E p \in Processes : KernelRestart(p)
  \/ (Sweep \/ Tick) /\ UNCHANGED <<stop, runs, deferredOnly>>

KernelSpec == KernelInit /\ [][KernelNext]_kernelVars
-----------------------------------------------------------------------------
\* "A deferred row is approvable only by the origin that staged it, and never
\* with a token; a token row is never approvable by a deferred yes"
\* (pc_control.py): neither door performs what was staged at the other, and
\* the statement that needs no pending row only ever meets a token row.
DoorsApart ==
  \A i \in Ids :
    /\ performed[i] > 0 => rows[i].consent = "deferred"
    /\ (\E p \in Processes : runs[p][i] > 0) => rows[i].consent = "token"
    /\ rows[i].status \in {"completed", "failed"} => rows[i].consent = "token"

\* A deferred row that was answered, superseded, expired or stopped stays so,
\* whatever the other door does next.
DeferredIsFinal ==
  [][\A i \in Ids : /\ rows[i].consent = "deferred"
                    /\ rows[i].status # "pending"
                    => rows'[i] = rows[i]]_kernelVars
=============================================================================
