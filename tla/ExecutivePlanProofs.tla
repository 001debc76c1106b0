------------------------- MODULE ExecutivePlanProofs -------------------------
(***************************************************************************)
(* What the Executive Planner keeps, for any plan, any dependencies, any   *)
(* number of terminals and any bounds.                                     *)
(***************************************************************************)
EXTENDS ExecutivePlan, TLAPS, FiniteSetTheorems, WellFoundedInduction

(* What becomes of a plan when the planner edits it.                       *)

\* n is a plan that shows this status, this current step and these statuses of
\* its steps.
Shows(n, status, current, step) ==
  n \in Plans /\ n.status = status /\ n.current = current /\ n.step = step

\* A set of numbers has a least one: the sets {k \in T : k <= n} are finite, and
\* one of them has none of the others within it.
LEMMA LeastOfNaturals ==
  ASSUME NEW T \in SUBSET Nat, T # {}
  PROVE  \E n \in T : \A m \in T : n <= m
<1> DEFINE Upto(n) == {k \in T : k <= n}
           Family == {Upto(n) : n \in T}
<1>1. \A n \in T : Upto(n) \in FiniteSubsetsOf(T)
  <2>1. SUFFICES ASSUME NEW n \in T PROVE Upto(n) \in FiniteSubsetsOf(T)
    OBVIOUS
  <2>2. n \in Int /\ 0 \in Int /\ Upto(n) \subseteq 0 .. n
    <3>1. n \in Nat /\ n \in Int /\ 0 \in Int
      OBVIOUS
    <3>2. \A k \in T : k \in Nat
      OBVIOUS
    <3>3. \A k \in Nat : k <= n => k \in 0 .. n
      BY <3>1
    <3>4. QED BY <3>1, <3>2, <3>3, Zenon
  <2>3. IsFiniteSet(0 .. n)
    BY <2>2, FS_Interval
  <2>4. IsFiniteSet(Upto(n))
    BY <2>2, <2>3, FS_Subset
  <2>5. QED BY <2>4 DEF FiniteSubsetsOf
<1>2. Family \subseteq FiniteSubsetsOf(T) /\ Family # {}
  BY <1>1
<1>3. IsWellFoundedOn(StrictSubsetOrdering(T), FiniteSubsetsOf(T))
  BY FS_StrictSubsetOrderingWellFounded
<1>4. PICK A \in Family : \A B \in Family : <<B, A>> \notin StrictSubsetOrdering(T)
  <2> HIDE DEF Family
  <2>1. QED BY <1>2, <1>3, WFMin
<1>5. PICK n \in T : A = Upto(n)
  OBVIOUS
<1>6. ASSUME NEW m \in T PROVE n <= m
  <2>1. SUFFICES ASSUME m < n PROVE FALSE
    OBVIOUS
  <2>2. /\ \A k \in T : k <= m => k <= n
        /\ n <= n /\ ~(n <= m)
    BY <2>1
  <2>3. <<Upto(m), Upto(n)>> \in StrictSubsetOrdering(T)
    <3>1. /\ Upto(m) \in SUBSET T /\ Upto(n) \in SUBSET T
          /\ Upto(m) \subseteq Upto(n) /\ n \in Upto(n) /\ n \notin Upto(m)
      BY <2>2, Zenon
    <3> HIDE DEF Upto
    <3>2. QED BY <3>1 DEF StrictSubsetOrdering
  <2>4. QED BY <1>4, <1>5, <2>3
<1>7. QED BY <1>6

\* Of several runnable steps one comes first.
LEMMA NextStepIsFirst ==
  ASSUME NEW pl \in Plans, Runnable(pl) # {}
  PROVE  NextStep(pl) \in Runnable(pl) /\ \A t \in Runnable(pl) : NextStep(pl) <= t
<1>1. Runnable(pl) \in SUBSET Nat
  BY PlanAssumption DEF Runnable
<1>2. PICK s \in Runnable(pl) : \A t \in Runnable(pl) : s <= t
  BY <1>1, LeastOfNaturals
<1>3. QED BY <1>2 DEF NextStep

LEMMA NoPlanIsNone == NoPlan.status = "none" /\ \A pl \in Plans : pl # NoPlan
<1>1. NoPlan.status = "none"
  BY DEF NoPlan
<1>2. \A pl \in Plans : pl.status # "none"
  BY DEF Plans, PlanStatuses
<1>3. QED BY <1>1, <1>2

LEMMA FreshShows ==
  /\ Shows(Fresh, "ready", 0, [s \in Steps |-> "pending"])
  /\ Shows([Fresh EXCEPT !.status = "running"], "running", 0,
           [s \in Steps |-> "pending"])
  /\ Fresh.recoveries = 0
<1>1. Fresh \in Plans
  BY PlanAssumption DEF Fresh, Plans, PlanStatuses, StepStatuses
<1>2. [Fresh EXCEPT !.status = "running"] \in Plans
  BY <1>1 DEF Plans, PlanStatuses
<1>3. QED BY <1>1, <1>2 DEF Fresh, Shows

LEMMA StatusShows ==
  ASSUME NEW pl \in Plans, NEW st \in PlanStatuses
  PROVE  /\ Shows([pl EXCEPT !.status = st], st, pl.current, pl.step)
         /\ [pl EXCEPT !.status = st].recoveries = pl.recoveries
  BY DEF Shows, Plans

LEMMA SetStepShows ==
  ASSUME NEW pl \in Plans, NEW s \in Steps, NEW st \in StepStatuses
  PROVE  /\ Shows(SetStep(pl, s, st), pl.status, pl.current,
                  [pl.step EXCEPT ![s] = st])
         /\ SetStep(pl, s, st).recoveries = pl.recoveries
         /\ SetStep(pl, s, st).recovered = pl.recovered
         /\ SetStep(pl, s, st).attempts = pl.attempts
         /\ SetStep(pl, s, st).partial = pl.partial
<1>1. [pl.step EXCEPT ![s] = st] \in [Steps -> StepStatuses]
  BY DEF Plans
<1>2. SetStep(pl, s, st) = [pl EXCEPT !.step = [pl.step EXCEPT ![s] = st]]
  BY DEF SetStep
<1>3. \A f \in [Steps -> StepStatuses] :
        /\ [pl EXCEPT !.step = f] \in Plans
        /\ [pl EXCEPT !.step = f].step = f
        /\ [pl EXCEPT !.step = f].status = pl.status
        /\ [pl EXCEPT !.step = f].current = pl.current
        /\ [pl EXCEPT !.step = f].recoveries = pl.recoveries
        /\ [pl EXCEPT !.step = f].recovered = pl.recovered
        /\ [pl EXCEPT !.step = f].attempts = pl.attempts
        /\ [pl EXCEPT !.step = f].partial = pl.partial
  BY DEF Plans
<1> DEFINE g == [pl.step EXCEPT ![s] = st]
           n == SetStep(pl, s, st)
<1>4. n = [pl EXCEPT !.step = g]
  BY <1>2
<1>5. g \in [Steps -> StepStatuses]
  BY <1>1
<1> HIDE DEF g, n
<1>6. /\ Shows(n, pl.status, pl.current, g)
      /\ n.recoveries = pl.recoveries /\ n.recovered = pl.recovered
      /\ n.attempts = pl.attempts /\ n.partial = pl.partial
  BY <1>3, <1>4, <1>5 DEF Shows
<1>7. QED BY <1>6 DEF g, n

LEMMA FailedShows ==
  ASSUME NEW pl \in Plans, NEW partial \in BOOLEAN
  PROVE  \E st \in {"partially_completed", "failed"} :
           Shows(Failed(pl, partial), st, pl.current, pl.step)
<1>1. PICK st \in {"partially_completed", "failed"} :
             Failed(pl, partial) = [pl EXCEPT !.status = st]
  BY DEF Failed
<1>2. st \in PlanStatuses
  BY DEF PlanStatuses
<1>3. QED BY <1>1, <1>2, StatusShows

LEMMA CancelledShows ==
  ASSUME NEW pl \in Plans
  PROVE  \E f \in [Steps -> StepStatuses] :
           /\ Shows(Cancelled(pl), "cancelled", pl.current, f)
           /\ \A s \in Steps : f[s] = pl.step[s] \/ f[s] = "cancelled"
           /\ \A s \in Steps : pl.step[s] = "completed" => f[s] = "completed"
<1> DEFINE f == [s \in Steps |-> IF pl.step[s] \in {"pending", "ready", "retrying"}
                                 THEN "cancelled" ELSE pl.step[s]]
<1>1. f \in [Steps -> StepStatuses]
  BY DEF Plans, StepStatuses
<1>2. Cancelled(pl) = [pl EXCEPT !.status = "cancelled", !.confirmation = 0, !.step = f]
  BY DEF Cancelled
<1>3. "cancelled" \in PlanStatuses
  BY DEF PlanStatuses
<1>4. \A g \in [Steps -> StepStatuses] :
        Shows([pl EXCEPT !.status = "cancelled", !.confirmation = 0, !.step = g],
              "cancelled", pl.current, g)
  BY <1>3 DEF Plans, Shows
<1>5. Shows(Cancelled(pl), "cancelled", pl.current, f)
  BY <1>1, <1>2, <1>4
<1>6. \A s \in Steps : /\ f[s] = pl.step[s] \/ f[s] = "cancelled"
                       /\ pl.step[s] = "completed" => f[s] = "completed"
  OBVIOUS
<1>7. QED BY <1>1, <1>5, <1>6

\* A plan whose wait was answered is at the same step, ready.
LEMMA ConfirmedShows ==
  ASSUME NEW pl \in Plans, pl.current \in Steps
  PROVE  Shows([pl EXCEPT !.confirmation = 0, !.status = "running",
                          !.step[pl.current] = "ready"],
               "running", pl.current, [pl.step EXCEPT ![pl.current] = "ready"])
<1> DEFINE n == [pl EXCEPT !.confirmation = 0, !.status = "running",
                           !.step[pl.current] = "ready"]
<1>1. "running" \in PlanStatuses /\ "ready" \in StepStatuses
  BY DEF PlanStatuses, StepStatuses
<1>2. [pl.step EXCEPT ![pl.current] = "ready"] \in [Steps -> StepStatuses]
  BY <1>1 DEF Plans
<1>3. n = [pl EXCEPT !.confirmation = 0, !.status = "running",
                     !.step = [pl.step EXCEPT ![pl.current] = "ready"]]
  OBVIOUS
<1>4. \A f \in [Steps -> StepStatuses] :
        Shows([pl EXCEPT !.confirmation = 0, !.status = "running", !.step = f],
              "running", pl.current, f)
  BY <1>1 DEF Plans, Shows
<1>5. QED BY <1>2, <1>3, <1>4

LEMMA BegunShows ==
  ASSUME NEW pl \in Plans, NEW s \in Steps
  PROVE  LET n == [SetStep(pl, s, "running") EXCEPT
                     !.current = s,
                     !.attempts[s] = Smaller(@ + 1, MaxAttempts[s] + 1)]
         IN /\ Shows(n, pl.status, s, [pl.step EXCEPT ![s] = "running"])
            /\ n.recoveries = pl.recoveries
<1> DEFINE m == SetStep(pl, s, "running")
           a == [pl.attempts EXCEPT ![s] = Smaller(@ + 1, MaxAttempts[s] + 1)]
           n == [m EXCEPT !.current = s,
                          !.attempts[s] = Smaller(@ + 1, MaxAttempts[s] + 1)]
<1>1. "running" \in StepStatuses
  BY DEF StepStatuses
<1>2. /\ Shows(m, pl.status, pl.current, [pl.step EXCEPT ![s] = "running"])
      /\ m.recoveries = pl.recoveries /\ m.attempts = pl.attempts
  BY <1>1, SetStepShows
<1>3. pl.attempts \in [Steps -> Nat] /\ pl.attempts[s] \in Nat /\ MaxAttempts[s] \in Nat
  BY PlanAssumption DEF Plans
<1>4. Smaller(pl.attempts[s] + 1, MaxAttempts[s] + 1) \in Nat
  BY <1>3 DEF Smaller
<1>5. a \in [Steps -> Nat]
  BY <1>3, <1>4
<1> HIDE DEF m
<1>6. n = [m EXCEPT !.current = s, !.attempts = a]
  BY <1>2
<1> HIDE DEF a
<1>7. \A b \in [Steps -> Nat], x \in Plans :
        LET y == [x EXCEPT !.current = s, !.attempts = b]
        IN /\ Shows(y, x.status, s, x.step) /\ y.recoveries = x.recoveries
  BY DEF Plans, Shows
<1>8. m \in Plans
  BY <1>2 DEF Shows
<1>9. Shows(n, m.status, s, m.step) /\ n.recoveries = m.recoveries
  BY <1>5, <1>6, <1>7, <1>8
<1>10. QED BY <1>2, <1>9 DEF Shows, m

\* The plan that NeedConfirmation saves.
LEMMA AskedShows ==
  ASSUME NEW pl \in Plans, NEW s \in Steps
  PROVE  Shows([SetStep(pl, s, "waiting_for_confirmation") EXCEPT
                  !.status = "waiting_for_confirmation", !.confirmation = s],
               "waiting_for_confirmation", pl.current,
               [pl.step EXCEPT ![s] = "waiting_for_confirmation"])
<1> DEFINE m == SetStep(pl, s, "waiting_for_confirmation")
<1>1. /\ "waiting_for_confirmation" \in StepStatuses
      /\ "waiting_for_confirmation" \in PlanStatuses
  BY DEF StepStatuses, PlanStatuses
<1>2. Shows(m, pl.status, pl.current, [pl.step EXCEPT ![s] = "waiting_for_confirmation"])
  BY <1>1, SetStepShows
<1>3. \A x \in Plans :
        Shows([x EXCEPT !.status = "waiting_for_confirmation", !.confirmation = s],
              "waiting_for_confirmation", x.current, x.step)
  BY <1>1 DEF Plans, Shows
<1> HIDE DEF m
<1>4. QED BY <1>2, <1>3 DEF Shows, m

\* The plan that Completes saves.
LEMMA CompletedShows ==
  ASSUME NEW pl \in Plans, NEW s \in Steps, NEW partial \in BOOLEAN
  PROVE  LET n == [SetStep(pl, s, "completed") EXCEPT !.partial = @ \/ partial]
         IN /\ Shows(n, pl.status, pl.current, [pl.step EXCEPT ![s] = "completed"])
            /\ n.recoveries = pl.recoveries
<1> DEFINE m == SetStep(pl, s, "completed")
<1>1. "completed" \in StepStatuses
  BY DEF StepStatuses
<1>2. /\ Shows(m, pl.status, pl.current, [pl.step EXCEPT ![s] = "completed"])
      /\ m.recoveries = pl.recoveries
  BY <1>1, SetStepShows
<1>3. \A x \in Plans :
        LET y == [x EXCEPT !.partial = @ \/ partial]
        IN Shows(y, x.status, x.current, x.step) /\ y.recoveries = x.recoveries
  <2>1. SUFFICES ASSUME NEW x \in Plans
                 PROVE  LET y == [x EXCEPT !.partial = @ \/ partial]
                        IN /\ Shows(y, x.status, x.current, x.step)
                           /\ y.recoveries = x.recoveries
    OBVIOUS
  <2>2. \A b \in BOOLEAN :
          LET y == [x EXCEPT !.partial = b]
          IN Shows(y, x.status, x.current, x.step) /\ y.recoveries = x.recoveries
    BY DEF Plans, Shows
  <2>3. (x.partial \/ partial) \in BOOLEAN
    BY Zenon
  <2>4. QED BY <2>2, <2>3, Zenon
<1> HIDE DEF m
<1>4. m \in Plans
  BY <1>2 DEF Shows
<1>5. LET y == [m EXCEPT !.partial = @ \/ partial]
      IN Shows(y, m.status, m.current, m.step) /\ y.recoveries = m.recoveries
  BY <1>3, <1>4
<1>6. QED BY <1>2, <1>5 DEF Shows, m

LEMMA CountedShows ==
  ASSUME NEW pl \in Plans, NEW s \in Steps, MayRecover(pl, s)
  PROVE  /\ Shows(CountRecovery(pl, s), pl.status, pl.current, pl.step)
         /\ CountRecovery(pl, s).recoveries = pl.recoveries + 1
         /\ CountRecovery(pl, s).recovered = pl.recovered
<1>1. pl.recoveries \in 0 .. MaxRecoveries /\ pl.recoveries < MaxRecoveries
  BY DEF MayRecover, Plans
<1>2. pl.recoveries + 1 \in 0 .. MaxRecoveries
  BY <1>1, PlanAssumption
<1>3. QED BY <1>1, <1>2 DEF CountRecovery, Plans, Shows

\* The plan that Recover saves.
LEMMA RecoveredShows ==
  ASSUME NEW pl \in Plans, NEW s \in Steps, MayRecover(pl, s)
  PROVE  LET n == [SetStep(CountRecovery(pl, s), s, "retrying") EXCEPT
                     !.status = "recovering", !.recovered[s] = @ + 1]
         IN /\ Shows(n, "recovering", pl.current, [pl.step EXCEPT ![s] = "retrying"])
            /\ n.recoveries = pl.recoveries + 1
<1> DEFINE c == CountRecovery(pl, s)
           m == SetStep(c, s, "retrying")
           r == [pl.recovered EXCEPT ![s] = @ + 1]
           n == [m EXCEPT !.status = "recovering", !.recovered[s] = @ + 1]
<1>1. "retrying" \in StepStatuses /\ "recovering" \in PlanStatuses
  BY DEF StepStatuses, PlanStatuses
<1>2. /\ Shows(c, pl.status, pl.current, pl.step)
      /\ c.recoveries = pl.recoveries + 1 /\ c.recovered = pl.recovered
  BY CountedShows
<1>3. c \in Plans
  BY <1>2 DEF Shows
<1> HIDE DEF c
<1>4. /\ Shows(m, c.status, c.current, [c.step EXCEPT ![s] = "retrying"])
      /\ m.recoveries = c.recoveries /\ m.recovered = c.recovered
  BY <1>1, <1>3, SetStepShows
<1>5. m \in Plans /\ m.recovered = pl.recovered /\ pl.recovered \in [Steps -> Nat]
  BY <1>2, <1>4 DEF Shows, Plans
<1>6. r \in [Steps -> Nat]
  BY <1>5
<1> HIDE DEF m
<1>7. n = [m EXCEPT !.status = "recovering", !.recovered = r]
  BY <1>5
<1> HIDE DEF r
<1>8. \A b \in [Steps -> Nat], x \in Plans :
        LET y == [x EXCEPT !.status = "recovering", !.recovered = b]
        IN /\ Shows(y, "recovering", x.current, x.step)
           /\ y.recoveries = x.recoveries
  BY <1>1 DEF Plans, Shows
<1>9. Shows(n, "recovering", m.current, m.step) /\ n.recoveries = m.recoveries
  BY <1>5, <1>6, <1>7, <1>8
<1>10. QED BY <1>2, <1>4, <1>9 DEF Shows, m, c

\* The plan that AllCompleted saves.
LEMMA EndedShows ==
  ASSUME NEW pl \in Plans
  PROVE  LET st == IF pl.partial THEN "partially_completed" ELSE "completed"
         IN Shows([pl EXCEPT !.current = 0, !.status = st], st, 0, pl.step)
<1>1. {"partially_completed", "completed"} \subseteq PlanStatuses
  BY DEF PlanStatuses
<1>2. \A st \in PlanStatuses :
        Shows([pl EXCEPT !.current = 0, !.status = st], st, 0, pl.step)
  BY DEF Plans, Shows
<1>3. QED BY <1>1, <1>2

\* The plan that NothingRunnable saves: only pending steps become blocked.
LEMMA BlockedShows ==
  ASSUME NEW pl \in Plans
  PROVE  LET n == Failed([pl EXCEPT !.step =
                           [s \in Steps |-> IF s \in BlockedByDependency(pl)
                                            THEN "blocked" ELSE @[s]]], TRUE)
         IN \E st \in {"partially_completed", "failed"},
               f \in [Steps -> StepStatuses] :
              /\ Shows(n, st, pl.current, f)
              /\ \A s \in Steps : \/ f[s] = pl.step[s]
                                  \/ pl.step[s] = "pending" /\ f[s] = "blocked"
<1> DEFINE f == [s \in Steps |-> IF s \in BlockedByDependency(pl)
                                 THEN "blocked" ELSE pl.step[s]]
           m == [pl EXCEPT !.step =
                  [s \in Steps |-> IF s \in BlockedByDependency(pl)
                                   THEN "blocked" ELSE @[s]]]
<1>1. f \in [Steps -> StepStatuses]
  BY DEF Plans, StepStatuses
<1>2. m = [pl EXCEPT !.step = f]
  OBVIOUS
<1>3. \A s \in Steps : f[s] = pl.step[s] \/ (pl.step[s] = "pending" /\ f[s] = "blocked")
  BY DEF BlockedByDependency
<1>4. \A g \in [Steps -> StepStatuses] :
        Shows([pl EXCEPT !.step = g], pl.status, pl.current, g)
  BY DEF Plans, Shows
<1> HIDE DEF f
<1>5. Shows(m, pl.status, pl.current, f)
  BY <1>1, <1>2, <1>4
<1> HIDE DEF m
<1>6. \E st \in {"partially_completed", "failed"} : Shows(Failed(m, TRUE), st, m.current, m.step)
  BY <1>5, FailedShows DEF Shows
<1>7. \E st \in {"partially_completed", "failed"} : Shows(Failed(m, TRUE), st, pl.current, f)
  BY <1>5, <1>6 DEF Shows
<1>8. QED BY <1>1, <1>3, <1>7 DEF m

\* What StepFails makes of a plan.
LEMMA StepFailedShows ==
  ASSUME NEW pl \in Plans, NEW s \in Steps, NEW result \in {"blocked", "failed"},
         NEW m \in {pl} \cup {CountRecovery(pl, t) :
                                t \in {u \in {s} : MayRecover(pl, u) /\ ~AttemptsLeft(pl, u)}}
  PROVE  \E st \in {"partially_completed", "failed"} :
           Shows(Failed(SetStep(m, s, result), TRUE), st, pl.current,
                 [pl.step EXCEPT ![s] = result])
<1>1. Shows(m, pl.status, pl.current, pl.step)
  BY CountedShows DEF Shows
<1> DEFINE k == SetStep(m, s, result)
<1>2. result \in StepStatuses
  BY DEF StepStatuses
<1>3. Shows(k, m.status, m.current, [m.step EXCEPT ![s] = result])
  BY <1>1, <1>2, SetStepShows DEF Shows
<1> HIDE DEF k
<1>4. \E st \in {"partially_completed", "failed"} : Shows(Failed(k, TRUE), st, k.current, k.step)
  BY <1>3, FailedShows DEF Shows
<1>5. \E st \in {"partially_completed", "failed"} :
        Shows(Failed(k, TRUE), st, pl.current, [pl.step EXCEPT ![s] = result])
  BY <1>1, <1>3, <1>4 DEF Shows
<1>6. QED BY <1>5 DEF k
-----------------------------------------------------------------------------
(* The inductive invariant, process by process: l, n and r are the label,  *)
(* the plan and the run of one of them, d is the snapshot.                 *)
Labels == {"idle", "loop", "execute", "acted", "ask", "resolve", "pause", "cancel"}
Running == {"loop", "execute", "acted"}
Waiting == {"waiting_for_confirmation", "waiting_for_clarification"}

\* The current step may run, and no step that may run comes before it.
Frontier(pl) ==
  pl.current # 0 => /\ \A d \in Deps[pl.current] : pl.step[d] = "completed"
                    /\ \A t \in Runnable(pl) : pl.current <= t

\* A plan that waits does so at its current step; what it says of its steps is
\* so, when D are the steps done and Y counts the yeses.
PlanOK(pl, D, Y) ==
  /\ Frontier(pl)
  /\ pl.status \in Waiting => pl.current # 0 /\ pl.step[pl.current] = pl.status
  /\ pl.status = "waiting_for_clarification" /\ pl.current \in NeedsYes
       => Y[pl.current] > 0
  /\ \A s \in Steps : pl.step[s] = "completed" => s \in D
  /\ pl.status = "completed" => Steps \subseteq D

\* What the arguments of a process's _run say of the plan it works on.
RunOK(l, n, r, Y) ==
  /\ l \notin Running => r.confirmed = 0 /\ r.resolved = 0 /\ r.begun = FALSE
  /\ l \in Running => n.status \notin Waiting
  /\ l \in {"execute", "acted"} => n.current # 0 /\ n.step[n.current] = "running"
  /\ l = "resolve" => n.status = "waiting_for_clarification"
  /\ r.resolved # 0 =>
       /\ l # "acted" /\ r.resolved = n.current
       /\ l = "loop" => r.begun = FALSE /\ n.step[n.current] = "ready"
  /\ r.confirmed \in NeedsYes => Y[r.confirmed] > 0

ProcOK(l, n, r, D, Y) ==
  /\ l \in Labels /\ r \in Runs
  /\ l = "idle" => n = NoPlan
  /\ l # "idle" => n \in Plans /\ PlanOK(n, D, Y)
  /\ RunOK(l, n, r, Y)

\* A process whose run the user has said yes to step s for, and that has not
\* used this up.
HasYes(s, l, n, r) == /\ r.confirmed = s /\ l \in Running
                      /\ n.step[s] # "completed" /\ ~(l = "acted" /\ n.current = s)

Unspent(s) == {p \in Procs : HasYes(s, pc[p], mem[p], run[p])}

YesInv ==
  \A s \in NeedsYes : /\ IsFiniteSet(Unspent(s))
                      /\ Cardinality(Unspent(s)) + acted[s] <= yes[s]
                      /\ s \in answered => yes[s] > 0

\* A step that was acted on, by the planner (A) or for an answer (B), is shown
\* in none of the statuses from which it would be begun or asked about again.
Fit(pl, s, A, B) ==
  /\ A[s] > 0 \/ s \in B
       => pl.step[s] \notin {"pending", "ready", "retrying", "waiting_for_confirmation"}
  /\ A[s] > 0 => pl.step[s] # "waiting_for_clarification"

\* What a process that works alone keeps of the steps not to be repeated.
OnceOK(l, n, r, d, A, B) ==
  /\ l \in {"execute", "acted", "ask", "resolve"} => d = n
  /\ \A s \in NonIdempotent :
       /\ A[s] = 0 \/ (A[s] = 1 /\ s \notin B)
       /\ d = NoPlan => A[s] = 0 /\ s \notin B
       /\ d # NoPlan => Fit(d, s, A, B)
       /\ l # "idle" => \/ Fit(n, s, A, B)
                        \/ l = "loop" /\ r.resolved = s /\ A[s] = 0
       /\ l = "execute" /\ n.current = s => A[s] = 0 /\ (s \in B => r.resolved = s)

HistoryTypes ==
  /\ acted \in [Steps -> 0 .. 3] /\ answered \subseteq Steps /\ done \subseteq Steps
  /\ yes \in [Steps -> 0 .. MaxYes] /\ commands \in 0 .. MaxCommands
  /\ overlap \in BOOLEAN

ProcsOK ==
  /\ pc \in [Procs -> Labels] /\ run \in [Procs -> Runs]
  /\ mem \in [Procs -> Plans \cup {NoPlan}]
  /\ disk # NoPlan => disk \in Plans /\ PlanOK(disk, done, yes)
  /\ \A p \in Procs : /\ ProcOK(pc[p], mem[p], run[p], done, yes)
                      /\ pc[p] # "idle" => disk # NoPlan

OnceInv ==
  ~overlap => /\ \A p, q \in Procs : pc[p] # "idle" /\ pc[q] # "idle" => p = q
              /\ \A p \in Procs : OnceOK(pc[p], mem[p], run[p], disk, acted, answered)
              /\ \A s \in NonIdempotent : acted[s] = 0 \/ (acted[s] = 1 /\ s \notin answered)

PlanInv == HistoryTypes /\ ProcsOK /\ YesInv /\ OnceInv

LEMMA InvImpliesTypes == PlanInv => TypeOK
  BY NoPlanIsNone DEF PlanInv, HistoryTypes, ProcsOK, ProcOK, TypeOK, Labels
-----------------------------------------------------------------------------
(* How an edit keeps what a plan says true.                                *)

\* The current step changes, and others only to be given up.
LEMMA EditKeeps ==
  ASSUME NEW pl \in Plans, NEW n \in Plans, NEW D, NEW E, D \subseteq E,
         NEW Y \in [Steps -> Nat], NEW Z \in [Steps -> Nat],
         \A s \in Steps : Y[s] <= Z[s],
         PlanOK(pl, D, Y), n.current = pl.current,
         \A s \in Steps : \/ s = pl.current \/ n.step[s] = pl.step[s]
                          \/ pl.step[s] # "completed" /\ n.step[s] \in {"blocked", "cancelled"},
         \A s \in Steps : n.step[s] = "completed" => pl.step[s] = "completed" \/ s \in E,
         n.status \in Waiting =>
           /\ n.current # 0 /\ n.step[n.current] = n.status
           /\ n.status = "waiting_for_clarification" /\ n.current \in NeedsYes
                => Z[n.current] > 0,
         n.status = "completed" => Steps \subseteq E
  PROVE  PlanOK(n, E, Z)
<1>1. Frontier(n)
  <2>1. SUFFICES ASSUME n.current # 0
                 PROVE  /\ \A d \in Deps[n.current] : n.step[d] = "completed"
                        /\ \A t \in Runnable(n) : n.current <= t
    BY DEF Frontier
  <2> DEFINE c == pl.current
  <2>2. /\ c \in Steps /\ n.current = c
        /\ \A d \in Deps[c] : pl.step[d] = "completed"
        /\ \A t \in Runnable(pl) : c <= t
    BY <2>1 DEF PlanOK, Frontier, Plans
  <2>3. \A s \in Steps : \A d \in Deps[s] : d \in Steps /\ d < s /\ d \in Nat /\ s \in Nat
    BY PlanAssumption
  <2>4. \A d \in Deps[c] : n.step[d] = "completed"
    BY <2>2, <2>3
  <2>5. ASSUME NEW t \in Runnable(n) PROVE c <= t
    <3>1. t \in Steps /\ n.step[t] \in {"pending", "ready", "retrying"}
          /\ \A d \in Deps[t] : n.step[d] = "completed"
      BY DEF Runnable
    <3>2. c \in Nat /\ t \in Nat
      BY <2>2, <3>1, PlanAssumption
    <3>3. CASE t = c \/ c \in Deps[t]
      BY <2>3, <3>1, <3>2, <3>3
    <3>4. CASE t # c /\ c \notin Deps[t]
      <4>1. pl.step[t] \in {"pending", "ready", "retrying"}
        BY <3>1, <3>4
      <4>2. \A d \in Deps[t] : pl.step[d] = "completed"
        BY <2>3, <3>1, <3>4
      <4>3. t \in Runnable(pl)
        BY <3>1, <4>1, <4>2 DEF Runnable
      <4>4. QED BY <2>2, <4>3
    <3>5. QED BY <3>3, <3>4
  <2>6. QED BY <2>2, <2>4, <2>5
<1>2. \A s \in Steps : n.step[s] = "completed" => s \in E
  BY DEF PlanOK
<1>3. QED BY <1>1, <1>2 DEF PlanOK, Waiting

\* A plan as it was goes on saying what is so.
LEMMA GrowthKeeps ==
  ASSUME NEW pl \in Plans, NEW D, NEW E, D \subseteq E,
         NEW Y \in [Steps -> Nat], NEW Z \in [Steps -> Nat],
         \A s \in Steps : Y[s] <= Z[s], PlanOK(pl, D, Y)
  PROVE  PlanOK(pl, E, Z)
<1>1. \A s \in NeedsYes : s \in Steps /\ Y[s] \in Nat /\ Z[s] \in Nat /\ Y[s] <= Z[s]
  BY PlanAssumption
<1>2. \A s \in NeedsYes : Y[s] > 0 => Z[s] > 0
  BY <1>1
<1>3. QED BY <1>2 DEF PlanOK

\* Begins the first of the steps that may run.
LEMMA BeginKeeps ==
  ASSUME NEW pl \in Plans, NEW n \in Plans, NEW D, NEW Y, NEW s \in Steps,
         PlanOK(pl, D, Y), pl.status \notin Waiting,
         Runnable(pl) # {}, s = NextStep(pl),
         Shows(n, pl.status, s, [pl.step EXCEPT ![s] = "running"])
  PROVE  PlanOK(n, D, Y)
<1>1. /\ s \in Runnable(pl) /\ \A t \in Runnable(pl) : s <= t
  BY NextStepIsFirst
<1>2. /\ n.current = s /\ n.status = pl.status /\ pl.step \in [Steps -> StepStatuses]
      /\ n.step = [pl.step EXCEPT ![s] = "running"]
  BY DEF Shows, Plans
<1>3. n.step[s] = "running" /\ \A t \in Steps : t # s => n.step[t] = pl.step[t]
  BY <1>2
<1>4. \A t \in Steps : \A d \in Deps[t] : d \in Steps /\ d < t /\ t \in Nat
  BY PlanAssumption
<1>5. \A d \in Deps[s] : n.step[d] = "completed"
  BY <1>1, <1>3, <1>4 DEF Runnable
<1>6. \A t \in Runnable(n) : t \in Runnable(pl)
  BY <1>3, <1>4 DEF Runnable
<1>7. Frontier(n)
  BY <1>1, <1>2, <1>5, <1>6 DEF Frontier
<1>8. \A t \in Steps : n.step[t] = "completed" => t \in D
  BY <1>3 DEF PlanOK
<1>9. QED BY <1>2, <1>7, <1>8 DEF PlanOK, Waiting
-----------------------------------------------------------------------------
(* One step of one process.                                                *)

\* What the step does to the yeses for s: it uses none, it uses one up, or it
\* is the user who gives one.
YesStep(p, s, l, n, r) ==
  \/ /\ acted'[s] = acted[s] /\ yes'[s] = yes[s]
     /\ HasYes(s, l, n, r) => HasYes(s, pc[p], mem[p], run[p])
  \/ /\ acted'[s] <= acted[s] + 1 /\ yes'[s] = yes[s]
     /\ HasYes(s, pc[p], mem[p], run[p]) /\ ~HasYes(s, l, n, r)
  \/ acted'[s] = acted[s] /\ yes'[s] = yes[s] + 1

\* Commands that do not overlap: no other process is at work.
Alone(p) == ~overlap' => ~overlap /\ \A q \in Procs : q # p => pc[q] = "idle"

\* p goes to l with plan n and run r, the snapshot becomes d, and everything
\* that the invariant asks of p holds there.
Safe(p, l, n, r, d) ==
  /\ pc' = [pc EXCEPT ![p] = l] /\ mem' = [mem EXCEPT ![p] = n]
  /\ run' = [run EXCEPT ![p] = r] /\ disk' = d
  /\ HistoryTypes' /\ done \subseteq done' /\ \A s \in Steps : yes[s] <= yes'[s]
  /\ d \in Plans /\ PlanOK(d, done', yes') /\ ProcOK(l, n, r, done', yes')
  /\ \A s \in NeedsYes : YesStep(p, s, l, n, r) /\ (s \in answered' => yes'[s] > 0)
  /\ Alone(p)
  /\ ~overlap' => OnceOK(l, n, r, d, acted', answered')

SafeStep(p) == \E l \in Labels, n \in Plans \cup {NoPlan}, r \in Runs, d \in Plans :
                 Safe(p, l, n, r, d)

LEMMA ProcGrowth ==
  ASSUME NEW D, NEW E, D \subseteq E, NEW Y \in [Steps -> Nat], NEW Z \in [Steps -> Nat],
         \A s \in Steps : Y[s] <= Z[s], NEW l, NEW n, NEW r, ProcOK(l, n, r, D, Y)
  PROVE  ProcOK(l, n, r, E, Z)
<1>1. l # "idle" => PlanOK(n, E, Z)
  BY GrowthKeeps DEF ProcOK
<1>2. \A s \in NeedsYes : s \in Steps /\ Y[s] \in Nat /\ Z[s] \in Nat /\ Y[s] <= Z[s]
  BY PlanAssumption
<1>3. \A s \in NeedsYes : Y[s] > 0 => Z[s] > 0
  BY <1>2
<1>4. RunOK(l, n, r, Z)
  BY <1>3 DEF ProcOK, RunOK
<1>5. QED BY <1>1, <1>4 DEF ProcOK

LEMMA SafeKeepsProcs ==
  ASSUME PlanInv, NEW p \in Procs, NEW l, NEW n, NEW r, NEW d, Safe(p, l, n, r, d)
  PROVE  ProcsOK'
<1>1. /\ pc \in [Procs -> Labels] /\ mem \in [Procs -> Plans \cup {NoPlan}]
      /\ run \in [Procs -> Runs]
  BY DEF PlanInv, ProcsOK
<1>2. /\ pc' = [pc EXCEPT ![p] = l] /\ mem' = [mem EXCEPT ![p] = n]
      /\ run' = [run EXCEPT ![p] = r] /\ disk' = d
      /\ d \in Plans /\ PlanOK(d, done', yes') /\ ProcOK(l, n, r, done', yes')
  BY DEF Safe
<1>3. /\ done \subseteq done' /\ \A s \in Steps : yes[s] <= yes'[s]
      /\ yes \in [Steps -> Nat] /\ yes' \in [Steps -> Nat]
  BY PlanAssumption DEF Safe, PlanInv, HistoryTypes
<1>4. l \in Labels /\ n \in Plans \cup {NoPlan} /\ r \in Runs
  BY <1>2 DEF ProcOK
<1>5. /\ pc' \in [Procs -> Labels] /\ mem' \in [Procs -> Plans \cup {NoPlan}]
      /\ run' \in [Procs -> Runs]
  BY <1>1, <1>2, <1>4
<1>6. ASSUME NEW q \in Procs
      PROVE  ProcOK(pc'[q], mem'[q], run'[q], done', yes')
  <2>1. ProcOK(pc[q], mem[q], run[q], done', yes')
    <3>1. ProcOK(pc[q], mem[q], run[q], done, yes)
      BY DEF PlanInv, ProcsOK
    <3>2. QED BY <1>3, <3>1, ProcGrowth
  <2>2. CASE q = p
    BY <1>1, <1>2, <2>2
  <2>3. CASE q # p
    BY <1>1, <1>2, <2>1, <2>3
  <2>4. QED BY <2>2, <2>3
<1>7. d # NoPlan
  BY <1>2, NoPlanIsNone
<1>8. QED BY <1>2, <1>5, <1>6, <1>7 DEF ProcsOK

LEMMA SafeKeepsYes ==
  ASSUME PlanInv, NEW p \in Procs, NEW l, NEW n, NEW r, NEW d, Safe(p, l, n, r, d)
  PROVE  YesInv'
<1>1. /\ pc \in [Procs -> Labels] /\ mem \in [Procs -> Plans \cup {NoPlan}]
      /\ run \in [Procs -> Runs]
  BY DEF PlanInv, ProcsOK
<1>2. /\ pc' = [pc EXCEPT ![p] = l] /\ mem' = [mem EXCEPT ![p] = n]
      /\ run' = [run EXCEPT ![p] = r]
  BY DEF Safe
<1>3. SUFFICES ASSUME NEW s \in NeedsYes
               PROVE  /\ IsFiniteSet(Unspent(s)')
                      /\ Cardinality(Unspent(s)') + acted'[s] <= yes'[s]
                      /\ s \in answered' => yes'[s] > 0
  BY DEF YesInv
<1>4. YesStep(p, s, l, n, r) /\ (s \in answered' => yes'[s] > 0)
  BY DEF Safe
<1> DEFINE U == Unspent(s)
           V == Unspent(s)'
<1>5. /\ p \in U <=> HasYes(s, pc[p], mem[p], run[p])
      /\ p \in V <=> HasYes(s, l, n, r)
      /\ \A q \in Procs : q # p => (q \in U <=> q \in V)
      /\ U \subseteq Procs /\ V \subseteq Procs
  BY <1>1, <1>2 DEF Unspent
<1>6. /\ IsFiniteSet(U) /\ Cardinality(U) + acted[s] <= yes[s]
  BY DEF PlanInv, YesInv
<1>7. s \in Steps /\ acted[s] \in Nat /\ acted'[s] \in Nat /\ yes[s] \in Nat /\ yes'[s] \in Nat
  BY PlanAssumption DEF Safe, PlanInv, HistoryTypes
<1> HIDE DEF U, V
<1>8. Cardinality(U) \in Nat
  BY <1>6, FS_CardinalityType
<1>9. ASSUME V \subseteq U
      PROVE  IsFiniteSet(V) /\ Cardinality(V) \in Nat /\ Cardinality(V) <= Cardinality(U)
  BY <1>6, <1>9, FS_Subset, FS_CardinalityType
<1>10. CASE /\ acted'[s] = acted[s] /\ yes'[s] = yes[s]
            /\ HasYes(s, l, n, r) => HasYes(s, pc[p], mem[p], run[p])
  <2>1. V \subseteq U
    BY <1>5, <1>10
  <2>2. QED BY <1>4, <1>6, <1>7, <1>8, <1>9, <1>10, <2>1 DEF V
<1>11. CASE /\ acted'[s] <= acted[s] + 1 /\ yes'[s] = yes[s]
            /\ HasYes(s, pc[p], mem[p], run[p]) /\ ~HasYes(s, l, n, r)
  <2>1. V = U \ {p} /\ p \in U
    BY <1>5, <1>11
  <2>2. IsFiniteSet(V) /\ Cardinality(V) = Cardinality(U) - 1
    BY <1>6, <2>1, FS_RemoveElement
  <2>3. QED BY <1>4, <1>6, <1>7, <1>8, <1>11, <2>2 DEF V
<1>12. CASE acted'[s] = acted[s] /\ yes'[s] = yes[s] + 1
  <2>1. V \subseteq U \cup {p}
    BY <1>5
  <2>2. IsFiniteSet(U \cup {p}) /\ Cardinality(U \cup {p}) <= Cardinality(U) + 1
        /\ Cardinality(U \cup {p}) \in Nat
    <3>1. /\ IsFiniteSet(U \cup {p})
          /\ Cardinality(U \cup {p}) = IF p \in U THEN Cardinality(U) ELSE Cardinality(U) + 1
      BY <1>6, FS_AddElement
    <3>2. QED BY <1>8, <3>1
  <2>3. IsFiniteSet(V) /\ Cardinality(V) <= Cardinality(U \cup {p}) /\ Cardinality(V) \in Nat
    BY <2>1, <2>2, FS_Subset, FS_CardinalityType
  <2>4. QED BY <1>4, <1>6, <1>7, <1>8, <1>12, <2>2, <2>3 DEF V
<1>13. QED BY <1>4, <1>10, <1>11, <1>12 DEF YesStep

LEMMA SafeKeepsOnce ==
  ASSUME PlanInv, NEW p \in Procs, NEW l, NEW n, NEW r, NEW d, Safe(p, l, n, r, d)
  PROVE  OnceInv'
<1>1. /\ pc \in [Procs -> Labels] /\ mem \in [Procs -> Plans \cup {NoPlan}]
      /\ run \in [Procs -> Runs]
  BY DEF PlanInv, ProcsOK
<1>2. /\ pc' = [pc EXCEPT ![p] = l] /\ mem' = [mem EXCEPT ![p] = n]
      /\ run' = [run EXCEPT ![p] = r] /\ disk' = d
  BY DEF Safe
<1>3. SUFFICES ASSUME ~overlap'
               PROVE  /\ \A q, t \in Procs : pc'[q] # "idle" /\ pc'[t] # "idle" => q = t
                      /\ \A q \in Procs : OnceOK(pc'[q], mem'[q], run'[q], disk', acted', answered')
                      /\ \A s \in NonIdempotent :
                           acted'[s] = 0 \/ (acted'[s] = 1 /\ s \notin answered')
  BY DEF OnceInv
<1>4. OnceOK(l, n, r, d, acted', answered') /\ \A q \in Procs : q # p => pc[q] = "idle"
  BY <1>3 DEF Safe, Alone
<1>5. \A q \in Procs : q # p => pc'[q] = "idle"
  BY <1>1, <1>2, <1>4
<1>6. ASSUME NEW q \in Procs
      PROVE  OnceOK(pc'[q], mem'[q], run'[q], disk', acted', answered')
  <2>1. CASE q = p
    BY <1>1, <1>2, <1>4, <2>1
  <2>2. CASE q # p
    BY <1>2, <1>4, <1>5, <2>2 DEF OnceOK
  <2>3. QED BY <2>1, <2>2
<1>7. QED BY <1>4, <1>5, <1>6 DEF OnceOK

LEMMA SafeKeepsInv ==
  ASSUME PlanInv, NEW p \in Procs, SafeStep(p)
  PROVE  PlanInv'
<1>1. PICK l \in Labels, n \in Plans \cup {NoPlan}, r \in Runs, d \in Plans :
        Safe(p, l, n, r, d)
  BY DEF SafeStep
<1>2. HistoryTypes'
  BY <1>1 DEF Safe
<1>3. QED BY <1>1, <1>2, SafeKeepsProcs, SafeKeepsYes, SafeKeepsOnce DEF PlanInv
-----------------------------------------------------------------------------
(* The actions, those that end or leave off first.                         *)

LEMMA NoPlanKnown ==
  ASSUME PlanInv, NEW p \in Procs
  PROVE  /\ pc[p] \in Labels /\ run[p] \in Runs /\ RunOK(pc[p], mem[p], run[p], yes)
         /\ pc[p] = "idle" => mem[p] = NoPlan
         /\ pc[p] # "idle" => /\ mem[p] \in Plans /\ PlanOK(mem[p], done, yes)
                              /\ disk \in Plans /\ PlanOK(disk, done, yes)
         /\ disk # NoPlan => disk \in Plans /\ PlanOK(disk, done, yes)
         /\ NoPlan.status = "none" /\ NoPlan \notin Plans
  BY NoPlanIsNone DEF PlanInv, ProcsOK, ProcOK

LEMMA BeginsAlone ==
  ASSUME PlanInv, NEW p \in Procs, Starts(p)
  PROVE  /\ Alone(p) /\ pc[p] = "idle"
         /\ commands' \in 0 .. MaxCommands /\ overlap' \in BOOLEAN
<1>1. overlap \in BOOLEAN /\ overlap' = (overlap \/ \E q \in Procs : pc[q] # "idle")
  BY DEF Starts, PlanInv, HistoryTypes
<1>2. pc[p] = "idle" /\ Alone(p)
  BY <1>1 DEF Starts, Alone
<1>3. overlap' \in BOOLEAN
  BY <1>1, Zenon
<1>4. commands' \in 0 .. MaxCommands
  BY PlanAssumption DEF Starts, PlanInv, HistoryTypes
<1>5. QED BY <1>2, <1>3, <1>4

LEMMA GoesOnAlone ==
  ASSUME PlanInv, NEW p \in Procs, pc[p] # "idle", UNCHANGED <<commands, overlap>>
  PROVE  /\ Alone(p)
         /\ commands' \in 0 .. MaxCommands /\ overlap' \in BOOLEAN
<1>1. Alone(p)
  BY DEF Alone, PlanInv, OnceInv
<1>2. QED BY <1>1 DEF PlanInv, HistoryTypes

\* What a process that works alone may count on.
LEMMA AloneKnows ==
  ASSUME PlanInv, NEW p \in Procs, Alone(p), ~overlap'
  PROVE  OnceOK(pc[p], mem[p], run[p], disk, acted, answered)
  BY DEF PlanInv, OnceInv, Alone

\* A step of p that leaves the history as it is and begins or continues no run
\* that has a yes.
LEMMA QuietIsSafe ==
  ASSUME PlanInv, NEW p \in Procs, Alone(p),
         commands' \in 0 .. MaxCommands, overlap' \in BOOLEAN, UNCHANGED history,
         NEW l \in Labels, NEW n \in Plans \cup {NoPlan}, NEW r \in Runs, NEW d \in Plans,
         pc' = [pc EXCEPT ![p] = l], mem' = [mem EXCEPT ![p] = n],
         run' = [run EXCEPT ![p] = r], disk' = d,
         l = "idle" <=> n = NoPlan, PlanOK(d, done, yes),
         l # "idle" => PlanOK(n, done, yes),
         RunOK(l, n, r, yes),
         \A s \in NeedsYes : HasYes(s, l, n, r) => HasYes(s, pc[p], mem[p], run[p]),
         ~overlap' => OnceOK(l, n, r, d, acted, answered)
  PROVE  SafeStep(p)
<1>1. UNCHANGED <<acted, answered, done, yes>>
  BY DEF history
<1>2. HistoryTypes'
  BY <1>1 DEF PlanInv, HistoryTypes
<1>3. done \subseteq done' /\ \A s \in Steps : yes[s] <= yes'[s]
  BY <1>1, PlanAssumption DEF PlanInv, HistoryTypes
<1>4. PlanOK(d, done', yes') /\ ProcOK(l, n, r, done', yes')
  BY <1>1 DEF ProcOK
<1>5. \A s \in NeedsYes : YesStep(p, s, l, n, r) /\ (s \in answered' => yes'[s] > 0)
  BY <1>1 DEF YesStep, PlanInv, YesInv
<1>6. Safe(p, l, n, r, d)
  BY <1>1, <1>2, <1>3, <1>4, <1>5 DEF Safe
<1>7. QED BY <1>6 DEF SafeStep

LEMMA NoRunIsRun ==
  /\ NoRun \in Runs /\ [NoRun EXCEPT !.prompts = TRUE] \in Runs
  /\ \A r \in {NoRun, [NoRun EXCEPT !.prompts = TRUE]} :
       r.confirmed = 0 /\ r.resolved = 0 /\ r.begun = FALSE
<1>1. NoRun \in Runs /\ NoRun.confirmed = 0 /\ NoRun.resolved = 0 /\ NoRun.begun = FALSE
  BY DEF NoRun, Runs
<1>2. \A r \in Runs : LET q == [r EXCEPT !.prompts = TRUE]
                     IN /\ q \in Runs /\ q.confirmed = r.confirmed
                        /\ q.resolved = r.resolved /\ q.begun = r.begun
  BY DEF Runs
<1>3. QED BY <1>1, <1>2

\* The process is gone; y is the snapshot it leaves.
LEMMA EndsSafely ==
  ASSUME PlanInv, NEW p \in Procs, pc[p] # "idle", UNCHANGED <<commands, overlap>>,
         UNCHANGED history, Ends(p), NEW y \in Plans, disk' = y, PlanOK(y, done, yes),
         ~overlap' => \A s \in NonIdempotent : Fit(y, s, acted, answered)
  PROVE  SafeStep(p)
<1>1. /\ pc' = [pc EXCEPT ![p] = "idle"] /\ mem' = [mem EXCEPT ![p] = NoPlan]
      /\ run' = [run EXCEPT ![p] = NoRun]
  BY DEF Ends, Goto
<1>2. Alone(p) /\ commands' \in 0 .. MaxCommands /\ overlap' \in BOOLEAN
  BY GoesOnAlone
<1>3. RunOK("idle", NoPlan, NoRun, yes)
  BY NoRunIsRun, PlanAssumption DEF RunOK, Running
<1>4. \A s \in NeedsYes : ~HasYes(s, "idle", NoPlan, NoRun)
  BY DEF HasYes, Running
<1>5. ASSUME ~overlap' PROVE OnceOK("idle", NoPlan, NoRun, y, acted, answered)
  <2>1. OnceOK(pc[p], mem[p], run[p], disk, acted, answered)
    BY <1>2, <1>5, AloneKnows
  <2>2. QED BY <1>5, <2>1, NoPlanIsNone DEF OnceOK
<1>6. "idle" \in Labels /\ NoPlan \in Plans \cup {NoPlan} /\ NoRun \in Runs
  BY NoRunIsRun DEF Labels
<1>7. QED BY <1>1, <1>2, <1>3, <1>4, <1>5, <1>6, QuietIsSafe

\* The run is over; a command that prompts stays to ask.
LEMMA StopsSafely ==
  ASSUME PlanInv, NEW p \in Procs, pc[p] # "idle", UNCHANGED <<commands, overlap>>,
         UNCHANGED history, NEW y \in Plans, Stops(p, y), PlanOK(y, done, yes),
         ~overlap' => \A s \in NonIdempotent : Fit(y, s, acted, answered)
  PROVE  SafeStep(p)
<1>1. CASE Ends(p)
  BY <1>1, EndsSafely DEF Stops
<1>2. CASE ~Ends(p)
  <2> DEFINE r == [NoRun EXCEPT !.prompts = TRUE]
  <2>1. /\ pc' = [pc EXCEPT ![p] = "ask"] /\ mem' = [mem EXCEPT ![p] = y]
        /\ run' = [run EXCEPT ![p] = r] /\ disk' = y
    BY <1>2 DEF Stops, Goto
  <2>2. Alone(p) /\ commands' \in 0 .. MaxCommands /\ overlap' \in BOOLEAN
    BY GoesOnAlone
  <2>3. r \in Runs /\ r.confirmed = 0 /\ r.resolved = 0 /\ r.begun = FALSE
    BY NoRunIsRun
  <2> HIDE DEF r
  <2>4. RunOK("ask", y, r, yes)
    BY <2>3, PlanAssumption DEF RunOK, Running
  <2>5. \A s \in NeedsYes : ~HasYes(s, "ask", y, r)
    BY DEF HasYes, Running
  <2>6. ASSUME ~overlap' PROVE OnceOK("ask", y, r, y, acted, answered)
    <3>1. OnceOK(pc[p], mem[p], run[p], disk, acted, answered)
      BY <2>2, <2>6, AloneKnows
    <3>2. QED BY <2>6, <3>1, NoPlanIsNone DEF OnceOK
  <2>7. "ask" \in Labels /\ y # NoPlan
    BY NoPlanIsNone DEF Labels
  <2>8. QED BY <2>1, <2>2, <2>3, <2>4, <2>5, <2>6, <2>7, QuietIsSafe
<1>3. QED BY <1>1, <1>2

\* The process goes on with plan y in memory; it had no run going.
LEMMA WorksSafely ==
  ASSUME PlanInv, NEW p \in Procs, Alone(p),
         commands' \in 0 .. MaxCommands, overlap' \in BOOLEAN, UNCHANGED <<run, history>>,
         pc[p] \notin Running, disk # NoPlan,
         NEW y \in Plans, PlanOK(y, done, yes),
         NEW l \in {"loop", "resolve", "pause", "cancel"}, Works(p, y, l),
         l = "loop" => y.status \notin Waiting,
         l = "resolve" => y.status = "waiting_for_clarification" /\ (~overlap' => y = disk),
         ~overlap' => \A s \in NonIdempotent : Fit(y, s, acted, answered)
  PROVE  SafeStep(p)
<1> DEFINE r == run[p]
<1>1. /\ r \in Runs /\ RunOK(pc[p], mem[p], r, yes)
      /\ disk \in Plans /\ PlanOK(disk, done, yes)
  BY NoPlanKnown
<1>2. r.confirmed = 0 /\ r.resolved = 0 /\ r.begun = FALSE
  BY <1>1 DEF RunOK
<1>3. run' = [run EXCEPT ![p] = r]
  BY DEF PlanInv, ProcsOK
<1> HIDE DEF r
<1>4. RunOK(l, y, r, yes)
  BY <1>2, PlanAssumption DEF RunOK, Running
<1>5. \A s \in NeedsYes : ~HasYes(s, l, y, r)
  BY <1>2, PlanAssumption DEF HasYes
<1>6. ASSUME ~overlap' PROVE OnceOK(l, y, r, disk, acted, answered)
  <2>1. OnceOK(pc[p], mem[p], run[p], disk, acted, answered)
    BY <1>6, AloneKnows
  <2>2. QED BY <1>6, <2>1 DEF OnceOK
<1>7. /\ pc' = [pc EXCEPT ![p] = l] /\ mem' = [mem EXCEPT ![p] = y]
      /\ disk' = disk
  BY DEF Works, Goto
<1>8. l \in Labels /\ l # "idle" /\ y # NoPlan
  BY NoPlanIsNone DEF Labels
<1>9. UNCHANGED history
  OBVIOUS
<1>10. QED BY <1>1, <1>3, <1>4, <1>5, <1>6, <1>7, <1>8, <1>9, QuietIsSafe

LEMMA FitKept ==
  ASSUME NEW pl, NEW n, NEW s, NEW A, NEW B, Fit(pl, s, A, B),
         \/ n.step[s] = pl.step[s]
         \/ n.step[s] \in {"running", "completed", "failed", "blocked", "cancelled"}
  PROVE  Fit(n, s, A, B)
  BY DEF Fit

\* A plan that is not asked to do more than it says, put into another status.
LEMMA StatusKeeps ==
  ASSUME PlanInv, NEW pl \in Plans, PlanOK(pl, done, yes),
         NEW st \in PlanStatuses \ (Waiting \cup {"completed"})
  PROVE  /\ [pl EXCEPT !.status = st] \in Plans
         /\ PlanOK([pl EXCEPT !.status = st], done, yes)
<1> DEFINE n == [pl EXCEPT !.status = st]
<1>1. Shows(n, st, pl.current, pl.step)
  BY StatusShows
<1>2. yes \in [Steps -> Nat] /\ \A s \in Steps : yes[s] <= yes[s]
  BY PlanAssumption DEF PlanInv, HistoryTypes
<1> HIDE DEF n
<1>3. n \in Plans /\ n.status = st /\ n.current = pl.current /\ n.step = pl.step
  BY <1>1 DEF Shows
<1>4. PlanOK(n, done, yes)
  BY <1>2, <1>3, EditKeeps
<1>5. QED BY <1>3, <1>4 DEF n

LEMMA ResumePausedSafe == ASSUME PlanInv, NEW p \in Procs, ResumePaused(p) PROVE SafeStep(p)
<1> DEFINE y == [disk EXCEPT !.status = "running"]
<1>1. Starts(p) /\ disk.status = "paused" /\ Works(p, y, "loop") /\ UNCHANGED <<run, history>>
  BY DEF ResumePaused
<1>2. /\ Alone(p) /\ pc[p] \notin Running
      /\ commands' \in 0 .. MaxCommands /\ overlap' \in BOOLEAN
  BY <1>1, BeginsAlone DEF Running
<1>3. disk # NoPlan /\ disk \in Plans /\ PlanOK(disk, done, yes)
  BY <1>1, NoPlanKnown
<1>4. "running" \in PlanStatuses \ (Waiting \cup {"completed"})
  BY DEF PlanStatuses, Waiting
<1>5. y \in Plans /\ PlanOK(y, done, yes)
  BY <1>3, <1>4, StatusKeeps
<1>6. y.step = disk.step /\ y.status = "running"
  BY <1>3, <1>4, StatusShows DEF Shows
<1> HIDE DEF y
<1>7. ASSUME ~overlap', NEW s \in NonIdempotent PROVE Fit(y, s, acted, answered)
  <2>1. Fit(disk, s, acted, answered)
    BY <1>2, <1>3, <1>7, AloneKnows DEF OnceOK
  <2>2. QED BY <1>6, <2>1, FitKept
<1>8. QED BY <1>1, <1>2, <1>3, <1>4, <1>5, <1>6, <1>7, WorksSafely

\* The commands that read the snapshot and go on with it as it is.
LEMMA ReadsSafely ==
  ASSUME PlanInv, NEW p \in Procs, Starts(p), UNCHANGED <<run, history>>,
         disk.status # "none", NEW l \in {"resolve", "pause", "cancel"}, Works(p, disk, l),
         l = "resolve" => disk.status = "waiting_for_clarification"
  PROVE  SafeStep(p)
<1>1. /\ Alone(p) /\ pc[p] \notin Running
      /\ commands' \in 0 .. MaxCommands /\ overlap' \in BOOLEAN
  BY BeginsAlone DEF Running
<1>2. disk # NoPlan /\ disk \in Plans /\ PlanOK(disk, done, yes)
  BY NoPlanKnown
<1>3. ASSUME ~overlap', NEW s \in NonIdempotent PROVE Fit(disk, s, acted, answered)
  BY <1>1, <1>2, <1>3, AloneKnows DEF OnceOK
<1>4. QED BY <1>1, <1>2, <1>3, WorksSafely

LEMMA ClarifySafe == ASSUME PlanInv, NEW p \in Procs, Clarify(p) PROVE SafeStep(p)
  BY ReadsSafely DEF Clarify

LEMMA PauseReadSafe == ASSUME PlanInv, NEW p \in Procs, PauseRead(p) PROVE SafeStep(p)
  BY ReadsSafely DEF PauseRead

LEMMA CancelReadSafe == ASSUME PlanInv, NEW p \in Procs, CancelRead(p) PROVE SafeStep(p)
  BY ReadsSafely DEF CancelRead

LEMMA AnswerQuestionSafe ==
  ASSUME PlanInv, NEW p \in Procs, AnswerQuestion(p) PROVE SafeStep(p)
<1>1. /\ pc[p] = "ask" /\ UNCHANGED <<commands, overlap>>
      /\ mem[p].status = "waiting_for_clarification"
      /\ Works(p, mem[p], "resolve") /\ UNCHANGED <<run, history>>
  BY DEF AnswerQuestion, InRun
<1>2. /\ Alone(p) /\ pc[p] \notin Running
      /\ commands' \in 0 .. MaxCommands /\ overlap' \in BOOLEAN
  BY <1>1, GoesOnAlone DEF Running
<1>3. disk # NoPlan /\ mem[p] \in Plans /\ PlanOK(mem[p], done, yes)
  BY <1>1, NoPlanKnown
<1>4. ASSUME ~overlap' PROVE /\ mem[p] = disk
                             /\ \A s \in NonIdempotent : Fit(mem[p], s, acted, answered)
  BY <1>1, <1>2, <1>3, <1>4, AloneKnows DEF OnceOK
<1>5. QED BY <1>1, <1>2, <1>3, <1>4, WorksSafely

LEMMA RetrySafe == ASSUME PlanInv, NEW p \in Procs, Retry(p) PROVE SafeStep(p)
<1>1. PICK s \in RetryStep(disk) \ NonIdempotent :
        Works(p, [SetStep(disk, s, "retrying") EXCEPT !.status = "running"], "loop")
  BY DEF Retry
<1> DEFINE m == SetStep(disk, s, "retrying")
           y == [m EXCEPT !.status = "running"]
<1>2. Starts(p) /\ disk # NoPlan /\ UNCHANGED <<run, history>> /\ Works(p, y, "loop")
  BY <1>1 DEF Retry
<1>3. /\ Alone(p) /\ pc[p] \notin Running
      /\ commands' \in 0 .. MaxCommands /\ overlap' \in BOOLEAN
  BY <1>2, BeginsAlone DEF Running
<1>4. disk \in Plans /\ PlanOK(disk, done, yes)
  BY <1>2, NoPlanKnown
<1>5. /\ s \in Steps /\ s \notin NonIdempotent
      /\ disk.current # 0 => s = disk.current
  BY <1>1, <1>4 DEF RetryStep, Plans
<1>6. /\ "running" \in PlanStatuses /\ "running" \notin Waiting /\ "running" # "completed"
      /\ "retrying" \in StepStatuses
  BY DEF PlanStatuses, StepStatuses, Waiting
<1>7. Shows(m, disk.status, disk.current, [disk.step EXCEPT ![s] = "retrying"])
  BY <1>4, <1>5, <1>6, SetStepShows
<1>8. m \in Plans
  BY <1>7 DEF Shows
<1> HIDE DEF m
<1>9. Shows(y, "running", m.current, m.step)
  BY <1>6, <1>8, StatusShows
<1> HIDE DEF y
<1>10. /\ y \in Plans /\ y.status = "running" /\ y.current = disk.current
       /\ disk.step \in [Steps -> StepStatuses]
       /\ y.step = [disk.step EXCEPT ![s] = "retrying"]
  BY <1>4, <1>7, <1>9 DEF Shows, Plans
<1>11. y.step[s] = "retrying" /\ \A t \in Steps : t # s => y.step[t] = disk.step[t]
  BY <1>5, <1>10
<1>12. PlanOK(y, done, yes)
  <2>1. CASE disk.current = 0
    BY <1>4, <1>6, <1>10, <1>11, <2>1 DEF PlanOK, Frontier, Waiting
  <2>2. CASE disk.current # 0
    <3>1. yes \in [Steps -> Nat] /\ \A t \in Steps : yes[t] <= yes[t]
      BY PlanAssumption DEF PlanInv, HistoryTypes
    <3>2. s = disk.current
      BY <1>5, <2>2
    <3>3. QED BY <1>4, <1>6, <1>10, <1>11, <3>1, <3>2, EditKeeps
  <2>3. QED BY <2>1, <2>2
<1>13. ASSUME ~overlap', NEW t \in NonIdempotent PROVE Fit(y, t, acted, answered)
  <2>1. Fit(disk, t, acted, answered)
    BY <1>2, <1>3, <1>13, AloneKnows DEF OnceOK
  <2>2. t \in Steps /\ t # s
    BY <1>5, PlanAssumption
  <2>3. QED BY <1>11, <2>1, <2>2, FitKept
<1>14. QED BY <1>2, <1>3, <1>6, <1>10, <1>12, <1>13, WorksSafely

\* A step whose question was answered is the first to run when the loop begins.
LEMMA ResolvedIsFirst ==
  ASSUME PlanInv, NEW p \in Procs, pc[p] = "loop", run[p].resolved # 0
  PROVE  /\ run[p].resolved = Current(p) /\ Current(p) \in Runnable(mem[p])
         /\ Current(p) = NextStep(mem[p]) /\ mem[p].step[Current(p)] = "ready"
<1> DEFINE c == mem[p].current
<1>1. /\ RunOK(pc[p], mem[p], run[p], yes) /\ mem[p] \in Plans
      /\ PlanOK(mem[p], done, yes) /\ run[p] \in Runs
  BY NoPlanKnown
<1>2. run[p].resolved = c /\ mem[p].step[c] = "ready" /\ c # 0
  BY <1>1 DEF RunOK
<1>3. c \in Steps
  BY <1>1, <1>2 DEF Plans
<1>4. /\ \A d \in Deps[c] : mem[p].step[d] = "completed"
      /\ \A t \in Runnable(mem[p]) : c <= t
  BY <1>1, <1>2 DEF PlanOK, Frontier
<1>5. c \in Runnable(mem[p])
  BY <1>2, <1>3, <1>4 DEF Runnable
<1>6. /\ NextStep(mem[p]) \in Runnable(mem[p]) /\ NextStep(mem[p]) <= c
  BY <1>1, <1>5, NextStepIsFirst
<1>7. c = NextStep(mem[p])
  <2>1. c <= NextStep(mem[p])
    BY <1>4, <1>6
  <2>2. c \in Nat /\ NextStep(mem[p]) \in Nat
    BY <1>3, <1>6, PlanAssumption DEF Runnable
  <2>3. QED BY <1>6, <2>1, <2>2
<1>8. QED BY <1>2, <1>5, <1>7 DEF Current

\* The process ends or leaves off with a plan that is given up, or put aside.
LEMMA LeavesSafely ==
  ASSUME PlanInv, NEW p \in Procs, pc[p] # "idle", UNCHANGED <<commands, overlap>>,
         UNCHANGED history, pc[p] = "loop" => run[p].resolved = 0,
         NEW y \in Plans, y.current = mem[p].current,
         y.status \notin Waiting, y.status # "completed",
         \A s \in Steps : \/ y.step[s] = mem[p].step[s]
                          \/ mem[p].step[s] # "completed" /\ y.step[s] \in {"blocked", "cancelled"}
                          \/ s = mem[p].current /\ y.step[s] \in {"blocked", "failed"},
         Stops(p, y) \/ (Ends(p) /\ disk' = y)
  PROVE  SafeStep(p)
<1>1. mem[p] \in Plans /\ PlanOK(mem[p], done, yes)
  BY NoPlanKnown
<1>2. yes \in [Steps -> Nat] /\ \A s \in Steps : yes[s] <= yes[s]
  BY PlanAssumption DEF PlanInv, HistoryTypes
<1>3. PlanOK(y, done, yes)
  BY <1>1, <1>2, EditKeeps
<1>4. ASSUME ~overlap', NEW s \in NonIdempotent PROVE Fit(y, s, acted, answered)
  <2>1. OnceOK(pc[p], mem[p], run[p], disk, acted, answered)
    BY <1>4, GoesOnAlone, AloneKnows
  <2>2. s \in Steps /\ s # 0
    BY PlanAssumption
  <2>3. Fit(mem[p], s, acted, answered)
    BY <2>1, <2>2 DEF OnceOK
  <2>4. QED BY <2>2, <2>3, FitKept
<1>5. UNCHANGED history
  OBVIOUS
<1>6. CASE Stops(p, y)
  BY <1>3, <1>4, <1>5, <1>6, StopsSafely
<1>7. CASE Ends(p) /\ disk' = y
  BY <1>3, <1>4, <1>5, <1>7, EndsSafely
<1>8. QED BY <1>6, <1>7

LEMMA PauseSaveSafe == ASSUME PlanInv, NEW p \in Procs, PauseSave(p) PROVE SafeStep(p)
<1> DEFINE y == [mem[p] EXCEPT !.status = "paused"]
<1>1. /\ pc[p] = "pause" /\ disk' = y /\ Ends(p) /\ UNCHANGED <<commands, overlap>>
      /\ UNCHANGED history
  BY DEF PauseSave
<1>2. mem[p] \in Plans
  BY <1>1, NoPlanKnown
<1>3. "paused" \in PlanStatuses /\ "paused" \notin Waiting
  BY DEF PlanStatuses, Waiting
<1>4. Shows(y, "paused", mem[p].current, mem[p].step)
  BY <1>2, <1>3, StatusShows
<1> HIDE DEF y
<1>5. QED BY <1>1, <1>3, <1>4, LeavesSafely DEF Shows

\* What CancelSave and AnswerNo save.
LEMMA CancelsSafely ==
  ASSUME PlanInv, NEW p \in Procs, pc[p] \in {"cancel", "ask"},
         UNCHANGED <<commands, overlap>>, UNCHANGED history,
         disk' = Cancelled(mem[p]), Ends(p)
  PROVE  SafeStep(p)
<1>1. mem[p] \in Plans
  BY NoPlanKnown
<1>2. PICK f \in [Steps -> StepStatuses] :
           /\ Shows(Cancelled(mem[p]), "cancelled", mem[p].current, f)
           /\ \A s \in Steps : f[s] = mem[p].step[s] \/ f[s] = "cancelled"
           /\ \A s \in Steps : mem[p].step[s] = "completed" => f[s] = "completed"
  BY <1>1, CancelledShows
<1> DEFINE y == Cancelled(mem[p])
<1> HIDE DEF y
<1>3. disk' = y /\ Shows(y, "cancelled", mem[p].current, f)
  BY <1>2 DEF y
<1>4. "cancelled" \notin Waiting
  BY DEF Waiting
<1>5. /\ y \in Plans /\ y.current = mem[p].current /\ y.status = "cancelled"
      /\ \A s \in Steps : \/ y.step[s] = mem[p].step[s]
                          \/ mem[p].step[s] # "completed" /\ y.step[s] \in {"blocked", "cancelled"}
                          \/ s = mem[p].current /\ y.step[s] \in {"blocked", "failed"}
  BY <1>2, <1>3 DEF Shows
<1>6. UNCHANGED history
  OBVIOUS
<1>7. QED BY <1>3, <1>4, <1>5, <1>6, LeavesSafely

LEMMA CancelSaveSafe == ASSUME PlanInv, NEW p \in Procs, CancelSave(p) PROVE SafeStep(p)
  BY CancelsSafely DEF CancelSave

LEMMA AnswerNoSafe == ASSUME PlanInv, NEW p \in Procs, AnswerNo(p) PROVE SafeStep(p)
  BY CancelsSafely DEF AnswerNo

\* A run that is stopped with its plan failed.
LEMMA FailsSafely ==
  ASSUME PlanInv, NEW p \in Procs, pc[p] # "idle", UNCHANGED <<commands, overlap>>,
         UNCHANGED history, pc[p] = "loop" => run[p].resolved = 0,
         NEW partial \in BOOLEAN, Stops(p, Failed(mem[p], partial))
  PROVE  SafeStep(p)
<1> DEFINE y == Failed(mem[p], partial)
<1>1. mem[p] \in Plans
  BY NoPlanKnown
<1>2. PICK st \in {"partially_completed", "failed"} : Shows(y, st, mem[p].current, mem[p].step)
  BY <1>1, FailedShows
<1> HIDE DEF y
<1>3. st \notin Waiting /\ st # "completed"
  BY DEF Waiting
<1>4. Stops(p, y) /\ UNCHANGED history
  BY DEF y
<1>5. QED BY <1>2, <1>3, <1>4, LeavesSafely DEF Shows

LEMMA TimeLimitSafe == ASSUME PlanInv, NEW p \in Procs, TimeLimit(p) PROVE SafeStep(p)
<1>1. /\ pc[p] = "loop" /\ UNCHANGED <<commands, overlap>> /\ UNCHANGED history
      /\ run[p].begun /\ Stops(p, Failed(mem[p], FALSE))
  BY DEF TimeLimit, InRun
<1>2. run[p].resolved = 0
  BY <1>1, NoPlanKnown DEF RunOK
<1>3. QED BY <1>1, <1>2, FailsSafely

LEMMA ResolveFailsSafe == ASSUME PlanInv, NEW p \in Procs, ResolveFails(p) PROVE SafeStep(p)
  BY FailsSafely DEF ResolveFails, InRun

LEMMA NothingRunnableSafe ==
  ASSUME PlanInv, NEW p \in Procs, NothingRunnable(p) PROVE SafeStep(p)
<1> DEFINE y == Failed([mem[p] EXCEPT !.step =
                         [s \in Steps |-> IF s \in BlockedByDependency(mem[p])
                                          THEN "blocked" ELSE @[s]]], TRUE)
<1>1. /\ pc[p] = "loop" /\ UNCHANGED <<commands, overlap>> /\ UNCHANGED history
      /\ Runnable(mem[p]) = {} /\ Stops(p, y)
  BY DEF NothingRunnable, InRun
<1>2. mem[p] \in Plans /\ run[p].resolved = 0
  BY <1>1, NoPlanKnown, ResolvedIsFirst
<1>3. PICK st \in {"partially_completed", "failed"}, f \in [Steps -> StepStatuses] :
           /\ Shows(y, st, mem[p].current, f)
           /\ \A s \in Steps : \/ f[s] = mem[p].step[s]
                               \/ mem[p].step[s] = "pending" /\ f[s] = "blocked"
  BY <1>2, BlockedShows
<1> HIDE DEF y
<1>4. st \notin Waiting /\ st # "completed"
  BY DEF Waiting
<1>5. QED BY <1>1, <1>2, <1>3, <1>4, LeavesSafely DEF Shows

LEMMA StepFailsSafe == ASSUME PlanInv, NEW p \in Procs, StepFails(p) PROVE SafeStep(p)
<1>1. /\ pc[p] \in {"acted", "execute"} /\ UNCHANGED <<commands, overlap>> /\ UNCHANGED history
  BY DEF StepFails, Unsuccessful
<1> DEFINE s == mem[p].current
<1>2. PICK result \in {"blocked", "failed"},
           m \in {mem[p]} \cup {CountRecovery(mem[p], t) :
                      t \in {u \in {s} : MayRecover(mem[p], u) /\ ~AttemptsLeft(mem[p], u)}} :
        Stops(p, Failed(SetStep(m, s, result), TRUE))
  BY DEF StepFails, Current
<1>3. mem[p] \in Plans /\ s # 0
  BY <1>1, NoPlanKnown DEF RunOK
<1>4. s \in Steps
  BY <1>3 DEF Plans
<1> DEFINE y == Failed(SetStep(m, s, result), TRUE)
<1>5. PICK st \in {"partially_completed", "failed"} :
           Shows(y, st, mem[p].current, [mem[p].step EXCEPT ![s] = result])
  BY <1>2, <1>3, <1>4, StepFailedShows
<1>6. Stops(p, y)
  BY <1>2
<1> HIDE DEF y
<1>7. st \notin Waiting /\ st # "completed"
  BY DEF Waiting
<1>8. /\ y \in Plans /\ y.status = st /\ y.current = mem[p].current
      /\ mem[p].step \in [Steps -> StepStatuses]
      /\ y.step = [mem[p].step EXCEPT ![s] = result]
  BY <1>3, <1>5 DEF Shows, Plans
<1>9. \A t \in Steps : \/ y.step[t] = mem[p].step[t]
                       \/ t = mem[p].current /\ y.step[t] \in {"blocked", "failed"}
  BY <1>4, <1>8
<1>10. QED BY <1>1, <1>6, <1>7, <1>8, <1>9, LeavesSafely

LEMMA ExitSafe == ASSUME PlanInv, NEW p \in Procs, Exit(p) PROVE SafeStep(p)
<1>1. /\ pc[p] # "idle" /\ Ends(p) /\ disk' = disk
      /\ UNCHANGED <<commands, overlap>> /\ UNCHANGED history
  BY DEF Exit
<1>2. disk \in Plans /\ PlanOK(disk, done, yes)
  BY <1>1, NoPlanKnown
<1>3. ASSUME ~overlap', NEW s \in NonIdempotent PROVE Fit(disk, s, acted, answered)
  BY <1>1, <1>2, <1>3, GoesOnAlone, AloneKnows, NoPlanIsNone DEF OnceOK
<1>4. QED BY <1>1, <1>2, <1>3, EndsSafely

LEMMA ResolveAsksAgainSafe ==
  ASSUME PlanInv, NEW p \in Procs, ResolveAsksAgain(p) PROVE SafeStep(p)
<1>1. /\ pc[p] = "resolve" /\ Stops(p, mem[p])
      /\ UNCHANGED <<commands, overlap>> /\ UNCHANGED history
  BY DEF ResolveAsksAgain, InRun
<1>2. mem[p] \in Plans /\ PlanOK(mem[p], done, yes)
  BY <1>1, NoPlanKnown
<1>3. ASSUME ~overlap', NEW s \in NonIdempotent PROVE Fit(mem[p], s, acted, answered)
  BY <1>1, <1>3, GoesOnAlone, AloneKnows DEF OnceOK
<1>4. QED BY <1>1, <1>2, <1>3, StopsSafely

LEMMA AllCompletedSafe ==
  ASSUME PlanInv, NEW p \in Procs, AllCompleted(p) PROVE SafeStep(p)
<1> DEFINE st == IF mem[p].partial THEN "partially_completed" ELSE "completed"
           y == [mem[p] EXCEPT !.current = 0, !.status = st]
<1>1. /\ pc[p] = "loop" /\ UNCHANGED <<commands, overlap>> /\ UNCHANGED history
      /\ \A s \in Steps : mem[p].step[s] = "completed"
      /\ Stops(p, y)
  BY DEF AllCompleted, InRun
<1>2. mem[p] \in Plans /\ PlanOK(mem[p], done, yes)
  BY <1>1, NoPlanKnown
<1>3. Shows(y, st, 0, mem[p].step)
  BY <1>2, EndedShows
<1>4. st \notin Waiting
  BY DEF Waiting
<1> HIDE DEF y, st
<1>5. Steps \subseteq done
  BY <1>1, <1>2 DEF PlanOK
<1>6. /\ y \in Plans /\ y.current = 0 /\ y.status = st /\ y.step = mem[p].step
  BY <1>3 DEF Shows
<1>7. PlanOK(y, done, yes)
  BY <1>2, <1>4, <1>5, <1>6 DEF PlanOK, Frontier, Waiting
<1>8. ASSUME ~overlap', NEW s \in NonIdempotent PROVE Fit(y, s, acted, answered)
  BY <1>1, <1>6, <1>8, PlanAssumption DEF Fit
<1>9. QED BY <1>1, <1>6, <1>7, <1>8, StopsSafely

\* A step that acts needs the user: the plan waits at it.
LEMMA AsksSafely ==
  ASSUME PlanInv, NEW p \in Procs, pc[p] = "execute", UNCHANGED <<commands, overlap>>,
         UNCHANGED history, ~Resolved(p),
         NEW y \in Plans, NEW w \in Waiting,
         Shows(y, w, Current(p), [mem[p].step EXCEPT ![Current(p)] = w]),
         w = "waiting_for_clarification" /\ Current(p) \in NeedsYes => yes[Current(p)] > 0,
         Stops(p, y)
  PROVE  SafeStep(p)
<1> DEFINE c == Current(p)
<1>1. mem[p] \in Plans /\ PlanOK(mem[p], done, yes) /\ c # 0 /\ c = mem[p].current
  BY NoPlanKnown DEF RunOK, Current
<1>2. c \in Steps /\ mem[p].step \in [Steps -> StepStatuses]
  BY <1>1 DEF Plans
<1> HIDE DEF c
<1>3. /\ y.status = w /\ y.current = c /\ y.step[c] = w
      /\ \A s \in Steps : s # c => y.step[s] = mem[p].step[s]
  BY <1>2 DEF Shows, c
<1>4. yes \in [Steps -> Nat] /\ \A s \in Steps : yes[s] <= yes[s]
  BY PlanAssumption DEF PlanInv, HistoryTypes
<1>5. w # "completed"
  BY DEF Waiting
<1>6. PlanOK(y, done, yes)
  <2>1. \A s \in Steps : y.step[s] = "completed" => mem[p].step[s] = "completed"
    BY <1>3, <1>5
  <2>2. \A s \in Steps : s = mem[p].current \/ y.step[s] = mem[p].step[s]
    BY <1>1, <1>3
  <2>3. /\ y.current = mem[p].current /\ y.current # 0 /\ y.step[y.current] = y.status
        /\ y.status # "completed"
        /\ y.status = "waiting_for_clarification" /\ y.current \in NeedsYes => yes[y.current] > 0
    BY <1>1, <1>3, <1>5 DEF c
  <2>4. QED BY <1>1, <1>4, <2>1, <2>2, <2>3, EditKeeps
<1>7. ASSUME ~overlap', NEW s \in NonIdempotent PROVE Fit(y, s, acted, answered)
  <2>1. OnceOK(pc[p], mem[p], run[p], disk, acted, answered)
    BY <1>7, GoesOnAlone, AloneKnows
  <2>2. s \in Steps
    BY PlanAssumption
  <2>3. CASE s = c
    BY <1>1, <2>1, <2>3 DEF OnceOK, Fit, Resolved, c
  <2>4. CASE s # c
    BY <1>3, <2>1, <2>2, <2>4, FitKept DEF OnceOK
  <2>5. QED BY <2>3, <2>4
<1>8. UNCHANGED history
  OBVIOUS
<1>9. QED BY <1>6, <1>7, <1>8, StopsSafely

LEMMA NeedConfirmationSafe ==
  ASSUME PlanInv, NEW p \in Procs, NeedConfirmation(p) PROVE SafeStep(p)
<1> DEFINE c == Current(p)
           w == "waiting_for_confirmation"
           y == [SetStep(mem[p], c, w) EXCEPT !.status = w, !.confirmation = c]
<1>1. /\ pc[p] = "execute" /\ UNCHANGED <<commands, overlap>> /\ UNCHANGED history
      /\ ~Resolved(p) /\ Stops(p, y)
  BY DEF NeedConfirmation, InRun
<1>2. mem[p] \in Plans /\ c # 0 /\ c = mem[p].current
  BY <1>1, NoPlanKnown DEF RunOK, Current
<1>3. c \in Steps
  BY <1>2 DEF Plans
<1>4. Shows(y, w, c, [mem[p].step EXCEPT ![c] = w])
  BY <1>2, <1>3, AskedShows
<1>5. w \in Waiting /\ w # "waiting_for_clarification"
  BY DEF Waiting
<1> HIDE DEF y
<1>6. QED BY <1>1, <1>4, <1>5, AsksSafely DEF Shows

LEMMA NeedClarificationSafe ==
  ASSUME PlanInv, NEW p \in Procs, NeedClarification(p) PROVE SafeStep(p)
<1> DEFINE c == Current(p)
           w == "waiting_for_clarification"
           m == SetStep(mem[p], c, w)
           y == [m EXCEPT !.status = w]
<1>1. /\ pc[p] = "execute" /\ UNCHANGED <<commands, overlap>> /\ UNCHANGED history
      /\ ~MustAsk(p) /\ ~Resolved(p) /\ Stops(p, y)
  BY DEF NeedClarification, InRun
<1>2. /\ mem[p] \in Plans /\ c # 0 /\ c = mem[p].current
      /\ run[p].confirmed \in NeedsYes => yes[run[p].confirmed] > 0
  BY <1>1, NoPlanKnown DEF RunOK, Current
<1>3. c \in Steps
  BY <1>2 DEF Plans
<1>4. w \in Waiting /\ w \in PlanStatuses /\ w \in StepStatuses
  BY DEF Waiting, PlanStatuses, StepStatuses
<1>5. Shows(m, mem[p].status, c, [mem[p].step EXCEPT ![c] = w])
  BY <1>2, <1>3, <1>4, SetStepShows
<1> HIDE DEF m
<1>6. Shows(y, w, c, [mem[p].step EXCEPT ![c] = w])
  BY <1>4, <1>5, StatusShows DEF Shows
<1>7. c \in NeedsYes => yes[c] > 0
  BY <1>1, <1>2 DEF MustAsk, Confirmed
<1> HIDE DEF y
<1>8. QED BY <1>1, <1>4, <1>6, <1>7, AsksSafely DEF Shows

LEMMA FreshOK ==
  ASSUME NEW D, NEW Y, NEW pl \in Plans, pl.current = 0, pl.status \in {"ready", "running"},
         pl.step = [s \in Steps |-> "pending"]
  PROVE  PlanOK(pl, D, Y)
  BY DEF PlanOK, Frontier, Waiting

LEMMA CreateSafe == ASSUME PlanInv, NEW p \in Procs, Create(p) PROVE SafeStep(p)
<1>1. /\ Starts(p) /\ disk = NoPlan /\ disk' = Fresh /\ UNCHANGED <<mem, pc, run>>
      /\ UNCHANGED history
  BY DEF Create
<1>2. /\ Alone(p) /\ pc[p] = "idle"
      /\ commands' \in 0 .. MaxCommands /\ overlap' \in BOOLEAN
  BY <1>1, BeginsAlone
<1>3. mem[p] = NoPlan /\ run[p] \in Runs /\ RunOK("idle", NoPlan, run[p], yes)
  BY <1>2, NoPlanKnown
<1>4. /\ Fresh \in Plans /\ Fresh.current = 0 /\ Fresh.status = "ready"
      /\ Fresh.step = [s \in Steps |-> "pending"]
  BY FreshShows DEF Shows
<1>5. PlanOK(Fresh, done, yes)
  BY <1>4, FreshOK
<1>6. /\ pc' = [pc EXCEPT ![p] = "idle"] /\ mem' = [mem EXCEPT ![p] = NoPlan]
      /\ run' = [run EXCEPT ![p] = run[p]]
  BY <1>1, <1>2, <1>3 DEF PlanInv, ProcsOK
<1>7. \A s \in NeedsYes : ~HasYes(s, "idle", NoPlan, run[p])
  BY DEF HasYes, Running
<1>8. ASSUME ~overlap' PROVE OnceOK("idle", NoPlan, run[p], Fresh, acted, answered)
  <2>1. OnceOK(pc[p], mem[p], run[p], disk, acted, answered)
    BY <1>2, <1>8, AloneKnows
  <2>2. \A s \in NonIdempotent : acted[s] = 0 /\ s \notin answered
    BY <1>1, <2>1 DEF OnceOK
  <2>3. QED BY <2>2 DEF OnceOK, Fit
<1>9. "idle" \in Labels /\ NoPlan \in Plans \cup {NoPlan}
  BY DEF Labels
<1>10. QED BY <1>1, <1>2, <1>3, <1>4, <1>5, <1>6, <1>7, <1>8, <1>9, QuietIsSafe

LEMMA ExecuteSafe ==
  ASSUME PlanInv, NEW p \in Procs, NEW dry \in BOOLEAN, Execute(p, dry) PROVE SafeStep(p)
<1> DEFINE r == [NoRun EXCEPT !.dry = dry, !.prompts = ~dry]
           y == [Fresh EXCEPT !.status = "running"]
<1>1. /\ Starts(p) /\ disk = NoPlan /\ disk' = Fresh /\ UNCHANGED history
      /\ pc' = [pc EXCEPT ![p] = "loop"] /\ mem' = [mem EXCEPT ![p] = y]
      /\ run' = [run EXCEPT ![p] = r]
  BY DEF Execute, Goto
<1>2. /\ Alone(p) /\ pc[p] = "idle"
      /\ commands' \in 0 .. MaxCommands /\ overlap' \in BOOLEAN
  BY <1>1, BeginsAlone
<1>3. /\ Fresh \in Plans /\ Fresh.current = 0 /\ Fresh.status = "ready"
      /\ Fresh.step = [s \in Steps |-> "pending"]
      /\ y \in Plans /\ y.current = 0 /\ y.status = "running"
      /\ y.step = [s \in Steps |-> "pending"]
  BY FreshShows DEF Shows
<1> HIDE DEF y
<1>4. PlanOK(Fresh, done, yes) /\ PlanOK(y, done, yes) /\ y # NoPlan
  BY <1>3, FreshOK, NoPlanIsNone
<1>5. r \in Runs /\ r.confirmed = 0 /\ r.resolved = 0
  <2>1. NoRun \in Runs /\ NoRun.confirmed = 0 /\ NoRun.resolved = 0
    BY NoRunIsRun
  <2>2. \A b \in BOOLEAN, x \in Runs :
          LET q == [x EXCEPT !.dry = dry, !.prompts = b]
          IN q \in Runs /\ q.confirmed = x.confirmed /\ q.resolved = x.resolved
    BY DEF Runs
  <2>3. QED BY <2>1, <2>2
<1> HIDE DEF r
<1>6. RunOK("loop", y, r, yes)
  BY <1>3, <1>5, PlanAssumption DEF RunOK, Running, Waiting
<1>7. \A s \in NeedsYes : ~HasYes(s, "loop", y, r)
  BY <1>5, PlanAssumption DEF HasYes
<1>8. ASSUME ~overlap' PROVE OnceOK("loop", y, r, Fresh, acted, answered)
  <2>1. OnceOK(pc[p], mem[p], run[p], disk, acted, answered)
    BY <1>2, <1>8, AloneKnows
  <2>2. \A s \in NonIdempotent : acted[s] = 0 /\ s \notin answered
    BY <1>1, <2>1 DEF OnceOK
  <2>3. QED BY <2>2 DEF OnceOK, Fit
<1>9. "loop" \in Labels
  BY DEF Labels
<1>10. QED BY <1>1, <1>2, <1>3, <1>4, <1>5, <1>6, <1>7, <1>8, <1>9, QuietIsSafe
-----------------------------------------------------------------------------
(* The actions that say yes, begin, act, complete, recover and answer.     *)

\* The user says yes to the step that plan pl waits at.
LEMMA ConfirmsSafely ==
  ASSUME PlanInv, NEW p \in Procs, Alone(p),
         commands' \in 0 .. MaxCommands, overlap' \in BOOLEAN,
         pc[p] \notin Running, disk # NoPlan,
         NEW pl \in Plans, PlanOK(pl, done, yes), Confirms(p, pl),
         ~overlap' => \A s \in NonIdempotent : Fit(pl, s, acted, answered)
  PROVE  SafeStep(p)
<1> DEFINE c == pl.current
           y == [pl EXCEPT !.confirmation = 0, !.status = "running",
                           !.step[pl.current] = "ready"]
           r == [run[p] EXCEPT !.confirmed = c]
<1>1. /\ pl.status = "waiting_for_confirmation" /\ c # 0 /\ yes[c] < MaxYes
      /\ pc' = [pc EXCEPT ![p] = "loop"] /\ mem' = [mem EXCEPT ![p] = y] /\ disk' = disk
      /\ run' = [run EXCEPT ![p].confirmed = c]
      /\ yes' = [yes EXCEPT ![c] = @ + 1]
      /\ UNCHANGED <<acted, answered, done>>
  BY DEF Confirms, Works, Goto
<1>2. /\ run[p] \in Runs /\ RunOK(pc[p], mem[p], run[p], yes)
      /\ disk \in Plans /\ PlanOK(disk, done, yes)
  BY NoPlanKnown
<1>3. c \in Steps /\ pl.step \in [Steps -> StepStatuses] /\ pl.step[c] = "waiting_for_confirmation"
  BY <1>1 DEF Plans, PlanOK, Waiting
<1>4. Shows(y, "running", c, [pl.step EXCEPT ![c] = "ready"])
  BY <1>3, ConfirmedShows
<1>5. /\ run' = [run EXCEPT ![p] = r] /\ r \in Runs /\ r.confirmed = c /\ r.resolved = 0
      /\ r.begun = FALSE
  BY <1>1, <1>2, <1>3 DEF RunOK, Runs
<1> HIDE DEF y, r, c
<1>6. /\ y \in Plans /\ y.current = c /\ y.status = "running" /\ y.step[c] = "ready"
      /\ \A s \in Steps : s # c => y.step[s] = pl.step[s]
  BY <1>3, <1>4 DEF Shows
<1>7. /\ yes \in [Steps -> 0 .. MaxYes] /\ yes \in [Steps -> Nat] /\ yes[c] \in Nat
  BY <1>3, PlanAssumption DEF PlanInv, HistoryTypes
<1>8. yes[c] + 1 \in 0 .. MaxYes /\ yes[c] + 1 \in Nat
  BY <1>1, <1>7, PlanAssumption
<1>9. /\ yes' \in [Steps -> 0 .. MaxYes] /\ yes' \in [Steps -> Nat]
      /\ yes'[c] = yes[c] + 1 /\ \A s \in Steps : s # c => yes'[s] = yes[s]
  BY <1>1, <1>3, <1>7, <1>8
<1>10. \A s \in Steps : yes[s] <= yes'[s]
  BY <1>3, <1>7, <1>9
<1>11. HistoryTypes' /\ done \subseteq done'
  BY <1>1, <1>9 DEF PlanInv, HistoryTypes
<1>12. PlanOK(disk, done', yes')
  BY <1>2, <1>7, <1>9, <1>10, <1>11, GrowthKeeps
<1>13. PlanOK(y, done', yes')
  <2>1. \A s \in Steps : s = pl.current \/ y.step[s] = pl.step[s]
    BY <1>6 DEF c
  <2>2. \A s \in Steps : y.step[s] = "completed" => pl.step[s] = "completed"
    BY <1>6
  <2>3. y.current = pl.current /\ y.status \notin Waiting /\ y.status # "completed"
    BY <1>6 DEF c, Waiting
  <2>4. QED BY <1>6, <1>7, <1>9, <1>10, <1>11, <2>1, <2>2, <2>3, EditKeeps
<1>14. RunOK("loop", y, r, yes')
  <2>1. c \in Steps /\ yes'[c] > 0
    BY <1>3, <1>7, <1>9
  <2>2. QED BY <1>5, <1>6, <2>1 DEF RunOK, Running, Waiting
<1>15. "loop" \in Labels /\ y # NoPlan
  BY <1>6, NoPlanIsNone DEF Labels
<1>16. ProcOK("loop", y, r, done', yes')
  BY <1>5, <1>6, <1>13, <1>14, <1>15 DEF ProcOK
<1>17. ASSUME NEW s \in NeedsYes
       PROVE  YesStep(p, s, "loop", y, r) /\ (s \in answered' => yes'[s] > 0)
  <2>1. s \in Steps /\ yes[s] \in Nat
    BY <1>7, PlanAssumption
  <2>2. s \in answered => yes[s] > 0
    BY DEF PlanInv, YesInv
  <2>3. CASE s = c
    BY <1>1, <1>7, <1>9, <2>3 DEF YesStep
  <2>4. CASE s # c
    BY <1>1, <1>5, <1>9, <2>1, <2>2, <2>4 DEF YesStep, HasYes
  <2>5. QED BY <2>3, <2>4
<1>18. ASSUME ~overlap' PROVE OnceOK("loop", y, r, disk, acted', answered')
  <2>1. OnceOK(pc[p], mem[p], run[p], disk, acted, answered)
    BY <1>18, AloneKnows
  <2>2. ASSUME NEW s \in NonIdempotent PROVE Fit(y, s, acted, answered)
    <3>1. Fit(pl, s, acted, answered) /\ s \in Steps
      BY <1>18, PlanAssumption
    <3>2. CASE s = c
      BY <1>3, <3>1, <3>2 DEF Fit
    <3>3. CASE s # c
      BY <1>6, <3>1, <3>3, FitKept
    <3>4. QED BY <3>2, <3>3
  <2>3. QED BY <1>1, <2>1, <2>2 DEF OnceOK
<1>19. Safe(p, "loop", y, r, disk)
  BY <1>1, <1>2, <1>5, <1>10, <1>11, <1>12, <1>16, <1>17, <1>18 DEF Safe
<1>20. QED BY <1>2, <1>5, <1>6, <1>15, <1>19 DEF SafeStep

LEMMA ResumeYesSafe == ASSUME PlanInv, NEW p \in Procs, ResumeYes(p) PROVE SafeStep(p)
<1>1. Starts(p) /\ Confirms(p, disk)
  BY DEF ResumeYes
<1>2. /\ Alone(p) /\ pc[p] \notin Running
      /\ commands' \in 0 .. MaxCommands /\ overlap' \in BOOLEAN
  BY <1>1, BeginsAlone DEF Running
<1>3. disk # NoPlan /\ disk \in Plans /\ PlanOK(disk, done, yes)
  BY <1>1, NoPlanKnown DEF Confirms
<1>4. ASSUME ~overlap', NEW s \in NonIdempotent PROVE Fit(disk, s, acted, answered)
  BY <1>2, <1>3, <1>4, AloneKnows DEF OnceOK
<1>5. QED BY <1>1, <1>2, <1>3, <1>4, ConfirmsSafely

LEMMA AnswerYesSafe == ASSUME PlanInv, NEW p \in Procs, AnswerYes(p) PROVE SafeStep(p)
<1>1. pc[p] = "ask" /\ Confirms(p, mem[p]) /\ UNCHANGED <<commands, overlap>>
  BY DEF AnswerYes
<1>2. /\ Alone(p) /\ pc[p] \notin Running
      /\ commands' \in 0 .. MaxCommands /\ overlap' \in BOOLEAN
  BY <1>1, GoesOnAlone DEF Running
<1>3. disk # NoPlan /\ mem[p] \in Plans /\ PlanOK(mem[p], done, yes)
  BY <1>1, NoPlanKnown
<1>4. ASSUME ~overlap', NEW s \in NonIdempotent PROVE Fit(mem[p], s, acted, answered)
  BY <1>1, <1>2, <1>4, AloneKnows DEF OnceOK
<1>5. QED BY <1>1, <1>2, <1>3, <1>4, ConfirmsSafely

\* What BeginStep saves, and what it leaves in the process.
LEMMA BeginStepForm ==
  ASSUME PlanInv, NEW p \in Procs, BeginStep(p)
  PROVE  \E s \in Runnable(mem[p]), y \in Plans, r \in Runs :
           /\ s = NextStep(mem[p]) /\ s \in Steps /\ pc[p] = "loop"
           /\ Shows(y, mem[p].status, s, [mem[p].step EXCEPT ![s] = "running"])
           /\ y.recoveries = mem[p].recoveries
           /\ r.confirmed = run[p].confirmed /\ r.resolved = run[p].resolved
           /\ pc' = [pc EXCEPT ![p] = "execute"] /\ mem' = [mem EXCEPT ![p] = y]
           /\ run' = [run EXCEPT ![p] = r] /\ disk' = y
           /\ UNCHANGED <<commands, overlap>> /\ UNCHANGED history
<1> DEFINE s == NextStep(mem[p])
           y == [SetStep(mem[p], s, "running") EXCEPT
                   !.current = s, !.attempts[s] = Smaller(@ + 1, MaxAttempts[s] + 1)]
           r == [run[p] EXCEPT !.begun = TRUE]
<1>1. /\ pc[p] = "loop" /\ Runnable(mem[p]) # {}
      /\ pc' = [pc EXCEPT ![p] = "execute"] /\ mem' = [mem EXCEPT ![p] = y] /\ disk' = y
      /\ run' = [run EXCEPT ![p].begun = TRUE]
      /\ UNCHANGED <<commands, overlap>> /\ UNCHANGED history
  BY DEF BeginStep, InRun, Save, Goto
<1>2. mem[p] \in Plans /\ run[p] \in Runs
  BY <1>1, NoPlanKnown
<1>3. s \in Runnable(mem[p]) /\ s \in Steps
  BY <1>1, <1>2, NextStepIsFirst DEF Runnable
<1>4. /\ Shows(y, mem[p].status, s, [mem[p].step EXCEPT ![s] = "running"])
      /\ y.recoveries = mem[p].recoveries
  BY <1>2, <1>3, BegunShows
<1>5. /\ run' = [run EXCEPT ![p] = r] /\ r \in Runs
      /\ r.confirmed = run[p].confirmed /\ r.resolved = run[p].resolved
  BY <1>1, <1>2 DEF Runs
<1>6. y \in Plans
  BY <1>4 DEF Shows
<1>7. s = NextStep(mem[p])
  OBVIOUS
<1> HIDE DEF s, y, r
<1>8. QED BY <1>1, <1>3, <1>4, <1>5, <1>6, <1>7

LEMMA BeginStepSafe == ASSUME PlanInv, NEW p \in Procs, BeginStep(p) PROVE SafeStep(p)
<1>1. PICK s \in Runnable(mem[p]), y \in Plans, r \in Runs :
           /\ s = NextStep(mem[p]) /\ s \in Steps /\ pc[p] = "loop"
           /\ Shows(y, mem[p].status, s, [mem[p].step EXCEPT ![s] = "running"])
           /\ y.recoveries = mem[p].recoveries
           /\ r.confirmed = run[p].confirmed /\ r.resolved = run[p].resolved
           /\ pc' = [pc EXCEPT ![p] = "execute"] /\ mem' = [mem EXCEPT ![p] = y]
           /\ run' = [run EXCEPT ![p] = r] /\ disk' = y
           /\ UNCHANGED <<commands, overlap>> /\ UNCHANGED history
  BY BeginStepForm
<1>2. /\ mem[p] \in Plans /\ PlanOK(mem[p], done, yes) /\ mem[p].status \notin Waiting
      /\ RunOK("loop", mem[p], run[p], yes)
  BY <1>1, NoPlanKnown DEF RunOK, Running
<1>3. /\ y.current = s /\ y.status = mem[p].status
      /\ mem[p].step \in [Steps -> StepStatuses]
      /\ y.step = [mem[p].step EXCEPT ![s] = "running"]
  BY <1>1, <1>2 DEF Shows, Plans
<1>4. y.step[s] = "running" /\ \A t \in Steps : t # s => y.step[t] = mem[p].step[t]
  BY <1>1, <1>3
<1>5. PlanOK(y, done, yes) /\ y # NoPlan
  BY <1>1, <1>2, BeginKeeps, NoPlanIsNone
<1>6. s # 0 /\ mem[p].step[s] \in {"pending", "ready", "retrying"}
  BY <1>1, PlanAssumption DEF Runnable
<1>7. run[p].resolved # 0 => run[p].resolved = s
  BY <1>1, ResolvedIsFirst
<1>8. RunOK("execute", y, r, yes)
  BY <1>1, <1>2, <1>3, <1>4, <1>6, <1>7 DEF RunOK, Running
<1>9. ASSUME NEW t \in NeedsYes, HasYes(t, "execute", y, r)
      PROVE  HasYes(t, pc[p], mem[p], run[p])
  <2>1. t \in Steps
    BY PlanAssumption
  <2>2. mem[p].step[t] # "completed"
    BY <1>4, <1>6, <1>9, <2>1 DEF HasYes
  <2>3. QED BY <1>1, <1>9, <2>2 DEF HasYes, Running
<1>10. /\ Alone(p) /\ commands' \in 0 .. MaxCommands /\ overlap' \in BOOLEAN
  BY <1>1, GoesOnAlone
<1>11. ASSUME ~overlap' PROVE OnceOK("execute", y, r, y, acted, answered)
  <2>1. OnceOK("loop", mem[p], run[p], disk, acted, answered)
    BY <1>1, <1>10, <1>11, AloneKnows
  <2>2. ASSUME NEW t \in NonIdempotent
        PROVE  /\ acted[t] = 0 \/ (acted[t] = 1 /\ t \notin answered)
               /\ Fit(y, t, acted, answered)
               /\ y.current = t => acted[t] = 0 /\ (t \in answered => r.resolved = t)
    <3>1. /\ acted[t] = 0 \/ (acted[t] = 1 /\ t \notin answered)
          /\ Fit(mem[p], t, acted, answered) \/ (run[p].resolved = t /\ acted[t] = 0)
      BY <2>1 DEF OnceOK
    <3>2. t \in Steps /\ t # 0
      BY PlanAssumption
    <3>3. CASE t = s
      BY <1>1, <1>4, <1>6, <3>1, <3>3 DEF Fit
    <3>4. CASE t # s
      BY <1>3, <1>4, <1>7, <3>1, <3>2, <3>4, FitKept
    <3>5. QED BY <3>3, <3>4
  <2>3. QED BY <1>5, <2>2 DEF OnceOK
<1>12. "execute" \in Labels
  BY DEF Labels
<1>13. QED BY <1>1, <1>5, <1>8, <1>9, <1>10, <1>11, <1>12, QuietIsSafe

LEMMA ActSafe == ASSUME PlanInv, NEW p \in Procs, Act(p) PROVE SafeStep(p)
<1> DEFINE c == Current(p)
<1>1. /\ pc[p] = "execute" /\ UNCHANGED <<commands, overlap>>
      /\ ~MustAsk(p) /\ ~Resolved(p)
      /\ acted' = [acted EXCEPT ![c] = Smaller(@ + 1, 3)]
      /\ pc' = [pc EXCEPT ![p] = "acted"]
      /\ UNCHANGED <<disk, mem, run, answered, done, yes>>
  BY DEF Act, InRun, Goto
<1>2. /\ mem[p] \in Plans /\ PlanOK(mem[p], done, yes) /\ run[p] \in Runs
      /\ RunOK("execute", mem[p], run[p], yes)
      /\ disk \in Plans /\ PlanOK(disk, done, yes)
  BY <1>1, NoPlanKnown
<1>3. c = mem[p].current /\ c # 0 /\ c \in Steps /\ mem[p].step[c] = "running"
  BY <1>2 DEF RunOK, Current, Plans
<1>4. run[p].resolved = 0
  BY <1>1, <1>2 DEF RunOK, Resolved, Current
<1> HIDE DEF c
<1>5. /\ acted \in [Steps -> 0 .. 3] /\ acted[c] \in 0 .. 3
      /\ Smaller(acted[c] + 1, 3) \in 0 .. 3 /\ Smaller(acted[c] + 1, 3) <= acted[c] + 1
      /\ acted[c] = 0 => Smaller(acted[c] + 1, 3) = 1
  BY <1>3 DEF PlanInv, HistoryTypes, Smaller
<1>6. /\ acted' \in [Steps -> 0 .. 3] /\ acted'[c] <= acted[c] + 1
      /\ acted[c] = 0 => acted'[c] = 1
      /\ \A s \in Steps : s # c => acted'[s] = acted[s]
  BY <1>1, <1>3, <1>5
<1>7. HistoryTypes' /\ done \subseteq done' /\ \A s \in Steps : yes[s] <= yes'[s]
  BY <1>1, <1>6, PlanAssumption DEF PlanInv, HistoryTypes
<1>8. RunOK("acted", mem[p], run[p], yes)
  BY <1>2, <1>4 DEF RunOK, Running
<1>9. mem[p] # NoPlan /\ "acted" \in Labels
  BY <1>2, NoPlanIsNone DEF Labels
<1>10. PlanOK(disk, done', yes') /\ ProcOK("acted", mem[p], run[p], done', yes')
  BY <1>1, <1>2, <1>8, <1>9 DEF ProcOK
<1>11. ASSUME NEW s \in NeedsYes
       PROVE  YesStep(p, s, "acted", mem[p], run[p]) /\ (s \in answered' => yes'[s] > 0)
  <2>1. s \in Steps /\ (s \in answered => yes[s] > 0)
    BY PlanAssumption DEF PlanInv, YesInv
  <2>2. CASE s = c
    <3>1. run[p].confirmed = c
      BY <1>1, <2>2 DEF MustAsk, Confirmed, c
    <3>2. HasYes(s, pc[p], mem[p], run[p]) /\ ~HasYes(s, "acted", mem[p], run[p])
      BY <1>1, <1>3, <2>2, <3>1 DEF HasYes, Running
    <3>3. QED BY <1>1, <1>6, <2>1, <2>2, <3>2 DEF YesStep
  <2>3. CASE s # c
    <3>1. HasYes(s, "acted", mem[p], run[p]) => HasYes(s, pc[p], mem[p], run[p])
      BY <1>1 DEF HasYes, Running
    <3>2. QED BY <1>1, <1>6, <2>1, <2>3, <3>1 DEF YesStep
  <2>4. QED BY <2>2, <2>3
<1>12. Alone(p)
  BY <1>1, GoesOnAlone
<1>13. ASSUME ~overlap' PROVE OnceOK("acted", mem[p], run[p], disk, acted', answered')
  <2>1. OnceOK("execute", mem[p], run[p], disk, acted, answered)
    BY <1>1, <1>12, <1>13, AloneKnows
  <2>2. ASSUME NEW s \in NonIdempotent
        PROVE  /\ acted'[s] = 0 \/ (acted'[s] = 1 /\ s \notin answered)
               /\ Fit(mem[p], s, acted', answered)
    <3>1. s \in Steps
      BY PlanAssumption
    <3>2. CASE s = c
      <4>1. acted[c] = 0 /\ c \notin answered
        BY <1>3, <1>4, <2>1, <3>2 DEF OnceOK
      <4>2. QED BY <1>3, <1>6, <3>2, <4>1 DEF Fit
    <3>3. CASE s # c
      BY <1>6, <2>1, <3>1, <3>3 DEF OnceOK, Fit
    <3>4. QED BY <3>2, <3>3
  <2>3. disk = mem[p]
    BY <2>1 DEF OnceOK
  <2>4. QED BY <1>1, <1>9, <2>2, <2>3 DEF OnceOK
<1>14. /\ pc' = [pc EXCEPT ![p] = "acted"] /\ mem' = [mem EXCEPT ![p] = mem[p]]
       /\ run' = [run EXCEPT ![p] = run[p]] /\ disk' = disk
  BY <1>1 DEF PlanInv, ProcsOK
<1>15. Safe(p, "acted", mem[p], run[p], disk)
  BY <1>2, <1>7, <1>10, <1>11, <1>12, <1>13, <1>14 DEF Safe
<1>16. QED BY <1>2, <1>9, <1>15 DEF SafeStep

\* What Completes saves.
LEMMA CompletesForm ==
  ASSUME PlanInv, NEW p \in Procs, NEW partial \in BOOLEAN, Completes(p, partial)
  PROVE  \E y \in Plans, r \in Runs :
           /\ pc[p] \in {"acted", "execute"} /\ Current(p) \in Steps
           /\ Shows(y, mem[p].status, Current(p), [mem[p].step EXCEPT ![Current(p)] = "completed"])
           /\ y.recoveries = mem[p].recoveries
           /\ r.confirmed = run[p].confirmed /\ r.resolved = 0
           /\ pc' = [pc EXCEPT ![p] = "loop"] /\ mem' = [mem EXCEPT ![p] = y]
           /\ run' = [run EXCEPT ![p] = r] /\ disk' = y
           /\ done' = done \cup {Current(p)}
           /\ UNCHANGED <<commands, overlap>> /\ UNCHANGED <<acted, answered, yes>>
<1> DEFINE c == Current(p)
           y == [SetStep(mem[p], c, "completed") EXCEPT !.partial = @ \/ partial]
           r == [run[p] EXCEPT !.resolved = 0]
<1>1. /\ pc[p] \in {"acted", "execute"}
      /\ pc' = [pc EXCEPT ![p] = "loop"] /\ mem' = [mem EXCEPT ![p] = y] /\ disk' = y
      /\ run' = [run EXCEPT ![p].resolved = 0] /\ done' = done \cup {c}
      /\ UNCHANGED <<commands, overlap>> /\ UNCHANGED <<acted, answered, yes>>
  BY DEF Completes, HasResult, Save, Goto
<1>2. mem[p] \in Plans /\ run[p] \in Runs /\ c = mem[p].current /\ c # 0
  BY <1>1, NoPlanKnown DEF RunOK, Current
<1>3. c \in Steps
  BY <1>2 DEF Plans
<1>4. /\ Shows(y, mem[p].status, c, [mem[p].step EXCEPT ![c] = "completed"])
      /\ y.recoveries = mem[p].recoveries
  BY <1>2, <1>3, CompletedShows
<1>5. /\ run' = [run EXCEPT ![p] = r] /\ r \in Runs
      /\ r.confirmed = run[p].confirmed /\ r.resolved = 0
  BY <1>1, <1>2 DEF Runs
<1>6. y \in Plans
  BY <1>4 DEF Shows
<1> HIDE DEF y, r
<1>7. QED BY <1>1, <1>3, <1>4, <1>5, <1>6

LEMMA CompletesSafe ==
  ASSUME PlanInv, NEW p \in Procs, NEW partial \in BOOLEAN, Completes(p, partial)
  PROVE  SafeStep(p)
<1>1. PICK y \in Plans, r \in Runs :
           /\ pc[p] \in {"acted", "execute"} /\ Current(p) \in Steps
           /\ Shows(y, mem[p].status, Current(p), [mem[p].step EXCEPT ![Current(p)] = "completed"])
           /\ y.recoveries = mem[p].recoveries
           /\ r.confirmed = run[p].confirmed /\ r.resolved = 0
           /\ pc' = [pc EXCEPT ![p] = "loop"] /\ mem' = [mem EXCEPT ![p] = y]
           /\ run' = [run EXCEPT ![p] = r] /\ disk' = y
           /\ done' = done \cup {Current(p)}
           /\ UNCHANGED <<commands, overlap>> /\ UNCHANGED <<acted, answered, yes>>
  BY CompletesForm
<1> DEFINE c == Current(p)
<1>2. /\ mem[p] \in Plans /\ PlanOK(mem[p], done, yes) /\ c = mem[p].current
      /\ RunOK(pc[p], mem[p], run[p], yes) /\ mem[p].status \notin Waiting
  BY <1>1, NoPlanKnown DEF RunOK, Running, Current
<1> HIDE DEF c
<1>3. /\ c \in Steps /\ y.current = c /\ y.status = mem[p].status
      /\ mem[p].step \in [Steps -> StepStatuses]
      /\ y.step = [mem[p].step EXCEPT ![c] = "completed"]
  BY <1>1, <1>2 DEF Shows, Plans, c
<1>4. y.step[c] = "completed" /\ \A t \in Steps : t # c => y.step[t] = mem[p].step[t]
  BY <1>3
<1>5. /\ done \subseteq done' /\ c \in done'
      /\ yes \in [Steps -> Nat] /\ yes' \in [Steps -> Nat] /\ \A s \in Steps : yes[s] <= yes'[s]
  BY <1>1, PlanAssumption DEF PlanInv, HistoryTypes, c
<1>6. HistoryTypes'
  BY <1>1, <1>3 DEF PlanInv, HistoryTypes, c
<1>7. PlanOK(y, done', yes')
  <2>1. \A s \in Steps : s = mem[p].current \/ y.step[s] = mem[p].step[s]
    BY <1>2, <1>4
  <2>2. \A s \in Steps : y.step[s] = "completed" => mem[p].step[s] = "completed" \/ s \in done'
    BY <1>4, <1>5
  <2>3. y.current = mem[p].current /\ y.status \notin Waiting
    BY <1>2, <1>3
  <2>4. y.status = "completed" => Steps \subseteq done'
    BY <1>2, <1>3, <1>5 DEF PlanOK
  <2>5. QED BY <1>2, <1>5, <2>1, <2>2, <2>3, <2>4, EditKeeps
<1>8. y # NoPlan /\ "loop" \in Labels
  BY NoPlanIsNone DEF Labels
<1>9. RunOK("loop", y, r, yes')
  BY <1>1, <1>2, <1>3 DEF RunOK, Running
<1>10. ProcOK("loop", y, r, done', yes')
  BY <1>7, <1>8, <1>9 DEF ProcOK
<1>11. ASSUME NEW s \in NeedsYes
       PROVE  YesStep(p, s, "loop", y, r) /\ (s \in answered' => yes'[s] > 0)
  <2>1. s \in Steps /\ (s \in answered => yes[s] > 0)
    BY PlanAssumption DEF PlanInv, YesInv
  <2>2. ASSUME HasYes(s, "loop", y, r) PROVE HasYes(s, pc[p], mem[p], run[p])
    <3>1. s # c /\ mem[p].step[s] # "completed"
      BY <1>4, <2>1, <2>2 DEF HasYes
    <3>2. QED BY <1>1, <1>2, <2>2, <3>1 DEF HasYes, Running
  <2>3. QED BY <1>1, <2>1, <2>2 DEF YesStep
<1>12. Alone(p)
  BY <1>1, GoesOnAlone
<1>13. ASSUME ~overlap' PROVE OnceOK("loop", y, r, y, acted', answered')
  <2>1. OnceOK(pc[p], mem[p], run[p], disk, acted, answered)
    BY <1>12, <1>13, AloneKnows
  <2>2. ASSUME NEW s \in NonIdempotent PROVE Fit(y, s, acted, answered)
    <3>1. s \in Steps /\ Fit(mem[p], s, acted, answered)
      BY <1>1, <2>1, PlanAssumption DEF OnceOK
    <3>2. QED BY <1>4, <3>1, FitKept
  <2>3. QED BY <1>1, <1>8, <2>1, <2>2 DEF OnceOK
<1>14. Safe(p, "loop", y, r, y)
  BY <1>1, <1>5, <1>6, <1>7, <1>10, <1>11, <1>12, <1>13 DEF Safe
<1>15. QED BY <1>8, <1>14 DEF SafeStep

\* What Recover saves.
LEMMA RecoverForm ==
  ASSUME PlanInv, NEW p \in Procs, Recover(p)
  PROVE  \E y \in Plans, r \in Runs :
           /\ pc[p] \in {"acted", "execute"} /\ Current(p) \in Steps \ NonIdempotent
           /\ Shows(y, "recovering", Current(p), [mem[p].step EXCEPT ![Current(p)] = "retrying"])
           /\ y.recoveries = mem[p].recoveries + 1
           /\ r.confirmed = run[p].confirmed /\ r.resolved = 0
           /\ pc' = [pc EXCEPT ![p] = "loop"] /\ mem' = [mem EXCEPT ![p] = y]
           /\ run' = [run EXCEPT ![p] = r] /\ disk' = y
           /\ UNCHANGED <<commands, overlap>> /\ UNCHANGED history
<1> DEFINE c == Current(p)
           y == [SetStep(CountRecovery(mem[p], c), c, "retrying") EXCEPT
                   !.status = "recovering", !.recovered[c] = @ + 1]
           r == [run[p] EXCEPT !.resolved = 0]
<1>1. /\ pc[p] \in {"acted", "execute"} /\ MayRecover(mem[p], c)
      /\ pc' = [pc EXCEPT ![p] = "loop"] /\ mem' = [mem EXCEPT ![p] = y] /\ disk' = y
      /\ run' = [run EXCEPT ![p].resolved = 0]
      /\ UNCHANGED <<commands, overlap>> /\ UNCHANGED history
  BY DEF Recover, Unsuccessful, Save, Goto
<1>2. mem[p] \in Plans /\ run[p] \in Runs /\ c = mem[p].current /\ c # 0
  BY <1>1, NoPlanKnown DEF RunOK, Current
<1>3. c \in Steps \ NonIdempotent
  BY <1>1, <1>2 DEF Plans, MayRecover
<1>4. /\ Shows(y, "recovering", c, [mem[p].step EXCEPT ![c] = "retrying"])
      /\ y.recoveries = mem[p].recoveries + 1
  BY <1>1, <1>2, <1>3, RecoveredShows
<1>5. /\ run' = [run EXCEPT ![p] = r] /\ r \in Runs
      /\ r.confirmed = run[p].confirmed /\ r.resolved = 0
  BY <1>1, <1>2 DEF Runs
<1>6. y \in Plans
  BY <1>4 DEF Shows
<1> HIDE DEF y, r
<1>7. QED BY <1>1, <1>3, <1>4, <1>5, <1>6

LEMMA RecoverSafe == ASSUME PlanInv, NEW p \in Procs, Recover(p) PROVE SafeStep(p)
<1>1. PICK y \in Plans, r \in Runs :
           /\ pc[p] \in {"acted", "execute"} /\ Current(p) \in Steps \ NonIdempotent
           /\ Shows(y, "recovering", Current(p), [mem[p].step EXCEPT ![Current(p)] = "retrying"])
           /\ y.recoveries = mem[p].recoveries + 1
           /\ r.confirmed = run[p].confirmed /\ r.resolved = 0
           /\ pc' = [pc EXCEPT ![p] = "loop"] /\ mem' = [mem EXCEPT ![p] = y]
           /\ run' = [run EXCEPT ![p] = r] /\ disk' = y
           /\ UNCHANGED <<commands, overlap>> /\ UNCHANGED history
  BY RecoverForm
<1> DEFINE c == Current(p)
<1>2. /\ mem[p] \in Plans /\ PlanOK(mem[p], done, yes) /\ c = mem[p].current
      /\ RunOK(pc[p], mem[p], run[p], yes)
  BY <1>1, NoPlanKnown DEF Current
<1> HIDE DEF c
<1>3. /\ c \in Steps /\ c \notin NonIdempotent /\ y.current = c /\ y.status = "recovering"
      /\ mem[p].step \in [Steps -> StepStatuses]
      /\ y.step = [mem[p].step EXCEPT ![c] = "retrying"]
  BY <1>1, <1>2 DEF Shows, Plans, c
<1>4. y.step[c] = "retrying" /\ \A t \in Steps : t # c => y.step[t] = mem[p].step[t]
  BY <1>3
<1>5. yes \in [Steps -> Nat] /\ \A s \in Steps : yes[s] <= yes[s]
  BY PlanAssumption DEF PlanInv, HistoryTypes
<1>6. y.status \notin Waiting /\ y.status # "completed" /\ y # NoPlan /\ "loop" \in Labels
  BY <1>3, NoPlanIsNone DEF Waiting, Labels
<1>7. PlanOK(y, done, yes)
  <2>1. \A s \in Steps : s = mem[p].current \/ y.step[s] = mem[p].step[s]
    BY <1>2, <1>4
  <2>2. \A s \in Steps : y.step[s] = "completed" => mem[p].step[s] = "completed"
    BY <1>4
  <2>3. QED BY <1>2, <1>3, <1>5, <1>6, <2>1, <2>2, EditKeeps
<1>8. RunOK("loop", y, r, yes)
  BY <1>1, <1>2, <1>6 DEF RunOK, Running
<1>9. ASSUME NEW s \in NeedsYes, HasYes(s, "loop", y, r) PROVE HasYes(s, pc[p], mem[p], run[p])
  <2>1. s # c /\ s \in Steps
    BY <1>3, PlanAssumption
  <2>2. QED BY <1>1, <1>2, <1>4, <1>9, <2>1 DEF HasYes, Running
<1>10. /\ Alone(p) /\ commands' \in 0 .. MaxCommands /\ overlap' \in BOOLEAN
  BY <1>1, GoesOnAlone
<1>11. ASSUME ~overlap' PROVE OnceOK("loop", y, r, y, acted, answered)
  <2>1. OnceOK(pc[p], mem[p], run[p], disk, acted, answered)
    BY <1>10, <1>11, AloneKnows
  <2>2. ASSUME NEW s \in NonIdempotent PROVE Fit(y, s, acted, answered)
    <3>1. s \in Steps /\ s # c /\ Fit(mem[p], s, acted, answered)
      BY <1>1, <1>3, <2>1, PlanAssumption DEF OnceOK
    <3>2. QED BY <1>4, <3>1, FitKept
  <2>3. QED BY <1>6, <2>1, <2>2 DEF OnceOK
<1>12. QED BY <1>1, <1>6, <1>7, <1>8, <1>9, <1>10, <1>11, QuietIsSafe

\* What ResolveActs goes on with.
LEMMA ResolveActsForm ==
  ASSUME PlanInv, NEW p \in Procs, ResolveActs(p)
  PROVE  \E y \in Plans, r \in Runs :
           /\ pc[p] = "resolve" /\ Current(p) \in Steps
           /\ mem[p].step[Current(p)] = "waiting_for_clarification"
           /\ mem[p].status = "waiting_for_clarification"
           /\ Shows(y, "running", Current(p), [mem[p].step EXCEPT ![Current(p)] = "ready"])
           /\ y.recoveries = mem[p].recoveries
           /\ r.confirmed = 0 /\ r.resolved = Current(p) /\ r.begun = FALSE
           /\ pc' = [pc EXCEPT ![p] = "loop"] /\ mem' = [mem EXCEPT ![p] = y]
           /\ run' = [run EXCEPT ![p] = r] /\ disk' = disk
           /\ answered' = answered \cup {Current(p)}
           /\ UNCHANGED <<commands, overlap>> /\ UNCHANGED <<acted, done, yes>>
<1> DEFINE c == Current(p)
           m == SetStep(mem[p], c, "ready")
           y == [m EXCEPT !.status = "running"]
           r == [run[p] EXCEPT !.resolved = c]
<1>1. /\ pc[p] = "resolve"
      /\ pc' = [pc EXCEPT ![p] = "loop"] /\ mem' = [mem EXCEPT ![p] = y] /\ disk' = disk
      /\ run' = [run EXCEPT ![p].resolved = c] /\ answered' = answered \cup {c}
      /\ UNCHANGED <<commands, overlap>> /\ UNCHANGED <<acted, done, yes>>
  BY DEF ResolveActs, InRun, Works, Goto
<1>2. /\ mem[p] \in Plans /\ PlanOK(mem[p], done, yes) /\ run[p] \in Runs
      /\ run[p].confirmed = 0 /\ run[p].begun = FALSE
      /\ mem[p].status = "waiting_for_clarification"
  BY <1>1, NoPlanKnown DEF RunOK, Running
<1>3. /\ c = mem[p].current /\ c \in Steps
      /\ mem[p].step[c] = "waiting_for_clarification"
  BY <1>2 DEF PlanOK, Waiting, Current, Plans
<1>4. "ready" \in StepStatuses /\ "running" \in PlanStatuses
  BY DEF StepStatuses, PlanStatuses
<1>5. /\ Shows(m, mem[p].status, c, [mem[p].step EXCEPT ![c] = "ready"])
      /\ m.recoveries = mem[p].recoveries
  BY <1>2, <1>3, <1>4, SetStepShows
<1> HIDE DEF m
<1>6. /\ Shows(y, "running", c, [mem[p].step EXCEPT ![c] = "ready"])
      /\ y.recoveries = mem[p].recoveries
  BY <1>4, <1>5, StatusShows DEF Shows
<1>7. /\ run' = [run EXCEPT ![p] = r] /\ r \in Runs
      /\ r.confirmed = 0 /\ r.resolved = c /\ r.begun = FALSE
  BY <1>1, <1>2, <1>3 DEF Runs
<1>8. y \in Plans
  BY <1>6 DEF Shows
<1> HIDE DEF y, r
<1>9. QED BY <1>1, <1>2, <1>3, <1>6, <1>7, <1>8

LEMMA ResolveActsSafe == ASSUME PlanInv, NEW p \in Procs, ResolveActs(p) PROVE SafeStep(p)
<1>1. PICK y \in Plans, r \in Runs :
           /\ pc[p] = "resolve" /\ Current(p) \in Steps
           /\ mem[p].step[Current(p)] = "waiting_for_clarification"
           /\ mem[p].status = "waiting_for_clarification"
           /\ Shows(y, "running", Current(p), [mem[p].step EXCEPT ![Current(p)] = "ready"])
           /\ y.recoveries = mem[p].recoveries
           /\ r.confirmed = 0 /\ r.resolved = Current(p) /\ r.begun = FALSE
           /\ pc' = [pc EXCEPT ![p] = "loop"] /\ mem' = [mem EXCEPT ![p] = y]
           /\ run' = [run EXCEPT ![p] = r] /\ disk' = disk
           /\ answered' = answered \cup {Current(p)}
           /\ UNCHANGED <<commands, overlap>> /\ UNCHANGED <<acted, done, yes>>
  BY ResolveActsForm
<1> DEFINE c == Current(p)
<1>2. /\ mem[p] \in Plans /\ PlanOK(mem[p], done, yes) /\ c = mem[p].current
      /\ RunOK(pc[p], mem[p], run[p], yes)
      /\ disk \in Plans /\ PlanOK(disk, done, yes)
  BY <1>1, NoPlanKnown DEF Current
<1> HIDE DEF c
<1>3. /\ c \in Steps /\ c # 0 /\ y.current = c /\ y.status = "running"
      /\ mem[p].step \in [Steps -> StepStatuses]
      /\ y.step = [mem[p].step EXCEPT ![c] = "ready"]
  BY <1>1, <1>2, PlanAssumption DEF Shows, Plans, c
<1>4. y.step[c] = "ready" /\ \A t \in Steps : t # c => y.step[t] = mem[p].step[t]
  BY <1>3
<1>5. /\ yes \in [Steps -> Nat] /\ \A s \in Steps : yes[s] <= yes[s]
      /\ \A s \in Steps : yes[s] <= yes'[s]
  BY <1>1, PlanAssumption DEF PlanInv, HistoryTypes
<1>6. y.status \notin Waiting /\ y.status # "completed" /\ y # NoPlan /\ "loop" \in Labels
  BY <1>3, NoPlanIsNone DEF Waiting, Labels
<1>7. PlanOK(y, done, yes)
  <2>1. \A s \in Steps : s = mem[p].current \/ y.step[s] = mem[p].step[s]
    BY <1>2, <1>4
  <2>2. \A s \in Steps : y.step[s] = "completed" => mem[p].step[s] = "completed"
    BY <1>4
  <2>3. QED BY <1>2, <1>3, <1>5, <1>6, <2>1, <2>2, EditKeeps
<1>8. RunOK("loop", y, r, yes)
  BY <1>1, <1>3, <1>4, <1>6, PlanAssumption DEF RunOK, Running, c
<1>9. /\ HistoryTypes' /\ done \subseteq done'
      /\ PlanOK(disk, done', yes') /\ ProcOK("loop", y, r, done', yes')
  BY <1>1, <1>2, <1>3, <1>6, <1>7, <1>8 DEF PlanInv, HistoryTypes, ProcOK, c
<1>10. ASSUME NEW s \in NeedsYes
       PROVE  YesStep(p, s, "loop", y, r) /\ (s \in answered' => yes'[s] > 0)
  <2>1. s \in Steps /\ s # 0 /\ (s \in answered => yes[s] > 0)
    BY PlanAssumption DEF PlanInv, YesInv
  <2>2. s = c => yes[s] > 0
    BY <1>1, <1>2 DEF PlanOK
  <2>3. ~HasYes(s, "loop", y, r)
    BY <1>1, <2>1 DEF HasYes
  <2>4. QED BY <1>1, <2>1, <2>2, <2>3 DEF YesStep, c
<1>11. Alone(p)
  BY <1>1, GoesOnAlone
<1>12. ASSUME ~overlap' PROVE OnceOK("loop", y, r, disk, acted', answered')
  <2>1. OnceOK("resolve", mem[p], run[p], disk, acted, answered)
    BY <1>1, <1>11, <1>12, AloneKnows
  <2>2. disk = mem[p] /\ disk # NoPlan
    BY <1>2, <2>1, NoPlanIsNone DEF OnceOK
  <2>3. ASSUME NEW s \in NonIdempotent
        PROVE  /\ acted[s] = 0 \/ (acted[s] = 1 /\ s \notin answered')
               /\ Fit(disk, s, acted, answered')
               /\ Fit(y, s, acted, answered') \/ (r.resolved = s /\ acted[s] = 0)
    <3>1. /\ acted[s] = 0 \/ (acted[s] = 1 /\ s \notin answered)
          /\ Fit(mem[p], s, acted, answered) /\ s \in Steps
      BY <2>1, <2>2, PlanAssumption DEF OnceOK
    <3>2. CASE s = c
      <4>1. acted[s] = 0
        BY <1>1, <3>1, <3>2 DEF Fit, c
      <4>2. QED BY <1>1, <2>2, <3>2, <4>1 DEF Fit, c
    <3>3. CASE s # c
      <4>1. s \in answered' <=> s \in answered
        BY <1>1, <3>3 DEF c
      <4>2. Fit(y, s, acted, answered)
        BY <1>4, <3>1, <3>3, FitKept
      <4>3. QED BY <2>2, <3>1, <4>1, <4>2 DEF Fit
    <3>4. QED BY <3>2, <3>3
  <2>4. QED BY <1>1, <2>2, <2>3 DEF OnceOK
<1>13. Safe(p, "loop", y, r, disk)
  BY <1>1, <1>2, <1>5, <1>9, <1>10, <1>11, <1>12 DEF Safe
<1>14. QED BY <1>2, <1>6, <1>13 DEF SafeStep
-----------------------------------------------------------------------------
(* The invariant, and what it says.                                        *)
LEMMA NextIsSafe == ASSUME PlanInv, NEW p \in Procs,
                           Command(p) \/ Proceeds(p) \/ Answer(p) \/ Exit(p)
                    PROVE  SafeStep(p)
<1>1. CASE Command(p)
  BY <1>1, CreateSafe, ResumeYesSafe, ResumePausedSafe, ClarifySafe, PauseReadSafe,
     CancelReadSafe, RetrySafe, ExecuteSafe DEF Command
<1>2. CASE Proceeds(p)
  BY <1>2, PauseSaveSafe, CancelSaveSafe, TimeLimitSafe, BeginStepSafe, AllCompletedSafe,
     NothingRunnableSafe, NeedConfirmationSafe, NeedClarificationSafe, ActSafe,
     CompletesSafe, RecoverSafe, StepFailsSafe, ResolveActsSafe, ResolveAsksAgainSafe,
     ResolveFailsSafe DEF Proceeds
<1>3. CASE Answer(p)
  BY <1>3, AnswerYesSafe, AnswerNoSafe, AnswerQuestionSafe DEF Answer
<1>4. QED BY <1>1, <1>2, <1>3, ExitSafe

LEMMA InitIsOK == Init => PlanInv
<1> SUFFICES ASSUME Init PROVE PlanInv
  OBVIOUS
<1>1. HistoryTypes
  <2>1. 0 \in 0 .. 3 /\ 0 \in 0 .. MaxYes /\ 0 \in 0 .. MaxCommands
    BY PlanAssumption
  <2>2. acted \in [Steps -> 0 .. 3] /\ yes \in [Steps -> 0 .. MaxYes]
    BY <2>1 DEF Init
  <2>3. overlap \in BOOLEAN /\ commands \in 0 .. MaxCommands
    BY <2>1 DEF Init
  <2>4. QED BY <2>2, <2>3 DEF Init, HistoryTypes
<1>2. ASSUME NEW p \in Procs PROVE ProcOK(pc[p], mem[p], run[p], done, yes)
  <2>1. pc[p] = "idle" /\ mem[p] = NoPlan /\ run[p] = NoRun
    BY DEF Init
  <2>2. /\ NoRun \in Runs /\ NoRun.confirmed = 0 /\ NoRun.resolved = 0 /\ NoRun.begun = FALSE
        /\ 0 \notin NeedsYes
    BY NoRunIsRun, PlanAssumption
  <2>3. QED BY <2>1, <2>2 DEF ProcOK, RunOK, Labels, Running
<1>3. ProcsOK
  BY <1>2, NoRunIsRun DEF Init, ProcsOK, Labels
<1>4. YesInv
  <2>1. SUFFICES ASSUME NEW s \in NeedsYes
                 PROVE  /\ IsFiniteSet(Unspent(s)) /\ Cardinality(Unspent(s)) + acted[s] <= yes[s]
                        /\ s \in answered => yes[s] > 0
    BY DEF YesInv
  <2>2. Unspent(s) = {}
    BY DEF Init, Unspent, HasYes, Running
  <2>3. acted[s] = 0 /\ yes[s] = 0 /\ answered = {}
    BY PlanAssumption DEF Init
  <2>4. IsFiniteSet({}) /\ Cardinality({}) = 0
    BY FS_EmptySet
  <2>5. QED BY <2>2, <2>3, <2>4
<1>5. OnceInv
  BY PlanAssumption DEF Init, OnceInv, OnceOK
<1>6. QED BY <1>1, <1>3, <1>4, <1>5 DEF PlanInv

LEMMA StutterKeepsInv == PlanInv /\ UNCHANGED vars => PlanInv'
<1> SUFFICES ASSUME PlanInv, UNCHANGED vars PROVE PlanInv'
  OBVIOUS
<1>1. HistoryTypes'
  BY DEF PlanInv, HistoryTypes, vars
<1>2. ProcsOK'
  BY DEF PlanInv, ProcsOK, vars
<1>3. YesInv'
  <2>1. \A s \in NeedsYes : Unspent(s)' = Unspent(s)
    BY DEF Unspent, vars
  <2>2. QED BY <2>1 DEF PlanInv, YesInv, vars
<1>4. OnceInv'
  BY DEF PlanInv, OnceInv, vars
<1>5. QED BY <1>1, <1>2, <1>3, <1>4 DEF PlanInv

LEMMA InvHolds == Spec => []PlanInv
<1>1. PlanInv /\ [Next]_vars => PlanInv'
  BY NextIsSafe, SafeKeepsInv, StutterKeepsInv DEF Next
<1>2. QED BY InitIsOK, <1>1, PTL DEF Spec

\* Whatever the plan and whoever gives commands, every variable keeps its type.
THEOREM PlanTypeCorrect == Spec => []TypeOK
  BY InvHolds, InvImpliesTypes, PTL

\* A step that must be confirmed acts no more often than the user said yes to
\* that very step, in whichever process and however often the plan is stopped,
\* read back, retried or given two commands at once.
THEOREM ActsAreCovered == Spec => []YesForEachAct
<1>1. PlanInv => YesForEachAct
  <2> SUFFICES ASSUME PlanInv, NEW s \in NeedsYes
               PROVE  acted[s] <= yes[s] /\ (s \in answered => yes[s] > 0)
    BY DEF YesForEachAct
  <2>1. /\ IsFiniteSet(Unspent(s)) /\ Cardinality(Unspent(s)) + acted[s] <= yes[s]
        /\ s \in answered => yes[s] > 0
    BY DEF PlanInv, YesInv
  <2>2. acted[s] \in Nat /\ yes[s] \in Nat
    BY PlanAssumption DEF PlanInv, HistoryTypes
  <2>3. Cardinality(Unspent(s)) \in Nat
    BY <2>1, FS_CardinalityType
  <2>4. QED BY <2>1, <2>2, <2>3
<1>2. QED BY <1>1, InvHolds, PTL

\* The snapshot never claims more than happened, whatever is saved over it.
THEOREM SnapshotIsHonest == Spec => []CompletedMeansDone
<1>1. PlanInv => CompletedMeansDone
  BY NoPlanIsNone DEF PlanInv, ProcsOK, HistoryTypes, PlanOK, CompletedMeansDone
<1>2. QED BY <1>1, InvHolds, PTL

\* Without commands that overlap, an action that must not be repeated is
\* performed once, and not at all where an answer of the user's performed it.
THEOREM ActsOnce == Spec => []NonIdempotentOnce
<1>1. PlanInv => NonIdempotentOnce
  <2> SUFFICES ASSUME PlanInv, ~overlap, NEW s \in NonIdempotent
               PROVE  ~(acted[s] > 1 \/ (acted[s] = 1 /\ s \in answered))
    BY DEF NonIdempotentOnce, PlanInv, HistoryTypes
  <2>1. acted[s] = 0 \/ (acted[s] = 1 /\ s \notin answered)
    BY DEF PlanInv, OnceInv
  <2>2. QED BY <2>1
<1>2. QED BY <1>1, InvHolds, PTL
-----------------------------------------------------------------------------
(* The planner keeps the order of its steps: it implements OrderedSteps.   *)
Began == answered \cup {s \in Steps : acted[s] > 0}

LEMMA CurrentIsFree ==
  ASSUME PlanInv, NEW p \in Procs, pc[p] # "idle", Current(p) # 0
  PROVE  Current(p) \in Steps /\ Deps[Current(p)] \subseteq done
<1>1. mem[p] \in Plans /\ PlanOK(mem[p], done, yes)
  BY NoPlanKnown
<1>2. Current(p) \in Steps /\ \A d \in Deps[Current(p)] : mem[p].step[d] = "completed"
  BY <1>1 DEF PlanOK, Frontier, Current, Plans
<1>3. \A d \in Deps[Current(p)] : d \in Steps
  BY <1>2, PlanAssumption
<1>4. QED BY <1>1, <1>2, <1>3 DEF PlanOK

\* What a step of a process is to OrderedSteps.
OrderStep == \/ \E s \in Steps : /\ Deps[s] \subseteq done
                                 /\ Began' = Began \cup {s} /\ done' = done
             \/ \E s \in Steps : /\ Deps[s] \subseteq done
                                 /\ done' = done \cup {s} /\ Began' = Began
             \/ Began' = Began /\ done' = done

LEMMA QuietOrder == ASSUME UNCHANGED <<acted, answered, done>> PROVE OrderStep
  BY DEF OrderStep, Began

LEMMA ActOrder == ASSUME PlanInv, NEW p \in Procs, Act(p) PROVE OrderStep
<1> DEFINE c == Current(p)
<1>1. /\ pc[p] = "execute" /\ acted' = [acted EXCEPT ![c] = Smaller(@ + 1, 3)]
      /\ UNCHANGED <<answered, done>>
  BY DEF Act, InRun
<1>2. c # 0
  BY <1>1, NoPlanKnown DEF RunOK, Current
<1>3. c \in Steps /\ Deps[c] \subseteq done
  BY <1>1, <1>2, CurrentIsFree
<1> HIDE DEF c
<1>4. acted \in [Steps -> 0 .. 3] /\ acted[c] \in 0 .. 3 /\ Smaller(acted[c] + 1, 3) > 0
  BY <1>3 DEF PlanInv, HistoryTypes, Smaller
<1>5. acted'[c] > 0 /\ \A s \in Steps : s # c => acted'[s] = acted[s]
  BY <1>1, <1>3, <1>4
<1>6. Began' = Began \cup {c}
  BY <1>1, <1>3, <1>5 DEF Began
<1>7. QED BY <1>1, <1>3, <1>6 DEF OrderStep

LEMMA CompletesOrder ==
  ASSUME PlanInv, NEW p \in Procs, NEW partial \in BOOLEAN, Completes(p, partial)
  PROVE  OrderStep
<1>1. /\ pc[p] \in {"acted", "execute"} /\ Current(p) \in Steps
      /\ done' = done \cup {Current(p)} /\ UNCHANGED <<acted, answered>>
  BY CompletesForm
<1>2. Current(p) # 0
  BY <1>1, PlanAssumption
<1>3. Deps[Current(p)] \subseteq done
  BY <1>1, <1>2, CurrentIsFree
<1>4. QED BY <1>1, <1>3 DEF OrderStep, Began

LEMMA ResolveActsOrder == ASSUME PlanInv, NEW p \in Procs, ResolveActs(p) PROVE OrderStep
<1>1. /\ pc[p] = "resolve" /\ Current(p) \in Steps
      /\ answered' = answered \cup {Current(p)} /\ UNCHANGED <<acted, done>>
  BY ResolveActsForm
<1>2. Current(p) # 0
  BY <1>1, PlanAssumption
<1>3. Deps[Current(p)] \subseteq done
  BY <1>1, <1>2, CurrentIsFree
<1>4. QED BY <1>1, <1>3 DEF OrderStep, Began

LEMMA StepKeepsOrder ==
  ASSUME PlanInv, NEW p \in Procs, Command(p) \/ Proceeds(p) \/ Answer(p) \/ Exit(p)
  PROVE  OrderStep
<1>1. CASE Command(p)
  <2>1. UNCHANGED <<acted, answered, done>>
    BY <1>1 DEF Command, Create, ResumeYes, Confirms, ResumePaused, Clarify, PauseRead,
                CancelRead, Retry, Execute, history
  <2>2. QED BY <2>1, QuietOrder
<1>2. CASE Act(p) \/ ResolveActs(p) \/ \E partial \in BOOLEAN : Completes(p, partial)
  BY <1>2, ActOrder, ResolveActsOrder, CompletesOrder
<1>3. CASE \/ PauseSave(p) \/ CancelSave(p) \/ TimeLimit(p) \/ BeginStep(p)
           \/ AllCompleted(p) \/ NothingRunnable(p) \/ NeedConfirmation(p)
           \/ NeedClarification(p) \/ Recover(p) \/ StepFails(p)
           \/ ResolveAsksAgain(p) \/ ResolveFails(p)
  <2>1. UNCHANGED <<acted, answered, done>>
    BY <1>3 DEF PauseSave, CancelSave, TimeLimit, BeginStep, AllCompleted, NothingRunnable,
                NeedConfirmation, NeedClarification, Recover, StepFails, ResolveAsksAgain,
                ResolveFails, history
  <2>2. QED BY <2>1, QuietOrder
<1>4. CASE Answer(p) \/ Exit(p)
  <2>1. UNCHANGED <<acted, answered, done>>
    BY <1>4 DEF Answer, AnswerYes, AnswerNo, AnswerQuestion, Exit, Confirms, history
  <2>2. QED BY <2>1, QuietOrder
<1>5. QED BY <1>1, <1>2, <1>3, <1>4 DEF Proceeds

\* The planner implements OrderedSteps: whatever is retried, recovered, answered
\* or given by several commands at once, no step is performed, answered for or
\* marked completed before all it depends on is done, and what is done stays so.
THEOREM KeepsOrder == Spec => ImplementsOrder
<1>1. Init => Ordered!OrderedInit
  <2> SUFFICES ASSUME Init PROVE Ordered!OrderedInit
    OBVIOUS
  <2>1. Deps \in [Steps -> SUBSET Steps] /\ done = {} /\ answered = {}
    BY PlanAssumption DEF Init
  <2>2. {s \in Steps : acted[s] > 0} = {}
    BY DEF Init
  <2>3. QED BY <2>1, <2>2 DEF Ordered!OrderedInit
<1>2. PlanInv /\ [Next]_vars => [Ordered!OrderedNext]_(Ordered!orderedVars)
  <2> SUFFICES ASSUME PlanInv, [Next]_vars
               PROVE  [Ordered!OrderedNext]_(Ordered!orderedVars)
    OBVIOUS
  <2>1. OrderStep
    BY StepKeepsOrder, QuietOrder DEF Next, vars
  <2>2. QED BY <2>1 DEF OrderStep, Began, Ordered!OrderedNext, Ordered!Begin,
                        Ordered!Finish, Ordered!Free, Ordered!orderedVars
<1>3. QED BY <1>1, <1>2, InvHolds, PTL DEF Spec, ImplementsOrder, Ordered!OrderedSpec
-----------------------------------------------------------------------------
(* Every step a process takes by itself brings it nearer to its end.       *)
Open(pl) == {s \in Steps : pl.step[s] \in {"pending", "ready", "retrying"}}

RankOf(l, pl) == 1 + Ranks[l] + 3 * Cardinality(Open(pl)) + 6 * (MaxRecoveries - pl.recoveries)

LEMMA RanksAre ==
  /\ Ranks["loop"] = 0 /\ Ranks["acted"] = 1 /\ Ranks["execute"] = 2
  /\ Ranks["resolve"] = 4 /\ Ranks["pause"] = 0 /\ Ranks["cancel"] = 0
  BY DEF Ranks

LEMMA OpenIsFinite ==
  ASSUME NEW pl
  PROVE  IsFiniteSet(Open(pl)) /\ Cardinality(Open(pl)) \in Nat
<1>1. Open(pl) \subseteq Steps /\ IsFiniteSet(Steps)
  BY PlanAssumption DEF Open
<1>2. IsFiniteSet(Open(pl))
  BY <1>1, FS_Subset
<1>3. QED BY <1>2, FS_CardinalityType

LEMMA RankIsPositive ==
  ASSUME NEW l \in Labels \ {"idle", "ask"}, NEW pl \in Plans
  PROVE  RankOf(l, pl) > 0
<1>1. Ranks[l] \in Nat
  BY RanksAre DEF Labels
<1>2. MaxRecoveries - pl.recoveries \in Nat
  BY PlanAssumption DEF Plans
<1>3. Cardinality(Open(pl)) \in Nat
  BY OpenIsFinite
<1> DEFINE a == Ranks[l]
           b == MaxRecoveries - pl.recoveries
           c == Cardinality(Open(pl))
<1>4. a \in Nat /\ b \in Nat /\ c \in Nat
  BY <1>1, <1>2, <1>3
<1>5. RankOf(l, pl) = 1 + a + 3 * c + 6 * b
  BY DEF RankOf
<1> HIDE DEF a, b, c
<1>6. QED BY <1>4, <1>5

\* A step that leaves the open ones, one that joins them, and one that does neither.
LEMMA OpenChanges ==
  ASSUME NEW pl \in Plans, NEW n, NEW s \in Steps, NEW st,
         n.step = [pl.step EXCEPT ![s] = st]
  PROVE  LET open == {"pending", "ready", "retrying"}
             before == Cardinality(Open(pl))
             after == Cardinality(Open(n))
         IN /\ pl.step[s] \in open /\ st \notin open => after = before - 1
            /\ pl.step[s] \notin open /\ st \in open => after = before + 1
            /\ pl.step[s] \notin open /\ st \notin open => after = before
<1>1. n.step[s] = st /\ \A t \in Steps : t # s => n.step[t] = pl.step[t]
  BY DEF Plans
<1>2. IsFiniteSet(Open(pl)) /\ Cardinality(Open(pl)) \in Nat
  BY OpenIsFinite
<1>3. ASSUME pl.step[s] \in {"pending", "ready", "retrying"},
             st \notin {"pending", "ready", "retrying"}
      PROVE  Cardinality(Open(n)) = Cardinality(Open(pl)) - 1
  <2>1. Open(n) = Open(pl) \ {s} /\ s \in Open(pl)
    BY <1>1, <1>3 DEF Open
  <2>2. QED BY <1>2, <2>1, FS_RemoveElement
<1>4. ASSUME pl.step[s] \notin {"pending", "ready", "retrying"},
             st \in {"pending", "ready", "retrying"}
      PROVE  Cardinality(Open(n)) = Cardinality(Open(pl)) + 1
  <2>1. Open(n) = Open(pl) \cup {s} /\ s \notin Open(pl)
    BY <1>1, <1>4 DEF Open
  <2>2. QED BY <1>2, <2>1, FS_AddElement
<1>5. ASSUME pl.step[s] \notin {"pending", "ready", "retrying"},
             st \notin {"pending", "ready", "retrying"}
      PROVE  Cardinality(Open(n)) = Cardinality(Open(pl))
  <2>1. Open(n) = Open(pl)
    BY <1>1, <1>5 DEF Open
  <2>2. QED BY <2>1
<1>6. QED BY <1>3, <1>4, <1>5

LEMMA RankIs ==
  ASSUME NEW p \in Procs, pc[p] \notin {"idle", "ask"}
  PROVE  Rank(p) = RankOf(pc[p], mem[p])
  BY DEF Rank, RankOf, Open

LEMMA RankIsNext ==
  ASSUME NEW p \in Procs, pc'[p] \notin {"idle", "ask"}
  PROVE  Rank(p)' = RankOf(pc'[p], mem'[p])
  BY DEF Rank, RankOf, Open

\* A process that leaves off has rank 0, and had more before.
LEMMA EndShrinks ==
  ASSUME PlanInv, NEW p \in Procs, pc[p] \notin {"idle", "ask"}, pc'[p] \in {"idle", "ask"}
  PROVE  Rank(p)' < Rank(p)
<1>1. pc[p] \in Labels \ {"idle", "ask"} /\ mem[p] \in Plans
  BY NoPlanKnown
<1>2. RankOf(pc[p], mem[p]) > 0
  BY <1>1, RankIsPositive
<1>3. Rank(p) > 0
  BY <1>2, RankIs
<1>4. Rank(p)' = 0
  BY DEF Rank
<1>5. QED BY <1>3, <1>4

\* A process that goes on, by its label, its open steps and its recoveries.
LEMMA RankShrinks ==
  ASSUME PlanInv, NEW p \in Procs, NEW l \in Labels \ {"idle", "ask"}, NEW y \in Plans,
         pc' = [pc EXCEPT ![p] = l], mem' = [mem EXCEPT ![p] = y],
         pc[p] \notin {"idle", "ask"},
         NEW k \in {-1, 0, 1}, Cardinality(Open(y)) = Cardinality(Open(mem[p])) + k,
         NEW i \in {0, 1}, y.recoveries = mem[p].recoveries + i,
         Ranks[l] + 3 * k < Ranks[pc[p]] + 6 * i
  PROVE  Rank(p)' < Rank(p)
<1>1. pc[p] \in Labels \ {"idle", "ask"} /\ mem[p] \in Plans
  BY NoPlanKnown
<1>2. pc'[p] = l /\ mem'[p] = y
  BY DEF PlanInv, ProcsOK
<1>3. Rank(p) = RankOf(pc[p], mem[p]) /\ Rank(p)' = RankOf(l, y)
  BY <1>2, RankIs, RankIsNext
<1> DEFINE a == Ranks[pc[p]]
           b == Ranks[l]
           c == Cardinality(Open(mem[p]))
           e == mem[p].recoveries
<1>4. a \in Nat /\ b \in Nat /\ c \in Nat /\ e \in Nat /\ MaxRecoveries \in Nat
  BY <1>1, RanksAre, OpenIsFinite, PlanAssumption DEF Labels, Plans
<1>5. /\ RankOf(pc[p], mem[p]) = 1 + a + 3 * c + 6 * (MaxRecoveries - e)
      /\ RankOf(l, y) = 1 + b + 3 * (c + k) + 6 * (MaxRecoveries - (e + i))
      /\ b + 3 * k < a + 6 * i
  BY DEF RankOf
<1> HIDE DEF a, b, c, e
<1>6. k \in Int /\ i \in Int
  OBVIOUS
<1>7. 1 + b + 3 * (c + k) + 6 * (MaxRecoveries - (e + i))
        < 1 + a + 3 * c + 6 * (MaxRecoveries - e)
  BY <1>4, <1>5, <1>6
<1>8. QED BY <1>3, <1>5, <1>7

LEMMA BeginShrinks ==
  ASSUME PlanInv, NEW p \in Procs, BeginStep(p) PROVE Rank(p)' < Rank(p)
<1>1. PICK s \in Runnable(mem[p]), y \in Plans, r \in Runs :
           /\ s = NextStep(mem[p]) /\ s \in Steps /\ pc[p] = "loop"
           /\ Shows(y, mem[p].status, s, [mem[p].step EXCEPT ![s] = "running"])
           /\ y.recoveries = mem[p].recoveries
           /\ r.confirmed = run[p].confirmed /\ r.resolved = run[p].resolved
           /\ pc' = [pc EXCEPT ![p] = "execute"] /\ mem' = [mem EXCEPT ![p] = y]
           /\ run' = [run EXCEPT ![p] = r] /\ disk' = y
           /\ UNCHANGED <<commands, overlap>> /\ UNCHANGED history
  BY BeginStepForm
<1>2. mem[p] \in Plans /\ y.step = [mem[p].step EXCEPT ![s] = "running"]
  BY <1>1, NoPlanKnown DEF Shows
<1>3. Cardinality(Open(y)) = Cardinality(Open(mem[p])) + (-1)
  <2>1. Cardinality(Open(y)) = Cardinality(Open(mem[p])) - 1
    BY <1>1, <1>2, OpenChanges DEF Runnable
  <2>2. Cardinality(Open(mem[p])) \in Nat
    BY OpenIsFinite
  <2>3. QED BY <2>1, <2>2
<1>4. y.recoveries = mem[p].recoveries + 0
  BY <1>1, <1>2 DEF Plans
<1>5. Ranks["execute"] + 3 * (-1) < Ranks[pc[p]] + 6 * 0
  BY <1>1, RanksAre
<1>6. "execute" \in Labels \ {"idle", "ask"} /\ pc[p] \notin {"idle", "ask"}
  BY <1>1 DEF Labels
<1>7. QED BY <1>1, <1>3, <1>4, <1>5, <1>6, RankShrinks

LEMMA ActShrinks == ASSUME PlanInv, NEW p \in Procs, Act(p) PROVE Rank(p)' < Rank(p)
<1>1. /\ pc[p] = "execute" /\ pc' = [pc EXCEPT ![p] = "acted"]
      /\ mem' = [mem EXCEPT ![p] = mem[p]]
  BY DEF Act, InRun, Goto, PlanInv, ProcsOK
<1>2. mem[p] \in Plans /\ Cardinality(Open(mem[p])) \in Nat
  BY <1>1, NoPlanKnown, OpenIsFinite
<1>3. /\ Cardinality(Open(mem[p])) = Cardinality(Open(mem[p])) + 0
      /\ mem[p].recoveries = mem[p].recoveries + 0
  BY <1>2 DEF Plans
<1>4. Ranks["acted"] + 3 * 0 < Ranks[pc[p]] + 6 * 0
  BY <1>1, RanksAre
<1>5. "acted" \in Labels \ {"idle", "ask"} /\ pc[p] \notin {"idle", "ask"}
  BY <1>1 DEF Labels
<1>6. QED BY <1>1, <1>2, <1>3, <1>4, <1>5, RankShrinks

LEMMA CompletesShrinks ==
  ASSUME PlanInv, NEW p \in Procs, NEW partial \in BOOLEAN, Completes(p, partial)
  PROVE  Rank(p)' < Rank(p)
<1>1. PICK y \in Plans, r \in Runs :
           /\ pc[p] \in {"acted", "execute"} /\ Current(p) \in Steps
           /\ Shows(y, mem[p].status, Current(p), [mem[p].step EXCEPT ![Current(p)] = "completed"])
           /\ y.recoveries = mem[p].recoveries
           /\ r.confirmed = run[p].confirmed /\ r.resolved = 0
           /\ pc' = [pc EXCEPT ![p] = "loop"] /\ mem' = [mem EXCEPT ![p] = y]
           /\ run' = [run EXCEPT ![p] = r] /\ disk' = y
           /\ done' = done \cup {Current(p)}
           /\ UNCHANGED <<commands, overlap>> /\ UNCHANGED <<acted, answered, yes>>
  BY CompletesForm
<1>2. /\ mem[p] \in Plans /\ mem[p].step[Current(p)] = "running"
      /\ y.step = [mem[p].step EXCEPT ![Current(p)] = "completed"]
  BY <1>1, NoPlanKnown DEF Shows, RunOK, Current
<1>3. Cardinality(Open(y)) = Cardinality(Open(mem[p])) + 0
  <2>1. Cardinality(Open(y)) = Cardinality(Open(mem[p]))
    BY <1>1, <1>2, OpenChanges
  <2>2. Cardinality(Open(mem[p])) \in Nat
    BY OpenIsFinite
  <2>3. QED BY <2>1, <2>2
<1>4. y.recoveries = mem[p].recoveries + 0
  BY <1>1, <1>2 DEF Plans
<1>5. Ranks["loop"] + 3 * 0 < Ranks[pc[p]] + 6 * 0
  BY <1>1, RanksAre
<1>6. "loop" \in Labels \ {"idle", "ask"} /\ pc[p] \notin {"idle", "ask"}
  BY <1>1 DEF Labels
<1>7. QED BY <1>1, <1>3, <1>4, <1>5, <1>6, RankShrinks

LEMMA RecoverShrinks ==
  ASSUME PlanInv, NEW p \in Procs, Recover(p) PROVE Rank(p)' < Rank(p)
<1>1. PICK y \in Plans, r \in Runs :
           /\ pc[p] \in {"acted", "execute"} /\ Current(p) \in Steps \ NonIdempotent
           /\ Shows(y, "recovering", Current(p), [mem[p].step EXCEPT ![Current(p)] = "retrying"])
           /\ y.recoveries = mem[p].recoveries + 1
           /\ r.confirmed = run[p].confirmed /\ r.resolved = 0
           /\ pc' = [pc EXCEPT ![p] = "loop"] /\ mem' = [mem EXCEPT ![p] = y]
           /\ run' = [run EXCEPT ![p] = r] /\ disk' = y
           /\ UNCHANGED <<commands, overlap>> /\ UNCHANGED history
  BY RecoverForm
<1>2. /\ mem[p] \in Plans /\ mem[p].step[Current(p)] = "running"
      /\ y.step = [mem[p].step EXCEPT ![Current(p)] = "retrying"]
  BY <1>1, NoPlanKnown DEF Shows, RunOK, Current
<1>3. Cardinality(Open(y)) = Cardinality(Open(mem[p])) + 1
  BY <1>1, <1>2, OpenChanges
<1>4. Ranks["loop"] + 3 * 1 < Ranks[pc[p]] + 6 * 1
  BY <1>1, RanksAre
<1>5. "loop" \in Labels \ {"idle", "ask"} /\ pc[p] \notin {"idle", "ask"}
  BY <1>1 DEF Labels
<1>6. QED BY <1>1, <1>3, <1>4, <1>5, RankShrinks

LEMMA ResolveActsShrinks ==
  ASSUME PlanInv, NEW p \in Procs, ResolveActs(p) PROVE Rank(p)' < Rank(p)
<1>1. PICK y \in Plans, r \in Runs :
           /\ pc[p] = "resolve" /\ Current(p) \in Steps
           /\ mem[p].step[Current(p)] = "waiting_for_clarification"
           /\ mem[p].status = "waiting_for_clarification"
           /\ Shows(y, "running", Current(p), [mem[p].step EXCEPT ![Current(p)] = "ready"])
           /\ y.recoveries = mem[p].recoveries
           /\ r.confirmed = 0 /\ r.resolved = Current(p) /\ r.begun = FALSE
           /\ pc' = [pc EXCEPT ![p] = "loop"] /\ mem' = [mem EXCEPT ![p] = y]
           /\ run' = [run EXCEPT ![p] = r] /\ disk' = disk
           /\ answered' = answered \cup {Current(p)}
           /\ UNCHANGED <<commands, overlap>> /\ UNCHANGED <<acted, done, yes>>
  BY ResolveActsForm
<1>2. /\ mem[p] \in Plans /\ Current(p) \in Steps
      /\ mem[p].step[Current(p)] \notin {"pending", "ready", "retrying"}
      /\ y.step = [mem[p].step EXCEPT ![Current(p)] = "ready"]
  BY <1>1, NoPlanKnown DEF Shows
<1>3. Cardinality(Open(y)) = Cardinality(Open(mem[p])) + 1
  BY <1>2, OpenChanges
<1>4. y.recoveries = mem[p].recoveries + 0
  BY <1>1, <1>2 DEF Plans
<1>5. Ranks["loop"] + 3 * 1 < Ranks[pc[p]] + 6 * 0
  BY <1>1, RanksAre
<1>6. "loop" \in Labels \ {"idle", "ask"} /\ pc[p] \notin {"idle", "ask"}
  BY <1>1 DEF Labels
<1>7. QED BY <1>1, <1>3, <1>4, <1>5, <1>6, RankShrinks

\* The other steps end the process, or leave it to ask.
LEMMA ProcessShrinks ==
  ASSUME PlanInv, NEW p \in Procs, Command(p) \/ Proceeds(p) \/ Answer(p) \/ Exit(p),
         pc[p] \notin {"idle", "ask"}
  PROVE  Rank(p)' < Rank(p)
<1>1. CASE \/ BeginStep(p) \/ Act(p) \/ Recover(p) \/ ResolveActs(p)
           \/ \E partial \in BOOLEAN : Completes(p, partial)
  BY <1>1, BeginShrinks, ActShrinks, RecoverShrinks, ResolveActsShrinks, CompletesShrinks
<1>2. CASE \/ PauseSave(p) \/ CancelSave(p) \/ TimeLimit(p)
           \/ AllCompleted(p) \/ NothingRunnable(p) \/ NeedConfirmation(p)
           \/ NeedClarification(p) \/ StepFails(p)
           \/ ResolveAsksAgain(p) \/ ResolveFails(p) \/ Exit(p)
  <2>1. pc' = [pc EXCEPT ![p] = "idle"] \/ pc' = [pc EXCEPT ![p] = "ask"]
    BY <1>2 DEF PauseSave, CancelSave, TimeLimit, AllCompleted, NothingRunnable,
                NeedConfirmation, NeedClarification, StepFails, ResolveAsksAgain,
                ResolveFails, Exit, Stops, Ends, Goto
  <2>2. pc'[p] \in {"idle", "ask"}
    BY <2>1 DEF PlanInv, ProcsOK
  <2>3. QED BY <2>2, EndShrinks
<1>3. ~Command(p) /\ ~Answer(p)
  BY DEF Command, Create, ResumeYes, ResumePaused, Clarify, PauseRead, CancelRead, Retry,
         Execute, Starts, Answer, AnswerYes, AnswerNo, AnswerQuestion, InRun
<1>4. QED BY <1>1, <1>2, <1>3 DEF Proceeds

\* A step of p leaves the other processes where they are.
LEMMA OthersStay ==
  ASSUME PlanInv, NEW p \in Procs, NEW q \in Procs, q # p,
         Command(p) \/ Proceeds(p) \/ Answer(p) \/ Exit(p)
  PROVE  pc'[q] = pc[q]
<1>1. PICK l \in Labels : pc' = [pc EXCEPT ![p] = l]
  BY NextIsSafe DEF SafeStep, Safe
<1>2. QED BY <1>1 DEF PlanInv, ProcsOK

\* Each step a process takes by itself brings it nearer to a result or a
\* question, whatever fails and whatever the other terminals do: no run goes on
\* for ever.
THEOREM RunsEnd == Spec => RunShrinks
<1>1. ASSUME PlanInv, [Next]_vars, NEW p \in Procs, pc[p] \notin {"idle", "ask"},
             pc'[p] # pc[p]
      PROVE  Rank(p)' < Rank(p)
  <2>1. PICK q \in Procs : Command(q) \/ Proceeds(q) \/ Answer(q) \/ Exit(q)
    BY <1>1 DEF Next, vars
  <2>2. q = p
    BY <1>1, <2>1, OthersStay
  <2>3. QED BY <1>1, <2>1, <2>2, ProcessShrinks
<1>2. PlanInv /\ [Next]_vars
        => [\A p \in Procs : pc[p] \notin {"idle", "ask"} /\ pc'[p] # pc[p]
                               => Rank(p)' < Rank(p)]_vars
  BY <1>1
<1>3. QED BY <1>2, InvHolds, PTL DEF Spec, RunShrinks
=============================================================================
