-------------------------- MODULE AgentTicksProofs --------------------------
(* What holds of AgentTicks for any number of agents, schedulers and         *)
(* commands, and any bounds.                                                 *)
EXTENDS AgentTicks, TLAPS

(***************************************************************************)
(* Types.  That the count of stalls keeps its bound needs to know that a   *)
(* pass has read one count of each agent, and that what it is about to     *)
(* count was below the bound.                                              *)
(***************************************************************************)
PassOK(p) ==
  /\ \A a \in Agents, n, m \in 0..MaxStalls :
       <<a, n>> \in seen[p] /\ <<a, m>> \in seen[p] => n = m
  /\ pc[p] = "released" =>
       \A n \in 0..MaxStalls : <<target[p], n>> \in seen[p] => n < MaxStalls

TypeInv == TypeOK /\ \A p \in Processes : PassOK(p)

\* Steps that leave every pass where it is, or drop it.
LEMMA PassQuiet ==
  ASSUME TypeInv,
         \A p \in Processes : seen'[p] \in {seen[p], {}},
         \A p \in Processes : pc'[p] = "released" =>
                               pc[p] = "released" /\ target'[p] = target[p]
  PROVE  \A p \in Processes : PassOK(p)'
BY DEF TypeInv, PassOK

LEMMA TickTypeStep == TypeInv /\ [Next]_vars => TypeOK'
<1> SUFFICES ASSUME TypeOK, \A p \in Processes : PassOK(p), [Next]_vars
             PROVE  TypeOK'
  BY DEF TypeInv
<1> USE BoundsAssumption
    DEF TypeOK, Statuses, Outcomes, Processes, SetStatus, Goto, Done, agentVars, tickVars
<1>1. CASE UNCHANGED vars
  BY <1>1 DEF vars
<1>2. ASSUME NEW p \in Processes, Open(p) PROVE TypeOK'
  BY <1>2 DEF Open, Sweep
<1>3. ASSUME NEW p \in Processes, NEW a \in Agents, User(p, a) PROVE TypeOK'
  <2>1. CASE Pause(p, a) \/ Archive(p, a) \/ Resume(p, a)
    BY <2>1 DEF Pause, Archive, Resume, Command
  <2>2. CASE Run(p, a)
    BY <2>2 DEF Run, Sweep
  <2> QED
    BY <1>3, <2>1, <2>2 DEF User
<1>4. ASSUME NEW p \in Processes, Close(p) PROVE TypeOK'
  BY <1>4 DEF Close
<1>5. ASSUME NEW p \in Processes, NEW a \in Agents, Fire(p, a) PROVE TypeOK'
  BY <1>5 DEF Fire
<1>6. ASSUME NEW p \in Processes, Guard(p) PROVE TypeOK'
  BY <1>6 DEF Guard
<1>7. ASSUME NEW p \in Processes, Begin(p) PROVE TypeOK'
  BY <1>7 DEF Begin
<1>8. ASSUME NEW p \in Processes, Activity(p) PROVE TypeOK'
  BY <1>8 DEF Activity
<1>9. ASSUME NEW p \in Processes, NEW o \in Outcomes, End(p, o) PROVE TypeOK'
  BY <1>9 DEF End
<1>10. ASSUME NEW p \in Processes, NEW exceeded \in BOOLEAN, Count(p, exceeded)
       PROVE  TypeOK'
  <2>1. stalls' \in [Agents -> 0..MaxStalls]
    <3>1. stalls' = [stalls EXCEPT ![target[p]] = 0]
      BY <1>10, Zenon DEF Count
    <3>2. stalls \in [Agents -> 0..MaxStalls]
      BY DEF TypeOK
    <3>3. 0 \in 0..MaxStalls
      BY BoundsAssumption
    <3> QED
      BY <3>1, <3>2, <3>3, Zenon
  <2>2. overBudget' \in [Agents -> BOOLEAN]
    BY <1>10, Zenon DEF Count
  <2>3. pc' \in [Processes -> {"down", "open", "fired", "guarded", "ticking",
                        "ended", "counted", "reconciling", "released"}]
    BY <1>10 DEF Count
  <2>4. UNCHANGED <<status, activity, target, outcome, seen, crashes>>
    BY <1>10 DEF Count
  <2> QED
    BY <2>1, <2>2, <2>3, <2>4, Zenon
<1>11. ASSUME NEW p \in Processes, SettleSuccess(p) PROVE TypeOK'
  BY <1>11 DEF SettleSuccess
<1>12. ASSUME NEW p \in Processes, SettleFailure(p) PROVE TypeOK'
  BY <1>12 DEF SettleFailure
<1>13. ASSUME NEW p \in Processes, Crash(p) PROVE TypeOK'
  BY <1>13 DEF Crash
<1>14. ASSUME NEW a \in Agents, Age(a) PROVE TypeOK'
  BY <1>14 DEF Age
<1>15. ASSUME NEW p \in Processes, Reconcile(p) PROVE TypeOK'
  BY <1>15 DEF Reconcile
<1>16. ASSUME NEW p \in Processes, NEW a \in Agents, NEW n \in 0..MaxStalls,
              Release(p, a, n)
       PROVE  TypeOK'
  BY <1>16 DEF Release
<1>17. ASSUME NEW p \in Processes, NEW a \in Agents, NEW n \in 0..MaxStalls,
              CountStall(p, a, n)
       PROVE  TypeOK'
  <2>1. n + 1 \in 0..MaxStalls
    BY <1>17 DEF CountStall, PassOK
  <2> QED
    BY <1>17, <2>1 DEF CountStall, Reconciled
<1>18. ASSUME NEW p \in Processes, NEW a \in Agents, NEW n \in 0..MaxStalls,
              GiveUp(p, a, n)
       PROVE  TypeOK'
  BY <1>18 DEF GiveUp, Reconciled
<1> QED
  BY <1>1, <1>2, <1>3, <1>4, <1>5, <1>6, <1>7, <1>8, <1>9, <1>10, <1>11, <1>12,
     <1>13, <1>14, <1>15, <1>16, <1>17, <1>18 DEF Next, Loop, Tick

LEMMA PassStep == TypeInv /\ [Next]_vars => \A p \in Processes : PassOK(p)'
<1> SUFFICES ASSUME TypeInv, TypeOK, [Next]_vars
             PROVE  \A p \in Processes : PassOK(p)'
  BY DEF TypeInv
<1> USE DEF TypeOK, Processes, SetStatus, Goto, Done, agentVars, tickVars
<1>1. CASE UNCHANGED vars
  BY <1>1, PassQuiet DEF vars
<1>2. ASSUME NEW p \in Processes, Open(p) \/ Close(p) \/ Crash(p)
      PROVE  \A q \in Processes : PassOK(q)'
  BY <1>2, PassQuiet DEF Open, Close, Crash
<1>3. ASSUME NEW p \in Processes, NEW a \in Agents, User(p, a) \/ Fire(p, a)
      PROVE  \A q \in Processes : PassOK(q)'
  BY <1>3, PassQuiet DEF User, Pause, Archive, Resume, Command, Run, Fire
<1>4. ASSUME NEW p \in Processes, Tick(p)
      PROVE  \A q \in Processes : PassOK(q)'
  BY <1>4, PassQuiet
  DEF Tick, Guard, Begin, Activity, End, Count, SettleSuccess, SettleFailure
<1>5. ASSUME NEW a \in Agents, Age(a) PROVE \A q \in Processes : PassOK(q)'
  BY <1>5, PassQuiet DEF Age
<1>6. ASSUME NEW p \in Processes, Reconcile(p)
      PROVE  \A q \in Processes : PassOK(q)'
  BY <1>6 DEF Reconcile, TypeInv, PassOK
<1>7. ASSUME NEW p \in Processes, NEW a \in Agents, NEW n \in 0..MaxStalls,
             Release(p, a, n) \/ CountStall(p, a, n) \/ GiveUp(p, a, n)
      PROVE  \A q \in Processes : PassOK(q)'
  <2>1. CASE Release(p, a, n)
    BY <2>1 DEF Release, TypeInv, PassOK
  <2>2. CASE CountStall(p, a, n)
    BY <2>2 DEF CountStall, Reconciled, TypeInv, PassOK
  <2>3. CASE GiveUp(p, a, n)
    BY <2>3 DEF GiveUp, Reconciled, TypeInv, PassOK
  <2> QED
    BY <1>7, <2>1, <2>2, <2>3
<1> QED
  BY <1>1, <1>2, <1>3, <1>4, <1>5, <1>6, <1>7 DEF Next, Loop, Tick

\* The variables keep their types; in particular the count of stalls never
\* passes max_stall_retries, whoever else runs.
THEOREM TickTypeCorrect == Spec => []TypeOK
<1>1. Init => TypeInv
  BY BoundsAssumption DEF Init, TypeInv, TypeOK, PassOK, Statuses, Outcomes, Processes
<1>2. TypeInv /\ [Next]_vars => TypeInv'
  BY TickTypeStep, PassStep DEF TypeInv
<1>3. TypeInv => TypeOK
  BY DEF TypeInv
<1> QED
  BY <1>1, <1>2, <1>3, PTL DEF Spec
-----------------------------------------------------------------------------
(***************************************************************************)
(* Running agents.                                                         *)
(***************************************************************************)
\* Steps after which no agent is running that was not, and nobody has stopped
\* ticking.
LEMMA ZombieQuiet ==
  ASSUME NoZombie, TypeOK, crashes' \in {crashes, crashes + 1},
         \A a \in Agents : status'[a] = "running" => status[a] = "running",
         \A p \in Processes : pc[p] = "ticking" =>
                               pc'[p] = "ticking" /\ target'[p] = target[p]
  PROVE  NoZombie'
<1> SUFFICES ASSUME NEW a \in Agents, status'[a] = "running", ~(crashes' > 0)
             PROVE  Ticking(a)' # {}
  BY DEF NoZombie
<1>1. crashes = 0
  BY BoundsAssumption DEF TypeOK
<1>2. PICK p \in Processes : pc[p] = "ticking" /\ target[p] = a
  BY <1>1 DEF NoZombie, Ticking
<1> QED
  BY <1>2 DEF Ticking

LEMMA ZombieStep == TypeOK /\ NoZombie /\ [Next]_vars => NoZombie'
<1> SUFFICES ASSUME TypeOK, NoZombie, [Next]_vars PROVE NoZombie'
  OBVIOUS
<1> USE DEF TypeOK, Processes, SetStatus, Goto, Done, agentVars, tickVars
<1>1. CASE UNCHANGED vars
  BY <1>1, ZombieQuiet DEF vars
<1>2. ASSUME NEW p \in Processes, Open(p) \/ Close(p) PROVE NoZombie'
  BY <1>2, ZombieQuiet DEF Open, Close, Sweep
<1>3. ASSUME NEW p \in Processes, NEW a \in Agents, User(p, a) \/ Fire(p, a)
      PROVE  NoZombie'
  BY <1>3, ZombieQuiet DEF User, Pause, Archive, Resume, Command, Run, Sweep, Fire
<1>4. ASSUME NEW p \in Processes, Crash(p) PROVE NoZombie'
  BY <1>4, BoundsAssumption DEF Crash, NoZombie
<1>5. ASSUME NEW p \in Processes, Begin(p) PROVE NoZombie'
  <2> SUFFICES ASSUME NEW a \in Agents, status'[a] = "running", ~(crashes' > 0)
               PROVE  Ticking(a)' # {}
    BY DEF NoZombie
  <2>1. CASE a = target[p]
    BY <1>5, <2>1 DEF Begin, Ticking
  <2>2. CASE a # target[p]
    <3>1. PICK q \in Processes : pc[q] = "ticking" /\ target[q] = a
      BY <1>5, <2>2 DEF Begin, NoZombie, Ticking
    <3> QED
      BY <1>5, <3>1 DEF Begin, Ticking
  <2> QED
    BY <2>1, <2>2
<1>6. ASSUME NEW p \in Processes, NEW o \in Outcomes, End(p, o) PROVE NoZombie'
  <2> SUFFICES ASSUME NEW a \in Agents, status'[a] = "running", ~(crashes' > 0)
               PROVE  Ticking(a)' # {}
    BY DEF NoZombie
  <2>1. status[a] = "running" /\ a # target[p]
    BY <1>6 DEF End
  <2>2. PICK q \in Processes : pc[q] = "ticking" /\ target[q] = a
    BY <1>6, <2>1 DEF End, NoZombie, Ticking
  <2> QED
    BY <1>6, <2>1, <2>2 DEF End, Ticking
<1>7. ASSUME NEW p \in Processes, Guard(p) \/ Activity(p) PROVE NoZombie'
  BY <1>7, ZombieQuiet DEF Guard, Activity
<1>8. ASSUME NEW p \in Processes, NEW exceeded \in BOOLEAN, Count(p, exceeded)
      PROVE  NoZombie'
  BY <1>8, ZombieQuiet DEF Count
<1>9. ASSUME NEW p \in Processes, SettleSuccess(p) \/ SettleFailure(p)
      PROVE  NoZombie'
  BY <1>9, ZombieQuiet DEF SettleSuccess, SettleFailure
<1>10. ASSUME NEW a \in Agents, Age(a) PROVE NoZombie'
  BY <1>10, ZombieQuiet DEF Age
<1>11. ASSUME NEW p \in Processes, Reconcile(p) PROVE NoZombie'
  BY <1>11, ZombieQuiet DEF Reconcile
<1>12. ASSUME NEW p \in Processes, NEW a \in Agents, NEW n \in 0..MaxStalls,
              Release(p, a, n) \/ CountStall(p, a, n) \/ GiveUp(p, a, n)
       PROVE  NoZombie'
  BY <1>12, ZombieQuiet DEF Release, CountStall, GiveUp, Reconciled
<1> QED
  BY <1>1, <1>2, <1>3, <1>4, <1>5, <1>6, <1>7, <1>8, <1>9, <1>10, <1>11, <1>12
  DEF Next, Loop, Tick

\* Whoever ticks, pauses, sweeps or releases: an agent that nobody ticks is not
\* left running, unless a tick was cut short.
THEOREM NoZombieCorrect == Spec => []NoZombie
<1>1. Init => NoZombie
  BY DEF Init, NoZombie
<1> QED
  BY <1>1, ZombieStep, TickTypeCorrect, PTL DEF Spec
=============================================================================
