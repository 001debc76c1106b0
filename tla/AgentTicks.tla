----------------------------- MODULE AgentTicks -----------------------------
(***************************************************************************)
(* The ticks of managed agents (agents/manager.py, executor.py,            *)
(* scheduler.py, cli/agent_cmd.py).  A tick is guarded by the status of    *)
(* the agent's row: `running` while it lasts.  Schedulers (the server's,   *)
(* `grandpa agents daemon`) fire what is due and look for stalls, one      *)
(* thread each; every command of the CLI is a process of its own.  All of  *)
(* them share the table, and each opens it with an AgentManager, which     *)
(* clears `running` rows.                                                  *)
(*                                                                         *)
(* Abstracted: when a schedule falls due (at any time), what a tick does,  *)
(* its retries within, and the amounts it spends.                          *)
(***************************************************************************)
EXTENDS Integers, FiniteSets

CONSTANTS
  Agents,      \* agent ids
  Scheduled,   \* those with a cron or interval schedule
  Schedulers,  \* processes that run an AgentScheduler
  Commands,    \* processes of the command line
  MaxStalls,   \* max_stall_retries
  MaxCrashes,  \* bound on ticks and passes that are cut short
  None         \* no agent

ASSUME AgentsAssumption == Scheduled \subseteq Agents /\ None \notin Agents
ASSUME ProcessesAssumption == Schedulers \cap Commands = {}
ASSUME BoundsAssumption == MaxStalls \in Nat /\ MaxCrashes \in Nat

VARIABLES
  status,     \* of each agent
  stalls,     \* its stall_retries
  activity,   \* its last_activity_at: never, recent, or older than its timeout
  overBudget, \* its total_cost or total_tokens exceeds its limit
  pc,         \* where each process is
  target,     \* the agent it ticks
  outcome,    \* how the tick ended
  seen,       \* the stalls a scheduler's pass has read, with their retries
  crashes     \* ticks and passes cut short

vars == <<status, stalls, activity, overBudget, pc, target, outcome,
          seen, crashes>>
agentVars == <<stalls, activity, overBudget>>
tickVars == <<outcome, seen, crashes>>

Processes == Schedulers \cup Commands
Statuses == {"idle", "running", "paused", "archived", "error",
             "needs_attention", "budget_exceeded"}
Outcomes == {"ok", "escalate", "failed"}

TypeOK ==
  /\ status \in [Agents -> Statuses]
  /\ stalls \in [Agents -> 0..MaxStalls]
  /\ activity \in [Agents -> {"never", "recent", "old"}]
  /\ overBudget \in [Agents -> BOOLEAN]
  /\ pc \in [Processes -> {"down", "open", "fired", "guarded", "ticking",
                           "ended", "counted", "reconciling", "released"}]
  /\ target \in [Processes -> Agents \cup {None}]
  /\ outcome \in [Processes -> Outcomes]
  /\ seen \in [Processes -> SUBSET (Agents \X (0..MaxStalls))]
  /\ crashes \in 0..MaxCrashes

Init == /\ status = [a \in Agents |-> "idle"]
        /\ stalls = [a \in Agents |-> 0]
        /\ activity = [a \in Agents |-> "never"]
        /\ overBudget = [a \in Agents |-> FALSE]
        /\ pc = [p \in Processes |-> "down"]
        /\ target = [p \in Processes |-> None]
        /\ outcome = [p \in Processes |-> "ok"]
        /\ seen = [p \in Processes |-> {}]
        /\ crashes = 0

SetStatus(a, s) == status' = [status EXCEPT ![a] = s]
Goto(p, l) == pc' = [pc EXCEPT ![p] = l]

\* A scheduler goes back to its loop, a command ends.
Done(p) == IF p \in Schedulers THEN "open" ELSE "down"

(***************************************************************************)
(* AgentManager: opening the table, and the commands that set a status.    *)
(***************************************************************************)
\* _clear_stale_running_state, of every AgentManager that is constructed.
Sweep == status' = [a \in Agents |-> IF status[a] = "running" THEN "idle"
                                     ELSE status[a]]

Open(p) == /\ pc[p] = "down"
           /\ Sweep
           /\ Goto(p, "open")
           /\ UNCHANGED <<target, tickVars, agentVars>>

Command(p, a, s) ==
  /\ p \in Commands /\ pc[p] = "open"
  /\ SetStatus(a, s)
  /\ Goto(p, "down")
  /\ UNCHANGED <<target, tickVars, agentVars>>

Pause(p, a) == Command(p, a, "paused")
Archive(p, a) == Command(p, a, "archived")
Resume(p, a) == Command(p, a, "idle")       \* resume, and recover

\* list, info, logs: a command that only reads.
Close(p) == /\ p \in Commands /\ pc[p] = "open"
            /\ Goto(p, "down")
            /\ UNCHANGED <<status, target, tickVars, agentVars>>

(***************************************************************************)
(* A tick.                                                                 *)
(***************************************************************************)
\* `agents run` and `agents ask` build a second AgentManager; `ask` does not
\* look whether the agent is archived.
Run(p, a) == /\ p \in Commands /\ pc[p] = "open"
             /\ Sweep
             /\ Goto(p, "fired")
             /\ target' = [target EXCEPT ![p] = a]
             /\ UNCHANGED <<tickVars, agentVars>>

\* _check_due_agents; an agent in error or in need of attention is fired.
Fire(p, a) == /\ p \in Schedulers /\ pc[p] = "open"
              /\ a \in Scheduled
              /\ status[a] \in {"idle", "error", "needs_attention"}
              /\ Goto(p, "fired")
              /\ target' = [target EXCEPT ![p] = a]
              /\ UNCHANGED <<status, tickVars, agentVars>>

\* start_tick reads the status ...
Guard(p) == /\ pc[p] = "fired"
            /\ Goto(p, IF status[target[p]] = "running" THEN Done(p)
                       ELSE "guarded")
            /\ UNCHANGED <<status, target, tickVars, agentVars>>

\* ... and sets it.
Begin(p) == /\ pc[p] = "guarded"
            /\ SetStatus(target[p], "running")
            /\ Goto(p, "ticking")
            /\ UNCHANGED <<target, tickVars, agentVars>>

\* A tool call or an inference starts.
Activity(p) == /\ pc[p] = "ticking"
               /\ activity' = [activity EXCEPT ![target[p]] = "recent"]
               /\ UNCHANGED <<status, stalls, overBudget, pc, target, tickVars>>

\* Mutant of End: a tick that fails does not release the guard.
EndOnSuccess(p, o) ==
  /\ pc[p] = "ticking"
  /\ IF o = "ok" THEN SetStatus(target[p], "idle") ELSE UNCHANGED status
  /\ outcome' = [outcome EXCEPT ![p] = o]
  /\ Goto(p, "ended")
  /\ UNCHANGED <<target, seen, crashes, agentVars>>

\* _finalize_tick: end_tick, and then what the outcome calls for.
End(p, o) == /\ pc[p] = "ticking"
             /\ SetStatus(target[p], "idle")
             /\ outcome' = [outcome EXCEPT ![p] = o]
             /\ Goto(p, "ended")
             /\ UNCHANGED <<target, seen, crashes, agentVars>>

\* The cost of a tick that succeeded is added, and its stalls are forgiven.
Count(p, exceeded) ==
  /\ pc[p] = "ended" /\ outcome[p] = "ok"
  /\ stalls' = [stalls EXCEPT ![target[p]] = 0]
  /\ overBudget' = [overBudget EXCEPT ![target[p]] = @ \/ exceeded]
  /\ Goto(p, "counted")
  /\ UNCHANGED <<status, activity, target, tickVars>>

SettleSuccess(p) ==
  /\ pc[p] = "counted"
  /\ IF overBudget[target[p]] THEN SetStatus(target[p], "budget_exceeded")
     ELSE UNCHANGED status
  /\ Goto(p, Done(p))
  /\ UNCHANGED <<target, tickVars, agentVars>>

SettleFailure(p) ==
  /\ pc[p] = "ended" /\ outcome[p] # "ok"
  /\ SetStatus(target[p], IF outcome[p] = "escalate" THEN "needs_attention"
                          ELSE "error")
  /\ Goto(p, Done(p))
  /\ UNCHANGED <<target, tickVars, agentVars>>

\* A subscriber or a statement raises out of the tick or the pass, or the
\* process ends.
Crash(p) == /\ pc[p] # "down"
            /\ crashes < MaxCrashes
            /\ crashes' = crashes + 1
            /\ pc' \in {[pc EXCEPT ![p] = Done(p)], [pc EXCEPT ![p] = "down"]}
            /\ seen' = [seen EXCEPT ![p] = {}]
            /\ UNCHANGED <<status, target, outcome, agentVars>>

(***************************************************************************)
(* Stalls.                                                                 *)
(***************************************************************************)
\* last_activity_at falls behind the timeout.
Age(a) == /\ activity[a] = "recent"
          /\ activity' = [activity EXCEPT ![a] = "old"]
          /\ UNCHANGED <<status, stalls, overBudget, pc, target, tickVars>>

Stalled(a) == status[a] = "running" /\ activity[a] = "old"

\* _reconcile reads all agents ...
Reconcile(p) ==
  /\ p \in Schedulers /\ pc[p] = "open"
  /\ \E a \in Agents : Stalled(a)
  /\ seen' = [seen EXCEPT ![p] = {<<a, stalls[a]>> : a \in {b \in Agents : Stalled(b)}}]
  /\ Goto(p, "reconciling")
  /\ UNCHANGED <<status, target, outcome, crashes, agentVars>>

\* ... and, for those that stalled, releases the guard ...
Release(p, a, n) ==
  /\ pc[p] = "reconciling" /\ <<a, n>> \in seen[p]
  /\ n < MaxStalls
  /\ SetStatus(a, "idle")
  /\ target' = [target EXCEPT ![p] = a]
  /\ Goto(p, "released")
  /\ UNCHANGED <<tickVars, agentVars>>

\* The pass goes on to its next agent, or ends.
Reconciled(p, a, n) ==
  /\ seen' = [seen EXCEPT ![p] = @ \ {<<a, n>>}]
  /\ Goto(p, IF seen[p] = {<<a, n>>} THEN "open" ELSE "reconciling")

\* ... and counts the retry it has read, plus one.
CountStall(p, a, n) ==
  /\ pc[p] = "released" /\ target[p] = a /\ <<a, n>> \in seen[p]
  /\ stalls' = [stalls EXCEPT ![a] = n + 1]
  /\ Reconciled(p, a, n)
  /\ UNCHANGED <<status, activity, overBudget, target, outcome, crashes>>

\* Mutant of GiveUp: an agent without retries left is passed over.
GiveUpQuietly(p, a, n) ==
  /\ pc[p] = "reconciling" /\ <<a, n>> \in seen[p]
  /\ n >= MaxStalls
  /\ Reconciled(p, a, n)
  /\ UNCHANGED <<status, target, outcome, crashes, agentVars>>

\* The last retry has stalled too.
GiveUp(p, a, n) ==
  /\ pc[p] = "reconciling" /\ <<a, n>> \in seen[p]
  /\ n >= MaxStalls
  /\ SetStatus(a, "error")
  /\ Reconciled(p, a, n)
  /\ UNCHANGED <<target, outcome, crashes, agentVars>>

(***************************************************************************)
(* The system.                                                             *)
(***************************************************************************)
\* The scheduler's thread, without the agent it waits for.
Loop(p) == \/ p \in Schedulers /\ Open(p)
           \/ \E a \in Agents : Fire(p, a)
           \/ p \in Schedulers /\ (Guard(p) \/ Begin(p))
           \/ Reconcile(p)
           \/ \E a \in Agents, n \in 0..MaxStalls :
                Release(p, a, n) \/ CountStall(p, a, n) \/ GiveUp(p, a, n)

Tick(p) == \/ Guard(p) \/ Begin(p) \/ Activity(p)
           \/ \E o \in Outcomes : End(p, o)
           \/ \E exceeded \in BOOLEAN : Count(p, exceeded)
           \/ SettleSuccess(p) \/ SettleFailure(p)

User(p, a) == Pause(p, a) \/ Archive(p, a) \/ Resume(p, a) \/ Run(p, a)

Next == \/ \E p \in Processes : Loop(p) \/ Open(p) \/ Tick(p) \/ Crash(p) \/ Close(p)
        \/ \E p \in Processes, a \in Agents : User(p, a)
        \/ \E a \in Agents : Age(a)

\* A scheduler's thread keeps looping, looks for stalls between the ticks it
\* fires, and settles a tick that has returned.  A tick need not return, and
\* nobody has to run a command.
Fairness ==
  \A p \in Schedulers :
    /\ WF_vars(Loop(p))
    /\ SF_vars(Reconcile(p))
    /\ WF_vars(Count(p, FALSE) \/ SettleSuccess(p) \/ SettleFailure(p))

Spec == Init /\ [][Next]_vars /\ Fairness
-----------------------------------------------------------------------------
Ticking(a) == {p \in Processes : pc[p] = "ticking" /\ target[p] = a}

\* No way out of a tick leaves its agent `running` for good, which would have
\* start_tick refuse every later one (agents/executor.py:107): an agent that
\* nobody ticks is running only if a tick was cut short.
NoZombie == \A a \in Agents : status[a] = "running" => Ticking(a) # {} \/ crashes > 0

\* A tick that stalls, or whose process died, does not keep its agent: a
\* scheduler releases it (agents/scheduler.py:194, "Check running agents for
\* stalls and handle retries.").  The thread that looks for stalls is the one
\* that waits for the scheduler's own ticks, so this needs those to return.
TicksReturn == \A p \in Schedulers : []<>(pc[p] # "ticking")
StallReleased == TicksReturn => \A a \in Agents : Stalled(a) ~> ~Stalled(a)
=============================================================================
