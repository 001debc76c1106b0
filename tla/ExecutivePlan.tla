---------------------------- MODULE ExecutivePlan ----------------------------
(***************************************************************************)
(* The Executive Planner (planner/executive.py) as the commands of         *)
(* `grandpa plan` use it: one plan of one session, a snapshot of it in a   *)
(* file (planner/state_store.py), and command processes that each work on  *)
(* a copy of their own and write the whole of it back.  A process may end  *)
(* at any step; the next command starts from the snapshot.                 *)
(*                                                                         *)
(* Steps are numbered in their order.  What a desktop action does is not   *)
(* modelled, only whether it was performed and what the executor and the   *)
(* verifier then say of it; each such answer is an alternative.            *)
(***************************************************************************)
EXTENDS Integers, FiniteSets

CONSTANTS Steps,         \* the steps of the plan, a set of positive numbers
          Deps,          \* StepDependency: what each step waits for
          NonIdempotent, \* the steps with an action of NON_IDEMPOTENT_ACTIONS
          NeedsYes,      \* the steps with requires_confirmation
          MaxAttempts,   \* RetryPolicy.max_attempts of each step
          StepRecoveries,\* RecoveryPolicy.max_recoveries of each step
          MaxRecoveries, \* PlannerLimits.max_recoveries
          Procs,         \* the terminals: at most one command runs in each
          MaxYes,        \* bound on the times the user says yes to a step
          MaxCommands    \* bound on the number of commands

ASSUME PlanAssumption ==
  /\ Steps \subseteq Nat \ {0} /\ IsFiniteSet(Steps)
  /\ Deps \in [Steps -> SUBSET Steps]
  /\ \A s \in Steps : \A d \in Deps[s] : d < s
  /\ NeedsYes \subseteq NonIdempotent /\ NonIdempotent \subseteq Steps
  /\ MaxAttempts \in [Steps -> Nat \ {0}]
  /\ StepRecoveries \in [Steps -> Nat] /\ MaxRecoveries \in Nat
  /\ MaxYes \in Nat /\ MaxCommands \in Nat

VARIABLES disk,     \* the snapshot of the session's plan, or NoPlan
          mem,      \* the copy each process works on, or NoPlan
          pc,       \* where each process is
          run,      \* the arguments of each process's _run
          acted,    \* history: how often the executor performed each step's action
                    \* (3 means 3 or more)
          answered, \* history: the steps acted on by an answer of the user's
          done,     \* history: the steps some run marked completed
          yes,      \* history: how often the user confirmed each step
          commands, \* how many commands were given
          overlap   \* history: a command began while another one was running

vars == <<disk, mem, pc, run, acted, answered, done, yes, commands, overlap>>
history == <<acted, answered, done, yes>>

Smaller(a, b) == IF a < b THEN a ELSE b

NoPlan == [status |-> "none"]
PlanStatuses == {"ready", "running", "waiting_for_confirmation",
                 "waiting_for_clarification", "paused", "recovering",
                 "completed", "partially_completed", "failed", "cancelled"}
StepStatuses == {"pending", "ready", "running", "retrying", "completed",
                 "waiting_for_confirmation", "waiting_for_clarification",
                 "failed", "blocked", "cancelled"}
Plans == [status : PlanStatuses, current : Steps \cup {0},
          step : [Steps -> StepStatuses], attempts : [Steps -> Nat],
          recovered : [Steps -> Nat], recoveries : 0 .. MaxRecoveries,
          confirmation : Steps \cup {0}, partial : BOOLEAN]
\* confirmed and resolved: the step the user said yes to, or answered about;
\* begun: its loop has begun a step; dry: --dry-run; prompts: the command asks
\* the user itself.
Runs == [confirmed : Steps \cup {0}, resolved : Steps \cup {0},
         begun : BOOLEAN, dry : BOOLEAN, prompts : BOOLEAN]
NoRun == [confirmed |-> 0, resolved |-> 0, begun |-> FALSE, dry |-> FALSE,
          prompts |-> FALSE]

\* A plan the validator found valid.
Fresh == [status |-> "ready", current |-> 0,
          step |-> [s \in Steps |-> "pending"],
          attempts |-> [s \in Steps |-> 0], recovered |-> [s \in Steps |-> 0],
          recoveries |-> 0, confirmation |-> 0, partial |-> FALSE]

Init == /\ disk = NoPlan
        /\ mem = [p \in Procs |-> NoPlan]
        /\ pc = [p \in Procs |-> "idle"]
        /\ run = [p \in Procs |-> NoRun]
        /\ acted = [s \in Steps |-> 0] /\ answered = {} /\ done = {}
        /\ yes = [s \in Steps |-> 0]
        /\ commands = 0 /\ overlap = FALSE
-----------------------------------------------------------------------------
(* The scheduler. *)
\* Mutant of Runnable: a dependency only has to have not failed.
RunnableUnlessFailed(pl) ==
  {s \in Steps : /\ pl.step[s] \in {"pending", "ready", "retrying"}
                 /\ \A d \in Deps[s] : pl.step[d] \notin {"failed", "blocked", "cancelled"}}

Runnable(pl) == {s \in Steps : /\ pl.step[s] \in {"pending", "ready", "retrying"}
                               /\ \A d \in Deps[s] : pl.step[d] = "completed"}
NextStep(pl) == CHOOSE s \in Runnable(pl) : \A t \in Runnable(pl) : s <= t

BlockedByDependency(pl) ==
  {s \in Steps : /\ pl.step[s] = "pending"
                 /\ \E d \in Deps[s] : pl.step[d] \in {"failed", "blocked", "cancelled"}}

(* What the planner does to a plan. *)
SetStep(pl, s, status) == [pl EXCEPT !.step[s] = status]

Failed(pl, partial) ==
  [pl EXCEPT !.status = IF partial /\ \E s \in Steps : pl.step[s] = "completed"
                        THEN "partially_completed" ELSE "failed"]

Cancelled(pl) ==
  [pl EXCEPT !.status = "cancelled", !.confirmation = 0,
             !.step = [s \in Steps |-> IF @[s] \in {"pending", "ready", "retrying"}
                                       THEN "cancelled" ELSE @[s]]]

MayRecover(pl, s) == /\ s \notin NonIdempotent
                     /\ pl.recoveries < MaxRecoveries
                     /\ pl.recovered[s] < Smaller(StepRecoveries[s], MaxRecoveries)

AttemptsLeft(pl, s) == pl.attempts[s] < MaxAttempts[s]

Settled == {"completed", "cancelled", "failed"}
-----------------------------------------------------------------------------
(* The commands.  Each is a process of its own: it reads the snapshot.     *)
Starts(p) == /\ pc[p] = "idle"
             /\ commands < MaxCommands /\ commands' = commands + 1
             /\ overlap' = (overlap \/ \E q \in Procs : pc[q] # "idle")

\* PlanStateStore.save of p's copy.
Save(p, pl) == mem' = [mem EXCEPT ![p] = pl] /\ disk' = pl

Goto(p, l) == pc' = [pc EXCEPT ![p] = l]

\* p works on with pl in memory only, from label l.
Works(p, pl, l) == mem' = [mem EXCEPT ![p] = pl] /\ Goto(p, l) /\ UNCHANGED disk

\* The command has printed its result and its process is gone.
Ends(p) == /\ Goto(p, "idle")
           /\ mem' = [mem EXCEPT ![p] = NoPlan]
           /\ run' = [run EXCEPT ![p] = NoRun]

Create(p) == /\ Starts(p) /\ disk = NoPlan
             /\ disk' = Fresh
             /\ UNCHANGED <<mem, pc, run, history>>

Execute(p, dry) ==
  /\ Starts(p) /\ disk = NoPlan
  /\ disk' = Fresh
  /\ mem' = [mem EXCEPT ![p] = [Fresh EXCEPT !.status = "running"]]
  /\ run' = [run EXCEPT ![p] = [NoRun EXCEPT !.dry = dry, !.prompts = ~dry]]
  /\ Goto(p, "loop")
  /\ UNCHANGED history

\* resume(confirmed=True) on a plan pl that waits for a confirmation.
Confirms(p, pl) ==
  /\ pl.status = "waiting_for_confirmation" /\ pl.current # 0
  /\ yes[pl.current] < MaxYes
  /\ Works(p, [pl EXCEPT !.confirmation = 0, !.status = "running",
                         !.step[pl.current] = "ready"], "loop")
  /\ run' = [run EXCEPT ![p].confirmed = pl.current]
  /\ yes' = [yes EXCEPT ![pl.current] = @ + 1]
  /\ UNCHANGED <<acted, answered, done>>

ResumeYes(p) == Starts(p) /\ Confirms(p, disk)

ResumePaused(p) == /\ Starts(p) /\ disk.status = "paused"
                   /\ Works(p, [disk EXCEPT !.status = "running"], "loop")
                   /\ UNCHANGED <<run, history>>

Clarify(p) == /\ Starts(p)
              /\ disk.status = "waiting_for_clarification" /\ disk.current # 0
              /\ Works(p, disk, "resolve")
              /\ UNCHANGED <<run, history>>

PauseRead(p) == /\ Starts(p) /\ disk.status \in {"running", "ready"}
                /\ Works(p, disk, "pause")
                /\ UNCHANGED <<run, history>>

CancelRead(p) == /\ Starts(p) /\ disk.status \notin Settled \cup {"none"}
                 /\ Works(p, disk, "cancel")
                 /\ UNCHANGED <<run, history>>

\* The current step, else the last failed one, unless its action is not
\* idempotent; the status of the plan is not looked at.
RetryStep(pl) ==
  IF pl.current # 0 THEN {pl.current}
  ELSE {s \in Steps : /\ pl.step[s] = "failed"
                      /\ \A t \in Steps : pl.step[t] = "failed" => t <= s}

Retry(p) ==
  /\ Starts(p) /\ disk # NoPlan
  /\ \E s \in RetryStep(disk) \ NonIdempotent :
       Works(p, [SetStep(disk, s, "retrying") EXCEPT !.status = "running"], "loop")
  /\ UNCHANGED <<run, history>>

PauseSave(p) == /\ pc[p] = "pause"
                /\ disk' = [mem[p] EXCEPT !.status = "paused"]
                /\ Ends(p)
                /\ UNCHANGED <<history, commands, overlap>>

CancelSave(p) == /\ pc[p] = "cancel"
                 /\ disk' = Cancelled(mem[p])
                 /\ Ends(p)
                 /\ UNCHANGED <<history, commands, overlap>>
-----------------------------------------------------------------------------
(* _run: the loop. *)
InRun(p, l) == pc[p] = l /\ UNCHANGED <<commands, overlap>>

\* The run ends with pl saved; a command that prompts stays to ask.
Stops(p, pl) ==
  /\ disk' = pl
  /\ IF run[p].prompts /\ pl.status \in {"waiting_for_confirmation",
                                         "waiting_for_clarification"}
     THEN Goto(p, "ask") /\ mem' = [mem EXCEPT ![p] = pl]
                         /\ run' = [run EXCEPT ![p] = [NoRun EXCEPT !.prompts = TRUE]]
     ELSE Ends(p)

\* The time limit, read at the top of every turn; a run's first turn is
\* within it.
TimeLimit(p) == /\ InRun(p, "loop") /\ run[p].begun
                /\ Stops(p, Failed(mem[p], FALSE))
                /\ UNCHANGED history

\* Mutant of BeginStep: the step is saved only with its result.
BeginStepUnsaved(p) ==
  /\ InRun(p, "loop") /\ Runnable(mem[p]) # {}
  /\ LET s == NextStep(mem[p])
     IN Works(p, [SetStep(mem[p], s, "running") EXCEPT
                    !.current = s,
                    !.attempts[s] = Smaller(@ + 1, MaxAttempts[s] + 1)], "execute")
  /\ run' = [run EXCEPT ![p].begun = TRUE]
  /\ UNCHANGED history

BeginStep(p) ==
  /\ InRun(p, "loop") /\ Runnable(mem[p]) # {}
  /\ LET s == NextStep(mem[p])
     IN Save(p, [SetStep(mem[p], s, "running") EXCEPT
                   !.current = s,
                   !.attempts[s] = Smaller(@ + 1, MaxAttempts[s] + 1)])
  /\ run' = [run EXCEPT ![p].begun = TRUE]
  /\ Goto(p, "execute")
  /\ UNCHANGED history

\* Mutant of AllCompleted: the plan is complete when nothing is left to run.
NothingLeft(p) ==
  /\ InRun(p, "loop") /\ Runnable(mem[p]) = {}
  /\ Stops(p, [mem[p] EXCEPT !.current = 0,
                 !.status = IF mem[p].partial THEN "partially_completed"
                                              ELSE "completed"])
  /\ UNCHANGED history

AllCompleted(p) ==
  /\ InRun(p, "loop") /\ \A s \in Steps : mem[p].step[s] = "completed"
  /\ Stops(p, [mem[p] EXCEPT !.current = 0,
                 !.status = IF mem[p].partial THEN "partially_completed"
                                              ELSE "completed"])
  /\ UNCHANGED history

\* dependency_failed and no_runnable_step.
NothingRunnable(p) ==
  /\ InRun(p, "loop") /\ Runnable(mem[p]) = {}
  /\ \E s \in Steps : mem[p].step[s] # "completed"
  /\ Stops(p, Failed([mem[p] EXCEPT !.step =
                        [s \in Steps |-> IF s \in BlockedByDependency(mem[p])
                                         THEN "blocked" ELSE @[s]]], TRUE))
  /\ UNCHANGED history

(* PlannerStepExecutor.execute, and what _run makes of its result.         *)
Current(p) == mem[p].current
Confirmed(p) == run[p].confirmed = Current(p)
Resolved(p) == run[p].resolved = Current(p)
\* Mutant of MustAsk: asks before the first attempt, counted when it has begun.
MustAskFirst(p) == /\ Current(p) \in NeedsYes /\ ~Confirmed(p) /\ ~Resolved(p)
                   /\ mem[p].attempts[Current(p)] = 0

MustAsk(p) == Current(p) \in NeedsYes /\ ~Confirmed(p) /\ ~Resolved(p)

\* The step needs a yes it does not have, or the desktop service asks for one.
NeedConfirmation(p) ==
  /\ InRun(p, "execute") /\ ~Resolved(p) /\ (run[p].dry => MustAsk(p))
  /\ LET s == Current(p)
     IN Stops(p, [SetStep(mem[p], s, "waiting_for_confirmation") EXCEPT
                    !.status = "waiting_for_confirmation", !.confirmation = s])
  /\ UNCHANGED history

\* More than one window or element matches.
NeedClarification(p) ==
  /\ InRun(p, "execute") /\ ~MustAsk(p) /\ ~Resolved(p) /\ ~run[p].dry
  /\ LET s == Current(p)
     IN Stops(p, [SetStep(mem[p], s, "waiting_for_clarification") EXCEPT
                    !.status = "waiting_for_clarification"])
  /\ UNCHANGED history

Act(p) == /\ InRun(p, "execute") /\ ~MustAsk(p) /\ ~Resolved(p) /\ ~run[p].dry
          /\ acted' = [acted EXCEPT ![Current(p)] = Smaller(@ + 1, 3)]
          /\ Goto(p, "acted")
          /\ UNCHANGED <<disk, mem, run, answered, done, yes>>

\* The result may be verified: it was acted on, or is a dry run's.
HasResult(p) == \/ pc[p] = "acted"
                \/ pc[p] = "execute" /\ (Resolved(p) \/ (run[p].dry /\ ~MustAsk(p)))

Completes(p, partial) ==
  /\ HasResult(p) /\ UNCHANGED <<commands, overlap>>
  /\ partial => ~run[p].dry
  /\ Save(p, [SetStep(mem[p], Current(p), "completed") EXCEPT
                !.partial = @ \/ partial])
  /\ done' = done \cup {Current(p)}
  /\ run' = [run EXCEPT ![p].resolved = 0]
  /\ Goto(p, "loop")
  /\ UNCHANGED <<acted, answered, yes>>

\* The action failed, before or after it did anything, or was not verified.
Unsuccessful(p) == \/ pc[p] = "acted"
                   \/ pc[p] = "execute" /\ ~MustAsk(p) /\ ~run[p].dry

\* Mutant of CountRecovery: only the step's own recoveries are counted.
RecoveryUncounted(pl, s) == pl

CountRecovery(pl, s) == [pl EXCEPT !.recoveries = @ + 1]

Recover(p) ==
  LET s == Current(p)
  IN /\ Unsuccessful(p) /\ UNCHANGED <<commands, overlap>>
     /\ MayRecover(mem[p], s) /\ AttemptsLeft(mem[p], s)
     /\ Save(p, [SetStep(CountRecovery(mem[p], s), s, "retrying") EXCEPT
                   !.status = "recovering", !.recovered[s] = @ + 1])
     /\ run' = [run EXCEPT ![p].resolved = 0]
     /\ Goto(p, "loop")
     /\ UNCHANGED history

\* A recovery that comes when no attempt is left is counted all the same.
StepFails(p) ==
  LET s == Current(p)
  IN /\ Unsuccessful(p) /\ UNCHANGED <<commands, overlap>>
     /\ \E result \in {"blocked", "failed"},
           pl \in {mem[p]} \cup {CountRecovery(mem[p], t) :
                       t \in {u \in {s} : MayRecover(mem[p], u) /\ ~AttemptsLeft(mem[p], u)}} :
          Stops(p, Failed(SetStep(pl, s, result), TRUE))
     /\ UNCHANGED history

(* clarify: the answer goes to the desktop service, which acts on it.      *)
ResolveActs(p) ==
  /\ InRun(p, "resolve") /\ answered' = answered \cup {Current(p)}
  /\ Works(p, [SetStep(mem[p], Current(p), "ready") EXCEPT !.status = "running"],
           "loop")
  /\ run' = [run EXCEPT ![p].resolved = Current(p)]
  /\ UNCHANGED <<acted, done, yes>>

ResolveAsksAgain(p) == InRun(p, "resolve") /\ Stops(p, mem[p]) /\ UNCHANGED history

ResolveFails(p) == /\ InRun(p, "resolve")
                   /\ Stops(p, Failed(mem[p], TRUE))
                   /\ UNCHANGED history

(* A command that prompts has the plan in memory: it reads no snapshot.    *)
AnswerYes(p) == pc[p] = "ask" /\ Confirms(p, mem[p])
                /\ UNCHANGED <<commands, overlap>>

AnswerNo(p) == /\ pc[p] = "ask" /\ mem[p].status = "waiting_for_confirmation"
               /\ disk' = Cancelled(mem[p])
               /\ Ends(p)
               /\ UNCHANGED <<history, commands, overlap>>

AnswerQuestion(p) == /\ InRun(p, "ask")
                     /\ mem[p].status = "waiting_for_clarification"
                     /\ Works(p, mem[p], "resolve")
                     /\ UNCHANGED <<run, history>>

\* The process is killed, or its user leaves the prompt.
Exit(p) == /\ pc[p] # "idle" /\ Ends(p)
           /\ UNCHANGED <<disk, history, commands, overlap>>
-----------------------------------------------------------------------------
Command(p) == \/ Create(p) \/ ResumeYes(p) \/ ResumePaused(p) \/ Clarify(p)
              \/ PauseRead(p) \/ CancelRead(p) \/ Retry(p)
              \/ \E dry \in BOOLEAN : Execute(p, dry)

\* The steps a process takes by itself.
Proceeds(p) == \/ PauseSave(p) \/ CancelSave(p)
               \/ TimeLimit(p) \/ BeginStep(p) \/ AllCompleted(p) \/ NothingRunnable(p)
               \/ NeedConfirmation(p) \/ NeedClarification(p) \/ Act(p)
               \/ \E partial \in BOOLEAN : Completes(p, partial)
               \/ Recover(p) \/ StepFails(p)
               \/ ResolveActs(p) \/ ResolveAsksAgain(p) \/ ResolveFails(p)

Answer(p) == AnswerYes(p) \/ AnswerNo(p) \/ AnswerQuestion(p)

Next == \E p \in Procs : Command(p) \/ Proceeds(p) \/ Answer(p) \/ Exit(p)

\* Every wait of the executor and of the verifier has a deadline, so a
\* process that lives takes its next step.
Spec == Init /\ [][Next]_vars /\ \A p \in Procs : WF_vars(Proceeds(p))
-----------------------------------------------------------------------------
TypeOK == /\ disk \in Plans \cup {NoPlan}
          /\ mem \in [Procs -> Plans \cup {NoPlan}]
          /\ pc \in [Procs -> {"idle", "loop", "execute", "acted", "ask", "resolve",
                             "pause", "cancel"}]
          /\ run \in [Procs -> Runs]
          /\ \A p \in Procs : pc[p] = "idle" <=> mem[p] = NoPlan
          /\ acted \in [Steps -> 0 .. 3]
          /\ answered \subseteq Steps /\ done \subseteq Steps
          /\ yes \in [Steps -> 0 .. MaxYes]
          /\ commands \in 0 .. MaxCommands /\ overlap \in BOOLEAN

\* "Clicks, typing, saves, dialog actions, browser submissions ... are never
\* retried automatically" (docs/user-guide/executive-planner.md): through
\* failures, recoveries, pauses, retries and processes killed at any step,
\* the planner performs such an action once, and not at all where an answer of
\* the user's did ("The original action is not replayed", same page); only
\* commands that overlap can repeat it.
NonIdempotentOnce ==
  \A s \in NonIdempotent :
    acted[s] > 1 \/ (acted[s] = 1 /\ s \in answered) => overlap

\* A step that must be confirmed acts no more often than the user said yes to
\* that very step, whichever process asked and whichever acts, with the
\* snapshot read back or the question asked again in between.
YesForEachAct == \A s \in NeedsYes : /\ acted[s] <= yes[s]
                                     /\ s \in answered => yes[s] > 0

\* The snapshot never claims more than happened: a plan said to be completed
\* has had each of its steps verified (or gone through by a dry run), and a
\* step said to be completed is one that was.
CompletedMeansDone ==
  /\ disk.status = "completed" => done = Steps
  /\ disk # NoPlan => \A s \in Steps : disk.step[s] = "completed" => s \in done

\* No step begins before the steps it depends on are done, in whichever
\* process they were done and whatever was retried: OrderedSteps, with a step
\* begun when its action was first performed, by the planner or for an answer.
Ordered == INSTANCE OrderedSteps WITH Steps <- Steps, before <- Deps,
                                      began <- answered \cup {s \in Steps : acted[s] > 0},
                                      done <- done
ImplementsOrder == Ordered!OrderedSpec

\* Recoveries and attempts are bounded and every step is begun in its turn, so
\* a run ends, in a result or in a question to its user, whatever fails: each
\* step a process takes by itself brings it nearer to that end.
Ranks == [loop |-> 0, acted |-> 1, execute |-> 2, resolve |-> 4, pause |-> 0,
          cancel |-> 0]
Rank(p) ==
  IF pc[p] \in {"idle", "ask"} THEN 0
  ELSE LET open == {s \in Steps : mem[p].step[s] \in {"pending", "ready", "retrying"}}
       IN 1 + Ranks[pc[p]] + 3 * Cardinality(open)
            + 6 * (MaxRecoveries - mem[p].recoveries)
RunShrinks ==
  [][\A p \in Procs : pc[p] \notin {"idle", "ask"} /\ pc'[p] # pc[p]
                       => Rank(p)' < Rank(p)]_vars
=============================================================================
