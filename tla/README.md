# Grandpa: a TLA+ verification project

Grandpa is a local-first assistant: it answers by chat, by voice and over HTTP,
and it acts on the computer it runs on. The Python package `src/src/grandpa`
is the program; what is delicate in it is not any single action but the
protocols around actions: who may approve one, what happens when two callers
race for the same approval, what a timer does with something that was cancelled
a moment ago. Those protocols are what these modules model.

Paths below are relative to `src/src/grandpa` unless they start with `docs` or
`tests`.

## 1. Inventory

| Component | State it keeps | Operations | Interacts with | What is hard |
|---|---|---|---|---|
| Approval store and token approvals (`pc_control.py`) | table `pc_control_approvals`, `_STORE_LOCK`, `_EMERGENCY_STOP_ACTIVE` | stage, approve with a code, reject, emergency stop, reset, sweep | HTTP server, `grandpa approve` (another process), deferred consent (same table) | check, mark and execute are separate; two processes; a stop without the lock; a crash between marking and recording |
| Deferred consent (`deferred_actions.py`, deferred half of `pc_control.py`) | the same table, `origin_turns` | stage, peek, check witness and turn, re-ask, claim, deny, count a turn | voice, chat, HTTP, focus witness | the row checked is not the row claimed; racing answers; one row per origin; a window that changes at any time |
| Focus witness (`desktop/focus_witness.py`) | none | capture, compare | deferred consent, phrase front end | a capture that fails must never match |
| One-shot reminders (`reminders.py`) | table `reminders`, the scheduler thread | create, cancel, clear, tick (deliver and mark) | scheduler daemon, `grandpa reminders run-due` | cancel against a tick; two schedulers that claim nothing; a crash between delivering and marking; everything due is handled eventually |
| Routines and recurring reminders (`task_scheduler.py`, `scheduler_daemon.py`) | tables `routines`, `reminders`, `notifications`; the daemon thread | add, enable, delete, claim due, run, complete | daemon, HTTP tick, command line, approval store (a routine's action may need approval) | a claim by id only; claimed before delivered; a daemon in every server |
| Scheduled operator tasks (`scheduler/`, `operators/manager.py`) | table `scheduled_tasks`, run logs, poll thread | create, pause, resume, cancel, execute; activate and deactivate an operator | the system's `ask`; `grandpa scheduler` in another process | a whole row is read and written back; the lock is released while a task runs and belongs to one process |
| Managed agents (`agents/manager.py`, `executor.py`, `scheduler.py`, `cli/agent_cmd.py`) | table `managed_agents`, in-memory schedule | start and end a tick, pause, resume, archive, retry, reconcile stalls, budget | event bus, scheduler thread, every `grandpa agents` command | check-then-set guard; end of tick overwrites; every construction of the manager clears running rows; a stalled tick that is still alive |
| Patch proposals (`agent/execution/`, `agent/runtime.py`, `tools/apply_patch.py`, `tools/approval_store.py`) | table `pending_actions`, the workspace's files and their backups | propose, approve, reject, expire, apply, roll back, record; `agent rollback` | server routes, `grandpa agent patch` and `rollback`, editors of the same files, agents that call apply_patch themselves | decisions overwritten; freshness checked before writing; file after file with a failure in between; a write that breaks off; backups left behind, and put back later whatever the file says by then |
| Action layer (`action_layer/`) | catalogue, audit trail, queue of announcements | validate, confirm, execute, verify, announce | every front end, event bus | a queue that fills, a subscriber that stalls |
| Executive planner (`planner/`, `cli/plan_cmd.py`) | a snapshot of each session's plan in a file | create, confirm, run, answer, pause, cancel, retry, recover | action layer, several terminals | the whole snapshot is written back; a yes against retries and resumes; a process that dies between acting and saving |
| Workflow engine (`workflow/`) | the graph, per-node results, a pool of threads | find cycles, stage, run nodes alone or in parallel | event bus, tools | results in completion order; one node of a stage failing; a subscriber that raises |
| File commands: assistant kernel and file executor (`kernel/`, `files/`) | the file system, the kernel's audit | resolve, snapshot, authorize, execute, verify, answer | chat, HTTP, voice, other programs | a look and a deed are two steps; a failed copy; two doors to one directory |
| Event bus (`core/events.py`) | subscribers, history | subscribe, unsubscribe, publish | agents, workflow, bubble, server streams | callbacks run in the publisher's thread |
| Bubble (`ui/bubble.py`, `ui/bridge.py`, `cli/bubble_cmd.py`) | the orb's state, the busy flag, the ring | hold, type, read aloud, interrupt, collapse, close | speech, the action layer's announcements | four threads write one state without a lock |
| Goal mode (`agents/goal_mode.py`) | goals and their steps | observe, plan, act, pause | skills | see section 7 |
| Voice turns (`voice/`) | the turn counter, session state | listen, route, speak, stop | deferred consent | two entry points of one user |
| Sessions, memory, server, command line, engines, executors, speech, tools, Rust crates | rows, sockets, windows, devices | | | I/O and text; see section 7 |

For each component, what makes it correct:

* **Token approvals**: an action is performed at most once, and only while
  approved; what was rejected is not performed.
* **Deferred consent**: one open question per origin; performed at most once
  and only with that origin's own yes; a decision is final; a keystroke is sent
  only by a call that compared that very row with the window and the turn, unless
  another loop of the origin staged it after the comparison.
* **Reminders and routines**: what is due is delivered, and a delivery is repeated
  only for a tick that was cut short, for a second scheduler that read a reminder while
  the first had it in hand, or for a write that was overtaken; an edit is not undone.
* **Scheduled tasks and agents**: an edit and the end of a run do not lose each
  other; no way out of a tick leaves its agent running.
* **Plans and workflows**: dependencies are kept; an act that must be confirmed
  has its own yes; what says it is complete is; a run ends.
* **Files and patches**: no text is lost that nobody asked about; the answer
  agrees with the deed; a failed application leaves nothing behind; a row that says
  executed is true of the files. `agent rollback` can break the first and the last,
  and is the exception named in both.
* **Bubble**: every job ends in a state that takes the next one; what the orb
  shows of an action has an end to come.

## 2. Modules

| Module | Models | Uses |
|---|---|---|
| `ApprovalStore` | the table, the statements against it, the lock, calls and restarts | |
| `TokenApprovals` | codes, rejection and the emergency stop | extends `ApprovalStore` |
| `Consent` | abstract: what deferred consent promises | |
| `DeferredConsent` | staging, the witness and turn checks, claim and denial | extends `ApprovalStore`; implements `Consent` |
| `ApprovalKernel` | both over one table | extends `TokenApprovals`, `DeferredConsent` |
| `Reminders` | one-shot reminders: the table, cancelling and clearing, and the ticks that deliver | |
| `Routines` | routines and recurring reminders: claims, deliveries, runs and edits | |
| `ScheduledTasks` | the table of tasks, edits of whole rows, the poll thread, operators as tasks | |
| `AgentTicks` | the status of an agent as the guard of its tick, the ways out of a tick, the sweep, stalls | |
| `OrderedSteps` | abstract: work is done in the order of its dependencies | |
| `ExecutivePlan` | one plan, its snapshot, and the commands that work on copies of it | implements `OrderedSteps` |
| `Workflow` | the search for a cycle, the stages, the pool and the result of a run | implements `OrderedSteps` |
| `FileWork` | file commands through the kernel and through the executor, on one directory | |
| `PatchProposals` | proposals, decisions and their application to files with backups | |
| `Bubble` | the threads of the bubble, an action's span and its announcements | |
| `ApprovalKernelProofs` | lemmas and theorems about token approvals, deferred consent and both together | extends `ApprovalKernel` |
| `AnswersProofs` | lemmas and theorems about what the user is told and shown: three components that share no state | extends `Reminders`, `FileWork`, `Bubble` |
| `RoutinesProofs`, `ScheduledTasksProofs`, `AgentTicksProofs`, `ExecutivePlanProofs`, `WorkflowProofs`, `PatchProposalsProofs` | lemmas and theorems | extends the module it is about |
| `MC...` | instances for TLC | |

A module that is composed with others, or extended by one proof module together with
others, prefixes the names of its specification (`TokenSpec`, `FileSpec`, `BubbleInit`, ...).

### How state and actions correspond to the code

**Approvals.** `rows` is the table: one record per action id, status `"absent"`
until it is inserted. `now` is `time.time()` in ticks, `lock` each process's
`_STORE_LOCK`, `stop` each process's `_EMERGENCY_STOP_ACTIVE`. A call is a
thread's `pc` and the row in `arg`; it is cut into steps exactly where another
thread or process can act: at every SQL statement (a `with conn` block with its
writes is one transaction), at acquiring the lock, and before the action is
executed. A statement is an operator from a table to a table
(`MarkPendingDecision`, `SupersedeDeferred`, ...), so that the guard
`status = 'pending'` in its WHERE clause is visible in one place; the one
statement without it is `SetApprovalStatus`. Two reads are merged when nothing
between them can change what they read (the consent and the payload of a row
never change). `runs[p][i]` and `performed[i]` count the executions of an action:
they are history, not program state. `window` is the foreground window, which
changes at any moment; `turn` is `origin_turns`. In `Consent` the refinement maps
a pending row to an open question, an approved row to a granted or a done one
depending on whether it was performed, and every other status to a closed one.
`answerer` records whose answer claimed the row. Two histories are about the other
loops of an answer's origin: `newer` is the rows they staged since it peeked, `others` the
turns they counted since it compared the turn.

**The schedulers** have a table per module, one action per statement or read, and
one step for whatever no other actor can come between.

* `Reminders`: `status` and `due` are columns. A tick is `Read` (the SELECT of at
  most `Limit` rows, earliest first), then for each row `Notify` (the notifier
  answers, in any way) and `Mark`. `batch`, `current` and `outcome` are the local
  variables of `tick`; `cancelling` is the local variable of a `cancel` between
  its read and its UPDATE. `Crash` is a process that ends, or a store that
  raises, inside a tick. `delivered`, `cuts`, `contested` and `crashes` are history, of
  all schedulers together: how often a reminder was delivered, how often a tick was cut
  between notifying and marking it, and how often it was read while another tick had it in
  hand.
* `Routines`: a tick is `Select` and `Claim` for the reminders, then for the
  routines (`picked` is what a SELECT returned, with the run times it saw; `hand`
  what the UPDATE has claimed), then `Remind`, `RunRoutine` and `Complete` for
  each row. `Prepare` and `Write` are an edit that reads a row and writes it back.
  `claims`, `told`, `late`, `overtaken`, `wanted` and `cuts` are history: `late` is
  the writes prepared before another moved the row's next run, and `overtaken`
  counts those of them that were made. A tick through
  `/v1/scheduler/tick` goes through the daemon of its server if there is one
  (`server/routes.py:1160`), so a runner is a process.
* `ScheduledTasks`: a row is its status, `next_run` and whether `last_run` is
  set. An edit is `EditRead` (which computes the whole row it will write) and
  `Write`; `copy` holds the row in between, and whether `_lock` is held. A poll
  is `Poll`, then `Start`, `Finish` and `FinishWrite` for each task. Activating
  an operator is `ActivateCheck`, `ActivateCreate` and a `Write` without the
  lock. `runs`, `wanted` and `aborts` are history. No manifest schedules an
  operator `once`, so an operator's task is an interval.
* `AgentTicks`: `pc` says where a process is: a scheduler between its passes
  (`open`), firing, ticking, settling, or looking for stalls; a command from the
  AgentManager it opens to its end. `activity` is `last_activity_at` as the
  stall check sees it: none, recent, or older than the agent's timeout.

**`ExecutivePlan`.** `disk` is the snapshot in the session's file, `mem` the copy a
command's process works on; `Save` writes the whole copy. A command loads the
snapshot, changes it and may enter the loop of `_run`, whose steps are choosing the
next step, asking, beginning it (saved before it acts), acting, verifying and
recovering. What an action does and what the verifier finds are alternatives. A
process may end anywhere. `acted`, `answered`, `done`, `yes` and `overlap` are
history. `Ordered` maps a step to begun when its action was first performed.

**`Workflow`.** `_dfs` is `visited` and `path` (its call stack with the neighbours
each call has yet to look at); the mutable `indegree` and `ready` are those of
`execution_stages`. `node[n]` is where a node's thread stands, `verdict` what its
result says, `given` the keys of the copy of the outputs it was given, and `steps`
the list that `run` builds as results come in. A subscriber that raises ends a
node that runs alone and fails one in the pool.

**`FileWork`.** A caller's `call` holds what it has resolved, snapshotted and done
and what it answers. Through the kernel a command is resolve, validate, authorize,
execute, verify, translate; through the executor it is a look and a deed. Content
0 is a file opened for writing and not finished. Other programs write and delete
between any two steps. `free` and `wrote` are history.

**`PatchProposals`.** A file is the number of the text others wrote last and the set
of proposals patched into it; text -1 is a file that was emptied and not written.
`hash[i]` is what the files were when proposal `i` was built. Applying is two
freshness checks, each file by file, then for each file `ReadText`, `BackUp`,
`Open` and `Fill`; a tool that fails leads to `Restore` for each file patched so
far. `Record`, `Find` and `Mark` are `execute_proposal` after the tests, `Clean` is
`remove_backups`. A proposal names a file once. Which of a row's two names the command was
given is chosen at `Record`, as nothing is made of it before. `NewText` and `PutBack` are
others that write; an agent that calls apply_patch itself is a `NewText` that overwrites the
backup, or `ToolBreaks`. `RollBackUp` is `agent rollback` on one file: the loop keeps
nothing from one file to the next. `Shown` is what a file says, or its backup while
its writing broke off.

The histories: `texts` and `latest` count and remember what others wrote; `stale` is the
files whose backup broke off or is older than what others wrote; `raced` the files that
others wrote, that `agent rollback` restored or where a tool call broke off while an application
was about them, those it restored from a stale backup, and those that were torn already
when a tool call broke off, each until the next text of others;
`blurred` says that two applications wrote at once, or that one patched a torn file; `undone`
is the pairs of a proposal and a file from which others or `agent rollback` took the patch
away; `before` is what an application found, which it forgets when something else writes
the file.

**`Bubble`.** `state` is `BubbleState`. `worker` is where the one worker thread of
`_run_off_thread` stands, `warming` the thread that loads the speech model, `tk` the
window's thread in the middle of an interruption, `queue` and `note` the queue of
announcements and the one being published. A callback is `Look` and `Enter`, because it
screens the state and writes it without a lock. `seen`, `dropped`, `overtaken` and
`broke` are history.

## 3. Runs

| Run | Shows | Instance |
|---|---|---|
| `approval_kernel` | codes and answers never cross; one process performs nothing twice and nothing it was told to reject; a yes is one's own; what was decided stays decided | 2 actions, one server with a voice command and a request, one window that may be unreadable |
| `token_double` (finding) | two processes redeem one code and both perform | 1 action, server and `grandpa approve` |
| `deferred_race` | one row per origin, one performance per yes, decisions final: `Consent` is implemented; a keystroke is sent by a call that compared that row with the window on the turn after its staging, or was staged by the other loop after the comparison | 2 actions, 2 voice loops of one origin in 2 processes, 2 windows, 3 turns |
| `reminders` | a delivery is repeated only for a tick cut short after it, or for a scheduler that read what the other had in hand; triggered means delivered; cleared stays cleared; what is due does not stay pending | 2 reminders, the daemon and a `run-due`, one user, LIMIT 1, one crash |
| `routines` | a run time delivered again only for an overtaken write, lost only by a tick cut short; running means run; no claim undoes an edit | a daily routine, a recurring reminder, two servers, one user, one tick cut short |
| `tasks` | no edit and no end of a run lose each other; a `once` task runs once, plus once for each poll cut short; a due task does not stay due | a `once` task, an `interval` task or the second task an activation leaves, and an operator; daemon and caller in one process, one abort |
| `ticks` | no way out of a tick leaves its agent running with nobody ticking it; a stalled tick is released if the scheduler's own ticks return | 1 agent, the server's scheduler and a command, 1 stall retry, 1 crash |
| `plan` | an act that must be confirmed has its own yes; what says it is completed is; what cannot be undone is done once unless commands overlap; `OrderedSteps` is implemented; every step of a run brings it nearer to its end | a step that needs a yes, then one that is tried twice; 2 terminals, 3 commands, 2 confirmations |
| `workflow` | the search refuses exactly the cycles; a node's inputs do not depend on the schedule; the result is true of the nodes; `OrderedSteps` is implemented; a run ends | every graph of 4 nodes and at most 6 edges, a pool of 2 |
| `file_work` | nothing is lost that was not asked about and did not appear after the last look; the answer agrees with the deed | 3 files and a folder, 11 commands, 2 callers, 2 commands, 2 writes of other programs |
| `proposals` | no text is lost, but where others meet an application or `agent rollback` a stale backup; a failed application leaves nothing behind; a row that says executed is true of the files, until others or `agent rollback` take the patch away | a proposal for 2 files, 2 terminals and the server, one application at a time, one text or tool call of others, any number of rollbacks |
| `bubble` | it refuses a hold only at work, but for two ways out that are named; an action's color has its end to come; a reply nobody met is marked; no subscriber stalls an action | the bubble, 2 announcements in the queue |

The type invariants are in no configuration: what they say is little, beside the
other properties. All of them are proved (section 5).

**Bounds.** `MaxTime` caps the clock: past the last deadline nothing new can
happen. `MaxTurn` caps the turn counter; a loop at the cap ends its turn
uncounted. It is 2 in `deferred_race`: a row staged on turn 0 is answered too early, in time
and too late, and by a loop whose turns the other counts too; where turns are not the
question (`approval_kernel`) it is 1. `Ids` caps how many actions are ever staged: two racing calls need
one, superseding needs two. Two threads in one process reach every interleaving of
the lock; a third in another process adds what the lock does not order, which is
`token_double`. `Limit = 1` with two reminders is the case in which a tick leaves a
due reminder for a later one; the limits of `routines` are those of the code, which
one row of each kind cannot reach. `Day = 2` lets a routine fall due once. `MaxCrashes`,
`MaxAborts` and `MaxCuts` are 1: the properties count them. `MaxRuns` stops the count of a
task's runs: 3 is above what `OnceRunsOnce` allows with one abort. `MaxStalls = 1`
gives one stall that is released and one that is given up. The commands of one
`cli` process one after the other stand for any number of short processes; two
at the same time add no statement that the scheduler's thread does not make.
`MaxCommands = 3` is one command that stops in the middle, one that overlaps and one that
resumes; `MaxYes = 2` a yes that is used up and another. Four nodes with six edges
hold every shape the search distinguishes: chains, diamonds, cycles behind diamonds, and
no acyclic graph of four nodes has more. `MaxRequests` and `MaxContent` are 2: a call and one that gets
in its way, an old file and a new one. `MaxTexts = 1` is one edit, or one tool call of an agent,
finished or broken off, at any moment; putting back what a proposal was built from is not
counted, so a patch can be applied again and again, nor is `agent rollback`.
`MaxAtOnce = 1` keeps applications apart: nothing in the code does, and
section 4 says what two can do to each other. `QueueSize` is 2 for the code's 64:
what matters is that it fills.

**Deadlock** is checked where a system goes on for ever. `reminders`, `plan`, `file_work`
and `bubble` really come to rest (every id is cleared, every command given, the window
is closed), and say CHECK_DEADLOCK FALSE. In the approval runs sweeping and
restarting are always possible, so a run with no deadlock says little there; the code
takes the lock by `with` alone, which no way out of a call can keep. `workflow` ends in a state that
repeats, so that a pool waiting for itself would be a deadlock.

**Symmetry** permutes action ids, windows, terminals, callers and runners, on which no
action depends, and swaps the two voice loops together with their processes; only in runs
without liveness.

**Fairness.** The approval protocols promise nothing about progress: a row waits
until somebody answers or its deadline passes, and no timer sweeps. The same is true
of routines, files and proposals: all of their properties are safety properties. Each
fairness condition is a loop or a call of the code:

* `Reminders`: time passes, and the server's daemon keeps ticking: `_run` logs
  what a tick raised and ticks again. Nothing is assumed of `run-due`, `watch`,
  users or the notifier's answer.
* `ScheduledTasks`: time passes, the poll thread goes round (`_poll_loop` logs
  and goes on), and a call that has read a row writes it. The daemon's steps are
  strongly fair: it needs the lock its callers take, and it gets the lock because
  they do not call without a gap, one call after the other for ever. `ask` is assumed to
  return or to raise: it runs in the poll thread, and one that hangs stops
  every task.
* `AgentTicks`: a scheduler's thread keeps looping and settles a tick that has
  returned. `Reconcile` is strongly fair: the loop alternates firing and looking
  for stalls, so a pass that is possible again and again is taken. A tick need
  not return, and nobody has to run a command.
* `ExecutivePlan`: a command goes on by itself: everything it waits for has a
  deadline. That a run ends is stated as a rank that each of its steps lowers
  (`RunShrinks`), which needs no fairness.
* `Workflow`: `run` and its pool go on; a node returns or raises.
* `Bubble`: the worker goes on; an action returns. Nothing is assumed of the
  thread that announces: one of its subscribers may never return.

## 4. What disagrees with the documentation

Shown by a run: `PerformedOnce` (`token_double`). The lock and the ignored result of
`_mark_pending_decision` make "will not run again" true of one process only.

Met while modelling, and reachable in the modules. No property is stated of
these, or one is stated with the exception in it:

* **Approvals.** The emergency stop cancels without the lock and before raising its
  flag (`pc_control.py:550`), so a call in flight performs what it cancelled; and
  the flag is a variable of one process, so it holds back no other. A spoken yes
  names no row (`deferred_actions.py:184`), so with two voice loops the claim can
  take a row that the other staged after the check: its keystroke is sent without any
  of the three preconditions, which are said to be what lets it go out
  (`SentAsCompared` has the exception in it). The window can change between the check of
  its witness and the keys (`deferred_actions.py:92`). What became of a token action is
  written over whatever the row says by then (`pc_control.py:506`), a cancellation by the
  emergency stop included.
* **Reminders and tasks.** A due reminder "triggers exactly once"
  (`tests/test_reminders.py`), but the server's daemon and `grandpa reminders run-due` claim
  nothing before they deliver (`reminders.py:446`): what one reads while the other has it in
  hand is delivered by both (`RepeatsExplained` counts it). What a reminder tick or a poll
  has read is delivered, or
  started, whatever was cancelled since (`reminders.py:459`,
  `scheduler/scheduler.py:199`). The end of a run writes a next run, or
  `completed`, over a cancellation (`scheduler/scheduler.py:266`). `grandpa scheduler
  resume` writes back a whole row that it may have read before the daemon recorded
  a run: the `once` task is due again. `tasks` has its caller in the daemon's
  process, where the lock prevents this. Activating an operator saves a second row
  (`operators/manager.py:111`), and deactivating cancels one.
* **Routines.** Two servers have a daemon each (`server/app.py:110`), and a claim is by
  id only: both can deliver one run time. A claim that stalls between its SELECT and
  its UPDATE moves a next run back, so a later run time is delivered twice. A
  routine disabled after it was claimed still runs. A tick that raises loses the
  rest of what it claimed.
* **Agents.** Two processes can tick one agent: a status is read and set in two
  statements, and every process that opens the table clears it
  (`agents/manager.py:134`). A stalled tick that a scheduler runs itself is never
  released: the thread that would look for it waits for it
  (`agents/scheduler.py:175`); this is the condition `TicksReturn` of
  `StallReleased`. Every tick that ends sets `idle`, over a pause or an archiving
  during the tick (`agents/manager.py:255`), and the agent is fired again.
* **Plans.** The docs say V1 "checks cancellation between bounded steps", but a
  cancel from another terminal does not stop a running command: its copy is written back
  whole over it (`planner/executive.py:290`). A dry run that pauses for a confirmation and is
  resumed with `--yes` acts for real (`executive.py:416`). A process killed between
  saving `RUNNING` and the result leaves the step running for good. After a
  recovery the status stays `RECOVERING`. Ctrl-C prints "cancelled safely"
  (`cli/plan_cmd.py:88`) and cancels nothing.
* **Workflows.** `default_node_timeout` is asked of results that are there already;
  the condition of an edge is never evaluated; `validate` says it looks for orphans and does
  not; what a transform concatenates and the final output of a parallel stage depend on
  which node completed first.
* **Files.** A copy that breaks off leaves a part of the file, and the answer is
  "Destination already exists. Confirm overwrite." (`files/kernel_adapter.py:217`).
  A delete that was approved and whose file is gone by then takes the one file with
  a similar name, which nobody was asked about (`pc_control.py:1010`).
* **Patches.** A rollback is "ensuring only engine-applied changes are reverted"
  (`agent/execution/patch_applier.py:71`), but it copies the whole backup over whatever a user wrote
  since the patch. A write that breaks off leaves an emptied file that the
  rollback does not restore: only what succeeded has a backup it knows of
  (`FailureUndone` has the exception in it; `TextKept` says the backup is still there).
  A denial during the tests ends the command with "unsupported placeholder
  proposal" and the patch in the files. The server's routes approve a denied, an
  expired and an executed row alike. `patch reject` with a proposal's own name finds
  pending rows only, and says "Rejected" in any case. Two applications at once can
  back up the file the other has just emptied, and restore it. `grandpa agent rollback
  <execution-id>` is documented to restore the backups "created before execution"
  (`docs/user-guide/agent-execution-v2.md`); it ignores the id, copies every `.bak` of the
  workspace over its original and removes it (`cli/agent_run_cmd.py:297`). A backup left by
  a crash, by an unlink that failed or by an agent's own call of apply_patch, which never
  removes its own, takes a text written since with it, or the patch of a row that goes on saying
  executed. In the middle of an application it takes away what that is about to
  record (`TextKept`, `FailureUndone` and `ExecutedIsApplied` name the command as an
  exception).
* **Bubble.** A callback that looked before a request ended writes `executing` or
  `thinking` after it, and holds are refused until something is typed. A transcription
  that raises leaves `transcribing`. Purple means an automation is running "and only
  while one actually is" (`tests/ui/test_orb_executing_state.py:1`), but
  announcements lag or are dropped. "Holding the key during a spoken reply cuts it
  off" (`ui/bubble.py:860`) cannot happen: the worker that speaks keeps the flag
  that a hold must find cleared.

## 5. Proofs

Each theorem holds for every value of the constants that the module's assumptions
allow: any sets of ids, threads, processes, terminals and files, any bounds. The
argument is the same throughout: an invariant that implies the property, that the
initial states satisfy and that every action keeps. Below is what the property
lacked to be inductive, and the hypotheses that are more than the module's own.

**`ApprovalKernelProofs`**, first of token approvals alone: types, `PerformedOncePerProcess`, and
`PerformedOnce` when there is a single process: exactly the assumption that run
`token_double` drops. `PerformedOncePerProcess` says nothing of a call that is about to
execute. Beside the types and `LockMatchesCall`, a lemma that relates a call's place to
the lock it holds, `IndInv` adds

* `CallOK`: a call past its first step has a row, and what it found redeemable is a
  token row for good;
* `OnceInv`: a row that is absent, pending, or marked by a call still holding the lock
  has not been run by that process and no other thread of it is about to
  (`Untouched`); two threads of a process about to execute are about different
  rows, and neither row has run yet.

`ClosesTo` says that a table differs from another only in pending rows that took a given
status, which every statement guarded by `status = 'pending'` satisfies; `Quiet` steps (no
execution, no new call about to execute) keep `OnceInv` by one lemma. The lemmas are
about one call of one thread in a system whose calls may stand at places of other
protocols, so that the kernel can cite them.

**`ApprovalKernelProofs`**, then of both doors over one table. To the invariants of one door, a
call of the other is a step that decides pending rows and moves a thread among places of
its own (`Advances`, `DoorStep`); so each invariant is proved once for the calls of its
own door.

* `KernelTypeCorrect`, `KernelOncePerProcess`: the two above, with deferred consent beside.
* `DoorsStayApart` (`DoorsApart`) and `OnlyWithOwnYes` (`PerformedOnlyWithOwnYes`):
  `AnswerInv` adds that a row being performed is approved, was claimed by that thread's
  origin and not performed before, and that no two threads are about to perform one row.
* `DecidedDeferredStays` (`DeferredIsFinal`), from `Advances` alone.
* `RejectedStays` (`RejectedNeverPerformed`), if there is one process: with two, one can
  perform what it approved before the other rejected it.
* `KeystrokesCompared` and `StagedKeystrokesCompared` (`SentAsCompared`, with both doors and
  of deferred consent alone), for any number of loops that answer for one origin. The
  claim names no row, so the invariant (`WitnessInv`) is about all rows it could take: until
  its claim, an answer has compared the row it peeked at, and every other open question of its
  origin with a witness was staged by another loop since, except one that is overdue; and
  there is only one open question (`OneOpen`: superseding closes the others in the same
  transaction).
* `DeferredImplementsConsent` (`ConsentKept`): by `DeferredSpec`, every step asks, grants,
  performs or closes one question, or changes none. The sweeps close several rows at once,
  which is why `Consent` closes a set.

**`AnswersProofs`, reminders**: types, `TriggeredWasDelivered`, `RepeatsExplained` (for
finitely many schedulers), `ClearedStaysCleared`. What a tick is about to mark as triggered it
has delivered (`NotifiedWasDelivered`); a tick works on rows that exist, and a row it has notified is not
in its batch any more (`WorkExists`). The rest is a count over all schedulers
(`DeliveriesOK`): a row that still says pending was delivered only by ticks that were cut
before marking it or are about to, and what was delivered and what still will be is covered by the
first reading, the cuts and the readings while it was in another's hand.

**`RoutinesProofs`**: types and the four properties of run `routines`, for a finite number
of daemons. `RunningIsRun` and `EditsKept` need little more than types. `LostOnlyByCut` is
a count: a claim is told or is in exactly one tick's hand (`Counted`). For
`RepeatedOnlyIfOvertaken` (`OnceOK`), a next run, in a row or in a write being prepared, is
later than every claim that no overtaken write accounts for; what a tick's SELECT saw is the
row's next run still, or its write is `late`.

**`ScheduledTasksProofs`**: types, and with everybody in one process (`OneProcess`, as in
run `tasks`) `EditsKept`; with one poll thread besides (`OneDaemon`: `start` makes no second
one) `OnceRunsOnce`. A row about to be written under the lock was made from the row that is
still there (`CopyOK`, `LockOK`), and the one write without the lock is of an operator's
task. A `once` task that has run has no next run (`RanOK`), so it is not found due again;
what is in a batch or running has not run (`WorkOK`), and a task that is neither recorded nor
running has been started no more often than polls were cut short (`RunsOK`). `grandpa
scheduler` in a process of its own breaks the first hypothesis and both properties (section 4).

**`AgentTicksProofs`**: types and `NoZombie`. The type of the stall count needs `PassOK`: a
pass has read one count for each agent, and what it has released was below the bound.
`NoZombie` is inductive by itself: only `Begin` sets `running`, and the ways out of `ticking`
are `End`, which clears it, and `Crash`, which is counted.

**`ExecutivePlanProofs`**: everything run `plan` checks, for any finite set of steps
(`PlannerLimits` bounds it), with dependencies on earlier steps only.

* `SnapshotIsHonest` (`CompletedMeansDone`): `PlanOK` holds of the snapshot and of every
  process's copy, however old: what it shows as completed is done, it waits at its current
  step, and that step comes first among those that may run. A copy written back over a newer
  snapshot is true all the same, since what is done stays done.
* `ActsAreCovered` (`YesForEachAct`): a yes is an argument of one run. `YesInv` counts, for
  each step, the processes that hold a yes they have not used up (`Unspent`): with the acts,
  they are no more than the yeses.
* `ActsOnce` (`NonIdempotentOnce`): while no commands overlap, one process works and it knows
  the snapshot (`OnceOK`); a step that was acted on is shown, on disk and in its copy, in no
  status from which it would be begun again (`Fit`).
* `KeepsOrder` (`ImplementsOrder`): each step begins a step whose dependencies are done,
  finishes one, or neither.
* `RunsEnd` (`RunShrinks`): each step a process takes by itself lowers its rank: what it may
  still recover, the steps still open, and where it stands. That a run ends needs no fairness.

**`PatchProposalsProofs`**: types and the three properties of run `proposals`, for any
number of applications at once, where the run has one at a time. `FailureUndone` is about one
application: the backup of each file it has been through is what it found there, unless
something else wrote the file since (`OwnOK`). `TextKept` and `ExecutedIsApplied` are about
all of them, and are claimed while no two overlap (`blurred` says that two did): then what an
application holds in memory, in the backup and in the file is one text, and the backup has
every patch that the file had (`AloneOK`, `FileOK`). `OwnOK` and `AloneOK` say for each place
of an application which of its files are already written and which are still to come. `agent
rollback` may run between any two steps, so the invariant is about every backup there is, also
when no application is under way: it has the text others wrote last unless the file is in `stale`
(`BackupOK`). A step of others that meets no application leaves the others' files alone
(`AloneAside`), and what remains is that the one file it touches is as it should be.

**`WorkflowProofs`**: types, the three invariants of run `workflow` and `ImplementsOrder`,
for any finite graph, where the run has four nodes. `WorkflowInv` has a part for each phase of
a run. A recursive search suggests an induction over the graph; none is needed, because a
cycle is a set of nodes each with a successor in the set (`HasCycle`).

* The search (`SearchOK`): the nodes it has left lead only to nodes it has left, and no set of
  them leads back into itself. A node joins them when all its successors have: a set that it
  closed would lead back into itself without it. When a neighbour is on the path, the path from
  that neighbour on is a cycle. Each call has dealt with every neighbour it has struck off.
* The stages (`LayersOK`): `indegree` counts the predecessors that are in no stage yet, and
  `ready` is exactly the nodes that have none of those. If `ready` is empty, the nodes in no
  stage each have a predecessor among them; in a graph without a cycle there are none, so the
  stages hold every node (`SearchAndStagesCorrect`, which states `GraphJudged`).
* The run (`RunOK`, and `NodeOK` for each node): a node of an earlier stage has succeeded and is
  reported, one of a later stage is idle, and one of the stage at hand was given the outputs of
  the stages before. `InputsDoNotRace` (`GivenIsFixed`) and `AnswerIsHonest` (`ResultHonest`)
  follow at once; `steps` is as long as there are reported nodes.
* `KeepsTheOrder` (`ImplementsOrder`): what a node waits for lies in earlier stages, so it is
  done; each step begins nodes, finishes one, or neither, and nothing that is done or has begun
  is taken back.

**`AnswersProofs`, file commands**: types, `SaysWhatItDid` and `NothingLostUnasked`, for any
callers, files and requests. `CallFits` says of each place of a call what it has done by
then: nothing up to its deed, only a copy or an archive is written in two steps, a call that
is verified wrote or found what it was to make, and one that is about to be answered wrote if it
says that it succeeded. What other callers and programs do cannot disturb this, as it is about a call's own
record. For the action property it tells which commands can stand at a deed without having looked at their destination.

**`AnswersProofs`, the bubble**: types, `RefusesOnlyAtWork`, `PurpleEnds` and
`UnheardIsMarked`, for a queue of any size. None is inductive by itself:

* `RefusalOK`: not only that somebody is at work, but at a place of it that has a write to a
  state that takes a hold still ahead of it.
* `AnnouncedOK`: unless an announcement was dropped or an action is under way, each start in
  the queue has an end behind it, and a start being published has one in the queue. A start that
  enters `executing` has its end still to come, then.
* `ReplyOK`: while a reply is unseen the panel is collapsed and the reply was not spoken to the end;
  it is marked or the worker is on its way to marking it.

**Found on the way.** Four definitions did not say what they were meant to, and TLC had found
nothing on the instances of section 3. `RepeatedOnlyIfOvertaken` failed with two callers: a
write that moved the next run back to the value another had read was not counted as
overtaking, hence `late`. With two applications at once, or two proposals, the
properties of the proposals failed: what others had undone of one counted for the others as
well, hence `undone` as pairs. The state of
a question in `DeferredConsent` had cases that overlap. An operator scheduled `once` would
run again after each activation; none is. `HasCycle` quantified over `SUBSET Nodes \ {{}}`, which TLC and
the prover group differently; it has parentheses now.

**Assumptions.** Those of the modules: every thread runs in some process, actors of
different kinds are different, a deadline lies in the future, bounds are natural numbers, the
steps of a plan, the schedulers of the reminders and the daemons of the routines are finitely many, `None` (`NoEvent`) is none of the values
it stands beside, the graph of a workflow has finitely many nodes and its edges lie between them, the
directory of `FileWork` has a file, and there is something to be asked for. TLC evaluates each in the run of its module.

**Model-checked only.** Liveness: `DueIsHandled` (run `reminders`), `DueIsRun` (`tasks`),
`StallReleased` (`ticks`), `RunEnds` (`workflow`) and `ActionReturns` (`bubble`). Fairness needs ENABLED, which
is out of the prover's reach. Every other property that a run finds to hold is a theorem;
`PerformedOnce` with two processes is false (section 4). No module declares a RECURSIVE operator.

## 6. Plan

Done: the modules of section 2, their runs, and a theorem for every safety property of
theirs. Left:

1. A rank for `Workflow`, as `RunShrinks` is for `ExecutivePlan`: that a run ends would then need no
   fairness.
2. Stopping and restarting the poll thread in `ScheduledTasks`; retries within a
   tick and the schedule in `AgentTicks`; two applications at once in
   `PatchProposals`, with what is lost by them as a finding.
3. Goal mode, as a process over the same kind of snapshot as `ExecutivePlan`.

## 7. Not modelled, and why

Executors (windows, browser, volume) call the operating system; of the file
executor, extracting archives, folders as sources, protected paths, searching and
reading are left out. Parsing, wording, audit lines and read-backs are text. The
retention sweep deletes rows that were decided days earlier, the audit log is
append-only, and both leave pending rows alone. SQLite errors (a locked or full
database) abort a call at a statement, which is what a restart of its process does
in the model, short of the lock, which `with` releases. Sessions, memory and
knowledge are queries over rows without a protocol. The Rust crates re-implement
Python packages.

Goal mode runs its skills dry, and a goal that waits for an approval stays there:
nothing approves it. The kernel's confirmation branch is reached by no tool that
production registers. A plan's decomposition and its validation are the local
model's answer and a table. A proposal that is a placeholder is denied whenever it
is looked at, and never applied. Permission memory is a table of counts.

Most of the source is none of this: a catalogue of actions, routes, commands,
doctor checks, user interface and connectors, whose lines translate to no state a
property could be about. That is why the lines the map covers are a small share.
