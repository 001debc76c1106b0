------------------------------ MODULE Workflow ------------------------------
(***************************************************************************)
(* One run of a workflow (workflow/engine.py) over a graph of nodes        *)
(* (workflow/graph.py): the depth-first search for a cycle, the layering   *)
(* into stages, and the stages one after the other.  A stage of one node   *)
(* runs in the caller's thread, a larger one in a pool of threads that     *)
(* each get a copy of the outputs so far; results are taken in as they     *)
(* complete.  Subscribers of the event bus are called from within a run    *)
(* (core/events.py) and an exception of theirs is not caught there.        *)
(*                                                                         *)
(* A node's output is not modelled: only whether it succeeded and which    *)
(* outputs it was given.  The engine keeps nothing between runs.           *)
(***************************************************************************)
EXTENDS Integers, Sequences, FiniteSets

CONSTANTS Nodes,       \* the ids of the graph's nodes
          Graphs,      \* the sets of edges to consider
          Kind,        \* NodeType of each node
          HasSystem,   \* whether run is given a system, with a tool executor
          Iterations,  \* max_iterations of a loop node
          MaxParallel, \* WorkflowEngine.max_parallel
          BusRaises    \* whether a subscriber of the bus may raise

NodeTypes == {"agent", "tool", "condition", "parallel", "loop", "transform"}

ASSUME WorkflowAssumption ==
  /\ IsFiniteSet(Nodes)
  /\ Graphs \subseteq SUBSET (Nodes \X Nodes)
  /\ Kind \in [Nodes -> NodeTypes]
  /\ Iterations \in [Nodes -> Nat]
  /\ MaxParallel \in Nat \ {0}
  /\ HasSystem \in BOOLEAN /\ BusRaises \in BOOLEAN

VARIABLES edges,     \* the graph
          pc,        \* where run is
          visited,   \* _dfs: the nodes it has entered
          path,      \* _dfs: its calls, outermost first, each with its node and
                     \* the neighbours it still has to look at
          indegree,  \* execution_stages: edges into a node from unstaged ones
          ready,     \* execution_stages: the nodes of the next stage
          stages,    \* the stages found so far
          at,        \* the stage that runs
          node,      \* what each node is doing
          verdict,   \* what its result says
          given,     \* the nodes whose outputs its copy of the outputs holds
          steps,     \* all_steps: the nodes reported, in that order
          success,   \* as in the code
          performed  \* history: the nodes that did what they are there for

graphVars == <<visited, path, indegree, ready, stages>>
runVars == <<at, node, verdict, given, steps, success, performed>>
vars == <<edges, pc, graphVars, runVars>>

Successors(n) == {m \in Nodes : <<n, m>> \in edges}
Predecessors(n) == {m \in Nodes : <<m, n>> \in edges}

\* Mutant of OnPath: a node the search has left counts as still on its path.
OnPathVisited == visited

\* in_stack of _dfs.
OnPath == {path[i].node : i \in DOMAIN path}
Indegrees == [n \in Nodes |-> Cardinality(Predecessors(n))]

Init == /\ edges \in Graphs
        /\ pc = "validate"
        /\ visited = {} /\ path = <<>>
        /\ indegree = Indegrees /\ ready = {} /\ stages = <<>>
        /\ at = 0
        /\ node = [n \in Nodes |-> "idle"]
        /\ verdict = [n \in Nodes |-> "none"]
        /\ given = [n \in Nodes |-> {}]
        /\ steps = <<>> /\ success = TRUE /\ performed = {}
-----------------------------------------------------------------------------
(* WorkflowGraph.validate: the order in which nodes and neighbours are     *)
(* looked at is the order they were added in, which may be any.            *)
Enter(n) == /\ visited' = visited \cup {n}
            /\ path' = Append(path, [node |-> n, left |-> Successors(n)])

\* Mutant of Rest: a neighbour that was looked at is not struck off.
RestAll(m) == path

\* The neighbours the innermost call has left, one of which it has looked at.
Rest(m) == [path EXCEPT ![Len(path)].left = @ \ {m}]

DfsFrom(n) == /\ pc = "validate" /\ path = <<>> /\ n \notin visited
              /\ Enter(n)
              /\ UNCHANGED <<edges, pc, indegree, ready, stages, runVars>>

DfsNeighbour(m) ==
  /\ pc = "validate" /\ path # <<>> /\ m \in path[Len(path)].left
  /\ \/ /\ m \in OnPath                          \* cycle detected
        /\ pc' = "invalid" /\ success' = FALSE
        /\ UNCHANGED <<visited, path>>
     \/ /\ m \in visited \ OnPath
        /\ path' = Rest(m)
        /\ UNCHANGED <<pc, success, visited>>
     \/ /\ m \notin visited
        /\ visited' = visited \cup {m}
        /\ path' = Append(Rest(m), [node |-> m, left |-> Successors(m)])
        /\ UNCHANGED <<pc, success>>
  /\ UNCHANGED <<edges, indegree, ready, stages, at, node, verdict, given, steps,
                 performed>>

DfsReturn == /\ pc = "validate" /\ path # <<>> /\ path[Len(path)].left = {}
             /\ path' = SubSeq(path, 1, Len(path) - 1)
             /\ UNCHANGED <<edges, pc, visited, indegree, ready, stages, runVars>>

Valid == /\ pc = "validate" /\ path = <<>> /\ visited = Nodes
         /\ \/ pc' = "layer"
            \/ BusRaises /\ pc' = "raised"      \* the event WORKFLOW_START
         /\ ready' = {n \in Nodes : indegree[n] = 0}
         /\ UNCHANGED <<edges, visited, path, indegree, stages, runVars>>

(* WorkflowGraph.execution_stages. *)
Layer ==
  LET left == [n \in Nodes |-> indegree[n] - Cardinality(Predecessors(n) \cap ready)]
  IN /\ pc = "layer" /\ ready # {}
     /\ stages' = Append(stages, ready)
     /\ indegree' = left
     /\ ready' = {n \in Nodes : left[n] = 0 /\ indegree[n] # 0}
     /\ UNCHANGED <<edges, pc, visited, path, runVars>>

Layered == /\ pc = "layer" /\ ready = {}
           /\ pc' = "run"
           /\ UNCHANGED <<edges, graphVars, runVars>>
-----------------------------------------------------------------------------
(* WorkflowEngine.run: the stages. *)
Stage == IF at = 0 THEN {} ELSE stages[at]
Alone == Cardinality(Stage) = 1
StageOver == \A n \in Stage : node[n] = "reported"
Reported == {steps[i] : i \in DOMAIN steps}
Running == {n \in Nodes : node[n] = "running"}

\* The pool has min(len(stage), max_parallel) threads.
FreeThread == Cardinality(Running) < MaxParallel

\* Mutant of Leave: only a node that ran alone can stop the workflow.
LeaveAlone == at = Len(stages) \/ (Alone /\ ~success)

Leave == at = Len(stages) \/ ~success

\* Mutant of Copy: the nodes of a stage share the outputs with the engine.
CopyShared(n) == given[n] \cup Reported

\* The outputs a node works with once it has begun: the copy made for it when its
\* stage was submitted (or, alone, the outputs themselves, which nobody changes).
Copy(n) == given[n]

EnterStage ==
  /\ pc = "run" /\ StageOver /\ ~Leave
  /\ at' = at + 1
  /\ node' = [n \in Nodes |-> IF n \in stages[at + 1] THEN "queued" ELSE node[n]]
  /\ given' = [n \in Nodes |-> IF n \in stages[at + 1] THEN Reported ELSE given[n]]
  /\ UNCHANGED <<edges, pc, graphVars, verdict, steps, success, performed>>

\* An exception out of _execute_node: caught for a node of the pool, not for one
\* that runs alone.
Raise(n) == IF Alone
            THEN /\ pc' = "raised"
                 /\ UNCHANGED <<node, verdict>>
            ELSE /\ node' = [node EXCEPT ![n] = "over"]
                 /\ verdict' = [verdict EXCEPT ![n] = "failed"]
                 /\ UNCHANGED pc

\* A thread of the pool takes the node up, or run itself does.
Begin(n) ==
  /\ pc = "run" /\ node[n] = "queued" /\ FreeThread
  /\ given' = [given EXCEPT ![n] = Copy(n)]
  /\ \/ /\ node' = [node EXCEPT ![n] = "running"]
        /\ UNCHANGED <<pc, verdict>>
     \/ BusRaises /\ Raise(n)                   \* the event WORKFLOW_NODE_START
  /\ UNCHANGED <<edges, graphVars, at, steps, success, performed>>

\* What the result of a node may say: a condition and a transformation succeed
\* whatever they compute, a loop that is not to run at all has no result.
Verdicts(n) ==
  CASE Kind[n] \in {"condition", "transform"} -> {"ok"}
    [] Kind[n] = "parallel" -> {"failed"}
    [] Kind[n] \in {"agent", "tool"} -> IF HasSystem THEN {"ok", "failed"} ELSE {"failed"}
    [] Kind[n] = "loop" /\ Iterations[n] = 0 -> {"failed"}
    [] OTHER -> IF HasSystem THEN {"ok", "failed"} ELSE {"ok"}

Finish(n) ==
  /\ pc = "run" /\ node[n] = "running"
  /\ \E v \in Verdicts(n) :
       /\ performed' = IF v = "ok" THEN performed \cup {n} ELSE performed
       /\ \/ /\ node' = [node EXCEPT ![n] = "over"]
             /\ verdict' = [verdict EXCEPT ![n] = v]
             /\ UNCHANGED pc
          \/ BusRaises /\ Raise(n)              \* the event WORKFLOW_NODE_END
  /\ UNCHANGED <<edges, graphVars, at, given, steps, success>>

\* Mutant of Judge: the last node of a stage decides.
JudgeLast(n) == verdict[n] = "ok"

Judge(n) == success /\ verdict[n] = "ok"

\* The result of a node that is over is taken in.
Collect(n) == /\ pc = "run" /\ node[n] = "over"
              /\ node' = [node EXCEPT ![n] = "reported"]
              /\ steps' = Append(steps, n)
              /\ success' = Judge(n)
              /\ UNCHANGED <<edges, pc, graphVars, at, verdict, given, performed>>

End == /\ pc = "run" /\ StageOver /\ Leave
       /\ \/ pc' = "done"
          \/ BusRaises /\ pc' = "raised"        \* the event WORKFLOW_END
       /\ UNCHANGED <<edges, graphVars, runVars>>

Over == pc \in {"invalid", "done", "raised"}

Work == \/ \E n \in Nodes : DfsFrom(n) \/ DfsNeighbour(n)
        \/ DfsReturn \/ Valid \/ Layer \/ Layered
        \/ EnterStage
        \/ \E n \in Nodes : Begin(n) \/ Finish(n) \/ Collect(n)
        \/ End

Next == Work \/ (Over /\ UNCHANGED vars)

\* The caller's thread and those of the pool go on, and every node returns: the
\* time limit of a node is asked of results that are there already, so nothing
\* else would end one that hangs.
Spec == Init /\ [][Next]_vars /\ WF_vars(Work)
-----------------------------------------------------------------------------
TypeOK == /\ edges \in Graphs
          /\ pc \in {"validate", "invalid", "layer", "run", "done", "raised"}
          /\ visited \subseteq Nodes /\ ready \subseteq Nodes
          /\ path \in Seq([node : Nodes, left : SUBSET Nodes])
          /\ indegree \in [Nodes -> Nat]
          /\ stages \in Seq(SUBSET Nodes) /\ {} \notin {stages[i] : i \in DOMAIN stages}
          /\ at \in 0 .. Len(stages)
          /\ node \in [Nodes -> {"idle", "queued", "running", "over", "reported"}]
          /\ verdict \in [Nodes -> {"none", "ok", "failed"}]
          /\ given \in [Nodes -> SUBSET Nodes]
          /\ steps \in Seq(Nodes) /\ success \in BOOLEAN
          /\ performed \subseteq Nodes
          /\ Cardinality(Running) <= MaxParallel

\* A graph has a cycle iff some of its nodes each lead to another one of them.
HasCycle == \E S \in (SUBSET Nodes) \ {{}} : \A n \in S : Successors(n) \cap S # {}

\* The verdict of the search does not depend on the order in which nodes and
\* edges were added: it refuses a graph exactly if the graph has a cycle.  What
\* it lets through falls into stages without a remainder, every edge from one
\* stage to a later one, so the nodes of a stage do not wait for each other.
GraphJudged ==
  /\ pc = "invalid" => HasCycle
  /\ pc \in {"run", "done"} =>
       /\ ~HasCycle
       /\ \A n \in Nodes : Cardinality({i \in DOMAIN stages : n \in stages[i]}) = 1
       /\ \A i, j \in DOMAIN stages : \A n \in stages[i], m \in stages[j] :
            <<n, m>> \in edges => i < j

\* The engine keeps the order the edges ask for, in the pool too: a node begins
\* and a node succeeds only after all the nodes it waits for succeeded, which
\* also means that nothing downstream of a failure is run.
Ordered == INSTANCE OrderedSteps WITH
             Steps <- Nodes,
             before <- [n \in Nodes |-> Predecessors(n)],
             began <- {n \in Nodes : node[n] \in {"running", "over", "reported"}},
             done <- {n \in Nodes : node[n] = "reported" /\ verdict[n] = "ok"}
ImplementsOrder == Ordered!OrderedSpec

\* What run answers is true of what its nodes did, in whatever order those of a
\* stage completed: success only if every node did what it is there for and is
\* reported, once; failure only if a reported node failed, be it for a subscriber
\* that raised when its work was done; and then no node of a later stage was begun.
ResultHonest ==
  pc = "done" =>
    /\ success => performed = Nodes /\ Reported = Nodes
    /\ ~success => \E n \in Reported : verdict[n] = "failed"
    /\ Len(steps) = Cardinality(Reported)
    /\ \A i \in DOMAIN stages : \A n \in stages[i] :
         verdict[n] = "failed" => \A j \in DOMAIN stages : j > i =>
                                    stages[j] \cap Reported = {}

\* What a node is given does not depend on how the threads of the pool are
\* scheduled: the outputs of all earlier stages and none of its own stage.
GivenIsFixed ==
  \A i \in DOMAIN stages : \A n \in stages[i] :
    node[n] \in {"running", "over", "reported"} =>
      given[n] = UNION {stages[j] : j \in 1 .. i - 1}

\* A run ends, whatever the graph, the failures and the subscribers.
RunEnds == <>Over
=============================================================================
