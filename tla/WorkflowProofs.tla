--------------------------- MODULE WorkflowProofs ---------------------------
(***************************************************************************)
(* A run of a workflow, for any graph of finitely many nodes, any kinds of *)
(* nodes and any number of threads in the pool: the search refuses exactly *)
(* the graphs with a cycle, what it lets through falls into stages, what a *)
(* node is given and what the run answers do not depend on the schedule,   *)
(* and the engine implements OrderedSteps.                                 *)
(*                                                                         *)
(* The invariant has a part for each phase.  None of it needs an induction *)
(* over the graph: a cycle is a set of nodes each with a successor in it,  *)
(* the nodes the search has left never contain one, and what no stage took *)
(* when none is ready would be one the other way round.                    *)
(***************************************************************************)
EXTENDS Workflow, FiniteSetTheorems, TLAPS

-----------------------------------------------------------------------------
(***************************************************************************)
(* The invariant.                                                          *)
(***************************************************************************)
\* No set of nodes of D leads back into itself, in either direction.
NoCycleIn(D) ==
  \A S \in SUBSET D : S # {} => /\ \E n \in S : Successors(n) \cap S = {}
                                /\ \E n \in S : Predecessors(n) \cap S = {}

\* The nodes the search has left, with all they lead to.
Left == visited \ OnPath

\* A call of _dfs has dealt with each neighbour it has struck off: the search
\* has left it, or it is the one of the call within.
DealtWith(i) ==
  \A m \in Successors(path[i].node) \ path[i].left :
    m \in Left \/ (i < Len(path) /\ m = path[i + 1].node)

SearchOK ==
  /\ OnPath \subseteq visited
  /\ \A i, j \in DOMAIN path : path[i].node = path[j].node => i = j
  /\ \A i \in DOMAIN path :
       /\ path[i].left \subseteq Successors(path[i].node)
       /\ i < Len(path) => path[i + 1].node \in Successors(path[i].node)
       /\ DealtWith(i)
  /\ \A n \in Left : Successors(n) \subseteq Left
  /\ NoCycleIn(Left)

\* No stage has been found, and no node begun.
Unstaged == indegree = Indegrees /\ stages = <<>>
Idle == /\ at = 0 /\ success
        /\ node = [n \in Nodes |-> "idle"] /\ verdict = [n \in Nodes |-> "none"]
        /\ given = [n \in Nodes |-> {}] /\ steps = <<>> /\ performed = {}

\* The nodes of the stages before the i-th.
Before(i) == UNION {stages[j] : j \in 1 .. i - 1}
Staged == UNION {stages[j] : j \in DOMAIN stages}

LayersOK ==
  /\ NoCycleIn(Nodes)
  /\ ready = {n \in Nodes \ Staged : Predecessors(n) \subseteq Staged}
  /\ indegree = [n \in Nodes |-> Cardinality(Predecessors(n) \ Staged)]
  /\ \A i \in DOMAIN stages : \A n \in stages[i] : Predecessors(n) \subseteq Before(i)
  /\ \A i, j \in DOMAIN stages : \A n \in stages[i] \cap stages[j] : i = j

\* What a node of the i-th stage is doing while stage `at` runs.
NodeOK(i, n) ==
  /\ i < at => node[n] = "reported" /\ verdict[n] = "ok"
  /\ i = at => node[n] # "idle"
  /\ i > at => node[n] = "idle"
  /\ node[n] # "idle" => given[n] = Before(i)

RunOK ==
  /\ \A i \in DOMAIN stages : \A n \in stages[i] : NodeOK(i, n)
  /\ \A n \in Nodes :
       /\ node[n] \in {"over", "reported"} <=> verdict[n] # "none"
       /\ verdict[n] = "ok" => n \in performed
       /\ node[n] = "reported" <=> n \in Reported
  /\ Len(steps) = Cardinality(Reported) /\ IsFiniteSet(Reported)
  /\ success <=> \A n \in Reported : verdict[n] = "ok"

WorkflowInv ==
  /\ TypeOK
  /\ pc = "validate" => SearchOK /\ Unstaged /\ Idle
  /\ pc = "invalid" => HasCycle /\ stages = <<>>
  /\ pc = "layer" => LayersOK /\ Idle
  /\ pc \in {"run", "done", "raised"} => LayersOK /\ RunOK
  /\ pc \in {"run", "done"} => ready = {}
  /\ pc = "done" => StageOver /\ Leave

-----------------------------------------------------------------------------
(***************************************************************************)
(* The graph.                                                              *)
(***************************************************************************)
LEMMA GraphIsFinite ==
  ASSUME NEW S \in SUBSET Nodes
  PROVE  IsFiniteSet(S) /\ Cardinality(S) \in Nat /\ (Cardinality(S) = 0 <=> S = {})
BY WorkflowAssumption, FS_Subset, FS_CardinalityType, FS_EmptySet

LEMMA NeighboursAreNodes ==
  \A n : Successors(n) \subseteq Nodes /\ Predecessors(n) \subseteq Nodes
BY DEF Successors, Predecessors

\* A cycle is a set of nodes that leads back into itself.
LEMMA NoCycleMeans == NoCycleIn(Nodes) => ~HasCycle
<1> SUFFICES ASSUME NoCycleIn(Nodes), NEW S \in SUBSET Nodes, S # {},
                    \A n \in S : Successors(n) \cap S # {}
             PROVE  FALSE
  BY DEF HasCycle
<1> QED
  BY DEF NoCycleIn

\* A node whose successors the search has left, and that it had not left, closes
\* no cycle: a cycle it is on would have a successor of it, and leave without it.
LEMMA NoCycleGrows ==
  ASSUME NEW D \in SUBSET Nodes, NEW n \in Nodes, n \notin D, NoCycleIn(D),
         \A k \in D : Successors(k) \subseteq D, Successors(n) \subseteq D
  PROVE  NoCycleIn(D \cup {n})
<1> SUFFICES ASSUME NEW S \in SUBSET (D \cup {n}), S # {}
             PROVE  /\ \E k \in S : Successors(k) \cap S = {}
                    /\ \E k \in S : Predecessors(k) \cap S = {}
  BY DEF NoCycleIn
<1>1. CASE n \notin S
  BY <1>1 DEF NoCycleIn
<1>2. CASE n \in S
  <2>1. Predecessors(n) \cap S = {}
    BY DEF Predecessors, Successors
  <2>2. CASE S = {n}
    BY <1>2, <2>1, <2>2
  <2>3. CASE S # {n}
    <3>1. S \ {n} \in SUBSET D /\ S \ {n} # {}
      BY <2>3
    <3>2. PICK k \in S \ {n} : Successors(k) \cap (S \ {n}) = {}
      BY <3>1 DEF NoCycleIn
    <3>3. Successors(k) \cap S = {}
      BY <3>1, <3>2
    <3> QED
      BY <1>2, <2>1, <3>3
  <2> QED
    BY <2>2, <2>3
<1> QED
  BY <1>1, <1>2

-----------------------------------------------------------------------------
(***************************************************************************)
(* The search.                                                             *)
(***************************************************************************)
LEMMA PathTyped ==
  ASSUME TypeOK
  PROVE  /\ Len(path) \in Nat /\ DOMAIN path = 1 .. Len(path)
         /\ \A i \in 1 .. Len(path) : /\ path[i] \in [node : Nodes, left : SUBSET Nodes]
                                      /\ path[i].node \in OnPath
         /\ \A m \in OnPath : \E i \in 1 .. Len(path) : m = path[i].node
         /\ OnPath \subseteq Nodes /\ visited \subseteq Nodes
         /\ path # <<>> => Len(path) \in 1 .. Len(path)
<1> DEFINE Call == [node : Nodes, left : SUBSET Nodes]
<1>1. path \in Seq(Call) /\ visited \subseteq Nodes
  BY DEF TypeOK
<1>0. \A i \in 1 .. Len(path) : path[i] \in Call
  <2> HIDE DEF Call
  <2> QED
    BY <1>1
<1>2. Len(path) \in Nat /\ DOMAIN path = 1 .. Len(path)
  BY <1>1
<1>3. \A i \in 1 .. Len(path) : path[i] \in [node : Nodes, left : SUBSET Nodes]
  BY <1>0
<1>4. path # <<>> => Len(path) \in 1 .. Len(path)
  BY <1>1
<1>5. OnPath = {path[i].node : i \in 1 .. Len(path)}
  BY <1>2 DEF OnPath
<1> HIDE DEF OnPath
<1> QED
  BY <1>1, <1>2, <1>3, <1>4, <1>5

\* A neighbour that is on the path: the path from it on leads back to it.
LEMMA CycleFound ==
  ASSUME TypeOK, SearchOK, path # <<>>, NEW m \in path[Len(path)].left, m \in OnPath
  PROVE  HasCycle
<1>1. PICK i \in 1 .. Len(path) : m = path[i].node
  BY PathTyped
<1> DEFINE S == {path[k].node : k \in i .. Len(path)}
<1>0. Len(path) \in Nat /\ i \in Nat /\ i >= 1 /\ i <= Len(path)
  BY <1>1, PathTyped
<1>2. S \subseteq Nodes /\ m \in S
  <2>1. i \in i .. Len(path) /\ \A k \in i .. Len(path) : k \in 1 .. Len(path)
    BY <1>0
  <2> QED
    BY <1>1, <2>1, PathTyped
<1>3. ASSUME NEW k \in i .. Len(path) PROVE Successors(path[k].node) \cap S # {}
  <2>1. k \in 1 .. Len(path)
    BY <1>0
  <2>2. CASE k = Len(path)
    BY <1>2, <2>1, <2>2, PathTyped DEF SearchOK
  <2>3. CASE k # Len(path)
    <3>1. k + 1 \in i .. Len(path) /\ k < Len(path)
      BY <1>0, <2>3
    <3>2. path[k + 1].node \in Successors(path[k].node)
      BY <2>1, <3>1, PathTyped DEF SearchOK
    <3> QED
      BY <3>1, <3>2
  <2> QED
    BY <2>2, <2>3
<1>4. \A n \in S : Successors(n) \cap S # {}
  BY <1>3
<1> HIDE DEF S
<1> QED
  BY <1>2, <1>4 DEF HasCycle

\* What a path of len calls tells, after a step of the search.
LEMMA SearchFrom ==
  ASSUME edges' = edges, NEW len \in Nat, DOMAIN path' = 1 .. len, Len(path') = len,
         OnPath' \subseteq visited',
         \A i, j \in 1 .. len : path'[i].node = path'[j].node => i = j,
         \A i \in 1 .. len :
           /\ path'[i].left \subseteq Successors(path'[i].node)
           /\ i < len => path'[i + 1].node \in Successors(path'[i].node)
           /\ \A m \in Successors(path'[i].node) \ path'[i].left :
                m \in Left' \/ (i < len /\ m = path'[i + 1].node),
         \A n \in Left' : Successors(n) \subseteq Left',
         NoCycleIn(Left')
  PROVE  SearchOK'
<1>1. \A n : Successors(n)' = Successors(n) /\ Predecessors(n)' = Predecessors(n)
  BY DEF Successors, Predecessors
<1>2. NoCycleIn(Left)'
  BY <1>1 DEF NoCycleIn
<1>3. \A i \in 1 .. len : DealtWith(i)'
  BY <1>1 DEF DealtWith
<1> QED
  BY <1>1, <1>2, <1>3 DEF SearchOK

\* Striking a neighbour off the innermost call leaves everything else.
LEMMA RestFields ==
  ASSUME TypeOK, path # <<>>, NEW m
  PROVE  /\ Rest(m) \in Seq([node : Nodes, left : SUBSET Nodes])
         /\ Len(Rest(m)) = Len(path) /\ DOMAIN Rest(m) = 1 .. Len(path)
         /\ \A i \in 1 .. Len(path) :
              /\ Rest(m)[i].node = path[i].node
              /\ Rest(m)[i].left = path[i].left \ (IF i = Len(path) THEN {m} ELSE {})
<1> DEFINE Call == [node : Nodes, left : SUBSET Nodes]
           top == path[Len(path)]
           new == [top EXCEPT !.left = @ \ {m}]
<1>1. path \in Seq(Call) /\ Len(path) \in 1 .. Len(path) /\ top \in Call
  BY PathTyped DEF TypeOK
<1>2. new \in Call /\ new.node = top.node /\ new.left = top.left \ {m}
  BY <1>1
<1>3. Rest(m) = [path EXCEPT ![Len(path)] = new]
  BY <1>1 DEF Rest
<1>4. \A i \in 1 .. Len(path) : Rest(m)[i] = IF i = Len(path) THEN new ELSE path[i]
  <2> HIDE DEF Call, new
  <2> QED
    BY <1>1, <1>3
<1>5. Rest(m) \in Seq(Call) /\ Len(Rest(m)) = Len(path) /\ DOMAIN Rest(m) = 1 .. Len(path)
  <2> HIDE DEF Call, new
  <2> QED
    BY <1>1, <1>2, <1>3
<1> HIDE DEF new
<1> QED
  BY <1>2, <1>4, <1>5

\* An outermost call.
LEMMA SearchEnters ==
  ASSUME TypeOK, SearchOK, NEW n \in Nodes, DfsFrom(n)
  PROVE  SearchOK' /\ path' \in Seq([node : Nodes, left : SUBSET Nodes])
                   /\ visited' \subseteq Nodes
<1> DEFINE call == [node |-> n, left |-> Successors(n)]
<1>1. path = <<>> /\ n \notin visited /\ visited' = visited \cup {n} /\ edges' = edges
      /\ path' = Append(path, call)
  BY DEF DfsFrom, Enter
<1>2. call \in [node : Nodes, left : SUBSET Nodes]
  BY NeighboursAreNodes
<1>3. path' \in Seq([node : Nodes, left : SUBSET Nodes]) /\ Len(path') = 1
      /\ DOMAIN path' = 1 .. 1 /\ path'[1] = call
  <2> HIDE DEF call
  <2> QED
    BY <1>1, <1>2
<1>4. OnPath = {} /\ OnPath' = {n}
  BY <1>1, <1>3 DEF OnPath
<1>5. Left' = Left
  BY <1>1, <1>4 DEF Left
<1>6. SearchOK'
  <2>1. \A i \in 1 .. 1 : /\ path'[i].left \subseteq Successors(path'[i].node)
                          /\ Successors(path'[i].node) \ path'[i].left = {}
    BY <1>3
  <2> QED
    BY <1>1, <1>3, <1>4, <1>5, <2>1, SearchFrom DEF SearchOK
<1> QED
  BY <1>1, <1>3, <1>6, PathTyped

\* A neighbour that the search has left.
LEMMA SearchPasses ==
  ASSUME TypeOK, SearchOK, path # <<>>, NEW m \in Left, path' = Rest(m),
         visited' = visited, edges' = edges
  PROVE  SearchOK' /\ path' \in Seq([node : Nodes, left : SUBSET Nodes])
<1> DEFINE len == Len(path)
<1>0. \A i \in 1 .. len :
        /\ Rest(m)[i].node = path[i].node
        /\ Rest(m)[i].left = path[i].left \ (IF i = len THEN {m} ELSE {})
  BY RestFields
<1>1. len \in Nat /\ DOMAIN path = 1 .. len
      /\ path' \in Seq([node : Nodes, left : SUBSET Nodes])
      /\ Len(path') = len /\ DOMAIN path' = 1 .. len
      /\ \A i \in 1 .. len : /\ path'[i].node = path[i].node
                             /\ path'[i].left \subseteq path[i].left
                             /\ path[i].left \ {m} \subseteq path'[i].left
  <2>1. len \in Nat /\ DOMAIN path = 1 .. len
    BY PathTyped
  <2>2. /\ path' \in Seq([node : Nodes, left : SUBSET Nodes])
        /\ Len(path') = len /\ DOMAIN path' = 1 .. len
    BY RestFields
  <2> HIDE DEF len
  <2> QED
    BY <1>0, <2>1, <2>2
<1>2. OnPath' = OnPath
  BY <1>1 DEF OnPath
<1>3. Left' = Left
  BY <1>2 DEF Left
<1>4. ASSUME NEW i \in 1 .. len
      PROVE  /\ path'[i].left \subseteq Successors(path'[i].node)
             /\ i < len => path'[i + 1].node \in Successors(path'[i].node)
             /\ \A k \in Successors(path'[i].node) \ path'[i].left :
                  k \in Left' \/ (i < len /\ k = path'[i + 1].node)
  <2>1. i < len => i + 1 \in 1 .. len
    BY <1>1
  <2>2. DealtWith(i) /\ path[i].left \subseteq Successors(path[i].node)
        /\ (i < len => path[i + 1].node \in Successors(path[i].node))
    BY <1>1 DEF SearchOK
  <2> QED
    BY <1>1, <1>3, <2>1, <2>2 DEF DealtWith
<1>5. \A i, j \in 1 .. len : path'[i].node = path'[j].node => i = j
  BY <1>1 DEF SearchOK
<1>6. OnPath' \subseteq visited' /\ (\A n \in Left' : Successors(n) \subseteq Left')
      /\ NoCycleIn(Left')
  BY <1>2, <1>3 DEF SearchOK
<1> HIDE DEF len
<1> QED
  BY <1>1, <1>4, <1>5, <1>6, SearchFrom

\* A neighbour that the search has not entered.
LEMMA SearchDescends ==
  ASSUME TypeOK, SearchOK, path # <<>>, NEW m \in path[Len(path)].left, m \notin visited,
         path' = Append(Rest(m), [node |-> m, left |-> Successors(m)]),
         visited' = visited \cup {m}, edges' = edges
  PROVE  SearchOK' /\ path' \in Seq([node : Nodes, left : SUBSET Nodes])
                   /\ visited' \subseteq Nodes
<1> DEFINE Call == [node : Nodes, left : SUBSET Nodes]
           len == Len(path)
           call == [node |-> m, left |-> Successors(m)]
<1>1. len \in Nat /\ len \in 1 .. len /\ DOMAIN path = 1 .. len /\ m \in Nodes
      /\ visited \subseteq Nodes /\ call.node = m /\ call.left = Successors(m)
      /\ m \in Successors(path[len].node)
  BY PathTyped DEF SearchOK
<1>2. call \in Call
  BY <1>1, NeighboursAreNodes
<1>3. path' \in Seq(Call) /\ Len(path') = len + 1 /\ DOMAIN path' = 1 .. len + 1
      /\ path'[len + 1] = call /\ \A i \in 1 .. len : path'[i] = Rest(m)[i]
  <2>1. Rest(m) \in Seq(Call) /\ Len(Rest(m)) = len
    BY RestFields
  <2> HIDE DEF call, Call, len
  <2> QED
    BY <1>1, <1>2, <2>1 DEF call
<1>4. \A i \in 1 .. len : /\ path'[i].node = path[i].node
                          /\ path'[i].left \subseteq path[i].left
                          /\ i # len => path'[i].left = path[i].left
                          /\ path[i].left \ {m} \subseteq path'[i].left
  <2>1. \A i \in 1 .. len :
          /\ Rest(m)[i].node = path[i].node
          /\ Rest(m)[i].left = path[i].left \ (IF i = Len(path) THEN {m} ELSE {})
    BY RestFields
  <2> HIDE DEF call, Call
  <2> QED
    BY <1>3, <2>1
<1> HIDE DEF call, Call, len
<1>5. OnPath' = OnPath \cup {m} /\ m \notin OnPath
  <2>1. OnPath' = {path'[i].node : i \in 1 .. len + 1}
    BY <1>3 DEF OnPath
  <2>2. OnPath = {path[i].node : i \in 1 .. len}
    BY <1>1 DEF OnPath
  <2>3. 1 .. len + 1 = (1 .. len) \cup {len + 1}
    BY <1>1
  <2> QED
    BY <1>1, <1>3, <1>4, <2>1, <2>2, <2>3 DEF SearchOK
<1>6. Left' = Left
  BY <1>5 DEF Left
<1>7. ASSUME NEW i \in 1 .. len + 1
      PROVE  /\ path'[i].left \subseteq Successors(path'[i].node)
             /\ i < len + 1 => path'[i + 1].node \in Successors(path'[i].node)
             /\ \A k \in Successors(path'[i].node) \ path'[i].left :
                  k \in Left' \/ (i < len + 1 /\ k = path'[i + 1].node)
  <2>1. CASE i = len + 1
    BY <1>1, <1>3, <2>1
  <2>2. CASE i = len
    <3>1. DealtWith(len) /\ path[len].left \subseteq Successors(path[len].node)
      BY <1>1 DEF SearchOK
    <3>2. path'[len].left \subseteq path[len].left /\ path'[len].node = path[len].node
          /\ path[len].left \ {m} \subseteq path'[len].left
          /\ path'[len + 1].node = m
      BY <1>1, <1>3, <1>4
    <3>3. \A k \in Successors(path[len].node) \ path[len].left : k \in Left
      BY <1>1, <3>1 DEF DealtWith, len
    <3>4. \A k \in Successors(path[len].node) \ path'[len].left :
            k \in Left \/ k = path'[len + 1].node
      BY <3>2, <3>3
    <3>5. path'[len].left \subseteq Successors(path[len].node)
      BY <3>1, <3>2
    <3>6. path'[len + 1].node \in Successors(path[len].node)
      BY <1>1, <3>2
    <3>7. len < len + 1
      BY <1>1
    <3> QED
      BY <1>6, <2>2, <3>2, <3>4, <3>5, <3>6, <3>7
  <2>3. CASE i # len /\ i # len + 1
    <3>1. i \in 1 .. len /\ i + 1 \in 1 .. len /\ i < len /\ i < len + 1
      BY <1>1, <2>3
    <3>2. DealtWith(i) /\ path[i].left \subseteq Successors(path[i].node)
          /\ path[i + 1].node \in Successors(path[i].node)
      BY <1>1, <3>1 DEF SearchOK, len
    <3>3. path'[i].left = path[i].left /\ path'[i].node = path[i].node
          /\ path'[i + 1].node = path[i + 1].node
      BY <1>4, <2>3, <3>1
    <3> QED
      BY <1>6, <3>1, <3>2, <3>3 DEF DealtWith
  <2> QED
    BY <2>1, <2>2, <2>3
<1>8. ASSUME NEW i \in 1 .. len + 1, NEW j \in 1 .. len + 1, path'[i].node = path'[j].node
      PROVE  i = j
  <2>1. \A k \in 1 .. len + 1 : k = len + 1 \/ k \in 1 .. len
    BY <1>1
  <2>2. \A k \in 1 .. len : path'[k].node # m
    BY <1>1, <1>4, <1>5, PathTyped DEF len
  <2> QED
    BY <1>1, <1>3, <1>4, <1>8, <2>1, <2>2 DEF SearchOK
<1>9. OnPath' \subseteq visited' /\ (\A n \in Left' : Successors(n) \subseteq Left')
      /\ NoCycleIn(Left')
  BY <1>5, <1>6 DEF SearchOK
<1>10. SearchOK'
  <2>1. len + 1 \in Nat
    BY <1>1
  <2> QED
    BY <1>3, <1>7, <1>8, <1>9, <2>1, SearchFrom
<1> QED
  BY <1>1, <1>3, <1>10 DEF Call

\* The innermost call returns: its node joins those the search has left.
LEMMA SearchReturns ==
  ASSUME TypeOK, SearchOK, DfsReturn
  PROVE  SearchOK' /\ path' \in Seq([node : Nodes, left : SUBSET Nodes])
<1> DEFINE Call == [node : Nodes, left : SUBSET Nodes]
           len == Len(path)
           n == path[Len(path)].node
<1>1. len \in Nat /\ len \in 1 .. len /\ len - 1 \in Nat /\ DOMAIN path = 1 .. len
      /\ n \in Nodes /\ n \in OnPath /\ path[len].left = {} /\ path # <<>>
  BY PathTyped DEF DfsReturn
<1>2. path' \in Seq(Call) /\ Len(path') = len - 1 /\ DOMAIN path' = 1 .. len - 1
      /\ \A i \in 1 .. len - 1 : path'[i] = path[i]
  <2>1. path \in Seq(Call) /\ path' = SubSeq(path, 1, len - 1)
    BY DEF TypeOK, DfsReturn
  <2> HIDE DEF Call, n, len
  <2> QED
    BY <1>1, <2>1 DEF len
<1>3. visited' = visited /\ edges' = edges
  BY DEF DfsReturn
<1> HIDE DEF Call, n, len
<1>4. OnPath' = OnPath \ {n}
  <2>1. OnPath' = {path'[i].node : i \in 1 .. len - 1}
    BY <1>2 DEF OnPath
  <2>2. OnPath = {path[i].node : i \in 1 .. len}
    BY <1>1 DEF OnPath
  <2>3. 1 .. len = (1 .. len - 1) \cup {len} /\ len \notin 1 .. len - 1
    BY <1>1
  <2>4. \A i \in 1 .. len - 1 : path[i].node # n
    BY <1>1, <2>3 DEF SearchOK, n, len
  <2> QED
    BY <1>2, <2>1, <2>2, <2>3, <2>4 DEF n, len
<1>5. Left' = Left \cup {n} /\ n \notin Left
  BY <1>1, <1>3, <1>4 DEF Left, SearchOK
<1>6. Successors(n) \subseteq Left
  <2>1. DealtWith(len)
    BY <1>1 DEF SearchOK
  <2> QED
    BY <1>1, <2>1 DEF DealtWith, n, len
<1>7. NoCycleIn(Left') /\ \A k \in Left' : Successors(k) \subseteq Left'
  <2>1. Left \in SUBSET Nodes
    BY PathTyped DEF Left
  <2> QED
    BY <1>1, <1>5, <1>6, <2>1, NoCycleGrows DEF SearchOK
<1>8. ASSUME NEW i \in 1 .. len - 1
      PROVE  /\ path'[i].left \subseteq Successors(path'[i].node)
             /\ i < len - 1 => path'[i + 1].node \in Successors(path'[i].node)
             /\ \A k \in Successors(path'[i].node) \ path'[i].left :
                  k \in Left' \/ (i < len - 1 /\ k = path'[i + 1].node)
  <2>1. i \in 1 .. len /\ i < len /\ (i < len - 1 => i + 1 \in 1 .. len - 1)
        /\ (~(i < len - 1) => i + 1 = len)
    BY <1>1
  <2>2. DealtWith(i) /\ path[i].left \subseteq Successors(path[i].node)
        /\ path[i + 1].node \in Successors(path[i].node)
    BY <1>1, <2>1 DEF SearchOK, len
  <2>3. path[i + 1].node = n \/ (i < len - 1 /\ path'[i + 1].node = path[i + 1].node)
    BY <1>2, <2>1 DEF n, len
  <2>4. path'[i] = path[i]
    BY <1>2
  <2> QED
    BY <1>2, <1>5, <2>1, <2>2, <2>3, <2>4 DEF DealtWith
<1>9. \A i, j \in 1 .. len - 1 : path'[i].node = path'[j].node => i = j
  <2>1. \A i \in 1 .. len - 1 : i \in 1 .. len
    BY <1>1
  <2> QED
    BY <1>1, <1>2, <2>1 DEF SearchOK
<1>10. OnPath' \subseteq visited'
  BY <1>3, <1>4 DEF SearchOK
<1> QED
  BY <1>1, <1>2, <1>3, <1>7, <1>8, <1>9, <1>10, SearchFrom DEF Call

\* The rest of the types, of a step of the search.
LEMMA SearchTyped ==
  ASSUME TypeOK, UNCHANGED <<edges, indegree, stages, at, node, verdict, given, steps, performed>>,
         pc' \in {"validate", "invalid", "layer", "raised"}, success' \in BOOLEAN,
         visited' \subseteq Nodes, ready' \subseteq Nodes,
         path' \in Seq([node : Nodes, left : SUBSET Nodes])
  PROVE  TypeOK'
<1>1. Running' = Running
  BY DEF Running
<1> QED
  BY <1>1 DEF TypeOK

LEMMA SearchStep ==
  ASSUME WorkflowInv, NEW n \in Nodes, DfsFrom(n) \/ DfsNeighbour(n) \/ DfsReturn
  PROVE  WorkflowInv'
<1>0. TypeOK /\ pc = "validate" /\ SearchOK /\ Unstaged /\ Idle
  BY DEF WorkflowInv, DfsFrom, DfsNeighbour, DfsReturn
<1>1. visited \subseteq Nodes /\ path \in Seq([node : Nodes, left : SUBSET Nodes])
      /\ ready \subseteq Nodes /\ success = TRUE
  BY <1>0 DEF TypeOK, Idle
<1>2. UNCHANGED <<edges, indegree, ready, stages, at, node, verdict, given, steps, performed>>
  BY DEF DfsFrom, DfsNeighbour, DfsReturn, runVars
<1>3. CASE pc' = "invalid" /\ path' = path /\ visited' = visited /\ success' = FALSE
           /\ path # <<>> /\ n \in path[Len(path)].left /\ n \in OnPath
  <2>1. HasCycle
    BY <1>0, <1>3, CycleFound
  <2>2. HasCycle'
    BY <1>2, <2>1 DEF HasCycle, Successors
  <2>3. TypeOK'
    BY <1>0, <1>1, <1>2, <1>3, SearchTyped
  <2> QED
    BY <1>0, <1>2, <1>3, <2>2, <2>3 DEF WorkflowInv, Unstaged
<1>4. CASE pc' = "validate" /\ success' = success
  <2>1. SearchOK' /\ visited' \subseteq Nodes
        /\ path' \in Seq([node : Nodes, left : SUBSET Nodes])
    <3>1. CASE DfsFrom(n)
      BY <1>0, <3>1, SearchEnters
    <3>2. CASE DfsReturn
      BY <1>0, <1>1, <3>2, SearchReturns DEF DfsReturn
    <3>3. CASE DfsNeighbour(n) /\ n \in visited \ OnPath
      BY <1>0, <1>1, <1>2, <1>4, <3>3, SearchPasses DEF DfsNeighbour, Left
    <3>4. CASE DfsNeighbour(n) /\ n \notin visited
      BY <1>0, <1>1, <1>2, <1>4, <3>4, SearchDescends DEF DfsNeighbour, SearchOK
    <3>5. DfsNeighbour(n) => n \in visited \ OnPath \/ n \notin visited
      BY <1>0, <1>4 DEF DfsNeighbour
    <3> QED
      BY <3>1, <3>2, <3>3, <3>4, <3>5
  <2>2. TypeOK'
    BY <1>0, <1>1, <1>2, <1>4, <2>1, SearchTyped
  <2>3. Unstaged' /\ Idle'
    BY <1>0, <1>2, <1>4 DEF Unstaged, Idle, Indegrees, Predecessors
  <2> QED
    BY <1>4, <2>1, <2>2, <2>3 DEF WorkflowInv
<1> QED
  BY <1>0, <1>3, <1>4 DEF DfsFrom, DfsNeighbour, DfsReturn, runVars

-----------------------------------------------------------------------------
(***************************************************************************)
(* The stages.                                                             *)
(***************************************************************************)
LEMMA LayersKept ==
  ASSUME LayersOK, UNCHANGED <<edges, ready, indegree, stages>>
  PROVE  LayersOK'
<1>1. \A n : Successors(n)' = Successors(n) /\ Predecessors(n)' = Predecessors(n)
  BY DEF Successors, Predecessors
<1>2. NoCycleIn(Nodes)' /\ Staged' = Staged /\ \A i : Before(i)' = Before(i)
  BY <1>1 DEF NoCycleIn, Staged, Before, LayersOK
<1>3. (indegree = [n \in Nodes |-> Cardinality(Predecessors(n) \ Staged)])'
  BY <1>1, <1>2 DEF LayersOK
<1>4. (ready = {n \in Nodes \ Staged : Predecessors(n) \subseteq Staged})'
  BY <1>1, <1>2 DEF LayersOK
<1> QED
  BY <1>1, <1>2, <1>3, <1>4 DEF LayersOK

\* When no node is ready every node is in a stage: the others would lead back
\* into themselves.
LEMMA AllStaged ==
  ASSUME TypeOK, LayersOK, ready = {}
  PROVE  Staged = Nodes
<1>1. Staged \subseteq Nodes
  <2> DEFINE T == SUBSET Nodes
  <2>1. stages \in Seq(T)
    BY DEF TypeOK
  <2>2. \A i \in DOMAIN stages : stages[i] \in T
    BY <2>1
  <2> QED
    BY <2>2 DEF Staged
<1>2. SUFFICES ASSUME Nodes \ Staged # {}
               PROVE  FALSE
  BY <1>1
<1>3. PICK n \in Nodes \ Staged : Predecessors(n) \cap (Nodes \ Staged) = {}
  BY <1>2 DEF LayersOK, NoCycleIn
<1>4. Predecessors(n) \subseteq Staged
  BY <1>3, NeighboursAreNodes
<1> QED
  BY <1>3, <1>4 DEF LayersOK

\* The search has returned from every node.
LEMMA ValidStep ==
  ASSUME WorkflowInv, Valid
  PROVE  WorkflowInv'
<1>0. TypeOK /\ pc = "validate" /\ SearchOK /\ Unstaged /\ Idle
  BY DEF WorkflowInv, Valid
<1>1. /\ path = <<>> /\ visited = Nodes /\ pc' \in {"layer", "raised"}
      /\ ready' = {n \in Nodes : indegree[n] = 0}
      /\ UNCHANGED <<edges, visited, path, indegree, stages, at, node, verdict, given, steps,
                     success, performed>>
  BY DEF Valid, runVars
<1>2. TypeOK'
  BY <1>0, <1>1, SearchTyped DEF TypeOK
<1>3. NoCycleIn(Nodes)
  <2>1. Left = Nodes
    BY <1>1 DEF Left, OnPath
  <2> QED
    BY <1>0, <2>1 DEF SearchOK
<1>4. Staged' = {} /\ DOMAIN stages' = {} /\ stages' = <<>>
  BY <1>0, <1>1 DEF Unstaged, Staged
<1>5. \A n : Successors(n)' = Successors(n) /\ Predecessors(n)' = Predecessors(n)
  BY <1>1 DEF Successors, Predecessors
<1>6. LayersOK'
  <2>1. NoCycleIn(Nodes)'
    BY <1>3, <1>5 DEF NoCycleIn
  <2>2. (indegree = [n \in Nodes |-> Cardinality(Predecessors(n) \ Staged)])'
    <3>1. \A n : Predecessors(n) \ {} = Predecessors(n)
      OBVIOUS
    <3> QED
      BY <1>0, <1>1, <1>4, <1>5, <3>1 DEF Unstaged, Indegrees
  <2>3. \A n \in Nodes : indegree[n] = 0 <=> Predecessors(n) = {}
    BY <1>0, NeighboursAreNodes, GraphIsFinite DEF Unstaged, Indegrees
  <2>4. (ready = {n \in Nodes \ Staged : Predecessors(n) \subseteq Staged})'
    BY <1>1, <1>4, <1>5, <2>3
  <2> QED
    BY <1>4, <2>1, <2>2, <2>4 DEF LayersOK
<1>7. Idle'
  BY <1>0, <1>1 DEF Idle
<1>8. RunOK'
  <2>1. DOMAIN steps' = {} /\ Reported' = {} /\ steps' = <<>>
    BY <1>7 DEF Idle, Reported
  <2> QED
    BY <1>4, <1>7, <2>1, FS_EmptySet DEF RunOK, Idle
<1> QED
  BY <1>1, <1>2, <1>6, <1>7, <1>8 DEF WorkflowInv

\* What a step does that takes up the nodes that are ready.
LEMMA StageAppended ==
  ASSUME TypeOK, Layer
  PROVE  /\ Len(stages) \in Nat /\ DOMAIN stages = 1 .. Len(stages)
         /\ stages' \in Seq(SUBSET Nodes) /\ Len(stages') = Len(stages) + 1
         /\ DOMAIN stages' = 1 .. Len(stages) + 1
         /\ stages'[Len(stages) + 1] = ready
         /\ \A i \in 1 .. Len(stages) : stages'[i] = stages[i]
<1> DEFINE T == SUBSET Nodes
<1>1. stages \in Seq(T) /\ ready \in T /\ stages' = Append(stages, ready)
  BY DEF TypeOK, Layer
<1> HIDE DEF T
<1>2. Len(stages) \in Nat /\ DOMAIN stages = 1 .. Len(stages)
  BY <1>1
<1> QED
  BY <1>1, <1>2 DEF T

LEMMA LayerStep ==
  ASSUME WorkflowInv, Layer
  PROVE  WorkflowInv'
<1> DEFINE left == [n \in Nodes |-> indegree[n] - Cardinality(Predecessors(n) \cap ready)]
<1>0. TypeOK /\ LayersOK /\ Idle /\ pc = "layer" /\ pc' = "layer" /\ ready # {}
  BY DEF WorkflowInv, Layer
<1>1. UNCHANGED <<edges, visited, path, at, node, verdict, given, steps, success, performed>>
  BY DEF Layer, runVars
<1>2. indegree' = left /\ ready' = {n \in Nodes : left[n] = 0 /\ indegree[n] # 0}
  BY DEF Layer
<1>a. PICK len \in Nat : len = Len(stages)
  BY <1>0, StageAppended
<1>3. /\ len \in Nat /\ DOMAIN stages = 1 .. len
      /\ stages' \in Seq(SUBSET Nodes) /\ Len(stages') = len + 1
      /\ DOMAIN stages' = 1 .. len + 1 /\ stages'[len + 1] = ready
      /\ \A i \in 1 .. len : stages'[i] = stages[i]
  BY <1>0, <1>a, StageAppended
<1>4. 1 .. len + 1 = (1 .. len) \cup {len + 1}
  BY <1>3
<1>5. Staged' = Staged \cup ready /\ Staged \cap ready = {}
  BY <1>0, <1>3, <1>4 DEF Staged, LayersOK
<1>6. \A n : Successors(n)' = Successors(n) /\ Predecessors(n)' = Predecessors(n)
  BY <1>1 DEF Successors, Predecessors
<1>7. ASSUME NEW n \in Nodes
      PROVE  left[n] = Cardinality(Predecessors(n) \ (Staged \cup ready))
  <2> DEFINE P == Predecessors(n) \ Staged
  <2>1. IsFiniteSet(P)
    BY NeighboursAreNodes, GraphIsFinite
  <2>2. P \cap ready = Predecessors(n) \cap ready
        /\ P \ ready = Predecessors(n) \ (Staged \cup ready)
    BY <1>5
  <2>3. Cardinality(P \ ready) = Cardinality(P) - Cardinality(P \cap ready)
    BY <2>1, FS_Difference
  <2>4. indegree[n] = Cardinality(P)
    BY <1>0 DEF LayersOK
  <2> HIDE DEF P
  <2> QED
    BY <2>2, <2>3, <2>4
<1> HIDE DEF left
<1>8. \A n \in Nodes : /\ left[n] \in Nat
                       /\ left[n] = 0 <=> Predecessors(n) \subseteq Staged \cup ready
                       /\ indegree[n] = 0 <=> Predecessors(n) \subseteq Staged
  <2> SUFFICES ASSUME NEW n \in Nodes
               PROVE  /\ left[n] \in Nat
                      /\ left[n] = 0 <=> Predecessors(n) \subseteq Staged \cup ready
                      /\ indegree[n] = 0 <=> Predecessors(n) \subseteq Staged
    OBVIOUS
  <2>1. indegree[n] = Cardinality(Predecessors(n) \ Staged)
    BY <1>0 DEF LayersOK
  <2>2. \A D : Predecessors(n) \ D \in SUBSET Nodes
    BY NeighboursAreNodes
  <2>3. \A D : /\ Cardinality(Predecessors(n) \ D) \in Nat
               /\ Cardinality(Predecessors(n) \ D) = 0 <=> Predecessors(n) \subseteq D
    BY <2>2, GraphIsFinite
  <2> QED
    BY <1>7, <2>1, <2>3
<1>9. ready' = {n \in Nodes \ (Staged \cup ready) : Predecessors(n) \subseteq Staged \cup ready}
  <2>1. \A n \in Staged : Predecessors(n) \subseteq Staged
    <3>1. \A i \in DOMAIN stages : Before(i) \subseteq Staged
      <4>1. \A i \in 1 .. len : \A j \in 1 .. i - 1 : j \in 1 .. len
        BY <1>3
      <4> QED
        BY <1>3, <4>1 DEF Before, Staged
    <3> QED
      BY <1>0, <3>1 DEF Staged, LayersOK
  <2>2. ready = {n \in Nodes \ Staged : Predecessors(n) \subseteq Staged}
    BY <1>0 DEF LayersOK
  <2> QED
    BY <1>2, <1>8, <2>1, <2>2
<1>10. /\ \A i \in 1 .. len : Before(i)' = Before(i)
       /\ Before(len + 1)' = Staged
  <2>1. \A i \in 1 .. len : \A j \in 1 .. i - 1 : j \in 1 .. len
    BY <1>3
  <2>2. \A i \in 1 .. len : Before(i)' = Before(i)
    BY <1>3, <2>1 DEF Before
  <2>3. (len + 1) - 1 = len
    BY <1>3
  <2>4. UNION {stages'[j] : j \in 1 .. (len + 1) - 1} = Staged
    BY <1>3, <2>3 DEF Staged
  <2> QED
    BY <2>2, <2>4 DEF Before
<1>11. LayersOK'
  <2>1. NoCycleIn(Nodes)'
    BY <1>0, <1>6 DEF LayersOK, NoCycleIn
  <2>2. (ready = {n \in Nodes \ Staged : Predecessors(n) \subseteq Staged})'
    BY <1>5, <1>6, <1>9
  <2>3. (indegree = [n \in Nodes |-> Cardinality(Predecessors(n) \ Staged)])'
    <3>1. indegree' = [n \in Nodes |-> left[n]]
      BY <1>2 DEF left
    <3> QED
      BY <1>5, <1>6, <1>7, <3>1
  <2>4. (\A i \in DOMAIN stages : \A n \in stages[i] : Predecessors(n) \subseteq Before(i))'
    <3> SUFFICES ASSUME NEW i \in 1 .. len + 1, NEW n \in stages'[i]
                 PROVE  Predecessors(n) \subseteq Before(i)'
      BY <1>3, <1>6
    <3>1. CASE i = len + 1
      BY <1>0, <1>3, <1>10, <3>1 DEF LayersOK
    <3>2. CASE i \in 1 .. len
      BY <1>0, <1>3, <1>10, <3>2 DEF LayersOK
    <3> QED
      BY <1>4, <3>1, <3>2
  <2>5. (\A i, j \in DOMAIN stages : \A n \in stages[i] \cap stages[j] : i = j)'
    <3>1. \A i \in 1 .. len : stages'[i] = stages[i] /\ stages[i] \cap ready = {}
      BY <1>3, <1>5 DEF Staged
    <3> QED
      BY <1>0, <1>3, <1>4, <3>1 DEF LayersOK
  <2> QED
    BY <2>1, <2>2, <2>3, <2>4, <2>5 DEF LayersOK
<1>12. TypeOK'
  <2>1. Running' = Running /\ ready' \subseteq Nodes
    BY <1>1, <1>2 DEF Running
  <2>2. indegree' \in [Nodes -> Nat]
    BY <1>2, <1>8 DEF left
  <2>3. {} \notin {stages'[i] : i \in DOMAIN stages'}
    BY <1>0, <1>3, <1>4 DEF TypeOK
  <2>4. at' \in 0 .. Len(stages')
    BY <1>0, <1>1, <1>3 DEF Idle
  <2> QED
    BY <1>0, <1>1, <1>3, <2>1, <2>2, <2>3, <2>4 DEF TypeOK
<1>13. Idle'
  BY <1>0, <1>1 DEF Idle
<1> QED
  BY <1>0, <1>11, <1>12, <1>13 DEF WorkflowInv

LEMMA LayeredStep ==
  ASSUME WorkflowInv, Layered
  PROVE  WorkflowInv'
<1>0. TypeOK /\ LayersOK /\ Idle /\ ready = {} /\ pc' = "run"
      /\ UNCHANGED <<edges, visited, path, indegree, ready, stages, at, node, verdict, given,
                     steps, success, performed>>
  BY DEF WorkflowInv, Layered, graphVars, runVars
<1>1. LayersOK'
  BY <1>0, LayersKept
<1>2. TypeOK'
  BY <1>0 DEF TypeOK, Running
<1>3. Idle' /\ DOMAIN steps' = {} /\ Reported' = {} /\ steps' = <<>>
  BY <1>0 DEF Idle, Reported
<1>4. \A i \in DOMAIN stages' : i > at'
  <2> DEFINE T == SUBSET Nodes
  <2>1. stages \in Seq(T)
    BY <1>0 DEF TypeOK
  <2>2. DOMAIN stages = 1 .. Len(stages) /\ Len(stages) \in Nat
    BY <2>1
  <2> QED
    BY <1>0, <1>3, <2>2 DEF Idle
<1>5. \A i \in DOMAIN stages' : \A n \in stages'[i] : n \in Nodes
  <2> DEFINE T == SUBSET Nodes
  <2>1. stages' \in Seq(T)
    BY <1>2 DEF TypeOK
  <2> QED
    BY <2>1
<1>6. RunOK'
  <2>1. \A i \in DOMAIN stages' : \A n \in stages'[i] : NodeOK(i, n)'
    <3> SUFFICES ASSUME NEW i \in DOMAIN stages', NEW n \in stages'[i]
                 PROVE  NodeOK(i, n)'
      OBVIOUS
    <3>1. i > 0 /\ ~(i < 0) /\ i # 0 /\ at' = 0 /\ node'[n] = "idle"
      <4>1. DOMAIN stages' \subseteq Nat
        <5> DEFINE T == SUBSET Nodes
        <5>1. stages' \in Seq(T)
          BY <1>2 DEF TypeOK
        <5> QED
          BY <5>1
      <4> QED
        BY <1>3, <1>4, <1>5, <4>1 DEF Idle
    <3> QED
      BY <3>1 DEF NodeOK
  <2>2. Len(steps') = Cardinality(Reported') /\ IsFiniteSet(Reported')
    BY <1>3, FS_EmptySet
  <2>3. \A n \in Nodes : node'[n] = "idle" /\ verdict'[n] = "none" /\ n \notin Reported'
    BY <1>3 DEF Idle
  <2>4. success' = TRUE
    BY <1>3 DEF Idle
  <2> QED
    BY <1>3, <2>1, <2>2, <2>3, <2>4 DEF RunOK
<1> QED
  BY <1>0, <1>1, <1>2, <1>6 DEF WorkflowInv

-----------------------------------------------------------------------------
(***************************************************************************)
(* The run.                                                                *)
(***************************************************************************)
LEMMA StagesTyped ==
  ASSUME TypeOK
  PROVE  /\ Len(stages) \in Nat /\ DOMAIN stages = 1 .. Len(stages)
         /\ \A i \in 1 .. Len(stages) : stages[i] \subseteq Nodes /\ stages[i] # {}
         /\ at \in Nat /\ at <= Len(stages)
<1> DEFINE T == SUBSET Nodes
<1>1. stages \in Seq(T)
  BY DEF TypeOK
<1>2. Len(stages) \in Nat /\ DOMAIN stages = 1 .. Len(stages)
  BY <1>1
<1>3. \A i \in 1 .. Len(stages) : stages[i] \in T
  <2> HIDE DEF T
  <2> QED
    BY <1>1
<1>4. \A i \in 1 .. Len(stages) : stages[i] # {}
  BY <1>2 DEF TypeOK
<1>5. at \in 0 .. Len(stages)
  BY DEF TypeOK
<1> QED
  BY <1>2, <1>3, <1>4, <1>5

LEMMA StepsTyped ==
  ASSUME TypeOK
  PROVE  /\ Len(steps) \in Nat /\ DOMAIN steps = 1 .. Len(steps)
         /\ \A i \in 1 .. Len(steps) : steps[i] \in Nodes
BY DEF TypeOK

\* While it runs every node has its stage, and is where that stage has got to.
LEMMA NodeStaged ==
  ASSUME WorkflowInv, pc \in {"run", "done"}, NEW n \in Nodes
  PROVE  \E i \in 1 .. Len(stages) : n \in stages[i] /\ NodeOK(i, n)
<1>1. TypeOK /\ LayersOK /\ RunOK /\ ready = {}
  BY DEF WorkflowInv
<1>2. n \in Staged
  BY <1>1, AllStaged
<1> QED
  BY <1>1, <1>2, StagesTyped DEF Staged, RunOK

\* A step that leaves all but performed alone.
LEMMA RunKept ==
  ASSUME WorkflowInv, pc = "run", pc' \in {"run", "raised"},
         performed \subseteq performed', performed' \subseteq Nodes,
         UNCHANGED <<edges, graphVars, at, node, verdict, given, steps, success>>
  PROVE  WorkflowInv'
<1>1. TypeOK /\ LayersOK /\ RunOK /\ ready = {}
  BY DEF WorkflowInv
<1>2. UNCHANGED <<edges, visited, path, indegree, ready, stages, at, node, verdict, given,
                  steps, success>>
  BY DEF graphVars
<1>3. TypeOK'
  BY <1>1, <1>2 DEF TypeOK, Running
<1>4. LayersOK'
  BY <1>1, <1>2, LayersKept
<1>5. RunOK'
  <2>1. Reported' = Reported /\ \A i, n : NodeOK(i, n)' = NodeOK(i, n)
    BY <1>2 DEF Reported, NodeOK, Before
  <2> QED
    BY <1>1, <1>2, <2>1 DEF RunOK
<1> QED
  BY <1>1, <1>2, <1>3, <1>4, <1>5 DEF WorkflowInv

\* A node of the stage goes on: it is taken up, it is over, or it is reported.
LEMMA NodeMoves ==
  ASSUME WorkflowInv, pc = "run", pc' = "run",
         NEW n \in Nodes, node[n] \in {"queued", "running", "over"},
         NEW s \in {"running", "over", "reported"}, NEW v \in {"none", "ok", "failed"},
         s = "running" <=> v = "none", v = "ok" => n \in performed',
         performed \subseteq performed', performed' \subseteq Nodes,
         node' = [node EXCEPT ![n] = s], verdict' = [verdict EXCEPT ![n] = v],
         UNCHANGED <<edges, graphVars, at, given>>,
         s # "reported" => steps' = steps /\ success' = success,
         s = "reported" => steps' = Append(steps, n) /\ success' = (success /\ v = "ok"),
         Cardinality(Running') <= MaxParallel
  PROVE  WorkflowInv'
<1>1. TypeOK /\ LayersOK /\ RunOK /\ ready = {}
  BY DEF WorkflowInv
<1>2. UNCHANGED <<edges, visited, path, indegree, ready, stages, at, given>>
  BY DEF graphVars
<1>3. node \in [Nodes -> {"idle", "queued", "running", "over", "reported"}]
      /\ verdict \in [Nodes -> {"none", "ok", "failed"}] /\ success \in BOOLEAN
      /\ steps \in Seq(Nodes)
  BY <1>1 DEF TypeOK
<1>4. /\ node'[n] = s /\ verdict'[n] = v
      /\ \A m \in Nodes : m # n => node'[m] = node[m] /\ verdict'[m] = verdict[m]
      /\ n \notin Reported
  BY <1>1, <1>3 DEF RunOK
<1>5. TypeOK'
  <2>1. node' \in [Nodes -> {"idle", "queued", "running", "over", "reported"}]
        /\ verdict' \in [Nodes -> {"none", "ok", "failed"}]
    BY <1>3
  <2>2. steps' \in Seq(Nodes)
    BY <1>3
  <2>3. success' \in BOOLEAN
    BY <1>3
  <2> QED
    BY <1>1, <1>2, <2>1, <2>2, <2>3 DEF TypeOK
<1>6. LayersOK'
  BY <1>1, <1>2, LayersKept
<1>7. Reported' = IF s = "reported" THEN Reported \cup {n} ELSE Reported
  <2>1. CASE s = "reported"
    <3>1. /\ Len(steps) \in Nat /\ DOMAIN steps = 1 .. Len(steps)
          /\ DOMAIN steps' = 1 .. Len(steps) + 1 /\ steps'[Len(steps) + 1] = n
          /\ \A i \in 1 .. Len(steps) : steps'[i] = steps[i]
      BY <1>3, <2>1
    <3>2. 1 .. Len(steps) + 1 = (1 .. Len(steps)) \cup {Len(steps) + 1}
      BY <3>1
    <3> QED
      BY <2>1, <3>1, <3>2 DEF Reported
  <2>2. CASE s # "reported"
    BY <2>2 DEF Reported
  <2> QED
    BY <2>1, <2>2
<1>8. Len(steps') = Cardinality(Reported') /\ IsFiniteSet(Reported')
  <2>1. Len(steps) = Cardinality(Reported) /\ IsFiniteSet(Reported)
    BY <1>1 DEF RunOK
  <2>2. CASE s = "reported"
    <3>1. Len(steps') = Len(steps) + 1
      BY <1>3, <2>2
    <3> QED
      BY <1>4, <1>7, <2>1, <2>2, <3>1, FS_AddElement
  <2>3. CASE s # "reported"
    BY <1>7, <2>1, <2>3
  <2> QED
    BY <2>2, <2>3
<1>9. success' <=> \A m \in Reported' : verdict'[m] = "ok"
  <2>1. success <=> \A m \in Reported : verdict[m] = "ok"
    BY <1>1 DEF RunOK
  <2>2. \A m \in Reported : m \in Nodes /\ m # n
    BY <1>1, <1>4, StepsTyped DEF Reported
  <2>3. (\A m \in Reported : verdict'[m] = "ok") <=> \A m \in Reported : verdict[m] = "ok"
    BY <1>4, <2>2
  <2>4. CASE s = "reported"
    <3>1. success' <=> success /\ v = "ok"
      BY <2>4
    <3> QED
      BY <1>4, <1>7, <2>1, <2>3, <2>4, <3>1
  <2>5. CASE s # "reported"
    <3>1. success' <=> success
      BY <2>5
    <3> QED
      BY <1>7, <2>1, <2>3, <2>5, <3>1
  <2> QED
    BY <2>4, <2>5
<1>10. ASSUME NEW i \in DOMAIN stages, NEW m \in stages[i]
       PROVE  NodeOK(i, m)'
  <2>1. m \in Nodes /\ NodeOK(i, m) /\ i \in Nat /\ at \in Nat
    BY <1>1, StagesTyped DEF RunOK
  <2>2. Before(i)' = Before(i)
    BY <1>2 DEF Before
  <2>3. CASE m # n
    BY <1>2, <1>4, <2>1, <2>2, <2>3 DEF NodeOK
  <2>4. CASE m = n
    <3>1. i = at /\ given[n] = Before(i)
      BY <2>1, <2>4 DEF NodeOK
    <3> QED
      BY <1>2, <1>4, <2>1, <2>2, <2>4, <3>1 DEF NodeOK
  <2> QED
    BY <2>3, <2>4
<1>11. ASSUME NEW m \in Nodes
       PROVE  /\ node'[m] \in {"over", "reported"} <=> verdict'[m] # "none"
              /\ verdict'[m] = "ok" => m \in performed'
              /\ node'[m] = "reported" <=> m \in Reported'
  BY <1>1, <1>4, <1>7 DEF RunOK
<1>12. RunOK'
  BY <1>2, <1>8, <1>9, <1>10, <1>11 DEF RunOK
<1> QED
  BY <1>1, <1>2, <1>5, <1>6, <1>12 DEF WorkflowInv

\* The next stage: all its nodes wait for are reported, and nothing else is.
LEMMA EnterStep ==
  ASSUME WorkflowInv, EnterStage
  PROVE  WorkflowInv'
<1>a. PICK new \in 1 .. Len(stages) : new = at + 1
  <2>1. at \in Nat /\ at <= Len(stages) /\ at # Len(stages) /\ Len(stages) \in Nat
    BY StagesTyped DEF WorkflowInv, EnterStage, Leave
  <2> QED
    BY <2>1
<1>0. TypeOK /\ LayersOK /\ RunOK /\ ready = {} /\ pc = "run" /\ pc' = "run" /\ success
      /\ StageOver
  BY DEF WorkflowInv, EnterStage, Leave
<1>1. UNCHANGED <<edges, visited, path, indegree, ready, stages, verdict, steps, success,
                  performed>>
  BY DEF EnterStage, graphVars
<1>2. /\ Len(stages) \in Nat /\ DOMAIN stages = 1 .. Len(stages)
      /\ \A i \in 1 .. Len(stages) : stages[i] \subseteq Nodes
      /\ at \in Nat /\ at' = new /\ new \in Nat
  BY <1>0, <1>a, StagesTyped DEF EnterStage
<1>3. node' = [n \in Nodes |-> IF n \in stages[new] THEN "queued" ELSE node[n]]
      /\ given' = [n \in Nodes |-> IF n \in stages[new] THEN Reported ELSE given[n]]
  BY <1>a DEF EnterStage
<1>4. \A i \in 1 .. Len(stages) : \A n \in stages[i] :
        /\ i < new => node[n] = "reported" /\ verdict[n] = "ok"
        /\ i >= new => node[n] = "idle"
        /\ node[n] # "idle" => given[n] = Before(i)
  <2> SUFFICES ASSUME NEW i \in 1 .. Len(stages), NEW n \in stages[i]
               PROVE  /\ i < new => node[n] = "reported" /\ verdict[n] = "ok"
                      /\ i >= new => node[n] = "idle"
                      /\ node[n] # "idle" => given[n] = Before(i)
    OBVIOUS
  <2>1. NodeOK(i, n) /\ n \in Nodes /\ i \in Nat
    BY <1>0, <1>2 DEF RunOK
  <2>2. i = at => node[n] = "reported"
    <3>1. i = at => n \in Stage
      BY <1>2 DEF Stage
    <3> QED
      BY <1>0, <3>1 DEF StageOver
  <2>3. node[n] = "reported" => verdict[n] = "ok"
    BY <1>0, <2>1 DEF RunOK
  <2>4. (i < new <=> i < at \/ i = at) /\ (i >= new <=> i > at)
    BY <1>a, <1>2, <2>1
  <2> QED
    BY <2>1, <2>2, <2>3, <2>4 DEF NodeOK
<1>5. Reported = Before(new)
  <2>1. \A n \in Reported : n \in Nodes /\ node[n] = "reported"
    BY <1>0, StepsTyped DEF Reported, RunOK
  <2>2. ASSUME NEW n \in Reported PROVE n \in Before(new)
    <3>1. PICK i \in 1 .. Len(stages) : n \in stages[i]
      BY <1>0, <2>1, NodeStaged
    <3>2. i < new /\ i \in 1 .. new - 1
      BY <1>2, <1>4, <2>1, <3>1
    <3> QED
      BY <3>1, <3>2 DEF Before
  <2>3. ASSUME NEW n \in Before(new) PROVE n \in Reported
    <3>1. PICK i \in 1 .. new - 1 : n \in stages[i]
      BY DEF Before
    <3>2. i \in 1 .. Len(stages) /\ i < new
      BY <1>2
    <3>3. n \in Nodes /\ node[n] = "reported"
      BY <1>2, <1>4, <3>1, <3>2
    <3> QED
      BY <1>0, <3>3 DEF RunOK
  <2> QED
    BY <2>2, <2>3
<1>6. \A i : Before(i)' = Before(i)
  BY <1>1 DEF Before
<1>7. ASSUME NEW i \in 1 .. Len(stages), NEW n \in stages[i]
      PROVE  NodeOK(i, n)'
  <2>1. n \in Nodes /\ i \in Nat
    BY <1>2
  <2>2. CASE i = new
    <3>1. ~(i < new) /\ ~(i > new)
      BY <1>2, <2>2
    <3>2. node'[n] = "queued" /\ given'[n] = Before(i)
      BY <1>3, <1>5, <2>1, <2>2
    <3> QED
      BY <1>2, <1>6, <2>2, <3>1, <3>2 DEF NodeOK
  <2>3. CASE i # new
    <3>1. n \notin stages[new]
      BY <1>0, <1>2, <2>3 DEF LayersOK
    <3>2. node'[n] = node[n] /\ given'[n] = given[n]
      BY <1>3, <2>1, <3>1
    <3>3. i > new => i >= new
      BY <1>2, <2>1
    <3> QED
      BY <1>1, <1>2, <1>4, <1>6, <2>3, <3>2, <3>3 DEF NodeOK
  <2> QED
    BY <2>2, <2>3
<1>8. \A n \in Nodes : /\ n \in stages[new] => node[n] = "idle" /\ node'[n] = "queued"
                       /\ n \notin stages[new] => node'[n] = node[n]
  <2>1. new >= new
    BY <1>2
  <2> QED
    BY <1>3, <1>4, <2>1
<1>9. RunOK'
  <2>1. Reported' = Reported
    BY <1>1 DEF Reported
  <2>2. \A n \in Nodes : /\ node'[n] \in {"over", "reported"} <=> node[n] \in {"over", "reported"}
                         /\ node'[n] = "reported" <=> node[n] = "reported"
    BY <1>8
  <2>3. Len(steps') = Cardinality(Reported') /\ IsFiniteSet(Reported')
        /\ (success' <=> \A n \in Reported' : verdict'[n] = "ok")
    BY <1>0, <1>1, <2>1 DEF RunOK
  <2>4. \A n \in Nodes :
          /\ node'[n] \in {"over", "reported"} <=> verdict'[n] # "none"
          /\ verdict'[n] = "ok" => n \in performed'
          /\ node'[n] = "reported" <=> n \in Reported'
    BY <1>0, <1>1, <2>1, <2>2 DEF RunOK
  <2> QED
    BY <1>1, <1>2, <1>7, <2>3, <2>4 DEF RunOK
<1>10. TypeOK'
  <2>1. Running' = Running
    BY <1>8 DEF Running
  <2>2. node' \in [Nodes -> {"idle", "queued", "running", "over", "reported"}]
    BY <1>0, <1>3 DEF TypeOK
  <2>3. given' \in [Nodes -> SUBSET Nodes]
    <3>1. Reported \subseteq Nodes
      BY <1>0, StepsTyped DEF Reported
    <3> QED
      BY <1>0, <1>3, <3>1 DEF TypeOK
  <2>4. at' \in 0 .. Len(stages')
    BY <1>1, <1>2
  <2> QED
    BY <1>0, <1>1, <2>1, <2>2, <2>3, <2>4 DEF TypeOK
<1>11. LayersOK'
  BY <1>0, <1>1, LayersKept
<1> QED
  BY <1>0, <1>1, <1>9, <1>10, <1>11 DEF WorkflowInv

\* How many nodes run when one of them is over, and when another begins.
LEMMA RunningCounted ==
  ASSUME TypeOK, NEW n \in Nodes, NEW s \in {"running", "over", "reported"}, node' = [node EXCEPT ![n] = s]
  PROVE  /\ s # "running" => Cardinality(Running') <= MaxParallel
         /\ FreeThread => Cardinality(Running') <= MaxParallel
<1>1. Running \in SUBSET Nodes /\ Running' \in SUBSET Nodes
  BY DEF Running
<1>2. IsFiniteSet(Running) /\ Cardinality(Running) \in Nat /\ Cardinality(Running') \in Nat
      /\ Cardinality(Running) <= MaxParallel /\ MaxParallel \in Nat
  BY <1>1, GraphIsFinite, WorkflowAssumption DEF TypeOK
<1>3. \A m \in Nodes : node'[m] = IF m = n THEN s ELSE node[m]
  BY DEF TypeOK
<1>4. ASSUME s # "running" PROVE Cardinality(Running') <= MaxParallel
  <2>1. Running' \in SUBSET Running
    BY <1>3, <1>4 DEF Running
  <2>2. Cardinality(Running') <= Cardinality(Running)
    BY <1>2, <2>1, FS_Subset
  <2> QED
    BY <1>2, <2>2
<1>5. ASSUME FreeThread PROVE Cardinality(Running') <= MaxParallel
  <2>1. Running' \in SUBSET (Running \cup {n})
    BY <1>3 DEF Running
  <2>a. IsFiniteSet(Running \cup {n})
        /\ Cardinality(Running \cup {n})
             = IF n \in Running THEN Cardinality(Running) ELSE Cardinality(Running) + 1
    BY <1>2, FS_AddElement
  <2>2. IsFiniteSet(Running \cup {n})
        /\ Cardinality(Running \cup {n}) <= Cardinality(Running) + 1
        /\ Cardinality(Running \cup {n}) \in Nat
    BY <1>2, <2>a
  <2>3. Cardinality(Running') <= Cardinality(Running \cup {n})
    BY <2>1, <2>2, FS_Subset
  <2> QED
    BY <1>2, <1>5, <2>2, <2>3 DEF FreeThread
<1> QED
  BY <1>4, <1>5

\* An exception of a subscriber ends the node, or the run.
LEMMA RaiseStep ==
  ASSUME WorkflowInv, pc = "run", NEW n \in Nodes, node[n] \in {"queued", "running"},
         Raise(n), performed \subseteq performed', performed' \subseteq Nodes,
         UNCHANGED <<edges, graphVars, at, given, steps, success>>
  PROVE  WorkflowInv'
<1>1. CASE Alone
  BY <1>1, RunKept DEF Raise
<1>2. CASE ~Alone
  <2>1. Cardinality(Running') <= MaxParallel
    BY <1>2, RunningCounted DEF Raise, WorkflowInv
  <2> QED
    BY <1>2, <2>1, NodeMoves DEF Raise
<1> QED
  BY <1>1, <1>2

LEMMA BeginStep ==
  ASSUME WorkflowInv, NEW n \in Nodes, Begin(n)
  PROVE  WorkflowInv'
<1>0. TypeOK /\ RunOK /\ pc = "run" /\ node[n] = "queued" /\ FreeThread
  BY DEF WorkflowInv, Begin
<1>1. UNCHANGED <<edges, graphVars, at, given, steps, success, performed>>
  <2>1. given' = [given EXCEPT ![n] = given[n]]
    BY DEF Begin, Copy
  <2>2. given' = given
    BY <1>0, <2>1 DEF TypeOK
  <2> QED
    BY <2>2 DEF Begin
<1>2. performed' \subseteq Nodes
  BY <1>0, <1>1 DEF TypeOK
<1>3. CASE Raise(n)
  BY <1>0, <1>1, <1>2, <1>3, RaiseStep
<1>4. CASE node' = [node EXCEPT ![n] = "running"] /\ UNCHANGED <<pc, verdict>>
  <2>1. verdict[n] = "none"
    BY <1>0 DEF RunOK
  <2>2. verdict' = [verdict EXCEPT ![n] = "none"]
    BY <1>0, <1>4, <2>1 DEF TypeOK
  <2>3. Cardinality(Running') <= MaxParallel
    BY <1>0, <1>4, RunningCounted
  <2> QED
    BY <1>0, <1>1, <1>2, <1>4, <2>2, <2>3, NodeMoves
<1> QED
  BY <1>3, <1>4 DEF Begin

LEMMA VerdictsKnown == \A n \in Nodes : Verdicts(n) \subseteq {"ok", "failed"}
BY WorkflowAssumption DEF Verdicts, NodeTypes

LEMMA FinishStep ==
  ASSUME WorkflowInv, NEW n \in Nodes, Finish(n)
  PROVE  WorkflowInv'
<1>0. TypeOK /\ pc = "run" /\ node[n] = "running"
      /\ UNCHANGED <<edges, graphVars, at, given, steps, success>>
  BY DEF WorkflowInv, Finish
<1>1. PICK v \in Verdicts(n) :
        /\ performed' = IF v = "ok" THEN performed \cup {n} ELSE performed
        /\ \/ /\ node' = [node EXCEPT ![n] = "over"]
              /\ verdict' = [verdict EXCEPT ![n] = v]
              /\ UNCHANGED pc
           \/ BusRaises /\ Raise(n)
  BY DEF Finish
<1>2. v \in {"ok", "failed"} /\ performed \subseteq performed' /\ performed' \subseteq Nodes
  BY <1>0, <1>1, VerdictsKnown DEF TypeOK
<1>3. CASE Raise(n)
  BY <1>0, <1>2, <1>3, RaiseStep
<1>4. CASE /\ node' = [node EXCEPT ![n] = "over"]
           /\ verdict' = [verdict EXCEPT ![n] = v]
           /\ UNCHANGED pc
  <2>1. TypeOK /\ node' = [node EXCEPT ![n] = "over"] /\ "over" # "running"
    BY <1>0, <1>4
  <2>2. Cardinality(Running') <= MaxParallel
    BY <2>1, RunningCounted
  <2> QED
    BY <1>0, <1>1, <1>2, <1>4, <2>2, NodeMoves
<1> QED
  BY <1>1, <1>3, <1>4

LEMMA CollectStep ==
  ASSUME WorkflowInv, NEW n \in Nodes, Collect(n)
  PROVE  WorkflowInv'
<1>0. TypeOK /\ RunOK /\ pc = "run" /\ pc' = "run" /\ node[n] = "over"
      /\ UNCHANGED <<edges, graphVars, at, given, performed>>
  BY DEF WorkflowInv, Collect
<1>1. verdict[n] \in {"ok", "failed"} /\ (verdict[n] = "ok" => n \in performed)
      /\ performed \subseteq Nodes
  BY <1>0 DEF RunOK, TypeOK
<1>2. verdict' = [verdict EXCEPT ![n] = verdict[n]]
  BY <1>0 DEF Collect, TypeOK
<1>3. node' = [node EXCEPT ![n] = "reported"] /\ steps' = Append(steps, n)
      /\ success' = (success /\ verdict[n] = "ok")
  BY DEF Collect, Judge
<1>4. TypeOK /\ node' = [node EXCEPT ![n] = "reported"] /\ "reported" # "running"
  BY <1>0, <1>3
<1>5. Cardinality(Running') <= MaxParallel
  BY <1>4, RunningCounted
<1> QED
  BY <1>0, <1>1, <1>2, <1>3, <1>5, NodeMoves

LEMMA EndStep ==
  ASSUME WorkflowInv, End
  PROVE  WorkflowInv'
<1>0. TypeOK /\ LayersOK /\ RunOK /\ ready = {} /\ pc' \in {"done", "raised"} /\ StageOver /\ Leave
  BY DEF WorkflowInv, End
<1>1. UNCHANGED <<edges, visited, path, indegree, ready, stages, at, node, verdict, given,
                  steps, success, performed>>
  BY DEF End, graphVars, runVars
<1>2. TypeOK'
  BY <1>0, <1>1 DEF TypeOK, Running
<1>3. LayersOK'
  BY <1>0, <1>1, LayersKept
<1>4. RunOK'
  <2>1. Reported' = Reported /\ \A i, n : NodeOK(i, n)' = NodeOK(i, n)
    BY <1>1 DEF Reported, NodeOK, Before
  <2> QED
    BY <1>0, <1>1, <2>1 DEF RunOK
<1>5. StageOver' /\ Leave'
  BY <1>0, <1>1 DEF StageOver, Stage, Leave
<1> QED
  BY <1>0, <1>1, <1>2, <1>3, <1>4, <1>5 DEF WorkflowInv

-----------------------------------------------------------------------------
(***************************************************************************)
(* The invariant is inductive.                                             *)
(***************************************************************************)
LEMMA InitInv ==
  ASSUME Init
  PROVE  WorkflowInv
<1>0. /\ edges \in Graphs /\ pc = "validate" /\ visited = {} /\ path = <<>> /\ ready = {}
      /\ indegree = Indegrees /\ stages = <<>> /\ Idle
  BY DEF Init, Idle
<1>1. OnPath = {} /\ Left = {} /\ DOMAIN path = {} /\ DOMAIN stages = {}
  BY <1>0 DEF OnPath, Left
<1>2. SearchOK
  BY <1>0, <1>1 DEF SearchOK, NoCycleIn
<1>3. TypeOK
  <2>0. Running = {} /\ MaxParallel \in Nat
    BY <1>0, WorkflowAssumption DEF Running, Idle
  <2>1. Cardinality(Running) <= MaxParallel
    BY <2>0, FS_EmptySet
  <2>2. indegree \in [Nodes -> Nat]
    BY <1>0, NeighboursAreNodes, GraphIsFinite DEF Indegrees
  <2>3. path \in Seq([node : Nodes, left : SUBSET Nodes]) /\ stages \in Seq(SUBSET Nodes)
        /\ steps \in Seq(Nodes)
    BY <1>0 DEF Idle
  <2>4. {} \notin {stages[i] : i \in DOMAIN stages} /\ at \in 0 .. Len(stages)
    BY <1>0, <1>1 DEF Idle
  <2> QED
    BY <1>0, <2>1, <2>2, <2>3, <2>4 DEF TypeOK, Idle
<1> QED
  BY <1>0, <1>2, <1>3 DEF WorkflowInv, Unstaged

LEMMA StutterInv ==
  ASSUME WorkflowInv, UNCHANGED vars
  PROVE  WorkflowInv'
<1>0. UNCHANGED <<edges, pc, visited, path, indegree, ready, stages, at, node, verdict, given,
                  steps, success, performed>>
  BY DEF vars, graphVars, runVars
<1>1. TypeOK' = TypeOK
  BY <1>0 DEF TypeOK, Running
<1>2. \A n : Successors(n)' = Successors(n) /\ Predecessors(n)' = Predecessors(n)
  BY <1>0 DEF Successors, Predecessors
<1>3. OnPath' = OnPath /\ Left' = Left /\ Reported' = Reported
      /\ \A i, n : NodeOK(i, n)' = NodeOK(i, n) /\ DealtWith(i)' = DealtWith(i)
  BY <1>0, <1>2 DEF OnPath, Left, Reported, NodeOK, Before, DealtWith
<1>4. SearchOK => SearchOK'
  BY <1>0, <1>2, <1>3 DEF SearchOK, NoCycleIn
<1>5. LayersOK => LayersOK'
  BY <1>0, LayersKept
<1>6. RunOK => RunOK'
  BY <1>0, <1>3 DEF RunOK
<1>7. (Unstaged => Unstaged') /\ (Idle => Idle') /\ (HasCycle => HasCycle')
  BY <1>0, <1>2 DEF Unstaged, Idle, HasCycle, Indegrees
<1>8. StageOver /\ Leave => StageOver' /\ Leave'
  BY <1>0 DEF StageOver, Stage, Leave
<1> QED
  BY <1>0, <1>1, <1>4, <1>5, <1>6, <1>7, <1>8 DEF WorkflowInv

LEMMA NextInv ==
  ASSUME WorkflowInv, [Next]_vars
  PROVE  WorkflowInv'
<1>1. CASE Work
  <2>1. CASE DfsReturn
    <3>1. path[Len(path)].node \in Nodes
      BY <2>1, PathTyped DEF WorkflowInv, DfsReturn
    <3> QED
      BY <2>1, <3>1, SearchStep
  <2>2. CASE \E n \in Nodes : DfsFrom(n) \/ DfsNeighbour(n)
    BY <2>2, SearchStep
  <2>3. CASE \E n \in Nodes : Begin(n) \/ Finish(n) \/ Collect(n)
    BY <2>3, BeginStep, FinishStep, CollectStep
  <2>4. CASE Valid \/ Layer \/ Layered
    BY <2>4, ValidStep, LayerStep, LayeredStep
  <2>5. CASE EnterStage \/ End
    BY <2>5, EnterStep, EndStep
  <2> QED
    BY <1>1, <2>1, <2>2, <2>3, <2>4, <2>5 DEF Work
<1>2. CASE UNCHANGED vars
  BY <1>2, StutterInv
<1> QED
  BY <1>1, <1>2 DEF Next

LEMMA SpecInv == Spec => []WorkflowInv
<1>1. Init => WorkflowInv
  BY InitInv
<1>2. WorkflowInv /\ [Next]_vars => WorkflowInv'
  BY NextInv
<1> QED
  BY <1>1, <1>2, PTL DEF Spec

-----------------------------------------------------------------------------
(***************************************************************************)
(* What it gives.                                                          *)
(***************************************************************************)
\* The variables hold values of their types, and no more threads of the pool run
\* than it has.
THEOREM WorkflowTypes == Spec => []TypeOK
<1>1. WorkflowInv => TypeOK
  BY DEF WorkflowInv
<1> QED
  BY <1>1, SpecInv, PTL

\* In whatever order nodes and edges were added, validate refuses a graph only if
\* it has a cycle and lets it through only if it has none; execution_stages then
\* puts every node in one stage, after the stages of all it waits for.
THEOREM SearchAndStagesCorrect == Spec => []GraphJudged
<1>1. ASSUME WorkflowInv PROVE GraphJudged
  <2>1. SUFFICES ASSUME pc \in {"run", "done"}
                 PROVE  /\ ~HasCycle
                        /\ \A n \in Nodes : Cardinality({i \in DOMAIN stages : n \in stages[i]}) = 1
                        /\ \A i, j \in DOMAIN stages : \A n \in stages[i], m \in stages[j] :
                             <<n, m>> \in edges => i < j
    BY <1>1 DEF WorkflowInv, GraphJudged
  <2>2. TypeOK /\ LayersOK /\ ready = {}
    BY <1>1, <2>1 DEF WorkflowInv
  <2>3. ~HasCycle
    BY <2>2, NoCycleMeans DEF LayersOK
  <2>4. ASSUME NEW n \in Nodes
        PROVE  Cardinality({i \in DOMAIN stages : n \in stages[i]}) = 1
    <3>1. PICK i \in 1 .. Len(stages) : n \in stages[i]
      BY <1>1, <2>1, NodeStaged
    <3>2. {k \in DOMAIN stages : n \in stages[k]} = {i}
      BY <2>2, <3>1, StagesTyped DEF LayersOK
    <3> QED
      BY <3>2, FS_Singleton
  <2>5. ASSUME NEW i \in DOMAIN stages, NEW j \in DOMAIN stages,
               NEW n \in stages[i], NEW m \in stages[j], <<n, m>> \in edges
        PROVE  i < j
    <3>1. n \in Nodes /\ i \in 1 .. Len(stages) /\ j \in 1 .. Len(stages) /\ Len(stages) \in Nat
      BY <2>2, StagesTyped
    <3>2. n \in Predecessors(m)
      BY <2>5, <3>1 DEF Predecessors
    <3>3. n \in Before(j)
      BY <2>2, <3>2 DEF LayersOK
    <3>4. PICK k \in 1 .. j - 1 : n \in stages[k]
      BY <3>3 DEF Before
    <3>5. k \in 1 .. Len(stages) /\ k < j
      BY <3>1
    <3>6. k = i
      BY <2>2, <3>1, <3>4, <3>5, StagesTyped DEF LayersOK
    <3> QED
      BY <3>5, <3>6
  <2> QED
    BY <2>3, <2>4, <2>5
<1> QED
  BY <1>1, SpecInv, PTL

\* However the threads of the pool are scheduled, a node works with the outputs
\* of all earlier stages and of none of its own.
THEOREM InputsDoNotRace == Spec => []GivenIsFixed
<1>1. ASSUME WorkflowInv PROVE GivenIsFixed
  <2> SUFFICES ASSUME NEW i \in DOMAIN stages, NEW n \in stages[i],
                      node[n] \in {"running", "over", "reported"}
               PROVE  given[n] = Before(i)
    BY DEF GivenIsFixed, Before
  <2>1. n \in Nodes /\ i \in 1 .. Len(stages)
    BY <1>1, StagesTyped DEF WorkflowInv
  <2>2. CASE pc \in {"run", "done", "raised"}
    BY <1>1, <2>2 DEF WorkflowInv, RunOK, NodeOK
  <2>3. CASE pc \in {"validate", "layer"}
    BY <1>1, <2>1, <2>3 DEF WorkflowInv, Idle
  <2>4. CASE pc = "invalid"
    BY <1>1, <2>4 DEF WorkflowInv
  <2> QED
    BY <1>1, <2>2, <2>3, <2>4 DEF WorkflowInv, TypeOK
<1> QED
  BY <1>1, SpecInv, PTL

\* Once a run is done: success only if every node did what it is there for and is
\* reported, each once; failure only if a reported node failed, after which nothing
\* of a later stage was begun, in whatever order the nodes of the stage completed.
THEOREM AnswerIsHonest == Spec => []ResultHonest
<1>1. ASSUME WorkflowInv PROVE ResultHonest
  <2> SUFFICES ASSUME pc = "done" PROVE ResultHonest
    BY DEF ResultHonest
  <2>0. TypeOK /\ RunOK /\ StageOver /\ Leave
    BY <1>1 DEF WorkflowInv
  <2>1. \A n \in Reported : n \in Nodes /\ verdict[n] \in {"ok", "failed"}
    BY <2>0, StepsTyped DEF TypeOK, RunOK, Reported
  <2>2. ASSUME success PROVE performed = Nodes /\ Reported = Nodes
    <3>1. at = Len(stages)
      BY <2>0, <2>2 DEF Leave
    <3>2. ASSUME NEW n \in Nodes PROVE n \in Reported
      <4>1. PICK i \in 1 .. Len(stages) : n \in stages[i] /\ NodeOK(i, n)
        BY <1>1, NodeStaged
      <4>2. i < at \/ (i = at /\ at # 0)
        BY <2>0, <3>1, StagesTyped
      <4>3. i = at /\ at # 0 => node[n] = "reported"
        BY <2>0, <4>1 DEF StageOver, Stage
      <4> QED
        BY <2>0, <4>1, <4>2, <4>3 DEF NodeOK, RunOK
    <3>3. Reported = Nodes
      BY <2>1, <3>2
    <3>4. \A n \in Nodes : n \in performed
      BY <2>0, <2>2, <3>3 DEF RunOK
    <3> QED
      BY <2>0, <3>3, <3>4 DEF TypeOK
  <2>3. ASSUME ~success PROVE \E n \in Reported : verdict[n] = "failed"
    <3>1. \E n \in Reported : verdict[n] # "ok"
      BY <2>0, <2>3 DEF RunOK
    <3> QED
      BY <2>1, <3>1
  <2>4. ASSUME NEW i \in DOMAIN stages, NEW n \in stages[i], verdict[n] = "failed",
               NEW j \in DOMAIN stages, j > i
        PROVE  stages[j] \cap Reported = {}
    <3>1. /\ i \in Nat /\ j \in Nat /\ at \in Nat /\ n \in Nodes /\ NodeOK(i, n)
      BY <2>0, StagesTyped DEF RunOK
    <3>2. node[n] # "idle"
      BY <2>0, <2>4, <3>1 DEF RunOK
    <3>3. i = at
      BY <2>4, <3>1, <3>2 DEF NodeOK
    <3>4. \A m \in stages[j] : m \in Nodes /\ node[m] = "idle"
      <4>1. \A m \in stages[j] : m \in Nodes /\ NodeOK(j, m)
        BY <2>0, StagesTyped DEF RunOK
      <4> QED
        BY <2>4, <3>3, <4>1 DEF NodeOK
    <3> QED
      BY <2>0, <3>4 DEF RunOK
  <2>5. Len(steps) = Cardinality(Reported)
    BY <2>0 DEF RunOK
  <2> QED
    BY <2>2, <2>3, <2>4, <2>5 DEF ResultHonest
<1> QED
  BY <1>1, SpecInv, PTL

\* OrderedSteps' variables as the run has them.
Began == {n \in Nodes : node[n] \in {"running", "over", "reported"}}
Done == {n \in Nodes : node[n] = "reported" /\ verdict[n] = "ok"}

\* What a node of the stage waits for is done.
LEMMA NodeFree ==
  ASSUME WorkflowInv, pc = "run", NEW n \in Nodes, node[n] # "idle"
  PROVE  Predecessors(n) \subseteq Done
<1>0. TypeOK /\ LayersOK /\ RunOK
  BY DEF WorkflowInv
<1>1. PICK i \in 1 .. Len(stages) : n \in stages[i] /\ NodeOK(i, n)
  BY NodeStaged
<1>2. i \in Nat /\ at \in Nat /\ Len(stages) \in Nat /\ i <= at
  BY <1>0, <1>1, StagesTyped DEF NodeOK
<1>3. ASSUME NEW m \in Before(i) PROVE m \in Done
  <2>1. PICK j \in 1 .. i - 1 : m \in stages[j]
    BY DEF Before
  <2>2. j \in 1 .. Len(stages) /\ j < at
    BY <1>2
  <2>3. m \in Nodes /\ NodeOK(j, m)
    BY <1>0, <2>1, <2>2, StagesTyped DEF RunOK
  <2> QED
    BY <2>2, <2>3 DEF NodeOK, Done
<1> QED
  BY <1>0, <1>1, <1>3, StagesTyped DEF LayersOK

\* A node that goes on begins, is done, or changes nothing of this.
LEMMA MoveIsOrdered ==
  ASSUME WorkflowInv, pc = "run", NEW n \in Nodes, node[n] \in {"queued", "running", "over"},
         NEW s \in {"running", "over", "reported"}, NEW v \in {"none", "ok", "failed"},
         node' = [node EXCEPT ![n] = s], verdict' = [verdict EXCEPT ![n] = v]
  PROVE  /\ s # "reported" => Began' = Began \cup {n} /\ Done' = Done
         /\ s = "reported" /\ node[n] = "over" =>
              Began' = Began /\ Done' = IF v = "ok" THEN Done \cup {n} ELSE Done
<1>0. node \in [Nodes -> {"idle", "queued", "running", "over", "reported"}]
      /\ verdict \in [Nodes -> {"none", "ok", "failed"}]
  BY DEF WorkflowInv, TypeOK
<1>1. /\ node'[n] = s /\ verdict'[n] = v
      /\ \A m \in Nodes : m # n => node'[m] = node[m] /\ verdict'[m] = verdict[m]
  BY <1>0
<1> QED
  BY <1>1 DEF Began, Done

LEMMA OrderStep ==
  ASSUME WorkflowInv, [Next]_vars
  PROVE  /\ edges' = edges
         /\ \/ Began' = Began /\ Done' = Done
            \/ \E n \in Nodes :
                 /\ Predecessors(n) \subseteq Done
                 /\ \/ Began' = Began \cup {n} /\ Done' = Done
                    \/ Began' = Began /\ Done' = Done \cup {n}
<1> DEFINE Kept == Began' = Began /\ Done' = Done
<1>1. ASSUME node' = node, verdict' = verdict PROVE Kept
  BY <1>1 DEF Began, Done
<1>2. edges' = edges
  BY DEF Next, Work, DfsFrom, DfsNeighbour, DfsReturn, Valid, Layer, Layered, EnterStage, Begin,
         Finish, Collect, End, vars, graphVars
<1>3. CASE \/ \E n \in Nodes : DfsFrom(n) \/ DfsNeighbour(n)
           \/ DfsReturn \/ Valid \/ Layer \/ Layered \/ End \/ UNCHANGED vars
  <2>1. node' = node /\ verdict' = verdict
    BY <1>3 DEF DfsFrom, DfsNeighbour, DfsReturn, Valid, Layer, Layered, End, vars, runVars
  <2> QED
    BY <1>1, <1>2, <2>1
<1>4. CASE EnterStage
  <2>1. TypeOK /\ RunOK /\ at + 1 \in 1 .. Len(stages) /\ at + 1 > at
    <3>1. TypeOK /\ RunOK /\ at # Len(stages)
      BY <1>4 DEF WorkflowInv, EnterStage, Leave
    <3>2. at \in Nat /\ Len(stages) \in Nat /\ at <= Len(stages)
      BY <3>1, StagesTyped
    <3> QED
      BY <3>1, <3>2
  <2>2. \A n \in stages[at + 1] : node[n] = "idle"
    BY <2>1, StagesTyped DEF RunOK, NodeOK
  <2>3. \A n \in Nodes : node'[n] = IF n \in stages[at + 1] THEN "queued" ELSE node[n]
    BY <1>4 DEF EnterStage
  <2>4. verdict' = verdict
    BY <1>4 DEF EnterStage
  <2>5. Kept
    BY <2>2, <2>3, <2>4 DEF Began, Done
  <2> QED
    BY <1>2, <2>5
<1>5. ASSUME NEW n \in Nodes, Begin(n) \/ Finish(n)
      PROVE  Kept \/ (Began' = Began \cup {n} /\ Done' = Done)
  <2>1. pc = "run" /\ TypeOK /\ RunOK /\ node[n] \in {"queued", "running"}
    BY <1>5 DEF Begin, Finish, WorkflowInv
  <2>2. \/ UNCHANGED <<node, verdict>>
        \/ \E v \in {"ok", "failed"} :
             node' = [node EXCEPT ![n] = "over"] /\ verdict' = [verdict EXCEPT ![n] = v]
        \/ node' = [node EXCEPT ![n] = "running"] /\ verdict' = verdict /\ node[n] = "queued"
    BY <1>5, VerdictsKnown DEF Begin, Finish, Raise
  <2>3. node[n] = "queued" => verdict = [verdict EXCEPT ![n] = "none"]
    BY <2>1 DEF TypeOK, RunOK
  <2>4. CASE \E v \in {"ok", "failed"} :
             node' = [node EXCEPT ![n] = "over"] /\ verdict' = [verdict EXCEPT ![n] = v]
    BY <2>1, <2>4, MoveIsOrdered
  <2>5. CASE node' = [node EXCEPT ![n] = "running"] /\ verdict' = verdict /\ node[n] = "queued"
    BY <2>1, <2>3, <2>5, MoveIsOrdered
  <2> QED
    BY <1>1, <2>2, <2>4, <2>5
<1>6. ASSUME NEW n \in Nodes, Collect(n)
      PROVE  Kept \/ (Began' = Began /\ Done' = Done \cup {n})
  <2>1. pc = "run" /\ TypeOK /\ node[n] = "over" /\ verdict' = verdict
        /\ node' = [node EXCEPT ![n] = "reported"]
    BY <1>6 DEF Collect, WorkflowInv
  <2>2. verdict' = [verdict EXCEPT ![n] = verdict[n]] /\ verdict[n] \in {"none", "ok", "failed"}
    BY <2>1 DEF TypeOK
  <2> QED
    BY <2>1, <2>2, MoveIsOrdered
<1>7. \A n \in Nodes : Begin(n) \/ Finish(n) \/ Collect(n) => Predecessors(n) \subseteq Done
  BY NodeFree DEF Begin, Finish, Collect
<1>8. CASE \E n \in Nodes : Begin(n) \/ Finish(n) \/ Collect(n)
  BY <1>2, <1>5, <1>6, <1>7, <1>8
<1> QED
  BY <1>3, <1>4, <1>8 DEF Next, Work

\* Every behaviour of a run is one of OrderedSteps: nothing begins, or succeeds,
\* before all it waits for has succeeded.
THEOREM KeepsTheOrder == Spec => ImplementsOrder
<1>1. Init => Ordered!OrderedInit
  <2> SUFFICES ASSUME Init PROVE Ordered!OrderedInit
    OBVIOUS
  <2>1. [n \in Nodes |-> Predecessors(n)] \in [Nodes -> SUBSET Nodes]
    BY NeighboursAreNodes
  <2>2. \A n \in Nodes : node[n] = "idle"
    BY DEF Init
  <2> QED
    BY <2>1, <2>2 DEF Ordered!OrderedInit
<1>2. WorkflowInv /\ [Next]_vars => [Ordered!OrderedNext]_(Ordered!orderedVars)
  <2> SUFFICES ASSUME WorkflowInv, [Next]_vars
               PROVE  [Ordered!OrderedNext]_(Ordered!orderedVars)
    OBVIOUS
  <2>1. edges' = edges
        /\ \/ Began' = Began /\ Done' = Done
           \/ \E n \in Nodes :
                /\ Predecessors(n) \subseteq Done
                /\ \/ Began' = Began \cup {n} /\ Done' = Done
                   \/ Began' = Began /\ Done' = Done \cup {n}
    BY OrderStep
  <2>2. [n \in Nodes |-> Predecessors(n)]' = [n \in Nodes |-> Predecessors(n)]
    BY <2>1 DEF Predecessors
  <2>3. \A n \in Nodes : [m \in Nodes |-> Predecessors(m)][n] = Predecessors(n)
    OBVIOUS
  <2> QED
    BY <2>1, <2>2, <2>3 DEF Began, Done, Ordered!OrderedNext, Ordered!Begin, Ordered!Finish,
       Ordered!Free, Ordered!orderedVars
<1> QED
  BY <1>1, <1>2, SpecInv, PTL DEF Spec, ImplementsOrder, Ordered!OrderedSpec
=============================================================================
