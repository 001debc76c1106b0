----------------------------- MODULE MCWorkflow -----------------------------
(***************************************************************************)
(* Workflow over every graph of up to four nodes with at most six edges    *)
(* (as many as one without a cycle can have) of which none leads from a    *)
(* node to itself, and over the graphs of one such edge.                   *)
(***************************************************************************)
EXTENDS Workflow

MCNodes == 1 .. 4
MCKind == [n \in MCNodes |-> CASE n = 1 -> "agent" [] n = 2 -> "condition"
                               [] n = 3 -> "tool" [] OTHER -> "loop"]
MCIterations == [n \in MCNodes |-> 2]
MCGraphs == {g \in SUBSET (MCNodes \X MCNodes) :
               Cardinality(g) <= 6 /\ \A n \in MCNodes : <<n, n>> \in g => g = {<<n, n>>}}
=============================================================================
