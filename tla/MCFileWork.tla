----------------------------- MODULE MCFileWork -----------------------------
(***************************************************************************)
(* FileWork over three files and a folder.  "a" is also what a command for *)
(* "b" finds when there is no "b".                                         *)
(***************************************************************************)
EXTENDS FileWork, TLC

MCFiles == {"a", "b", "c"}
Symmetric == Permutations(Callers)
MCSimilar == [p \in MCFiles |-> IF p = "b" THEN {"a"} ELSE {}]
Req(do, src, dst, door, asks) == [do |-> do, src |-> src, dst |-> dst, door |-> door, asks |-> asks]
MCRequests == {Req("copy", "a", "c", "kernel", "never"), Req("copy", "b", "a", "kernel", "never"),
               Req("folder", "a", "new", "kernel", "never"), Req("folder", "a", "new", "executor", "never"),
               Req("copy", "b", "c", "executor", "never"), Req("move", "b", "c", "executor", "never"),
               Req("create", "c", "c", "executor", "never"), Req("zip", "a", "c", "executor", "never"),
               Req("delete", "b", "b", "executor", "user"), Req("delete", "c", "c", "executor", "approved"),
               Req("delete", "a", "a", "executor", "never")}
=============================================================================
