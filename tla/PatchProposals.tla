--------------------------- MODULE PatchProposals ---------------------------
(***************************************************************************)
(* Patches an agent proposes, the decisions about them, and their          *)
(* application (agent/runtime.py, agent/execution/, tools/apply_patch.py,  *)
(* tools/approval_store.py).  A proposal waits as a row of approvals.db;   *)
(* terminals (cli/agent_run_cmd.py) and the server's routes decide about   *)
(* it, and `patch apply` writes it to the files, one after the other, each *)
(* with a backup beside it, and takes it back when one of them fails.      *)
(* `agent rollback` puts back every backup there is, whoever left it.      *)
(*                                                                         *)
(* Abstracted: a file is the text others wrote last and the proposals      *)
(* patched into it; whether the hunks of a patch match a text, and whether *)
(* a row's deadline has passed, may go either way.  A copy, and what       *)
(* others write, is one step or breaks off.  Files are not deleted, only   *)
(* apply_patch writes a .bak, and no proposal is a placeholder (one is     *)
(* denied whenever it is looked at).                                       *)
(***************************************************************************)
EXTENDS Integers, FiniteSets, Sequences

CONSTANTS
  Proposals,
  Files,
  Changes,      \* the files a proposal changes, in order
  Terminals,
  MaxTexts,     \* bound on the texts others write or begin to
  MaxAtOnce,    \* bound on the applications under way at once
  None

ASSUME ProposalAssumption ==
  /\ Changes \in [Proposals -> Seq(Files)]
  /\ \A i \in Proposals :
       /\ Changes[i] # <<>>
       /\ \A k, l \in 1 .. Len(Changes[i]) : Changes[i][k] = Changes[i][l] => k = l
  /\ MaxTexts \in Nat /\ MaxAtOnce \in Nat
  /\ None \notin Proposals \cup [text : -1 .. MaxTexts, patches : SUBSET Proposals]

VARIABLES
  row,          \* the status of each proposal's row
  files,
  bak,          \* <path>.bak, or None
  hash,         \* original_hash of each file of a proposal
  pc, call,     \* where each terminal's command stands, and its variables
  \* history
  texts,        \* how many texts others have begun to write
  latest,       \* of each file, the number of the last of them
  stale,        \* files others wrote since their backup, or whose backup broke off
  raced,        \* files others wrote while an application held them, files that
                \* `agent rollback` took from a stale backup, and those where it,
                \* or a tool call of an agent that broke off, met an application
  blurred,      \* two applications wrote at once, or one patched a torn file
  undone,       \* <<proposal, file>> where others took the patch away
  before        \* what each file was that an application backed up, until
                \* something else writes it or writing it breaks off

fileVars == <<files, bak, hash>>
writings == <<texts, latest, stale, raced, blurred, undone>>
history == <<writings, before>>
vars == <<row, fileVars, pc, call, history>>

Statuses == {"absent", "pending", "approved", "denied", "expired", "executed"}
Content == [text : -1 .. MaxTexts, patches : SUBSET Proposals]
Torn == [text |-> -1, patches |-> {}]     \* opened for writing and not written

\* kept: how many files are patched and backed up.
NoCall == [prop |-> None, approved |-> FALSE, verdict |-> None,
           at |-> 1, kept |-> 0, patched |-> Torn]

Init == /\ row = [i \in Proposals |-> "absent"]
        /\ files = [f \in Files |-> [text |-> 0, patches |-> {}]]
        /\ bak = [f \in Files |-> None]
        /\ hash = [i \in Proposals |-> files]
        /\ pc = [p \in Terminals |-> "idle"]
        /\ call = [p \in Terminals |-> NoCall]
        /\ texts = 0
        /\ latest = [f \in Files |-> 0]
        /\ stale = {} /\ raced = {} /\ blurred = FALSE /\ undone = {}
        /\ before = [p \in Terminals |-> [f \in Files |-> None]]

\* A row is found by its id, or by the proposal's own name.
Bys == {"row", "name"}

Goto(p, l) == pc' = [pc EXCEPT ![p] = l]
Note(p, c) == call' = [call EXCEPT ![p] = c]
AtRest(p) == pc[p] \in {"idle", "failed"}

\* The command ends; l is "failed" if it said so of an application.
Ends(p, l) == Goto(p, l) /\ Note(p, NoCall)

InApply(p) == pc[p] \notin {"idle", "failed", "decide"}

File(p) == Changes[call[p].prop][call[p].at]
Size(p) == Len(Changes[call[p].prop])

\* p has taken a file's text and has not ended.
Applying(p) ==
  \/ pc[p] \in {"backup", "open", "fill", "rollback", "record", "find", "mark", "clean"}
  \/ pc[p] = "read" /\ call[p].at > 1

\* The files p will write from what it has read, or may yet take back.
Holds(p) ==
  LET span == IF pc[p] = "read" THEN 1 .. call[p].kept
              ELSE IF pc[p] \in {"backup", "open", "fill"} THEN 1 .. call[p].at
              ELSE IF pc[p] = "rollback" THEN call[p].at .. call[p].kept
              ELSE {}
  IN {Changes[call[p].prop][k] : k \in span}

Patches(p, f) == \E k \in 1 .. Size(p) : f = Changes[call[p].prop][k]

\* What there is of a file: a torn one is in its backup, if it has one.
Shown(f) == IF files[f].text = -1 /\ bak[f] # None THEN bak[f] ELSE files[f]

\* p writes c to f, and b to its backup; was is what p remembers f to have been.
Put(p, f, c, b, was) ==
  /\ files' = [files EXCEPT ![f] = c]
  /\ bak' = [bak EXCEPT ![f] = b]
  /\ before' = [q \in Terminals |-> [before[q] EXCEPT ![f] = IF q = p THEN was ELSE None]]
  /\ UNCHANGED hash

\* Those in S cannot tell any more what f was by what it is.
Forget(S, f) ==
  before' = [q \in Terminals |->
               IF q \in S THEN [before[q] EXCEPT ![f] = None] ELSE before[q]]

\* p will not say of an application that it failed, or no longer.
Settled(p) == before' = [before EXCEPT ![p] = [f \in Files |-> None]]
-----------------------------------------------------------------------------
(* Rows: proposing, deciding, expiring.                                    *)
Propose(i) == /\ row[i] = "absent"
              /\ row' = [row EXCEPT ![i] = "pending"]
              /\ hash' = [hash EXCEPT ![i] = files]
              /\ UNCHANGED <<files, bak, pc, call, history>>

\* `patch approve`, `patch reject`: the look ...
Decide(p, i, by, verdict) ==
  /\ AtRest(p) /\ row[i] # "absent"
  /\ verdict = "approved" => row[i] # "denied"
  /\ by = "name" => row[i] = "pending"
  /\ Goto(p, "decide")
  /\ Note(p, [NoCall EXCEPT !.prop = i, !.verdict = verdict])
  /\ Settled(p)
  /\ UNCHANGED <<row, fileVars, writings>>

\* ... and update_status, which overwrites whatever the row says by then.
Decided(p) == /\ pc[p] = "decide"
              /\ row' = [row EXCEPT ![call[p].prop] = call[p].verdict]
              /\ Ends(p, "idle")
              /\ UNCHANGED <<fileVars, history>>

\* POST /v1/approvals/{id}/approve and /deny look whether there is a row.
ServerDecides(i, verdict) ==
  /\ row[i] # "absent"
  /\ row' = [row EXCEPT ![i] = verdict]
  /\ UNCHANGED <<fileVars, pc, call, history>>

\* GET /v1/approvals/pending marks the rows that are past their deadline.
Expire(i) ==
  /\ row[i] = "pending"
  /\ row' = [row EXCEPT ![i] = "expired"]
  /\ UNCHANGED <<fileVars, pc, call, history>>
-----------------------------------------------------------------------------
(* apply_patch.                                                            *)
Apply(p, i) ==
  /\ AtRest(p) /\ row[i] # "absent"
  /\ Cardinality({q \in Terminals : InApply(q)}) < MaxAtOnce
  /\ Goto(p, "fresh")
  /\ Note(p, [NoCall EXCEPT !.prop = i, !.approved = row[i] = "approved"])
  /\ Settled(p)
  /\ UNCHANGED <<row, fileVars, writings>>

\* is_proposal_fresh, and the same check once more before anything is written.
Stale(p) == /\ pc[p] \in {"fresh", "recheck"}
            /\ files[File(p)] # hash[call[p].prop][File(p)]
            /\ Ends(p, IF pc[p] = "fresh" THEN "idle" ELSE "failed")
            /\ UNCHANGED <<row, fileVars, history>>

Fresh(p) == /\ pc[p] \in {"fresh", "recheck"}
            /\ files[File(p)] = hash[call[p].prop][File(p)]
            /\ call[p].at < Size(p)
            /\ Note(p, [call[p] EXCEPT !.at = @ + 1])
            /\ UNCHANGED <<row, fileVars, pc, history>>

AllFresh(p) ==
  /\ pc[p] \in {"fresh", "recheck"}
  /\ files[File(p)] = hash[call[p].prop][File(p)]
  /\ call[p].at = Size(p)
  /\ IF pc[p] = "fresh" /\ ~call[p].approved THEN Ends(p, "idle")
     ELSE /\ Goto(p, IF pc[p] = "fresh" THEN "recheck" ELSE "read")
          /\ Note(p, [call[p] EXCEPT !.at = 1])
  /\ UNCHANGED <<row, fileVars, history>>

\* The tool on one file: its text is read and patched in memory ...
ReadText(p) ==
  /\ pc[p] = "read"
  /\ Goto(p, "backup")
  /\ Note(p, [call[p] EXCEPT !.patched =
                [files[File(p)] EXCEPT !.patches = @ \cup {call[p].prop}]])
  /\ blurred' = (\/ blurred \/ files[File(p)].text = -1
                 \/ \E q \in Terminals \ {p} : Applying(q))
  /\ UNCHANGED <<row, fileVars, texts, latest, stale, raced, undone, before>>

\* Mutant of BackUp: a backup that is there is not overwritten.
BackUpOnce(p) ==
  /\ pc[p] = "backup"
  /\ LET f == File(p)
     IN Put(p, f, files[f], IF bak[f] = None THEN files[f] ELSE bak[f], files[f])
  /\ stale' = stale \ {File(p)}
  /\ Goto(p, "open")
  /\ UNCHANGED <<row, call, texts, latest, raced, blurred, undone>>

\* ... it is copied to its backup as it is by then ...
BackUp(p) ==
  /\ pc[p] = "backup"
  /\ LET f == File(p) IN Put(p, f, files[f], files[f], files[f])
  /\ stale' = stale \ {File(p)}
  /\ Goto(p, "open")
  /\ UNCHANGED <<row, call, texts, latest, raced, blurred, undone>>

\* ... and written: write_text empties the file first.
Open(p) ==
  /\ pc[p] = "open"
  /\ Put(p, File(p), Torn, bak[File(p)], before[p][File(p)])
  /\ Goto(p, "fill")
  /\ UNCHANGED <<row, call, writings>>

Fill(p) ==
  /\ pc[p] = "fill"
  /\ Put(p, File(p), call[p].patched, bak[File(p)], before[p][File(p)])
  /\ undone' = IF row[call[p].prop] = "executed" THEN undone
               ELSE undone \ {<<call[p].prop, File(p)>>}
  /\ IF call[p].at < Size(p)
     THEN Goto(p, "read")
          /\ Note(p, [call[p] EXCEPT !.at = @ + 1, !.kept = @ + 1, !.patched = Torn])
     ELSE Goto(p, "record")
          /\ Note(p, [call[p] EXCEPT !.kept = @ + 1, !.patched = Torn])
  /\ UNCHANGED <<row, texts, latest, stale, raced, blurred>>

\* Mutant of ToUndo: the file patched last is not among the backups yet.
ToUndoButLast(p) == call[p].kept - 1

\* The files to be taken back are those the tool succeeded with.
ToUndo(p) == call[p].kept

\* The tool fails: no such file, hunks that do not match, or a copy or a write
\* that does not start or breaks off.
ToolFails(p) ==
  /\ pc[p] \in {"read", "backup", "open", "fill"}
  /\ bak' \in IF pc[p] = "backup" THEN {bak, [bak EXCEPT ![File(p)] = Torn]} ELSE {bak}
  /\ stale' = IF bak' = bak THEN stale ELSE stale \cup {File(p)}
  /\ Forget({q \in Terminals : IF q = p THEN pc[p] = "fill" ELSE bak' # bak}, File(p))
  /\ IF ToUndo(p) < 1 THEN Ends(p, "failed")
     ELSE /\ Goto(p, "rollback")
          /\ Note(p, [call[p] EXCEPT !.at = 1, !.kept = ToUndo(p), !.patched = Torn])
  /\ UNCHANGED <<row, files, hash, texts, latest, raced, blurred, undone>>

\* Mutant of RolledBack: the caller goes on as if nothing had failed.
RolledBackGoesOn(p) == Goto(p, "record") /\ UNCHANGED call

RolledBack(p) == Ends(p, "failed")

\* rollback_applied_backups, one file; whatever it raises is passed over.
Restore(p) ==
  /\ pc[p] = "rollback"
  /\ LET f == File(p)
     IN IF bak[f] = None THEN UNCHANGED <<fileVars, before>>
        ELSE \/ \E b \in {None, bak[f]} : Put(p, f, bak[f], b, before[p][f])
             \/ \E c \in {files[f], Torn} : Put(p, f, c, bak[f], None)
  /\ IF call[p].at < call[p].kept
     THEN Note(p, [call[p] EXCEPT !.at = @ + 1]) /\ UNCHANGED pc
     ELSE RolledBack(p)
  /\ UNCHANGED <<row, writings>>

\* The tests have run.  execute_proposal raises if the row was denied meanwhile;
\* if the command was given the proposal's own name, of which nothing was made
\* so far, it looks among the approved rows.
Record(p) ==
  LET i == call[p].prop
  IN /\ pc[p] = "record"
     /\ IF row[i] = "denied" THEN Ends(p, "idle")
        ELSE (\E by \in Bys : Goto(p, IF by = "name" THEN "find" ELSE "mark"))
             /\ UNCHANGED call
     /\ Settled(p)
     /\ UNCHANGED <<row, fileVars, writings>>

Find(p) ==
  /\ pc[p] = "find"
  /\ IF row[call[p].prop] = "approved" THEN Goto(p, "mark") /\ UNCHANGED call
     ELSE Goto(p, "clean") /\ Note(p, [call[p] EXCEPT !.at = 1])
  /\ UNCHANGED <<row, fileVars, history>>

Mark(p) ==
  /\ pc[p] = "mark"
  /\ row' = [row EXCEPT ![call[p].prop] = "executed"]
  /\ Goto(p, "clean")
  /\ Note(p, [call[p] EXCEPT !.at = 1])
  /\ UNCHANGED <<fileVars, history>>

\* remove_backups; a backup that cannot be removed stays.
Clean(p) ==
  /\ pc[p] = "clean"
  /\ LET f == File(p) IN \E b \in {None, bak[f]} : Put(p, f, files[f], b, before[p][f])
  /\ IF call[p].at < Size(p)
     THEN Note(p, [call[p] EXCEPT !.at = @ + 1]) /\ UNCHANGED pc
     ELSE Ends(p, "idle")
  /\ UNCHANGED <<row, writings>>

Crash(p) == /\ ~AtRest(p)
            /\ Ends(p, "idle")
            /\ Settled(p)
            /\ UNCHANGED <<row, fileVars, writings>>
-----------------------------------------------------------------------------
(* Others write the files: a user, an editor, git, and agents that call    *)
(* the tool themselves, which leaves its backup behind.                    *)
\* What they leave in f says which patches it has not; of a raced file nothing
\* more is recorded.
TakeAway(f, c) ==
  undone' = {u \in undone : u[2] # f} \cup
            {u \in (Proposals \ c.patches) \X {f} : f \notin raced'}

\* An application has taken texts and is to write, or has written, f.
Meets(f) == \E p \in Terminals : Applying(p) /\ Patches(p, f)

Write(f, c, b) ==
  /\ files' = [files EXCEPT ![f] = c]
  /\ bak' = [bak EXCEPT ![f] = b]
  /\ latest' = [latest EXCEPT ![f] = c.text]
  /\ raced' = IF \E p \in Terminals : f \in Holds(p) THEN raced \cup {f}
                                                     ELSE raced \ {f}
  /\ stale' = IF b = None \/ f \in raced' THEN stale \ {f} ELSE stale \cup {f}
  /\ TakeAway(f, c)
  /\ Forget(Terminals, f)
  /\ UNCHANGED <<row, hash, pc, call, blurred>>

\* An editor leaves the backup as it is, the tool overwrites it.
NewText(f) == /\ texts < MaxTexts
              /\ texts' = texts + 1
              /\ \E kept \in {{}, files[f].patches}, b \in {bak[f], files[f]} :
                   Write(f, [text |-> texts + 1, patches |-> kept], b)

PutBack(f) == /\ \E i \in Proposals : /\ row[i] # "absent"
                                      /\ hash[i][f].text # -1
                                      /\ Write(f, hash[i][f], bak[f])
              /\ UNCHANGED texts

\* An agent calls the tool itself, and the copy or the write breaks off.
ToolBreaks(f) ==
  /\ texts < MaxTexts
  /\ texts' = texts + 1
  /\ \/ /\ bak' = [bak EXCEPT ![f] = Torn]
        /\ stale' = stale \cup {f}
        /\ UNCHANGED files
     \/ /\ bak' = [bak EXCEPT ![f] = files[f]]
        /\ stale' = stale \ {f}
        /\ files' \in {files, [files EXCEPT ![f] = Torn]}
  /\ raced' = IF files[f].text = -1 \/ Meets(f) THEN raced \cup {f} ELSE raced
  /\ Forget(Terminals, f)
  /\ UNCHANGED <<row, hash, pc, call, latest, blurred, undone>>

\* `agent rollback`, one file: the backup is copied over it, whatever it says
\* now and whatever execution the command was given, and removed if it can be; a
\* copy that breaks off leaves it torn.  The command keeps nothing from one file
\* to the next and may end after any of them.
RollBackUp(f) ==
  /\ bak[f] # None
  /\ \/ \E b \in {None, bak[f]} : /\ files' = [files EXCEPT ![f] = bak[f]]
                                 /\ bak' = [bak EXCEPT ![f] = b]
     \/ files' = [files EXCEPT ![f] = Torn] /\ UNCHANGED bak
  /\ raced' = IF f \in stale \/ Meets(f) THEN raced \cup {f} ELSE raced
  /\ stale' = stale \ {f}
  /\ TakeAway(f, bak[f])
  /\ Forget(Terminals, f)
  /\ UNCHANGED <<row, hash, pc, call, texts, latest, blurred>>
-----------------------------------------------------------------------------
Verdicts == {"approved", "denied"}

Command(p) == \E i \in Proposals :
                \/ Apply(p, i)
                \/ \E by \in Bys, v \in Verdicts : Decide(p, i, by, v)

Proceeds(p) == \/ Decided(p) \/ Stale(p) \/ Fresh(p) \/ AllFresh(p)
               \/ ReadText(p) \/ BackUp(p) \/ Open(p) \/ Fill(p) \/ ToolFails(p)
               \/ Restore(p) \/ Record(p) \/ Find(p) \/ Mark(p) \/ Clean(p)

Rows == \E i \in Proposals : \/ Propose(i) \/ Expire(i)
                             \/ \E v \in Verdicts : ServerDecides(i, v)

Next == \/ \E p \in Terminals : Command(p) \/ Proceeds(p) \/ Crash(p)
        \/ Rows
        \/ \E f \in Files : NewText(f) \/ PutBack(f) \/ ToolBreaks(f) \/ RollBackUp(f)

Spec == Init /\ [][Next]_vars
-----------------------------------------------------------------------------
TypeOK == /\ row \in [Proposals -> Statuses]
          /\ files \in [Files -> Content]
          /\ bak \in [Files -> Content \cup {None}]
          /\ hash \in [Proposals -> [Files -> Content]]
          /\ \A p \in Terminals : call[p].prop = None <=> AtRest(p)

\* What others wrote last is in the file or in its backup, whatever fails,
\* breaks off or dies, however often a patch is applied again, and whatever
\* `agent rollback` puts back (patch_applier.py:16, "creating backups and
\* supporting rollbacks").  Not so where they wrote while an application held the
\* file, two applications wrote at once, or one patched what a write that broke
\* off had left.  `agent rollback` loses it where an application has the file, or
\* where the backup it finds broke off or is older than what they wrote; a tool
\* call of an agent that breaks off loses it where an application has the file, or
\* where the file was torn.
TextKept ==
  \A f \in Files :
    \/ files[f].text = latest[f]
    \/ bak[f] # None /\ bak[f].text = latest[f]
    \/ f \in raced \/ blurred

\* An application that says it failed has left no file changed: each is what it
\* was when it was backed up, unless something else (others, an agent's own tool
\* call, an application, `agent rollback`) wrote it or its backup since, or writing
\* or restoring it broke off.
FailureUndone ==
  \A p \in Terminals :
    pc[p] = "failed" =>
      \A f \in Files : before[p][f] # None => files[f] = before[p][f]

\* A proposal that says it was applied is in its files (in the backup, while the
\* file is torn), until others or `agent rollback` take it away, which leave the
\* row as it is: no later decision, application, or rollback of a failed
\* application makes the row say what the files do not.  A raced file is excepted,
\* as in TextKept.
ExecutedIsApplied ==
  \A i \in Proposals :
    row[i] = "executed" /\ ~blurred =>
      \A k \in 1 .. Len(Changes[i]) :
        LET f == Changes[i][k]
        IN i \in Shown(f).patches \/ <<i, f>> \in undone \/ f \in raced
=============================================================================
