------------------------ MODULE PatchProposalsProofs ------------------------
(***************************************************************************)
(* No text is lost, a failed application leaves nothing behind, and a row  *)
(* that says executed is true of the files: for any proposals, files and   *)
(* terminals, and any number of applications under way at once.            *)
(*                                                                         *)
(* FailureUndone is about one application: its backups are what it found,  *)
(* up to the file at which it failed.  The other two are about all of      *)
(* them, and hold while no two overlap: then what an application holds in  *)
(* memory, in a backup and in the files is one text, and the backup has    *)
(* every patch that the file had.  Others may write, call the tool and     *)
(* roll back at any time: a backup that no longer has the last text is     *)
(* stale, and a file that is taken from one is raced.                      *)
(***************************************************************************)
EXTENDS PatchProposals, TLAPS

-----------------------------------------------------------------------------
(***************************************************************************)
(* The inductive invariant.                                                *)
(***************************************************************************)
Kept == {"read", "backup", "open", "fill", "rollback"}
Places == {"idle", "failed", "decide", "fresh", "recheck", "record", "find", "mark",
           "clean"} \cup Kept

\* The files of p's proposal are numbered 1 .. Size(p).
Nth(p, k) == Changes[call[p].prop][k]

CallOK(p) ==
  /\ pc[p] \in Places
  /\ call[p].prop \in Proposals \cup {None}
  /\ pc[p] = "decide" => call[p].verdict \in Verdicts
  /\ call[p].prop = None <=> AtRest(p)
  /\ call[p].at \in Nat \ {0} /\ call[p].kept \in Nat
  /\ call[p].patched \in Content
  /\ InApply(p) => call[p].at <= Size(p)
  /\ pc[p] \in {"fresh", "recheck"} => call[p].kept = 0
  /\ pc[p] \in {"read", "backup", "open", "fill"} => call[p].kept = call[p].at - 1
  /\ pc[p] = "rollback" => call[p].at <= call[p].kept /\ call[p].kept <= Size(p)

TypesOK ==
  /\ row \in [Proposals -> Statuses]
  /\ files \in [Files -> Content]
  /\ bak \in [Files -> Content \cup {None}]
  /\ hash \in [Proposals -> [Files -> Content]]
  /\ texts \in 0 .. MaxTexts
  /\ latest \in [Files -> 0 .. MaxTexts]
  /\ blurred \in BOOLEAN
  /\ before \in [Terminals -> [Files -> Content \cup {None}]]
  /\ DOMAIN pc = Terminals /\ DOMAIN call = Terminals

\* An application by itself: unless something else wrote a file since p backed
\* it up, the backup is what p found, and so is the file before p has opened it
\* and after p has taken it back.
OwnOK(p) ==
  \A f \in Files :
    before[p][f] # None =>
      /\ pc[p] \notin {"fresh", "recheck"}
      /\ pc[p] \in {"read", "backup"} =>
           \E k \in 1 .. call[p].kept : f = Nth(p, k) /\ bak[f] = before[p][f]
      /\ pc[p] \in {"open", "fill"} =>
           \E k \in 1 .. call[p].at : f = Nth(p, k) /\ bak[f] = before[p][f]
      /\ pc[p] = "open" /\ f = File(p) => files[f] = before[p][f]
      /\ pc[p] = "rollback" =>
           \/ \E k \in call[p].at .. call[p].kept : f = Nth(p, k) /\ bak[f] = before[p][f]
           \/ /\ files[f] = before[p][f]
              /\ \A k \in call[p].at .. call[p].kept : f # Nth(p, k)
      /\ pc[p] = "failed" => files[f] = before[p][f]

\* The rows that say executed are true of a file whose content is c.
Tells(c, f) ==
  \A i \in Proposals :
    row[i] = "executed" /\ (\E k \in 1 .. Len(Changes[i]) : f = Changes[i][k]) =>
      i \in c.patches \/ <<i, f>> \in undone

\* A file that may be taken back or is being written: the backup has its text
\* and its patches.
HeldOK(f) == bak[f] # None /\ bak[f].text = latest[f] /\ Tells(bak[f], f)

\* A file p has patched.
PatchedOK(p, f) ==
  /\ files[f].text = latest[f]
  /\ call[p].prop \in files[f].patches \/ <<call[p].prop, f>> \in undone

\* A file p has read and not written: p has its text, and one more patch.
ReadOK(p, f) ==
  LET found == IF pc[p] = "backup" THEN files[f] ELSE bak[f]
  IN /\ found.text = latest[f] /\ call[p].patched.text = latest[f]
     /\ call[p].patched.patches = found.patches \cup {call[p].prop}

IsDone(p, f) == \E k \in 1 .. call[p].kept : f = Nth(p, k)
IsToUndo(p, f) == \E k \in call[p].at .. call[p].kept : f = Nth(p, k)
IsOf(p, f) == \E k \in 1 .. Size(p) : f = Nth(p, k)

\* A file that nobody wrote while p held it, while no two applications overlap.
AloneWith(p, f) ==
  /\ pc[p] \in {"read", "backup", "open", "fill"} /\ IsDone(p, f) => HeldOK(f) /\ PatchedOK(p, f)
  /\ pc[p] = "rollback" /\ IsToUndo(p, f) => HeldOK(f)
  /\ pc[p] \in {"backup", "open", "fill"} /\ f = File(p) => ReadOK(p, f)
  /\ pc[p] \in {"open", "fill"} /\ f = File(p) => HeldOK(f)
  /\ pc[p] \in {"record", "find", "mark"} /\ IsOf(p, f) => PatchedOK(p, f)
  /\ pc[p] = "clean" /\ IsOf(p, f) => files[f].text = latest[f]

AloneOK(p) == \A f \in Files \ raced : AloneWith(p, f)

\* What `agent rollback` would put back.
BackupOK(f) == f \in stale \/ bak[f] = None \/ bak[f].text = latest[f]

FileOK(f) ==
  \/ f \in raced
  \/ /\ files[f].text \in {-1, latest[f]}
     /\ Shown(f).text = latest[f]
     /\ Tells(Shown(f), f)
     /\ BackupOK(f)

Alone == \A p, q \in Terminals : Applying(p) /\ Applying(q) => p = q

ProposalInv ==
  /\ TypesOK
  /\ \A p \in Terminals : CallOK(p)
  /\ \A p \in Terminals : OwnOK(p)
  /\ blurred \/ /\ Alone
                /\ \A p \in Terminals : AloneOK(p)
                /\ \A f \in Files : FileOK(f)
-----------------------------------------------------------------------------
(***************************************************************************)
(* The files of a proposal.                                                *)
(***************************************************************************)
LEMMA ChangesAreFiles ==
  ASSUME NEW i \in Proposals
  PROVE  /\ Len(Changes[i]) \in Nat \ {0}
         /\ \A k \in 1 .. Len(Changes[i]) : Changes[i][k] \in Files
         /\ \A k, l \in 1 .. Len(Changes[i]) : Changes[i][k] = Changes[i][l] => k = l
<1>1. Changes[i] \in Seq(Files) /\ Changes[i] # <<>>
  BY ProposalAssumption
<1>2. Len(Changes[i]) \in Nat /\ \A k \in 1 .. Len(Changes[i]) : Changes[i][k] \in Files
  BY <1>1
<1>3. Len(Changes[i]) # 0
  BY <1>1
<1>4. \A k, l \in 1 .. Len(Changes[i]) : Changes[i][k] = Changes[i][l] => k = l
  BY ProposalAssumption
<1> QED
  BY <1>2, <1>3, <1>4

LEMMA ApplyingHasFiles ==
  ASSUME NEW p \in Terminals, CallOK(p), InApply(p)
  PROVE  /\ call[p].prop \in Proposals
         /\ Size(p) \in Nat \ {0} /\ call[p].at \in 1 .. Size(p) /\ call[p].kept \in Nat
         /\ pc[p] \in Kept => call[p].kept <= Size(p)
         /\ \A k \in 1 .. Size(p) : Nth(p, k) \in Files
         /\ \A k, l \in 1 .. Size(p) : Nth(p, k) = Nth(p, l) => k = l
         /\ File(p) = Nth(p, call[p].at) /\ File(p) \in Files
<1>1. call[p].prop \in Proposals
  BY DEF CallOK, InApply, AtRest
<1>2. /\ Size(p) \in Nat \ {0}
      /\ \A k \in 1 .. Size(p) : Nth(p, k) \in Files
      /\ \A k, l \in 1 .. Size(p) : Nth(p, k) = Nth(p, l) => k = l
  BY <1>1, ChangesAreFiles DEF Size, Nth
<1>3. /\ call[p].at \in Nat \ {0} /\ call[p].kept \in Nat /\ call[p].at <= Size(p)
      /\ pc[p] \in {"read", "backup", "open", "fill"} => call[p].kept = call[p].at - 1
      /\ pc[p] = "rollback" => call[p].kept <= Size(p)
  BY DEF CallOK
<1>4. call[p].at \in 1 .. Size(p) /\ (pc[p] \in Kept => call[p].kept <= Size(p))
  BY <1>2, <1>3 DEF Kept
<1>5. File(p) = Nth(p, call[p].at)
  BY DEF File, Nth
<1> QED
  BY <1>1, <1>2, <1>3, <1>4, <1>5

LEMMA ProposalInit == Init => ProposalInv
<1> SUFFICES ASSUME Init PROVE ProposalInv
  OBVIOUS
<1> USE ProposalAssumption DEF Init
<1>1. TypesOK
  <2>1. [text |-> 0, patches |-> {}] \in Content /\ 0 \in 0 .. MaxTexts
    BY DEF Content
  <2>2. files \in [Files -> Content] /\ hash \in [Proposals -> [Files -> Content]]
    BY <2>1
  <2>3. row \in [Proposals -> Statuses] /\ bak \in [Files -> Content \cup {None}]
    BY DEF Statuses
  <2>4. before \in [Terminals -> [Files -> Content \cup {None}]]
    OBVIOUS
  <2> QED
    BY <2>1, <2>2, <2>3, <2>4 DEF TypesOK
<1>2. ASSUME NEW p \in Terminals PROVE CallOK(p)
  BY DEF CallOK, NoCall, Places, Torn, Content, AtRest, InApply
<1>3. ASSUME NEW p \in Terminals PROVE OwnOK(p)
  BY DEF OwnOK
<1>4. Alone
  BY DEF Alone, Applying
<1>5. ASSUME NEW p \in Terminals PROVE AloneOK(p)
  BY DEF AloneOK, AloneWith
<1>6. ASSUME NEW f \in Files PROVE FileOK(f)
  BY DEF FileOK, Shown, Tells, BackupOK
<1> QED
  BY <1>1, <1>2, <1>3, <1>4, <1>5, <1>6 DEF ProposalInv

-----------------------------------------------------------------------------
(***************************************************************************)
(* Types, and where a command stands.                                      *)
(***************************************************************************)
\* The steps that write a file or its backup.
LEMMA PutTypes ==
  ASSUME TypesOK, NEW p \in Terminals, NEW f \in Files,
         NEW c \in Content, NEW b \in Content \cup {None},
         NEW was \in Content \cup {None}, Put(p, f, c, b, was)
  PROVE  /\ files' \in [Files -> Content]
         /\ bak' \in [Files -> Content \cup {None}]
         /\ hash' = hash
         /\ before' \in [Terminals -> [Files -> Content \cup {None}]]
<1>1. ASSUME NEW q \in Terminals
      PROVE  [before[q] EXCEPT ![f] = IF q = p THEN was ELSE None]
               \in [Files -> Content \cup {None}]
  BY DEF TypesOK
<1>2. before' \in [Terminals -> [Files -> Content \cup {None}]]
  BY <1>1 DEF Put
<1> QED
  BY <1>2 DEF TypesOK, Put

LEMMA ForgetTypes ==
  ASSUME TypesOK, NEW S, NEW f \in Files, Forget(S, f)
  PROVE  /\ before' \in [Terminals -> [Files -> Content \cup {None}]]
         /\ \A q \in Terminals, g \in Files :
              before'[q][g] = IF q \in S /\ g = f THEN None ELSE before[q][g]
<1>1. ASSUME NEW q \in Terminals
      PROVE  [before[q] EXCEPT ![f] = None] \in [Files -> Content \cup {None}]
  BY DEF TypesOK
<1>2. before' \in [Terminals -> [Files -> Content \cup {None}]]
  BY <1>1 DEF Forget, TypesOK
<1> QED
  BY <1>2 DEF Forget, TypesOK

LEMMA SettledTypes ==
  ASSUME TypesOK, NEW p \in Terminals, Settled(p)
  PROVE  /\ before' \in [Terminals -> [Files -> Content \cup {None}]]
         /\ \A g \in Files : before'[p][g] = None
         /\ \A q \in Terminals \ {p} : before'[q] = before[q]
BY DEF Settled, TypesOK

LEMMA TypesStep ==
  ASSUME TypesOK, \A p \in Terminals : CallOK(p)
  PROVE  Next => TypesOK'
<1> DEFINE P == TypesOK'
<1>a. /\ row \in [Proposals -> Statuses]
      /\ files \in [Files -> Content]
      /\ bak \in [Files -> Content \cup {None}]
      /\ hash \in [Proposals -> [Files -> Content]]
      /\ before \in [Terminals -> [Files -> Content \cup {None}]]
      /\ DOMAIN pc = Terminals /\ DOMAIN call = Terminals
  BY DEF TypesOK
<1>b. Torn \in Content
  BY ProposalAssumption DEF Torn, Content
<1>c. ASSUME NEW p \in Terminals, InApply(p)
      PROVE  /\ call[p].prop \in Proposals /\ File(p) \in Files
             /\ files[File(p)] \in Content
  BY <1>a, <1>c, ApplyingHasFiles
<1>1. ASSUME NEW i \in Proposals, Propose(i) \/ Expire(i) \/ \E v \in Verdicts : ServerDecides(i, v)
      PROVE  P
  BY <1>1, <1>a DEF Propose, Expire, ServerDecides, Verdicts, Statuses, TypesOK, fileVars, history, writings
<1>2. ASSUME NEW p \in Terminals,
             Decided(p) \/ \E i \in Proposals, by \in Bys, v \in Verdicts : Decide(p, i, by, v)
      PROVE  P
  <2>1. ASSUME Decided(p) PROVE P
    <3>1. call[p].prop \in Proposals /\ call[p].verdict \in Verdicts
      BY <2>1 DEF CallOK, AtRest, Decided
    <3> QED
      BY <2>1, <3>1, <1>a
         DEF Decided, Statuses, Verdicts, TypesOK, fileVars, history, writings, Goto, Note, Ends
  <2>2. ASSUME NEW i \in Proposals, NEW by \in Bys, NEW v \in Verdicts, Decide(p, i, by, v)
        PROVE  P
    BY <2>2, <1>a, SettledTypes DEF Decide, TypesOK, fileVars, writings, Goto, Note
  <2> QED
    BY <1>2, <2>1, <2>2
<1>3. ASSUME NEW p \in Terminals, NEW i \in Proposals, Apply(p, i) PROVE P
  BY <1>3, <1>a, SettledTypes DEF Apply, TypesOK, fileVars, writings, Goto, Note
<1>4. ASSUME NEW p \in Terminals, Stale(p) \/ Fresh(p) \/ AllFresh(p) \/ Crash(p) PROVE P
  BY <1>4, <1>a, SettledTypes DEF Stale, Fresh, AllFresh, Crash, TypesOK, fileVars, history, writings, Goto, Note, Ends
<1>5. ASSUME NEW p \in Terminals, ReadText(p) PROVE P
  BY <1>5, <1>a DEF ReadText, TypesOK, fileVars, Goto, Note
<1>6. ASSUME NEW p \in Terminals, BackUp(p) PROVE P
  <2>1. /\ Put(p, File(p), files[File(p)], files[File(p)], files[File(p)])
        /\ File(p) \in Files /\ files[File(p)] \in Content
    BY <1>6, <1>c DEF BackUp, InApply
  <2> QED
    BY <2>1, <1>6, <1>a, PutTypes DEF BackUp, TypesOK, Goto
<1>7. ASSUME NEW p \in Terminals, Open(p) PROVE P
  <2>1. /\ Put(p, File(p), Torn, bak[File(p)], before[p][File(p)])
        /\ File(p) \in Files /\ before[p][File(p)] \in Content \cup {None}
    BY <1>7, <1>a, <1>c DEF Open, InApply
  <2> QED
    BY <2>1, <1>7, <1>a, <1>b, PutTypes DEF Open, TypesOK, Goto, writings
<1>8. ASSUME NEW p \in Terminals, Fill(p) PROVE P
  <2>1. /\ Put(p, File(p), call[p].patched, bak[File(p)], before[p][File(p)])
        /\ File(p) \in Files /\ before[p][File(p)] \in Content \cup {None}
    BY <1>8, <1>a, <1>c DEF Fill, InApply
  <2>2. call[p].patched \in Content
    BY DEF CallOK
  <2> QED
    BY <2>1, <2>2, <1>8, <1>a, PutTypes DEF Fill, TypesOK, Goto, Note
<1>9. ASSUME NEW p \in Terminals, ToolFails(p) PROVE P
  <2>1. File(p) \in Files
    BY <1>9, <1>c DEF ToolFails, InApply
  <2>2. bak' \in [Files -> Content \cup {None}]
    BY <1>9, <1>a, <1>b, <2>1 DEF ToolFails
  <2>3. before' \in [Terminals -> [Files -> Content \cup {None}]]
    BY <1>9, <2>1, ForgetTypes DEF ToolFails
  <2> QED
    BY <2>2, <2>3, <1>9, <1>a DEF ToolFails, TypesOK, Goto, Note, Ends
<1>10. ASSUME NEW p \in Terminals, Restore(p) PROVE P
  <2>1. /\ File(p) \in Files /\ files[File(p)] \in Content
        /\ bak[File(p)] \in Content \cup {None}
        /\ before[p][File(p)] \in Content \cup {None}
    BY <1>10, <1>a, <1>c DEF Restore, InApply
  <2>2. \/ UNCHANGED <<fileVars, before>>
        \/ /\ bak[File(p)] # None
           /\ \E b \in {None, bak[File(p)]} :
                Put(p, File(p), bak[File(p)], b, before[p][File(p)])
        \/ \E c \in {files[File(p)], Torn} : Put(p, File(p), c, bak[File(p)], None)
    BY <1>10 DEF Restore
  <2>3. /\ files' \in [Files -> Content] /\ bak' \in [Files -> Content \cup {None}]
        /\ hash' = hash /\ before' \in [Terminals -> [Files -> Content \cup {None}]]
    BY <2>1, <2>2, <1>a, <1>b, PutTypes DEF fileVars
  <2> QED
    BY <2>3, <1>10, <1>a DEF Restore, RolledBack, TypesOK, Goto, Note, Ends, writings
<1>11. ASSUME NEW p \in Terminals, Record(p) \/ Find(p) PROVE P
  BY <1>11, <1>a, SettledTypes DEF Record, Find, TypesOK, fileVars, history, writings, Goto, Note, Ends
<1>12. ASSUME NEW p \in Terminals, Mark(p) PROVE P
  BY <1>12, <1>a, <1>c DEF Mark, InApply, Statuses, TypesOK, fileVars, history, writings, Goto, Note
<1>13. ASSUME NEW p \in Terminals, Clean(p) PROVE P
  <2>1. /\ File(p) \in Files /\ files[File(p)] \in Content
        /\ bak[File(p)] \in Content \cup {None}
        /\ before[p][File(p)] \in Content \cup {None}
    BY <1>13, <1>a, <1>c DEF Clean, InApply
  <2>2. \E b \in {None, bak[File(p)]} :
          Put(p, File(p), files[File(p)], b, before[p][File(p)])
    BY <1>13 DEF Clean
  <2>3. /\ files' \in [Files -> Content] /\ bak' \in [Files -> Content \cup {None}]
        /\ hash' = hash /\ before' \in [Terminals -> [Files -> Content \cup {None}]]
    BY <2>1, <2>2, PutTypes
  <2> QED
    BY <2>3, <1>13, <1>a DEF Clean, TypesOK, Goto, Note, Ends, writings
<1>14. ASSUME NEW f \in Files, NEW c \in Content, NEW b \in Content \cup {None}, c.text # -1,
              texts' \in 0 .. MaxTexts, Write(f, c, b)
       PROVE  P
  <2>1. c.text \in 0 .. MaxTexts
    BY <1>14, ProposalAssumption DEF Content
  <2>2. before' \in [Terminals -> [Files -> Content \cup {None}]]
    BY <1>14, ForgetTypes DEF Write
  <2> QED
    BY <2>1, <2>2, <1>14, <1>a DEF Write, TypesOK
<1>15. ASSUME NEW f \in Files, NewText(f) PROVE P
  <2>1. PICK kept \in {{}, files[f].patches}, b \in {bak[f], files[f]} :
          Write(f, [text |-> texts + 1, patches |-> kept], b)
    BY <1>15 DEF NewText
  <2>2. texts + 1 \in 1 .. MaxTexts /\ texts' = texts + 1
    BY <1>15, ProposalAssumption DEF NewText, TypesOK
  <2>3. kept \in SUBSET Proposals
    BY <1>a DEF Content
  <2> DEFINE c == [text |-> texts + 1, patches |-> kept]
  <2>4. c \in Content /\ c.text # -1
    BY <2>2, <2>3, ProposalAssumption DEF Content
  <2>5. b \in Content \cup {None}
    BY <1>a
  <2> HIDE DEF c
  <2> QED
    BY <2>1, <2>2, <2>4, <2>5, <1>14, ProposalAssumption DEF c
<1>16. ASSUME NEW f \in Files, PutBack(f) PROVE P
  <2>1. PICK i \in Proposals : hash[i][f].text # -1 /\ Write(f, hash[i][f], bak[f])
    BY <1>16 DEF PutBack
  <2>2. hash[i][f] \in Content /\ bak[f] \in Content \cup {None}
    BY <1>a
  <2> QED
    BY <2>1, <2>2, <1>14, <1>16 DEF PutBack, TypesOK
<1>17. ASSUME NEW f \in Files, RollBackUp(f) PROVE P
  <2>1. bak[f] \in Content
    BY <1>17, <1>a DEF RollBackUp
  <2>2. files' \in [Files -> Content] /\ bak' \in [Files -> Content \cup {None}]
    BY <1>17, <2>1, <1>a, <1>b DEF RollBackUp
  <2>3. before' \in [Terminals -> [Files -> Content \cup {None}]]
    BY <1>17, ForgetTypes DEF RollBackUp
  <2> QED
    BY <2>2, <2>3, <1>17, <1>a DEF RollBackUp, TypesOK
<1>18. ASSUME NEW f \in Files, ToolBreaks(f) PROVE P
  <2>1. files' \in [Files -> Content] /\ bak' \in [Files -> Content \cup {None}]
    BY <1>18, <1>a, <1>b DEF ToolBreaks
  <2>2. before' \in [Terminals -> [Files -> Content \cup {None}]]
    BY <1>18, ForgetTypes DEF ToolBreaks
  <2>3. texts' \in 0 .. MaxTexts
    BY <1>18, ProposalAssumption DEF ToolBreaks, TypesOK
  <2> QED
    BY <2>1, <2>2, <2>3, <1>18, <1>a DEF ToolBreaks, TypesOK
<1> HIDE DEF P
<1>19. Next => P
  BY <1>1, <1>2, <1>3, <1>4, <1>5, <1>6, <1>7, <1>8, <1>9, <1>10, <1>11, <1>12, <1>13,
     <1>15, <1>16, <1>17, <1>18
     DEF Next, Command, Proceeds, Rows
<1> QED
  BY <1>19 DEF P

\* Only the command that takes a step moves.
LEMMA OthersStay ==
  ASSUME TypesOK, NEW p \in Terminals, Command(p) \/ Proceeds(p) \/ Crash(p),
         NEW q \in Terminals, q # p
  PROVE  pc'[q] = pc[q] /\ call'[q] = call[q]
<1> USE DEF TypesOK, Goto, Note, Ends
<1>1. CASE Command(p)
  BY <1>1 DEF Command, Apply, Decide
<1>2. CASE Crash(p)
  BY <1>2 DEF Crash
<1>3. CASE Decided(p) \/ Stale(p) \/ Fresh(p) \/ AllFresh(p)
  BY <1>3 DEF Decided, Stale, Fresh, AllFresh
<1>4. CASE ReadText(p) \/ BackUp(p) \/ Open(p) \/ Fill(p)
  BY <1>4 DEF ReadText, BackUp, Open, Fill
<1>5. CASE ToolFails(p) \/ Restore(p)
  BY <1>5 DEF ToolFails, Restore, RolledBack
<1>6. CASE Record(p) \/ Find(p) \/ Mark(p) \/ Clean(p)
  BY <1>6 DEF Record, Find, Mark, Clean
<1> QED
  BY <1>1, <1>2, <1>3, <1>4, <1>5, <1>6 DEF Proceeds

LEMMA CallStep ==
  ASSUME TypesOK, NEW p \in Terminals, CallOK(p)
  PROVE  Command(p) \/ Proceeds(p) \/ Crash(p) => CallOK(p)'
<1> DEFINE P == CallOK(p)'
<1>a. /\ DOMAIN pc = Terminals /\ DOMAIN call = Terminals /\ files \in [Files -> Content]
      /\ call[p].prop \in Proposals \cup {None} /\ None \notin Proposals
      /\ call[p].at \in Nat \ {0} /\ call[p].kept \in Nat /\ call[p].patched \in Content
      /\ Torn \in Content
  BY ProposalAssumption DEF TypesOK, CallOK, Torn, Content
\* The command is over.
<1>b. ASSUME pc'[p] \in {"idle", "failed"}, call'[p] = NoCall PROVE P
  BY <1>b, <1>a DEF CallOK, NoCall, AtRest, InApply, Places
\* An application goes on with the same proposal.
<1>c. ASSUME InApply(p), pc'[p] \in {"fresh", "recheck", "record", "find", "mark", "clean"} \cup Kept,
             call'[p].prop = call[p].prop, call'[p].patched \in Content,
             call'[p].at \in 1 .. Size(p), call'[p].kept \in Nat,
             pc'[p] \in {"fresh", "recheck"} => call'[p].kept = 0,
             pc'[p] \in {"read", "backup", "open", "fill"} => call'[p].kept = call'[p].at - 1,
             pc'[p] = "rollback" => call'[p].at <= call'[p].kept /\ call'[p].kept <= Size(p)
      PROVE  P
  <2>1. call[p].prop \in Proposals /\ Size(p) \in Nat /\ Size(p)' = Size(p)
    BY <1>c, ApplyingHasFiles DEF Size
  <2> QED
    BY <1>c, <2>1, <1>a DEF CallOK, AtRest, InApply, Places, Kept
<1>d. InApply(p) => /\ pc[p] \in {"fresh", "recheck"} => call[p].kept = 0
                    /\ Size(p) \in Nat \ {0} /\ call[p].at \in 1 .. Size(p) /\ File(p) \in Files
                    /\ pc[p] \in Kept => call[p].kept <= Size(p)
                    /\ pc[p] \in {"read", "backup", "open", "fill"} => call[p].kept = call[p].at - 1
                    /\ pc[p] = "rollback" => call[p].at <= call[p].kept
                    /\ call[p].prop \in Proposals
  BY ApplyingHasFiles DEF CallOK
<1>1. ASSUME NEW i \in Proposals, Apply(p, i) PROVE P
  <2>1. pc'[p] = "fresh" /\ call'[p] = [NoCall EXCEPT !.prop = i, !.approved = row[i] = "approved"]
    BY <1>1, <1>a DEF Apply, Goto, Note
  <2>2. /\ call'[p].prop = i /\ call'[p].at = 1 /\ call'[p].kept = 0 /\ call'[p].patched = Torn
    BY <2>1 DEF NoCall
  <2>3. Size(p)' \in Nat \ {0}
    BY <2>2, ChangesAreFiles DEF Size
  <2> QED
    BY <2>1, <2>2, <2>3, <1>a DEF CallOK, AtRest, InApply, Places, Kept
<1>2. ASSUME NEW i \in Proposals, NEW by \in Bys, NEW v \in Verdicts, Decide(p, i, by, v) PROVE P
  <2>1. pc'[p] = "decide" /\ call'[p] = [NoCall EXCEPT !.prop = i, !.verdict = v]
    BY <1>2, <1>a DEF Decide, Goto, Note
  <2>2. /\ call'[p].prop = i /\ call'[p].at = 1 /\ call'[p].kept = 0 /\ call'[p].patched = Torn
        /\ call'[p].verdict = v
    BY <2>1 DEF NoCall
  <2> QED
    BY <2>1, <2>2, <1>a DEF CallOK, AtRest, InApply, Places, Kept
<1>3. ASSUME Decided(p) \/ Stale(p) \/ Crash(p) PROVE P
  BY <1>3, <1>a, <1>b DEF Decided, Stale, Crash, Ends, Goto, Note
<1>4. ASSUME Fresh(p) PROVE P
  <2>1. /\ InApply(p) /\ pc[p] \in {"fresh", "recheck"} /\ pc'[p] = pc[p] /\ call[p].at < Size(p)
        /\ call'[p] = [call[p] EXCEPT !.at = call[p].at + 1]
    BY <1>4, <1>a DEF Fresh, Note, InApply
  <2>2. /\ call'[p].at = call[p].at + 1 /\ call'[p].prop = call[p].prop
        /\ call'[p].kept = call[p].kept /\ call'[p].patched = call[p].patched
    BY <2>1
  <2>3. call'[p].at \in 1 .. Size(p)
    BY <2>1, <2>2, <1>d
  <2> QED
    BY <2>1, <2>2, <2>3, <1>a, <1>c, <1>d DEF Kept
<1>5. ASSUME AllFresh(p) PROVE P
  <2>1. \/ pc'[p] = "idle" /\ call'[p] = NoCall
        \/ /\ pc'[p] \in {"recheck", "read"}
           /\ call'[p] = [call[p] EXCEPT !.at = 1]
    BY <1>5, <1>a DEF AllFresh, Ends, Goto, Note
  <2>2. ASSUME pc'[p] \in {"recheck", "read"}, call'[p] = [call[p] EXCEPT !.at = 1] PROVE P
    <3>1. /\ call'[p].at = 1 /\ call'[p].prop = call[p].prop
          /\ call'[p].kept = call[p].kept /\ call'[p].patched = call[p].patched
      BY <2>2
    <3>2. InApply(p) /\ pc[p] \in {"fresh", "recheck"}
      BY <1>5 DEF AllFresh, InApply
    <3>3. call[p].kept = 0
      BY <3>2 DEF CallOK
    <3> QED
      BY <3>1, <3>2, <3>3, <2>2, <1>a, <1>c, <1>d DEF Kept
  <2> QED
    BY <2>1, <2>2, <1>b
<1>6. ASSUME ReadText(p) PROVE P
  <2> DEFINE c == [files[File(p)] EXCEPT !.patches = @ \cup {call[p].prop}]
  <2>1. /\ InApply(p) /\ pc[p] = "read" /\ pc'[p] = "backup"
        /\ call'[p] = [call[p] EXCEPT !.patched = c]
    BY <1>6, <1>a DEF ReadText, Goto, Note, InApply
  <2>2. c \in Content
    BY <2>1, <1>a, <1>d DEF Content
  <2> HIDE DEF c
  <2>3. /\ call'[p].at = call[p].at /\ call'[p].prop = call[p].prop
        /\ call'[p].kept = call[p].kept /\ call'[p].patched = c
    BY <2>1
  <2> QED
    BY <2>1, <2>2, <2>3, <1>a, <1>c, <1>d DEF Kept
<1>7. ASSUME BackUp(p) \/ Open(p) PROVE P
  <2>1. /\ InApply(p) /\ pc[p] \in {"backup", "open"} /\ pc'[p] \in {"open", "fill"}
        /\ call'[p] = call[p]
    BY <1>7, <1>a DEF BackUp, Open, Goto, InApply
  <2> QED
    BY <2>1, <1>a, <1>c, <1>d DEF Kept
<1>8. ASSUME Fill(p) PROVE P
  <2>1. InApply(p) /\ pc[p] = "fill"
    BY <1>8 DEF Fill, InApply
  <2>2. ASSUME call[p].at < Size(p), pc'[p] = "read",
               call'[p] = [call[p] EXCEPT !.at = @ + 1, !.kept = @ + 1, !.patched = Torn]
        PROVE  P
    <3>1. /\ call'[p].at = call[p].at + 1 /\ call'[p].prop = call[p].prop
          /\ call'[p].kept = call[p].kept + 1 /\ call'[p].patched = Torn
      BY <2>2
    <3>2. call'[p].at \in 1 .. Size(p)
      BY <2>1, <2>2, <3>1, <1>d
    <3>3. call'[p].kept = call'[p].at - 1 /\ call'[p].kept \in Nat
      BY <2>1, <3>1, <1>a, <1>d
    <3> QED
      BY <2>1, <2>2, <3>1, <3>2, <3>3, <1>a, <1>c DEF Kept
  <2>3. ASSUME pc'[p] = "record",
               call'[p] = [call[p] EXCEPT !.kept = @ + 1, !.patched = Torn]
        PROVE  P
    <3>1. /\ call'[p].at = call[p].at /\ call'[p].prop = call[p].prop
          /\ call'[p].kept = call[p].kept + 1 /\ call'[p].patched = Torn
      BY <2>3
    <3> QED
      BY <2>1, <2>3, <3>1, <1>a, <1>c, <1>d DEF Kept
  <2> QED
    BY <1>8, <2>2, <2>3, <1>a DEF Fill, Goto, Note
<1>9. ASSUME ToolFails(p) PROVE P
  <2>1. InApply(p) /\ pc[p] \in {"read", "backup", "open", "fill"}
    BY <1>9 DEF ToolFails, InApply
  <2>2. ASSUME call[p].kept >= 1, pc'[p] = "rollback",
               call'[p] = [call[p] EXCEPT !.at = 1, !.kept = call[p].kept, !.patched = Torn]
        PROVE  P
    <3>1. /\ call'[p].at = 1 /\ call'[p].prop = call[p].prop
          /\ call'[p].kept = call[p].kept /\ call'[p].patched = Torn
      BY <2>2
    <3> QED
      BY <2>1, <2>2, <3>1, <1>a, <1>c, <1>d DEF Kept
  <2> QED
    BY <1>9, <2>2, <1>a, <1>b DEF ToolFails, ToUndo, Goto, Note, Ends
<1>10. ASSUME Restore(p) PROVE P
  <2>1. InApply(p) /\ pc[p] = "rollback"
    BY <1>10 DEF Restore, InApply
  <2>2. ASSUME call[p].at < call[p].kept, pc'[p] = pc[p],
               call'[p] = [call[p] EXCEPT !.at = @ + 1]
        PROVE  P
    <3>1. /\ call'[p].at = call[p].at + 1 /\ call'[p].prop = call[p].prop
          /\ call'[p].kept = call[p].kept /\ call'[p].patched = call[p].patched
      BY <2>2
    <3>2. call'[p].at \in 1 .. Size(p) /\ call'[p].at <= call'[p].kept /\ call'[p].kept <= Size(p)
      BY <2>1, <2>2, <3>1, <1>a, <1>d DEF Kept
    <3> QED
      BY <2>1, <2>2, <3>1, <3>2, <1>a, <1>c DEF Kept
  <2> QED
    BY <1>10, <2>2, <1>a, <1>b DEF Restore, RolledBack, Goto, Note, Ends
<1>11. ASSUME Record(p) \/ Find(p) \/ Mark(p) PROVE P
  <2>1. InApply(p) /\ pc[p] \in {"record", "find", "mark"}
    BY <1>11 DEF Record, Find, Mark, InApply
  <2>2. \/ pc'[p] = "idle" /\ call'[p] = NoCall
        \/ pc'[p] \in {"find", "mark"} /\ call'[p] = call[p]
        \/ pc'[p] = "clean" /\ call'[p] = [call[p] EXCEPT !.at = 1]
    BY <1>11, <1>a DEF Record, Find, Mark, Goto, Note, Ends
  <2>3. ASSUME pc'[p] = "clean", call'[p] = [call[p] EXCEPT !.at = 1] PROVE P
    <3>1. /\ call'[p].at = 1 /\ call'[p].prop = call[p].prop
          /\ call'[p].kept = call[p].kept /\ call'[p].patched = call[p].patched
      BY <2>3
    <3> QED
      BY <2>1, <2>3, <3>1, <1>a, <1>c, <1>d DEF Kept
  <2>4. ASSUME pc'[p] \in {"find", "mark"}, call'[p] = call[p] PROVE P
    BY <2>1, <2>4, <1>a, <1>c, <1>d DEF Kept
  <2> QED
    BY <2>2, <2>3, <2>4, <1>b
<1>12. ASSUME Clean(p) PROVE P
  <2>1. InApply(p) /\ pc[p] = "clean"
    BY <1>12 DEF Clean, InApply
  <2>2. ASSUME call[p].at < Size(p), pc'[p] = pc[p], call'[p] = [call[p] EXCEPT !.at = @ + 1]
        PROVE  P
    <3>1. /\ call'[p].at = call[p].at + 1 /\ call'[p].prop = call[p].prop
          /\ call'[p].kept = call[p].kept /\ call'[p].patched = call[p].patched
      BY <2>2
    <3>2. call'[p].at \in 1 .. Size(p)
      BY <2>1, <2>2, <3>1, <1>d
    <3> QED
      BY <2>1, <2>2, <3>1, <3>2, <1>a, <1>c DEF Kept
  <2> QED
    BY <1>12, <2>2, <1>a, <1>b DEF Clean, Goto, Note, Ends
<1> HIDE DEF P
<1>13. Command(p) \/ Proceeds(p) \/ Crash(p) => P
  BY <1>1, <1>2, <1>3, <1>4, <1>5, <1>6, <1>7, <1>8, <1>9, <1>10, <1>11, <1>12
     DEF Command, Proceeds
<1> QED
  BY <1>13 DEF P
-----------------------------------------------------------------------------
(***************************************************************************)
(* One application by itself: FailureUndone.                               *)
(***************************************************************************)
\* Nothing happens to p, or to a file that p still remembers.
LEMMA OwnUntouched ==
  ASSUME NEW p \in Terminals, OwnOK(p),
         pc'[p] = pc[p], call'[p] = call[p],
         \A g \in Files : before'[p][g] # None =>
           before'[p][g] = before[p][g] /\ files'[g] = files[g] /\ bak'[g] = bak[g]
  PROVE  OwnOK(p)'
BY DEF OwnOK, Nth, File

LEMMA PutMarksOthers ==
  ASSUME TypesOK, NEW p \in Terminals, NEW f, NEW c, NEW b, NEW was, Put(p, f, c, b, was)
  PROVE  /\ \A g \in Files \ {f} : /\ files'[g] = files[g] /\ bak'[g] = bak[g]
                                   /\ \A q \in Terminals : before'[q][g] = before[q][g]
         /\ f \in Files => /\ files'[f] = c /\ bak'[f] = b
                          /\ before'[p][f] = was
                          /\ \A q \in Terminals \ {p} : before'[q][f] = None
BY DEF TypesOK, Put

\* Whatever a command writes, every other application forgets.
LEMMA OthersAreTold ==
  ASSUME TypesOK, NEW p \in Terminals, CallOK(p), Command(p) \/ Proceeds(p) \/ Crash(p),
         NEW q \in Terminals, q # p
  PROVE  \A g \in Files : before'[q][g] # None =>
           before'[q][g] = before[q][g] /\ files'[g] = files[g] /\ bak'[g] = bak[g]
<1> DEFINE P == \A g \in Files : before'[q][g] # None =>
                  before'[q][g] = before[q][g] /\ files'[g] = files[g] /\ bak'[g] = bak[g]
<1>a. /\ files \in [Files -> Content] /\ bak \in [Files -> Content \cup {None}]
      /\ before \in [Terminals -> [Files -> Content \cup {None}]]
  BY DEF TypesOK
<1>b. ASSUME NEW f, NEW c, NEW b, NEW was, Put(p, f, c, b, was) PROVE P
  BY <1>b, PutMarksOthers
<1>c. ASSUME files' = files, bak' = bak, before'[q] = before[q] PROVE P
  BY <1>c
<1>1. CASE Command(p)
  BY <1>1, <1>c, SettledTypes DEF Command, Apply, Decide, fileVars
<1>2. CASE Crash(p) \/ Decided(p) \/ Stale(p) \/ Fresh(p) \/ AllFresh(p) \/ Record(p) \/ Find(p)
           \/ Mark(p) \/ ReadText(p)
  BY <1>2, <1>c, SettledTypes
     DEF Crash, Decided, Stale, Fresh, AllFresh, Record, Find, Mark, ReadText, fileVars, history
<1>3. CASE BackUp(p) \/ Open(p) \/ Fill(p) \/ Clean(p)
  BY <1>3, <1>b DEF BackUp, Open, Fill, Clean
<1>4. CASE ToolFails(p)
  <2>1. File(p) \in Files
    BY <1>4, ApplyingHasFiles DEF ToolFails, InApply
  <2>2. \A g \in Files : before'[q][g] # None =>
          before'[q][g] = before[q][g] /\ (g = File(p) => bak' = bak)
    BY <1>4, <2>1, ForgetTypes DEF ToolFails
  <2>3. \A g \in Files \ {File(p)} : bak'[g] = bak[g]
    BY <1>4, <1>a DEF ToolFails
  <2> QED
    BY <1>4, <2>2, <2>3 DEF ToolFails
<1>5. CASE Restore(p)
  <2>1. \/ UNCHANGED <<fileVars, before>>
        \/ \E c, b, was : Put(p, File(p), c, b, was)
    BY <1>5 DEF Restore
  <2> QED
    BY <2>1, <1>b, <1>c DEF fileVars
<1> QED
  BY <1>1, <1>2, <1>3, <1>4, <1>5 DEF Proceeds

LEMMA OwnStep ==
  ASSUME TypesOK, NEW p \in Terminals, CallOK(p), OwnOK(p)
  PROVE  Command(p) \/ Proceeds(p) \/ Crash(p) => OwnOK(p)'
<1> DEFINE P == OwnOK(p)'
<1>a. /\ DOMAIN pc = Terminals /\ DOMAIN call = Terminals
      /\ files \in [Files -> Content] /\ bak \in [Files -> Content \cup {None}]
      /\ before \in [Terminals -> [Files -> Content \cup {None}]]
      /\ call[p].at \in Nat \ {0} /\ call[p].kept \in Nat
  BY DEF TypesOK, CallOK
<1>b. ASSUME pc'[p] \in {"idle", "decide", "record", "find", "mark", "clean"} PROVE P
  BY <1>b DEF OwnOK
<1>c. InApply(p) =>
        /\ Size(p) \in Nat \ {0} /\ call[p].at \in 1 .. Size(p) /\ File(p) \in Files
        /\ pc[p] \in Kept => call[p].kept <= Size(p)
        /\ pc[p] \in {"read", "backup", "open", "fill"} => call[p].kept = call[p].at - 1
        /\ pc[p] = "rollback" => call[p].at <= call[p].kept
        /\ \A k, l \in 1 .. Size(p) : Nth(p, k) = Nth(p, l) => k = l
        /\ File(p) = Nth(p, call[p].at)
  BY ApplyingHasFiles DEF CallOK
<1>d. call'[p].prop = call[p].prop => \A k : Nth(p, k)' = Nth(p, k)
  BY DEF Nth
<1>1. ASSUME NEW i \in Proposals, Apply(p, i) PROVE P
  BY <1>1, SettledTypes DEF Apply, OwnOK
<1>2. ASSUME NEW i \in Proposals, NEW by \in Bys, NEW v \in Verdicts, Decide(p, i, by, v) PROVE P
  BY <1>2, <1>a, <1>b DEF Decide, Goto
<1>3. ASSUME Stale(p) \/ Fresh(p) \/ AllFresh(p) PROVE P
  <2>1. pc[p] \in {"fresh", "recheck"} /\ before' = before
    BY <1>3 DEF Stale, Fresh, AllFresh, history
  <2> QED
    BY <2>1 DEF OwnOK
<1>4. ASSUME Decided(p) \/ Record(p) \/ Find(p) \/ Mark(p) \/ Crash(p) PROVE P
  BY <1>4, <1>a, <1>b DEF Decided, Record, Find, Mark, Crash, Ends, Goto
<1>5. ASSUME ReadText(p) PROVE P
  <2>1. /\ pc[p] = "read" /\ pc'[p] = "backup" /\ call'[p].prop = call[p].prop
        /\ call'[p].kept = call[p].kept /\ bak' = bak /\ before' = before
    BY <1>5, <1>a DEF ReadText, Goto, Note, fileVars
  <2> QED
    BY <2>1, <1>d DEF OwnOK
<1>6. ASSUME BackUp(p) PROVE P
  <2>1. /\ InApply(p) /\ pc[p] = "backup" /\ pc'[p] = "open" /\ call' = call
        /\ Put(p, File(p), files[File(p)], files[File(p)], files[File(p)])
    BY <1>6, <1>a DEF BackUp, InApply, Goto
  <2>2. /\ bak'[File(p)] = files[File(p)] /\ files'[File(p)] = files[File(p)]
        /\ before'[p][File(p)] = files[File(p)]
        /\ \A g \in Files \ {File(p)} : bak'[g] = bak[g] /\ before'[p][g] = before[p][g]
    BY <2>1, <1>c, PutMarksOthers
  <2>4. /\ File(p)' = File(p) /\ call'[p].at = call[p].at /\ \A k : Nth(p, k)' = Nth(p, k)
        /\ call[p].kept = call[p].at - 1 /\ File(p) = Nth(p, call[p].at)
    BY <2>1, <1>c DEF File, Nth
  <2>5. ASSUME NEW g \in Files, g # File(p), before'[p][g] # None
        PROVE  \E k \in 1 .. call'[p].at : g = Nth(p, k)' /\ bak'[g] = before'[p][g]
    BY <2>1, <2>2, <2>4, <2>5, <1>a DEF OwnOK
  <2>6. \E k \in 1 .. call'[p].at : File(p) = Nth(p, k)' /\ bak'[File(p)] = before'[p][File(p)]
    BY <2>2, <2>4, <1>a
  <2> QED
    BY <2>1, <2>2, <2>4, <2>5, <2>6 DEF OwnOK
<1>7. ASSUME Open(p) PROVE P
  <2>1. /\ InApply(p) /\ pc[p] = "open" /\ pc'[p] = "fill" /\ call' = call
        /\ Put(p, File(p), Torn, bak[File(p)], before[p][File(p)])
    BY <1>7, <1>a DEF Open, InApply, Goto
  <2>2. \A g \in Files : bak'[g] = bak[g] /\ before'[p][g] = before[p][g]
    BY <2>1, <1>c, PutMarksOthers
  <2> QED
    BY <2>1, <2>2, <1>d DEF OwnOK
<1>8. ASSUME Fill(p) PROVE P
  <2>1. /\ InApply(p) /\ pc[p] = "fill"
        /\ Put(p, File(p), call[p].patched, bak[File(p)], before[p][File(p)])
    BY <1>8 DEF Fill, InApply
  <2>2. \A g \in Files : bak'[g] = bak[g] /\ before'[p][g] = before[p][g]
    BY <2>1, <1>c, PutMarksOthers
  <2>3. \/ pc'[p] = "record"
        \/ pc'[p] = "read" /\ call'[p].kept = call[p].kept + 1 /\ call'[p].prop = call[p].prop
    <3>1. \/ pc'[p] = "record"
          \/ /\ pc'[p] = "read"
             /\ call'[p] = [call[p] EXCEPT !.at = @ + 1, !.kept = @ + 1, !.patched = Torn]
      BY <1>8, <1>a DEF Fill, Goto, Note
    <3>2. ASSUME call'[p] = [call[p] EXCEPT !.at = @ + 1, !.kept = @ + 1, !.patched = Torn]
          PROVE  call'[p].kept = call[p].kept + 1 /\ call'[p].prop = call[p].prop
      BY <3>2
    <3> QED
      BY <3>1, <3>2
  <2>4. call[p].kept + 1 = call[p].at
    BY <2>1, <1>a, <1>c
  <2> QED
    BY <2>1, <2>2, <2>3, <2>4, <1>b, <1>d DEF OwnOK
<1>9. ASSUME ToolFails(p) PROVE P
  <2>1. /\ InApply(p) /\ pc[p] \in {"read", "backup", "open", "fill"} /\ files' = files
    BY <1>9 DEF ToolFails, InApply
  <2>2. /\ \A g \in Files : before'[p][g] # None =>
             before'[p][g] = before[p][g] /\ (pc[p] = "fill" => g # File(p))
        /\ \A g \in Files \ {File(p)} : bak'[g] = bak[g]
        /\ pc[p] # "backup" => bak' = bak
    <3>1. \A g \in Files : before'[p][g] # None =>
            before'[p][g] = before[p][g] /\ (pc[p] = "fill" => g # File(p))
      BY <1>9, <2>1, <1>c, ForgetTypes DEF ToolFails
    <3> QED
      BY <1>9, <1>a, <3>1 DEF ToolFails
  <2>3. \/ call[p].kept = 0 /\ pc'[p] = "failed"
        \/ /\ pc'[p] = "rollback" /\ call'[p].prop = call[p].prop
           /\ call'[p].at = 1 /\ call'[p].kept = call[p].kept
    <3>1. \/ call[p].kept = 0 /\ pc'[p] = "failed"
          \/ /\ pc'[p] = "rollback"
             /\ call'[p] = [call[p] EXCEPT !.at = 1, !.kept = call[p].kept, !.patched = Torn]
      BY <1>9, <1>a DEF ToolFails, ToUndo, Ends, Goto, Note
    <3>2. ASSUME call'[p] = [call[p] EXCEPT !.at = 1, !.kept = call[p].kept, !.patched = Torn]
          PROVE  /\ call'[p].prop = call[p].prop /\ call'[p].at = 1
                 /\ call'[p].kept = call[p].kept
      BY <3>2
    <3> QED
      BY <3>1, <3>2
  \* A file it backed up is one it has patched, or the one it was about to.
  <2>4. ASSUME NEW f \in Files, before'[p][f] # None
        PROVE  /\ before'[p][f] = before[p][f]
               /\ \/ \E k \in 1 .. call[p].kept : f = Nth(p, k) /\ bak'[f] = before[p][f]
                  \/ /\ files[f] = before[p][f]
                     /\ \A k \in 1 .. call[p].kept : f # Nth(p, k)
    <3>1. before[p][f] # None /\ before'[p][f] = before[p][f]
      BY <2>2, <2>4
    <3>2. \A k \in 1 .. call[p].kept : k \in 1 .. Size(p) /\ Nth(p, k) # File(p)
      BY <2>1, <1>a, <1>c
    <3>3. CASE pc[p] \in {"read", "backup"}
      BY <3>1, <3>2, <3>3, <2>2 DEF OwnOK
    <3>4. CASE pc[p] \in {"open", "fill"}
      <4>1. PICK k \in 1 .. call[p].at : f = Nth(p, k) /\ bak[f] = before[p][f]
        BY <3>1, <3>4 DEF OwnOK
      <4>2. bak'[f] = bak[f]
        BY <3>4, <2>2
      <4>3. k \in 1 .. call[p].kept \/ k = call[p].at
        BY <2>1, <1>a, <1>c
      <4>4. CASE k = call[p].at
        <5>1. f = File(p) /\ pc[p] = "open"
          BY <4>1, <4>4, <3>4, <2>1, <2>2, <2>4, <1>c
        <5>2. files[f] = before[p][f]
          BY <5>1, <3>1 DEF OwnOK
        <5> QED
          BY <5>1, <5>2, <3>1, <3>2
      <4> QED
        BY <4>1, <4>2, <4>3, <4>4, <3>1
    <3> QED
      BY <3>3, <3>4, <2>1
  <2>5. ASSUME call[p].kept = 0, pc'[p] = "failed" PROVE P
    BY <2>1, <2>4, <2>5 DEF OwnOK
  <2>6. ASSUME pc'[p] = "rollback", call'[p].prop = call[p].prop,
               call'[p].at = 1, call'[p].kept = call[p].kept
        PROVE  P
    BY <2>1, <2>4, <2>6, <1>d DEF OwnOK
  <2> QED
    BY <2>3, <2>5, <2>6
<1>10. ASSUME Restore(p) PROVE P
  <2>1. InApply(p) /\ pc[p] = "rollback"
    BY <1>10 DEF Restore, InApply
  <2>2. \/ bak[File(p)] = None /\ files' = files /\ bak' = bak /\ before' = before
        \/ /\ bak[File(p)] # None
           /\ \E b : Put(p, File(p), bak[File(p)], b, before[p][File(p)])
        \/ \E c, b : Put(p, File(p), c, b, None)
    BY <1>10 DEF Restore, fileVars
  <2>3. \/ call[p].at = call[p].kept /\ pc'[p] = "failed"
        \/ /\ call[p].at < call[p].kept /\ pc'[p] = "rollback" /\ call'[p].prop = call[p].prop
           /\ call'[p].at = call[p].at + 1 /\ call'[p].kept = call[p].kept
    <3>1. call[p].at <= call[p].kept
      BY <2>1, <1>c
    <3>2. \/ ~(call[p].at < call[p].kept) /\ pc'[p] = "failed"
          \/ /\ call[p].at < call[p].kept /\ pc' = pc
             /\ call'[p] = [call[p] EXCEPT !.at = @ + 1]
      BY <1>10, <1>a DEF Restore, RolledBack, Ends, Goto, Note
    <3>3. ASSUME call'[p] = [call[p] EXCEPT !.at = @ + 1]
          PROVE  /\ call'[p].prop = call[p].prop /\ call'[p].at = call[p].at + 1
                 /\ call'[p].kept = call[p].kept
      BY <3>3
    <3>4. \/ ~(call[p].at < call[p].kept) /\ pc'[p] = "failed"
          \/ /\ call[p].at < call[p].kept /\ pc' = pc
             /\ call'[p].prop = call[p].prop /\ call'[p].at = call[p].at + 1
             /\ call'[p].kept = call[p].kept
      BY <3>2, <3>3, Zenon
    <3>5. ~(call[p].at < call[p].kept) => call[p].at = call[p].kept
      <4>1. call[p].at \in Nat /\ call[p].kept \in Nat
        BY <1>a
      <4> QED
        BY <3>1, <4>1
    <3>6. pc' = pc => pc'[p] = "rollback"
      BY <2>1
    <3> QED
      BY <3>4, <3>5, <3>6, Zenon
  \* The file just taken back, and the others.
  <2>4. \A g \in Files \ {File(p)} : /\ files'[g] = files[g] /\ bak'[g] = bak[g]
                                     /\ before'[p][g] = before[p][g]
    BY <2>2, <1>a, <1>c, PutMarksOthers
  <2>5. before'[p][File(p)] # None =>
          /\ before'[p][File(p)] = before[p][File(p)]
          /\ files'[File(p)] = bak[File(p)] \/ bak[File(p)] = None
    BY <2>1, <2>2, <1>a, <1>c, PutMarksOthers
  <2>6. \A k \in call[p].at .. call[p].kept :
          k \in 1 .. Size(p) /\ (Nth(p, k) = File(p) => k = call[p].at)
    BY <2>1, <1>a, <1>c DEF Kept
  <2>7. ASSUME NEW f \in Files, before'[p][f] # None
        PROVE  /\ before'[p][f] = before[p][f]
               /\ \/ \E k \in call[p].at + 1 .. call[p].kept :
                       f = Nth(p, k) /\ bak'[f] = before[p][f]
                  \/ /\ files'[f] = before[p][f]
                     /\ \A k \in call[p].at + 1 .. call[p].kept : f # Nth(p, k)
    <3>0. before[p][f] # None /\ before'[p][f] = before[p][f]
      BY <2>4, <2>5, <2>7
    <3>1. \/ \E k \in call[p].at .. call[p].kept : f = Nth(p, k) /\ bak[f] = before[p][f]
          \/ /\ files[f] = before[p][f]
             /\ \A k \in call[p].at .. call[p].kept : f # Nth(p, k)
      BY <2>1, <3>0 DEF OwnOK
    <3>2. call[p].at \in call[p].at .. call[p].kept /\ File(p) = Nth(p, call[p].at)
      BY <2>1, <1>a, <1>c
    <3>3. CASE f = File(p)
      <4>1. bak[f] = before[p][f]
        BY <3>1, <3>2, <3>3
      <4>2. files'[f] = before[p][f]
        BY <4>1, <3>3, <2>1, <2>5, <2>7
      <4>3. \A k \in call[p].at + 1 .. call[p].kept : f # Nth(p, k)
        BY <3>3, <2>6, <1>a
      <4> QED
        BY <3>0, <4>2, <4>3
    <3>4. CASE f # File(p)
      <4>1. files'[f] = files[f] /\ bak'[f] = bak[f]
        BY <3>4, <2>4
      <4>2. \A k \in call[p].at .. call[p].kept :
              f = Nth(p, k) => k \in call[p].at + 1 .. call[p].kept
        BY <3>4, <3>2, <1>a
      <4>3. \A k \in call[p].at + 1 .. call[p].kept : k \in call[p].at .. call[p].kept
        BY <1>a
      <4> QED
        BY <3>0, <3>1, <4>1, <4>2, <4>3
    <3> QED
      BY <3>0, <3>3, <3>4
  <2>8. ASSUME call[p].at = call[p].kept, pc'[p] = "failed" PROVE P
    <3>1. call[p].at + 1 .. call[p].kept = {}
      BY <2>8, <1>a
    <3> QED
      BY <2>1, <2>7, <2>8, <3>1 DEF OwnOK
  <2>9. ASSUME pc'[p] = "rollback", call'[p].prop = call[p].prop,
               call'[p].at = call[p].at + 1, call'[p].kept = call[p].kept
        PROVE  P
    BY <2>1, <2>7, <2>9, <1>d DEF OwnOK
  <2> QED
    BY <2>3, <2>8, <2>9
<1>11. ASSUME Clean(p) PROVE P
  <2>1. pc'[p] \in {"idle", "clean"}
    BY <1>11, <1>a DEF Clean, Ends, Goto
  <2> QED
    BY <2>1, <1>b
<1> HIDE DEF P
<1>12. Command(p) \/ Proceeds(p) \/ Crash(p) => P
  BY <1>1, <1>2, <1>3, <1>4, <1>5, <1>6, <1>7, <1>8, <1>9, <1>10, <1>11
     DEF Command, Proceeds
<1> QED
  BY <1>12 DEF P

\* Rows and other writers.
LEMMA CallsStay ==
  ASSUME Rows \/ \E f \in Files : NewText(f) \/ PutBack(f) \/ ToolBreaks(f) \/ RollBackUp(f)
  PROVE  pc' = pc /\ call' = call
BY DEF Rows, Propose, Expire, ServerDecides, NewText, PutBack, Write, ToolBreaks, RollBackUp

LEMMA OwnSurvives ==
  ASSUME TypesOK, NEW p \in Terminals, OwnOK(p),
         Rows \/ \E f \in Files : NewText(f) \/ PutBack(f) \/ ToolBreaks(f) \/ RollBackUp(f)
  PROVE  OwnOK(p)'
<1>1. pc'[p] = pc[p] /\ call'[p] = call[p]
  BY CallsStay
<1>2. CASE Rows
  BY <1>1, <1>2, OwnUntouched DEF Rows, Propose, Expire, ServerDecides, fileVars, history
<1>3. ASSUME NEW f \in Files, NewText(f) \/ PutBack(f) \/ ToolBreaks(f) \/ RollBackUp(f)
      PROVE  OwnOK(p)'
  <2>1. /\ Forget(Terminals, f)
        /\ \A g \in Files \ {f} : files'[g] = files[g] /\ bak'[g] = bak[g]
    BY <1>3 DEF NewText, PutBack, Write, ToolBreaks, RollBackUp, TypesOK
  <2>2. \A g \in Files : before'[p][g] # None => before'[p][g] = before[p][g] /\ g # f
    BY <2>1, ForgetTypes
  <2> QED
    BY <1>1, <2>1, <2>2, OwnUntouched
<1> QED
  BY <1>2, <1>3
-----------------------------------------------------------------------------
(***************************************************************************)
(* Applications that do not overlap: TextKept and ExecutedIsApplied.       *)
(***************************************************************************)
\* What is said of a file stays true: no row starts to say executed, and no
\* patch that others took away counts as there again.
RowsKeep(f) ==
  \A i \in Proposals :
    row'[i] = "executed" => row[i] = "executed" /\ (<<i, f>> \in undone => <<i, f>> \in undone')

SameFile(f) ==
  /\ files'[f] = files[f] /\ bak'[f] = bak[f] /\ latest'[f] = latest[f]
  /\ f \in stale => f \in stale'

LEMMA NoneIsNoContent == None \notin Content /\ Torn \in Content
BY ProposalAssumption DEF Content, Torn

LEMMA LatestIsText ==
  ASSUME TypesOK, NEW f \in Files
  PROVE  latest[f] \in Int /\ latest[f] # -1
<1>1. latest[f] \in 0 .. MaxTexts
  BY DEF TypesOK
<1> QED
  BY <1>1, ProposalAssumption

LEMMA HeldStays ==
  ASSUME NEW f \in Files, HeldOK(f), bak'[f] = bak[f], latest'[f] = latest[f], RowsKeep(f)
  PROVE  HeldOK(f)'
BY DEF HeldOK, Tells, RowsKeep

LEMMA PatchedStays ==
  ASSUME NEW p \in Terminals, NEW f \in Files, PatchedOK(p, f), SameFile(f),
         call'[p].prop = call[p].prop,
         <<call[p].prop, f>> \in undone => <<call[p].prop, f>> \in undone'
  PROVE  PatchedOK(p, f)'
BY DEF PatchedOK, SameFile

LEMMA FileStays ==
  ASSUME NEW f \in Files, FileOK(f), SameFile(f), RowsKeep(f), f \in raced => f \in raced'
  PROVE  FileOK(f)'
BY DEF FileOK, Shown, Tells, SameFile, RowsKeep, BackupOK

\* A file whose text is whole speaks for itself.
LEMMA FileWhole ==
  ASSUME NEW f \in Files, files'[f].text = latest'[f], latest'[f] # -1, Tells(files[f], f)',
         BackupOK(f)'
  PROVE  FileOK(f)'
BY DEF FileOK, Shown

LEMMA AloneStays ==
  ASSUME NEW p \in Terminals, NEW f \in Files, AloneWith(p, f), SameFile(f), RowsKeep(f),
         pc'[p] = pc[p], call'[p] = call[p],
         <<call[p].prop, f>> \in undone => <<call[p].prop, f>> \in undone'
  PROVE  AloneWith(p, f)'
<1>1. /\ IsDone(p, f)' <=> IsDone(p, f)
      /\ IsToUndo(p, f)' <=> IsToUndo(p, f)
      /\ IsOf(p, f)' <=> IsOf(p, f)
      /\ File(p)' = File(p)
  BY DEF IsDone, IsToUndo, IsOf, File, Nth, Size
<1>2. HeldOK(f) => HeldOK(f)'
  BY HeldStays DEF SameFile
<1>3. PatchedOK(p, f) => PatchedOK(p, f)'
  BY PatchedStays
<1>4. ReadOK(p, f) => ReadOK(p, f)'
  BY DEF ReadOK, SameFile
<1> QED
  BY <1>1, <1>2, <1>3, <1>4 DEF AloneWith, SameFile

\* A command that has read nothing has nothing to lose.
LEMMA IdleIsAlone ==
  ASSUME NEW p \in Terminals, CallOK(p), ~Applying(p)
  PROVE  AloneOK(p)
<1>1. pc[p] = "read" => 1 .. call[p].kept = {}
  BY DEF CallOK, Applying
<1> QED
  BY <1>1 DEF Applying, AloneOK, AloneWith, IsDone

LEMMA IdleIsAloneThen ==
  ASSUME NEW p \in Terminals, CallOK(p)', ~Applying(p)'
  PROVE  AloneOK(p)'
<1>1. pc'[p] = "read" => 1 .. call'[p].kept = {}
  BY DEF CallOK, Applying
<1> QED
  BY <1>1 DEF Applying, AloneOK, AloneWith, IsDone

LEMMA CallUntouched ==
  ASSUME NEW q \in Terminals, pc'[q] = pc[q], call'[q] = call[q]
  PROVE  /\ CallOK(q) => CallOK(q)'
         /\ Applying(q)' <=> Applying(q)
BY DEF CallOK, AtRest, InApply, Size, Applying

\* The only application under way takes a step.
LEMMA OnlyOne ==
  ASSUME TypesOK, \A q \in Terminals : CallOK(q), NEW p \in Terminals,
         Command(p) \/ Proceeds(p) \/ Crash(p),
         \A q \in Terminals \ {p} : ~Applying(q)
  PROVE  Alone' /\ \A q \in Terminals \ {p} : AloneOK(q)'
<1>1. ASSUME NEW q \in Terminals \ {p} PROVE CallOK(q)' /\ ~Applying(q)'
  BY OthersStay, CallUntouched
<1>2. \A q \in Terminals \ {p} : AloneOK(q)'
  BY <1>1, IdleIsAloneThen
<1> QED
  BY <1>1, <1>2 DEF Alone

\* The steps that touch no file.
LEMMA QuietStep ==
  ASSUME NEW f \in Files, files' = files, bak' = bak, latest' = latest, stale' = stale,
         raced' = raced, undone' = undone, \A i \in Proposals : row'[i] = "executed" => row[i] = "executed"
  PROVE  /\ SameFile(f) /\ RowsKeep(f)
         /\ FileOK(f) => FileOK(f)'
         /\ \A p \in Terminals :
              pc'[p] = pc[p] /\ call'[p] = call[p] /\ AloneWith(p, f) => AloneWith(p, f)'
<1>1. SameFile(f) /\ RowsKeep(f)
  BY DEF SameFile, RowsKeep
<1>2. FileOK(f) => FileOK(f)'
  BY <1>1, FileStays
<1>3. \A p \in Terminals :
        pc'[p] = pc[p] /\ call'[p] = call[p] /\ AloneWith(p, f) => AloneWith(p, f)'
  BY <1>1, AloneStays
<1> QED
  BY <1>1, <1>2, <1>3

\* A command that is not applying, and does not start to.
LEMMA IdleStep ==
  ASSUME TypesOK, \A q \in Terminals : CallOK(q), NEW p \in Terminals,
         Command(p) \/ Proceeds(p) \/ Crash(p), ~Applying(p)',
         files' = files, bak' = bak, latest' = latest, stale' = stale, raced' = raced,
         undone' = undone,
         \A i \in Proposals : row'[i] = "executed" => row[i] = "executed",
         Alone, \A q \in Terminals : AloneOK(q), \A f \in Files : FileOK(f)
  PROVE  Alone' /\ (\A q \in Terminals : AloneOK(q)') /\ (\A f \in Files : FileOK(f)')
<1>1. \A f \in Files : FileOK(f)'
  BY QuietStep
<1>2. CallOK(p)'
  BY CallStep
<1>3. AloneOK(p)'
  BY <1>2, IdleIsAloneThen
<1>4. ASSUME NEW q \in Terminals, q # p PROVE AloneOK(q)' /\ (Applying(q)' <=> Applying(q))
  <2>1. pc'[q] = pc[q] /\ call'[q] = call[q]
    BY <1>4, OthersStay
  <2>2. \A f \in Files \ raced' : AloneWith(q, f)'
    BY <2>1, QuietStep DEF AloneOK
  <2> QED
    BY <2>1, <2>2, CallUntouched DEF AloneOK
<1>5. Alone'
  BY <1>4 DEF Alone
<1> QED
  BY <1>1, <1>3, <1>4, <1>5

LEMMA AloneStep ==
  ASSUME TypesOK, \A q \in Terminals : CallOK(q), NEW p \in Terminals, ~blurred',
         Alone, \A q \in Terminals : AloneOK(q), \A f \in Files : FileOK(f)
  PROVE  Command(p) \/ Proceeds(p) \/ Crash(p) =>
           Alone' /\ (\A q \in Terminals : AloneOK(q)') /\ (\A f \in Files : FileOK(f)')
<1> DEFINE P == Alone' /\ (\A q \in Terminals : AloneOK(q)') /\ (\A f \in Files : FileOK(f)')
           Steps == Command(p) \/ Proceeds(p) \/ Crash(p)
           Quiet == /\ files' = files /\ bak' = bak /\ latest' = latest /\ stale' = stale
                    /\ raced' = raced /\ undone' = undone
                    /\ \A i \in Proposals : row'[i] = "executed" => row[i] = "executed"
<1>a. /\ DOMAIN pc = Terminals /\ DOMAIN call = Terminals
      /\ row \in [Proposals -> Statuses]
      /\ files \in [Files -> Content] /\ bak \in [Files -> Content \cup {None}]
      /\ call[p].at \in Nat \ {0} /\ call[p].kept \in Nat
      /\ call[p].prop \in Proposals \cup {None} /\ call[p].patched \in Content
      /\ AloneOK(p)
  BY DEF TypesOK, CallOK
<1>b. ASSUME Steps, Quiet, ~Applying(p)' PROVE P
  BY <1>b, IdleStep
<1>c. ASSUME Steps, \A q \in Terminals \ {p} : ~Applying(q), AloneOK(p)',
             \A f \in Files : FileOK(f)'
      PROVE  P
  BY <1>c, OnlyOne
<1>d. Applying(p) => \A q \in Terminals \ {p} : ~Applying(q)
  BY DEF Alone
<1>e. InApply(p) =>
        /\ call[p].prop \in Proposals
        /\ Size(p) \in Nat \ {0} /\ call[p].at \in 1 .. Size(p) /\ File(p) \in Files
        /\ pc[p] \in Kept => call[p].kept <= Size(p)
        /\ pc[p] \in {"read", "backup", "open", "fill"} => call[p].kept = call[p].at - 1
        /\ pc[p] = "rollback" => call[p].at <= call[p].kept
        /\ \A k, l \in 1 .. Size(p) : Nth(p, k) = Nth(p, l) => k = l
        /\ File(p) = Nth(p, call[p].at)
  BY ApplyingHasFiles DEF CallOK
<1>f. InApply(p) /\ pc[p] \in {"read", "backup", "open", "fill"} => ~IsDone(p, File(p))
  BY <1>a, <1>e DEF IsDone
<1>1. ASSUME Command(p) \/ Decided(p) \/ Crash(p) PROVE P
  <2>1. pc'[p] \in {"idle", "failed", "decide", "fresh"}
    BY <1>1, <1>a DEF Command, Apply, Decide, Decided, Crash, Goto, Ends
  <2>2. Quiet
    <3>1. Decided(p) => call[p].prop \in Proposals /\ call[p].verdict # "executed"
      BY DEF Decided, CallOK, AtRest, Verdicts
    <3> QED
      BY <1>1, <1>a, <3>1 DEF Command, Apply, Decide, Decided, Crash, fileVars, writings, history
  <2>3. ~Applying(p)'
    BY <2>1 DEF Applying
  <2>4. Steps
    BY <1>1 DEF Proceeds
  <2> QED
    BY <2>2, <2>3, <2>4, <1>b
<1>2. ASSUME Stale(p) \/ Fresh(p) \/ AllFresh(p) PROVE P
  <2>1. Quiet
    BY <1>2 DEF Stale, Fresh, AllFresh, fileVars, writings, history
  <2>2. \/ pc'[p] \in {"idle", "failed", "fresh", "recheck"}
        \/ pc'[p] = "read" /\ call'[p] = [call[p] EXCEPT !.at = 1]
    BY <1>2, <1>a DEF Stale, Fresh, AllFresh, Ends, Goto, Note
  <2>3. ASSUME call'[p] = [call[p] EXCEPT !.at = 1] PROVE call'[p].at = 1 \/ pc'[p] # "read"
    BY <2>3
  <2>4. ~Applying(p)'
    BY <2>2, <2>3 DEF Applying
  <2>5. Steps
    BY <1>2 DEF Proceeds
  <2> QED
    BY <2>1, <2>4, <2>5, <1>b
<1>3. ASSUME ReadText(p) PROVE P
  <2> DEFINE c == [files[File(p)] EXCEPT !.patches = @ \cup {call[p].prop}]
  <2>1. /\ InApply(p) /\ pc[p] = "read" /\ pc'[p] = "backup"
        /\ call'[p] = [call[p] EXCEPT !.patched = c]
        /\ Quiet /\ Steps
        /\ files[File(p)].text # -1 /\ \A q \in Terminals \ {p} : ~Applying(q)
    BY <1>3, <1>a DEF ReadText, Goto, Note, InApply, fileVars, Proceeds
  <2>2. /\ c.text = files[File(p)].text
        /\ c.patches = files[File(p)].patches \cup {call[p].prop}
    BY <2>1, <1>a, <1>e DEF Content
  <2> HIDE DEF c
  <2>3. /\ call'[p].at = call[p].at /\ call'[p].prop = call[p].prop
        /\ call'[p].kept = call[p].kept /\ call'[p].patched = c
    BY <2>1
  <2>4. /\ File(p)' = File(p)
        /\ \A f : IsDone(p, f)' <=> IsDone(p, f)
    BY <2>3 DEF File, IsDone, Nth
  <2>5. ASSUME NEW f \in Files \ raced PROVE AloneWith(p, f)'
    <3>1. AloneWith(p, f) /\ FileOK(f) /\ SameFile(f) /\ RowsKeep(f)
      BY <2>1, <1>a, QuietStep DEF AloneOK
    <3>2. IsDone(p, f)' => HeldOK(f)' /\ PatchedOK(p, f)'
      BY <2>1, <2>3, <2>4, <3>1, HeldStays, PatchedStays DEF AloneWith, SameFile
    <3>3. f = File(p) => ReadOK(p, f)'
      BY <2>1, <2>2, <2>3, <3>1 DEF ReadOK, FileOK
    <3> QED
      BY <2>1, <2>4, <3>2, <3>3 DEF AloneWith
  <2>6. AloneOK(p)'
    BY <2>1, <2>5 DEF AloneOK
  <2>7. \A f \in Files : FileOK(f)'
    BY <2>1, QuietStep
  <2> QED
    BY <2>1, <2>6, <2>7, <1>c
<1>4. ASSUME BackUp(p) PROVE P
  <2>1. /\ InApply(p) /\ Applying(p) /\ Steps /\ pc[p] = "backup" /\ pc'[p] = "open" /\ call' = call
        /\ Put(p, File(p), files[File(p)], files[File(p)], files[File(p)])
        /\ row' = row /\ latest' = latest /\ raced' = raced /\ undone' = undone
        /\ stale' = stale \ {File(p)}
    BY <1>4, <1>a DEF BackUp, InApply, Goto, Applying, Proceeds
  <2>2. /\ File(p) \in Files /\ files[File(p)] \in Content
        /\ bak'[File(p)] = files[File(p)]
        /\ \A g \in Files : files'[g] = files[g] /\ (g # File(p) => bak'[g] = bak[g])
    BY <2>1, <1>a, <1>e, PutMarksOthers
  <2>3. /\ File(p)' = File(p) /\ ~IsDone(p, File(p)) /\ \A f : IsDone(p, f)' <=> IsDone(p, f)
    BY <2>1, <1>f DEF File, IsDone, Nth
  <2>4. \A f \in Files : RowsKeep(f) /\ (f # File(p) => SameFile(f))
    BY <2>1, <2>2 DEF RowsKeep, SameFile
  <2>5. ASSUME NEW f \in Files, f # File(p)
        PROVE  FileOK(f)' /\ (f \notin raced => AloneWith(p, f)')
    <3>1. FileOK(f)'
      BY <2>1, <2>4, <2>5, FileStays
    <3>2. ASSUME f \notin raced, IsDone(p, f) PROVE HeldOK(f)' /\ PatchedOK(p, f)'
      <4>1. HeldOK(f) /\ PatchedOK(p, f)
        BY <3>2, <2>1, <1>a DEF AloneOK, AloneWith
      <4> QED
        BY <4>1, <2>1, <2>4, <2>5, HeldStays, PatchedStays DEF SameFile
    <3> QED
      BY <3>1, <3>2, <2>1, <2>3, <2>5 DEF AloneWith
  <2>6. ASSUME NEW f \in Files, f = File(p), f \notin raced
        PROVE  FileOK(f)' /\ AloneWith(p, f)'
    <3>1. ReadOK(p, f) /\ files[f].text = latest[f] /\ latest[f] # -1
      BY <2>1, <2>6, <1>a, LatestIsText DEF AloneOK, AloneWith, ReadOK
    <3>2. Tells(files[f], f)
      BY <2>6, <3>1 DEF FileOK, Shown
    <3>3. Tells(files[f], f)' /\ Tells(bak[f], f)'
      BY <3>2, <2>1, <2>2, <2>6 DEF Tells
    <3>4. FileOK(f)'
      BY <2>1, <2>2, <2>6, <3>1, <3>3, FileWhole DEF BackupOK
    <3>5. HeldOK(f)' /\ ReadOK(p, f)'
      BY <2>1, <2>2, <2>6, <3>1, <3>3, NoneIsNoContent DEF HeldOK, ReadOK
    <3> QED
      BY <2>1, <2>3, <2>6, <3>4, <3>5 DEF AloneWith
  <2>7. \A f \in Files : f \in raced => FileOK(f)'
    BY <2>1 DEF FileOK
  <2>8. AloneOK(p)' /\ \A f \in Files : FileOK(f)'
    BY <2>1, <2>5, <2>6, <2>7 DEF AloneOK
  <2> QED
    BY <2>1, <2>8, <1>c, <1>d
<1>5. ASSUME Open(p) PROVE P
  <2>1. /\ InApply(p) /\ Applying(p) /\ Steps /\ pc[p] = "open" /\ pc'[p] = "fill" /\ call' = call
        /\ Put(p, File(p), Torn, bak[File(p)], before[p][File(p)])
        /\ row' = row /\ latest' = latest /\ stale' = stale /\ raced' = raced
        /\ undone' = undone
    BY <1>5, <1>a DEF Open, InApply, Goto, Applying, Proceeds, writings
  <2>2. /\ File(p) \in Files /\ files'[File(p)] = Torn
        /\ \A g \in Files : bak'[g] = bak[g] /\ (g # File(p) => files'[g] = files[g])
    BY <2>1, <1>e, PutMarksOthers
  <2>3. /\ File(p)' = File(p) /\ ~IsDone(p, File(p)) /\ \A f : IsDone(p, f)' <=> IsDone(p, f)
    BY <2>1, <1>f DEF File, IsDone, Nth
  <2>4. \A f \in Files : RowsKeep(f) /\ (f # File(p) => SameFile(f))
    BY <2>1, <2>2 DEF RowsKeep, SameFile
  <2>5. ASSUME NEW f \in Files, f # File(p)
        PROVE  FileOK(f)' /\ (f \notin raced => AloneWith(p, f)')
    <3>1. FileOK(f)'
      BY <2>1, <2>4, <2>5, FileStays
    <3>2. ASSUME f \notin raced, IsDone(p, f) PROVE HeldOK(f)' /\ PatchedOK(p, f)'
      <4>1. HeldOK(f) /\ PatchedOK(p, f)
        BY <3>2, <2>1, <1>a DEF AloneOK, AloneWith
      <4> QED
        BY <4>1, <2>1, <2>4, <2>5, HeldStays, PatchedStays DEF SameFile
    <3> QED
      BY <3>1, <3>2, <2>1, <2>3, <2>5 DEF AloneWith
  <2>6. ASSUME NEW f \in Files, f = File(p), f \notin raced
        PROVE  FileOK(f)' /\ AloneWith(p, f)'
    <3>1. ReadOK(p, f) /\ HeldOK(f)
      BY <2>1, <2>6, <1>a DEF AloneOK, AloneWith
    <3>2. HeldOK(f)' /\ ReadOK(p, f)'
      <4>1. HeldOK(f)'
        BY <2>1, <2>2, <2>4, <3>1, HeldStays
      <4> QED
        BY <4>1, <2>1, <2>2, <3>1 DEF ReadOK
    <3>3. FileOK(f)'
      BY <2>2, <2>6, <3>2 DEF FileOK, HeldOK, Shown, Torn, BackupOK
    <3> QED
      BY <2>1, <2>3, <2>6, <3>2, <3>3 DEF AloneWith
  <2>7. \A f \in Files : f \in raced => FileOK(f)'
    BY <2>1 DEF FileOK
  <2>8. AloneOK(p)' /\ \A f \in Files : FileOK(f)'
    BY <2>1, <2>5, <2>6, <2>7 DEF AloneOK
  <2> QED
    BY <2>1, <2>8, <1>c, <1>d
<1>6. ASSUME Fill(p) PROVE P
  <2> DEFINE i == call[p].prop
  <2>1. /\ InApply(p) /\ Applying(p) /\ Steps /\ pc[p] = "fill"
        /\ Put(p, File(p), call[p].patched, bak[File(p)], before[p][File(p)])
        /\ row' = row /\ latest' = latest /\ stale' = stale /\ raced' = raced
        /\ undone' = IF row[i] = "executed" THEN undone ELSE undone \ {<<i, File(p)>>}
    BY <1>6, <1>a DEF Fill, InApply, Applying, Proceeds
  <2>2. /\ File(p) \in Files /\ files'[File(p)] = call[p].patched
        /\ \A g \in Files : bak'[g] = bak[g] /\ (g # File(p) => files'[g] = files[g])
    BY <2>1, <1>e, PutMarksOthers
  <2>3. /\ call'[p].prop = i /\ call'[p].kept = call[p].kept + 1
        /\ \/ pc'[p] = "read"
           \/ pc'[p] = "record" /\ call[p].at = Size(p)
    <3>1. \/ /\ call[p].at < Size(p) /\ pc'[p] = "read"
             /\ call'[p] = [call[p] EXCEPT !.at = @ + 1, !.kept = @ + 1, !.patched = Torn]
          \/ /\ ~(call[p].at < Size(p)) /\ pc'[p] = "record"
             /\ call'[p] = [call[p] EXCEPT !.kept = @ + 1, !.patched = Torn]
      BY <1>6, <1>a DEF Fill, Goto, Note
    <3>2. ASSUME call'[p] = [call[p] EXCEPT !.at = @ + 1, !.kept = @ + 1, !.patched = Torn]
          PROVE  call'[p].prop = i /\ call'[p].kept = call[p].kept + 1
      BY <3>2
    <3>3. ASSUME call'[p] = [call[p] EXCEPT !.kept = @ + 1, !.patched = Torn]
          PROVE  call'[p].prop = i /\ call'[p].kept = call[p].kept + 1
      BY <3>3
    <3>4. ~(call[p].at < Size(p)) => call[p].at = Size(p)
      BY <2>1, <1>e
    <3> QED
      BY <3>1, <3>2, <3>3, <3>4, Zenon
  \* With this file, those patched are the first at of the proposal.
  <2>4. /\ call[p].kept + 1 = call[p].at /\ i \in Proposals
        /\ \A f : Nth(p, f)' = Nth(p, f)
    BY <2>1, <2>3, <1>a, <1>e DEF Nth
  <2>5. \A f : IsDone(p, f)' => IsDone(p, f) \/ f = File(p)
    BY <2>1, <2>3, <2>4, <1>a, <1>e DEF IsDone
  <2>6. pc'[p] = "record" => \A f : IsOf(p, f)' => IsDone(p, f) \/ f = File(p)
    <3>1. Size(p)' = Size(p)
      BY <2>3 DEF Size
    <3> QED
      BY <2>1, <2>3, <2>4, <3>1, <1>a, <1>e DEF IsDone, IsOf
  <2>7. \A f \in Files : /\ RowsKeep(f)
                         /\ f # File(p) => SameFile(f) /\ (<<i, f>> \in undone => <<i, f>> \in undone')
    BY <2>1, <2>2 DEF RowsKeep, SameFile
  <2>8. ASSUME NEW f \in Files, f # File(p)
        PROVE  FileOK(f)' /\ (f \notin raced /\ IsDone(p, f) => HeldOK(f)' /\ PatchedOK(p, f)')
    <3>1. FileOK(f)'
      BY <2>1, <2>7, <2>8, FileStays
    <3>2. ASSUME f \notin raced, IsDone(p, f) PROVE HeldOK(f)' /\ PatchedOK(p, f)'
      <4>1. HeldOK(f) /\ PatchedOK(p, f)
        BY <3>2, <2>1, <1>a DEF AloneOK, AloneWith
      <4> QED
        BY <4>1, <2>1, <2>3, <2>7, <2>8, HeldStays, PatchedStays DEF SameFile
    <3> QED
      BY <3>1, <3>2
  <2>9. ASSUME NEW f \in Files, f = File(p), f \notin raced
        PROVE  FileOK(f)' /\ HeldOK(f)' /\ PatchedOK(p, f)'
    <3>1. ReadOK(p, f) /\ HeldOK(f) /\ latest[f] # -1
      BY <2>1, <2>9, <1>a, LatestIsText DEF AloneOK, AloneWith
    <3>2. HeldOK(f)'
      BY <2>1, <2>2, <2>7, <3>1, HeldStays
    <3>3. /\ files'[f].text = latest'[f] /\ bak[f].patches \subseteq files'[f].patches
          /\ i \in files'[f].patches
      BY <2>1, <2>2, <2>9, <3>1 DEF ReadOK
    <3>4. Tells(files[f], f)'
      BY <3>2, <3>3, <2>2 DEF HeldOK, Tells
    <3>5. FileOK(f)'
      BY <2>1, <3>1, <3>2, <3>3, <3>4, FileWhole DEF BackupOK, HeldOK
    <3> QED
      BY <2>3, <3>2, <3>3, <3>5 DEF PatchedOK
  <2>10. ASSUME NEW f \in Files \ raced PROVE AloneWith(p, f)'
    BY <2>3, <2>5, <2>6, <2>8, <2>9 DEF AloneWith
  <2>11. \A f \in Files : f \in raced => FileOK(f)'
    BY <2>1 DEF FileOK
  <2>12. AloneOK(p)' /\ \A f \in Files : FileOK(f)'
    BY <2>1, <2>8, <2>9, <2>10, <2>11 DEF AloneOK
  <2> QED
    BY <2>1, <2>12, <1>c, <1>d
<1>7. ASSUME ToolFails(p) PROVE P
  <2>1. /\ InApply(p) /\ Steps /\ pc[p] \in {"read", "backup", "open", "fill"}
        /\ files' = files /\ row' = row /\ latest' = latest /\ raced' = raced /\ undone' = undone
    BY <1>7 DEF ToolFails, InApply, Proceeds
  <2>2. /\ \A g \in Files \ {File(p)} : bak'[g] = bak[g]
        /\ pc[p] # "backup" => bak' = bak
        /\ stale' = IF bak' = bak THEN stale ELSE stale \cup {File(p)}
    BY <1>7, <1>a DEF ToolFails
  <2>3. \/ call[p].kept = 0 /\ pc'[p] = "failed"
        \/ /\ call[p].kept # 0 /\ pc'[p] = "rollback" /\ call'[p].prop = call[p].prop
           /\ call'[p].at = 1 /\ call'[p].kept = call[p].kept
    <3>1. \/ call[p].kept = 0 /\ pc'[p] = "failed"
          \/ /\ call[p].kept # 0 /\ pc'[p] = "rollback"
             /\ call'[p] = [call[p] EXCEPT !.at = 1, !.kept = call[p].kept, !.patched = Torn]
      BY <1>7, <1>a DEF ToolFails, ToUndo, Ends, Goto, Note
    <3>2. ASSUME call'[p] = [call[p] EXCEPT !.at = 1, !.kept = call[p].kept, !.patched = Torn]
          PROVE  /\ call'[p].prop = call[p].prop /\ call'[p].at = 1
                 /\ call'[p].kept = call[p].kept
      BY <3>2
    <3> QED
      BY <3>1, <3>2
  <2>4. \A f \in Files : RowsKeep(f) /\ (f # File(p) \/ pc[p] # "backup" => SameFile(f))
    BY <2>1, <2>2 DEF RowsKeep, SameFile
  <2>5. ASSUME NEW f \in Files PROVE FileOK(f)'
    <3>1. CASE f # File(p) \/ pc[p] # "backup"
      BY <2>1, <2>4, <3>1, FileStays
    <3>2. CASE f \in raced
      BY <2>1, <3>2 DEF FileOK
    <3>3. CASE f = File(p) /\ pc[p] = "backup" /\ f \notin raced
      <4>1. ReadOK(p, f) /\ files[f].text = latest[f] /\ latest[f] # -1
        BY <3>3, <1>a, LatestIsText DEF AloneOK, AloneWith, ReadOK
      <4>2. Tells(files[f], f)
        BY <3>3, <4>1 DEF FileOK, Shown
      <4>3. Tells(files[f], f)'
        BY <4>2, <2>1 DEF Tells
      <4>4. BackupOK(f)'
        BY <2>1, <2>2, <3>3 DEF FileOK, BackupOK
      <4> QED
        BY <2>1, <4>1, <4>3, <4>4, FileWhole
    <3> QED
      BY <3>1, <3>2, <3>3
  <2>6. CASE pc'[p] = "rollback" /\ call[p].kept # 0 /\ call'[p].prop = call[p].prop
             /\ call'[p].at = 1 /\ call'[p].kept = call[p].kept
    <3>1. \A f : IsToUndo(p, f)' => IsDone(p, f)
      BY <2>6 DEF IsToUndo, IsDone, Nth
    <3>2. ~IsDone(p, File(p))
      BY <2>1, <1>f
    <3>3. ASSUME NEW f \in Files \ raced, IsDone(p, f) PROVE HeldOK(f)'
      <4>1. HeldOK(f) /\ f # File(p)
        BY <2>1, <3>2, <3>3, <1>a DEF AloneOK, AloneWith
      <4> QED
        BY <4>1, <2>4, HeldStays DEF SameFile
    <3>4. AloneOK(p)'
      BY <2>1, <2>6, <3>1, <3>3 DEF AloneOK, AloneWith
    <3>5. Applying(p)
      BY <2>1, <2>6, <1>a, <1>e DEF Applying
    <3> QED
      BY <2>1, <2>5, <3>4, <3>5, <1>c, <1>d
  <2>7. CASE pc'[p] = "failed"
    <3>1. ~Applying(p)'
      BY <2>7 DEF Applying
    <3>2. CASE Applying(p)
      <4>1. AloneOK(p)'
        BY <2>7 DEF AloneOK, AloneWith
      <4> QED
        BY <2>1, <2>5, <4>1, <3>2, <1>c, <1>d
    <3>3. CASE ~Applying(p)
      <4>1. Quiet
        BY <2>1, <2>2, <3>3 DEF Applying
      <4> QED
        BY <4>1, <3>1, <2>1, <1>b
    <3> QED
      BY <3>2, <3>3
  <2> QED
    BY <2>3, <2>6, <2>7
<1>8. ASSUME Restore(p) PROVE P
  <2>1. /\ InApply(p) /\ Applying(p) /\ Steps /\ pc[p] = "rollback"
        /\ row' = row /\ latest' = latest /\ stale' = stale /\ raced' = raced
        /\ undone' = undone
    BY <1>8 DEF Restore, InApply, Applying, Proceeds, writings
  <2>2. \/ bak[File(p)] = None /\ files' = files /\ bak' = bak
        \/ /\ bak[File(p)] # None
           /\ \E b \in {None, bak[File(p)]} :
                Put(p, File(p), bak[File(p)], b, before[p][File(p)])
        \/ \E c \in {files[File(p)], Torn} : Put(p, File(p), c, bak[File(p)], None)
    BY <1>8 DEF Restore, fileVars
  <2>3. /\ File(p) \in Files
        /\ \A g \in Files \ {File(p)} : files'[g] = files[g] /\ bak'[g] = bak[g]
    BY <2>1, <2>2, <1>a, <1>e, PutMarksOthers
  <2>4. \/ pc'[p] = "failed"
        \/ /\ pc'[p] = "rollback" /\ call'[p].prop = call[p].prop
           /\ call'[p].at = call[p].at + 1 /\ call'[p].kept = call[p].kept
    <3>1. \/ pc'[p] = "failed"
          \/ pc' = pc /\ call'[p] = [call[p] EXCEPT !.at = @ + 1]
      BY <1>8, <1>a DEF Restore, RolledBack, Ends, Goto, Note
    <3>2. ASSUME call'[p] = [call[p] EXCEPT !.at = @ + 1]
          PROVE  /\ call'[p].prop = call[p].prop /\ call'[p].at = call[p].at + 1
                 /\ call'[p].kept = call[p].kept
      BY <3>2
    <3>3. pc' = pc => pc'[p] = "rollback"
      BY <2>1
    <3> QED
      BY <3>1, <3>2, <3>3, Zenon
  <2>5. \A f \in Files : RowsKeep(f) /\ (f # File(p) => SameFile(f))
    BY <2>1, <2>3 DEF RowsKeep, SameFile
  <2>6. IsToUndo(p, File(p))
    BY <2>1, <1>a, <1>e DEF IsToUndo
  <2>7. ASSUME NEW f \in Files PROVE FileOK(f)'
    <3>1. CASE f # File(p)
      BY <2>1, <2>5, <3>1, FileStays
    <3>2. CASE f \in raced
      BY <2>1, <3>2 DEF FileOK
    <3>3. CASE f = File(p) /\ f \notin raced
      <4>1. HeldOK(f) /\ latest[f] # -1
        BY <2>1, <2>6, <3>3, <1>a, LatestIsText DEF AloneOK, AloneWith
      <4>2. Tells(bak[f], f) /\ bak[f] # None /\ bak[f].text = latest[f]
        BY <4>1 DEF HeldOK
      <4>3. CASE \E b \in {None, bak[f]} : Put(p, f, bak[f], b, before[p][f])
        <5>1. files'[f] = bak[f] /\ bak'[f] \in {None, bak[f]}
          BY <4>3, PutMarksOthers
        <5>2. Tells(files[f], f)'
          BY <5>1, <4>2, <2>1 DEF Tells
        <5> QED
          BY <5>1, <5>2, <4>1, <4>2, <2>1, FileWhole DEF BackupOK
      <4>4. CASE files'[f] = files[f] /\ bak'[f] = bak[f]
        <5>1. SameFile(f)
          BY <4>4, <2>1 DEF SameFile
        <5> QED
          BY <5>1, <2>1, <2>5, FileStays
      <4>5. CASE files'[f] = Torn /\ bak'[f] = bak[f]
        <5>1. HeldOK(f)'
          BY <4>1, <4>5, <2>1, <2>5, HeldStays
        <5> QED
          BY <4>5, <5>1 DEF FileOK, HeldOK, Shown, Torn, BackupOK
      <4> QED
        BY <4>2, <4>3, <4>4, <4>5, <2>2, <3>3, PutMarksOthers
    <3> QED
      BY <3>1, <3>2, <3>3
  <2>8. AloneOK(p)'
    <3>1. CASE pc'[p] = "failed"
      BY <3>1 DEF AloneOK, AloneWith
    <3>2. CASE pc'[p] = "rollback" /\ call'[p].prop = call[p].prop
               /\ call'[p].at = call[p].at + 1 /\ call'[p].kept = call[p].kept
      <4>1. ASSUME NEW f \in Files \ raced, IsToUndo(p, f)' PROVE HeldOK(f)'
        <5>1. PICK k \in call[p].at + 1 .. call[p].kept : f = Nth(p, k)
          BY <3>2, <4>1 DEF IsToUndo, Nth
        <5>2. k \in call[p].at .. call[p].kept /\ k # call[p].at /\ k \in 1 .. Size(p)
          BY <2>1, <1>a, <1>e DEF Kept
        <5>3. IsToUndo(p, f) /\ f # File(p)
          BY <5>1, <5>2, <2>1, <1>e DEF IsToUndo
        <5>4. HeldOK(f)
          BY <5>3, <2>1, <1>a DEF AloneOK, AloneWith
        <5> QED
          BY <5>3, <5>4, <2>5, HeldStays DEF SameFile
      <4> QED
        BY <2>1, <3>2, <4>1 DEF AloneOK, AloneWith
    <3> QED
      BY <2>4, <3>1, <3>2
  <2> QED
    BY <2>1, <2>7, <2>8, <1>c, <1>d
<1>9. ASSUME Record(p) \/ Find(p) PROVE P
  <2>1. /\ Applying(p) /\ Steps /\ Quiet /\ pc[p] \in {"record", "find"}
    BY <1>9 DEF Record, Find, Applying, Proceeds, fileVars, writings, history
  <2>2. \/ pc'[p] = "idle"
        \/ pc'[p] \in {"find", "mark", "clean"} /\ call'[p].prop = call[p].prop
    <3>1. \/ pc'[p] = "idle"
          \/ pc'[p] \in {"find", "mark"} /\ call' = call
          \/ pc'[p] = "clean" /\ call'[p] = [call[p] EXCEPT !.at = 1]
      BY <1>9, <1>a DEF Record, Find, Ends, Goto, Note
    <3>2. ASSUME call'[p] = [call[p] EXCEPT !.at = 1] PROVE call'[p].prop = call[p].prop
      BY <3>2
    <3> QED
      BY <3>1, <3>2
  <2>3. AloneOK(p)'
    <3>1. CASE pc'[p] = "idle"
      BY <3>1 DEF AloneOK, AloneWith
    <3>2. CASE pc'[p] \in {"find", "mark", "clean"} /\ call'[p].prop = call[p].prop
      <4>1. ASSUME NEW f \in Files \ raced, IsOf(p, f)'
            PROVE  PatchedOK(p, f)' /\ files'[f].text = latest'[f]
        <5>1. IsOf(p, f)
          BY <3>2, <4>1 DEF IsOf, Nth, Size
        <5>2. PatchedOK(p, f)
          BY <5>1, <2>1, <1>a DEF AloneOK, AloneWith
        <5> QED
          BY <5>2, <2>1, <3>2 DEF PatchedOK
      <4> QED
        BY <2>1, <3>2, <4>1 DEF AloneOK, AloneWith
    <3> QED
      BY <2>2, <3>1, <3>2
  <2>4. \A f \in Files : FileOK(f)'
    BY <2>1, QuietStep
  <2> QED
    BY <2>1, <2>3, <2>4, <1>c, <1>d
\* The row says executed: every file of the proposal has its patch.
<1>10. ASSUME Mark(p) PROVE P
  <2>1. /\ InApply(p) /\ Applying(p) /\ Steps /\ pc[p] = "mark" /\ pc'[p] = "clean"
        /\ files' = files /\ bak' = bak /\ latest' = latest /\ stale' = stale
        /\ raced' = raced /\ undone' = undone
        /\ row' = [row EXCEPT ![call[p].prop] = "executed"]
        /\ call'[p] = [call[p] EXCEPT !.at = 1]
    BY <1>10, <1>a DEF Mark, InApply, Applying, Proceeds, fileVars, writings, history, Goto, Note
  <2>2. call'[p].prop = call[p].prop
    BY <2>1
  <2>3. \A f \in Files \ raced : IsOf(p, f) => PatchedOK(p, f)
    BY <2>1, <1>a DEF AloneOK, AloneWith
  <2>4. \A f : IsOf(p, f)' => IsOf(p, f)
    BY <2>2 DEF IsOf, Nth, Size
  <2>5. AloneOK(p)'
    BY <2>1, <2>3, <2>4 DEF AloneOK, AloneWith, PatchedOK
  <2>6. ASSUME NEW f \in Files \ raced PROVE FileOK(f)'
    <3>1. /\ files[f].text \in {-1, latest[f]} /\ Shown(f).text = latest[f]
          /\ Tells(Shown(f), f) /\ latest[f] # -1 /\ BackupOK(f)
      BY LatestIsText DEF FileOK
    <3>2. Shown(f)' = Shown(f)
      BY <2>1 DEF Shown
    <3>3. IsOf(p, f) => call[p].prop \in Shown(f).patches \/ <<call[p].prop, f>> \in undone
      BY <2>3, <3>1 DEF PatchedOK, Shown
    <3>4. Tells(Shown(f), f)'
      <4>1. ASSUME NEW i \in Proposals, row'[i] = "executed",
                   \E k \in 1 .. Len(Changes[i]) : f = Changes[i][k]
            PROVE  i \in Shown(f).patches \/ <<i, f>> \in undone
        <5>1. CASE i = call[p].prop
          BY <5>1, <4>1, <3>3 DEF IsOf, Nth, Size
        <5>2. CASE i # call[p].prop
          <6>1. row[i] = "executed"
            BY <5>2, <4>1, <2>1, <1>a
          <6> QED
            BY <6>1, <4>1, <3>1 DEF Tells
        <5> QED
          BY <5>1, <5>2
      <4> QED
        BY <4>1, <3>2, <2>1 DEF Tells
    <3> QED
      BY <3>1, <3>2, <3>4, <2>1 DEF FileOK, BackupOK
  <2>7. \A f \in Files : FileOK(f)'
    BY <2>1, <2>6 DEF FileOK
  <2> QED
    BY <2>1, <2>5, <2>7, <1>c, <1>d
<1>11. ASSUME Clean(p) PROVE P
  <2>1. /\ InApply(p) /\ Applying(p) /\ Steps /\ pc[p] = "clean"
        /\ row' = row /\ latest' = latest /\ stale' = stale /\ raced' = raced
        /\ undone' = undone
        /\ \E b \in {None, bak[File(p)]} :
             Put(p, File(p), files[File(p)], b, before[p][File(p)])
    BY <1>11 DEF Clean, InApply, Applying, Proceeds, writings
  <2>2. /\ File(p) \in Files /\ bak'[File(p)] \in {None, bak[File(p)]}
        /\ \A g \in Files : files'[g] = files[g] /\ (g # File(p) => bak'[g] = bak[g])
    BY <2>1, <1>e, PutMarksOthers
  <2>3. \/ pc'[p] = "idle"
        \/ pc'[p] = "clean" /\ call'[p].prop = call[p].prop
    <3>1. \/ pc'[p] = "idle"
          \/ pc' = pc /\ call'[p] = [call[p] EXCEPT !.at = @ + 1]
      BY <1>11, <1>a DEF Clean, Ends, Goto, Note
    <3>2. ASSUME call'[p] = [call[p] EXCEPT !.at = @ + 1] PROVE call'[p].prop = call[p].prop
      BY <3>2
    <3> QED
      BY <2>1, <3>1, <3>2
  <2>4. \A f \in Files \ raced : IsOf(p, f) => files[f].text = latest[f]
    BY <2>1, <1>a DEF AloneOK, AloneWith
  <2>5. AloneOK(p)'
    <3>1. pc'[p] = "clean" => \A f : IsOf(p, f)' => IsOf(p, f)
      BY <2>3 DEF IsOf, Nth, Size
    <3> QED
      BY <2>1, <2>2, <2>3, <2>4, <3>1 DEF AloneOK, AloneWith
  <2>6. ASSUME NEW f \in Files PROVE FileOK(f)'
    <3>1. CASE f # File(p)
      <4>1. SameFile(f) /\ RowsKeep(f)
        BY <2>1, <2>2, <3>1 DEF SameFile, RowsKeep
      <4> QED
        BY <4>1, <2>1, FileStays
    <3>2. CASE f \in raced
      BY <2>1, <3>2 DEF FileOK
    <3>3. CASE f = File(p) /\ f \notin raced
      <4>1. files[f].text = latest[f] /\ latest[f] # -1
        BY <2>1, <2>4, <3>3, <1>e, LatestIsText DEF IsOf
      <4>2. Tells(files[f], f)
        BY <3>3, <4>1 DEF FileOK, Shown
      <4>3. Tells(files[f], f)'
        BY <4>2, <2>1, <2>2 DEF Tells
      <4>4. BackupOK(f)'
        BY <2>1, <2>2, <3>3 DEF FileOK, BackupOK
      <4> QED
        BY <2>1, <2>2, <4>1, <4>3, <4>4, FileWhole
    <3> QED
      BY <3>1, <3>2, <3>3
  <2> QED
    BY <2>1, <2>5, <2>6, <1>c, <1>d
<1> HIDE DEF P
<1>12. Command(p) \/ Proceeds(p) \/ Crash(p) => P
  BY <1>1, <1>2, <1>3, <1>4, <1>5, <1>6, <1>7, <1>8, <1>9, <1>10, <1>11
     DEF Proceeds
<1> QED
  BY <1>12 DEF P

\* Others write a file: what an application holds of it counts as raced, and
\* what they took away is on record.
LEMMA AloneWrite ==
  ASSUME TypesOK, \A q \in Terminals : CallOK(q), NEW f \in Files, NEW c \in Content,
         NEW b \in Content \cup {None}, c.text # -1, Write(f, c, b),
         Alone, \A q \in Terminals : AloneOK(q), \A g \in Files : FileOK(g)
  PROVE  Alone' /\ (\A q \in Terminals : AloneOK(q)') /\ (\A g \in Files : FileOK(g)')
<1>1. /\ row' = row /\ pc' = pc /\ call' = call
      /\ files'[f] = c /\ latest'[f] = c.text /\ bak'[f] = b
      /\ \A g \in Files \ {f} : /\ files'[g] = files[g] /\ latest'[g] = latest[g]
                                /\ bak'[g] = bak[g]
      /\ \A g \in Files \ {f} : g \in raced <=> g \in raced'
      /\ \A g \in Files \ {f}, i \in Proposals \cup {None} :
           <<i, g>> \in undone => <<i, g>> \in undone'
      /\ f \notin raced' => \A i \in Proposals : i \notin c.patches => <<i, f>> \in undone'
      /\ \A g \in Files \ {f} : g \in stale => g \in stale'
      /\ f \in raced' \/ f \in stale' \/ b = None
      /\ f \notin raced' => \A p \in Terminals : f \notin Holds(p)
  BY DEF Write, TakeAway, TypesOK
<1>2. \A g \in Files \ {f} : SameFile(g) /\ RowsKeep(g)
  BY <1>1 DEF SameFile, RowsKeep
<1>3. ASSUME NEW g \in Files PROVE FileOK(g)'
  <2>1. CASE g # f
    BY <1>1, <1>2, <2>1, FileStays
  <2>2. CASE f \in raced'
    BY <2>1, <2>2 DEF FileOK
  <2>3. CASE f \notin raced'
    <3>1. Tells(files[f], f)' /\ BackupOK(f)'
      BY <1>1, <2>3 DEF Tells, BackupOK
    <3> QED
      BY <1>1, <2>1, <3>1, FileWhole
  <2> QED
    BY <2>2, <2>3
<1>4. ASSUME NEW q \in Terminals PROVE AloneOK(q)'
  <2>1. ASSUME NEW g \in Files \ raced', g # f PROVE AloneWith(q, g)'
    <3>1. AloneWith(q, g) /\ SameFile(g) /\ RowsKeep(g) /\ call[q].prop \in Proposals \cup {None}
      BY <1>1, <1>2, <2>1 DEF AloneOK, CallOK
    <3> QED
      BY <1>1, <2>1, <3>1, AloneStays
  \* What the application holds is raced, and what it has written is noted.
  <2>2. ASSUME f \notin raced' PROVE AloneWith(q, f)'
    <3>1. InApply(q) => /\ call[q].prop \in Proposals /\ call[q].at \in Nat \ {0}
                        /\ call[q].kept \in Nat
                        /\ pc[q] \in {"read", "backup", "open", "fill"} => call[q].kept = call[q].at - 1
      BY ApplyingHasFiles DEF CallOK
    <3>2. f \notin Holds(q)
      BY <1>1, <2>2
    <3>3. pc[q] \in {"read", "backup", "open", "fill"} => ~IsDone(q, f)
      BY <3>1, <3>2 DEF InApply, Holds, IsDone, Nth
    <3>4. pc[q] \in {"backup", "open", "fill"} => f # File(q)
      BY <3>1, <3>2 DEF InApply, Holds, File
    <3>5. pc[q] = "rollback" => ~IsToUndo(q, f)
      BY <3>2 DEF Holds, IsToUndo, Nth
    <3>6. InApply(q) => PatchedOK(q, f)'
      BY <1>1, <2>2, <3>1 DEF PatchedOK
    <3>7. /\ IsDone(q, f)' <=> IsDone(q, f)
          /\ IsToUndo(q, f)' <=> IsToUndo(q, f)
          /\ File(q)' = File(q)
      BY <1>1 DEF IsDone, IsToUndo, File, Nth
    <3> QED
      BY <1>1, <3>3, <3>4, <3>5, <3>6, <3>7 DEF AloneWith, InApply
  <2> QED
    BY <2>1, <2>2 DEF AloneOK
<1>5. Alone'
  BY <1>1 DEF Alone, Applying
<1> QED
  BY <1>3, <1>4, <1>5

\* One file is changed, and its text is not new: what an application has of the
\* file counts as raced.
LEMMA AloneAside ==
  ASSUME \A q \in Terminals : CallOK(q), NEW f \in Files,
         row' = row, pc' = pc, call' = call, latest' = latest,
         \A g \in Files \ {f} :
           /\ files'[g] = files[g] /\ bak'[g] = bak[g]
           /\ g \in stale => g \in stale'
           /\ g \in raced <=> g \in raced'
           /\ \A i \in Proposals \cup {None} : <<i, g>> \in undone => <<i, g>> \in undone',
         f \in raced' \/ (~Meets(f) /\ FileOK(f)'),
         Alone, \A q \in Terminals : AloneOK(q), \A g \in Files : FileOK(g)
  PROVE  Alone' /\ (\A q \in Terminals : AloneOK(q)') /\ (\A g \in Files : FileOK(g)')
<1>1. \A g \in Files \ {f} : SameFile(g) /\ RowsKeep(g)
  BY DEF SameFile, RowsKeep
<1>2. ASSUME NEW g \in Files PROVE FileOK(g)'
  <2>1. CASE g # f
    BY <1>1, <2>1, FileStays
  <2>2. CASE g = f
    BY <2>2 DEF FileOK
  <2> QED
    BY <2>1, <2>2
<1>3. ASSUME NEW q \in Terminals PROVE AloneOK(q)'
  <2>1. CallOK(q)' /\ (Applying(q)' <=> Applying(q))
    BY CallUntouched
  <2>2. CASE ~Applying(q)
    BY <2>1, <2>2, IdleIsAloneThen
  <2>3. CASE Applying(q)
    <3>1. ASSUME NEW g \in Files \ raced', g # f PROVE AloneWith(q, g)'
      <4>1. call[q].prop \in Proposals \cup {None}
        BY DEF CallOK
      <4>2. /\ SameFile(g) /\ RowsKeep(g)
            /\ g \notin raced
            /\ <<call[q].prop, g>> \in undone => <<call[q].prop, g>> \in undone'
        BY <1>1, <3>1, <4>1
      <4>3. AloneWith(q, g)
        BY <4>2 DEF AloneOK
      <4> QED
        BY <4>2, <4>3, AloneStays
    <3>2. ASSUME f \notin raced' PROVE AloneWith(q, f)'
      <4>1. InApply(q) /\ ~IsOf(q, f)
        BY <2>3, <3>2 DEF Meets, Applying, InApply, Patches, IsOf, Nth
      <4>2. /\ Size(q) \in Nat /\ call[q].at \in 1 .. Size(q) /\ call[q].kept \in Nat
            /\ pc[q] \in Kept => call[q].kept <= Size(q)
            /\ File(q) = Nth(q, call[q].at)
        BY <4>1, ApplyingHasFiles
      <4>3. /\ pc[q] \in Kept => ~IsDone(q, f) /\ ~IsToUndo(q, f)
            /\ f # File(q)
        BY <4>1, <4>2 DEF IsOf, IsDone, IsToUndo
      <4>4. /\ IsDone(q, f)' <=> IsDone(q, f)
            /\ IsToUndo(q, f)' <=> IsToUndo(q, f)
            /\ IsOf(q, f)' <=> IsOf(q, f)
            /\ File(q)' = File(q)
        BY DEF IsDone, IsToUndo, IsOf, File, Nth, Size
      <4> QED
        BY <4>1, <4>3, <4>4 DEF AloneWith, Kept
    <3> QED
      BY <3>1, <3>2 DEF AloneOK
  <2> QED
    BY <2>2, <2>3
<1>4. Alone'
  BY DEF Alone, Applying
<1> QED
  BY <1>2, <1>3, <1>4

\* `agent rollback` puts a backup back: unless it is stale, it has the text that
\* others wrote last.
LEMMA AloneRollBack ==
  ASSUME TypesOK, \A q \in Terminals : CallOK(q), NEW f \in Files, RollBackUp(f),
         Alone, \A q \in Terminals : AloneOK(q), \A g \in Files : FileOK(g)
  PROVE  Alone' /\ (\A q \in Terminals : AloneOK(q)') /\ (\A g \in Files : FileOK(g)')
<1>1. /\ row' = row /\ pc' = pc /\ call' = call /\ latest' = latest
      /\ bak[f] # None
      /\ \/ files'[f] = bak[f] /\ bak'[f] \in {None, bak[f]}
         \/ files'[f] = Torn /\ bak'[f] = bak[f]
      /\ f \notin raced' =>
           /\ f \notin raced /\ f \notin stale
           /\ \A i \in Proposals : i \notin bak[f].patches => <<i, f>> \in undone'
           /\ ~Meets(f)
  BY DEF RollBackUp, TakeAway, TypesOK
<1>2. ASSUME NEW g \in Files \ {f}
      PROVE  /\ files'[g] = files[g] /\ bak'[g] = bak[g]
             /\ g \in stale => g \in stale'
             /\ g \in raced <=> g \in raced'
             /\ \A i \in Proposals \cup {None} : <<i, g>> \in undone => <<i, g>> \in undone'
  BY <1>2 DEF RollBackUp, TakeAway, TypesOK
<1>3. ASSUME f \notin raced' PROVE FileOK(f)'
  <2>1. bak[f].text = latest[f] /\ latest[f] # -1
    BY <1>1, <1>3, LatestIsText DEF FileOK, BackupOK
  <2>2. \A i \in Proposals : i \in bak[f].patches \/ <<i, f>> \in undone'
    BY <1>1, <1>3
  <2>3. CASE files'[f] = bak[f] /\ bak'[f] \in {None, bak[f]}
    <3>1. Tells(files[f], f)' /\ BackupOK(f)'
      BY <1>1, <2>1, <2>2, <2>3 DEF Tells, BackupOK
    <3> QED
      BY <1>1, <2>1, <2>3, <3>1, FileWhole
  <2>4. CASE files'[f] = Torn /\ bak'[f] = bak[f]
    <3>1. Shown(f)' = bak[f]
      BY <1>1, <2>4 DEF Shown, Torn
    <3>2. Tells(Shown(f), f)' /\ BackupOK(f)'
      BY <1>1, <2>1, <2>2, <2>4, <3>1 DEF Tells, BackupOK
    <3> QED
      BY <1>1, <2>1, <2>4, <3>1, <3>2 DEF FileOK, Torn
  <2> QED
    BY <1>1, <2>3, <2>4
<1> QED
  BY <1>1, <1>2, <1>3, AloneAside

\* A tool call of an agent breaks off: what it has not written is in the file,
\* what it has emptied in the backup.
LEMMA AloneBreaks ==
  ASSUME TypesOK, \A q \in Terminals : CallOK(q), NEW f \in Files, ToolBreaks(f),
         Alone, \A q \in Terminals : AloneOK(q), \A g \in Files : FileOK(g)
  PROVE  Alone' /\ (\A q \in Terminals : AloneOK(q)') /\ (\A g \in Files : FileOK(g)')
<1>1. /\ row' = row /\ pc' = pc /\ call' = call /\ latest' = latest /\ undone' = undone
      /\ \/ files'[f] = files[f] /\ f \in stale'
         \/ files'[f] \in {files[f], Torn} /\ bak'[f] = files[f]
      /\ f \notin raced' => f \notin raced /\ files[f].text # -1 /\ ~Meets(f)
  BY DEF ToolBreaks, TypesOK
<1>2. ASSUME NEW g \in Files \ {f}
      PROVE  /\ files'[g] = files[g] /\ bak'[g] = bak[g]
             /\ g \in stale => g \in stale'
             /\ g \in raced <=> g \in raced'
             /\ \A i \in Proposals \cup {None} : <<i, g>> \in undone => <<i, g>> \in undone'
  BY <1>2 DEF ToolBreaks, TypesOK
<1>3. ASSUME f \notin raced' PROVE FileOK(f)'
  <2>1. files[f].text = latest[f] /\ latest[f] # -1 /\ Tells(files[f], f)
    BY <1>1, <1>3, LatestIsText DEF FileOK, Shown
  <2>2. CASE files'[f] = files[f]
    <3>1. Tells(files[f], f)' /\ BackupOK(f)'
      BY <1>1, <2>1, <2>2 DEF Tells, BackupOK
    <3> QED
      BY <1>1, <2>1, <2>2, <3>1, FileWhole
  <2>3. CASE files'[f] = Torn /\ bak'[f] = files[f]
    <3>1. Shown(f)' = files[f]
      BY <2>3, NoneIsNoContent DEF Shown, Torn, TypesOK
    <3>2. Tells(Shown(f), f)' /\ BackupOK(f)'
      BY <1>1, <2>1, <2>3, <3>1 DEF Tells, BackupOK
    <3> QED
      BY <1>1, <2>1, <2>3, <3>1, <3>2 DEF FileOK, Torn
  <2> QED
    BY <1>1, <2>2, <2>3
<1> QED
  BY <1>1, <1>2, <1>3, AloneAside

LEMMA AloneSurvives ==
  ASSUME TypesOK, \A q \in Terminals : CallOK(q),
         Alone, \A q \in Terminals : AloneOK(q), \A g \in Files : FileOK(g)
  PROVE  Rows \/ (\E f \in Files : NewText(f) \/ PutBack(f) \/ ToolBreaks(f) \/ RollBackUp(f)) =>
           Alone' /\ (\A q \in Terminals : AloneOK(q)') /\ (\A g \in Files : FileOK(g)')
<1> DEFINE P == Alone' /\ (\A q \in Terminals : AloneOK(q)') /\ (\A g \in Files : FileOK(g)')
<1>1. ASSUME Rows PROVE P
  <2>1. /\ pc' = pc /\ call' = call /\ files' = files /\ bak' = bak
        /\ latest' = latest /\ stale' = stale /\ raced' = raced /\ undone' = undone
    BY <1>1 DEF Rows, Propose, Expire, ServerDecides, fileVars, history, writings
  <2>2. \A i \in Proposals : row'[i] = "executed" => row[i] = "executed"
    BY <1>1 DEF Rows, Propose, Expire, ServerDecides, Verdicts, TypesOK
  <2>3. \A g \in Files : FileOK(g)'
    BY <2>1, <2>2, QuietStep
  <2>4. \A q \in Terminals : AloneOK(q)'
    BY <2>1, <2>2, QuietStep DEF AloneOK
  <2>5. Alone'
    BY <2>1 DEF Alone, Applying
  <2> QED
    BY <2>3, <2>4, <2>5
<1>2. ASSUME NEW f \in Files, NewText(f) PROVE P
  <2>1. PICK kept \in {{}, files[f].patches}, b \in {bak[f], files[f]} :
          Write(f, [text |-> texts + 1, patches |-> kept], b)
    BY <1>2 DEF NewText
  <2>2. texts + 1 \in 1 .. MaxTexts
    BY <1>2, ProposalAssumption DEF NewText, TypesOK
  <2>3. kept \in SUBSET Proposals /\ b \in Content \cup {None}
    BY DEF Content, TypesOK
  <2> DEFINE c == [text |-> texts + 1, patches |-> kept]
  <2>4. c \in Content /\ c.text # -1
    BY <2>2, <2>3, ProposalAssumption DEF Content
  <2> HIDE DEF c
  <2> QED
    BY <2>1, <2>3, <2>4, AloneWrite DEF c
<1>3. ASSUME NEW f \in Files, PutBack(f) PROVE P
  <2>1. PICK i \in Proposals : hash[i][f].text # -1 /\ Write(f, hash[i][f], bak[f])
    BY <1>3 DEF PutBack
  <2>2. hash[i][f] \in Content /\ bak[f] \in Content \cup {None}
    BY DEF TypesOK
  <2> QED
    BY <2>1, <2>2, AloneWrite
<1>4. ASSUME NEW f \in Files, RollBackUp(f) PROVE P
  BY <1>4, AloneRollBack
<1>5. ASSUME NEW f \in Files, ToolBreaks(f) PROVE P
  BY <1>5, AloneBreaks
<1> HIDE DEF P
<1>6. Rows \/ (\E f \in Files : NewText(f) \/ PutBack(f) \/ ToolBreaks(f) \/ RollBackUp(f)) => P
  BY <1>1, <1>2, <1>3, <1>4, <1>5
<1> QED
  BY <1>6 DEF P

-----------------------------------------------------------------------------
(***************************************************************************)
(* The invariant, and what follows from it.                                *)
(***************************************************************************)
\* Two applications that overlap are never forgotten.
LEMMA BlurredStays == TypesOK /\ blurred /\ Next => blurred'
<1> SUFFICES ASSUME TypesOK, blurred, Next PROVE blurred'
  OBVIOUS
<1> USE DEF history, writings
<1>1. ASSUME NEW p \in Terminals, Command(p) \/ Crash(p) PROVE blurred'
  BY <1>1 DEF Command, Apply, Decide, Crash
<1>2. ASSUME NEW p \in Terminals, Proceeds(p) PROVE blurred'
  BY <1>2 DEF Proceeds, Decided, Stale, Fresh, AllFresh, ReadText, BackUp, Open, Fill, ToolFails,
              Restore, Record, Find, Mark, Clean
<1>3. ASSUME Rows \/ \E f \in Files : NewText(f) \/ PutBack(f) \/ ToolBreaks(f) \/ RollBackUp(f)
      PROVE  blurred'
  BY <1>3 DEF Rows, Propose, Expire, ServerDecides, NewText, PutBack, Write, ToolBreaks, RollBackUp
<1> QED
  BY <1>1, <1>2, <1>3 DEF Next

LEMMA ProposalStep == ProposalInv /\ [Next]_vars => ProposalInv'
<1> SUFFICES ASSUME ProposalInv, [Next]_vars PROVE ProposalInv'
  OBVIOUS
<1>a. /\ TypesOK
      /\ \A q \in Terminals : CallOK(q) /\ OwnOK(q)
      /\ ~blurred => /\ Alone
                     /\ \A q \in Terminals : AloneOK(q)
                     /\ \A f \in Files : FileOK(f)
  BY DEF ProposalInv
<1>1. ASSUME NEW p \in Terminals, Command(p) \/ Proceeds(p) \/ Crash(p) PROVE ProposalInv'
  <2>1. Next
    BY <1>1 DEF Next
  <2>2. TypesOK'
    BY <2>1, <1>a, TypesStep
  <2>3. ASSUME NEW q \in Terminals PROVE CallOK(q)' /\ OwnOK(q)'
    <3>1. CASE q = p
      BY <1>1, <1>a, <3>1, CallStep, OwnStep
    <3>2. CASE q # p
      <4>1. pc'[q] = pc[q] /\ call'[q] = call[q]
        BY <1>1, <1>a, <3>2, OthersStay
      <4>2. CallOK(q)'
        BY <4>1, <1>a, CallUntouched
      <4>3. OwnOK(q)'
        BY <4>1, <1>1, <1>a, <3>2, OthersAreTold, OwnUntouched
      <4> QED
        BY <4>2, <4>3
    <3> QED
      BY <3>1, <3>2
  <2>4. blurred' \/ (Alone' /\ (\A q \in Terminals : AloneOK(q)') /\ (\A f \in Files : FileOK(f)'))
    <3>1. ~blurred' => ~blurred
      BY <2>1, <1>a, BlurredStays
    <3> QED
      BY <1>1, <1>a, <3>1, AloneStep
  <2> QED
    BY <2>2, <2>3, <2>4 DEF ProposalInv
<1>2. ASSUME Rows \/ \E f \in Files : NewText(f) \/ PutBack(f) \/ ToolBreaks(f) \/ RollBackUp(f)
      PROVE  ProposalInv'
  <2>1. Next
    BY <1>2 DEF Next
  <2>2. TypesOK'
    BY <2>1, <1>a, TypesStep
  <2>3. ASSUME NEW q \in Terminals PROVE CallOK(q)' /\ OwnOK(q)'
    <3>1. CallOK(q)'
      BY <1>2, <1>a, CallsStay, CallUntouched
    <3>2. OwnOK(q)'
      BY <1>2, <1>a, OwnSurvives
    <3> QED
      BY <3>1, <3>2
  <2>4. blurred' \/ (Alone' /\ (\A q \in Terminals : AloneOK(q)') /\ (\A f \in Files : FileOK(f)'))
    <3>1. ~blurred' => ~blurred
      BY <2>1, <1>a, BlurredStays
    <3> QED
      BY <1>2, <1>a, <3>1, AloneSurvives
  <2> QED
    BY <2>2, <2>3, <2>4 DEF ProposalInv
<1>3. ASSUME UNCHANGED vars PROVE ProposalInv'
  <2>1. /\ row' = row /\ files' = files /\ bak' = bak /\ hash' = hash /\ pc' = pc /\ call' = call
        /\ texts' = texts /\ latest' = latest /\ stale' = stale /\ raced' = raced
        /\ blurred' = blurred /\ undone' = undone /\ before' = before
    BY <1>3 DEF vars, fileVars, history, writings
  <2>2. TypesOK'
    BY <2>1, <1>a DEF TypesOK
  <2>3. ASSUME NEW q \in Terminals PROVE CallOK(q)' /\ OwnOK(q)'
    BY <2>1, <1>a, CallUntouched, OwnUntouched
  <2>4. \A f \in Files : FileOK(f) => FileOK(f)'
    BY <2>1, QuietStep
  <2>5. \A q \in Terminals : AloneOK(q) => AloneOK(q)'
    BY <2>1, QuietStep DEF AloneOK
  <2>6. Alone => Alone'
    BY <2>1 DEF Alone, Applying
  <2> QED
    BY <2>1, <2>2, <2>3, <2>4, <2>5, <2>6, <1>a DEF ProposalInv
<1> QED
  BY <1>1, <1>2, <1>3 DEF Next

\* The invariant holds of every reachable state.
THEOREM ProposalInvariant == Spec => []ProposalInv
BY ProposalInit, ProposalStep, PTL DEF Spec

\* Rows, files, backups and recorded hashes are of their types, and a command
\* has a proposal exactly while it runs (agent/execution/, tools/apply_patch.py).
THEOREM ProposalTypeCorrect == Spec => []TypeOK
<1>1. ProposalInv => TypeOK
  BY DEF ProposalInv, TypesOK, CallOK, TypeOK
<1> QED
  BY <1>1, ProposalInvariant, PTL

\* What others wrote last is in the file or in its backup, through any failure,
\* crash and rollback of an application (patch_applier.py,
\* rollback_applied_backups), any use of `agent rollback` (agent_run_cmd.py) and
\* any tool call of an agent, but where others wrote while an application held the
\* file, two applications overlapped or one patched a torn file, that command met
\* an application or a backup that is not of the text, or a tool call broke off
\* in the middle of an application or on a torn file.
THEOREM TextIsKept == Spec => []TextKept
<1>1. ProposalInv => TextKept
  <2> SUFFICES ASSUME ProposalInv, NEW f \in Files, f \notin raced, ~blurred
               PROVE  files[f].text = latest[f] \/ (bak[f] # None /\ bak[f].text = latest[f])
    BY DEF TextKept
  <2>1. files[f].text \in {-1, latest[f]} /\ Shown(f).text = latest[f]
    BY DEF ProposalInv, FileOK
  <2>2. Shown(f) = files[f] \/ (bak[f] # None /\ Shown(f) = bak[f])
    BY DEF Shown
  <2> QED
    BY <2>1, <2>2
<1> QED
  BY <1>1, ProposalInvariant, PTL

\* An application that says it failed has left every file it backed up as it was,
\* but for those something else (`agent rollback` too) wrote since, or whose
\* writing broke off: however many applications run at once (apply_patch.py and
\* rollback_applied_backups).
THEOREM FailureIsUndone == Spec => []FailureUndone
<1>1. ProposalInv => FailureUndone
  BY DEF ProposalInv, OwnOK, FailureUndone
<1> QED
  BY <1>1, ProposalInvariant, PTL

\* A row that says executed is true of every file of the proposal, until others
\* or `agent rollback` take the patch away, which leave the row (execute_proposal,
\* mark_executed, agent_run_cmd.py); the exceptions are those of TextIsKept.
THEOREM ExecutedIsTrue == Spec => []ExecutedIsApplied
<1>1. ProposalInv => ExecutedIsApplied
  <2> SUFFICES ASSUME ProposalInv, NEW i \in Proposals, row[i] = "executed", ~blurred,
                      NEW k \in 1 .. Len(Changes[i])
               PROVE  \/ i \in Shown(Changes[i][k]).patches
                      \/ <<i, Changes[i][k]>> \in undone \/ Changes[i][k] \in raced
    BY DEF ExecutedIsApplied
  <2>1. Changes[i][k] \in Files
    BY ChangesAreFiles
  <2>2. FileOK(Changes[i][k])
    BY <2>1 DEF ProposalInv
  <2> QED
    BY <2>2 DEF FileOK, Tells
<1> QED
  BY <1>1, ProposalInvariant, PTL
=============================================================================
