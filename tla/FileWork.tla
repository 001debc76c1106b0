------------------------------ MODULE FileWork ------------------------------
(***************************************************************************)
(* Commands on files, through the two doors the program has for them.      *)
(* FileAutomation (files/automation.py) sends copies and new folders       *)
(* through the AssistantKernel (kernel/assistant.py) with the tools of     *)
(* kernel/files.py: arguments are resolved into a snapshot, a policy       *)
(* decides on it, every stage is audited before the next, the executor     *)
(* compares the snapshot with what it finds and the verifier compares the  *)
(* result with both; files/kernel_adapter.py then words the answer, for    *)
(* which it looks at the files once more.  Everything else, and everything *)
(* that comes from the action layer or from pc_control, is done by         *)
(* FileExecutor (files/executor.py): one look, then the deed.              *)
(*                                                                         *)
(* Several callers and other programs work on one directory at once.  A    *)
(* file is known by its content, and its modification time goes with it;   *)
(* content 0 is a file somebody has opened for writing and not finished.   *)
(***************************************************************************)
EXTENDS Integers, FiniteSets

CONSTANTS Files,       \* the paths that files are at
          Folders,     \* the paths that new folders are asked for
          Callers,     \* the callers: chat, voice, the action layer
          Requests,    \* the commands that may be given
          Similar,     \* find_matches: the paths whose name a path's name matches
          MaxRequests, \* bound on the number of commands
          MaxContent   \* bound on the contents written

Paths == Files \cup Folders
Deeds == {"copy", "folder", "create", "move", "delete", "zip"}
\* asks: whether the caller passes a callback that asks the user, says yes to
\* everything (it was approved before), or has no way to ask.
Commands == [do : Deeds, src : Paths, dst : Paths, door : {"kernel", "executor"},
             asks : {"user", "approved", "never"}]

ASSUME FileAssumption ==
  /\ Files # {} /\ Files \cap Folders = {} /\ IsFiniteSet(Paths)
  /\ Requests # {} /\ Requests \subseteq Commands
  /\ \A r \in Requests : /\ r.door = "kernel" => r.do \in {"copy", "folder"}
                         /\ r.do = "folder" => r.dst \in Folders
                         /\ r.do # "folder" => r.src \in Files /\ r.dst \in Files
  /\ Similar \in [Files -> SUBSET Files]
  /\ MaxRequests \in Nat /\ MaxContent \in Nat \ {0}

VARIABLES fs,       \* what is at each path
          pc,       \* where each caller is
          call,     \* what each caller's call has seen and done
          requests, \* how many commands were given
          content   \* the last content that was written

fileVars == <<fs, pc, call, requests, content>>

Absent == [kind |-> "absent", data |-> 0]
File(v) == [kind |-> "file", data |-> v]
EmptyFolder == [kind |-> "folder", data |-> 0]
Entries == [kind : {"absent", "file", "folder"}, data : 0 .. MaxContent]
There(p) == fs[p].kind # "absent"
Children == {p \in Paths : There(p)}

\* from: the source as resolved; source, target, children: the kernel's snapshot;
\* result, completed: what its executor and its response said; answer: what the
\* caller is told.  History: free, whether the call's last look found nothing at
\* its destination; wrote, the call changed the files.
NoCall == [req |-> CHOOSE r \in Requests : TRUE, from |-> CHOOSE p \in Files : TRUE,
           source |-> Absent, target |-> Absent, children |-> {},
           result |-> "none", completed |-> FALSE, answer |-> "none",
           free |-> FALSE, wrote |-> FALSE]
Calls == [req : Requests, from : Files, source : Entries, target : Entries,
          children : SUBSET Paths,
          result : {"none", "blocked", "failed", "existed", "succeeded"},
          completed : BOOLEAN,
          answer : {"none", "handled", "error", "blocked", "unsupported", "ambiguous",
                    "needs_confirmation"},
          free : BOOLEAN, wrote : BOOLEAN]

FileInit == /\ fs \in [Paths -> {Absent, File(1)}] /\ content = 1
            /\ \A p \in Folders : fs[p] = Absent
            /\ pc = [c \in Callers |-> "idle"]
            /\ call = [c \in Callers |-> NoCall]
            /\ requests = 0
-----------------------------------------------------------------------------
Goto(c, l) == pc' = [pc EXCEPT ![c] = l]
Note(c, r) == call' = [call EXCEPT ![c] = r]

\* The call returns a to its caller, and all it knew is gone.
Answer(c, r, a) ==
  /\ Goto(c, "idle")
  /\ Note(c, [NoCall EXCEPT !.answer = a, !.wrote = r.wrote, !.result = r.result])

Put(p, e) == fs' = [fs EXCEPT ![p] = e]
NewContent == content < MaxContent /\ content' = content + 1

\* _resolve_existing, _resolve_copy_path_arguments: a name that is not there
\* stands for the one file whose name matches it.
Candidates(p) == IF There(p) THEN {p} ELSE {q \in Similar[p] : There(q)}
Resolved(p) == CHOOSE q \in Candidates(p) : TRUE

Command(c, r) ==
  /\ pc[c] = "idle" /\ requests < MaxRequests /\ requests' = requests + 1
  /\ Note(c, [NoCall EXCEPT !.req = r, !.from = IF r.src \in Files THEN r.src ELSE @])
  /\ Goto(c, IF r.door = "kernel" THEN "validate" ELSE "look")
  /\ UNCHANGED <<fs, content>>
-----------------------------------------------------------------------------
(* FileExecutor. *)
Taken(e) == e.kind # "absent"

\* What each deed looks at before it is done.
Look(c) ==
  LET r == call[c].req
      named == r.do \notin {"create", "folder"}
      q == IF named THEN Resolved(r.src) ELSE call[c].from
      seen == [call[c] EXCEPT !.from = q, !.free = ~There(r.dst)]
  IN /\ pc[c] = "look"
     /\ \/ /\ named /\ Cardinality(Candidates(r.src)) # 1
           /\ Answer(c, call[c], IF Candidates(r.src) = {} THEN "error" ELSE "ambiguous")
        \/ /\ named => Cardinality(Candidates(r.src)) = 1
           /\ \/ /\ r.do = "delete"
                 /\ \/ r.asks = "user" /\ Goto(c, "ask") /\ Note(c, seen)
                    \/ r.asks = "approved" /\ Goto(c, "act") /\ Note(c, seen)
                    \/ r.asks = "never" /\ Answer(c, seen, "needs_confirmation")
              \/ /\ r.do # "delete"
                 /\ IF Taken(fs[r.dst]) THEN Answer(c, seen, "needs_confirmation")
                                        ELSE Goto(c, "act") /\ Note(c, seen)
     /\ UNCHANGED <<fs, requests, content>>

\* The user is shown the path as it was resolved.
Confirm(c, yes) ==
  /\ pc[c] = "ask"
  /\ IF yes THEN Goto(c, "act") /\ UNCHANGED call
            ELSE Answer(c, call[c], "needs_confirmation")
  /\ UNCHANGED <<fs, requests, content>>

Wrote(c) == [call[c] EXCEPT !.wrote = TRUE]

\* An OSError out of the deed.
Breaks(c) == Answer(c, call[c], "error") /\ UNCHANGED <<fs, content>>

Act(c) ==
  LET r == call[c].req
      s == call[c].from
  IN /\ pc[c] = "act" /\ r.door = "executor"
     /\ \/ Breaks(c)
        \/ /\ r.do = "delete" /\ There(s)
           /\ Put(s, Absent)
           /\ Answer(c, Wrote(c), "handled") /\ UNCHANGED content
        \/ /\ r.do = "move" /\ There(s)
           /\ fs' = [fs EXCEPT ![r.dst] = fs[s], ![s] = Absent]
           /\ Answer(c, Wrote(c), "handled") /\ UNCHANGED content
        \/ /\ r.do = "create" /\ NewContent
           /\ Put(r.dst, File(content'))
           /\ Answer(c, Wrote(c), "handled")
        \/ /\ r.do = "folder" /\ ~There(r.dst)
           /\ Put(r.dst, EmptyFolder)
           /\ Answer(c, Wrote(c), "handled") /\ UNCHANGED content
        \/ /\ r.do = "copy" /\ There(s)
           /\ Put(r.dst, File(0))
           /\ Goto(c, "fill") /\ Note(c, Wrote(c)) /\ UNCHANGED content
        \/ /\ r.do = "zip"
           /\ Put(r.dst, File(0))
           /\ Goto(c, "fill") /\ Note(c, Wrote(c)) /\ UNCHANGED content
     /\ UNCHANGED requests

\* The rest of a copy or of an archive; an exception leaves what was written.  If
\* somebody wrote to the destination meanwhile, what ends up there may be either.
Fill(c) ==
  LET r == call[c].req
      s == call[c].from
      fill(e) == Put(r.dst, e) \/ (fs[r.dst] # File(0) /\ UNCHANGED fs)
      end(result, answer) ==
        IF r.door = "kernel"
        THEN Goto(c, "finished") /\ Note(c, [call[c] EXCEPT !.result = result])
        ELSE Answer(c, call[c], answer)
  IN /\ pc[c] = "fill"
     /\ \/ /\ There(s) /\ end("succeeded", "handled")
           /\ \/ r.do = "copy" /\ fill(fs[s]) /\ UNCHANGED content
              \/ r.do = "zip" /\ NewContent /\ fill(File(content'))
        \/ end("failed", "error") /\ UNCHANGED <<fs, content>>
     /\ UNCHANGED requests
-----------------------------------------------------------------------------
(* AssistantKernel.handle, with the tools of kernel/files.py. *)
\* The kernel's own failure: whatever raised, the response says failed.  Writing
\* an audit event raises when a subscriber of the event bus does.
Fails(c) == Goto(c, "translate") /\ UNCHANGED call

\* resolve, validate_arguments.
Validate(c) ==
  LET r == call[c].req
      snapshot(q) == [call[c] EXCEPT !.from = q, !.source = fs[q], !.target = fs[r.dst],
                                     !.children = Children, !.free = ~There(r.dst)]
  IN /\ pc[c] = "validate"
     /\ \/ Fails(c)
        \/ /\ r.do = "copy"
           /\ Cardinality(Candidates(r.src)) = 1 /\ Resolved(r.src) # r.dst
           /\ Note(c, snapshot(Resolved(r.src))) /\ Goto(c, "authorize")
        \/ /\ r.do = "folder"
           /\ Note(c, snapshot(call[c].from)) /\ Goto(c, "authorize")
     /\ UNCHANGED <<fs, requests, content>>

\* The policy, which refuses a copy onto something, and EXECUTION_STARTED.
Authorize(c) ==
  /\ pc[c] = "authorize"
  /\ \/ Fails(c)
     \/ IF call[c].req.do = "copy" /\ call[c].target # Absent
        THEN Goto(c, "translate") /\ Note(c, [call[c] EXCEPT !.result = "blocked"])
        ELSE Goto(c, "execute") /\ UNCHANGED call
  /\ UNCHANGED <<fs, requests, content>>

\* Mutant of Unchanged: only the source is compared with the snapshot.
UnchangedSource(c) == fs[call[c].from] = call[c].source

\* _validate_copy_boundary.
Unchanged(c) == /\ fs[call[c].from] = call[c].source
                /\ ~There(call[c].req.dst)
                /\ Children = call[c].children

\* The executor's own look, before it copies; a folder it makes without.
Execute(c) ==
  LET r == call[c].req
      result(v) == Goto(c, "finished") /\ Note(c, [call[c] EXCEPT !.result = v])
  IN /\ pc[c] = "execute"
     /\ \/ /\ r.do = "copy"
           /\ IF Unchanged(c)
              THEN Goto(c, "act") /\ Note(c, [call[c] EXCEPT !.free = ~There(r.dst)])
              ELSE Goto(c, "translate") /\ Note(c, [call[c] EXCEPT !.result = "failed"])
           /\ UNCHANGED fs
        \/ /\ r.do = "folder" /\ call[c].target # Absent
           /\ result("existed") /\ UNCHANGED fs
        \/ /\ r.do = "folder" /\ call[c].target = Absent
           /\ \/ result("failed") /\ UNCHANGED fs
              \/ /\ ~There(r.dst) /\ Put(r.dst, EmptyFolder)
                 /\ Goto(c, "finished")
                 /\ Note(c, [Wrote(c) EXCEPT !.result = "succeeded"])
     /\ UNCHANGED <<requests, content>>

\* shutil.copy2.
CopyFile(c) ==
  /\ pc[c] = "act" /\ call[c].req.door = "kernel"
  /\ \/ /\ Goto(c, "finished") /\ Note(c, [call[c] EXCEPT !.result = "failed"])
        /\ UNCHANGED fs
     \/ /\ There(call[c].from) /\ Put(call[c].req.dst, File(0))
        /\ Goto(c, "fill") /\ Note(c, Wrote(c))
  /\ UNCHANGED <<requests, content>>

\* EXECUTION_FINISHED, and what follows a result that is not a success.
Finished(c) == /\ pc[c] = "finished"
               /\ \/ Fails(c)
                  \/ /\ call[c].result \in {"succeeded", "existed"}
                     /\ Goto(c, "verify") /\ UNCHANGED call
               /\ UNCHANGED <<fs, requests, content>>

\* CopyPathVerifier, CreateFolderVerifier.
Verified(c) ==
  LET r == call[c].req
      d == fs[r.dst]
      alone == Children = call[c].children \cup {r.dst}
  IN CASE r.do = "copy" -> fs[call[c].from] = call[c].source /\ d = call[c].source /\ alone
       [] call[c].result = "existed" -> d.kind = call[c].target.kind
       [] OTHER -> d = EmptyFolder /\ alone

\* The verification, the memory and REQUEST_COMPLETED.
Complete(c) == /\ pc[c] = "verify"
               /\ \/ Fails(c)
                  \/ /\ Verified(c) /\ Goto(c, "translate")
                     /\ Note(c, [call[c] EXCEPT !.completed = TRUE])
               /\ UNCHANGED <<fs, requests, content>>

\* Mutant of CopyAnswer: the files are looked at before the result is.
CopyAnswerByLook(c) ==
  CASE call[c].completed -> "handled"
    [] Candidates(call[c].req.src) = {} -> "error"
    [] Cardinality(Candidates(call[c].req.src)) > 1 -> "ambiguous"
    [] Resolved(call[c].req.src) = call[c].req.dst -> "unsupported"
    [] There(call[c].req.dst) -> "needs_confirmation"
    [] OTHER -> IF call[c].result = "blocked" THEN "blocked" ELSE "error"

\* _translate_copy, _copy_compatibility: a copy that failed is worded by what is
\* found at its paths now.
CopyAnswer(c) ==
  LET r == call[c].req
  IN CASE call[c].result = "succeeded" -> IF call[c].completed THEN "handled" ELSE "error"
       [] call[c].result # "succeeded" /\ Candidates(r.src) = {} -> "error"
       [] call[c].result # "succeeded" /\ Cardinality(Candidates(r.src)) > 1 -> "ambiguous"
       [] OTHER ->
            IF Resolved(r.src) = r.dst THEN "unsupported"
            ELSE IF There(r.dst) THEN "needs_confirmation"
            ELSE IF call[c].result = "blocked" THEN "blocked" ELSE "error"

\* _translate_create_folder.
FolderAnswer(c) ==
  IF ~call[c].completed THEN "error"
  ELSE IF call[c].result = "existed" THEN "needs_confirmation" ELSE "handled"

Translate(c) ==
  /\ pc[c] = "translate"
  /\ Answer(c, call[c], IF call[c].req.do = "copy" THEN CopyAnswer(c) ELSE FolderAnswer(c))
  /\ UNCHANGED <<fs, requests, content>>
-----------------------------------------------------------------------------
(* Other programs, and the end of a caller's process. *)
OtherWrites(p) == /\ NewContent
                  /\ \/ p \in Files /\ Put(p, File(content'))
                     \/ /\ p \in Folders
                        /\ Put(p, [kind |-> "folder",
                                   data |-> IF There(p) THEN content' ELSE 0])
                  /\ UNCHANGED <<pc, call, requests>>

OtherDeletes(p) == /\ There(p) /\ Put(p, Absent)
                   /\ UNCHANGED <<pc, call, requests, content>>

Dies(c) == /\ pc[c] # "idle" /\ Goto(c, "idle") /\ Note(c, NoCall)
           /\ UNCHANGED <<fs, requests, content>>

Call(c) == \/ \E r \in Requests : Command(c, r)
           \/ Look(c) \/ \E yes \in BOOLEAN : Confirm(c, yes)
           \/ Act(c) \/ Fill(c)
           \/ Validate(c) \/ Authorize(c) \/ Execute(c) \/ CopyFile(c) \/ Finished(c)
           \/ Complete(c) \/ Translate(c)

FileNext == \/ \E c \in Callers : Call(c) \/ Dies(c)
            \/ \E p \in Paths : OtherWrites(p) \/ OtherDeletes(p)

FileSpec == FileInit /\ [][FileNext]_fileVars
-----------------------------------------------------------------------------
FileTypeOK == /\ fs \in [Paths -> Entries]
              /\ pc \in [Callers -> {"idle", "look", "ask", "act", "fill", "validate",
                                     "authorize", "execute", "finished", "verify", "translate"}]
              /\ call \in [Callers -> Calls]
              /\ requests \in 0 .. MaxRequests /\ content \in 0 .. MaxContent

\* No deed of the program's costs anybody a file they were not asked about: what
\* it removes or replaces is what it was to delete or to move, as its name was
\* resolved and shown to the user (where it was approved before, nobody is shown
\* what the name resolves to), or appeared at its destination after it had last
\* looked there.  Through both doors, against other calls and other programs.
NothingLostUnasked ==
  [][\A c \in Callers, p \in Paths :
       pc'[c] # pc[c] /\ There(p) /\ fs'[p] # fs[p] =>
         \/ call[c].req.do \in {"delete", "move"} /\ p = call[c].from
         \/ p = call[c].req.dst /\ call[c].free]_fileVars

\* The answer agrees with what was done, whatever failed on the way and whatever
\* the files look like by then: "handled" is said of a deed that was done, and
\* what asks back, refuses or does not understand has changed nothing, except
\* for the remains of a copy that broke off, which are taken for the user's own.
SaysWhatItDid ==
  \A c \in Callers :
    /\ call[c].answer = "handled" => call[c].wrote
    /\ call[c].answer \in {"needs_confirmation", "unsupported", "ambiguous", "blocked"} =>
         ~call[c].wrote \/ call[c].result = "failed"
=============================================================================
