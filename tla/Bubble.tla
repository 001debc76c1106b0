------------------------------- MODULE Bubble -------------------------------
(***************************************************************************)
(* The bubble (ui/bubble.py, run by cli/bubble_cmd.py) and the action      *)
(* layer whose announcements it shows (action_layer/executor.py over       *)
(* core/events.py).  Four threads write one `state`, with no lock: the tk  *)
(* thread, the one worker it may start, the thread that loads the speech   *)
(* model, and the thread that publishes announcements.                     *)
(*                                                                         *)
(* Abstracted: windows, positions, levels, texts; a reply is failed, empty *)
(* or a text, and an action is the span between its two announcements.     *)
(***************************************************************************)
EXTENDS Sequences, Naturals

CONSTANTS
  QueueSize,   \* ANNOUNCE_QUEUE_SIZE = 64
  NoEvent

ASSUME QueueAssumption == QueueSize \in Nat \ {0}

VARIABLES
  state,       \* BubbleState
  worker,      \* where the worker stands; "none": _bubble_busy is False
  warming,     \* the speech model is being loaded
  tk,          \* "interrupt" between interrupt_speech's look and its write
  queue,       \* _ANNOUNCE_QUEUE
  note,        \* the announcement being published, as it stands
  watching,    \* subscribed to the bus (until the window is closed)
  collapsed,   \* the panel is hidden
  unread,      \* the orb's ring for a reply nobody encountered
  spoken,      \* what _speak returned
  acting,      \* an action is being performed
  \* history
  seen,        \* the last reply was visible or was heard
  dropped,     \* an announcement was dropped
  overtaken,   \* a callback wrote over a state it had not looked at
  broke        \* a transcription raised

threads == <<worker, warming, tk, note>>
panel == <<watching, collapsed, unread>>
history == <<seen, dropped, overtaken, broke>>
bubbleVars == <<state, worker, warming, tk, queue, note, watching, collapsed, unread,
                spoken, acting, seen, dropped, overtaken, broke>>

States == {"loading", "idle", "recording", "transcribing", "thinking",
           "executing", "speaking", "success", "error"}

\* STATES_THAT_REFUSE_A_HOLD
Refusing == {"loading", "recording", "transcribing", "thinking", "executing"}

Events == {"tool_call_start", "tool_call_end"}

ASSUME NoEventAssumption == NoEvent \notin Events

NoNote == [event |-> NoEvent, at |-> "idle", looked |-> "idle"]

\* The bubble after start().
BubbleInit == /\ state = "loading"
              /\ worker = "none"
              /\ warming = TRUE
              /\ tk = "idle"
              /\ queue = <<>>
              /\ note = NoNote
              /\ watching = TRUE
              /\ collapsed \in BOOLEAN
              /\ unread = FALSE
              /\ spoken = FALSE
              /\ acting = FALSE
              /\ seen = TRUE
              /\ dropped = FALSE
              /\ overtaken = FALSE
              /\ broke = FALSE

\* The worker goes from one place to another and enters a state on the way.
Works(from, to, s) ==
  /\ worker = from
  /\ worker' = to
  /\ state' = s
  /\ UNCHANGED <<warming, tk, note, panel, acting, queue, dropped, overtaken>>

(***************************************************************************)
(* The tk thread.                                                          *)
(***************************************************************************)
\* _run_off_thread: one job at a time.
StartJob(job) ==
  /\ watching /\ tk = "idle"
  /\ worker = "none"
  /\ worker' = job
  /\ UNCHANGED <<state, warming, tk, note, queue, panel, spoken, acting, history>>

Collapse == /\ watching /\ tk = "idle" /\ ~collapsed
            /\ collapsed' = TRUE
            /\ UNCHANGED <<state, threads, queue, watching, unread, spoken, acting, history>>

Expand == /\ watching /\ tk = "idle" /\ collapsed
          /\ collapsed' = FALSE
          /\ unread' = FALSE
          /\ seen' = TRUE
          /\ UNCHANGED <<state, threads, queue, watching, spoken, acting,
                         dropped, overtaken, broke>>

\* interrupt_speech stops the speaker and looks whether the bubble speaks ...
Interrupt == /\ watching /\ tk = "idle" /\ state = "speaking"
             /\ tk' = "interrupt"
             /\ UNCHANGED <<state, worker, warming, note, queue, panel, spoken,
                            acting, history>>

\* ... and says standby.
Interrupted == /\ tk = "interrupt"
               /\ tk' = "idle"
               /\ state' = "idle"
               /\ UNCHANGED <<worker, warming, note, queue, panel, spoken,
                              acting, history>>

\* stop: unwatch_actions, and the windows close.
Close == /\ watching /\ tk = "idle"
         /\ watching' = FALSE
         /\ UNCHANGED <<state, threads, queue, collapsed, unread, spoken,
                        acting, history>>

\* The model is loaded, or not, whatever the bubble does by then.
Warmed(ready) ==
  /\ warming
  /\ warming' = FALSE
  /\ state' = IF ready THEN "idle" ELSE "error"
  /\ UNCHANGED <<worker, tk, note, queue, panel, spoken, acting, history>>

(***************************************************************************)
(* A hold, on the worker.                                                  *)
(***************************************************************************)
HoldRefused == Works("hold", "done", state)
               /\ state \in Refusing
               /\ UNCHANGED <<spoken, seen, broke>>

\* (A bubble that speaks is interrupted first: but the worker is what speaks.)
HoldStarts == Works("hold", "record", "recording")
              /\ state \notin Refusing
              /\ UNCHANGED <<spoken, seen, broke>>

NoCapture == Works("hold", "done", "error")
             /\ state \notin Refusing
             /\ UNCHANGED <<spoken, seen, broke>>

Recorded(outcome) ==
  /\ CASE outcome = "raised" -> Works("record", "done", "error")
       [] outcome = "tap"    -> Works("record", "done", "idle")
       [] outcome = "held"   -> Works("record", "transcribe", "transcribing")
  /\ UNCHANGED <<spoken, seen, broke>>

\* An exception of bridge.transcribe ends the worker, which swallows it.
Transcribed(outcome) ==
  /\ CASE outcome = "raised" -> Works("transcribe", "done", state)
       [] outcome = "empty"  -> Works("transcribe", "done", "idle")
       [] outcome = "text"   -> Works("transcribe", "submit", state)
  /\ broke' = (broke \/ outcome = "raised")
  /\ UNCHANGED <<spoken, seen>>

(***************************************************************************)
(* submit, typed or after a hold.                                          *)
(***************************************************************************)
Think == Works("submit", "send", "thinking") /\ UNCHANGED <<spoken, seen, broke>>

\* Mutant of Announce: a plain put, which waits for room.
AnnounceWaiting(event) ==
  /\ Len(queue) < QueueSize
  /\ queue' = Append(queue, event)
  /\ UNCHANGED dropped

\* put_nowait: what does not fit is dropped.
Announce(event) ==
  /\ queue' = IF Len(queue) < QueueSize THEN Append(queue, event) ELSE queue
  /\ dropped' = (dropped \/ Len(queue) >= QueueSize)

\* execute: a request that is unknown, invalid, refused or declined returns
\* before this and announces nothing, so it is no step here.
ActionStarts ==
  /\ worker = "send" /\ ~acting
  /\ acting' = TRUE
  /\ Announce("tool_call_start")
  /\ UNCHANGED <<state, threads, panel, spoken, seen, overtaken, broke>>

\* Mutant of ActionEnds: the end is announced on the way out of a success.
ActionEndsWell(outcome) ==
  /\ worker = "send" /\ acting
  /\ acting' = FALSE
  /\ IF outcome = "returned" THEN Announce("tool_call_end")
                             ELSE UNCHANGED <<queue, dropped>>
  /\ UNCHANGED <<state, threads, panel, spoken, seen, overtaken, broke>>

\* `finally`: whether _call returned or raised.
ActionEnds(outcome) ==
  /\ worker = "send" /\ acting
  /\ acting' = FALSE
  /\ Announce("tool_call_end")
  /\ UNCHANGED <<state, threads, panel, spoken, seen, overtaken, broke>>

\* Mutant of Reply: standby only if there is something to show.
ReplyShown(outcome) ==
  /\ ~acting
  /\ CASE outcome = "failed" -> Works("send", "done", "error")
       [] outcome = "empty"  -> Works("send", "done", state)
       [] outcome = "text"   -> Works("send", "speak", "idle")
  /\ seen' = IF outcome = "text" THEN ~collapsed ELSE seen
  /\ spoken' = FALSE
  /\ UNCHANGED broke

\* bridge.send never raises.  An empty reply has nothing to be spoken or read.
Reply(outcome) ==
  /\ ~acting
  /\ CASE outcome = "failed" -> Works("send", "done", "error")
       [] outcome = "empty"  -> Works("send", "finish", "idle")
       [] outcome = "text"   -> Works("send", "speak", "idle")
  /\ seen' = IF outcome = "text" THEN ~collapsed ELSE seen
  /\ spoken' = FALSE
  /\ UNCHANGED broke

(***************************************************************************)
(* _speak, for a reply and for "read", and what submit does after it.      *)
(***************************************************************************)
DoNotSpeak(from, to) == Works(from, to, state) /\ UNCHANGED <<spoken, seen, broke>>

Speak(from, to) == Works(from, to, "speaking") /\ UNCHANGED <<spoken, seen, broke>>

\* Mutant of Spoken: an engine that fell back to printing counts as spoken.
SpokenAnyhow(from, to, aloud) ==
  /\ Works(from, to, IF state = "speaking" THEN "idle" ELSE state)
  /\ spoken' = TRUE
  /\ seen' = (seen \/ aloud)
  /\ UNCHANGED broke

\* The engine spoke, or raised or only printed.  The look at the state and the
\* write are one step: both of its writers write the same.
Spoken(from, to, aloud) ==
  /\ Works(from, to, IF state = "speaking" THEN "idle" ELSE state)
  /\ spoken' = aloud
  /\ seen' = (seen \/ aloud)
  /\ UNCHANGED broke

\* completed_an_operation turns the orb green.
Succeed(from) == Works(from, IF from = "mark" THEN "mark_checked" ELSE "done",
                       "success")
                 /\ UNCHANGED <<spoken, seen, broke>>
NoSuccess(from) == Works(from, IF from = "mark" THEN "mark_checked" ELSE "done",
                         state)
                   /\ UNCHANGED <<spoken, seen, broke>>

NothingToMark == Works("mark_checked", "done", state)
                 /\ (collapsed => spoken)
                 /\ UNCHANGED <<spoken, seen, broke>>
ToMark == Works("mark_checked", "mark_unread", state)
          /\ collapsed /\ ~spoken
          /\ UNCHANGED <<spoken, seen, broke>>

MarkUnread ==
  /\ worker = "mark_unread"
  /\ worker' = "done"
  /\ unread' = TRUE
  /\ UNCHANGED <<state, warming, tk, note, queue, watching, collapsed, spoken,
                 acting, history>>

\* The worker's `finally` clears the flag.
JobEnds ==
  /\ worker = "done"
  /\ worker' = "none"
  /\ UNCHANGED <<state, warming, tk, note, queue, panel, spoken, acting, history>>

(***************************************************************************)
(* The announcement thread, and the bubble's two callbacks on it.          *)
(***************************************************************************)
Take == /\ note = NoNote
        /\ queue # <<>>
        /\ note' = [NoNote EXCEPT !.event = Head(queue), !.at = "publish"]
        /\ queue' = Tail(queue)
        /\ UNCHANGED <<state, worker, warming, tk, panel, spoken, acting, history>>

\* What each callback screens the current state for, and what it enters.
Screen == [tool_call_start |-> {"thinking", "executing"},
           tool_call_end   |-> {"executing"}]
Enters == [tool_call_start |-> "executing", tool_call_end |-> "thinking"]

Ignore == /\ note.at = "publish"
          /\ ~watching \/ state \notin Screen[note.event]
          /\ note' = NoNote
          /\ UNCHANGED <<state, worker, warming, tk, queue, panel, spoken,
                         acting, history>>

Heed == /\ note.at = "publish"
        /\ watching /\ state \in Screen[note.event]
        /\ note' = [note EXCEPT !.at = "enter", !.looked = state]
        /\ UNCHANGED <<state, worker, warming, tk, queue, panel, spoken,
                       acting, history>>

Enter == /\ note.at = "enter"
         /\ state' = Enters[note.event]
         /\ overtaken' = (overtaken \/ state # note.looked)
         /\ note' = NoNote
         /\ UNCHANGED <<worker, warming, tk, queue, panel, spoken, acting,
                        seen, dropped, broke>>

Jobs == {"hold", "submit", "read"}

Tk == \/ \E job \in Jobs : StartJob(job)
      \/ Collapse \/ Expand \/ Interrupt \/ Interrupted \/ Close

Work ==
  \/ HoldRefused \/ HoldStarts \/ NoCapture
  \/ \E o \in {"raised", "tap", "held"} : Recorded(o)
  \/ \E o \in {"raised", "empty", "text"} : Transcribed(o)
  \/ Think \/ ActionStarts
  \/ \E o \in {"returned", "raised"} : ActionEnds(o)
  \/ \E o \in {"failed", "empty", "text"} : Reply(o)
  \/ DoNotSpeak("speak", "mark") \/ DoNotSpeak("read", "done")
  \/ Speak("speak", "speaking") \/ Speak("read", "reading")
  \/ \E aloud \in BOOLEAN : \/ Spoken("speaking", "mark", aloud)
                            \/ Spoken("reading", "done", aloud)
  \/ \E from \in {"mark", "finish"} : Succeed(from) \/ NoSuccess(from)
  \/ NothingToMark \/ ToMark \/ MarkUnread
  \/ JobEnds

Announcing == Take \/ Ignore \/ Heed \/ Enter

BubbleNext == Tk \/ Work \/ Announcing \/ \E ready \in BOOLEAN : Warmed(ready)

\* The action returns and the worker goes on.  Nothing is assumed of the
\* thread that announces: one of its subscribers may never return.
BubbleFairness == WF_bubbleVars(Work)

BubbleSpec == BubbleInit /\ [][BubbleNext]_bubbleVars /\ BubbleFairness
-----------------------------------------------------------------------------
BubbleTypeOK == /\ state \in States
                /\ Len(queue) <= QueueSize
                /\ queue \in Seq(Events)
                /\ {watching, collapsed, unread, spoken, acting} \subseteq BOOLEAN

\* The bubble refuses a hold only while something is under way: no way out of a
\* job leaves it refusing for good (ui/bubble.py:112).  Two do, and both are
\* named here: a transcription that raises, and an announcement whose callback
\* wrote over the state that ended the request.
RefusesOnlyAtWork ==
  state \in Refusing =>
    worker # "none" \/ warming \/ broke \/ overtaken

\* "Purple means an automation is running, and only while one actually is"
\* (tests/ui/test_orb_executing_state.py:1), as far as announcements can keep
\* it: an orb that shows one is running, none is, has its end still to come.
EndStillToCome ==
  \/ note.event = "tool_call_end"
  \/ \E k \in 1..Len(queue) : queue[k] = "tool_call_end"
PurpleEnds ==
  state = "executing" /\ watching =>
    acting \/ EndStillToCome \/ dropped \/ overtaken

\* A reply that was neither on the screen nor heard has the orb's ring, however
\* the panel was opened and closed while it was spoken.
UnheardIsMarked == ~seen /\ worker = "none" => unread

\* "A stalled action is not" a cosmetic loss (action_layer/executor.py:690):
\* whatever the subscribers do, an action that was started ends.
ActionReturns == acting ~> ~acting
=============================================================================
