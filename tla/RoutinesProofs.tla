--------------------------- MODULE RoutinesProofs ---------------------------
(***************************************************************************)
(* The four properties of the routines and recurring reminders, for any    *)
(* number of rows, processes, callers and any limits.                      *)
(*                                                                         *)
(* RunningIsRun and EditsKept need little more than types.  LostOnlyByCut  *)
(* is a count: each claim is told or is in the hand of exactly one tick,   *)
(* which a second claim by the same tick could break were its two SELECTs  *)
(* not of different tables.  RepeatedOnlyIfOvertaken is about order in     *)
(* time: a next run, in a row or in a write being prepared, is later than  *)
(* every claim that no overtaken write accounts for.                       *)
(***************************************************************************)
EXTENDS Routines, FiniteSetTheorems, TLAPS

-----------------------------------------------------------------------------
(***************************************************************************)
(* The inductive invariant.                                                *)
(***************************************************************************)
\* What a tick holds, by where it stands: it reads the reminders' table and
\* then the routines', so it never claims an item that it already holds.
RunnerOK(r) ==
  /\ pc[r] \in {"idle", "claim_reminders", "routines", "claim_routines", "deliver"}
  /\ at[r] \in Nat /\ at[r] <= now
  /\ DOMAIN picked[r] \subseteq Items
  /\ \A i \in DOMAIN picked[r] : picked[r][i] \in Times /\ picked[r][i] <= at[r]
  /\ DOMAIN hand[r] \subseteq Items
  /\ \A i \in DOMAIN hand[r] : hand[r][i] \in Times
  /\ busy[r] \in Routines \cup {None}
  /\ pc[r] \in {"idle", "routines", "deliver"} => DOMAIN picked[r] = {}
  /\ pc[r] \in {"idle", "claim_reminders"} => DOMAIN hand[r] = {}
  /\ pc[r] \in {"routines", "claim_routines"} => DOMAIN hand[r] \subseteq Reminders
  /\ pc[r] = "claim_reminders" => DOMAIN picked[r] \subseteq Reminders
  /\ pc[r] = "claim_routines" => DOMAIN picked[r] \subseteq Routines

\* A row to be written: one that is enabled and scheduled has a next run.
EditOK(c) ==
  \/ edit[c] = NoEdit
  \/ /\ edit[c] \in [id : Routines, enabled : BOOLEAN, next : Times \cup {None}]
     /\ edit[c].enabled /\ edit[c].id \in Daily => edit[c].next # None

TypesOK ==
  /\ rows \in [Items -> Row]
  /\ now \in 0..MaxTime
  /\ claims \in [Items -> [Times -> Nat]]
  /\ told \in [Items -> [Times -> Nat]]
  /\ overtaken \in [Items -> Nat]
  /\ wanted \in [Items -> BOOLEAN]
  /\ cuts \in Nat
  /\ DOMAIN pc = Runners
  /\ DOMAIN at = Runners /\ DOMAIN picked = Runners /\ DOMAIN hand = Runners
  /\ DOMAIN busy = Runners /\ DOMAIN edit = Callers

\* What is not there has no next run; only reminders are deleted.
GoneHasNoNext ==
  \A i \in Items :
    /\ rows[i].status = "absent" => rows[i] = Absent
    /\ rows[i].status = "deleted" => i \in Reminders /\ rows[i].next = None

\* What was claimed was told or is held, by each tick once.
Counted ==
  \A i \in Items, t \in Times :
    /\ told[i][t] + Cardinality(Holders(i, t)) <= claims[i][t]
    /\ cuts = 0 => claims[i][t] = told[i][t] + Cardinality(Holders(i, t))

\* The claims of run times from n on are accounted for by overtaken writes.
FreeFrom(i, n) == \A t \in Times : t >= n => claims[i][t] <= overtaken[i]

ClaimsOK ==
  \A i \in Items, t \in Times :
    /\ claims[i][t] > 0 => t <= now
    /\ claims[i][t] <= 1 + overtaken[i]
NextIsFree == \A i \in Items : rows[i].next # None => FreeFrom(i, rows[i].next)
PickIsNext ==
  \A r \in Runners : \A i \in DOMAIN picked[r] :
    <<r, i>> \in late \/ rows[i].next = picked[r][i]
EditIsFree ==
  \A c \in Callers :
    \/ edit[c].next = None
    \/ <<c, edit[c].id>> \in late
    \/ FreeFrom(edit[c].id, edit[c].next)

OnceOK == ClaimsOK /\ NextIsFree /\ PickIsNext /\ EditIsFree

Base == /\ TypesOK
        /\ \A r \in Runners : RunnerOK(r)
        /\ \A c \in Callers : EditOK(c)
        /\ GoneHasNoNext

RoutineInv == Base /\ RunningIsRun /\ EditsKept /\ Counted /\ OnceOK
-----------------------------------------------------------------------------
(***************************************************************************)
(* A next run lies after the time it is computed from.                     *)
(***************************************************************************)
LEMMA DayEnds ==
  ASSUME NEW t \in Nat, NEW d \in Nat \ {0}
  PROVE  /\ (t \div d + 1) * d \in Nat
         /\ (t \div d + 1) * d > t
         /\ (t \div d + 1) * d <= t + d
OBVIOUS

LEMMA NextRunIsLater ==
  ASSUME NEW i \in Items, NEW t \in 0..MaxTime
  PROVE  /\ NextRun(i, t) # None => NextRun(i, t) \in Times /\ NextRun(i, t) > t
         /\ i \in Daily \cup Reminders => NextRun(i, t) # None
<1> USE BoundsAssumption
<1>1. Day \in Nat \ {0} /\ MaxTime \in Nat /\ t \in Nat /\ None \notin Nat
  OBVIOUS
<1>2. /\ NextDaily(t) \in Nat
      /\ NextDaily(t) > t
      /\ NextDaily(t) <= t + Day
  BY <1>1, DayEnds DEF NextDaily
<1>3. NextDaily(t) \in Times /\ t + 1 \in Times
  BY <1>1, <1>2 DEF Times
<1> QED
  BY <1>1, <1>2, <1>3 DEF NextRun

LEMMA RunTimesAreTimes == Times \subseteq Nat /\ None \notin Times /\ 0..MaxTime \subseteq Times
BY BoundsAssumption DEF Times

-----------------------------------------------------------------------------
(***************************************************************************)
(* Types, and what each tick and each edit holds.                          *)
(***************************************************************************)
LEMMA TypesInit == Init => Base
<1> SUFFICES ASSUME Init PROVE Base
  OBVIOUS
<1> USE BoundsAssumption, RunTimesAreTimes DEF Init
<1>1. TypesOK
  BY DEF TypesOK, Row, Absent, Times
<1>2. ASSUME NEW r \in Runners PROVE RunnerOK(r)
  BY DEF RunnerOK, Nothing
<1>3. ASSUME NEW c \in Callers PROVE EditOK(c)
  BY DEF EditOK
<1>4. GoneHasNoNext
  BY DEF GoneHasNoNext, Absent
<1> QED
  BY <1>1, <1>2, <1>3, <1>4 DEF Base

\* What an edit is about to write into a row.
LEMMA EditIsRow ==
  ASSUME Base, NEW c \in Callers, edit[c] # NoEdit
  PROVE  /\ edit[c].id \in Routines
         /\ edit[c].enabled \in BOOLEAN
         /\ edit[c].next \in Times \cup {None}
         /\ edit[c].enabled /\ edit[c].id \in Daily => edit[c].next # None
BY DEF Base, EditOK

\* A tick moves the next run of what it claimed on, from its own clock.
LEMMA ClaimMovesOn ==
  ASSUME Base, NEW r \in Runners, NEW i \in DOMAIN picked[r]
  PROVE  /\ i \in Items
         /\ at[r] \in 0..MaxTime /\ at[r] <= now
         /\ picked[r][i] \in Times /\ picked[r][i] <= at[r]
         /\ NextRun(i, at[r]) # None =>
              NextRun(i, at[r]) \in Times /\ NextRun(i, at[r]) > at[r]
         /\ i \in Daily \cup Reminders => NextRun(i, at[r]) # None
<1>1. /\ i \in Items /\ at[r] \in Nat /\ at[r] <= now /\ now \in 0..MaxTime
      /\ picked[r][i] \in Times /\ picked[r][i] <= at[r]
  BY DEF Base, RunnerOK, TypesOK
<1>2. at[r] \in 0..MaxTime
  BY <1>1, BoundsAssumption
<1> QED
  BY <1>1, <1>2, NextRunIsLater

LEMMA RowsStay ==
  ASSUME Base
  PROVE  Next => rows' \in [Items -> Row] /\ GoneHasNoNext'
<1> USE RunTimesAreTimes
<1> DEFINE Good(i, x) == /\ x \in Row
                         /\ x.status = "absent" => x = Absent
                         /\ x.status = "deleted" => i \in Reminders /\ x.next = None
           P == rows' \in [Items -> Row] /\ GoneHasNoNext'
<1>0. rows \in [Items -> Row] /\ \A i \in Items : Good(i, rows[i])
  BY DEF Base, TypesOK, GoneHasNoNext
<1>d. now \in 0..MaxTime /\ Routines \subseteq Items /\ Reminders \subseteq Items
  BY DEF Base, TypesOK, Items
<1>a. rows' = rows => P
  BY <1>0 DEF GoneHasNoNext
<1>c. ASSUME NEW i \in Items, NEW x, Good(i, x), rows' = [rows EXCEPT ![i] = x] PROVE P
  BY <1>0, <1>c DEF GoneHasNoNext
<1>s. ASSUME NEW i \in Items, NEW v, rows' = [rows EXCEPT ![i].status = v], v \in {"done", "running"}
      PROVE P
  <2>1. rows' = [rows EXCEPT ![i] = [rows[i] EXCEPT !.status = v]]
    BY <1>s
  <2>2. Good(i, [rows[i] EXCEPT !.status = v])
    BY <1>0, <1>s DEF Row
  <2> HIDE DEF Good, P
  <2> QED
    BY <2>1, <2>2, <1>c
<1>1. ASSUME NEW c \in Callers, Write(c) PROVE P
  <2> DEFINE e == edit[c]
             x == [status |-> IF rows[e.id] = Absent THEN "new" ELSE rows[e.id].status,
                   enabled |-> e.enabled, next |-> e.next]
  <2>1. e.id \in Routines /\ e.enabled \in BOOLEAN /\ e.next \in Times \cup {None}
    BY <1>1, EditIsRow DEF Write
  <2>2. rows' = [rows EXCEPT ![e.id] = x]
    BY <1>1, <2>1 DEF Write
  <2>3. rows[e.id].status \notin {"deleted"} /\ (rows[e.id].status = "absent" => rows[e.id] = Absent)
    BY <2>1, <1>0, ItemsAssumption DEF Items
  <2>4. x.status \notin {"absent", "deleted"} /\ x \in Row
    BY <2>1, <2>3, <1>0, <1>d DEF Row
  <2>5. Good(e.id, x)
    BY <2>4
  <2> HIDE DEF x, e, P, Good
  <2> QED
    BY <2>1, <2>2, <2>5, <1>c, <1>d
<1>2. ASSUME NEW i \in Reminders, AddReminder(i) PROVE P
  <2> DEFINE x == [status |-> "new", enabled |-> TRUE, next |-> NextRun(i, now)]
  <2>1. NextRun(i, now) \in Times \cup {None}
    BY <1>d, NextRunIsLater
  <2>2. Good(i, x)
    BY <2>1 DEF Row
  <2>3. rows' = [rows EXCEPT ![i] = x]
    BY <1>2 DEF AddReminder
  <2> HIDE DEF x, P, Good
  <2> QED
    BY <2>2, <2>3, <1>c, <1>d
<1>3. ASSUME NEW i \in Reminders, CancelReminder(i) PROVE P
  <2> DEFINE x == [rows[i] EXCEPT !.enabled = FALSE]
  <2>2. Good(i, x)
    BY <1>0, <1>d, <1>3 DEF Row, Absent, There, CancelReminder
  <2>3. rows' = [rows EXCEPT ![i] = x]
    BY <1>3 DEF CancelReminder
  <2> HIDE DEF x, P, Good
  <2> QED
    BY <2>2, <2>3, <1>c, <1>d
<1>4. ASSUME NEW i \in Reminders, DeleteReminder(i) PROVE P
  <2> DEFINE x == [Absent EXCEPT !.status = "deleted"]
  <2>2. Good(i, x)
    BY DEF Row, Absent
  <2>3. rows' = [rows EXCEPT ![i] = x]
    BY <1>4 DEF DeleteReminder
  <2> HIDE DEF x, P, Good
  <2> QED
    BY <2>2, <2>3, <1>c, <1>d
<1>5. ASSUME NEW r \in Runners, Claim(r) PROVE P
  <2>1. ASSUME NEW i \in DOMAIN picked[r] PROVE i \in Items /\ Good(i, Advanced(r, i))
    <3>1. i \in Items /\ NextRun(i, at[r]) \in Times \cup {None} /\ rows[i] \in Row
      BY ClaimMovesOn, <1>0
    <3> QED
      BY <3>1 DEF Advanced, Row
  <2>2. rows' = [i \in Items |-> IF i \in DOMAIN picked[r] /\ There(i)
                                 THEN Advanced(r, i) ELSE rows[i]]
    BY <1>5 DEF Claim
  <2>3. \A i \in Items : Good(i, rows'[i])
    BY <2>1, <2>2, <1>0
  <2>4. rows' \in [Items -> Row]
    BY <2>1, <2>2, <1>0
  <2> QED
    BY <2>3, <2>4 DEF GoneHasNoNext
<1>6. ASSUME NEW r \in Runners, NEW o, Complete(r, o) PROVE P
  <2>1. busy[r] \in Items
    BY <1>6 DEF Complete, Base, RunnerOK, Items
  <2> HIDE DEF P
  <2> QED
    BY <2>1, <1>6, <1>s DEF Complete
<1> HIDE DEF P
<1>7. \A c \in Callers, i \in Routines, on \in BOOLEAN : Prepare(c, i, on) => P
  BY <1>a DEF Prepare
<1>8. \A r \in Runners : \A S \in SUBSET Claimed(r) : Select(r, S) => P
  BY <1>a DEF Select
<1>9. \A r \in Runners : Claim(r) \/ EndTick(r) \/ CutShort(r) => P
  BY <1>a, <1>5 DEF EndTick, CutShort
<1>10. \A r \in Runners, i \in Reminders : Remind(r, i) => P
  BY <1>a DEF Remind
<1>11. \A r \in Runners, i \in Routines : RunRoutine(r, i) => P
  BY <1>a DEF RunRoutine
<1>12. PassTime => P
  BY <1>a DEF PassTime
<1>13. Next => P
  BY <1>1, <1>2, <1>3, <1>4, <1>6, <1>7, <1>8, <1>9, <1>10, <1>11, <1>12
     DEF Next, Step
<1> QED
  BY <1>13 DEF P

\* The counters of the history, the clock and the domains.
LEMMA CountersStay ==
  ASSUME Base
  PROVE  Next => TypesOK'
<1> USE RunTimesAreTimes
<1> DEFINE P == /\ now' \in 0..MaxTime
                /\ claims' \in [Items -> [Times -> Nat]]
                /\ told' \in [Items -> [Times -> Nat]]
                /\ overtaken' \in [Items -> Nat]
                /\ wanted' \in [Items -> BOOLEAN]
                /\ cuts' \in Nat
                /\ DOMAIN pc' = Runners /\ DOMAIN at' = Runners
                /\ DOMAIN picked' = Runners /\ DOMAIN hand' = Runners
                /\ DOMAIN busy' = Runners /\ DOMAIN edit' = Callers
<1>a. TypesOK /\ Routines \subseteq Items /\ Reminders \subseteq Items
  BY DEF Base, Items
<1>1. ASSUME NEW c \in Callers, NEW i \in Routines, NEW on \in BOOLEAN, Prepare(c, i, on) PROVE P
  BY <1>1, <1>a DEF Prepare, tick, TypesOK
<1>2. ASSUME NEW c \in Callers, Write(c) PROVE P
  <2>1. edit[c].id \in Items /\ edit[c].enabled \in BOOLEAN
    BY <1>2, EditIsRow, <1>a DEF Write
  <2> QED
    BY <1>2, <2>1, <1>a DEF Write, tick, TypesOK
<1>3. ASSUME NEW i \in Reminders, AddReminder(i) \/ CancelReminder(i) \/ DeleteReminder(i) PROVE P
  BY <1>3, <1>a DEF AddReminder, CancelReminder, DeleteReminder, tick, TypesOK
<1>4. ASSUME NEW r \in Runners, NEW S \in SUBSET Claimed(r), Select(r, S) PROVE P
  BY <1>4, <1>a DEF Select, TypesOK
<1>5. ASSUME NEW r \in Runners, Claim(r) PROVE P
  BY <1>5, <1>a DEF Claim, TypesOK
<1>6. ASSUME NEW r \in Runners, NEW i \in Items, Tell(r, i), i \in DOMAIN hand[r]
      PROVE  told' \in [Items -> [Times -> Nat]] /\ DOMAIN hand' = Runners
  <2>1. hand[r][i] \in Times
    BY <1>6 DEF Base, RunnerOK
  <2> DEFINE f == [told[i] EXCEPT ![hand[r][i]] = told[i][hand[r][i]] + 1]
  <2>2. f \in [Times -> Nat]
    <3>1. told[i] \in [Times -> Nat]
      BY <1>a DEF TypesOK
    <3>2. told[i][hand[r][i]] + 1 \in Nat
      <4>1. \A g \in [Times -> Nat], t \in Times : g[t] + 1 \in Nat
        OBVIOUS
      <4> QED
        BY <2>1, <3>1, <4>1, Zenon
    <3>3. \A g \in [Times -> Nat], t \in Times, n \in Nat : [g EXCEPT ![t] = n] \in [Times -> Nat]
      OBVIOUS
    <3> QED
      BY <2>1, <3>1, <3>2, <3>3, ZenonT(20)
  <2>3. told' = [told EXCEPT ![i] = f]
    BY <1>6 DEF Tell
  <2> HIDE DEF f
  <2> QED
    BY <1>6, <2>2, <2>3, <1>a DEF Tell, TypesOK
<1>7. ASSUME NEW r \in Runners, NEW i \in Reminders, Remind(r, i) PROVE P
  BY <1>7, <1>6, <1>a DEF Remind, TypesOK
<1>8. ASSUME NEW r \in Runners, NEW i \in Routines, RunRoutine(r, i) PROVE P
  BY <1>8, <1>6, <1>a DEF RunRoutine, TypesOK
<1>9. ASSUME NEW r \in Runners, NEW o, Complete(r, o) PROVE P
  BY <1>9, <1>a DEF Complete, TypesOK
<1>10. ASSUME NEW r \in Runners, EndTick(r) PROVE P
  BY <1>10, <1>a DEF EndTick, TypesOK
<1>11. ASSUME NEW r \in Runners, CutShort(r) PROVE P
  BY <1>11, <1>a DEF CutShort, TypesOK
<1>12. ASSUME PassTime PROVE P
  BY <1>12, <1>a, BoundsAssumption DEF PassTime, TypesOK, tick
<1> HIDE DEF P
<1>13. Next => P
  BY <1>1, <1>2, <1>3, <1>4, <1>5, <1>7, <1>8, <1>9, <1>10, <1>11, <1>12
     DEF Next, Step
<1> QED
  BY <1>13, RowsStay DEF P, TypesOK

LEMMA EditsStay ==
  ASSUME Base, NEW q \in Callers
  PROVE  Next => EditOK(q)'
<1> USE RunTimesAreTimes
<1> DEFINE P == EditOK(q)'
<1>a. EditOK(q) /\ now \in 0..MaxTime /\ Routines \subseteq Items /\ DOMAIN edit = Callers
  BY DEF Base, TypesOK, Items
<1>b. edit'[q] = edit[q] => P
  BY <1>a DEF EditOK, NoEdit
<1>1. ASSUME NEW c \in Callers, NEW i \in Routines, NEW on \in BOOLEAN, Prepare(c, i, on) PROVE P
  <2> DEFINE n == NextRun(i, now)
             e == [id |-> i, enabled |-> on, next |-> IF on THEN n ELSE None]
  <2>1. n \in Times \cup {None} /\ (i \in Daily => n # None)
    BY <1>a, NextRunIsLater
  <2>2. edit' = [edit EXCEPT ![c] = e]
    BY <1>1 DEF Prepare
  <2> HIDE DEF n
  <2>3. /\ e \in [id : Routines, enabled : BOOLEAN, next : Times \cup {None}]
        /\ e.enabled /\ e.id \in Daily => e.next # None
    BY <2>1
  <2> HIDE DEF e
  <2>4. CASE q = c
    BY <2>2, <2>3, <2>4, <1>a DEF EditOK
  <2>5. CASE q # c
    BY <2>2, <2>5, <1>b
  <2> QED
    BY <2>4, <2>5
<1>2. ASSUME NEW c \in Callers, Write(c) PROVE P
  <2>1. edit' = [edit EXCEPT ![c] = NoEdit]
    BY <1>2 DEF Write
  <2>2. edit'[q] = NoEdit \/ edit'[q] = edit[q]
    BY <2>1, <1>a
  <2> QED
    BY <2>2, <1>b DEF EditOK
<1>3. UNCHANGED edit => P
  BY <1>b
<1> HIDE DEF P
<1>4. Next => P
  BY <1>1, <1>2, <1>3
     DEF Next, Step, AddReminder, CancelReminder, DeleteReminder, Select, Claim, Remind,
         RunRoutine, Complete, EndTick, CutShort, PassTime
<1> QED
  BY <1>4 DEF P

LEMMA RunnersStay ==
  ASSUME Base, NEW q \in Runners
  PROVE  Next => RunnerOK(q)'
<1> USE RunTimesAreTimes
<1> DEFINE P == RunnerOK(q)'
           Same == /\ pc'[q] = pc[q] /\ at'[q] = at[q] /\ picked'[q] = picked[q]
                   /\ hand'[q] = hand[q] /\ busy'[q] = busy[q]
<1>a. /\ RunnerOK(q) /\ now \in 0..MaxTime
      /\ DOMAIN pc = Runners /\ DOMAIN at = Runners /\ DOMAIN picked = Runners
      /\ DOMAIN hand = Runners /\ DOMAIN busy = Runners
      /\ Routines \subseteq Items /\ Reminders \subseteq Items
      /\ Routines \cap Reminders = {} /\ None \notin Items
  BY ItemsAssumption DEF Base, TypesOK, Items
<1>b. Same /\ now' = now => P
  BY <1>a DEF RunnerOK
<1>1. ASSUME NEW S \in SUBSET Claimed(q), Select(q, S) PROVE P
  <2>1. /\ pc[q] \in {"idle", "routines"}
        /\ at'[q] = IF pc[q] = "idle" THEN now ELSE at[q]
        /\ \A i \in S : rows[i].next # None /\ rows[i].next <= at'[q]
        /\ picked'[q] = [i \in S |-> rows[i].next]
        /\ pc'[q] = IF pc[q] = "idle" THEN IF S # {} THEN "claim_reminders" ELSE "routines"
                    ELSE IF S # {} THEN "claim_routines" ELSE "deliver"
        /\ hand' = hand /\ busy' = busy /\ now' = now
    BY <1>1, <1>a DEF Select, Due
  <2>2. pc[q] = "idle" => S \subseteq Reminders /\ DOMAIN hand[q] = {}
    BY <1>1, <1>a DEF Claimed, RunnerOK
  <2>3. pc[q] = "routines" => S \subseteq Routines /\ DOMAIN hand[q] \subseteq Reminders
    BY <1>1, <1>a DEF Claimed, RunnerOK
  <2>4. \A i \in S : i \in Items /\ rows[i].next \in Times
    BY <2>1, <2>2, <2>3, <1>a DEF Base, TypesOK, Row
  <2> QED
    BY <2>1, <2>2, <2>3, <2>4, <1>a DEF RunnerOK
<1>2. ASSUME Claim(q) PROVE P
  <2>1. /\ pc[q] \in {"claim_reminders", "claim_routines"}
        /\ picked'[q] = Nothing
        /\ pc'[q] = IF pc[q] = "claim_reminders" THEN "routines" ELSE "deliver"
        /\ at' = at /\ busy' = busy /\ now' = now
        /\ hand'[q] = Taken(q)
    BY <1>2, <1>a DEF Claim
  <2>2. /\ DOMAIN Taken(q) = DOMAIN hand[q] \cup DOMAIN picked[q]
        /\ \A i \in DOMAIN Taken(q) : Taken(q)[i] \in Times
    BY <1>a DEF Taken, RunnerOK
  <2>3. DOMAIN Nothing = {}
    BY DEF Nothing
  <2> QED
    BY <2>1, <2>2, <2>3, <1>a DEF RunnerOK
<1>3. ASSUME NEW i, Tell(q, i)
      PROVE /\ DOMAIN hand'[q] = DOMAIN hand[q] \ {i}
            /\ \A j \in DOMAIN hand'[q] : hand'[q][j] = hand[q][j]
  BY <1>3, <1>a DEF Tell, Without
<1>4. ASSUME NEW i, Remind(q, i) PROVE P
  BY <1>4, <1>3, <1>a DEF Remind, RunnerOK
<1>5. ASSUME NEW i \in Routines, RunRoutine(q, i) PROVE P
  BY <1>5, <1>3, <1>a DEF RunRoutine, RunnerOK
<1>6. ASSUME NEW o, Complete(q, o) PROVE P
  BY <1>6, <1>a DEF Complete, RunnerOK
<1>7. ASSUME EndTick(q) PROVE P
  BY <1>7, <1>a DEF EndTick, RunnerOK
<1>8. ASSUME CutShort(q) PROVE P
  BY <1>8, <1>a DEF CutShort, RunnerOK, Nothing
<1>9. ASSUME PassTime PROVE P
  BY <1>9, <1>a DEF PassTime, RunnerOK, tick
<1>10. ASSUME NEW r \in Runners, Step(r) \/ CutShort(r), r # q PROVE P
  BY <1>10, <1>a, <1>b
     DEF Step, Select, Claim, EndTick, CutShort, Remind, RunRoutine, Tell, Complete
<1>11. ASSUME UNCHANGED <<tick, now>> PROVE P
  BY <1>11, <1>b DEF tick
<1> HIDE DEF P
<1>12. Step(q) \/ CutShort(q) => P
  BY <1>1, <1>2, <1>4, <1>5, <1>6, <1>7, <1>8 DEF Step
<1>13. Next => P
  BY <1>9, <1>10, <1>11, <1>12
     DEF Next, Prepare, Write, AddReminder, CancelReminder, DeleteReminder
<1> QED
  BY <1>13 DEF P

LEMMA BaseStep ==
  ASSUME Base, [Next]_vars
  PROVE  Base'
<1>1. CASE Next
  BY <1>1, CountersStay, RowsStay, EditsStay, RunnersStay DEF Base
<1>2. CASE UNCHANGED vars
  BY <1>2 DEF vars, tick, Base, TypesOK, RunnerOK, EditOK, GoneHasNoNext
<1> QED
  BY <1>1, <1>2

-----------------------------------------------------------------------------
(***************************************************************************)
(* Edits are kept.                                                         *)
(***************************************************************************)
LEMMA EditsKeptInit == Init => EditsKept
<1> SUFFICES ASSUME Init, NEW i \in Items
             PROVE  /\ rows[i].enabled = wanted[i]
                    /\ rows[i].enabled /\ i \in Daily \cup Reminders => rows[i].next # None
  BY DEF EditsKept
<1>1. rows[i] = Absent /\ wanted[i] = FALSE /\ Absent.enabled = FALSE
  BY DEF Init, Absent
<1> QED
  BY <1>1, Zenon

LEMMA EditsKeptStep ==
  ASSUME Base, EditsKept
  PROVE  Next => EditsKept'
<1> DEFINE Kept(i, x, w) ==
             x.enabled = w /\ (x.enabled /\ i \in Daily \cup Reminders => x.next # None)
           P == EditsKept'
<1>a. /\ \A i \in Items : Kept(i, rows[i], wanted[i])
      /\ rows \in [Items -> Row] /\ wanted \in [Items -> BOOLEAN] /\ now \in 0..MaxTime
      /\ Routines \subseteq Items /\ Reminders \subseteq Items /\ Routines \cap Reminders = {}
  BY ItemsAssumption DEF EditsKept, Base, TypesOK, Items
<1>b. (\A i \in Items : Kept(i, rows'[i], wanted'[i])) => P
  BY DEF EditsKept
<1>c. ASSUME NEW i \in Items, NEW x, NEW w, Kept(i, x, w),
             rows' = [rows EXCEPT ![i] = x], wanted' = [wanted EXCEPT ![i] = w]
      PROVE  P
  <2>1. \A j \in Items : IF j = i THEN rows'[j] = x /\ wanted'[j] = w
                                  ELSE rows'[j] = rows[j] /\ wanted'[j] = wanted[j]
    BY <1>c, <1>a
  <2> HIDE DEF Kept, P
  <2> QED
    BY <2>1, <1>a, <1>b, <1>c
<1>1. ASSUME NEW c \in Callers, Write(c) PROVE P
  <2> DEFINE e == edit[c]
             x == [status |-> IF rows[e.id] = Absent THEN "new" ELSE rows[e.id].status,
                   enabled |-> e.enabled, next |-> e.next]
  <2>1. e.id \in Routines /\ (e.enabled /\ e.id \in Daily => e.next # None)
    BY <1>1, EditIsRow DEF Write
  <2>2. rows' = [rows EXCEPT ![e.id] = x] /\ wanted' = [wanted EXCEPT ![e.id] = e.enabled]
    BY <1>1, <2>1 DEF Write
  <2>3. Kept(e.id, x, e.enabled)
    BY <2>1, <1>a
  <2> HIDE DEF x, e, P, Kept
  <2> QED
    BY <2>1, <2>2, <2>3, <1>c, <1>a
<1>2. ASSUME NEW i \in Reminders, AddReminder(i) PROVE P
  <2> DEFINE x == [status |-> "new", enabled |-> TRUE, next |-> NextRun(i, now)]
  <2>1. Kept(i, x, TRUE)
    BY <1>a, NextRunIsLater
  <2>2. rows' = [rows EXCEPT ![i] = x] /\ wanted' = [wanted EXCEPT ![i] = TRUE]
    BY <1>2 DEF AddReminder
  <2> HIDE DEF x, P, Kept
  <2> QED
    BY <2>1, <2>2, <1>c, <1>a
<1>3. ASSUME NEW i \in Reminders, CancelReminder(i) PROVE P
  <2> DEFINE x == [rows[i] EXCEPT !.enabled = FALSE]
  <2>1. Kept(i, x, FALSE)
    BY <1>a DEF Row
  <2>2. rows' = [rows EXCEPT ![i] = x] /\ wanted' = [wanted EXCEPT ![i] = FALSE]
    BY <1>3 DEF CancelReminder
  <2> HIDE DEF x, P, Kept
  <2> QED
    BY <2>1, <2>2, <1>c, <1>a
<1>4. ASSUME NEW i \in Reminders, DeleteReminder(i) PROVE P
  <2> DEFINE x == [Absent EXCEPT !.status = "deleted"]
  <2>1. Kept(i, x, FALSE)
    BY DEF Absent
  <2>2. rows' = [rows EXCEPT ![i] = x] /\ wanted' = [wanted EXCEPT ![i] = FALSE]
    BY <1>4 DEF DeleteReminder
  <2> HIDE DEF x, P, Kept
  <2> QED
    BY <2>1, <2>2, <1>c, <1>a
<1>5. ASSUME NEW r \in Runners, Claim(r) PROVE P
  <2>1. ASSUME NEW i \in Items PROVE Kept(i, rows'[i], wanted'[i])
    <3>1. wanted'[i] = wanted[i] /\ Kept(i, rows[i], wanted[i]) /\ rows[i] \in Row
      BY <1>5, <1>a DEF Claim
    <3>2. CASE i \in DOMAIN picked[r] /\ There(i)
      <4>1. rows'[i] = Advanced(r, i)
        BY <1>5, <3>2 DEF Claim
      <4>2. Advanced(r, i).enabled = rows[i].enabled /\ Advanced(r, i).next = NextRun(i, at[r])
        BY <3>1 DEF Advanced, Row
      <4>3. i \in Daily \cup Reminders => NextRun(i, at[r]) # None
        BY <3>2, ClaimMovesOn
      <4> QED
        BY <3>1, <4>1, <4>2, <4>3
    <3>3. CASE ~(i \in DOMAIN picked[r] /\ There(i))
      <4>1. rows'[i] = rows[i]
        BY <1>5, <3>3 DEF Claim
      <4> QED
        BY <3>1, <4>1
    <3> QED
      BY <3>2, <3>3
  <2> HIDE DEF P, Kept
  <2> QED
    BY <2>1, <1>b
<1>6. ASSUME NEW r \in Runners, NEW o, Complete(r, o) PROVE P
  <2>1. busy[r] \in Items
    BY <1>6 DEF Complete, Base, RunnerOK, Items
  <2> DEFINE x == [rows[busy[r]] EXCEPT !.status = "done"]
  <2>2. Kept(busy[r], x, wanted[busy[r]])
    BY <2>1, <1>a DEF Row
  <2>3. rows' = [rows EXCEPT ![busy[r]] = x] /\ wanted' = wanted
    BY <1>6 DEF Complete
  <2>4. wanted' = [wanted EXCEPT ![busy[r]] = wanted[busy[r]]]
    BY <2>1, <2>3, <1>a
  <2> HIDE DEF P, Kept, x
  <2> QED
    BY <2>1, <2>2, <2>3, <2>4, <1>c
<1>7. UNCHANGED <<rows, wanted>> => P
  BY DEF EditsKept
<1> HIDE DEF P, Kept
<1>8. Next => P
  BY <1>1, <1>2, <1>3, <1>4, <1>5, <1>6, <1>7
     DEF Next, Step, Prepare, Select, Remind, RunRoutine, EndTick, CutShort, PassTime
<1> QED
  BY <1>8 DEF P

-----------------------------------------------------------------------------
(***************************************************************************)
(* What says it is running is run.                                         *)
(***************************************************************************)
LEMMA RunningInit == Init => RunningIsRun
BY DEF Init, RunningIsRun, Absent, Items

LEMMA RunningStep ==
  ASSUME Base, RunningIsRun
  PROVE  Next => RunningIsRun'
<1> DEFINE Kept(i) == \E r \in Runners : busy[r] = i \/ i \in DOMAIN hand[r]
           P == RunningIsRun'
<1>a. /\ \A i \in Routines : rows[i].status = "running" => cuts > 0 \/ Kept(i)
      /\ rows \in [Items -> Row] /\ cuts \in Nat
      /\ DOMAIN hand = Runners /\ DOMAIN busy = Runners
      /\ Routines \subseteq Items /\ Reminders \subseteq Items /\ Routines \cap Reminders = {}
  BY ItemsAssumption DEF RunningIsRun, Base, TypesOK, Items
\* Nobody starts to say it is running, and nobody lets go of it.
<1>b. ASSUME \A i \in Routines : rows'[i].status = "running" =>
               rows[i].status = "running" /\ (Kept(i) => Kept(i)'),
             cuts' = cuts
      PROVE  P
  BY <1>a, <1>b DEF RunningIsRun
<1>1. ASSUME NEW c \in Callers, Write(c) PROVE P
  <2>1. edit[c].id \in Items
    BY <1>1, <1>a, EditIsRow DEF Write
  <2>2. \A i \in Routines : rows'[i].status = "running" => rows[i].status = "running"
    BY <1>1, <2>1, <1>a DEF Write
  <2> QED
    BY <1>1, <2>2, <1>b DEF Write, tick
<1>2. ASSUME NEW i \in Reminders, AddReminder(i) \/ CancelReminder(i) \/ DeleteReminder(i)
      PROVE  P
  <2>1. \A j \in Routines : rows'[j] = rows[j]
    BY <1>2, <1>a DEF AddReminder, CancelReminder, DeleteReminder
  <2> QED
    BY <1>2, <2>1, <1>b DEF AddReminder, CancelReminder, DeleteReminder, tick
<1>3. ASSUME NEW r \in Runners, Claim(r) PROVE P
  <2>1. /\ hand' = [hand EXCEPT ![r] = Taken(r)] /\ busy' = busy /\ cuts' = cuts
        /\ \A i \in Items : rows'[i] = rows[i] \/ i \in DOMAIN picked[r]
    BY <1>3 DEF Claim
  <2>2. DOMAIN Taken(r) = DOMAIN hand[r] \cup DOMAIN picked[r]
    BY DEF Taken
  <2>3. ASSUME NEW i \in Routines, Kept(i) \/ i \in DOMAIN picked[r] PROVE Kept(i)'
    <3>1. i \in DOMAIN picked[r] => i \in DOMAIN hand'[r]
      BY <2>1, <2>2, <1>a
    <3>2. ASSUME NEW q \in Runners, busy[q] = i \/ i \in DOMAIN hand[q]
          PROVE  busy'[q] = i \/ i \in DOMAIN hand'[q]
      BY <2>1, <2>2, <3>2, <1>a
    <3> QED
      BY <2>3, <3>1, <3>2
  <2> QED
    BY <2>1, <2>3, <1>a DEF RunningIsRun
<1>4. ASSUME NEW r \in Runners, NEW i \in Reminders, Remind(r, i) PROVE P
  <2>1. /\ rows' = rows /\ busy' = busy /\ cuts' = cuts
        /\ hand' = [hand EXCEPT ![r] = Without(hand[r], i)]
    BY <1>4 DEF Remind, Tell
  <2>2. \A j \in Routines, q \in Runners : j \in DOMAIN hand[q] => j \in DOMAIN hand'[q]
    BY <2>1, <1>a DEF Without
  <2> QED
    BY <2>1, <2>2, <1>b
<1>5. ASSUME NEW r \in Runners, NEW i \in Routines, RunRoutine(r, i) PROVE P
  <2>1. /\ rows' = rows /\ cuts' = cuts /\ busy[r] = None
        /\ busy' = [busy EXCEPT ![r] = i]
        /\ hand' = [hand EXCEPT ![r] = Without(hand[r], i)]
    BY <1>5 DEF RunRoutine, Tell
  <2>2. ASSUME NEW j \in Routines, NEW q \in Runners, busy[q] = j \/ j \in DOMAIN hand[q]
        PROVE  busy'[q] = j \/ j \in DOMAIN hand'[q]
    BY <2>1, <2>2, <1>a, ItemsAssumption DEF Without
  <2> QED
    BY <2>1, <2>2, <1>b
<1>6. ASSUME NEW r \in Runners, NEW o, Complete(r, o) PROVE P
  <2>1. busy[r] \in Items
    BY <1>6 DEF Complete, Base, RunnerOK, Items
  <2>2. /\ rows' = [rows EXCEPT ![busy[r]].status = "done"]
        /\ busy' = [busy EXCEPT ![r] = None] /\ hand' = hand /\ cuts' = cuts
    BY <1>6 DEF Complete
  <2>3. \A i \in Routines : rows'[i].status = "running" =>
          rows[i].status = "running" /\ i # busy[r]
    BY <2>1, <2>2, <1>a
  <2>4. \A i \in Routines, q \in Runners : busy[q] = i /\ i # busy[r] => busy'[q] = i
    BY <2>2, <1>a
  <2> QED
    BY <2>2, <2>3, <2>4, <1>b
<1>7. ASSUME NEW r \in Runners, CutShort(r) PROVE P
  BY <1>7, <1>a DEF CutShort, RunningIsRun
<1>8. UNCHANGED <<rows, busy, hand, cuts>> => P
  BY DEF RunningIsRun
<1> HIDE DEF P
<1>9. Next => P
  BY <1>1, <1>2, <1>3, <1>4, <1>5, <1>6, <1>7, <1>8
     DEF Next, Step, Prepare, Select, EndTick, PassTime, tick
<1> QED
  BY <1>9 DEF P

-----------------------------------------------------------------------------
(***************************************************************************)
(* Claims, deliveries and what is in hand.                                 *)
(***************************************************************************)
LEMMA CountedInit == Init => Counted
<1>1. ASSUME Init, NEW i \in Items, NEW t \in Times
      PROVE  claims[i][t] = 0 /\ told[i][t] = 0 /\ Cardinality(Holders(i, t)) = 0
  <2>1. Holders(i, t) = {}
    BY <1>1 DEF Init, Holders, Nothing
  <2> QED
    BY <1>1, <2>1, FS_EmptySet DEF Init
<1> QED
  BY <1>1 DEF Counted

LEMMA CountedStep ==
  ASSUME Base, Counted
  PROVE  Next => Counted'
<1> DEFINE Sum(i, t) == told[i][t] + Cardinality(Holders(i, t))
           P == Counted'
<1>a. /\ claims \in [Items -> [Times -> Nat]] /\ told \in [Items -> [Times -> Nat]]
      /\ DOMAIN hand = Runners /\ DOMAIN picked = Runners /\ cuts \in Nat
      /\ Routines \subseteq Items /\ Reminders \subseteq Items /\ Routines \cap Reminders = {}
      /\ Times \subseteq Nat
  BY ItemsAssumption, RunTimesAreTimes DEF Base, TypesOK, Items
<1>b. ASSUME NEW i, NEW t
      PROVE  IsFiniteSet(Holders(i, t)) /\ Cardinality(Holders(i, t)) \in Nat
  <2>1. Holders(i, t) \subseteq Runners
    BY DEF Holders
  <2> QED
    BY <2>1, ActorsAssumption, FS_Subset, FS_CardinalityType
<1>c. ASSUME NEW i \in Items, NEW t \in Times
      PROVE  /\ claims[i][t] \in Nat /\ told[i][t] \in Nat
             /\ Sum(i, t) <= claims[i][t]
             /\ cuts = 0 => claims[i][t] = Sum(i, t)
  BY <1>a DEF Counted
<1>1. ASSUME NEW r \in Runners, Claim(r) PROVE P
  <2>1. /\ told' = told /\ cuts' = cuts
        /\ hand'[r] = Taken(r)
        /\ \A q \in Runners : q # r => hand'[q] = hand[q]
    BY <1>1, <1>a DEF Claim
  <2>2. DOMAIN hand[r] \cap DOMAIN picked[r] = {}
    BY <1>1, <1>a DEF Claim, Base, RunnerOK
  <2>3. SUFFICES ASSUME NEW i \in Items, NEW t \in Times
                 PROVE  /\ Sum(i, t)' <= claims'[i][t]
                        /\ cuts' = 0 => claims'[i][t] = Sum(i, t)'
    BY DEF Counted
  <2> DEFINE Hit == i \in DOMAIN picked[r] /\ picked[r][i] = t
  <2>4. claims'[i][t] = IF Hit THEN claims[i][t] + 1 ELSE claims[i][t]
    BY <1>1 DEF Claim
  <2>5. /\ i \in DOMAIN hand'[r] <=> i \in DOMAIN hand[r] \/ i \in DOMAIN picked[r]
        /\ i \in DOMAIN picked[r] => hand'[r][i] = picked[r][i]
        /\ i \in DOMAIN hand[r] => hand'[r][i] = hand[r][i]
    BY <2>1, <2>2 DEF Taken
  <2>6. CASE Hit
    <3>1. Holders(i, t)' = Holders(i, t) \cup {r} /\ r \notin Holders(i, t)
      BY <2>1, <2>2, <2>5, <2>6 DEF Holders
    <3>2. Cardinality(Holders(i, t)') = Cardinality(Holders(i, t)) + 1
      BY <3>1, <1>b, FS_AddElement
    <3> QED
      BY <3>2, <2>1, <2>4, <2>6, <1>b, <1>c
  <2>7. CASE ~Hit
    <3>1. Holders(i, t)' = Holders(i, t)
      BY <2>1, <2>2, <2>5, <2>7 DEF Holders
    <3> QED
      BY <3>1, <2>1, <2>4, <2>7, <1>b, <1>c
  <2> QED
    BY <2>6, <2>7
<1>2. ASSUME NEW r \in Runners, NEW j \in Items, j \in DOMAIN hand[r], Tell(r, j),
             claims' = claims, cuts' = cuts
      PROVE  P
  <2>1. hand[r][j] \in Times
    BY <1>2 DEF Base, RunnerOK
  <2>2. /\ DOMAIN hand'[r] = DOMAIN hand[r] \ {j}
        /\ \A i \in DOMAIN hand'[r] : hand'[r][i] = hand[r][i]
        /\ \A q \in Runners : q # r => hand'[q] = hand[q]
    BY <1>2, <1>a DEF Tell, Without
  <2>3. SUFFICES ASSUME NEW i \in Items, NEW t \in Times
                 PROVE  /\ Sum(i, t)' <= claims'[i][t]
                        /\ cuts' = 0 => claims'[i][t] = Sum(i, t)'
    BY DEF Counted
  <2> DEFINE Hit == i = j /\ hand[r][j] = t
  <2>4. told'[i][t] = IF Hit THEN told[i][t] + 1 ELSE told[i][t]
    <3>1. told' = [told EXCEPT ![j] = [told[j] EXCEPT ![hand[r][j]] = told[j][hand[r][j]] + 1]]
      BY <1>2 DEF Tell
    <3>2. DOMAIN told = Items /\ DOMAIN told[j] = Times
      BY <1>a
    <3> QED
      BY <3>1, <3>2, <2>1, <2>3
  <2>5. CASE Hit
    <3>1. Holders(i, t)' = Holders(i, t) \ {r} /\ r \in Holders(i, t)
      BY <1>2, <2>2, <2>5 DEF Holders
    <3>2. Cardinality(Holders(i, t)') = Cardinality(Holders(i, t)) - 1
      BY <3>1, <1>b, FS_RemoveElement
    <3> QED
      BY <3>2, <1>2, <2>4, <2>5, <1>b, <1>c
  <2>6. CASE ~Hit
    <3>1. Holders(i, t)' = Holders(i, t)
      BY <1>2, <2>2, <2>6 DEF Holders
    <3> QED
      BY <3>1, <1>2, <2>4, <2>6, <1>b, <1>c
  <2> QED
    BY <2>5, <2>6
<1>3. ASSUME NEW r \in Runners, CutShort(r) PROVE P
  <2>1. /\ claims' = claims /\ told' = told /\ cuts' = cuts + 1
        /\ DOMAIN hand'[r] = {}
        /\ \A q \in Runners : q # r => hand'[q] = hand[q]
    BY <1>3, <1>a DEF CutShort, Nothing
  <2>2. SUFFICES ASSUME NEW i \in Items, NEW t \in Times
                 PROVE  Sum(i, t)' <= claims'[i][t] /\ cuts' # 0
    BY DEF Counted
  <2>3. Holders(i, t)' \subseteq Holders(i, t)
    BY <2>1 DEF Holders
  <2>4. Cardinality(Holders(i, t)') \in Nat /\ Cardinality(Holders(i, t)') <= Cardinality(Holders(i, t))
    BY <2>3, <1>b, FS_Subset, FS_CardinalityType
  <2> QED
    BY <2>1, <2>4, <1>a, <1>b, <1>c
<1>4. UNCHANGED <<claims, told, hand, cuts>> => P
  BY DEF Counted, Holders
<1>5. \A r \in Runners, i \in Reminders : Remind(r, i) => P
  BY <1>2, <1>a DEF Remind
<1>6. \A r \in Runners, i \in Routines : RunRoutine(r, i) => P
  BY <1>2, <1>a DEF RunRoutine
<1> HIDE DEF P
<1>7. Next => P
  BY <1>1, <1>3, <1>4, <1>5, <1>6
     DEF Next, Step, Prepare, Write, AddReminder, CancelReminder, DeleteReminder, Select,
         Complete, EndTick, PassTime, tick
<1> QED
  BY <1>7 DEF P

-----------------------------------------------------------------------------
(***************************************************************************)
(* Run times are claimed once, but for overtaken writes.                   *)
(***************************************************************************)
LEMMA OnceInit == Init => OnceOK
<1> SUFFICES ASSUME Init PROVE OnceOK
  OBVIOUS
<1>1. ClaimsOK
  BY DEF Init, ClaimsOK
<1>2. NextIsFree
  BY DEF Init, NextIsFree, Absent
<1>3. PickIsNext
  BY DEF Init, PickIsNext, Nothing
<1>4. EditIsFree
  BY DEF Init, EditIsFree, NoEdit
<1> QED
  BY <1>1, <1>2, <1>3, <1>4 DEF OnceOK

\* A write that nobody has overtaken met the next run it was prepared from.
LEMMA NotLate ==
  ASSUME NEW a, Overtakes(a), NEW b \in Runners \cup Callers, b # a,
         NEW i \in Items, Pending(b, i), <<b, i>> \notin late'
  PROVE  <<b, i>> \notin late /\ rows'[i].next = rows[i].next
BY DEF Overtakes

\* What was not claimed by now is free from there on.
LEMMA LaterIsFree ==
  ASSUME Base, OnceOK, NEW i \in Items, NEW n \in Times, n > now
  PROVE  FreeFrom(i, n)
<1> SUFFICES ASSUME NEW t \in Times, t >= n PROVE claims[i][t] <= overtaken[i]
  BY DEF FreeFrom
<1>1. claims[i][t] \in Nat /\ overtaken[i] \in Nat /\ (claims[i][t] > 0 => t <= now)
  BY DEF Base, TypesOK, OnceOK, ClaimsOK
<1> QED
  BY <1>1, RunTimesAreTimes DEF Base, TypesOK

\* Actions that claim nothing and change no next run: whatever was overtaken
\* before, a runner drops its picks or keeps them, a caller keeps its edit.
LEMMA OnceFrame ==
  ASSUME Base, OnceOK,
         claims' = claims, overtaken' = overtaken, edit' = edit, late' = late,
         now' \in Nat, now' >= now,
         \A i \in Items : rows'[i].next = rows[i].next,
         \A r \in Runners : picked'[r] = picked[r]
  PROVE  OnceOK'
<1>a. now \in Nat /\ \A i \in Items, t \in Times : t \in Nat /\ claims[i][t] \in Nat
  BY RunTimesAreTimes DEF Base, TypesOK
<1>1. ClaimsOK'
  BY <1>a DEF OnceOK, ClaimsOK
<1>2. NextIsFree'
  BY DEF OnceOK, NextIsFree, FreeFrom
<1>3. PickIsNext'
  <2> SUFFICES ASSUME NEW r \in Runners, NEW i \in DOMAIN picked[r]
               PROVE  <<r, i>> \in late \/ rows'[i].next = picked[r][i]
    BY DEF PickIsNext
  <2>1. i \in Items
    BY DEF Base, RunnerOK
  <2> QED
    BY <2>1 DEF OnceOK, PickIsNext
<1>4. EditIsFree'
  BY DEF OnceOK, EditIsFree, FreeFrom
<1> QED
  BY <1>1, <1>2, <1>3, <1>4 DEF OnceOK

LEMMA OncePrepare ==
  ASSUME Base, OnceOK, NEW c \in Callers, NEW i \in Routines, NEW on \in BOOLEAN,
         Prepare(c, i, on)
  PROVE  OnceOK'
<1>a. now \in 0..MaxTime /\ i \in Items /\ DOMAIN edit = Callers
  BY DEF Base, TypesOK, Items
<1>b. /\ rows' = rows /\ now' = now /\ picked' = picked /\ claims' = claims
      /\ late' = late /\ overtaken' = overtaken
  BY DEF Prepare, tick
<1>1. ClaimsOK' /\ NextIsFree' /\ PickIsNext'
  BY <1>b DEF OnceOK, ClaimsOK, NextIsFree, PickIsNext, FreeFrom
<1>2. ASSUME NEW q \in Callers
      PROVE  \/ edit'[q].next = None
             \/ <<q, edit'[q].id>> \in late
             \/ FreeFrom(edit'[q].id, edit'[q].next)
  <2>1. CASE q = c
    <3> DEFINE n == IF on THEN NextRun(i, now) ELSE None
    <3>1. edit'[q].id = i /\ edit'[q].next = n
      BY <2>1, <1>a DEF Prepare
    <3>2. n # None => n \in Times /\ n > now
      BY <1>a, NextRunIsLater
    <3> HIDE DEF n
    <3> QED
      BY <3>1, <3>2, <1>a, LaterIsFree
  <2>2. CASE q # c
    <3>1. edit'[q] = edit[q]
      BY <2>2, <1>a DEF Prepare
    <3> QED
      BY <3>1 DEF OnceOK, EditIsFree
  <2> QED
    BY <2>1, <2>2
<1>3. EditIsFree'
  BY <1>2, <1>b DEF EditIsFree, FreeFrom
<1> QED
  BY <1>1, <1>3 DEF OnceOK

\* A SELECT returns the next runs as they are.
LEMMA OnceSelect ==
  ASSUME Base, OnceOK, NEW r \in Runners, NEW S \in SUBSET Claimed(r), Select(r, S)
  PROVE  OnceOK'
<1>a. DOMAIN picked = Runners
  BY DEF Base, TypesOK
<1>b. /\ rows' = rows /\ now' = now /\ edit' = edit /\ claims' = claims
      /\ late' = late /\ overtaken' = overtaken
      /\ picked' = [picked EXCEPT ![r] = [i \in S |-> rows[i].next]]
  BY DEF Select
<1>1. ClaimsOK' /\ NextIsFree' /\ EditIsFree'
  BY <1>b DEF OnceOK, ClaimsOK, NextIsFree, EditIsFree, FreeFrom
<1>2. PickIsNext'
  <2> SUFFICES ASSUME NEW q \in Runners, NEW i \in DOMAIN picked'[q]
               PROVE  <<q, i>> \in late \/ rows[i].next = picked'[q][i]
    BY <1>b DEF PickIsNext
  <2>1. CASE q = r
    BY <2>1, <1>a, <1>b
  <2>2. CASE q # r
    BY <2>2, <1>a, <1>b DEF OnceOK, PickIsNext
  <2> QED
    BY <2>1, <2>2
<1> QED
  BY <1>1, <1>2 DEF OnceOK

LEMMA PickPends ==
  ASSUME Base, NEW r \in Runners, NEW i \in DOMAIN picked[r]
  PROVE  i \in Items /\ picked[r][i] \in Times /\ Pending(r, i)
BY DEF Base, RunnerOK, Pending

LEMMA EditPends ==
  ASSUME Base, NEW c \in Callers, edit[c].next # None
  PROVE  /\ edit[c] # NoEdit
         /\ edit[c].id \in Items /\ edit[c].next \in Times
         /\ Pending(c, edit[c].id)
<1>1. edit[c] # NoEdit
  BY DEF NoEdit
<1> QED
  BY <1>1, EditIsRow DEF Pending, Items

LEMMA OnceAdd ==
  ASSUME Base, OnceOK, NEW i \in Reminders, AddReminder(i)
  PROVE  OnceOK'
<1>a. /\ now \in 0..MaxTime /\ i \in Items /\ rows \in [Items -> Row]
      /\ None \notin Times
  BY RunTimesAreTimes DEF Base, TypesOK, Items
<1>b. /\ now' = now /\ edit' = edit /\ claims' = claims /\ picked' = picked
      /\ late' = late /\ overtaken' = overtaken
      /\ rows[i].next = None /\ rows'[i].next = NextRun(i, now)
      /\ \A j \in Items : j # i => rows'[j] = rows[j]
  BY <1>a DEF AddReminder, tick, Absent
<1>1. ClaimsOK' /\ EditIsFree'
  BY <1>b DEF OnceOK, ClaimsOK, EditIsFree, FreeFrom
<1>2. NextIsFree'
  <2>1. rows'[i].next # None => FreeFrom(i, rows'[i].next)
    <3> DEFINE n == NextRun(i, now)
    <3>1. n # None => n \in Times /\ n > now
      BY <1>a, NextRunIsLater
    <3> HIDE DEF n
    <3> QED
      BY <3>1, <1>a, <1>b, LaterIsFree DEF n
  <2>2. \A j \in Items : rows'[j].next # None => FreeFrom(j, rows'[j].next)
    BY <2>1, <1>b DEF OnceOK, NextIsFree
  <2> QED
    BY <2>2, <1>b DEF NextIsFree, FreeFrom
<1>3. PickIsNext'
  <2> SUFFICES ASSUME NEW q \in Runners, NEW j \in DOMAIN picked[q]
               PROVE  <<q, j>> \in late \/ rows'[j].next = picked[q][j]
    BY <1>b DEF PickIsNext
  <2>1. j \in Items /\ picked[q][j] \in Times
    BY PickPends
  <2> QED
    BY <2>1, <1>a, <1>b DEF OnceOK, PickIsNext
<1> QED
  BY <1>1, <1>2, <1>3 DEF OnceOK

LEMMA OnceDelete ==
  ASSUME Base, OnceOK, NEW i \in Reminders, DeleteReminder(i)
  PROVE  OnceOK'
<1>a. rows \in [Items -> Row] /\ None \notin Runners \cup Callers
  BY ActorsAssumption DEF Base, TypesOK
<1>b. /\ now' = now /\ edit' = edit /\ claims' = claims /\ picked' = picked
      /\ overtaken' = overtaken /\ Overtakes(None)
      /\ \A j \in Items : rows'[j].next = rows[j].next \/ rows'[j].next = None
  BY <1>a DEF DeleteReminder, tick, Absent
<1>1. ClaimsOK' /\ NextIsFree'
  BY <1>b DEF OnceOK, ClaimsOK, NextIsFree, FreeFrom
<1>2. ASSUME NEW q \in Runners, NEW j \in DOMAIN picked[q], <<q, j>> \notin late'
      PROVE  rows'[j].next = picked[q][j]
  <2>1. j \in Items /\ <<q, j>> \notin late /\ rows'[j].next = rows[j].next
    BY <1>2, <1>a, <1>b, PickPends, NotLate
  <2> QED
    BY <2>1 DEF OnceOK, PickIsNext
<1>3. ASSUME NEW c \in Callers, edit[c].next # None, <<c, edit[c].id>> \notin late'
      PROVE  FreeFrom(edit[c].id, edit[c].next)
  <2>1. <<c, edit[c].id>> \notin late
    BY <1>3, <1>a, <1>b, EditPends, NotLate
  <2> QED
    BY <2>1, <1>3 DEF OnceOK, EditIsFree
<1>4. PickIsNext' /\ EditIsFree'
  BY <1>2, <1>3, <1>b DEF PickIsNext, EditIsFree, FreeFrom
<1> QED
  BY <1>1, <1>4 DEF OnceOK

LEMMA OnceCut ==
  ASSUME Base, OnceOK, NEW r \in Runners, CutShort(r)
  PROVE  OnceOK'
<1>a. DOMAIN picked = Runners /\ Runners \cap Callers = {}
  BY ActorsAssumption DEF Base, TypesOK
<1>b. /\ rows' = rows /\ now' = now /\ edit' = edit /\ claims' = claims
      /\ overtaken' = overtaken /\ Overtakes(r)
      /\ DOMAIN picked'[r] = {} /\ \A q \in Runners : q # r => picked'[q] = picked[q]
  BY <1>a DEF CutShort, Nothing
<1>1. ClaimsOK' /\ NextIsFree'
  BY <1>b DEF OnceOK, ClaimsOK, NextIsFree, FreeFrom
<1>2. ASSUME NEW q \in Runners, NEW j \in DOMAIN picked'[q], <<q, j>> \notin late'
      PROVE  rows[j].next = picked'[q][j]
  <2>1. q # r /\ picked'[q] = picked[q]
    BY <1>2, <1>b
  <2>2. j \in Items /\ <<q, j>> \notin late
    BY <2>1, <1>2, <1>b, PickPends, NotLate
  <2> QED
    BY <2>1, <2>2, <1>2 DEF OnceOK, PickIsNext
<1>3. ASSUME NEW c \in Callers, edit[c].next # None, <<c, edit[c].id>> \notin late'
      PROVE  FreeFrom(edit[c].id, edit[c].next)
  <2>1. <<c, edit[c].id>> \notin late
    BY <1>3, <1>a, <1>b, EditPends, NotLate
  <2> QED
    BY <2>1, <1>3 DEF OnceOK, EditIsFree
<1>4. PickIsNext' /\ EditIsFree'
  BY <1>2, <1>3, <1>b DEF PickIsNext, EditIsFree, FreeFrom
<1> QED
  BY <1>1, <1>4 DEF OnceOK

\* An edit that was overtaken counts for every claim there was; one that was
\* not brings the next run it was prepared with.
LEMMA OnceWrite ==
  ASSUME Base, OnceOK, NEW c \in Callers, Write(c)
  PROVE  OnceOK'
<1> DEFINE e == edit[c]
           Late == <<c, e.id>> \in late
           FreeNext(j, n) == \A t \in Times : t >= n => claims'[j][t] <= overtaken'[j]
<1>a. /\ rows \in [Items -> Row] /\ overtaken \in [Items -> Nat]
      /\ claims \in [Items -> [Times -> Nat]]
      /\ DOMAIN edit = Callers /\ Runners \cap Callers = {}
  BY ActorsAssumption DEF Base, TypesOK
<1>b. e.id \in Items
  BY EditIsRow DEF Write, Items
<1>c. /\ now' = now /\ claims' = claims /\ picked' = picked /\ Overtakes(c)
      /\ rows'[e.id].next = e.next
      /\ \A j \in Items : j # e.id => rows'[j] = rows[j]
      /\ \A j \in Items : overtaken'[j] = IF j = e.id /\ Late THEN overtaken[j] + 1
                                                             ELSE overtaken[j]
      /\ edit'[c] = NoEdit
      /\ \A q \in Callers : q # c => edit'[q] = edit[q]
  BY <1>a, <1>b DEF Write, tick
<1> HIDE DEF e
<1>d. \A j \in Items : overtaken[j] \in Nat /\ overtaken'[j] \in Nat /\ overtaken'[j] >= overtaken[j]
  BY <1>a, <1>c
<1>e. ASSUME NEW j \in Items, NEW n, FreeFrom(j, n) PROVE FreeNext(j, n)
  BY <1>a, <1>c, <1>d, <1>e DEF FreeFrom
<1>1. ClaimsOK'
  <2>1. \A j \in Items, t \in Times :
          claims[j][t] \in Nat /\ claims[j][t] <= 1 + overtaken[j] /\ (claims[j][t] > 0 => t <= now)
    BY <1>a DEF OnceOK, ClaimsOK
  <2> QED
    BY <2>1, <1>c, <1>d DEF ClaimsOK
<1>2. NextIsFree'
  <2> SUFFICES ASSUME NEW j \in Items, rows'[j].next # None
               PROVE  FreeNext(j, rows'[j].next)
    BY DEF NextIsFree, FreeFrom
  <2>1. CASE j # e.id
    BY <2>1, <1>c, <1>e DEF OnceOK, NextIsFree
  <2>2. CASE j = e.id /\ Late
    <3>1. overtaken'[j] = 1 + overtaken[j]
      BY <2>2, <1>c, <1>d
    <3>2. \A t \in Times : claims'[j][t] <= overtaken'[j]
      BY <3>1, <1>c DEF OnceOK, ClaimsOK
    <3> QED
      BY <3>2 DEF FreeFrom
  <2>3. CASE j = e.id /\ ~Late
    <3>1. rows'[j].next = e.next /\ FreeFrom(j, e.next)
      BY <2>3, <1>c DEF OnceOK, EditIsFree, e
    <3> QED
      BY <3>1, <1>e
  <2> QED
    BY <2>1, <2>2, <2>3
<1>3. ASSUME NEW q \in Runners, NEW j \in DOMAIN picked[q], <<q, j>> \notin late'
      PROVE  rows'[j].next = picked[q][j]
  <2>1. j \in Items /\ <<q, j>> \notin late /\ rows'[j].next = rows[j].next
    BY <1>3, <1>a, <1>c, PickPends, NotLate
  <2> QED
    BY <2>1 DEF OnceOK, PickIsNext
<1>4. ASSUME NEW q \in Callers, edit'[q].next # None, <<q, edit'[q].id>> \notin late'
      PROVE  FreeNext(edit'[q].id, edit'[q].next)
  <2>1. q # c /\ edit'[q] = edit[q]
    BY <1>4, <1>c DEF NoEdit
  <2>2. <<q, edit[q].id>> \notin late /\ edit[q].id \in Items
    BY <2>1, <1>4, <1>c, EditPends, NotLate
  <2> QED
    BY <2>1, <2>2, <1>4, <1>e DEF OnceOK, EditIsFree
<1>5. PickIsNext' /\ EditIsFree'
  BY <1>3, <1>4, <1>c DEF PickIsNext, EditIsFree, FreeFrom
<1> QED
  BY <1>1, <1>2, <1>5 DEF OnceOK

\* A claim counts one run time of each item it picked.  If somebody has been
\* there since, that is an overtaken write; if not, it is the row's next run,
\* which was free, and the next run moves past it.
LEMMA OnceClaim ==
  ASSUME Base, OnceOK, NEW r \in Runners, Claim(r)
  PROVE  OnceOK'
<1> DEFINE S == DOMAIN picked[r]
           Late(i) == <<r, i>> \in late
           FreeNext(i, n) == \A t \in Times : t >= n => claims'[i][t] <= overtaken'[i]
<1>a. /\ rows \in [Items -> Row] /\ overtaken \in [Items -> Nat]
      /\ claims \in [Items -> [Times -> Nat]] /\ now \in Nat
      /\ DOMAIN picked = Runners /\ Runners \cap Callers = {}
      /\ Times \subseteq Nat /\ None \notin Times
  BY ActorsAssumption, RunTimesAreTimes DEF Base, TypesOK
<1>b. /\ now' = now /\ edit' = edit /\ Overtakes(r)
      /\ DOMAIN picked'[r] = {} /\ \A q \in Runners : q # r => picked'[q] = picked[q]
      /\ \A i \in Items : i \notin S => rows'[i] = rows[i]
      /\ \A i \in Items : overtaken'[i] = IF i \in S /\ Late(i) THEN overtaken[i] + 1
                                                               ELSE overtaken[i]
      /\ \A i \in Items, t \in Times :
           claims'[i][t] = IF i \in S /\ picked[r][i] = t THEN claims[i][t] + 1
                                                         ELSE claims[i][t]
  BY <1>a DEF Claim, Nothing
<1>c. ASSUME NEW i \in Items, NEW t \in Times
      PROVE  /\ claims[i][t] \in Nat /\ overtaken[i] \in Nat
             /\ claims[i][t] <= 1 + overtaken[i] /\ (claims[i][t] > 0 => t <= now)
  BY <1>a DEF OnceOK, ClaimsOK
\* The row of an item that was claimed in time.
<1>d. ASSUME NEW i \in S, ~Late(i)
      PROVE  /\ rows[i].next = picked[r][i]
             /\ FreeFrom(i, picked[r][i])
             /\ rows'[i].next = NextRun(i, at[r])
             /\ rows'[i].next # None => rows'[i].next \in Times /\ rows'[i].next > picked[r][i]
  <2>1. rows[i].next = picked[r][i]
    BY <1>d DEF OnceOK, PickIsNext
  <2>2. i \in Items /\ picked[r][i] \in Times /\ FreeFrom(i, picked[r][i])
    BY <2>1, <1>a, PickPends DEF OnceOK, NextIsFree
  <2>3. There(i)
    BY <2>1, <2>2, <1>a DEF Base, GoneHasNoNext, There, Absent
  <2>4. rows'[i] = Advanced(r, i)
    BY <2>2, <2>3 DEF Claim
  <2>5. Advanced(r, i).next = NextRun(i, at[r])
    BY <1>a, <2>2 DEF Advanced, Row
  <2> DEFINE n == NextRun(i, at[r])
  <2>6. /\ at[r] \in 0..MaxTime /\ picked[r][i] <= at[r]
        /\ n # None => n \in Times /\ n > at[r]
    BY ClaimMovesOn
  <2> HIDE DEF n
  <2>7. n # None => n \in Times /\ n > picked[r][i]
    <3>1. at[r] \in Nat
      BY <2>6
    <3>2. picked[r][i] \in Nat /\ (n # None => n \in Nat)
      BY <2>2, <2>6, <1>a
    <3> QED
      BY <3>1, <3>2, <2>6
  <2> QED
    BY <2>1, <2>2, <2>4, <2>5, <2>7 DEF n
\* What was free of claims stays so, but for the run time just claimed.
<1>e. ASSUME NEW i \in Items, NEW n \in Times, FreeFrom(i, n),
             i \in S /\ ~Late(i) => n > picked[r][i]
      PROVE  FreeNext(i, n)
  <2> SUFFICES ASSUME NEW t \in Times, t >= n PROVE claims'[i][t] <= overtaken'[i]
    OBVIOUS
  <2>1. claims[i][t] <= overtaken[i]
    BY <1>e DEF FreeFrom
  <2>2. CASE i \in S /\ ~Late(i)
    <3>1. picked[r][i] # t
      BY <2>2, <1>a, <1>e, PickPends
    <3> QED
      BY <3>1, <2>1, <2>2, <1>b
  <2>3. CASE ~(i \in S /\ ~Late(i))
    BY <2>1, <2>3, <1>b, <1>c
  <2> QED
    BY <2>2, <2>3
\* An overtaken claim moves the next run to where only claims made before
\* can be, and each of them is accounted for by now.
<1>f. ASSUME NEW i \in S, Late(i), NEW n \in Times, n > at[r] \/ FreeFrom(i, n)
      PROVE  FreeNext(i, n)
  <2>1. /\ i \in Items /\ picked[r][i] \in Times /\ picked[r][i] <= at[r] /\ at[r] \in 0..MaxTime
    BY ClaimMovesOn
  <2> SUFFICES ASSUME NEW t \in Times, t >= n PROVE claims'[i][t] <= overtaken'[i]
    OBVIOUS
  <2>2. overtaken'[i] = overtaken[i] + 1
    BY <2>1, <1>b, <1>f
  <2>3. CASE n > at[r]
    <3>1. picked[r][i] # t
      BY <2>1, <2>3, <1>a, BoundsAssumption
    <3> QED
      BY <3>1, <2>1, <2>2, <1>b, <1>c
  <2>4. CASE FreeFrom(i, n)
    <3>1. claims[i][t] <= overtaken[i]
      BY <2>4 DEF FreeFrom
    <3> QED
      BY <3>1, <2>1, <2>2, <1>b, <1>c
  <2> QED
    BY <2>3, <2>4, <1>f
<1>1. ClaimsOK'
  <2> SUFFICES ASSUME NEW i \in Items, NEW t \in Times
               PROVE  (claims'[i][t] > 0 => t <= now) /\ claims'[i][t] <= 1 + overtaken'[i]
    BY <1>b DEF ClaimsOK
  <2>1. CASE i \in S /\ picked[r][i] = t
    <3>1. t <= now
      BY <2>1, <1>a, ClaimMovesOn, BoundsAssumption
    <3>2. ~Late(i) => claims[i][t] <= overtaken[i]
      BY <2>1, <1>a, <1>d DEF FreeFrom
    <3> QED
      BY <3>1, <3>2, <2>1, <1>b, <1>c
  <2>2. CASE ~(i \in S /\ picked[r][i] = t)
    <3>1. claims'[i][t] = claims[i][t]
      BY <2>2, <1>b
    <3>2. overtaken'[i] \in {overtaken[i], overtaken[i] + 1}
      BY <1>b
    <3> QED
      BY <3>1, <3>2, <1>c
  <2> QED
    BY <2>1, <2>2
<1>2. NextIsFree'
  <2> SUFFICES ASSUME NEW i \in Items, rows'[i].next # None
               PROVE  FreeNext(i, rows'[i].next)
    BY DEF NextIsFree, FreeFrom
  <2>1. CASE i \notin S
    <3>1. rows'[i] = rows[i] /\ rows[i].next \in Times
      BY <2>1, <1>a, <1>b DEF Row
    <3> QED
      BY <3>1, <2>1, <1>e DEF OnceOK, NextIsFree
  <2>2. CASE i \in S /\ ~Late(i)
    <3>1. /\ rows'[i].next \in Times /\ rows'[i].next > picked[r][i]
          /\ picked[r][i] \in Times /\ FreeFrom(i, picked[r][i])
      BY <2>2, <1>d, PickPends
    <3>2. FreeFrom(i, rows'[i].next)
      BY <3>1, <1>a DEF FreeFrom
    <3> QED
      BY <3>1, <3>2, <1>e
  <2>3. CASE i \in S /\ Late(i) /\ ~There(i)
    <3>1. rows'[i] = rows[i] /\ rows[i].next \in Times
      BY <2>3, <1>a DEF Row, Claim
    <3> QED
      BY <3>1, <2>3, <1>f DEF OnceOK, NextIsFree
  <2>4. CASE i \in S /\ Late(i) /\ There(i)
    <3>1. rows'[i] = Advanced(r, i)
      BY <2>4 DEF Claim
    <3>2. Advanced(r, i).next = NextRun(i, at[r])
      BY <1>a DEF Advanced, Row
    <3>3. NextRun(i, at[r]) # None => NextRun(i, at[r]) \in Times /\ NextRun(i, at[r]) > at[r]
      BY <2>4, ClaimMovesOn
    <3>4. rows'[i].next \in Times /\ rows'[i].next > at[r]
      BY <3>1, <3>2, <3>3
    <3> QED
      BY <3>4, <2>4, <1>f
  <2> QED
    BY <2>1, <2>2, <2>3, <2>4
<1>3. ASSUME NEW q \in Runners, NEW i \in DOMAIN picked'[q], <<q, i>> \notin late'
      PROVE  rows'[i].next = picked'[q][i]
  <2>1. q # r /\ picked'[q] = picked[q]
    BY <1>3, <1>b
  <2>2. i \in Items /\ <<q, i>> \notin late /\ rows'[i].next = rows[i].next
    BY <2>1, <1>3, <1>b, PickPends, NotLate
  <2> QED
    BY <2>1, <2>2, <1>3 DEF OnceOK, PickIsNext
<1>4. ASSUME NEW c \in Callers, edit[c].next # None, <<c, edit[c].id>> \notin late'
      PROVE  FreeNext(edit[c].id, edit[c].next)
  <2> DEFINE i == edit[c].id
             n == edit[c].next
  <2>1. i \in Items /\ n \in Times
    BY <1>4, EditPends
  <2>2. <<c, i>> \notin late /\ rows'[i].next = rows[i].next
    BY <2>1, <1>4, <1>a, <1>b, EditPends, NotLate
  <2>3. FreeFrom(i, n)
    BY <2>2, <1>4 DEF OnceOK, EditIsFree
  <2>4. i \in S => Late(i)
    <3> SUFFICES ASSUME i \in S, ~Late(i) PROVE FALSE
      OBVIOUS
    <3>1. /\ rows'[i].next = picked[r][i] /\ picked[r][i] \in Times
          /\ rows'[i].next > picked[r][i]
      <4>1. rows'[i].next = rows[i].next /\ rows[i].next = picked[r][i]
        BY <2>2, <1>d
      <4>2. picked[r][i] \in Times /\ picked[r][i] # None
        BY <1>a, PickPends
      <4> QED
        BY <4>1, <4>2, <1>d
    <3>2. picked[r][i] \in Nat /\ picked[r][i] > picked[r][i]
      BY <3>1, <1>a
    <3> QED
      BY <3>2
  <2> HIDE DEF i, n
  <2> QED
    BY <2>1, <2>3, <2>4, <1>e, <1>f DEF i, n
<1>5. PickIsNext' /\ EditIsFree'
  BY <1>3, <1>4, <1>b DEF PickIsNext, EditIsFree, FreeFrom
<1> QED
  BY <1>1, <1>2, <1>5 DEF OnceOK

LEMMA OnceStep ==
  ASSUME Base, OnceOK
  PROVE  Next => OnceOK'
<1> DEFINE P == OnceOK'
<1>a. /\ now \in 0..MaxTime /\ now \in Nat /\ rows \in [Items -> Row]
      /\ Routines \subseteq Items /\ Reminders \subseteq Items
  BY BoundsAssumption DEF Base, TypesOK, Items
<1>1. UNCHANGED <<rows, now, picked, edit, claims, overtaken, late>> => P
  BY <1>a, OnceFrame
<1>2. ASSUME NEW i \in Reminders, CancelReminder(i) PROVE P
  <2>1. \A j \in Items : rows'[j].next = rows[j].next
    BY <1>2, <1>a DEF CancelReminder, Row
  <2> QED
    BY <1>2, <2>1, <1>a, OnceFrame DEF CancelReminder, tick
<1>3. ASSUME NEW r \in Runners, NEW o, Complete(r, o) PROVE P
  <2>1. \A j \in Items : rows'[j].next = rows[j].next
    BY <1>3, <1>a DEF Complete, Row
  <2> QED
    BY <1>3, <2>1, <1>a, OnceFrame DEF Complete
<1>4. ASSUME PassTime PROVE P
  <2>1. now' \in Nat /\ now' >= now
    BY <1>4, <1>a DEF PassTime
  <2> QED
    BY <1>4, <2>1, OnceFrame DEF PassTime, tick
<1> HIDE DEF P
<1>5. \A c \in Callers, i \in Routines, on \in BOOLEAN : Prepare(c, i, on) => P
  BY OncePrepare DEF P
<1>6. \A c \in Callers : Write(c) => P
  BY OnceWrite DEF P
<1>7. \A i \in Reminders : AddReminder(i) \/ DeleteReminder(i) => P
  BY OnceAdd, OnceDelete DEF P
<1>8. \A r \in Runners : \A S \in SUBSET Claimed(r) : Select(r, S) => P
  BY OnceSelect DEF P
<1>9. \A r \in Runners : Claim(r) \/ CutShort(r) => P
  BY OnceClaim, OnceCut DEF P
<1>10. \A r \in Runners : EndTick(r) => P
  BY <1>1 DEF EndTick
<1>11. \A r \in Runners : \A i : Remind(r, i) \/ RunRoutine(r, i) => P
  BY <1>1 DEF Remind, RunRoutine
<1>12. Next => P
  BY <1>2, <1>3, <1>4, <1>5, <1>6, <1>7, <1>8, <1>9, <1>10, <1>11 DEF Next, Step
<1> QED
  BY <1>12 DEF P

-----------------------------------------------------------------------------
(***************************************************************************)
(* The invariant and the theorems.                                         *)
(***************************************************************************)
LEMMA RoutineInvInit == Init => RoutineInv
BY TypesInit, EditsKeptInit, RunningInit, CountedInit, OnceInit DEF RoutineInv

LEMMA RoutineInvStep == RoutineInv /\ [Next]_vars => RoutineInv'
<1> SUFFICES ASSUME RoutineInv, [Next]_vars PROVE RoutineInv'
  OBVIOUS
<1>1. Base /\ Base'
  BY BaseStep DEF RoutineInv
<1>2. CASE Next
  BY <1>1, <1>2, EditsKeptStep, RunningStep, CountedStep, OnceStep DEF RoutineInv
<1>3. CASE UNCHANGED vars
  <2>1. EditsKept'
    BY <1>3 DEF vars, RoutineInv, EditsKept
  <2>2. RunningIsRun'
    BY <1>3 DEF vars, tick, RoutineInv, RunningIsRun
  <2>3. Counted'
    BY <1>3 DEF vars, tick, RoutineInv, Counted, Holders
  <2>4. OnceOK'
    BY <1>1, <1>3, BoundsAssumption, OnceFrame DEF vars, tick, RoutineInv, Base, TypesOK
  <2> QED
    BY <1>1, <2>1, <2>2, <2>3, <2>4 DEF RoutineInv
<1> QED
  BY <1>2, <1>3

LEMMA RoutineInvHolds == Spec => []RoutineInv
BY RoutineInvInit, RoutineInvStep, PTL DEF Spec

\* Rows, clock, ticks and edits are what the tables and the code can hold.
THEOREM RoutineTypeCorrect == Spec => []TypeOK
<1>1. RoutineInv => TypeOK
  BY DEF RoutineInv, Base, TypesOK, RunnerOK, TypeOK
<1> QED
  BY <1>1, RoutineInvHolds, PTL

\* However many processes run daemons and however their claims, edits and
\* deletions interleave, a run time is delivered again only for a write that
\* somebody else's write overtook (claim_due_routines, claim_due_reminders).
THEOREM RepeatsAreOvertakings == Spec => []RepeatedOnlyIfOvertaken
<1>1. RoutineInv => RepeatedOnlyIfOvertaken
  <2> SUFFICES ASSUME RoutineInv, NEW i \in Items, NEW t \in Times
               PROVE  told[i][t] <= 1 + overtaken[i]
    BY DEF RepeatedOnlyIfOvertaken
  <2>1. /\ told[i][t] \in Nat /\ claims[i][t] \in Nat /\ overtaken[i] \in Nat
        /\ claims[i][t] <= 1 + overtaken[i]
    BY DEF RoutineInv, Base, TypesOK, OnceOK, ClaimsOK
  <2>2. Holders(i, t) \subseteq Runners
    BY DEF Holders
  <2>3. Cardinality(Holders(i, t)) \in Nat
    BY <2>2, ActorsAssumption, FS_Subset, FS_CardinalityType
  <2>4. told[i][t] + Cardinality(Holders(i, t)) <= claims[i][t]
    BY DEF RoutineInv, Counted
  <2> QED
    BY <2>1, <2>3, <2>4
<1> QED
  BY <1>1, RoutineInvHolds, PTL

\* Unless a tick is cut short, every claim is delivered or is in the hand of
\* exactly one tick (execute_due_once).
THEOREM LossesAreCuts == Spec => []LostOnlyByCut
<1>1. RoutineInv => LostOnlyByCut
  BY DEF RoutineInv, Counted, LostOnlyByCut
<1> QED
  BY <1>1, RoutineInvHolds, PTL

\* Unless a tick is cut short, a routine that says it is running is held by a
\* tick or is being run by one (claim_due_routines, complete_routine).
THEOREM RunningCorrect == Spec => []RunningIsRun
<1>1. RoutineInv => RunningIsRun
  BY DEF RoutineInv
<1> QED
  BY <1>1, RoutineInvHolds, PTL

\* No claim undoes an edit, and what is enabled and scheduled has a next run.
THEOREM EditsAreKept == Spec => []EditsKept
<1>1. RoutineInv => EditsKept
  BY DEF RoutineInv
<1> QED
  BY <1>1, RoutineInvHolds, PTL
=============================================================================
