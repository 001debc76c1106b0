--------------------------- MODULE AnswersProofs ---------------------------
(***************************************************************************)
(* What the user is told and shown, for any number of callers, schedulers, *)
(* users, files, events and any bounds: a reminder that was cleared stays  *)
(* cleared, an answer about a file says what was done to it, and the       *)
(* bubble refuses and marks what it should.  The three components share no *)
(* state; the parts below are independent of one another.                  *)
(***************************************************************************)
EXTENDS Reminders, FileWork, Bubble, FiniteSetTheorems, TLAPS

-----------------------------------------------------------------------------
(***************************************************************************)
(* Reminders.                                                              *)
(***************************************************************************)
LEMMA ReminderTypeStep == TypeOK /\ [Next]_vars => TypeOK'
<1> SUFFICES ASSUME TypeOK, [Next]_vars PROVE TypeOK'
  OBVIOUS
<1> USE BoundsAssumption DEF TypeOK
<1>1. CASE UNCHANGED vars
  BY <1>1 DEF vars, tally
<1>2. ASSUME NEW i \in Ids, NEW d \in 0..MaxTime, Create(i, d) PROVE TypeOK'
  BY <1>2 DEF Create, tally
<1>3. ASSUME NEW u \in Users, NEW i \in Ids, CancelRead(u, i) PROVE TypeOK'
  BY <1>3 DEF CancelRead, tally
<1>4. ASSUME NEW u \in Users, CancelSet(u) PROVE TypeOK'
  BY <1>4 DEF CancelSet, SetStatus, Closed, tally
<1>5. ASSUME NEW S \in Clearings, Delete(S) PROVE TypeOK'
  BY <1>5 DEF Delete, tally
<1>6. ASSUME NEW s \in Schedulers, Read(s) PROVE TypeOK'
  BY <1>6 DEF Read, Earliest, DuePending
<1>7. ASSUME NEW s \in Schedulers, NEW i \in Ids,
             NEW o \in {"triggered", "failed"}, Notify(s, i, o)
      PROVE  TypeOK'
  BY <1>7 DEF Notify
<1>8. ASSUME NEW s \in Schedulers, NEW o \in {"triggered", "failed"}, Mark(s, o)
      PROVE  TypeOK'
  BY <1>8 DEF Mark, SetStatus, Closed, tally
<1>9. ASSUME NEW s \in Schedulers, Crash(s) PROVE TypeOK'
  BY <1>9 DEF Crash
<1>10. CASE Tick
  BY <1>10 DEF Tick, tally
<1> QED
  BY <1>1, <1>2, <1>3, <1>4, <1>5, <1>6, <1>7, <1>8, <1>9, <1>10 DEF Next, Step

\* The variables keep their types.
THEOREM ReminderTypeCorrect == Spec => []TypeOK
<1>1. Init => TypeOK
  BY BoundsAssumption DEF Init, TypeOK
<1> QED
  BY <1>1, ReminderTypeStep, PTL DEF Spec
-----------------------------------------------------------------------------
(***************************************************************************)
(* A reminder that says it was triggered was delivered.                    *)
(***************************************************************************)
\* What a tick is about to mark as triggered, it has delivered.
NotifiedWasDelivered ==
  \A s \in Schedulers :
    current[s] # None /\ outcome[s] = "triggered" => delivered[current[s]] > 0

\* Nothing is ever undelivered.
DeliveredGrows ==
  \A i \in Ids : delivered[i] > 0 => delivered'[i] > 0

LEMMA DeliveredStep == TypeOK /\ [Next]_vars => DeliveredGrows
<1> SUFFICES ASSUME TypeOK, [Next]_vars PROVE DeliveredGrows
  OBVIOUS
<1>1. ASSUME NEW s \in Schedulers, NEW i \in Ids,
             NEW o \in {"triggered", "failed"}, Notify(s, i, o)
      PROVE  DeliveredGrows
  BY <1>1 DEF Notify, TypeOK, DeliveredGrows
<1>2. UNCHANGED delivered => DeliveredGrows
  BY DEF DeliveredGrows
<1> QED
  BY <1>1, <1>2 DEF Next, Step, vars, tally, Create, CancelRead, CancelSet, Delete,
     Read, Mark, Crash, Tick

TriggeredInv == TriggeredWasDelivered /\ NotifiedWasDelivered

\* Steps that neither notify nor mark.
LEMMA TriggeredQuiet ==
  ASSUME TypeOK, TriggeredInv, UNCHANGED <<delivered, outcome>>,
         \A s \in Schedulers : current'[s] \in {current[s], None},
         \A i \in Ids : status'[i] = "triggered" => status[i] = "triggered"
  PROVE  TriggeredInv'
BY DEF TypeOK, TriggeredInv, TriggeredWasDelivered, NotifiedWasDelivered

LEMMA TriggeredStep == TypeOK /\ TriggeredInv /\ [Next]_vars => TriggeredInv'
<1> SUFFICES ASSUME TypeOK, TriggeredInv, [Next]_vars PROVE TriggeredInv'
  OBVIOUS
<1>1. CASE UNCHANGED vars
  BY <1>1, TriggeredQuiet DEF vars, tally
<1>2. ASSUME NEW i \in Ids, NEW d \in 0..MaxTime, Create(i, d)
      PROVE  TriggeredInv'
  BY <1>2, TriggeredQuiet DEF Create, TypeOK, tally
<1>3. ASSUME NEW u \in Users, NEW i \in Ids, CancelRead(u, i)
      PROVE  TriggeredInv'
  BY <1>3, TriggeredQuiet DEF CancelRead, tally
<1>4. ASSUME NEW u \in Users, CancelSet(u) PROVE TriggeredInv'
  BY <1>4, TriggeredQuiet DEF CancelSet, SetStatus, TypeOK, tally
<1>5. ASSUME NEW S \in Clearings, Delete(S) PROVE TriggeredInv'
  BY <1>5, TriggeredQuiet DEF Delete, tally
<1>6. ASSUME NEW s \in Schedulers, Read(s) PROVE TriggeredInv'
  BY <1>6, TriggeredQuiet DEF Read
<1>7. ASSUME NEW s \in Schedulers, NEW i \in Ids,
             NEW o \in {"triggered", "failed"}, Notify(s, i, o)
      PROVE  TriggeredInv'
  <2>1. DeliveredGrows
    BY <1>7, DeliveredStep DEF Next, Step
  <2>2. o = "triggered" => delivered'[i] > 0
    BY <1>7 DEF Notify, TypeOK
  <2>3. TriggeredWasDelivered'
    BY <1>7, <2>1 DEF Notify, DeliveredGrows, TriggeredInv, TriggeredWasDelivered
  <2>4. ASSUME NEW t \in Schedulers, current'[t] # None, outcome'[t] = "triggered"
        PROVE  delivered'[current'[t]] > 0
    <3>1. CASE t = s
      BY <1>7, <2>2, <2>4, <3>1 DEF Notify, TypeOK
    <3>2. CASE t # s
      BY <1>7, <2>1, <2>4, <3>2
      DEF Notify, TypeOK, DeliveredGrows, TriggeredInv, NotifiedWasDelivered
    <3> QED
      BY <3>1, <3>2
  <2> QED
    BY <2>3, <2>4 DEF TriggeredInv, NotifiedWasDelivered
<1>8. ASSUME NEW s \in Schedulers, NEW o \in {"triggered", "failed"}, Mark(s, o)
      PROVE  TriggeredInv'
  <2>1. NotifiedWasDelivered'
    BY <1>8 DEF Mark, TypeOK, TriggeredInv, NotifiedWasDelivered, tally
  <2>2. ASSUME NEW i \in Ids, status'[i] = "triggered"
        PROVE  delivered'[i] > 0
    <3>1. CASE i = current[s] /\ outcome[s] = "triggered"
      BY <1>8, <3>1 DEF Mark, TriggeredInv, NotifiedWasDelivered, tally
    <3>2. CASE ~(i = current[s] /\ outcome[s] = "triggered")
      <4>1. status[i] = "triggered"
        BY <1>8, <2>2, <3>2 DEF Mark, SetStatus, TypeOK, tally
      <4> QED
        BY <1>8, <4>1 DEF Mark, TriggeredInv, TriggeredWasDelivered, tally
    <3> QED
      BY <3>1, <3>2
  <2> QED
    BY <2>1, <2>2 DEF TriggeredInv, TriggeredWasDelivered
<1>9. ASSUME NEW s \in Schedulers, Crash(s) PROVE TriggeredInv'
  BY <1>9, TriggeredQuiet DEF Crash, TypeOK
<1>10. CASE Tick
  BY <1>10, TriggeredQuiet DEF Tick, tally
<1> QED
  BY <1>1, <1>2, <1>3, <1>4, <1>5, <1>6, <1>7, <1>8, <1>9, <1>10 DEF Next, Step

\* Whatever is cancelled, cleared, cut short or marked late: a reminder says it
\* was triggered only if it was delivered.
THEOREM TriggeredCorrect == Spec => []TriggeredWasDelivered
<1>1. Init => TriggeredInv
  BY DEF Init, TriggeredInv, TriggeredWasDelivered, NotifiedWasDelivered
<1>2. TriggeredInv => TriggeredWasDelivered
  BY DEF TriggeredInv
<1> QED
  BY <1>1, <1>2, TriggeredStep, ReminderTypeCorrect, PTL DEF Spec
-----------------------------------------------------------------------------
(***************************************************************************)
(* A delivery is repeated only for a tick that was cut, or for a second    *)
(* scheduler that read the reminder while another had it in hand.          *)
(***************************************************************************)
ReadBy(i) == {s \in Schedulers : i \in batch[s]}
NotifiedBy(i) == {s \in Schedulers : current[s] = i}

\* A row that is read again was delivered by nobody but those who were cut
\* before they marked it or have not marked it yet; and what was delivered and
\* what will be has a first time, a cut or a contest to answer for it.
DeliveriesOK(i) ==
  /\ status[i] \in {"absent", "pending"} =>
       delivered[i] <= cuts[i] + Cardinality(NotifiedBy(i))
  /\ delivered[i] + Cardinality(ReadBy(i)) <= 1 + cuts[i] + contested[i]

\* What a tick has read was created, and is read or notified but not both.
WorkExists ==
  \A s \in Schedulers, i \in Ids :
    /\ i \in batch[s] \/ current[s] = i => status[i] # "absent"
    /\ ~(i \in batch[s] /\ current[s] = i)

RepeatInv == WorkExists /\ \A i \in Ids : DeliveriesOK(i)

LEMMA WorkExistsStep == TypeOK /\ WorkExists /\ [Next]_vars => WorkExists'
<1> SUFFICES ASSUME TypeOK, WorkExists, [Next]_vars PROVE WorkExists'
  OBVIOUS
<1> USE NoneNotId DEF TypeOK, WorkExists
<1>1. CASE UNCHANGED vars
  BY <1>1 DEF vars
<1>2. ASSUME NEW i \in Ids, NEW d \in 0..MaxTime, Create(i, d) PROVE WorkExists'
  BY <1>2 DEF Create
<1>3. ASSUME NEW u \in Users, NEW i \in Ids, CancelRead(u, i) PROVE WorkExists'
  BY <1>3 DEF CancelRead
<1>4. ASSUME NEW u \in Users, CancelSet(u) PROVE WorkExists'
  BY <1>4 DEF CancelSet, SetStatus
<1>5. ASSUME NEW S \in Clearings, Delete(S) PROVE WorkExists'
  BY <1>5 DEF Delete
<1>6. ASSUME NEW s \in Schedulers, Read(s) PROVE WorkExists'
  BY <1>6 DEF Read, Earliest, DuePending, Resting
<1>7. ASSUME NEW s \in Schedulers, NEW i \in Ids,
             NEW o \in {"triggered", "failed"}, Notify(s, i, o)
      PROVE  WorkExists'
  BY <1>7 DEF Notify
<1>8. ASSUME NEW s \in Schedulers, NEW o \in {"triggered", "failed"}, Mark(s, o)
      PROVE  WorkExists'
  BY <1>8 DEF Mark, SetStatus
<1>9. ASSUME NEW s \in Schedulers, Crash(s) PROVE WorkExists'
  BY <1>9 DEF Crash
<1>10. CASE Tick
  BY <1>10 DEF Tick
<1> QED
  BY <1>1, <1>2, <1>3, <1>4, <1>5, <1>6, <1>7, <1>8, <1>9, <1>10 DEF Next, Step

\* Sets of schedulers are finite, so they can be counted and compared.
LEMMA SomeSchedulers ==
  ASSUME NEW S \in SUBSET Schedulers
  PROVE  IsFiniteSet(S) /\ Cardinality(S) \in Nat
BY SchedulersFinite, FS_Subset, FS_CardinalityType

LEMMA OneMore ==
  ASSUME NEW S \in SUBSET Schedulers, NEW T \in SUBSET Schedulers,
         NEW s, T \subseteq S \cup {s}
  PROVE  Cardinality(T) <= Cardinality(S) + 1
<1>1. IsFiniteSet(S) /\ Cardinality(S) \in Nat /\ Cardinality(T) \in Nat
  BY SomeSchedulers
<1>2. /\ IsFiniteSet(S \cup {s})
      /\ Cardinality(S \cup {s}) =
           IF s \in S THEN Cardinality(S) ELSE Cardinality(S) + 1
  BY <1>1, FS_AddElement
<1>3. Cardinality(T) <= Cardinality(S \cup {s})
  BY <1>2, FS_Subset
<1> QED
  BY <1>1, <1>2, <1>3

LEMMA OneLess ==
  ASSUME NEW S \in SUBSET Schedulers, NEW T \in SUBSET Schedulers,
         NEW s \in S, T = S \ {s}
  PROVE  Cardinality(T) = Cardinality(S) - 1
BY SomeSchedulers, FS_RemoveElement

LEMMA NoMore ==
  ASSUME NEW S \in SUBSET Schedulers, NEW T \in SUBSET S
  PROVE  Cardinality(T) <= Cardinality(S)
BY SomeSchedulers, FS_Subset

LEMMA Numbers ==
  ASSUME TypeOK, NEW i \in Ids
  PROVE  /\ delivered[i] \in Nat /\ cuts[i] \in Nat /\ contested[i] \in Nat
         /\ Cardinality(ReadBy(i)) \in Nat /\ Cardinality(NotifiedBy(i)) \in Nat
         /\ ReadBy(i) \in SUBSET Schedulers /\ NotifiedBy(i) \in SUBSET Schedulers
<1>1. ReadBy(i) \in SUBSET Schedulers /\ NotifiedBy(i) \in SUBSET Schedulers
  BY DEF ReadBy, NotifiedBy
<1>2. Cardinality(ReadBy(i)) \in Nat /\ Cardinality(NotifiedBy(i)) \in Nat
  BY <1>1, SomeSchedulers
<1> QED
  BY <1>1, <1>2 DEF TypeOK

\* Steps that deliver and read nothing, and mark what they let go of.
LEMMA RepeatQuiet ==
  ASSUME NEW i \in Ids, DeliveriesOK(i),
         UNCHANGED <<delivered, cuts, contested>>,
         ReadBy(i)' = ReadBy(i),
         status'[i] \in {"absent", "pending"} =>
           status[i] \in {"absent", "pending"} /\ NotifiedBy(i)' = NotifiedBy(i)
  PROVE  DeliveriesOK(i)'
BY DEF DeliveriesOK

LEMMA RepeatStep == TypeOK /\ RepeatInv /\ [Next]_vars => RepeatInv'
<1> SUFFICES ASSUME TypeOK, RepeatInv, [Next]_vars, NEW j \in Ids
             PROVE  DeliveriesOK(j)'
  BY WorkExistsStep DEF RepeatInv
<1>a. DeliveriesOK(j) /\ WorkExists
  BY DEF RepeatInv
<1>b. TypeOK'
  BY ReminderTypeStep
<1>c. UNCHANGED batch => ReadBy(j)' = ReadBy(j)
  BY DEF ReadBy
<1>d. UNCHANGED current => NotifiedBy(j)' = NotifiedBy(j)
  BY DEF NotifiedBy
<1>1. CASE UNCHANGED vars
  BY <1>a, <1>c, <1>d, <1>1, RepeatQuiet DEF vars, tally
<1>2. ASSUME NEW i \in Ids, NEW d \in 0..MaxTime, Create(i, d)
      PROVE  DeliveriesOK(j)'
  BY <1>a, <1>c, <1>d, <1>2, RepeatQuiet DEF Create, TypeOK, tally
<1>3. ASSUME NEW u \in Users, NEW i \in Ids, CancelRead(u, i)
      PROVE  DeliveriesOK(j)'
  BY <1>a, <1>c, <1>d, <1>3, RepeatQuiet DEF CancelRead, tally
<1>4. ASSUME NEW u \in Users, CancelSet(u) PROVE DeliveriesOK(j)'
  BY <1>a, <1>c, <1>d, <1>4, RepeatQuiet DEF CancelSet, SetStatus, TypeOK, tally
<1>5. ASSUME NEW S \in Clearings, Delete(S) PROVE DeliveriesOK(j)'
  BY <1>a, <1>c, <1>d, <1>5, RepeatQuiet DEF Delete, tally
<1>6. ASSUME NEW s \in Schedulers, Read(s) PROVE DeliveriesOK(j)'
  <2>1. PICK T \in Earliest(DuePending, Limit) :
               /\ batch' = [batch EXCEPT ![s] = T]
               /\ contested' = [i \in Ids |-> IF i \in T /\ InHand(i)
                                              THEN contested[i] + 1 ELSE contested[i]]
    BY <1>6 DEF Read
  <2>2. /\ UNCHANGED <<status, current, delivered, cuts>>
        /\ NotifiedBy(j)' = NotifiedBy(j)
        /\ batch[s] = {}
    BY <1>d, <1>6 DEF Read, Resting
  <2>3. CASE j \notin T
    <3>1. ReadBy(j)' = ReadBy(j)
      BY <2>1, <2>2, <2>3 DEF ReadBy, TypeOK
    <3>2. contested'[j] = contested[j]
      BY <2>1, <2>3
    <3> QED
      BY <1>a, <2>2, <3>1, <3>2 DEF DeliveriesOK
  <2>4. CASE j \in T /\ InHand(j)
    <3>1. ReadBy(j)' \subseteq ReadBy(j) \cup {s}
      BY <2>1, <2>2 DEF ReadBy, TypeOK
    <3>2. Cardinality(ReadBy(j)') <= Cardinality(ReadBy(j)) + 1
      BY <1>b, <3>1, OneMore, Numbers DEF ReadBy
    <3>3. contested'[j] = contested[j] + 1
      BY <2>1, <2>4
    <3>4. Cardinality(ReadBy(j)') \in Nat
      BY SomeSchedulers DEF ReadBy
    <3> QED
      BY <1>a, <2>2, <3>2, <3>3, <3>4, Numbers DEF DeliveriesOK
  <2>5. CASE j \in T /\ ~InHand(j)
    <3>1. ReadBy(j) = {} /\ NotifiedBy(j) = {}
      BY <2>5 DEF InHand, ReadBy, NotifiedBy
    <3>2. status[j] = "pending"
      BY <2>5 DEF Earliest, DuePending
    <3>3. delivered[j] <= cuts[j]
      BY <1>a, <3>1, <3>2, FS_EmptySet, Numbers DEF DeliveriesOK
    <3>4. Cardinality(ReadBy(j)') <= 1
      <4>1. ReadBy(j)' \subseteq {} \cup {s}
        BY <2>1, <3>1 DEF ReadBy, TypeOK
      <4>2. ReadBy(j)' \in SUBSET Schedulers
        BY DEF ReadBy
      <4> QED
        BY <4>1, <4>2, OneMore, FS_EmptySet
    <3>5. contested'[j] = contested[j]
      BY <2>1, <2>5
    <3>6. Cardinality(ReadBy(j)') \in Nat
      BY SomeSchedulers DEF ReadBy
    <3> QED
      BY <1>a, <2>2, <3>3, <3>4, <3>5, <3>6, Numbers DEF DeliveriesOK
  <2> QED
    BY <2>3, <2>4, <2>5
<1>7. ASSUME NEW s \in Schedulers, NEW i \in Ids,
             NEW o \in {"triggered", "failed"}, Notify(s, i, o)
      PROVE  DeliveriesOK(j)'
  <2>0. UNCHANGED <<status, cuts, contested>>
    BY <1>7 DEF Notify
  <2>1. CASE j = i
    <3>1. /\ delivered'[j] <= delivered[j] + 1
          /\ delivered'[j] \in Nat
      BY <1>b, <1>7, <2>1 DEF Notify, TypeOK
    <3>2. s \in ReadBy(j) /\ ReadBy(j)' = ReadBy(j) \ {s}
      BY <1>7, <2>1 DEF Notify, ReadBy, TypeOK
    <3>3. s \in NotifiedBy(j)' /\ NotifiedBy(j) = NotifiedBy(j)' \ {s}
      BY <1>7, <2>1, NoneNotId DEF Notify, NotifiedBy, TypeOK
    <3>4. ReadBy(j)' \in SUBSET Schedulers /\ NotifiedBy(j)' \in SUBSET Schedulers
      BY DEF ReadBy, NotifiedBy
    <3>5. Cardinality(ReadBy(j)') = Cardinality(ReadBy(j)) - 1
      BY <3>2, <3>4, OneLess, Numbers
    <3>6. Cardinality(NotifiedBy(j)) = Cardinality(NotifiedBy(j)') - 1
      BY <3>3, <3>4, OneLess, Numbers
    <3>7. Cardinality(NotifiedBy(j)') \in Nat
      BY <3>4, SomeSchedulers
    <3> QED
      BY <1>a, <2>0, <3>1, <3>5, <3>6, <3>7, Numbers DEF DeliveriesOK
  <2>2. CASE j # i
    <3>1. delivered'[j] = delivered[j]
      BY <1>7, <2>2 DEF Notify, TypeOK
    <3>2. ReadBy(j)' = ReadBy(j)
      BY <1>7, <2>2 DEF Notify, ReadBy, TypeOK
    <3>3. NotifiedBy(j)' = NotifiedBy(j)
      BY <1>7, <2>2, NoneNotId DEF Notify, NotifiedBy, TypeOK
    <3> QED
      BY <1>a, <2>0, <3>1, <3>2, <3>3 DEF DeliveriesOK
  <2> QED
    BY <2>1, <2>2
<1>8. ASSUME NEW s \in Schedulers, NEW o \in {"triggered", "failed"}, Mark(s, o)
      PROVE  DeliveriesOK(j)'
  <2>1. CASE j = current[s]
    <3>1. status'[j] \notin {"absent", "pending"}
      BY <1>a, <1>8, <2>1
      DEF Mark, SetStatus, Exists, WorkExists, TypeOK, Closed, tally
    <3> QED
      BY <1>a, <1>c, <1>8, <3>1, RepeatQuiet DEF Mark, tally
  <2>2. CASE j # current[s]
    <3>1. NotifiedBy(j)' = NotifiedBy(j)
      BY <1>8, <2>2, NoneNotId DEF Mark, NotifiedBy, TypeOK, tally
    <3>2. status'[j] = status[j]
      BY <1>8, <2>2 DEF Mark, SetStatus, TypeOK, tally
    <3> QED
      BY <1>a, <1>c, <1>8, <3>1, <3>2, RepeatQuiet DEF Mark, tally
  <2> QED
    BY <2>1, <2>2
<1>9. ASSUME NEW s \in Schedulers, Crash(s) PROVE DeliveriesOK(j)'
  <2>0. UNCHANGED <<status, delivered, contested>>
    BY <1>9 DEF Crash
  <2>1. ReadBy(j)' \in SUBSET ReadBy(j)
    BY <1>9 DEF Crash, ReadBy, TypeOK
  <2>2. Cardinality(ReadBy(j)') <= Cardinality(ReadBy(j))
    BY <2>1, NoMore, Numbers
  <2>3. Cardinality(ReadBy(j)') \in Nat /\ Cardinality(NotifiedBy(j)') \in Nat
    BY SomeSchedulers DEF ReadBy, NotifiedBy
  <2>4. CASE j = current[s]
    <3>1. cuts'[j] = cuts[j] + 1
      BY <1>9, <2>4 DEF Crash
    <3>2. s \in NotifiedBy(j) /\ NotifiedBy(j)' = NotifiedBy(j) \ {s}
      BY <1>9, <2>4, NoneNotId DEF Crash, NotifiedBy, TypeOK
    <3>3. NotifiedBy(j)' \in SUBSET Schedulers
      BY DEF NotifiedBy
    <3>4. Cardinality(NotifiedBy(j)') = Cardinality(NotifiedBy(j)) - 1
      BY <3>2, <3>3, OneLess, Numbers
    <3> QED
      BY <1>a, <2>0, <2>2, <2>3, <3>1, <3>4, Numbers DEF DeliveriesOK
  <2>5. CASE j # current[s]
    <3>1. cuts'[j] = cuts[j]
      BY <1>9, <2>5 DEF Crash
    <3>2. NotifiedBy(j)' = NotifiedBy(j)
      BY <1>9, <2>5, NoneNotId DEF Crash, NotifiedBy, TypeOK
    <3> QED
      BY <1>a, <2>0, <2>2, <2>3, <3>1, <3>2, Numbers DEF DeliveriesOK
  <2> QED
    BY <2>4, <2>5
<1>10. CASE Tick
  BY <1>a, <1>c, <1>d, <1>10, RepeatQuiet DEF Tick, tally
<1> QED
  BY <1>1, <1>2, <1>3, <1>4, <1>5, <1>6, <1>7, <1>8, <1>9, <1>10 DEF Next, Step

\* However many schedulers, users and reminders there are, each delivery of a
\* reminder but the first has a cut tick, or a second scheduler that read it
\* while another had it in hand, to answer for it.
THEOREM RepeatedCorrect == Spec => []RepeatsExplained
<1>1. Init => RepeatInv
  <2>1. Init => WorkExists
    BY NoneNotId DEF Init, WorkExists
  <2>2. ASSUME Init, NEW i \in Ids PROVE DeliveriesOK(i)
    <3>1. ReadBy(i) = {} /\ NotifiedBy(i) = {}
      BY <2>2, NoneNotId DEF Init, ReadBy, NotifiedBy
    <3> QED
      BY <2>2, <3>1, FS_EmptySet DEF Init, DeliveriesOK
  <2> QED
    BY <2>1, <2>2 DEF RepeatInv
<1>2. TypeOK /\ RepeatInv => RepeatsExplained
  BY Numbers DEF RepeatInv, DeliveriesOK, RepeatsExplained
<1> QED
  BY <1>1, <1>2, RepeatStep, ReminderTypeCorrect, PTL DEF Spec
-----------------------------------------------------------------------------
\* A cleared reminder stays cleared: the only statement that inserts a row is
\* Create, with an id of its own, and an UPDATE of a row that is gone is void.
THEOREM ClearedCorrect == Spec => ClearedStaysCleared
<1> DEFINE Stays == \A i \in Ids : status[i] = "deleted" => status'[i] = "deleted"
<1>1. ASSUME TypeOK, Next PROVE Stays
  BY <1>1 DEF TypeOK, Next, Step, tally, Create, CancelRead, CancelSet, Delete, Read,
     Notify, Mark, Crash, Tick, SetStatus, Exists, Clearings, Closed
<1>2. TypeOK /\ [Next]_vars => [Stays]_vars
  BY <1>1
<1> QED
  BY <1>2, ReminderTypeCorrect, PTL DEF Spec, ClearedStaysCleared

-----------------------------------------------------------------------------
(***************************************************************************)
(* Commands on files.  Where a call stands tells whether it has changed    *)
(* anything yet, and what its executor said tells it afterwards.           *)
(***************************************************************************)
Places == {"idle", "look", "ask", "act", "fill", "validate", "authorize", "execute",
           "finished", "verify", "translate"}
AsksBack == {"needs_confirmation", "unsupported", "ambiguous", "blocked"}

\* What a call k that stands at l has done.
CallFits(l, k) ==
  /\ k.answer # "none" => l = "idle"
  /\ l \in {"look", "ask", "act", "validate", "authorize", "execute"} =>
       ~k.wrote /\ k.result = "none"
  /\ l \in {"look", "ask"} => k.req.door = "executor"
  /\ l = "ask" => k.req.do = "delete"
  /\ l = "act" /\ k.req.do # "delete" => k.free
  /\ l = "act" /\ k.req.door = "kernel" => k.req.do = "copy"
  /\ l = "fill" => /\ k.wrote /\ k.free /\ k.result = "none"
                   /\ k.req.do \in {"copy", "zip"}
  /\ l \in {"finished", "verify", "translate"} =>
       /\ k.result = "succeeded" => k.wrote
       /\ k.result \in {"none", "blocked", "existed"} => ~k.wrote
       /\ k.completed => k.result \in {"succeeded", "existed"}
       /\ k.result = "existed" => k.req.do # "copy"
  /\ l = "verify" => k.result \in {"succeeded", "existed"}
  /\ k.completed => l = "translate"
  /\ k.answer = "handled" => k.wrote
  /\ k.answer \in AsksBack => ~k.wrote \/ k.result = "failed"

FileInv == FileTypeOK /\ \A c \in Callers : CallFits(pc[c], call[c])

LEMMA NoCallTyped ==
  /\ NoCall \in Calls /\ NoCall.answer = "none" /\ NoCall.result = "none"
  /\ ~NoCall.wrote /\ ~NoCall.completed
<1>1. (CHOOSE r \in Requests : TRUE) \in Requests /\ (CHOOSE p \in Files : TRUE) \in Files
  BY FileAssumption
<1>2. Absent \in Entries
  BY FileAssumption DEF Absent, Entries
<1> QED
  BY <1>1, <1>2 DEF NoCall, Calls

\* What may be asked for.
LEMMA RequestTyped ==
  ASSUME NEW r \in Requests
  PROVE  /\ r.do \in Deeds /\ r.src \in Paths /\ r.dst \in Paths
         /\ r.do # "folder" => r.src \in Files /\ r.dst \in Files
         /\ r.door = "kernel" => r.do \in {"copy", "folder"}
         /\ r.door \in {"kernel", "executor"}
BY FileAssumption DEF Commands

\* A step of one call.
LEMMA OneCall ==
  ASSUME FileInv, NEW c \in Callers, NEW l \in Places, NEW k \in Calls, CallFits(l, k),
         Goto(c, l), Note(c, k) \/ (UNCHANGED call /\ k = call[c]),
         fs' \in [Paths -> Entries], requests' \in 0 .. MaxRequests,
         content' \in 0 .. MaxContent
  PROVE  FileInv'
<1>1. pc \in [Callers -> Places] /\ call \in [Callers -> Calls]
  BY DEF FileInv, FileTypeOK, Places
<1>2. pc' = [pc EXCEPT ![c] = l] /\ call' = [call EXCEPT ![c] = k]
  BY <1>1 DEF Goto, Note
<1>3. pc' \in [Callers -> Places] /\ call' \in [Callers -> Calls]
  BY <1>1, <1>2
<1>4. \A d \in Callers : CallFits(pc'[d], call'[d])
  BY <1>1, <1>2 DEF FileInv
<1>5. (\A d \in Callers : CallFits(pc[d], call[d]))'
  BY <1>4 DEF CallFits
<1> QED
  BY <1>3, <1>5 DEF FileInv, FileTypeOK, Places

\* A call that is answered.
LEMMA Answered ==
  ASSUME FileInv, NEW c \in Callers, NEW k \in Calls, NEW a, Answer(c, k, a),
         a \in {"handled", "error", "blocked", "unsupported", "ambiguous", "needs_confirmation"},
         a = "handled" => k.wrote, a \in AsksBack => ~k.wrote \/ k.result = "failed",
         fs' \in [Paths -> Entries], requests' \in 0 .. MaxRequests,
         content' \in 0 .. MaxContent
  PROVE  FileInv'
<1> DEFINE n == [NoCall EXCEPT !.answer = a, !.wrote = k.wrote, !.result = k.result]
<1>1. n \in Calls /\ n.answer = a /\ n.wrote = k.wrote /\ n.result = k.result /\ ~n.completed
  BY NoCallTyped DEF Calls
<1>2. Goto(c, "idle") /\ Note(c, n)
  BY DEF Answer
<1> HIDE DEF n
<1>3. CallFits("idle", n)
  BY <1>1 DEF CallFits
<1> QED
  BY <1>1, <1>2, <1>3, OneCall DEF Places

\* What a step that changes no file leaves typed.
LEMMA FilesKept ==
  ASSUME FileInv, UNCHANGED <<fs, requests, content>>
  PROVE  /\ fs' \in [Paths -> Entries] /\ requests' \in 0 .. MaxRequests
         /\ content' \in 0 .. MaxContent
BY DEF FileInv, FileTypeOK

LEMMA CallTyped ==
  ASSUME FileInv, NEW c \in Callers
  PROVE  /\ call[c] \in Calls /\ call[c].req \in Requests /\ call[c].from \in Files
         /\ pc[c] \in Places /\ CallFits(pc[c], call[c])
         /\ fs \in [Paths -> Entries]
         /\ content \in 0 .. MaxContent /\ requests \in 0 .. MaxRequests
BY DEF FileInv, FileTypeOK, Places, Calls

LEMMA WroteTyped ==
  ASSUME FileInv, NEW c \in Callers
  PROVE  /\ Wrote(c) \in Calls /\ Wrote(c).wrote
         /\ Wrote(c).req = call[c].req /\ Wrote(c).result = call[c].result
         /\ Wrote(c).free = call[c].free /\ Wrote(c).completed = call[c].completed
         /\ Wrote(c).answer = call[c].answer
BY CallTyped DEF Wrote, Calls

LEMMA EntriesTyped ==
  /\ Absent \in Entries /\ EmptyFolder \in Entries /\ File(0) \in Entries
  /\ \A v \in 0 .. MaxContent :
       File(v) \in Entries /\ [kind |-> "folder", data |-> v] \in Entries
BY FileAssumption DEF Entries, Absent, EmptyFolder, File

LEMMA PutTyped ==
  ASSUME fs \in [Paths -> Entries], NEW p, NEW e \in Entries, Put(p, e)
  PROVE  fs' \in [Paths -> Entries]
BY DEF Put

LEMMA NewContentTyped ==
  ASSUME content \in 0 .. MaxContent, NewContent
  PROVE  content' \in 0 .. MaxContent
BY FileAssumption DEF NewContent

\* A name stands for a file.
LEMMA ResolvedTyped ==
  ASSUME NEW p \in Files, Cardinality(Candidates(p)) = 1
  PROVE  Resolved(p) \in Files
<1>1. Candidates(p) # {}
  BY FS_EmptySet
<1>2. Candidates(p) \subseteq Files
  BY FileAssumption DEF Candidates
<1> QED
  BY <1>1, <1>2 DEF Resolved

-----------------------------------------------------------------------------
\* The steps of FileExecutor.
LEMMA CommandStep ==
  ASSUME FileInv, NEW c \in Callers, NEW r \in Requests, Command(c, r)
  PROVE  FileInv'
<1> DEFINE k == [NoCall EXCEPT !.req = r, !.from = IF r.src \in Files THEN r.src ELSE @]
           l == IF r.door = "kernel" THEN "validate" ELSE "look"
<1>1. k \in Calls /\ k.answer = "none" /\ k.result = "none" /\ ~k.wrote /\ ~k.completed
      /\ k.req = r
  BY NoCallTyped DEF Calls
<1>2. Goto(c, l) /\ Note(c, k) /\ l \in Places /\ l \in {"validate", "look"}
      /\ (l = "look" => r.door = "executor")
  BY RequestTyped DEF Command, Places
<1> HIDE DEF k, l
<1>3. CallFits(l, k)
  BY <1>1, <1>2 DEF CallFits, AsksBack
<1>4. fs' \in [Paths -> Entries] /\ requests' \in 0 .. MaxRequests /\ content' \in 0 .. MaxContent
  BY CallTyped, FileAssumption DEF Command
<1> QED
  BY <1>1, <1>2, <1>3, <1>4, OneCall

LEMMA LookStep ==
  ASSUME FileInv, NEW c \in Callers, Look(c)
  PROVE  FileInv'
<1> DEFINE r == call[c].req
           named == r.do \notin {"create", "folder"}
           q == IF named THEN Resolved(r.src) ELSE call[c].from
           n == [call[c] EXCEPT !.from = q, !.free = ~There(r.dst)]
<1>0. /\ call[c] \in Calls /\ r \in Requests /\ pc[c] = "look" /\ ~call[c].wrote
      /\ call[c].answer = "none" /\ call[c].result = "none" /\ ~call[c].completed
      /\ r.door = "executor"
  BY CallTyped DEF Look, CallFits
<1>1. fs' \in [Paths -> Entries] /\ requests' \in 0 .. MaxRequests /\ content' \in 0 .. MaxContent
  BY FilesKept DEF Look
<1>2. CASE \E a \in {"error", "ambiguous"} : Answer(c, call[c], a)
  BY <1>0, <1>1, <1>2, Answered
<1>3. CASE named => Cardinality(Candidates(r.src)) = 1
  <2>1. q \in Files
    BY <1>0, <1>3, CallTyped, RequestTyped, ResolvedTyped
  <2>2. n \in Calls /\ n.req = r /\ n.answer = "none" /\ n.result = "none" /\ ~n.wrote
        /\ ~n.completed /\ n.free = ~There(r.dst)
    <3> HIDE DEF q
    <3> QED
      BY <1>0, <2>1 DEF Calls
  <2>3. \/ Answer(c, n, "needs_confirmation")
        \/ Goto(c, "ask") /\ Note(c, n) /\ r.do = "delete"
        \/ Goto(c, "act") /\ Note(c, n) /\ (r.do = "delete" \/ ~Taken(fs[r.dst]))
        \/ \E a \in {"error", "ambiguous"} : Answer(c, call[c], a)
    BY DEF Look
  <2> HIDE DEF n, q
  <2>4. CASE Answer(c, n, "needs_confirmation")
    BY <1>1, <2>2, <2>4, Answered
  <2>5. CASE Goto(c, "ask") /\ Note(c, n) /\ r.do = "delete"
    <3>1. CallFits("ask", n)
      BY <1>0, <2>2, <2>5 DEF CallFits, AsksBack
    <3> QED
      BY <1>1, <2>2, <2>5, <3>1, OneCall DEF Places
  <2>6. CASE Goto(c, "act") /\ Note(c, n) /\ (r.do = "delete" \/ ~Taken(fs[r.dst]))
    <3>1. CallFits("act", n)
      BY <1>0, <2>2, <2>6 DEF CallFits, AsksBack, Taken, There
    <3> QED
      BY <1>1, <2>2, <2>6, <3>1, OneCall DEF Places
  <2> QED
    BY <1>2, <2>3, <2>4, <2>5, <2>6
<1>4. (named => Cardinality(Candidates(r.src)) = 1)
      \/ \E a \in {"error", "ambiguous"} : Answer(c, call[c], a)
  BY DEF Look
<1> QED
  BY <1>2, <1>3, <1>4

LEMMA ConfirmStep ==
  ASSUME FileInv, NEW c \in Callers, NEW yes \in BOOLEAN, Confirm(c, yes)
  PROVE  FileInv'
<1>0. /\ call[c] \in Calls /\ pc[c] = "ask" /\ ~call[c].wrote
      /\ call[c].answer = "none" /\ call[c].result = "none" /\ ~call[c].completed
  BY CallTyped DEF Confirm, CallFits
<1>1. fs' \in [Paths -> Entries] /\ requests' \in 0 .. MaxRequests /\ content' \in 0 .. MaxContent
  BY FilesKept DEF Confirm
<1>2. CASE yes
  <2>1. CallFits("act", call[c])
    BY CallTyped DEF Confirm, CallFits
  <2>2. Goto(c, "act") /\ UNCHANGED call
    BY <1>2 DEF Confirm
  <2> QED
    BY <1>0, <1>1, <2>1, <2>2, OneCall DEF Places
<1>3. CASE ~yes
  <2>1. Answer(c, call[c], "needs_confirmation")
    BY <1>3 DEF Confirm
  <2> QED
    BY <1>0, <1>1, <2>1, Answered
<1> QED
  BY <1>2, <1>3

LEMMA ActStep ==
  ASSUME FileInv, NEW c \in Callers, Act(c)
  PROVE  FileInv'
<1> DEFINE r == call[c].req
           s == call[c].from
<1>0. /\ call[c] \in Calls /\ r \in Requests /\ s \in Files /\ pc[c] = "act"
      /\ fs \in [Paths -> Entries] /\ content \in 0 .. MaxContent
      /\ call[c].result = "none" /\ ~call[c].completed /\ call[c].answer = "none"
      /\ ~call[c].wrote /\ (r.do # "delete" => call[c].free)
  BY CallTyped DEF Act, CallFits
<1>1. requests' \in 0 .. MaxRequests
  BY CallTyped DEF Act
<1>2. CASE Breaks(c)
  <2>1. Answer(c, call[c], "error") /\ fs' = fs /\ content' = content
    BY <1>2 DEF Breaks
  <2> QED
    BY <1>0, <1>1, <2>1, Answered DEF AsksBack
<1>3. CASE /\ Answer(c, Wrote(c), "handled")
           /\ fs' \in [Paths -> Entries] /\ content' \in 0 .. MaxContent
  BY <1>1, <1>3, WroteTyped, Answered DEF AsksBack
<1>4. CASE /\ r.do \in {"copy", "zip"} /\ Put(r.dst, File(0)) /\ Goto(c, "fill")
           /\ Note(c, Wrote(c)) /\ content' = content
  <2>1. CallFits("fill", Wrote(c))
    BY <1>0, <1>4, WroteTyped DEF CallFits, AsksBack
  <2>2. fs' \in [Paths -> Entries]
    BY <1>0, <1>4, PutTyped, EntriesTyped
  <2> QED
    BY <1>0, <1>1, <1>4, <2>1, <2>2, WroteTyped, OneCall DEF Places
<1>5. \/ Breaks(c)
      \/ /\ Answer(c, Wrote(c), "handled")
         /\ \/ Put(s, Absent) /\ UNCHANGED content
            \/ fs' = [fs EXCEPT ![r.dst] = fs[s], ![s] = Absent] /\ UNCHANGED content
            \/ NewContent /\ Put(r.dst, File(content'))
            \/ Put(r.dst, EmptyFolder) /\ UNCHANGED content
      \/ /\ r.do \in {"copy", "zip"} /\ Put(r.dst, File(0)) /\ Goto(c, "fill")
         /\ Note(c, Wrote(c)) /\ content' = content
  BY DEF Act
<1>6. ASSUME \/ Put(s, Absent) /\ UNCHANGED content
             \/ fs' = [fs EXCEPT ![r.dst] = fs[s], ![s] = Absent] /\ UNCHANGED content
             \/ NewContent /\ Put(r.dst, File(content'))
             \/ Put(r.dst, EmptyFolder) /\ UNCHANGED content
      PROVE  fs' \in [Paths -> Entries] /\ content' \in 0 .. MaxContent
  <2>1. CASE Put(s, Absent) /\ UNCHANGED content
    BY <1>0, <2>1, PutTyped, EntriesTyped
  <2>2. CASE fs' = [fs EXCEPT ![r.dst] = fs[s], ![s] = Absent] /\ UNCHANGED content
    <3>1. fs[s] \in Entries
      BY <1>0 DEF Paths
    <3> QED
      BY <1>0, <2>2, <3>1, EntriesTyped
  <2>3. CASE NewContent /\ Put(r.dst, File(content'))
    BY <1>0, <2>3, NewContentTyped, PutTyped, EntriesTyped
  <2>4. CASE Put(r.dst, EmptyFolder) /\ UNCHANGED content
    BY <1>0, <2>4, PutTyped, EntriesTyped
  <2> QED
    BY <1>6, <2>1, <2>2, <2>3, <2>4
<1> QED
  BY <1>2, <1>3, <1>4, <1>5, <1>6

LEMMA FillStep ==
  ASSUME FileInv, NEW c \in Callers, Fill(c)
  PROVE  FileInv'
<1> DEFINE r == call[c].req
           s == call[c].from
           n(v) == [call[c] EXCEPT !.result = v]
<1>0. /\ call[c] \in Calls /\ r \in Requests /\ s \in Files /\ pc[c] = "fill"
      /\ fs \in [Paths -> Entries] /\ content \in 0 .. MaxContent
      /\ call[c].result = "none" /\ ~call[c].completed /\ call[c].answer = "none"
      /\ call[c].wrote
  BY CallTyped DEF Fill, CallFits
<1>1. requests' \in 0 .. MaxRequests
  BY CallTyped DEF Fill
<1>2. fs' \in [Paths -> Entries] /\ content' \in 0 .. MaxContent
  <2>1. \/ UNCHANGED <<fs, content>>
        \/ Put(r.dst, fs[s]) /\ UNCHANGED content
        \/ NewContent /\ (Put(r.dst, File(content')) \/ UNCHANGED fs)
    BY DEF Fill
  <2>2. fs[s] \in Entries
    BY <1>0 DEF Paths
  <2> QED
    BY <1>0, <2>1, <2>2, NewContentTyped, PutTyped, EntriesTyped
<1>3. \/ \E v \in {"succeeded", "failed"} : Goto(c, "finished") /\ Note(c, n(v))
      \/ \E a \in {"handled", "error"} : Answer(c, call[c], a)
  BY DEF Fill
<1>4. ASSUME NEW v \in {"succeeded", "failed"}, Goto(c, "finished"), Note(c, n(v))
      PROVE  FileInv'
  <2>1. /\ n(v) \in Calls /\ n(v).result = v /\ ~n(v).completed /\ n(v).answer = "none"
        /\ n(v).wrote
    BY <1>0 DEF Calls
  <2> HIDE DEF n
  <2>2. CallFits("finished", n(v))
    BY <2>1 DEF CallFits, AsksBack
  <2> QED
    BY <1>1, <1>2, <1>4, <2>1, <2>2, OneCall DEF Places
<1>5. ASSUME NEW a \in {"handled", "error"}, Answer(c, call[c], a)
      PROVE  FileInv'
  BY <1>0, <1>1, <1>2, <1>5, Answered DEF AsksBack
<1> QED
  BY <1>3, <1>4, <1>5

-----------------------------------------------------------------------------
\* The steps of the kernel.
LEMMA ValidateStep ==
  ASSUME FileInv, NEW c \in Callers, Validate(c)
  PROVE  FileInv'
<1> DEFINE r == call[c].req
           n(q) == [call[c] EXCEPT !.from = q, !.source = fs[q], !.target = fs[r.dst],
                                   !.children = Children, !.free = ~There(r.dst)]
<1>0. /\ call[c] \in Calls /\ r \in Requests /\ call[c].from \in Files /\ pc[c] = "validate"
      /\ fs \in [Paths -> Entries] /\ ~call[c].wrote
      /\ call[c].result = "none" /\ ~call[c].completed /\ call[c].answer = "none"
  BY CallTyped DEF Validate, CallFits
<1>1. fs' \in [Paths -> Entries] /\ requests' \in 0 .. MaxRequests /\ content' \in 0 .. MaxContent
  BY FilesKept DEF Validate
<1>2. CASE Fails(c)
  <2>1. CallFits("translate", call[c])
    BY <1>0 DEF CallFits, AsksBack
  <2> QED
    BY <1>0, <1>1, <1>2, <2>1, OneCall DEF Fails, Places
<1>3. ASSUME NEW q \in Files, Note(c, n(q)), Goto(c, "authorize")
      PROVE  FileInv'
  <2>1. fs[q] \in Entries /\ fs[r.dst] \in Entries /\ Children \in SUBSET Paths
    BY <1>0, RequestTyped DEF Paths, Children
  <2>2. n(q) \in Calls /\ n(q).result = "none" /\ ~n(q).completed /\ n(q).answer = "none"
        /\ ~n(q).wrote
    BY <1>0, <2>1 DEF Calls
  <2> HIDE DEF n
  <2>3. CallFits("authorize", n(q))
    BY <2>2 DEF CallFits, AsksBack
  <2> QED
    BY <1>1, <1>3, <2>2, <2>3, OneCall DEF Places
<1>4. r.do = "copy" /\ Cardinality(Candidates(r.src)) = 1 => Resolved(r.src) \in Files
  BY <1>0, RequestTyped, ResolvedTyped
<1> QED
  BY <1>0, <1>2, <1>3, <1>4 DEF Validate

LEMMA AuthorizeStep ==
  ASSUME FileInv, NEW c \in Callers, Authorize(c)
  PROVE  FileInv'
<1> DEFINE n == [call[c] EXCEPT !.result = "blocked"]
<1>0. /\ call[c] \in Calls /\ pc[c] = "authorize" /\ ~call[c].wrote
      /\ call[c].result = "none" /\ ~call[c].completed /\ call[c].answer = "none"
  BY CallTyped DEF Authorize, CallFits
<1>1. fs' \in [Paths -> Entries] /\ requests' \in 0 .. MaxRequests /\ content' \in 0 .. MaxContent
  BY FilesKept DEF Authorize
<1>2. CallFits("translate", call[c]) /\ CallFits("execute", call[c])
  BY <1>0 DEF CallFits, AsksBack
<1>3. /\ n \in Calls /\ n.result = "blocked" /\ ~n.completed /\ n.answer = "none" /\ ~n.wrote
  BY <1>0 DEF Calls
<1>4. \/ Goto(c, "translate") /\ UNCHANGED call
      \/ Goto(c, "execute") /\ UNCHANGED call
      \/ Goto(c, "translate") /\ Note(c, n)
  BY DEF Authorize, Fails
<1> HIDE DEF n
<1>5. CallFits("translate", n)
  BY <1>3 DEF CallFits, AsksBack
<1>6. CASE Goto(c, "translate") /\ UNCHANGED call
  BY <1>0, <1>1, <1>2, <1>6, OneCall DEF Places
<1>7. CASE Goto(c, "execute") /\ UNCHANGED call
  BY <1>0, <1>1, <1>2, <1>7, OneCall DEF Places
<1>8. CASE Goto(c, "translate") /\ Note(c, n)
  BY <1>1, <1>3, <1>5, <1>8, OneCall DEF Places
<1> QED
  BY <1>4, <1>6, <1>7, <1>8

LEMMA ExecuteStep ==
  ASSUME FileInv, NEW c \in Callers, Execute(c)
  PROVE  FileInv'
<1> DEFINE r == call[c].req
           n(v) == [call[c] EXCEPT !.result = v]
           go == [call[c] EXCEPT !.free = ~There(r.dst)]
           made == [Wrote(c) EXCEPT !.result = "succeeded"]
<1>0. /\ call[c] \in Calls /\ pc[c] = "execute" /\ ~call[c].wrote
      /\ call[c].result = "none" /\ ~call[c].completed /\ call[c].answer = "none"
      /\ fs \in [Paths -> Entries]
  BY CallTyped DEF Execute, CallFits
<1>1. requests' \in 0 .. MaxRequests /\ content' \in 0 .. MaxContent
  BY CallTyped DEF Execute
<1>2. \/ r.do = "copy" /\ ~There(r.dst) /\ Goto(c, "act") /\ Note(c, go) /\ UNCHANGED fs
      \/ Goto(c, "translate") /\ Note(c, n("failed")) /\ UNCHANGED fs
      \/ r.do = "folder" /\ Goto(c, "finished") /\ Note(c, n("existed")) /\ UNCHANGED fs
      \/ Goto(c, "finished") /\ Note(c, n("failed")) /\ UNCHANGED fs
      \/ Put(r.dst, EmptyFolder) /\ Goto(c, "finished") /\ Note(c, made)
  BY DEF Execute, Unchanged
<1>3. /\ go \in Calls /\ go.req = r /\ go.result = "none" /\ ~go.completed /\ go.answer = "none"
      /\ ~go.wrote /\ go.free = ~There(r.dst)
  BY <1>0 DEF Calls
<1>4. \A v \in {"failed", "existed"} :
        /\ n(v) \in Calls /\ n(v).req = r /\ n(v).result = v /\ ~n(v).completed
        /\ n(v).answer = "none" /\ ~n(v).wrote
  BY <1>0 DEF Calls
<1>5. /\ made \in Calls /\ made.result = "succeeded" /\ ~made.completed /\ made.answer = "none"
      /\ made.wrote
  BY <1>0, WroteTyped DEF Calls
<1> HIDE DEF n, go, made
<1>6. CASE r.do = "copy" /\ ~There(r.dst) /\ Goto(c, "act") /\ Note(c, go) /\ UNCHANGED fs
  <2>1. CallFits("act", go)
    BY <1>3, <1>6 DEF CallFits, AsksBack
  <2> QED
    BY <1>0, <1>1, <1>3, <1>6, <2>1, OneCall DEF Places
<1>7. CASE Goto(c, "translate") /\ Note(c, n("failed")) /\ UNCHANGED fs
  <2>1. CallFits("translate", n("failed"))
    BY <1>4 DEF CallFits, AsksBack
  <2> QED
    BY <1>0, <1>1, <1>4, <1>7, <2>1, OneCall DEF Places
<1>8. CASE r.do = "folder" /\ Goto(c, "finished") /\ Note(c, n("existed")) /\ UNCHANGED fs
  <2>1. CallFits("finished", n("existed"))
    BY <1>4, <1>8 DEF CallFits, AsksBack
  <2> QED
    BY <1>0, <1>1, <1>4, <1>8, <2>1, OneCall DEF Places
<1>9. CASE Goto(c, "finished") /\ Note(c, n("failed")) /\ UNCHANGED fs
  <2>1. CallFits("finished", n("failed"))
    BY <1>4 DEF CallFits, AsksBack
  <2> QED
    BY <1>0, <1>1, <1>4, <1>9, <2>1, OneCall DEF Places
<1>10. CASE Put(r.dst, EmptyFolder) /\ Goto(c, "finished") /\ Note(c, made)
  <2>1. CallFits("finished", made)
    BY <1>5 DEF CallFits, AsksBack
  <2>2. fs' \in [Paths -> Entries]
    BY <1>0, <1>10, PutTyped, EntriesTyped
  <2> QED
    BY <1>1, <1>5, <1>10, <2>1, <2>2, OneCall DEF Places
<1> QED
  BY <1>2, <1>6, <1>7, <1>8, <1>9, <1>10

LEMMA CopyFileStep ==
  ASSUME FileInv, NEW c \in Callers, CopyFile(c)
  PROVE  FileInv'
<1> DEFINE r == call[c].req
           n == [call[c] EXCEPT !.result = "failed"]
<1>0. /\ call[c] \in Calls /\ pc[c] = "act" /\ ~call[c].wrote /\ r \in Requests
      /\ call[c].result = "none" /\ ~call[c].completed /\ call[c].answer = "none"
      /\ fs \in [Paths -> Entries] /\ call[c].free /\ r.do = "copy"
  BY CallTyped DEF CopyFile, CallFits
<1>1. requests' \in 0 .. MaxRequests /\ content' \in 0 .. MaxContent
  BY CallTyped DEF CopyFile
<1>2. n \in Calls /\ n.result = "failed" /\ ~n.completed /\ n.answer = "none" /\ ~n.wrote
  BY <1>0 DEF Calls
<1>3. \/ Goto(c, "finished") /\ Note(c, n) /\ UNCHANGED fs
      \/ Put(r.dst, File(0)) /\ Goto(c, "fill") /\ Note(c, Wrote(c))
  BY DEF CopyFile
<1> HIDE DEF n
<1>4. CASE Goto(c, "finished") /\ Note(c, n) /\ UNCHANGED fs
  <2>1. CallFits("finished", n)
    BY <1>2 DEF CallFits, AsksBack
  <2> QED
    BY <1>0, <1>1, <1>2, <1>4, <2>1, OneCall DEF Places
<1>5. CASE Put(r.dst, File(0)) /\ Goto(c, "fill") /\ Note(c, Wrote(c)) /\ r.do = "copy"
  <2>1. CallFits("fill", Wrote(c))
    BY <1>0, <1>5, WroteTyped DEF CallFits, AsksBack
  <2>2. fs' \in [Paths -> Entries]
    BY <1>0, <1>5, PutTyped, EntriesTyped
  <2> QED
    BY <1>1, <1>5, <2>1, <2>2, WroteTyped, OneCall DEF Places
<1> QED
  BY <1>0, <1>3, <1>4, <1>5

\* The steps after the execution, which change no file.
LEMMA CloseStep ==
  ASSUME FileInv, NEW c \in Callers, Finished(c) \/ Complete(c)
  PROVE  FileInv'
<1> DEFINE n == [call[c] EXCEPT !.completed = TRUE]
<1>0. /\ call[c] \in Calls /\ pc[c] \in {"finished", "verify"} /\ CallFits(pc[c], call[c])
      /\ (pc[c] = "verify" => call[c].result \in {"succeeded", "existed"})
      /\ ~call[c].completed /\ call[c].answer = "none"
  BY CallTyped DEF Finished, Complete, CallFits
<1>1. fs' \in [Paths -> Entries] /\ requests' \in 0 .. MaxRequests /\ content' \in 0 .. MaxContent
  BY FilesKept DEF Finished, Complete
<1>2. /\ n \in Calls /\ n.result = call[c].result /\ n.req = call[c].req /\ n.completed
      /\ n.answer = "none" /\ n.wrote = call[c].wrote
  BY <1>0 DEF Calls
<1>3. \/ Goto(c, "translate") /\ UNCHANGED call
      \/ Goto(c, "verify") /\ UNCHANGED call /\ call[c].result \in {"succeeded", "existed"}
      \/ Goto(c, "translate") /\ Note(c, n) /\ pc[c] = "verify"
  BY DEF Finished, Complete, Fails
<1> HIDE DEF n
<1>4. CASE Goto(c, "translate") /\ UNCHANGED call
  <2>1. CallFits("translate", call[c])
    BY <1>0 DEF CallFits, AsksBack
  <2> QED
    BY <1>0, <1>1, <1>4, <2>1, OneCall DEF Places
<1>5. CASE Goto(c, "verify") /\ UNCHANGED call /\ call[c].result \in {"succeeded", "existed"}
  <2>1. CallFits("verify", call[c])
    BY <1>0, <1>5 DEF CallFits, AsksBack
  <2> QED
    BY <1>0, <1>1, <1>5, <2>1, OneCall DEF Places
<1>6. CASE Goto(c, "translate") /\ Note(c, n) /\ pc[c] = "verify"
  <2>1. CallFits("translate", n)
    BY <1>0, <1>2, <1>6 DEF CallFits, AsksBack
  <2> QED
    BY <1>1, <1>2, <1>6, <2>1, OneCall DEF Places
<1> QED
  BY <1>3, <1>4, <1>5, <1>6

\* What a call that is over is answered: a success only if it is one, and nothing
\* that asks back of what succeeded.
LEMMA AnswersFit ==
  ASSUME NEW c \in Callers
  PROVE  /\ CopyAnswer(c) \in {"handled", "error", "ambiguous", "unsupported", "blocked",
                               "needs_confirmation"}
         /\ call[c].result = "succeeded" =>
              CopyAnswer(c) = IF call[c].completed THEN "handled" ELSE "error"
         /\ call[c].result # "succeeded" => CopyAnswer(c) # "handled"
         /\ FolderAnswer(c) \in {"handled", "error", "needs_confirmation"}
         /\ FolderAnswer(c) = "handled" => call[c].completed /\ call[c].result # "existed"
         /\ FolderAnswer(c) = "needs_confirmation" => call[c].result = "existed"
<1>1. call[c].result = "succeeded" =>
        CopyAnswer(c) = IF call[c].completed THEN "handled" ELSE "error"
  BY DEF CopyAnswer
<1>2. call[c].result # "succeeded" =>
        CopyAnswer(c) \in {"error", "ambiguous", "unsupported", "blocked", "needs_confirmation"}
  BY DEF CopyAnswer
<1>3. /\ FolderAnswer(c) \in {"handled", "error", "needs_confirmation"}
      /\ FolderAnswer(c) = "handled" => call[c].completed /\ call[c].result # "existed"
      /\ FolderAnswer(c) = "needs_confirmation" => call[c].result = "existed"
  BY DEF FolderAnswer
<1> QED
  BY <1>1, <1>2, <1>3

LEMMA TranslateStep ==
  ASSUME FileInv, NEW c \in Callers, Translate(c)
  PROVE  FileInv'
<1> DEFINE a == IF call[c].req.do = "copy" THEN CopyAnswer(c) ELSE FolderAnswer(c)
<1>0. /\ call[c] \in Calls /\ pc[c] = "translate" /\ CallFits("translate", call[c])
  BY CallTyped DEF Translate
<1>1. fs' \in [Paths -> Entries] /\ requests' \in 0 .. MaxRequests /\ content' \in 0 .. MaxContent
  BY FilesKept DEF Translate
<1>2. Answer(c, call[c], a)
  BY DEF Translate
<1>3. a \in {"handled", "error", "blocked", "unsupported", "ambiguous", "needs_confirmation"}
  BY AnswersFit
<1>4. call[c].result \in {"none", "blocked", "failed", "existed", "succeeded"}
  BY <1>0 DEF Calls
<1>5. a = "handled" => call[c].wrote
  BY <1>0, <1>4, AnswersFit DEF CallFits
<1>6. a \in AsksBack => ~call[c].wrote \/ call[c].result = "failed"
  BY <1>0, <1>4, AnswersFit DEF CallFits, AsksBack
<1> HIDE DEF a
<1> QED
  BY <1>0, <1>1, <1>2, <1>3, <1>5, <1>6, Answered

-----------------------------------------------------------------------------
\* The steps of others.
LEMMA OtherStep ==
  ASSUME FileInv, NEW p \in Paths, OtherWrites(p) \/ OtherDeletes(p)
  PROVE  FileInv'
<1>1. fs \in [Paths -> Entries] /\ content \in 0 .. MaxContent
  BY DEF FileInv, FileTypeOK
<1>2. content' \in 0 .. MaxContent
  BY <1>1, NewContentTyped DEF OtherWrites, OtherDeletes
<1>3. 0 \in 0 .. MaxContent
  BY FileAssumption
<1>4. \E e \in Entries : Put(p, e)
  BY <1>2, <1>3, EntriesTyped DEF OtherWrites, OtherDeletes
<1>5. fs' \in [Paths -> Entries]
  BY <1>1, <1>4, PutTyped
<1>6. UNCHANGED <<pc, call, requests>>
  BY DEF OtherWrites, OtherDeletes
<1> QED
  BY <1>2, <1>5, <1>6 DEF FileInv, FileTypeOK, CallFits

LEMMA DiesStep ==
  ASSUME FileInv, NEW c \in Callers, Dies(c)
  PROVE  FileInv'
<1>1. CallFits("idle", NoCall)
  BY NoCallTyped DEF CallFits, AsksBack
<1>2. fs' \in [Paths -> Entries] /\ requests' \in 0 .. MaxRequests /\ content' \in 0 .. MaxContent
  BY FilesKept DEF Dies
<1> QED
  BY <1>1, <1>2, NoCallTyped, OneCall DEF Dies, Places

LEMMA FileInitInv == FileInit => FileInv
<1> SUFFICES ASSUME FileInit PROVE FileInv
  OBVIOUS
<1>1. fs \in [Paths -> Entries]
  <2>1. 1 \in 0 .. MaxContent
    BY FileAssumption
  <2> QED
    BY <2>1, EntriesTyped DEF FileInit
<1>2. requests \in 0 .. MaxRequests /\ content \in 0 .. MaxContent
  BY FileAssumption DEF FileInit
<1>3. \A c \in Callers : pc[c] = "idle" /\ call[c] = NoCall
  BY DEF FileInit
<1>4. CallFits("idle", NoCall)
  BY NoCallTyped DEF CallFits, AsksBack
<1>5. FileTypeOK
  BY <1>1, <1>2, NoCallTyped DEF FileInit, FileTypeOK
<1> QED
  BY <1>3, <1>4, <1>5 DEF FileInv

LEMMA FileNextInv == FileInv /\ [FileNext]_fileVars => FileInv'
<1> SUFFICES ASSUME FileInv, [FileNext]_fileVars PROVE FileInv'
  OBVIOUS
<1>1. CASE UNCHANGED fileVars
  BY <1>1 DEF fileVars, FileInv, FileTypeOK, CallFits
<1>2. ASSUME NEW c \in Callers, Call(c) \/ Dies(c) PROVE FileInv'
  BY <1>2, CommandStep, LookStep, ConfirmStep, ActStep, FillStep, ValidateStep, AuthorizeStep,
     ExecuteStep, CopyFileStep, CloseStep, TranslateStep, DiesStep DEF Call
<1>3. ASSUME NEW p \in Paths, OtherWrites(p) \/ OtherDeletes(p) PROVE FileInv'
  BY <1>3, OtherStep
<1> QED
  BY <1>1, <1>2, <1>3 DEF FileNext

LEMMA FileInvHolds == FileSpec => []FileInv
BY FileInitInv, FileNextInv, PTL DEF FileSpec

\* The variables hold values of their types.
THEOREM FileTypes == FileSpec => []FileTypeOK
<1>1. FileInv => FileTypeOK
  BY DEF FileInv
<1> QED
  BY <1>1, FileInvHolds, PTL

\* For any callers, commands and other programs: "handled" is said only of a deed
\* that was done, and what asks back, refuses or does not understand has changed
\* nothing, but for the remains of a copy that broke off.
THEOREM AnswersAreTrue == FileSpec => []SaysWhatItDid
<1>1. FileInv => SaysWhatItDid
  BY DEF FileInv, CallFits, AsksBack, SaysWhatItDid
<1> QED
  BY <1>1, FileInvHolds, PTL

\* A step of a call that costs somebody a file: one they were asked about, or one
\* that came to the destination after the call had looked.
LEMMA LossStep ==
  ASSUME FileInv, [FileNext]_fileVars, NEW c \in Callers, NEW p \in Paths,
         pc'[c] # pc[c], There(p), fs'[p] # fs[p]
  PROVE  \/ call[c].req.do \in {"delete", "move"} /\ p = call[c].from
         \/ p = call[c].req.dst /\ call[c].free
<1> DEFINE r == call[c].req
           s == call[c].from
<1>0. fs \in [Paths -> Entries] /\ CallFits(pc[c], call[c])
  BY CallTyped
<1>1. \A q, e : Put(q, e) => fs'[p] = IF p = q THEN e ELSE fs[p]
  BY <1>0 DEF Put
<1>2. Call(c) \/ Dies(c)
  <2>1. pc' # pc
    OBVIOUS
  <2>2. PICK d \in Callers : Call(d) \/ Dies(d)
    BY <2>1 DEF FileNext, fileVars, OtherWrites, OtherDeletes
  <2>3. \E l : pc' = [pc EXCEPT ![d] = l]
    BY <2>2 DEF Call, Dies, Command, Look, Confirm, Act, Fill, Validate, Authorize, Execute,
       CopyFile, Finished, Complete, Translate, Answer, Goto, Breaks, Fails
  <2>4. pc \in [Callers -> Places]
    BY DEF FileInv, FileTypeOK, Places
  <2> QED
    BY <2>2, <2>3, <2>4
<1>3. CASE Act(c)
  <2>1. \/ r.do = "delete" /\ Put(s, Absent)
        \/ r.do = "move" /\ fs' = [fs EXCEPT ![r.dst] = fs[s], ![s] = Absent]
        \/ r.do # "delete" /\ \E e : Put(r.dst, e)
    BY <1>3 DEF Act, Breaks
  <2>2. r.do # "delete" => call[c].free
    BY <1>0, <1>3 DEF Act, CallFits
  <2>3. fs' = [fs EXCEPT ![r.dst] = fs[s], ![s] = Absent] => p = r.dst \/ p = s
    BY <1>0
  <2> QED
    BY <1>1, <2>1, <2>2, <2>3
<1>4. CASE Fill(c)
  <2>1. fs' = fs \/ \E e : Put(r.dst, e)
    BY <1>4 DEF Fill
  <2> QED
    BY <1>0, <1>1, <1>4, <2>1 DEF Fill, CallFits
<1>5. CASE Execute(c)
  <2>1. fs' = fs \/ (~There(r.dst) /\ Put(r.dst, EmptyFolder))
    BY <1>5 DEF Execute
  <2> QED
    BY <1>1, <2>1
<1>6. CASE CopyFile(c)
  <2>1. fs' = fs \/ Put(r.dst, File(0))
    BY <1>6 DEF CopyFile
  <2>2. r.do # "delete"
    BY <1>6, CallTyped, RequestTyped DEF CopyFile
  <2> QED
    BY <1>0, <1>1, <1>6, <2>1, <2>2 DEF CopyFile, CallFits
<1>7. fs' = fs \/ Act(c) \/ Fill(c) \/ Execute(c) \/ CopyFile(c)
  BY <1>2 DEF Call, Dies, Command, Look, Confirm, Validate, Authorize, Finished, Complete,
     Translate
<1> QED
  BY <1>3, <1>4, <1>5, <1>6, <1>7

\* No deed of the program's, through either door and against any other calls and
\* programs, removes or replaces a file but one it was to delete or to move, or one
\* that came to its destination after it had last looked there.
THEOREM NoFileLostUnasked == FileSpec => NothingLostUnasked
<1>1. FileInv /\ [FileNext]_fileVars =>
        [\A c \in Callers, p \in Paths :
           pc'[c] # pc[c] /\ There(p) /\ fs'[p] # fs[p] =>
             \/ call[c].req.do \in {"delete", "move"} /\ p = call[c].from
             \/ p = call[c].req.dst /\ call[c].free]_fileVars
  BY LossStep
<1> QED
  BY <1>1, FileInvHolds, PTL DEF FileSpec, NothingLostUnasked

-----------------------------------------------------------------------------
(***************************************************************************)
(* The bubble.                                                             *)
(***************************************************************************)
Workplaces == {"none", "hold", "submit", "read", "record", "transcribe", "send", "speak",
               "speaking", "reading", "finish", "mark", "mark_checked", "mark_unread", "done"}
AtWork == {"record", "transcribe", "submit", "send"}
Marking == {"speak", "speaking", "mark", "mark_checked", "mark_unread"}

\* An announcement being published has its kind; one that is to be entered has
\* seen a state it screens for.
NoteOK ==
  /\ note.at \in {"idle", "publish", "enter"}
  /\ note.at # "idle" => note.event \in Events
  /\ note.at = "enter" => note.looked \in Screen[note.event]

\* No job is left but with a state that lets a hold in.
RefusalOK == state \in Refusing => worker \in AtWork \/ warming \/ broke \/ overtaken

\* The end of an action that was announced comes after its start.
EndAfter(k) == \E j \in 1 .. Len(queue) : j > k /\ queue[j] = "tool_call_end"
AnnouncedOK ==
  \/ dropped
  \/ acting
  \/ /\ \A k \in 1 .. Len(queue) : queue[k] = "tool_call_start" => EndAfter(k)
     /\ note.event = "tool_call_start" => EndAfter(0)

\* A reply nobody has seen or heard is marked, or the worker is on its way to it.
ReplyOK ==
  /\ spoken => seen
  /\ ~seen => collapsed
  /\ ~seen => worker \in Marking \/ unread

BubbleInv ==
  /\ BubbleTypeOK /\ worker \in Workplaces
  /\ {warming, seen, dropped, overtaken, broke} \subseteq BOOLEAN
  /\ NoteOK /\ RefusalOK /\ AnnouncedOK /\ PurpleEnds /\ ReplyOK

LEMMA BubbleTypes ==
  ASSUME BubbleInv
  PROVE  /\ queue \in Seq(Events) /\ Len(queue) \in Nat /\ Len(queue) <= QueueSize
         /\ state \in States
         /\ {watching, collapsed, unread, spoken, acting, warming, seen, dropped, overtaken,
             broke} \subseteq BOOLEAN
BY DEF BubbleInv, BubbleTypeOK

\* The queue and the announcements of a step that leaves them alone.
LEMMA AnnouncedKept ==
  ASSUME BubbleInv, UNCHANGED <<queue, note, acting, dropped>>
  PROVE  NoteOK' /\ AnnouncedOK' /\ (Len(queue) <= QueueSize)' /\ (queue \in Seq(Events))'
         /\ EndStillToCome' = EndStillToCome
BY DEF BubbleInv, BubbleTypeOK, NoteOK, AnnouncedOK, EndAfter, EndStillToCome

\* A step of the worker from one place to another.
LEMMA WorksStep ==
  ASSUME BubbleInv, NEW from, NEW to \in Workplaces, NEW s \in States, Works(from, to, s),
         s # "executing" \/ s = state,
         s \in Refusing => to \in AtWork \/ broke' \/ (s = state /\ from \notin AtWork),
         broke => broke', {spoken', seen', broke'} \subseteq BOOLEAN,
         spoken' => seen', ~seen' => collapsed,
         ~seen' => to \in Marking \/ (~seen /\ from \notin Marking)
  PROVE  BubbleInv'
<1>1. /\ worker = from /\ worker' = to /\ state' = s
      /\ UNCHANGED <<warming, tk, note, watching, collapsed, unread, acting, queue, dropped,
                     overtaken>>
  BY DEF Works, panel
<1>2. NoteOK' /\ AnnouncedOK' /\ (Len(queue) <= QueueSize)' /\ (queue \in Seq(Events))'
      /\ EndStillToCome' = EndStillToCome
  BY <1>1, AnnouncedKept
<1>3. BubbleTypeOK' /\ {warming', seen', dropped', overtaken', broke'} \subseteq BOOLEAN
  BY <1>1, <1>2, BubbleTypes DEF BubbleTypeOK
<1>4. RefusalOK'
  BY <1>1 DEF RefusalOK, BubbleInv
<1>5. PurpleEnds'
  BY <1>1, <1>2 DEF PurpleEnds, BubbleInv
<1>6. ReplyOK'
  BY <1>1 DEF ReplyOK, BubbleInv
<1> QED
  BY <1>1, <1>2, <1>3, <1>4, <1>5, <1>6 DEF BubbleInv

LEMMA WorkSteps ==
  ASSUME BubbleInv,
         \/ HoldRefused \/ HoldStarts \/ NoCapture
         \/ \E o \in {"raised", "tap", "held"} : Recorded(o)
         \/ \E o \in {"raised", "empty", "text"} : Transcribed(o)
         \/ Think
         \/ \E o \in {"failed", "empty", "text"} : Reply(o)
         \/ DoNotSpeak("speak", "mark") \/ DoNotSpeak("read", "done")
         \/ Speak("speak", "speaking") \/ Speak("read", "reading")
         \/ \E aloud \in BOOLEAN : \/ Spoken("speaking", "mark", aloud)
                                   \/ Spoken("reading", "done", aloud)
         \/ \E from \in {"mark", "finish"} : Succeed(from) \/ NoSuccess(from)
         \/ NothingToMark \/ ToMark
  PROVE  BubbleInv'
<1> USE DEF Workplaces, AtWork, Marking
<1>0. /\ state \in States /\ {spoken, seen, broke} \subseteq BOOLEAN
      /\ (spoken => seen) /\ (~seen => collapsed)
      /\ {collapsed, spoken, seen, broke} \subseteq BOOLEAN
  BY BubbleTypes DEF BubbleInv, ReplyOK
<1>1. /\ "idle" \in States /\ "error" \in States /\ "recording" \in States
      /\ "transcribing" \in States /\ "thinking" \in States /\ "speaking" \in States
      /\ "success" \in States
      /\ "idle" \notin Refusing /\ "error" \notin Refusing /\ "speaking" \notin Refusing
      /\ "success" \notin Refusing
  BY DEF States, Refusing
<1>2. ASSUME NEW from \in Workplaces, NEW to \in Workplaces, NEW s \in States,
             Works(from, to, s), s # "executing" \/ s = state,
             s \in Refusing => to \in AtWork \/ (s = state /\ from \notin AtWork),
             UNCHANGED <<spoken, seen, broke>>, from \in Marking => to \in Marking
      PROVE  BubbleInv'
  BY <1>0, <1>2, WorksStep
<1>3. CASE HoldRefused \/ HoldStarts \/ NoCapture
  BY <1>0, <1>1, <1>2, <1>3 DEF HoldRefused, HoldStarts, NoCapture
<1>4. ASSUME NEW o \in {"raised", "tap", "held"}, Recorded(o) PROVE BubbleInv'
  <2>1. UNCHANGED <<spoken, seen, broke>>
        /\ \/ Works("record", "done", "error") \/ Works("record", "done", "idle")
           \/ Works("record", "transcribe", "transcribing")
    BY <1>4 DEF Recorded
  <2> QED
    BY <1>1, <1>2, <2>1
<1>5. ASSUME NEW o \in {"raised", "empty", "text"}, Transcribed(o) PROVE BubbleInv'
  <2>1. \/ o = "raised" /\ Works("transcribe", "done", state)
        \/ o = "empty" /\ Works("transcribe", "done", "idle")
        \/ o = "text" /\ Works("transcribe", "submit", state)
    BY <1>5 DEF Transcribed
  <2>2. broke' = (broke \/ o = "raised") /\ UNCHANGED <<spoken, seen>>
    BY <1>5 DEF Transcribed
  <2>3. (broke => broke') /\ (o = "raised" => broke') /\ {spoken', seen', broke'} \subseteq BOOLEAN
    BY <1>0, <2>2
  <2>4. CASE o = "raised" /\ Works("transcribe", "done", state)
    BY <1>0, <2>2, <2>3, <2>4, WorksStep
  <2>5. CASE o = "empty" /\ Works("transcribe", "done", "idle")
    BY <1>0, <1>1, <2>2, <2>3, <2>5, WorksStep
  <2>6. CASE o = "text" /\ Works("transcribe", "submit", state)
    BY <1>0, <2>2, <2>3, <2>6, WorksStep
  <2> QED
    BY <2>1, <2>4, <2>5, <2>6
<1>6. CASE Think
  BY <1>1, <1>2, <1>6 DEF Think
<1>7. ASSUME NEW o \in {"failed", "empty", "text"}, Reply(o) PROVE BubbleInv'
  <2>1. \/ o = "failed" /\ Works("send", "done", "error")
        \/ o = "empty" /\ Works("send", "finish", "idle")
        \/ o = "text" /\ Works("send", "speak", "idle")
    BY <1>7 DEF Reply
  <2>2. seen' = (IF o = "text" THEN ~collapsed ELSE seen) /\ spoken' = FALSE /\ broke' = broke
    BY <1>7 DEF Reply
  <2>3. {spoken', seen', broke'} \subseteq BOOLEAN
    BY <1>0, <2>2
  <2>4. CASE o = "failed" /\ Works("send", "done", "error")
    BY <1>0, <1>1, <2>2, <2>3, <2>4, WorksStep
  <2>5. CASE o = "empty" /\ Works("send", "finish", "idle")
    BY <1>0, <1>1, <2>2, <2>3, <2>5, WorksStep
  <2>6. CASE o = "text" /\ Works("send", "speak", "idle")
    BY <1>0, <1>1, <2>2, <2>3, <2>6, WorksStep
  <2> QED
    BY <2>1, <2>4, <2>5, <2>6
<1>8. CASE DoNotSpeak("speak", "mark") \/ DoNotSpeak("read", "done")
  BY <1>0, <1>2, <1>8 DEF DoNotSpeak
<1>9. CASE Speak("speak", "speaking") \/ Speak("read", "reading")
  BY <1>1, <1>2, <1>9 DEF Speak
<1>10. ASSUME NEW aloud \in BOOLEAN, NEW from \in {"speaking", "reading"},
              NEW to \in {"mark", "done"}, from = "speaking" => to = "mark",
              Spoken(from, to, aloud)
       PROVE  BubbleInv'
  <2> DEFINE s == IF state = "speaking" THEN "idle" ELSE state
  <2>1. Works(from, to, s)
    BY <1>10 DEF Spoken
  <2>2. s \in States /\ (s # "executing" \/ s = state)
        /\ (s \in Refusing => s = state)
    BY <1>0, <1>1
  <2>3. spoken' = aloud /\ seen' = (seen \/ aloud) /\ broke' = broke
    BY <1>10 DEF Spoken
  <2>4. {spoken', seen', broke'} \subseteq BOOLEAN /\ (spoken' => seen') /\ (~seen' => ~seen)
    BY <1>0, <2>3
  <2> HIDE DEF s
  <2> QED
    BY <1>0, <1>10, <2>1, <2>2, <2>3, <2>4, WorksStep
<1>11. ASSUME NEW from \in {"mark", "finish"}, Succeed(from) \/ NoSuccess(from)
       PROVE  BubbleInv'
  BY <1>0, <1>1, <1>2, <1>11 DEF Succeed, NoSuccess
<1>12. CASE NothingToMark
  <2>1. Works("mark_checked", "done", state) /\ (collapsed => spoken)
        /\ UNCHANGED <<spoken, seen, broke>>
    BY <1>12 DEF NothingToMark
  <2>2. seen
    BY <1>0, <2>1
  <2> QED
    BY <1>0, <2>1, <2>2, WorksStep
<1>13. CASE ToMark
  BY <1>0, <1>2, <1>13 DEF ToMark
<1> QED
  BY <1>3, <1>4, <1>5, <1>6, <1>7, <1>8, <1>9, <1>10, <1>11, <1>12, <1>13

-----------------------------------------------------------------------------
\* A step that leaves queue, note and action alone, and enters no purple.
LEMMA QuietStep ==
  ASSUME BubbleInv, UNCHANGED <<queue, note, acting, dropped>>, state' \in States,
         worker' \in Workplaces,
         {watching', collapsed', unread', spoken', warming', seen', overtaken', broke'}
           \subseteq BOOLEAN,
         state' = "executing" /\ watching' => state = "executing" /\ watching,
         overtaken => overtaken', RefusalOK', ReplyOK'
  PROVE  BubbleInv'
<1>1. NoteOK' /\ AnnouncedOK' /\ (Len(queue) <= QueueSize)' /\ (queue \in Seq(Events))'
      /\ EndStillToCome' = EndStillToCome
  BY AnnouncedKept
<1>2. BubbleTypeOK' /\ {warming', seen', dropped', overtaken', broke'} \subseteq BOOLEAN
  BY <1>1, BubbleTypes DEF BubbleTypeOK
<1>3. PurpleEnds'
  BY <1>1 DEF PurpleEnds, BubbleInv
<1> QED
  BY <1>1, <1>2, <1>3 DEF BubbleInv

LEMMA PanelSteps ==
  ASSUME BubbleInv,
         \/ \E job \in Jobs : StartJob(job)
         \/ Collapse \/ Expand \/ Interrupt \/ Interrupted \/ Close
         \/ MarkUnread \/ JobEnds \/ \E ready \in BOOLEAN : Warmed(ready)
  PROVE  BubbleInv'
<1> USE DEF threads, panel, history
<1>0. /\ state \in States /\ worker \in Workplaces
      /\ {watching, collapsed, unread, spoken, acting, warming, seen, dropped, overtaken,
          broke} \subseteq BOOLEAN
      /\ RefusalOK /\ ReplyOK
  BY BubbleTypes DEF BubbleInv
<1>1. "idle" \in States /\ "error" \in States /\ "idle" \notin Refusing /\ "error" \notin Refusing
  BY DEF States, Refusing
<1>2. ASSUME NEW job \in Jobs, StartJob(job) PROVE BubbleInv'
  <2>1. worker = "none" /\ worker' = job /\ job \in Workplaces /\ job \notin Marking
        /\ "none" \notin AtWork /\ "none" \notin Marking
        /\ UNCHANGED <<state, warming, tk, note, queue, watching, collapsed, unread, spoken,
                       acting, seen, dropped, overtaken, broke>>
    BY <1>2 DEF StartJob, Jobs, Workplaces, Marking, AtWork
  <2>2. RefusalOK' /\ ReplyOK'
    BY <1>0, <2>1 DEF RefusalOK, ReplyOK
  <2> QED
    BY <1>0, <2>1, <2>2, QuietStep
<1>3. CASE Collapse
  <2>1. collapsed' = TRUE
        /\ UNCHANGED <<state, worker, warming, tk, note, queue, watching, unread, spoken,
                       acting, seen, dropped, overtaken, broke>>
    BY <1>3 DEF Collapse
  <2>2. RefusalOK' /\ ReplyOK'
    BY <1>0, <2>1 DEF RefusalOK, ReplyOK
  <2> QED
    BY <1>0, <2>1, <2>2, QuietStep
<1>4. CASE Expand
  <2>1. collapsed' = FALSE /\ unread' = FALSE /\ seen' = TRUE
        /\ UNCHANGED <<state, worker, warming, tk, note, queue, watching, spoken, acting,
                       dropped, overtaken, broke>>
    BY <1>4 DEF Expand
  <2>2. RefusalOK' /\ ReplyOK'
    BY <1>0, <2>1 DEF RefusalOK, ReplyOK
  <2> QED
    BY <1>0, <2>1, <2>2, QuietStep
<1>5. CASE Interrupt \/ Interrupted
  <2>1. state' \in {state, "idle"}
        /\ UNCHANGED <<worker, warming, note, queue, watching, collapsed, unread, spoken,
                       acting, seen, dropped, overtaken, broke>>
    BY <1>5 DEF Interrupt, Interrupted
  <2>2. RefusalOK' /\ ReplyOK'
    BY <1>0, <1>1, <2>1 DEF RefusalOK, ReplyOK
  <2> QED
    BY <1>0, <1>1, <2>1, <2>2, QuietStep
<1>6. CASE Close
  <2>1. watching' = FALSE
        /\ UNCHANGED <<state, worker, warming, tk, note, queue, collapsed, unread, spoken,
                       acting, seen, dropped, overtaken, broke>>
    BY <1>6 DEF Close
  <2>2. RefusalOK' /\ ReplyOK'
    BY <1>0, <2>1 DEF RefusalOK, ReplyOK
  <2> QED
    BY <1>0, <2>1, <2>2, QuietStep
<1>7. CASE MarkUnread
  <2>1. worker = "mark_unread" /\ worker' = "done" /\ unread' = TRUE
        /\ worker \notin AtWork /\ worker' \in Workplaces
        /\ UNCHANGED <<state, warming, tk, note, queue, watching, collapsed, spoken, acting,
                       seen, dropped, overtaken, broke>>
    BY <1>7 DEF MarkUnread, AtWork, Workplaces
  <2>2. RefusalOK' /\ ReplyOK'
    BY <1>0, <2>1 DEF RefusalOK, ReplyOK
  <2> QED
    BY <1>0, <2>1, <2>2, QuietStep
<1>8. CASE JobEnds
  <2>1. worker' = "none" /\ worker \notin AtWork /\ worker \notin Marking
        /\ worker' \in Workplaces
        /\ UNCHANGED <<state, warming, tk, note, queue, watching, collapsed, unread, spoken,
                       acting, seen, dropped, overtaken, broke>>
    BY <1>8 DEF JobEnds, AtWork, Marking, Workplaces
  <2>2. RefusalOK' /\ ReplyOK'
    BY <1>0, <2>1 DEF RefusalOK, ReplyOK
  <2> QED
    BY <1>0, <2>1, <2>2, QuietStep
<1>9. ASSUME NEW ready \in BOOLEAN, Warmed(ready) PROVE BubbleInv'
  <2>1. warming' = FALSE /\ state' \in {"idle", "error"}
        /\ UNCHANGED <<worker, tk, note, queue, watching, collapsed, unread, spoken, acting,
                       seen, dropped, overtaken, broke>>
    BY <1>9 DEF Warmed
  <2>2. RefusalOK' /\ ReplyOK'
    BY <1>0, <1>1, <2>1 DEF RefusalOK, ReplyOK
  <2> QED
    BY <1>0, <1>1, <2>1, <2>2, QuietStep
<1> QED
  BY <1>2, <1>3, <1>4, <1>5, <1>6, <1>7, <1>8, <1>9

-----------------------------------------------------------------------------
\* What each announcement makes of the state.
LEMMA Announcements ==
  /\ Screen["tool_call_start"] = {"thinking", "executing"}
  /\ Screen["tool_call_end"] = {"executing"}
  /\ Enters["tool_call_start"] = "executing" /\ Enters["tool_call_end"] = "thinking"
BY DEF Screen, Enters

LEMMA Screens ==
  ASSUME NEW e \in Events
  PROVE  /\ "executing" \in Screen[e] /\ Screen[e] \subseteq Refusing
         /\ Enters[e] \in States /\ (Enters[e] = "executing" => e = "tool_call_start")
<1>1. CASE e = "tool_call_start"
  BY <1>1, Announcements DEF Refusing, States
<1>2. CASE e = "tool_call_end"
  BY <1>2, Announcements DEF Refusing, States
<1> QED
  BY <1>1, <1>2 DEF Events

\* An announcement is dropped, or comes after those that wait.
LEMMA Announced ==
  ASSUME BubbleInv, NEW e \in Events, Announce(e)
  PROVE  /\ queue' \in Seq(Events) /\ Len(queue') <= QueueSize
         /\ dropped' \in BOOLEAN
         /\ ~dropped' => /\ ~dropped /\ Len(queue') = Len(queue) + 1
                         /\ queue'[Len(queue) + 1] = e
                         /\ \A k \in 1 .. Len(queue) : queue'[k] = queue[k]
<1>1. queue \in Seq(Events) /\ Len(queue) \in Nat /\ Len(queue) <= QueueSize
      /\ QueueSize \in Nat /\ dropped \in BOOLEAN
  BY BubbleTypes, QueueAssumption
<1>2. CASE Len(queue) < QueueSize
  <2>1. queue' = Append(queue, e) /\ dropped' = (dropped \/ FALSE)
    BY <1>1, <1>2 DEF Announce
  <2>2. Len(queue') = Len(queue) + 1 /\ queue' \in Seq(Events)
        /\ queue'[Len(queue) + 1] = e /\ \A k \in 1 .. Len(queue) : queue'[k] = queue[k]
    BY <1>1, <2>1
  <2>3. dropped' = dropped
    BY <1>1, <2>1
  <2> QED
    BY <1>1, <1>2, <2>2, <2>3
<1>3. CASE ~(Len(queue) < QueueSize)
  <2>0. Len(queue) >= QueueSize
    BY <1>1, <1>3
  <2>1. queue' = queue /\ dropped' = TRUE
    BY <1>3, <2>0 DEF Announce
  <2> QED
    BY <1>1, <2>1
<1> QED
  BY <1>2, <1>3

LEMMA ActionSteps ==
  ASSUME BubbleInv, ActionStarts \/ \E o \in {"returned", "raised"} : ActionEnds(o)
  PROVE  BubbleInv'
<1>0. UNCHANGED <<state, worker, warming, tk, note, watching, collapsed, unread, spoken, seen,
                  overtaken, broke>>
  BY DEF ActionStarts, ActionEnds, threads, panel
<1>1. /\ queue' \in Seq(Events) /\ Len(queue') <= QueueSize
      /\ dropped' \in BOOLEAN /\ acting' \in BOOLEAN
  BY Announced DEF ActionStarts, ActionEnds, Events
<1>2. BubbleTypeOK' /\ worker' \in Workplaces
      /\ {warming', seen', dropped', overtaken', broke'} \subseteq BOOLEAN
  BY <1>0, <1>1, BubbleTypes DEF BubbleTypeOK, BubbleInv
<1>3. NoteOK' /\ RefusalOK' /\ ReplyOK'
  BY <1>0 DEF NoteOK, RefusalOK, ReplyOK, BubbleInv
<1>4. AnnouncedOK' /\ PurpleEnds'
  <2>1. CASE ActionStarts
    <3>1. acting' = TRUE
      BY <2>1 DEF ActionStarts
    <3> QED
      BY <3>1 DEF AnnouncedOK, PurpleEnds
  <2>2. CASE dropped'
    BY <2>2 DEF AnnouncedOK, PurpleEnds
  <2>3. CASE ~dropped' /\ Announce("tool_call_end")
    <3>1. /\ Len(queue) \in Nat /\ Len(queue') = Len(queue) + 1
          /\ queue'[Len(queue) + 1] = "tool_call_end"
      BY <2>3, BubbleTypes, Announced DEF Events
    <3>2. /\ Len(queue') \in 1 .. Len(queue') /\ queue'[Len(queue')] = "tool_call_end"
          /\ Len(queue') \in Nat
      BY <3>1
    <3>3. \A k \in 0 .. Len(queue') : k # Len(queue') => Len(queue') > k
      BY <3>2
    <3>4. \A k \in 0 .. Len(queue') : k # Len(queue') =>
            \E j \in 1 .. Len(queue') : j > k /\ queue'[j] = "tool_call_end"
      BY <3>2, <3>3
    <3>5. \A k \in 1 .. Len(queue') : queue'[k] = "tool_call_start" => EndAfter(k)'
      BY <3>2, <3>4 DEF EndAfter
    <3>6. EndAfter(0)'
      BY <3>2, <3>4 DEF EndAfter
    <3>7. EndStillToCome'
      BY <3>2 DEF EndStillToCome
    <3> QED
      BY <3>5, <3>6, <3>7 DEF AnnouncedOK, PurpleEnds
  <2> QED
    BY <2>1, <2>2, <2>3 DEF ActionEnds
<1> QED
  BY <1>2, <1>3, <1>4 DEF BubbleInv

\* The next announcement is taken off the queue.
LEMMA TakeStep ==
  ASSUME BubbleInv, Take
  PROVE  BubbleInv'
<1>0. /\ queue \in Seq(Events) /\ queue # <<>> /\ Len(queue) \in Nat /\ Len(queue) <= QueueSize
      /\ QueueSize \in Nat
  BY BubbleTypes, QueueAssumption DEF Take
<1>1. UNCHANGED <<state, worker, warming, tk, watching, collapsed, unread, spoken, acting, seen,
                  dropped, overtaken, broke>>
  BY DEF Take, panel, history
<1>2. /\ queue' \in Seq(Events) /\ Len(queue') = Len(queue) - 1 /\ Len(queue') \in Nat
      /\ Len(queue) >= 1 /\ queue[1] \in Events
      /\ \A k \in 1 .. Len(queue') : queue'[k] = queue[k + 1]
  <2>1. queue' = Tail(queue)
    BY DEF Take
  <2> QED
    BY <1>0, <2>1
<1>3. note'.event = queue[1] /\ note'.at = "publish"
  <2>1. Head(queue) = queue[1]
    BY <1>0
  <2>2. note'.event = Head(queue) /\ note'.at = "publish"
    BY DEF Take, NoNote
  <2> QED
    BY <2>1, <2>2
<1>4. note.event # "tool_call_end"
  BY NoEventAssumption DEF Take, NoNote, Events
<1>5. BubbleTypeOK' /\ worker' \in Workplaces
      /\ {warming', seen', dropped', overtaken', broke'} \subseteq BOOLEAN
  <2>1. Len(queue') <= QueueSize
    BY <1>0, <1>2
  <2> QED
    BY <1>1, <1>2, <2>1, BubbleTypes DEF BubbleTypeOK, BubbleInv
<1>6. NoteOK' /\ RefusalOK' /\ ReplyOK'
  BY <1>1, <1>2, <1>3 DEF NoteOK, RefusalOK, ReplyOK, BubbleInv
<1>7. \A k \in Nat : EndAfter(k + 1) => EndAfter(k)'
  <2> SUFFICES ASSUME NEW k \in Nat, NEW j \in 1 .. Len(queue), j > k + 1,
                      queue[j] = "tool_call_end"
               PROVE  \E i \in 1 .. Len(queue') : i > k /\ queue'[i] = "tool_call_end"
    BY DEF EndAfter
  <2>1. j - 1 \in 1 .. Len(queue') /\ j - 1 > k /\ (j - 1) + 1 = j
    BY <1>0, <1>2
  <2>2. queue'[j - 1] = queue[j]
    BY <1>2, <2>1
  <2> QED
    BY <2>1, <2>2
<1>8. AnnouncedOK'
  <2> SUFFICES ASSUME ~dropped, ~acting PROVE AnnouncedOK'
    BY <1>1 DEF AnnouncedOK
  <2>1. \A k \in 1 .. Len(queue) : queue[k] = "tool_call_start" => EndAfter(k)
    BY DEF BubbleInv, AnnouncedOK
  <2>2. ASSUME NEW k \in 1 .. Len(queue'), queue'[k] = "tool_call_start"
        PROVE  EndAfter(k)'
    <3>1. k + 1 \in 1 .. Len(queue) /\ k \in Nat /\ queue'[k] = queue[k + 1]
      BY <1>0, <1>2
    <3> QED
      BY <1>7, <2>1, <2>2, <3>1
  <2>3. ASSUME note'.event = "tool_call_start" PROVE EndAfter(0)'
    <3>1. 1 \in 1 .. Len(queue) /\ queue[1] = "tool_call_start" /\ 0 + 1 = 1
      BY <1>0, <1>2, <1>3, <2>3
    <3>2. EndAfter(0 + 1)
      BY <2>1, <3>1
    <3> QED
      BY <1>7, <3>2
  <2> QED
    BY <2>2, <2>3 DEF AnnouncedOK
<1>9. PurpleEnds'
  <2>1. ASSUME EndStillToCome PROVE EndStillToCome'
    <3>1. PICK k \in 1 .. Len(queue) : queue[k] = "tool_call_end"
      BY <1>4, <2>1 DEF EndStillToCome
    <3>2. CASE k = 1
      BY <1>3, <3>1, <3>2 DEF EndStillToCome
    <3>3. CASE k # 1
      <4>1. k - 1 \in 1 .. Len(queue') /\ (k - 1) + 1 = k
        BY <1>0, <1>2, <3>3
      <4>2. queue'[k - 1] = "tool_call_end"
        BY <1>2, <3>1, <4>1
      <4> QED
        BY <4>1, <4>2 DEF EndStillToCome
    <3> QED
      BY <3>2, <3>3
  <2> QED
    BY <1>1, <2>1 DEF PurpleEnds, BubbleInv
<1> QED
  BY <1>5, <1>6, <1>8, <1>9 DEF BubbleInv


\* The callback looks at the state, and enters its own or not.
LEMMA CallbackSteps ==
  ASSUME BubbleInv, Ignore \/ Heed \/ Enter
  PROVE  BubbleInv'
<1>0. /\ note.at # "idle" /\ note.event \in Events /\ RefusalOK /\ AnnouncedOK
      /\ note.at = "enter" => note.looked \in Screen[note.event]
  BY DEF Ignore, Heed, Enter, NoteOK, BubbleInv
<1>1. UNCHANGED <<worker, warming, queue, watching, collapsed, unread, spoken, acting, seen,
                  dropped, broke>>
  BY DEF Ignore, Heed, Enter, panel, history
<1>2. Ignore \/ Heed => state' = state /\ overtaken' = overtaken
  BY DEF Ignore, Heed, history
<1>3. Enter => state' = Enters[note.event] /\ overtaken' = (overtaken \/ state # note.looked)
               /\ note.at = "enter"
  BY DEF Enter
<1>4. Ignore \/ Enter => note' = NoNote
  BY DEF Ignore, Enter
<1>5. Heed => note'.event = note.event /\ note'.at = "enter" /\ note'.looked = state
              /\ state \in Screen[note.event]
  BY DEF Heed, BubbleInv, BubbleTypeOK
<1>6. NoNote.event \notin Events /\ NoNote.at = "idle"
  BY NoEventAssumption DEF NoNote
<1>7. overtaken' \in BOOLEAN /\ (overtaken => overtaken')
  <2>1. overtaken \in BOOLEAN
    BY BubbleTypes
  <2>2. CASE Enter
    <3>1. overtaken' = (overtaken \/ state # note.looked)
      BY <1>3, <2>2
    <3> QED
      BY <2>1, <3>1
  <2>3. CASE Ignore \/ Heed
    BY <1>2, <2>1, <2>3
  <2> QED
    BY <2>2, <2>3
<1>8. NoteOK' /\ ReplyOK'
  BY <1>0, <1>1, <1>4, <1>5, <1>6 DEF NoteOK, ReplyOK, BubbleInv
<1>9. BubbleTypeOK' /\ worker' \in Workplaces
      /\ {warming', seen', dropped', overtaken', broke'} \subseteq BOOLEAN
  <2>1. state' \in States
    BY <1>0, <1>2, <1>3, Screens, BubbleTypes
  <2> QED
    BY <1>1, <1>7, <2>1, BubbleTypes DEF BubbleTypeOK, BubbleInv
<1>10. RefusalOK'
  <2>1. CASE Enter /\ ~overtaken'
    <3>1. state \in Refusing
      BY <1>0, <1>3, <2>1, Screens
    <3> QED
      BY <1>0, <1>1, <1>7, <3>1 DEF RefusalOK
  <2> QED
    BY <1>0, <1>1, <1>2, <1>7, <2>1 DEF RefusalOK
<1>11. \A k : EndAfter(k)' = EndAfter(k)
  BY <1>1 DEF EndAfter
<1>12. AnnouncedOK'
  BY <1>0, <1>1, <1>4, <1>5, <1>6, <1>11 DEF AnnouncedOK, Events
<1>13. PurpleEnds'
  <2> SUFFICES ASSUME state' = "executing", watching', ~acting, ~dropped, ~overtaken'
               PROVE  EndStillToCome'
    BY <1>1 DEF PurpleEnds
  <2>1. CASE Ignore
    BY <1>0, <1>1, <1>2, <2>1, Screens DEF Ignore
  <2>2. CASE Heed
    <3>1. EndStillToCome
      BY <1>1, <1>2, <1>7, <2>2 DEF PurpleEnds, BubbleInv
    <3> QED
      BY <1>1, <1>5, <2>2, <3>1 DEF EndStillToCome
  <2>3. CASE Enter
    <3>1. note.event = "tool_call_start"
      BY <1>0, <1>3, <2>3, Screens
    <3>2. EndAfter(0)
      BY <1>0, <3>1 DEF AnnouncedOK
    <3> QED
      BY <1>1, <3>2 DEF EndAfter, EndStillToCome
  <2> QED
    BY <2>1, <2>2, <2>3
<1> QED
  BY <1>8, <1>9, <1>10, <1>12, <1>13 DEF BubbleInv

LEMMA BubbleInitInv == BubbleInit => BubbleInv
<1> SUFFICES ASSUME BubbleInit PROVE BubbleInv
  OBVIOUS
<1>1. queue = <<>> /\ Len(queue) = 0 /\ 0 <= QueueSize /\ queue \in Seq(Events)
  BY QueueAssumption DEF BubbleInit
<1>2. BubbleTypeOK /\ worker \in Workplaces
      /\ {warming, seen, dropped, overtaken, broke} \subseteq BOOLEAN
  BY <1>1 DEF BubbleInit, BubbleTypeOK, Workplaces, States
<1>3. NoNote.at = "idle" /\ NoNote.event \notin Events
  BY NoEventAssumption DEF NoNote
<1>4. NoteOK /\ AnnouncedOK
  BY <1>1, <1>3 DEF BubbleInit, NoteOK, AnnouncedOK, Events
<1>5. RefusalOK /\ PurpleEnds /\ ReplyOK
  BY DEF BubbleInit, RefusalOK, PurpleEnds, ReplyOK
<1> QED
  BY <1>2, <1>4, <1>5 DEF BubbleInv

LEMMA BubbleNextInv == BubbleInv /\ [BubbleNext]_bubbleVars => BubbleInv'
<1> SUFFICES ASSUME BubbleInv, [BubbleNext]_bubbleVars PROVE BubbleInv'
  OBVIOUS
<1>1. CASE UNCHANGED bubbleVars
  <2>1. UNCHANGED <<state, worker, warming, tk, queue, note, watching, collapsed, unread,
                    spoken, acting, seen, dropped, overtaken, broke>>
    BY <1>1 DEF bubbleVars
  <2>2. RefusalOK' /\ ReplyOK' /\ worker' \in Workplaces
    BY <2>1 DEF BubbleInv, RefusalOK, ReplyOK
  <2> QED
    BY <2>1, <2>2, BubbleTypes, QuietStep
<1>2. CASE Tk \/ \E ready \in BOOLEAN : Warmed(ready)
  BY <1>2, PanelSteps DEF Tk
<1>3. CASE Work
  BY <1>3, WorkSteps, PanelSteps, ActionSteps DEF Work
<1>4. CASE Announcing
  BY <1>4, TakeStep, CallbackSteps DEF Announcing
<1> QED
  BY <1>1, <1>2, <1>3, <1>4 DEF BubbleNext

LEMMA BubbleInvHolds == BubbleSpec => []BubbleInv
BY BubbleInitInv, BubbleNextInv, PTL DEF BubbleSpec

\* The variables hold values of their types, and the queue of announcements never
\* holds more than it has room for.
THEOREM BubbleTypesHold == BubbleSpec => []BubbleTypeOK
<1>1. BubbleInv => BubbleTypeOK
  BY DEF BubbleInv
<1> QED
  BY <1>1, BubbleInvHolds, PTL

\* However the four threads are scheduled and whatever the length of the queue, no
\* way out of a job leaves the bubble refusing holds, but a transcription that
\* raised and an announcement that overtook the end of its request.
THEOREM RefusalsEnd == BubbleSpec => []RefusesOnlyAtWork
<1>1. BubbleInv => RefusesOnlyAtWork
  BY DEF BubbleInv, RefusalOK, AtWork, RefusesOnlyAtWork
<1> QED
  BY <1>1, BubbleInvHolds, PTL

\* An orb that shows an automation when none runs has its end still to come, unless
\* an announcement was dropped or overtook the state.
THEOREM PurpleIsTrue == BubbleSpec => []PurpleEnds
<1>1. BubbleInv => PurpleEnds
  BY DEF BubbleInv
<1> QED
  BY <1>1, BubbleInvHolds, PTL

\* However the panel is opened and closed while a reply is spoken, once the worker
\* is through a reply that was neither on the screen nor heard has the orb's ring.
THEOREM RepliesAreMarked == BubbleSpec => []UnheardIsMarked
<1>1. BubbleInv => UnheardIsMarked
  BY DEF BubbleInv, ReplyOK, Marking, UnheardIsMarked
<1> QED
  BY <1>1, BubbleInvHolds, PTL
=============================================================================
