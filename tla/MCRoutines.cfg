SPECIFICATION Spec
CONSTANTS
  morning = morning
  pill = pill
  r1 = r1
  r2 = r2
  c1 = c1
  None = None
  Routines <- MCRoutines
  Reminders <- MCReminders
  Daily <- MCRoutines
  Runners <- MCRunners
  Callers <- MCCallers
  Day = 2
  RoutineLimit = 5
  ReminderLimit = 10
  MaxTime = 2
  MaxCuts = 1
SYMMETRY Symmetric
INVARIANTS
  RepeatedOnlyIfOvertaken
  LostOnlyByCut
  RunningIsRun
  EditsKept
