CONSTANTS
  Keys = {k1, k2}
  Actors = {"op"}
  Durations <- MCDurations
  Res = 2
  OccCap = 2
  MaxTime = 5
  MaxCount = 3
  MaxLog = 2
  Absent = Absent
  Never = Never
SPECIFICATION Spec
INVARIANT TypeOK
INVARIANT AuditReplays
INVARIANT FieldsMatchState
INVARIANT OccurrencesAddUp
PROPERTY ExpiredSilenceIsLifted
PROPERTY KeepsThePromise
