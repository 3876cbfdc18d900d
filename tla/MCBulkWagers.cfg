SPECIFICATION Spec
CONSTANTS
  Names = {football, chess}
  Tags = {sport, games}
  Categories = {football, chess}
  NoTags = NoTags
  Wagers <- MCWagers
  Requests = {r1, r2}
  MaxWagers = 2
SYMMETRY Symmetry
CHECK_DEADLOCK FALSE
INVARIANTS
  TypeOK
  AllOrNothing
  ClashOnlyByOverlap
  ReferencesExist
  ConflictOnlyByOverlap
  DeadlockTakesTwoTags
