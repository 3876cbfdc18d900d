SPECIFICATION InvitationSpec
CONSTANTS
  Users = {alice, bob, carol}
  Names = {ann, ben}
  Wagers = {w1}
  Handlers = {h1, h2}
  NoName = NoName
  NoUser = NoUser
  NoWager = NoWager
  Ids = {i1, i2, i3}
  MaxRenames = 2
SYMMETRY Symmetry
CHECK_DEADLOCK FALSE
INVARIANTS
  DuplicatesOnlyByOverlap
  SelfInvitationTakesTwoRenames
