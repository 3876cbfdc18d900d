SPECIFICATION Spec
CONSTANTS
  Users = {alice, bob}
  Wagers = {w1}
  Requests = {r1, r2}
  NoUser = NoUser
  NoWager = NoWager
  MaxFailures = 0
PROPERTIES
  OnlyPendingRejected
