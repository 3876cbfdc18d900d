SPECIFICATION FairSpec
CONSTANTS
  Users = {alice, bob, carol}
  Wagers = {w1}
  Requests = {r1, r2, r3}
  NoUser = NoUser
  NoWager = NoWager
  MaxFailures = 2
INVARIANTS
  AcceptedMeansCompleted
  HalfAcceptedIsInFlight
PROPERTIES
  NobodySettlesTheirOwn
  ClaimsStartOnActiveWagers
  CompletedIsSettled
