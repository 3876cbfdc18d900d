\* One wager, three users, two escrows: every order of joining, voting, ruling and
\* cancelling, with the admin moving the contract from one escrow to the other and back.
CONSTANTS
  Users = {alice, bob, carol}
  Zero = zero
  Escrows = {old, new}
  MaxWagers = 1
  Fund = 1
  Funds <- MCFunds
  Unlimited = 9
  Admin = admin
  MaxTime = 1
  Amounts = {0, 1}
  Approvals = {9}
SPECIFICATION Spec
SYMMETRY Symmetry
INVARIANTS ParticipantsAgree OpposingClaims ConsensusDecides StakesAcrossEscrows
PROPERTIES NoSecondPayout DecisionFinal
