\* Is a resolved wager always paid out?
CONSTANTS
  Users = {alice, bob}
  Zero = zero
  Escrows = {escrow}
  MaxWagers = 1
  Fund = 1
  Funds <- MCFunds
  Unlimited = 9
  Admin = admin
  MaxTime = 1
  Amounts = {1}
  Approvals = {9}
SPECIFICATION Spec
SYMMETRY Symmetry
INVARIANT ReleasedToWinner
