\* One wager, two users with two STRK each, stakes of one and two, limited approvals:
\* stakes paid from the wallet, from the token account, and from both.
CONSTANTS
  Users = {alice, bob}
  Zero = zero
  Escrows = {escrow}
  MaxWagers = 1
  Fund = 2
  Funds <- MCFunds
  Unlimited = 9
  Admin = admin
  MaxTime = 1
  Amounts = {0, 1, 2}
  Approvals = {1, 9}
SPECIFICATION Spec
SYMMETRY Symmetry
INVARIANT StakeAccounting
PROPERTIES WalletsLoseNothing PotsPayWhomTheyShould ImplementsStakePot
