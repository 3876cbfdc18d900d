\* One escrow, two users with two STRK each, two wagers.
CONSTANTS
  Users = {alice, bob}
  Zero = zero
  Escrows = {escrow}
  MaxWagers = 2
  Funds <- MCFunds
  Unlimited = 9
  Amounts = {0, 1, 2}
  Approvals = {0, 2, 9}
  Spans <- MCSpans
SPECIFICATION BooksSpec
SYMMETRY Symmetry
INVARIANTS BooksTypeOK Solvency
PROPERTY PotsPayInFull
