\* Three rows of two users, two handlers, one walk of the unread, two to a page.
CONSTANTS
  MaxRows = 3
  Users = {alice, bob}
  NoUser = NoUser
  Handlers = {h1, h2}
  Filters <- MCFilters
  Limits = {2}
SPECIFICATION Spec
SYMMETRY Symmetry
INVARIANT WalkMissesNothing
PROPERTIES CallsAreAtomic
