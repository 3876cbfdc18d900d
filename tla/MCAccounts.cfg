SPECIFICATION Spec
CONSTANTS
  Users = {u1, u2}
  Addresses = {a1, a2}
  Names = {ann, ben}
  Handlers = {h1, h2}
  NoUser = NoUser
  NoName = NoName
  NoAddress = NoAddress
SYMMETRY Symmetry
INVARIANTS
  AccountsAreUnique
  TokensNameTheirAccount
  RolesAreCurrent
