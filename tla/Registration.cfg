CONSTANTS
  h1 = h1
  h2 = h2
  name = name
  capitals = capitals
  backslash = backslash
  backslashes = backslashes
  quote = quote
  address = address
  malformed = malformed
  Handlers = {h1, h2}
  Texts <- MCTexts
  WithAt = {address}
  Users <- MCUsers
  Logins <- MCLogins
  Literal <- MCLiteral
  Malformed = malformed
  Fold <- MCFold
  MaxRequests = 2
  None = None
SPECIFICATION Spec
SYMMETRY Symmetry
INVARIANTS SharedOnlyInRace OwnersSignIn PasswordHasRow
CHECK_DEADLOCK FALSE
