SPECIFICATION Spec
CONSTANTS
  Tab = {b1, b2}
  Identity = {i, j, k, l}
  SharedMail = {i, j}
  NoMail = {k, l}
  MaxTokens = 2
  Null = Null
INVARIANT UnauthenticatedLeaves
CHECK_DEADLOCK FALSE
