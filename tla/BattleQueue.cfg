SPECIFICATION FairSpec
CONSTANTS
  User = {a, b}
  Exam = {x, y}
  Band = {1, 2, 3}
  Conn = {c1, c2}
  None = None
  Timeout = 4
INVARIANT QueuedOnce
PROPERTIES MatchIsFair EventuallyLeavesQueue ClosedLeaves
