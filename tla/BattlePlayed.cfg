SPECIFICATION FairSpec
CONSTANTS
  User = {a, b}
  Online = {a}
  Match = {m1}
  None = None
  Pick = {p, q}
  Questions = 1
  ChanCap = 1
  Lossy = {"player", "answer", "rank", "rating"}
  MaxFailed = 1
INVARIANT DoneIsRanked
PROPERTIES FirstAnswerStands EventuallyEnds
