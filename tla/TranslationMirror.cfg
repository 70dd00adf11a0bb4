SPECIFICATION FairSpec
CONSTANTS
  Text = {t1}
  Reviewer = {r1, r2}
  NoText = NoText
  MaxVersion = 3
  MaxDeliver = 2
  MaxBackfill = 1
INVARIANTS SeenWasApproved SettledIsCurrent
PROPERTY EventuallyMirrored
CHECK_DEADLOCK FALSE
