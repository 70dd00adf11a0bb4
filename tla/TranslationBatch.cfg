SPECIFICATION FairSpec
CONSTANTS
  Text = {t1, t2, t3}
  Worker = {w1, w2, w3}
  NoText = NoText
INVARIANTS ClaimedOnce NothingIsForgotten ReportIsTrue
PROPERTY BatchEnds
CHECK_DEADLOCK FALSE
