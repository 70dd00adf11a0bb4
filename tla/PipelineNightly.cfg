SPECIFICATION FairSpec
CONSTANTS
  s1 = s1  s2 = s2  s3 = s3  t1 = t1  t2 = t2
  NoSession = NoSession
  Session = {s1}
  Topic = {t1}
  TopicOf <- OneSession
  Backfill = TRUE
  Window = 2
  Faults = {"lost", "slow", "abort", "crash", "statement", "ack"}
  MaxFaults = 2
  MaxDeliver = 2
  MaxDay = 4
INVARIANT BookedIsCredited
PROPERTY EventuallyBooked
CHECK_DEADLOCK FALSE
