SPECIFICATION Spec
CONSTANTS
  s1 = s1  s2 = s2  s3 = s3  t1 = t1  t2 = t2
  NoSession = NoSession
  Session = {s1, s2}
  Topic = {t1}
  TopicOf <- TwoOnOneTopic
  Backfill = FALSE
  Window = 0
  Faults = {"lost", "slow", "abort", "crash", "ack"}
  MaxFaults = 2
  MaxDeliver = 2
  MaxDay = 3
INVARIANTS StreakIsRun CountedOnce AckedIsBooked XpHasBooking
PROPERTY IsSessionLedger
CHECK_DEADLOCK FALSE
