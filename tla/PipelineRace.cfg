SPECIFICATION Spec
CONSTANTS
  s1 = s1  s2 = s2  s3 = s3  t1 = t1  t2 = t2
  NoSession = NoSession
  Session = {s1}
  Topic = {t1}
  TopicOf <- OneSession
  Backfill = TRUE
  Window = 0
  Faults = {}
  MaxFaults = 0
  MaxDeliver = 1
  MaxDay = 1
INVARIANT CountedOnce
CHECK_DEADLOCK FALSE
