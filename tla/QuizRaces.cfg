SPECIFICATION Spec
CONSTANTS
  q1 = q1  q2 = q2  q3 = q3  r1 = r1  r2 = r2  r3 = r3
  Requests = {r1, r2}
  Questions = {q1, q2}
  Bank = {q1, q2}
  NoQuestion = NoQuestion
  Target = 2
  MaxItems = 2
  StartModes = {"PRACTICE", "ASSIGNMENT"}
  SeedModes = {"PRACTICE", "ASSIGNMENT"}
SYMMETRY Symmetry
INVARIANTS NoQuestionTwice ReplyIsRecorded EventsAreTrue
PROPERTIES FirstWriteWins IsAnswerSheet
CHECK_DEADLOCK FALSE
