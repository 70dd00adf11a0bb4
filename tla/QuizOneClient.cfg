SPECIFICATION Spec
CONSTANTS
  q1 = q1  q2 = q2  q3 = q3  r1 = r1  r2 = r2  r3 = r3
  Requests = {r1}
  Questions = {q1, q2, q3}
  Bank = {q1, q2, q3}
  NoQuestion = NoQuestion
  Target = 3
  MaxItems = 3
  StartModes = {"PRACTICE", "MOCK", "ASSIGNMENT"}
  SeedModes = {"ASSIGNMENT", "MOCK_BLUEPRINT"}
SYMMETRY Symmetry
INVARIANTS NextShowsRecordedRow ThetaCoversAnswers
CHECK_DEADLOCK FALSE
