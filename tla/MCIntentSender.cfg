SPECIFICATION FairSpec
CONSTANTS
  f1 = f1
  f2 = f2
  Forms = {f1, f2}
  Amount <- MCAmount
  Attempts = 2
  Submissions = {1, 2}
  Starts <- MCStarts
CHECK_DEADLOCK FALSE
INVARIANTS
  TypeOK
  StepsSettled
  DepositsOnce
  PromptsChecked
  ApprovalsExact
PROPERTIES
  SubmissionEnds
