CONSTANTS
  im1 = im1  im2 = im2  det = det  den = den  a = a  b = b
  Torn = Torn  Nothing = Nothing
  Labels = {det, den}
  Args = {a, b}
  MaxSteps = 2
  Removable = {1, 2}
  Digest <- MCDigest
  Images = {im1, im2}
  Recipes <- Edited
  Retries = 1
  ResumeChoices = {TRUE, FALSE}
  KillPoints <- SafePoints
  MaxRuns = 3
SPECIFICATION FairSpec
INVARIANTS TypeOK ResultFresh StateBacked FailedRunKeepsPrefix ResumeContinues
PROPERTIES Promise RunsEnd
