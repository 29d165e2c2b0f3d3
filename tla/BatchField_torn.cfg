CONSTANTS
  im1 = im1  im2 = im2  det = det  den = den  a = a  b = b
  Torn = Torn  Nothing = Nothing
  Labels = {det, den}
  Args = {a, b}
  MaxSteps = 2
  Removable = {}
  Digest <- MCDigest
  Images = {im1}
  Recipes <- Fixed
  Retries = 0
  ResumeChoices = {TRUE, FALSE}
  KillPoints <- AnyPoint
  MaxRuns = 3
SPECIFICATION Spec
INVARIANT ResultFresh
