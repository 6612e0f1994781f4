\* Three joiners in every mix of ways, one founder, slacks of one.
SPECIFICATION HintsSpec
CONSTANTS
  a = a
  b = b
  c = c
  f = f
  Joiners = {a, b, c}
  Founders = {f}
  Index <- Loop
  CandidateSlack = 1
  DelegationSlack = 1
  MaxLeaves = 1
INVARIANTS
  HintsTypeOK
  RefusedOnlyWhenOvertaken
