SPECIFICATION FairSpec
CONSTANTS
  a1 = a1
  b1 = b1
  c1 = c1
  A = A
  B = B
  C = C
  s1 = s1
  s2 = s2
  None = None
  Conns = {a1}
  Names = {A, B, C}
  NameOf <- MCNameOf
  Subs = {s1}
  Tokens = {1, 2}
  Remote = {a1}
  Echo = {a1}
  Verdicts = {"D"}
  Env = {"rejudge", "abort", "unlock", "timeout", "nodata", "badfiles"}
INVARIANTS
  VerdictOfCurrentRun
PROPERTIES
  EveryRunEnds
CHECK_DEADLOCK FALSE
