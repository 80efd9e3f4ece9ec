SPECIFICATION Spec
CONSTANTS
  a1 = a1
  a2 = a2
  b1 = b1
  A = A
  B = B
  s1 = s1
  s2 = s2
  None = None
  Conns = {a1, b1}
  Names = {A, B}
  NameOf <- MCNameOf
  Subs = {s1, s2}
  Tokens = {1}
  Menu <- NormalAndRejudge
  Answers = {"ok"}
  Inventories <- AllProblems
  Updaters = {}
  Togglable = {A}
INVARIANTS
  NoIdleJudgeWasted
