SPECIFICATION Spec
CONSTANTS
  w1 = w1
  w2 = w2
  w3 = w3
  g1 = g1
  g2 = g2
  c1 = c1
  c2 = c2
  c3 = c3
  Workos = {w1, w2}
  Github = {g1, g2}
  Identity <- SharedGithub
  Call = {c1, c2}
  Gate = TRUE
  NoUser = NoUser
CHECK_DEADLOCK FALSE
INVARIANT UserSurvivesStampFailure
