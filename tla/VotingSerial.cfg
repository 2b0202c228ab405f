SPECIFICATION MCSpec
CONSTANTS
  ann = ann
  bob = bob
  cat = cat
  c1 = c1
  c2 = c2
  c3 = c3
  i1 = i1
  i2 = i2
  i3 = i3
  a1 = a1
  a2 = a2
  User = {ann, bob, cat}
  Answer = {a1, a2}
  Author <- AnnWrites
  Call = {c1, c2, c3}
  Instance = {i1, i2, i3}
  RetryElsewhere = FALSE
  LateCommits = FALSE
CHECK_DEADLOCK FALSE
INVARIANTS TypeOK CountersMatchVotes
PROPERTY ImplementsLedger
