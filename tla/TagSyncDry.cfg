SPECIFICATION MCSpec
CONSTANTS
  t1 = t1
  t2 = t2
  s1 = s1
  s2 = s2
  r1 = r1
  r2 = r2
  NoTag = NoTag
  Tag = {t1, t2}
  Synonym = {s1}
  Run = {r1}
  SeedTags = {t1}
  SeedSynonyms <- NoSeedSynonyms
  PageSize = 1
  TagChunk = 1
  SynonymChunk = 1
  Horizon = 3
  MaxChanges = 2
  MaxStarts = 3
CHECK_DEADLOCK FALSE
PROPERTY DryRunWritesNothing
