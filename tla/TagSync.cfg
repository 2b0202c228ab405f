SPECIFICATION MCSpec
CONSTANTS
  t1 = t1
  t2 = t2
  s1 = s1
  s2 = s2
  r1 = r1
  r2 = r2
  NoTag = NoTag
  Tag = {t1, t2}
  Synonym = {s1, s2}
  Run = {r1, r2}
  SeedTags = {t1}
  SeedSynonyms <- NoSeedSynonyms
  PageSize = 1
  TagChunk = 1
  SynonymChunk = 1
  Horizon = 2
  MaxChanges = 2
  MaxStarts = 2
CHECK_DEADLOCK FALSE
CONSTRAINT FlagsThatMatter
ACTION_CONSTRAINT FewChanges
SYMMETRY Symmetry
INVARIANTS TypeOK OnlyKnownGaps
PROPERTIES SyncedIsComplete ImplementsTables
