SPECIFICATION Spec
CONSTANTS
  c1 = c1
  c2 = c2
  c3 = c3
  i1 = i1
  i2 = i2
  angular = angular
  angularjs = angularjs
  ng = ng
  NoTag = NoTag
  NoCall = NoCall
  Call <- MCCall
  Instance <- MCInstance
  Tag <- MCTag
  Spelling <- MCSpelling
  Normal <- MCNormal
  Score <- MCScore
  SeedTags <- MCSeedTags
  SeedSynonyms <- MCSeedSynonyms
  SoTag <- MCSoTag
  SoSynonym <- MCSoSynonym
  MaxStarts = 1
  MaxTags = 1
  Limit = 2
SYMMETRY Interchangeable
INVARIANTS
  TypeOK
  ResolutionSettles
  NoResolvedTagDropped
  SearchAnswersTheTags
PROPERTY ImplementsBoard
ACTION_CONSTRAINTS
  AsksForTags
  OneOutlives
CHECK_DEADLOCK FALSE
