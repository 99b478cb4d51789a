SPECIFICATION FairSpec
CONSTANTS
  b1 = b1  s1 = s1  o1 = o1
  Nobody = Nobody  NoCache = NoCache
  Searchers = {b1, s1}
  Servers = {s1}
  Strangers = {o1}
  Files <- MCFiles
  Texts <- MCTexts
  StartCorpus <- MCStartCorpus
  StartCache <- MCStartCache
  Legacy <- MCLegacy
  SampleSize = 2
  Interval = 2
  Decay = 1
  GcAge = 1
  ReapForce = FALSE
  MaxEdits = 1
  MaxFaults = 1
INVARIANTS ServedIsFresh
PROPERTIES SavesKeepTheOthers BulkGuard EventuallyCached
CHECK_DEADLOCK FALSE
