SPECIFICATION FairSpec
CONSTANTS
  b1 = b1  h1 = h1  h2 = h2  sweep = sweep  none = none
  MaxRefs = 2
  NoFp = NoFp
  Aliases <- MCAliases
  RepoOf <- MCRepoOf
  HasFile <- MCHasFile
  HasCommit <- MCHasCommit
  BindHosts = {}
  NotAPath = {}
  NoSuchRoot = {}
  UnderExcluded = {"/tmp"}
  Containers = {}
  Binders = {b1}
  Hooks = {h1}
  Sweeper = sweep
  Nobody = Nobody
  Worlds <- MCWorlds
  StartWorlds <- MCStartWorlds
  HookRepo = "R"
  Tracked <- MCTracked
  Covers <- MCCovers
  Corpus <- MCCorpus
  StartDocs <- MCStartDocs
  Aspirational = {}
  Texts <- MCTexts
  Explicits <- MCExplicits
  OldRecords <- MCOldRecords
  HooksOverlap = FALSE
  EventsKeep = 1
  MaxBinds = 1
  MaxMoves = 1
  MaxTriggers = 1
  MaxJudged = 1
  MaxFaults = 1
  MaxEvents = 2
INVARIANTS NoRecordLost CorpusFollowsText
PROPERTIES RetiredTerminal TriggersLookAfterClaims EventuallyRight
CHECK_DEADLOCK FALSE
