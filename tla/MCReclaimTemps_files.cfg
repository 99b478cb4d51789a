SPECIFICATION FairSpec
CONSTANTS
  w1 = w1  w2 = w2
  Writers = {w1, w2}
  Paths <- MCPaths
  Jobs <- MCJobs
  Target <- MCTarget
  CopyMode <- MCCopyMode
  NoMode = NoMode
  Letters = {"a1", "a2", "a3"}
  Decimals = {"77"}
  NoRoom <- MCNoRoom
  Umask = {"other"}
  StartFiles <- MCStartFiles
  Grace = 0
  MaxFaults = 1
  Legacy <- MCLegacy
  NoNames = {}
  Directories <- MCFolders
  Settings <- MCSettings
  AnyName = AnyName
  Exists = {"here", "linked"}
  CacheShaped <- MCCacheShaped
  CacheDirs = {"here"}
  OldLitter <- MCOldLitter
INVARIANTS NeverTorn PrivateStaysPrivate LiveTempKept OperatorFilesKept
PROPERTIES EventuallyClean
CHECK_DEADLOCK FALSE
