SPECIFICATION HungHolderSpec
CONSTANTS
  s1 = s1  s2 = s2  s3 = s3  t1 = t1  t2 = t2  j1 = j1  j2 = j2  j3 = j3  j4 = j4
  Sessions = {s1, s2}
  Topics = {t1}
  Snaps = {j1, j2}
  IndexMd = IndexMd
  Absent = Absent
  Nobody = Nobody
  Editor = Editor
  Born = {t1}
  Gated = {}
  Trusted = {}
  Verbs = {"update", "new", "rewrite", "essence", "finalize", "delete", "compact", "autofix", "reindex"}
  KeepN = 1
  EditsRaceWriters = TRUE
  MaxOps = 2
  MaxEdits = 1
  MaxKills = 1
  MaxFaults = 1
  MaxDisk = 1
INVARIANTS TypeOK LockInv FailureLeavesNoTrace
PROPERTIES WaitEnds LockReleased
CHECK_DEADLOCK FALSE
