SPECIFICATION Spec
CONSTANTS
  s1 = s1  s2 = s2  s3 = s3  t1 = t1  t2 = t2  j1 = j1  j2 = j2  j3 = j3  j4 = j4
  Sessions = {s1, s2}
  Topics = {t1, t2}
  Snaps = {j1, j2}
  IndexMd = IndexMd
  Absent = Absent
  Nobody = Nobody
  Editor = Editor
  Born = {t1}
  Gated = {t2}
  Trusted = {s2}
  Verbs = {"update", "new", "rewrite", "essence", "finalize", "delete", "compact", "autofix", "reindex"}
  KeepN = 1
  EditsRaceWriters = FALSE
  MaxOps = 2
  MaxEdits = 1
  MaxKills = 1
  MaxFaults = 1
  MaxDisk = 1
INVARIANTS GateHolds
PROPERTIES HistoryIsSerial RewriteLandsOnBase
CHECK_DEADLOCK FALSE
