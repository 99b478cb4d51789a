SPECIFICATION Spec
CONSTANTS
  s1 = s1  s2 = s2  s3 = s3  t1 = t1  t2 = t2  j1 = j1  j2 = j2  j3 = j3  j4 = j4
  Sessions = {s1, s2}
  Topics = {t1}
  Snaps = {j1, j2}
  IndexMd = IndexMd
  Absent = Absent
  Nobody = Nobody
  Editor = Editor
  Born = {}
  Gated = {}
  Trusted = {}
  Verbs = {"update", "new"}
  KeepN = 1
  EditsRaceWriters = FALSE
  MaxOps = 3
  MaxEdits = 0
  MaxKills = 0
  MaxFaults = 0
  MaxDisk = 0
SYMMETRY SessionSymmetry
PROPERTIES NewNeverOverwrites
CHECK_DEADLOCK FALSE
