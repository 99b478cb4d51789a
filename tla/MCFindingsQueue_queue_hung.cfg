SPECIFICATION HungHolderSpec
CONSTANTS
  c1 = c1  c2 = c2  d1 = d1  d2 = d2  a1 = a1  a2 = a2
  Checkers = {c1}
  Diverters = {d1}
  Auditors = {a1}
  Absent = Absent
  Nobody = Nobody
  Thresh = 1
  Moves = {"conf", "docs"}
  Faults = {"temp_refused", "unreadable", "tmp_full", "copied_mv"}
  EditsRaceWriters = TRUE
  MaxJobs = 3
  MaxMoves = 1
  MaxEdits = 1
  MaxKills = 1
  MaxFaults = 1
INVARIANTS TypeOK LockInv
PROPERTIES WaitEnds
CHECK_DEADLOCK FALSE
