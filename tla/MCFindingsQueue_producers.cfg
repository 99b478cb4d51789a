SPECIFICATION Spec
CONSTANTS
  c1 = c1  c2 = c2  d1 = d1  d2 = d2  a1 = a1  a2 = a2
  Checkers = {c1}
  Diverters = {d1, d2}
  Auditors = {a1}
  Absent = Absent
  Nobody = Nobody
  Thresh = 1
  Moves = {"heads"}
  Faults = {"temp_refused"}
  EditsRaceWriters = FALSE
  MaxJobs = 4
  MaxMoves = 1
  MaxEdits = 1
  MaxKills = 1
  MaxFaults = 1
SYMMETRY ProducerSymmetry
INVARIANTS ProposalsKept ClearedStaysCleared
PROPERTIES CompletionIsOwn QueueIsAtomic
CHECK_DEADLOCK FALSE
