SPECIFICATION Spec
CONSTANTS
  c1 = c1  w1 = w1  w2 = w2  h1 = h1  m1 = m1  m2 = m2
  Checkers = {c1}
  Wavers = {w1, w2}
  Nobody = Nobody
  Heads = {h1}
  Memories = {m1, m2}
  Bodies = {"A", "B"}
  NoBody = NoBody
  NoStamp = NoStamp
  StartHeads <- MCStartHeads
  Near <- MCNear
  Generic = {}
  OldRows <- MCOldRows
  Gate = 2
  DayLength = 8
  Step = 3
  MaxWrites = 2
  MaxWaves = 2
  MaxFaults = 1
  MaxEvents = 3
INVARIANTS QuietUntilContentChanges ContentChangeFires
PROPERTIES WaveoffsKept
CHECK_DEADLOCK FALSE
