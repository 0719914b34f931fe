CONSTANTS
  MaxCandle = 2
  Scores <- MCScores
  Floor = 200
  ExitPct = 50
  Window = 1
  MinSamples = 1
  Percent = 70
  Needs = {2}
  ApNeeds = {1}
  Modes = {"long_only", "long_short"}
  Kinds = {"timesfm", "fincast"}
  HighVolDelta = 2
SPECIFICATION Spec
INVARIANTS
  TypeOK
  EachCandleOnce
PROPERTIES
  ConfirmedOnly
