SPECIFICATION OnlySpec
CONSTANTS
  a = a
  b = b
  c = c
  k1 = k1
  k2 = k2
  Versions = {1, 2, 3}
  Schema <- MCSchema
  MaxAttempts = 3
  Failing = {"preflight", "backup", "prev", "swap", "record"}
  CutPairs = FALSE
  OneAtATime = TRUE
  MaxWrites = 1
  MaxHands = 2
  MaxFaults = 2
  None = None
CHECK_DEADLOCK FALSE
 
PROPERTIES SameSchemaKeepsWrites TrialEnds  UpdatedTogether AgentSound FolderConverges ThumbsServed
