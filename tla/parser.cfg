SPECIFICATION Spec
CONSTANTS
  Chunks <- MCChunks
  Vars <- MCVars
  envVars <- MCEnv
  Lower <- MCLower
  maxFileSize = 9
  MaxWrites = 5
INVARIANTS TypeOK ParsesRules PartialReadIsSafe
