SPECIFICATION FairSpec
CONSTANTS
  LastBatch = 2
  Events = 2
  Handlers = {h1, h2, h3}
  Nobody = Nobody
  KeysOfChain <- MCKeysOfChain
  MaxPosts = 6
  MaxFaults = 3
CHECK_DEADLOCK FALSE
INVARIANTS
  PassedIsStored
  NoHoles
  OneRowPerPost
PROPERTIES
  EveryBatchPasses
