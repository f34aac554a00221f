CONSTANTS
  Channels = {0, 1}
  Lines = {0, 1}
  Enabled <- MCEnabled
  FeTimeout = 1
  MaxDamaged = 1
SPECIFICATION FairSpec
INVARIANTS ValidDataIsOwn
