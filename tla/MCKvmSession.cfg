SPECIFICATION FairSpec
CONSTANTS
  Gens = {g1, g2}
  NoGen = NoGen
  MaxOrphans = 1
  BackoffCap = 2
INVARIANTS TypeOK OneVideoStream NoLostWakeup StopChannelIsCurrent
PROPERTIES SwapAfterTeardown DropIsNoticed Reconnects OldLoopsEnd
