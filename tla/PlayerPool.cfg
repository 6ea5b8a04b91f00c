SPECIFICATION PoolSpec
CONSTANTS
  Threads = {g1, g2}
  AudioThread = audio
  Nobody = nobody
  MaxPlayers = 2
  MaxPlayed = 2
  MaxLive = 3
INVARIANTS
  PoolInv
PROPERTIES
  MixerUndisturbed
  CreateReturns
