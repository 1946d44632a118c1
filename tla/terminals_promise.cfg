SPECIFICATION FairSpec
CONSTANTS
  s1 = s1
  s2 = s2
  s3 = s3
  h1 = h1
  h2 = h2
  Sockets = {s1, s2, s3}
  Shells = {h1, h2}
  NoSocket = NoSocket
  NoShell = NoShell
  MaxOutput = 1
  MaxBacklog = 1
  Races <- OnlyOutputWhileDying
PROPERTIES
  KeepsThePromise
