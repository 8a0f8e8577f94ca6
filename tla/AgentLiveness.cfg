SPECIFICATION FairSpec
CONSTANTS
  s1 = s1
  s2 = s2
  Sups = {s1, s2}
  None = None
  Versions = {1, 2}
  MaxAttempts = 2
  MaxAge = 0
  Faults = FALSE
  Kills = FALSE
PROPERTIES
  BootstrapEnds
  
  SignalEndsLoop
