\* Two nodes and a place for a third, one editor, two requests; a poll every two ticks.
SPECIFICATION FairSpec
CONSTANTS
  Timeout = 13
  Stability = 4
  Poll = 2
  Delay = 2
  RestartSec = 5
  NodeId = {1, 2, 3}
  Seeds <- MCSeeds
  Site <- MCSite
  Browser = {b1}
  Forms <- MCForms
  Patches <- MCPatches
  MaxChanges = 2
  Absent = Absent
INVARIANTS
  TypeOK
  ClientsMatchServer
  OnlyClientOptionsRefused
  
  StatusAgrees
  EndsInTime
PROPERTIES
  
  NoCrashMissed
  GoodNotRefused
  CheckEnds
CHECK_DEADLOCK FALSE
