\* Two requests load the same node before either commits.
SPECIFICATION Spec
CONSTANTS
  n1 = n1  n2 = n2
  ca = ca  cb = cb  cbad = cbad
  r1 = r1  r2 = r2  c1 = c1  boot = boot
  Absent = Absent  Unloaded = Unloaded  NoFile = NoFile  NoSidecar = NoSidecar
  Down = Down  NoProc = NoProc
  Node = {n1, n2}
  Cfg = {ca, cb, cbad}
  Rejected = {cbad}
  Req = {r1, r2}
  Cli = {c1}
  Boot = boot
  Script <- RaceScript
  Target <- Shared
  Seeds <- OneSeed
  Faults = {}
  BackupLimit = 1
  MaxOps = 2
  Installed = TRUE
  MaxCrashes = 0
INVARIANTS
  FileFollowsTable
