\* One request; the fsync of the config directory fails after the file was replaced.
SPECIFICATION Spec
CONSTANTS
  n1 = n1  n2 = n2
  ca = ca  cb = cb  cbad = cbad
  r1 = r1  r2 = r2  c1 = c1  boot = boot
  Absent = Absent  Unloaded = Unloaded  NoFile = NoFile  NoSidecar = NoSidecar
  Down = Down  NoProc = NoProc
  Node = {n1, n2}
  Cfg = {ca, cb, cbad}
  Rejected = {cbad}
  Req = {r1}
  Cli = {}
  Boot = boot
  Script <- SoloScript
  Target <- Shared
  Seeds <- OneSeed
  Faults = {"fsync"}
  BackupLimit = 1
  MaxOps = 1
  Installed = TRUE
  MaxCrashes = 0
PROPERTIES
  FailedApplyLeavesFile
