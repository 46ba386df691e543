\* Requests that meet on the same nodes, a restore and a prepare on the command line,
\* every fault that the code recovers from on the spot: what holds even with stale rows.
SPECIFICATION Spec
CONSTANTS
  n1 = n1  n2 = n2
  ca = ca  cb = cb  cbad = cbad
  r1 = r1  r2 = r2  c1 = c1  boot = boot
  Absent = Absent  Unloaded = Unloaded  NoFile = NoFile  NoSidecar = NoSidecar
  Down = Down  NoProc = NoProc
  Node = {n1, n2}
  Cfg = {ca, cb, cbad}
  Rejected = {cbad}
  Req = {r1, r2}
  Cli = {c1}
  Boot = boot
  Script <- MeetScript
  Target <- Shared
  Seeds <- OneSeed
  Faults = {"check", "restart", "disk", "commit"}
  BackupLimit = 1
  MaxOps = 3
  Installed = TRUE
  MaxCrashes = 0
INVARIANTS
  InstallsWhatItChecked
  OnlyOwnRowsStale
  RollbackSourceKept
PROPERTIES
  FailedApplyLeavesFile
