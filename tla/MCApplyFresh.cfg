\* A first installation: no file is written and nothing runs; every fault there is, and a
\* crash anywhere, also while the API starts.
SPECIFICATION Spec
CONSTANTS
  n1 = n1  n2 = n2
  ca = ca  cb = cb  cbad = cbad
  r1 = r1  r2 = r2  c1 = c1  boot = boot
  Absent = Absent  Unloaded = Unloaded  NoFile = NoFile  NoSidecar = NoSidecar
  Down = Down  NoProc = NoProc
  Node = {n1, n2}
  Cfg = {ca, cb, cbad}
  Rejected = {cbad}
  Req = {r1}
  Cli = {c1}
  Boot = boot
  Script <- FreshScript
  Target <- Shared
  Seeds <- OneSeed
  Faults = {"check", "restart", "disk", "fsync", "copy", "commit", "crash"}
  BackupLimit = 1
  MaxOps = 2
  Installed = FALSE
  MaxCrashes = 2
INVARIANTS
  FormalFileChecked
  IInv
PROPERTIES
  ServesConverged
