\* A node change, an apply and a command line (the node handler takes the write lock
\* first, the others the operation lock), and two crashes anywhere.
SPECIFICATION FairSpec
CONSTANTS
  n1 = n1  n2 = n2
  ca = ca  cb = cb  cbad = cbad
  r1 = r1  r2 = r2  c1 = c1  boot = boot
  Absent = Absent  Unloaded = Unloaded  NoFile = NoFile  NoSidecar = NoSidecar
  Down = Down  NoProc = NoProc
  Node = {n1, n2}
  Cfg = {ca, cb, cbad}
  Rejected = {cbad}
  Req = {r1, r2}
  Cli = {c1}
  Boot = boot
  Script <- OrderScript
  Target <- Shared
  Seeds <- MCSeeds
  Faults = {"crash"}
  BackupLimit = 2
  MaxOps = 2
  Installed = TRUE
  MaxCrashes = 2
PROPERTIES
  ServesRunning
  ApiComesBack
  HandlersEnd
