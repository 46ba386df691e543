\* Every fault, under the scheduling of the processes.
SPECIFICATION FairSpec
CONSTANTS
  alpha = alpha  beta = beta  addr = addr
  None = None
  Name = {alpha, beta, addr}
  Identity <- Identities
  Jobs = {"update", "reconfigure"}
  Faults = {"step", "hook", "restart", "rollback"}
  MaxScripts = 1
  MaxRenewals = 2
  MaxRows = 0
PROPERTIES
  ScriptsEnd
  RenewalsEnd
