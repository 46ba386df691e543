\* A domain is switched to the self-signed mode while its renewal waits for the lock.
SPECIFICATION Spec
CONSTANTS
  alpha = alpha  beta = beta  addr = addr
  None = None
  Name = {alpha}
  Identity <- OneDomain
  Jobs = {"reconfigure"}
  Faults = {}
  MaxScripts = 1
  MaxRenewals = 2
  MaxRows = 0
INVARIANTS
  TlsFollowsIdentity
