\* Two scripts on an installation in use, any step of which may fail or be interrupted,
\* with renewals and panel changes at any moment.
SPECIFICATION Spec
CONSTANTS
  alpha = alpha  beta = beta  addr = addr
  None = None
  Name = {alpha, beta, addr}
  Identity <- Identities
  Jobs = {"update", "reconfigure"}
  Faults = {"step"}
  MaxScripts = 2
  MaxRenewals = 2
  MaxRows = 2
INVARIANTS
  TypeOK
  PairsMatch
  Settled
  TlsFollowsIdentity
  ServicesReturn
PROPERTIES
  UpdateKeepsTls
  DeploysAtomically
