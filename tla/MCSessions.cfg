\* Three browsers, two slots, sessions that live for one tick of two.
SPECIFICATION Spec
CONSTANTS
  Client = {b1, b2, b3}
  Password = {p0, p1}
  Initial = p0
  Outdated = TRUE
  Slots = 2
  Ttl = 1
  MaxLogins = 3
  MaxTime = 2
SYMMETRY Browsers
INVARIANTS
  TypeOK
  OldSessionsRevoked
  SlotsBalance
PROPERTIES
  EndedStaysEnded
  EndsForAReason
CHECK_DEADLOCK FALSE
