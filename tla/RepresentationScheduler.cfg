SPECIFICATION Spec
CONSTANTS
  k1 = k1
  k2 = k2
  Key <- Keys
  Rank = {1, 3}
  MaxConcurrent = 2
  MaxRequests = 4
INVARIANTS
  TypeOK
  SlotAccounting
  NoIdleSlot
  OrphanNeverRejoined
  RegistrationsMatchLeases
PROPERTIES
  NoPriorityInversion
  ImplementsContract
CHECK_DEADLOCK FALSE
