CONSTANTS
  a1 = a1
  a2 = a2
  a3 = a3
  o1 = o1
  o2 = o2
  Announces = {a1, a2, a3}
  Owners = {o1, o2}
  OwnerOf <- MCOwnerOf
  Nobody = nobody
SPECIFICATION Spec
INVARIANTS AcceptedHasPointer FreshClaimHeld
PROPERTY PushedStays
CHECK_DEADLOCK FALSE
