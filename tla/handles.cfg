\* Three slots, each freed or reset up to three times.
SPECIFICATION Spec
CONSTANTS
  Object = {o1, o2}
  MaxSlots = 3
  MaxCounter = 3
INVARIANTS
  FreeListSound
PROPERTIES
  DeadStaysDead
  ImplementsTable
CHECK_DEADLOCK FALSE
