\* Two writers of a shared workspace, one slot, against ARCHITECTURE.md:483-486.
CONSTANTS
  x = x
  y = y
  z = z
  Child = {x, y, z}
  Nobody = Nobody
  Setups <- SharedSetups
SPECIFICATION Spec
PROPERTIES SlotAndLeaseTogether
CHECK_DEADLOCK FALSE
