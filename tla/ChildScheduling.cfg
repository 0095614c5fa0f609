\* Both workspace modes, one and two slots, dependencies, equal and different priorities.
CONSTANTS
  x = x
  y = y
  z = z
  Child = {x, y, z}
  Nobody = Nobody
  Setups <- MixedSetups
SPECIFICATION Spec
INVARIANTS OneWriter OneVerdict
PROPERTIES NoStandstill
CHECK_DEADLOCK FALSE
