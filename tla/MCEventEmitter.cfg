SPECIFICATION Spec
CONSTANTS
  Listeners = {l1, l2, l3}
  Dispatchers = {d1, d2}
  Closer = Closer
  Nobody = Nobody
  Draining = {l1}
  MaxDispatch = 2
CHECK_DEADLOCK FALSE
SYMMETRY Alike
INVARIANTS EmitterInv NoPanic StuckOnlyInOff
PROPERTIES InOrder ImplementsBroadcast
