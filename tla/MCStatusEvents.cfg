SPECIFICATION Spec
CONSTANTS
  Updaters = {u1, u2}
  Listeners = {l1, l2}
  Readers = {g1}
  Draining = {l1}
  Closer = Closer
  Nobody = Nobody
  MaxStatus = 2
CHECK_DEADLOCK FALSE
INVARIANTS StatusInv Latest StuckOnlyInListeners
PROPERTIES InStatusOrder CallsReturn
