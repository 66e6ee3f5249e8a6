SPECIFICATION Spec
CONSTANTS
  Listeners = {l1, l2}
  Dispatchers = {d1, d2}
  Closer = Closer
  Nobody = Nobody
  Draining = {}
  MaxDispatch = 2
CHECK_DEADLOCK FALSE
PROPERTY OffRemoves
