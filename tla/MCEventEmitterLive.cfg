SPECIFICATION Spec
CONSTANTS
  Listeners = {l1, l2}
  Dispatchers = {d1, d2}
  Closer = Closer
  Nobody = Nobody
  Draining = {l1, l2}
  MaxDispatch = 2
PROPERTIES DispatchReturns OffRemoves
