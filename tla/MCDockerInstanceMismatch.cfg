SPECIFICATION Spec
CONSTANTS
  Callers = {c1, c2}
  Initializer = Initializer
  Lifecycle = Lifecycle
  Nobody = Nobody
  MaxRestarts = 0
INVARIANT AttachHasContainer
