SPECIFICATION Spec
CONSTANTS
  Callers = {c1}
  Initializer = Initializer
  Lifecycle = Lifecycle
  Nobody = Nobody
  MaxRestarts = 0
PROPERTIES CloseTerminates StatusConverges
