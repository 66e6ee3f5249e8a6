SPECIFICATION SteadySpec
CONSTANTS
  Callers = {c1, c2}
  Initializer = Initializer
  Lifecycle = Lifecycle
  Nobody = Nobody
  MaxRestarts = 0
PROPERTIES ActionReturns
