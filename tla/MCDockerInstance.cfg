SPECIFICATION Spec
CONSTANTS
  Callers = {c1, c2}
  Initializer = Initializer
  Lifecycle = Lifecycle
  Nobody = Nobody
  MaxRestarts = 1
INVARIANTS IndInv NoDeadlock OneAtATime CallsHaveContainer AdoptsExisting ClosedIsQuiet TransientIsOwned
PROPERTIES ImplementsServerInstance
