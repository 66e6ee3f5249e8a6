SPECIFICATION Spec
CONSTANTS
  Clients = {c1, c2}
  Consoles = {c1}
  Attacher = Attacher
  Scanner = Scanner
  Closer = Closer
  Nobody = Nobody
  MaxInput = 2
  MaxOutput = 2
CHECK_DEADLOCK FALSE
INVARIANTS TerminalInv StuckOnlyInLeaving
PROPERTIES InputInOrder AttachmentEnds TerminalFlows
