SPECIFICATION Spec
CONSTANTS
  HostPorts = {h1, h2}
  ContainerPorts = {tcp, udp}
  Zeros = {0, 1}
  HostPaths = {v1, v2}
  ContainerPaths = {m1}
  EnvVars = {e1, e2}
  Malformed = Malformed
  MaxEntries = 2
CHECK_DEADLOCK FALSE
INVARIANT ExposesPorts
