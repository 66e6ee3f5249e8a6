SPECIFICATION Spec
CONSTANTS
  Requests = {r1, r2, r3}
  Servers = {s1, s2, s3}
  App = App
  Nobody = Nobody
INVARIANTS RegistryInv AckedIsKept OneInstanceEach LivesOn ClosesAll HandlesLive
PROPERTIES ImplementsServers ShutdownEnds
