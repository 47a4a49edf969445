SPECIFICATION Spec
CONSTANTS
  Hosts = {h1, h2}
  Zero = zero
  Group = group
  NoAddress = noaddress
  Ports = {1}
  MaxSockets = 2
INVARIANTS EndpointsAgree ConnectedHasPeer
