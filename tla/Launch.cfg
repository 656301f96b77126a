SPECIFICATION LaunchSpec
CONSTANTS
  Ports <- MCPorts
  MainPort = 2
  ServerArgs <- MCServerArgs
  max_retries = 2
  MaxTaken = 2
CHECK_DEADLOCK FALSE
INVARIANTS
  PortsApart
  ServingComplete
PROPERTIES
  HandshakeSettles
