SPECIFICATION TunnelSpec
CONSTANTS
  Tunnels = {t1}
  NoTunnel = NoTunnel
  Room = 2
INVARIANTS
  SingleHost
PROPERTIES
  EnableTakes
CHECK_DEADLOCK FALSE
