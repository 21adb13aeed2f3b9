SPECIFICATION Spec
CONSTANTS
  NoClients = NoClients
  Devices = {"box"}
  Unassigned = Unassigned
  Refused = Refused
  Untouched = Untouched
  Mixed = Mixed
  Surplus = Surplus
  Corrupt = Corrupt
  Wants <- MCWants
  MaxEdits = 3
  MaxTroubles = 2
INVARIANTS
  HubNeverAhead
PROPERTIES
  ImplementsFleet
  Convergence
  RevokedNodeStops
CHECK_DEADLOCK FALSE
