SPECIFICATION MCSpec
CONSTANTS
  Nodes = {n1, n2, n3}
  Namesakes = {n1, n2}
  Third = n3
  n1 = n1
  n2 = n2
  n3 = n3
  NoCode = NoCode
  HostOf <- MCHostOf
  Suffixed <- MCSuffixed
  MaxAttempts = 1
  MaxTokens = 3
  MaxCommands = 1
  Creds = {"laptop", "laptop again", "desktop"}
  IdOf <- MCIdOf
  MaxStreams = 3
  MaxPublications = 2
SYMMETRY Symmetry
CONSTRAINT Bounded
INVARIANTS
  ActiveIdsUnique
  AdmittedWasApproved
  CodeMintsOnce
  WorksUntilRevoked
  NewestIsServed
CHECK_DEADLOCK FALSE
