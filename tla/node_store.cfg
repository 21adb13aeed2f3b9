SPECIFICATION Spec
CONSTANTS
  s1 = s1
  Skills = {s1}
  Rule = rule
  Servers = {m}
  Versions = {v}
  None = None
  Own = Own
  Torn = Torn
  Keep = 1
  MaxEdits = 1
  MaxTroubles = 1
INVARIANTS
  AppliedIsExact
PROPERTIES
  LocalIsTheirs
  DestroyedWasSaved
  UserServersKept
CHECK_DEADLOCK FALSE
