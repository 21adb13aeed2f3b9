SPECIFICATION Spec
CONSTANTS
  Keep = 1
  MaxTexts = 3
  MaxPushes = 2
  MaxCrashes = 1
CONSTRAINT NotRobbed
INVARIANTS
  ResultIsTrue
  DisplacedIsKept
  NoSuggestionIsLost
PROPERTIES
  EditsAreSeen
CHECK_DEADLOCK FALSE
