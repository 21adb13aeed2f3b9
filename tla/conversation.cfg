SPECIFICATION Spec
CONSTANTS
    Catalog <- MCModels
    Wishes <- MCWishes
    MaxPieces = 3
    MaxSaid = 6
INVARIANTS NothingRefused NothingIsLost
CHECK_DEADLOCK FALSE
