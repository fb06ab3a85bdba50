CONSTANTS
    Objects <- AllObjects
    Parent <- ParentOf
    Needs <- NeededBy
    Keeps <- KeptBy
    Lent <- LentResources
    Lendings <- LendingSets
    Uses <- UsePairs
    MaxFaults = 1
    MaxBegun = 6
SPECIFICATION Spec
INVARIANT NothingElseLeaks
 
INVARIANT UsersGoFirst
CHECK_DEADLOCK FALSE
