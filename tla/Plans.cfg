CONSTANTS
    prepA = prepA
    prepB = prepB
    Containers = {c1, c2}
    Target = c1
    Kinds <- MCKinds
    MaxSize = 3
    MaxAdds = 3
    MaxMerges = 1
SPECIFICATION Spec
INVARIANTS
    OffersWhatWasAdded
    SortedAndDisjoint
    PreparesTheBest
PROPERTIES
    CallsReturn
CHECK_DEADLOCK FALSE
