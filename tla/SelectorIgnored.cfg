SPECIFICATION Spec
CONSTANTS
    MaxItems = 2
    MaxTimeout = 2
INVARIANT
    ListSelectorRestricts
