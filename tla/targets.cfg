CONSTANTS
    Names <- MCNames
    Worlds <- MCWorlds
SPECIFICATION Spec
CHECK_DEADLOCK FALSE
INVARIANTS
    PlacesAreScanned
    WalkStaysInside
