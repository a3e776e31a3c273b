SPECIFICATION Spec
CONSTANTS
    Directions <- SomeDirections
    RollHeadings <- SomeRolls
    NewHeadings <- SomeHeadings
    Speeds <- SomeSpeeds
    Levels <- SomeLevels
    IntSize = 1048576
    MaxPackets = 300
CHECK_DEADLOCK FALSE
INVARIANTS
    TypeOK
    FacingKnown
    HeadingOnWire
    ChecksumsValid
    NumbersFollow
PROPERTIES
    TurnIsRelative
