\* Up to four files against limits of 4, 3 and 2, and two stores.
CONSTANTS
    ListLimit = 4
    InspectLimit = 3
    RemovalLimit = 2
    MaxNames = 4
    MaxStores = 2
SPECIFICATION Spec
INVARIANT SweepsKeepPace
PROPERTY RoomyBacklogClears
