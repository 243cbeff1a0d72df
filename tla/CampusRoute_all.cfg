SPECIFICATION Spec
CONSTANTS
    Nodes = {1, 2, 3, 4, 5}
    FloorOf <- MCFloorOf
    BlockOf <- MCBlockOf
    Junctions = {2, 3, 4}
    TmpDoor = 6
    Rooms = {1, 2, 3}
    Origins = {1, 3, 8}
    Hints = {"none", "GF"}
    Modes = {"shortest", "accessible"}
    AccessLengths = {1, 2}
    Maps <- MCMaps
INVARIANTS
    RouteIsCorrect
    AnnouncedIsAllowed
PROPERTIES
    SettledIsFinal
    RouteService
