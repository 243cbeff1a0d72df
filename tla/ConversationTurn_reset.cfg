SPECIFICATION Spec
CONSTANTS
    Departments = {"cse"}
    Utterances <- MCUtterances
    Proposals <- MCProposals
    Rooms <- MCRooms
    HodRoom <- MCHodRoom
    LabRooms <- MCLabRooms
INVARIANT NewVisitorIsUnknown
