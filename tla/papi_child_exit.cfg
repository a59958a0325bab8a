\* nrm-papiwrapper and its command, which nothing stops.
SPECIFICATION ProgramsSpec
CONSTANTS
    Programs = {"papi"}
    MaxInts = 0
    CanStop = FALSE
PROPERTIES
    ChildExitEndsWrapper
CHECK_DEADLOCK FALSE
