SPECIFICATION FileSpec
CONSTANTS
    FileReads = {1, 2}
    Touches = {"between", "reading"}
    MaxVersions = 4
INVARIANT NothingUnseenIsOverwritten
CHECK_DEADLOCK FALSE
