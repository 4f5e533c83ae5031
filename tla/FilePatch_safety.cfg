SPECIFICATION Spec
CONSTANTS
    Calls <- MCCalls
    Patch <- MCPatch
    Contents <- MCContents
    MaxEdits = 2
    Absent = Absent
INVARIANTS TypeOK ReportIsTrue
PROPERTIES PreviewedFileOnly ImplementsApprovedPatch
CHECK_DEADLOCK FALSE
