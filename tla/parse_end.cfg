SPECIFICATION TripSpec
CONSTANTS
    Texts <- MCTexts
    Printed <- MCPrinted
    Values <- MCValues
    Deepest = 2
CHECK_DEADLOCK FALSE
INVARIANTS
    ReadsWithinText
