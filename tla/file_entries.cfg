SPECIFICATION FileSpec
CONSTANTS
    a = a
    b = b
    long = long
    None = None
    Torn = Torn
    Missing = Missing
    Blocked = Blocked
    Unvisited = Unvisited
    Files = {"f"}
    Texts <- MCTexts
    SizeOf <- MCSizeOf
    Times = {1, 2}
INVARIANTS FileTypeOK CleanMeansSaved ReportRight
PROPERTIES LookingIsHarmless
SYMMETRY Symmetry
