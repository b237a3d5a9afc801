SPECIFICATION ParametersSpec
CONSTANTS
    text = text
    aggregate = aggregate
    selection = selection
    assignment = assignment
    inner = inner
    dropped = dropped
    Params = {aggregate, selection, assignment, inner, dropped}
    Keys = {"0", "1"}
    Lines = {text}
    Blank = Blank
    NoRecord = NoRecord
    Releases <- MCReleases
INVARIANTS
    RecordsAreAccepted
    DocumentationIsNoAnswer
    UnresolvedIsCounted
