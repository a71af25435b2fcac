SPECIFICATION ListingSpec
CONSTANTS
    DataTypes = {book, video}
    Indices = {incoming}
    SearchIndex <- BookIndex
    Workflows = {}
    Registered = {}
    DefinitionType = None
    Metadata = {m1}
    ActionNames = {approve}
    Positions = {0}
    None = None
    Absent = Absent
    IndexSize = 4
    IndexedDocs <- ThreeDocs
    Scores = {0, 1}
    Filters <- TwoFilters
    PostFilters = {"data_type"}
    SortOptions <- Options
    DefaultSort <- Defaults
    MaxWindow = 6
    Requests <- MCRequests
    Sizes <- SomeSizes
    Pages <- SomePages
    SortKeys = {"updated", "oldest"}
    book = book
    video = video
    incoming = incoming
    m1 = m1
    approve = approve
INVARIANT ListingTypeOK
INVARIANT WalkShowsAll
INVARIANT PrevUndoesNext
INVARIANT FacetKeepsPromise
INVARIANT MinusReverses
