SPECIFICATION ReindexFairSpec
CONSTANTS
    Objects = {o1, o2}
    Sessions = {s1}
    DataTypes = {book, video}
    Indices = {incoming}
    SearchIndex <- BookIndexOnly
    Workflows = {wf}
    Registered = {wf}
    DefinitionType = book
    Metadata = {m1}
    ActionNames = {approve}
    Handlers = {approve}
    Positions = {0}
    Bodies <- MetadataBodies
    InitialTypes = {book, video, None}
    Faults = {"index", "broker", "batch", "lost"}
    MaxRequests = 1
    Types = {book, video}
    BatchSizes = {1, 2}
    Pythons = {2, 3}
    None = None
    Absent = Absent
    book = book
    video = video
    incoming = incoming
    wf = wf
    m1 = m1
    m2 = m2
    approve = approve
INVARIANT ReindexTypeOK
INVARIANT StampIdentifiesContent
INVARIANT CleanReportIsComplete
INVARIANT AllAreCounted
INVARIANT FoundAfterReindex
PROPERTY ReindexEnds
