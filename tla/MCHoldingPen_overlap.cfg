SPECIFICATION FairSpec
CONSTANTS
    Objects = {o1}
    Sessions = {s1, s2, s3}
    DataTypes = {book}
    Indices = {incoming}
    SearchIndex <- BookIndex
    Workflows = {wf}
    Registered = {wf}
    DefinitionType = book
    Metadata = {m1, m2}
    ActionNames = {approve}
    Handlers = {approve}
    Positions = {0, 1}
    Bodies <- SomeBodies
    InitialTypes = {book, None}
    Faults = {}
    MaxRequests = 2
    None = None
    Absent = Absent
    book = book
    incoming = incoming
    wf = wf
    m1 = m1
    m2 = m2
    approve = approve
    forgotten = forgotten
INVARIANT LatestSaveIsSearchable
INVARIANT RunningIsCarried
PROPERTY EditKeepsWorkflow
PROPERTY RunningEnds
