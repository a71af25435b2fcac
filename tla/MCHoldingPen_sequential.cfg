SPECIFICATION Spec
CONSTANTS
    Objects = {o1}
    Sessions = {s1}
    DataTypes = {book}
    Indices = {incoming}
    SearchIndex <- BookIndex
    Workflows = {wf}
    Registered = {wf}
    DefinitionType = book
    Metadata = {m1, m2}
    ActionNames = {approve, forgotten}
    Handlers = {approve}
    Positions = {0, 1}
    Bodies <- SomeBodies
    InitialTypes = {book, None}
    Faults = {"index", "commit", "broker", "crash"}
    MaxRequests = 3
    None = None
    Absent = Absent
    book = book
    incoming = incoming
    wf = wf
    m1 = m1
    m2 = m2
    approve = approve
    forgotten = forgotten
INVARIANT TypeOK
INVARIANT DeletedUnsearchable
PROPERTY ResolvedOnlyIfApplicable
