SPECIFICATION BulkSpec
CONSTANTS
    DataTypes = {book}
    Indices = {incoming}
    SearchIndex <- BookIndex
    Workflows = {wf}
    Registered = {wf}
    DefinitionType = book
    Metadata = {m1}
    ActionNames = {approve, forgotten}
    Positions = {0, 1}
    None = None
    Absent = Absent
    Objects = {o1, o2}
    Workers = {w1, w2}
    Handlers = {approve}
    Actions = {"resolve"}
    Lists <- Orders
    Outcomes = {"COMPLETED", "ERROR"}
    BulkFaults = {}
    MaxPosts = 1
    book = book
    incoming = incoming
    wf = wf
    approve = approve
    forgotten = forgotten
    m1 = m1
    o1 = o1
    o2 = o2
    w1 = w1
    w2 = w2
INVARIANT DecisionsAreStored
