SPECIFICATION BulkSpec
CONSTANTS
    DataTypes = {book}
    Indices = {incoming}
    SearchIndex <- NoIndex
    Workflows = {wf}
    Registered = {wf}
    DefinitionType = book
    Metadata = {m1}
    ActionNames = {approve, forgotten}
    Positions = {0}
    None = None
    Absent = Absent
    Objects = {o1, o2}
    Workers = {w1, w2}
    Handlers = {approve}
    Actions = {"resolve", "restart", "edit"}
    Lists <- TwoOrders
    Outcomes = {}
    BulkFaults = {"index", "commit", "broker", "crash"}
    MaxPosts = 2
    book = book
    incoming = incoming
    wf = wf
    approve = approve
    forgotten = forgotten
    m1 = m1
    o1 = o1
    o2 = o2
    w1 = w1
    w2 = w2
SYMMETRY Alike
INVARIANT BulkTypeOK
INVARIANT RunningIsHanded
INVARIANT HandedIsCommitted
INVARIANT OnlyResolveDeadlocks
INVARIANT DoneIsHanded
