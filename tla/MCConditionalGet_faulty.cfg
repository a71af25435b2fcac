SPECIFICATION ConditionalSpec
CONSTANTS
    Objects = {o1}
    Sessions = {s1, s2}
    DataTypes = {book}
    Indices = {incoming}
    SearchIndex <- BookIndex
    Workflows = {wf}
    Registered = {wf}
    DefinitionType = book
    Metadata = {m1, m2}
    ActionNames = {approve}
    Handlers = {approve}
    Positions = {0}
    Bodies <- PutBodies
    InitialTypes = {book}
    Faults = {"index", "commit", "broker", "crash"}
    MaxRequests = 2
    Clients = {c1}
    TicksPerSecond = 2
    None = None
    Absent = Absent
    book = book
    incoming = incoming
    wf = wf
    m1 = m1
    m2 = m2
    approve = approve
SYMMETRY SessionSymmetry
INVARIANT ConditionalTypeOK
INVARIANT TagIdentifiesAnswer
PROPERTY NotModifiedIsCurrent
INVARIANT Transactional
INVARIANT StampIdentifiesContent
INVARIANT TaskFollowsCommit
PROPERTY DocumentsMoveForward
PROPERTY NoResurrection
PROPERTY DeletedStaysOut
PROPERTY ImplementsPen
