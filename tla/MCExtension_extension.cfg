SPECIFICATION ExtensionSpec
CONSTANTS
    Extensions = {e1, e2}
    Settings <- SomeSettings
    EntryPoints <- SomeEntryPoints
    Names = {approve}
    ActionClasses = {classA, classB}
    CacheKeys = {k1}
    CacheValues = {v1, v2}
    MaxCalls = 5
    None = None
    approve = approve
    classA = classA
    classB = classB
INVARIANT ExtensionTypeOK
INVARIANT PublishedIsComplete
INVARIANT OwnSettingsStay
PROPERTY CacheAnswersOwn
