SPECIFICATION Spec
CONSTANTS
    Objects = {o1, o2}
    TempDirs = {"tmp1"}
    CustomDirs = {"custom"}
    Sources <- MCSources
    Unreadable <- MCUnreadable
    Hash <- hash_64_fnv1a
    HashBits = 8
    MaxIntegrations = 2
INVARIANTS
    NoTemporaryLeft
    RecordsHaveFiles
    FetchedIsIntegrated
