SPECIFICATION FairSpec
CONSTANTS
    Main = main
    Tasks = {t1}
    admin = admin
    user = user
    card = card
    Ids = {admin, user}
    Admin = admin
    Defaults <- MCDefaults
    MaxCards = 2
    Counts = {0, 1}
    Calls = {"add", "remove", "check", "count", "list", "json", "valid", "save", "format", "reset"}
    Faults = {"open", "short", "flush", "read", "stat", "unlink", "malloc"}
    MaxFaults = 2
    MaxCrashes = 1
    NoFile = NoFile
    Torn = Torn
    None = None
INVARIANTS TypeOK ResetRestores CreationIsAlone
PROPERTY EveryCallReturns
