SPECIFICATION Spec
CONSTANTS
    Main = main
    Tasks = {t1, t2}
    admin = admin
    user = user
    card = card
    Ids <- MCIds
    Admin = admin
    Defaults <- MCDefaults
    MaxCards = 2
    Counts = {0}
    Calls = {"add", "remove", "check", "count", "list", "json", "valid", "save", "format", "reset"}
    Faults = {"malloc"}
    MaxFaults = 1
    MaxCrashes = 0
    NoFile = NoFile
    Torn = Torn
    None = None
INVARIANTS Consistent
PROPERTY ImplementsRfidDb
