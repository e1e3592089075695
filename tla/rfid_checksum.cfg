SPECIFICATION Spec
CONSTANTS
    Main = main
    Tasks = {t1}
    admin = admin
    user = user
    card = card
    Ids <- MCIds
    Admin = admin
    Defaults <- MCDefaults
    MaxCards = 3
    Counts = {0, 2}
    Calls = {"add", "remove", "valid"}
    Faults = {}
    MaxFaults = 0
    MaxCrashes = 1
    NoFile = NoFile
    Torn = Torn
    None = None
INVARIANT ValidMeansWritten
