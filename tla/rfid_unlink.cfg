SPECIFICATION Spec
CONSTANTS
    Main = main
    Tasks = {t1}
    admin = admin
    user = user
    card = card
    Ids <- MCIds
    Admin = admin
    Defaults <- MCDefaults
    MaxCards = 3
    Counts = {0}
    Calls = {"add", "remove", "check", "reset"}
    Faults = {"unlink"}
    MaxFaults = 1
    MaxCrashes = 0
    NoFile = NoFile
    Torn = Torn
    None = None
INVARIANT UnlinkFailureNotCritical
