SPECIFICATION Spec
CONSTANTS
    Fds <- MCFds
    MaxSessions = 3
    Queries <- MCQueries
    Errors = {"send"}
    None = None
INVARIANT AutomaticSocketRecovery
