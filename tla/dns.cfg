SPECIFICATION Spec
CONSTANTS
    Fds <- MCFds
    MaxSessions = 3
    Queries <- MCQueries
    Errors = {"bind", "recv", "send"}
    None = None
INVARIANTS TypeOK OneSocket OwnSockets PlainQueryRedirected
