SPECIFICATION FairStartupSpec
CONSTANTS
    home = home
    secret = secret
    campus = campus
    camp = camp
    phrase = phrase
    factory = factory
    None = None
    Empty = Empty
    Strings = {home, secret, campus, camp, phrase, factory, Empty}
    Long = {phrase}
    Cut <- MCCut
    Entries <- MCEntries
    Compiled <- MCCompiled
    MaxRetry = 1
    MaxSubmits = 2
    MaxFaults = 2
    MaxCuts = 1
    MaxWaits = 2
INVARIANTS TypeOK RestsOnlyAfterRetries StartupTypeOK CardsServed
PROPERTIES Settles UsesStored LoopRuns ClockGetsSet
CHECK_DEADLOCK FALSE
