\* As in the code, a job may take longer than a retired client is kept.
CONSTANTS
    a = a
    b = b
    Forms = {a, b}
    Requests = {job}
    NoFile = NoFile
    NoClient = NoClient
    Files <- MCFiles
    Imported <- MCImported
    MaxId = 2
    MaxMade = 2
    MaxTrouble = 2
    RetireAfter = 2
    JobLimit = 3
SPECIFICATION FairSpec
INVARIANTS Agreement
PROPERTIES ImplementsRegistry SessionsKept RetiredAreClosed
CHECK_DEADLOCK FALSE
