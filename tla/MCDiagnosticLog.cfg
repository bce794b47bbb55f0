CONSTANTS
    w1 = w1
    w2 = w2
    w3 = w3
    log1 = log1
    log2 = log2
    Writers = {w1, w2, w3}
    Logs = {log1, log2}
    LogOf <- MCLogOf
    MaximumRecordLength = 2
    LineLengths = {1, 2, 3}
    MaximumRetainedLength = 3
    MaximumRetainedFileCount = 2
    SupportedFileCount = 2
    MaximumSequence = 3
    PublicationBound = 4
    NoWriter = NoWriter
    NoFile = NoFile
SPECIFICATION Spec
INVARIANTS FolderStaysUsable RetainsTheLatest
SYMMETRY Callers
