CONSTANTS
    MaximumJournalFiles = 7
    Dispositions = {"CreateCorrectedCopy", "ReplaceOriginalWithVerifiedBackup", "ReplaceOriginalWithoutRetainedBackup"}
    ExternalBytes = {}
    UserMayInterfere = FALSE
    ArtifactsTampered = FALSE
    JournalDamaged = FALSE
    NativeCallsFail = FALSE
SPECIFICATION FairSpec
INVARIANTS TypeOK CrashesAreExplained
PROPERTY OpenTransactionIsResolved
