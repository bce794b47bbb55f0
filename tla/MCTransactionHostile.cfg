CONSTANTS
    MaximumJournalFiles = 7
    Dispositions = {"CreateCorrectedCopy", "ReplaceOriginalWithVerifiedBackup", "ReplaceOriginalWithoutRetainedBackup"}
    ExternalBytes = {"Other", "Reviewed", "Output"}
    UserMayInterfere = TRUE
    ArtifactsTampered = TRUE
    JournalDamaged = TRUE
    NativeCallsFail = TRUE
SPECIFICATION Spec
INVARIANTS AbandonmentIsTrue CommitRecordIsTrue OutcomeIsTrue
PROPERTIES SettledMeansClosed
