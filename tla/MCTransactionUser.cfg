CONSTANTS
    MaximumJournalFiles = 7
    Dispositions = {"CreateCorrectedCopy", "ReplaceOriginalWithVerifiedBackup", "ReplaceOriginalWithoutRetainedBackup"}
    ExternalBytes = {"Other", "Reviewed"}
    UserMayInterfere = TRUE
    ArtifactsTampered = FALSE
    JournalDamaged = FALSE
    NativeCallsFail = TRUE
SPECIFICATION Spec
INVARIANTS ArtifactRetained StageBelongsToExecution
PROPERTIES EditBeforeLastCheckSurvives CancellationPreventsCommit ImplementsEngine
