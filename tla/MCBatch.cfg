CONSTANTS
    FileCounts = {0, 1, 3}
    MaximumConcurrentImageCount = 2
    Charges = {1, 3}
    Budgets = {1, 2}
    DiscoveryMayBeIncomplete = TRUE
    ExceptionsEscape = TRUE
SPECIFICATION FairSpec
INVARIANTS MemoryWithinBudget RowsMatchCommits SummaryIsComplete
PROPERTIES NoSaveAfterConflict ExecuteReturns
