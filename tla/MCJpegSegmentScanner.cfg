SPECIFICATION Spec
CONSTANT Scenarios <- MCScenarios
INVARIANTS InventoryIsExact EnvelopesAreWhole
PROPERTIES ScanAdvances
CHECK_DEADLOCK FALSE
