------------------------------ MODULE MCBatch ------------------------------
EXTENDS BatchProcessingCoordinator
=============================================================================
