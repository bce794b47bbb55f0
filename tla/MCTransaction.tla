--------------------------- MODULE MCTransaction ---------------------------
EXTENDS RecoverableImageFileTransaction
=============================================================================
