----------------------------- MODULE MCMainWindow -----------------------------
(* One row, two combinations of options, two batches, two launches.         *)
EXTENDS MainWindow
=============================================================================
