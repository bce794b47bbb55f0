------------------------- MODULE MCSourceFileCapture -------------------------
(* The revision alone, and the bytes of a file of at most two bytes.        *)
EXTENDS SourceFileCapture

MCRetentions == {{}, {2}}
=============================================================================
