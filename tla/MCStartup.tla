------------------------------- MODULE MCStartup -------------------------------
(* Three transactions of two roots, listed in pages of two.                 *)
EXTENDS WindowsStorageStartupRecovery

CONSTANTS left, right

MCRootOf == (1 :> left) @@ (2 :> right) @@ (3 :> left)
=============================================================================
