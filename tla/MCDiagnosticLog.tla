---------------------------- MODULE MCDiagnosticLog ----------------------------
(* Two callers of one log object and a caller of another object.            *)
EXTENDS LocalDiagnosticLog, TLC

CONSTANTS w1, w2, w3, log1, log2

MCLogOf == (w1 :> log1) @@ (w2 :> log1) @@ (w3 :> log2)
(* w1 and w2 use the same object and are interchangeable.                  *)
Callers == Permutations({w1, w2})
=============================================================================
