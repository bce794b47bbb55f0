--------------------- MODULE ImageFileTransactionEngine ---------------------
(***************************************************************************)
(* What the interface ImageFileTransactionEngine promises its callers (the  *)
(* batch, startup recovery) about one transaction, without stage, backup,   *)
(* journal or lease: execute() runs once and may change the user's files    *)
(* once; recovery later finds out which and records it.                     *)
(***************************************************************************)

VARIABLES
    state,    \* of execute(): Waiting, Running, Returned or Crashed
    effect,   \* on the user's files: None, Committed or OriginalLost
    outcome,  \* what execute() returned: None, Success, Refused, RecoveryConflict
    verdict   \* what is recorded for good: None, Committed or Abandoned

vars == <<state, effect, outcome, verdict>>

Init == state = "Waiting" /\ effect = "None" /\ outcome = "None" /\ verdict = "None"

Start ==
    /\ state = "Waiting" /\ state' = "Running"
    /\ UNCHANGED <<effect, outcome, verdict>>

\* At most once, only while execute() runs, and not after it was abandoned.
Commit ==
    /\ state = "Running" /\ effect = "None" /\ verdict = "None"
    /\ effect' \in {"Committed", "OriginalLost"}
    /\ UNCHANGED <<state, outcome, verdict>>

TruthOf(decision) ==
    \/ decision = "Committed" /\ effect = "Committed"
    \/ decision = "Abandoned" /\ effect = "None"

\* execute() records its decision, and may still fail to return it.
Record ==
    /\ state = "Running" /\ verdict = "None"
    /\ verdict' \in {"Committed", "Abandoned"} /\ TruthOf(verdict')
    /\ UNCHANGED <<state, effect, outcome>>

\* Success and an ordinary failure are final; a conflict leaves it to recovery.
Return ==
    /\ state \in {"Waiting", "Running"} /\ state' = "Returned"
    /\ \/ /\ outcome' = "Success" /\ effect = "Committed" /\ verdict' = "Committed"
          /\ verdict \in {"None", "Committed"}
       \/ /\ outcome' = "Refused" /\ effect = "None"
          /\ \/ UNCHANGED verdict
             \/ verdict = "None" /\ verdict' = "Abandoned"
       \/ /\ outcome' = "RecoveryConflict"
          /\ \/ UNCHANGED verdict
             \/ verdict = "None" /\ verdict' = "Abandoned" /\ effect = "None"
    /\ UNCHANGED effect

Crash ==
    /\ state = "Running" /\ state' = "Crashed"
    /\ UNCHANGED <<effect, outcome, verdict>>

\* "Recovery reports observed bytes, never a blind retry of replacement or
\* rollback": it decides nothing while execute() runs and changes no file.
Recover ==
    /\ state = "Crashed" \/ (state = "Returned" /\ outcome = "RecoveryConflict")
    /\ verdict = "None"
    /\ verdict' \in {"Committed", "Abandoned"} /\ TruthOf(verdict')
    /\ UNCHANGED <<state, effect, outcome>>

Next == Start \/ Commit \/ Record \/ Return \/ Crash \/ Recover

Spec == Init /\ [][Next]_vars
=============================================================================
