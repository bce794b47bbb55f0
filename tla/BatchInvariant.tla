--------------------------- MODULE BatchInvariant ---------------------------
(***************************************************************************)
(* The inductive invariant behind the safety theorems of                    *)
(* BatchProcessingCoordinator, as a conjunction of named parts.             *)
(***************************************************************************)
EXTENDS BatchProcessingCoordinator

\* The worker has a file whose row is not written yet.
Early ==
    {"CheckConflict", "CheckStop", "Admit", "Asleep", "Capture", "Transform",
     "StopBeforeCommit", "LockCommit", "ConflictBeforeCommit", "StopInsideCommit",
     "Commit"}
Waiting == {"Unspawned", "Initialize", "AwaitStart"}

\* No worker takes a file before startWorkers, or at all after a failed start;
\* execute() returns when every thread it constructed has exited.
CallerInv ==
    /\ mpc \in {"Prepare", "Spawn", "AwaitReady"} =>
         /\ ~abortStartup /\ ~workerFailure /\ nextIndex = 1
         /\ \A w \in Workers : wpc[w] \in Waiting
    /\ mpc = "Prepare" => spawned = 0
    /\ mpc = "AwaitReady" => spawned = WorkerCount
    /\ mpc \in {"Spawn", "AwaitReady", "Join"} => WorkerCount > 0
    /\ \A w \in Workers : w > spawned => wpc[w] = "Unspawned"
    /\ abortStartup =>
         /\ nextIndex = 1
         /\ \A w \in Workers : wpc[w] \in Waiting \cup {"Exited"}
    /\ mpc = "Join" /\ ~abortStartup => spawned = WorkerCount
    /\ mpc = "Returned" => \A w \in Workers : wpc[w] \in {"Unspawned", "Exited"}
    /\ result # "None" => mpc = "Returned"
    /\ result = "Failure" => nextIndex = 1
    /\ result = "Success" => ~workerFailure /\ nextIndex > fileCount

\* An exception unwinds its worker; a worker exits for a reason.
ExitInv ==
    \A w \in Workers :
       /\ throwing[w] => wpc[w] \in {"Release", "Notify", "RecordException",
                                     "StopOthers", "Exited"}
       /\ wpc[w] \in {"RecordException", "StopOthers"} => throwing[w]
       /\ wpc[w] = "StopOthers" => workerFailure
       /\ wpc[w] = "Exited" => \/ abortStartup \/ nextIndex > fileCount
                               \/ throwing[w]
       /\ wpc[w] = "Exited" /\ throwing[w] => workerFailure

\* A file belongs to one worker, in the order of the batch.
IndexInv ==
    /\ \A w \in Workers : index[w] < nextIndex
    /\ \A w \in Workers : wpc[w] \in Processing => index[w] > 0
    /\ \A v, w \in Workers : v # w /\ index[v] = index[w] => index[w] = 0

\* Saves are serialized, so only the save in progress can publish a conflict.
CommitInv ==
    \A w \in Workers :
       /\ wpc[w] \in {"ConflictBeforeCommit", "StopInsideCommit", "Commit"} =>
            commitOwner = w
       /\ wpc[w] \in {"StopInsideCommit", "Commit"} => ~integrityFailure

\* The batch is stopped for a reason.
StopInv ==
    /\ stop => userStop \/ integrityFailure \/ workerFailure
    /\ \A w \in Workers : wpc[w] = "RequestStop" => integrityFailure

\* The row that execute() prepares, before processFile.
Untouched(f) ==
    /\ row[f] = [outcome |-> "CancelledBeforeTransformation", error |-> "None"]
    /\ ~effect[f]

\* An exception cut the processing of f short.
Unwound(f) == \E w \in Workers : index[w] = f /\ throwing[w]

\* The row of a file that no worker will write any more.
RowIsTrue(f) ==
    /\ row[f].outcome = "Saved" => effect[f]
    /\ effect[f] => \/ row[f].outcome = "Saved"
                    \/ row[f].error = "RecoveryConflict" /\ integrityFailure
                    \/ Unwound(f)
    /\ \/ Unwound(f)
       \/ row[f].error = "None" <=>
            row[f].outcome \in {"Saved", "NoOrientationNormalizationRequired"}
    /\ row[f].error = "Cancelled" /\ plan[f].kind # "Cancelled" =>
         userStop \/ integrityFailure \/ workerFailure \/ ~discoveryComplete

\* Rows are written in the order the files are taken, and are true once written.
RowInv ==
    /\ \A f \in Files : f >= nextIndex => Untouched(f)
    /\ \A w \in Workers : wpc[w] \in Early => Untouched(index[w])
    /\ \A f \in Files :
          f < nextIndex /\ (\A w \in Workers : index[w] = f => wpc[w] \notin Early)
            => RowIsTrue(f)

\* The files that the progress counts: written, and not cut short.
Accounted ==
    {f \in Files : /\ f < nextIndex
                   /\ \A w \in Workers : index[w] = f =>
                        /\ wpc[w] \notin Early \cup {"RequestStop", "Account"}
                        /\ ~throwing[w]}

\* Those of them with one of the outcomes.
AccountedAs(outcomes) == {f \in Accounted : row[f].outcome \in outcomes}

\* The counters of the progress are those of the rows.
CountInv ==
    progress = [completed |-> Cardinality(Accounted),
                failed    |-> Cardinality(AccountedAs({"ProcessingFailed"})),
                skipped   |-> Cardinality(AccountedAs(
                                {"UnsupportedSourceSkipped",
                                 "NoOrientationNormalizationRequired"})),
                cancelled |-> Cardinality(AccountedAs(
                                {"CancelledBeforeTransformation",
                                 "CancelledBeforeCommit"}))]

\* Memory is held between admission and release only.
HoldInv ==
    \A w \in Workers :
       wpc[w] \in Waiting \cup {"Take", "CheckConflict", "CheckStop", "Admit", "Asleep",
                                "Notify"} => held[w] = 0

\* The inductive invariant of the batch.
BInv ==
    /\ TypeOK /\ CallerInv /\ ExitInv /\ IndexInv /\ CommitInv /\ StopInv /\ RowInv
    /\ CountInv /\ HoldInv /\ MemoryWithinBudget
=============================================================================
