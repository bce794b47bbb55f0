--------------------- MODULE BatchProcessingCoordinator ---------------------
(***************************************************************************)
(* BatchProcessingCoordinator::execute: a pool of workers takes the files   *)
(* of a reviewed batch in order, admits each one under an estimated memory  *)
(* budget, transforms it, and saves it inside one commit critical section.  *)
(* A user stop, a transaction whose outcome is uncertain (RecoveryConflict) *)
(* and an exception that escapes a worker each stop the rest of the batch.  *)
(*                                                                         *)
(* Steps are the critical sections of stateMutex and the calls between      *)
(* them.  An error is abstracted to what recordError tells apart, the three *)
(* success outcomes to "Saved", a file's plan to its kind and its memory    *)
(* charge.  The native effect of a save is history (`effect').              *)
(***************************************************************************)
EXTENDS Integers, FiniteSets, Functions

CONSTANTS
    FileCounts,                  \* how many files a reviewed batch may have
    MaximumConcurrentImageCount, \* of the reviewed execution limits
    Charges,                     \* estimated working memory of an image
    Budgets,                     \* what the budget provider may answer
    DiscoveryMayBeIncomplete,    \* the review was cut short
    ExceptionsEscape             \* calls may throw other than bad_alloc

ASSUME FileCountsAssumption == FileCounts \subseteq Nat
ASSUME WorkerLimitAssumption == MaximumConcurrentImageCount \in Nat \ {0}
ASSUME ChargesAssumption == Charges \subseteq Nat \ {0} /\ Charges # {}
ASSUME BudgetsAssumption == Budgets \subseteq Nat \ {0} /\ Budgets # {}
ASSUME BatchSwitchesAssumption ==
    DiscoveryMayBeIncomplete \in BOOLEAN /\ ExceptionsEscape \in BOOLEAN

Workers == 1..MaximumConcurrentImageCount   \* those that a full pool has

VARIABLES
    fileCount,         \* files of the reviewed batch
    plan,              \* what analyze() found about each file
    discoveryComplete,
    mpc,               \* the caller: program point
    spawned,           \* threads constructed so far
    initializationFailed, abortStartup,
    wpc, index,        \* each worker: program point and current file
    nextIndex,
    held, reserved,    \* MemoryReservation per worker, reservedMemoryBytes
    commitOwner,       \* who holds commitMutex (0: nobody)
    throwing,          \* an exception is unwinding the worker
    userStop, stop,    \* the caller's token and workerCancellation
    integrityFailure, workerFailure,
    row,               \* summary.fileResults
    progress,          \* summary.finalProgress
    effect,            \* history: the file was natively committed
    result             \* what execute() returns

caller == <<mpc, spawned, initializationFailed, abortStartup, result>>
batch == <<fileCount, plan, discoveryComplete>>
work == <<index, nextIndex>>
memory == <<held, reserved>>
signals == <<stop, integrityFailure, workerFailure>>
results == <<row, progress, effect>>
vars == <<batch, caller, wpc, work, memory, commitOwner, throwing, userStop,
          signals, results>>

-----------------------------------------------------------------------------
Files == 1..fileCount
WorkerCount == IF MaximumConcurrentImageCount <= fileCount
               THEN MaximumConcurrentImageCount ELSE fileCount
Pool == WorkerCount > 1   \* otherwise the caller's thread is the worker

AnalysisError == {"Cancelled", "Unsupported", "Failed"}
Plan == [kind : AnalysisError \cup {"NoTransform"}, charge : {0}]
          \cup [kind : {"Transform"}, charge : Charges]

Outcome == {"Saved", "NoOrientationNormalizationRequired",
            "UnsupportedSourceSkipped", "ProcessingFailed",
            "CancelledBeforeTransformation", "CancelledBeforeCommit"}

WorkerPoint ==
    {"Unspawned", "Initialize", "AwaitStart", "Take", "CheckConflict",
     "CheckStop", "Admit", "Asleep", "Capture", "Transform",
     "StopBeforeCommit", "LockCommit", "ConflictBeforeCommit",
     "StopInsideCommit", "Commit", "RequestStop", "Account", "Release",
     "Notify", "RecordException", "StopOthers", "Exited"}

\* The points of processFileAt: the worker has a file.
Processing == WorkerPoint \ {"Unspawned", "Initialize", "AwaitStart", "Take",
                             "RecordException", "StopOthers", "Exited"}

TypeOK ==
    /\ fileCount \in FileCounts
    /\ plan \in [Files -> Plan] /\ discoveryComplete \in BOOLEAN
    /\ mpc \in {"Prepare", "Spawn", "AwaitReady", "Join", "Returned"}
    /\ spawned \in 0..WorkerCount
    /\ initializationFailed \in BOOLEAN /\ abortStartup \in BOOLEAN
    /\ wpc \in [Workers -> WorkerPoint]
    /\ index \in [Workers -> 0..fileCount]
    /\ nextIndex \in 1..(fileCount + 1)
    /\ held \in [Workers -> Charges \cup {0}] /\ reserved \in Nat
    /\ commitOwner \in Workers \cup {0}
    /\ throwing \in [Workers -> BOOLEAN]
    /\ userStop \in BOOLEAN /\ stop \in BOOLEAN
    /\ integrityFailure \in BOOLEAN /\ workerFailure \in BOOLEAN
    /\ row \in [Files -> [outcome : Outcome, error : AnalysisError
                            \cup {"None", "RecoveryConflict"}]]
    /\ progress \in [completed : 0..fileCount, failed : 0..fileCount,
                     skipped : 0..fileCount, cancelled : 0..fileCount]
    /\ effect \in [Files -> BOOLEAN]
    /\ result \in {"None", "Success", "Failure", "Thrown"}

Init ==
    /\ fileCount \in FileCounts
    /\ plan \in [Files -> Plan]
    /\ discoveryComplete \in (IF DiscoveryMayBeIncomplete THEN BOOLEAN ELSE {TRUE})
    /\ mpc = "Prepare" /\ spawned = 0
    /\ initializationFailed = FALSE /\ abortStartup = FALSE
    /\ wpc = [w \in Workers |-> "Unspawned"]
    /\ index = [w \in Workers |-> 0]
    /\ nextIndex = 1
    /\ held = [w \in Workers |-> 0] /\ reserved = 0
    /\ commitOwner = 0
    /\ throwing = [w \in Workers |-> FALSE]
    /\ userStop = FALSE /\ stop = FALSE
    /\ integrityFailure = FALSE /\ workerFailure = FALSE
    /\ row = [f \in Files |-> [outcome |-> "CancelledBeforeTransformation",
                               error |-> "None"]]
    /\ progress = [completed |-> 0, failed |-> 0, skipped |-> 0, cancelled |-> 0]
    /\ effect = [f \in Files |-> FALSE]
    /\ result = "None"

-----------------------------------------------------------------------------
(* The caller *)

Return(outcome) == mpc' = "Returned" /\ result' = outcome

\* Rows are preallocated; an empty batch returns, one worker runs inline.
Prepare ==
    /\ mpc = "Prepare"
    /\ \/ /\ Return("Failure")
          /\ UNCHANGED <<wpc, spawned>>
       \/ /\ WorkerCount = 0 /\ Return("Success")
          /\ UNCHANGED <<wpc, spawned>>
       \/ /\ WorkerCount = 1
          /\ mpc' = "Join" /\ spawned' = 1
          /\ wpc' = [wpc EXCEPT ![1] = "Take"]
          /\ UNCHANGED result
       \/ /\ Pool /\ mpc' = "Spawn"
          /\ UNCHANGED <<wpc, spawned, result>>
    /\ UNCHANGED <<batch, initializationFailed, abortStartup, work, memory,
                   commitOwner, throwing, userStop, signals, results>>

\* A thread is constructed, or its construction fails and the ones that were
\* are released to exit and joined.
SpawnWorker ==
    /\ mpc = "Spawn"
    /\ \/ /\ spawned < WorkerCount
          /\ spawned' = spawned + 1
          /\ wpc' = [wpc EXCEPT ![spawned + 1] = "Initialize"]
          /\ UNCHANGED <<mpc, abortStartup>>
       \/ /\ spawned < WorkerCount
          /\ abortStartup' = TRUE /\ mpc' = "Join"
          /\ UNCHANGED <<spawned, wpc>>
       \/ /\ spawned = WorkerCount
          /\ mpc' = "AwaitReady"
          /\ UNCHANGED <<spawned, wpc, abortStartup>>
    /\ UNCHANGED <<batch, initializationFailed, result, work, memory, commitOwner,
                   throwing, userStop, signals, results>>

\* workersReady.wait(); then startWorkers releases the pool.
ReleaseWorkers ==
    /\ mpc = "AwaitReady"
    /\ \A w \in 1..WorkerCount : wpc[w] = "AwaitStart"
    /\ abortStartup' = initializationFailed
    /\ mpc' = "Join"
    /\ UNCHANGED <<batch, spawned, initializationFailed, result, wpc, work, memory,
                   commitOwner, throwing, userStop, signals, results>>

JoinWorkers ==
    /\ mpc = "Join"
    /\ \A w \in 1..spawned : wpc[w] = "Exited"
    /\ Return(IF abortStartup THEN "Failure"
              ELSE IF workerFailure THEN "Thrown" ELSE "Success")
    /\ UNCHANGED <<batch, spawned, initializationFailed, abortStartup, wpc, work,
                   memory, commitOwner, throwing, userStop, signals, results>>

-----------------------------------------------------------------------------
(* A worker *)

Goto(w, point) == wpc' = [wpc EXCEPT ![w] = point]

\* notify_all, or the stop callback of the wait.
WakeAnd(w, point) ==
    wpc' = [v \in Workers |-> IF v = w THEN point
                              ELSE IF wpc[v] = "Asleep" THEN "Admit" ELSE wpc[v]]

InitializeApartment(w) ==
    /\ wpc[w] = "Initialize"
    /\ initializationFailed' \in {initializationFailed, TRUE}
    /\ Goto(w, "AwaitStart")
    /\ UNCHANGED <<batch, mpc, spawned, abortStartup, result, work, memory,
                   commitOwner, throwing, userStop, signals, results>>

\* startWorkers.wait() is over once the caller has counted it down.
StartWorker(w) ==
    /\ wpc[w] = "AwaitStart" /\ mpc = "Join"
    /\ Goto(w, IF abortStartup THEN "Exited" ELSE "Take")
    /\ UNCHANGED <<batch, caller, work, memory, commitOwner, throwing, userStop,
                   signals, results>>

TakeFile(w) ==
    /\ wpc[w] = "Take"
    /\ IF nextIndex > fileCount
       THEN Goto(w, "Exited") /\ UNCHANGED work
       ELSE /\ index' = [index EXCEPT ![w] = nextIndex]
            /\ nextIndex' = nextIndex + 1
            /\ Goto(w, "CheckConflict")
    /\ UNCHANGED <<batch, caller, memory, commitOwner, throwing, userStop, signals,
                   results>>

OutcomeOf(code, transformationEntered) ==
    CASE code = "Cancelled" -> IF transformationEntered THEN "CancelledBeforeCommit"
                               ELSE "CancelledBeforeTransformation"
      [] code = "Unsupported" -> "UnsupportedSourceSkipped"
      [] OTHER -> "ProcessingFailed"

\* commitGuard is released when processFile returns.
ReleaseCommit(w) == commitOwner' = IF commitOwner = w THEN 0 ELSE commitOwner

Terminal(w, outcome, code) ==
    row' = [row EXCEPT ![index[w]] = [outcome |-> outcome, error |-> code]]

\* recordError().  A conflict is published first and stops the others next,
\* inside the commit section when it comes from a save.
RecordError(w, code, transformationEntered) ==
    /\ Terminal(w, OutcomeOf(code, transformationEntered), code)
    /\ IF code = "RecoveryConflict"
       THEN /\ integrityFailure' = TRUE
            /\ Goto(w, "RequestStop")
            /\ UNCHANGED commitOwner
       ELSE /\ Goto(w, "Account")
            /\ ReleaseCommit(w)
            /\ UNCHANGED integrityFailure

Proceed(w, point) ==
    Goto(w, point) /\ UNCHANGED <<row, commitOwner, integrityFailure>>

\* What recordError() and the ends of processFile leave alone.
Local == UNCHANGED <<batch, caller, work, throwing, userStop, stop, workerFailure,
                     progress>>

CheckConflict(w) ==
    /\ wpc[w] = "CheckConflict"
    /\ IF integrityFailure THEN RecordError(w, "RecoveryConflict", FALSE)
       ELSE IF plan[index[w]].kind \in AnalysisError
       THEN RecordError(w, plan[index[w]].kind, FALSE)
       ELSE Proceed(w, "CheckStop")
    /\ Local /\ UNCHANGED <<memory, effect>>

CheckStop(w) ==
    /\ wpc[w] = "CheckStop"
    /\ IF stop \/ ~discoveryComplete THEN RecordError(w, "Cancelled", FALSE)
       ELSE IF plan[index[w]].kind = "NoTransform"
       THEN /\ Terminal(w, "NoOrientationNormalizationRequired", "None")
            /\ Goto(w, "Account")
            /\ UNCHANGED <<commitOwner, integrityFailure>>
       ELSE Proceed(w, "Admit")
    /\ Local /\ UNCHANGED <<memory, effect>>

\* Mutant: budget - reserved wraps round (shown at 16 bits).
FitsUnchecked(charge, budget) ==
    reserved = 0 \/ charge <= (budget - reserved) % 2^16

Fits(charge, budget) ==
    reserved = 0 \/ (reserved <= budget /\ charge <= budget - reserved)

\* One evaluation of the wait's predicate under stateMutex, with whatever the
\* budget provider answers now.
Admit(w) ==
    /\ wpc[w] = "Admit"
    /\ \E budget \in Budgets : LET charge == plan[index[w]].charge IN
          IF Fits(charge, budget)
          THEN /\ reserved' = reserved + charge
               /\ held' = [held EXCEPT ![w] = charge]
               /\ Proceed(w, "Capture")
          ELSE /\ IF ~stop THEN Proceed(w, "Asleep")
                  ELSE RecordError(w, IF integrityFailure THEN "RecoveryConflict"
                                      ELSE "Cancelled", FALSE)
               /\ UNCHANGED memory
    /\ Local /\ UNCHANGED effect

SpuriousWakeup(w) ==
    /\ wpc[w] = "Asleep"
    /\ Goto(w, "Admit")
    /\ UNCHANGED <<batch, caller, work, memory, commitOwner, throwing, userStop,
                   signals, results>>

\* The source is captured and compared with the reviewed revision.
Capture(w) ==
    /\ wpc[w] = "Capture"
    /\ \/ IF stop THEN RecordError(w, "Cancelled", FALSE) ELSE Proceed(w, "Transform")
       \/ \E code \in {"Unsupported", "Failed"} : RecordError(w, code, FALSE)
    /\ Local /\ UNCHANGED <<memory, effect>>

\* createValidatedOutput() tells whether a cancelled transformation had begun.
Transform(w) ==
    /\ wpc[w] = "Transform"
    /\ \/ Proceed(w, "StopBeforeCommit")
       \/ stop /\ \E entered \in BOOLEAN : RecordError(w, "Cancelled", entered)
       \/ \E code \in {"Unsupported", "Failed"} : RecordError(w, code, TRUE)
    /\ Local /\ UNCHANGED <<memory, effect>>

StopBeforeCommit(w) ==
    /\ wpc[w] = "StopBeforeCommit"
    /\ IF stop THEN RecordError(w, "Cancelled", TRUE) ELSE Proceed(w, "LockCommit")
    /\ Local /\ UNCHANGED <<memory, effect>>

\* Mutant: saves are not serialized.
LockCommitShared(w) ==
    /\ wpc[w] = "LockCommit"
    /\ commitOwner' = w
    /\ Goto(w, "ConflictBeforeCommit")
    /\ Local /\ UNCHANGED <<memory, row, integrityFailure, effect>>

LockCommit(w) ==
    /\ wpc[w] = "LockCommit" /\ commitOwner = 0
    /\ commitOwner' = w
    /\ Goto(w, "ConflictBeforeCommit")
    /\ Local /\ UNCHANGED <<memory, row, integrityFailure, effect>>

ConflictBeforeCommit(w) ==
    /\ wpc[w] = "ConflictBeforeCommit"
    /\ IF integrityFailure THEN RecordError(w, "RecoveryConflict", TRUE)
       ELSE Proceed(w, "StopInsideCommit")
    /\ Local /\ UNCHANGED <<memory, effect>>

StopInsideCommit(w) ==
    /\ wpc[w] = "StopInsideCommit"
    /\ IF stop THEN RecordError(w, "Cancelled", TRUE) ELSE Proceed(w, "Commit")
    /\ Local /\ UNCHANGED <<memory, effect>>

\* Mutant: the token is checked again after a successful save.
CommitThenCheckStop(w) ==
    /\ wpc[w] = "Commit"
    /\ \/ /\ effect' = [effect EXCEPT ![index[w]] = TRUE]
          /\ IF stop THEN Terminal(w, "CancelledBeforeCommit", "Cancelled")
             ELSE Terminal(w, "Saved", "None")
          /\ Goto(w, "Account")
          /\ ReleaseCommit(w)
          /\ UNCHANGED integrityFailure
       \/ RecordError(w, "Failed", TRUE) /\ UNCHANGED effect
    /\ Local /\ UNCHANGED memory

\* source->commit(): the outcomes of RecoverableImageFileTransaction::execute
\* (see OutcomeIsTrue there).  Success is never relabelled by a later stop.
Commit(w) ==
    /\ wpc[w] = "Commit"
    /\ \/ /\ effect' = [effect EXCEPT ![index[w]] = TRUE]
          /\ Terminal(w, "Saved", "None")
          /\ Goto(w, "Account")
          /\ ReleaseCommit(w)
          /\ UNCHANGED integrityFailure
       \/ /\ \E code \in {"Failed"} \cup (IF stop THEN {"Cancelled"} ELSE {}) :
                RecordError(w, code, TRUE)
          /\ UNCHANGED effect
       \/ /\ RecordError(w, "RecoveryConflict", TRUE)
          /\ \E committed \in BOOLEAN :
                effect' = [effect EXCEPT ![index[w]] = committed]
    /\ Local /\ UNCHANGED memory

RequestStop(w) ==
    /\ wpc[w] = "RequestStop"
    /\ stop' = TRUE
    /\ WakeAnd(w, "Account")
    /\ ReleaseCommit(w)
    /\ UNCHANGED <<batch, caller, work, memory, throwing, userStop,
                   integrityFailure, workerFailure, results>>

\* Mutant: a cancellation after the transformation is not counted.
CountBeforeTransformationOnly(outcome) ==
    [completed |-> progress.completed + 1,
     failed    |-> progress.failed + (IF outcome = "ProcessingFailed" THEN 1 ELSE 0),
     skipped   |-> progress.skipped
                     + (IF outcome \in {"UnsupportedSourceSkipped",
                                       "NoOrientationNormalizationRequired"}
                        THEN 1 ELSE 0),
     cancelled |-> progress.cancelled
                     + (IF outcome = "CancelledBeforeTransformation" THEN 1 ELSE 0)]

Count(outcome) ==
    [completed |-> progress.completed + 1,
     failed    |-> progress.failed + (IF outcome = "ProcessingFailed" THEN 1 ELSE 0),
     skipped   |-> progress.skipped
                     + (IF outcome \in {"UnsupportedSourceSkipped",
                                       "NoOrientationNormalizationRequired"}
                        THEN 1 ELSE 0),
     cancelled |-> progress.cancelled
                     + (IF outcome \in {"CancelledBeforeTransformation",
                                       "CancelledBeforeCommit"} THEN 1 ELSE 0)]

Account(w) ==
    /\ wpc[w] = "Account"
    /\ progress' = Count(row[index[w]].outcome)
    /\ Goto(w, "Release")
    /\ UNCHANGED <<batch, caller, work, memory, commitOwner, throwing, userStop,
                   signals, row, effect>>

Leave(w) == IF throwing[w] THEN "RecordException" ELSE "Take"

\* ~MemoryReservation(): the bytes are given back under stateMutex, the
\* waiters are notified after it.
Release(w) ==
    /\ wpc[w] = "Release"
    /\ reserved' = reserved - held[w]
    /\ held' = [held EXCEPT ![w] = 0]
    /\ Goto(w, IF held[w] = 0 THEN Leave(w) ELSE "Notify")
    /\ UNCHANGED <<batch, caller, work, commitOwner, throwing, userStop, signals,
                   results>>

\* Mutant: the waiters are not notified.
NotifyNobody(w) ==
    /\ wpc[w] = "Notify"
    /\ Goto(w, Leave(w))
    /\ UNCHANGED <<batch, caller, work, memory, commitOwner, throwing, userStop,
                   signals, results>>

Notify(w) ==
    /\ wpc[w] = "Notify"
    /\ WakeAnd(w, Leave(w))
    /\ UNCHANGED <<batch, caller, work, memory, commitOwner, throwing, userStop,
                   signals, results>>

\* Anything but bad_alloc unwinds the worker; a throwing save may have had its
\* effect.
Throw(w) ==
    /\ ExceptionsEscape
    /\ wpc[w] \in {"Capture", "Transform", "Commit"}
    /\ throwing' = [throwing EXCEPT ![w] = TRUE]
    /\ effect' \in (IF wpc[w] = "Commit"
                    THEN {effect, [effect EXCEPT ![index[w]] = TRUE]} ELSE {effect})
    /\ ReleaseCommit(w)
    /\ Goto(w, "Release")
    /\ UNCHANGED <<batch, caller, work, memory, userStop, signals, row, progress>>

RecordException(w) ==
    /\ wpc[w] = "RecordException"
    /\ workerFailure' = TRUE
    /\ Goto(w, "StopOthers")
    /\ UNCHANGED <<batch, caller, work, memory, commitOwner, throwing, userStop,
                   stop, integrityFailure, results>>

StopOthers(w) ==
    /\ wpc[w] = "StopOthers"
    /\ stop' = TRUE
    /\ WakeAnd(w, "Exited")
    /\ UNCHANGED <<batch, caller, work, memory, commitOwner, throwing, userStop,
                   integrityFailure, workerFailure, results>>

\* The user's stop_callback runs workerCancellation.request_stop().
Cancel ==
    /\ ~userStop /\ mpc # "Returned"
    /\ userStop' = TRUE /\ stop' = TRUE
    /\ wpc' = [w \in Workers |-> IF wpc[w] = "Asleep" THEN "Admit" ELSE wpc[w]]
    /\ UNCHANGED <<batch, caller, work, memory, commitOwner, throwing,
                   integrityFailure, workerFailure, results>>

WorkerStep(w) ==
    \/ InitializeApartment(w) \/ StartWorker(w) \/ TakeFile(w) \/ CheckConflict(w)
    \/ CheckStop(w) \/ Admit(w) \/ Capture(w) \/ Transform(w) \/ StopBeforeCommit(w)
    \/ LockCommit(w) \/ ConflictBeforeCommit(w) \/ StopInsideCommit(w) \/ Commit(w)
    \/ RequestStop(w) \/ Account(w) \/ Release(w) \/ Notify(w) \/ Throw(w)
    \/ RecordException(w) \/ StopOthers(w)

CallerStep == Prepare \/ SpawnWorker \/ ReleaseWorkers \/ JoinWorkers

\* execute() has returned and every thread is joined.
Returned == mpc = "Returned" /\ UNCHANGED vars

Next ==
    \/ CallerStep \/ Cancel \/ Returned
    \/ \E w \in Workers : WorkerStep(w) \/ SpuriousWakeup(w)

Spec == Init /\ [][Next]_vars

\* Threads are scheduled; nothing is assumed of spurious wakeups or the user.
FairSpec ==
    Spec /\ WF_vars(CallerStep) /\ \A w \in Workers : WF_vars(WorkerStep(w))

-----------------------------------------------------------------------------
(* Properties *)

Finished == {f \in Files : f < nextIndex
                           /\ \A w \in Workers : index[w] = f => wpc[w] \notin Processing}
Holders == {w \in Workers : held[w] > 0}

\* The estimate that admission works with is what the active images hold, and
\* two of them are active only within the largest budget ever reported: an
\* oversized image runs alone, whatever is released in between.
MemoryWithinBudget ==
    /\ reserved = FoldFunction(+, 0, held)
    /\ Cardinality(Holders) > 1 => \E budget \in Budgets : reserved <= budget

\* "A published integrity conflict prohibits all later admissions"
\* (BatchProcessingCoordinator.cpp:405): no save begins after it.
NoSaveAfterConflict ==
    [][\A w \in Workers : wpc[w] # "Commit" /\ wpc'[w] = "Commit" => ~integrityFailure']_wpc

\* "A successful native commit wins over a token requested afterwards"
\* (BatchFileOutcome.h): a saved row was committed, and a committed file has a
\* saved row unless the summary or an exception says that it is uncertain; a
\* batch that failed to start has touched no file.
RowsMatchCommits ==
    /\ \A f \in Finished :
          /\ row[f].outcome = "Saved" => effect[f]
          /\ effect[f] => \/ row[f].outcome = "Saved"
                          \/ row[f].error = "RecoveryConflict" /\ integrityFailure
                          \/ \E w \in Workers : index[w] = f /\ throwing[w]
    /\ result = "Failure" => \A f \in Files : ~effect[f]

\* A summary counts every file exactly once, in the class of its row; every row
\* but a success carries its reason, and a file is reported cancelled only if
\* somebody stopped the batch.
SummaryIsComplete ==
    result = "Success" =>
        LET InClass(outcomes) == Cardinality({f \in Files : row[f].outcome \in outcomes}) IN
        /\ progress = [completed |-> fileCount,
                       failed    |-> InClass({"ProcessingFailed"}),
                       skipped   |-> InClass({"UnsupportedSourceSkipped",
                                              "NoOrientationNormalizationRequired"}),
                       cancelled |-> InClass({"CancelledBeforeTransformation",
                                              "CancelledBeforeCommit"})]
        /\ \A f \in Files : row[f].error = "None" <=>
              row[f].outcome \in {"Saved", "NoOrientationNormalizationRequired"}
        /\ (\E f \in Files : row[f].error = "Cancelled" /\ plan[f].kind # "Cancelled") =>
              userStop \/ integrityFailure \/ ~discoveryComplete

\* No wakeup is lost and nobody waits for ever: execute() returns, and then no
\* reservation, lock or thread outlives the call, exceptions included.
ExecuteReturns ==
    <>(/\ result # "None"
       /\ reserved = 0 /\ commitOwner = 0
       /\ \A w \in Workers : wpc[w] \in {"Unspawned", "Exited"})
=============================================================================
