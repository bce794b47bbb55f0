------------------------------ MODULE MainWindow ------------------------------
(***************************************************************************)
(* The application shell: MainWindow's event handlers, the view model they *)
(* drive, cooperative close, the access-list entry of the running batch    *)
(* and startup recovery.  Everything here runs on the UI thread; a handler *)
(* that awaits is a task whose continuation is one later step, and workers *)
(* reach the UI thread only through the first-in-first-out dispatcher      *)
(* queue.  The process may die and be launched again; journals, access     *)
(* list and preferences survive.                                           *)
(*                                                                         *)
(* A batch has one journal state: "open" while one of its transactions is  *)
(* incomplete.  How the coordinator and the transaction engine get there   *)
(* is modelled in their own modules.                                       *)
(***************************************************************************)
EXTENDS Naturals, Sequences, FiniteSets

CONSTANTS Files,          \* rows of a review
          Options,        \* combinations of processing options
          MaxBatches,     \* compositions: bound
          MaxLaunches,    \* processes: bound
          MaxExecutions,  \* executions of one identity: bound
          MaxQueued       \* progress callbacks waiting: bound

ASSUME ShellConstants ==
    /\ Options # {}
    /\ MaxBatches \in Nat /\ MaxLaunches \in Nat /\ MaxExecutions \in Nat /\ MaxQueued \in Nat

VARIABLES window,      \* "open" or "closed"
          closing,     \* closeAdmission_
          picker,      \* pickerActive_
          operation,   \* operationEventActive_
          task,        \* the handler that is awaiting, and what it awaits
          startup,     \* recoverStartupAsync and its three members
          model,       \* viewModel_
          retention,   \* the batch sourceAccessRetention_ holds an entry for
          started,     \* transactionStartRequested_
          pending,     \* automaticAnalysisPending_
          controls,    \* option controls
          page,        \* page of ShellFrame
          log,         \* diagnosticLog_ and diagnosticLogError_
          queue,       \* DispatcherQueue
          journal, tokens, preferences,    \* what survives the process
          batches, executions, launches,   \* counters
          removable    \* entries of the access list can be removed

shell  == <<window, closing, picker, operation, task>>
disk   == <<journal, tokens, preferences>>
counts == <<batches, executions, launches, removable>>
vars   == <<shell, startup, model, retention, started, pending, controls, page, log, queue,
            disk, counts>>

Batches  == 1..MaxBatches
NoTask   == [handler |-> "none", step |-> "none", stop |-> FALSE, cancelled |-> FALSE]
NoReview == [options |-> CHOOSE o \in Options : TRUE, complete |-> FALSE,
             eligible |-> {}, trim |-> {}, acknowledged |-> {}]
NoModel  == [state |-> "None", batch |-> 0, options |-> CHOOSE o \in Options : TRUE,
             review |-> NoReview, progress |-> "none"]
NoStartup == [started |-> FALSE, pending |-> TRUE, error |-> FALSE, step |-> "idle",
              owner |-> "loaded", cancelled |-> FALSE]
NewBatch(b, options) ==
    [NoModel EXCEPT !.state = "SourceSelection", !.batch = b, !.options = options]
-----------------------------------------------------------------------------
(* Admission.                                                              *)

hasActiveShellWork == picker \/ operation \/ (startup.started /\ startup.pending)
CanSelectSourceFolder == model.state \in {"None", "SourceSelection", "Review", "Results"}
CanPickDespiteStartupError ==
    /\ window = "open" /\ ~closing /\ ~startup.pending
    /\ ~picker /\ ~operation /\ CanSelectSourceFolder
CanPickSourceFolder ==
    /\ window = "open" /\ ~closing /\ ~startup.pending /\ ~startup.error
    /\ ~picker /\ ~operation /\ CanSelectSourceFolder
IdleWithModel == window = "open" /\ ~closing /\ ~picker /\ ~operation /\ model.state # "None"
CanRetryRecovery ==
    /\ window = "open" /\ ~closing /\ ~startup.pending /\ ~picker /\ ~operation
    /\ startup.error \/ model.state = "RecoveryRequired"
CanExportDiagnostics ==
    window = "open" /\ ~closing /\ ~startup.pending /\ ~picker /\ ~operation /\ log # "none"
CanAnalyzeSelectedSource(m) == m.state = "SourceSelection"
CanBeginProcessing ==
    /\ model.state = "Review" /\ model.review.complete
    /\ model.review.trim \subseteq model.review.acknowledged
    /\ model.review.eligible # {}

(* notifyShellState ends in closeAfterWorkSettles.                         *)
NotifyWithoutClose == UNCHANGED window
shouldCloseAfterWorkSettles(active) == closing /\ ~active
NotifyShellState ==
    window' = IF shouldCloseAfterWorkSettles(hasActiveShellWork') THEN "closed" ELSE window

Await(handler, step) ==
    task' = [handler |-> handler, step |-> step, stop |-> FALSE, cancelled |-> FALSE]
-----------------------------------------------------------------------------
(* Analysis, and the one pending read-only check.                          *)

AnalyzeAsync(m) == [m EXCEPT !.state = "Analysis", !.progress = "none"]
StartAnalysis(m) ==
    /\ pending' = FALSE /\ operation' = TRUE
    /\ model' = AnalyzeAsync(m)
    /\ Await("analyze", "work")

ReleaseGates == operation' = FALSE /\ picker' = FALSE
finishWithoutCheck(m, check) ==
    /\ ReleaseGates /\ task' = NoTask
    /\ model' = m /\ pending' = check
finishPickerInteraction(m, check) ==
    IF check /\ CanAnalyzeSelectedSource(m) /\ ~closing /\ page = "Workflow"
    THEN picker' = FALSE /\ StartAnalysis(m)
    ELSE finishWithoutCheck(m, check)

RetryAnalysis_Click ==
    /\ IdleWithModel /\ CanAnalyzeSelectedSource(model) /\ page = "Workflow"
    /\ StartAnalysis(model)
    /\ UNCHANGED <<window, closing, picker, startup, retention, started, controls, page, log,
                   queue, disk, counts>>

(* Settings and the help pages may be opened at any time; going back is    *)
(* refused while closing or picking, and entry into the workflow runs the  *)
(* pending check.                                                          *)
navigateToShellPage ==
    /\ window = "open" /\ page = "Workflow"
    /\ page' = "Settings"
    /\ UNCHANGED <<shell, startup, model, retention, started, pending, controls, log, queue,
                   disk, counts>>
tryNavigateBack ==
    /\ window = "open" /\ ~closing /\ ~picker /\ page = "Settings"
    /\ page' = "Workflow"
    /\ IF pending /\ ~operation /\ CanAnalyzeSelectedSource(model)
       THEN StartAnalysis(model)
       ELSE UNCHANGED <<pending, operation, model, task>>
    /\ UNCHANGED <<window, closing, picker, startup, retention, started, controls, log, queue,
                   disk, counts>>
-----------------------------------------------------------------------------
(* The access-list entry of the running batch.                             *)

ReleaseIllegal(m) ==
    m.state = "None" \/ (started /\ m.state \notin {"Results", "SourceSelection"})
releaseReconciledSourceAccess(m, done) ==
    \/ /\ done /\ retention = 0
       /\ UNCHANGED <<retention, tokens>>
    \/ /\ done /\ retention # 0 /\ ~ReleaseIllegal(m)
       /\ tokens' = tokens \ {retention} /\ retention' = 0
    \/ /\ ~done /\ retention # 0 /\ (ReleaseIllegal(m) \/ ~removable)
       /\ UNCHANGED <<retention, tokens>>
-----------------------------------------------------------------------------
(* Pickers and composition.                                                *)

SourcePicker_Click ==
    /\ CanPickSourceFolder
    /\ picker' = TRUE /\ Await("pick", "picker")
    /\ UNCHANGED <<window, closing, operation, startup, model, retention, started, pending,
                   controls, page, log, queue, disk, counts>>

(* The native picker ends: an item was chosen, it was dismissed, or it     *)
(* failed or was cancelled.  A choice may already be on its way when the   *)
(* window asks the picker to cancel.                                       *)
SourcePicked(choice) ==
    /\ task.handler = "pick" /\ task.step = "picker"
    /\ \E done \in BOOLEAN :
         IF choice = "chosen"
         THEN /\ releaseReconciledSourceAccess(model, done)
              /\ IF done THEN Await("pick", "compose") /\ UNCHANGED <<picker, operation, model, pending>>
                         ELSE finishPickerInteraction(model, pending)
         ELSE ~done /\ finishPickerInteraction(model, pending) /\ UNCHANGED <<retention, tokens>>
    /\ UNCHANGED <<closing, startup, started, controls, page, log, queue, journal, preferences,
                   counts>>
    /\ NotifyShellState

FreshIdentity == batches + 1
ComposeSucceeds ==
    /\ task.step = "compose" /\ batches < MaxBatches
    /\ batches' = batches + 1 /\ started' = FALSE
    /\ finishPickerInteraction(NewBatch(FreshIdentity, controls), TRUE)
    /\ preferences' \in IF task.handler = "options" THEN {controls, preferences} ELSE {preferences}
    /\ UNCHANGED <<closing, startup, retention, controls, page, log, queue, journal, tokens,
                   executions, launches, removable>>
    /\ NotifyShellState
synchronizeProcessingOptionControls == controls' = model.options
ComposeFails ==
    /\ task.step = "compose"
    /\ IF task.handler = "options" THEN synchronizeProcessingOptionControls ELSE UNCHANGED controls
    /\ finishPickerInteraction(model, pending)
    /\ UNCHANGED <<closing, startup, retention, started, page, log, queue, disk, counts>>
    /\ NotifyShellState

ReturnToSourceSelection(m) == NewBatch(m.batch, m.options)
ReturnToSourceSelection_Click ==
    /\ IdleWithModel /\ model.state \in {"Review", "Results"}
    /\ \E done \in BOOLEAN :
         /\ releaseReconciledSourceAccess(model, done)
         /\ IF ~done THEN finishPickerInteraction(model, pending)
            ELSE IF model.state = "Results"
            THEN picker' = TRUE /\ Await("return", "compose") /\ UNCHANGED <<operation, model, pending>>
            ELSE finishPickerInteraction(ReturnToSourceSelection(model), TRUE)
    /\ UNCHANGED <<window, closing, startup, started, controls, page, log, queue, journal,
                   preferences, counts>>
-----------------------------------------------------------------------------
(* Processing options.  A changed option invalidates the review; after a   *)
(* completed batch it needs a fresh one.  Saving may fail.                 *)

selectSource(m, options) == NewBatch(m.batch, options)
savePreferences(options) == preferences' \in {options, preferences}

applyProcessingPreferences(options) ==
    /\ CanPickSourceFolder /\ options # controls
    /\ \/ /\ model.state = "None"
          /\ controls' = options /\ savePreferences(options)
          /\ UNCHANGED <<picker, operation, task, model, pending, retention, tokens>>
       \/ /\ model.state \in {"SourceSelection", "Review"}
          /\ controls' = options /\ savePreferences(options)
          /\ LET m == selectSource(model, options)
             IN  finishPickerInteraction(m, CanAnalyzeSelectedSource(m))
          /\ UNCHANGED <<retention, tokens>>
       \/ /\ model.state = "Results" /\ UNCHANGED preferences
          /\ \E done \in BOOLEAN :
               /\ releaseReconciledSourceAccess(model, done)
               /\ IF done
                  THEN /\ picker' = TRUE /\ Await("options", "compose") /\ controls' = options
                       /\ UNCHANGED <<operation, model, pending>>
                  ELSE /\ synchronizeProcessingOptionControls
                       /\ finishPickerInteraction(model, pending)
    /\ UNCHANGED <<window, closing, startup, started, page, log, queue, journal, counts>>
-----------------------------------------------------------------------------
(* Processing and recovery of the batch.                                   *)

acknowledgeEdgeTrimming(m, file) == [m EXCEPT !.review.acknowledged = @ \cup {file}]
TrimConsent_Click(file) ==
    /\ IdleWithModel /\ model.state = "Review" /\ file \in model.review.trim
    /\ model' = acknowledgeEdgeTrimming(model, file)
    /\ UNCHANGED <<shell, startup, retention, started, pending, controls, page, log, queue, disk,
                   counts>>

(* The entry is retained before the first transaction can publish a        *)
(* journal; when that fails, nothing changes.                              *)
NotRetained == UNCHANGED <<retention, tokens>>
retainSelectedSource == retention' = model.batch /\ tokens' = tokens \cup {model.batch}
BeginProcessingAsync(m) == [m EXCEPT !.state = "Processing", !.review = NoReview]
(* Bound: where removals fail, what follows a second execution of one      *)
(* identity is not explored.                                               *)
ExecutionBound == IF removable THEN MaxExecutions ELSE 1
StartProcessing_Click ==
    /\ IdleWithModel /\ CanBeginProcessing /\ retention \in {0, model.batch}
    /\ executions[model.batch] < ExecutionBound
    /\ retainSelectedSource
    /\ started' = TRUE /\ operation' = TRUE
    /\ model' = BeginProcessingAsync(model)
    /\ executions' = [executions EXCEPT ![model.batch] = @ + 1]
    /\ Await("process", "work")
    /\ UNCHANGED <<window, closing, picker, startup, pending, controls, page, log, queue, journal,
                   preferences, batches, launches, removable>>

RetryRecovery_Click ==
    /\ CanRetryRecovery /\ ~startup.error
    /\ operation' = TRUE /\ Await("recover", "work")
    /\ UNCHANGED <<window, closing, picker, startup, model, retention, started, pending, controls,
                   page, log, queue, disk, counts>>

CancelOperation_Click ==
    /\ window = "open" /\ ~picker /\ model.state \in {"Analysis", "Processing"}
    /\ task' = [task EXCEPT !.stop = TRUE]
    /\ UNCHANGED <<window, closing, picker, operation, startup, model, retention, started, pending,
                   controls, page, log, queue, disk, counts>>

(* The worker: progress callbacks and the continuation that carries the    *)
(* result go through the same queue.                                       *)
Working(handlers) == task.step = "work" /\ task.handler \in handlers
WorkerUnchanged == UNCHANGED <<window, closing, picker, operation, startup, model, retention,
                               started, pending, controls, page, log, tokens, preferences, counts>>
WorkerReports ==
    /\ Working({"analyze", "process"}) /\ Len(queue) < MaxQueued
    /\ queue' = Append(queue, "progress")
    /\ UNCHANGED <<task, journal>> /\ WorkerUnchanged
WorkerWrites(state) ==
    /\ Working({"process"}) /\ journal[model.batch] # state
    /\ journal' = [journal EXCEPT ![model.batch] = state]
    /\ UNCHANGED <<task, queue>> /\ WorkerUnchanged
ResultFirst(result) == queue' = <<result>> \o queue
ResultLast(result)  == queue' = Append(queue, result)
analyzeAsync(result) ==
    Working({"analyze"}) /\ result \in {"reviewed", "failed"} /\ UNCHANGED journal
processAsync(result) ==
    /\ Working({"process"})
    /\ \/ result = "summary" /\ journal[model.batch] # "open"
       \/ result \in {"uncertain", "failed"}
    /\ UNCHANGED journal
recoverAsync(result) ==
    /\ Working({"recover"})
    /\ \/ /\ result = "reconciled"
          /\ journal' = [journal EXCEPT ![model.batch] = IF @ = "open" THEN "closed" ELSE @]
       \/ result = "failed" /\ UNCHANGED journal
WorkerFinishes(result) ==
    /\ analyzeAsync(result) \/ processAsync(result) \/ recoverAsync(result)
    /\ ResultLast(result)
    /\ task' = [task EXCEPT !.step = "queued"]
    /\ WorkerUnchanged

Dispatched(result) == queue # << >> /\ Head(queue) = result /\ queue' = Tail(queue)
applyProgress ==
    /\ Dispatched("progress")
    /\ model' = [model EXCEPT !.progress = "partial"]
    /\ UNCHANGED <<shell, startup, retention, started, pending, controls, page, log, disk, counts>>

(* A row is eligible when it was analysed without error and needs a        *)
(* transform; only then can it ask for consent to trim.                    *)
ReviewOf(options) ==
    {review \in [options : {options}, complete : BOOLEAN, eligible : SUBSET Files,
                 trim : SUBSET Files, acknowledged : {{}}] : review.trim \subseteq review.eligible}
AnalysisEnds ==
    /\ task.handler = "analyze" /\ task.step = "queued"
    /\ \/ /\ Dispatched("failed") \/ (Dispatched("reviewed") /\ task.stop)
          /\ model' = [model EXCEPT !.state = "SourceSelection", !.progress = "none"]
       \/ /\ Dispatched("reviewed") /\ ~task.stop
          /\ \E review \in ReviewOf(model.options) :
               model' = [model EXCEPT !.state = "Review", !.review = review]
    /\ operation' = FALSE /\ task' = NoTask
    /\ UNCHANGED <<closing, picker, startup, retention, started, pending, controls, page, log, disk,
                   counts>>
    /\ NotifyShellState

(* A cancelled action makes the handler's await throw once the worker's    *)
(* own finalization has run, so that the entry is not released.            *)
Summarized(m) == [m EXCEPT !.state = "Results", !.progress = "final"]
ProcessingEnds ==
    /\ task.handler = "process" /\ task.step = "queued"
    /\ \/ /\ Dispatched("summary")
          /\ model' = Summarized(model)
          /\ IF task.cancelled THEN UNCHANGED <<retention, tokens>>
             ELSE \E done \in BOOLEAN : releaseReconciledSourceAccess(Summarized(model), done)
       \/ /\ Dispatched("uncertain") \/ Dispatched("failed")
          /\ model' = [model EXCEPT !.state = "RecoveryRequired"]
          /\ UNCHANGED <<retention, tokens>>
    /\ operation' = FALSE /\ task' = NoTask
    /\ UNCHANGED <<closing, picker, startup, started, pending, controls, page, log, journal,
                   preferences, counts>>
    /\ NotifyShellState

Reconciled(m) == NewBatch(m.batch, m.options)
RecoveryEnds ==
    /\ task.handler = "recover" /\ task.step = "queued"
    /\ \/ /\ Dispatched("failed")
          /\ finishPickerInteraction(model, pending)
          /\ UNCHANGED <<retention, tokens>>
       \/ /\ Dispatched("reconciled")
          /\ LET m == Reconciled(model) IN
             IF task.cancelled
             THEN finishPickerInteraction(m, pending) /\ UNCHANGED <<retention, tokens>>
             ELSE \E done \in BOOLEAN :
                    /\ releaseReconciledSourceAccess(m, done)
                    /\ IF done
                       THEN /\ picker' = TRUE /\ model' = NoModel /\ Await("recover", "compose")
                            /\ UNCHANGED <<operation, pending>>
                       ELSE finishPickerInteraction(m, pending)
    /\ UNCHANGED <<closing, startup, started, controls, page, log, journal, preferences, counts>>
    /\ NotifyShellState
-----------------------------------------------------------------------------
(* Diagnostics export.                                                     *)

ExportDiagnostics_Click ==
    /\ CanExportDiagnostics
    /\ picker' = TRUE /\ Await("export", "picker")
    /\ UNCHANGED <<window, closing, operation, startup, model, retention, started, pending,
                   controls, page, log, queue, disk, counts>>
ExportDestinationPicked(choice) ==
    /\ task.handler = "export" /\ task.step = "picker"
    /\ IF choice = "chosen" /\ ~closing
       THEN Await("export", "export") /\ UNCHANGED <<picker, operation, model, pending, log>>
       ELSE /\ finishPickerInteraction(model, pending)
            /\ log' = IF choice = "failed" THEN "error" ELSE log
    /\ UNCHANGED <<closing, startup, retention, started, controls, page, queue, disk, counts>>
    /\ NotifyShellState
ExportEnds(outcome) ==
    /\ task.step = "export"
    /\ finishPickerInteraction(model, pending)
    /\ log' = outcome
    /\ UNCHANGED <<closing, startup, retention, started, controls, page, queue, disk, counts>>
    /\ NotifyShellState
-----------------------------------------------------------------------------
(* Startup recovery.                                                       *)

recoverStartupAsync(owner) ==
    startup' = [startup EXCEPT !.started = TRUE, !.pending = TRUE, !.step = "working",
                               !.owner = owner, !.cancelled = FALSE]
StartupUnchanged == UNCHANGED <<closing, model, retention, started, pending, controls, page, queue,
                                tokens, preferences, counts>>

Loaded ==
    /\ window = "open" /\ ~startup.started
    /\ recoverStartupAsync("loaded")
    /\ UNCHANGED <<window, picker, operation, task, log, journal>> /\ StartupUnchanged
RetryStartupRecovery_Click ==
    /\ CanRetryRecovery /\ startup.error
    /\ recoverStartupAsync("retry")
    /\ UNCHANGED <<window, picker, operation, task, log, journal>> /\ StartupUnchanged
RestoreRecoverySource_Click ==
    /\ CanRetryRecovery /\ startup.error
    /\ picker' = TRUE /\ Await("restore", "picker")
    /\ UNCHANGED <<window, operation, startup, log, journal>> /\ StartupUnchanged
RecoverySourcePicked(choice) ==
    /\ task.handler = "restore" /\ task.step = "picker"
    /\ IF choice = "chosen"
       THEN /\ recoverStartupAsync("restore") /\ Await("restore", "startup")
            /\ UNCHANGED <<picker, operation, model, pending>>
       ELSE finishPickerInteraction(model, pending) /\ UNCHANGED startup
    /\ UNCHANGED <<closing, retention, started, controls, page, log, queue, disk, counts>>
    /\ NotifyShellState

(* The worker closes every journal or refuses, having closed some.         *)
StartupEffects(reconciled) ==
    \E closed \in SUBSET Batches :
      /\ journal' = [b \in Batches |-> IF b \in closed /\ journal[b] = "open" THEN "closed"
                                       ELSE journal[b]]
      /\ reconciled => \A b \in Batches : journal'[b] # "open"
StartupWorked(result) ==
    /\ startup.step = "working" /\ ~startup.cancelled
    /\ StartupEffects(result = "success")
    /\ startup' = [startup EXCEPT !.step = result]
    /\ UNCHANGED <<window, picker, operation, task, log>> /\ StartupUnchanged

(* The await of the foreground of a cancelled action throws: the members   *)
(* are not updated.  A handler without a catch ends the process.           *)
StartupAbandoned ==
    /\ startup.step = "working" /\ startup.cancelled
    /\ StartupEffects(FALSE)
    /\ startup' = [startup EXCEPT !.step = "abandoned"]
    /\ IF startup.owner = "restore"
       THEN finishPickerInteraction(model, pending) /\ NotifyShellState
       ELSE /\ window' = IF startup.owner = "retry" THEN "closed" ELSE window
            /\ UNCHANGED <<picker, operation, task, model, pending>>
    /\ UNCHANGED <<closing, retention, started, controls, page, log, queue, tokens, preferences,
                   counts>>

StartupEnds ==
    /\ startup.step \in {"success", "failure"}
    /\ startup' = [startup EXCEPT !.step = "idle", !.pending = FALSE,
                                  !.error = (startup.step = "failure")]
    /\ log' \in {"none", "ok", "error"}
    /\ IF startup.owner = "restore" THEN finishPickerInteraction(model, pending)
       ELSE UNCHANGED <<picker, operation, task, model, pending>>
    /\ UNCHANGED <<closing, retention, started, controls, page, queue, disk, counts>>
    /\ NotifyShellState
-----------------------------------------------------------------------------
(* Close, death and launch.                                                *)

cancelOperation == task' = [task EXCEPT !.stop = TRUE, !.cancelled = TRUE]
handleClosing ==
    /\ window = "open"
    /\ closing' = TRUE
    /\ IF hasActiveShellWork
       THEN /\ cancelOperation
            /\ startup' = [startup EXCEPT !.cancelled = (startup.step = "working")]
            /\ UNCHANGED window
       ELSE window' = "closed" /\ UNCHANGED <<task, startup>>
    /\ UNCHANGED <<picker, operation, model, retention, started, pending, controls, page, log,
                   queue, disk, counts>>

loadProcessingPreferences == controls' = preferences
Launched ==
    /\ closing' = FALSE /\ picker' = FALSE /\ operation' = FALSE /\ task' = NoTask
    /\ startup' = NoStartup /\ model' = NoModel /\ retention' = 0 /\ started' = FALSE
    /\ pending' = FALSE /\ loadProcessingPreferences /\ page' = "Workflow" /\ log' = "none"
    /\ queue' = << >>
ProcessDies ==
    /\ window = "open"
    /\ window' = "closed" /\ Launched
    /\ UNCHANGED <<disk, counts>>
Relaunch ==
    /\ window = "closed" /\ launches < MaxLaunches
    /\ window' = "open" /\ launches' = launches + 1 /\ Launched
    /\ UNCHANGED <<disk, batches, executions, removable>>

Init ==
    /\ window = "open" /\ closing = FALSE /\ picker = FALSE /\ operation = FALSE
    /\ task = NoTask /\ startup = NoStartup /\ model = NoModel /\ retention = 0
    /\ started = FALSE /\ pending = FALSE /\ page = "Workflow" /\ log = "none" /\ queue = << >>
    /\ preferences \in Options /\ controls = preferences
    /\ journal = [b \in Batches |-> "none"] /\ tokens = {}
    /\ removable \in BOOLEAN
    /\ batches = 0 /\ executions = [b \in Batches |-> 0] /\ launches = 1

PickerEnds == \E choice \in {"chosen", "dismissed", "failed"} :
                \/ SourcePicked(choice) \/ ExportDestinationPicked(choice)
                \/ RecoverySourcePicked(choice)
WorkerEnds == \E result \in {"reviewed", "failed", "summary", "uncertain", "reconciled"} :
                WorkerFinishes(result)
Work == \/ ComposeSucceeds \/ ComposeFails \/ applyProgress
        \/ AnalysisEnds \/ ProcessingEnds \/ RecoveryEnds
        \/ \E outcome \in {"ok", "error"} : ExportEnds(outcome)
        \/ \E result \in {"success", "failure"} : StartupWorked(result)
        \/ StartupAbandoned \/ StartupEnds
Next == \/ PickerEnds \/ Work \/ WorkerEnds \/ WorkerReports \/ Loaded \/ handleClosing
        \/ ProcessDies \/ Relaunch
        \/ \E state \in {"open", "closed"} : WorkerWrites(state)
        \/ RetryAnalysis_Click \/ navigateToShellPage \/ tryNavigateBack \/ SourcePicker_Click
        \/ ReturnToSourceSelection_Click \/ StartProcessing_Click \/ RetryRecovery_Click
        \/ CancelOperation_Click \/ ExportDiagnostics_Click \/ RetryStartupRecovery_Click
        \/ RestoreRecoverySource_Click
        \/ \E options \in Options : applyProcessingPreferences(options)
        \/ \E file \in Files : TrimConsent_Click(file)

Spec == Init /\ [][Next]_vars
(* Workers end however often they report, the dispatcher queue is served,  *)
(* and a picker is sure to end only once it was asked to cancel.  Nothing  *)
(* is assumed of the user.                                                 *)
LiveSpec == /\ Spec /\ WF_vars(Work) /\ WF_vars(WorkerEnds)
            /\ WF_vars(closing /\ PickerEnds)
-----------------------------------------------------------------------------
(* Types; and the two gates are up exactly while a handler awaits, however *)
(* the handler ended.                                                      *)
TypeOK ==
    /\ window \in {"open", "closed"} /\ closing \in BOOLEAN
    /\ picker \in BOOLEAN /\ operation \in BOOLEAN /\ started \in BOOLEAN /\ pending \in BOOLEAN
    /\ task.handler \in {"none", "pick", "options", "return", "recover", "analyze", "process",
                         "export", "restore"}
    /\ task.step \in {"none", "picker", "compose", "work", "queued", "export", "startup"}
    /\ startup.step \in {"idle", "working", "success", "failure", "abandoned"}
    /\ model.state \in {"None", "SourceSelection", "Analysis", "Review", "Processing", "Results",
                        "RecoveryRequired"}
    /\ model.batch \in 0..batches /\ retention \in 0..batches
    /\ controls \in Options /\ preferences \in Options /\ page \in {"Workflow", "Settings"}
    /\ log \in {"none", "ok", "error"} /\ tokens \subseteq 1..batches
    /\ journal \in [Batches -> {"none", "open", "closed"}]
    /\ Len(queue) <= MaxQueued + 1
    /\ operation = (task.handler \in {"analyze", "process", "recover"})
    /\ picker = (task.step \in {"picker", "compose", "export", "startup"})
    /\ batches \in 0..MaxBatches /\ launches \in 1..MaxLaunches /\ removable \in BOOLEAN

(* retainSelectedSourceForTransaction and releaseReconciledSourceAccess:   *)
(* whatever was cancelled, closed, released or killed, a batch with an     *)
(* incomplete transaction has its access-list entry.                       *)
IncompleteBatchKeepsEntry ==
    \A b \in Batches : journal[b] = "open" => b \in tokens

(* StartProcessing_Click behind CanPickSourceFolder, startup recovery,     *)
(* RecoveryRequired and closeRequested: a batch starts only when no batch  *)
(* has an incomplete transaction, in this process or left by an earlier    *)
(* one; what starts is what was reviewed under the settings the user sees  *)
(* now; as long as no removal from the access list fails, its identity was *)
(* not executed before; and after a close request no analysis, processing, *)
(* batch recovery or export begins.                                        *)
NothingStartsOutOfTurn ==
    [][/\ executions' # executions =>
             /\ \A b \in Batches : journal[b] # "open"
             /\ model.review.options = controls /\ model.options = controls
             /\ removable => \A b \in Batches : executions'[b] <= 1
       /\ (closing /\ closing' /\ task'.step \in {"work", "export"}) =>
             task'.handler = task.handler /\ task.step = task'.step]_vars

(* The dispatcher queue delivers every progress callback before the result *)
(* it belongs to: none of them is left over or overwrites the final one.   *)
ProgressSettles ==
    /\ model.state = "SourceSelection" => model.progress = "none"
    /\ model.state = "Results" => model.progress = "final"
    /\ task.handler = "none" => queue = << >>

(* automaticAnalysisPending_: a requested check is not stranded on an idle *)
(* workflow page, whichever picker, operation or navigation delayed it.    *)
CheckNotStranded ==
    pending /\ model.state = "SourceSelection" /\ page = "Workflow"
      => window = "closed" \/ closing \/ picker \/ operation

(* handleClosing: the window closes once its work has settled, unless the  *)
(* cancelled startup recovery never reported.                              *)
CloseSettles == closing ~> window = "closed" \/ startup.step = "abandoned"

(* CooperativeWindowClose: active operations settle before the window      *)
(* closes, and then it closes.                                             *)
CloseRequestCloses == closing ~> window = "closed"
=============================================================================
