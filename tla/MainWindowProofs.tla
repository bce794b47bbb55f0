-------------------------- MODULE MainWindowProofs --------------------------
(***************************************************************************)
(* The safety properties of the shell, for every number of rows, options,   *)
(* batches, launches, executions and queued callbacks.  What the handlers   *)
(* rely on is spread over a dozen members of the window: WInv says how they *)
(* hang together between any two steps of the UI thread.                    *)
(***************************************************************************)
EXTENDS MainWindow, TLAPS

\* The values of the window's members: the handlers and what they await, startup,
\* the view model, and the callbacks posted to the dispatcher queue.
Handlers == {"none", "pick", "options", "return", "recover", "analyze", "process", "export",
             "restore"}
Steps    == {"none", "picker", "compose", "work", "queued", "export", "startup"}
Review   == [options : Options, complete : BOOLEAN, eligible : SUBSET Files,
             trim : SUBSET Files, acknowledged : SUBSET Files]
Task     == [handler : Handlers, step : Steps, stop : BOOLEAN, cancelled : BOOLEAN]
Startup  == [started : BOOLEAN, pending : BOOLEAN, error : BOOLEAN,
             step : {"idle", "working", "success", "failure", "abandoned"},
             owner : {"loaded", "retry", "restore"}, cancelled : BOOLEAN]
States   == {"None", "SourceSelection", "Analysis", "Review", "Processing", "Results",
             "RecoveryRequired"}
Model    == [state : States, batch : 0..MaxBatches, options : Options, review : Review,
             progress : {"none", "partial", "final"}]
Message  == {"progress", "reviewed", "failed", "summary", "uncertain", "reconciled"}

\* Members that the awaiting handler owns.
HandlerTypes ==
    /\ picker \in BOOLEAN /\ operation \in BOOLEAN /\ pending \in BOOLEAN
    /\ task \in Task /\ model \in Model

\* The other members of the window and what survives it.
OtherTypes ==
    /\ window \in {"open", "closed"} /\ closing \in BOOLEAN /\ started \in BOOLEAN
    /\ startup \in Startup
    /\ retention \in 0..MaxBatches /\ controls \in Options /\ preferences \in Options
    /\ page \in {"Workflow", "Settings"} /\ queue \in Seq(Message)
    /\ journal \in [Batches -> {"none", "open", "closed"}] /\ tokens \subseteq Batches
    /\ batches \in 0..MaxBatches /\ executions \in [Batches -> Nat] /\ removable \in BOOLEAN

\* What each handler can be waiting for, and the state of the view model under it.
AwaitInv ==
    \/ task.handler = "none" /\ task.step = "none" /\ model.state \notin {"Analysis", "Processing"}
    \/ task.handler = "pick" /\ task.step \in {"picker", "compose"} /\ CanSelectSourceFolder
    \/ task.handler \in {"options", "return"} /\ task.step = "compose" /\ model.state = "Results"
    \/ task.handler = "analyze" /\ task.step \in {"work", "queued"} /\ model.state = "Analysis"
    \/ task.handler = "process" /\ task.step \in {"work", "queued"} /\ model.state = "Processing"
    \/ task.handler = "recover" /\ task.step \in {"work", "queued"}
       /\ model.state = "RecoveryRequired"
    \/ task.handler = "recover" /\ task.step = "compose" /\ model.state = "None"
    \/ task.handler = "export" /\ task.step \in {"picker", "export"}
       /\ model.state \notin {"Analysis", "Processing"}
    \/ task.handler = "restore" /\ task.step \in {"picker", "startup"} /\ model.state = "None"

\* The two gates are up exactly while a handler awaits.
GateInv ==
    /\ operation <=> (task.handler \in {"analyze", "process", "recover"})
    /\ picker <=> (task.step \in {"picker", "compose", "export", "startup"})
    /\ task.cancelled => closing

\* Startup recovery has succeeded in this process.
Ready == startup.started /\ startup.step = "idle" /\ ~startup.pending /\ ~startup.error

\* Until it has, there is no batch, and the only pickers are those that need none.
StartupInv ==
    /\ startup.step = "idle" => startup.pending = ~startup.started
    /\ startup.step # "idle" => startup.started /\ startup.pending
    /\ ~Ready => model.state = "None" /\ task.handler \in {"none", "export", "restore"}
    /\ startup.pending => task.handler \in {"none", "restore"}
    /\ (task.step = "startup") <=> /\ startup.owner = "restore"
                                   /\ startup.step \in {"working", "success", "failure"}
    /\ task.handler = "restore" /\ task.step = "picker" => startup.error /\ ~startup.pending
    /\ (model.state = "None") <=> (model.batch = 0)

\* The queue holds progress of the awaiting handler, then its result.
QueueInv ==
    /\ task.step \notin {"work", "queued"} => queue = << >>
    /\ task.handler = "recover" /\ task.step = "work" => queue = << >>
    /\ task.step = "work" => \A i \in 1..Len(queue) : queue[i] = "progress"
    /\ task.step = "queued" =>
         /\ queue # << >> /\ \A i \in 1..(Len(queue) - 1) : queue[i] = "progress"
         /\ queue[Len(queue)] # "progress"
         /\ task.handler = "recover" => Len(queue) = 1

\* An entry is kept for every incomplete transaction; while the window runs only
\* its own batch can have one.
EntryInv ==
    /\ IncompleteBatchKeepsEntry
    /\ \A b \in Batches : journal[b] # "none" => b <= batches
    /\ startup.step = "success" => \A b \in Batches : journal[b] # "open"
    /\ Ready => \A b \in Batches : journal[b] = "open" =>
         b = model.batch /\ started /\ model.state \in {"Processing", "RecoveryRequired"}
    /\ task.step = "queued" /\ queue[Len(queue)] \in {"summary", "reconciled"} =>
         journal[model.batch] # "open"
    /\ task.handler = "process" => model.batch \in tokens /\ started
    /\ retention # 0 => retention = model.batch /\ retention \in tokens /\ task.step # "compose"
    /\ model.batch <= batches

\* What is reviewed is what the controls show, and is executed once.
TurnInv ==
    /\ model.state # "None" => model.options = controls \/ task.handler = "options"
    /\ model.state = "Review" => model.review.options = model.options
    /\ \A b \in Batches : b > batches => executions[b] = 0
    /\ removable => \A b \in Batches : executions[b] <= 1
    /\ removable /\ ~closing /\ model.state \in {"SourceSelection", "Analysis", "Review"} =>
         executions[model.batch] = 0

\* A check is pending only for a source that is selected.
PendingInv ==
    /\ pending => model.state = "SourceSelection"
    /\ CheckNotStranded
    /\ ProgressSettles

\* The inductive invariant of the shell.
WInv == /\ HandlerTypes /\ OtherTypes /\ AwaitInv /\ GateInv /\ StartupInv /\ QueueInv
        /\ EntryInv /\ TurnInv /\ PendingInv

\* The invariant where no handler awaits and the view model is m.
IdleWith(m) ==
    /\ startup.step = "idle" => startup.pending = ~startup.started
    /\ startup.step # "idle" => startup.started /\ startup.pending
    /\ ~(startup.owner = "restore" /\ startup.step \in {"working", "success", "failure"})
    /\ ~Ready => m.state = "None"
    /\ (m.state = "None") <=> (m.batch = 0)
    /\ queue = << >>
    /\ m.state \notin {"Analysis", "Processing"}
    /\ m.state = "SourceSelection" => m.progress = "none"
    /\ m.state = "Results" => m.progress = "final"
    /\ IncompleteBatchKeepsEntry
    /\ \A b \in Batches : journal[b] # "none" => b <= batches
    /\ startup.step = "success" => \A b \in Batches : journal[b] # "open"
    /\ Ready => \A b \in Batches : journal[b] = "open" =>
         b = m.batch /\ started /\ m.state = "RecoveryRequired"
    /\ retention # 0 => retention = m.batch /\ retention \in tokens
    /\ m.batch <= batches
    /\ m.state # "None" => m.options = controls
    /\ m.state = "Review" => m.review.options = m.options
    /\ \A b \in Batches : b > batches => executions[b] = 0
    /\ removable => \A b \in Batches : executions[b] <= 1
    /\ removable /\ ~closing /\ m.state \in {"SourceSelection", "Review"} =>
         executions[m.batch] = 0
-----------------------------------------------------------------------------
\* The view model of a window without a source.
LEMMA NoModelFields ==
    /\ NoModel \in Model /\ NoModel.state = "None" /\ NoModel.batch = 0
    /\ NoModel.progress = "none"
<1>1. (CHOOSE o \in Options : TRUE) \in Options
  BY ShellConstants
<1>2. NoReview \in Review
  BY <1>1 DEF NoReview, Review
<1> QED
  BY <1>1, <1>2, ShellConstants DEF NoModel, Model, States

\* The view model of a source just selected.
LEMMA NewBatchFields ==
    ASSUME NEW b \in 0..MaxBatches, NEW o \in Options
    PROVE  /\ NewBatch(b, o) \in Model /\ NewBatch(b, o).state = "SourceSelection"
           /\ NewBatch(b, o).batch = b /\ NewBatch(b, o).options = o
           /\ NewBatch(b, o).progress = "none"
BY NoModelFields DEF NewBatch, Model, States

\* The view model during analysis.
LEMMA AnalyzeFields ==
    ASSUME NEW m \in Model
    PROVE  /\ AnalyzeAsync(m) \in Model /\ AnalyzeAsync(m).state = "Analysis"
           /\ AnalyzeAsync(m).batch = m.batch /\ AnalyzeAsync(m).options = m.options
BY DEF AnalyzeAsync, Model, States

\* The members with the types of their fields.
LEMMA Fields ==
    ASSUME WInv
    PROVE  /\ picker \in BOOLEAN /\ operation \in BOOLEAN /\ pending \in BOOLEAN
           /\ closing \in BOOLEAN
           /\ task \in Task /\ model \in Model /\ startup \in Startup
           /\ model.state \in States /\ model.batch \in 0..MaxBatches /\ model.options \in Options
           /\ task.handler \in Handlers /\ task.step \in Steps /\ task.cancelled \in BOOLEAN
           /\ startup.step \in {"idle", "working", "success", "failure", "abandoned"}
           /\ startup.pending \in BOOLEAN /\ startup.started \in BOOLEAN
           /\ startup.error \in BOOLEAN
           /\ MaxBatches \in Nat
BY ShellConstants DEF WInv, HandlerTypes, OtherTypes, Task, Model, Startup

\* The window becomes idle with view model m.
LEMMA IdleKeeps ==
    ASSUME NEW m \in Model, model' = m, task' = NoTask, picker' = FALSE, operation' = FALSE,
           pending' \in BOOLEAN, OtherTypes', IdleWith(m)',
           pending' => m.state = "SourceSelection" /\ (closing' \/ page' # "Workflow")
    PROVE  WInv'
<1>1. HandlerTypes'
  BY DEF HandlerTypes, NoTask, Task, Handlers, Steps
<1>2. AwaitInv' /\ GateInv' /\ StartupInv'
  BY DEF AwaitInv, GateInv, StartupInv, IdleWith, NoTask, Ready
<1>3. QueueInv' /\ PendingInv'
  BY DEF QueueInv, PendingInv, ProgressSettles, CheckNotStranded, IdleWith, NoTask
<1>4. EntryInv'
  BY DEF EntryInv, IdleWith, IncompleteBatchKeepsEntry, NoTask, Ready
<1>5. TurnInv'
  BY DEF TurnInv, IdleWith, NoTask
<1> QED
  BY <1>1, <1>2, <1>3, <1>4, <1>5 DEF WInv

\* The window begins to analyse what it had selected.
LEMMA AnalysisKeeps ==
    ASSUME NEW m \in Model, m.state = "SourceSelection", ~closing', StartAnalysis(m),
           picker' = FALSE, OtherTypes', IdleWith(m)'
    PROVE  WInv'
<1> DEFINE a == AnalyzeAsync(m)
<1>1. /\ pending' = FALSE /\ operation' = TRUE /\ model' = a
      /\ task' = [handler |-> "analyze", step |-> "work", stop |-> FALSE, cancelled |-> FALSE]
  BY DEF StartAnalysis, Await
<1>2. a \in Model /\ a.state = "Analysis" /\ a.batch = m.batch /\ a.options = m.options
  BY AnalyzeFields
<1> HIDE DEF a
<1>3. /\ task'.handler = "analyze" /\ task'.step = "work" /\ task'.cancelled = FALSE
      /\ task' \in Task
  BY <1>1 DEF Task, Handlers, Steps
<1>4. HandlerTypes'
  BY <1>1, <1>2, <1>3 DEF HandlerTypes
<1>5. AwaitInv' /\ GateInv' /\ StartupInv'
  BY <1>1, <1>2, <1>3 DEF AwaitInv, GateInv, StartupInv, IdleWith, Ready
<1>6. QueueInv' /\ PendingInv'
  BY <1>1, <1>2, <1>3 DEF QueueInv, PendingInv, ProgressSettles, CheckNotStranded, IdleWith
<1>7. EntryInv'
  BY <1>1, <1>2, <1>3 DEF EntryInv, IdleWith, IncompleteBatchKeepsEntry, Ready
<1>8. TurnInv'
  BY <1>1, <1>2, <1>3 DEF TurnInv, IdleWith
<1> QED
  BY <1>4, <1>5, <1>6, <1>7, <1>8 DEF WInv

\* A handler ends: the pending check begins, or the window is idle.
LEMMA FinishKeeps ==
    ASSUME NEW m \in Model, NEW check \in BOOLEAN, finishPickerInteraction(m, check),
           closing \in BOOLEAN, UNCHANGED <<closing, page>>, OtherTypes', IdleWith(m)',
           check => m.state = "SourceSelection"
    PROVE  WInv'
<1>1. CASE check /\ CanAnalyzeSelectedSource(m) /\ ~closing /\ page = "Workflow"
  <2>1. picker' = FALSE /\ StartAnalysis(m) /\ m.state = "SourceSelection" /\ ~closing'
    BY <1>1 DEF finishPickerInteraction, CanAnalyzeSelectedSource
  <2> QED
    BY <2>1, AnalysisKeeps
<1>2. CASE ~(check /\ CanAnalyzeSelectedSource(m) /\ ~closing /\ page = "Workflow")
  <2>1. /\ model' = m /\ task' = NoTask /\ picker' = FALSE /\ operation' = FALSE
        /\ pending' = check
    BY <1>2 DEF finishPickerInteraction, finishWithoutCheck, ReleaseGates
  <2>2. check => m.state = "SourceSelection" /\ (closing' \/ page' # "Workflow")
    BY <1>2 DEF CanAnalyzeSelectedSource
  <2> QED
    BY <2>1, <2>2, IdleKeeps
<1> QED
  BY <1>1, <1>2

\* A handler that changed nothing ends.
LEMMA FinishUnchangedKeeps ==
    ASSUME WInv, finishPickerInteraction(model, pending), task.step # "startup",
           model.state \notin {"Analysis", "Processing"},
           UNCHANGED <<closing, page, startup, retention, started, disk, counts>>,
           queue' = << >>, window' \in {"open", "closed"},
           controls' = controls \/ controls' = model.options,
           model.state # "None" => controls' = model.options
    PROVE  WInv'
<1>1. PICK m \in Model : m = model
  BY Fields
<1>2. PICK check \in BOOLEAN : check = pending
  BY Fields
<1>3. OtherTypes'
  BY Fields DEF WInv, OtherTypes, disk, counts
<1>4. IdleWith(m)'
  <2>1. UNCHANGED <<journal, tokens, batches, executions, removable>>
    BY DEF disk, counts
  <2> QED
    BY <1>1, <2>1, Fields DEF WInv, StartupInv, EntryInv, TurnInv, PendingInv, ProgressSettles,
       IdleWith,
       IncompleteBatchKeepsEntry, Ready
<1>5. check => m.state = "SourceSelection"
  BY <1>1, <1>2 DEF WInv, PendingInv
<1>6. finishPickerInteraction(m, check)
  BY <1>1, <1>2
<1> QED
  BY <1>3, <1>4, <1>5, <1>6, Fields, FinishKeeps

\* What releasing the entry of the batch leaves.
LEMMA ReleaseShape ==
    ASSUME WInv, NEW m, NEW done \in BOOLEAN, releaseReconciledSourceAccess(m, done)
    PROVE  /\ done => retention' = 0 /\ tokens' = tokens \ {retention}
           /\ ~done => UNCHANGED <<retention, tokens>> /\ (ReleaseIllegal(m) \/ ~removable)
BY ShellConstants DEF releaseReconciledSourceAccess, WInv, OtherTypes, Batches

\* Neither gate is up only where no handler awaits.
LEMMA NoGateNoHandler ==
    ASSUME WInv, ~picker, ~operation
    PROVE  task.handler = "none" /\ task.step = "none"
BY DEF WInv, GateInv, AwaitInv

\* The invariant of an idle window.
LEMMA IdleNow ==
    ASSUME WInv, task.handler = "none"
    PROVE  IdleWith(model) /\ queue = << >> /\ picker = FALSE /\ operation = FALSE
<1>1. task.step = "none"
  BY DEF WInv, AwaitInv
<1>2. picker = FALSE /\ operation = FALSE
  BY <1>1, Fields DEF WInv, GateInv
<1>3. queue = << >>
  BY <1>1 DEF WInv, QueueInv
<1> QED
  BY <1>1, <1>2, <1>3, Fields DEF WInv, AwaitInv, StartupInv, EntryInv, TurnInv, PendingInv,
     ProgressSettles, IdleWith, IncompleteBatchKeepsEntry, Ready

\* What IdleWith speaks of.
LEMMA IdleStays ==
    ASSUME NEW m, IdleWith(m),
           UNCHANGED <<startup, queue, journal, tokens, batches, executions, removable, started,
                       retention, controls, closing>>
    PROVE  IdleWith(m)'
BY DEF IdleWith, Ready, IncompleteBatchKeepsEntry

\* RetryAnalysis_Click and the entry into the workflow begin the check.
LEMMA CheckKeeps ==
    ASSUME WInv, ~picker, ~operation, ~closing, model.state = "SourceSelection",
           StartAnalysis(model), page' \in {"Workflow", "Settings"},
           UNCHANGED <<window, closing, picker, startup, retention, started, controls, queue,
                       disk, counts>>
    PROVE  WInv'
<1>1. PICK m \in Model : m = model
  BY Fields
<1>2. IdleWith(m) /\ picker = FALSE
  BY <1>1, NoGateNoHandler, IdleNow
<1>3. IdleWith(m)'
  BY <1>2, IdleStays DEF disk, counts
<1>4. OtherTypes'
  BY DEF WInv, OtherTypes, disk, counts
<1> QED
  BY <1>1, <1>2, <1>3, <1>4, AnalysisKeeps

\* RetryAnalysis_Click.
LEMMA RetryAnalysis_Click_Keeps == ASSUME WInv, RetryAnalysis_Click PROVE WInv'
<1>1. /\ ~picker /\ ~operation /\ ~closing /\ model.state = "SourceSelection"
      /\ StartAnalysis(model) /\ page' \in {"Workflow", "Settings"}
      /\ UNCHANGED <<window, closing, picker, startup, retention, started, controls, queue,
                     disk, counts>>
  BY DEF RetryAnalysis_Click, IdleWithModel, CanAnalyzeSelectedSource
<1> QED
  BY <1>1, CheckKeeps

\* Leaving the workflow page.
LEMMA navigateToShellPage_Keeps ==
    ASSUME WInv, navigateToShellPage
    PROVE  WInv'
<1>1. /\ page' = "Settings"
      /\ UNCHANGED <<window, closing, picker, operation, task, startup, model, retention, started,
                     pending, controls, queue, journal, tokens, preferences, batches, executions,
                     removable>>
  BY Fields DEF navigateToShellPage, shell, disk, counts
<1>2. HandlerTypes' /\ OtherTypes'
  BY <1>1, Fields DEF WInv, HandlerTypes, OtherTypes, Task, Startup, Handlers, Steps
<1>3. AwaitInv' /\ GateInv' /\ StartupInv'
  BY <1>1, Fields DEF WInv, AwaitInv, GateInv, StartupInv, CanSelectSourceFolder, Ready
<1>4. QueueInv' /\ PendingInv'
  BY <1>1, Fields DEF WInv, QueueInv, PendingInv, ProgressSettles, CheckNotStranded, AwaitInv,
     GateInv
<1>5. EntryInv'
  BY <1>1, Fields DEF WInv, EntryInv, IncompleteBatchKeepsEntry, AwaitInv, StartupInv, Ready
<1>6. TurnInv'
  BY <1>1, Fields DEF WInv, TurnInv, AwaitInv, StartupInv, GateInv, Ready
<1> QED
  BY <1>2, <1>3, <1>4, <1>5, <1>6 DEF WInv

\* Back to the workflow, where the pending check runs or its turn comes later.
LEMMA tryNavigateBack_Keeps == ASSUME WInv, tryNavigateBack PROVE WInv'
<1>1. /\ ~picker /\ ~closing /\ page' = "Workflow"
      /\ UNCHANGED <<window, closing, picker, startup, retention, started, controls, queue,
                     disk, counts>>
  BY DEF tryNavigateBack
<1>2. CASE pending /\ ~operation /\ CanAnalyzeSelectedSource(model)
  <2>1. StartAnalysis(model) /\ model.state = "SourceSelection"
    BY <1>2 DEF tryNavigateBack, CanAnalyzeSelectedSource
  <2> QED
    BY <1>1, <1>2, <2>1, CheckKeeps
<1>3. CASE ~(pending /\ ~operation /\ CanAnalyzeSelectedSource(model))
  <2>1. UNCHANGED <<pending, operation, model, task>>
    BY <1>3 DEF tryNavigateBack
  <2>2. UNCHANGED <<journal, tokens, preferences, batches, executions, removable>>
    BY <1>1 DEF disk, counts
  <2>3. pending => operation
    BY <1>3, Fields DEF WInv, PendingInv, CanAnalyzeSelectedSource
  <2>4. HandlerTypes' /\ OtherTypes'
    BY <1>1, <2>1, <2>2 DEF WInv, HandlerTypes, OtherTypes
  <2>5. AwaitInv' /\ GateInv' /\ StartupInv' /\ QueueInv'
    BY <1>1, <2>1, <2>2 DEF WInv, AwaitInv, GateInv, StartupInv, QueueInv, Ready,
       CanSelectSourceFolder
  <2>6. PendingInv'
    BY <1>1, <2>1, <2>3 DEF WInv, PendingInv, CheckNotStranded, ProgressSettles
  <2>7. EntryInv' /\ TurnInv'
    BY <1>1, <2>1, <2>2 DEF WInv, EntryInv, TurnInv, IncompleteBatchKeepsEntry, Ready
  <2> QED
    BY <2>4, <2>5, <2>6, <2>7 DEF WInv
<1> QED
  BY <1>2, <1>3

\* The source picker opens.
LEMMA SourcePicker_Click_Keeps ==
    ASSUME WInv, SourcePicker_Click
    PROVE  WInv'
<1>1. /\ ~picker /\ ~operation /\ CanSelectSourceFolder /\ ~startup.pending /\ ~startup.error
      /\ picker' = TRUE
      /\ task'.handler = "pick" /\ task'.step = "picker" /\ task'.cancelled = FALSE
      /\ task' \in Task
      /\ UNCHANGED <<window, closing, operation, startup, model, retention, started, pending,
                     controls, page, queue, journal, tokens, preferences, batches, executions,
                     removable>>
  BY Fields DEF SourcePicker_Click, CanPickSourceFolder, Await, Task, Handlers, Steps, disk,
     counts
<1>2. task.handler = "none" /\ task.step = "none" /\ queue = << >>
  BY <1>1, NoGateNoHandler, IdleNow
<1>3. HandlerTypes' /\ OtherTypes'
  BY <1>1, <1>2, Fields DEF WInv, HandlerTypes, OtherTypes, Task, Startup, Handlers, Steps
<1>4. AwaitInv' /\ GateInv' /\ StartupInv'
  BY <1>1, <1>2, Fields DEF WInv, AwaitInv, GateInv, StartupInv, CanSelectSourceFolder, Ready
<1>5. QueueInv' /\ PendingInv'
  BY <1>1, <1>2, Fields DEF WInv, QueueInv, PendingInv, ProgressSettles, CheckNotStranded,
     AwaitInv, GateInv
<1>6. EntryInv'
  BY <1>1, <1>2, Fields DEF WInv, EntryInv, IncompleteBatchKeepsEntry, AwaitInv, StartupInv, Ready
<1>7. TurnInv'
  BY <1>1, <1>2, Fields DEF WInv, TurnInv, AwaitInv, StartupInv, GateInv, Ready
<1> QED
  BY <1>3, <1>4, <1>5, <1>6, <1>7 DEF WInv

\* Recovery of the batch begins.
LEMMA RetryRecovery_Click_Keeps ==
    ASSUME WInv, RetryRecovery_Click
    PROVE  WInv'
<1>1. /\ ~picker /\ ~operation /\ model.state = "RecoveryRequired" /\ ~startup.pending
      /\ ~startup.error
      /\ operation' = TRUE
      /\ task'.handler = "recover" /\ task'.step = "work" /\ task'.cancelled = FALSE
      /\ task' \in Task
      /\ UNCHANGED <<window, closing, picker, startup, model, retention, started, pending,
                     controls, page, queue, journal, tokens, preferences, batches, executions,
                     removable>>
  BY Fields DEF RetryRecovery_Click, CanRetryRecovery, Await, Task, Handlers, Steps, disk, counts
<1>2. task.handler = "none" /\ task.step = "none" /\ queue = << >>
  BY <1>1, NoGateNoHandler, IdleNow
<1>3. HandlerTypes' /\ OtherTypes'
  BY <1>1, <1>2, Fields DEF WInv, HandlerTypes, OtherTypes, Task, Startup, Handlers, Steps
<1>4. AwaitInv' /\ GateInv' /\ StartupInv'
  BY <1>1, <1>2, Fields DEF WInv, AwaitInv, GateInv, StartupInv, CanSelectSourceFolder, Ready
<1>5. QueueInv' /\ PendingInv'
  BY <1>1, <1>2, Fields DEF WInv, QueueInv, PendingInv, ProgressSettles, CheckNotStranded,
     AwaitInv, GateInv
<1>6. EntryInv'
  BY <1>1, <1>2, Fields DEF WInv, EntryInv, IncompleteBatchKeepsEntry, AwaitInv, StartupInv, Ready
<1>7. TurnInv'
  BY <1>1, <1>2, Fields DEF WInv, TurnInv, AwaitInv, StartupInv, GateInv, Ready
<1> QED
  BY <1>3, <1>4, <1>5, <1>6, <1>7 DEF WInv

\* The picker for the export opens.
LEMMA ExportDiagnostics_Click_Keeps ==
    ASSUME WInv, ExportDiagnostics_Click
    PROVE  WInv'
<1>1. /\ ~picker /\ ~operation /\ ~startup.pending
      /\ picker' = TRUE
      /\ task'.handler = "export" /\ task'.step = "picker" /\ task'.cancelled = FALSE
      /\ task' \in Task
      /\ UNCHANGED <<window, closing, operation, startup, model, retention, started, pending,
                     controls, page, queue, journal, tokens, preferences, batches, executions,
                     removable>>
  BY Fields DEF ExportDiagnostics_Click, CanExportDiagnostics, Await, Task, Handlers, Steps, disk,
     counts
<1>2. task.handler = "none" /\ task.step = "none" /\ queue = << >>
  BY <1>1, NoGateNoHandler, IdleNow
<1>3. HandlerTypes' /\ OtherTypes'
  BY <1>1, <1>2, Fields DEF WInv, HandlerTypes, OtherTypes, Task, Startup, Handlers, Steps
<1>4. AwaitInv' /\ GateInv' /\ StartupInv'
  BY <1>1, <1>2, Fields DEF WInv, AwaitInv, GateInv, StartupInv, CanSelectSourceFolder, Ready
<1>5. QueueInv' /\ PendingInv'
  BY <1>1, <1>2, Fields DEF WInv, QueueInv, PendingInv, ProgressSettles, CheckNotStranded,
     AwaitInv, GateInv
<1>6. EntryInv'
  BY <1>1, <1>2, Fields DEF WInv, EntryInv, IncompleteBatchKeepsEntry, AwaitInv, StartupInv, Ready
<1>7. TurnInv'
  BY <1>1, <1>2, Fields DEF WInv, TurnInv, AwaitInv, StartupInv, GateInv, Ready
<1> QED
  BY <1>3, <1>4, <1>5, <1>6, <1>7 DEF WInv

\* The picker for a lost source opens.
LEMMA RestoreRecoverySource_Click_Keeps ==
    ASSUME WInv, RestoreRecoverySource_Click
    PROVE  WInv'
<1>1. /\ ~picker /\ ~operation /\ startup.error /\ ~startup.pending
      /\ picker' = TRUE
      /\ task'.handler = "restore" /\ task'.step = "picker" /\ task'.cancelled = FALSE
      /\ task' \in Task
      /\ UNCHANGED <<window, closing, operation, startup, model, retention, started, pending,
                     controls, page, queue, journal, tokens, preferences, batches, executions,
                     removable>>
  BY Fields DEF RestoreRecoverySource_Click, CanRetryRecovery, StartupUnchanged, Await, Task,
     Handlers, Steps, disk, counts
<1>2. task.handler = "none" /\ task.step = "none" /\ queue = << >>
  BY <1>1, NoGateNoHandler, IdleNow
<1>3. HandlerTypes' /\ OtherTypes'
  BY <1>1, <1>2, Fields DEF WInv, HandlerTypes, OtherTypes, Task, Startup, Handlers, Steps
<1>4. AwaitInv' /\ GateInv' /\ StartupInv'
  BY <1>1, <1>2, Fields DEF WInv, AwaitInv, GateInv, StartupInv, CanSelectSourceFolder, Ready
<1>5. QueueInv' /\ PendingInv'
  BY <1>1, <1>2, Fields DEF WInv, QueueInv, PendingInv, ProgressSettles, CheckNotStranded,
     AwaitInv, GateInv
<1>6. EntryInv'
  BY <1>1, <1>2, Fields DEF WInv, EntryInv, IncompleteBatchKeepsEntry, AwaitInv, StartupInv, Ready
<1>7. TurnInv'
  BY <1>1, <1>2, Fields DEF WInv, TurnInv, AwaitInv, StartupInv, GateInv, Ready
<1> QED
  BY <1>3, <1>4, <1>5, <1>6, <1>7 DEF WInv

\* Startup recovery begins.
LEMMA Loaded_Keeps ==
    ASSUME WInv, Loaded
    PROVE  WInv'
<1>1. /\ ~startup.started
      /\ startup'.started = TRUE /\ startup'.pending = TRUE /\ startup'.step = "working"
      /\ startup'.owner = "loaded" /\ startup' \in Startup
      /\ UNCHANGED <<window, closing, picker, operation, task, model, retention, started, pending,
                     controls, page, queue, journal, tokens, preferences, batches, executions,
                     removable>>
  BY Fields DEF Loaded, recoverStartupAsync, StartupUnchanged, Startup, disk, counts
<1>2. HandlerTypes' /\ OtherTypes'
  BY <1>1, Fields DEF WInv, HandlerTypes, OtherTypes, Task, Startup, Handlers, Steps
<1>3. AwaitInv' /\ GateInv' /\ StartupInv'
  BY <1>1, Fields DEF WInv, AwaitInv, GateInv, StartupInv, CanSelectSourceFolder, Ready
<1>4. QueueInv' /\ PendingInv'
  BY <1>1, Fields DEF WInv, QueueInv, PendingInv, ProgressSettles, CheckNotStranded, AwaitInv,
     GateInv
<1>5. EntryInv'
  BY <1>1, Fields DEF WInv, EntryInv, IncompleteBatchKeepsEntry, AwaitInv, StartupInv, Ready
<1>6. TurnInv'
  BY <1>1, Fields DEF WInv, TurnInv, AwaitInv, StartupInv, GateInv, Ready
<1> QED
  BY <1>2, <1>3, <1>4, <1>5, <1>6 DEF WInv

\* Startup recovery begins again.
LEMMA RetryStartupRecovery_Click_Keeps ==
    ASSUME WInv, RetryStartupRecovery_Click
    PROVE  WInv'
<1>1. /\ ~picker /\ ~operation /\ startup.error /\ ~startup.pending
      /\ startup'.started = TRUE /\ startup'.pending = TRUE /\ startup'.step = "working"
      /\ startup'.owner = "retry" /\ startup' \in Startup
      /\ UNCHANGED <<window, closing, picker, operation, task, model, retention, started, pending,
                     controls, page, queue, journal, tokens, preferences, batches, executions,
                     removable>>
  BY Fields DEF RetryStartupRecovery_Click, CanRetryRecovery, recoverStartupAsync,
     StartupUnchanged, Startup, disk, counts
<1>2. task.handler = "none" /\ task.step = "none" /\ queue = << >>
  BY <1>1, NoGateNoHandler, IdleNow
<1>3. HandlerTypes' /\ OtherTypes'
  BY <1>1, <1>2, Fields DEF WInv, HandlerTypes, OtherTypes, Task, Startup, Handlers, Steps
<1>4. AwaitInv' /\ GateInv' /\ StartupInv'
  BY <1>1, <1>2, Fields DEF WInv, AwaitInv, GateInv, StartupInv, CanSelectSourceFolder, Ready
<1>5. QueueInv' /\ PendingInv'
  BY <1>1, <1>2, Fields DEF WInv, QueueInv, PendingInv, ProgressSettles, CheckNotStranded,
     AwaitInv, GateInv
<1>6. EntryInv'
  BY <1>1, <1>2, Fields DEF WInv, EntryInv, IncompleteBatchKeepsEntry, AwaitInv, StartupInv, Ready
<1>7. TurnInv'
  BY <1>1, <1>2, Fields DEF WInv, TurnInv, AwaitInv, StartupInv, GateInv, Ready
<1> QED
  BY <1>3, <1>4, <1>5, <1>6, <1>7 DEF WInv

\* A stop is requested.
LEMMA CancelOperation_Click_Keeps ==
    ASSUME WInv, CancelOperation_Click
    PROVE  WInv'
<1>1. /\ task'.handler = task.handler /\ task'.step = task.step
      /\ task'.cancelled = task.cancelled /\ task' \in Task
      /\ UNCHANGED <<window, closing, picker, operation, startup, model, retention, started,
                     pending, controls, page, queue, journal, tokens, preferences, batches,
                     executions, removable>>
  BY Fields DEF CancelOperation_Click, Task, disk, counts
<1>2. HandlerTypes' /\ OtherTypes'
  BY <1>1, Fields DEF WInv, HandlerTypes, OtherTypes, Task, Startup, Handlers, Steps
<1>3. AwaitInv' /\ GateInv' /\ StartupInv'
  BY <1>1, Fields DEF WInv, AwaitInv, GateInv, StartupInv, CanSelectSourceFolder, Ready
<1>4. QueueInv' /\ PendingInv'
  BY <1>1, Fields DEF WInv, QueueInv, PendingInv, ProgressSettles, CheckNotStranded, AwaitInv,
     GateInv
<1>5. EntryInv'
  BY <1>1, Fields DEF WInv, EntryInv, IncompleteBatchKeepsEntry, AwaitInv, StartupInv, Ready
<1>6. TurnInv'
  BY <1>1, Fields DEF WInv, TurnInv, AwaitInv, StartupInv, GateInv, Ready
<1> QED
  BY <1>2, <1>3, <1>4, <1>5, <1>6 DEF WInv

\* Consent to trimming.
LEMMA TrimConsent_Click_Keeps ==
    ASSUME WInv, NEW file \in Files, TrimConsent_Click(file)
    PROVE  WInv'
<1>1. /\ model'.state = model.state /\ model'.batch = model.batch
      /\ model'.options = model.options
      /\ model'.progress = model.progress /\ model'.review.options = model.review.options
      /\ model' \in Model
      /\ UNCHANGED <<window, closing, picker, operation, task, startup, retention, started,
                     pending, controls, page, queue, journal, tokens, preferences, batches,
                     executions, removable>>
  BY Fields DEF TrimConsent_Click, IdleWithModel, acknowledgeEdgeTrimming, Model, Review, shell,
     disk, counts
<1>2. HandlerTypes' /\ OtherTypes'
  BY <1>1, Fields DEF WInv, HandlerTypes, OtherTypes, Task, Startup, Handlers, Steps
<1>3. AwaitInv' /\ GateInv' /\ StartupInv'
  BY <1>1, Fields DEF WInv, AwaitInv, GateInv, StartupInv, CanSelectSourceFolder, Ready
<1>4. QueueInv' /\ PendingInv'
  BY <1>1, Fields DEF WInv, QueueInv, PendingInv, ProgressSettles, CheckNotStranded, AwaitInv,
     GateInv
<1>5. EntryInv'
  BY <1>1, Fields DEF WInv, EntryInv, IncompleteBatchKeepsEntry, AwaitInv, StartupInv, Ready
<1>6. TurnInv'
  BY <1>1, Fields DEF WInv, TurnInv, AwaitInv, StartupInv, GateInv, Ready
<1> QED
  BY <1>2, <1>3, <1>4, <1>5, <1>6 DEF WInv

\* A progress callback is queued.
LEMMA WorkerReports_Keeps ==
    ASSUME WInv, WorkerReports
    PROVE  WInv'
<1>1. /\ task.step = "work" /\ task.handler \in {"analyze", "process"}
      /\ queue' = Append(queue, "progress")
      /\ UNCHANGED <<window, closing, picker, operation, task, startup, model, retention, started,
                     pending, controls, page, journal, tokens, preferences, batches, executions,
                     removable>>
  BY Fields DEF WorkerReports, Working, WorkerUnchanged, disk, counts
<1>2. /\ queue' \in Seq(Message) /\ Len(queue') = Len(queue) + 1 /\ Len(queue) \in Nat
      /\ \A i \in 1..Len(queue) : queue'[i] = queue[i]
      /\ queue'[Len(queue) + 1] = "progress"
  BY <1>1 DEF WInv, OtherTypes, Message
<1>3. HandlerTypes' /\ OtherTypes'
  BY <1>1, <1>2, Fields DEF WInv, HandlerTypes, OtherTypes, Task, Startup, Handlers, Steps
<1>4. AwaitInv' /\ GateInv' /\ StartupInv'
  BY <1>1, <1>2, Fields DEF WInv, AwaitInv, GateInv, StartupInv, CanSelectSourceFolder, Ready
<1>5. QueueInv' /\ PendingInv'
  BY <1>1, <1>2, Fields DEF WInv, QueueInv, PendingInv, ProgressSettles, CheckNotStranded,
     AwaitInv, GateInv
<1>6. EntryInv'
  BY <1>1, <1>2, Fields DEF WInv, EntryInv, IncompleteBatchKeepsEntry, AwaitInv, StartupInv, Ready
<1>7. TurnInv'
  BY <1>1, <1>2, Fields DEF WInv, TurnInv, AwaitInv, StartupInv, GateInv, Ready
<1> QED
  BY <1>3, <1>4, <1>5, <1>6, <1>7 DEF WInv

\* A transaction of the batch opens or closes its journal.
LEMMA WorkerWrites_Keeps ==
    ASSUME WInv, NEW state \in {"open", "closed"}, WorkerWrites(state)
    PROVE  WInv'
<1>1. /\ task.step = "work" /\ task.handler = "process"
      /\ journal' = [journal EXCEPT ![model.batch] = state]
      /\ UNCHANGED <<window, closing, picker, operation, task, startup, model, retention, started,
                     pending, controls, page, queue, tokens, preferences, batches, executions,
                     removable>>
  BY Fields DEF WorkerWrites, Working, WorkerUnchanged, disk, counts
<1>2. model.batch \in Batches /\ model.batch # 0 /\ started /\ model.batch \in tokens
  BY <1>1, Fields DEF WInv, AwaitInv, StartupInv, EntryInv, Batches
<1>3. /\ journal' \in [Batches -> {"none", "open", "closed"}] /\ journal'[model.batch] = state
      /\ \A b \in Batches : b # model.batch => journal'[b] = journal[b]
  BY <1>1, <1>2 DEF WInv, OtherTypes
<1>4. HandlerTypes' /\ OtherTypes'
  BY <1>1, <1>2, <1>3, Fields DEF WInv, HandlerTypes, OtherTypes, Task, Startup, Handlers, Steps
<1>5. AwaitInv' /\ GateInv' /\ StartupInv'
  BY <1>1, <1>2, <1>3, Fields DEF WInv, AwaitInv, GateInv, StartupInv, CanSelectSourceFolder,
     Ready
<1>6. QueueInv' /\ PendingInv'
  BY <1>1, <1>2, <1>3, Fields DEF WInv, QueueInv, PendingInv, ProgressSettles, CheckNotStranded,
     AwaitInv, GateInv
<1>7. EntryInv'
  BY <1>1, <1>2, <1>3, Fields DEF WInv, EntryInv, IncompleteBatchKeepsEntry, AwaitInv, StartupInv,
     Ready
<1>8. TurnInv'
  BY <1>1, <1>2, <1>3, Fields DEF WInv, TurnInv, AwaitInv, StartupInv, GateInv, Ready
<1> QED
  BY <1>4, <1>5, <1>6, <1>7, <1>8 DEF WInv

\* A worker ends: its result is queued behind its progress.
LEMMA WorkerFinishes_Keeps ==
    ASSUME WInv, NEW result \in {"reviewed", "failed", "summary", "uncertain", "reconciled"},
           WorkerFinishes(result)
    PROVE  WInv'
<1>1. /\ task.step = "work" /\ task.handler \in {"analyze", "process", "recover"}
      /\ queue' = Append(queue, result)
      /\ task'.handler = task.handler /\ task'.step = "queued"
      /\ task'.cancelled = task.cancelled /\ task' \in Task
      /\ UNCHANGED <<window, closing, picker, operation, startup, model, retention, started,
                     pending, controls, page, tokens, preferences, batches, executions,
                     removable>>
  BY Fields DEF WorkerFinishes, analyzeAsync, processAsync, recoverAsync, Working,
     WorkerUnchanged, ResultLast, Task, Steps, counts
<1>2. /\ queue' \in Seq(Message) /\ Len(queue') = Len(queue) + 1 /\ Len(queue) \in Nat
      /\ \A i \in 1..Len(queue) : queue'[i] = queue[i]
      /\ queue'[Len(queue) + 1] = result
  BY <1>1 DEF WInv, OtherTypes, Message
<1>3. model.batch \in Batches
  BY <1>1, Fields DEF WInv, AwaitInv, StartupInv, Batches
<1>4. /\ journal' \in [Batches -> {"none", "open", "closed"}]
      /\ \A b \in Batches : journal'[b] # "none" => journal[b] # "none"
      /\ \A b \in Batches : journal'[b] = "open" => journal[b] = "open"
      /\ result \in {"summary", "reconciled"} => journal'[model.batch] # "open"
  BY <1>3 DEF WInv, OtherTypes, WorkerFinishes, analyzeAsync, processAsync, recoverAsync
<1>5. HandlerTypes' /\ OtherTypes'
  BY <1>1, <1>2, <1>4 DEF WInv, HandlerTypes, OtherTypes
<1>6. AwaitInv' /\ GateInv' /\ StartupInv'
  BY <1>1, Fields DEF WInv, AwaitInv, GateInv, StartupInv, CanSelectSourceFolder, Ready
<1>7. QueueInv'
  <2>1. queue' # << >> /\ queue'[Len(queue')] # "progress"
    BY <1>2
  <2>2. \A i \in 1..(Len(queue') - 1) : queue'[i] = "progress"
    BY <1>1, <1>2 DEF WInv, QueueInv
  <2>3. task.handler = "recover" => Len(queue') = 1
    BY <1>1, <1>2 DEF WInv, QueueInv
  <2> QED
    BY <1>1, <2>1, <2>2, <2>3 DEF QueueInv
<1>8. PendingInv'
  BY <1>1 DEF WInv, AwaitInv, PendingInv, CheckNotStranded, ProgressSettles
<1>9. EntryInv'
  BY <1>1, <1>2, <1>3, <1>4, Fields DEF WInv, EntryInv, IncompleteBatchKeepsEntry, Ready
<1>10. TurnInv'
  BY <1>1, Fields DEF WInv, TurnInv
<1> QED
  BY <1>5, <1>6, <1>7, <1>8, <1>9, <1>10 DEF WInv

\* What the dispatcher takes from the queue.
LEMMA DispatchedShape ==
    ASSUME WInv, NEW result \in Message, Dispatched(result)
    PROVE  /\ Len(queue) \in Nat /\ Len(queue) > 0 /\ queue[1] = result
           /\ queue' \in Seq(Message) /\ Len(queue') = Len(queue) - 1
           /\ \A i \in 1..(Len(queue) - 1) : queue'[i] = queue[i + 1]
           /\ task.step \in {"work", "queued"}
<1>1. queue \in Seq(Message) /\ queue # << >> /\ Head(queue) = result /\ queue' = Tail(queue)
  BY DEF WInv, OtherTypes, Dispatched
<1> QED
  BY <1>1 DEF WInv, QueueInv

\* A result is the last of the queue, and it is this handler's.
LEMMA ResultShape ==
    ASSUME WInv, NEW result \in Message \ {"progress"}, Dispatched(result)
    PROVE  /\ task.step = "queued" /\ queue' = << >>
           /\ result \in {"summary", "reconciled"} => journal[model.batch] # "open"
<1>1. /\ Len(queue) \in Nat /\ Len(queue) > 0 /\ queue[1] = result
      /\ queue' \in Seq(Message) /\ Len(queue') = Len(queue) - 1
      /\ task.step \in {"work", "queued"} /\ result # "progress"
  BY DispatchedShape
<1>2. task.step = "queued"
  BY <1>1 DEF WInv, QueueInv
<1>3. Len(queue) = 1
  BY <1>1, <1>2 DEF WInv, QueueInv
<1>4. queue' = << >>
  BY <1>1, <1>3
<1> QED
  BY <1>1, <1>2, <1>3, <1>4 DEF WInv, EntryInv

\* A progress callback runs.
LEMMA applyProgress_Keeps == ASSUME WInv, applyProgress PROVE WInv'
<1>1. /\ model'.state = model.state /\ model'.batch = model.batch
      /\ model'.options = model.options /\ model'.review = model.review /\ model' \in Model
      /\ UNCHANGED <<window, closing, picker, operation, task, startup, retention, started,
                     pending, controls, page, journal, tokens, preferences, batches, executions,
                     removable>>
  BY Fields DEF applyProgress, Model, shell, disk, counts
<1>2. /\ Len(queue) \in Nat /\ Len(queue) > 0 /\ queue[1] = "progress"
      /\ queue' \in Seq(Message) /\ Len(queue') = Len(queue) - 1
      /\ \A i \in 1..(Len(queue) - 1) : queue'[i] = queue[i + 1]
      /\ task.step \in {"work", "queued"}
  <2>1. Dispatched("progress") /\ "progress" \in Message
    BY DEF applyProgress, Message
  <2> QED
    BY <2>1, DispatchedShape
<1>3. HandlerTypes' /\ OtherTypes'
  BY <1>1, <1>2 DEF WInv, HandlerTypes, OtherTypes
<1>4. AwaitInv' /\ GateInv' /\ StartupInv'
  BY <1>1, Fields DEF WInv, AwaitInv, GateInv, StartupInv, CanSelectSourceFolder, Ready
<1>5. task.handler # "recover"
  <2>1. CASE task.step = "work"
    BY <1>2, <2>1 DEF WInv, QueueInv
  <2>2. CASE task.step = "queued"
    BY <1>2, <2>2 DEF WInv, QueueInv
  <2> QED
    BY <1>2, <2>1, <2>2
<1>6. model.state \in {"Analysis", "Processing"}
  BY <1>2, <1>5 DEF WInv, AwaitInv
<1>7. task.step = "queued" => /\ Len(queue) > 1 /\ queue' # << >>
                              /\ queue'[Len(queue')] = queue[Len(queue)]
  <2> SUFFICES ASSUME task.step = "queued"
               PROVE  /\ Len(queue) > 1 /\ queue' # << >>
                      /\ queue'[Len(queue')] = queue[Len(queue)]
    OBVIOUS
  <2>1. Len(queue) # 1
    BY <1>2 DEF WInv, QueueInv
  <2>2. Len(queue) - 1 \in 1..(Len(queue) - 1) /\ (Len(queue) - 1) + 1 = Len(queue)
    BY <1>2, <2>1
  <2> QED
    BY <1>2, <2>1, <2>2
<1>8. QueueInv'
  <2>1. task.step = "work" => \A i \in 1..Len(queue') : queue'[i] = "progress"
    BY <1>2 DEF WInv, QueueInv
  <2>2. task.step = "queued" => \A i \in 1..(Len(queue') - 1) : queue'[i] = "progress"
    BY <1>2 DEF WInv, QueueInv
  <2> QED
    BY <1>1, <1>2, <1>5, <1>7, <2>1, <2>2 DEF WInv, QueueInv
<1>9. PendingInv'
  BY <1>1, <1>2, <1>6 DEF WInv, AwaitInv, PendingInv, CheckNotStranded, ProgressSettles
<1>10. EntryInv'
  BY <1>1, <1>7, Fields DEF WInv, EntryInv, IncompleteBatchKeepsEntry, Ready
<1>11. TurnInv'
  BY <1>1, Fields DEF WInv, TurnInv
<1> QED
  BY <1>3, <1>4, <1>8, <1>9, <1>10, <1>11 DEF WInv

\* Processing begins.
LEMMA StartProcessing_Click_Keeps ==
    ASSUME WInv, StartProcessing_Click
    PROVE  WInv'
<1>1. /\ ~picker /\ ~operation /\ model.state = "Review"
      /\ retention' = model.batch /\ tokens' = tokens \cup {model.batch} /\ started' = TRUE
      /\ operation' = TRUE
      /\ task'.handler = "process" /\ task'.step = "work" /\ task'.cancelled = FALSE
      /\ task' \in Task
      /\ executions' = [executions EXCEPT ![model.batch] = @ + 1] /\ ~closing
      /\ UNCHANGED <<window, closing, picker, startup, pending, controls, page, queue, journal,
                     preferences, batches, removable>>
  BY Fields DEF StartProcessing_Click, IdleWithModel, CanBeginProcessing, retainSelectedSource,
     Await, Task, Handlers, Steps, disk, counts
<1>2. task.handler = "none" /\ task.step = "none" /\ queue = << >>
  BY <1>1, NoGateNoHandler, IdleNow
<1>3. model' = [model EXCEPT !.state = "Processing", !.review = NoReview]
  BY DEF StartProcessing_Click, BeginProcessingAsync
<1>4. /\ model'.state = "Processing" /\ model'.batch = model.batch
      /\ model'.options = model.options /\ model' \in Model
  <2>1. NoReview \in Review
    BY NoModelFields DEF NoModel, Model
  <2> QED
    BY <1>3, <2>1, Fields DEF Model, States
<1>5. model.batch \in Batches /\ model.batch # 0 /\ Ready
  BY <1>1, Fields DEF WInv, StartupInv, Batches
<1>6. /\ executions' \in [Batches -> Nat] /\ executions'[model.batch] = executions[model.batch] + 1
      /\ \A b \in Batches : b # model.batch => executions'[b] = executions[b]
      /\ executions \in [Batches -> Nat] /\ ~(model.batch > batches)
  BY <1>1, <1>5, Fields DEF WInv, OtherTypes, EntryInv
<1>7. HandlerTypes' /\ OtherTypes'
  BY <1>1, <1>2, <1>3, <1>4, <1>5, <1>6, Fields DEF WInv, HandlerTypes, OtherTypes, Task, Startup,
     Handlers, Steps
<1>8. AwaitInv' /\ GateInv' /\ StartupInv'
  BY <1>1, <1>2, <1>3, <1>4, <1>5, <1>6, Fields DEF WInv, AwaitInv, GateInv, StartupInv,
     CanSelectSourceFolder, Ready
<1>9. QueueInv' /\ PendingInv'
  BY <1>1, <1>2, <1>3, <1>4, <1>5, <1>6, Fields DEF WInv, QueueInv, PendingInv, ProgressSettles,
     CheckNotStranded, AwaitInv, GateInv
<1>10. EntryInv'
  BY <1>1, <1>2, <1>3, <1>4, <1>5, <1>6, Fields DEF WInv, EntryInv, IncompleteBatchKeepsEntry,
     AwaitInv, StartupInv, Ready
<1>11. TurnInv'
  <2>1. \A b \in Batches : b > batches => executions'[b] = 0
    BY <1>1, <1>6 DEF WInv, TurnInv
  <2>2. removable => executions'[model.batch] = 1
    BY <1>1, <1>6 DEF WInv, TurnInv
  <2>3. removable => \A b \in Batches : executions'[b] <= 1
    BY <1>6, <2>2 DEF WInv, TurnInv
  <2> QED
    BY <1>1, <1>2, <1>4, <2>1, <2>3, Fields DEF WInv, TurnInv
<1> QED
  BY <1>7, <1>8, <1>9, <1>10, <1>11 DEF WInv

\* The analysis of the source ends.
LEMMA AnalysisEnds_Keeps == ASSUME WInv, AnalysisEnds PROVE WInv'
<1>1. /\ task.handler = "analyze" /\ task.step = "queued" /\ operation' = FALSE
      /\ task' = NoTask /\ window' \in {"open", "closed"}
      /\ UNCHANGED <<closing, picker, startup, retention, started, pending, controls, page,
                     journal, tokens, preferences, batches, executions, removable>>
  BY DEF AnalysisEnds, NotifyShellState, WInv, OtherTypes, disk, counts
<1>2. model.state = "Analysis" /\ picker' = FALSE /\ pending' = FALSE
  BY <1>1, Fields DEF WInv, AwaitInv, GateInv, PendingInv
<1>3. queue' = << >>
  <2>1. Dispatched("failed") \/ Dispatched("reviewed")
    BY DEF AnalysisEnds
  <2> QED
    BY <2>1, ResultShape DEF Message
<1>4. PICK m \in Model : /\ model' = m /\ m.batch = model.batch /\ m.options = model.options
                         /\ \/ m.state = "SourceSelection" /\ m.progress = "none"
                            \/ m.state = "Review" /\ m.review.options = m.options
  <2>1. ASSUME model' = [model EXCEPT !.state = "SourceSelection", !.progress = "none"]
        PROVE  /\ model' \in Model /\ model'.batch = model.batch
               /\ model'.options = model.options
               /\ model'.state = "SourceSelection" /\ model'.progress = "none"
    BY <2>1, Fields DEF Model, States
  <2>2. ASSUME NEW review \in ReviewOf(model.options),
               model' = [model EXCEPT !.state = "Review", !.review = review]
        PROVE  /\ model' \in Model /\ model'.batch = model.batch
               /\ model'.options = model.options
               /\ model'.state = "Review" /\ model'.review.options = model'.options
    <3>1. review \in Review /\ review.options = model.options
      BY Fields DEF ReviewOf, Review
    <3> QED
      BY <2>2, <3>1, Fields DEF Model, States
  <2> QED
    BY <2>1, <2>2 DEF AnalysisEnds
<1>5. OtherTypes'
  BY <1>1, <1>3 DEF WInv, OtherTypes
<1>6. IdleWith(m)'
  BY <1>1, <1>2, <1>3, <1>4, Fields DEF WInv, StartupInv, EntryInv, TurnInv, IdleWith,
     IncompleteBatchKeepsEntry, Ready
<1> QED
  BY <1>1, <1>2, <1>4, <1>5, <1>6, IdleKeeps

\* The batch ends, in its summary or in doubt.
LEMMA ProcessingEnds_Keeps == ASSUME WInv, ProcessingEnds PROVE WInv'
<1>1. /\ task.handler = "process" /\ task.step = "queued" /\ operation' = FALSE
      /\ task' = NoTask /\ window' \in {"open", "closed"}
      /\ UNCHANGED <<closing, picker, startup, started, pending, controls, page,
                     journal, preferences, batches, executions, removable>>
  BY DEF ProcessingEnds, NotifyShellState, WInv, OtherTypes, counts
<1>2. /\ model.state = "Processing" /\ picker' = FALSE /\ pending' = FALSE
      /\ model.batch \in Batches /\ model.batch # 0 /\ Ready /\ started
  BY <1>1, Fields DEF WInv, AwaitInv, GateInv, PendingInv, StartupInv, EntryInv, Batches
<1>3. CASE Dispatched("summary") /\ model' = Summarized(model)
  <2>1. queue' = << >> /\ journal[model.batch] # "open"
    BY <1>3, ResultShape DEF Message
  <2>2. PICK m \in Model : /\ model' = m /\ m.batch = model.batch /\ m.options = model.options
                           /\ m.state = "Results" /\ m.progress = "final"
    <3>1. /\ model' \in Model /\ model'.batch = model.batch /\ model'.options = model.options
          /\ model'.state = "Results" /\ model'.progress = "final"
      BY <1>3, Fields DEF Summarized, Model, States
    <3> QED
      BY <3>1
  <2>3. /\ retention' \in {0, retention} /\ tokens' \in {tokens, tokens \ {retention}}
        /\ retention' = retention => tokens' = tokens \/ retention = 0
    <3>1. CASE UNCHANGED <<retention, tokens>>
      BY <3>1
    <3>2. ASSUME NEW done \in BOOLEAN, releaseReconciledSourceAccess(Summarized(model), done)
          PROVE  \/ UNCHANGED <<retention, tokens>>
                 \/ retention' = 0 /\ tokens' = tokens \ {retention}
      BY <3>2, ReleaseShape
    <3>3. UNCHANGED <<retention, tokens>> \/ (retention' = 0 /\ tokens' = tokens \ {retention})
      <4>1. CASE Dispatched("uncertain") \/ Dispatched("failed")
        BY <1>3, <4>1 DEF Dispatched
      <4> QED
        BY <3>2, <4>1 DEF ProcessingEnds
    <3> QED
      BY <3>3
  <2>4. OtherTypes'
    BY <1>1, <2>1, <2>3, Fields DEF WInv, OtherTypes
  <2>5. \A b \in Batches : journal[b] # "open"
    BY <1>2, <2>1 DEF WInv, EntryInv
  <2>6. retention' # 0 => retention' = model.batch /\ retention' \in tokens'
    BY <2>3 DEF WInv, EntryInv
  <2>7. IdleWith(m)'
    BY <1>1, <1>2, <2>1, <2>2, <2>5, <2>6, Fields DEF WInv, StartupInv, EntryInv, TurnInv,
       IdleWith, IncompleteBatchKeepsEntry, Ready
  <2> QED
    BY <1>1, <1>2, <2>2, <2>4, <2>7, IdleKeeps
<1>4. CASE /\ Dispatched("uncertain") \/ Dispatched("failed")
           /\ model' = [model EXCEPT !.state = "RecoveryRequired"]
           /\ UNCHANGED <<retention, tokens>>
  <2>1. queue' = << >>
    BY <1>4, ResultShape DEF Message
  <2>2. PICK m \in Model : /\ model' = m /\ m.batch = model.batch /\ m.options = model.options
                           /\ m.state = "RecoveryRequired"
    BY <1>4, Fields DEF Model, States
  <2>3. OtherTypes'
    BY <1>1, <1>4, <2>1 DEF WInv, OtherTypes
  <2>4. IdleWith(m)'
    BY <1>1, <1>2, <1>4, <2>1, <2>2, Fields DEF WInv, StartupInv, EntryInv, TurnInv,
       IdleWith, IncompleteBatchKeepsEntry, Ready
  <2> QED
    BY <1>1, <1>2, <2>2, <2>3, <2>4, IdleKeeps
<1> QED
  BY <1>3, <1>4 DEF ProcessingEnds

\* Recovery of the batch ends: the same review begins again, or the source is
\* composed anew once its entry is released.
LEMMA RecoveryEnds_Keeps == ASSUME WInv, RecoveryEnds PROVE WInv'
<1>1. /\ task.handler = "recover" /\ task.step = "queued" /\ window' \in {"open", "closed"}
      /\ UNCHANGED <<closing, startup, started, controls, page, journal, preferences, batches,
                     executions, removable>>
  BY DEF RecoveryEnds, NotifyShellState, WInv, OtherTypes, counts
<1>2. /\ model.state = "RecoveryRequired" /\ pending = FALSE /\ operation = TRUE
      /\ model.batch \in Batches /\ model.batch # 0 /\ Ready /\ model.options = controls
  BY <1>1, Fields DEF WInv, AwaitInv, GateInv, PendingInv, StartupInv, TurnInv, Batches
<1>3. CASE /\ Dispatched("failed") /\ finishPickerInteraction(model, pending)
           /\ UNCHANGED <<retention, tokens>>
  <2>1. queue' = << >>
    BY <1>3, ResultShape DEF Message
  <2>2. UNCHANGED <<closing, page, startup, retention, started, disk, counts>>
    BY <1>3 DEF RecoveryEnds, disk
  <2>3. task.step # "startup" /\ controls' = controls /\ controls' = model.options
    BY <1>1, <1>2
  <2> QED
    BY <1>1, <1>2, <1>3, <2>1, <2>2, <2>3, FinishUnchangedKeeps
<1>4. CASE Dispatched("reconciled")
  <2>0. ~Dispatched("failed")
    BY <1>4 DEF Dispatched
  <2>1. queue' = << >> /\ journal[model.batch] # "open"
    BY <1>4, ResultShape DEF Message
  <2>2. \A b \in Batches : journal[b] # "open"
    BY <1>2, <2>1 DEF WInv, EntryInv
  <2>3. PICK m \in Model : /\ m = Reconciled(model) /\ m.state = "SourceSelection"
                           /\ m.batch = model.batch /\ m.options = model.options
                           /\ m.progress = "none"
    BY Fields, NewBatchFields DEF Reconciled
  <2>4. PICK check \in BOOLEAN : check = pending
    BY Fields
  <2>5. ASSUME UNCHANGED <<retention, tokens>>, closing \/ ~removable,
               finishPickerInteraction(m, check)
        PROVE  WInv'
    <3>1. OtherTypes'
      BY <1>1, <2>1, <2>5 DEF WInv, OtherTypes
    <3>2. IdleWith(m)'
      BY <1>1, <1>2, <2>1, <2>2, <2>3, <2>5, Fields DEF WInv, StartupInv, EntryInv, TurnInv,
         IdleWith, IncompleteBatchKeepsEntry, Ready
    <3> QED
      BY <1>1, <1>2, <2>3, <2>4, <2>5, <3>1, <3>2, Fields, FinishKeeps
  <2>6. CASE task.cancelled
    <3>1. closing
      BY <2>6 DEF WInv, GateInv
    <3>2. finishPickerInteraction(m, check) /\ UNCHANGED <<retention, tokens>>
      BY <1>4, <2>0, <2>3, <2>4, <2>6 DEF RecoveryEnds
    <3> QED
      BY <2>5, <3>1, <3>2
  <2>7. CASE ~task.cancelled
    <3>1. PICK done \in BOOLEAN :
            /\ releaseReconciledSourceAccess(m, done)
            /\ IF done THEN /\ picker' = TRUE /\ model' = NoModel /\ Await("recover", "compose")
                            /\ UNCHANGED <<operation, pending>>
                       ELSE finishPickerInteraction(m, check)
      BY <1>4, <2>0, <2>3, <2>4, <2>7 DEF RecoveryEnds
    <3>2. CASE ~done
      <4>1. UNCHANGED <<retention, tokens>> /\ (ReleaseIllegal(m) \/ ~removable)
        BY <3>1, <3>2, ReleaseShape
      <4>2. ~ReleaseIllegal(m)
        BY <2>3 DEF ReleaseIllegal
      <4> QED
        BY <2>5, <3>1, <3>2, <4>1, <4>2
    <3>3. CASE done
      <4>1. retention' = 0 /\ tokens' = tokens \ {retention}
        BY <3>1, <3>3, ReleaseShape
      <4>2. /\ picker' = TRUE /\ model' = NoModel /\ UNCHANGED <<operation, pending>>
            /\ task'.handler = "recover" /\ task'.step = "compose" /\ task'.cancelled = FALSE
            /\ task' \in Task
        <5>1. /\ picker' = TRUE /\ model' = NoModel /\ UNCHANGED <<operation, pending>>
              /\ Await("recover", "compose")
          BY <3>1, <3>3
        <5> QED
          BY <5>1 DEF Await, Task, Handlers, Steps
      <4>3. model' \in Model /\ model'.state = "None" /\ model'.batch = 0
        BY <4>2, NoModelFields
      <4>4. HandlerTypes' /\ OtherTypes'
        BY <1>1, <1>2, <2>1, <4>1, <4>2, <4>3, Fields DEF WInv, HandlerTypes, OtherTypes
      <4>5. AwaitInv' /\ GateInv' /\ StartupInv'
        BY <1>1, <1>2, <4>2, <4>3, Fields DEF WInv, AwaitInv, GateInv, StartupInv, Ready
      <4>6. QueueInv' /\ PendingInv'
        BY <1>2, <2>1, <4>2, <4>3 DEF QueueInv, PendingInv, CheckNotStranded, ProgressSettles
      <4>7. EntryInv'
        BY <1>1, <1>2, <2>2, <4>1, <4>2, <4>3, Fields DEF WInv, EntryInv, OtherTypes,
           IncompleteBatchKeepsEntry, Ready
      <4>8. TurnInv'
        BY <1>1, <4>3, Fields DEF WInv, TurnInv
      <4> QED
        BY <4>4, <4>5, <4>6, <4>7, <4>8 DEF WInv
    <3> QED
      BY <3>2, <3>3
  <2> QED
    BY <2>6, <2>7
<1> QED
  BY <1>3, <1>4 DEF RecoveryEnds

\* The entry of a batch that is not being processed is released, and a handler
\* goes on to compose the next one.
LEMMA AwaitComposeKeeps ==
    ASSUME WInv, Ready, ~operation, task.handler # "options", task.step \notin {"work", "queued"},
           NEW handler \in {"pick", "options", "return"}, Await(handler, "compose"),
           CanSelectSourceFolder, handler # "pick" => model.state = "Results",
           releaseReconciledSourceAccess(model, TRUE), picker' = TRUE,
           UNCHANGED <<operation, model, pending, closing, page, startup, started, queue,
                       journal, preferences, counts>>,
           window' \in {"open", "closed"}, controls' \in Options,
           controls' = controls \/ handler = "options"
    PROVE  WInv'
<1>1. retention' = 0 /\ tokens' = tokens \ {retention}
  BY ReleaseShape
<1>2. /\ task'.handler = handler /\ task'.step = "compose" /\ task'.cancelled = FALSE
      /\ task' \in Task
  BY DEF Await, Task, Handlers, Steps
<1>3. UNCHANGED <<batches, executions, removable>>
  BY DEF counts
<1>4. \A b \in Batches : journal[b] # "open"
  BY DEF WInv, EntryInv, CanSelectSourceFolder
<1>5. HandlerTypes' /\ OtherTypes'
  BY <1>1, <1>2, <1>3, Fields DEF WInv, HandlerTypes, OtherTypes
<1>6. AwaitInv' /\ GateInv' /\ StartupInv'
  BY <1>2, Fields DEF WInv, AwaitInv, GateInv, StartupInv, CanSelectSourceFolder, Ready
<1>7. QueueInv' /\ PendingInv'
  BY <1>2 DEF WInv, QueueInv, PendingInv, CheckNotStranded, ProgressSettles
<1>8. EntryInv'
  BY <1>1, <1>2, <1>3, <1>4, Fields DEF WInv, EntryInv, IncompleteBatchKeepsEntry, Ready
<1>9. TurnInv'
  BY <1>2, <1>3, Fields DEF WInv, TurnInv
<1> QED
  BY <1>5, <1>6, <1>7, <1>8, <1>9 DEF WInv

\* The source picker ends.
LEMMA SourcePicked_Keeps ==
    ASSUME WInv, NEW choice, SourcePicked(choice)
    PROVE  WInv'
<1>1. /\ task.handler = "pick" /\ task.step = "picker" /\ window' \in {"open", "closed"}
      /\ UNCHANGED <<closing, startup, started, controls, page, queue, journal, preferences,
                     counts>>
  BY DEF SourcePicked, NotifyShellState, WInv, OtherTypes
<1>2. /\ Ready /\ ~operation /\ picker = TRUE /\ CanSelectSourceFolder /\ queue = << >>
      /\ model.state # "None" => controls = model.options
  BY <1>1, Fields DEF WInv, AwaitInv, GateInv, StartupInv, QueueInv, TurnInv
<1>3. ASSUME finishPickerInteraction(model, pending), UNCHANGED <<retention, tokens>>
      PROVE  WInv'
  <2>1. UNCHANGED disk
    BY <1>1, <1>3 DEF disk
  <2>2. model.state \notin {"Analysis", "Processing"}
    BY <1>2 DEF CanSelectSourceFolder
  <2> QED
    BY <1>1, <1>2, <1>3, <2>1, <2>2, FinishUnchangedKeeps
<1>4. ASSUME releaseReconciledSourceAccess(model, TRUE), Await("pick", "compose"),
             UNCHANGED <<picker, operation, model, pending>>
      PROVE  WInv'
  <2>1. controls' \in Options
    BY <1>1 DEF WInv, OtherTypes
  <2> QED
    BY <1>1, <1>2, <1>4, <2>1, AwaitComposeKeeps
<1>5. ASSUME releaseReconciledSourceAccess(model, FALSE), finishPickerInteraction(model, pending)
      PROVE  WInv'
  BY <1>3, <1>5, ReleaseShape
<1> QED
  BY <1>3, <1>4, <1>5 DEF SourcePicked

\* A new batch is composed under a fresh identity.
LEMMA ComposeSucceeds_Keeps == ASSUME WInv, ComposeSucceeds PROVE WInv'
<1>1. /\ task.step = "compose" /\ batches < MaxBatches /\ batches' = batches + 1
      /\ started' = FALSE /\ window' \in {"open", "closed"}
      /\ preferences' \in {controls, preferences}
      /\ UNCHANGED <<closing, startup, retention, controls, page, queue, journal, tokens,
                     executions, removable>>
  BY DEF ComposeSucceeds, NotifyShellState, WInv, OtherTypes
<1>2. /\ Ready /\ queue = << >> /\ retention = 0
      /\ model.state \notin {"Processing", "RecoveryRequired"}
  BY <1>1, Fields DEF WInv, AwaitInv, StartupInv, QueueInv, EntryInv, CanSelectSourceFolder
<1>3. /\ batches \in Nat /\ batches + 1 \in 0..MaxBatches /\ batches + 1 \in Batches
      /\ controls \in Options
  BY <1>1, Fields DEF WInv, OtherTypes, Batches
<1>4. PICK m \in Model : /\ m = NewBatch(FreshIdentity, controls) /\ m.state = "SourceSelection"
                         /\ m.batch = batches + 1 /\ m.options = controls
                         /\ m.progress = "none"
  BY <1>3, NewBatchFields DEF FreshIdentity
<1>5. OtherTypes'
  BY <1>1, <1>3 DEF WInv, OtherTypes
<1>6. \A b \in Batches : journal[b] # "open"
  BY <1>2 DEF WInv, EntryInv
<1>7. \A b \in Batches : (b <= batches => b <= batches + 1) /\ (b > batches + 1 => b > batches)
  BY <1>3, Fields DEF Batches
<1>8. executions[batches + 1] = 0
  BY <1>3 DEF WInv, TurnInv
<1>9. IdleWith(m)'
  BY <1>1, <1>2, <1>3, <1>4, <1>6, <1>7, <1>8, Fields DEF WInv, StartupInv, EntryInv, TurnInv,
     IdleWith, IncompleteBatchKeepsEntry, Ready
<1>10. finishPickerInteraction(m, TRUE)
  BY <1>4 DEF ComposeSucceeds
<1> QED
  BY <1>1, <1>4, <1>5, <1>9, <1>10, Fields, FinishKeeps

\* Composition fails and the window shows what it had.
LEMMA ComposeFails_Keeps == ASSUME WInv, ComposeFails PROVE WInv'
<1>1. /\ task.step = "compose" /\ finishPickerInteraction(model, pending)
      /\ window' \in {"open", "closed"}
      /\ UNCHANGED <<closing, page, startup, retention, started, disk, counts>>
      /\ queue' = queue
      /\ task.handler # "options" => controls' = controls
      /\ task.handler = "options" => controls' = model.options
  BY DEF ComposeFails, NotifyShellState, WInv, OtherTypes, synchronizeProcessingOptionControls
<1>2. queue = << >> /\ model.state \notin {"Analysis", "Processing"}
  BY <1>1 DEF WInv, AwaitInv, QueueInv, CanSelectSourceFolder
<1>3. model.state # "None" => controls' = model.options
  BY <1>1 DEF WInv, TurnInv
<1> QED
  BY <1>1, <1>2, <1>3, FinishUnchangedKeeps

\* Back to the selection of a source, which is analysed again, or to a fresh batch.
LEMMA ReturnToSourceSelection_Click_Keeps ==
    ASSUME WInv, ReturnToSourceSelection_Click
    PROVE  WInv'
<1>1. /\ ~picker /\ ~operation /\ ~closing /\ model.state \in {"Review", "Results"}
      /\ UNCHANGED <<window, closing, startup, started, controls, page, queue, journal,
                     preferences, counts>>
  BY DEF ReturnToSourceSelection_Click, IdleWithModel
<1>2. /\ task.handler = "none" /\ task.step = "none" /\ IdleWith(model) /\ queue = << >>
      /\ Ready /\ controls = model.options /\ window \in {"open", "closed"}
      /\ controls \in Options /\ model.batch \in 0..MaxBatches
  BY <1>1, NoGateNoHandler, IdleNow, Fields DEF WInv, StartupInv, IdleWith, OtherTypes
<1>3. PICK done \in BOOLEAN :
        /\ releaseReconciledSourceAccess(model, done)
        /\ IF ~done THEN finishPickerInteraction(model, pending)
           ELSE IF model.state = "Results"
           THEN picker' = TRUE /\ Await("return", "compose") /\ UNCHANGED <<operation, model,
                                                                            pending>>
           ELSE finishPickerInteraction(ReturnToSourceSelection(model), TRUE)
  BY DEF ReturnToSourceSelection_Click
<1>4. CASE ~done
  <2>1. UNCHANGED <<retention, tokens>> /\ finishPickerInteraction(model, pending)
    BY <1>3, <1>4, ReleaseShape
  <2>2. UNCHANGED disk
    BY <1>1, <2>1 DEF disk
  <2> QED
    BY <1>1, <1>2, <2>1, <2>2, FinishUnchangedKeeps
<1>5. CASE done /\ model.state = "Results"
  <2>1. /\ releaseReconciledSourceAccess(model, TRUE) /\ picker' = TRUE
        /\ Await("return", "compose") /\ UNCHANGED <<operation, model, pending>>
    BY <1>3, <1>5
  <2>2. CanSelectSourceFolder
    BY <1>1 DEF CanSelectSourceFolder
  <2> QED
    BY <1>1, <1>2, <1>5, <2>1, <2>2, AwaitComposeKeeps
<1>6. CASE done /\ model.state = "Review"
  <2>1. retention' = 0 /\ tokens' = tokens \ {retention}
    BY <1>3, <1>6, ReleaseShape
  <2>2. PICK m \in Model : /\ m = ReturnToSourceSelection(model) /\ m.state = "SourceSelection"
                           /\ m.batch = model.batch /\ m.options = model.options
                           /\ m.progress = "none"
    BY Fields, NewBatchFields DEF ReturnToSourceSelection
  <2>3. UNCHANGED <<batches, executions, removable>>
    BY <1>1 DEF counts
  <2>4. OtherTypes'
    BY <1>1, <2>1, <2>3, Fields DEF WInv, OtherTypes
  <2>5. IdleWith(m)'
    BY <1>1, <1>2, <1>6, <2>1, <2>2, <2>3, Fields DEF IdleWith, IncompleteBatchKeepsEntry, Ready
  <2>6. finishPickerInteraction(m, TRUE)
    BY <1>3, <1>6, <2>2
  <2> QED
    BY <1>1, <2>2, <2>4, <2>5, <2>6, Fields, FinishKeeps
<1> QED
  BY <1>1, <1>4, <1>5, <1>6

\* Other options: a review is invalidated, a completed batch is composed anew.
LEMMA applyProcessingPreferences_Keeps ==
    ASSUME WInv, NEW options \in Options, applyProcessingPreferences(options)
    PROVE  WInv'
<1>1. /\ ~picker /\ ~operation /\ ~closing /\ CanSelectSourceFolder
      /\ UNCHANGED <<window, closing, startup, started, page, queue, journal, counts>>
  BY DEF applyProcessingPreferences, CanPickSourceFolder
<1>2. /\ task.handler = "none" /\ task.step = "none" /\ IdleWith(model) /\ queue = << >>
      /\ window \in {"open", "closed"} /\ controls \in Options /\ preferences \in Options
      /\ picker = FALSE /\ operation = FALSE
  BY <1>1, NoGateNoHandler, IdleNow, Fields DEF WInv, OtherTypes
<1>3. UNCHANGED <<batches, executions, removable>>
  BY <1>1 DEF counts
<1>4. CASE /\ model.state = "None" /\ controls' = options /\ savePreferences(options)
           /\ UNCHANGED <<picker, operation, task, model, pending, retention, tokens>>
  <2>1. OtherTypes'
    BY <1>1, <1>2, <1>3, <1>4 DEF WInv, OtherTypes, savePreferences
  <2>2. HandlerTypes'
    BY <1>4 DEF WInv, HandlerTypes
  <2>3. AwaitInv' /\ GateInv' /\ StartupInv'
    BY <1>1, <1>4 DEF WInv, AwaitInv, GateInv, StartupInv, CanSelectSourceFolder, Ready
  <2>4. QueueInv' /\ PendingInv'
    BY <1>1, <1>4 DEF WInv, QueueInv, PendingInv, CheckNotStranded, ProgressSettles
  <2>5. EntryInv'
    BY <1>1, <1>3, <1>4 DEF WInv, EntryInv, IncompleteBatchKeepsEntry, Ready
  <2>6. TurnInv'
    BY <1>1, <1>3, <1>4 DEF WInv, TurnInv
  <2> QED
    BY <2>1, <2>2, <2>3, <2>4, <2>5, <2>6 DEF WInv
<1>5. CASE /\ model.state \in {"SourceSelection", "Review"}
           /\ controls' = options /\ savePreferences(options)
           /\ finishPickerInteraction(selectSource(model, options),
                                      CanAnalyzeSelectedSource(selectSource(model, options)))
           /\ UNCHANGED <<retention, tokens>>
  <2>1. PICK m \in Model : /\ m = selectSource(model, options) /\ m.state = "SourceSelection"
                           /\ m.batch = model.batch /\ m.options = options
                           /\ m.progress = "none"
    BY Fields, NewBatchFields DEF selectSource
  <2>2. OtherTypes'
    BY <1>1, <1>2, <1>3, <1>5 DEF WInv, OtherTypes, savePreferences
  <2>3. IdleWith(m)'
    BY <1>1, <1>2, <1>3, <1>5, <2>1, Fields DEF IdleWith, IncompleteBatchKeepsEntry, Ready
  <2>4. finishPickerInteraction(m, TRUE)
    BY <1>5, <2>1 DEF CanAnalyzeSelectedSource
  <2> QED
    BY <1>1, <2>1, <2>2, <2>3, <2>4, Fields, FinishKeeps
<1>6. ASSUME model.state = "Results", UNCHANGED preferences, NEW done \in BOOLEAN,
             releaseReconciledSourceAccess(model, done),
             IF done THEN /\ picker' = TRUE /\ Await("options", "compose") /\ controls' = options
                          /\ UNCHANGED <<operation, model, pending>>
             ELSE controls' = model.options /\ finishPickerInteraction(model, pending)
      PROVE  WInv'
  <2>1. Ready
    BY <1>6 DEF WInv, StartupInv
  <2>2. CASE done
    BY <1>1, <1>2, <1>6, <2>1, <2>2, AwaitComposeKeeps
  <2>3. CASE ~done
    <3>1. UNCHANGED <<retention, tokens>>
      BY <1>6, <2>3, ReleaseShape
    <3>2. UNCHANGED disk
      BY <1>1, <1>6, <3>1 DEF disk
    <3> QED
      BY <1>1, <1>2, <1>6, <2>3, <3>1, <3>2, FinishUnchangedKeeps
  <2> QED
    BY <2>2, <2>3
<1> QED
  BY <1>4, <1>5, <1>6 DEF applyProcessingPreferences, synchronizeProcessingOptionControls

\* The picker for the export ends.
LEMMA ExportDestinationPicked_Keeps ==
    ASSUME WInv, NEW choice, ExportDestinationPicked(choice)
    PROVE  WInv'
<1>1. /\ task.handler = "export" /\ task.step = "picker" /\ window' \in {"open", "closed"}
      /\ UNCHANGED <<closing, startup, retention, started, controls, page, queue, disk, counts>>
  BY DEF ExportDestinationPicked, NotifyShellState, WInv, OtherTypes
<1>2. /\ picker = TRUE /\ ~operation /\ queue = << >>
      /\ model.state \notin {"Analysis", "Processing"}
      /\ model.state # "None" => controls = model.options
  BY <1>1, Fields DEF WInv, AwaitInv, GateInv, QueueInv, TurnInv
<1>3. CASE finishPickerInteraction(model, pending)
  BY <1>1, <1>2, <1>3, FinishUnchangedKeeps
<1>4. CASE Await("export", "export") /\ UNCHANGED <<picker, operation, model, pending>>
  <2>1. /\ task'.handler = "export" /\ task'.step = "export" /\ task'.cancelled = FALSE
        /\ task' \in Task
    BY <1>4 DEF Await, Task, Handlers, Steps
  <2>2. UNCHANGED <<journal, tokens, preferences, batches, executions, removable>>
    BY <1>1 DEF disk, counts
  <2>3. HandlerTypes' /\ OtherTypes'
    BY <1>1, <1>4, <2>1, <2>2 DEF WInv, HandlerTypes, OtherTypes
  <2>4. AwaitInv' /\ GateInv' /\ StartupInv'
    BY <1>1, <1>2, <1>4, <2>1, Fields DEF WInv, AwaitInv, GateInv, StartupInv, Ready
  <2>5. QueueInv' /\ PendingInv'
    BY <1>1, <1>2, <1>4, <2>1 DEF WInv, QueueInv, PendingInv, CheckNotStranded, ProgressSettles
  <2>6. EntryInv' /\ TurnInv'
    BY <1>1, <1>2, <1>4, <2>1, <2>2, Fields DEF WInv, EntryInv, TurnInv,
       IncompleteBatchKeepsEntry, Ready
  <2> QED
    BY <2>3, <2>4, <2>5, <2>6 DEF WInv
<1> QED
  BY <1>3, <1>4 DEF ExportDestinationPicked

\* The export ends.
LEMMA ExportEnds_Keeps ==
    ASSUME WInv, NEW outcome, ExportEnds(outcome)
    PROVE  WInv'
<1>1. /\ task.step = "export" /\ window' \in {"open", "closed"}
      /\ finishPickerInteraction(model, pending)
      /\ UNCHANGED <<closing, startup, retention, started, controls, page, queue, disk, counts>>
  BY DEF ExportEnds, NotifyShellState, WInv, OtherTypes
<1>2. /\ queue = << >> /\ model.state \notin {"Analysis", "Processing"}
      /\ model.state # "None" => controls = model.options
  BY <1>1, Fields DEF WInv, AwaitInv, QueueInv, TurnInv
<1> QED
  BY <1>1, <1>2, FinishUnchangedKeeps

\* The picker for a lost source ends, and startup recovery begins again.
LEMMA RecoverySourcePicked_Keeps ==
    ASSUME WInv, NEW choice, RecoverySourcePicked(choice)
    PROVE  WInv'
<1>1. /\ task.handler = "restore" /\ task.step = "picker" /\ window' \in {"open", "closed"}
      /\ UNCHANGED <<closing, retention, started, controls, page, queue, disk, counts>>
  BY DEF RecoverySourcePicked, NotifyShellState, WInv, OtherTypes
<1>2. /\ picker = TRUE /\ ~operation /\ queue = << >> /\ model.state = "None"
      /\ startup.error /\ ~startup.pending /\ ~Ready
  BY <1>1, Fields DEF WInv, AwaitInv, GateInv, QueueInv, StartupInv, Ready
<1>3. CASE finishPickerInteraction(model, pending) /\ UNCHANGED startup
  BY <1>1, <1>2, <1>3, FinishUnchangedKeeps
<1>4. CASE /\ recoverStartupAsync("restore") /\ Await("restore", "startup")
           /\ UNCHANGED <<picker, operation, model, pending>>
  <2>1. /\ task'.handler = "restore" /\ task'.step = "startup" /\ task'.cancelled = FALSE
        /\ task' \in Task
    BY <1>4 DEF Await, Task, Handlers, Steps
  <2>2. /\ startup'.started = TRUE /\ startup'.pending = TRUE /\ startup'.step = "working"
        /\ startup'.owner = "restore" /\ startup' \in Startup
    BY <1>4, Fields DEF recoverStartupAsync, Startup
  <2>3. UNCHANGED <<journal, tokens, preferences, batches, executions, removable>>
    BY <1>1 DEF disk, counts
  <2>4. HandlerTypes' /\ OtherTypes'
    BY <1>1, <1>4, <2>1, <2>2, <2>3 DEF WInv, HandlerTypes, OtherTypes
  <2>5. AwaitInv' /\ GateInv' /\ StartupInv'
    BY <1>1, <1>2, <1>4, <2>1, <2>2, Fields DEF WInv, AwaitInv, GateInv, StartupInv, Ready
  <2>6. QueueInv' /\ PendingInv'
    BY <1>1, <1>2, <1>4, <2>1 DEF WInv, QueueInv, PendingInv, CheckNotStranded, ProgressSettles
  <2>7. EntryInv' /\ TurnInv'
    BY <1>1, <1>2, <1>4, <2>1, <2>2, <2>3, Fields DEF WInv, EntryInv, TurnInv,
       IncompleteBatchKeepsEntry, Ready
  <2> QED
    BY <2>4, <2>5, <2>6, <2>7 DEF WInv
<1> QED
  BY <1>3, <1>4 DEF RecoverySourcePicked

\* Startup recovery only closes journals.
LEMMA EffectsShape ==
    ASSUME WInv, NEW reconciled \in BOOLEAN, StartupEffects(reconciled)
    PROVE  /\ journal' \in [Batches -> {"none", "open", "closed"}]
           /\ \A b \in Batches : journal'[b] # "none" => journal[b] # "none"
           /\ \A b \in Batches : journal'[b] = "open" => journal[b] = "open"
           /\ reconciled => \A b \in Batches : journal'[b] # "open"
<1>1. PICK closed \in SUBSET Batches :
        /\ journal' = [b \in Batches |-> IF b \in closed /\ journal[b] = "open" THEN "closed"
                                         ELSE journal[b]]
        /\ reconciled => \A b \in Batches : journal'[b] # "open"
  BY DEF StartupEffects
<1> QED
  BY <1>1 DEF WInv, OtherTypes

\* Its worker ends.
LEMMA StartupWorked_Keeps ==
    ASSUME WInv, NEW result \in {"success", "failure"}, StartupWorked(result)
    PROVE  WInv'
<1>1. /\ startup.step = "working"
      /\ UNCHANGED <<window, picker, operation, task, closing, model, retention, started, pending,
                     controls, page, queue, tokens, preferences, batches, executions, removable>>
  BY DEF StartupWorked, StartupUnchanged, counts
<1>2. /\ startup'.started = startup.started /\ startup'.pending = startup.pending
      /\ startup'.step = result /\ startup'.owner = startup.owner
      /\ startup'.error = startup.error /\ startup' \in Startup
  BY Fields DEF StartupWorked, Startup
<1>3. /\ journal' \in [Batches -> {"none", "open", "closed"}]
      /\ \A b \in Batches : journal'[b] # "none" => journal[b] # "none"
      /\ \A b \in Batches : journal'[b] = "open" => journal[b] = "open"
      /\ result = "success" => \A b \in Batches : journal'[b] # "open"
  <2>1. PICK reconciled \in BOOLEAN : reconciled = (result = "success")
    OBVIOUS
  <2>2. StartupEffects(reconciled)
    BY <2>1 DEF StartupWorked
  <2> QED
    BY <2>1, <2>2, EffectsShape
<1>4. model.state = "None" /\ task.handler \in {"none", "export", "restore"} /\ ~Ready
  BY <1>1 DEF WInv, StartupInv, Ready
<1>5. HandlerTypes' /\ OtherTypes'
  BY <1>1, <1>2, <1>3 DEF WInv, HandlerTypes, OtherTypes
<1>6. AwaitInv' /\ GateInv' /\ StartupInv'
  BY <1>1, <1>2, <1>4, Fields DEF WInv, AwaitInv, GateInv, StartupInv, Ready
<1>7. QueueInv' /\ PendingInv'
  BY <1>1 DEF WInv, QueueInv, PendingInv, CheckNotStranded, ProgressSettles
<1>8. EntryInv'
  BY <1>1, <1>2, <1>3, <1>4, Fields DEF WInv, AwaitInv, EntryInv, IncompleteBatchKeepsEntry, Ready
<1>9. TurnInv'
  BY <1>1, Fields DEF WInv, TurnInv
<1> QED
  BY <1>5, <1>6, <1>7, <1>8, <1>9 DEF WInv

\* Startup recovery was cancelled by a close request.
LEMMA StartupAbandoned_Keeps == ASSUME WInv, StartupAbandoned PROVE WInv'
<1>1. /\ startup.step = "working" /\ window' \in {"open", "closed"}
      /\ UNCHANGED <<closing, retention, started, controls, page, queue, tokens, preferences,
                     batches, executions, removable>>
  BY DEF StartupAbandoned, NotifyShellState, WInv, OtherTypes, counts
<1>2. /\ startup'.started = startup.started /\ startup'.pending = startup.pending
      /\ startup'.step = "abandoned" /\ startup'.owner = startup.owner
      /\ startup'.error = startup.error /\ startup' \in Startup
  BY Fields DEF StartupAbandoned, Startup
<1>3. /\ journal' \in [Batches -> {"none", "open", "closed"}]
      /\ \A b \in Batches : journal'[b] # "none" => journal[b] # "none"
      /\ \A b \in Batches : journal'[b] = "open" => journal[b] = "open"
  BY EffectsShape DEF StartupAbandoned
<1>4. /\ model.state = "None" /\ task.handler \in {"none", "restore"} /\ ~Ready /\ queue = << >>
      /\ startup.started /\ startup.pending
  BY <1>1 DEF WInv, StartupInv, AwaitInv, QueueInv, Ready
<1>5. OtherTypes'
  BY <1>1, <1>2, <1>3 DEF WInv, OtherTypes
<1>6. CASE startup.owner = "restore"
  <2>1. PICK m \in Model : m = model
    BY Fields
  <2>2. PICK check \in BOOLEAN : check = pending
    BY Fields
  <2>3. finishPickerInteraction(m, check) /\ ~check
    BY <1>4, <1>6, <2>1, <2>2 DEF StartupAbandoned, WInv, PendingInv
  <2>4. IdleWith(m)'
    BY <1>1, <1>2, <1>3, <1>4, <2>1, Fields DEF WInv, StartupInv, EntryInv, TurnInv, IdleWith,
       IncompleteBatchKeepsEntry, Ready
  <2> QED
    BY <1>1, <1>5, <2>3, <2>4, Fields, FinishKeeps
<1>7. CASE startup.owner # "restore"
  <2>1. UNCHANGED <<picker, operation, task, model, pending>>
    BY <1>7 DEF StartupAbandoned
  <2>2. HandlerTypes'
    BY <2>1 DEF WInv, HandlerTypes
  <2>3. AwaitInv' /\ GateInv' /\ StartupInv'
    BY <1>1, <1>2, <1>4, <1>7, <2>1, Fields DEF WInv, AwaitInv, GateInv, StartupInv, Ready
  <2>4. QueueInv' /\ PendingInv'
    BY <1>1, <1>4, <2>1 DEF WInv, QueueInv, PendingInv, CheckNotStranded, ProgressSettles
  <2>5. EntryInv' /\ TurnInv'
    BY <1>1, <1>2, <1>3, <1>4, <2>1, Fields DEF WInv, AwaitInv, EntryInv, TurnInv,
       IncompleteBatchKeepsEntry, Ready
  <2> QED
    BY <1>5, <2>2, <2>3, <2>4, <2>5 DEF WInv
<1> QED
  BY <1>6, <1>7

\* Startup recovery reports.
LEMMA StartupEnds_Keeps == ASSUME WInv, StartupEnds PROVE WInv'
<1>1. /\ startup.step \in {"success", "failure"} /\ window' \in {"open", "closed"}
      /\ UNCHANGED <<closing, retention, started, controls, page, queue, journal, tokens,
                     preferences, batches, executions, removable>>
  BY DEF StartupEnds, NotifyShellState, WInv, OtherTypes, disk, counts
<1>2. /\ startup'.started = startup.started /\ startup'.pending = FALSE
      /\ startup'.step = "idle" /\ startup'.error = (startup.step = "failure")
      /\ startup' \in Startup
  BY Fields DEF StartupEnds, Startup
<1>3. /\ model.state = "None" /\ task.handler \in {"none", "restore"} /\ ~Ready /\ queue = << >>
      /\ startup.started = TRUE /\ startup.pending = TRUE
  BY <1>1, Fields DEF WInv, StartupInv, AwaitInv, QueueInv, Ready
<1>4. Ready' => \A b \in Batches : journal[b] # "open"
  BY <1>1, <1>2 DEF WInv, EntryInv, Ready
<1>5. OtherTypes'
  BY <1>1, <1>2 DEF WInv, OtherTypes
<1>6. CASE startup.owner = "restore"
  <2>1. PICK m \in Model : m = model
    BY Fields
  <2>2. PICK check \in BOOLEAN : check = pending
    BY Fields
  <2>3. finishPickerInteraction(m, check) /\ ~check
    BY <1>3, <1>6, <2>1, <2>2 DEF StartupEnds, WInv, PendingInv
  <2>4. IdleWith(m)'
    BY <1>1, <1>2, <1>3, <1>4, <2>1, Fields DEF WInv, StartupInv, EntryInv, TurnInv, IdleWith,
       IncompleteBatchKeepsEntry, Ready
  <2> QED
    BY <1>1, <1>5, <2>3, <2>4, Fields, FinishKeeps
<1>7. CASE startup.owner # "restore"
  <2>1. UNCHANGED <<picker, operation, task, model, pending>>
    BY <1>7 DEF StartupEnds
  <2>2. task.step # "startup" /\ task.handler = "none"
    BY <1>1, <1>3, <1>7, Fields DEF WInv, StartupInv, AwaitInv
  <2>3. HandlerTypes'
    BY <2>1 DEF WInv, HandlerTypes
  <2>4. AwaitInv' /\ GateInv' /\ StartupInv'
    BY <1>1, <1>2, <1>3, <2>1, <2>2, Fields DEF WInv, AwaitInv, GateInv, StartupInv, Ready
  <2>5. QueueInv' /\ PendingInv'
    BY <1>1, <1>3, <2>1 DEF WInv, QueueInv, PendingInv, CheckNotStranded, ProgressSettles
  <2>6. EntryInv' /\ TurnInv'
    BY <1>1, <1>2, <1>3, <1>4, <2>1, <2>2, Fields DEF WInv, AwaitInv, EntryInv, TurnInv,
       IncompleteBatchKeepsEntry, Ready
  <2> QED
    BY <1>5, <2>3, <2>4, <2>5, <2>6 DEF WInv
<1> QED
  BY <1>6, <1>7

\* A close request cancels what runs.
LEMMA handleClosing_Keeps == ASSUME WInv, handleClosing PROVE WInv'
<1>1. /\ closing' = TRUE /\ window' \in {"open", "closed"}
      /\ UNCHANGED <<picker, operation, model, retention, started, pending, controls, page, queue,
                     journal, tokens, preferences, batches, executions, removable>>
  BY DEF handleClosing, WInv, OtherTypes, disk, counts
<1>2. /\ task'.handler = task.handler /\ task'.step = task.step /\ task' \in Task
  BY Fields DEF handleClosing, cancelOperation, Task
<1>3. /\ startup'.started = startup.started /\ startup'.pending = startup.pending
      /\ startup'.step = startup.step /\ startup'.owner = startup.owner
      /\ startup'.error = startup.error /\ startup' \in Startup
  BY Fields DEF handleClosing, Startup
<1>4. HandlerTypes' /\ OtherTypes'
  BY <1>1, <1>2, <1>3 DEF WInv, HandlerTypes, OtherTypes
<1>5. AwaitInv' /\ GateInv' /\ StartupInv'
  BY <1>1, <1>2, <1>3 DEF WInv, AwaitInv, GateInv, StartupInv, CanSelectSourceFolder, Ready
<1>6. QueueInv' /\ PendingInv'
  BY <1>1, <1>2 DEF WInv, QueueInv, PendingInv, CheckNotStranded, ProgressSettles
<1>7. EntryInv' /\ TurnInv'
  BY <1>1, <1>2, <1>3 DEF WInv, EntryInv, TurnInv, IncompleteBatchKeepsEntry, Ready
<1> QED
  BY <1>4, <1>5, <1>6, <1>7 DEF WInv

\* A process that dies or is launched keeps what is on the disk and nothing else.
LEMMA LaunchedKeeps ==
    ASSUME WInv, Launched, window' \in {"open", "closed"},
           UNCHANGED <<disk, batches, executions, removable>>
    PROVE  WInv'
<1>1. PICK m \in Model : m = NoModel /\ m.state = "None" /\ m.batch = 0 /\ m.progress = "none"
  BY NoModelFields
<1>2. /\ model' = m /\ task' = NoTask /\ picker' = FALSE /\ operation' = FALSE
      /\ pending' = FALSE /\ startup' = NoStartup /\ retention' = 0 /\ queue' = << >>
      /\ closing' = FALSE /\ started' = FALSE /\ controls' = preferences /\ page' = "Workflow"
  BY <1>1 DEF Launched, loadProcessingPreferences
<1>3. UNCHANGED <<journal, tokens, preferences, batches, executions, removable>>
  BY DEF disk
<1>4. /\ startup' \in Startup /\ startup'.step = "idle" /\ startup'.pending = TRUE
      /\ startup'.started = FALSE /\ startup'.owner = "loaded"
  BY <1>2 DEF NoStartup, Startup
<1>5. OtherTypes'
  <2>1. /\ closing' \in BOOLEAN /\ started' \in BOOLEAN
    BY <1>2
  <2>2. retention' \in 0..MaxBatches
    BY <1>2, Fields
  <2>3. controls' \in Options /\ page' \in {"Workflow", "Settings"} 
    BY <1>2 DEF WInv, OtherTypes
  <2>4. queue' \in Seq(Message)
    BY <1>2
  <2> QED
    BY <1>3, <1>4, <2>1, <2>2, <2>3, <2>4 DEF WInv, OtherTypes
<1>6. ~Ready' /\ retention' = 0 /\ queue' = << >> /\ 0 <= batches
  BY <1>2, <1>4, Fields DEF WInv, OtherTypes, Ready
<1>7. IncompleteBatchKeepsEntry'
  BY <1>3 DEF WInv, EntryInv, IncompleteBatchKeepsEntry
<1>8. IdleWith(m)'
  <2>1. startup'.pending = ~startup'.started
    BY <1>4
  <2>2. \A b \in Batches : journal'[b] # "none" => b <= batches'
    BY <1>3 DEF WInv, EntryInv
  <2>3. /\ \A b \in Batches : b > batches' => executions'[b] = 0
        /\ removable' => \A b \in Batches : executions'[b] <= 1
    BY <1>3 DEF WInv, TurnInv
  <2>4. m.batch <= batches'
    BY <1>1, <1>3, <1>6
  <2> QED
    BY <1>1, <1>4, <1>6, <1>7, <2>1, <2>2, <2>3, <2>4 DEF IdleWith
<1> QED
  BY <1>1, <1>2, <1>5, <1>8, IdleKeeps

\* The process dies, or the user starts it again.
LEMMA ProcessKeeps == ASSUME WInv, ProcessDies \/ Relaunch PROVE WInv'
BY LaunchedKeeps DEF ProcessDies, Relaunch, counts

\* The first launch.
LEMMA WindowInit == Init => WInv
<1> SUFFICES ASSUME Init PROVE WInv
  OBVIOUS
<1>1. NoModel \in Model /\ NoModel.state = "None" /\ NoModel.batch = 0
  BY NoModelFields
<1>2. /\ NoStartup \in Startup /\ NoStartup.step = "idle" /\ NoStartup.pending = TRUE
      /\ NoStartup.started = FALSE /\ NoStartup.owner = "loaded"
  BY DEF NoStartup, Startup
<1>3. /\ NoTask \in Task /\ NoTask.handler = "none" /\ NoTask.step = "none"
      /\ NoTask.cancelled = FALSE
  BY DEF NoTask, Task, Handlers, Steps
<1>4. HandlerTypes /\ OtherTypes
  <2>1. HandlerTypes
    BY <1>1, <1>3 DEF Init, HandlerTypes
  <2>2. OtherTypes
    <3>1. startup \in Startup /\ closing \in BOOLEAN /\ started \in BOOLEAN
      BY <1>2 DEF Init
    <3>2. /\ retention \in 0..MaxBatches /\ batches \in 0..MaxBatches /\ tokens \subseteq Batches
          /\ queue \in Seq(Message)
      BY ShellConstants DEF Init
    <3>3. /\ journal \in [Batches -> {"none", "open", "closed"}] /\ executions \in [Batches -> Nat]
          /\ controls \in Options /\ preferences \in Options
      BY DEF Init
    <3> QED
      BY <3>1, <3>2, <3>3 DEF Init, OtherTypes
  <2> QED
    BY <2>1, <2>2
<1>5. AwaitInv /\ GateInv /\ StartupInv
  BY <1>1, <1>2, <1>3 DEF Init, AwaitInv, GateInv, StartupInv, Ready
<1>6. QueueInv /\ PendingInv
  BY <1>1, <1>3 DEF Init, QueueInv, PendingInv, CheckNotStranded, ProgressSettles
<1>7. EntryInv
  BY <1>1, <1>2, <1>3, ShellConstants DEF Init, EntryInv, IncompleteBatchKeepsEntry, Ready,
     Batches
<1>8. TurnInv
  BY <1>1, ShellConstants DEF Init, TurnInv, Batches
<1> QED
  BY <1>4, <1>5, <1>6, <1>7, <1>8 DEF WInv

\* Every step keeps the invariant.
LEMMA NextKeeps == WInv /\ [Next]_vars => WInv'
<1> SUFFICES ASSUME WInv, [Next]_vars PROVE WInv'
  OBVIOUS
<1>1. CASE UNCHANGED vars
  <2>1. UNCHANGED <<window, closing, picker, operation, task, startup, model, retention, started,
                    pending, controls, page, queue, journal, tokens, preferences, batches,
                    executions, removable>>
    BY <1>1 DEF vars, shell, disk, counts
  <2>2. HandlerTypes' /\ OtherTypes'
    BY <2>1 DEF WInv, HandlerTypes, OtherTypes
  <2>3. AwaitInv' /\ GateInv' /\ StartupInv' /\ QueueInv' /\ PendingInv'
    BY <2>1 DEF WInv, AwaitInv, GateInv, StartupInv, QueueInv, PendingInv, CheckNotStranded,
       ProgressSettles, CanSelectSourceFolder, Ready
  <2>4. EntryInv' /\ TurnInv'
    BY <2>1 DEF WInv, EntryInv, TurnInv, IncompleteBatchKeepsEntry, Ready
  <2> QED
    BY <2>2, <2>3, <2>4 DEF WInv
<1>2. CASE PickerEnds
  BY <1>2, SourcePicked_Keeps, ExportDestinationPicked_Keeps, RecoverySourcePicked_Keeps
     DEF PickerEnds
<1>3. CASE Work
  BY <1>3, ComposeSucceeds_Keeps, ComposeFails_Keeps, applyProgress_Keeps, AnalysisEnds_Keeps,
     ProcessingEnds_Keeps, RecoveryEnds_Keeps, ExportEnds_Keeps, StartupWorked_Keeps,
     StartupAbandoned_Keeps, StartupEnds_Keeps DEF Work
<1>4. CASE WorkerEnds
  BY <1>4, WorkerFinishes_Keeps DEF WorkerEnds
<1> QED
  BY <1>1, <1>2, <1>3, <1>4, WorkerReports_Keeps, Loaded_Keeps, handleClosing_Keeps, ProcessKeeps,
     WorkerWrites_Keeps, RetryAnalysis_Click_Keeps, navigateToShellPage_Keeps,
     tryNavigateBack_Keeps, SourcePicker_Click_Keeps, ReturnToSourceSelection_Click_Keeps,
     StartProcessing_Click_Keeps, RetryRecovery_Click_Keeps, CancelOperation_Click_Keeps,
     ExportDiagnostics_Click_Keeps, RetryStartupRecovery_Click_Keeps,
     RestoreRecoverySource_Click_Keeps, applyProcessingPreferences_Keeps, TrimConsent_Click_Keeps
     DEF Next

\* The invariant of the shell.
THEOREM WindowInvariant == Spec => []WInv
BY WindowInit, NextKeeps, PTL DEF Spec

\* Only StartProcessing_Click executes a batch.
LEMMA OnlyTheClickExecutes ==
    ASSUME WInv, [Next]_vars, executions' # executions
    PROVE  StartProcessing_Click
<1> USE DEF counts, disk
<1>1. ASSUME NEW choice, SourcePicked(choice) \/ ExportDestinationPicked(choice)
                         \/ RecoverySourcePicked(choice)
      PROVE  FALSE
  BY <1>1 DEF SourcePicked, ExportDestinationPicked, RecoverySourcePicked
<1>2. ~Work
  BY DEF Work, ComposeSucceeds, ComposeFails, applyProgress, AnalysisEnds, ProcessingEnds,
     RecoveryEnds, ExportEnds, StartupWorked, StartupAbandoned, StartupEnds, StartupUnchanged
<1>3. ~WorkerEnds /\ ~WorkerReports /\ ~(\E state \in {"open", "closed"} : WorkerWrites(state))
  BY DEF WorkerEnds, WorkerFinishes, WorkerReports, WorkerWrites, WorkerUnchanged
<1>4. ~Loaded /\ ~handleClosing /\ ~ProcessDies /\ ~Relaunch
  BY DEF Loaded, handleClosing, ProcessDies, Relaunch, StartupUnchanged
<1>5. /\ ~RetryAnalysis_Click /\ ~navigateToShellPage /\ ~tryNavigateBack /\ ~SourcePicker_Click
      /\ ~ReturnToSourceSelection_Click /\ ~RetryRecovery_Click /\ ~CancelOperation_Click
  BY DEF RetryAnalysis_Click, navigateToShellPage, tryNavigateBack, SourcePicker_Click,
     ReturnToSourceSelection_Click, RetryRecovery_Click, CancelOperation_Click
<1>6. /\ ~ExportDiagnostics_Click /\ ~RetryStartupRecovery_Click /\ ~RestoreRecoverySource_Click
      /\ ~(\E options \in Options : applyProcessingPreferences(options))
      /\ ~(\E file \in Files : TrimConsent_Click(file))
  BY DEF ExportDiagnostics_Click, RetryStartupRecovery_Click, RestoreRecoverySource_Click,
     applyProcessingPreferences, TrimConsent_Click, StartupUnchanged
<1>7. ~UNCHANGED vars
  BY DEF vars
<1> QED
  BY <1>1, <1>2, <1>3, <1>4, <1>5, <1>6, <1>7 DEF Next, PickerEnds

\* What runs is left alone or stops.
SameOrStops ==
    task'.step \in {"work", "export"} => task'.handler = task.handler /\ task.step = task'.step

\* A handler that ends while the window is closing starts nothing.
LEMMA ClosingFinish ==
    ASSUME closing, NEW m, NEW check, finishPickerInteraction(m, check)
    PROVE  SameOrStops
<1>1. task' = NoTask
  BY DEF finishPickerInteraction, finishWithoutCheck
<1> QED
  BY <1>1 DEF NoTask, SameOrStops

\* A handler that waits for a picker or for composition runs no work.
LEMMA WaitsOnly ==
    ASSUME NEW handler, NEW step \in {"picker", "compose", "startup"}, Await(handler, step)
    PROVE  SameOrStops
BY DEF Await, SameOrStops

\* After a close request nothing begins.
LEMMA NothingBeginsWhileClosing ==
    ASSUME WInv, [Next]_vars, closing, closing'
    PROVE  SameOrStops
<1>1. CASE UNCHANGED task
  BY <1>1 DEF SameOrStops
<1>2. ASSUME NEW choice, SourcePicked(choice) PROVE SameOrStops
  <2>1. ASSUME Await("pick", "compose") PROVE SameOrStops
    BY <2>1, WaitsOnly
  <2> QED
    BY <1>2, <2>1, ClosingFinish DEF SourcePicked
<1>3. ASSUME NEW choice, ExportDestinationPicked(choice) PROVE SameOrStops
  BY <1>3, ClosingFinish DEF ExportDestinationPicked
<1>4. ASSUME NEW choice, RecoverySourcePicked(choice) PROVE SameOrStops
  <2>1. ASSUME Await("restore", "startup") PROVE SameOrStops
    BY <2>1, WaitsOnly
  <2> QED
    BY <1>4, <2>1, ClosingFinish DEF RecoverySourcePicked
<1>5. CASE ComposeSucceeds \/ ComposeFails \/ \E outcome \in {"ok", "error"} : ExportEnds(outcome)
  BY <1>5, ClosingFinish DEF ComposeSucceeds, ComposeFails, ExportEnds
<1>6. CASE applyProgress \/ \E result \in {"success", "failure"} : StartupWorked(result)
  BY <1>6, <1>1 DEF applyProgress, StartupWorked, shell
<1>7. CASE AnalysisEnds \/ ProcessingEnds
  <2>1. task' = NoTask
    BY <1>7 DEF AnalysisEnds, ProcessingEnds
  <2> QED
    BY <2>1 DEF NoTask, SameOrStops
<1>8. CASE RecoveryEnds
  <2>1. ASSUME Await("recover", "compose") PROVE SameOrStops
    BY <2>1, WaitsOnly
  <2> QED
    BY <1>8, <2>1, ClosingFinish DEF RecoveryEnds
<1>9. CASE StartupAbandoned \/ StartupEnds
  BY <1>1, <1>9, ClosingFinish DEF StartupAbandoned, StartupEnds
<1>10. CASE WorkerEnds
  BY <1>10, Fields DEF WorkerEnds, WorkerFinishes, SameOrStops, Task
<1>11. CASE WorkerReports \/ Loaded \/ \E state \in {"open", "closed"} : WorkerWrites(state)
  BY <1>1, <1>11 DEF WorkerReports, Loaded, WorkerWrites
<1>12. CASE handleClosing
  BY <1>12, Fields DEF handleClosing, cancelOperation, SameOrStops, Task
<1>13. CASE ProcessDies \/ Relaunch
  BY <1>13 DEF ProcessDies, Relaunch, Launched
<1>14. CASE navigateToShellPage \/ \E file \in Files : TrimConsent_Click(file)
  BY <1>1, <1>14 DEF navigateToShellPage, TrimConsent_Click, shell
<1>15. CASE CancelOperation_Click
  BY <1>15, Fields DEF CancelOperation_Click, SameOrStops, Task
<1>16. ASSUME \/ RetryAnalysis_Click \/ tryNavigateBack \/ SourcePicker_Click
              \/ ReturnToSourceSelection_Click \/ StartProcessing_Click \/ RetryRecovery_Click
              \/ ExportDiagnostics_Click \/ RetryStartupRecovery_Click
              \/ RestoreRecoverySource_Click
              \/ \E options \in Options : applyProcessingPreferences(options)
       PROVE  FALSE
  BY <1>16 DEF RetryAnalysis_Click, tryNavigateBack, SourcePicker_Click,
     ReturnToSourceSelection_Click, StartProcessing_Click, RetryRecovery_Click,
     ExportDiagnostics_Click, RetryStartupRecovery_Click, RestoreRecoverySource_Click,
     applyProcessingPreferences, IdleWithModel, CanPickSourceFolder, CanRetryRecovery,
     CanExportDiagnostics
<1>17. CASE UNCHANGED vars
  BY <1>1, <1>17 DEF vars, shell
<1> QED
  BY <1>2, <1>3, <1>4, <1>5, <1>6, <1>7, <1>8, <1>9, <1>10, <1>11, <1>12, <1>13, <1>14, <1>15,
     <1>16, <1>17 DEF Next, PickerEnds, Work

-----------------------------------------------------------------------------
\* Whatever was cancelled, closed, released or killed, a batch with an
\* incomplete transaction has its access-list entry
\* (retainSelectedSourceForTransaction, releaseReconciledSourceAccess).
THEOREM IncompleteBatchesKeepEntries == Spec => []IncompleteBatchKeepsEntry
<1>1. WInv => IncompleteBatchKeepsEntry
  BY DEF WInv, EntryInv
<1> QED
  BY <1>1, WindowInvariant, PTL

\* No progress callback is left over or overwrites the final one
\* (applyProgress and the continuations behind it in the dispatcher queue).
THEOREM ProgressIsSettled == Spec => []ProgressSettles
<1>1. WInv => ProgressSettles
  BY DEF WInv, PendingInv
<1> QED
  BY <1>1, WindowInvariant, PTL

\* A requested check is not stranded on an idle workflow page
\* (automaticAnalysisPending_).
THEOREM ChecksAreNotStranded == Spec => []CheckNotStranded
<1>1. WInv => CheckNotStranded
  BY DEF WInv, PendingInv
<1> QED
  BY <1>1, WindowInvariant, PTL

\* A batch starts only in its turn, with what was reviewed under the settings
\* the user sees and under an unused identity, and nothing begins after a close
\* request (StartProcessing_Click, CanPickSourceFolder, closeRequested).
THEOREM BatchesStartInTurn == Spec => NothingStartsOutOfTurn
<1>1. ASSUME WInv, [Next]_vars, executions' # executions
      PROVE  /\ \A b \in Batches : journal[b] # "open"
             /\ model.review.options = controls /\ model.options = controls
             /\ removable => \A b \in Batches : executions'[b] <= 1
  <2>1. StartProcessing_Click
    BY <1>1, OnlyTheClickExecutes
  <2>2. /\ model.state = "Review" /\ ~picker /\ ~operation /\ removable' = removable
    BY <2>1 DEF StartProcessing_Click, IdleWithModel, CanBeginProcessing
  <2>3. task.handler = "none" /\ Ready
    BY <1>1, <2>2, NoGateNoHandler DEF WInv, StartupInv
  <2>4. \A b \in Batches : journal[b] # "open"
    BY <1>1, <2>2, <2>3 DEF WInv, EntryInv
  <2>5. model.review.options = controls /\ model.options = controls
    BY <1>1, <2>2, <2>3 DEF WInv, TurnInv
  <2>6. TurnInv'
    BY <1>1, <2>1, StartProcessing_Click_Keeps DEF WInv
  <2>7. removable => \A b \in Batches : executions'[b] <= 1
    BY <2>2, <2>6 DEF TurnInv
  <2> QED
    BY <2>4, <2>5, <2>7
<1>2. ASSUME WInv, [Next]_vars, closing /\ closing' /\ task'.step \in {"work", "export"}
      PROVE  task'.handler = task.handler /\ task.step = task'.step
  BY <1>2, NothingBeginsWhileClosing DEF SameOrStops
<1>3. WInv /\ [Next]_vars =>
        [/\ executions' # executions =>
              /\ \A b \in Batches : journal[b] # "open"
              /\ model.review.options = controls /\ model.options = controls
              /\ removable => \A b \in Batches : executions'[b] <= 1
         /\ (closing /\ closing' /\ task'.step \in {"work", "export"}) =>
              task'.handler = task.handler /\ task.step = task'.step]_vars
  BY <1>1, <1>2
<1> QED
  BY <1>3, WindowInvariant, PTL DEF Spec, NothingStartsOutOfTurn
=============================================================================
