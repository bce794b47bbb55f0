# A TLA+ model of JPG Spinner

JPG Spinner finds JPEG photographs whose EXIF orientation is not 1, rotates their coefficients
losslessly, and saves the result as a corrected copy or over the original, with or without a verified
backup. The hard part is not the rotation: it is that a user's only copy of a photograph is replaced by
a program that may be stopped, may crash, may lose a native call half way, may run beside a second
instance of itself, and shares the folder with the user's other programs. The project models that part
in most detail (the image-file transaction with its journal and recovery, and the coordinator that runs
many transactions at once) and, around it, startup recovery, discovery and capture of the sources, the
scanner, the metadata and transformation pipeline, the application window and the diagnostic log.

Line numbers below refer to `src/src/`. `RT` is
`JpgSpinner.WindowsStorage/src/internal/RecoverableImageFileTransaction.cpp`, `J` is
`.../internal/ImageFileTransactionJournal.cpp`, `BC` is
`JpgSpinner.BatchProcessing/src/BatchProcessingCoordinator.cpp`.

## 1. The system

| Component | State it keeps | Operations | Hard behaviour | What makes it correct |
|---|---|---|---|---|
| Journal (`J`, 452 lines) | numbered generation files and pending files of one folder | `publish`, `readLatest`, `readChain` | failed and interrupted publication, damaged newest file, the 32-file limit | a published generation is never rewritten, a chain only extends by legal transitions, nothing follows a terminal record |
| Image-file transaction (`RT`, 951 lines; `FileTransactionOperations.h`) | stage, backup, destination, journal, owned stage, phase | `execute`, `recoverIncompleteTransactions` | crash between any two effects, a move that fails after taking effect, a stop, user edits, a second instance | the journal and the reported outcome are true of the user's files; no last copy is deleted; nothing stays open in silence |
| Storage item proof, journal-store lease (`StorageItemProof.cpp`) | open handles, file identities | inspect, `acquireJournalStoreLease` | a handle that outlives the name it was opened by | one process at a time works on a store |
| Batch coordinator (`BC`, 556 lines) | rows, counters, reservations, two mutexes, stop source, worker pool | `analyze`, `execute` | lost wakeups, exceptions that unwind a worker, a save that becomes uncertain while others wait | no save begins after a conflict; rows and counters are right; memory is admitted within budget; `execute` returns |
| Transaction engine, transaction batch | the batch's folders and their identities, `executionMutex_` | `execute`, `recover…` | folders created by the first of several transactions | what the interface promises: one commit at most, a truthful result, a final decision |
| Startup recovery, recovery catalog, access list | requirements, granted roots, entries of the access list | `recover`, `inspectRecoveryRequirements`, retain, release | the catalog is paged without a lease and stale when recovery runs; a root that cannot be opened | success means that everything found open is reconciled; nothing is touched until every root is granted; an open transaction keeps its grant |
| Source collection, direct-child lease, source capture | pending folders, issues, bounded reads | discover, capture, commit | cancellation in mid-discovery, files that change while read | discovery is complete or says that it is not |
| Domain: EXIF orientation, transform planner | none | pure functions | MCU boundaries, integer widths | the plan undoes the orientation, discards no more than it must and refuses only what is impossible |
| JPEG segment scanner | cursor, markers, ranges, limits | `scan` | stuffing, fill, restart markers, a cursor that moves back, chunks in any order | every byte is read as one thing; envelopes are accepted exactly when they are whole |
| Reconciler, transformer, validator, engine | metadata, codec output, execution state | analyze, reconcile, transform, validate | a source that changed since review, a stop during the codec call, a codec or writer that errs | what is published shows the same picture upright, with true metadata, and loses only what was reviewed |
| View models, composition, shell | workflow state, review, progress, gates, close request, retained folder | the window's event handlers and their continuations | callbacks that arrive after a state was left, closing during work, death of the process | only the approved review is executed, once; nothing starts on unreconciled work; the window closes |
| Diagnostic log | one-record files, pending slot, lease | append, snapshot | retention limits, crashes between prune, write and rename, two log objects | bounded, keeps the latest, never refuses its own files |

Calls go downwards: the shell starts `analyze` and `execute` of the coordinator on a background thread;
each coordinator worker calls `capture`, the transformation engine and `commit` of its source; `commit`
reaches the transaction engine and `RecoverableImageFileTransaction::execute`. Startup recovery calls
`recoverIncompleteTransactions` for each granted root before the user may start a batch. The two
instances of a program share nothing but the file system: the journal store, its lease and the images.

## 2. Modules

| Module | Models | Composes |
|---|---|---|
| `ImageFileTransactionJournal` | record and successor rules, `readChain`, the precondition of `publish` | |
| `RecoverableImageFileTransaction` | one transaction: `execute`, any number of recovery runs, crashes, the user | extends the journal |
| `ImageFileTransactionEngine` | the abstract specification of the interface: what its callers may rely on | implemented by the transaction |
| `TransactionInvariant`, `TransactionProofs` | the inductive invariants, the truth of journal and outcome, the contract, the artifacts and the crashes | extend the transaction |
| `BatchProcessingCoordinator` | `execute` of the coordinator: caller, workers, stop | uses the outcomes of a transaction |
| `WindowsStorageStartupRecovery` | access list, catalog, matching, recovery of each root, a second instance | uses the outcomes of recovery |
| `WindowsStorageImageSourceCollection` | `discover`, the coordinator's `analyze`, capture and commit of a candidate, other programs | uses a capture as one step |
| `SourceFileCapture` | one capture, native call by native call | |
| `JpegSegmentScanner` | `scan` | |
| `JpegTransformPlanner` | `ExifOrientation`, the plan, and their reference definitions | |
| `MetadataReconciler` | which metadata are kept, rewritten, dropped or refused | extends the planner |
| `LibJpegTurboTransformationEngine` | analysis at review, `createValidatedOutput`, the validator | extends the reconciler |
| `MainWindow` | the shell's handlers, `MainWindowViewModel`, close, retention, startup | uses a batch as its journal state |
| `LocalDiagnosticLog` | the diagnostic log | |
| `BatchInvariant`, `BatchProofs` | the coordinator's inductive invariant and theorems | extend the coordinator |
| `SourceProofs` | inductive invariants and theorems | extends the capture and the source collection |
| `StartupProofs`, `MainWindowProofs`, `DiagnosticLogProofs`, `ScannerProofs`, `EngineProofs` | inductive invariants and theorems | extend one component each |
| `MC…` | roots of the TLC runs and the instances they use | extend one component each |

### The journal

A generation is `Absent`, `Damaged` or a record of `generation`, `state` and `hasBackup`. All other fields of
`ImageFileTransactionJournalRecord` are copied unchanged from record to record and checked by
`validateSuccessor`; in one transaction they are constants, so the model keeps none of them. JSON, predecessor
hashes and identity checks are abstracted to whether a file still reads as the record that was published.
`ReadsChain(d, gens, p, n)` is `readChain`: the folder holds at most `MaximumJournalFiles` files, published
generations are a gapless readable prefix of length `n`. A next generation that is damaged, or whose read fails
this once (`J:366-372`), ends the chain without an error, so the same folder can be read as a shorter chain now
and as the whole one later. A publication writes a pending file and renames it; it can fail without a trace,
leave the pending file, or report failure after the rename, and a crash inside it can leave the pending file.

### The transaction

One action per native effect or observation, in the order of the code; the program point is `xpc` for
`execute` and `rpc` for recovery.

* *Files* are four slots (original, stage, corrected copy, backup) with an identity (`FILE_ID_INFO`),
  contents (`Reviewed`, `Output`, `Partial`, `Other`) and a last-modified stamp. The reviewed and the
  transformed bytes differ, so the guard at `RT:796` is unreachable here.
* *execute* runs `Preflight` … `PublishCleaned`. `XCatch` is the unwinding to the handlers
  (`RT:584-625`), `XCleanup` the call of `cleanupAndAbandon` in the body. `phase` keeps the three values
  that the code tests. Cleanup is `CheckOriginal` (`RT:154-170`), `RemoveStage` (`OwnedStage::remove`),
  `Abandon` (`RT:172-185`); when it throws in the body it starts again in the handlers, when it throws
  there the outcome is `RecoveryConflict`.
* *Commit calls* (`CommitReplacement`, `CommitCopy`) may succeed, fail without effect, or fail after
  taking effect; a replacement may also fail after the original was removed (`OriginalLost`).
* *Recovery* is `StartRecovery` … `RecordCleaned`. What it observes of the original it observes in two
  steps, the identity when the file is opened and the bytes when they are hashed, and the user may act
  in between. The stage and the corrected copy are observed in one step (`Decide`).
* *The environment*: crashes at every program point, cancellation at any time, a recovery run whose stop
  token fires, and, where the constants allow it, the user's edits, renames and deletions, other
  programs that change stage or backup, and damage to the newest generation. The proof handles ask for
  attributes only (`StorageItemProof.cpp:68`), so the model lets the user rename a file at any time.
* *History*: `effect` says what happened natively to the user's files and `outputTaken` whether the user
  has since moved the output away. No action reads them.

Left out: containment and reparse checks and the batch's folders (refusals before any effect, and the
early `RecoveryConflict` returns at `RT:238` and `RT:285`, which are reported before any file effect of
the transaction), transactions of other roots in the same store (`RT:709-717` skips them), and the user
putting a file with the original's own identity back after a commit. A capture that is stopped counts as
unavailable. The second `readLatest` at `RT:529` is merged with the one at `RT:545`: nothing lies
between them.

### The contract of the interface

`ImageFileTransactionEngine` says what the interface of that name promises about one transaction without
stage, backup, journal or lease: `execute` runs once and changes the user's files at most once; success
means that the change was made and recorded, an ordinary failure that nothing was changed; whatever is
recorded is true and final; recovery decides nothing while `execute` runs and changes no file. The
mapping `Contract` at the end of `RecoverableImageFileTransaction` takes `state` from the program point of
`execute`, `verdict` from the closing record, and `effect` and `outcome` from the variables that hold
them. `ImplementsEngine` is the abstract specification under that mapping.

### The coordinator

Steps are the critical sections of `stateMutex` and the calls between them; `commitMutex` is
`commitOwner`. A condition-variable wait is `Admit` (evaluate the predicate), `Asleep`, and a wake-up by
`notify_all`, by the stop callback or for no reason. Budgets are what `workingMemoryBudgetProvider_`
may answer at each evaluation. An error is one of the classes `recordError` tells apart, the three
success outcomes are `Saved`. The single-worker loop is the pool's loop with one worker that needs no
start-up. A save has the outcomes that the transaction module justifies (`OutcomeIsTrue`): success with
effect, an ordinary failure without, `RecoveryConflict` with or without; an exception that is not
`bad_alloc` may escape a capture, a transformation or a save. The progress observer (`BC:464`), the memory
estimate and the budget provider (`BC:349`) are assumed not to throw; no property says anything about what
follows if they do. A batch enters as any mixture of files with an analysis
error, without a needed transform, or with a plan and its charge; `analyze` is part of the source
collection's module.

### Startup recovery

The first reading of the catalog, the matching of roots with restored grants, `recoverIncompleteTransactions`
of each root under the lease and the second reading are steps; pages are taken from the listing as it is at
that moment, so an instance that creates or closes folders in between moves it. Recovery of one
transaction closes it or is in conflict. The other instance retains its folder, opens a transaction,
closes it and releases the folder; either process may die at every step. Assumed: each batch has its own
entry in the access list (`SourceFolderAccessRetention.h`), which is what the code's tokens give it.

### Sources

`WindowsStorageImageSourceCollection` keeps a small volume: items with an identity and a place. A Storage
object is a path that every call resolves again and through junctions; a proof is the identity and the
canonical path at the moment its handle was opened; a junction whose target is deleted cannot be opened.
Other programs relocate items (also under names that were just checked) and edit files. `ProofHandlesPin`
says whether an open proof handle keeps its item where it is, which depends on the file system and the
sharing mode; `OnlySelectedFoldersListed` and `CommitsOnlyTheReviewed` are stated where it does.

A file is read and saved by its path, and each of these is several steps between which other programs act.
Capture takes a proof, compares it with what discovery saw (`InspectSource`) and reads whatever the path then
names (`CaptureSource`). Commit takes a proof, compares it and releases it, because it denies rename
(`InspectForCommit`); the engine opens the file again, compares the identity that it was handed and the folders
above it, and keeps its own proof (`OpenSource`, `RT:235-259`); after the staged output is verified it reads
whatever the path names and compares the revision, which carries no identity (`RevalidateSource`,
`RT:419-433`). `CommitsOnlyTheReviewed` relates the file that was changed, by identity, to the one the row
stands for, to the content that was analysed and to the place the review shows. No step compares all of these:
it takes the folders that the review retains, the proofs kept over the two reads and the identity passed
across the gap. The commit call itself, with all that can happen to it, is the transaction module's.

`strayed` records every folder that was listed outside the selected one, or in an application-owned one inside
it; `disturbed` the folders whose entries changed and those that moved or were deleted with their tree: what
discovery must not leave out is stated for the others. `SourceFileCapture` is the one step "capture" seen from
near: `AllowOnlyReaders` either excludes writers (then stamps may repeat) or does not (then a change moves the
stamp). SHA-256 is taken to be injective, so the digest is the sequence of bytes.

### From bytes to an output

`JpegSegmentScanner` reads a file byte by byte, a byte being `FF`, `00`, a marker code or any other; bytes are
chosen when the scan first reads them, so a run covers every file over the scenario's alphabet. Offsets and
lengths are the real ones, and payload bytes are what an embedded thumbnail could have. The order that
`std::ranges::sort` leaves equal chunks in is not determined, and in the model it is any.
`JpegTransformPlanner` has the plan as the code computes it and, beside it, what the eight orientations mean as
maps of positions. `MetadataReconciler` sees a segment as the record of the facts the code tells apart (the two
width and the two height keys of Exif and XMP are one each; a motion photo's container walk is its verdict).
`LibJpegTurboTransformationEngine` runs one photo from the review to the validated output. libjpeg-turbo is
trusted with the pixel operation itself and with nothing else. Its output may come to any of `CodecLengths` up
to the codec's own bound, with or without a hint segment, and the call fails where that exceeds the buffer,
which may not grow (`Overlong`). Where a scenario lets native code misbehave, it may return another image,
other tables, other metadata or fail, and a digest or an allocation may fail too.

### The window

`MainWindow` has one action per event handler and one per continuation after an await. A handler's gates
(`pickerActive_`, `operationEventActive_`, `startupRecoveryPending_`, the close admission) are variables,
progress callbacks go through the first-in-first-out dispatcher queue, and the process may die and be
launched again while journals, access list and preferences survive. `removable` says whether entries of
the access list can be removed in this behaviour.

### The diagnostic log

Callers serialise on their object's mutex, objects on the native lease. Inspect, prune, write and publish
are separate steps and the process may die between any two.

## 3. What is checked

Every run checks all three dispositions (or all mixtures of plans), and every property has a mutant, a
plausible slip in the named definition with which the same run fails. A property that is a conjunction
(`PublishedIsTrue`, `InventoryIsExact`, `EnvelopesAreWhole`, …) has its parts named or commented where it is
defined. Every module states the types of its variables as `TypeOK`; the one in a run is the transaction's,
on which its proofs rest; it is checked where processes crash without end, and proved for every instance.

| Run | Question | Distinct states |
|---|---|---|
| `transaction_hostile` | With crashes, failing calls, user edits, tampering and journal damage together: is what the journal records and what `execute` and recovery report true, and does a settled outcome mean a closed transaction? | 2.3 million |
| `transaction_user` | With an ordinary user: is a valid artifact always left, is the stage of a live execution safe from a second instance, do edits survive, does a stop prevent the commit, and does the whole implement the interface's contract? | 394 thousand |
| `transaction_recovers` | If processes crash, again and again: when does recovery give up, does the journal folder stay bounded, and is an open transaction closed or reported in the end? | 3 thousand |
| `batch` | Two workers, up to three files, oversized images, stops, exceptions, uncertain saves and failing start-up: are memory, rows and counters right, does a save begin after an uncertain one, does `execute` return with nothing held? | 2.4 million |
| `startup_recovery` | Beside a second instance, with deaths and unreachable folders: does success mean that all is reconciled, and does every open transaction keep a grant? | 5.6 million |
| `source_review` | With other programs at work: is only the selection listed, is nothing omitted in silence, is the review ordered and free of collisions, do the counters add up, is each file analysed by its own bytes and only the reviewed file, unedited and in its place, changed, does the review end? | 1.5 million |
| `capture` | Is a captured digest that of one version of the file, and is no more held than was admitted? | 757 thousand |
| `scanner` | Is every byte of an accepted file read as one thing, are limits exact, are ICC, Extended XMP and JUMBF accepted exactly when they are whole, does the scan advance? | 754 thousand |
| `engine` | Are plans minimal and refusals necessary; is what is published the same picture upright, with true metadata and no loss that was not reviewed; has every refusal a reason; does the memory estimate cover the buffers? | 338 thousand |
| `window` | Is only the approved review executed, once, on reconciled ground and not after a close; does progress settle; is the automatic check never stranded; does the window close? | 1.2 million |
| `window_close_lost` | a disagreement, see below | |
| `diagnostic_log` | Are the limits kept at every instant and the log's own files never refused, and are the latest records retained without a gap? | 605 thousand |

**Bounds.** One transaction: its folder is its own, and recovery treats folders independently, keeping only the
first conflict. Recovery runs are unbounded. `MaximumJournalFiles` is 7: six generations and one pending file,
so the limit is reached by every history that leaves pending files. The generation bound of six is the code's.
The coordinator has two workers and up to three files, so that one can wait for memory, one can hold the commit
section and a file can be left for later; charges 1 and 3 against budgets 1 and 2 give an image that fits
beside another, one that does not, and one that never fits. Startup has three transactions of two roots in
pages of two, so that a page boundary falls inside the listing. The source scenarios are a tree with owned
folders and a junction, one flat folder with swaps where nothing is pinned, the same where handles pin and with
an edit, and a junction that leads back; two relocations are enough to hand a name from one item to another and
back. A capture reads up to three bytes through a buffer of two, while others change the file twice. The
scanner's scenarios are framing (files that end anywhere, around the length limit), the order of segments
around the metadata limit, frame and scan headers, more scans than a progressive image may have, and two or
three chunks of each envelope. The engine has every size up to 9 by 9 with blocks of two samples and every
orientation, every mixture of metadata of one photo, codec outputs of five lengths that fall on both sides of
the limits, and one photo of each kind with misbehaving native code, changing sources and stops. The window has
one row, two sets of options, two batches, two launches, two executions per batch and one waiting callback. The
log keeps two records of three bytes in all, three callers, two objects and four publications.

**Fairness.** `transaction_recovers`: weak fairness of the two procedures, because their threads keep
running and the application starts recovery whenever it starts; strong fairness of each recovery action,
which says that the process does not die at the same step of every run. Nothing is assumed of crashes. The
property allows the run to end in a report (`Conflict`, `Cancelled`). `batch`: weak fairness of the caller
and of each worker; none of spurious wake-ups, so a lost notification would be found, and none of the
user's stop. `source_review`: weak fairness of the one thread that works; other programs change things a
bounded number of times. `window`: weak fairness of the UI thread's ready work and of the
end of workers (by `ExecuteReturns`, `ReviewEnds`), and of a picker only once a close was requested, since
the shell then cancels it; nothing is assumed of the user.

**Deadlock** is checked except in `window` and `scanner`, where a closed window and a finished scan are the
end. Symmetry is used for the two interchangeable callers of one log object only.

### Findings

`window_close_lost`. `handleClosing` cancels `activeOperation_`. At startup that is `recoverStartupAsync`
itself, a cancelled C++/WinRT action throws at its next `co_await`, and the one at `MainWindow.xaml.cpp:775`
is outside the `try`: `startupRecoveryPending_` stays set, and every later close is refused. `CloseSettles`
shows that the window does close in every other case.

Other differences between the documents and the code, met while modelling and visible as exceptions that
the properties name:

* A corrected copy is cancelled after its stage was verified: the stage is removed (`RT:171`) before the
  closing record is published (`RT:185`). A crash in between is a conflict at every later start (`RT:865`),
  although the design's recovery table
  (`docs/specs/2026-08-30-jpg-spinner-modernization-design.md:490`) lets an unchanged original finish. It is
  the second case of `CrashesAreExplained`.
* `readChain` refuses more than 32 files (`J:325`), pending files count, and `publish` only looks before it
  adds its own: a closing record can be the 33rd file, and the next start cannot read what was closed
  (comment at `RT:701`). `TypeOK` bounds the pending files accordingly.
* `docs/architecture.md:49` calls execution sequential; `BC:466` starts as many workers as the limits allow.
  Only the saves are serialized.
* When the access-list entry of a finished batch cannot be removed, its identity can be executed again;
  `NothingStartsOutOfTurn` says so for removable entries only. `RestoreRecoverySource` may start recovery after
  a close request; the same property is about batches and exports.
* Without pinning handles a folder outside the selection can be listed; see `ProofHandlesPin`.
* Restart intervals pass the analysis and are refused later, against the promise in `JpegImageAnalyzer.h:11`;
  `RefusalsAreExplained` names the six refusals that review does not foresee.
* A stale dimension in Extended XMP survives when nothing is transformed, against the design's list.
* `validateAndOrderExtendedXmpChunks` promises to reject duplicate offsets (`JpegSegmentScanner.cpp:555`); a
  chunk without data may share one, and whether it is accepted depends on the order the sort leaves.
  `XmpIsOnePacket` says that a whole packet is refused only with such a chunk.
* `docs/architecture.md` says that "Replacement requires a retained, independently hashed backup" while
  `ReplaceOriginalWithoutRetainedBackup` exists, and the design has a replacement stage beside the original
  while the code stages it in the batch's output folder.

## 4. What is proved

Every theorem is about the module's `Spec` and holds for every value of its constants that satisfies the
module's named assumptions: limits and bounds are natural numbers (positive where the code's constructor
says so), sets of options and switches are what they should be subsets of. 34 of the 36 safety properties
that passing runs check are proved.

| Module | Theorem | Property, or statement |
|---|---|---|
| `TransactionProofs` | `InductiveInvariant` | `[]IInv` |
| | `TypeCorrectness` | `TypeOK`; generations never exceed six, pending files never exceed the limit by more than one |
| | `AbandonmentTruth`, `CommitRecordTruth`, `OutcomeTruth` | `AbandonmentIsTrue`, `CommitRecordIsTrue`, `OutcomeIsTrue` |
| | `ExecutionExcludesRecovery` | `execute` and recovery are never active at once |
| | `SettledTransactionsAreClosed` | `SettledMeansClosed` |
| | `EngineRefinement` | `ImplementsEngine`, where the journal is not damaged |
| | `ArtifactsRetained`, `StageOfExecutionStays` | `ArtifactRetained`, `StageBelongsToExecution` |
| | `EditsInTimeSurvive`, `StopsInTimePrevent` | `EditBeforeLastCheckSurvives`, `CancellationPreventsCommit` |
| | `CrashesExplained` | `CrashesAreExplained`, where processes only crash |
| `BatchProofs` | `MemoryStaysWithinBudget`, `ConflictsEndSaves` | `MemoryWithinBudget`, `NoSaveAfterConflict` |
| | `RowsTellTheTruth`, `SummariesAreComplete` | `RowsMatchCommits`, `SummaryIsComplete` |
| `StartupProofs` | `GrantsOutliveProcesses`, `GrantsPrecedeEffects` | `OpenTransactionKeepsAGrant`, `NoEffectBeforeEveryGrant` |
| | `SuccessIsReconciled` | `SuccessMeansReconciled` |
| `SourceProofs` | `CapturesAreOneVersion` | `CaptureIsOneVersion` |
| | `SelectionHolds`, `CommitsAreReviewed` | `OnlySelectedFoldersListed`, `CommitsOnlyTheReviewed` |
| | `ReviewsAreExact` | `ReviewIsExact` |
| `MainWindowProofs` | `IncompleteBatchesKeepEntries`, `ProgressIsSettled`, `ChecksAreNotStranded` | `IncompleteBatchKeepsEntry`, `ProgressSettles`, `CheckNotStranded` |
| | `BatchesStartInTurn` | `NothingStartsOutOfTurn` |
| `DiagnosticLogProofs` | `FoldersStayUsable`, `LatestAreRetained` | `FolderStaysUsable`, `RetainsTheLatest` |
| `ScannerProofs` | `ScanInvariant` | the inductive invariant of the scan |
| | `InventoryExact`, `ScanMakesProgress` | `InventoryIsExact`, `ScanAdvances` |
| | `ScanStaysInBounds` | the scanner's `TypeOK`: cursor, inventory and counters stay within the file and the limits |
| `EngineProofs` | `PlansAreBest` | `PlanIsBest` |
| | `LossesReviewed`, `PublishedTrue` | `LossesWereReviewed`, `PublishedIsTrue` |
| | `RefusalsExplained` | `RefusalsAreExplained` |

All proofs have the same form: an inductive invariant made of named parts, a lemma per action (or per
shape of actions) with a step per part it can disturb, and the property from the invariant. TLC checked
each invariant on the run's instance before it was proved.

**Transaction.** None of the three truths is inductive. Whether "abandoned" is true when it is written depends
on what the process knew several steps earlier, so `IInv` says at each program point what the program may rely
on. Its parts are `LeaseInv` (who holds the lease is who is at work), `IdentityInv` (which identity can be
under which name: the stage's identity under the original's name means that the commit happened), `EffectInv`
(after the native effect three generations exist for ever, and the original's identity is gone), `StartInv`,
`BodyInv` and `MemoryInv` (how far the journal is at each point of the body), `CleanupInv` (cleanup that
follows a commit call of unknown outcome gets past `CheckOriginal` and `RemoveStage` only if nothing took
effect) and `RecoveryInv` (what recovery read and opened still bounds what can have happened). The interesting
case is a newest generation that is damaged or whose read fails: recovery may then believe a shorter chain, and
only the names of the generations that it did not read, which still exist, keep it from publishing an
abandonment over a commit. That is why the invariant speaks of generations that are not absent rather than of
readable ones.

**Contract and artifacts.** `ClosureInv` adds that an ordinary failure leaves the journal closed or empty;
with `IInv` it gives `SettledMeansClosed` and each step of the refinement (initial states map to initial
states, every step to a step of the contract or a stutter). The refinement is stated without journal
damage, because there "final" is false: damage to the closing generation takes the recorded decision back,
and recovery may then record it again. `RetainedInv` carries the verified stage and backup from their
verification to the commit call; recovery removes a stage only where it saw the original in its place.

**Crashes only.** `CrashesExplained` assumes that nobody edits, tampers with or damages files and that no
native call fails (`CrashesOnly`, on the constants) and shows that recovery then gives up for one of the
reasons the property names. It needs more than `IInv`: that the journal is a readable chain at all times
(`ChainInv`), which files exist and whose they are at every program point of `execute` (`CrashFilesInv`),
which records a death at that point leaves behind (`CrashRecordsInv`), and that recovery, a further death
included, only moves along the same states (`CrashRecoveryInv`). The case left over is the stage that was
removed before the closing record; it is the second disjunct of the property and the first of the
differences above.

**Batch.** `BInv` says which worker has which file (`IndexInv`), which rows are written and why they are
true (`RowInv`), that the counters are cardinalities of sets of rows (`CountInv`), that the worker inside
the commit section owns it and saw no conflict (`CommitInv`), why the batch was stopped and why a worker
exited (`StopInv`, `ExitInv`, `CallerInv`), and where memory is held (`HoldInv`). What is reserved is a
fold over the workers; lemmas at the head of `BatchProofs` show that such a fold changes by the difference
when one summand changes. The library's induction theorems take an operator as a parameter, so each looks at a
smallest subset that would be a counterexample, which exists because strict inclusion is well founded on
the subsets of a finite set.

**Startup.** `SInv` ties the second instance's step, the store, the access list and the lease. For
`SuccessMeansReconciled`, `RInv` says of the second reading that every folder that existed when it began is
closed, required, on the current page or still ahead: its rank among the folders is above the offset. Folders
are added and never removed while a reading goes on, so a rank only grows. `Listing` is the sorted sequence
of the folders by choice, not by `SortSeq`, whose definition the prover cannot use.

**Sources.** For a capture `CInv` says that while the version whose properties were read is still the
latest, every byte read so far is of that version; if it is not, the second reading of the properties finds
another stamp (`StampInv`), or there could be no other because writers were excluded (`ExclusiveInv`).

The theorems about the review rest on lemmas about the tree: the line from the volume to an item, defined by
choice and shown to be what the recursive function computes; how a relocation changes the lines (those of the
tree that moved, and no others); that resolving the path of an attached item leads back to it; that a listing,
sorted by positions, holds every entry once. `Selection` then says that each folder that is listed, or pending,
is below the selected one and in no owned folder, that its record's path leads to it, and that its proof is
among those the record keeps. `HeldInPlace` continues this to the files, while handles pin: a candidate's, and
then a row's, folder is a selected one, is kept, and its path still leads to it; where a proof of the file is
held (`Capture`, `Revalidate`) the file is in its place in that folder, so that the read by path reaches the
file that was compared; hence a revision is of its row's file, and a commit is of that revision. `Phases` says
when there are candidates and commits at all. `ReviewIsExact` has two halves. That nothing is left out is
`Complete`: while the review is not cancelled, each expected image, in folders that nobody disturbed, is found
or explained (`Explained`), or is on the rest of the page or of the listing or below an item that is
(`Underway`), or below a pending folder (`Ahead`); each step of the walk hands the image from one of these to
the next. That the rows are in order and the counters right is `Reviewable`; a candidate's place is the number
of its predecessors, and these numbers are shown to differ and to leave no gap because the order on paths is
total and strict.

**Window.** What a handler relies on after an await is spread over a dozen members. `WInv` says which
handlers can be waiting for what in which state of the view model (`AwaitInv`), that the gates are up
exactly then (`GateInv`), what startup allows (`StartupInv`), that the dispatcher queue holds progress of the
awaiting handler followed by its one result (`QueueInv`), which transactions can be open and that their
entries are kept (`EntryInv`), and that what is reviewed is what the controls show and has not been executed
(`TurnInv`). It is proved for queues of any length, while the run has one waiting callback.

**Diagnostic log.** `DInv` says that the lease is held by exactly the caller that relies on it, that a caller
past the inspection knows a number above all published ones and a caller past the pruning has room under
both limits, and that a pending slot left behind by a failure or a death has the place of the record it was
meant for, so that the file count never exceeds what `inspectRecords` accepts.

**Scanner.** `CursorInv` bounds the cursor at every point of the loop, where it may have moved back;
`CoverInv` says that the extents recorded so far are disjoint and that with the fill bytes they account for
everything before the position the program point stands for; `OpaqueInv` that entropy-coded ranges hold
stuffed and restart markers only; `OrderInv` that scans follow a frame. The bytes of metadata are a set, and
the running sum is its cardinality, so that no step needs induction over the file. `ScanAdvances` is an
action property: every step that does not end the scan reads a new byte or gets further among those read.

**Engine.** `PlansAreBest` compares `createPlan` with the reference definitions for each of the eight
orientations: which edges of the source become the far edges of the output, which of them end inside a unit,
and that analyzer and codec compute the same unit; `createPlan` tests the product of the sides by a division,
and `ProductFits` says that this is the test meant. `LossesReviewed` and `PublishedTrue` rest on `AnalysisInv`
(what was approved is the analysis of the reviewed image) and `WorkInv`, which has one part per stage of
`createValidatedOutput`: what the second analysis observed, what the reconciled metadata are, what the codec
returned, what the splice made of it, and what the validator's rules have established so far. The loop over the
markers is a fold; its lemmas look at the first marker where the claim would fail. Which segments two sequences
have in common is a matter of positions (`Chosen`, `Place`), so that comparing the kept segments of source and
output is comparing them one by one. `Faithful` is what an accepted comparison shows of one segment, whatever a
faulty writer made of it; that a second review has nothing to do follows because the loop leaves canonical
segments as they are. The assumptions are those on the photos of a scenario: the image is what the decoder can
report (`IsImage`, `IsSegment`).

`RefusalsExplained` is the converse: an image that was approved and did not change, that nobody stopped and on
which nothing misbehaved, is published, or one of the six named refusals applies. So every test that
`createValidatedOutput` and the validator make has to be shown to succeed. `LoopKeeps` says that the loop
writes one segment for every one it keeps; `SegmentAccepted` that the comparison of a segment with what was
written for it finds nothing but a dimension stated twice, by kind (`BindingsWritten`, `OrientationWritten`,
`PacketAccepted`); `SpliceAccepted` that what the splice made of a correct codec's output passes the validator.
`WorkInv` already says what each stage worked on; `ReasonInv` adds what has been refused so far where nothing
misbehaved (restart intervals that change before the codec, an output over the limits out of the codec or after
the splice) and that a finished image is then published or refused for a named reason. `TimingInv` ties the
execution state of a cancelled result to whether the codec was entered.

**Model-checked only.** Liveness and `ENABLED` are out of the prover's reach: `OpenTransactionIsResolved`,
`ExecuteReturns`, `ReviewEnds`, `CloseSettles` and the violated `CloseRequestCloses`. Two safety properties
have no theorem. The scanner's `EnvelopesAreWhole` compares the chunks, collected from the whole file, sorted
and concatenated, with a definition over the file: induction over data, and of a kind that the smallest
counterexample does not shorten. The engine's `EstimateCoversBuffers` depends on how much a rewrite may
enlarge a segment, a number that the run fixes and the code does not state.

## 5. Not modelled, and the plan

Not modelled: build files, packaging, scripts, fuzzing and localization; layout, texts and help pages of
the XAML shell; the numbers and names that `BatchExecutionLimits` and `BatchIdentifier` compute; the
encodings of libjpeg-turbo, Exiv2 and the XMP toolkit, whose results the validator checks; containment and
file-system qualification in `StorageItemProof` beyond the fact that they may refuse; the folders that the
transactions of one batch share; the container walk of motion photos; overflow of counters that no file
within the length limit can reach; exceptions of the batch's progress observer and budget provider.

Smaller than the code, and harmless for what is stated:

* `CanBeginProcessing` of the window has no test for an empty backup path (`MainWindowViewModel.cpp:78-81`).
  The model starts batches that the code refuses, never the reverse.
* The buffer capacity 0, which stands for a side beyond `int` or for no bound from the codec
  (`LibJpegTurboTransformationEngine.cpp:20-22`, `:35`, `:97`), does not occur: the sides of a JPEG frame have
  16 bits.
* The identity that marks a JUMBF manifest store is two words (its type and its label) in the scanner's model.
  The 64-byte cap of the prefix that `hasC2paManifestStoreIdentity` looks at and its length and toggle checks
  (`JpegSegmentScanner.cpp:247-315`) are left out; `EnvelopesAreWhole` is about how a box is put together from
  its chunks, and asks only whether the identity was found in them.

Next, in this order:

1. The batch's folders, with several transactions of one batch at once.
2. `EnvelopesAreWhole` of the scanner, from an invariant that ties the chunks collected so far to the file.
