------------------- MODULE RecoverableImageFileTransaction -------------------
(***************************************************************************)
(* One transaction of RecoverableImageFileTransaction.cpp: execute() writes *)
(* a validated JPEG to a stage, optionally keeps a verified backup of the   *)
(* original, and commits the stage over the original or as a corrected      *)
(* copy; recoverIncompleteTransactions() reconciles what a crash or a       *)
(* failed call left behind, from the files and the journal alone.           *)
(*                                                                         *)
(* Any number of recovery runs may follow or overlap the one execution     *)
(* (a second application instance starts one at startup); the journal-     *)
(* store lease is what keeps them apart.  Either may crash between any two *)
(* steps.  Every native call may fail; the commit calls may also fail after *)
(* taking effect, or after removing the original.  The user may edit,      *)
(* replace or delete the files that the program does not hold open.        *)
(***************************************************************************)
EXTENDS ImageFileTransactionJournal

CONSTANTS
    Dispositions,      \* the output dispositions a request may carry
    ExternalBytes,     \* what the user may write to the original
    UserMayInterfere,  \* the user may edit, replace or remove visible files
    ArtifactsTampered, \* stage and backup may be changed by another program
    JournalDamaged     \* the newest generation may become unreadable

Bytes == {"Reviewed", "Output", "Partial", "Other"}

ASSUME DispositionsAssumption == Dispositions \subseteq OutputDisposition
ASSUME ExternalBytesAssumption == ExternalBytes \subseteq Bytes
ASSUME SwitchesAssumption ==
    {UserMayInterfere, ArtifactsTampered, JournalDamaged} \subseteq BOOLEAN

VARIABLES
    \* the file system
    source, stage, destination, backup,
    \* the journal folder of the transaction
    folder, generations, pending,
    \* the exclusive journal-store lease
    lease,
    \* the request and its cancellation token
    disposition, cancelled,
    \* execute(): program point, phase, whether cleanup runs inside the try
    \* body, the OwnedStage, the record in memory, and the outcome
    xpc, phase, inBody, own, xrec, result,
    \* recoverIncompleteTransactions(): program point, the persisted record,
    \* the observed original, and the outcome of the latest run
    rpc, rrec, robs, rresult,
    \* history: the native effect on the user's files, and whether the user
    \* has since taken the output file away
    effect, outputTaken

files == <<source, stage, destination, backup>>
journal == <<folder, generations, pending>>
request == <<disposition, cancelled>>
execution == <<xpc, phase, inBody, own, xrec, result>>
recovery == <<rpc, rrec, robs, rresult>>
history == <<effect, outputTaken>>
vars == <<files, journal, lease, request, execution, recovery, history>>

-----------------------------------------------------------------------------
(* Files.  id is the native FILE_ID_INFO, stamp whether the last-modified   *)
(* time is still the reviewed one.                                         *)

SourceId == "S"
StageId == "T"
BackupId == "B"
ForeignId == "F"

NoFile == [id |-> "None", bytes |-> "Partial", stamp |-> "later"]
FileOf(id, bytes, stamp) == [id |-> id, bytes |-> bytes, stamp |-> stamp]
File == [id    : {SourceId, StageId, BackupId, ForeignId},
         bytes : Bytes,
         stamp : {"reviewed", "later"}]
Slot == File \cup {NoFile}

Original == FileOf(SourceId, "Reviewed", "reviewed")

\* Mutant: the last-modified time is not compared.
HasReviewedBytesOnly(file) == file # NoFile /\ file.bytes = "Reviewed"

\* SourceFileRevision equality: length, last-modified time and SHA-256.
HasReviewedRevision(file) ==
    file # NoFile /\ file.bytes = "Reviewed" /\ file.stamp = "reviewed"

Replacement == disposition # Copy

\* The file at the committed destination path.
Committed == IF Replacement THEN source ELSE destination

-----------------------------------------------------------------------------
(* Program points *)

BodyPoint ==
    {"CreateStage", "CreateJournalFolder", "PublishInitialized", "WriteStage",
     "PublishWritten", "VerifyStage", "PublishVerified", "RecheckSource",
     "CreateBackup", "VerifyBackup", "RecheckAfterBackup", "PublishBackup",
     "ReadIntent", "RecheckBeforeReplacement", "CommitReplacement",
     "CommitCopy", "VerifyCommitted", "PublishCommitted", "PublishCleaned"}
PublishingPoint ==
    {"PublishInitialized", "PublishWritten", "PublishVerified", "PublishBackup",
     "PublishCommitted", "PublishCleaned"}
CleanupPoint == {"CheckOriginal", "RemoveStage", "Abandon"}
ExecuteActive == xpc \in BodyPoint \cup CleanupPoint
RecoveryActive == rpc # "Idle"

OwnedStage == [file : BOOLEAN, identity : BOOLEAN, committed : BOOLEAN]
Observation == [captured : BOOLEAN, transformed : BOOLEAN,
                id : {"None", SourceId, StageId, BackupId, ForeignId}]
NoStage == [file |-> FALSE, identity |-> FALSE, committed |-> FALSE]
NoObservation == [captured |-> FALSE, transformed |-> FALSE, id |-> "None"]

FilesOK ==
    /\ source \in Slot /\ stage \in Slot /\ destination \in Slot /\ backup \in Slot

JournalOK ==
    /\ folder \in BOOLEAN
    /\ generations \in [Generation -> GenerationFile]
    /\ pending \in 0..(MaximumJournalFiles + 1)
    /\ lease \in {"None", "execute", "recovery"}
    /\ disposition \in OutputDisposition
    /\ cancelled \in BOOLEAN

ExecutionOK ==
    /\ xpc \in BodyPoint \cup CleanupPoint \cup {"Idle", "Done", "Crashed"}
    /\ phase \in {"BeforeCommit", "CorrectedCopyCommit", "OriginalReplacement"}
    /\ inBody \in BOOLEAN
    /\ own \in OwnedStage
    /\ xrec \in Record \cup {Absent}
    /\ result \in {"None", "Success", "Refused", "RecoveryConflict"}

RecoveryOK ==
    /\ rpc \in {"Idle", "ReadJournal", "CheckBackup", "ObserveSource", "Decide",
                "VerifyStage", "RemoveStage", "RecordAbandoned",
                "RecordCommitted", "RecordCleaned"}
    /\ rrec \in Record \cup {Absent}
    /\ robs \in Observation
    /\ rresult \in {"None", "Recovered", "Conflict", "Cancelled", "Busy"}

\* The types of the state; pending stays within one of the folder limit.
TypeOK ==
    /\ FilesOK /\ JournalOK /\ ExecutionOK /\ RecoveryOK
    /\ effect \in {"None", "Committed", "OriginalLost"}
    /\ outputTaken \in BOOLEAN

Init ==
    /\ source = Original
    /\ stage = NoFile /\ destination = NoFile /\ backup = NoFile
    /\ folder = FALSE
    /\ generations = [g \in Generation |-> Absent]
    /\ pending = 0
    /\ lease = "None"
    /\ disposition \in Dispositions
    /\ cancelled = FALSE
    /\ xpc = "Idle" /\ phase = "BeforeCommit" /\ inBody = FALSE
    /\ own = NoStage /\ xrec = Absent /\ result = "None"
    /\ rpc = "Idle" /\ rrec = Absent /\ robs = NoObservation
    /\ rresult = "None"
    /\ effect = "None" /\ outputTaken = FALSE

-----------------------------------------------------------------------------
(* Control flow of execute() *)

XGoto(point) == xpc' = point /\ UNCHANGED <<inBody, result, lease>>

\* A throw unwinds to the catch handlers, whose cleanup starts over.
XCatch == xpc' = "CheckOriginal" /\ inBody' = FALSE /\ UNCHANGED <<result, lease>>

\* cleanupAndAbandon() called from the body before a failure is returned.
XCleanup == xpc' = "CheckOriginal" /\ inBody' = TRUE /\ UNCHANGED <<result, lease>>

XReturn(outcome) ==
    /\ xpc' = "Done" /\ result' = outcome /\ lease' = "None"
    /\ UNCHANGED inBody

Appends(record) == generations' = [generations EXCEPT ![record.generation] = record]

Publishable(record) == CanPublish(disposition, generations, pending, record)

\* The successor of the record held in memory.
NextRecord(state) ==
    [generation |-> xrec.generation + 1,
     state      |-> state,
     hasBackup  |-> xrec.hasBackup \/ state = "VerifiedBackupCreated"]

\* journal->publish(record) called by execute().  A failing call leaves no
\* trace, a pending file, or the generation itself.
XPublish(record, Then) ==
    /\ phase' = "BeforeCommit"
    /\ xrec' = record
    /\ \/ /\ Publishable(record)
          /\ Appends(record)
          /\ Then
          /\ UNCHANGED pending
       \/ /\ Publishable(record) /\ NativeCallsFail
          /\ XCatch
          /\ \/ Appends(record) /\ UNCHANGED pending
             \/ pending' = pending + 1 /\ UNCHANGED generations
       \/ /\ ~Publishable(record) \/ NativeCallsFail
          /\ XCatch
          /\ UNCHANGED <<generations, pending>>
    /\ UNCHANGED <<files, folder, request, own, recovery, history>>

-----------------------------------------------------------------------------
(* execute(): admission, stage and journal *)

\* The lease, cancellation and source-identity checks that precede every effect.
Preflight ==
    /\ xpc = "Idle"
    /\ ~cancelled /\ lease = "None" /\ source.id = SourceId
    /\ lease' = "execute"
    /\ xpc' = "CreateStage"
    /\ UNCHANGED <<files, journal, request, phase, inBody, own, xrec, result,
                   recovery, history>>

PreflightRefuses ==
    /\ xpc = "Idle"
    /\ cancelled \/ lease # "None" \/ source.id # SourceId \/ NativeCallsFail
    /\ xpc' = "Done" /\ result' = "Refused"
    /\ UNCHANGED <<files, journal, lease, request, phase, inBody, own, xrec,
                   recovery, history>>

\* A native call or an allocation of the try body throws without effect.
BodyThrows ==
    /\ NativeCallsFail
    /\ xpc \in BodyPoint \ PublishingPoint
    /\ XCatch
    /\ UNCHANGED <<files, journal, request, phase, own, xrec, recovery, history>>

\* The stage is created exclusively under a fresh UUID name and its identity
\* recorded; when only the second step fails the stage exists unidentified.
CreateStage ==
    /\ xpc = "CreateStage"
    /\ stage = NoFile
    /\ stage' = FileOf(StageId, "Partial", "later")
    /\ \/ /\ own' = [file |-> TRUE, identity |-> TRUE, committed |-> FALSE]
          /\ XGoto("CreateJournalFolder")
       \/ /\ NativeCallsFail
          /\ own' = [file |-> TRUE, identity |-> FALSE, committed |-> FALSE]
          /\ XCatch
    /\ UNCHANGED <<source, destination, backup, journal, request, phase, xrec,
                   recovery, history>>

CreateJournalFolder ==
    /\ xpc = "CreateJournalFolder"
    /\ folder' = TRUE
    /\ \/ /\ xrec' = [generation |-> 1, state |-> "TransactionInitialized",
                      hasBackup |-> FALSE]
          /\ XGoto("PublishInitialized")
       \/ NativeCallsFail /\ XCatch /\ UNCHANGED xrec
    /\ UNCHANGED <<files, generations, pending, request, phase, own, recovery,
                   history>>

PublishInitialized ==
    /\ xpc = "PublishInitialized"
    /\ XPublish(xrec, XGoto("WriteStage"))

\* Chunked write, flush and close of the stage.  A stop observed between
\* chunks throws; flush and close may fail after the bytes were written.
WriteStage ==
    /\ xpc = "WriteStage"
    /\ \/ /\ ~cancelled /\ stage # NoFile
          /\ stage' = [stage EXCEPT !.bytes = "Output"]
          /\ XGoto("PublishWritten") \/ (NativeCallsFail /\ XCatch)
       \/ /\ cancelled \/ stage = NoFile
          /\ XCatch
          /\ UNCHANGED stage
    /\ UNCHANGED <<source, destination, backup, journal, request, phase, own,
                   xrec, recovery, history>>

PublishWritten ==
    /\ xpc = "PublishWritten"
    /\ XPublish(NextRecord("StagedOutputWritten"), XGoto("VerifyStage"))

\* The closed stage is reread and hashed.
VerifyStage ==
    /\ xpc = "VerifyStage"
    /\ \/ /\ stage.bytes = "Output" /\ stage # NoFile /\ ~cancelled
          /\ IF stage.id = StageId THEN XGoto("PublishVerified") ELSE XCatch
       \/ /\ stage = NoFile \/ stage.bytes # "Output" \/ cancelled \/ NativeCallsFail
          /\ XCleanup
    /\ UNCHANGED <<files, journal, request, phase, own, xrec, recovery, history>>

PublishVerified ==
    /\ xpc = "PublishVerified"
    /\ XPublish(NextRecord("StagedOutputHashVerified"), XGoto("RecheckSource"))

\* A source revision check: capture under the given token, compare, and clean
\* up in the body when it is unavailable or differs.
RecheckOf(observesCancellation, point, nextPhase) ==
    \/ /\ HasReviewedRevision(source) /\ ~(observesCancellation /\ cancelled)
       /\ XGoto(point)
       /\ phase' = nextPhase
    \/ /\ \/ ~HasReviewedRevision(source) \/ NativeCallsFail
          \/ observesCancellation /\ cancelled
       /\ XCleanup
       /\ UNCHANGED phase

RecheckSource ==
    /\ xpc = "RecheckSource"
    /\ CASE disposition = Copy ->
               RecheckOf(TRUE, "CommitCopy", "CorrectedCopyCommit")
         [] disposition = ReplaceWithBackup ->
               RecheckOf(TRUE, "CreateBackup", "BeforeCommit")
         [] OTHER -> RecheckOf(TRUE, "ReadIntent", "BeforeCommit")
    /\ UNCHANGED <<files, journal, request, own, xrec, recovery, history>>

-----------------------------------------------------------------------------
(* execute(): verified backup *)

\* An exclusively named copy of the original as it is now.  An incomplete or
\* unverified copy is retained.
CreateBackup ==
    /\ xpc = "CreateBackup"
    /\ \/ /\ backup = NoFile /\ source # NoFile
          /\ \/ /\ backup' = FileOf(BackupId, source.bytes, "later")
                /\ XGoto("VerifyBackup")
             \/ /\ NativeCallsFail
                /\ backup' \in {FileOf(BackupId, source.bytes, "later"),
                                FileOf(BackupId, "Partial", "later")}
                /\ XCatch
       \/ /\ backup # NoFile \/ source = NoFile
          /\ XCatch
          /\ UNCHANGED backup
    /\ UNCHANGED <<source, stage, destination, journal, request, phase, own,
                   xrec, recovery, history>>

VerifyBackup ==
    /\ xpc = "VerifyBackup"
    /\ \/ /\ backup # NoFile /\ ~cancelled
          /\ IF backup.id = BackupId /\ backup.bytes = "Reviewed"
             THEN XGoto("RecheckAfterBackup") ELSE XCatch
       \/ /\ backup = NoFile \/ cancelled \/ NativeCallsFail
          /\ XCleanup
    /\ UNCHANGED <<files, journal, request, phase, own, xrec, recovery, history>>

RecheckAfterBackup ==
    /\ xpc = "RecheckAfterBackup"
    /\ RecheckOf(TRUE, "PublishBackup", "BeforeCommit")
    /\ UNCHANGED <<files, journal, request, own, xrec, recovery, history>>

PublishBackup ==
    /\ xpc = "PublishBackup"
    /\ XPublish(NextRecord("VerifiedBackupCreated"), XGoto("ReadIntent"))

-----------------------------------------------------------------------------
(* execute(): commit *)

\* Mutant: cancellation is no longer observed before an unbacked replacement.
ReadIntentIgnoringStop ==
    /\ xpc = "ReadIntent"
    /\ XGoto("RecheckBeforeReplacement")
    /\ UNCHANGED <<files, journal, request, phase, own, xrec, recovery, history>>

\* The persisted record that announces the replacement is reread.  Only the
\* mode without a backup still observes cancellation here.
ReadIntent ==
    /\ xpc = "ReadIntent"
    /\ IF disposition = ReplaceWithoutBackup /\ cancelled
       THEN XCleanup
       ELSE IF \E n \in Generation :
                  /\ ReadsChain(disposition, generations, pending, n)
                  /\ generations[n] = xrec
            THEN XGoto("RecheckBeforeReplacement")
            ELSE XCatch
    /\ UNCHANGED <<files, journal, request, phase, own, xrec, recovery, history>>

\* Last look at the original; the proof handle is then closed.
RecheckBeforeReplacement ==
    /\ xpc = "RecheckBeforeReplacement"
    /\ RecheckOf(FALSE, "CommitReplacement", "OriginalReplacement")
    /\ UNCHANGED <<files, journal, request, own, xrec, recovery, history>>

\* stage.MoveAndReplaceAsync(source).  A failing call may have completed, or
\* have removed the original only; a throw without effect is BodyThrows.
CommitReplacement ==
    /\ xpc = "CommitReplacement"
    /\ \/ /\ stage # NoFile /\ source # NoFile
          /\ source' = stage /\ stage' = NoFile
          /\ effect' = "Committed"
          /\ \/ own' = [own EXCEPT !.committed = TRUE] /\ XGoto("VerifyCommitted")
             \/ NativeCallsFail /\ XCatch /\ UNCHANGED own
       \/ /\ stage # NoFile /\ source # NoFile /\ NativeCallsFail
          /\ source' = NoFile
          /\ effect' = "OriginalLost"
          /\ XCatch
          /\ UNCHANGED <<stage, own>>
       \/ /\ stage = NoFile \/ source = NoFile
          /\ XCatch
          /\ UNCHANGED <<source, stage, own, effect>>
    /\ UNCHANGED <<destination, backup, journal, request, phase, xrec, recovery,
                   outputTaken>>

\* Cancellation check, then stage.MoveAsync(..., FailIfExists).
CommitCopy ==
    /\ xpc = "CommitCopy"
    /\ \/ /\ cancelled
          /\ XCleanup
          /\ UNCHANGED <<stage, destination, own, effect>>
       \/ /\ ~cancelled /\ stage # NoFile /\ destination = NoFile
          /\ destination' = stage /\ stage' = NoFile
          /\ effect' = "Committed"
          /\ \/ own' = [own EXCEPT !.committed = TRUE] /\ XGoto("VerifyCommitted")
             \/ NativeCallsFail /\ XCatch /\ UNCHANGED own
       \/ /\ ~cancelled /\ (stage = NoFile \/ destination # NoFile)
          /\ XCatch
          /\ UNCHANGED <<stage, destination, own, effect>>
    /\ UNCHANGED <<source, backup, journal, request, phase, xrec, recovery,
                   outputTaken>>

\* finishCommit(): the committed bytes and identity are observed again.
VerifyCommitted ==
    /\ xpc = "VerifyCommitted"
    /\ \/ /\ Committed # NoFile /\ Committed.id = StageId
          /\ Committed.bytes = "Output"
          /\ XGoto("PublishCommitted")
       \/ /\ \/ Committed = NoFile \/ Committed.id # StageId
             \/ Committed.bytes # "Output" \/ NativeCallsFail
          /\ XReturn("RecoveryConflict")
    /\ UNCHANGED <<files, journal, request, phase, own, xrec, recovery, history>>

PublishCommitted ==
    /\ xpc = "PublishCommitted"
    /\ XPublish(NextRecord("OutputCommitted"), XGoto("PublishCleaned"))

PublishCleaned ==
    /\ xpc = "PublishCleaned"
    /\ XPublish(NextRecord("OwnedStagingArtifactsCleaned"), XReturn("Success"))

-----------------------------------------------------------------------------
(* execute(): cleanupAndAbandon() and the catch handlers *)

\* Mutant: a failing cleanup is swallowed.
CleanupFailureSwallowed == XReturn("Refused")

\* A throw inside cleanup: from the body it reaches the catch handlers, which
\* clean up once more; from the handlers it is reported as a conflict.
CleanupThrows == IF inBody THEN XCatch ELSE XReturn("RecoveryConflict")

\* Mutant: a failed replacement is taken to have left the original alone.
CheckOriginalSkipped ==
    /\ xpc = "CheckOriginal"
    /\ XGoto("RemoveStage")
    /\ UNCHANGED <<files, journal, request, phase, own, xrec, recovery, history>>

\* A failed replacement does not say what became of the original: it is
\* reopened and must be the reviewed revision under its recorded identity.
CheckOriginal ==
    /\ xpc = "CheckOriginal"
    /\ IF phase = "OriginalReplacement" /\ ~own.committed
       THEN \/ source = Original /\ XGoto("RemoveStage")
            \/ (source # Original \/ NativeCallsFail) /\ CleanupThrows
       ELSE XGoto("RemoveStage")
    /\ UNCHANGED <<files, journal, request, phase, own, xrec, recovery, history>>

\* Mutant: a missing stage is always idempotent cleanup.
MissingStageAlwaysAccepted == FALSE

\* Absence of the stage is idempotent cleanup, except in the handlers of a
\* failed commit call, where it may mean that the call completed.
RejectsMissingStage ==
    ~inBody /\ phase \in {"CorrectedCopyCommit", "OriginalReplacement"}

\* OwnedStage::remove(): delete by the inspected handle, after identity proof.
RemoveStage ==
    /\ xpc = "RemoveStage"
    /\ \/ /\ ~own.file \/ own.committed
          /\ XGoto("Abandon")
          /\ UNCHANGED <<stage, own>>
       \/ /\ own.file /\ ~own.committed /\ own.identity /\ stage.id = StageId
          /\ stage' = NoFile
          /\ own' = [own EXCEPT !.file = FALSE]
          /\ XGoto("Abandon")
       \/ /\ own.file /\ ~own.committed /\ stage = NoFile
          /\ ~RejectsMissingStage
          /\ own' = [own EXCEPT !.file = FALSE]
          /\ XGoto("Abandon")
          /\ UNCHANGED stage
       \/ /\ own.file /\ ~own.committed
          /\ \/ stage = NoFile /\ RejectsMissingStage
             \/ stage # NoFile /\ (stage.id # StageId \/ ~own.identity)
             \/ NativeCallsFail
          /\ CleanupThrows
          /\ UNCHANGED <<stage, own>>
    /\ UNCHANGED <<source, destination, backup, journal, request, phase, xrec,
                   recovery, history>>

\* The persisted chain, not the record in memory, is closed.
AbandonedAfter(record) ==
    [record EXCEPT !.generation = @ + 1,
                   !.state = "TransactionAbandonedBeforeCommit"]

CleanupReturns == XReturn(IF own.committed THEN "RecoveryConflict" ELSE "Refused")

Abandon ==
    /\ xpc = "Abandon"
    /\ \/ /\ own.committed \/ xrec = Absent
          /\ CleanupReturns
          /\ UNCHANGED <<generations, pending>>
       \/ /\ ~own.committed /\ xrec # Absent
          /\ \E n \in 0..MaximumGeneration :
                /\ ReadsChain(disposition, generations, pending, n)
                /\ \/ /\ n > 0 => generations[n].state
                                    = "TransactionAbandonedBeforeCommit"
                      /\ CleanupReturns
                      /\ UNCHANGED <<generations, pending>>
                   \/ /\ n > 0 /\ StateIndex[generations[n].state] < 4
                      /\ LET record == AbandonedAfter(generations[n]) IN
                         \/ /\ Publishable(record)
                            /\ Appends(record)
                            /\ UNCHANGED pending
                            /\ CleanupReturns \/ (NativeCallsFail /\ CleanupThrows)
                         \/ /\ Publishable(record) /\ NativeCallsFail
                            /\ pending' = pending + 1
                            /\ CleanupThrows
                            /\ UNCHANGED generations
                         \/ /\ ~Publishable(record)
                            /\ CleanupThrows
                            /\ UNCHANGED <<generations, pending>>
                   \/ /\ n > 0 /\ generations[n].state \in
                           {"OutputCommitted", "OwnedStagingArtifactsCleaned"}
                      /\ CleanupThrows
                      /\ UNCHANGED <<generations, pending>>
       \/ /\ ~own.committed /\ xrec # Absent
          /\ \/ NativeCallsFail
             \/ \A n \in 0..MaximumGeneration :
                   ~ReadsChain(disposition, generations, pending, n)
          /\ CleanupThrows
          /\ UNCHANGED <<generations, pending>>
    /\ UNCHANGED <<files, folder, request, phase, own, xrec, recovery, history>>

ExecuteStep ==
    \/ Preflight \/ PreflightRefuses \/ BodyThrows
    \/ CreateStage \/ CreateJournalFolder \/ PublishInitialized
    \/ WriteStage \/ PublishWritten \/ VerifyStage \/ PublishVerified
    \/ RecheckSource \/ CreateBackup \/ VerifyBackup \/ RecheckAfterBackup
    \/ PublishBackup \/ ReadIntent \/ RecheckBeforeReplacement
    \/ CommitReplacement \/ CommitCopy \/ VerifyCommitted
    \/ PublishCommitted \/ PublishCleaned
    \/ CheckOriginal \/ RemoveStage \/ Abandon

\* A process that dies between the creation of a pending generation and its
\* rename leaves the pending file behind.
LeavesPending(publishing) ==
    \/ UNCHANGED pending
    \/ /\ publishing
       /\ \E n \in 0..MaximumGeneration :
             ReadsChain(disposition, generations, pending, n)
       /\ pending' = pending + 1

\* The process dies; the operating system closes its handles.
ExecuteCrashes ==
    /\ ExecuteActive
    /\ LeavesPending(xpc \in PublishingPoint \cup {"Abandon"})
    /\ xpc' = "Crashed" /\ phase' = "BeforeCommit" /\ inBody' = FALSE
    /\ own' = NoStage /\ xrec' = Absent
    /\ lease' = "None"
    /\ UNCHANGED <<files, folder, generations, request, result, recovery, history>>

-----------------------------------------------------------------------------
(* recoverIncompleteTransactions() *)

RGoto(point) == rpc' = point /\ UNCHANGED <<rresult, lease>>

\* The run ends; its locals and handles go with it.
REnd(outcome) ==
    /\ rpc' = "Idle" /\ rresult' = outcome /\ lease' = "None"
    /\ rrec' = Absent /\ robs' = NoObservation

\* Mutant: recovery does not take the journal-store lease.
StartRecoveryWithoutLease ==
    /\ rpc = "Idle"
    /\ rpc' = "ReadJournal" /\ rresult' = "None"
    /\ UNCHANGED <<files, journal, lease, request, execution, rrec, robs, history>>

StartRecovery ==
    /\ rpc = "Idle"
    /\ \/ /\ lease = "None"
          /\ lease' = "recovery" /\ rpc' = "ReadJournal" /\ rresult' = "None"
       \/ /\ lease # "None"
          /\ rresult' = "Busy"
          /\ UNCHANGED <<lease, rpc>>
    /\ UNCHANGED <<files, journal, request, execution, rrec, robs, history>>

\* Mutant: a folder without a readable record is passed over.
ReadJournalSkippingUnreadable ==
    /\ rpc = "ReadJournal"
    /\ \/ /\ \A n \in Generation : ~ReadsChain(disposition, generations, pending, n)
          /\ REnd("Recovered")
       \/ \E n \in Generation :
             /\ ReadsChain(disposition, generations, pending, n)
             /\ IF Terminal(generations[n].state) THEN REnd("Recovered")
                ELSE IF source = NoFile THEN REnd("Conflict")
                ELSE /\ RGoto("CheckBackup")
                     /\ rrec' = generations[n]
                     /\ robs' = [NoObservation EXCEPT !.id = source.id]
    /\ UNCHANGED <<files, journal, request, execution, history>>

\* The persisted record decides whether there is anything to reconcile; the
\* original is then opened.
ReadJournal ==
    /\ rpc = "ReadJournal"
    /\ \/ /\ ~folder
          /\ REnd("Recovered")
       \/ /\ folder
          /\ \A n \in Generation : ~ReadsChain(disposition, generations, pending, n)
          /\ REnd("Conflict")
       \/ \E n \in Generation :
             /\ folder /\ ReadsChain(disposition, generations, pending, n)
             /\ IF Terminal(generations[n].state) THEN REnd("Recovered")
                ELSE IF source = NoFile THEN REnd("Conflict")
                ELSE /\ RGoto("CheckBackup")
                     /\ rrec' = generations[n]
                     /\ robs' = [NoObservation EXCEPT !.id = source.id]
    /\ UNCHANGED <<files, journal, request, execution, history>>

\* A recorded backup must still be the verified one.
CheckBackup ==
    /\ rpc = "CheckBackup"
    /\ IF rrec.hasBackup =>
            backup # NoFile /\ backup.id = BackupId /\ backup.bytes = "Reviewed"
       THEN RGoto("ObserveSource") /\ UNCHANGED <<rrec, robs>>
       ELSE REnd("Conflict")
    /\ UNCHANGED <<files, journal, request, execution, history>>

\* Recovery compares bytes, not the last-modified time.
ObserveSource ==
    /\ rpc = "ObserveSource"
    /\ IF source = NoFile THEN REnd("Conflict")
       ELSE /\ RGoto("Decide")
            /\ robs' = [robs EXCEPT !.captured = source.bytes = "Reviewed",
                                    !.transformed = source.bytes = "Output"]
            /\ UNCHANGED rrec
    /\ UNCHANGED <<files, journal, request, execution, history>>

SourcePreserved == robs.captured /\ robs.id = SourceId

\* Mutant: an output is recognised by its bytes, not by its identity.
OutputObservedByBytes ==
    IF Replacement THEN robs.transformed ELSE destination # NoFile

OutputObserved ==
    IF Replacement
    THEN /\ robs.transformed /\ robs.id = StageId
         /\ RetainsBackup(disposition) => rrec.hasBackup
    ELSE destination # NoFile

\* Mutant: only an already recorded commit is accepted.
CommitExplainedByRecordOnly ==
    /\ stage = NoFile
    /\ StateIndex[rrec.state] >= 4

\* What an observed output must satisfy before it is recorded as committed.
CommitExplained ==
    /\ ~Replacement => /\ SourcePreserved
                       /\ destination.id = StageId /\ destination.bytes = "Output"
    /\ stage = NoFile
    /\ StateIndex[rrec.state] >= (IF RetainsBackup(disposition) THEN 3 ELSE 2)

\* Mutant: the stage is given up although the original is not preserved.
AbandonExplainedWithoutOriginal ==
    /\ rrec.state \notin {"OutputCommitted", "OwnedStagingArtifactsCleaned"}
    /\ Replacement \/ stage # NoFile

\* What the absence of an output must satisfy before it is abandoned.
AbandonExplained ==
    /\ SourcePreserved
    /\ rrec.state \notin {"OutputCommitted", "OwnedStagingArtifactsCleaned"}
    /\ ~(/\ ~Replacement /\ stage = NoFile
         /\ rrec.state = "StagedOutputHashVerified")

Decide ==
    /\ rpc = "Decide"
    /\ \/ /\ OutputObserved /\ CommitExplained
          /\ RGoto("RecordCommitted") /\ UNCHANGED <<rrec, robs>>
       \/ /\ ~OutputObserved /\ AbandonExplained
          /\ RGoto(IF stage = NoFile THEN "RecordAbandoned" ELSE "VerifyStage")
          /\ UNCHANGED <<rrec, robs>>
       \/ /\ IF OutputObserved THEN ~CommitExplained ELSE ~AbandonExplained
          /\ REnd("Conflict")
    /\ UNCHANGED <<files, journal, request, execution, history>>

\* Bytes count only once the journal says that the stage was written.
RecoveryVerifiesStage ==
    /\ rpc = "VerifyStage"
    /\ IF /\ stage # NoFile /\ stage.id = StageId
          /\ rrec.state # "TransactionInitialized" => stage.bytes = "Output"
       THEN RGoto("RemoveStage") /\ UNCHANGED <<rrec, robs>>
       ELSE REnd("Conflict")
    /\ UNCHANGED <<files, journal, request, execution, history>>

RecoveryRemovesStage ==
    /\ rpc = "RemoveStage"
    /\ \/ /\ stage = NoFile \/ stage.id = StageId
          /\ stage' = NoFile
          /\ RGoto("RecordAbandoned") /\ UNCHANGED <<rrec, robs>>
       \/ /\ stage # NoFile /\ stage.id # StageId
          /\ REnd("Conflict")
          /\ UNCHANGED stage
    /\ UNCHANGED <<source, destination, backup, journal, request, execution,
                   history>>

\* journal.publish(record) called by recovery; every failure is a conflict.
RPublish(record, Then) ==
    /\ \/ Publishable(record) /\ Appends(record) /\ Then /\ UNCHANGED pending
       \/ /\ Publishable(record) /\ NativeCallsFail
          /\ \/ Appends(record) /\ UNCHANGED pending
             \/ pending' = pending + 1 /\ UNCHANGED generations
          /\ REnd("Conflict")
       \/ /\ ~Publishable(record)
          /\ REnd("Conflict")
          /\ UNCHANGED <<generations, pending>>
    /\ UNCHANGED <<files, folder, request, execution, history>>

RecordAbandoned ==
    /\ rpc = "RecordAbandoned"
    /\ RPublish(AbandonedAfter(rrec), REnd("Recovered"))

Successor(record, state) ==
    [record EXCEPT !.generation = @ + 1, !.state = state]

RecordCommitted ==
    /\ rpc = "RecordCommitted"
    /\ IF rrec.state = "OutputCommitted"
       THEN /\ RGoto("RecordCleaned")
            /\ UNCHANGED <<files, journal, request, execution, rrec, robs, history>>
       ELSE LET record == Successor(rrec, "OutputCommitted") IN
            RPublish(record, /\ RGoto("RecordCleaned")
                             /\ rrec' = record /\ UNCHANGED robs)

RecordCleaned ==
    /\ rpc = "RecordCleaned"
    /\ RPublish(Successor(rrec, "OwnedStagingArtifactsCleaned"), REnd("Recovered"))

\* Any other native call of the run throws.
RecoveryThrows ==
    /\ NativeCallsFail /\ RecoveryActive
    /\ REnd("Conflict")
    /\ UNCHANGED <<files, journal, request, execution, history>>

\* Where the run observes its stop token: before the folder, and in the
\* captures of the backup, the original, the copy and the stage.
RecoveryObservesStop ==
    /\ \/ rpc \in {"ReadJournal", "ObserveSource"}
       \/ rpc = "CheckBackup" /\ rrec.hasBackup
       \/ rpc = "Decide" /\ ~Replacement /\ destination # NoFile
       \/ rpc = "VerifyStage" /\ rrec.state # "TransactionInitialized"
    /\ REnd("Cancelled")
    /\ UNCHANGED <<files, journal, request, execution, history>>

RecoveryStep ==
    \/ StartRecovery \/ ReadJournal \/ CheckBackup \/ ObserveSource \/ Decide
    \/ RecoveryVerifiesStage \/ RecoveryRemovesStage \/ RecordAbandoned
    \/ RecordCommitted \/ RecordCleaned \/ RecoveryThrows

RecoveryCrashes ==
    /\ RecoveryActive
    /\ LeavesPending(rpc \in {"RecordAbandoned", "RecordCommitted", "RecordCleaned"})
    /\ REnd("None")
    /\ UNCHANGED <<files, folder, generations, request, execution, history>>

-----------------------------------------------------------------------------
(* The user and other programs *)

Cancel ==
    /\ ~cancelled
    /\ cancelled' = TRUE
    /\ UNCHANGED <<files, journal, lease, disposition, execution, recovery, history>>

\* In place: the file keeps its identity.
UserEditsSource ==
    /\ UserMayInterfere /\ source # NoFile
    /\ \E bytes \in ExternalBytes \cup {source.bytes} :
          source' = [source EXCEPT !.bytes = bytes, !.stamp = "later"]
    /\ UNCHANGED <<stage, destination, backup, journal, lease, request, execution,
                   recovery, history>>

\* By rename, as many editors save, or by deletion.  Both procedures keep a
\* proof handle of the original open, but it asks for attributes only, which
\* Windows exempts from sharing checks (StorageItemProof.cpp:68); the model
\* does not rely on it, and nor may any property.
UserReplacesSource ==
    /\ UserMayInterfere
    /\ source' \in {NoFile} \cup {FileOf(ForeignId, bytes, "later") :
                                   bytes \in ExternalBytes}
    /\ outputTaken' = (outputTaken \/ source.id = StageId)
    /\ UNCHANGED <<stage, destination, backup, journal, lease, request, execution,
                   recovery, effect>>

UserChangesDestination ==
    /\ UserMayInterfere /\ ~Replacement
    /\ destination' \in {NoFile, FileOf(ForeignId, "Other", "later")}
    /\ outputTaken' = (outputTaken \/ destination.id = StageId)
    /\ UNCHANGED <<source, stage, backup, journal, lease, request, execution,
                   recovery, effect>>

\* Removal, a change in place, or a substitute with the expected bytes.
ArtifactTampered ==
    /\ ArtifactsTampered
    /\ \/ /\ stage # NoFile
          /\ stage' \in {NoFile, [stage EXCEPT !.bytes = "Other"],
                         FileOf(ForeignId, "Output", "later")}
          /\ UNCHANGED backup
       \/ /\ backup # NoFile
          /\ backup' \in {NoFile, [backup EXCEPT !.bytes = "Other"],
                          FileOf(ForeignId, "Reviewed", "later")}
          /\ UNCHANGED stage
    /\ UNCHANGED <<source, destination, journal, lease, request, execution,
                   recovery, history>>

GenerationDamaged ==
    /\ JournalDamaged
    /\ \E g \in Generation :
          /\ generations[g] # Absent
          /\ \A later \in Generation : later > g => generations[later] = Absent
          /\ generations' = [generations EXCEPT ![g] = Damaged]
    /\ UNCHANGED <<files, folder, pending, lease, request, execution, recovery,
                   history>>

Environment ==
    \/ ExecuteCrashes \/ RecoveryCrashes \/ RecoveryObservesStop \/ Cancel
    \/ UserEditsSource \/ UserReplacesSource \/ UserChangesDestination
    \/ ArtifactTampered \/ GenerationDamaged

Next == ExecuteStep \/ RecoveryStep \/ Environment

Spec == Init /\ [][Next]_vars

\* The worker thread that runs execute() and the thread that runs recovery
\* keep running, recovery is started again while the application is used, and
\* the process does not die at the same step of every run.
FairSpec ==
    /\ Spec
    /\ WF_vars(ExecuteStep) /\ WF_vars(RecoveryStep)
    /\ SF_vars(ReadJournal) /\ SF_vars(CheckBackup) /\ SF_vars(ObserveSource)
    /\ SF_vars(Decide) /\ SF_vars(RecoveryVerifiesStage)
    /\ SF_vars(RecoveryRemovesStage) /\ SF_vars(RecordAbandoned)
    /\ SF_vars(RecordCommitted) /\ SF_vars(RecordCleaned)

-----------------------------------------------------------------------------
(* Properties *)

Recorded(state) == \E g \in Generation : generations[g].state = state

\* A readable chain that ends in a terminal record.
Closed ==
    \E n \in Generation : /\ ReadablePrefix(disposition, generations, n)
                          /\ Terminal(generations[n].state)

\* ImageFileTransactionState::TransactionAbandonedBeforeCommit says "No native
\* commit occurred and the exact owned stage has been removed"; whoever wrote
\* it, and whatever failed or crashed before, both are true.
AbandonmentIsTrue ==
    Recorded("TransactionAbandonedBeforeCommit") =>
        effect = "None" /\ stage.id # StageId

\* A recorded commit happened, its stage name is gone, and the transaction is
\* not also recorded as abandoned.
CommitRecordIsTrue ==
    Recorded("OutputCommitted") \/ Recorded("OwnedStagingArtifactsCleaned") =>
        /\ effect = "Committed"
        /\ stage.id # StageId
        /\ ~Recorded("TransactionAbandonedBeforeCommit")

\* What execute() reports about the user's files is so: an ordinary failure
\* means that no native commit took effect, success that the commit is also
\* recorded as complete.  Only RecoveryConflict leaves the outcome open.
OutcomeIsTrue ==
    /\ result = "Refused" => effect = "None"
    /\ result = "Success" =>
         /\ effect = "Committed"
         /\ Recorded("OwnedStagingArtifactsCleaned") \/ JournalDamaged

\* Once the original is gone a validated artifact is left: with a retained
\* backup the reviewed bytes, and in every mode the output itself unless the
\* user took it away.  Neither cleanup nor recovery deletes the last copy.
ArtifactRetained ==
    Replacement /\ effect # "None" /\ ~ArtifactsTampered =>
        /\ disposition = ReplaceWithBackup =>
             backup.id = BackupId /\ backup.bytes = "Reviewed"
        /\ outputTaken \/ source.id = StageId
             \/ (stage.id = StageId /\ stage.bytes = "Output")

\* No recovery run, of this or another instance, removes the stage of a live
\* execution: from its creation to the commit the stage is there.
StageBelongsToExecution ==
    xpc \in BodyPoint \ {"CreateStage", "VerifyCommitted", "PublishCommitted",
                         "PublishCleaned"} /\ ~ArtifactsTampered =>
        stage.id = StageId

JournalFiles == Cardinality(PublishedFiles(generations)) + pending

\* In a world where processes crash but nothing else interferes, recovery
\* gives up in three cases only: no generation was ever published, a copy's
\* stage was removed and the closing record was not written, or crashes
\* inside publications have filled the folder.
CrashesAreExplained ==
    rresult = "Conflict" =>
        \/ ~\E g \in Generation : generations[g] \in Record
        \/ disposition = Copy /\ stage = NoFile /\ destination = NoFile
        \/ JournalFiles > MaximumJournalFiles

\* What is reported as settled is settled: an ordinary failure of execute() has
\* removed the owned stage and closed any published chain as abandoned, and a
\* recovery run that reports success leaves no open transaction behind.
SettledMeansClosed ==
    [][/\ (result' # result /\ result' = "Refused") =>
             /\ stage'.id # StageId
             /\ \/ \A g \in Generation : generations'[g] = Absent
                \/ Closed' /\ Recorded("TransactionAbandonedBeforeCommit")'
       /\ (rresult' # rresult /\ rresult' = "Recovered") => ~folder \/ Closed']_<<result, rresult>>

BeforeLastSourceCheck ==
    xpc \in {"Idle"} \cup (BodyPoint \ {"CommitReplacement", "CommitCopy",
                                       "VerifyCommitted", "PublishCommitted",
                                       "PublishCleaned"})

\* An edit of the original that is there before the last source check is
\* never overwritten by the transaction.
EditBeforeLastCheckSurvives ==
    []((source.stamp = "later" /\ BeforeLastSourceCheck /\ Replacement)
          => [](effect = "None"))

BeforeLastStopCheck ==
    \/ xpc \in {"Idle", "CreateStage", "CreateJournalFolder",
                "PublishInitialized", "WriteStage", "PublishWritten",
                "VerifyStage", "PublishVerified", "RecheckSource",
                "CreateBackup", "VerifyBackup", "RecheckAfterBackup", "CommitCopy"}
    \/ xpc = "ReadIntent" /\ disposition = ReplaceWithoutBackup

\* A stop requested before the last check of the token prevents the commit.
CancellationPreventsCommit ==
    []((cancelled /\ BeforeLastStopCheck) => [](effect = "None"))

\* A transaction that a finished or crashed execution left open is closed, or
\* recovery tells the user: it is never passed over in silence for ever.
OpenTransactionIsResolved ==
    (folder /\ ~ExecuteActive)
        ~> (Closed \/ rresult \in {"Conflict", "Cancelled"})

-----------------------------------------------------------------------------
(* The contract of the interface *)

ExecuteState ==
    CASE xpc = "Idle" -> "Waiting" [] xpc = "Done" -> "Returned"
      [] xpc = "Crashed" -> "Crashed" [] OTHER -> "Running"

RecordedVerdict ==
    CASE Recorded("OwnedStagingArtifactsCleaned") -> "Committed"
      [] Recorded("TransactionAbandonedBeforeCommit") -> "Abandoned"
      [] OTHER -> "None"

Contract == INSTANCE ImageFileTransactionEngine
              WITH state <- ExecuteState, outcome <- result, verdict <- RecordedVerdict

\* Stage, backup, journal, lease, cleanup and recovery together implement the
\* interface: one commit at most, a truthful result, a recorded decision that is
\* true and final, and no decision by recovery while execute() runs
\* (RecoverableImageFileTransaction.cpp against ImageFileTransactionEngine.h).
ImplementsEngine == Contract!Spec
=============================================================================
