-------------------------- MODULE TransactionProofs --------------------------
(***************************************************************************)
(* RecoverableImageFileTransaction for every disposition, every folder      *)
(* limit and every mix of interference.  First the inductive invariant,     *)
(* with one lemma per action; then what callers rely on: a settled          *)
(* transaction is closed, execution and recovery implement the interface,   *)
(* the artifacts survive, edits and stops that come in time win, and        *)
(* crashes alone leave nothing that recovery cannot explain.                *)
(***************************************************************************)
EXTENDS TransactionInvariant, FiniteSetTheorems, TLAPS

-----------------------------------------------------------------------------
(* Facts about the operators that the transaction is built from: what a    *)
(* record, a file, an observation and an owned stage are after each change *)
(* that the code makes to them, what readChain returns, and what a call of *)
(* publish does to the journal.                                            *)

\* The enumerators of ImageFileTransactionState, in the order of the header.
LEMMA StateIndexValues ==
    /\ StateIndex["TransactionInitialized"] = 0
    /\ StateIndex["StagedOutputWritten"] = 1
    /\ StateIndex["StagedOutputHashVerified"] = 2
    /\ StateIndex["VerifiedBackupCreated"] = 3
    /\ StateIndex["OutputCommitted"] = 4
    /\ StateIndex["OwnedStagingArtifactsCleaned"] = 5
    /\ StateIndex["TransactionAbandonedBeforeCommit"] = 6
BY DEF StateIndex

\* What readChain returns is a well-formed record under its own name.
LEMMA ReadRecord ==
    ASSUME NEW d, NEW gens, NEW p, NEW n \in Generation,
           ReadsChain(d, gens, p, n)
    PROVE  /\ gens[n] \in Record
           /\ gens[n].generation = n
           /\ ValidRecord(d, gens[n])
<1>1. ReadablePrefix(d, gens, n)
  BY DEF ReadsChain
<1>2. n \in 1..n
  BY DEF Generation
<1>3. n = 1 \/ n > 1
  BY DEF Generation
<1> QED
  BY <1>1, <1>2, <1>3 DEF ReadablePrefix, ValidSuccessor

\* publish() adds a generation whose name was free and whose record is valid.
LEMMA PublishedName ==
    ASSUME NEW record, Publishable(record)
    PROVE  /\ generations[record.generation] = Absent
           /\ ValidRecord(disposition, record)
BY DEF Publishable, CanPublish

\* validateRecord bounds the generation by the state, and only a replacement with
\* a backup records one.
LEMMA ValidGeneration ==
    ASSUME NEW record, record.state \in ImageFileTransactionState,
           record.generation \in Int, disposition \in OutputDisposition,
           ValidRecord(disposition, record)
    PROVE  /\ record.generation \in Generation
           /\ record.state \in {"TransactionInitialized", "StagedOutputWritten"} =>
                record.generation <= 2
           /\ record.state = "VerifiedBackupCreated" => disposition = ReplaceWithBackup
BY StateIndexValues
   DEF ValidRecord, ExpectedGeneration, RetainsBackup, Generation, MaximumGeneration,
       ImageFileTransactionState

\* The published generations can be counted: there are six names.
LEMMA FileCount ==
    ASSUME NEW gens
    PROVE  Cardinality(PublishedFiles(gens)) \in Nat
<1>1. IsFiniteSet(1..6)
  BY FS_Interval, 1 \in Int, 6 \in Int
<1>2. PublishedFiles(gens) \subseteq 1..6
  BY DEF PublishedFiles, Generation, MaximumGeneration
<1> QED
  BY <1>1, <1>2, FS_Subset, FS_CardinalityType

\* A publication that gets as far as its pending file started from a readable
\* folder, so the pending files stay within one of the limit.
LEMMA PendingBound ==
    ASSUME NEW record, Publishable(record), pending \in 0..(MaximumJournalFiles + 1)
    PROVE  pending + 1 \in 0..(MaximumJournalFiles + 1)
BY FileCount, MaximumJournalFilesAssumption DEF Publishable, CanPublish, ReadsChain

\* A crash inside publish() leaves at most one more pending file, and only in a
\* folder that was readable.
LEMMA LeavesPendingBound ==
    ASSUME JournalOK, NEW b, LeavesPending(b)
    PROVE  pending' \in 0..(MaximumJournalFiles + 1)
BY FileCount, MaximumJournalFilesAssumption DEF LeavesPending, ReadsChain, JournalOK

\* The values that execute() gives to its OwnedStage.
LEMMA OwnedStageValues ==
    /\ \A f, i, c \in BOOLEAN : [file |-> f, identity |-> i, committed |-> c] \in OwnedStage
    /\ NoStage \in OwnedStage
BY Zenon DEF OwnedStage, NoStage

\* Clearing the file and setting committed leave the rest of the OwnedStage alone.
LEMMA OwnedStageChanges ==
    ASSUME NEW o \in OwnedStage
    PROVE  /\ [o EXCEPT !.file = FALSE] \in OwnedStage
           /\ [o EXCEPT !.committed = TRUE] \in OwnedStage
           /\ [o EXCEPT !.file = FALSE].file = FALSE
           /\ [o EXCEPT !.file = FALSE].committed = o.committed
           /\ [o EXCEPT !.committed = TRUE].committed = TRUE
           /\ [o EXCEPT !.committed = TRUE].file = o.file
BY DEF OwnedStage

\* A fresh observation of the original, and one that knows its identity.
LEMMA ObservationValues ==
    /\ NoObservation \in Observation
    /\ \A i \in {"None", SourceId, StageId, BackupId, ForeignId} :
          /\ [NoObservation EXCEPT !.id = i] \in Observation
          /\ [NoObservation EXCEPT !.id = i].id = i
<1>1. NoObservation \in Observation
  BY Zenon DEF Observation, NoObservation
<1> QED
  BY <1>1 DEF Observation

\* Hashing the original does not change the identity observed before.
LEMMA ObservationChanges ==
    ASSUME NEW o \in Observation, NEW b \in BOOLEAN, NEW c \in BOOLEAN
    PROVE  /\ [o EXCEPT !.captured = b, !.transformed = c] \in Observation
           /\ [o EXCEPT !.captured = b, !.transformed = c].id = o.id
BY DEF Observation

\* A file that the program or the user creates has the identity it was given.
LEMMA FileValues ==
    ASSUME NEW i \in {SourceId, StageId, BackupId, ForeignId}, NEW b \in Bytes,
           NEW t \in {"reviewed", "later"}
    PROVE  FileOf(i, b, t) \in Slot /\ FileOf(i, b, t).id = i
<1>1. FileOf(i, b, t) \in File
  BY Zenon DEF File, FileOf
<1> QED
  BY <1>1 DEF Slot, FileOf

\* Writing to a file in place keeps its identity.
LEMMA FileChanges ==
    ASSUME NEW file \in Slot, file # NoFile, NEW b \in Bytes
    PROVE  /\ [file EXCEPT !.bytes = b] \in Slot
           /\ [file EXCEPT !.bytes = b].id = file.id
           /\ [file EXCEPT !.bytes = b, !.stamp = "later"] \in Slot
           /\ [file EXCEPT !.bytes = b, !.stamp = "later"].id = file.id
BY DEF Slot, File

\* An empty slot has no identity; every slot has one of the known ones.
LEMMA FileIdentities ==
    /\ NoFile \in Slot /\ NoFile.id = "None"
    /\ \A file \in Slot : file.bytes \in Bytes
    /\ \A file \in Slot : file.id \in {"None", SourceId, StageId, BackupId, ForeignId}
BY DEF Slot, File, NoFile, Bytes

\* The fields of a journal record are independent of each other.
LEMMA RecordValues ==
    ASSUME NEW g \in Generation, NEW s \in ImageFileTransactionState, NEW b \in BOOLEAN
    PROVE  [generation |-> g, state |-> s, hasBackup |-> b] \in Record
BY Zenon DEF Record

\* The first record that execute() builds.
LEMMA FirstRecord ==
    [generation |-> 1, state |-> "TransactionInitialized", hasBackup |-> FALSE] \in Record
<1>1. 1 \in Generation /\ "TransactionInitialized" \in ImageFileTransactionState
  BY DEF Generation, MaximumGeneration, ImageFileTransactionState
<1> QED
  BY <1>1, RecordValues, Zenon

\* The fields of a journal record.
LEMMA RecordFacts ==
    ASSUME NEW record \in Record
    PROVE  /\ record.generation \in Generation
           /\ record.generation \in 1..6
           /\ record.state \in ImageFileTransactionState
           /\ record.hasBackup \in BOOLEAN
           /\ record # Absent
BY DEF Record, Absent, Generation, MaximumGeneration

\* The closing record of an abandoned transaction, when it is valid.
LEMMA AbandonedRecord ==
    ASSUME NEW record \in Record, disposition \in OutputDisposition,
           ValidRecord(disposition, AbandonedAfter(record))
    PROVE  /\ AbandonedAfter(record) \in Record
           /\ AbandonedAfter(record).generation = record.generation + 1
           /\ AbandonedAfter(record).state = "TransactionAbandonedBeforeCommit"
<1>1. /\ AbandonedAfter(record).generation = record.generation + 1
      /\ AbandonedAfter(record).state = "TransactionAbandonedBeforeCommit"
      /\ record.generation + 1 \in Int
  BY RecordFacts DEF AbandonedAfter, Record
<1>2. record.generation + 1 \in Generation
  BY <1>1, ValidGeneration DEF ImageFileTransactionState
<1> QED
  BY <1>1, <1>2 DEF AbandonedAfter, Record, ImageFileTransactionState

\* The successor that recovery builds, when it is valid.
LEMMA SuccessorRecord ==
    ASSUME NEW record \in Record, disposition \in OutputDisposition,
           NEW s \in ImageFileTransactionState,
           ValidRecord(disposition, Successor(record, s))
    PROVE  /\ Successor(record, s) \in Record
           /\ Successor(record, s).generation = record.generation + 1
           /\ Successor(record, s).state = s
<1>1. /\ Successor(record, s).generation = record.generation + 1
      /\ Successor(record, s).state = s
      /\ record.generation + 1 \in Int
  BY RecordFacts DEF Successor, Record
<1>2. record.generation + 1 \in Generation
  BY <1>1, ValidGeneration
<1> QED
  BY <1>1, <1>2 DEF Successor, Record

\* The successor that execute() builds from the record in memory.
LEMMA NextRecordFacts ==
    ASSUME ExecutionOK, xrec.generation \in 1..5, NEW s \in ImageFileTransactionState
    PROVE  /\ NextRecord(s) \in Record
           /\ NextRecord(s).generation = xrec.generation + 1
           /\ NextRecord(s).state = s
<1>1. xrec \in Record
  BY DEF ExecutionOK, Absent
<1>2. xrec.generation + 1 \in Generation
  BY DEF Generation, MaximumGeneration
<1>3. (xrec.hasBackup \/ s = "VerifiedBackupCreated") \in BOOLEAN
  BY Zenon
<1> QED
  BY <1>1, <1>2, <1>3, RecordValues DEF NextRecord

\* An appended generation is the only one that changes, and adds one state to
\* those that are recorded.
LEMMA Appended ==
    ASSUME JournalOK, NEW record \in Record, Publishable(record), Appends(record)
    PROVE  /\ generations' \in [Generation -> GenerationFile]
           /\ generations'[record.generation] = record
           /\ \A g \in Generation :
                 g # record.generation => generations'[g] = generations[g]
           /\ \A g \in Generation : generations[g] # Absent => generations'[g] # Absent
           /\ \A s : Recorded(s)' => Recorded(s) \/ s = record.state
           /\ \A s \in ImageFileTransactionState : Recorded(s) => Recorded(s)'
<1>1. generations[record.generation] = Absent /\ record.generation \in Generation
  BY PublishedName, RecordFacts
<1>2. /\ generations' \in [Generation -> GenerationFile]
      /\ generations'[record.generation] = record
      /\ \A g \in Generation :
            g # record.generation => generations'[g] = generations[g]
  BY <1>1 DEF Appends, JournalOK, GenerationFile
<1>3. \A g \in Generation : generations[g] # Absent => generations'[g] # Absent
  BY <1>1, <1>2
<1>4. \A s : Recorded(s)' => Recorded(s) \/ s = record.state
  BY <1>2 DEF Recorded
<1>5. \A s \in ImageFileTransactionState : Recorded(s) => Recorded(s)'
  BY <1>1, <1>2 DEF Recorded, Absent, ImageFileTransactionState
<1> QED
  BY <1>2, <1>3, <1>4, <1>5

\* A call of publish() by execute(): either the record is there and the body
\* goes on, or the call throws; in both cases nothing that was recorded is lost
\* and nothing but this record's state is new.
LEMMA XPublished ==
    ASSUME JournalOK, NEW record \in Record, NEW ACTION Then, XPublish(record, Then)
    PROVE  /\ generations' \in [Generation -> GenerationFile]
           /\ pending' \in 0..(MaximumJournalFiles + 1)
           /\ \A g \in Generation : generations[g] # Absent => generations'[g] # Absent
           /\ \A s : Recorded(s)' => Recorded(s) \/ s = record.state
           /\ \A s \in ImageFileTransactionState : Recorded(s) => Recorded(s)'
           /\ \/ Then /\ generations'[record.generation] = record
              \/ XCatch
<1>1. CASE Publishable(record) /\ Appends(record) /\ pending' = pending
                /\ (Then \/ XCatch)
  BY <1>1, Appended DEF JournalOK
<1>2. CASE Publishable(record) /\ generations' = generations
                /\ pending' = pending + 1 /\ XCatch
  BY <1>2, PendingBound DEF JournalOK, Recorded
<1>3. CASE generations' = generations /\ pending' = pending /\ XCatch
  BY <1>3 DEF JournalOK, Recorded
<1> QED
  BY <1>1, <1>2, <1>3 DEF XPublish

\* The same for a call of publish() by recovery, whose failure is a conflict.
LEMMA RPublished ==
    ASSUME JournalOK, NEW record, NEW ACTION Then, RPublish(record, Then),
           Publishable(record) => record \in Record
    PROVE  /\ generations' \in [Generation -> GenerationFile]
           /\ pending' \in 0..(MaximumJournalFiles + 1)
           /\ \A g \in Generation : generations[g] # Absent => generations'[g] # Absent
           /\ \A s : Recorded(s)' => Recorded(s) \/ (Publishable(record) /\ s = record.state)
           /\ \A s \in ImageFileTransactionState : Recorded(s) => Recorded(s)'
           /\ (Publishable(record) /\ Then) \/ REnd("Conflict")
<1>1. CASE Publishable(record) /\ Appends(record) /\ pending' = pending
                /\ (Then \/ REnd("Conflict"))
  BY <1>1, Appended DEF JournalOK
<1>2. CASE Publishable(record) /\ generations' = generations
                /\ pending' = pending + 1 /\ REnd("Conflict")
  BY <1>2, PendingBound DEF JournalOK, Recorded
<1>3. CASE generations' = generations /\ pending' = pending /\ REnd("Conflict")
  BY <1>3 DEF JournalOK, Recorded
<1> QED
  BY <1>1, <1>2, <1>3 DEF RPublish

-----------------------------------------------------------------------------
(* The invariant, action by action.                                        *)

\* The initial states satisfy the invariant.
LEMMA InitInv ==
    ASSUME Init PROVE IInv
<1> USE DEF Init
<1>1. FilesOK
  BY FileIdentities, FileValues DEF FilesOK, Original, Bytes
<1>2. generations \in [Generation -> GenerationFile]
      /\ \A g \in Generation : generations[g] = Absent
  BY DEF GenerationFile
<1>3. JournalOK
  <2>1. pending \in 0..(MaximumJournalFiles + 1)
    BY MaximumJournalFilesAssumption
  <2> QED
    BY <1>2, <2>1, DispositionsAssumption DEF JournalOK
<1>4. ExecutionOK /\ RecoveryOK
  BY OwnedStageValues, ObservationValues DEF ExecutionOK, RecoveryOK
<1>5. LeaseInv /\ ResultInv
  BY DEF LeaseInv, ResultInv, ExecuteActive, RecoveryActive, BodyPoint, CleanupPoint
<1>6. IdentityInv /\ EffectInv
  BY FileIdentities DEF IdentityInv, EffectInv, Original, FileOf, SourceId, StageId,
         ForeignId
<1>7. \A s \in ImageFileTransactionState : ~Recorded(s)
  BY <1>2 DEF Recorded, Absent, ImageFileTransactionState
<1>8. StartInv /\ BodyInv /\ MemoryInv /\ CleanupInv /\ RecoveryInv
  BY <1>2, <1>7, FileIdentities DEF StartInv, BodyInv, MemoryInv, CleanupInv, RecoveryInv, NoStage,
         BodyPoint, CommitPoint, CleanupPoint, ImageFileTransactionState, StageId
<1>9. AbandonmentIsTrue /\ CommitRecordIsTrue /\ OutcomeIsTrue
  BY <1>7 DEF AbandonmentIsTrue, CommitRecordIsTrue, OutcomeIsTrue,
              ImageFileTransactionState
<1> QED
  BY <1>1, <1>3, <1>4, <1>5, <1>6, <1>8, <1>9 DEF IInv, TypeOK

-----------------------------------------------------------------------------
(* execute() *)

\* The commit calls and the removal of the stage keep the OwnedStage well formed.
LEMMA OwnedStageKept ==
    ASSUME IInv, CommitReplacement \/ CommitCopy \/ RemoveStage
    PROVE  own' \in OwnedStage
<1>1. own \in OwnedStage
  BY DEF IInv, TypeOK, ExecutionOK
<1>2. \/ own' = own
      \/ own' = [own EXCEPT !.committed = TRUE]
      \/ own' = [own EXCEPT !.file = FALSE]
  BY DEF CommitReplacement, CommitCopy, RemoveStage
<1>3. /\ [own EXCEPT !.committed = TRUE] \in OwnedStage
      /\ [own EXCEPT !.file = FALSE] \in OwnedStage
  BY <1>1, OwnedStageChanges
<1> QED
  BY <1>1, <1>2, <1>3

\* Control reaches the closing record with the stage gone and no effect on the
\* user's files, unless the commit is known to have happened.
LEMMA RemoveStageCleanup ==
    ASSUME IInv, RemoveStage
    PROVE  CleanupInv'
<1>1. own \in OwnedStage
  BY DEF IInv, TypeOK, ExecutionOK
<1>2. /\ [own EXCEPT !.file = FALSE].committed = own.committed
      /\ ~[own EXCEPT !.file = FALSE].file
  BY <1>1, OwnedStageChanges
<1>3. own'.committed = own.committed
  BY <1>2 DEF RemoveStage
<1>4. CASE own.committed
  BY <1>3, <1>4 DEF RemoveStage, XGoto, CleanupInv, IInv, CleanupPoint, history
<1>5. CASE ~own.committed /\ xpc' = "Abandon"
  <2> USE <1>5 DEF RemoveStage, CleanupThrows, XCatch, XReturn
  <2>1. ~own'.file
    BY <1>2
  <2>2. stage'.id # StageId
    BY FileIdentities DEF IInv, CleanupInv, CleanupPoint, StageId
  <2>3. effect = "None"
    BY DEF IInv, CleanupInv, EffectInv, CleanupPoint, RejectsMissingStage, Replacement,
           NoFile, StageId
  <2> QED
    BY <1>3, <2>1, <2>2, <2>3 DEF CleanupInv, history
<1>6. CASE ~own.committed /\ xpc' = "CheckOriginal"
  BY <1>3, <1>6
     DEF RemoveStage, XGoto, CleanupThrows, XCatch, XReturn, IInv, CleanupInv, EffectInv,
         Replacement, CleanupPoint, StageId, history, request
<1>7. xpc' \in {"Abandon", "CheckOriginal", "Done"}
  BY DEF RemoveStage, XGoto, CleanupThrows, XCatch, XReturn
<1> QED
  BY <1>4, <1>5, <1>6, <1>7 DEF CleanupInv, CleanupPoint

\* The two outcomes of reading the journal: the run ends, or it continues with
\* a valid open record and the identity of the file it opened.
LEMMA ReadJournalObserves ==
    ASSUME IInv, ReadJournal
    PROVE  \/ REnd("Recovered") \/ REnd("Conflict")
           \/ /\ rpc' = "CheckBackup" /\ UNCHANGED <<rresult, lease>>
              /\ xpc # "Idle"
              /\ rrec' \in Record /\ ValidRecord(disposition, rrec')
              /\ ~Terminal(rrec'.state)
              /\ robs' \in Observation /\ robs'.id = source.id
<1>1. SUFFICES ASSUME ~REnd("Recovered"), ~REnd("Conflict")
               PROVE  /\ rpc' = "CheckBackup" /\ UNCHANGED <<rresult, lease>>
                      /\ xpc # "Idle"
                      /\ rrec' \in Record /\ ValidRecord(disposition, rrec')
                      /\ ~Terminal(rrec'.state)
                      /\ robs' \in Observation /\ robs'.id = source.id
  OBVIOUS
<1>2. PICK n \in Generation :
         /\ ReadsChain(disposition, generations, pending, n)
         /\ ~Terminal(generations[n].state)
         /\ RGoto("CheckBackup") /\ rrec' = generations[n]
         /\ robs' = [NoObservation EXCEPT !.id = source.id]
  BY <1>1 DEF ReadJournal
<1>3. rrec' \in Record /\ ValidRecord(disposition, rrec')
  BY <1>2, ReadRecord
<1>4. robs' \in Observation /\ robs'.id = source.id
  BY <1>2, ObservationValues, FileIdentities DEF IInv, TypeOK, FilesOK
<1>5. xpc # "Idle"
  BY <1>2, <1>3, RecordFacts DEF IInv, StartInv
<1> QED
  BY <1>2, <1>3, <1>4, <1>5 DEF RGoto

\* Admission takes the lease before any effect.
LEMMA PreflightStep ==
    ASSUME IInv, Preflight
    PROVE  IInv'
<1> USE DEF Preflight, files, journal, request, execution, recovery, history
<1>1. FilesOK' /\ RecoveryOK' /\ IdentityInv' /\ EffectInv' /\ RecoveryInv' /\
      AbandonmentIsTrue' /\ CommitRecordIsTrue' /\ OutcomeIsTrue'
  BY DEF IInv, TypeOK, FilesOK, RecoveryOK, IdentityInv, EffectInv, RecoveryInv,
         AbandonmentIsTrue, CommitRecordIsTrue, OutcomeIsTrue, Replacement, Recorded
<1>2. JournalOK'
  BY DEF IInv, TypeOK, JournalOK
<1>3. ExecutionOK'
  BY DEF IInv, TypeOK, ExecutionOK, BodyPoint
<1>4. LeaseInv' /\ ResultInv'
  BY DEF IInv, LeaseInv, ResultInv, ExecuteActive, RecoveryActive, BodyPoint
<1>5. StartInv'
  BY DEF IInv, StartInv
<1>6. BodyInv'
  BY DEF IInv, BodyInv, Recorded, CommitPoint
<1>7. MemoryInv'
  BY DEF MemoryInv
<1>8. CleanupInv'
  BY DEF IInv, CleanupInv, StartInv, BodyInv
<1> QED
  BY <1>1, <1>2, <1>3, <1>4, <1>5, <1>6, <1>7, <1>8 DEF IInv, TypeOK

\* A refused admission reports its outcome and touches no file.
LEMMA PreflightRefusesStep ==
    ASSUME IInv, PreflightRefuses
    PROVE  IInv'
<1> USE DEF PreflightRefuses, files, journal, request, execution, recovery, history
<1>1. FilesOK' /\ JournalOK' /\ RecoveryOK' /\ IdentityInv' /\ EffectInv' /\
      RecoveryInv' /\ AbandonmentIsTrue' /\ CommitRecordIsTrue'
  BY DEF IInv, TypeOK, FilesOK, JournalOK, RecoveryOK, IdentityInv, EffectInv,
         RecoveryInv, AbandonmentIsTrue, CommitRecordIsTrue, Replacement, Recorded
<1>2. ExecutionOK'
  BY DEF IInv, TypeOK, ExecutionOK
<1>3. LeaseInv' /\ ResultInv'
  BY DEF IInv, LeaseInv, ResultInv, ExecuteActive, RecoveryActive, BodyPoint,
         CleanupPoint
<1>4. StartInv'
  BY DEF StartInv
<1>5. BodyInv'
  BY DEF BodyInv, BodyPoint, CommitPoint
<1>6. MemoryInv'
  BY DEF MemoryInv, BodyPoint
<1>7. CleanupInv'
  BY DEF IInv, CleanupInv, StartInv, BodyInv
<1>8. OutcomeIsTrue'
  BY DEF IInv, OutcomeIsTrue, BodyInv
<1> QED
  BY <1>1, <1>2, <1>3, <1>4, <1>5, <1>6, <1>7, <1>8 DEF IInv, TypeOK

\* A throw of the try body only moves control to the catch handlers.
LEMMA BodyThrowsStep ==
    ASSUME IInv, BodyThrows
    PROVE  IInv'
<1> USE DEF BodyThrows, files, journal, request, execution, recovery, history, XCatch
<1>1. FilesOK' /\ JournalOK' /\ RecoveryOK' /\ IdentityInv' /\ EffectInv' /\
      RecoveryInv' /\ AbandonmentIsTrue' /\ CommitRecordIsTrue' /\ OutcomeIsTrue'
  BY DEF IInv, TypeOK, FilesOK, JournalOK, RecoveryOK, IdentityInv, EffectInv,
         RecoveryInv, AbandonmentIsTrue, CommitRecordIsTrue, OutcomeIsTrue,
         Replacement, Recorded
<1>2. ExecutionOK'
  BY DEF IInv, TypeOK, ExecutionOK, BodyPoint, CleanupPoint
<1>3. LeaseInv' /\ ResultInv'
  BY DEF IInv, LeaseInv, ResultInv, ExecuteActive, RecoveryActive, BodyPoint,
         CleanupPoint
<1>4. StartInv'
  BY DEF StartInv
<1>5. BodyInv'
  BY DEF BodyInv, BodyPoint, CommitPoint
<1>6. MemoryInv'
  BY DEF MemoryInv, BodyPoint
<1>7. CleanupInv'
  BY DEF IInv, CleanupInv, EffectInv, StartInv, BodyInv
<1> QED
  BY <1>1, <1>2, <1>3, <1>4, <1>5, <1>6, <1>7 DEF IInv, TypeOK

\* Creating the stage is the first file effect; its identity is fresh.
LEMMA CreateStageStep ==
    ASSUME IInv, CreateStage
    PROVE  IInv'
<1> USE DEF CreateStage, files, journal, request, execution, recovery, history, XGoto,
        XCatch
<1>1. JournalOK' /\ RecoveryOK' /\ OutcomeIsTrue'
  BY DEF IInv, TypeOK, JournalOK, RecoveryOK, OutcomeIsTrue, Recorded
<1>2. FilesOK'
  BY DEF IInv, TypeOK, FilesOK, Slot, File, FileOf, Bytes
<1>3. ExecutionOK'
  BY OwnedStageValues DEF IInv, TypeOK, ExecutionOK, BodyPoint, CleanupPoint
<1>4. LeaseInv' /\ ResultInv'
  BY DEF IInv, LeaseInv, ResultInv, ExecuteActive, RecoveryActive, BodyPoint,
         CleanupPoint
<1>5. IdentityInv'
  BY DEF IInv, IdentityInv, Replacement, FileOf
<1>6. EffectInv'
  BY DEF IInv, EffectInv, BodyInv, BodyPoint, CommitPoint
<1>7. StartInv'
  BY DEF IInv, StartInv
<1>8. BodyInv'
  BY DEF IInv, BodyInv, Recorded, BodyPoint, CommitPoint
<1>9. MemoryInv'
  BY DEF MemoryInv, BodyPoint
<1>10. CleanupInv'
  BY DEF IInv, CleanupInv, BodyInv, BodyPoint, CommitPoint
<1>11. RecoveryInv'
  BY DEF IInv, RecoveryInv, LeaseInv, BodyPoint, ExecuteActive, RecoveryActive
<1>12. AbandonmentIsTrue'
  BY DEF IInv, AbandonmentIsTrue, Recorded, BodyInv, BodyPoint
<1>13. CommitRecordIsTrue'
  BY DEF IInv, CommitRecordIsTrue, Recorded, BodyInv, BodyPoint, CommitPoint
<1> QED
  BY <1>1, <1>2, <1>3, <1>4, <1>5, <1>6, <1>7, <1>8, <1>9, <1>10, <1>11, <1>12, <1>13
     DEF IInv, TypeOK

\* Creating the journal folder publishes nothing yet.
LEMMA CreateJournalFolderStep ==
    ASSUME IInv, CreateJournalFolder
    PROVE  IInv'
<1> USE DEF CreateJournalFolder, files, journal, request, execution, recovery,
        history, XGoto, XCatch
<1>1. FilesOK' /\ RecoveryOK' /\ IdentityInv' /\ EffectInv' /\ RecoveryInv' /\
      AbandonmentIsTrue' /\ CommitRecordIsTrue' /\ OutcomeIsTrue'
  BY DEF IInv, TypeOK, FilesOK, RecoveryOK, IdentityInv, EffectInv, RecoveryInv,
         AbandonmentIsTrue, CommitRecordIsTrue, OutcomeIsTrue, Replacement, Recorded
<1>2. JournalOK'
  BY DEF IInv, TypeOK, JournalOK
<1>3. ExecutionOK'
  BY FirstRecord DEF IInv, TypeOK, ExecutionOK, BodyPoint, CleanupPoint
<1>4. LeaseInv' /\ ResultInv'
  BY DEF IInv, LeaseInv, ResultInv, ExecuteActive, RecoveryActive, BodyPoint,
         CleanupPoint
<1>5. StartInv'
  BY DEF IInv, StartInv
<1>6. BodyInv'
  BY DEF IInv, BodyInv, Recorded, BodyPoint, CommitPoint
<1>7. MemoryInv'
  BY DEF MemoryInv, BodyPoint
<1>8. CleanupInv'
  BY DEF IInv, TypeOK, ExecutionOK, CleanupInv, EffectInv, BodyInv
<1> QED
  BY <1>1, <1>2, <1>3, <1>4, <1>5, <1>6, <1>7, <1>8 DEF IInv, TypeOK

\* Writing the stage changes its bytes, never its identity.
LEMMA WriteStageStep ==
    ASSUME IInv, WriteStage
    PROVE  IInv'
<1> USE DEF WriteStage, files, journal, request, execution, recovery, history, XGoto,
        XCatch
<1>1. JournalOK' /\ RecoveryOK' /\ OutcomeIsTrue'
  BY DEF IInv, TypeOK, JournalOK, RecoveryOK, OutcomeIsTrue, Recorded
<1>2. FilesOK'
  BY DEF IInv, TypeOK, FilesOK, Slot, File, Bytes
<1>3. ExecutionOK'
  BY DEF IInv, TypeOK, ExecutionOK, BodyPoint, CleanupPoint
<1>4. LeaseInv' /\ ResultInv'
  BY DEF IInv, LeaseInv, ResultInv, ExecuteActive, RecoveryActive, BodyPoint,
         CleanupPoint
<1>5. IdentityInv'
  BY DEF IInv, TypeOK, FilesOK, IdentityInv, Replacement, Slot, File
<1>6. EffectInv'
  BY DEF IInv, EffectInv, BodyInv, BodyPoint, CommitPoint
<1>7. StartInv'
  BY DEF StartInv
<1>8. BodyInv'
  BY DEF IInv, BodyInv, Recorded, BodyPoint, CommitPoint
<1>9. MemoryInv'
  BY DEF IInv, MemoryInv, BodyPoint
<1>10. CleanupInv'
  BY DEF IInv, TypeOK, ExecutionOK, FilesOK, CleanupInv, EffectInv, BodyInv, Slot,
         File
<1>11. RecoveryInv'
  BY DEF IInv, RecoveryInv, LeaseInv, BodyPoint, ExecuteActive, RecoveryActive
<1>12. AbandonmentIsTrue'
  BY DEF IInv, AbandonmentIsTrue, Recorded, BodyInv, BodyPoint
<1>13. CommitRecordIsTrue'
  BY DEF IInv, CommitRecordIsTrue, Recorded, BodyInv, BodyPoint, CommitPoint
<1> QED
  BY <1>1, <1>2, <1>3, <1>4, <1>5, <1>6, <1>7, <1>8, <1>9, <1>10, <1>11, <1>12, <1>13
     DEF IInv, TypeOK

\* Rereading the stage changes no file.
LEMMA VerifyStageStep ==
    ASSUME IInv, VerifyStage
    PROVE  IInv'
<1> USE DEF VerifyStage, files, journal, request, execution, recovery, history, XGoto,
        XCatch, XCleanup, XReturn
<1>1. FilesOK' /\ JournalOK' /\ RecoveryOK' /\ IdentityInv' /\ EffectInv' /\
      RecoveryInv' /\ AbandonmentIsTrue' /\ CommitRecordIsTrue' /\ OutcomeIsTrue'
  BY DEF IInv, TypeOK, FilesOK, JournalOK, RecoveryOK, IdentityInv, EffectInv,
         RecoveryInv, AbandonmentIsTrue, CommitRecordIsTrue, OutcomeIsTrue,
         Replacement, Recorded
<1>2. ExecutionOK'
  BY DEF IInv, TypeOK, ExecutionOK, BodyPoint, CleanupPoint
<1>3. LeaseInv' /\ ResultInv'
  BY DEF IInv, LeaseInv, ResultInv, ExecuteActive, RecoveryActive, BodyPoint,
         CleanupPoint
<1>4. StartInv'
  BY DEF StartInv
<1>5. BodyInv'
  BY DEF IInv, BodyInv, Recorded, BodyPoint, CommitPoint
<1>6. MemoryInv'
  BY DEF IInv, MemoryInv, BodyPoint
<1>7. CleanupInv'
  BY DEF IInv, TypeOK, ExecutionOK, CleanupInv, EffectInv, BodyInv
<1> QED
  BY <1>1, <1>2, <1>3, <1>4, <1>5, <1>6, <1>7 DEF IInv, TypeOK

\* The source check that precedes the backup or the copy changes no file.
LEMMA RecheckSourceStep ==
    ASSUME IInv, RecheckSource
    PROVE  IInv'
<1> USE DEF RecheckSource, files, journal, request, execution, recovery, history,
        XGoto, XCatch, XCleanup, XReturn, RecheckOf
<1>1. FilesOK' /\ JournalOK' /\ RecoveryOK' /\ IdentityInv' /\ EffectInv' /\
      RecoveryInv' /\ AbandonmentIsTrue' /\ CommitRecordIsTrue' /\ OutcomeIsTrue'
  BY DEF IInv, TypeOK, FilesOK, JournalOK, RecoveryOK, IdentityInv, EffectInv,
         RecoveryInv, AbandonmentIsTrue, CommitRecordIsTrue, OutcomeIsTrue,
         Replacement, Recorded
<1>2. ExecutionOK'
  BY DEF IInv, TypeOK, ExecutionOK, BodyPoint, CleanupPoint
<1>3. LeaseInv' /\ ResultInv'
  BY DEF IInv, LeaseInv, ResultInv, ExecuteActive, RecoveryActive, BodyPoint,
         CleanupPoint
<1>4. StartInv'
  BY DEF StartInv
<1>5. BodyInv'
  BY DEF IInv, BodyInv, MemoryInv, Recorded, Replacement, BodyPoint, CommitPoint,
         Generation, MaximumGeneration, Copy, ReplaceWithBackup
<1>6. MemoryInv'
  BY DEF IInv, MemoryInv, BodyPoint
<1>7. CleanupInv'
  BY DEF IInv, TypeOK, ExecutionOK, CleanupInv, EffectInv, BodyInv
<1> QED
  BY <1>1, <1>2, <1>3, <1>4, <1>5, <1>6, <1>7 DEF IInv, TypeOK

\* The backup is a new file; the original and the stage stay as they are.
LEMMA CreateBackupStep ==
    ASSUME IInv, CreateBackup
    PROVE  IInv'
<1> USE DEF CreateBackup, files, journal, request, execution, recovery, history,
        XGoto, XCatch, XCleanup, XReturn
<1>1. JournalOK' /\ RecoveryOK' /\ IdentityInv' /\ EffectInv' /\ RecoveryInv' /\
      AbandonmentIsTrue' /\ CommitRecordIsTrue' /\ OutcomeIsTrue'
  BY DEF IInv, TypeOK, JournalOK, RecoveryOK, IdentityInv, EffectInv, RecoveryInv,
         AbandonmentIsTrue, CommitRecordIsTrue, OutcomeIsTrue, Replacement, Recorded
<1>2. FilesOK'
  BY DEF IInv, TypeOK, FilesOK, Slot, File, FileOf, Bytes
<1>3. ExecutionOK'
  BY DEF IInv, TypeOK, ExecutionOK, BodyPoint, CleanupPoint
<1>4. LeaseInv' /\ ResultInv'
  BY DEF IInv, LeaseInv, ResultInv, ExecuteActive, RecoveryActive, BodyPoint,
         CleanupPoint
<1>5. StartInv'
  BY DEF StartInv
<1>6. BodyInv'
  BY DEF IInv, BodyInv, Recorded, Replacement, BodyPoint, CommitPoint
<1>7. MemoryInv'
  BY DEF IInv, MemoryInv, BodyPoint
<1>8. CleanupInv'
  BY DEF IInv, TypeOK, ExecutionOK, CleanupInv, EffectInv, BodyInv
<1> QED
  BY <1>1, <1>2, <1>3, <1>4, <1>5, <1>6, <1>7, <1>8 DEF IInv, TypeOK

\* Verifying the backup changes no file.
LEMMA VerifyBackupStep ==
    ASSUME IInv, VerifyBackup
    PROVE  IInv'
<1> USE DEF VerifyBackup, files, journal, request, execution, recovery, history,
        XGoto, XCatch, XCleanup, XReturn
<1>1. FilesOK' /\ JournalOK' /\ RecoveryOK' /\ IdentityInv' /\ EffectInv' /\
      RecoveryInv' /\ AbandonmentIsTrue' /\ CommitRecordIsTrue' /\ OutcomeIsTrue'
  BY DEF IInv, TypeOK, FilesOK, JournalOK, RecoveryOK, IdentityInv, EffectInv,
         RecoveryInv, AbandonmentIsTrue, CommitRecordIsTrue, OutcomeIsTrue,
         Replacement, Recorded
<1>2. ExecutionOK'
  BY DEF IInv, TypeOK, ExecutionOK, BodyPoint, CleanupPoint
<1>3. LeaseInv' /\ ResultInv'
  BY DEF IInv, LeaseInv, ResultInv, ExecuteActive, RecoveryActive, BodyPoint,
         CleanupPoint
<1>4. StartInv'
  BY DEF StartInv
<1>5. BodyInv'
  BY DEF IInv, BodyInv, Recorded, Replacement, BodyPoint, CommitPoint
<1>6. MemoryInv'
  BY DEF IInv, MemoryInv, BodyPoint
<1>7. CleanupInv'
  BY DEF IInv, TypeOK, ExecutionOK, CleanupInv, EffectInv, BodyInv
<1> QED
  BY <1>1, <1>2, <1>3, <1>4, <1>5, <1>6, <1>7 DEF IInv, TypeOK

\* The source check that follows the backup changes no file.
LEMMA RecheckAfterBackupStep ==
    ASSUME IInv, RecheckAfterBackup
    PROVE  IInv'
<1> USE DEF RecheckAfterBackup, files, journal, request, execution, recovery, history,
        XGoto, XCatch, XCleanup, XReturn, RecheckOf
<1>1. FilesOK' /\ JournalOK' /\ RecoveryOK' /\ IdentityInv' /\ EffectInv' /\
      RecoveryInv' /\ AbandonmentIsTrue' /\ CommitRecordIsTrue' /\ OutcomeIsTrue'
  BY DEF IInv, TypeOK, FilesOK, JournalOK, RecoveryOK, IdentityInv, EffectInv,
         RecoveryInv, AbandonmentIsTrue, CommitRecordIsTrue, OutcomeIsTrue,
         Replacement, Recorded
<1>2. ExecutionOK'
  BY DEF IInv, TypeOK, ExecutionOK, BodyPoint, CleanupPoint
<1>3. LeaseInv' /\ ResultInv'
  BY DEF IInv, LeaseInv, ResultInv, ExecuteActive, RecoveryActive, BodyPoint,
         CleanupPoint
<1>4. StartInv'
  BY DEF StartInv
<1>5. BodyInv'
  BY DEF IInv, BodyInv, Recorded, Replacement, BodyPoint, CommitPoint
<1>6. MemoryInv'
  BY DEF IInv, MemoryInv, BodyPoint
<1>7. CleanupInv'
  BY DEF IInv, TypeOK, ExecutionOK, CleanupInv, EffectInv, BodyInv
<1> QED
  BY <1>1, <1>2, <1>3, <1>4, <1>5, <1>6, <1>7 DEF IInv, TypeOK

\* Rereading the announced intent changes no file.
LEMMA ReadIntentStep ==
    ASSUME IInv, ReadIntent
    PROVE  IInv'
<1> USE DEF ReadIntent, files, journal, request, execution, recovery, history, XGoto,
        XCatch, XCleanup, XReturn
<1>1. FilesOK' /\ JournalOK' /\ RecoveryOK' /\ IdentityInv' /\ EffectInv' /\
      RecoveryInv' /\ AbandonmentIsTrue' /\ CommitRecordIsTrue' /\ OutcomeIsTrue'
  BY DEF IInv, TypeOK, FilesOK, JournalOK, RecoveryOK, IdentityInv, EffectInv,
         RecoveryInv, AbandonmentIsTrue, CommitRecordIsTrue, OutcomeIsTrue,
         Replacement, Recorded
<1>2. ExecutionOK'
  BY DEF IInv, TypeOK, ExecutionOK, BodyPoint, CleanupPoint
<1>3. LeaseInv' /\ ResultInv'
  BY DEF IInv, LeaseInv, ResultInv, ExecuteActive, RecoveryActive, BodyPoint,
         CleanupPoint
<1>4. StartInv'
  BY DEF StartInv
<1>5. BodyInv'
  BY DEF IInv, BodyInv, Recorded, Replacement, BodyPoint, CommitPoint
<1>6. MemoryInv'
  BY DEF IInv, MemoryInv, BodyPoint
<1>7. CleanupInv'
  BY DEF IInv, TypeOK, ExecutionOK, CleanupInv, EffectInv, BodyInv
<1> QED
  BY <1>1, <1>2, <1>3, <1>4, <1>5, <1>6, <1>7 DEF IInv, TypeOK

\* The last source check sets the phase that cleanup relies on.
LEMMA RecheckBeforeReplacementStep ==
    ASSUME IInv, RecheckBeforeReplacement
    PROVE  IInv'
<1> USE DEF RecheckBeforeReplacement, files, journal, request, execution, recovery,
        history, XGoto, XCatch, XCleanup, XReturn, RecheckOf
<1>1. FilesOK' /\ JournalOK' /\ RecoveryOK' /\ IdentityInv' /\ EffectInv' /\
      RecoveryInv' /\ AbandonmentIsTrue' /\ CommitRecordIsTrue' /\ OutcomeIsTrue'
  BY DEF IInv, TypeOK, FilesOK, JournalOK, RecoveryOK, IdentityInv, EffectInv,
         RecoveryInv, AbandonmentIsTrue, CommitRecordIsTrue, OutcomeIsTrue,
         Replacement, Recorded
<1>2. ExecutionOK'
  BY DEF IInv, TypeOK, ExecutionOK, BodyPoint, CleanupPoint
<1>3. LeaseInv' /\ ResultInv'
  BY DEF IInv, LeaseInv, ResultInv, ExecuteActive, RecoveryActive, BodyPoint,
         CleanupPoint
<1>4. StartInv'
  BY DEF StartInv
<1>5. BodyInv'
  BY DEF IInv, BodyInv, MemoryInv, Recorded, Replacement, BodyPoint, CommitPoint,
         Generation, MaximumGeneration
<1>6. MemoryInv'
  BY DEF IInv, MemoryInv, BodyPoint
<1>7. CleanupInv'
  BY DEF IInv, TypeOK, ExecutionOK, CleanupInv, EffectInv, BodyInv
<1> QED
  BY <1>1, <1>2, <1>3, <1>4, <1>5, <1>6, <1>7 DEF IInv, TypeOK

\* The replacing move: whatever the call reports, its effect is one that
\* the journal's first three generations announce.
LEMMA CommitReplacementStep ==
    ASSUME IInv, CommitReplacement
    PROVE  IInv'
<1> USE DEF CommitReplacement, files, journal, request, execution, recovery, history,
        XGoto, XCatch, XCleanup, XReturn
<1>1. JournalOK' /\ RecoveryOK'
  BY DEF IInv, TypeOK, JournalOK, RecoveryOK
<1>2. FilesOK'
  BY FileIdentities DEF IInv, TypeOK, FilesOK
<1>3. own' \in OwnedStage
  BY OwnedStageKept
<1>4. ExecutionOK'
  BY <1>3 DEF IInv, TypeOK, ExecutionOK, BodyPoint, CleanupPoint
<1>5. LeaseInv' /\ ResultInv'
  BY DEF IInv, LeaseInv, ResultInv, ExecuteActive, RecoveryActive, BodyPoint,
         CleanupPoint
<1>6. IdentityInv'
  BY DEF IInv, IdentityInv, BodyInv, Replacement, StageId, NoFile
<1>7. EffectInv'
  BY DEF IInv, EffectInv, IdentityInv, BodyInv, Replacement, SourceId, StageId,
         ForeignId, NoFile
<1>8. StartInv'
  BY DEF StartInv
<1>9. BodyInv'
  BY OwnedStageChanges
     DEF IInv, TypeOK, ExecutionOK, JournalOK, BodyInv, MemoryInv, StartInv, Recorded,
         Replacement, BodyPoint, CommitPoint, CleanupPoint, NoStage, Generation,
         MaximumGeneration, Damaged
<1>10. MemoryInv'
  BY DEF IInv, MemoryInv, BodyPoint
<1>11. CleanupInv'
  BY OwnedStageChanges
     DEF IInv, CleanupInv, BodyInv, Replacement, BodyPoint, CommitPoint, CleanupPoint
<1>12. RecoveryInv'
  BY DEF IInv, RecoveryInv, LeaseInv, BodyPoint, ExecuteActive, RecoveryActive
<1>13. AbandonmentIsTrue'
  BY DEF IInv, AbandonmentIsTrue, Recorded, BodyInv, BodyPoint
<1>14. CommitRecordIsTrue'
  BY DEF IInv, CommitRecordIsTrue, Recorded, BodyInv, BodyPoint, CommitPoint
<1>15. OutcomeIsTrue'
  BY DEF IInv, OutcomeIsTrue, ResultInv
<1> QED
  BY <1>1, <1>2, <1>3, <1>4, <1>5, <1>6, <1>7, <1>8, <1>9, <1>10, <1>11, <1>12, <1>13,
     <1>14, <1>15 DEF IInv, TypeOK

\* The move of a corrected copy, complete or without effect.
LEMMA CommitCopyStep ==
    ASSUME IInv, CommitCopy
    PROVE  IInv'
<1> USE DEF CommitCopy, files, journal, request, execution, recovery, history, XGoto,
        XCatch, XCleanup, XReturn
<1>1. JournalOK' /\ RecoveryOK'
  BY DEF IInv, TypeOK, JournalOK, RecoveryOK
<1>2. FilesOK'
  BY FileIdentities DEF IInv, TypeOK, FilesOK
<1>3. own' \in OwnedStage
  BY OwnedStageKept
<1>4. ExecutionOK'
  BY <1>3 DEF IInv, TypeOK, ExecutionOK, BodyPoint, CleanupPoint
<1>5. LeaseInv' /\ ResultInv'
  BY DEF IInv, LeaseInv, ResultInv, ExecuteActive, RecoveryActive, BodyPoint,
         CleanupPoint
<1>6. IdentityInv'
  BY DEF IInv, IdentityInv, BodyInv, Replacement
<1>7. EffectInv'
  BY DEF IInv, EffectInv, BodyInv, Replacement, StageId, NoFile
<1>8. StartInv'
  BY DEF StartInv
<1>9. BodyInv'
  BY OwnedStageChanges
     DEF IInv, TypeOK, ExecutionOK, JournalOK, BodyInv, MemoryInv, StartInv, Recorded,
         Replacement, BodyPoint, CommitPoint, CleanupPoint, NoStage, Generation,
         MaximumGeneration, Damaged
<1>10. MemoryInv'
  BY DEF IInv, MemoryInv, BodyPoint
<1>11. CleanupInv'
  BY OwnedStageChanges
     DEF IInv, CleanupInv, BodyInv, Replacement, BodyPoint, CommitPoint, CleanupPoint
<1>12. RecoveryInv'
  BY DEF IInv, RecoveryInv, LeaseInv, BodyPoint, ExecuteActive, RecoveryActive
<1>13. AbandonmentIsTrue'
  BY DEF IInv, AbandonmentIsTrue, Recorded, BodyInv, BodyPoint
<1>14. CommitRecordIsTrue'
  BY DEF IInv, CommitRecordIsTrue, Recorded, BodyInv, BodyPoint, CommitPoint
<1>15. OutcomeIsTrue'
  BY DEF IInv, OutcomeIsTrue, ResultInv
<1> QED
  BY <1>1, <1>2, <1>3, <1>4, <1>5, <1>6, <1>7, <1>8, <1>9, <1>10, <1>11, <1>12, <1>13,
     <1>14, <1>15 DEF IInv, TypeOK

\* Observing the committed file changes no file.
LEMMA VerifyCommittedStep ==
    ASSUME IInv, VerifyCommitted
    PROVE  IInv'
<1> USE DEF VerifyCommitted, files, journal, request, execution, recovery, history,
        XGoto, XCatch, XCleanup, XReturn
<1>1. FilesOK' /\ RecoveryOK' /\ IdentityInv' /\ EffectInv' /\ RecoveryInv' /\
      AbandonmentIsTrue' /\ CommitRecordIsTrue'
  BY DEF IInv, TypeOK, FilesOK, RecoveryOK, IdentityInv, EffectInv, RecoveryInv,
         AbandonmentIsTrue, CommitRecordIsTrue, Replacement, Recorded
<1>2. JournalOK'
  BY DEF IInv, TypeOK, JournalOK
<1>3. ExecutionOK'
  BY DEF IInv, TypeOK, ExecutionOK, BodyPoint
<1>4. LeaseInv' /\ ResultInv'
  BY DEF IInv, LeaseInv, ResultInv, ExecuteActive, RecoveryActive, BodyPoint,
         CleanupPoint
<1>5. StartInv'
  BY DEF StartInv
<1>6. BodyInv'
  BY DEF IInv, BodyInv, BodyPoint, CommitPoint
<1>7. MemoryInv'
  BY DEF IInv, MemoryInv, BodyPoint
<1>8. CleanupInv'
  BY DEF IInv, TypeOK, ExecutionOK, CleanupInv, EffectInv, BodyInv
<1>9. OutcomeIsTrue'
  BY DEF IInv, OutcomeIsTrue, Recorded
<1> QED
  BY <1>1, <1>2, <1>3, <1>4, <1>5, <1>6, <1>7, <1>8, <1>9 DEF IInv, TypeOK

\* Cleanup passes the check of a failed replacement only when the original
\* is still the reviewed file, hence when nothing took effect.
LEMMA CheckOriginalStep ==
    ASSUME IInv, CheckOriginal
    PROVE  IInv'
<1> USE DEF CheckOriginal, files, journal, request, execution, recovery, history,
        XGoto, XCatch, XCleanup, XReturn, CleanupThrows
<1>1. FilesOK' /\ RecoveryOK' /\ IdentityInv' /\ EffectInv' /\ RecoveryInv' /\
      AbandonmentIsTrue' /\ CommitRecordIsTrue'
  BY DEF IInv, TypeOK, FilesOK, RecoveryOK, IdentityInv, EffectInv, RecoveryInv,
         AbandonmentIsTrue, CommitRecordIsTrue, Replacement, Recorded
<1>2. JournalOK'
  BY DEF IInv, TypeOK, JournalOK
<1>3. ExecutionOK'
  BY DEF IInv, TypeOK, ExecutionOK, BodyPoint, CleanupPoint
<1>4. LeaseInv' /\ ResultInv'
  BY DEF IInv, LeaseInv, ResultInv, ExecuteActive, RecoveryActive, BodyPoint,
         CleanupPoint
<1>5. StartInv'
  BY DEF StartInv
<1>6. BodyInv'
  BY DEF BodyInv, BodyPoint, CommitPoint
<1>7. MemoryInv'
  BY DEF MemoryInv, BodyPoint
<1>8. CleanupInv'
  BY DEF IInv, CleanupInv, EffectInv, Replacement, Original, CleanupPoint, FileOf
<1>9. OutcomeIsTrue'
  BY DEF IInv, OutcomeIsTrue, Recorded
<1> QED
  BY <1>1, <1>2, <1>3, <1>4, <1>5, <1>6, <1>7, <1>8, <1>9 DEF IInv, TypeOK

\* OwnedStage::remove() gets to the closing record only when the stage is
\* gone and no commit took effect, or the commit is known.
LEMMA RemoveStageStep ==
    ASSUME IInv, RemoveStage
    PROVE  IInv'
<1> USE DEF RemoveStage, files, journal, request, execution, recovery, history, XGoto,
        XCatch, XCleanup, XReturn, CleanupThrows
<1>1. RecoveryOK'
  BY DEF IInv, TypeOK, RecoveryOK
<1>2. FilesOK'
  BY FileIdentities DEF IInv, TypeOK, FilesOK
<1>3. JournalOK'
  BY DEF IInv, TypeOK, JournalOK
<1>4. own' \in OwnedStage
  BY OwnedStageKept
<1>5. ExecutionOK'
  BY <1>4 DEF IInv, TypeOK, ExecutionOK, BodyPoint, CleanupPoint
<1>6. LeaseInv' /\ ResultInv'
  BY DEF IInv, LeaseInv, ResultInv, ExecuteActive, RecoveryActive, BodyPoint,
         CleanupPoint
<1>7. IdentityInv'
  BY DEF IInv, IdentityInv, Replacement, NoFile
<1>8. EffectInv'
  BY DEF IInv, EffectInv, Replacement
<1>9. StartInv'
  BY DEF StartInv
<1>10. BodyInv'
  BY OwnedStageChanges DEF BodyInv, BodyPoint, CommitPoint
<1>11. MemoryInv'
  BY DEF MemoryInv, BodyPoint
<1>12. CleanupInv'
  BY RemoveStageCleanup
<1>13. RecoveryInv'
  BY DEF IInv, RecoveryInv, Replacement
<1>14. AbandonmentIsTrue'
  BY DEF IInv, AbandonmentIsTrue, Recorded
<1>15. CommitRecordIsTrue'
  BY DEF IInv, CommitRecordIsTrue, Recorded
<1>16. OutcomeIsTrue'
  BY DEF IInv, OutcomeIsTrue, Recorded
<1> QED
  BY <1>1, <1>2, <1>3, <1>4, <1>5, <1>6, <1>7, <1>8, <1>9, <1>10, <1>11, <1>12, <1>13,
     <1>14, <1>15, <1>16 DEF IInv, TypeOK

\* Every publication of the try body but the last: the new generation is the
\* successor of the record in memory, and what it states is true.
LEMMA PublishBodyStep ==
    ASSUME IInv,
           xpc \in BodyPoint \ {"CreateStage", "CreateJournalFolder"},
           NEW next \in {"WriteStage", "VerifyStage", "RecheckSource", "ReadIntent",
                        "PublishCleaned"},
           NEW record \in Record,
           XPublish(record, XGoto(next)),
           record.generation = xrec.generation + 1 \/ xpc = "PublishInitialized",
           record.generation \in (CASE next = "WriteStage" -> {1}
                                    [] next = "VerifyStage" -> {2}
                                    [] next = "RecheckSource" -> {3}
                                    [] next = "ReadIntent" -> {4}
                                    [] OTHER -> {4, 5}),
           record.state # "TransactionAbandonedBeforeCommit",
           record.state \in {"OutputCommitted", "OwnedStagingArtifactsCleaned"} =>
               effect = "Committed",
           xpc \in CommitPoint <=> next = "PublishCleaned",
           xpc = "PublishInitialized" <=> next = "WriteStage",
           next = "ReadIntent" => Replacement
    PROVE  IInv'
<1> DEFINE kept == \A g \in Generation : generations[g] # Absent => generations'[g] # Absent
<1>1. /\ generations' \in [Generation -> GenerationFile]
      /\ pending' \in 0..(MaximumJournalFiles + 1)
      /\ kept
      /\ \A s : Recorded(s)' => Recorded(s) \/ s = record.state
      /\ \A s \in ImageFileTransactionState : Recorded(s) => Recorded(s)'
      /\ (XGoto(next) /\ generations'[record.generation] = record) \/ XCatch
  BY XPublished DEF IInv, TypeOK
<1>2. /\ UNCHANGED <<files, folder, request, own, recovery, history>>
      /\ phase' = "BeforeCommit" /\ xrec' = record
  BY DEF XPublish
<1>3. /\ lease' = lease /\ result' = result
      /\ (xpc' = next /\ inBody' = inBody) \/ (xpc' = "CheckOriginal" /\ inBody' = FALSE)
  BY <1>1 DEF XGoto, XCatch
<1> USE <1>2, <1>3 DEF files, request, recovery, history
<1>4. FilesOK' /\ RecoveryOK' /\ IdentityInv' /\ RecoveryInv'
  BY DEF IInv, TypeOK, FilesOK, RecoveryOK, IdentityInv, RecoveryInv, Replacement
<1>5. JournalOK'
  BY <1>1 DEF IInv, TypeOK, JournalOK
<1>6. ExecutionOK'
  BY DEF IInv, TypeOK, ExecutionOK, BodyPoint, CleanupPoint
<1>7. LeaseInv' /\ ResultInv'
  BY DEF IInv, LeaseInv, ResultInv, ExecuteActive, RecoveryActive, BodyPoint, CleanupPoint
<1>8. EffectInv' /\ StartInv'
  BY <1>1 DEF IInv, EffectInv, StartInv, Replacement, Generation, MaximumGeneration
<1>9. MemoryInv'
  <2>1. SUFFICES ASSUME xpc' = next
                 PROVE  \A g \in Generation :
                           g <= record.generation => generations'[g] # Absent
    BY DEF MemoryInv, BodyPoint
  <2>2. generations'[record.generation] # Absent
    BY <1>1, <2>1, RecordFacts DEF XCatch
  <2>3. ASSUME NEW g \in Generation, g < record.generation
        PROVE  generations'[g] # Absent
    <3>1. xrec.generation \in Int
      BY RecordFacts DEF IInv, TypeOK, ExecutionOK, Absent
    <3>2. xpc # "PublishInitialized"
      BY <2>3 DEF Generation, MaximumGeneration
    <3>3. g <= xrec.generation
      BY <2>3, <3>1, <3>2 DEF Generation, MaximumGeneration
    <3> QED
      BY <1>1, <3>2, <3>3 DEF IInv, MemoryInv
  <2> QED
    BY <2>2, <2>3, RecordFacts DEF Generation, MaximumGeneration
<1>10. BodyInv'
  BY <1>1 DEF IInv, BodyInv, BodyPoint, CommitPoint, Replacement
<1>11. CleanupInv'
  BY DEF IInv, BodyInv, EffectInv, CleanupInv, BodyPoint, CommitPoint, CleanupPoint
<1>12. AbandonmentIsTrue'
  BY <1>1 DEF IInv, AbandonmentIsTrue
<1>13. CommitRecordIsTrue'
  BY <1>1 DEF IInv, EffectInv, AbandonmentIsTrue, CommitRecordIsTrue
<1>14. OutcomeIsTrue'
  BY <1>1 DEF IInv, OutcomeIsTrue, ImageFileTransactionState
<1> QED
  BY <1>4, <1>5, <1>6, <1>7, <1>8, <1>9, <1>10, <1>11, <1>12, <1>13, <1>14
     DEF IInv, TypeOK

\* Publishing the first generation preserves the invariant.
LEMMA PublishInitializedStep ==
    ASSUME IInv, PublishInitialized PROVE IInv'
<1>1. /\ xpc = "PublishInitialized" /\ XPublish(xrec, XGoto("WriteStage"))
      /\ xrec.generation = 1 /\ xrec.state = "TransactionInitialized"
  BY DEF PublishInitialized, IInv, MemoryInv
<1>2. xrec \in Record
  BY <1>1 DEF IInv, TypeOK, ExecutionOK, Absent
<1> QED
  BY <1>1, <1>2, PublishBodyStep DEF BodyPoint, CommitPoint

\* Publishing StagedOutputWritten preserves the invariant.
LEMMA PublishWrittenStep ==
    ASSUME IInv, PublishWritten PROVE IInv'
<1>1. /\ xpc = "PublishWritten"
      /\ XPublish(NextRecord("StagedOutputWritten"), XGoto("VerifyStage"))
      /\ xrec.generation = 1
  BY DEF PublishWritten, IInv, MemoryInv
<1>2. /\ NextRecord("StagedOutputWritten") \in Record
      /\ NextRecord("StagedOutputWritten").generation = xrec.generation + 1
      /\ NextRecord("StagedOutputWritten").state = "StagedOutputWritten"
  BY <1>1, NextRecordFacts DEF IInv, TypeOK, ImageFileTransactionState
<1> QED
  BY <1>1, <1>2, PublishBodyStep DEF BodyPoint, CommitPoint

\* Publishing StagedOutputHashVerified preserves the invariant.
LEMMA PublishVerifiedStep ==
    ASSUME IInv, PublishVerified PROVE IInv'
<1>1. /\ xpc = "PublishVerified"
      /\ XPublish(NextRecord("StagedOutputHashVerified"), XGoto("RecheckSource"))
      /\ xrec.generation = 2
  BY DEF PublishVerified, IInv, MemoryInv
<1>2. /\ NextRecord("StagedOutputHashVerified") \in Record
      /\ NextRecord("StagedOutputHashVerified").generation = xrec.generation + 1
      /\ NextRecord("StagedOutputHashVerified").state = "StagedOutputHashVerified"
  BY <1>1, NextRecordFacts DEF IInv, TypeOK, ImageFileTransactionState
<1> QED
  BY <1>1, <1>2, PublishBodyStep DEF BodyPoint, CommitPoint

\* Publishing VerifiedBackupCreated preserves the invariant.
LEMMA PublishBackupStep ==
    ASSUME IInv, PublishBackup PROVE IInv'
<1>1. /\ xpc = "PublishBackup" /\ Replacement
      /\ XPublish(NextRecord("VerifiedBackupCreated"), XGoto("ReadIntent"))
      /\ xrec.generation = 3
  BY DEF PublishBackup, IInv, MemoryInv, BodyInv
<1>2. /\ NextRecord("VerifiedBackupCreated") \in Record
      /\ NextRecord("VerifiedBackupCreated").generation = xrec.generation + 1
      /\ NextRecord("VerifiedBackupCreated").state = "VerifiedBackupCreated"
  BY <1>1, NextRecordFacts DEF IInv, TypeOK, ImageFileTransactionState
<1> QED
  BY <1>1, <1>2, PublishBodyStep DEF BodyPoint, CommitPoint

\* Publishing OutputCommitted preserves the invariant: the commit happened.
LEMMA PublishCommittedStep ==
    ASSUME IInv, PublishCommitted PROVE IInv'
<1>1. /\ xpc = "PublishCommitted" /\ effect = "Committed"
      /\ XPublish(NextRecord("OutputCommitted"), XGoto("PublishCleaned"))
      /\ xrec.generation \in 3..4
  BY DEF PublishCommitted, IInv, MemoryInv, BodyInv, CommitPoint
<1>2. /\ NextRecord("OutputCommitted") \in Record
      /\ NextRecord("OutputCommitted").generation = xrec.generation + 1
      /\ NextRecord("OutputCommitted").state = "OutputCommitted"
  BY <1>1, NextRecordFacts DEF IInv, TypeOK, ImageFileTransactionState
<1> QED
  BY <1>1, <1>2, PublishBodyStep DEF BodyPoint, CommitPoint

\* The last publication of execute() closes the transaction and reports success.
LEMMA PublishCleanedStep ==
    ASSUME IInv, PublishCleaned PROVE IInv'
<1> DEFINE record == NextRecord("OwnedStagingArtifactsCleaned")
<1>1. /\ xpc = "PublishCleaned" /\ effect = "Committed" /\ own.committed
      /\ XPublish(record, XReturn("Success"))
      /\ xrec.generation \in 4..5
  BY DEF PublishCleaned, IInv, MemoryInv, BodyInv, CommitPoint
<1>2. record \in Record /\ record.generation \in Generation
      /\ record.state = "OwnedStagingArtifactsCleaned"
  BY <1>1, NextRecordFacts, RecordFacts DEF IInv, TypeOK, ImageFileTransactionState
<1> HIDE DEF record
<1>3. /\ generations' \in [Generation -> GenerationFile]
      /\ pending' \in 0..(MaximumJournalFiles + 1)
      /\ \A g \in Generation : generations[g] # Absent => generations'[g] # Absent
      /\ \A s : Recorded(s)' => Recorded(s) \/ s = record.state
      /\ (XReturn("Success") /\ generations'[record.generation] = record) \/ XCatch
  BY <1>1, <1>2, XPublished DEF IInv, TypeOK
<1>4. /\ UNCHANGED <<files, folder, request, own, recovery, history>>
      /\ phase' = "BeforeCommit" /\ xrec' = record
  BY <1>1 DEF XPublish
<1>5. \/ /\ xpc' = "Done" /\ result' = "Success" /\ lease' = "None"
         /\ inBody' = inBody /\ Recorded("OwnedStagingArtifactsCleaned")'
      \/ /\ xpc' = "CheckOriginal" /\ inBody' = FALSE
         /\ result' = result /\ lease' = lease
  BY <1>2, <1>3 DEF XReturn, XCatch, Recorded
<1> USE <1>1, <1>4, <1>5 DEF files, request, recovery, history
<1>6. FilesOK' /\ RecoveryOK' /\ IdentityInv' /\ RecoveryInv'
  BY DEF IInv, TypeOK, FilesOK, RecoveryOK, IdentityInv, RecoveryInv, Replacement
<1>7. JournalOK' /\ ExecutionOK'
  BY <1>2, <1>3 DEF IInv, TypeOK, JournalOK, ExecutionOK, CleanupPoint
<1>8. LeaseInv' /\ ResultInv'
  BY DEF IInv, LeaseInv, ResultInv, ExecuteActive, RecoveryActive, BodyPoint, CleanupPoint
<1>9. EffectInv' /\ StartInv' /\ BodyInv' /\ MemoryInv'
  BY <1>3 DEF IInv, EffectInv, StartInv, BodyInv, MemoryInv, BodyPoint, CommitPoint,
              Replacement, Generation, MaximumGeneration
<1>10. CleanupInv'
  BY DEF IInv, EffectInv, CleanupInv, CleanupPoint
<1>11. AbandonmentIsTrue' /\ CommitRecordIsTrue' /\ OutcomeIsTrue'
  BY <1>2, <1>3 DEF IInv, ResultInv, EffectInv, AbandonmentIsTrue, CommitRecordIsTrue,
                    OutcomeIsTrue
<1> QED
  BY <1>6, <1>7, <1>8, <1>9, <1>10, <1>11 DEF IInv, TypeOK

\* cleanupAndAbandon() closes the persisted chain only when nothing took effect.
LEMMA AbandonStep ==
    ASSUME IInv, Abandon PROVE IInv'
<1>1. /\ \A g \in Generation : generations[g] # Absent => generations'[g] # Absent
      /\ generations' \in [Generation -> GenerationFile]
      /\ pending' \in 0..(MaximumJournalFiles + 1)
      /\ \A s : Recorded(s)' => \/ Recorded(s)
                                \/ ~own.committed /\ s = "TransactionAbandonedBeforeCommit"
      /\ \A s \in ImageFileTransactionState : Recorded(s) => Recorded(s)'
  <2>1. CASE generations' = generations /\ pending' = pending
    BY <2>1 DEF IInv, TypeOK, JournalOK, Recorded
  <2>2. ASSUME NEW n \in Generation, ReadsChain(disposition, generations, pending, n),
               Publishable(AbandonedAfter(generations[n])),
               generations' = generations, pending' = pending + 1
        PROVE  <1>1!:
    BY <2>2, PendingBound DEF IInv, TypeOK, JournalOK, Recorded
  <2>3. ASSUME NEW n \in Generation, ReadsChain(disposition, generations, pending, n),
               Publishable(AbandonedAfter(generations[n])), ~own.committed,
               Appends(AbandonedAfter(generations[n])), pending' = pending
        PROVE  <1>1!:
    <3>1. generations[n] \in Record
      BY <2>3, ReadRecord
    <3>2. /\ AbandonedAfter(generations[n]) \in Record
          /\ AbandonedAfter(generations[n]).state = "TransactionAbandonedBeforeCommit"
      BY <2>3, <3>1, PublishedName, AbandonedRecord DEF IInv, TypeOK, JournalOK
    <3> QED
      BY <2>3, <3>2, Appended DEF IInv, TypeOK, JournalOK
  <2>4. (0..MaximumGeneration) \ {0} = Generation
    BY DEF Generation, MaximumGeneration
  <2> QED
    BY <2>1, <2>2, <2>3, <2>4 DEF Abandon
<1>2. UNCHANGED <<files, folder, request, phase, own, xrec, recovery, history>>
  BY DEF Abandon
<1>3. \/ /\ xpc' = "Done" /\ lease' = "None" /\ inBody' = inBody
         /\ result' \in {"Refused", "RecoveryConflict"}
         /\ result' = "Refused" => ~own.committed
      \/ /\ xpc' = "CheckOriginal" /\ inBody' = FALSE /\ inBody
         /\ lease' = lease /\ result' = result
  BY DEF Abandon, CleanupReturns, CleanupThrows, XReturn, XCatch
<1>4. /\ xpc = "Abandon"
      /\ ~own.committed => effect = "None" /\ ~own.file /\ stage.id # StageId
      /\ own.committed => effect = "Committed"
  BY DEF Abandon, IInv, CleanupInv, CleanupPoint
<1> USE <1>2, <1>3, <1>4 DEF files, request, recovery, history
<1>5. FilesOK' /\ RecoveryOK' /\ IdentityInv' /\ RecoveryInv'
  BY DEF IInv, TypeOK, FilesOK, RecoveryOK, IdentityInv, RecoveryInv, Replacement
<1>6. JournalOK' /\ ExecutionOK'
  BY <1>1 DEF IInv, TypeOK, JournalOK, ExecutionOK, CleanupPoint
<1>7. LeaseInv' /\ ResultInv'
  BY DEF IInv, LeaseInv, ResultInv, ExecuteActive, RecoveryActive, BodyPoint, CleanupPoint
<1>8. EffectInv' /\ StartInv' /\ BodyInv' /\ MemoryInv'
  BY <1>1 DEF IInv, EffectInv, StartInv, BodyInv, MemoryInv, BodyPoint, CommitPoint,
              Replacement, Generation, MaximumGeneration
<1>9. CleanupInv'
  BY DEF IInv, CleanupInv, CleanupPoint
<1>10. AbandonmentIsTrue' /\ CommitRecordIsTrue'
  BY <1>1 DEF IInv, EffectInv, AbandonmentIsTrue, CommitRecordIsTrue
<1>11. OutcomeIsTrue'
  BY <1>1 DEF IInv, ResultInv, OutcomeIsTrue, ImageFileTransactionState
<1> QED
  BY <1>5, <1>6, <1>7, <1>8, <1>9, <1>10, <1>11 DEF IInv, TypeOK

-----------------------------------------------------------------------------
(* recoverIncompleteTransactions() *)

\* Recovery starts only with the lease, so never beside an execution.
LEMMA StartRecoveryStep ==
    ASSUME IInv, StartRecovery
    PROVE  IInv'
<1> USE DEF StartRecovery, files, journal, request, execution, recovery, history
<1>1. FilesOK' /\ ExecutionOK' /\ ResultInv' /\ IdentityInv' /\ EffectInv' /\
      StartInv' /\ BodyInv' /\ MemoryInv' /\ CleanupInv' /\ AbandonmentIsTrue' /\
      CommitRecordIsTrue' /\ OutcomeIsTrue'
  BY DEF IInv, TypeOK, FilesOK, ExecutionOK, ResultInv, IdentityInv, EffectInv,
         StartInv, BodyInv, MemoryInv, CleanupInv, AbandonmentIsTrue,
         CommitRecordIsTrue, OutcomeIsTrue, Replacement, Recorded
<1>2. JournalOK'
  BY DEF IInv, TypeOK, JournalOK
<1>3. RecoveryOK'
  BY DEF IInv, TypeOK, RecoveryOK
<1>4. LeaseInv'
  BY DEF IInv, LeaseInv, ExecuteActive, RecoveryActive
<1>5. RecoveryInv'
  BY DEF RecoveryInv
<1> QED
  BY <1>1, <1>2, <1>3, <1>4, <1>5 DEF IInv, TypeOK

\* What recovery reads is a valid record, and the identity it opens bounds
\* what can have happened.
LEMMA ReadJournalStep ==
    ASSUME IInv, ReadJournal
    PROVE  IInv'
<1> USE DEF ReadJournal, files, journal, request, execution, recovery, history, REnd,
        RGoto
<1>1. FilesOK' /\ ExecutionOK' /\ ResultInv' /\ IdentityInv' /\ EffectInv' /\
      StartInv' /\ BodyInv' /\ MemoryInv' /\ CleanupInv' /\ AbandonmentIsTrue' /\
      CommitRecordIsTrue' /\ OutcomeIsTrue'
  BY DEF IInv, TypeOK, FilesOK, ExecutionOK, ResultInv, IdentityInv, EffectInv,
         StartInv, BodyInv, MemoryInv, CleanupInv, AbandonmentIsTrue,
         CommitRecordIsTrue, OutcomeIsTrue, Replacement, Recorded
<1>2. JournalOK'
  BY DEF IInv, TypeOK, JournalOK
<1>3. RecoveryOK'
  BY ReadJournalObserves, ObservationValues DEF IInv, TypeOK, RecoveryOK
<1>4. LeaseInv'
  BY ReadJournalObserves DEF IInv, LeaseInv, ExecuteActive, RecoveryActive
<1>5. RecoveryInv'
  BY ReadJournalObserves DEF IInv, RecoveryInv, EffectInv, IdentityInv, Replacement
<1> QED
  BY <1>1, <1>2, <1>3, <1>4, <1>5 DEF IInv, TypeOK

\* Checking the recorded backup changes no file.
LEMMA CheckBackupStep ==
    ASSUME IInv, CheckBackup
    PROVE  IInv'
<1> USE DEF CheckBackup, files, journal, request, execution, recovery, history, REnd,
        RGoto
<1>1. FilesOK' /\ ExecutionOK' /\ ResultInv' /\ IdentityInv' /\ EffectInv' /\
      StartInv' /\ BodyInv' /\ MemoryInv' /\ CleanupInv' /\ AbandonmentIsTrue' /\
      CommitRecordIsTrue' /\ OutcomeIsTrue'
  BY DEF IInv, TypeOK, FilesOK, ExecutionOK, ResultInv, IdentityInv, EffectInv,
         StartInv, BodyInv, MemoryInv, CleanupInv, AbandonmentIsTrue,
         CommitRecordIsTrue, OutcomeIsTrue, Replacement, Recorded
<1>2. JournalOK'
  BY DEF IInv, TypeOK, JournalOK
<1>3. RecoveryOK'
  BY ObservationValues DEF IInv, TypeOK, RecoveryOK
<1>4. LeaseInv'
  BY DEF IInv, LeaseInv, ExecuteActive, RecoveryActive
<1>5. RecoveryInv'
  BY DEF IInv, RecoveryInv, Replacement
<1> QED
  BY <1>1, <1>2, <1>3, <1>4, <1>5 DEF IInv, TypeOK

\* Hashing the original changes no file and keeps the opened identity.
LEMMA ObserveSourceStep ==
    ASSUME IInv, ObserveSource
    PROVE  IInv'
<1> USE DEF ObserveSource, files, journal, request, execution, recovery, history,
        REnd, RGoto
<1>1. FilesOK' /\ ExecutionOK' /\ ResultInv' /\ IdentityInv' /\ EffectInv' /\
      StartInv' /\ BodyInv' /\ MemoryInv' /\ CleanupInv' /\ AbandonmentIsTrue' /\
      CommitRecordIsTrue' /\ OutcomeIsTrue'
  BY DEF IInv, TypeOK, FilesOK, ExecutionOK, ResultInv, IdentityInv, EffectInv,
         StartInv, BodyInv, MemoryInv, CleanupInv, AbandonmentIsTrue,
         CommitRecordIsTrue, OutcomeIsTrue, Replacement, Recorded
<1>2. JournalOK'
  BY DEF IInv, TypeOK, JournalOK
<1>3. RecoveryOK'
  BY ObservationValues, ObservationChanges DEF IInv, TypeOK, RecoveryOK
<1>4. LeaseInv'
  BY DEF IInv, LeaseInv, ExecuteActive, RecoveryActive
<1>5. RecoveryInv'
  BY DEF IInv, TypeOK, RecoveryOK, Observation, RecoveryInv, Replacement
<1> QED
  BY <1>1, <1>2, <1>3, <1>4, <1>5 DEF IInv, TypeOK

\* The decision of recovery is justified by what it read and observed.
LEMMA DecideStep ==
    ASSUME IInv, Decide
    PROVE  IInv'
<1> USE DEF Decide, files, journal, request, execution, recovery, history, REnd, RGoto
<1>1. FilesOK' /\ ExecutionOK' /\ ResultInv' /\ IdentityInv' /\ EffectInv' /\
      StartInv' /\ BodyInv' /\ MemoryInv' /\ CleanupInv' /\ AbandonmentIsTrue' /\
      CommitRecordIsTrue' /\ OutcomeIsTrue'
  BY DEF IInv, TypeOK, FilesOK, ExecutionOK, ResultInv, IdentityInv, EffectInv,
         StartInv, BodyInv, MemoryInv, CleanupInv, AbandonmentIsTrue,
         CommitRecordIsTrue, OutcomeIsTrue, Replacement, Recorded
<1>2. JournalOK'
  BY DEF IInv, TypeOK, JournalOK
<1>3. RecoveryOK'
  BY ObservationValues DEF IInv, TypeOK, RecoveryOK
<1>4. LeaseInv'
  BY DEF IInv, LeaseInv, ExecuteActive, RecoveryActive
<1>5. RecoveryInv'
  BY StateIndexValues, ValidGeneration, RecordFacts
     DEF IInv, TypeOK, RecoveryInv, EffectInv, IdentityInv, Replacement, JournalOK,
         OutputObserved, CommitExplained, AbandonExplained, SourcePreserved, Terminal,
         ImageFileTransactionState, Copy, ReplaceWithBackup, NoFile, StageId
<1> QED
  BY <1>1, <1>2, <1>3, <1>4, <1>5 DEF IInv, TypeOK

\* Verifying the stage to be abandoned changes no file.
LEMMA RecoveryVerifiesStageStep ==
    ASSUME IInv, RecoveryVerifiesStage
    PROVE  IInv'
<1> USE DEF RecoveryVerifiesStage, files, journal, request, execution, recovery,
        history, REnd, RGoto
<1>1. FilesOK' /\ ExecutionOK' /\ ResultInv' /\ IdentityInv' /\ EffectInv' /\
      StartInv' /\ BodyInv' /\ MemoryInv' /\ CleanupInv' /\ AbandonmentIsTrue' /\
      CommitRecordIsTrue' /\ OutcomeIsTrue'
  BY DEF IInv, TypeOK, FilesOK, ExecutionOK, ResultInv, IdentityInv, EffectInv,
         StartInv, BodyInv, MemoryInv, CleanupInv, AbandonmentIsTrue,
         CommitRecordIsTrue, OutcomeIsTrue, Replacement, Recorded
<1>2. JournalOK'
  BY DEF IInv, TypeOK, JournalOK
<1>3. RecoveryOK'
  BY ObservationValues DEF IInv, TypeOK, RecoveryOK
<1>4. LeaseInv'
  BY DEF IInv, LeaseInv, ExecuteActive, RecoveryActive
<1>5. RecoveryInv'
  BY DEF IInv, RecoveryInv, EffectInv
<1> QED
  BY <1>1, <1>2, <1>3, <1>4, <1>5 DEF IInv, TypeOK

\* Recovery removes the stage by identity, or finds it gone.
LEMMA RecoveryRemovesStageStep ==
    ASSUME IInv, RecoveryRemovesStage
    PROVE  IInv'
<1> USE DEF RecoveryRemovesStage, files, journal, request, execution, recovery,
        history, REnd, RGoto
<1>1. ExecutionOK' /\ ResultInv' /\ BodyInv' /\ MemoryInv' /\ OutcomeIsTrue'
  BY DEF IInv, TypeOK, ExecutionOK, ResultInv, BodyInv, MemoryInv, OutcomeIsTrue,
         Recorded, Replacement
<1>2. FilesOK'
  BY FileIdentities DEF IInv, TypeOK, FilesOK
<1>3. JournalOK'
  BY DEF IInv, TypeOK, JournalOK
<1>4. RecoveryOK'
  BY ObservationValues DEF IInv, TypeOK, RecoveryOK
<1>5. LeaseInv'
  BY DEF IInv, LeaseInv, ExecuteActive, RecoveryActive
<1>6. IdentityInv'
  BY DEF IInv, IdentityInv, Replacement, NoFile
<1>7. EffectInv'
  BY DEF IInv, EffectInv, Replacement
<1>8. StartInv'
  BY DEF IInv, StartInv
<1>9. CleanupInv'
  BY DEF IInv, CleanupInv, Replacement
<1>10. RecoveryInv'
  BY DEF IInv, RecoveryInv, Replacement, NoFile, StageId
<1>11. AbandonmentIsTrue'
  BY DEF IInv, AbandonmentIsTrue, Recorded
<1>12. CommitRecordIsTrue'
  BY DEF IInv, CommitRecordIsTrue, Recorded
<1> QED
  BY <1>1, <1>2, <1>3, <1>4, <1>5, <1>6, <1>7, <1>8, <1>9, <1>10, <1>11, <1>12 DEF
     IInv, TypeOK

\* A recovery run that throws reports a conflict and changes no file.
LEMMA RecoveryThrowsStep ==
    ASSUME IInv, RecoveryThrows
    PROVE  IInv'
<1> USE DEF RecoveryThrows, files, journal, request, execution, recovery, history,
        REnd, RGoto
<1>1. FilesOK' /\ ExecutionOK' /\ ResultInv' /\ IdentityInv' /\ EffectInv' /\
      StartInv' /\ BodyInv' /\ MemoryInv' /\ CleanupInv' /\ AbandonmentIsTrue' /\
      CommitRecordIsTrue' /\ OutcomeIsTrue'
  BY DEF IInv, TypeOK, FilesOK, ExecutionOK, ResultInv, IdentityInv, EffectInv,
         StartInv, BodyInv, MemoryInv, CleanupInv, AbandonmentIsTrue,
         CommitRecordIsTrue, OutcomeIsTrue, Replacement, Recorded
<1>2. JournalOK'
  BY DEF IInv, TypeOK, JournalOK
<1>3. RecoveryOK'
  BY ObservationValues DEF RecoveryOK
<1>4. LeaseInv'
  BY DEF IInv, LeaseInv, ExecuteActive, RecoveryActive
<1>5. RecoveryInv'
  BY DEF RecoveryInv
<1> QED
  BY <1>1, <1>2, <1>3, <1>4, <1>5 DEF IInv, TypeOK

\* Every publication of recovery: a closing record that is true of the files.
LEMMA RecordStep ==
    ASSUME IInv, rpc \notin {"Idle", "ReadJournal"},
           NEW record, NEW ACTION Then, RPublish(record, Then),
           Publishable(record) =>
               /\ record \in Record
               /\ IF effect = "None"
                  THEN /\ record.state = "TransactionAbandonedBeforeCommit"
                       /\ stage.id # StageId
                  ELSE /\ record.state \in {"OutputCommitted",
                                           "OwnedStagingArtifactsCleaned"}
                       /\ effect = "Committed",
           Publishable(record) /\ Then =>
               /\ RecoveryOK' /\ RecoveryInv'
               /\ lease' = (IF rpc' = "Idle" THEN "None" ELSE "recovery")
    PROVE  IInv'
<1>1. /\ \A g \in Generation : generations[g] # Absent => generations'[g] # Absent
      /\ generations' \in [Generation -> GenerationFile]
      /\ pending' \in 0..(MaximumJournalFiles + 1)
      /\ \A s : Recorded(s)' => Recorded(s) \/ (Publishable(record) /\ s = record.state)
      /\ \A s \in ImageFileTransactionState : Recorded(s) => Recorded(s)'
      /\ (Publishable(record) /\ Then) \/ REnd("Conflict")
  BY RPublished DEF IInv, TypeOK
<1>2. UNCHANGED <<files, folder, request, execution, history>>
  BY DEF RPublish
<1>3. /\ RecoveryOK' /\ RecoveryInv'
      /\ lease' = (IF rpc' = "Idle" THEN "None" ELSE "recovery")
  BY <1>1, <1>2, ObservationValues DEF REnd, IInv, TypeOK, RecoveryOK, RecoveryInv
<1>4. xpc \in {"Done", "Crashed"}
  BY DEF IInv, TypeOK, ExecutionOK, LeaseInv, ExecuteActive, RecoveryActive
<1> USE <1>2, <1>3, <1>4 DEF files, request, execution, history
<1>5. FilesOK' /\ ExecutionOK' /\ IdentityInv' /\ ResultInv' /\ CleanupInv'
  BY DEF IInv, TypeOK, FilesOK, ExecutionOK, IdentityInv, ResultInv, CleanupInv,
         Replacement
<1>6. JournalOK' /\ LeaseInv'
  BY <1>1 DEF IInv, TypeOK, JournalOK, LeaseInv, ExecuteActive, RecoveryActive
<1>7. EffectInv'
  BY <1>1 DEF IInv, EffectInv, Replacement, Generation, MaximumGeneration
<1>8. StartInv' /\ BodyInv' /\ MemoryInv'
  BY DEF StartInv, BodyInv, MemoryInv, BodyPoint, CommitPoint
<1>10. AbandonmentIsTrue' /\ CommitRecordIsTrue'
  BY <1>1 DEF IInv, EffectInv, AbandonmentIsTrue, CommitRecordIsTrue
<1>11. OutcomeIsTrue'
  BY <1>1 DEF IInv, OutcomeIsTrue, ImageFileTransactionState
<1> QED
  BY <1>3, <1>5, <1>6, <1>7, <1>8, <1>10, <1>11 DEF IInv, TypeOK

\* Recovery records an abandonment only when nothing took effect.
LEMMA RecordAbandonedStep ==
    ASSUME IInv, RecordAbandoned PROVE IInv'
<1> DEFINE record == AbandonedAfter(rrec)
<1>1. /\ rpc = "RecordAbandoned" /\ RPublish(record, REnd("Recovered"))
      /\ rrec \in Record /\ stage.id # StageId
      /\ effect = "None" \/ rrec.generation <= 2
  BY DEF RecordAbandoned, IInv, RecoveryInv
<1>2. ASSUME Publishable(record)
      PROVE  /\ record \in Record
             /\ record.state = "TransactionAbandonedBeforeCommit"
             /\ effect = "None"
  <2>1. /\ record \in Record
        /\ record.generation = rrec.generation + 1
        /\ record.state = "TransactionAbandonedBeforeCommit"
    BY <1>1, <1>2, PublishedName, AbandonedRecord DEF IInv, TypeOK, JournalOK
  <2>2. generations[rrec.generation + 1] = Absent
    BY <1>2, <2>1, PublishedName
  <2> QED
    BY <1>1, <2>1, <2>2, RecordFacts DEF IInv, EffectInv
<1>3. ASSUME REnd("Recovered")
      PROVE  RecoveryOK' /\ RecoveryInv' /\ lease' = "None" /\ rpc' = "Idle"
  BY <1>3, ObservationValues DEF REnd, RecoveryOK, RecoveryInv
<1> HIDE DEF record
<1> QED
  BY <1>1, <1>2, <1>3, RecordStep

\* Recovery records a commit only when it happened.
LEMMA RecordCommittedStep ==
    ASSUME IInv, RecordCommitted PROVE IInv'
<1> DEFINE record == Successor(rrec, "OutputCommitted")
           Proceeds == RGoto("RecordCleaned") /\ rrec' = record /\ UNCHANGED robs
<1>1. /\ rpc = "RecordCommitted" /\ effect = "Committed" /\ lease = "recovery"
      /\ rrec \in Record /\ ValidRecord(disposition, rrec)
  BY DEF RecordCommitted, IInv, RecoveryInv, LeaseInv, RecoveryActive
<1>2. CASE rrec.state = "OutputCommitted"
  <2> USE <1>1, <1>2 DEF RecordCommitted, RGoto, files, journal, request, execution, history
  <2>1. /\ FilesOK' /\ JournalOK' /\ ExecutionOK' /\ RecoveryOK' /\ ResultInv'
        /\ IdentityInv' /\ EffectInv' /\ StartInv' /\ BodyInv' /\ MemoryInv'
        /\ CleanupInv' /\ AbandonmentIsTrue' /\ CommitRecordIsTrue' /\ OutcomeIsTrue'
    BY DEF IInv, TypeOK, FilesOK, JournalOK, ExecutionOK, RecoveryOK, ResultInv,
           IdentityInv, EffectInv, StartInv, BodyInv, MemoryInv, CleanupInv,
           AbandonmentIsTrue, CommitRecordIsTrue, OutcomeIsTrue, Recorded, Replacement
  <2>2. LeaseInv'
    BY DEF IInv, LeaseInv, ExecuteActive, RecoveryActive
  <2>3. RecoveryInv'
    BY DEF IInv, RecoveryInv, Replacement
  <2> QED
    BY <2>1, <2>2, <2>3 DEF IInv, TypeOK
<1>3. CASE rrec.state # "OutputCommitted"
  <2>1. RPublish(record, Proceeds)
    BY <1>3 DEF RecordCommitted
  <2>2. ASSUME Publishable(record)
        PROVE  /\ record \in Record /\ ValidRecord(disposition, record)
               /\ record.state = "OutputCommitted"
    BY <1>1, <2>2, PublishedName, SuccessorRecord
       DEF IInv, TypeOK, JournalOK, ImageFileTransactionState
  <2>3. UNCHANGED <<files, request, execution, history>>
    BY <2>1 DEF RPublish
  <2> HIDE DEF record
  <2>4. ASSUME Publishable(record), Proceeds
        PROVE  RecoveryOK' /\ RecoveryInv' /\ lease' = "recovery" /\ rpc' = "RecordCleaned"
    BY <1>1, <2>2, <2>3, <2>4, StateIndexValues
       DEF RGoto, IInv, TypeOK, RecoveryOK, RecoveryInv, Replacement, files, request, history
  <2> HIDE DEF Proceeds
  <2> QED
    BY <1>1, <2>1, <2>2, <2>4, RecordStep
<1> QED
  BY <1>2, <1>3

\* Recovery records the cleanup only after the recorded commit.
LEMMA RecordCleanedStep ==
    ASSUME IInv, RecordCleaned PROVE IInv'
<1> DEFINE record == Successor(rrec, "OwnedStagingArtifactsCleaned")
<1>1. /\ rpc = "RecordCleaned" /\ RPublish(record, REnd("Recovered"))
      /\ rrec \in Record /\ effect = "Committed"
  BY DEF RecordCleaned, IInv, RecoveryInv
<1>2. ASSUME Publishable(record)
      PROVE  /\ record \in Record
             /\ record.state = "OwnedStagingArtifactsCleaned"
  BY <1>1, <1>2, PublishedName, SuccessorRecord
     DEF IInv, TypeOK, JournalOK, ImageFileTransactionState
<1>3. ASSUME REnd("Recovered")
      PROVE  RecoveryOK' /\ RecoveryInv' /\ lease' = "None" /\ rpc' = "Idle"
  BY <1>3, ObservationValues DEF REnd, RecoveryOK, RecoveryInv
<1> HIDE DEF record
<1> QED
  BY <1>1, <1>2, <1>3, RecordStep

-----------------------------------------------------------------------------
(* Crashes, cancellation, the user and other programs *)

\* A crash of execute() loses its memory and its lease, never a file.
LEMMA ExecuteCrashesStep ==
    ASSUME IInv, ExecuteCrashes
    PROVE  IInv'
<1> USE DEF ExecuteCrashes, files, journal, request, execution, recovery, history
<1>1. FilesOK' /\ RecoveryOK' /\ IdentityInv' /\ EffectInv' /\ RecoveryInv' /\
      AbandonmentIsTrue' /\ CommitRecordIsTrue' /\ OutcomeIsTrue'
  BY DEF IInv, TypeOK, FilesOK, RecoveryOK, IdentityInv, EffectInv, RecoveryInv,
         AbandonmentIsTrue, CommitRecordIsTrue, OutcomeIsTrue, Replacement, Recorded
<1>2. JournalOK'
  BY LeavesPendingBound DEF IInv, TypeOK, JournalOK
<1>3. ExecutionOK'
  BY OwnedStageValues DEF IInv, TypeOK, ExecutionOK, BodyPoint
<1>4. LeaseInv' /\ ResultInv'
  BY DEF IInv, LeaseInv, ResultInv, ExecuteActive, RecoveryActive, BodyPoint,
         CleanupPoint
<1>5. StartInv'
  BY DEF StartInv
<1>6. BodyInv'
  BY DEF BodyInv, BodyPoint, CommitPoint
<1>7. MemoryInv'
  BY DEF MemoryInv, BodyPoint
<1>8. CleanupInv'
  BY DEF CleanupInv, CleanupPoint
<1> QED
  BY <1>1, <1>2, <1>3, <1>4, <1>5, <1>6, <1>7, <1>8 DEF IInv, TypeOK

\* A crash of a recovery run loses its memory and its lease.
LEMMA RecoveryCrashesStep ==
    ASSUME IInv, RecoveryCrashes
    PROVE  IInv'
<1> USE DEF RecoveryCrashes, files, journal, request, execution, recovery, history,
        REnd, RGoto
<1>1. FilesOK' /\ ExecutionOK' /\ ResultInv' /\ IdentityInv' /\ EffectInv' /\
      StartInv' /\ BodyInv' /\ MemoryInv' /\ CleanupInv' /\ AbandonmentIsTrue' /\
      CommitRecordIsTrue' /\ OutcomeIsTrue'
  BY DEF IInv, TypeOK, FilesOK, ExecutionOK, ResultInv, IdentityInv, EffectInv,
         StartInv, BodyInv, MemoryInv, CleanupInv, AbandonmentIsTrue,
         CommitRecordIsTrue, OutcomeIsTrue, Replacement, Recorded
<1>2. JournalOK'
  BY LeavesPendingBound DEF IInv, TypeOK, JournalOK
<1>3. RecoveryOK'
  BY ObservationValues DEF RecoveryOK
<1>4. LeaseInv'
  BY DEF IInv, LeaseInv, ExecuteActive, RecoveryActive
<1>5. RecoveryInv'
  BY DEF RecoveryInv
<1> QED
  BY <1>1, <1>2, <1>3, <1>4, <1>5 DEF IInv, TypeOK

\* A cancelled recovery run changes no file.
LEMMA RecoveryObservesStopStep ==
    ASSUME IInv, RecoveryObservesStop
    PROVE  IInv'
<1> USE DEF RecoveryObservesStop, files, journal, request, execution, recovery,
        history, REnd, RGoto
<1>1. FilesOK' /\ ExecutionOK' /\ ResultInv' /\ IdentityInv' /\ EffectInv' /\
      StartInv' /\ BodyInv' /\ MemoryInv' /\ CleanupInv' /\ AbandonmentIsTrue' /\
      CommitRecordIsTrue' /\ OutcomeIsTrue'
  BY DEF IInv, TypeOK, FilesOK, ExecutionOK, ResultInv, IdentityInv, EffectInv,
         StartInv, BodyInv, MemoryInv, CleanupInv, AbandonmentIsTrue,
         CommitRecordIsTrue, OutcomeIsTrue, Replacement, Recorded
<1>2. JournalOK'
  BY DEF IInv, TypeOK, JournalOK
<1>3. RecoveryOK'
  BY ObservationValues DEF RecoveryOK
<1>4. LeaseInv'
  BY DEF IInv, LeaseInv, ExecuteActive, RecoveryActive
<1>5. RecoveryInv'
  BY DEF RecoveryInv
<1> QED
  BY <1>1, <1>2, <1>3, <1>4, <1>5 DEF IInv, TypeOK

\* An edit in place keeps the identity of the original.
LEMMA UserEditsSourceStep ==
    ASSUME IInv, UserEditsSource
    PROVE  IInv'
<1> USE DEF UserEditsSource, files, journal, request, execution, recovery, history
<1>1. JournalOK' /\ ExecutionOK' /\ RecoveryOK' /\ LeaseInv' /\ ResultInv' /\
      StartInv' /\ BodyInv' /\ MemoryInv' /\ CleanupInv' /\ RecoveryInv' /\
      AbandonmentIsTrue' /\ CommitRecordIsTrue' /\ OutcomeIsTrue'
  BY DEF IInv, TypeOK, JournalOK, ExecutionOK, RecoveryOK, LeaseInv, ResultInv,
         StartInv, BodyInv, MemoryInv, CleanupInv, RecoveryInv, AbandonmentIsTrue,
         CommitRecordIsTrue, OutcomeIsTrue, ExecuteActive, RecoveryActive, Recorded,
         Replacement
<1>2. PICK bytes \in ExternalBytes \cup {source.bytes} :
            source' = [source EXCEPT !.bytes = bytes, !.stamp = "later"]
  OBVIOUS
<1>3. bytes \in Bytes
  BY ExternalBytesAssumption, FileIdentities DEF IInv, TypeOK, FilesOK
<1>4. FilesOK'
  BY <1>2, <1>3, FileChanges DEF IInv, TypeOK, FilesOK
<1>5. IdentityInv'
  BY DEF IInv, IdentityInv, Replacement
<1>6. EffectInv'
  BY DEF IInv, EffectInv, Replacement
<1> QED
  BY <1>1, <1>2, <1>3, <1>4, <1>5, <1>6 DEF IInv, TypeOK

\* The user's rename or deletion never brings back a program-owned identity.
LEMMA UserReplacesSourceStep ==
    ASSUME IInv, UserReplacesSource
    PROVE  IInv'
<1> USE DEF UserReplacesSource, files, journal, request, execution, recovery, history
<1>1. JournalOK' /\ ExecutionOK' /\ RecoveryOK' /\ LeaseInv' /\ ResultInv' /\
      StartInv' /\ BodyInv' /\ MemoryInv' /\ CleanupInv' /\ RecoveryInv' /\
      AbandonmentIsTrue' /\ CommitRecordIsTrue' /\ OutcomeIsTrue'
  BY DEF IInv, TypeOK, JournalOK, ExecutionOK, RecoveryOK, LeaseInv, ResultInv,
         StartInv, BodyInv, MemoryInv, CleanupInv, RecoveryInv, AbandonmentIsTrue,
         CommitRecordIsTrue, OutcomeIsTrue, ExecuteActive, RecoveryActive, Recorded,
         Replacement
<1>2. FilesOK'
  BY ExternalBytesAssumption DEF IInv, TypeOK, FilesOK, Slot, File, FileOf
<1>3. IdentityInv'
  BY DEF IInv, IdentityInv, Replacement, NoFile, FileOf, StageId, ForeignId
<1>4. EffectInv'
  BY DEF IInv, EffectInv, Replacement, NoFile, FileOf, SourceId, ForeignId
<1> QED
  BY <1>1, <1>2, <1>3, <1>4 DEF IInv, TypeOK

\* The user's change of the copy never brings back the stage's identity.
LEMMA UserChangesDestinationStep ==
    ASSUME IInv, UserChangesDestination
    PROVE  IInv'
<1> USE DEF UserChangesDestination, files, journal, request, execution, recovery,
        history
<1>1. JournalOK' /\ ExecutionOK' /\ RecoveryOK' /\ LeaseInv' /\ ResultInv' /\
      EffectInv' /\ StartInv' /\ BodyInv' /\ MemoryInv' /\ CleanupInv' /\ RecoveryInv'
      /\ AbandonmentIsTrue' /\ CommitRecordIsTrue' /\ OutcomeIsTrue'
  BY DEF IInv, TypeOK, JournalOK, ExecutionOK, RecoveryOK, LeaseInv, ResultInv,
         EffectInv, StartInv, BodyInv, MemoryInv, CleanupInv, RecoveryInv,
         AbandonmentIsTrue, CommitRecordIsTrue, OutcomeIsTrue, ExecuteActive,
         RecoveryActive, Replacement, Recorded
<1>2. FilesOK'
  BY ExternalBytesAssumption DEF IInv, TypeOK, FilesOK, Slot, File, FileOf, Bytes
<1>3. IdentityInv'
  BY DEF IInv, IdentityInv, NoFile, FileOf, StageId, ForeignId
<1> QED
  BY <1>1, <1>2, <1>3 DEF IInv, TypeOK

\* Tampering with stage or backup never creates a program-owned identity.
LEMMA ArtifactTamperedStep ==
    ASSUME IInv, ArtifactTampered
    PROVE  IInv'
<1> USE DEF ArtifactTampered, files, journal, request, execution, recovery, history
<1>1. JournalOK' /\ ExecutionOK' /\ RecoveryOK' /\ LeaseInv' /\ ResultInv' /\ BodyInv'
      /\ MemoryInv' /\ OutcomeIsTrue'
  BY DEF IInv, TypeOK, JournalOK, ExecutionOK, RecoveryOK, LeaseInv, ResultInv,
         BodyInv, MemoryInv, OutcomeIsTrue, ExecuteActive, RecoveryActive, Recorded,
         Replacement
<1>2. FilesOK'
  BY DEF IInv, TypeOK, FilesOK, Slot, File, FileOf, Bytes
<1>3. IdentityInv'
  BY DEF IInv, TypeOK, FilesOK, IdentityInv, Replacement, Slot, File, NoFile, FileOf
<1>4. EffectInv'
  BY DEF IInv, TypeOK, FilesOK, EffectInv, Replacement, Slot, File, NoFile, FileOf,
         StageId, ForeignId
<1>5. StartInv'
  BY DEF IInv, TypeOK, FilesOK, StartInv, Slot, File, NoFile, FileOf, StageId,
         ForeignId
<1>6. CleanupInv'
  BY DEF IInv, TypeOK, FilesOK, CleanupInv, Replacement, Slot, File, NoFile, FileOf,
         StageId, ForeignId
<1>7. RecoveryInv'
  BY DEF IInv, TypeOK, FilesOK, RecoveryInv, IdentityInv, Replacement, Slot, File,
         NoFile, FileOf, SourceId, StageId, BackupId
<1>8. AbandonmentIsTrue'
  BY DEF IInv, TypeOK, FilesOK, AbandonmentIsTrue, Recorded, Slot, File, NoFile,
         FileOf, StageId, ForeignId
<1>9. CommitRecordIsTrue'
  BY DEF IInv, TypeOK, FilesOK, CommitRecordIsTrue, Recorded, Slot, File, NoFile,
         FileOf, StageId, ForeignId
<1> QED
  BY <1>1, <1>2, <1>3, <1>4, <1>5, <1>6, <1>7, <1>8, <1>9 DEF IInv, TypeOK

\* Damage to a generation never makes it absent or a record.
LEMMA GenerationDamagedStep ==
    ASSUME IInv, GenerationDamaged
    PROVE  IInv'
<1> USE DEF GenerationDamaged, files, journal, request, execution, recovery, history
<1>1. FilesOK' /\ ExecutionOK' /\ RecoveryOK' /\ LeaseInv' /\ ResultInv' /\
      IdentityInv' /\ CleanupInv' /\ RecoveryInv'
  BY DEF IInv, TypeOK, FilesOK, ExecutionOK, RecoveryOK, LeaseInv, ResultInv,
         IdentityInv, CleanupInv, RecoveryInv, ExecuteActive, RecoveryActive,
         Replacement
<1>2. JournalOK'
  BY DEF IInv, TypeOK, JournalOK, GenerationFile
<1>3. EffectInv'
  BY DEF IInv, EffectInv, Replacement, Damaged, Absent
<1>4. StartInv'
  BY DEF IInv, StartInv
<1>5. BodyInv'
  BY DEF IInv, BodyInv, Recorded, Replacement, Damaged, Absent
<1>6. MemoryInv'
  BY DEF IInv, MemoryInv, Damaged, Absent
<1>7. AbandonmentIsTrue'
  BY DEF IInv, AbandonmentIsTrue, Recorded, Damaged
<1>8. CommitRecordIsTrue'
  BY DEF IInv, CommitRecordIsTrue, Recorded, Damaged
<1>9. OutcomeIsTrue'
  BY DEF IInv, OutcomeIsTrue
<1> QED
  BY <1>1, <1>2, <1>3, <1>4, <1>5, <1>6, <1>7, <1>8, <1>9 DEF IInv, TypeOK

\* A requested cancellation is only a flag until a step observes it.
LEMMA CancelStep ==
    ASSUME IInv, Cancel
    PROVE  IInv'
<1> USE DEF Cancel, files, journal, request, execution, recovery, history
<1>1. TypeOK'
  BY DEF IInv, TypeOK, FilesOK, JournalOK, ExecutionOK, RecoveryOK
<1>2. LeaseInv' /\ ResultInv' /\ IdentityInv' /\ EffectInv' /\ StartInv'
  BY DEF IInv, LeaseInv, ResultInv, IdentityInv, EffectInv, StartInv,
         ExecuteActive, RecoveryActive, Replacement
<1>3. BodyInv' /\ MemoryInv' /\ CleanupInv' /\ RecoveryInv'
  BY DEF IInv, BodyInv, MemoryInv, CleanupInv, RecoveryInv, Recorded, Replacement
<1>4. AbandonmentIsTrue' /\ CommitRecordIsTrue' /\ OutcomeIsTrue'
  BY DEF IInv, AbandonmentIsTrue, CommitRecordIsTrue, OutcomeIsTrue, Recorded
<1> QED
  BY <1>1, <1>2, <1>3, <1>4 DEF IInv

-----------------------------------------------------------------------------
(* The theorems *)

\* Every step of execute() preserves the invariant.
LEMMA ExecuteStepInv ==
    ASSUME IInv, ExecuteStep
    PROVE  IInv'
  BY PreflightStep, PreflightRefusesStep, BodyThrowsStep, CreateStageStep,
     CreateJournalFolderStep, WriteStageStep, VerifyStageStep, RecheckSourceStep,
     CreateBackupStep, VerifyBackupStep, RecheckAfterBackupStep, ReadIntentStep,
     RecheckBeforeReplacementStep, CommitReplacementStep, CommitCopyStep,
     VerifyCommittedStep, CheckOriginalStep, RemoveStageStep, PublishInitializedStep,
     PublishWrittenStep, PublishVerifiedStep, PublishBackupStep, PublishCommittedStep,
     PublishCleanedStep, AbandonStep
   DEF ExecuteStep

\* Every step of recovery preserves the invariant.
LEMMA RecoveryStepInv ==
    ASSUME IInv, RecoveryStep
    PROVE  IInv'
  BY StartRecoveryStep, ReadJournalStep, CheckBackupStep, ObserveSourceStep,
     DecideStep, RecoveryVerifiesStageStep, RecoveryRemovesStageStep,
     RecoveryThrowsStep, RecordAbandonedStep, RecordCommittedStep, RecordCleanedStep
   DEF RecoveryStep

\* Crashes, cancellation, the user and other programs preserve the invariant.
LEMMA EnvironmentInv ==
    ASSUME IInv, Environment
    PROVE  IInv'
  BY ExecuteCrashesStep, RecoveryCrashesStep, RecoveryObservesStopStep,
     UserEditsSourceStep, UserReplacesSourceStep, UserChangesDestinationStep,
     ArtifactTamperedStep, GenerationDamagedStep, CancelStep
   DEF Environment

\* A stuttering step preserves the invariant.
LEMMA StutterInv ==
    ASSUME IInv, UNCHANGED vars
    PROVE  IInv'
<1> USE DEF vars, files, journal, request, execution, recovery, history
<1>1. TypeOK'
  BY DEF IInv, TypeOK, FilesOK, JournalOK, ExecutionOK, RecoveryOK
<1>2. LeaseInv' /\ ResultInv' /\ IdentityInv' /\ EffectInv' /\ StartInv'
  BY DEF IInv, LeaseInv, ResultInv, IdentityInv, EffectInv, StartInv,
         ExecuteActive, RecoveryActive, Replacement
<1>3. BodyInv' /\ MemoryInv' /\ CleanupInv' /\ RecoveryInv'
  BY DEF IInv, BodyInv, MemoryInv, CleanupInv, RecoveryInv, Recorded, Replacement
<1>4. AbandonmentIsTrue' /\ CommitRecordIsTrue' /\ OutcomeIsTrue'
  BY DEF IInv, AbandonmentIsTrue, CommitRecordIsTrue, OutcomeIsTrue, Recorded
<1> QED
  BY <1>1, <1>2, <1>3, <1>4 DEF IInv

\* Whatever execution, recovery, crashes, cancellation, the user and other
\* programs do, the inductive invariant holds in every reachable state.
THEOREM InductiveInvariant == Spec => []IInv
<1>1. Init => IInv
  BY InitInv
<1>2. IInv /\ [Next]_vars => IInv'
  BY ExecuteStepInv, RecoveryStepInv, EnvironmentInv, StutterInv DEF Next
<1> QED
  BY <1>1, <1>2, PTL DEF Spec

\* Types: among others, no execution or recovery publishes a generation beyond
\* the sixth, and failed publications leave at most one pending file more than
\* readChain accepts.
THEOREM TypeCorrectness == Spec => []TypeOK
<1>1. IInv => TypeOK
  BY DEF IInv
<1> QED
  BY <1>1, InductiveInvariant, PTL

\* A recorded abandonment is true for ever: no native commit took effect and
\* the owned stage is gone, for every mix of crashes, failing calls, user
\* interference and journal damage.
THEOREM AbandonmentTruth == Spec => []AbandonmentIsTrue
<1>1. IInv => AbandonmentIsTrue
  BY DEF IInv
<1> QED
  BY <1>1, InductiveInvariant, PTL

\* A recorded commit happened, and is never also recorded as abandoned.
THEOREM CommitRecordTruth == Spec => []CommitRecordIsTrue
<1>1. IInv => CommitRecordIsTrue
  BY DEF IInv
<1> QED
  BY <1>1, InductiveInvariant, PTL

\* What execute() reports about the user's files is so.
THEOREM OutcomeTruth == Spec => []OutcomeIsTrue
<1>1. IInv => OutcomeIsTrue
  BY DEF IInv
<1> QED
  BY <1>1, InductiveInvariant, PTL

\* The lease keeps execution and recovery apart in every reachable state.
THEOREM ExecutionExcludesRecovery ==
    Spec => [](ExecuteActive => ~RecoveryActive)
<1>1. IInv => (ExecuteActive => ~RecoveryActive)
  BY DEF IInv, LeaseInv
<1> QED
  BY <1>1, InductiveInvariant, PTL

-----------------------------------------------------------------------------
(* Closing a chain *)

\* The record that readChain returns is the last one of a readable chain, and 0
\* means that nothing was published.
LEMMA ReadsNothing ==
    ASSUME ReadsChain(disposition, generations, pending, 0)
    PROVE  NothingPublished
BY DEF ReadsChain, NothingPublished, Generation, MaximumGeneration

\* The chain that publish() extends has at least the predecessor of the record.
LEMMA PublishedAfter ==
    ASSUME JournalOK, NEW record \in Record, Publishable(record),
           record.generation > 1
    PROVE  \E n \in Generation :
              /\ ReadsChain(disposition, generations, pending, n)
              /\ ValidSuccessor(disposition, generations[n], record)
              /\ record.generation = n + 1
<1>1. PICK n \in 0..MaximumGeneration :
         /\ ReadsChain(disposition, generations, pending, n)
         /\ IF n = 0 THEN record.generation = 1
                     ELSE ValidSuccessor(disposition, generations[n], record)
  BY DEF Publishable, CanPublish
<1>2. n \in Generation
  BY <1>1 DEF Generation, MaximumGeneration
<1>3. generations[n].generation = n
  BY <1>1, <1>2, ReadRecord
<1>4. ValidSuccessor(disposition, generations[n], record)
  BY <1>1, <1>2 DEF Generation
<1> QED
  BY <1>1, <1>2, <1>3, <1>4 DEF ValidSuccessor

\* A terminal record is never the first of its chain.
LEMMA TerminalGeneration ==
    ASSUME NEW record \in Record, Terminal(record.state),
           ValidRecord(disposition, record)
    PROVE  record.generation > 1
BY StateIndexValues DEF ValidRecord, ExpectedGeneration, Terminal, Record, Generation,
       MaximumGeneration

\* publish() of a terminal record closes the transaction.
LEMMA PublishedTerminal ==
    ASSUME JournalOK, JournalOK', NEW record \in Record, Publishable(record),
           Appends(record), Terminal(record.state), disposition' = disposition
    PROVE  Closed'
<1>1. record.generation > 1
  BY PublishedName, TerminalGeneration
<1>2. PICK n \in Generation :
         /\ ReadsChain(disposition, generations, pending, n)
         /\ ValidSuccessor(disposition, generations[n], record)
         /\ record.generation = n + 1
  BY <1>1, PublishedAfter
<1>3. n + 1 \in Generation /\ n \in Nat
  BY <1>2, RecordFacts DEF Generation
<1>4. /\ generations'[n + 1] = record
      /\ \A g \in 1..n : generations'[g] = generations[g]
  <2>1. \A g \in 1..n : g \in Generation /\ g # n + 1
    BY <1>3 DEF Generation, MaximumGeneration
  <2> QED
    BY <1>2, <2>1, Appended
<1>5. ReadablePrefix(disposition, generations, n)
  BY <1>2 DEF ReadsChain
<1>6. ReadablePrefix(disposition, generations', n + 1)
  <2> SUFFICES ASSUME NEW g \in 1..(n + 1)
               PROVE  /\ generations'[g] \in Record
                      /\ generations'[g].generation = g
                      /\ g = 1 => ValidRecord(disposition, generations'[g])
                      /\ g > 1 => ValidSuccessor(disposition, generations'[g - 1],
                                                 generations'[g])
    BY DEF ReadablePrefix
  <2>1. CASE g = n + 1
    BY <1>2, <1>3, <1>4, <2>1 DEF Generation
  <2>2. CASE g \in 1..n
    <3>1. g > 1 => g - 1 \in 1..n
      BY <1>3, <2>2
    <3> QED
      BY <1>4, <1>5, <2>2, <3>1 DEF ReadablePrefix
  <2> QED
    BY <1>3, <2>1, <2>2
<1> QED
  BY <1>3, <1>4, <1>6 DEF Closed

-----------------------------------------------------------------------------
(* What is reported as settled *)

\* execute() has a record in memory from the creation of the journal folder on.
LEMMA RecordInMemory ==
    ASSUME IInv, xpc \in BodyPoint \ {"CreateStage", "CreateJournalFolder"}
    PROVE  xrec # Absent /\ xrec.generation \in 1..5
BY DEF IInv, MemoryInv, BodyPoint, Absent

\* Cleanup starts without a record in memory only before anything was published.
LEMMA CleanupClosure ==
    ASSUME IInv, ClosureInv, Next, xpc' \in CleanupPoint, xrec' = Absent
    PROVE  NothingPublished'
<1> USE DEF NothingPublished
<1>1. CASE Preflight \/ PreflightRefuses \/ CreateStage \/ CreateJournalFolder
  BY <1>1 DEF IInv, StartInv, Preflight, PreflightRefuses, CreateStage,
     CreateJournalFolder, journal
<1>2. CASE BodyThrows
  BY <1>2, RecordInMemory DEF IInv, StartInv, BodyThrows, journal
<1>3. CASE \/ PublishInitialized \/ PublishWritten \/ PublishVerified \/ PublishBackup
           \/ PublishCommitted \/ PublishCleaned
  <2>1. xrec \in Record /\ xrec.generation \in 1..5
    BY <1>3, RecordInMemory DEF IInv, TypeOK, ExecutionOK, BodyPoint, PublishInitialized,
       PublishWritten, PublishVerified, PublishBackup, PublishCommitted, PublishCleaned
  <2>2. xrec'.generation > 0
    BY <1>3, <2>1 DEF PublishInitialized, PublishWritten, PublishVerified,
       PublishBackup, PublishCommitted, PublishCleaned, XPublish, NextRecord
  <2> QED
    BY <2>2 DEF Absent
<1>4. CASE \/ WriteStage \/ VerifyStage \/ RecheckSource \/ CreateBackup \/ VerifyBackup
           \/ RecheckAfterBackup \/ ReadIntent \/ RecheckBeforeReplacement
           \/ CommitReplacement \/ CommitCopy \/ VerifyCommitted
  BY <1>4, RecordInMemory DEF WriteStage, VerifyStage, RecheckSource, CreateBackup,
     VerifyBackup, RecheckAfterBackup, ReadIntent, RecheckBeforeReplacement,
     CommitReplacement, CommitCopy, VerifyCommitted, BodyPoint
<1>5. CASE CheckOriginal \/ RemoveStage \/ Abandon
  BY <1>5 DEF ClosureInv, CheckOriginal, RemoveStage, Abandon, CleanupPoint, journal
<1>6. CASE StartRecovery \/ RecoveryThrows \/ RecoveryObservesStop \/ RecoveryCrashes
  BY <1>6 DEF ClosureInv, StartRecovery, RecoveryThrows, RecoveryObservesStop,
     RecoveryCrashes, journal, execution
<1>7. CASE RecoveryStep /\ RecoveryActive
  <2>1. xpc' = xpc
    BY <1>7 DEF RecoveryStep, StartRecovery, ReadJournal, CheckBackup, ObserveSource,
       Decide, RecoveryVerifiesStage, RecoveryRemovesStage, RecordAbandoned,
       RecordCommitted, RecordCleaned, RecoveryThrows, RPublish, execution
  <2> QED
    BY <1>7, <2>1 DEF IInv, LeaseInv, ExecuteActive
<1>8. CASE ExecuteCrashes
  BY <1>8 DEF ExecuteCrashes, CleanupPoint
<1>9. CASE Cancel \/ UserEditsSource \/ UserReplacesSource \/ UserChangesDestination
           \/ ArtifactTampered
  BY <1>9 DEF ClosureInv, Cancel, UserEditsSource, UserReplacesSource,
     UserChangesDestination, ArtifactTampered, journal, execution
<1>10. CASE GenerationDamaged
  BY <1>10 DEF ClosureInv, GenerationDamaged, execution
<1> QED
  BY <1>1, <1>2, <1>3, <1>4, <1>5, <1>6, <1>7, <1>8, <1>9, <1>10 DEF Next, ExecuteStep, RecoveryStep, Environment,
     ReadJournal, CheckBackup, ObserveSource, Decide, RecoveryVerifiesStage,
     RecoveryRemovesStage, RecordAbandoned, RecordCommitted, RecordCleaned, RecoveryActive

\* The closing record that cleanup appends is a terminal one.
LEMMA AbandonCloses ==
    ASSUME IInv, IInv', NEW record \in Record, record.state \in ImageFileTransactionState,
           Publishable(AbandonedAfter(record)), Appends(AbandonedAfter(record)),
           disposition' = disposition
    PROVE  Closed' /\ Recorded("TransactionAbandonedBeforeCommit")'
<1>1. ValidRecord(disposition, AbandonedAfter(record)) /\ disposition \in OutputDisposition
  BY PublishedName DEF IInv, TypeOK, JournalOK
<1>2. /\ AbandonedAfter(record) \in Record
      /\ AbandonedAfter(record).state = "TransactionAbandonedBeforeCommit"
  BY <1>1, AbandonedRecord
<1>3. Closed'
  BY <1>2, PublishedTerminal DEF IInv, TypeOK, Terminal
<1>4. /\ generations'[AbandonedAfter(record).generation] = AbandonedAfter(record)
      /\ AbandonedAfter(record).generation \in Generation
  BY <1>2, Appended, RecordFacts DEF IInv, TypeOK
<1> QED
  BY <1>2, <1>3, <1>4 DEF Recorded

\* An ordinary failure of execute() has removed the stage and left no open chain.
LEMMA RefusalIsClosed ==
    ASSUME IInv, IInv', ClosureInv, ExecuteStep, result' # result, result' = "Refused"
    PROVE  /\ stage'.id # StageId
           /\ \/ NothingPublished'
              \/ Closed' /\ Recorded("TransactionAbandonedBeforeCommit")'
<1>1. CASE PreflightRefuses
  BY <1>1 DEF IInv, StartInv, PreflightRefuses, NothingPublished, files, journal
<1>2. CASE Abandon
  <2>1. ~own.committed /\ stage' = stage /\ UNCHANGED request
    BY <1>2 DEF Abandon, CleanupReturns, CleanupThrows, XCatch, XReturn, files
  <2>2. stage'.id # StageId
    BY <1>2, <2>1 DEF Abandon, IInv, CleanupInv, CleanupPoint
  <2>3. CASE xrec = Absent
    BY <1>2, <2>1, <2>2, <2>3 DEF Abandon, ClosureInv, CleanupPoint, NothingPublished
  <2>4. CASE /\ xrec # Absent
             /\ \/ NativeCallsFail
                \/ \A n \in 0..MaximumGeneration :
                      ~ReadsChain(disposition, generations, pending, n)
             /\ CleanupThrows
    BY <2>4 DEF CleanupThrows, XCatch, XReturn
  <2>5. ASSUME NEW n \in 0..MaximumGeneration,
               ReadsChain(disposition, generations, pending, n),
               n > 0 => generations[n].state = "TransactionAbandonedBeforeCommit",
               UNCHANGED <<generations, pending>>
        PROVE  \/ NothingPublished'
               \/ Closed' /\ Recorded("TransactionAbandonedBeforeCommit")'
    <3>1. CASE n = 0
      BY <2>5, <3>1, ReadsNothing DEF NothingPublished
    <3>2. CASE n \in Generation
      BY <2>1, <2>5, <3>2 DEF Closed, Recorded, ReadsChain, Terminal, Generation, request
    <3> QED
      BY <3>1, <3>2 DEF Generation, MaximumGeneration
  <2>6. ASSUME NEW n \in 0..MaximumGeneration, n > 0,
               ReadsChain(disposition, generations, pending, n),
               Publishable(AbandonedAfter(generations[n])),
               Appends(AbandonedAfter(generations[n]))
        PROVE  Closed' /\ Recorded("TransactionAbandonedBeforeCommit")'
    <3>1. generations[n] \in Record
      BY <2>6, ReadRecord DEF Generation, MaximumGeneration
    <3> QED
      BY <2>1, <2>6, <3>1, AbandonCloses, RecordFacts DEF request
  <2>7. ~CleanupThrows
    BY DEF CleanupThrows, XCatch, XReturn
  <2> QED
    BY <1>2, <2>1, <2>2, <2>3, <2>4, <2>5, <2>6, <2>7 DEF Abandon
<1>3. result' = result \/ result' # "Refused" \/ PreflightRefuses \/ Abandon
  BY DEF ExecuteStep, Preflight, BodyThrows, CreateStage, CreateJournalFolder,
     PublishInitialized, WriteStage, PublishWritten, VerifyStage, PublishVerified,
     RecheckSource, RecheckOf, CreateBackup, VerifyBackup, RecheckAfterBackup,
     PublishBackup, ReadIntent, RecheckBeforeReplacement, CommitReplacement, CommitCopy,
     VerifyCommitted, PublishCommitted, PublishCleaned, CheckOriginal, RemoveStage,
     XPublish, XGoto, XCatch, XCleanup, XReturn, CleanupThrows
<1> QED
  BY <1>1, <1>2, <1>3

\* A successful recovery run found nothing open, or closed it.
LEMMA RecoveredIsClosed ==
    ASSUME IInv, IInv', RecoveryStep, rresult' # rresult, rresult' = "Recovered"
    PROVE  ~folder \/ Closed'
<1>1. CASE ReadJournal
  BY <1>1 DEF ReadJournal, REnd, RGoto, Closed, ReadsChain, journal, request
<1>2. CASE RecordAbandoned
  <2>1. Publishable(AbandonedAfter(rrec)) /\ Appends(AbandonedAfter(rrec))
    BY <1>2 DEF RecordAbandoned, RPublish, REnd
  <2>2. rrec \in Record /\ disposition' = disposition
    BY <1>2 DEF RecordAbandoned, RPublish, IInv, RecoveryInv, request
  <2> QED
    BY <2>1, <2>2, AbandonCloses, RecordFacts
<1>3. CASE RecordCleaned
  <2> DEFINE record == Successor(rrec, "OwnedStagingArtifactsCleaned")
  <2>1. Publishable(record) /\ Appends(record)
    BY <1>3 DEF RecordCleaned, RPublish, REnd
  <2>2. /\ rrec \in Record /\ disposition' = disposition
        /\ JournalOK /\ JournalOK' /\ disposition \in OutputDisposition
    BY <1>3 DEF RecordCleaned, RPublish, IInv, TypeOK, JournalOK, RecoveryInv, request
  <2>3. record \in Record /\ Terminal(record.state)
    BY <2>1, <2>2, PublishedName, SuccessorRecord DEF Terminal, ImageFileTransactionState
  <2> HIDE DEF record
  <2> QED
    BY <2>1, <2>2, <2>3, PublishedTerminal
<1>4. rresult' = rresult \/ rresult' # "Recovered" \/ ReadJournal \/ RecordAbandoned
      \/ RecordCleaned
  BY DEF RecoveryStep, StartRecovery, CheckBackup, ObserveSource, Decide,
     RecoveryVerifiesStage, RecoveryRemovesStage, RecordCommitted, RecoveryThrows,
     RPublish, REnd, RGoto, recovery
<1> QED
  BY <1>1, <1>2, <1>3, <1>4

\* Recovery extends a chain; it never starts one, and forgets no record.
LEMMA RecoveryExtendsChain ==
    ASSUME IInv, RecoveryStep
    PROVE  /\ NothingPublished => NothingPublished'
           /\ \A s \in ImageFileTransactionState : Recorded(s) => Recorded(s)'
<1>1. CASE generations' = generations
  BY <1>1 DEF NothingPublished, Recorded
<1>2. CASE generations' # generations
  <2> DEFINE Published(record) == Publishable(record) /\ Appends(record)
  <2>a. RecordAbandoned \/ RecordCommitted \/ RecordCleaned
    BY <1>2 DEF RecoveryStep, StartRecovery, ReadJournal, CheckBackup, ObserveSource,
       Decide, RecoveryVerifiesStage, RecoveryRemovesStage, RecoveryThrows, journal
  <2>b. \/ Published(AbandonedAfter(rrec))
        \/ Published(Successor(rrec, "OutputCommitted"))
        \/ Published(Successor(rrec, "OwnedStagingArtifactsCleaned"))
    BY <1>2, <2>a DEF RecordAbandoned, RecordCommitted, RecordCleaned, RPublish, journal
  <2>1. PICK record : /\ Published(record)
                      /\ \/ record = AbandonedAfter(rrec)
                         \/ \E t \in ImageFileTransactionState : record = Successor(rrec, t)
    BY <2>b, Zenon DEF ImageFileTransactionState
  <2>2. rrec \in Record /\ disposition \in OutputDisposition /\ JournalOK
    BY <2>a DEF IInv, TypeOK, JournalOK, RecoveryInv, RecordAbandoned, RecordCommitted,
       RecordCleaned
  <2>3. record \in Record /\ record.generation = rrec.generation + 1
    BY <2>1, <2>2, PublishedName, AbandonedRecord, SuccessorRecord
  <2>4. record.generation > 1
    BY <2>2, <2>3, RecordFacts
  <2>5. ~NothingPublished
    BY <2>1, <2>2, <2>3, <2>4, PublishedAfter, ReadRecord, RecordFacts
       DEF NothingPublished
  <2> QED
    BY <2>1, <2>2, <2>3, <2>5, Appended
<1> QED
  BY <1>1, <1>2

\* A refused transaction stays closed: only damage to the journal could reopen it.
LEMMA RefusalStaysClosed ==
    ASSUME IInv, IInv', ClosureInv, Next, result' = "Refused", ~JournalDamaged
    PROVE  NothingPublished' \/ Recorded("TransactionAbandonedBeforeCommit")'
<1> USE DEF ImageFileTransactionState
<1>1. CASE result = "Refused" /\ generations' = generations
  BY <1>1 DEF ClosureInv, NothingPublished, Recorded
<1>2. CASE result = "Refused" /\ RecoveryStep
  BY <1>2, RecoveryExtendsChain DEF ClosureInv
<1>3. CASE result = "Refused" /\ ExecuteStep
  BY <1>3 DEF IInv, ResultInv, ExecuteStep, Preflight, PreflightRefuses, BodyThrows,
     CreateStage, CreateJournalFolder, PublishInitialized, WriteStage, PublishWritten,
     VerifyStage, PublishVerified, RecheckSource, CreateBackup, VerifyBackup,
     RecheckAfterBackup, PublishBackup, ReadIntent, RecheckBeforeReplacement,
     CommitReplacement, CommitCopy, VerifyCommitted, PublishCommitted, PublishCleaned,
     CheckOriginal, RemoveStage, Abandon, BodyPoint
<1>4. CASE result # "Refused" /\ ExecuteStep
  BY <1>4, RefusalIsClosed
<1>5. RecoveryStep \/ Environment => result' = result
  BY DEF RecoveryStep, StartRecovery, ReadJournal, CheckBackup, ObserveSource, Decide,
     RecoveryVerifiesStage, RecoveryRemovesStage, RecordAbandoned, RecordCommitted,
     RecordCleaned, RecoveryThrows, RPublish, Environment, ExecuteCrashes,
     RecoveryCrashes, RecoveryObservesStop, Cancel, UserEditsSource, UserReplacesSource,
     UserChangesDestination, ArtifactTampered, GenerationDamaged, execution
<1>6. Environment => generations' = generations
  BY DEF Environment, ExecuteCrashes, RecoveryCrashes, RecoveryObservesStop, Cancel,
     UserEditsSource, UserReplacesSource, UserChangesDestination, ArtifactTampered,
     GenerationDamaged, journal
<1> QED
  BY <1>1, <1>2, <1>3, <1>4, <1>5, <1>6 DEF Next

\* execute() finishes only by reporting an outcome.
LEMMA FinishedIsReported ==
    ASSUME ClosureInv, Next, xpc' = "Done"
    PROVE  result' # "None"
<1>1. ExecuteStep => result' # "None"
  BY DEF ExecuteStep, Preflight, PreflightRefuses, BodyThrows, CreateStage,
     CreateJournalFolder, PublishInitialized, WriteStage, PublishWritten, VerifyStage,
     PublishVerified, RecheckSource, RecheckOf, CreateBackup, VerifyBackup,
     RecheckAfterBackup, PublishBackup, ReadIntent, RecheckBeforeReplacement,
     CommitReplacement, CommitCopy, VerifyCommitted, PublishCommitted, PublishCleaned,
     CheckOriginal, RemoveStage, Abandon, XPublish, XGoto, XCatch, XCleanup, XReturn,
     CleanupThrows, CleanupReturns
<1>2. RecoveryStep => result' # "None"
  BY DEF ClosureInv, RecoveryStep, StartRecovery, ReadJournal, CheckBackup, ObserveSource,
     Decide, RecoveryVerifiesStage, RecoveryRemovesStage, RecordAbandoned,
     RecordCommitted, RecordCleaned, RecoveryThrows, RPublish, execution
<1>3. Environment => result' # "None"
  BY DEF ClosureInv, Environment, ExecuteCrashes, RecoveryCrashes, RecoveryObservesStop,
     Cancel, UserEditsSource, UserReplacesSource, UserChangesDestination,
     ArtifactTampered, GenerationDamaged, execution
<1> QED
  BY <1>1, <1>2, <1>3 DEF Next

\* The closing of a transaction is invariant.
THEOREM ClosureInvariant == Spec => []ClosureInv
<1>1. Init => ClosureInv
  BY DEF Init, ClosureInv, NothingPublished, CleanupPoint
<1>2. IInv /\ IInv' /\ ClosureInv /\ [Next]_vars => ClosureInv'
  <2>1. CASE UNCHANGED vars
    BY <2>1 DEF vars, journal, execution, ClosureInv, NothingPublished, Recorded
  <2> QED
    BY <2>1, FinishedIsReported, CleanupClosure, RefusalStaysClosed DEF ClosureInv
<1> QED
  BY <1>1, <1>2, InductiveInvariant, PTL DEF Spec

\* What is reported as settled is settled, with damaged journals and tampered
\* artifacts too: an ordinary failure of execute() has removed its stage and left
\* no open chain, and a recovery run that reports success leaves nothing open.
THEOREM SettledTransactionsAreClosed == Spec => SettledMeansClosed
<1> DEFINE Refused == result' # result /\ result' = "Refused"
           Recovered == rresult' # rresult /\ rresult' = "Recovered"
           Settled == /\ Refused =>
                            /\ stage'.id # StageId
                            /\ \/ \A g \in Generation : generations'[g] = Absent
                               \/ Closed' /\ Recorded("TransactionAbandonedBeforeCommit")'
                      /\ Recovered => ~folder \/ Closed'
<1>1. IInv /\ IInv' /\ ClosureInv /\ [Next]_vars => [Settled]_<<result, rresult>>
  <2> SUFFICES ASSUME IInv, IInv', ClosureInv, [Next]_vars PROVE Settled
    OBVIOUS
  <2>1. ASSUME Refused
        PROVE  /\ stage'.id # StageId
               /\ \/ \A g \in Generation : generations'[g] = Absent
                  \/ Closed' /\ Recorded("TransactionAbandonedBeforeCommit")'
    <3>1. ExecuteStep
      BY <2>1 DEF vars, Next, RecoveryStep, StartRecovery, ReadJournal, CheckBackup,
         ObserveSource, Decide, RecoveryVerifiesStage, RecoveryRemovesStage,
         RecordAbandoned, RecordCommitted, RecordCleaned, RecoveryThrows, RPublish,
         Environment, ExecuteCrashes, RecoveryCrashes, RecoveryObservesStop, Cancel,
         UserEditsSource, UserReplacesSource, UserChangesDestination, ArtifactTampered,
         GenerationDamaged, execution
    <3> QED
      BY <2>1, <3>1, RefusalIsClosed DEF NothingPublished
  <2>2. ASSUME Recovered
        PROVE  ~folder \/ Closed'
    <3>1. RecoveryStep
      BY <2>2 DEF vars, Next, ExecuteStep, Preflight, PreflightRefuses, BodyThrows,
         CreateStage, CreateJournalFolder, PublishInitialized, WriteStage,
         PublishWritten, VerifyStage, PublishVerified, RecheckSource, CreateBackup,
         VerifyBackup, RecheckAfterBackup, PublishBackup, ReadIntent,
         RecheckBeforeReplacement, CommitReplacement, CommitCopy, VerifyCommitted,
         PublishCommitted, PublishCleaned, CheckOriginal, RemoveStage, Abandon, XPublish,
         Environment, ExecuteCrashes, RecoveryCrashes, RecoveryObservesStop, REnd, Cancel,
         UserEditsSource, UserReplacesSource, UserChangesDestination, ArtifactTampered,
         GenerationDamaged, recovery
    <3> QED
      BY <2>2, <3>1, RecoveredIsClosed
  <2> QED
    BY <2>1, <2>2
<1> QED
  BY <1>1, InductiveInvariant, ClosureInvariant, PTL DEF Spec, SettledMeansClosed

-----------------------------------------------------------------------------
(* The contract of the interface *)

\* How the program point maps to the state of execute() in the contract.
LEMMA ExecuteStates ==
    ASSUME IInv
    PROVE  /\ ExecuteActive => ExecuteState = "Running"
           /\ xpc = "Idle" => ExecuteState = "Waiting"
           /\ xpc = "Done" => ExecuteState = "Returned"
           /\ xpc = "Crashed" => ExecuteState = "Crashed"
BY DEF ExecuteState, ExecuteActive, BodyPoint, CleanupPoint

\* The same in the next state.
LEMMA NextExecuteStates ==
    /\ ExecuteActive' => ExecuteState' = "Running"
    /\ xpc' = "Done" => ExecuteState' = "Returned"
    /\ xpc' = "Crashed" => ExecuteState' = "Crashed"
BY DEF ExecuteState, ExecuteActive, BodyPoint, CleanupPoint

\* The two terminal records exclude each other, so the verdict is well defined.
LEMMA Verdicts ==
    ASSUME IInv
    PROVE  /\ Recorded("OwnedStagingArtifactsCleaned") => RecordedVerdict = "Committed"
           /\ Recorded("TransactionAbandonedBeforeCommit") => RecordedVerdict = "Abandoned"
           /\ \/ Recorded("OwnedStagingArtifactsCleaned")
              \/ Recorded("TransactionAbandonedBeforeCommit")
              \/ RecordedVerdict = "None"
BY DEF IInv, CommitRecordIsTrue, RecordedVerdict

\* The same in the next state.
LEMMA NextVerdicts ==
    ASSUME IInv'
    PROVE  /\ Recorded("OwnedStagingArtifactsCleaned")' => RecordedVerdict' = "Committed"
           /\ Recorded("TransactionAbandonedBeforeCommit")' => RecordedVerdict' = "Abandoned"
           /\ \/ Recorded("OwnedStagingArtifactsCleaned")'
              \/ Recorded("TransactionAbandonedBeforeCommit")'
              \/ RecordedVerdict' = "None"
BY DEF IInv, CommitRecordIsTrue, RecordedVerdict

\* Steps that publish nothing leave the verdict alone.
LEMMA VerdictKept ==
    ASSUME generations' = generations
    PROVE  RecordedVerdict' = RecordedVerdict
BY DEF RecordedVerdict, Recorded

\* So do publications of milestones that are not terminal.
LEMMA VerdictKeptByMilestone ==
    ASSUME IInv, IInv', NEW state, ~Terminal(state),
           \A s : Recorded(s)' => Recorded(s) \/ s = state,
           \A s \in ImageFileTransactionState : Recorded(s) => Recorded(s)'
    PROVE  RecordedVerdict' = RecordedVerdict
BY Verdicts, NextVerdicts DEF Terminal, ImageFileTransactionState

\* A step of the engine's contract, or none.
ContractStep == Contract!Next \/ UNCHANGED Contract!vars

\* Admission, and its refusal.
LEMMA AdmissionContract ==
    ASSUME IInv, IInv', Preflight \/ PreflightRefuses
    PROVE  ContractStep
<1> USE ExecuteStates, NextExecuteStates DEF history, journal
<1>1. CASE Preflight
  BY <1>1, VerdictKept DEF Preflight, ContractStep, Contract!Next, Contract!Start,
     ExecuteActive, BodyPoint
<1>2. CASE PreflightRefuses
  BY <1>2, VerdictKept DEF PreflightRefuses, ContractStep, Contract!Next,
     Contract!Return, IInv, BodyInv
<1> QED
  BY <1>1, <1>2

\* Steps of the body and of cleanup that touch neither journal nor user files:
\* they are invisible, or return a conflict.
LEMMA BodyContract ==
    ASSUME IInv, IInv',
           \/ BodyThrows \/ CreateStage \/ CreateJournalFolder \/ WriteStage \/ VerifyStage
           \/ RecheckSource \/ CreateBackup \/ VerifyBackup \/ RecheckAfterBackup
           \/ ReadIntent \/ RecheckBeforeReplacement \/ VerifyCommitted \/ CheckOriginal
           \/ RemoveStage
    PROVE  ContractStep
<1>1. generations' = generations /\ effect' = effect /\ ExecuteActive
  BY DEF BodyThrows, CreateStage, CreateJournalFolder, WriteStage, VerifyStage,
     RecheckSource, CreateBackup, VerifyBackup, RecheckAfterBackup, ReadIntent,
     RecheckBeforeReplacement, VerifyCommitted, CheckOriginal, RemoveStage, journal,
     history, ExecuteActive, BodyPoint, CleanupPoint
<1>2. \/ ExecuteActive' /\ result' = result
      \/ xpc' = "Done" /\ result' = "RecoveryConflict"
  BY DEF BodyThrows, CreateStage, CreateJournalFolder, WriteStage, VerifyStage,
     RecheckSource, RecheckOf, CreateBackup, VerifyBackup, RecheckAfterBackup, ReadIntent,
     RecheckBeforeReplacement, VerifyCommitted, CheckOriginal, RemoveStage, XGoto, XCatch,
     XCleanup, XReturn, CleanupThrows, ExecuteActive, BodyPoint, CleanupPoint
<1> QED
  BY <1>1, <1>2, VerdictKept, ExecuteStates, NextExecuteStates
     DEF ContractStep, Contract!Next, Contract!Return, Contract!vars

\* The native commit happens once, while nothing is recorded.
LEMMA CommitContract ==
    ASSUME IInv, IInv', CommitReplacement \/ CommitCopy
    PROVE  ContractStep
<1>1. /\ generations' = generations /\ result' = result
      /\ ExecuteActive /\ ExecuteActive'
      /\ effect' = effect \/ effect' \in {"Committed", "OriginalLost"}
  BY DEF CommitReplacement, CommitCopy, journal, ExecuteActive, BodyPoint, CleanupPoint,
     XGoto, XCatch, XCleanup
<1>2. /\ effect = "None"
      /\ ~Recorded("TransactionAbandonedBeforeCommit")
      /\ ~Recorded("OwnedStagingArtifactsCleaned")
  BY DEF CommitReplacement, CommitCopy, IInv, BodyInv, CommitRecordIsTrue, BodyPoint,
     CommitPoint
<1> QED
  BY <1>1, <1>2, VerdictKept, Verdicts, ExecuteStates, NextExecuteStates
     DEF ContractStep, Contract!Next, Contract!Commit, Contract!vars

\* Milestones before the last one are invisible to callers.
LEMMA MilestoneContract ==
    ASSUME IInv, IInv',
           \/ PublishInitialized \/ PublishWritten \/ PublishVerified \/ PublishBackup
           \/ PublishCommitted
    PROVE  ContractStep
<1>1. xrec \in Record /\ xrec.generation \in 1..5 /\ JournalOK /\ ExecutionOK
  BY RecordInMemory DEF IInv, TypeOK, ExecutionOK, BodyPoint, PublishInitialized,
     PublishWritten, PublishVerified, PublishBackup, PublishCommitted
<1>2. RecordedVerdict' = RecordedVerdict
  <2> USE <1>1, NextRecordFacts, XPublished, VerdictKeptByMilestone
          DEF Terminal, ImageFileTransactionState
  <2>1. CASE PublishInitialized
    BY <2>1 DEF PublishInitialized, IInv, MemoryInv
  <2>2. CASE PublishWritten
    BY <2>2 DEF PublishWritten
  <2>3. CASE PublishVerified
    BY <2>3 DEF PublishVerified
  <2>4. CASE PublishBackup
    BY <2>4 DEF PublishBackup
  <2>5. CASE PublishCommitted
    BY <2>5 DEF PublishCommitted
  <2> QED
    BY <2>1, <2>2, <2>3, <2>4, <2>5
<1>3. effect' = effect /\ result' = result /\ ExecuteActive /\ ExecuteActive'
  BY DEF PublishInitialized, PublishWritten, PublishVerified, PublishBackup,
     PublishCommitted, XPublish, XGoto, XCatch, history, ExecuteActive, BodyPoint,
     CleanupPoint
<1> QED
  BY <1>2, <1>3, ExecuteStates, NextExecuteStates DEF ContractStep, Contract!vars

\* The last milestone records the commit, and is returned or not.
LEMMA PublishCleanedContract ==
    ASSUME IInv, IInv', PublishCleaned
    PROVE  ContractStep
<1> DEFINE record == NextRecord("OwnedStagingArtifactsCleaned")
<1>1. xrec.generation \in 1..5 /\ JournalOK /\ ExecutionOK
  BY RecordInMemory DEF IInv, TypeOK, BodyPoint, PublishCleaned
<1>2. /\ record \in Record /\ record.state = "OwnedStagingArtifactsCleaned"
      /\ record.generation \in Generation
  BY <1>1, NextRecordFacts, RecordFacts DEF ImageFileTransactionState
<1>3. effect = "Committed" /\ effect' = effect /\ ExecuteActive
  BY DEF PublishCleaned, XPublish, IInv, BodyInv, CommitPoint, ExecuteActive, BodyPoint,
     history
<1>4. RecordedVerdict \in {"None", "Committed"}
  BY <1>3, Verdicts DEF IInv, AbandonmentIsTrue
<1> HIDE DEF record
<1>5. CASE XReturn("Success") /\ generations'[record.generation] = record
  <2>1. RecordedVerdict' = "Committed"
    BY <1>2, <1>5, NextVerdicts DEF Recorded
  <2> QED
    BY <1>3, <1>4, <1>5, <2>1, ExecuteStates, NextExecuteStates
       DEF XReturn, ContractStep, Contract!Next, Contract!Return
<1>6. CASE XCatch
  <2>1. \A s \in ImageFileTransactionState : Recorded(s) => Recorded(s)'
    BY <1>1, <1>2, XPublished DEF PublishCleaned, record
  <2>2. ~Recorded("TransactionAbandonedBeforeCommit")'
    BY <1>3 DEF IInv, AbandonmentIsTrue
  <2>3. RecordedVerdict' = RecordedVerdict \/ RecordedVerdict' = "Committed"
    BY <1>4, <2>1, <2>2, Verdicts, NextVerdicts DEF ImageFileTransactionState
  <2>4. ExecuteActive' /\ result' = result
    BY <1>6 DEF XCatch, ExecuteActive, CleanupPoint
  <2> QED
    BY <1>3, <1>4, <2>3, <2>4, ExecuteStates, NextExecuteStates
       DEF ContractStep, Contract!Next, Contract!Record, Contract!TruthOf, Contract!vars
<1>7. (XReturn("Success") /\ generations'[record.generation] = record) \/ XCatch
  BY <1>1, <1>2, XPublished DEF PublishCleaned, record
<1> QED
  BY <1>5, <1>6, <1>7

\* Cleanup records an abandonment that is true, and returns what it may.
LEMMA AbandonContract ==
    ASSUME IInv, IInv', Abandon
    PROVE  ContractStep
<1>1. ExecuteActive /\ effect' = effect
  BY DEF Abandon, ExecuteActive, CleanupPoint, history
<1>2. \/ RecordedVerdict' = RecordedVerdict
      \/ RecordedVerdict = "None" /\ RecordedVerdict' = "Abandoned" /\ effect = "None"
  <2>1. CASE generations' = generations
    BY <2>1, VerdictKept
  <2>2. CASE generations' # generations
    <3>1. PICK n \in 0..MaximumGeneration :
             /\ n > 0 /\ ReadsChain(disposition, generations, pending, n)
             /\ Publishable(AbandonedAfter(generations[n]))
             /\ Appends(AbandonedAfter(generations[n]))
      BY <2>2 DEF Abandon
    <3>2. generations[n] \in Record
      BY <3>1, ReadRecord DEF Generation, MaximumGeneration
    <3>3. Recorded("TransactionAbandonedBeforeCommit")'
      BY <3>1, <3>2, AbandonCloses, RecordFacts DEF Abandon, request
    <3>4. effect = "None"
      BY <1>1, <3>3 DEF IInv, AbandonmentIsTrue
    <3>5. ~Recorded("OwnedStagingArtifactsCleaned")
      BY <3>4 DEF IInv, CommitRecordIsTrue
    <3> QED
      BY <3>3, <3>4, <3>5, Verdicts, NextVerdicts
  <2> QED
    BY <2>1, <2>2
<1>3. \/ ExecuteActive' /\ result' = result
      \/ xpc' = "Done" /\ result' \in {"Refused", "RecoveryConflict"}
  BY DEF Abandon, CleanupThrows, CleanupReturns, XCatch, XReturn, ExecuteActive,
     CleanupPoint
<1>4. result' = "Refused" => effect = "None"
  BY <1>1 DEF IInv, OutcomeIsTrue
<1> QED
  BY <1>1, <1>2, <1>3, <1>4, ExecuteStates, NextExecuteStates
     DEF ContractStep, Contract!Next, Contract!Record, Contract!Return, Contract!TruthOf,
         Contract!vars

\* Recovery decides only what execute() has left open, and truthfully.
LEMMA RecoveryContract ==
    ASSUME IInv, IInv', ClosureInv, ~JournalDamaged, RecoveryStep
    PROVE  ContractStep
<1>1. UNCHANGED execution /\ effect' = effect
  BY DEF RecoveryStep, StartRecovery, ReadJournal, CheckBackup, ObserveSource, Decide,
     RecoveryVerifiesStage, RecoveryRemovesStage, RecordAbandoned, RecordCommitted,
     RecordCleaned, RecoveryThrows, RPublish, history
<1>2. ExecuteState' = ExecuteState
  BY <1>1 DEF execution, ExecuteState
<1>3. CASE generations' = generations
  BY <1>1, <1>2, <1>3, VerdictKept DEF ContractStep, Contract!vars, execution
<1>4. CASE RecordAbandoned \/ RecordCommitted \/ RecordCleaned
  <2>1. \A s \in ImageFileTransactionState : Recorded(s) => Recorded(s)'
    BY RecoveryExtendsChain
  <2>2. CASE RecordedVerdict' # RecordedVerdict
    <3>1. RecordedVerdict = "None" /\ RecordedVerdict' \in {"Committed", "Abandoned"}
      BY <2>1, <2>2, Verdicts, NextVerdicts DEF ImageFileTransactionState
    <3>2. /\ RecordedVerdict' = "Committed" => effect = "Committed"
          /\ RecordedVerdict' = "Abandoned" => effect = "None"
      BY <1>1, <3>1, NextVerdicts DEF IInv, AbandonmentIsTrue, CommitRecordIsTrue
    <3>3. xpc \in {"Done", "Crashed"}
      BY <1>4 DEF RecordAbandoned, RecordCommitted, RecordCleaned, IInv, LeaseInv,
         TypeOK, ExecutionOK, ExecuteActive, RecoveryActive
    <3>4. result # "Success"
      BY <3>1, Verdicts DEF IInv, OutcomeIsTrue
    <3>5. result # "Refused"
      <4>1. ~Recorded("TransactionAbandonedBeforeCommit")
        BY <3>1, Verdicts
      <4>2. ~NothingPublished'
        BY <2>2, <3>1, NextVerdicts DEF NothingPublished, Recorded, Absent
      <4> QED
        BY <4>1, <4>2, RecoveryExtendsChain DEF ClosureInv
    <3>6. xpc = "Done" => result = "RecoveryConflict"
      BY <3>4, <3>5 DEF ClosureInv, IInv, TypeOK, ExecutionOK
    <3> QED
      BY <1>1, <1>2, <3>1, <3>2, <3>3, <3>6, ExecuteStates
         DEF ContractStep, Contract!Next, Contract!Recover, Contract!TruthOf, execution
  <2> QED
    BY <1>1, <1>2, <2>2 DEF ContractStep, Contract!vars, execution
<1> QED
  BY <1>3, <1>4 DEF RecoveryStep, StartRecovery, ReadJournal, CheckBackup, ObserveSource,
     Decide, RecoveryVerifiesStage, RecoveryRemovesStage, RecoveryThrows, journal

\* A crash of execute(); recovery runs that end, and what users and other
\* programs do to files, are invisible.
LEMMA EnvironmentContract ==
    ASSUME IInv, IInv', ~JournalDamaged, Environment
    PROVE  ContractStep
<1>1. generations' = generations /\ effect' = effect /\ result' = result
  BY DEF Environment, ExecuteCrashes, RecoveryCrashes, RecoveryObservesStop, Cancel,
     UserEditsSource, UserReplacesSource, UserChangesDestination, ArtifactTampered,
     GenerationDamaged, journal, execution, history
<1>2. CASE ExecuteCrashes
  BY <1>1, <1>2, VerdictKept, ExecuteStates, NextExecuteStates
     DEF ExecuteCrashes, ContractStep, Contract!Next, Contract!Crash
<1>3. CASE ~ExecuteCrashes
  <2>1. ExecuteState' = ExecuteState
    BY <1>3 DEF Environment, RecoveryCrashes, RecoveryObservesStop, Cancel,
       UserEditsSource, UserReplacesSource, UserChangesDestination, ArtifactTampered,
       GenerationDamaged, execution, ExecuteState
  <2> QED
    BY <1>1, <2>1, VerdictKept DEF ContractStep, Contract!vars
<1> QED
  BY <1>2, <1>3

\* As long as published generations stay readable, stage, backup, journal, lease,
\* cleanup and recovery implement ImageFileTransactionEngine: at most one commit,
\* a truthful result, a recorded decision that is true and final, and no decision
\* by recovery while execute() runs.  (Damage can take a decision back.)
THEOREM EngineRefinement ==
    ASSUME ~JournalDamaged
    PROVE  Spec => ImplementsEngine
<1>1. Init => Contract!Init
  <2> SUFFICES ASSUME Init PROVE Contract!Init
    OBVIOUS
  <2>1. IInv
    BY InitInv
  <2>2. RecordedVerdict = "None"
    BY <2>1, Verdicts DEF Init, Recorded, Absent
  <2> QED
    BY <2>1, <2>2, ExecuteStates DEF Init, Contract!Init
<1>2. IInv /\ IInv' /\ ClosureInv /\ [Next]_vars => [Contract!Next]_(Contract!vars)
  <2> SUFFICES ASSUME IInv, IInv', ClosureInv, [Next]_vars PROVE ContractStep
    BY DEF ContractStep
  <2>1. CASE ExecuteStep
    BY <2>1, AdmissionContract, BodyContract, CommitContract, MilestoneContract,
       PublishCleanedContract, AbandonContract DEF ExecuteStep
  <2>2. CASE UNCHANGED vars
    BY <2>2, VerdictKept DEF vars, journal, execution, history, ExecuteState,
       ContractStep, Contract!vars
  <2> QED
    BY <2>1, <2>2, RecoveryContract, EnvironmentContract DEF Next
<1> QED
  BY <1>1, <1>2, InductiveInvariant, ClosureInvariant, PTL
     DEF Spec, ImplementsEngine, Contract!Spec

-----------------------------------------------------------------------------
(* The artifacts *)

\* Recovery acts on no artifact of a live execution.
LEMMA RecoveryWaits ==
    ASSUME IInv, RecoveryStep, ExecuteActive'
    PROVE  stage' = stage
<1>1. xpc' = xpc
  BY DEF RecoveryStep, StartRecovery, ReadJournal, CheckBackup, ObserveSource, Decide,
     RecoveryVerifiesStage, RecoveryRemovesStage, RecordAbandoned, RecordCommitted,
     RecordCleaned, RecoveryThrows, RPublish, execution
<1>2. ~RecoveryActive
  BY <1>1 DEF IInv, LeaseInv, ExecuteActive
<1> QED
  BY <1>2 DEF RecoveryActive, RecoveryStep, StartRecovery, ReadJournal, CheckBackup,
     ObserveSource, Decide, RecoveryVerifiesStage, RecoveryRemovesStage, RecordAbandoned,
     RecordCommitted, RecordCleaned, RecoveryThrows, RPublish, files

\* Recovery and the environment leave the execution where it is, or crash it.
LEMMA OthersKeepPoint ==
    ASSUME RecoveryStep \/ Environment
    PROVE  xpc' = xpc \/ xpc' = "Crashed"
BY DEF RecoveryStep, StartRecovery, ReadJournal, CheckBackup, ObserveSource, Decide,
   RecoveryVerifiesStage, RecoveryRemovesStage, RecordAbandoned, RecordCommitted,
   RecordCleaned, RecoveryThrows, RPublish, Environment, ExecuteCrashes, RecoveryCrashes,
   RecoveryObservesStop, Cancel, UserEditsSource, UserReplacesSource,
   UserChangesDestination, ArtifactTampered, GenerationDamaged, execution

\* Without a program that tampers with them, artifacts are left alone by users.
LEMMA EnvironmentKeepsArtifacts ==
    ASSUME Environment, ~ArtifactsTampered
    PROVE  stage' = stage /\ backup' = backup
BY DEF Environment, ExecuteCrashes, RecoveryCrashes, RecoveryObservesStop, Cancel,
   UserEditsSource, UserReplacesSource, UserChangesDestination, ArtifactTampered,
   GenerationDamaged, files

\* From its creation to the commit call the stage is there.
LEMMA StageStays ==
    ASSUME IInv, StageBelongsToExecution, Next
    PROVE  StageBelongsToExecution'
<1> SUFFICES ASSUME ~ArtifactsTampered,
                    xpc' \in BodyPoint \ {"CreateStage", "VerifyCommitted",
                                          "PublishCommitted", "PublishCleaned"}
             PROVE  stage'.id = StageId
  BY DEF StageBelongsToExecution
<1>1. CASE CreateStage
  BY <1>1, FileValues DEF CreateStage, Bytes
<1>2. CASE WriteStage
  BY <1>2, FileChanges DEF WriteStage, XGoto, XCatch, StageBelongsToExecution, BodyPoint,
     IInv, TypeOK, FilesOK, Bytes
<1>3. CASE /\ ExecuteStep /\ ~CreateStage /\ ~WriteStage
  BY <1>3 DEF ExecuteStep, Preflight, PreflightRefuses, BodyThrows,
     CreateJournalFolder, PublishInitialized, PublishWritten, VerifyStage,
     PublishVerified, RecheckSource, RecheckOf, CreateBackup, VerifyBackup,
     RecheckAfterBackup, PublishBackup, ReadIntent, RecheckBeforeReplacement,
     CommitReplacement, CommitCopy, VerifyCommitted, PublishCommitted, PublishCleaned,
     CheckOriginal, RemoveStage, Abandon, XPublish, XGoto, XCatch, XCleanup, XReturn,
     CleanupThrows, CleanupReturns, StageBelongsToExecution, BodyPoint, files
<1>4. CASE RecoveryStep \/ Environment
  <2>1. xpc' = xpc
    BY <1>4, OthersKeepPoint DEF BodyPoint
  <2>2. stage' = stage
    BY <1>4, RecoveryWaits, EnvironmentKeepsArtifacts DEF ExecuteActive
  <2> QED
    BY <2>1, <2>2 DEF StageBelongsToExecution
<1> QED
  BY <1>1, <1>2, <1>3, <1>4 DEF Next

\* A stage that was verified keeps its bytes up to the commit call.
LEMMA VerifiedStageStays ==
    ASSUME IInv, RetainedInv, Next, ~ArtifactsTampered, xpc' \in VerifiedPoint
    PROVE  stage'.bytes = "Output"
<1> USE DEF VerifiedPoint, BackedUpPoint
<1>1. CASE ExecuteStep
  BY <1>1 DEF ExecuteStep, Preflight, PreflightRefuses, BodyThrows, CreateStage,
     CreateJournalFolder, PublishInitialized, WriteStage, PublishWritten, VerifyStage,
     PublishVerified, RecheckSource, RecheckOf, CreateBackup, VerifyBackup,
     RecheckAfterBackup, PublishBackup, ReadIntent, RecheckBeforeReplacement,
     CommitReplacement, CommitCopy, VerifyCommitted, PublishCommitted, PublishCleaned,
     CheckOriginal, RemoveStage, Abandon, XPublish, XGoto, XCatch, XCleanup, XReturn,
     CleanupThrows, CleanupReturns, RetainedInv, files
<1>2. CASE RecoveryStep \/ Environment
  <2>1. xpc' = xpc
    BY <1>2, OthersKeepPoint
  <2>2. stage' = stage
    BY <1>2, RecoveryWaits, EnvironmentKeepsArtifacts DEF ExecuteActive, BodyPoint
  <2> QED
    BY <2>1, <2>2 DEF RetainedInv
<1> QED
  BY <1>1, <1>2 DEF Next

\* A backup that was verified stays as it was verified up to the commit call.
LEMMA VerifiedBackupStays ==
    ASSUME IInv, RetainedInv, Next, ~ArtifactsTampered,
           \/ xpc' \in {"RecheckAfterBackup", "PublishBackup"}
           \/ xpc' \in BackedUpPoint /\ disposition' = ReplaceWithBackup
    PROVE  VerifiedBackup'
<1> USE DEF BackedUpPoint, VerifiedBackup
<1>1. CASE ExecuteStep
  BY <1>1 DEF ExecuteStep, Preflight, PreflightRefuses, BodyThrows, CreateStage,
     CreateJournalFolder, PublishInitialized, WriteStage, PublishWritten, VerifyStage,
     PublishVerified, RecheckSource, RecheckOf, CreateBackup, VerifyBackup,
     RecheckAfterBackup, PublishBackup, ReadIntent, RecheckBeforeReplacement,
     CommitReplacement, CommitCopy, VerifyCommitted, PublishCommitted, PublishCleaned,
     CheckOriginal, RemoveStage, Abandon, XPublish, XGoto, XCatch, XCleanup, XReturn,
     CleanupThrows, CleanupReturns, RetainedInv, files, request
<1>2. CASE RecoveryStep \/ Environment
  <2>1. xpc' = xpc
    BY <1>2, OthersKeepPoint
  <2>2. backup' = backup /\ disposition' = disposition
    BY <1>2 DEF RecoveryStep, StartRecovery, ReadJournal, CheckBackup, ObserveSource,
       Decide, RecoveryVerifiesStage, RecoveryRemovesStage, RecordAbandoned,
       RecordCommitted, RecordCleaned, RecoveryThrows, RPublish, Environment,
       ExecuteCrashes, RecoveryCrashes, RecoveryObservesStop, Cancel, UserEditsSource,
       UserReplacesSource, UserChangesDestination, ArtifactTampered, GenerationDamaged,
       files, request
  <2> QED
    BY <2>1, <2>2 DEF RetainedInv
<1> QED
  BY <1>1, <1>2 DEF Next

\* Recovery gets as far as removing a stage only with the original observed.
LEMMA OriginalObserved ==
    ASSUME RetainedInv, Next, rpc' \in {"VerifyStage", "RemoveStage"}
    PROVE  robs'.id = SourceId
<1>1. CASE RecoveryStep
  BY <1>1 DEF RetainedInv, RecoveryStep, StartRecovery, ReadJournal, CheckBackup,
     ObserveSource, Decide, AbandonExplained, SourcePreserved, RecoveryVerifiesStage,
     RecoveryRemovesStage, RecordAbandoned, RecordCommitted, RecordCleaned,
     RecoveryThrows, RPublish, RGoto, REnd
<1>2. CASE ExecuteStep
  BY <1>2 DEF RetainedInv, ExecuteStep, Preflight, PreflightRefuses, BodyThrows,
     CreateStage, CreateJournalFolder, PublishInitialized, WriteStage, PublishWritten,
     VerifyStage, PublishVerified, RecheckSource, CreateBackup, VerifyBackup,
     RecheckAfterBackup, PublishBackup, ReadIntent, RecheckBeforeReplacement,
     CommitReplacement, CommitCopy, VerifyCommitted, PublishCommitted, PublishCleaned,
     CheckOriginal, RemoveStage, Abandon, XPublish, recovery
<1>3. CASE Environment
  BY <1>3 DEF RetainedInv, Environment, ExecuteCrashes, RecoveryCrashes,
     RecoveryObservesStop, REnd, Cancel, UserEditsSource, UserReplacesSource,
     UserChangesDestination, ArtifactTampered, GenerationDamaged, recovery
<1> QED
  BY <1>1, <1>2, <1>3 DEF Next

\* The commit call leaves the verified artifacts behind, whatever it did.
LEMMA CommitRetains ==
    ASSUME IInv, RetainedInv, CommitReplacement
    PROVE  ArtifactRetained'
<1> SUFFICES ASSUME Replacement, effect' # "None", ~ArtifactsTampered
             PROVE  /\ disposition = ReplaceWithBackup => VerifiedBackup
                    /\ \/ source'.id = StageId
                       \/ stage'.id = StageId /\ stage'.bytes = "Output"
  BY DEF ArtifactRetained, CommitReplacement, Replacement, VerifiedBackup, request
<1>1. stage.id = StageId /\ stage.bytes = "Output"
  BY DEF CommitReplacement, RetainedInv, StageBelongsToExecution, BodyPoint,
     VerifiedPoint, BackedUpPoint
<1>2. effect = "None"
  BY DEF CommitReplacement, IInv, BodyInv, BodyPoint, CommitPoint
<1> QED
  BY <1>1, <1>2 DEF CommitReplacement, RetainedInv, BackedUpPoint

\* Neither cleanup nor recovery nor the user's own changes lose the last copy.
LEMMA ArtifactsStay ==
    ASSUME IInv, RetainedInv, Next
    PROVE  ArtifactRetained'
<1>1. CASE CommitReplacement
  BY <1>1, CommitRetains
<1>2. CASE ExecuteStep /\ ~CommitReplacement
  <2> SUFFICES ASSUME Replacement', effect' # "None", ~ArtifactsTampered
               PROVE  UNCHANGED <<source, stage, backup, effect, outputTaken, disposition>>
    BY DEF ArtifactRetained, RetainedInv, Replacement
  <2>1. Replacement /\ disposition' = disposition
    BY <1>2 DEF ExecuteStep, Preflight, PreflightRefuses, BodyThrows, CreateStage,
       CreateJournalFolder, PublishInitialized, WriteStage, PublishWritten, VerifyStage,
       PublishVerified, RecheckSource, CreateBackup, VerifyBackup, RecheckAfterBackup,
       PublishBackup, ReadIntent, RecheckBeforeReplacement, CommitCopy, VerifyCommitted,
       PublishCommitted, PublishCleaned, CheckOriginal, RemoveStage, Abandon, XPublish,
       request, Replacement
  <2>2. ~CommitCopy
    BY <2>1 DEF CommitCopy, IInv, BodyInv
  <2>3. effect' = effect /\ outputTaken' = outputTaken
    BY <1>2, <2>2 DEF ExecuteStep, Preflight, PreflightRefuses, BodyThrows, CreateStage,
       CreateJournalFolder, PublishInitialized, WriteStage, PublishWritten, VerifyStage,
       PublishVerified, RecheckSource, CreateBackup, VerifyBackup, RecheckAfterBackup,
       PublishBackup, ReadIntent, RecheckBeforeReplacement, VerifyCommitted,
       PublishCommitted, PublishCleaned, CheckOriginal, RemoveStage, Abandon, XPublish,
       history
  <2>4. xpc \notin {"Idle"} \cup (BodyPoint \ CommitPoint)
    BY <2>3 DEF IInv, BodyInv
  <2>5. CASE RemoveStage
    BY <2>1, <2>3, <2>5 DEF RemoveStage, IInv, CleanupInv, CleanupPoint
  <2>6. CASE \/ BodyThrows \/ VerifyCommitted \/ PublishCommitted \/ PublishCleaned
             \/ CheckOriginal \/ Abandon
    BY <2>1, <2>3, <2>6 DEF BodyThrows, VerifyCommitted, PublishCommitted, PublishCleaned,
       CheckOriginal, Abandon, XPublish, files
  <2> QED
    BY <1>2, <2>2, <2>4, <2>5, <2>6 DEF ExecuteStep, Preflight, PreflightRefuses,
       CreateStage, CreateJournalFolder, PublishInitialized, WriteStage,
       PublishWritten, VerifyStage, PublishVerified, RecheckSource, CreateBackup,
       VerifyBackup, RecheckAfterBackup, PublishBackup, ReadIntent,
       RecheckBeforeReplacement, BodyPoint, CommitPoint
<1>3. CASE RecoveryStep
  <2>1. CASE RecoveryRemovesStage
    <3>1. Replacement => effect = "None"
      BY <2>1 DEF RecoveryRemovesStage, RetainedInv, IInv, RecoveryInv
    <3> QED
      BY <2>1, <3>1 DEF RecoveryRemovesStage, ArtifactRetained, Replacement, request, history
  <2>2. CASE ~RecoveryRemovesStage
    BY <1>3, <2>2 DEF RetainedInv, ArtifactRetained, Replacement, RecoveryStep,
       StartRecovery, ReadJournal, CheckBackup, ObserveSource, Decide,
       RecoveryVerifiesStage, RecordAbandoned, RecordCommitted, RecordCleaned,
       RecoveryThrows, RPublish, files, request, history
  <2> QED
    BY <2>1, <2>2
<1>4. CASE UserEditsSource
  <2>1. PICK b \in ExternalBytes \cup {source.bytes} :
           source' = [source EXCEPT !.bytes = b, !.stamp = "later"]
    BY <1>4 DEF UserEditsSource
  <2>2. source \in Slot /\ source # NoFile /\ b \in Bytes
    BY <1>4, ExternalBytesAssumption, FileIdentities
       DEF UserEditsSource, IInv, TypeOK, FilesOK
  <2>3. source'.id = source.id
    BY <2>1, <2>2, FileChanges
  <2> QED
    BY <1>4, <2>3 DEF UserEditsSource, RetainedInv, ArtifactRetained, Replacement,
       request, history
<1>5. CASE UserReplacesSource \/ UserChangesDestination
  BY <1>5 DEF RetainedInv, ArtifactRetained, Replacement, UserReplacesSource,
     UserChangesDestination, request
<1>6. CASE \/ ExecuteCrashes \/ RecoveryCrashes \/ RecoveryObservesStop \/ Cancel
           \/ ArtifactTampered \/ GenerationDamaged
  <2>1. UNCHANGED <<source, effect, outputTaken, disposition>>
    BY <1>6 DEF ExecuteCrashes, RecoveryCrashes, RecoveryObservesStop, Cancel,
       ArtifactTampered, GenerationDamaged, files, request, history
  <2>2. ArtifactsTampered \/ UNCHANGED <<stage, backup>>
    BY <1>6, EnvironmentKeepsArtifacts DEF Environment
  <2> QED
    BY <2>1, <2>2 DEF RetainedInv, ArtifactRetained, Replacement
<1> QED
  BY <1>1, <1>2, <1>3, <1>4, <1>5, <1>6 DEF Next, Environment

\* The stage, the backup and the output are kept where the commit relies on them.
THEOREM RetainedInvariant == Spec => []RetainedInv
<1>1. Init => RetainedInv
  BY DEF Init, RetainedInv, StageBelongsToExecution, ArtifactRetained, VerifiedPoint,
     BackedUpPoint, BodyPoint
<1>2. IInv /\ RetainedInv /\ [Next]_vars => RetainedInv'
  <2>1. CASE UNCHANGED vars
    BY <2>1 DEF vars, files, request, execution, recovery, history, RetainedInv,
       StageBelongsToExecution, ArtifactRetained, VerifiedBackup, Replacement
  <2>2. CASE Next
    <3>1. ASSUME IInv, RetainedInv PROVE StageBelongsToExecution' /\ ArtifactRetained'
      BY <2>2, <3>1, StageStays, ArtifactsStay DEF RetainedInv
    <3> QED
      BY <2>2, <3>1, VerifiedStageStays, VerifiedBackupStays, OriginalObserved
         DEF RetainedInv
  <2> QED
    BY <2>1, <2>2
<1> QED
  BY <1>1, <1>2, InductiveInvariant, PTL DEF Spec

\* Once the original is gone a validated artifact is left: the retained backup
\* where one was asked for, and the output itself unless the user took it away.
\* Neither cleanup nor recovery deletes the last copy.
THEOREM ArtifactsRetained == Spec => []ArtifactRetained
<1>1. RetainedInv => ArtifactRetained
  BY DEF RetainedInv
<1> QED
  BY <1>1, RetainedInvariant, PTL

\* No recovery run, of this or another instance, removes the stage of a live
\* execution.
THEOREM StageOfExecutionStays == Spec => []StageBelongsToExecution
<1>1. RetainedInv => StageBelongsToExecution
  BY DEF RetainedInv
<1> QED
  BY <1>1, RetainedInvariant, PTL

-----------------------------------------------------------------------------
(* Edits and stops that come in time *)

\* The original was edited before the last look at it.
EditedInTime ==
    /\ Replacement /\ source.stamp = "later" /\ effect = "None"
    /\ xpc \notin {"CommitReplacement", "CommitCopy"} \cup CommitPoint

\* A stop was requested before the last look at the token.
StoppedInTime ==
    /\ cancelled /\ effect = "None"
    /\ BeforeLastStopCheck \/ xpc \in CleanupPoint \cup {"Done", "Crashed"}

\* Nothing that a user does gives a file its reviewed time stamp back.
LEMMA StampStaysLater ==
    ASSUME IInv, Environment, source.stamp = "later"
    PROVE  source'.stamp = "later"
<1>1. CASE UserEditsSource
  <2>1. PICK b : source' = [source EXCEPT !.bytes = b, !.stamp = "later"]
    BY <1>1 DEF UserEditsSource
  <2>2. source \in File
    BY <1>1 DEF UserEditsSource, IInv, TypeOK, FilesOK, Slot
  <2> QED
    BY <2>1, <2>2 DEF File
<1>2. CASE UserReplacesSource
  BY <1>2 DEF UserReplacesSource, NoFile, FileOf
<1>3. CASE Environment /\ ~UserEditsSource /\ ~UserReplacesSource
  BY <1>3 DEF Environment, ExecuteCrashes, RecoveryCrashes, RecoveryObservesStop, Cancel,
     UserChangesDestination, ArtifactTampered, GenerationDamaged, files
<1> QED
  BY <1>1, <1>2, <1>3

\* Recovery and the environment have no effect of the transaction.
LEMMA OthersHaveNoEffect ==
    ASSUME RecoveryStep \/ Environment
    PROVE  effect' = effect
BY DEF RecoveryStep, StartRecovery, ReadJournal, CheckBackup, ObserveSource, Decide,
   RecoveryVerifiesStage, RecoveryRemovesStage, RecordAbandoned, RecordCommitted,
   RecordCleaned, RecoveryThrows, RPublish, Environment, ExecuteCrashes, RecoveryCrashes,
   RecoveryObservesStop, Cancel, UserEditsSource, UserReplacesSource,
   UserChangesDestination, ArtifactTampered, GenerationDamaged, history

\* Only the commit calls have an effect on the user's files.
LEMMA EffectOfCommitOnly ==
    ASSUME Next, ~CommitReplacement, ~CommitCopy
    PROVE  effect' = effect
<1>1. CASE ExecuteStep
  BY <1>1 DEF ExecuteStep, Preflight, PreflightRefuses, BodyThrows, CreateStage,
     CreateJournalFolder, PublishInitialized, WriteStage, PublishWritten, VerifyStage,
     PublishVerified, RecheckSource, CreateBackup, VerifyBackup, RecheckAfterBackup,
     PublishBackup, ReadIntent, RecheckBeforeReplacement, VerifyCommitted,
     PublishCommitted, PublishCleaned, CheckOriginal, RemoveStage, Abandon, XPublish,
     history
<1>2. CASE RecoveryStep \/ Environment
  BY <1>2, OthersHaveNoEffect
<1> QED
  BY <1>1, <1>2 DEF Next

\* An edited original keeps the execution away from the commit call.
LEMMA EditHolds ==
    ASSUME IInv, EditedInTime, Next
    PROVE  EditedInTime'
<1>1. effect' = "None"
  BY EffectOfCommitOnly DEF EditedInTime, CommitReplacement, CommitCopy
<1>2. CASE ExecuteStep
  BY <1>1, <1>2 DEF EditedInTime, HasReviewedRevision, Replacement, ExecuteStep,
     Preflight, PreflightRefuses, BodyThrows, CreateStage, CreateJournalFolder,
     PublishInitialized, WriteStage, PublishWritten, VerifyStage, PublishVerified,
     RecheckSource, RecheckOf, CreateBackup, VerifyBackup, RecheckAfterBackup,
     PublishBackup, ReadIntent, RecheckBeforeReplacement, CommitReplacement, CommitCopy,
     VerifyCommitted, PublishCommitted, PublishCleaned, CheckOriginal, RemoveStage,
     Abandon, XPublish, XGoto, XCatch, XCleanup, XReturn, CleanupThrows, CleanupReturns,
     CommitPoint, files, request
<1>3. CASE RecoveryStep \/ Environment
  <2>1. xpc' \notin {"CommitReplacement", "CommitCopy"} \cup CommitPoint
    BY <1>3, OthersKeepPoint DEF EditedInTime, CommitPoint
  <2>2. disposition' = disposition
    BY <1>3 DEF RecoveryStep, StartRecovery, ReadJournal, CheckBackup, ObserveSource,
       Decide, RecoveryVerifiesStage, RecoveryRemovesStage, RecordAbandoned,
       RecordCommitted, RecordCleaned, RecoveryThrows, RPublish, Environment,
       ExecuteCrashes, RecoveryCrashes, RecoveryObservesStop, Cancel, UserEditsSource,
       UserReplacesSource, UserChangesDestination, ArtifactTampered, GenerationDamaged,
       request
  <2>3. RecoveryStep => source' = source
    BY DEF RecoveryStep, StartRecovery, ReadJournal, CheckBackup, ObserveSource,
       Decide, RecoveryVerifiesStage, RecoveryRemovesStage, RecordAbandoned,
       RecordCommitted, RecordCleaned, RecoveryThrows, RPublish, files
  <2> QED
    BY <1>1, <1>3, <2>1, <2>2, <2>3, StampStaysLater DEF EditedInTime, Replacement
<1> QED
  BY <1>2, <1>3 DEF Next

\* A requested stop keeps the execution away from the commit call.
LEMMA StopHolds ==
    ASSUME IInv, StoppedInTime, Next
    PROVE  StoppedInTime'
<1> USE DEF BeforeLastStopCheck
<1>1. CASE ExecuteStep
  BY <1>1 DEF StoppedInTime, ExecuteStep, Preflight, PreflightRefuses, BodyThrows,
     CreateStage, CreateJournalFolder, PublishInitialized, WriteStage, PublishWritten,
     VerifyStage, PublishVerified, RecheckSource, RecheckOf, CreateBackup, VerifyBackup,
     RecheckAfterBackup, PublishBackup, ReadIntent, RecheckBeforeReplacement,
     CommitReplacement, CommitCopy, VerifyCommitted, PublishCommitted, PublishCleaned,
     CheckOriginal, RemoveStage, Abandon, XPublish, XGoto, XCatch, XCleanup, XReturn,
     CleanupThrows, CleanupReturns, CleanupPoint, request, history
<1>2. CASE RecoveryStep \/ Environment
  <2>1. cancelled' /\ disposition' = disposition
    BY <1>2 DEF StoppedInTime, RecoveryStep, StartRecovery, ReadJournal, CheckBackup,
       ObserveSource, Decide, RecoveryVerifiesStage, RecoveryRemovesStage,
       RecordAbandoned, RecordCommitted, RecordCleaned, RecoveryThrows, RPublish,
       Environment, ExecuteCrashes, RecoveryCrashes, RecoveryObservesStop, Cancel,
       UserEditsSource, UserReplacesSource, UserChangesDestination, ArtifactTampered,
       GenerationDamaged, request
  <2>2. effect' = "None"
    BY <1>2, OthersHaveNoEffect DEF StoppedInTime
  <2> QED
    BY <1>2, <2>1, <2>2, OthersKeepPoint DEF StoppedInTime
<1> QED
  BY <1>1, <1>2 DEF Next

\* An edit of the original that is there before the last source check is never
\* overwritten by the transaction.
THEOREM EditsInTimeSurvive == Spec => EditBeforeLastCheckSurvives
<1>1. IInv /\ source.stamp = "later" /\ BeforeLastSourceCheck /\ Replacement
        => EditedInTime
  BY DEF BeforeLastSourceCheck, EditedInTime, IInv, BodyInv, CommitPoint
<1>2. IInv /\ EditedInTime /\ [Next]_vars => EditedInTime'
  <2>1. CASE UNCHANGED vars
    BY <2>1 DEF vars, files, request, execution, history, EditedInTime, Replacement
  <2> QED
    BY <2>1, EditHolds
<1>3. EditedInTime => effect = "None"
  BY DEF EditedInTime
<1> QED
  BY <1>1, <1>2, <1>3, InductiveInvariant, PTL DEF Spec, EditBeforeLastCheckSurvives

\* A stop requested before the last check of the token prevents the commit.
THEOREM StopsInTimePrevent == Spec => CancellationPreventsCommit
<1>1. IInv /\ cancelled /\ BeforeLastStopCheck => StoppedInTime
  BY DEF BeforeLastStopCheck, StoppedInTime, IInv, BodyInv, BodyPoint, CommitPoint
<1>2. IInv /\ StoppedInTime /\ [Next]_vars => StoppedInTime'
  <2>1. CASE UNCHANGED vars
    BY <2>1 DEF vars, request, execution, history, StoppedInTime, BeforeLastStopCheck
  <2> QED
    BY <2>1, StopHolds
<1>3. StoppedInTime => effect = "None"
  BY DEF StoppedInTime
<1> QED
  BY <1>1, <1>2, <1>3, InductiveInvariant, PTL DEF Spec, CancellationPreventsCommit

-----------------------------------------------------------------------------
(* Crashes only *)

\* publish() extends the chain that it read: what is on disk is again one chain.
LEMMA AppendKeepsChain ==
    ASSUME JournalOK, NEW record \in Record, Publishable(record), Appends(record),
           disposition' = disposition
    PROVE  /\ ChainInv'
           /\ \A g \in Generation : g > record.generation => generations'[g] = Absent
<1>1. PICK n \in 0..MaximumGeneration :
         /\ ReadsChain(disposition, generations, pending, n)
         /\ ValidRecord(disposition, record)
         /\ IF n = 0 THEN record.generation = 1
                     ELSE ValidSuccessor(disposition, generations[n], record)
  BY DEF Publishable, CanPublish
<1>2. record.generation = n + 1 /\ n + 1 \in Generation
  <2>1. CASE n = 0
    BY <1>1, <2>1 DEF Generation, MaximumGeneration
  <2>2. CASE n # 0
    <3>1. n \in Generation /\ ValidSuccessor(disposition, generations[n], record)
      BY <1>1, <2>2 DEF Generation
    <3>2. generations[n].generation = n
      BY <1>1, <3>1, ReadRecord
    <3> QED
      BY <3>1, <3>2, RecordFacts DEF ValidSuccessor
  <2> QED
    BY <2>1, <2>2
<1>3. n < MaximumGeneration /\ n \in Nat
  BY <1>2 DEF Generation, MaximumGeneration
<1>4. generations[n + 1] = Absent
  BY <1>2, PublishedName
<1>5. \A g \in Generation : g > n => generations[g] = Absent
  BY <1>1, <1>3, <1>4 DEF ReadsChain
<1>6. /\ generations'[n + 1] = record
      /\ \A g \in 1..n : generations'[g] = generations[g]
      /\ \A g \in Generation : g > n + 1 => generations'[g] = Absent
  <2>1. \A g \in 1..n : g \in Generation /\ g # n + 1
    BY <1>3 DEF Generation, MaximumGeneration
  <2>2. \A g \in Generation : g > n + 1 => g > n /\ g # n + 1
    BY <1>3 DEF Generation
  <2> QED
    BY <1>2, <1>5, <2>1, <2>2, Appended
<1>7. ReadablePrefix(disposition, generations, n)
  BY <1>1 DEF ReadsChain
<1>8. ReadablePrefix(disposition, generations', n + 1)
  <2> SUFFICES ASSUME NEW g \in 1..(n + 1)
               PROVE  /\ generations'[g] \in Record
                      /\ generations'[g].generation = g
                      /\ g = 1 => ValidRecord(disposition, generations'[g])
                      /\ g > 1 => ValidSuccessor(disposition, generations'[g - 1],
                                                 generations'[g])
    BY DEF ReadablePrefix
  <2>1. CASE g = n + 1
    BY <1>1, <1>2, <1>3, <1>6, <2>1
  <2>2. CASE g \in 1..n
    <3>1. g > 1 => g - 1 \in 1..n
      BY <1>3, <2>2
    <3> QED
      BY <1>6, <1>7, <2>2, <3>1 DEF ReadablePrefix
  <2> QED
    BY <1>3, <2>1, <2>2
<1>9. n + 1 \in 0..MaximumGeneration
  BY <1>2 DEF Generation
<1> QED
  BY <1>2, <1>6, <1>8, <1>9 DEF ChainInv

\* Every readable prefix of the chain ends in a valid record under its own name.
LEMMA PrefixRecord ==
    ASSUME NEW n \in Generation, ReadablePrefix(disposition, generations, n)
    PROVE  /\ generations[n] \in Record
           /\ generations[n].generation = n
           /\ ValidRecord(disposition, generations[n])
<1>1. n \in 1..n
  BY DEF Generation
<1>2. n = 1 \/ n > 1
  BY DEF Generation
<1> QED
  BY <1>1, <1>2 DEF ReadablePrefix, ValidSuccessor

\* While the folder is within its limit, readChain returns the newest generation
\* of the chain.
LEMMA NewestIsRead ==
    ASSUME ChainInv, JournalFiles <= MaximumJournalFiles,
           NEW n \in Generation, generations[n] # Absent,
           \A g \in Generation : g > n => generations[g] = Absent
    PROVE  ReadsChain(disposition, generations, pending, n)
<1>1. PICK m \in 0..MaximumGeneration :
        /\ ReadablePrefix(disposition, generations, m)
        /\ \A g \in Generation : g > m => generations[g] = Absent
  BY DEF ChainInv
<1>2. m \in Generation /\ m >= n
  BY <1>1 DEF Generation, MaximumGeneration
<1>3. generations[m] # Absent
  BY <1>1, <1>2, PrefixRecord, RecordFacts
<1>4. m = n
  BY <1>2, <1>3 DEF Generation
<1>5. n < MaximumGeneration => n + 1 \in Generation /\ generations[n + 1] = Absent
  BY DEF Generation, MaximumGeneration
<1> QED
  BY <1>1, <1>4, <1>5 DEF ReadsChain, JournalFiles

\* What readChain returns where no call fails is the newest generation of the chain.
LEMMA ReadIsNewest ==
    ASSUME ChainInv, CrashesOnly, NEW n \in Generation,
           ReadsChain(disposition, generations, pending, n)
    PROVE  \A g \in Generation : g > n => generations[g] = Absent
<1>1. PICK m \in 0..MaximumGeneration :
        /\ ReadablePrefix(disposition, generations, m)
        /\ \A g \in Generation : g > m => generations[g] = Absent
  BY DEF ChainInv
<1>2. generations[n] # Absent
  BY ReadRecord, RecordFacts
<1>3. m \in Generation /\ m >= n
  BY <1>1, <1>2 DEF Generation, MaximumGeneration
<1>4. CASE m = n
  BY <1>1, <1>4
<1>5. CASE m > n
  <2>1. n < MaximumGeneration /\ n + 1 \in Generation /\ n + 1 \in 1..m
    BY <1>3, <1>5 DEF Generation, MaximumGeneration
  <2>2. ReadablePrefix(disposition, generations, n + 1)
    BY <1>1, <1>3, <2>1 DEF ReadablePrefix, Generation
  <2>3. generations[n + 1] # Absent
    BY <2>1, <2>2, PrefixRecord, RecordFacts
  <2> QED
    BY <2>1, <2>2, <2>3 DEF ReadsChain, CrashesOnly
<1> QED
  BY <1>3, <1>4, <1>5 DEF Generation

\* The two stages that execute() makes, and the files they are told from.
LEMMA StageValues ==
    /\ CreatedStage \in Slot /\ WrittenStage \in Slot /\ Original \in Slot
    /\ CreatedStage.id = StageId /\ CreatedStage.bytes = "Partial"
    /\ WrittenStage.id = StageId /\ WrittenStage.bytes = "Output"
    /\ Original.id = SourceId /\ Original.bytes = "Reviewed"
    /\ NoFile.id = "None"
    /\ [CreatedStage EXCEPT !.bytes = "Output"] = WrittenStage
    /\ [WrittenStage EXCEPT !.bytes = "Output"] = WrittenStage
<1>1. CreatedStage \in Slot /\ WrittenStage \in Slot /\ Original \in Slot
  BY FileValues DEF CreatedStage, WrittenStage, Original, Bytes
<1> QED
  BY <1>1 DEF CreatedStage, WrittenStage, Original, NoFile, FileOf, StageId, SourceId

\* What is published, by whomever: a record whose backup is there, and never the
\* record of a written stage before the stage is written.
Publishes(record) ==
    /\ Publishable(record) /\ Appends(record)
    /\ record.hasBackup => VerifiedBackup
    /\ record.generation = 2 => stage # CreatedStage

\* A publication of execute().
LEMMA ExecutePublishes ==
    ASSUME IInv, RetainedInv, CrashInv, CrashesOnly, generations' # generations,
           \/ PublishInitialized \/ PublishWritten \/ PublishVerified
           \/ PublishBackup \/ PublishCommitted \/ PublishCleaned
    PROVE  \E record \in Record : Publishes(record) /\ xpc' # "CheckOriginal" /\ xrec' = record
<1>1. CASE PublishInitialized
  <2>1. /\ XPublish(xrec, XGoto("WriteStage")) /\ xrec.generation = 1 /\ xrec \in Record
        /\ xrec.hasBackup => VerifiedBackup
    BY <1>1 DEF PublishInitialized, IInv, MemoryInv, TypeOK, ExecutionOK, Absent,
       CrashInv, CrashRecordsInv
  <2> QED
    BY <2>1 DEF Publishes, XPublish, XGoto, CrashesOnly
<1>2. ASSUME NEW s \in ImageFileTransactionState, NEW ACTION Then, xrec.generation \in 1..5,
             XPublish(NextRecord(s), Then), Then => xpc' # "CheckOriginal",
             s = "VerifiedBackupCreated" => VerifiedBackup,
             xrec.generation = 1 => stage # CreatedStage
      PROVE  \E record \in Record : Publishes(record) /\ xpc' # "CheckOriginal" /\ xrec' = record
  <2>1. /\ NextRecord(s) \in Record
        /\ NextRecord(s).generation = xrec.generation + 1
    BY <1>2, NextRecordFacts DEF IInv, TypeOK
  <2>2. NextRecord(s).hasBackup => VerifiedBackup
    BY <1>2 DEF NextRecord, CrashInv, CrashRecordsInv
  <2>3. Publishable(NextRecord(s)) /\ Appends(NextRecord(s)) /\ Then /\ xrec' = NextRecord(s)
    BY <1>2 DEF XPublish, CrashesOnly
  <2> QED
    BY <1>2, <2>1, <2>2, <2>3 DEF Publishes
<1> USE DEF ImageFileTransactionState
<1>3. CASE PublishWritten
  <2>1. /\ XPublish(NextRecord("StagedOutputWritten"), XGoto("VerifyStage"))
        /\ xrec.generation = 1
        /\ stage # CreatedStage
    BY <1>3, StageValues DEF PublishWritten, IInv, MemoryInv, CrashInv, CrashFilesInv
  <2>2. XGoto("VerifyStage") => xpc' # "CheckOriginal"
    BY DEF XGoto
  <2> QED
    BY <1>2, <2>1, <2>2
<1>4. CASE PublishVerified
  <2>1. /\ XPublish(NextRecord("StagedOutputHashVerified"), XGoto("RecheckSource"))
        /\ xrec.generation = 2
    BY <1>4 DEF PublishVerified, IInv, MemoryInv
  <2>2. XGoto("RecheckSource") => xpc' # "CheckOriginal"
    BY DEF XGoto
  <2> QED
    BY <1>2, <2>1, <2>2
<1>5. CASE PublishBackup
  <2>1. /\ XPublish(NextRecord("VerifiedBackupCreated"), XGoto("ReadIntent"))
        /\ xrec.generation = 3
        /\ VerifiedBackup
    BY <1>5 DEF PublishBackup, IInv, MemoryInv, RetainedInv, CrashesOnly
  <2>2. XGoto("ReadIntent") => xpc' # "CheckOriginal"
    BY DEF XGoto
  <2> QED
    BY <1>2, <2>1, <2>2
<1>6. CASE PublishCommitted
  <2>1. /\ XPublish(NextRecord("OutputCommitted"), XGoto("PublishCleaned"))
        /\ xrec.generation \in 3..4
    BY <1>6 DEF PublishCommitted, IInv, MemoryInv
  <2>2. XGoto("PublishCleaned") => xpc' # "CheckOriginal"
    BY DEF XGoto
  <2> QED
    BY <1>2, <2>1, <2>2
<1>7. CASE PublishCleaned
  <2>1. /\ XPublish(NextRecord("OwnedStagingArtifactsCleaned"), XReturn("Success"))
        /\ xrec.generation \in 4..5
    BY <1>7 DEF PublishCleaned, IInv, MemoryInv
  <2>2. XReturn("Success") => xpc' # "CheckOriginal"
    BY DEF XReturn
  <2> QED
    BY <1>2, <2>1, <2>2
<1> QED
  BY <1>1, <1>3, <1>4, <1>5, <1>6, <1>7

\* The closing record of cleanup repeats what the newest record says of the backup.
LEMMA AbandonPublishes ==
    ASSUME IInv, CrashInv, CrashesOnly, Abandon, generations' # generations
    PROVE  \E record \in Record : Publishes(record)
<1>1. PICK n \in 0..MaximumGeneration :
         /\ ReadsChain(disposition, generations, pending, n) /\ n > 0
         /\ Publishable(AbandonedAfter(generations[n]))
         /\ Appends(AbandonedAfter(generations[n]))
  BY DEF Abandon
<1>2. n \in Generation
  BY <1>1 DEF Generation
<1>3. generations[n] \in Record
  BY <1>1, <1>2, ReadRecord
<1>4. AbandonedAfter(generations[n]) \in Record
  BY <1>1, <1>3, PublishedName, AbandonedRecord DEF IInv, TypeOK, JournalOK
<1>5. AbandonedAfter(generations[n]).hasBackup = generations[n].hasBackup
  BY <1>3 DEF AbandonedAfter, Record
<1>6. generations[n].hasBackup => VerifiedBackup
  BY <1>2 DEF CrashInv, CrashRecordsInv
<1>7. ~own.committed
  BY DEF Abandon
<1>8. stage # CreatedStage
  BY <1>7, StageValues DEF Abandon, IInv, CleanupInv, CleanupPoint
<1> QED
  BY <1>1, <1>4, <1>5, <1>6, <1>8 DEF Publishes

\* A publication of recovery does so too.
LEMMA RecoveryPublishes ==
    ASSUME IInv, CrashInv, CrashesOnly, generations' # generations,
           RecordAbandoned \/ RecordCommitted \/ RecordCleaned
    PROVE  \E record \in Record :
              Publishes(record) /\ record.generation = rrec.generation + 1
<1> DEFINE Published(record) == Publishable(record) /\ Appends(record)
<1>1. \/ Published(AbandonedAfter(rrec))
      \/ Published(Successor(rrec, "OutputCommitted"))
      \/ Published(Successor(rrec, "OwnedStagingArtifactsCleaned"))
  BY DEF RecordAbandoned, RecordCommitted, RecordCleaned, RPublish, journal
<1>2. PICK record : /\ Published(record)
                    /\ \/ record = AbandonedAfter(rrec)
                       \/ \E t \in ImageFileTransactionState : record = Successor(rrec, t)
  BY <1>1, Zenon DEF ImageFileTransactionState
<1>3. rrec \in Record /\ disposition \in OutputDisposition /\ JournalOK
  BY DEF IInv, TypeOK, JournalOK, RecoveryInv, RecordAbandoned, RecordCommitted,
     RecordCleaned
<1>4. record \in Record /\ record.generation = rrec.generation + 1
  BY <1>2, <1>3, PublishedName, AbandonedRecord, SuccessorRecord
<1>5. record.hasBackup = rrec.hasBackup
  BY <1>2, <1>3 DEF AbandonedAfter, Successor, Record
<1>6. rrec = generations[rrec.generation] /\ rrec.generation \in Generation
  BY <1>3, RecordFacts DEF RecordAbandoned, RecordCommitted, RecordCleaned, CrashInv,
     CrashRecoveryInv
<1>7. rrec.hasBackup => VerifiedBackup
  BY <1>6 DEF CrashInv, CrashRecordsInv
<1>8. stage # CreatedStage
  BY StageValues DEF RecordAbandoned, RecordCommitted, RecordCleaned, IInv, RecoveryInv,
     CrashInv, CrashFilesInv, StageId
<1> QED
  BY <1>2, <1>4, <1>5, <1>7, <1>8 DEF Publishes

\* However the journal changes, one chain is left.
LEMMA ChainStays ==
    ASSUME IInv, RetainedInv, CrashInv, CrashesOnly, Next
    PROVE  /\ disposition' = disposition
           /\ generations' = generations \/ \E record \in Record : Publishes(record)
           /\ ChainInv'
<1>1. disposition' = disposition
  BY DEF Next, ExecuteStep, Preflight, PreflightRefuses, BodyThrows, CreateStage,
     CreateJournalFolder, PublishInitialized, WriteStage, PublishWritten, VerifyStage,
     PublishVerified, RecheckSource, CreateBackup, VerifyBackup, RecheckAfterBackup,
     PublishBackup, ReadIntent, RecheckBeforeReplacement, CommitReplacement, CommitCopy,
     VerifyCommitted, PublishCommitted, PublishCleaned, CheckOriginal, RemoveStage,
     Abandon, XPublish, RecoveryStep, StartRecovery, ReadJournal, CheckBackup,
     ObserveSource, Decide, RecoveryVerifiesStage, RecoveryRemovesStage, RecordAbandoned,
     RecordCommitted, RecordCleaned, RecoveryThrows, RPublish, Environment,
     ExecuteCrashes, RecoveryCrashes, RecoveryObservesStop, Cancel, UserEditsSource,
     UserReplacesSource, UserChangesDestination, ArtifactTampered, GenerationDamaged, request
<1>2. CASE generations' = generations
  BY <1>1, <1>2 DEF CrashInv, ChainInv
<1>3. CASE generations' # generations
  <2>1. \/ PublishInitialized \/ PublishWritten \/ PublishVerified \/ PublishBackup
        \/ PublishCommitted \/ PublishCleaned \/ Abandon
        \/ RecordAbandoned \/ RecordCommitted \/ RecordCleaned
    BY <1>3 DEF CrashesOnly, Next, ExecuteStep, Preflight, PreflightRefuses, BodyThrows,
       CreateStage, CreateJournalFolder, WriteStage, VerifyStage, RecheckSource,
       CreateBackup, VerifyBackup, RecheckAfterBackup, ReadIntent,
       RecheckBeforeReplacement, CommitReplacement, CommitCopy, VerifyCommitted,
       CheckOriginal, RemoveStage, RecoveryStep, StartRecovery, ReadJournal, CheckBackup,
       ObserveSource, Decide, RecoveryVerifiesStage, RecoveryRemovesStage, RecoveryThrows,
       Environment, ExecuteCrashes, RecoveryCrashes, RecoveryObservesStop, Cancel,
       UserEditsSource, UserReplacesSource, UserChangesDestination, ArtifactTampered,
       GenerationDamaged, journal
  <2>2. \E record \in Record : Publishes(record)
    BY <1>3, <2>1, ExecutePublishes, AbandonPublishes, RecoveryPublishes
  <2> QED
    BY <1>1, <2>2, AppendKeepsChain DEF Publishes, IInv, TypeOK
<1> QED
  BY <1>1, <1>2, <1>3

\* Recovery works on an execution that is over, or has not begun.
LEMMA RecoveryAlone ==
    ASSUME IInv, RecoveryActive
    PROVE  /\ xpc \in {"Idle", "Done", "Crashed"}
           /\ rpc # "ReadJournal" => xpc \in {"Done", "Crashed"}
BY DEF IInv, TypeOK, ExecutionOK, LeaseInv, ExecuteActive, RecoveryActive

\* The program alone makes the files what they are.
LEMMA CrashFilesStay ==
    ASSUME IInv, CrashInv, CrashesOnly, Next, disposition' = disposition
    PROVE  CrashFilesInv'
<1> USE DEF VerifiedPoint, BackedUpPoint
<1>1. CASE CreateStage
  <2>1. /\ stage' = CreatedStage /\ effect = "None"
        /\ xpc' \in {"CreateJournalFolder", "CheckOriginal"}
        /\ UNCHANGED <<source, destination, effect>>
    BY <1>1 DEF CreateStage, CreatedStage, XGoto, XCatch, IInv, BodyInv, BodyPoint,
       CommitPoint, history
  <2> QED
    BY <2>1 DEF CrashInv, CrashFilesInv, Replacement
<1>2. CASE WriteStage
  <2>1. /\ xpc = "WriteStage" /\ effect = "None"
        /\ UNCHANGED <<source, destination, effect>>
        /\ \/ stage' = [stage EXCEPT !.bytes = "Output"] /\ stage # NoFile
           \/ stage' = stage /\ xpc' = "CheckOriginal"
        /\ xpc' \in {"PublishWritten", "CheckOriginal"}
    BY <1>2 DEF WriteStage, XGoto, XCatch, IInv, BodyInv, BodyPoint, CommitPoint, history,
       CrashesOnly
  <2> QED
    BY <2>1, StageValues DEF CrashInv, CrashFilesInv, Replacement
<1>3. CASE CommitReplacement \/ CommitCopy
  <2>1. /\ effect = "None" /\ stage = WrittenStage
        /\ CommitReplacement => Replacement
        /\ CommitCopy => ~Replacement
    BY <1>3 DEF CommitReplacement, CommitCopy, IInv, BodyInv, BodyPoint, CommitPoint,
       CrashInv, CrashFilesInv
  <2>2. xpc' \in {"VerifyCommitted", "CheckOriginal"}
    BY <1>3 DEF CommitReplacement, CommitCopy, XGoto, XCatch, XCleanup
  <2>3. CASE CommitReplacement
    BY <2>1, <2>2, <2>3 DEF CommitReplacement, CrashInv, CrashFilesInv, CrashesOnly,
       Replacement
  <2>4. CASE CommitCopy
    BY <2>1, <2>2, <2>4 DEF CommitCopy, CrashInv, CrashFilesInv, CrashesOnly, Replacement
  <2> QED
    BY <1>3, <2>3, <2>4
<1>4. CASE RemoveStage
  BY <1>4 DEF RemoveStage, XGoto, CleanupThrows, XCatch, XReturn, CrashInv, CrashFilesInv,
     Replacement, history
<1>5. CASE /\ ExecuteStep /\ ~CreateStage /\ ~WriteStage /\ ~CommitReplacement
           /\ ~CommitCopy /\ ~RemoveStage
  <2>1. UNCHANGED <<source, stage, destination, effect>>
    BY <1>5 DEF ExecuteStep, Preflight, PreflightRefuses, BodyThrows, CreateJournalFolder,
       PublishInitialized, PublishWritten, VerifyStage, PublishVerified, RecheckSource,
       CreateBackup, VerifyBackup, RecheckAfterBackup, PublishBackup, ReadIntent,
       RecheckBeforeReplacement, VerifyCommitted, PublishCommitted, PublishCleaned,
       CheckOriginal, Abandon, XPublish, files, history
  <2>2. xpc' \in {"PublishWritten", "VerifyStage", "CommitCopy"} \cup VerifiedPoint =>
           xpc \in {"PublishWritten", "VerifyStage", "CommitCopy"} \cup VerifiedPoint
    BY <1>5 DEF ExecuteStep, Preflight, PreflightRefuses, BodyThrows, CreateJournalFolder,
       PublishInitialized, PublishWritten, VerifyStage, PublishVerified, RecheckSource,
       RecheckOf, CreateBackup, VerifyBackup, RecheckAfterBackup, PublishBackup, ReadIntent,
       RecheckBeforeReplacement, VerifyCommitted, PublishCommitted, PublishCleaned,
       CheckOriginal, Abandon, XPublish, XGoto, XCatch, XCleanup, XReturn, CleanupThrows,
       CleanupReturns
  <2>3. xpc' \in {"Idle", "CreateStage"} => xpc = "Idle" /\ folder' = folder
    BY <1>5 DEF ExecuteStep, Preflight, PreflightRefuses, BodyThrows, CreateJournalFolder,
       PublishInitialized, PublishWritten, VerifyStage, PublishVerified, RecheckSource,
       RecheckOf, CreateBackup, VerifyBackup, RecheckAfterBackup, PublishBackup, ReadIntent,
       RecheckBeforeReplacement, VerifyCommitted, PublishCommitted, PublishCleaned,
       CheckOriginal, Abandon, XPublish, XGoto, XCatch, XCleanup, XReturn, CleanupThrows,
       CleanupReturns, journal
  <2> QED
    BY <2>1, <2>2, <2>3 DEF CrashInv, CrashFilesInv, Replacement
<1>6. CASE RecoveryStep \/ Environment
  <2>1. UNCHANGED <<source, destination, effect, folder>>
    BY <1>6 DEF CrashesOnly, RecoveryStep, StartRecovery, ReadJournal, CheckBackup,
       ObserveSource, Decide, RecoveryVerifiesStage, RecoveryRemovesStage, RecordAbandoned,
       RecordCommitted, RecordCleaned, RecoveryThrows, RPublish, Environment,
       ExecuteCrashes, RecoveryCrashes, RecoveryObservesStop, Cancel, UserEditsSource,
       UserReplacesSource, UserChangesDestination, ArtifactTampered, GenerationDamaged,
       files, history, journal
  <2>2. xpc' = xpc \/ xpc' = "Crashed"
    BY <1>6, OthersKeepPoint
  <2>3. stage' = stage \/ (stage' = NoFile /\ xpc \in {"Done", "Crashed"})
    <3>1. CASE RecoveryRemovesStage
      BY <3>1, RecoveryAlone DEF RecoveryRemovesStage, RecoveryActive
    <3>2. CASE ~RecoveryRemovesStage
      BY <1>6, <3>2 DEF CrashesOnly, RecoveryStep, StartRecovery, ReadJournal, CheckBackup,
         ObserveSource, Decide, RecoveryVerifiesStage, RecordAbandoned,
         RecordCommitted, RecordCleaned, RecoveryThrows, RPublish, Environment,
         ExecuteCrashes, RecoveryCrashes, RecoveryObservesStop, Cancel, UserEditsSource,
         UserReplacesSource, UserChangesDestination, ArtifactTampered, GenerationDamaged,
         files
    <3> QED
      BY <3>1, <3>2
  <2> QED
    BY <2>1, <2>2, <2>3 DEF CrashInv, CrashFilesInv, Replacement
<1> QED
  BY <1>1, <1>2, <1>3, <1>4, <1>5, <1>6 DEF Next

\* A backup is made once, and what was verified is not made again.
LEMMA BackupStays ==
    ASSUME CrashesOnly, Next, VerifiedBackup
    PROVE  VerifiedBackup'
<1>1. backup # NoFile
  BY FileIdentities DEF VerifiedBackup, BackupId
<1>2. backup' = backup
  BY <1>1 DEF CrashesOnly, Next, ExecuteStep, Preflight, PreflightRefuses, BodyThrows,
     CreateStage, CreateJournalFolder, PublishInitialized, WriteStage, PublishWritten,
     VerifyStage, PublishVerified, RecheckSource, CreateBackup, VerifyBackup,
     RecheckAfterBackup, PublishBackup, ReadIntent, RecheckBeforeReplacement,
     CommitReplacement, CommitCopy, VerifyCommitted, PublishCommitted, PublishCleaned,
     CheckOriginal, RemoveStage, Abandon, XPublish, RecoveryStep, StartRecovery,
     ReadJournal, CheckBackup, ObserveSource, Decide, RecoveryVerifiesStage,
     RecoveryRemovesStage, RecordAbandoned, RecordCommitted, RecordCleaned,
     RecoveryThrows, RPublish, Environment, ExecuteCrashes, RecoveryCrashes,
     RecoveryObservesStop, Cancel, UserEditsSource, UserReplacesSource,
     UserChangesDestination, ArtifactTampered, GenerationDamaged, files
<1> QED
  BY <1>2 DEF VerifiedBackup

\* A created stage is only ever new.
LEMMA StageIsNew ==
    ASSUME CrashInv, CrashesOnly, Next, stage' = CreatedStage
    PROVE  stage = CreatedStage \/ CreateStage
<1>1. CASE WriteStage
  BY <1>1, StageValues DEF WriteStage, CrashInv, CrashFilesInv
<1>2. CASE CommitReplacement \/ CommitCopy \/ RemoveStage \/ RecoveryRemovesStage
  BY <1>2, StageValues DEF CommitReplacement, CommitCopy, RemoveStage,
     RecoveryRemovesStage, StageId
<1>3. CASE \/ ExecuteStep /\ ~WriteStage /\ ~CommitReplacement /\ ~CommitCopy /\ ~RemoveStage
           \/ RecoveryStep /\ ~RecoveryRemovesStage
           \/ Environment
  BY <1>3 DEF CrashesOnly, ExecuteStep, Preflight, PreflightRefuses, BodyThrows,
     CreateJournalFolder, PublishInitialized, PublishWritten, VerifyStage,
     PublishVerified, RecheckSource, CreateBackup, VerifyBackup, RecheckAfterBackup,
     PublishBackup, ReadIntent, RecheckBeforeReplacement, VerifyCommitted,
     PublishCommitted, PublishCleaned, CheckOriginal, Abandon, XPublish, RecoveryStep,
     StartRecovery, ReadJournal, CheckBackup, ObserveSource, Decide,
     RecoveryVerifiesStage, RecordAbandoned, RecordCommitted, RecordCleaned,
     RecoveryThrows, RPublish, Environment, ExecuteCrashes, RecoveryCrashes,
     RecoveryObservesStop, Cancel, UserEditsSource, UserReplacesSource,
     UserChangesDestination, ArtifactTampered, GenerationDamaged, files
<1> QED
  BY <1>1, <1>2, <1>3 DEF Next

\* The record in memory claims a backup only once it was verified.
LEMMA MemoryBackup ==
    ASSUME IInv, RetainedInv, CrashInv, CrashesOnly, Next, xrec'.hasBackup
    PROVE  VerifiedBackup
<1>1. CASE xrec' = xrec \/ xrec' = Absent
  BY <1>1 DEF CrashInv, CrashRecordsInv, Absent
<1>2. CASE CreateJournalFolder
  BY <1>1, <1>2 DEF CreateJournalFolder
<1>3. CASE PublishInitialized
  BY <1>1, <1>3 DEF PublishInitialized, XPublish
<1>4. CASE PublishBackup
  BY <1>4 DEF PublishBackup, RetainedInv, CrashesOnly
<1>5. CASE PublishWritten \/ PublishVerified \/ PublishCommitted \/ PublishCleaned
  <2>1. PICK s \in ImageFileTransactionState \ {"VerifiedBackupCreated"} :
           xrec' = NextRecord(s)
    BY <1>5 DEF PublishWritten, PublishVerified, PublishCommitted, PublishCleaned, XPublish,
       ImageFileTransactionState
  <2>2. xrec.hasBackup
    BY <2>1 DEF NextRecord
  <2> QED
    BY <2>2 DEF CrashInv, CrashRecordsInv
<1>6. CASE \/ /\ ExecuteStep /\ ~CreateJournalFolder /\ ~PublishInitialized /\ ~PublishBackup
              /\ ~PublishWritten /\ ~PublishVerified /\ ~PublishCommitted /\ ~PublishCleaned
           \/ RecoveryStep \/ Environment
  <2>1. xrec' = xrec \/ xrec' = Absent
    BY <1>6 DEF ExecuteStep, Preflight, PreflightRefuses, BodyThrows,
       CreateStage, WriteStage, VerifyStage, RecheckSource, CreateBackup, VerifyBackup,
       RecheckAfterBackup, ReadIntent, RecheckBeforeReplacement, CommitReplacement,
       CommitCopy, VerifyCommitted, CheckOriginal, RemoveStage, Abandon, RecoveryStep,
       StartRecovery, ReadJournal, CheckBackup, ObserveSource, Decide,
       RecoveryVerifiesStage, RecoveryRemovesStage, RecordAbandoned, RecordCommitted,
       RecordCleaned, RecoveryThrows, RPublish, Environment, ExecuteCrashes,
       RecoveryCrashes, RecoveryObservesStop, Cancel, UserEditsSource, UserReplacesSource,
       UserChangesDestination, ArtifactTampered, GenerationDamaged, execution
  <2> QED
    BY <1>1, <2>1
<1> QED
  BY <1>2, <1>3, <1>4, <1>5, <1>6 DEF Next

\* A replacement with a backup commits after the record of the backup.
LEMMA BackupRecordedFirst ==
    ASSUME IInv, CrashInv, CrashesOnly, Next, RetainsBackup(disposition),
           \A g \in Generation : generations[g] # Absent => generations'[g] # Absent,
           xpc' \in BackedUpPoint \/ effect' = "Committed"
    PROVE  generations'[4] # Absent
<1> USE DEF BackedUpPoint
<1>1. CASE PublishBackup /\ xpc' \in BackedUpPoint
  <2>1. /\ XPublish(NextRecord("VerifiedBackupCreated"), XGoto("ReadIntent"))
        /\ xrec.generation = 3
    BY <1>1 DEF PublishBackup, IInv, MemoryInv
  <2>2. /\ NextRecord("VerifiedBackupCreated") \in Record
        /\ NextRecord("VerifiedBackupCreated").generation = 4
    BY <2>1, NextRecordFacts DEF IInv, TypeOK, ImageFileTransactionState
  <2>3. generations'[4] = NextRecord("VerifiedBackupCreated")
    BY <1>1, <2>1, <2>2, XPublished DEF XCatch, IInv, TypeOK
  <2> QED
    BY <2>2, <2>3, RecordFacts
<1>2. CASE xpc \in BackedUpPoint \/ effect = "Committed"
  BY <1>2 DEF CrashInv, CrashRecordsInv, Generation, MaximumGeneration
<1>3. CASE xpc \notin BackedUpPoint /\ effect # "Committed" /\ ~PublishBackup
  <2>1. ~CommitReplacement /\ ~CommitCopy
    BY <1>3 DEF CommitReplacement, CommitCopy, IInv, BodyInv, Replacement, RetainsBackup,
       Copy, ReplaceWithBackup
  <2>2. effect' # "Committed"
    BY <1>3, <2>1 DEF Next, ExecuteStep, Preflight, PreflightRefuses, BodyThrows,
       CreateStage, CreateJournalFolder, PublishInitialized, WriteStage, PublishWritten,
       VerifyStage, PublishVerified, RecheckSource, CreateBackup, VerifyBackup,
       RecheckAfterBackup, ReadIntent, RecheckBeforeReplacement,
       VerifyCommitted, PublishCommitted, PublishCleaned, CheckOriginal, RemoveStage,
       Abandon, XPublish, RecoveryStep, StartRecovery, ReadJournal, CheckBackup,
       ObserveSource, Decide, RecoveryVerifiesStage, RecoveryRemovesStage,
       RecordAbandoned, RecordCommitted, RecordCleaned, RecoveryThrows, RPublish,
       Environment, ExecuteCrashes, RecoveryCrashes, RecoveryObservesStop, Cancel,
       UserEditsSource, UserReplacesSource, UserChangesDestination, ArtifactTampered,
       GenerationDamaged, history
  <2>3. xpc' \notin BackedUpPoint
    <3>1. CASE ExecuteStep
      BY <1>3, <2>1, <3>1 DEF ExecuteStep, Preflight, PreflightRefuses, BodyThrows,
         CreateStage, CreateJournalFolder, PublishInitialized, WriteStage, PublishWritten,
         VerifyStage, PublishVerified, RecheckSource, RecheckOf, CreateBackup,
         VerifyBackup, RecheckAfterBackup, ReadIntent, RecheckBeforeReplacement,
         VerifyCommitted, PublishCommitted, PublishCleaned, CheckOriginal, RemoveStage,
         Abandon, XPublish, XGoto, XCatch, XCleanup, XReturn, CleanupThrows,
         CleanupReturns, RetainsBackup, Copy, ReplaceWithBackup
    <3>2. CASE RecoveryStep \/ Environment
      BY <1>3, <3>2, OthersKeepPoint
    <3> QED
      BY <3>1, <3>2 DEF Next
  <2> QED
    BY <2>2, <2>3
<1>4. CASE PublishBackup /\ xpc' \notin BackedUpPoint
  BY <1>2, <1>4 DEF PublishBackup, XPublish, history
<1> QED
  BY <1>1, <1>2, <1>3, <1>4

\* What the records say of stage and backup stays so.
LEMMA CrashRecordsStay ==
    ASSUME IInv, RetainedInv, CrashInv, CrashesOnly, Next
    PROVE  CrashRecordsInv'
<1>1. /\ disposition' = disposition
      /\ generations' = generations \/ \E record \in Record : Publishes(record)
  BY ChainStays
<1>2. JournalOK
  BY DEF IInv, TypeOK
<1>3. \A g \in Generation : generations[g] # Absent => generations'[g] # Absent
  BY <1>1, <1>2, Appended DEF Publishes
<1>4. ASSUME generations'[2] # Absent, stage' = CreatedStage PROVE FALSE
  <2>1. CASE CreateStage
    BY <1>4, <2>1 DEF CreateStage, journal, IInv, StartInv, Generation, MaximumGeneration
  <2>2. CASE ~CreateStage
    <3>1. stage = CreatedStage
      BY <1>4, <2>2, StageIsNew
    <3>2. generations[2] = Absent
      BY <3>1 DEF CrashInv, CrashRecordsInv
    <3>3. PICK record \in Record : Publishes(record)
      BY <1>1, <1>4, <3>2
    <3>4. record.generation = 2
      BY <1>2, <1>4, <3>2, <3>3, Appended DEF Publishes, Generation, MaximumGeneration
    <3> QED
      BY <3>1, <3>3, <3>4 DEF Publishes
  <2> QED
    BY <2>1, <2>2
<1>5. ASSUME NEW g \in Generation, generations'[g].hasBackup PROVE VerifiedBackup
  <2>1. CASE generations'[g] = generations[g]
    BY <1>5, <2>1 DEF CrashInv, CrashRecordsInv
  <2>2. CASE generations'[g] # generations[g]
    <3>1. PICK record \in Record : Publishes(record)
      BY <1>1, <2>2
    <3>2. generations'[g] = record
      BY <1>2, <2>2, <3>1, Appended DEF Publishes
    <3> QED
      BY <1>5, <3>1, <3>2 DEF Publishes
  <2> QED
    BY <2>1, <2>2
<1>6. (\E g \in Generation : generations'[g].hasBackup) \/ xrec'.hasBackup =>
         VerifiedBackup'
  BY <1>5, MemoryBackup, BackupStays
<1>7. (xpc' \in BackedUpPoint \/ effect' = "Committed") /\ RetainsBackup(disposition) =>
         generations'[4] # Absent
  BY <1>3, BackupRecordedFirst
<1> QED
  BY <1>1, <1>4, <1>6, <1>7 DEF CrashRecordsInv, CreatedStage, BackedUpPoint

\* What recovery knows once it has read the journal.
LEMMA RecoveryKnows ==
    ASSUME IInv, CrashInv, rpc \notin {"Idle", "ReadJournal"}
    PROVE  /\ xpc \in {"Done", "Crashed"}
           /\ rrec \in Record /\ rrec.generation \in Generation
           /\ ValidRecord(disposition, rrec)
           /\ generations[rrec.generation] = rrec
           /\ \A g \in Generation : g > rrec.generation => generations[g] = Absent
           /\ robs.id = source.id
           /\ disposition \in OutputDisposition
<1>1. rrec \in Record /\ ValidRecord(disposition, rrec) /\ disposition \in OutputDisposition
  BY DEF IInv, RecoveryInv, TypeOK, JournalOK
<1>2. xpc \in {"Done", "Crashed"}
  BY RecoveryAlone DEF RecoveryActive
<1> QED
  BY <1>1, <1>2, RecordFacts DEF CrashInv, CrashRecoveryInv

\* While the folder is within its limit, a valid successor of the newest record
\* can be published.
LEMMA SuccessorIsPublishable ==
    ASSUME IInv, CrashInv, rpc \notin {"Idle", "ReadJournal"},
           JournalFiles <= MaximumJournalFiles, NEW record,
           record.state \in ImageFileTransactionState,
           ValidSuccessor(disposition, rrec, record)
    PROVE  Publishable(record)
<1>1. /\ rrec \in Record /\ rrec.generation \in Generation
      /\ generations[rrec.generation] = rrec
      /\ \A g \in Generation : g > rrec.generation => generations[g] = Absent
      /\ disposition \in OutputDisposition
  BY RecoveryKnows
<1>2. ReadsChain(disposition, generations, pending, rrec.generation)
  BY <1>1, RecordFacts, NewestIsRead DEF CrashInv
<1>3. ValidRecord(disposition, record) /\ record.generation = rrec.generation + 1
  BY DEF ValidSuccessor
<1>4. record.generation \in Generation
  BY <1>1, <1>3, ValidGeneration DEF Generation
<1>5. generations[record.generation] = Absent
  BY <1>1, <1>3, <1>4 DEF Generation
<1>6. rrec.generation \in 0..MaximumGeneration /\ rrec.generation # 0
  BY <1>1 DEF Generation
<1> QED
  BY <1>1, <1>2, <1>3, <1>5, <1>6 DEF Publishable, CanPublish

\* The closing record of an abandonment succeeds every record before a commit.
LEMMA AbandonmentSucceeds ==
    ASSUME NEW d \in OutputDisposition, NEW record \in Record, ValidRecord(d, record),
           StateIndex[record.state] < 4
    PROVE  ValidSuccessor(d, record, AbandonedAfter(record))
<1>1. /\ AbandonedAfter(record).generation = record.generation + 1
      /\ AbandonedAfter(record).state = "TransactionAbandonedBeforeCommit"
      /\ AbandonedAfter(record).hasBackup = record.hasBackup
  BY DEF AbandonedAfter, Record
<1>2. record.state \in {"TransactionInitialized", "StagedOutputWritten",
                        "StagedOutputHashVerified", "VerifiedBackupCreated"}
  BY StateIndexValues, RecordFacts DEF ImageFileTransactionState
<1> QED
  BY <1>1, <1>2, StateIndexValues, RecordFacts
     DEF ValidSuccessor, ValidRecord, ExpectedGeneration, RetainsBackup

\* The record of the commit succeeds the last record before it.
LEMMA CommitmentSucceeds ==
    ASSUME NEW d \in OutputDisposition, NEW record \in Record, ValidRecord(d, record),
           StateIndex[record.state] < 4,
           StateIndex[record.state] >= (IF RetainsBackup(d) THEN 3 ELSE 2)
    PROVE  ValidSuccessor(d, record, Successor(record, "OutputCommitted"))
<1>1. /\ Successor(record, "OutputCommitted").generation = record.generation + 1
      /\ Successor(record, "OutputCommitted").state = "OutputCommitted"
      /\ Successor(record, "OutputCommitted").hasBackup = record.hasBackup
  BY DEF Successor, Record
<1>2. record.state \in {"StagedOutputHashVerified", "VerifiedBackupCreated"}
  BY StateIndexValues, RecordFacts DEF ImageFileTransactionState
<1> QED
  BY <1>1, <1>2, StateIndexValues, RecordFacts
     DEF ValidSuccessor, ValidRecord, ExpectedGeneration, RetainsBackup

\* The record of the cleanup succeeds the record of the commit.
LEMMA CleanupSucceeds ==
    ASSUME NEW d \in OutputDisposition, NEW record \in Record, ValidRecord(d, record),
           record.state = "OutputCommitted"
    PROVE  ValidSuccessor(d, record, Successor(record, "OwnedStagingArtifactsCleaned"))
<1>1. /\ Successor(record, "OwnedStagingArtifactsCleaned").generation = record.generation + 1
      /\ Successor(record, "OwnedStagingArtifactsCleaned").state
           = "OwnedStagingArtifactsCleaned"
      /\ Successor(record, "OwnedStagingArtifactsCleaned").hasBackup = record.hasBackup
  BY DEF Successor, Record
<1> QED
  BY <1>1, StateIndexValues, RecordFacts
     DEF ValidSuccessor, ValidRecord, ExpectedGeneration, RetainsBackup

\* After the commit the newest record is at least the one that announced it.
LEMMA CommitWasAnnounced ==
    ASSUME IInv, CrashInv, rpc \notin {"Idle", "ReadJournal"}, effect = "Committed"
    PROVE  /\ StateIndex[rrec.state] >= (IF RetainsBackup(disposition) THEN 3 ELSE 2)
           /\ RetainsBackup(disposition) => rrec.hasBackup
<1>1. /\ rrec \in Record /\ ValidRecord(disposition, rrec)
      /\ \A g \in Generation : g > rrec.generation => generations[g] = Absent
      /\ generations[rrec.generation] = rrec
      /\ disposition \in OutputDisposition
  BY RecoveryKnows
<1>2. rrec.generation >= 3
  BY <1>1, RecordFacts DEF IInv, EffectInv, Generation, MaximumGeneration
<1>3. RetainsBackup(disposition) => rrec.generation >= 4
  BY <1>1, RecordFacts DEF CrashInv, CrashRecordsInv, Generation, MaximumGeneration
<1>4. rrec.state # "TransactionAbandonedBeforeCommit"
  BY <1>1, RecordFacts DEF IInv, AbandonmentIsTrue, Recorded
<1> QED
  BY <1>1, <1>2, <1>3, <1>4, StateIndexValues, RecordFacts
     DEF ValidRecord, ExpectedGeneration, ImageFileTransactionState

\* Where recovery decides, the files leave nothing open but a copy's missing stage.
LEMMA DecideExplained ==
    ASSUME IInv, CrashInv, rpc = "Decide",
           IF OutputObserved THEN ~CommitExplained ELSE ~AbandonExplained
    PROVE  disposition = Copy /\ stage = NoFile /\ destination = NoFile
<1>1. /\ robs.id = source.id
      /\ robs.captured = (source.bytes = "Reviewed")
      /\ robs.transformed = (source.bytes = "Output")
      /\ rrec \in Record /\ generations[rrec.generation] = rrec
      /\ rrec.generation \in Generation
  BY RecoveryKnows DEF CrashInv, CrashRecoveryInv
<1>2. CASE effect = "Committed"
  <2>1. /\ stage = NoFile
        /\ Replacement => source = WrittenStage
        /\ ~Replacement => source = Original /\ destination = WrittenStage
    BY <1>2 DEF CrashInv, CrashFilesInv
  <2>2. /\ StateIndex[rrec.state] >= (IF RetainsBackup(disposition) THEN 3 ELSE 2)
        /\ RetainsBackup(disposition) => rrec.hasBackup
    BY <1>2, CommitWasAnnounced
  <2>3. OutputObserved
    <3>1. Replacement => robs.transformed /\ robs.id = StageId
      BY <1>1, <2>1, StageValues
    <3>2. ~Replacement => destination # NoFile
      BY <2>1, StageValues DEF StageId
    <3> QED
      BY <2>2, <3>1, <3>2 DEF OutputObserved
  <2>4. CommitExplained
    BY <1>1, <2>1, <2>2, StageValues DEF CommitExplained, SourcePreserved
  <2> QED
    BY <2>3, <2>4
<1>3. CASE effect # "Committed"
  <2>1. source = Original /\ destination = NoFile
    BY <1>3 DEF CrashInv, CrashFilesInv
  <2>2. ~OutputObserved /\ SourcePreserved
    BY <1>1, <2>1, StageValues DEF OutputObserved, SourcePreserved, StageId, SourceId
  <2>3. rrec.state \notin {"OutputCommitted", "OwnedStagingArtifactsCleaned"}
    BY <1>1, <1>3 DEF IInv, CommitRecordIsTrue, Recorded
  <2>4. ~Replacement /\ stage = NoFile
    BY <2>2, <2>3 DEF AbandonExplained
  <2> QED
    BY <2>1, <2>4 DEF Replacement
<1> QED
  BY <1>2, <1>3

\* A publication of recovery fails only in a folder that is full.
LEMMA PublicationExplained ==
    ASSUME IInv, CrashInv, CrashesOnly,
           RecordAbandoned \/ RecordCommitted \/ RecordCleaned,
           rresult' = "Conflict", rresult # "Conflict"
    PROVE  JournalFiles > MaximumJournalFiles
<1>1. rpc \notin {"Idle", "ReadJournal"}
  BY DEF RecordAbandoned, RecordCommitted, RecordCleaned
<1>2. rrec \in Record /\ ValidRecord(disposition, rrec) /\ disposition \in OutputDisposition
  BY <1>1, RecoveryKnows
<1>3. JournalFiles \in Int /\ MaximumJournalFiles \in Int
  BY FileCount, MaximumJournalFilesAssumption DEF JournalFiles, IInv, TypeOK, JournalOK
<1> SUFFICES ASSUME JournalFiles <= MaximumJournalFiles PROVE FALSE
  BY <1>3
<1>4. CASE RecordAbandoned
  <2>1. /\ ~Publishable(AbandonedAfter(rrec))
        /\ StateIndex[rrec.state] < 4
    BY <1>4 DEF RecordAbandoned, RPublish, REnd, CrashesOnly, IInv, RecoveryInv
  <2>2. AbandonedAfter(rrec).state \in ImageFileTransactionState
    BY <1>2 DEF AbandonedAfter, Record, ImageFileTransactionState
  <2> QED
    BY <1>1, <1>2, <2>1, <2>2, AbandonmentSucceeds, SuccessorIsPublishable
<1>5. CASE RecordCommitted
  <2>1. rrec.state # "OutputCommitted" /\ ~Publishable(Successor(rrec, "OutputCommitted"))
    BY <1>5 DEF RecordCommitted, RPublish, RGoto, REnd, CrashesOnly
  <2>2. /\ StateIndex[rrec.state] < 5
        /\ StateIndex[rrec.state] >= (IF RetainsBackup(disposition) THEN 3 ELSE 2)
    BY <1>5 DEF RecordCommitted, IInv, RecoveryInv, CrashInv, CrashRecoveryInv
  <2>3. StateIndex[rrec.state] < 4
    BY <1>2, <2>1, <2>2, StateIndexValues, RecordFacts DEF ImageFileTransactionState
  <2>4. Successor(rrec, "OutputCommitted").state \in ImageFileTransactionState
    BY <1>2 DEF Successor, Record, ImageFileTransactionState
  <2> QED
    BY <1>1, <1>2, <2>1, <2>2, <2>3, <2>4, CommitmentSucceeds, SuccessorIsPublishable
<1>6. CASE RecordCleaned
  <2>1. /\ ~Publishable(Successor(rrec, "OwnedStagingArtifactsCleaned"))
        /\ rrec.state = "OutputCommitted"
    BY <1>6 DEF RecordCleaned, RPublish, REnd, CrashesOnly, IInv, RecoveryInv
  <2>2. Successor(rrec, "OwnedStagingArtifactsCleaned").state \in ImageFileTransactionState
    BY <1>2 DEF Successor, Record, ImageFileTransactionState
  <2> QED
    BY <1>1, <1>2, <2>1, <2>2, CleanupSucceeds, SuccessorIsPublishable
<1> QED
  BY <1>4, <1>5, <1>6

\* A journal that recovery cannot read has no record, or is full.
LEMMA UnreadableExplained ==
    ASSUME IInv, CrashInv,
           \A n \in Generation : ~ReadsChain(disposition, generations, pending, n)
    PROVE  \/ ~\E g \in Generation : generations[g] \in Record
           \/ JournalFiles > MaximumJournalFiles
<1>1. JournalFiles \in Int /\ MaximumJournalFiles \in Int
  BY FileCount, MaximumJournalFilesAssumption DEF JournalFiles, IInv, TypeOK, JournalOK
<1>2. PICK m \in 0..MaximumGeneration :
        /\ ReadablePrefix(disposition, generations, m)
        /\ \A g \in Generation : g > m => generations[g] = Absent
  BY DEF CrashInv, ChainInv
<1>3. CASE m = 0
  BY <1>2, <1>3, RecordFacts DEF Generation
<1>4. CASE m # 0
  <2>1. m \in Generation
    BY <1>4 DEF Generation
  <2>2. generations[m] # Absent
    BY <1>2, <2>1, PrefixRecord, RecordFacts
  <2> QED
    BY <1>1, <1>2, <2>1, <2>2, NewestIsRead DEF CrashInv
<1> QED
  BY <1>3, <1>4

\* A recovery run gives up only for one of the three reasons.
LEMMA ConflictExplained ==
    ASSUME IInv, CrashInv, CrashesOnly, RecoveryStep, rresult' = "Conflict",
           rresult # "Conflict"
    PROVE  /\ \/ ~\E g \in Generation : generations[g] \in Record
              \/ disposition = Copy /\ stage = NoFile /\ destination = NoFile
              \/ JournalFiles > MaximumJournalFiles
           /\ UNCHANGED <<generations, pending, stage, destination, xpc>>
           /\ rpc' = "Idle" /\ xpc \in {"Done", "Crashed"}
<1>1. source # NoFile /\ (stage = NoFile \/ stage.id = StageId)
  BY StageValues DEF CrashInv, CrashFilesInv, StageId, SourceId
<1>2. CASE ReadJournal
  <2>1. /\ rpc = "ReadJournal" /\ folder /\ rpc' = "Idle"
        /\ \A n \in Generation : ~ReadsChain(disposition, generations, pending, n)
        /\ UNCHANGED <<files, journal, execution>>
    BY <1>1, <1>2 DEF ReadJournal, REnd, RGoto
  <2>2. xpc \in {"Done", "Crashed"}
    BY <2>1, RecoveryAlone DEF RecoveryActive, CrashInv, CrashFilesInv
  <2> QED
    BY <2>1, <2>2, UnreadableExplained DEF files, journal, execution
<1>3. CASE CheckBackup
  <2>1. rrec.hasBackup => VerifiedBackup
    BY <1>3, RecoveryKnows DEF CheckBackup, CrashInv, CrashRecordsInv
  <2> QED
    BY <1>3, <2>1, FileIdentities DEF CheckBackup, VerifiedBackup, RGoto, BackupId
<1>4. CASE ObserveSource
  BY <1>1, <1>4 DEF ObserveSource, RGoto
<1>5. CASE Decide
  <2>1. /\ rpc = "Decide"
        /\ IF OutputObserved THEN ~CommitExplained ELSE ~AbandonExplained
        /\ rpc' = "Idle"
        /\ UNCHANGED <<files, journal, execution>>
    BY <1>5 DEF Decide, RGoto, REnd
  <2> QED
    BY <2>1, DecideExplained, RecoveryKnows DEF files, journal, execution
<1>6. CASE RecoveryVerifiesStage
  <2>1. rpc = "VerifyStage" /\ stage # NoFile /\ rrec \in Record
        /\ rrec.generation \in Generation /\ ValidRecord(disposition, rrec)
        /\ generations[rrec.generation] = rrec /\ disposition \in OutputDisposition
    BY <1>6, RecoveryKnows DEF RecoveryVerifiesStage, CrashInv, CrashRecoveryInv
  <2>2. rrec.state # "TransactionInitialized" => rrec.generation >= 2
    BY <2>1, RecordFacts, StateIndexValues
       DEF ValidRecord, ExpectedGeneration, ImageFileTransactionState
  <2>3. rrec.generation >= 2 => generations[2] # Absent
    <3>1. PICK m \in 0..MaximumGeneration :
            /\ ReadablePrefix(disposition, generations, m)
            /\ \A g \in Generation : g > m => generations[g] = Absent
      BY DEF CrashInv, ChainInv
    <3>2. m >= rrec.generation
      BY <2>1, <3>1, RecordFacts DEF Generation
    <3>3. ASSUME rrec.generation >= 2 PROVE 2 \in 1..m
      BY <2>1, <3>1, <3>2, <3>3, RecordFacts
    <3> QED
      BY <3>1, <3>3, RecordFacts DEF ReadablePrefix
  <2>4. rrec.state # "TransactionInitialized" => stage = WrittenStage
    BY <2>1, <2>2, <2>3 DEF CrashInv, CrashRecordsInv, CrashFilesInv
  <2> QED
    BY <1>1, <1>6, <2>1, <2>4, StageValues DEF RecoveryVerifiesStage, RGoto
<1>7. CASE RecoveryRemovesStage
  BY <1>1, <1>7 DEF RecoveryRemovesStage, RGoto
<1>8. CASE RecordAbandoned \/ RecordCommitted \/ RecordCleaned
  <2>1. /\ rpc \notin {"Idle", "ReadJournal"} /\ rpc' = "Idle"
        /\ UNCHANGED <<files, execution>>
    BY <1>8 DEF RecordAbandoned, RecordCommitted, RecordCleaned, RPublish, RGoto, REnd
  <2>2. UNCHANGED <<generations, pending>>
    BY <1>8 DEF RecordAbandoned, RecordCommitted, RecordCleaned, RPublish, RGoto, REnd,
       CrashesOnly
  <2> QED
    BY <1>8, <2>1, <2>2, PublicationExplained, RecoveryKnows DEF files, execution
<1>9. CASE StartRecovery \/ RecoveryThrows
  BY <1>9 DEF StartRecovery, RecoveryThrows, CrashesOnly
<1> QED
  BY <1>2, <1>3, <1>4, <1>5, <1>6, <1>7, <1>8, <1>9 DEF RecoveryStep

\* While recovery is past the journal, or has reported a conflict, nothing else
\* changes what it relies on.
LEMMA RecoveryUndisturbed ==
    ASSUME IInv, CrashInv, CrashesOnly, ExecuteStep \/ Environment
    PROVE  \/ rpc' = "Idle" /\ rresult' # "Conflict"
           \/ rpc' = "ReadJournal" /\ rpc = "ReadJournal" /\ rresult' # "Conflict"
           \/ UNCHANGED <<files, journal, recovery, xpc, disposition, effect>>
<1>1. CASE ExecuteStep \/ ExecuteCrashes
  <2>1. xpc \notin {"Done", "Crashed"} /\ UNCHANGED recovery
    BY <1>1 DEF ExecuteStep, Preflight, PreflightRefuses, BodyThrows, CreateStage,
       CreateJournalFolder, PublishInitialized, WriteStage, PublishWritten, VerifyStage,
       PublishVerified, RecheckSource, CreateBackup, VerifyBackup, RecheckAfterBackup,
       PublishBackup, ReadIntent, RecheckBeforeReplacement, CommitReplacement, CommitCopy,
       VerifyCommitted, PublishCommitted, PublishCleaned, CheckOriginal, RemoveStage,
       Abandon, XPublish, ExecuteCrashes, ExecuteActive, BodyPoint, CleanupPoint
  <2>2. rpc \in {"Idle", "ReadJournal"}
    BY <2>1, RecoveryKnows
  <2>3. rresult # "Conflict"
    BY <2>1 DEF CrashInv, CrashRecoveryInv
  <2> QED
    BY <2>1, <2>2, <2>3 DEF recovery
<1>2. CASE RecoveryCrashes \/ RecoveryObservesStop
  BY <1>2 DEF RecoveryCrashes, RecoveryObservesStop, REnd
<1>3. CASE Cancel
  BY <1>3 DEF Cancel, execution, history
<1>4. CASE \/ UserEditsSource \/ UserReplacesSource \/ UserChangesDestination
           \/ ArtifactTampered \/ GenerationDamaged
  BY <1>4 DEF UserEditsSource, UserReplacesSource, UserChangesDestination,
     ArtifactTampered, GenerationDamaged, CrashesOnly
<1> QED
  BY <1>1, <1>2, <1>3, <1>4 DEF Environment

\* What recovery has read and observed stays the newest record and the original.
LEMMA CrashRecoveryStays ==
    ASSUME IInv, CrashInv, CrashesOnly, Next, disposition' = disposition
    PROVE  CrashRecoveryInv'
<1>1. CASE ExecuteStep \/ Environment
  BY <1>1, RecoveryUndisturbed DEF CrashInv, CrashRecoveryInv, files, journal, recovery
<1>2. ASSUME RecoveryStep
      PROVE  rresult' = "Conflict" => rpc' = "Idle" /\ xpc' \in {"Done", "Crashed"}
  <2>1. CASE rresult = "Conflict"
    BY <1>2, <2>1 DEF CrashInv, CrashRecoveryInv, RecoveryStep, StartRecovery, ReadJournal,
       CheckBackup, ObserveSource, Decide, RecoveryVerifiesStage, RecoveryRemovesStage,
       RecordAbandoned, RecordCommitted, RecordCleaned, RecoveryThrows, CrashesOnly,
       execution
  <2>2. CASE rresult # "Conflict"
    BY <1>2, <2>2, ConflictExplained
  <2> QED
    BY <2>1, <2>2
<1>3. CASE RecoveryStep /\ rpc' \in {"Idle", "ReadJournal"}
  BY <1>2, <1>3 DEF CrashRecoveryInv
<1>4. CASE ReadJournal /\ rpc' \notin {"Idle", "ReadJournal"}
  <2>1. PICK n \in Generation :
           /\ ReadsChain(disposition, generations, pending, n)
           /\ rpc' = "CheckBackup" /\ rresult' = rresult
           /\ rrec' = generations[n]
           /\ robs' = [NoObservation EXCEPT !.id = source.id]
           /\ UNCHANGED <<files, journal, execution>>
    BY <1>4 DEF ReadJournal, RGoto, REnd
  <2>2. generations[n].generation = n
    BY <2>1, ReadRecord
  <2>3. \A g \in Generation : g > n => generations[g] = Absent
    BY <2>1, ReadIsNewest DEF CrashInv
  <2>4. robs'.id = source.id
    BY <2>1, ObservationValues, FileIdentities DEF IInv, TypeOK, FilesOK
  <2>5. rresult' # "Conflict"
    BY <1>2, <1>4, <2>1 DEF RecoveryStep
  <2> QED
    BY <2>1, <2>2, <2>3, <2>4, <2>5 DEF CrashRecoveryInv, files, journal
<1>5. CASE ObserveSource /\ rpc' \notin {"Idle", "ReadJournal"}
  <2>1. /\ rpc = "ObserveSource" /\ rpc' = "Decide"
        /\ robs' = [robs EXCEPT !.captured = source.bytes = "Reviewed",
                                !.transformed = source.bytes = "Output"]
        /\ UNCHANGED <<files, journal, rrec>>
    BY <1>5 DEF ObserveSource, RGoto, REnd
  <2>2. robs \in Observation
    BY DEF IInv, TypeOK, RecoveryOK
  <2>3. /\ robs'.id = robs.id
        /\ robs'.captured = (source.bytes = "Reviewed")
        /\ robs'.transformed = (source.bytes = "Output")
    BY <2>1, <2>2, Zenon DEF Observation
  <2>4. rresult' # "Conflict"
    BY <1>2, <1>5 DEF RecoveryStep
  <2> QED
    BY <2>1, <2>3, <2>4, RecoveryKnows DEF CrashRecoveryInv, files, journal
<1>6. CASE /\ CheckBackup \/ Decide \/ RecoveryVerifiesStage \/ RecoveryRemovesStage
           /\ rpc' \notin {"Idle", "ReadJournal"}
  <2>1. /\ UNCHANGED <<source, journal, rrec, robs>>
        /\ rpc \notin {"Idle", "ReadJournal"}
    BY <1>6 DEF CheckBackup, Decide, RecoveryVerifiesStage, RecoveryRemovesStage, RGoto,
       REnd, files
  <2>2. rresult' # "Conflict"
    BY <1>2, <1>6 DEF RecoveryStep
  <2>3. rpc' \in {"Decide", "VerifyStage", "RemoveStage", "RecordAbandoned",
                  "RecordCommitted", "RecordCleaned"} =>
        rpc \in {"Decide", "VerifyStage", "RemoveStage", "RecordAbandoned",
                 "RecordCommitted", "RecordCleaned"}
    BY <1>6 DEF CheckBackup, Decide, RecoveryVerifiesStage, RecoveryRemovesStage, RGoto,
       REnd
  <2>4. rpc' = "VerifyStage" => stage' # NoFile
    BY <1>6 DEF CheckBackup, Decide, RecoveryVerifiesStage, RecoveryRemovesStage, RGoto,
       REnd, files
  <2>5. rpc' = "RecordCommitted" =>
           StateIndex[rrec.state] >= (IF RetainsBackup(disposition) THEN 3 ELSE 2)
    BY <1>6 DEF CheckBackup, Decide, CommitExplained, RecoveryVerifiesStage,
       RecoveryRemovesStage, RGoto, REnd
  <2> QED
    BY <2>1, <2>2, <2>3, <2>4, <2>5 DEF CrashInv, CrashRecoveryInv, journal
<1>7. CASE RecordCommitted /\ rpc' \notin {"Idle", "ReadJournal"}
  <2> DEFINE record == Successor(rrec, "OutputCommitted")
  <2>1. /\ rpc = "RecordCommitted" /\ rpc' = "RecordCleaned"
        /\ UNCHANGED <<files, robs>>
        /\ \/ UNCHANGED <<journal, rrec>>
           \/ Publishable(record) /\ Appends(record) /\ rrec' = record
    BY <1>7 DEF RecordCommitted, RPublish, RGoto, REnd
  <2>2. rresult' # "Conflict"
    BY <1>2, <1>7, <2>1 DEF RecoveryStep
  <2>3. CASE UNCHANGED <<journal, rrec>>
    BY <2>1, <2>2, <2>3 DEF CrashInv, CrashRecoveryInv, files, journal
  <2>4. CASE Publishable(record) /\ Appends(record) /\ rrec' = record
    <3>1. rrec \in Record /\ disposition \in OutputDisposition
      BY <2>1, RecoveryKnows
    <3>2. record \in Record
      BY <2>4, <3>1, PublishedName, SuccessorRecord DEF ImageFileTransactionState
    <3> HIDE DEF record
    <3>3. /\ generations'[record.generation] = record
          /\ \A g \in Generation : g > record.generation => generations'[g] = Absent
      BY <2>4, <3>2, Appended, AppendKeepsChain DEF IInv, TypeOK
    <3> QED
      BY <2>1, <2>2, <2>4, <3>3 DEF CrashInv, CrashRecoveryInv, files
  <2> QED
    BY <2>1, <2>3, <2>4
<1>8. CASE RecordAbandoned \/ RecordCleaned \/ RecoveryThrows \/ StartRecovery
  <2>1. rpc' \in {"Idle", "ReadJournal"}
    BY <1>8 DEF RecordAbandoned, RecordCleaned, RecoveryThrows, StartRecovery, RPublish, REnd
  <2> QED
    BY <1>3, <1>8, <2>1 DEF RecoveryStep
<1> QED
  BY <1>1, <1>3, <1>4, <1>5, <1>6, <1>7, <1>8 DEF Next, RecoveryStep

\* A conflict that was reported stays explained until the next run.
LEMMA CrashesStayExplained ==
    ASSUME IInv, CrashInv, CrashesOnly, Next, disposition' = disposition
    PROVE  CrashesAreExplained'
<1> SUFFICES ASSUME rresult' = "Conflict"
             PROVE  \/ ~\E g \in Generation : generations'[g] \in Record
                    \/ disposition' = Copy /\ stage' = NoFile /\ destination' = NoFile
                    \/ (JournalFiles > MaximumJournalFiles)'
  BY DEF CrashesAreExplained
<1>1. CASE ExecuteStep \/ Environment
  <2>1. UNCHANGED <<files, journal, recovery>>
    BY <1>1, RecoveryUndisturbed
  <2> QED
    BY <2>1 DEF CrashInv, CrashesAreExplained, JournalFiles, files, journal, recovery
<1>2. CASE RecoveryStep
  <2>1. rresult # "Conflict"
    BY <1>2 DEF CrashInv, CrashRecoveryInv, RecoveryStep, StartRecovery, ReadJournal,
       CheckBackup, ObserveSource, Decide, RecoveryVerifiesStage, RecoveryRemovesStage,
       RecordAbandoned, RecordCommitted, RecordCleaned, RecoveryThrows, CrashesOnly
  <2>2. /\ \/ ~\E g \in Generation : generations[g] \in Record
           \/ disposition = Copy /\ stage = NoFile /\ destination = NoFile
           \/ JournalFiles > MaximumJournalFiles
        /\ UNCHANGED <<generations, pending, stage, destination>>
    BY <1>2, <2>1, ConflictExplained
  <2> QED
    BY <2>2 DEF JournalFiles
<1> QED
  BY <1>1, <1>2 DEF Next

\* In a world where processes crash and nothing else interferes, recovery gives
\* up only for want of a published record, for a copy whose stage is gone, or in a
\* full journal folder: for every folder limit, however often execute() and the
\* recovery runs crash, and wherever (recoverIncompleteTransactions()).
THEOREM CrashesExplained ==
    ASSUME CrashesOnly
    PROVE  Spec => []CrashesAreExplained
<1>1. Init => CrashInv
  <2> SUFFICES ASSUME Init PROVE CrashInv
    OBVIOUS
  <2>1. ReadablePrefix(disposition, generations, 0)
    BY DEF ReadablePrefix
  <2>2. ChainInv
    BY <2>1 DEF Init, ChainInv, MaximumGeneration
  <2>3. CrashFilesInv
    BY DEF Init, CrashFilesInv, VerifiedPoint, BackedUpPoint
  <2>4. CrashRecordsInv
    BY DEF Init, CrashRecordsInv, BackedUpPoint, Absent, Generation, MaximumGeneration
  <2> QED
    BY <2>2, <2>3, <2>4 DEF Init, CrashInv, CrashRecoveryInv, CrashesAreExplained
<1>2. IInv /\ RetainedInv /\ CrashInv /\ [Next]_vars => CrashInv'
  <2> SUFFICES ASSUME IInv, RetainedInv, CrashInv, [Next]_vars PROVE CrashInv'
    OBVIOUS
  <2>1. CASE Next
    BY <2>1, ChainStays, CrashFilesStay, CrashRecordsStay, CrashRecoveryStays,
       CrashesStayExplained DEF CrashInv
  <2>2. CASE UNCHANGED vars
    <3> USE <2>2 DEF vars, files, journal, request, execution, recovery, history
    <3>1. ChainInv'
      BY DEF CrashInv, ChainInv
    <3>2. CrashFilesInv' /\ CrashRecordsInv'
      BY DEF CrashInv, CrashFilesInv, CrashRecordsInv, Replacement, VerifiedBackup
    <3>3. CrashRecoveryInv' /\ CrashesAreExplained'
      BY DEF CrashInv, CrashRecoveryInv, CrashesAreExplained, JournalFiles
    <3> QED
      BY <3>1, <3>2, <3>3 DEF CrashInv
  <2> QED
    BY <2>1, <2>2
<1>3. CrashInv => CrashesAreExplained
  BY DEF CrashInv
<1> QED
  BY <1>1, <1>2, <1>3, InductiveInvariant, RetainedInvariant, PTL DEF Spec
=============================================================================
