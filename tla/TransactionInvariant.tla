------------------------ MODULE TransactionInvariant ------------------------
(***************************************************************************)
(* The inductive invariant behind the safety theorems of                    *)
(* RecoverableImageFileTransaction, as a conjunction of named parts.        *)
(***************************************************************************)
EXTENDS RecoverableImageFileTransaction

\* The lease says who is at work, so execution and recovery never overlap;
\* before the execution recovery finds nothing to do.
LeaseInv ==
    /\ lease = "execute" <=> ExecuteActive
    /\ lease = "recovery" <=> RecoveryActive
    /\ xpc = "Idle" => rpc \in {"Idle", "ReadJournal"}

\* An outcome is reported by a finished execution only.
ResultInv == result # "None" => xpc = "Done"

\* Which file identities can be found where.
IdentityInv ==
    /\ source.id \in {"None", SourceId, StageId, ForeignId}
    /\ stage.id \in {"None", StageId, ForeignId}
    /\ destination.id \in {"None", StageId, ForeignId}
    /\ source.id = StageId => Replacement /\ effect = "Committed"
    /\ destination.id = StageId => ~Replacement /\ effect = "Committed"

\* What the native commit left behind, for ever.
EffectInv ==
    /\ effect # "None" => \A g \in 1..3 : generations[g] # Absent
    /\ effect # "None" /\ Replacement => source.id # SourceId
    /\ effect # "None" /\ ~Replacement => effect = "Committed" /\ stage = NoFile
    /\ effect = "Committed" => stage.id # StageId

\* Nothing is on disk before the stage exists.
StartInv ==
    /\ xpc \in {"Idle", "CreateStage"} => stage.id # StageId /\ own = NoStage
    /\ xpc \in {"Idle", "CreateStage", "CreateJournalFolder", "PublishInitialized"} =>
         \A g \in Generation : generations[g] = Absent

\* The points of execute() after the commit call.
CommitPoint == {"VerifyCommitted", "PublishCommitted", "PublishCleaned"}

\* Up to the commit call nothing was committed or recorded as finished.
BodyInv ==
    /\ xpc \in {"Idle"} \cup (BodyPoint \ CommitPoint) =>
         /\ effect = "None" /\ ~own.committed
         /\ ~Recorded("TransactionAbandonedBeforeCommit")
    /\ xpc \in BodyPoint \ (CommitPoint \cup {"CreateStage"}) => own.file
    /\ xpc \in CommitPoint => effect = "Committed" /\ own.committed
    /\ xpc \in {"CreateBackup", "VerifyBackup", "RecheckAfterBackup",
                "PublishBackup", "ReadIntent", "RecheckBeforeReplacement",
                "CommitReplacement"} => Replacement
    /\ xpc = "CommitReplacement" => phase = "OriginalReplacement"
    /\ xpc = "CommitCopy" => ~Replacement /\ phase = "CorrectedCopyCommit"
    /\ xpc \in {"CommitReplacement", "CommitCopy"} =>
         \A g \in 1..3 : generations[g] # Absent

\* The generation that execute() holds in memory; the published generations
\* below it are on disk, readable or not.
MemoryInv ==
    /\ xpc = "PublishInitialized" => xrec.state = "TransactionInitialized"
    /\ xpc \in {"PublishInitialized", "WriteStage", "PublishWritten"} =>
         xrec.generation = 1
    /\ xpc \in {"VerifyStage", "PublishVerified"} => xrec.generation = 2
    /\ xpc \in {"RecheckSource", "CreateBackup", "VerifyBackup",
                "RecheckAfterBackup", "PublishBackup", "CommitCopy"} =>
         xrec.generation = 3
    /\ xpc \in {"ReadIntent", "RecheckBeforeReplacement", "CommitReplacement",
                "VerifyCommitted", "PublishCommitted"} =>
         xrec.generation \in 3..4
    /\ xpc = "PublishCleaned" => xrec.generation \in 4..5
    /\ xpc \in BodyPoint \ {"CreateStage", "CreateJournalFolder",
                            "PublishInitialized"} =>
         \A g \in Generation : g <= xrec.generation => generations[g] # Absent

\* Cleanup after a commit call whose outcome is unknown cannot get as far as
\* the closing record when the call took effect.
CleanupInv ==
    /\ xpc \in CleanupPoint /\ own.committed => effect = "Committed"
    /\ xpc \in CleanupPoint /\ ~own.committed /\ effect # "None" =>
         /\ ~inBody /\ own.file
         /\ IF Replacement
            THEN phase = "OriginalReplacement" /\ xpc = "CheckOriginal"
            ELSE phase = "CorrectedCopyCommit" /\ xpc \in {"CheckOriginal", "RemoveStage"}
    /\ xpc \in CleanupPoint /\ ~own.file => stage.id # StageId
    /\ xpc = "Abandon" /\ ~own.committed => ~own.file

\* What recovery has read and observed still bounds what can have happened.
RecoveryInv ==
    /\ rpc \notin {"Idle", "ReadJournal"} =>
         /\ rrec \in Record
         /\ ValidRecord(disposition, rrec)
         /\ ~Terminal(rrec.state) \/ rpc = "RecordCleaned"
         /\ robs.id = SourceId /\ Replacement => effect = "None"
         /\ robs.id = StageId => Replacement /\ effect = "Committed"
    /\ rpc \in {"VerifyStage", "RemoveStage", "RecordAbandoned"} =>
         /\ StateIndex[rrec.state] < 4
         /\ effect = "None" \/ rrec.generation <= 2
    /\ rpc = "RecordAbandoned" => stage.id # StageId
    /\ rpc \in {"RecordCommitted", "RecordCleaned"} =>
         effect = "Committed" /\ StateIndex[rrec.state] < 5
    /\ rpc = "RecordCleaned" => rrec.state = "OutputCommitted"

\* The inductive invariant of the transaction.
IInv ==
    /\ TypeOK /\ LeaseInv /\ ResultInv /\ IdentityInv /\ EffectInv /\ StartInv
    /\ BodyInv /\ MemoryInv /\ CleanupInv /\ RecoveryInv
    /\ AbandonmentIsTrue /\ CommitRecordIsTrue /\ OutcomeIsTrue

\* No generation has been published.
NothingPublished == \A g \in Generation : generations[g] = Absent

\* A finished execution has reported an outcome; cleanup without a record in
\* memory has nothing to close; and what execute() reported as an ordinary
\* failure stays closed, unless the journal is damaged.
ClosureInv ==
    /\ xpc = "Done" => result # "None"
    /\ xpc \in CleanupPoint /\ xrec = Absent => NothingPublished
    /\ result = "Refused" /\ ~JournalDamaged =>
         NothingPublished \/ Recorded("TransactionAbandonedBeforeCommit")

\* The backup is the one that was made, with the reviewed bytes.
VerifiedBackup == backup.id = BackupId /\ backup.bytes = "Reviewed"

\* The points where the backup, and where the stage, have been verified.
BackedUpPoint == {"ReadIntent", "RecheckBeforeReplacement", "CommitReplacement"}
VerifiedPoint ==
    {"PublishVerified", "RecheckSource", "CreateBackup", "VerifyBackup",
     "RecheckAfterBackup", "PublishBackup"} \cup BackedUpPoint

\* The artifacts that the commit relies on, from their verification to it; and
\* recovery removes a stage only when it saw the original in its place.
RetainedInv ==
    /\ StageBelongsToExecution
    /\ xpc \in VerifiedPoint /\ ~ArtifactsTampered => stage.bytes = "Output"
    /\ \/ xpc \in {"RecheckAfterBackup", "PublishBackup"}
       \/ xpc \in BackedUpPoint /\ disposition = ReplaceWithBackup
       => ArtifactsTampered \/ VerifiedBackup
    /\ rpc \in {"VerifyStage", "RemoveStage"} => robs.id = SourceId
    /\ ArtifactRetained

-----------------------------------------------------------------------------
(* The world in which processes crash and nothing else goes wrong *)

CrashesOnly ==
    ~UserMayInterfere /\ ~ArtifactsTampered /\ ~JournalDamaged /\ ~NativeCallsFail

\* The generations on disk are one readable chain, without a gap.
ChainInv ==
    \E n \in 0..MaximumGeneration :
        /\ ReadablePrefix(disposition, generations, n)
        /\ \A g \in Generation : g > n => generations[g] = Absent

\* The stage as execute() leaves it when it is created, and when it is written.
CreatedStage == FileOf(StageId, "Partial", "later")
WrittenStage == FileOf(StageId, "Output", "later")

\* The files are those that the program made: the original, or the output in its
\* place or beside it.
CrashFilesInv ==
    /\ effect \in {"None", "Committed"}
    /\ source = IF Replacement /\ effect = "Committed" THEN WrittenStage ELSE Original
    /\ destination = IF ~Replacement /\ effect = "Committed" THEN WrittenStage ELSE NoFile
    /\ stage \in {NoFile, CreatedStage, WrittenStage}
    /\ effect = "Committed" => stage = NoFile
    /\ xpc \in {"PublishWritten", "VerifyStage", "CommitCopy"} \cup VerifiedPoint =>
         stage = WrittenStage
    /\ xpc \in {"Idle", "CreateStage"} => ~folder

\* What a record says of the stage and of the backup is so, and the commit of a
\* replacement with a backup comes after the record of the backup.
CrashRecordsInv ==
    /\ generations[2] # Absent => stage # CreatedStage
    /\ (\E g \in Generation : generations[g].hasBackup) \/ xrec.hasBackup => VerifiedBackup
    /\ (xpc \in BackedUpPoint \/ effect = "Committed") /\ RetainsBackup(disposition) =>
         generations[4] # Absent

\* Recovery works on the newest record and on the original as it still is.
CrashRecoveryInv ==
    /\ rpc \notin {"Idle", "ReadJournal"} =>
         /\ rrec = generations[rrec.generation]
         /\ \A g \in Generation : g > rrec.generation => generations[g] = Absent
         /\ robs.id = source.id
    /\ rpc \in {"Decide", "VerifyStage", "RemoveStage", "RecordAbandoned",
                "RecordCommitted", "RecordCleaned"} =>
         /\ robs.captured = (source.bytes = "Reviewed")
         /\ robs.transformed = (source.bytes = "Output")
    /\ rpc = "VerifyStage" => stage # NoFile
    /\ rpc = "RecordCommitted" =>
         StateIndex[rrec.state] >= (IF RetainsBackup(disposition) THEN 3 ELSE 2)
    /\ rresult = "Conflict" => rpc = "Idle" /\ xpc \in {"Done", "Crashed"}

\* The inductive invariant of that world, on top of IInv and RetainedInv.
CrashInv ==
    /\ ChainInv /\ CrashFilesInv /\ CrashRecordsInv /\ CrashRecoveryInv
    /\ CrashesAreExplained
=============================================================================
