--------------------- MODULE ImageFileTransactionJournal ---------------------
(***************************************************************************)
(* The generation chain of one image-file transaction                      *)
(* (ImageFileTransactionJournal.h/.cpp).  A generation is an immutable      *)
(* file of the transaction's journal folder; the chain is what readers     *)
(* believe about the transaction after a crash.                            *)
(*                                                                         *)
(* Abstractions.  The facts that every record of a transaction copies from *)
(* its predecessor (paths, identities, revisions, hashes) are the          *)
(* constants of the transaction, so a record keeps its generation, its     *)
(* state and whether it carries the backup facts.  JSON text, predecessor  *)
(* hash and file identity checks are abstracted to whether the file still  *)
(* reads as the record that was published ("Damaged" when it does not).    *)
(***************************************************************************)
EXTENDS Integers, FiniteSets

CONSTANTS
    MaximumJournalFiles,   \* files a readable journal folder may hold
    NativeCallsFail        \* native calls may fail (crashes always may happen)

ASSUME MaximumJournalFilesAssumption == MaximumJournalFiles \in Nat \ {0}
ASSUME NativeCallsFailAssumption == NativeCallsFail \in BOOLEAN

Copy == "CreateCorrectedCopy"
ReplaceWithBackup == "ReplaceOriginalWithVerifiedBackup"
ReplaceWithoutBackup == "ReplaceOriginalWithoutRetainedBackup"
OutputDisposition == {Copy, ReplaceWithBackup, ReplaceWithoutBackup}

\* enum class ImageFileTransactionState, in declaration order.
StateIndex ==
    [TransactionInitialized           |-> 0,
     StagedOutputWritten              |-> 1,
     StagedOutputHashVerified         |-> 2,
     VerifiedBackupCreated            |-> 3,
     OutputCommitted                  |-> 4,
     OwnedStagingArtifactsCleaned     |-> 5,
     TransactionAbandonedBeforeCommit |-> 6]

ImageFileTransactionState ==
    {"TransactionInitialized", "StagedOutputWritten",
     "StagedOutputHashVerified", "VerifiedBackupCreated", "OutputCommitted",
     "OwnedStagingArtifactsCleaned", "TransactionAbandonedBeforeCommit"}

Terminal(state) ==
    state \in {"OwnedStagingArtifactsCleaned", "TransactionAbandonedBeforeCommit"}

MaximumGeneration == 6
Generation == 1..MaximumGeneration

Record == [generation : Generation,
           state      : ImageFileTransactionState,
           hasBackup  : BOOLEAN]

\* What a generation's file name holds: nothing, bytes that no longer read as
\* the published record, or the record.
Absent == [generation |-> 0, state |-> "Absent", hasBackup |-> FALSE]
Damaged == [generation |-> 0, state |-> "Damaged", hasBackup |-> FALSE]
GenerationFile == Record \cup {Absent, Damaged}

RetainsBackup(disposition) == disposition = ReplaceWithBackup

\* The generation at which each milestone is published: without a retained
\* backup the two commit milestones move down by one.
ExpectedGeneration(disposition, state) ==
    StateIndex[state] + 1
      - (IF ~RetainsBackup(disposition) /\ StateIndex[state] >= 4 THEN 1 ELSE 0)

ValidRecord(disposition, record) ==
    IF record.state = "TransactionAbandonedBeforeCommit"
    THEN /\ record.generation \in 2..(IF RetainsBackup(disposition) THEN 5 ELSE 4)
         /\ record.hasBackup = (RetainsBackup(disposition) /\ record.generation = 5)
    ELSE /\ ~RetainsBackup(disposition) =>
               ~record.hasBackup /\ record.state # "VerifiedBackupCreated"
         /\ RetainsBackup(disposition) =>
               record.hasBackup = (StateIndex[record.state] >= 3)
         /\ record.generation = ExpectedGeneration(disposition, record.state)

ValidSuccessor(disposition, prior, next) ==
    /\ ValidRecord(disposition, next)
    /\ next.generation = prior.generation + 1
    /\ IF next.state = "TransactionAbandonedBeforeCommit"
       THEN StateIndex[prior.state] < 4
       ELSE /\ StateIndex[next.state] <= 5
            /\ StateIndex[next.state] =
                 StateIndex[prior.state] + 1
                   + (IF ~RetainsBackup(disposition)
                           /\ prior.state = "StagedOutputHashVerified"
                      THEN 1 ELSE 0)
    /\ next.state # "VerifiedBackupCreated" => next.hasBackup = prior.hasBackup

\* generations: what the folder holds under each generation name.
\* Generations 1..n read back as one valid chain.
ReadablePrefix(disposition, generations, n) ==
    \A g \in 1..n :
       /\ generations[g] \in Record
       /\ generations[g].generation = g
       /\ g = 1 => ValidRecord(disposition, generations[g])
       /\ g > 1 => ValidSuccessor(disposition, generations[g - 1], generations[g])

PublishedFiles(generations) == {g \in Generation : generations[g] # Absent}

\* Mutant: the folder enumeration is not bounded.
ReadsChainUnlimited(disposition, generations, pendingFiles, n) ==
    /\ ReadablePrefix(disposition, generations, n)
    /\ n < MaximumGeneration =>
         IF generations[n + 1] = Absent
         THEN \A later \in Generation : later > n => generations[later] = Absent
         ELSE /\ n > 0
              /\ NativeCallsFail \/ ~ReadablePrefix(disposition, generations, n + 1)

\* readChain succeeds and its latest record is generation n (0: none).  The
\* scan stops at the first generation that is missing, does not extend the chain
\* or cannot be read this time.  A missing one refuses any later file; the others
\* are tolerated once a first record has been read.
ReadsChain(disposition, generations, pendingFiles, n) ==
    /\ Cardinality(PublishedFiles(generations)) + pendingFiles
         <= MaximumJournalFiles
    /\ ReadablePrefix(disposition, generations, n)
    /\ n < MaximumGeneration =>
         IF generations[n + 1] = Absent
         THEN \A later \in Generation : later > n => generations[later] = Absent
         ELSE /\ n > 0
              /\ NativeCallsFail \/ ~ReadablePrefix(disposition, generations, n + 1)

\* Every check publish makes before it creates the pending file.
CanPublish(disposition, generations, pendingFiles, record) ==
    /\ \E n \in 0..MaximumGeneration :
          /\ ReadsChain(disposition, generations, pendingFiles, n)
          /\ ValidRecord(disposition, record)
          /\ IF n = 0 THEN record.generation = 1
                      ELSE ValidSuccessor(disposition, generations[n], record)
    /\ generations[record.generation] = Absent
=============================================================================
