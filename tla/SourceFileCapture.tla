-------------------------- MODULE SourceFileCapture --------------------------
(***************************************************************************)
(* captureSourceFile: one pass over a source file that returns its length,  *)
(* its modification stamp, the digest of its bytes and, on request, the     *)
(* bytes.  Between any two native calls other programs may write the file   *)
(* or replace it, unless the file system honours AllowOnlyReaders.          *)
(*                                                                         *)
(* A byte is the version of the file it was read from, so the digest is the *)
(* sequence of bytes itself: two captures agree exactly when every byte     *)
(* does.  versions is the history of what the path has held.                *)
(***************************************************************************)
EXTENDS Integers, Sequences

CONSTANTS
    Lengths,               \* how long a version of the file may be
    Stamps,                \* modification stamps; those <= 0 are refused
    ReadBufferCapacity,
    Retentions,            \* maximumRetainedEncodedLengthBytes: {} or {limit} each
    MaximumChanges         \* by other programs, to bound the runs

ASSUME CaptureAssumption ==
    /\ Lengths \subseteq Nat /\ Stamps \subseteq Int
    /\ ReadBufferCapacity \in Nat \ {0} /\ Retentions \subseteq SUBSET Nat
    /\ MaximumChanges \in Nat

VARIABLES
    fileSystem,     \* the one the file is on
    retained,       \* {limit} where the bytes are wanted, {} for the revision only
    versions,       \* history: [length, stamp] of each version, oldest first
    file,           \* the version the path names
    stream,         \* the version the open stream reads, 0: no stream
    replaced,       \* the stream's file no longer has the path
    stopRequested, phase,
    before,         \* the properties read first
    initialLength,
    bytes,          \* what was hashed, one version number per byte
    result          \* <<>>, or the one result returned

captureVars == <<fileSystem, retained, versions, file, stream, replaced, stopRequested, phase,
                 before, initialLength, bytes, result>>
request == <<fileSystem, retained>>
outside == <<request, versions, file, replaced>>

\* "exclusive" honours AllowOnlyReaders, and stamps may repeat; "shared" lets
\* others write what is being read, but no two versions have the same stamp.
ReaderExcludesWriters == fileSystem = "exclusive"
ChangesMoveTheStamp == fileSystem = "shared"

Version == [length : Lengths, stamp : Stamps]
Code == {"Cancelled", "SourceChangedAfterAnalysis", "EncodedFileTooLarge",
         "SourceRevisionCaptureFailed", "Native"}

CaptureTypeOK ==
    /\ fileSystem \in {"exclusive", "shared"} /\ retained \in Retentions
    /\ versions \in Seq(Version) /\ file \in 1..Len(versions)
    /\ stream \in 0..Len(versions) /\ replaced \in BOOLEAN /\ stopRequested \in BOOLEAN
    /\ phase \in {"Open", "Before", "Measure", "Read", "After", "Close", "Done"}
    /\ before \in Version /\ initialLength \in Lengths \cup {0}
    /\ bytes \in Seq(1..Len(versions))
    /\ (result = <<>>) = (phase # "Done")
    /\ \A i \in DOMAIN result : result[i].code \in Code \cup {"None"}

CaptureInit ==
    /\ fileSystem \in {"exclusive", "shared"} /\ retained \in Retentions
    /\ \E v \in Version : versions = <<v>> /\ before = v
    /\ file = 1 /\ stream = 0 /\ replaced = FALSE /\ stopRequested = FALSE
    /\ phase = "Open" /\ initialLength = 0 /\ bytes = <<>> /\ result = <<>>

-----------------------------------------------------------------------------
\* Every return destroys the stream, which closes it.
Fail(code) ==
    /\ phase' = "Done" /\ stream' = 0 /\ result' = <<[code |-> code]>>
    /\ UNCHANGED <<outside, stopRequested, before, initialLength, bytes>>

\* errorCodeFor and the catch clauses: any native call may throw.
NativeFailure == phase # "Done" /\ Fail("Native")

Cancelled == stopRequested /\ phase \in {"Open", "Read", "After", "Close"} /\ Fail("Cancelled")

OpenStream ==
    /\ phase = "Open" /\ ~stopRequested
    /\ stream' = file /\ phase' = "Before"
    /\ UNCHANGED <<outside, stopRequested, before, initialLength, bytes, result>>

ReadPropertiesBefore ==
    /\ phase = "Before"
    /\ before' = versions[file] /\ phase' = "Measure"
    /\ UNCHANGED <<outside, stream, stopRequested, initialLength, bytes, result>>

\* The checks on the observed length, before anything is allocated.
MeasureRefusal(length) ==
    CASE before.length # length -> "SourceChangedAfterAnalysis"
      [] before.stamp <= 0 -> "SourceRevisionCaptureFailed"
      [] \E limit \in retained : length > limit -> "EncodedFileTooLarge"
      [] OTHER -> "None"

Measure ==
    LET length == versions[stream].length
    IN  /\ phase = "Measure"
        /\ \/ /\ MeasureRefusal(length) # "None"
              /\ Fail(MeasureRefusal(length))
           \/ /\ MeasureRefusal(length) = "None"
              /\ initialLength' = length /\ phase' = "Read"
              /\ UNCHANGED <<outside, stream, stopRequested, before, bytes, result>>

\* ReadAsync returns at most the capacity, fewer bytes when it likes, and none
\* only at the end of the stream.
Available == versions[stream].length - Len(bytes)
Blocks == IF Available <= 0 THEN {0}
          ELSE {n \in 1..ReadBufferCapacity : n <= Available}

ReadBlock ==
    /\ phase = "Read" /\ ~stopRequested
    /\ \E n \in Blocks :
          \/ /\ n > initialLength - Len(bytes)
             /\ Fail("SourceChangedAfterAnalysis")
          \/ /\ n <= initialLength - Len(bytes)
             /\ bytes' = bytes \o [i \in 1..n |-> stream]
             /\ phase' = IF n = 0 THEN "After" ELSE "Read"
             /\ UNCHANGED <<outside, stream, stopRequested, before, initialLength, result>>

UnchangedLength ==
    Len(bytes) = initialLength /\ versions[stream].length = initialLength

Unchanged ==
    /\ Len(bytes) = initialLength /\ versions[stream].length = initialLength
    /\ versions[file] = before

ReadPropertiesAfter ==
    /\ phase = "After" /\ ~stopRequested
    /\ \/ ~Unchanged /\ Fail("SourceChangedAfterAnalysis")
       \/ /\ Unchanged
          /\ phase' = "Close"
          /\ UNCHANGED <<outside, stream, stopRequested, before, initialLength, bytes, result>>

CloseAndPublish ==
    /\ phase = "Close" /\ ~stopRequested
    /\ phase' = "Done" /\ stream' = 0
    /\ result' = <<[code |-> "None", length |-> Len(bytes),
                    stamp |-> before.stamp, digest |-> bytes]>>
    /\ UNCHANGED <<outside, stopRequested, before, initialLength, bytes>>

-----------------------------------------------------------------------------
(* Other programs.                                                          *)

\* AllowOnlyReaders: a stream that is open keeps writers and renames out.
MayChange == Len(versions) <= MaximumChanges /\ ~(stream # 0 /\ ReaderExcludesWriters)

FreshVersion ==
    {v \in Version : ChangesMoveTheStamp =>
                     \A i \in 1..Len(versions) : versions[i].stamp # v.stamp}

\* In place: an open stream reads the new bytes from here on.
WriteFile ==
    /\ MayChange
    /\ \E v \in FreshVersion : versions' = Append(versions, v)
    /\ file' = Len(versions) + 1
    /\ stream' = IF stream = 0 \/ replaced THEN stream ELSE Len(versions) + 1
    /\ UNCHANGED <<request, replaced, stopRequested, phase, before, initialLength, bytes, result>>

\* By rename over the path: an open stream keeps the old file.
ReplaceFile ==
    /\ MayChange
    /\ \E v \in FreshVersion : versions' = Append(versions, v)
    /\ file' = Len(versions) + 1 /\ replaced' = (replaced \/ stream # 0)
    /\ UNCHANGED <<request, stream, stopRequested, phase, before, initialLength, bytes, result>>

RequestCaptureStop ==
    /\ ~stopRequested /\ phase # "Done" /\ stopRequested' = TRUE
    /\ UNCHANGED <<outside, stream, phase, before, initialLength, bytes, result>>

CaptureStep == OpenStream \/ ReadPropertiesBefore \/ Measure \/ ReadBlock
               \/ ReadPropertiesAfter \/ CloseAndPublish \/ Cancelled
Returned == phase = "Done" /\ UNCHANGED captureVars
CaptureNext == CaptureStep \/ NativeFailure \/ WriteFile \/ ReplaceFile \/ RequestCaptureStop
               \/ Returned

CaptureSpec == CaptureInit /\ [][CaptureNext]_captureVars
-----------------------------------------------------------------------------
\* A published capture is one version of the file: no digest mixes bytes from
\* before and after a change, none is cut short, and when writers are excluded
\* the stamp is that version's as well; and no file that grows while it is read
\* makes the capture hold more bytes than were admitted before the first one
\* (captureSourceFile's two property reads around the hashing loop).
CaptureIsOneVersion ==
    /\ \A i \in DOMAIN result : result[i].code = "None" =>
          \E v \in 1..Len(versions) :
              /\ result[i].length = versions[v].length
              /\ result[i].digest = [k \in 1..versions[v].length |-> v]
              /\ ReaderExcludesWriters => result[i].stamp = versions[v].stamp
    /\ \A limit \in retained : Len(bytes) <= limit
=============================================================================
