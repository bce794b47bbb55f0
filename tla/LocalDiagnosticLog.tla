-------------------------- MODULE LocalDiagnosticLog --------------------------
(***************************************************************************)
(* The bounded local diagnostic log (JpgSpinner.App/Diagnostics).  Several *)
(* log objects share one folder of single-record files.  Each object       *)
(* serialises its own callers with mutex_, and the objects exclude one     *)
(* another with the native writer lease.  A record is written to one       *)
(* reserved pending slot and published by a rename, after the oldest       *)
(* records have made room for it.  Of a record the model keeps what        *)
(* serialisation, inspection and retention tell apart.                     *)
(***************************************************************************)
EXTENDS Naturals, FiniteSets, FiniteSetsExt

CONSTANTS Writers,                   \* callers of append and snapshot
          Logs,                      \* LocalDiagnosticLog objects
          LogOf,                     \* the object each caller uses
          MaximumRecordLength,       \* maximumRecordLengthBytes, 4096
          LineLengths,               \* lengths a serialised record may have
          MaximumRetainedLength,     \* limits_.maximumRetainedLengthBytes
          MaximumRetainedFileCount,  \* limits_.maximumRetainedFileCount
          SupportedFileCount,        \* 128, the largest count the constructor takes
          MaximumSequence,           \* 2^64 - 1, scaled down
          PublicationBound,          \* bound: appends begin while fewer are published
          NoWriter, NoFile

ASSUME LogConstants ==
    /\ LogOf \in [Writers -> Logs]
    /\ SupportedFileCount \in Nat /\ MaximumRetainedFileCount \in 1..SupportedFileCount
    /\ MaximumRetainedLength \in Nat \ {0} /\ MaximumRecordLength \in Nat
    /\ MaximumSequence \in Nat /\ PublicationBound \in Nat
    /\ LineLengths \subseteq Nat \ {0}
    /\ NoWriter \notin Writers

VARIABLES records,       \* published record files
          pending,       \* bytes in the pending slot, or NoFile
          leaseFile,     \* the empty lease file exists
          foreign,       \* an object that is none of the log's is in the folder
          mutex,         \* owner of each object's mutex_
          lease,         \* holder of the exclusive native handle
          writers,       \* program counter and locals of each caller
          publications   \* history: the renames that published a record

vars == <<records, pending, leaseFile, foreign, mutex, lease, writers,
          publications>>

(* What a caller may pass: a null or a real correlation identifier, an     *)
(* elapsed time, and enumerators with or without a symbolic name.          *)
Fact == [correlation : {"nil", "uuid"}, elapsed : {"negative", "exact", "inexact"},
         symbol : {"listed", "unlisted"}]
SerializeRefuses(fact) == fact.correlation = "nil" \/ fact.elapsed # "exact"
SymbolicName(symbol)   == IF symbol = "listed" THEN "name" ELSE "Unknown"
ReadSafeRecord(text)   == text \in {"name", "Unknown"}

Line   == [length : LineLengths, text : {"name", "Unknown"}]
Record == [sequence : 1..MaximumSequence, line : Line, publication : Nat \ {0}]
Locals == [op : {"append"}, line : Line, last : 0..MaximumSequence]
              \cup [op : {"snapshot"}]
Steps  == {"lock", "lease", "inspect", "prune", "write", "publish"}
State  == {[pc |-> "idle"]} \cup [pc : Steps, locals : Locals]

(* The bytes that lines of these lengths have together, counted one by one. *)
Bytes(lengths)       == UNION {{x} \X (1..lengths[x]) : x \in DOMAIN lengths}
TotalLength(lengths) == Cardinality(Bytes(lengths))

Lengths(rs)        == [r \in rs |-> r.line.length]
RetainedLength(rs) == TotalLength(Lengths(rs))
Oldest(rs)         == CHOOSE r \in rs : \A s \in rs : r.sequence <= s.sequence
LastSequence(rs)   == Max({0} \cup {r.sequence : r \in rs})
FileCount          == Cardinality(records) + (IF pending = NoFile THEN 0 ELSE 1)
                                           + (IF leaseFile THEN 1 ELSE 0)

(* inspectRecords: every reason to refuse the folder.                      *)
InspectionAccepts ==
    /\ ~foreign
    /\ FileCount <= SupportedFileCount + 1
    /\ pending # NoFile => pending <= MaximumRecordLength
    /\ \A r \in records : r.line.length <= MaximumRecordLength /\ ReadSafeRecord(r.line.text)
    /\ \A r, s \in records : r.sequence = s.sequence => r = s

NeedsRoomOffByOne(line) ==
    \/ Cardinality(records) > MaximumRetainedFileCount
    \/ RetainedLength(records) + line.length > MaximumRetainedLength
NeedsRoom(line) ==
    \/ Cardinality(records) >= MaximumRetainedFileCount
    \/ RetainedLength(records) + line.length > MaximumRetainedLength
-----------------------------------------------------------------------------
At(w, step)  == writers[w].pc = step
Goto(w, step) == writers' = [writers EXCEPT ![w].pc = step]
(* Leaving append or snapshot, with or without an exception: the handle    *)
(* and the mutex are released by their owners' destructors.                *)
Return(w) == /\ writers' = [writers EXCEPT ![w] = [pc |-> "idle"]]
             /\ mutex' = [mutex EXCEPT ![LogOf[w]] = NoWriter]
             /\ lease' = IF lease = w THEN NoWriter ELSE lease
Call(w, locals) == /\ At(w, "idle")
                   /\ writers' = [writers EXCEPT ![w] = [pc |-> "lock", locals |-> locals]]

AppendRecord(w, fact, length) ==
    /\ publications < PublicationBound
    /\ ~SerializeRefuses(fact)
    /\ length <= MaximumRecordLength /\ length <= MaximumRetainedLength
    /\ Call(w, [op |-> "append", last |-> 0,
                line |-> [length |-> length, text |-> SymbolicName(fact.symbol)]])
    /\ UNCHANGED <<records, pending, leaseFile, foreign, mutex, lease, publications>>

Snapshot(w) ==
    /\ Call(w, [op |-> "snapshot"])
    /\ UNCHANGED <<records, pending, leaseFile, foreign, mutex, lease, publications>>

Lock(w) ==
    /\ At(w, "lock") /\ mutex[LogOf[w]] = NoWriter
    /\ mutex' = [mutex EXCEPT ![LogOf[w]] = w]
    /\ Goto(w, "lease")
    /\ UNCHANGED <<records, pending, leaseFile, foreign, lease, publications>>

AcquireWriterLease(w) ==
    /\ At(w, "lease") /\ lease = NoWriter
    /\ leaseFile' = TRUE
    /\ lease' = w
    /\ Goto(w, "inspect")
    /\ UNCHANGED <<records, pending, foreign, mutex, publications>>

(* HSO_SHARE_NONE: a handle that is open elsewhere refuses the caller,     *)
(* which gives up instead of waiting.                                      *)
LeaseRefused(w) ==
    /\ At(w, "lease") /\ lease # NoWriter
    /\ Return(w)
    /\ UNCHANGED <<records, pending, leaseFile, foreign, publications>>

InspectRefused(w) ==
    /\ At(w, "inspect") /\ ~InspectionAccepts
    /\ Return(w)
    /\ UNCHANGED <<records, pending, leaseFile, foreign, publications>>

InspectForAppend(w) ==
    /\ At(w, "inspect") /\ writers[w].locals.op = "append" /\ InspectionAccepts
    /\ IF LastSequence(records) = MaximumSequence
       THEN Return(w)
       ELSE /\ writers' = [writers EXCEPT ![w].pc = "prune",
                                          ![w].locals.last = LastSequence(records)]
            /\ UNCHANGED <<mutex, lease>>
    /\ UNCHANGED <<records, pending, leaseFile, foreign, publications>>

(* snapshot returns the retained lines in the order of their sequence     *)
(* numbers; its own limit checks are the two of FolderStaysUsable.          *)
InspectForSnapshot(w) ==
    /\ At(w, "inspect") /\ writers[w].locals.op = "snapshot" /\ InspectionAccepts
    /\ Return(w)
    /\ UNCHANGED <<records, pending, leaseFile, foreign, publications>>

PruneNewest(w) ==
    /\ At(w, "prune") /\ NeedsRoom(writers[w].locals.line)
    /\ records' = records \ {CHOOSE r \in records : \A s \in records : s.sequence <= r.sequence}
    /\ UNCHANGED <<pending, leaseFile, foreign, mutex, lease, writers, publications>>

PruneOldest(w) ==
    /\ At(w, "prune") /\ NeedsRoom(writers[w].locals.line)
    /\ records' = records \ {Oldest(records)}
    /\ UNCHANGED <<pending, leaseFile, foreign, mutex, lease, writers, publications>>

OpenPending(w) ==
    /\ At(w, "prune") /\ ~NeedsRoom(writers[w].locals.line)
    /\ pending' = IF pending = NoFile THEN 0 ELSE pending
    /\ Goto(w, "write")
    /\ UNCHANGED <<records, leaseFile, foreign, mutex, lease, publications>>

WritePending(w) ==
    /\ At(w, "write")
    /\ pending' = writers[w].locals.line.length
    /\ Goto(w, "publish")
    /\ UNCHANGED <<records, leaseFile, foreign, mutex, lease, publications>>

Publish(w) ==
    /\ At(w, "publish")
    /\ records' = records \cup {[sequence    |-> writers[w].locals.last + 1,
                                 line        |-> writers[w].locals.line,
                                 publication |-> publications + 1]}
    /\ publications' = publications + 1
    /\ pending' = NoFile
    /\ Return(w)
    /\ UNCHANGED <<leaseFile, foreign>>

(* A native call of append fails: the file that was being deleted, written *)
(* or renamed stays as it is, except that a write may stop half way.       *)
NativeFailure(w) ==
    /\ writers[w].pc \in {"prune", "write", "publish"}
    /\ IF At(w, "write") THEN pending' \in 0..writers[w].locals.line.length
                         ELSE UNCHANGED pending
    /\ Return(w)
    /\ UNCHANGED <<records, leaseFile, foreign, publications>>

(* The process of a log object ends; the kernel closes its handle.         *)
ProcessDies(log) ==
    LET gone == {w \in Writers : LogOf[w] = log /\ ~At(w, "idle")}
    IN  /\ gone # {}
        /\ writers' = [w \in Writers |-> IF w \in gone THEN [pc |-> "idle"] ELSE writers[w]]
        /\ mutex' = [mutex EXCEPT ![log] = NoWriter]
        /\ lease' = IF lease \in gone THEN NoWriter ELSE lease
        /\ IF \E w \in gone : At(w, "write")
           THEN pending' \in 0..MaximumRecordLength
           ELSE UNCHANGED pending
        /\ UNCHANGED <<records, leaseFile, foreign, publications>>

ForeignObject ==
    /\ foreign' = ~foreign
    /\ UNCHANGED <<records, pending, leaseFile, mutex, lease, writers, publications>>
-----------------------------------------------------------------------------
Init == /\ records = {} /\ pending = NoFile /\ leaseFile = FALSE /\ foreign = FALSE
        /\ mutex = [l \in Logs |-> NoWriter] /\ lease = NoWriter
        /\ writers = [w \in Writers |-> [pc |-> "idle"]]
        /\ publications = 0

Step(w) == \/ Lock(w) \/ AcquireWriterLease(w) \/ LeaseRefused(w) \/ InspectRefused(w)
           \/ InspectForAppend(w) \/ InspectForSnapshot(w) \/ PruneOldest(w)
           \/ OpenPending(w) \/ WritePending(w) \/ Publish(w) \/ NativeFailure(w)

Next == \/ \E w \in Writers : Step(w) \/ Snapshot(w)
        \/ \E w \in Writers, fact \in Fact, length \in LineLengths : AppendRecord(w, fact, length)
        \/ \E log \in Logs : ProcessDies(log)
        \/ ForeignObject

Spec == Init /\ [][Next]_vars
-----------------------------------------------------------------------------
TypeOK ==
    /\ records \subseteq Record
    /\ pending \in {NoFile} \cup 0..MaximumRecordLength
    /\ leaseFile \in BOOLEAN /\ foreign \in BOOLEAN
    /\ mutex \in [Logs -> Writers \cup {NoWriter}] /\ lease \in Writers \cup {NoWriter}
    /\ writers \in [Writers -> State]
    /\ publications \in Nat

(* LocalDiagnosticLog::append and inspectRecords: at every step, the one   *)
(* that publishes included, the published records and the record being     *)
(* written are within both retention limits; so a folder that holds only   *)
(* the log's own files is accepted whatever crashes, failures and          *)
(* interleavings came before, and can be appended to and exported again.   *)
FolderStaysUsable ==
    LET incoming == {w \in Writers : writers[w].pc \in {"write", "publish"}}
    IN  /\ Cardinality(records) + Cardinality(incoming) <= MaximumRetainedFileCount
        /\ RetainedLength(records)
             + TotalLength([w \in incoming |-> writers[w].locals.line.length])
               <= MaximumRetainedLength
        /\ ~foreign => InspectionAccepts

(* LocalDiagnosticLog::append, snapshot: in the order of their sequence    *)
(* numbers the retained records are the latest ones published, in the      *)
(* order they were published and without a gap.                            *)
RetainsTheLatest ==
    \A r \in records :
        r.publication = publications - Cardinality({s \in records : s.sequence > r.sequence})
=============================================================================
