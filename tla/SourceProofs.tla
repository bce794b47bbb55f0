---------------------------- MODULE SourceProofs ----------------------------
(***************************************************************************)
(* What the user selects, and what is read of it: a capture of one file     *)
(* (SourceFileCapture) and the review of a folder                           *)
(* (WindowsStorageImageSourceCollection).                                   *)
(*                                                                         *)
(* A published capture is one version of the file, for every length, buffer *)
(* capacity, limit and number of changes by other programs.  Where readers  *)
(* exclude writers nothing changes under the stream; elsewhere a change     *)
(* moves the stamp, so the second reading of the properties sees it.        *)
(*                                                                         *)
(* The review is for every volume, page size and number of changes.  Lines  *)
(* from the volume to an item carry it: what a relocation does to a line,   *)
(* that a path leads back to its item, that a listing holds every item.     *)
(* Selection keeps each folder that is listed, or is to be, in the selected *)
(* tree while handles pin; Complete says where each expected image is: found*)
(* or explained, on the page, after it, or below a folder still to be       *)
(* listed; Reviewable is the order of the rows and what the progress counts.*)
(* HeldInPlace keeps each file found in the folder it was found in, and a   *)
(* file whose proof is held in its place, over the reads that follow.       *)
(***************************************************************************)
EXTENDS SourceFileCapture, WindowsStorageImageSourceCollection, FiniteSetTheorems,
        NaturalsInduction, SequenceTheorems, TLAPS

-----------------------------------------------------------------------------
(* One capture.                                                             *)

\* What a version looks like when every byte of it was read.
Whole(v) == [k \in 1..versions[v].length |-> v]

\* The history of the path: file names the latest version.
FileInv ==
    /\ fileSystem \in {"exclusive", "shared"} /\ retained \in Retentions
    /\ versions \in Seq(Version) /\ versions # <<>> /\ file = Len(versions)
    /\ stream \in 0..Len(versions) /\ (stream = 0 <=> phase \in {"Open", "Done"})
    /\ phase \in {"Open", "Before", "Measure", "Read", "After", "Close", "Done"}
    /\ before \in Version

\* No two versions of a shared file have one stamp.
StampInv ==
    ChangesMoveTheStamp =>
        \A i, j \in 1..Len(versions) : versions[i].stamp = versions[j].stamp => i = j

\* The stream holds the version that the path names when writers are kept out.
ExclusiveInv ==
    ReaderExcludesWriters /\ stream # 0 => stream = Len(versions)

\* The capture holds no more than was admitted before the first byte.
SizeInv ==
    /\ bytes \in Seq(Nat) /\ initialLength \in Nat /\ Len(bytes) <= initialLength
    /\ \A limit \in retained : initialLength <= limit
    /\ phase \in {"Open", "Before", "Measure"} => bytes = <<>>

\* The properties were those of version `seen'; as long as it is the latest
\* every byte comes from one version.
Seen(seen) ==
    /\ before = versions[seen]
    /\ ReaderExcludesWriters => seen = Len(versions)
    /\ seen = Len(versions) => \A k \in 1..Len(bytes) : bytes[k] = stream

\* Until the properties are compared again the capture is of the version first seen
\* or of a mix that the comparison will refuse; after it, of one whole version.
SeenInv ==
    /\ phase \in {"Measure", "Read", "After"} => \E seen \in 1..Len(versions) : Seen(seen)
    /\ phase = "Close" => \E v \in 1..Len(versions) :
                          /\ bytes = Whole(v)
                          /\ ReaderExcludesWriters => before.stamp = versions[v].stamp

\* The result is a capture of version v.
Published(v, stamp) ==
    /\ result = <<[code |-> "None", length |-> versions[v].length, stamp |-> stamp,
                   digest |-> Whole(v)]>>
    /\ ReaderExcludesWriters => stamp = versions[v].stamp

\* The result is absent, a refusal, or a capture of some version.
ResultInv ==
    \/ result = <<>>
    \/ \E code \in Code : result = <<[code |-> code]>>
    \/ \E v \in 1..Len(versions), stamp \in Stamps : Published(v, stamp)

\* The inductive invariant of the capture.
CInv == FileInv /\ StampInv /\ ExclusiveInv /\ SizeInv /\ SeenInv /\ ResultInv

-----------------------------------------------------------------------------
\* The first version is the only one, and nothing is read yet.
LEMMA CaptureStarts == CaptureInit => CInv
<1> SUFFICES ASSUME CaptureInit PROVE CInv
  OBVIOUS
<1>1. PICK v \in Version : versions = <<v>> /\ before = v
  BY DEF CaptureInit
<1>2. FileInv /\ StampInv /\ ExclusiveInv
  BY <1>1 DEF CaptureInit, FileInv, StampInv, ExclusiveInv
<1>3. SizeInv
  <2>1. \A limit \in retained : limit \in Nat
    BY CaptureAssumption DEF CaptureInit
  <2> QED
    BY <2>1 DEF CaptureInit, SizeInv
<1>4. SeenInv /\ ResultInv
  BY DEF CaptureInit, SeenInv, ResultInv
<1> QED
  BY <1>2, <1>3, <1>4 DEF CInv

\* A version's length is a number.
LEMMA VersionLength ==
    ASSUME FileInv, NEW v \in 1..Len(versions)
    PROVE  versions[v] \in Version /\ versions[v].length \in Nat /\ Len(versions) \in Nat
<1>1. Len(versions) \in Nat /\ versions[v] \in Version
  BY DEF FileInv
<1>2. versions[v].length \in Lengths
  BY <1>1 DEF Version
<1> QED
  BY <1>1, <1>2, CaptureAssumption

\* What joining two sequences of numbers gives.
LEMMA Joined ==
    ASSUME NEW s \in Seq(Nat), NEW t \in Seq(Nat)
    PROVE  /\ s \o t \in Seq(Nat) /\ Len(s \o t) = Len(s) + Len(t)
           /\ \A k \in 1..Len(s) : (s \o t)[k] = s[k]
           /\ \A k \in (Len(s) + 1)..(Len(s) + Len(t)) : (s \o t)[k] = t[k - Len(s)]
OBVIOUS

\* Another program changes the file, in place or by replacing it.
Changes ==
    /\ MayChange
    /\ \E v \in FreshVersion : versions' = Append(versions, v)
    /\ file' = Len(versions) + 1
    /\ stream' \in {stream} \cup (IF stream = 0 THEN {} ELSE {Len(versions) + 1})
    /\ UNCHANGED <<request, stopRequested, phase, before, initialLength, bytes, result>>

\* Both ways are one.
LEMMA ChangesShape == ASSUME WriteFile \/ ReplaceFile PROVE Changes
BY DEF WriteFile, ReplaceFile, Changes

\* A change adds a version and leaves the older ones what they were.
LEMMA ChangeKeepsInv ==
    ASSUME CInv, Changes
    PROVE  CInv'
<1>1. PICK new \in FreshVersion : versions' = Append(versions, new)
  BY DEF Changes
<1>2. /\ Len(versions) \in Nat /\ Len(versions') = Len(versions) + 1
      /\ versions' \in Seq(Version) /\ versions' # <<>>
      /\ \A i \in 1..Len(versions) : versions'[i] = versions[i]
      /\ versions'[Len(versions) + 1] = new
  BY <1>1 DEF FreshVersion, CInv, FileInv
<1>3. UNCHANGED <<fileSystem, retained, phase, before, initialLength, bytes, result>>
  BY DEF Changes, request
<1>4. ~(stream # 0 /\ ReaderExcludesWriters)
  BY DEF Changes, MayChange
<1>5. FileInv'
  BY <1>2, <1>3 DEF Changes, CInv, FileInv
<1>6. StampInv'
  <2> SUFFICES ASSUME ChangesMoveTheStamp, NEW i \in 1..(Len(versions) + 1),
                      NEW j \in 1..(Len(versions) + 1),
                      versions'[i].stamp = versions'[j].stamp
               PROVE  i = j
    BY <1>2, <1>3 DEF StampInv, ChangesMoveTheStamp
  <2>1. \A k \in 1..Len(versions) : versions[k].stamp # new.stamp
    BY <1>1 DEF FreshVersion
  <2>2. i \in 1..Len(versions) \/ i = Len(versions) + 1
    BY <1>2
  <2>3. j \in 1..Len(versions) \/ j = Len(versions) + 1
    BY <1>2
  <2> QED
    BY <1>2, <2>1, <2>2, <2>3 DEF CInv, StampInv
<1>7. ExclusiveInv'
  BY <1>2, <1>3, <1>4 DEF ExclusiveInv, Changes, ReaderExcludesWriters
<1>8. SizeInv'
  BY <1>3 DEF CInv, SizeInv
<1>9. \A v \in 1..Len(versions) : v \in 1..Len(versions') /\ Whole(v)' = Whole(v)
  BY <1>2 DEF Whole
<1>10. SeenInv'
  <2>1. ASSUME phase \in {"Measure", "Read", "After"}
        PROVE  \E seen \in 1..Len(versions') : Seen(seen)'
    <3>1. PICK seen \in 1..Len(versions) : Seen(seen)
      BY <2>1 DEF CInv, SeenInv
    <3>2. ~ReaderExcludesWriters
      BY <1>4, <2>1 DEF CInv, FileInv
    <3>3. seen \in 1..Len(versions') /\ seen # Len(versions')
      BY <1>2
    <3>4. Seen(seen)'
      BY <1>2, <1>3, <3>1, <3>2, <3>3 DEF Seen, ReaderExcludesWriters
    <3> QED
      BY <3>3, <3>4
  <2>2. ASSUME phase = "Close"
        PROVE  (\E v \in 1..Len(versions) :
                  /\ bytes = Whole(v)
                  /\ ReaderExcludesWriters => before.stamp = versions[v].stamp)'
    <3>1. PICK v \in 1..Len(versions) : /\ bytes = Whole(v)
                                        /\ ReaderExcludesWriters =>
                                             before.stamp = versions[v].stamp
      BY <2>2 DEF CInv, SeenInv
    <3> QED
      BY <1>2, <1>3, <1>9, <3>1 DEF ReaderExcludesWriters
  <2> QED
    BY <1>3, <2>1, <2>2 DEF SeenInv
<1>11. ResultInv'
  <2>1. ASSUME NEW v \in 1..Len(versions), NEW stamp \in Stamps, Published(v, stamp)
        PROVE  Published(v, stamp)' /\ v \in 1..Len(versions')
    BY <1>2, <1>3, <1>9, <2>1 DEF Published, ReaderExcludesWriters
  <2> QED
    BY <1>3, <2>1 DEF CInv, ResultInv
<1> QED
  BY <1>5, <1>6, <1>7, <1>8, <1>10, <1>11 DEF CInv

\* A step of the capture leaves the path alone.
LEMMA OwnSteps ==
    ASSUME CInv, CaptureStep \/ NativeFailure \/ RequestCaptureStop
    PROVE  /\ UNCHANGED <<fileSystem, retained, versions, file>>
           /\ StampInv' /\ (ReaderExcludesWriters' <=> ReaderExcludesWriters)
           /\ \A v : Whole(v)' = Whole(v)
<1>1. UNCHANGED <<fileSystem, retained, versions, file>>
  BY DEF CaptureStep, NativeFailure, RequestCaptureStop, OpenStream, ReadPropertiesBefore, Measure,
         ReadBlock, ReadPropertiesAfter, CloseAndPublish, Cancelled, Fail, outside, request
<1> QED
  BY <1>1 DEF CInv, StampInv, ReaderExcludesWriters, ChangesMoveTheStamp, Whole

\* Every way out with an error.
LEMMA FailKeepsInv ==
    ASSUME CInv, NEW code \in Code, Fail(code)
    PROVE  CInv'
<1>1. /\ UNCHANGED <<fileSystem, retained, versions, file, before, initialLength, bytes>>
      /\ phase' = "Done" /\ stream' = 0 /\ result' = <<[code |-> code]>>
  BY DEF Fail, outside, request
<1>2. FileInv' /\ StampInv' /\ ExclusiveInv' /\ SizeInv' /\ SeenInv'
  BY <1>1 DEF CInv, FileInv, StampInv, ExclusiveInv, SizeInv, SeenInv, ChangesMoveTheStamp
<1>3. ResultInv'
  BY <1>1 DEF ResultInv
<1> QED
  BY <1>2, <1>3 DEF CInv

\* Every step of captureSourceFile keeps the invariant.
LEMMA StepKeepsInv ==
    ASSUME CInv, CaptureStep \/ NativeFailure \/ RequestCaptureStop
    PROVE  CInv'
<1>1. /\ UNCHANGED <<fileSystem, retained, versions, file>> /\ StampInv'
      /\ (ReaderExcludesWriters' <=> ReaderExcludesWriters)
      /\ \A v : Whole(v)' = Whole(v)
  BY OwnSteps
<1>2. Len(versions) \in Nat
  BY DEF CInv, FileInv
<1>3. CASE NativeFailure \/ Cancelled
  BY <1>3, FailKeepsInv DEF NativeFailure, Cancelled, Code
<1>4. CASE RequestCaptureStop
  BY <1>4 DEF RequestCaptureStop, outside, request, CInv, FileInv, StampInv, ExclusiveInv, SizeInv,
       SeenInv, Seen, ResultInv, Published, ReaderExcludesWriters, ChangesMoveTheStamp, Whole
<1>5. CASE OpenStream
  <2>1. /\ stream' = Len(versions) /\ phase' = "Before" /\ phase = "Open"
        /\ UNCHANGED <<before, initialLength, bytes, result>>
    BY <1>5 DEF OpenStream, CInv, FileInv
  <2>2. Len(versions) # 0
    BY DEF CInv, FileInv
  <2> QED
    BY <1>1, <1>2, <2>1, <2>2 DEF CInv, FileInv, ExclusiveInv, SizeInv, SeenInv, ResultInv, Published
<1>6. CASE ReadPropertiesBefore
  <2>1. /\ before' = versions[file] /\ phase' = "Measure" /\ phase = "Before"
        /\ UNCHANGED <<stream, initialLength, bytes, result>>
    BY <1>6 DEF ReadPropertiesBefore
  <2>2. file \in 1..Len(versions) /\ file = Len(versions)
    BY <1>2 DEF CInv, FileInv
  <2>3. versions[file] \in Version
    BY <2>2, VersionLength DEF CInv
  <2>4. Seen(file)'
    BY <1>1, <2>1, <2>2 DEF Seen, CInv, SizeInv
  <2>5. SeenInv'
    BY <1>1, <2>1, <2>2, <2>4 DEF SeenInv
  <2> QED
    BY <1>1, <2>1, <2>3, <2>5 DEF CInv, FileInv, ExclusiveInv, SizeInv, ResultInv, Published
<1>7. CASE Measure
  <2> DEFINE length == versions[stream].length
  <2>1. stream \in 1..Len(versions) /\ length \in Nat
    BY <1>2, <1>7, VersionLength DEF Measure, CInv, FileInv
  <2>2. CASE MeasureRefusal(length) # "None"
    <3>1. Fail(MeasureRefusal(length)) /\ MeasureRefusal(length) \in Code
      BY <1>7, <2>2 DEF Measure, MeasureRefusal, Code
    <3> QED
      BY <3>1, FailKeepsInv
  <2>3. CASE MeasureRefusal(length) = "None"
    <3>1. \A limit \in retained : ~(length > limit) /\ limit \in Nat
      <4>1. \A limit \in retained : ~(length > limit)
        BY <2>3 DEF MeasureRefusal
      <4>2. \A limit \in retained : limit \in Nat
        BY CaptureAssumption DEF CInv, FileInv
      <4> QED
        BY <4>1, <4>2
    <3>2. /\ initialLength' = length /\ phase' = "Read" /\ phase = "Measure"
          /\ UNCHANGED <<stream, before, bytes, result>>
      BY <1>7, <2>3 DEF Measure
    <3>3. SizeInv'
      BY <1>1, <2>1, <3>1, <3>2 DEF CInv, SizeInv
    <3> QED
      BY <1>1, <3>2, <3>3 DEF CInv, FileInv, ExclusiveInv, SeenInv, Seen, ResultInv, Published
  <2> QED
    BY <2>2, <2>3
<1>8. CASE ReadBlock
  <2>1. CASE Fail("SourceChangedAfterAnalysis")
    BY <2>1, FailKeepsInv DEF Code
  <2>2. CASE ~Fail("SourceChangedAfterAnalysis")
    <3>1. PICK n \in Blocks : /\ n <= initialLength - Len(bytes)
                              /\ bytes' = bytes \o [i \in 1..n |-> stream]
      BY <1>8, <2>2 DEF ReadBlock
    <3>2. /\ phase' \in {"Read", "After"} /\ phase = "Read"
          /\ UNCHANGED <<stream, before, initialLength, result>>
      BY <1>8, <2>2 DEF ReadBlock
    <3>3. stream \in 1..Len(versions) /\ n \in Nat
      BY <1>2, <3>2, CaptureAssumption DEF CInv, FileInv, Blocks
    <3>4. /\ bytes' \in Seq(Nat) /\ Len(bytes') = Len(bytes) + n
          /\ \A k \in 1..Len(bytes) : bytes'[k] = bytes[k]
          /\ \A k \in (Len(bytes) + 1)..(Len(bytes) + n) : bytes'[k] = stream
      <4> DEFINE block == [i \in 1..n |-> stream]
      <4>1. block \in Seq(Nat) /\ Len(block) = n /\ \A i \in 1..n : block[i] = stream
        BY <1>2, <3>3
      <4> HIDE DEF block
      <4>2. bytes' = bytes \o block /\ bytes \in Seq(Nat) /\ Len(bytes) \in Nat
        BY <3>1 DEF block, CInv, SizeInv
      <4>3. /\ bytes' \in Seq(Nat) /\ Len(bytes') = Len(bytes) + n
            /\ \A k \in 1..Len(bytes) : bytes'[k] = bytes[k]
            /\ \A k \in (Len(bytes) + 1)..(Len(bytes) + n) : bytes'[k] = block[k - Len(bytes)]
        BY <4>1, <4>2, Joined
      <4>4. \A k \in (Len(bytes) + 1)..(Len(bytes) + n) : k - Len(bytes) \in 1..n
        BY <3>3, <4>2
      <4> QED
        BY <4>1, <4>3, <4>4
    <3>5. SizeInv'
      BY <1>1, <3>1, <3>2, <3>3, <3>4 DEF CInv, SizeInv
    <3>6. PICK seen \in 1..Len(versions) : Seen(seen)
      BY <3>2 DEF CInv, SeenInv
    <3>7. Seen(seen)'
      <4>1. Len(bytes) \in Nat
        BY DEF CInv, SizeInv
      <4>2. ASSUME seen = Len(versions), NEW k \in 1..Len(bytes') PROVE bytes'[k] = stream
        <5>1. k \in 1..Len(bytes) \/ k \in (Len(bytes) + 1)..(Len(bytes) + n)
          BY <3>3, <3>4, <4>1
        <5> QED
          BY <3>4, <3>6, <4>2, <5>1 DEF Seen
      <4> QED
        BY <1>1, <3>2, <3>6, <4>2 DEF Seen
    <3>8. SeenInv'
      BY <1>1, <3>2, <3>7 DEF SeenInv
    <3> QED
      BY <1>1, <3>2, <3>5, <3>8 DEF CInv, FileInv, ExclusiveInv, ResultInv, Published
  <2> QED
    BY <2>1, <2>2
<1>9. CASE ReadPropertiesAfter
  <2>1. CASE ~Unchanged
    BY <1>9, <2>1, FailKeepsInv DEF ReadPropertiesAfter, Code
  <2>2. CASE Unchanged
    <3>1. /\ phase' = "Close" /\ phase = "After"
          /\ UNCHANGED <<stream, before, initialLength, bytes, result>>
      BY <1>9, <2>2 DEF ReadPropertiesAfter
    <3>2. PICK seen \in 1..Len(versions) : Seen(seen)
      BY <3>1 DEF CInv, SeenInv
    <3>3. seen = Len(versions)
      <4>1. CASE ReaderExcludesWriters
        BY <3>2, <4>1 DEF Seen
      <4>2. CASE ~ReaderExcludesWriters
        <5>1. ChangesMoveTheStamp
          BY <4>2 DEF CInv, FileInv, ReaderExcludesWriters, ChangesMoveTheStamp
        <5>2. file \in 1..Len(versions) /\ versions[file] = versions[seen]
          BY <1>2, <2>2, <3>2 DEF CInv, FileInv, Unchanged, Seen
        <5> QED
          BY <5>1, <5>2 DEF CInv, StampInv, FileInv
      <4> QED
        BY <4>1, <4>2
    <3>4. stream \in 1..Len(versions)
      BY <1>2, <3>1 DEF CInv, FileInv
    <3>5. bytes = Whole(stream)
      <4>1. bytes \in Seq(Nat) /\ Len(bytes) = versions[stream].length
        BY <2>2 DEF CInv, SizeInv, Unchanged
      <4>2. \A k \in 1..Len(bytes) : bytes[k] = stream
        BY <3>2, <3>3 DEF Seen
      <4> QED
        BY <4>1, <4>2 DEF Whole
    <3>6. ReaderExcludesWriters => before.stamp = versions[stream].stamp
      BY <3>1, <3>2, <3>3 DEF CInv, FileInv, ExclusiveInv, Seen
    <3>7. SeenInv'
      BY <1>1, <3>1, <3>4, <3>5, <3>6 DEF SeenInv
    <3> QED
      BY <1>1, <3>1, <3>7 DEF CInv, FileInv, ExclusiveInv, SizeInv, ResultInv, Published
  <2> QED
    BY <2>1, <2>2
<1>10. CASE CloseAndPublish
  <2>1. /\ phase' = "Done" /\ stream' = 0 /\ phase = "Close"
        /\ UNCHANGED <<before, initialLength, bytes>>
        /\ result' = <<[code |-> "None", length |-> Len(bytes),
                        stamp |-> before.stamp, digest |-> bytes]>>
    BY <1>10 DEF CloseAndPublish
  <2>2. PICK v \in 1..Len(versions) : /\ bytes = Whole(v)
                                      /\ ReaderExcludesWriters =>
                                           before.stamp = versions[v].stamp
    BY <2>1 DEF CInv, SeenInv
  <2>3. Len(bytes) = versions[v].length
    BY <2>2, VersionLength DEF CInv, Whole
  <2>4. before.stamp \in Stamps
    BY DEF CInv, FileInv, Version
  <2>5. Published(v, before.stamp)'
    BY <1>1, <2>1, <2>2, <2>3 DEF Published
  <2>6. ResultInv'
    BY <1>1, <2>1, <2>4, <2>5 DEF ResultInv
  <2> QED
    BY <1>1, <2>1, <2>6 DEF CInv, FileInv, ExclusiveInv, SizeInv, SeenInv
<1> QED
  BY <1>3, <1>4, <1>5, <1>6, <1>7, <1>8, <1>9, <1>10 DEF CaptureStep

\* The invariant of a capture beside other programs.
THEOREM CaptureInvariant == CaptureSpec => []CInv
<1>1. CInv /\ [CaptureNext]_captureVars => CInv'
  <2> SUFFICES ASSUME CInv, [CaptureNext]_captureVars PROVE CInv'
    OBVIOUS
  <2>1. CASE UNCHANGED captureVars
    BY <2>1 DEF captureVars, CInv, FileInv, StampInv, ExclusiveInv, SizeInv, SeenInv, Seen, ResultInv,
         Published, ReaderExcludesWriters, ChangesMoveTheStamp, Whole
  <2> QED
    BY <2>1, ChangesShape, ChangeKeepsInv, StepKeepsInv DEF CaptureNext, Returned
<1> QED
  BY <1>1, CaptureStarts, PTL DEF CaptureSpec

\* A published capture is one version of the file, whatever other programs do
\* between any two native calls, and it never holds more than was admitted
\* (captureSourceFile's two property reads around the hashing loop).
THEOREM CapturesAreOneVersion == CaptureSpec => []CaptureIsOneVersion
<1>1. CInv => CaptureIsOneVersion
  <2> SUFFICES ASSUME CInv PROVE CaptureIsOneVersion
    OBVIOUS
  <2>1. ASSUME NEW i \in DOMAIN result, result[i].code = "None"
        PROVE  \E v \in 1..Len(versions) :
                 /\ result[i].length = versions[v].length
                 /\ result[i].digest = [k \in 1..versions[v].length |-> v]
                 /\ ReaderExcludesWriters => result[i].stamp = versions[v].stamp
    <3>1. result # <<>>
      BY <2>1
    <3>2. ASSUME NEW code \in Code, result = <<[code |-> code]>> PROVE FALSE
      BY <2>1, <3>2 DEF Code
    <3>3. PICK v \in 1..Len(versions), stamp \in Stamps : Published(v, stamp)
      BY <3>1, <3>2 DEF CInv, ResultInv
    <3>4. i = 1
      BY <2>1, <3>3 DEF Published
    <3> QED
      BY <3>3, <3>4 DEF Published, Whole
  <2>2. ASSUME NEW limit \in retained PROVE Len(bytes) <= limit
    <3>1. Len(bytes) \in Nat /\ initialLength \in Nat /\ limit \in Nat
      BY CaptureAssumption DEF CInv, FileInv, SizeInv
    <3> QED
      BY <3>1 DEF CInv, SizeInv
  <2> QED
    BY <2>1, <2>2 DEF CaptureIsOneVersion
<1> QED
  BY <1>1, CaptureInvariant, PTL

-----------------------------------------------------------------------------
(* The tree of a volume.                                                   *)

\* The smallest of a set of numbers.
LEMMA Smallest ==
    ASSUME NEW S, S \subseteq Nat, S # {}
    PROVE  \E m \in S : \A y \in S : y >= m
<1> DEFINE R == OpToRel(<, Nat)
<1>0. \A pair \in Nat \X Nat : pair[1] < pair[2] => pair \in R
  BY Zenon DEF OpToRel
<1>1. PICK m \in S : \A y \in S : ~(<<y, m>> \in R)
  BY NatLessThanWellFounded, WFMin
<1> HIDE DEF R
<1>2. \A y \in S : y >= m
  <2> SUFFICES ASSUME NEW y \in S, ~(y >= m) PROVE FALSE
    OBVIOUS
  <2>1. y \in Nat /\ m \in Nat /\ y < m
    OBVIOUS
  <2>2. <<y, m>> \in Nat \X Nat /\ <<y, m>>[1] < <<y, m>>[2]
    BY <2>1
  <2>3. <<y, m>> \in R
    BY <1>0, <2>2, Zenon
  <2> QED
    BY <1>1, <2>3
<1> QED
  BY <1>2

\* What a path can lead through, and how many levels a tree can have.
Points == Ids \cup {Volume, Gone}
Levels == Cardinality(Ids)

\* One step of Ancestry's recursion, in the layout p.
LevelStep(up, p, n) ==
    [y \in Points |-> IF n = 0 \/ y \in {Volume, Gone} THEN <<y>>
                      ELSE Append(up[n - 1][p[y].in], y)]
Up(p) == CHOOSE up : up = [n \in 0..Levels |-> LevelStep(up, p, n)]

\* The items from the volume down to x, in the layout p.
Line(p, x) == Up(p)[Levels][x]
Reaches(p, x) == Line(p, x)[1] = Volume

\* Layouts: where every item is; no two items share a name in a folder.
Layouts == [Ids -> Place]
SingleNames(p) == \A x, y \in Ids : p[x] = p[y] => x = y \/ p[x] = Nowhere

\* The constants, as the assumption has them.
LEMMA CollectionFacts ==
    /\ Levels \in Nat /\ IsFiniteSet(Ids) /\ Folders \subseteq Ids /\ Files \subseteq Ids
    /\ Volume \notin Ids /\ Gone \notin Ids /\ Missing \notin Ids
    /\ Volume # Gone /\ Volume # Missing /\ Gone # Missing
    /\ Folders \cap Junctions = {} /\ Files \cap Junctions = {} /\ Folders \cap Files = {}
<1>1. IsFiniteSet(Ids) /\ {Volume, Missing, Gone} \cap Ids = {}
  BY CollectionAssumption
<1>2. Levels \in Nat
  BY <1>1, FS_CardinalityType DEF Levels
<1>3. Folders \cap Files = {} /\ (Folders \cup Files) \cap Junctions = {}
  BY CollectionAssumption
<1> QED
  BY <1>1, <1>2, <1>3 DEF Ids, Volume, Gone, Missing

\* An item's folder is a point of the tree.
LEMMA ParentIsPoint ==
    ASSUME NEW p \in Layouts, NEW x \in Ids
    PROVE  /\ p[x] \in Place /\ p[x].in \in Points /\ p[x].in \in Folders \cup {Volume, Gone}
           /\ p[x].in = Gone => p[x] = Nowhere
<1>1. p[x] \in Place
  BY DEF Layouts
<1>2. p[x].in \in Folders \cup {Volume, Gone}
  BY <1>1 DEF Place, Nowhere
<1>3. p[x].in = Gone => p[x] = Nowhere
  BY <1>1, CollectionFacts DEF Place
<1> QED
  BY <1>1, <1>2, <1>3, CollectionFacts DEF Points

\* The recursion up to the level m.
IsUpTo(up, p, m) == up = [n \in 0..m |-> LevelStep(up, p, n)]

\* The recursion has a solution at every level.
LEMMA UpExists ==
    ASSUME NEW p, NEW m \in Nat
    PROVE  \E up : IsUpTo(up, p, m)
<1> DEFINE Bad == {k \in Nat : ~\E up : IsUpTo(up, p, k)}
<1>1. SUFFICES ASSUME Bad # {} PROVE FALSE
  OBVIOUS
<1>2. PICK k \in Bad : \A j \in Bad : j >= k
  <2>1. Bad \subseteq Nat
    OBVIOUS
  <2> HIDE DEF Bad
  <2> QED
    BY <1>1, <2>1, Smallest
<1>3. CASE k = 0
  <2> DEFINE f == [n \in 0..0 |-> LevelStep(<<>>, p, n)]
  <2>1. LevelStep(f, p, 0) = LevelStep(<<>>, p, 0)
    BY DEF LevelStep
  <2>2. IsUpTo(f, p, 0)
    <3>1. \A n \in 0..0 : LevelStep(f, p, n) = LevelStep(<<>>, p, n)
      BY <2>1
    <3> HIDE DEF f
    <3>2. f = [n \in 0..0 |-> LevelStep(f, p, n)]
      BY <3>1 DEF f
    <3> QED
      BY <3>2 DEF IsUpTo
  <2> QED
    BY <1>2, <1>3, <2>2
<1>4. CASE k # 0
  <2>1. k \in Nat /\ k - 1 \in Nat /\ k - 1 \notin Bad
    BY <1>2, <1>4
  <2>2. PICK g : IsUpTo(g, p, k - 1)
    BY <2>1
  <2> DEFINE f == [n \in 0..k |-> IF n = k THEN LevelStep(g, p, k) ELSE g[n]]
  <2>3. \A n \in 0..(k - 1) : f[n] = g[n] /\ g[n] = LevelStep(g, p, n)
    BY <2>1, <2>2 DEF IsUpTo
  <2>4. f[k] = LevelStep(g, p, k)
    BY <2>1
  <2>5. \A n \in 0..k : LevelStep(f, p, n) = LevelStep(g, p, n)
    <3> HIDE DEF f
    <3> SUFFICES ASSUME NEW n \in 0..k PROVE LevelStep(f, p, n) = LevelStep(g, p, n)
      OBVIOUS
    <3>1. CASE n = 0
      BY <3>1 DEF LevelStep
    <3>2. CASE n # 0
      <4>1. f[n - 1] = g[n - 1]
        BY <2>1, <2>3, <3>2
      <4> QED
        BY <4>1 DEF LevelStep
    <3> QED
      BY <3>1, <3>2
  <2>6. \A n \in 0..k : f[n] = LevelStep(f, p, n)
    <3> HIDE DEF f
    <3>1. \A n \in 0..k : n = k \/ n \in 0..(k - 1)
      BY <2>1
    <3> QED
      BY <2>3, <2>4, <2>5, <3>1
  <2>7. IsUpTo(f, p, k)
    <3>1. f = [n \in 0..k |-> f[n]]
      OBVIOUS
    <3> HIDE DEF f
    <3> QED
      BY <2>6, <3>1 DEF IsUpTo
  <2> QED
    BY <1>2, <2>7
<1> QED
  BY <1>3, <1>4

\* Ancestry follows the recursion.
LEMMA UpStep ==
    ASSUME NEW p, NEW n \in 0..Levels
    PROVE  Up(p)[n] = LevelStep(Up(p), p, n)
<1>1. \E up : IsUpTo(up, p, Levels)
  BY UpExists, CollectionFacts
<1>2. IsUpTo(Up(p), p, Levels)
  BY <1>1, Zenon DEF Up, IsUpTo
<1> HIDE DEF Up
<1> QED
  BY <1>2 DEF IsUpTo

\* Ancestry is the line to the item in the volume as it is, before and after a step.
LEMMA AncestryIsLine ==
    ASSUME NEW x
    PROVE  Ancestry(x) = Line(place, x) /\ Ancestry(x)' = Line(place', x)
BY DEF Ancestry, Line, Up, LevelStep, Levels, Points

\* What the recursion gives at a level: a sequence of points that ends in y, all of
\* them items but the first.
LineShape(u, n, y) ==
    /\ u \in Seq(Points) /\ Len(u) \in 1..(n + 1) /\ u[Len(u)] = y
    /\ \A i \in 2..Len(u) : u[i] \in Ids

\* Every level has that shape.
LEMMA UpShape ==
    ASSUME NEW p \in Layouts, NEW n \in 0..Levels, NEW y \in Points
    PROVE  LineShape(Up(p)[n][y], n, y)
<1> DEFINE Bad == {k \in Nat : k <= Levels /\ \E z \in Points : ~LineShape(Up(p)[k][z], k, z)}
<1>1. SUFFICES ASSUME Bad # {} PROVE FALSE
  BY CollectionFacts
<1>2. PICK k \in Bad : \A j \in Bad : j >= k
  <2>1. Bad \subseteq Nat
    OBVIOUS
  <2> HIDE DEF Bad
  <2> QED
    BY <1>1, <2>1, Smallest
<1>3. k \in 0..Levels /\ Levels \in Nat
  BY <1>2, CollectionFacts
<1>4. PICK z \in Points : ~LineShape(Up(p)[k][z], k, z)
  BY <1>2
<1>5. Up(p)[k][z] = IF k = 0 \/ z \in {Volume, Gone} THEN <<z>>
                     ELSE Append(Up(p)[k - 1][p[z].in], z)
  <2>1. Up(p)[k] = LevelStep(Up(p), p, k)
    BY <1>3, UpStep
  <2> QED
    BY <2>1 DEF LevelStep
<1>6. CASE k = 0 \/ z \in {Volume, Gone}
  BY <1>3, <1>4, <1>5, <1>6 DEF LineShape
<1>7. CASE ~(k = 0 \/ z \in {Volume, Gone})
  <2>1. z \in Ids /\ p[z].in \in Points
    BY <1>7, ParentIsPoint DEF Points
  <2>2. k - 1 \in Nat /\ k - 1 <= Levels /\ k - 1 \notin Bad
    BY <1>2, <1>3, <1>7
  <2> HIDE DEF Bad
  <2> DEFINE u == Up(p)[k - 1][p[z].in]
  <2>3. LineShape(u, k - 1, p[z].in)
    BY <2>1, <2>2 DEF Bad
  <2>4. Up(p)[k][z] = Append(u, z)
    BY <1>5, <1>7
  <2> HIDE DEF u
  <2>5. LineShape(Append(u, z), k, z)
    BY <1>3, <2>1, <2>2, <2>3 DEF LineShape
  <2> QED
    BY <1>4, <2>4, <2>5
<1> QED
  BY <1>6, <1>7

\* The root of the volume and what is deleted have nothing above them.
LEMMA LineOfEnds ==
    ASSUME NEW p \in Layouts, NEW n \in 0..Levels, NEW y \in {Volume, Gone}
    PROVE  y \in Points /\ Up(p)[n][y] = <<y>>
<1>1. y \in Points
  BY DEF Points
<1>2. Up(p)[n] = LevelStep(Up(p), p, n)
  BY UpStep
<1> QED
  BY <1>1, <1>2 DEF LevelStep

\* One level of an item.
LEMMA UpOfItem ==
    ASSUME NEW p \in Layouts, NEW n \in 1..Levels, NEW x \in Ids
    PROVE  Up(p)[n][x] = Append(Up(p)[n - 1][p[x].in], x)
<1>1. x \in Points /\ x \notin {Volume, Gone} /\ n \in 0..Levels /\ n # 0
  BY CollectionFacts DEF Points
<1>2. Up(p)[n] = LevelStep(Up(p), p, n)
  BY <1>1, UpStep
<1> QED
  BY <1>1, <1>2 DEF LevelStep

\* Once the volume is reached a further level changes nothing.
LEMMA UpIsStable ==
    ASSUME NEW p \in Layouts, NEW n \in Nat, n < Levels, NEW y \in Points,
           Up(p)[n][y][1] = Volume
    PROVE  Up(p)[n + 1][y] = Up(p)[n][y]
<1> DEFINE Breaks(k, z) == Up(p)[k][z][1] = Volume /\ Up(p)[k + 1][z] # Up(p)[k][z]
           Bad == {k \in Nat : k < Levels /\ \E z \in Points : Breaks(k, z)}
<1>1. SUFFICES ASSUME Bad # {} PROVE FALSE
  OBVIOUS
<1>2. PICK k \in Bad : \A j \in Bad : j >= k
  <2>1. Bad \subseteq Nat
    OBVIOUS
  <2> HIDE DEF Bad
  <2> QED
    BY <1>1, <2>1, Smallest
<1>3. PICK z \in Points : Breaks(k, z)
  BY <1>2
<1>4. k \in Nat /\ k < Levels /\ Levels \in Nat /\ k \in 0..Levels /\ k + 1 \in 1..Levels
      /\ k + 1 \in 0..Levels
  BY <1>2, CollectionFacts
<1>5. z \in Ids
  <2>1. CASE z \in {Volume, Gone}
    BY <1>3, <1>4, <2>1, LineOfEnds
  <2> QED
    BY <2>1 DEF Points
<1>6. Up(p)[k + 1][z] = Append(Up(p)[k][p[z].in], z) /\ p[z].in \in Points
  BY <1>4, <1>5, UpOfItem, ParentIsPoint
<1>7. k # 0
  <2> SUFFICES ASSUME k = 0 PROVE FALSE
    OBVIOUS
  <2>1. Up(p)[0] = LevelStep(Up(p), p, 0)
    BY <1>4, UpStep
  <2>2. Up(p)[0][z] = <<z>>
    BY <2>1 DEF LevelStep
  <2> QED
    BY <1>3, <1>5, <2>2, CollectionFacts
<1>8. Up(p)[k][z] = Append(Up(p)[k - 1][p[z].in], z) /\ k - 1 \in Nat /\ k - 1 \in 0..Levels
  BY <1>4, <1>5, <1>7, UpOfItem
<1>9. Up(p)[k - 1][p[z].in][1] = Volume
  <2> DEFINE u == Up(p)[k - 1][p[z].in]
  <2>1. LineShape(u, k - 1, p[z].in)
    BY <1>6, <1>8, UpShape
  <2>2. Append(u, z)[1] = Volume
    BY <1>3, <1>8
  <2> HIDE DEF u
  <2>3. u[1] = Volume
    BY <1>8, <2>1, <2>2 DEF LineShape
  <2> QED
    BY <2>3 DEF u
<1>10. Up(p)[k][p[z].in] = Up(p)[k - 1][p[z].in]
  <2>1. k - 1 \notin Bad
    BY <1>2, <1>8
  <2>2. (k - 1) + 1 = k /\ k - 1 < Levels
    BY <1>4
  <2> QED
    BY <1>6, <1>8, <1>9, <2>1, <2>2
<1> QED
  BY <1>3, <1>6, <1>8, <1>10

\* An item that the volume reaches is one below its folder.
LEMMA LineOfItem ==
    ASSUME NEW p \in Layouts, NEW x \in Ids, Reaches(p, x)
    PROVE  /\ Reaches(p, p[x].in) /\ p[x].in \in Folders \cup {Volume}
           /\ Line(p, x) = Append(Line(p, p[x].in), x)
<1> DEFINE q == p[x].in
<1>1. Levels \in Nat \ {0}
  <2>1. Levels # 0
    BY CollectionFacts, FS_EmptySet DEF Levels
  <2> QED
    BY <2>1, CollectionFacts
<1>2. q \in Points /\ q \in Folders \cup {Volume, Gone}
  BY ParentIsPoint
<1>3. Line(p, x) = Append(Up(p)[Levels - 1][q], x)
  <2>1. Levels \in 1..Levels
    BY <1>1
  <2> QED
    BY <2>1, UpOfItem DEF Line
<1> HIDE DEF q
<1>4. Up(p)[Levels - 1][q][1] = Volume
  <2> DEFINE u == Up(p)[Levels - 1][q]
  <2>1. Levels - 1 \in 0..Levels
    BY <1>1
  <2>2. LineShape(u, Levels - 1, q)
    BY <1>2, <2>1, UpShape
  <2>3. Append(u, x)[1] = Volume
    BY <1>3 DEF Reaches
  <2> HIDE DEF u
  <2>4. u[1] = Volume
    BY <1>1, <2>2, <2>3 DEF LineShape
  <2> QED
    BY <2>4 DEF u
<1>5. Line(p, q) = Up(p)[Levels - 1][q]
  <2>1. Levels - 1 \in Nat /\ Levels - 1 < Levels /\ (Levels - 1) + 1 = Levels
    BY <1>1
  <2>2. Up(p)[(Levels - 1) + 1][q] = Up(p)[Levels - 1][q]
    BY <1>2, <1>4, <2>1, UpIsStable
  <2> QED
    BY <2>1, <2>2 DEF Line
<1>6. q # Gone
  <2> SUFFICES ASSUME q = Gone PROVE FALSE
    OBVIOUS
  <2>1. Levels \in 0..Levels
    BY <1>1
  <2>2. Line(p, q) = <<q>>
    BY <2>1, LineOfEnds DEF Line
  <2> QED
    BY <1>4, <1>5, <2>2, CollectionFacts
<1>7. Reaches(p, q) /\ q \in Folders \cup {Volume} /\ Line(p, x) = Append(Line(p, q), x)
  BY <1>2, <1>3, <1>4, <1>5, <1>6 DEF Reaches
<1> QED
  BY <1>7 DEF q

\* The line to a point is a sequence of items below one that is none.
LEMMA LineTyped ==
    ASSUME NEW p \in Layouts, NEW x \in Points
    PROVE  /\ Line(p, x) \in Seq(Points) /\ Len(Line(p, x)) \in Nat \ {0}
           /\ Line(p, x)[Len(Line(p, x))] = x
           /\ \A i \in 2..Len(Line(p, x)) : Line(p, x)[i] \in Ids
<1>1. Levels \in 0..Levels /\ Levels \in Nat
  BY CollectionFacts
<1>2. LineShape(Line(p, x), Levels, x)
  BY <1>1, UpShape DEF Line
<1> QED
  BY <1>1, <1>2 DEF LineShape

\* The line to the volume, and to what is deleted, is that point.
LEMMA LineOfEnd ==
    ASSUME NEW p \in Layouts
    PROVE  /\ Line(p, Volume) = <<Volume>> /\ Reaches(p, Volume)
           /\ Line(p, Gone) = <<Gone>> /\ ~Reaches(p, Gone)
<1>1. Levels \in 0..Levels
  BY CollectionFacts
<1> QED
  BY <1>1, LineOfEnds, CollectionFacts DEF Line, Reaches

\* On the line to x every point has its own line as the beginning.
Nested(p, x) ==
    \A i \in 1..Len(Line(p, x)) :
        LET z == Line(p, x)[i]
        IN  /\ z \in Points /\ Reaches(p, z) /\ Len(Line(p, z)) = i
            /\ \A j \in 1..i : Line(p, z)[j] = Line(p, x)[j]

\* Lines from the volume are nested.
LEMMA LinesAreNested ==
    ASSUME NEW p \in Layouts, NEW x \in Points, Reaches(p, x)
    PROVE  Nested(p, x)
<1> DEFINE Bad == {k \in Nat : \E z \in Points :
                       Reaches(p, z) /\ ~Nested(p, z) /\ Len(Line(p, z)) = k}
<1>1. SUFFICES ASSUME Bad # {} PROVE FALSE
  <2> SUFFICES ASSUME ~Nested(p, x) PROVE Bad # {}
    OBVIOUS
  <2> QED
    BY LineTyped
<1>2. PICK k \in Bad : \A j \in Bad : j >= k
  <2>1. Bad \subseteq Nat
    OBVIOUS
  <2> HIDE DEF Bad
  <2> QED
    BY <1>1, <2>1, Smallest
<1>3. PICK z \in Points : Reaches(p, z) /\ ~Nested(p, z) /\ Len(Line(p, z)) = k
  BY <1>2
<1>4. z \in Ids
  <2>1. CASE z = Volume
    <3>1. Line(p, z) = <<z>> /\ Reaches(p, z)
      BY <2>1, LineOfEnd
    <3>2. Len(Line(p, z)) = 1 /\ Line(p, z)[1] = z
      BY <3>1
    <3>3. Nested(p, z)
      BY <1>3, <3>2 DEF Nested
    <3> QED
      BY <1>3, <3>3
  <2>2. CASE z = Gone
    BY <1>3, <2>2, LineOfEnd
  <2> QED
    BY <2>1, <2>2 DEF Points
<1> DEFINE q == p[z].in
<1>5. Reaches(p, q) /\ q \in Points /\ Line(p, z) = Append(Line(p, q), z)
  BY <1>3, <1>4, LineOfItem, ParentIsPoint
<1>6. Line(p, q) \in Seq(Points) /\ Len(Line(p, q)) \in Nat
  BY <1>5, LineTyped
<1>7. Len(Line(p, q)) + 1 = k /\ Len(Line(p, z)) = k
  BY <1>3, <1>5, <1>6
<1>8. Nested(p, q)
  <2>1. Len(Line(p, q)) \notin Bad
    BY <1>2, <1>6, <1>7
  <2> HIDE DEF q
  <2> QED
    BY <1>5, <1>6, <2>1
<1> HIDE DEF q
<1>9. Nested(p, z)
  <2> SUFFICES ASSUME NEW i \in 1..k
               PROVE  /\ Line(p, z)[i] \in Points /\ Reaches(p, Line(p, z)[i])
                      /\ Len(Line(p, Line(p, z)[i])) = i
                      /\ \A j \in 1..i : Line(p, Line(p, z)[i])[j] = Line(p, z)[j]
    BY <1>7 DEF Nested
  <2>1. CASE i = k
    <3>1. Line(p, z)[i] = z
      BY <1>5, <1>6, <1>7, <2>1
    <3> QED
      BY <1>3, <2>1, <3>1
  <2>2. CASE i # k
    <3>1. i \in 1..Len(Line(p, q))
      BY <1>6, <1>7, <2>2
    <3>2. \A j \in 1..i : Line(p, z)[j] = Line(p, q)[j]
      BY <1>5, <1>6, <3>1
    <3>3. Line(p, z)[i] = Line(p, q)[i]
      BY <3>1, <3>2
    <3> QED
      BY <1>8, <3>1, <3>2, <3>3 DEF Nested
  <2> QED
    BY <2>1, <2>2
<1> QED
  BY <1>3, <1>9

\* No item is above its own folder, and a tree has no more levels than items.
LEMMA LineIsBounded ==
    ASSUME NEW p \in Layouts, NEW x \in Ids, Reaches(p, p[x].in)
    PROVE  Len(Line(p, p[x].in)) <= Levels
<1> DEFINE l == Line(p, p[x].in)
           f == [i \in 1..Len(l) |-> IF i = 1 THEN x ELSE l[i]]
<1>1. p[x].in \in Points
  BY ParentIsPoint
<1>2. l \in Seq(Points) /\ Len(l) \in Nat /\ \A i \in 2..Len(l) : l[i] \in Ids
  BY <1>1, LineTyped
<1>3. Nested(p, p[x].in)
  BY <1>1, LinesAreNested
<1>4. \A i \in 1..Len(l) : Len(Line(p, l[i])) = i /\ Reaches(p, l[i])
  BY <1>3 DEF Nested
<1>5. \A i \in 1..Len(l) : l[i] # x
  <2> SUFFICES ASSUME NEW i \in 1..Len(l), l[i] = x PROVE FALSE
    OBVIOUS
  <2>1. Reaches(p, x) /\ Len(Line(p, x)) = i
    BY <1>4
  <2>2. Line(p, x) = Append(l, x)
    BY <2>1, LineOfItem
  <2> HIDE DEF l
  <2>3. Len(Line(p, x)) = Len(l) + 1
    BY <1>2, <2>2
  <2> QED
    BY <1>2, <2>1, <2>3
<1> HIDE DEF l
<1>6. f \in [1..Len(l) -> Ids]
  BY <1>2
<1>7. \A i, j \in 1..Len(l) : f[i] = f[j] => i = j
  <2>1. \A i, j \in 1..Len(l) : l[i] = l[j] => i = j
    BY <1>4
  <2> QED
    BY <1>2, <1>5, <2>1
<1> HIDE DEF f
<1>8. f \in Injection(1..Len(l), Ids)
  BY <1>6, <1>7 DEF Injection, IsInjective
<1>9. Cardinality(1..Len(l)) = Len(l)
  <2>1. 1 \in Int /\ Len(l) \in Int
    BY <1>2
  <2>2. Cardinality(1..Len(l)) = IF 1 > Len(l) THEN 0 ELSE Len(l) - 1 + 1
    BY <2>1, FS_Interval
  <2> QED
    BY <1>2, <2>2
<1>10. Cardinality(1..Len(l)) <= Cardinality(Ids)
  BY <1>8, CollectionFacts, FS_Injection
<1> QED
  BY <1>9, <1>10 DEF Levels, l

\* A line as long as its level is complete at that level.
LEMMA UpIsComplete ==
    ASSUME NEW p \in Layouts, NEW n \in 0..Levels, NEW y \in Points, Reaches(p, y),
           Len(Line(p, y)) <= n + 1
    PROVE  Up(p)[n][y] = Line(p, y)
<1> DEFINE Breaks(k, z) == Reaches(p, z) /\ Len(Line(p, z)) <= k + 1 /\ Up(p)[k][z] # Line(p, z)
           Bad == {k \in Nat : k <= Levels /\ \E z \in Points : Breaks(k, z)}
<1>1. SUFFICES ASSUME Bad # {} PROVE FALSE
  BY CollectionFacts
<1>2. PICK k \in Bad : \A j \in Bad : j >= k
  <2>1. Bad \subseteq Nat
    OBVIOUS
  <2> HIDE DEF Bad
  <2> QED
    BY <1>1, <2>1, Smallest
<1>3. PICK z \in Points : Breaks(k, z)
  BY <1>2
<1>4. k \in Nat /\ k \in 0..Levels /\ Levels \in Nat
  BY <1>2, CollectionFacts
<1>5. z \in Ids
  <2>1. CASE z \in {Volume, Gone}
    BY <1>3, <1>4, <2>1, LineOfEnds, LineOfEnd
  <2> QED
    BY <2>1 DEF Points
<1> DEFINE q == p[z].in
<1>6. Reaches(p, q) /\ q \in Points /\ Line(p, z) = Append(Line(p, q), z)
  BY <1>3, <1>5, LineOfItem, ParentIsPoint
<1>7. Line(p, q) \in Seq(Points) /\ Len(Line(p, q)) \in Nat \ {0}
      /\ Len(Line(p, z)) = Len(Line(p, q)) + 1
  <2> HIDE DEF q
  <2>1. Line(p, q) \in Seq(Points) /\ Len(Line(p, q)) \in Nat \ {0}
    BY <1>6, LineTyped
  <2> QED
    BY <1>6, <2>1
<1>8. k - 1 \in Nat /\ k - 1 <= Levels /\ Len(Line(p, q)) <= (k - 1) + 1 /\ k \in 1..Levels
  BY <1>3, <1>4, <1>7
<1>9. Up(p)[k - 1][q] = Line(p, q)
  <2>1. k - 1 \notin Bad
    BY <1>2, <1>8
  <2> HIDE DEF q
  <2> QED
    BY <1>6, <1>8, <2>1
<1>10. Up(p)[k][z] = Append(Up(p)[k - 1][q], z)
  BY <1>5, <1>8, UpOfItem
<1> QED
  BY <1>3, <1>6, <1>9, <1>10

\* What lies in a folder that the volume reaches is reached through it.
LEMMA LineBelow ==
    ASSUME NEW p \in Layouts, NEW x \in Ids, Reaches(p, p[x].in)
    PROVE  Reaches(p, x) /\ Line(p, x) = Append(Line(p, p[x].in), x)
<1> DEFINE q == p[x].in
           l == Line(p, q)
<1>1. q \in Points /\ Len(l) <= Levels /\ l \in Seq(Points) /\ Len(l) \in Nat \ {0}
  BY LineIsBounded, ParentIsPoint, LineTyped
<1>2. Levels \in 1..Levels /\ Levels - 1 \in 0..Levels /\ Len(l) <= (Levels - 1) + 1
  BY <1>1, CollectionFacts
<1> HIDE DEF l
<1>3. Up(p)[Levels - 1][q] = l
  BY <1>1, <1>2, UpIsComplete DEF l
<1>4. Line(p, x) = Append(l, x)
  BY <1>2, <1>3, UpOfItem DEF Line
<1>5. Line(p, x)[1] = l[1]
  BY <1>1, <1>4
<1> QED
  BY <1>4, <1>5 DEF Reaches, l

\* Where nothing on the way to x was moved, the way is the same.
LEMMA LineUnmoved ==
    ASSUME NEW p \in Layouts, NEW r \in Layouts, NEW x \in Points, Reaches(p, x),
           \A i \in 1..Len(Line(p, x)) :
               Line(p, x)[i] \in Ids => r[Line(p, x)[i]] = p[Line(p, x)[i]]
    PROVE  Line(r, x) = Line(p, x)
<1> DEFINE Same(z) == \A i \in 1..Len(Line(p, z)) :
                          Line(p, z)[i] \in Ids => r[Line(p, z)[i]] = p[Line(p, z)[i]]
           Breaks(z) == Reaches(p, z) /\ Same(z) /\ Line(r, z) # Line(p, z)
           Bad == {k \in Nat : \E z \in Points : Breaks(z) /\ Len(Line(p, z)) = k}
<1>1. SUFFICES ASSUME Bad # {} PROVE FALSE
  <2> SUFFICES ASSUME Line(r, x) # Line(p, x) PROVE Bad # {}
    OBVIOUS
  <2>1. Breaks(x) /\ Len(Line(p, x)) \in Nat
    BY LineTyped
  <2> HIDE DEF Breaks
  <2> QED
    BY <2>1
<1>2. PICK k \in Bad : \A j \in Bad : j >= k
  <2>1. Bad \subseteq Nat
    OBVIOUS
  <2> HIDE DEF Bad
  <2> QED
    BY <1>1, <2>1, Smallest
<1>3. PICK z \in Points : Breaks(z) /\ Len(Line(p, z)) = k
  BY <1>2
<1>4. z \in Ids
  BY <1>3, LineOfEnd DEF Points
<1> DEFINE q == p[z].in
<1>5. Reaches(p, q) /\ q \in Points /\ Line(p, z) = Append(Line(p, q), z)
  BY <1>3, <1>4, LineOfItem, ParentIsPoint
<1> HIDE DEF q, Bad
<1>6. Line(p, q) \in Seq(Points) /\ Len(Line(p, q)) \in Nat
  BY <1>5, LineTyped
<1>7. Len(Line(p, z)) = Len(Line(p, q)) + 1
      /\ Line(p, z)[Len(Line(p, q)) + 1] = z
      /\ \A i \in 1..Len(Line(p, q)) : Line(p, z)[i] = Line(p, q)[i]
  BY <1>5, <1>6
<1>8. Same(q) /\ r[z] = p[z]
  <2>1. \A i \in 1..Len(Line(p, q)) : i \in 1..Len(Line(p, z))
    BY <1>6, <1>7
  <2>2. Len(Line(p, q)) + 1 \in 1..Len(Line(p, z))
    BY <1>6, <1>7
  <2> QED
    BY <1>3, <1>4, <1>7, <2>1, <2>2
<1>9. Line(r, q) = Line(p, q)
  <2>1. Len(Line(p, q)) \notin Bad
    <3>1. Len(Line(p, q)) < k
      BY <1>3, <1>6, <1>7
    <3> QED
      BY <1>2, <1>3, <1>6, <3>1
  <2>2. ~Breaks(q)
    BY <1>5, <1>6, <2>1 DEF Bad
  <2> QED
    BY <1>5, <1>8, <2>2
<1>10. Line(r, z) = Append(Line(r, q), z)
  <2>1. Reaches(r, r[z].in) /\ r[z].in = q
    BY <1>5, <1>8, <1>9 DEF Reaches, q
  <2> QED
    BY <1>4, <2>1, LineBelow
<1> QED
  BY <1>3, <1>5, <1>9, <1>10

-----------------------------------------------------------------------------
(* Paths.                                                                  *)

\* The names on the line to x, in the layout p.
Names == ToSet(NameOrder) \cup {Gone}
PathTo(p, x) == [i \in 1..(Len(Line(p, x)) - 1) |-> p[Line(p, x)[i + 1]].as]

\* CanonicalPath and Attached, before and after a step.
LEMMA PathIsCanonical ==
    ASSUME NEW x
    PROVE  /\ CanonicalPath(x) = PathTo(place, x) /\ CanonicalPath(x)' = PathTo(place', x)
           /\ Attached(x) = Reaches(place, x) /\ Attached(x)' = Reaches(place', x)
<1>1. Ancestry(x) = Line(place, x) /\ Ancestry(x)' = Line(place', x)
  BY AncestryIsLine
<1>2. CanonicalPath(x) = PathTo(place, x) /\ CanonicalPath(x)' = PathTo(place', x)
  BY <1>1 DEF CanonicalPath, PathTo
<1>3. Attached(x) = Reaches(place, x) /\ Attached(x)' = Reaches(place', x)
  BY <1>1 DEF Attached, Reaches
<1> QED
  BY <1>2, <1>3

\* A path consists of names.
LEMMA PathTyped ==
    ASSUME NEW p \in Layouts, NEW x \in Points
    PROVE  PathTo(p, x) \in Seq(Names) /\ Len(PathTo(p, x)) = Len(Line(p, x)) - 1
<1>1. Len(Line(p, x)) - 1 \in Nat /\ Len(Line(p, x)) \in Nat
      /\ \A i \in 2..Len(Line(p, x)) : Line(p, x)[i] \in Ids
  BY LineTyped
<1>2. \A y \in Ids : p[y].as \in Names
  BY DEF Layouts, Place, Nowhere, Names
<1>3. \A i \in 1..(Len(Line(p, x)) - 1) : p[Line(p, x)[i + 1]].as \in Names
  BY <1>1, <1>2
<1> QED
  BY <1>1, <1>3 DEF PathTo

\* What was appended is the last.
LEMMA FrontOfAppend ==
    ASSUME NEW S, NEW s \in Seq(S), NEW e \in S
    PROVE  Front(Append(s, e)) = s /\ Last(Append(s, e)) = e
<1> DEFINE a == Append(s, e)
           b == SubSeq(a, 1, Len(s))
<1>1. a \in Seq(S) /\ Len(a) = Len(s) + 1 /\ a[Len(s) + 1] = e /\ Len(s) \in Nat
      /\ \A i \in 1..Len(s) : a[i] = s[i]
  OBVIOUS
<1> HIDE DEF a
<1>2. b \in Seq(S) /\ Len(b) = Len(s) /\ \A i \in 1..Len(s) : b[i] = a[i]
  BY <1>1
<1> HIDE DEF b
<1>3. b = s
  BY <1>1, <1>2, SeqEqual
<1>4. Front(a) = b /\ Last(a) = e
  BY <1>1 DEF Front, Last, b
<1> QED
  BY <1>3, <1>4 DEF a

\* The path of an item is that of its folder with its own name.
LEMMA PathOfItem ==
    ASSUME NEW p \in Layouts, NEW x \in Ids, Reaches(p, x)
    PROVE  /\ PathTo(p, x) = Append(PathTo(p, p[x].in), p[x].as)
           /\ Front(PathTo(p, x)) = PathTo(p, p[x].in) /\ Last(PathTo(p, x)) = p[x].as
<1> DEFINE q == p[x].in
           l == Line(p, q)
<1>1. q \in Points /\ Line(p, x) = Append(l, x) /\ p[x].as \in Names
  BY LineOfItem, ParentIsPoint DEF Layouts, Place, Nowhere, Names
<1>2. l \in Seq(Points) /\ Len(l) \in Nat \ {0}
  BY <1>1, LineTyped
<1>3. PathTo(p, q) \in Seq(Names) /\ Len(PathTo(p, q)) = Len(l) - 1
      /\ PathTo(p, q) = [i \in 1..(Len(l) - 1) |-> p[l[i + 1]].as]
  BY <1>1, PathTyped DEF PathTo
<1>4. PathTo(p, x) = [i \in 1..(Len(Append(l, x)) - 1) |-> p[Append(l, x)[i + 1]].as]
  BY <1>1 DEF PathTo
<1> HIDE DEF l
<1>5. Len(Append(l, x)) - 1 = Len(l) /\ Append(l, x)[Len(l) + 1] = x
      /\ \A i \in 1..(Len(l) - 1) : Append(l, x)[i + 1] = l[i + 1]
  BY <1>2
<1>6. PathTo(p, x) = Append(PathTo(p, q), p[x].as)
  <2> DEFINE a == PathTo(p, x)
             b == Append(PathTo(p, q), p[x].as)
  <2>1. DOMAIN a = 1..Len(l) /\ \A i \in 1..Len(l) : a[i] = p[Append(l, x)[i + 1]].as
    BY <1>4, <1>5
  <2>2. b \in Seq(Names) /\ Len(b) = Len(l) /\ b[Len(l)] = p[x].as
        /\ \A i \in 1..(Len(l) - 1) : b[i] = p[l[i + 1]].as
    BY <1>1, <1>2, <1>3
  <2>3. a = [i \in DOMAIN a |-> a[i]]
    BY <1>4
  <2> HIDE DEF a, b
  <2>4. DOMAIN b = 1..Len(l)
    BY <2>2
  <2>5. \A i \in 1..Len(l) : a[i] = b[i]
    <3> SUFFICES ASSUME NEW i \in 1..Len(l) PROVE a[i] = b[i]
      OBVIOUS
    <3>1. CASE i = Len(l)
      BY <1>2, <1>5, <2>1, <2>2, <3>1
    <3>2. CASE i # Len(l)
      <4>1. i \in 1..(Len(l) - 1)
        BY <1>2, <3>2
      <4> QED
        BY <1>5, <2>1, <2>2, <4>1
    <3> QED
      BY <3>1, <3>2
  <2>6. b = [i \in DOMAIN b |-> b[i]]
    BY <2>2
  <2> QED
    BY <2>1, <2>3, <2>4, <2>5, <2>6 DEF a, b
<1> HIDE DEF q
<1>7. Front(Append(PathTo(p, q), p[x].as)) = PathTo(p, q)
      /\ Last(Append(PathTo(p, q), p[x].as)) = p[x].as
  BY <1>1, <1>3, FrontOfAppend
<1> QED
  BY <1>6, <1>7 DEF q

\* A path as something opens it: the point after each name.
IsWalk(at, path, m) ==
    at = [n \in 0..m |-> IF n = 0 THEN Volume ELSE Followed(Entry(at[n - 1], path[n]))]
Walk(path) ==
    CHOOSE at : at = [n \in 0..Len(path) |->
                        IF n = 0 THEN Volume ELSE Followed(Entry(at[n - 1], path[n]))]

\* Every path can be walked.
LEMMA WalkExists ==
    ASSUME NEW path, NEW m \in Nat
    PROVE  \E at : IsWalk(at, path, m)
<1> DEFINE Bad == {k \in Nat : ~\E at : IsWalk(at, path, k)}
<1>1. SUFFICES ASSUME Bad # {} PROVE FALSE
  OBVIOUS
<1>2. PICK k \in Bad : \A j \in Bad : j >= k
  <2>1. Bad \subseteq Nat
    OBVIOUS
  <2> HIDE DEF Bad
  <2> QED
    BY <1>1, <2>1, Smallest
<1>3. CASE k = 0
  <2> DEFINE f == [n \in 0..0 |-> Volume]
  <2>1. IsWalk(f, path, 0)
    <3>1. f = [n \in 0..0 |-> IF n = 0 THEN Volume ELSE Followed(Entry(f[n - 1], path[n]))]
      OBVIOUS
    <3> HIDE DEF f
    <3> QED
      BY <3>1 DEF IsWalk
  <2> QED
    BY <1>2, <1>3, <2>1
<1>4. CASE k # 0
  <2>1. k \in Nat /\ k - 1 \in Nat /\ k - 1 \notin Bad
    BY <1>2, <1>4
  <2>2. PICK g : IsWalk(g, path, k - 1)
    BY <2>1
  <2> DEFINE e(n) == Followed(Entry(g[n - 1], path[n]))
             f == [n \in 0..k |-> IF n = k THEN e(k) ELSE g[n]]
  <2>3. \A n \in 0..(k - 1) : f[n] = g[n] /\ g[n] = IF n = 0 THEN Volume ELSE e(n)
    BY <2>1, <2>2 DEF IsWalk
  <2>4. f[k] = e(k)
    BY <2>1
  <2>5. f = [n \in 0..k |-> f[n]]
    OBVIOUS
  <2> HIDE DEF f
  <2>6. \A n \in 0..k : f[n] = IF n = 0 THEN Volume ELSE Followed(Entry(f[n - 1], path[n]))
    <3> SUFFICES ASSUME NEW n \in 0..k
                 PROVE  f[n] = IF n = 0 THEN Volume ELSE Followed(Entry(f[n - 1], path[n]))
      OBVIOUS
    <3>1. CASE n = 0
      BY <2>1, <2>3, <3>1
    <3>2. CASE n # 0
      <4>1. f[n - 1] = g[n - 1]
        BY <2>1, <2>3, <3>2
      <4>2. f[n] = e(n)
        <5>1. n = k \/ n \in 0..(k - 1)
          BY <2>1
        <5> QED
          BY <2>3, <2>4, <3>2, <5>1
      <4> QED
        BY <3>2, <4>1, <4>2
    <3> QED
      BY <3>1, <3>2
  <2>7. IsWalk(f, path, k)
    BY <2>5, <2>6 DEF IsWalk
  <2> QED
    BY <1>2, <2>7
<1> QED
  BY <1>3, <1>4

\* Resolve walks the path to its end.
LEMMA WalkStep ==
    ASSUME NEW path, Len(path) \in Nat
    PROVE  /\ Resolve(path) = Walk(path)[Len(path)] /\ Walk(path)[0] = Volume
           /\ \A n \in 1..Len(path) :
                  Walk(path)[n] = Followed(Entry(Walk(path)[n - 1], path[n]))
<1>1. \E at : IsWalk(at, path, Len(path))
  BY WalkExists
<1>2. IsWalk(Walk(path), path, Len(path))
  BY <1>1, Zenon DEF Walk, IsWalk
<1>3. Resolve(path) = Walk(path)[Len(path)]
  BY DEF Resolve, Walk
<1> HIDE DEF Walk
<1> QED
  BY <1>2, <1>3 DEF IsWalk

\* Resolving one more name.
LEMMA ResolveAppend ==
    ASSUME NEW S, NEW path \in Seq(S), NEW name \in S
    PROVE  /\ Resolve(<<>>) = Volume
           /\ Resolve(Append(path, name)) = Followed(Entry(Resolve(path), name))
<1> DEFINE longer == Append(path, name)
           w == Walk(path)
           v == Walk(longer)
<1>1. Resolve(<<>>) = Volume
  <2>1. Len(<<>>) = 0
    OBVIOUS
  <2> QED
    BY <2>1, WalkStep
<1>2. /\ Len(path) \in Nat /\ Len(longer) = Len(path) + 1 /\ Len(longer) \in Nat
      /\ longer[Len(path) + 1] = name /\ \A i \in 1..Len(path) : longer[i] = path[i]
  OBVIOUS
<1> HIDE DEF longer
<1>3. /\ Resolve(path) = w[Len(path)] /\ w[0] = Volume
      /\ \A n \in 1..Len(path) : w[n] = Followed(Entry(w[n - 1], path[n]))
  BY <1>2, WalkStep
<1>4. /\ Resolve(longer) = v[Len(longer)] /\ v[0] = Volume
      /\ \A n \in 1..Len(longer) : v[n] = Followed(Entry(v[n - 1], longer[n]))
  BY <1>2, WalkStep
<1> HIDE DEF w, v
<1>5. \A n \in 0..Len(path) : v[n] = w[n]
  <2> DEFINE Bad == {k \in Nat : k <= Len(path) /\ v[k] # w[k]}
  <2>1. SUFFICES ASSUME Bad # {} PROVE FALSE
    BY <1>2
  <2>2. PICK k \in Bad : \A j \in Bad : j >= k
    <3>1. Bad \subseteq Nat
      OBVIOUS
    <3> HIDE DEF Bad
    <3> QED
      BY <2>1, <3>1, Smallest
  <2>3. k # 0 /\ k \in Nat
    BY <1>3, <1>4, <2>2
  <2>4. k - 1 \notin Bad /\ k - 1 \in Nat /\ k - 1 <= Len(path)
    BY <1>2, <2>2, <2>3
  <2>5. v[k - 1] = w[k - 1]
    BY <2>4
  <2>6. k \in 1..Len(path) /\ k \in 1..Len(longer)
    BY <1>2, <2>2, <2>3
  <2> QED
    BY <1>2, <1>3, <1>4, <2>2, <2>5, <2>6
<1>6. v[Len(path) + 1] = Followed(Entry(v[Len(path)], longer[Len(path) + 1]))
  BY <1>2, <1>4
<1>7. v[Len(path)] = w[Len(path)]
  BY <1>2, <1>5
<1>8. Resolve(longer) = Followed(Entry(Resolve(path), name))
  BY <1>2, <1>3, <1>4, <1>6, <1>7
<1> QED
  BY <1>1, <1>8 DEF longer

\* A volume as the program can find it: the scenario is one of the constants'.
VolumeInv ==
    /\ scenario \in DOMAIN Scenarios /\ place \in Layouts /\ SingleNames(place)

\* What an entry is, and what following it gives.
LEMMA EntryFacts ==
    ASSUME VolumeInv, NEW g, NEW name
    PROVE  /\ Entry(g, name) \in Ids \cup {Missing}
           /\ Entry(g, name) \in Ids => place[Entry(g, name)] = [in |-> g, as |-> name]
           /\ \A x \in Ids : place[x] = [in |-> g, as |-> name] /\ g # Gone => Entry(g, name) = x
<1> DEFINE at == {x \in Ids : place[x].in = g /\ place[x].as = name}
<1>0. \A x \in Ids : x \in at <=> place[x] = [in |-> g, as |-> name]
  <2>1. \A x \in Ids : place[x] = [in |-> place[x].in, as |-> place[x].as]
    BY DEF VolumeInv, Layouts, Place, Nowhere
  <2>2. \A x \in Ids : place[x] = [in |-> g, as |-> name] => place[x].in = g /\ place[x].as = name
    OBVIOUS
  <2> QED
    BY <2>1, <2>2
<1>1. Entry(g, name) = IF at = {} THEN Missing ELSE CHOOSE x \in at : TRUE
  BY DEF Entry
<1>4. \A x \in at : x \in Ids
  OBVIOUS
<1> HIDE DEF at
<1>2. CASE at = {}
  BY <1>0, <1>1, <1>2, CollectionFacts
<1>3. CASE at # {}
  <2>1. Entry(g, name) \in at
    <3>1. Entry(g, name) = CHOOSE x \in at : TRUE
      BY <1>1, <1>3
    <3> QED
      BY <1>3, <3>1
  <2>2. \A x \in at : g # Gone => x = Entry(g, name)
    <3> SUFFICES ASSUME NEW x \in at, g # Gone PROVE x = Entry(g, name)
      OBVIOUS
    <3>1. place[x] = place[Entry(g, name)] /\ place[x] # Nowhere
      BY <1>0, <1>4, <2>1 DEF Nowhere
    <3> QED
      BY <1>4, <2>1, <3>1 DEF VolumeInv, SingleNames
  <2> QED
    BY <1>0, <1>4, <2>1, <2>2
<1> QED
  BY <1>2, <1>3

\* Following a junction leads to a folder that exists, or nowhere.
LEMMA FollowedFacts ==
    ASSUME VolumeInv, NEW x \in Ids \cup {Missing}, x \in Ids => Reaches(place, x)
    PROVE  /\ Followed(x) \in Ids \cup {Missing}
           /\ Followed(x) \in Ids => Reaches(place, Followed(x))
           /\ x \notin Junctions => Followed(x) = x
<1>1. CASE x \notin Junctions
  BY <1>1 DEF Followed
<1>2. CASE x \in Junctions
  <2>1. Target \in [Junctions -> Folders]
    BY CollectionAssumption DEF VolumeInv, Target, world
  <2>2. Target[x] \in Ids
    BY <1>2, <2>1, CollectionFacts
  <2>3. Attached(Target[x]) = Reaches(place, Target[x])
    BY PathIsCanonical
  <2> QED
    BY <1>2, <2>2, <2>3, CollectionFacts DEF Followed
<1> QED
  BY <1>1, <1>2

\* What a path resolves to is reached from the volume, unless it is nothing.
LEMMA ResolvedIsReached ==
    ASSUME VolumeInv, NEW path, Len(path) \in Nat
    PROVE  /\ Resolve(path) \in Ids \cup {Volume, Missing}
           /\ Resolve(path) # Missing => Reaches(place, Resolve(path))
<1> DEFINE w == Walk(path)
           Fine(x) == x \in Ids \cup {Volume, Missing} /\ (x # Missing => Reaches(place, x))
           Bad == {k \in Nat : k <= Len(path) /\ ~Fine(w[k])}
<1>1. /\ Resolve(path) = w[Len(path)] /\ w[0] = Volume
      /\ \A n \in 1..Len(path) : w[n] = Followed(Entry(w[n - 1], path[n]))
  BY WalkStep
<1> HIDE DEF w
<1>2. SUFFICES ASSUME Bad # {} PROVE FALSE
  BY <1>1
<1>3. PICK k \in Bad : \A j \in Bad : j >= k
  <2>1. Bad \subseteq Nat
    OBVIOUS
  <2> HIDE DEF Bad
  <2> QED
    BY <1>2, <2>1, Smallest
<1>4. place \in Layouts
  BY DEF VolumeInv
<1>5. k # 0 /\ k \in Nat
  <2>1. Fine(Volume)
    BY <1>4, LineOfEnd
  <2> QED
    BY <1>1, <1>3, <2>1
<1> DEFINE g == w[k - 1]
           e == Entry(g, path[k])
<1>6. Fine(g) /\ k \in 1..Len(path)
  <2>1. k - 1 \notin Bad /\ k - 1 \in Nat /\ k - 1 <= Len(path)
    BY <1>3, <1>5
  <2> QED
    BY <1>3, <1>5, <2>1
<1>7. w[k] = Followed(e)
  BY <1>1, <1>6
<1> HIDE DEF g
<1>8. e \in Ids \cup {Missing} /\ (e \in Ids => place[e] = [in |-> g, as |-> path[k]])
  BY EntryFacts
<1> HIDE DEF e
<1>9. e \in Ids => Reaches(place, e)
  <2> SUFFICES ASSUME e \in Ids PROVE Reaches(place, e)
    OBVIOUS
  <2>1. place[e].in = g /\ g \in Folders \cup {Volume, Gone}
    BY <1>4, <1>8, ParentIsPoint
  <2>2. g # Missing
    BY <2>1, CollectionFacts
  <2>3. Reaches(place, place[e].in)
    BY <1>6, <2>1, <2>2
  <2> QED
    BY <1>4, <2>3, LineBelow
<1>10. Fine(Followed(e))
  <2>1. /\ Followed(e) \in Ids \cup {Missing}
        /\ Followed(e) \in Ids => Reaches(place, Followed(e))
    BY <1>8, <1>9, FollowedFacts
  <2> QED
    BY <2>1
<1> QED
  BY <1>3, <1>7, <1>10

\* The path of a folder or file that the volume reaches leads to it.
LEMMA PathLeadsBack ==
    ASSUME VolumeInv, NEW x \in Folders \cup Files \cup {Volume}, Reaches(place, x)
    PROVE  Resolve(PathTo(place, x)) = x
<1> DEFINE Breaks(z) == /\ z \in Folders \cup Files \cup {Volume} /\ Reaches(place, z)
                        /\ Resolve(PathTo(place, z)) # z
           Bad == {k \in Nat : \E z \in Points : Breaks(z) /\ Len(Line(place, z)) = k}
<1>0. place \in Layouts /\ Folders \cup Files \cup {Volume} \subseteq Points
  BY CollectionFacts DEF VolumeInv, Points
<1>1. SUFFICES ASSUME Bad # {} PROVE FALSE
  <2> SUFFICES ASSUME Resolve(PathTo(place, x)) # x PROVE Bad # {}
    OBVIOUS
  <2>1. Breaks(x) /\ x \in Points /\ Len(Line(place, x)) \in Nat
    BY <1>0, LineTyped
  <2> HIDE DEF Breaks
  <2> QED
    BY <2>1
<1>2. PICK k \in Bad : \A j \in Bad : j >= k
  <2>1. Bad \subseteq Nat
    OBVIOUS
  <2> HIDE DEF Bad
  <2> QED
    BY <1>1, <2>1, Smallest
<1>3. PICK z \in Points : Breaks(z) /\ Len(Line(place, z)) = k
  BY <1>2
<1>4. z # Volume
  <2> SUFFICES ASSUME z = Volume PROVE FALSE
    OBVIOUS
  <2>1. Line(place, z) = <<z>> /\ PathTo(place, z) \in Seq(Names)
        /\ Len(PathTo(place, z)) = Len(Line(place, z)) - 1
    BY <1>0, LineOfEnd, PathTyped
  <2>2. PathTo(place, z) = <<>>
    BY <2>1
  <2>3. Resolve(<<>>) = Volume
    <3>1. Len(<<>>) = 0
      OBVIOUS
    <3> QED
      BY <3>1, WalkStep
  <2> QED
    BY <1>3, <2>2, <2>3
<1>5. z \in Ids /\ z \notin Junctions
  BY <1>3, <1>4, CollectionFacts
<1> DEFINE q == place[z].in
<1>6. /\ Reaches(place, q) /\ q \in Folders \cup {Volume}
      /\ Line(place, z) = Append(Line(place, q), z)
  BY <1>0, <1>3, <1>5, LineOfItem
<1>7. PathTo(place, z) = Append(PathTo(place, q), place[z].as)
  BY <1>0, <1>3, <1>5, PathOfItem
<1>8. place[z] = [in |-> q, as |-> place[z].as] /\ place[z].as \in Names
  BY <1>0, <1>5 DEF Layouts, Place, Nowhere, Names
<1> HIDE DEF q, Bad
<1>9. q \in Points /\ q # Gone
  BY <1>0, <1>6, CollectionFacts
<1>10. Len(Line(place, q)) \in Nat /\ Len(Line(place, q)) < k
  <2>1. Line(place, q) \in Seq(Points) /\ Len(Line(place, q)) \in Nat
    BY <1>0, <1>9, LineTyped
  <2> QED
    BY <1>3, <1>6, <2>1
<1>11. Resolve(PathTo(place, q)) = q
  <2>1. Len(Line(place, q)) \notin Bad
    BY <1>2, <1>10 DEF Bad
  <2>2. ~Breaks(q)
    BY <1>9, <1>10, <2>1 DEF Bad
  <2> QED
    BY <1>6, <2>2
<1>12. Entry(q, place[z].as) = z
  BY <1>5, <1>8, <1>9, EntryFacts
<1>13. Resolve(PathTo(place, z)) = Followed(Entry(q, place[z].as))
  <2>1. PathTo(place, q) \in Seq(Names)
    BY <1>0, <1>9, PathTyped
  <2> QED
    BY <1>7, <1>8, <1>11, <2>1, ResolveAppend
<1>14. Followed(z) = z
  BY <1>5 DEF Followed
<1> QED
  BY <1>3, <1>12, <1>13, <1>14

\* What a proof says: the item is there, is of the kind, and has that path.
LEMMA InspectedFacts ==
    ASSUME VolumeInv, NEW path, Len(path) \in Nat, NEW kind, kind \subseteq Folders \cup Files,
           NEW inspected \in Inspected(path, kind)
    PROVE  /\ inspected = [id |-> inspected.id, path |-> inspected.path]
           /\ inspected.id \in kind /\ inspected.id \in Ids
           /\ inspected.path = PathTo(place, inspected.id)
           /\ Reaches(place, inspected.id)
<1> DEFINE x == Resolve(path)
<1>1. x \in kind /\ inspected = [id |-> x, path |-> CanonicalPath(x)]
  BY DEF Inspected
<1>2. x \in Ids /\ x # Missing
  BY <1>1, CollectionFacts
<1>3. Reaches(place, x) /\ CanonicalPath(x) = PathTo(place, x)
  BY <1>2, ResolvedIsReached, PathIsCanonical
<1> QED
  BY <1>1, <1>2, <1>3

\* As many different ranks as there are elements: every rank is somebody's.
LEMMA RanksAreTaken ==
    ASSUME NEW I, IsFiniteSet(I), NEW r \in [I -> Nat],
           \A i \in I : r[i] < Cardinality(I), \A i, j \in I : r[i] = r[j] => i = j
    PROVE  \A k \in 1..Cardinality(I) : \E i \in I : r[i] = k - 1
<1> DEFINE c == Cardinality(I)
           f == [i \in I |-> r[i] + 1]
<1>1. c \in Nat
  BY FS_CardinalityType
<1>2. f \in [I -> 1..c] /\ \A i, j \in I : f[i] = f[j] => i = j
  BY <1>1
<1>3. \A i \in I : f[i] = r[i] + 1
  OBVIOUS
<1> HIDE DEF f, c
<1>4. f \in Injection(I, 1..c)
  BY <1>2 DEF Injection, IsInjective
<1>5. IsFiniteSet(1..c) /\ Cardinality(1..c) = c
  BY <1>1, FS_Interval
<1>6. f \in Surjection(I, 1..c)
  BY <1>1, <1>4, <1>5, FS_Injection DEF c
<1>7. \A k \in 1..c : \E i \in I : f[i] = k
  BY <1>6 DEF Surjection
<1> QED
  BY <1>1, <1>3, <1>7 DEF c

\* Counting the smaller elements ranks a set of positions.
LEMMA Positions ==
    ASSUME NEW n \in Nat, NEW I \in SUBSET (1..n)
    PROVE  /\ IsFiniteSet(I) /\ Cardinality(I) \in Nat
           /\ \A k \in 1..Cardinality(I) : Nth(I, k) \in I
           /\ \A i \in I : \E k \in 1..Cardinality(I) : Nth(I, k) = i
           /\ \A k, m \in 1..Cardinality(I) : k < m => Nth(I, k) < Nth(I, m)
<1> DEFINE c == Cardinality(I)
           Below(i) == {j \in I : j < i}
           r == [i \in I |-> Cardinality(Below(i))]
<1>1. IsFiniteSet(I) /\ c \in Nat
  <2>1. IsFiniteSet(1..n)
    BY FS_Interval
  <2>2. IsFiniteSet(I)
    BY <2>1, FS_Subset
  <2> QED
    BY <2>2, FS_CardinalityType
<1>2. \A i \in I : IsFiniteSet(Below(i)) /\ Cardinality(Below(i)) \in Nat /\ Cardinality(Below(i)) < c
  <2> SUFFICES ASSUME NEW i \in I
               PROVE  IsFiniteSet(Below(i)) /\ Cardinality(Below(i)) \in Nat /\ Cardinality(Below(i)) < c
    OBVIOUS
  <2>1. Below(i) \in SUBSET I /\ i \notin Below(i) /\ Below(i) # I
    OBVIOUS
  <2> HIDE DEF Below
  <2>2. /\ IsFiniteSet(Below(i)) /\ Cardinality(Below(i)) <= c
        /\ Cardinality(I) = Cardinality(Below(i)) => I = Below(i)
    BY <1>1, <2>1, FS_Subset
  <2>3. Cardinality(Below(i)) \in Nat
    BY <2>2, FS_CardinalityType
  <2> QED
    BY <1>1, <2>1, <2>2, <2>3
<1>3. \A i, j \in I : i < j => Cardinality(Below(i)) < Cardinality(Below(j))
  <2> SUFFICES ASSUME NEW i \in I, NEW j \in I, i < j
               PROVE  Cardinality(Below(i)) < Cardinality(Below(j))
    OBVIOUS
  <2>0. \A k \in I : k \in Int
    OBVIOUS
  <2>1. Below(i) \in SUBSET Below(j)
    <3>1. ASSUME NEW k \in Below(i) PROVE k \in Below(j)
      <4>1. k \in I /\ k < i
        OBVIOUS
      <4>2. k < j
        BY <2>0, <4>1
      <4> QED
        BY <4>1, <4>2
    <3> QED
      BY <3>1, Zenon
  <2>2. i \in Below(j) /\ i \notin Below(i)
    OBVIOUS
  <2>3. IsFiniteSet(Below(j)) /\ Cardinality(Below(i)) \in Nat /\ Cardinality(Below(j)) \in Nat
    BY <1>2
  <2> HIDE DEF Below
  <2>4. /\ Cardinality(Below(i)) <= Cardinality(Below(j))
        /\ Cardinality(Below(j)) = Cardinality(Below(i)) => Below(j) = Below(i)
    BY <2>1, <2>3, FS_Subset
  <2> QED
    BY <2>2, <2>3, <2>4
<1>4. r \in [I -> Nat] /\ \A i \in I : r[i] = Cardinality(Below(i)) /\ r[i] < c
  BY <1>2
<1> HIDE DEF r
<1>5. \A i, j \in I : r[i] = r[j] => i = j
  <2> HIDE DEF Below
  <2>1. \A i, j \in I : i \in Int /\ j \in Int
    OBVIOUS
  <2> QED
    BY <1>2, <1>3, <1>4, <2>1
<1>6. \A k \in 1..c : \E i \in I : r[i] = k - 1
  BY <1>1, <1>4, <1>5, RanksAreTaken
<1>7. \A i \in I : Cardinality({j \in I : j < i}) = r[i]
  BY <1>4
<1> HIDE DEF Below, c
<1>8. \A k \in 1..c : Nth(I, k) \in I /\ r[Nth(I, k)] = k - 1
  <2> SUFFICES ASSUME NEW k \in 1..c PROVE Nth(I, k) \in I /\ r[Nth(I, k)] = k - 1
    OBVIOUS
  <2>1. \E i \in I : Cardinality({j \in I : j < i}) = k - 1
    BY <1>6, <1>7
  <2>2. Nth(I, k) \in I /\ Cardinality({j \in I : j < Nth(I, k)}) = k - 1
    BY <2>1, Zenon DEF Nth
  <2> QED
    BY <1>7, <2>2
<1>9. \A i \in I : \E k \in 1..c : Nth(I, k) = i
  <2> SUFFICES ASSUME NEW i \in I PROVE \E k \in 1..c : Nth(I, k) = i
    OBVIOUS
  <2>1. r[i] + 1 \in 1..c /\ (r[i] + 1) - 1 = r[i]
    BY <1>1, <1>4
  <2>2. Nth(I, r[i] + 1) = i
    BY <1>5, <1>8, <2>1
  <2> QED
    BY <2>1, <2>2
<1>10. \A k, m \in 1..c : k < m => Nth(I, k) < Nth(I, m)
  <2> SUFFICES ASSUME NEW k \in 1..c, NEW m \in 1..c, k < m PROVE Nth(I, k) < Nth(I, m)
    OBVIOUS
  <2> DEFINE i == Nth(I, k)
             j == Nth(I, m)
  <2>1. i \in I /\ j \in I /\ r[i] = k - 1 /\ r[j] = m - 1
    BY <1>8
  <2> HIDE DEF i, j
  <2>2. i \in Int /\ j \in Int
    BY <2>1
  <2>3. \A a, b \in I : a < b => r[a] < r[b]
    BY <1>3, <1>4
  <2>4. ~(j < i) /\ i # j
    BY <2>1, <2>3
  <2> QED
    BY <2>2, <2>4 DEF i, j
<1> QED
  BY <1>1, <1>8, <1>9, <1>10 DEF c

\* A folder's listing is its names.
LEMMA ListingTyped ==
    ASSUME NEW folder
    PROVE  Listing(folder) \in Seq(Names) /\ Len(Listing(folder)) \in Nat
<1> DEFINE I == Present(folder)
<1>1. NameOrder \in Seq(ToSet(NameOrder)) /\ Len(NameOrder) \in Nat
      /\ DOMAIN NameOrder = 1..Len(NameOrder)
  BY CollectionAssumption
<1>2. I \in SUBSET (1..Len(NameOrder))
  BY <1>1 DEF Present
<1> HIDE DEF I
<1>3. Cardinality(I) \in Nat /\ \A k \in 1..Cardinality(I) : Nth(I, k) \in DOMAIN NameOrder
  BY <1>1, <1>2, Positions
<1>4. \A k \in 1..Cardinality(I) : NameOrder[Nth(I, k)] \in Names
  BY <1>3 DEF Names, ToSet
<1>5. Listing(folder) = [k \in 1..Cardinality(I) |-> NameOrder[Nth(I, k)]]
  BY DEF Listing, I
<1> QED
  BY <1>3, <1>4, <1>5

-----------------------------------------------------------------------------
(* The volume and the walk's data.                                         *)

\* Everything but a relocation leaves the volume's tree as it is.
LEMMA TreeKept ==
    ASSUME [Next]_vars, ~Relocate
    PROVE  place' = place /\ scenario' = scenario
<1> USE DEF volume, Untouched
<1>1. CASE UNCHANGED vars
  BY <1>1 DEF vars
<1>2. FailReview => place' = place /\ scenario' = scenario
  BY DEF FailReview
<1>3. LeaveFolder \/ ItemDone \/ ItemRetried \/ ItemFailed => place' = place /\ scenario' = scenario
  BY DEF LeaveFolder, ItemDone, ItemRetried, ItemFailed
<1>4. ASSUME Discover PROVE place' = place /\ scenario' = scenario
  <2>1. CASE RefuseRequest \/ RunOutOfMemory
    BY <1>2, <2>1 DEF RefuseRequest, RunOutOfMemory
  <2>2. CASE BeginCancelled
    BY <2>2 DEF BeginCancelled
  <2>3. CASE InspectRoot
    BY <1>2, <2>3 DEF InspectRoot
  <2>4. CASE InspectExclusion
    BY <1>2, <2>4 DEF InspectExclusion
  <2>5. CASE StartTraversal
    BY <2>5 DEF StartTraversal
  <2>6. CASE TakeFolder
    BY <2>6 DEF TakeFolder
  <2>7. CASE FinishTraversal
    BY <2>7 DEF FinishTraversal
  <2>8. CASE GetPage
    BY <1>3, <2>8 DEF GetPage
  <2>9. CASE EndPage
    BY <2>9 DEF EndPage
  <2>10. CASE ReadAttributes
    BY <1>3, <2>10 DEF ReadAttributes
  <2>11. CASE InspectListedItem
    BY <1>3, <2>11 DEF InspectListedItem, AdmitFolder, AdmitFile
  <2> QED
    BY <1>4, <2>1, <2>2, <2>3, <2>4, <2>5, <2>6, <2>7, <2>8, <2>9, <2>10, <2>11 DEF Discover
<1>5. ASSUME Analyze PROVE place' = place /\ scenario' = scenario
  BY <1>2, <1>5 DEF Analyze, Collate, SkipRow, InspectSource, CaptureSource, AnalyzeSource,
                    FinishReview, RowDone
<1>6. ASSUME Commit PROVE place' = place /\ scenario' = scenario
  BY <1>6 DEF Commit, InspectForCommit, OpenSource, RevalidateSource, CommitEnds
<1>7. ASSUME EditFile \/ RequestStop \/ Ended PROVE place' = place /\ scenario' = scenario
  BY <1>7 DEF EditFile, RequestStop, Ended, vars
<1> QED
  BY <1>1, <1>4, <1>5, <1>6, <1>7 DEF Next

\* A relocation gives one item another place, which was free, or deletes it.
LEMMA Relocated ==
    ASSUME VolumeInv, Relocate
    PROVE  /\ scenario' = scenario
           /\ \E id \in Ids : \E to \in Place :
                 /\ ~Pinned(id) /\ place' = [place EXCEPT ![id] = to]
                 /\ to # Nowhere => Entry(to.in, to.as) = Missing
<1>1. PICK move \in world.moves :
        /\ ~Pinned(move.id)
        /\ move.to # Nowhere => Entry(move.to.in, move.to.as) = Missing
        /\ place' = [place EXCEPT ![move.id] = move.to]
  BY DEF Relocate
<1>2. world.moves \subseteq [id : Ids, to : Place]
  BY CollectionAssumption DEF VolumeInv, world
<1>3. move.id \in Ids /\ move.to \in Place
  BY <1>2
<1>4. scenario' = scenario
  BY DEF Relocate
<1> QED
  BY <1>1, <1>3, <1>4

\* The volume stays one: every item in one place, no two under one name.
LEMMA VolumeStep ==
    ASSUME VolumeInv, [Next]_vars
    PROVE  VolumeInv'
<1>1. CASE ~Relocate
  BY <1>1, TreeKept DEF VolumeInv, SingleNames
<1>2. CASE Relocate
  <2>1. PICK id \in Ids, to \in Place :
          /\ place' = [place EXCEPT ![id] = to]
          /\ to # Nowhere => Entry(to.in, to.as) = Missing
    BY <1>2, Relocated
  <2>2. scenario' = scenario
    BY <1>2, Relocated
  <2>3. place' \in Layouts /\ \A x \in Ids : place'[x] = IF x = id THEN to ELSE place[x]
    BY <2>1 DEF VolumeInv, Layouts
  <2>4. ASSUME NEW x \in Ids, to # Nowhere PROVE place[x] # to
    <3>1. to = [in |-> to.in, as |-> to.as] /\ to.in # Gone
      BY <2>4, CollectionFacts DEF Place, Nowhere
    <3>2. place[x] = to => Entry(to.in, to.as) = x
      BY <3>1, EntryFacts
    <3> QED
      BY <2>1, <2>4, <3>2, CollectionFacts
  <2>5. SingleNames(place')
    BY <2>3, <2>4 DEF VolumeInv, SingleNames
  <2> QED
    BY <2>2, <2>3, <2>5 DEF VolumeInv
<1> QED
  BY <1>1, <1>2

\* The selected folder is one the scenario has, wherever it is.
LEMMA VolumeStarts ==
    ASSUME Init
    PROVE  VolumeInv
<1>1. scenario \in DOMAIN Scenarios /\ place \in Scenarios[scenario].layouts
  BY DEF Init, world
<1>2. /\ Scenarios[scenario].layouts \subseteq Layouts
      /\ \A layout \in Scenarios[scenario].layouts : SingleNames(layout)
  BY <1>1, CollectionAssumption DEF Layouts, SingleNames
<1> QED
  BY <1>1, <1>2 DEF VolumeInv

\* What the traversal keeps about a folder, and what it lists of one.
FolderRecord == [path : Seq(Names), chain : SUBSET Ids]
PageItem == [path : Seq(Names), directory : BOOLEAN]

\* The types of the traversal's data.
WalkType ==
    /\ root.id \in Folders /\ root.path \in Seq(Names)
    /\ pending \in Seq(FolderRecord) /\ current \in FolderRecord
    /\ page \in Seq(PageItem) /\ firstItem \in Nat
    /\ pc = "Inspect" => page # <<>>

\* A page of a listing is a sequence of its names.
LEMMA PageTyped ==
    ASSUME NEW S, NEW names \in Seq(S), NEW first \in Nat
    PROVE  PageFrom(names, first) \in Seq(S)
<1> DEFINE size == Len(names) - first
           bounded == IF size > MaximumItemsPerPage THEN MaximumItemsPerPage ELSE size
<1>1. size \in Int /\ bounded \in Int /\ bounded <= size /\ MaximumItemsPerPage \in Nat
  BY CollectionAssumption
<1>2. PageFrom(names, first) = [i \in 1..bounded |-> names[first + i]]
  BY DEF PageFrom
<1>3. \A i \in 1..bounded : names[first + i] \in S
  BY <1>1
<1> HIDE DEF bounded, size
<1>4. CASE bounded \in Nat
  BY <1>2, <1>3, <1>4
<1>5. CASE bounded \notin Nat
  <2>1. 1..bounded = 1..0
    BY <1>1, <1>5
  <2>2. PageFrom(names, first) = [i \in 1..0 |-> names[first + i]]
    BY <1>2, <2>1
  <2> QED
    BY <2>2
<1> QED
  BY <1>4, <1>5

\* A proof's location is a path.
LEMMA InspectedTyped ==
    ASSUME VolumeInv, NEW path \in Seq(Names), NEW kind, kind \subseteq Folders \cup Files,
           NEW inspected \in Inspected(path, kind)
    PROVE  /\ inspected.id \in kind /\ inspected.id \in Ids /\ Reaches(place, inspected.id)
           /\ inspected.path = PathTo(place, inspected.id) /\ inspected.path \in Seq(Names)
<1>1. Len(path) \in Nat
  OBVIOUS
<1>2. /\ inspected.id \in kind /\ inspected.id \in Ids /\ Reaches(place, inspected.id)
      /\ inspected.path = PathTo(place, inspected.id)
  BY <1>1, InspectedFacts
<1> QED
  BY <1>2, PathTyped DEF VolumeInv, Points

\* Nothing outside discovery changes what the traversal keeps.
LEMMA WalkKept ==
    ASSUME [Next]_vars, ~Discover
    PROVE  \/ root' = root /\ walk' = walk /\ strayed' = strayed /\ pc' = pc
           \/ /\ root' = root /\ strayed' = strayed
              /\ pc' \notin {"Exclude", "Folder", "Page", "Attributes", "Inspect"}
              /\ walk' = walk \/ FailReview
<1>1. CASE UNCHANGED vars
  BY <1>1 DEF vars
<1>2. CASE Analyze
  <2>1. FailReview => root' = root /\ strayed' = strayed /\ pc' = "Failed"
    BY DEF FailReview
  <2> QED
    BY <1>2, <2>1 DEF Analyze, Collate, SkipRow, InspectSource, CaptureSource, AnalyzeSource,
                      FinishReview, RowDone, Untouched
<1>3. CASE Commit
  BY <1>3 DEF Commit, InspectForCommit, OpenSource, RevalidateSource, CommitEnds, Untouched
<1>4. CASE Relocate \/ EditFile \/ RequestStop \/ Ended
  BY <1>4 DEF Relocate, EditFile, RequestStop, Ended, vars
<1> QED
  BY <1>1, <1>2, <1>3, <1>4 DEF Next

\* A failed review keeps the types.
LEMMA FailureTyped ==
    ASSUME WalkType, FailReview
    PROVE  WalkType'
<1>1. /\ root' = root /\ pending' = <<>> /\ current' = NoFolder /\ page' = <<>>
      /\ firstItem' = 0 /\ pc' = "Failed"
  BY DEF FailReview
<1>2. NoFolder \in FolderRecord /\ <<>> \in Seq(FolderRecord) /\ <<>> \in Seq(PageItem)
  BY DEF NoFolder, FolderRecord
<1> QED
  BY <1>1, <1>2 DEF WalkType

\* The types of the traversal's data are kept.
LEMMA WalkTypeStep ==
    ASSUME VolumeInv, WalkType, [Next]_vars
    PROVE  WalkType'
<1> USE DEF walk, WalkType
<1>0. FailReview => WalkType'
  BY FailureTyped
<1>1. CASE ~Discover
  BY <1>0, <1>1, WalkKept
<1>2. CASE RefuseRequest \/ RunOutOfMemory \/ BeginCancelled
  BY <1>0, <1>2 DEF RefuseRequest, RunOutOfMemory, BeginCancelled
<1>3. CASE InspectRoot
  <2>1. CASE FailReview
    BY <1>0, <2>1
  <2>2. CASE ~FailReview
    <3>1. PICK inspected \in Inspected(root.path, Folders) :
            /\ root' = inspected /\ pc' = "Exclude"
            /\ pending' = <<[path |-> inspected.path, chain |-> {inspected.id}]>>
            /\ UNCHANGED <<current, firstItem, page>>
      BY <1>3, <2>2 DEF InspectRoot
    <3>2. inspected.id \in Folders /\ inspected.id \in Ids /\ inspected.path \in Seq(Names)
      BY InspectedTyped
    <3>3. [path |-> inspected.path, chain |-> {inspected.id}] \in FolderRecord
      BY <3>2 DEF FolderRecord
    <3> QED
      BY <3>1, <3>2, <3>3
  <2> QED
    BY <2>1, <2>2
<1>4. CASE InspectExclusion
  <2>1. FailReview \/ (UNCHANGED <<pc, root, walk>>)
    BY <1>4 DEF InspectExclusion
  <2> QED
    BY <1>0, <2>1
<1>5. CASE StartTraversal
  BY <1>5 DEF StartTraversal
<1>6. CASE TakeFolder
  <2>1. /\ current' = pending[Len(pending)] /\ pending' = SubSeq(pending, 1, Len(pending) - 1)
        /\ pending # <<>> /\ firstItem' = 0 /\ page' = page /\ root' = root /\ pc' = "Page"
    BY <1>6 DEF TakeFolder, Front, Last
  <2> QED
    BY <2>1
<1>7. CASE FinishTraversal
  <2>1. /\ pending' = <<>> /\ current' = NoFolder /\ firstItem' = 0 /\ page' = <<>>
        /\ root' = root /\ pc' = "Collate"
    BY <1>7 DEF FinishTraversal
  <2>2. NoFolder \in FolderRecord
    BY DEF NoFolder, FolderRecord
  <2> QED
    BY <2>1, <2>2
<1>8. CASE GetPage
  <2>1. LeaveFolder => WalkType'
    <3>1. NoFolder \in FolderRecord
      BY DEF NoFolder, FolderRecord
    <3> QED
      BY <3>1 DEF LeaveFolder
  <2>2. CASE LeaveFolder
    BY <2>1, <2>2
  <2>3. CASE ~LeaveFolder
    <3> DEFINE folder == Resolve(current.path)
               names == NextPage(Listing(folder))
    <3>1. /\ names # <<>> /\ firstItem' = firstItem + Len(names)
          /\ page' = [i \in DOMAIN names |-> Item(folder, names[i])]
          /\ pc' = "Attributes" /\ root' = root /\ pending' = pending /\ current' = current
      BY <1>8, <2>3 DEF GetPage
    <3>2. names \in Seq(Names)
      BY ListingTyped, PageTyped DEF NextPage
    <3> HIDE DEF names, folder
    <3>3. \A i \in DOMAIN names : Item(folder, names[i]) \in PageItem
      BY <3>2 DEF Item, PageItem, FolderRecord
    <3>4. page' \in Seq(PageItem) /\ firstItem' \in Nat
      BY <3>1, <3>2, <3>3
    <3> QED
      BY <3>1, <3>4
  <2> QED
    BY <2>2, <2>3
<1>9. CASE EndPage
  BY <1>9 DEF EndPage
<1>10. ItemDone /\ pending' = pending /\ page # <<>> => WalkType'
  <2>1. page # <<>> => Tail(page) \in Seq(PageItem)
    OBVIOUS
  <2> QED
    BY <2>1 DEF ItemDone
<1>11. CASE ReadAttributes
  <2>1. page # <<>>
    BY <1>11 DEF ReadAttributes
  <2>2. \/ ItemDone /\ pending' = pending
        \/ pc' = "Inspect" /\ UNCHANGED <<root, walk>>
    BY <1>11 DEF ReadAttributes, ItemFailed
  <2> QED
    BY <1>10, <2>1, <2>2
<1>12. CASE InspectListedItem
  <2>0. page # <<>> /\ pc' = "Attributes"
    BY <1>12 DEF InspectListedItem, ItemFailed, AdmitFolder, AdmitFile, ItemDone
  <2>1. CASE ItemDone /\ pending' = pending
    BY <1>10, <2>0, <2>1
  <2>2. CASE ~(ItemDone /\ pending' = pending)
    <3>1. PICK inspected \in Inspected(Head(page).path, Folders) : AdmitFolder(inspected)
      BY <1>12, <2>2 DEF InspectListedItem, ItemFailed, AdmitFile
    <3>2. Head(page) \in PageItem /\ Tail(page) \in Seq(PageItem)
      BY <2>0
    <3>3. Head(page).path \in Seq(Names)
      BY <3>2 DEF PageItem
    <3>4. inspected.id \in Ids /\ inspected.path \in Seq(Names)
      BY <3>3, InspectedTyped
    <3> DEFINE record == [path |-> inspected.path, chain |-> current.chain \cup {inspected.id}]
    <3>5. record \in FolderRecord
      BY <3>4 DEF FolderRecord
    <3> HIDE DEF record
    <3>6. ItemDone /\ (pending' = pending \/ pending' = Append(pending, record))
      BY <3>1, Zenon DEF AdmitFolder, record
    <3>7. pending' \in Seq(FolderRecord)
      BY <3>5, <3>6
    <3> QED
      BY <2>0, <3>2, <3>6, <3>7 DEF ItemDone
  <2> QED
    BY <2>1, <2>2
<1> QED
  BY <1>1, <1>2, <1>3, <1>4, <1>5, <1>6, <1>7, <1>8, <1>9, <1>11, <1>12 DEF Discover

\* Discovery starts with data of these types.
LEMMA WalkStarts ==
    ASSUME Init, VolumeInv
    PROVE  WalkType
<1>1. Root \in Folders /\ Root \in Points
  BY CollectionAssumption, CollectionFacts DEF Points
<1>2. PathTo(place, Root) \in Seq(Names)
  BY <1>1, PathTyped DEF VolumeInv
<1>3. root.id = Root /\ root.path \in Seq(Names)
  BY <1>2, PathIsCanonical DEF Init
<1>4. NoFolder \in FolderRecord
  BY DEF NoFolder, FolderRecord
<1>5. pending = <<>> /\ current = NoFolder /\ page = <<>> /\ firstItem = 0 /\ pc = "Begin"
  BY DEF Init
<1> QED
  BY <1>1, <1>3, <1>4, <1>5 DEF WalkType

-----------------------------------------------------------------------------
(* Only selected folders are listed.                                       *)

On(p, z, x) == z \in ToSet(Line(p, x))

\* A folder of the tree below top that is in no owned folder but those top is in.
Selected(p, top, owned, y) ==
    /\ Reaches(p, y) /\ On(p, top, y)
    /\ \A o \in owned : On(p, o, y) => On(p, o, top)

\* A record is of such a folder, whose proof the record keeps.
Known(p, top, owned, record) ==
    \E y \in Folders : /\ record.path = PathTo(p, y) /\ y \in record.chain
                       /\ Selected(p, top, owned, y)

Traversing == {"Exclude", "Folder", "Page", "Attributes", "Inspect"}
Enumerating == {"Page", "Attributes", "Inspect"}

\* While handles pin, each folder that is listed, or is to be, is Known.
Selection ==
    ProofHandlesPin =>
        /\ strayed = {}
        /\ pc \in Traversing => \A i \in DOMAIN pending : Known(place, root.id, Owned, pending[i])
        /\ pc \in Enumerating => Known(place, root.id, Owned, current)

\* What is on a line, by positions.
LEMMA OnLine ==
    ASSUME NEW p \in Layouts, NEW x \in Points, NEW z
    PROVE  /\ On(p, z, x) <=> \E i \in 1..Len(Line(p, x)) : Line(p, x)[i] = z
           /\ On(p, x, x)
<1>1. Line(p, x) \in Seq(Points) /\ Len(Line(p, x)) \in Nat \ {0} /\ Line(p, x)[Len(Line(p, x))] = x
  BY LineTyped
<1>2. On(p, z, x) <=> \E i \in DOMAIN Line(p, x) : Line(p, x)[i] = z
  BY DEF On, ToSet
<1>3. On(p, x, x) <=> \E i \in DOMAIN Line(p, x) : Line(p, x)[i] = x
  BY DEF On, ToSet
<1>4. DOMAIN Line(p, x) = 1..Len(Line(p, x))
  BY <1>1
<1> QED
  BY <1>1, <1>2, <1>3, <1>4

\* Two folders are not below each other.
LEMMA OnLineOnce ==
    ASSUME NEW p \in Layouts, NEW x \in Points, NEW z \in Points, Reaches(p, x),
           On(p, z, x), On(p, x, z)
    PROVE  z = x
<1>1. PICK i \in 1..Len(Line(p, x)) : Line(p, x)[i] = z
  BY OnLine
<1>2. /\ Reaches(p, z) /\ Len(Line(p, z)) = i
      /\ \A j \in 1..i : Line(p, z)[j] = Line(p, x)[j]
  BY <1>1, LinesAreNested DEF Nested
<1>3. PICK j \in 1..Len(Line(p, z)) : Line(p, z)[j] = x
  BY OnLine
<1>4. Len(Line(p, x)) = j
  BY <1>2, <1>3, LinesAreNested DEF Nested
<1>5. Len(Line(p, x)) \in Nat /\ Line(p, x)[Len(Line(p, x))] = x
  BY LineTyped
<1>6. i = Len(Line(p, x))
  BY <1>1, <1>2, <1>3, <1>4, <1>5
<1> QED
  BY <1>1, <1>5, <1>6

\* What is on a child's line is the child or on its folder's line.
LEMMA OnLineBelow ==
    ASSUME NEW p \in Layouts, NEW x \in Ids, NEW z, Reaches(p, x)
    PROVE  On(p, z, x) <=> On(p, z, p[x].in) \/ z = x
<1> DEFINE q == p[x].in
           l == Line(p, q)
<1>1. q \in Points /\ x \in Points
  BY ParentIsPoint DEF Points
<1>2. l \in Seq(Points) /\ Len(l) \in Nat
  BY <1>1, LineTyped
<1>3. Line(p, x) = Append(l, x)
  BY LineOfItem
<1>4. On(p, z, x) <=> \E i \in 1..Len(Line(p, x)) : Line(p, x)[i] = z
  BY <1>1, OnLine
<1>5. On(p, z, q) <=> \E i \in 1..Len(l) : l[i] = z
  BY <1>1, OnLine
<1> HIDE DEF l, q
<1>6. Len(Append(l, x)) = Len(l) + 1 /\ Append(l, x)[Len(l) + 1] = x
      /\ \A i \in 1..Len(l) : Append(l, x)[i] = l[i]
  BY <1>2
<1> QED
  BY <1>2, <1>3, <1>4, <1>5, <1>6 DEF q

\* Within is being on the line of an item that exists.
LEMMA WithinIsOn ==
    ASSUME NEW x, NEW z
    PROVE  Within(x, z) <=> Reaches(place, x) /\ On(place, z, x)
BY AncestryIsLine, PathIsCanonical DEF Within, On

\* A selected folder is not foreign.
LEMMA SelectedIsNotForeign ==
    ASSUME VolumeInv, root.id \in Folders, NEW y \in Folders,
           Selected(place, root.id, Owned, y)
    PROVE  ~Foreign(y)
<1>1. place \in Layouts /\ root.id \in Points /\ \A o \in Ids : o \in Points
  BY CollectionFacts DEF VolumeInv, Points
<1>2. Within(y, root.id)
  BY WithinIsOn DEF Selected
<1>3. ASSUME NEW o \in Owned \ {root.id}, Within(o, root.id), Within(y, o) PROVE FALSE
  <2>1. On(place, o, y) /\ On(place, root.id, o) /\ Reaches(place, o)
    BY <1>3, WithinIsOn
  <2>2. On(place, o, root.id)
    BY <1>3, <2>1 DEF Selected
  <2>3. o \in Points
    <3>1. PICK i \in 1..Len(Line(place, root.id)) : Line(place, root.id)[i] = o
      BY <1>1, <2>2, OnLine
    <3>2. Line(place, root.id) \in Seq(Points)
      BY <1>1, LineTyped
    <3> QED
      BY <3>1, <3>2
  <2> QED
    BY <1>1, <1>3, <2>1, <2>2, <2>3, OnLineOnce
<1> QED
  BY <1>2, <1>3 DEF Foreign

\* A folder that discovery admits as a direct child of a selected folder, and
\* that is not itself owned, is selected.
LEMMA ChildIsSelected ==
    ASSUME VolumeInv, NEW y \in Folders, Selected(place, root.id, Owned, y),
           NEW x \in Folders, Reaches(place, x), x \notin Owned,
           Front(PathTo(place, x)) = PathTo(place, y)
    PROVE  Selected(place, root.id, Owned, x)
<1> DEFINE q == place[x].in
<1>1. place \in Layouts /\ x \in Ids /\ y \in Ids /\ x \in Points
  BY CollectionFacts DEF VolumeInv, Points
<1>2. Reaches(place, q) /\ q \in Folders \cup {Volume}
  BY <1>1, LineOfItem
<1>3. Front(PathTo(place, x)) = PathTo(place, q)
  BY <1>1, PathOfItem
<1>4. q = y
  <2>1. Resolve(PathTo(place, q)) = q
    BY <1>2, PathLeadsBack
  <2>2. Resolve(PathTo(place, y)) = y
    BY PathLeadsBack DEF Selected
  <2> QED
    BY <1>3, <2>1, <2>2
<1> HIDE DEF q
<1>5. \A z : On(place, z, x) <=> On(place, z, y) \/ z = x
  BY <1>1, <1>4, OnLineBelow DEF q
<1> QED
  BY <1>5 DEF Selected

\* While handles pin, the line to an item the review retains is not changed.
LEMMA RetainedStays ==
    ASSUME VolumeInv, Relocate, ProofHandlesPin, NEW y \in Folders \cup Files, y \in Retained,
           Reaches(place, y)
    PROVE  /\ Line(place', y) = Line(place, y) /\ Reaches(place', y)
           /\ PathTo(place', y) = PathTo(place, y)
<1>1. PICK id \in Ids, to \in Place : ~Pinned(id) /\ place' = [place EXCEPT ![id] = to]
  BY Relocated
<1>2. place \in Layouts /\ place' \in Layouts /\ y \in Points
  BY <1>1, CollectionFacts DEF VolumeInv, Layouts, Points
<1>3. ~On(place, id, y)
  BY <1>1, WithinIsOn DEF Pinned
<1>4. \A i \in 1..Len(Line(place, y)) :
          Line(place, y)[i] \in Ids => place'[Line(place, y)[i]] = place[Line(place, y)[i]]
  <2>1. \A i \in 1..Len(Line(place, y)) : Line(place, y)[i] # id
    BY <1>2, <1>3, OnLine
  <2> QED
    BY <1>1, <2>1 DEF VolumeInv, Layouts
<1>5. Line(place', y) = Line(place, y)
  BY <1>2, <1>4, LineUnmoved
<1>6. Reaches(place', y)
  BY <1>5 DEF Reaches
<1>7. \A i \in 1..(Len(Line(place, y)) - 1) :
          place'[Line(place, y)[i + 1]] = place[Line(place, y)[i + 1]]
  <2>1. /\ Len(Line(place, y)) \in Nat
        /\ \A i \in 2..Len(Line(place, y)) : Line(place, y)[i] \in Ids
    BY <1>2, LineTyped
  <2>2. \A i \in 1..(Len(Line(place, y)) - 1) :
            i + 1 \in 2..Len(Line(place, y)) /\ i + 1 \in 1..Len(Line(place, y))
    BY <2>1
  <2> QED
    BY <1>4, <2>1, <2>2
<1>8. PathTo(place', y) = PathTo(place, y)
  BY <1>5, <1>7 DEF PathTo
<1> QED
  BY <1>5, <1>6, <1>8

\* So a record of a selected folder stays true.
LEMMA KnownStays ==
    ASSUME VolumeInv, Relocate, ProofHandlesPin, root.id \in Folders, root.id \in Retained,
           NEW record, record.chain \subseteq Retained, Known(place, root.id, Owned, record)
    PROVE  Known(place', root.id, Owned, record)
<1>1. PICK y \in Folders : /\ record.path = PathTo(place, y) /\ y \in record.chain
                           /\ Selected(place, root.id, Owned, y)
  BY DEF Known
<1>2. Reaches(place, y) /\ On(place, root.id, y)
  BY <1>1 DEF Selected
<1>3. /\ Line(place', y) = Line(place, y) /\ Reaches(place', y)
      /\ PathTo(place', y) = PathTo(place, y)
  BY <1>1, <1>2, RetainedStays
<1>4. Reaches(place, root.id)
  <2>1. place \in Layouts /\ y \in Points
    BY CollectionFacts DEF VolumeInv, Points
  <2>2. PICK i \in 1..Len(Line(place, y)) : Line(place, y)[i] = root.id
    BY <1>2, <2>1, OnLine
  <2> QED
    BY <1>2, <2>1, <2>2, LinesAreNested DEF Nested
<1>5. Line(place', root.id) = Line(place, root.id)
  BY <1>4, RetainedStays
<1> QED
  BY <1>1, <1>3, <1>5 DEF Known, Selected, On

\* Another program's relocation keeps what the traversal knows.
LEMMA SelectionRelocated ==
    ASSUME VolumeInv, WalkType, Selection, Relocate
    PROVE  Selection'
<1>1. /\ scenario' = scenario /\ pc' = pc /\ root' = root /\ pending' = pending
      /\ current' = current /\ strayed' = strayed
  BY DEF Relocate, walk
<1>2. Owned' = Owned /\ ProofHandlesPin' = ProofHandlesPin
  BY <1>1 DEF Owned, OwnedRecords, ProofHandlesPin, world
<1>3. SUFFICES ASSUME ProofHandlesPin PROVE Selection'
  BY <1>2 DEF Selection
<1>4. root.id \in Folders
  BY DEF WalkType
<1>5. ASSUME pc \in Traversing PROVE root.id \in Retained
  BY <1>5 DEF Retained, RetainedFolders, Traversing
<1>6. ASSUME pc \in Traversing, NEW i \in DOMAIN pending
      PROVE  Known(place', root.id, Owned, pending[i])
  <2>1. pending[i].chain \subseteq Retained
    BY <1>6 DEF Retained, RetainedFolders
  <2>2. Known(place, root.id, Owned, pending[i])
    BY <1>3, <1>6 DEF Selection
  <2> QED
    BY <1>3, <1>4, <1>5, <1>6, <2>1, <2>2, KnownStays
<1>7. ASSUME pc \in Enumerating PROVE Known(place', root.id, Owned, current)
  <2>1. current.chain \subseteq Retained /\ pc \in Traversing
    BY <1>7 DEF Retained, RetainedFolders, Enumerating, Traversing
  <2>2. Known(place, root.id, Owned, current)
    BY <1>3, <1>7 DEF Selection
  <2> QED
    BY <1>3, <1>4, <1>5, <2>1, <2>2, KnownStays
<1>8. strayed = {}
  BY <1>3 DEF Selection
<1> QED
  BY <1>1, <1>2, <1>6, <1>7, <1>8 DEF Selection

\* The first record is of the selected folder.
LEMMA RootIsSelected ==
    ASSUME VolumeInv, WalkType, InspectRoot, ~FailReview
    PROVE  /\ \A i \in DOMAIN pending' : Known(place, root.id', Owned, pending'[i])
           /\ strayed' = strayed /\ pc' = "Exclude"
<1>1. PICK inspected \in Inspected(root.path, Folders) :
        /\ root' = inspected /\ pc' = "Exclude" /\ strayed' = strayed
        /\ pending' = <<[path |-> inspected.path, chain |-> {inspected.id}]>>
  BY DEF InspectRoot
<1>2. /\ inspected.id \in Folders /\ inspected.id \in Ids /\ Reaches(place, inspected.id)
      /\ inspected.path = PathTo(place, inspected.id)
  BY InspectedTyped DEF WalkType
<1>3. On(place, inspected.id, inspected.id)
  BY <1>2, OnLine DEF VolumeInv, Points
<1>4. Known(place, inspected.id, Owned, [path |-> inspected.path, chain |-> {inspected.id}])
  BY <1>2, <1>3 DEF Known, Selected
<1> QED
  BY <1>1, <1>4

\* The page of a Known folder is of a folder that was selected.
LEMMA PageIsSelected ==
    ASSUME VolumeInv, WalkType, GetPage, Known(place, root.id, Owned, current), strayed = {}
    PROVE  strayed' = {}
<1>1. PICK y \in Folders : /\ current.path = PathTo(place, y)
                           /\ Selected(place, root.id, Owned, y)
  BY DEF Known
<1>2. Resolve(current.path) = y
  BY <1>1, PathLeadsBack DEF Selected
<1>3. ~Foreign(y)
  BY <1>1, SelectedIsNotForeign DEF WalkType
<1>4. Listed(Resolve(current.path)) \/ UNCHANGED strayed
  BY DEF GetPage
<1>5. strayed' = strayed \cup {x \in {y} : Foreign(x)} \/ strayed' = strayed
  BY <1>2, <1>4 DEF Listed
<1> QED
  BY <1>3, <1>5

\* What InspectListedItem leaves pending is Known.
LEMMA AdmittedIsSelected ==
    ASSUME VolumeInv, WalkType, InspectListedItem, Known(place, root.id, Owned, current),
           pc = "Inspect",
           \A i \in DOMAIN pending : Known(place, root.id, Owned, pending[i])
    PROVE  \A i \in DOMAIN pending' : Known(place, root.id, Owned, pending'[i])
<1>1. CASE pending' = pending
  BY <1>1
<1>2. CASE pending' # pending
  <2>1. PICK inspected \in Inspected(Head(page).path, Folders) :
          AdmitFolder(inspected)
    BY <1>2 DEF InspectListedItem, ItemFailed, AdmitFile
  <2>2. Head(page).path \in Seq(Names)
    <3>1. page \in Seq(PageItem) /\ page # <<>>
      BY DEF WalkType
    <3>2. Head(page) \in PageItem
      BY <3>1
    <3> QED
      BY <3>2 DEF PageItem
  <2>3. /\ inspected.id \in Folders /\ inspected.id \in Ids /\ Reaches(place, inspected.id)
        /\ inspected.path = PathTo(place, inspected.id)
    BY <2>2, InspectedTyped
  <2>4. /\ Ownership(inspected) = {} /\ Front(inspected.path) = current.path
        /\ pending' = Append(pending, [path |-> inspected.path,
                                       chain |-> current.chain \cup {inspected.id}])
    BY <1>2, <2>1 DEF AdmitFolder, DirectChild
  <2>5. inspected.id \notin Owned
    BY <2>4 DEF Ownership, Owned
  <2>6. PICK y \in Folders : /\ current.path = PathTo(place, y)
                             /\ Selected(place, root.id, Owned, y)
    BY DEF Known
  <2>7. Selected(place, root.id, Owned, inspected.id)
    BY <2>3, <2>4, <2>5, <2>6, ChildIsSelected
  <2> DEFINE record == [path |-> inspected.path, chain |-> current.chain \cup {inspected.id}]
  <2>8. Known(place, root.id, Owned, record)
    BY <2>3, <2>7 DEF Known
  <2>9. pending' = Append(pending, record)
    BY <2>4
  <2> HIDE DEF record
  <2>10. pending \in Seq(FolderRecord)
    BY DEF WalkType
  <2>11. /\ DOMAIN pending' = 1..(Len(pending) + 1) /\ pending'[Len(pending) + 1] = record
         /\ \A i \in 1..Len(pending) : pending'[i] = pending[i] /\ i \in DOMAIN pending
    BY <2>9, <2>10
  <2>12. ASSUME NEW i \in DOMAIN pending' PROVE Known(place, root.id, Owned, pending'[i])
    <3>1. CASE i = Len(pending) + 1
      BY <2>8, <2>11, <3>1
    <3>2. CASE i # Len(pending) + 1
      <4>1. i \in 1..Len(pending)
        BY <2>10, <2>11, <3>2
      <4> QED
        BY <2>11, <4>1
    <3> QED
      BY <3>1, <3>2
  <2> QED
    BY <2>12
<1> QED
  BY <1>1, <1>2

\* A failed review has listed nothing that was not selected, and lists no more.
LEMMA FailureSelects ==
    ASSUME Selection, FailReview
    PROVE  Selection'
<1>1. /\ scenario' = scenario /\ pc' = "Failed" /\ strayed' = strayed
  BY DEF FailReview, volume
<1>2. ProofHandlesPin' = ProofHandlesPin
  BY <1>1 DEF ProofHandlesPin, world
<1> QED
  BY <1>1, <1>2 DEF Selection, Traversing, Enumerating

\* Every step keeps what the traversal knows.
LEMMA SelectionStep ==
    ASSUME VolumeInv, WalkType, Selection, [Next]_vars
    PROVE  Selection'
<1>0. FailReview => Selection'
  BY FailureSelects
<1>1. CASE Relocate
  BY <1>1, SelectionRelocated
<1>2. CASE ~Relocate
  <2>1. place' = place /\ scenario' = scenario
    BY <1>2, TreeKept
  <2>2. Owned' = Owned /\ ProofHandlesPin' = ProofHandlesPin
    BY <2>1 DEF Owned, OwnedRecords, ProofHandlesPin, world
  <2> DEFINE Kept == /\ root' = root /\ strayed' = strayed
                     /\ pc' \in Traversing => pc \in Traversing /\ pending' = pending
                     /\ pc' \in Enumerating => pc \in Enumerating /\ current' = current
  <2>3. Kept => Selection'
    BY <2>1, <2>2 DEF Selection
  <2>4. CASE ~Discover
    <3>1. CASE FailReview
      BY <1>0, <3>1
    <3>2. CASE ~FailReview
      <4>1. Kept
        BY <2>4, <3>2, WalkKept DEF Traversing, Enumerating, walk
      <4> QED
        BY <2>3, <4>1
    <3> QED
      BY <3>1, <3>2
  <2>5. CASE ProofHandlesPin = FALSE
    BY <2>2, <2>5 DEF Selection
  <2>6. CASE Discover /\ ProofHandlesPin # FALSE
    <3> DEFINE KnownAll == \A i \in DOMAIN pending : Known(place, root.id, Owned, pending[i])
               KnownAllNext == \A i \in DOMAIN pending' : Known(place, root'.id, Owned, pending'[i])
    <3>0. ProofHandlesPin
      BY <2>6, CollectionAssumption DEF ProofHandlesPin, world, VolumeInv
    <3>1. /\ strayed = {} /\ (pc \in Traversing => KnownAll)
          /\ (pc \in Enumerating => Known(place, root.id, Owned, current))
      BY <3>0 DEF Selection
    <3>2. /\ strayed' = {} /\ (pc' \in Traversing => KnownAllNext)
          /\ (pc' \in Enumerating => Known(place, root'.id, Owned, current'))
          => Selection'
      BY <2>1, <2>2 DEF Selection
    <3>3. CASE RefuseRequest \/ RunOutOfMemory
      BY <1>0, <3>3 DEF RefuseRequest, RunOutOfMemory
    <3>4. CASE BeginCancelled
      <4>1. Kept
        BY <3>4 DEF BeginCancelled, Traversing, Enumerating
      <4> QED
        BY <2>3, <4>1
    <3>5. CASE InspectRoot
      <4>1. CASE FailReview
        BY <1>0, <4>1
      <4>2. CASE ~FailReview
        <5>1. KnownAllNext /\ strayed' = strayed /\ pc' = "Exclude"
          BY <3>5, <4>2, RootIsSelected
        <5> QED
          BY <3>1, <3>2, <5>1 DEF Enumerating
      <4> QED
        BY <4>1, <4>2
    <3>6. CASE InspectExclusion
      <4>1. FailReview \/ (pc = "Exclude" /\ UNCHANGED <<pc, root, walk, strayed>>)
        BY <3>6 DEF InspectExclusion
      <4>2. ~FailReview => Kept
        BY <4>1 DEF walk
      <4> QED
        BY <1>0, <2>3, <4>2
    <3>7. CASE StartTraversal
      <4>1. Kept
        BY <3>7 DEF StartTraversal, Traversing, Enumerating, walk
      <4> QED
        BY <2>3, <4>1
    <3>8. CASE TakeFolder
      <4>1. /\ pc = "Folder" /\ current' = pending[Len(pending)] /\ pending # <<>> /\ pc' = "Page"
            /\ pending' = SubSeq(pending, 1, Len(pending) - 1) /\ root' = root /\ strayed' = strayed
        BY <3>8 DEF TakeFolder, Front, Last
      <4>2. KnownAll
        BY <3>1, <4>1 DEF Traversing
      <4>3. pending \in Seq(FolderRecord)
        BY DEF WalkType
      <4>4. Len(pending) \in DOMAIN pending
        BY <4>1, <4>3
      <4>5. \A i \in DOMAIN pending' : i \in DOMAIN pending /\ pending'[i] = pending[i]
        BY <4>1, <4>3
      <4>6. KnownAllNext
        BY <4>1, <4>2, <4>5
      <4>7. Known(place, root'.id, Owned, current')
        BY <4>1, <4>2, <4>4
      <4> HIDE DEF KnownAll, KnownAllNext
      <4> QED
        BY <3>1, <3>2, <4>1, <4>6, <4>7
    <3>9. CASE FinishTraversal
      <4>1. Kept
        BY <3>9 DEF FinishTraversal, Traversing, Enumerating
      <4> QED
        BY <2>3, <4>1
    <3>10. CASE GetPage
      <4>1. pc = "Page" /\ pc \in Traversing /\ pc \in Enumerating
        BY <3>10 DEF GetPage, Traversing, Enumerating
      <4>2. strayed' = {}
        BY <3>1, <3>10, <4>1, PageIsSelected
      <4>3. /\ root' = root /\ pending' = pending
            /\ (pc' = "Folder" \/ (pc' = "Attributes" /\ current' = current))
        BY <3>10 DEF GetPage, LeaveFolder
      <4> QED
        BY <3>1, <3>2, <4>1, <4>2, <4>3 DEF Traversing, Enumerating
    <3>11. CASE EndPage
      <4>1. Kept
        BY <3>11 DEF EndPage, Traversing, Enumerating
      <4> QED
        BY <2>3, <4>1
    <3>12. CASE ReadAttributes
      <4>1. Kept
        BY <3>12 DEF ReadAttributes, ItemFailed, ItemDone, Traversing, Enumerating, walk
      <4> QED
        BY <2>3, <4>1
    <3>13. CASE InspectListedItem
      <4>1. /\ pc = "Inspect" /\ pc' = "Attributes" /\ root' = root /\ current' = current
            /\ strayed' = strayed
        BY <3>13 DEF InspectListedItem, ItemFailed, AdmitFolder, AdmitFile, ItemDone
      <4>2. KnownAllNext
        BY <3>1, <3>13, <4>1, AdmittedIsSelected DEF Traversing, Enumerating
      <4> QED
        BY <3>1, <3>2, <4>1, <4>2 DEF Traversing, Enumerating
    <3> QED
      BY <2>6, <3>3, <3>4, <3>5, <3>6, <3>7, <3>8, <3>9, <3>10, <3>11, <3>12, <3>13 DEF Discover
  <2> QED
    BY <2>4, <2>5, <2>6
<1> QED
  BY <1>1, <1>2

\* Nothing has been listed before discovery begins.
LEMMA SelectionStarts ==
    ASSUME Init
    PROVE  Selection
BY DEF Init, Selection, Traversing, Enumerating

\* Traversal never enumerates a folder the application created, a folder below
\* one, or a folder outside the selected root, whatever is renamed, relocated
\* or turned into a junction meanwhile, as long as the handle of a proof keeps
\* its folder in place (WindowsStorageImageSourceCollection::discover).
THEOREM SelectionHolds == Spec => []OnlySelectedFoldersListed
<1>1. Init => VolumeInv /\ WalkType /\ Selection
  BY VolumeStarts, WalkStarts, SelectionStarts
<1>2. VolumeInv /\ WalkType /\ Selection /\ [Next]_vars => (VolumeInv /\ WalkType /\ Selection)'
  BY VolumeStep, WalkTypeStep, SelectionStep
<1>3. VolumeInv /\ WalkType /\ Selection => OnlySelectedFoldersListed
  BY DEF Selection, OnlySelectedFoldersListed
<1> QED
  BY <1>1, <1>2, <1>3, PTL DEF Spec

-----------------------------------------------------------------------------
(* What discovery finds.                                                  *)

\* The candidate that an admitted file becomes.
CandidateOf(inspected) ==
    [path |-> Relative(inspected.path), id |-> inspected.id,
     folder |-> current.path, chain |-> current.chain]

\* An admitted file is added at the end, and nothing else is added.
LEMMA CandidatesChange ==
    ASSUME [Next]_vars
    PROVE  \/ candidates' = candidates \/ candidates' = <<>>
           \/ /\ pc = "Inspect" /\ InspectListedItem
              /\ \E inspected \in Inspected(Head(page).path, Files) :
                    /\ AdmitFile(inspected)
                    /\ candidates' = Append(candidates, CandidateOf(inspected))
<1>1. FailReview => candidates' = <<>>
  BY DEF FailReview
<1>2. CASE UNCHANGED vars \/ Relocate \/ EditFile \/ RequestStop \/ Ended
  BY <1>2 DEF Relocate, EditFile, RequestStop, Ended, vars, found
<1>3. CASE Analyze
  BY <1>1, <1>3 DEF Analyze, Collate, SkipRow, InspectSource, CaptureSource, AnalyzeSource,
                    FinishReview, RowDone, Untouched, found
<1>4. CASE Commit
  BY <1>4 DEF Commit, InspectForCommit, OpenSource, RevalidateSource, CommitEnds, Untouched, found
<1>5. CASE Discover
  <2>1. CASE RefuseRequest \/ BeginCancelled \/ InspectRoot \/ RunOutOfMemory
    BY <1>1, <2>1 DEF RefuseRequest, BeginCancelled, InspectRoot, RunOutOfMemory, found
  <2>2. CASE InspectExclusion \/ StartTraversal
    BY <1>1, <2>2 DEF InspectExclusion, StartTraversal, found
  <2>3. CASE TakeFolder \/ FinishTraversal \/ EndPage
    BY <2>3 DEF TakeFolder, FinishTraversal, EndPage, found
  <2>4. CASE GetPage
    BY <2>4 DEF GetPage, LeaveFolder, found
  <2>5. CASE ReadAttributes
    BY <2>5 DEF ReadAttributes, ItemFailed, found
  <2>6. CASE InspectListedItem
    <3>1. ASSUME NEW inspected, AdmitFile(inspected)
          PROVE  candidates' = candidates \/ candidates' = Append(candidates, CandidateOf(inspected))
      BY <3>1, Zenon DEF AdmitFile, CandidateOf
    <3>2. CASE candidates' = candidates
      BY <3>2
    <3>3. CASE candidates' # candidates
      <4>1. PICK inspected \in Inspected(Head(page).path, Files) : AdmitFile(inspected)
        BY <2>6, <3>3 DEF InspectListedItem, ItemFailed, AdmitFolder
      <4>2. pc = "Inspect"
        BY <2>6 DEF InspectListedItem
      <4> QED
        BY <2>6, <3>1, <3>3, <4>1, <4>2
    <3> QED
      BY <3>2, <3>3
  <2> QED
    BY <1>5, <2>1, <2>2, <2>3, <2>4, <2>5, <2>6 DEF Discover
<1> QED
  BY <1>2, <1>3, <1>4, <1>5 DEF Next

-----------------------------------------------------------------------------
(* The review is in order.                                                 *)

NameSet == ToSet(NameOrder)

\* A name's rank; past its end a path has none.
RankAt(p, k) == IF k \in 1..Len(p) THEN Rank(p[k]) ELSE 0

\* p is before q where they first differ.
Lex(p, q) ==
    \E k \in Nat \ {0} : RankAt(p, k) < RankAt(q, k) /\ \A j \in 1..(k - 1) : RankAt(p, j) = RankAt(q, j)

\* Ranks are positive, and tell names apart.
LEMMA RankFacts ==
    /\ \A a \in NameSet : Rank(a) \in Nat \ {0}
    /\ \A a, b \in NameSet : Rank(a) = Rank(b) => a = b
<1>1. DOMAIN NameOrder = 1..Len(NameOrder) /\ Len(NameOrder) \in Nat
  BY CollectionAssumption
<1>2. ASSUME NEW a \in NameSet PROVE Rank(a) \in DOMAIN NameOrder /\ NameOrder[Rank(a)] = a
  <2>1. \E i \in DOMAIN NameOrder : NameOrder[i] = a
    BY DEF NameSet, ToSet
  <2> QED
    BY <2>1, Zenon DEF Rank
<1> QED
  BY <1>1, <1>2

\* Every position of a path has a rank.
LEMMA RankAtFacts ==
    ASSUME NEW p \in Seq(NameSet)
    PROVE  /\ \A k : RankAt(p, k) \in Nat
           /\ \A k \in 1..Len(p) : RankAt(p, k) = Rank(p[k]) /\ RankAt(p, k) > 0
           /\ \A k \in Nat : k > Len(p) => RankAt(p, k) = 0
<1>1. \A k \in 1..Len(p) : p[k] \in NameSet
  OBVIOUS
<1> QED
  BY <1>1, RankFacts DEF RankAt

\* Two paths with the same ranks are the same.
LEMMA RanksIdentify ==
    ASSUME NEW p \in Seq(NameSet), NEW q \in Seq(NameSet),
           \A k \in Nat \ {0} : RankAt(p, k) = RankAt(q, k)
    PROVE  p = q
<1>1. /\ \A k \in 1..Len(p) : RankAt(p, k) = Rank(p[k]) /\ RankAt(p, k) > 0
      /\ \A k \in Nat : k > Len(p) => RankAt(p, k) = 0
  BY RankAtFacts
<1>2. /\ \A k \in 1..Len(q) : RankAt(q, k) = Rank(q[k]) /\ RankAt(q, k) > 0
      /\ \A k \in Nat : k > Len(q) => RankAt(q, k) = 0
  BY RankAtFacts
<1>3. Len(p) \in Nat /\ Len(q) \in Nat
  OBVIOUS
<1>4. Len(p) <= Len(q)
  <2>1. CASE Len(p) = 0
    BY <1>3, <2>1
  <2>2. CASE Len(p) # 0
    <3>1. RankAt(p, Len(p)) > 0 /\ Len(p) \in Nat \ {0}
      BY <1>1, <1>3, <2>2
    <3>2. RankAt(q, Len(p)) # 0
      BY <1>1, <3>1
    <3> QED
      BY <1>2, <1>3, <3>1, <3>2
  <2> QED
    BY <2>1, <2>2
<1>5. Len(q) <= Len(p)
  <2>1. CASE Len(q) = 0
    BY <1>3, <2>1
  <2>2. CASE Len(q) # 0
    <3>1. RankAt(q, Len(q)) > 0 /\ Len(q) \in Nat \ {0}
      BY <1>2, <1>3, <2>2
    <3>2. RankAt(p, Len(q)) # 0
      BY <1>2, <3>1
    <3> QED
      BY <1>1, <1>3, <3>1, <3>2
  <2> QED
    BY <2>1, <2>2
<1>6. Len(p) = Len(q)
  BY <1>3, <1>4, <1>5
<1>7. ASSUME NEW k \in 1..Len(p) PROVE p[k] = q[k]
  <2>1. Rank(p[k]) = Rank(q[k])
    BY <1>1, <1>2, <1>3, <1>6
  <2>2. p[k] \in NameSet /\ q[k] \in NameSet
    BY <1>6
  <2> QED
    BY <2>1, <2>2, RankFacts
<1> QED
  BY <1>6, <1>7, SeqEqual

\* The ordinal order of the code is the order of first differences.
LEMMA PrecedesIsLex ==
    ASSUME NEW p \in Seq(NameSet), NEW q \in Seq(NameSet)
    PROVE  Precedes(p, q) <=> Lex(p, q)
<1>1. /\ \A k \in 1..Len(p) : RankAt(p, k) = Rank(p[k]) /\ RankAt(p, k) > 0
      /\ \A k \in Nat : k > Len(p) => RankAt(p, k) = 0
      /\ \A k : RankAt(p, k) \in Nat
  BY RankAtFacts
<1>2. /\ \A k \in 1..Len(q) : RankAt(q, k) = Rank(q[k]) /\ RankAt(q, k) > 0
      /\ \A k \in Nat : k > Len(q) => RankAt(q, k) = 0
      /\ \A k : RankAt(q, k) \in Nat
  BY RankAtFacts
<1>3. Len(p) \in Nat /\ Len(q) \in Nat /\ DOMAIN p = 1..Len(p) /\ DOMAIN q = 1..Len(q)
  OBVIOUS
<1>4. \A k \in 1..Len(p) : p[k] \in NameSet
  OBVIOUS
<1>5. \A k \in 1..Len(q) : q[k] \in NameSet
  OBVIOUS
<1>6. ASSUME NEW m \in 0..Len(p), m <= Len(q), SubSeq(p, 1, m) = SubSeq(q, 1, m)
      PROVE  \A j \in 1..m : p[j] = q[j] /\ RankAt(p, j) = RankAt(q, j)
  <2>1. ASSUME NEW j \in 1..m PROVE p[j] = q[j]
    <3>1. SubSeq(p, 1, m)[j] = p[j] /\ SubSeq(q, 1, m)[j] = q[j]
      BY <1>3, <1>6
    <3> QED
      BY <1>6, <3>1
  <2>2. \A j \in 1..m : j \in 1..Len(p) /\ j \in 1..Len(q)
    BY <1>3, <1>6
  <2> QED
    BY <1>1, <1>2, <2>1, <2>2
<1>7. ASSUME NEW m \in 0..Len(p), m <= Len(q), \A j \in 1..m : RankAt(p, j) = RankAt(q, j)
      PROVE  SubSeq(p, 1, m) = SubSeq(q, 1, m)
  <2>1. ASSUME NEW j \in 1..m PROVE p[j] = q[j]
    <3>1. j \in 1..Len(p) /\ j \in 1..Len(q)
      BY <1>3, <1>7
    <3> QED
      BY <1>1, <1>2, <1>4, <1>5, <1>7, <3>1, RankFacts
  <2>2. SubSeq(p, 1, m) = [j \in 1..m |-> p[j]] /\ SubSeq(q, 1, m) = [j \in 1..m |-> q[j]]
    BY <1>3, <1>7
  <2> QED
    BY <2>1, <2>2
<1>8. ASSUME Precedes(p, q) PROVE Lex(p, q)
  <2>1. CASE IsStrictPrefix(p, q)
    <3>1. Len(p) <= Len(q) /\ SubSeq(p, 1, Len(p)) = SubSeq(q, 1, Len(p)) /\ p # q
      BY <2>1 DEF IsStrictPrefix, IsPrefix
    <3>2. \A j \in 1..Len(p) : p[j] = q[j] /\ RankAt(p, j) = RankAt(q, j)
      BY <1>3, <1>6, <3>1
    <3>3. Len(p) # Len(q)
      BY <3>1, <3>2, SeqEqual
    <3>6. Len(p) \in Nat /\ Len(q) \in Nat /\ Len(p) <= Len(q)
      BY <1>3, <3>1
    <3>7. \A m, n \in Nat : m <= n /\ m # n =>
              m + 1 \in Nat \ {0} /\ m + 1 \in 1..n /\ (m + 1) - 1 = m
      OBVIOUS
    <3>4. Len(p) + 1 \in Nat \ {0} /\ Len(p) + 1 \in 1..Len(q) /\ (Len(p) + 1) - 1 = Len(p)
      BY <3>3, <3>6, <3>7
    <3>5. RankAt(p, Len(p) + 1) < RankAt(q, Len(p) + 1)
      BY <1>1, <1>2, <1>3, <3>4
    <3> QED
      BY <3>2, <3>4, <3>5 DEF Lex
  <2>2. CASE ~IsStrictPrefix(p, q)
    <3>1. PICK k \in DOMAIN p \cap DOMAIN q :
            SubSeq(p, 1, k - 1) = SubSeq(q, 1, k - 1) /\ Rank(p[k]) < Rank(q[k])
      BY <1>8, <2>2 DEF Precedes
    <3>2. k \in Nat \ {0} /\ k - 1 \in 0..Len(p) /\ k - 1 <= Len(q) /\ k \in 1..Len(p) /\ k \in 1..Len(q)
      BY <1>3
    <3>3. \A j \in 1..(k - 1) : RankAt(p, j) = RankAt(q, j)
      BY <1>6, <3>1, <3>2
    <3>4. RankAt(p, k) < RankAt(q, k)
      BY <1>1, <1>2, <3>1, <3>2
    <3> QED
      BY <3>2, <3>3, <3>4 DEF Lex
  <2> QED
    BY <2>1, <2>2
<1>9. ASSUME Lex(p, q) PROVE Precedes(p, q)
  <2>1. PICK k \in Nat \ {0} : RankAt(p, k) < RankAt(q, k)
                               /\ \A j \in 1..(k - 1) : RankAt(p, j) = RankAt(q, j)
    BY <1>9 DEF Lex
  <2>2. k \in 1..Len(q)
    BY <1>1, <1>2, <1>3, <2>1
  <2>3. CASE k <= Len(p)
    <3>1. k \in DOMAIN p \cap DOMAIN q /\ k - 1 \in 0..Len(p) /\ k - 1 <= Len(q) /\ k \in 1..Len(p)
      BY <1>3, <2>2, <2>3
    <3>2. SubSeq(p, 1, k - 1) = SubSeq(q, 1, k - 1)
      BY <1>7, <2>1, <3>1
    <3>3. Rank(p[k]) < Rank(q[k])
      BY <1>1, <1>2, <2>1, <2>2, <3>1
    <3> QED
      BY <3>1, <3>2, <3>3 DEF Precedes
  <2>4. CASE k > Len(p)
    <3>1. Len(p) <= Len(q)
      BY <1>3, <2>2, <2>4
    <3>2. \A j \in 1..Len(p) : j \in 1..(k - 1)
      BY <1>3, <2>4
    <3>3. SubSeq(p, 1, Len(p)) = SubSeq(q, 1, Len(p))
      BY <1>3, <1>7, <2>1, <3>1, <3>2
    <3>4. p # q
      BY <1>3, <2>2, <2>4
    <3> QED
      BY <3>1, <3>3, <3>4 DEF Precedes, IsStrictPrefix, IsPrefix
  <2> QED
    BY <1>3, <2>1, <2>3, <2>4
<1> QED
  BY <1>8, <1>9

\* The order is strict and total.
LEMMA OrderIsTotal ==
    ASSUME NEW p \in Seq(NameSet), NEW q \in Seq(NameSet)
    PROVE  /\ ~(Precedes(p, q) /\ Precedes(q, p)) /\ ~Precedes(p, p)
           /\ p # q => Precedes(p, q) \/ Precedes(q, p)
<1>1. \A k : RankAt(p, k) \in Nat /\ RankAt(q, k) \in Nat
  BY RankAtFacts
<1>2. ~Lex(p, p)
  BY <1>1 DEF Lex
<1>3. ASSUME Lex(p, q), Lex(q, p) PROVE FALSE
  <2>1. PICK k \in Nat \ {0} : RankAt(p, k) < RankAt(q, k)
                               /\ \A j \in 1..(k - 1) : RankAt(p, j) = RankAt(q, j)
    BY <1>3 DEF Lex
  <2>2. PICK m \in Nat \ {0} : RankAt(q, m) < RankAt(p, m)
                               /\ \A j \in 1..(m - 1) : RankAt(q, j) = RankAt(p, j)
    BY <1>3 DEF Lex
  <2>3. k < m \/ m < k \/ k = m
    OBVIOUS
  <2>4. CASE k < m
    <3>1. k \in 1..(m - 1)
      BY <2>4
    <3> QED
      BY <1>1, <2>1, <2>2, <3>1
  <2>5. CASE m < k
    <3>1. m \in 1..(k - 1)
      BY <2>5
    <3> QED
      BY <1>1, <2>1, <2>2, <3>1
  <2> QED
    BY <1>1, <2>1, <2>2, <2>3, <2>4, <2>5
<1>4. ASSUME p # q PROVE Lex(p, q) \/ Lex(q, p)
  <2> DEFINE Bad == {k \in Nat : k # 0 /\ RankAt(p, k) # RankAt(q, k)}
  <2>1. Bad # {} /\ Bad \subseteq Nat
    BY <1>4, RanksIdentify
  <2>2. PICK k \in Bad : \A y \in Bad : y >= k
    BY <2>1, Smallest
  <2>3. k \in Nat \ {0} /\ RankAt(p, k) # RankAt(q, k)
    OBVIOUS
  <2>4. \A j \in 1..(k - 1) : RankAt(p, j) = RankAt(q, j)
    <3> SUFFICES ASSUME NEW j \in 1..(k - 1), RankAt(p, j) # RankAt(q, j) PROVE FALSE
      OBVIOUS
    <3>1. j \in Bad
      BY <2>3
    <3>2. j >= k /\ j < k
      BY <2>2, <2>3, <3>1
    <3> QED
      BY <2>3, <3>2
  <2>5. RankAt(p, k) < RankAt(q, k) \/ RankAt(q, k) < RankAt(p, k)
    BY <1>1, <2>3
  <2> HIDE DEF Bad
  <2> QED
    BY <2>3, <2>4, <2>5 DEF Lex
<1> QED
  BY <1>2, <1>3, <1>4, PrecedesIsLex

\* And transitive.
LEMMA OrderIsTransitive ==
    ASSUME NEW p \in Seq(NameSet), NEW q \in Seq(NameSet), NEW s \in Seq(NameSet),
           Precedes(p, q), Precedes(q, s)
    PROVE  Precedes(p, s)
<1>1. \A k : RankAt(p, k) \in Nat /\ RankAt(q, k) \in Nat /\ RankAt(s, k) \in Nat
  BY RankAtFacts
<1>2. PICK k \in Nat \ {0} : RankAt(p, k) < RankAt(q, k)
                             /\ \A j \in 1..(k - 1) : RankAt(p, j) = RankAt(q, j)
  BY PrecedesIsLex DEF Lex
<1>3. PICK m \in Nat \ {0} : RankAt(q, m) < RankAt(s, m)
                             /\ \A j \in 1..(m - 1) : RankAt(q, j) = RankAt(s, j)
  BY PrecedesIsLex DEF Lex
<1> DEFINE n == IF k < m THEN k ELSE m
<1>4. n \in Nat \ {0} /\ n <= k /\ n <= m /\ (n = k \/ n = m)
  OBVIOUS
<1> HIDE DEF n
<1>5. \A j \in 1..(n - 1) : j \in 1..(k - 1) /\ j \in 1..(m - 1)
  BY <1>4
<1>6. \A j \in 1..(n - 1) : RankAt(p, j) = RankAt(s, j)
  BY <1>2, <1>3, <1>5
<1>7. RankAt(p, n) <= RankAt(q, n)
  <2>1. n = k \/ n \in 1..(k - 1)
    BY <1>4
  <2> QED
    BY <1>1, <1>2, <2>1
<1>8. RankAt(q, n) <= RankAt(s, n)
  <2>1. n = m \/ n \in 1..(m - 1)
    BY <1>4
  <2> QED
    BY <1>1, <1>3, <2>1
<1>9. RankAt(p, n) < RankAt(s, n)
  BY <1>1, <1>2, <1>3, <1>4, <1>7, <1>8
<1>10. Lex(p, s)
  BY <1>4, <1>6, <1>9 DEF Lex
<1> QED
  BY <1>10, PrecedesIsLex

\* Counting each element's predecessors, in an order that is strict and total, ranks them.
LEMMA Ranking ==
    ASSUME NEW I, IsFiniteSet(I), NEW B \in [I -> SUBSET I],
           \A i \in I : i \notin B[i],
           \A i, j \in I : j \in B[i] => B[j] \subseteq B[i],
           \A i, j \in I : i # j => i \in B[j] \/ j \in B[i]
    PROVE  /\ Cardinality(I) \in Nat /\ \A i \in I : Cardinality(B[i]) \in Nat
           /\ \A i, j \in I : j \in B[i] => Cardinality(B[j]) < Cardinality(B[i])
           /\ \A i, j \in I : Cardinality(B[i]) = Cardinality(B[j]) => i = j
           /\ \A k \in 1..Cardinality(I) : \E i \in I : Cardinality(B[i]) = k - 1
           /\ \A i \in I : Cardinality(B[i]) < Cardinality(I)
<1> DEFINE r == [i \in I |-> Cardinality(B[i])]
<1>1. Cardinality(I) \in Nat
  BY FS_CardinalityType
<1>2. ASSUME NEW i \in I
      PROVE  IsFiniteSet(B[i]) /\ Cardinality(B[i]) \in Nat /\ Cardinality(B[i]) < Cardinality(I)
  <2>1. B[i] \in SUBSET I /\ B[i] # I
    OBVIOUS
  <2>2. IsFiniteSet(B[i]) /\ Cardinality(B[i]) <= Cardinality(I)
        /\ (Cardinality(I) = Cardinality(B[i]) => I = B[i])
    BY <2>1, FS_Subset
  <2>3. Cardinality(B[i]) \in Nat
    BY <2>2, FS_CardinalityType
  <2> QED
    BY <1>1, <2>1, <2>2, <2>3
<1>3. ASSUME NEW i \in I, NEW j \in I, j \in B[i]
      PROVE  Cardinality(B[j]) < Cardinality(B[i])
  <2>1. B[j] \in SUBSET B[i] /\ B[j] # B[i]
    BY <1>3
  <2>2. Cardinality(B[j]) <= Cardinality(B[i])
        /\ (Cardinality(B[i]) = Cardinality(B[j]) => B[i] = B[j])
    BY <1>2, <2>1, FS_Subset
  <2> QED
    BY <1>2, <2>1, <2>2
<1>4. \A i, j \in I : Cardinality(B[i]) = Cardinality(B[j]) => i = j
  <2> SUFFICES ASSUME NEW i \in I, NEW j \in I, Cardinality(B[i]) = Cardinality(B[j]), i # j
               PROVE  FALSE
    OBVIOUS
  <2>1. i \in B[j] \/ j \in B[i]
    OBVIOUS
  <2> QED
    BY <1>2, <1>3, <2>1
<1>5. r \in [I -> Nat] /\ \A i \in I : r[i] = Cardinality(B[i])
  BY <1>2
<1> HIDE DEF r
<1>6. \A k \in 1..Cardinality(I) : \E i \in I : r[i] = k - 1
  BY <1>2, <1>4, <1>5, RanksAreTaken
<1> QED
  BY <1>1, <1>2, <1>3, <1>4, <1>5, <1>6

\* What discovery keeps of a candidate.
Source == [path : Seq(NameSet), id : Files, folder : Seq(Names), chain : SUBSET Ids]

\* The candidate that the sort puts k-th.
Sorted(k) == CHOOSE i \in DOMAIN candidates : Predecessors(i) = k - 1

\* The sort lists every candidate once, in order.
LEMMA SortedFacts ==
    ASSUME candidates \in Seq(Source), \A i, j \in DOMAIN candidates : ~Collides(i, j)
    PROVE  /\ \A k \in DOMAIN candidates : Sorted(k) \in DOMAIN candidates
           /\ \A i \in DOMAIN candidates : \E k \in DOMAIN candidates : Sorted(k) = i
           /\ \A k, m \in DOMAIN candidates : k < m =>
                 /\ Precedes(candidates[Sorted(k)].path, candidates[Sorted(m)].path)
                 /\ Key(candidates[Sorted(k)].path) # Key(candidates[Sorted(m)].path)
<1> DEFINE I == DOMAIN candidates
           path(i) == candidates[i].path
           Before(i) == {j \in I : Precedes(path(j), path(i))}
           B == [i \in I |-> Before(i)]
<1>1. I = 1..Len(candidates) /\ Len(candidates) \in Nat
  OBVIOUS
<1>2. IsFiniteSet(I) /\ Cardinality(I) = Len(candidates)
  BY <1>1, FS_Interval
<1>3. \A i \in I : path(i) \in Seq(NameSet)
  <2>1. \A i \in I : candidates[i] \in Source
    OBVIOUS
  <2> QED
    BY <2>1 DEF Source
<1>4. \A i, j \in I : i # j => path(i) # path(j) /\ Key(path(i)) # Key(path(j))
  BY DEF Collides
<1> HIDE DEF path, I
<1>5. \A i, j \in I : j \in Before(i) <=> Precedes(path(j), path(i))
  OBVIOUS
<1>6. \A i \in I : Before(i) \in SUBSET I
  OBVIOUS
<1> HIDE DEF Before
<1>7. B \in [I -> SUBSET I] /\ \A i \in I : B[i] = Before(i)
  BY <1>6
<1> HIDE DEF B
<1>8. \A i \in I : i \notin B[i]
  BY <1>3, <1>5, <1>7, OrderIsTotal
<1>9. \A i, j \in I : j \in B[i] => B[j] \subseteq B[i]
  <2> SUFFICES ASSUME NEW i \in I, NEW j \in I, j \in B[i], NEW m \in B[j] PROVE m \in B[i]
    OBVIOUS
  <2>1. m \in I
    BY <1>6, <1>7
  <2>2. Precedes(path(m), path(j)) /\ Precedes(path(j), path(i))
    BY <1>5, <1>7, <2>1
  <2>3. Precedes(path(m), path(i))
    BY <1>3, <2>1, <2>2, OrderIsTransitive
  <2> QED
    BY <1>5, <1>7, <2>1, <2>3
<1>10. \A i, j \in I : i # j => i \in B[j] \/ j \in B[i]
  BY <1>3, <1>4, <1>5, <1>7, OrderIsTotal
<1>11. /\ \A i \in I : Cardinality(B[i]) \in Nat
       /\ \A i, j \in I : j \in B[i] => Cardinality(B[j]) < Cardinality(B[i])
       /\ \A i, j \in I : Cardinality(B[i]) = Cardinality(B[j]) => i = j
       /\ \A k \in 1..Cardinality(I) : \E i \in I : Cardinality(B[i]) = k - 1
       /\ \A i \in I : Cardinality(B[i]) < Cardinality(I)
  BY <1>2, <1>7, <1>8, <1>9, <1>10, Ranking
<1>12. \A i \in I : Predecessors(i) = Cardinality(B[i])
  BY <1>7 DEF Predecessors, Before, path, I
<1>13. ASSUME NEW k \in I PROVE Sorted(k) \in I /\ Cardinality(B[Sorted(k)]) = k - 1
  <2>1. \E i \in I : Predecessors(i) = k - 1
    BY <1>1, <1>2, <1>11, <1>12
  <2>2. Sorted(k) \in I /\ Predecessors(Sorted(k)) = k - 1
    BY <2>1, Zenon DEF Sorted, I
  <2> QED
    BY <1>12, <2>2
<1>14. ASSUME NEW i \in I PROVE \E k \in I : Sorted(k) = i
  <2> DEFINE k == Cardinality(B[i]) + 1
  <2>0. \A n, c \in Nat : n < c => n + 1 \in 1..c /\ (n + 1) - 1 = n
    OBVIOUS
  <2>3. Cardinality(B[i]) \in Nat /\ Cardinality(B[i]) < Len(candidates)
    BY <1>2, <1>11
  <2>1. k \in I /\ k - 1 = Cardinality(B[i])
    BY <1>1, <2>0, <2>3
  <2> HIDE DEF k
  <2>2. Sorted(k) = i
    BY <1>11, <1>13, <2>1
  <2> QED
    BY <2>1, <2>2
<1>15. ASSUME NEW k \in I, NEW m \in I, k < m
       PROVE  /\ Precedes(path(Sorted(k)), path(Sorted(m)))
              /\ Key(path(Sorted(k))) # Key(path(Sorted(m)))
  <2>1. /\ Sorted(k) \in I /\ Cardinality(B[Sorted(k)]) = k - 1
        /\ Sorted(m) \in I /\ Cardinality(B[Sorted(m)]) = m - 1
    BY <1>13
  <2>2. k \in Int /\ m \in Int
    BY <1>1
  <2>3. Sorted(k) # Sorted(m)
    BY <1>15, <2>1, <2>2
  <2>4. ~(Sorted(m) \in B[Sorted(k)])
    <3>1. Sorted(m) \in B[Sorted(k)] => m - 1 < k - 1
      BY <1>11, <2>1
    <3> QED
      BY <1>15, <2>2, <3>1
  <2>5. Sorted(k) \in B[Sorted(m)]
    BY <1>10, <2>1, <2>3, <2>4
  <2> QED
    BY <1>4, <1>5, <1>7, <2>1, <2>3, <2>5
<1> QED
  BY <1>13, <1>14, <1>15 DEF I, path

\* The path of an item in the tree consists of names that the volume has.
LEMMA ReachedNames ==
    ASSUME NEW p \in Layouts, NEW x \in Points, Reaches(p, x)
    PROVE  PathTo(p, x) \in Seq(NameSet)
<1> DEFINE l == Line(p, x)
<1>1. Len(l) \in Nat \ {0} /\ \A i \in 2..Len(l) : l[i] \in Ids
  BY LineTyped
<1>2. ASSUME NEW i \in 2..Len(l) PROVE p[l[i]].as \in NameSet
  <2>1. l[i] \in Ids /\ i \in 1..Len(l)
    BY <1>1
  <2>2. Reaches(p, l[i])
    BY <2>1, LinesAreNested DEF Nested
  <2>3. p[l[i]].in \in Folders \cup {Volume} /\ p[l[i]] \in Place
    BY <2>1, <2>2, LineOfItem DEF Layouts
  <2>4. p[l[i]].in # Gone
    BY <2>3, CollectionFacts
  <2> QED
    BY <2>3, <2>4 DEF Place, Nowhere, NameSet
<1>3. PathTo(p, x) = [i \in 1..(Len(l) - 1) |-> p[l[i + 1]].as]
  BY DEF PathTo
<1> HIDE DEF l
<1>4. Len(l) - 1 \in Nat
  BY <1>1
<1>5. \A i \in 1..(Len(l) - 1) : i + 1 \in 2..Len(l)
  BY <1>1
<1>6. \A i \in 1..(Len(l) - 1) : p[l[i + 1]].as \in NameSet
  BY <1>2, <1>5
<1> QED
  BY <1>3, <1>4, <1>6

\* What discovery found has its type.
CandidatesTyped == candidates \in Seq(Source)

\* And keeps it.
LEMMA CandidatesTypedStep ==
    ASSUME VolumeInv, WalkType, CandidatesTyped, [Next]_vars
    PROVE  CandidatesTyped'
<1>0. <<>> \in Seq(Source)
  OBVIOUS
<1>1. CASE candidates' = candidates \/ candidates' = <<>>
  BY <1>0, <1>1, Zenon DEF CandidatesTyped
<1>2. CASE ~(candidates' = candidates \/ candidates' = <<>>)
  <2>1. PICK inspected \in Inspected(Head(page).path, Files) :
          candidates' = Append(candidates, CandidateOf(inspected))
    BY <1>2, CandidatesChange
  <2>2. Head(page).path \in Seq(Names)
    <3>1. page \in Seq(PageItem) /\ page # <<>>
      BY <1>2, CandidatesChange DEF WalkType
    <3>2. Head(page) \in PageItem
      BY <3>1
    <3> QED
      BY <3>2 DEF PageItem
  <2>3. /\ inspected.id \in Files /\ inspected.id \in Ids /\ Reaches(place, inspected.id)
        /\ inspected.path = PathTo(place, inspected.id)
    BY <2>2, InspectedTyped
  <2>4. inspected.path \in Seq(NameSet)
    BY <2>3, ReachedNames DEF VolumeInv, Points
  <2>5. Relative(inspected.path) \in Seq(NameSet)
    <3>1. Len(root.path) + 1 \in Int /\ Len(inspected.path) \in Int
      BY <2>4 DEF WalkType
    <3>2. \A i \in (Len(root.path) + 1)..Len(inspected.path) : inspected.path[i] \in NameSet
      <4>1. Len(root.path) \in Nat
        BY DEF WalkType
      <4> QED
        BY <2>4, <4>1
    <3> QED
      BY <3>1, <3>2, SubSeqProperties DEF Relative
  <2>6. current.path \in Seq(Names) /\ current.chain \in SUBSET Ids
    BY DEF WalkType, FolderRecord
  <2>7. CandidateOf(inspected) \in Source
    BY <2>3, <2>5, <2>6 DEF CandidateOf, Source
  <2> QED
    BY <2>1, <2>7 DEF CandidatesTyped
<1> QED
  BY <1>1, <1>2

\* A row of the review.
Revisions == {{}} \cup {{r} : r \in [id : Files, content : Nat]}
Verdicts == {"None", "Eligible", "NoTransform", "Unsupported", "Failed", "Cancelled",
             "SourceChangedAfterAnalysis"}
Endings == {"None", "Committed", "Failed", "SourceChangedAfterAnalysis"}
RowRecord == [source : Source, revision : Revisions, outcome : Verdicts, commit : Endings]
Progress == [discovered : Nat, complete : BOOLEAN, analyzed : Nat, eligible : Nat]
Judging == {"Review", "Capture", "Analyze", "Reviewed", "Execute", "Revalidate"}
Analyzed == {"Eligible", "NoTransform", "Unsupported"}
WithOf(rs, outcomes) == {i \in DOMAIN rs : rs[i].outcome \in outcomes}

\* The types of the review's data.
RowsTyped ==
    /\ content \in [Files -> Nat] /\ rows \in Seq(RowRecord) /\ next \in 1..(Len(rows) + 1)
    /\ progress \in Progress
    /\ pc \in {"Capture", "Analyze", "Execute", "Revalidate"} => next <= Len(rows)
    /\ pc \notin Judging => rows = <<>> /\ progress = NoProgress /\ next = 1

\* The rows before the current one have a verdict, and the progress counts them.
Judged ==
    /\ pc \in {"Review", "Capture", "Analyze"} =>
           \A k \in DOMAIN rows : rows[k].outcome = "None" <=> k >= next
    /\ pc \in {"Reviewed", "Execute", "Revalidate"} => \A k \in DOMAIN rows : rows[k].outcome # "None"
    /\ pc \in Judging => progress.discovered = Len(rows)
    /\ progress.analyzed = Cardinality(WithOf(rows, Analyzed))
    /\ progress.eligible = Cardinality(WithOf(rows, {"Eligible"}))

\* The rows are in order, and no two would share an output's name.
Ordered ==
    \A i, j \in DOMAIN rows : i < j =>
        /\ Precedes(rows[i].source.path, rows[j].source.path)
        /\ Key(rows[i].source.path) # Key(rows[j].source.path)

Reviewable == RowsTyped /\ Judged /\ Ordered

\* Before the rows there is nothing to count.
LEMMA NoRows ==
    ASSUME rows = <<>>, progress = NoProgress, next = 1, content \in [Files -> Nat],
           pc \notin Judging
    PROVE  Reviewable
<1>1. WithOf(rows, Analyzed) = {} /\ WithOf(rows, {"Eligible"}) = {}
  BY DEF WithOf
<1>2. progress.analyzed = 0 /\ progress.eligible = 0 /\ NoProgress \in Progress
  BY DEF NoProgress, Progress
<1>3. Judged
  BY <1>1, <1>2, FS_EmptySet DEF Judged, Judging
<1>4. RowsTyped
  BY <1>2 DEF RowsTyped, Judging
<1>5. Ordered
  BY DEF Ordered
<1> QED
  BY <1>3, <1>4, <1>5 DEF Reviewable

\* One row is replaced, and every other stays.
LEMMA RowReplaced ==
    ASSUME NEW rs \in Seq(RowRecord), NEW n \in 1..Len(rs), NEW row \in RowRecord,
           NEW qs, qs = [rs EXCEPT ![n] = row]
    PROVE  /\ qs \in Seq(RowRecord) /\ Len(qs) = Len(rs) /\ DOMAIN qs = DOMAIN rs
           /\ DOMAIN rs = 1..Len(rs) /\ qs[n] = row
           /\ \A k \in DOMAIN rs : k # n => qs[k] = rs[k]
OBVIOUS

\* A verdict changes a row's outcome only.
LEMMA OutcomeGiven ==
    ASSUME NEW rs \in Seq(RowRecord), NEW n \in 1..Len(rs), NEW outcome \in Verdicts,
           NEW qs, qs = [rs EXCEPT ![n].outcome = outcome]
    PROVE  /\ qs \in Seq(RowRecord) /\ Len(qs) = Len(rs) /\ DOMAIN qs = DOMAIN rs
           /\ DOMAIN rs = 1..Len(rs) /\ qs[n].outcome = outcome
           /\ \A k \in DOMAIN rs : qs[k].source = rs[k].source
           /\ \A k \in DOMAIN rs : k # n => qs[k].outcome = rs[k].outcome
<1> DEFINE row == [rs[n] EXCEPT !.outcome = outcome]
<1>1. rs[n] \in RowRecord
  OBVIOUS
<1>2. row \in RowRecord /\ row.outcome = outcome /\ row.source = rs[n].source
  BY <1>1 DEF RowRecord
<1>3. qs = [rs EXCEPT ![n] = row]
  OBVIOUS
<1> HIDE DEF row
<1> QED
  BY <1>2, <1>3, RowReplaced

\* A commit's end leaves the outcomes alone.
LEMMA CommitGiven ==
    ASSUME NEW rs \in Seq(RowRecord), NEW n \in 1..Len(rs), NEW commit \in Endings,
           NEW qs, qs = [rs EXCEPT ![n].commit = commit]
    PROVE  /\ qs \in Seq(RowRecord) /\ Len(qs) = Len(rs) /\ DOMAIN qs = DOMAIN rs
           /\ DOMAIN rs = 1..Len(rs)
           /\ \A k \in DOMAIN rs : qs[k].source = rs[k].source /\ qs[k].outcome = rs[k].outcome
<1> DEFINE row == [rs[n] EXCEPT !.commit = commit]
<1>1. rs[n] \in RowRecord
  OBVIOUS
<1>2. row \in RowRecord /\ row.outcome = rs[n].outcome /\ row.source = rs[n].source
  BY <1>1 DEF RowRecord
<1>3. qs = [rs EXCEPT ![n] = row]
  OBVIOUS
<1> HIDE DEF row
<1> QED
  BY <1>2, <1>3, RowReplaced

\* And so does a capture.
LEMMA RevisionGiven ==
    ASSUME NEW rs \in Seq(RowRecord), NEW n \in 1..Len(rs), NEW revision \in Revisions,
           NEW qs, qs = [rs EXCEPT ![n].revision = revision]
    PROVE  /\ qs \in Seq(RowRecord) /\ Len(qs) = Len(rs) /\ DOMAIN qs = DOMAIN rs
           /\ DOMAIN rs = 1..Len(rs)
           /\ \A k \in DOMAIN rs : qs[k].source = rs[k].source /\ qs[k].outcome = rs[k].outcome
<1> DEFINE row == [rs[n] EXCEPT !.revision = revision]
<1>1. rs[n] \in RowRecord
  OBVIOUS
<1>2. row \in RowRecord /\ row.outcome = rs[n].outcome /\ row.source = rs[n].source
  BY <1>1 DEF RowRecord
<1>3. qs = [rs EXCEPT ![n] = row]
  OBVIOUS
<1> HIDE DEF row
<1> QED
  BY <1>2, <1>3, RowReplaced

\* A verdict on a row that had none counts once, for the outcomes it is among.
LEMMA CountedOnce ==
    ASSUME NEW rs \in Seq(RowRecord), NEW n \in 1..Len(rs), NEW outcome, NEW qs,
           DOMAIN qs = 1..Len(rs), qs[n].outcome = outcome,
           \A k \in 1..Len(rs) : k # n => qs[k].outcome = rs[k].outcome,
           NEW outcomes, rs[n].outcome \notin outcomes
    PROVE  Cardinality(WithOf(qs, outcomes))
             = Cardinality(WithOf(rs, outcomes)) + (IF outcome \in outcomes THEN 1 ELSE 0)
<1>1. /\ DOMAIN qs = DOMAIN rs /\ DOMAIN rs = 1..Len(rs) /\ qs[n].outcome = outcome
      /\ \A k \in DOMAIN rs : k # n => qs[k].outcome = rs[k].outcome
  OBVIOUS
<1>2. n \notin WithOf(rs, outcomes) /\ n \in DOMAIN rs
  BY <1>1 DEF WithOf
<1>3. WithOf(qs, outcomes) = IF outcome \in outcomes THEN WithOf(rs, outcomes) \cup {n}
                             ELSE WithOf(rs, outcomes)
  BY <1>1, <1>2 DEF WithOf
<1>4. IsFiniteSet(WithOf(rs, outcomes))
  <2>1. IsFiniteSet(1..Len(rs))
    <3>1. Len(rs) \in Int /\ 1 \in Int
      OBVIOUS
    <3>2. \A a, b \in Int : IsFiniteSet(a..b)
      BY FS_Interval
    <3> QED
      BY <3>1, <3>2, Zenon
  <2>2. WithOf(rs, outcomes) \in SUBSET (1..Len(rs))
    BY <1>1 DEF WithOf
  <2> QED
    BY <2>1, <2>2, FS_Subset
<1>5. Cardinality(WithOf(rs, outcomes)) \in Nat
  BY <1>4, FS_CardinalityType
<1>6. Cardinality(WithOf(rs, outcomes) \cup {n}) = Cardinality(WithOf(rs, outcomes)) + 1
  BY <1>2, <1>4, FS_AddElement
<1> QED
  BY <1>3, <1>5, <1>6

\* Rows with the same outcomes are counted alike.
LEMMA CountedAlike ==
    ASSUME NEW rs, NEW qs, DOMAIN qs = DOMAIN rs,
           \A k \in DOMAIN rs : qs[k].outcome = rs[k].outcome, NEW outcomes
    PROVE  WithOf(qs, outcomes) = WithOf(rs, outcomes)
BY DEF WithOf

\* A verdict keeps the review exact when the progress counts it.
LEMMA RowDoneReviews ==
    ASSUME Reviewable, pc \in {"Review", "Capture", "Analyze"}, next <= Len(rows),
           NEW outcome \in Verdicts, outcome # "None", RowDone(outcome), progress' \in Progress,
           progress'.discovered = progress.discovered,
           progress'.analyzed = progress.analyzed + (IF outcome \in Analyzed THEN 1 ELSE 0),
           progress'.eligible = progress.eligible + (IF outcome \in {"Eligible"} THEN 1 ELSE 0)
    PROVE  Reviewable'
<1>1. /\ rows' = [rows EXCEPT ![next].outcome = outcome] /\ next' = next + 1 /\ pc' = "Review"
      /\ content' = content
  BY DEF RowDone, Untouched, volume
<1>2. /\ rows \in Seq(RowRecord) /\ next \in 1..(Len(rows) + 1) /\ content \in [Files -> Nat]
      /\ pc \in Judging
  BY DEF Reviewable, RowsTyped, Judging
<1>3. next \in 1..Len(rows) /\ Len(rows) \in Nat
  BY <1>2
<1>4. /\ rows' \in Seq(RowRecord) /\ Len(rows') = Len(rows) /\ DOMAIN rows' = DOMAIN rows
      /\ DOMAIN rows = 1..Len(rows) /\ rows'[next].outcome = outcome
      /\ \A k \in DOMAIN rows : rows'[k].source = rows[k].source
      /\ \A k \in DOMAIN rows : k # next => rows'[k].outcome = rows[k].outcome
  BY <1>1, <1>2, <1>3, OutcomeGiven
<1>5. RowsTyped'
  BY <1>1, <1>2, <1>3, <1>4 DEF RowsTyped, Judging
<1>6. Ordered'
  BY <1>4 DEF Reviewable, Ordered
<1>7. \A k \in DOMAIN rows : rows[k].outcome = "None" <=> k >= next
  BY DEF Reviewable, Judged
<1>8. rows[next].outcome = "None" /\ next \in Int
  BY <1>3, <1>4, <1>7
<1>9. /\ Cardinality(WithOf(rows', Analyzed))
           = Cardinality(WithOf(rows, Analyzed)) + (IF outcome \in Analyzed THEN 1 ELSE 0)
      /\ Cardinality(WithOf(rows', {"Eligible"}))
           = Cardinality(WithOf(rows, {"Eligible"})) + (IF outcome \in {"Eligible"} THEN 1 ELSE 0)
  <2>1. rows[next].outcome \notin Analyzed /\ rows[next].outcome \notin {"Eligible"}
    BY <1>8 DEF Analyzed
  <2> DEFINE rs == rows
             qs == rows'
             n == next
  <2>2. /\ rs \in Seq(RowRecord) /\ n \in 1..Len(rs)
        /\ DOMAIN qs = 1..Len(rs) /\ qs[n].outcome = outcome
        /\ \A k \in 1..Len(rs) : k # n => qs[k].outcome = rs[k].outcome
        /\ rs[n].outcome \notin Analyzed /\ rs[n].outcome \notin {"Eligible"}
    BY <1>2, <1>3, <1>4, <2>1
  <2> HIDE DEF rs, qs, n
  <2>3. Cardinality(WithOf(qs, Analyzed))
           = Cardinality(WithOf(rs, Analyzed)) + (IF outcome \in Analyzed THEN 1 ELSE 0)
    BY <2>2, CountedOnce
  <2>4. Cardinality(WithOf(qs, {"Eligible"}))
           = Cardinality(WithOf(rs, {"Eligible"})) + (IF outcome \in {"Eligible"} THEN 1 ELSE 0)
    BY <2>2, CountedOnce
  <2> QED
    BY <2>3, <2>4 DEF rs, qs
<1>10. ASSUME NEW k \in DOMAIN rows PROVE rows'[k].outcome = "None" <=> k >= next + 1
  <2>1. k \in Int
    BY <1>4
  <2>2. CASE k = next
    BY <1>4, <1>8, <2>2
  <2>3. CASE k # next
    BY <1>4, <1>7, <1>8, <2>1, <2>3
  <2> QED
    BY <2>2, <2>3
<1>11. Judged'
  BY <1>1, <1>2, <1>4, <1>9, <1>10 DEF Reviewable, Judged
<1> QED
  BY <1>5, <1>6, <1>11 DEF Reviewable

\* A step that leaves the sources and the outcomes alone keeps it exact.
LEMMA OutcomesKeepReview ==
    ASSUME Reviewable, rows' \in Seq(RowRecord), Len(rows') = Len(rows),
           DOMAIN rows' = DOMAIN rows, DOMAIN rows = 1..Len(rows),
           \A k \in DOMAIN rows : rows'[k].source = rows[k].source
                                  /\ rows'[k].outcome = rows[k].outcome,
           progress' = progress, content' = content, pc' \in Judging, pc \in Judging,
           next' \in 1..(Len(rows) + 1),
           pc' \in {"Capture", "Analyze", "Execute", "Revalidate"} => next' <= Len(rows),
           pc' \in {"Review", "Capture", "Analyze"} =>
               next' = next /\ pc \in {"Review", "Capture", "Analyze"},
           pc' \in {"Reviewed", "Execute", "Revalidate"} =>
               pc \in {"Reviewed", "Execute", "Revalidate"} \/ next > Len(rows)
    PROVE  Reviewable'
<1>1. RowsTyped'
  BY DEF Reviewable, RowsTyped
<1>2. Ordered'
  BY DEF Reviewable, Ordered
<1>3. WithOf(rows', Analyzed) = WithOf(rows, Analyzed)
      /\ WithOf(rows', {"Eligible"}) = WithOf(rows, {"Eligible"})
  BY CountedAlike
<1>4. ASSUME pc' \in {"Reviewed", "Execute", "Revalidate"}, NEW k \in DOMAIN rows PROVE rows'[k].outcome # "None"
  <2>1. CASE pc \in {"Reviewed", "Execute", "Revalidate"}
    BY <1>4, <2>1 DEF Reviewable, Judged
  <2>2. CASE pc \notin {"Reviewed", "Execute", "Revalidate"}
    <3>1. pc \in {"Review", "Capture", "Analyze"} /\ next > Len(rows) /\ k <= Len(rows) /\ k \in Int
      BY <1>4, <2>2 DEF Judging
    <3>2. next \in Int /\ Len(rows) \in Int
      BY DEF Reviewable, RowsTyped
    <3>3. ~(k >= next)
      BY <3>1, <3>2
    <3> QED
      BY <1>4, <3>1, <3>3 DEF Reviewable, Judged
  <2> QED
    BY <2>1, <2>2
<1>5. Judged'
  BY <1>3, <1>4 DEF Reviewable, Judged
<1> QED
  BY <1>1, <1>2, <1>5 DEF Reviewable

\* The collation gives the review its rows, in order, without verdicts.
LEMMA CollateReviews ==
    ASSUME Reviewable, CandidatesTyped, Collate
    PROVE  Reviewable'
<1>0. /\ rows = <<>> /\ progress = NoProgress /\ next = 1 /\ content \in [Files -> Nat]
  BY DEF Reviewable, RowsTyped, Judging, Collate
<1>1. CASE FailReview
  <2>1. /\ rows' = <<>> /\ progress' = NoProgress /\ next' = 1 /\ content' \in [Files -> Nat]
        /\ pc' = "Failed"
    BY <1>0, <1>1 DEF FailReview, review, volume
  <2>2. pc' \notin Judging
    BY <2>1 DEF Judging
  <2>3. /\ WithOf(rows', Analyzed) = {} /\ WithOf(rows', {"Eligible"}) = {}
    BY <2>1 DEF WithOf
  <2>4. progress'.analyzed = 0 /\ progress'.eligible = 0 /\ NoProgress \in Progress
    BY <2>1 DEF NoProgress, Progress
  <2>5. Judged'
    BY <2>1, <2>2, <2>3, <2>4, FS_EmptySet DEF Judged, Judging
  <2>6. RowsTyped'
    BY <2>1, <2>2, <2>4 DEF RowsTyped, Judging
  <2>7. Ordered'
    BY <2>1 DEF Ordered
  <2> QED
    BY <2>5, <2>6, <2>7 DEF Reviewable
<1>2. CASE ~FailReview
  <2>1. /\ \A i, j \in DOMAIN candidates : ~Collides(i, j)
        /\ rows' = [k \in DOMAIN candidates |-> Row(candidates[Sorted(k)])]
        /\ progress' = [progress EXCEPT !.discovered = Len(candidates),
                                        !.complete = ~cancellationRequested]
        /\ pc' = "Review" /\ next' = next /\ content' = content
    BY <1>2 DEF Collate, Sorted, volume
  <2>2. candidates \in Seq(Source) /\ DOMAIN candidates = 1..Len(candidates) /\ Len(candidates) \in Nat
    BY DEF CandidatesTyped
  <2>3. /\ \A k \in DOMAIN candidates : Sorted(k) \in DOMAIN candidates
        /\ \A k, m \in DOMAIN candidates : k < m =>
              /\ Precedes(candidates[Sorted(k)].path, candidates[Sorted(m)].path)
              /\ Key(candidates[Sorted(k)].path) # Key(candidates[Sorted(m)].path)
    BY <2>1, <2>2, SortedFacts
  <2>4. ASSUME NEW k \in DOMAIN candidates
        PROVE  /\ rows'[k] \in RowRecord /\ rows'[k].source = candidates[Sorted(k)]
               /\ rows'[k].outcome = "None"
    <3>1. candidates[Sorted(k)] \in Source
      BY <2>2, <2>3
    <3>2. rows'[k] = [source |-> candidates[Sorted(k)], revision |-> {}, outcome |-> "None",
                      commit |-> "None"]
      BY <2>1 DEF Row
    <3> QED
      BY <3>1, <3>2 DEF RowRecord, Revisions, Verdicts, Endings
  <2>5. /\ DOMAIN rows' = 1..Len(candidates) /\ rows' = [k \in 1..Len(candidates) |-> rows'[k]]
    BY <2>1, <2>2
  <2>6. rows' \in Seq(RowRecord) /\ Len(rows') = Len(candidates)
    BY <2>2, <2>4, <2>5
  <2>7. /\ progress' \in Progress /\ progress'.discovered = Len(candidates)
        /\ progress'.analyzed = 0 /\ progress'.eligible = 0
    BY <1>0, <2>1, <2>2 DEF NoProgress, Progress
  <2>8. RowsTyped'
    BY <1>0, <2>1, <2>6, <2>7 DEF RowsTyped, Judging
  <2>9. Ordered'
    BY <2>2, <2>3, <2>4, <2>5 DEF Ordered
  <2>10. WithOf(rows', Analyzed) = {} /\ WithOf(rows', {"Eligible"}) = {}
    BY <2>2, <2>4, <2>5 DEF WithOf, Analyzed
  <2>11. \A k \in DOMAIN rows' : rows'[k].outcome = "None" /\ k >= next'
    BY <1>0, <2>1, <2>2, <2>4, <2>5
  <2>12. Judged'
    BY <2>1, <2>6, <2>7, <2>10, <2>11, FS_EmptySet DEF Judged
  <2> QED
    BY <2>8, <2>9, <2>12 DEF Reviewable
<1> QED
  BY <1>1, <1>2

\* Discovery, other programs and the user leave the review alone.
LEMMA ReviewKept ==
    ASSUME Reviewable, [Next]_vars, ~Analyze, ~Commit
    PROVE  Reviewable'
<1> USE DEF review
<1>1. /\ rows' = rows /\ next' = next /\ progress' = progress
      /\ pc' = pc \/ (pc \notin Judging /\ pc' \notin Judging)
  <2>1. CASE UNCHANGED vars \/ Relocate \/ EditFile \/ RequestStop \/ Ended
    BY <2>1 DEF Relocate, EditFile, RequestStop, Ended, vars
  <2>2. FailReview => rows' = rows /\ next' = next /\ progress' = progress /\ pc' = "Failed"
    BY DEF FailReview
  <2> USE DEF Judging
  <2>3. CASE RefuseRequest \/ BeginCancelled \/ InspectRoot \/ RunOutOfMemory
    BY <2>2, <2>3 DEF RefuseRequest, BeginCancelled, InspectRoot, RunOutOfMemory
  <2>4. CASE InspectExclusion \/ StartTraversal
    BY <2>2, <2>4 DEF InspectExclusion, StartTraversal
  <2>5. CASE TakeFolder \/ FinishTraversal \/ EndPage
    BY <2>5 DEF TakeFolder, FinishTraversal, EndPage
  <2>6. CASE GetPage
    BY <2>6 DEF GetPage, LeaveFolder
  <2>7. CASE ReadAttributes
    BY <2>7 DEF ReadAttributes, ItemFailed, ItemDone
  <2>8. CASE InspectListedItem
    BY <2>8 DEF InspectListedItem, ItemFailed, AdmitFolder, AdmitFile, ItemDone
  <2> QED
    BY <2>1, <2>3, <2>4, <2>5, <2>6, <2>7, <2>8 DEF Next, Discover
<1>2. content' \in [Files -> Nat]
  <2>1. content \in [Files -> Nat]
    BY DEF Reviewable, RowsTyped
  <2>2. CASE EditFile
    <3>1. PICK f \in Files : content' = [content EXCEPT ![f] = content[f] + 1]
      BY <2>2 DEF EditFile
    <3> QED
      BY <2>1, <3>1
  <2>3. CASE ~EditFile
    <3> USE DEF volume
    <3>1. CASE UNCHANGED vars \/ Relocate \/ RequestStop \/ Ended
      BY <2>1, <3>1 DEF Relocate, RequestStop, Ended, vars
    <3>2. FailReview => content' = content
      BY DEF FailReview
    <3>3. CASE RefuseRequest \/ BeginCancelled \/ InspectRoot \/ RunOutOfMemory
      BY <2>1, <3>2, <3>3 DEF RefuseRequest, BeginCancelled, InspectRoot, RunOutOfMemory
    <3>4. CASE InspectExclusion \/ StartTraversal
      BY <2>1, <3>2, <3>4 DEF InspectExclusion, StartTraversal
    <3>5. CASE TakeFolder \/ FinishTraversal \/ EndPage
      BY <2>1, <3>5 DEF TakeFolder, FinishTraversal, EndPage
    <3>6. CASE GetPage
      BY <2>1, <3>6 DEF GetPage, LeaveFolder
    <3>7. CASE ReadAttributes
      BY <2>1, <3>7 DEF ReadAttributes, ItemFailed, ItemDone
    <3>8. CASE InspectListedItem
      BY <2>1, <3>8 DEF InspectListedItem, ItemFailed, AdmitFolder, AdmitFile, ItemDone
    <3> QED
      BY <2>3, <3>1, <3>3, <3>4, <3>5, <3>6, <3>7, <3>8 DEF Next, Discover
  <2> QED
    BY <2>2, <2>3
<1>3. RowsTyped'
  BY <1>1, <1>2 DEF Reviewable, RowsTyped, Judging
<1>4. Judged'
  BY <1>1 DEF Reviewable, Judged, Judging
<1>5. Ordered'
  BY <1>1 DEF Reviewable, Ordered
<1> QED
  BY <1>3, <1>4, <1>5 DEF Reviewable

\* The review of each row ends with one verdict, and a capture precedes the last.
LEMMA AnalyzeReviews ==
    ASSUME Reviewable, SkipRow \/ InspectSource \/ CaptureSource \/ AnalyzeSource \/ FinishReview
    PROVE  Reviewable'
<1>0. /\ rows \in Seq(RowRecord) /\ next \in 1..(Len(rows) + 1) /\ progress \in Progress
      /\ Len(rows) \in Nat /\ DOMAIN rows = 1..Len(rows)
      /\ pc \in {"Capture", "Analyze", "Execute", "Revalidate"} => next <= Len(rows)
  BY DEF Reviewable, RowsTyped
<1>1. ASSUME NEW outcome \in {"Failed", "Cancelled", "SourceChangedAfterAnalysis"},
             RowDone(outcome), progress' = progress, pc \in {"Review", "Capture", "Analyze"},
             next <= Len(rows)
      PROVE  Reviewable'
  <2>1. outcome \in Verdicts /\ outcome # "None" /\ outcome \notin Analyzed /\ outcome \notin {"Eligible"}
    BY DEF Analyzed, Verdicts
  <2>2. /\ progress'.analyzed = progress.analyzed + (IF outcome \in Analyzed THEN 1 ELSE 0)
        /\ progress'.eligible = progress.eligible + (IF outcome \in {"Eligible"} THEN 1 ELSE 0)
    BY <1>0, <1>1, <2>1 DEF Progress
  <2> QED
    BY <1>0, <1>1, <2>1, <2>2, RowDoneReviews
<1>2. ASSUME rows' = rows, next' = next, progress' = progress, content' = content,
             pc \in {"Review", "Capture", "Analyze"}, pc' \in Judging \ {"Execute", "Revalidate"},
             pc' \in {"Capture", "Analyze"} => next <= Len(rows),
             pc' = "Reviewed" => next > Len(rows)
      PROVE  Reviewable'
  <2>1. pc \in Judging /\ pc' \in Judging
    BY <1>2 DEF Judging
  <2> QED
    BY <1>0, <1>2, <2>1, OutcomesKeepReview DEF Judging
<1> USE DEF Reviewing, Untouched, volume, review
<1>3. CASE SkipRow
  <2>1. RowDone("Cancelled") /\ progress' = progress /\ pc = "Review" /\ next <= Len(rows)
    BY <1>3 DEF SkipRow
  <2> QED
    BY <1>1, <2>1
<1>4. CASE InspectSource
  <2>1. /\ pc = "Review" /\ next <= Len(rows) /\ progress' = progress
        /\ \/ \E outcome \in {"Failed", "SourceChangedAfterAnalysis"} : RowDone(outcome)
           \/ rows' = rows /\ next' = next /\ content' = content /\ pc' = "Capture"
    BY <1>4 DEF InspectSource
  <2> QED
    BY <1>1, <1>2, <2>1 DEF Judging
<1>5. CASE CaptureSource
  <2>0. pc = "Capture" /\ next <= Len(rows) /\ next \in 1..Len(rows) /\ progress' = progress
    BY <1>0, <1>5 DEF CaptureSource
  <2>1. CASE \E outcome \in {"Failed", "Cancelled"} : RowDone(outcome)
    BY <1>1, <2>0, <2>1
  <2>2. CASE ~\E outcome \in {"Failed", "Cancelled"} : RowDone(outcome)
    <3> DEFINE source == Resolve(LeafPath(rows[next]))
               read == {[id |-> source, content |-> content[source]]}
    <3>1. /\ source \in Files /\ rows' = [rows EXCEPT ![next].revision = read]
          /\ pc' = "Analyze" /\ next' = next /\ content' = content
      BY <1>5, <2>2 DEF CaptureSource
    <3>2. read \in Revisions
      <4>1. content[source] \in Nat
        BY <3>1 DEF Reviewable, RowsTyped
      <4> QED
        BY <3>1, <4>1 DEF Revisions
    <3> HIDE DEF read, source
    <3>3. /\ rows' \in Seq(RowRecord) /\ Len(rows') = Len(rows) /\ DOMAIN rows' = DOMAIN rows
          /\ \A k \in DOMAIN rows : rows'[k].source = rows[k].source
                                    /\ rows'[k].outcome = rows[k].outcome
      <4>1. /\ rows \in Seq(RowRecord) /\ next \in 1..Len(rows) /\ read \in Revisions
            /\ rows' = [rows EXCEPT ![next].revision = read]
        BY <1>0, <2>0, <3>1, <3>2
      <4> QED
        BY <4>1, RevisionGiven
    <3>4. pc' \in Judging /\ pc \in Judging
      BY <2>0, <3>1 DEF Judging
    <3>5. pc' = "Analyze" /\ pc = "Capture" /\ next' = next /\ next <= Len(rows)
      BY <2>0, <3>1
    <3> QED
      BY <1>0, <2>0, <3>1, <3>3, <3>4, <3>5, OutcomesKeepReview
  <2> QED
    BY <2>1, <2>2
<1>6. CASE AnalyzeSource
  <2>0. pc = "Analyze" /\ next <= Len(rows)
    BY <1>0, <1>6 DEF AnalyzeSource
  <2>1. CASE RowDone("Cancelled") /\ progress' = progress
    BY <1>1, <2>0, <2>1
  <2>2. CASE ~(RowDone("Cancelled") /\ progress' = progress)
    <3>1. PICK outcome \in {"Eligible", "NoTransform", "Unsupported"} :
            /\ RowDone(outcome)
            /\ progress' = [progress EXCEPT !.analyzed = progress.analyzed + 1,
                 !.eligible = progress.eligible + (IF outcome = "Eligible" THEN 1 ELSE 0)]
      BY <1>6, <2>2 DEF AnalyzeSource
    <3>2. outcome \in Verdicts /\ outcome # "None" /\ outcome \in Analyzed
      BY DEF Analyzed, Verdicts
    <3>3. /\ progress' \in Progress /\ progress'.discovered = progress.discovered
          /\ progress'.analyzed = progress.analyzed + 1
          /\ progress'.eligible = progress.eligible + (IF outcome \in {"Eligible"} THEN 1 ELSE 0)
      <4> DEFINE one == IF outcome = "Eligible" THEN 1 ELSE 0
      <4>1. one \in Nat /\ (IF outcome \in {"Eligible"} THEN 1 ELSE 0) = one
        OBVIOUS
      <4>2. progress' = [progress EXCEPT !.analyzed = progress.analyzed + 1,
                                         !.eligible = progress.eligible + one]
        BY <3>1
      <4> HIDE DEF one
      <4>3. /\ progress' \in Progress /\ progress'.discovered = progress.discovered
            /\ progress'.analyzed = progress.analyzed + 1
            /\ progress'.eligible = progress.eligible + one
        <5>1. progress \in [discovered : Nat, complete : BOOLEAN, analyzed : Nat, eligible : Nat]
          BY <1>0 DEF Progress
        <5>2. progress.analyzed + 1 \in Nat /\ progress.eligible + one \in Nat
          BY <4>1, <5>1
        <5> DEFINE more == progress.analyzed + 1
                   sum == progress.eligible + one
        <5>3. progress' = [progress EXCEPT !.analyzed = more, !.eligible = sum]
          BY <4>2
        <5>4. more \in Nat /\ sum \in Nat
          BY <5>2
        <5> HIDE DEF more, sum
        <5>5. /\ progress' \in [discovered : Nat, complete : BOOLEAN, analyzed : Nat, eligible : Nat]
              /\ progress'.discovered = progress.discovered
              /\ progress'.analyzed = more /\ progress'.eligible = sum
          BY <5>1, <5>3, <5>4
        <5> QED
          BY <5>5 DEF Progress, more, sum
      <4> QED
        BY <4>1, <4>3
    <3> QED
      BY <2>0, <3>1, <3>2, <3>3, RowDoneReviews
  <2> QED
    BY <2>1, <2>2
<1>7. CASE FinishReview
  <2>1. /\ pc = "Review" /\ next > Len(rows) /\ pc' = "Reviewed"
        /\ rows' = rows /\ next' = next /\ progress' = progress /\ content' = content
    BY <1>7 DEF FinishReview
  <2> QED
    BY <1>2, <2>1 DEF Judging
<1> QED
  BY <1>3, <1>4, <1>5, <1>6, <1>7

\* A commit leaves the outcomes of the review alone.
LEMMA CommitReviews ==
    ASSUME Reviewable, Commit
    PROVE  Reviewable'
<1>0. /\ rows \in Seq(RowRecord) /\ next \in 1..(Len(rows) + 1)
      /\ Len(rows) \in Nat /\ DOMAIN rows = 1..Len(rows)
      /\ pc \in {"Capture", "Analyze", "Execute", "Revalidate"} => next <= Len(rows)
  BY DEF Reviewable, RowsTyped
<1>1. pc \in {"Reviewed", "Execute", "Revalidate"} /\ pc \in Judging
  BY DEF Commit, InspectForCommit, OpenSource, RevalidateSource, Judging
<1>2. /\ progress' = progress /\ content' = content
      /\ \/ \E i \in 1..Len(rows) :
               \E outcome \in {"Failed", "SourceChangedAfterAnalysis", "Committed"} :
                   CommitEnds(i, outcome)
         \/ rows' = rows /\ next' \in 1..Len(rows) /\ pc' \in {"Execute", "Revalidate"}
  <2> USE DEF Untouched, volume
  <2>1. CASE InspectForCommit
    <3>1. PICK i \in DOMAIN rows :
            \/ \E outcome \in {"Failed", "SourceChangedAfterAnalysis"} : CommitEnds(i, outcome)
            \/ next' = i /\ pc' = "Execute" /\ rows' = rows /\ progress' = progress /\ content' = content
      BY <2>1 DEF InspectForCommit
    <3> QED
      BY <1>0, <3>1 DEF CommitEnds
  <2>2. CASE OpenSource
    <3>1. next \in 1..Len(rows)
      BY <1>0, <2>2 DEF OpenSource
    <3>2. \/ \E outcome \in {"Failed", "SourceChangedAfterAnalysis"} : CommitEnds(next, outcome)
          \/ /\ next' = next /\ pc' = "Revalidate" /\ rows' = rows
             /\ progress' = progress /\ content' = content
      BY <2>2 DEF OpenSource
    <3> QED
      BY <3>1, <3>2 DEF CommitEnds
  <2>3. CASE RevalidateSource
    <3>1. /\ pc = "Revalidate"
          /\ \E outcome \in {"Failed", "SourceChangedAfterAnalysis", "Committed"} :
                 CommitEnds(next, outcome)
      BY <2>3 DEF RevalidateSource
    <3>2. next \in 1..Len(rows)
      BY <1>0, <3>1
    <3> QED
      BY <3>1, <3>2 DEF CommitEnds
  <2> QED
    BY <2>1, <2>2, <2>3 DEF Commit
<1>3. CASE \E i \in 1..Len(rows) :
               \E outcome \in {"Failed", "SourceChangedAfterAnalysis", "Committed"} :
                   CommitEnds(i, outcome)
  <2>1. PICK i \in 1..Len(rows), outcome \in {"Failed", "SourceChangedAfterAnalysis", "Committed"} :
          CommitEnds(i, outcome)
    BY <1>3
  <2>2. /\ rows' = [rows EXCEPT ![i].commit = outcome] /\ pc' = "Reviewed"
        /\ next' = Len(rows) + 1 /\ outcome \in Endings
    BY <2>1 DEF CommitEnds, Endings
  <2>4. /\ rows' \in Seq(RowRecord) /\ Len(rows') = Len(rows) /\ DOMAIN rows' = DOMAIN rows
        /\ \A k \in DOMAIN rows : rows'[k].source = rows[k].source
                                  /\ rows'[k].outcome = rows[k].outcome
    <3> DEFINE rs == rows
               qs == rows'
    <3>1. rs \in Seq(RowRecord) /\ i \in 1..Len(rs) /\ outcome \in Endings
      BY <1>0, <2>2
    <3>2. qs = [rs EXCEPT ![i].commit = outcome]
      BY <2>2
    <3> HIDE DEF rs, qs
    <3>3. /\ qs \in Seq(RowRecord) /\ Len(qs) = Len(rs) /\ DOMAIN qs = DOMAIN rs
          /\ \A k \in DOMAIN rs : qs[k].source = rs[k].source /\ qs[k].outcome = rs[k].outcome
      BY <3>1, <3>2, CommitGiven, SMTT(30)
    <3> QED
      BY <3>3 DEF rs, qs
  <2>5. pc' \in Judging /\ next' \in 1..(Len(rows) + 1)
    BY <1>0, <2>2 DEF Judging
  <2> QED
    BY <1>0, <1>1, <1>2, <2>2, <2>4, <2>5, OutcomesKeepReview
<1>4. CASE rows' = rows /\ next' \in 1..Len(rows) /\ pc' \in {"Execute", "Revalidate"}
  <2>1. pc' \in Judging /\ next' \in 1..(Len(rows) + 1) /\ next' <= Len(rows)
    BY <1>0, <1>4 DEF Judging
  <2> QED
    BY <1>0, <1>1, <1>2, <1>4, <2>1, OutcomesKeepReview
<1> QED
  BY <1>2, <1>3, <1>4

\* Every step keeps the review exact.
LEMMA ReviewStep ==
    ASSUME Reviewable, CandidatesTyped, [Next]_vars
    PROVE  Reviewable'
<1>1. CASE ~Analyze /\ ~Commit
  BY <1>1, ReviewKept
<1>2. CASE Analyze
  BY <1>2, CollateReviews, AnalyzeReviews DEF Analyze
<1>3. CASE Commit
  BY <1>3, CommitReviews
<1> QED
  BY <1>1, <1>2, <1>3

-----------------------------------------------------------------------------
(* The review leaves nothing out.                                          *)

\* Below a point on the way to an item there is a next one.
LEMMA ChildOnLine ==
    ASSUME NEW p \in Layouts, NEW f \in Points, NEW y, Reaches(p, f), On(p, y, f), y # f
    PROVE  \E x \in Ids : On(p, x, f) /\ p[x].in = y /\ Reaches(p, x)
<1>1. PICK i \in 1..Len(Line(p, f)) : Line(p, f)[i] = y
  BY OnLine
<1>2. /\ Len(Line(p, f)) \in Nat /\ Line(p, f)[Len(Line(p, f))] = f
      /\ \A j \in 2..Len(Line(p, f)) : Line(p, f)[j] \in Ids
  BY LineTyped
<1>3. i + 1 \in 2..Len(Line(p, f)) /\ i + 1 \in 1..Len(Line(p, f)) /\ i \in Nat
  BY <1>1, <1>2
<1> DEFINE x == Line(p, f)[i + 1]
<1>4. x \in Ids /\ On(p, x, f)
  BY <1>2, <1>3, OnLine
<1>5. /\ Reaches(p, x) /\ Len(Line(p, x)) = i + 1
      /\ \A j \in 1..(i + 1) : Line(p, x)[j] = Line(p, f)[j]
  BY <1>3, LinesAreNested DEF Nested
<1> HIDE DEF x
<1> DEFINE q == p[x].in
<1>6. Line(p, x) = Append(Line(p, q), x) /\ q \in Points
  BY <1>4, <1>5, LineOfItem, ParentIsPoint
<1>7. Line(p, q) \in Seq(Points) /\ Len(Line(p, q)) \in Nat /\ Line(p, q)[Len(Line(p, q))] = q
  BY <1>6, LineTyped
<1> HIDE DEF q
<1>8. Len(Line(p, q)) = i /\ Append(Line(p, q), x)[i] = Line(p, q)[i]
  BY <1>3, <1>5, <1>6, <1>7
<1>9. q = y
  <2>1. i \in 1..(i + 1)
    BY <1>3
  <2> QED
    BY <1>1, <1>5, <1>6, <1>7, <1>8, <2>1
<1> QED
  BY <1>4, <1>5, <1>9 DEF q

\* Being on the way is transitive.
LEMMA OnLineTransitive ==
    ASSUME NEW p \in Layouts, NEW f \in Points, NEW y \in Points, NEW z, Reaches(p, f),
           On(p, y, f), On(p, z, y)
    PROVE  On(p, z, f) /\ Reaches(p, y)
<1>1. PICK i \in 1..Len(Line(p, f)) : Line(p, f)[i] = y
  BY OnLine
<1>2. /\ Reaches(p, y) /\ Len(Line(p, y)) = i
      /\ \A j \in 1..i : Line(p, y)[j] = Line(p, f)[j]
  BY <1>1, LinesAreNested DEF Nested
<1>3. PICK j \in 1..Len(Line(p, y)) : Line(p, y)[j] = z
  BY OnLine
<1>4. Len(Line(p, f)) \in Nat
  BY LineTyped
<1>5. j \in 1..Len(Line(p, f)) /\ Line(p, f)[j] = z
  BY <1>1, <1>2, <1>3, <1>4
<1> QED
  BY <1>2, <1>5, OnLine

\* A file is on no way but its own.
LEMMA FileIsLeaf ==
    ASSUME NEW p \in Layouts, NEW f \in Points, NEW x \in Files, Reaches(p, f), On(p, x, f)
    PROVE  x = f
<1> SUFFICES ASSUME x # f PROVE FALSE
  OBVIOUS
<1>1. PICK z \in Ids : p[z].in = x /\ Reaches(p, z)
  BY ChildOnLine
<1>2. x \in Folders \cup {Volume}
  BY <1>1, LineOfItem
<1> QED
  BY <1>2, CollectionFacts

\* A path without the names it shares with base.
Rel(base, path) == SubSeq(path, Len(base) + 1, Len(path))

\* The path of what is on the way to an item is the beginning of the item's.
LEMMA PathsAreNested ==
    ASSUME NEW p \in Layouts, NEW f \in Points, NEW y \in Points, Reaches(p, f), On(p, y, f),
           NEW base, Len(base) \in Nat
    PROVE  IsPrefix(Rel(base, PathTo(p, y)), Rel(base, PathTo(p, f)))
<1>1. PICK i \in 1..Len(Line(p, f)) : Line(p, f)[i] = y
  BY OnLine
<1>2. /\ Len(Line(p, y)) = i
      /\ \A j \in 1..i : Line(p, y)[j] = Line(p, f)[j]
  BY <1>1, LinesAreNested DEF Nested
<1> DEFINE s == PathTo(p, y)
           t == PathTo(p, f)
           b == Len(base)
<1>3. /\ s \in Seq(Names) /\ Len(s) = i - 1 /\ t \in Seq(Names) /\ Len(t) = Len(Line(p, f)) - 1
  BY <1>2, PathTyped
<1>4. Len(Line(p, f)) \in Nat /\ i \in Nat /\ i <= Len(Line(p, f)) /\ i >= 1
  BY <1>1, LineTyped
<1>5. ASSUME NEW j \in 1..(i - 1) PROVE s[j] = t[j]
  <2>1. j + 1 \in 1..i /\ j \in 1..(Len(Line(p, y)) - 1) /\ j \in 1..(Len(Line(p, f)) - 1)
    BY <1>2, <1>4
  <2>2. s[j] = p[Line(p, y)[j + 1]].as /\ t[j] = p[Line(p, f)[j + 1]].as
    BY <2>1 DEF PathTo
  <2> QED
    BY <1>2, <2>1, <2>2
<1> HIDE DEF s, t
<1>6. Len(s) \in Nat /\ Len(t) \in Nat /\ Len(s) <= Len(t) /\ Len(s) = i - 1
  BY <1>3, <1>4
<1> DEFINE m == Len(s)
           n == Len(t)
           u == SubSeq(s, b + 1, m)
           v == SubSeq(t, b + 1, n)
<1>7. /\ b \in Nat /\ m \in Nat /\ n \in Nat /\ m <= n
  BY <1>6
<1>8. /\ Len(u) = IF b + 1 <= m THEN m - b ELSE 0
      /\ Len(v) = IF b + 1 <= n THEN n - b ELSE 0
      /\ \A j \in 1..(m - b) : u[j] = s[b + j]
      /\ \A j \in 1..(n - b) : v[j] = t[b + j]
      /\ u \in Seq(Names) /\ v \in Seq(Names)
  <2>1. b + 1 \in Int /\ m \in Int /\ n \in Int
    BY <1>7
  <2>2. (\A j \in (b + 1)..m : s[j] \in Names) /\ \A j \in (b + 1)..n : t[j] \in Names
    BY <1>3, <1>7
  <2> HIDE DEF m, n, b
  <2>3. /\ u \in Seq(Names) /\ Len(u) = (IF b + 1 <= m THEN m - (b + 1) + 1 ELSE 0)
        /\ \A j \in 1..(m - (b + 1) + 1) : u[j] = s[b + 1 + j - 1]
    BY <2>1, <2>2, SubSeqProperties
  <2>4. /\ v \in Seq(Names) /\ Len(v) = (IF b + 1 <= n THEN n - (b + 1) + 1 ELSE 0)
        /\ \A j \in 1..(n - (b + 1) + 1) : v[j] = t[b + 1 + j - 1]
    BY <2>1, <2>2, SubSeqProperties
  <2>5. m - (b + 1) + 1 = m - b /\ n - (b + 1) + 1 = n - b /\ \A j \in Int : b + 1 + j - 1 = b + j
    BY <1>7
  <2>6. /\ Len(u) = (IF b + 1 <= m THEN m - b ELSE 0)
        /\ Len(v) = (IF b + 1 <= n THEN n - b ELSE 0)
    BY <2>3, <2>4, <2>5
  <2>7. ASSUME NEW j \in 1..(m - b) PROVE u[j] = s[b + j]
    <3>1. j \in 1..(m - (b + 1) + 1) /\ b + 1 + j - 1 = b + j
      BY <2>5
    <3> QED
      BY <2>3, <3>1
  <2>8. ASSUME NEW j \in 1..(n - b) PROVE v[j] = t[b + j]
    <3>1. j \in 1..(n - (b + 1) + 1) /\ b + 1 + j - 1 = b + j
      BY <2>5
    <3> QED
      BY <2>4, <3>1
  <2> HIDE DEF u, v
  <2> QED
    BY <2>3, <2>4, <2>6, <2>7, <2>8
<1> HIDE DEF u, v, m, n, b
<1>9. Len(u) \in Nat /\ Len(v) \in Nat /\ Len(u) <= Len(v)
  BY <1>7, <1>8
<1>10. ASSUME NEW j \in 1..Len(u) PROVE u[j] = v[j]
  <2>1. j \in 1..(m - b) /\ j \in 1..(n - b) /\ b + j \in 1..m
    BY <1>7, <1>8, <1>9
  <2>2. s[b + j] = t[b + j]
    BY <1>5, <1>6, <2>1 DEF m
  <2> QED
    BY <1>8, <2>1, <2>2
<1>11. /\ SubSeq(u, 1, Len(u)) = [j \in 1..Len(u) |-> u[j]]
       /\ SubSeq(v, 1, Len(u)) = [j \in 1..Len(u) |-> v[j]]
  BY <1>8, <1>9
<1>12. SubSeq(u, 1, Len(u)) = SubSeq(v, 1, Len(u))
  BY <1>10, <1>11
<1>13. IsPrefix(u, v)
  BY <1>9, <1>12 DEF IsPrefix
<1> QED
  BY <1>13 DEF u, v, m, n, b, s, t, Rel

\* An item's own path leads to it, and its entry is it.
LEMMA ItemFound ==
    ASSUME VolumeInv, NEW x \in Folders \cup Files, Reaches(place, x)
    PROVE  /\ Resolve(PathTo(place, x)) = x /\ Link(PathTo(place, x)) = x
           /\ Entry(place[x].in, place[x].as) = x
           /\ PathTo(place, x) = Append(PathTo(place, place[x].in), place[x].as)
           /\ Front(PathTo(place, x)) = PathTo(place, place[x].in)
           /\ Last(PathTo(place, x)) = place[x].as
           /\ place[x].in \in Folders \cup {Volume} /\ Reaches(place, place[x].in)
           /\ place[x].as \in NameSet
<1>0. place \in Layouts /\ x \in Ids
  BY CollectionFacts DEF VolumeInv
<1>1. Resolve(PathTo(place, x)) = x
  BY PathLeadsBack
<1>2. /\ PathTo(place, x) = Append(PathTo(place, place[x].in), place[x].as)
      /\ Front(PathTo(place, x)) = PathTo(place, place[x].in)
      /\ Last(PathTo(place, x)) = place[x].as
  BY <1>0, PathOfItem
<1>3. place[x].in \in Folders \cup {Volume} /\ Reaches(place, place[x].in)
  BY <1>0, LineOfItem
<1>4. place[x] \in Place /\ place[x].in # Gone
  BY <1>0, <1>3, CollectionFacts DEF Layouts
<1>5. place[x] = [in |-> place[x].in, as |-> place[x].as] /\ place[x].as \in NameSet
  BY <1>4 DEF Place, Nowhere, NameSet
<1>6. Entry(place[x].in, place[x].as) = x
  BY <1>0, <1>4, <1>5, EntryFacts
<1>7. Resolve(PathTo(place, place[x].in)) = place[x].in
  BY <1>3, PathLeadsBack
<1>8. Link(PathTo(place, x)) = x
  BY <1>2, <1>6, <1>7 DEF Link
<1> QED
  BY <1>1, <1>2, <1>3, <1>5, <1>6, <1>8

\* A folder's listing has every item in it.
LEMMA ItemListed ==
    ASSUME VolumeInv, NEW y, NEW x \in Ids, y # Gone, place[x].in = y
    PROVE  \E k \in DOMAIN Listing(y) : Listing(y)[k] = place[x].as
<1> DEFINE I == Present(y)
<1>1. DOMAIN NameOrder = 1..Len(NameOrder) /\ Len(NameOrder) \in Nat
  BY CollectionAssumption
<1>2. I \in SUBSET (1..Len(NameOrder))
  BY <1>1 DEF Present
<1>3. place[x] \in Place
  BY DEF VolumeInv, Layouts
<1>4. place[x] = [in |-> y, as |-> place[x].as] /\ place[x].as \in NameSet
  BY <1>3 DEF Place, Nowhere, NameSet
<1>5. Entry(y, place[x].as) # Missing
  BY <1>4, EntryFacts, CollectionFacts
<1>6. PICK i \in DOMAIN NameOrder : NameOrder[i] = place[x].as
  BY <1>4 DEF NameSet, ToSet
<1>7. i \in I
  BY <1>5, <1>6 DEF Present
<1> HIDE DEF I
<1>8. Cardinality(I) \in Nat /\ \E k \in 1..Cardinality(I) : Nth(I, k) = i
  BY <1>1, <1>2, <1>7, Positions
<1>9. Listing(y) = [k \in 1..Cardinality(I) |-> NameOrder[Nth(I, k)]]
  BY DEF Listing, I
<1> QED
  BY <1>6, <1>8, <1>9

\* Below a folder on the way to an image in the folder that alone is selected
\* there is no folder on the way.
LEMMA NoFolderBetween ==
    ASSUME NEW p \in Layouts, NEW f \in Files, NEW y \in Folders, NEW x \in Folders,
           NEW top \in Folders, Reaches(p, f), On(p, x, f), p[x].in = y, On(p, top, y),
           p[f].in = top
    PROVE  FALSE
<1>1. f \in Ids /\ x \in Ids /\ f \in Points /\ x \in Points /\ y \in Points /\ top \in Points /\ x # f
  BY CollectionFacts DEF Points
<1>2. Reaches(p, x)
  BY <1>1, OnLine, OnLineTransitive
<1>3. On(p, x, top)
  BY <1>1, OnLineBelow
<1>4. On(p, y, x) /\ On(p, top, x)
  BY <1>1, <1>2, OnLine, OnLineBelow
<1>5. top = x
  BY <1>1, <1>2, <1>3, <1>4, OnLineOnce
<1>6. On(p, x, y) /\ Reaches(p, y)
  BY <1>1, <1>2, <1>5, LineOfItem
<1>7. x = y
  BY <1>1, <1>4, <1>6, OnLineOnce
<1>8. Line(p, x) = Append(Line(p, x), x)
  BY <1>1, <1>2, <1>7, LineOfItem
<1>9. Line(p, x) \in Seq(Points)
  BY <1>1, LineTyped
<1>10. Len(Append(Line(p, x), x)) = Len(Line(p, x)) + 1 /\ Len(Line(p, x)) \in Nat
  BY <1>1, <1>9
<1> QED
  BY <1>8, <1>10

\* The name a review reports an image under.
ReportedAs(f) == Rel(root.path, PathTo(place, f))

\* It has been found, or an issue explains why not.
Explained(f) ==
    \/ \E i \in DOMAIN rows : rows[i].source.path = ReportedAs(f)
    \/ \E i \in DOMAIN candidates : candidates[i].path = ReportedAs(f)
    \/ \E issue \in issues : IsPrefix(issue.path, ReportedAs(f))

\* A folder on the way to it is still to be listed.
Ahead(f) ==
    \E i \in DOMAIN pending : \E y \in Folders :
        /\ pending[i].path = PathTo(place, y) /\ On(place, y, f) /\ On(place, root.id, y)

\* The next item on the way is on the page, or comes after it.
OnPage(x) ==
    \E k \in DOMAIN page : page[k] = [path |-> PathTo(place, x), directory |-> x \notin Files]
AfterPage(y, name) == \E k \in DOMAIN Listing(y) : k > firstItem /\ Listing(y)[k] = name
Way(y, x, f) ==
    /\ y \in Folders /\ x \in Ids /\ current.path = PathTo(place, y)
    /\ On(place, root.id, y) /\ On(place, x, f) /\ place[x].in = y
Underway(f) ==
    \E y \in Folders, x \in Ids : Way(y, x, f) /\ (OnPage(x) \/ AfterPage(y, place[x].as))

\* What becomes of an image that is to be reviewed.
Accounted(f) ==
    /\ root.path = PathTo(place, root.id)
    /\ Explained(f) \/ (pc \in Traversing /\ Ahead(f)) \/ (pc \in Enumerating /\ Underway(f))

\* A review that goes on, and has not been stopped.
Running ==
    \/ pc \in Traversing /\ ~stop
    \/ pc = "Collate" /\ ~cancellationRequested
    \/ pc \in Judging /\ progress.complete

Expected(f) == InScope(f) /\ Undisturbed(f)
Complete == Running => \A f \in Files : Expected(f) => Accounted(f)

\* Between two pages there is none, and a candidate that has become a row is let go.
Paged ==
    /\ pc \in {"Begin", "Exclude", "Folder", "Page"} => page = <<>>
    /\ pc \in Judging => candidates = <<>>

\* What is expected is in the tree, below the selected folder.
LEMMA ExpectedFacts ==
    ASSUME VolumeInv, NEW f \in Files, Expected(f)
    PROVE  /\ f \in Points /\ f \in Ids /\ Reaches(place, f) /\ On(place, root.id, f)
           /\ place[f].as \in Images
           /\ scope = "SelectedFolderOnly" => place[f].in = root.id
<1>1. f \in Points /\ f \in Ids
  BY CollectionFacts DEF Points
<1>2. Within(f, root.id) /\ place[f].as \in Images
      /\ (scope = "SelectedFolderOnly" => place[f].in = root.id)
  BY DEF Expected, InScope
<1> QED
  BY <1>1, <1>2, WithinIsOn

\* What is expected depends on the volume, the root, the scope and what was disturbed.
LEMMA ExpectedKept ==
    ASSUME place' = place, root' = root, scope' = scope, disturbed' = disturbed, NEW f
    PROVE  Expected(f)' <=> Expected(f)
<1>1. ASSUME NEW x, NEW z PROVE Within(x, z)' <=> Within(x, z)
  BY AncestryIsLine, PathIsCanonical DEF Within
<1>2. InScope(f)' <=> InScope(f)
  <2>1. Within(f, root.id)' <=> Within(f, root.id)
    BY AncestryIsLine, PathIsCanonical DEF Within
  <2> QED
    BY <2>1 DEF InScope
<1>3. Undisturbed(f)' <=> Undisturbed(f)
  <2>1. ASSUME NEW folder \in Folders
        PROVE  Within(folder, root.id)' <=> Within(folder, root.id)
    BY AncestryIsLine, PathIsCanonical DEF Within
  <2> QED
    BY <1>1, <2>1 DEF Undisturbed
<1> QED
  BY <1>2, <1>3 DEF Expected

\* A step that accounts for each image again keeps the review complete.
LEMMA CompleteKept ==
    ASSUME place' = place, root' = root, scope' = scope, disturbed' = disturbed, Complete,
           Running' => Running,
           \A f \in Files : Running /\ Running' /\ Expected(f) /\ Accounted(f) => Accounted(f)'
    PROVE  Complete'
<1>1. ASSUME Running', NEW f \in Files, Expected(f)' PROVE Accounted(f)'
  <2>1. Expected(f)
    BY <1>1, ExpectedKept
  <2>2. Running /\ Accounted(f)
    BY <1>1, <2>1 DEF Complete
  <2> QED
    BY <1>1, <2>1, <2>2
<1> QED
  BY <1>1 DEF Complete

\* What explains an image goes on explaining it.
LEMMA ExplainedStays ==
    ASSUME place' = place, root' = root, NEW f, Explained(f), issues \subseteq issues',
           \A i \in DOMAIN candidates :
               \/ \E j \in DOMAIN candidates' : candidates'[j].path = candidates[i].path
               \/ \E j \in DOMAIN rows' : rows'[j].source.path = candidates[i].path,
           \A i \in DOMAIN rows : \E j \in DOMAIN rows' : rows'[j].source.path = rows[i].source.path
    PROVE  Explained(f)'
<1>1. ReportedAs(f)' = ReportedAs(f)
  BY DEF ReportedAs
<1> QED
  BY <1>1 DEF Explained

\* A step that goes on with what discovery has as it was.
LEMMA StillAccounts ==
    ASSUME place' = place, root' = root, scope' = scope, disturbed' = disturbed, Complete,
           walk' = walk, found' = found, rows' = rows, Running' => Running,
           pc \in Traversing => pc' \in Traversing, pc \in Enumerating => pc' \in Enumerating
    PROVE  Complete'
<1>1. /\ candidates' = candidates /\ issues' = issues /\ pending' = pending
      /\ current' = current /\ page' = page /\ firstItem' = firstItem
  BY DEF walk, found
<1>2. ASSUME NEW f \in Files, Accounted(f) PROVE Accounted(f)'
  <2>1. Explained(f) => Explained(f)'
    BY <1>1, ExplainedStays
  <2>2. Ahead(f) => Ahead(f)'
    BY <1>1 DEF Ahead
  <2>3. ASSUME NEW y, NEW x, Way(y, x, f), OnPage(x) \/ AfterPage(y, place[x].as)
        PROVE  Underway(f)'
    <3>1. Listing(y)' = Listing(y)
      BY DEF Listing, Present, Entry
    <3>2. Way(y, x, f)'
      BY <1>1, <2>3 DEF Way
    <3>3. OnPage(x)' \/ AfterPage(y, place[x].as)'
      BY <1>1, <2>3, <3>1 DEF OnPage, AfterPage
    <3> QED
      BY <3>2, <3>3 DEF Underway, Way
  <2>4. Underway(f) => Underway(f)'
    BY <2>3 DEF Underway
  <2> QED
    BY <1>2, <2>1, <2>2, <2>4 DEF Accounted
<1> QED
  BY <1>2, CompleteKept

\* The folder taken is under way where it was ahead.
LEMMA TakeFolderAccounts ==
    ASSUME VolumeInv, WalkType, Complete, TakeFolder
    PROVE  Complete'
<1> DEFINE n == Len(pending)
<1>1. /\ pc = "Folder" /\ current' = pending[n] /\ pending # <<>> /\ pc' = "Page"
      /\ pending' = SubSeq(pending, 1, n - 1) /\ root' = root /\ firstItem' = 0
      /\ place' = place /\ scope' = scope /\ disturbed' = disturbed /\ stop' = stop
      /\ candidates' = candidates /\ issues' = issues /\ rows' = rows
  BY DEF TakeFolder, Front, Last, volume, found, review
<1>2. Running' => Running
  BY <1>1 DEF Running, Traversing, Judging
<1>3. pending \in Seq(FolderRecord) /\ n \in Nat
  BY DEF WalkType
<1>4. \A i \in DOMAIN pending : i = n \/ (i \in DOMAIN pending' /\ pending'[i] = pending[i])
  BY <1>1, <1>3
<1>5. ASSUME NEW f \in Files, Expected(f), Accounted(f) PROVE Accounted(f)'
  <2>1. Explained(f) => Explained(f)'
    BY <1>1, ExplainedStays
  <2>2. CASE Ahead(f)
    <3>1. PICK i \in DOMAIN pending, y \in Folders :
            pending[i].path = PathTo(place, y) /\ On(place, y, f) /\ On(place, root.id, y)
      BY <2>2 DEF Ahead
    <3>2. CASE i = n
      <4>1. f \in Points /\ Reaches(place, f) /\ y # f /\ place \in Layouts /\ y # Gone
        BY <1>5, ExpectedFacts, CollectionFacts DEF VolumeInv
      <4>2. PICK x \in Ids : On(place, x, f) /\ place[x].in = y
        BY <3>1, <4>1, ChildOnLine
      <4>3. PICK k \in DOMAIN Listing(y) : Listing(y)[k] = place[x].as
        BY <4>1, <4>2, ItemListed
      <4>4. Listing(y)' = Listing(y)
        BY <1>1 DEF Listing, Present, Entry
      <4>5. k > 0
        <5>1. Listing(y) \in Seq(Names)
          BY ListingTyped
        <5> QED
          BY <5>1
      <4>6. AfterPage(y, place[x].as)'
        BY <1>1, <4>3, <4>4, <4>5 DEF AfterPage
      <4>7. Way(y, x, f)'
        BY <1>1, <3>1, <3>2, <4>2 DEF Way
      <4>8. Underway(f)'
        BY <4>6, <4>7 DEF Underway
      <4> QED
        BY <1>1, <1>5, <4>8 DEF Accounted, Enumerating
    <3>3. CASE i # n
      <4>1. Ahead(f)'
        BY <1>1, <1>4, <3>1, <3>3 DEF Ahead
      <4> QED
        BY <1>1, <1>5, <4>1 DEF Accounted, Traversing
    <3> QED
      BY <3>2, <3>3
  <2> QED
    BY <1>1, <1>5, <2>1, <2>2 DEF Accounted, Enumerating
<1> QED
  BY <1>1, <1>2, <1>5, CompleteKept

\* The traversal ends when nothing is ahead.
LEMMA FinishAccounts ==
    ASSUME Complete, FinishTraversal
    PROVE  Complete'
<1>1. /\ pc = "Folder" /\ (pending = <<>> \/ stop) /\ cancellationRequested' = stop /\ pc' = "Collate"
      /\ root' = root /\ place' = place /\ scope' = scope /\ disturbed' = disturbed
      /\ candidates' = candidates /\ issues' = issues /\ rows' = rows
  BY DEF FinishTraversal, volume, found, review
<1>2. Running' => Running /\ ~stop
  BY <1>1 DEF Running, Traversing, Judging
<1>3. ASSUME NEW f \in Files, Running', Accounted(f) PROVE Accounted(f)'
  <2>1. ~Ahead(f) /\ pc \notin Enumerating
    BY <1>1, <1>2, <1>3 DEF Ahead, Enumerating
  <2>2. Explained(f)'
    BY <1>1, <1>3, <2>1, ExplainedStays DEF Accounted
  <2> QED
    BY <1>1, <1>3, <2>2 DEF Accounted
<1> QED
  BY <1>1, <1>2, <1>3, CompleteKept

\* Nothing is below a junction.
LEMMA NothingBelowJunction ==
    ASSUME NEW p \in Layouts, NEW f \in Points, NEW x \in Junctions, Reaches(p, f), On(p, x, f)
    PROVE  x = f
<1> SUFFICES ASSUME x # f PROVE FALSE
  OBVIOUS
<1>1. PICK z \in Ids : p[z].in = x /\ Reaches(p, z)
  BY ChildOnLine
<1>2. x \in Folders \cup {Volume} /\ x \in Ids
  BY <1>1, LineOfItem DEF Ids
<1> QED
  BY <1>2, CollectionFacts

\* The folder under way, and the item of it on the way to an image.
LEMMA WayFacts ==
    ASSUME VolumeInv, NEW f \in Files, Expected(f), NEW y, NEW x, Way(y, x, f)
    PROVE  /\ y \in Folders /\ y \in Points /\ Reaches(place, y) /\ On(place, y, f)
           /\ x \in Folders \cup Files /\ x \in Points /\ Reaches(place, x)
           /\ x \in Files => x = f
           /\ On(place, root.id, x)
<1>1. /\ f \in Points /\ Reaches(place, f) /\ place \in Layouts /\ f \in Ids
      /\ y \in Folders /\ x \in Ids /\ On(place, x, f) /\ place[x].in = y /\ On(place, root.id, y)
  BY ExpectedFacts DEF VolumeInv, Way
<1>2. x \in Points /\ y \in Points
  BY <1>1, CollectionFacts DEF Points
<1>3. Reaches(place, x)
  BY <1>1, <1>2, OnLine, OnLineTransitive
<1>4. On(place, y, x) /\ On(place, root.id, x)
  BY <1>1, <1>2, <1>3, OnLine, OnLineBelow
<1>5. On(place, y, f) /\ Reaches(place, y)
  BY <1>1, <1>2, <1>3, <1>4, OnLineTransitive, LineOfItem
<1>6. x \in Files => x = f
  BY <1>1, FileIsLeaf
<1>7. x \notin Junctions
  BY <1>1, NothingBelowJunction, CollectionFacts
<1> QED
  BY <1>1, <1>2, <1>3, <1>4, <1>5, <1>6, <1>7 DEF Ids

\* An issue about what is on the way to an image explains it.
LEMMA IssueExplains ==
    ASSUME VolumeInv, WalkType, place' = place, root' = root, NEW f \in Files, Expected(f),
           NEW y \in Points, On(place, y, f), NEW path, path = PathTo(place, y), NEW kind,
           Issue(path, kind)
    PROVE  Explained(f)'
<1>1. f \in Points /\ Reaches(place, f) /\ place \in Layouts
  BY ExpectedFacts DEF VolumeInv
<1>2. Len(root.path) \in Nat
  BY DEF WalkType
<1>3. IsPrefix(Rel(root.path, PathTo(place, y)), Rel(root.path, PathTo(place, f)))
  BY <1>1, <1>2, PathsAreNested
<1>4. [path |-> Rel(root.path, PathTo(place, y)), kind |-> kind] \in issues'
  BY DEF Issue, Relative, Rel
<1>5. ReportedAs(f)' = Rel(root.path, PathTo(place, f))
  BY DEF ReportedAs
<1>6. \E issue \in issues' : IsPrefix(issue.path, ReportedAs(f)')
  BY <1>3, <1>4, <1>5
<1> QED
  BY <1>6 DEF Explained

\* The end of a page.
LEMMA EndPageAccounts ==
    ASSUME Complete, EndPage
    PROVE  Complete'
<1>1. /\ pc = "Attributes" /\ (page = <<>> \/ stop) /\ page' = <<>> /\ pc' = "Page"
      /\ root' = root /\ place' = place /\ scope' = scope /\ disturbed' = disturbed /\ stop' = stop
      /\ candidates' = candidates /\ issues' = issues /\ rows' = rows /\ firstItem' = firstItem
      /\ current' = current /\ pending' = pending
  BY DEF EndPage, volume, found, review
<1>2. Running' => Running
  BY <1>1 DEF Running, Traversing, Judging
<1>3. ASSUME NEW f \in Files, Running', Accounted(f) PROVE Accounted(f)'
  <2>1. page = <<>> /\ page' = page
    BY <1>1, <1>3 DEF Running, Judging
  <2>2. Explained(f) => Explained(f)'
    BY <1>1, ExplainedStays
  <2>3. Ahead(f) => Ahead(f)'
    BY <1>1 DEF Ahead
  <2>4. ASSUME NEW y, NEW x, Way(y, x, f), OnPage(x) \/ AfterPage(y, place[x].as)
        PROVE  Underway(f)'
    <3>1. Listing(y)' = Listing(y)
      BY <1>1 DEF Listing, Present, Entry
    <3>2. Way(y, x, f)'
      BY <1>1, <2>4 DEF Way
    <3>3. OnPage(x)' \/ AfterPage(y, place[x].as)'
      BY <1>1, <2>1, <2>4, <3>1 DEF OnPage, AfterPage
    <3> QED
      BY <3>2, <3>3 DEF Underway, Way
  <2>5. Underway(f) => Underway(f)'
    BY <2>4 DEF Underway
  <2> QED
    BY <1>1, <1>3, <2>2, <2>3, <2>5 DEF Accounted, Enumerating, Traversing
<1> QED
  BY <1>1, <1>2, <1>3, CompleteKept

\* The part of a listing that a page is, and what is left for the next one.
LEMMA PageOfListing ==
    ASSUME NEW S, NEW names \in Seq(S), NEW first \in Nat, NEW k \in DOMAIN names, k > first
    PROVE  LET taken == PageFrom(names, first)
           IN  /\ taken # <<>> /\ Len(taken) \in Nat
               /\ (\E i \in DOMAIN taken : taken[i] = names[k]) \/ k > first + Len(taken)
<1> DEFINE size == Len(names) - first
           bounded == IF size > MaximumItemsPerPage THEN MaximumItemsPerPage ELSE size
           taken == [i \in 1..bounded |-> names[first + i]]
<1>1. MaximumItemsPerPage \in Nat \ {0}
  BY CollectionAssumption
<1>2. k \in 1..Len(names) /\ Len(names) \in Nat
  OBVIOUS
<1>3. size \in Nat \ {0} /\ k - first \in 1..size
  BY <1>2
<1>4. bounded \in Nat \ {0}
  BY <1>1, <1>3
<1>5. PageFrom(names, first) = taken
  BY DEF PageFrom
<1>6. DOMAIN taken = 1..bounded
  OBVIOUS
<1> HIDE DEF taken, bounded
<1>7. Len(taken) = bounded /\ taken # <<>>
  <2>1. 1 \in DOMAIN taken
    BY <1>4, <1>6
  <2>2. taken # <<>>
    BY <2>1
  <2>3. taken = [i \in 1..bounded |-> names[first + i]]
    BY DEF taken
  <2> QED
    BY <1>4, <2>2, <2>3
<1>8. CASE k - first \in 1..bounded
  <2>1. taken[k - first] = names[first + (k - first)] /\ first + (k - first) = k
    BY <1>2, <1>8 DEF taken
  <2> QED
    BY <1>4, <1>5, <1>6, <1>7, <1>8, <2>1
<1>9. CASE k - first \notin 1..bounded
  <2>1. k > first + bounded
    BY <1>2, <1>3, <1>4, <1>9
  <2> QED
    BY <1>4, <1>5, <1>7, <2>1
<1> QED
  BY <1>8, <1>9

\* A page takes what comes next, or an issue names the folder.
LEMMA GetPageAccounts ==
    ASSUME VolumeInv, WalkType, Paged, Complete, GetPage
    PROVE  Complete'
<1> DEFINE folder == Resolve(current.path)
           names == NextPage(Listing(folder))
<1>1. /\ pc = "Page" /\ page = <<>> /\ root' = root /\ place' = place /\ scope' = scope
      /\ disturbed' = disturbed /\ stop' = stop /\ pending' = pending
      /\ candidates' = candidates /\ rows' = rows /\ pc' \in Traversing
      /\ issues \subseteq issues'
  BY DEF GetPage, LeaveFolder, Issue, volume, found, review, Paged, Traversing
<1>2. Running' => Running
  BY <1>1 DEF Running, Traversing, Judging
<1>3. \/ stop
      \/ Issue(current.path, "SourceAccessFailed")
      \/ names = <<>> /\ folder \in Folders
      \/ /\ folder \in Folders /\ names # <<>> /\ firstItem' = firstItem + Len(names)
         /\ page' = [i \in DOMAIN names |-> Item(folder, names[i])]
         /\ pc' = "Attributes" /\ current' = current
  BY DEF GetPage
<1>4. ASSUME NEW f \in Files, Running', Expected(f), Accounted(f) PROVE Accounted(f)'
  <2>1. ~stop
    BY <1>1, <1>4 DEF Running, Traversing, Judging
  <2>2. Explained(f) => Explained(f)'
    BY <1>1, ExplainedStays
  <2>3. Ahead(f) => Ahead(f)'
    BY <1>1 DEF Ahead
  <2>4. ASSUME NEW y, NEW x, Way(y, x, f), OnPage(x) \/ AfterPage(y, place[x].as)
        PROVE  Explained(f)' \/ (pc' \in Enumerating /\ Underway(f)')
    <3>1. /\ y \in Folders /\ y \in Points /\ Reaches(place, y) /\ On(place, y, f)
          /\ x \in Folders \cup Files /\ Reaches(place, x) /\ current.path = PathTo(place, y)
          /\ place[x].in = y
      BY <1>4, <2>4, WayFacts DEF Way
    <3>2. folder = y
      BY <3>1, ItemFound
    <3>3. PICK k \in DOMAIN Listing(y) : k > firstItem /\ Listing(y)[k] = place[x].as
      <4>1. ~OnPage(x)
        BY <1>1 DEF OnPage
      <4> QED
        BY <2>4, <4>1 DEF AfterPage
    <3>4. Listing(y) \in Seq(Names) /\ firstItem \in Nat
      BY ListingTyped DEF WalkType
    <3>5. /\ names # <<>> /\ Len(names) \in Nat
          /\ (\E i \in DOMAIN names : names[i] = Listing(y)[k]) \/ k > firstItem + Len(names)
      <4>1. names = PageFrom(Listing(y), firstItem)
        BY <3>2 DEF NextPage
      <4> QED
        BY <3>3, <3>4, <4>1, PageOfListing
    <3> HIDE DEF folder, names
    <3>6. CASE Issue(current.path, "SourceAccessFailed")
      <4>1. Explained(f)'
        BY <1>1, <1>4, <3>1, <3>6, IssueExplains
      <4> QED
        BY <4>1
    <3>7. CASE ~Issue(current.path, "SourceAccessFailed")
      <4>1. /\ firstItem' = firstItem + Len(names)
            /\ page' = [i \in DOMAIN names |-> Item(folder, names[i])]
            /\ pc' = "Attributes" /\ current' = current
        BY <1>3, <2>1, <3>5, <3>7
      <4>2. Way(y, x, f)'
        BY <1>1, <2>4, <4>1 DEF Way
      <4>3. CASE \E i \in DOMAIN names : names[i] = Listing(y)[k]
        <5>1. PICK i \in DOMAIN names : names[i] = place[x].as
          BY <3>3, <4>3
        <5>2. page'[i] = Item(y, place[x].as) /\ i \in DOMAIN page'
          BY <3>2, <4>1, <5>1
        <5>3. /\ Entry(y, place[x].as) = x
              /\ PathTo(place, x) = Append(PathTo(place, y), place[x].as)
          BY <3>1, ItemFound
        <5>4. Item(y, place[x].as) = [path |-> PathTo(place, x), directory |-> x \notin Files]
          BY <3>1, <5>3 DEF Item
        <5>5. OnPage(x)'
          BY <1>1, <5>2, <5>4 DEF OnPage
        <5> QED
          BY <4>1, <4>2, <5>5 DEF Underway, Way, Enumerating
      <4>4. CASE k > firstItem + Len(names)
        <5>1. Listing(y)' = Listing(y)
          BY <1>1 DEF Listing, Present, Entry
        <5>2. AfterPage(y, place[x].as)'
          BY <1>1, <3>3, <4>1, <4>4, <5>1 DEF AfterPage
        <5> QED
          BY <4>1, <4>2, <5>2 DEF Underway, Way, Enumerating
      <4> QED
        BY <3>5, <4>3, <4>4
    <3> QED
      BY <3>6, <3>7
  <2>5. Underway(f) => Explained(f)' \/ (pc' \in Enumerating /\ Underway(f)')
    BY <2>4 DEF Underway
  <2> QED
    BY <1>1, <1>4, <2>2, <2>3, <2>5 DEF Accounted
<1> QED
  BY <1>1, <1>2, <1>4, CompleteKept

\* An item that is not the head of the page stays on it.
LEMMA RestOfPage ==
    ASSUME WalkType, page # <<>>, page' = Tail(page), place' = place, NEW x, OnPage(x)
    PROVE  Head(page).path = PathTo(place, x) \/ OnPage(x)'
<1> DEFINE item == [path |-> PathTo(place, x), directory |-> x \notin Files]
<1>1. page \in Seq(PageItem)
  BY DEF WalkType
<1>2. PICK k \in DOMAIN page : page[k] = item
  BY DEF OnPage
<1> HIDE DEF item
<1>3. CASE k = 1
  <2>1. Head(page) = item
    BY <1>1, <1>2, <1>3
  <2> QED
    BY <2>1 DEF item
<1>4. CASE k # 1
  <2>1. k - 1 \in DOMAIN Tail(page) /\ Tail(page)[k - 1] = page[k]
    BY <1>1, <1>2, <1>4
  <2>2. k - 1 \in DOMAIN page' /\ page'[k - 1] = item
    BY <1>2, <2>1
  <2> QED
    BY <2>2 DEF OnPage, item
<1> QED
  BY <1>3, <1>4

\* An item is dealt with: the images it leads to are explained, or ahead.
LEMMA ItemAccounts ==
    ASSUME VolumeInv, WalkType, Complete, pc \in {"Attributes", "Inspect"}, page # <<>>, ItemDone,
           issues \subseteq issues',
           \A i \in DOMAIN pending : i \in DOMAIN pending' /\ pending'[i] = pending[i],
           \A i \in DOMAIN candidates : i \in DOMAIN candidates' /\ candidates'[i] = candidates[i],
           \A f \in Files : \A y, x :
               Expected(f) /\ Way(y, x, f) /\ Head(page).path = PathTo(place, x)
                   => Explained(f)' \/ Ahead(f)'
    PROVE  Complete'
<1>1. /\ page' = Tail(page) /\ pc' = "Attributes" /\ root' = root /\ place' = place
      /\ scope' = scope /\ disturbed' = disturbed /\ stop' = stop /\ rows' = rows
      /\ current' = current /\ firstItem' = firstItem
  BY DEF ItemDone, volume, review
<1>2. Running' => Running
  BY <1>1 DEF Running, Traversing, Judging
<1>3. ASSUME NEW f \in Files, Expected(f), Accounted(f) PROVE Accounted(f)'
  <2>1. Explained(f) => Explained(f)'
    BY <1>1, ExplainedStays
  <2>2. Ahead(f) => Ahead(f)'
    <3>1. ASSUME NEW i \in DOMAIN pending, NEW y \in Folders, pending[i].path = PathTo(place, y),
                 On(place, y, f), On(place, root.id, y)
          PROVE  Ahead(f)'
      <4>1. i \in DOMAIN pending' /\ pending'[i].path = PathTo(place', y)
        BY <1>1, <3>1
      <4> QED
        BY <1>1, <3>1, <4>1 DEF Ahead
    <3> QED
      BY <3>1 DEF Ahead
  <2>3. ASSUME NEW y, NEW x, Way(y, x, f), OnPage(x) \/ AfterPage(y, place[x].as)
        PROVE  Explained(f)' \/ Ahead(f)' \/ Underway(f)'
    <3>1. Way(y, x, f)'
      BY <1>1, <2>3 DEF Way
    <3>2. AfterPage(y, place[x].as) => AfterPage(y, place[x].as)'
      <4>1. Listing(y)' = Listing(y)
        BY <1>1 DEF Listing, Present, Entry
      <4> QED
        BY <1>1, <4>1 DEF AfterPage
    <3>3. OnPage(x) => Head(page).path = PathTo(place, x) \/ OnPage(x)'
      BY <1>1, RestOfPage
    <3>4. Head(page).path = PathTo(place, x) => Explained(f)' \/ Ahead(f)'
      BY <1>3, <2>3
    <3> QED
      BY <2>3, <3>1, <3>2, <3>3, <3>4 DEF Underway, Way
  <2>4. Underway(f) => Explained(f)' \/ Ahead(f)' \/ Underway(f)'
    BY <2>3 DEF Underway
  <2> QED
    BY <1>1, <1>3, <2>1, <2>2, <2>4 DEF Accounted, Enumerating, Traversing
<1> QED
  BY <1>1, <1>2, <1>3, CompleteKept

\* An item that ends with an issue about its own path.
LEMMA IssueAccounts ==
    ASSUME VolumeInv, WalkType, Complete, pc \in {"Attributes", "Inspect"}, page # <<>>, ItemDone,
           pending' = pending, candidates' = candidates, NEW kind, Issue(Head(page).path, kind)
    PROVE  Complete'
<1>1. place' = place /\ root' = root
  BY DEF ItemDone, volume
<1>2. issues \subseteq issues'
  BY DEF Issue
<1>3. ASSUME NEW f \in Files, NEW y, NEW x, Expected(f), Way(y, x, f),
             Head(page).path = PathTo(place, x)
      PROVE  Explained(f)'
  <2>1. x \in Points /\ On(place, x, f)
    BY <1>3, WayFacts DEF Way
  <2> QED
    BY <1>1, <1>3, <2>1, IssueExplains
<1> QED
  BY <1>2, <1>3, ItemAccounts

\* An item's attributes: an issue, or its proof comes next.
LEMMA ReadAttributesAccounts ==
    ASSUME VolumeInv, WalkType, Complete, ReadAttributes
    PROVE  Complete'
<1>1. pc = "Attributes" /\ page # <<>>
  BY DEF ReadAttributes
<1>2. CASE ItemFailed
  BY <1>1, <1>2, IssueAccounts DEF ItemFailed
<1>3. CASE /\ Issue(Head(page).path, "ReparsePointSkipped")
           /\ ItemDone /\ UNCHANGED <<pending, candidates>>
  BY <1>1, <1>3, IssueAccounts
<1>4. CASE /\ pc' = "Inspect"
           /\ UNCHANGED <<volume, stop, scope, root, nextRecord, exclusions, walk,
                          found, cancellationRequested, review, strayed>>
  <2>1. /\ root' = root /\ place' = place /\ scope' = scope /\ disturbed' = disturbed
        /\ stop' = stop /\ rows' = rows /\ walk' = walk /\ found' = found
    BY <1>4 DEF volume, review
  <2>2. /\ Running' => Running
        /\ pc' \in Traversing /\ pc' \in Enumerating
    BY <1>1, <1>4, <2>1 DEF Running, Traversing, Enumerating, Judging
  <2> QED
    BY <2>1, <2>2, StillAccounts
<1> QED
  BY <1>2, <1>3, <1>4 DEF ReadAttributes

\* What is appended comes last, and the rest stays.
LEMMA AppendFacts ==
    ASSUME NEW S, NEW s \in Seq(S), NEW e
    PROVE  /\ \A i \in DOMAIN s : i \in DOMAIN Append(s, e) /\ Append(s, e)[i] = s[i]
           /\ Len(s) + 1 \in DOMAIN Append(s, e) /\ Append(s, e)[Len(s) + 1] = e
OBVIOUS

\* A folder is admitted: it is ahead, unless an issue excludes it.
LEMMA FolderAccounts ==
    ASSUME VolumeInv, WalkType, Complete, pc = "Inspect",
           NEW inspected \in Inspected(Head(page).path, Folders), AdmitFolder(inspected)
    PROVE  Complete'
<1>1. /\ place' = place /\ root' = root /\ ItemDone /\ candidates' = candidates
      /\ pending \in Seq(FolderRecord) /\ page # <<>>
  BY DEF AdmitFolder, ItemDone, volume, WalkType
<1> DEFINE record == [path |-> inspected.path, chain |-> current.chain \cup {inspected.id}]
<1>2. \/ Issue(inspected.path, "ApplicationOwnedFolderExcluded") /\ pending' = pending
      \/ scope = "SelectedFolderOnly" /\ pending' = pending /\ issues' = issues
      \/ pending' = Append(pending, record) /\ issues' = issues
  BY DEF AdmitFolder
<1>3. issues \subseteq issues'
  BY <1>2 DEF Issue
<1>4. \A i \in DOMAIN pending : i \in DOMAIN pending' /\ pending'[i] = pending[i]
  <2>1. CASE pending' = pending
    BY <2>1
  <2>2. CASE pending' = Append(pending, record)
    BY <1>1, <2>2, AppendFacts
  <2> QED
    BY <1>2, <2>1, <2>2
<1>5. ASSUME NEW f \in Files, NEW y, NEW x, Expected(f), Way(y, x, f),
             Head(page).path = PathTo(place, x)
      PROVE  Explained(f)' \/ Ahead(f)'
  <2>1. /\ y \in Folders /\ x \in Folders \cup Files /\ x \in Points /\ Reaches(place, x)
        /\ On(place, x, f) /\ On(place, root.id, x) /\ place[x].in = y /\ On(place, root.id, y)
    BY <1>5, WayFacts DEF Way
  <2>2. Resolve(Head(page).path) = x
    BY <1>5, <2>1, ItemFound
  <2>3. inspected.id = x /\ inspected.path = PathTo(place, x) /\ x \in Folders
    BY <2>2, PathIsCanonical DEF Inspected
  <2>4. CASE Issue(inspected.path, "ApplicationOwnedFolderExcluded")
    BY <1>1, <1>5, <2>1, <2>3, <2>4, IssueExplains
  <2>5. CASE scope = "SelectedFolderOnly"
    <3>1. /\ place \in Layouts /\ Reaches(place, f) /\ place[f].in = root.id /\ root.id \in Folders
      BY <1>5, <2>5, ExpectedFacts DEF VolumeInv, WalkType
    <3> QED
      BY <2>1, <2>3, <3>1, NoFolderBetween
  <2>6. CASE pending' = Append(pending, record)
    <3>1. Len(pending) + 1 \in DOMAIN pending' /\ pending'[Len(pending) + 1].path = PathTo(place, x)
      BY <1>1, <2>3, <2>6, AppendFacts
    <3> QED
      BY <1>1, <2>1, <2>3, <3>1 DEF Ahead
  <2> QED
    BY <1>2, <2>4, <2>5, <2>6
<1> QED
  BY <1>1, <1>3, <1>4, <1>5, ItemAccounts

\* A file is admitted: an image is a candidate.
LEMMA FileAccounts ==
    ASSUME VolumeInv, WalkType, CandidatesTyped, Complete, pc = "Inspect",
           NEW inspected \in Inspected(Head(page).path, Files), AdmitFile(inspected)
    PROVE  Complete'
<1>1. /\ place' = place /\ root' = root /\ ItemDone /\ pending' = pending /\ issues' = issues
      /\ candidates \in Seq(Source) /\ page # <<>>
  BY DEF AdmitFile, ItemDone, volume, WalkType, CandidatesTyped
<1> DEFINE found1 == CandidateOf(inspected)
<1>2. candidates' = IF Last(inspected.path) \in Images THEN Append(candidates, found1) ELSE candidates
  BY DEF AdmitFile, HasCandidateExtension, CandidateOf
<1>3. \A i \in DOMAIN candidates : i \in DOMAIN candidates' /\ candidates'[i] = candidates[i]
  <2> HIDE DEF found1
  <2> QED
    BY <1>1, <1>2, AppendFacts
<1>4. ASSUME NEW f \in Files, NEW y, NEW x, Expected(f), Way(y, x, f),
             Head(page).path = PathTo(place, x)
      PROVE  Explained(f)' \/ Ahead(f)'
  <2>1. x \in Folders \cup Files /\ Reaches(place, x) /\ (x \in Files => x = f)
    BY <1>4, WayFacts DEF Way
  <2>2. Resolve(Head(page).path) = x
    BY <1>4, <2>1, ItemFound
  <2>3. inspected.id = f /\ inspected.path = PathTo(place, f) /\ x = f
    BY <2>1, <2>2, PathIsCanonical DEF Inspected
  <2>4. Last(inspected.path) \in Images
    BY <1>4, <2>1, <2>3, ItemFound, ExpectedFacts
  <2>5. found1.path = ReportedAs(f)
    BY <2>3 DEF CandidateOf, Relative, ReportedAs, Rel
  <2>6. ReportedAs(f)' = ReportedAs(f)
    BY <1>1 DEF ReportedAs
  <2> HIDE DEF found1
  <2>7. Len(candidates) + 1 \in DOMAIN candidates' /\ candidates'[Len(candidates) + 1] = found1
    BY <1>1, <1>2, <2>4, AppendFacts
  <2> QED
    BY <2>5, <2>6, <2>7 DEF Explained
<1> QED
  BY <1>1, <1>3, <1>4, ItemAccounts

\* A proof of an item: whatever becomes of it.
LEMMA InspectAccounts ==
    ASSUME VolumeInv, WalkType, CandidatesTyped, Complete, InspectListedItem
    PROVE  Complete'
<1>1. pc = "Inspect" /\ page # <<>>
  BY DEF InspectListedItem, WalkType
<1>2. CASE ItemFailed
  BY <1>1, <1>2, IssueAccounts DEF ItemFailed
<1> QED
  BY <1>1, <1>2, FolderAccounts, FileAccounts DEF InspectListedItem

\* What the review and a commit write of a row is not its source.
LEMMA SourceStays ==
    ASSUME NEW rs \in Seq(RowRecord), NEW i, NEW value, NEW qs,
           \/ qs = [rs EXCEPT ![i].outcome = value]
           \/ qs = [rs EXCEPT ![i].commit = value]
           \/ qs = [rs EXCEPT ![i].revision = value]
    PROVE  \A k \in DOMAIN rs : k \in DOMAIN qs /\ qs[k].source = rs[k].source
<1> SUFFICES ASSUME NEW k \in DOMAIN rs PROVE k \in DOMAIN qs /\ qs[k].source = rs[k].source
  OBVIOUS
<1>1. rs[k] \in RowRecord
  OBVIOUS
<1>2. CASE qs = [rs EXCEPT ![i].outcome = value]
  BY <1>1, <1>2 DEF RowRecord
<1>3. CASE qs = [rs EXCEPT ![i].commit = value]
  BY <1>1, <1>3 DEF RowRecord
<1>4. CASE qs = [rs EXCEPT ![i].revision = value]
  BY <1>1, <1>4 DEF RowRecord
<1> QED
  BY <1>2, <1>3, <1>4

\* What the review and the commits leave alone.
Settled ==
    /\ root' = root /\ place' = place /\ scope' = scope /\ disturbed' = disturbed
    /\ candidates' = candidates /\ issues' = issues
    /\ pc \in Judging /\ pc' \in Judging
    /\ progress'.complete = progress.complete
    /\ \A k \in DOMAIN rows : k \in DOMAIN rows' /\ rows'[k].source = rows[k].source

\* The review of a row.
LEMMA RowsSettled ==
    ASSUME RowsTyped, SkipRow \/ InspectSource \/ CaptureSource \/ AnalyzeSource \/ FinishReview
    PROVE  Settled
<1>0. rows \in Seq(RowRecord) /\ progress \in Progress
  BY DEF RowsTyped
<1>1. /\ root' = root /\ place' = place /\ scope' = scope /\ disturbed' = disturbed
      /\ candidates' = candidates /\ issues' = issues
  BY DEF SkipRow, InspectSource, CaptureSource, AnalyzeSource, FinishReview, RowDone, Untouched,
         volume, found
<1>2. pc \in Judging /\ pc' \in Judging
  BY DEF SkipRow, InspectSource, CaptureSource, AnalyzeSource, FinishReview, RowDone, Reviewing,
         Judging
<1>3. \/ rows' = rows
      \/ \E value : rows' = [rows EXCEPT ![next].outcome = value]
      \/ \E value : rows' = [rows EXCEPT ![next].revision = value]
  BY DEF SkipRow, InspectSource, CaptureSource, AnalyzeSource, FinishReview, RowDone, review
<1>4. \A k \in DOMAIN rows : k \in DOMAIN rows' /\ rows'[k].source = rows[k].source
  <2>1. CASE rows' = rows
    BY <2>1
  <2>2. ASSUME NEW value, rows' = [rows EXCEPT ![next].outcome = value]
        PROVE  \A k \in DOMAIN rows : k \in DOMAIN rows' /\ rows'[k].source = rows[k].source
    BY <1>0, <2>2, SourceStays
  <2>3. ASSUME NEW value, rows' = [rows EXCEPT ![next].revision = value]
        PROVE  \A k \in DOMAIN rows : k \in DOMAIN rows' /\ rows'[k].source = rows[k].source
    BY <1>0, <2>3, SourceStays
  <2> QED
    BY <1>3, <2>1, <2>2, <2>3
<1>5. \/ progress' = progress
      \/ \E m, n : progress' = [progress EXCEPT !.analyzed = m, !.eligible = n]
  <2>1. CASE AnalyzeSource
    BY <2>1 DEF AnalyzeSource
  <2>2. CASE ~AnalyzeSource
    BY <2>2 DEF SkipRow, InspectSource, CaptureSource, FinishReview, review
  <2> QED
    BY <2>1, <2>2
<1>6. progress'.complete = progress.complete
  BY <1>0, <1>5 DEF Progress
<1> QED
  BY <1>1, <1>2, <1>4, <1>6 DEF Settled

\* A commit.
LEMMA CommitSettled ==
    ASSUME RowsTyped, Commit
    PROVE  Settled
<1>0. rows \in Seq(RowRecord)
  BY DEF RowsTyped
<1>1. /\ root' = root /\ place' = place /\ scope' = scope /\ disturbed' = disturbed
      /\ candidates' = candidates /\ issues' = issues /\ progress' = progress
      /\ pc \in Judging /\ pc' \in Judging
  BY DEF Commit, InspectForCommit, OpenSource, RevalidateSource, CommitEnds, Untouched, volume, found, Judging
<1>2. rows' = rows \/ \E i, value : rows' = [rows EXCEPT ![i].commit = value]
  <2>1. CASE InspectForCommit
    BY <2>1 DEF InspectForCommit, CommitEnds
  <2>2. CASE OpenSource
    BY <2>2 DEF OpenSource, CommitEnds
  <2>3. CASE RevalidateSource
    BY <2>3 DEF RevalidateSource, CommitEnds
  <2> QED
    BY <2>1, <2>2, <2>3 DEF Commit
<1>3. ASSUME NEW i, NEW value, rows' = [rows EXCEPT ![i].commit = value]
      PROVE  \A k \in DOMAIN rows : k \in DOMAIN rows' /\ rows'[k].source = rows[k].source
  BY <1>0, <1>3, SourceStays
<1>4. \A k \in DOMAIN rows : k \in DOMAIN rows' /\ rows'[k].source = rows[k].source
  BY <1>2, <1>3
<1> QED
  BY <1>1, <1>4 DEF Settled

\* Both keep the review complete.
LEMMA SettledAccounts ==
    ASSUME Complete, Settled
    PROVE  Complete'
<1>1. Running' => Running
  BY DEF Settled, Running, Traversing, Judging
<1>2. ASSUME NEW f \in Files, Accounted(f) PROVE Accounted(f)'
  <2>1. pc \notin Traversing /\ pc \notin Enumerating
    BY DEF Settled, Traversing, Enumerating, Judging
  <2>2. Explained(f)'
    BY <1>2, <2>1, ExplainedStays DEF Accounted, Settled
  <2> QED
    BY <1>2, <2>2 DEF Accounted, Settled
<1> QED
  BY <1>1, <1>2, CompleteKept DEF Settled

\* The collation makes every candidate a row.
LEMMA CollateAccounts ==
    ASSUME RowsTyped, CandidatesTyped, Complete, Collate
    PROVE  Complete'
<1>0. /\ rows = <<>> /\ progress = NoProgress /\ pc = "Collate"
  BY DEF RowsTyped, Judging, Collate
<1>1. CASE FailReview
  BY <1>1 DEF FailReview, Complete, Running, Traversing, Judging
<1>2. CASE ~FailReview
  <2>1. /\ \A i, j \in DOMAIN candidates : ~Collides(i, j)
        /\ rows' = [k \in DOMAIN candidates |-> Row(candidates[Sorted(k)])]
        /\ progress' = [progress EXCEPT !.discovered = Len(candidates),
                                        !.complete = ~cancellationRequested]
        /\ pc' = "Review" /\ root' = root /\ place' = place /\ scope' = scope
        /\ disturbed' = disturbed /\ issues' = issues
    BY <1>2 DEF Collate, Sorted, volume
  <2>2. progress'.complete = ~cancellationRequested
    BY <1>0, <2>1 DEF NoProgress
  <2>3. Running' => Running
    BY <1>0, <2>1, <2>2 DEF Running, Traversing, Judging
  <2>4. ASSUME NEW i \in DOMAIN candidates
        PROVE  \E j \in DOMAIN rows' : rows'[j].source.path = candidates[i].path
    <3>1. PICK k \in DOMAIN candidates : Sorted(k) = i
      BY <2>1, SortedFacts DEF CandidatesTyped
    <3>2. rows'[k] = Row(candidates[i]) /\ k \in DOMAIN rows'
      BY <2>1, <3>1
    <3> QED
      BY <3>2 DEF Row
  <2>5. \A i \in DOMAIN rows : \E j \in DOMAIN rows' : rows'[j].source.path = rows[i].source.path
    BY <1>0
  <2>6. ASSUME NEW f \in Files, Accounted(f) PROVE Accounted(f)'
    <3>1. Explained(f)
      BY <1>0, <2>6 DEF Accounted, Traversing, Enumerating
    <3>2. Explained(f)'
      BY <2>1, <2>4, <2>5, <3>1, ExplainedStays
    <3> QED
      BY <2>1, <2>6, <3>2 DEF Accounted
  <2> QED
    BY <2>1, <2>3, <2>6, CompleteKept
<1> QED
  BY <1>1, <1>2

\* A review that has failed is to account for nothing.
LEMMA FailureAccounts ==
    ASSUME FailReview
    PROVE  Complete'
<1>1. pc' = "Failed"
  BY DEF FailReview
<1> QED
  BY <1>1 DEF Complete, Running, Traversing, Judging

\* The root is ahead, and with it everything below.
LEMMA RootAccounts ==
    ASSUME VolumeInv, WalkType, InspectRoot
    PROVE  Complete'
<1>1. CASE FailReview
  BY <1>1, FailureAccounts
<1>2. CASE ~FailReview
  <2>1. PICK inspected \in Inspected(root.path, Folders) :
          /\ root' = inspected /\ pc' = "Exclude"
          /\ pending' = <<[path |-> inspected.path, chain |-> {inspected.id}]>>
          /\ place' = place /\ scope' = scope /\ disturbed' = disturbed
    BY <1>2 DEF InspectRoot, volume
  <2>2. /\ inspected.id \in Folders /\ inspected.path = PathTo(place, inspected.id)
        /\ Reaches(place, inspected.id)
    <3>1. root.path \in Seq(Names) /\ Folders \subseteq Folders \cup Files
      BY DEF WalkType
    <3> QED
      BY <3>1, InspectedTyped
  <2>3. ASSUME NEW f \in Files, Expected(f)' PROVE Accounted(f)'
    <3>1. On(place, inspected.id, f)
      <4>1. Within(f, root.id)'
        BY <2>3 DEF Expected, InScope
      <4> QED
        BY <2>1, <4>1, AncestryIsLine DEF Within, On
    <3>2. On(place, inspected.id, inspected.id)
      BY <2>2, OnLine, CollectionFacts DEF VolumeInv, Points
    <3>3. 1 \in DOMAIN pending' /\ pending'[1].path = PathTo(place', inspected.id)
      BY <2>1, <2>2
    <3>4. Ahead(f)'
      BY <2>1, <2>2, <3>1, <3>2, <3>3 DEF Ahead
    <3> QED
      BY <2>1, <2>2, <3>4 DEF Accounted, Traversing
  <2> QED
    BY <2>3 DEF Complete
<1> QED
  BY <1>1, <1>2

\* Discovery keeps the review complete.
LEMMA DiscoverAccounts ==
    ASSUME VolumeInv, WalkType, CandidatesTyped, Paged, Complete, Discover
    PROVE  Complete'
<1>1. CASE RefuseRequest \/ RunOutOfMemory
  BY <1>1, FailureAccounts DEF RefuseRequest, RunOutOfMemory
<1>2. CASE BeginCancelled
  <2>1. pc' = "Collate" /\ cancellationRequested'
    BY <1>2 DEF BeginCancelled
  <2> QED
    BY <2>1 DEF Complete, Running, Traversing, Judging
<1>3. CASE InspectExclusion
  <2>1. CASE FailReview
    BY <2>1, FailureAccounts
  <2>2. CASE ~FailReview
    <3>1. /\ root' = root /\ place' = place /\ scope' = scope /\ disturbed' = disturbed
          /\ stop' = stop /\ rows' = rows /\ walk' = walk /\ found' = found
          /\ pc = "Exclude" /\ pc' = "Exclude"
      BY <1>3, <2>2 DEF InspectExclusion, volume, review
    <3>2. Running' => Running
      BY <3>1 DEF Running, Traversing, Judging
    <3> QED
      BY <3>1, <3>2, StillAccounts
  <2> QED
    BY <2>1, <2>2
<1>4. CASE StartTraversal
  <2>1. /\ root' = root /\ place' = place /\ scope' = scope /\ disturbed' = disturbed
        /\ stop' = stop /\ rows' = rows /\ walk' = walk /\ found' = found
        /\ pc = "Exclude" /\ pc' = "Folder"
    BY <1>4 DEF StartTraversal, volume, review
  <2>2. /\ Running' => Running
        /\ pc \notin Enumerating /\ pc' \in Traversing
    BY <2>1 DEF Running, Traversing, Enumerating, Judging
  <2> QED
    BY <2>1, <2>2, StillAccounts
<1> QED
  BY <1>1, <1>2, <1>3, <1>4, RootAccounts, TakeFolderAccounts, FinishAccounts, GetPageAccounts,
     EndPageAccounts, ReadAttributesAccounts, InspectAccounts DEF Discover

\* So do the user, and a program that edits files.
LEMMA OthersAccount ==
    ASSUME Complete, EditFile \/ RequestStop \/ UNCHANGED vars
    PROVE  Complete'
<1>1. /\ root' = root /\ place' = place /\ scope' = scope /\ disturbed' = disturbed
      /\ rows' = rows /\ walk' = walk /\ found' = found /\ pc' = pc /\ progress' = progress
      /\ cancellationRequested' = cancellationRequested /\ (stop' = stop \/ stop')
  BY DEF EditFile, RequestStop, vars, volume, review
<1>2. Running' => Running
  BY <1>1 DEF Running
<1> QED
  BY <1>1, <1>2, StillAccounts

\* Two points on the way to a third are one below the other.
LEMMA OnLineComparable ==
    ASSUME NEW p \in Layouts, NEW f \in Points, Reaches(p, f), NEW y, NEW z,
           On(p, y, f), On(p, z, f)
    PROVE  On(p, y, z) \/ On(p, z, y)
<1>1. PICK i \in 1..Len(Line(p, f)) : Line(p, f)[i] = y
  BY OnLine
<1>2. PICK j \in 1..Len(Line(p, f)) : Line(p, f)[j] = z
  BY OnLine
<1>3. /\ y \in Points /\ Len(Line(p, y)) = i /\ \A k \in 1..i : Line(p, y)[k] = Line(p, f)[k]
      /\ z \in Points /\ Len(Line(p, z)) = j /\ \A k \in 1..j : Line(p, z)[k] = Line(p, f)[k]
  BY <1>1, <1>2, LinesAreNested DEF Nested
<1>4. Len(Line(p, f)) \in Nat
  BY LineTyped
<1>5. CASE i <= j
  <2>1. i \in 1..Len(Line(p, z)) /\ Line(p, z)[i] = y
    BY <1>1, <1>3, <1>4, <1>5
  <2> QED
    BY <1>3, <2>1, OnLine
<1>6. CASE j <= i
  <2>1. j \in 1..Len(Line(p, y)) /\ Line(p, y)[j] = z
    BY <1>2, <1>3, <1>4, <1>6
  <2> QED
    BY <1>3, <2>1, OnLine
<1> QED
  BY <1>4, <1>5, <1>6

\* A point on a way of which nothing was moved has its own way, and its path.
LEMMA WayUnmoved ==
    ASSUME NEW p \in Layouts, NEW r \in Layouts, NEW f \in Points, Reaches(p, f), NEW id,
           ~On(p, id, f), \A x \in Ids : x # id => r[x] = p[x],
           NEW y, On(p, y, f)
    PROVE  /\ Line(r, y) = Line(p, y) /\ PathTo(r, y) = PathTo(p, y)
           /\ Reaches(p, y) /\ Reaches(r, y) /\ y \in Points
<1>1. PICK i \in 1..Len(Line(p, f)) : Line(p, f)[i] = y
  BY OnLine
<1>2. y \in Points /\ Reaches(p, y)
  BY <1>1, LinesAreNested DEF Nested
<1>3. ASSUME NEW j \in 1..Len(Line(p, y))
      PROVE  Line(p, y)[j] # id
  <2>1. On(p, Line(p, y)[j], y)
    BY <1>2, OnLine
  <2>2. On(p, Line(p, y)[j], f)
    BY <1>2, <2>1, OnLineTransitive
  <2> QED
    BY <2>2
<1>4. \A j \in 1..Len(Line(p, y)) : Line(p, y)[j] \in Ids => r[Line(p, y)[j]] = p[Line(p, y)[j]]
  BY <1>3
<1>5. Line(r, y) = Line(p, y)
  BY <1>2, <1>4, LineUnmoved
<1>6. /\ Len(Line(p, y)) \in Nat
      /\ \A j \in 2..Len(Line(p, y)) : Line(p, y)[j] \in Ids
  BY <1>2, LineTyped
<1>7. ASSUME NEW j \in 1..(Len(Line(p, y)) - 1)
      PROVE  r[Line(p, y)[j + 1]].as = p[Line(p, y)[j + 1]].as
  <2>1. j + 1 \in 2..Len(Line(p, y)) /\ j + 1 \in 1..Len(Line(p, y))
    BY <1>6
  <2>2. Line(p, y)[j + 1] \in Ids
    BY <1>6, <2>1
  <2> QED
    BY <1>4, <2>1, <2>2
<1>8. PathTo(r, y) = PathTo(p, y)
  BY <1>5, <1>7 DEF PathTo
<1> QED
  BY <1>2, <1>5, <1>8 DEF Reaches

\* The step of another program, by what it moves.
LEMMA RelocatedItem ==
    ASSUME VolumeInv, Relocate
    PROVE  \E id \in Ids : \E to \in Place :
              /\ place' = [place EXCEPT ![id] = to]
              /\ disturbed \subseteq disturbed'
              /\ place[id].in \in disturbed' /\ to.in \in disturbed'
              /\ \A y \in Folders : Within(y, id) \/ Within(y, id)' => y \in disturbed'
<1>1. PICK move \in world.moves :
        /\ place' = [place EXCEPT ![move.id] = move.to]
        /\ disturbed' = disturbed \cup {place[move.id].in, move.to.in}
                          \cup {y \in Folders : Within(y, move.id) \/ Within(y, move.id)'}
  BY DEF Relocate
<1>2. world.moves \subseteq [id : Ids, to : Place]
  BY CollectionAssumption DEF VolumeInv, world
<1>3. move.id \in Ids /\ move.to \in Place
  BY <1>2
<1> QED
  BY <1>1, <1>3

\* An image that is expected afterwards has been moved with none of its folders.
LEMMA ExpectedStays ==
    ASSUME VolumeInv, WalkType, Relocate, NEW f \in Files, Expected(f)'
    PROVE  \E id \in Ids : \E to \in Place :
              /\ place' = [place EXCEPT ![id] = to]
              /\ place[id].in \in disturbed' /\ to.in \in disturbed' /\ disturbed \subseteq disturbed'
              /\ place' \in Layouts /\ Reaches(place', f) /\ On(place', root.id, f)
              /\ ~On(place', id, f)
              /\ \A y \in Folders : On(place', y, f) /\ On(place', root.id, y) => y \notin disturbed'
<1>1. PICK id \in Ids, to \in Place :
        /\ place' = [place EXCEPT ![id] = to]
        /\ disturbed \subseteq disturbed' /\ place[id].in \in disturbed' /\ to.in \in disturbed'
        /\ \A y \in Folders : Within(y, id) \/ Within(y, id)' => y \in disturbed'
  BY RelocatedItem
<1>2. root' = root /\ root.id \in Folders /\ root.id \in Ids /\ root.id \in Points
      /\ f \in Ids /\ f \in Points /\ id \in Points
  BY CollectionFacts DEF Relocate, WalkType, Points
<1>3. place' \in Layouts
  BY <1>1 DEF VolumeInv, Layouts
<1>4. Within(f, root.id)'
  BY <1>2 DEF Expected, InScope
<1>5. Reaches(place', f) /\ On(place', root.id, f)
  BY <1>2, <1>4, AncestryIsLine, PathIsCanonical DEF Within, On
<1>6. ASSUME NEW y \in Folders, On(place', y, f), On(place', root.id, y) PROVE y \notin disturbed'
  <2>1. Reaches(place', y)
    BY <1>2, <1>3, <1>5, <1>6, OnLineTransitive, CollectionFacts DEF Points
  <2>2. Within(f, y)' /\ Within(y, root.id)'
    <3>1. (Within(f, y)' <=> Reaches(place', f) /\ On(place', y, f))
          /\ (Within(y, root.id)' <=> Reaches(place', y) /\ On(place', root.id, y))
      BY <1>2, AncestryIsLine, PathIsCanonical DEF Within, On
    <3> QED
      BY <1>5, <1>6, <2>1, <3>1
  <2> QED
    BY <1>2, <2>2 DEF Expected, Undisturbed
<1>7. ~On(place', id, f)
  <2> SUFFICES ASSUME On(place', id, f) PROVE FALSE
    OBVIOUS
  <2>1. CASE id \in Folders
    <3>1. Reaches(place', id) /\ On(place', id, id)
      BY <1>2, <1>3, <1>5, OnLine, OnLineTransitive
    <3>2. CASE On(place', root.id, id)
      <4>1. id \in disturbed'
        <5>1. Within(id, id)'
          BY <3>1, AncestryIsLine, PathIsCanonical DEF Within, On
        <5> QED
          BY <1>1, <2>1, <5>1
      <4> QED
        BY <1>6, <2>1, <3>2, <4>1
    <3>3. CASE On(place', id, root.id)
      <4>1. Reaches(place', root.id) /\ On(place', root.id, root.id)
        BY <1>2, <1>3, <1>5, OnLine, OnLineTransitive
      <4>2. root.id \in disturbed'
        <5>1. Within(root.id, id)'
          BY <1>2, <3>3, <4>1, AncestryIsLine, PathIsCanonical DEF Within, On
        <5> QED
          BY <1>1, <1>2, <5>1
      <4> QED
        BY <1>2, <1>5, <1>6, <4>1, <4>2
    <3> QED
      BY <1>2, <1>3, <1>5, <3>2, <3>3, OnLineComparable
  <2>2. CASE id \in Files
    <3>1. id = f
      BY <1>2, <1>3, <1>5, <2>2, FileIsLeaf
    <3>2. place'[f].in = to.in /\ place'[f].in \in Folders \cup {Volume} /\ Reaches(place', place'[f].in)
      BY <1>1, <1>2, <1>3, <1>5, <3>1, LineOfItem DEF VolumeInv, Layouts
    <3>3. root.id # f
      BY <1>2, CollectionFacts
    <3>4. On(place', root.id, place'[f].in)
      BY <1>2, <1>3, <1>5, <3>3, OnLineBelow
    <3>5. place'[f].in \in Folders
      <4>1. CASE place'[f].in = Volume
        <5>1. Line(place', Volume) = <<Volume>>
          BY <1>3, LineOfEnd
        <5>2. root.id = Volume
          BY <3>4, <4>1, <5>1 DEF On, ToSet
        <5> QED
          BY <1>2, <5>2, CollectionFacts
      <4> QED
        BY <3>2, <4>1
    <3>6. On(place', place'[f].in, f)
      <4>1. On(place', place'[f].in, place'[f].in)
        BY <1>3, <3>5, OnLine, CollectionFacts DEF Points
      <4> QED
        BY <1>2, <1>3, <1>5, <4>1, OnLineBelow
    <3> QED
      BY <1>1, <1>6, <3>2, <3>4, <3>5, <3>6
  <2>3. CASE id \in Junctions
    BY <1>2, <1>3, <1>5, <2>3, NothingBelowJunction, CollectionFacts
  <2> QED
    BY <2>1, <2>2, <2>3 DEF Ids
<1> QED
  BY <1>1, <1>3, <1>5, <1>6, <1>7

\* Other programs may move what they like: an image that is expected is accounted for.
LEMMA RelocateAccounts ==
    ASSUME VolumeInv, WalkType, Complete, Relocate
    PROVE  Complete'
<1>1. /\ root' = root /\ scope' = scope /\ candidates' = candidates /\ issues' = issues
      /\ rows' = rows /\ pc' = pc /\ progress' = progress /\ stop' = stop
      /\ cancellationRequested' = cancellationRequested /\ pending' = pending
      /\ current' = current /\ page' = page /\ firstItem' = firstItem
  BY DEF Relocate, walk, found, review
<1>2. Running' => Running
  BY <1>1 DEF Running
<1>3. ASSUME NEW f \in Files, Running', Expected(f)' PROVE Accounted(f)'
  <2>1. PICK id \in Ids, to \in Place :
          /\ place' = [place EXCEPT ![id] = to]
          /\ place[id].in \in disturbed' /\ to.in \in disturbed' /\ disturbed \subseteq disturbed'
          /\ place' \in Layouts /\ Reaches(place', f) /\ On(place', root.id, f)
          /\ ~On(place', id, f)
          /\ \A y \in Folders : On(place', y, f) /\ On(place', root.id, y) => y \notin disturbed'
    BY <1>3, ExpectedStays
  <2>2. /\ place \in Layouts /\ f \in Points /\ f \in Ids /\ root.id \in Folders
        /\ \A x \in Ids : x # id => place[x] = place'[x]
    BY <2>1, CollectionFacts DEF VolumeInv, Layouts, Points, WalkType
  <2>3. /\ \/ place[id].in \notin Folders \/ ~On(place', place[id].in, f)
           \/ ~On(place', root.id, place[id].in)
        /\ to.in \notin Folders \/ ~On(place', to.in, f) \/ ~On(place', root.id, to.in)
    BY <2>1
  <2>4. ASSUME NEW y, On(place', y, f)
        PROVE  /\ Line(place, y) = Line(place', y) /\ PathTo(place, y) = PathTo(place', y)
               /\ Reaches(place', y) /\ Reaches(place, y) /\ y \in Points
    <3>1. place' \in Layouts /\ Reaches(place', f) /\ ~On(place', id, f)
      BY <2>1
    <3> QED
      BY <2>2, <2>4, <3>1, WayUnmoved
  <2>5. On(place', f, f) /\ f # id
    BY <2>1, <2>2, OnLine
  <2>6. /\ Line(place, f) = Line(place', f) /\ PathTo(place, f) = PathTo(place', f)
        /\ Reaches(place, f) /\ On(place, root.id, f)
    BY <2>1, <2>4, <2>5 DEF On
  <2>7. PathTo(place', root.id) = PathTo(place, root.id)
    BY <2>1, <2>4
  <2>8. Expected(f)
    <3>1. InScope(f)
      <4>1. Within(f, root.id)
        BY <2>6, WithinIsOn
      <4>2. place'[f] = place[f]
        BY <2>2, <2>5
      <4>3. place'[f].as \in Images /\ (scope' = "SelectedFolderOnly" => place'[f].in = root'.id)
        BY <1>3 DEF Expected, InScope
      <4> QED
        BY <1>1, <4>1, <4>2, <4>3 DEF InScope
    <3>2. Undisturbed(f)
      <4>1. ASSUME NEW y \in Folders, Within(f, y), Within(y, root.id) PROVE y \notin disturbed
        <5>1. On(place, y, f) /\ On(place, root.id, y)
          BY <4>1, WithinIsOn
        <5>2. On(place', y, f)
          BY <2>6, <5>1 DEF On
        <5>3. On(place', root.id, y)
          BY <2>4, <5>1, <5>2 DEF On
        <5> QED
          BY <2>1, <5>2, <5>3
      <4> QED
        BY <4>1 DEF Undisturbed
    <3> QED
      BY <3>1, <3>2 DEF Expected
  <2>9. Accounted(f)
    BY <1>2, <1>3, <2>8 DEF Complete
  <2>10. ReportedAs(f)' = ReportedAs(f)
    BY <1>1, <2>6 DEF ReportedAs
  <2>11. Explained(f) => Explained(f)'
    BY <1>1, <2>10 DEF Explained
  <2>12. ASSUME NEW y, On(place, y, f), On(place, root.id, y)
         PROVE  On(place', y, f) /\ On(place', root.id, y) /\ PathTo(place', y) = PathTo(place, y)
    <3>1. On(place', y, f)
      BY <2>6, <2>12 DEF On
    <3>2. Line(place, y) = Line(place', y) /\ PathTo(place, y) = PathTo(place', y)
      BY <2>4, <3>1
    <3> QED
      BY <2>12, <3>1, <3>2 DEF On
  <2>13. Ahead(f) => Ahead(f)'
    <3>1. ASSUME NEW i \in DOMAIN pending, NEW y \in Folders, pending[i].path = PathTo(place, y),
                 On(place, y, f), On(place, root.id, y)
          PROVE  Ahead(f)'
      <4>1. On(place', y, f) /\ On(place', root.id, y) /\ PathTo(place', y) = PathTo(place, y)
        BY <2>12, <3>1
      <4>2. pending'[i].path = PathTo(place', y) /\ i \in DOMAIN pending'
        BY <1>1, <3>1, <4>1
      <4> QED
        BY <1>1, <4>1, <4>2 DEF Ahead
    <3> QED
      BY <3>1 DEF Ahead
  <2>14. ASSUME NEW y, NEW x, Way(y, x, f), OnPage(x) \/ AfterPage(y, place[x].as)
         PROVE  Underway(f)'
    <3>1. /\ y \in Folders /\ On(place, y, f) /\ On(place, root.id, y) /\ x \in Ids
          /\ On(place, x, f) /\ On(place, root.id, x) /\ place[x].in = y
          /\ current.path = PathTo(place, y)
      BY <2>8, <2>14, WayFacts DEF Way
    <3>2. /\ On(place', y, f) /\ On(place', root.id, y) /\ PathTo(place', y) = PathTo(place, y)
          /\ On(place', x, f) /\ PathTo(place', x) = PathTo(place, x)
      BY <2>12, <3>1
    <3>3. x # id /\ place'[x] = place[x]
      BY <2>1, <2>2, <3>1, <3>2
    <3>4. y # place[id].in /\ y # to.in
      BY <2>3, <3>1, <3>2
    <3>5. ASSUME NEW name PROVE Entry(y, name)' = Entry(y, name)
      <4>1. \A z \in Ids : place'[z].in = y /\ place'[z].as = name <=> place[z].in = y /\ place[z].as = name
        <5>1. place'[id].in = to.in
          BY <2>1, <2>2 DEF Layouts
        <5> QED
          BY <2>2, <3>4, <5>1
      <4> DEFINE only(at) == IF at = {} THEN Missing ELSE CHOOSE z \in at : TRUE
                 was == {z \in Ids : place[z].in = y /\ place[z].as = name}
                 is == {z \in Ids : place'[z].in = y /\ place'[z].as = name}
      <4>2. is = was
        BY <4>1
      <4>3. Entry(y, name) = only(was) /\ Entry(y, name)' = only(is)
        BY DEF Entry
      <4> HIDE DEF only, was, is
      <4> QED
        BY <4>2, <4>3
    <3>6. Listing(y)' = Listing(y)
      <4>1. Present(y)' = Present(y)
        BY <3>5 DEF Present
      <4> QED
        BY <4>1 DEF Listing
    <3>7. Way(y, x, f)'
      BY <1>1, <3>1, <3>2, <3>3 DEF Way
    <3>8. OnPage(x) => OnPage(x)'
      BY <1>1, <3>2 DEF OnPage
    <3>9. AfterPage(y, place[x].as) => AfterPage(y, place[x].as)'
      BY <1>1, <3>3, <3>6 DEF AfterPage
    <3> QED
      BY <2>14, <3>7, <3>8, <3>9 DEF Underway, Way
  <2>15. Underway(f) => Underway(f)'
    BY <2>14 DEF Underway
  <2> QED
    BY <1>1, <2>7, <2>9, <2>11, <2>13, <2>15 DEF Accounted
<1> QED
  BY <1>3 DEF Complete

\* A page is held, and a candidate kept, for as long as the traversal needs it.
LEMMA PagedStep ==
    ASSUME Paged, [Next]_vars
    PROVE  Paged'
<1> USE DEF Paged, Judging
<1>1. CASE UNCHANGED vars \/ Relocate \/ EditFile \/ RequestStop \/ Ended
  BY <1>1 DEF Relocate, EditFile, RequestStop, Ended, vars, walk, found
<1>2. FailReview => Paged'
  BY DEF FailReview
<1>3. CASE RefuseRequest \/ BeginCancelled \/ InspectRoot \/ RunOutOfMemory
  BY <1>2, <1>3 DEF RefuseRequest, BeginCancelled, InspectRoot, RunOutOfMemory
<1>4. CASE InspectExclusion \/ StartTraversal
  BY <1>2, <1>4 DEF InspectExclusion, StartTraversal, walk
<1>5. CASE TakeFolder \/ FinishTraversal \/ EndPage
  BY <1>5 DEF TakeFolder, FinishTraversal, EndPage
<1>6. CASE GetPage
  BY <1>6 DEF GetPage, LeaveFolder
<1>7. CASE ReadAttributes
  BY <1>7 DEF ReadAttributes, ItemFailed, ItemDone
<1>8. CASE InspectListedItem
  BY <1>8 DEF InspectListedItem, ItemFailed, AdmitFolder, AdmitFile, ItemDone
<1>9. CASE Collate
  BY <1>2, <1>9 DEF Collate
<1>10. CASE SkipRow \/ InspectSource \/ CaptureSource \/ AnalyzeSource \/ FinishReview
  BY <1>10 DEF SkipRow, InspectSource, CaptureSource, AnalyzeSource, FinishReview, RowDone,
               Reviewing, Untouched, found
<1>11. CASE Commit
  BY <1>11 DEF Commit, InspectForCommit, OpenSource, RevalidateSource, CommitEnds, Untouched, found
<1> QED
  BY <1>1, <1>3, <1>4, <1>5, <1>6, <1>7, <1>8, <1>9, <1>10, <1>11 DEF Next, Discover, Analyze

\* Every step keeps the review complete.
LEMMA CompleteStep ==
    ASSUME VolumeInv, WalkType, CandidatesTyped, Reviewable, Paged, Complete, [Next]_vars
    PROVE  Complete'
<1>1. CASE Discover
  BY <1>1, DiscoverAccounts
<1>2. CASE Analyze
  BY <1>2, CollateAccounts, RowsSettled, SettledAccounts DEF Analyze, Reviewable
<1>3. CASE Commit
  BY <1>3, CommitSettled, SettledAccounts DEF Reviewable
<1>4. CASE Relocate
  BY <1>4, RelocateAccounts
<1>5. CASE EditFile \/ RequestStop \/ Ended \/ UNCHANGED vars
  BY <1>5, OthersAccount DEF Ended
<1> QED
  BY <1>1, <1>2, <1>3, <1>4, <1>5 DEF Next

\* A review starts with nothing found and nothing to account for.
LEMMA CompleteStarts ==
    ASSUME Init
    PROVE  CandidatesTyped /\ Reviewable /\ Paged /\ Complete
<1>1. /\ pc = "Begin" /\ candidates = <<>> /\ page = <<>> /\ rows = <<>> /\ next = 1
      /\ progress = NoProgress /\ content = [f \in Files |-> 0]
  BY DEF Init
<1>2. content \in [Files -> Nat] /\ pc \notin Judging
  BY <1>1 DEF Judging
<1>3. Reviewable
  BY <1>1, <1>2, NoRows
<1>4. Paged /\ Complete
  BY <1>1 DEF Paged, Complete, Running, Traversing, Judging
<1>5. CandidatesTyped
  BY <1>1 DEF CandidatesTyped
<1> QED
  BY <1>3, <1>4, <1>5

\* What is accounted for at the end has been reported.
LEMMA CompleteReports ==
    ASSUME Reviewable, Paged, Complete
    PROVE  ReviewIsExact
<1>1. ASSUME pc = "Reviewed", progress.complete, NEW f \in Files, InScope(f), Undisturbed(f)
      PROVE  Reported(f)
  <2>1. Running /\ Expected(f) /\ candidates = <<>>
    BY <1>1 DEF Running, Expected, Judging, Paged
  <2>2. Explained(f)
    BY <1>1, <2>1 DEF Complete, Accounted, Traversing, Enumerating
  <2>3. Relative(CanonicalPath(f)) = ReportedAs(f)
    BY PathIsCanonical DEF Relative, ReportedAs, Rel
  <2> QED
    BY <2>1, <2>2, <2>3 DEF Explained, Reported
<1>2. \A outcomes : With(outcomes) = WithOf(rows, outcomes)
  BY DEF With, WithOf
<1>3. pc = "Reviewed" => With({"None"}) = {} /\ progress.discovered = Len(rows)
  BY DEF Reviewable, Judged, Judging, With
<1>4. /\ progress.analyzed = Cardinality(With({"Eligible", "NoTransform", "Unsupported"}))
      /\ progress.eligible = Cardinality(With({"Eligible"}))
  BY <1>2 DEF Reviewable, Judged, Analyzed
<1> QED
  BY <1>1, <1>3, <1>4 DEF ReviewIsExact, Reviewable, Ordered

\* A review that was not cancelled leaves out no image whose folders stayed as they
\* were without an issue that says so, lists each candidate once, in order, with
\* outputs that cannot collide, and its progress is what its rows say.
THEOREM ReviewsAreExact == Spec => []ReviewIsExact
<1> DEFINE Everything == /\ VolumeInv /\ WalkType /\ CandidatesTyped
                         /\ Reviewable /\ Paged /\ Complete
<1>1. Init => Everything
  BY VolumeStarts, WalkStarts, CompleteStarts
<1>2. Everything /\ [Next]_vars => Everything'
  BY VolumeStep, WalkTypeStep, CandidatesTypedStep, ReviewStep, PagedStep, CompleteStep
<1>3. Everything => ReviewIsExact
  BY CompleteReports
<1> QED
  BY <1>1, <1>2, <1>3, PTL DEF Spec

-----------------------------------------------------------------------------
(* Only what was reviewed is committed.                                    *)

\* Where a source's capability looks for it, whose folder is a selected one that
\* the review keeps, and where the review shows it.
Leaf(source) == Append(source.folder, Last(source.path))
Granted(p, top, owned, source) ==
    /\ Known(p, top.id, owned, [path |-> source.folder, chain |-> source.chain])
    /\ Leaf(source) = top.path \o source.path

\* The file itself is there.
InPlace(p, source) == Reaches(p, source.id) /\ PathTo(p, source.id) = Leaf(source)

\* A commit of the row's file, as it was reviewed and where it is shown.
Accepted(rs, top, c) ==
    /\ c.row \in DOMAIN rs /\ [id |-> c.id, content |-> c.content] \in rs[c.row].revision
    /\ c.path = top.path \o rs[c.row].source.path /\ ~c.strayed
OwnRevisions(rs) == \A i \in DOMAIN rs : \A revision \in rs[i].revision :
                        revision.id = rs[i].source.id

\* When there are candidates, and when there are commits.
Phases ==
    /\ candidates # <<>> => pc \in Traversing \cup {"Collate"}
    /\ commits # {} => pc \in {"Reviewed", "Execute", "Revalidate"}

\* While handles pin, what was found is where it was found, in folders that the
\* review keeps, and a file whose proof is held is in its place there.
HeldInPlace ==
    ProofHandlesPin =>
        /\ pc \in Traversing => Reaches(place, root.id) /\ root.path = PathTo(place, root.id)
        /\ \A i \in DOMAIN candidates : Granted(place, root, Owned, candidates[i])
        /\ \A i \in DOMAIN rows : Granted(place, root, Owned, rows[i].source)
        /\ pc \in {"Capture", "Revalidate"} =>
               proof = {rows[next].source.id} /\ InPlace(place, rows[next].source)
        /\ OwnRevisions(rows)
        /\ \A c \in commits : Accepted(rows, root, c)

\* A path below another continues it.
LEMMA Continues ==
    ASSUME NEW S, NEW r \in Seq(S), NEW t \in Seq(S), Len(r) < Len(t),
           \A i \in 1..Len(r) : t[i] = r[i]
    PROVE  LET s == SubSeq(t, Len(r) + 1, Len(t))
           IN  t = r \o s /\ Last(s) = Last(t) /\ s # <<>>
<1> DEFINE s == SubSeq(t, Len(r) + 1, Len(t))
           u == r \o s
<1>1. Len(r) \in Nat /\ Len(t) \in Nat /\ \A i \in 1..Len(t) : t[i] \in S
  OBVIOUS
<1>2. /\ s \in Seq(S) /\ Len(s) = Len(t) - Len(r)
      /\ \A j \in 1..(Len(t) - Len(r)) : s[j] = t[Len(r) + j]
  <2>1. \A i \in (Len(r) + 1)..Len(t) : t[i] \in S
    BY <1>1
  <2>2. /\ s \in Seq(S)
        /\ Len(s) = (IF Len(r) + 1 <= Len(t) THEN Len(t) - (Len(r) + 1) + 1 ELSE 0)
        /\ \A j \in 1..(Len(t) - (Len(r) + 1) + 1) : s[j] = t[Len(r) + 1 + j - 1]
    BY <1>1, <2>1, SubSeqProperties
  <2> HIDE DEF s
  <2>3. Len(t) - (Len(r) + 1) + 1 = Len(t) - Len(r) /\ \A j \in Int : Len(r) + 1 + j - 1 = Len(r) + j
    BY <1>1
  <2>4. ASSUME NEW j \in 1..(Len(t) - Len(r)) PROVE s[j] = t[Len(r) + j]
    <3>1. j \in 1..(Len(t) - (Len(r) + 1) + 1) /\ Len(r) + 1 + j - 1 = Len(r) + j
      BY <2>3
    <3>2. s[j] = t[Len(r) + 1 + j - 1]
      BY <2>2, <3>1
    <3> QED
      BY <3>1, <3>2
  <2>5. Len(s) = Len(t) - Len(r)
    <3>1. Len(r) + 1 <= Len(t)
      BY <1>1
    <3> QED
      BY <2>2, <2>3, <3>1
  <2> QED
    BY <2>2, <2>4, <2>5
<1> HIDE DEF s
<1>3. u \in Seq(S) /\ Len(u) = Len(t)
  BY <1>1, <1>2
<1>4. ASSUME NEW i \in 1..Len(t) PROVE u[i] = t[i]
  <2>1. CASE i <= Len(r)
    BY <1>1, <1>2, <2>1
  <2>2. CASE ~(i <= Len(r))
    <3>1. i - Len(r) \in 1..(Len(t) - Len(r)) /\ Len(r) + (i - Len(r)) = i
      BY <1>1, <2>2
    <3>2. u[i] = s[i - Len(r)]
      BY <1>1, <1>2, <2>2
    <3> QED
      BY <1>2, <3>1, <3>2
  <2> QED
    BY <2>1, <2>2
<1> HIDE DEF u
<1>5. u = t
  BY <1>3, <1>4, SeqEqual
<1>6. Len(t) - Len(r) \in 1..(Len(t) - Len(r)) /\ Len(r) + (Len(t) - Len(r)) = Len(t)
  BY <1>1
<1>7. Last(s) = Last(t) /\ s # <<>>
  BY <1>1, <1>2, <1>6 DEF Last
<1> QED
  BY <1>5, <1>7 DEF s, u

\* A file is in place when its capability's path leads to it.
LEMMA GrantedLeaf ==
    ASSUME VolumeInv, NEW source \in Source, Granted(place, root, Owned, source),
           Resolve(Leaf(source)) = source.id
    PROVE  InPlace(place, source)
<1> DEFINE name == Last(source.path)
           S == Names \cup {name}
<1>1. PICK y \in Folders : source.folder = PathTo(place, y) /\ Selected(place, root.id, Owned, y)
  BY DEF Granted, Known
<1>2. Reaches(place, y) /\ Resolve(source.folder) = y
  BY <1>1, PathLeadsBack DEF Selected
<1>3. source.folder \in Seq(S) /\ name \in S /\ source.id \in Files
  BY DEF Source
<1>4. Leaf(source) \in Seq(S)
  BY <1>3 DEF Leaf
<1>5. Resolve(Leaf(source)) = Followed(Entry(y, name))
  BY <1>2, <1>3, ResolveAppend DEF Leaf
<1> DEFINE e == Entry(y, name)
<1>6. Followed(e) = source.id /\ e \in Ids \cup {Missing}
  BY <1>5, EntryFacts
<1>7. e \notin Junctions
  <2>1. SUFFICES ASSUME e \in Junctions PROVE FALSE
    OBVIOUS
  <2>2. Followed(e) \in Folders \cup {Missing}
    BY <2>1, CollectionAssumption DEF Followed, Target, world, VolumeInv
  <2> QED
    BY <1>3, <1>6, <2>2, CollectionFacts
<1>8. e = source.id /\ e \in Ids
  BY <1>3, <1>6, <1>7, CollectionFacts DEF Followed
<1>9. place[source.id] = [in |-> y, as |-> name]
  BY <1>8, EntryFacts
<1> HIDE DEF e, S
<1>10. Reaches(place, source.id)
  <2>1. Len(Leaf(source)) \in Nat
    BY <1>4
  <2> QED
    BY <1>8, <2>1, CollectionFacts, ResolvedIsReached
<1>11. PathTo(place, source.id) = Append(PathTo(place, y), name)
  BY <1>8, <1>9, <1>10, PathOfItem DEF VolumeInv
<1> QED
  BY <1>1, <1>10, <1>11 DEF InPlace, Leaf

\* A file in place is what its path leads to, in a folder that was selected.
LEMMA PlacedLeaf ==
    ASSUME VolumeInv, root.id \in Folders, NEW source \in Source,
           Granted(place, root, Owned, source), InPlace(place, source)
    PROVE  /\ Resolve(Leaf(source)) = source.id
           /\ CanonicalPath(source.id) = root.path \o source.path
           /\ ~Foreign(place[source.id].in)
<1>1. PICK y \in Folders : source.folder = PathTo(place, y) /\ Selected(place, root.id, Owned, y)
  BY DEF Granted, Known
<1>2. source.id \in Files /\ source.id \in Ids /\ Reaches(place, source.id) /\ place \in Layouts
  BY CollectionFacts DEF Source, InPlace, VolumeInv
<1>3. Resolve(Leaf(source)) = source.id
  BY <1>2, PathLeadsBack DEF InPlace
<1>4. CanonicalPath(source.id) = root.path \o source.path
  BY PathIsCanonical DEF InPlace, Granted
<1> DEFINE q == place[source.id].in
           S == Names \cup {Last(source.path)}
<1>5. q \in Folders \cup {Volume} /\ Reaches(place, q)
  BY <1>2, LineOfItem
<1>6. PathTo(place, q) = Front(Leaf(source))
  BY <1>2, PathOfItem DEF InPlace
<1>7. Front(Leaf(source)) = source.folder
  <2>1. source.folder \in Seq(S) /\ Last(source.path) \in S
    BY DEF Source
  <2> QED
    BY <2>1, FrontOfAppend DEF Leaf
<1>8. q = y
  <2>1. Resolve(PathTo(place, q)) = q
    BY <1>5, PathLeadsBack
  <2>2. Resolve(PathTo(place, y)) = y
    BY <1>1, PathLeadsBack DEF Selected
  <2> QED
    BY <1>1, <1>6, <1>7, <2>1, <2>2
<1>9. ~Foreign(q)
  BY <1>1, <1>8, SelectedIsNotForeign
<1> QED
  BY <1>3, <1>4, <1>9

\* What discovery makes of an admitted file is granted.
LEMMA CandidateIsGranted ==
    ASSUME VolumeInv, WalkType, Known(place, root.id, Owned, current), pc = "Inspect",
           root.path = PathTo(place, root.id),
           NEW inspected \in Inspected(Head(page).path, Files), DirectChild(inspected)
    PROVE  Granted(place, root, Owned, CandidateOf(inspected))
<1>1. Head(page).path \in Seq(Names)
  <2>1. page \in Seq(PageItem) /\ page # <<>>
    BY DEF WalkType
  <2>2. Head(page) \in PageItem
    BY <2>1
  <2> QED
    BY <2>2 DEF PageItem
<1>2. /\ inspected.id \in Files /\ inspected.id \in Ids /\ Reaches(place, inspected.id)
      /\ inspected.path = PathTo(place, inspected.id) /\ inspected.path \in Seq(Names)
  BY <1>1, InspectedTyped
<1>3. place \in Layouts
  BY DEF VolumeInv
<1>4. PICK y \in Folders : /\ current.path = PathTo(place, y) /\ y \in current.chain
                           /\ Selected(place, root.id, Owned, y)
  BY DEF Known
<1>5. y \in Points /\ root.id \in Points /\ Reaches(place, y) /\ On(place, root.id, y)
  BY <1>4, CollectionFacts DEF Selected, Points, WalkType
<1> DEFINE t == inspected.path
           q == place[inspected.id].in
           name == place[inspected.id].as
<1>6. t = Append(PathTo(place, q), name) /\ PathTo(place, q) = current.path /\ name \in Names
  BY <1>2, <1>3, PathOfItem, ParentIsPoint DEF DirectChild, Layouts, Place, Nowhere, Names
<1>7. current.path \in Seq(Names) /\ root.path \in Seq(Names)
  BY DEF WalkType, FolderRecord
<1>8. Len(root.path) <= Len(current.path) /\ \A i \in 1..Len(root.path) : current.path[i] = root.path[i]
  <2>1. PICK k \in 1..Len(Line(place, y)) : Line(place, y)[k] = root.id
    BY <1>3, <1>5, OnLine
  <2>2. Len(Line(place, root.id)) = k /\ \A j \in 1..k : Line(place, root.id)[j] = Line(place, y)[j]
    BY <1>3, <1>5, <2>1, LinesAreNested DEF Nested
  <2>3. Len(Line(place, y)) \in Nat /\ Len(root.path) = k - 1
        /\ Len(current.path) = Len(Line(place, y)) - 1
    BY <1>3, <1>4, <1>5, <2>2, LineTyped, PathTyped
  <2>4. /\ root.path = [i \in 1..(k - 1) |-> place[Line(place, root.id)[i + 1]].as]
        /\ current.path = [i \in 1..(Len(Line(place, y)) - 1) |-> place[Line(place, y)[i + 1]].as]
    BY <1>4, <2>2 DEF PathTo
  <2>5. ASSUME NEW i \in 1..Len(root.path) PROVE current.path[i] = root.path[i]
    <3>1. i \in 1..(k - 1) /\ i \in 1..(Len(Line(place, y)) - 1) /\ i + 1 \in 1..k
      BY <2>3
    <3> QED
      BY <2>2, <2>4, <3>1
  <2> QED
    BY <2>3, <2>5
<1>9. Len(root.path) < Len(t) /\ \A i \in 1..Len(root.path) : t[i] = root.path[i]
  BY <1>6, <1>7, <1>8
<1> HIDE DEF t, q, name
<1>10. t = root.path \o Relative(t) /\ Last(Relative(t)) = Last(t)
  BY <1>2, <1>7, <1>9, Continues DEF Relative, t
<1>11. Last(t) = name
  BY <1>6, <1>7, FrontOfAppend
<1> DEFINE source == CandidateOf(inspected)
<1>12. source.path = Relative(t) /\ source.folder = current.path /\ source.chain = current.chain
  BY DEF CandidateOf, t
<1> HIDE DEF source
<1>13. Leaf(source) = root.path \o source.path
  BY <1>6, <1>10, <1>11, <1>12 DEF Leaf
<1>14. Known(place, root.id, Owned, [path |-> source.folder, chain |-> source.chain])
  BY <1>4, <1>12 DEF Known
<1> QED
  BY <1>13, <1>14 DEF Granted, source

\* When there are candidates, and commits, stays so.
LEMMA PhasesStep ==
    ASSUME Phases, [Next]_vars
    PROVE  Phases'
<1> USE DEF Phases, Traversing
<1>1. CASE UNCHANGED vars \/ Relocate \/ EditFile \/ RequestStop \/ Ended
  BY <1>1 DEF Relocate, EditFile, RequestStop, Ended, vars, found, review
<1>2. FailReview => candidates' = <<>> /\ commits' = commits /\ pc' = "Failed"
  BY DEF FailReview, review
<1>3. CASE RefuseRequest \/ BeginCancelled \/ InspectRoot \/ RunOutOfMemory
  BY <1>2, <1>3 DEF RefuseRequest, BeginCancelled, InspectRoot, RunOutOfMemory, found, review
<1>4. CASE InspectExclusion \/ StartTraversal
  BY <1>2, <1>4 DEF InspectExclusion, StartTraversal, found, review
<1>5. CASE TakeFolder \/ FinishTraversal \/ EndPage
  BY <1>5 DEF TakeFolder, FinishTraversal, EndPage, found, review
<1>6. CASE GetPage
  BY <1>6 DEF GetPage, LeaveFolder, found, review
<1>7. CASE ReadAttributes
  BY <1>7 DEF ReadAttributes, ItemFailed, ItemDone, found, review
<1>8. CASE InspectListedItem
  BY <1>8 DEF InspectListedItem, ItemFailed, AdmitFolder, AdmitFile, ItemDone, review
<1>9. CASE Collate
  BY <1>2, <1>9 DEF Collate
<1>10. CASE SkipRow \/ InspectSource \/ CaptureSource \/ AnalyzeSource \/ FinishReview
  BY <1>10 DEF SkipRow, InspectSource, CaptureSource, AnalyzeSource, FinishReview, RowDone,
               Reviewing, Untouched, found, review
<1>11. CASE Commit
  BY <1>11 DEF Commit, InspectForCommit, OpenSource, RevalidateSource, CommitEnds, Untouched, found
<1> QED
  BY <1>1, <1>3, <1>4, <1>5, <1>6, <1>7, <1>8, <1>9, <1>10, <1>11 DEF Next, Discover, Analyze

\* A verdict and a commit's end leave what was reviewed alone.
LEMMA ReviewedStays ==
    ASSUME NEW rs \in Seq(RowRecord), NEW i, NEW value, NEW qs,
           \/ qs = [rs EXCEPT ![i].outcome = value]
           \/ qs = [rs EXCEPT ![i].commit = value]
    PROVE  /\ DOMAIN qs = DOMAIN rs
           /\ \A k \in DOMAIN rs : qs[k].source = rs[k].source /\ qs[k].revision = rs[k].revision
<1>1. DOMAIN qs = DOMAIN rs
  OBVIOUS
<1>2. ASSUME NEW k \in DOMAIN rs
      PROVE  qs[k].source = rs[k].source /\ qs[k].revision = rs[k].revision
  <2>1. rs[k] \in RowRecord
    OBVIOUS
  <2>2. CASE qs = [rs EXCEPT ![i].outcome = value]
    BY <2>1, <2>2 DEF RowRecord
  <2>3. CASE qs = [rs EXCEPT ![i].commit = value]
    BY <2>1, <2>3 DEF RowRecord
  <2> QED
    BY <2>2, <2>3
<1> QED
  BY <1>1, <1>2

\* So its revisions are its own, and its commits accepted, as before.
LEMMA AcceptedStays ==
    ASSUME NEW rs, NEW qs, DOMAIN qs = DOMAIN rs, NEW top,
           \A k \in DOMAIN rs : qs[k].source = rs[k].source /\ qs[k].revision = rs[k].revision
    PROVE  /\ OwnRevisions(rs) => OwnRevisions(qs)
           /\ \A c : Accepted(rs, top, c) => Accepted(qs, top, c)
BY DEF OwnRevisions, Accepted

\* A step of the review or of a commit keeps everything in place that it leaves there.
LEMMA RowsHeld ==
    ASSUME HeldInPlace, place' = place, scenario' = scenario, root' = root,
           candidates' = candidates, pc' \in Traversing => pc \in Traversing,
           DOMAIN rows' = DOMAIN rows, \A k \in DOMAIN rows : rows'[k].source = rows[k].source,
           ProofHandlesPin =>
               /\ pc' \in {"Capture", "Revalidate"} =>
                      proof' = {rows'[next'].source.id} /\ InPlace(place, rows'[next'].source)
               /\ OwnRevisions(rows')
               /\ \A c \in commits' : Accepted(rows', root, c)
    PROVE  HeldInPlace'
<1>1. Owned' = Owned /\ ProofHandlesPin' = ProofHandlesPin
  BY DEF Owned, OwnedRecords, ProofHandlesPin, world
<1>2. SUFFICES ASSUME ProofHandlesPin PROVE HeldInPlace'
  BY <1>1 DEF HeldInPlace
<1>3. /\ pc \in Traversing => Reaches(place, root.id) /\ root.path = PathTo(place, root.id)
      /\ \A i \in DOMAIN candidates : Granted(place, root, Owned, candidates[i])
      /\ \A i \in DOMAIN rows : Granted(place, root, Owned, rows[i].source)
  BY <1>2 DEF HeldInPlace
<1> QED
  BY <1>1, <1>2, <1>3 DEF HeldInPlace

\* The path of a row's capability.
LEMMA LeafOfRow ==
    ASSUME NEW row
    PROVE  LeafPath(row) = Leaf(row.source)
BY DEF LeafPath, Leaf

\* The current row, and where its file is granted.
LEMMA CurrentRow ==
    ASSUME RowsTyped, HeldInPlace, ProofHandlesPin, NEW i \in DOMAIN rows
    PROVE  /\ rows[i] \in RowRecord /\ rows[i].source \in Source /\ rows[i].source.id \in Files
           /\ Granted(place, root, Owned, rows[i].source)
<1>1. rows[i] \in RowRecord
  BY DEF RowsTyped
<1>2. rows[i].source \in Source /\ rows[i].source.id \in Files
  BY <1>1 DEF RowRecord, Source
<1> QED
  BY <1>1, <1>2 DEF HeldInPlace

\* A verdict.
LEMMA VerdictHeld ==
    ASSUME RowsTyped, HeldInPlace, place' = place, scenario' = scenario, NEW outcome,
           RowDone(outcome)
    PROVE  HeldInPlace'
<1>1. /\ rows' = [rows EXCEPT ![next].outcome = outcome] /\ pc' = "Review" /\ commits' = commits
      /\ root' = root /\ candidates' = candidates
  BY DEF RowDone, Untouched, found
<1>2. /\ DOMAIN rows' = DOMAIN rows
      /\ \A k \in DOMAIN rows : rows'[k].source = rows[k].source
                                /\ rows'[k].revision = rows[k].revision
  BY <1>1, ReviewedStays DEF RowsTyped
<1>3. ProofHandlesPin => OwnRevisions(rows') /\ \A c \in commits' : Accepted(rows', root, c)
  BY <1>1, <1>2, AcceptedStays DEF HeldInPlace
<1> QED
  BY <1>1, <1>2, <1>3, RowsHeld DEF Traversing

\* The review of a row keeps files in place while their proofs are held.
LEMMA ReviewHeld ==
    ASSUME VolumeInv, WalkType, RowsTyped, Phases, HeldInPlace,
           SkipRow \/ InspectSource \/ CaptureSource \/ AnalyzeSource \/ FinishReview
    PROVE  HeldInPlace'
<1>0. place' = place /\ scenario' = scenario /\ root' = root /\ candidates' = candidates
  BY DEF SkipRow, InspectSource, CaptureSource, AnalyzeSource, FinishReview, RowDone, Untouched,
         volume, found
<1>1. CASE \E outcome : RowDone(outcome)
  BY <1>0, <1>1, VerdictHeld
<1>2. CASE FinishReview
  <2>1. rows' = rows /\ pc' = "Reviewed" /\ commits' = commits
    BY <1>2 DEF FinishReview, review
  <2> QED
    BY <1>0, <2>1, RowsHeld DEF HeldInPlace, Traversing
<1>3. CASE InspectSource /\ ~\E outcome : RowDone(outcome)
  <2>1. /\ next \in DOMAIN rows /\ pc' = "Capture" /\ rows' = rows /\ next' = next
        /\ commits' = commits
    BY <1>3 DEF InspectSource, Reviewing, RowsTyped
  <2>2. PICK inspected \in Inspected(LeafPath(rows[next]), Files) :
          SameSource(rows[next], inspected) /\ proof' = {inspected.id}
    BY <1>3 DEF InspectSource
  <2>3. ASSUME ProofHandlesPin
        PROVE  proof' = {rows[next].source.id} /\ InPlace(place, rows[next].source)
    <3>1. inspected.id = rows[next].source.id /\ inspected.path = Leaf(rows[next].source)
      BY <2>2, LeafOfRow DEF SameSource
    <3>2. rows[next].source \in Source
      BY <2>1, <2>3, CurrentRow
    <3>3. Len(LeafPath(rows[next])) \in Nat
      <4> DEFINE S == Names \cup {Last(rows[next].source.path)}
      <4>1. rows[next].source.folder \in Seq(S) /\ Last(rows[next].source.path) \in S
        BY <3>2 DEF Source
      <4> HIDE DEF S
      <4> QED
        BY <4>1 DEF LeafPath
    <3>4. inspected.path = PathTo(place, inspected.id) /\ Reaches(place, inspected.id)
      BY <2>2, <3>3, InspectedFacts
    <3> QED
      BY <2>2, <3>1, <3>4 DEF InPlace
  <2> QED
    BY <1>0, <2>1, <2>3, RowsHeld DEF HeldInPlace, Traversing
<1>4. CASE CaptureSource /\ ~\E outcome : RowDone(outcome)
  <2> DEFINE source == Resolve(LeafPath(rows[next]))
  <2>1. /\ pc = "Capture" /\ pc' = "Analyze" /\ commits' = commits /\ source \in Files
        /\ rows' = [rows EXCEPT ![next].revision = {[id |-> source, content |-> content[source]]}]
    BY <1>4 DEF CaptureSource
  <2>2. next \in DOMAIN rows /\ rows \in Seq(RowRecord)
    BY <2>1 DEF RowsTyped
  <2>3. commits' = {}
    BY <2>1 DEF Phases
  <2> DEFINE seen == {[id |-> source, content |-> content[source]]}
  <2>4. \A revision \in seen : revision.id = source
    OBVIOUS
  <2>5. ProofHandlesPin => source = rows[next].source.id
    <3> SUFFICES ASSUME ProofHandlesPin PROVE source = rows[next].source.id
      OBVIOUS
    <3>1. InPlace(place, rows[next].source)
      BY <2>1 DEF HeldInPlace
    <3> QED
      BY <2>2, <3>1, CurrentRow, PlacedLeaf, LeafOfRow DEF WalkType
  <2> HIDE DEF source, seen
  <2>6. rows' = [rows EXCEPT ![next].revision = seen]
    BY <2>1 DEF source, seen
  <2>7. /\ DOMAIN rows' = DOMAIN rows
        /\ \A k \in DOMAIN rows : rows'[k].source = rows[k].source
        /\ rows'[next].revision = seen
        /\ \A k \in DOMAIN rows : k # next => rows'[k].revision = rows[k].revision
    <3>1. \A k \in DOMAIN rows : rows[k] \in RowRecord
      BY <2>2
    <3> QED
      BY <2>2, <2>6, <3>1 DEF RowRecord
  <2>8. ProofHandlesPin => OwnRevisions(rows')
    BY <2>4, <2>5, <2>7 DEF HeldInPlace, OwnRevisions
  <2> QED
    BY <1>0, <2>1, <2>3, <2>7, <2>8, RowsHeld DEF Traversing
<1>5. SkipRow \/ AnalyzeSource => \E outcome : RowDone(outcome)
  BY DEF SkipRow, AnalyzeSource
<1> QED
  BY <1>1, <1>2, <1>3, <1>4, <1>5

\* A commit changes a file that is in place, or none.
LEMMA CommitHeld ==
    ASSUME VolumeInv, WalkType, RowsTyped, HeldInPlace, Commit
    PROVE  HeldInPlace'
<1>0. /\ place' = place /\ scenario' = scenario /\ root' = root /\ candidates' = candidates
      /\ pc' \notin Traversing
  BY DEF Commit, InspectForCommit, OpenSource, RevalidateSource, CommitEnds, Untouched, volume,
         found, Traversing
<1>1. ASSUME NEW i, NEW outcome, CommitEnds(i, outcome)
      PROVE  /\ pc' = "Reviewed" /\ DOMAIN rows' = DOMAIN rows
             /\ \A k \in DOMAIN rows : rows'[k].source = rows[k].source
                                       /\ rows'[k].revision = rows[k].revision
             /\ OwnRevisions(rows) => OwnRevisions(rows')
             /\ \A c : Accepted(rows, root, c) => Accepted(rows', root, c)
  <2>1. rows' = [rows EXCEPT ![i].commit = outcome] /\ pc' = "Reviewed"
    BY <1>1 DEF CommitEnds
  <2>2. /\ DOMAIN rows' = DOMAIN rows
        /\ \A k \in DOMAIN rows : rows'[k].source = rows[k].source
                                  /\ rows'[k].revision = rows[k].revision
    BY <2>1, ReviewedStays DEF RowsTyped
  <2> QED
    BY <2>1, <2>2, AcceptedStays
<1>2. CASE (\E i, outcome : CommitEnds(i, outcome)) /\ commits' = commits
  BY <1>0, <1>1, <1>2, RowsHeld DEF HeldInPlace
<1>3. CASE rows' = rows /\ commits' = commits /\ pc' = "Execute"
  BY <1>0, <1>3, RowsHeld DEF HeldInPlace
<1>4. CASE OpenSource /\ ~\E i, outcome : CommitEnds(i, outcome)
  <2>1. /\ pc = "Execute" /\ rows' = rows /\ next' = next /\ commits' = commits
        /\ \E inspected \in Inspected(LeafPath(rows[next]), Files) :
               inspected.id = rows[next].source.id /\ proof' = {inspected.id}
    BY <1>4 DEF OpenSource
  <2>2. next \in DOMAIN rows
    BY <2>1 DEF RowsTyped
  <2>3. Resolve(Leaf(rows[next].source)) = rows[next].source.id
    BY <2>1, LeafOfRow DEF Inspected
  <2>4. ProofHandlesPin => InPlace(place, rows[next].source)
    BY <2>2, <2>3, CurrentRow, GrantedLeaf
  <2> QED
    BY <1>0, <2>1, <2>4, RowsHeld DEF HeldInPlace
<1>5. CASE RevalidateSource /\ commits' # commits
  <2> DEFINE source == Resolve(LeafPath(rows[next]))
             c == [row |-> next, id |-> source, content |-> content[source],
                   path |-> CanonicalPath(source), strayed |-> Foreign(place[source].in)]
             reviewed == {revision.content : revision \in rows[next].revision}
  <2>1. /\ pc = "Revalidate" /\ content[source] \in reviewed /\ CommitEnds(next, "Committed")
        /\ commits' = commits \cup {c}
    BY <1>5 DEF RevalidateSource
  <2>2. next \in DOMAIN rows
    BY <2>1 DEF RowsTyped
  <2>3. PICK revision \in rows[next].revision : revision.content = content[source]
    BY <2>1
  <2>4. revision = [id |-> revision.id, content |-> revision.content]
    <3>0. rows[next] \in RowRecord
      BY <2>2 DEF RowsTyped
    <3>1. rows[next].revision \in Revisions
      BY <3>0 DEF RowRecord
    <3>2. revision \in [id : Files, content : Nat]
      BY <2>3, <3>1 DEF Revisions
    <3> QED
      BY <3>2
  <2>5. ASSUME ProofHandlesPin PROVE Accepted(rows, root, c)
    <3>1. InPlace(place, rows[next].source)
      BY <2>1, <2>5 DEF HeldInPlace
    <3>2. rows[next].source \in Source /\ Granted(place, root, Owned, rows[next].source)
      BY <2>2, <2>5, CurrentRow
    <3>3. /\ source = rows[next].source.id
          /\ CanonicalPath(source) = root.path \o rows[next].source.path
          /\ ~Foreign(place[source].in)
      BY <3>1, <3>2, PlacedLeaf, LeafOfRow DEF WalkType
    <3>4. revision.id = rows[next].source.id
      BY <2>2, <2>5 DEF HeldInPlace, OwnRevisions
    <3> HIDE DEF source
    <3>5. [id |-> c.id, content |-> c.content] = revision
      BY <2>3, <2>4, <3>3, <3>4
    <3>6. c.row = next /\ c.path = root.path \o rows[next].source.path /\ ~c.strayed
      BY <3>3
    <3> QED
      BY <2>2, <2>3, <3>5, <3>6 DEF Accepted
  <2> HIDE DEF c
  <2>6. ProofHandlesPin => OwnRevisions(rows') /\ \A d \in commits' : Accepted(rows', root, d)
    BY <1>1, <2>1, <2>5 DEF HeldInPlace
  <2> QED
    BY <1>0, <1>1, <2>1, <2>6, RowsHeld
<1> QED
  <2>1. InspectForCommit => \/ (\E i, outcome : CommitEnds(i, outcome)) /\ commits' = commits
                            \/ rows' = rows /\ commits' = commits /\ pc' = "Execute"
    BY DEF InspectForCommit
  <2>2. OpenSource /\ (\E i, outcome : CommitEnds(i, outcome)) => commits' = commits
    BY DEF OpenSource
  <2>3. RevalidateSource => \E i, outcome : CommitEnds(i, outcome)
    BY DEF RevalidateSource
  <2> QED
    BY <1>2, <1>3, <1>4, <1>5, <2>1, <2>2, <2>3 DEF Commit

\* The rows' files are the candidates', in another order.
LEMMA CollateHeld ==
    ASSUME VolumeInv, CandidatesTyped, RowsTyped, Phases, HeldInPlace, Collate
    PROVE  HeldInPlace'
<1>1. /\ place' = place /\ scenario' = scenario /\ root' = root /\ candidates' = <<>>
      /\ pc = "Collate" /\ commits' = commits /\ pc' \in {"Failed", "Review"}
  BY DEF Collate, FailReview, volume, review
<1>2. Owned' = Owned /\ ProofHandlesPin' = ProofHandlesPin
  BY <1>1 DEF Owned, OwnedRecords, ProofHandlesPin, world
<1>3. SUFFICES ASSUME ProofHandlesPin PROVE HeldInPlace'
  BY <1>2 DEF HeldInPlace
<1>4. commits' = {} /\ rows = <<>>
  BY <1>1 DEF Phases, RowsTyped, Judging
<1>5. /\ \A i \in DOMAIN rows' : Granted(place, root, Owned, rows'[i].source)
      /\ OwnRevisions(rows')
  <2>1. CASE FailReview
    <3>1. rows' = <<>>
      BY <1>4, <2>1 DEF FailReview, review
    <3> QED
      BY <3>1 DEF OwnRevisions
  <2>2. CASE ~FailReview
    <3>1. /\ rows' = [k \in DOMAIN candidates |-> Row(candidates[Sorted(k)])]
          /\ \A i, j \in DOMAIN candidates : ~Collides(i, j)
      BY <2>2 DEF Collate, Sorted
    <3>2. \A k \in DOMAIN candidates : Sorted(k) \in DOMAIN candidates
      BY <3>1, SortedFacts DEF CandidatesTyped
    <3>3. DOMAIN rows' = DOMAIN candidates
      BY <3>1
    <3>4. ASSUME NEW k \in DOMAIN candidates
          PROVE  rows'[k].source = candidates[Sorted(k)] /\ rows'[k].revision = {}
      BY <3>1 DEF Row
    <3>5. \A i \in DOMAIN candidates : Granted(place, root, Owned, candidates[i])
      BY <1>3 DEF HeldInPlace
    <3> QED
      BY <3>2, <3>3, <3>4, <3>5 DEF OwnRevisions
  <2> QED
    BY <2>1, <2>2
<1> QED
  BY <1>1, <1>2, <1>4, <1>5 DEF HeldInPlace, Traversing

\* Only the proof of the selected folder gives the root its place.
LEMMA RootKept ==
    ASSUME Discover, ~InspectRoot
    PROVE  root' = root /\ (pc' \in Traversing => pc \in Traversing)
<1> USE DEF Traversing
<1>1. FailReview => root' = root /\ pc' = "Failed"
  BY DEF FailReview
<1>2. CASE RefuseRequest \/ BeginCancelled \/ RunOutOfMemory
  BY <1>1, <1>2 DEF RefuseRequest, BeginCancelled, RunOutOfMemory
<1>3. CASE InspectExclusion \/ StartTraversal
  BY <1>1, <1>3 DEF InspectExclusion, StartTraversal
<1>4. CASE TakeFolder \/ FinishTraversal \/ EndPage
  BY <1>4 DEF TakeFolder, FinishTraversal, EndPage
<1>5. CASE GetPage
  BY <1>5 DEF GetPage, LeaveFolder
<1>6. CASE ReadAttributes
  BY <1>6 DEF ReadAttributes, ItemFailed, ItemDone
<1>7. CASE InspectListedItem
  BY <1>7 DEF InspectListedItem, ItemFailed, AdmitFolder, AdmitFile, ItemDone
<1> QED
  BY <1>2, <1>3, <1>4, <1>5, <1>6, <1>7 DEF Discover

\* Discovery grants what it finds.
LEMMA DiscoverHeld ==
    ASSUME VolumeInv, WalkType, CandidatesTyped, Selection, Reviewable, Phases, HeldInPlace,
           [Next]_vars, ~Relocate, Discover
    PROVE  HeldInPlace'
<1>0. pc \notin Judging /\ pc' \notin Judging /\ pc # "Collate"
  <2>1. pc \in Traversing \cup {"Begin"}
    BY DEF Discover, RefuseRequest, BeginCancelled, InspectRoot, InspectExclusion, StartTraversal,
           RunOutOfMemory, TakeFolder, FinishTraversal, GetPage, EndPage, ReadAttributes,
           InspectListedItem, Traversing
  <2>2. pc' \in Traversing \cup {"Collate", "Failed"}
    <3> USE DEF Traversing
    <3>1. CASE InspectRoot
      BY <3>1 DEF InspectRoot, FailReview
    <3>2. CASE BeginCancelled \/ FinishTraversal
      BY <3>2 DEF BeginCancelled, FinishTraversal
    <3>3. CASE RefuseRequest \/ RunOutOfMemory \/ InspectExclusion
      BY <3>3 DEF RefuseRequest, RunOutOfMemory, InspectExclusion, FailReview
    <3>4. CASE StartTraversal \/ TakeFolder \/ EndPage
      BY <3>4 DEF StartTraversal, TakeFolder, EndPage
    <3>5. CASE GetPage \/ ReadAttributes \/ InspectListedItem
      BY <3>5 DEF GetPage, LeaveFolder, ReadAttributes, ItemFailed, ItemDone, InspectListedItem,
                  AdmitFolder, AdmitFile
    <3> QED
      BY <3>1, <3>2, <3>3, <3>4, <3>5 DEF Discover
  <2> QED
    BY <2>1, <2>2 DEF Traversing, Judging
<1>1. place' = place /\ scenario' = scenario
  BY TreeKept
<1>2. Owned' = Owned /\ ProofHandlesPin' = ProofHandlesPin
  BY <1>1 DEF Owned, OwnedRecords, ProofHandlesPin, world
<1>3. SUFFICES ASSUME ProofHandlesPin PROVE HeldInPlace'
  BY <1>2 DEF HeldInPlace
<1>4. rows' = <<>> /\ commits' = {}
  <2>1. Reviewable' /\ Phases'
    BY ReviewStep, PhasesStep
  <2> QED
    BY <1>0, <2>1 DEF Reviewable, RowsTyped, Phases, Judging
<1>5. /\ pc \in Traversing => Reaches(place, root.id) /\ root.path = PathTo(place, root.id)
      /\ \A i \in DOMAIN candidates : Granted(place, root, Owned, candidates[i])
  BY <1>3 DEF HeldInPlace
<1>6. pc' \in Traversing => Reaches(place, root'.id) /\ root'.path = PathTo(place, root'.id)
  <2>1. CASE InspectRoot
    <3>1. pc' \in Traversing => \E inspected \in Inspected(root.path, Folders) : root' = inspected
      BY <2>1 DEF InspectRoot, FailReview, Traversing
    <3> QED
      BY <3>1, InspectedTyped DEF WalkType
  <2>2. CASE ~InspectRoot
    BY <1>5, <2>2, RootKept
  <2> QED
    BY <2>1, <2>2
<1>7. \A i \in DOMAIN candidates' : Granted(place, root', Owned, candidates'[i])
  <2>1. CASE candidates' = <<>>
    BY <2>1
  <2>2. CASE candidates' = candidates /\ candidates # <<>>
    <3>1. ~InspectRoot
      BY <2>2 DEF InspectRoot, Phases, Traversing
    <3> QED
      BY <1>5, <2>2, <3>1, RootKept
  <2>3. CASE candidates' # candidates /\ candidates' # <<>>
    <3>1. PICK inspected \in Inspected(Head(page).path, Files) :
            /\ pc = "Inspect" /\ AdmitFile(inspected)
            /\ candidates' = Append(candidates, CandidateOf(inspected))
      BY <2>3, CandidatesChange
    <3>2. root' = root
      BY <3>1, RootKept DEF InspectRoot
    <3>3. Known(place, root.id, Owned, current) /\ root.path = PathTo(place, root.id)
      BY <1>3, <1>5, <3>1 DEF Selection, Enumerating, Traversing
    <3> DEFINE new == CandidateOf(inspected)
    <3>4. Granted(place, root, Owned, new)
      BY <3>1, <3>3, CandidateIsGranted DEF AdmitFile
    <3>5. candidates' = Append(candidates, new)
      BY <3>1
    <3> HIDE DEF new
    <3>6. candidates \in Seq(Source)
      BY DEF CandidatesTyped
    <3>7. /\ DOMAIN candidates' = 1..(Len(candidates) + 1)
          /\ candidates'[Len(candidates) + 1] = new
          /\ \A i \in 1..Len(candidates) : candidates'[i] = candidates[i] /\ i \in DOMAIN candidates
          /\ Len(candidates) \in Nat
      BY <3>5, <3>6
    <3>8. ASSUME NEW i \in DOMAIN candidates', i # Len(candidates) + 1
          PROVE  i \in 1..Len(candidates)
      BY <3>7, <3>8
    <3> QED
      BY <1>5, <3>2, <3>4, <3>7, <3>8
  <2> QED
    BY <2>1, <2>2, <2>3, CandidatesChange
<1>8. pc' \notin {"Capture", "Revalidate"}
  BY <1>0 DEF Judging
<1> QED
  BY <1>1, <1>2, <1>4, <1>6, <1>7, <1>8 DEF HeldInPlace, OwnRevisions

\* The folders above what was found are kept.
LEMMA ChainsAreRetained ==
    /\ \A i \in DOMAIN candidates : candidates[i].chain \subseteq Retained
    /\ \A i \in DOMAIN rows : rows[i].source.chain \subseteq Retained
<1> DEFINE others == {root.id : r \in IF pc \in {"Begin", "Failed"} THEN {} ELSE {root}}
                     \cup exclusions \cup current.chain
                     \cup (UNION {pending[i].chain : i \in DOMAIN pending})
           admitted == UNION {candidates[i].chain : i \in DOMAIN candidates}
           listed == UNION {rows[i].source.chain : i \in DOMAIN rows}
<1>1. Retained = others \cup admitted \cup listed \cup proof
  BY DEF Retained, RetainedFolders
<1>2. \A i \in DOMAIN candidates : candidates[i].chain \subseteq admitted
  BY Zenon
<1>3. \A i \in DOMAIN rows : rows[i].source.chain \subseteq listed
  BY Zenon
<1> HIDE DEF others, admitted, listed
<1> QED
  BY <1>1, <1>2, <1>3

\* A relocation leaves in place what the review's proofs keep.
LEMMA RelocateHeld ==
    ASSUME VolumeInv, WalkType, CandidatesTyped, RowsTyped, Phases, HeldInPlace, Relocate
    PROVE  HeldInPlace'
<1>1. /\ scenario' = scenario /\ pc' = pc /\ root' = root /\ candidates' = candidates
      /\ rows' = rows /\ next' = next /\ proof' = proof /\ commits' = commits
  BY DEF Relocate, found, review
<1>2. Owned' = Owned /\ ProofHandlesPin' = ProofHandlesPin
  BY <1>1 DEF Owned, OwnedRecords, ProofHandlesPin, world
<1>3. SUFFICES ASSUME ProofHandlesPin PROVE HeldInPlace'
  BY <1>2 DEF HeldInPlace
<1>4. root.id \in Folders /\ (pc \notin {"Begin", "Failed"} => root.id \in Retained)
  BY DEF WalkType, Retained, RetainedFolders
<1>5. ASSUME NEW source, source.chain \subseteq Retained, pc \notin {"Begin", "Failed"},
             Granted(place, root, Owned, source)
      PROVE  Granted(place', root, Owned, source)
  <2> DEFINE record == [path |-> source.folder, chain |-> source.chain]
  <2>1. record.chain \subseteq Retained /\ Known(place, root.id, Owned, record)
    BY <1>5 DEF Granted
  <2> HIDE DEF record
  <2>2. Known(place', root.id, Owned, record)
    BY <1>3, <1>4, <1>5, <2>1, KnownStays
  <2> QED
    BY <1>5, <2>2 DEF Granted, record
<1>6. ASSUME NEW i \in DOMAIN candidates PROVE Granted(place', root, Owned, candidates[i])
  <2>1. pc \notin {"Begin", "Failed"}
    BY <1>6 DEF Phases, Traversing
  <2>2. candidates[i].chain \subseteq Retained
    BY <1>6, ChainsAreRetained
  <2>3. Granted(place, root, Owned, candidates[i])
    BY <1>3, <1>6 DEF HeldInPlace
  <2> QED
    BY <1>5, <2>1, <2>2, <2>3
<1>7. ASSUME NEW i \in DOMAIN rows PROVE Granted(place', root, Owned, rows[i].source)
  <2>1. pc \notin {"Begin", "Failed"}
    BY <1>7 DEF RowsTyped, Judging
  <2>2. rows[i].source.chain \subseteq Retained
    BY <1>7, ChainsAreRetained
  <2>3. Granted(place, root, Owned, rows[i].source)
    BY <1>3, <1>7 DEF HeldInPlace
  <2> QED
    BY <1>5, <2>1, <2>2, <2>3
<1>8. ASSUME pc \in Traversing
      PROVE  Reaches(place', root.id) /\ root.path = PathTo(place', root.id)
  <2>1. Reaches(place, root.id) /\ root.path = PathTo(place, root.id)
    BY <1>3, <1>8 DEF HeldInPlace
  <2>2. root.id \in Retained
    BY <1>4, <1>8 DEF Traversing
  <2> QED
    BY <1>3, <1>4, <2>1, <2>2, RetainedStays
<1>9. ASSUME pc \in {"Capture", "Revalidate"}
      PROVE  proof = {rows[next].source.id} /\ InPlace(place', rows[next].source)
  <2>1. proof = {rows[next].source.id} /\ InPlace(place, rows[next].source)
    BY <1>3, <1>9 DEF HeldInPlace
  <2>2. next \in DOMAIN rows
    BY <1>9 DEF RowsTyped
  <2>3. rows[next].source.id \in Files /\ rows[next].source.id \in Retained
    BY <1>3, <2>1, <2>2, CurrentRow DEF Retained
  <2> QED
    BY <1>3, <2>1, <2>3, RetainedStays DEF InPlace
<1>10. OwnRevisions(rows) /\ \A c \in commits : Accepted(rows, root, c)
  BY <1>3 DEF HeldInPlace
<1> QED
  BY <1>1, <1>2, <1>6, <1>7, <1>8, <1>9, <1>10 DEF HeldInPlace

\* Every step keeps in place what is held there.
LEMMA HeldStep ==
    ASSUME VolumeInv, WalkType, CandidatesTyped, Selection, Reviewable, Phases, HeldInPlace,
           [Next]_vars
    PROVE  HeldInPlace'
<1>0. RowsTyped
  BY DEF Reviewable
<1>1. CASE Relocate
  BY <1>0, <1>1, RelocateHeld
<1>2. CASE Discover /\ ~Relocate
  BY <1>2, DiscoverHeld
<1>3. CASE Analyze
  BY <1>0, <1>3, CollateHeld, ReviewHeld DEF Analyze
<1>4. CASE Commit
  BY <1>0, <1>4, CommitHeld
<1>5. CASE EditFile \/ RequestStop \/ Ended \/ UNCHANGED vars
  <2>1. /\ place' = place /\ scenario' = scenario /\ root' = root /\ candidates' = candidates
        /\ pc' = pc /\ rows' = rows /\ next' = next /\ proof' = proof /\ commits' = commits
    BY <1>5 DEF EditFile, RequestStop, Ended, vars, volume, found, review
  <2> QED
    BY <2>1, RowsHeld DEF HeldInPlace
<1> QED
  BY <1>1, <1>2, <1>3, <1>4, <1>5 DEF Next

\* The bytes analysed under a listed file's name are that file's own, and what the
\* engine is admitted to change is that file, unedited since, in the place the review
\* shows, in a selected folder, while handles pin: a folder that the review keeps
\* leads every path of the capability to what it was granted for, and a proof keeps
\* the file there over the reads that follow it (WindowsStorageImageSource::capture
\* and ::commit, RecoverableImageFileTransaction::execute).
THEOREM CommitsAreReviewed == Spec => []CommitsOnlyTheReviewed
<1> DEFINE Everything == /\ VolumeInv /\ WalkType /\ CandidatesTyped /\ Selection
                         /\ Reviewable /\ Phases /\ HeldInPlace
<1>1. Init => Everything
  <2> SUFFICES ASSUME Init PROVE Everything
    OBVIOUS
  <2>1. /\ VolumeInv /\ WalkType /\ CandidatesTyped /\ Selection /\ Reviewable
    BY VolumeStarts, WalkStarts, CompleteStarts, SelectionStarts
  <2>2. pc = "Begin" /\ candidates = <<>> /\ rows = <<>> /\ commits = {}
    BY DEF Init
  <2>3. Phases /\ HeldInPlace
    BY <2>2 DEF Phases, HeldInPlace, OwnRevisions, Traversing
  <2> QED
    BY <2>1, <2>3
<1>2. Everything /\ [Next]_vars => Everything'
  BY VolumeStep, WalkTypeStep, CandidatesTypedStep, SelectionStep, ReviewStep, PhasesStep, HeldStep
<1>3. Everything => CommitsOnlyTheReviewed
  BY DEF HeldInPlace, OwnRevisions, Accepted, CommitsOnlyTheReviewed
<1> QED
  BY <1>1, <1>2, <1>3, PTL DEF Spec
=============================================================================
