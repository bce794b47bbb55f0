---------------------------- MODULE ScannerProofs ----------------------------
(***************************************************************************)
(* JpegSegmentScanner for files of every length, with every arrangement of  *)
(* segments, fill, stuffing and restart markers, and every resource limit.  *)
(***************************************************************************)
EXTENDS JpegSegmentScanner, FiniteSetTheorems, SequenceTheorems, TLAPS

-----------------------------------------------------------------------------
(* The inductive invariant *)

\* The bytes of a file, and the segments of an inventory.
FileBytes == {"FF", "SOI", "EOI", "Length"} \cup PlainBytes \cup Codes
SegmentBodies ==
    {Opaque(0)} \cup
    UNION {Bodies(code) : code \in DOMAIN Scenarios[scenario].bodies}
Segment == [code : Codes \cup {"SOI", "RST", "TEM", "EOI"}, offset : Nat, length : Nat,
            body : SegmentBodies]

ScanTypeInv ==
    /\ scenario \in DOMAIN Scenarios /\ length \in Nat
    /\ point \in {"Begin", "Segment", "SegmentCode", "Body", "Entropy", "EntropyCode",
                  "EndOfImage", "Done"}
    /\ file \in Seq(FileBytes)
    /\ cursor \in Nat /\ markerFillOffset \in Nat /\ markerOffset \in Nat
    /\ entropyCodedDataOffset \in Nat
    /\ markers \in Seq(Segment)
    /\ entropyCodedDataRanges \in Seq([offset : Nat, length : Nat])
    /\ codingProcess \in {"None", "Baseline", "Extended", "Progressive"}
    /\ scanCount \in Nat
    /\ result = "None" <=> point # "Done"

InEntropy == point \in {"Entropy", "EntropyCode"}

\* Where the cursor is: at the end of what was read, except that the prefix and
\* the code that ended entropy-coded data are read twice.
CursorInv ==
    /\ cursor <= Len(file)
    /\ point = "Begin" => file = <<>> /\ markers = <<>> /\ entropyCodedDataRanges = <<>>
                          /\ codingProcess = "None" /\ scanCount = 0
    /\ point = "Segment" => cursor = Len(file) \/ cursor + 2 = Len(file)
    /\ point = "SegmentCode" => /\ cursor = Len(file) \/ cursor + 1 = Len(file)
                                /\ cursor > 0 /\ file[cursor] = "FF"
    /\ point \in {"Body", "EndOfImage"} \/ InEntropy => cursor = Len(file)
    /\ point = "Body" =>
         /\ cursor = markerOffset + 2
         /\ markerCode \in DOMAIN Scenarios[scenario].bodies
         /\ markerCode \notin {"FF", "00", "SOI", "RST", "TEM", "EOI"}
    /\ InEntropy => entropyCodedDataOffset <= cursor
    /\ point = "EntropyCode" =>
         /\ entropyCodedDataOffset <= markerFillOffset /\ markerFillOffset < cursor
         /\ \A k \in (markerFillOffset + 1)..cursor : file[k] = "FF"
    /\ point = "EndOfImage" =>
         markers # <<>> /\ cursor >= 2 /\ markers[Len(markers)] = Bare("EOI", cursor - 2)

Extents == SegmentExtents \cup EntropyExtents

\* Up to where the bytes have been accounted for.
Accounted ==
    CASE point = "SegmentCode" -> cursor - 1
      [] point = "Body" -> markerOffset
      [] InEntropy -> entropyCodedDataOffset
      [] OTHER -> cursor

\* The extents are disjoint and account for every byte so far that is not fill.
CoverInv ==
    /\ \A e \in Extents : e \subseteq 1..Accounted
    /\ \A p \in 1..Accounted : p \in UNION Extents \/ file[p] = "FF"
    /\ \A p, q \in Extents : p # q => p \cap q = {}

\* In the bytes f the run of fill that begins at p has q behind it.
RunEnds(f, p, q) ==
    q \in p..Len(f) /\ f[q] # "FF" /\ \A k \in p..(q - 1) : f[k] = "FF"

\* Every FF from first to last is stuffing or part of a restart marker.
Stuffed(f, first, last) ==
    \A p \in first..last : f[p] = "FF" =>
        \E q \in first..last : RunEnds(f, p, q) /\ f[q] \in {"00", "RST"}

\* A range holds nothing but entropy-coded data and ends at the fill of a marker.
OpaqueRange(f, range) ==
    LET end == range.offset + range.length IN
    /\ Stuffed(f, range.offset + 1, end)
    /\ end < Len(f) /\ f[end + 1] = "FF"
    /\ \E q \in 1..Len(f) : RunEnds(f, end + 1, q) /\ f[q] \notin {"00", "RST"}

\* Up to where the bytes are known to be entropy-coded data.
EntropyEnd == IF point = "Entropy" THEN cursor ELSE markerFillOffset

\* What a range and the data after the latest scan header consist of.
OpaqueInv ==
    /\ \A i \in DOMAIN entropyCodedDataRanges : OpaqueRange(file, entropyCodedDataRanges[i])
    /\ InEntropy => Stuffed(file, entropyCodedDataOffset + 1, EntropyEnd)
    /\ \A i \in DOMAIN markers : markers[i].code = "RST" =>
          \/ \E r \in EntropyExtents : Extent(markers[i]) \subseteq r
          \/ InEntropy /\ Extent(markers[i]) \subseteq (entropyCodedDataOffset + 1)..EntropyEnd

Positions(s, codes) == {i \in DOMAIN s : s[i].code \in codes}
ScanEnds(s) == {s[i].offset + s[i].length : i \in Positions(s, {"SOS"})}

\* The frame header, the scan headers and the data behind them.
OrderInv ==
    /\ scanCount = Cardinality(Positions(markers, {"SOS"}))
    /\ codingProcess = "None" => Positions(markers, SupportedFrames) = {} /\ Positions(markers, {"SOS"}) = {}
    /\ codingProcess # "None" =>
         \E frame \in Positions(markers, SupportedFrames) :
            /\ Positions(markers, SupportedFrames) = {frame}
            /\ \A scan \in Positions(markers, {"SOS"}) : frame < scan
    /\ ScanEnds(markers) =
         {entropyCodedDataRanges[i].offset : i \in DOMAIN entropyCodedDataRanges}
           \cup (IF InEntropy THEN {entropyCodedDataOffset} ELSE {})
    /\ IsProgressive => scanCount <= Limits.progressiveScanCount

\* The inductive invariant of the scan.
ScanInv ==
    /\ ScanTypeInv /\ CursorInv
    /\ point # "Done" => CoverInv /\ OpaqueInv /\ OrderInv
    /\ InventoryIsExact

-----------------------------------------------------------------------------
(* The constants and the sequences *)

\* The scenario of a scan, as ScenariosAssumption describes it.
LEMMA ScenarioFacts ==
    ASSUME scenario \in DOMAIN Scenarios
    PROVE  /\ PlainBytes \subseteq {"FF", "Data"}
           /\ Scenarios[scenario].standalone \subseteq {"00", "FF", "SOI", "EOI", "RST", "TEM"}
           /\ Limits.metadataLength \in Nat /\ Limits.progressiveScanCount \in Nat
           /\ \A code \in DOMAIN Scenarios[scenario].bodies :
                 \A body \in Bodies(code) : body.length \in Nat
  BY ScenariosAssumption DEF PlainBytes, Limits, Bodies

\* The bytes read before stay as they were.
FileGrows ==
    /\ file' \in Seq(FileBytes) /\ Len(file) <= Len(file')
    /\ \A k \in 1..Len(file) : file'[k] = file[k]

\* Reading a byte, for the first time or again.
LEMMA ByteRead ==
    ASSUME NEW b, NEW choices, choices \subseteq FileBytes, Byte(b, choices),
           file \in Seq(FileBytes), cursor \in Nat, cursor <= Len(file)
    PROVE  /\ FileGrows /\ b \in FileBytes
           /\ cursor + 1 <= Len(file') /\ file'[cursor + 1] = b
           /\ cursor < Len(file) => file' = file
           /\ cursor = Len(file) => Len(file') = cursor + 1
<1>1. CASE cursor < Len(file)
  BY <1>1 DEF Byte, FileGrows
<1>2. CASE cursor = Len(file)
  <2>1. b \in FileBytes /\ file' = Append(file, b)
    BY <1>2 DEF Byte
  <2>2. /\ file' \in Seq(FileBytes) /\ Len(file') = Len(file) + 1 /\ file'[Len(file) + 1] = b
        /\ \A k \in 1..Len(file) : file'[k] = file[k]
    BY <2>1
  <2> QED
    BY <1>2, <2>1, <2>2 DEF FileGrows
<1> QED
  BY <1>1, <1>2

\* A scan that reads no byte.
LEMMA SameFileGrows ==
    ASSUME file \in Seq(FileBytes), file' = file
    PROVE  FileGrows
  BY DEF FileGrows

\* A byte of the file is one that may be read there.
LEMMA ByteChoices == PlainBytes \subseteq FileBytes /\ Codes \subseteq FileBytes
  BY DEF FileBytes

\* What is behind a sequence does not change it.
LEMMA FrontStays ==
    ASSUME NEW S, NEW s \in Seq(S), NEW t \in Seq(S)
    PROVE  /\ s \o t \in Seq(S) /\ Len(s \o t) = Len(s) + Len(t)
           /\ \A k \in 1..Len(s) : (s \o t)[k] = s[k]
<1>1. /\ s \o t \in Seq(S) /\ Len(s \o t) = Len(s) + Len(t)
      /\ \A i \in 1..Len(s) + Len(t) :
            (s \o t)[i] = IF i <= Len(s) THEN s[i] ELSE t[i - Len(s)]
  BY ConcatProperties
<1>2. Len(s) \in Nat /\ Len(t) \in Nat
  OBVIOUS
<1> QED
  BY <1>1, <1>2

\* The length field and the payload are read at once.
LEMMA BodyRead ==
    ASSUME file \in Seq(FileBytes), NEW n \in Nat,
           file' = file \o <<"Length", "Length">> \o PayloadBytes(n)
    PROVE  FileGrows /\ Len(file') = Len(file) + 2 + n
<1> DEFINE first == <<"Length", "Length">>
           payload == PayloadBytes(n)
<1>1. first \in Seq(FileBytes) /\ Len(first) = 2
  BY DEF FileBytes
<1>2. payload \in Seq(FileBytes) /\ Len(payload) = n
  <2>1. payload \in [1..n -> FileBytes]
    BY DEF PayloadBytes, FileBytes
  <2> HIDE DEF payload
  <2> QED
    BY <2>1
<1> HIDE DEF first, payload
<1>3. file' = file \o first \o payload
  BY DEF first, payload
<1> DEFINE front == file \o first
<1>4. /\ front \in Seq(FileBytes) /\ Len(front) = Len(file) + 2
      /\ \A k \in 1..Len(file) : front[k] = file[k]
  <2>1. /\ front \in Seq(FileBytes) /\ Len(front) = Len(file) + Len(first)
        /\ \A k \in 1..Len(file) : front[k] = file[k]
    BY <1>1, FrontStays, Zenon
  <2> QED
    BY <1>1, <2>1
<1> HIDE DEF front
<1>5. file' = front \o payload
  BY <1>3 DEF front
<1>6. /\ file' \in Seq(FileBytes) /\ Len(file') = Len(front) + n
      /\ \A k \in 1..Len(front) : file'[k] = front[k]
  <2>1. /\ front \o payload \in Seq(FileBytes)
        /\ Len(front \o payload) = Len(front) + Len(payload)
        /\ \A k \in 1..Len(front) : (front \o payload)[k] = front[k]
    BY <1>2, <1>4, FrontStays, Zenon
  <2> QED
    BY <1>2, <1>5, <2>1
<1> QED
  BY <1>4, <1>6 DEF FileGrows

\* What a marker that is added changes of the inventory.
LEMMA MarkerAppended ==
    ASSUME markers \in Seq(Segment), NEW m, markers' = Append(markers, m)
    PROVE  /\ Len(markers') = Len(markers) + 1
           /\ DOMAIN markers' = DOMAIN markers \cup {Len(markers) + 1}
           /\ \A i \in DOMAIN markers : markers'[i] = markers[i] /\ i \in 1..Len(markers)
           /\ markers'[Len(markers) + 1] = m
  OBVIOUS

\* Its extent.
LEMMA ExtentsAppended ==
    ASSUME markers \in Seq(Segment), NEW m, markers' = Append(markers, m)
    PROVE  SegmentExtents' = IF m.code = "RST" THEN SegmentExtents
                             ELSE SegmentExtents \cup {Extent(m)}
<1>1. /\ DOMAIN markers' = DOMAIN markers \cup {Len(markers) + 1}
      /\ \A i \in DOMAIN markers : markers'[i] = markers[i]
      /\ markers'[Len(markers) + 1] = m
  BY MarkerAppended
<1> QED
  BY <1>1 DEF SegmentExtents, Extent

\* Its place among the markers of the same kind.
LEMMA PositionsAppended ==
    ASSUME markers \in Seq(Segment), NEW m, markers' = Append(markers, m)
    PROVE  \A codes : Positions(markers', codes) = Positions(markers, codes) \cup
                         (IF m.code \in codes THEN {Len(markers) + 1} ELSE {})
<1>1. /\ DOMAIN markers' = DOMAIN markers \cup {Len(markers) + 1}
      /\ \A i \in DOMAIN markers : markers'[i] = markers[i]
      /\ markers'[Len(markers) + 1] = m
  BY MarkerAppended
<1> QED
  BY <1>1 DEF Positions

\* Its bytes, where it is metadata.
LEMMA MetadataAppended ==
    ASSUME markers \in Seq(Segment), NEW m, markers' = Append(markers, m)
    PROVE  MetadataBytes' = MetadataBytes \cup
              (IF m.code \in MetadataMarkers THEN Extent(m) ELSE {})
<1> DEFINE Metadata(s) == {k \in DOMAIN s : s[k].code \in MetadataMarkers}
<1>1. /\ DOMAIN markers' = DOMAIN markers \cup {Len(markers) + 1}
      /\ \A i \in DOMAIN markers : markers'[i] = markers[i]
      /\ markers'[Len(markers) + 1] = m
  BY MarkerAppended
<1>2. Metadata(markers') = Metadata(markers) \cup
         (IF m.code \in MetadataMarkers THEN {Len(markers) + 1} ELSE {})
  BY <1>1
<1>3. \A i \in Metadata(markers) : markers'[i] = markers[i]
  BY <1>1
<1>4. /\ MetadataBytes = UNION {Extent(markers[i]) : i \in Metadata(markers)}
      /\ MetadataBytes' = UNION {Extent(markers'[i]) : i \in Metadata(markers')}
  BY DEF MetadataBytes, Extent
<1> HIDE DEF Metadata
<1> QED
  BY <1>1, <1>2, <1>3, <1>4

\* Without it, the length of the metadata stays.
LEMMA PlainMarkerAppended ==
    ASSUME markers \in Seq(Segment), NEW m, markers' = Append(markers, m),
           m.code \notin MetadataMarkers
    PROVE  MetadataLength' = MetadataLength
<1>1. MetadataBytes' = MetadataBytes
  BY MetadataAppended
<1> QED
  BY <1>1 DEF MetadataLength

\* What a range that is added changes.
LEMMA RangeAppended ==
    ASSUME entropyCodedDataRanges \in Seq([offset : Nat, length : Nat]),
           NEW r, entropyCodedDataRanges' = Append(entropyCodedDataRanges, r)
    PROVE  /\ DOMAIN entropyCodedDataRanges' =
                DOMAIN entropyCodedDataRanges \cup {Len(entropyCodedDataRanges) + 1}
           /\ \A i \in DOMAIN entropyCodedDataRanges :
                entropyCodedDataRanges'[i] = entropyCodedDataRanges[i]
           /\ entropyCodedDataRanges'[Len(entropyCodedDataRanges) + 1] = r
           /\ EntropyExtents' = EntropyExtents \cup {Extent(r)}
<1>1. /\ DOMAIN entropyCodedDataRanges' =
            DOMAIN entropyCodedDataRanges \cup {Len(entropyCodedDataRanges) + 1}
      /\ \A i \in DOMAIN entropyCodedDataRanges :
            entropyCodedDataRanges'[i] = entropyCodedDataRanges[i]
      /\ entropyCodedDataRanges'[Len(entropyCodedDataRanges) + 1] = r
  OBVIOUS
<1> QED
  BY <1>1 DEF EntropyExtents, Extent

-----------------------------------------------------------------------------
(* Runs of fill *)

\* A run of fill is not changed by what is read behind it.
LEMMA RunStays ==
    ASSUME NEW f, NEW g, Len(f) \in Nat, Len(g) \in Nat, Len(f) <= Len(g),
           \A k \in 1..Len(f) : g[k] = f[k],
           NEW p \in Nat, p > 0, NEW q, RunEnds(f, p, q)
    PROVE  RunEnds(g, p, q) /\ g[q] = f[q]
<1>1. q \in p..Len(f) /\ p..(q - 1) \subseteq 1..Len(f) /\ q \in 1..Len(f)
  BY DEF RunEnds
<1> QED
  BY <1>1 DEF RunEnds

\* Nor is what was read as entropy-coded data.
LEMMA StuffedStays ==
    ASSUME NEW f, NEW g, Len(f) \in Nat, Len(g) \in Nat, Len(f) <= Len(g),
           \A k \in 1..Len(f) : g[k] = f[k],
           NEW first \in Nat, first > 0, NEW last \in Nat, last <= Len(f),
           Stuffed(f, first, last)
    PROVE  Stuffed(g, first, last)
<1> SUFFICES ASSUME NEW p \in first..last, g[p] = "FF"
             PROVE  \E q \in first..last : RunEnds(g, p, q) /\ g[q] \in {"00", "RST"}
  BY DEF Stuffed
<1>1. p \in 1..Len(f) /\ f[p] = "FF" /\ p \in Nat /\ p > 0
  OBVIOUS
<1>2. PICK q \in first..last : RunEnds(f, p, q) /\ f[q] \in {"00", "RST"}
  BY <1>1 DEF Stuffed
<1>3. RunEnds(g, p, q) /\ g[q] = f[q]
  BY <1>1, <1>2, RunStays
<1> QED
  BY <1>2, <1>3

\* A range stays opaque.
LEMMA OpaqueRangeStays ==
    ASSUME NEW f, NEW g, Len(f) \in Nat, Len(g) \in Nat, Len(f) <= Len(g),
           \A k \in 1..Len(f) : g[k] = f[k],
           NEW r \in [offset : Nat, length : Nat], OpaqueRange(f, r)
    PROVE  OpaqueRange(g, r)
<1> DEFINE end == r.offset + r.length
<1>1. r.offset \in Nat /\ end \in Nat
  OBVIOUS
<1>2. /\ Stuffed(f, r.offset + 1, end) /\ end < Len(f) /\ f[end + 1] = "FF"
  BY DEF OpaqueRange
<1>3. PICK q \in 1..Len(f) : RunEnds(f, end + 1, q) /\ f[q] \notin {"00", "RST"}
  BY DEF OpaqueRange
<1> HIDE DEF end
<1>4. Stuffed(g, r.offset + 1, end)
  <2>1. r.offset + 1 \in Nat /\ r.offset + 1 > 0 /\ end <= Len(f)
    BY <1>1, <1>2
  <2> QED
    BY <1>1, <1>2, <2>1, StuffedStays
<1>5. RunEnds(g, end + 1, q) /\ g[q] = f[q]
  BY <1>1, <1>3, RunStays
<1>6. end < Len(g) /\ q \in 1..Len(g) /\ g[end + 1] = "FF"
  BY <1>1, <1>2, <1>3
<1>7. \E k \in 1..Len(g) : RunEnds(g, end + 1, k) /\ g[k] \notin {"00", "RST"}
  BY <1>3, <1>5, <1>6
<1> QED
  BY <1>4, <1>6, <1>7 DEF OpaqueRange, end

\* A run has one end, which is what Behind chooses.
LEMMA BehindIsEnd ==
    ASSUME file \in Seq(FileBytes), NEW p \in Nat, NEW q, RunEnds(file, p, q)
    PROVE  Behind(p) = q
<1>1. \A r \in p..Len(file) : RunEnds(file, p, r) => r = q
  BY DEF RunEnds
<1>2. \E r \in p..Len(file) : file[r] # "FF" /\ \A k \in p..(r - 1) : file[k] = "FF"
  BY DEF RunEnds
<1>3. /\ Behind(p) \in p..Len(file) /\ file[Behind(p)] # "FF"
      /\ \A k \in p..(Behind(p) - 1) : file[k] = "FF"
  BY <1>2 DEF Behind
<1> QED
  BY <1>1, <1>3 DEF RunEnds

-----------------------------------------------------------------------------
(* What a step keeps *)

\* The input does not change, and what is defined from it.
LEMMA SameInput ==
    ASSUME scenario' = scenario
    PROVE  FileBytes' = FileBytes /\ Segment' = Segment /\ Limits' = Limits /\ Codes' = Codes
  BY DEF FileBytes, PlainBytes, Codes, Segment, SegmentBodies, Bodies, Limits, Opaque

\* Without a new marker the length of the metadata stays.
LEMMA MetadataKept ==
    ASSUME markers' = markers
    PROVE  MetadataLength' = MetadataLength
  BY DEF MetadataLength, MetadataBytes, Extent

\* Bytes that are accounted for as fill.
LEMMA CoverKept ==
    ASSUME file \in Seq(FileBytes), FileGrows, CoverInv, Extents' = Extents,
           Accounted \in Nat, Accounted <= Len(file), Accounted' \in Nat,
           Accounted <= Accounted',
           \A p \in (Accounted + 1)..Accounted' : file'[p] = "FF"
    PROVE  CoverInv'
<1> DEFINE a == Accounted
           b == Accounted'
<1>1. /\ \A e \in Extents : e \subseteq 1..a
      /\ \A p \in 1..a : p \in UNION Extents \/ file[p] = "FF"
      /\ \A p, q \in Extents : p # q => p \cap q = {}
  BY DEF CoverInv
<1>2. /\ a \in Nat /\ b \in Nat /\ a <= b /\ \A p \in 1..a : file'[p] = file[p]
      /\ \A p \in (a + 1)..b : file'[p] = "FF"
  BY DEF FileGrows
<1> HIDE DEF a, b
<1>3. \A e \in Extents : e \subseteq 1..b
  BY <1>1, <1>2
<1>4. \A p \in 1..b : p \in UNION Extents \/ file'[p] = "FF"
  <2> SUFFICES ASSUME NEW p \in 1..b PROVE p \in UNION Extents \/ file'[p] = "FF"
    OBVIOUS
  <2>1. CASE p \in 1..a
    BY <1>1, <1>2, <2>1
  <2>2. CASE p \in (a + 1)..b
    BY <1>2, <2>2
  <2> QED
    BY <1>2, <2>1, <2>2
<1> QED
  BY <1>1, <1>3, <1>4 DEF CoverInv, b

\* A segment or a range that is accounted for, with the fill behind it.
LEMMA CoverExtended ==
    ASSUME file \in Seq(FileBytes), FileGrows, CoverInv,
           Accounted \in Nat, Accounted <= Len(file), Accounted' \in Nat,
           Accounted <= Accounted',
           NEW e, Extents' = Extents \cup {e}, e \subseteq (Accounted + 1)..Accounted',
           \A p \in (Accounted + 1)..Accounted' : p \in e \/ file'[p] = "FF"
    PROVE  CoverInv'
<1> DEFINE a == Accounted
           b == Accounted'
           old == Extents
           new == Extents'
<1>1. /\ \A x \in old : x \subseteq 1..a
      /\ \A p \in 1..a : p \in UNION old \/ file[p] = "FF"
      /\ \A p, q \in old : p # q => p \cap q = {}
  BY DEF CoverInv
<1>2. /\ a \in Nat /\ b \in Nat /\ a <= b /\ \A p \in 1..a : file'[p] = file[p]
      /\ \A p \in (a + 1)..b : p \in e \/ file'[p] = "FF"
      /\ e \subseteq (a + 1)..b /\ new = old \cup {e}
  BY DEF FileGrows
<1> HIDE DEF a, b, old, new
<1>3. \A x \in new : x \subseteq 1..b
  <2>1. 1..a \subseteq 1..b /\ (a + 1)..b \subseteq 1..b
    BY <1>2
  <2>2. \A x \in old : x \subseteq 1..b
    BY <1>1, <2>1
  <2>3. e \subseteq 1..b
    BY <1>2, <2>1
  <2> QED
    BY <1>2, <2>2, <2>3
<1>4. \A p \in 1..b : p \in UNION new \/ file'[p] = "FF"
  <2> SUFFICES ASSUME NEW p \in 1..b PROVE p \in UNION new \/ file'[p] = "FF"
    OBVIOUS
  <2>1. CASE p \in 1..a
    BY <1>1, <1>2, <2>1
  <2>2. CASE p \in (a + 1)..b
    BY <1>2, <2>2
  <2> QED
    BY <1>2, <2>1, <2>2
<1>5. \A p, q \in new : p # q => p \cap q = {}
  <2>1. \A x \in old : x \cap e = {}
    <3>1. (1..a) \cap ((a + 1)..b) = {}
      BY <1>2
    <3> QED
      BY <1>1, <1>2, <3>1
  <2> QED
    BY <1>1, <1>2, <2>1
<1> QED
  BY <1>3, <1>4, <1>5 DEF CoverInv, b, new

\* The ranges stay opaque.
LEMMA RangesStay ==
    ASSUME ScanTypeInv, OpaqueInv, FileGrows
    PROVE  \A i \in DOMAIN entropyCodedDataRanges : OpaqueRange(file', entropyCodedDataRanges[i])
<1> SUFFICES ASSUME NEW i \in DOMAIN entropyCodedDataRanges
             PROVE  OpaqueRange(file', entropyCodedDataRanges[i])
  OBVIOUS
<1> DEFINE RangeSet == [offset : Nat, length : Nat]
<1>1. entropyCodedDataRanges \in Seq(RangeSet)
  BY DEF ScanTypeInv
<1>2. entropyCodedDataRanges[i] \in RangeSet
  <2> HIDE DEF RangeSet
  <2> QED
    BY <1>1
<1>3. OpaqueRange(file, entropyCodedDataRanges[i])
  BY DEF OpaqueInv
<1>4. /\ Len(file) \in Nat /\ Len(file') \in Nat /\ Len(file) <= Len(file')
      /\ \A k \in 1..Len(file) : file'[k] = file[k]
  BY DEF FileGrows, ScanTypeInv
<1> QED
  BY <1>2, <1>3, <1>4, OpaqueRangeStays

\* A step that ends no range.
LEMMA OpaqueKept ==
    ASSUME ScanTypeInv, OpaqueInv, FileGrows, entropyCodedDataRanges' = entropyCodedDataRanges,
           InEntropy => /\ InEntropy' /\ entropyCodedDataOffset' = entropyCodedDataOffset
                        /\ EntropyEnd \in Nat /\ EntropyEnd' \in Nat /\ EntropyEnd <= EntropyEnd',
           InEntropy' => Stuffed(file', entropyCodedDataOffset' + 1, EntropyEnd'),
           \A i \in DOMAIN markers' : markers'[i].code = "RST" =>
              \/ i \in DOMAIN markers /\ markers'[i] = markers[i]
              \/ InEntropy' /\ Extent(markers'[i]) \subseteq
                                  (entropyCodedDataOffset' + 1)..EntropyEnd'
    PROVE  OpaqueInv'
<1>1. \A i \in DOMAIN entropyCodedDataRanges : OpaqueRange(file', entropyCodedDataRanges[i])
  BY RangesStay
<1>2. EntropyExtents' = EntropyExtents
  BY DEF EntropyExtents, Extent
<1>3. ASSUME NEW i \in DOMAIN markers', markers'[i].code = "RST"
      PROVE  \/ \E r \in EntropyExtents' : Extent(markers'[i]) \subseteq r
             \/ InEntropy' /\ Extent(markers'[i]) \subseteq
                                (entropyCodedDataOffset' + 1)..EntropyEnd'
  <2>1. CASE i \in DOMAIN markers /\ markers'[i] = markers[i]
    <3>1. \/ \E r \in EntropyExtents : Extent(markers[i]) \subseteq r
          \/ InEntropy /\ Extent(markers[i]) \subseteq
                             (entropyCodedDataOffset + 1)..EntropyEnd
      BY <1>3, <2>1 DEF OpaqueInv
    <3>2. CASE InEntropy
      <4>1. (entropyCodedDataOffset + 1)..EntropyEnd \subseteq
              (entropyCodedDataOffset' + 1)..EntropyEnd'
        BY <3>2 DEF ScanTypeInv
      <4> QED
        BY <1>2, <2>1, <3>1, <3>2, <4>1
    <3> QED
      BY <1>2, <2>1, <3>1, <3>2
  <2> QED
    BY <1>3, <2>1
<1>4. \A i \in DOMAIN entropyCodedDataRanges' : OpaqueRange(file', entropyCodedDataRanges'[i])
  BY <1>1
<1> QED
  BY <1>3, <1>4 DEF OpaqueInv

\* A step that adds no marker other than one outside the frame and the scans.
LEMMA OrderKept ==
    ASSUME OrderInv, scenario' = scenario, codingProcess' = codingProcess,
           scanCount' = scanCount, entropyCodedDataRanges' = entropyCodedDataRanges,
           InEntropy' <=> InEntropy, InEntropy => entropyCodedDataOffset' = entropyCodedDataOffset,
           Positions(markers', SupportedFrames) = Positions(markers, SupportedFrames),
           Positions(markers', {"SOS"}) = Positions(markers, {"SOS"}),
           \A i \in Positions(markers, {"SOS"}) : markers'[i] = markers[i]
    PROVE  OrderInv'
<1>1. ScanEnds(markers') = ScanEnds(markers)
  BY DEF ScanEnds
<1>2. IsProgressive' = IsProgressive /\ Limits' = Limits
  BY DEF IsProgressive, Limits
<1>3. (IF InEntropy THEN {entropyCodedDataOffset} ELSE {})' =
         IF InEntropy THEN {entropyCodedDataOffset} ELSE {}
  OBVIOUS
<1> QED
  BY <1>1, <1>2, <1>3 DEF OrderInv

\* A step that goes on with the scan.
LEMMA GoesOn ==
    ASSUME ScanTypeInv', CursorInv', CoverInv', OpaqueInv', OrderInv', result' = "None",
           metadataEncodedLengthBytes' = MetadataLength',
           MetadataLength' <= Limits'.metadataLength
    PROVE  ScanInv'
<1>1. InventoryIsExact'
  BY DEF InventoryIsExact
<1> QED
  BY <1>1 DEF ScanInv

-----------------------------------------------------------------------------
(* The steps of the scan *)

\* The invariant of a scan that has not ended.
LEMMA InMotion ==
    ASSUME ScanInv, point # "Done"
    PROVE  /\ ScanTypeInv /\ CursorInv /\ CoverInv /\ OpaqueInv /\ OrderInv
           /\ metadataEncodedLengthBytes = MetadataLength
           /\ MetadataLength <= Limits.metadataLength
           /\ result = "None" /\ file \in Seq(FileBytes) /\ Len(file) \in Nat
  BY DEF ScanInv, InventoryIsExact, ScanTypeInv

\* A marker that is neither a frame header nor a scan header.
LEMMA PlainMarker ==
    ASSUME markers \in Seq(Segment), NEW m, markers' = Append(markers, m),
           m.code \notin SupportedFrames, m.code # "SOS"
    PROVE  /\ Positions(markers', SupportedFrames) = Positions(markers, SupportedFrames)
           /\ Positions(markers', {"SOS"}) = Positions(markers, {"SOS"})
           /\ \A i \in Positions(markers, {"SOS"}) : markers'[i] = markers[i]
<1>1. \A codes : Positions(markers', codes) = Positions(markers, codes) \cup
                   (IF m.code \in codes THEN {Len(markers) + 1} ELSE {})
  BY PositionsAppended
<1>2. \A i \in Positions(markers, {"SOS"}) : markers'[i] = markers[i]
  BY MarkerAppended DEF Positions
<1> QED
  BY <1>1, <1>2

\* A refusal leaves the inventory as it is.
LEMMA RefusalStep ==
    ASSUME ScanInv, point # "Done", FileGrows, point' = "Done",
           result' # "None", result' # "Success",
           UNCHANGED <<input, cursor, markerFillOffset, markerCode, markerOffset,
                       entropyCodedDataOffset, inventory>>,
           result' = "MetadataLengthLimitExceeded" =>
              MetadataLength + (Len(file') - markerOffset) > Limits.metadataLength
    PROVE  ScanInv'
<1>1. /\ ScanTypeInv /\ CursorInv /\ Len(file) \in Nat /\ Len(file') \in Nat
      /\ metadataEncodedLengthBytes = MetadataLength
      /\ MetadataLength <= Limits.metadataLength
  BY InMotion DEF FileGrows
<1>2. UNCHANGED <<scenario, length, markers, entropyCodedDataRanges, codingProcess, scanCount,
                  metadataEncodedLengthBytes>>
  BY DEF input, inventory
<1>3. FileBytes' = FileBytes /\ Segment' = Segment /\ Limits' = Limits
  BY <1>2, SameInput
<1>4. MetadataLength' = MetadataLength
  BY <1>2, MetadataKept
<1>5. ScanTypeInv'
  BY <1>1, <1>2, <1>3 DEF ScanTypeInv, FileGrows
<1>6. CursorInv'
  BY <1>1 DEF CursorInv, InEntropy, FileGrows, ScanTypeInv
<1>7. InventoryIsExact'
  BY <1>1, <1>2, <1>3, <1>4 DEF InventoryIsExact
<1> QED
  BY <1>5, <1>6, <1>7 DEF ScanInv

\* Refuse and RefuseReading, with a code that is neither the metadata limit's
\* nor success.
LEMMA RefusesOtherwise ==
    ASSUME ScanInv, point # "Done", FileGrows, NEW code, RefuseReading(code),
           code \notin {"None", "Success", "MetadataLengthLimitExceeded"}
    PROVE  ScanInv'
  BY RefusalStep DEF RefuseReading

\* An action that refuses before it reads.
LEMMA RefusesBefore ==
    ASSUME ScanInv, point # "Done", NEW code, Refuse(code),
           code \notin {"None", "Success", "MetadataLengthLimitExceeded"}
    PROVE  ScanInv'
<1>1. file \in Seq(FileBytes)
  BY InMotion
<1>2. FileGrows
  BY <1>1, SameFileGrows DEF Refuse
<1>3. RefuseReading(code)
  BY DEF Refuse, RefuseReading
<1> QED
  BY <1>2, <1>3, RefusesOtherwise

\* The first two bytes.
LEMMA BeginStep ==
    ASSUME ScanInv, Begin
    PROVE  ScanInv'
<1>0. point = "Begin" /\ point # "Done"
  BY DEF Begin
<1>1. CASE Refuse("EncodedFileTooLarge") \/ Malformed
  BY <1>0, <1>1, RefusesBefore DEF Malformed
<1>2. CASE /\ file' = <<"FF", "SOI">> /\ markers' = <<Bare("SOI", 0)>>
           /\ cursor' = 2 /\ point' = "Segment"
           /\ UNCHANGED <<input, markerFillOffset, markerCode, markerOffset,
                          entropyCodedDataOffset, entropyCodedDataRanges, codingProcess,
                          scanCount, metadataEncodedLengthBytes, chunks, result>>
  <2> DEFINE m == Bare("SOI", 0)
  <2>1. /\ ScanTypeInv /\ CursorInv /\ CoverInv /\ OpaqueInv /\ OrderInv
        /\ metadataEncodedLengthBytes = MetadataLength
        /\ MetadataLength <= Limits.metadataLength
        /\ result = "None" /\ file \in Seq(FileBytes) /\ Len(file) \in Nat
    BY <1>0, InMotion
  <2>2. /\ file = <<>> /\ markers = <<>> /\ entropyCodedDataRanges = <<>> /\ cursor = 0
        /\ codingProcess = "None" /\ scanCount = 0 /\ scenario' = scenario /\ length' = length
        /\ ~InEntropy /\ ~InEntropy' /\ markers' = Append(markers, m) /\ result' = "None"
        /\ Accounted = 0 /\ Accounted' = 2
    BY <1>0, <1>2, <2>1 DEF CursorInv, InEntropy, input, ScanTypeInv, Accounted
  <2>3. FileBytes' = FileBytes /\ Segment' = Segment /\ Limits' = Limits
    BY <2>2, SameInput
  <2>4. m.code = "SOI" /\ m.length = 2 /\ m.offset = 0 /\ m \in Segment
    <3>1. m.body \in SegmentBodies
      BY DEF Bare, Marker, SegmentBodies
    <3> QED
      BY <3>1 DEF Bare, Marker, Segment
  <2>5. Extent(m) = 1..2
    BY <2>4 DEF Extent
  <2>6. markers \in Seq(Segment)
    BY <2>1 DEF ScanTypeInv
  <2> HIDE DEF m
  <2>7. FileGrows /\ Len(file') = 2
    <3>1. file' \in Seq(FileBytes) /\ Len(file') = 2
      BY <1>2 DEF FileBytes
    <3> QED
      BY <2>2, <3>1 DEF FileGrows
  <2>8. ScanTypeInv'
    <3>1. markers' \in Seq(Segment)
      BY <2>2, <2>4, <2>6
    <3> QED
      BY <1>2, <2>1, <2>2, <2>3, <2>7, <3>1 DEF ScanTypeInv, FileGrows
  <2>9. CursorInv'
    BY <1>2, <2>2, <2>7 DEF CursorInv, InEntropy
  <2>10. SegmentExtents' = SegmentExtents \cup {Extent(m)}
    BY <2>2, <2>4, <2>6, ExtentsAppended
  <2>11. EntropyExtents' = EntropyExtents
    BY <1>2 DEF EntropyExtents, Extent
  <2>12. CoverInv'
    <3>1. Extents' = Extents \cup {Extent(m)}
      BY <2>10, <2>11 DEF Extents
    <3>2. /\ Extent(m) \subseteq (Accounted + 1)..Accounted'
          /\ \A p \in (Accounted + 1)..Accounted' : p \in Extent(m) \/ file'[p] = "FF"
          /\ Accounted \in Nat /\ Accounted' \in Nat /\ Accounted <= Accounted'
          /\ Accounted <= Len(file)
      BY <2>1, <2>2, <2>5
    <3> QED
      BY <2>1, <2>7, <3>1, <3>2, CoverExtended
  <2>13. DOMAIN markers' = {1} /\ markers'[1] = m /\ DOMAIN entropyCodedDataRanges' = {}
    BY <1>2, <2>2
  <2>14. OpaqueInv'
    BY <2>2, <2>4, <2>13 DEF OpaqueInv
  <2>15. OrderInv'
    <3>1. m.code \notin SupportedFrames /\ m.code # "SOS"
      BY <2>4 DEF SupportedFrames
    <3>2. /\ Positions(markers', SupportedFrames) = Positions(markers, SupportedFrames)
          /\ Positions(markers', {"SOS"}) = Positions(markers, {"SOS"})
          /\ \A i \in Positions(markers, {"SOS"}) : markers'[i] = markers[i]
      BY <2>2, <2>6, <3>1, PlainMarker
    <3> QED
      BY <1>2, <2>1, <2>2, <3>2, OrderKept
  <2>16. MetadataLength' = MetadataLength
    BY <2>2, <2>4, <2>6, PlainMarkerAppended DEF MetadataMarkers
  <2> QED
    BY <1>2, <2>1, <2>2, <2>3, <2>8, <2>9, <2>12, <2>14, <2>15, <2>16, GoesOn
<1> QED
  BY <1>1, <1>2 DEF Begin

\* The bytes end before the image does.
LEMMA EndOfBytesStep ==
    ASSUME ScanInv, EndOfBytes
    PROVE  ScanInv'
  BY RefusesBefore DEF EndOfBytes, Malformed

\* A byte of entropy-coded data, or the first of a fill.
LEMMA EntropyByteStep ==
    ASSUME ScanInv, ReadEntropyByte
    PROVE  ScanInv'
<1>0. point = "Entropy" /\ point # "Done" /\ InEntropy
  BY DEF ReadEntropyByte, InEntropy
<1>1. /\ ScanTypeInv /\ CursorInv /\ CoverInv /\ OpaqueInv /\ OrderInv
      /\ metadataEncodedLengthBytes = MetadataLength
      /\ MetadataLength <= Limits.metadataLength
      /\ result = "None" /\ file \in Seq(FileBytes) /\ Len(file) \in Nat
  BY <1>0, InMotion
<1>2. PICK b \in PlainBytes :
        /\ Byte(b, PlainBytes) /\ cursor' = cursor + 1
        /\ markerFillOffset' = (IF b = "FF" THEN cursor ELSE markerFillOffset)
        /\ point' = (IF b = "FF" THEN "EntropyCode" ELSE "Entropy")
        /\ scenario' = scenario /\ length' = length /\ result' = result
        /\ UNCHANGED <<markerCode, markerOffset, markers, entropyCodedDataRanges,
                       entropyCodedDataOffset, codingProcess, scanCount,
                       metadataEncodedLengthBytes>>
  BY DEF ReadEntropyByte, Moved, input
<1>3. /\ cursor = Len(file) /\ cursor \in Nat /\ entropyCodedDataOffset \in Nat
      /\ entropyCodedDataOffset <= cursor /\ InEntropy'
      /\ Accounted = entropyCodedDataOffset /\ Accounted' = entropyCodedDataOffset
      /\ EntropyEnd = cursor /\ EntropyEnd' = (IF b = "FF" THEN cursor ELSE cursor + 1)
  BY <1>0, <1>1, <1>2 DEF CursorInv, ScanTypeInv, Accounted, InEntropy, EntropyEnd
<1>4. FileGrows /\ Len(file') = cursor + 1 /\ file'[cursor + 1] = b
  BY <1>1, <1>2, <1>3, ByteRead, ByteChoices
<1>5. FileBytes' = FileBytes /\ Segment' = Segment /\ Limits' = Limits
  BY <1>2, SameInput
<1>6. ScanTypeInv'
  BY <1>1, <1>2, <1>3, <1>4, <1>5 DEF ScanTypeInv, FileGrows
<1>7. CursorInv'
  BY <1>2, <1>3, <1>4 DEF CursorInv, InEntropy
<1>8. CoverInv'
  <2>1. Extents' = Extents
    BY <1>2 DEF Extents, SegmentExtents, EntropyExtents, Extent
  <2> QED
    BY <1>1, <1>3, <1>4, <2>1, CoverKept
<1>9. OpaqueInv'
  <2>1. Stuffed(file, entropyCodedDataOffset + 1, cursor)
    BY <1>0, <1>1, <1>3 DEF OpaqueInv
  <2>2. Stuffed(file', entropyCodedDataOffset + 1, cursor)
    BY <1>1, <1>3, <1>4, <2>1, StuffedStays DEF FileGrows
  <2>3. Stuffed(file', entropyCodedDataOffset + 1, EntropyEnd')
    <3>1. CASE b = "FF"
      BY <1>3, <2>2, <3>1
    <3>2. CASE b # "FF"
      <4>1. \A p \in (entropyCodedDataOffset + 1)..(cursor + 1) :
              p = cursor + 1 \/ p \in (entropyCodedDataOffset + 1)..cursor
        BY <1>3
      <4> QED
        BY <1>3, <1>4, <2>2, <3>2, <4>1 DEF Stuffed
    <3> QED
      BY <3>1, <3>2
  <2> QED
    BY <1>1, <1>2, <1>3, <1>4, <2>3, OpaqueKept
<1>10. OrderInv'
  BY <1>0, <1>1, <1>2, <1>3, OrderKept
<1>11. MetadataLength' = MetadataLength
  BY <1>2, MetadataKept
<1> QED
  BY <1>1, <1>2, <1>5, <1>6, <1>7, <1>8, <1>9, <1>10, <1>11, GoesOn

\* More fill, stuffing or a restart marker inside entropy-coded data.
LEMMA EntropyStaysStep ==
    ASSUME ScanInv, point = "EntropyCode", ~AtEnd,
           NEW b \in Codes, Byte(b, Codes), b \in {"FF", "00", "RST"},
           cursor' = cursor + 1,
           markers' = IF b = "RST" THEN Append(markers, Bare(b, cursor - 1)) ELSE markers,
           Moved(IF b = "FF" THEN "EntropyCode" ELSE "Entropy"),
           UNCHANGED <<markerFillOffset, markerCode, markerOffset, entropyCodedDataRanges>>
    PROVE  ScanInv'
<1> DEFINE m == Bare(b, cursor - 1)
<1>0. point # "Done" /\ InEntropy
  BY DEF InEntropy
<1>1. /\ ScanTypeInv /\ CursorInv /\ CoverInv /\ OpaqueInv /\ OrderInv
      /\ metadataEncodedLengthBytes = MetadataLength
      /\ MetadataLength <= Limits.metadataLength
      /\ result = "None" /\ file \in Seq(FileBytes) /\ Len(file) \in Nat
      /\ markers \in Seq(Segment)
  BY <1>0, InMotion DEF ScanTypeInv
<1>2. /\ point' = (IF b = "FF" THEN "EntropyCode" ELSE "Entropy") /\ InEntropy'
      /\ scenario' = scenario /\ length' = length /\ result' = result
      /\ UNCHANGED <<entropyCodedDataOffset, codingProcess, scanCount,
                     metadataEncodedLengthBytes>>
  BY DEF Moved, input, InEntropy
<1>3. /\ cursor = Len(file) /\ cursor \in Nat /\ entropyCodedDataOffset \in Nat
      /\ markerFillOffset \in Nat /\ entropyCodedDataOffset <= markerFillOffset
      /\ markerFillOffset < cursor
      /\ \A k \in (markerFillOffset + 1)..cursor : file[k] = "FF"
      /\ Accounted = entropyCodedDataOffset /\ Accounted' = entropyCodedDataOffset
      /\ EntropyEnd = markerFillOffset
      /\ EntropyEnd' = (IF b = "FF" THEN markerFillOffset ELSE cursor + 1)
  BY <1>0, <1>1, <1>2 DEF CursorInv, ScanTypeInv, Accounted, InEntropy, EntropyEnd
<1>4. FileGrows /\ Len(file') = cursor + 1 /\ file'[cursor + 1] = b
  <2>1. Codes \subseteq FileBytes /\ cursor <= Len(file)
    BY <1>1, <1>3, ByteChoices
  <2>2. /\ FileGrows /\ file'[cursor + 1] = b /\ (cursor = Len(file) => Len(file') = cursor + 1)
    BY <1>1, <1>3, <2>1, ByteRead, Zenon
  <2> QED
    BY <1>3, <2>2
<1>5. FileBytes' = FileBytes /\ Segment' = Segment /\ Limits' = Limits
  BY <1>2, SameInput
<1>6. m.code = b /\ m.length = 2 /\ m.offset = cursor - 1 /\ (b = "RST" => m \in Segment)
  <2>1. m.body \in SegmentBodies
    BY DEF Bare, Marker, SegmentBodies
  <2>2. cursor - 1 \in Nat
    BY <1>3
  <2> QED
    BY <2>1, <2>2 DEF Bare, Marker, Segment
<1>7. Extent(m) = cursor..(cursor + 1)
  BY <1>3, <1>6 DEF Extent
<1> HIDE DEF m
<1>8. \/ b # "RST" /\ markers' = markers
      \/ b = "RST" /\ markers' = Append(markers, m)
  BY DEF m
<1>9. markers' \in Seq(Segment)
  BY <1>1, <1>6, <1>8
<1>10. ScanTypeInv'
  BY <1>1, <1>2, <1>3, <1>4, <1>5, <1>9 DEF ScanTypeInv, FileGrows
<1>11. CursorInv'
  <2>1. b = "FF" => \A k \in (markerFillOffset + 1)..(cursor + 1) : file'[k] = "FF"
    <3>1. \A k \in (markerFillOffset + 1)..(cursor + 1) :
            k = cursor + 1 \/ (k \in (markerFillOffset + 1)..cursor /\ k \in 1..Len(file))
      BY <1>3
    <3> QED
      BY <1>3, <1>4, <3>1 DEF FileGrows
  <2> QED
    BY <1>2, <1>3, <1>4, <2>1 DEF CursorInv, InEntropy
<1>12. CoverInv'
  <2>1. SegmentExtents' = SegmentExtents
    <3>1. CASE markers' = markers
      BY <3>1 DEF SegmentExtents, Extent
    <3>2. CASE b = "RST" /\ markers' = Append(markers, m)
      BY <1>1, <1>6, <3>2, ExtentsAppended
    <3> QED
      BY <1>8, <3>1, <3>2
  <2>2. Extents' = Extents
    BY <2>1 DEF Extents, EntropyExtents, Extent
  <2> QED
    BY <1>1, <1>3, <1>4, <2>2, CoverKept
<1>13. Stuffed(file', entropyCodedDataOffset + 1, EntropyEnd')
  <2>1. Stuffed(file, entropyCodedDataOffset + 1, markerFillOffset)
    BY <1>0, <1>1, <1>3 DEF OpaqueInv
  <2>2. Stuffed(file', entropyCodedDataOffset + 1, markerFillOffset)
    BY <1>1, <1>3, <1>4, <2>1, StuffedStays DEF FileGrows
  <2>3. CASE b = "FF"
    BY <1>3, <2>2, <2>3
  <2>4. CASE b # "FF"
    <3> SUFFICES ASSUME NEW p \in (entropyCodedDataOffset + 1)..(cursor + 1), file'[p] = "FF"
                 PROVE  \E q \in (entropyCodedDataOffset + 1)..(cursor + 1) :
                           RunEnds(file', p, q) /\ file'[q] \in {"00", "RST"}
      BY <1>3, <2>4 DEF Stuffed
    <3>1. CASE p \in (entropyCodedDataOffset + 1)..markerFillOffset
      <4>1. PICK q \in (entropyCodedDataOffset + 1)..markerFillOffset :
              RunEnds(file', p, q) /\ file'[q] \in {"00", "RST"}
        BY <2>2, <3>1 DEF Stuffed
      <4>2. q \in (entropyCodedDataOffset + 1)..(cursor + 1)
        BY <1>3
      <4> QED
        BY <4>1, <4>2
    <3>2. CASE p \in (markerFillOffset + 1)..cursor
      <4>1. \A k \in p..((cursor + 1) - 1) : file'[k] = "FF"
        <5>1. \A k \in p..((cursor + 1) - 1) :
                k \in (markerFillOffset + 1)..cursor /\ k \in 1..Len(file)
          BY <1>3, <3>2
        <5> QED
          BY <1>3, <1>4, <5>1 DEF FileGrows
      <4>2. cursor + 1 \in p..Len(file')
        BY <1>3, <1>4, <3>2
      <4>3. RunEnds(file', p, cursor + 1)
        BY <1>4, <2>4, <4>1, <4>2 DEF RunEnds
      <4>4. cursor + 1 \in (entropyCodedDataOffset + 1)..(cursor + 1)
        BY <1>3
      <4> QED
        BY <1>4, <2>4, <4>3, <4>4
    <3> QED
      BY <1>3, <1>4, <2>4, <3>1, <3>2
  <2> QED
    BY <2>3, <2>4
<1>14. OpaqueInv'
  <2>1. \A i \in DOMAIN markers' : markers'[i].code = "RST" =>
          \/ i \in DOMAIN markers /\ markers'[i] = markers[i]
          \/ InEntropy' /\ Extent(markers'[i]) \subseteq
                             (entropyCodedDataOffset' + 1)..EntropyEnd'
    <3>1. CASE markers' = markers
      BY <3>1
    <3>2. CASE b = "RST" /\ markers' = Append(markers, m)
      <4>1. /\ DOMAIN markers' = DOMAIN markers \cup {Len(markers) + 1}
            /\ \A i \in DOMAIN markers : markers'[i] = markers[i]
            /\ markers'[Len(markers) + 1] = m
        BY <1>1, <3>2, MarkerAppended
      <4>2. Extent(m) \subseteq (entropyCodedDataOffset' + 1)..EntropyEnd'
        BY <1>2, <1>3, <1>7, <3>2
      <4> QED
        BY <1>2, <4>1, <4>2
    <3> QED
      BY <1>8, <3>1, <3>2
  <2> QED
    BY <1>0, <1>1, <1>2, <1>3, <1>4, <1>13, <2>1, OpaqueKept
<1>15. OrderInv'
  <2>1. CASE markers' = markers
    BY <1>0, <1>1, <1>2, <2>1, OrderKept
  <2>2. CASE b = "RST" /\ markers' = Append(markers, m)
    <3>1. /\ Positions(markers', SupportedFrames) = Positions(markers, SupportedFrames)
          /\ Positions(markers', {"SOS"}) = Positions(markers, {"SOS"})
          /\ \A i \in Positions(markers, {"SOS"}) : markers'[i] = markers[i]
      BY <1>1, <1>6, <2>2, PlainMarker DEF SupportedFrames
    <3> QED
      BY <1>0, <1>1, <1>2, <3>1, OrderKept
  <2> QED
    BY <1>8, <2>1, <2>2
<1>16. MetadataLength' = MetadataLength
  <2>1. CASE markers' = markers
    BY <2>1, MetadataKept
  <2>2. CASE b = "RST" /\ markers' = Append(markers, m)
    BY <1>1, <1>6, <2>2, PlainMarkerAppended DEF MetadataMarkers
  <2> QED
    BY <1>8, <2>1, <2>2
<1> QED
  BY <1>1, <1>2, <1>5, <1>10, <1>11, <1>12, <1>14, <1>15, <1>16, GoesOn

\* A marker behind the fill ends entropy-coded data, and is read again.
LEMMA EntropyEndsStep ==
    ASSUME ScanInv, point = "EntropyCode", ~AtEnd,
           NEW b \in Codes, Byte(b, Codes), b \notin {"FF", "00", "RST"},
           LeaveEntropy(cursor - 1)
    PROVE  ScanInv'
<1> DEFINE r == EntropyRange(cursor - 1)
<1>0. point # "Done" /\ InEntropy
  BY DEF InEntropy
<1>1. /\ ScanTypeInv /\ CursorInv /\ CoverInv /\ OpaqueInv /\ OrderInv
      /\ metadataEncodedLengthBytes = MetadataLength
      /\ MetadataLength <= Limits.metadataLength
      /\ result = "None" /\ file \in Seq(FileBytes) /\ Len(file) \in Nat
  BY <1>0, InMotion
<1>2. /\ point' = "Segment" /\ ~InEntropy' /\ cursor' = cursor - 1
      /\ scenario' = scenario /\ length' = length /\ result' = result
      /\ entropyCodedDataRanges' = Append(entropyCodedDataRanges, r)
      /\ UNCHANGED <<markers, markerFillOffset, markerCode, markerOffset,
                     entropyCodedDataOffset, codingProcess, scanCount,
                     metadataEncodedLengthBytes>>
  BY DEF LeaveEntropy, Moved, input, InEntropy
<1>3. /\ cursor = Len(file) /\ cursor \in Nat /\ entropyCodedDataOffset \in Nat
      /\ markerFillOffset \in Nat /\ entropyCodedDataOffset <= markerFillOffset
      /\ markerFillOffset < cursor
      /\ \A k \in (markerFillOffset + 1)..cursor : file[k] = "FF"
      /\ Accounted = entropyCodedDataOffset /\ Accounted' = cursor - 1
      /\ EntropyEnd = markerFillOffset
  BY <1>0, <1>1, <1>2 DEF CursorInv, ScanTypeInv, Accounted, InEntropy, EntropyEnd
<1>4. FileGrows /\ Len(file') = cursor + 1 /\ file'[cursor + 1] = b
  <2>1. Codes \subseteq FileBytes /\ cursor <= Len(file)
    BY <1>1, <1>3, ByteChoices
  <2>2. /\ FileGrows /\ file'[cursor + 1] = b /\ (cursor = Len(file) => Len(file') = cursor + 1)
    BY <1>1, <1>3, <2>1, ByteRead, Zenon
  <2> QED
    BY <1>3, <2>2
<1>5. FileBytes' = FileBytes /\ Segment' = Segment /\ Limits' = Limits
  BY <1>2, SameInput
<1>6. /\ r.offset = entropyCodedDataOffset /\ r.offset + r.length = markerFillOffset
      /\ r \in [offset : Nat, length : Nat]
  BY <1>3 DEF EntropyRange
<1>7. Extent(r) = (entropyCodedDataOffset + 1)..markerFillOffset
  BY <1>6 DEF Extent
<1>8. entropyCodedDataRanges \in Seq([offset : Nat, length : Nat])
  BY <1>1 DEF ScanTypeInv
<1> HIDE DEF r
<1>9. /\ DOMAIN entropyCodedDataRanges' =
            DOMAIN entropyCodedDataRanges \cup {Len(entropyCodedDataRanges) + 1}
      /\ \A i \in DOMAIN entropyCodedDataRanges :
            entropyCodedDataRanges'[i] = entropyCodedDataRanges[i]
      /\ entropyCodedDataRanges'[Len(entropyCodedDataRanges) + 1] = r
      /\ EntropyExtents' = EntropyExtents \cup {Extent(r)}
  BY <1>2, <1>8, RangeAppended
<1>10. ScanTypeInv'
  <2>1. entropyCodedDataRanges' \in Seq([offset : Nat, length : Nat])
    <3> DEFINE RangeSet == [offset : Nat, length : Nat]
    <3>1. r \in RangeSet /\ entropyCodedDataRanges \in Seq(RangeSet)
      BY <1>6, <1>8
    <3> HIDE DEF RangeSet
    <3>2. entropyCodedDataRanges' \in Seq(RangeSet)
      BY <1>2, <3>1
    <3> QED
      BY <3>2 DEF RangeSet
  <2>2. cursor' \in Nat
    BY <1>2, <1>3
  <2> QED
    BY <1>1, <1>2, <1>3, <1>4, <1>5, <2>1, <2>2 DEF ScanTypeInv, FileGrows
<1>11. CursorInv'
  BY <1>2, <1>3, <1>4 DEF CursorInv
<1>12. \A k \in (markerFillOffset + 1)..cursor : file'[k] = "FF"
  <2>1. \A k \in (markerFillOffset + 1)..cursor : k \in 1..Len(file)
    BY <1>3
  <2> QED
    BY <1>3, <1>4, <2>1 DEF FileGrows
<1>13. CoverInv'
  <2>1. Extents' = Extents \cup {Extent(r)}
    <3>1. SegmentExtents' = SegmentExtents
      BY <1>2 DEF SegmentExtents, Extent
    <3> QED
      BY <1>9, <3>1 DEF Extents
  <2>2. /\ Extent(r) \subseteq (Accounted + 1)..Accounted'
        /\ Accounted \in Nat /\ Accounted' \in Nat /\ Accounted <= Accounted'
        /\ Accounted <= Len(file)
    BY <1>3, <1>7
  <2>3. \A p \in (Accounted + 1)..Accounted' : p \in Extent(r) \/ file'[p] = "FF"
    <3>1. \A p \in (Accounted + 1)..Accounted' :
            p \in Extent(r) \/ p \in (markerFillOffset + 1)..cursor
      BY <1>3, <1>7
    <3> QED
      BY <1>12, <3>1
  <2> QED
    BY <1>1, <1>4, <2>1, <2>2, <2>3, CoverExtended
<1>14. OpaqueRange(file', r)
  <2>1. Stuffed(file', entropyCodedDataOffset + 1, markerFillOffset)
    <3>1. Stuffed(file, entropyCodedDataOffset + 1, markerFillOffset)
      BY <1>0, <1>1, <1>3 DEF OpaqueInv
    <3> QED
      BY <1>1, <1>3, <1>4, <3>1, StuffedStays DEF FileGrows
  <2>2. file'[markerFillOffset + 1] = "FF" /\ markerFillOffset < Len(file')
    BY <1>3, <1>4, <1>12
  <2>3. RunEnds(file', markerFillOffset + 1, cursor + 1)
    <3>1. cursor + 1 \in (markerFillOffset + 1)..Len(file') /\ file'[cursor + 1] # "FF"
      BY <1>3, <1>4
    <3>2. (cursor + 1) - 1 = cursor
      BY <1>3
    <3> QED
      BY <1>12, <3>1, <3>2 DEF RunEnds
  <2>4. cursor + 1 \in 1..Len(file') /\ file'[cursor + 1] \notin {"00", "RST"}
    BY <1>3, <1>4
  <2> QED
    BY <1>6, <2>1, <2>2, <2>3, <2>4 DEF OpaqueRange
<1>15. OpaqueInv'
  <2>1. \A i \in DOMAIN entropyCodedDataRanges' : OpaqueRange(file', entropyCodedDataRanges'[i])
    <3>1. \A i \in DOMAIN entropyCodedDataRanges : OpaqueRange(file', entropyCodedDataRanges[i])
      BY <1>1, <1>4, RangesStay
    <3> QED
      BY <1>9, <1>14, <3>1
  <2>2. ASSUME NEW i \in DOMAIN markers, markers[i].code = "RST"
        PROVE  \E x \in EntropyExtents' : Extent(markers[i]) \subseteq x
    <3>1. \/ \E x \in EntropyExtents : Extent(markers[i]) \subseteq x
          \/ Extent(markers[i]) \subseteq Extent(r)
      BY <1>1, <1>3, <1>7, <2>2 DEF OpaqueInv
    <3> QED
      BY <1>9, <3>1
  <2>3. \A i \in DOMAIN markers' : markers'[i].code = "RST" =>
          \E x \in EntropyExtents' : Extent(markers'[i]) \subseteq x
    BY <1>2, <2>2
  <2> QED
    BY <1>2, <2>1, <2>3 DEF OpaqueInv
<1>16. OrderInv'
  <2>1. {entropyCodedDataRanges'[i].offset : i \in DOMAIN entropyCodedDataRanges'} =
          {entropyCodedDataRanges[i].offset : i \in DOMAIN entropyCodedDataRanges}
            \cup {entropyCodedDataOffset}
    BY <1>6, <1>9
  <2>2. ScanEnds(markers) =
          {entropyCodedDataRanges[i].offset : i \in DOMAIN entropyCodedDataRanges}
            \cup {entropyCodedDataOffset}
    BY <1>0, <1>1 DEF OrderInv
  <2>3. IsProgressive' = IsProgressive
    BY <1>2 DEF IsProgressive
  <2> QED
    BY <1>1, <1>2, <1>5, <2>1, <2>2, <2>3 DEF OrderInv
<1>17. MetadataLength' = MetadataLength
  BY <1>2, MetadataKept
<1> QED
  BY <1>1, <1>2, <1>5, <1>10, <1>11, <1>13, <1>15, <1>16, <1>17, GoesOn

\* The byte behind a fill in entropy-coded data.
LEMMA EntropyCodeStep ==
    ASSUME ScanInv, ReadEntropyCode
    PROVE  ScanInv'
  BY EntropyStaysStep, EntropyEndsStep DEF ReadEntropyCode

\* The prefix of a marker.
LEMMA PrefixStep ==
    ASSUME ScanInv, ReadPrefix
    PROVE  ScanInv'
<1>0. point = "Segment" /\ point # "Done" /\ ~InEntropy
  BY DEF ReadPrefix, InEntropy
<1>1. /\ ScanTypeInv /\ CursorInv /\ CoverInv /\ OpaqueInv /\ OrderInv
      /\ metadataEncodedLengthBytes = MetadataLength
      /\ MetadataLength <= Limits.metadataLength
      /\ result = "None" /\ file \in Seq(FileBytes) /\ Len(file) \in Nat
  BY <1>0, InMotion
<1>2. PICK b \in PlainBytes :
        /\ Byte(b, PlainBytes)
        /\ IF b = "FF"
           THEN /\ cursor' = cursor + 1 /\ Moved("SegmentCode")
                /\ UNCHANGED <<markerFillOffset, markerCode, markerOffset, markers,
                               entropyCodedDataRanges>>
           ELSE MalformedReading
  BY DEF ReadPrefix
<1>3. /\ cursor \in Nat /\ cursor <= Len(file) /\ (cursor = Len(file) \/ cursor + 2 = Len(file))
  BY <1>0, <1>1 DEF CursorInv, ScanTypeInv
<1>4. /\ FileGrows /\ cursor + 1 <= Len(file') /\ file'[cursor + 1] = b
      /\ (cursor + 1 = Len(file') \/ cursor + 2 = Len(file'))
  <2>1. PlainBytes \subseteq FileBytes
    BY ByteChoices
  <2>2. /\ FileGrows /\ cursor + 1 <= Len(file') /\ file'[cursor + 1] = b
        /\ cursor < Len(file) => file' = file
        /\ cursor = Len(file) => Len(file') = cursor + 1
    BY <1>1, <1>2, <1>3, <2>1, ByteRead
  <2> QED
    BY <1>1, <1>3, <2>2
<1>5. CASE b # "FF"
  BY <1>0, <1>2, <1>4, <1>5, RefusesOtherwise DEF MalformedReading
<1>6. CASE b = "FF"
  <2>1. /\ point' = "SegmentCode" /\ ~InEntropy' /\ cursor' = cursor + 1
        /\ scenario' = scenario /\ length' = length /\ result' = result
        /\ UNCHANGED <<markers, entropyCodedDataRanges, markerFillOffset, markerCode,
                       markerOffset, entropyCodedDataOffset, codingProcess, scanCount,
                       metadataEncodedLengthBytes>>
    BY <1>2, <1>6 DEF Moved, input, InEntropy
  <2>2. Accounted = cursor /\ Accounted' = cursor
    BY <1>0, <1>3, <2>1 DEF Accounted, InEntropy
  <2>3. FileBytes' = FileBytes /\ Segment' = Segment /\ Limits' = Limits
    BY <2>1, SameInput
  <2>4. ScanTypeInv'
    BY <1>1, <1>3, <1>4, <2>1, <2>3 DEF ScanTypeInv, FileGrows
  <2>5. CursorInv'
    BY <1>3, <1>4, <1>6, <2>1 DEF CursorInv
  <2>6. CoverInv'
    <3>1. Extents' = Extents
      BY <2>1 DEF Extents, SegmentExtents, EntropyExtents, Extent
    <3> QED
      BY <1>1, <1>3, <1>4, <2>2, <3>1, CoverKept
  <2>7. OpaqueInv'
    BY <1>0, <1>1, <1>4, <2>1, OpaqueKept
  <2>8. OrderInv'
    BY <1>0, <1>1, <2>1, OrderKept
  <2>9. MetadataLength' = MetadataLength
    BY <2>1, MetadataKept
  <2> QED
    BY <1>1, <2>1, <2>3, <2>4, <2>5, <2>6, <2>7, <2>8, <2>9, GoesOn
<1> QED
  BY <1>5, <1>6

\* The code of a marker.
LEMMA CodeStep ==
    ASSUME ScanInv, ReadCode
    PROVE  ScanInv'
<1>0. point = "SegmentCode" /\ point # "Done" /\ ~InEntropy
  BY DEF ReadCode, InEntropy
<1>1. /\ ScanTypeInv /\ CursorInv /\ CoverInv /\ OpaqueInv /\ OrderInv
      /\ metadataEncodedLengthBytes = MetadataLength
      /\ MetadataLength <= Limits.metadataLength
      /\ result = "None" /\ file \in Seq(FileBytes) /\ Len(file) \in Nat
      /\ markers \in Seq(Segment)
  BY <1>0, InMotion DEF ScanTypeInv
<1>2. PICK b \in Codes :
        /\ Byte(b, Codes)
        /\ IF b \in {"00", "SOI", "RST"} THEN MalformedReading
           ELSE /\ cursor' = cursor + 1
                /\ markers' = IF b \in {"TEM", "EOI"} THEN Append(markers, Bare(b, cursor - 1))
                              ELSE markers
                /\ markerCode' = b /\ markerOffset' = cursor - 1
                /\ Moved(CASE b = "FF" -> "SegmentCode" [] b = "TEM" -> "Segment"
                           [] b = "EOI" -> "EndOfImage" [] OTHER -> "Body")
                /\ UNCHANGED <<markerFillOffset, entropyCodedDataRanges>>
  BY DEF ReadCode
<1>3. /\ cursor \in Nat /\ cursor > 0 /\ cursor <= Len(file) /\ file[cursor] = "FF"
      /\ (cursor = Len(file) \/ cursor + 1 = Len(file))
  BY <1>0, <1>1 DEF CursorInv, ScanTypeInv
<1>4. FileGrows /\ cursor + 1 = Len(file') /\ file'[cursor + 1] = b
  <2>1. Codes \subseteq FileBytes
    BY ByteChoices
  <2>2. /\ FileGrows /\ file'[cursor + 1] = b
        /\ cursor < Len(file) => file' = file
        /\ cursor = Len(file) => Len(file') = cursor + 1
    BY <1>1, <1>2, <1>3, <2>1, ByteRead
  <2> QED
    BY <1>1, <1>3, <2>2
<1>5. CASE b \in {"00", "SOI", "RST"}
  BY <1>0, <1>2, <1>4, <1>5, RefusesOtherwise DEF MalformedReading
<1>6. CASE b \notin {"00", "SOI", "RST"}
  <2> DEFINE m == Bare(b, cursor - 1)
  <2>1. /\ point' = (CASE b = "FF" -> "SegmentCode" [] b = "TEM" -> "Segment"
                       [] b = "EOI" -> "EndOfImage" [] OTHER -> "Body")
        /\ cursor' = cursor + 1 /\ markerCode' = b /\ markerOffset' = cursor - 1
        /\ scenario' = scenario /\ length' = length /\ result' = result
        /\ UNCHANGED <<entropyCodedDataRanges, markerFillOffset, entropyCodedDataOffset,
                       codingProcess, scanCount, metadataEncodedLengthBytes>>
    BY <1>2, <1>6 DEF Moved, input
  <2>2. /\ b \notin {"TEM", "EOI"} => markers' = markers
        /\ b \in {"TEM", "EOI"} => markers' = Append(markers, m)
    BY <1>2, <1>6
  <2>3. /\ ~InEntropy' /\ Accounted = cursor - 1
        /\ Accounted' = (IF b = "FF" THEN cursor
                         ELSE IF b \in {"TEM", "EOI"} THEN cursor + 1 ELSE cursor - 1)
    BY <1>0, <1>3, <2>1 DEF Accounted, InEntropy
  <2>4. FileBytes' = FileBytes /\ Segment' = Segment /\ Limits' = Limits
    BY <2>1, SameInput
  <2>5. m.code = b /\ m.length = 2 /\ m.offset = cursor - 1 /\ m \in Segment
    <3>1. m.body \in SegmentBodies
      BY DEF Bare, Marker, SegmentBodies
    <3>2. cursor - 1 \in Nat
      BY <1>3
    <3> QED
      BY <3>1, <3>2 DEF Bare, Marker, Segment
  <2>6. Extent(m) = cursor..(cursor + 1)
    BY <1>3, <2>5 DEF Extent
  <2>7. b = "EOI" => m = Bare("EOI", cursor' - 2)
    BY <1>3, <2>1 DEF Bare, Marker
  <2> HIDE DEF m
  <2>8. /\ b \notin {"TEM", "EOI"} => SegmentExtents' = SegmentExtents
        /\ b \in {"TEM", "EOI"} =>
             /\ SegmentExtents' = SegmentExtents \cup {Extent(m)}
             /\ Len(markers') = Len(markers) + 1
             /\ DOMAIN markers' = DOMAIN markers \cup {Len(markers) + 1}
             /\ \A i \in DOMAIN markers : markers'[i] = markers[i]
             /\ markers'[Len(markers) + 1] = m
    <3>1. CASE b \notin {"TEM", "EOI"}
      BY <2>2, <3>1 DEF SegmentExtents, Extent
    <3>2. CASE b \in {"TEM", "EOI"}
      BY <1>1, <2>2, <2>5, <3>2, ExtentsAppended, MarkerAppended
    <3> QED
      BY <3>1, <3>2
  <2>9. ScanTypeInv'
    <3>1. markers' \in Seq(Segment)
      <4>1. CASE b \notin {"TEM", "EOI"}
        BY <1>1, <2>2, <4>1
      <4>2. CASE b \in {"TEM", "EOI"}
        <5>1. markers' = Append(markers, m)
          BY <2>2, <4>2
        <5> QED
          BY <1>1, <2>5, <5>1
      <4> QED
        BY <4>1, <4>2
    <3>2. markerOffset' \in Nat /\ cursor' \in Nat
      BY <1>3, <2>1
    <3>3. point' \in {"SegmentCode", "Segment", "EndOfImage", "Body"}
      BY <2>1
    <3> QED
      BY <1>1, <1>4, <2>1, <2>4, <3>1, <3>2, <3>3 DEF ScanTypeInv, FileGrows
  <2>10. CursorInv'
    <3>1. CASE b = "FF"
      BY <1>3, <1>4, <2>1, <3>1 DEF CursorInv, InEntropy
    <3>2. CASE b = "TEM"
      BY <1>3, <1>4, <2>1, <3>2 DEF CursorInv, InEntropy
    <3>3. CASE b = "EOI"
      <4>1. markers' # <<>> /\ markers'[Len(markers')] = Bare("EOI", cursor' - 2)
        BY <1>1, <2>2, <2>7, <2>8, <3>3
      <4> QED
        BY <1>3, <1>4, <2>1, <3>3, <4>1 DEF CursorInv, InEntropy
    <3>4. CASE b \notin {"FF", "TEM", "EOI"}
      <4>1. b \in DOMAIN Scenarios[scenario].bodies
        <5>1. Scenarios[scenario].standalone \subseteq {"00", "FF", "SOI", "EOI", "RST", "TEM"}
          BY <1>1, ScenarioFacts DEF ScanTypeInv
        <5> QED
          BY <1>6, <3>4, <5>1 DEF Codes
      <4>2. point' = "Body"
        BY <2>1, <3>4
      <4> QED
        BY <1>3, <1>4, <1>6, <2>1, <3>4, <4>1, <4>2 DEF CursorInv, InEntropy
    <3> QED
      BY <3>1, <3>2, <3>3, <3>4
  <2>11. EntropyExtents' = EntropyExtents
    BY <2>1 DEF EntropyExtents, Extent
  <2>12. CoverInv'
    <3>1. CASE b \in {"TEM", "EOI"}
      <4>1. Extents' = Extents \cup {Extent(m)}
        BY <2>8, <2>11, <3>1 DEF Extents
      <4>2. /\ Accounted = cursor - 1 /\ Accounted' = cursor + 1 /\ (cursor - 1) + 1 = cursor
            /\ Accounted \in Nat /\ Accounted' \in Nat /\ Accounted <= Accounted'
            /\ Accounted <= Len(file)
        BY <1>3, <2>3, <3>1
      <4>3. /\ Extent(m) \subseteq (Accounted + 1)..Accounted'
            /\ \A p \in (Accounted + 1)..Accounted' : p \in Extent(m) \/ file'[p] = "FF"
        BY <2>6, <4>2
      <4> QED
        BY <1>1, <1>4, <4>1, <4>2, <4>3, CoverExtended
    <3>2. CASE b \notin {"TEM", "EOI"}
      <4>1. Extents' = Extents
        BY <2>8, <2>11, <3>2 DEF Extents
      <4>2. /\ Accounted \in Nat /\ Accounted' \in Nat /\ Accounted <= Accounted'
            /\ Accounted <= Len(file)
        BY <1>3, <2>3, <3>2
      <4>3. \A p \in (Accounted + 1)..Accounted' : p = cursor
        BY <1>3, <2>3, <3>2
      <4>4. file'[cursor] = "FF"
        BY <1>3, <1>4 DEF FileGrows
      <4> QED
        BY <1>1, <1>4, <4>1, <4>2, <4>3, <4>4, CoverKept
    <3> QED
      BY <3>1, <3>2
  <2>13. OpaqueInv'
    <3>1. \A i \in DOMAIN markers' : markers'[i].code = "RST" =>
            i \in DOMAIN markers /\ markers'[i] = markers[i]
      <4>1. CASE b \in {"TEM", "EOI"}
        BY <2>5, <2>8, <4>1
      <4>2. CASE b \notin {"TEM", "EOI"}
        BY <2>2, <4>2
      <4> QED
        BY <4>1, <4>2
    <3> QED
      BY <1>0, <1>1, <1>4, <2>1, <2>3, <3>1, OpaqueKept
  <2>14. OrderInv'
    <3>1. CASE b \notin {"TEM", "EOI"}
      BY <1>0, <1>1, <2>1, <2>2, <2>3, <3>1, OrderKept
    <3>2. CASE b \in {"TEM", "EOI"}
      <4>1. /\ Positions(markers', SupportedFrames) = Positions(markers, SupportedFrames)
            /\ Positions(markers', {"SOS"}) = Positions(markers, {"SOS"})
            /\ \A i \in Positions(markers, {"SOS"}) : markers'[i] = markers[i]
        BY <1>1, <2>2, <2>5, <3>2, PlainMarker DEF SupportedFrames
      <4> QED
        BY <1>0, <1>1, <2>1, <2>3, <4>1, OrderKept
    <3> QED
      BY <3>1, <3>2
  <2>15. MetadataLength' = MetadataLength
    <3>1. CASE b \notin {"TEM", "EOI"}
      BY <2>2, <3>1, MetadataKept
    <3>2. CASE b \in {"TEM", "EOI"}
      BY <1>1, <2>2, <2>5, <3>2, PlainMarkerAppended DEF MetadataMarkers
    <3> QED
      BY <3>1, <3>2
  <2> QED
    BY <1>1, <2>1, <2>4, <2>9, <2>10, <2>12, <2>13, <2>14, <2>15, GoesOn
<1> QED
  BY <1>5, <1>6

\* What the checks of a segment can report.
LEMMA FrameErrors ==
    ASSUME NEW header, NEW process
    PROVE  FrameError(header, process) \in
             {"MalformedJpegStructure", "UnsupportedJpegDeferredHeight",
              "UnsupportedJpegSamplePrecision", "UnsupportedJpegComponentOrganization",
              "PixelCountLimitExceeded", "None"}
  BY DEF FrameError

\* The same where it stands.
LEMMA PlaceErrors ==
    ASSUME NEW body
    PROVE  PlaceError(body) \in
             {"MalformedJpegStructure", "UnsupportedJpegDeferredHeight",
              "UnsupportedJpegSamplePrecision", "UnsupportedJpegComponentOrganization",
              "PixelCountLimitExceeded", "UnsupportedJpegCodingProcess",
              "ProgressiveScanCountLimitExceeded", "None"}
<1>1. CASE markerCode \in SupportedFrames /\ codingProcess = "None"
  <2>1. PlaceError(body) = FrameError(body, CodingProcessFor(markerCode))
    BY <1>1 DEF PlaceError
  <2> QED
    BY <2>1, FrameErrors
<1> QED
  BY <1>1 DEF PlaceError

\* The same of its envelope; the metadata limit's when it does not fit.
LEMMA SegmentErrors ==
    ASSUME NEW body, NEW size
    PROVE  /\ SegmentError(body, size) \in
                {"MetadataLengthLimitExceeded", "MalformedImageMetadata",
                 "MultiPictureJpegNotSupported", "None"}
           /\ SegmentError(body, size) = "MetadataLengthLimitExceeded" =>
                markerCode \in MetadataMarkers /\ ~MetadataFits(size)
           /\ SegmentError(body, size) = "None" /\ markerCode \in MetadataMarkers =>
                MetadataFits(size)
  BY DEF SegmentError

\* The markers of a kind are finitely many.
LEMMA PositionsFinite ==
    ASSUME markers \in Seq(Segment), NEW codes
    PROVE  /\ IsFiniteSet(Positions(markers, codes))
           /\ Positions(markers, codes) \subseteq 1..Len(markers) /\ Len(markers) \in Nat
<1>1. Positions(markers, codes) \subseteq 1..Len(markers) /\ Len(markers) \in Nat
  BY DEF Positions
<1>2. IsFiniteSet(1..Len(markers))
  BY <1>1, FS_Interval
<1> QED
  BY <1>1, <1>2, FS_Subset

\* The metadata's length is a number.
LEMMA MetadataIsNat ==
    ASSUME markers \in Seq(Segment)
    PROVE  IsFiniteSet(MetadataBytes) /\ MetadataLength \in Nat
<1> DEFINE S == Positions(markers, MetadataMarkers)
           T == {Extent(markers[i]) : i \in S}
           f == [i \in S |-> Extent(markers[i])]
<1>1. IsFiniteSet(S) /\ S \subseteq DOMAIN markers
  BY PositionsFinite DEF Positions
<1>2. f \in Surjection(S, T)
  BY DEF Surjection
<1>3. IsFiniteSet(T)
  <2> HIDE DEF S, T, f
  <2> QED
    BY <1>1, <1>2, FS_Surjection
<1>4. \A e \in T : IsFiniteSet(e)
  <2> SUFFICES ASSUME NEW i \in S PROVE IsFiniteSet(Extent(markers[i]))
    OBVIOUS
  <2>1. markers[i] \in Segment
    BY <1>1
  <2>2. markers[i].offset + 1 \in Int /\ markers[i].offset + markers[i].length \in Int
    BY <2>1 DEF Segment
  <2> QED
    BY <2>2, FS_Interval DEF Extent
<1>5. MetadataBytes = UNION T
  BY DEF MetadataBytes, Positions
<1> HIDE DEF T
<1>6. IsFiniteSet(MetadataBytes)
  BY <1>3, <1>4, <1>5, FS_UNION
<1> QED
  BY <1>6, FS_CardinalityType DEF MetadataLength

\* A metadata segment behind all others adds its length.
LEMMA MetadataGrows ==
    ASSUME markers \in Seq(Segment), CoverInv, Accounted \in Nat, NEW m,
           markers' = Append(markers, m), m.code \in MetadataMarkers,
           m.offset = Accounted, m.length \in Nat
    PROVE  MetadataLength' = MetadataLength + m.length
<1>1. MetadataBytes' = MetadataBytes \cup Extent(m)
  BY MetadataAppended
<1>2. MetadataBytes \subseteq 1..Accounted
  <2> SUFFICES ASSUME NEW i \in DOMAIN markers, markers[i].code \in MetadataMarkers
               PROVE  Extent(markers[i]) \subseteq 1..Accounted
    BY DEF MetadataBytes
  <2>1. Extent(markers[i]) \in Extents
    BY DEF Extents, SegmentExtents, MetadataMarkers
  <2> QED
    BY <2>1 DEF CoverInv
<1>3. /\ Extent(m) = (Accounted + 1)..(Accounted + m.length)
      /\ Accounted + 1 \in Int /\ Accounted + m.length \in Int
  BY DEF Extent
<1>4. IsFiniteSet(Extent(m)) /\ Cardinality(Extent(m)) = m.length
  <2>1. \A a, b \in Int : IsFiniteSet(a..b) /\ Cardinality(a..b) = IF a > b THEN 0 ELSE b - a + 1
    BY FS_Interval
  <2>2. /\ IsFiniteSet(Extent(m))
        /\ Cardinality(Extent(m)) = IF Accounted + 1 > Accounted + m.length THEN 0
                                    ELSE (Accounted + m.length) - (Accounted + 1) + 1
    BY <1>3, <2>1
  <2> QED
    BY <2>2
<1>5. MetadataBytes \cap Extent(m) = {}
  BY <1>2, <1>3
<1>6. IsFiniteSet(MetadataBytes) /\ MetadataLength \in Nat
  BY MetadataIsNat
<1>7. Cardinality(MetadataBytes \cup Extent(m)) =
        Cardinality(MetadataBytes) + Cardinality(Extent(m)) - Cardinality({})
  BY <1>4, <1>5, <1>6, FS_Union
<1> QED
  BY <1>1, <1>4, <1>6, <1>7, FS_EmptySet DEF MetadataLength

\* A segment whose header passes the checks: its place in the inventory.
LEMMA OrderExtended ==
    ASSUME ScanTypeInv, OrderInv, ~InEntropy, scenario' = scenario, NEW body, NEW m,
           PlaceError(body) = "None", markers' = Append(markers, m), m.code = markerCode,
           entropyCodedDataRanges' = entropyCodedDataRanges,
           codingProcess' = IF markerCode \in SupportedFrames
                            THEN CodingProcessFor(markerCode) ELSE codingProcess,
           InEntropy' <=> markerCode = "SOS",
           markerCode = "SOS" => /\ scanCount' = scanCount + 1
                                 /\ entropyCodedDataOffset' = m.offset + m.length,
           markerCode # "SOS" => scanCount' = scanCount
    PROVE  OrderInv'
<1> DEFINE n == Len(markers)
           offsets == {entropyCodedDataRanges[i].offset : i \in DOMAIN entropyCodedDataRanges}
<1>1. /\ markers \in Seq(Segment) /\ n \in Nat /\ scanCount \in Nat
      /\ Limits.progressiveScanCount \in Nat /\ Limits' = Limits
  BY ScenarioFacts, SameInput DEF ScanTypeInv
<1>2. \A codes : Positions(markers', codes) = Positions(markers, codes) \cup
                   (IF m.code \in codes THEN {n + 1} ELSE {})
  BY <1>1, PositionsAppended
<1>3. /\ \A i \in DOMAIN markers : markers'[i] = markers[i]
      /\ markers'[n + 1] = m
  BY <1>1, MarkerAppended
<1>4. /\ scanCount = Cardinality(Positions(markers, {"SOS"}))
      /\ codingProcess = "None" => /\ Positions(markers, SupportedFrames) = {}
                                   /\ Positions(markers, {"SOS"}) = {}
      /\ codingProcess # "None" =>
           \E frame \in Positions(markers, SupportedFrames) :
              /\ Positions(markers, SupportedFrames) = {frame}
              /\ \A scan \in Positions(markers, {"SOS"}) : frame < scan
      /\ ScanEnds(markers) = offsets
      /\ IsProgressive => scanCount <= Limits.progressiveScanCount
  BY DEF OrderInv
<1>5. offsets' = offsets
  OBVIOUS
<1>6. CASE markerCode \in SupportedFrames
  <2>1. /\ codingProcess = "None" /\ codingProcess' # "None" /\ markerCode # "SOS"
        /\ ~InEntropy' /\ scanCount' = scanCount
    BY <1>6 DEF PlaceError, SupportedFrames, CodingProcessFor
  <2>2. /\ Positions(markers', SupportedFrames) = {n + 1}
        /\ Positions(markers', {"SOS"}) = {} /\ Positions(markers, {"SOS"}) = {}
    BY <1>2, <1>4, <1>6, <2>1
  <2>3. scanCount = 0
    BY <1>4, <2>2, FS_EmptySet
  <2>4. ScanEnds(markers') = {} /\ ScanEnds(markers) = {}
    BY <2>2 DEF ScanEnds
  <2>5. /\ scanCount' = Cardinality(Positions(markers', {"SOS"}))
        /\ IsProgressive' => scanCount' <= Limits'.progressiveScanCount
    <3>1. Cardinality({}) = 0
      BY FS_EmptySet
    <3>2. scanCount' = 0 /\ scanCount' = Cardinality(Positions(markers', {"SOS"}))
      BY <2>1, <2>2, <2>3, <3>1
    <3>3. 0 <= Limits'.progressiveScanCount
      BY <1>1
    <3> QED
      BY <3>2, <3>3
  <2>6. \E frame \in Positions(markers', SupportedFrames) :
           /\ Positions(markers', SupportedFrames) = {frame}
           /\ \A scan \in Positions(markers', {"SOS"}) : frame < scan
    BY <2>2
  <2>7. ScanEnds(markers') = offsets' \cup {}
    BY <1>4, <1>5, <2>4
  <2> QED
    BY <2>1, <2>5, <2>6, <2>7 DEF OrderInv
<1>7. CASE markerCode = "SOS"
  <2>1. /\ codingProcess # "None" /\ codingProcess' = codingProcess
        /\ (IsProgressive => ~(scanCount >= Limits.progressiveScanCount))
        /\ InEntropy' /\ scanCount' = scanCount + 1
        /\ entropyCodedDataOffset' = m.offset + m.length
    BY <1>7 DEF PlaceError, SupportedFrames, UnsupportedFrames
  <2>2. /\ Positions(markers', SupportedFrames) = Positions(markers, SupportedFrames)
        /\ Positions(markers', {"SOS"}) = Positions(markers, {"SOS"}) \cup {n + 1}
    BY <1>2, <1>7 DEF SupportedFrames
  <2>3. /\ IsFiniteSet(Positions(markers, {"SOS"}))
        /\ \A codes : Positions(markers, codes) \subseteq 1..n
    BY <1>1, PositionsFinite
  <2>4. Cardinality(Positions(markers', {"SOS"})) = scanCount + 1
    <3>1. n + 1 \notin Positions(markers, {"SOS"})
      BY <1>1, <2>3
    <3> QED
      BY <1>4, <2>2, <2>3, <3>1, FS_AddElement
  <2>5. ScanEnds(markers') = ScanEnds(markers) \cup {m.offset + m.length}
    <3>1. \A i \in Positions(markers, {"SOS"}) : markers'[i] = markers[i]
      BY <1>3 DEF Positions
    <3>2. ASSUME NEW x PROVE x \in ScanEnds(markers') <=>
                              x \in ScanEnds(markers) \/ x = m.offset + m.length
      <4>1. x \in ScanEnds(markers') <=> \E i \in Positions(markers, {"SOS"}) \cup {n + 1} :
                                           x = markers'[i].offset + markers'[i].length
        BY <2>2 DEF ScanEnds
      <4>2. x \in ScanEnds(markers) <=> \E i \in Positions(markers, {"SOS"}) :
                                           x = markers[i].offset + markers[i].length
        BY DEF ScanEnds
      <4> QED
        BY <1>3, <3>1, <4>1, <4>2
    <3> QED
      BY <3>2
  <2>6. \E frame \in Positions(markers', SupportedFrames) :
           /\ Positions(markers', SupportedFrames) = {frame}
           /\ \A scan \in Positions(markers', {"SOS"}) : frame < scan
    <3>1. PICK frame \in Positions(markers, SupportedFrames) :
             /\ Positions(markers, SupportedFrames) = {frame}
             /\ \A scan \in Positions(markers, {"SOS"}) : frame < scan
      BY <1>4, <2>1
    <3>2. frame < n + 1
      BY <1>1, <2>3
    <3> QED
      BY <2>2, <3>1, <3>2
  <2>7. IsProgressive' => scanCount' <= Limits'.progressiveScanCount
    BY <1>1, <2>1 DEF IsProgressive
  <2> QED
    BY <1>4, <1>5, <2>1, <2>4, <2>5, <2>6, <2>7 DEF OrderInv
<1>8. CASE markerCode \notin SupportedFrames /\ markerCode # "SOS"
  <2>1. /\ Positions(markers', SupportedFrames) = Positions(markers, SupportedFrames)
        /\ Positions(markers', {"SOS"}) = Positions(markers, {"SOS"})
        /\ \A i \in Positions(markers, {"SOS"}) : markers'[i] = markers[i]
    BY <1>1, <1>8, PlainMarker
  <2> QED
    BY <1>8, <2>1, OrderKept
<1> QED
  BY <1>6, <1>7, <1>8

\* A segment that is recorded.
LEMMA RecordedStep ==
    ASSUME ScanInv, point = "Body", NEW body \in Bodies(markerCode), NEW size, size = 4 + body.length,
           file' = file \o <<"Length", "Length">> \o PayloadBytes(body.length),
           SegmentError(body, size) = "None", PlaceError(body) = "None", TakeSegment(body)
    PROVE  ScanInv'
<1> DEFINE m == Marker(markerCode, markerOffset, size, body)
<1>0. point # "Done" /\ ~InEntropy
  BY DEF InEntropy
<1>1. /\ ScanTypeInv /\ CursorInv /\ CoverInv /\ OpaqueInv /\ OrderInv
      /\ metadataEncodedLengthBytes = MetadataLength
      /\ MetadataLength <= Limits.metadataLength
      /\ result = "None" /\ file \in Seq(FileBytes) /\ Len(file) \in Nat
      /\ markers \in Seq(Segment)
  BY <1>0, InMotion DEF ScanTypeInv
<1>2. /\ markers' = Append(markers, m)
      /\ metadataEncodedLengthBytes' = metadataEncodedLengthBytes +
            (IF markerCode \in MetadataMarkers THEN size ELSE 0)
      /\ cursor' = markerOffset + size
      /\ codingProcess' = (IF markerCode \in SupportedFrames
                           THEN CodingProcessFor(markerCode) ELSE codingProcess)
      /\ markerCode = "SOS" => /\ scanCount' = scanCount + 1 /\ point' = "Entropy"
                               /\ entropyCodedDataOffset' = markerOffset + size
      /\ markerCode # "SOS" => /\ point' = "Segment" /\ scanCount' = scanCount
                               /\ entropyCodedDataOffset' = entropyCodedDataOffset
      /\ scenario' = scenario /\ length' = length /\ result' = result
      /\ UNCHANGED <<markerFillOffset, markerCode, markerOffset, entropyCodedDataRanges>>
  BY DEF TakeSegment, NextCursor, EntropyOffset, input
<1>3. /\ markerOffset \in Nat /\ cursor = Len(file) /\ Len(file) = markerOffset + 2
      /\ markerCode \in DOMAIN Scenarios[scenario].bodies
      /\ markerCode \notin {"FF", "00", "SOI", "RST", "TEM", "EOI"}
      /\ entropyCodedDataOffset \in Nat
  BY <1>1 DEF CursorInv, ScanTypeInv
<1>4. body.length \in Nat /\ size = 4 + body.length /\ size \in Nat /\ size >= 4
  BY <1>1, <1>3, ScenarioFacts DEF ScanTypeInv
<1>5. FileGrows /\ Len(file') = markerOffset + size
  <2>1. FileGrows /\ Len(file') = Len(file) + 2 + body.length
    BY <1>1, <1>4, BodyRead, Zenon
  <2>2. \A k, n \in Nat : (k + 2) + 2 + n = k + (4 + n)
    OBVIOUS
  <2>3. Len(file') = (markerOffset + 2) + 2 + body.length
    BY <1>3, <2>1, Zenon
  <2>4. (markerOffset + 2) + 2 + body.length = markerOffset + (4 + body.length)
    BY <1>3, <1>4, <2>2, Zenon
  <2> QED
    BY <1>4, <2>1, <2>3, <2>4, Zenon
<1>6. /\ InEntropy' <=> markerCode = "SOS"
      /\ Accounted = markerOffset /\ Accounted' = markerOffset + size
  BY <1>0, <1>2 DEF Accounted, InEntropy
<1>7. FileBytes' = FileBytes /\ Segment' = Segment /\ Limits' = Limits
  BY <1>2, SameInput
<1>8. m.code = markerCode /\ m.offset = markerOffset /\ m.length = size /\ m \in Segment
  <2>1. body \in SegmentBodies /\ markerCode \in Codes
    BY <1>3 DEF SegmentBodies, Codes
  <2> QED
    BY <1>3, <1>4, <2>1 DEF Marker, Segment
<1> HIDE DEF m
<1>9. Extent(m) = (markerOffset + 1)..(markerOffset + size)
  BY <1>8 DEF Extent
<1>10. ScanTypeInv'
  <2>1. markers' \in Seq(Segment)
    BY <1>1, <1>2, <1>8
  <2>2. codingProcess' \in {"None", "Baseline", "Extended", "Progressive"}
    BY <1>1, <1>2 DEF ScanTypeInv, SupportedFrames, CodingProcessFor
  <2>3. cursor' \in Nat /\ entropyCodedDataOffset' \in Nat /\ scanCount' \in Nat
    <3>1. scanCount \in Nat /\ markerOffset + size \in Nat
      BY <1>1, <1>3, <1>4 DEF ScanTypeInv
    <3> QED
      BY <1>2, <1>3, <3>1
  <2> QED
    BY <1>1, <1>2, <1>5, <1>7, <2>1, <2>2, <2>3 DEF ScanTypeInv, FileGrows
<1>11. CursorInv'
  BY <1>2, <1>3, <1>4, <1>5 DEF CursorInv, InEntropy
<1>12. CoverInv'
  <2>1. Extents' = Extents \cup {Extent(m)}
    <3>1. SegmentExtents' = SegmentExtents \cup {Extent(m)}
      BY <1>1, <1>2, <1>3, <1>8, ExtentsAppended
    <3>2. EntropyExtents' = EntropyExtents
      BY <1>2 DEF EntropyExtents, Extent
    <3> QED
      BY <3>1, <3>2 DEF Extents
  <2>2. /\ Extent(m) \subseteq (Accounted + 1)..Accounted'
        /\ \A p \in (Accounted + 1)..Accounted' : p \in Extent(m) \/ file'[p] = "FF"
        /\ Accounted \in Nat /\ Accounted' \in Nat /\ Accounted <= Accounted'
        /\ Accounted <= Len(file)
    BY <1>3, <1>4, <1>6, <1>9
  <2> QED
    BY <1>1, <1>5, <2>1, <2>2, CoverExtended
<1>13. OpaqueInv'
  <2>1. InEntropy' => Stuffed(file', entropyCodedDataOffset' + 1, EntropyEnd')
    <3>1. InEntropy' => EntropyEnd' = entropyCodedDataOffset' /\ entropyCodedDataOffset' \in Nat
      BY <1>2, <1>3, <1>4, <1>6 DEF EntropyEnd
    <3>2. \A k \in Nat : (k + 1)..k = {}
      OBVIOUS
    <3> QED
      BY <3>1, <3>2 DEF Stuffed
  <2>2. \A i \in DOMAIN markers' : markers'[i].code = "RST" =>
          i \in DOMAIN markers /\ markers'[i] = markers[i]
    BY <1>1, <1>2, <1>3, <1>8, MarkerAppended
  <2> QED
    BY <1>0, <1>1, <1>2, <1>5, <2>1, <2>2, OpaqueKept
<1>14. OrderInv'
  BY <1>0, <1>1, <1>2, <1>6, <1>8, OrderExtended
<1>15. /\ metadataEncodedLengthBytes' = MetadataLength'
       /\ MetadataLength' <= Limits'.metadataLength
  <2>1. /\ MetadataLength \in Nat
        /\ MetadataLength' = MetadataLength + (IF markerCode \in MetadataMarkers THEN size ELSE 0)
    <3>1. CASE markerCode \in MetadataMarkers
      BY <1>1, <1>2, <1>3, <1>4, <1>6, <1>8, <3>1, MetadataIsNat, MetadataGrows
    <3>2. CASE markerCode \notin MetadataMarkers
      BY <1>1, <1>2, <1>8, <3>2, MetadataIsNat, PlainMarkerAppended
    <3> QED
      BY <3>1, <3>2
  <2>2. Limits.metadataLength \in Nat
    BY <1>1, ScenarioFacts DEF ScanTypeInv
  <2>3. markerCode \in MetadataMarkers => MetadataFits(size)
    BY SegmentErrors
  <2> QED
    BY <1>1, <1>2, <1>4, <1>7, <2>1, <2>2, <2>3 DEF MetadataFits
<1> QED
  BY <1>1, <1>2, <1>10, <1>11, <1>12, <1>13, <1>14, <1>15, GoesOn

\* The length field and the payload of a segment.
LEMMA BodyStep ==
    ASSUME ScanInv, ReadBody
    PROVE  ScanInv'
<1>0. point = "Body" /\ point # "Done"
  BY DEF ReadBody
<1>1. CASE Malformed
  BY <1>0, <1>1, RefusesBefore DEF Malformed
<1>2. ASSUME NEW body \in Bodies(markerCode),
             file' = file \o <<"Length", "Length">> \o PayloadBytes(body.length),
             TakeSegment(body)
      PROVE  ScanInv'
  <2> DEFINE size == 4 + body.length
  <2>1. /\ ScanTypeInv /\ CursorInv /\ file \in Seq(FileBytes) /\ Len(file) \in Nat
        /\ metadataEncodedLengthBytes = MetadataLength
        /\ MetadataLength <= Limits.metadataLength /\ markers \in Seq(Segment)
    BY <1>0, InMotion DEF ScanTypeInv
  <2>2. /\ markerOffset \in Nat /\ cursor = Len(file) /\ Len(file) = markerOffset + 2
        /\ markerCode \in DOMAIN Scenarios[scenario].bodies
    BY <1>0, <2>1 DEF CursorInv, ScanTypeInv
  <2>3. body.length \in Nat /\ size \in Nat /\ Limits.metadataLength \in Nat
    BY <2>1, <2>2, ScenarioFacts DEF ScanTypeInv
  <2>4. FileGrows /\ Len(file') = markerOffset + size
    <3>1. FileGrows /\ Len(file') = Len(file) + 2 + body.length
      BY <1>2, <2>1, <2>3, BodyRead, Zenon
    <3> QED
      BY <2>2, <2>3, <3>1
  <2>5. CASE SegmentError(body, size) # "None"
    <3>1. RefuseReading(SegmentError(body, size))
      BY <1>2, <2>5 DEF TakeSegment
    <3>2. CASE SegmentError(body, size) = "MetadataLengthLimitExceeded"
      <4>1. ~MetadataFits(size)
        BY <3>2, SegmentErrors
      <4>2. MetadataLength \in Nat
        BY <2>1, MetadataIsNat
      <4>3. MetadataLength + (Len(file') - markerOffset) > Limits.metadataLength
        <5>1. \A o, k \in Nat : (o + k) - o = k
          OBVIOUS
        <5>2. Len(file') - markerOffset = size
          <6>1. markerOffset \in Nat /\ size \in Nat /\ Len(file') = markerOffset + size
            BY <2>2, <2>3, <2>4
          <6> HIDE DEF size
          <6> QED
            BY <5>1, <6>1
        <5>3. ~(size <= Limits.metadataLength - MetadataLength)
          BY <2>1, <4>1 DEF MetadataFits
        <5> HIDE DEF size
        <5>4. MetadataLength + size > Limits.metadataLength
          BY <2>3, <4>2, <5>3
        <5> QED
          BY <5>2, <5>4
      <4> QED
        BY <1>0, <2>4, <3>1, <3>2, <4>3, RefusalStep DEF RefuseReading
    <3>3. CASE SegmentError(body, size) # "MetadataLengthLimitExceeded"
      <4>1. SegmentError(body, size) \notin {"None", "Success", "MetadataLengthLimitExceeded"}
        BY <2>5, <3>3, SegmentErrors
      <4> QED
        BY <1>0, <2>4, <3>1, <4>1, RefusesOtherwise
    <3> QED
      BY <3>2, <3>3
  <2>6. CASE SegmentError(body, size) = "None" /\ PlaceError(body) # "None"
    <3>1. RefuseReading(PlaceError(body))
      BY <1>2, <2>6 DEF TakeSegment
    <3>2. PlaceError(body) \notin {"None", "Success", "MetadataLengthLimitExceeded"}
      BY <2>6, PlaceErrors
    <3> QED
      BY <1>0, <2>4, <3>1, <3>2, RefusesOtherwise
  <2>7. CASE SegmentError(body, size) = "None" /\ PlaceError(body) = "None"
    BY <1>0, <1>2, <2>7, RecordedStep
  <2> QED
    BY <2>5, <2>6, <2>7
<1> QED
  BY <1>0, <1>1, <1>2 DEF ReadBody

-----------------------------------------------------------------------------
(* The end of the image *)

\* Every byte is one thing.
LEMMA CompleteIsReadOnce ==
    ASSUME ScanInv, point = "EndOfImage"
    PROVE  EveryByteIsReadOnce
<1>1. /\ ScanTypeInv /\ CursorInv /\ CoverInv /\ cursor \in Nat /\ cursor >= 2
      /\ markers \in Seq(Segment) /\ markers # <<>>
      /\ markers[Len(markers)] = Bare("EOI", cursor - 2)
  BY InMotion DEF CursorInv, ScanTypeInv
<1>2. Accounted = cursor
  BY DEF Accounted, InEntropy
<1>3. Last(markers) = Bare("EOI", cursor - 2)
  BY <1>1 DEF Last
<1>4. Last(markers).code = "EOI" /\ Extent(Last(markers)) = (cursor - 1)..cursor
  BY <1>1, <1>3 DEF Bare, Marker, Extent
<1> QED
  BY <1>1, <1>2, <1>4 DEF EveryByteIsReadOnce, CoverInv, Extents

\* Entropy-coded data is data.
LEMMA CompleteIsOpaque ==
    ASSUME ScanInv, point = "EndOfImage"
    PROVE  EntropyIsOpaque
<1>1. /\ ScanTypeInv /\ OpaqueInv /\ file \in Seq(FileBytes) /\ Len(file) \in Nat /\ ~InEntropy
  BY InMotion DEF InEntropy
<1>2. ASSUME NEW x \in EntropyExtents
      PROVE  /\ \A p \in x : file[p] = "FF" =>
                   Behind(p) \in x /\ file[Behind(p)] \in {"00", "RST"}
             /\ x # {} => \E p \in 1..Len(file) : p - 1 \in x /\ p \notin x
             /\ \A p \in 1..Len(file) : p - 1 \in x /\ p \notin x =>
                   file[p] = "FF" /\ file[Behind(p)] \notin {"00", "RST"}
  <2>1. PICK i \in DOMAIN entropyCodedDataRanges : x = Extent(entropyCodedDataRanges[i])
    BY DEF EntropyExtents
  <2> DEFINE RangeSet == [offset : Nat, length : Nat]
             r == entropyCodedDataRanges[i]
             end == r.offset + r.length
  <2>2. r \in RangeSet
    <3>1. entropyCodedDataRanges \in Seq(RangeSet)
      BY <1>1 DEF ScanTypeInv
    <3> HIDE DEF RangeSet
    <3> QED
      BY <2>1, <3>1
  <2>3. r.offset \in Nat /\ end \in Nat /\ r.offset <= end /\ x = (r.offset + 1)..end
    BY <2>1, <2>2 DEF Extent
  <2>4. OpaqueRange(file, r)
    BY <1>1, <2>1 DEF OpaqueInv
  <2>5. /\ Stuffed(file, r.offset + 1, end) /\ end < Len(file) /\ file[end + 1] = "FF"
        /\ \E q \in 1..Len(file) : RunEnds(file, end + 1, q) /\ file[q] \notin {"00", "RST"}
    BY <2>4 DEF OpaqueRange
  <2> HIDE DEF r, end
  <2>6. ASSUME NEW p \in x, file[p] = "FF"
        PROVE  Behind(p) \in x /\ file[Behind(p)] \in {"00", "RST"}
    <3>1. PICK q \in x : RunEnds(file, p, q) /\ file[q] \in {"00", "RST"}
      BY <2>3, <2>5, <2>6 DEF Stuffed
    <3>2. p \in Nat
      BY <2>3
    <3>3. Behind(p) = q
      BY <1>1, <3>1, <3>2, BehindIsEnd
    <3> QED
      BY <3>1, <3>3
  <2>7. x # {} => \E p \in 1..Len(file) : p - 1 \in x /\ p \notin x
    <3> SUFFICES ASSUME x # {} PROVE end + 1 \in 1..Len(file) /\ (end + 1) - 1 \in x /\ end + 1 \notin x
      OBVIOUS
    <3> QED
      BY <1>1, <2>3, <2>5
  <2>8. ASSUME NEW p \in 1..Len(file), p - 1 \in x, p \notin x
        PROVE  file[p] = "FF" /\ file[Behind(p)] \notin {"00", "RST"}
    <3>1. p = end + 1
      BY <2>3, <2>8
    <3>2. PICK q \in 1..Len(file) : RunEnds(file, p, q) /\ file[q] \notin {"00", "RST"}
      BY <2>5, <3>1
    <3>3. Behind(p) = q
      BY <1>1, <3>2, BehindIsEnd
    <3> QED
      BY <2>5, <3>1, <3>2, <3>3
  <2> QED
    BY <2>6, <2>7, <2>8
<1>3. ASSUME NEW x \in EntropyExtents, x # {},
             NEW after, after = CHOOSE p \in 1..Len(file) : p - 1 \in x /\ p \notin x
      PROVE  file[after] = "FF" /\ file[Behind(after)] \notin {"00", "RST"}
  <2>1. after \in 1..Len(file) /\ after - 1 \in x /\ after \notin x
    BY <1>2, <1>3
  <2> QED
    BY <1>2, <2>1
<1>4. \A i \in DOMAIN markers :
         markers[i].code = "RST" => \E x \in EntropyExtents : Extent(markers[i]) \subseteq x
  BY <1>1 DEF OpaqueInv
<1> QED
  BY <1>2, <1>3, <1>4 DEF EntropyIsOpaque

\* The scans follow the frame.
LEMMA CompleteIsOrdered ==
    ASSUME ScanInv, point = "EndOfImage", ImageIsComplete
    PROVE  ScansFollowTheFrame
<1>1. /\ OrderInv /\ ~InEntropy /\ scanCount > 0 /\ codingProcess # "None"
  BY InMotion DEF InEntropy, ImageIsComplete, ScanTypeInv
<1>2. /\ scanCount = Cardinality(Positions(markers, {"SOS"}))
      /\ \E frame \in Positions(markers, SupportedFrames) :
            /\ Positions(markers, SupportedFrames) = {frame}
            /\ \A scan \in Positions(markers, {"SOS"}) : frame < scan
      /\ ScanEnds(markers) =
            {entropyCodedDataRanges[i].offset : i \in DOMAIN entropyCodedDataRanges}
      /\ IsProgressive => scanCount <= Limits.progressiveScanCount
  BY <1>1 DEF OrderInv
<1> QED
  BY <1>1, <1>2 DEF ScansFollowTheFrame, Positions, ScanEnds

\* EntropyIsOpaque as a property of the bytes f, the markers ms and the extents es.
EndOfRun(f, p) == CHOOSE q \in p..Len(f) : f[q] # "FF" /\ \A k \in p..(q - 1) : f[k] = "FF"
OpaqueBytes(f, ms, es) ==
    /\ \A r \in es :
          /\ \A p \in r : f[p] = "FF" =>
                EndOfRun(f, p) \in r /\ f[EndOfRun(f, p)] \in {"00", "RST"}
          /\ LET after == CHOOSE p \in 1..Len(f) : p - 1 \in r /\ p \notin r IN
             r # {} => f[after] = "FF" /\ f[EndOfRun(f, after)] \notin {"00", "RST"}
    /\ \A i \in DOMAIN ms : ms[i].code = "RST" => \E r \in es : Extent(ms[i]) \subseteq r

\* What is true of the inventory stays true when it is returned.
LEMMA ExactStays ==
    ASSUME UNCHANGED <<scenario, file, cursor, markers, entropyCodedDataRanges, codingProcess,
                       scanCount>>
    PROVE  /\ EveryByteIsReadOnce => EveryByteIsReadOnce'
           /\ EntropyIsOpaque => EntropyIsOpaque'
           /\ ScansFollowTheFrame => ScansFollowTheFrame'
<1>1. SegmentExtents' = SegmentExtents /\ EntropyExtents' = EntropyExtents
  BY DEF SegmentExtents, EntropyExtents, Extent
<1>2. EveryByteIsReadOnce => EveryByteIsReadOnce'
  BY <1>1 DEF EveryByteIsReadOnce, Extent
<1>3. EntropyIsOpaque <=> OpaqueBytes(file, markers, EntropyExtents)
  BY Zenon DEF EntropyIsOpaque, OpaqueBytes, Behind, EndOfRun
<1>4. (EntropyIsOpaque <=> OpaqueBytes(file, markers, EntropyExtents))'
  BY Zenon DEF EntropyIsOpaque, OpaqueBytes, Behind, EndOfRun
<1>5. EntropyIsOpaque => EntropyIsOpaque'
  BY <1>1, <1>3, <1>4
<1>6. ScansFollowTheFrame => ScansFollowTheFrame'
  BY DEF ScansFollowTheFrame, IsProgressive, Limits
<1> QED
  BY <1>2, <1>5, <1>6

\* What the classification of JUMBF boxes can report.
LEMMA JumbfErrors ==
    JumbfClassification \in {"MalformedImageMetadata", "ContentCredentialsWouldBeInvalidated",
                             "UnsupportedJumbfMetadata", "None"}
  BY Zenon DEF JumbfClassification

\* The envelopes are checked and the inventory is returned.
LEMMA EndOfImageStep ==
    ASSUME ScanInv, EndOfImage
    PROVE  ScanInv'
<1>0. point = "EndOfImage" /\ point # "Done"
  BY DEF EndOfImage
<1>1. CASE Malformed \/ Refuse("MalformedImageMetadata")
  BY <1>0, <1>1, RefusesBefore DEF Malformed
<1>2. CASE JumbfClassification # "None" /\ Refuse(JumbfClassification)
  <2>1. JumbfClassification \notin {"None", "Success", "MetadataLengthLimitExceeded"}
    BY <1>2, JumbfErrors
  <2> QED
    BY <1>0, <1>2, <2>1, RefusesBefore
<1>3. CASE /\ ImageIsComplete /\ result' = "Success" /\ point' = "Done"
           /\ UNCHANGED <<input, file, cursor, markerFillOffset, markerCode, markerOffset,
                          entropyCodedDataOffset, inventory>>
  <2>1. /\ ScanTypeInv /\ CursorInv /\ file \in Seq(FileBytes) /\ Len(file) \in Nat
        /\ metadataEncodedLengthBytes = MetadataLength
        /\ MetadataLength <= Limits.metadataLength
    BY <1>0, InMotion
  <2>2. UNCHANGED <<scenario, length, file, cursor, markers, entropyCodedDataRanges,
                    codingProcess, scanCount, metadataEncodedLengthBytes, markerFillOffset,
                    markerCode, markerOffset, entropyCodedDataOffset>>
    BY <1>3 DEF input, inventory
  <2>3. FileBytes' = FileBytes /\ Segment' = Segment /\ Limits' = Limits
    BY <2>2, SameInput
  <2>4. ScanTypeInv'
    BY <1>3, <2>1, <2>2, <2>3 DEF ScanTypeInv
  <2>5. CursorInv'
    BY <1>3, <2>1, <2>2 DEF CursorInv, InEntropy
  <2>6. EveryByteIsReadOnce' /\ EntropyIsOpaque' /\ ScansFollowTheFrame'
    BY <1>0, <1>3, <2>2, CompleteIsReadOnce, CompleteIsOpaque, CompleteIsOrdered, ExactStays
  <2>7. MetadataLength' = MetadataLength
    BY <2>2, MetadataKept
  <2>8. InventoryIsExact'
    BY <1>3, <2>1, <2>2, <2>3, <2>6, <2>7 DEF InventoryIsExact
  <2> QED
    BY <1>3, <2>4, <2>5, <2>8 DEF ScanInv
<1>4. \/ Malformed \/ Refuse("MalformedImageMetadata")
      \/ JumbfClassification # "None" /\ Refuse(JumbfClassification)
      \/ /\ ImageIsComplete /\ result' = "Success" /\ point' = "Done"
         /\ UNCHANGED <<input, file, cursor, markerFillOffset, markerCode, markerOffset,
                        entropyCodedDataOffset, inventory>>
  BY Zenon DEF EndOfImage
<1> QED
  BY <1>1, <1>2, <1>3, <1>4

-----------------------------------------------------------------------------
(* The theorems *)

\* Nothing has been read.
LEMMA ScanBegins ==
    ASSUME Init
    PROVE  ScanInv
<1>1. /\ scenario \in DOMAIN Scenarios /\ length \in Nat
  BY ScenariosAssumption DEF Init
<1>2. /\ file = <<>> /\ point = "Begin" /\ cursor = 0 /\ markerFillOffset = 0
      /\ markerOffset = 0 /\ markers = <<>> /\ entropyCodedDataOffset = 0
      /\ entropyCodedDataRanges = <<>> /\ codingProcess = "None" /\ scanCount = 0
      /\ metadataEncodedLengthBytes = 0 /\ result = "None"
  BY DEF Init
<1>3. ScanTypeInv
  BY <1>1, <1>2 DEF ScanTypeInv
<1>4. CursorInv
  BY <1>2 DEF CursorInv, InEntropy
<1>5. /\ Extents = {} /\ Accounted = 0 /\ ~InEntropy
      /\ Positions(markers, {"SOS"}) = {} /\ Positions(markers, SupportedFrames) = {}
  BY <1>2 DEF Extents, SegmentExtents, EntropyExtents, Accounted, InEntropy, Positions
<1>6. CoverInv
  BY <1>5 DEF CoverInv
<1>7. OpaqueInv
  BY <1>2, <1>5 DEF OpaqueInv
<1>8. OrderInv
  <2>1. ScanEnds(markers) = {}
    BY <1>5 DEF ScanEnds
  <2>2. scanCount = Cardinality(Positions(markers, {"SOS"}))
    BY <1>2, <1>5, FS_EmptySet
  <2> QED
    BY <1>2, <1>5, <2>1, <2>2 DEF OrderInv, IsProgressive
<1>9. MetadataLength = 0
  <2>1. MetadataBytes = {}
    BY <1>2 DEF MetadataBytes
  <2> QED
    BY <2>1, FS_EmptySet DEF MetadataLength
<1>10. Limits.metadataLength \in Nat
  BY <1>1, ScenarioFacts
<1>11. InventoryIsExact
  BY <1>2, <1>9, <1>10 DEF InventoryIsExact
<1> QED
  BY <1>3, <1>4, <1>6, <1>7, <1>8, <1>11 DEF ScanInv

\* Nothing is read.
LEMMA ScanStutters ==
    ASSUME ScanInv, UNCHANGED vars
    PROVE  ScanInv'
<1>1. /\ ScanTypeInv /\ CursorInv /\ InventoryIsExact
      /\ point # "Done" => CoverInv /\ OpaqueInv /\ OrderInv
      /\ file \in Seq(FileBytes) /\ Len(file) \in Nat
  BY DEF ScanInv, ScanTypeInv
<1>2. UNCHANGED <<scenario, length, file, point, cursor, markerFillOffset, markerCode,
                  markerOffset, entropyCodedDataOffset, markers, entropyCodedDataRanges,
                  codingProcess, scanCount, metadataEncodedLengthBytes, result>>
  BY DEF vars, inventory
<1>3. FileBytes' = FileBytes /\ Segment' = Segment /\ Limits' = Limits
  BY <1>2, SameInput
<1>4. FileGrows /\ (InEntropy' <=> InEntropy) /\ EntropyEnd' = EntropyEnd
      /\ Accounted' = Accounted
  BY <1>1, <1>2, SameFileGrows DEF InEntropy, EntropyEnd, Accounted
<1>5. ScanTypeInv'
  BY <1>1, <1>2, <1>3 DEF ScanTypeInv
<1>6. CursorInv'
  BY <1>1, <1>2, <1>4 DEF CursorInv, Bare, Marker, Opaque
<1>7. CoverInv => CoverInv'
  BY <1>2, <1>4 DEF CoverInv, Extents, SegmentExtents, EntropyExtents, Extent
<1>8. OpaqueInv => OpaqueInv'
  BY <1>2, <1>4 DEF OpaqueInv, EntropyExtents, Extent
<1>9. OrderInv => OrderInv'
  BY <1>2, <1>4, OrderKept
<1>10. InventoryIsExact'
  <2>1. MetadataLength' = MetadataLength
    BY <1>2, MetadataKept
  <2>2. /\ EveryByteIsReadOnce => EveryByteIsReadOnce'
        /\ EntropyIsOpaque => EntropyIsOpaque'
        /\ ScansFollowTheFrame => ScansFollowTheFrame'
    BY <1>2, ExactStays
  <2> QED
    BY <1>1, <1>2, <1>3, <2>1, <2>2 DEF InventoryIsExact
<1> QED
  BY <1>1, <1>2, <1>5, <1>6, <1>7, <1>8, <1>9, <1>10 DEF ScanInv

\* The inductive invariant of scan(): where the cursor can be, what the inventory
\* accounts for and what the data behind the latest scan header consists of, for
\* files of every length and every limit.
THEOREM ScanInvariant == Spec => []ScanInv
<1>1. Init => ScanInv
  BY ScanBegins
<1>2. ScanInv /\ [Next]_vars => ScanInv'
  BY BeginStep, EndOfBytesStep, EntropyByteStep, EntropyCodeStep, PrefixStep, CodeStep,
     BodyStep, EndOfImageStep, ScanStutters DEF Next
<1> QED
  BY <1>1, <1>2, PTL DEF Spec

\* The inventory of a scan that succeeds is what is in the file, byte for byte,
\* and the metadata limit is exact (scan(), JpegSegmentScanner.cpp:810-1102): for
\* files of every length, whatever their segments, fill, stuffing and restart
\* markers.
THEOREM InventoryExact == Spec => []InventoryIsExact
<1>1. ScanInv => InventoryIsExact
  BY DEF ScanInv
<1> QED
  BY <1>1, ScanInvariant, PTL

\* A step that goes on reads a new byte or gets further among those it has read.
LEMMA StepAdvances ==
    ASSUME ScanInv, Next
    PROVE  \/ point' = "Done"
           \/ Len(file') > Len(file)
           \/ file' = file /\ cursor' > cursor
<1> SUFFICES ASSUME point' # "Done"
             PROVE  Len(file') > Len(file) \/ (file' = file /\ cursor' > cursor)
  OBVIOUS
<1>1. point # "Done"
  BY DEF Next, Begin, EndOfBytes, ReadEntropyByte, ReadEntropyCode, ReadPrefix, ReadCode,
         ReadBody, EndOfImage
<1>2. /\ ScanTypeInv /\ CursorInv /\ file \in Seq(FileBytes) /\ Len(file) \in Nat
      /\ cursor \in Nat /\ cursor <= Len(file)
  BY <1>1, InMotion DEF CursorInv, ScanTypeInv
<1>3. ASSUME NEW b, NEW choices, choices \subseteq FileBytes, Byte(b, choices)
      PROVE  (cursor = Len(file) /\ Len(file') > Len(file)) \/ file' = file
  BY <1>2, <1>3, ByteRead
<1>4. CASE Begin
  <2>1. file = <<>> /\ file' = <<"FF", "SOI">>
    BY <1>2, <1>4 DEF Begin, CursorInv, Refuse, Malformed
  <2> QED
    BY <2>1
<1>5. CASE ReadEntropyByte
  BY <1>2, <1>3, <1>5, ByteChoices DEF ReadEntropyByte
<1>6. CASE ReadEntropyCode
  <2>1. cursor = Len(file)
    BY <1>2, <1>6 DEF ReadEntropyCode, CursorInv, InEntropy
  <2>2. PICK b \in Codes : Byte(b, Codes)
    BY <1>6 DEF ReadEntropyCode
  <2>3. Len(file') = cursor + 1
    BY <1>2, <2>1, <2>2, ByteRead, ByteChoices
  <2> QED
    BY <1>2, <2>1, <2>3
<1>7. CASE ReadPrefix
  BY <1>2, <1>3, <1>7, ByteChoices DEF ReadPrefix, MalformedReading, RefuseReading
<1>8. CASE ReadCode
  BY <1>2, <1>3, <1>8, ByteChoices DEF ReadCode, MalformedReading, RefuseReading
<1>9. CASE ReadBody
  <2>1. PICK body \in Bodies(markerCode) :
          file' = file \o <<"Length", "Length">> \o PayloadBytes(body.length)
    BY <1>9 DEF ReadBody, Malformed, Refuse
  <2>2. body.length \in Nat
    BY <1>2, <1>9, <2>1, ScenarioFacts DEF ScanTypeInv, CursorInv, ReadBody
  <2>3. Len(file') = Len(file) + 2 + body.length
    BY <1>2, <2>1, <2>2, BodyRead, Zenon
  <2> QED
    BY <1>2, <2>2, <2>3
<1>10. ~EndOfBytes /\ ~EndOfImage
  BY DEF EndOfBytes, EndOfImage, Malformed, Refuse
<1> QED
  BY <1>4, <1>5, <1>6, <1>7, <1>8, <1>9, <1>10 DEF Next

\* The scan makes progress with every step, although its cursor moves back at the
\* end of entropy-coded data (scan(), JpegSegmentScanner.cpp:858): a step that does
\* not end it reads a byte for the first time or gets further among the read ones.
THEOREM ScanMakesProgress == Spec => ScanAdvances
<1>1. ScanInv /\ [Next]_vars =>
        [\/ point' = "Done"
         \/ Len(file') > Len(file)
         \/ file' = file /\ cursor' > cursor]_vars
  BY StepAdvances
<1> QED
  BY <1>1, ScanInvariant, PTL DEF Spec, ScanAdvances

-----------------------------------------------------------------------------
(* The bounds of the file *)

\* Nothing is read, and no offset kept, beyond the file's length.
BoundsInv ==
    /\ length \in Scenarios[scenario].lengths /\ Len(file) <= length
    /\ markerOffset <= Len(file) /\ markerFillOffset <= Len(file)
    /\ entropyCodedDataOffset <= Len(file)

\* A byte that is read lies within the file.
LEMMA ByteWithinBounds ==
    ASSUME ScanInv, BoundsInv, point # "Done", ~AtEnd, NEW b, NEW choices,
           choices \subseteq FileBytes, Byte(b, choices)
    PROVE  /\ length \in Nat /\ cursor \in Nat /\ cursor <= Len(file) /\ Len(file) \in Nat
           /\ Len(file') \in Nat
           /\ Len(file) <= Len(file') /\ cursor + 1 <= Len(file') /\ Len(file') <= length
<1>1. /\ file \in Seq(FileBytes) /\ length \in Nat /\ cursor \in Nat /\ cursor <= Len(file)
      /\ Len(file) \in Nat
  BY InMotion DEF ScanTypeInv, CursorInv
<1>2. /\ FileGrows /\ cursor + 1 <= Len(file')
      /\ cursor < Len(file) => file' = file
      /\ cursor = Len(file) => Len(file') = cursor + 1
  BY <1>1, ByteRead
<1> QED
  BY <1>1, <1>2 DEF FileGrows, BoundsInv, AtEnd

\* What a step that moves the cursor by one keeps.
LEMMA BoundsKept ==
    ASSUME BoundsInv, input' = input, markerOffset \in Nat, markerFillOffset \in Nat,
           entropyCodedDataOffset \in Nat, Len(file) \in Nat, Len(file') \in Nat,
           Len(file) <= Len(file'), Len(file') <= length, length \in Nat,
           markerOffset' \in {markerOffset, cursor - 1}, cursor \in Nat, cursor <= Len(file),
           markerFillOffset' \in {markerFillOffset, cursor},
           entropyCodedDataOffset' = entropyCodedDataOffset
    PROVE  BoundsInv'
  BY DEF BoundsInv, input

\* Every step stays within the file.
LEMMA BoundsStay ==
    ASSUME ScanInv, BoundsInv, [Next]_vars
    PROVE  BoundsInv'
<1>1. CASE UNCHANGED vars
  BY <1>1 DEF vars, BoundsInv
<1>2. ASSUME Next PROVE BoundsInv'
  <2>1. point # "Done"
    BY <1>2 DEF Next, Begin, EndOfBytes, ReadEntropyByte, ReadEntropyCode, ReadPrefix, ReadCode,
                ReadBody, EndOfImage
  <2>2. /\ ScanTypeInv /\ CursorInv /\ file \in Seq(FileBytes) /\ Len(file) \in Nat
        /\ cursor \in Nat /\ cursor <= Len(file) /\ length \in Nat
        /\ markerOffset \in Nat /\ markerFillOffset \in Nat /\ entropyCodedDataOffset \in Nat
    BY <2>1, InMotion DEF ScanTypeInv, CursorInv
  <2>3. ASSUME NEW code, Refuse(code) PROVE BoundsInv'
    BY <2>3 DEF Refuse, BoundsInv, input
  <2>4. CASE Begin
    <3>1. CASE Refuse("EncodedFileTooLarge") \/ Malformed
      BY <2>3, <3>1 DEF Malformed
    <3>2. CASE /\ length >= 2 /\ file' = <<"FF", "SOI">>
               /\ UNCHANGED <<input, markerFillOffset, markerOffset, entropyCodedDataOffset>>
      <4>1. Len(file) = 0 /\ Len(file') = 2
        BY <2>2, <2>4, <3>2 DEF Begin, CursorInv
      <4> QED
        BY <2>2, <3>2, <4>1 DEF BoundsInv, input
    <3> QED
      BY <2>2, <2>4, <3>1, <3>2 DEF Begin
  <2>5. CASE EndOfBytes \/ EndOfImage
    <3>1. UNCHANGED <<input, file, markerOffset, markerFillOffset, entropyCodedDataOffset>>
      BY <2>5, Zenon DEF EndOfBytes, EndOfImage, Malformed, Refuse
    <3> QED
      BY <3>1 DEF BoundsInv, input
  <2>6. ASSUME NEW b, NEW choices, choices \subseteq FileBytes, Byte(b, choices), ~AtEnd,
               input' = input, markerOffset' \in {markerOffset, cursor - 1},
               markerFillOffset' \in {markerFillOffset, cursor},
               entropyCodedDataOffset' = entropyCodedDataOffset
        PROVE  BoundsInv'
    <3>1. Len(file') \in Nat /\ Len(file) <= Len(file') /\ Len(file') <= length
      BY <2>1, <2>6, ByteWithinBounds
    <3> QED
      BY <2>2, <2>6, <3>1, BoundsKept
  <2>7. CASE ReadEntropyByte
    <3>1. PICK b \in PlainBytes :
            /\ Byte(b, PlainBytes) /\ ~AtEnd /\ input' = input /\ markerOffset' = markerOffset
            /\ markerFillOffset' \in {markerFillOffset, cursor}
            /\ entropyCodedDataOffset' = entropyCodedDataOffset
      BY <2>7 DEF ReadEntropyByte, Moved
    <3> QED
      BY <2>6, <3>1, ByteChoices
  <2>8. CASE ReadEntropyCode
    <3>1. PICK b \in Codes :
            /\ Byte(b, Codes) /\ ~AtEnd /\ input' = input /\ markerOffset' = markerOffset
            /\ markerFillOffset' = markerFillOffset
            /\ entropyCodedDataOffset' = entropyCodedDataOffset
      BY <2>8 DEF ReadEntropyCode, LeaveEntropy, Moved
    <3> QED
      BY <2>6, <3>1, ByteChoices
  <2>9. CASE ReadPrefix
    <3>1. PICK b \in PlainBytes :
            /\ Byte(b, PlainBytes) /\ ~AtEnd /\ input' = input /\ markerOffset' = markerOffset
            /\ markerFillOffset' = markerFillOffset
            /\ entropyCodedDataOffset' = entropyCodedDataOffset
      BY <2>9 DEF ReadPrefix, Moved, MalformedReading, RefuseReading
    <3> QED
      BY <2>6, <3>1, ByteChoices
  <2>10. CASE ReadCode
    <3>1. PICK b \in Codes :
            /\ Byte(b, Codes) /\ ~AtEnd /\ input' = input
            /\ markerOffset' \in {markerOffset, cursor - 1}
            /\ markerFillOffset' = markerFillOffset
            /\ entropyCodedDataOffset' = entropyCodedDataOffset
      BY <2>10 DEF ReadCode, Moved, MalformedReading, RefuseReading
    <3> QED
      BY <2>6, <3>1, ByteChoices
  <2>11. CASE ReadBody
    <3>1. CASE Malformed
      BY <2>3, <3>1 DEF Malformed
    <3>2. ASSUME NEW body \in Bodies(markerCode), ~(body.length + 2 > length - cursor),
                 file' = file \o <<"Length", "Length">> \o PayloadBytes(body.length),
                 TakeSegment(body)
          PROVE  BoundsInv'
      <4>1. body.length \in Nat /\ cursor = Len(file) /\ cursor = markerOffset + 2
        BY <2>2, <2>11, ScenarioFacts DEF ScanTypeInv, CursorInv, ReadBody
      <4>2. Len(file') = Len(file) + 2 + body.length
        BY <2>2, <3>2, <4>1, BodyRead, Zenon
      <4>3. Len(file') \in Nat /\ Len(file) <= Len(file') /\ Len(file') <= length
            /\ markerOffset + (4 + body.length) = Len(file')
        <5>1. ~(body.length + 2 > length - (markerOffset + 2)) /\ Len(file) = markerOffset + 2
          BY <3>2, <4>1
        <5>2. \A o, n, l \in Nat : ~(n + 2 > l - (o + 2)) =>
                /\ (o + 2) + 2 + n \in Nat /\ o + 2 <= (o + 2) + 2 + n
                /\ (o + 2) + 2 + n <= l /\ o + (4 + n) = (o + 2) + 2 + n
          OBVIOUS
        <5>3. /\ (markerOffset + 2) + 2 + body.length \in Nat
              /\ markerOffset + 2 <= (markerOffset + 2) + 2 + body.length
              /\ (markerOffset + 2) + 2 + body.length <= length
              /\ markerOffset + (4 + body.length) = (markerOffset + 2) + 2 + body.length
          BY <2>2, <4>1, <5>1, <5>2, Zenon
        <5>4. Len(file') = (markerOffset + 2) + 2 + body.length
          BY <4>2, <5>1, Zenon
        <5> QED
          BY <5>1, <5>3, <5>4, Zenon
      <4>4. /\ input' = input /\ markerOffset' = markerOffset
            /\ markerFillOffset' = markerFillOffset
            /\ entropyCodedDataOffset' \in
                 {entropyCodedDataOffset, markerOffset + (4 + body.length)}
        BY <3>2 DEF TakeSegment, RefuseReading, EntropyOffset, NextCursor
      <4> QED
        BY <2>2, <4>3, <4>4 DEF BoundsInv, input
    <3> QED
      BY <2>11, <3>1, <3>2 DEF ReadBody
  <2> QED
    BY <1>2, <2>4, <2>5, <2>7, <2>8, <2>9, <2>10, <2>11 DEF Next
<1> QED
  BY <1>1, <1>2

\* The scan reads within the file it was given, keeps no offset beyond what it
\* read and stays within the metadata limit (the bounds checks of scan() and of
\* its length fields, JpegSegmentScanner.cpp:810-1102).
THEOREM ScanStaysInBounds == Spec => []TypeOK
<1>1. Init => BoundsInv
  BY ScenariosAssumption DEF Init, BoundsInv
<1>2. ScanInv /\ BoundsInv /\ [Next]_vars => BoundsInv'
  BY BoundsStay
<1>3. ScanInv /\ BoundsInv => TypeOK
  <2> SUFFICES ASSUME ScanInv, BoundsInv PROVE TypeOK
    OBVIOUS
  <2>1. /\ ScanTypeInv /\ CursorInv /\ metadataEncodedLengthBytes = MetadataLength
        /\ MetadataLength <= Limits.metadataLength /\ MetadataLength \in Nat
        /\ Limits.metadataLength \in Nat /\ Len(file) \in Nat
    BY MetadataIsNat, ScenarioFacts DEF ScanInv, InventoryIsExact, ScanTypeInv
  <2> QED
    BY <2>1 DEF TypeOK, BoundsInv, ScanTypeInv, CursorInv
<1> QED
  BY <1>1, <1>2, <1>3, ScanInvariant, PTL DEF Spec
=============================================================================
