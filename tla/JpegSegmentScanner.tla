------------------------ MODULE JpegSegmentScanner ------------------------
(***************************************************************************)
(* JpegSegmentScanner::scan, one step per turn of its loops, over a file    *)
(* whose bytes are chosen when the scan first reads them.                   *)
(*                                                                         *)
(* A byte is "FF", "00", a marker code where a code is read, or "Data" for  *)
(* any other.  Offsets and lengths are the real ones.  The payload of a     *)
(* segment is its body, the record of what the code reads out of it; its    *)
(* bytes alternate between "FF" and "EOI", as an embedded thumbnail's may.  *)
(* SOF1 and SOF2 stand for the Huffman and the arithmetic variant of their  *)
(* process, SOF3 for every unsupported one, Opaque for every payload the    *)
(* scan only locates, Exif and standard XMP included.                       *)
(* The overflow checks of the scan and packet counters at 2^32 - 1 are left *)
(* out: no file within maximumEncodedFileLengthBytes reaches them.          *)
(***************************************************************************)
EXTENDS Integers, Sequences, FiniteSets, SequencesExt

CONSTANTS
    Scenarios    \* by name: the file lengths, the bytes that are not read as codes, the
                 \* codes without a length, for every other code the bodies its segment
                 \* may have, and the resource limits

ASSUME ScenariosAssumption ==
    \A name \in DOMAIN Scenarios :
        LET limits == Scenarios[name].limits IN
        /\ Scenarios[name].lengths \subseteq Nat
        /\ Scenarios[name].bytes \subseteq {"FF", "Data"}
        /\ Scenarios[name].standalone \subseteq {"00", "FF", "SOI", "EOI", "RST", "TEM"}
        /\ {limits.encodedFileLength, limits.pixelCount, limits.metadataLength,
            limits.progressiveScanCount} \subseteq Nat
        /\ \A code \in DOMAIN Scenarios[name].bodies :
              \A body \in Scenarios[name].bodies[code] : body.length \in Nat

VARIABLES
    scenario, length, file,       \* the file's length, and its bytes read so far
    point,                        \* where scan() is
    cursor, markerFillOffset, markerCode, markerOffset,
    markers, entropyCodedDataOffset, entropyCodedDataRanges,
    codingProcess,                \* of the frame header; "None" before it
    scanCount, metadataEncodedLengthBytes,
    chunks,                       \* of a finished scan: the ordered ICC and XMP chunks
    result

input == <<scenario, length>>
inventory == <<markers, entropyCodedDataRanges, codingProcess, scanCount,
               metadataEncodedLengthBytes>>
vars == <<scenario, length, file, point, cursor, markerFillOffset, markerCode, markerOffset,
          entropyCodedDataOffset, inventory, chunks, result>>

Codes == DOMAIN Scenarios[scenario].bodies \cup Scenarios[scenario].standalone
PlainBytes == Scenarios[scenario].bytes
Limits == Scenarios[scenario].limits
Bodies(code) == Scenarios[scenario].bodies[code]
MetadataMarkers == {"APP1", "APP2", "APP11", "COM"}
SupportedFrames == {"SOF0", "SOF1", "SOF2"}
UnsupportedFrames == {"SOF3"}
CodingProcessFor(code) ==
    CASE code = "SOF0" -> "Baseline" [] code = "SOF1" -> "Extended"
      [] code = "SOF2" -> "Progressive"
IsProgressive == codingProcess = "Progressive"

Init ==
    /\ scenario \in DOMAIN Scenarios
    /\ length \in Scenarios[scenario].lengths
    /\ file = <<>> /\ point = "Begin"
    /\ cursor = 0 /\ markerFillOffset = 0 /\ markerCode = "None" /\ markerOffset = 0
    /\ markers = <<>> /\ entropyCodedDataOffset = 0 /\ entropyCodedDataRanges = <<>>
    /\ codingProcess = "None" /\ scanCount = 0 /\ metadataEncodedLengthBytes = 0
    /\ chunks = [icc |-> <<>>, xmp |-> <<>>]
    /\ result = "None"

-----------------------------------------------------------------------------
(* Reading *)

AtEnd == cursor >= length

\* The byte at the cursor is b: the one read before, or any of choices.
Byte(b, choices) ==
    IF cursor < Len(file) THEN b = file[cursor + 1] /\ file' = file
    ELSE b \in choices /\ file' = Append(file, b)

Refuse(code) ==
    /\ result' = code /\ point' = "Done"
    /\ UNCHANGED <<input, file, cursor, markerFillOffset, markerCode, markerOffset,
                   entropyCodedDataOffset, inventory, chunks>>

RefuseReading(code) ==
    /\ result' = code /\ point' = "Done"
    /\ UNCHANGED <<input, cursor, markerFillOffset, markerCode, markerOffset,
                   entropyCodedDataOffset, inventory, chunks>>

Malformed == Refuse("MalformedJpegStructure")
MalformedReading == RefuseReading("MalformedJpegStructure")

Opaque(n) == [kind |-> "Opaque", length |-> n]
Marker(code, offset, size, body) ==
    [code |-> code, offset |-> offset, length |-> size, body |-> body]
Bare(code, offset) == Marker(code, offset, 2, Opaque(0))

\* The two length limits and the SOI marker.
Begin ==
    /\ point = "Begin"
    /\ IF length > Limits.encodedFileLength THEN Refuse("EncodedFileTooLarge")
       ELSE IF length < 2 THEN Malformed
       ELSE \/ Malformed     \* some other two bytes
            \/ /\ file' = <<"FF", "SOI">>
               /\ markers' = <<Bare("SOI", 0)>>
               /\ cursor' = 2 /\ point' = "Segment"
               /\ UNCHANGED <<input, markerFillOffset, markerCode, markerOffset,
                              entropyCodedDataOffset, entropyCodedDataRanges, codingProcess,
                              scanCount, metadataEncodedLengthBytes, chunks, result>>

\* The loop ends when the bytes do, before an EOI.
EndOfBytes ==
    /\ point \in {"Segment", "SegmentCode", "Entropy", "EntropyCode"} /\ AtEnd
    /\ Malformed

Moved(to) ==
    /\ point' = to
    /\ UNCHANGED <<input, entropyCodedDataOffset, codingProcess, scanCount,
                   metadataEncodedLengthBytes, chunks, result>>

-----------------------------------------------------------------------------
(* Entropy-coded data *)

\* One byte of entropy-coded data; FF starts a fill.
ReadEntropyByte ==
    /\ point = "Entropy" /\ ~AtEnd
    /\ \E b \in PlainBytes :
          /\ Byte(b, PlainBytes)
          /\ cursor' = cursor + 1
          /\ markerFillOffset' = IF b = "FF" THEN cursor ELSE markerFillOffset
          /\ Moved(IF b = "FF" THEN "EntropyCode" ELSE "Entropy")
    /\ UNCHANGED <<markerCode, markerOffset, markers, entropyCodedDataRanges>>

\* Fill bytes are not part of the range.
EntropyRange(offset) ==
    [offset |-> entropyCodedDataOffset, length |-> markerFillOffset - entropyCodedDataOffset]

\* Mutant: the cursor returns to the fill and entropy-coded data goes on.
LeaveEntropyAtFill(offset) ==
    /\ cursor' = markerFillOffset
    /\ entropyCodedDataRanges' = Append(entropyCodedDataRanges, EntropyRange(offset))
    /\ Moved("Entropy")
    /\ UNCHANGED <<markerFillOffset, markerCode, markerOffset, markers>>

LeaveEntropy(offset) ==
    /\ cursor' = offset
    /\ entropyCodedDataRanges' = Append(entropyCodedDataRanges, EntropyRange(offset))
    /\ Moved("Segment")
    /\ UNCHANGED <<markerFillOffset, markerCode, markerOffset, markers>>

\* The byte after the fill: stuffing and restart markers stay inside the data,
\* every other code ends it and is read again as a segment's.
ReadEntropyCode ==
    /\ point = "EntropyCode" /\ ~AtEnd
    /\ \E b \in Codes :
          /\ Byte(b, Codes)
          /\ \/ /\ b \in {"FF", "00", "RST"}
                /\ cursor' = cursor + 1
                /\ markers' = IF b = "RST" THEN Append(markers, Bare(b, cursor - 1)) ELSE markers
                /\ Moved(IF b = "FF" THEN "EntropyCode" ELSE "Entropy")
                /\ UNCHANGED <<markerFillOffset, markerCode, markerOffset,
                               entropyCodedDataRanges>>
             \/ b \notin {"FF", "00", "RST"} /\ LeaveEntropy(cursor - 1)

-----------------------------------------------------------------------------
(* Segments *)

ReadPrefix ==
    /\ point = "Segment" /\ ~AtEnd
    /\ \E b \in PlainBytes :
          /\ Byte(b, PlainBytes)
          /\ IF b = "FF"
             THEN /\ cursor' = cursor + 1 /\ Moved("SegmentCode")
                  /\ UNCHANGED <<markerFillOffset, markerCode, markerOffset, markers,
                                 entropyCodedDataRanges>>
             ELSE MalformedReading

\* Fill, a marker without a length, or the code of a segment.
ReadCode ==
    /\ point = "SegmentCode" /\ ~AtEnd
    /\ \E b \in Codes :
          /\ Byte(b, Codes)
          /\ IF b \in {"00", "SOI", "RST"} THEN MalformedReading
             ELSE /\ cursor' = cursor + 1
                  /\ markers' = IF b \in {"TEM", "EOI"} THEN Append(markers, Bare(b, cursor - 1))
                                ELSE markers
                  /\ markerCode' = b /\ markerOffset' = cursor - 1
                  /\ Moved(CASE b = "FF" -> "SegmentCode" [] b = "TEM" -> "Segment"
                             [] b = "EOI" -> "EndOfImage" [] OTHER -> "Body")
                  /\ UNCHANGED <<markerFillOffset, entropyCodedDataRanges>>

PayloadBytes(n) == [i \in 1..n |-> IF i % 2 = 1 THEN "FF" ELSE "EOI"]

\* parseFrameHeader, in the order of its checks.
FrameError(header, process) ==
    LET count == Len(header.components)
        identifiers == {header.components[i].id : i \in 1..count}
    IN IF count = 0 \/ header.length # 6 + 3 * count \/ header.width = 0
       THEN "MalformedJpegStructure"
       ELSE IF header.height = 0 THEN "UnsupportedJpegDeferredHeight"
       ELSE IF header.precision \notin (IF process = "Baseline" THEN {8} ELSE {8, 12})
       THEN "UnsupportedJpegSamplePrecision"
       ELSE IF count \notin {1, 3, 4} THEN "UnsupportedJpegComponentOrganization"
       ELSE IF header.width * header.height > Limits.pixelCount
       THEN "PixelCountLimitExceeded"
       ELSE IF \/ Cardinality(identifiers) # count
               \/ \E i \in 1..count : ~(header.components[i].horizontal \in 1..4
                                        /\ header.components[i].vertical \in 1..4
                                        /\ header.components[i].table \in 0..3)
       THEN "MalformedJpegStructure" ELSE "None"

\* isValidScanHeader
ScanHeaderIsValid(header) ==
    header.length >= 4 /\ header.components # 0 /\ header.length = 4 + 2 * header.components

IccHeaderLength == 14    \* "ICC_PROFILE", sequence number and count
XmpHeaderLength == 75    \* identifier, GUID, packet length and chunk offset

MetadataFits(size) ==
    /\ metadataEncodedLengthBytes <= Limits.metadataLength
    /\ size <= Limits.metadataLength - metadataEncodedLengthBytes

\* What is wrong with a segment as such, before it is recorded.
SegmentError(body, size) ==
    IF markerCode \in MetadataMarkers /\ ~MetadataFits(size)
    THEN "MetadataLengthLimitExceeded"
    ELSE IF body.kind = "ExtendedXmp" /\ body.length < XmpHeaderLength
    THEN "MalformedImageMetadata"
    ELSE IF body.kind = "MultiPicture" THEN "MultiPictureJpegNotSupported"
    ELSE IF body.kind = "Icc" /\ body.length < IccHeaderLength
    THEN "MalformedImageMetadata" ELSE "None"

\* What is wrong with it where it stands.
PlaceError(body) ==
    IF markerCode \in SupportedFrames
    THEN IF codingProcess # "None" THEN "MalformedJpegStructure"
         ELSE FrameError(body, CodingProcessFor(markerCode))
    ELSE IF markerCode \in UnsupportedFrames THEN "UnsupportedJpegCodingProcess"
    ELSE IF markerCode = "SOS"
    THEN IF codingProcess = "None" \/ ~ScanHeaderIsValid(body) THEN "MalformedJpegStructure"
         ELSE IF IsProgressive /\ scanCount >= Limits.progressiveScanCount
         THEN "ProgressiveScanCountLimitExceeded" ELSE "None"
    ELSE "None"

\* Past the length field and the payload.
NextCursor(size) == markerOffset + size

\* Mutant: the offset is taken before the cursor moves past the scan header.
EntropyOffsetTooEarly(size) == cursor

EntropyOffset(size) == NextCursor(size)

TakeSegment(body) ==
    LET size == 4 + body.length IN
    IF SegmentError(body, size) # "None" THEN RefuseReading(SegmentError(body, size))
    ELSE IF PlaceError(body) # "None" THEN RefuseReading(PlaceError(body))
    ELSE /\ markers' = Append(markers, Marker(markerCode, markerOffset, size, body))
         /\ metadataEncodedLengthBytes' = metadataEncodedLengthBytes +
               (IF markerCode \in MetadataMarkers THEN size ELSE 0)
         /\ cursor' = NextCursor(size)
         /\ codingProcess' = IF markerCode \in SupportedFrames
                             THEN CodingProcessFor(markerCode) ELSE codingProcess
         /\ IF markerCode = "SOS"
            THEN /\ scanCount' = scanCount + 1 /\ point' = "Entropy"
                 /\ entropyCodedDataOffset' = EntropyOffset(size)
            ELSE point' = "Segment" /\ UNCHANGED <<scanCount, entropyCodedDataOffset>>
         /\ UNCHANGED <<input, markerFillOffset, markerCode, markerOffset,
                        entropyCodedDataRanges, chunks, result>>

\* The length field, which counts itself, and the payload it declares.
ReadBody ==
    /\ point = "Body"
    /\ \/ Malformed        \* no room for the field, or a declared length below 2
       \/ /\ length - cursor >= 2
          /\ \E body \in Bodies(markerCode) :
                IF body.length + 2 > length - cursor THEN Malformed
                ELSE /\ file' = file \o <<"Length", "Length">> \o PayloadBytes(body.length)
                     /\ TakeSegment(body)

-----------------------------------------------------------------------------
(* The metadata envelopes, at the end of the image *)

Segments(kind) == SelectSeq(markers, LAMBDA m : m.body.kind = kind)

\* The orders std::ranges::sort may leave s in, by a field of the chunk.
Sorted(s, field) ==
    {t \in {[i \in DOMAIN s |-> s[p[i]]] : p \in Permutations(DOMAIN s)} :
        \A i, j \in DOMAIN s : i < j => t[i].body[field] <= t[j].body[field]}

\* validateAndOrderIccProfileChunks
IccEnvelopeIsValid(s) ==
    s # <<>> =>
        /\ s[1].body.count # 0 /\ Len(s) = s[1].body.count
        /\ \A i \in DOMAIN s :
              /\ s[i].body.count = s[1].body.count
              /\ s[i].body.sequence \in 1..s[1].body.count
              /\ \A j \in DOMAIN s : s[j].body.sequence = s[i].body.sequence => j = i
        /\ \E i \in DOMAIN s : s[i].body.length > IccHeaderLength

XmpData(m) == m.body.length - XmpHeaderLength

XmpChunkFits(m, first) ==
    /\ m.body.guid = first.body.guid /\ m.body.total = first.body.total
    /\ m.body.offset <= first.body.total
    /\ XmpData(m) <= first.body.total - m.body.offset

\* Mutant: a chunk may begin before the end of the one before it.
XmpIsContiguousOrOverlaps(s) ==
    LET next[i \in 0..Len(s)] == IF i = 0 THEN 0 ELSE s[i].body.offset + XmpData(s[i])
    IN /\ \A i \in DOMAIN s : s[i].body.offset <= next[i - 1]
       /\ next[Len(s)] = s[1].body.total

\* The second half of validateAndOrderExtendedXmpChunks, after the sort.
XmpIsContiguous(s) ==
    LET next[i \in 0..Len(s)] == IF i = 0 THEN 0 ELSE next[i - 1] + XmpData(s[i])
    IN /\ \A i \in DOMAIN s : s[i].body.offset = next[i - 1]
       /\ next[Len(s)] = s[1].body.total

XmpEnvelopeIsValid(s, ordered) ==
    s # <<>> => /\ s[1].body.guid # "NotHexadecimal" /\ s[1].body.total # 0
                /\ \A i \in DOMAIN s : XmpChunkFits(s[i], s[1])
                /\ XmpIsContiguous(ordered)

EnvelopeLength == 8
BoxHeaderLength(body) == IF body.large THEN 16 ELSE 8
Identity == <<"uuid", "label">>   \* of a C2PA manifest store's description box

NoBox == [open |-> FALSE, instance |-> 0, next |-> 0, large |-> FALSE, declared |-> 0,
          rebuilt |-> 0, content |-> <<>>]

\* A fragment other than the first that continues no open box.
StrayIsMalformed(body) == body.packet # 1

\* The fragment opens a box; it continues the open one.
Opens(state, body) ==
    /\ body.packet = 1 /\ ~state.box.open /\ body.instance \notin state.seen
    /\ body.length >= EnvelopeLength + BoxHeaderLength(body)
    /\ body.declared >= BoxHeaderLength(body)

Continues(state, body) ==
    /\ body.packet # 1 /\ state.box.open
    /\ body.instance = state.box.instance /\ body.packet = state.box.next
    /\ body.large = state.box.large /\ body.declared = state.box.declared
    /\ body.length > EnvelopeLength + BoxHeaderLength(body)

\* classifyJumbfEnvelope for one marker.
Fragment(state, m) ==
    LET body == m.body
        recognised == /\ body.kind = "BoxFragment" /\ body.superbox
                      /\ body.length >= EnvelopeLength + 8
        box == IF body.packet = 1
               THEN [NoBox EXCEPT !.open = TRUE, !.instance = body.instance,
                                  !.large = body.large, !.declared = body.declared]
               ELSE state.box
        contribution == body.length - EnvelopeLength
                          - (IF body.packet = 1 THEN 0 ELSE BoxHeaderLength(body))
        grown == [box EXCEPT !.next = body.packet + 1, !.rebuilt = @ + contribution,
                             !.content = @ \o body.content]
        fails == [state EXCEPT !.malformed = TRUE]
    IN IF state.malformed THEN state
       ELSE IF ~recognised THEN IF state.box.open THEN fails ELSE state
       ELSE IF ~state.box.open /\ body.packet # 1
       THEN IF StrayIsMalformed(body) THEN fails ELSE state
       ELSE IF ~Opens(state, body) /\ ~Continues(state, body) THEN fails
       ELSE IF contribution > box.declared - box.rebuilt THEN fails
       ELSE IF grown.rebuilt = box.declared
       THEN [state EXCEPT !.box = NoBox, !.seen = @ \cup {body.instance}, !.jumbf = TRUE,
                          !.c2pa = @ \/ IsPrefix(Identity, grown.content)]
       ELSE [state EXCEPT !.box = grown, !.seen = @ \cup {body.instance}]

JumbfClassification ==
    LET start == [box |-> NoBox, seen |-> {}, malformed |-> FALSE, jumbf |-> FALSE,
                  c2pa |-> FALSE]
        end == FoldLeft(Fragment, start, markers)
    IN IF end.malformed \/ end.box.open THEN "MalformedImageMetadata"
       ELSE IF end.c2pa THEN "ContentCredentialsWouldBeInvalidated"
       ELSE IF end.jumbf THEN "UnsupportedJumbfMetadata" ELSE "None"

ImageIsComplete == codingProcess # "None" /\ scanCount # 0

EndOfImage ==
    /\ point = "EndOfImage"
    /\ \E icc \in Sorted(Segments("Icc"), "sequence"),
          xmp \in Sorted(Segments("ExtendedXmp"), "offset") :
          IF ~ImageIsComplete THEN Malformed
          ELSE IF ~IccEnvelopeIsValid(Segments("Icc"))
                  \/ ~XmpEnvelopeIsValid(Segments("ExtendedXmp"), xmp)
          THEN Refuse("MalformedImageMetadata")
          ELSE IF JumbfClassification # "None" THEN Refuse(JumbfClassification)
          ELSE /\ result' = "Success" /\ point' = "Done"
               /\ chunks' = [icc |-> icc, xmp |-> xmp]
               /\ UNCHANGED <<input, file, cursor, markerFillOffset, markerCode, markerOffset,
                              entropyCodedDataOffset, inventory>>

Next ==
    \/ Begin \/ EndOfBytes \/ ReadEntropyByte \/ ReadEntropyCode
    \/ ReadPrefix \/ ReadCode \/ ReadBody \/ EndOfImage

Spec == Init /\ [][Next]_vars

-----------------------------------------------------------------------------
(* Properties *)

TypeOK ==
    /\ scenario \in DOMAIN Scenarios /\ length \in Scenarios[scenario].lengths
    /\ point \in {"Begin", "Segment", "SegmentCode", "Body", "Entropy", "EntropyCode",
                  "EndOfImage", "Done"}
    /\ Len(file) <= length /\ cursor \in 0..Len(file)
    /\ markerOffset \in 0..Len(file) /\ markerFillOffset \in 0..Len(file)
    /\ entropyCodedDataOffset \in 0..Len(file)
    /\ codingProcess \in {"None", "Baseline", "Extended", "Progressive"}
    /\ scanCount \in Nat /\ metadataEncodedLengthBytes \in 0..Limits.metadataLength
    /\ point = "Done" <=> result # "None"

Extent(range) == (range.offset + 1)..(range.offset + range.length)
SegmentExtents == {Extent(markers[i]) : i \in {k \in DOMAIN markers : markers[k].code # "RST"}}
EntropyExtents == {Extent(entropyCodedDataRanges[i]) : i \in DOMAIN entropyCodedDataRanges}

\* Every byte up to the EOI is exactly one thing: part of one segment, of one
\* run of entropy-coded data, or a fill byte.
EveryByteIsReadOnce ==
    LET all == SegmentExtents \cup EntropyExtents IN
    /\ \A p \in all, q \in all : p # q => p \cap q = {}
    /\ \A p \in 1..cursor : p \in UNION all \/ file[p] = "FF"
    /\ Last(markers).code = "EOI" /\ Extent(Last(markers)) = (cursor - 1)..cursor

\* Where a run of FF that begins at p ends, and the byte behind it.
Behind(p) == CHOOSE q \in p..Len(file) : file[q] # "FF" /\ \A k \in p..(q - 1) : file[k] = "FF"

\* Inside an entropy-coded range every FF belongs to stuffing or to a restart
\* marker, the restart markers are all inside ranges, and the range ends where
\* the fill of the next marker begins, however many fill bytes there are.
EntropyIsOpaque ==
    /\ \A r \in EntropyExtents :
          /\ \A p \in r : file[p] = "FF" =>
                Behind(p) \in r /\ file[Behind(p)] \in {"00", "RST"}
          /\ LET after == CHOOSE p \in 1..Len(file) : p - 1 \in r /\ p \notin r IN
             r # {} => file[after] = "FF" /\ file[Behind(after)] \notin {"00", "RST"}
    /\ \A i \in DOMAIN markers :
          markers[i].code = "RST" => \E r \in EntropyExtents : Extent(markers[i]) \subseteq r

\* A finished image has one frame header, in front of all its scans; each scan
\* header is followed at once by its data, and a progressive image keeps to its limit.
ScansFollowTheFrame ==
    LET At(codes) == {i \in DOMAIN markers : markers[i].code \in codes} IN
    /\ scanCount > 0 /\ scanCount = Cardinality(At({"SOS"}))
    /\ \E frame \in At(SupportedFrames) :
          At(SupportedFrames) = {frame} /\ \A scan \in At({"SOS"}) : frame < scan
    /\ {markers[i].offset + markers[i].length : i \in At({"SOS"})} =
          {entropyCodedDataRanges[i].offset : i \in DOMAIN entropyCodedDataRanges}
    /\ IsProgressive => scanCount <= Limits.progressiveScanCount

MetadataBytes ==
    UNION {Extent(markers[i]) : i \in {k \in DOMAIN markers : markers[k].code \in MetadataMarkers}}
MetadataLength == Cardinality(MetadataBytes)

\* The inventory is what is in the file.  A scan that succeeds has read every
\* byte as one thing, whatever length field, payload, fill or backward move of
\* the cursor there was, and knows data from markers and scans from frames; and
\* the metadata limit is exact, over many segments together: nothing passes over
\* it and nothing is refused below it (scan(), JpegSegmentScanner.cpp:810-1102).
InventoryIsExact ==
    /\ result = "Success" => EveryByteIsReadOnce /\ EntropyIsOpaque /\ ScansFollowTheFrame
    /\ metadataEncodedLengthBytes = MetadataLength /\ MetadataLength <= Limits.metadataLength
    /\ result = "MetadataLengthLimitExceeded" =>
          MetadataLength + (Len(file) - markerOffset) > Limits.metadataLength

Only(kind) == \A i \in DOMAIN markers : markers[i].body.kind \in {"Opaque", "Frame", "Scan", kind}

\* An ICC profile is accepted exactly when its chunks, in whatever order they
\* stand in the file, are numbers 1 to n of n, once each and not all empty; and
\* the inventory has them in that order.
IccIsOneProfile ==
    LET s == Segments("Icc")
        whole == /\ {s[i].body.sequence : i \in DOMAIN s} = 1..Len(s)
                 /\ \A i \in DOMAIN s : s[i].body.count = Len(s)
                 /\ s # <<>> => \E i \in DOMAIN s : s[i].body.length > IccHeaderLength
    IN /\ result = "Success" =>
             /\ whole /\ {chunks.icc[i] : i \in DOMAIN chunks.icc} = {s[i] : i \in DOMAIN s}
             /\ \A i \in DOMAIN chunks.icc : chunks.icc[i].body.sequence = i
       /\ whole /\ Only("Icc") /\ markerCode = "EOI" => result # "MalformedImageMetadata"

\* Extended XMP is accepted only when every byte of one packet is there exactly
\* once ("rejects gaps, overlap", validateAndOrderExtendedXmpChunks), and a
\* packet that is whole is refused only if one of its chunks carries nothing.
XmpIsOnePacket ==
    LET s == Segments("ExtendedXmp")
        Covering(k) == {i \in DOMAIN s : k \in s[i].body.offset..(s[i].body.offset + XmpData(s[i]) - 1)}
        onePacket == \A i \in DOMAIN s : XmpChunkFits(s[i], s[1])
        whole == s # <<>> => /\ onePacket /\ s[1].body.total # 0
                             /\ s[1].body.guid # "NotHexadecimal"
                             /\ \A k \in 0..(s[1].body.total - 1) : Cardinality(Covering(k)) = 1
    IN /\ result = "Success" => whole
       /\ whole /\ Only("ExtendedXmp") /\ markerCode = "EOI" /\ result = "MalformedImageMetadata" =>
             \E i \in DOMAIN s : XmpData(s[i]) = 0

JumbfFragments == SelectSeq(markers, LAMBDA m : /\ m.body.kind = "BoxFragment" /\ m.body.superbox
                                                /\ m.body.length >= EnvelopeLength + 8)

\* "never preserve an incomplete recognized box as generic APP11 metadata": no
\* recognised JUMBF fragment is in an accepted file.
JumbfFailsClosed == result = "Success" => JumbfFragments = <<>>

\* Credentials are reported exactly for a file whose boxes are sound and one of
\* which starts, over however many fragments, with the manifest store's identity.
CredentialsAreRecognised ==
    LET s == JumbfFragments
        content(instance) ==
            FoldLeft(LAMBDA sum, m : sum \o m.body.content, <<>>,
                     SelectSeq(s, LAMBDA m : m.body.instance = instance))
        identified == \E i \in DOMAIN s : IsPrefix(Identity, content(s[i].body.instance))
    IN /\ result = "ContentCredentialsWouldBeInvalidated" => identified
       /\ result = "UnsupportedJumbfMetadata" => s # <<>> /\ ~identified

\* Chunks in any order, repeated, missing, overlapping or interrupted: an
\* envelope is accepted exactly when it is whole, and a box that is not carried
\* over is never passed on (validateAndOrderIccChunks,
\* validateAndOrderExtendedXmpChunks, the JUMBF assembly and its end of file).
EnvelopesAreWhole ==
    IccIsOneProfile /\ XmpIsOnePacket /\ JumbfFailsClosed /\ CredentialsAreRecognised

\* The scan ends, although the cursor moves back at the end of entropy-coded
\* data: a step that does not end it reads a byte for the first time or gets
\* further among those it has read, and the file has length of them.
ScanAdvances ==
    [][\/ point' = "Done"
       \/ Len(file') > Len(file)
       \/ file' = file /\ cursor' > cursor]_vars
=============================================================================
