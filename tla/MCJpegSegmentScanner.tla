----------------------- MODULE MCJpegSegmentScanner -----------------------
(***************************************************************************)
(* Files for the scanner: one scenario for the framing and one for each     *)
(* metadata envelope.                                                       *)
(***************************************************************************)
EXTENDS JpegSegmentScanner

Component(id) == [id |-> id, horizontal |-> 1, vertical |-> 1, table |-> 0]
FrameOf(components) ==
    [kind |-> "Frame", length |-> 6 + 3 * Len(components), components |-> components,
     width |-> 2, height |-> 2, precision |-> 8]
Gray == FrameOf(<<Component(1)>>)
Scan == [kind |-> "Scan", length |-> 6, components |-> 1]

\* The shortest image, SOI to EOI, with n bytes of entropy-coded data.
ImageLength(n) == 2 + (4 + Gray.length) + (4 + Scan.length) + n + 2

Image(apps) == ("SOF0" :> {Gray} @@ "SOS" :> {Scan}) @@ apps

Limited(fileLength, metadataLength) ==
    [encodedFileLength |-> fileLength, pixelCount |-> 11, metadataLength |-> metadataLength,
     progressiveScanCount |-> 2]

\* Files that differ in the segments with bodies only.
Plainly(lengths, bodies) ==
    [lengths |-> lengths, bytes |-> {"FF"}, standalone |-> {"EOI"}, bodies |-> bodies,
     limits |-> Limited(400, 300)]

Frames ==
    {Gray, [Gray EXCEPT !.length = 8], [Gray EXCEPT !.width = 0], [Gray EXCEPT !.height = 0],
     [Gray EXCEPT !.precision = 12], [Gray EXCEPT !.width = 3, !.height = 4],
     [Gray EXCEPT !.components[1].vertical = 5], FrameOf(<<>>),
     FrameOf(<<Component(1), Component(2)>>),
     FrameOf(<<Component(1), Component(2), Component(1)>>),
     FrameOf(<<Component(1), Component(2), Component(3)>>)}

\* Stuffing, restart markers and fill, in files that end anywhere.
Framing ==
    [lengths |-> {0, 1, 17, 28, 33, 35}, bytes |-> {"FF", "Data"},
     standalone |-> {"00", "FF", "SOI", "EOI", "RST"}, limits |-> Limited(34, 9),
     bodies |-> Image("COM" :> {Opaque(1)})]

\* Segments in any order, around the limit of the metadata.
Order ==
    [lengths |-> {36}, bytes |-> {"FF"}, standalone |-> {"EOI", "TEM"},
     limits |-> Limited(40, 9),
     bodies |-> Image("SOF2" :> {Gray} @@ "APP1" :> {Opaque(0), Opaque(2)}
                      @@ "COM" :> {Opaque(1)})]

Headers ==
    Plainly({ImageLength(8)},
        "SOF0" :> Frames @@ "SOF1" :> Frames @@ "SOF3" :> {Gray} @@ "DQT" :> {Opaque(2)}
                 @@ "SOS" :> {Scan, [Scan EXCEPT !.length = 5], [Scan EXCEPT !.components = 0]})

\* Two more scans than the limit of a progressive image.
Scans ==
    Plainly({ImageLength(0) + 3 * (4 + Scan.length)},
        "SOF0" :> {Gray} @@ "SOF2" :> {Gray} @@ "SOS" :> {Scan})

Icc(sequence, count, data) ==
    [kind |-> "Icc", length |-> 14 + data, sequence |-> sequence, count |-> count]
IccChunks ==
    Plainly({ImageLength(0) + 2 * 19},
        Image("APP2" :> {Icc(n, count, 1) : n \in 0..3, count \in 0..3}
                        \cup {Icc(1, 1, 0), Icc(2, 2, 0), [Icc(1, 1, 0) EXCEPT !.length = 13],
                              [kind |-> "MultiPicture", length |-> 4]}))
ThreeIccChunks ==
    Plainly({ImageLength(0) + 3 * 19}, Image("APP2" :> {Icc(n, 3, 1) : n \in 1..3}))

Xmp(guid, total, offset, data) ==
    [kind |-> "ExtendedXmp", length |-> 75 + data, guid |-> guid, total |-> total,
     offset |-> offset]
XmpChunks ==
    Plainly({ImageLength(0) + 2 * 81},
        Image("APP1" :> {Xmp("A", 2, offset, data) : offset \in 0..3, data \in 0..2}
                        \cup {Xmp("B", 2, 1, 1), Xmp("A", 1, 1, 1), Xmp("A", 0, 0, 0),
                              Xmp("NotHexadecimal", 2, 0, 2),
                              [Xmp("A", 2, 0, 0) EXCEPT !.length = 74]}))
ThreeXmpChunks ==
    Plainly({ImageLength(0) + 3 * 81},
        Image("APP1" :> {Xmp("A", 3, offset, 1) : offset \in 0..2} \cup {Xmp("A", 3, 1, 2)}))

WordLength(word) == CASE word = "uuid" -> 24 [] word = "label" -> 6 [] OTHER -> 2
Box(instance, packet, large, declared, content) ==
    [kind |-> "BoxFragment", superbox |-> TRUE, instance |-> instance, packet |-> packet,
     large |-> large, declared |-> declared, content |-> content,
     length |-> 8 + (IF large THEN 16 ELSE 8)
                  + FoldLeft(LAMBDA sum, word : sum + WordLength(word), 0, content)]
BoxFragments ==
    Plainly({ImageLength(0) + 92},
        Image("APP11" :>
            {Box(1, 1, FALSE, 38, <<"uuid">>), Box(1, 2, FALSE, 38, <<"label">>),
             Box(2, 2, FALSE, 38, <<"label">>),
             Box(1, 1, TRUE, 46, <<"uuid", "label">>),
             Box(2, 1, FALSE, 10, <<"other">>), Box(2, 1, FALSE, 12, <<"other">>),
             Box(2, 2, FALSE, 12, <<"other">>)}))
TwoBoxFragments ==
    Plainly({ImageLength(0) + 52},
        Image("APP11" :>
            {Box(1, 1, FALSE, 10, <<"other">>), Box(2, 1, FALSE, 12, <<"other">>),
             Box(2, 2, FALSE, 12, <<"other">>), Box(2, 2, TRUE, 12, <<"other">>),
             Box(2, 3, FALSE, 12, <<"other">>), Box(2, 2, FALSE, 12, <<>>),
             Box(2, 1, FALSE, 0, <<>>), Box(2, 1, FALSE, 9, <<"other">>),
             [Box(2, 1, TRUE, 16, <<>>) EXCEPT !.length = 20],
             [Box(2, 1, FALSE, 8, <<>>) EXCEPT !.length = 12],
             [Box(2, 1, FALSE, 8, <<>>) EXCEPT !.superbox = FALSE]}))

MCScenarios ==
    "framing" :> Framing @@ "order" :> Order @@ "headers" :> Headers @@ "scans" :> Scans
    @@ "icc" :> IccChunks @@ "icc3" :> ThreeIccChunks
    @@ "xmp" :> XmpChunks @@ "xmp3" :> ThreeXmpChunks
    @@ "jumbf" :> BoxFragments @@ "jumbf2" :> TwoBoxFragments
=============================================================================
