----------------------- MODULE MCTransformationEngine -----------------------
(***************************************************************************)
(* Photos for the instances of the engine.  A photo's metadata says what a  *)
(* camera, an editor or a converter may have left: absent, right, stale,    *)
(* repeated or unreadable.                                                  *)
(***************************************************************************)
EXTENDS LibJpegTurboTransformationEngine

Opaque == [kind |-> "opaque", name |-> "comment", size |-> 1]

Exif(orientation, width, thumbnail) ==
    [kind |-> "exif", readable |-> TRUE, orientation |-> orientation,
     width |-> width, height |-> <<>>, thumbnail |-> thumbnail,
     relocates |-> FALSE, other |-> "facts", size |-> 2]

Xmp(orientation, height, declares) ==
    [kind |-> "xmp", readable |-> TRUE, orientation |-> orientation,
     width |-> <<>>, height |-> height, thumbnail |-> FALSE, other |-> "facts",
     declares |-> declares, provenance |-> FALSE, motion |-> FALSE, size |-> 2]

Extension(width) ==
    [kind |-> "extension", guid |-> "A", readable |-> TRUE, orientation |-> <<>>,
     width |-> width, thumbnail |-> FALSE, overlaps |-> FALSE, other |-> "facts",
     provenance |-> FALSE, motion |-> FALSE, size |-> 2]

Jfif(thumbnail) == [kind |-> "jfif", sound |-> TRUE, thumbnail |-> thumbnail,
                    other |-> "facts", size |-> IF thumbnail THEN 2 ELSE 1]
Jfxx == [kind |-> "jfxx", sound |-> TRUE, size |-> 2]
Photoshop(resources) == [kind |-> "photoshop", sound |-> TRUE, resources |-> resources,
                         size |-> 1 + Len(resources)]

Photo(dims, components, segments) ==
    [dims |-> dims, components |-> components, precision |-> 8, progressive |-> FALSE,
     arithmetic |-> FALSE, restart |-> "0", tables |-> <<"q", "r">>, segments |-> segments,
     trailing |-> FALSE, unsound |-> None, decodes |-> TRUE, operation |-> None, length |-> 4]

Sampling(w, h) == [w |-> w, h |-> h]
Size(w, h) == [w |-> w, h |-> h]
Grayscale == <<Sampling(1, 1)>>
GrayscaleSampled == <<Sampling(2, 2)>>
Subsampled == <<Sampling(2, 1), Sampling(1, 1), Sampling(1, 1)>>

\* Every small size, sampling and orientation, with the dimensions it states.
GeometryPhotos ==
    {Photo(Size(w, h), components, <<Exif(<<o>>, <<w>>, TRUE), Xmp(<<>>, <<h>>, None)>>) :
        w \in 1..9, h \in 1..9, o \in 1..8,
        components \in {Grayscale, GrayscaleSampled, Subsampled}}
    \cup {Photo(size, Grayscale, <<>>) :   \* around the pixel limit and the largest integer
             size \in {Size(10, 10), Size(13, 8), Size(12, 9)}}

Exifs == {<<>>} \cup {<<Exif(o, w, t)>> : o \in {<<>>, <<0>>, <<1>>, <<6>>, <<6, 1>>},
                                           w \in {<<>>, <<4>>, <<9>>, <<Bad>>, <<4, 4>>},
                                           t \in BOOLEAN}
         \cup {<<[Exif(<<6>>, <<>>, FALSE) EXCEPT !.relocates = TRUE]>>,
               <<[Exif(<<6>>, <<>>, FALSE) EXCEPT !.readable = FALSE]>>,
               <<Exif(<<6>>, <<>>, FALSE), Exif(<<>>, <<>>, FALSE)>>}

Xmps == {<<>>} \cup {<<Xmp(o, h, None)>> : o \in {<<>>, <<1>>, <<3>>, <<8, 8>>},
                                           h \in {<<>>, <<2>>, <<9>>}}
        \cup {<<Xmp(<<>>, <<>>, "A"), Extension(w)>> : w \in {<<>>, <<4>>, <<9>>}}
        \cup {<<Xmp(<<>>, <<>>, "A")>>, <<Extension(<<>>)>>,
              <<Xmp(<<>>, <<>>, "B"), Extension(<<>>)>>,
              <<Xmp(<<>>, <<>>, "A"), [Extension(<<>>) EXCEPT !.overlaps = TRUE]>>,
              <<Xmp(<<>>, <<>>, "A"), [Extension(<<>>) EXCEPT !.orientation = <<6>>]>>,
              <<Xmp(<<>>, <<>>, "A"), [Extension(<<>>) EXCEPT !.thumbnail = TRUE]>>,
              <<Xmp(<<>>, <<>>, "A"), [Extension(<<>>) EXCEPT !.provenance = TRUE]>>,
              <<[Xmp(<<3>>, <<>>, None) EXCEPT !.thumbnail = TRUE]>>,
              <<[Xmp(<<>>, <<>>, None) EXCEPT !.provenance = TRUE]>>}

Previews == {<<>>, <<Jfif(TRUE)>>, <<Jfif(FALSE), Jfxx>>, <<[Jfxx EXCEPT !.sound = FALSE]>>,
             <<Photoshop(<<"thumbnail", "path">>), Opaque>>, <<Photoshop(<<"path">>), Opaque>>,
             <<Photoshop(<<"path", "path", "path">>), Opaque>>}

MetadataPhotos ==
    {Photo(Size(4, 2), Grayscale, preview \o exif \o xmp) :
        exif \in Exifs, xmp \in Xmps, preview \in Previews}

\* One photo of every interesting kind, for writers and codecs that misbehave.
Base == Photo(Size(4, 2), Subsampled,
              <<Jfif(TRUE), Exif(<<6>>, <<4>>, TRUE), Xmp(<<6>>, <<2>>, None), Opaque>>)
Upright == Photo(Size(4, 2), Grayscale,
                 <<Exif(<<1>>, <<4>>, TRUE), Xmp(<<>>, <<>>, "A"), Extension(<<>>)>>)

FaultPhotos ==
    {Base, Upright,
     [Base EXCEPT !.segments = <<Exif(<<3>>, <<>>, FALSE), Jfxx,
                                 Photoshop(<<"thumbnail", "path">>)>>],
     [Base EXCEPT !.segments = <<Xmp(<<5>>, <<2>>, None), Opaque>>, !.progressive = TRUE],
     [Base EXCEPT !.restart = "changes"], [Base EXCEPT !.restart = "4", !.arithmetic = TRUE],
     [Base EXCEPT !.precision = 12], [Base EXCEPT !.trailing = TRUE],
     [Base EXCEPT !.decodes = FALSE], [Upright EXCEPT !.components = GrayscaleSampled],
     [Upright EXCEPT !.unsound = "MultiPictureJpegNotSupported"],
     [Base EXCEPT !.length = 11], [Base EXCEPT !.length = 18, !.dims = Size(8, 2), !.segments = <<>>]}

\* What another program may turn one reviewed photo into.
ChangedPhotos ==
    {Base, Upright, [Base EXCEPT !.dims = Size(8, 2)], [Base EXCEPT !.dims = Size(5, 2)],
     [Base EXCEPT !.components = Grayscale], [Base EXCEPT !.progressive = TRUE],
     [Base EXCEPT !.segments = <<Exif(<<6>>, <<4>>, FALSE), Opaque>>],
     [Base EXCEPT !.segments[3].orientation = <<8>>],
     [Base EXCEPT !.segments[2].orientation = <<8>>],
     [Base EXCEPT !.segments[4].name = "another"],
     [Upright EXCEPT !.segments = <<Exif(<<1>>, <<9>>, TRUE)>>]}

Both == {"RequirePerfectCoefficientTransform", "TrimPartialMinimumCodedUnits"}
Quiet(photos, policies) ==
    [photos |-> photos, policies |-> policies, organizations |-> {"PreserveSource"},
     changes |-> FALSE, misbehaves |-> FALSE, stops |-> FALSE]

MCScenarios ==
    [geometry |-> Quiet(GeometryPhotos, Both),
     metadata |-> Quiet(MetadataPhotos, {"RequirePerfectCoefficientTransform"}),
     faults |-> [Quiet(FaultPhotos, Both) EXCEPT !.organizations = ScanOrganizations,
                                                 !.misbehaves = TRUE, !.stops = TRUE],
     changed |-> [Quiet(ChangedPhotos, Both) EXCEPT !.changes = TRUE, !.stops = TRUE]]
=============================================================================
