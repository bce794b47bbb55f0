------------------------- MODULE MetadataReconciler -------------------------
(***************************************************************************)
(* MetadataReconciler over the metadata segments of one image: the source   *)
(* policies, the orientation, the rewriting of what a transform makes       *)
(* false, and the independent comparison of source and output.              *)
(*                                                                         *)
(* A segment is a record of the facts the code tells apart.  A property     *)
(* that may be absent or repeated is a sequence of values; the two width    *)
(* and the two height keys of Exif and of XMP are one each, other stands    *)
(* for every remaining fact, and Bad for a value that does not parse.       *)
(*   exif       readable, orientation, width, height, thumbnail, relocates, *)
(*              other, size    (relocates: the rewrite is intrusive and the *)
(*              MakerNote opaque)                                           *)
(*   xmp        readable, orientation, width, height, thumbnail, other,     *)
(*              declares (the GUID of an extension), provenance, motion     *)
(*   extension  the ordered Extended XMP chunks: guid, readable,            *)
(*              orientation, width, thumbnail, overlaps, other, provenance, *)
(*              motion                                                      *)
(*   jfif, jfxx, photoshop, opaque                                          *)
(***************************************************************************)
EXTENDS JpegTransformPlanner, SequencesExt

CONSTANTS
    MaximumMetadataLength,  \* JpegResourceLimits::maximumMetadataLengthBytes
    MaximumSegmentLength,   \* what the two length bytes of a segment can say
    RewriteGrowth           \* what serialising a packet again adds to it

ASSUME ReconcilerAssumption ==
    /\ MaximumMetadataLength \in Nat /\ MaximumSegmentLength \in Nat
    /\ RewriteGrowth \in Nat

Bad == -1

\* A record with the facts that are read or written here.
IsSegment(s) ==
    /\ s = [field \in DOMAIN s |-> s[field]]
    /\ {"kind", "size"} \subseteq DOMAIN s /\ s.size \in Nat
    /\ s.kind \in {"exif", "xmp"} =>
           /\ {"orientation", "width", "height", "thumbnail", "other"} \subseteq DOMAIN s
           /\ {s.readable, s.thumbnail} \subseteq BOOLEAN
           /\ {s.orientation, s.width, s.height} \subseteq Seq(Int)
    /\ s.kind = "xmp" => {"declares", "provenance"} \subseteq DOMAIN s
    /\ s.kind \in {"jfif", "jfxx", "photoshop"} => s.sound \in BOOLEAN
    /\ s.kind = "jfif" => {"thumbnail", "other"} \subseteq DOMAIN s /\ s.thumbnail \in BOOLEAN
    /\ s.kind = "photoshop" => /\ "resources" \in DOMAIN s /\ s.resources \in Seq(STRING)
                               /\ s.size = 1 + Len(s.resources)

\* The elements of q at the positions in I, in their order.
Place(I, i) == Cardinality({j \in I : j <= i})
Chosen(q, I) == [k \in 1..Cardinality(I) |-> q[CHOOSE i \in I : Place(I, i) = k]]

OfKind(segments, kind) == Chosen(segments, {i \in DOMAIN segments : segments[i].kind = kind})

Bytes(segments) == UNION {{i} \X (1..segments[i].size) : i \in DOMAIN segments}
TotalSize(segments) == Cardinality(Bytes(segments))
transformed(plan) == plan.transform # "None"

-----------------------------------------------------------------------------
(* What a source may contain.                                              *)

ExtensionRefused(extension, transform) ==
    \/ ~extension.readable \/ extension.overlaps
    \/ extension.orientation # <<>>
    \/ transform # "None" /\ (extension.width # <<>> \/ extension.thumbnail)

validateExtendedXmpPreservation(segments, transform) ==
    LET xmp == OfKind(segments, "xmp")
        extension == OfKind(segments, "extension")
        declared == {xmp[i].declares : i \in DOMAIN xmp} \ {None}
    IN  IF Len(xmp) > 1 \/ \E i \in DOMAIN xmp : ~xmp[i].readable
        THEN Failure("MalformedImageMetadata")
        ELSE IF declared # {extension[i].guid : i \in DOMAIN extension}
        THEN Failure("MalformedImageMetadata")
        ELSE IF \E i \in DOMAIN extension : ExtensionRefused(extension[i], transform)
        THEN Failure("ExtendedXmpMutationNotSupported")
        ELSE Success({})

validateSourceAssetBindings(segments, trailing) ==
    LET extended == validateExtendedXmpPreservation(segments, "None")
        packets == {s \in ToSet(segments) : s.kind \in {"xmp", "extension"}}
    IN  IF extended.error # None THEN extended
        ELSE IF \E packet \in packets : packet.provenance
        THEN Failure("ContentCredentialsWouldBeInvalidated")
        ELSE IF trailing /\ \E packet \in packets : packet.motion
        THEN Failure("MotionPhotoNotSupported")
        ELSE IF trailing THEN Failure("UnsupportedTrailingPayload")
        ELSE Success({})

\* None: not stated; Bad: stated twice, or not one of the eight values.
StatedOrientation(segments) ==
    IF segments = <<>> \/ segments[1].orientation = <<>> THEN None
    ELSE IF \/ Len(segments[1].orientation) > 1
            \/ tryParseExifOrientation(segments[1].orientation[1]) = None
    THEN "invalid"
    ELSE tryParseExifOrientation(segments[1].orientation[1])

analyzeOrientation(segments) ==
    LET exifs == OfKind(segments, "exif")
        xmps == OfKind(segments, "xmp")
        exif == StatedOrientation(exifs)
        xmp == StatedOrientation(xmps)
        unreadable(packets) == \E s \in ToSet(packets) : ~s.readable
    IN  IF Len(exifs) > 1 \/ Len(xmps) > 1 \/ unreadable(exifs)
        THEN Failure("MalformedImageMetadata")
        ELSE IF exif = "invalid" THEN Failure("InvalidOrientationMetadata")
        ELSE IF unreadable(xmps) THEN Failure("MalformedImageMetadata")
        ELSE IF xmp = "invalid" THEN Failure("InvalidOrientationMetadata")
        ELSE Success([exif |-> exif, xmp |-> xmp,
                      conflict |-> exif # None /\ xmp # None /\ exif # xmp,
                      authoritative |-> IF exif # None THEN exif
                                        ELSE IF xmp # None THEN xmp ELSE "TopLeft"])

-----------------------------------------------------------------------------
(* Rewriting what the transform makes false.                               *)

All(values, value) == [i \in DOMAIN values |-> value]

NeedsRewrite(segment, plan) ==
    \/ transformed(plan)
    \/ ToSet(segment.orientation) \ {1} # {}
    \/ ToSet(segment.width) \ {plan.output.w} # {}
    \/ ToSet(segment.height) \ {plan.output.h} # {}

Rewritten(segment, plan) ==
    [segment EXCEPT !.orientation = All(@, 1),
                    !.width = All(@, plan.output.w), !.height = All(@, plan.output.h),
                    !.thumbnail = @ /\ ~transformed(plan), !.size = @ + RewriteGrowth]

Change(segment, removed) == Success([segment |-> <<segment>>, removed |-> removed])

\* reconcileExifPayload and reconcileStandardXmpPacket.
reconcilePacket(segment, plan, relocates) ==
    IF ~segment.readable THEN Failure("MalformedImageMetadata")
    ELSE IF StatedOrientation(<<segment>>) = "invalid"
    THEN Failure("InvalidOrientationMetadata")
    ELSE IF Bad \in ToSet(segment.width \o segment.height)
    THEN Failure("MalformedImageMetadata")
    ELSE IF ~NeedsRewrite(segment, plan) THEN Change(segment, FALSE)
    ELSE IF relocates \/ Rewritten(segment, plan).size > MaximumSegmentLength
    THEN Failure("MetadataPreservationFailed")
    ELSE Change(Rewritten(segment, plan), transformed(plan) /\ segment.thumbnail)

unsupportedPreview == Failure("UnsupportedEmbeddedPreviewMetadata")

reconcileJfif(segment, plan) ==
    IF ~segment.sound THEN unsupportedPreview
    ELSE IF ~transformed(plan) THEN Change(segment, FALSE)
    ELSE Change([segment EXCEPT !.thumbnail = FALSE, !.size = 1], segment.thumbnail)

reconcileJfxx(segment, plan) ==
    IF ~segment.sound THEN unsupportedPreview
    ELSE IF ~transformed(plan) THEN Change(segment, FALSE)
    ELSE Success([segment |-> <<>>, removed |-> TRUE])

WithoutThumbnail(resources) ==
    Chosen(resources, {i \in DOMAIN resources : resources[i] # "thumbnail"})

reconcilePhotoshopResources(segment, plan) ==
    LET kept == IF transformed(plan) THEN WithoutThumbnail(segment.resources)
                ELSE segment.resources
    IN  IF ~segment.sound THEN unsupportedPreview
        ELSE Change([segment EXCEPT !.resources = kept, !.size = 1 + Len(kept)],
                    kept # segment.resources)

reconcileSegment(segment, plan) ==
    CASE segment.kind = "exif" -> reconcilePacket(segment, plan, segment.relocates)
      [] segment.kind = "xmp" -> reconcilePacket(segment, plan, FALSE)
      [] segment.kind = "jfif" -> reconcileJfif(segment, plan)
      [] segment.kind = "jfxx" -> reconcileJfxx(segment, plan)
      [] segment.kind = "photoshop" -> reconcilePhotoshopResources(segment, plan)
      [] OTHER -> Change(segment, FALSE)

\* One marker appended to what has been written; an earlier error stays.
appendMarker(written, segment, plan) ==
    LET changed == reconcileSegment(segment, plan)
        segments == written.segments \o changed.value.segment
    IN  IF written.error # None THEN written
        ELSE IF changed.error # None THEN [written EXCEPT !.error = changed.error]
        ELSE IF TotalSize(segments) > MaximumMetadataLength
        THEN [written EXCEPT !.error = "MetadataLengthLimitExceeded"]
        ELSE [written EXCEPT !.segments = segments, !.removed = @ \/ changed.value.removed]

reconcileMarkerSegments(segments, plan) ==
    LET extended == validateExtendedXmpPreservation(segments, plan.transform)
        written == FoldLeft(LAMBDA w, s : appendMarker(w, s, plan),
                            [error |-> None, segments |-> <<>>, removed |-> FALSE], segments)
    IN  IF extended.error # None THEN extended
        ELSE IF written.error # None THEN Failure(written.error)
        ELSE Success([segments |-> written.segments, removed |-> written.removed])

-----------------------------------------------------------------------------
(* The independent comparison: the rule that is broken, or None.           *)

\* Mutant: a preview the source had may stay in the output.
ComparePacketLoosely(original, observed, plan, orientationRule) ==
    IF ~original.readable \/ ~observed.readable THEN "MetadataPreservation"
    ELSE IF \/ ToSet(observed.orientation) \ {1} # {}
            \/ Len(original.orientation) # Len(observed.orientation)
    THEN orientationRule
    ELSE IF original.other # observed.other THEN "MetadataPreservation"
    ELSE None

comparePacket(original, observed, plan, orientationRule) ==
    IF ~original.readable \/ ~observed.readable THEN "MetadataPreservation"
    ELSE IF \/ ToSet(observed.orientation) \ {1} # {}
            \/ Len(original.orientation) # Len(observed.orientation)
            \/ Len(original.orientation) > 1
    THEN orientationRule
    ELSE IF \/ Len(original.width) # Len(observed.width) \/ Len(original.width) > 1
            \/ Len(original.height) # Len(observed.height) \/ Len(original.height) > 1
            \/ ToSet(observed.width) \ {plan.output.w} # {}
            \/ ToSet(observed.height) \ {plan.output.h} # {}
    THEN "DerivedDimensions"
    ELSE IF transformed(plan) /\ observed.thumbnail THEN "RemovedEmbeddedThumbnails"
    ELSE IF \/ original.other # observed.other
            \/ ~transformed(plan) /\ original.thumbnail # observed.thumbnail
    THEN "MetadataPreservation"
    ELSE None

compareJfif(original, observed) ==
    IF observed.thumbnail THEN "RemovedEmbeddedThumbnails"
    ELSE IF original.other # observed.other THEN "PreservedMarkerSequence"
    ELSE None

comparePhotoshopResources(original, observed) ==
    IF "thumbnail" \in ToSet(observed.resources) THEN "RemovedEmbeddedThumbnails"
    ELSE IF observed.resources # WithoutThumbnail(original.resources)
    THEN "MetadataPreservation"
    ELSE None

\* Everything else is compared byte for byte.
compareSegment(original, observed, plan) ==
    IF original.kind # observed.kind THEN "PreservedMarkerSequence"
    ELSE CASE original.kind = "exif" ->
                  comparePacket(original, observed, plan, "CanonicalExifOrientation")
           [] original.kind = "xmp" ->
                  IF observed.declares # original.declares THEN "MetadataPreservation"
                  ELSE comparePacket(original, observed, plan, "CanonicalStandardXmpOrientation")
           [] original.kind = "jfif" /\ transformed(plan) -> compareJfif(original, observed)
           [] original.kind = "photoshop" /\ transformed(plan) ->
                  comparePhotoshopResources(original, observed)
           [] OTHER -> IF original = observed THEN None
                       ELSE IF original.kind = "extension" THEN "ExtendedXmpPreservation"
                       ELSE "PreservedMarkerSequence"

LostThumbnail(segment) ==
    \/ segment.kind \in {"exif", "xmp", "jfif"} /\ segment.thumbnail
    \/ segment.kind = "jfxx"
    \/ segment.kind = "photoshop" /\ "thumbnail" \in ToSet(segment.resources)

validateReconciledMetadata(source, output, plan) ==
    LET kept == Chosen(source, {i \in DOMAIN source :
                                    ~(transformed(plan) /\ source[i].kind = "jfxx")})
        rule == [i \in DOMAIN kept |-> IF i > Len(output) THEN "PreservedMarkerSequence"
                                       ELSE compareSegment(kept[i], output[i], plan)]
        broken == {i \in DOMAIN kept : rule[i] # None}
        orientation == analyzeOrientation(output)
    IN  IF broken # {} THEN Failure(rule[Min(broken)])
        ELSE IF Len(output) > Len(kept) THEN Failure("PreservedMarkerSequence")
        ELSE IF orientation.error # None THEN Failure("MetadataPreservation")
        ELSE Success([exif |-> orientation.value.exif # None,
                      xmp |-> orientation.value.xmp # None,
                      removed |-> transformed(plan) /\ \E s \in ToSet(source) : LostThumbnail(s)])
=============================================================================
