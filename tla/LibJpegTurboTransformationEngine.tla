------------------ MODULE LibJpegTurboTransformationEngine ------------------
(***************************************************************************)
(* One photo from its review to its validated output: JpegImageAnalyzer's   *)
(* analysis at review, then createValidatedOutput with its second analysis, *)
(* the metadata, the coefficient transform, the splice and the independent  *)
(* validator, while a stop request, a failed allocation, a codec or writer  *)
(* that does something else, or a source that changed since the review may  *)
(* come at any point.                                                      *)
(*                                                                         *)
(* An image is the record of what the code reads out of its bytes.  Its     *)
(* pixels are the codec operation that produced them from the source's;     *)
(* a quantisation table is the pair that transposition exchanges; length    *)
(* is the codestream without the metadata segments, and unsound what the    *)
(* scanner would refuse in it.                                              *)
(***************************************************************************)
EXTENDS MetadataReconciler

CONSTANTS
    Scenarios,           \* by name: the images the photo may hold, the policies and
                         \* organizations to choose from, and what may go wrong
    MaximumPixelCount,
    DctSize,
    CodecLengths,        \* what the codec's output may come to
    MaximumFileLength,   \* JpegResourceLimits::maximumEncodedFileLengthBytes
    IntermediateBudget   \* TurboJpegResourceLimits, in the unit of the lengths

\* What the scanner reads out of a file: each sampling factor is 1 to 4, and the
\* geometry is refused by the planner, whose pixel limit is the scanner's.  What
\* it refuses is of the file, never that someone stopped it.
IsImage(image) ==
    /\ DOMAIN image = {"dims", "components", "precision", "progressive", "arithmetic", "restart",
                       "tables", "segments", "trailing", "unsound", "decodes", "operation", "length"}
    /\ image.dims \in [w : Nat, h : Nat]
    /\ image.components \in Seq([w : 1..4, h : 1..4]) \ {<<>>}
    /\ image.segments \in Seq(ToSet(image.segments))
    /\ \A s \in ToSet(image.segments) : IsSegment(s)
    /\ image.unsound \notin {"PixelCountLimitExceeded", "PerfectCoefficientTransformUnavailable",
                             "Cancelled"}
    /\ {image.progressive, image.arithmetic, image.trailing, image.decodes} \subseteq BOOLEAN

ASSUME EngineAssumption ==
    /\ \A name \in DOMAIN Scenarios :
           /\ \A image \in Scenarios[name].photos : IsImage(image)
           /\ Scenarios[name].policies \subseteq Policies
           /\ Scenarios[name].organizations \subseteq ScanOrganizations
           /\ {Scenarios[name].changes, Scenarios[name].misbehaves} \subseteq BOOLEAN
           /\ Scenarios[name].stops \in BOOLEAN
    /\ MaximumPixelCount \in 0..MaxUint64 /\ DctSize \in Nat \ {0}
    /\ CodecLengths \subseteq Nat /\ MaximumFileLength \in Nat /\ IntermediateBudget \in Nat

VARIABLES
    scenario,       \* its name
    reviewed,       \* the image that was reviewed
    source,         \* the image createValidatedOutput was given
    request,        \* the reviewed edge policy and scan organization
    approved,       \* the analysis the user accepted
    stop, pc, stage, executionState,
    metadata,       \* the reconciled segments
    codec,          \* what tj3Transform wrote: <<>>, or one image
    completed,      \* <<>>, or the spliced output
    called,         \* history: tj3Transform has been entered
    misbehaved,     \* history: something native failed or went wrong
    result

engine == <<metadata, codec, completed, called>>
vars == <<scenario, reviewed, source, request, approved, stop, pc, stage, executionState,
          metadata, codec, completed, called, misbehaved, result>>

world == Scenarios[scenario]
SourceMayChange == world.changes          \* between the review and the capture
NativeMayMisbehave == world.misbehaves    \* the codec and the writers are not trusted

-----------------------------------------------------------------------------
(* The analysis.                                                           *)

\* The codec treats a single component as one DCT block.
sourceImcu(components) ==
    LET largest(side) == IF Len(components) = 1 THEN 1
                         ELSE Max({component[side] : component \in ToSet(components)})
    IN  [w |-> DctSize * largest("w"), h |-> DctSize * largest("h")]

\* What the codec takes for a whole unit (external).
NativeImcu(components) ==
    LET largest(side) == Max({component[side] : component \in ToSet(components)})
    IN  IF Len(components) = 1 THEN [w |-> DctSize, h |-> DctSize]
        ELSE [w |-> DctSize * largest("w"), h |-> DctSize * largest("h")]

fileLength(image) == image.length + TotalSize(image.segments)

scan(image) ==
    IF fileLength(image) > MaximumFileLength THEN Failure("EncodedFileTooLarge")
    ELSE IF image.unsound # None THEN Failure(image.unsound)
    ELSE IF TotalSize(image.segments) > MaximumMetadataLength
    THEN Failure("MetadataLengthLimitExceeded")
    ELSE Success(image)

findingsOf(orientation, plan, removed) ==
    (IF removed THEN {<<"EmbeddedThumbnailRemovalRequired">>} ELSE {})
    \cup (IF orientation.conflict
          THEN {<<"ExifXmpOrientationConflict", orientation.exif, orientation.xmp>>} ELSE {})
    \cup (IF willDiscardEdgePixels(plan)
          THEN {<<"PartialMinimumCodedUnitTrimRequired", plan.discarded>>} ELSE {})

sourceProperties(image) ==
    <<image.progressive, image.arithmetic, image.precision, image.dims, image.components>>

analyze(image, policy, organization) ==
    LET bindings == validateSourceAssetBindings(image.segments, image.trailing)
        orientation == analyzeOrientation(image.segments)
        plan == createPlan([orientation |-> orientation.value.authoritative,
                            dims |-> image.dims, imcu |-> sourceImcu(image.components),
                            policy |-> policy, organization |-> organization],
                           MaximumPixelCount)
        preflight == reconcileMarkerSegments(image.segments, plan.value)
    IN  IF scan(image).error # None THEN scan(image)
        ELSE IF bindings.error # None THEN bindings
        ELSE IF orientation.error # None THEN orientation
        ELSE IF plan.error # None THEN plan
        ELSE IF preflight.error # None THEN preflight
        ELSE Success([properties |-> sourceProperties(image),
                      orientation |-> orientation.value.authoritative,
                      plan |-> plan.value,
                      findings |-> findingsOf(orientation.value, plan.value,
                                              preflight.value.removed)])

plan == approved.value.plan

\* tj3JPEGBufSize bounds the output; it grows with the pixels (external).
NativeBound(dims) == 2 * dims.w * dims.h
outputBufferCapacityBytes(dims) == Min({NativeBound(dims), MaximumFileLength})

\* Mutant: the sum wraps.
EstimateWraps(encodedLength, analysis) ==
    LET capacity == outputBufferCapacityBytes(analysis.plan.output)
    IN  (2 * encodedLength + 2 * capacity + IntermediateBudget
         + 4 * Min({encodedLength, MaximumMetadataLength})) % (MaxUint64 + 1)

\* The largest value, "unknown", where the sum does not fit.
estimatedWorkingMemoryBytes(encodedLength, analysis) ==
    LET capacity == outputBufferCapacityBytes(analysis.plan.output)
    IN  Min({MaxUint64, 2 * encodedLength + 2 * capacity + IntermediateBudget
                        + 4 * Min({encodedLength, MaximumMetadataLength})})

-----------------------------------------------------------------------------
Pending == Failure("pending")

Init ==
    /\ scenario \in DOMAIN Scenarios
    /\ reviewed \in world.photos /\ source = reviewed
    /\ request \in [policy : world.policies, organization : world.organizations]
    /\ approved = Pending /\ stop = FALSE /\ pc = "Review"
    /\ stage = "TransformPlanning" /\ executionState = "NotStarted"
    /\ metadata = <<>> /\ codec = <<>> /\ completed = <<>>
    /\ called = FALSE /\ misbehaved = FALSE /\ result = Pending

RunsTo(next) == pc' = next /\ UNCHANGED result
Return(code, where, state) ==
    /\ pc' = "Done"
    /\ result' = [error |-> code, stage |-> where, execution |-> state]
    /\ UNCHANGED <<stage, executionState>>

Review ==
    /\ pc = "Review"
    /\ approved' = analyze(reviewed, request.policy, request.organization)
    /\ IF approved'.error = None
       THEN RunsTo("Begin") /\ UNCHANGED <<stage, executionState>>
       ELSE Return(approved'.error, "Review", None)
    /\ UNCHANGED <<scenario, reviewed, source, request, stop, misbehaved, engine>>

\* Another program, before the bytes for the execution are captured.
ChangeSource ==
    /\ SourceMayChange /\ pc = "Begin" /\ source = reviewed
    /\ source' \in world.photos \ {reviewed}
    /\ UNCHANGED <<scenario, reviewed, request, approved, stop, pc, stage, executionState,
                   misbehaved, engine, result>>

RequestStop ==
    /\ world.stops /\ ~stop /\ pc \notin {"Review", "Done"}
    /\ stop' = TRUE
    /\ UNCHANGED <<scenario, reviewed, source, request, approved, pc, stage, executionState,
                   misbehaved, engine, result>>

still == <<scenario, reviewed, source, request, approved, stop>>
cancelled == Return("Cancelled", stage, executionState)

\* Mutant: the orientation and the plan are compared, the findings are not.
BeginWithoutFindings ==
    LET observed == analyze(source, plan.policy, plan.organization)
    IN  /\ pc = "Begin"
        /\ IF observed.error # None THEN Return(observed.error, stage, None)
           ELSE IF observed.value.plan # plan
           THEN Return("SourceChangedAfterAnalysis", stage, None)
           ELSE RunsTo("Reconcile") /\ stage' = "MetadataReconciliation"
                /\ UNCHANGED executionState
        /\ UNCHANGED <<still, misbehaved, engine>>

Begin ==
    LET observed == analyze(source, plan.policy, plan.organization)
    IN  /\ pc = "Begin"
        /\ IF stop THEN cancelled
           ELSE IF observed.error # None THEN Return(observed.error, stage, None)
           ELSE IF observed.value # approved.value
           THEN Return("SourceChangedAfterAnalysis", stage, None)
           ELSE RunsTo("Reconcile") /\ stage' = "MetadataReconciliation"
                /\ UNCHANGED executionState
        /\ UNCHANGED <<still, misbehaved, engine>>

Reconcile ==
    LET written == reconcileMarkerSegments(source.segments, plan)
    IN  /\ pc = "Reconcile"
        /\ IF written.error # None
           THEN Return(written.error, stage, None) /\ UNCHANGED metadata
           ELSE /\ metadata' = written.value.segments
                /\ IF stop THEN cancelled
                   ELSE RunsTo("Prepare") /\ stage' = "CoefficientTransformation"
                        /\ UNCHANGED executionState
        /\ UNCHANGED <<still, misbehaved, codec, completed, called>>

-----------------------------------------------------------------------------
(* transformCoefficients.                                                  *)

PrepareRefusal ==
    IF stop THEN "Cancelled"
    ELSE IF fileLength(source) > MaximumFileLength THEN "EncodedFileTooLarge"
    ELSE IF source.dims # plan.source THEN "SourceChangedAfterAnalysis"
    ELSE IF plan.policy = "RequirePerfectCoefficientTransform" /\ willDiscardEdgePixels(plan)
    THEN "PerfectCoefficientTransformUnavailable"
    ELSE IF source.restart = "changes" THEN "UnsupportedJpegRestartIntervalChanges"
    ELSE None

Prepare ==
    /\ pc = "Prepare"
    /\ IF PrepareRefusal # None
       THEN Return(PrepareRefusal, stage,
                   IF PrepareRefusal = "Cancelled" THEN "NotStarted" ELSE None)
       ELSE RunsTo("Call") /\ UNCHANGED <<stage, executionState>>
    /\ UNCHANGED <<still, misbehaved, engine>>

\* Where the source asked for the default, its own organization is kept.
ProgressiveOutput ==
    \/ plan.organization = "ProgressiveDct"
    \/ plan.organization = "PreserveSource" /\ source.progressive

\* Sampling factors of the output; a single component is normalized.
expectedComponents ==
    IF Len(source.components) = 1 THEN <<[w |-> 1, h |-> 1]>>
    ELSE IF swapsAxes(plan.transform)
    THEN [i \in DOMAIN source.components |-> Swapped(source.components[i])]
    ELSE source.components

expectedTables == IF swapsAxes(plan.transform)
                  THEN <<source.tables[2], source.tables[1]>> ELSE source.tables

\* What tj3Transform writes when it does what it is asked: any length up to its own
\* bound, and it may add a hint.
Transcoded(components, segments, length) ==
    LET op == NativeOperation(plan.transform)
    IN  [source EXCEPT !.dims = NativeDimensions(op, source.dims, NativeImcu(source.components)),
                       !.components = components, !.tables = expectedTables,
                       !.progressive = ProgressiveOutput, !.operation = op,
                       !.trailing = FALSE, !.segments = segments,
                       !.length = Min({length, NativeBound(plan.output) - TotalSize(segments)})]

NativeComponents ==
    {expectedComponents} \cup {c \in {source.components} : plan.transform = "None"}

NativeSegments == {<<>>, <<[kind |-> "opaque", name |-> "hint", size |-> 1]>>}

NativeOutput == {Transcoded(components, segments, length) : components \in NativeComponents,
                     segments \in NativeSegments, length \in CodecLengths}

\* Its buffer has outputBufferCapacityBytes, and NativeBound is never exceeded.
Overlong(image) == fileLength(image) > MaximumFileLength

\* A codec that may not reallocate fails where its output does not fit.
Call ==
    /\ pc = "Call"
    /\ IF stop THEN cancelled /\ UNCHANGED <<misbehaved, codec, called>>
       ELSE /\ called' = TRUE
            /\ RunsTo("Returned") /\ UNCHANGED <<stage, executionState>>
            /\ \/ /\ \E image \in NativeOutput :
                         codec' = IF Overlong(image) THEN <<>> ELSE <<image>>
                  /\ UNCHANGED misbehaved
               \/ NativeMayMisbehave /\ codec' = <<>> /\ misbehaved' = TRUE
               \/ /\ NativeMayMisbehave
                  /\ \E image \in {i \in NativeOutput : ~Overlong(i)} :
                         codec' \in {<<[image EXCEPT !.dims = Swapped(@)]>>,
                                     <<[image EXCEPT !.unsound = "MalformedJpegStructure"]>>}
                  /\ misbehaved' = TRUE
    /\ UNCHANGED <<still, metadata, completed>>

\* Mutant: a stop that came during the call is reported as never started.
ReturnedNotStarted ==
    /\ pc = "Returned"
    /\ IF stop THEN cancelled
       ELSE IF codec = <<>> THEN Return("CoefficientTransformationFailed", stage, None)
       ELSE RunsTo("Splice") /\ executionState' = "Started" /\ UNCHANGED stage
    /\ UNCHANGED <<still, misbehaved, engine>>

Returned ==
    /\ pc = "Returned"
    /\ IF stop THEN Return("Cancelled", stage, "Started")
       ELSE IF codec = <<>> THEN Return("CoefficientTransformationFailed", stage, None)
       ELSE IF scan(codec[1]).error # None \/ codec[1].dims # plan.output
       THEN Return("OutputValidationFailed", stage, None)
       ELSE RunsTo("Splice") /\ executionState' = "Started" /\ UNCHANGED stage
    /\ UNCHANGED <<still, misbehaved, engine>>

-----------------------------------------------------------------------------
(* The splice, and what a faulty writer could hand to the validator.       *)

Spliced == [codec[1] EXCEPT !.segments = metadata]

WithSegments(image, segments) == [image EXCEPT !.segments = segments]
WithSegment(image, i, segment) == WithSegments(image, [image.segments EXCEPT ![i] = segment])

\* Something other than the metadata is wrong.
Miscoded(image) ==
    {[image EXCEPT !.precision = 20 - @], [image EXCEPT !.progressive = ~@],
     [image EXCEPT !.arithmetic = ~@], [image EXCEPT !.restart = "other"],
     [image EXCEPT !.tables = <<"x", "y">>], [image EXCEPT !.decodes = FALSE],
     [image EXCEPT !.trailing = TRUE], [image EXCEPT !.unsound = "MalformedJpegStructure"],
     [image EXCEPT !.unsound = "UnsupportedJumbfMetadata"],
     [image EXCEPT !.dims = Swapped(@)],
     [image EXCEPT !.components = [i \in DOMAIN @ |-> [w |-> 4, h |-> 4]]]}

\* A preview is back, or a fact is gone.
Misread(segment) ==
    IF segment.kind \notin {"exif", "xmp", "jfif"} THEN {}
    ELSE {[segment EXCEPT !.thumbnail = TRUE], [segment EXCEPT !.other = "lost"]}

Misspliced(image) ==
    Miscoded(image)
    \cup {WithSegments(image, RemoveAt(image.segments, i)) : i \in DOMAIN image.segments}
    \cup {WithSegments(image, image.segments \o <<s>>) : s \in ToSet(source.segments)}
    \cup UNION {{WithSegment(image, i, s) :
                     s \in ToSet(source.segments) \cup Misread(image.segments[i])} :
                i \in DOMAIN image.segments}

Splice ==
    /\ pc = "Splice"
    /\ IF stop THEN cancelled /\ UNCHANGED <<completed, misbehaved>>
       ELSE IF fileLength(Spliced) > MaximumFileLength
       THEN Return("EncodedFileTooLarge", stage, None) /\ UNCHANGED <<completed, misbehaved>>
       ELSE /\ RunsTo("Validate") /\ stage' = "OutputValidation" /\ UNCHANGED executionState
            /\ \/ completed' = <<Spliced>> /\ UNCHANGED misbehaved
               \/ /\ NativeMayMisbehave
                  /\ \E image \in Misspliced(Spliced) \ {Spliced} : completed' = <<image>>
                  /\ misbehaved' = TRUE
    /\ UNCHANGED <<still, metadata, codec, called>>

-----------------------------------------------------------------------------
(* JpegOutputValidator::validate.                                          *)

output == completed[1]

StructureRule ==
    IF scan(output).error \in {"MultiPictureJpegNotSupported",
            "ContentCredentialsWouldBeInvalidated", "UnsupportedJumbfMetadata"}
    THEN "NoUnsupportedAssetBindings"
    ELSE IF scan(output).error # None \/ output.trailing THEN "CompleteJpegStructure"
    ELSE IF output.dims # plan.output THEN "PlannedDimensions"
    ELSE IF output.precision # source.precision THEN "SamplePrecision"
    ELSE IF /\ output.components # expectedComponents
            /\ ~(/\ Len(source.components) = 1 /\ plan.transform = "None"
                 /\ output.components = source.components)
    THEN "ComponentOrganization"
    ELSE IF output.progressive # ProgressiveOutput THEN "ScanOrganization"
    ELSE IF output.arithmetic # source.arithmetic THEN "EntropyCodingMode"
    ELSE IF "changes" \in {source.restart, output.restart} \/ source.restart # output.restart
    THEN "RestartIntervalPreservation"
    ELSE None

MetadataRule ==
    LET evidence == validateReconciledMetadata(source.segments, output.segments, plan)
    IN  IF evidence.error # None THEN evidence.error
        ELSE IF validateSourceAssetBindings(output.segments, FALSE).error # None
        THEN "NoUnsupportedAssetBindings"
        ELSE None

Validate ==
    /\ pc = "Validate"
    /\ IF stop THEN cancelled
       ELSE IF StructureRule # None THEN Return(StructureRule, stage, None)
       ELSE IF MetadataRule # None THEN Return(MetadataRule, stage, None)
       ELSE RunsTo("DecodeSource") /\ UNCHANGED <<stage, executionState>>
    /\ UNCHANGED <<still, misbehaved, engine>>

\* readJpegCodingParameters of the source, then of the output.
Decode(at, image, next) ==
    /\ pc = at
    /\ IF stop THEN cancelled
       ELSE IF ~image.decodes THEN Return("FullDecode", stage, None)
       ELSE RunsTo(next) /\ UNCHANGED <<stage, executionState>>
    /\ UNCHANGED <<still, misbehaved, engine>>

DecodeSource == Decode("DecodeSource", source, "DecodeOutput")
DecodeOutput == pc = "DecodeOutput" /\ Decode("DecodeOutput", output, "Publish")

Publish ==
    /\ pc = "Publish"
    /\ IF output.tables # expectedTables
       THEN Return("QuantizationTablePreservation", stage, None)
       ELSE IF stop THEN cancelled
       ELSE /\ pc' = "Done" /\ UNCHANGED <<stage, executionState>>
            /\ result' = [error |-> None, output |-> output,
                          evidence |-> validateReconciledMetadata(source.segments,
                                           output.segments, plan).value]
    /\ UNCHANGED <<still, misbehaved, engine>>

\* A hash of the output cannot be computed.
DigestFails ==
    /\ NativeMayMisbehave /\ pc = "Publish" /\ output.tables = expectedTables
    /\ Return("EncodedOutputDigest", stage, None)
    /\ misbehaved' = TRUE
    /\ UNCHANGED <<still, engine>>

\* std::bad_alloc from any step of createValidatedOutput.
AllocationFails ==
    /\ NativeMayMisbehave /\ pc \notin {"Review", "Done"}
    /\ Return("WorkingMemoryAllocationFailed", stage, None)
    /\ misbehaved' = TRUE
    /\ UNCHANGED <<still, engine>>

Done == pc = "Done" /\ UNCHANGED vars

Execution == \/ Begin \/ Reconcile \/ Prepare \/ Call \/ Returned \/ Splice
             \/ Validate \/ DecodeSource \/ DecodeOutput \/ Publish

Next == \/ Review \/ ChangeSource \/ RequestStop \/ Execution \/ DigestFails \/ AllocationFails
        \/ Done

Spec == Init /\ [][Next]_vars

-----------------------------------------------------------------------------
(* Properties.                                                             *)

TypeOK ==
    /\ scenario \in DOMAIN Scenarios /\ {reviewed, source} \subseteq world.photos
    /\ request.policy \in world.policies /\ request.organization \in world.organizations
    /\ {stop, called, misbehaved} \subseteq BOOLEAN
    /\ pc \in {"Review", "Begin", "Reconcile", "Prepare", "Call", "Returned", "Splice",
               "Validate", "DecodeSource", "DecodeOutput", "Publish", "Done"}
    /\ stage \in {"TransformPlanning", "MetadataReconciliation",
                  "CoefficientTransformation", "OutputValidation"}
    /\ executionState \in {"NotStarted", "Started"}
    /\ Len(codec) \leq 1 /\ Len(completed) \leq 1
    /\ (result.error = "pending") = (pc # "Done")

Published == pc = "Done" /\ result.error = None

\* A plan takes no more than it must and a refusal has no way around it.  Edge
\* pixels go only under the trimming policy, only where the codec cannot turn
\* them, less than one iMCU of them, and something is left; the planner refuses
\* for want of whole iMCUs exactly when the codec would refuse TJXOPT_PERFECT or
\* leave a mirrored side unmirrored; and the pixel limit is decided by the
\* product of the sides as integers, also where the 64-bit product would wrap
\* (createPlan against TJXOPT_PERFECT and TJXOPT_TRIM).
PlanIsBest ==
    LET imcu == NativeImcu(reviewed.components)
        product == reviewed.dims.w * reviewed.dims.h
    IN  /\ approved.error = None =>
               /\ product \leq MaximumPixelCount
               /\ plan.discarded.w < imcu.w /\ plan.discarded.h < imcu.h
               /\ Retained(plan).w > 0 /\ Retained(plan).h > 0
               /\ willDiscardEdgePixels(plan) =>
                      /\ request.policy = "TrimPartialMinimumCodedUnits"
                      /\ ~NativePerfect(NativeOperation(plan.transform), reviewed.dims, imcu)
        /\ approved.error \in {None, "PerfectCoefficientTransformUnavailable"} =>
               LET op == NativeOperation(losslessTransformFor(
                             analyzeOrientation(reviewed.segments).value.authoritative))
                   sides == MirroredSides(op, reviewed.dims, imcu)
               IN  (approved.error # None) =
                       \/ /\ request.policy = "RequirePerfectCoefficientTransform"
                          /\ ~NativePerfect(op, reviewed.dims, imcu)
                       \/ MirrorsColumns(op) # sides.columns
                       \/ MirrorsRows(op) # sides.rows
        /\ approved.error = "PixelCountLimitExceeded" =>
               /\ product > MaximumPixelCount
               /\ approved.observed = IF product > MaxUint64 THEN None ELSE product

\* A viewer reads the orientation from Exif, and from XMP where Exif has none.
ViewerOrientation(segments) ==
    LET stated(kind) == {i \in DOMAIN segments :
                             segments[i].kind = kind /\ segments[i].orientation # <<>>}
        read == IF stated("exif") # {} THEN stated("exif") ELSE stated("xmp")
    IN  IF read = {} THEN "TopLeft"
        ELSE tryParseExifOrientation(segments[Min(read)].orientation[1])

\* A viewer that follows the metadata shows every retained pixel where it
\* showed it in the source.
ShowsTheSame ==
    LET before == ViewerOrientation(source.segments)
        after == ViewerOrientation(result.output.segments)
        kept == Retained(plan)
    IN  \A x \in 0..(kept.w - 1), y \in 0..(kept.h - 1) :
            LET p == NativePlace(result.output.operation, source.dims,
                                 NativeImcu(source.components), x, y)
            IN  DisplayPlace(after, result.output.dims, p[1], p[2])
                    = DisplayPlace(before, kept, x, y)

\* Every Exif or standard-XMP dimension is that of the pixels, and no preview of
\* the pixels before a transform is left.
MetadataIsTrue ==
    \A s \in ToSet(result.output.segments) :
        /\ s.kind \in {"exif", "xmp"} =>
               /\ ToSet(s.width) \subseteq {result.output.dims.w}
               /\ ToSet(s.height) \subseteq {result.output.dims.h}
        /\ LostThumbnail(s) => result.output.operation = "TJXOP_NONE"

\* Every other segment, in order, the facts of the rewritten ones, and the
\* coding of the image are the source's.
NothingElseChanges ==
    LET rest(segments) == Chosen(segments, {i \in DOMAIN segments :
                                     segments[i].kind \notin {"jfxx", "photoshop"}})
        Facts(s) == IF s.kind \in {"exif", "xmp", "jfif"} THEN <<s.kind, s.other>> ELSE s
        facts(segments) == [i \in DOMAIN rest(segments) |-> Facts(rest(segments)[i])]
    IN  /\ facts(result.output.segments) = facts(source.segments)
        /\ result.output.restart = source.restart
        /\ result.output.precision = source.precision
        /\ result.output.arithmetic = source.arithmetic
        /\ result.output.tables = expectedTables /\ ~result.output.trailing

\* Reviewing the output again asks for no transform, has no finding and leaves
\* no byte of its metadata to rewrite.
NeedsNothing ==
    LET again == analyze(result.output, request.policy, request.organization)
    IN  /\ again.error = None
        /\ again.value.plan.transform = "None" /\ again.value.findings = {}
        /\ reconcileMarkerSegments(result.output.segments, again.value.plan).value.segments
               = result.output.segments

\* What is published is the reviewed picture, upright, with true metadata and
\* nothing left to do, whatever the writer of the metadata did; the codec is
\* trusted with the operation it was asked for and with nothing else
\* (createValidatedOutput, MetadataReconciler, JpegOutputValidator::validate).
PublishedIsTrue ==
    Published => ShowsTheSame /\ MetadataIsTrue /\ NothingElseChanges /\ NeedsNothing

\* Whatever a published file lost was shown in the review: a preview is gone,
\* and the evidence says so, exactly when the finding was there, and so for
\* the trimmed edges; the file reviewed is the file processed in all the
\* analysis sees (analyze's findings, the second analysis of
\* createValidatedOutput, JpegOutputMetadataEvidence).
LossesWereReviewed ==
    Published =>
        LET preview == <<"EmbeddedThumbnailRemovalRequired">>
            has(image) == \E s \in ToSet(image.segments) : LostThumbnail(s)
            gone == has(source) /\ ~has(result.output)
        IN  /\ gone = (preview \in approved.value.findings)
            /\ result.evidence.removed = gone
            /\ (Retained(plan) # source.dims) =
                   (<<"PartialMinimumCodedUnitTrimRequired", plan.discarded>>
                        \in approved.value.findings)

\* The refusals the review does not foresee.
Repeats(s) == s.kind \in {"exif", "xmp"} /\ (Len(s.width) > 1 \/ Len(s.height) > 1)
RefusedLate ==
    \/ result.error = "UnsupportedJpegRestartIntervalChanges" /\ source.restart = "changes"
    \/ result.error = "EncodedFileTooLarge" /\ fileLength(Spliced) > MaximumFileLength
    \/ /\ result.error = "CoefficientTransformationFailed"
       /\ \E image \in NativeOutput : Overlong(image)
    \/ /\ result.error = "OutputValidationFailed"
       /\ scan(codec[1]).error = "MetadataLengthLimitExceeded"
    \/ result.error = "FullDecode" /\ ~source.decodes
    \/ result.error = "DerivedDimensions" /\ \E s \in ToSet(source.segments) : Repeats(s)

\* A file that is not published has a reason.  A cancelled result says
\* NotStarted only if the codec was never entered and Started only if it was,
\* wherever the stop request fell (executionState and the two checks around
\* tj3Transform); and a reviewed file that did not change is finished unless
\* someone stopped it or something native failed, up to the refusals the review
\* does not foresee: restart intervals that change, a dimension stated twice, an
\* output over the limits, out of the codec or with its metadata put in, and a
\* codestream that does not decode (analyze's preflight against what
\* createValidatedOutput and the validator refuse).
RefusalsAreExplained ==
    pc = "Done" =>
        /\ result.error = "Cancelled" =>
               result.execution = IF called THEN "Started" ELSE "NotStarted"
        /\ (approved.error = None /\ source = reviewed /\ ~stop /\ ~misbehaved) =>
               Published \/ RefusedLate

\* The buffers in scope in createValidatedOutput and what it calls.
OwnBuffers ==
    LET capacity == outputBufferCapacityBytes(plan.output)
        segments == TotalSize(metadata)
    IN  fileLength(source) +
        CASE pc \in {"Call", "Returned"} -> segments + 2 * capacity + IntermediateBudget
          [] pc = "Splice" -> segments + capacity + codec[1].length + segments
          [] pc \in {"Validate", "DecodeSource", "DecodeOutput"} ->
                 fileLength(output) + IntermediateBudget
          [] pc = "Publish" -> fileLength(output) + 2 * TotalSize(output.segments)
          [] OTHER -> 0

\* The buffers the engine itself holds at any point of the work stay within the
\* estimate the admission reserved, unless the estimate is "unknown"
\* (estimatedWorkingMemoryBytes against the scopes of createValidatedOutput).
EstimateCoversBuffers ==
    (approved.error = None /\ source = reviewed) =>
        LET estimate == estimatedWorkingMemoryBytes(fileLength(reviewed), approved.value)
        IN  estimate = MaxUint64 \/ OwnBuffers \leq estimate
=============================================================================
