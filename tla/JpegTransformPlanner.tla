------------------------ MODULE JpegTransformPlanner ------------------------
(***************************************************************************)
(* JpegTransformPlanner::createPlan and the orientation tables it rests on, *)
(* the table that hands the planned transform to libjpeg-turbo, and what    *)
(* libjpeg-turbo then does to the geometry (external).                      *)
(*                                                                         *)
(* The reference is the contract of ExifOrientation.h: the name of an       *)
(* orientation says on which sides of the display the stored row 0 and the  *)
(* stored column 0 belong.                                                  *)
(***************************************************************************)
EXTENDS Integers

CONSTANT MaxUint64  \* the largest std::uint64_t

ASSUME PlannerAssumption == MaxUint64 \in Nat \ {0}

None == "none"

Orientations == <<"TopLeft", "TopRight", "BottomRight", "BottomLeft",
                  "LeftTop", "RightTop", "RightBottom", "LeftBottom">>
Policies == {"RequirePerfectCoefficientTransform", "TrimPartialMinimumCodedUnits"}
ScanOrganizations == {"PreserveSource", "SequentialDct", "ProgressiveDct"}

tryParseExifOrientation(raw) ==
    IF raw \in DOMAIN Orientations THEN Orientations[raw] ELSE None

losslessTransformFor(o) ==
    [TopLeft |-> "None", TopRight |-> "FlipHorizontal",
     BottomRight |-> "Rotate180", BottomLeft |-> "FlipVertical",
     LeftTop |-> "Transpose", RightTop |-> "Rotate90Clockwise",
     RightBottom |-> "Transverse", LeftBottom |-> "Rotate270Clockwise"][o]

affectedSourceEdgesFor(t) ==
    [right |-> t \in {"FlipHorizontal", "Rotate270Clockwise", "Rotate180", "Transverse"},
     bottom |-> t \in {"FlipVertical", "Rotate90Clockwise", "Rotate180", "Transverse"}]

swapsAxes(t) == t \in {"Transpose", "Rotate90Clockwise", "Transverse", "Rotate270Clockwise"}

Swapped(dims) == [w |-> dims.h, h |-> dims.w]

Success(value) == [error |-> None, value |-> value]
Failure(code) == [error |-> code]
malformedGeometryError == Failure("MalformedJpegStructure")
pixelCountLimitError(observed) ==
    [error |-> "PixelCountLimitExceeded", observed |-> observed]
perfectTransformUnavailableError == Failure("PerfectCoefficientTransformUnavailable")

\* The product is computed only when the division shows that it fits.
PixelCount(dims, limit) ==
    IF dims.w > MaxUint64 \div dims.h THEN pixelCountLimitError(None)
    ELSE IF dims.w * dims.h > limit THEN pixelCountLimitError(dims.w * dims.h)
    ELSE Success(dims.w * dims.h)

PlanGeometry(request) ==
    LET dims == request.dims
        transform == losslessTransformFor(request.orientation)
        edges == affectedSourceEdgesFor(transform)
        discarded == [w |-> IF edges.right THEN dims.w % request.imcu.w ELSE 0,
                      h |-> IF edges.bottom THEN dims.h % request.imcu.h ELSE 0]
        retained == [w |-> dims.w - discarded.w, h |-> dims.h - discarded.h]
    IN  [transform |-> transform, source |-> dims,
         output |-> IF swapsAxes(transform) THEN Swapped(retained) ELSE retained,
         policy |-> request.policy, organization |-> request.organization,
         imcu |-> request.imcu, discarded |-> discarded]

willDiscardEdgePixels(plan) == plan.discarded.w # 0 \/ plan.discarded.h # 0

\* Mutant: the test for an image smaller than one iMCU is missing.
PlanWithoutWholeUnit(request, maximumPixelCount) ==
    IF 0 \in {request.dims.w, request.dims.h, request.imcu.w, request.imcu.h}
    THEN malformedGeometryError
    ELSE LET pixels == PixelCount(request.dims, maximumPixelCount)
             plan == PlanGeometry(request)
         IN  IF pixels.error # None THEN pixels
             ELSE IF /\ willDiscardEdgePixels(plan)
                     /\ plan.policy = "RequirePerfectCoefficientTransform"
             THEN perfectTransformUnavailableError
             ELSE Success(plan)

createPlan(request, maximumPixelCount) ==
    IF 0 \in {request.dims.w, request.dims.h, request.imcu.w, request.imcu.h}
    THEN malformedGeometryError
    ELSE LET pixels == PixelCount(request.dims, maximumPixelCount)
             plan == PlanGeometry(request)
         IN  IF pixels.error # None THEN pixels
             ELSE IF \/ /\ willDiscardEdgePixels(plan)
                        /\ plan.policy = "RequirePerfectCoefficientTransform"
                     \/ plan.discarded.w = plan.source.w
                     \/ plan.discarded.h = plan.source.h
             THEN perfectTransformUnavailableError
             ELSE Success(plan)

-----------------------------------------------------------------------------
(* What the codec is asked to do, and what it does (external).             *)

NativeOperation(transform) ==
    [None |-> "TJXOP_NONE", FlipHorizontal |-> "TJXOP_HFLIP",
     Rotate180 |-> "TJXOP_ROT180", FlipVertical |-> "TJXOP_VFLIP",
     Transpose |-> "TJXOP_TRANSPOSE", Rotate90Clockwise |-> "TJXOP_ROT90",
     Transverse |-> "TJXOP_TRANSVERSE", Rotate270Clockwise |-> "TJXOP_ROT270"][transform]

\* The codec transposes first and then mirrors the columns or the rows.
Transposes(op) == op \in {"TJXOP_TRANSPOSE", "TJXOP_ROT90", "TJXOP_TRANSVERSE", "TJXOP_ROT270"}
MirrorsColumns(op) == op \in {"TJXOP_HFLIP", "TJXOP_ROT180", "TJXOP_ROT90", "TJXOP_TRANSVERSE"}
MirrorsRows(op) == op \in {"TJXOP_VFLIP", "TJXOP_ROT180", "TJXOP_ROT270", "TJXOP_TRANSVERSE"}

\* A mirrored side keeps its whole iMCUs; a side without one is left alone.
Trimmed(length, unit) == IF length < unit THEN length ELSE length - (length % unit)

NativeDimensions(op, dims, imcu) ==
    LET out == IF Transposes(op) THEN Swapped(dims) ELSE dims
        unit == IF Transposes(op) THEN Swapped(imcu) ELSE imcu
    IN  [w |-> IF MirrorsColumns(op) THEN Trimmed(out.w, unit.w) ELSE out.w,
         h |-> IF MirrorsRows(op) THEN Trimmed(out.h, unit.h) ELSE out.h]

\* TJXOPT_PERFECT refuses a mirrored side that ends in a partial iMCU.
NativePerfect(op, dims, imcu) ==
    LET out == IF Transposes(op) THEN Swapped(dims) ELSE dims
        unit == IF Transposes(op) THEN Swapped(imcu) ELSE imcu
    IN  /\ MirrorsColumns(op) => out.w % unit.w = 0
        /\ MirrorsRows(op) => out.h % unit.h = 0

\* Whole iMCUs are mirrored; with none, the side stays as it was.
MirroredSides(op, dims, imcu) ==
    LET out == IF Transposes(op) THEN Swapped(dims) ELSE dims
        unit == IF Transposes(op) THEN Swapped(imcu) ELSE imcu
    IN  [columns |-> MirrorsColumns(op) /\ out.w >= unit.w,
         rows |-> MirrorsRows(op) /\ out.h >= unit.h]

\* Where the codec puts the source pixel in column x of row y.
NativePlace(op, dims, imcu, x, y) ==
    LET out == NativeDimensions(op, dims, imcu)
        mirrored == MirroredSides(op, dims, imcu)
        column == IF Transposes(op) THEN y ELSE x
        row == IF Transposes(op) THEN x ELSE y
    IN  <<IF mirrored.columns THEN out.w - 1 - column ELSE column,
          IF mirrored.rows THEN out.h - 1 - row ELSE row>>

-----------------------------------------------------------------------------
(* The reference: the sides named by the orientation.                      *)

RowZeroSide(o) ==
    CASE o \in {"TopLeft", "TopRight"} -> "top"
      [] o \in {"BottomRight", "BottomLeft"} -> "bottom"
      [] o \in {"LeftTop", "LeftBottom"} -> "left"
      [] o \in {"RightTop", "RightBottom"} -> "right"

ColumnZeroSide(o) ==
    CASE o \in {"TopLeft", "BottomLeft"} -> "left"
      [] o \in {"TopRight", "BottomRight"} -> "right"
      [] o \in {"LeftTop", "RightTop"} -> "top"
      [] o \in {"RightBottom", "LeftBottom"} -> "bottom"

\* Distances from a side become coordinates of a display of size dims.
Towards(side, distance, dims) ==
    CASE side = "left" -> distance [] side = "right" -> dims.w - 1 - distance
      [] side = "top" -> distance [] side = "bottom" -> dims.h - 1 - distance

DisplaySize(o, dims) ==
    IF RowZeroSide(o) \in {"top", "bottom"} THEN dims ELSE Swapped(dims)

\* Where a viewer that follows the orientation shows column x of row y.
DisplayPlace(o, dims, x, y) ==
    LET size == DisplaySize(o, dims)
        byRow == Towards(RowZeroSide(o), y, size)
        byColumn == Towards(ColumnZeroSide(o), x, size)
    IN  IF RowZeroSide(o) \in {"top", "bottom"} THEN <<byColumn, byRow>>
        ELSE <<byRow, byColumn>>

Retained(plan) == [w |-> plan.source.w - plan.discarded.w,
                   h |-> plan.source.h - plan.discarded.h]
=============================================================================
