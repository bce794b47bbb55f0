---------------------------- MODULE EngineProofs ----------------------------
(***************************************************************************)
(* LibJpegTurboTransformationEngine for images of every size, sampling and  *)
(* orientation, every sequence of metadata segments, every misbehaviour of  *)
(* the codec that the model has, and every resource limit.                  *)
(***************************************************************************)
EXTENDS LibJpegTurboTransformationEngine, FiniteSetTheorems, NaturalsInduction, TLAPS

-----------------------------------------------------------------------------
(* Arithmetic *)

\* Division with remainder, as the planner and the codec use it.
LEMMA Remainder ==
    ASSUME NEW a \in Nat, NEW b \in Nat \ {0}
    PROVE  /\ a % b \in Nat /\ a % b < b /\ a % b <= a
           /\ a < b <=> a % b = a
  OBVIOUS

\* createPlan's test before it multiplies: the product does not fit exactly when
\* one side exceeds the quotient.
LEMMA ProductFits ==
    ASSUME NEW m \in Nat, NEW w \in Nat, NEW h \in Nat \ {0}
    PROVE  w > m \div h <=> w * h > m
<1> DEFINE q == m \div h
           r == m % h
<1>1. q \in Nat /\ r \in Nat /\ r < h /\ m = h * q + r
  OBVIOUS
<1> HIDE DEF q, r
<1>2. CASE w > q
  <2>1. PICK d \in Nat : w = q + 1 + d
    <3>1. w - q - 1 \in Nat /\ w = q + 1 + (w - q - 1)
      BY <1>1, <1>2
    <3> QED
      BY <3>1
  <2>2. w * h = h * q + h + d * h
    BY <1>1, <2>1
  <2>3. d * h \in Nat
    BY <2>1
  <2> QED
    BY <1>1, <1>2, <2>2, <2>3 DEF q
<1>3. CASE w <= q
  <2>1. PICK d \in Nat : q = w + d
    <3>1. q - w \in Nat /\ q = w + (q - w)
      BY <1>1, <1>3
    <3> QED
      BY <3>1
  <2>2. h * q = w * h + d * h
    BY <1>1, <2>1
  <2>3. d * h \in Nat /\ w * h \in Nat
    BY <2>1
  <2> QED
    BY <1>1, <1>3, <2>2, <2>3 DEF q
<1> QED
  BY <1>1, <1>2, <1>3

\* The smallest of a set of numbers.
LEMMA Smallest ==
    ASSUME NEW S, S \subseteq Nat, S # {}
    PROVE  \E m \in S : \A y \in S : y >= m
<1> DEFINE R == OpToRel(<, Nat)
<1>0. \A pair \in Nat \X Nat : pair[1] < pair[2] => pair \in R
  BY Zenon DEF OpToRel
<1>1. PICK m \in S : \A y \in S : ~(<<y, m>> \in R)
  BY NatLessThanWellFounded, WFMin
<1> HIDE DEF R
<1>2. \A y \in S : y >= m
  <2> SUFFICES ASSUME NEW y \in S, ~(y >= m) PROVE FALSE
    OBVIOUS
  <2>1. y \in Nat /\ m \in Nat /\ y < m
    OBVIOUS
  <2>2. <<y, m>> \in Nat \X Nat /\ <<y, m>>[1] < <<y, m>>[2]
    BY <2>1
  <2>3. <<y, m>> \in R
    BY <1>0, <2>2, Zenon
  <2> QED
    BY <1>1, <2>3
<1> QED
  BY <1>2

\* The largest of finitely many numbers.
LEMMA Largest ==
    ASSUME NEW n \in Nat, NEW S, S \subseteq 0..n, S # {}
    PROVE  Max(S) \in S /\ \A y \in S : Max(S) >= y
<1> DEFINE T == {n - x : x \in S}
<1>1. \A x \in S : x \in 0..n /\ n - x \in Nat
  OBVIOUS
<1>2. T \subseteq Nat /\ T # {}
  <2>1. \A t \in T : t \in Nat
    BY <1>1, Zenon
  <2>2. PICK x : x \in S
    BY Zenon
  <2>3. n - x \in T
    BY <2>2, Zenon
  <2> QED
    BY <2>1, <2>3, Zenon
<1> HIDE DEF T
<1>3. PICK m \in T : \A y \in T : y >= m
  BY <1>2, Smallest
<1>4. PICK x \in S : m = n - x
  BY <1>3 DEF T
<1>5. \A y \in S : x >= y
  BY <1>1, <1>3, <1>4 DEF T
<1> QED
  BY <1>5 DEF Max

-----------------------------------------------------------------------------
(* Geometry *)

\* The iMCU of the analysis is the codec's, and is not empty.
LEMMA UnitsAgree ==
    ASSUME NEW components \in Seq([w : 1..4, h : 1..4]) \ {<<>>}
    PROVE  /\ sourceImcu(components) = NativeImcu(components)
           /\ NativeImcu(components).w \in Nat \ {0} /\ NativeImcu(components).h \in Nat \ {0}
<1> DEFINE ws == {component["w"] : component \in ToSet(components)}
           hs == {component["h"] : component \in ToSet(components)}
<1>0. DctSize \in Nat \ {0}
  BY EngineAssumption
<1>1. ToSet(components) # {} /\ ToSet(components) \subseteq [w : 1..4, h : 1..4]
  <2> DEFINE Factors == [w : 1..4, h : 1..4]
  <2>0. components \in Seq(Factors) /\ components # <<>>
    OBVIOUS
  <2> HIDE DEF Factors
  <2>1. /\ DOMAIN components = 1..Len(components) /\ 1 \in DOMAIN components
        /\ \A i \in DOMAIN components : components[i] \in Factors
    BY <2>0
  <2> QED
    BY <2>1 DEF ToSet, Factors
<1>2. ws # {} /\ ws \subseteq 1..4 /\ ws \subseteq 0..4
  BY <1>1
<1>3. hs # {} /\ hs \subseteq 1..4 /\ hs \subseteq 0..4
  BY <1>1
<1>4. sourceImcu(components) = [w |-> DctSize * (IF Len(components) = 1 THEN 1 ELSE Max(ws)),
                                h |-> DctSize * (IF Len(components) = 1 THEN 1 ELSE Max(hs))]
  BY DEF sourceImcu
<1>5. NativeImcu(components) = IF Len(components) = 1 THEN [w |-> DctSize, h |-> DctSize]
                               ELSE [w |-> DctSize * Max(ws), h |-> DctSize * Max(hs)]
  BY DEF NativeImcu
<1> HIDE DEF ws, hs
<1>6. Max(ws) \in 1..4
  <2>1. Max(ws) \in ws
    BY <1>2, Largest
  <2> QED
    BY <1>2, <2>1
<1>7. Max(hs) \in 1..4
  <2>1. Max(hs) \in hs
    BY <1>3, Largest
  <2> QED
    BY <1>3, <2>1
<1>8. DctSize * 1 = DctSize /\ \A k \in 1..4 : DctSize * k \in Nat \ {0}
  BY <1>0
<1> QED
  BY <1>0, <1>4, <1>5, <1>6, <1>7, <1>8

Orientation == {"TopLeft", "TopRight", "BottomRight", "BottomLeft",
                "LeftTop", "RightTop", "RightBottom", "LeftBottom"}
OperationFor(orientation) == NativeOperation(losslessTransformFor(orientation))

\* The codec mirrors exactly the source edges that the planner takes for affected.
LEMMA EdgesAreMirrored ==
    ASSUME NEW o \in Orientation, NEW edges, edges = affectedSourceEdgesFor(losslessTransformFor(o)),
           NEW op, op = OperationFor(o)
    PROVE  /\ edges.right <=> IF Transposes(op) THEN MirrorsRows(op) ELSE MirrorsColumns(op)
           /\ edges.bottom <=> IF Transposes(op) THEN MirrorsColumns(op) ELSE MirrorsRows(op)
<1>1. <<o, losslessTransformFor(o), op>> \in
        {<<"TopLeft", "None", "TJXOP_NONE">>,
         <<"TopRight", "FlipHorizontal", "TJXOP_HFLIP">>,
         <<"BottomRight", "Rotate180", "TJXOP_ROT180">>,
         <<"BottomLeft", "FlipVertical", "TJXOP_VFLIP">>,
         <<"LeftTop", "Transpose", "TJXOP_TRANSPOSE">>,
         <<"RightTop", "Rotate90Clockwise", "TJXOP_ROT90">>,
         <<"RightBottom", "Transverse", "TJXOP_TRANSVERSE">>,
         <<"LeftBottom", "Rotate270Clockwise", "TJXOP_ROT270">>}
  BY DEF Orientation, OperationFor, losslessTransformFor, NativeOperation
<1> QED
  BY <1>1 DEF affectedSourceEdgesFor, Transposes, MirrorsColumns, MirrorsRows

Size == [w : Nat, h : Nat]
Unit == [w : Nat \ {0}, h : Nat \ {0}]

\* When the codec refuses TJXOPT_PERFECT, and when it leaves a side unmirrored,
\* by the edges of the source.
LEMMA CodecRefusals ==
    ASSUME NEW o \in Orientation, NEW edges, edges = affectedSourceEdgesFor(losslessTransformFor(o)),
           NEW op, op = OperationFor(o), NEW dims \in Size, NEW imcu \in Unit,
           NEW sides, sides = MirroredSides(op, dims, imcu)
    PROVE  /\ NativePerfect(op, dims, imcu) <=> /\ edges.right => dims.w % imcu.w = 0
                                                /\ edges.bottom => dims.h % imcu.h = 0
           /\ MirrorsColumns(op) # sides.columns \/ MirrorsRows(op) # sides.rows <=>
                 \/ edges.right /\ dims.w < imcu.w
                 \/ edges.bottom /\ dims.h < imcu.h
<1>1. /\ edges.right <=> IF Transposes(op) THEN MirrorsRows(op) ELSE MirrorsColumns(op)
      /\ edges.bottom <=> IF Transposes(op) THEN MirrorsColumns(op) ELSE MirrorsRows(op)
  BY EdgesAreMirrored
<1>2. /\ Transposes(op) \in BOOLEAN /\ MirrorsRows(op) \in BOOLEAN /\ MirrorsColumns(op) \in BOOLEAN
      /\ dims.w \in Nat /\ dims.h \in Nat /\ imcu.w \in Nat /\ imcu.h \in Nat
  BY DEF Transposes, MirrorsColumns, MirrorsRows, Size, Unit
<1>3. CASE Transposes(op)
  <2>1. NativePerfect(op, dims, imcu) <=> /\ MirrorsColumns(op) => dims.h % imcu.h = 0
                                          /\ MirrorsRows(op) => dims.w % imcu.w = 0
    BY <1>3 DEF NativePerfect, Swapped
  <2>2. sides = [columns |-> MirrorsColumns(op) /\ dims.h >= imcu.h,
                 rows |-> MirrorsRows(op) /\ dims.w >= imcu.w]
    BY <1>3 DEF MirroredSides, Swapped
  <2> QED
    BY <1>1, <1>2, <1>3, <2>1, <2>2
<1>4. CASE ~Transposes(op)
  <2>1. NativePerfect(op, dims, imcu) <=> /\ MirrorsColumns(op) => dims.w % imcu.w = 0
                                          /\ MirrorsRows(op) => dims.h % imcu.h = 0
    BY <1>4 DEF NativePerfect
  <2>2. sides = [columns |-> MirrorsColumns(op) /\ dims.w >= imcu.w,
                 rows |-> MirrorsRows(op) /\ dims.h >= imcu.h]
    BY <1>4 DEF MirroredSides
  <2> QED
    BY <1>1, <1>2, <1>4, <2>1, <2>2
<1> QED
  BY <1>3, <1>4

\* What createPlan decides, by the edges of the source.
LEMMA PlannerDecides ==
    ASSUME NEW asked, asked.orientation \in Orientation, asked.dims \in Size,
           asked.imcu \in Unit, asked.policy \in Policies, NEW limit \in 0..MaxUint64,
           NEW edges, edges = affectedSourceEdgesFor(losslessTransformFor(asked.orientation)),
           NEW planned, planned = createPlan(asked, limit),
           NEW dims, dims = asked.dims, NEW imcu, imcu = asked.imcu
    PROVE  /\ planned.error \in {None, "MalformedJpegStructure", "PixelCountLimitExceeded",
                                 "PerfectCoefficientTransformUnavailable"}
           /\ planned.error \in {None, "PerfectCoefficientTransformUnavailable"} =>
                /\ dims.w # 0 /\ dims.h # 0 /\ dims.w * dims.h <= limit
                /\ planned.error # None <=>
                     \/ /\ asked.policy = "RequirePerfectCoefficientTransform"
                        /\ ~(/\ edges.right => dims.w % imcu.w = 0
                             /\ edges.bottom => dims.h % imcu.h = 0)
                     \/ edges.right /\ dims.w < imcu.w
                     \/ edges.bottom /\ dims.h < imcu.h
           /\ planned.error = None => planned.value = PlanGeometry(asked)
           /\ planned.error = "PixelCountLimitExceeded" =>
                /\ dims.w * dims.h > limit
                /\ planned.observed = IF dims.w * dims.h > MaxUint64 THEN None
                                      ELSE dims.w * dims.h
<1> DEFINE pixels == PixelCount(dims, limit)
           geometry == PlanGeometry(asked)
<1>0. /\ dims.w \in Nat /\ dims.h \in Nat /\ imcu.w \in Nat \ {0} /\ imcu.h \in Nat \ {0}
      /\ MaxUint64 \in Nat
  BY PlannerAssumption DEF Size, Unit
<1>1. CASE 0 \in {dims.w, dims.h}
  <2>1. planned = malformedGeometryError
    BY <1>1 DEF createPlan
  <2> QED
    BY <2>1 DEF malformedGeometryError, Failure, None
<1>2. CASE 0 \notin {dims.w, dims.h}
  <2>1. planned = IF pixels.error # None THEN pixels
                  ELSE IF \/ /\ willDiscardEdgePixels(geometry)
                             /\ geometry.policy = "RequirePerfectCoefficientTransform"
                          \/ geometry.discarded.w = geometry.source.w
                          \/ geometry.discarded.h = geometry.source.h
                  THEN perfectTransformUnavailableError
                  ELSE Success(geometry)
    BY <1>0, <1>2 DEF createPlan
  <2>2. dims.w > MaxUint64 \div dims.h <=> dims.w * dims.h > MaxUint64
    BY <1>0, <1>2, ProductFits
  <2>3. /\ geometry.policy = asked.policy /\ geometry.source = dims
        /\ geometry.discarded = [w |-> IF edges.right THEN dims.w % imcu.w ELSE 0,
                                 h |-> IF edges.bottom THEN dims.h % imcu.h ELSE 0]
    BY DEF PlanGeometry
  <2>4. /\ dims.w % imcu.w = dims.w <=> dims.w < imcu.w
        /\ dims.h % imcu.h = dims.h <=> dims.h < imcu.h
    BY <1>0, Remainder
  <2>5. dims.w * dims.h \in Nat
    BY <1>0
  <2>6. \/ /\ dims.w * dims.h > MaxUint64
           /\ pixels = [error |-> "PixelCountLimitExceeded", observed |-> None]
        \/ /\ dims.w * dims.h <= MaxUint64 /\ dims.w * dims.h > limit
           /\ pixels = [error |-> "PixelCountLimitExceeded", observed |-> dims.w * dims.h]
        \/ /\ dims.w * dims.h <= limit /\ pixels.error = None
    BY <1>0, <2>2, <2>5 DEF PixelCount, pixelCountLimitError, Success, None
  <2>7. CASE dims.w * dims.h > MaxUint64
    <3>1. planned = [error |-> "PixelCountLimitExceeded", observed |-> None]
      BY <1>0, <2>1, <2>5, <2>6, <2>7 DEF None
    <3> QED
      BY <1>0, <2>5, <2>7, <3>1 DEF None
  <2>8. CASE dims.w * dims.h <= MaxUint64 /\ dims.w * dims.h > limit
    <3>1. planned = [error |-> "PixelCountLimitExceeded", observed |-> dims.w * dims.h]
      BY <1>0, <2>1, <2>5, <2>6, <2>8 DEF None
    <3> QED
      BY <1>0, <2>5, <2>8, <3>1 DEF None
  <2>9. CASE dims.w * dims.h <= limit
    <3>1. pixels.error = None
      BY <1>0, <2>5, <2>6, <2>9
    <3> DEFINE refuses ==
                 \/ /\ asked.policy = "RequirePerfectCoefficientTransform"
                    /\ ~(/\ edges.right => dims.w % imcu.w = 0
                         /\ edges.bottom => dims.h % imcu.h = 0)
                 \/ edges.right /\ dims.w < imcu.w
                 \/ edges.bottom /\ dims.h < imcu.h
    <3>2. planned = IF refuses THEN perfectTransformUnavailableError ELSE Success(geometry)
      BY <1>0, <1>2, <2>1, <2>3, <2>4, <3>1 DEF willDiscardEdgePixels
    <3> HIDE DEF refuses
    <3>3. /\ planned.error # None <=> refuses
          /\ planned.error \in {None, "PerfectCoefficientTransformUnavailable"}
          /\ planned.error = None => planned.value = geometry
      BY <3>2 DEF perfectTransformUnavailableError, Failure, Success, None
    <3> QED
      BY <1>2, <2>9, <3>3 DEF refuses, None
  <2> QED
    BY <1>0, <2>5, <2>7, <2>8, <2>9
<1> QED
  BY <1>1, <1>2

-----------------------------------------------------------------------------
(* Where the pixels go *)

\* What is kept of a side: all of it, or its whole units where it is mirrored.
KeptSides(edges, dims, imcu) == [w |-> IF edges.right THEN dims.w - (dims.w % imcu.w) ELSE dims.w,
                                 h |-> IF edges.bottom THEN dims.h - (dims.h % imcu.h) ELSE dims.h]

\* The codec trims to what the planner keeps, and mirrors every side it is asked to.
LEMMA CodecKeeps ==
    ASSUME NEW o \in Orientation, NEW edges, edges = affectedSourceEdgesFor(losslessTransformFor(o)),
           NEW op, op = OperationFor(o), NEW dims \in Size, NEW imcu \in Unit,
           edges.right => dims.w >= imcu.w, edges.bottom => dims.h >= imcu.h,
           NEW kept, kept = KeptSides(edges, dims, imcu)
    PROVE  /\ NativeDimensions(op, dims, imcu) = IF Transposes(op) THEN Swapped(kept) ELSE kept
           /\ MirroredSides(op, dims, imcu) = [columns |-> MirrorsColumns(op), rows |-> MirrorsRows(op)]
<1>1. /\ edges.right <=> IF Transposes(op) THEN MirrorsRows(op) ELSE MirrorsColumns(op)
      /\ edges.bottom <=> IF Transposes(op) THEN MirrorsColumns(op) ELSE MirrorsRows(op)
  BY EdgesAreMirrored
<1>2. /\ Transposes(op) \in BOOLEAN /\ MirrorsRows(op) \in BOOLEAN /\ MirrorsColumns(op) \in BOOLEAN
      /\ dims.w \in Nat /\ dims.h \in Nat /\ imcu.w \in Nat /\ imcu.h \in Nat
  BY DEF Transposes, MirrorsColumns, MirrorsRows, Size, Unit
<1>3. CASE Transposes(op)
  <2>1. NativeDimensions(op, dims, imcu) =
          [w |-> IF MirrorsColumns(op) THEN Trimmed(dims.h, imcu.h) ELSE dims.h,
           h |-> IF MirrorsRows(op) THEN Trimmed(dims.w, imcu.w) ELSE dims.w]
    BY <1>3 DEF NativeDimensions, Swapped
  <2>2. MirroredSides(op, dims, imcu) = [columns |-> MirrorsColumns(op) /\ dims.h >= imcu.h,
                                         rows |-> MirrorsRows(op) /\ dims.w >= imcu.w]
    BY <1>3 DEF MirroredSides, Swapped
  <2> QED
    BY <1>1, <1>2, <1>3, <2>1, <2>2 DEF Trimmed, Swapped, KeptSides
<1>4. CASE ~Transposes(op)
  <2>1. NativeDimensions(op, dims, imcu) =
          [w |-> IF MirrorsColumns(op) THEN Trimmed(dims.w, imcu.w) ELSE dims.w,
           h |-> IF MirrorsRows(op) THEN Trimmed(dims.h, imcu.h) ELSE dims.h]
    BY <1>4 DEF NativeDimensions
  <2>2. MirroredSides(op, dims, imcu) = [columns |-> MirrorsColumns(op) /\ dims.w >= imcu.w,
                                         rows |-> MirrorsRows(op) /\ dims.h >= imcu.h]
    BY <1>4 DEF MirroredSides
  <2> QED
    BY <1>1, <1>2, <1>4, <2>1, <2>2 DEF Trimmed, KeptSides
<1> QED
  BY <1>3, <1>4

\* Each of the eight operations puts a retained pixel where the orientation showed it.
LEMMA PixelsStayInPlace ==
    ASSUME NEW o \in Orientation, NEW edges, edges = affectedSourceEdgesFor(losslessTransformFor(o)),
           NEW op, op = OperationFor(o), NEW dims \in Size, NEW imcu \in Unit,
           edges.right => dims.w >= imcu.w, edges.bottom => dims.h >= imcu.h,
           NEW kept, kept = KeptSides(edges, dims, imcu), NEW x \in Int, NEW y \in Int,
           NEW out, out = NativeDimensions(op, dims, imcu),
           NEW place, place = NativePlace(op, dims, imcu, x, y)
    PROVE  DisplayPlace("TopLeft", out, place[1], place[2]) = DisplayPlace(o, kept, x, y)
<1>1. /\ out = IF Transposes(op) THEN Swapped(kept) ELSE kept
      /\ MirroredSides(op, dims, imcu) = [columns |-> MirrorsColumns(op), rows |-> MirrorsRows(op)]
  BY CodecKeeps
<1>2. place = <<IF MirrorsColumns(op) THEN out.w - 1 - (IF Transposes(op) THEN y ELSE x)
                ELSE IF Transposes(op) THEN y ELSE x,
                IF MirrorsRows(op) THEN out.h - 1 - (IF Transposes(op) THEN x ELSE y)
                ELSE IF Transposes(op) THEN x ELSE y>>
  BY <1>1 DEF NativePlace
<1>3. \A a, b : DisplayPlace("TopLeft", out, a, b) = <<a, b>>
  BY DEF DisplayPlace, DisplaySize, RowZeroSide, ColumnZeroSide, Towards
<1>4. \E a, b : kept = [w |-> a, h |-> b]
  BY DEF KeptSides
<1>5. <<o, op>> \in
        {<<"TopLeft", "TJXOP_NONE">>, <<"TopRight", "TJXOP_HFLIP">>,
         <<"BottomRight", "TJXOP_ROT180">>, <<"BottomLeft", "TJXOP_VFLIP">>,
         <<"LeftTop", "TJXOP_TRANSPOSE">>, <<"RightTop", "TJXOP_ROT90">>,
         <<"RightBottom", "TJXOP_TRANSVERSE">>, <<"LeftBottom", "TJXOP_ROT270">>}
  BY DEF Orientation, OperationFor, losslessTransformFor, NativeOperation
<1>6. DisplayPlace("TopLeft", out, place[1], place[2]) = place
  BY <1>2, <1>3
<1> QED
  BY <1>1, <1>2, <1>4, <1>5, <1>6 DEF Transposes, MirrorsColumns, MirrorsRows, Swapped,
     DisplayPlace, DisplaySize, RowZeroSide, ColumnZeroSide, Towards

-----------------------------------------------------------------------------
(* Selections from a sequence *)

\* The places of a set of positions count it through, in order.
LEMMA Places ==
    ASSUME NEW n \in Nat, NEW I \in SUBSET (1..n)
    PROVE  /\ IsFiniteSet(I) /\ Cardinality(I) \in Nat
           /\ \A i \in I : Place(I, i) \in 1..Cardinality(I)
           /\ \A i, j \in I : i < j => Place(I, i) < Place(I, j)
           /\ \A k \in 1..Cardinality(I) : \E i \in I : Place(I, i) = k
<1> DEFINE c == Cardinality(I)
           Below(i) == {j \in I : j <= i}
<1>1. IsFiniteSet(I) /\ c \in Nat
  <2>1. IsFiniteSet(1..n)
    BY FS_Interval
  <2>2. IsFiniteSet(I)
    BY <2>1, FS_Subset
  <2> QED
    BY <2>2, FS_CardinalityType
<1>2. \A i \in I : IsFiniteSet(Below(i)) /\ Cardinality(Below(i)) \in 1..c
  <2> SUFFICES ASSUME NEW i \in I PROVE IsFiniteSet(Below(i)) /\ Cardinality(Below(i)) \in 1..c
    OBVIOUS
  <2>1. Below(i) \in SUBSET I /\ Below(i) # {}
    OBVIOUS
  <2> HIDE DEF Below
  <2>2. IsFiniteSet(Below(i)) /\ Cardinality(Below(i)) <= c
    BY <1>1, <2>1, FS_Subset
  <2>3. Cardinality(Below(i)) \in Nat /\ Cardinality(Below(i)) # 0
    BY <2>1, <2>2, FS_CardinalityType, FS_EmptySet
  <2> QED
    BY <1>1, <2>2, <2>3
<1>3. \A i, j \in I : i < j => Cardinality(Below(i)) < Cardinality(Below(j))
  <2> SUFFICES ASSUME NEW i \in I, NEW j \in I, i < j
               PROVE  Cardinality(Below(i)) < Cardinality(Below(j))
    OBVIOUS
  <2>0. \A k \in I : k \in Int
    OBVIOUS
  <2>1. Below(i) \in SUBSET Below(j)
    <3>1. ASSUME NEW k \in Below(i) PROVE k \in Below(j)
      <4>1. k \in I /\ k <= i
        OBVIOUS
      <4>2. k <= j
        BY <2>0, <4>1
      <4> QED
        BY <4>1, <4>2
    <3> QED
      BY <3>1, Zenon
  <2>2. j \in Below(j) /\ j \notin Below(i)
    OBVIOUS
  <2>3. IsFiniteSet(Below(j)) /\ Cardinality(Below(i)) \in Nat /\ Cardinality(Below(j)) \in Nat
    BY <1>1, <1>2
  <2> HIDE DEF Below
  <2>4. /\ Cardinality(Below(i)) <= Cardinality(Below(j))
        /\ Cardinality(Below(j)) = Cardinality(Below(i)) => Below(j) = Below(i)
    BY <2>1, <2>3, FS_Subset
  <2> QED
    BY <2>2, <2>3, <2>4
<1>4. \A i \in I : Place(I, i) = Cardinality(Below(i))
  BY DEF Place
<1> HIDE DEF Below
<1>5. \A i \in I : Place(I, i) \in 1..c
  BY <1>2, <1>4
<1>6. \A i, j \in I : i < j => Place(I, i) < Place(I, j)
  BY <1>3, <1>4
<1> DEFINE f == [i \in I |-> Place(I, i)]
<1>7. f \in Injection(I, 1..c)
  <2>1. f \in [I -> 1..c]
    BY <1>5
  <2>2. \A i, j \in I : f[i] = f[j] => i = j
    BY <1>1, <1>5, <1>6
  <2> HIDE DEF f
  <2> QED
    BY <2>1, <2>2 DEF Injection, IsInjective
<1>8. IsFiniteSet(1..c) /\ Cardinality(1..c) = c
  BY <1>1, FS_Interval
<1>9. f \in Surjection(I, 1..c)
  <2> HIDE DEF f
  <2> QED
    BY <1>1, <1>7, <1>8, FS_Injection
<1>10. \A k \in 1..c : \E i \in I : Place(I, i) = k
  <2>1. \A k \in 1..c : \E i \in I : f[i] = k
    <3> HIDE DEF f
    <3> QED
      BY <1>9 DEF Surjection
  <2> QED
    BY <2>1
<1> QED
  BY <1>1, <1>5, <1>6, <1>10

\* The chosen elements are those at the positions, in their order.
LEMMA ChosenElements ==
    ASSUME NEW S, NEW q \in Seq(S), NEW I \in SUBSET DOMAIN q, NEW r, r = Chosen(q, I)
    PROVE  /\ Cardinality(I) \in Nat /\ IsFiniteSet(I)
           /\ r \in Seq(S) /\ Len(r) = Cardinality(I) /\ DOMAIN r = 1..Cardinality(I)
           /\ \A i \in I : Place(I, i) \in DOMAIN r /\ r[Place(I, i)] = q[i]
           /\ \A k \in DOMAIN r : \E i \in I : Place(I, i) = k /\ r[k] = q[i]
<1> DEFINE n == Len(q)
           c == Cardinality(I)
           at(k) == CHOOSE i \in I : Place(I, i) = k
<1>1. n \in Nat /\ DOMAIN q = 1..n /\ I \in SUBSET (1..n)
  OBVIOUS
<1> HIDE DEF n
<1>2. /\ IsFiniteSet(I) /\ c \in Nat
      /\ \A i \in I : Place(I, i) \in 1..c
      /\ \A i, j \in I : i < j => Place(I, i) < Place(I, j)
      /\ \A k \in 1..c : \E i \in I : Place(I, i) = k
  BY <1>1, Places
<1>3. \A k \in 1..c : at(k) \in I /\ Place(I, at(k)) = k
  BY <1>2
<1>4. r = [k \in 1..c |-> q[at(k)]]
  BY DEF Chosen
<1> HIDE DEF at, c
<1>5. \A i, j \in I : Place(I, i) = Place(I, j) => i = j
  <2> SUFFICES ASSUME NEW i \in I, NEW j \in I, Place(I, i) = Place(I, j), i # j PROVE FALSE
    OBVIOUS
  <2>1. i < j \/ j < i
    BY <1>1
  <2> QED
    BY <1>2, <2>1
<1>6. \A i \in I : r[Place(I, i)] = q[i]
  BY <1>2, <1>3, <1>4, <1>5
<1>7. r \in [1..c -> S]
  <2>1. \A i \in I : q[i] \in S
    BY <1>1
  <2> QED
    BY <1>3, <1>4, <2>1
<1>8. r \in Seq(S) /\ Len(r) = c /\ DOMAIN r = 1..c
  BY <1>2, <1>7
<1>9. \A k \in 1..c : \E i \in I : Place(I, i) = k /\ r[k] = q[i]
  BY <1>3, <1>4
<1> QED
  BY <1>2, <1>6, <1>8, <1>9 DEF c

\* Choosing every position gives the sequence, and no other choice does.
LEMMA ChosenAll ==
    ASSUME NEW S, NEW q \in Seq(S), NEW I \in SUBSET DOMAIN q
    PROVE  Chosen(q, I) = q <=> I = DOMAIN q
<1> DEFINE n == Len(q)
           r == Chosen(q, I)
<1>1. n \in Nat /\ DOMAIN q = 1..n
  OBVIOUS
<1>2. /\ r \in Seq(S) /\ Len(r) = Cardinality(I) /\ DOMAIN r = 1..Cardinality(I)
      /\ \A i \in I : r[Place(I, i)] = q[i]
  <2> HIDE DEF n
  <2> QED
    BY ChosenElements
<1> HIDE DEF n, r
<1>3. IsFiniteSet(1..n) /\ Cardinality(1..n) = n
  BY <1>1, FS_Interval
<1>4. ASSUME I = DOMAIN q PROVE r = q
  <2>1. \A i \in 1..n : Place(I, i) = i
    <3> SUFFICES ASSUME NEW i \in 1..n PROVE Place(I, i) = i
      OBVIOUS
    <3>1. {j \in I : j <= i} = 1..i
      BY <1>1, <1>4
    <3>2. Cardinality(1..i) = i
      BY <1>1, FS_Interval
    <3> QED
      BY <3>1, <3>2 DEF Place
  <2>2. DOMAIN r = 1..n /\ \A i \in 1..n : r[i] = q[i]
    BY <1>1, <1>2, <1>3, <1>4, <2>1
  <2>3. r = [i \in 1..n |-> r[i]] /\ q = [i \in 1..n |-> q[i]]
    BY <1>1, <1>2, <2>2
  <2> QED
    BY <2>2, <2>3
<1>5. ASSUME r = q PROVE I = DOMAIN q
  <2>1. Cardinality(I) = n
    BY <1>1, <1>2, <1>5 DEF n
  <2> QED
    BY <1>1, <1>3, <2>1, FS_Subset
<1> QED
  BY <1>4, <1>5 DEF r

-----------------------------------------------------------------------------
(* The loop over the markers *)

Unwritten == [error |-> None, segments |-> <<>>, removed |-> FALSE]

\* What the loop has written after the markers of each set, the last one last.
IsWriting(g, q, p, D) ==
    g = [s \in SUBSET D |-> IF s = {} THEN Unwritten
                            ELSE appendMarker(g[s \ {Max(s)}], q[Max(s)], p)]

\* A family of subsets of a finite set has a member that is minimal in it: the
\* form of induction that the next lemmas use.
LEMMA SubsetMinimum ==
    ASSUME NEW S, IsFiniteSet(S), NEW T, T \subseteq SUBSET S, T # {}
    PROVE  \E m \in T : \A u \in T : u \subseteq m => u = m
<1>1. T \subseteq FiniteSubsetsOf(S)
  BY FS_FiniteSubsetsOfFinite
<1>2. IsWellFoundedOn(StrictSubsetOrdering(S), FiniteSubsetsOf(S))
  BY FS_StrictSubsetOrderingWellFounded
<1>3. PICK m \in T : \A u \in T : ~(<<u, m>> \in StrictSubsetOrdering(S))
  BY <1>1, <1>2, WFMin
<1>4. \A u \in T : u \subseteq m => u = m
  BY <1>3 DEF StrictSubsetOrdering
<1> QED
  BY <1>4

ArePositions(D) == \E n \in Nat : D \subseteq 1..n

\* A set of positions has a last one.
LEMMA LastPosition ==
    ASSUME NEW D, ArePositions(D)
    PROVE  IsFiniteSet(D) /\ \A s \in SUBSET D : s # {} => Max(s) \in s
<1>0. PICK n \in Nat : D \subseteq 1..n
  BY DEF ArePositions
<1>1. D \subseteq 0..n
  BY <1>0
<1>2. IsFiniteSet(0..n)
  BY FS_Interval
<1>3. IsFiniteSet(D)
  BY <1>1, <1>2, FS_Subset
<1>4. ASSUME NEW s \in SUBSET D, s # {} PROVE Max(s) \in s
  <2>1. s \subseteq 0..n
    BY <1>1
  <2> QED
    BY <1>4, <2>1, Largest
<1> QED
  BY <1>3, <1>4

\* What is written for a set depends on its own markers only.
LEMMA WritingUnique ==
    ASSUME NEW q, NEW p, NEW D, NEW E, ArePositions(D), E \in SUBSET D,
           NEW f, NEW g, IsWriting(f, q, p, D), IsWriting(g, q, p, E)
    PROVE  f[E] = g[E]
<1> DEFINE Different == {s \in SUBSET E : f[s] # g[s]}
<1>1. SUFFICES ASSUME Different # {} PROVE FALSE
  OBVIOUS
<1>p. ArePositions(E)
  BY DEF ArePositions
<1>0. IsFiniteSet(E)
  BY <1>p, LastPosition
<1>2. \A s \in SUBSET E : s # {} => Max(s) \in s
  BY <1>p, LastPosition
<1>3. PICK m \in Different : \A u \in Different : u \subseteq m => u = m
  <2>1. Different \subseteq SUBSET E
    OBVIOUS
  <2> HIDE DEF Different
  <2> QED
    BY ONLY <1>0, <1>1, <2>1, SubsetMinimum
<1>4. m # {}
  BY <1>3 DEF IsWriting
<1> DEFINE c == Max(m)
<1>5. c \in m
  BY <1>2, <1>3, <1>4
<1>6. m \in SUBSET D /\ m \in SUBSET E
  BY <1>3
<1>7. /\ f[m] = appendMarker(f[m \ {c}], q[c], p)
      /\ g[m] = appendMarker(g[m \ {c}], q[c], p)
  BY <1>4, <1>6 DEF IsWriting
<1> HIDE DEF c
<1>8. f[m \ {c}] = g[m \ {c}]
  <2>1. m \ {c} \in SUBSET E /\ m \ {c} # m
    BY <1>3, <1>5
  <2> QED
    BY <1>3, <2>1
<1> QED
  BY <1>3, <1>7, <1>8

\* The loop's recursion has a solution, so that the fold's CHOOSE picks one.
LEMMA WritingExists ==
    ASSUME NEW n \in Nat, NEW q, NEW p
    PROVE  \E g : IsWriting(g, q, p, 1..n)
<1> DEFINE Missing == {s \in SUBSET (1..n) : ~\E g : IsWriting(g, q, p, s)}
<1>1. SUFFICES ASSUME Missing # {} PROVE FALSE
  OBVIOUS
<1>p. ArePositions(1..n)
  BY DEF ArePositions
<1>0. IsFiniteSet(1..n)
  BY <1>p, LastPosition
<1>2. \A s \in SUBSET (1..n) : s # {} => Max(s) \in s
  BY <1>p, LastPosition
<1> DEFINE D == 1..n
<1>3. PICK m \in Missing : \A u \in Missing : u \subseteq m => u = m
  <2>1. IsFiniteSet(D) /\ Missing \subseteq SUBSET D
    BY <1>0
  <2> HIDE DEF Missing, D
  <2> QED
    BY ONLY <1>1, <2>1, SubsetMinimum
<1>4. \A u \in SUBSET m : u # m => \E g : IsWriting(g, q, p, u)
  BY <1>3
<1> DEFINE F(u) == CHOOSE g : IsWriting(g, q, p, u)
           ch(u) == Max(u)
           Low(u) == IF u = {} THEN Unwritten
                     ELSE appendMarker(F(u \ {ch(u)})[u \ {ch(u)}], q[ch(u)], p)
           G == [u \in SUBSET m |-> Low(u)]
<1>5. \A u \in SUBSET m : u # m => IsWriting(F(u), q, p, u)
  BY <1>4
<1>6. \A u \in SUBSET m : u # {} => ch(u) \in u
  BY <1>2, <1>3
<1> HIDE DEF F, ch
<1>7. \A u \in SUBSET m : u # m => G[u] = F(u)[u]
  <2> SUFFICES ASSUME NEW u \in SUBSET m, u # m PROVE G[u] = F(u)[u]
    OBVIOUS
  <2>1. CASE u = {}
    BY <1>5, <2>1 DEF IsWriting
  <2>2. CASE u # {}
    <3> DEFINE v == u \ {ch(u)}
    <3>1. v \in SUBSET m /\ v # m /\ v \subseteq u /\ u \subseteq 1..n
      BY <1>3, <1>6, <2>2
    <3>2. IsWriting(F(u), q, p, u) /\ IsWriting(F(v), q, p, v)
      BY <1>5, <3>1
    <3>3. F(u)[u] = appendMarker(F(u)[v], q[ch(u)], p)
      BY <2>2, <3>2 DEF IsWriting, ch
    <3>4. ArePositions(u) /\ v \in SUBSET u
      BY <3>1 DEF ArePositions
    <3> HIDE DEF v
    <3>5. F(u)[v] = F(v)[v]
      <4>1. PICK a, b, c : a = F(u) /\ b = F(v) /\ c = v
        OBVIOUS
      <4>2. IsWriting(a, q, p, u) /\ IsWriting(b, q, p, c) /\ ArePositions(u) /\ c \in SUBSET u
        BY <3>2, <3>4, <4>1
      <4> HIDE DEF Missing, D, Low, G
      <4>3. a[c] = b[c]
        BY <4>2, WritingUnique
      <4> QED
        BY <4>1, <4>3
    <3> QED
      BY <2>2, <3>3, <3>5 DEF v
  <2> QED
    BY <2>1, <2>2
<1>8. \A u \in SUBSET m : u # {} => G[u] = appendMarker(G[u \ {ch(u)}], q[ch(u)], p)
  <2> SUFFICES ASSUME NEW u \in SUBSET m, u # {}
               PROVE  G[u] = appendMarker(G[u \ {ch(u)}], q[ch(u)], p)
    OBVIOUS
  <2>1. u \ {ch(u)} \in SUBSET m /\ u \ {ch(u)} # m
    BY <1>6
  <2>2. G[u \ {ch(u)}] = F(u \ {ch(u)})[u \ {ch(u)}]
    BY <1>7, <2>1
  <2> HIDE DEF G
  <2>3. G[u] = appendMarker(F(u \ {ch(u)})[u \ {ch(u)}], q[ch(u)], p)
    BY DEF G
  <2> QED
    BY <2>2, <2>3
<1>9. G[{}] = Unwritten
  OBVIOUS
<1>10. G = [s \in SUBSET m |-> IF s = {} THEN Unwritten
                               ELSE appendMarker(G[s \ {ch(s)}], q[ch(s)], p)]
  <2> HIDE DEF G
  <2>1. G = [u \in SUBSET m |-> G[u]]
    BY DEF G
  <2> QED
    BY <1>8, <1>9, <2>1
<1> HIDE DEF G
<1>11. IsWriting(G, q, p, m)
  BY <1>10 DEF IsWriting, ch
<1> QED
  BY <1>3, <1>11

\* reconcileMarkerSegments' loop.
Writing(q, p) ==
    FoldLeft(LAMBDA w, s : appendMarker(w, s, p),
             [error |-> None, segments |-> <<>>, removed |-> FALSE], q)

\* The fold runs through the whole sequence.
LEMMA LoopIsWriting ==
    ASSUME NEW q, NEW n \in Nat, DOMAIN q = 1..n, NEW p
    PROVE  \E g : IsWriting(g, q, p, 1..n) /\ Writing(q, p) = g[1..n]
<1> DEFINE it == CHOOSE g : IsWriting(g, q, p, 1..n)
<1>1. IsWriting(it, q, p, 1..n)
  BY WritingExists
<1>2. Writing(q, p) = it[1..n]
  BY Zenon DEF IsWriting, Unwritten, Writing, FoldLeft, MapThenFoldSet
<1> QED
  BY <1>1, <1>2
ReconcileErrors == {"MalformedImageMetadata", "InvalidOrientationMetadata",
                    "MetadataPreservationFailed", "UnsupportedEmbeddedPreviewMetadata",
                    "MetadataLengthLimitExceeded"}

\* What rewriting one segment may refuse.
LEMMA SegmentErrors ==
    ASSUME NEW segment, NEW p
    PROVE  reconcileSegment(segment, p).error \in {None} \cup ReconcileErrors
<1> DEFINE Fine(r) == r.error \in {None} \cup ReconcileErrors
<1>1. \A r : Fine(Failure("MalformedImageMetadata")) /\ Fine(Failure("InvalidOrientationMetadata"))
              /\ Fine(Failure("MetadataPreservationFailed")) /\ Fine(unsupportedPreview)
              /\ Fine(Success(r))
  BY DEF Failure, Success, unsupportedPreview, ReconcileErrors
<1>2. \A x, y : Fine(Change(x, y))
  BY <1>1 DEF Change
<1> HIDE DEF Fine
<1>3. \A b : Fine(reconcilePacket(segment, p, b))
  BY <1>1, <1>2, Zenon DEF reconcilePacket
<1>4. Fine(reconcileJfif(segment, p))
  BY <1>1, <1>2, Zenon DEF reconcileJfif
<1>5. Fine(reconcileJfxx(segment, p))
  BY <1>1, <1>2, Zenon DEF reconcileJfxx
<1>6. Fine(reconcilePhotoshopResources(segment, p))
  BY <1>1, <1>2, Zenon DEF reconcilePhotoshopResources
<1>7. Fine(reconcileSegment(segment, p))
  <2>1. CASE segment.kind = "exif"
    BY <1>3, <2>1 DEF reconcileSegment
  <2>2. CASE segment.kind = "xmp"
    BY <1>3, <2>2 DEF reconcileSegment
  <2>3. CASE segment.kind = "jfif"
    BY <1>4, <2>3 DEF reconcileSegment
  <2>4. CASE segment.kind = "jfxx"
    BY <1>5, <2>4 DEF reconcileSegment
  <2>5. CASE segment.kind = "photoshop"
    BY <1>6, <2>5 DEF reconcileSegment
  <2>6. CASE segment.kind \notin {"exif", "xmp", "jfif", "jfxx", "photoshop"}
    BY <1>2, <2>6 DEF reconcileSegment
  <2> QED
    BY <2>1, <2>2, <2>3, <2>4, <2>5, <2>6
<1> QED
  BY <1>7 DEF Fine

IsWritten(w) == /\ DOMAIN w = {"error", "segments", "removed"}
                /\ w.error \in {None} \cup ReconcileErrors

\* Nor does a further marker add an error.
LEMMA MarkerErrors ==
    ASSUME NEW w, IsWritten(w), NEW segment, NEW p
    PROVE  IsWritten(appendMarker(w, segment, p))
<1> DEFINE changed == reconcileSegment(segment, p)
           grown == w.segments \o changed.value.segment
           removed == w.removed \/ changed.value.removed
<1>1. changed.error \in {None} \cup ReconcileErrors
  BY SegmentErrors
<1>2. appendMarker(w, segment, p) =
        IF w.error # None THEN w
        ELSE IF changed.error # None THEN [w EXCEPT !.error = changed.error]
        ELSE IF TotalSize(grown) > MaximumMetadataLength
        THEN [w EXCEPT !.error = "MetadataLengthLimitExceeded"]
        ELSE [w EXCEPT !.segments = grown, !.removed = removed]
  BY DEF appendMarker
<1> HIDE DEF changed, grown, removed
<1> QED
  BY <1>1, <1>2 DEF IsWritten, ReconcileErrors

\* The states of the loop, one marker after the other.
IsLoop(W, q, n, p) ==
    /\ W[0] = Unwritten
    /\ \A k \in 1..n : W[k] = appendMarker(W[k - 1], q[k], p)

\* The fold is the last of them.
LEMMA LoopStates ==
    ASSUME NEW q, NEW n \in Nat, DOMAIN q = 1..n, NEW p
    PROVE  \E W : IsLoop(W, q, n, p) /\ Writing(q, p) = W[n]
<1>1. PICK g : IsWriting(g, q, p, 1..n) /\ Writing(q, p) = g[1..n]
  BY LoopIsWriting
<1> DEFINE W == [k \in 0..n |-> g[1..k]]
<1>2. \A k \in 1..n : Max(1..k) = k /\ (1..k) \ {k} = 1..(k - 1) /\ 1..k # {}
  <2> SUFFICES ASSUME NEW k \in 1..n
               PROVE  Max(1..k) = k /\ (1..k) \ {k} = 1..(k - 1) /\ 1..k # {}
    OBVIOUS
  <2>1. 1..k \subseteq 0..n /\ 1..k # {}
    <3>1. k \in 1..k
      OBVIOUS
    <3>2. 1..k \subseteq 0..n
      OBVIOUS
    <3> QED
      BY <3>1, <3>2
  <2>2. Max(1..k) \in 1..k /\ \A y \in 1..k : Max(1..k) >= y
    BY <2>1, Largest
  <2>3. (1..k) \ {k} = 1..(k - 1)
    OBVIOUS
  <2> QED
    BY <2>1, <2>2, <2>3
<1>3. \A s \in SUBSET (1..n) :
        g[s] = IF s = {} THEN Unwritten ELSE appendMarker(g[s \ {Max(s)}], q[Max(s)], p)
  BY <1>1 DEF IsWriting
<1>4. W[0] = Unwritten
  <2>1. 1..0 = {} /\ {} \in SUBSET (1..n)
    OBVIOUS
  <2>2. W[0] = g[1..0]
    OBVIOUS
  <2> HIDE DEF W
  <2>3. g[{}] = Unwritten
    BY <1>3, <2>1
  <2> QED
    BY <2>1, <2>2, <2>3
<1>5. \A k \in 1..n : W[k] = appendMarker(W[k - 1], q[k], p)
  <2> SUFFICES ASSUME NEW k \in 1..n PROVE W[k] = appendMarker(W[k - 1], q[k], p)
    OBVIOUS
  <2>1. W[k] = g[1..k] /\ W[k - 1] = g[1..(k - 1)]
    OBVIOUS
  <2>2. 1..k \in SUBSET (1..n)
    OBVIOUS
  <2> HIDE DEF W
  <2>3. g[1..k] = appendMarker(g[(1..k) \ {Max(1..k)}], q[Max(1..k)], p)
    BY <1>2, <1>3, <2>2
  <2> QED
    BY <1>2, <2>1, <2>3
<1>6. Writing(q, p) = W[n]
  BY <1>1
<1> QED
  BY <1>4, <1>5, <1>6 DEF IsLoop

\* What every state of the loop is.
LEMMA LoopWrites ==
    ASSUME NEW q, NEW n \in Nat, NEW p, NEW W, IsLoop(W, q, n, p)
    PROVE  \A k \in 0..n : IsWritten(W[k])
<1> DEFINE Wrong == {k \in 0..n : ~IsWritten(W[k])}
<1> SUFFICES ASSUME Wrong # {} PROVE FALSE
  OBVIOUS
<1>1. Wrong \subseteq Nat
  OBVIOUS
<1>2. PICK m \in Wrong : \A y \in Wrong : y >= m
  <2> HIDE DEF Wrong
  <2> QED
    BY <1>1, Smallest
<1>3. m # 0
  BY <1>2 DEF IsLoop, IsWritten, Unwritten
<1>4. m \in 1..n /\ m - 1 \in 0..n
  BY <1>2, <1>3
<1>5. IsWritten(W[m - 1])
  BY <1>2, <1>4
<1>6. W[m] = appendMarker(W[m - 1], q[m], p)
  BY <1>4 DEF IsLoop
<1> QED
  BY <1>2, <1>5, <1>6, MarkerErrors

\* The loop's errors are the markers'.
LEMMA LoopErrors ==
    ASSUME NEW q, NEW n \in Nat, DOMAIN q = 1..n, NEW p
    PROVE  Writing(q, p).error \in {None} \cup ReconcileErrors
<1>1. PICK W : IsLoop(W, q, n, p) /\ Writing(q, p) = W[n]
  BY LoopStates
<1> QED
  BY <1>1, LoopWrites DEF IsWritten

\* No marker was refused.
Succeeded(W, q, n, p) ==
    /\ \A k \in 0..n : W[k].error = None
    /\ \A k \in 1..n :
         /\ reconcileSegment(q[k], p).error = None
         /\ W[k].segments = W[k - 1].segments \o reconcileSegment(q[k], p).value.segment
         /\ W[k].removed = (W[k - 1].removed \/ reconcileSegment(q[k], p).value.removed)
         /\ ~(TotalSize(W[k].segments) > MaximumMetadataLength)

\* A loop that ends without an error had none on its way, and wrote every marker.
LEMMA LoopSucceeds ==
    ASSUME NEW q, NEW n \in Nat, NEW p, NEW W, IsLoop(W, q, n, p), W[n].error = None
    PROVE  Succeeded(W, q, n, p)
<1> DEFINE Wrong == {j \in 0..n : W[n - j].error # None}
<1>1. Wrong = {}
  <2> SUFFICES ASSUME Wrong # {} PROVE FALSE
    OBVIOUS
  <2>1. Wrong \subseteq Nat
    OBVIOUS
  <2>2. PICK m \in Wrong : \A y \in Wrong : y >= m
    <3> HIDE DEF Wrong
    <3> QED
      BY <2>1, Smallest
  <2>3. m \in 1..n /\ W[n - m].error # None
    BY <2>2
  <2>4. m - 1 \in 0..n /\ m - 1 \notin Wrong /\ n - (m - 1) = n - m + 1
    BY <2>2, <2>3
  <2>5. W[n - m + 1].error = None
    BY <2>4
  <2>6. n - m + 1 \in 1..n /\ (n - m + 1) - 1 = n - m
    BY <2>3
  <2>7. W[n - m + 1] = appendMarker(W[n - m], q[n - m + 1], p)
    BY <2>6 DEF IsLoop
  <2>8. W[n - m + 1] = W[n - m]
    BY <2>3, <2>7 DEF appendMarker
  <2> QED
    BY <2>3, <2>5, <2>8
<1>2. ASSUME NEW k \in 0..n PROVE W[k].error = None
  <2>1. n - k \in 0..n /\ n - (n - k) = k
    OBVIOUS
  <2> QED
    BY <1>1, <2>1
<1>3. ASSUME NEW k \in 1..n,
             NEW changed, changed = reconcileSegment(q[k], p),
             NEW segments, segments = W[k - 1].segments \o changed.value.segment
      PROVE  /\ changed.error = None /\ ~(TotalSize(segments) > MaximumMetadataLength)
             /\ W[k].segments = segments
             /\ W[k].removed = (W[k - 1].removed \/ changed.value.removed)
  <2>1. k - 1 \in 0..n /\ k \in 0..n
    OBVIOUS
  <2>2. W[k - 1].error = None /\ W[k].error = None /\ IsWritten(W[k - 1])
    BY <1>2, <2>1, LoopWrites
  <2>3. W[k] = appendMarker(W[k - 1], q[k], p)
    BY DEF IsLoop
  <2> DEFINE w == W[k - 1]
             removed == w.removed \/ changed.value.removed
  <2>4. W[k] = IF changed.error # None THEN [w EXCEPT !.error = changed.error]
               ELSE IF TotalSize(segments) > MaximumMetadataLength
               THEN [w EXCEPT !.error = "MetadataLengthLimitExceeded"]
               ELSE [w EXCEPT !.segments = segments, !.removed = removed]
    BY <1>3, <2>2, <2>3 DEF appendMarker
  <2> HIDE DEF w, removed
  <2>5. DOMAIN w = {"error", "segments", "removed"}
    BY <2>2 DEF IsWritten, w
  <2>6. /\ changed.error = None /\ ~(TotalSize(segments) > MaximumMetadataLength)
        /\ W[k].segments = segments /\ W[k].removed = removed
    BY <2>2, <2>4, <2>5 DEF None
  <2> QED
    BY <2>6 DEF w, removed
<1> QED
  BY <1>2, <1>3 DEF Succeeded

\* What a rewritten packet is, once nothing refused it.
LEMMA PacketChanges ==
    ASSUME NEW s, NEW p, NEW relocates, NEW r, r = reconcilePacket(s, p, relocates), r.error = None
    PROVE  /\ s.readable /\ StatedOrientation(<<s>>) # "invalid"
           /\ Bad \notin ToSet(s.width \o s.height)
           /\ IF NeedsRewrite(s, p)
              THEN r = Change(Rewritten(s, p), transformed(p) /\ s.thumbnail)
              ELSE r = Change(s, FALSE)
<1>1. /\ Failure("MalformedImageMetadata").error # None
      /\ Failure("InvalidOrientationMetadata").error # None
      /\ Failure("MetadataPreservationFailed").error # None
  BY DEF Failure, None
<1> QED
  BY <1>1, Zenon DEF reconcilePacket

\* The removal of previews from one segment.
LEMMA SegmentRemoves ==
    ASSUME NEW s, IsSegment(s), NEW p, NEW r, r = reconcileSegment(s, p), r.error = None
    PROVE  r.value.removed = (transformed(p) /\ LostThumbnail(s))
<1>0. \A x, y : Change(x, y).value.removed = y /\ Change(x, y).value.segment = <<x>>
  BY DEF Change, Success
<1>p. unsupportedPreview.error # None
  BY DEF unsupportedPreview, Failure, None
<1>1. CASE s.kind \in {"exif", "xmp"}
  <2>1. PICK relocates : r = reconcilePacket(s, p, relocates)
    BY <1>1 DEF reconcileSegment
  <2>2. IF NeedsRewrite(s, p) THEN r = Change(Rewritten(s, p), transformed(p) /\ s.thumbnail)
        ELSE r = Change(s, FALSE)
    BY <2>1, PacketChanges
  <2>3. transformed(p) => NeedsRewrite(s, p)
    BY DEF NeedsRewrite
  <2>4. LostThumbnail(s) = s.thumbnail /\ s.thumbnail \in BOOLEAN
    BY <1>1 DEF LostThumbnail, IsSegment
  <2> QED
    BY <1>0, <2>2, <2>3, <2>4
<1>2. CASE s.kind = "jfif"
  <2>1. r = reconcileJfif(s, p) /\ LostThumbnail(s) = s.thumbnail /\ s.thumbnail \in BOOLEAN
    BY <1>2 DEF reconcileSegment, LostThumbnail, IsSegment
  <2> DEFINE cleared == [s EXCEPT !.thumbnail = FALSE, !.size = 1]
  <2>2. r = IF ~transformed(p) THEN Change(s, FALSE) ELSE Change(cleared, s.thumbnail)
    BY <1>p, <2>1, Zenon DEF reconcileJfif
  <2> HIDE DEF cleared
  <2> QED
    BY <1>0, <2>1, <2>2
<1>3. CASE s.kind = "jfxx"
  <2>1. r = reconcileJfxx(s, p) /\ LostThumbnail(s)
    BY <1>3 DEF reconcileSegment, LostThumbnail
  <2>2. r = IF ~transformed(p) THEN Change(s, FALSE)
            ELSE Success([segment |-> <<>>, removed |-> TRUE])
    BY <1>p, <2>1, Zenon DEF reconcileJfxx
  <2>4. CASE transformed(p)
    <3>1. r.value.removed = TRUE
      BY <2>2, <2>4 DEF Success
    <3> QED
      BY <2>1, <2>4, <3>1
  <2>5. CASE ~transformed(p)
    BY <1>0, <2>2, <2>5
  <2> QED
    BY <2>4, <2>5
<1>4. CASE s.kind = "photoshop"
  <2> DEFINE kept == IF transformed(p) THEN WithoutThumbnail(s.resources) ELSE s.resources
             written == [s EXCEPT !.resources = kept, !.size = 1 + Len(kept)]
  <2>1. r = reconcilePhotoshopResources(s, p)
    BY <1>4 DEF reconcileSegment
  <2>2. r = Change(written, kept # s.resources)
    BY <2>1 DEF reconcilePhotoshopResources, unsupportedPreview, Failure, None
  <2>3. WithoutThumbnail(s.resources) = s.resources <=> "thumbnail" \notin ToSet(s.resources)
    <3> DEFINE I == {i \in DOMAIN s.resources : s.resources[i] # "thumbnail"}
    <3>1. I \in SUBSET DOMAIN s.resources /\ s.resources \in Seq(STRING)
      BY <1>4 DEF IsSegment
    <3>2. WithoutThumbnail(s.resources) = Chosen(s.resources, I)
      BY DEF WithoutThumbnail
    <3>3. I = DOMAIN s.resources <=> "thumbnail" \notin ToSet(s.resources)
      BY DEF ToSet
    <3> HIDE DEF I
    <3> QED
      BY <3>1, <3>2, <3>3, ChosenAll
  <2>4. LostThumbnail(s) <=> "thumbnail" \in ToSet(s.resources)
    BY <1>4 DEF LostThumbnail
  <2>5. r.value.removed = (kept # s.resources)
    <3> HIDE DEF kept, written
    <3> QED
      BY <1>0, <2>2
  <2> QED
    BY <2>3, <2>4, <2>5
<1>5. CASE s.kind \notin {"exif", "xmp", "jfif", "jfxx", "photoshop"}
  <2>1. r = Change(s, FALSE)
    BY <1>5 DEF reconcileSegment
  <2>2. ~LostThumbnail(s)
    BY <1>5 DEF LostThumbnail
  <2> QED
    BY <1>0, <2>1, <2>2
<1> QED
  BY <1>1, <1>2, <1>3, <1>4, <1>5

\* The removal of previews from all of them.
LEMMA LoopRemoves ==
    ASSUME NEW q, q \in Seq(ToSet(q)), \A s \in ToSet(q) : IsSegment(s), NEW p,
           Writing(q, p).error = None
    PROVE  Writing(q, p).removed = (transformed(p) /\ \E s \in ToSet(q) : LostThumbnail(s))
<1> DEFINE n == Len(q)
<1>1. n \in Nat /\ DOMAIN q = 1..n
  OBVIOUS
<1> HIDE DEF n
<1>2. PICK W : IsLoop(W, q, n, p) /\ Writing(q, p) = W[n]
  BY <1>1, LoopStates
<1>3. \A k \in 1..n : /\ reconcileSegment(q[k], p).error = None
                      /\ W[k].removed = (W[k - 1].removed \/ reconcileSegment(q[k], p).value.removed)
  <2>1. Succeeded(W, q, n, p)
    BY <1>1, <1>2, LoopSucceeds
  <2> QED
    BY <2>1, Zenon DEF Succeeded
<1>4. \A k \in 1..n : IsSegment(q[k])
  BY <1>1 DEF ToSet
<1>5. \A k \in 1..n : W[k].removed = (W[k - 1].removed \/ (transformed(p) /\ LostThumbnail(q[k])))
  BY <1>3, <1>4, SegmentRemoves
<1> DEFINE So(k) == transformed(p) /\ \E i \in 1..k : LostThumbnail(q[i])
           Wrong == {k \in 0..n : W[k].removed # So(k)}
<1>6. Wrong = {}
  <2> SUFFICES ASSUME Wrong # {} PROVE FALSE
    OBVIOUS
  <2>1. Wrong \subseteq Nat
    BY <1>1
  <2>2. PICK m \in Wrong : \A y \in Wrong : y >= m
    <3> HIDE DEF Wrong
    <3> QED
      BY <2>1, Smallest
  <2>3. m \in 1..n
    <3>1. W[0].removed = FALSE /\ So(0) = FALSE
      BY <1>2 DEF IsLoop, Unwritten
    <3>2. m \in 0..n /\ W[m].removed # So(m)
      BY <2>2
    <3> HIDE DEF So, Wrong
    <3>3. m # 0
      BY <3>1, <3>2
    <3> QED
      BY <1>1, <3>2, <3>3
  <2>4. m - 1 \in 0..n /\ ~(m - 1 >= m)
    BY <1>1, <2>3
  <2>5. W[m - 1].removed = So(m - 1)
    BY <2>2, <2>4
  <2>6. So(m) = (So(m - 1) \/ (transformed(p) /\ LostThumbnail(q[m])))
    <3>1. 1..m = (1..(m - 1)) \cup {m}
      BY <1>1, <2>3
    <3> QED
      BY <3>1
  <2> HIDE DEF So
  <2> QED
    BY <1>5, <2>2, <2>3, <2>5, <2>6
<1>7. W[n].removed = So(n)
  BY <1>1, <1>6
<1>8. So(n) = (transformed(p) /\ \E s \in ToSet(q) : LostThumbnail(s))
  BY <1>1 DEF ToSet
<1> QED
  BY <1>2, <1>7, <1>8

-----------------------------------------------------------------------------
(* The comparison of source and output *)

\* What an accepted comparison of two segments shows.
Faithful(a, b, p) ==
    /\ a.kind = b.kind
    /\ a.kind \in {"exif", "xmp"} =>
         /\ b.readable /\ a.other = b.other
         /\ Len(b.orientation) <= 1 /\ Len(b.width) <= 1 /\ Len(b.height) <= 1
         /\ ToSet(b.orientation) \subseteq {1}
         /\ ToSet(b.width) \subseteq {p.output.w} /\ ToSet(b.height) \subseteq {p.output.h}
         /\ IF transformed(p) THEN ~b.thumbnail ELSE a.thumbnail = b.thumbnail
    /\ a.kind = "jfif" /\ transformed(p) => ~b.thumbnail /\ a.other = b.other
    /\ a.kind = "photoshop" /\ transformed(p) => "thumbnail" \notin ToSet(b.resources)
    /\ \/ a.kind \notin {"exif", "xmp", "jfif", "photoshop"}
       \/ a.kind \notin {"exif", "xmp"} /\ ~transformed(p)
       => a = b

\* comparePacket accepts no less.
LEMMA PacketCompared ==
    ASSUME NEW a, IsSegment(a), NEW b, IsSegment(b), NEW p, NEW rule, rule # None,
           a.kind = b.kind, a.kind \in {"exif", "xmp"}, comparePacket(a, b, p, rule) = None
    PROVE  Faithful(a, b, p)
<1>1. /\ a.readable /\ b.readable
      /\ ~(ToSet(b.orientation) \ {1} # {}) /\ Len(a.orientation) = Len(b.orientation)
      /\ ~(Len(a.orientation) > 1)
      /\ Len(a.width) = Len(b.width) /\ ~(Len(a.width) > 1)
      /\ Len(a.height) = Len(b.height) /\ ~(Len(a.height) > 1)
      /\ ~(ToSet(b.width) \ {p.output.w} # {}) /\ ~(ToSet(b.height) \ {p.output.h} # {})
      /\ ~(transformed(p) /\ b.thumbnail)
      /\ a.other = b.other /\ ~(~transformed(p) /\ a.thumbnail # b.thumbnail)
  <2>1. "MetadataPreservation" # None /\ "DerivedDimensions" # None /\ "RemovedEmbeddedThumbnails" # None
    BY DEF None
  <2> QED
    BY <2>1, Zenon DEF comparePacket
<1>2. Len(b.orientation) \in Nat /\ Len(b.width) \in Nat /\ Len(b.height) \in Nat
  BY DEF IsSegment
<1> QED
  BY <1>1, <1>2 DEF Faithful

\* Nor does compareSegment.
LEMMA SegmentCompared ==
    ASSUME NEW a, IsSegment(a), NEW b, IsSegment(b), NEW p, compareSegment(a, b, p) = None
    PROVE  Faithful(a, b, p)
<1>1. a.kind = b.kind
  BY DEF compareSegment, None
<1>2. CASE a.kind = "exif"
  <2>1. comparePacket(a, b, p, "CanonicalExifOrientation") = None
    BY <1>1, <1>2 DEF compareSegment
  <2> QED
    BY <1>1, <1>2, <2>1, PacketCompared DEF None
<1>3. CASE a.kind = "xmp"
  <2>1. comparePacket(a, b, p, "CanonicalStandardXmpOrientation") = None
    BY <1>1, <1>3 DEF compareSegment, None
  <2> QED
    BY <1>1, <1>3, <2>1, PacketCompared DEF None
<1>4. CASE a.kind = "jfif" /\ transformed(p)
  BY <1>1, <1>4 DEF compareSegment, compareJfif, Faithful, None
<1>5. CASE a.kind = "photoshop" /\ transformed(p)
  <2>1. comparePhotoshopResources(a, b) = None
    BY <1>1, <1>5 DEF compareSegment
  <2>2. "thumbnail" \notin ToSet(b.resources)
    BY <2>1 DEF comparePhotoshopResources, None
  <2> QED
    BY <1>1, <1>5, <2>2 DEF Faithful
<1>6. CASE /\ a.kind \notin {"exif", "xmp"}
           /\ ~(a.kind \in {"jfif", "photoshop"} /\ transformed(p))
  <2>1. a = b
    BY <1>1, <1>6 DEF compareSegment, None
  <2> QED
    BY <1>6, <2>1 DEF Faithful
<1> QED
  BY <1>2, <1>3, <1>4, <1>5, <1>6

\* The positions of the source that the output keeps.
KeptPositions(segments, p) ==
    {i \in DOMAIN segments : ~(transformed(p) /\ segments[i].kind = "jfxx")}
Kept(segments, p) == Chosen(segments, KeptPositions(segments, p))

\* What an accepted output shows.
LEMMA OutputCompared ==
    ASSUME NEW before, before \in Seq(ToSet(before)), \A s \in ToSet(before) : IsSegment(s),
           NEW after, after \in Seq(ToSet(after)), \A s \in ToSet(after) : IsSegment(s),
           NEW p, NEW evidence, evidence = validateReconciledMetadata(before, after, p),
           evidence.error = None
    PROVE  /\ Kept(before, p) \in Seq(ToSet(before)) /\ Len(after) = Len(Kept(before, p))
           /\ \A k \in DOMAIN Kept(before, p) : Faithful(Kept(before, p)[k], after[k], p)
           /\ analyzeOrientation(after).error = None
           /\ evidence.value.removed = (transformed(p) /\ \E s \in ToSet(before) : LostThumbnail(s))
<1> DEFINE I == KeptPositions(before, p)
           kept == Kept(before, p)
           rule == [i \in DOMAIN kept |-> IF i > Len(after) THEN "PreservedMarkerSequence"
                                          ELSE compareSegment(kept[i], after[i], p)]
           broken == {i \in DOMAIN kept : rule[i] # None}
           orientation == analyzeOrientation(after)
           removed == transformed(p) /\ \E s \in ToSet(before) : LostThumbnail(s)
           value == [exif |-> orientation.value.exif # None, xmp |-> orientation.value.xmp # None,
                     removed |-> removed]
<1>1. evidence = IF broken # {} THEN Failure(rule[Min(broken)])
                 ELSE IF Len(after) > Len(kept) THEN Failure("PreservedMarkerSequence")
                 ELSE IF orientation.error # None THEN Failure("MetadataPreservation")
                 ELSE Success(value)
  BY Zenon DEF validateReconciledMetadata, Kept, KeptPositions
<1> HIDE DEF kept
<1>2. kept \in Seq(ToSet(before)) /\ Len(kept) \in Nat /\ DOMAIN kept = 1..Len(kept)
  <2>1. I \in SUBSET DOMAIN before
    BY DEF KeptPositions
  <2> HIDE DEF I
  <2>2. kept = Chosen(before, I)
    BY DEF I, kept, Kept
  <2>3. kept \in Seq(ToSet(before))
    BY <2>1, <2>2, ChosenElements
  <2> QED
    BY <2>3
<1>3. broken = {}
  <2> SUFFICES ASSUME broken # {} PROVE FALSE
    OBVIOUS
  <2>1. broken \subseteq Nat
    BY <1>2
  <2>2. PICK m \in broken : \A y \in broken : y >= m
    <3> HIDE DEF broken
    <3> QED
      BY <2>1, Smallest
  <2>3. Min(broken) \in broken
    <3> HIDE DEF broken
    <3>1. \A y \in broken : m <= y
      BY <2>1, <2>2
    <3> QED
      BY <2>2, <3>1, Zenon DEF Min
  <2>4. rule[Min(broken)] # None
    BY <2>3
  <2> HIDE DEF broken, rule
  <2>5. evidence.error # None
    BY <1>1, <2>4 DEF Failure
  <2> QED
    BY <2>5
<1>4. \A k \in DOMAIN kept : rule[k] = None
  BY <1>3
<1>5. evidence = IF Len(after) > Len(kept) THEN Failure("PreservedMarkerSequence")
                 ELSE IF orientation.error # None THEN Failure("MetadataPreservation")
                 ELSE Success(value)
  BY <1>1, <1>3
<1>6. ~(Len(after) > Len(kept)) /\ orientation.error = None /\ evidence = Success(value)
  <2> HIDE DEF orientation, value
  <2> QED
    BY <1>5 DEF Failure, None
<1>7. Len(after) \in Nat /\ DOMAIN after = 1..Len(after)
  OBVIOUS
<1>8. \A k \in DOMAIN kept : ~(k > Len(after)) /\ compareSegment(kept[k], after[k], p) = None
  BY <1>4 DEF None
<1>9. Len(after) = Len(kept)
  <2>1. Len(kept) = 0 \/ Len(kept) \in DOMAIN kept
    BY <1>2
  <2>2. Len(kept) \in DOMAIN kept => ~(Len(kept) > Len(after))
    BY <1>8
  <2>3. ~(Len(after) > Len(kept)) /\ Len(after) \in Nat /\ Len(kept) \in Nat
    BY <1>2, <1>6, <1>7
  <2> HIDE DEF rule, broken, orientation, removed, value, I
  <2>4. Len(kept) = 0 \/ ~(Len(kept) > Len(after))
    BY <2>1, <2>2
  <2> QED
    BY <2>3, <2>4
<1>10. \A k \in DOMAIN kept : Faithful(kept[k], after[k], p)
  <2> SUFFICES ASSUME NEW k \in DOMAIN kept PROVE Faithful(kept[k], after[k], p)
    OBVIOUS
  <2>1. kept[k] \in ToSet(before) /\ after[k] \in ToSet(after)
    BY <1>2, <1>7, <1>9 DEF ToSet
  <2>2. IsSegment(kept[k]) /\ IsSegment(after[k])
    BY <2>1
  <2> QED
    BY <1>8, <2>2, SegmentCompared
<1>11. evidence.value.removed = removed
  BY <1>6 DEF Success
<1> QED
  BY <1>2, <1>6, <1>9, <1>10, <1>11 DEF kept

-----------------------------------------------------------------------------
(* The analysis *)

PlannerErrors == {"PixelCountLimitExceeded", "PerfectCoefficientTransformUnavailable"}

\* No refusal of the Extended XMP is one of the planner's.
LEMMA ExtensionErrors ==
    ASSUME NEW segments, NEW t, NEW r, r = validateExtendedXmpPreservation(segments, t)
    PROVE  r.error \notin PlannerErrors
<1> DEFINE Foreign(x) == x.error \notin PlannerErrors
<1>1. \A x : /\ Foreign(Failure("MalformedImageMetadata"))
             /\ Foreign(Failure("ExtendedXmpMutationNotSupported")) /\ Foreign(Success(x))
  BY DEF Failure, Success, PlannerErrors, None
<1> HIDE DEF Foreign
<1>2. Foreign(validateExtendedXmpPreservation(segments, t))
  BY <1>1, Zenon DEF validateExtendedXmpPreservation
<1> QED
  BY <1>2 DEF Foreign

\* Nor one of the other assets bound to the pixels.
LEMMA BindingErrors ==
    ASSUME NEW segments, NEW trailing, NEW r, r = validateSourceAssetBindings(segments, trailing)
    PROVE  r.error \notin PlannerErrors
<1> DEFINE Foreign(x) == x.error \notin PlannerErrors
<1>1. \A x : /\ Foreign(Failure("ContentCredentialsWouldBeInvalidated"))
             /\ Foreign(Failure("MotionPhotoNotSupported"))
             /\ Foreign(Failure("UnsupportedTrailingPayload")) /\ Foreign(Success(x))
  BY DEF Failure, Success, PlannerErrors, None
<1>2. Foreign(validateExtendedXmpPreservation(segments, "None"))
  BY ExtensionErrors
<1> HIDE DEF Foreign
<1>3. Foreign(validateSourceAssetBindings(segments, trailing))
  BY <1>1, <1>2, Zenon DEF validateSourceAssetBindings
<1> QED
  BY <1>3 DEF Foreign

\* The preflight of the metadata.
LEMMA PreflightErrors ==
    ASSUME NEW segments, segments \in Seq(ToSet(segments)), NEW p,
           NEW r, r = reconcileMarkerSegments(segments, p)
    PROVE  r.error \notin PlannerErrors
<1> DEFINE extended == validateExtendedXmpPreservation(segments, p.transform)
           written == Writing(segments, p)
<1>1. r = IF extended.error # None THEN extended
          ELSE IF written.error # None THEN Failure(written.error)
          ELSE Success([segments |-> written.segments, removed |-> written.removed])
  BY Zenon DEF reconcileMarkerSegments, Writing
<1>2. extended.error \notin PlannerErrors
  BY ExtensionErrors
<1>3. written.error \in {None} \cup ReconcileErrors
  <2>1. Len(segments) \in Nat /\ DOMAIN segments = 1..Len(segments)
    OBVIOUS
  <2> QED
    BY <2>1, LoopErrors
<1> HIDE DEF extended, written
<1> QED
  BY <1>1, <1>2, <1>3 DEF ReconcileErrors, PlannerErrors, Failure, Success, None

\* A parsed orientation is one of the eight.
LEMMA ParsedOrientation ==
    ASSUME NEW raw PROVE tryParseExifOrientation(raw) \in {None} \cup Orientation
<1>1. DOMAIN Orientations = 1..8
  BY DEF Orientations
<1>2. \A i \in 1..8 : Orientations[i] \in Orientation
  BY DEF Orientations, Orientation
<1> QED
  BY <1>1, <1>2 DEF tryParseExifOrientation

\* The orientation that counts is one of the eight, or the analysis ends.
LEMMA OrientationDecides ==
    ASSUME NEW segments, NEW r, r = analyzeOrientation(segments)
    PROVE  /\ r.error \notin PlannerErrors
           /\ r.error = None => r.value.authoritative \in Orientation
<1> DEFINE exif == StatedOrientation(OfKind(segments, "exif"))
           xmp == StatedOrientation(OfKind(segments, "xmp"))
           authoritative == IF exif # None THEN exif ELSE IF xmp # None THEN xmp ELSE "TopLeft"
           value == [exif |-> exif, xmp |-> xmp,
                     conflict |-> exif # None /\ xmp # None /\ exif # xmp,
                     authoritative |-> authoritative]
<1>1. \A x : StatedOrientation(x) \in {None, "invalid"} \cup Orientation
  BY ParsedOrientation DEF StatedOrientation
<1>2. exif \in {None, "invalid"} \cup Orientation /\ xmp \in {None, "invalid"} \cup Orientation
  BY <1>1
<1>3. \/ r = Failure("MalformedImageMetadata")
      \/ "invalid" \in {exif, xmp} /\ r = Failure("InvalidOrientationMetadata")
      \/ "invalid" \notin {exif, xmp} /\ r = Success(value)
  BY Zenon DEF analyzeOrientation
<1> HIDE DEF exif, xmp
<1>4. "invalid" \notin {exif, xmp} => value.authoritative \in Orientation
  BY <1>2 DEF Orientation
<1> HIDE DEF value
<1> QED
  BY <1>3, <1>4 DEF Failure, Success, PlannerErrors, None

\* The scanner's refusals come before the planner, and are others.
LEMMA ScanErrors ==
    ASSUME NEW image, IsImage(image)
    PROVE  scan(image).error \notin PlannerErrors
  BY DEF IsImage, scan, Failure, Success, PlannerErrors, None

\* What the analysis of an image can end with.
LEMMA AnalysisDecides ==
    ASSUME NEW image, IsImage(image), NEW policy, NEW organization,
           NEW found, found = analyze(image, policy, organization),
           NEW orientation, orientation = analyzeOrientation(image.segments),
           NEW planned, planned = createPlan([orientation |-> orientation.value.authoritative,
                            dims |-> image.dims, imcu |-> sourceImcu(image.components),
                            policy |-> policy, organization |-> organization],
                           MaximumPixelCount)
    PROVE  \/ found.error \notin {None} \cup PlannerErrors
           \/ orientation.error = None /\ planned.error # None /\ found = planned
           \/ /\ orientation.error = None /\ planned.error = None /\ found.error = None
              /\ found.value.plan = planned.value
<1> DEFINE bindings == validateSourceAssetBindings(image.segments, image.trailing)
           preflight == reconcileMarkerSegments(image.segments, planned.value)
           findings == findingsOf(orientation.value, planned.value, preflight.value.removed)
           value == [properties |-> sourceProperties(image),
                     orientation |-> orientation.value.authoritative,
                     plan |-> planned.value, findings |-> findings]
<1>1. found = IF scan(image).error # None THEN scan(image)
              ELSE IF bindings.error # None THEN bindings
              ELSE IF orientation.error # None THEN orientation
              ELSE IF planned.error # None THEN planned
              ELSE IF preflight.error # None THEN preflight
              ELSE Success(value)
  BY Zenon DEF analyze
<1>2. scan(image).error \notin PlannerErrors
  BY ScanErrors
<1>3. bindings.error \notin PlannerErrors
  BY BindingErrors
<1>4. orientation.error \notin PlannerErrors
  BY OrientationDecides
<1>5. preflight.error \notin PlannerErrors
  BY PreflightErrors DEF IsImage
<1>6. Success(value).error = None /\ Success(value).value.plan = planned.value
  BY DEF Success
<1> HIDE DEF bindings, preflight, value
<1> QED
  BY <1>1, <1>2, <1>3, <1>4, <1>5, <1>6

\* The analysis of the reviewed image under the requested policy.
Analyzed == /\ IsImage(reviewed) /\ request.policy \in Policies
            /\ approved = analyze(reviewed, request.policy, request.organization)

\* The planner's decision is the best the codec allows.
LEMMA AnalysisIsBest == Analyzed => PlanIsBest
<1> SUFFICES ASSUME Analyzed PROVE PlanIsBest
  OBVIOUS
<1> DEFINE orientation == analyzeOrientation(reviewed.segments)
           o == orientation.value.authoritative
           dims == reviewed.dims
           unit == sourceImcu(reviewed.components)
           asked == [orientation |-> o, dims |-> dims, imcu |-> unit,
                     policy |-> request.policy, organization |-> request.organization]
           planned == createPlan(asked, MaximumPixelCount)
           imcu == NativeImcu(reviewed.components)
           product == dims.w * dims.h
           edges == affectedSourceEdgesFor(losslessTransformFor(o))
           op == OperationFor(o)
           sides == MirroredSides(op, dims, imcu)
           perfect == NativePerfect(op, dims, imcu)
           refuses == \/ request.policy = "RequirePerfectCoefficientTransform" /\ ~perfect
                      \/ MirrorsColumns(op) # sides.columns
                      \/ MirrorsRows(op) # sides.rows
           Taken == /\ product \leq MaximumPixelCount
                    /\ plan.discarded.w < imcu.w /\ plan.discarded.h < imcu.h
                    /\ Retained(plan).w > 0 /\ Retained(plan).h > 0
                    /\ willDiscardEdgePixels(plan) =>
                           /\ request.policy = "TrimPartialMinimumCodedUnits"
                           /\ ~NativePerfect(NativeOperation(plan.transform), dims, imcu)
           Limited == /\ product > MaximumPixelCount
                      /\ approved.observed = IF product > MaxUint64 THEN None ELSE product
<1>1. PlanIsBest <=>
        /\ approved.error = None => Taken
        /\ approved.error \in {None, "PerfectCoefficientTransformUnavailable"} =>
               (approved.error # None) = refuses
        /\ approved.error = "PixelCountLimitExceeded" => Limited
  BY Zenon DEF PlanIsBest, OperationFor
<1>2. /\ unit = imcu /\ imcu \in Unit /\ dims \in Size /\ MaximumPixelCount \in 0..MaxUint64
      /\ request.policy \in Policies
  <2>1. unit = imcu /\ imcu.w \in Nat \ {0} /\ imcu.h \in Nat \ {0}
    BY UnitsAgree DEF Analyzed, IsImage
  <2>2. \E a, b : imcu = [w |-> a, h |-> b]
    BY DEF NativeImcu
  <2> HIDE DEF imcu, unit
  <2>3. imcu \in Unit
    BY <2>1, <2>2 DEF Unit
  <2> QED
    BY <2>1, <2>3, EngineAssumption DEF Analyzed, IsImage, Size
<1>3. \/ approved.error \notin {None} \cup PlannerErrors
      \/ orientation.error = None /\ planned.error # None /\ approved = planned
      \/ /\ orientation.error = None /\ planned.error = None /\ approved.error = None
         /\ plan = planned.value
  BY AnalysisDecides DEF Analyzed, plan
<1>4. orientation.error = None => o \in Orientation
  BY OrientationDecides
<1>5. CASE approved.error \notin {None} \cup PlannerErrors
  BY <1>1, <1>5, Zenon DEF PlannerErrors
<1>6. ASSUME orientation.error = None
      PROVE  /\ planned.error \in {None, "MalformedJpegStructure"} \cup PlannerErrors
             /\ planned.error \in {None, "PerfectCoefficientTransformUnavailable"} =>
                  /\ dims.w # 0 /\ dims.h # 0 /\ product <= MaximumPixelCount
                  /\ planned.error # None <=> refuses
                  /\ planned.error = None => /\ edges.right => dims.w >= imcu.w
                                             /\ edges.bottom => dims.h >= imcu.h
             /\ planned.error = None => planned.value = PlanGeometry(asked)
             /\ planned.error = "PixelCountLimitExceeded" =>
                  /\ product > MaximumPixelCount
                  /\ planned.observed = IF product > MaxUint64 THEN None ELSE product
  <2>1. o \in Orientation
    BY <1>4, <1>6
  <2>2. /\ perfect <=> /\ edges.right => dims.w % imcu.w = 0
                       /\ edges.bottom => dims.h % imcu.h = 0
        /\ MirrorsColumns(op) # sides.columns \/ MirrorsRows(op) # sides.rows <=>
              \/ edges.right /\ dims.w < imcu.w
              \/ edges.bottom /\ dims.h < imcu.h
    <3> HIDE DEF o, dims, imcu, orientation
    <3> QED
      BY <1>2, <2>1, CodecRefusals
  <2>3. /\ asked.orientation = o /\ asked.dims = dims /\ asked.imcu = imcu
        /\ asked.policy = request.policy
    BY <1>2
  <2>4. dims.w \in Nat /\ dims.h \in Nat /\ imcu.w \in Nat /\ imcu.h \in Nat
    BY <1>2 DEF Size, Unit
  <2> HIDE DEF asked, o, dims, imcu, unit, edges, op, sides, perfect, product
  <2>5. /\ planned.error \in {None, "MalformedJpegStructure", "PixelCountLimitExceeded",
                              "PerfectCoefficientTransformUnavailable"}
        /\ planned.error \in {None, "PerfectCoefficientTransformUnavailable"} =>
             /\ dims.w # 0 /\ dims.h # 0 /\ dims.w * dims.h <= MaximumPixelCount
             /\ planned.error # None <=>
                  \/ /\ request.policy = "RequirePerfectCoefficientTransform"
                     /\ ~(/\ edges.right => dims.w % imcu.w = 0
                          /\ edges.bottom => dims.h % imcu.h = 0)
                  \/ edges.right /\ dims.w < imcu.w
                  \/ edges.bottom /\ dims.h < imcu.h
        /\ planned.error = None => planned.value = PlanGeometry(asked)
        /\ planned.error = "PixelCountLimitExceeded" =>
             /\ dims.w * dims.h > MaximumPixelCount
             /\ planned.observed = IF dims.w * dims.h > MaxUint64 THEN None
                                   ELSE dims.w * dims.h
    <3> HIDE DEF planned
    <3>1. edges = affectedSourceEdgesFor(losslessTransformFor(asked.orientation))
      BY <2>3 DEF edges
    <3>2. planned = createPlan(asked, MaximumPixelCount)
      BY DEF planned
    <3> QED
      BY <1>2, <2>1, <2>3, <3>1, <3>2, PlannerDecides
  <2> HIDE DEF planned
  <2>6. product = dims.w * dims.h
    BY DEF product
  <2> QED
    BY <2>2, <2>4, <2>5, <2>6 DEF PlannerErrors
<1>7. CASE orientation.error = None /\ planned.error # None /\ approved = planned
  <2> HIDE DEF planned, orientation, refuses, product, dims
  <2>1. refuses \in BOOLEAN
    BY DEF refuses
  <2> QED
    BY <1>1, <1>6, <1>7, <2>1 DEF PlannerErrors, None
<1>8. CASE /\ orientation.error = None /\ planned.error = None /\ approved.error = None
           /\ plan = planned.value
  <2>1. /\ plan = PlanGeometry(asked) /\ product <= MaximumPixelCount /\ ~refuses
        /\ dims.w # 0 /\ dims.h # 0
        /\ edges.right => dims.w >= imcu.w
        /\ edges.bottom => dims.h >= imcu.h
    BY <1>6, <1>8
  <2>2. /\ dims.w \in Nat /\ dims.h \in Nat
        /\ imcu.w \in Nat \ {0} /\ imcu.h \in Nat \ {0}
    BY <1>2 DEF Size, Unit
  <2>3. /\ plan.source = dims /\ plan.transform = losslessTransformFor(o)
        /\ plan.discarded = [w |-> IF edges.right THEN dims.w % imcu.w ELSE 0,
                             h |-> IF edges.bottom THEN dims.h % imcu.h ELSE 0]
    BY <1>2, <2>1 DEF PlanGeometry
  <2>4. perfect <=> /\ edges.right => dims.w % imcu.w = 0
                    /\ edges.bottom => dims.h % imcu.h = 0
    <3>1. o \in Orientation
      BY <1>4, <1>8
    <3> HIDE DEF o, dims, imcu, orientation
    <3> QED
      BY <1>2, <3>1, CodecRefusals
  <2>5. /\ dims.w % imcu.w \in Nat /\ dims.w % imcu.w < imcu.w /\ dims.w % imcu.w <= dims.w
        /\ dims.w >= imcu.w => dims.w % imcu.w < dims.w
        /\ dims.h % imcu.h \in Nat /\ dims.h % imcu.h < imcu.h /\ dims.h % imcu.h <= dims.h
        /\ dims.h >= imcu.h => dims.h % imcu.h < dims.h
    <3> HIDE DEF dims, imcu
    <3> QED
      BY <2>2, Remainder
  <2>6. perfect = NativePerfect(NativeOperation(plan.transform), dims, imcu)
    BY <2>3 DEF OperationFor
  <2> HIDE DEF dims, imcu, edges, product
  <2>7. plan.discarded.w < imcu.w /\ plan.discarded.h < imcu.h
    BY <2>2, <2>3, <2>5
  <2>8. Retained(plan).w > 0 /\ Retained(plan).h > 0
    BY <2>1, <2>2, <2>3, <2>5 DEF Retained
  <2>9. willDiscardEdgePixels(plan) => ~perfect
    BY <2>3, <2>4 DEF willDiscardEdgePixels
  <2>10. ~perfect => request.policy = "TrimPartialMinimumCodedUnits"
    <3> HIDE DEF perfect
    <3> QED
      BY <1>2, <2>1 DEF Policies
  <2>11. Taken
    BY <2>1, <2>6, <2>7, <2>8, <2>9, <2>10
  <2>12. refuses = FALSE
    BY <2>1
  <2> HIDE DEF Taken, refuses, Limited
  <2> QED
    BY <1>1, <1>8, <2>11, <2>12 DEF None
<1> QED
  BY <1>3, <1>5, <1>7, <1>8

Asked(image, policy, organization) ==
    [orientation |-> analyzeOrientation(image.segments).value.authoritative, dims |-> image.dims,
     imcu |-> NativeImcu(image.components), policy |-> policy, organization |-> organization]

EdgesOf(image) ==
    affectedSourceEdgesFor(losslessTransformFor(analyzeOrientation(image.segments).value.authoritative))

\* What an analysis has seen when it succeeds.
IsAccepted(image, policy, organization, value) ==
    /\ scan(image).error = None
    /\ validateSourceAssetBindings(image.segments, image.trailing).error = None
    /\ analyzeOrientation(image.segments).error = None
    /\ image.dims.w # 0 /\ image.dims.h # 0 /\ image.dims.w * image.dims.h <= MaximumPixelCount
    /\ EdgesOf(image).right => image.dims.w >= NativeImcu(image.components).w
    /\ EdgesOf(image).bottom => image.dims.h >= NativeImcu(image.components).h
    /\ value.plan = PlanGeometry(Asked(image, policy, organization))
    /\ reconcileMarkerSegments(image.segments, value.plan).error = None
    /\ value.findings = findingsOf(analyzeOrientation(image.segments).value, value.plan,
                            reconcileMarkerSegments(image.segments, value.plan).value.removed)
    /\ value.properties = sourceProperties(image)

\* The types of the geometry.
LEMMA GeometryTypes ==
    ASSUME NEW image, IsImage(image)
    PROVE  /\ image.dims \in Size /\ NativeImcu(image.components) \in Unit
           /\ sourceImcu(image.components) = NativeImcu(image.components)
<1> DEFINE imcu == NativeImcu(image.components)
<1>1. sourceImcu(image.components) = imcu /\ imcu.w \in Nat \ {0} /\ imcu.h \in Nat \ {0}
  BY UnitsAgree DEF IsImage
<1>2. \E a, b : imcu = [w |-> a, h |-> b]
  BY DEF NativeImcu
<1> HIDE DEF imcu
<1>3. imcu \in Unit
  BY <1>1, <1>2 DEF Unit
<1> QED
  BY <1>1, <1>3 DEF IsImage, Size, imcu

\* A successful analysis has seen all of that.
LEMMA AnalysisSucceeds ==
    ASSUME NEW image, IsImage(image), NEW policy \in Policies, NEW organization,
           NEW found, found = analyze(image, policy, organization), found.error = None
    PROVE  IsAccepted(image, policy, organization, found.value)
<1> DEFINE bindings == validateSourceAssetBindings(image.segments, image.trailing)
           orientation == analyzeOrientation(image.segments)
           o == orientation.value.authoritative
           asked == Asked(image, policy, organization)
           planned == createPlan(asked, MaximumPixelCount)
           preflight == reconcileMarkerSegments(image.segments, planned.value)
           findings == findingsOf(orientation.value, planned.value, preflight.value.removed)
           value == [properties |-> sourceProperties(image), orientation |-> o,
                     plan |-> planned.value, findings |-> findings]
           dims == image.dims
           imcu == NativeImcu(image.components)
           edges == EdgesOf(image)
<1>0. /\ dims \in Size /\ imcu \in Unit /\ sourceImcu(image.components) = imcu
      /\ MaximumPixelCount \in 0..MaxUint64
  BY GeometryTypes, EngineAssumption
<1>1. asked = [orientation |-> o, dims |-> image.dims, imcu |-> sourceImcu(image.components),
               policy |-> policy, organization |-> organization]
  BY <1>0 DEF Asked
<1>2. found = IF scan(image).error # None THEN scan(image)
              ELSE IF bindings.error # None THEN bindings
              ELSE IF orientation.error # None THEN orientation
              ELSE IF planned.error # None THEN planned
              ELSE IF preflight.error # None THEN preflight
              ELSE Success(value)
  BY <1>1, Zenon DEF analyze
<1> HIDE DEF value
<1>3. /\ scan(image).error = None /\ bindings.error = None /\ orientation.error = None
      /\ planned.error = None /\ preflight.error = None /\ found.value = value
  <2> HIDE DEF bindings, orientation, planned, preflight
  <2> QED
    BY <1>2 DEF Success
<1>4. o \in Orientation
  BY <1>3, OrientationDecides
<1>5. /\ asked.orientation = o /\ asked.dims = dims /\ asked.imcu = imcu
      /\ asked.policy = policy /\ edges = affectedSourceEdgesFor(losslessTransformFor(asked.orientation))
  BY DEF Asked, EdgesOf
<1> HIDE DEF asked, o, dims, imcu, edges
<1>6. /\ dims.w # 0 /\ dims.h # 0 /\ dims.w * dims.h <= MaximumPixelCount
      /\ ~(edges.right /\ dims.w < imcu.w) /\ ~(edges.bottom /\ dims.h < imcu.h)
      /\ planned.value = PlanGeometry(asked)
  <2>1. planned = createPlan(asked, MaximumPixelCount)
    OBVIOUS
  <2> HIDE DEF planned
  <2> QED
    BY <1>0, <1>3, <1>4, <1>5, <2>1, PlannerDecides
<1>7. dims.w \in Nat /\ dims.h \in Nat /\ imcu.w \in Nat /\ imcu.h \in Nat
  BY <1>0 DEF Size, Unit
<1>8. /\ edges.right => dims.w >= imcu.w
      /\ edges.bottom => dims.h >= imcu.h
  BY <1>6, <1>7
<1>9. /\ value.plan = PlanGeometry(asked) /\ value.findings = findings
      /\ value.properties = sourceProperties(image) /\ planned.value = value.plan
  BY <1>6 DEF value
<1> HIDE DEF planned
<1> QED
  BY <1>3, <1>6, <1>8, <1>9 DEF IsAccepted, dims, imcu, edges, asked

OrientationOf(image) == analyzeOrientation(image.segments).value.authoritative

\* What an accepted plan says.
LEMMA PlanSays ==
    ASSUME NEW image, IsImage(image), NEW policy, NEW organization, NEW value,
           IsAccepted(image, policy, organization, value),
           NEW kept, kept = KeptSides(EdgesOf(image), image.dims, NativeImcu(image.components))
    PROVE  /\ OrientationOf(image) \in Orientation
           /\ value.plan.policy = policy /\ value.plan.organization = organization
           /\ value.plan.transform = losslessTransformFor(OrientationOf(image))
           /\ value.plan.source = image.dims /\ Retained(value.plan) = kept
           /\ value.plan.output = IF swapsAxes(value.plan.transform) THEN Swapped(kept) ELSE kept
           /\ kept.w \in 1..image.dims.w /\ kept.h \in 1..image.dims.h
           /\ (willDiscardEdgePixels(value.plan) <=> kept # image.dims)
<1> DEFINE dims == image.dims
           imcu == NativeImcu(image.components)
           edges == EdgesOf(image)
           p == value.plan
           o == OrientationOf(image)
           asked == Asked(image, policy, organization)
<1>0. o \in Orientation
  BY OrientationDecides DEF IsAccepted, OrientationOf
<1>1. dims \in Size /\ imcu \in Unit
  BY GeometryTypes
<1>2. /\ asked.orientation = o /\ asked.dims = dims /\ asked.imcu = imcu /\ asked.policy = policy
      /\ asked.organization = organization
      /\ affectedSourceEdgesFor(losslessTransformFor(o)) = edges
  BY DEF Asked, EdgesOf, OrientationOf
<1>3. /\ p = PlanGeometry(asked) /\ dims.w # 0 /\ dims.h # 0
      /\ edges.right => dims.w >= imcu.w
      /\ edges.bottom => dims.h >= imcu.h
  BY DEF IsAccepted
<1>4. kept = KeptSides(edges, dims, imcu)
  OBVIOUS
<1> HIDE DEF asked, dims, imcu, edges, p, o
<1> DEFINE discarded == [w |-> IF edges.right THEN dims.w % imcu.w ELSE 0,
                         h |-> IF edges.bottom THEN dims.h % imcu.h ELSE 0]
           retained == [w |-> dims.w - discarded.w, h |-> dims.h - discarded.h]
<1>5. p = [transform |-> losslessTransformFor(o), source |-> dims,
           output |-> IF swapsAxes(losslessTransformFor(o)) THEN Swapped(retained) ELSE retained,
           policy |-> policy, organization |-> organization, imcu |-> imcu,
           discarded |-> discarded]
  BY <1>2, <1>3 DEF PlanGeometry
<1>6. /\ dims.w \in Nat /\ dims.h \in Nat /\ imcu.w \in Nat \ {0} /\ imcu.h \in Nat \ {0}
      /\ dims = [w |-> dims.w, h |-> dims.h]
  BY <1>1 DEF Size, Unit
<1>7. /\ dims.w % imcu.w \in Nat /\ dims.w % imcu.w <= dims.w
      /\ dims.w >= imcu.w => dims.w % imcu.w < dims.w
      /\ dims.h % imcu.h \in Nat /\ dims.h % imcu.h <= dims.h
      /\ dims.h >= imcu.h => dims.h % imcu.h < dims.h
  BY <1>6, Remainder
<1>8. /\ discarded.w \in Nat /\ discarded.w < dims.w /\ discarded.h \in Nat /\ discarded.h < dims.h
      /\ kept = retained
  BY <1>3, <1>4, <1>6, <1>7 DEF KeptSides
<1> HIDE DEF discarded
<1>9. /\ kept.w \in 1..dims.w /\ kept.h \in 1..dims.h
      /\ kept # dims <=> (discarded.w # 0 \/ discarded.h # 0)
  BY <1>6, <1>8
<1> HIDE DEF retained
<1>10. /\ p.transform = losslessTransformFor(o) /\ p.source = dims /\ p.discarded = discarded
       /\ p.policy = policy /\ p.organization = organization
       /\ p.output = IF swapsAxes(losslessTransformFor(o)) THEN Swapped(kept) ELSE kept
  BY <1>5, <1>8
<1>11. Retained(p) = kept
  BY <1>8, <1>10 DEF Retained, retained
<1> QED
  BY <1>0, <1>9, <1>10, <1>11 DEF dims, p, o, willDiscardEdgePixels

Admissible(s) == IsSegment(s) /\ (s.kind \in {"jfif", "jfxx", "photoshop"} => s.sound)
AllAdmissible(q) == q \in Seq(ToSet(q)) /\ \A s \in ToSet(q) : Admissible(s)

\* Sequences of such segments, element by element.
LEMMA AdmissibleElements ==
    ASSUME NEW q
    PROVE  AllAdmissible(q) <=> \E S : q \in Seq(S) /\ \A s \in S : Admissible(s)
<1>1. ASSUME NEW S, q \in Seq(S), \A s \in S : Admissible(s) PROVE AllAdmissible(q)
  <2>1. ToSet(q) \subseteq S /\ q \in Seq(ToSet(q))
    BY <1>1 DEF ToSet
  <2> QED
    BY <1>1, <2>1 DEF AllAdmissible
<1> QED
  BY <1>1 DEF AllAdmissible

\* What can be done to them.
LEMMA AdmissibleSequences ==
    ASSUME NEW a, AllAdmissible(a)
    PROVE  /\ AllAdmissible(<<>>)
           /\ \A s : Admissible(s) => AllAdmissible(<<s>>)
           /\ \A b : AllAdmissible(b) => AllAdmissible(a \o b)
           /\ \A i \in DOMAIN a : AllAdmissible(RemoveAt(a, i))
           /\ \A i \in DOMAIN a : \A s : Admissible(s) => AllAdmissible([a EXCEPT ![i] = s])
           /\ \A i \in DOMAIN a : Admissible(a[i])
<1>0. a \in Seq(ToSet(a)) /\ \A s \in ToSet(a) : Admissible(s)
  BY DEF AllAdmissible
<1>1. AllAdmissible(<<>>)
  <2>1. ToSet(<<>>) = {} /\ <<>> \in Seq({})
    BY DEF ToSet
  <2> QED
    BY <2>1 DEF AllAdmissible
<1>2. ASSUME NEW s, Admissible(s) PROVE AllAdmissible(<<s>>)
  <2>1. <<s>> \in Seq({s}) /\ \A t \in {s} : Admissible(t)
    BY <1>2
  <2> QED
    BY <2>1, AdmissibleElements
<1>3. ASSUME NEW b, AllAdmissible(b) PROVE AllAdmissible(a \o b)
  <2> DEFINE T == ToSet(a) \cup ToSet(b)
  <2>1. b \in Seq(ToSet(b)) /\ \A s \in ToSet(b) : Admissible(s)
    BY <1>3 DEF AllAdmissible
  <2>2. \A s \in T : Admissible(s)
    BY <1>0, <2>1
  <2>3. a \in Seq(T) /\ b \in Seq(T)
    BY <1>0, <2>1
  <2> HIDE DEF T
  <2>4. a \o b \in Seq(T)
    BY <2>3
  <2> QED
    BY <2>2, <2>4, AdmissibleElements
<1>4. ASSUME NEW i \in DOMAIN a PROVE AllAdmissible(RemoveAt(a, i))
  <2> DEFINE T == ToSet(a)
  <2>1. a \in Seq(T) /\ i \in 1..Len(a) /\ Len(a) \in Nat
    BY <1>0
  <2> HIDE DEF T
  <2>2. SubSeq(a, 1, i - 1) \in Seq(T) /\ SubSeq(a, i + 1, Len(a)) \in Seq(T)
    BY <2>1
  <2>3. RemoveAt(a, i) \in Seq(T)
    BY <2>2 DEF RemoveAt
  <2> QED
    BY <1>0, <2>3, AdmissibleElements DEF T
<1>5. ASSUME NEW i \in DOMAIN a, NEW s, Admissible(s) PROVE AllAdmissible([a EXCEPT ![i] = s])
  <2> DEFINE T == ToSet(a) \cup {s}
             b == [a EXCEPT ![i] = s]
  <2>1. \A t \in T : Admissible(t)
    BY <1>0, <1>5
  <2>2. a \in Seq(T)
    BY <1>0
  <2>3. b \in Seq(T)
    BY <2>2
  <2> HIDE DEF T, b
  <2>4. AllAdmissible(b)
    BY <2>1, <2>3, AdmissibleElements
  <2> QED
    BY <2>4 DEF b
<1>6. \A i \in DOMAIN a : Admissible(a[i])
  BY <1>0 DEF ToSet
<1> QED
  BY <1>1, <1>2, <1>3, <1>4, <1>5, <1>6, Zenon

\* A written segment is one again, and has been understood.
LEMMA SegmentAdmissible ==
    ASSUME NEW s, IsSegment(s), NEW p, p.output.w \in Nat, p.output.h \in Nat,
           NEW r, r = reconcileSegment(s, p), r.error = None
    PROVE  /\ s.kind \in {"jfif", "jfxx", "photoshop"} => s.sound
           /\ IF transformed(p) /\ s.kind = "jfxx" THEN r.value.segment = <<>>
              ELSE \E t : r.value.segment = <<t>> /\ Admissible(t)
<1>0. \A x, y : Change(x, y).value.segment = <<x>>
  BY DEF Change, Success
<1>p. unsupportedPreview.error # None
  BY DEF unsupportedPreview, Failure, None
<1>1. CASE s.kind \in {"exif", "xmp"}
  <2>1. PICK relocates : r = reconcilePacket(s, p, relocates)
    BY <1>1 DEF reconcileSegment
  <2>2. r.value.segment \in {<<Rewritten(s, p)>>, <<s>>}
    BY <1>0, <2>1, PacketChanges
  <2>3. Admissible(s)
    BY <1>1 DEF Admissible
  <2> DEFINE t == Rewritten(s, p)
  <2>4. t = [s EXCEPT !.orientation = All(@, 1),
                      !.width = All(@, p.output.w), !.height = All(@, p.output.h),
                      !.thumbnail = @ /\ ~transformed(p), !.size = @ + RewriteGrowth]
    BY DEF Rewritten
  <2>5. \A x \in Seq(Int), y \in Int : All(x, y) \in Seq(Int)
    <3> SUFFICES ASSUME NEW x \in Seq(Int), NEW y \in Int PROVE All(x, y) \in Seq(Int)
      OBVIOUS
    <3>1. All(x, y) = [i \in 1..Len(x) |-> y] /\ Len(x) \in Nat
      BY DEF All
    <3> QED
      BY <3>1
  <2>6. /\ {"kind", "size", "orientation", "width", "height", "thumbnail", "other"} \subseteq DOMAIN s
        /\ s.size \in Nat /\ s.readable \in BOOLEAN /\ s.orientation \in Seq(Int)
        /\ s.width \in Seq(Int) /\ s.height \in Seq(Int)
    BY <1>1 DEF IsSegment
  <2>7. /\ DOMAIN t = DOMAIN s /\ t.kind = s.kind /\ t.readable = s.readable
        /\ t.orientation = All(s.orientation, 1) /\ t.width = All(s.width, p.output.w)
        /\ t.height = All(s.height, p.output.h) /\ t.thumbnail = (s.thumbnail /\ ~transformed(p))
        /\ t.size = s.size + RewriteGrowth
    BY <2>4, <2>6
  <2>r. t = [field \in DOMAIN t |-> t[field]]
    BY <2>4
  <2> HIDE DEF t
  <2>8. IsSegment(t)
    <3>0. 1 \in Int /\ p.output.w \in Int /\ p.output.h \in Int
      OBVIOUS
    <3>1. t.orientation \in Seq(Int) /\ t.width \in Seq(Int) /\ t.height \in Seq(Int)
      BY <2>5, <2>6, <2>7, <3>0, Zenon
    <3>2. t.size \in Nat
      BY <2>6, <2>7, ReconcilerAssumption
    <3>3. t.readable \in BOOLEAN /\ t.thumbnail \in BOOLEAN
      BY <2>6, <2>7
    <3>4. {"kind", "size", "orientation", "width", "height", "thumbnail", "other"} \subseteq DOMAIN t
      BY <2>6, <2>7
    <3>5. t.kind \in {"exif", "xmp"}
      BY <1>1, <2>7
    <3>6. t.kind = "xmp" => {"declares", "provenance"} \subseteq DOMAIN t
      BY <2>7 DEF IsSegment
    <3> QED
      BY <2>r, <3>1, <3>2, <3>3, <3>4, <3>5, <3>6 DEF IsSegment
  <2>9. Admissible(t)
    BY <1>1, <2>7, <2>8 DEF Admissible
  <2> QED
    BY <1>1, <2>2, <2>3, <2>9 DEF t
<1>2. CASE s.kind = "jfif"
  <2>1. r = reconcileJfif(s, p)
    BY <1>2 DEF reconcileSegment
  <2> DEFINE t == [s EXCEPT !.thumbnail = FALSE, !.size = 1]
  <2>2. s.sound /\ r = IF ~transformed(p) THEN Change(s, FALSE) ELSE Change(t, s.thumbnail)
    BY <1>p, <2>1, Zenon DEF reconcileJfif
  <2>3. /\ DOMAIN t = DOMAIN s /\ t.kind = s.kind /\ t.sound = s.sound /\ t.thumbnail = FALSE
        /\ t.size = 1
    BY <1>2 DEF IsSegment
  <2>r. t = [field \in DOMAIN t |-> t[field]]
    OBVIOUS
  <2> HIDE DEF t
  <2>4. IsSegment(t)
    <3>1. {"kind", "size", "thumbnail", "other"} \subseteq DOMAIN t /\ t.sound \in BOOLEAN
      BY <1>2, <2>3 DEF IsSegment
    <3>2. t.kind = "jfif" /\ t.size \in Nat
      BY <1>2, <2>3
    <3>3. t.thumbnail \in BOOLEAN
      BY <2>3, Zenon
    <3> QED
      BY <2>r, <3>1, <3>2, <3>3 DEF IsSegment
  <2>5. Admissible(s) /\ Admissible(t)
    BY <1>2, <2>2, <2>3, <2>4 DEF Admissible
  <2> QED
    BY <1>0, <1>2, <2>2, <2>5
<1>3. CASE s.kind = "jfxx"
  <2>1. r = reconcileJfxx(s, p)
    BY <1>3 DEF reconcileSegment
  <2>2. s.sound /\ r = IF ~transformed(p) THEN Change(s, FALSE)
                       ELSE Success([segment |-> <<>>, removed |-> TRUE])
    BY <1>p, <2>1, Zenon DEF reconcileJfxx
  <2>3. Admissible(s)
    BY <2>2 DEF Admissible
  <2>4. CASE transformed(p)
    BY <1>3, <2>2, <2>4 DEF Success
  <2>5. CASE ~transformed(p)
    BY <1>0, <2>2, <2>3, <2>5
  <2> QED
    BY <2>4, <2>5
<1>4. CASE s.kind = "photoshop"
  <2> DEFINE kept == IF transformed(p) THEN WithoutThumbnail(s.resources) ELSE s.resources
             t == [s EXCEPT !.resources = kept, !.size = 1 + Len(kept)]
  <2>1. r = reconcilePhotoshopResources(s, p)
    BY <1>4 DEF reconcileSegment
  <2>2. s.sound /\ r = Change(t, kept # s.resources)
    BY <1>p, <2>1, Zenon DEF reconcilePhotoshopResources
  <2>3. kept \in Seq(STRING)
    <3> DEFINE I == {i \in DOMAIN s.resources : s.resources[i] # "thumbnail"}
    <3>1. I \in SUBSET DOMAIN s.resources /\ s.resources \in Seq(STRING)
      BY <1>4 DEF IsSegment
    <3>2. WithoutThumbnail(s.resources) = Chosen(s.resources, I)
      BY DEF WithoutThumbnail
    <3> HIDE DEF I
    <3>3. WithoutThumbnail(s.resources) \in Seq(STRING)
      BY <3>1, <3>2, ChosenElements
    <3> QED
      BY <3>1, <3>3
  <2> HIDE DEF kept
  <2>4. /\ DOMAIN t = DOMAIN s /\ t.kind = s.kind /\ t.sound = s.sound /\ t.resources = kept
        /\ t.size = 1 + Len(kept)
    BY <1>4 DEF IsSegment
  <2>r. t = [field \in DOMAIN t |-> t[field]]
    OBVIOUS
  <2> HIDE DEF t
  <2>5. Len(kept) \in Nat
    BY <2>3
  <2>6. IsSegment(t)
    BY <1>4, <2>r, <2>3, <2>4, <2>5 DEF IsSegment
  <2>7. Admissible(t)
    BY <2>2, <2>4, <2>6 DEF Admissible
  <2> QED
    BY <1>0, <1>4, <2>2, <2>7
<1>5. CASE s.kind \notin {"exif", "xmp", "jfif", "jfxx", "photoshop"}
  <2>1. r = Change(s, FALSE)
    BY <1>5 DEF reconcileSegment
  <2>2. Admissible(s)
    BY <1>5 DEF Admissible
  <2> QED
    BY <1>0, <1>5, <2>1, <2>2
<1> QED
  BY <1>1, <1>2, <1>3, <1>4, <1>5

\* So are all that the loop writes, and all that it read.
LEMMA LoopAdmissible ==
    ASSUME NEW q, q \in Seq(ToSet(q)), \A s \in ToSet(q) : IsSegment(s),
           NEW p, p.output.w \in Nat, p.output.h \in Nat, Writing(q, p).error = None
    PROVE  AllAdmissible(q) /\ AllAdmissible(Writing(q, p).segments)
<1> DEFINE n == Len(q)
<1>1. n \in Nat /\ DOMAIN q = 1..n
  OBVIOUS
<1> HIDE DEF n
<1>2. PICK W : IsLoop(W, q, n, p) /\ Writing(q, p) = W[n]
  BY <1>1, LoopStates
<1>3. Succeeded(W, q, n, p)
  BY <1>1, <1>2, LoopSucceeds
<1>4. \A k \in 1..n : /\ reconcileSegment(q[k], p).error = None
                      /\ W[k].segments = W[k - 1].segments \o reconcileSegment(q[k], p).value.segment
  BY <1>3, Zenon DEF Succeeded
<1>5. \A k \in 1..n : IsSegment(q[k])
  BY <1>1 DEF ToSet
<1>6. ASSUME NEW k \in 1..n
      PROVE  Admissible(q[k]) /\ AllAdmissible(reconcileSegment(q[k], p).value.segment)
  <2> DEFINE s == q[k]
             r == reconcileSegment(s, p)
  <2>1. IsSegment(s) /\ r.error = None
    BY <1>4, <1>5
  <2> HIDE DEF s
  <2>2. /\ s.kind \in {"jfif", "jfxx", "photoshop"} => s.sound
        /\ r.value.segment = <<>> \/ \E t : r.value.segment = <<t>> /\ Admissible(t)
    BY <2>1, SegmentAdmissible
  <2> HIDE DEF r
  <2>3. Admissible(s)
    BY <2>1, <2>2 DEF Admissible
  <2>4. AllAdmissible(<<>>)
    BY DEF AllAdmissible, ToSet
  <2>5. AllAdmissible(r.value.segment)
    BY <2>2, <2>4, AdmissibleSequences
  <2> QED
    BY <2>3, <2>5 DEF s, r
<1>7. AllAdmissible(q)
  BY <1>1, <1>6 DEF AllAdmissible, ToSet
<1> DEFINE Wrong == {k \in 0..n : ~AllAdmissible(W[k].segments)}
<1>8. Wrong = {}
  <2> SUFFICES ASSUME Wrong # {} PROVE FALSE
    OBVIOUS
  <2>1. Wrong \subseteq Nat
    BY <1>1
  <2>2. PICK m \in Wrong : \A y \in Wrong : y >= m
    <3> HIDE DEF Wrong
    <3> QED
      BY <2>1, Smallest
  <2>3. W[0].segments = <<>> /\ AllAdmissible(<<>>)
    BY <1>2 DEF IsLoop, Unwritten, AllAdmissible, ToSet
  <2>4. m \in 0..n /\ ~AllAdmissible(W[m].segments)
    BY <2>2
  <2>5. m # 0
    BY <2>3, <2>4
  <2>6. m \in 1..n /\ m - 1 \in 0..n /\ ~(m - 1 >= m)
    BY <1>1, <2>4, <2>5
  <2>7. AllAdmissible(W[m - 1].segments)
    BY <2>2, <2>6
  <2> HIDE DEF Wrong
  <2> DEFINE a == W[m - 1].segments
             b == reconcileSegment(q[m], p).value.segment
  <2>8. AllAdmissible(a) /\ AllAdmissible(b) /\ W[m].segments = a \o b
    BY <1>4, <1>6, <2>6, <2>7
  <2> HIDE DEF a, b
  <2>9. AllAdmissible(a \o b)
    BY <2>8, AdmissibleSequences
  <2> QED
    BY <2>4, <2>8, <2>9
<1>9. AllAdmissible(W[n].segments)
  BY <1>1, <1>8
<1> QED
  BY <1>2, <1>7, <1>9

-----------------------------------------------------------------------------
(* The specification *)

\* The accepted analysis stays that of the reviewed image.
AnalysisInv ==
    /\ scenario \in DOMAIN Scenarios /\ reviewed \in world.photos
    /\ request.policy \in world.policies
    /\ IF pc = "Review" THEN approved = Pending
       ELSE approved = analyze(reviewed, request.policy, request.organization)

\* No step after the review touches what was reviewed or accepted.
LEMMA ReviewIsKept ==
    ASSUME pc # "Review", [Next]_vars
    PROVE  UNCHANGED <<scenario, reviewed, request, approved>> /\ pc' # "Review"
<1>1. CASE Review
  BY <1>1 DEF Review
<1>2. CASE ChangeSource
  BY <1>2 DEF ChangeSource
<1>3. CASE RequestStop
  BY <1>3 DEF RequestStop
<1>4. CASE Begin
  BY <1>4 DEF Begin, still, cancelled, Return, RunsTo
<1>5. CASE Reconcile
  BY <1>5 DEF Reconcile, still, cancelled, Return, RunsTo
<1>6. CASE Prepare
  BY <1>6 DEF Prepare, still, cancelled, Return, RunsTo
<1>7. CASE Call
  BY <1>7 DEF Call, still, cancelled, Return, RunsTo
<1>8. CASE Returned
  BY <1>8 DEF Returned, still, cancelled, Return, RunsTo
<1>9. CASE Splice
  BY <1>9 DEF Splice, still, cancelled, Return, RunsTo
<1>10. CASE Validate
  BY <1>10 DEF Validate, still, cancelled, Return, RunsTo
<1>11. CASE DecodeSource
  BY <1>11 DEF DecodeSource, Decode, still, cancelled, Return, RunsTo
<1>12. CASE DecodeOutput
  BY <1>12 DEF DecodeOutput, Decode, still, cancelled, Return, RunsTo
<1>13. CASE Publish
  BY <1>13 DEF Publish, still, cancelled, Return, RunsTo
<1>14. CASE AllocationFails
  BY <1>14 DEF AllocationFails, still, Return
<1>15. CASE DigestFails
  BY <1>15 DEF DigestFails, still, Return
<1>16. CASE Done \/ UNCHANGED vars
  BY <1>16 DEF Done, vars
<1> QED
  BY <1>1, <1>2, <1>3, <1>4, <1>5, <1>6, <1>7, <1>8, <1>9, <1>10, <1>11, <1>12, <1>13,
     <1>14, <1>15, <1>16 DEF Next, Execution

\* AnalysisInv holds initially.
LEMMA AnalysisInit == Init => AnalysisInv
  BY DEF Init, AnalysisInv, world

\* Every step keeps AnalysisInv.
LEMMA AnalysisStep == AnalysisInv /\ [Next]_vars => AnalysisInv'
<1> SUFFICES ASSUME AnalysisInv, [Next]_vars PROVE AnalysisInv'
  OBVIOUS
<1>1. CASE pc # "Review"
  BY <1>1, ReviewIsKept DEF AnalysisInv, world
<1>2. CASE pc = "Review"
  <2>1. Review \/ UNCHANGED vars
    BY <1>2 DEF Next, Execution, ChangeSource, RequestStop, Begin, Reconcile, Prepare, Call,
                Returned, Splice, Validate, DecodeSource, DecodeOutput, Decode, Publish,
                DigestFails, AllocationFails, Done
  <2>2. CASE Review
    <3>1. /\ UNCHANGED <<scenario, reviewed, request>>
          /\ approved' = analyze(reviewed, request.policy, request.organization)
          /\ pc' # "Review"
      BY <2>2 DEF Review, RunsTo, Return
    <3> QED
      BY <1>2, <3>1 DEF AnalysisInv, world
  <2>3. CASE UNCHANGED vars
    BY <2>3 DEF vars, AnalysisInv, world
  <2> QED
    BY <2>1, <2>2, <2>3
<1> QED
  BY <1>1, <1>2

\* What is reviewed is an image under one of the two policies.
LEMMA AnalysisHolds ==
    ASSUME AnalysisInv PROVE PlanIsBest
<1>1. IsImage(reviewed) /\ request.policy \in Policies
  BY EngineAssumption DEF AnalysisInv, world
<1>2. CASE pc = "Review"
  <2>1. approved.error \notin {None} \cup PlannerErrors
    BY <1>2 DEF AnalysisInv, Pending, Failure, PlannerErrors, None
  <2> QED
    BY <2>1, Zenon DEF PlanIsBest, PlannerErrors
<1>3. CASE pc # "Review"
  BY <1>1, <1>3, AnalysisIsBest DEF AnalysisInv, Analyzed
<1> QED
  BY <1>2, <1>3

\* In every reachable state the accepted plan takes no more than it must, and
\* createPlan refuses only what the codec could not do either.
THEOREM PlansAreBest == Spec => []PlanIsBest
<1>1. AnalysisInv /\ [Next]_vars => AnalysisInv'
  BY AnalysisStep
<1>2. AnalysisInv => PlanIsBest
  BY AnalysisHolds
<1> QED
  BY AnalysisInit, <1>1, <1>2, PTL DEF Spec

-----------------------------------------------------------------------------
(* The way to a published output *)

ObservedFact ==
    /\ analyze(source, plan.policy, plan.organization).error = None
    /\ analyze(source, plan.policy, plan.organization).value = approved.value

MetadataFact ==
    /\ reconcileMarkerSegments(source.segments, plan).error = None
    /\ metadata = reconcileMarkerSegments(source.segments, plan).value.segments

CodedFact ==
    /\ DOMAIN codec[1] = DOMAIN source
    /\ codec[1].operation = NativeOperation(plan.transform)
    /\ ~misbehaved => codec[1] \in NativeOutput /\ ~Overlong(codec[1])

SplicedFact ==
    /\ output.operation = NativeOperation(plan.transform)
    /\ AllAdmissible(output.segments)
    /\ ~misbehaved => output = Spliced

ValidFact == StructureRule = None /\ MetadataRule = None

ResultFact ==
    /\ output.tables = expectedTables /\ result.output = output
    /\ result.evidence = validateReconciledMetadata(source.segments, output.segments, plan).value

AfterValidate == {"DecodeSource", "DecodeOutput", "Publish"}
AfterSplice == AfterValidate \cup {"Validate"}
AfterReturned == AfterSplice \cup {"Splice"}
AfterReconcile == AfterReturned \cup {"Prepare", "Call", "Returned"}
AfterBegin == AfterReconcile \cup {"Reconcile"}

\* What the work has established, by how far it has come.
Past(places) == pc \in places \/ Published
WorkInv ==
    /\ source \in world.photos
    /\ Past(AfterBegin \cup {"Begin"}) => approved.error = None
    /\ Past(AfterBegin) => ObservedFact
    /\ Past(AfterReconcile) => MetadataFact
    /\ (pc = "Returned" /\ codec # <<>>) \/ Past(AfterReturned) => CodedFact
    /\ Past(AfterSplice) => SplicedFact
    /\ Past(AfterValidate) => ValidFact
    /\ Published => ResultFact

\* What the codec may write depends on the source and on the plan.
LEMMA NativeStays ==
    ASSUME UNCHANGED <<source, approved>>
    PROVE  UNCHANGED <<plan, NativeOutput>> /\ \A image : Overlong(image)' = Overlong(image)
<1>1. UNCHANGED plan
  BY DEF plan
<1>2. UNCHANGED <<expectedComponents, expectedTables, ProgressiveOutput>>
  BY <1>1 DEF expectedComponents, expectedTables, ProgressiveOutput
<1>3. UNCHANGED <<NativeComponents, NativeSegments>>
  BY <1>1, <1>2 DEF NativeComponents, NativeSegments
<1>4. \A c, s, l : Transcoded(c, s, l)' = Transcoded(c, s, l)
  BY <1>1, <1>2 DEF Transcoded
<1> QED
  BY <1>1, <1>3, <1>4 DEF NativeOutput, Overlong

\* The facts are about what does not change.
LEMMA FactsStay ==
    ASSUME UNCHANGED <<source, approved>>
    PROVE  /\ ObservedFact' = ObservedFact
           /\ UNCHANGED metadata => MetadataFact' = MetadataFact
           /\ UNCHANGED <<codec, misbehaved>> => CodedFact' = CodedFact
           /\ UNCHANGED <<metadata, codec, completed, misbehaved>> => SplicedFact' = SplicedFact
           /\ UNCHANGED completed => ValidFact' = ValidFact
<1>1. UNCHANGED plan
  BY DEF plan
<1>2. ObservedFact' = ObservedFact
  BY <1>1 DEF ObservedFact
<1>3. ASSUME UNCHANGED metadata PROVE MetadataFact' = MetadataFact
  BY <1>1, <1>3 DEF MetadataFact
<1>4. NativeOutput' = NativeOutput
  BY NativeStays
<1>5. ASSUME UNCHANGED <<codec, misbehaved>> PROVE CodedFact' = CodedFact
  BY <1>1, <1>4, <1>5 DEF CodedFact, Overlong, fileLength
<1>6. ASSUME UNCHANGED <<metadata, codec, completed, misbehaved>> PROVE SplicedFact' = SplicedFact
  BY <1>1, <1>6 DEF SplicedFact, Spliced, output
<1>7. ASSUME UNCHANGED completed PROVE ValidFact' = ValidFact
  <2>1. UNCHANGED <<output, expectedComponents, ProgressiveOutput>>
    BY <1>1, <1>7 DEF output, expectedComponents, ProgressiveOutput
  <2>2. StructureRule' = StructureRule
    BY <1>1, <2>1, Zenon DEF StructureRule
  <2>3. MetadataRule' = MetadataRule
    BY <1>1, <2>1, Zenon DEF MetadataRule
  <2> QED
    BY <2>2, <2>3 DEF ValidFact
<1> QED
  BY <1>2, <1>3, <1>5, <1>6, <1>7

\* A refusal ends the work.
LEMMA RefusalEnds ==
    ASSUME pc' = "Done", result'.error # None, source' \in world.photos, UNCHANGED scenario
    PROVE  WorkInv'
  BY DEF WorkInv, Past, Published, AfterBegin, AfterReconcile, AfterReturned, AfterSplice,
         AfterValidate, world

ImageFields == {"dims", "components", "precision", "progressive", "arithmetic", "restart",
                "tables", "segments", "trailing", "unsound", "decodes", "operation", "length"}

\* What the codec writes when it does what it is asked.
LEMMA CodecWrites ==
    ASSUME DOMAIN source = ImageFields, NEW out \in NativeOutput
    PROVE  /\ DOMAIN out = DOMAIN source
           /\ out.operation = NativeOperation(plan.transform)
           /\ out.dims = NativeDimensions(NativeOperation(plan.transform), source.dims,
                                          NativeImcu(source.components))
           /\ \/ out.components = expectedComponents
              \/ plan.transform = "None" /\ out.components = source.components
           /\ out.tables = expectedTables /\ out.progressive = ProgressiveOutput
           /\ out.trailing = FALSE
           /\ \/ out.segments = <<>>
              \/ out.segments = <<[kind |-> "opaque", name |-> "hint", size |-> 1]>>
           /\ out.restart = source.restart /\ out.precision = source.precision
           /\ out.arithmetic = source.arithmetic /\ out.unsound = source.unsound
           /\ out.decodes = source.decodes
<1> DEFINE op == NativeOperation(plan.transform)
           dims == NativeDimensions(op, source.dims, NativeImcu(source.components))
           bytes(length, segments) == Min({length, NativeBound(plan.output) - TotalSize(segments)})
<1>1. PICK components \in NativeComponents, segments \in NativeSegments, length \in CodecLengths :
        out = Transcoded(components, segments, length)
  BY DEF NativeOutput
<1>2. out = [source EXCEPT !.dims = dims, !.components = components, !.tables = expectedTables,
                           !.progressive = ProgressiveOutput, !.operation = op,
                           !.trailing = FALSE, !.segments = segments,
                           !.length = bytes(length, segments)]
  BY <1>1 DEF Transcoded
<1>3. \/ components = expectedComponents
      \/ plan.transform = "None" /\ components = source.components
  BY <1>1 DEF NativeComponents
<1>4. segments = <<>> \/ segments = <<[kind |-> "opaque", name |-> "hint", size |-> 1]>>
  BY <1>1 DEF NativeSegments
<1> HIDE DEF op, dims, bytes
<1>5. /\ DOMAIN out = DOMAIN source /\ out.operation = op /\ out.dims = dims
      /\ out.components = components /\ out.tables = expectedTables
      /\ out.progressive = ProgressiveOutput /\ out.trailing = FALSE /\ out.segments = segments
      /\ out.restart = source.restart /\ out.precision = source.precision
      /\ out.arithmetic = source.arithmetic /\ out.unsound = source.unsound
      /\ out.decodes = source.decodes
  BY <1>2 DEF ImageFields
<1> QED
  BY <1>3, <1>4, <1>5 DEF op, dims, bytes

\* A faulty writer does not touch the pixels, and writes segments of the same kinds.
LEMMA WriterWrites ==
    ASSUME NEW image, DOMAIN image = ImageFields, AllAdmissible(image.segments),
           AllAdmissible(source.segments), NEW out \in Misspliced(image)
    PROVE  out.operation = image.operation /\ AllAdmissible(out.segments)
<1>1. \A q : /\ WithSegments(image, q).operation = image.operation
             /\ WithSegments(image, q).segments = q
  BY DEF WithSegments, ImageFields
<1>2. \/ out \in Miscoded(image)
      \/ \E i \in DOMAIN image.segments : out = WithSegments(image, RemoveAt(image.segments, i))
      \/ \E s \in ToSet(source.segments) : out = WithSegments(image, image.segments \o <<s>>)
      \/ \E i \in DOMAIN image.segments :
             \E s \in ToSet(source.segments) \cup Misread(image.segments[i]) :
                 out = WithSegment(image, i, s)
  BY DEF Misspliced
<1>3. CASE out \in Miscoded(image)
  <2>1. out.operation = image.operation /\ out.segments = image.segments
    BY <1>3 DEF Miscoded, ImageFields
  <2> QED
    BY <2>1
<1>4. ASSUME NEW i \in DOMAIN image.segments, NEW s, Admissible(s), out = WithSegment(image, i, s)
      PROVE  out.operation = image.operation /\ AllAdmissible(out.segments)
  <2>1. out = WithSegments(image, [image.segments EXCEPT ![i] = s])
    BY <1>4 DEF WithSegment
  <2>2. AllAdmissible([image.segments EXCEPT ![i] = s])
    BY <1>4, AdmissibleSequences
  <2> QED
    BY <1>1, <2>1, <2>2
<1>5. CASE \E i \in DOMAIN image.segments : out = WithSegments(image, RemoveAt(image.segments, i))
  BY <1>1, <1>5, AdmissibleSequences
<1>6. CASE \E s \in ToSet(source.segments) : out = WithSegments(image, image.segments \o <<s>>)
  <2>1. PICK s \in ToSet(source.segments) : out = WithSegments(image, image.segments \o <<s>>)
    BY <1>6
  <2>2. AllAdmissible(<<s>>)
    BY AdmissibleSequences DEF AllAdmissible
  <2>3. AllAdmissible(image.segments \o <<s>>)
    BY <2>2, AdmissibleSequences
  <2> QED
    BY <1>1, <2>1, <2>3
<1>7. ASSUME NEW i \in DOMAIN image.segments, NEW v \in Misread(image.segments[i])
      PROVE  Admissible(v)
  <2> DEFINE s == image.segments[i]
             t == [s EXCEPT !.thumbnail = TRUE]
             u == [s EXCEPT !.other = "lost"]
  <2>1. IsSegment(s) /\ Admissible(s)
    BY AdmissibleSequences DEF Admissible
  <2>2. s.kind \in {"exif", "xmp", "jfif"} /\ (v = t \/ v = u)
    BY DEF Misread
  <2> HIDE DEF s
  <2>3. {"thumbnail", "other", "kind", "size"} \subseteq DOMAIN s
    BY <2>1, <2>2 DEF IsSegment
  <2>4. /\ DOMAIN t = DOMAIN s /\ t.kind = s.kind /\ t.size = s.size /\ t.readable = s.readable
        /\ t.orientation = s.orientation /\ t.width = s.width /\ t.height = s.height
        /\ t.sound = s.sound /\ t.thumbnail = TRUE
    BY <2>3
  <2>5. /\ DOMAIN u = DOMAIN s /\ u.kind = s.kind /\ u.size = s.size /\ u.readable = s.readable
        /\ u.orientation = s.orientation /\ u.width = s.width /\ u.height = s.height
        /\ u.sound = s.sound /\ u.thumbnail = s.thumbnail
    BY <2>3
  <2>r. t = [field \in DOMAIN t |-> t[field]] /\ u = [field \in DOMAIN u |-> u[field]]
    OBVIOUS
  <2> HIDE DEF t, u
  <2>6. IsSegment(t)
    <3>1. t.thumbnail \in BOOLEAN
      BY <2>4, Zenon
    <3> QED
      BY <2>1, <2>2, <2>r, <2>4, <3>1 DEF IsSegment
  <2>7. IsSegment(u)
    BY <2>1, <2>2, <2>r, <2>5 DEF IsSegment
  <2> QED
    BY <2>1, <2>2, <2>4, <2>5, <2>6, <2>7 DEF Admissible
<1>8. \A s \in ToSet(source.segments) : Admissible(s)
  BY DEF AllAdmissible
<1> QED
  BY <1>2, <1>3, <1>4, <1>5, <1>6, <1>7, <1>8
\* Where the facts about an image come from.
LEMMA SourceIsImage ==
    ASSUME AnalysisInv, WorkInv
    PROVE  IsImage(source) /\ DOMAIN source = ImageFields /\ request.policy \in Policies
<1>1. IsImage(source) /\ request.policy \in Policies
  BY EngineAssumption DEF AnalysisInv, WorkInv, world
<1> QED
  BY <1>1 DEF IsImage, ImageFields

\* The second analysis saw what the first did.
LEMMA SourceAccepted ==
    ASSUME AnalysisInv, WorkInv, Past(AfterBegin), pc # "Review"
    PROVE  /\ IsAccepted(source, request.policy, request.organization, approved.value)
           /\ plan.policy = request.policy /\ plan.organization = request.organization
<1>1. IsImage(source) /\ IsImage(reviewed) /\ request.policy \in Policies
  BY SourceIsImage, EngineAssumption DEF AnalysisInv, world
<1>2. /\ approved = analyze(reviewed, request.policy, request.organization)
      /\ approved.error = None
  BY DEF AnalysisInv, WorkInv, Past, AfterBegin
<1>3. IsAccepted(reviewed, request.policy, request.organization, approved.value)
  BY <1>1, <1>2, AnalysisSucceeds
<1>4. plan.policy = request.policy /\ plan.organization = request.organization
  BY <1>1, <1>3, PlanSays DEF plan
<1>5. /\ analyze(source, request.policy, request.organization).error = None
      /\ analyze(source, request.policy, request.organization).value = approved.value
  BY <1>4 DEF WorkInv, ObservedFact
<1>6. IsAccepted(source, request.policy, request.organization, approved.value)
  BY <1>1, <1>5, AnalysisSucceeds
<1> QED
  BY <1>4, <1>6

\* What an accepted rewriting has written.
LEMMA MarkersWritten ==
    ASSUME NEW q, NEW p, NEW r, r = reconcileMarkerSegments(q, p), r.error = None
    PROVE  /\ Writing(q, p).error = None
           /\ r.value.segments = Writing(q, p).segments /\ r.value.removed = Writing(q, p).removed
<1> DEFINE extended == validateExtendedXmpPreservation(q, p.transform)
           written == Writing(q, p)
<1>1. r = IF extended.error # None THEN extended
          ELSE IF written.error # None THEN Failure(written.error)
          ELSE Success([segments |-> written.segments, removed |-> written.removed])
  BY DEF reconcileMarkerSegments, Writing, Unwritten
<1> HIDE DEF extended, written
<1>2. /\ written.error = None
      /\ r = Success([segments |-> written.segments, removed |-> written.removed])
  BY <1>1 DEF Failure
<1> QED
  BY <1>2 DEF Success, written

\* The segments of the source and of the work are understood.
LEMMA SegmentsUnderstood ==
    ASSUME AnalysisInv, WorkInv, Past(AfterReconcile), pc # "Review"
    PROVE  AllAdmissible(source.segments) /\ AllAdmissible(metadata)
<1>1. IsAccepted(source, request.policy, request.organization, approved.value) /\ IsImage(source)
  BY SourceAccepted, SourceIsImage DEF Past, AfterBegin
<1> DEFINE kept == KeptSides(EdgesOf(source), source.dims, NativeImcu(source.components))
<1>2. /\ plan.output = IF swapsAxes(plan.transform) THEN Swapped(kept) ELSE kept
      /\ kept.w \in 1..source.dims.w /\ kept.h \in 1..source.dims.h
  BY <1>1, PlanSays DEF plan
<1> HIDE DEF kept
<1>3. plan.output.w \in Nat /\ plan.output.h \in Nat
  BY <1>2 DEF Swapped
<1>4. MetadataFact
  BY DEF WorkInv
<1>5. Writing(source.segments, plan).error = None /\ metadata = Writing(source.segments, plan).segments
  BY <1>4, MarkersWritten DEF MetadataFact
<1> QED
  BY <1>1, <1>3, <1>5, LoopAdmissible DEF IsImage

\* The review, and what happens before the work.
LEMMA WorkBefore ==
    ASSUME AnalysisInv, WorkInv, Review \/ ChangeSource
    PROVE  WorkInv'
<1>1. CASE Review
  <2>1. UNCHANGED <<scenario, source>> /\ source \in world.photos
    BY <1>1 DEF Review, WorkInv
  <2>2. \/ pc' = "Done" /\ result'.error # None
        \/ pc' = "Begin" /\ approved'.error = None
    BY <1>1 DEF Review, RunsTo, Return
  <2>3. CASE pc' = "Done" /\ result'.error # None
    BY <2>1, <2>3, RefusalEnds
  <2>4. CASE pc' = "Begin" /\ approved'.error = None
    BY <2>1, <2>4 DEF WorkInv, Past, Published, AfterBegin, AfterReconcile, AfterReturned,
                      AfterSplice, AfterValidate, world
  <2> QED
    BY <2>2, <2>3, <2>4
<1>2. CASE ChangeSource
  <2>1. /\ UNCHANGED <<scenario, approved, pc, result>> /\ pc = "Begin"
        /\ source' \in world.photos /\ approved.error = None
    BY <1>2 DEF ChangeSource, WorkInv, Past
  <2> QED
    BY <2>1 DEF WorkInv, Past, Published, AfterBegin, AfterReconcile, AfterReturned,
                AfterSplice, AfterValidate, world
<1> QED
  BY <1>1, <1>2

\* The steps that change nothing of it.
LEMMA WorkStays ==
    ASSUME WorkInv, UNCHANGED <<scenario, source, approved, pc, misbehaved, engine, result>>
    PROVE  WorkInv'
<1>1. UNCHANGED <<metadata, codec, completed>>
  BY DEF engine
<1>2. /\ ObservedFact' = ObservedFact /\ MetadataFact' = MetadataFact /\ CodedFact' = CodedFact
      /\ SplicedFact' = SplicedFact /\ ValidFact' = ValidFact
  BY <1>1, FactsStay
<1>3. ResultFact' = ResultFact
  <2>1. UNCHANGED <<plan, output, expectedTables>>
    BY <1>1 DEF plan, output, expectedTables
  <2> QED
    BY <2>1 DEF ResultFact
<1>4. Published' = Published /\ (source \in world.photos)' = (source \in world.photos)
  BY DEF Published, world
<1>5. \A places : Past(places)' = Past(places)
  BY <1>4 DEF Past
<1> QED
  BY <1>1, <1>2, <1>3, <1>4, <1>5 DEF WorkInv

\* createValidatedOutput up to the call of the codec.
LEMMA WorkStarts ==
    ASSUME AnalysisInv, WorkInv, Begin \/ Reconcile \/ Prepare
    PROVE  WorkInv'
<1> USE DEF AfterBegin, AfterReconcile, AfterReturned, AfterSplice, AfterValidate
<1>0. source \in world.photos
  BY DEF WorkInv
<1>1. CASE Begin
  <2>1. UNCHANGED <<scenario, source, approved>> /\ pc = "Begin"
    BY <1>1 DEF Begin, still
  <2>2. \/ pc' = "Done" /\ result'.error # None
        \/ pc' = "Reconcile" /\ ObservedFact
    BY <1>1 DEF Begin, RunsTo, Return, cancelled, ObservedFact, None
  <2>3. CASE pc' = "Done" /\ result'.error # None
    BY <1>0, <2>1, <2>3, RefusalEnds
  <2>4. CASE pc' = "Reconcile" /\ ObservedFact
    <3>1. ObservedFact' /\ approved'.error = None /\ source' \in world.photos
      BY <1>0, <2>1, <2>4, FactsStay DEF WorkInv, Past
    <3> QED
      BY <2>1, <2>4, <3>1 DEF WorkInv, Past, Published, world
  <2> QED
    BY <2>2, <2>3, <2>4
<1>2. CASE Reconcile
  <2>1. UNCHANGED <<scenario, source, approved>> /\ pc = "Reconcile"
    BY <1>2 DEF Reconcile, still
  <2>2. \/ pc' = "Done" /\ result'.error # None
        \/ /\ pc' = "Prepare" /\ reconcileMarkerSegments(source.segments, plan).error = None
           /\ metadata' = reconcileMarkerSegments(source.segments, plan).value.segments
    BY <1>2 DEF Reconcile, RunsTo, Return, cancelled, None
  <2>3. CASE pc' = "Done" /\ result'.error # None
    BY <1>0, <2>1, <2>3, RefusalEnds
  <2>4. CASE pc' # "Done"
    <3>1. ObservedFact' /\ approved'.error = None /\ source' \in world.photos
      BY <1>0, <2>1, FactsStay DEF WorkInv, Past
    <3>2. UNCHANGED plan
      BY <2>1 DEF plan
    <3>3. MetadataFact' /\ pc' = "Prepare"
      BY <2>1, <2>2, <2>4, <3>2 DEF MetadataFact
    <3> QED
      BY <2>1, <3>1, <3>3 DEF WorkInv, Past, Published, world
  <2> QED
    BY <2>2, <2>3, <2>4
<1>3. CASE Prepare
  <2>1. UNCHANGED <<scenario, source, approved, metadata>> /\ pc = "Prepare"
    BY <1>3 DEF Prepare, still, engine
  <2>2. \/ pc' = "Done" /\ result'.error # None
        \/ pc' = "Call"
    BY <1>3 DEF Prepare, RunsTo, Return
  <2>3. CASE pc' = "Done" /\ result'.error # None
    BY <1>0, <2>1, <2>3, RefusalEnds
  <2>4. CASE pc' = "Call"
    <3>1. ObservedFact' /\ MetadataFact' /\ approved'.error = None /\ source' \in world.photos
      BY <1>0, <2>1, FactsStay DEF WorkInv, Past
    <3> QED
      BY <2>1, <2>4, <3>1 DEF WorkInv, Past, Published, world
  <2> QED
    BY <2>2, <2>3, <2>4
<1> QED
  BY <1>1, <1>2, <1>3
\* The codec.
LEMMA WorkCodes ==
    ASSUME AnalysisInv, WorkInv, Call \/ Returned
    PROVE  WorkInv'
<1> USE DEF AfterBegin, AfterReconcile, AfterReturned, AfterSplice, AfterValidate
<1>0. source \in world.photos /\ DOMAIN source = ImageFields
  BY SourceIsImage DEF WorkInv
<1>1. CASE Call
  <2>1. UNCHANGED <<scenario, source, approved, metadata>> /\ pc = "Call"
    BY <1>1 DEF Call, still
  <2>2. \/ pc' = "Done" /\ result'.error # None
        \/ /\ pc' = "Returned"
           /\ \/ \E out \in NativeOutput : codec' = <<out>> /\ ~Overlong(out)
              \/ codec' = <<>>
              \/ /\ misbehaved' = TRUE
                 /\ \E out \in NativeOutput :
                        codec' \in {<<[out EXCEPT !.dims = Swapped(@)]>>,
                                    <<[out EXCEPT !.unsound = "MalformedJpegStructure"]>>}
    BY <1>1 DEF Call, RunsTo, Return, cancelled, None
  <2>3. CASE pc' = "Done" /\ result'.error # None
    BY <1>0, <2>1, <2>3, RefusalEnds
  <2>4. CASE pc' # "Done"
    <3>1. ObservedFact' /\ MetadataFact' /\ approved'.error = None /\ source' \in world.photos
      BY <1>0, <2>1, FactsStay DEF WorkInv, Past
    <3>2. UNCHANGED <<plan, NativeOutput>>
      BY <2>1, NativeStays
    <3>3. ASSUME NEW out \in NativeOutput, codec' = <<out>>, ~Overlong(out) PROVE CodedFact'
      <4>1. DOMAIN out = DOMAIN source /\ out.operation = NativeOperation(plan.transform)
        BY <1>0, CodecWrites
      <4> QED
        BY <2>1, <3>2, <3>3, <4>1 DEF CodedFact, Overlong, fileLength
    <3>4. ASSUME NEW out \in NativeOutput, misbehaved' = TRUE,
                 codec' \in {<<[out EXCEPT !.dims = Swapped(@)]>>,
                             <<[out EXCEPT !.unsound = "MalformedJpegStructure"]>>}
          PROVE  CodedFact'
      <4>1. DOMAIN out = ImageFields /\ out.operation = NativeOperation(plan.transform)
        BY <1>0, CodecWrites
      <4>2. /\ DOMAIN codec'[1] = ImageFields
            /\ codec'[1].operation = NativeOperation(plan.transform)
        BY <3>4, <4>1 DEF ImageFields
      <4> QED
        BY <1>0, <2>1, <3>2, <3>4, <4>2 DEF CodedFact
    <3>5. pc' = "Returned" /\ (codec' # <<>> => CodedFact')
      BY <2>2, <2>4, <3>3, <3>4
    <3> QED
      BY <2>1, <3>1, <3>5 DEF WorkInv, Past, Published, world
  <2> QED
    BY <2>2, <2>3, <2>4
<1>2. CASE Returned
  <2>1. UNCHANGED <<scenario, source, approved, metadata, codec, misbehaved>> /\ pc = "Returned"
    BY <1>2 DEF Returned, still, engine
  <2>2. \/ pc' = "Done" /\ result'.error # None
        \/ pc' = "Splice" /\ codec # <<>>
    BY <1>2 DEF Returned, RunsTo, Return, None
  <2>3. CASE pc' = "Done" /\ result'.error # None
    BY <1>0, <2>1, <2>3, RefusalEnds
  <2>4. CASE pc' = "Splice" /\ codec # <<>>
    <3>1. /\ ObservedFact' /\ MetadataFact' /\ CodedFact' /\ approved'.error = None
          /\ source' \in world.photos
      BY <1>0, <2>1, <2>4, FactsStay DEF WorkInv, Past
    <3> QED
      BY <2>1, <2>4, <3>1 DEF WorkInv, Past, Published, world
  <2> QED
    BY <2>2, <2>3, <2>4
<1> QED
  BY <1>1, <1>2

\* The splice.
LEMMA WorkSplices ==
    ASSUME AnalysisInv, WorkInv, Splice
    PROVE  WorkInv'
<1> USE DEF AfterBegin, AfterReconcile, AfterReturned, AfterSplice, AfterValidate
<1>0. source \in world.photos /\ DOMAIN source = ImageFields
  BY SourceIsImage DEF WorkInv
<1>1. UNCHANGED <<scenario, source, approved, metadata, codec>> /\ pc = "Splice"
  BY DEF Splice, still
<1>2. \/ pc' = "Done" /\ result'.error # None
      \/ /\ pc' = "Validate"
         /\ \/ completed' = <<Spliced>> /\ UNCHANGED misbehaved
            \/ /\ misbehaved' = TRUE
               /\ \E image \in Misspliced(Spliced) : completed' = <<image>>
  BY DEF Splice, RunsTo, Return, cancelled, None
<1>3. CASE pc' = "Done" /\ result'.error # None
  BY <1>0, <1>1, <1>3, RefusalEnds
<1>4. CASE pc' # "Done"
  <2>0. CodedFact /\ AllAdmissible(source.segments) /\ AllAdmissible(metadata)
    BY <1>1, SegmentsUnderstood DEF WorkInv, Past
  <2>1. ObservedFact' /\ MetadataFact' /\ approved'.error = None /\ source' \in world.photos
    BY <1>0, <1>1, FactsStay DEF WorkInv, Past
  <2>2. UNCHANGED <<plan, Spliced>>
    BY <1>1 DEF plan, Spliced
  <2>3. /\ DOMAIN Spliced = ImageFields /\ Spliced.segments = metadata
        /\ Spliced.operation = NativeOperation(plan.transform)
    BY <1>0, <2>0 DEF Spliced, CodedFact, ImageFields
  <2>4. CodedFact'
    <3>1. UNCHANGED NativeOutput
      BY <1>1, NativeStays
    <3>2. ~misbehaved' => ~misbehaved
      BY <1>2, <1>4
    <3> QED
      BY <1>1, <2>0, <2>2, <3>1, <3>2 DEF CodedFact, Overlong, fileLength
  <2>5. SplicedFact'
    <3>1. CASE completed' = <<Spliced>>
      <4>1. output' = Spliced
        BY <3>1 DEF output
      <4> QED
        BY <2>0, <2>2, <2>3, <4>1 DEF SplicedFact
    <3>2. ASSUME misbehaved' = TRUE, NEW image \in Misspliced(Spliced), completed' = <<image>>
          PROVE  SplicedFact'
      <4>1. output' = image
        BY <3>2 DEF output
      <4>2. image.operation = Spliced.operation /\ AllAdmissible(image.segments)
        BY <2>0, <2>3, WriterWrites
      <4> QED
        BY <2>2, <2>3, <3>2, <4>1, <4>2 DEF SplicedFact
    <3> QED
      BY <1>2, <1>4, <3>1, <3>2
  <2> QED
    BY <1>1, <1>2, <1>4, <2>1, <2>4, <2>5 DEF WorkInv, Past, Published, world
<1> QED
  BY <1>2, <1>3, <1>4

\* The validator.
LEMMA WorkValidates ==
    ASSUME AnalysisInv, WorkInv, Validate \/ DecodeSource \/ DecodeOutput \/ Publish
    PROVE  WorkInv'
<1> USE DEF AfterBegin, AfterReconcile, AfterReturned, AfterSplice, AfterValidate
<1>1. /\ UNCHANGED <<scenario, source, approved, metadata, codec, completed, misbehaved>>
      /\ pc \in AfterSplice /\ source \in world.photos
  BY DEF Validate, DecodeSource, DecodeOutput, Decode, Publish, still, engine, WorkInv
<1>2. /\ ObservedFact' /\ MetadataFact' /\ CodedFact' /\ SplicedFact' /\ approved'.error = None
      /\ source' \in world.photos
  BY <1>1, FactsStay DEF WorkInv, Past
<1>3. UNCHANGED <<plan, output, expectedTables>>
  BY <1>1 DEF plan, output, expectedTables
<1>4. \/ pc' = "Done" /\ result'.error # None
      \/ pc' = "DecodeSource" /\ ValidFact
      \/ pc \in AfterValidate /\ pc' \in AfterValidate
      \/ /\ pc \in AfterValidate /\ pc' = "Done" /\ output.tables = expectedTables
         /\ result' = [error |-> None, output |-> output,
                       evidence |-> validateReconciledMetadata(source.segments, output.segments,
                                                               plan).value]
  <2>1. CASE Validate
    BY <2>1 DEF Validate, RunsTo, Return, cancelled, ValidFact, None
  <2>2. CASE DecodeSource
    BY <2>2 DEF DecodeSource, Decode, RunsTo, Return, cancelled, None
  <2>3. CASE DecodeOutput
    BY <2>3 DEF DecodeOutput, Decode, RunsTo, Return, cancelled, None
  <2>4. CASE Publish
    BY <2>4 DEF Publish, RunsTo, Return, cancelled, None
  <2> QED
    BY <2>1, <2>2, <2>3, <2>4
<1>5. CASE pc' = "Done" /\ result'.error # None
  BY <1>1, <1>2, <1>5, RefusalEnds
<1>6. pc \in AfterValidate \/ ValidFact => ValidFact'
  BY <1>1, FactsStay DEF WorkInv, Past
<1>7. CASE pc' \in AfterValidate
  BY <1>1, <1>2, <1>4, <1>6, <1>7 DEF WorkInv, Past, Published, world
<1>8. CASE pc \in AfterValidate /\ pc' = "Done" /\ result'.error = None
  <2>1. ResultFact'
    BY <1>1, <1>3, <1>4, <1>8 DEF ResultFact
  <2> QED
    BY <1>1, <1>2, <1>6, <1>8, <2>1 DEF WorkInv, Past, Published, world
<1> QED
  BY <1>4, <1>5, <1>7, <1>8

\* Every step keeps what the work has established.
LEMMA WorkStep == AnalysisInv /\ WorkInv /\ [Next]_vars => WorkInv'
<1> SUFFICES ASSUME AnalysisInv, WorkInv, [Next]_vars PROVE WorkInv'
  OBVIOUS
<1>1. CASE RequestStop \/ Done \/ UNCHANGED vars
  <2>1. UNCHANGED <<scenario, source, approved, pc, misbehaved, engine, result>>
    BY <1>1 DEF RequestStop, Done, vars, engine
  <2> QED
    BY <2>1, WorkStays
<1>2. CASE DigestFails \/ AllocationFails
  <2>1. /\ pc' = "Done" /\ result'.error # None /\ source' \in world.photos
        /\ UNCHANGED scenario
    BY <1>2 DEF DigestFails, AllocationFails, Return, still, WorkInv, None
  <2> QED
    BY <2>1, RefusalEnds
<1> QED
  BY <1>1, <1>2, WorkBefore, WorkStarts, WorkCodes, WorkSplices, WorkValidates
  DEF Next, Execution

\* Nothing is established at the start.
LEMMA WorkInit == Init => WorkInv
  BY DEF Init, WorkInv, Past, Published, Pending, Failure, world, AfterBegin, AfterReconcile,
         AfterReturned, AfterSplice, AfterValidate
-----------------------------------------------------------------------------
(* What a published output lost *)

\* What is true of the work when its output is published.
IsPublished(segments, after, p, evidence) ==
    /\ segments \in Seq(ToSet(segments)) /\ \A s \in ToSet(segments) : IsSegment(s)
    /\ after \in Seq(ToSet(after)) /\ \A s \in ToSet(after) : IsSegment(s)
    /\ Len(after) = Len(Kept(segments, p))
    /\ \A k \in DOMAIN Kept(segments, p) : Faithful(Kept(segments, p)[k], after[k], p)
    /\ analyzeOrientation(after).error = None
    /\ evidence.removed = (transformed(p) /\ \E s \in ToSet(segments) : LostThumbnail(s))

\* The validator has seen it.
LEMMA PublishedCompared ==
    ASSUME AnalysisInv, WorkInv, Published
    PROVE  /\ IsPublished(source.segments, result.output.segments, plan, result.evidence)
           /\ result.output = output /\ pc # "Review"
<1>1. pc # "Review" /\ Past(AfterReconcile) /\ Past(AfterSplice) /\ Past(AfterValidate)
  BY DEF Published, Past
<1>2. ResultFact /\ SplicedFact /\ ValidFact
  BY <1>1 DEF WorkInv
<1> DEFINE S == source.segments
           O == output.segments
           evidence == validateReconciledMetadata(S, O, plan)
<1>3. AllAdmissible(S) /\ AllAdmissible(O)
  BY <1>1, <1>2, SegmentsUnderstood DEF SplicedFact
<1>4. evidence.error = None
  BY <1>2, Zenon DEF ValidFact, MetadataRule
<1>5. /\ result.output = output /\ result.evidence = evidence.value
  BY <1>2 DEF ResultFact
<1> HIDE DEF S, O
<1>6. /\ S \in Seq(ToSet(S)) /\ \A s \in ToSet(S) : IsSegment(s)
      /\ O \in Seq(ToSet(O)) /\ \A s \in ToSet(O) : IsSegment(s)
  BY <1>3 DEF AllAdmissible, Admissible
<1>7. /\ Len(O) = Len(Kept(S, plan))
      /\ \A k \in DOMAIN Kept(S, plan) : Faithful(Kept(S, plan)[k], O[k], plan)
      /\ analyzeOrientation(O).error = None
      /\ evidence.value.removed = (transformed(plan) /\ \E s \in ToSet(S) : LostThumbnail(s))
  BY <1>4, <1>6, OutputCompared
<1> QED
  BY <1>1, <1>5, <1>6, <1>7 DEF IsPublished, S, O

\* No preview survives a transform, and no other step takes one away.
LEMMA PreviewsCompared ==
    ASSUME NEW segments, NEW after, NEW p, NEW evidence,
           IsPublished(segments, after, p, evidence)
    PROVE  IF transformed(p) THEN ~\E s \in ToSet(after) : LostThumbnail(s)
           ELSE (\E s \in ToSet(after) : LostThumbnail(s))
                    <=> (\E s \in ToSet(segments) : LostThumbnail(s))
<1> DEFINE I == KeptPositions(segments, p)
           kept == Kept(segments, p)
<1>1. I \in SUBSET DOMAIN segments /\ segments \in Seq(ToSet(segments)) /\ kept = Chosen(segments, I)
  BY DEF KeptPositions, IsPublished, Kept
<1>2. /\ kept \in Seq(ToSet(segments))
      /\ \A k \in DOMAIN kept : \E i \in I : kept[k] = segments[i]
  <2> HIDE DEF I, kept
  <2> QED
    BY <1>1, ChosenElements
<1>3. /\ after \in Seq(ToSet(after)) /\ Len(after) = Len(kept)
      /\ \A k \in DOMAIN kept : Faithful(kept[k], after[k], p)
  BY DEF IsPublished
<1>4. CASE transformed(p)
  <2>1. \A i \in I : segments[i].kind # "jfxx"
    BY <1>4 DEF KeptPositions
  <2> HIDE DEF I, kept
  <2> SUFFICES ASSUME NEW k \in 1..Len(after) PROVE ~LostThumbnail(after[k])
    BY <1>3, <1>4 DEF ToSet
  <2>2. k \in DOMAIN kept /\ Faithful(kept[k], after[k], p)
    BY <1>2, <1>3
  <2>3. kept[k].kind # "jfxx"
    BY <1>2, <2>1, <2>2
  <2> QED
    BY <1>4, <2>2, <2>3 DEF Faithful, LostThumbnail
<1>5. CASE ~transformed(p)
  <2>1. I = DOMAIN segments
    BY <1>5 DEF KeptPositions
  <2>2. kept = segments
    <3> HIDE DEF I, kept
    <3> QED
      BY <1>1, <2>1, ChosenAll
  <2> HIDE DEF I, kept
  <2>3. ASSUME NEW k \in 1..Len(after) PROVE LostThumbnail(after[k]) <=> LostThumbnail(segments[k])
    <3>1. Faithful(segments[k], after[k], p)
      BY <1>2, <1>3, <2>2
    <3> QED
      BY <1>5, <3>1 DEF Faithful, LostThumbnail
  <2>4. DOMAIN after = 1..Len(after) /\ DOMAIN segments = 1..Len(after)
    BY <1>1, <1>3, <2>2
  <2> QED
    BY <1>5, <2>3, <2>4 DEF ToSet
<1> QED
  BY <1>4, <1>5

\* The findings are what they say.
LEMMA FindingsSay ==
    ASSUME NEW orientation, NEW p, NEW removed
    PROVE  /\ (<<"EmbeddedThumbnailRemovalRequired">> \in findingsOf(orientation, p, removed))
                  <=> removed
           /\ (<<"PartialMinimumCodedUnitTrimRequired", p.discarded>>
                  \in findingsOf(orientation, p, removed)) <=> willDiscardEdgePixels(p)
<1>1. \A a, b, c : /\ <<"EmbeddedThumbnailRemovalRequired">> # <<"ExifXmpOrientationConflict", a, b>>
                   /\ <<"EmbeddedThumbnailRemovalRequired">> # <<"PartialMinimumCodedUnitTrimRequired", c>>
                   /\ <<"PartialMinimumCodedUnitTrimRequired", c>> # <<"ExifXmpOrientationConflict", a, b>>
                   /\ <<"PartialMinimumCodedUnitTrimRequired", c>> # <<"EmbeddedThumbnailRemovalRequired">>
  OBVIOUS
<1> QED
  BY <1>1, Zenon DEF findingsOf

\* A published output lost what the review showed.
LEMMA LossesHold ==
    ASSUME AnalysisInv, WorkInv PROVE LossesWereReviewed
<1> SUFFICES ASSUME Published PROVE LossesWereReviewed
  BY DEF LossesWereReviewed
<1> DEFINE S == source.segments
           O == result.output.segments
           lost == transformed(plan) /\ \E s \in ToSet(S) : LostThumbnail(s)
           removed == reconcileMarkerSegments(S, plan).value.removed
           orientation == analyzeOrientation(S).value
           has(q) == \E s \in ToSet(q) : LostThumbnail(s)
<1>1. IsPublished(S, O, plan, result.evidence) /\ pc # "Review"
  BY PublishedCompared
<1>2. IsAccepted(source, request.policy, request.organization, approved.value) /\ IsImage(source)
  BY <1>1, SourceAccepted, SourceIsImage DEF Past
<1>3. reconcileMarkerSegments(S, plan).error = None
  BY <1>2 DEF IsAccepted, plan
<1>4. approved.value.findings = findingsOf(orientation, plan, removed)
  BY <1>2 DEF IsAccepted, plan
<1>5. removed = lost
  <2>1. Writing(S, plan).error = None /\ removed = Writing(S, plan).removed
    BY <1>3, MarkersWritten
  <2> QED
    BY <1>1, <2>1, LoopRemoves DEF IsPublished
<1>6. IF transformed(plan) THEN ~has(O) ELSE (has(O) <=> has(S))
  <2> HIDE DEF S, O
  <2> QED
    BY <1>1, PreviewsCompared
<1>7. Retained(plan) # source.dims <=> willDiscardEdgePixels(plan)
  BY <1>2, PlanSays DEF plan
<1>8. /\ <<"EmbeddedThumbnailRemovalRequired">> \in approved.value.findings <=> removed
      /\ <<"PartialMinimumCodedUnitTrimRequired", plan.discarded>> \in approved.value.findings
            <=> willDiscardEdgePixels(plan)
  BY <1>4, FindingsSay
<1>9. result.evidence.removed = lost
  BY <1>1 DEF IsPublished
<1>10. lost <=> has(S) /\ ~has(O)
  BY <1>6
<1>11. (has(S) /\ ~has(O)) = (<<"EmbeddedThumbnailRemovalRequired">> \in approved.value.findings)
  <2>1. has(S) /\ ~has(O) <=> <<"EmbeddedThumbnailRemovalRequired">> \in approved.value.findings
    BY <1>5, <1>8, <1>10
  <2> QED
    BY <2>1
<1>12. result.evidence.removed = (has(S) /\ ~has(O))
  <2>1. lost = (has(S) /\ ~has(O))
    BY <1>10, Zenon
  <2> HIDE DEF lost, has
  <2> QED
    BY <1>9, <2>1
<1>13. (Retained(plan) # source.dims)
          = (<<"PartialMinimumCodedUnitTrimRequired", plan.discarded>> \in approved.value.findings)
  BY <1>7, <1>8
<1> QED
  BY <1>11, <1>12, <1>13, Zenon DEF LossesWereReviewed

\* In every reachable state, what a published file lost had been shown in the
\* review it was accepted with, and the evidence says so.
THEOREM LossesReviewed == Spec => []LossesWereReviewed
<1>1. AnalysisInv /\ [Next]_vars => AnalysisInv'
  BY AnalysisStep
<1>2. AnalysisInv /\ WorkInv /\ [Next]_vars => WorkInv'
  BY WorkStep
<1>3. AnalysisInv /\ WorkInv => LossesWereReviewed
  BY LossesHold
<1> QED
  BY AnalysisInit, WorkInit, <1>1, <1>2, <1>3, PTL DEF Spec
-----------------------------------------------------------------------------
(* What a published output is *)

\* What the structural rules of the validator leave.
LEMMA StructureSays ==
    ASSUME StructureRule = None
    PROVE  /\ scan(output).error = None /\ ~output.trailing /\ output.dims = plan.output
           /\ output.precision = source.precision
           /\ \/ output.components = expectedComponents
              \/ output.components = source.components
           /\ output.arithmetic = source.arithmetic /\ output.restart = source.restart
<1>1. /\ "NoUnsupportedAssetBindings" # None /\ "CompleteJpegStructure" # None
      /\ "PlannedDimensions" # None /\ "SamplePrecision" # None
      /\ "ComponentOrganization" # None /\ "ScanOrganization" # None
      /\ "EntropyCodingMode" # None /\ "RestartIntervalPreservation" # None
  BY DEF None
<1> QED
  BY <1>1, Zenon DEF StructureRule

\* The smallest of a set is in it.
LEMMA SmallestIn ==
    ASSUME NEW S, S \subseteq Nat, S # {}
    PROVE  Min(S) \in S
<1>1. PICK m \in S : \A y \in S : y >= m
  BY Smallest
<1>2. \A y \in S : m <= y
  BY <1>1
<1> QED
  BY <1>2 DEF Min

\* What an accepted orientation was read from.
LEMMA OrientationSucceeds ==
    ASSUME NEW q, NEW r, r = analyzeOrientation(q), r.error = None,
           NEW exifs, exifs = OfKind(q, "exif"), NEW xmps, xmps = OfKind(q, "xmp"),
           NEW exif, exif = StatedOrientation(exifs), NEW xmp, xmp = StatedOrientation(xmps)
    PROVE  /\ ~(Len(exifs) > 1) /\ ~(Len(xmps) > 1) /\ exif # "invalid" /\ xmp # "invalid"
           /\ r.value.exif = exif /\ r.value.xmp = xmp
           /\ r.value.conflict = (exif # None /\ xmp # None /\ exif # xmp)
           /\ r.value.authoritative = IF exif # None THEN exif
                                      ELSE IF xmp # None THEN xmp ELSE "TopLeft"
<1> DEFINE value == [exif |-> exif, xmp |-> xmp,
                     conflict |-> exif # None /\ xmp # None /\ exif # xmp,
                     authoritative |-> IF exif # None THEN exif
                                       ELSE IF xmp # None THEN xmp ELSE "TopLeft"]
<1>1. /\ Failure("MalformedImageMetadata").error # None
      /\ Failure("InvalidOrientationMetadata").error # None
  BY DEF Failure, None
<1>2. /\ ~(Len(exifs) > 1) /\ ~(Len(xmps) > 1) /\ "invalid" \notin {exif, xmp}
      /\ r = Success(value)
  BY <1>1, Zenon DEF analyzeOrientation
<1>3. r.value = value
  BY <1>2 DEF Success
<1> QED
  BY <1>2, <1>3

\* A single packet states what the first packet with an orientation does.
LEMMA StatedByKind ==
    ASSUME NEW q, q \in Seq(ToSet(q)), \A s \in ToSet(q) : IsSegment(s),
           NEW kind \in {"exif", "xmp"}, NEW r, r = OfKind(q, kind), ~(Len(r) > 1),
           StatedOrientation(r) # "invalid",
           NEW stated, stated = {i \in DOMAIN q : q[i].kind = kind /\ q[i].orientation # <<>>}
    PROVE  IF stated = {} THEN StatedOrientation(r) = None
           ELSE /\ StatedOrientation(r) = tryParseExifOrientation(q[Min(stated)].orientation[1])
                /\ StatedOrientation(r) # None /\ Min(stated) \in stated
<1> DEFINE I == {i \in DOMAIN q : q[i].kind = kind}
<1>1. I \in SUBSET DOMAIN q /\ r = Chosen(q, I) /\ stated \subseteq I
  BY DEF OfKind
<1>2. \A i \in I : i \in stated <=> q[i].orientation # <<>>
  OBVIOUS
<1> HIDE DEF I
<1>3. /\ r \in Seq(ToSet(q))
      /\ \A i \in I : Place(I, i) \in DOMAIN r /\ r[Place(I, i)] = q[i]
      /\ \A k \in DOMAIN r : \E i \in I : Place(I, i) = k /\ r[k] = q[i]
  BY <1>1, ChosenElements
<1>4. Len(r) \in Nat /\ DOMAIN r = 1..Len(r)
  BY <1>3
<1>5. \A i \in I : DOMAIN r = {1} /\ r[1] = q[i]
  BY <1>3, <1>4
<1>6. CASE stated = {}
  <2>1. r = <<>> \/ r[1].orientation = <<>>
    <3>1. CASE Len(r) = 0
      BY <1>3, <3>1
    <3>2. CASE Len(r) # 0
      <4>1. 1 \in DOMAIN r
        BY <1>4, <3>2
      <4>2. PICK i \in I : r[1] = q[i]
        BY <1>3, <4>1
      <4> QED
        BY <1>2, <1>6, <4>2
    <3> QED
      BY <3>1, <3>2
  <2> QED
    BY <1>6, <2>1, Zenon DEF StatedOrientation
<1>7. CASE stated # {}
  <2> DEFINE m == Min(stated)
  <2>1. m \in stated
    <3>1. stated \subseteq Nat
      BY <1>1
    <3> QED
      BY <1>7, <3>1, SmallestIn
  <2> HIDE DEF m
  <2>2. r[1] = q[m] /\ q[m].orientation # <<>> /\ r # <<>>
    BY <1>1, <1>2, <1>5, <2>1
  <2>3. /\ StatedOrientation(r) = tryParseExifOrientation(q[m].orientation[1])
        /\ StatedOrientation(r) # None
    BY <2>2, Zenon DEF StatedOrientation
  <2> QED
    BY <1>7, <2>1, <2>3 DEF m
<1> QED
  BY <1>6, <1>7

\* A viewer reads the orientation the analysis found.
LEMMA ViewerReads ==
    ASSUME NEW q, q \in Seq(ToSet(q)), \A s \in ToSet(q) : IsSegment(s),
           analyzeOrientation(q).error = None
    PROVE  ViewerOrientation(q) = analyzeOrientation(q).value.authoritative
<1> DEFINE r == analyzeOrientation(q)
           exif == StatedOrientation(OfKind(q, "exif"))
           xmp == StatedOrientation(OfKind(q, "xmp"))
           stated(kind) == {i \in DOMAIN q : q[i].kind = kind /\ q[i].orientation # <<>>}
           read == IF stated("exif") # {} THEN stated("exif") ELSE stated("xmp")
<1>1. /\ ~(Len(OfKind(q, "exif")) > 1) /\ ~(Len(OfKind(q, "xmp")) > 1)
      /\ exif # "invalid" /\ xmp # "invalid"
      /\ r.value.authoritative = IF exif # None THEN exif ELSE IF xmp # None THEN xmp ELSE "TopLeft"
  BY OrientationSucceeds
<1>2. ViewerOrientation(q) = IF read = {} THEN "TopLeft"
                             ELSE tryParseExifOrientation(q[Min(read)].orientation[1])
  BY Zenon DEF ViewerOrientation
<1>3. IF stated("exif") = {} THEN exif = None
      ELSE exif = tryParseExifOrientation(q[Min(stated("exif"))].orientation[1]) /\ exif # None
  BY <1>1, StatedByKind
<1>4. IF stated("xmp") = {} THEN xmp = None
      ELSE xmp = tryParseExifOrientation(q[Min(stated("xmp"))].orientation[1]) /\ xmp # None
  BY <1>1, StatedByKind
<1> HIDE DEF r, exif, xmp, stated
<1> QED
  BY <1>1, <1>2, <1>3, <1>4 DEF r

\* The segments of a published output, one by one.
IsCanonical(s, p) ==
    /\ Admissible(s)
    /\ s.kind \in {"exif", "xmp"} =>
         /\ s.readable
         /\ Len(s.orientation) <= 1 /\ ToSet(s.orientation) \subseteq {1}
         /\ ToSet(s.width) \subseteq {p.output.w} /\ ToSet(s.height) \subseteq {p.output.h}

\* All of them are.
LEMMA PublishedCanonical ==
    ASSUME NEW segments, NEW after, NEW p, NEW evidence, AllAdmissible(after),
           IsPublished(segments, after, p, evidence)
    PROVE  \A k \in DOMAIN after : IsCanonical(after[k], p)
<1> SUFFICES ASSUME NEW k \in DOMAIN after PROVE IsCanonical(after[k], p)
  OBVIOUS
<1>1. Admissible(after[k])
  BY AdmissibleSequences
<1>2. Kept(segments, p) \in Seq(ToSet(segments))
  <2> DEFINE I == KeptPositions(segments, p)
  <2>1. I \in SUBSET DOMAIN segments /\ segments \in Seq(ToSet(segments))
    BY DEF KeptPositions, IsPublished
  <2> HIDE DEF I
  <2> QED
    BY <2>1, ChosenElements DEF Kept, I
<1>3. k \in DOMAIN Kept(segments, p)
  BY <1>2 DEF IsPublished
<1>4. Faithful(Kept(segments, p)[k], after[k], p)
  BY <1>3 DEF IsPublished
<1> QED
  BY <1>1, <1>4 DEF IsCanonical, Faithful

\* A viewer shows such segments as they are stored.
LEMMA CanonicalIsUpright ==
    ASSUME NEW q, q \in Seq(ToSet(q)), \A s \in ToSet(q) : IsSegment(s),
           NEW p, \A k \in DOMAIN q : IsCanonical(q[k], p)
    PROVE  ViewerOrientation(q) = "TopLeft"
<1> DEFINE stated(kind) == {i \in DOMAIN q : q[i].kind = kind /\ q[i].orientation # <<>>}
           read == IF stated("exif") # {} THEN stated("exif") ELSE stated("xmp")
<1>1. ViewerOrientation(q) = IF read = {} THEN "TopLeft"
                             ELSE tryParseExifOrientation(q[Min(read)].orientation[1])
  BY Zenon DEF ViewerOrientation
<1>2. \A i \in read : i \in DOMAIN q /\ q[i].kind \in {"exif", "xmp"} /\ q[i].orientation # <<>>
  OBVIOUS
<1> HIDE DEF read
<1>3. CASE read # {}
  <2> DEFINE m == Min(read)
             s == q[m]
  <2>1. m \in read
    BY <1>2, <1>3, SmallestIn
  <2> HIDE DEF m
  <2>2. s.kind \in {"exif", "xmp"} /\ s.orientation # <<>> /\ IsCanonical(s, p) /\ IsSegment(s)
    BY <1>2, <2>1 DEF ToSet
  <2> HIDE DEF s
  <2>3. s.orientation \in Seq(Int) /\ ToSet(s.orientation) \subseteq {1}
    BY <2>2 DEF IsSegment, IsCanonical
  <2>4. s.orientation[1] = 1
    <3> DEFINE w == s.orientation
    <3>1. w \in Seq(Int) /\ w # <<>> /\ ToSet(w) \subseteq {1}
      BY <2>2, <2>3
    <3> HIDE DEF w
    <3>2. 1 \in DOMAIN w
      BY <3>1
    <3>3. w[1] \in ToSet(w)
      BY <3>2 DEF ToSet
    <3> QED
      BY <3>1, <3>3 DEF w
  <2>5. tryParseExifOrientation(1) = "TopLeft"
    BY DEF tryParseExifOrientation, Orientations
  <2> QED
    BY <1>1, <1>3, <2>4, <2>5 DEF s, m
<1> QED
  BY <1>1, <1>3
\* The axes the plan exchanges are those the codec exchanges.
LEMMA AxesAgree ==
    ASSUME NEW o \in Orientation
    PROVE  swapsAxes(losslessTransformFor(o)) <=> Transposes(OperationFor(o))
  BY DEF Orientation, OperationFor, losslessTransformFor, NativeOperation, swapsAxes, Transposes

\* Every retained pixel of a published output is shown where it was.
LEMMA ShowsHold ==
    ASSUME AnalysisInv, WorkInv, Published
    PROVE  ShowsTheSame
<1> DEFINE S == source.segments
           O == result.output.segments
           o == OrientationOf(source)
           edges == EdgesOf(source)
           imcu == NativeImcu(source.components)
           kept == KeptSides(edges, source.dims, imcu)
           op == OperationFor(o)
<1>1. /\ IsPublished(S, O, plan, result.evidence) /\ result.output = output /\ pc # "Review"
  BY PublishedCompared
<1>2. IsAccepted(source, request.policy, request.organization, approved.value) /\ IsImage(source)
  BY <1>1, SourceAccepted, SourceIsImage DEF Past
<1>3. /\ o \in Orientation /\ plan.transform = losslessTransformFor(o) /\ Retained(plan) = kept
      /\ plan.output = IF swapsAxes(plan.transform) THEN Swapped(kept) ELSE kept
      /\ kept.w \in Nat /\ kept.h \in Nat
  BY <1>2, PlanSays DEF plan
<1>4. SplicedFact /\ ValidFact
  BY DEF WorkInv, Past
<1>5. result.output.operation = op /\ result.output.dims = plan.output
  BY <1>1, <1>3, <1>4, StructureSays DEF SplicedFact, ValidFact, OperationFor
<1>6. ViewerOrientation(S) = o
  <2>1. analyzeOrientation(S).error = None
    BY <1>2 DEF IsAccepted
  <2> QED
    BY <1>1, <2>1, ViewerReads DEF IsPublished, OrientationOf
<1>7. ViewerOrientation(O) = "TopLeft"
  <2>1. AllAdmissible(O)
    BY <1>1, <1>4 DEF SplicedFact
  <2>2. \A k \in DOMAIN O : IsCanonical(O[k], plan)
    BY <1>1, <2>1, PublishedCanonical
  <2> QED
    BY <1>1, <2>2, CanonicalIsUpright DEF IsPublished
<1>8. /\ source.dims \in Size /\ imcu \in Unit
      /\ edges = affectedSourceEdgesFor(losslessTransformFor(o))
      /\ edges.right => source.dims.w >= imcu.w
      /\ edges.bottom => source.dims.h >= imcu.h
  BY <1>2, GeometryTypes DEF IsAccepted, EdgesOf, OrientationOf
<1> HIDE DEF S, O, o, edges, imcu, kept, op
<1>9. result.output.dims = NativeDimensions(op, source.dims, imcu)
  <2>1. NativeDimensions(op, source.dims, imcu) = IF Transposes(op) THEN Swapped(kept) ELSE kept
    BY <1>3, <1>8, CodecKeeps DEF op, kept
  <2>2. swapsAxes(plan.transform) <=> Transposes(op)
    BY <1>3, AxesAgree DEF op
  <2> QED
    BY <1>3, <1>5, <2>1, <2>2
<1>10. ASSUME NEW x \in 0..(kept.w - 1), NEW y \in 0..(kept.h - 1),
              NEW place, place = NativePlace(op, source.dims, imcu, x, y)
       PROVE  DisplayPlace("TopLeft", result.output.dims, place[1], place[2])
                  = DisplayPlace(o, kept, x, y)
  <2>1. x \in Int /\ y \in Int
    OBVIOUS
  <2> QED
    BY <1>3, <1>8, <1>9, <1>10, <2>1, PixelsStayInPlace DEF op, kept
<1>11. \A x \in 0..(kept.w - 1), y \in 0..(kept.h - 1) :
         DisplayPlace("TopLeft", result.output.dims,
                      NativePlace(op, source.dims, imcu, x, y)[1],
                      NativePlace(op, source.dims, imcu, x, y)[2])
             = DisplayPlace(o, kept, x, y)
  BY <1>10
<1> QED
  BY <1>3, <1>5, <1>6, <1>7, <1>11, Zenon DEF ShowsTheSame, S, O, imcu

\* The dimensions it states are those of its pixels, and its previews are gone.
LEMMA MetadataHolds ==
    ASSUME AnalysisInv, WorkInv, Published
    PROVE  MetadataIsTrue
<1> DEFINE O == result.output.segments
<1>1. /\ IsPublished(source.segments, O, plan, result.evidence) /\ result.output = output
  BY PublishedCompared
<1>2. SplicedFact /\ ValidFact
  BY DEF WorkInv, Past
<1>3. /\ result.output.operation = NativeOperation(plan.transform)
      /\ result.output.dims = plan.output /\ AllAdmissible(O)
  BY <1>1, <1>2, StructureSays DEF SplicedFact, ValidFact
<1>4. \A k \in DOMAIN O : IsCanonical(O[k], plan)
  BY <1>1, <1>3, PublishedCanonical
<1>5. transformed(plan) => ~\E s \in ToSet(O) : LostThumbnail(s)
  BY <1>1, PreviewsCompared
<1>6. ~transformed(plan) => result.output.operation = "TJXOP_NONE"
  BY <1>3 DEF transformed, NativeOperation
<1> HIDE DEF O
<1>7. ASSUME NEW s \in ToSet(O)
      PROVE  /\ s.kind \in {"exif", "xmp"} =>
                  /\ ToSet(s.width) \subseteq {result.output.dims.w}
                  /\ ToSet(s.height) \subseteq {result.output.dims.h}
             /\ LostThumbnail(s) => result.output.operation = "TJXOP_NONE"
  <2>1. IsCanonical(s, plan)
    BY <1>4 DEF ToSet
  <2> QED
    BY <1>3, <1>5, <1>6, <2>1, Zenon DEF IsCanonical
<1> QED
  BY <1>7 DEF MetadataIsTrue, O

PlacesOf(I, J) == {Place(I, i) : i \in J}

\* Choosing from what has been chosen.
LEMMA ChosenTwice ==
    ASSUME NEW S, NEW q \in Seq(S), NEW I \in SUBSET DOMAIN q, NEW J \in SUBSET I
    PROVE  /\ PlacesOf(I, J) \in SUBSET DOMAIN Chosen(q, I)
           /\ Chosen(Chosen(q, I), PlacesOf(I, J)) = Chosen(q, J)
<1> DEFINE K == {Place(I, i) : i \in J}
           n == Len(q)
           r == Chosen(q, I)
           u == Chosen(r, K)
           v == Chosen(q, J)
<1>1. n \in Nat /\ DOMAIN q = 1..n /\ I \in SUBSET (1..n) /\ J \in SUBSET (1..n)
  OBVIOUS
<1>2. /\ r \in Seq(S) /\ IsFiniteSet(I)
      /\ \A i \in I : Place(I, i) \in DOMAIN r /\ r[Place(I, i)] = q[i]
  <2> HIDE DEF n, r
  <2> QED
    BY ChosenElements DEF r
<1>3. /\ v \in Seq(S) /\ DOMAIN v = 1..Cardinality(J) /\ IsFiniteSet(J)
      /\ \A i \in J : Place(J, i) \in DOMAIN v /\ v[Place(J, i)] = q[i]
  <2> J \in SUBSET DOMAIN q
    OBVIOUS
  <2> HIDE DEF n, v
  <2> QED
    BY ChosenElements DEF v
<1> HIDE DEF n
<1>4. \A i, j \in I : i < j => Place(I, i) < Place(I, j)
  BY <1>1, Places
<1>5. \A i, j \in I : Place(I, i) <= Place(I, j) <=> i <= j
  <2> SUFFICES ASSUME NEW i \in I, NEW j \in I PROVE Place(I, i) <= Place(I, j) <=> i <= j
    OBVIOUS
  <2>1. i \in Int /\ j \in Int
    BY <1>1
  <2>2. Place(I, i) \in Int /\ Place(I, j) \in Int
    BY <1>2
  <2>3. i < j \/ i = j \/ j < i
    BY <2>1
  <2> QED
    BY <1>4, <2>1, <2>2, <2>3
<1>6. K \in SUBSET DOMAIN r
  <2> HIDE DEF r
  <2> QED
    BY <1>2
<1>7. /\ u \in Seq(S) /\ DOMAIN u = 1..Cardinality(K)
      /\ \A k \in DOMAIN u : \E m \in K : Place(K, m) = k /\ u[k] = r[m]
  <2> HIDE DEF r, u
  <2>1. ASSUME NEW L \in SUBSET DOMAIN r
        PROVE  /\ Chosen(r, L) \in Seq(S) /\ DOMAIN Chosen(r, L) = 1..Cardinality(L)
               /\ \A k \in DOMAIN Chosen(r, L) :
                     \E m \in L : Place(L, m) = k /\ Chosen(r, L)[k] = r[m]
    BY <1>2, <2>1, ChosenElements
  <2> QED
    BY <1>6, <2>1 DEF u
<1> HIDE DEF r, u, v
<1>8. ASSUME NEW T \in SUBSET J
      PROVE  Cardinality({Place(I, i) : i \in T}) = Cardinality(T)
  <2> DEFINE L == {Place(I, i) : i \in T}
             f == [i \in T |-> Place(I, i)]
  <2>1. IsFiniteSet(T) /\ T \subseteq I
    BY <1>3, FS_Subset
  <2>2. \A i, j \in T : Place(I, i) = Place(I, j) => i = j
    <3> SUFFICES ASSUME NEW i \in T, NEW j \in T, Place(I, i) = Place(I, j) PROVE i = j
      OBVIOUS
    <3>1. i \in Int /\ j \in Int /\ Place(I, i) \in Int
      BY <1>1, <1>2, <2>1
    <3>2. i <= j /\ j <= i
      BY <1>5, <2>1, <3>1
    <3> QED
      BY <3>1, <3>2
  <2>3. f \in Bijection(T, L)
    BY <2>2 DEF Bijection, Injection, Surjection, IsInjective
  <2> HIDE DEF f, L
  <2>4. ExistsBijection(T, L)
    BY <2>3 DEF ExistsBijection
  <2>5. Cardinality(T) = Cardinality(L)
    BY <2>1, <2>4, FS_Bijection
  <2> QED
    BY <2>5 DEF L
<1>9. Cardinality(K) = Cardinality(J)
  BY <1>8
<1>10. \A i \in J : Place(K, Place(I, i)) = Place(J, i)
  <2> SUFFICES ASSUME NEW i \in J PROVE Place(K, Place(I, i)) = Place(J, i)
    OBVIOUS
  <2> DEFINE T == {j \in J : j <= i}
  <2>1. {m \in K : m <= Place(I, i)} = {Place(I, j) : j \in T}
    BY <1>5
  <2>2. T \in SUBSET J
    OBVIOUS
  <2> HIDE DEF T
  <2>3. Cardinality({m \in K : m <= Place(I, i)}) = Cardinality(T)
    BY <1>8, <2>1, <2>2
  <2> QED
    BY <2>3 DEF Place, T
<1>11. \A k \in DOMAIN u : u[k] = v[k]
  <2> SUFFICES ASSUME NEW k \in DOMAIN u PROVE u[k] = v[k]
    OBVIOUS
  <2>1. PICK m \in K : Place(K, m) = k /\ u[k] = r[m]
    BY <1>7
  <2>2. PICK i \in J : m = Place(I, i)
    OBVIOUS
  <2>3. u[k] = q[i] /\ Place(J, i) = k
    BY <1>2, <1>10, <2>1, <2>2
  <2> QED
    BY <1>3, <2>3
<1>12. u = v
  <2>1. u = [k \in DOMAIN u |-> u[k]] /\ v = [k \in DOMAIN v |-> v[k]]
    BY <1>3, <1>7
  <2>2. DOMAIN u = DOMAIN v
    BY <1>3, <1>7, <1>9
  <2> QED
    BY <1>11, <2>1, <2>2
<1> QED
  BY <1>6, <1>12 DEF r, u, v, PlacesOf
\* What NothingElseChanges compares.
RestPositions(q) == {i \in DOMAIN q : q[i].kind \notin {"jfxx", "photoshop"}}
FactsOf(s) == IF s.kind \in {"exif", "xmp", "jfif"} THEN <<s.kind, s.other>> ELSE s
FactsOfRest(q) == [i \in DOMAIN Chosen(q, RestPositions(q)) |->
                       FactsOf(Chosen(q, RestPositions(q))[i])]

\* The facts of an accepted segment are the source's.
LEMMA FactsCompared ==
    ASSUME NEW a, NEW b, NEW p, Faithful(a, b, p), a.kind \notin {"jfxx", "photoshop"}
    PROVE  FactsOf(a) = FactsOf(b)
<1>1. a.kind = b.kind
  BY DEF Faithful
<1>2. CASE a.kind \in {"exif", "xmp"}
  BY <1>1, <1>2 DEF Faithful, FactsOf
<1>3. CASE a.kind = "jfif"
  BY <1>1, <1>3 DEF Faithful, FactsOf
<1>4. CASE a.kind \notin {"exif", "xmp", "jfif"}
  BY <1>1, <1>4 DEF Faithful, FactsOf
<1> QED
  BY <1>2, <1>3, <1>4

\* All that is not a preview is there, in its order, with its facts.
LEMMA RestCompared ==
    ASSUME NEW segments, NEW after, NEW p, NEW evidence, IsPublished(segments, after, p, evidence)
    PROVE  FactsOfRest(after) = FactsOfRest(segments)
<1> DEFINE S == ToSet(segments)
           I == KeptPositions(segments, p)
           J == RestPositions(segments)
           K == {Place(I, i) : i \in J}
           kept == Kept(segments, p)
<1>1. /\ segments \in Seq(S) /\ I \in SUBSET DOMAIN segments /\ J \in SUBSET I
      /\ kept = Chosen(segments, I)
      /\ \A i \in I : i \in J <=> segments[i].kind \notin {"jfxx", "photoshop"}
  BY DEF KeptPositions, RestPositions, IsPublished, Kept
<1> HIDE DEF S, I, J, kept
<1>2. /\ kept \in Seq(S) /\ DOMAIN kept = 1..Len(kept)
      /\ \A i \in I : Place(I, i) \in DOMAIN kept /\ kept[Place(I, i)] = segments[i]
      /\ \A k \in DOMAIN kept : \E i \in I : Place(I, i) = k /\ kept[k] = segments[i]
  BY <1>1, ChosenElements
<1>3. after \in Seq(ToSet(after)) /\ Len(after) = Len(kept)
  BY DEF IsPublished, kept
<1>4. \A k \in DOMAIN kept : Faithful(kept[k], after[k], p)
  BY DEF IsPublished, kept
<1>5. DOMAIN after = DOMAIN kept
  BY <1>2, <1>3
<1>6. \A k \in DOMAIN kept : kept[k].kind = after[k].kind
  BY <1>4 DEF Faithful
<1>7. \A k \in DOMAIN kept : k \in K <=> kept[k].kind \notin {"jfxx", "photoshop"}
  <2> SUFFICES ASSUME NEW k \in DOMAIN kept
               PROVE  k \in K <=> kept[k].kind \notin {"jfxx", "photoshop"}
    OBVIOUS
  <2>1. ASSUME k \in K PROVE kept[k].kind \notin {"jfxx", "photoshop"}
    <3>1. PICK i \in J : k = Place(I, i)
      BY <2>1
    <3> HIDE DEF K
    <3> QED
      BY <1>1, <1>2, <3>1
  <2>2. ASSUME kept[k].kind \notin {"jfxx", "photoshop"} PROVE k \in K
    <3>1. PICK i \in I : Place(I, i) = k /\ kept[k] = segments[i]
      BY <1>2
    <3>2. i \in J
      BY <1>1, <2>2, <3>1
    <3> QED
      BY <3>1, <3>2
  <2> QED
    BY <2>1, <2>2
<1>8. K \in SUBSET DOMAIN kept /\ Chosen(kept, K) = Chosen(segments, J)
  BY <1>1, ChosenTwice DEF PlacesOf
<1> HIDE DEF K
<1>9. RestPositions(after) = K
  BY <1>5, <1>6, <1>7, <1>8 DEF RestPositions
<1> DEFINE a == Chosen(kept, K)
           b == Chosen(after, K)
<1>10. /\ DOMAIN a = 1..Cardinality(K)
       /\ \A k \in DOMAIN a : \E m \in K : Place(K, m) = k /\ a[k] = kept[m]
  BY <1>2, <1>8, ChosenElements
<1>11. /\ DOMAIN b = 1..Cardinality(K)
       /\ \A m \in K : b[Place(K, m)] = after[m]
  <2>1. K \in SUBSET DOMAIN after
    BY <1>5, <1>8
  <2> QED
    BY <1>3, <2>1, ChosenElements
<1> HIDE DEF a, b
<1>12. \A k \in DOMAIN a : FactsOf(b[k]) = FactsOf(a[k])
  <2> SUFFICES ASSUME NEW k \in DOMAIN a PROVE FactsOf(b[k]) = FactsOf(a[k])
    OBVIOUS
  <2>1. PICK m \in K : Place(K, m) = k /\ a[k] = kept[m]
    BY <1>10
  <2>2. b[k] = after[m] /\ m \in DOMAIN kept
    BY <1>8, <1>11, <2>1
  <2>3. Faithful(kept[m], after[m], p) /\ kept[m].kind \notin {"jfxx", "photoshop"}
    BY <1>4, <1>7, <2>2
  <2> QED
    BY <2>1, <2>2, <2>3, FactsCompared
<1>13. FactsOfRest(after) = [i \in DOMAIN b |-> FactsOf(b[i])]
  BY <1>9, Zenon DEF FactsOfRest, b
<1>14. FactsOfRest(segments) = [i \in DOMAIN a |-> FactsOf(a[i])]
  BY <1>8, Zenon DEF FactsOfRest, a, J
<1> QED
  BY <1>10, <1>11, <1>12, <1>13, <1>14

\* Nothing else of a published output is changed.
LEMMA NothingElseHolds ==
    ASSUME AnalysisInv, WorkInv, Published
    PROVE  NothingElseChanges
<1>1. /\ IsPublished(source.segments, result.output.segments, plan, result.evidence)
      /\ result.output = output
  BY PublishedCompared
<1>2. FactsOfRest(result.output.segments) = FactsOfRest(source.segments)
  BY <1>1, RestCompared
<1>3. ResultFact /\ ValidFact
  BY DEF WorkInv, Past
<1>4. /\ result.output.restart = source.restart /\ result.output.precision = source.precision
      /\ result.output.arithmetic = source.arithmetic /\ result.output.tables = expectedTables
      /\ ~result.output.trailing
  BY <1>1, <1>3, StructureSays DEF ResultFact, ValidFact
<1> QED
  BY <1>2, <1>4, Zenon DEF NothingElseChanges, FactsOfRest, FactsOf, RestPositions
\* A canonical segment needs no change once the pixels are upright.
LEMMA CanonicalStays ==
    ASSUME NEW s, NEW p, IsCanonical(s, p), ~transformed(p), p.output.w \in Nat, p.output.h \in Nat
    PROVE  reconcileSegment(s, p) = Change(s, FALSE)
<1>0. IsSegment(s) /\ (s.kind \in {"jfif", "jfxx", "photoshop"} => s.sound)
  BY DEF IsCanonical, Admissible
<1>1. CASE s.kind \in {"exif", "xmp"}
  <2>1. /\ s.readable /\ Len(s.orientation) <= 1 /\ ToSet(s.orientation) \subseteq {1}
        /\ ToSet(s.width) \subseteq {p.output.w} /\ ToSet(s.height) \subseteq {p.output.h}
        /\ s.orientation \in Seq(Int) /\ s.width \in Seq(Int) /\ s.height \in Seq(Int)
    BY <1>0, <1>1 DEF IsCanonical, IsSegment
  <2>2. ~NeedsRewrite(s, p)
    BY <2>1 DEF NeedsRewrite
  <2>3. Bad \notin ToSet(s.width \o s.height)
    <3> DEFINE a == s.width
               b == s.height
    <3>1. a \in Seq(Int) /\ b \in Seq(Int) /\ ToSet(a) \subseteq Nat /\ ToSet(b) \subseteq Nat
      BY <2>1
    <3> HIDE DEF a, b
    <3>2. \A i \in DOMAIN a : a[i] \in Nat
      BY <3>1 DEF ToSet
    <3>3. \A i \in DOMAIN b : b[i] \in Nat
      BY <3>1 DEF ToSet
    <3>4. a \in Seq(Nat) /\ b \in Seq(Nat)
      BY <3>1, <3>2, <3>3
    <3>5. a \o b \in Seq(Nat)
      BY <3>4
    <3>6. ToSet(a \o b) \subseteq Nat /\ Bad \notin Nat
      BY <3>5 DEF ToSet, Bad
    <3> QED
      BY <3>6 DEF a, b
  <2>4. StatedOrientation(<<s>>) # "invalid"
    <3> DEFINE w == s.orientation
    <3>1. w \in Seq(Int) /\ ToSet(w) \subseteq {1} /\ ~(Len(w) > 1)
      BY <2>1
    <3>2. <<s>>[1].orientation = w /\ <<s>> # <<>>
      OBVIOUS
    <3> HIDE DEF w
    <3>3. w # <<>> => w[1] = 1
      <4> SUFFICES ASSUME w # <<>> PROVE w[1] = 1
        OBVIOUS
      <4>1. 1 \in DOMAIN w
        BY <3>1
      <4>2. w[1] \in ToSet(w)
        BY <4>1 DEF ToSet
      <4> QED
        BY <3>1, <4>2
    <3>4. tryParseExifOrientation(1) = "TopLeft"
      BY DEF tryParseExifOrientation, Orientations
    <3> QED
      BY <3>1, <3>2, <3>3, <3>4 DEF StatedOrientation, None
  <2>5. \A relocates : reconcilePacket(s, p, relocates) = Change(s, FALSE)
    BY <2>1, <2>2, <2>3, <2>4, Zenon DEF reconcilePacket
  <2> QED
    BY <1>1, <2>5 DEF reconcileSegment
<1>2. CASE s.kind = "jfif"
  BY <1>0, <1>2 DEF reconcileSegment, reconcileJfif
<1>3. CASE s.kind = "jfxx"
  BY <1>0, <1>3 DEF reconcileSegment, reconcileJfxx
<1>4. CASE s.kind = "photoshop"
  <2> DEFINE t == [s EXCEPT !.resources = s.resources, !.size = 1 + Len(s.resources)]
  <2>1. reconcileSegment(s, p) = reconcilePhotoshopResources(s, p)
    BY <1>4 DEF reconcileSegment
  <2>2. reconcilePhotoshopResources(s, p) = Change(t, s.resources # s.resources)
    BY <1>0, <1>4, Zenon DEF reconcilePhotoshopResources
  <2>3. /\ s = [field \in DOMAIN s |-> s[field]] /\ s.size = 1 + Len(s.resources)
    BY <1>0, <1>4 DEF IsSegment
  <2>4. t = s
    BY <2>3
  <2>5. (s.resources # s.resources) = FALSE
    OBVIOUS
  <2> HIDE DEF t
  <2> QED
    BY <2>1, <2>2, <2>4, <2>5
<1>5. CASE s.kind \notin {"exif", "xmp", "jfif", "jfxx", "photoshop"}
  BY <1>5 DEF reconcileSegment
<1> QED
  BY <1>1, <1>2, <1>3, <1>4, <1>5

\* The bytes of segments are finitely many.
LEMMA FiniteBytes ==
    ASSUME NEW q, q \in Seq(ToSet(q)), \A s \in ToSet(q) : IsSegment(s)
    PROVE  IsFiniteSet(Bytes(q)) /\ TotalSize(q) \in Nat
<1> DEFINE n == Len(q)
           Of(i) == {i} \X (1..q[i].size)
           family == {Of(i) : i \in 1..n}
<1>1. n \in Nat /\ DOMAIN q = 1..n
  OBVIOUS
<1>2. \A i \in 1..n : q[i].size \in Nat
  BY <1>1 DEF ToSet, IsSegment
<1>3. IsFiniteSet(1..n)
  BY <1>1, FS_Interval
<1>4. IsFiniteSet(family)
  <2> DEFINE f == [i \in 1..n |-> Of(i)]
  <2> HIDE DEF Of, n
  <2>1. f \in Surjection(1..n, family)
    BY DEF Surjection
  <2> HIDE DEF f, family
  <2> QED
    BY <1>3, <2>1, FS_Surjection
<1>5. \A i \in 1..n : IsFiniteSet(Of(i))
  <2> SUFFICES ASSUME NEW i \in 1..n PROVE IsFiniteSet(Of(i))
    OBVIOUS
  <2> DEFINE size == q[i].size
  <2>1. size \in Int
    BY <1>2
  <2> HIDE DEF size
  <2>2. IsFiniteSet({i}) /\ IsFiniteSet(1..size)
    <3>1. IsFiniteSet({i})
      BY FS_Singleton
    <3>2. IsFiniteSet(1..size)
      BY <2>1, FS_Interval
    <3> QED
      BY <3>1, <3>2
  <2> QED
    BY <2>2, FS_Product DEF size
<1>6. IsFiniteSet(UNION family)
  <2>1. \A F \in family : IsFiniteSet(F)
    BY <1>5
  <2> HIDE DEF family
  <2> QED
    BY <1>4, <2>1, FS_UNION
<1>7. Bytes(q) = UNION family
  BY <1>1 DEF Bytes
<1> QED
  BY <1>6, <1>7, FS_CardinalityType DEF TotalSize

\* The first segments are not longer than all of them.
LEMMA FirstAreShorter ==
    ASSUME NEW q, q \in Seq(ToSet(q)), \A s \in ToSet(q) : IsSegment(s), NEW k \in 0..Len(q)
    PROVE  TotalSize(SubSeq(q, 1, k)) <= TotalSize(q)
<1>1. SubSeq(q, 1, k) = [i \in 1..k |-> q[i]] /\ DOMAIN q = 1..Len(q) /\ Len(q) \in Nat
  OBVIOUS
<1>2. DOMAIN SubSeq(q, 1, k) \subseteq DOMAIN q
      /\ \A i \in DOMAIN SubSeq(q, 1, k) : SubSeq(q, 1, k)[i] = q[i]
  BY <1>1
<1>3. Bytes(SubSeq(q, 1, k)) \subseteq Bytes(q)
  BY <1>2 DEF Bytes
<1>4. IsFiniteSet(Bytes(q))
  BY FiniteBytes
<1> QED
  BY <1>3, <1>4, FS_Subset DEF TotalSize

\* A loop over segments that need no change writes them as they are.
LEMMA LoopIsIdentity ==
    ASSUME NEW q, q \in Seq(ToSet(q)), \A s \in ToSet(q) : IsSegment(s), NEW p,
           \A k \in DOMAIN q : reconcileSegment(q[k], p) = Change(q[k], FALSE),
           TotalSize(q) <= MaximumMetadataLength
    PROVE  /\ Writing(q, p).error = None /\ Writing(q, p).segments = q
           /\ Writing(q, p).removed = FALSE
<1> DEFINE n == Len(q)
<1>1. n \in Nat /\ DOMAIN q = 1..n
  OBVIOUS
<1>s. \A k \in 0..n : ~(TotalSize(SubSeq(q, 1, k)) > MaximumMetadataLength)
  <2> SUFFICES ASSUME NEW k \in 0..n
               PROVE  ~(TotalSize(SubSeq(q, 1, k)) > MaximumMetadataLength)
    OBVIOUS
  <2>1. TotalSize(SubSeq(q, 1, k)) <= TotalSize(q)
    BY FirstAreShorter
  <2>2. SubSeq(q, 1, k) \in Seq(ToSet(q))
    BY <1>1
  <2>3. TotalSize(SubSeq(q, 1, k)) \in Nat /\ TotalSize(q) \in Nat /\ MaximumMetadataLength \in Nat
    <3>1. ToSet(SubSeq(q, 1, k)) \subseteq ToSet(q)
      BY <2>2 DEF ToSet
    <3>2. SubSeq(q, 1, k) \in Seq(ToSet(SubSeq(q, 1, k)))
      <4> DEFINE r == SubSeq(q, 1, k)
      <4> HIDE DEF r
      <4>1. r \in Seq(ToSet(q))
        BY <2>2 DEF r
      <4>2. r \in Seq(ToSet(r))
        BY <4>1 DEF ToSet
      <4> QED
        BY <4>2 DEF r
    <3> QED
      BY <3>1, <3>2, FiniteBytes, ReconcilerAssumption
  <2> QED
    BY <2>1, <2>3
<1>2. \A k \in 1..n : SubSeq(q, 1, k) = SubSeq(q, 1, k - 1) \o <<q[k]>>
  BY <1>1
<1>3. SubSeq(q, 1, 0) = <<>> /\ SubSeq(q, 1, n) = q
  BY <1>1
<1> HIDE DEF n
<1>4. PICK W : IsLoop(W, q, n, p) /\ Writing(q, p) = W[n]
  BY <1>1, LoopStates
<1> DEFINE Right(k) == W[k].error = None /\ W[k].segments = SubSeq(q, 1, k) /\ W[k].removed = FALSE
           Wrong == {k \in 0..n : ~Right(k)}
<1>5. Wrong = {}
  <2> SUFFICES ASSUME Wrong # {} PROVE FALSE
    OBVIOUS
  <2>1. Wrong \subseteq Nat
    BY <1>1
  <2>2. PICK m \in Wrong : \A y \in Wrong : y >= m
    <3> HIDE DEF Wrong
    <3> QED
      BY <2>1, Smallest
  <2>3. Right(0)
    BY <1>3, <1>4 DEF IsLoop, Unwritten
  <2>4. m \in 0..n /\ ~Right(m)
    BY <2>2
  <2>5. m # 0
    BY <2>3, <2>4
  <2>6. m \in 1..n /\ m - 1 \in 0..n /\ ~(m - 1 >= m)
    BY <1>1, <2>4, <2>5
  <2>7. Right(m - 1)
    BY <2>2, <2>6
  <2>8. W[m] = appendMarker(W[m - 1], q[m], p) /\ IsWritten(W[m - 1])
    BY <1>1, <1>4, <2>6, LoopWrites DEF IsLoop
  <2> DEFINE w == W[m - 1]
             changed == reconcileSegment(q[m], p)
             segments == w.segments \o changed.value.segment
             removed == w.removed \/ changed.value.removed
  <2>9. W[m] = IF w.error # None THEN w
               ELSE IF changed.error # None THEN [w EXCEPT !.error = changed.error]
               ELSE IF TotalSize(segments) > MaximumMetadataLength
               THEN [w EXCEPT !.error = "MetadataLengthLimitExceeded"]
               ELSE [w EXCEPT !.segments = segments, !.removed = removed]
    BY <2>8 DEF appendMarker
  <2>10. /\ changed.error = None /\ changed.value.segment = <<q[m]>> /\ changed.value.removed = FALSE
    BY <1>1, <2>6 DEF Change, Success
  <2>11. segments = SubSeq(q, 1, m) /\ removed = FALSE /\ w.error = None
    BY <1>2, <2>6, <2>7, <2>10
  <2>12. ~(TotalSize(segments) > MaximumMetadataLength)
    BY <1>s, <2>4, <2>11
  <2>13. DOMAIN w = {"error", "segments", "removed"}
    BY <2>8 DEF IsWritten
  <2> HIDE DEF w, changed, segments, removed
  <2>14. W[m] = [w EXCEPT !.segments = segments, !.removed = removed]
    BY <2>9, <2>10, <2>11, <2>12
  <2>15. W[m].error = None /\ W[m].segments = segments /\ W[m].removed = removed
    BY <2>11, <2>13, <2>14
  <2> QED
    BY <2>4, <2>11, <2>15
<1>6. Right(n)
  BY <1>1, <1>5
<1> QED
  BY <1>3, <1>4, <1>6
\* A product does not grow when its factors shrink.
LEMMA SmallerProduct ==
    ASSUME NEW a \in Nat, NEW b \in Nat, NEW c \in Nat, NEW d \in Nat, a <= c, b <= d
    PROVE  a * b <= c * d
<1>1. PICK e \in Nat : c = a + e
  <2>1. c - a \in Nat /\ c = a + (c - a)
    OBVIOUS
  <2> QED
    BY <2>1
<1>2. PICK f \in Nat : d = b + f
  <2>1. d - b \in Nat /\ d = b + (d - b)
    OBVIOUS
  <2> QED
    BY <2>1
<1>3. c * d = a * b + a * f + e * b + e * f
  BY <1>1, <1>2
<1>4. a * f \in Nat /\ e * b \in Nat /\ e * f \in Nat /\ a * b \in Nat
  BY <1>1, <1>2
<1> QED
  BY <1>3, <1>4

\* An upright image within the limit has a plan that changes nothing.
LEMMA UprightPlan ==
    ASSUME NEW dims \in Unit, NEW imcu \in Unit, NEW limit \in 0..MaxUint64,
           dims.w * dims.h <= limit, NEW policy, NEW organization, NEW asked,
           asked = [orientation |-> "TopLeft", dims |-> dims, imcu |-> imcu,
                    policy |-> policy, organization |-> organization],
           NEW planned, planned = createPlan(asked, limit)
    PROVE  /\ planned.error = None /\ planned.value.transform = "None"
           /\ planned.value.output = dims /\ ~willDiscardEdgePixels(planned.value)
<1> DEFINE geometry == PlanGeometry(asked)
           pixels == PixelCount(dims, limit)
<1>1. /\ dims.w \in Nat \ {0} /\ dims.h \in Nat \ {0} /\ imcu.w \in Nat \ {0}
      /\ imcu.h \in Nat \ {0} /\ dims = [w |-> dims.w, h |-> dims.h] /\ MaxUint64 \in Nat
      /\ limit \in Nat /\ limit <= MaxUint64
  BY PlannerAssumption DEF Unit
<1>2. /\ losslessTransformFor("TopLeft") = "None" /\ ~swapsAxes("None")
      /\ ~affectedSourceEdgesFor("None").right /\ ~affectedSourceEdgesFor("None").bottom
  BY DEF losslessTransformFor, swapsAxes, affectedSourceEdgesFor
<1>3. /\ asked.orientation = "TopLeft" /\ asked.dims = dims /\ asked.imcu = imcu
      /\ asked.policy = policy /\ asked.organization = organization
  OBVIOUS
<1>4. geometry = [transform |-> "None", source |-> dims, output |-> dims, policy |-> policy,
                  organization |-> organization, imcu |-> imcu, discarded |-> [w |-> 0, h |-> 0]]
  BY <1>1, <1>2, <1>3 DEF PlanGeometry
<1>5. pixels.error = None
  <2>1. dims.w * dims.h \in Nat
    BY <1>1
  <2>2. ~(dims.w * dims.h > MaxUint64)
    BY <1>1, <2>1
  <2>3. ~(dims.w > MaxUint64 \div dims.h)
    BY <1>1, <2>2, ProductFits
  <2>4. ~(dims.w * dims.h > limit)
    BY <1>1, <2>1
  <2> QED
    BY <2>3, <2>4 DEF PixelCount, Success
<1> HIDE DEF geometry, pixels
<1>6. planned = IF pixels.error # None THEN pixels
                ELSE IF \/ /\ willDiscardEdgePixels(geometry)
                           /\ geometry.policy = "RequirePerfectCoefficientTransform"
                        \/ geometry.discarded.w = geometry.source.w
                        \/ geometry.discarded.h = geometry.source.h
                THEN perfectTransformUnavailableError
                ELSE Success(geometry)
  BY <1>1, <1>3, Zenon DEF createPlan, geometry, pixels
<1>7. planned = Success(geometry) /\ ~willDiscardEdgePixels(geometry)
  BY <1>1, <1>4, <1>5, <1>6 DEF willDiscardEdgePixels
<1>8. planned.error = None /\ planned.value = geometry
  BY <1>7 DEF Success
<1> QED
  BY <1>4, <1>7, <1>8

\* What a canonical orientation is, where it is stated.
LEMMA CanonicalOrientation ==
    ASSUME NEW q, q \in Seq(ToSet(q)), \A s \in ToSet(q) : IsSegment(s),
           NEW p, \A k \in DOMAIN q : IsCanonical(q[k], p), NEW r, r = analyzeOrientation(q),
           r.error = None
    PROVE  r.value.authoritative = "TopLeft" /\ r.value.conflict = FALSE
<1> DEFINE exif == StatedOrientation(OfKind(q, "exif"))
           xmp == StatedOrientation(OfKind(q, "xmp"))
           stated(kind) == {i \in DOMAIN q : q[i].kind = kind /\ q[i].orientation # <<>>}
<1>1. /\ ~(Len(OfKind(q, "exif")) > 1) /\ ~(Len(OfKind(q, "xmp")) > 1)
      /\ exif # "invalid" /\ xmp # "invalid"
      /\ r.value.conflict = (exif # None /\ xmp # None /\ exif # xmp)
      /\ r.value.authoritative = IF exif # None THEN exif ELSE IF xmp # None THEN xmp ELSE "TopLeft"
  BY OrientationSucceeds
<1>2. ASSUME NEW kind \in {"exif", "xmp"}, NEW o, o = StatedOrientation(OfKind(q, kind)),
             ~(Len(OfKind(q, kind)) > 1), o # "invalid"
      PROVE  o \in {None, "TopLeft"}
  <2> DEFINE I == stated(kind)
             m == Min(I)
             s == q[m]
  <2>1. \/ o = None
        \/ m \in I /\ o = tryParseExifOrientation(s.orientation[1])
    BY <1>2, StatedByKind
  <2>2. CASE o # None
    <3>1. m \in DOMAIN q /\ s.kind \in {"exif", "xmp"} /\ s.orientation # <<>>
      BY <2>1, <2>2
    <3> HIDE DEF m
    <3>2. IsCanonical(s, p) /\ IsSegment(s)
      BY <3>1 DEF ToSet
    <3> DEFINE w == s.orientation
    <3>3. w \in Seq(Int) /\ w # <<>> /\ ToSet(w) \subseteq {1}
      BY <3>1, <3>2 DEF IsSegment, IsCanonical
    <3> HIDE DEF s, w
    <3>4. 1 \in DOMAIN w
      BY <3>3
    <3>5. w[1] \in ToSet(w)
      BY <3>4 DEF ToSet
    <3>6. w[1] = 1
      BY <3>3, <3>5
    <3>7. tryParseExifOrientation(1) = "TopLeft"
      BY DEF tryParseExifOrientation, Orientations
    <3> QED
      BY <2>1, <2>2, <3>6, <3>7 DEF w
  <2> QED
    BY <2>2
<1>3. exif \in {None, "TopLeft"} /\ xmp \in {None, "TopLeft"}
  BY <1>1, <1>2
<1> HIDE DEF exif, xmp, stated
<1>4. r.value.authoritative = "TopLeft"
  BY <1>1, <1>3
<1>5. ~(exif # None /\ xmp # None /\ exif # xmp)
  BY <1>3
<1>6. r.value.conflict = FALSE
  BY <1>1, <1>5, Zenon
<1> QED
  BY <1>4, <1>6

\* The components of a published output are components again.
LEMMA OutputComponents ==
    ASSUME IsImage(source), ValidFact
    PROVE  output.components \in Seq([w : 1..4, h : 1..4]) \ {<<>>}
<1> DEFINE C == [w : 1..4, h : 1..4]
<1>1. source.components \in Seq(C) \ {<<>>}
  BY DEF IsImage
<1>2. expectedComponents \in Seq(C) \ {<<>>}
  <2>1. CASE Len(source.components) = 1
    <3>1. expectedComponents = <<[w |-> 1, h |-> 1]>>
      BY <2>1 DEF expectedComponents
    <3> QED
      BY <3>1
  <2>2. CASE Len(source.components) # 1 /\ swapsAxes(plan.transform)
    <3> DEFINE c == source.components
    <3>1. expectedComponents = [i \in DOMAIN c |-> Swapped(c[i])]
      BY <2>2 DEF expectedComponents
    <3> HIDE DEF c
    <3>2. c \in Seq(C) /\ c # <<>>
      BY <1>1 DEF c
    <3>3. \A i \in DOMAIN c : Swapped(c[i]) \in C
      <4>1. \A x \in C : Swapped(x) \in C
        BY DEF Swapped
      <4> HIDE DEF C
      <4>2. \A i \in DOMAIN c : c[i] \in C
        BY <3>2
      <4> QED
        BY <4>1, <4>2
    <3>4. Len(c) \in Nat /\ Len(c) # 0 /\ DOMAIN c = 1..Len(c)
      BY <3>2
    <3> HIDE DEF C
    <3>5. [i \in 1..Len(c) |-> Swapped(c[i])] \in Seq(C)
      BY <3>3, <3>4
    <3>6. [i \in 1..Len(c) |-> Swapped(c[i])] # <<>>
      BY <3>4
    <3> QED
      BY <3>1, <3>4, <3>5, <3>6
  <2>3. CASE Len(source.components) # 1 /\ ~swapsAxes(plan.transform)
    <3>1. expectedComponents = source.components
      BY <2>3 DEF expectedComponents
    <3> QED
      BY <1>1, <3>1
  <2> QED
    BY <2>1, <2>2, <2>3
<1> QED
  BY <1>1, <1>2, StructureSays DEF ValidFact
\* A published output, reviewed again, is left alone.
LEMMA NothingIsLeft ==
    ASSUME AnalysisInv, WorkInv, Published
    PROVE  NeedsNothing
<1> DEFINE O == output.segments
           dims == output.dims
           imcu == sourceImcu(output.components)
           bindings == validateSourceAssetBindings(O, output.trailing)
           orientation == analyzeOrientation(O)
           asked == [orientation |-> orientation.value.authoritative, dims |-> dims, imcu |-> imcu,
                     policy |-> request.policy, organization |-> request.organization]
           planned == createPlan(asked, MaximumPixelCount)
           preflight == reconcileMarkerSegments(O, planned.value)
           findings == findingsOf(orientation.value, planned.value, preflight.value.removed)
           value == [properties |-> sourceProperties(output),
                     orientation |-> orientation.value.authoritative,
                     plan |-> planned.value, findings |-> findings]
           again == analyze(output, request.policy, request.organization)
<1>1. /\ IsPublished(source.segments, O, plan, result.evidence) /\ result.output = output
      /\ pc # "Review"
  BY PublishedCompared
<1>2. IsAccepted(source, request.policy, request.organization, approved.value) /\ IsImage(source)
  BY <1>1, SourceAccepted, SourceIsImage DEF Past
<1>3. SplicedFact /\ ValidFact
  BY DEF WorkInv, Past
<1>4. /\ scan(output).error = None /\ output.trailing = FALSE /\ dims = plan.output
  <2>1. scan(output).error = None /\ ~output.trailing /\ dims = plan.output
    BY <1>3, StructureSays DEF ValidFact
  <2> QED
    BY <2>1
<1>5. bindings.error = None
  <2>1. validateSourceAssetBindings(O, FALSE).error = None
    BY <1>3, Zenon DEF ValidFact, MetadataRule, None
  <2> QED
    BY <1>4, <2>1
<1>6. /\ O \in Seq(ToSet(O)) /\ \A s \in ToSet(O) : IsSegment(s)
      /\ orientation.error = None /\ \A k \in DOMAIN O : IsCanonical(O[k], plan)
  BY <1>1, <1>3, PublishedCanonical DEF IsPublished, SplicedFact
<1>7. orientation.value.authoritative = "TopLeft" /\ orientation.value.conflict = FALSE
  BY <1>6, CanonicalOrientation
<1>8. dims \in Unit /\ dims.w * dims.h <= MaximumPixelCount
  <2> DEFINE kept == KeptSides(EdgesOf(source), source.dims, NativeImcu(source.components))
             a == source.dims
  <2>1. /\ plan.output = IF swapsAxes(plan.transform) THEN Swapped(kept) ELSE kept
        /\ kept.w \in 1..a.w /\ kept.h \in 1..a.h
    BY <1>2, PlanSays DEF plan
  <2>2. kept = [w |-> kept.w, h |-> kept.h]
    BY DEF KeptSides
  <2>3. a.w \in Nat /\ a.h \in Nat /\ a.w * a.h <= MaximumPixelCount /\ MaximumPixelCount \in Nat
    BY <1>2, EngineAssumption, PlannerAssumption DEF IsAccepted, IsImage
  <2> HIDE DEF kept, a
  <2>4. kept.w \in Nat \ {0} /\ kept.h \in Nat \ {0} /\ kept.w <= a.w /\ kept.h <= a.h
    BY <2>1, <2>3
  <2>5. kept.w * kept.h <= a.w * a.h
    BY <2>3, <2>4, SmallerProduct
  <2>6. kept.w * kept.h \in Nat /\ a.w * a.h \in Nat /\ kept.h * kept.w = kept.w * kept.h
    BY <2>3, <2>4
  <2>7. kept.w * kept.h <= MaximumPixelCount
    BY <2>3, <2>5, <2>6
  <2>8. kept \in Unit /\ Swapped(kept) \in Unit
    BY <2>2, <2>4 DEF Unit, Swapped
  <2>9. Swapped(kept).w * Swapped(kept).h = kept.w * kept.h
    BY <2>6 DEF Swapped
  <2> QED
    BY <1>4, <2>1, <2>7, <2>8, <2>9
<1>9. imcu \in Unit
  <2>1. output.components \in Seq([w : 1..4, h : 1..4]) \ {<<>>}
    BY <1>2, <1>3, OutputComponents
  <2>2. /\ imcu = NativeImcu(output.components) /\ imcu.w \in Nat \ {0} /\ imcu.h \in Nat \ {0}
    BY <2>1, UnitsAgree
  <2>3. \E a, b : imcu = [w |-> a, h |-> b]
    BY DEF sourceImcu
  <2> HIDE DEF imcu
  <2> QED
    BY <2>2, <2>3 DEF Unit
<1>10. /\ planned.error = None /\ planned.value.transform = "None"
       /\ planned.value.output = dims /\ ~willDiscardEdgePixels(planned.value)
  <2>1. asked = [orientation |-> "TopLeft", dims |-> dims, imcu |-> imcu,
                 policy |-> request.policy, organization |-> request.organization]
    BY <1>7
  <2>2. MaximumPixelCount \in 0..MaxUint64
    BY EngineAssumption
  <2> HIDE DEF asked, dims, imcu
  <2> QED
    BY <1>8, <1>9, <2>1, <2>2, UprightPlan
<1> HIDE DEF planned
<1>11. /\ Writing(O, planned.value).error = None /\ Writing(O, planned.value).segments = O
       /\ Writing(O, planned.value).removed = FALSE
  <2>1. ~transformed(planned.value) /\ planned.value.output = plan.output
    BY <1>4, <1>10 DEF transformed
  <2>2. plan.output.w \in Nat /\ plan.output.h \in Nat
    BY <1>4, <1>8 DEF Unit
  <2>3. \A k \in DOMAIN O : IsCanonical(O[k], planned.value)
    BY <1>6, <2>1 DEF IsCanonical
  <2>4. \A k \in DOMAIN O : reconcileSegment(O[k], planned.value) = Change(O[k], FALSE)
    BY <2>1, <2>2, <2>3, CanonicalStays
  <2>5. TotalSize(O) <= MaximumMetadataLength
    <3>1. /\ Failure("MetadataLengthLimitExceeded").error # None
          /\ Failure("EncodedFileTooLarge").error # None
          /\ output.unsound # None => Failure(output.unsound).error # None
      BY DEF Failure, None
    <3>2. ~(TotalSize(O) > MaximumMetadataLength)
      BY <1>4, <3>1, Zenon DEF scan
    <3>3. TotalSize(O) \in Nat /\ MaximumMetadataLength \in Nat
      BY <1>6, FiniteBytes, ReconcilerAssumption
    <3> QED
      BY <3>2, <3>3
  <2> HIDE DEF O
  <2> QED
    BY <1>6, <2>4, <2>5, LoopIsIdentity
<1>12. preflight = Success([segments |-> O, removed |-> FALSE])
  <2> DEFINE extended == validateExtendedXmpPreservation(O, "None")
             written == Writing(O, planned.value)
  <2>1. extended.error = None
    BY <1>5, Zenon DEF validateSourceAssetBindings
  <2>2. preflight = IF extended.error # None THEN extended
                    ELSE IF written.error # None THEN Failure(written.error)
                    ELSE Success([segments |-> written.segments, removed |-> written.removed])
    BY <1>10 DEF reconcileMarkerSegments, Writing, Unwritten
  <2> HIDE DEF extended, written
  <2>3. written.error = None /\ written.segments = O /\ written.removed = FALSE
    BY <1>11 DEF written
  <2> QED
    BY <2>1, <2>2, <2>3
<1>13. preflight.error = None /\ preflight.value.removed = FALSE /\ preflight.value.segments = O
  BY <1>12 DEF Success
<1> HIDE DEF preflight
<1>14. findings = {}
  <2>1. ~willDiscardEdgePixels(planned.value) /\ ~orientation.value.conflict /\ ~preflight.value.removed
    BY <1>7, <1>10, <1>13
  <2> HIDE DEF orientation
  <2> QED
    BY <2>1 DEF findingsOf
<1>15. again = Success(value)
  <2>1. again = IF scan(output).error # None THEN scan(output)
                ELSE IF bindings.error # None THEN bindings
                ELSE IF orientation.error # None THEN orientation
                ELSE IF planned.error # None THEN planned
                ELSE IF preflight.error # None THEN preflight
                ELSE Success(value)
    BY Zenon DEF analyze, planned, preflight
  <2> HIDE DEF value, bindings, orientation, again
  <2> QED
    BY <1>4, <1>5, <1>6, <1>10, <1>13, <2>1
<1>16. /\ again.error = None /\ again.value.plan = planned.value /\ again.value.findings = findings
  BY <1>15 DEF Success
<1> HIDE DEF again, findings
<1>17. /\ again.error = None /\ again.value.plan.transform = "None" /\ again.value.findings = {}
       /\ reconcileMarkerSegments(O, again.value.plan).value.segments = O
  BY <1>10, <1>13, <1>14, <1>16 DEF preflight
<1> QED
  BY <1>1, <1>17, Zenon DEF NeedsNothing, again

\* In every reachable state, a published output is the reviewed picture, upright,
\* with true metadata and nothing left to do, whatever the writer of the metadata
\* or the codec did beyond the operation it was asked for.
THEOREM PublishedTrue == Spec => []PublishedIsTrue
<1>1. AnalysisInv /\ [Next]_vars => AnalysisInv'
  BY AnalysisStep
<1>2. AnalysisInv /\ WorkInv /\ [Next]_vars => WorkInv'
  BY WorkStep
<1>3. AnalysisInv /\ WorkInv => PublishedIsTrue
  BY ShowsHold, MetadataHolds, NothingElseHolds, NothingIsLeft DEF PublishedIsTrue
<1> QED
  BY AnalysisInit, WorkInit, <1>1, <1>2, <1>3, PTL DEF Spec

-----------------------------------------------------------------------------
(* Refusals: what the loop writes is accepted by the comparison *)

\* The places of the positions, one after the other.
LEMMA PlaceSteps ==
    ASSUME NEW n \in Nat, NEW I \in SUBSET (1..n)
    PROVE  /\ Place(I, 0) = 0 /\ Place(I, n) = Cardinality(I)
           /\ \A k \in 0..n : Place(I, k) \in Nat
           /\ \A k \in 1..n : Place(I, k) = IF k \in I THEN Place(I, k - 1) + 1
                                            ELSE Place(I, k - 1)
<1> DEFINE Below(k) == {j \in I : j <= k}
<1>0. \A j \in I : j \in Int /\ j >= 1 /\ j <= n
  OBVIOUS
<1>1. Below(0) = {} /\ Below(n) = I
  <2>1. \A j \in I : ~(j <= 0) /\ j <= n
    BY <1>0
  <2> QED
    BY <2>1, Zenon
<1>2. \A k \in 0..n : IsFiniteSet(Below(k)) /\ Cardinality(Below(k)) \in Nat
  <2> SUFFICES ASSUME NEW k \in 0..n
               PROVE  IsFiniteSet(Below(k)) /\ Cardinality(Below(k)) \in Nat
    OBVIOUS
  <2>1. Below(k) \in SUBSET (1..n)
    BY <1>0
  <2>2. IsFiniteSet(1..n)
    BY FS_Interval
  <2> HIDE DEF Below
  <2> QED
    BY <2>1, <2>2, FS_Subset, FS_CardinalityType
<1>3. \A k \in 1..n : Below(k) = IF k \in I THEN Below(k - 1) \cup {k} ELSE Below(k - 1)
  <2> SUFFICES ASSUME NEW k \in 1..n
               PROVE  Below(k) = IF k \in I THEN Below(k - 1) \cup {k} ELSE Below(k - 1)
    OBVIOUS
  <2>1. \A j \in I : j <= k <=> j <= k - 1 \/ j = k
    BY <1>0
  <2> QED
    BY <2>1
<1>4. \A k \in 1..n : k \notin Below(k - 1) /\ k - 1 \in 0..n
  OBVIOUS
<1>5. \A k : Place(I, k) = Cardinality(Below(k))
  BY DEF Place
<1> HIDE DEF Below
<1>6. ASSUME NEW k \in 1..n
      PROVE  Place(I, k) = IF k \in I THEN Place(I, k - 1) + 1 ELSE Place(I, k - 1)
  <2>1. Cardinality(Below(k - 1) \cup {k}) = Cardinality(Below(k - 1)) + 1
    BY <1>2, <1>4, FS_AddElement
  <2> QED
    BY <1>3, <1>5, <2>1
<1> QED
  BY <1>1, <1>2, <1>5, <1>6, FS_EmptySet

\* The loop writes one segment for every one it keeps, in their order.
LEMMA LoopKeeps ==
    ASSUME NEW q, q \in Seq(ToSet(q)), \A s \in ToSet(q) : IsSegment(s),
           NEW p, p.output.w \in Nat, p.output.h \in Nat, Writing(q, p).error = None,
           NEW kept, kept = Kept(q, p), NEW out, out = Writing(q, p).segments
    PROVE  /\ Len(out) = Len(kept) /\ ~(TotalSize(out) > MaximumMetadataLength)
           /\ kept \in Seq(ToSet(q))
           /\ \A k \in DOMAIN kept : /\ reconcileSegment(kept[k], p).error = None
                                     /\ reconcileSegment(kept[k], p).value.segment = <<out[k]>>
                                     /\ ~(transformed(p) /\ kept[k].kind = "jfxx")
<1> DEFINE n == Len(q)
           I == KeptPositions(q, p)
           r(k) == reconcileSegment(q[k], p)
           S == {r(k).value.segment[1] : k \in I}
<1>1. n \in Nat /\ DOMAIN q = 1..n
  OBVIOUS
<1> HIDE DEF n
<1>2. PICK W : IsLoop(W, q, n, p) /\ Writing(q, p) = W[n]
  BY <1>1, LoopStates
<1>3. Succeeded(W, q, n, p)
  BY <1>1, <1>2, LoopSucceeds
<1>4. \A k \in 1..n : /\ r(k).error = None
                      /\ W[k].segments = W[k - 1].segments \o r(k).value.segment
                      /\ ~(TotalSize(W[k].segments) > MaximumMetadataLength)
  BY <1>3, Zenon DEF Succeeded
<1>5. I \in SUBSET (1..n) /\ \A k \in 1..n : k \in I <=> ~(transformed(p) /\ q[k].kind = "jfxx")
  BY <1>1 DEF KeptPositions
<1>6. W[0].segments = <<>>
  BY <1>2 DEF IsLoop, Unwritten
<1>7. ASSUME NEW k \in 1..n
      PROVE  IF k \in I THEN r(k).value.segment = <<r(k).value.segment[1]>>
             ELSE r(k).value.segment = <<>>
  <2> DEFINE s == q[k]
             x == reconcileSegment(s, p)
  <2>1. IsSegment(s) /\ x.error = None
    BY <1>1, <1>4 DEF ToSet
  <2>2. k \in I <=> ~(transformed(p) /\ s.kind = "jfxx")
    BY <1>5
  <2> HIDE DEF s, I
  <2>3. IF transformed(p) /\ s.kind = "jfxx" THEN x.value.segment = <<>>
        ELSE \E t : x.value.segment = <<t>>
    BY <2>1, SegmentAdmissible
  <2> HIDE DEF x
  <2>4. IF k \in I THEN x.value.segment = <<x.value.segment[1]>> ELSE x.value.segment = <<>>
    BY <2>2, <2>3
  <2> QED
    BY <2>4 DEF s, x
<1>8. \A k \in I : r(k).value.segment[1] \in S
  OBVIOUS
<1>9. ASSUME NEW k \in 1..n PROVE r(k).value.segment \in Seq(S)
  <2> DEFINE b == r(k).value.segment
  <2>1. b = <<>> \/ \E y \in S : b = <<y>>
    BY <1>7, <1>8
  <2> HIDE DEF b, S
  <2>2. <<>> \in Seq(S) /\ \A y \in S : <<y>> \in Seq(S)
    OBVIOUS
  <2>3. b \in Seq(S)
    BY <2>1, <2>2
  <2> QED
    BY <2>3 DEF b
<1>10. /\ Place(I, 0) = 0 /\ Place(I, n) = Cardinality(I)
       /\ \A k \in 0..n : Place(I, k) \in Nat
       /\ \A k \in 1..n : Place(I, k) = IF k \in I THEN Place(I, k - 1) + 1 ELSE Place(I, k - 1)
  BY <1>1, <1>5, PlaceSteps
<1>p. \A i \in I, k \in 1..n : i < k => Place(I, i) <= Place(I, k - 1) /\ Place(I, i) >= 1
  <2> SUFFICES ASSUME NEW i \in I, NEW k \in 1..n, i < k
               PROVE  Place(I, i) <= Place(I, k - 1) /\ Place(I, i) >= 1
    OBVIOUS
  <2>1. i \in 1..n /\ i <= k - 1
    BY <1>5
  <2>2. {j \in I : j <= i} \subseteq {j \in I : j <= k - 1} /\ {j \in I : j <= k - 1} \subseteq 1..n
    <3>1. \A j \in I : j \in 1..n
      BY <1>5
    <3> HIDE DEF I
    <3>2. \A j \in I : j <= i => j <= k - 1
      BY <1>1, <2>1, <3>1
    <3> QED
      BY <3>1, <3>2
  <2>3. IsFiniteSet({j \in I : j <= k - 1})
    <3> DEFINE T == {j \in I : j <= k - 1}
    <3>1. IsFiniteSet(1..n)
      BY <1>1, FS_Interval
    <3>2. T \in SUBSET (1..n)
      BY <2>2
    <3> HIDE DEF T
    <3>3. IsFiniteSet(T)
      BY <3>1, <3>2, FS_Subset
    <3> QED
      BY <3>3 DEF T
  <2>4. Place(I, i) <= Place(I, k - 1)
    BY <2>2, <2>3, FS_Subset DEF Place
  <2>5. Place(I, i - 1) \in Nat /\ Place(I, i) = Place(I, i - 1) + 1
    BY <1>1, <1>10, <2>1
  <2> QED
    BY <2>4, <2>5
<1> HIDE DEF I, S, r
<1> DEFINE So(k) == /\ W[k].segments \in Seq(S) /\ Len(W[k].segments) = Place(I, k)
                    /\ \A i \in I : i <= k => W[k].segments[Place(I, i)] = r(i).value.segment[1]
           Wrong == {k \in 0..n : ~So(k)}
<1>11. So(0)
  <2>1. <<>> \in Seq(S) /\ Len(<<>>) = 0
    OBVIOUS
  <2>2. \A i \in I : ~(i <= 0)
    BY <1>5
  <2> QED
    BY <1>6, <1>10, <2>1, <2>2
<1>12. ASSUME NEW k \in 1..n, So(k - 1) PROVE So(k)
  <2> DEFINE a == W[k - 1].segments
             b == r(k).value.segment
  <2>1. a \in Seq(S) /\ b \in Seq(S) /\ W[k].segments = a \o b /\ Len(a) = Place(I, k - 1)
    BY <1>4, <1>9, <1>12 DEF r
  <2>2. \A i \in I : i <= k - 1 => a[Place(I, i)] = r(i).value.segment[1]
    BY <1>12
  <2>3. IF k \in I THEN b = <<r(k).value.segment[1]>> ELSE b = <<>>
    BY <1>7 DEF r
  <2> HIDE DEF a, b, So
  <2>4. a \o b \in Seq(S) /\ Len(a \o b) = Len(a) + Len(b)
    <3>1. a \in Seq(S) /\ b \in Seq(S)
      BY <2>1
    <3> QED
      BY <3>1
  <2>5. Len(a \o b) = Place(I, k)
    <3>1. Len(b) = IF k \in I THEN 1 ELSE 0
      BY <2>3
    <3>2. Place(I, k) = IF k \in I THEN Place(I, k - 1) + 1 ELSE Place(I, k - 1)
      BY <1>10
    <3>3. Place(I, k - 1) \in Nat /\ Len(a) = Place(I, k - 1)
      BY <1>1, <1>10, <2>1
    <3> QED
      BY <2>4, <3>1, <3>2, <3>3
  <2>6. ASSUME NEW i \in I, i <= k PROVE (a \o b)[Place(I, i)] = r(i).value.segment[1]
    <3>1. CASE i = k
      <4>1. Place(I, i) = Len(a) + 1 /\ b = <<r(i).value.segment[1]>>
        BY <1>10, <2>1, <2>3, <3>1
      <4> QED
        BY <2>1, <4>1
    <3>2. CASE i # k
      <4>1. i \in 1..n /\ k \in 1..n /\ i < k /\ i <= k - 1
        BY <1>1, <1>5, <2>6, <3>2
      <4>2. Place(I, i) \in 1..Len(a)
        <5>1. Place(I, i) <= Place(I, k - 1) /\ Place(I, i) >= 1
          BY <1>p, <4>1
        <5>2. Place(I, i) \in Nat /\ Place(I, k - 1) \in Nat
          BY <1>1, <1>10, <4>1
        <5> QED
          BY <2>1, <5>1, <5>2
      <4>3. (a \o b)[Place(I, i)] = a[Place(I, i)]
        BY <2>1, <4>2
      <4> QED
        BY <2>2, <4>1, <4>3
    <3> QED
      BY <3>1, <3>2
  <2> QED
    BY <2>1, <2>4, <2>5, <2>6 DEF So
<1>13. So(n)
  <2> HIDE DEF So
  <2>1. Wrong = {}
    <3> SUFFICES ASSUME Wrong # {} PROVE FALSE
      OBVIOUS
    <3>1. Wrong \subseteq Nat
      BY <1>1
    <3>2. PICK m \in Wrong : \A y \in Wrong : y >= m
      <4> HIDE DEF Wrong
      <4> QED
        BY <3>1, Smallest
    <3>3. m \in 0..n /\ ~So(m)
      BY <3>2
    <3>4. m # 0
      BY <1>11, <3>3
    <3>5. m \in 1..n /\ m - 1 \in 0..n /\ ~(m - 1 >= m)
      BY <1>1, <3>3, <3>4
    <3>6. So(m - 1)
      BY <3>2, <3>5
    <3> QED
      BY <1>12, <3>3, <3>5, <3>6
  <2> QED
    BY <1>1, <2>1
<1>14. out = W[n].segments
  BY <1>2
<1>15. /\ kept \in Seq(ToSet(q)) /\ Len(kept) = Cardinality(I)
       /\ \A k \in DOMAIN kept : \E i \in I : Place(I, i) = k /\ kept[k] = q[i]
  <2>1. I \in SUBSET DOMAIN q /\ kept = Chosen(q, I)
    BY <1>1, <1>5 DEF Kept, I
  <2> QED
    BY <2>1, ChosenElements
<1>16. ~(TotalSize(out) > MaximumMetadataLength)
  <2>1. CASE n = 0
    <3>1. Bytes(<<>>) = {}
      BY DEF Bytes
    <3>2. TotalSize(out) = 0
      BY <1>6, <1>14, <2>1, <3>1, FS_EmptySet DEF TotalSize
    <3> QED
      BY <3>2, ReconcilerAssumption
  <2>2. CASE n # 0
    <3>1. n \in 1..n
      BY <1>1, <2>2
    <3> QED
      BY <1>4, <1>14, <3>1
  <2> QED
    BY <2>1, <2>2
<1>17. ASSUME NEW k \in DOMAIN kept
       PROVE  /\ reconcileSegment(kept[k], p).error = None
              /\ reconcileSegment(kept[k], p).value.segment = <<out[k]>>
              /\ ~(transformed(p) /\ kept[k].kind = "jfxx")
  <2>1. PICK i \in I : Place(I, i) = k /\ kept[k] = q[i]
    BY <1>15
  <2>2. i \in 1..n /\ i <= n
    BY <1>1, <1>5
  <2>3. out[k] = r(i).value.segment[1]
    BY <1>13, <1>14, <2>1, <2>2
  <2>4. r(i).value.segment = <<r(i).value.segment[1]>> /\ r(i).error = None
    BY <1>4, <1>7, <2>2 DEF r
  <2>5. reconcileSegment(kept[k], p) = r(i)
    BY <2>1 DEF r
  <2> QED
    BY <1>5, <2>1, <2>2, <2>3, <2>4, <2>5
<1> QED
  BY <1>10, <1>13, <1>14, <1>15, <1>16, <1>17

\* What a written segment says of the one it was written for.
Written(a, b) ==
    /\ a.kind = b.kind
    /\ a.kind \in {"exif", "xmp"} =>
         b.readable /\ Len(b.orientation) <= 1 /\ ToSet(b.orientation) \subseteq {1}
    /\ a.kind = "xmp" => b.declares = a.declares /\ b.provenance = a.provenance
    /\ a.kind = "extension" => a = b

\* The rule a written segment can still break.
Accepted(rule, a) == rule = None \/ (rule = "DerivedDimensions" /\ Repeats(a))

\* Values that are all one.
LEMMA AllValues ==
    ASSUME NEW x \in Seq(Int), NEW v \in Int
    PROVE  All(x, v) \in Seq(Int) /\ Len(All(x, v)) = Len(x) /\ ToSet(All(x, v)) \subseteq {v}
<1>1. All(x, v) = [i \in 1..Len(x) |-> v] /\ Len(x) \in Nat
  BY DEF All
<1> QED
  BY <1>1 DEF ToSet

\* A packet the reconciler wrote is accepted, but for a dimension stated twice.
LEMMA PacketAccepted ==
    ASSUME NEW a, IsSegment(a), a.kind \in {"exif", "xmp"},
           NEW p, p.output.w \in Int, p.output.h \in Int, NEW relocates,
           NEW r, r = reconcilePacket(a, p, relocates), r.error = None,
           NEW b, r.value.segment = <<b>>, NEW rule
    PROVE  Written(a, b) /\ Accepted(comparePacket(a, b, p, rule), a)
<1>1. /\ a.readable /\ StatedOrientation(<<a>>) # "invalid"
      /\ IF NeedsRewrite(a, p)
         THEN r = Change(Rewritten(a, p), transformed(p) /\ a.thumbnail)
         ELSE r = Change(a, FALSE)
  BY PacketChanges
<1>2. \A x, y : Change(x, y).value.segment = <<x>>
  BY DEF Change, Success
<1>3. IF NeedsRewrite(a, p) THEN b = Rewritten(a, p) ELSE b = a
  <2>1. \A x, y : <<x>> = <<y>> => x = y
    OBVIOUS
  <2>2. <<b>> = IF NeedsRewrite(a, p) THEN <<Rewritten(a, p)>> ELSE <<a>>
    BY <1>1, <1>2, Zenon
  <2> QED
    BY <2>1, <2>2, Zenon
<1>4. /\ a = [field \in DOMAIN a |-> a[field]]
      /\ {"kind", "size", "orientation", "width", "height", "thumbnail", "other"} \subseteq DOMAIN a
      /\ a.kind = "xmp" => {"declares", "provenance"} \subseteq DOMAIN a
      /\ a.readable \in BOOLEAN /\ a.thumbnail \in BOOLEAN
      /\ a.orientation \in Seq(Int) /\ a.width \in Seq(Int) /\ a.height \in Seq(Int)
  BY DEF IsSegment
<1>5. ~(Len(a.orientation) > 1)
  <2>1. <<a>> # <<>> /\ <<a>>[1] = a
    OBVIOUS
  <2>2. a.orientation = <<>> => Len(a.orientation) = 0
    OBVIOUS
  <2> QED
    BY <1>1, <2>1, <2>2 DEF StatedOrientation
<1>6. /\ b.kind = a.kind /\ b.readable = a.readable /\ b.other = a.other
      /\ a.kind = "xmp" => b.declares = a.declares /\ b.provenance = a.provenance
      /\ Len(b.orientation) = Len(a.orientation) /\ ToSet(b.orientation) \subseteq {1}
      /\ Len(b.width) = Len(a.width) /\ ToSet(b.width) \subseteq {p.output.w}
      /\ Len(b.height) = Len(a.height) /\ ToSet(b.height) \subseteq {p.output.h}
      /\ b.thumbnail = (a.thumbnail /\ ~transformed(p))
  <2>1. CASE ~NeedsRewrite(a, p)
    <3>1. /\ b = a /\ ~transformed(p)
          /\ ~(ToSet(a.orientation) \ {1} # {})
          /\ ~(ToSet(a.width) \ {p.output.w} # {})
          /\ ~(ToSet(a.height) \ {p.output.h} # {})
      BY <1>3, <2>1 DEF NeedsRewrite
    <3>2. a.thumbnail = (a.thumbnail /\ ~transformed(p))
      BY <1>4, <3>1, Zenon
    <3> QED
      BY <3>1, <3>2
  <2>2. CASE NeedsRewrite(a, p)
    <3> DEFINE t == transformed(p)
    <3>1. b = [a EXCEPT !.orientation = All(@, 1),
                        !.width = All(@, p.output.w), !.height = All(@, p.output.h),
                        !.thumbnail = @ /\ ~t, !.size = @ + RewriteGrowth]
      BY <1>3, <2>2 DEF Rewritten
    <3> HIDE DEF t
    <3>2. /\ b.kind = a.kind /\ b.readable = a.readable /\ b.other = a.other
          /\ b.orientation = All(a.orientation, 1) /\ b.width = All(a.width, p.output.w)
          /\ b.height = All(a.height, p.output.h) /\ b.thumbnail = (a.thumbnail /\ ~t)
      BY <1>4, <3>1
    <3>3. a.kind = "xmp" => b.declares = a.declares /\ b.provenance = a.provenance
      BY <1>4, <3>1
    <3>4. /\ Len(b.orientation) = Len(a.orientation) /\ ToSet(b.orientation) \subseteq {1}
          /\ Len(b.width) = Len(a.width) /\ ToSet(b.width) \subseteq {p.output.w}
          /\ Len(b.height) = Len(a.height) /\ ToSet(b.height) \subseteq {p.output.h}
      <4>1. \A x \in Seq(Int), v \in Int : /\ Len(All(x, v)) = Len(x)
                                           /\ ToSet(All(x, v)) \subseteq {v}
        BY AllValues
      <4>2. 1 \in Int /\ p.output.w \in Int /\ p.output.h \in Int
        OBVIOUS
      <4> QED
        BY <1>4, <3>2, <4>1, <4>2, Zenon
    <3> QED
      BY <3>2, <3>3, <3>4 DEF t
  <2> QED
    BY <2>1, <2>2
<1>7. Written(a, b)
  <2>1. Len(a.orientation) <= 1
    BY <1>4, <1>5
  <2> QED
    BY <1>1, <1>6, <2>1 DEF Written
<1>8. /\ b.thumbnail => ~transformed(p)
      /\ ~transformed(p) => a.thumbnail = b.thumbnail
  BY <1>4, <1>6, Zenon
<1> DEFINE many == \/ Len(a.width) # Len(b.width) \/ Len(a.width) > 1
                   \/ Len(a.height) # Len(b.height) \/ Len(a.height) > 1
                   \/ ToSet(b.width) \ {p.output.w} # {}
                   \/ ToSet(b.height) \ {p.output.h} # {}
           lost == \/ a.other # b.other
                   \/ ~transformed(p) /\ a.thumbnail # b.thumbnail
           turned == \/ ToSet(b.orientation) \ {1} # {}
                     \/ Len(a.orientation) # Len(b.orientation)
                     \/ Len(a.orientation) > 1
<1>9. comparePacket(a, b, p, rule) =
        IF ~a.readable \/ ~b.readable THEN "MetadataPreservation"
        ELSE IF turned THEN rule
        ELSE IF many THEN "DerivedDimensions"
        ELSE IF transformed(p) /\ b.thumbnail THEN "RemovedEmbeddedThumbnails"
        ELSE IF lost THEN "MetadataPreservation"
        ELSE None
  BY Zenon DEF comparePacket
<1>10. many => Repeats(a)
  BY <1>6 DEF Repeats
<1>11. ~turned /\ ~lost
  BY <1>5, <1>6, <1>8
<1> HIDE DEF many, lost, turned
<1>12. comparePacket(a, b, p, rule) = IF many THEN "DerivedDimensions" ELSE None
  BY <1>1, <1>6, <1>8, <1>9, <1>11
<1> QED
  BY <1>7, <1>10, <1>12, Zenon DEF Accepted

\* So is any other segment.
LEMMA SegmentAccepted ==
    ASSUME NEW a, IsSegment(a), NEW p, p.output.w \in Int, p.output.h \in Int,
           NEW r, r = reconcileSegment(a, p), r.error = None,
           ~(transformed(p) /\ a.kind = "jfxx"), NEW b, r.value.segment = <<b>>
    PROVE  Written(a, b) /\ Accepted(compareSegment(a, b, p), a)
<1>0. \A x, y : Change(x, y).value.segment = <<x>>
  BY DEF Change, Success
<1>i. ASSUME NEW x, NEW y, r = Change(x, y) PROVE b = x
  <2>1. r.value.segment = <<x>>
    BY <1>0, <1>i
  <2>2. <<b>> = <<x>>
    BY <2>1
  <2>3. <<b>>[1] = <<x>>[1]
    BY <2>2
  <2> QED
    BY <2>3
<1>p. unsupportedPreview.error # None
  BY DEF unsupportedPreview, Failure, None
<1>n. \A s : Accepted(None, s)
  BY DEF Accepted
<1>s. a = [field \in DOMAIN a |-> a[field]] /\ {"kind", "size"} \subseteq DOMAIN a
  BY DEF IsSegment
<1>1. CASE a.kind = "exif"
  <2>1. r = reconcilePacket(a, p, a.relocates)
    BY <1>1 DEF reconcileSegment
  <2>2. Written(a, b) /\ Accepted(comparePacket(a, b, p, "CanonicalExifOrientation"), a)
    BY <1>1, <2>1, PacketAccepted
  <2>3. compareSegment(a, b, p) = comparePacket(a, b, p, "CanonicalExifOrientation")
    BY <1>1, <2>2 DEF compareSegment, Written
  <2> QED
    BY <2>2, <2>3
<1>2. CASE a.kind = "xmp"
  <2>1. r = reconcilePacket(a, p, FALSE)
    BY <1>2 DEF reconcileSegment
  <2>2. Written(a, b) /\ Accepted(comparePacket(a, b, p, "CanonicalStandardXmpOrientation"), a)
    BY <1>2, <2>1, PacketAccepted
  <2>3. compareSegment(a, b, p) = comparePacket(a, b, p, "CanonicalStandardXmpOrientation")
    BY <1>2, <2>2 DEF compareSegment, Written
  <2> QED
    BY <2>2, <2>3
<1>3. CASE a.kind = "jfif" /\ transformed(p)
  <2> DEFINE t == [a EXCEPT !.thumbnail = FALSE, !.size = 1]
  <2>1. r = reconcileJfif(a, p)
    BY <1>3 DEF reconcileSegment
  <2>2. r = Change(t, a.thumbnail)
    BY <1>3, <1>p, <2>1, Zenon DEF reconcileJfif
  <2>3. {"thumbnail", "other"} \subseteq DOMAIN a
    BY <1>3 DEF IsSegment
  <2>4. t.kind = a.kind /\ t.thumbnail = FALSE /\ t.other = a.other
    BY <1>3, <1>s, <2>3
  <2> HIDE DEF t
  <2>5. b = t
    BY <1>i, <2>2, Zenon
  <2>6. compareJfif(a, b) = None
    BY <2>4, <2>5 DEF compareJfif
  <2>7. compareSegment(a, b, p) = None
    BY <1>3, <2>4, <2>5, <2>6 DEF compareSegment
  <2> QED
    BY <1>3, <1>n, <2>4, <2>5, <2>7 DEF Written
<1>4. CASE a.kind = "photoshop" /\ transformed(p)
  <2> DEFINE left == WithoutThumbnail(a.resources)
             t == [a EXCEPT !.resources = left, !.size = 1 + Len(left)]
  <2>1. r = reconcilePhotoshopResources(a, p)
    BY <1>4 DEF reconcileSegment
  <2>2. r = Change(t, left # a.resources)
    BY <1>4, <1>p, <2>1, Zenon DEF reconcilePhotoshopResources
  <2>3. "resources" \in DOMAIN a /\ a.resources \in Seq(STRING)
    BY <1>4 DEF IsSegment
  <2>4. "thumbnail" \notin ToSet(left)
    <3> DEFINE q == a.resources
               I == {i \in DOMAIN q : q[i] # "thumbnail"}
    <3>1. I \in SUBSET DOMAIN q /\ left = Chosen(q, I) /\ \A i \in I : q[i] # "thumbnail"
      BY DEF WithoutThumbnail
    <3> HIDE DEF I, left, q
    <3>2. \A k \in DOMAIN left : \E i \in I : left[k] = q[i]
      BY <2>3, <3>1, ChosenElements DEF q
    <3> QED
      BY <3>1, <3>2 DEF ToSet
  <2> HIDE DEF left
  <2>5. t.kind = a.kind /\ t.resources = left
    BY <1>4, <1>s, <2>3
  <2> HIDE DEF t
  <2>6. b = t
    BY <1>i, <2>2, Zenon
  <2>7. comparePhotoshopResources(a, b) = None
    BY <2>4, <2>5, <2>6 DEF comparePhotoshopResources, left
  <2>8. compareSegment(a, b, p) = None
    BY <1>4, <2>5, <2>6, <2>7 DEF compareSegment
  <2> QED
    BY <1>4, <1>n, <2>5, <2>6, <2>8 DEF Written
<1>5. CASE /\ a.kind \notin {"exif", "xmp"}
           /\ ~(a.kind \in {"jfif", "photoshop"} /\ transformed(p))
  <2>1. b = a
    <3>1. CASE a.kind = "jfif"
      <4>1. r = reconcileJfif(a, p) /\ ~transformed(p)
        BY <1>5, <3>1 DEF reconcileSegment
      <4>2. r = Change(a, FALSE)
        BY <1>p, <4>1, Zenon DEF reconcileJfif
      <4> QED
        BY <1>i, <4>2, Zenon
    <3>2. CASE a.kind = "jfxx"
      <4>1. r = reconcileJfxx(a, p) /\ ~transformed(p)
        BY <3>2 DEF reconcileSegment
      <4>2. r = Change(a, FALSE)
        BY <1>p, <4>1, Zenon DEF reconcileJfxx
      <4> QED
        BY <1>i, <4>2, Zenon
    <3>3. CASE a.kind = "photoshop"
      <4> DEFINE t == [a EXCEPT !.resources = a.resources, !.size = 1 + Len(a.resources)]
      <4>1. r = reconcilePhotoshopResources(a, p) /\ ~transformed(p)
        BY <1>5, <3>3 DEF reconcileSegment
      <4>2. r = Change(t, a.resources # a.resources)
        BY <1>p, <4>1, Zenon DEF reconcilePhotoshopResources
      <4>3. "resources" \in DOMAIN a /\ a.size = 1 + Len(a.resources)
        BY <3>3 DEF IsSegment
      <4>4. t = a
        BY <1>s, <4>3
      <4> HIDE DEF t
      <4> QED
        BY <1>i, <4>2, <4>4, Zenon
    <3>4. CASE a.kind \notin {"jfif", "jfxx", "photoshop"}
      <4>1. r = Change(a, FALSE)
        BY <1>5, <3>4 DEF reconcileSegment
      <4> QED
        BY <1>i, <4>1, Zenon
    <3> QED
      BY <3>1, <3>2, <3>3, <3>4
  <2>2. compareSegment(a, b, p) = None
    BY <1>5, <2>1 DEF compareSegment
  <2> QED
    BY <1>5, <1>n, <2>1, <2>2 DEF Written
<1> QED
  BY <1>1, <1>2, <1>3, <1>4, <1>5

\* Segments of one kind are written for the segments of that kind.
LEMMA KindsWritten ==
    ASSUME NEW q, q \in Seq(ToSet(q)), NEW p, NEW out, out \in Seq(ToSet(out)),
           Len(out) = Len(Kept(q, p)),
           \A k \in DOMAIN Kept(q, p) : Written(Kept(q, p)[k], out[k]),
           NEW kind, kind # "jfxx"
    PROVE  /\ Len(OfKind(out, kind)) = Len(OfKind(q, kind))
           /\ DOMAIN OfKind(out, kind) = DOMAIN OfKind(q, kind)
           /\ DOMAIN OfKind(q, kind) = 1..Len(OfKind(q, kind)) /\ Len(OfKind(q, kind)) \in Nat
           /\ \A k \in DOMAIN OfKind(q, kind) :
                 /\ Written(OfKind(q, kind)[k], OfKind(out, kind)[k])
                 /\ OfKind(q, kind)[k].kind = kind
<1> DEFINE S == ToSet(q)
           I == KeptPositions(q, p)
           J == {i \in DOMAIN q : q[i].kind = kind}
           K == PlacesOf(I, J)
           kept == Kept(q, p)
<1>1. /\ q \in Seq(S) /\ I \in SUBSET DOMAIN q /\ J \in SUBSET I /\ kept = Chosen(q, I)
      /\ \A i \in I : i \in J <=> q[i].kind = kind
  BY DEF KeptPositions, Kept
<1>j. OfKind(q, kind) = Chosen(q, J)
  BY DEF OfKind
<1> HIDE DEF S, I, J, kept
<1>2. /\ kept \in Seq(S) /\ DOMAIN kept = 1..Len(kept)
      /\ \A i \in I : Place(I, i) \in DOMAIN kept /\ kept[Place(I, i)] = q[i]
      /\ \A k \in DOMAIN kept : \E i \in I : Place(I, i) = k /\ kept[k] = q[i]
  BY <1>1, ChosenElements
<1>3. /\ Len(out) = Len(kept) /\ DOMAIN out = DOMAIN kept
      /\ \A k \in DOMAIN kept : Written(kept[k], out[k])
  <2>1. Len(out) = Len(kept) /\ \A k \in DOMAIN kept : Written(kept[k], out[k])
    BY DEF kept
  <2>2. DOMAIN out = 1..Len(out)
    OBVIOUS
  <2> QED
    BY <1>2, <2>1, <2>2
<1>4. K \in SUBSET DOMAIN kept /\ Chosen(kept, K) = Chosen(q, J)
  BY <1>1, ChosenTwice
<1>5. \A k \in DOMAIN kept : k \in K <=> kept[k].kind = kind
  <2> SUFFICES ASSUME NEW k \in DOMAIN kept PROVE k \in K <=> kept[k].kind = kind
    OBVIOUS
  <2>1. ASSUME k \in K PROVE kept[k].kind = kind
    <3>1. PICK i \in J : k = Place(I, i)
      BY <2>1 DEF PlacesOf
    <3> HIDE DEF K
    <3> QED
      BY <1>1, <1>2, <3>1
  <2>2. ASSUME kept[k].kind = kind PROVE k \in K
    <3>1. PICK i \in I : Place(I, i) = k /\ kept[k] = q[i]
      BY <1>2
    <3>2. i \in J
      BY <1>1, <2>2, <3>1
    <3> QED
      BY <3>1, <3>2 DEF PlacesOf
  <2> QED
    BY <2>1, <2>2
<1> HIDE DEF K
<1>6. OfKind(out, kind) = Chosen(out, K)
  <2>1. \A k \in DOMAIN kept : out[k].kind = kept[k].kind
    BY <1>3 DEF Written
  <2>2. {k \in DOMAIN out : out[k].kind = kind} = K
    BY <1>3, <1>4, <1>5, <2>1
  <2> QED
    BY <2>2 DEF OfKind
<1> DEFINE a == Chosen(kept, K)
           b == Chosen(out, K)
<1>7. /\ a \in Seq(S) /\ Len(a) = Cardinality(K) /\ Cardinality(K) \in Nat
      /\ DOMAIN a = 1..Cardinality(K)
      /\ \A k \in DOMAIN a : \E m \in K : Place(K, m) = k /\ a[k] = kept[m]
  BY <1>2, <1>4, ChosenElements
<1>8. /\ Len(b) = Cardinality(K) /\ DOMAIN b = 1..Cardinality(K)
      /\ \A m \in K : b[Place(K, m)] = out[m]
  <2>1. K \in SUBSET DOMAIN out
    BY <1>3, <1>4
  <2> QED
    BY <2>1, ChosenElements
<1>9. a = OfKind(q, kind) /\ b = OfKind(out, kind)
  BY <1>4, <1>6, <1>j
<1> HIDE DEF a, b
<1>10. ASSUME NEW k \in DOMAIN a PROVE Written(a[k], b[k]) /\ a[k].kind = kind
  <2>1. PICK m \in K : Place(K, m) = k /\ a[k] = kept[m]
    BY <1>7
  <2>2. b[k] = out[m] /\ m \in DOMAIN kept
    BY <1>4, <1>8, <2>1
  <2> QED
    BY <1>3, <1>5, <2>1, <2>2
<1> QED
  BY <1>7, <1>8, <1>9, <1>10

\* The written segments: what the loop keeps, and what it writes for it.
AreWritten(q, p, out) ==
    /\ q \in Seq(ToSet(q)) /\ out \in Seq(ToSet(out)) /\ \A s \in ToSet(out) : IsSegment(s)
    /\ Kept(q, p) \in Seq(ToSet(q)) /\ Len(out) = Len(Kept(q, p))
    /\ \A k \in DOMAIN Kept(q, p) :
          /\ Written(Kept(q, p)[k], out[k])
          /\ Accepted(compareSegment(Kept(q, p)[k], out[k], p), Kept(q, p)[k])

\* A packet says once that it is upright, or does not say.
LEMMA StatedUpright ==
    ASSUME NEW r, r # <<>> => /\ r[1].orientation \in Seq(Int) /\ Len(r[1].orientation) <= 1
                              /\ ToSet(r[1].orientation) \subseteq {1}
    PROVE  StatedOrientation(r) # "invalid"
<1>1. tryParseExifOrientation(1) = "TopLeft"
  BY DEF tryParseExifOrientation, Orientations
<1>2. CASE r = <<>> \/ r[1].orientation = <<>>
  BY <1>2 DEF StatedOrientation, None
<1>3. CASE r # <<>> /\ r[1].orientation # <<>>
  <2> DEFINE w == r[1].orientation
  <2>1. w \in Seq(Int) /\ Len(w) <= 1 /\ ToSet(w) \subseteq {1} /\ w # <<>>
    BY <1>3
  <2>2. StatedOrientation(r) = IF Len(w) > 1 \/ tryParseExifOrientation(w[1]) = None THEN "invalid"
                               ELSE tryParseExifOrientation(w[1])
    BY <1>3 DEF StatedOrientation
  <2> HIDE DEF w
  <2>3. 1 \in DOMAIN w /\ ~(Len(w) > 1)
    BY <2>1
  <2>4. w[1] = 1
    BY <2>1, <2>3 DEF ToSet
  <2> QED
    BY <1>1, <2>2, <2>3, <2>4 DEF None
<1> QED
  BY <1>2, <1>3

\* The orientation of what is written can be read.
LEMMA OrientationWritten ==
    ASSUME NEW q, NEW p, NEW out, AreWritten(q, p, out), analyzeOrientation(q).error = None
    PROVE  analyzeOrientation(out).error = None
<1> DEFINE exifs == OfKind(out, "exif")
           xmps == OfKind(out, "xmp")
           exif == StatedOrientation(exifs)
           xmp == StatedOrientation(xmps)
<1>1. ~(Len(OfKind(q, "exif")) > 1) /\ ~(Len(OfKind(q, "xmp")) > 1)
  BY OrientationSucceeds
<1>2. ASSUME NEW kind \in {"exif", "xmp"}
      PROVE  /\ OfKind(out, kind) \in Seq(ToSet(out))
             /\ ~(Len(OfKind(out, kind)) > 1)
             /\ \A k \in DOMAIN OfKind(out, kind) :
                   /\ OfKind(out, kind)[k].readable
                   /\ OfKind(out, kind)[k].orientation \in Seq(Int)
                   /\ Len(OfKind(out, kind)[k].orientation) <= 1
                   /\ ToSet(OfKind(out, kind)[k].orientation) \subseteq {1}
  <2> DEFINE a == OfKind(q, kind)
             b == OfKind(out, kind)
  <2>1. /\ Len(b) = Len(a) /\ DOMAIN b = DOMAIN a
        /\ \A k \in DOMAIN a : Written(a[k], b[k]) /\ a[k].kind = kind
    BY KindsWritten DEF AreWritten
  <2>2. b \in Seq(ToSet(out)) /\ \A k \in DOMAIN b : b[k] \in ToSet(out)
    <3> DEFINE J == {i \in DOMAIN out : out[i].kind = kind}
    <3>1. J \in SUBSET DOMAIN out /\ b = Chosen(out, J) /\ out \in Seq(ToSet(out))
      BY DEF OfKind, AreWritten
    <3> HIDE DEF J, b
    <3>2. b \in Seq(ToSet(out))
      BY <3>1, ChosenElements
    <3> QED
      BY <3>2
  <2>3. ~(Len(b) > 1)
    BY <1>1, <1>2, <2>1
  <2> HIDE DEF a, b
  <2>4. ASSUME NEW k \in DOMAIN b
        PROVE  /\ b[k].readable /\ b[k].orientation \in Seq(Int)
               /\ Len(b[k].orientation) <= 1 /\ ToSet(b[k].orientation) \subseteq {1}
    <3>1. a[k].kind = kind /\ Written(a[k], b[k]) /\ IsSegment(b[k])
      BY <2>1, <2>2 DEF AreWritten
    <3>2. b[k].kind = kind
      BY <3>1 DEF Written
    <3> QED
      BY <1>2, <3>1, <3>2 DEF Written, IsSegment
  <2> QED
    BY <2>2, <2>3, <2>4 DEF b
<1>3. exif # "invalid" /\ xmp # "invalid"
  <2>1. ASSUME NEW kind \in {"exif", "xmp"} PROVE StatedOrientation(OfKind(out, kind)) # "invalid"
    <3> DEFINE r == OfKind(out, kind)
    <3>1. /\ r \in Seq(ToSet(out))
          /\ \A k \in DOMAIN r : /\ r[k].orientation \in Seq(Int)
                                 /\ Len(r[k].orientation) <= 1
                                 /\ ToSet(r[k].orientation) \subseteq {1}
      BY <1>2
    <3> HIDE DEF r
    <3>2. r # <<>> => 1 \in DOMAIN r
      BY <3>1
    <3> QED
      BY <3>1, <3>2, StatedUpright DEF r
  <2> QED
    BY <2>1
<1>4. \A s \in ToSet(exifs) \cup ToSet(xmps) : s.readable
  <2>1. /\ \A k \in DOMAIN exifs : exifs[k].readable
        /\ \A k \in DOMAIN xmps : xmps[k].readable
    BY <1>2
  <2> HIDE DEF exifs, xmps
  <2> QED
    BY <2>1 DEF ToSet
<1>5. ~(Len(exifs) > 1) /\ ~(Len(xmps) > 1)
  BY <1>2
<1> DEFINE value == [exif |-> exif, xmp |-> xmp,
                     conflict |-> exif # None /\ xmp # None /\ exif # xmp,
                     authoritative |-> IF exif # None THEN exif
                                       ELSE IF xmp # None THEN xmp ELSE "TopLeft"]
<1>6. analyzeOrientation(out) =
        IF \/ Len(exifs) > 1 \/ Len(xmps) > 1
           \/ \E s \in ToSet(exifs) : ~s.readable
        THEN Failure("MalformedImageMetadata")
        ELSE IF exif = "invalid" THEN Failure("InvalidOrientationMetadata")
        ELSE IF \E s \in ToSet(xmps) : ~s.readable THEN Failure("MalformedImageMetadata")
        ELSE IF xmp = "invalid" THEN Failure("InvalidOrientationMetadata")
        ELSE Success(value)
  BY Zenon DEF analyzeOrientation
<1> HIDE DEF exifs, xmps, exif, xmp, value
<1> QED
  BY <1>3, <1>4, <1>5, <1>6 DEF Success

\* Its Extended XMP is what it was, and nothing in it is bound to other bytes.
LEMMA BindingsWritten ==
    ASSUME NEW q, NEW p, NEW out, AreWritten(q, p, out), NEW trailing,
           validateSourceAssetBindings(q, trailing).error = None
    PROVE  validateSourceAssetBindings(out, FALSE).error = None
<1> DEFINE xmp(s) == OfKind(s, "xmp")
           extension(s) == OfKind(s, "extension")
           declared(s) == {xmp(s)[i].declares : i \in DOMAIN xmp(s)} \ {None}
           guids(s) == {extension(s)[i].guid : i \in DOMAIN extension(s)}
           packets(s) == {t \in ToSet(s) : t.kind \in {"xmp", "extension"}}
           many(s) == Len(xmp(s)) > 1 \/ \E i \in DOMAIN xmp(s) : ~xmp(s)[i].readable
           refused(s) == \E i \in DOMAIN extension(s) : ExtensionRefused(extension(s)[i], "None")
<1>1. \A s : validateExtendedXmpPreservation(s, "None") =
               IF many(s) THEN Failure("MalformedImageMetadata")
               ELSE IF declared(s) # guids(s) THEN Failure("MalformedImageMetadata")
               ELSE IF refused(s) THEN Failure("ExtendedXmpMutationNotSupported")
               ELSE Success({})
  BY Zenon DEF validateExtendedXmpPreservation
<1>2. \A c : Failure(c).error = c /\ Success(c).error = None
  BY DEF Failure, Success
<1>3. \A s, t : validateSourceAssetBindings(s, t) =
        IF validateExtendedXmpPreservation(s, "None").error # None
        THEN validateExtendedXmpPreservation(s, "None")
        ELSE IF \E packet \in packets(s) : packet.provenance
        THEN Failure("ContentCredentialsWouldBeInvalidated")
        ELSE IF t /\ \E packet \in packets(s) : packet.motion
        THEN Failure("MotionPhotoNotSupported")
        ELSE IF t THEN Failure("UnsupportedTrailingPayload")
        ELSE Success({})
  BY Zenon DEF validateSourceAssetBindings
<1>4. /\ DOMAIN xmp(out) = DOMAIN xmp(q) /\ Len(xmp(out)) = Len(xmp(q))
      /\ \A k \in DOMAIN xmp(q) : Written(xmp(q)[k], xmp(out)[k]) /\ xmp(q)[k].kind = "xmp"
  BY KindsWritten DEF AreWritten
<1>5. /\ DOMAIN extension(out) = DOMAIN extension(q)
      /\ \A k \in DOMAIN extension(q) : /\ Written(extension(q)[k], extension(out)[k])
                                        /\ extension(q)[k].kind = "extension"
  BY KindsWritten DEF AreWritten
<1> HIDE DEF xmp, extension
<1>6. \A k \in DOMAIN xmp(q) : xmp(out)[k].readable /\ xmp(out)[k].declares = xmp(q)[k].declares
  BY <1>4 DEF Written
<1>7. \A k \in DOMAIN extension(q) : extension(out)[k] = extension(q)[k]
  BY <1>5 DEF Written
<1>8. ~many(q) => ~many(out)
  BY <1>4, <1>6
<1>9. declared(out) = declared(q) /\ guids(out) = guids(q)
  BY <1>4, <1>5, <1>6, <1>7
<1>10. refused(out) = refused(q)
  BY <1>5, <1>7
<1>11. (\A packet \in packets(q) : ~packet.provenance) => \A packet \in packets(out) : ~packet.provenance
  <2> SUFFICES ASSUME \A packet \in packets(q) : ~packet.provenance, NEW packet \in packets(out)
               PROVE  ~packet.provenance
    OBVIOUS
  <2> DEFINE kept == Kept(q, p)
  <2>1. /\ kept \in Seq(ToSet(q)) /\ Len(out) = Len(kept) /\ out \in Seq(ToSet(out))
        /\ \A k \in DOMAIN kept : Written(kept[k], out[k])
    BY DEF AreWritten
  <2> HIDE DEF kept
  <2>2. PICK k \in DOMAIN out : packet = out[k]
    BY DEF ToSet
  <2>3. k \in DOMAIN kept /\ kept[k] \in ToSet(q)
    BY <2>1
  <2>4. Written(kept[k], packet)
    BY <2>1, <2>2, <2>3
  <2>5. kept[k].kind = packet.kind
    BY <2>4 DEF Written
  <2>6. kept[k] \in packets(q)
    BY <2>3, <2>5
  <2>7. packet.provenance = kept[k].provenance
    BY <2>4, <2>5 DEF Written
  <2> QED
    BY <2>6, <2>7
<1> HIDE DEF many, declared, guids, refused, packets
<1>12. /\ ~many(q) /\ declared(q) = guids(q) /\ ~refused(q)
       /\ \A packet \in packets(q) : ~packet.provenance
  <2>1. /\ validateExtendedXmpPreservation(q, "None").error = None
        /\ ~(\E packet \in packets(q) : packet.provenance)
    BY <1>2, <1>3 DEF None
  <2>2. "MalformedImageMetadata" # None /\ "ExtendedXmpMutationNotSupported" # None
    BY DEF None
  <2>3. ~many(q) /\ declared(q) = guids(q) /\ ~refused(q)
    BY <1>1, <1>2, <2>1, <2>2, Zenon
  <2> QED
    BY <2>1, <2>3
<1>13. validateExtendedXmpPreservation(out, "None").error = None
  BY <1>1, <1>2, <1>8, <1>9, <1>10, <1>12, Zenon
<1> QED
  BY <1>2, <1>3, <1>11, <1>12, <1>13, Zenon

\* The comparison refuses what is written only for a dimension stated twice.
LEMMA ComparisonAccepts ==
    ASSUME NEW q, NEW p, NEW out, AreWritten(q, p, out), analyzeOrientation(q).error = None,
           NEW rule, rule = validateReconciledMetadata(q, out, p).error
    PROVE  rule = None \/ (rule = "DerivedDimensions" /\ \E s \in ToSet(q) : Repeats(s))
<1> DEFINE kept == Kept(q, p)
           rules == [i \in DOMAIN kept |-> IF i > Len(out) THEN "PreservedMarkerSequence"
                                           ELSE compareSegment(kept[i], out[i], p)]
           broken == {i \in DOMAIN kept : rules[i] # None}
           orientation == analyzeOrientation(out)
           value == [exif |-> orientation.value.exif # None, xmp |-> orientation.value.xmp # None,
                     removed |-> transformed(p) /\ \E s \in ToSet(q) : LostThumbnail(s)]
<1>1. validateReconciledMetadata(q, out, p) =
         IF broken # {} THEN Failure(rules[Min(broken)])
         ELSE IF Len(out) > Len(kept) THEN Failure("PreservedMarkerSequence")
         ELSE IF orientation.error # None THEN Failure("MetadataPreservation")
         ELSE Success(value)
  BY Zenon DEF validateReconciledMetadata, Kept, KeptPositions
<1> HIDE DEF kept, value, orientation
<1>2. /\ kept \in Seq(ToSet(q)) /\ Len(out) = Len(kept)
      /\ \A k \in DOMAIN kept : Accepted(compareSegment(kept[k], out[k], p), kept[k])
  BY DEF AreWritten, kept
<1>3. DOMAIN kept = 1..Len(kept) /\ Len(kept) \in Nat
  BY <1>2
<1>4. \A k \in DOMAIN kept : rules[k] = compareSegment(kept[k], out[k], p)
  BY <1>2, <1>3
<1>5. orientation.error = None
  BY OrientationWritten DEF orientation
<1>6. CASE broken = {}
  <2>0. ~(Len(out) > Len(kept))
    BY <1>2, <1>3
  <2> HIDE DEF broken
  <2>1. validateReconciledMetadata(q, out, p) = Success(value)
    BY <1>1, <1>5, <1>6, <2>0, Zenon
  <2> QED
    BY <2>1 DEF Success
<1>7. CASE broken # {}
  <2> DEFINE m == Min(broken)
  <2>1. m \in broken
    <3>1. broken \subseteq Nat
      BY <1>3
    <3> HIDE DEF broken
    <3> QED
      BY <1>7, <3>1, SmallestIn
  <2> HIDE DEF m
  <2>2. m \in DOMAIN kept /\ rules[m] # None
    BY <2>1
  <2>3. Accepted(rules[m], kept[m]) /\ kept[m] \in ToSet(q)
    BY <1>2, <1>4, <2>2
  <2> HIDE DEF rules, broken
  <2>4. rule = rules[m]
    BY <1>1, <1>7 DEF Failure, m
  <2> QED
    BY <2>2, <2>3, <2>4 DEF Accepted
<1> QED
  BY <1>6, <1>7

-----------------------------------------------------------------------------
(* No refusal reports a stop *)

\* Nothing that is decided about the metadata does.
LEMMA ReconcilingIsNoStop ==
    ASSUME NEW q, q \in Seq(ToSet(q)), NEW p
    PROVE  /\ \A t : validateExtendedXmpPreservation(q, t).error # "Cancelled"
           /\ \A t : validateSourceAssetBindings(q, t).error # "Cancelled"
           /\ analyzeOrientation(q).error # "Cancelled"
           /\ reconcileMarkerSegments(q, p).error # "Cancelled"
<1> DEFINE Other(x) == x.error # "Cancelled"
<1>1. /\ \A c : c # "Cancelled" => Other(Failure(c))
      /\ \A v : Other(Success(v))
  BY DEF Failure, Success, None
<1> HIDE DEF Other
<1>2. \A t : Other(validateExtendedXmpPreservation(q, t))
  <2>1. /\ Other(Failure("MalformedImageMetadata"))
        /\ Other(Failure("ExtendedXmpMutationNotSupported")) /\ Other(Success({}))
    BY <1>1
  <2> QED
    BY <2>1, Zenon DEF validateExtendedXmpPreservation
<1>3. \A t : Other(validateSourceAssetBindings(q, t))
  <2>1. /\ Other(Failure("ContentCredentialsWouldBeInvalidated"))
        /\ Other(Failure("MotionPhotoNotSupported"))
        /\ Other(Failure("UnsupportedTrailingPayload")) /\ Other(Success({}))
    BY <1>1
  <2> QED
    BY <1>2, <2>1, Zenon DEF validateSourceAssetBindings
<1>4. Other(analyzeOrientation(q))
  <2>1. /\ Other(Failure("MalformedImageMetadata"))
        /\ Other(Failure("InvalidOrientationMetadata")) /\ \A v : Other(Success(v))
    BY <1>1
  <2> QED
    BY <2>1, Zenon DEF analyzeOrientation
<1>5. Other(reconcileMarkerSegments(q, p))
  <2> DEFINE extended == validateExtendedXmpPreservation(q, p.transform)
             written == Writing(q, p)
  <2>1. reconcileMarkerSegments(q, p) =
          IF extended.error # None THEN extended
          ELSE IF written.error # None THEN Failure(written.error)
          ELSE Success([segments |-> written.segments, removed |-> written.removed])
    BY Zenon DEF reconcileMarkerSegments, Writing
  <2>2. written.error \in {None} \cup ReconcileErrors
    <3>1. Len(q) \in Nat /\ DOMAIN q = 1..Len(q)
      OBVIOUS
    <3> QED
      BY <3>1, LoopErrors
  <2>3. written.error # "Cancelled"
    BY <2>2 DEF ReconcileErrors, None
  <2> HIDE DEF written
  <2> QED
    BY <1>1, <1>2, <2>1, <2>3
<1> QED
  BY <1>2, <1>3, <1>4, <1>5 DEF Other

\* Nor does the analysis.
LEMMA AnalysisIsNoStop ==
    ASSUME NEW image, IsImage(image), NEW policy \in Policies, NEW organization
    PROVE  analyze(image, policy, organization).error # "Cancelled"
<1> DEFINE bindings == validateSourceAssetBindings(image.segments, image.trailing)
           orientation == analyzeOrientation(image.segments)
           o == orientation.value.authoritative
           asked == Asked(image, policy, organization)
           planned == createPlan(asked, MaximumPixelCount)
           preflight == reconcileMarkerSegments(image.segments, planned.value)
           findings == findingsOf(orientation.value, planned.value, preflight.value.removed)
           value == [properties |-> sourceProperties(image), orientation |-> o,
                     plan |-> planned.value, findings |-> findings]
           found == analyze(image, policy, organization)
<1>0. /\ image.dims \in Size /\ NativeImcu(image.components) \in Unit
      /\ sourceImcu(image.components) = NativeImcu(image.components)
      /\ MaximumPixelCount \in 0..MaxUint64
  BY GeometryTypes, EngineAssumption
<1>1. asked = [orientation |-> o, dims |-> image.dims, imcu |-> sourceImcu(image.components),
               policy |-> policy, organization |-> organization]
  BY <1>0 DEF Asked
<1>2. found = IF scan(image).error # None THEN scan(image)
              ELSE IF bindings.error # None THEN bindings
              ELSE IF orientation.error # None THEN orientation
              ELSE IF planned.error # None THEN planned
              ELSE IF preflight.error # None THEN preflight
              ELSE Success(value)
  BY <1>1, Zenon DEF analyze
<1>3. scan(image).error # "Cancelled"
  BY DEF IsImage, scan, Failure, Success, None
<1>4. bindings.error # "Cancelled" /\ orientation.error # "Cancelled" /\ preflight.error # "Cancelled"
  BY ReconcilingIsNoStop DEF IsImage
<1>5. orientation.error = None => planned.error # "Cancelled"
  <2> SUFFICES ASSUME orientation.error = None PROVE planned.error # "Cancelled"
    OBVIOUS
  <2>1. o \in Orientation
    BY OrientationDecides
  <2>2. asked.orientation = o /\ asked.dims = image.dims /\ asked.policy = policy
        /\ asked.imcu = NativeImcu(image.components)
    BY DEF Asked
  <2> HIDE DEF asked, o
  <2>3. planned = createPlan(asked, MaximumPixelCount)
    OBVIOUS
  <2> HIDE DEF planned
  <2> QED
    BY <1>0, <2>1, <2>2, <2>3, PlannerDecides DEF None
<1>6. Success(value).error # "Cancelled"
  BY DEF Success, None
<1> HIDE DEF bindings, orientation, planned, preflight, value
<1>7. found.error # "Cancelled"
  BY <1>2, <1>3, <1>4, <1>5, <1>6, Zenon
<1> QED
  BY <1>7

\* Nor the comparison of source and output.
LEMMA ComparisonIsNoStop ==
    ASSUME NEW q, q \in Seq(ToSet(q)), NEW out, NEW p
    PROVE  validateReconciledMetadata(q, out, p).error # "Cancelled"
<1> DEFINE Other(x) == x # "Cancelled"
           kept == Kept(q, p)
           rules == [i \in DOMAIN kept |-> IF i > Len(out) THEN "PreservedMarkerSequence"
                                           ELSE compareSegment(kept[i], out[i], p)]
           broken == {i \in DOMAIN kept : rules[i] # None}
           orientation == analyzeOrientation(out)
           value == [exif |-> orientation.value.exif # None, xmp |-> orientation.value.xmp # None,
                     removed |-> transformed(p) /\ \E s \in ToSet(q) : LostThumbnail(s)]
<1>1. validateReconciledMetadata(q, out, p) =
         IF broken # {} THEN Failure(rules[Min(broken)])
         ELSE IF Len(out) > Len(kept) THEN Failure("PreservedMarkerSequence")
         ELSE IF orientation.error # None THEN Failure("MetadataPreservation")
         ELSE Success(value)
  BY Zenon DEF validateReconciledMetadata, Kept, KeptPositions
<1>2. /\ Other("MetadataPreservation") /\ Other("DerivedDimensions") /\ Other("PreservedMarkerSequence")
      /\ Other("RemovedEmbeddedThumbnails") /\ Other("ExtendedXmpPreservation") /\ Other(None)
      /\ Other("CanonicalExifOrientation") /\ Other("CanonicalStandardXmpOrientation")
  BY DEF None
<1> HIDE DEF Other
<1>3. \A a, b, r : Other(r) => Other(comparePacket(a, b, p, r))
  BY <1>2, Zenon DEF comparePacket
<1>4. \A a, b : Other(compareJfif(a, b)) /\ Other(comparePhotoshopResources(a, b))
  BY <1>2, Zenon DEF compareJfif, comparePhotoshopResources
<1>5. ASSUME NEW a, NEW b PROVE Other(compareSegment(a, b, p))
  <2>1. CASE a.kind # b.kind
    BY <1>2, <2>1 DEF compareSegment
  <2>2. CASE a.kind = b.kind /\ a.kind = "exif"
    BY <1>2, <1>3, <2>2 DEF compareSegment
  <2>3. CASE a.kind = b.kind /\ a.kind = "xmp"
    BY <1>2, <1>3, <2>3 DEF compareSegment
  <2>4. CASE a.kind = b.kind /\ a.kind = "jfif" /\ transformed(p)
    BY <1>4, <2>4 DEF compareSegment
  <2>5. CASE a.kind = b.kind /\ a.kind = "photoshop" /\ transformed(p)
    BY <1>4, <2>5 DEF compareSegment
  <2>6. CASE /\ a.kind = b.kind /\ a.kind \notin {"exif", "xmp"}
             /\ ~(a.kind \in {"jfif", "photoshop"} /\ transformed(p))
    BY <1>2, <2>6 DEF compareSegment
  <2> QED
    BY <2>1, <2>2, <2>3, <2>4, <2>5, <2>6
<1> HIDE DEF kept, value, orientation
<1>6. kept \in Seq(ToSet(q))
  <2> DEFINE I == KeptPositions(q, p)
  <2>1. I \in SUBSET DOMAIN q
    BY DEF KeptPositions
  <2> HIDE DEF I
  <2> QED
    BY <2>1, ChosenElements DEF kept, Kept, I
<1>7. \A i \in DOMAIN kept : Other(rules[i])
  BY <1>2, <1>5
<1>8. broken # {} => Other(rules[Min(broken)])
  <2>1. broken \subseteq Nat /\ broken \subseteq DOMAIN kept
    BY <1>6
  <2> HIDE DEF broken, rules
  <2> QED
    BY <1>7, <2>1, SmallestIn
<1>9. \A c : Other(c) => Other(Failure(c).error)
  BY DEF Failure
<1>10. Other(Success(value).error)
  BY <1>2 DEF Success
<1> HIDE DEF broken, rules
<1>11. Other(validateReconciledMetadata(q, out, p).error)
  BY <1>1, <1>2, <1>8, <1>9, <1>10, Zenon
<1> QED
  BY <1>11 DEF Other

-----------------------------------------------------------------------------
(* What is left to refuse, once the review has accepted *)

\* The work on what was reviewed: nothing failed, and the analysis saw it.
Working == AnalysisInv /\ WorkInv /\ pc # "Review" /\ ~misbehaved

\* The second analysis sees what the first did.
LEMMA SecondAnalysis ==
    ASSUME Working, approved.error = None, source = reviewed
    PROVE  analyze(source, plan.policy, plan.organization) = approved
<1>1. IsImage(reviewed) /\ request.policy \in Policies
  BY EngineAssumption DEF Working, AnalysisInv, world
<1>2. approved = analyze(reviewed, request.policy, request.organization)
  BY DEF Working, AnalysisInv
<1>3. IsAccepted(reviewed, request.policy, request.organization, approved.value)
  BY <1>1, <1>2, AnalysisSucceeds
<1>4. plan.policy = request.policy /\ plan.organization = request.organization
  BY <1>1, <1>3, PlanSays DEF plan
<1> QED
  BY <1>2, <1>4

\* The preparation refuses only restart intervals that change.
LEMMA PreparationAccepts ==
    ASSUME Working, Past(AfterReconcile), ~stop
    PROVE  \/ PrepareRefusal = None
           \/ /\ PrepareRefusal = "UnsupportedJpegRestartIntervalChanges"
              /\ source.restart = "changes"
<1>1. /\ IsAccepted(source, request.policy, request.organization, approved.value)
      /\ IsImage(source) /\ plan.policy = request.policy
  BY SourceAccepted, SourceIsImage DEF Working, Past, AfterBegin
<1>2. source.dims = plan.source
  BY <1>1, PlanSays DEF plan
<1>3. ~(fileLength(source) > MaximumFileLength)
  BY <1>1 DEF IsAccepted, scan, Failure, None
<1>4. approved.error = None
  BY DEF Working, WorkInv, Past, AfterBegin
<1>5. PlanIsBest
  BY AnalysisHolds DEF Working
<1>6. willDiscardEdgePixels(plan) => request.policy = "TrimPartialMinimumCodedUnits"
  BY <1>4, <1>5, Zenon DEF PlanIsBest
<1>7. ~(plan.policy = "RequirePerfectCoefficientTransform" /\ willDiscardEdgePixels(plan))
  BY <1>1, <1>6
<1> QED
  BY <1>2, <1>3, <1>7, Zenon DEF PrepareRefusal

\* What the codec wrote is what was planned, and what the scanner says of it.
LEMMA CodecAccepted ==
    ASSUME Working, Past(AfterReconcile), codec[1] \in NativeOutput, ~Overlong(codec[1])
    PROVE  /\ codec[1].dims = plan.output /\ codec[1].unsound = None
           /\ scan(codec[1]).error \in {None, "MetadataLengthLimitExceeded"}
<1> DEFINE o == OrientationOf(source)
           edges == EdgesOf(source)
           imcu == NativeImcu(source.components)
           kept == KeptSides(edges, source.dims, imcu)
           op == OperationFor(o)
           out == codec[1]
<1>1. /\ IsAccepted(source, request.policy, request.organization, approved.value)
      /\ IsImage(source) /\ DOMAIN source = ImageFields
  BY SourceAccepted, SourceIsImage DEF Working, Past, AfterBegin
<1>2. /\ o \in Orientation /\ plan.transform = losslessTransformFor(o)
      /\ plan.output = IF swapsAxes(plan.transform) THEN Swapped(kept) ELSE kept
  BY <1>1, PlanSays DEF plan
<1>3. /\ out.dims = NativeDimensions(op, source.dims, imcu)
      /\ out.unsound = source.unsound
  <2>1. op = NativeOperation(plan.transform)
    BY <1>2 DEF OperationFor
  <2> HIDE DEF op, imcu, o
  <2> QED
    BY <1>1, <2>1, CodecWrites DEF imcu
<1>4. /\ source.dims \in Size /\ imcu \in Unit
      /\ edges = affectedSourceEdgesFor(losslessTransformFor(o))
      /\ edges.right => source.dims.w >= imcu.w
      /\ edges.bottom => source.dims.h >= imcu.h
  BY <1>1, GeometryTypes DEF IsAccepted, EdgesOf, OrientationOf
<1>5. source.unsound = None
  BY <1>1 DEF IsAccepted, scan, Failure, None
<1> HIDE DEF o, edges, imcu, kept, op, out
<1>6. out.dims = plan.output
  <2>1. NativeDimensions(op, source.dims, imcu) = IF Transposes(op) THEN Swapped(kept) ELSE kept
    BY <1>2, <1>4, CodecKeeps DEF op, kept
  <2>2. swapsAxes(plan.transform) <=> Transposes(op)
    BY <1>2, AxesAgree DEF op
  <2> QED
    BY <1>2, <1>3, <2>1, <2>2
<1>7. scan(out).error \in {None, "MetadataLengthLimitExceeded"}
  BY <1>3, <1>5 DEF scan, Failure, Success, Overlong, out
<1> QED
  BY <1>3, <1>5, <1>6, <1>7 DEF out

\* The metadata are written for those of the source.
LEMMA MetadataWritten ==
    ASSUME Working, Past(AfterReconcile)
    PROVE  /\ AreWritten(source.segments, plan, metadata)
           /\ ~(TotalSize(metadata) > MaximumMetadataLength)
<1> DEFINE S == source.segments
           kept == Kept(S, plan)
           sides == KeptSides(EdgesOf(source), source.dims, NativeImcu(source.components))
<1>1. /\ IsAccepted(source, request.policy, request.organization, approved.value)
      /\ IsImage(source)
  BY SourceAccepted, SourceIsImage DEF Working, Past, AfterBegin
<1>2. plan.output.w \in Nat /\ plan.output.h \in Nat
  <2>1. /\ plan.output = IF swapsAxes(plan.transform) THEN Swapped(sides) ELSE sides
        /\ sides.w \in 1..source.dims.w /\ sides.h \in 1..source.dims.h
    BY <1>1, PlanSays DEF plan
  <2> HIDE DEF sides
  <2> QED
    BY <2>1 DEF Swapped
<1>3. Writing(S, plan).error = None /\ metadata = Writing(S, plan).segments
  BY MarkersWritten DEF Working, WorkInv, MetadataFact
<1>4. S \in Seq(ToSet(S)) /\ \A s \in ToSet(S) : IsSegment(s)
  BY <1>1 DEF IsImage
<1>5. AllAdmissible(metadata)
  BY SegmentsUnderstood DEF Working
<1>6. metadata \in Seq(ToSet(metadata)) /\ \A s \in ToSet(metadata) : IsSegment(s)
  BY <1>5 DEF AllAdmissible, Admissible
<1> HIDE DEF S
<1>7. /\ Len(metadata) = Len(kept) /\ ~(TotalSize(metadata) > MaximumMetadataLength)
      /\ kept \in Seq(ToSet(S))
      /\ \A k \in DOMAIN kept : /\ reconcileSegment(kept[k], plan).error = None
                                /\ reconcileSegment(kept[k], plan).value.segment = <<metadata[k]>>
                                /\ ~(transformed(plan) /\ kept[k].kind = "jfxx")
  BY <1>2, <1>3, <1>4, LoopKeeps
<1> HIDE DEF kept
<1>8. ASSUME NEW k \in DOMAIN kept
      PROVE  /\ Written(kept[k], metadata[k])
             /\ Accepted(compareSegment(kept[k], metadata[k], plan), kept[k])
  <2> DEFINE a == kept[k]
             b == metadata[k]
  <2>1. IsSegment(a)
    BY <1>4, <1>7
  <2>2. /\ reconcileSegment(a, plan).error = None
        /\ reconcileSegment(a, plan).value.segment = <<b>>
        /\ ~(transformed(plan) /\ a.kind = "jfxx")
    BY <1>7
  <2>3. plan.output.w \in Int /\ plan.output.h \in Int
    BY <1>2
  <2> HIDE DEF a, b
  <2> QED
    BY <2>1, <2>2, <2>3, SegmentAccepted DEF a, b
<1> QED
  BY <1>4, <1>6, <1>7, <1>8 DEF AreWritten, kept, S

\* What is spliced out of both is refused only for a dimension stated twice.
LEMMA SpliceAccepted ==
    ASSUME Working, Past(AfterSplice), source.restart # "changes",
           ~(fileLength(Spliced) > MaximumFileLength)
    PROVE  /\ StructureRule = None
           /\ \/ MetadataRule = None
              \/ /\ MetadataRule = "DerivedDimensions"
                 /\ \E s \in ToSet(source.segments) : Repeats(s)
           /\ output.decodes = source.decodes /\ output.tables = expectedTables
<1> DEFINE out == codec[1]
           S == source.segments
<1>0. Past(AfterReconcile) /\ Past(AfterReturned)
  BY DEF Past, AfterReconcile, AfterReturned
<1>1. out \in NativeOutput /\ ~Overlong(out) /\ output = Spliced
  BY <1>0 DEF Working, WorkInv, CodedFact, SplicedFact
<1>2. /\ IsAccepted(source, request.policy, request.organization, approved.value)
      /\ IsImage(source) /\ DOMAIN source = ImageFields
  BY <1>0, SourceAccepted, SourceIsImage DEF Working, Past, AfterBegin
<1>3. AreWritten(S, plan, metadata) /\ ~(TotalSize(metadata) > MaximumMetadataLength)
  BY <1>0, MetadataWritten
<1>4. out.dims = plan.output /\ out.unsound = None
  BY <1>0, <1>1, CodecAccepted
<1>5. /\ DOMAIN out = ImageFields
      /\ \/ out.components = expectedComponents
         \/ plan.transform = "None" /\ out.components = source.components
      /\ out.tables = expectedTables /\ out.progressive = ProgressiveOutput
      /\ out.trailing = FALSE /\ out.restart = source.restart /\ out.precision = source.precision
      /\ out.arithmetic = source.arithmetic /\ out.decodes = source.decodes
  BY <1>1, <1>2, CodecWrites
<1> HIDE DEF out
<1>6. Spliced = [out EXCEPT !.segments = metadata]
  BY DEF Spliced, out
<1>7. /\ output.dims = plan.output /\ output.unsound = None /\ output.segments = metadata
      /\ \/ output.components = expectedComponents
         \/ plan.transform = "None" /\ output.components = source.components
      /\ output.tables = expectedTables /\ output.progressive = ProgressiveOutput
      /\ output.trailing = FALSE /\ output.restart = source.restart
      /\ output.precision = source.precision
      /\ output.arithmetic = source.arithmetic /\ output.decodes = source.decodes
  BY <1>1, <1>4, <1>5, <1>6 DEF ImageFields
<1>8. scan(output).error = None
  <2>1. ~(fileLength(output) > MaximumFileLength)
    BY <1>1
  <2> QED
    BY <1>3, <1>7, <2>1 DEF scan, Success
<1>9. \/ output.components = expectedComponents
      \/ /\ Len(source.components) = 1 /\ plan.transform = "None"
         /\ output.components = source.components
  <2>1. CASE plan.transform = "None" /\ Len(source.components) # 1
    <3>1. ~swapsAxes(plan.transform)
      BY <2>1 DEF swapsAxes
    <3>2. expectedComponents = source.components
      BY <2>1, <3>1 DEF expectedComponents
    <3> QED
      BY <1>7, <3>2
  <2> QED
    BY <1>7, <2>1
<1>10. StructureRule = None
  <2>1. None \notin {"MultiPictureJpegNotSupported", "ContentCredentialsWouldBeInvalidated",
                     "UnsupportedJumbfMetadata"}
    BY DEF None
  <2>2. "changes" \notin {source.restart, output.restart} /\ source.restart = output.restart
    BY <1>7
  <2> QED
    BY <1>7, <1>8, <1>9, <2>1, <2>2, Zenon DEF StructureRule
<1> DEFINE evidence == validateReconciledMetadata(S, metadata, plan)
<1>11. /\ analyzeOrientation(S).error = None
       /\ validateSourceAssetBindings(S, source.trailing).error = None
  BY <1>2 DEF IsAccepted
<1>12. validateSourceAssetBindings(metadata, FALSE).error = None
  BY <1>3, <1>11, BindingsWritten
<1>13. \/ evidence.error = None
       \/ evidence.error = "DerivedDimensions" /\ \E s \in ToSet(S) : Repeats(s)
  <2> HIDE DEF S
  <2> QED
    BY <1>3, <1>11, ComparisonAccepts
<1>14. MetadataRule = evidence.error
  BY <1>7, <1>12, Zenon DEF MetadataRule
<1> QED
  BY <1>7, <1>10, <1>13, <1>14

-----------------------------------------------------------------------------
(* Every refusal is explained *)

\* When the codec is entered, and what a stop then says.
TimingInv ==
    /\ pc \in {"Review", "Begin", "Reconcile", "Prepare", "Call"} =>
           called = FALSE /\ executionState = "NotStarted"
    /\ pc = "Returned" \/ pc \in AfterReturned => called = TRUE
    /\ pc \in AfterReturned => executionState = "Started"
    /\ pc = "Done" /\ result.error = "Cancelled" =>
           result.execution = IF called THEN "Started" ELSE "NotStarted"

\* What has not been refused so far, unless something native failed.
Premise == approved.error = None /\ source = reviewed /\ ~stop /\ ~misbehaved
ReasonInv ==
    /\ ~misbehaved =>
         /\ pc \in {"Call", "Returned"} \cup AfterReturned => source.restart # "changes"
         /\ pc = "Returned" /\ codec = <<>> => \E image \in NativeOutput : Overlong(image)
         /\ pc \in AfterSplice => ~(fileLength(Spliced) > MaximumFileLength)
    /\ pc = "Done" /\ Premise => Published \/ RefusedLate

\* A refusal that does not report a stop ends the timing.
LEMMA TimingEnds ==
    ASSUME pc' = "Done", result'.error # "Cancelled" PROVE TimingInv'
  BY DEF TimingInv, AfterReturned, AfterSplice, AfterValidate

\* A stop before the codec is entered, and one after.
LEMMA TimingStops ==
    ASSUME TimingInv, UNCHANGED called, pc' = "Done",
           \/ /\ pc \in {"Begin", "Reconcile", "Prepare", "Call"}
              /\ result'.execution = "NotStarted"
           \/ /\ pc = "Returned" \/ pc \in AfterReturned
              /\ result'.execution = "Started"
    PROVE  TimingInv'
  BY DEF TimingInv, AfterReturned, AfterSplice, AfterValidate

\* The review, and createValidatedOutput up to the call, keep the timing.
LEMMA TimingBefore ==
    ASSUME AnalysisInv, WorkInv, TimingInv, Review \/ Begin \/ Reconcile \/ Prepare
    PROVE  TimingInv'
<1> USE DEF AfterReturned, AfterSplice, AfterValidate
<1>0. /\ IsImage(source) /\ IsImage(reviewed) /\ request.policy \in Policies
      /\ source.segments \in Seq(ToSet(source.segments))
  BY SourceIsImage, EngineAssumption DEF AnalysisInv, world, IsImage
<1>1. CASE Review
  <2>1. UNCHANGED <<called, executionState>> /\ pc = "Review"
    BY <1>1 DEF Review, RunsTo, Return, engine
  <2>2. \/ pc' = "Begin"
        \/ /\ pc' = "Done"
           /\ result'.error = analyze(reviewed, request.policy, request.organization).error
    BY <1>1 DEF Review, RunsTo, Return
  <2>3. analyze(reviewed, request.policy, request.organization).error # "Cancelled"
    BY <1>0, AnalysisIsNoStop
  <2>4. CASE pc' = "Begin"
    BY <2>1, <2>4 DEF TimingInv
  <2> QED
    BY <2>2, <2>3, <2>4, TimingEnds
<1>2. CASE Begin
  <2> DEFINE observed == analyze(source, plan.policy, plan.organization)
  <2>1. UNCHANGED called /\ pc = "Begin" /\ executionState = "NotStarted"
    BY <1>2 DEF Begin, engine, TimingInv
  <2>2. \/ pc' = "Reconcile" /\ UNCHANGED executionState
        \/ pc' = "Done" /\ result'.error = "Cancelled" /\ result'.execution = executionState
        \/ pc' = "Done" /\ result'.error \in {observed.error, "SourceChangedAfterAnalysis"}
    BY <1>2 DEF Begin, RunsTo, Return, cancelled
  <2>3. observed.error # "Cancelled"
    <3>1. IsAccepted(reviewed, request.policy, request.organization, approved.value)
      <4>1. approved.error = None /\ approved = analyze(reviewed, request.policy, request.organization)
        BY <2>1 DEF AnalysisInv, WorkInv, Past
      <4> QED
        BY <1>0, <4>1, AnalysisSucceeds
    <3>2. plan.policy = request.policy
      BY <1>0, <3>1, PlanSays DEF plan
    <3> QED
      BY <1>0, <3>2, AnalysisIsNoStop
  <2> HIDE DEF observed
  <2>4. CASE pc' = "Reconcile" /\ UNCHANGED executionState
    BY <2>1, <2>4 DEF TimingInv
  <2> QED
    BY <2>1, <2>2, <2>3, <2>4, TimingEnds, TimingStops
<1>3. CASE Reconcile
  <2> DEFINE written == reconcileMarkerSegments(source.segments, plan)
  <2>1. UNCHANGED called /\ pc = "Reconcile" /\ executionState = "NotStarted"
    BY <1>3 DEF Reconcile, TimingInv
  <2>2. \/ pc' = "Prepare" /\ UNCHANGED executionState
        \/ pc' = "Done" /\ result'.error = "Cancelled" /\ result'.execution = executionState
        \/ pc' = "Done" /\ result'.error = written.error
    BY <1>3 DEF Reconcile, RunsTo, Return, cancelled
  <2>3. written.error # "Cancelled"
    BY <1>0, ReconcilingIsNoStop
  <2> HIDE DEF written
  <2>4. CASE pc' = "Prepare" /\ UNCHANGED executionState
    BY <2>1, <2>4 DEF TimingInv
  <2> QED
    BY <2>1, <2>2, <2>3, <2>4, TimingEnds, TimingStops
<1>4. CASE Prepare
  <2>1. UNCHANGED called /\ pc = "Prepare" /\ executionState = "NotStarted"
    BY <1>4 DEF Prepare, engine, TimingInv
  <2>2. \/ pc' = "Call" /\ UNCHANGED executionState
        \/ /\ pc' = "Done" /\ result'.error = PrepareRefusal
           /\ PrepareRefusal = "Cancelled" => result'.execution = "NotStarted"
    BY <1>4 DEF Prepare, RunsTo, Return
  <2>3. CASE pc' = "Call" /\ UNCHANGED executionState
    BY <2>1, <2>3 DEF TimingInv
  <2> QED
    BY <2>1, <2>2, <2>3, TimingEnds, TimingStops
<1> QED
  BY <1>1, <1>2, <1>3, <1>4

\* So do the codec, the splice and the validator.
LEMMA TimingAfter ==
    ASSUME AnalysisInv, WorkInv, TimingInv,
           Call \/ Returned \/ Splice \/ Validate \/ DecodeSource \/ DecodeOutput \/ Publish
    PROVE  TimingInv'
<1> USE DEF AfterReturned, AfterSplice, AfterValidate
<1>0. source.segments \in Seq(ToSet(source.segments))
  BY SourceIsImage DEF IsImage
<1>1. CASE Call
  <2>1. pc = "Call" /\ executionState = "NotStarted"
    BY <1>1 DEF Call, TimingInv
  <2>2. \/ /\ pc' = "Done" /\ result'.error = "Cancelled" /\ result'.execution = executionState
           /\ UNCHANGED called
        \/ pc' = "Returned" /\ called' = TRUE
    BY <1>1 DEF Call, RunsTo, Return, cancelled
  <2>3. CASE pc' = "Returned" /\ called' = TRUE
    BY <2>3 DEF TimingInv
  <2> QED
    BY <2>1, <2>2, <2>3, TimingStops
<1>2. CASE Returned
  <2>1. UNCHANGED called /\ pc = "Returned" /\ called = TRUE
    BY <1>2 DEF Returned, engine, TimingInv
  <2>2. \/ pc' = "Done" /\ result'.error = "Cancelled" /\ result'.execution = "Started"
        \/ pc' = "Done" /\ result'.error # "Cancelled"
        \/ pc' = "Splice" /\ executionState' = "Started"
    BY <1>2 DEF Returned, RunsTo, Return
  <2>3. CASE pc' = "Splice" /\ executionState' = "Started"
    BY <2>1, <2>3 DEF TimingInv
  <2> QED
    BY <2>1, <2>2, <2>3, TimingEnds, TimingStops
<1>3. CASE Splice \/ Validate \/ DecodeSource \/ DecodeOutput \/ Publish
  <2>1. UNCHANGED called /\ pc \in AfterReturned /\ called = TRUE /\ executionState = "Started"
    BY <1>3 DEF Splice, Validate, DecodeSource, DecodeOutput, Decode, Publish, engine, TimingInv
  <2>2. StructureRule # "Cancelled" /\ MetadataRule # "Cancelled"
    <3>1. StructureRule # "Cancelled"
      <4>1. /\ "NoUnsupportedAssetBindings" # "Cancelled" /\ "CompleteJpegStructure" # "Cancelled"
            /\ "PlannedDimensions" # "Cancelled" /\ "SamplePrecision" # "Cancelled"
            /\ "ComponentOrganization" # "Cancelled" /\ "ScanOrganization" # "Cancelled"
            /\ "EntropyCodingMode" # "Cancelled" /\ "RestartIntervalPreservation" # "Cancelled"
            /\ None # "Cancelled"
        BY DEF None
      <4> QED
        BY <4>1, Zenon DEF StructureRule
    <3>2. MetadataRule # "Cancelled"
      <4>1. "NoUnsupportedAssetBindings" # "Cancelled" /\ None # "Cancelled"
        BY DEF None
      <4>2. validateReconciledMetadata(source.segments, output.segments, plan).error # "Cancelled"
        BY <1>0, ComparisonIsNoStop
      <4> QED
        BY <4>1, <4>2, Zenon DEF MetadataRule
    <3> QED
      BY <3>1, <3>2
  <2>3. \/ pc' = "Done" /\ result'.error = "Cancelled" /\ result'.execution = executionState
        \/ pc' = "Done" /\ result'.error # "Cancelled"
        \/ pc' \in AfterReturned /\ UNCHANGED executionState
    <3>1. CASE Splice
      BY <3>1 DEF Splice, RunsTo, Return, cancelled
    <3>2. CASE Validate
      BY <2>2, <3>2 DEF Validate, RunsTo, Return, cancelled
    <3>3. CASE DecodeSource
      BY <3>3 DEF DecodeSource, Decode, RunsTo, Return, cancelled
    <3>4. CASE DecodeOutput
      BY <3>4 DEF DecodeOutput, Decode, RunsTo, Return, cancelled
    <3>5. CASE Publish
      BY <3>5 DEF Publish, RunsTo, Return, cancelled, None
    <3> QED
      BY <1>3, <3>1, <3>2, <3>3, <3>4, <3>5
  <2>4. CASE pc' \in AfterReturned /\ UNCHANGED executionState
    BY <2>1, <2>4 DEF TimingInv
  <2> QED
    BY <2>1, <2>3, <2>4, TimingEnds, TimingStops
<1> QED
  BY <1>1, <1>2, <1>3

\* Every step keeps the timing.
LEMMA TimingStep == AnalysisInv /\ WorkInv /\ TimingInv /\ [Next]_vars => TimingInv'
<1> SUFFICES ASSUME AnalysisInv, WorkInv, TimingInv, [Next]_vars PROVE TimingInv'
  OBVIOUS
<1>1. CASE ChangeSource \/ RequestStop \/ Done \/ UNCHANGED vars
  <2>1. UNCHANGED <<pc, executionState, called, result>>
    BY <1>1 DEF ChangeSource, RequestStop, Done, vars, engine
  <2> QED
    BY <2>1 DEF TimingInv
<1>2. CASE DigestFails \/ AllocationFails
  <2>1. pc' = "Done" /\ result'.error # "Cancelled"
    BY <1>2 DEF DigestFails, AllocationFails, Return
  <2> QED
    BY <2>1, TimingEnds
<1> QED
  BY <1>1, <1>2, TimingBefore, TimingAfter DEF Next, Execution

\* The refusals the review does not foresee, by their code.
RefusedAs(code) ==
    \/ code = "UnsupportedJpegRestartIntervalChanges" /\ source.restart = "changes"
    \/ code = "EncodedFileTooLarge" /\ fileLength(Spliced) > MaximumFileLength
    \/ /\ code = "CoefficientTransformationFailed"
       /\ \E image \in NativeOutput : Overlong(image)
    \/ /\ code = "OutputValidationFailed"
       /\ scan(codec[1]).error = "MetadataLengthLimitExceeded"
    \/ code = "FullDecode" /\ ~source.decodes
    \/ code = "DerivedDimensions" /\ \E s \in ToSet(source.segments) : Repeats(s)

\* A refusal ends the work for a reason.
LEMMA ReasonEnds ==
    ASSUME pc' = "Done", UNCHANGED <<source, metadata, codec>>,
           Premise' => /\ UNCHANGED approved
                       /\ result'.error = None \/ RefusedAs(result'.error)
    PROVE  ReasonInv'
<1>1. Spliced' = Spliced
  BY DEF Spliced
<1>2. UNCHANGED approved /\ RefusedAs(result'.error) => RefusedLate'
  <2>1. UNCHANGED approved =>
            /\ UNCHANGED NativeOutput /\ \A image : Overlong(image)' = Overlong(image)
    BY NativeStays
  <2> QED
    BY <1>1, <2>1 DEF RefusedAs, RefusedLate
<1> QED
  BY <1>2 DEF ReasonInv, Published, AfterReturned, AfterSplice, AfterValidate

\* The review, and createValidatedOutput up to the call, refuse for a reason.
LEMMA ReasonBefore ==
    ASSUME AnalysisInv, WorkInv, ReasonInv, Review \/ Begin \/ Reconcile \/ Prepare
    PROVE  ReasonInv'
<1> USE DEF AfterReturned, AfterSplice, AfterValidate
<1>1. CASE Review
  <2>1. \/ pc' = "Begin"
        \/ pc' = "Done" /\ approved'.error # None /\ UNCHANGED <<source, metadata, codec>>
    BY <1>1 DEF Review, RunsTo, Return, engine
  <2>2. CASE pc' = "Begin"
    BY <2>2 DEF ReasonInv
  <2>3. CASE pc' = "Done" /\ approved'.error # None /\ UNCHANGED <<source, metadata, codec>>
    BY <2>3, ReasonEnds DEF Premise
  <2> QED
    BY <2>1, <2>2, <2>3
<1>2. CASE Begin
  <2> DEFINE observed == analyze(source, plan.policy, plan.organization)
  <2>1. /\ UNCHANGED <<reviewed, source, approved, stop, misbehaved, metadata, codec>>
        /\ pc = "Begin"
    BY <1>2 DEF Begin, still, engine
  <2>2. \/ pc' = "Reconcile"
        \/ pc' = "Done" /\ (stop \/ observed.error # None \/ observed.value # approved.value)
    BY <1>2 DEF Begin, RunsTo, Return, cancelled
  <2>3. Premise' => ~stop /\ observed = approved /\ approved.error = None
    BY <2>1, SecondAnalysis DEF Premise, Working
  <2> HIDE DEF observed
  <2>4. CASE pc' = "Reconcile"
    BY <2>4 DEF ReasonInv
  <2> QED
    BY <2>1, <2>2, <2>3, <2>4, ReasonEnds
<1>3. CASE Reconcile
  <2>1. /\ UNCHANGED <<reviewed, source, approved, stop, misbehaved, codec>> /\ pc = "Reconcile"
    BY <1>3 DEF Reconcile, still
  <2>2. reconcileMarkerSegments(source.segments, plan).error = None
    BY <2>1, SourceAccepted DEF IsAccepted, plan, Past, AfterBegin
  <2>3. \/ pc' = "Prepare"
        \/ pc' = "Done" /\ stop
    BY <1>3, <2>2 DEF Reconcile, RunsTo, Return, cancelled
  <2>4. CASE pc' = "Prepare"
    BY <2>4 DEF ReasonInv
  <2>5. CASE pc' = "Done" /\ stop
    BY <2>1, <2>5 DEF ReasonInv, Premise
  <2> QED
    BY <2>3, <2>4, <2>5
<1>4. CASE Prepare
  <2>1. /\ UNCHANGED <<reviewed, source, approved, stop, misbehaved, metadata, codec>>
        /\ pc = "Prepare"
    BY <1>4 DEF Prepare, still, engine
  <2>2. \/ pc' = "Call" /\ PrepareRefusal = None
        \/ pc' = "Done" /\ result'.error = PrepareRefusal /\ PrepareRefusal # None
    BY <1>4 DEF Prepare, RunsTo, Return
  <2>3. Premise' => \/ PrepareRefusal = None
                    \/ RefusedAs(PrepareRefusal)
    <3>1. pc # "Review" /\ Past(AfterReconcile)
      BY <2>1 DEF Past, AfterReconcile
    <3> QED
      BY <2>1, <3>1, PreparationAccepts DEF Premise, Working, RefusedAs
  <2>4. CASE pc' = "Call" /\ PrepareRefusal = None
    <3>1. source.restart # "changes"
      BY <2>4 DEF PrepareRefusal, None
    <3> QED
      BY <2>1, <2>4, <3>1 DEF ReasonInv
  <2> QED
    BY <2>1, <2>2, <2>3, <2>4, ReasonEnds
<1> QED
  BY <1>1, <1>2, <1>3, <1>4

\* So do the codec and the splice.
LEMMA ReasonCodes ==
    ASSUME AnalysisInv, WorkInv, ReasonInv, Call \/ Returned \/ Splice
    PROVE  ReasonInv'
<1> USE DEF AfterReturned, AfterSplice, AfterValidate
<1>1. CASE Call
  <2>1. UNCHANGED <<source, approved, stop>> /\ pc = "Call"
    BY <1>1 DEF Call, still
  <2>2. \/ pc' = "Done" /\ stop
        \/ /\ pc' = "Returned"
           /\ \/ /\ codec' = <<>> => \E image \in NativeOutput : Overlong(image)
                 /\ UNCHANGED misbehaved
              \/ misbehaved' = TRUE
    BY <1>1 DEF Call, RunsTo, Return, cancelled
  <2>3. CASE pc' = "Done" /\ stop
    BY <2>1, <2>3 DEF ReasonInv, Premise
  <2>4. CASE pc' = "Returned"
    <3>1. UNCHANGED NativeOutput /\ \A image : Overlong(image)' = Overlong(image)
      BY <2>1, NativeStays
    <3> QED
      BY <2>1, <2>2, <2>4, <3>1 DEF ReasonInv
  <2> QED
    BY <2>2, <2>3, <2>4
<1>2. CASE Returned
  <2>1. /\ UNCHANGED <<reviewed, source, approved, stop, misbehaved, metadata, codec>>
        /\ pc = "Returned"
    BY <1>2 DEF Returned, still, engine
  <2>2. \/ pc' = "Done" /\ stop
        \/ pc' = "Done" /\ codec = <<>> /\ result'.error = "CoefficientTransformationFailed"
        \/ /\ pc' = "Done" /\ codec # <<>> /\ result'.error = "OutputValidationFailed"
           /\ scan(codec[1]).error # None \/ codec[1].dims # plan.output
        \/ pc' = "Splice"
    BY <1>2 DEF Returned, RunsTo, Return
  <2>3. ASSUME ~misbehaved, codec # <<>>
        PROVE  /\ codec[1].dims = plan.output
               /\ scan(codec[1]).error \in {None, "MetadataLengthLimitExceeded"}
    <3>1. codec[1] \in NativeOutput /\ ~Overlong(codec[1])
      BY <2>1, <2>3 DEF WorkInv, CodedFact
    <3>2. pc # "Review" /\ Past(AfterReconcile)
      BY <2>1 DEF Past, AfterReconcile
    <3> QED
      BY <2>3, <3>1, <3>2, CodecAccepted DEF Working
  <2>4. Premise' => /\ ~stop /\ ~misbehaved
                    /\ codec = <<>> => \E image \in NativeOutput : Overlong(image)
    BY <2>1 DEF Premise, ReasonInv
  <2>5. CASE pc' = "Splice"
    BY <2>1, <2>5 DEF ReasonInv
  <2>6. CASE pc' = "Done"
    <3>1. Premise' => RefusedAs(result'.error)
      BY <2>2, <2>3, <2>4, <2>6 DEF RefusedAs
    <3> QED
      BY <2>1, <2>6, <3>1, ReasonEnds
  <2> QED
    BY <2>2, <2>5, <2>6
<1>3. CASE Splice
  <2>1. UNCHANGED <<reviewed, source, approved, stop, metadata, codec>> /\ pc = "Splice"
    BY <1>3 DEF Splice, still
  <2>2. \/ pc' = "Done" /\ stop
        \/ /\ pc' = "Done" /\ result'.error = "EncodedFileTooLarge"
           /\ fileLength(Spliced) > MaximumFileLength
        \/ /\ pc' = "Validate" /\ ~(fileLength(Spliced) > MaximumFileLength)
           /\ UNCHANGED misbehaved \/ misbehaved' = TRUE
    BY <1>3 DEF Splice, RunsTo, Return, cancelled
  <2>3. CASE pc' = "Validate"
    <3>1. Spliced' = Spliced
      BY <2>1 DEF Spliced
    <3> QED
      BY <2>1, <2>2, <2>3, <3>1 DEF ReasonInv
  <2>4. CASE pc' = "Done"
    <3>1. Premise' => RefusedAs(result'.error)
      BY <2>1, <2>2, <2>4 DEF Premise, RefusedAs
    <3> QED
      BY <2>1, <2>4, <3>1, ReasonEnds
  <2> QED
    BY <2>2, <2>3, <2>4
<1> QED
  BY <1>1, <1>2, <1>3

\* And the validator.
LEMMA ReasonValidates ==
    ASSUME AnalysisInv, WorkInv, ReasonInv, Validate \/ DecodeSource \/ DecodeOutput \/ Publish
    PROVE  ReasonInv'
<1> USE DEF AfterReturned, AfterSplice, AfterValidate
<1>1. /\ UNCHANGED <<reviewed, source, approved, stop, misbehaved, metadata, codec>>
      /\ pc \in AfterSplice
  BY DEF Validate, DecodeSource, DecodeOutput, Decode, Publish, still, engine
<1>2. ASSUME ~misbehaved
      PROVE  /\ StructureRule = None
             /\ \/ MetadataRule = None
                \/ /\ MetadataRule = "DerivedDimensions"
                   /\ \E s \in ToSet(source.segments) : Repeats(s)
             /\ output.decodes = source.decodes /\ output.tables = expectedTables
  <2>1. source.restart # "changes" /\ ~(fileLength(Spliced) > MaximumFileLength)
    BY <1>1, <1>2 DEF ReasonInv
  <2>2. pc # "Review" /\ Past(AfterSplice)
    BY <1>1 DEF Past
  <2> QED
    BY <1>2, <2>1, <2>2, SpliceAccepted DEF Working
<1>3. \/ pc' \in AfterSplice
      \/ pc' = "Done" /\ stop
      \/ pc' = "Done" /\ StructureRule # None
      \/ pc' = "Done" /\ MetadataRule # None /\ result'.error = MetadataRule
      \/ pc' = "Done" /\ ~source.decodes /\ result'.error = "FullDecode"
      \/ pc' = "Done" /\ ~output.decodes /\ result'.error = "FullDecode"
      \/ pc' = "Done" /\ output.tables # expectedTables
      \/ pc' = "Done" /\ result'.error = None
  <2>1. CASE Validate
    BY <2>1 DEF Validate, RunsTo, Return, cancelled
  <2>2. CASE DecodeSource
    BY <2>2 DEF DecodeSource, Decode, RunsTo, Return, cancelled
  <2>3. CASE DecodeOutput
    BY <2>3 DEF DecodeOutput, Decode, RunsTo, Return, cancelled
  <2>4. CASE Publish
    BY <2>4 DEF Publish, RunsTo, Return, cancelled
  <2> QED
    BY <2>1, <2>2, <2>3, <2>4
<1>4. CASE pc' \in AfterSplice
  <2>1. Spliced' = Spliced
    BY <1>1 DEF Spliced
  <2> QED
    BY <1>1, <1>4, <2>1 DEF ReasonInv
<1>5. CASE pc' = "Done"
  <2>1. Premise' => ~stop /\ ~misbehaved
    BY <1>1 DEF Premise
  <2>2. Premise' => result'.error = None \/ RefusedAs(result'.error)
    BY <1>2, <1>3, <1>5, <2>1 DEF RefusedAs
  <2> QED
    BY <1>1, <1>5, <2>2, ReasonEnds
<1> QED
  BY <1>3, <1>4, <1>5

\* Every step keeps the reasons.
LEMMA ReasonStep == AnalysisInv /\ WorkInv /\ ReasonInv /\ [Next]_vars => ReasonInv'
<1> SUFFICES ASSUME AnalysisInv, WorkInv, ReasonInv, [Next]_vars PROVE ReasonInv'
  OBVIOUS
<1>1. CASE ChangeSource
  <2>1. pc' = "Begin"
    BY <1>1 DEF ChangeSource
  <2> QED
    BY <2>1 DEF ReasonInv, AfterReturned, AfterSplice, AfterValidate
<1>2. CASE RequestStop \/ Done \/ UNCHANGED vars
  <2>1. /\ UNCHANGED <<reviewed, source, approved, pc, metadata, codec, misbehaved, result>>
        /\ stop' => stop \/ pc # "Done"
        /\ ~stop' => ~stop
    BY <1>2 DEF RequestStop, Done, vars, engine
  <2>2. /\ Spliced' = Spliced
        /\ UNCHANGED NativeOutput /\ \A image : Overlong(image)' = Overlong(image)
    BY <2>1, NativeStays DEF Spliced
  <2>3. RefusedLate' = RefusedLate /\ Published' = Published
    BY <2>1, <2>2 DEF RefusedLate, Published
  <2> QED
    BY <2>1, <2>2, <2>3 DEF ReasonInv, Premise
<1>3. CASE DigestFails \/ AllocationFails
  <2>1. pc' = "Done" /\ misbehaved' = TRUE
    BY <1>3 DEF DigestFails, AllocationFails, Return
  <2> QED
    BY <2>1 DEF ReasonInv, Premise
<1> QED
  BY <1>1, <1>2, <1>3, ReasonBefore, ReasonCodes, ReasonValidates DEF Next, Execution

\* Both hold at the start.
LEMMA ReasonInit == Init => TimingInv /\ ReasonInv
  BY DEF Init, TimingInv, ReasonInv, AfterReturned, AfterSplice, AfterValidate

\* In every reachable state a stop says whether the codec had been entered, and
\* a reviewed file that nothing disturbed is published or refused for one of the
\* reasons the review does not foresee.
THEOREM RefusalsExplained == Spec => []RefusalsAreExplained
<1>1. AnalysisInv /\ [Next]_vars => AnalysisInv'
  BY AnalysisStep
<1>2. AnalysisInv /\ WorkInv /\ [Next]_vars => WorkInv'
  BY WorkStep
<1>3. AnalysisInv /\ WorkInv /\ TimingInv /\ [Next]_vars => TimingInv'
  BY TimingStep
<1>4. AnalysisInv /\ WorkInv /\ ReasonInv /\ [Next]_vars => ReasonInv'
  BY ReasonStep
<1>5. TimingInv /\ ReasonInv => RefusalsAreExplained
  BY DEF TimingInv, ReasonInv, Premise, RefusalsAreExplained
<1> QED
  BY AnalysisInit, WorkInit, ReasonInit, <1>1, <1>2, <1>3, <1>4, <1>5, PTL DEF Spec
=============================================================================
