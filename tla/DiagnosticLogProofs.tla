------------------------ MODULE DiagnosticLogProofs ------------------------
(***************************************************************************)
(* The diagnostic log's two invariants for every number of log objects,    *)
(* callers and records and every retention limit.  The inductive invariant *)
(* says what each caller between the lease and the rename has established  *)
(* and that the lease is held by exactly the caller that relies on it.     *)
(***************************************************************************)
EXTENDS LocalDiagnosticLog, Integers, FiniteSetTheorems, TLAPS

\* The steps taken with the native writer lease.
Leased == {"inspect", "prune", "write", "publish"}

\* The handle is held by the caller that is past acquireWriterLease, and by
\* no other.
LeaseIsExact == \A w \in Writers : lease = w <=> writers[w].pc \in Leased

\* What append has checked before each of its steps: the length before the
\* lock, the sequence number after the inspection, the room after pruning.
CallerIsReady(w) ==
    /\ writers[w].pc # "idle" /\ writers[w].locals.op = "append" =>
          /\ writers[w].locals.line.length <= MaximumRecordLength
          /\ writers[w].locals.line.length <= MaximumRetainedLength
    /\ writers[w].pc \in {"prune", "write", "publish"} =>
          /\ writers[w].locals.op = "append"
          /\ writers[w].locals.last < MaximumSequence
          /\ \A r \in records : r.sequence <= writers[w].locals.last
    /\ writers[w].pc \in {"write", "publish"} =>
          /\ Cardinality(records) < MaximumRetainedFileCount
          /\ RetainedLength(records) + writers[w].locals.line.length <= MaximumRetainedLength

\* The published records are within the limits and have their own numbers.
RecordsAreRetainable ==
    /\ IsFiniteSet(records)
    /\ Cardinality(records) <= MaximumRetainedFileCount
    /\ RetainedLength(records) <= MaximumRetainedLength
    /\ \A r \in records : r.line.length <= MaximumRecordLength
    /\ \A r, s \in records : r.sequence = s.sequence => r = s

\* A pending slot left behind has the place of the record it was meant for.
PendingHasRoom == pending # NoFile => Cardinality(records) < MaximumRetainedFileCount

\* The inductive invariant of the diagnostic log.
DInv == /\ TypeOK
        /\ LeaseIsExact
        /\ \A w \in Writers : CallerIsReady(w)
        /\ RecordsAreRetainable
        /\ PendingHasRoom
        /\ RetainsTheLatest
-----------------------------------------------------------------------------
\* A family of subsets of a finite set has a member that is minimal in it: the
\* form of induction that the other lemmas use.
LEMMA SubsetMinimum ==
    ASSUME NEW S, IsFiniteSet(S), NEW T, T \subseteq SUBSET S, T # {}
    PROVE  \E m \in T : \A u \in T : u \subseteq m => u = m
<1>1. T \subseteq FiniteSubsetsOf(S)
  BY FS_FiniteSubsetsOfFinite
<1>2. IsWellFoundedOn(StrictSubsetOrdering(S), FiniteSubsetsOf(S))
  BY FS_StrictSubsetOrderingWellFounded
<1>3. PICK m \in T : \A u \in T : ~(<<u, m>> \in StrictSubsetOrdering(S))
  BY <1>1, <1>2, WFMin
<1>4. \A u \in T : u \subseteq m => u = m
  BY <1>3 DEF StrictSubsetOrdering
<1> QED
  BY <1>4

\* A finite set has a member with the least value of a numbering.
LEMMA LeastMember ==
    ASSUME NEW S, IsFiniteSet(S), S # {}, NEW f \in [S -> Int]
    PROVE  \E x \in S : \A y \in S : f[x] <= f[y]
<1> DEFINE Below(x) == {y \in S : f[y] <= f[x]}
           T == {Below(x) : x \in S}
<1>1. T \subseteq SUBSET S /\ T # {}
  <2>1. T \subseteq SUBSET S
    OBVIOUS
  <2>2. PICK x \in S : TRUE
    OBVIOUS
  <2>3. Below(x) \in T
    OBVIOUS
  <2> QED
    BY <2>1, <2>3
<1>2. PICK m \in T : \A u \in T : u \subseteq m => u = m
  <2> HIDE DEF T
  <2> QED
    BY <1>1, SubsetMinimum
<1>3. PICK x \in S : m = Below(x)
  BY <1>2
<1>4. ASSUME NEW y \in S, ~(f[x] <= f[y]) PROVE FALSE
  <2>0. f[x] \in Int /\ f[y] \in Int /\ \A z \in S : f[z] \in Int
    OBVIOUS
  <2>1. Below(y) \subseteq Below(x)
    <3> SUFFICES ASSUME NEW z \in S, f[z] <= f[y] PROVE f[z] <= f[x]
      OBVIOUS
    <3> QED
      BY <1>4, <2>0
  <2>2. x \in Below(x) /\ x \notin Below(y)
    BY <1>4, <2>0
  <2>3. Below(y) \in T
    OBVIOUS
  <2> QED
    BY <1>2, <1>3, <2>1, <2>2, <2>3
<1> QED
  BY <1>4

\* The lines' bytes are finitely many.
LEMMA TotalLengthType ==
    ASSUME NEW S, IsFiniteSet(S), NEW h \in [S -> Nat]
    PROVE  IsFiniteSet(Bytes(h)) /\ TotalLength(h) \in Nat
<1> DEFINE part(x) == {x} \X (1..h[x])
           T == {part(x) : x \in S}
           f == [x \in S |-> part(x)]
<1>1. IsFiniteSet(T)
  <2>1. f \in Surjection(S, T)
    BY DEF Surjection
  <2> HIDE DEF T, f
  <2> QED
    BY <2>1, FS_Surjection
<1>2. \A t \in T : IsFiniteSet(t)
  <2> SUFFICES ASSUME NEW x \in S PROVE IsFiniteSet(part(x))
    OBVIOUS
  <2>1. IsFiniteSet({x}) /\ IsFiniteSet(1..h[x])
    <3>1. 1 \in Int /\ h[x] \in Int
      OBVIOUS
    <3> QED
      BY <3>1, FS_Singleton, FS_Interval
  <2> QED
    BY <2>1, FS_Product
<1>3. Bytes(h) = UNION T
  BY DEF Bytes
<1> HIDE DEF T
<1>4. IsFiniteSet(Bytes(h))
  BY <1>1, <1>2, <1>3, FS_UNION
<1> QED
  BY <1>4, FS_CardinalityType DEF TotalLength

\* Each line adds its own length.
LEMMA TotalLengthStep ==
    ASSUME NEW S, IsFiniteSet(S), NEW h \in [S -> Nat], NEW x \in S,
           NEW k, k = [y \in S \ {x} |-> h[y]]
    PROVE  TotalLength(h) = h[x] + TotalLength(k)
<1> DEFINE part == {x} \X (1..h[x])
<1>1. k \in [S \ {x} -> Nat] /\ DOMAIN k = S \ {x} /\ \A y \in S \ {x} : k[y] = h[y]
  OBVIOUS
<1>2. IsFiniteSet(Bytes(k)) /\ TotalLength(k) \in Nat
  <2>1. IsFiniteSet(S \ {x})
    BY FS_RemoveElement
  <2> QED
    BY <1>1, <2>1, TotalLengthType
<1>3. Bytes(h) = Bytes(k) \cup part
  BY <1>1 DEF Bytes
<1>4. Bytes(k) \cap part = {}
  BY <1>1 DEF Bytes
<1>5. IsFiniteSet(part) /\ Cardinality(part) = h[x]
  <2>1. IsFiniteSet({x}) /\ Cardinality({x}) = 1
    BY FS_Singleton
  <2>2. IsFiniteSet(1..h[x]) /\ Cardinality(1..h[x]) = h[x]
    BY FS_Interval
  <2>3. IsFiniteSet(part) /\ Cardinality(part) = 1 * h[x]
    BY <2>1, <2>2, FS_Product
  <2> QED
    BY <2>3
<1> HIDE DEF part
<1>6. Cardinality(Bytes(h)) = Cardinality(Bytes(k)) + Cardinality(part) - Cardinality({})
  BY <1>2, <1>3, <1>4, <1>5, FS_Union
<1> QED
  BY <1>2, <1>5, <1>6, FS_EmptySet DEF TotalLength

\* No lines, no bytes.
LEMMA NothingHasNoLength ==
    ASSUME NEW h, DOMAIN h = {}
    PROVE  TotalLength(h) = 0
<1>1. Bytes(h) = {}
  BY DEF Bytes
<1> QED
  BY <1>1, FS_EmptySet DEF TotalLength

\* The retained length of well-typed records is a number, and each record adds
\* its own length to it.
LEMMA RetainedLengthStep ==
    ASSUME NEW rs, IsFiniteSet(rs), \A r \in rs : r.line.length \in Nat
    PROVE  /\ RetainedLength(rs) \in Nat
           /\ \A r \in rs : RetainedLength(rs) = r.line.length + RetainedLength(rs \ {r})
           /\ \A r \in rs : RetainedLength(rs \ {r}) \in Nat
<1>1. \A ts : RetainedLength(ts) = TotalLength(Lengths(ts))
  BY DEF RetainedLength
<1>2. Lengths(rs) \in [rs -> Nat] /\ \A r \in rs : Lengths(rs)[r] = r.line.length
  BY DEF Lengths
<1>3. ASSUME NEW r \in rs
      PROVE  /\ RetainedLength(rs) = r.line.length + RetainedLength(rs \ {r})
             /\ RetainedLength(rs \ {r}) \in Nat
  <2>1. Lengths(rs \ {r}) \in [rs \ {r} -> Nat]
        /\ \A s \in rs \ {r} : Lengths(rs \ {r})[s] = Lengths(rs)[s]
    BY DEF Lengths
  <2>2. TotalLength(Lengths(rs)) = Lengths(rs)[r] + TotalLength(Lengths(rs \ {r}))
    <3> DEFINE h == Lengths(rs)
               k == Lengths(rs \ {r})
    <3>1. h \in [rs -> Nat] /\ k = [s \in rs \ {r} |-> h[s]]
      BY <1>2 DEF Lengths
    <3> HIDE DEF h, k
    <3>2. TotalLength(h) = h[r] + TotalLength(k)
      BY <3>1, TotalLengthStep
    <3> QED
      BY <3>2 DEF h, k
  <2>3. IsFiniteSet(rs \ {r})
    BY FS_RemoveElement
  <2>4. TotalLength(Lengths(rs \ {r})) \in Nat
    BY <2>1, <2>3, TotalLengthType
  <2> QED
    BY <1>1, <1>2, <2>2, <2>4
<1>4. RetainedLength(rs) \in Nat
  BY <1>1, <1>2, TotalLengthType
<1> QED
  BY <1>3, <1>4

-----------------------------------------------------------------------------
\* A caller that is not idle carries locals of one of the two operations.
LEMMA CallerShape ==
    ASSUME TypeOK, NEW w \in Writers, writers[w].pc # "idle"
    PROVE  /\ writers[w] = [pc |-> writers[w].pc, locals |-> writers[w].locals]
           /\ writers[w].pc \in Steps /\ writers[w].locals \in Locals
<1>1. writers[w] \in State /\ writers[w] # [pc |-> "idle"]
  BY DEF TypeOK
<1>2. writers[w] \in [pc : Steps, locals : Locals]
  BY <1>1 DEF State
<1> QED
  BY <1>2

\* The locals of append.
LEMMA AppendLocals ==
    ASSUME LogConstants, NEW l \in Locals, l.op = "append"
    PROVE  /\ l = [op |-> "append", line |-> l.line, last |-> l.last]
           /\ l.line \in Line /\ l.last \in 0..MaximumSequence
           /\ l.line.length \in Nat \ {0} /\ l.line.text \in {"name", "Unknown"}
<1>1. l \in [op : {"append"}, line : Line, last : 0..MaximumSequence]
  BY DEF Locals
<1> QED
  BY <1>1 DEF Line, LogConstants

\* Goto moves one caller and keeps its locals.
LEMMA GotoShape ==
    ASSUME TypeOK, NEW w \in Writers, writers[w].pc # "idle", NEW step \in Steps, Goto(w, step)
    PROVE  /\ writers' \in [Writers -> State]
           /\ writers'[w].pc = step /\ writers'[w].locals = writers[w].locals
           /\ \A v \in Writers \ {w} : writers'[v] = writers[v]
<1>1. /\ writers[w] = [pc |-> writers[w].pc, locals |-> writers[w].locals]
      /\ writers[w].locals \in Locals
  BY CallerShape
<1>2. [writers[w] EXCEPT !.pc = step] = [pc |-> step, locals |-> writers[w].locals]
  BY <1>1
<1>3. [pc |-> step, locals |-> writers[w].locals] \in State
  BY <1>1 DEF State
<1>4. writers' = [writers EXCEPT ![w] = [pc |-> step, locals |-> writers[w].locals]]
  BY <1>2 DEF Goto, TypeOK
<1> QED
  BY <1>3, <1>4 DEF TypeOK

\* Return makes one caller idle and releases what it holds.
LEMMA ReturnShape ==
    ASSUME LogConstants, TypeOK, LeaseIsExact, NEW w \in Writers, Return(w)
    PROVE  /\ writers' \in [Writers -> State]
           /\ writers'[w].pc = "idle"
           /\ \A v \in Writers \ {w} : writers'[v] = writers[v]
           /\ mutex' \in [Logs -> Writers \cup {NoWriter}]
           /\ lease' \in Writers \cup {NoWriter}
           /\ LeaseIsExact'
<1>1. [pc |-> "idle"] \in State /\ [pc |-> "idle"].pc = "idle"
  BY DEF State
<1>2. /\ writers' \in [Writers -> State]
      /\ writers'[w] = [pc |-> "idle"]
      /\ \A v \in Writers \ {w} : writers'[v] = writers[v]
  BY <1>1 DEF Return, TypeOK
<1>3. mutex' \in [Logs -> Writers \cup {NoWriter}]
  BY DEF Return, TypeOK
<1>4. lease' \in Writers \cup {NoWriter}
  BY DEF Return, TypeOK
<1>5. writers'[w].pc = "idle"
  BY <1>1, <1>2
<1>6. ASSUME NEW v \in Writers PROVE lease' = v <=> writers'[v].pc \in Leased
  <2>1. NoWriter # v /\ NoWriter # w
    BY DEF LogConstants
  <2>2. CASE v = w
    BY <1>5, <2>1, <2>2 DEF Return, Leased
  <2>3. CASE v # w
    <3>1. writers'[v] = writers[v]
      BY <1>2, <2>3
    <3> QED
      BY <2>1, <2>3, <3>1 DEF Return, LeaseIsExact
  <2> QED
    BY <2>2, <2>3
<1> QED
  BY <1>2, <1>3, <1>4, <1>5, <1>6 DEF LeaseIsExact

\* A step of one caller that leaves the published records alone keeps the
\* invariant when that caller is ready for its next step.
LEMMA CallerStep ==
    ASSUME DInv, NEW w \in Writers,
           UNCHANGED <<records, publications>>,
           leaseFile' \in BOOLEAN, foreign' \in BOOLEAN,
           mutex' \in [Logs -> Writers \cup {NoWriter}],
           lease' \in Writers \cup {NoWriter},
           writers' \in [Writers -> State],
           \A v \in Writers \ {w} : writers'[v] = writers[v],
           pending' \in {NoFile} \cup 0..MaximumRecordLength,
           LeaseIsExact', CallerIsReady(w)', PendingHasRoom'
    PROVE  DInv'
<1>1. TypeOK'
  BY DEF DInv, TypeOK
<1>2. ASSUME NEW v \in Writers PROVE CallerIsReady(v)'
  <2>1. CASE v = w
    BY <2>1
  <2>2. CASE v # w
    <3>1. writers'[v] = writers[v] /\ CallerIsReady(v)
      BY <2>2 DEF DInv
    <3> QED
      BY <3>1 DEF CallerIsReady
  <2> QED
    BY <2>1, <2>2
<1>3. RecordsAreRetainable'
  BY DEF DInv, RecordsAreRetainable
<1>4. RetainsTheLatest'
  BY DEF DInv, RetainsTheLatest
<1> QED
  BY <1>1, <1>2, <1>3, <1>4 DEF DInv

\* A caller that returns without a change to the records.
LEMMA ReturnStep ==
    ASSUME LogConstants, DInv, NEW w \in Writers, Return(w),
           UNCHANGED <<records, publications, leaseFile, foreign>>,
           pending' \in {NoFile} \cup 0..MaximumRecordLength, PendingHasRoom'
    PROVE  DInv'
<1>0. TypeOK /\ LeaseIsExact
  BY DEF DInv
<1>1. /\ writers' \in [Writers -> State]
      /\ writers'[w].pc = "idle"
      /\ \A v \in Writers \ {w} : writers'[v] = writers[v]
      /\ mutex' \in [Logs -> Writers \cup {NoWriter}]
      /\ lease' \in Writers \cup {NoWriter}
      /\ LeaseIsExact'
  BY <1>0, ReturnShape
<1>2. CallerIsReady(w)'
  BY <1>1 DEF CallerIsReady
<1>3. leaseFile' \in BOOLEAN /\ foreign' \in BOOLEAN
  BY <1>0 DEF TypeOK
<1> QED
  BY <1>1, <1>2, <1>3, CallerStep

\* A caller that moves on to another step of the same operation, with or
\* without the lease.
LEMMA GotoStep ==
    ASSUME LogConstants, DInv, NEW w \in Writers, writers[w].pc # "idle",
           NEW step \in Steps, Goto(w, step),
           UNCHANGED <<records, publications, foreign>>,
           leaseFile' \in BOOLEAN,
           mutex' \in [Logs -> Writers \cup {NoWriter}],
           \/ lease' = lease /\ (step \in Leased <=> writers[w].pc \in Leased)
           \/ lease = NoWriter /\ lease' = w /\ step \in Leased,
           pending' \in {NoFile} \cup 0..MaximumRecordLength, PendingHasRoom',
           step \in {"prune", "write", "publish"} => writers[w].pc \in {"prune", "write", "publish"},
           step = "write" => ~NeedsRoom(writers[w].locals.line),
           step = "publish" => writers[w].pc = "write"
    PROVE  DInv'
<1>0. TypeOK /\ LeaseIsExact /\ CallerIsReady(w) /\ RecordsAreRetainable
  BY DEF DInv
<1>1. /\ writers' \in [Writers -> State]
      /\ writers'[w].pc = step /\ writers'[w].locals = writers[w].locals
      /\ \A v \in Writers \ {w} : writers'[v] = writers[v]
  BY <1>0, GotoShape
<1>2. lease' \in Writers \cup {NoWriter} /\ foreign' \in BOOLEAN
  BY <1>0 DEF TypeOK
<1>3. ASSUME NEW v \in Writers PROVE lease' = v <=> writers'[v].pc \in Leased
  <2>1. NoWriter # v /\ NoWriter # w
    BY DEF LogConstants
  <2>2. CASE v = w
    BY <1>0, <1>1, <2>1, <2>2 DEF LeaseIsExact
  <2>3. CASE v # w
    <3>1. writers'[v] = writers[v]
      BY <1>1, <2>3
    <3> QED
      BY <1>0, <2>1, <2>3, <3>1 DEF LeaseIsExact
  <2> QED
    BY <2>2, <2>3
<1>4. CallerIsReady(w)'
  <2>0. writers[w].locals \in Locals /\ writers[w].pc \in Steps
    BY <1>0, CallerShape
  <2>1. writers'[w].locals.op = "append" =>
          /\ writers'[w].locals.line.length <= MaximumRecordLength
          /\ writers'[w].locals.line.length <= MaximumRetainedLength
    BY <1>0, <1>1 DEF CallerIsReady
  <2>2. writers'[w].pc \in {"prune", "write", "publish"} =>
          /\ writers'[w].locals.op = "append"
          /\ writers'[w].locals.last < MaximumSequence
          /\ \A r \in records' : r.sequence <= writers'[w].locals.last
    BY <1>0, <1>1 DEF CallerIsReady
  <2>3. ASSUME writers'[w].pc \in {"write", "publish"}
        PROVE  /\ Cardinality(records') < MaximumRetainedFileCount
               /\ RetainedLength(records') + writers'[w].locals.line.length <= MaximumRetainedLength
    <3>1. CASE step = "write"
      <4>1. ~NeedsRoom(writers[w].locals.line) /\ writers[w].locals.op = "append"
        BY <1>0, <3>1 DEF CallerIsReady
      <4>2. writers[w].locals.line.length \in Nat
        BY <2>0, <4>1, AppendLocals
      <4>3. Cardinality(records) \in Nat
        BY <1>0, FS_CardinalityType DEF RecordsAreRetainable
      <4>4. \A r \in records : r.line.length \in Nat
        BY <1>0 DEF TypeOK, Record, Line, LogConstants
      <4>5. RetainedLength(records) \in Nat
        BY <1>0, <4>4, RetainedLengthStep DEF RecordsAreRetainable
      <4> QED
        BY <1>1, <4>1, <4>2, <4>3, <4>5 DEF NeedsRoom, LogConstants
    <3>2. CASE step = "publish"
      BY <1>0, <1>1, <3>2 DEF CallerIsReady
    <3> QED
      BY <1>1, <2>3, <3>1, <3>2
  <2> QED
    BY <2>1, <2>2, <2>3 DEF CallerIsReady
<1> QED
  BY <1>1, <1>2, <1>3, <1>4, CallerStep DEF LeaseIsExact

\* The empty folder satisfies the invariant.
LEMMA LogInit ==
    ASSUME LogConstants, Init
    PROVE  DInv
<1>1. TypeOK
  <2>1. [pc |-> "idle"] \in State
    BY DEF State
  <2>2. writers \in [Writers -> State]
    BY <2>1 DEF Init
  <2> QED
    BY <2>2 DEF Init, TypeOK
<1>2. \A w \in Writers : writers[w].pc = "idle"
  BY DEF Init
<1>3. LeaseIsExact
  BY <1>2 DEF Init, LeaseIsExact, Leased, LogConstants
<1>4. \A w \in Writers : CallerIsReady(w)
  BY <1>2 DEF CallerIsReady
<1>5. RecordsAreRetainable
  <2>1. IsFiniteSet({}) /\ Cardinality({}) = 0
    BY FS_EmptySet
  <2>2. RetainedLength({}) = 0
    <3>1. DOMAIN Lengths({}) = {}
      BY DEF Lengths
    <3> QED
      BY <3>1, NothingHasNoLength DEF RetainedLength
  <2> QED
    BY <2>1, <2>2 DEF Init, RecordsAreRetainable, LogConstants
<1>6. PendingHasRoom /\ RetainsTheLatest
  BY DEF Init, PendingHasRoom, RetainsTheLatest
<1> QED
  BY <1>1, <1>3, <1>4, <1>5, <1>6 DEF DInv

\* append and snapshot begin: only the caller's own state changes.
LEMMA CallKeeps ==
    ASSUME LogConstants, DInv, NEW w \in Writers, NEW locals \in Locals, Call(w, locals),
           locals.op = "append" => /\ locals.line.length <= MaximumRecordLength
                                   /\ locals.line.length <= MaximumRetainedLength,
           UNCHANGED <<records, pending, leaseFile, foreign, mutex, lease, publications>>
    PROVE  DInv'
<1>0. TypeOK /\ LeaseIsExact /\ PendingHasRoom
  BY DEF DInv
<1>1. [pc |-> "lock", locals |-> locals] \in State
  BY DEF State, Steps
<1>2. /\ writers' \in [Writers -> State]
      /\ writers'[w] = [pc |-> "lock", locals |-> locals]
      /\ \A v \in Writers \ {w} : writers'[v] = writers[v]
  BY <1>0, <1>1 DEF Call, TypeOK
<1>3. writers'[w].pc = "lock" /\ writers'[w].locals = locals
  BY <1>2
<1>4. CallerIsReady(w)'
  BY <1>3 DEF CallerIsReady
<1>5. ASSUME NEW v \in Writers PROVE lease' = v <=> writers'[v].pc \in Leased
  <2>1. CASE v = w
    BY <1>0, <1>3, <2>1 DEF LeaseIsExact, Leased, Call, At
  <2>2. CASE v # w
    <3>1. writers'[v] = writers[v]
      BY <1>2, <2>2
    <3> QED
      BY <1>0, <3>1 DEF LeaseIsExact
  <2> QED
    BY <2>1, <2>2
<1>6. PendingHasRoom' /\ pending' \in {NoFile} \cup 0..MaximumRecordLength
  BY <1>0 DEF PendingHasRoom, TypeOK
<1>7. /\ leaseFile' \in BOOLEAN /\ foreign' \in BOOLEAN
      /\ mutex' \in [Logs -> Writers \cup {NoWriter}]
      /\ lease' \in Writers \cup {NoWriter}
  BY <1>0 DEF TypeOK
<1>8. LeaseIsExact'
  BY <1>5 DEF LeaseIsExact
<1> QED
  BY <1>2, <1>4, <1>6, <1>7, <1>8, CallerStep

\* append serialises the record and checks its length before anything else.
LEMMA AppendRecordKeeps ==
    ASSUME LogConstants, DInv, NEW w \in Writers, NEW fact \in Fact, NEW length \in LineLengths,
           AppendRecord(w, fact, length)
    PROVE  DInv'
<1> DEFINE line == [length |-> length, text |-> SymbolicName(fact.symbol)]
           locals == [op |-> "append", last |-> 0, line |-> line]
<1>1. line \in Line
  BY DEF Line, SymbolicName
<1>2. line.length = length
  OBVIOUS
<1> HIDE DEF line
<1>3. locals \in Locals
  BY <1>1 DEF Locals, LogConstants
<1>4. locals.line = line
  OBVIOUS
<1>5. /\ Call(w, locals)
      /\ length <= MaximumRecordLength /\ length <= MaximumRetainedLength
      /\ UNCHANGED <<records, pending, leaseFile, foreign, mutex, lease, publications>>
  BY DEF AppendRecord, line
<1> HIDE DEF locals
<1> QED
  BY <1>2, <1>3, <1>4, <1>5, CallKeeps

\* snapshot begins.
LEMMA SnapshotKeeps ==
    ASSUME LogConstants, DInv, NEW w \in Writers, Snapshot(w)
    PROVE  DInv'
<1> DEFINE locals == [op |-> "snapshot"]
<1>1. locals \in Locals /\ locals.op # "append"
  BY DEF Locals
<1>2. /\ Call(w, locals)
      /\ UNCHANGED <<records, pending, leaseFile, foreign, mutex, lease, publications>>
  BY DEF Snapshot
<1> HIDE DEF locals
<1> QED
  BY <1>1, <1>2, CallKeeps

\* The steps of a caller before pruning, and the ones on the pending slot.
LEMMA QuietStepKeeps ==
    ASSUME LogConstants, DInv, NEW w \in Writers,
           \/ Lock(w) \/ AcquireWriterLease(w) \/ LeaseRefused(w) \/ InspectRefused(w)
           \/ InspectForSnapshot(w) \/ OpenPending(w) \/ WritePending(w) \/ NativeFailure(w)
    PROVE  DInv'
<1>0. TypeOK /\ LeaseIsExact /\ PendingHasRoom /\ CallerIsReady(w)
  BY DEF DInv
<1>1. pending' = pending /\ records' = records
        => PendingHasRoom' /\ pending' \in {NoFile} \cup 0..MaximumRecordLength
  BY <1>0 DEF PendingHasRoom, TypeOK
<1>2. CASE Lock(w)
  <2>1. mutex' \in [Logs -> Writers \cup {NoWriter}] /\ leaseFile' \in BOOLEAN
    BY <1>0, <1>2 DEF Lock, TypeOK
  <2>2. /\ Goto(w, "lease") /\ writers[w].pc = "lock"
        /\ UNCHANGED <<records, pending, publications, foreign, lease>>
    BY <1>2 DEF Lock, At
  <2> QED
    BY <1>1, <2>1, <2>2, GotoStep DEF Steps, Leased
<1>3. CASE AcquireWriterLease(w)
  <2>1. mutex' \in [Logs -> Writers \cup {NoWriter}] /\ leaseFile' \in BOOLEAN
    BY <1>0, <1>3 DEF AcquireWriterLease, TypeOK
  <2>2. /\ Goto(w, "inspect") /\ writers[w].pc = "lease" /\ lease = NoWriter /\ lease' = w
        /\ UNCHANGED <<records, pending, publications, foreign>>
    BY <1>3 DEF AcquireWriterLease, At
  <2> QED
    BY <1>1, <2>1, <2>2, GotoStep DEF Steps, Leased
<1>4. CASE LeaseRefused(w) \/ InspectRefused(w) \/ InspectForSnapshot(w)
  <2>1. Return(w) /\ UNCHANGED <<records, pending, leaseFile, foreign, publications>>
    BY <1>4 DEF LeaseRefused, InspectRefused, InspectForSnapshot
  <2> QED
    BY <1>1, <2>1, ReturnStep
<1>5. CASE OpenPending(w)
  <2>1. mutex' \in [Logs -> Writers \cup {NoWriter}] /\ leaseFile' \in BOOLEAN
    BY <1>0, <1>5 DEF OpenPending, TypeOK
  <2>2. /\ Goto(w, "write") /\ writers[w].pc = "prune" /\ ~NeedsRoom(writers[w].locals.line)
        /\ UNCHANGED <<records, publications, foreign, lease>>
    BY <1>5 DEF OpenPending, At
  <2>3. pending' \in {NoFile} \cup 0..MaximumRecordLength
    BY <1>0, <1>5 DEF OpenPending, TypeOK, LogConstants
  <2>4. Cardinality(records) < MaximumRetainedFileCount
    <3>1. Cardinality(records) \in Nat
      BY FS_CardinalityType DEF DInv, RecordsAreRetainable
    <3> QED
      BY <2>2, <3>1 DEF NeedsRoom, LogConstants
  <2>5. PendingHasRoom'
    BY <2>2, <2>4 DEF PendingHasRoom
  <2> QED
    BY <2>1, <2>2, <2>3, <2>5, GotoStep DEF Steps, Leased
<1>6. CASE WritePending(w)
  <2>1. mutex' \in [Logs -> Writers \cup {NoWriter}] /\ leaseFile' \in BOOLEAN
    BY <1>0, <1>6 DEF WritePending, TypeOK
  <2>2. /\ Goto(w, "publish") /\ writers[w].pc = "write"
        /\ pending' = writers[w].locals.line.length
        /\ UNCHANGED <<records, publications, foreign, lease>>
    BY <1>6 DEF WritePending, At
  <2>3. /\ writers[w].locals.op = "append"
        /\ writers[w].locals.line.length <= MaximumRecordLength
        /\ Cardinality(records) < MaximumRetainedFileCount
    BY <1>0, <2>2 DEF CallerIsReady
  <2>4. writers[w].locals.line.length \in Nat
    BY <1>0, <2>2, <2>3, CallerShape, AppendLocals
  <2>5. pending' \in {NoFile} \cup 0..MaximumRecordLength
    BY <2>2, <2>3, <2>4 DEF LogConstants
  <2>6. PendingHasRoom'
    BY <2>2, <2>3 DEF PendingHasRoom
  <2> QED
    BY <2>1, <2>2, <2>5, <2>6, GotoStep DEF Steps, Leased
<1>7. CASE NativeFailure(w)
  <2>1. /\ Return(w) /\ UNCHANGED <<records, leaseFile, foreign, publications>>
        /\ writers[w].pc # "write" => pending' = pending
        /\ writers[w].pc = "write" => pending' \in 0..writers[w].locals.line.length
    BY <1>7 DEF NativeFailure, At
  <2>2. CASE writers[w].pc = "write"
    <3>1. /\ writers[w].locals.op = "append"
          /\ writers[w].locals.line.length <= MaximumRecordLength
          /\ Cardinality(records) < MaximumRetainedFileCount
      BY <1>0, <2>2 DEF CallerIsReady
    <3>2. writers[w].locals.line.length \in Nat
      BY <1>0, <2>2, <3>1, CallerShape, AppendLocals
    <3>3. pending' \in {NoFile} \cup 0..MaximumRecordLength
      BY <2>1, <2>2, <3>1, <3>2 DEF LogConstants
    <3>4. PendingHasRoom'
      BY <2>1, <3>1 DEF PendingHasRoom
    <3> QED
      BY <2>1, <3>3, <3>4, ReturnStep
  <2>3. CASE writers[w].pc # "write"
    BY <1>1, <2>1, <2>3, ReturnStep
  <2> QED
    BY <2>2, <2>3
<1> QED
  BY <1>2, <1>3, <1>4, <1>5, <1>6, <1>7

\* What the fields of a published record are.
LEMMA RecordShape ==
    ASSUME LogConstants, TypeOK, NEW r \in records
    PROVE  r.line.length \in Nat /\ r.sequence \in 1..MaximumSequence /\ r.sequence \in Nat
<1>1. r \in Record
  BY DEF TypeOK
<1>2. r.line \in Line /\ r.sequence \in 1..MaximumSequence
  BY <1>1 DEF Record
<1>3. MaximumSequence \in Nat /\ LineLengths \subseteq Nat
  BY DEF LogConstants
<1>4. r.line.length \in LineLengths
  BY <1>2 DEF Line
<1>5. r.sequence \in Nat
  BY <1>2, <1>3
<1> QED
  BY <1>2, <1>3, <1>4, <1>5

\* The inspection's largest sequence number bounds all of them.
LEMMA LastSequenceBounds ==
    ASSUME LogConstants, TypeOK, RecordsAreRetainable
    PROVE  /\ LastSequence(records) \in 0..MaximumSequence
           /\ \A r \in records : r.sequence <= LastSequence(records)
<1>1. \A r \in records : r.sequence \in 1..MaximumSequence
  BY DEF TypeOK, Record
<1>2. \E x \in {0} \cup {r.sequence : r \in records} :
        \A y \in {0} \cup {r.sequence : r \in records} : x >= y
  <2>1. CASE records = {}
    <3>1. {0} \cup {r.sequence : r \in records} = {0}
      BY <2>1
    <3> QED
      BY <3>1
  <2>2. CASE records # {}
    <3> DEFINE f == [r \in records |-> 0 - r.sequence]
    <3>1. f \in [records -> Int] /\ \A r \in records : f[r] = 0 - r.sequence
      BY <1>1
    <3>2. IsFiniteSet(records)
      BY DEF RecordsAreRetainable
    <3> HIDE DEF f
    <3>3. PICK r \in records : \A s \in records : f[r] <= f[s]
      BY <2>2, <3>1, <3>2, LeastMember
    <3>4. \A s \in records : r.sequence >= s.sequence
      BY <1>1, <3>1, <3>3
    <3>5. r.sequence >= 0
      BY <1>1
    <3> QED
      BY <3>4, <3>5
  <2> QED
    BY <2>1, <2>2
<1> DEFINE U == {0} \cup {r.sequence : r \in records}
<1>3. LastSequence(records) \in U /\ \A y \in U : LastSequence(records) >= y
  <2> HIDE DEF U
  <2>1. LastSequence(records) = CHOOSE x \in U : \A y \in U : x >= y
    BY DEF LastSequence, Max, U
  <2>2. \E x \in U : \A y \in U : x >= y
    BY <1>2 DEF U
  <2> QED
    BY <2>1, <2>2
<1>4. U \subseteq 0..MaximumSequence
  BY <1>1 DEF LogConstants
<1> QED
  BY <1>1, <1>3, <1>4

\* The inspection numbers the record that append is to publish.
LEMMA InspectForAppendKeeps ==
    ASSUME LogConstants, DInv, NEW w \in Writers, InspectForAppend(w)
    PROVE  DInv'
<1>0. /\ TypeOK /\ LeaseIsExact /\ PendingHasRoom /\ CallerIsReady(w) /\ RecordsAreRetainable
      /\ writers[w].pc = "inspect" /\ writers[w].locals.op = "append"
      /\ UNCHANGED <<records, pending, leaseFile, foreign, publications>>
  BY DEF DInv, InspectForAppend, At
<1>1. PendingHasRoom' /\ pending' \in {NoFile} \cup 0..MaximumRecordLength
  BY <1>0 DEF PendingHasRoom, TypeOK
<1>2. CASE LastSequence(records) = MaximumSequence
  BY <1>0, <1>1, <1>2, ReturnStep DEF InspectForAppend
<1>3. CASE LastSequence(records) # MaximumSequence
  <2> DEFINE last == LastSequence(records)
             line == writers[w].locals.line
             locals == [op |-> "append", line |-> line, last |-> last]
  <2>1. /\ last \in 0..MaximumSequence /\ last < MaximumSequence
        /\ \A r \in records : r.sequence <= last
    BY <1>0, <1>3, LastSequenceBounds DEF LogConstants
  <2>2. /\ writers[w] = [pc |-> "inspect", locals |-> writers[w].locals]
        /\ writers[w].locals \in Locals
    BY <1>0, CallerShape
  <2>3. /\ writers[w].locals = [op |-> "append", line |-> line, last |-> writers[w].locals.last]
        /\ line \in Line
    BY <1>0, <2>2, AppendLocals
  <2> HIDE DEF last, line
  <2>4. locals \in Locals
    BY <2>1, <2>3 DEF Locals
  <2>5. /\ writers' = [writers EXCEPT ![w].pc = "prune", ![w].locals.last = last]
        /\ UNCHANGED <<mutex, lease>>
    BY <1>3 DEF InspectForAppend, last
  <2>6. writers' \in [Writers -> State] /\ writers'[w] = [pc |-> "prune", locals |-> locals]
        /\ \A v \in Writers \ {w} : writers'[v] = writers[v]
    <3>1. [writers EXCEPT ![w].pc = "prune", ![w].locals.last = last]
            = [writers EXCEPT ![w] = [pc |-> "prune", locals |-> [writers[w].locals EXCEPT !.last = last]]]
      <4> DEFINE moved == [writers[w] EXCEPT !.pc = "prune"]
      <4>1. moved = [pc |-> "prune", locals |-> writers[w].locals]
        BY <2>2
      <4>2. moved.locals = writers[w].locals
        BY <4>1
      <4> HIDE DEF moved
      <4>3. [moved EXCEPT !.locals.last = last]
              = [pc |-> "prune", locals |-> [writers[w].locals EXCEPT !.last = last]]
        BY <4>1, <4>2
      <4>4. [writers EXCEPT ![w].pc = "prune"] = [writers EXCEPT ![w] = moved]
        BY <1>0 DEF TypeOK, moved
      <4>5. [writers EXCEPT ![w].pc = "prune", ![w].locals.last = last]
              = [writers EXCEPT ![w] = [moved EXCEPT !.locals.last = last]]
        <5> DEFINE first == [writers EXCEPT ![w].pc = "prune"]
        <5>1. /\ first = [v \in Writers |-> first[v]] /\ first[w] = moved
              /\ \A v \in Writers \ {w} : first[v] = writers[v]
          BY <1>0, <4>4 DEF TypeOK
        <5>2. [writers EXCEPT ![w].pc = "prune", ![w].locals.last = last]
                = [first EXCEPT ![w].locals.last = last]
          OBVIOUS
        <5> HIDE DEF first
        <5>3. [first EXCEPT ![w].locals.last = last]
                = [first EXCEPT ![w] = [moved EXCEPT !.locals.last = last]]
          BY <5>1
        <5>4. [first EXCEPT ![w] = [moved EXCEPT !.locals.last = last]]
                = [writers EXCEPT ![w] = [moved EXCEPT !.locals.last = last]]
          BY <1>0, <5>1 DEF TypeOK
        <5> QED
          BY <5>2, <5>3, <5>4
      <4> QED
        BY <4>3, <4>5
    <3>2. [writers[w].locals EXCEPT !.last = last] = locals
      BY <2>3
    <3>3. [pc |-> "prune", locals |-> locals] \in State
      BY <2>4 DEF State, Steps
    <3> QED
      BY <1>0, <2>5, <3>1, <3>2, <3>3 DEF TypeOK
  <2>7. /\ writers'[w].pc = "prune" /\ writers'[w].locals.op = "append"
        /\ writers'[w].locals.line = writers[w].locals.line /\ writers'[w].locals.last = last
    BY <2>6 DEF line
  <2>8. CallerIsReady(w)'
    <3>1. /\ writers[w].locals.line.length <= MaximumRecordLength
          /\ writers[w].locals.line.length <= MaximumRetainedLength
      BY <1>0 DEF CallerIsReady
    <3> QED
      BY <1>0, <2>1, <2>7, <3>1 DEF CallerIsReady
  <2>9. ASSUME NEW v \in Writers PROVE lease' = v <=> writers'[v].pc \in Leased
    <3>1. CASE v = w
      BY <1>0, <2>5, <2>7, <3>1 DEF LeaseIsExact, Leased
    <3>2. CASE v # w
      <4>1. writers'[v] = writers[v]
        BY <2>6, <3>2
      <4> QED
        BY <1>0, <2>5, <4>1 DEF LeaseIsExact
    <3> QED
      BY <3>1, <3>2
  <2>10. /\ leaseFile' \in BOOLEAN /\ foreign' \in BOOLEAN
         /\ mutex' \in [Logs -> Writers \cup {NoWriter}]
         /\ lease' \in Writers \cup {NoWriter}
    BY <1>0, <2>5 DEF TypeOK
  <2>11. LeaseIsExact'
    BY <2>9 DEF LeaseIsExact
  <2> QED
    BY <1>0, <1>1, <2>6, <2>8, <2>10, <2>11, CallerStep
<1> QED
  BY <1>2, <1>3

\* Deleting the oldest record frees room and keeps the later ones in order.
LEMMA PruneOldestKeeps ==
    ASSUME LogConstants, DInv, NEW w \in Writers, PruneOldest(w)
    PROVE  DInv'
<1>0. /\ TypeOK /\ LeaseIsExact /\ PendingHasRoom /\ RecordsAreRetainable /\ RetainsTheLatest
      /\ \A v \in Writers : CallerIsReady(v)
      /\ writers[w].pc = "prune" /\ records' = records \ {Oldest(records)}
      /\ UNCHANGED <<pending, leaseFile, foreign, mutex, lease, writers, publications>>
  BY DEF DInv, PruneOldest, At
<1>1. IsFiniteSet(records) /\ Cardinality(records) \in Nat
  BY <1>0, FS_CardinalityType DEF RecordsAreRetainable
<1>2. \A r \in records : r.line.length \in Nat /\ r.sequence \in Nat
  BY <1>0, RecordShape
<1>3. CASE records = {}
  <2>1. records' = records
    BY <1>0, <1>3
  <2>2. TypeOK' /\ LeaseIsExact' /\ PendingHasRoom' /\ RecordsAreRetainable' /\ RetainsTheLatest'
    BY <1>0, <2>1 DEF TypeOK, LeaseIsExact, PendingHasRoom, RecordsAreRetainable, RetainsTheLatest
  <2>3. \A v \in Writers : CallerIsReady(v)'
    BY <1>0, <2>1 DEF CallerIsReady
  <2> QED
    BY <2>2, <2>3 DEF DInv
<1>4. CASE records # {}
  <2> DEFINE old == Oldest(records)
  <2>1. old \in records /\ \A s \in records : old.sequence <= s.sequence
    <3> DEFINE f == [r \in records |-> r.sequence]
    <3>1. f \in [records -> Int] /\ \A r \in records : f[r] = r.sequence
      BY <1>2
    <3> HIDE DEF f
    <3>2. \E r \in records : \A s \in records : f[r] <= f[s]
      BY <1>1, <1>4, <3>1, LeastMember
    <3>3. \E r \in records : \A s \in records : r.sequence <= s.sequence
      BY <3>1, <3>2
    <3> QED
      BY <3>3 DEF Oldest
  <2> HIDE DEF old
  <2>2. records' = records \ {old}
    BY <1>0 DEF old
  <2>3. IsFiniteSet(records') /\ Cardinality(records') = Cardinality(records) - 1
    BY <1>1, <2>1, <2>2, FS_RemoveElement
  <2>4. /\ RetainedLength(records) \in Nat /\ RetainedLength(records') \in Nat
        /\ RetainedLength(records) = old.line.length + RetainedLength(records')
    BY <1>1, <1>2, <2>1, <2>2, RetainedLengthStep
  <2>5. RetainedLength(records') <= RetainedLength(records)
    BY <1>2, <2>1, <2>4
  <2>6. TypeOK' /\ LeaseIsExact'
    BY <1>0, <2>2 DEF TypeOK, LeaseIsExact
  <2>7. PendingHasRoom'
    BY <1>0, <1>1, <2>3 DEF PendingHasRoom, LogConstants
  <2>8. RecordsAreRetainable'
    <3>1. Cardinality(records') <= MaximumRetainedFileCount
      BY <1>0, <1>1, <2>3 DEF RecordsAreRetainable, LogConstants
    <3>2. RetainedLength(records') <= MaximumRetainedLength
      BY <1>0, <2>4, <2>5 DEF RecordsAreRetainable, LogConstants
    <3> QED
      BY <1>0, <2>2, <2>3, <3>1, <3>2 DEF RecordsAreRetainable
  <2>9. ASSUME NEW v \in Writers PROVE CallerIsReady(v)'
    <3>0. CallerIsReady(v) /\ writers'[v] = writers[v]
      BY <1>0
    <3>1. CASE writers[v].pc \in {"write", "publish"}
      <4>1. /\ writers[v].locals.op = "append"
            /\ Cardinality(records) < MaximumRetainedFileCount
            /\ RetainedLength(records) + writers[v].locals.line.length <= MaximumRetainedLength
        BY <3>0, <3>1 DEF CallerIsReady
      <4>2. writers[v].locals.line.length \in Nat
        BY <1>0, <3>1, <4>1, CallerShape, AppendLocals
      <4>3. /\ Cardinality(records') < MaximumRetainedFileCount
            /\ RetainedLength(records') + writers[v].locals.line.length <= MaximumRetainedLength
        BY <1>1, <2>3, <2>4, <2>5, <4>1, <4>2 DEF LogConstants
      <4> QED
        BY <2>2, <3>0, <4>3 DEF CallerIsReady
    <3>2. CASE writers[v].pc \notin {"write", "publish"}
      BY <2>2, <3>0, <3>2 DEF CallerIsReady
    <3> QED
      BY <3>1, <3>2
  <2>10. RetainsTheLatest'
    <3> SUFFICES ASSUME NEW r \in records'
                 PROVE  r.publication = publications'
                          - Cardinality({s \in records' : s.sequence > r.sequence})
      BY DEF RetainsTheLatest
    <3>1. r \in records /\ r # old
      BY <2>2
    <3>2. ~(old.sequence > r.sequence)
      BY <1>2, <2>1, <3>1
    <3>3. {s \in records' : s.sequence > r.sequence} = {s \in records : s.sequence > r.sequence}
      BY <2>2, <3>2
    <3> QED
      BY <1>0, <3>1, <3>3 DEF RetainsTheLatest
  <2> QED
    BY <2>6, <2>7, <2>8, <2>9, <2>10 DEF DInv
<1> QED
  BY <1>3, <1>4

\* The rename publishes one record under a number above all others.
LEMMA PublishKeeps ==
    ASSUME LogConstants, DInv, NEW w \in Writers, Publish(w)
    PROVE  DInv'
<1> DEFINE line == writers[w].locals.line
           last == writers[w].locals.last
           new == [sequence |-> last + 1, line |-> line, publication |-> publications + 1]
<1>0. /\ TypeOK /\ LeaseIsExact /\ RecordsAreRetainable /\ RetainsTheLatest
      /\ \A v \in Writers : CallerIsReady(v)
      /\ writers[w].pc = "publish" /\ records' = records \cup {new}
      /\ publications' = publications + 1 /\ pending' = NoFile
      /\ Return(w) /\ UNCHANGED <<leaseFile, foreign>>
  BY DEF DInv, Publish, At
<1>1. /\ writers[w].locals.op = "append"
      /\ line.length <= MaximumRecordLength
      /\ last < MaximumSequence
      /\ \A r \in records : r.sequence <= last
      /\ Cardinality(records) < MaximumRetainedFileCount
      /\ RetainedLength(records) + line.length <= MaximumRetainedLength
  BY <1>0 DEF CallerIsReady
<1>2. line \in Line /\ last \in 0..MaximumSequence /\ line.length \in Nat
  BY <1>0, <1>1, CallerShape, AppendLocals
<1> HIDE DEF line, last
<1>3. new.sequence = last + 1 /\ new.line = line /\ new.publication = publications + 1
  OBVIOUS
<1>4. publications \in Nat
  BY <1>0 DEF TypeOK
<1>5. new \in Record
  BY <1>1, <1>2, <1>4 DEF Record, LogConstants
<1> HIDE DEF new
<1>6. IsFiniteSet(records) /\ Cardinality(records) \in Nat
  BY <1>0, FS_CardinalityType DEF RecordsAreRetainable
<1>7. \A r \in records : r.line.length \in Nat /\ r.sequence \in Nat /\ r.sequence < new.sequence
  <2>1. \A r \in records : r.line.length \in Nat /\ r.sequence \in Nat
    BY <1>0, RecordShape
  <2> QED
    BY <1>1, <1>2, <1>3, <2>1 DEF LogConstants
<1>8. new \notin records
  BY <1>7
<1>9. IsFiniteSet(records') /\ Cardinality(records') = Cardinality(records) + 1
  BY <1>0, <1>6, <1>8, FS_AddElement
<1>10. RetainedLength(records') = line.length + RetainedLength(records)
  <2>1. \A r \in records' : r.line.length \in Nat
    BY <1>0, <1>2, <1>3, <1>7
  <2>2. new \in records' /\ records' \ {new} = records
    BY <1>0, <1>8
  <2>3. RetainedLength(records') = new.line.length + RetainedLength(records' \ {new})
    BY <1>9, <2>1, <2>2, RetainedLengthStep
  <2> QED
    BY <1>3, <2>2, <2>3
<1>11. RetainedLength(records) \in Nat
  BY <1>6, <1>7, RetainedLengthStep
<1>12. /\ writers' \in [Writers -> State]
       /\ writers'[w].pc = "idle"
       /\ \A v \in Writers \ {w} : writers'[v] = writers[v]
       /\ mutex' \in [Logs -> Writers \cup {NoWriter}]
       /\ lease' \in Writers \cup {NoWriter}
       /\ LeaseIsExact'
  BY <1>0, ReturnShape
<1>13. TypeOK'
  BY <1>0, <1>4, <1>5, <1>12 DEF TypeOK
<1>14. ASSUME NEW v \in Writers PROVE CallerIsReady(v)'
  <2>1. CASE v = w
    BY <1>12, <2>1 DEF CallerIsReady
  <2>2. CASE v # w
    <3>1. writers'[v] = writers[v] /\ CallerIsReady(v)
      BY <1>0, <1>12, <2>2
    <3>2. lease = w
      BY <1>0 DEF LeaseIsExact, Leased
    <3>3. writers[v].pc \notin {"prune", "write", "publish"}
      BY <1>0, <2>2, <3>2 DEF LeaseIsExact, Leased
    <3> QED
      BY <3>1, <3>3 DEF CallerIsReady
  <2> QED
    BY <2>1, <2>2
<1>15. RecordsAreRetainable'
  <2>1. Cardinality(records') <= MaximumRetainedFileCount
    BY <1>1, <1>6, <1>9 DEF LogConstants
  <2>2. RetainedLength(records') <= MaximumRetainedLength
    BY <1>1, <1>2, <1>10, <1>11 DEF LogConstants
  <2>3. \A r \in records' : r.line.length <= MaximumRecordLength
    BY <1>0, <1>1, <1>3 DEF RecordsAreRetainable
  <2>4. \A r, s \in records' : r.sequence = s.sequence => r = s
    BY <1>0, <1>7 DEF RecordsAreRetainable
  <2> QED
    BY <1>9, <2>1, <2>2, <2>3, <2>4 DEF RecordsAreRetainable
<1>16. PendingHasRoom'
  BY <1>0 DEF PendingHasRoom
<1>17. RetainsTheLatest'
  <2> SUFFICES ASSUME NEW r \in records'
               PROVE  r.publication = publications'
                        - Cardinality({s \in records' : s.sequence > r.sequence})
    BY DEF RetainsTheLatest
  <2>0. new.sequence \in Nat
    BY <1>2, <1>3 DEF LogConstants
  <2>1. CASE r = new
    <3>1. {s \in records' : s.sequence > r.sequence} = {}
      BY <1>0, <1>7, <2>0, <2>1
    <3>2. Cardinality({s \in records' : s.sequence > r.sequence}) = 0
      BY <3>1, FS_EmptySet
    <3> QED
      BY <1>0, <1>3, <1>4, <2>1, <3>2
  <2>2. CASE r # new
    <3> DEFINE above == {s \in records : s.sequence > r.sequence}
    <3>1. r \in records
      BY <1>0, <2>2
    <3>2. {s \in records' : s.sequence > r.sequence} = above \cup {new}
      BY <1>0, <1>7, <2>0, <3>1
    <3>3. new \notin above /\ above \in SUBSET records
      BY <1>8
    <3>4. r.publication = publications - Cardinality(above)
      BY <1>0, <3>1 DEF RetainsTheLatest
    <3> HIDE DEF above
    <3>5. IsFiniteSet(above)
      BY <1>6, <3>3, FS_Subset
    <3>6. Cardinality(above \cup {new}) = Cardinality(above) + 1 /\ Cardinality(above) \in Nat
      BY <3>3, <3>5, FS_AddElement, FS_CardinalityType
    <3>7. Cardinality({s \in records' : s.sequence > r.sequence}) = Cardinality(above) + 1
      BY <3>2, <3>6
    <3>8. publications' = publications + 1
      BY <1>0
    <3>9. publications - Cardinality(above) = publications' - (Cardinality(above) + 1)
      BY <1>4, <3>6, <3>8
    <3> QED
      BY <3>4, <3>7, <3>9
  <2> QED
    BY <2>1, <2>2
<1> QED
  BY <1>12, <1>13, <1>14, <1>15, <1>16, <1>17 DEF DInv

\* The death of a process takes its callers away and leaves at most a partly
\* written pending slot.
LEMMA ProcessDiesKeeps ==
    ASSUME LogConstants, DInv, NEW log \in Logs, ProcessDies(log)
    PROVE  DInv'
<1> DEFINE gone == {w \in Writers : LogOf[w] = log /\ ~At(w, "idle")}
<1>0. /\ TypeOK /\ LeaseIsExact /\ PendingHasRoom /\ RecordsAreRetainable /\ RetainsTheLatest
      /\ \A v \in Writers : CallerIsReady(v)
  BY DEF DInv
<1>1. gone \subseteq Writers
  OBVIOUS
<1>2. /\ writers' = [w \in Writers |-> IF w \in gone THEN [pc |-> "idle"] ELSE writers[w]]
      /\ mutex' = [mutex EXCEPT ![log] = NoWriter]
      /\ lease' = IF lease \in gone THEN NoWriter ELSE lease
      /\ IF \E w \in gone : At(w, "write") THEN pending' \in 0..MaximumRecordLength
                                           ELSE pending' = pending
      /\ UNCHANGED <<records, leaseFile, foreign, publications>>
  BY DEF ProcessDies
<1> HIDE DEF gone
<1>3. /\ \A v \in gone : writers'[v].pc = "idle"
      /\ \A v \in Writers \ gone : writers'[v] = writers[v]
  BY <1>1, <1>2
<1>4. TypeOK'
  <2>1. [pc |-> "idle"] \in State
    BY DEF State
  <2>2. writers' \in [Writers -> State]
    BY <1>0, <1>2, <2>1 DEF TypeOK
  <2>3. mutex' \in [Logs -> Writers \cup {NoWriter}] /\ lease' \in Writers \cup {NoWriter}
    BY <1>0, <1>2 DEF TypeOK
  <2>4. pending' \in {NoFile} \cup 0..MaximumRecordLength
    BY <1>0, <1>2 DEF TypeOK
  <2> QED
    BY <1>0, <1>2, <2>2, <2>3, <2>4 DEF TypeOK
<1>5. LeaseIsExact'
  <2> SUFFICES ASSUME NEW v \in Writers PROVE lease' = v <=> writers'[v].pc \in Leased
    BY DEF LeaseIsExact
  <2>0. NoWriter # v
    BY DEF LogConstants
  <2>1. CASE v \in gone
    BY <1>2, <1>3, <2>0, <2>1 DEF Leased
  <2>2. CASE v \notin gone
    BY <1>0, <1>2, <1>3, <2>0, <2>2 DEF LeaseIsExact
  <2> QED
    BY <2>1, <2>2
<1>6. ASSUME NEW v \in Writers PROVE CallerIsReady(v)'
  <2>1. CASE v \in gone
    BY <1>3, <2>1 DEF CallerIsReady
  <2>2. CASE v \notin gone
    <3>1. writers'[v] = writers[v] /\ CallerIsReady(v) /\ records' = records
      BY <1>0, <1>2, <1>3, <2>2
    <3> QED
      BY <3>1 DEF CallerIsReady
  <2> QED
    BY <2>1, <2>2
<1>7. RecordsAreRetainable' /\ RetainsTheLatest'
  BY <1>0, <1>2 DEF RecordsAreRetainable, RetainsTheLatest
<1>8. PendingHasRoom'
  <2>1. CASE \E w \in gone : At(w, "write")
    <3>1. PICK w \in gone : writers[w].pc = "write"
      BY <2>1 DEF At
    <3>2. Cardinality(records) < MaximumRetainedFileCount
      BY <1>0, <1>1, <3>1 DEF CallerIsReady
    <3> QED
      BY <1>2, <3>2 DEF PendingHasRoom
  <2>2. CASE ~\E w \in gone : At(w, "write")
    BY <1>0, <1>2, <2>2 DEF PendingHasRoom
  <2> QED
    BY <2>1, <2>2
<1> QED
  BY <1>4, <1>5, <1>6, <1>7, <1>8 DEF DInv

\* Every step of the log keeps the invariant.
LEMMA LogNext ==
    ASSUME LogConstants, DInv, [Next]_vars
    PROVE  DInv'
<1>1. CASE Next
  <2>1. ASSUME NEW w \in Writers, Step(w) PROVE DInv'
    BY <2>1, QuietStepKeeps, InspectForAppendKeeps, PruneOldestKeeps, PublishKeeps DEF Step
  <2>2. ASSUME NEW w \in Writers, Snapshot(w) PROVE DInv'
    BY <2>2, SnapshotKeeps
  <2>3. ASSUME NEW w \in Writers, NEW fact \in Fact, NEW length \in LineLengths,
               AppendRecord(w, fact, length)
        PROVE  DInv'
    BY <2>3, AppendRecordKeeps
  <2>4. ASSUME NEW log \in Logs, ProcessDies(log) PROVE DInv'
    BY <2>4, ProcessDiesKeeps
  <2>5. CASE ForeignObject
    <3>1. TypeOK' /\ LeaseIsExact' /\ RecordsAreRetainable' /\ PendingHasRoom' /\ RetainsTheLatest'
      BY <2>5 DEF DInv, ForeignObject, TypeOK, LeaseIsExact, RecordsAreRetainable,
                  PendingHasRoom, RetainsTheLatest
    <3>2. \A w \in Writers : CallerIsReady(w)'
      BY <2>5 DEF DInv, ForeignObject, CallerIsReady
    <3> QED
      BY <3>1, <3>2 DEF DInv
  <2> QED
    BY <1>1, <2>1, <2>2, <2>3, <2>4, <2>5 DEF Next
<1>2. CASE UNCHANGED vars
  <2>1. TypeOK' /\ LeaseIsExact' /\ RecordsAreRetainable' /\ PendingHasRoom' /\ RetainsTheLatest'
    BY <1>2 DEF DInv, vars, TypeOK, LeaseIsExact, RecordsAreRetainable, PendingHasRoom,
                RetainsTheLatest
  <2>2. \A w \in Writers : CallerIsReady(w)'
    BY <1>2 DEF DInv, vars, CallerIsReady
  <2> QED
    BY <2>1, <2>2 DEF DInv
<1> QED
  BY <1>1, <1>2

\* The inductive invariant holds of every behaviour of the log objects, however
\* many share the folder (LocalDiagnosticLog::append and snapshot).
THEOREM LogInvariant == Spec => []DInv
<1>1. LogConstants
  BY LogConstants
<1>2. Init => DInv
  BY <1>1, LogInit
<1>3. DInv /\ [Next]_vars => DInv'
  BY <1>1, LogNext
<1> QED
  BY <1>2, <1>3, PTL DEF Spec

\* In every state of the invariant the records and the one being written are
\* within both limits, and inspectRecords accepts the log's own files.
LEMMA InvariantMeansUsable ==
    ASSUME DInv
    PROVE  FolderStaysUsable
<1> DEFINE incoming == {w \in Writers : writers[w].pc \in {"write", "publish"}}
           lengths == [w \in incoming |-> writers[w].locals.line.length]
<1>0. /\ TypeOK /\ LeaseIsExact /\ PendingHasRoom /\ RecordsAreRetainable
      /\ \A v \in Writers : CallerIsReady(v)
  BY DEF DInv
<1>1. IsFiniteSet(records) /\ Cardinality(records) \in Nat
  BY <1>0, FS_CardinalityType DEF RecordsAreRetainable
<1>2. \A r \in records : r.line.length \in Nat
  BY <1>0, LogConstants DEF TypeOK, Record, Line
<1>3. RetainedLength(records) \in Nat
  BY <1>1, <1>2, RetainedLengthStep
<1>4. /\ Cardinality(records) + Cardinality(incoming) <= MaximumRetainedFileCount
      /\ RetainedLength(records) + TotalLength(lengths) <= MaximumRetainedLength
  <2>1. CASE incoming = {}
    <3>1. Cardinality(incoming) = 0 /\ IsFiniteSet({})
      BY <2>1, FS_EmptySet
    <3>3. TotalLength(lengths) = 0
      BY <2>1, NothingHasNoLength
    <3> HIDE DEF incoming, lengths
    <3> QED
      BY <1>0, <1>1, <1>3, <3>1, <3>3 DEF RecordsAreRetainable
  <2>2. CASE incoming # {}
    <3>1. PICK w \in incoming : TRUE
      BY <2>2
    <3>2. w \in Writers /\ writers[w].pc \in {"write", "publish"} /\ lease = w
      BY <1>0, <3>1 DEF LeaseIsExact, Leased
    <3>3. incoming = {w}
      BY <1>0, <3>2 DEF LeaseIsExact, Leased
    <3>4. /\ writers[w].locals.op = "append"
          /\ Cardinality(records) < MaximumRetainedFileCount
          /\ RetainedLength(records) + writers[w].locals.line.length <= MaximumRetainedLength
      BY <1>0, <3>2 DEF CallerIsReady
    <3>5. writers[w].locals.line.length \in Nat
      BY <1>0, <3>2, <3>4, LogConstants, CallerShape, AppendLocals
    <3>6. lengths \in [{w} -> Nat] /\ lengths[w] = writers[w].locals.line.length
      BY <3>3, <3>5
    <3>7. Cardinality(incoming) = 1 /\ IsFiniteSet({w})
      BY <3>3, FS_Singleton
    <3> HIDE DEF incoming, lengths
    <3>8. TotalLength(lengths) = lengths[w]
      <4> DEFINE rest == [y \in {w} \ {w} |-> lengths[y]]
      <4>2. TotalLength(rest) = 0
        BY NothingHasNoLength
      <4>3. w \in {w}
        OBVIOUS
      <4>4. TotalLength(lengths) = lengths[w] + TotalLength(rest)
        BY <3>6, <3>7, <4>3, TotalLengthStep
      <4> HIDE DEF rest
      <4> QED
        BY <3>5, <3>6, <4>2, <4>4
    <3> QED
      BY <1>1, <3>4, <3>6, <3>7, <3>8, LogConstants
  <2> QED
    BY <2>1, <2>2
<1>5. ~foreign => InspectionAccepts
  <2>1. FileCount <= SupportedFileCount + 1
    BY <1>0, <1>1, LogConstants DEF FileCount, PendingHasRoom, RecordsAreRetainable
  <2>2. pending # NoFile => pending <= MaximumRecordLength
    BY <1>0, LogConstants DEF TypeOK
  <2>3. \A r \in records : ReadSafeRecord(r.line.text)
    BY <1>0 DEF TypeOK, Record, Line, ReadSafeRecord
  <2> QED
    BY <1>0, <2>1, <2>2, <2>3 DEF InspectionAccepts, RecordsAreRetainable
<1> QED
  BY <1>4, <1>5, Zenon DEF FolderStaysUsable

\* LocalDiagnosticLog::append and inspectRecords: the folder never exceeds its
\* limits, the record being published included, and the log's own files never
\* make it unusable, for every limit and every number of callers and objects.
THEOREM FoldersStayUsable == Spec => []FolderStaysUsable
<1>1. DInv => FolderStaysUsable
  BY InvariantMeansUsable
<1> QED
  BY <1>1, LogInvariant, PTL

\* LocalDiagnosticLog::append and snapshot: what is retained is always the
\* latest publications, in order and without a gap.
THEOREM LatestAreRetained == Spec => []RetainsTheLatest
<1>1. DInv => RetainsTheLatest
  BY DEF DInv
<1> QED
  BY <1>1, LogInvariant, PTL
=============================================================================
