---------------------------- MODULE BatchProofs ----------------------------
(***************************************************************************)
(* Safety of BatchProcessingCoordinator for every number of files and       *)
(* workers, every memory charge and every budget: BInv is inductive.  The   *)
(* steps of processFileAt that end in a row have one shape (Writes) or go   *)
(* on to the next check (Proceeds), and are treated as such.                *)
(***************************************************************************)
EXTENDS BatchInvariant, FiniteSetTheorems, TLAPS

-----------------------------------------------------------------------------
(* Sums over the workers.  The library's induction theorems take an operator *)
(* as a parameter; these facts are proved instead by looking at a smallest   *)
(* subset that would be a counterexample.                                    *)

\* What the fold computes, as a function of the index set.
IsSum(g, h, S) ==
    g = [s \in SUBSET S |-> IF s = {} THEN 0
                            ELSE h[CHOOSE x \in s : TRUE] + g[s \ {CHOOSE x \in s : TRUE}]]

\* A family of subsets of a finite set has a member that is minimal in it: the
\* form of induction that the other lemmas use.
LEMMA SubsetMinimum ==
    ASSUME NEW S, IsFiniteSet(S), NEW T, T \subseteq SUBSET S, T # {}
    PROVE  \E m \in T : \A u \in T : u \subseteq m => u = m
<1>1. T \subseteq FiniteSubsetsOf(S)
  BY FS_FiniteSubsetsOfFinite
<1>2. IsWellFoundedOn(StrictSubsetOrdering(S), FiniteSubsetsOf(S))
  BY FS_StrictSubsetOrderingWellFounded
<1>3. PICK m \in T : \A u \in T : ~(<<u, m>> \in StrictSubsetOrdering(S))
  BY <1>1, <1>2, WFMin
<1>4. \A u \in T : u \subseteq m => u = m
  BY <1>3 DEF StrictSubsetOrdering
<1> QED
  BY <1>4

\* What is summed over T depends on the summands of T only, whatever the index
\* set it is computed within (the reservations of the other workers).
LEMMA SumUnique ==
    ASSUME NEW S, IsFiniteSet(S), NEW R, IsFiniteSet(R),
           NEW h, NEW k, NEW f, NEW g, IsSum(f, h, S), IsSum(g, k, R),
           NEW T, T \subseteq S, T \subseteq R, \A x \in T : h[x] = k[x]
    PROVE  f[T] = g[T]
<1> DEFINE Bad == {s \in SUBSET T : f[s] # g[s]}
<1>1. SUFFICES ASSUME Bad # {} PROVE FALSE
  OBVIOUS
<1>2. IsFiniteSet(T)
  BY FS_Subset
<1>3. PICK m \in Bad : \A u \in Bad : u \subseteq m => u = m
  <2>1. Bad \subseteq SUBSET T
    OBVIOUS
  <2> HIDE DEF Bad
  <2> QED
    BY <1>1, <1>2, <2>1, SubsetMinimum
<1>4. m # {}
  BY <1>3 DEF IsSum
<1> DEFINE c == CHOOSE x \in m : TRUE
<1>5. c \in m
  BY <1>4
<1> HIDE DEF c
<1>6. f[m \ {c}] = g[m \ {c}]
  <2>1. m \ {c} \in SUBSET T /\ m \ {c} # m
    BY <1>5
  <2> QED
    BY <1>3, <2>1
<1>7. m \in SUBSET S /\ m \in SUBSET R /\ h[c] = k[c]
  BY <1>3, <1>5
<1>8. f[m] = h[c] + f[m \ {c}] /\ g[m] = k[c] + g[m \ {c}]
  BY <1>4, <1>7 DEF IsSum, c
<1> QED
  BY <1>3, <1>6, <1>7, <1>8

\* The recursion has a solution, so that the fold's CHOOSE picks one.
LEMMA SumExists ==
    ASSUME NEW S, IsFiniteSet(S), NEW h
    PROVE  \E g : IsSum(g, h, S)
<1> DEFINE Bad == {s \in SUBSET S : ~\E g : IsSum(g, h, s)}
<1>1. SUFFICES ASSUME Bad # {} PROVE FALSE
  OBVIOUS
<1>3. PICK m \in Bad : \A u \in Bad : u \subseteq m => u = m
  <2>1. Bad \subseteq SUBSET S
    OBVIOUS
  <2> HIDE DEF Bad
  <2> QED
    BY <1>1, <2>1, SubsetMinimum
<1>4. \A u \in SUBSET m : u # m => \E g : IsSum(g, h, u)
  BY <1>3
<1> DEFINE F(u) == CHOOSE g : IsSum(g, h, u)
           ch(s) == CHOOSE x \in s : TRUE
           Low(u) == IF u = {} THEN 0 ELSE h[ch(u)] + F(u \ {ch(u)})[u \ {ch(u)}]
           G == [u \in SUBSET m |-> Low(u)]
<1>5. \A u \in SUBSET m : u # m => IsSum(F(u), h, u)
  BY <1>4
<1>6. \A u \in SUBSET m : u # {} => ch(u) \in u
  OBVIOUS
<1> HIDE DEF F, ch
<1>7. \A u \in SUBSET m : u # m => G[u] = F(u)[u]
  <2> SUFFICES ASSUME NEW u \in SUBSET m, u # m PROVE G[u] = F(u)[u]
    OBVIOUS
  <2>1. CASE u = {}
    BY <1>5, <2>1 DEF IsSum
  <2>2. CASE u # {}
    <3> DEFINE v == u \ {ch(u)}
    <3>1. v \in SUBSET m /\ v # m /\ v \subseteq u
      BY <1>6, <2>2
    <3>2. IsSum(F(u), h, u) /\ IsSum(F(v), h, v)
      BY <1>5, <3>1
    <3>3. F(u)[u] = h[ch(u)] + F(u)[v]
      BY <2>2, <3>2 DEF IsSum, ch
    <3>4. IsFiniteSet(u) /\ IsFiniteSet(v)
      BY <3>1, <1>3, FS_Subset
    <3>5. F(u)[v] = F(v)[v]
      BY <3>1, <3>2, <3>4, SumUnique
    <3> QED
      BY <2>2, <3>3, <3>5
  <2> QED
    BY <2>1, <2>2
<1>8. \A u \in SUBSET m : u # {} => G[u] = h[ch(u)] + G[u \ {ch(u)}]
  <2> SUFFICES ASSUME NEW u \in SUBSET m, u # {} PROVE G[u] = h[ch(u)] + G[u \ {ch(u)}]
    OBVIOUS
  <2>1. u \ {ch(u)} \in SUBSET m /\ u \ {ch(u)} # m
    BY <1>6
  <2>2. G[u \ {ch(u)}] = F(u \ {ch(u)})[u \ {ch(u)}]
    BY <1>7, <2>1
  <2> HIDE DEF G
  <2>3. G[u] = h[ch(u)] + F(u \ {ch(u)})[u \ {ch(u)}]
    BY DEF G
  <2> QED
    BY <2>2, <2>3
<1>9. G[{}] = 0
  OBVIOUS
<1>10. G = [s \in SUBSET m |-> IF s = {} THEN 0 ELSE h[ch(s)] + G[s \ {ch(s)}]]
  <2> HIDE DEF G
  <2>1. G = [u \in SUBSET m |-> G[u]]
    BY DEF G
  <2> QED
    BY <1>8, <1>9, <2>1
<1> HIDE DEF G
<1>11. IsSum(G, h, m)
  BY <1>10 DEF IsSum, ch
<1> QED
  BY <1>3, <1>11

\* The fold of the models (reserved memory, retained length), without its operator
\* parameter.
Total(h) == FoldFunction(+, 0, h)

\* The fold computes the recursive sum over the whole domain.
LEMMA FoldIsSum ==
    ASSUME NEW S, IsFiniteSet(S), NEW h \in [S -> Nat]
    PROVE  \E g : IsSum(g, h, S) /\ Total(h) = g[S]
<1>1. \E g : IsSum(g, h, S)
  BY SumExists
<1>2. DOMAIN h = S
  OBVIOUS
<1> DEFINE it == CHOOSE g : IsSum(g, h, S)
<1>3. IsSum(it, h, S)
  BY <1>1
<1>4. Total(h) = it[S]
  BY <1>2, Zenon DEF IsSum, Total, FoldFunction, FoldFunctionOnSet, MapThenFoldSet
<1> QED
  BY <1>3, <1>4

\* A sum is a natural number, and any summand may be taken out of it first.
LEMMA SumStep ==
    ASSUME NEW S, IsFiniteSet(S), NEW h \in [S -> Nat], NEW g, IsSum(g, h, S)
    PROVE  \A T \in SUBSET S : /\ g[T] \in Nat
                               /\ \A x \in T : g[T] = h[x] + g[T \ {x}]
<1> DEFINE Good(T) == g[T] \in Nat /\ \A x \in T : g[T] = h[x] + g[T \ {x}]
           Bad == {T \in SUBSET S : ~Good(T)}
<1>1. SUFFICES ASSUME Bad # {} PROVE FALSE
  OBVIOUS
<1>2. PICK m \in Bad : \A u \in Bad : u \subseteq m => u = m
  <2>1. Bad \subseteq SUBSET S
    OBVIOUS
  <2> HIDE DEF Bad
  <2> QED
    BY <1>1, <2>1, SubsetMinimum
<1>3. \A u \in SUBSET m : u # m => Good(u)
  BY <1>2
<1>4. m # {}
  BY <1>2 DEF IsSum
<1> DEFINE c == CHOOSE x \in m : TRUE
<1>5. c \in m
  BY <1>4
<1>6. g[m] = h[c] + g[m \ {c}]
  BY <1>2, <1>4 DEF IsSum
<1> HIDE DEF c
<1>7. g[m \ {c}] \in Nat /\ \A x \in m \ {c} : g[m \ {c}] = h[x] + g[(m \ {c}) \ {x}]
  BY <1>3, <1>5
<1>8. g[m] \in Nat
  BY <1>2, <1>5, <1>6, <1>7
<1>9. ASSUME NEW x \in m PROVE g[m] = h[x] + g[m \ {x}]
  <2>1. CASE x = c
    BY <1>6, <2>1
  <2>2. CASE x # c
    <3>1. g[m \ {c}] = h[x] + g[(m \ {c}) \ {x}]
      BY <1>7, <2>2
    <3>2. Good(m \ {x})
      BY <1>3
    <3>3. g[m \ {x}] = h[c] + g[(m \ {x}) \ {c}]
      BY <1>5, <2>2, <3>2
    <3>4. (m \ {c}) \ {x} = (m \ {x}) \ {c}
      OBVIOUS
    <3>5. g[(m \ {x}) \ {c}] \in Nat
      BY <1>3, <1>5
    <3>6. h[x] \in Nat /\ h[c] \in Nat
      BY <1>2, <1>5
    <3>7. g[m] = h[c] + (h[x] + g[(m \ {x}) \ {c}])
      BY <1>6, <3>1, <3>4
    <3>8. h[c] + (h[x] + g[(m \ {x}) \ {c}]) = h[x] + (h[c] + g[(m \ {x}) \ {c}])
      BY <3>5, <3>6
    <3> QED
      BY <3>3, <3>7, <3>8
  <2> QED
    BY <2>1, <2>2
<1> QED
  BY <1>2, <1>8, <1>9

\* The total is a natural number and bounds each summand.
LEMMA FoldType ==
    ASSUME NEW S, IsFiniteSet(S), NEW h \in [S -> Nat]
    PROVE  /\ Total(h) \in Nat
           /\ \A x \in S : h[x] <= Total(h)
<1>1. PICK g : IsSum(g, h, S) /\ Total(h) = g[S]
  BY FoldIsSum
<1>2. S \in SUBSET S /\ \A x \in S : S \ {x} \in SUBSET S
  OBVIOUS
<1>3. g[S] \in Nat /\ \A x \in S : g[S] = h[x] + g[S \ {x}] /\ g[S \ {x}] \in Nat
  BY <1>1, <1>2, SumStep
<1>4. ASSUME NEW x \in S PROVE h[x] <= g[S]
  <2>1. h[x] \in Nat /\ g[S \ {x}] \in Nat /\ g[S] = h[x] + g[S \ {x}]
    BY <1>3
  <2> QED
    BY <2>1
<1> QED
  BY <1>1, <1>3, <1>4

\* Changing one value changes the total by the difference (a reservation that
\* is made or given back).
LEMMA FoldUpdate ==
    ASSUME NEW S, IsFiniteSet(S), NEW h \in [S -> Nat], NEW w \in S, NEW c \in Nat
    PROVE  Total([h EXCEPT ![w] = c]) = Total(h) - h[w] + c
<1> DEFINE k == [h EXCEPT ![w] = c]
<1>1. k \in [S -> Nat] /\ k[w] = c /\ \A x \in S \ {w} : k[x] = h[x]
  OBVIOUS
<1> HIDE DEF k
<1>2. PICK f : IsSum(f, h, S) /\ Total(h) = f[S]
  BY FoldIsSum
<1>3. PICK g : IsSum(g, k, S) /\ Total(k) = g[S]
  BY <1>1, FoldIsSum
<1>4. f[S \ {w}] = g[S \ {w}]
  <2>1. S \ {w} \subseteq S
    OBVIOUS
  <2> QED
    BY <1>1, <1>2, <1>3, <2>1, SumUnique
<1>9. S \in SUBSET S /\ S \ {w} \in SUBSET S
  OBVIOUS
<1>5. f[S] = h[w] + f[S \ {w}] /\ f[S \ {w}] \in Nat
  <2>1. \A T \in SUBSET S : f[T] \in Nat /\ \A x \in T : f[T] = h[x] + f[T \ {x}]
    BY <1>2, SumStep
  <2> QED
    BY <1>9, <2>1
<1>6. g[S] = k[w] + g[S \ {w}]
  BY <1>1, <1>3, SumStep
<1>7. Total(k) = Total(h) - h[w] + c
  BY <1>1, <1>2, <1>3, <1>4, <1>5, <1>6
<1> QED
  BY <1>7 DEF k

\* Nothing held is nothing reserved.
LEMMA FoldZero ==
    ASSUME NEW S, IsFiniteSet(S)
    PROVE  Total([x \in S |-> 0]) = 0
<1> DEFINE h == [x \in S |-> 0]
<1>1. h \in [S -> Nat] /\ \A x \in S : h[x] = 0
  OBVIOUS
<1> HIDE DEF h
<1>2. PICK g : IsSum(g, h, S) /\ Total(h) = g[S]
  BY <1>1, FoldIsSum
<1> DEFINE Bad == {T \in SUBSET S : g[T] # 0}
<1>3. SUFFICES ASSUME Bad # {} PROVE FALSE
  BY <1>2 DEF h
<1>4. PICK m \in Bad : \A u \in Bad : u \subseteq m => u = m
  <2>1. Bad \subseteq SUBSET S
    OBVIOUS
  <2> HIDE DEF Bad
  <2> QED
    BY <1>3, <2>1, SubsetMinimum
<1>5. PICK x \in m : TRUE
  BY <1>2, <1>4 DEF IsSum
<1>6. g[m] = h[x] + g[m \ {x}]
  BY <1>1, <1>2, <1>4, SumStep
<1>7. g[m \ {x}] = 0
  BY <1>4
<1> QED
  BY <1>1, <1>4, <1>6, <1>7

-----------------------------------------------------------------------------
(* Shapes of steps *)

\* The rows of the batch's result.
Row == [outcome : Outcome, error : AnalysisError \cup {"None", "RecoveryConflict"}]

\* The terminal steps of processFile: a truthful row, and then the accounting,
\* or the stop of the others when it reports a conflict.
Writes(w) ==
    /\ \E r \in Row, e \in BOOLEAN :
         /\ r.outcome = "Saved" => e
         /\ e => r.outcome = "Saved" \/ r.error = "RecoveryConflict"
         /\ r.error = "None" <=>
              r.outcome \in {"Saved", "NoOrientationNormalizationRequired"}
         /\ r.error = "Cancelled" /\ plan[index[w]].kind # "Cancelled" =>
              stop \/ ~discoveryComplete
         /\ row' = [row EXCEPT ![index[w]] = r]
         /\ effect' = [effect EXCEPT ![index[w]] = e]
         /\ \/ /\ r.error # "RecoveryConflict"
               /\ Goto(w, "Account") /\ UNCHANGED integrityFailure
            \/ /\ Goto(w, "RequestStop") /\ integrityFailure' = TRUE
               /\ integrityFailure \/ wpc[w] = "Commit"
    /\ ReleaseCommit(w) \/ UNCHANGED commitOwner

\* The checks of processFile that are passed.
Proceeds(w) ==
    /\ \E p \in Early : /\ Goto(w, p)
                        /\ p = "ConflictBeforeCommit" => FALSE
                        /\ p = "StopInsideCommit" =>
                             wpc[w] = "ConflictBeforeCommit" /\ ~integrityFailure
                        /\ p = "Commit" => wpc[w] = "StopInsideCommit"
    /\ UNCHANGED <<row, effect, commitOwner, integrityFailure>>

\* The steps of processFile up to the row.
Check(w) ==
    \/ CheckConflict(w) \/ CheckStop(w) \/ Admit(w) \/ Capture(w) \/ Transform(w)
    \/ StopBeforeCommit(w) \/ ConflictBeforeCommit(w) \/ StopInsideCommit(w) \/ Commit(w)

\* The values of a row.
LEMMA RowValues ==
    ASSUME NEW o \in Outcome, NEW c \in AnalysisError \cup {"None", "RecoveryConflict"}
    PROVE  [outcome |-> o, error |-> c] \in Row
BY Zenon DEF Row

\* A worker with a file has the plan and the row of that file.
LEMMA WorkerFile ==
    ASSUME TypeOK, IndexInv, NEW w \in Workers, wpc[w] \in Processing
    PROVE  index[w] \in Files /\ index[w] \in Nat
BY FileCountsAssumption DEF TypeOK, IndexInv, Files

\* A recorded error is a terminal step when the code had a reason to record it.
LEMMA RecordErrorWrites ==
    ASSUME TypeOK, IndexInv, RowInv, NEW w \in Workers, wpc[w] \in Early,
           NEW code \in AnalysisError \cup {"RecoveryConflict"}, NEW t \in BOOLEAN,
           RecordError(w, code, t),
           \/ effect' = effect
           \/ /\ code = "RecoveryConflict"
              /\ \E e \in BOOLEAN : effect' = [effect EXCEPT ![index[w]] = e],
           code = "Cancelled" /\ plan[index[w]].kind # "Cancelled" =>
             stop \/ ~discoveryComplete,
           code = "RecoveryConflict" => integrityFailure \/ wpc[w] = "Commit"
    PROVE  Writes(w)
<1> DEFINE o == OutcomeOf(code, t)
           r == [outcome |-> o, error |-> code]
<1>1. o \in Outcome /\ o \notin {"Saved", "NoOrientationNormalizationRequired"}
  BY DEF OutcomeOf, Outcome, AnalysisError
<1> HIDE DEF o
<1>2. r \in Row
  BY <1>1, RowValues
<1>3. r.outcome = o /\ r.error = code
  OBVIOUS
<1>4. index[w] \in Files
  BY WorkerFile DEF Early, Processing, WorkerPoint
<1>5. PICK e \in BOOLEAN : /\ effect' = [effect EXCEPT ![index[w]] = e]
                           /\ e => code = "RecoveryConflict"
  <2>1. CASE effect' = effect
    <3>1. effect[index[w]] = FALSE /\ effect \in [Files -> BOOLEAN]
      BY <1>4 DEF RowInv, Untouched, TypeOK
    <3>2. effect = [effect EXCEPT ![index[w]] = FALSE]
      BY <3>1, <1>4
    <3> QED
      BY <2>1, <3>2
  <2> QED
    BY <2>1
<1>6. row' = [row EXCEPT ![index[w]] = r]
  BY DEF RecordError, Terminal, o
<1> HIDE DEF r
<1>7. /\ \/ /\ code # "RecoveryConflict"
            /\ Goto(w, "Account") /\ UNCHANGED integrityFailure
         \/ /\ Goto(w, "RequestStop") /\ integrityFailure' = TRUE
            /\ integrityFailure \/ wpc[w] = "Commit"
      /\ ReleaseCommit(w) \/ UNCHANGED commitOwner
  BY DEF RecordError
<1>8. code # "None"
  BY DEF AnalysisError
<1> QED
  BY <1>1, <1>2, <1>3, <1>5, <1>6, <1>7, <1>8 DEF Writes

\* A step that writes no error is terminal too: nothing to do, or saved.
LEMMA SuccessWrites ==
    ASSUME TypeOK, IndexInv, RowInv, NEW w \in Workers, wpc[w] \in Early,
           NEW o \in {"Saved", "NoOrientationNormalizationRequired"},
           Terminal(w, o, "None"), Goto(w, "Account"), UNCHANGED integrityFailure,
           ReleaseCommit(w) \/ UNCHANGED commitOwner,
           effect' = IF o = "Saved" THEN [effect EXCEPT ![index[w]] = TRUE] ELSE effect
    PROVE  Writes(w)
<1> DEFINE r == [outcome |-> o, error |-> "None"]
<1>1. o \in Outcome
  BY DEF Outcome
<1>2. r \in Row
  BY <1>1, RowValues
<1>3. r.outcome = o /\ r.error = "None"
  OBVIOUS
<1>4. index[w] \in Files
  BY WorkerFile DEF Early, Processing, WorkerPoint
<1>5. effect[index[w]] = FALSE /\ effect \in [Files -> BOOLEAN]
  BY <1>4 DEF RowInv, Untouched, TypeOK
<1>6. effect' = [effect EXCEPT ![index[w]] = (o = "Saved")]
  BY <1>4, <1>5
<1>7. row' = [row EXCEPT ![index[w]] = r]
  BY DEF Terminal
<1> HIDE DEF r
<1> QED
  BY <1>2, <1>3, <1>6, <1>7 DEF Writes

\* Every check of processFile either ends in a row or goes on to the next one;
\* only admission reserves memory.
LEMMA CheckShape ==
    ASSUME TypeOK, IndexInv, RowInv, NEW w \in Workers, Check(w)
    PROVE  /\ wpc[w] \in Early /\ Local
           /\ Writes(w) \/ Proceeds(w)
           /\ Admit(w) \/ UNCHANGED memory
<1>1. wpc[w] \in Early /\ Local /\ (Admit(w) \/ UNCHANGED memory)
  BY DEF Check, CheckConflict, CheckStop, Admit, Capture, Transform, StopBeforeCommit,
         ConflictBeforeCommit, StopInsideCommit, Commit, Early
<1>2. CASE CheckConflict(w)
  <2>1. CASE integrityFailure
    BY <1>1, <1>2, <2>1, RecordErrorWrites DEF CheckConflict
  <2>2. CASE ~integrityFailure /\ plan[index[w]].kind \in AnalysisError
    BY <1>1, <1>2, <2>2, RecordErrorWrites DEF CheckConflict, AnalysisError
  <2>3. CASE ~integrityFailure /\ plan[index[w]].kind \notin AnalysisError
    BY <1>1, <1>2, <2>3 DEF CheckConflict, Proceed, Proceeds, Early
  <2> QED
    BY <1>1, <2>1, <2>2, <2>3
<1>3. CASE CheckStop(w)
  <2>1. CASE stop \/ ~discoveryComplete
    BY <1>1, <1>3, <2>1, RecordErrorWrites DEF CheckStop, AnalysisError
  <2>2. CASE ~(stop \/ ~discoveryComplete) /\ plan[index[w]].kind = "NoTransform"
    BY <1>1, <1>3, <2>2, SuccessWrites DEF CheckStop
  <2>3. CASE ~(stop \/ ~discoveryComplete) /\ plan[index[w]].kind # "NoTransform"
    BY <1>1, <1>3, <2>3 DEF CheckStop, Proceed, Proceeds, Early
  <2> QED
    BY <1>1, <2>1, <2>2, <2>3
<1>4. CASE Admit(w)
  <2>1. CASE RecordError(w, IF integrityFailure THEN "RecoveryConflict"
                            ELSE "Cancelled", FALSE) /\ stop
    <3>1. CASE integrityFailure
      BY <1>1, <1>4, <2>1, <3>1, RecordErrorWrites DEF Admit
    <3>2. CASE ~integrityFailure
      BY <1>1, <1>4, <2>1, <3>2, RecordErrorWrites DEF Admit, AnalysisError
    <3> QED
      BY <3>1, <3>2
  <2>2. CASE Proceed(w, "Capture") \/ Proceed(w, "Asleep")
    BY <1>4, <2>2 DEF Admit, Proceed, Proceeds, Early
  <2> QED
    BY <1>1, <1>4, <2>1, <2>2 DEF Admit
<1>5. CASE Capture(w)
  <2>1. CASE Proceed(w, "Transform")
    BY <1>5, <2>1 DEF Capture, Proceed, Proceeds, Early
  <2>2. CASE stop /\ RecordError(w, "Cancelled", FALSE)
    BY <1>1, <1>5, <2>2, RecordErrorWrites DEF Capture, AnalysisError
  <2>3. CASE \E code \in {"Unsupported", "Failed"} : RecordError(w, code, FALSE)
    BY <1>1, <1>5, <2>3, RecordErrorWrites DEF Capture, AnalysisError
  <2> QED
    BY <1>1, <1>5, <2>1, <2>2, <2>3 DEF Capture
<1>6. CASE Transform(w)
  <2>1. CASE Proceed(w, "StopBeforeCommit")
    BY <1>6, <2>1 DEF Transform, Proceed, Proceeds, Early
  <2>2. CASE stop /\ \E entered \in BOOLEAN : RecordError(w, "Cancelled", entered)
    BY <1>1, <1>6, <2>2, RecordErrorWrites DEF Transform, AnalysisError
  <2>3. CASE \E code \in {"Unsupported", "Failed"} : RecordError(w, code, TRUE)
    BY <1>1, <1>6, <2>3, RecordErrorWrites DEF Transform, AnalysisError
  <2> QED
    BY <1>1, <1>6, <2>1, <2>2, <2>3 DEF Transform
<1>7. CASE StopBeforeCommit(w)
  <2>1. CASE stop
    BY <1>1, <1>7, <2>1, RecordErrorWrites DEF StopBeforeCommit, AnalysisError
  <2>2. CASE ~stop
    BY <1>7, <2>2 DEF StopBeforeCommit, Proceed, Proceeds, Early
  <2> QED
    BY <1>1, <2>1, <2>2
<1>8. CASE ConflictBeforeCommit(w)
  <2>1. CASE integrityFailure
    BY <1>1, <1>8, <2>1, RecordErrorWrites DEF ConflictBeforeCommit
  <2>2. CASE ~integrityFailure
    BY <1>8, <2>2 DEF ConflictBeforeCommit, Proceed, Proceeds, Early
  <2> QED
    BY <1>1, <2>1, <2>2
<1>9. CASE StopInsideCommit(w)
  <2>1. CASE stop
    BY <1>1, <1>9, <2>1, RecordErrorWrites DEF StopInsideCommit, AnalysisError
  <2>2. CASE ~stop
    BY <1>9, <2>2 DEF StopInsideCommit, Proceed, Proceeds, Early
  <2> QED
    BY <1>1, <2>1, <2>2
<1>10. CASE Commit(w)
  <2>1. CASE /\ effect' = [effect EXCEPT ![index[w]] = TRUE]
             /\ Terminal(w, "Saved", "None") /\ Goto(w, "Account")
             /\ ReleaseCommit(w) /\ UNCHANGED integrityFailure
    BY <1>1, <2>1, SuccessWrites
  <2>2. CASE /\ \E code \in {"Failed"} \cup (IF stop THEN {"Cancelled"} ELSE {}) :
                   RecordError(w, code, TRUE)
             /\ UNCHANGED effect
    BY <1>1, <2>2, RecordErrorWrites DEF AnalysisError
  <2>3. CASE /\ RecordError(w, "RecoveryConflict", TRUE)
             /\ \E committed \in BOOLEAN :
                   effect' = [effect EXCEPT ![index[w]] = committed]
    BY <1>1, <1>10, <2>3, RecordErrorWrites DEF Commit
  <2> QED
    BY <1>1, <1>10, <2>1, <2>2, <2>3 DEF Commit
<1> QED
  BY <1>2, <1>3, <1>4, <1>5, <1>6, <1>7, <1>8, <1>9, <1>10 DEF Check

-----------------------------------------------------------------------------
(* Memory *)

\* The workers are finitely many, and a plan's charge is a number.
LEMMA WorkersFinite == IsFiniteSet(Workers) /\ Workers \subseteq Nat \ {0}
BY FS_Interval, WorkerLimitAssumption DEF Workers

\* What a worker may reserve for its file.
LEMMA ChargeType ==
    ASSUME TypeOK, IndexInv, NEW w \in Workers, wpc[w] \in Processing
    PROVE  plan[index[w]].charge \in Charges \cup {0}
<1>1. plan[index[w]] \in Plan
  BY WorkerFile DEF TypeOK
<1> QED
  BY <1>1 DEF Plan

\* Two images share memory within a budget only.
SharedWithinBudget ==
    Cardinality(Holders) > 1 => \E budget \in Budgets : reserved <= budget

\* MemoryWithinBudget in terms of the total, now and after a step.
LEMMA BudgetParts ==
    /\ MemoryWithinBudget <=> reserved = Total(held) /\ SharedWithinBudget
    /\ MemoryWithinBudget' <=> reserved' = Total(held') /\ SharedWithinBudget'
<1>1. MemoryWithinBudget <=> reserved = Total(held) /\ SharedWithinBudget
  BY Zenon DEF MemoryWithinBudget, Total, SharedWithinBudget
<1>2. (MemoryWithinBudget <=> reserved = Total(held) /\ SharedWithinBudget)'
  BY Zenon DEF MemoryWithinBudget, Total, SharedWithinBudget
<1> QED
  BY <1>1, <1>2

\* The reservations are numbers, and the estimate is their sum.
LEMMA HeldType ==
    ASSUME TypeOK, MemoryWithinBudget
    PROVE  /\ held \in [Workers -> Nat] /\ reserved = Total(held)
           /\ \A w \in Workers : held[w] <= reserved
<1>1. held \in [Workers -> Nat]
  <2>1. Charges \cup {0} \subseteq Nat
    BY ChargesAssumption
  <2>2. held \in [Workers -> Charges \cup {0}]
    BY DEF TypeOK
  <2> QED
    BY <2>1, <2>2
<1>2. reserved = Total(held)
  BY BudgetParts
<1> QED
  BY <1>1, <1>2, WorkersFinite, FoldType

\* Memory changes by an admission and by a release only.
LEMMA MemoryFrame ==
    ASSUME TypeOK, IndexInv, RowInv, [Next]_vars
    PROVE  \/ UNCHANGED memory
           \/ \E w \in Workers : Admit(w) \/ Release(w)
<1>1. CASE UNCHANGED vars
  BY <1>1 DEF vars
<1>2. CASE CallerStep \/ Cancel \/ Returned
  BY <1>2 DEF CallerStep, Prepare, SpawnWorker, ReleaseWorkers, JoinWorkers, Cancel,
              Returned, vars
<1>3. ASSUME NEW w \in Workers, WorkerStep(w) \/ SpuriousWakeup(w)
      PROVE  UNCHANGED memory \/ Admit(w) \/ Release(w)
  <2>1. CASE Check(w)
    BY <2>1, CheckShape
  <2> QED
    BY <1>3, <2>1 DEF WorkerStep, Check, SpuriousWakeup, InitializeApartment, StartWorker,
         TakeFile, LockCommit, RequestStop, Account, Notify, Throw, RecordException,
         StopOthers
<1> QED
  BY <1>1, <1>2, <1>3 DEF Next

\* Admission and release keep the estimate exact and within the budget: an
\* image that does not fit is admitted only when nobody else holds memory.
LEMMA MemoryStep ==
    ASSUME TypeOK, IndexInv, RowInv, HoldInv, MemoryWithinBudget, [Next]_vars
    PROVE  MemoryWithinBudget' /\ reserved' \in Nat
           /\ held' \in [Workers -> Charges \cup {0}]
<1>1. CASE UNCHANGED memory
  <2>1. held' = held /\ reserved' = reserved
    BY <1>1 DEF memory
  <2>2. reserved' = Total(held') /\ SharedWithinBudget'
    BY <2>1, BudgetParts DEF SharedWithinBudget, Holders
  <2> QED
    BY <2>1, <2>2, BudgetParts DEF TypeOK
<1>2. ASSUME NEW w \in Workers, Admit(w)
      PROVE  MemoryWithinBudget' /\ reserved' \in Nat
             /\ held' \in [Workers -> Charges \cup {0}]
  <2> DEFINE charge == plan[index[w]].charge
  <2>1. charge \in Charges \cup {0}
    BY <1>2, ChargeType DEF Admit, Processing, WorkerPoint
  <2> HIDE DEF charge
  <2>4. charge \in Nat
    BY <2>1, ChargesAssumption
  <2>2. CASE UNCHANGED memory
    BY <1>1, <2>2
  <2>3. ASSUME NEW budget \in Budgets, Fits(charge, budget),
               reserved' = reserved + charge, held' = [held EXCEPT ![w] = charge]
        PROVE  MemoryWithinBudget' /\ reserved' \in Nat
               /\ held' \in [Workers -> Charges \cup {0}]
    <3>1. held[w] = 0
      BY <1>2 DEF HoldInv, Admit
    <3>2. held \in [Workers -> Nat] /\ reserved = Total(held)
          /\ \A v \in Workers : held[v] <= reserved
      BY HeldType
    <3>3. Total(held') = Total(held) - held[w] + charge
      <4>1. Total([held EXCEPT ![w] = charge]) = Total(held) - held[w] + charge
        BY <2>4, <3>2, WorkersFinite, FoldUpdate, ZenonT(60)
      <4> QED
        BY <2>3, <4>1
    <3>4. reserved' = Total(held')
      BY <2>3, <2>4, <3>1, <3>2, <3>3 DEF TypeOK
    <3>5. held' \in [Workers -> Charges \cup {0}] /\ reserved' \in Nat
      BY <2>1, <2>3, <2>4 DEF TypeOK
    <3>6. ASSUME Cardinality(Holders') > 1 PROVE reserved' <= budget
      <4>1. CASE reserved = 0
        <5>1. \A v \in Workers : held[v] = 0
          BY <3>2, <4>1
        <5>2. Holders' \subseteq {w}
          BY <2>3, <3>2, <5>1 DEF Holders
        <5>3. IsFiniteSet({w}) /\ Cardinality({w}) = 1
          BY FS_Singleton
        <5>4. Cardinality(Holders') <= 1 /\ Cardinality(Holders') \in Nat
          BY <5>2, <5>3, FS_Subset, FS_CardinalityType
        <5> QED
          BY <3>6, <5>4
      <4>2. CASE reserved # 0
        BY <2>3, <2>4, <4>2, BudgetsAssumption DEF Fits, TypeOK
      <4> QED
        BY <4>1, <4>2
    <3> QED
      BY <3>4, <3>5, <3>6, BudgetParts DEF SharedWithinBudget
  <2> QED
    BY <1>2, <2>2, <2>3 DEF Admit, charge
<1>3. ASSUME NEW w \in Workers, Release(w)
      PROVE  MemoryWithinBudget' /\ reserved' \in Nat
             /\ held' \in [Workers -> Charges \cup {0}]
  <2>1. held \in [Workers -> Nat] /\ reserved = Total(held)
        /\ \A v \in Workers : held[v] <= reserved
    BY HeldType
  <2>2. reserved' = reserved - held[w] /\ held' = [held EXCEPT ![w] = 0]
    BY <1>3 DEF Release
  <2>3. Total(held') = Total(held) - held[w] + 0
    <3>1. ASSUME NEW c \in Nat
          PROVE  Total([held EXCEPT ![w] = c]) = Total(held) - held[w] + c
      BY <2>1, WorkersFinite, FoldUpdate, ZenonT(60)
    <3>2. 0 \in Nat
      OBVIOUS
    <3>3. Total([held EXCEPT ![w] = 0]) = Total(held) - held[w] + 0
      BY <3>1, <3>2, Zenon
    <3> QED
      BY <2>2, <3>3
  <2>4. reserved' = Total(held') /\ reserved' \in Nat /\ reserved' <= reserved
    BY <2>1, <2>2, <2>3 DEF TypeOK
  <2>5. held' \in [Workers -> Charges \cup {0}]
    BY <2>2 DEF TypeOK
  <2>6. ASSUME Cardinality(Holders') > 1 PROVE \E budget \in Budgets : reserved' <= budget
    <3>1. Holders' \subseteq Holders /\ Holders \subseteq Workers
      BY <2>1, <2>2 DEF Holders
    <3>2. IsFiniteSet(Holders)
      BY <3>1, WorkersFinite, FS_Subset
    <3>3. /\ Cardinality(Holders') <= Cardinality(Holders)
          /\ Cardinality(Holders') \in Nat /\ Cardinality(Holders) \in Nat
      BY <3>1, <3>2, FS_Subset, FS_CardinalityType
    <3>4. PICK budget \in Budgets : reserved <= budget
      BY <2>6, <3>3, BudgetParts DEF SharedWithinBudget
    <3> QED
      BY <2>4, <3>4, BudgetsAssumption DEF TypeOK
  <2> QED
    BY <2>4, <2>5, <2>6, BudgetParts DEF SharedWithinBudget
<1> QED
  BY <1>1, <1>2, <1>3, MemoryFrame

\* Memory is held between admission and release.
LEMMA HoldStep ==
    ASSUME TypeOK, CallerInv, IndexInv, RowInv, HoldInv, [Next]_vars
    PROVE  HoldInv'
<1>1. CASE UNCHANGED vars
  BY <1>1 DEF vars, memory, HoldInv
<1>2. CASE CallerStep \/ Cancel \/ Returned
  <2> USE DEF vars, memory, HoldInv, TypeOK, Waiting, CallerInv, Workers
  <2>1. CASE Prepare
    BY <2>1 DEF Prepare
  <2>2. CASE SpawnWorker
    BY <2>2 DEF SpawnWorker
  <2>3. CASE ReleaseWorkers
    BY <2>3 DEF ReleaseWorkers
  <2>4. CASE JoinWorkers
    BY <2>4 DEF JoinWorkers
  <2>5. CASE Cancel \/ Returned
    BY <2>5 DEF Cancel, Returned
  <2> QED
    BY <1>2, <2>1, <2>2, <2>3, <2>4, <2>5 DEF CallerStep
<1>3. ASSUME NEW w \in Workers, WorkerStep(w) \/ SpuriousWakeup(w)
      PROVE  HoldInv'
  <2>1. CASE Check(w) /\ ~Admit(w)
    <3>1. UNCHANGED memory
      BY <2>1, CheckShape
    <3> USE <3>1 DEF RecordError, Proceed, Goto, HoldInv, Waiting, memory, TypeOK
    <3>2. CASE CheckConflict(w)
      BY <3>2 DEF CheckConflict
    <3>3. CASE CheckStop(w)
      BY <3>3 DEF CheckStop
    <3>4. CASE Capture(w)
      BY <3>4 DEF Capture
    <3>5. CASE Transform(w)
      BY <3>5 DEF Transform
    <3>6. CASE StopBeforeCommit(w)
      BY <3>6 DEF StopBeforeCommit
    <3>7. CASE ConflictBeforeCommit(w)
      BY <3>7 DEF ConflictBeforeCommit
    <3>8. CASE StopInsideCommit(w)
      BY <3>8 DEF StopInsideCommit
    <3>9. CASE Commit(w)
      BY <3>9 DEF Commit
    <3> QED
      BY <2>1, <3>2, <3>3, <3>4, <3>5, <3>6, <3>7, <3>8, <3>9 DEF Check
  <2>2. CASE Admit(w)
    BY <2>2 DEF Admit, RecordError, Proceed, Goto, HoldInv, Waiting, memory, TypeOK
  <2> USE DEF Leave, Goto, WakeAnd, HoldInv, Waiting, memory, TypeOK
  <2>3. CASE SpuriousWakeup(w)
    BY <2>3 DEF SpuriousWakeup
  <2>4. CASE InitializeApartment(w)
    BY <2>4 DEF InitializeApartment
  <2>5. CASE StartWorker(w)
    BY <2>5 DEF StartWorker
  <2>6. CASE TakeFile(w)
    BY <2>6 DEF TakeFile
  <2>7. CASE LockCommit(w)
    BY <2>7 DEF LockCommit
  <2>8. CASE RequestStop(w)
    BY <2>8 DEF RequestStop
  <2>9. CASE Account(w)
    BY <2>9 DEF Account
  <2>10. CASE Release(w)
    BY <2>10 DEF Release
  <2>11. CASE Notify(w)
    BY <2>11 DEF Notify
  <2>12. CASE Throw(w)
    BY <2>12 DEF Throw
  <2>13. CASE RecordException(w)
    BY <2>13 DEF RecordException
  <2>14. CASE StopOthers(w)
    BY <2>14 DEF StopOthers
  <2> QED
    BY <1>3, <2>1, <2>2, <2>3, <2>4, <2>5, <2>6, <2>7, <2>8,
       <2>9, <2>10, <2>11, <2>12, <2>13, <2>14 DEF WorkerStep, Check
<1> QED
  BY <1>1, <1>2, <1>3 DEF Next

\* The sizes that a batch works with.
LEMMA Sizes ==
    ASSUME TypeOK
    PROVE  /\ fileCount \in Nat /\ WorkerCount \in Nat
           /\ WorkerCount <= fileCount /\ 1..WorkerCount \subseteq Workers
BY FileCountsAssumption, WorkerLimitAssumption DEF TypeOK, WorkerCount, Workers

-----------------------------------------------------------------------------
(* Types, the caller, and what the workers hand to each other *)

\* TypeOK but for the memory and the progress, whose types follow from what
\* they count.
TypeRest ==
    /\ fileCount \in FileCounts
    /\ plan \in [Files -> Plan] /\ discoveryComplete \in BOOLEAN
    /\ mpc \in {"Prepare", "Spawn", "AwaitReady", "Join", "Returned"}
    /\ spawned \in 0..WorkerCount
    /\ initializationFailed \in BOOLEAN /\ abortStartup \in BOOLEAN
    /\ wpc \in [Workers -> WorkerPoint]
    /\ index \in [Workers -> 0..fileCount]
    /\ nextIndex \in 1..(fileCount + 1)
    /\ commitOwner \in Workers \cup {0}
    /\ throwing \in [Workers -> BOOLEAN]
    /\ userStop \in BOOLEAN /\ stop \in BOOLEAN
    /\ integrityFailure \in BOOLEAN /\ workerFailure \in BOOLEAN
    /\ row \in [Files -> Row] /\ effect \in [Files -> BOOLEAN]
    /\ result \in {"None", "Success", "Failure", "Thrown"}

\* The rows of a batch.
LEMMA RowType == ASSUME TypeOK PROVE row \in [Files -> Row]
BY Zenon DEF TypeOK, Row

\* A step keeps every variable in its type (memory and progress apart).
LEMMA TypeStep ==
    ASSUME TypeOK, CallerInv, IndexInv, RowInv, [Next]_vars
    PROVE  TypeRest'
<1> USE FileCountsAssumption, WorkerLimitAssumption, RowType DEF vars, batch, caller, work, signals, results, memory,
        TypeOK, TypeRest, Files, WorkerCount, WorkerPoint, Early, Workers
<1>1. CASE UNCHANGED vars
  BY <1>1
<1>2. CASE Prepare
  <2>1. /\ mpc' \in {"Returned", "Join", "Spawn"} /\ spawned' \in 0..WorkerCount
        /\ result' \in {"None", "Failure", "Success"}
    BY <1>2, Sizes DEF Prepare, Return, CallerInv
  <2>2. wpc' \in [Workers -> WorkerPoint]
    BY <1>2 DEF Prepare
  <2>3. UNCHANGED <<batch, initializationFailed, abortStartup, work, memory,
                    commitOwner, throwing, userStop, signals, results>>
    BY <1>2 DEF Prepare
  <2> QED
    BY <2>1, <2>2, <2>3, SMTT(30)
<1>3. CASE SpawnWorker
  <2>1. spawned' \in 0..WorkerCount
    BY <1>3, Sizes, SMTT(30) DEF SpawnWorker
  <2>2. wpc' \in [Workers -> WorkerPoint]
    BY <1>3 DEF SpawnWorker
  <2>3. mpc' \in {"Spawn", "AwaitReady", "Join"} /\ abortStartup' \in BOOLEAN
    BY <1>3 DEF SpawnWorker
  <2>4. UNCHANGED <<batch, initializationFailed, result, work, memory, commitOwner,
                    throwing, userStop, signals, results>>
    BY <1>3 DEF SpawnWorker
  <2> QED
    BY <2>1, <2>2, <2>3, <2>4, RowType
<1>4. CASE ReleaseWorkers
  BY <1>4 DEF ReleaseWorkers
<1>5. CASE JoinWorkers
  BY <1>5 DEF JoinWorkers, Return
<1>6. CASE Cancel
  BY <1>6 DEF Cancel
<1>7. CASE Returned
  BY <1>7 DEF Returned
<1>8. ASSUME NEW w \in Workers, Check(w) PROVE TypeRest'
  <2>1. wpc[w] \in Early /\ Local /\ (Writes(w) \/ Proceeds(w))
    BY <1>8, CheckShape
  <2>2. index[w] \in Files
    BY <2>1, WorkerFile DEF Processing
  <2>3. row' \in [Files -> Row] /\ effect' \in [Files -> BOOLEAN]
    <3>1. CASE Proceeds(w)
      BY <3>1, RowType DEF Proceeds
    <3>2. CASE Writes(w)
      <4>1. PICK r \in Row, e \in BOOLEAN : /\ row' = [row EXCEPT ![index[w]] = r]
                                           /\ effect' = [effect EXCEPT ![index[w]] = e]
        BY <3>2 DEF Writes
      <4> QED
        BY <2>2, <4>1, RowType
    <3> QED
      BY <2>1, <3>1, <3>2
  <2>4. wpc' \in [Workers -> WorkerPoint] /\ integrityFailure' \in BOOLEAN
    <3>1. CASE Proceeds(w)
      BY <3>1 DEF Proceeds, Goto
    <3>2. CASE Writes(w)
      <4>1. /\ Goto(w, "Account") \/ Goto(w, "RequestStop")
            /\ integrityFailure' \in {integrityFailure, TRUE}
        BY <3>2 DEF Writes
      <4> QED
        BY <4>1 DEF Goto
    <3> QED
      BY <2>1, <3>1, <3>2
  <2>5. commitOwner' \in Workers \cup {0}
    BY <2>1 DEF Writes, Proceeds, ReleaseCommit
  <2> QED
    BY <2>1, <2>3, <2>4, <2>5 DEF Local
<1>9. ASSUME NEW w \in Workers, InitializeApartment(w) PROVE TypeRest'
  <2>1. initializationFailed' \in BOOLEAN /\ wpc' \in [Workers -> WorkerPoint]
    BY <1>9 DEF InitializeApartment, Goto
  <2> QED
    BY <1>9, <2>1 DEF InitializeApartment
<1>10. ASSUME NEW w \in Workers, StartWorker(w) PROVE TypeRest'
  BY <1>10 DEF StartWorker, Goto
<1>11. ASSUME NEW w \in Workers, TakeFile(w) PROVE TypeRest'
  <2>1. wpc' \in [Workers -> WorkerPoint]
    BY <1>11, SMTT(30) DEF TakeFile, Goto
  <2>2. index' \in [Workers -> 0..fileCount] /\ nextIndex' \in 1..(fileCount + 1)
    <3>1. CASE nextIndex > fileCount
      BY <1>11, <3>1 DEF TakeFile
    <3>2. CASE ~(nextIndex > fileCount)
      <4>1. index' = [index EXCEPT ![w] = nextIndex] /\ nextIndex' = nextIndex + 1
        BY <1>11, <3>2 DEF TakeFile
      <4>2. nextIndex \in 0..fileCount /\ nextIndex + 1 \in 1..(fileCount + 1)
        BY <3>2, Sizes
      <4> QED
        BY <4>1, <4>2
    <3> QED
      BY <3>1, <3>2
  <2>3. UNCHANGED <<batch, caller, memory, commitOwner, throwing, userStop, signals,
                    results>>
    BY <1>11 DEF TakeFile
  <2> QED
    BY <2>1, <2>2, <2>3
<1>12. ASSUME NEW w \in Workers, LockCommit(w) PROVE TypeRest'
  BY <1>12 DEF LockCommit, Goto, Local
<1>13. ASSUME NEW w \in Workers, RequestStop(w) PROVE TypeRest'
  BY <1>13 DEF RequestStop, WakeAnd, ReleaseCommit
<1>14. ASSUME NEW w \in Workers, Account(w) PROVE TypeRest'
  BY <1>14 DEF Account, Goto
<1>15. ASSUME NEW w \in Workers, Release(w) PROVE TypeRest'
  BY <1>15 DEF Release, Goto, Leave
<1>16. ASSUME NEW w \in Workers, Notify(w) PROVE TypeRest'
  BY <1>16, SMTT(30) DEF Notify, WakeAnd, Leave
<1>17. ASSUME NEW w \in Workers, Throw(w) PROVE TypeRest'
  <2>1. effect' \in [Files -> BOOLEAN]
    BY <1>17 DEF Throw
  <2>2. /\ wpc' \in [Workers -> WorkerPoint] /\ throwing' \in [Workers -> BOOLEAN]
        /\ commitOwner' \in Workers \cup {0}
    BY <1>17 DEF Throw, Goto, ReleaseCommit
  <2>3. UNCHANGED <<batch, caller, work, memory, userStop, signals, row, progress>>
    BY <1>17 DEF Throw
  <2> QED
    BY <2>1, <2>2, <2>3, SMTT(30)
<1>18. ASSUME NEW w \in Workers, RecordException(w) PROVE TypeRest'
  BY <1>18, SMTT(30) DEF RecordException, Goto
<1>19. ASSUME NEW w \in Workers, StopOthers(w) PROVE TypeRest'
  BY <1>19 DEF StopOthers, WakeAnd
<1>20. ASSUME NEW w \in Workers, SpuriousWakeup(w) PROVE TypeRest'
  BY <1>20 DEF SpuriousWakeup, Goto
<1> QED
  BY <1>1, <1>2, <1>3, <1>4, <1>5, <1>6, <1>7, <1>8, <1>9, <1>10, <1>11, <1>12,
     <1>13, <1>14, <1>15, <1>16, <1>17, <1>18, <1>19, <1>20
  DEF Next, CallerStep, WorkerStep, Check

\* No file is taken before the release of the workers or after a failed start,
\* and the caller returns after every worker.
LEMMA CallerStepKeeps ==
    ASSUME TypeOK, CallerInv, ExitInv, IndexInv, RowInv, [Next]_vars
    PROVE  CallerInv'
<1> USE FileCountsAssumption, WorkerLimitAssumption DEF vars, batch, caller, work, signals, results, memory,
        TypeOK, CallerInv, ExitInv, WorkerCount, Waiting, Early, Workers
<1>1. CASE UNCHANGED vars
  BY <1>1
<1>2. CASE Prepare
  <2>1. CASE WorkerCount = 1
    BY <1>2, <2>1 DEF Prepare, Return, Pool
  <2>2. CASE WorkerCount = 0
    <3>1. fileCount = 0
      BY <2>2, Sizes
    <3> QED
      BY <1>2, <2>2, <3>1 DEF Prepare, Return, Pool
  <2>3. CASE WorkerCount > 1
    BY <1>2, <2>3 DEF Prepare, Return, Pool
  <2> QED
    BY <2>1, <2>2, <2>3, Sizes
<1>3. CASE SpawnWorker
  <2>1. CASE /\ spawned < WorkerCount /\ spawned' = spawned + 1
             /\ wpc' = [wpc EXCEPT ![spawned + 1] = "Initialize"]
             /\ UNCHANGED <<mpc, abortStartup>>
    BY <1>3, <2>1 DEF SpawnWorker
  <2>2. CASE UNCHANGED <<spawned, wpc>>
    BY <1>3, <2>2 DEF SpawnWorker
  <2> QED
    BY <1>3, <2>1, <2>2 DEF SpawnWorker
<1>4. CASE ReleaseWorkers
  BY <1>4 DEF ReleaseWorkers
<1>5. CASE JoinWorkers
  BY <1>5 DEF JoinWorkers, Return
<1>6. CASE Cancel
  BY <1>6 DEF Cancel
<1>7. CASE Returned
  BY <1>7 DEF Returned
<1>8. ASSUME NEW w \in Workers, Check(w) PROVE CallerInv'
  <2>1. wpc[w] \in Early /\ Local /\ (Writes(w) \/ Proceeds(w))
    BY <1>8, CheckShape
  <2>2. PICK p \in Early \cup {"Account", "RequestStop"} : wpc' = [wpc EXCEPT ![w] = p]
    <3>1. CASE Writes(w)
      <4>1. Goto(w, "Account") \/ Goto(w, "RequestStop")
        BY <3>1 DEF Writes
      <4> QED
        BY <4>1 DEF Goto
    <3>2. CASE Proceeds(w)
      <4>1. \E p \in Early : Goto(w, p)
        BY <3>2 DEF Proceeds
      <4> QED
        BY <4>1 DEF Goto
    <3> QED
      BY <2>1, <3>1, <3>2
  <2>3. wpc'[w] = p /\ \A v \in Workers : v # w => wpc'[v] = wpc[v]
    BY <2>2
  <2>4. UNCHANGED <<mpc, abortStartup, workerFailure, nextIndex, spawned, result, batch>>
    BY <2>1 DEF Local
  <2>5. wpc[w] \notin Waiting \cup {"Unspawned", "Exited"}
    BY <2>1
  <2> QED
    BY <2>3, <2>4, <2>5
<1>9. ASSUME NEW w \in Workers, InitializeApartment(w) PROVE CallerInv'
  BY <1>9 DEF InitializeApartment, Goto
<1>10. ASSUME NEW w \in Workers, StartWorker(w) PROVE CallerInv'
  BY <1>10 DEF StartWorker, Goto
<1>11. ASSUME NEW w \in Workers, TakeFile(w) PROVE CallerInv'
  BY <1>11 DEF TakeFile, Goto
<1>12. ASSUME NEW w \in Workers, LockCommit(w) PROVE CallerInv'
  BY <1>12 DEF LockCommit, Goto, Local
<1>13. ASSUME NEW w \in Workers, RequestStop(w) PROVE CallerInv'
  BY <1>13 DEF RequestStop, WakeAnd, ReleaseCommit
<1>14. ASSUME NEW w \in Workers, Account(w) PROVE CallerInv'
  BY <1>14 DEF Account, Goto
<1>15. ASSUME NEW w \in Workers, Release(w) PROVE CallerInv'
  BY <1>15 DEF Release, Goto, Leave
<1>16. ASSUME NEW w \in Workers, Notify(w) PROVE CallerInv'
  BY <1>16 DEF Notify, WakeAnd, Leave
<1>17. ASSUME NEW w \in Workers, Throw(w) PROVE CallerInv'
  BY <1>17 DEF Throw, Goto, ReleaseCommit
<1>18. ASSUME NEW w \in Workers, RecordException(w) PROVE CallerInv'
  BY <1>18 DEF RecordException, Goto
<1>19. ASSUME NEW w \in Workers, StopOthers(w) PROVE CallerInv'
  BY <1>19 DEF StopOthers, WakeAnd
<1>20. ASSUME NEW w \in Workers, SpuriousWakeup(w) PROVE CallerInv'
  BY <1>20 DEF SpuriousWakeup, Goto
<1> QED
  BY <1>1, <1>2, <1>3, <1>4, <1>5, <1>6, <1>7, <1>8, <1>9, <1>10, <1>11, <1>12,
     <1>13, <1>14, <1>15, <1>16, <1>17, <1>18, <1>19, <1>20
  DEF Next, CallerStep, WorkerStep, Check

\* An exception unwinds its worker up to its exit.
LEMMA ExitStep ==
    ASSUME TypeOK, CallerInv, ExitInv, IndexInv, RowInv, [Next]_vars
    PROVE  ExitInv'
<1> USE WorkersFinite DEF vars, batch, caller, work, signals, results, memory,
        TypeOK, CallerInv, ExitInv, Waiting, Early
<1>1. CASE UNCHANGED vars
  BY <1>1
<1>2. CASE Prepare
  BY <1>2 DEF Prepare, Return, Pool
<1>3. CASE SpawnWorker
  BY <1>3 DEF SpawnWorker
<1>4. CASE ReleaseWorkers
  BY <1>4 DEF ReleaseWorkers
<1>5. CASE JoinWorkers
  BY <1>5 DEF JoinWorkers, Return
<1>6. CASE Cancel
  BY <1>6 DEF Cancel
<1>7. CASE Returned
  BY <1>7 DEF Returned
<1>8. ASSUME NEW w \in Workers, Check(w) PROVE ExitInv'
  <2>1. wpc[w] \in Early /\ Local /\ (Writes(w) \/ Proceeds(w))
    BY <1>8, CheckShape
  <2> QED
    BY <2>1 DEF Writes, Proceeds, Goto, ReleaseCommit, Local
<1>9. ASSUME NEW w \in Workers, InitializeApartment(w) PROVE ExitInv'
  BY <1>9 DEF InitializeApartment, Goto
<1>10. ASSUME NEW w \in Workers, StartWorker(w) PROVE ExitInv'
  BY <1>10 DEF StartWorker, Goto
<1>11. ASSUME NEW w \in Workers, TakeFile(w) PROVE ExitInv'
  BY <1>11 DEF TakeFile, Goto
<1>12. ASSUME NEW w \in Workers, LockCommit(w) PROVE ExitInv'
  BY <1>12 DEF LockCommit, Goto, Local
<1>13. ASSUME NEW w \in Workers, RequestStop(w) PROVE ExitInv'
  BY <1>13 DEF RequestStop, WakeAnd, ReleaseCommit
<1>14. ASSUME NEW w \in Workers, Account(w) PROVE ExitInv'
  BY <1>14 DEF Account, Goto
<1>15. ASSUME NEW w \in Workers, Release(w) PROVE ExitInv'
  BY <1>15 DEF Release, Goto, Leave
<1>16. ASSUME NEW w \in Workers, Notify(w) PROVE ExitInv'
  BY <1>16 DEF Notify, WakeAnd, Leave
<1>17. ASSUME NEW w \in Workers, Throw(w) PROVE ExitInv'
  BY <1>17 DEF Throw, Goto, ReleaseCommit
<1>18. ASSUME NEW w \in Workers, RecordException(w) PROVE ExitInv'
  BY <1>18 DEF RecordException, Goto
<1>19. ASSUME NEW w \in Workers, StopOthers(w) PROVE ExitInv'
  BY <1>19 DEF StopOthers, WakeAnd
<1>20. ASSUME NEW w \in Workers, SpuriousWakeup(w) PROVE ExitInv'
  BY <1>20 DEF SpuriousWakeup, Goto
<1> QED
  BY <1>1, <1>2, <1>3, <1>4, <1>5, <1>6, <1>7, <1>8, <1>9, <1>10, <1>11, <1>12,
     <1>13, <1>14, <1>15, <1>16, <1>17, <1>18, <1>19, <1>20
  DEF Next, CallerStep, WorkerStep, Check

\* A file is handed to one worker.
LEMMA IndexStep ==
    ASSUME TypeOK, CallerInv, IndexInv, RowInv, [Next]_vars
    PROVE  IndexInv'
<1> USE FileCountsAssumption, WorkerLimitAssumption DEF vars, batch, caller, work, signals, results, memory,
        TypeOK, CallerInv, IndexInv, Processing, WorkerPoint, Waiting, Early, WorkerCount,
        Workers
<1>1. CASE UNCHANGED vars
  BY <1>1
<1>2. CASE Prepare
  BY <1>2 DEF Prepare, Return, Pool
<1>3. CASE SpawnWorker
  BY <1>3 DEF SpawnWorker
<1>4. CASE ReleaseWorkers
  BY <1>4 DEF ReleaseWorkers
<1>5. CASE JoinWorkers
  BY <1>5 DEF JoinWorkers, Return
<1>6. CASE Cancel
  BY <1>6 DEF Cancel
<1>7. CASE Returned
  BY <1>7 DEF Returned
<1>8. ASSUME NEW w \in Workers, Check(w) PROVE IndexInv'
  <2>1. wpc[w] \in Early /\ Local /\ (Writes(w) \/ Proceeds(w))
    BY <1>8, CheckShape
  <2>2. UNCHANGED <<index, nextIndex>> /\ \A v \in Workers : v # w => wpc'[v] = wpc[v]
    BY <2>1 DEF Local, Writes, Proceeds, Goto
  <2>3. index[w] > 0
    BY <2>1
  <2> QED
    BY <2>2, <2>3
<1>9. ASSUME NEW w \in Workers, InitializeApartment(w) PROVE IndexInv'
  BY <1>9 DEF InitializeApartment, Goto
<1>10. ASSUME NEW w \in Workers, StartWorker(w) PROVE IndexInv'
  BY <1>10 DEF StartWorker, Goto
<1>11. ASSUME NEW w \in Workers, TakeFile(w) PROVE IndexInv'
  <2>1. CASE nextIndex > fileCount
    BY <1>11, <2>1, SMTT(30) DEF TakeFile, Goto
  <2>2. CASE ~(nextIndex > fileCount)
    <3>1. /\ index' = [index EXCEPT ![w] = nextIndex] /\ nextIndex' = nextIndex + 1
          /\ wpc' = [wpc EXCEPT ![w] = "CheckConflict"]
      BY <1>11, <2>2 DEF TakeFile, Goto
    <3>2. nextIndex \in Nat /\ \A v \in Workers : index[v] \in Nat /\ index[v] < nextIndex
      BY Sizes
    <3>3. \A v \in Workers : index'[v] < nextIndex'
      BY <3>1, <3>2
    <3>4. \A v \in Workers : wpc'[v] \in Processing => index'[v] > 0
      BY <3>1, <3>2
    <3>5. \A u, v \in Workers : u # v /\ index'[u] = index'[v] => index'[v] = 0
      BY <3>1, <3>2
    <3> QED
      BY <3>3, <3>4, <3>5
  <2> QED
    BY <2>1, <2>2
<1>12. ASSUME NEW w \in Workers, LockCommit(w) PROVE IndexInv'
  BY <1>12 DEF LockCommit, Goto, Local
<1>13. ASSUME NEW w \in Workers, RequestStop(w) PROVE IndexInv'
  BY <1>13 DEF RequestStop, WakeAnd, ReleaseCommit
<1>14. ASSUME NEW w \in Workers, Account(w) PROVE IndexInv'
  BY <1>14 DEF Account, Goto
<1>15. ASSUME NEW w \in Workers, Release(w) PROVE IndexInv'
  BY <1>15 DEF Release, Goto, Leave
<1>16. ASSUME NEW w \in Workers, Notify(w) PROVE IndexInv'
  BY <1>16 DEF Notify, WakeAnd, Leave
<1>17. ASSUME NEW w \in Workers, Throw(w) PROVE IndexInv'
  BY <1>17 DEF Throw, Goto, ReleaseCommit
<1>18. ASSUME NEW w \in Workers, RecordException(w) PROVE IndexInv'
  BY <1>18 DEF RecordException, Goto
<1>19. ASSUME NEW w \in Workers, StopOthers(w) PROVE IndexInv'
  BY <1>19 DEF StopOthers, WakeAnd
<1>20. ASSUME NEW w \in Workers, SpuriousWakeup(w) PROVE IndexInv'
  BY <1>20 DEF SpuriousWakeup, Goto
<1> QED
  BY <1>1, <1>2, <1>3, <1>4, <1>5, <1>6, <1>7, <1>8, <1>9, <1>10, <1>11, <1>12,
     <1>13, <1>14, <1>15, <1>16, <1>17, <1>18, <1>19, <1>20
  DEF Next, CallerStep, WorkerStep, Check

\* The commit section excludes, and a conflict is not published around a save.
LEMMA CommitStep ==
    ASSUME TypeOK, CallerInv, IndexInv, RowInv, CommitInv, [Next]_vars
    PROVE  CommitInv'
<1> USE WorkersFinite DEF vars, batch, caller, work, signals, results, memory,
        TypeOK, CallerInv, CommitInv, Waiting, Early
<1>1. CASE UNCHANGED vars
  BY <1>1
<1>2. CASE Prepare
  BY <1>2 DEF Prepare, Return, Pool
<1>3. CASE SpawnWorker
  BY <1>3 DEF SpawnWorker
<1>4. CASE ReleaseWorkers
  BY <1>4 DEF ReleaseWorkers
<1>5. CASE JoinWorkers
  BY <1>5 DEF JoinWorkers, Return
<1>6. CASE Cancel
  BY <1>6 DEF Cancel
<1>7. CASE Returned
  BY <1>7 DEF Returned
<1>8. ASSUME NEW w \in Workers, Check(w) PROVE CommitInv'
  <2>1. wpc[w] \in Early /\ Local /\ (Writes(w) \/ Proceeds(w))
    BY <1>8, CheckShape
  <2> QED
    BY <2>1 DEF Writes, Proceeds, Goto, ReleaseCommit, Local
<1>9. ASSUME NEW w \in Workers, InitializeApartment(w) PROVE CommitInv'
  BY <1>9 DEF InitializeApartment, Goto
<1>10. ASSUME NEW w \in Workers, StartWorker(w) PROVE CommitInv'
  BY <1>10 DEF StartWorker, Goto
<1>11. ASSUME NEW w \in Workers, TakeFile(w) PROVE CommitInv'
  BY <1>11 DEF TakeFile, Goto
<1>12. ASSUME NEW w \in Workers, LockCommit(w) PROVE CommitInv'
  BY <1>12 DEF LockCommit, Goto, Local
<1>13. ASSUME NEW w \in Workers, RequestStop(w) PROVE CommitInv'
  BY <1>13 DEF RequestStop, WakeAnd, ReleaseCommit
<1>14. ASSUME NEW w \in Workers, Account(w) PROVE CommitInv'
  BY <1>14 DEF Account, Goto
<1>15. ASSUME NEW w \in Workers, Release(w) PROVE CommitInv'
  BY <1>15 DEF Release, Goto, Leave
<1>16. ASSUME NEW w \in Workers, Notify(w) PROVE CommitInv'
  BY <1>16 DEF Notify, WakeAnd, Leave
<1>17. ASSUME NEW w \in Workers, Throw(w) PROVE CommitInv'
  BY <1>17 DEF Throw, Goto, ReleaseCommit
<1>18. ASSUME NEW w \in Workers, RecordException(w) PROVE CommitInv'
  BY <1>18 DEF RecordException, Goto
<1>19. ASSUME NEW w \in Workers, StopOthers(w) PROVE CommitInv'
  BY <1>19 DEF StopOthers, WakeAnd
<1>20. ASSUME NEW w \in Workers, SpuriousWakeup(w) PROVE CommitInv'
  BY <1>20 DEF SpuriousWakeup, Goto
<1> QED
  BY <1>1, <1>2, <1>3, <1>4, <1>5, <1>6, <1>7, <1>8, <1>9, <1>10, <1>11, <1>12,
     <1>13, <1>14, <1>15, <1>16, <1>17, <1>18, <1>19, <1>20
  DEF Next, CallerStep, WorkerStep, Check

\* The batch is stopped for a reason that stays on record.
LEMMA StopStep ==
    ASSUME TypeOK, CallerInv, ExitInv, IndexInv, RowInv, StopInv, [Next]_vars
    PROVE  StopInv'
<1> USE WorkersFinite DEF vars, batch, caller, work, signals, results, memory,
        TypeOK, CallerInv, ExitInv, StopInv, Waiting, Early
<1>1. CASE UNCHANGED vars
  BY <1>1
<1>2. CASE Prepare
  BY <1>2 DEF Prepare, Return, Pool
<1>3. CASE SpawnWorker
  BY <1>3 DEF SpawnWorker
<1>4. CASE ReleaseWorkers
  BY <1>4 DEF ReleaseWorkers
<1>5. CASE JoinWorkers
  BY <1>5 DEF JoinWorkers, Return
<1>6. CASE Cancel
  BY <1>6 DEF Cancel
<1>7. CASE Returned
  BY <1>7 DEF Returned
<1>8. ASSUME NEW w \in Workers, Check(w) PROVE StopInv'
  <2>1. wpc[w] \in Early /\ Local /\ (Writes(w) \/ Proceeds(w))
    BY <1>8, CheckShape
  <2> QED
    BY <2>1 DEF Writes, Proceeds, Goto, ReleaseCommit, Local
<1>9. ASSUME NEW w \in Workers, InitializeApartment(w) PROVE StopInv'
  BY <1>9 DEF InitializeApartment, Goto
<1>10. ASSUME NEW w \in Workers, StartWorker(w) PROVE StopInv'
  BY <1>10 DEF StartWorker, Goto
<1>11. ASSUME NEW w \in Workers, TakeFile(w) PROVE StopInv'
  BY <1>11 DEF TakeFile, Goto
<1>12. ASSUME NEW w \in Workers, LockCommit(w) PROVE StopInv'
  BY <1>12 DEF LockCommit, Goto, Local
<1>13. ASSUME NEW w \in Workers, RequestStop(w) PROVE StopInv'
  BY <1>13 DEF RequestStop, WakeAnd, ReleaseCommit
<1>14. ASSUME NEW w \in Workers, Account(w) PROVE StopInv'
  BY <1>14 DEF Account, Goto
<1>15. ASSUME NEW w \in Workers, Release(w) PROVE StopInv'
  BY <1>15 DEF Release, Goto, Leave
<1>16. ASSUME NEW w \in Workers, Notify(w) PROVE StopInv'
  BY <1>16 DEF Notify, WakeAnd, Leave
<1>17. ASSUME NEW w \in Workers, Throw(w) PROVE StopInv'
  BY <1>17 DEF Throw, Goto, ReleaseCommit
<1>18. ASSUME NEW w \in Workers, RecordException(w) PROVE StopInv'
  BY <1>18 DEF RecordException, Goto
<1>19. ASSUME NEW w \in Workers, StopOthers(w) PROVE StopInv'
  BY <1>19 DEF StopOthers, WakeAnd
<1>20. ASSUME NEW w \in Workers, SpuriousWakeup(w) PROVE StopInv'
  BY <1>20 DEF SpuriousWakeup, Goto
<1> QED
  BY <1>1, <1>2, <1>3, <1>4, <1>5, <1>6, <1>7, <1>8, <1>9, <1>10, <1>11, <1>12,
     <1>13, <1>14, <1>15, <1>16, <1>17, <1>18, <1>19, <1>20
  DEF Next, CallerStep, WorkerStep, Check

-----------------------------------------------------------------------------
(* Rows *)

\* Whether the progress has yet to count the file of the worker, or never will.
Pending(w) == wpc[w] \in Early \cup {"RequestStop", "Account"} \/ throwing[w]

\* A step that moves no worker into or out of the points before its row, and
\* leaves the rows and the files' assignment alone.
Frame ==
    /\ UNCHANGED <<batch, work, row, effect>>
    /\ userStop => userStop'
    /\ integrityFailure => integrityFailure'
    /\ workerFailure => workerFailure'
    /\ \A w \in Workers : /\ wpc'[w] \in Early <=> wpc[w] \in Early
                          /\ throwing'[w] = throwing[w]

\* Every step other than the hand-out of a file, a row and an exception is one,
\* and keeps what the progress counts unless it counts.
LEMMA FrameSteps ==
    ASSUME TypeOK, CallerInv, IndexInv, RowInv, [Next]_vars
    PROVE  \/ /\ Frame /\ UNCHANGED progress
              /\ \A w \in Workers : Pending(w)' <=> Pending(w)
           \/ \E w \in Workers : \/ Account(w) /\ Frame
                                 \/ TakeFile(w) /\ nextIndex <= fileCount
                                 \/ wpc[w] \in Early /\ Local /\ Writes(w)
                                 \/ Throw(w)
<1> DEFINE Steady == /\ Frame /\ UNCHANGED progress
                     /\ \A w \in Workers : Pending(w)' <=> Pending(w)
<1> USE WorkersFinite DEF Frame, Pending, Early, Waiting, TypeOK, CallerInv, vars, batch,
        caller, work, signals, results, memory
<1>1. CASE UNCHANGED vars
  BY <1>1
<1>2. CASE CallerStep
  <2>1. CASE Prepare
    BY <2>1 DEF Prepare, Return
  <2>2. CASE SpawnWorker
    BY <2>2 DEF SpawnWorker
  <2>3. CASE ReleaseWorkers \/ JoinWorkers
    BY <2>3 DEF ReleaseWorkers, JoinWorkers, Return
  <2> QED
    BY <1>2, <2>1, <2>2, <2>3 DEF CallerStep
<1>3. CASE Cancel \/ Returned
  BY <1>3 DEF Cancel, Returned
<1>4. ASSUME NEW w \in Workers, Check(w), ~Writes(w) PROVE Steady
  <2>1. Proceeds(w) /\ Local /\ wpc[w] \in Early
    BY <1>4, CheckShape
  <2> QED
    BY <2>1 DEF Proceeds, Goto, Local
<1>5. ASSUME NEW w \in Workers, LockCommit(w) PROVE Steady
  BY <1>5 DEF LockCommit, Goto, Local
<1>6. ASSUME NEW w \in Workers, InitializeApartment(w) \/ StartWorker(w) PROVE Steady
  <2>1. CASE InitializeApartment(w)
    BY <2>1, SMTT(30) DEF InitializeApartment, Goto
  <2>2. CASE StartWorker(w)
    BY <2>2, SMTT(30) DEF StartWorker, Goto
  <2> QED
    BY <1>6, <2>1, <2>2
<1>7. ASSUME NEW w \in Workers, RequestStop(w) PROVE Steady
  BY <1>7 DEF RequestStop, WakeAnd
<1>8. ASSUME NEW w \in Workers, Release(w) PROVE Steady
  BY <1>8 DEF Release, Goto, Leave
<1>9. ASSUME NEW w \in Workers, Notify(w) PROVE Steady
  BY <1>9 DEF Notify, WakeAnd, Leave
<1>10. ASSUME NEW w \in Workers, RecordException(w) \/ StopOthers(w) PROVE Steady
  BY <1>10 DEF RecordException, StopOthers, Goto, WakeAnd
<1>11. ASSUME NEW w \in Workers, SpuriousWakeup(w) PROVE Steady
  BY <1>11 DEF SpuriousWakeup, Goto
<1>12. ASSUME NEW w \in Workers, Account(w) PROVE Frame
  BY <1>12 DEF Account, Goto
<1>13. ASSUME NEW w \in Workers, TakeFile(w), ~(nextIndex <= fileCount) PROVE Steady
  BY <1>13, Sizes DEF TakeFile, Goto
<1>14. ASSUME NEW w \in Workers, Check(w), Writes(w)
       PROVE  wpc[w] \in Early /\ Local /\ Writes(w)
  BY <1>14, CheckShape
<1> HIDE DEF Steady, Frame, Pending
<1> QED
  BY <1>1, <1>2, <1>3, <1>4, <1>5, <1>6, <1>7, <1>8, <1>9, <1>10, <1>11, <1>12, <1>13,
     <1>14
  DEF Next, WorkerStep, Check, Steady

\* A row that nobody will write any more stays true when it is left alone and
\* nothing that explains it is taken back.
LEMMA TrueRowStays ==
    ASSUME TypeOK, NEW f \in Files, RowIsTrue(f), row'[f] = row[f], effect'[f] = effect[f],
           UNCHANGED batch, userStop => userStop', integrityFailure => integrityFailure',
           workerFailure => workerFailure', Unwound(f) => Unwound(f)'
    PROVE  RowIsTrue(f)'
BY DEF RowIsTrue, batch, Unwound

\* Rows are written once, truthfully.
LEMMA RowStep ==
    ASSUME TypeOK, CallerInv, ExitInv, IndexInv, StopInv, RowInv, [Next]_vars
    PROVE  RowInv'
<1>1. CASE Frame
  <2>1. Files' = Files /\ index' = index /\ nextIndex' = nextIndex
    BY <1>1 DEF Frame, batch, work, Files
  <2>2. \A f \in Files : RowIsTrue(f) => RowIsTrue(f)'
    <3>1. \A f \in Files : Unwound(f) => Unwound(f)'
      BY <1>1, <2>1 DEF Frame, Unwound
    <3> QED
      BY <1>1, <3>1, TrueRowStays DEF Frame
  <2>3. \A f : Untouched(f) => Untouched(f)'
    BY <1>1 DEF Frame, Untouched
  <2> QED
    BY <1>1, <2>1, <2>2, <2>3 DEF RowInv, Frame
<1>2. ASSUME NEW w \in Workers, TakeFile(w), nextIndex <= fileCount PROVE RowInv'
  <2>1. /\ index' = [index EXCEPT ![w] = nextIndex] /\ nextIndex' = nextIndex + 1
        /\ wpc' = [wpc EXCEPT ![w] = "CheckConflict"] /\ wpc[w] = "Take"
        /\ UNCHANGED <<batch, throwing, userStop, signals, row, effect>>
        /\ Files' = Files /\ nextIndex \in Files
    BY <1>2, Sizes DEF TakeFile, Goto, batch, Files, results, TypeOK
  <2>2. \A f \in Files : RowIsTrue(f) => RowIsTrue(f)'
    <3>1. ~throwing[w]
      BY <2>1 DEF ExitInv
    <3>2. \A f \in Files : Unwound(f) => Unwound(f)'
      BY <2>1, <3>1 DEF Unwound, TypeOK
    <3> QED
      BY <2>1, <3>2, TrueRowStays DEF signals
  <2>3. \A f : Untouched(f) => Untouched(f)'
    BY <2>1 DEF Untouched
  <2>4. ASSUME NEW f \in Files, f >= nextIndex' PROVE Untouched(f)'
    BY <2>1, <2>3, <2>4, Sizes DEF RowInv, Files, TypeOK
  <2>5. ASSUME NEW v \in Workers, wpc'[v] \in Early PROVE Untouched(index[v])'
    <3>1. CASE v = w
      <4>1. index'[v] = nextIndex
        BY <2>1, <3>1 DEF TypeOK
      <4>2. Untouched(nextIndex)
        BY <2>1, Sizes DEF RowInv, Files
      <4> QED
        BY <2>1, <4>1, <4>2 DEF Untouched
    <3>2. CASE v # w
      <4>1. index'[v] = index[v] /\ wpc[v] \in Early
        BY <2>1, <2>5, <3>2 DEF TypeOK
      <4>2. Untouched(index[v])
        BY <4>1 DEF RowInv
      <4> QED
        BY <2>1, <4>1, <4>2 DEF Untouched
    <3> QED
      BY <3>1, <3>2
  <2>6. ASSUME NEW f \in Files, f < nextIndex',
               \A v \in Workers : index'[v] = f => wpc'[v] \notin Early
        PROVE  RowIsTrue(f)'
    <3>1. f # nextIndex
      BY <2>1, <2>6 DEF Early, TypeOK
    <3>2. f < nextIndex
      BY <2>1, <2>6, <3>1, Sizes DEF Files, TypeOK
    <3>3. \A v \in Workers : index[v] = f => wpc[v] \notin Early
      BY <2>1, <2>6 DEF Early, TypeOK
    <3> QED
      BY <2>2, <3>2, <3>3 DEF RowInv
  <2> QED
    BY <2>1, <2>4, <2>5, <2>6 DEF RowInv
<1>3. ASSUME NEW w \in Workers, wpc[w] \in Early, index[w] \in Files, index[w] < nextIndex,
             UNCHANGED <<batch, work>>, wpc'[w] \notin Early,
             \A v \in Workers : v # w => wpc'[v] = wpc[v],
             \A f \in Files : f # index[w] => row'[f] = row[f] /\ effect'[f] = effect[f],
             userStop => userStop', integrityFailure => integrityFailure',
             workerFailure => workerFailure', \A v \in Workers : throwing[v] => throwing'[v],
             \A f \in Files : f = index[w] => RowIsTrue(f)'
      PROVE  RowInv'
  <2>1. Files' = Files /\ index' = index /\ nextIndex' = nextIndex
    BY <1>3 DEF batch, work, Files
  <2>2. ASSUME NEW f \in Files, f # index[w] PROVE RowIsTrue(f) => RowIsTrue(f)'
    BY <1>3, <2>1, <2>2, TrueRowStays DEF Unwound
  <2>3. \A f \in Files : f # index[w] /\ Untouched(f) => Untouched(f)'
    BY <1>3 DEF Untouched
  <2>4. ASSUME NEW f \in Files, f >= nextIndex' PROVE Untouched(f)'
    <3>1. f # index[w]
      BY <1>3, <2>1, <2>4, Sizes DEF Files, TypeOK
    <3> QED
      BY <2>1, <2>3, <2>4, <3>1 DEF RowInv
  <2>5. ASSUME NEW v \in Workers, wpc'[v] \in Early PROVE Untouched(index[v])'
    <3>1. v # w /\ wpc[v] \in Early
      BY <1>3, <2>5
    <3>2. index[v] \in Files /\ index[v] # index[w]
      BY <1>3, <3>1, WorkerFile DEF IndexInv, Early, Processing, WorkerPoint, Files
    <3>3. Untouched(index[v])
      BY <3>1 DEF RowInv
    <3> QED
      BY <1>3, <2>1, <3>2, <3>3 DEF Untouched
  <2>6. ASSUME NEW f \in Files, f < nextIndex', f # index[w],
               \A v \in Workers : index'[v] = f => wpc'[v] \notin Early
        PROVE  RowIsTrue(f)'
    <3>1. \A v \in Workers : index[v] = f => wpc[v] \notin Early
      BY <1>3, <2>1, <2>6
    <3> QED
      BY <2>1, <2>2, <2>6, <3>1 DEF RowInv
  <2> QED
    BY <1>3, <2>1, <2>4, <2>5, <2>6 DEF RowInv
<1>4. ASSUME NEW w \in Workers, wpc[w] \in Early
      PROVE  index[w] \in Files /\ index[w] < nextIndex /\ Untouched(index[w])
  BY <1>4, WorkerFile DEF IndexInv, RowInv, Early, Processing, WorkerPoint
<1>5. ASSUME NEW w \in Workers, wpc[w] \in Early, Local, Writes(w) PROVE RowInv'
  <2>1. PICK f \in Files : f = index[w] /\ f < nextIndex
    BY <1>4, <1>5
  <2>2. PICK r \in Row, e \in BOOLEAN :
          /\ r.outcome = "Saved" => e
          /\ e => r.outcome = "Saved" \/ r.error = "RecoveryConflict"
          /\ r.error = "None" <=>
               r.outcome \in {"Saved", "NoOrientationNormalizationRequired"}
          /\ r.error = "Cancelled" /\ plan[index[w]].kind # "Cancelled" =>
               stop \/ ~discoveryComplete
          /\ row' = [row EXCEPT ![index[w]] = r]
          /\ effect' = [effect EXCEPT ![index[w]] = e]
          /\ \/ /\ r.error # "RecoveryConflict"
                /\ Goto(w, "Account") /\ UNCHANGED integrityFailure
             \/ /\ Goto(w, "RequestStop") /\ integrityFailure' = TRUE
                /\ integrityFailure \/ wpc[w] = "Commit"
    BY <1>5 DEF Writes
  <2>3. row'[f] = r /\ effect'[f] = e
    BY <2>1, <2>2 DEF TypeOK
  <2>4. UNCHANGED <<batch, work, userStop, stop, workerFailure, throwing>>
    BY <1>5 DEF Local
  <2>5. integrityFailure => integrityFailure'
    BY <2>2
  <2>6. r.error = "RecoveryConflict" => integrityFailure'
    BY <2>2
  <2>7. r.error = "Cancelled" /\ plan[f].kind # "Cancelled" =>
          userStop \/ integrityFailure \/ workerFailure \/ ~discoveryComplete
    BY <2>1, <2>2 DEF StopInv
  <2>8. RowIsTrue(f)'
    <3>1. plan' = plan /\ discoveryComplete' = discoveryComplete
      BY <2>4 DEF batch
    <3> QED
      BY <2>2, <2>3, <2>4, <2>5, <2>6, <2>7, <3>1 DEF RowIsTrue
  <2>9. \A g \in Files : g # f => row'[g] = row[g] /\ effect'[g] = effect[g]
    BY <2>1, <2>2 DEF TypeOK
  <2>10. wpc'[w] \notin Early /\ \A v \in Workers : v # w => wpc'[v] = wpc[v]
    BY <2>2 DEF Goto, TypeOK, Early
  <2> QED
    BY <1>3, <1>5, <2>1, <2>4, <2>5, <2>8, <2>9, <2>10
<1>6. ASSUME NEW w \in Workers, Throw(w) PROVE RowInv'
  <2>8. wpc[w] \in Early
    BY <1>6 DEF Throw, Early
  <2>1. PICK f \in Files : f = index[w] /\ f < nextIndex /\ Untouched(f)
    BY <1>4, <2>8
  <2>2. /\ UNCHANGED <<batch, work, userStop, signals, row>>
        /\ wpc' = [wpc EXCEPT ![w] = "Release"]
        /\ throwing' = [throwing EXCEPT ![w] = TRUE]
    BY <1>6 DEF Throw, Goto
  <2>3. \A g \in Files : g # f => row'[g] = row[g] /\ effect'[g] = effect[g]
    BY <1>6, <2>1, <2>2 DEF Throw, TypeOK
  <2>4. Unwound(f)'
    BY <2>1, <2>2 DEF Unwound, TypeOK, work
  <2>5. RowIsTrue(f)'
    BY <2>1, <2>2, <2>4 DEF RowIsTrue, Untouched
  <2>6. wpc'[w] \notin Early /\ \A v \in Workers : v # w => wpc'[v] = wpc[v]
    BY <2>2 DEF TypeOK, Early
  <2>7. \A v \in Workers : throwing[v] => throwing'[v]
    BY <2>2 DEF TypeOK
  <2> QED
    BY <1>3, <2>1, <2>2, <2>3, <2>5, <2>6, <2>7, <2>8 DEF signals, work
<1> QED
  BY <1>1, <1>2, <1>5, <1>6, FrameSteps

-----------------------------------------------------------------------------
(* Progress *)

\* A file is accounted when no worker that has it is pending.
LEMMA AccountedPending ==
    /\ Accounted = {f \in Files : f < nextIndex
                        /\ \A w \in Workers : index[w] = f => ~Pending(w)}
    /\ Accounted' = {f \in Files' : f < nextIndex'
                        /\ \A w \in Workers : index'[w] = f => ~Pending(w)'}
BY DEF Accounted, Pending

\* What the progress counts is part of the batch.
LEMMA AccountedFinite ==
    ASSUME TypeOK
    PROVE  /\ IsFiniteSet(Accounted) /\ IsFiniteSet(Files) /\ Cardinality(Files) = fileCount
           /\ Cardinality(Accounted) \in 0..fileCount
           /\ \A o : /\ IsFiniteSet(AccountedAs(o))
                     /\ Cardinality(AccountedAs(o)) \in 0..fileCount
<1>1. fileCount \in Nat
  BY Sizes
<1>2. IsFiniteSet(Files) /\ Cardinality(Files) = fileCount
  BY <1>1, FS_Interval DEF Files
<1>3. ASSUME NEW S, S \subseteq Files
      PROVE  IsFiniteSet(S) /\ Cardinality(S) \in 0..fileCount
  BY <1>1, <1>2, <1>3, FS_Subset, FS_CardinalityType
<1>4. Accounted \subseteq Files /\ \A o : AccountedAs(o) \subseteq Files
  BY DEF Accounted, AccountedAs
<1> QED
  BY <1>2, <1>3, <1>4

\* The progress keeps counting what it counted when the accounted files and
\* their rows stay.
LEMMA CountStays ==
    ASSUME CountInv, Accounted' = Accounted, UNCHANGED progress,
           \A f \in Accounted : row'[f] = row[f]
    PROVE  CountInv'
<1>1. ASSUME NEW o PROVE {f \in Accounted' : row'[f].outcome \in o} = AccountedAs(o)
  BY DEF AccountedAs
<1>2. ASSUME NEW o PROVE AccountedAs(o)' = AccountedAs(o)
  BY <1>1 DEF AccountedAs
<1> QED
  BY <1>2 DEF CountInv

\* Every file is counted once, in the class of its row.
LEMMA CountStep ==
    ASSUME TypeOK, CallerInv, ExitInv, IndexInv, RowInv, CountInv, [Next]_vars
    PROVE  CountInv'
<1>1. CASE /\ Frame /\ UNCHANGED progress
           /\ \A w \in Workers : Pending(w)' <=> Pending(w)
  <2>1. Accounted' = Accounted
    BY <1>1, AccountedPending DEF Frame, batch, work, Files
  <2> QED
    BY <1>1, <2>1, CountStays DEF Frame
<1>2. ASSUME NEW w \in Workers, TakeFile(w), nextIndex <= fileCount PROVE CountInv'
  <2>1. /\ index' = [index EXCEPT ![w] = nextIndex] /\ nextIndex' = nextIndex + 1
        /\ wpc' = [wpc EXCEPT ![w] = "CheckConflict"] /\ wpc[w] = "Take"
        /\ UNCHANGED <<throwing, row, progress>> /\ Files' = Files
    BY <1>2, Sizes DEF TakeFile, Goto, batch, Files, results, TypeOK
  <2>2. ~Pending(w) /\ Pending(w)' /\ \A v \in Workers : v # w => (Pending(v)' <=> Pending(v))
    BY <2>1 DEF Pending, Early, ExitInv, TypeOK
  <2>3. Accounted' = Accounted
    <3>1. ASSUME NEW f \in Files PROVE f \in Accounted' <=> f \in Accounted
      <4>1. CASE f = nextIndex
        BY <2>1, <2>2, <4>1, AccountedPending, Sizes DEF TypeOK, Files
      <4>2. CASE f # nextIndex
        <5>1. f < nextIndex' <=> f < nextIndex
          BY <2>1, <4>2, Sizes DEF TypeOK, Files
        <5>2. \A v \in Workers : (index'[v] = f => ~Pending(v)') <=> (index[v] = f => ~Pending(v))
          BY <2>1, <2>2, <4>2 DEF TypeOK
        <5> QED
          BY <2>1, <5>1, <5>2, AccountedPending
      <4> QED
        BY <4>1, <4>2
    <3> QED
      BY <2>1, <3>1, AccountedPending
  <2> QED
    BY <2>1, <2>3, CountStays
<1>3. ASSUME NEW w \in Workers, wpc[w] \in Early, Local, Writes(w) PROVE CountInv'
  <2>1. /\ UNCHANGED <<index, nextIndex, throwing, progress>> /\ Files' = Files
        /\ Goto(w, "Account") \/ Goto(w, "RequestStop")
        /\ \A f \in Files : f # index[w] => row'[f] = row[f]
    BY <1>3, WorkerFile DEF Writes, Local, batch, work, Files, TypeOK
  <2>2. Pending(w) /\ Pending(w)' /\ \A v \in Workers : v # w => (Pending(v)' <=> Pending(v))
    BY <1>3, <2>1 DEF Pending, Goto, TypeOK
  <2>3. Accounted' = Accounted
    BY <2>1, <2>2, AccountedPending
  <2>4. \A f \in Accounted : f \in Files /\ f # index[w]
    BY <2>2, AccountedPending
  <2> QED
    BY <2>1, <2>3, <2>4, CountStays
<1>4. ASSUME NEW w \in Workers, Throw(w) PROVE CountInv'
  <2>1. /\ UNCHANGED <<index, nextIndex, row, progress>> /\ Files' = Files
        /\ wpc' = [wpc EXCEPT ![w] = "Release"]
        /\ throwing' = [throwing EXCEPT ![w] = TRUE]
        /\ wpc[w] \in Early
    BY <1>4 DEF Throw, Goto, batch, work, Files, Early
  <2>2. \A v \in Workers : Pending(v)' <=> Pending(v)
    BY <2>1 DEF Pending, TypeOK
  <2>3. Accounted' = Accounted
    BY <2>1, <2>2, AccountedPending
  <2> QED
    BY <2>1, <2>3, CountStays
<1>5. ASSUME NEW w \in Workers, Account(w) PROVE CountInv'
  <2>1. PICK f \in Files : f = index[w] /\ f < nextIndex
    BY <1>5, WorkerFile DEF Account, Processing, WorkerPoint, IndexInv
  <2>2. /\ UNCHANGED <<index, nextIndex, row, throwing>> /\ Files' = Files
        /\ wpc' = [wpc EXCEPT ![w] = "Release"] /\ wpc[w] = "Account"
        /\ progress' = Count(row[f].outcome)
    BY <1>5, <2>1 DEF Account, Goto, batch, work, Files
  <2>3. Pending(w) /\ ~Pending(w)' /\ \A v \in Workers : v # w => (Pending(v)' <=> Pending(v))
    BY <2>2 DEF Pending, TypeOK, ExitInv, Early
  <2>4. \A v \in Workers : index[v] = f => v = w
    BY <2>1, <2>2 DEF IndexInv, Files
  <2>5. f \notin Accounted /\ Accounted' = Accounted \cup {f}
    BY <2>1, <2>2, <2>3, <2>4, AccountedPending
  <2>6. Cardinality(Accounted') = Cardinality(Accounted) + 1
    BY <2>5, AccountedFinite, FS_AddElement
  <2>7. ASSUME NEW o
        PROVE  Cardinality(AccountedAs(o)') =
                 Cardinality(AccountedAs(o)) + (IF row[f].outcome \in o THEN 1 ELSE 0)
    <3>1. CASE row[f].outcome \in o
      <4>1. AccountedAs(o)' = AccountedAs(o) \cup {f} /\ f \notin AccountedAs(o)
        BY <2>2, <2>5, <3>1 DEF AccountedAs
      <4> QED
        BY <3>1, <4>1, AccountedFinite, FS_AddElement
    <3>2. CASE row[f].outcome \notin o
      <4>1. AccountedAs(o)' = AccountedAs(o)
        BY <2>2, <2>5, <3>2 DEF AccountedAs
      <4>2. Cardinality(AccountedAs(o)) \in 0..fileCount
        BY AccountedFinite
      <4> QED
        BY <3>2, <4>1, <4>2, Sizes
    <3> QED
      BY <3>1, <3>2
  <2>8. /\ progress.completed = Cardinality(Accounted)
        /\ progress.failed = Cardinality(AccountedAs({"ProcessingFailed"}))
        /\ progress.skipped = Cardinality(AccountedAs({"UnsupportedSourceSkipped",
                                                       "NoOrientationNormalizationRequired"}))
        /\ progress.cancelled = Cardinality(AccountedAs({"CancelledBeforeTransformation",
                                                         "CancelledBeforeCommit"}))
    BY DEF CountInv
  <2>9. row[f].outcome \in {"ProcessingFailed"} <=> row[f].outcome = "ProcessingFailed"
    OBVIOUS
  <2> QED
    BY <2>2, <2>6, <2>7, <2>8, <2>9 DEF CountInv, Count
<1> QED
  BY <1>1, <1>2, <1>3, <1>4, <1>5, FrameSteps

-----------------------------------------------------------------------------
(* The theorems *)

\* Before execute() has begun nothing is spawned, reserved, written or counted.
LEMMA BatchInit == Init => BInv
<1> SUFFICES ASSUME Init PROVE BInv
  OBVIOUS
<1>1. fileCount \in Nat /\ WorkerCount \in Nat
  BY FileCountsAssumption, WorkerLimitAssumption DEF Init, WorkerCount
<1>2. Accounted = {} /\ \A o : AccountedAs(o) = {}
  BY <1>1 DEF Init, Accounted, AccountedAs, Files
<1>3. CountInv
  BY <1>2, FS_EmptySet DEF CountInv, Init
<1>4. MemoryWithinBudget
  <2>1. reserved = Total(held)
    BY WorkersFinite, FoldZero DEF Init
  <2>2. Holders = {}
    BY DEF Init, Holders
  <2> QED
    BY <2>1, <2>2, FS_EmptySet, BudgetParts DEF SharedWithinBudget
<1>5. [outcome |-> "CancelledBeforeTransformation", error |-> "None"] \in Row
  BY RowValues DEF Outcome
<1>6. row \in [Files -> Row]
  BY <1>5 DEF Init
<1>7. progress \in [completed : 0..fileCount, failed : 0..fileCount,
                    skipped : 0..fileCount, cancelled : 0..fileCount]
  BY <1>1 DEF Init
<1>8. TypeOK
  <2>1. row \in [Files -> [outcome : Outcome, error : AnalysisError
                                \cup {"None", "RecoveryConflict"}]]
    BY <1>6, Zenon DEF Row
  <2>4. discoveryComplete \in BOOLEAN
    BY BatchSwitchesAssumption DEF Init
  <2>2. /\ spawned \in 0..WorkerCount /\ nextIndex \in 1..(fileCount + 1)
        /\ reserved \in Nat
    BY <1>1 DEF Init
  <2>3. /\ wpc \in [Workers -> WorkerPoint] /\ index \in [Workers -> 0..fileCount]
        /\ held \in [Workers -> Charges \cup {0}] /\ throwing \in [Workers -> BOOLEAN]
        /\ effect \in [Files -> BOOLEAN]
    BY <1>1 DEF Init, WorkerPoint
  <2> QED
    BY <1>7, <2>1, <2>2, <2>3, <2>4 DEF Init, TypeOK
<1>9. CallerInv /\ ExitInv /\ CommitInv /\ StopInv /\ HoldInv
  BY <1>1, WorkersFinite DEF Init, CallerInv, ExitInv, CommitInv, StopInv, HoldInv, Waiting
<1>10. IndexInv /\ RowInv
  BY <1>1 DEF Init, IndexInv, RowInv, Untouched, Processing, Early, Files
<1> QED
  BY <1>3, <1>4, <1>8, <1>9, <1>10 DEF BInv

\* Every step of the caller, of a worker and of the user keeps the invariant.
LEMMA BatchStep == BInv /\ [Next]_vars => BInv'
<1> SUFFICES ASSUME BInv, [Next]_vars PROVE BInv'
  OBVIOUS
<1> USE DEF BInv
<1>1. CallerInv' /\ ExitInv' /\ IndexInv' /\ CommitInv' /\ StopInv'
  BY CallerStepKeeps, ExitStep, IndexStep, CommitStep, StopStep
<1>2. RowInv' /\ CountInv' /\ HoldInv' /\ MemoryWithinBudget'
  BY RowStep, CountStep, HoldStep, MemoryStep
<1>3. TypeRest' /\ reserved' \in Nat /\ held' \in [Workers -> Charges \cup {0}]
  BY TypeStep, MemoryStep
<1>4. progress' \in [completed : 0..fileCount, failed : 0..fileCount,
                     skipped : 0..fileCount, cancelled : 0..fileCount]'
  <2>1. /\ Cardinality(Accounted') \in 0..fileCount'
        /\ \A o : Cardinality(AccountedAs(o)') \in 0..fileCount'
    <3>1. fileCount' \in Nat
      BY <1>3, FileCountsAssumption DEF TypeRest
    <3>2. IsFiniteSet(Files') /\ Cardinality(Files') = fileCount'
      BY <3>1, FS_Interval DEF Files
    <3>3. Accounted' \subseteq Files' /\ \A o : AccountedAs(o)' \subseteq Files'
      BY DEF Accounted, AccountedAs
    <3> QED
      BY <3>1, <3>2, <3>3, FS_Subset, FS_CardinalityType
  <2> QED
    BY <1>2, <2>1 DEF CountInv
<1>5. TypeOK'
  BY <1>3, <1>4, Zenon DEF TypeOK, TypeRest, Row
<1> QED
  BY <1>1, <1>2, <1>5

\* The invariant of execute(): types, the order of the pool's life, exclusive
\* files and saves, truthful rows, exact counts and exact memory.
THEOREM BatchInvariantHolds == Spec => []BInv
BY BatchInit, BatchStep, PTL DEF Spec

\* For every pool, batch, charge and budget, the admission estimate is exactly
\* what the active images hold, and two images are active within a reported
\* budget only (the admission loop and ~MemoryReservation()).
THEOREM MemoryStaysWithinBudget == Spec => []MemoryWithinBudget
<1>1. BInv => MemoryWithinBudget
  BY DEF BInv
<1> QED
  BY <1>1, BatchInvariantHolds, PTL

\* However the workers interleave, no save begins once an integrity conflict
\* has been published (the checks inside the commit section).
THEOREM ConflictsEndSaves == Spec => NoSaveAfterConflict
<1>1. BInv' => [\A w \in Workers : wpc[w] # "Commit" /\ wpc'[w] = "Commit"
                                     => ~integrityFailure']_wpc
  BY DEF BInv, CommitInv
<1> QED
  BY <1>1, BatchInvariantHolds, PTL DEF NoSaveAfterConflict

\* Rows and native commits agree for every file no worker is processing,
\* exceptions and conflicts included, and a failed start touched nothing.
THEOREM RowsTellTheTruth == Spec => []RowsMatchCommits
<1>1. BInv => RowsMatchCommits
  <2> SUFFICES ASSUME BInv PROVE RowsMatchCommits
    OBVIOUS
  <2> USE DEF BInv
  <2>1. ASSUME NEW f \in Finished PROVE f \in Files /\ RowIsTrue(f)
    BY <2>1 DEF Finished, RowInv, Early, Processing, WorkerPoint
  <2>2. result = "Failure" => \A f \in Files : ~effect[f]
    BY Sizes DEF CallerInv, RowInv, Untouched, Files
  <2> QED
    BY <2>1, <2>2 DEF RowsMatchCommits, RowIsTrue, Unwound
<1> QED
  BY <1>1, BatchInvariantHolds, PTL

\* A summary that execute() returns counts every file exactly once in the class
\* of its row, gives every reason, and calls a file cancelled only after a stop.
THEOREM SummariesAreComplete == Spec => []SummaryIsComplete
<1>1. BInv => SummaryIsComplete
  <2> SUFFICES ASSUME BInv, result = "Success" PROVE SummaryIsComplete
    BY DEF SummaryIsComplete
  <2> USE DEF BInv
  <2>1. /\ ~workerFailure /\ nextIndex > fileCount
        /\ \A w \in Workers : wpc[w] \in {"Unspawned", "Exited"} /\ ~throwing[w]
    BY DEF CallerInv, ExitInv
  <2>6. \A f \in Files : f < nextIndex
    <3>1. fileCount \in Nat /\ nextIndex \in Nat
      BY Sizes DEF TypeOK
    <3> QED
      BY <2>1, <3>1 DEF Files
  <2>7. \A w \in Workers : wpc[w] \notin Early \cup {"RequestStop", "Account"}
    BY <2>1 DEF Early
  <2>2. Accounted = Files
    BY <2>1, <2>6, <2>7 DEF Accounted
  <2>3. \A f \in Files : RowIsTrue(f) /\ ~Unwound(f)
    BY <2>1, <2>6, <2>7 DEF RowInv, Unwound
  <2>4. \A o : AccountedAs(o) = {f \in Files : row[f].outcome \in o}
    BY <2>2 DEF AccountedAs
  <2>5. Cardinality(Files) = fileCount
    BY AccountedFinite
  <2> QED
    BY <2>1, <2>2, <2>3, <2>4, <2>5 DEF SummaryIsComplete, CountInv, RowIsTrue
<1> QED
  BY <1>1, BatchInvariantHolds, PTL
=============================================================================
