--------------------------- MODULE StartupProofs ---------------------------
(***************************************************************************)
(* Safety of startup recovery for every number of transactions, roots and   *)
(* access-list entries, whatever the other instance does meanwhile and      *)
(* whoever dies: an incomplete transaction keeps its grant, and nothing is  *)
(* changed before every grant is there.                                     *)
(***************************************************************************)
EXTENDS WindowsStorageStartupRecovery, FiniteSetTheorems, SequenceTheorems,
        TLAPS

-----------------------------------------------------------------------------
(* The invariant *)

\* The other instance works on a transaction of the store.
OtherInv ==
    /\ store \in [Transactions -> {"absent", "unpublished", "open", "closed"}]
    /\ other = [pc |-> other.pc, tx |-> other.tx]
    /\ other.pc # "idle" => other.tx \in Transactions

\* An incomplete transaction has the entry that was made for it, not only one
\* for its root: the entry goes only after the transaction is closed.
GrantInv ==
    /\ \A t \in Transactions : Open(t) => TokenOf(t) \in tokens
    /\ other.pc \in {"retained", "leased", "created", "published", "closed"} =>
         TokenOf(other.tx) \in tokens
    /\ other.pc \in {"closed", "reconciled"} => store[other.tx] = "closed"

\* The lease is held by whoever changes the store.
LeaseInv ==
    /\ lease = "startup" <=> pc = "reconcile"
    /\ lease = "other" <=> other.pc \in {"leased", "created", "published", "closed"}

\* Roots are matched with restored folders, and recovery begins when all are.
MatchInv ==
    /\ requiredRoots \subseteq restored
    /\ pc \in {"recover", "reconcile"} => \A t \in requirements : RootOf[t] \in requiredRoots

\* The inductive invariant of the grants.
SInv == OtherInv /\ GrantInv /\ LeaseInv /\ MatchInv

\* The steps of startup recovery that leave the store and the access list alone.
Reads ==
    \/ Begin \/ RestoreToken \/ ReadCatalog \/ ListPage \/ ReadFolder \/ CatalogEnds
    \/ MatchGrant \/ GrantsMatched \/ RecoverRoot \/ RootDone \/ Reinspect
    \/ NativeFailure \/ StopRequested \/ StartupDies

\* They leave the other instance alone as well.
LEMMA ReadsFrame == ASSUME Reads PROVE UNCHANGED <<store, tokens, reachable, other>>
BY DEF Reads, Begin, RestoreToken, ReadCatalog, ListPage, ReadFolder, CatalogEnds, MatchGrant,
       GrantsMatched, RecoverRoot, RootDone, Reinspect, NativeFailure, StopRequested,
       StartupDies

\* The process that waits at startup knows nothing of the other instance, and
\* the other way round.
LEMMA Steps ==
    ASSUME [Next]_vars
    PROVE  \/ UNCHANGED vars \/ Reads
           \/ \E root \in Roots, t \in Transactions : Reconcile(root, t)
           \/ Other
           \/ \E root \in Roots : UserGrants(root) \/ ReachabilityChanges(root)
BY DEF Next, Startup, Reads

\* Nothing is open and no lease is held at first.
LEMMA StartupInit == Init => SInv
BY DEF Init, SInv, OtherInv, GrantInv, LeaseInv, MatchInv, Open

\* Who changes the store, and when an entry is removed.
LEMMA GrantStep ==
    ASSUME OtherInv, GrantInv, LeaseInv, [Next]_vars
    PROVE  OtherInv' /\ GrantInv'
<1> USE DEF OtherInv, GrantInv, Open, TokenOf
<1>1. CASE UNCHANGED vars
  BY <1>1 DEF vars
<1>2. CASE Reads
  BY <1>2, ReadsFrame
<1>3. ASSUME NEW root \in Roots, NEW t \in Transactions, Reconcile(root, t)
      PROVE  OtherInv' /\ GrantInv'
  BY <1>3 DEF Reconcile, LeaseInv
<1>4. CASE Other
  <2>1. ASSUME NEW t \in Transactions, RetainSourceFolder(t) PROVE OtherInv' /\ GrantInv'
    BY <2>1 DEF RetainSourceFolder
  <2>2. CASE OtherTakesLease \/ OtherLeavesLease \/ OtherDies
    BY <2>2 DEF OtherTakesLease, OtherLeavesLease, OtherDies, OtherGoto
  <2>3. CASE ReleaseReconciledSource
    BY <2>3 DEF ReleaseReconciledSource, RemoveOwnEntry, OtherGoto
  <2>4. CASE OtherWrites("leased", "unpublished", "created")
    BY <2>4 DEF OtherWrites, OtherGoto
  <2>5. CASE OtherWrites("created", "open", "published")
    BY <2>5 DEF OtherWrites, OtherGoto
  <2>6. CASE OtherWrites("published", "closed", "closed")
    BY <2>6 DEF OtherWrites, OtherGoto
  <2> QED
    BY <1>4, <2>1, <2>2, <2>3, <2>4, <2>5, <2>6 DEF Other
<1>5. ASSUME NEW root \in Roots, UserGrants(root) \/ ReachabilityChanges(root)
      PROVE  OtherInv' /\ GrantInv'
  BY <1>5 DEF UserGrants, ReachabilityChanges
<1> QED
  BY <1>1, <1>2, <1>3, <1>4, <1>5, Steps

\* The lease excludes, and it is left by every way out.
LEMMA LeaseStep ==
    ASSUME OtherInv, LeaseInv, [Next]_vars
    PROVE  LeaseInv'
<1> USE DEF OtherInv, LeaseInv
<1>1. CASE UNCHANGED vars
  BY <1>1 DEF vars
<1>2. CASE Reads
  BY <1>2 DEF Reads, Begin, RestoreToken, ReadCatalog, ListPage, ReadFolder, CatalogEnds,
       MatchGrant, MissingGrant, GrantsMatched, BeginRecovery, RecoverRoot, RefuseBusyStore,
       RootDone, Reinspect, NativeFailure, StopRequested, StartupDies, Goto, Return, ListFrom
<1>3. ASSUME NEW root \in Roots, NEW t \in Transactions, Reconcile(root, t)
      PROVE  LeaseInv'
  BY <1>3 DEF Reconcile, Goto, Return
<1>4. CASE Other
  BY <1>4 DEF Other, RetainSourceFolder, OtherTakesLease, OtherLeavesLease, OtherDies,
       ReleaseReconciledSource, OtherWrites, OtherGoto, mine
<1>5. ASSUME NEW root \in Roots, UserGrants(root) \/ ReachabilityChanges(root)
      PROVE  LeaseInv'
  BY <1>5 DEF UserGrants, ReachabilityChanges, mine
<1> QED
  BY <1>1, <1>2, <1>3, <1>4, <1>5, Steps

\* Recovery goes on with what was matched, and matching starts from nothing.
LEMMA MatchStep ==
    ASSUME MatchInv, [Next]_vars
    PROVE  MatchInv'
<1> USE DEF MatchInv
<1>1. CASE UNCHANGED vars
  BY <1>1 DEF vars, listing, roots
<1>2. CASE Reads
  BY <1>2 DEF Reads, Begin, RestoreToken, ReadCatalog, ListPage, ReadFolder, CatalogEnds,
       MatchGrant, MissingGrant, GrantsMatched, BeginRecovery, RecoverRoot, RefuseBusyStore,
       RootDone, Reinspect, NativeFailure, StopRequested, StartupDies, Goto, Return, ListFrom,
       Unmatched, listing, roots
<1>3. ASSUME NEW root \in Roots, NEW t \in Transactions, Reconcile(root, t)
      PROVE  MatchInv'
  BY <1>3 DEF Reconcile, Goto, Return, listing
<1>4. CASE Other
  BY <1>4 DEF Other, RetainSourceFolder, OtherTakesLease, OtherLeavesLease, OtherDies,
       ReleaseReconciledSource, OtherWrites, mine, listing, roots
<1>5. ASSUME NEW root \in Roots, UserGrants(root) \/ ReachabilityChanges(root)
      PROVE  MatchInv'
  BY <1>5 DEF UserGrants, ReachabilityChanges, mine, listing, roots
<1> QED
  BY <1>1, <1>2, <1>3, <1>4, <1>5, Steps

\* The invariant of startup recovery beside another instance.
THEOREM StartupInvariant == Spec => []SInv
<1>1. SInv /\ [Next]_vars => SInv'
  BY GrantStep, LeaseStep, MatchStep DEF SInv
<1> QED
  BY <1>1, StartupInit, PTL DEF Spec

\* Whoever dies, releases or is released, an incomplete transaction's root has
\* an entry in the access list (SourceFolderAccessRetention).
THEOREM GrantsOutliveProcesses == Spec => []OpenTransactionKeepsAGrant
<1>1. SInv => OpenTransactionKeepsAGrant
  BY DEF SInv, GrantInv, OpenTransactionKeepsAGrant, TokenOf
<1> QED
  BY <1>1, StartupInvariant, PTL

\* While startup recovery holds the lease the store changes only when every
\* root the catalog asked for was restored (WindowsStorageStartupRecovery).
THEOREM GrantsPrecedeEffects == Spec => NoEffectBeforeEveryGrant
<1>1. SInv => [store' # store /\ lease = "startup"
                 => \A t \in requirements : RootOf[t] \in restored]_vars
  BY DEF SInv, LeaseInv, MatchInv
<1> QED
  BY <1>1, StartupInvariant, PTL DEF NoEffectBeforeEveryGrant

-----------------------------------------------------------------------------
(* The listing *)

\* The place of t among the members of S.
Rank(S, t) == Cardinality({s \in S : s <= t})

\* In the order of the names, without repetition.
Sorted(L) == \A i, j \in DOMAIN L : i < j => L[i] < L[j]

\* A rank is a position, and it grows with the name and with the set.
LEMMA RankFacts ==
    ASSUME NEW S \in SUBSET Nat, IsFiniteSet(S)
    PROVE  /\ Cardinality(S) \in Nat
           /\ \A t \in S : Rank(S, t) \in 1..Cardinality(S)
           /\ \A t, u \in S : t < u => Rank(S, t) < Rank(S, u)
<1>1. Cardinality(S) \in Nat
  BY FS_CardinalityType
<1> DEFINE Upto(t) == {s \in S : s <= t}
<1>2. ASSUME NEW t \in S PROVE IsFiniteSet(Upto(t)) /\ Rank(S, t) \in 1..Cardinality(S)
  <2>1. Upto(t) \in SUBSET S /\ t \in Upto(t)
    OBVIOUS
  <2>2. IsFiniteSet(Upto(t)) /\ Cardinality(Upto(t)) <= Cardinality(S)
    BY <2>1, FS_Subset
  <2>3. Cardinality(Upto(t)) \in Nat /\ Cardinality(Upto(t)) # 0
    BY <2>1, <2>2, FS_CardinalityType, FS_EmptySet
  <2> HIDE DEF Upto
  <2> QED
    BY <1>1, <2>2, <2>3 DEF Rank, Upto
<1>3. ASSUME NEW t \in S, NEW u \in S, t < u PROVE Rank(S, t) < Rank(S, u)
  <2>1. Upto(t) \in SUBSET Upto(u) /\ u \in Upto(u) /\ u \notin Upto(t)
    <3>1. t \in Nat /\ u \in Nat /\ \A s \in S : s \in Nat
      OBVIOUS
    <3>2. \A s \in S : s <= t => s <= u
      BY <1>3, <3>1
    <3>3. ~(u <= t) /\ u <= u
      BY <1>3, <3>1
    <3> QED
      BY <3>2, <3>3
  <2>2. /\ Cardinality(Upto(t)) <= Cardinality(Upto(u))
        /\ Cardinality(Upto(u)) # Cardinality(Upto(t))
    BY <1>2, <2>1, FS_Subset
  <2>3. Rank(S, t) = Cardinality(Upto(t)) /\ Rank(S, u) = Cardinality(Upto(u))
    BY DEF Rank
  <2>4. Rank(S, t) \in Nat /\ Rank(S, u) \in Nat
    <3>1. Rank(S, t) \in 1..Cardinality(S) /\ Rank(S, u) \in 1..Cardinality(S)
      BY <1>2
    <3> QED
      BY <1>1, <3>1
  <2> HIDE DEF Upto
  <2> QED
    BY <2>2, <2>3, <2>4
<1> QED
  BY <1>1, <1>2, <1>3

\* Every finite set of names can be listed in order.
LEMMA SortedExists ==
    ASSUME NEW S \in SUBSET Nat, IsFiniteSet(S)
    PROVE  \E L \in SetToSeqs(S) : Sorted(L)
<1> DEFINE n == Cardinality(S)
           R == [t \in S |-> Rank(S, t)]
<1>1. n \in Nat /\ R \in [S -> 1..n] /\ \A t, u \in S : t < u => R[t] < R[u]
  BY RankFacts
<1> HIDE DEF n, R
<1>2. \A t, u \in S : t # u => R[t] # R[u]
  <2> SUFFICES ASSUME NEW t \in S, NEW u \in S, t # u PROVE R[t] # R[u]
    OBVIOUS
  <2>1. R[t] \in 1..n /\ R[u] \in 1..n
    BY <1>1
  <2>2. t < u \/ u < t
    OBVIOUS
  <2> QED
    BY <1>1, <2>1, <2>2
<1>3. R \in Injection(S, 1..n)
  BY <1>1, <1>2 DEF Injection, IsInjective
<1>4. IsFiniteSet(1..n) /\ Cardinality(1..n) = n
  BY <1>1, FS_Interval
<1>5. R \in Surjection(S, 1..n)
  BY <1>3, <1>4, FS_Injection DEF n
<1>6. \A i \in 1..n : \E t \in S : R[t] = i
  BY <1>5 DEF Surjection
<1> DEFINE L == [i \in 1..n |-> CHOOSE t \in S : R[t] = i]
<1>7. L \in [1..n -> S] /\ \A i \in 1..n : R[L[i]] = i
  BY <1>6
<1> HIDE DEF L
<1>8. Sorted(L)
  <2> SUFFICES ASSUME NEW i \in 1..n, NEW j \in 1..n, i < j PROVE L[i] < L[j]
    BY <1>7 DEF Sorted
  <2>1. L[i] \in S /\ L[j] \in S /\ R[L[i]] = i /\ R[L[j]] = j
    BY <1>7
  <2>2. ~(L[j] < L[i]) /\ L[i] # L[j]
    <3>1. L[j] < L[i] => R[L[j]] < R[L[i]]
      BY <1>1, <2>1
    <3>2. ~(j < i) /\ i # j
      BY <1>1
    <3> QED
      BY <2>1, <3>1, <3>2
  <2>3. L[i] \in Nat /\ L[j] \in Nat
    BY <2>1
  <2> QED
    BY <2>2, <2>3
<1>9. L \in SetToSeqs(S)
  <2>1. \A i, j \in 1..n : i # j => L[i] # L[j]
    BY <1>7
  <2> QED
    BY <1>7, <2>1 DEF SetToSeqs, n
<1> QED
  BY <1>8, <1>9

\* In a sorted listing the place of a name is its rank.
LEMMA SortedRank ==
    ASSUME NEW S \in SUBSET Nat, IsFiniteSet(S), NEW L \in SetToSeqs(S), Sorted(L)
    PROVE  /\ L \in [1..Cardinality(S) -> S]
           /\ \A t \in S : L[Rank(S, t)] = t
<1> DEFINE n == Cardinality(S)
<1>1. n \in Nat
  BY FS_CardinalityType
<1>2. L \in [1..n -> S] /\ \A i, j \in 1..n : i # j => L[i] # L[j]
  BY DEF SetToSeqs
<1> HIDE DEF n
<1>3. IsFiniteSet(1..n) /\ Cardinality(1..n) = n
  BY <1>1, FS_Interval
<1>4. L \in Injection(1..n, S)
  BY <1>2 DEF Injection, IsInjective
<1>5. L \in Surjection(1..n, S)
  BY <1>3, <1>4, FS_Injection DEF n
<1>6. \A t \in S : \E i \in 1..n : L[i] = t
  BY <1>5 DEF Surjection
<1>7. ASSUME NEW i \in 1..n PROVE Rank(S, L[i]) = i
  <2> DEFINE U == {s \in S : s <= L[i]}
             f == [j \in 1..i |-> L[j]]
  <2>1. 1..i \subseteq 1..n
    BY <1>1
  <2>2. \A j \in 1..n : L[j] \in Nat /\ L[j] \in S
    BY <1>2
  <2>3. \A j \in 1..n : L[j] <= L[i] <=> j <= i
    <3> SUFFICES ASSUME NEW j \in 1..n PROVE L[j] <= L[i] <=> j <= i
      OBVIOUS
    <3>1. (j < i => L[j] < L[i]) /\ (i < j => L[i] < L[j])
      BY <1>2 DEF Sorted
    <3>2. L[j] \in Nat /\ L[i] \in Nat
      BY <2>2
    <3> QED
      BY <1>1, <3>1, <3>2
  <2>4. f \in [1..i -> U]
    BY <2>1, <2>2, <2>3
  <2>5. \A u \in U : \E j \in 1..i : f[j] = u
    <3> SUFFICES ASSUME NEW u \in U PROVE \E j \in 1..i : f[j] = u
      OBVIOUS
    <3>1. PICK j \in 1..n : L[j] = u
      BY <1>6
    <3>2. j \in 1..i
      BY <1>1, <2>3, <3>1
    <3> QED
      BY <3>1, <3>2
  <2>6. \A j, k \in 1..i : j # k => f[j] # f[k]
    BY <1>2, <2>1
  <2>7. f \in Bijection(1..i, U)
    BY <2>4, <2>5, <2>6, Zenon DEF Bijection, Injection, Surjection, IsInjective
  <2>8. i \in Nat /\ ExistsBijection(1..i, U)
    <3>1. i \in Nat
      BY <1>1
    <3> HIDE DEF U, f
    <3> QED
      BY <2>7, <3>1 DEF ExistsBijection
  <2>9. Cardinality(U) = i
    BY <2>8, FS_CountingElements
  <2> QED
    BY <2>9 DEF Rank
<1> QED
  BY <1>2, <1>6, <1>7 DEF n

\* A name's place moves back only: the listing grows.
LEMMA RankGrows ==
    ASSUME NEW S \in SUBSET Nat, NEW T \in SUBSET Nat, S \subseteq T, IsFiniteSet(T),
           NEW t \in S
    PROVE  Rank(S, t) <= Rank(T, t) /\ Rank(T, t) \in Nat
<1>1. {s \in S : s <= t} \in SUBSET {s \in T : s <= t} /\ {s \in T : s <= t} \in SUBSET T
  OBVIOUS
<1>2. IsFiniteSet({s \in T : s <= t})
  BY <1>1, FS_Subset
<1> QED
  BY <1>1, <1>2, FS_Subset, FS_CardinalityType DEF Rank

-----------------------------------------------------------------------------
(* The second reading of the catalog *)

\* The record of the other instance's transaction is at the other's step.
StageInv ==
    /\ other.pc \in {"retained", "leased"} => store[other.tx] = "absent"
    /\ other.pc = "created" => store[other.tx] = "unpublished"
    /\ other.pc = "published" => store[other.tx] = "open"

\* Finitely many folders exist, and the page holds some of them.
PageInv ==
    /\ IsFiniteSet(Folders)
    /\ pass \in {1, 2} /\ offset \in Nat /\ page \in Seq(Transactions)

\* What the reading knows of a transaction, or is still to come to.
Listed(t) ==
    \/ store[t] = "closed" \/ t \in requirements
    \/ \E i \in 1..Len(page) : page[i] = t
    \/ Rank(Folders, t) > offset

\* However the listing shifts meanwhile, no folder that was there is skipped.
ListInv ==
    pc = "list" /\ pass = 2 => existing \subseteq Folders /\ \A t \in existing : Listed(t)

\* The inductive invariant of the second reading.
RInv == SInv /\ StageInv /\ PageInv /\ ListInv

\* Folders are added and never removed, one at a time, and a closed record is
\* final.
LEMMA StoreGrows ==
    ASSUME SInv, StageInv, [Next]_vars
    PROVE  /\ Folders \subseteq Folders' /\ Folders' \subseteq Folders \cup {other.tx}
           /\ Folders' \subseteq Transactions
           /\ \A t \in Folders : store[t] = "closed" => store'[t] = "closed"
<1> USE DEF SInv, OtherInv, StageInv, Folders
<1>1. CASE UNCHANGED store
  BY <1>1
<1>2. ASSUME NEW root \in Roots, NEW t \in Transactions, Reconcile(root, t)
      PROVE  /\ Folders \subseteq Folders' /\ Folders' \subseteq Folders \cup {other.tx}
             /\ Folders' \subseteq Transactions
             /\ \A u \in Folders : store[u] = "closed" => store'[u] = "closed"
  BY <1>2 DEF Reconcile
<1>3. ASSUME NEW from, NEW state, NEW to, OtherWrites(from, state, to),
             <<from, state>> \in {<<"leased", "unpublished">>, <<"created", "open">>,
                                  <<"published", "closed">>}
      PROVE  /\ Folders \subseteq Folders' /\ Folders' \subseteq Folders \cup {other.tx}
             /\ Folders' \subseteq Transactions
             /\ \A u \in Folders : store[u] = "closed" => store'[u] = "closed"
  BY <1>3 DEF OtherWrites
<1>4. CASE UNCHANGED vars \/ Reads
  BY <1>1, <1>4, ReadsFrame DEF vars
<1>5. ASSUME NEW root \in Roots, UserGrants(root) \/ ReachabilityChanges(root)
      PROVE  UNCHANGED store
  BY <1>5 DEF UserGrants, ReachabilityChanges
<1>6. CASE Other
  <2>1. CASE \E t \in Transactions : RetainSourceFolder(t)
    BY <1>1, <2>1 DEF RetainSourceFolder
  <2>2. CASE OtherTakesLease \/ OtherLeavesLease \/ ReleaseReconciledSource \/ OtherDies
    BY <1>1, <2>2 DEF OtherTakesLease, OtherLeavesLease, ReleaseReconciledSource, OtherDies
  <2> QED
    BY <1>3, <1>6, <2>1, <2>2 DEF Other
<1> QED
  BY <1>1, <1>2, <1>4, <1>5, <1>6, Steps

\* The other instance writes its records in order.
LEMMA StageStep ==
    ASSUME SInv, StageInv, [Next]_vars
    PROVE  StageInv'
<1> USE DEF SInv, OtherInv, StageInv
<1>1. CASE UNCHANGED vars
  BY <1>1 DEF vars
<1>2. CASE Reads
  BY <1>2, ReadsFrame
<1>3. ASSUME NEW root \in Roots, NEW t \in Transactions, Reconcile(root, t)
      PROVE  StageInv'
  <2>1. lease = "startup" /\ other' = other
    BY <1>3 DEF Reconcile, LeaseInv
  <2>2. other.pc \notin {"created", "published"}
    BY <2>1 DEF LeaseInv
  <2> QED
    BY <1>3, <2>1, <2>2 DEF Reconcile
<1>4. CASE Other
  <2>1. ASSUME NEW t \in Transactions, RetainSourceFolder(t) PROVE StageInv'
    BY <2>1 DEF RetainSourceFolder
  <2>2. CASE OtherTakesLease \/ OtherLeavesLease \/ OtherDies \/ ReleaseReconciledSource
    BY <2>2 DEF OtherTakesLease, OtherLeavesLease, OtherDies, ReleaseReconciledSource,
                OtherGoto
  <2>3. CASE OtherWrites("leased", "unpublished", "created")
    BY <2>3 DEF OtherWrites, OtherGoto
  <2>4. CASE OtherWrites("created", "open", "published")
    BY <2>4 DEF OtherWrites, OtherGoto
  <2>5. CASE OtherWrites("published", "closed", "closed")
    BY <2>5 DEF OtherWrites, OtherGoto
  <2> QED
    BY <1>4, <2>1, <2>2, <2>3, <2>4, <2>5 DEF Other
<1>5. ASSUME NEW root \in Roots, UserGrants(root) \/ ReachabilityChanges(root)
      PROVE  StageInv'
  BY <1>5 DEF UserGrants, ReachabilityChanges
<1> QED
  BY <1>1, <1>2, <1>3, <1>4, <1>5, Steps

\* The listing holds the folders, each at its rank.
LEMMA ListingFacts ==
    ASSUME SInv, PageInv
    PROVE  /\ Folders \in SUBSET Nat /\ Folders \in SUBSET Transactions
           /\ Len(Listing) = Cardinality(Folders) /\ Cardinality(Folders) \in Nat
           /\ Listing \in Seq(Folders)
           /\ \A t \in Folders : Rank(Folders, t) \in 1..Len(Listing)
                                 /\ Listing[Rank(Folders, t)] = t
<1>1. Folders \in SUBSET Nat /\ Folders \in SUBSET Transactions
  BY StartupConstants DEF Folders
<1>2. IsFiniteSet(Folders)
  BY DEF PageInv
<1>3. Listing \in SetToSeqs(Folders) /\ Sorted(Listing)
  <2>1. \E L \in SetToSeqs(Folders) : Sorted(L)
    BY <1>1, <1>2, SortedExists
  <2>2. Listing = CHOOSE L \in SetToSeqs(Folders) : Sorted(L)
    BY DEF Listing, Sorted
  <2> QED
    BY <2>1, <2>2
<1>4. /\ Listing \in [1..Cardinality(Folders) -> Folders]
      /\ \A t \in Folders : Listing[Rank(Folders, t)] = t
  BY <1>1, <1>2, <1>3, SortedRank
<1>5. /\ Cardinality(Folders) \in Nat
      /\ \A t \in Folders : Rank(Folders, t) \in 1..Cardinality(Folders)
  BY <1>1, <1>2, RankFacts
<1>6. Listing \in Seq(Folders) /\ Len(Listing) = Cardinality(Folders)
  BY <1>4, <1>5
<1> QED
  BY <1>1, <1>4, <1>5, <1>6

\* A part of a sequence.
LEMMA PartOfSequence ==
    ASSUME NEW S, NEW s \in Seq(S), NEW m \in Nat, NEW n \in Nat,
           1 <= m, m <= n, n <= Len(s)
    PROVE  /\ SubSeq(s, m, n) \in Seq(S) /\ Len(SubSeq(s, m, n)) = n - m + 1
           /\ \A i \in 1..(n - m + 1) : SubSeq(s, m, n)[i] = s[m + i - 1]
OBVIOUS

\* One page: the next names of the listing, at most PageSize of them.
LEMMA PageFacts ==
    ASSUME SInv, PageInv, offset < Len(Listing),
           NEW p, p = SubSeq(Listing, offset + 1, Min({offset + PageSize, Len(Listing)}))
    PROVE  /\ p \in Seq(Transactions)
           /\ offset + Len(p) \in Nat /\ offset + Len(p) <= Len(Listing)
           /\ \A k \in (offset + 1)..(offset + Len(p)) :
                 k - offset \in 1..Len(p) /\ p[k - offset] = Listing[k]
<1> DEFINE last == Min({offset + PageSize, Len(Listing)})
<1>1. offset \in Nat /\ PageSize \in Nat /\ Len(Listing) \in Nat
  BY ListingFacts, StartupConstants DEF PageInv
<1>2. last \in Nat /\ offset + 1 <= last /\ last <= Len(Listing)
  <2>1. \E x \in {offset + PageSize, Len(Listing)} :
          \A y \in {offset + PageSize, Len(Listing)} : x <= y
    BY <1>1
  <2>2. /\ last \in {offset + PageSize, Len(Listing)}
        /\ \A y \in {offset + PageSize, Len(Listing)} : last <= y
    BY <2>1 DEF Min
  <2> QED
    BY <1>1, <2>2, StartupConstants
<1> HIDE DEF last
<1>3. p = SubSeq(Listing, offset + 1, last)
  BY DEF last
<1>4. Listing \in Seq(Transactions)
  BY ListingFacts
<1>5. /\ p \in Seq(Transactions)
      /\ Len(p) = last - (offset + 1) + 1
      /\ \A i \in 1..(last - (offset + 1) + 1) : p[i] = Listing[(offset + 1) + i - 1]
  <2>1. PICK first \in Nat : first = offset + 1
    BY <1>1
  <2>2. 1 <= first /\ first <= last
    BY <1>1, <1>2, <2>1
  <2>3. /\ SubSeq(Listing, first, last) \in Seq(Transactions)
        /\ Len(SubSeq(Listing, first, last)) = last - first + 1
        /\ \A i \in 1..(last - first + 1) :
              SubSeq(Listing, first, last)[i] = Listing[first + i - 1]
    BY <1>2, <1>4, <2>2, PartOfSequence
  <2> QED
    BY <1>3, <2>1, <2>3, Zenon
<1>6. Len(p) = last - offset
  BY <1>1, <1>2, <1>5
<1>7. ASSUME NEW k \in (offset + 1)..last
      PROVE  k - offset \in 1..Len(p) /\ p[k - offset] = Listing[k]
  <2>1. /\ k - offset \in 1..(last - (offset + 1) + 1) /\ (offset + 1) + (k - offset) - 1 = k
        /\ k - offset \in 1..(last - offset)
    BY <1>1, <1>2
  <2>2. p[k - offset] = Listing[(offset + 1) + (k - offset) - 1]
    BY <1>5, <2>1
  <2> QED
    BY <1>6, <2>1, <2>2
<1>8. offset + Len(p) = last
  <2>1. offset + (last - offset) = last
    BY <1>1, <1>2
  <2> QED
    BY <1>6, <2>1
<1> QED
  BY <1>2, <1>5, <1>7, <1>8

\* The position in the listing stays a position.
LEMMA PageStep ==
    ASSUME SInv, StageInv, PageInv, [Next]_vars
    PROVE  PageInv'
<1>1. IsFiniteSet(Folders')
  <2>1. IsFiniteSet(Folders \cup {other.tx})
    BY FS_AddElement DEF PageInv
  <2> QED
    BY <2>1, StoreGrows, FS_Subset
<1>2. pass' \in {1, 2} /\ offset' \in Nat /\ page' \in Seq(Transactions)
  <2> USE DEF PageInv
  <2>1. CASE UNCHANGED <<pass, offset, page>>
    BY <2>1
  <2>2. CASE ListPage
    <3>1. CASE stop
      BY <2>2, <3>1 DEF ListPage, Return
    <3>2. CASE ~stop
      <4>1. /\ offset < Len(Listing) /\ offset' = offset + Len(page') /\ pass' = pass
            /\ page' = SubSeq(Listing, offset + 1, Min({offset + PageSize, Len(Listing)}))
        BY <2>2, <3>2 DEF ListPage, AdvanceByFolders
      <4> QED
        BY <4>1, PageFacts
    <3> QED
      BY <3>1, <3>2
  <2>9. CASE page' = << >> /\ offset' = 0 /\ pass' \in {1, 2}
    BY <2>9, EmptySeq
  <2>3. CASE ReadFolder
    <3>1. \/ page' = << >> /\ offset' = 0 /\ pass' = 1
          \/ page' = Tail(page) /\ page # << >> /\ UNCHANGED <<offset, pass>>
      BY <2>3 DEF ReadFolder, Return
    <3> QED
      BY <2>9, <3>1, HeadTailProperties
  <2>4. CASE Reads /\ ~ListPage /\ ~ReadFolder
    <3>1. \/ page' = << >> /\ offset' = 0 /\ pass' \in {1, 2}
          \/ UNCHANGED <<pass, page>> /\ offset' \in {offset, 0}
      BY <2>4 DEF Reads, Begin, RestoreToken, ReadCatalog, CatalogEnds, MatchGrant,
         MissingGrant, GrantsMatched, BeginRecovery, RecoverRoot, RefuseBusyStore, RootDone,
         Reinspect, NativeFailure, StopRequested, StartupDies, Return, ListFrom, listing
    <3> QED
      BY <2>9, <3>1
  <2>5. ASSUME NEW root \in Roots, NEW t \in Transactions, Reconcile(root, t)
        PROVE  pass' \in {1, 2} /\ offset' \in Nat /\ page' \in Seq(Transactions)
    <3>1. \/ page' = << >> /\ offset' = 0 /\ pass' = 1
          \/ UNCHANGED <<pass, page, offset>>
      BY <2>5 DEF Reconcile, Return, listing
    <3> QED
      BY <2>1, <2>9, <3>1
  <2>6. CASE Other
    BY <2>6 DEF Other, RetainSourceFolder, OtherTakesLease, OtherLeavesLease, OtherDies,
         ReleaseReconciledSource, OtherWrites, mine, listing
  <2>7. ASSUME NEW root \in Roots, UserGrants(root) \/ ReachabilityChanges(root)
        PROVE  UNCHANGED <<pass, offset, page>>
    BY <2>7 DEF UserGrants, ReachabilityChanges, mine, listing
  <2>8. CASE UNCHANGED vars
    BY <2>1, <2>8 DEF vars, listing
  <2> QED
    BY <2>1, <2>2, <2>3, <2>4, <2>5, <2>6, <2>7, <2>8, Steps
<1> QED
  BY <1>1, <1>2 DEF PageInv

\* What the reading has not come to yet is still ahead after any step that
\* leaves the reading where it is.
LEMMA ListStays ==
    ASSUME RInv, [Next]_vars, UNCHANGED <<pc, pass, offset, page, requirements, existing>>
    PROVE  ListInv'
<1> SUFFICES ASSUME pc = "list" /\ pass = 2, NEW t \in existing
             PROVE  existing \subseteq Folders' /\ Listed(t)'
  BY DEF ListInv
<1>1. existing \subseteq Folders /\ Listed(t) /\ t \in Folders
  BY DEF RInv, ListInv
<1>2. Folders \subseteq Folders' /\ (store[t] = "closed" => store'[t] = "closed")
  BY <1>1, StoreGrows DEF RInv
<1>3. Rank(Folders, t) <= Rank(Folders', t) /\ Rank(Folders', t) \in Nat
  <2>1. Folders' \in SUBSET Nat /\ Folders \in SUBSET Nat
    BY StoreGrows, ListingFacts, StartupConstants DEF RInv
  <2>2. IsFiniteSet(Folders')
    BY PageStep DEF RInv, PageInv
  <2> QED
    BY <1>1, <1>2, <2>1, <2>2, RankGrows
<1>4. Rank(Folders, t) \in Nat /\ offset \in Nat
  BY <1>1, ListingFacts DEF RInv, PageInv
<1> QED
  BY <1>1, <1>2, <1>3, <1>4 DEF Listed

\* Every folder that was there is read, or is ahead.
LEMMA ListStep ==
    ASSUME RInv, [Next]_vars
    PROVE  ListInv'
<1>1. CASE UNCHANGED <<pc, pass, offset, page, requirements, existing>>
  BY <1>1, ListStays
<1>2. CASE ListPage
  <2>1. CASE stop
    BY <1>2, <2>1 DEF ListPage, Return, ListInv
  <2>2. CASE ~stop
    <3>1. /\ offset < Len(Listing) /\ offset' = offset + Len(page') /\ page = << >>
          /\ page' = SubSeq(Listing, offset + 1, Min({offset + PageSize, Len(Listing)}))
          /\ UNCHANGED <<store, pass, requirements, existing>> /\ pc = "list"
      BY <1>2, <2>2 DEF ListPage, AdvanceByFolders, Goto
    <3>2. Folders' = Folders
      BY <3>1 DEF Folders
    <3> SUFFICES ASSUME pass = 2, NEW t \in existing
                 PROVE  existing \subseteq Folders' /\ Listed(t)'
      BY <3>1 DEF ListInv
    <3>3. existing \subseteq Folders /\ Listed(t) /\ t \in Folders
      BY <3>1 DEF RInv, ListInv
    <3>4. CASE ~(Rank(Folders, t) > offset)
      BY <3>1, <3>2, <3>3, <3>4 DEF Listed
    <3>5. CASE Rank(Folders, t) > offset
      <4>1. PICK k \in Nat : /\ k = Rank(Folders, t) /\ Listing[k] = t
                           /\ offset \in Nat /\ offset' \in Nat
        <5>1. offset \in Nat /\ offset' \in Nat
          BY PageStep DEF RInv, PageInv
        <5>2. /\ Rank(Folders, t) \in 1..Len(Listing) /\ Listing[Rank(Folders, t)] = t
              /\ Len(Listing) \in Nat
          BY <3>3, ListingFacts DEF RInv
        <5>3. Rank(Folders, t) \in Nat
          BY <5>2
        <5> QED
          BY <5>1, <5>2, <5>3
      <4>2. CASE k > offset'
        BY <3>2, <3>3, <4>1, <4>2 DEF Listed
      <4>3. CASE ~(k > offset')
        <5>1. k \in (offset + 1)..(offset + Len(page'))
          <6>1. Len(page') \in Nat
            BY PageStep, LenProperties DEF RInv, PageInv
          <6>2. k \in Nat /\ offset \in Nat /\ k > offset /\ ~(k > offset + Len(page'))
            BY <3>1, <3>5, <4>1, <4>3
          <6> QED
            BY <6>1, <6>2
        <5>2. k - offset \in 1..Len(page') /\ page'[k - offset] = t
          BY <3>1, <4>1, <5>1, PageFacts DEF RInv
        <5> QED
          BY <3>2, <3>3, <5>2 DEF Listed
      <4> QED
        BY <4>2, <4>3
    <3> QED
      BY <3>4, <3>5
  <2> QED
    BY <2>1, <2>2
<1>3. CASE ReadFolder
  <2>1. CASE pc' # "list"
    BY <2>1 DEF ListInv
  <2>2. CASE pc' = "list"
    <3>1. /\ store[Head(page)] # "unpublished" /\ page # << >> /\ page' = Tail(page)
          /\ requirements' = requirements \cup {t \in {Head(page)} : store[t] = "open"}
          /\ UNCHANGED <<store, pass, offset, existing>> /\ pc = "list"
      BY <1>3, <2>2 DEF ReadFolder, Goto, Return
    <3>2. Folders' = Folders /\ page \in Seq(Transactions)
      BY <3>1 DEF Folders, RInv, PageInv
    <3> SUFFICES ASSUME pass = 2, NEW t \in existing
                 PROVE  existing \subseteq Folders' /\ Listed(t)'
      BY <3>1 DEF ListInv
    <3>3. existing \subseteq Folders /\ Listed(t) /\ t \in Folders
      BY <3>1 DEF RInv, ListInv
    <3>4. store[t] \in {"unpublished", "open", "closed"}
      BY <3>3 DEF Folders, RInv, SInv, OtherInv
    <3>5. CASE t = Head(page)
      BY <3>1, <3>2, <3>3, <3>4, <3>5 DEF Listed
    <3>6. CASE t # Head(page)
      <4>1. ASSUME NEW i \in 1..Len(page), page[i] = t
            PROVE  \E j \in 1..Len(page') : page'[j] = t
        <5>1. i # 1 /\ i \in Nat /\ Len(page) \in Nat
          BY <3>2, <3>6, <4>1
        <5>2. i - 1 \in 1..Len(page') /\ page'[i - 1] = page[i]
          BY <3>1, <3>2, <5>1
        <5> QED
          BY <4>1, <5>2
      <4> QED
        BY <3>1, <3>2, <3>3, <4>1 DEF Listed
    <3> QED
      BY <3>5, <3>6
  <2> QED
    BY <2>1, <2>2
<1>4. CASE Reinspect
  <2>1. offset' = 0 /\ existing' = Folders /\ Folders' = Folders
    BY <1>4 DEF Reinspect, ListFrom, Folders
  <2>2. \A t \in Folders : Rank(Folders, t) > 0
    BY ListingFacts DEF RInv
  <2> QED
    BY <2>1, <2>2 DEF ListInv, Listed
<1>5. CASE Begin \/ RestoreToken \/ ReadCatalog \/ CatalogEnds \/ MatchGrant \/ GrantsMatched
           \/ RecoverRoot \/ RootDone \/ NativeFailure \/ StartupDies
  BY <1>5 DEF Begin, RestoreToken, ReadCatalog, CatalogEnds, MatchGrant, MissingGrant,
       GrantsMatched, BeginRecovery, RecoverRoot, RefuseBusyStore, RootDone, NativeFailure,
       StartupDies, Goto, Return, ListFrom, ListInv
<1>6. ASSUME NEW root \in Roots, NEW t \in Transactions, Reconcile(root, t)
      PROVE  ListInv'
  BY <1>6 DEF Reconcile, Goto, Return, ListInv
<1>7. CASE Other
  <2>1. UNCHANGED mine
    BY <1>7 DEF Other, RetainSourceFolder, OtherTakesLease, OtherLeavesLease, OtherDies,
         ReleaseReconciledSource, OtherWrites
  <2> QED
    BY <1>1, <2>1 DEF mine, listing
<1>8. ASSUME NEW root \in Roots, UserGrants(root) \/ ReachabilityChanges(root)
      PROVE  ListInv'
  BY <1>1, <1>8 DEF UserGrants, ReachabilityChanges, mine, listing
<1>9. CASE StopRequested \/ UNCHANGED vars
  BY <1>1, <1>9 DEF StopRequested, vars, listing
<1> QED
  BY <1>2, <1>3, <1>4, <1>5, <1>6, <1>7, <1>8, <1>9, Steps DEF Reads

\* The invariant of both readings.
THEOREM ReadingInvariant == Spec => []RInv
<1>1. Init => RInv
  <2> SUFFICES ASSUME Init PROVE RInv
    OBVIOUS
  <2>1. Folders = {}
    BY DEF Init, Folders
  <2>2. StageInv /\ PageInv /\ ListInv
    BY <2>1, FS_EmptySet DEF Init, StageInv, PageInv, ListInv
  <2> QED
    BY <2>2, StartupInit DEF RInv
<1>2. RInv /\ [Next]_vars => RInv'
  BY GrantStep, LeaseStep, MatchStep, StageStep, PageStep, ListStep DEF RInv, SInv
<1> QED
  BY <1>1, <1>2, PTL DEF Spec

\* Startup recovery succeeds only when every transaction whose folder existed
\* as the second reading began is closed, for every page size and however the
\* other instance's folders shift the pages (WindowsStorageStartupRecovery).
THEOREM SuccessIsReconciled == Spec => SuccessMeansReconciled
<1>1. ASSUME RInv, [Next]_vars, result # "success", result' = "success"
      PROVE  \A t \in existing : store[t] = "closed"
  <2>1. CatalogEnds /\ ~stop /\ pass # 1 /\ requirements = {}
    BY <1>1, Steps DEF Reads, Begin, RestoreToken, ReadCatalog, ListPage, ReadFolder,
         CatalogEnds, MatchGrant, MissingGrant, GrantsMatched, BeginRecovery, RecoverRoot,
         RefuseBusyStore, RootDone, Reinspect, NativeFailure, StopRequested, StartupDies,
         Goto, Return, ListFrom, Verdict, Reconcile, Other, RetainSourceFolder,
         OtherTakesLease, OtherLeavesLease, OtherDies, ReleaseReconciledSource, OtherWrites,
         UserGrants, ReachabilityChanges, mine, vars
  <2>2. pc = "list" /\ pass = 2 /\ page = << >> /\ offset >= Len(Listing)
    BY <1>1, <2>1 DEF CatalogEnds, RInv, PageInv
  <2> SUFFICES ASSUME NEW t \in existing PROVE store[t] = "closed"
    OBVIOUS
  <2>3. t \in Folders /\ Listed(t)
    BY <1>1, <2>2 DEF RInv, ListInv
  <2>4. Rank(Folders, t) \in 1..Len(Listing) /\ Len(Listing) \in Nat /\ offset \in Nat
    BY <1>1, <2>3, ListingFacts DEF RInv, PageInv
  <2>5. ~(Rank(Folders, t) > offset)
    BY <2>2, <2>4
  <2> QED
    BY <2>1, <2>2, <2>3, <2>5 DEF Listed
<1> QED
  BY <1>1, ReadingInvariant, PTL DEF Spec, SuccessMeansReconciled
=============================================================================
