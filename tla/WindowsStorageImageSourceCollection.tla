---------------- MODULE WindowsStorageImageSourceCollection ----------------
(***************************************************************************)
(* The review of a selected folder: WindowsStorageImageSourceCollection::   *)
(* discover walks the tree page by page, BatchProcessingCoordinator::analyze*)
(* orders what it found and captures each candidate, and a candidate is     *)
(* committed through the capability that discovery gave it, while other     *)
(* programs move, replace and edit the files and folders.                   *)
(*                                                                         *)
(* An item is its file identity; place says which folder holds it and under *)
(* which name.  A Storage object is a path, resolved anew by every call and *)
(* through junctions; a proof is the identity and canonical path of what    *)
(* the path named when its handle was opened.  A path is the sequence of    *)
(* names below the volume.                                                  *)
(***************************************************************************)
EXTENDS Integers, Sequences, SequencesExt, FiniteSets

CONSTANTS
    Folders, Files, Junctions, \* identities
    Root,                  \* the identity the user selected
    NameOrder,             \* every name, in ordinal order
    Images,                \* the names with a candidate extension
    Folded,                \* a name's case-insensitive key
    Scenarios,             \* by name: a volume and what other programs do to it
    MaximumItemsPerPage

Ids == Folders \cup Files \cup Junctions
Volume == "Volume"
Missing == "Missing"   \* what a path names that names nothing
Gone == "Gone"
Nowhere == [in |-> Gone, as |-> Gone]
Place == [in : Folders \cup {Volume}, as : ToSet(NameOrder)] \cup {Nowhere}
TraversalScope == {"SelectedFolderOnly", "SelectedFolderAndDescendants"}

ASSUME CollectionAssumption ==
    /\ Root \in Folders
    /\ IsFiniteSet(Ids) /\ {Volume, Missing, Gone} \cap Ids = {}
    /\ Folders \cap Files = {} /\ (Folders \cup Files) \cap Junctions = {}
    /\ NameOrder \in Seq(ToSet(NameOrder)) /\ IsInjective(NameOrder)
    /\ Gone \notin ToSet(NameOrder) /\ Images \subseteq ToSet(NameOrder) /\ DOMAIN Folded = ToSet(NameOrder)
    /\ MaximumItemsPerPage \in Nat \ {0}
    /\ \A name \in DOMAIN Scenarios :
           LET s == Scenarios[name]
           IN  /\ s.target \in [Junctions -> Folders] /\ s.layouts \subseteq [Ids -> Place]
               /\ \A layout \in s.layouts : \A x, y \in Ids :
                      layout[x] = layout[y] => x = y \/ layout[x] = Nowhere
               /\ s.moves \subseteq [id : Ids, to : Place]
               /\ \A i \in DOMAIN s.records : s.records[i].id \in Folders \ {Root}
               /\ s.pinned \in BOOLEAN /\ {s.relocations, s.edits} \subseteq Nat

VARIABLES
    scenario,            \* its name
    place, content,      \* the volume; an edit counts up a file's content
    relocations, edits,  \* so far, by other programs
    disturbed,           \* history: folders that were changed, or are elsewhere
    stop, scope, pc,
    root,                \* rootAncestry
    nextRecord, exclusions, \* retainedExclusionProofs
    pending, current,    \* folders still to enumerate, and the one being
    firstItem, page,
    candidates, issues, cancellationRequested,
    rows, next, proof,   \* the review: files, the current one, its proof
    progress,
    strayed,             \* history: folders enumerated that were not selected
    commits              \* history: what the engine was admitted to change

volume == <<scenario, place, content, relocations, edits, disturbed>>
walk == <<pending, current, firstItem, page>>
found == <<candidates, issues>>
review == <<rows, next, proof, progress, commits>>
vars == <<volume, stop, scope, pc, root, nextRecord, exclusions, walk, found,
          cancellationRequested, review, strayed>>

world == Scenarios[scenario]
Target == world.target           \* the folder a junction leads to
OwnedRecords == world.records    \* applicationOwnedFolders_: identity and path
ProofHandlesPin == world.pinned  \* a proof's open handle keeps the item in place

-----------------------------------------------------------------------------
(* The volume.                                                              *)

Entry(folder, name) ==
    LET at == {x \in Ids : place[x].in = folder /\ place[x].as = name}
    IN  IF at = {} THEN Missing ELSE CHOOSE x \in at : TRUE

\* The items from the volume down to x; a deleted folder takes its tree away.
Ancestry(x) ==
    LET up[n \in 0..Cardinality(Ids)] ==
            [y \in Ids \cup {Volume, Gone} |->
                 IF n = 0 \/ y \in {Volume, Gone} THEN <<y>>
                 ELSE Append(up[n - 1][place[y].in], y)]
    IN  up[Cardinality(Ids)][x]
CanonicalPath(x) ==
    LET line == Ancestry(x) IN [i \in 1..(Len(line) - 1) |-> place[line[i + 1]].as]
Attached(x) == Ancestry(x)[1] = Volume
Within(x, folder) == Attached(x) /\ folder \in ToSet(Ancestry(x))

\* Opening a path follows every junction on the way, unless its target is deleted.
Followed(x) ==
    IF x \notin Junctions THEN x ELSE IF Attached(Target[x]) THEN Target[x] ELSE Missing
Resolve(path) ==
    LET at[n \in 0..Len(path)] ==
            IF n = 0 THEN Volume ELSE Followed(Entry(at[n - 1], path[n]))
    IN  at[Len(path)]
Link(path) == Entry(Resolve(Front(path)), Last(path))

\* inspectItem: the identity and location behind a path, if it is of the kind.
Inspected(path, kind) ==
    LET x == Resolve(path)
    IN  IF x \in kind THEN {[id |-> x, path |-> CanonicalPath(x)]} ELSE {}

\* A folder's names in ordinal order, by their places in NameOrder.
Present(folder) == {i \in DOMAIN NameOrder : Entry(folder, NameOrder[i]) # Missing}
Nth(I, k) == CHOOSE i \in I : Cardinality({j \in I : j < i}) = k - 1
Listing(folder) ==
    LET present == Present(folder)
    IN  [k \in 1..Cardinality(present) |-> NameOrder[Nth(present, k)]]

-----------------------------------------------------------------------------
NoFolder == [path |-> <<>>, chain |-> {}]
NoProgress == [discovered |-> 0, complete |-> FALSE, analyzed |-> 0, eligible |-> 0]
Relative(path) == SubSeq(path, Len(root.path) + 1, Len(path))

Init ==
    /\ scenario \in DOMAIN Scenarios
    /\ place \in world.layouts /\ content = [f \in Files |-> 0]
    /\ relocations = 0 /\ edits = 0 /\ disturbed = {}
    /\ stop = FALSE /\ scope \in TraversalScope /\ pc = "Begin"
    /\ root = [id |-> Root, path |-> CanonicalPath(Root)]
    /\ nextRecord = 1 /\ exclusions = {}
    /\ pending = <<>> /\ current = NoFolder /\ firstItem = 0 /\ page = <<>>
    /\ candidates = <<>> /\ issues = {} /\ cancellationRequested = FALSE
    /\ rows = <<>> /\ next = 1 /\ proof = {} /\ progress = NoProgress
    /\ strayed = {} /\ commits = {}

\* A failed review destroys every proof and capability it had acquired.
FailReview ==
    /\ pc' = "Failed"
    /\ pending' = <<>> /\ current' = NoFolder /\ page' = <<>> /\ firstItem' = 0
    /\ exclusions' = {} /\ candidates' = <<>> /\ issues' = {}
    /\ UNCHANGED <<volume, stop, scope, root, nextRecord, cancellationRequested,
                   review, strayed>>

\* analyze() validates the whole request before it discovers anything.
RefuseRequest == pc = "Begin" /\ FailReview

BeginCancelled ==
    /\ pc = "Begin" /\ stop
    /\ cancellationRequested' = TRUE /\ pc' = "Collate"
    /\ UNCHANGED <<volume, stop, scope, root, nextRecord, exclusions, walk, found,
                   review, strayed>>

\* The selected folder's Storage object still has the path it was picked with.
InspectRoot ==
    /\ pc = "Begin" /\ ~stop
    /\ \/ FailReview
       \/ \E inspected \in Inspected(root.path, Folders) :
             /\ root' = inspected /\ pc' = "Exclude"
             /\ pending' = <<[path |-> inspected.path, chain |-> {inspected.id}]>>
             /\ UNCHANGED <<volume, stop, scope, nextRecord, exclusions, current,
                            firstItem, page, found, cancellationRequested, review,
                            strayed>>

\* Only a record below the selected root is opened, and it must still be the
\* folder that was recorded, where it was recorded.
ExclusionFailed(record) ==
    [id |-> record.id, path |-> record.path] \notin Inspected(record.path, Folders)

InspectExclusion ==
    /\ pc = "Exclude" /\ nextRecord <= Len(OwnedRecords)
    /\ LET record == OwnedRecords[nextRecord]
           relevant == IsPrefix(root.path, record.path)
       IN  \/ relevant /\ FailReview
           \/ /\ relevant => ~ExclusionFailed(record)
              /\ exclusions' = exclusions \cup (IF relevant THEN {Resolve(record.path)} ELSE {})
              /\ nextRecord' = nextRecord + 1
              /\ UNCHANGED <<volume, stop, scope, pc, root, walk, found,
                             cancellationRequested, review, strayed>>

\* Memory can run out anywhere in the walk; only native errors are issues.
RunOutOfMemory == pc \in {"Folder", "Page", "Attributes", "Inspect"} /\ FailReview

StartTraversal ==
    /\ pc = "Exclude" /\ nextRecord > Len(OwnedRecords)
    /\ pc' = "Folder"
    /\ UNCHANGED <<volume, stop, scope, root, nextRecord, exclusions, walk, found,
                   cancellationRequested, review, strayed>>

-----------------------------------------------------------------------------
(* The traversal.                                                           *)

TakeFolder ==
    /\ pc = "Folder" /\ pending # <<>> /\ ~stop
    /\ current' = Last(pending) /\ pending' = Front(pending)
    /\ firstItem' = 0 /\ pc' = "Page"
    /\ UNCHANGED <<volume, stop, scope, root, nextRecord, exclusions, page, found,
                   cancellationRequested, review, strayed>>

\* Discovery returns: folders nobody's candidate needs are let go.
FinishTraversal ==
    /\ pc = "Folder" /\ (pending = <<>> \/ stop)
    /\ cancellationRequested' = stop /\ pc' = "Collate"
    /\ pending' = <<>> /\ current' = NoFolder /\ firstItem' = 0 /\ page' = <<>>
    /\ exclusions' = {}
    /\ UNCHANGED <<volume, stop, scope, root, nextRecord, found, review, strayed>>

Issue(path, kind) == issues' = issues \cup {[path |-> Relative(path), kind |-> kind]}

LeaveFolder ==
    /\ pc' = "Folder"
    /\ current' = NoFolder /\ firstItem' = 0 /\ page' = <<>>
    /\ UNCHANGED <<volume, stop, scope, root, nextRecord, exclusions, pending,
                   candidates, cancellationRequested, review>>

Owned == {OwnedRecords[i].id : i \in DOMAIN OwnedRecords}
Foreign(folder) ==
    \/ ~Within(folder, root.id)
    \/ \E o \in Owned \ {root.id} : Within(o, root.id) /\ Within(folder, o)
Listed(folder) == strayed' = strayed \cup {x \in {folder} : Foreign(x)}

\* GetItemsAsync(firstItem, maximumItemsPerPage) of the folder as it is now.
PageFrom(names, first) ==
    LET size == Len(names) - first
        bounded == IF size > MaximumItemsPerPage THEN MaximumItemsPerPage ELSE size
    IN  [i \in 1..bounded |-> names[first + i]]
NextPageSkipping(names) == PageFrom(names, IF firstItem = 0 THEN 0 ELSE firstItem + 1)
NextPage(names) == PageFrom(names, firstItem)

Item(folder, name) ==
    [path |-> Append(current.path, name), directory |-> Entry(folder, name) \notin Files]

GetPage ==
    /\ pc = "Page"
    /\ LET folder == Resolve(current.path)
           names == NextPage(Listing(folder))
       IN  \/ stop /\ LeaveFolder /\ UNCHANGED <<issues, strayed>>
           \/ ~stop /\ Issue(current.path, "SourceAccessFailed") /\ LeaveFolder /\ UNCHANGED strayed
           \/ /\ ~stop /\ folder \in Folders /\ names = <<>>
              /\ Listed(folder)
              /\ LeaveFolder /\ UNCHANGED issues
           \/ /\ ~stop /\ folder \in Folders /\ names # <<>>
              /\ Listed(folder)
              /\ firstItem' = firstItem + Len(names)
              /\ page' = [i \in DOMAIN names |-> Item(folder, names[i])]
              /\ pc' = "Attributes"
              /\ UNCHANGED <<volume, stop, scope, root, nextRecord, exclusions, pending,
                             current, found, cancellationRequested, review>>

EndPage ==
    /\ pc = "Attributes" /\ (page = <<>> \/ stop)
    /\ page' = <<>> /\ pc' = "Page"
    /\ UNCHANGED <<volume, stop, scope, root, nextRecord, exclusions, pending, current,
                   firstItem, found, cancellationRequested, review, strayed>>

\* The item has been dealt with: one with an issue, or none.
ItemDone ==
    /\ page' = Tail(page) /\ pc' = "Attributes"
    /\ UNCHANGED <<volume, stop, scope, root, nextRecord, exclusions, current, firstItem,
                   cancellationRequested, review, strayed>>

ItemRetried ==
    /\ Issue(Head(page).path, "SourceAccessFailed") /\ pc' = "Attributes"
    /\ UNCHANGED <<volume, stop, scope, root, nextRecord, exclusions, walk, candidates,
                   cancellationRequested, review, strayed>>

ItemFailed ==
    Issue(Head(page).path, "SourceAccessFailed") /\ ItemDone /\ UNCHANGED <<pending, candidates>>

ReadAttributes ==
    /\ pc = "Attributes" /\ page # <<>> /\ ~stop
    /\ LET item == Link(Head(page).path)
       IN  \/ ItemFailed
           \/ /\ item \in Junctions
              /\ Issue(Head(page).path, "ReparsePointSkipped")
              /\ ItemDone /\ UNCHANGED <<pending, candidates>>
           \/ /\ item \in Folders \cup Files
              /\ pc' = "Inspect"
              /\ UNCHANGED <<volume, stop, scope, root, nextRecord, exclusions, walk,
                             found, cancellationRequested, review, strayed>>

OwnershipByPath(inspected) ==
    {i \in DOMAIN OwnedRecords : OwnedRecords[i].path = inspected.path}
Ownership(inspected) ==
    {i \in DOMAIN OwnedRecords : OwnedRecords[i].id = inspected.id}

\* A proof is accepted only as a direct child of the folder being enumerated.
DirectChild(inspected) == Front(inspected.path) = current.path

AdmitFolder(inspected) ==
    LET owned == Ownership(inspected)
    IN  /\ Head(page).directory /\ DirectChild(inspected)
        /\ \A i \in owned : OwnedRecords[i].path = inspected.path
        /\ IF owned # {}
           THEN Issue(inspected.path, "ApplicationOwnedFolderExcluded") /\ UNCHANGED pending
           ELSE /\ pending' = IF scope = "SelectedFolderOnly" THEN pending
                              ELSE Append(pending,
                                     [path |-> inspected.path,
                                      chain |-> current.chain \cup {inspected.id}])
                /\ UNCHANGED issues
        /\ ItemDone /\ UNCHANGED candidates

HasCandidateExtension(name) == name \in Images

AdmitFile(inspected) ==
    /\ ~Head(page).directory /\ DirectChild(inspected)
    /\ candidates' = IF ~HasCandidateExtension(Last(inspected.path)) THEN candidates
                     ELSE Append(candidates,
                            [path |-> Relative(inspected.path), id |-> inspected.id,
                             folder |-> current.path, chain |-> current.chain])
    /\ ItemDone /\ UNCHANGED <<pending, issues>>

\* A kind or a location that is not as expected, a relocated owned folder and
\* any refused native call end in ItemFailed.
InspectListedItem ==
    /\ pc = "Inspect"
    /\ \/ ItemFailed
       \/ \E inspected \in Inspected(Head(page).path, Folders) : AdmitFolder(inspected)
       \/ \E inspected \in Inspected(Head(page).path, Files) : AdmitFile(inspected)

-----------------------------------------------------------------------------
(* BatchProcessingCoordinator::analyze.                                     *)

Rank(name) == CHOOSE i \in DOMAIN NameOrder : NameOrder[i] = name
Precedes(p, q) ==
    \/ IsStrictPrefix(p, q)
    \/ \E k \in DOMAIN p \cap DOMAIN q :
          SubSeq(p, 1, k - 1) = SubSeq(q, 1, k - 1) /\ Rank(p[k]) < Rank(q[k])
Key(path) == [k \in DOMAIN path |-> Folded[path[k]]]
Collides(i, j) == i # j /\ Key(candidates[i].path) = Key(candidates[j].path)

\* How many candidates std::sort puts before the i-th.
Predecessors(i) ==
    Cardinality({j \in DOMAIN candidates : Precedes(candidates[j].path, candidates[i].path)})
Row(candidate) ==
    [source |-> candidate, revision |-> {}, outcome |-> "None", commit |-> "None"]

Collate ==
    /\ pc = "Collate"
    /\ \/ (\E i, j \in DOMAIN candidates : Collides(i, j)) /\ FailReview
       \/ /\ \A i, j \in DOMAIN candidates : ~Collides(i, j)
          /\ rows' = [k \in DOMAIN candidates |->
                        Row(candidates[CHOOSE i \in DOMAIN candidates : Predecessors(i) = k - 1])]
          /\ candidates' = <<>>
          /\ progress' = [progress EXCEPT !.discovered = Len(candidates),
                                          !.complete = ~cancellationRequested]
          /\ pc' = "Review"
          /\ UNCHANGED <<volume, stop, scope, root, nextRecord, exclusions, walk, issues,
                         cancellationRequested, next, proof, commits, strayed>>

Untouched == UNCHANGED <<volume, stop, scope, root, nextRecord, exclusions, walk, found,
                         cancellationRequested, strayed>>

RowDone(outcome) ==
    /\ rows' = [rows EXCEPT ![next].outcome = outcome]
    /\ next' = next + 1 /\ proof' = {} /\ pc' = "Review"
    /\ UNCHANGED commits /\ Untouched

Reviewing == pc = "Review" /\ next <= Len(rows)

SkipRow ==
    /\ Reviewing /\ (stop \/ cancellationRequested)
    /\ RowDone("Cancelled") /\ UNCHANGED progress

\* The capability resolves its leaf through the granted folder and compares
\* what is there now with what discovery saw.
LeafPath(row) == Append(row.source.folder, Last(row.source.path))
SameSource(row, inspected) ==
    inspected.id = row.source.id /\ inspected.path = LeafPath(row)

InspectSource ==
    /\ Reviewing /\ ~stop /\ ~cancellationRequested
    /\ \/ RowDone("Failed") /\ UNCHANGED progress
       \/ \E inspected \in Inspected(LeafPath(rows[next]), Files) :
             \/ /\ ~SameSource(rows[next], inspected)
                /\ RowDone("SourceChangedAfterAnalysis") /\ UNCHANGED progress
             \/ /\ SameSource(rows[next], inspected)
                /\ proof' = {inspected.id} /\ pc' = "Capture"
                /\ UNCHANGED <<rows, next, progress, commits>> /\ Untouched

\* captureSourceFile reads whatever the path names now.
CaptureSource ==
    /\ pc = "Capture"
    /\ LET source == Resolve(LeafPath(rows[next]))
       IN  \/ RowDone("Failed") /\ UNCHANGED progress
           \/ stop /\ RowDone("Cancelled") /\ UNCHANGED progress
           \/ /\ ~stop /\ source \in Files
              /\ rows' = [rows EXCEPT ![next].revision = {[id |-> source,
                                                          content |-> content[source]]}]
              /\ proof' = {} /\ pc' = "Analyze"
              /\ UNCHANGED <<next, progress, commits>> /\ Untouched

AnalyzeSource ==
    /\ pc = "Analyze"
    /\ \/ stop /\ RowDone("Cancelled") /\ UNCHANGED progress
       \/ \E outcome \in {"Eligible", "NoTransform", "Unsupported"} :
             /\ ~stop /\ RowDone(outcome)
             /\ progress' = [progress EXCEPT !.analyzed = @ + 1,
                               !.eligible = @ + (IF outcome = "Eligible" THEN 1 ELSE 0)]

FinishReview ==
    /\ pc = "Review" /\ next > Len(rows) /\ pc' = "Reviewed"
    /\ UNCHANGED review /\ Untouched

-----------------------------------------------------------------------------
(* WindowsStorageImageSource::commit, one file at a time.                   *)

CommitEnds(i, outcome) ==
    /\ rows' = [rows EXCEPT ![i].commit = outcome]
    /\ pc' = "Reviewed" /\ next' = Len(rows) + 1 /\ proof' = {}
    /\ UNCHANGED progress /\ Untouched

\* The proof denies rename, so it is released before the engine is called.
InspectForCommit ==
    /\ pc = "Reviewed"
    /\ \E i \in DOMAIN rows :
          /\ rows[i].outcome = "Eligible" /\ rows[i].commit = "None"
          /\ \/ CommitEnds(i, "Failed") /\ UNCHANGED commits
             \/ \E inspected \in Inspected(LeafPath(rows[i]), Files) :
                   \/ /\ ~SameSource(rows[i], inspected)
                      /\ CommitEnds(i, "SourceChangedAfterAnalysis") /\ UNCHANGED commits
                   \/ /\ SameSource(rows[i], inspected)
                      /\ next' = i /\ pc' = "Execute"
                      /\ UNCHANGED <<rows, proof, progress, commits>> /\ Untouched

\* The folders above the source are where its own path has them, up to the root.
AncestorsInPlace(path, inspected) ==
    \E selected \in Inspected(root.path, Folders) :
        /\ IsStrictPrefix(selected.path, inspected.path)
        /\ \A up \in 1..(Len(inspected.path) - Len(selected.path)) :
              \E folder \in Inspected(SubSeq(path, 1, Len(path) - up), Folders) :
                  folder.path = SubSeq(inspected.path, 1, Len(inspected.path) - up)

\* The engine opens the file itself, compares the identity it was handed, and
\* keeps this proof until it replaces the file.
OpenSource ==
    /\ pc = "Execute"
    /\ \/ CommitEnds(next, "Failed") /\ UNCHANGED commits
       \/ \E inspected \in Inspected(LeafPath(rows[next]), Files) :
             \/ /\ inspected.id # rows[next].source.id
                /\ CommitEnds(next, "SourceChangedAfterAnalysis") /\ UNCHANGED commits
             \/ /\ inspected.id = rows[next].source.id
                /\ AncestorsInPlace(LeafPath(rows[next]), inspected)
                /\ proof' = {inspected.id} /\ pc' = "Revalidate"
                /\ UNCHANGED <<rows, next, progress, commits>> /\ Untouched

\* The staged output is verified; then whatever the path names is read again and
\* compared with the reviewed revision, which says nothing of an identity.
RevalidateSource ==
    /\ pc = "Revalidate"
    /\ LET source == Resolve(LeafPath(rows[next]))
           reviewed == {revision.content : revision \in rows[next].revision}
       IN  \/ CommitEnds(next, "Failed") /\ UNCHANGED commits
           \/ /\ source \in Files /\ content[source] \notin reviewed
              /\ CommitEnds(next, "SourceChangedAfterAnalysis") /\ UNCHANGED commits
           \/ /\ source \in Files /\ content[source] \in reviewed
              /\ CommitEnds(next, "Committed")
              /\ commits' = commits \cup
                     {[row |-> next, id |-> source, content |-> content[source],
                       path |-> CanonicalPath(source), strayed |-> Foreign(place[source].in)]}

-----------------------------------------------------------------------------
(* Other programs, and the user.                                            *)

RetainedFolders ==
    {root.id : r \in IF pc \in {"Begin", "Failed"} THEN {} ELSE {root}}
    \cup exclusions \cup current.chain
    \cup (UNION {pending[i].chain : i \in DOMAIN pending})
    \cup (UNION {candidates[i].chain : i \in DOMAIN candidates})
    \cup (UNION {rows[i].source.chain : i \in DOMAIN rows})
Retained == RetainedFolders \cup proof

\* NTFS refuses to move a pinned item and every folder above one.
Pinned(x) == ProofHandlesPin /\ \E y \in Retained : Within(y, x)

Relocate ==
    /\ relocations < world.relocations
    /\ \E move \in world.moves :
          /\ ~Pinned(move.id) /\ place[move.id] # move.to
          /\ move.to # Nowhere => /\ Entry(move.to.in, move.to.as) = Missing
                                  /\ Attached(move.to.in) /\ ~Within(move.to.in, move.id)
          /\ place' = [place EXCEPT ![move.id] = move.to]
          /\ disturbed' = disturbed \cup {place[move.id].in, move.to.in}
                 \cup {y \in Folders : Within(y, move.id) \/ Within(y, move.id)'}
    /\ relocations' = relocations + 1
    /\ UNCHANGED <<scenario, content, edits, stop, scope, pc, root, nextRecord, exclusions, walk,
                   found, cancellationRequested, review, strayed>>

EditFile ==
    /\ edits < world.edits
    /\ \E f \in Files : content' = [content EXCEPT ![f] = @ + 1]
    /\ edits' = edits + 1
    /\ UNCHANGED <<scenario, place, relocations, disturbed, stop, scope, pc, root, nextRecord,
                   exclusions, walk, found, cancellationRequested, review, strayed>>

RequestStop ==
    /\ ~stop /\ pc \notin {"Failed", "Reviewed", "Execute", "Revalidate"} /\ stop' = TRUE
    /\ UNCHANGED <<volume, scope, pc, root, nextRecord, exclusions, walk, found,
                   cancellationRequested, review, strayed>>

Discover == RefuseRequest \/ BeginCancelled \/ InspectRoot \/ InspectExclusion \/ StartTraversal
            \/ RunOutOfMemory \/ TakeFolder \/ FinishTraversal \/ GetPage \/ EndPage \/ ReadAttributes
            \/ InspectListedItem
Analyze == Collate \/ SkipRow \/ InspectSource \/ CaptureSource \/ AnalyzeSource
           \/ FinishReview
Commit == InspectForCommit \/ OpenSource \/ RevalidateSource
Ended == pc \in {"Failed", "Reviewed"} /\ UNCHANGED vars

Next == Discover \/ Analyze \/ Commit \/ Relocate \/ EditFile \/ RequestStop \/ Ended
Spec == Init /\ [][Next]_vars
\* The worker keeps running and every native call comes back.
FairSpec == Spec /\ WF_vars(Discover \/ Analyze)

-----------------------------------------------------------------------------
TypeOK ==
    /\ place \in [Ids -> Place] /\ content \in [Files -> Nat]
    /\ pc \in {"Begin", "Exclude", "Folder", "Page", "Attributes", "Inspect", "Collate",
               "Review", "Capture", "Analyze", "Reviewed", "Execute", "Revalidate", "Failed"}
    /\ (pc \in {"Page", "Attributes", "Inspect"} => current # NoFolder)
    /\ (pc = "Inspect" => page # <<>>)
    /\ next \in 1..(Len(rows) + 1) /\ exclusions \subseteq Folders
    /\ \A i \in DOMAIN rows : Cardinality(rows[i].revision) <= 1

\* Traversal never enumerates a folder the application created, a folder below
\* one, or a folder outside the selected root, whatever is renamed, relocated
\* or turned into a junction meanwhile, as long as the handle of a proof keeps
\* its folder in place (discover's proofs, ownership and reparse checks).
OnlySelectedFoldersListed == ProofHandlesPin => strayed = {}

\* The bytes analysed under a listed file's name are that file's own, and what
\* the engine is admitted to change is that file, unedited since, in the place
\* the review shows, in a selected folder.  Each is read by a path some time after
\* an identity was compared there, and a revision carries no identity: it takes
\* the proofs that capture and the engine keep over their reads, and the identity
\* that commit hands across the gap between its own proof and the engine's.
CommitsOnlyTheReviewed ==
    ProofHandlesPin =>
        /\ \A i \in DOMAIN rows : \A revision \in rows[i].revision :
              revision.id = rows[i].source.id
        /\ \A c \in commits :
              /\ [id |-> c.id, content |-> c.content] \in rows[c.row].revision
              /\ c.path = root.path \o rows[c.row].source.path /\ ~c.strayed

Reported(f) ==
    LET path == Relative(CanonicalPath(f))
    IN  \/ \E i \in DOMAIN rows : rows[i].source.path = path
        \/ \E issue \in issues : IsPrefix(issue.path, path)
Undisturbed(f) ==
    \A folder \in Folders : Within(f, folder) /\ Within(folder, root.id) => folder \notin disturbed
InScope(f) ==
    /\ Within(f, root.id) /\ place[f].as \in Images
    /\ scope = "SelectedFolderOnly" => place[f].in = root.id

With(outcomes) == {i \in DOMAIN rows : rows[i].outcome \in outcomes}

\* An uncancelled discovery leaves nothing out silently: each image whose
\* folders stayed as they were is a candidate, or an issue names it or a folder
\* above it (pages, per-item and per-folder failures).  The review lists a
\* candidate once, in ordinal order, and no two whose outputs would share a
\* name on a case-insensitive volume, although a folder that changes can be
\* listed with an item on two pages (analyze's collision index).  And the
\* progress agrees with the rows on each of analyze's ways out of a file.
ReviewIsExact ==
    /\ (pc = "Reviewed" /\ progress.complete) =>
          \A f \in Files : InScope(f) /\ Undisturbed(f) => Reported(f)
    /\ \A i, j \in DOMAIN rows : i < j =>
          /\ Precedes(rows[i].source.path, rows[j].source.path)
          /\ Key(rows[i].source.path) # Key(rows[j].source.path)
    /\ progress.analyzed = Cardinality(With({"Eligible", "NoTransform", "Unsupported"}))
    /\ progress.eligible = Cardinality(With({"Eligible"}))
    /\ pc = "Reviewed" => With({"None"}) = {} /\ progress.discovered = Len(rows)

\* The walk ends, junction cycles and moving folders notwithstanding.
ReviewEnds == <>(pc \in {"Reviewed", "Failed"})
=============================================================================
