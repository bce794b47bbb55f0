--------------------- MODULE WindowsStorageStartupRecovery ---------------------
(***************************************************************************)
(* Startup recovery of the journal store: the access list is restored, the *)
(* catalog lists the incomplete transactions page by page and without a    *)
(* lease, every root they need is matched with a grant, each root is       *)
(* recovered under the journal-store lease, and the catalog is read again. *)
(* Another instance of the application uses the same store and the same    *)
(* access list: it retains its source folder, executes a transaction and   *)
(* releases the folder once the transaction is closed.  Either process may *)
(* die, and a folder may become unreachable and come back, at any step.    *)
(* What recovery decides about one transaction is in                       *)
(* RecoverableImageFileTransaction; here it closes it or is in conflict.   *)
(***************************************************************************)
EXTENDS Naturals, Sequences, FiniteSets, FiniteSetsExt, SequencesExt

CONSTANTS Transactions,    \* identifiers, numbered in the order of the listing
          Roots,           \* source folders
          RootOf,          \* the root in each transaction's record
          PageSize,        \* maximumFoldersPerPage, 500
          MaximumItems     \* MaximumItemsAllowed of the access list

ASSUME StartupConstants ==
    /\ Transactions \subseteq Nat
    /\ RootOf \in [Transactions -> Roots]
    /\ PageSize \in Nat \ {0} /\ MaximumItems \in Nat

VARIABLES store,         \* journal folders: what the latest record says
          tokens,        \* FutureAccessList entries
          reachable,     \* folders the system can open now
          lease,         \* holder of the journal-store lease
          other,         \* the other instance: its step and its transaction
          pc,            \* startup recovery's step
          pass,          \* first or second reading of the catalog
          unrestored, restored,      \* tokens to restore, folders restored
          offset, page,              \* position in the listing
          requirements,              \* incomplete transactions listed
          requiredRoots, unrecovered,\* roots matched, roots still to recover
          unchecked, conflict,       \* recoverIncompleteTransactions of a root
          stop, result,
          existing       \* history: folders there when the second reading began

listing == <<pass, unrestored, restored, offset, page, requirements>>
roots   == <<requiredRoots, unrecovered, unchecked, conflict>>
vars    == <<store, tokens, reachable, lease, other, pc, listing, roots, stop, result, existing>>

Token    == [owner : Transactions \cup Roots, root : Roots]
Results  == {"none", "success", "Cancelled", "RecoveryConflict", "JournalStoreBusy"}
Folders  == {t \in Transactions : store[t] # "absent"}
Listing  == CHOOSE s \in SetToSeqs(Folders) :   \* in the order of their names
              \A i, j \in DOMAIN s : i < j => s[i] < s[j]
Open(t)  == store[t] \in {"unpublished", "open"}
-----------------------------------------------------------------------------
(* Startup recovery.                                                       *)

Goto(step) == pc' = step /\ UNCHANGED <<result, existing>>
Return(code) ==
    /\ pc' = "idle" /\ result' = code /\ existing' = {}
    /\ pass' = 1 /\ unrestored' = {} /\ restored' = {}
    /\ offset' = 0 /\ page' = << >> /\ requirements' = {}
    /\ requiredRoots' = {} /\ unrecovered' = {} /\ unchecked' = {} /\ conflict' = FALSE

(* recoverStartupAsync gives every attempt a stop source of its own.       *)
Begin ==
    /\ pc = "idle" /\ result # "success"
    /\ stop' = FALSE /\ result' = "none"
    /\ unrestored' = tokens
    /\ pc' = "restore"
    /\ UNCHANGED <<store, tokens, reachable, lease, other, pass, restored, offset, page,
                   requirements, roots, existing>>

RestoreToken ==
    /\ pc = "restore" /\ unrestored # {}
    /\ IF stop THEN Return("Cancelled")
       ELSE \E token \in unrestored :
              /\ unrestored' = unrestored \ {token}
              /\ restored' = restored \cup ({token.root} \cap reachable)
              /\ Goto("restore")
              /\ UNCHANGED <<pass, offset, page, requirements, roots>>
    /\ UNCHANGED <<store, tokens, reachable, lease, other, stop>>

ListFrom(number) ==
    /\ pass' = number /\ offset' = 0 /\ page' = << >> /\ requirements' = {}
    /\ pc' = "list"
    /\ existing' = IF number = 2 THEN Folders ELSE existing
    /\ UNCHANGED result
ReadCatalog ==
    /\ pc = "restore" /\ unrestored = {}
    /\ ListFrom(1)
    /\ UNCHANGED <<store, tokens, reachable, lease, other, unrestored, restored, roots, stop>>

AdvanceByFolders == offset + Len(page')
ListPage ==
    /\ pc = "list" /\ page = << >> /\ offset < Len(Listing)
    /\ IF stop THEN Return("Cancelled")
       ELSE /\ page' = SubSeq(Listing, offset + 1, Min({offset + PageSize, Len(Listing)}))
            /\ offset' = AdvanceByFolders
            /\ Goto("list")
            /\ UNCHANGED <<pass, unrestored, restored, requirements, roots>>
    /\ UNCHANGED <<store, tokens, reachable, lease, other, stop>>

(* readLatest of one folder of the page, validated as recovery does.       *)
ReadFolder ==
    /\ pc = "list" /\ page # << >>
    /\ IF stop THEN Return("Cancelled")
       ELSE IF store[Head(page)] = "unpublished" THEN Return("RecoveryConflict")
       ELSE /\ requirements' = requirements \cup {t \in {Head(page)} : store[t] = "open"}
            /\ page' = Tail(page)
            /\ Goto("list")
            /\ UNCHANGED <<pass, unrestored, restored, offset, roots>>
    /\ UNCHANGED <<store, tokens, reachable, lease, other, stop>>

(* An empty page ends the listing: the first reading goes on to the        *)
(* grants, the second one decides.                                         *)
SecondReadingIgnored == "success"
Verdict == IF requirements = {} THEN "success" ELSE "RecoveryConflict"
CatalogEnds ==
    /\ pc = "list" /\ page = << >> /\ offset >= Len(Listing)
    /\ IF stop THEN Return("Cancelled")
       ELSE IF pass = 1 THEN Goto("match") /\ offset' = 0
                             /\ UNCHANGED <<pass, unrestored, restored, page, requirements, roots>>
       ELSE Return(Verdict)
    /\ UNCHANGED <<store, tokens, reachable, lease, other, stop>>

Unmatched == {t \in requirements : RootOf[t] \notin requiredRoots}
BeginRecovery == /\ unrecovered' = requiredRoots /\ Goto("recover")
                 /\ UNCHANGED <<listing, requiredRoots, unchecked, conflict>>
MissingGrant == Return("RecoveryConflict")
MatchGrant ==
    /\ pc = "match" /\ Unmatched # {}
    /\ IF stop THEN Return("Cancelled")
       ELSE \E t \in Unmatched :
              IF RootOf[t] \in restored \cap reachable
              THEN /\ requiredRoots' = requiredRoots \cup {RootOf[t]}
                   /\ Goto("match")
                   /\ UNCHANGED <<listing, unrecovered, unchecked, conflict>>
              ELSE MissingGrant
    /\ UNCHANGED <<store, tokens, reachable, lease, other, stop>>
GrantsMatched ==
    /\ pc = "match" /\ Unmatched = {}
    /\ BeginRecovery
    /\ UNCHANGED <<store, tokens, reachable, lease, other, stop>>

(* engine.recoverIncompleteTransactions of one root: the lease, then every *)
(* folder of the store: an inspection that fails or contradicts the record *)
(* is a conflict, reported once all folders have been visited.             *)
RefuseBusyStore == Return("JournalStoreBusy")
RecoverRoot ==
    /\ pc = "recover" /\ unrecovered # {}
    /\ IF lease # "free" THEN RefuseBusyStore /\ UNCHANGED lease
       ELSE /\ lease' = "startup" /\ unchecked' = Folders /\ conflict' = FALSE
            /\ Goto("reconcile")
            /\ UNCHANGED <<listing, requiredRoots, unrecovered>>
    /\ UNCHANGED <<store, tokens, reachable, other, stop>>

Reconcile(root, t) ==
    /\ pc = "reconcile" /\ root \in unrecovered /\ root = CHOOSE r \in unrecovered : TRUE
    /\ t \in unchecked
    /\ IF stop THEN Return("Cancelled") /\ lease' = "free" /\ UNCHANGED store
       ELSE /\ \/ /\ store[t] = "open" /\ RootOf[t] = root /\ root \in reachable
                  /\ store' = [store EXCEPT ![t] = "closed"] /\ UNCHANGED conflict
               \/ conflict' = TRUE /\ UNCHANGED store
               \/ /\ store[t] = "closed" \/ (store[t] = "open" /\ RootOf[t] # root)
                  /\ UNCHANGED <<store, conflict>>
            /\ unchecked' = unchecked \ {t}
            /\ Goto("reconcile")
            /\ UNCHANGED <<lease, listing, requiredRoots, unrecovered>>
    /\ UNCHANGED <<tokens, reachable, other, stop>>

RootDone ==
    /\ pc = "reconcile" /\ unchecked = {}
    /\ lease' = "free"
    /\ IF conflict THEN Return("RecoveryConflict")
       ELSE /\ unrecovered' = unrecovered \ {CHOOSE r \in unrecovered : TRUE}
            /\ Goto("recover")
            /\ UNCHANGED <<listing, requiredRoots, unchecked, conflict>>
    /\ UNCHANGED <<store, tokens, reachable, other, stop>>

Reinspect ==
    /\ pc = "recover" /\ unrecovered = {}
    /\ ListFrom(2)
    /\ UNCHANGED <<store, tokens, reachable, lease, other, unrestored, restored, roots, stop>>

(* The catches: any native call or allocation may fail, at any step.       *)
NativeFailure ==
    /\ pc \in {"restore", "list", "match", "recover", "reconcile"}
    /\ Return("RecoveryConflict")
    /\ lease' = IF lease = "startup" THEN "free" ELSE lease
    /\ UNCHANGED <<store, tokens, reachable, other, stop>>

Startup == \/ RestoreToken \/ ReadCatalog \/ ListPage \/ ReadFolder \/ CatalogEnds
           \/ MatchGrant \/ GrantsMatched \/ RecoverRoot \/ RootDone \/ Reinspect
           \/ \E root \in Roots, t \in Transactions : Reconcile(root, t)

StopRequested ==
    /\ pc # "idle" /\ ~stop /\ stop' = TRUE
    /\ UNCHANGED <<store, tokens, reachable, lease, other, pc, listing, roots, result, existing>>

StartupDies ==
    /\ pc # "idle"
    /\ Return("none")
    /\ lease' = IF lease = "startup" THEN "free" ELSE lease
    /\ UNCHANGED <<store, tokens, reachable, other, stop>>
-----------------------------------------------------------------------------
(* The other instance.                                                     *)

mine == <<pc, listing, roots, stop, result, existing>>
OtherGoto(step) == other' = [other EXCEPT !.pc = step]
TokenOf(t) == [owner |-> t, root |-> RootOf[t]]

(* SourceFolderAccessRetention: an entry of its own for every batch, never *)
(* at the cost of an older one.                                            *)
RetainSourceFolder(t) ==
    /\ other.pc = "idle" /\ store[t] = "absent"
    /\ Cardinality(tokens) < MaximumItems
    /\ tokens' = tokens \cup {TokenOf(t)}
    /\ other' = [pc |-> "retained", tx |-> t]
    /\ UNCHANGED <<store, reachable, lease, mine>>

OtherTakesLease ==
    /\ other.pc = "retained" /\ lease = "free"
    /\ lease' = "other" /\ OtherGoto("leased")
    /\ UNCHANGED <<store, tokens, reachable, mine>>

OtherWrites(from, state, to) ==
    /\ other.pc = from
    /\ store' = [store EXCEPT ![other.tx] = state] /\ OtherGoto(to)
    /\ UNCHANGED <<tokens, reachable, lease, mine>>

OtherLeavesLease ==
    /\ other.pc = "closed"
    /\ lease' = "free" /\ OtherGoto("reconciled")
    /\ UNCHANGED <<store, tokens, reachable, mine>>

ReleaseEveryEntryOfTheRoot ==
    tokens' = {token \in tokens : token.root # RootOf[other.tx]}
RemoveOwnEntry == tokens' = tokens \ {TokenOf(other.tx)}
ReleaseReconciledSource ==
    /\ other.pc = "reconciled"
    /\ RemoveOwnEntry
    /\ OtherGoto("idle")
    /\ UNCHANGED <<store, reachable, lease, mine>>

OtherDies ==
    /\ other.pc # "idle"
    /\ OtherGoto("idle")
    /\ lease' = IF lease = "other" THEN "free" ELSE lease
    /\ UNCHANGED <<store, tokens, reachable, mine>>

Other == \/ \E t \in Transactions : RetainSourceFolder(t)
         \/ OtherTakesLease \/ OtherLeavesLease \/ ReleaseReconciledSource \/ OtherDies
         \/ OtherWrites("leased", "unpublished", "created")
         \/ OtherWrites("created", "open", "published")
         \/ OtherWrites("published", "closed", "closed")
-----------------------------------------------------------------------------
(* RestoreRecoverySource_Click: the user grants a folder after a refusal.  *)
UserGrants(root) ==
    /\ pc = "idle" /\ result \notin {"none", "success"}
    /\ Cardinality(tokens) < MaximumItems
    /\ tokens' = tokens \cup {[owner |-> root, root |-> root]}
    /\ UNCHANGED <<store, reachable, lease, other, mine>>

ReachabilityChanges(root) ==
    /\ reachable' = IF root \in reachable THEN reachable \ {root} ELSE reachable \cup {root}
    /\ UNCHANGED <<store, tokens, lease, other, mine>>

Init == /\ store = [t \in Transactions |-> "absent"] /\ tokens = {} /\ reachable = Roots
        /\ lease = "free" /\ other = [pc |-> "idle", tx |-> CHOOSE t \in Transactions : TRUE]
        /\ pc = "idle" /\ result = "none" /\ stop = FALSE /\ existing = {}
        /\ pass = 1 /\ unrestored = {} /\ restored = {} /\ offset = 0 /\ page = << >>
        /\ requirements = {} /\ requiredRoots = {} /\ unrecovered = {}
        /\ unchecked = {} /\ conflict = FALSE

Next == \/ Begin \/ Startup \/ NativeFailure \/ StopRequested \/ StartupDies \/ Other
        \/ \E root \in Roots : UserGrants(root) \/ ReachabilityChanges(root)

Spec == Init /\ [][Next]_vars
-----------------------------------------------------------------------------
TypeOK ==
    /\ store \in [Transactions -> {"absent", "unpublished", "open", "closed"}]
    /\ tokens \subseteq Token /\ reachable \subseteq Roots
    /\ lease \in {"free", "startup", "other"}
    /\ other.tx \in Transactions
    /\ other.pc \in {"idle", "retained", "leased", "created", "published", "closed", "reconciled"}
    /\ pc \in {"idle", "restore", "list", "match", "recover", "reconcile"}
    /\ pass \in 1..2 /\ offset \in 0..Cardinality(Transactions) /\ page \in Seq(Transactions)
    /\ unrestored \subseteq Token /\ restored \subseteq Roots
    /\ requirements \subseteq Transactions /\ existing \subseteq Transactions
    /\ requiredRoots \subseteq Roots /\ unrecovered \subseteq requiredRoots
    /\ unchecked \subseteq Transactions /\ conflict \in BOOLEAN
    /\ stop \in BOOLEAN /\ result \in Results

(* WindowsStorageStartupRecovery::recover: success admits new work only    *)
(* when every transaction whose folder existed as the second reading began *)
(* is closed, however the other instance's folders shifted the pages.      *)
SuccessMeansReconciled ==
    [][result # "success" /\ result' = "success"
         => \A t \in existing : store[t] = "closed"]_vars

(* WindowsStorageStartupRecovery::recover: a transaction is changed only   *)
(* once every root the catalog asked for has been matched with a folder    *)
(* that was restored from the access list.                                 *)
NoEffectBeforeEveryGrant ==
    [][store' # store /\ lease = "startup"
         => \A t \in requirements : RootOf[t] \in restored]_vars

(* SourceFolderAccessRetention: whoever dies or releases, an incomplete    *)
(* transaction's root keeps an entry in the access list, so that a later   *)
(* startup can be granted the folder it needs.                             *)
OpenTransactionKeepsAGrant ==
    \A t \in Transactions : Open(t) => \E token \in tokens : token.root = RootOf[t]
=============================================================================
