------------------------------ MODULE ArtifactInventory ------------------------------
(* Originals are put into a versioned object storage and registered by a row, which is  *)
(* committed later or never (infrastructure/storage/object_storage.py and the writers   *)
(* in info_crawl_service.py).  An operator compares the two, page by page, while the    *)
(* writers go on (infrastructure/storage/artifact_reconciliation.py).                   *)
EXTENDS Naturals, FiniteSets

CONSTANTS
    Writers,
    Places,         \* the versions the storage may hold, 1 .. n in the order of listing
    KeyOf,          \* [Places -> the object keys]
    Ambiguous,      \* keys that ExtractedContent, or a row without a version, refers to
    RowId,          \* [Places -> 1 .. n]: where the row of a version stands in the order of
                    \* the ids, which are random
    Limit,          \* entries of a page
    Grace,          \* the 24 hours
    Times,          \* bound: what the clocks of the storage and of the operator may say
    MaxPasses,      \* bound: passes
    MaxDeletions    \* bound: deletions by others

ASSUME PlacesAssumption ==
    /\ IsFiniteSet(Places) /\ Places = 1 .. Cardinality(Places)
    /\ RowId \in [Places -> Places]
    /\ \A p, q \in Places : RowId[p] = RowId[q] => p = q
ASSUME LimitAssumption ==
    /\ Limit \in Nat \ {0}
    /\ {Grace, MaxPasses, MaxDeletions} \cup Times \subseteq Nat

VARIABLES
    storage,     \* per place: what is there, and since when by the storage's own clock
    rows,        \* the places raw_artifact has a row for
    writer,      \* the place a writer has put an object to and not yet registered
    observer,    \* where the operator is
    reported,    \* per entry of this pass: its state
    passes

inventoryVars == <<storage, rows, writer, observer, reported, passes>>

Nothing == 0
Existing == {p \in Places : storage[p].kind \in {"version", "marker"}}

\* began: the entries there were when the pass began.  after: the cursor.  registered: the
\* rows there were when the page was listed.
NoPass == [at |-> "idle", mode |-> "inventory", observed |-> 0, after |-> 0,
           page |-> {}, more |-> FALSE, snapshot |-> {},
           began |-> {}, registered |-> {}]

InventoryInit ==
    /\ storage = [p \in Places |-> [kind |-> "none", since |-> 0]]
    /\ rows = {}
    /\ writer = [w \in Writers |-> Nothing]
    /\ observer = NoPass
    /\ reported = [p \in Places |-> "unseen"]
    /\ passes = 0

observerVars == <<observer, reported, passes>>

--------------------------------------------------------------------------------------
(* The writers, and what others do to the storage.                                     *)

\* put_bytes: each upload makes a version of its own, anywhere in the listing.
PutObject(w, p) ==
    /\ writer[w] = Nothing
    /\ storage[p].kind = "none"
    /\ \E t \in Times :
         storage' = [storage EXCEPT ![p] = [kind |-> "version", since |-> t]]
    /\ writer' = [writer EXCEPT ![w] = p]
    /\ UNCHANGED <<rows, observerVars>>

\* The transaction that added the RawArtifact commits, however long after the upload.
RegisterObject(w) ==
    /\ writer[w] # Nothing
    /\ rows' = rows \cup {writer[w]}
    /\ writer' = [writer EXCEPT ![w] = Nothing]
    /\ UNCHANGED <<storage, observerVars>>

\* The answer of the upload is lost, or the transaction is rolled back.
LoseWriter(w) ==
    /\ writer[w] # Nothing
    /\ writer' = [writer EXCEPT ![w] = Nothing]
    /\ UNCHANGED <<storage, rows, observerVars>>

Deletions == Cardinality({p \in Places : storage[p].kind \in {"marker", "gone"}})

\* Somebody deletes an object by its key, which leaves a marker.
MarkDeleted(p) ==
    /\ storage[p].kind = "none" /\ Deletions < MaxDeletions
    /\ storage' = [storage EXCEPT ![p] = [kind |-> "marker", since |-> 0]]
    /\ UNCHANGED <<rows, writer, observerVars>>

\* ... or one version for good.
DeleteVersion(p) ==
    /\ storage[p].kind = "version" /\ Deletions < MaxDeletions
    /\ storage' = [storage EXCEPT ![p].kind = "gone"]
    /\ UNCHANGED <<rows, writer, observerVars>>

environmentVars == <<storage, rows, writer>>

--------------------------------------------------------------------------------------
(* reconcile_page                                                                      *)

\* What a pass goes through, in which order.
Entries(mode) == IF mode = "inventory" THEN Existing ELSE rows
Rank(mode, p) == IF mode = "inventory" THEN p ELSE RowId[p]

StartPass(mode) ==
    /\ observer.at = "idle"
    /\ passes < MaxPasses
    /\ passes' = passes + 1
    /\ \E t \in Times :
         observer' = [NoPass EXCEPT !.at = "page", !.mode = mode, !.observed = t,
                                    !.began = Entries(mode)]
    /\ reported' = [p \in Places |-> "unseen"]
    /\ UNCHANGED environmentVars

\* Each page is a call of its own, with the cursor of the one before.
NextPage ==
    /\ observer.at = "between"
    /\ \E t \in Times :
         observer' = [observer EXCEPT !.at = "page", !.observed = t]
    /\ UNCHANGED <<environmentVars, reported, passes>>

\* The entries behind the cursor, and the Limit first of them.
RankNow(p) == Rank(observer.mode, p)
Ahead == {p \in Entries(observer.mode) : RankNow(p) > observer.after}
Position(p) == Cardinality({q \in Ahead : RankNow(q) <= RankNow(p)})
FirstOfAhead == {p \in Ahead : Position(p) <= Limit}

Cursor_bug ==   \* the row that shows there is more is taken for the last of the page
    IF FirstOfAhead = Ahead THEN observer.after
    ELSE RankNow(CHOOSE p \in Ahead : Position(p) = Limit + 1)

\* Where the next page begins, if there is more than this one.
Cursor ==
    IF FirstOfAhead = Ahead THEN observer.after
    ELSE RankNow(CHOOSE p \in Ahead : Position(p) = Limit)

\* list_object_versions, from the markers on; the transaction has begun, but has no
\* snapshot yet.  That registered is kept is for CandidatesWereUnregistered alone.
ListVersions ==
    /\ observer.at = "page" /\ observer.mode = "inventory"
    /\ observer' = [observer EXCEPT !.at = "listed", !.page = FirstOfAhead,
                                    !.more = FirstOfAhead # Ahead, !.after = Cursor,
                                    !.registered = rows]
    /\ UNCHANGED <<environmentVars, reported, passes>>

\* The rows of a page, one more to see whether there is a next, in the snapshot this
\* very query takes.
ReadRows ==
    /\ observer.at = "page" /\ observer.mode = "references"
    /\ observer' = [observer EXCEPT !.at = "checking", !.page = FirstOfAhead,
                                    !.more = FirstOfAhead # Ahead, !.after = Cursor,
                                    !.snapshot = rows]
    /\ UNCHANGED <<environmentVars, reported, passes>>

TakeSnapshot_bug ==   \* all pages of a pass are read in one transaction
    /\ observer.at = "listed"
    /\ observer' = [observer EXCEPT !.at = "checking",
                      !.snapshot = IF \A p \in Places : reported[p] = "unseen"
                                   THEN rows ELSE @]
    /\ UNCHANGED <<environmentVars, reported, passes>>

\* The first query of an inventory page, REPEATABLE READ.
TakeSnapshot ==
    /\ observer.at = "listed"
    /\ observer' = [observer EXCEPT !.at = "checking", !.snapshot = rows]
    /\ UNCHANGED <<environmentVars, reported, passes>>

\* _head_state: what the storage says of the version a row refers to.  That the question
\* fails, or is answered with another size or digest, is reported and changes nothing.
HeadState(p) ==
    IF storage[p].kind = "version" THEN "registered_metadata_match" ELSE "missing_version"

\* An unregistered version is a candidate when it seems old, by two clocks, and nothing can
\* refer to it.
UnregisteredState(p) ==
    CASE KeyOf[p] \in Ambiguous -> "protected_ambiguous_reference"
      [] KeyOf[p] \notin Ambiguous /\ storage[p].since + Grace > observer.observed ->
           "unregistered_recent"
      [] OTHER -> "unregistered_candidate"

StateOf(x) ==
    CASE observer.mode = "references" -> HeadState(x)
      [] observer.mode = "inventory" /\ storage[x].kind = "marker" -> "delete_marker"
      [] OTHER -> IF x \in observer.snapshot THEN HeadState(x) ELSE UnregisteredState(x)

\* The versions of a page come before its delete markers.
CheckEntry(x) ==
    LET Marker(y) == observer.mode = "inventory" /\ storage[y].kind = "marker" IN
    /\ observer.at = "checking"
    /\ x \in observer.page
    /\ \A y \in observer.page \ {x} :
         IF Marker(x) = Marker(y) THEN RankNow(x) < RankNow(y) ELSE Marker(y)
    /\ reported' = [reported EXCEPT ![x] = StateOf(x)]
    /\ observer' = [observer EXCEPT !.page = @ \ {x}]
    /\ UNCHANGED <<environmentVars, passes>>

EndPage ==
    /\ observer.at = "checking" /\ observer.page = {}
    /\ observer' = IF observer.more
                   THEN [observer EXCEPT !.at = "between", !.observed = 0,
                                         !.registered = {}]
                   ELSE [NoPass EXCEPT !.at = "done", !.mode = observer.mode,
                                       !.began = observer.began]
    /\ UNCHANGED <<environmentVars, reported, passes>>

\* The report is the operator's.
EndPass ==
    /\ observer.at = "done"
    /\ observer' = NoPass
    /\ reported' = [p \in Places |-> "unseen"]
    /\ UNCHANGED <<environmentVars, passes>>

InventoryNext ==
    \/ \E w \in Writers, p \in Places : PutObject(w, p)
    \/ \E w \in Writers : RegisterObject(w) \/ LoseWriter(w)
    \/ \E p \in Places : MarkDeleted(p) \/ DeleteVersion(p)
    \/ \E mode \in {"inventory", "references"} : StartPass(mode)
    \/ NextPage
    \/ ListVersions
    \/ ReadRows
    \/ TakeSnapshot
    \/ \E x \in Places : CheckEntry(x)
    \/ EndPage
    \/ EndPass

InventorySpec == InventoryInit /\ [][InventoryNext]_inventoryVars

--------------------------------------------------------------------------------------

\* A version that is reported as an unregistered candidate was in the storage and had no
\* row at one moment, that of the listing of its page, though storage and rows are not read
\* at the same moment and writers go on in between.  It may get its row at any time after.
CandidatesWereUnregistered ==
    [][\A p \in Places :
          /\ reported[p] # "unregistered_candidate"
          /\ reported'[p] = "unregistered_candidate"
          => p \notin observer.registered]_inventoryVars

\* A whole pass reports every entry there was when it began, unless it has been deleted,
\* however many objects are put, or rows added, before and behind its cursor meanwhile.
PassCoversAll ==
    observer.at = "done" =>
      \A x \in observer.began :
        reported[x] # "unseen"
          \/ (observer.mode = "inventory" /\ storage[x].kind = "gone")
======================================================================================
