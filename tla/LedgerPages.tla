----------------------------- MODULE LedgerPages -----------------------------
(***************************************************************************)
(* GET /wallets/{walletId}/ledger: a client walks the ledger of one wallet  *)
(* page by page, newest entry first, while wagers keep committing entries.  *)
(*                                                                         *)
(* Pages are ordered by (created_at, id).  An entry's created_at is the     *)
(* clock of its API instance before the wallet lock was taken, so it says   *)
(* nothing about the order of commits: a new entry may sort anywhere, also  *)
(* behind the cursor of a walk that is under way, and two entries may carry *)
(* the same time.  The server keeps no state of a walk: the cursor names    *)
(* the last entry of a page and travels with the client.                    *)
(***************************************************************************)
EXTENDS Integers, FiniteSets, Sequences

CONSTANTS
    Entries,   \* ledger entries by id, ordered as PostgreSQL orders uuids
    Times,     \* created_at
    Readers,   \* walks
    Limits,    \* what clients ask for with ?limit=
    MaxLimit,  \* 100 in getLedger
    None

ASSUME PagesAssumption ==
    /\ Entries \subseteq Nat /\ Times \subseteq Nat
    /\ Limits \subseteq Int /\ MaxLimit \in Nat \ {0}
    /\ None \notin Times
    /\ \A t \in Times, e \in Entries : None # [createdAt |-> t, id |-> e]

VARIABLES
    createdAt,  \* created_at of each committed entry, None before its commit
    walk        \* what each client has, its cursor and pages, and what it is owed

vars == <<createdAt, walk>>

Committed == {e \in Entries : createdAt[e] # None}

Init ==
    /\ createdAt = [e \in Entries |-> None]
    /\ walk = [r \in Readers |-> [stage |-> "idle", cursor |-> None, pages |-> <<>>, owed |-> {}]]

-----------------------------------------------------------------------------
CursorOf(e) == [createdAt |-> createdAt[e], id |-> e]

(* ORDER BY created_at DESC, id DESC, and the row comparison of the WHERE clause of
   ListLedger, (created_at, id) < ($2, $3). *)
Less(a, b) ==
    \/ a.createdAt < b.createdAt
    \/ a.createdAt = b.createdAt /\ a.id < b.id

NotLater(a, b) == a.createdAt <= b.createdAt   \* faulty: id is not compared
Earlier(a, b) == a.createdAt < b.createdAt     \* faulty: id is not compared
BelowCursor(a, b) == Less(a, b)

Behind(cursor) == {e \in Committed : cursor = None \/ BelowCursor(CursorOf(e), cursor)}

Precedes(d, e) == Less(CursorOf(e), CursorOf(d))   \* in the order of the pages

(* The first n rows of a query, all of them when it finds fewer. *)
FirstRows(n, found) ==
    {e \in found : Cardinality({d \in found : Precedes(d, e)}) < n}

Last(page) == CHOOSE e \in page : \A d \in page : d = e \/ Precedes(d, e)

(* One row more is read than the page holds: it is there exactly when another page
   follows.  The cursor names the last entry of the page, not that row. *)
FullPageGoesOn(records, page, limit) ==   \* faulty: a full page is taken for more to come
    IF Cardinality(page) = limit THEN CursorOf(Last(page)) ELSE None
CursorOfExtra(records, page, limit) ==   \* faulty: the cursor names the row after the page
    IF Cardinality(records) > limit THEN CursorOf(Last(records)) ELSE None
NextCursor(records, page, limit) ==
    IF Cardinality(records) > limit THEN CursorOf(Last(page)) ELSE None

(* A wager or an opening commits its entry; its time was read at any moment before. *)
Commit(e, t) ==
    /\ createdAt[e] = None
    /\ createdAt' = [createdAt EXCEPT ![e] = t]
    /\ UNCHANGED walk

(* getLedger refuses a limit outside 1 .. MaxLimit with INVALID_LIMIT: the walk stays. *)
ValidLimit(limit) == limit \in 1 .. MaxLimit

(* One page: the first when the walk starts, the next behind the cursor.  The walk is
   owed every entry that was behind its cursor when a page was read. *)
Page(r, limit) ==
    LET records == FirstRows(limit + 1, Behind(walk[r].cursor))
        page == FirstRows(limit, Behind(walk[r].cursor))
        next == NextCursor(records, page, limit)
    IN  /\ walk[r].stage # "ended"
        /\ ValidLimit(limit)
        /\ walk' = [walk EXCEPT ![r] =
              [stage |-> IF next = None THEN "ended" ELSE "open",
               cursor |-> next,
               pages |-> Append(@.pages, page),
               owed |-> @.owed \cup Behind(@.cursor)]]
        /\ UNCHANGED createdAt

Next ==
    \/ \E e \in Entries, t \in Times : Commit(e, t)
    \/ \E r \in Readers, limit \in Limits : Page(r, limit)

Spec == Init /\ [][Next]_vars

-----------------------------------------------------------------------------
Seen(r) == UNION {walk[r].pages[i] : i \in DOMAIN walk[r].pages}

(* No entry is on two pages of a walk, and no page goes back: each lies wholly after the
   pages before it, whatever was committed in between and with whatever time
   (wallet_handler.go:87, "stable ordering"). *)
PagesDescend ==
    \A r \in Readers : \A i, j \in DOMAIN walk[r].pages :
        i < j => \A d \in walk[r].pages[i], e \in walk[r].pages[j] : Precedes(d, e)

(* A walk skips nothing: what was committed when it started, and what came to lie behind
   its cursor later, late entries and those with the time of the cursor included, is on
   a page or still to come; at the end all of it was seen. *)
NothingSkipped ==
    \A r \in Readers :
        walk[r].owed \subseteq
            Seen(r) \cup (IF walk[r].stage = "open" THEN Behind(walk[r].cursor) ELSE {})

(* A cursor always leads to at least one entry, so a walk never ends on an empty page
   and an ended walk had no entry left behind its last page when it read it. *)
CursorLeadsOn ==
    \A r \in Readers : walk[r].cursor # None => Behind(walk[r].cursor) # {}

=============================================================================
