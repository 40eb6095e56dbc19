-------------------------- MODULE LedgerPagesProofs --------------------------
(***************************************************************************)
(* Proofs about LedgerPages, for any entries and times, any number of       *)
(* walks and any limits: the pages of a walk descend, a walk skips nothing  *)
(* and a cursor leads on.  Part 1 is about the order of the rows and what   *)
(* LIMIT returns of them, part 2 about the walks.                           *)
(***************************************************************************)
EXTENDS LedgerPages, FiniteSetTheorems, WellFoundedInduction, TLAPS

Cursor == [createdAt: Times, id: Entries]

(* At any time finitely many entries are committed, also when ids never run out. *)
TypeOK ==
    /\ createdAt \in [Entries -> Times \cup {None}]
    /\ IsFiniteSet(Committed)
    /\ walk \in [Readers -> [stage: {"idle", "open", "ended"}, cursor: Cursor \cup {None},
                             pages: Seq(SUBSET Entries), owed: SUBSET Entries]]

-----------------------------------------------------------------------------
(* Part 1: rows. *)

(* (created_at, id) orders all positions: uuids break the ties of equal times. *)
LEMMA LessOrders ==
    /\ \A a \in Cursor : ~ Less(a, a)
    /\ \A a, b, c \in Cursor : Less(a, b) /\ Less(b, c) => Less(a, c)
    /\ \A a, b \in Cursor : a = b \/ Less(a, b) \/ Less(b, a)
<1>1. \A a \in Cursor : a.createdAt \in Nat /\ a.id \in Nat
  BY PagesAssumption DEF Cursor
<1>2. \A a, b \in Cursor : a.createdAt = b.createdAt /\ a.id = b.id => a = b
  BY DEF Cursor
<1>3. \A a, b, c \in Cursor : Less(a, b) /\ Less(b, c) => Less(a, c)
  BY <1>1 DEF Less
<1>4. QED BY <1>1, <1>2, <1>3 DEF Less

(* A committed entry has a position of its own, which is no NULL. *)
LEMMA Positions ==
    ASSUME createdAt \in [Entries -> Times \cup {None}]
    PROVE  /\ \A e \in Committed : e \in Entries /\ CursorOf(e) \in Cursor
           /\ \A d, e \in Committed : CursorOf(d) = CursorOf(e) => d = e
           /\ None \notin Cursor
  BY PagesAssumption DEF Committed, CursorOf, Cursor

(* So committed entries are ordered as well. *)
LEMMA Ordered ==
    ASSUME createdAt \in [Entries -> Times \cup {None}]
    PROVE  /\ \A e \in Committed : ~ Precedes(e, e)
           /\ \A c, d, e \in Committed : Precedes(c, d) /\ Precedes(d, e) => Precedes(c, e)
           /\ \A d, e \in Committed : d = e \/ Precedes(d, e) \/ Precedes(e, d)
  BY Positions, LessOrders DEF Precedes

(* A set of naturals has a least element. *)
Below == {x \in Nat \X Nat : x[1] < x[2]}

LEMMA LeastNatural ==
    ASSUME NEW S \in SUBSET Nat, S # {}
    PROVE  \E n \in S : \A k \in S : n <= k
<1>1. IsWellFoundedOn(Below, Nat)
  BY NatLessThanWellFounded DEF OpToRel, Below
<1>2. PICK n \in S : \A k \in S : ~ (<<k, n>> \in Below)
  BY <1>1, WFMin
<1>3. \A k \in S : ~ k < n
  BY <1>2 DEF Below
<1>4. QED BY <1>3

(* The rows of a result that precede one of its rows. *)
Ahead(e, found) == {d \in found : Precedes(d, e)}

(* Later rows have more rows ahead. *)
LEMMA Ranks ==
    ASSUME TypeOK, NEW F \in SUBSET Committed
    PROVE  /\ IsFiniteSet(F)
           /\ \A e \in F : IsFiniteSet(Ahead(e, F)) /\ Cardinality(Ahead(e, F)) \in Nat
           /\ \A d, e \in F :
                 Precedes(d, e) => Cardinality(Ahead(d, F)) < Cardinality(Ahead(e, F))
<1>1. IsFiniteSet(F)
  BY FS_Subset DEF TypeOK
<1>2. \A e \in F : IsFiniteSet(Ahead(e, F)) /\ Cardinality(Ahead(e, F)) \in Nat
  BY <1>1, FS_Subset, FS_CardinalityType DEF Ahead
<1>3. ASSUME NEW d \in F, NEW e \in F, Precedes(d, e)
      PROVE  Cardinality(Ahead(d, F)) < Cardinality(Ahead(e, F))
  <2>1. Ahead(d, F) \cup {d} \subseteq Ahead(e, F) /\ d \notin Ahead(d, F)
    BY <1>3, Ordered DEF TypeOK, Ahead
  <2>2. Cardinality(Ahead(d, F) \cup {d}) = Cardinality(Ahead(d, F)) + 1
    BY <1>2, <2>1, FS_AddElement
  <2>3. Cardinality(Ahead(d, F) \cup {d}) <= Cardinality(Ahead(e, F))
    BY <1>2, <2>1, FS_Subset
  <2>4. QED BY <1>2, <2>2, <2>3
<1>4. QED BY <1>1, <1>2, <1>3

(* A result that is not empty has a first row, the one with the fewest ahead, *)
LEMMA FirstRow ==
    ASSUME TypeOK, NEW F \in SUBSET Committed, F # {},
           NEW G \in SUBSET F, G # {}
    PROVE  \E e \in G : \A d \in G : d = e \/ Precedes(e, d)
<1> DEFINE ranks == {Cardinality(Ahead(e, F)) : e \in G}
<1>1. ranks \in SUBSET Nat /\ ranks # {}
  BY Ranks
<1>2. PICK n \in ranks : \A k \in ranks : n <= k
  BY <1>1, LeastNatural
<1>3. PICK e \in G : n = Cardinality(Ahead(e, F))
  BY <1>2
<1>4. ASSUME NEW d \in G, Precedes(d, e) PROVE FALSE
  BY <1>2, <1>3, <1>4, Ranks
<1>5. QED BY <1>3, <1>4, Ordered DEF TypeOK

(* and a last one: the least time, and of these the least id. *)
LEMMA LastRow ==
    ASSUME TypeOK, NEW F \in SUBSET Committed, F # {}
    PROVE  Last(F) \in F /\ \A d \in F : d = Last(F) \/ Precedes(d, Last(F))
<1> DEFINE times == {createdAt[e] : e \in F}
<1>1. \A e \in F : e \in Nat /\ createdAt[e] \in Nat
  BY PagesAssumption DEF TypeOK, Committed
<1>2. PICK t \in times : \A u \in times : t <= u
  <2>1. times \in SUBSET Nat /\ times # {}
    BY <1>1
  <2> HIDE DEF times
  <2>2. QED
    BY <2>1, LeastNatural
<1> DEFINE oldest == {e \in F : createdAt[e] = t}
<1>3. PICK e \in oldest : \A d \in oldest : e <= d
  BY <1>1, LeastNatural
<1>4. ASSUME NEW d \in F PROVE d = e \/ Precedes(d, e)
  <2>1. createdAt[e] <= createdAt[d] /\ (createdAt[e] = createdAt[d] => e <= d)
    BY <1>2, <1>3, <1>4
  <2>2. QED
    BY <1>1, <1>3, <1>4, <2>1 DEF Precedes, Less, CursorOf
<1>5. \E l \in F : \A d \in F : d = l \/ Precedes(d, l)
  BY <1>3, <1>4
<1>6. QED BY <1>5 DEF Last

(* What LIMIT n returns: some rows if there are any, at most n, and no other row is
   before one of them. *)
LEMMA Limited ==
    ASSUME TypeOK, NEW F \in SUBSET Committed, NEW n \in Nat \ {0}
    PROVE  /\ FirstRows(n, F) \subseteq F
           /\ F # {} => FirstRows(n, F) # {}
           /\ \A d \in FirstRows(n, F), e \in F \ FirstRows(n, F) : Precedes(d, e)
           /\ Cardinality(FirstRows(n, F)) <= n
<1> DEFINE P == FirstRows(n, F)
<1>1. P = {e \in F : Cardinality(Ahead(e, F)) < n}
  BY DEF FirstRows, Ahead
<1> HIDE DEF P
<1>2. ASSUME F # {} PROVE P # {}
  <2>1. PICK e \in F : \A d \in F : d = e \/ Precedes(e, d)
    BY <1>2, FirstRow
  <2>2. Ahead(e, F) = {}
    BY <2>1, Ordered DEF TypeOK, Ahead
  <2>3. QED BY <1>1, <2>1, <2>2, FS_EmptySet
<1>3. ASSUME NEW d \in P, NEW e \in F \ P PROVE Precedes(d, e)
  <2>1. ~ Precedes(e, d) /\ d # e
    BY <1>1, <1>3, Ranks
  <2>2. QED BY <1>1, <1>3, <2>1, Ordered DEF TypeOK
<1>4. Cardinality(P) <= n
  <2>1. CASE P = {}
    BY <2>1, FS_EmptySet
  <2>2. CASE P # {}
    <3> DEFINE l == Last(P)
    <3>1. l \in P /\ \A d \in P : d = l \/ Precedes(d, l)
      BY <1>1, <2>2, LastRow
    <3> HIDE DEF l
    <3>2. P \subseteq Ahead(l, F) \cup {l} /\ l \notin Ahead(l, F)
      BY <1>1, <3>1, Ordered DEF TypeOK, Ahead
    <3>3. /\ IsFiniteSet(Ahead(l, F) \cup {l})
          /\ Cardinality(Ahead(l, F) \cup {l}) = Cardinality(Ahead(l, F)) + 1
      BY <1>1, <3>1, <3>2, Ranks, FS_AddElement
    <3>4. Cardinality(P) <= Cardinality(Ahead(l, F) \cup {l})
      BY <3>2, <3>3, FS_Subset
    <3>5. Cardinality(Ahead(l, F)) \in Nat /\ Cardinality(Ahead(l, F)) < n
      BY <1>1, <3>1, Ranks
    <3>6. Cardinality(P) \in Nat
      BY <3>2, <3>3, FS_Subset, FS_CardinalityType
    <3>7. QED BY <3>3, <3>4, <3>5, <3>6
  <2>3. QED BY <2>1, <2>2
<1>5. QED BY <1>1, <1>2, <1>3, <1>4 DEF P

(* The row read beyond the page is there exactly when the page leaves rows out. *)
LEMMA OneMore ==
    ASSUME TypeOK, NEW F \in SUBSET Committed, NEW n \in Nat \ {0}
    PROVE  Cardinality(FirstRows(n + 1, F)) > n <=> FirstRows(n, F) # F
<1> DEFINE P == FirstRows(n, F)
           R == FirstRows(n + 1, F)
<1>1. /\ P = {e \in F : Cardinality(Ahead(e, F)) < n}
      /\ R = {e \in F : Cardinality(Ahead(e, F)) < n + 1}
  BY DEF FirstRows, Ahead
<1>2. /\ P \subseteq F /\ Cardinality(P) <= n
      /\ \A d \in P, e \in F \ P : Precedes(d, e)
  BY Limited
<1> HIDE DEF P, R
<1>3. P \subseteq R /\ R \subseteq F
  <2>1. \A e \in F : Cardinality(Ahead(e, F)) \in Nat
    BY Ranks
  <2>2. QED BY <1>1, <2>1
<1>4. IsFiniteSet(P) /\ IsFiniteSet(R) /\ Cardinality(P) \in Nat /\ Cardinality(R) \in Nat
  BY <1>3, Ranks, FS_Subset, FS_CardinalityType
<1>5. ASSUME P = F PROVE ~ Cardinality(R) > n
  BY <1>2, <1>3, <1>4, <1>5
<1>6. ASSUME P # F PROVE Cardinality(R) > n
  <2>1. PICK e \in F \ P : \A d \in F \ P : d = e \/ Precedes(e, d)
    BY <1>2, <1>6, FirstRow
  <2>2. Ahead(e, F) = P
    BY <1>2, <2>1, Ordered DEF TypeOK, Ahead
  <2>3. Cardinality(P) = n /\ e \in R
    BY <1>1, <1>2, <1>4, <2>1, <2>2
  <2>4. Cardinality(P \cup {e}) = n + 1
    BY <1>4, <2>1, <2>3, FS_AddElement
  <2>5. Cardinality(P \cup {e}) <= Cardinality(R)
    BY <1>3, <1>4, <2>3, FS_Subset
  <2>6. QED BY <1>4, <2>4, <2>5
<1>7. QED BY <1>5, <1>6 DEF P, R

(* A page: some rows of the result, all of them when there is no next cursor; otherwise
   the cursor is after none of them, and all other rows, at least one, are behind it. *)
LEMMA PageOf ==
    ASSUME TypeOK, NEW F \in SUBSET Committed, NEW n \in Nat \ {0},
           NEW page, page = FirstRows(n, F),
           NEW next, next = NextCursor(FirstRows(n + 1, F), page, n)
    PROVE  /\ page \subseteq F
           /\ next \in Cursor \cup {None}
           /\ next = None => page = F
           /\ next # None => /\ \E l \in page : next = CursorOf(l)
                             /\ \A d \in page : ~ Less(CursorOf(d), next)
                             /\ \A e \in F \ page : Less(CursorOf(e), next)
                             /\ F \ page # {}
<1>1. /\ page \subseteq F /\ (F # {} => page # {})
      /\ \A d \in page, e \in F \ page : Precedes(d, e)
  BY Limited
<1>2. CASE page = F
  BY <1>2, OneMore DEF NextCursor
<1>3. CASE page # F
  <2> DEFINE l == Last(page)
  <2>1. next = CursorOf(l)
    BY <1>3, OneMore DEF NextCursor
  <2>2. l \in page /\ \A d \in page : d = l \/ Precedes(d, l)
    BY <1>1, <1>3, LastRow
  <2> HIDE DEF l
  <2>3. next \in Cursor /\ next # None
    BY <1>1, <2>1, <2>2, Positions DEF TypeOK
  <2>4. \A d \in page : ~ Precedes(l, d)
    BY <1>1, <2>2, Ordered DEF TypeOK
  <2>5. QED
    BY <1>1, <1>3, <2>1, <2>2, <2>3, <2>4 DEF Precedes
<1>4. QED BY <1>2, <1>3

-----------------------------------------------------------------------------
(* Part 2: walks. *)

(* A walk has a cursor while it is open; what it has seen is committed and not behind it. *)
WalkShape ==
    \A r \in Readers :
        /\ walk[r].stage = "open" <=> walk[r].cursor # None
        /\ walk[r].stage = "idle" => Seen(r) = {} /\ walk[r].owed = {}
        /\ Seen(r) \subseteq Committed
        /\ walk[r].cursor # None => \A d \in Seen(r) : ~ Less(CursorOf(d), walk[r].cursor)

PagesInv == TypeOK /\ WalkShape /\ PagesDescend /\ NothingSkipped /\ CursorLeadsOn

(* Before the first entry and the first page. *)
LEMMA InitPages == Init => PagesInv
<1> SUFFICES ASSUME Init PROVE PagesInv
  OBVIOUS
<1>1. Committed = {} /\ \A r \in Readers : Seen(r) = {}
  BY DEF Init, Committed, Seen
<1>2. TypeOK
  BY <1>1, FS_EmptySet DEF Init, TypeOK
<1>3. QED
  BY <1>1, <1>2 DEF Init, PagesInv, WalkShape, PagesDescend, NothingSkipped, CursorLeadsOn

(* A commit adds an entry somewhere in the order and moves none. *)
LEMMA CommitKeeps ==
    ASSUME PagesInv, NEW e \in Entries, NEW t \in Times, Commit(e, t)
    PROVE  PagesInv'
<1>1. /\ Committed' = Committed \cup {e} /\ e \notin Committed
      /\ \A d \in Committed : createdAt'[d] = createdAt[d]
      /\ createdAt' \in [Entries -> Times \cup {None}]
      /\ walk' = walk
  BY PagesAssumption DEF Commit, Committed, PagesInv, TypeOK
<1>2. TypeOK'
  BY <1>1, FS_AddElement DEF PagesInv, TypeOK
<1>3. \A r \in Readers : Seen(r)' = Seen(r) /\ Seen(r) \subseteq Committed
  BY <1>1 DEF Seen, PagesInv, WalkShape
<1>4. \A d \in Committed : CursorOf(d)' = CursorOf(d)
  BY <1>1 DEF CursorOf
<1>5. \A r \in Readers : Behind(walk[r].cursor) \subseteq Behind(walk[r].cursor)'
  BY <1>1, <1>4 DEF Behind, BelowCursor, Less
<1>6. WalkShape'
  BY <1>1, <1>3, <1>4 DEF WalkShape, PagesInv, Less
<1>7. PagesDescend'
  <2> SUFFICES ASSUME NEW r \in Readers, NEW i \in DOMAIN walk[r].pages,
                      NEW j \in DOMAIN walk[r].pages, i < j,
                      NEW d \in walk[r].pages[i], NEW f \in walk[r].pages[j]
               PROVE  Precedes(d, f)'
    BY <1>1 DEF PagesDescend
  <2>1. d \in Committed /\ f \in Committed
    BY <1>3 DEF Seen
  <2>2. Precedes(d, f)
    BY DEF PagesInv, PagesDescend
  <2>3. QED BY <1>4, <2>1, <2>2 DEF Precedes, Less
<1>8. NothingSkipped'
  BY <1>1, <1>3, <1>5 DEF NothingSkipped, PagesInv
<1>9. CursorLeadsOn'
  BY <1>1, <1>5 DEF CursorLeadsOn, PagesInv
<1>10. QED BY <1>2, <1>6, <1>7, <1>8, <1>9 DEF PagesInv

(* What is on the pages when one is added. *)
LEMMA PagesOf ==
    ASSUME NEW S, NEW pages \in Seq(S), NEW page \in S
    PROVE  LET more == Append(pages, page)
           IN  UNION {more[i] : i \in DOMAIN more}
                  = (UNION {pages[i] : i \in DOMAIN pages}) \cup page
<1> DEFINE n == Len(pages)
           more == Append(pages, page)
<1>1. n \in Nat /\ DOMAIN pages = 1 .. n /\ DOMAIN more = (1 .. n) \cup {n + 1}
  OBVIOUS
<1>2. (\A i \in 1 .. n : more[i] = pages[i]) /\ more[n + 1] = page
  OBVIOUS
<1> HIDE DEF n, more
<1>3. {more[i] : i \in DOMAIN more} = {pages[i] : i \in 1 .. n} \cup {page}
  BY <1>1, <1>2
<1>4. \A A, x : UNION (A \cup {x}) = (UNION A) \cup x
  OBVIOUS
<1>5. UNION {more[i] : i \in DOMAIN more} = (UNION {pages[i] : i \in DOMAIN pages}) \cup page
  <2> DEFINE old == {pages[i] : i \in DOMAIN pages}
             all == {more[i] : i \in DOMAIN more}
  <2>1. all = old \cup {page}
    BY <1>1, <1>3
  <2> HIDE DEF old, all
  <2>2. UNION all = (UNION old) \cup page
    BY <1>4, <2>1
  <2>3. QED
    BY <2>2 DEF old, all
<1>6. QED BY <1>5 DEF more

(* A page takes the walk from its cursor to the next one, and over all rows between. *)
LEMMA PageKeeps ==
    ASSUME PagesInv, NEW r \in Readers, NEW limit \in Limits, Page(r, limit)
    PROVE  PagesInv'
<1> DEFINE F == Behind(walk[r].cursor)
           page == FirstRows(limit, F)
           next == NextCursor(FirstRows(limit + 1, F), page, limit)
           w == [stage |-> IF next = None THEN "ended" ELSE "open", cursor |-> next,
                 pages |-> Append(walk[r].pages, page), owed |-> walk[r].owed \cup F]
<1>1. /\ walk' = [walk EXCEPT ![r] = w] /\ createdAt' = createdAt
      /\ walk[r].stage # "ended" /\ limit \in Nat \ {0}
  BY PagesAssumption DEF Page, ValidLimit
<1>2. F \subseteq Committed
  BY DEF Behind
<1>3. /\ page \subseteq F /\ next \in Cursor \cup {None}
      /\ next = None => page = F
      /\ next # None => /\ \E l \in page : next = CursorOf(l)
                        /\ \A d \in page : ~ Less(CursorOf(d), next)
                        /\ \A e \in F \ page : Less(CursorOf(e), next)
                        /\ F \ page # {}
  BY <1>1, <1>2, PageOf DEF PagesInv
<1> HIDE DEF page, next
<1>4. /\ walk \in [Readers -> [stage: {"idle", "open", "ended"}, cursor: Cursor \cup {None},
                               pages: Seq(SUBSET Entries), owed: SUBSET Entries]]
      /\ walk[r].pages \in Seq(SUBSET Entries)
      /\ Committed \subseteq Entries
  BY DEF PagesInv, TypeOK, Committed
<1>5. /\ walk'[r] = w
      /\ \A q \in Readers \ {r} : walk'[q] = walk[q] /\ Seen(q)' = Seen(q)
  BY <1>1, <1>4 DEF Seen
<1>6. /\ Committed' = Committed
      /\ \A e \in Entries : CursorOf(e)' = CursorOf(e)
      /\ \A d, e : Precedes(d, e)' <=> Precedes(d, e)
  BY <1>1 DEF Committed, CursorOf, Precedes
<1>7. Seen(r)' = Seen(r) \cup page
  <2> DEFINE pages == walk[r].pages
             more == Append(pages, page)
  <2>1. walk'[r].pages = more /\ page \in SUBSET Entries /\ pages \in Seq(SUBSET Entries)
    BY <1>2, <1>3, <1>4, <1>5
  <2> HIDE DEF pages
  <2>2. UNION {more[i] : i \in DOMAIN more} = (UNION {pages[i] : i \in DOMAIN pages}) \cup page
    BY <2>1, PagesOf
  <2>3. QED
    BY <2>1, <2>2 DEF Seen, pages
<1>8. TypeOK'
  BY <1>1, <1>2, <1>3, <1>4, <1>6 DEF PagesInv, TypeOK
<1>9. \A d \in Seen(r), e \in F : Precedes(d, e)
  BY <1>1, <1>2, <1>4, LessOrders, Positions
  DEF PagesInv, WalkShape, Behind, BelowCursor, Precedes, TypeOK
<1>10. WalkShape'
  <2>1. ASSUME next # None, NEW d \in Seen(r) PROVE ~ Less(CursorOf(d), next)
    <3>1. PICK l \in page : next = CursorOf(l)
      BY <1>3, <2>1
    <3>2. Precedes(d, l) /\ ~ Precedes(l, d)
      BY <1>2, <1>3, <1>9, Ordered DEF PagesInv, WalkShape, TypeOK
    <3>3. QED BY <3>1, <3>2 DEF Precedes
  <2>2. SUFFICES ASSUME NEW q \in Readers
                 PROVE  /\ walk'[q].stage = "open" <=> walk'[q].cursor # None
                        /\ walk'[q].stage = "idle" => Seen(q)' = {} /\ walk'[q].owed = {}
                        /\ Seen(q)' \subseteq Committed
                        /\ walk'[q].cursor # None
                              => \A d \in Seen(q)' : ~ Less(CursorOf(d), walk'[q].cursor)
    BY <1>1, <1>6 DEF WalkShape, Less, CursorOf
  <2>3. CASE q # r
    BY <1>5, <2>3 DEF PagesInv, WalkShape
  <2>4. CASE q = r
    <3>1. Seen(r) \cup page \subseteq Committed
      BY <1>2, <1>3 DEF PagesInv, WalkShape
    <3>2. next # None => \A d \in Seen(r) \cup page : ~ Less(CursorOf(d), next)
      BY <1>3, <2>1
    <3>3. QED
      BY <1>5, <1>7, <2>4, <3>1, <3>2
  <2>5. QED BY <2>3, <2>4
<1>11. PagesDescend'
  <2> SUFFICES ASSUME NEW q \in Readers, NEW i \in DOMAIN walk'[q].pages,
                      NEW j \in DOMAIN walk'[q].pages, i < j,
                      NEW d \in walk'[q].pages[i], NEW e \in walk'[q].pages[j]
               PROVE  Precedes(d, e)
    BY <1>6 DEF PagesDescend
  <2>1. CASE q # r
    BY <1>5, <2>1 DEF PagesInv, PagesDescend
  <2>2. CASE q = r
    <3> DEFINE n == Len(walk[r].pages)
               old == walk[r].pages
               new == walk'[r].pages
    <3>1. /\ i \in 1 .. n /\ j \in 1 .. n + 1 /\ d \in walk[r].pages[i]
          /\ IF j = n + 1 THEN e \in page ELSE e \in walk[r].pages[j]
      <4>1. new = Append(old, page) /\ page \in SUBSET Entries /\ old \in Seq(SUBSET Entries)
        BY <1>2, <1>3, <1>4, <1>5
      <4> HIDE DEF old
      <4>2. /\ Len(old) \in Nat /\ DOMAIN new = 1 .. Len(old) + 1
            /\ \A k \in 1 .. Len(old) : new[k] = old[k]
            /\ new[Len(old) + 1] = page
        BY <4>1
      <4>3. /\ i \in DOMAIN new /\ j \in DOMAIN new /\ d \in new[i] /\ e \in new[j]
            /\ n = Len(old)
        BY <2>2 DEF old
      <4> HIDE DEF new, n
      <4>4. i \in 1 .. n /\ j \in 1 .. n + 1 /\ d \in old[i]
            /\ IF j = n + 1 THEN e \in page ELSE e \in old[j]
        BY <4>2, <4>3
      <4>5. QED
        BY <4>4 DEF old
    <3>2. CASE j = n + 1
      <4>1. d \in Seen(r)
        BY <1>4, <3>1 DEF Seen
      <4>2. QED BY <1>3, <1>9, <3>1, <3>2, <4>1
    <3>3. CASE j # n + 1
      BY <1>4, <3>1, <3>3 DEF PagesInv, PagesDescend
    <3>4. QED BY <3>2, <3>3
  <2>3. QED BY <2>1, <2>2
<1>12. NothingSkipped'
  <2>1. \A c : Behind(c)' = Behind(c)
    BY <1>1 DEF Behind, BelowCursor, Less, CursorOf, Committed
  <2>2. walk[r].owed \subseteq Seen(r) \cup F
    BY <1>1, <1>4 DEF PagesInv, WalkShape, NothingSkipped
  <2>3. next # None => F \subseteq page \cup Behind(next)
    BY <1>2, <1>3 DEF Behind, BelowCursor
  <2>4. w.owed \subseteq Seen(r)' \cup (IF w.stage = "open" THEN Behind(w.cursor) ELSE {})
    BY <1>3, <1>7, <2>2, <2>3
  <2>5. QED
    BY <1>5, <2>1, <2>4 DEF PagesInv, NothingSkipped
<1>13. CursorLeadsOn'
  <2>1. \A c : Behind(c)' = Behind(c)
    BY <1>1 DEF Behind, BelowCursor, Less, CursorOf, Committed
  <2>2. next # None => Behind(next) # {}
    BY <1>2, <1>3 DEF Behind, BelowCursor
  <2>3. QED
    BY <1>5, <2>1, <2>2 DEF PagesInv, CursorLeadsOn
<1>14. QED BY <1>8, <1>10, <1>11, <1>12, <1>13 DEF PagesInv

LEMMA NextPages == PagesInv /\ [Next]_vars => PagesInv'
<1> SUFFICES ASSUME PagesInv, [Next]_vars PROVE PagesInv'
  OBVIOUS
<1>1. CASE UNCHANGED vars
  <2>1. createdAt' = createdAt /\ walk' = walk /\ Committed' = Committed
    BY <1>1 DEF vars, Committed
  <2>2. TypeOK'
    BY <2>1 DEF PagesInv, TypeOK
  <2>3. (\A r \in Readers : Seen(r)' = Seen(r)) /\ (\A e : CursorOf(e)' = CursorOf(e))
    BY <2>1 DEF Seen, CursorOf
  <2>4. /\ \A c : Behind(c)' = Behind(c)
        /\ \A d, e : Precedes(d, e)' <=> Precedes(d, e)
    BY <2>1 DEF Behind, BelowCursor, Precedes, Less, CursorOf, Committed
  <2>5. WalkShape' /\ NothingSkipped'
    BY <2>1, <2>3, <2>4 DEF PagesInv, WalkShape, NothingSkipped, Less
  <2>6. PagesDescend' /\ CursorLeadsOn'
    BY <2>1, <2>4 DEF PagesInv, PagesDescend, CursorLeadsOn
  <2>7. QED BY <2>2, <2>5, <2>6 DEF PagesInv
<1>2. QED BY <1>1, CommitKeeps, PageKeeps DEF Next

LEMMA PagesInvariant == Spec => []PagesInv
  BY InitPages, NextPages, PTL DEF Spec

(* No entry is on two pages of a walk and no page goes back, whatever is committed in
   between and with whatever time. *)
THEOREM EachPageGoesOn == Spec => []PagesDescend
  BY PagesInvariant, PTL DEF PagesInv

(* What was behind the cursor of a walk when a page was read is on a page or still to
   come, and at the end all of it was seen. *)
THEOREM WalksSkipNothing == Spec => []NothingSkipped
  BY PagesInvariant, PTL DEF PagesInv

(* A cursor leads to at least one entry more. *)
THEOREM NoPageIsEmpty == Spec => []CursorLeadsOn
  BY PagesInvariant, PTL DEF PagesInv
=============================================================================
