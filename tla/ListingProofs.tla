--------------------------- MODULE ListingProofs ---------------------------
(***************************************************************************)
(* A listing of the registry, of everything or of the latest versions,     *)
(* leaves nothing out, whatever is published and edited between its pages: *)
(* for any number of rows, any size of a page and any order of the rows    *)
(* that keeps those of a server together.                                  *)
(***************************************************************************)
EXTENDS CatalogProofs, RegistryReads, FunctionTheorems, WellFoundedInduction

\* The rows that the query of the next page is about, and those before k.
Matching == {k \in Key : Matches(k) /\ After(k)}
Before(k) == {j \in Matching : Place[j] < Place[k]}

-----------------------------------------------------------------------------
(* One page. *)

LEMMA LeastOf ==
    ASSUME NEW S, S \subseteq Nat, S # {}
    PROVE  \E x \in S : \A y \in S : x <= y
<1>1. PICK x \in S : \A y \in S : ~(<<y, x>> \in OpToRel(<, Nat))
  BY WFMin, NatLessThanWellFounded, Zenon
<1>2. ASSUME NEW y \in S PROVE x <= y
  <2>1. x \in Nat /\ y \in Nat /\ <<y, x>> \notin {ss \in Nat \X Nat : ss[1] < ss[2]}
    BY <1>1, Zenon DEF OpToRel
  <2> QED
    BY <2>1
<1> QED
  BY <1>2

\* The first of a set of rows, and the last of one that ends somewhere.
LEMMA FirstRow ==
    ASSUME NEW S, S \subseteq Key, S # {}
    PROVE  \E k \in S : \A j \in S : Place[k] <= Place[j]
<1>1. {Place[k] : k \in S} \subseteq Nat /\ {Place[k] : k \in S} # {}
  BY ReadsAssumption
<1>2. PICK x \in {Place[k] : k \in S} : \A y \in {Place[k] : k \in S} : x <= y
  BY <1>1, LeastOf
<1> QED
  BY <1>2

LEMMA LastRow ==
    ASSUME NEW S, S \subseteq Key, S # {}, NEW b \in Nat, \A j \in S : Place[j] < b
    PROVE  \E k \in S : \A j \in S : Place[j] <= Place[k]
<1> DEFINE Gaps == {b - Place[k] : k \in S}
<1>1. \A k \in S : Place[k] \in Nat /\ b - Place[k] \in Nat
  BY ReadsAssumption
<1>2. Gaps \subseteq Nat /\ Gaps # {}
  BY <1>1
<1>3. PICK x \in Gaps : \A y \in Gaps : x <= y
  BY <1>2, LeastOf
<1>4. PICK k \in S : x = b - Place[k]
  BY <1>3
<1>5. ASSUME NEW j \in S PROVE Place[j] <= Place[k]
  <2>1. b - Place[k] <= b - Place[j]
    BY <1>3, <1>4
  <2> QED
    BY <1>1, <2>1
<1> QED
  BY <1>5

LEMMA BeforeFinite ==
    ASSUME NEW k \in Key
    PROVE  IsFiniteSet(Before(k)) /\ Cardinality(Before(k)) \in Nat
<1> DEFINE place == [j \in Before(k) |-> Place[j]]
<1>1. Place[k] \in Nat /\ \A j \in Before(k) : Place[j] \in 0..Place[k]
  BY ReadsAssumption DEF Before, Matching
<1>2. \A i, j \in Before(k) : place[i] = place[j] => i = j
  BY ReadsAssumption DEF Before, Matching
<1>3. place \in Injection(Before(k), 0..Place[k])
  BY <1>1, <1>2 DEF Injection, IsInjective
<1>4. IsFiniteSet(0..Place[k])
  BY <1>1, FS_Interval
<1> QED
  BY <1>3, <1>4, FS_Injection, FS_CardinalityType

LEMMA PageIs == Page = {k \in Matching : Cardinality(Before(k)) < PageSize}
BY DEF Page, Matching, Before

\* What matches and is before a row of the page is on the page.
LEMMA PageDownward ==
    ASSUME NEW k \in Page, NEW j \in Matching, Place[j] < Place[k]
    PROVE  j \in Page
<1>1. k \in Key /\ j \in Key /\ Cardinality(Before(k)) < PageSize
  BY PageIs DEF Matching
<1>2. Before(j) \subseteq Before(k)
  BY <1>1, ReadsAssumption DEF Before, Matching
<1>3. Cardinality(Before(j)) <= Cardinality(Before(k))
  BY <1>1, <1>2, BeforeFinite, FS_Subset
<1> QED
  BY <1>1, <1>3, BeforeFinite, PageIs, ReadsAssumption

\* When a row does not fit on the page, the page is full and before that row.
LEMMA PageFull ==
    ASSUME NEW k \in Matching \ Page
    PROVE  /\ IsFiniteSet(Page)
           /\ Cardinality(Page) \in Nat
           /\ Cardinality(Page) >= PageSize
           /\ \A j \in Page : Place[j] < Place[k]
<1>1. k \in Key /\ Page \subseteq Matching /\ Matching \subseteq Key
  BY PageIs DEF Matching
<1>2. ASSUME NEW j \in Page PROVE Place[j] < Place[k]
  <2>1. j \in Key /\ j # k /\ ~(Place[k] < Place[j])
    BY <1>1, PageDownward
  <2> QED
    BY <1>1, <2>1, ReadsAssumption
<1>3. Page \subseteq Before(k)
  BY <1>1, <1>2 DEF Before
<1>4. IsFiniteSet(Page) /\ Cardinality(Page) \in Nat
  BY <1>1, <1>3, BeforeFinite, FS_Subset, FS_CardinalityType
<1>5. PICK m \in Matching \ Page : \A j \in Matching \ Page : Place[m] <= Place[j]
  BY <1>1, FirstRow
<1>6. Before(m) \subseteq Page
  BY <1>1, <1>5, ReadsAssumption DEF Before
<1>7. Cardinality(Before(m)) <= Cardinality(Page)
  BY <1>4, <1>6, FS_Subset
<1>8. ~(Cardinality(Before(m)) < PageSize)
  BY <1>5, PageIs
<1> QED
  BY <1>1, <1>2, <1>4, <1>5, <1>7, <1>8, BeforeFinite, ReadsAssumption

\* The cursor then is a row of the page, and what did not fit comes after it.
LEMMA CursorMoves ==
    ASSUME NEW k \in Matching \ Page
    PROVE  /\ NextCursor(Page) \in Page
           /\ NextCursor(Page) # NoCursor
           /\ Place[NextCursor(Page)] < Place[k]
<1>1. /\ Cardinality(Page) \in Nat /\ ~(Cardinality(Page) < PageSize)
      /\ \A j \in Page : Place[j] < Place[k]
  BY PageFull, ReadsAssumption
<1>2. Page # {}
  <2>1. ASSUME Page = {} PROVE Cardinality(Page) = 0
    BY <2>1, FS_EmptySet
  <2>2. PageSize \in Nat \ {0}
    BY ReadsAssumption
  <2> QED
    BY <1>1, <2>1, <2>2
<1>3. Page \subseteq Key /\ k \in Key
  BY PageIs DEF Matching
<1>4. \E i \in Page : \A j \in Page : Place[j] <= Place[i]
  BY <1>1, <1>2, <1>3, LastRow, ReadsAssumption
<1>5. NextCursor(Page) = CHOOSE i \in Page : \A j \in Page : Place[j] <= Place[i]
  BY <1>1 DEF NextCursor
<1>6. NextCursor(Page) \in Page
  BY <1>4, <1>5
<1> QED
  BY <1>1, <1>3, <1>6, ReadsAssumption

-----------------------------------------------------------------------------
(* The whole listing. *)

Listing(m) == listing \in {"reading", "done"} /\ mode = m

\* What was there when the listing began is there still.
StartStays ==
    listing \in {"reading", "done"} =>
        \A k \in Key : atStart[k] # NoRow => servers[k] # NoRow

\* A row has been found, or is ahead of the cursor.
FullSoFar ==
    Listing("full") =>
        \A k \in Key : atStart[k] # NoRow =>
            found[k] # NoRow \/ (listing = "reading" /\ After(k))

\* A server has been found, or all its rows are ahead of the cursor: the mark
\* cannot move from one side of the cursor to the other.
LatestSoFar ==
    Listing("latest") =>
        \A n \in Names :
            (\E v \in Versions : atStart[<<n, v>>] # NoRow) =>
                \/ \E v \in Versions : found[<<n, v>>] # NoRow
                \/ listing = "reading" /\ \A v \in Versions : After(<<n, v>>)

RInv == StartStays /\ FullSoFar /\ LatestSoFar

LEMMA InitRInv == ReadsInit => RInv
BY DEF ReadsInit, RInv, StartStays, FullSoFar, LatestSoFar, Listing

LEMMA WriteKeepsRInv ==
    ASSUME IInv, RInv, [Next]_vars, UNCHANGED client
    PROVE  RInv'
<1> USE DEF client
<1>1. StartStays'
  BY RowsStay DEF IInv, RInv, StartStays
<1>2. FullSoFar' /\ LatestSoFar'
  BY DEF RInv, FullSoFar, LatestSoFar, Listing, After
<1> QED
  BY <1>1, <1>2 DEF RInv

LEMMA StartListingKeeps == ASSUME NEW m \in Modes, StartListing(m) PROVE RInv'
BY DEF StartListing, RInv, StartStays, FullSoFar, LatestSoFar, Listing, After, vars

\* A row that is there is on the next page or after the next cursor.
LEMMA PageKeepsFull == ASSUME RInv, ListPage PROVE FullSoFar'
<1> SUFFICES ASSUME Listing("full"), NEW k \in Key, atStart[k] # NoRow
             PROVE  found'[k] # NoRow \/ (listing' = "reading" /\ After(k)')
  BY DEF ListPage, FullSoFar, Listing
<1> USE DEF ListPage, vars
<1>1. servers[k] # NoRow /\ (found[k] # NoRow \/ After(k))
  BY DEF RInv, StartStays, FullSoFar, Listing
<1>2. CASE found[k] # NoRow \/ k \in Page
  BY <1>1, <1>2
<1>3. CASE found[k] = NoRow /\ k \notin Page
  <2>1. k \in Matching \ Page
    BY <1>1, <1>3 DEF Matching, Matches, Listing
  <2> QED
    BY <2>1, CursorMoves, ReadsAssumption DEF After
<1> QED
  BY <1>2, <1>3

\* The latest version of a server is on the next page, or all its rows are
\* after the next cursor, which is a row of another server.
LEMMA PageKeepsLatest == ASSUME IInv, RInv, ListPage PROVE LatestSoFar'
<1> SUFFICES ASSUME Listing("latest"), NEW n \in Names,
                    NEW v \in Versions, atStart[<<n, v>>] # NoRow
             PROVE  \/ \E w \in Versions : found'[<<n, w>>] # NoRow
                    \/ listing' = "reading" /\ \A w \in Versions : After(<<n, w>>)'
  BY DEF ListPage, LatestSoFar, Listing
<1> USE DEF ListPage, vars
<1>1. \A w \in Versions : <<n, w>> \in Key
  BY DEF Key
<1>2. \A w \in Versions : found[<<n, w>>] # NoRow => found'[<<n, w>>] # NoRow
  BY <1>1, PageIs DEF Matching, Matches
<1>3. CASE \E w \in Versions : found[<<n, w>>] # NoRow
  BY <1>2, <1>3
<1>4. CASE \A w \in Versions : found[<<n, w>>] = NoRow
  <2>1. \A w \in Versions : After(<<n, w>>)
    BY <1>4 DEF RInv, LatestSoFar, Listing
  <2>2. VersionsIn(servers, n) # {}
    BY <1>1 DEF RInv, StartStays, Listing, VersionsIn
  <2>3. PICK w \in Versions : IsLatestOf(servers, n, w)
    BY <2>2 DEF IInv, Good
  <2>4. servers[<<n, w>>] # NoRow /\ <<n, w>> \in Matching
    BY <1>1, <2>1, <2>3 DEF IsLatestOf, VersionsIn, Matching, Matches, Listing
  <2>5. CASE \E u \in Versions : <<n, u>> \in Page
    BY <1>1, <2>5, PageIs DEF Matching, Matches
  <2>6. CASE \A u \in Versions : <<n, u>> \notin Page
    <3> DEFINE c == NextCursor(Page)
    <3>1. c \in Page /\ c # NoCursor /\ Place[c] < Place[<<n, w>>]
      BY <2>4, <2>6, CursorMoves
    <3>2. c \in Key /\ c[1] # n
      BY <2>6, <3>1, PageIs DEF Matching, Key
    <3>3. ASSUME NEW u \in Versions PROVE Place[c] < Place[<<n, u>>]
      <4>1. <<n, u>> \in Key /\ <<n, w>> \in Key /\ c # <<n, u>>
        BY <1>1, <3>2
      <4>2. Place[c] # Place[<<n, u>>]
        BY <3>2, <4>1, ReadsAssumption
      <4>3. ~(Place[<<n, u>>] < Place[c])
        BY <3>1, <3>2, <4>1, ReadsAssumption
      <4>4. Place[c] \in Nat /\ Place[<<n, u>>] \in Nat
        BY <3>2, <4>1, ReadsAssumption
      <4> QED
        BY <4>2, <4>3, <4>4
    <3> QED
      BY <3>1, <3>3 DEF After
  <2> QED
    BY <2>5, <2>6
<1> QED
  BY <1>3, <1>4

LEMMA NextRInv == IInv /\ RInv /\ [ReadsNext]_<<vars, client>> => RInv'
<1> SUFFICES ASSUME IInv, RInv, [ReadsNext]_<<vars, client>> PROVE RInv'
  OBVIOUS
<1>1. CASE (Next /\ UNCHANGED client) \/ UNCHANGED <<vars, client>>
  BY <1>1, WriteKeepsRInv
<1>2. CASE \E m \in Modes : StartListing(m)
  BY <1>2, StartListingKeeps
<1>3. CASE ListPage
  <2>1. StartStays'
    BY <1>3 DEF ListPage, vars, RInv, StartStays
  <2> QED
    BY <1>3, <2>1, PageKeepsFull, PageKeepsLatest DEF RInv
<1>4. CASE FailListing
  BY <1>4 DEF FailListing, RInv, StartStays, FullSoFar, LatestSoFar, Listing
<1> QED
  BY <1>1, <1>2, <1>3, <1>4 DEF ReadsNext

\* The registry does not notice the client.
LEMMA ReadsAreSpec == ReadsSpec => Spec
<1>1. ReadsInit => Init
  BY DEF ReadsInit
<1>2. [ReadsNext]_<<vars, client>> => [Next]_vars
  BY DEF ReadsNext, StartListing, ListPage, FailListing
<1> QED
  BY <1>1, <1>2, PTL DEF ReadsSpec, Spec

\* What a listing has found so far, and the invariant of the registry, always.
LEMMA ReadsInductive == ReadsSpec => [](IInv /\ RInv)
BY ReadsAreSpec, Inductive, InitRInv, NextRInv, PTL DEF ReadsSpec

\* However many servers there are and whatever is published between two pages,
\* a listing of everything returns what was there when it began (ListServers).
THEOREM ListingTheorem == ReadsSpec => []ListingComplete
<1>1. RInv => ListingComplete
  BY DEF RInv, FullSoFar, Listing, ListingComplete
<1> QED
  BY <1>1, ReadsInductive, PTL

\* A listing with version=latest names every server that was there when it
\* began: ListServers orders by name first, so that a mark that moves stays on
\* its side of the cursor, and no server is ever without a latest version.
THEOREM LatestListingTheorem == ReadsSpec => []LatestListingNamesAll
<1>1. RInv => LatestListingNamesAll
  BY DEF RInv, LatestSoFar, Listing, LatestListingNamesAll
<1> QED
  BY <1>1, ReadsInductive, PTL

-----------------------------------------------------------------------------
(* Synchronisation: a listing of everything, then of what was updated since  *)
(* the last listing began.                                                   *)

\* A commit that adds or edits a row stamps it later than the beginning of the
\* client's last listing, and of the one under way.
StampedLater ==
    \A k \in Key : servers'[k] # servers[k] =>
        /\ watermark # NoTime => servers'[k].updatedAt > watermark
        /\ listing = "reading" /\ mode # "latest" => servers'[k].updatedAt > startedAt

\* A row that is not in the copy was updated after the watermark.
CopyCovers ==
    watermark # NoTime =>
        \A k \in Key : servers[k] # NoRow =>
            copy[k] # NoRow \/ servers[k].updatedAt > watermark

\* A row that this listing may have passed by was updated after it began.
NewSinceStart ==
    listing = "reading" /\ mode # "latest" =>
        \A k \in Key : servers[k] # NoRow /\ atStart[k] = NoRow =>
            servers[k].updatedAt > startedAt

\* A row that was there when a listing of changes began is in the copy, has been
\* found, or is ahead of the cursor as a change.
ChangesSoFar ==
    listing = "reading" /\ mode = "changes" =>
        /\ watermark # NoTime
        /\ \A k \in Key : atStart[k] # NoRow =>
              \/ copy[k] # NoRow
              \/ found[k] # NoRow
              \/ After(k) /\ servers[k].updatedAt > watermark

SyncInv ==
    /\ mode \in {"full", "latest", "changes"}
    /\ CopyCovers
    /\ NewSinceStart
    /\ ChangesSoFar
    /\ SyncMissesNothing

\* A commit that stamps its row late enough leaves the row to be found.
LEMMA WriteKeepsSync ==
    ASSUME SyncInv, [StampedLater]_servers, UNCHANGED client
    PROVE  SyncInv'
<1> USE DEF client, SyncInv
<1>1. ASSUME NEW k \in Key, servers'[k] # servers[k]
      PROVE  /\ watermark # NoTime => servers'[k].updatedAt > watermark
             /\ listing = "reading" /\ mode # "latest" => servers'[k].updatedAt > startedAt
  BY <1>1 DEF StampedLater
<1>2. CopyCovers'
  BY <1>1 DEF CopyCovers
<1>3. NewSinceStart'
  BY <1>1 DEF NewSinceStart
<1>4. ChangesSoFar'
  BY <1>1 DEF ChangesSoFar, After
<1>5. SyncMissesNothing'
  BY DEF SyncMissesNothing
<1> QED
  BY <1>2, <1>3, <1>4, <1>5

\* A change that has not been found is on the next page or after the next cursor.
LEMMA PageKeepsChanges ==
    ASSUME RInv, SyncInv, ListPage, mode = "changes", NEW k \in Key, atStart[k] # NoRow
    PROVE  \/ copy[k] # NoRow
           \/ found'[k] # NoRow
           \/ listing' = "reading" /\ After(k)' /\ servers'[k].updatedAt > watermark'
<1> USE DEF ListPage, vars
<1>1. servers[k] # NoRow /\ watermark # NoTime
  BY DEF RInv, StartStays, SyncInv, ChangesSoFar
<1>2. CASE copy[k] # NoRow \/ found[k] # NoRow \/ k \in Page
  BY <1>1, <1>2
<1>3. CASE copy[k] = NoRow /\ found[k] = NoRow /\ k \notin Page
  <2>1. After(k) /\ servers[k].updatedAt > watermark
    BY <1>3 DEF SyncInv, ChangesSoFar
  <2>2. k \in Matching \ Page
    BY <1>1, <1>3, <2>1 DEF Matching, Matches
  <2>3. NextCursor(Page) # NoCursor /\ Place[NextCursor(Page)] < Place[k]
    BY <2>2, CursorMoves
  <2> QED
    BY <2>1, <2>3 DEF After
<1> QED
  BY <1>2, <1>3

\* When a listing ends, its copy has what was there when it began.
LEMMA PageKeepsSync ==
    ASSUME RInv, SyncInv, ListPage
    PROVE  SyncInv'
<1> USE DEF ListPage, vars
<1>0. /\ mode' = mode /\ mode \in {"full", "latest", "changes"}
      /\ listing = "reading" /\ listing' \in {"reading", "done"}
      /\ atStart' = atStart /\ servers' = servers /\ startedAt' = startedAt
  BY DEF SyncInv
<1>1. ASSUME listing' = "done", mode # "latest", NEW k \in Key, atStart[k] # NoRow
      PROVE  copy'[k] # NoRow
  <2>1. copy' = Over(found', copy)
    BY <1>1
  <2>2. copy[k] # NoRow \/ found'[k] # NoRow
    <3>1. CASE mode = "full"
      BY <1>0, <1>1, <3>1, PageKeepsFull DEF FullSoFar, Listing
    <3>2. CASE mode = "changes"
      BY <1>1, <3>2, PageKeepsChanges
    <3> QED
      BY <1>0, <1>1, <3>1, <3>2
  <2> QED
    BY <2>1, <2>2 DEF Over
<1>2. CopyCovers'
  <2>1. CASE listing' = "done" /\ mode # "latest"
    <3>1. watermark' = startedAt
      BY <2>1
    <3> QED
      BY <1>0, <1>1, <2>1, <3>1 DEF CopyCovers, SyncInv, NewSinceStart
  <2>2. CASE ~(listing' = "done" /\ mode # "latest")
    <3>1. UNCHANGED <<copy, watermark>>
      BY <2>2
    <3> QED
      BY <1>0, <3>1 DEF CopyCovers, SyncInv
  <2> QED
    BY <2>1, <2>2
<1>3. NewSinceStart'
  BY <1>0 DEF NewSinceStart, SyncInv
<1>4. ChangesSoFar'
  <2> SUFFICES ASSUME listing' = "reading", mode = "changes"
               PROVE  /\ watermark' # NoTime
                      /\ \A k \in Key : atStart[k] # NoRow =>
                            \/ copy'[k] # NoRow
                            \/ found'[k] # NoRow
                            \/ After(k)' /\ servers'[k].updatedAt > watermark'
    BY <1>0 DEF ChangesSoFar
  <2>1. UNCHANGED <<copy, watermark>> /\ watermark # NoTime
    BY DEF SyncInv, ChangesSoFar
  <2> QED
    BY <2>1, PageKeepsChanges
<1>5. SyncMissesNothing'
  BY <1>0, <1>1 DEF SyncMissesNothing
<1> QED
  BY <1>0, <1>2, <1>3, <1>4, <1>5 DEF SyncInv

\* Every step leaves what is missing from the copy to be found.
LEMMA NextSyncInv ==
    RInv /\ SyncInv /\ [ReadsNext]_<<vars, client>> /\ [StampedLater]_servers => SyncInv'
<1> SUFFICES ASSUME RInv, SyncInv, [ReadsNext]_<<vars, client>>, [StampedLater]_servers
             PROVE  SyncInv'
  OBVIOUS
<1>1. CASE UNCHANGED client
  BY <1>1, WriteKeepsSync
<1>2. ASSUME NEW m \in Modes, StartListing(m) PROVE SyncInv'
  <2>1. m \in {"full", "latest", "changes"}
    BY ReadsAssumption
  <2>2. /\ listing' = "reading" /\ mode' = m /\ cursor' = NoCursor
        /\ atStart' = servers /\ UNCHANGED <<copy, watermark, servers>>
        /\ m = "changes" => watermark # NoTime
    BY <1>2 DEF StartListing, vars
  <2>3. CopyCovers' /\ NewSinceStart' /\ SyncMissesNothing'
    BY <2>2 DEF SyncInv, CopyCovers, NewSinceStart, SyncMissesNothing
  <2>4. ChangesSoFar'
    BY <2>2 DEF SyncInv, CopyCovers, ChangesSoFar, After
  <2> QED
    BY <2>1, <2>2, <2>3, <2>4 DEF SyncInv
<1>3. CASE ListPage
  BY <1>3, PageKeepsSync
<1>4. CASE FailListing
  BY <1>4
  DEF FailListing, vars, SyncInv, CopyCovers, NewSinceStart, ChangesSoFar, SyncMissesNothing
<1> QED
  BY <1>1, <1>2, <1>3, <1>4 DEF ReadsNext

\* A client that synchronises by updated_since misses a row only because a row was
\* committed with an updated_at that is not later than a listing already begun:
\* when every commit stamps its rows later, whatever the order of commits and pages,
\* the copy has every row that was there when the last listing began.
THEOREM SyncMissesOnlyEarlyStamps ==
    ReadsSpec /\ [][StampedLater]_servers => []SyncMissesNothing
<1>1. ReadsInit => SyncInv
  BY DEF ReadsInit, SyncInv, CopyCovers, NewSinceStart, ChangesSoFar, SyncMissesNothing
<1>2. SyncInv => SyncMissesNothing
  BY DEF SyncInv
<1> QED
  BY <1>1, <1>2, NextSyncInv, ReadsInductive, PTL DEF ReadsSpec

-----------------------------------------------------------------------------
(* Pages follow each other. *)

\* Of two rows on a page the later one has more rows before it.
LEMMA BeforeGrows ==
    ASSUME NEW j \in Page, NEW k \in Page, Place[j] < Place[k]
    PROVE  Cardinality(Before(j)) < Cardinality(Before(k))
<1>1. j \in Matching /\ j \in Key /\ k \in Key
  BY PageIs DEF Matching
<1>2. j \notin Before(j) /\ Before(j) \cup {j} \subseteq Before(k)
  BY <1>1, ReadsAssumption DEF Before, Matching
<1>3. /\ IsFiniteSet(Before(j)) /\ Cardinality(Before(j)) \in Nat
      /\ IsFiniteSet(Before(k)) /\ Cardinality(Before(k)) \in Nat
  BY <1>1, BeforeFinite
<1>4. Cardinality(Before(j) \cup {j}) = Cardinality(Before(j)) + 1
  BY <1>2, <1>3, FS_AddElement
<1>5. Cardinality(Before(j) \cup {j}) <= Cardinality(Before(k))
  BY <1>2, <1>3, FS_Subset
<1> QED
  BY <1>3, <1>4, <1>5

\* A page has no more rows than the limit of the request.
LEMMA PageBounded == IsFiniteSet(Page) /\ Cardinality(Page) <= PageSize
<1> DEFINE rank == [k \in Page |-> Cardinality(Before(k)) + 1]
<1>1. \A k \in Page : k \in Key /\ Cardinality(Before(k)) < PageSize
  BY PageIs DEF Matching
<1>2. \A k \in Page : rank[k] \in 1..PageSize
  BY <1>1, BeforeFinite, ReadsAssumption
<1>3. ASSUME NEW j \in Page, NEW k \in Page, rank[j] = rank[k] PROVE j = k
  <2>1. Cardinality(Before(j)) = Cardinality(Before(k))
    BY <1>1, <1>3, BeforeFinite
  <2>2. ~(Place[j] < Place[k]) /\ ~(Place[k] < Place[j])
    BY <1>1, <2>1, BeforeGrows, BeforeFinite
  <2> QED
    BY <1>1, <2>2, ReadsAssumption
<1>4. rank \in Injection(Page, 1..PageSize)
  BY <1>2, <1>3 DEF Injection, IsInjective
<1>5. IsFiniteSet(1..PageSize) /\ Cardinality(1..PageSize) = PageSize
  BY FS_Interval, ReadsAssumption
<1> QED
  BY <1>4, <1>5, FS_Injection

\* A page that has rows has a last one.
LEMMA PageLast ==
    ASSUME Page # {}
    PROVE  \E k \in Page : \A j \in Page : Place[j] <= Place[k]
<1> DEFINE Left(k) == PageSize - Cardinality(Before(k))
<1>1. \A k \in Page : k \in Key /\ Cardinality(Before(k)) \in Nat /\ Left(k) \in Nat
  BY PageIs, BeforeFinite, ReadsAssumption DEF Matching
<1>2. {Left(k) : k \in Page} \subseteq Nat /\ {Left(k) : k \in Page} # {}
  BY <1>1
<1>3. PICK x \in {Left(k) : k \in Page} : \A y \in {Left(k) : k \in Page} : x <= y
  BY <1>2, LeastOf
<1>4. PICK k \in Page : x = Left(k)
  BY <1>3
<1>5. ASSUME NEW j \in Page, Place[k] < Place[j] PROVE FALSE
  <2>1. Cardinality(Before(k)) < Cardinality(Before(j))
    BY <1>5, BeforeGrows
  <2>2. Left(k) <= Left(j)
    BY <1>3, <1>4
  <2> QED
    BY <1>1, <2>1, <2>2, ReadsAssumption
<1> QED
  BY <1>1, <1>5, ReadsAssumption

\* The rows found so far are at the cursor or before it.
FoundBehind ==
    /\ cursor \in Key \cup {NoCursor}
    /\ listing = "reading" => \A k \in Key : found[k] # NoRow => ~After(k)

\* The next cursor, if there is one, is the last row of the page.
LEMMA CursorLast ==
    ASSUME NextCursor(Page) # NoCursor
    PROVE  NextCursor(Page) \in Page /\ \A j \in Page : Place[j] <= Place[NextCursor(Page)]
<1>1. ~(Cardinality(Page) < PageSize)
  BY DEF NextCursor
<1>2. Page # {}
  <2>1. ASSUME Page = {} PROVE FALSE
    <3>1. Cardinality(Page) = 0
      BY <2>1, FS_EmptySet
    <3> QED
      BY <1>1, <3>1, ReadsAssumption
  <2> QED
    BY <2>1
<1>3. NextCursor(Page) = CHOOSE k \in Page : \A j \in Page : Place[j] <= Place[k]
  BY <1>1 DEF NextCursor
<1> QED
  BY <1>2, <1>3, PageLast

\* A page puts its rows, and no others, behind the cursor.
LEMMA NextFoundBehind ==
    FoundBehind /\ [ReadsNext]_<<vars, client>> => FoundBehind'
<1> SUFFICES ASSUME FoundBehind, [ReadsNext]_<<vars, client>> PROVE FoundBehind'
  OBVIOUS
<1>1. CASE UNCHANGED client
  BY <1>1 DEF client, FoundBehind, After
<1>2. CASE (\E m \in Modes : StartListing(m)) \/ FailListing
  BY <1>2 DEF StartListing, FailListing, FoundBehind, NoRows
<1>3. CASE ListPage
  <2> USE <1>3 DEF ListPage
  <2> DEFINE c == NextCursor(Page)
  <2>1. cursor' = c /\ (c # NoCursor => c \in Page)
    BY CursorLast
  <2>2. Page \subseteq Key /\ \A k \in Page : After(k)
    BY PageIs DEF Matching
  <2>3. ASSUME listing' = "reading", NEW k \in Key, found'[k] # NoRow PROVE ~After(k)'
    <3>1. c # NoCursor /\ c \in Page /\ \A j \in Page : Place[j] <= Place[c]
      BY <2>3, CursorLast
    <3>2. Place[c] \in Nat /\ Place[k] \in Nat
      BY <2>2, <3>1, ReadsAssumption
    <3>3. Place[k] <= Place[c]
      <4>1. CASE k \in Page
        BY <3>1, <4>1
      <4>2. CASE k \notin Page
        <5>1. ~After(k) /\ After(c)
          BY <2>2, <2>3, <3>1, <4>2 DEF FoundBehind
        <5>2. cursor \in Key /\ Place[cursor] \in Nat
          BY <5>1, ReadsAssumption DEF FoundBehind, After
        <5> QED
          BY <3>2, <5>1, <5>2 DEF After
      <4> QED
        BY <4>1, <4>2
    <3> QED
      BY <2>1, <3>1, <3>2, <3>3 DEF After
  <2> QED
    BY <2>1, <2>2, <2>3 DEF FoundBehind
<1> QED
  BY <1>1, <1>2, <1>3 DEF ReadsNext

\* A page returns new rows only, as many as asked for at most, and leaves the cursor
\* further on: no row is listed twice and no request of a listing repeats another.
PagesAdvance ==
    ListPage =>
        /\ Cardinality(Page) <= PageSize
        /\ \A k \in Page : found[k] = NoRow
        /\ listing' = "reading" => cursor' \in Page /\ After(cursor')

\* Whatever is published and edited between its pages, a listing never returns a row
\* twice: the cursor of ListServers only moves forward.
THEOREM PagesTheorem == ReadsSpec => [][PagesAdvance]_<<vars, client>>
<1>1. ReadsInit => FoundBehind
  BY DEF ReadsInit, FoundBehind
<1>2. FoundBehind => PagesAdvance
  <2> SUFFICES ASSUME FoundBehind, ListPage
               PROVE  /\ Cardinality(Page) <= PageSize
                      /\ \A k \in Page : found[k] = NoRow
                      /\ listing' = "reading" => cursor' \in Page /\ After(cursor')
    BY DEF PagesAdvance
  <2>1. \A k \in Page : k \in Key /\ After(k)
    BY PageIs DEF Matching
  <2>2. listing' = "reading" => cursor' \in Page
    BY CursorLast DEF ListPage
  <2> QED
    BY <2>1, <2>2, PageBounded DEF FoundBehind, ListPage
<1> QED
  BY <1>1, <1>2, NextFoundBehind, PTL DEF ReadsSpec
=============================================================================
