--------------------------- MODULE RegistryReads ---------------------------
(***************************************************************************)
(* A client of the list endpoint while publishes and edits commit: it pages*)
(* through the servers by cursor, all of them, the latest versions only or *)
(* those updated since its previous visit, and keeps a copy.  The handlers *)
(* of servers.go and ListServers of postgres.go, over Registry.            *)
(***************************************************************************)
EXTENDS Registry

CONSTANTS
    Place,     \* place of (server_name, version) in the order of the query
    PageSize,  \* limit
    Modes,     \* the listings that the client makes
    NoCursor, NoTime

\* ORDER BY server_name, version: the rows of a server are together.
ASSUME ReadsAssumption ==
    /\ Place \in [Key -> Nat]
    /\ \A k1, k2 \in Key : Place[k1] = Place[k2] => k1 = k2
    /\ \A k1, k2, k3 \in Key :
           k1[1] = k3[1] /\ Place[k1] < Place[k2] /\ Place[k2] < Place[k3] => k2[1] = k1[1]
    /\ PageSize \in Nat \ {0}
    /\ Modes \subseteq {"full", "latest", "changes"}
    /\ NoCursor \notin Key
    /\ NoTime \notin Times

VARIABLES
    listing,    \* where the client is: "idle", "reading" or "done"
    mode,       \* which listing this is
    cursor,     \* nextCursor of the last page
    found,      \* the rows that this listing has returned
    copy,       \* the client's copy of the registry
    startedAt,  \* when this listing began
    watermark,  \* when the last listing that the copy includes began
    atStart     \* history: the table when this listing began

client == <<listing, mode, cursor, found, copy, startedAt, watermark, atStart>>

NoRows == [k \in Key |-> NoRow]

\* The WHERE clause: the filter of the request, then the cursor.
Matches(k) ==
    /\ servers[k] # NoRow
    /\ mode = "latest" => servers[k].isLatest
    /\ mode = "changes" => servers[k].updatedAt > watermark

\* Slip: the fallback for a malformed cursor, server_name > $n.
AfterServer(k) == cursor = NoCursor \/ (Place[k] > Place[cursor] /\ k[1] # cursor[1])

After(k) == cursor = NoCursor \/ Place[k] > Place[cursor]

\* ORDER BY server_name, version LIMIT limit.
Page ==
    LET matching == {k \in Key : Matches(k) /\ After(k)}
    IN {k \in matching : Cardinality({j \in matching : Place[j] < Place[k]}) < PageSize}

\* nextCursor: the last row of a page that is full.
NextCursor(page) ==
    IF Cardinality(page) < PageSize THEN NoCursor
    ELSE CHOOSE k \in page : \A j \in page : Place[j] <= Place[k]

Over(new, old) == [k \in Key |-> IF new[k] = NoRow THEN old[k] ELSE new[k]]

StartListing(m) ==
    /\ listing # "reading"
    /\ m = "changes" => watermark # NoTime
    /\ listing' = "reading"
    /\ mode' = m
    /\ cursor' = NoCursor
    /\ found' = NoRows
    /\ startedAt' = now
    /\ atStart' = servers
    /\ UNCHANGED <<copy, watermark, vars>>

\* One request of the listing, one query on the pool.  The listing ends with
\* the page that has no nextCursor; the copy then takes what it returned.
ListPage ==
    LET page == Page
        rows == [k \in Key |-> IF k \in page THEN servers[k] ELSE found[k]]
        last == NextCursor(page) = NoCursor
    IN /\ listing = "reading"
       /\ FreeConnection
       /\ found' = rows
       /\ cursor' = NextCursor(page)
       /\ listing' = IF last THEN "done" ELSE "reading"
       /\ IF last /\ mode # "latest"
          THEN /\ copy' = Over(rows, copy)
               /\ watermark' = startedAt
          ELSE UNCHANGED <<copy, watermark>>
       /\ UNCHANGED <<mode, startedAt, atStart, vars>>

\* A page that fails ends the listing; what it had returned is dropped.
FailListing ==
    /\ listing = "reading"
    /\ listing' = "idle"
    /\ found' = NoRows
    /\ cursor' = NoCursor
    /\ UNCHANGED <<mode, copy, startedAt, watermark, atStart, vars>>

ReadsInit ==
    /\ Init
    /\ listing = "idle"
    /\ mode = "full"
    /\ cursor = NoCursor
    /\ found = NoRows
    /\ copy = NoRows
    /\ startedAt = 0
    /\ watermark = NoTime
    /\ atStart = NoRows

ReadsNext ==
    \/ Next /\ UNCHANGED client
    \/ \E m \in Modes : StartListing(m)
    \/ ListPage
    \/ FailListing

ReadsSpec == ReadsInit /\ [][ReadsNext]_<<vars, client>>

-----------------------------------------------------------------------------
\* A listing of everything returns every row that was there when it began,
\* however many were added between its pages: the "stable results" of
\* cursor-based pagination.
ListingComplete ==
    listing = "done" /\ mode = "full" =>
        \A k \in Key : atStart[k] # NoRow => found[k] # NoRow

\* A listing with version=latest leaves out no server that had a version when
\* it began, although a publish may move the mark from a row that is ahead of
\* the cursor to one behind it.
LatestListingNamesAll ==
    listing = "done" /\ mode = "latest" =>
        \A n \in Names :
            (\E v \in Versions : atStart[<<n, v>>] # NoRow)
            => \E v \in Versions : found[<<n, v>>] # NoRow

\* After a listing of everything and then of what was updated since, the copy
\* has every row that was there when the last listing began: "efficient
\* incremental synchronization for downstream registries".
SyncMissesNothing ==
    listing = "done" /\ mode = "changes" =>
        \A k \in Key : atStart[k] # NoRow => copy[k] # NoRow
=============================================================================
