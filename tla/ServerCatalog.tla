--------------------------- MODULE ServerCatalog ---------------------------
(***************************************************************************)
(* What the registry promises of its table of servers: publishes and edits *)
(* are atomic.  A publish adds a version that was not there, under the     *)
(* limit, and takes over "latest" exactly when it is greater than the      *)
(* latest version at that moment.  An edit changes the value and perhaps   *)
(* the status of one row, and nothing else of the table.  There is no lock,*)
(* no transaction and no request here.                                     *)
(***************************************************************************)
EXTENDS Versioning, FiniteSets

CONSTANTS Names, Urls, Times, Stored, MaxServerVersions, NoRow

VARIABLE servers

Key == Names \X Versions

Published(n) == {v \in Versions : servers[<<n, v>>] # NoRow}

\* Version v, published at time s, is greater than the latest version of n.
TakesOver(n, v, s) ==
    \A w \in Published(n) :
        servers[<<n, w>>].isLatest =>
            CompareVersions(v, w, s, servers[<<n, w>>].publishedAt) > 0

Init == servers = [k \in Key |-> NoRow]

NewRow(n, v, s, remotes) ==
    [status |-> "active", publishedAt |-> Stored[s], updatedAt |-> Stored[s],
     isLatest |-> TakesOver(n, v, s), remotes |-> remotes, packagesOK |-> TRUE]

\* The table with a new row, which takes the mark from the others if it has it.
Inserted(n, v, row) ==
    [k \in Key |->
        IF k = <<n, v>> THEN row
        ELSE IF row.isLatest /\ k[1] = n /\ servers[k] # NoRow
        THEN [servers[k] EXCEPT !.isLatest = FALSE]
        ELSE servers[k]]

Publish(n, v) ==
    /\ v \notin Published(n)
    /\ Cardinality(Published(n)) < MaxServerVersions
    /\ \E s \in Times, remotes \in SUBSET Urls :
          servers' = Inserted(n, v, NewRow(n, v, s, remotes))

Edit(n, v) ==
    /\ v \in Published(n)
    /\ \E status \in {servers[<<n, v>>].status, "active", "deprecated", "deleted"},
          remotes \in SUBSET Urls, packagesOK \in BOOLEAN, s \in Times :
         servers' = [servers EXCEPT ![<<n, v>>] =
            [@ EXCEPT !.status = status, !.remotes = remotes,
                      !.packagesOK = packagesOK, !.updatedAt = Stored[s]]]

Next == \E n \in Names, v \in Versions : Publish(n, v) \/ Edit(n, v)

Spec == Init /\ [][Next]_servers
=============================================================================
