----------------------------- MODULE MCRegistry -----------------------------
(***************************************************************************)
(* Small instances of Registry for TLC.                                    *)
(***************************************************************************)
EXTENDS Registry, TLC

CONSTANTS n1, n2, semver1, semver2, build2, snapshotA, snapshotB, url1, url2,
          t1, t2, t3

\* Versions 1.0.0, 2.0.0 and 2.0.0+build, and two that are not semantic.
MCSemvers == Versions \cap {semver1, semver2, build2}
MCPrecedence == [v \in MCSemvers |-> IF v = semver1 THEN 1 ELSE 2]

\* Two readings of a replica's clock share a place of the column.
MCTimes == 0..2
MCStored == [s \in Times |-> s - (s % 2)]
ExactTime == [s \in Times |-> s]

OwnLock == [n \in Names |-> n]
OneLock == [n \in Names |-> n1]

PublishOf(n, v, remotes) ==
    [kind |-> "publish", name |-> n, version |-> v, remotes |-> remotes,
     packagesOK |-> TRUE, newStatus |-> "none"]
EditOf(n, v, remotes, ok, status) ==
    [kind |-> "edit", name |-> n, version |-> v, remotes |-> remotes,
     packagesOK |-> ok, newStatus |-> status]

\* Publishes of every version of every name, one whose packages fail.
PublishRequests ==
    {PublishOf(n, v, {}) : n \in Names, v \in Versions} \cup
    {[PublishOf(n1, v, {}) EXCEPT !.packagesOK = FALSE] : v \in Versions \cap {semver1}}

\* The same, an edit that deletes a version and one that keeps the status.
PublishAndEdit ==
    PublishRequests \cup
    {EditOf(n1, v, {}, TRUE, IF v = semver1 THEN "deleted" ELSE "none") :
        v \in Versions \cap {semver1, snapshotA}}

\* Publishes and edits, with and without a status; the packages of one version
\* may fail.
EditRequests ==
    {PublishOf(n, v, {}) : n \in Names, v \in Versions} \cup
    {EditOf(n, v, {}, ok \/ v # semver1, status) :
        n \in Names, v \in Versions, ok \in BOOLEAN, status \in {"none", "active", "deleted"}}

\* Publishes and edits of remote URLs, for slots that compete for one lock.
UrlRequests ==
    {PublishOf(n1, v, IF v = semver1 THEN Urls ELSE {url1}) : v \in Versions} \cup
    {PublishOf(n2, semver1, {url2})} \cup
    {EditOf(n2, semver1, {url1}, TRUE, "deleted")}

Slots == Permutations(Tx)
=============================================================================
