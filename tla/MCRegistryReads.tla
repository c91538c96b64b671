-------------------------- MODULE MCRegistryReads --------------------------
(***************************************************************************)
(* Small instances of RegistryReads for TLC.                               *)
(***************************************************************************)
EXTENDS RegistryReads, TLC

CONSTANTS n1, n2, semver1, semver2, t1

MCPrecedence == [v \in Versions |-> IF v = semver1 THEN 1 ELSE 2]

\* The collation places the greater version before the lesser one, as it
\* places 10.0.0 before 9.0.0.
MCPlace == [k \in Key |-> (IF k[1] = n1 THEN 0 ELSE 2) + (IF k[2] = semver2 THEN 0 ELSE 1)]

ExactTime == [s \in Times |-> s]
OwnLock == [n \in Names |-> n]

Publishes ==
    {[kind |-> "publish", name |-> n, version |-> v, remotes |-> {},
      packagesOK |-> TRUE, newStatus |-> "none"] : n \in Names, v \in Versions}

\* One version of the second server; one version of the first is edited.
PublishesAndEdits ==
    {r \in Publishes : r.name = n1 \/ r.version = semver1} \cup
    {[kind |-> "edit", name |-> n1, version |-> semver1, remotes |-> {},
      packagesOK |-> ok, newStatus |-> status] :
        ok \in BOOLEAN, status \in Status}
=============================================================================
