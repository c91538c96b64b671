--------------------------- MODULE MCRegistryBoot ---------------------------
(***************************************************************************)
(* Small instances of RegistryBoot for TLC.                                *)
(***************************************************************************)
EXTENDS RegistryBoot, TLC

CONSTANTS n1, semver1, semver2, r1, r2, i1, i2, c1

MCPrecedence == [v \in Versions |-> IF v = semver1 THEN 1 ELSE 2]
MCImporter == [r \in Replicas |-> IF r = r1 THEN i1 ELSE i2]
\* Both times are the same once they are stored.
CoarseTime == [s \in Times |-> 0]
OwnLock == [n \in Names |-> n]

PublishOf(v) ==
    [kind |-> "publish", name |-> n1, version |-> v, remotes |-> {},
     packagesOK |-> TRUE, newStatus |-> "none"]
Publishes == {PublishOf(v) : v \in Versions}

TwoRecords == <<PublishOf(semver1), PublishOf(semver2)>>
=============================================================================
