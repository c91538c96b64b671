--------------------------- MODULE MCPublisherCLI ---------------------------
(***************************************************************************)
(* A small instance of PublisherCLI for TLC.                               *)
(***************************************************************************)
EXTENDS PublisherCLI

CONSTANTS official, local, bob, spammers, example, api, home, project,
          edKey, ecKey, moderator, outsider, staff

MCSubdomains == [d \in Domains |-> IF d = example THEN {api} \cap Domains ELSE {}]

\* Bob is a member of an organization that is blocked.
MCMember == [a \in Accounts |-> IF a = bob THEN {bob, spammers} ELSE {a}]

MCAlgorithm == [k \in Keys |-> IF k = edKey THEN "ed25519" ELSE "ecdsap384"]

\* As in deploy/pkg/k8s/registry.go.
MCOIDCPerms == {[namespace |-> Everything, subdomains |-> FALSE]}

MCHostedDomain == [a \in GoogleAccounts |-> IF a = moderator THEN staff ELSE None]
=============================================================================
