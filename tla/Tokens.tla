------------------------------- MODULE Tokens -------------------------------
(***************************************************************************)
(* The tokens of a registry: what they permit, how long they are valid,    *)
(* and which permissions each way to prove an identity obtains.            *)
(***************************************************************************)
EXTENDS Naturals

CONSTANTS
    Registries,         \* each with a signing key of its own
    Owners,             \* users and organizations of GitHub
    Domains,
    Subdomains,         \* the namespaces below each domain
    Anonymous,
    BlockedNamespaces,
    Everything,         \* stands for the namespace in the pattern "*"
    NameableOwners,     \* those whose name has letters, digits and hyphens only
    TokenDuration,      \* five minutes
    TimestampWindow,    \* fifteen seconds
    ClockSkew           \* how far the clock of a machine may be ahead

\* io.github.<owner>, the reversed name of a domain, or the anonymous one.
Namespaces == Owners \cup Domains \cup {Anonymous}

ASSUME TokensAssumption ==
    /\ Subdomains \in [Domains -> SUBSET Namespaces]
    /\ BlockedNamespaces \subseteq Namespaces
    /\ Everything \notin Namespaces
    /\ NameableOwners \subseteq Owners
    /\ TokenDuration \in Nat
    /\ TimestampWindow \in Nat
    /\ ClockSkew \in Nat

\* What the clocks of different machines may show at a time.
Clocks(time) == time..(time + ClockSkew)

-----------------------------------------------------------------------------
\* An action and one of the patterns "*", "namespace/*" and "namespace.*".
Permission == [action : {"publish", "edit"}, namespace : Namespaces \cup {Everything},
               subdomains : BOOLEAN]

Patterns == [namespace : Namespaces \cup {Everything}, subdomains : BOOLEAN]

Grant(action, p) == [action |-> action, namespace |-> p.namespace, subdomains |-> p.subdomains]

Pattern(n) == [action |-> "publish", namespace |-> n, subdomains |-> FALSE]

SubdomainPattern(n) == [action |-> "publish", namespace |-> n, subdomains |-> TRUE]

\* No pattern has a dot before its asterisk unless it is for subdomains, so a
\* prefix of the resource is a domain above it.
isResourceMatch(n, p) ==
    \/ p.namespace = Everything
    \/ /\ p.subdomains
       /\ p.namespace \in Domains
       /\ n \in Subdomains[p.namespace]
    \/ ~p.subdomains /\ n = p.namespace

\* Slip: who may publish may edit.
MatchesAnyAction(n, action, permissions) == \E p \in permissions : isResourceMatch(n, p)

HasPermission(n, action, permissions) ==
    \E p \in permissions : p.action = action /\ isResourceMatch(n, p)

\* One for the user and for each organization; none at all if one of them has
\* a name that is not allowed for.
GitHubPermissions(owners) ==
    IF owners \subseteq NameableOwners THEN {Pattern(o) : o \in owners} ELSE {}

BuildPermissions(d, includeSubdomains) ==
    {Pattern(d)} \cup
    IF includeSubdomains THEN {SubdomainPattern(d)} ELSE {}

\* Slip: a page on a web server speaks for the subdomains.
AnyMethod(method) == TRUE

\* DNS implies a hierarchy, a web server does not.
AllowSubdomains(method) == method = "dns"

\* Those of an administrator, whatever they allow to do.
HasGlobalPermissions(permissions) == \E p \in permissions : p.namespace = Everything

\* Slip: refused only if every permission is for the blocked namespace.
BlockedEntirely(permissions) ==
    \E n \in BlockedNamespaces : \A p \in permissions : isResourceMatch(n, p)

IsBlocked(permissions) ==
    /\ ~HasGlobalPermissions(permissions)
    /\ \E n \in BlockedNamespaces : HasPermission(n, "publish", permissions)

-----------------------------------------------------------------------------
\* What the holder of a token had under control when it was issued: some
\* namespaces, or the registry itself as one of its administrators.
Standing == [proved : SUBSET Namespaces, administrator : BOOLEAN]

\* issuedAt, the time of the issue, and standing are not in the token.
Token == [registry : Registries, permissions : SUBSET Permission, notBefore : Nat,
          expiresAt : Nat, issuedAt : Nat, standing : Standing]

GenerateToken(r, permissions, standing, clock, time) ==
    [registry |-> r, permissions |-> permissions, notBefore |-> clock,
     expiresAt |-> clock + TokenDuration, issuedAt |-> time, standing |-> standing]

\* Slip: the expiry is not looked at.
ValidateUnexpiring(r, token, clock) == token.registry = r /\ token.notBefore <= clock

\* The signature, the time before which it is not valid and its expiry.
ValidateToken(r, token, clock) ==
    /\ token.registry = r
    /\ token.notBefore <= clock
    /\ clock < token.expiresAt
=============================================================================
