---------------------------- MODULE PublisherCLI ----------------------------
(***************************************************************************)
(* mcp-publisher: the commands login, logout and publish, the files they   *)
(* share, the device flow of GitHub, the shell of an administrator, and    *)
(* the registries that exchange proofs of identity for tokens and accept   *)
(* what is published and edited with them.                                 *)
(***************************************************************************)
EXTENDS Tokens, Signatures

CONSTANTS
    Accounts,             \* the GitHub accounts of whoever uses the command
    Member,               \* the owners that each account may speak for
    OwnDomains,           \* the domains they log in for
    ActionsOwner,         \* owner of the repository whose Actions log in
    IDTokenDuration,      \* of the tokens that GitHub gives to Actions
    AnonymousRegistries,  \* those that offer anonymous tokens
    OIDCRegistries,       \* those with an OIDC provider for administrators
    OIDCPublishPerms,     \* the patterns that it grants
    OIDCEditPerms,
    GoogleAccounts,
    HostedDomain,         \* the claim hd in the ID token of each account
    RequiredDomain,       \* the value it must have
    Dirs, Home,           \* directories the command runs in, and the home
    MaxPolls,             \* polls before the device code's deadline
    MaxNow,               \* bound on the time
    None

ASSUME CLIAssumption ==
    /\ Accounts \subseteq Owners
    /\ Member \in [Accounts -> SUBSET Owners]
    /\ OwnDomains \subseteq Domains
    /\ ActionsOwner \in Owners
    /\ IDTokenDuration \in Nat
    /\ AnonymousRegistries \subseteq Registries
    /\ OIDCRegistries \subseteq Registries
    /\ OIDCPublishPerms \cup OIDCEditPerms \subseteq Patterns
    /\ MaxPolls \in Nat \ {0}
    /\ MaxNow \in Nat
    /\ None \notin Token \cup Accounts \cup Domains \cup Keys

\* Every deployment of the repository names the domain of the administrators'
\* accounts; without one, validateExtraClaims accepts everybody.
ASSUME ExtraClaimsAssumption == RequiredDomain # None

VARIABLES
    now,
    pc,             \* the step of the command that runs, or idle
    cmd,            \* its arguments, and the proof it has made
    texts,          \* what the registry has found in the DNS or on the web
    turn,           \* where the last key is that it has tried
    code,           \* the device code at GitHub
    polls,
    token,          \* the token the command has got
    githubToken,    \* file in the working directory
    registryToken,  \* file in the working directory
    saved,          \* ~/.mcp_publisher_token
    shell,          \* REGISTRY_TOKEN in the shell of an administrator
    accepted        \* what a registry has accepted in the last step

files == <<githubToken, registryToken, saved, shell>>
locals == <<cmd, texts, turn, code, polls, token>>
vars == <<now, pc, locals, files, accepted>>

Methods == {"github", "github-oidc", "dns", "http", "none"}
Signed == {"dns", "http"}

Command == [method : Methods, registry : Registries \cup {None}, dir : Dirs \cup {None},
            domain : Domains \cup {None}, provenAt : Nat, signature : Signature \cup {None}]

NoCommand == [method |-> "none", registry |-> None, dir |-> None, domain |-> None,
              provenAt |-> 0, signature |-> None]

Steps == {"idle", "login", "device", "poll", "read", "sign", "oidc", "exchange", "verify",
          "refused", "store", "save"}

TypeOK ==
    /\ now \in 0..MaxNow
    /\ pc \in Steps
    /\ cmd \in Command
    /\ texts \in TXTRecords
    /\ turn \in 0..MaxTexts
    /\ code \in Accounts \cup {"none", "pending", "refused"}
    /\ polls \in 0..MaxPolls
    /\ token \in Token \cup {None}
    /\ githubToken \in [Dirs -> Accounts \cup {None}]
    /\ registryToken \in [Dirs -> Token \cup {None}]
    /\ saved = None \/ saved \in [token : Token, registry : Registries]
    /\ shell \in Token \cup {None}
    /\ \/ accepted = None
       \/ accepted \in [action : {"publish", "edit"}, name : Namespaces,
                       registry : Registries, token : Token]

Init ==
    /\ now = 0
    /\ pc = "idle"
    /\ cmd = NoCommand
    /\ texts = << >>
    /\ turn = 0
    /\ code = "none"
    /\ polls = 0
    /\ token = None
    /\ githubToken = [d \in Dirs |-> None]
    /\ registryToken = [d \in Dirs |-> None]
    /\ saved = None
    /\ shell = None
    /\ accepted = None

Goto(from, to) ==
    /\ pc = from
    /\ pc' = to

\* A command that ends, whatever its result, forgets all but the files.
End ==
    /\ pc' = "idle"
    /\ cmd' = NoCommand
    /\ texts' = << >>
    /\ turn' = 0
    /\ code' = "none"
    /\ polls' = 0
    /\ token' = None

Fail == End /\ UNCHANGED <<now, files, accepted>>

-----------------------------------------------------------------------------
\* mcp-publisher login <method>.

FirstStep(m) ==
    CASE m = "github" -> "login"
      [] m = "github-oidc" -> "oidc"
      [] m \in Signed -> "sign"
      [] m = "none" -> "exchange"

\* Bound: a login begins when no administrator has a token; the two share nothing.
LoginCommand(m, r, dir, d) ==
    /\ shell = None
    /\ Goto("idle", FirstStep(m))
    /\ m \in Signed <=> d # None
    /\ cmd' = [NoCommand EXCEPT !.method = m, !.registry = r, !.dir = dir, !.domain = d]
    /\ accepted' = None
    /\ UNCHANGED <<now, texts, turn, code, polls, token, files>>

SaveToken(a) == githubToken' = [githubToken EXCEPT ![cmd.dir] = a]

\* A token given as an argument or in the environment replaces the device flow.
UseProvidedToken(a) ==
    /\ Goto("login", "read")
    /\ SaveToken(a)
    /\ UNCHANGED <<now, locals, registryToken, saved, shell, accepted>>

\* From the registry's health endpoint.
GetClientID ==
    /\ Goto("login", "device")
    /\ UNCHANGED <<now, locals, files, accepted>>

RequestDeviceCode ==
    /\ Goto("device", "poll")
    /\ code' = "pending"
    /\ UNCHANGED <<now, cmd, texts, turn, polls, token, files, accepted>>

\* Slip: the deadline is set again in each round.
PollWithoutDeadline ==
    /\ pc = "poll"
    /\ \/ /\ code = "pending"
          /\ UNCHANGED vars
       \/ /\ code \in Accounts
          /\ pc' = "read"
          /\ SaveToken(code)
          /\ UNCHANGED <<now, locals, registryToken, saved, shell, accepted>>
       \/ code = "refused" /\ Fail

\* Slip: the deadline is looked at after the poll is counted.
DeadlineLate == polls = MaxPolls + 1

Deadline == polls = MaxPolls

\* pollForToken; every answer other than "authorization_pending" ends it.
Poll ==
    /\ pc = "poll"
    /\ \/ Deadline /\ Fail
       \/ /\ ~Deadline /\ code = "pending"
          /\ polls' = polls + 1
          /\ UNCHANGED <<now, pc, cmd, texts, turn, code, token, files, accepted>>
       \/ /\ ~Deadline /\ code \in Accounts
          /\ pc' = "read"
          /\ SaveToken(code)
          /\ UNCHANGED <<now, locals, registryToken, saved, shell, accepted>>
       \/ ~Deadline /\ code = "refused" /\ Fail

StoredTokenValid(clock) ==
    registryToken[cmd.dir] # None /\ clock < registryToken[cmd.dir].expiresAt

\* readRegistryToken: a token that is stored and, by this machine's clock, has
\* not expired is taken, without a look at the registry; one that has is removed.
ReadRegistryToken ==
    \E clock \in Clocks(now) :
        \/ /\ Goto("read", "save")
           /\ StoredTokenValid(clock)
           /\ token' = registryToken[cmd.dir]
           /\ UNCHANGED <<now, cmd, texts, turn, code, polls, files, accepted>>
        \/ /\ Goto("read", "exchange")
           /\ ~StoredTokenValid(clock)
           /\ registryToken' = [registryToken EXCEPT ![cmd.dir] = None]
           /\ UNCHANGED <<now, locals, githubToken, saved, shell, accepted>>

\* The timestamp is this machine's, its signature the signer's.
Sign ==
    /\ Goto("sign", "exchange")
    /\ \E clock \in Clocks(now), signer \in Signers, k \in Keys :
          \E signature \in SignedTimestamps(signer, k) :
              cmd' = [cmd EXCEPT !.provenAt = clock, !.signature = signature]
    /\ UNCHANGED <<now, texts, turn, code, polls, token, files, accepted>>

\* From GitHub's endpoint, by whose clock it expires.
GetOIDCToken ==
    /\ Goto("oidc", "exchange")
    /\ \E clock \in Clocks(now) : cmd' = [cmd EXCEPT !.provenAt = clock]
    /\ UNCHANGED <<now, texts, turn, code, polls, token, files, accepted>>

-----------------------------------------------------------------------------
\* The registry's side of the exchange.

\* GenerateTokenResponse, unless the namespace is blocked. A token obtained with
\* GitHub's is stored first, for the next login. The proof is used up.
Issue(permissions, standing) ==
    \/ /\ ~IsBlocked(permissions)
       /\ pc' = IF cmd.method = "github" THEN "store" ELSE "save"
       /\ \E clock \in Clocks(now) :
              token' = GenerateToken(cmd.registry, permissions, standing, clock, now)
       /\ cmd' = [cmd EXCEPT !.provenAt = 0, !.signature = None]
       /\ texts' = << >>
       /\ turn' = 0
       /\ UNCHANGED <<now, code, polls, files, accepted>>
    \/ IsBlocked(permissions) /\ Fail

Controls(names) == [proved |-> names, administrator |-> FALSE]

\* An account speaks for itself and its organizations, those it has not left.
ExchangeGitHub ==
    /\ pc = "exchange"
    /\ cmd.method = "github"
    /\ \E owners \in SUBSET Member[githubToken[cmd.dir]] :
           /\ githubToken[cmd.dir] \in owners
           /\ Issue(GitHubPermissions(owners), Controls(owners))

\* The token is signed with one of GitHub's keys, from GitHub, for this registry,
\* for the owner of a repository, and has not expired.
IDTokenValid(clock) == clock < cmd.provenAt + IDTokenDuration

ExchangeGitHubOIDC ==
    /\ pc = "exchange"
    /\ cmd.method = "github-oidc"
    /\ \E clock \in Clocks(now) : IDTokenValid(clock)
    /\ Issue(GitHubPermissions({ActionsOwner}), Controls({ActionsOwner}))

TimestampValid(clock) ==
    /\ clock <= cmd.provenAt + TimestampWindow
    /\ cmd.provenAt <= clock + TimestampWindow

\* The window of the timestamp is looked at first, then the records are fetched.
FetchKeys ==
    /\ Goto("exchange", "verify")
    /\ cmd.method \in Signed
    /\ \E clock \in Clocks(now) : TimestampValid(clock)
    /\ texts' \in Findings(cmd.method)
    /\ cmd' = [cmd EXCEPT !.provenAt = 0]
    /\ UNCHANGED <<now, turn, code, polls, token, files, accepted>>

\* Whose key is published for a domain controls it; and who controls its DNS,
\* that of its subdomains.
Controlled(method, d) == {d} \cup IF method = "dns" THEN Subdomains[d] ELSE {}

Proved ==
    IF \E i \in DOMAIN texts : texts[i] = cmd.signature.key
    THEN Controlled(cmd.method, cmd.domain)
    ELSE {}

IssueForDomain ==
    Issue(BuildPermissions(cmd.domain, AllowSubdomains(cmd.method)), Controls(Proved))

\* The keys that the loop has before it, and the next of them.
Untried == {i \in PublicKeys(texts) : i > turn}

IsNext(i) == i \in Untried /\ \A j \in Untried : i <= j

Refuse ==
    /\ pc' = "refused"
    /\ UNCHANGED <<now, locals, files, accepted>>

TryNext(i) ==
    /\ turn' = i
    /\ UNCHANGED <<now, pc, cmd, texts, code, polls, token, files, accepted>>

\* Slip: the first key that does not fit ends the loop.
VerifySignatureWithFirst ==
    /\ pc = "verify"
    /\ \E i \in DOMAIN texts :
          /\ IsNext(i)
          /\ IF VerifySignature(texts[i], cmd.signature) THEN IssueForDomain ELSE Refuse

\* A round of the loop; one key that fits is enough.
VerifySignatureWithKeys ==
    /\ pc = "verify"
    /\ \E i \in DOMAIN texts :
          /\ IsNext(i)
          /\ IF VerifySignature(texts[i], cmd.signature) THEN IssueForDomain ELSE TryNext(i)

\* There was no key, or none has fitted.
RefuseSignature ==
    /\ pc = "verify"
    /\ Untried = {}
    /\ Refuse

\* The command ends with the registry's answer.
Refused == pc = "refused" /\ Fail

GetAnonymousToken ==
    /\ pc = "exchange"
    /\ cmd.method = "none"
    /\ cmd.registry \in AnonymousRegistries
    /\ Issue({Pattern(Anonymous)}, Controls({Anonymous}))

\* The window is over, the ID token has expired, a look-up fails, or there is no
\* endpoint of that name.
ExchangeRefused ==
    /\ pc = "exchange"
    /\ cmd.method = "none" => cmd.registry \notin AnonymousRegistries
    /\ Fail

\* saveRegistryToken, for the next login.
StoreRegistryToken ==
    /\ Goto("store", "save")
    /\ registryToken' = [registryToken EXCEPT ![cmd.dir] = token]
    /\ UNCHANGED <<now, locals, githubToken, saved, shell, accepted>>

\* The login has succeeded.
Save ==
    /\ pc = "save"
    /\ saved' = [token |-> token, registry |-> cmd.registry]
    /\ End
    /\ UNCHANGED <<now, githubToken, registryToken, shell, accepted>>

\* A request fails, an answer is lost, or the user interrupts the command. Nobody
\* gets what a registry finds out then, and it keeps nothing.
Interrupt == pc # "idle" /\ Fail

-----------------------------------------------------------------------------
\* mcp-publisher logout: the other files are removed from the home directory.
LogoutCommand ==
    /\ pc = "idle"
    /\ saved # None
    /\ saved' = None
    /\ githubToken' = [d \in Dirs |-> IF d = Home THEN None ELSE githubToken[d]]
    /\ registryToken' = [d \in Dirs |-> IF d = Home THEN None ELSE registryToken[d]]
    /\ accepted' = None
    /\ UNCHANGED <<now, pc, locals, shell>>

\* The handlers of publish and edit validate the token and look for the permission.
Authorized(t, r, action, n) ==
    /\ \E clock \in Clocks(now) : ValidateToken(r, t, clock)
    /\ HasPermission(n, action, t.permissions)

\* Bound: nothing is sent while a login runs, which changes no file before its end.
Accept(t, r, action, n) ==
    /\ pc = "idle"
    /\ Authorized(t, r, action, n)
    /\ accepted' = [action |-> action, name |-> n, registry |-> r, token |-> t]
    /\ UNCHANGED <<now, pc, locals, files>>

\* mcp-publisher publish: at the registry that is saved.
PublishCommand(n) ==
    /\ saved # None
    /\ Accept(saved.token, saved.registry, "publish", n)

-----------------------------------------------------------------------------
\* Administrators: tools/admin/auth.sh, and requests made by hand.

\* All claims that the configuration names, if it names any.
validateExtraClaims(a) == RequiredDomain = None \/ HostedDomain[a] = RequiredDomain

OIDCPermissions ==
    {Grant("publish", p) : p \in OIDCPublishPerms} \cup {Grant("edit", p) : p \in OIDCEditPerms}

\* The ID token of a Google account for a token of the registry, whose
\* permissions are those of its configuration.
ExchangeOIDC(a, r) ==
    /\ pc = "idle"
    /\ r \in OIDCRegistries
    /\ validateExtraClaims(a)
    /\ ~IsBlocked(OIDCPermissions)
    /\ \E clock \in Clocks(now) :
           shell' = GenerateToken(r, OIDCPermissions,
                       [proved |-> {}, administrator |-> HostedDomain[a] = RequiredDomain],
                       clock, now)
    /\ accepted' = None
    /\ UNCHANGED <<now, pc, locals, githubToken, registryToken, saved>>

CloseShell ==
    /\ shell # None
    /\ shell' = None
    /\ accepted' = None
    /\ UNCHANGED <<now, pc, locals, githubToken, registryToken, saved>>

\* Whoever has a token may send it to any registry, and not only with publish.
Curl(t, r, action, n) ==
    /\ t # None
    /\ Accept(t, r, action, n)

-----------------------------------------------------------------------------
\* What happens around the command.

Authorize(a) ==
    /\ code = "pending"
    /\ code' \in {a, "refused"}
    /\ UNCHANGED <<now, pc, cmd, texts, turn, polls, token, files, accepted>>

Tick ==
    /\ now < MaxNow
    /\ now' = now + 1
    /\ accepted' = None
    /\ UNCHANGED <<pc, locals, files>>

LoginStep ==
    \/ \E a \in Accounts : UseProvidedToken(a)
    \/ GetClientID \/ RequestDeviceCode \/ Poll \/ ReadRegistryToken \/ Sign \/ GetOIDCToken
    \/ ExchangeGitHub \/ ExchangeGitHubOIDC \/ FetchKeys
    \/ VerifySignatureWithKeys \/ RefuseSignature \/ Refused
    \/ GetAnonymousToken \/ ExchangeRefused
    \/ StoreRegistryToken \/ Save

Next ==
    \/ \E m \in Methods, r \in Registries, dir \in Dirs, d \in OwnDomains \cup {None} :
           LoginCommand(m, r, dir, d)
    \/ LoginStep
    \/ Interrupt
    \/ LogoutCommand
    \/ \E n \in Namespaces : PublishCommand(n)
    \/ \E a \in GoogleAccounts, r \in Registries : ExchangeOIDC(a, r)
    \/ CloseShell
    \/ \E r \in Registries, action \in {"publish", "edit"}, n \in Namespaces :
           \/ Curl(shell, r, action, n)
           \/ saved # None /\ Curl(saved.token, r, action, n)
    \/ \E a \in Accounts : Authorize(a)
    \/ Tick

\* A request is answered or fails, and a poll follows the one before it.
Spec == Init /\ [][Next]_vars /\ WF_vars(LoginStep)

-----------------------------------------------------------------------------
\* What is published is in a namespace that was under the control of whoever
\* logged in, or by an administrator, and at the registry that issued the token.
PublishedInScope ==
    accepted # None /\ accepted.action = "publish" =>
        /\ \/ accepted.name \in accepted.token.standing.proved
           \/ accepted.token.standing.administrator
        /\ accepted.token.registry = accepted.registry

\* Edits, which may delete a server, are for administrators only.
EditedByAdministrator ==
    accepted # None /\ accepted.action = "edit" =>
        accepted.token.standing.administrator /\ accepted.token.registry = accepted.registry

\* Who has lost control publishes and edits no longer than a token lasts, although
\* the registry's machines, this one and that which issued it differ in their time.
AcceptedSoon ==
    accepted # None =>
        now < accepted.token.issuedAt + TokenDuration + ClockSkew

\* Nobody publishes in a blocked namespace, whatever else a token permits, except
\* an administrator.
BlockedNeverPublished ==
    accepted # None /\ accepted.name \in BlockedNamespaces =>
        accepted.token.standing.administrator

\* Whom the registry refuses for the signature has sent one that is not full, or with
\* a key that was nowhere among what it has found, whatever stood before and after:
\* old keys, keys again, records that are not well formed, other texts.
FoundKeySuffices ==
    pc = "refused" /\ cmd.signature.full =>
        \A i \in DOMAIN texts : texts[i] # cmd.signature.key

\* A login comes to its end, though the user may never authorize it.
LoginEnds == (pc # "idle") ~> (pc = "idle")
=============================================================================
