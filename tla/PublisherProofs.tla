-------------------------- MODULE PublisherProofs --------------------------
(***************************************************************************)
(* Proofs about mcp-publisher and the tokens of a registry: whatever the   *)
(* clocks show, and whichever commands are interrupted, what a registry    *)
(* accepts is in scope, soon enough, and not in a blocked namespace unless *)
(* an administrator sends it; and no key that a registry has found is      *)
(* passed over.                                                            *)
(***************************************************************************)
EXTENDS PublisherCLI, TLAPS

\* A token permits no more than its holder had proved, nothing that is
\* blocked and no edits, unless that is an administrator, and expires when it
\* should by some machine's clock.
Sound(t) ==
    /\ ~t.standing.administrator =>
           \A n \in Namespaces :
               /\ HasPermission(n, "publish", t.permissions) =>
                      n \in t.standing.proved \ BlockedNamespaces
               /\ ~HasPermission(n, "edit", t.permissions)
    /\ t.expiresAt <= t.issuedAt + TokenDuration + ClockSkew

TokensSound ==
    /\ token # None => Sound(token)
    /\ \A d \in Dirs : registryToken[d] # None => Sound(registryToken[d])
    /\ saved # None => Sound(saved.token)
    /\ shell # None => Sound(shell)

\* What the last step has accepted was allowed by a token still valid.
AcceptedWithToken ==
    accepted # None =>
        /\ Sound(accepted.token)
        /\ HasPermission(accepted.name, accepted.action, accepted.token.permissions)
        /\ accepted.token.registry = accepted.registry
        /\ now < accepted.token.expiresAt

\* The arguments of the command that runs, and what it has got so far.
Running ==
    /\ pc # "idle" => cmd.registry \in Registries /\ cmd.dir \in Dirs
    /\ pc # "idle" /\ cmd.method \in Signed => cmd.domain \in Domains
    /\ pc = "sign" => cmd.method # "github"
    /\ pc = "oidc" => cmd.method = "github-oidc"
    /\ pc = "read" \/ (pc = "exchange" /\ cmd.method = "github") =>
           githubToken[cmd.dir] \in Accounts
    /\ pc \in {"login", "device", "poll", "read"} => cmd.method = "github"
    /\ pc = "exchange" /\ cmd.method \in Signed => cmd.signature \in Signature
    /\ pc \in {"verify", "refused"} => cmd.method \in Signed /\ cmd.signature \in Signature
    /\ pc \in {"store", "save"} => token \in Token

Inv == TypeOK /\ TokensSound /\ AcceptedWithToken /\ Running

-----------------------------------------------------------------------------
\* Permissions to publish, and only in the namespaces that were proved.
Covered(permissions, proved) ==
    /\ proved \in SUBSET Namespaces
    /\ permissions \in SUBSET Permission
    /\ \A p \in permissions : p.action = "publish" /\ p.namespace \in Namespaces
    /\ \A n \in Namespaces : HasPermission(n, "publish", permissions) => n \in proved

\* What a pattern of the exact namespace permits.
LEMMA PatternScope ==
    ASSUME NEW o \in Namespaces
    PROVE  /\ Pattern(o) \in Permission
           /\ Pattern(o).action = "publish" /\ Pattern(o).namespace = o
           /\ \A n \in Namespaces : isResourceMatch(n, Pattern(o)) => n = o
BY TokensAssumption DEF Permission, Pattern, isResourceMatch

\* The token of a GitHub account is for the namespaces of its owners only.
LEMMA GitHubScope ==
    ASSUME NEW owners \in SUBSET Owners
    PROVE  Covered(GitHubPermissions(owners), owners)
<1>1. GitHubPermissions(owners) \subseteq {Pattern(o) : o \in owners}
  BY DEF GitHubPermissions
<1>2. \A o \in owners : o \in Namespaces
  BY DEF Namespaces
<1> QED BY <1>1, <1>2, PatternScope DEF Covered, HasPermission

\* A signature obtains what the owner of the domain controls: with DNS the
\* subdomains too.
LEMMA DomainScope ==
    ASSUME NEW d \in Domains, NEW method
    PROVE  Covered(BuildPermissions(d, AllowSubdomains(method)), Controlled(method, d))
<1> DEFINE permissions == BuildPermissions(d, AllowSubdomains(method))
<1> DEFINE below == SubdomainPattern(d)
<1>1. d \in Namespaces /\ d # Everything
  BY TokensAssumption DEF Namespaces
<1>2. below \in Permission /\ below.action = "publish" /\ below.namespace = d
  BY <1>1 DEF Permission, SubdomainPattern
<1>3. below # Pattern(d)
  BY DEF Pattern, SubdomainPattern
<1>4. permissions \subseteq {Pattern(d), below}
  BY DEF BuildPermissions
<1>5. below \in permissions => method = "dns"
  BY <1>3 DEF BuildPermissions, AllowSubdomains
<1>6. Subdomains[d] \subseteq Namespaces
  BY TokensAssumption
<1>7. \A n : isResourceMatch(n, below) => n \in Subdomains[d]
  BY <1>1 DEF isResourceMatch, SubdomainPattern
<1>8. Controlled(method, d) \in SUBSET Namespaces
  BY <1>1, <1>6 DEF Controlled
<1>9. ASSUME NEW n \in Namespaces, HasPermission(n, "publish", permissions)
      PROVE  n \in Controlled(method, d)
  <2>1. PICK p \in permissions : isResourceMatch(n, p)
    BY <1>9 DEF HasPermission
  <2>2. CASE p = Pattern(d)
    BY <1>1, <2>1, <2>2, PatternScope DEF Controlled
  <2>3. CASE p = below
    BY <1>5, <1>7, <2>1, <2>3 DEF Controlled
  <2> QED BY <1>4, <2>1, <2>2, <2>3
<1>10. \A p \in permissions : p \in Permission /\ p.action = "publish" /\ p.namespace \in Namespaces
  <2>1. Pattern(d) \in Permission /\ Pattern(d).action = "publish" /\ Pattern(d).namespace = d
    BY <1>1, PatternScope
  <2> HIDE DEF permissions
  <2> QED BY <1>1, <1>2, <1>4, <2>1
<1> QED BY <1>8, <1>9, <1>10 DEF Covered

LEMMA AnonymousScope == Covered({Pattern(Anonymous)}, {Anonymous})
<1>1. Anonymous \in Namespaces
  BY DEF Namespaces
<1> QED BY <1>1, PatternScope DEF Covered, HasPermission

\* What the registry issues is a token, and sound, if the permissions are.
LEMMA IssuedSound ==
    ASSUME NEW permissions \in SUBSET Permission, NEW standing \in Standing,
           NEW r \in Registries, NEW time \in Nat, NEW clock \in Clocks(time),
           ~IsBlocked(permissions),
           standing.administrator \/ Covered(permissions, standing.proved)
    PROVE  /\ GenerateToken(r, permissions, standing, clock, time) \in Token
           /\ Sound(GenerateToken(r, permissions, standing, clock, time))
<1>1. clock \in Nat /\ clock <= time + ClockSkew
  BY TokensAssumption DEF Clocks
<1>2. clock + TokenDuration \in Nat /\ clock + TokenDuration <= time + TokenDuration + ClockSkew
  BY <1>1, TokensAssumption
<1>3. GenerateToken(r, permissions, standing, clock, time) \in Token
  BY <1>1, <1>2 DEF GenerateToken, Token
<1>4. ASSUME ~standing.administrator, NEW n \in Namespaces
      PROVE  /\ HasPermission(n, "publish", permissions) => n \in standing.proved \ BlockedNamespaces
             /\ ~HasPermission(n, "edit", permissions)
  <2>1. ~HasGlobalPermissions(permissions)
    BY <1>4, TokensAssumption DEF Covered, HasGlobalPermissions
  <2>2. n \in BlockedNamespaces => ~HasPermission(n, "publish", permissions)
    BY <2>1 DEF IsBlocked
  <2>3. ~HasPermission(n, "edit", permissions)
    BY <1>4 DEF Covered, HasPermission
  <2> QED BY <1>4, <2>2, <2>3 DEF Covered
<1>5. Sound(GenerateToken(r, permissions, standing, clock, time))
  BY <1>2, <1>4 DEF GenerateToken, Sound
<1> QED BY <1>3, <1>5

-----------------------------------------------------------------------------
\* What a look-up finds has its places from 1 on.
LEMMA TextPlaces ==
    /\ << >> \in TXTRecords
    /\ Page \subseteq TXTRecords
    /\ \A found \in TXTRecords : DOMAIN found \subseteq 1..MaxTexts
<1>1. << >> \in [1..0 -> Texts]
  OBVIOUS
<1>2. 0 \in 0..MaxTexts /\ 1 \in 0..MaxTexts
  BY SignaturesAssumption
<1>3. << >> \in TXTRecords /\ Page \subseteq TXTRecords
  BY <1>1, <1>2 DEF TXTRecords, Page
<1>4. ASSUME NEW found \in TXTRecords PROVE DOMAIN found \subseteq 1..MaxTexts
  <2>1. PICK n \in 0..MaxTexts : found \in [1..n -> Texts]
    BY DEF TXTRecords
  <2>2. DOMAIN found = 1..n
    BY <2>1
  <2> QED BY <2>2, SignaturesAssumption
<1> QED BY <1>3, <1>4

\* A command that ends leaves nothing behind but the files.
LEMMA FailStep ==
    ASSUME Inv, Fail PROVE Inv'
<1> USE DEF Inv
<1>1. TypeOK'
  BY CLIAssumption, SignaturesAssumption, TextPlaces
  DEF TypeOK, Fail, End, files, NoCommand, Command, Steps, Methods
<1>2. TokensSound'
  BY DEF TokensSound, Fail, End, files, Sound
<1>3. AcceptedWithToken'
  BY DEF AcceptedWithToken, Fail, End, files, Sound
<1>4. Running'
  BY DEF Running, Fail, End
<1> QED BY <1>1, <1>2, <1>3, <1>4

LEMMA IssueStep ==
    ASSUME Inv, pc \in {"exchange", "verify"},
           NEW permissions, NEW proved, Covered(permissions, proved),
           Issue(permissions, Controls(proved))
    PROVE  Inv'
<1> USE DEF Inv
<1>1. CASE IsBlocked(permissions) /\ Fail
  BY <1>1, FailStep
<1>2. CASE ~IsBlocked(permissions)
  <2>1. PICK clock \in Clocks(now) : token' = GenerateToken(cmd.registry, permissions, Controls(proved), clock, now)
    BY <1>2 DEF Issue, Fail
  <2>2. /\ pc' \in {"store", "save"}
        /\ cmd' = [cmd EXCEPT !.provenAt = 0, !.signature = None]
        /\ texts' = << >> /\ turn' = 0
        /\ UNCHANGED <<now, code, polls, files, accepted>>
    BY <1>2 DEF Issue
  <2>3. cmd.registry \in Registries /\ now \in Nat
    BY CLIAssumption DEF Running, TypeOK
  <2>4. token' \in Token /\ Sound(token')
    <3>1. Controls(proved) \in Standing /\ Controls(proved).proved = proved
      BY DEF Controls, Standing, Covered
    <3>2. permissions \in SUBSET Permission
      BY DEF Covered
    <3> QED BY <1>2, <2>1, <2>3, <3>1, <3>2, IssuedSound
  <2>5. TypeOK'
    <3>1. token' \in Token \cup {None} /\ pc' \in Steps
      BY <2>2, <2>4 DEF Steps
    <3>2. UNCHANGED <<now, code, polls, githubToken, registryToken, saved, shell, accepted>>
      BY <2>2 DEF files
    <3>3. cmd' \in Command
      BY <2>2 DEF TypeOK, Command
    <3>4. texts' \in TXTRecords /\ turn' \in 0..MaxTexts
      BY <2>2, SignaturesAssumption, TextPlaces
    <3> QED BY <3>1, <3>2, <3>3, <3>4 DEF TypeOK
  <2>6. TokensSound'
    BY <2>2, <2>4 DEF TokensSound, files, Sound
  <2>7. AcceptedWithToken'
    BY <2>2 DEF AcceptedWithToken, Sound
  <2>8. Running'
    <3>1. UNCHANGED <<cmd.method, cmd.registry, cmd.dir, cmd.domain>>
      BY <2>2 DEF TypeOK, Command
    <3> QED BY <2>2, <2>4, <3>1 DEF Running
  <2> QED BY <2>5, <2>6, <2>7, <2>8
<1> QED BY <1>1, <1>2 DEF Issue

-----------------------------------------------------------------------------
LEMMA InitInv == Init => Inv
BY TokensAssumption, CLIAssumption, SignaturesAssumption, TextPlaces
   DEF Init, Inv, TypeOK, TokensSound, AcceptedWithToken, Running, NoCommand, Command, Steps, Methods

LEMMA LoginCommandInv ==
    ASSUME Inv, NEW m \in Methods, NEW r \in Registries, NEW dir \in Dirs,
           NEW d \in OwnDomains \cup {None}, LoginCommand(m, r, dir, d)
    PROVE  Inv'
<1> USE DEF Inv, LoginCommand
<1>1. FirstStep(m) \in {"login", "oidc", "sign", "exchange"}
  BY DEF FirstStep, Methods, Signed
<1>2. /\ FirstStep(m) = "sign" => m # "github"
      /\ FirstStep(m) = "oidc" => m = "github-oidc"
      /\ FirstStep(m) = "login" => m = "github"
      /\ FirstStep(m) = "exchange" => m = "none"
  BY DEF FirstStep, Methods, Signed
<1>3. /\ cmd' = [method |-> m, registry |-> r, dir |-> dir, domain |-> d,
                  provenAt |-> 0, signature |-> None]
      /\ pc' = FirstStep(m)
  BY DEF NoCommand, Goto
<1>4. /\ m \in Signed => d \in Domains
      /\ d \in Domains \cup {None}
      /\ "none" \notin Signed
  BY CLIAssumption DEF Signed
<1>5. TypeOK'
  BY <1>1, <1>3, <1>4 DEF TypeOK, Command, files, Steps
<1>6. TokensSound'
  BY DEF TokensSound, files, Sound
<1>7. AcceptedWithToken'
  BY DEF AcceptedWithToken
<1>8. Running'
  BY <1>1, <1>2, <1>3, <1>4 DEF Running
<1> QED BY <1>5, <1>6, <1>7, <1>8

\* A step of a login that has obtained GitHub's token.
LEMMA ReadInv ==
    ASSUME Inv, NEW a \in Accounts, pc \in {"login", "poll"}, pc' = "read", SaveToken(a),
           UNCHANGED <<now, locals, registryToken, saved, shell, accepted>>
    PROVE  Inv'
<1> USE DEF Inv, SaveToken, locals
<1>1. cmd.dir \in Dirs
  BY DEF Running
<1>2. githubToken' \in [Dirs -> Accounts \cup {None}] /\ githubToken'[cmd.dir] = a
  BY <1>1 DEF TypeOK
<1>3. TypeOK'
  BY <1>2 DEF TypeOK, Steps
<1>4. TokensSound'
  BY DEF TokensSound, Sound
<1>5. AcceptedWithToken'
  BY DEF AcceptedWithToken, Sound
<1>6. Running'
  BY <1>2 DEF Running
<1> QED BY <1>3, <1>4, <1>5, <1>6

LEMMA PollInv == ASSUME Inv, Poll PROVE Inv'
<1> USE DEF Inv
<1>1. CASE Fail
  BY <1>1, FailStep
<1>2. CASE /\ ~Deadline /\ code = "pending"
           /\ polls' = polls + 1
           /\ UNCHANGED <<now, pc, cmd, texts, turn, code, token, files, accepted>>
  <2>1. polls' \in 0..MaxPolls
    BY <1>2, CLIAssumption DEF Deadline, TypeOK
  <2>2. TypeOK'
    BY <1>2, <2>1 DEF TypeOK, files
  <2>3. TokensSound' /\ AcceptedWithToken'
    BY <1>2 DEF TokensSound, AcceptedWithToken, files, Sound
  <2>4. Running'
    BY <1>2 DEF Running, files
  <2> QED BY <2>2, <2>3, <2>4
<1>3. CASE /\ code \in Accounts
           /\ pc' = "read"
           /\ SaveToken(code)
           /\ UNCHANGED <<now, locals, registryToken, saved, shell, accepted>>
  BY <1>3, ReadInv DEF Poll
<1> QED BY <1>1, <1>2, <1>3 DEF Poll

LEMMA ReadRegistryTokenInv == ASSUME Inv, ReadRegistryToken PROVE Inv'
<1> USE DEF Inv
<1>1. pc = "read" /\ githubToken[cmd.dir] \in Accounts /\ cmd.dir \in Dirs
  BY DEF ReadRegistryToken, Goto, Running
<1>2. CASE /\ pc' = "save"
           /\ registryToken[cmd.dir] # None
           /\ token' = registryToken[cmd.dir]
           /\ UNCHANGED <<now, cmd, texts, turn, code, polls, files, accepted>>
  <2>1. token' \in Token /\ Sound(token')
    BY <1>1, <1>2 DEF TypeOK, TokensSound
  <2>2. TypeOK'
    <3>1. token' \in Token \cup {None} /\ pc' \in Steps
      BY <1>2, <2>1 DEF Steps
    <3>2. UNCHANGED <<now, cmd, texts, turn, code, polls, githubToken, registryToken, saved, shell, accepted>>
      BY <1>2 DEF files
    <3> QED BY <3>1, <3>2 DEF TypeOK
  <2>3. TokensSound'
    BY <1>2, <2>1 DEF TokensSound, files, Sound
  <2>4. AcceptedWithToken'
    BY <1>2 DEF AcceptedWithToken, Sound
  <2>5. Running'
    BY <1>1, <1>2, <2>1 DEF Running
  <2> QED BY <2>2, <2>3, <2>4, <2>5
<1>3. CASE /\ pc' = "exchange"
           /\ registryToken' = [registryToken EXCEPT ![cmd.dir] = None]
           /\ UNCHANGED <<now, locals, githubToken, saved, shell, accepted>>
  <2>1. registryToken' \in [Dirs -> Token \cup {None}]
    BY <1>3 DEF TypeOK
  <2>2. TypeOK'
    BY <1>3, <2>1 DEF TypeOK, locals, Steps
  <2>3. TokensSound'
    BY <1>1, <1>3 DEF TokensSound, TypeOK, locals, Sound
  <2>4. AcceptedWithToken'
    BY <1>3 DEF AcceptedWithToken, Sound
  <2>5. Running'
    BY <1>1, <1>3 DEF Running, locals, Signed
  <2> QED BY <2>2, <2>3, <2>4, <2>5
<1> QED BY <1>2, <1>3 DEF ReadRegistryToken, StoredTokenValid, Goto

\* The exchanges: each obtains no more than what it has looked up.
LEMMA ExchangeInv ==
    ASSUME Inv, ExchangeGitHub \/ ExchangeGitHubOIDC \/ VerifySignatureWithKeys \/ GetAnonymousToken
    PROVE  Inv'
<1> USE DEF Inv
<1>1. CASE ExchangeGitHub
  <2>1. githubToken[cmd.dir] \in Accounts
    BY <1>1 DEF ExchangeGitHub, Running
  <2>2. Member[githubToken[cmd.dir]] \subseteq Owners
    BY <2>1, CLIAssumption
  <2>3. PICK owners \in SUBSET Member[githubToken[cmd.dir]] :
            Issue(GitHubPermissions(owners), Controls(owners))
    BY <1>1 DEF ExchangeGitHub
  <2>4. owners \in SUBSET Owners
    BY <2>2
  <2> QED BY <1>1, <2>3, <2>4, GitHubScope, IssueStep DEF ExchangeGitHub
<1>2. CASE ExchangeGitHubOIDC
  <2>1. {ActionsOwner} \in SUBSET Owners
    BY CLIAssumption
  <2> QED BY <1>2, <2>1, GitHubScope, IssueStep DEF ExchangeGitHubOIDC
<1>3. CASE VerifySignatureWithKeys
  <2>1. pc = "verify" /\ cmd.domain \in Domains
    BY <1>3 DEF VerifySignatureWithKeys, Running
  <2>2. PICK i \in DOMAIN texts :
          IF VerifySignature(texts[i], cmd.signature) THEN IssueForDomain ELSE TryNext(i)
    BY <1>3 DEF VerifySignatureWithKeys
  <2>3. CASE VerifySignature(texts[i], cmd.signature)
    <3>1. Proved = Controlled(cmd.method, cmd.domain)
      BY <2>3 DEF Proved, VerifySignature
    <3>2. Covered(BuildPermissions(cmd.domain, AllowSubdomains(cmd.method)), Proved)
      BY <2>1, <3>1, DomainScope
    <3> QED BY <2>1, <2>2, <2>3, <3>2, IssueStep DEF IssueForDomain
  <2>4. CASE ~VerifySignature(texts[i], cmd.signature)
    <3>1. turn' = i /\ UNCHANGED <<now, pc, cmd, texts, code, polls, token, files, accepted>>
      BY <2>2, <2>4 DEF TryNext
    <3>2. turn' \in 0..MaxTexts
      BY <3>1, SignaturesAssumption, TextPlaces DEF TypeOK
    <3>3. TypeOK'
      BY <3>1, <3>2 DEF TypeOK, files
    <3>4. TokensSound' /\ AcceptedWithToken' /\ Running'
      BY <3>1 DEF TokensSound, AcceptedWithToken, Running, files, Sound
    <3> QED BY <3>3, <3>4
  <2> QED BY <2>3, <2>4
<1>4. CASE GetAnonymousToken
  BY <1>4, AnonymousScope, IssueStep DEF GetAnonymousToken
<1> QED BY <1>1, <1>2, <1>3, <1>4

\* A signature is one, whoever makes it.
LEMMA SignedSound ==
    ASSUME NEW signer \in Signers, NEW k \in Keys
    PROVE  SignedTimestamps(signer, k) \subseteq Signature
<1>1. Full(k) \in Signature /\ [key |-> k, full |-> FALSE] \in Signature
  BY DEF Full, Signature
<1>2. CASE signer = "in-process"
  BY <1>1, <1>2 DEF SignedTimestamps, InProcess
<1>3. CASE signer = "google-kms"
  BY <1>1, <1>3 DEF SignedTimestamps, GoogleKMS
<1>4. CASE signer = "azure-key-vault"
  BY <1>1, <1>4 DEF SignedTimestamps, AzureKeyVault
<1> QED BY <1>2, <1>3, <1>4 DEF Signers

\* The other steps of a login.
LEMMA LoginStepInv == ASSUME Inv, LoginStep PROVE Inv'
<1> USE DEF Inv
<1>1. CASE \E a \in Accounts : UseProvidedToken(a)
  BY <1>1, ReadInv DEF UseProvidedToken, Goto
<1>2. CASE RequestDeviceCode
  <2>1. TypeOK'
    BY <1>2 DEF RequestDeviceCode, Goto, TypeOK, files, Steps
  <2>2. TokensSound' /\ AcceptedWithToken'
    BY <1>2 DEF RequestDeviceCode, TokensSound, AcceptedWithToken, files, Sound
  <2>3. Running'
    BY <1>2 DEF RequestDeviceCode, Goto, Running, files
  <2> QED BY <2>1, <2>2, <2>3
<1>3. CASE Poll
  BY <1>3, PollInv
<1>4. CASE ReadRegistryToken
  BY <1>4, ReadRegistryTokenInv
<1>5. CASE Sign \/ GetOIDCToken \/ FetchKeys
  <2>1. /\ cmd' \in Command
        /\ UNCHANGED <<cmd.method, cmd.registry, cmd.dir, cmd.domain>>
    <3>1. Clocks(now) \subseteq Nat /\ cmd \in Command
      BY TokensAssumption, CLIAssumption DEF Clocks, TypeOK
    <3>2. CASE Sign
      BY <3>1, <3>2, SignedSound DEF Sign, Command
    <3>3. CASE GetOIDCToken
      BY <3>1, <3>3 DEF GetOIDCToken, Command
    <3>4. CASE FetchKeys
      BY <3>1, <3>4 DEF FetchKeys, Command
    <3> QED BY <1>5, <3>2, <3>3, <3>4
  <2>2. IF Sign THEN cmd'.signature \in Signature ELSE cmd'.signature = cmd.signature
    <3>1. cmd \in Command
      BY DEF TypeOK
    <3> QED BY <1>5, <3>1, SignedSound DEF Sign, GetOIDCToken, FetchKeys, Command
  <2>3. /\ UNCHANGED <<now, turn, code, polls, token, files, accepted>>
        /\ texts' = texts \/ texts' \in Findings(cmd.method)
        /\ \/ Sign /\ pc = "sign" /\ pc' = "exchange"
           \/ pc = "oidc" /\ pc' = "exchange"
           \/ ~Sign /\ pc = "exchange" /\ pc' = "verify" /\ cmd.method \in Signed
    BY <1>5 DEF Sign, GetOIDCToken, FetchKeys, Goto
  <2>4. TypeOK'
    <3>1. texts' \in TXTRecords
      BY <2>3, TextPlaces DEF TypeOK, Findings
    <3> QED BY <2>1, <2>3, <3>1 DEF TypeOK, files, Steps
  <2>5. TokensSound' /\ AcceptedWithToken'
    BY <2>3 DEF TokensSound, AcceptedWithToken, files, Sound
  <2>6. Running'
    BY <2>1, <2>2, <2>3 DEF Running, files, Signed
  <2> QED BY <2>4, <2>5, <2>6
<1>6. CASE GetClientID
  <2>1. TypeOK'
    BY <1>6 DEF GetClientID, Goto, TypeOK, files, locals, Steps
  <2>2. TokensSound' /\ AcceptedWithToken'
    BY <1>6 DEF GetClientID, TokensSound, AcceptedWithToken, files, locals, Sound
  <2>3. Running'
    BY <1>6 DEF GetClientID, Goto, Running, files, locals
  <2> QED BY <2>1, <2>2, <2>3
<1>7. CASE ExchangeGitHub \/ ExchangeGitHubOIDC \/ VerifySignatureWithKeys \/ GetAnonymousToken
  BY <1>7, ExchangeInv
<1>8. CASE ExchangeRefused \/ Refused
  BY <1>8, FailStep DEF ExchangeRefused, Refused
<1>9. CASE StoreRegistryToken
  <2>1. pc = "store" /\ token \in Token /\ Sound(token) /\ token # None
    BY <1>9, CLIAssumption DEF StoreRegistryToken, Goto, Running, TokensSound
  <2>2. registryToken' \in [Dirs -> Token \cup {None}]
    BY <1>9, <2>1 DEF StoreRegistryToken, TypeOK
  <2>3. TypeOK'
    BY <1>9, <2>2 DEF StoreRegistryToken, Goto, TypeOK, locals, Steps
  <2>4. TokensSound'
    BY <1>9, <2>1 DEF StoreRegistryToken, TokensSound, TypeOK, locals, Sound
  <2>5. AcceptedWithToken'
    BY <1>9 DEF StoreRegistryToken, AcceptedWithToken, Sound
  <2>6. Running'
    BY <1>9, <2>1 DEF StoreRegistryToken, Goto, Running, locals
  <2> QED BY <2>3, <2>4, <2>5, <2>6
<1>10. CASE Save
  <2>1. token \in Token /\ Sound(token) /\ cmd.registry \in Registries
    BY <1>10, CLIAssumption DEF Save, Running, TokensSound
  <2>2. saved' \in [token : Token, registry : Registries] /\ saved'.token = token
    BY <1>10, <2>1 DEF Save
  <2>3. TypeOK'
    BY <1>10, <2>2, CLIAssumption, SignaturesAssumption, TextPlaces
    DEF Save, End, NoCommand, Command, TypeOK, Steps, Methods
  <2>4. TokensSound'
    BY <1>10, <2>1, <2>2 DEF Save, End, TokensSound, Sound
  <2>5. AcceptedWithToken'
    BY <1>10 DEF Save, AcceptedWithToken, Sound
  <2>6. Running'
    BY <1>10 DEF Save, End, Running
  <2> QED BY <2>3, <2>4, <2>5, <2>6
<1>11. CASE RefuseSignature
  <2>1. pc = "verify" /\ pc' = "refused" /\ UNCHANGED <<now, locals, files, accepted>>
    BY <1>11 DEF RefuseSignature, Refuse
  <2>2. TypeOK'
    BY <2>1 DEF TypeOK, locals, files, Steps
  <2>3. TokensSound' /\ AcceptedWithToken' /\ Running'
    BY <2>1 DEF TokensSound, AcceptedWithToken, Running, locals, files, Sound
  <2> QED BY <2>2, <2>3
<1> QED
  BY <1>1, <1>2, <1>3, <1>4, <1>5, <1>6, <1>7, <1>8, <1>9, <1>10, <1>11 DEF LoginStep

LEMMA LogoutCommandInv == ASSUME Inv, LogoutCommand PROVE Inv'
<1> USE DEF Inv, LogoutCommand, locals
<1>1. TypeOK'
  BY DEF TypeOK
<1>2. TokensSound'
  BY DEF TokensSound, Sound
<1>3. AcceptedWithToken' /\ Running'
  BY DEF AcceptedWithToken, Running
<1> QED BY <1>1, <1>2, <1>3

LEMMA AcceptInv ==
    ASSUME Inv, NEW t \in Token, Sound(t), NEW r \in Registries,
           NEW action \in {"publish", "edit"}, NEW n \in Namespaces, Accept(t, r, action, n)
    PROVE  Inv'
<1> USE DEF Inv, Accept
<1>1. PICK clock \in Clocks(now) : ValidateToken(r, t, clock)
  BY DEF Authorized
<1>2. t.expiresAt \in Nat /\ now \in Nat /\ clock \in Nat /\ now <= clock
  BY TokensAssumption, CLIAssumption DEF Clocks, TypeOK, Token
<1>3. now < t.expiresAt /\ t.registry = r
  BY <1>1, <1>2 DEF ValidateToken
<1>4. TypeOK'
  BY DEF TypeOK, locals, files
<1>5. TokensSound' /\ Running'
  BY DEF TokensSound, Running, locals, files, Sound
<1>6. AcceptedWithToken'
  <2>1. HasPermission(n, action, t.permissions)
    BY DEF Authorized
  <2>2. accepted' = [action |-> action, name |-> n, registry |-> r, token |-> t] /\ now' = now
    OBVIOUS
  <2> QED BY <1>3, <2>1, <2>2 DEF AcceptedWithToken, Sound
<1> QED BY <1>4, <1>5, <1>6

LEMMA PublishCommandInv ==
    ASSUME Inv, NEW n \in Namespaces, PublishCommand(n) PROVE Inv'
<1>1. saved.token \in Token /\ saved.registry \in Registries /\ Sound(saved.token)
  BY DEF Inv, PublishCommand, TypeOK, TokensSound
<1> QED BY <1>1, AcceptInv DEF PublishCommand

LEMMA CurlInv ==
    ASSUME Inv, NEW r \in Registries, NEW action \in {"publish", "edit"}, NEW n \in Namespaces,
           Curl(shell, r, action, n) \/ (saved # None /\ Curl(saved.token, r, action, n))
    PROVE  Inv'
<1>1. CASE Curl(shell, r, action, n)
  <2>1. shell \in Token /\ Sound(shell)
    BY <1>1 DEF Inv, Curl, TypeOK, TokensSound
  <2> QED BY <1>1, <2>1, AcceptInv DEF Curl
<1>2. CASE saved # None /\ Curl(saved.token, r, action, n)
  <2>1. saved.token \in Token /\ Sound(saved.token)
    BY <1>2 DEF Inv, TypeOK, TokensSound
  <2> QED BY <1>2, <2>1, AcceptInv DEF Curl
<1> QED BY <1>1, <1>2

LEMMA ShellInv ==
    ASSUME Inv, (\E a \in GoogleAccounts, r \in Registries : ExchangeOIDC(a, r)) \/ CloseShell
    PROVE  Inv'
<1> USE DEF Inv
<1>1. UNCHANGED <<now, pc, locals, githubToken, registryToken, saved>> /\ accepted' = None
  BY DEF ExchangeOIDC, CloseShell
<1>2. shell' = None \/ (shell' \in Token /\ Sound(shell'))
  <2>1. CASE CloseShell
    BY <2>1 DEF CloseShell
  <2>2. ASSUME NEW a \in GoogleAccounts, NEW r \in Registries, ExchangeOIDC(a, r)
        PROVE  shell' \in Token /\ Sound(shell')
    <3> DEFINE standing == [proved |-> {}, administrator |-> HostedDomain[a] = RequiredDomain]
    <3>1. standing \in Standing /\ standing.administrator
      BY <2>2, ExtraClaimsAssumption DEF ExchangeOIDC, validateExtraClaims, Standing
    <3>2. PICK clock \in Clocks(now) :
              shell' = GenerateToken(r, OIDCPermissions, standing, clock, now)
      BY <2>2 DEF ExchangeOIDC
    <3>3. OIDCPermissions \in SUBSET Permission /\ ~IsBlocked(OIDCPermissions) /\ now \in Nat
      BY <2>2, CLIAssumption DEF ExchangeOIDC, TypeOK, OIDCPermissions, Grant, Patterns, Permission
    <3> HIDE DEF standing
    <3> QED BY <3>1, <3>2, <3>3, IssuedSound
  <2> QED BY <2>1, <2>2
<1>3. TypeOK'
  BY <1>1, <1>2 DEF TypeOK, locals
<1>4. TokensSound'
  BY <1>1, <1>2 DEF TokensSound, locals, Sound
<1>5. AcceptedWithToken' /\ Running'
  BY <1>1 DEF AcceptedWithToken, Running, locals
<1> QED BY <1>3, <1>4, <1>5

LEMMA WorldInv == ASSUME Inv, (\E a \in Accounts : Authorize(a)) \/ Tick PROVE Inv'
<1> USE DEF Inv
<1>1. TypeOK'
  BY CLIAssumption DEF TypeOK, Authorize, Tick, files, locals
<1>2. TokensSound' /\ Running'
  BY DEF TokensSound, Running, Authorize, Tick, files, locals, Sound
<1>3. AcceptedWithToken'
  BY DEF AcceptedWithToken, Authorize, Tick, Sound
<1> QED BY <1>1, <1>2, <1>3

LEMMA NextInv == Inv /\ [Next]_vars => Inv'
<1> SUFFICES ASSUME Inv, [Next]_vars PROVE Inv'
  OBVIOUS
<1>1. CASE \E m \in Methods, r \in Registries, dir \in Dirs, d \in OwnDomains \cup {None} :
               LoginCommand(m, r, dir, d)
  BY <1>1, LoginCommandInv
<1>2. CASE LoginStep
  BY <1>2, LoginStepInv
<1>3. CASE Interrupt
  BY <1>3, FailStep DEF Interrupt
<1>4. CASE LogoutCommand
  BY <1>4, LogoutCommandInv
<1>5. CASE \E n \in Namespaces : PublishCommand(n)
  BY <1>5, PublishCommandInv
<1>6. CASE (\E a \in Accounts : Authorize(a)) \/ Tick
  BY <1>6, WorldInv
<1>7. CASE (\E a \in GoogleAccounts, r \in Registries : ExchangeOIDC(a, r)) \/ CloseShell
  BY <1>7, ShellInv
<1>8. CASE \E r \in Registries, action \in {"publish", "edit"}, n \in Namespaces :
               \/ Curl(shell, r, action, n)
               \/ saved # None /\ Curl(saved.token, r, action, n)
  BY <1>8, CurlInv
<1>9. CASE UNCHANGED vars
  BY <1>9 DEF vars, locals, files, Inv, TypeOK, TokensSound, AcceptedWithToken, Running, Sound
<1> QED BY <1>1, <1>2, <1>3, <1>4, <1>5, <1>6, <1>7, <1>8, <1>9 DEF Next

LEMMA InvSafe ==
    Inv => /\ TypeOK /\ PublishedInScope /\ EditedByAdministrator
           /\ AcceptedSoon /\ BlockedNeverPublished
<1> SUFFICES ASSUME Inv, accepted # None
             PROVE  /\ PublishedInScope /\ EditedByAdministrator
                    /\ AcceptedSoon /\ BlockedNeverPublished
  BY DEF Inv, PublishedInScope, EditedByAdministrator, AcceptedSoon, BlockedNeverPublished
<1>1. /\ accepted \in [action : {"publish", "edit"}, name : Namespaces,
                       registry : Registries, token : Token]
      /\ now \in Nat
  BY CLIAssumption DEF Inv, TypeOK
<1>2. /\ Sound(accepted.token)
      /\ HasPermission(accepted.name, accepted.action, accepted.token.permissions)
      /\ accepted.token.registry = accepted.registry
      /\ now < accepted.token.expiresAt
  BY DEF Inv, AcceptedWithToken
<1>3. PublishedInScope /\ EditedByAdministrator /\ BlockedNeverPublished
  BY <1>1, <1>2 DEF PublishedInScope, EditedByAdministrator, BlockedNeverPublished, Sound
<1>4. AcceptedSoon
  <2>1. accepted.token.issuedAt \in Nat /\ accepted.token.expiresAt \in Nat
    BY <1>1 DEF Token
  <2> QED BY <1>1, <1>2, <2>1, TokensAssumption DEF AcceptedSoon, Sound
<1> QED BY <1>3, <1>4

\* The loop over the keys has tried those up to its turn, and all when it refuses.
KeysTried ==
    /\ pc \notin {"verify", "refused"} => turn = 0
    /\ pc = "verify" =>
           \A i \in PublicKeys(texts) : i <= turn => ~VerifySignature(texts[i], cmd.signature)
    /\ pc = "refused" =>
           \A i \in PublicKeys(texts) : ~VerifySignature(texts[i], cmd.signature)

\* A round of the loop tries the next key and passes over none.
LEMMA LoopStep ==
    ASSUME TypeOK, KeysTried, VerifySignatureWithKeys \/ RefuseSignature
    PROVE  KeysTried'
<1>1. PublicKeys(texts) \subseteq 1..MaxTexts /\ MaxTexts \in Nat /\ turn \in Nat
  BY TextPlaces, SignaturesAssumption DEF TypeOK, PublicKeys, ParseMCPKeysFromStrings
<1>2. pc = "verify"
  BY DEF VerifySignatureWithKeys, RefuseSignature
<1>3. CASE RefuseSignature
  <2>1. \A i \in PublicKeys(texts) : i <= turn
    BY <1>1, <1>3 DEF RefuseSignature, Untried
  <2> QED BY <1>2, <1>3, <2>1 DEF RefuseSignature, Refuse, locals, KeysTried
<1>4. CASE VerifySignatureWithKeys
  <2>1. PICK i \in DOMAIN texts :
          /\ IsNext(i)
          /\ IF VerifySignature(texts[i], cmd.signature) THEN IssueForDomain ELSE TryNext(i)
    BY <1>4 DEF VerifySignatureWithKeys
  <2>2. CASE IssueForDomain
    <3>1. pc' \notin {"verify", "refused"} /\ turn' = 0
      BY <2>2 DEF IssueForDomain, Issue, Fail, End
    <3> QED BY <3>1 DEF KeysTried
  <2>3. CASE ~VerifySignature(texts[i], cmd.signature) /\ TryNext(i)
    <3>1. i \in PublicKeys(texts) /\ \A j \in PublicKeys(texts) : j > turn => i <= j
      BY <2>1 DEF IsNext, Untried
    <3>2. \A j \in PublicKeys(texts) : j <= i => j <= turn \/ j = i
      BY <1>1, <3>1
    <3>3. pc' = pc /\ cmd' = cmd /\ texts' = texts /\ turn' = i
      BY <2>3 DEF TryNext
    <3> QED BY <1>2, <2>3, <3>2, <3>3 DEF KeysTried
  <2> QED BY <2>1, <2>2, <2>3
<1> QED BY <1>3, <1>4

LEMMA KeysTriedStep == Inv /\ KeysTried /\ [Next]_vars => KeysTried'
<1> SUFFICES ASSUME TypeOK, Running, KeysTried, [Next]_vars PROVE KeysTried'
  BY DEF Inv
<1>1. CASE VerifySignatureWithKeys \/ RefuseSignature
  BY <1>1, LoopStep
<1>2. CASE FetchKeys
  <2>1. pc' = "verify" /\ turn' = 0 /\ texts' \in TXTRecords
    BY <1>2, TextPlaces DEF FetchKeys, Goto, Findings, KeysTried
  <2>2. \A i \in PublicKeys(texts') : i \in 1..MaxTexts
    BY <2>1, TextPlaces DEF PublicKeys, ParseMCPKeysFromStrings
  <2> QED BY <2>1, <2>2, SignaturesAssumption DEF KeysTried
<1>3. ASSUME End PROVE KeysTried'
  BY <1>3 DEF End, KeysTried
<1>4. ASSUME pc \notin {"verify", "refused"}, pc' \notin {"verify", "refused"}, turn' = turn
      PROVE  KeysTried'
  BY <1>4 DEF KeysTried
<1>5. ASSUME UNCHANGED <<pc, cmd, texts, turn>> PROVE KeysTried'
  BY <1>5 DEF KeysTried
<1>6. CASE ExchangeGitHub \/ ExchangeGitHubOIDC \/ GetAnonymousToken
  <2>1. PICK permissions, standing : Issue(permissions, standing)
    BY <1>6 DEF ExchangeGitHub, ExchangeGitHubOIDC, GetAnonymousToken
  <2>2. pc' \notin {"verify", "refused"} /\ turn' = 0
    BY <2>1 DEF Issue, Fail, End
  <2> QED BY <2>2 DEF KeysTried
<1>7. CASE ExchangeRefused \/ Refused \/ Save \/ Interrupt
  BY <1>3, <1>7 DEF ExchangeRefused, Refused, Save, Interrupt, Fail
<1>8. CASE (\E a \in Accounts : UseProvidedToken(a)) \/ GetClientID \/ RequestDeviceCode
           \/ Sign \/ GetOIDCToken \/ StoreRegistryToken
  BY <1>4, <1>8 DEF UseProvidedToken, GetClientID, RequestDeviceCode, Sign, GetOIDCToken,
                    StoreRegistryToken, Goto, locals
<1>9. CASE Poll
  <2>1. \/ End
        \/ pc = "poll" /\ pc' \in {"poll", "read"} /\ turn' = turn
    BY <1>9 DEF Poll, Fail, locals
  <2> QED BY <1>3, <1>4, <2>1
<1>10. CASE ReadRegistryToken
  <2>1. pc = "read" /\ pc' \in {"save", "exchange"} /\ turn' = turn
    BY <1>10 DEF ReadRegistryToken, Goto, locals
  <2> QED BY <1>4, <2>1
<1>11. ASSUME NEW m \in Methods, NEW r \in Registries, NEW dir \in Dirs,
             NEW d \in OwnDomains \cup {None}, LoginCommand(m, r, dir, d)
      PROVE  KeysTried'
  <2>1. pc = "idle" /\ pc' \in {"login", "sign", "oidc", "exchange"} /\ turn' = turn
    BY <1>11 DEF LoginCommand, Goto, FirstStep, Methods, Signed
  <2> QED BY <1>4, <2>1
<1>12. CASE \/ LogoutCommand \/ CloseShell \/ Tick \/ UNCHANGED vars
            \/ \E a \in Accounts : Authorize(a)
            \/ \E a \in GoogleAccounts, r \in Registries : ExchangeOIDC(a, r)
  BY <1>5, <1>12 DEF LogoutCommand, CloseShell, Tick, Authorize, ExchangeOIDC, vars, locals
<1>13. CASE \/ \E n \in Namespaces : PublishCommand(n)
            \/ \E r \in Registries, action \in {"publish", "edit"}, n \in Namespaces :
                   \/ Curl(shell, r, action, n)
                   \/ saved # None /\ Curl(saved.token, r, action, n)
  BY <1>5, <1>13 DEF PublishCommand, Curl, Accept, locals
<1> QED
  BY <1>1, <1>2, <1>6, <1>7, <1>8, <1>9, <1>10, <1>11, <1>12, <1>13 DEF Next, LoginStep

\* A key that fits is a well-formed record's.
LEMMA FoundKeyTried == TypeOK /\ Running /\ KeysTried => FoundKeySuffices
<1> SUFFICES ASSUME TypeOK, Running, KeysTried, pc = "refused", cmd.signature.full,
                    NEW i \in DOMAIN texts, texts[i] = cmd.signature.key
             PROVE  FALSE
  BY DEF FoundKeySuffices
<1>1. cmd.signature \in Signature
  BY DEF Running
<1>2. i \in PublicKeys(texts)
  BY <1>1, SignaturesAssumption
  DEF Signature, PublicKeys, ParseMCPKeysFromStrings, ProofRecord
<1> QED BY <1>2 DEF KeysTried, VerifySignature

-----------------------------------------------------------------------------
LEMMA Safe == Spec => []Inv
BY InitInv, NextInv, PTL DEF Spec

\* Whatever is interrupted and whatever the clocks show, what is published is
\* within what was proved, or comes from an administrator, and is accepted by
\* the registry that issued the token.
THEOREM PublishingSafe == Spec => []PublishedInScope
BY Safe, InvSafe, PTL

\* The command, its token file and the token of the shell keep their types
\* whatever is interrupted.
THEOREM TypeCorrect == Spec => []TypeOK
BY Safe, InvSafe, PTL

\* Nobody but an administrator edits, and takes servers down.
THEOREM EditingSafe == Spec => []EditedByAdministrator
BY Safe, InvSafe, PTL

\* A token is of no use once it has expired by a clock that is not ahead.
THEOREM TokensExpire == Spec => []AcceptedSoon
BY Safe, InvSafe, PTL

\* A blocked namespace is out of reach for all but administrators, whatever else
\* a token is for.
THEOREM BlockedSafe == Spec => []BlockedNeverPublished
BY Safe, InvSafe, PTL

\* For any number of texts and keys: the loop over the keys of a domain ends with a
\* refusal only when none of all that were found fits, in whatever order they stand.
THEOREM FoundKeyCounts == Spec => []FoundKeySuffices
<1>1. Init => KeysTried
  BY DEF Init, KeysTried
<1>2. Inv => TypeOK /\ Running
  BY DEF Inv
<1> QED
  BY <1>1, <1>2, Safe, KeysTriedStep, FoundKeyTried, PTL DEF Spec

-----------------------------------------------------------------------------
(* What LoginEnds rests on: every step of a login brings its end nearer.     *)

\* The steps a login has before it at most, when it does not poll any more and has
\* no more keys to try.
StepsFrom ==
    [idle |-> 0, save |-> 1, refused |-> 1, store |-> 2, verify |-> 3, exchange |-> 4,
     read |-> 5, sign |-> 5, oidc |-> 5, poll |-> 6, device |-> 7, login |-> 8]

StepsLeft ==
    StepsFrom[pc]
    + (IF pc \in {"login", "device", "poll"} THEN MaxPolls - polls ELSE 0)
    + (IF pc \in {"idle", "save", "refused", "store"} THEN 0 ELSE MaxTexts - turn)

\* GitHub has an answer for who polls.
CodeKnown == pc = "poll" => code \in Accounts \cup {"pending", "refused"}

\* What the login does shortens it; nothing else makes it longer, and only a command
\* begins one.
LoginShortens ==
    /\ LoginStep => StepsLeft' < StepsLeft
    /\ pc # "idle" => StepsLeft' <= StepsLeft
    /\ pc = "idle" /\ pc' # "idle" => StepsLeft' <= MaxPolls + MaxTexts + 8

\* A command that ends has no step left.
LEMMA EndLeaves == ASSUME End PROVE StepsLeft' = 0 /\ pc' = "idle"
BY DEF End, StepsLeft, StepsFrom

\* Where the registry's answer to an exchange leads.
LEMMA IssueShortens ==
    ASSUME TypeOK, pc \in {"exchange", "verify"}, NEW permissions, NEW standing,
           Issue(permissions, standing)
    PROVE  StepsLeft' < StepsLeft /\ pc' # "poll"
<1> USE SignaturesAssumption DEF TypeOK
<1>1. CASE Fail
  BY <1>1, EndLeaves DEF Fail, StepsLeft, StepsFrom
<1>2. CASE pc' \in {"store", "save"}
  BY <1>2 DEF StepsLeft, StepsFrom
<1> QED
  BY <1>1, <1>2 DEF Issue

\* A poll is one less to come, or ends.
LEMMA PollShortens ==
    ASSUME TypeOK, Poll
    PROVE  StepsLeft' < StepsLeft /\ (pc' = "poll" => code' = code)
<1> USE CLIAssumption, SignaturesAssumption DEF TypeOK
<1>1. CASE Fail
  BY <1>1, EndLeaves DEF Fail, Poll, StepsLeft, StepsFrom
<1>2. CASE ~Deadline /\ polls' = polls + 1 /\ pc' = pc /\ code' = code /\ turn' = turn
  BY <1>2 DEF Poll, Deadline, StepsLeft, StepsFrom
<1>3. CASE pc' = "read" /\ turn' = turn
  BY <1>3 DEF Poll, StepsLeft, StepsFrom
<1> QED
  BY <1>1, <1>2, <1>3 DEF Poll, locals

\* Every step of a login brings its end nearer, and leaves a code that is known.
LEMMA StepShortens ==
    ASSUME TypeOK, LoginStep
    PROVE  /\ pc # "idle"
           /\ StepsLeft' < StepsLeft
           /\ pc' = "poll" => code' = "pending" \/ (pc = "poll" /\ code' = code)
<1> USE CLIAssumption, SignaturesAssumption DEF TypeOK, StepsLeft, StepsFrom, Goto
<1>1. CASE (\E a \in Accounts : UseProvidedToken(a)) \/ GetClientID \/ RequestDeviceCode
  BY <1>1 DEF UseProvidedToken, GetClientID, RequestDeviceCode, locals
<1>2. CASE Poll
  BY <1>2, PollShortens DEF Poll
<1>3. CASE ReadRegistryToken \/ Sign \/ GetOIDCToken \/ FetchKeys \/ StoreRegistryToken
  <2>1. /\ turn' = turn
        /\ \/ pc = "read" /\ pc' \in {"save", "exchange"}
           \/ pc \in {"sign", "oidc"} /\ pc' = "exchange"
           \/ pc = "exchange" /\ pc' = "verify"
           \/ pc = "store" /\ pc' = "save"
    BY <1>3, ZenonT(30)
    DEF ReadRegistryToken, Sign, GetOIDCToken, FetchKeys, StoreRegistryToken, locals
  <2> QED
    BY <2>1
<1>4. CASE Fail /\ pc # "idle"
  BY <1>4, EndLeaves DEF Fail, Steps
<1>5. CASE ExchangeGitHub \/ ExchangeGitHubOIDC \/ GetAnonymousToken
  BY <1>5, IssueShortens DEF ExchangeGitHub, ExchangeGitHubOIDC, GetAnonymousToken
<1>6. CASE VerifySignatureWithKeys
  <2>1. PICK i \in DOMAIN texts :
          IsNext(i) /\ pc = "verify" /\ (IssueForDomain \/ TryNext(i))
    BY <1>6 DEF VerifySignatureWithKeys
  <2>2. i \in 1..MaxTexts /\ i > turn
    BY <2>1, TextPlaces DEF IsNext, Untried
  <2>3. CASE TryNext(i)
    BY <2>1, <2>2, <2>3 DEF TryNext
  <2> QED
    BY <2>1, <2>3, IssueShortens DEF IssueForDomain
<1>7. CASE ExchangeRefused \/ Refused
  BY <1>4, <1>7 DEF ExchangeRefused, Refused
<1>9. CASE RefuseSignature
  BY <1>9 DEF RefuseSignature, Refuse, locals
<1>8. CASE Save
  BY <1>8, EndLeaves DEF Save
<1> QED
  BY <1>1, <1>2, <1>3, <1>5, <1>6, <1>7, <1>8, <1>9 DEF LoginStep

\* What is not a step of the login leaves its place alone, begins or ends it.
LEMMA OtherSteps ==
    ASSUME TypeOK, [Next]_vars, ~LoginStep
    PROVE  \/ /\ pc' = pc /\ polls' = polls /\ turn' = turn
              /\ code' = code \/ code' \in Accounts \cup {"refused"}
           \/ /\ pc = "idle" /\ pc' \in {"login", "sign", "oidc", "exchange"}
              /\ polls' = polls /\ turn' = turn
           \/ pc # "idle" /\ End
<1>1. ASSUME NEW m \in Methods, NEW r \in Registries, NEW dir \in Dirs,
             NEW d \in OwnDomains \cup {None}, LoginCommand(m, r, dir, d)
      PROVE  /\ pc = "idle" /\ pc' \in {"login", "sign", "oidc", "exchange"}
             /\ polls' = polls /\ turn' = turn
  BY <1>1 DEF LoginCommand, Goto, FirstStep, Methods, Signed
<1>2. CASE Interrupt
  BY <1>2 DEF Interrupt, Fail
<1>3. CASE LogoutCommand \/ CloseShell \/ Tick \/ UNCHANGED vars
           \/ \E a \in GoogleAccounts, r \in Registries : ExchangeOIDC(a, r)
  BY <1>3 DEF LogoutCommand, CloseShell, Tick, ExchangeOIDC, vars, locals
<1>4. CASE (\E n \in Namespaces : PublishCommand(n))
           \/ \E r \in Registries, action \in {"publish", "edit"}, n \in Namespaces :
                  \/ Curl(shell, r, action, n)
                  \/ saved # None /\ Curl(saved.token, r, action, n)
  BY <1>4 DEF PublishCommand, Curl, Accept, locals
<1>5. CASE \E a \in Accounts : Authorize(a)
  BY <1>5 DEF Authorize
<1> QED
  BY <1>1, <1>2, <1>3, <1>4, <1>5 DEF Next

\* The code of a device flow lasts as long as the flow.
LEMMA CodeKnownStep == Inv /\ CodeKnown /\ [Next]_vars => CodeKnown'
<1> SUFFICES ASSUME TypeOK, CodeKnown, [Next]_vars PROVE CodeKnown'
  BY DEF Inv
<1>1. CASE LoginStep
  BY <1>1, StepShortens DEF CodeKnown
<1>2. CASE ~LoginStep
  BY <1>2, OtherSteps DEF CodeKnown, End
<1> QED
  BY <1>1, <1>2

\* No step makes a login longer.
LEMMA ShortensStep == Inv /\ [Next]_vars => LoginShortens
<1> SUFFICES ASSUME TypeOK, TypeOK', [Next]_vars PROVE LoginShortens
  BY NextInv DEF Inv
<1>1. StepsLeft \in Nat /\ StepsLeft' \in Nat
  BY CLIAssumption, SignaturesAssumption DEF TypeOK, Steps, StepsLeft, StepsFrom
<1>2. CASE LoginStep
  <2>1. StepsLeft' < StepsLeft
    BY <1>2, StepShortens
  <2>2. pc # "idle"
    BY <1>2, StepShortens
  <2> QED
    BY <1>1, <1>2, <2>1, <2>2 DEF LoginShortens
<1>3. CASE ~LoginStep
  BY <1>1, <1>3, OtherSteps, EndLeaves, CLIAssumption, SignaturesAssumption
  DEF LoginShortens, TypeOK, Steps, StepsLeft, StepsFrom
<1> QED
  BY <1>2, <1>3

\* A login is never longer than its polls, its keys and eight steps, whoever authorizes it or
\* does not: the deadline of pollForToken counts down, nothing sends the command back,
\* and who polls has a code that GitHub knows.
THEOREM LoginTheorem == Spec => []CodeKnown /\ [][LoginShortens]_vars
<1>1. Init => CodeKnown
  BY DEF Init, CodeKnown
<1> QED
  BY <1>1, Safe, CodeKnownStep, ShortensStep, PTL DEF Spec
=============================================================================
