SPECIFICATION Spec
CONSTANTS
    official = official  local = local
    bob = bob  spammers = spammers
    example = example  api = api
    home = home  project = project
    edKey = edKey  ecKey = ecKey
    moderator = moderator  outsider = outsider  staff = staff
    None = None
    Anonymous = anonymous
    Everything = everything
    OtherText = otherText
    Malformed = malformed
    MaxTexts = 2
    Registries = {official, local}
    AnonymousRegistries = {local}
    OIDCRegistries = {official}
    OIDCPublishPerms <- MCOIDCPerms
    OIDCEditPerms <- MCOIDCPerms
    GoogleAccounts = {moderator, outsider}
    HostedDomain <- MCHostedDomain
    RequiredDomain = staff
    Owners = {bob, spammers}
    NameableOwners = {bob, spammers}
    Accounts = {bob}
    Member <- MCMember
    ActionsOwner = bob
    Domains = {example, api}
    OwnDomains = {example}
    Subdomains <- MCSubdomains
    Keys = {edKey, ecKey}
    Algorithm <- MCAlgorithm
    BlockedNamespaces = {spammers}
    TokenDuration = 1
    IDTokenDuration = 1
    TimestampWindow = 1
    ClockSkew = 1
    Dirs = {project}
    Home = home
    MaxPolls = 1
    MaxNow = 2
INVARIANTS
    TypeOK
    PublishedInScope
    EditedByAdministrator
    AcceptedSoon
    BlockedNeverPublished
    FoundKeySuffices
PROPERTIES
    LoginEnds
