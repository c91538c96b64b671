# A verification project for the MCP registry

The repository is a registry of MCP servers: an HTTP API in Go over one PostgreSQL
table, with a publisher CLI, an installer service, an importer and a deployment. This
directory holds TLA+ specifications of the parts whose behaviour is hard to test, the
TLC configurations that check them on small instances and theorems checked by TLAPS
for every instance. Paths below are relative to the repository.

## 1. The system

| Part | State | Operations | Hard behaviour |
|---|---|---|---|
| Publish and edit (`internal/service/registry_service.go`, `internal/database/postgres.go`, handlers `publish.go`, `edit.go`) | table `servers` (one row per name and version: status, times, `is_latest`, JSON value) | `CreateServer`, `UpdateServer`: READ COMMITTED transactions of several statements; an advisory lock per hashed name | interleaving of statements, reads before the lock, clocks of two replicas, partial failure, pool of 30 connections |
| Version order (`versioning.go`) | none | `IsSemanticVersion`, `CompareVersions` | mixes of semantic and other versions, ties |
| Read endpoints (`servers.go`, `postgres.go`) | the reader's cursor | list with filters and pages, version detail, `latest` | pages while rows are added, `updated_since` against commit order |
| Startup (`cmd/registry/main.go`, `internal/importer`) | the table | `DELETE FROM servers`, import of the seed by `CreateServer` | two replicas (`deploy/pkg/k8s/registry.go:74`) restart at different times |
| Migrations (`internal/database/migrate.go`, `migrations/`) | `schema_migrations` and the schema | apply the missing ones in order | a crash in between, two replicas at once, files with their own COMMIT |
| Tokens (`internal/auth`, `handlers/v0/auth`) | signed claims | exchange of a GitHub or OIDC token or a signature, `ValidateToken`, `HasPermission` | expiry, wildcard permissions, blocks, several keys in the DNS |
| Validation (`internal/validators`) | none | `ValidateServerJSON`, `ValidatePublishRequest`, look-ups at package registries | many rules, external services |
| HTTP server and `main.go` (`internal/api`, `cmd/registry`) | open connections | routing, SSE, shutdown | long-lived streams, a shutdown with a limit, a pool that waits |
| Installer (`cmd/installer`) | map of jobs under a mutex | start, status, run, update | concurrent handlers and goroutines |
| Publisher CLI (`cmd/publisher`) | token files, `server.json` | login by five methods, publish, logout, `init` | polling against expiry, files left by an earlier login |
| Deployment (`deploy`), tools and scripts | cloud resources, files | declared once | none at run time |

The parts meet in three places. The handlers call the service, which runs every change
in a transaction (`database.InTransactionT`); the importer calls the same `CreateServer`
from the start of each replica; the CLI, the installer and the aggregators see the
registry through its HTTP API only. All state that survives a request is in PostgreSQL,
so what two replicas can do to each other is what two transactions can do.

What makes each part correct:

* publish and edit: exactly one latest version, the greatest; limit on versions; remote
  URLs of one server only; deleted versions stay deleted; only deleted versions carry
  packages nobody validated; a change is atomic; every request ends;
* version order: a total preorder, so that comparing with the latest is enough;
* reads: a client that follows the cursor sees every row that was there throughout; one
  that asks for what changed since its last visit misses nothing;
* startup: what was published is not lost, the seed is there when a replica serves;
* migrations: each applied once, in order, and recorded exactly when applied;
* tokens: no permission beyond what the exchange proved, none after expiry, edits for
  administrators only;
* validation: what is accepted has named its server and can be used, and what keeps to the
  documentation is accepted;
* the life of a replica: every start ends in service, every signal in an exit;
* installer, CLI: one outcome per job or login, and it comes.

The hazards that follow from this, each at its line, are listed in `PROJECT.json`.

## 2. Modules

| Module | Models |
|---|---|
| `Versioning` | the order on versions of `versioning.go` |
| `Registry` | publish and edit, one action per SQL statement, by slots that serve requests |
| `ServerCatalog` | what publish and edit promise: each is one atomic step on the table |
| `RegistryReads` | a client that pages through the list endpoint while `Registry` runs |
| `RegistryBoot` | replicas that clear and import the table at their start while `Registry` runs |
| `Installer` | the installer daemon and the page that polls it |
| `Migrator` | replicas that migrate the schema at the same time, stop and start again |
| `ReplicaLife` | `main.go` from its migrations to its end: service, signal, shutdown, closing of the pool |
| `Tokens` | what a registry's token permits, how long it is valid, what each proof of identity obtains |
| `Signatures` | what the signers of the publisher produce and what a registry makes of it and of the keys it finds |
| `PublisherCLI` | `mcp-publisher` and its files, GitHub's device flow, the registries' exchanges, administrators |
| `ServerJSON` | the rules for the parts of a document: versions, URLs, arguments, transports, links |
| `Validation` | `ValidatePublishRequest`: the rules for a document, then the look-ups of its packages |
| `InitCommand` | the documents that `mcp-publisher init` drafts, submitted to `Validation` |
| `MCRegistry`, `MCRegistryReads`, `MCRegistryBoot`, `MCInstaller`, `MCMigrator`, `MCPublisherCLI`, `MCValidation` | constants of the runs |
| `RegistryProofs`, `CatalogProofs`, `ListingProofs`, `BootProofs`, `InstallerProofs`, `MigratorProofs`, `PublisherProofs`, `ValidationProofs` | the theorems |

How they compose: `RegistryReads` and `RegistryBoot` extend `Registry`, which extends
`Versioning`; `ReplicaLife` extends `Migrator`; `PublisherCLI` extends `Tokens` and
`Signatures`; `InitCommand` extends `Validation`, which extends `ServerJSON`. `Registry`
instantiates `ServerCatalog` for the refinement. Operators whose comment begins with
"Slip" are changes a maintainer might make by mistake; no action uses them, and
`PROJECT.json` names the property that each would break.

### Registry

A slot `t` in `Tx` is a request in flight at some replica. `pc[t]` names the statement
it executes next:

| `pc` | Action | Code |
|---|---|---|
| resting | `Submit` | the request arrives at the publish or the edit handler |
| `handler` | `ReadCurrent` | `edit.go:71-108`, the read and the checks outside any transaction |
| `begin` | `Begin` | `InTransaction`, a connection of the pool, BEGIN |
| `validate` | `ValidatePublish` | `ValidatePublishRequest`, then `publishTime := time.Now()` |
| `load` | `LoadAndValidate` | the row read before the lock, validation or not |
| `lock` | `AcquirePublishLock` | `pg_advisory_xact_lock(hashServerName(name))` |
| `urls` | `CheckRemoteUrl`, `RemoteUrlsChecked` | one query for each remote URL |
| `count`, `exists`, `latest`, `unmark`, `insert` | the action of that name | the statements of a publish |
| `update`, `setStatus` | `UpdateRow`, `SetServerStatus` | the statements of an edit |
| `commit` | `Commit` | COMMIT, whose answer may be lost |
| any | `Abort` | failing statement, client gone, replica stopped, token refused |

`servers` is the committed table and `writes[t]` the row versions of t's transaction:
`Read(t, k)` is the committed row under t's own writes, which is what a statement sees in
READ COMMITTED. A statement that writes a row waits for another transaction that has
written it (`RowFree`); an INSERT also waits for one whose row would collide in a unique
index and fails when the row is there. The advisory lock belongs to the transaction and
goes with it (`Released`).

What is abstracted: of the JSON value the model keeps the remote URLs and one Boolean,
whether its packages pass their validation; versions are opaque with a precedence; the
permission checks of the handlers are covered by `Abort`, which ends a request with an
error at any point; a precondition that the structure of the body is valid is a matter of
the requests enumerated. Registry validation is enabled, as in production;
`MCP_REGISTRY_ENABLE_REGISTRY_VALIDATION=false` is the case where every request has
`packagesOK`. `validateNoDuplicateRemoteURLs` reads a page of the rows that use a URL,
`MaxUrlRows` of them (1000 in the code), among which there may be rows of the same server;
`CheckRemoteUrl` chooses which, whatever the order of the query.

Times are readings of clocks: `now` is the database's, `publishTime` any reading within
`ClockSkew` of it, since the replica reads its own clock. `Stored` is the loss of
precision of a `timestamptz` column (microseconds for nanoseconds): `publishTime` is
compared before it is stored, with a time that was.

### ServerCatalog

The same table with two atomic actions, no locks, transactions or requests. `Registry`
implements it under the identity on `servers` (`ImplementsCatalog`): a publish that took
ten statements between which others ran adds its row and moves the mark exactly as if it
had run alone at its commit. `LatestNeverGoesBack` is a property of this table.

### RegistryReads

`Registry` and one client (an aggregator, `docs/modelcontextprotocol-io`) that makes
listings: `StartListing` fixes the filter (everything, `version=latest`, or
`updated_since` the start of its last listing), each `ListPage` is one request and one
query, `FailListing` a page that fails. A page is the first `PageSize` rows, in the order
of `(server_name, version)`, that match and come after the cursor; the cursor is the last
row of a full page. `Place` is the collation's order of keys, which has nothing to do with
the precedence of versions; the instance places the greater version first, so that the
mark of the latest moves behind the cursor. `copy` is what the client has merged from its
complete listings and `atStart` a history variable, the table when the listing began.

### RegistryBoot

`Registry` and the start of its replicas. `boot[r]` is the place in `main.go`: `down`,
`clear`, `deleting`, `import`, `serving`. `BeginDelete` takes the snapshot of
`DELETE FROM servers` (`toDelete`), `DeleteRow` locks its rows one by one, in any order
(`deleted`), and waits for a transaction or another DELETE that has the next one;
`Delete` commits, or fails, after which the import goes on all the same
(`main.go:93-95`). A statement of a request waits for a row that a DELETE has
(`WaitsForDelete`). Two DELETEs may wait for each other; PostgreSQL then ends one, which is
its failure.
`ImportRecord` submits the next record of the seed to the replica's own slot of
`Registry`, where the same actions serve it as serve a client; `ImportStep` collects the
failures; `Stop` ends the process at any point. Clients submit to replicas that serve.

The `DELETE` takes no advisory lock, so it may come between a publish's comparison with the
latest version and its insert. `SeedLatest` says what is true all the same: the greatest
version of a server is its latest again when every replica serves, if it is in the seed
(`Greatest`). For other versions it is not true: with a seed of one record and a
client that publishes a greater version, both replicas may serve a server none of whose
versions is the latest, where `internal/api/handlers/v0/servers_test.go:387` says "Exactly
one version should be marked as latest". To see it, take `boot` with `Seed` reduced to its
first record and `SeedLatest` without `Greatest`, over the versions in the table.

### Installer

The daemon (`cmd/installer/main.go`) and the install button of the page
(`internal/api/handlers/v0/ui_index.html`). A click is one call of `installPackage`, an
asynchronous function whose place between two awaits is `pc[c]`; the button is disabled
after its first await, so two clicks of one button may run beside each other. Each accepted
request has a goroutine (`run[c]`) and its command (`npm[c]`). `updateJob` is two actions,
`BeginUpdate` and `EndUpdate`, between which `writing` holds `jobsMu`. `handleStatus` looks
the job up under the lock and encodes it without: `HandleStatus` waits for the lock,
`Encode` does not, and while the job is being written it reads the status before, the
status after or a torn one (a Go string is a pointer and a length), which the page takes
for "not finished". `FetchFails` is any fetch that fails: the daemon is down, or the
answer is lost after the daemon has done its work. The page says "Installation failed" when
it was the POST, although the daemon may have the job, and that it could not check when it
was a poll. Of a job the model keeps its status; message, output and times are left out. An
ID is a nanosecond (`Ids`), and two requests may read the same one.

### Migrator

`Migrate` and `applyMigration` of `internal/database/migrate.go`, by several replicas
(`pc[r]`: `start`, then `execute`, `record` and `commit` for each migration in `pending[r]`,
then `migrated`). A migration is its version, whether its file has a COMMIT of its own
(`OwnCommit`: 005, 008, 009, 010 and 011) and whether it may run again on a schema that has
it (`Repeatable`: 008, 010 and 011 correct data, 005 and 009 add columns). `schema` is what
is committed, `recorded` the rows of `schema_migrations`. A file without a COMMIT keeps its
locks until the transaction ends (`locked`), and the next file waits for it; one with a
COMMIT is permanent before its record is made, and the record is then a transaction of its
own. What the SQL does to the data is left out, as is the creation of `schema_migrations`,
which may fail like any other statement of two starts that meet, and is then a `Stop`.

### ReplicaLife

`Migrator` beside the rest of `main.go`. `life[r]` is `boot` until the HTTP server listens
(`Serve`), then `serve`, `shutdown` after a signal, and `close` when `Shutdown` has returned;
`open[r]` are the kinds of request that have no answer yet. A query holds a connection of the
pool, a stream of `/sse` (`SSEHandler`, which waits for its client to leave) holds none.
`Shutdown` returns when nothing is open or after ten seconds, whichever the model chooses;
the requests it leaves go on, and `db.Close` waits for those that hold a connection. `Die` is
the end of the process at any point. The reset and the import of `main.go:84-110` are one
step here and `RegistryBoot` there: what they do to the table does not matter to the
migrations, and they end within their five minutes. The instance has three replicas, because a
rolling update starts a third beside the two that the deployment declares.

### Tokens, Signatures and PublisherCLI

`Tokens` is `internal/auth/jwt.go` and the permissions that the handlers of
`internal/api/handlers/v0/auth` build: an action, publish or edit, and one of the patterns
`namespace/*`, `namespace.*` and `*`. `isResourceMatch`, which compares prefixes, is what it
comes to for such patterns. A token also carries two history fields: `issuedAt`, and
`standing`, the namespaces that its holder had under control when it was issued, or that he
is an administrator.

`Signatures` is the proof by a key: `SignedTimestamps` is what the in-process signer, Google
KMS and Azure Key Vault return, `PublicKeys` the keys that a registry reads from TXT records
or from the page on a web server: a sequence of texts, in any order and some of them twice,
old, new, malformed or something else altogether.

`PublisherCLI` runs one command at a time. `pc` is the place of `login`:

| `pc` | Action | Code |
|---|---|---|
| `idle` | `LoginCommand`, `LogoutCommand`, `PublishCommand` | `cmd/publisher/commands` |
| `login` | `UseProvidedToken`, `GetClientID` | a token given, or the device flow |
| `device`, `poll` | `RequestDeviceCode`, `Poll` | `github-at.go`, `pollForToken` to its deadline |
| `read` | `ReadRegistryToken` | a registry token left by an earlier login, if it has not expired |
| `sign`, `oidc` | `Sign`, `GetOIDCToken` | the timestamp signed for DNS and HTTP; the token of GitHub Actions |
| `exchange` | `ExchangeGitHub`, `ExchangeGitHubOIDC`, `FetchKeys`, `GetAnonymousToken`, `ExchangeRefused` | the registry's handlers |
| `verify` | `VerifySignatureWithKeys`, `RefuseSignature` | the loop over the keys found, one a step, up to `turn` |
| `refused` | `Refused` | the registry's refusal of a signature |
| `store`, `save` | `StoreRegistryToken`, `Save` | the files |
| any | `Interrupt` | a request fails, an answer is lost, the user interrupts |

`githubToken` and `registryToken` are files in the working directory (one of each per
directory), `saved` is `~/.mcp_publisher_token`. A clock reading is a member of
`Clocks(now)`, a different one for each look at a clock, up to `ClockSkew` ahead. What
GitHub says of an account's organizations, whether the user authorizes the device and what
is found in the DNS are free choices. Beside the command there is the shell of an
administrator (`ExchangeOIDC`, `CloseShell`; `tools/admin/auth.sh`), whose ID token counts
only with the claim that the registry's configuration asks for (`validateExtraClaims`; without
one it accepts everybody, and `ExtraClaimsAssumption` says that there is one, as in
`deploy/pkg/k8s/registry.go:153`), and requests made by hand (`Curl`), which may send any
token anywhere. `accepted` is what a registry has accepted in the last step, and empty
otherwise. Three bounds keep the instance small: an administrator
has a token only while no login runs, nothing is sent while a login runs (a login changes no
file before its end that `publish` would read), and there is one working directory. Left
out: two commands at the same time and writes of part of a file.

### ServerJSON and Validation

`ServerJSON` has one operator for each rule of `internal/validators`, under its name in
the code. Strings are described by what the rules look at: a version by its form, its
number of parts and whether it has wildcards, a tag (with an x in it or not) and a build;
a URL by its four parts, each a literal or a variable; an argument by whether its name is
fit; an identifier by whether it has spaces, is the reference of an image (`malformed` if
not) and of a registry that is known (`unlisted` if not). `Parses` is `url.Parse` on such
URLs, `Substitute` what a client does with the values of variables, and
`replaceTemplateVariables` a substitution of one placeholder for each.

`Validation` is one request, from its arrival (`Submit`) to its answer (`Respond`), at the
place `pc`: `fields`, then `packages`, one round of the loop (`CheckPackage`) for the
package `next`. `metadata[i]` is what the i-th package says at its registry; `Release`
changes it at any time, freely for a tag of an image or an asset, and between there and
not there for a version. A look-up answers what the package says, fails (a status, a
timeout), or is refused for its rate. `shown[i]` is a history variable: all that package i
has answered or said since the request arrived. A README names one server, and
`Extensions` has the names that begin with a name: the validators of PyPI and NuGet look
for the name and not for its end. `EnableRegistryValidation` is on, as in production.

`AcceptedOwned` is about the loop: each package of what is accepted, whichever its place, has
been looked up, and its registry has named the server and no other at some time of the request
(`Owned`). It is not about what the validators take for that, which `TakenForOwned` lists and
section 3 compares with the documentation. It claims no moment at which all packages name the
server: there need not be one. `AcceptedStartable` compares the rules, which try a URL with one
placeholder for each variable, with all that clients put there (`Values`: any host, port, scheme
and word, each for a variable of that name): every one of them makes a URL with a host. A
placeholder that fits where values do not breaks it.

`InitCommand` is `cmd/publisher/commands/init.go`: a function from what is in a directory (the
remote of git and the form of its URL, `package.json`, a Python project, a Dockerfile, the
place in the repository) to the document that `init` drafts. `MCValidation` submits the
drafts of more than a thousand directories beside its other documents, so that the command and
the registry's rules are checked against each other (`DraftsPublishable`). What `init` copies
unchecked into the draft is drafted as it is and may break a rule: a description of
`package.json` (`detectDescription`), the rest of a line of `pyproject.toml`, a name of an image
in upper case (`detectPackageIdentifier`). The property speaks of clones without these
(`Copyable`).

## 3. Runs

| Run | Instance | Shows |
|---|---|---|
| `publish` | two slots, one server, five versions (two semantic of equal and one of lower precedence, two not semantic), publishes and edits, three clock readings of which two are stored alike, limit 3 | types, mutual exclusion, latest is greatest, limit, no constraint met, atomicity; an edit disturbs neither the mark nor other rows; the mark never moves to a lesser version |
| `one_lock` | three slots, two connections, two servers on one lock, two versions of one of them with the same URLs, a check that reads one row, strong fairness | remote URLs unique when the lock is shared; every request ends |
| `serial` | one slot, two servers, edits with every status, a client with pages of one row | a listing leaves out nothing that was there when it began; deleted stays deleted and live servers are validated when nothing interleaves |
| `boot` | two replicas, three starts, a client, a seed of two records, two clock readings that are stored alike, limit 3 | the seed is there when all serve, its greatest version the latest; no constraint met |
| `installer` | one button, two clicks, two nanoseconds, two polls, one stop of the daemon | the page shows how its own npm ended, unless two jobs share an ID or the POST had no answer; an outcome stays; the button comes back and every job whose npm ends gets its outcome |
| `migrate` | three replicas, four migrations of which two commit themselves and one of these may run again, two stops, by a signal or at any point, queries and streams | applied in order, recorded only when applied, served only when complete; every start ends in service and every signal in an exit |
| `login` | two registries, one account in a blocked organization, a domain and a subdomain of it, a key of either algorithm, two texts in the DNS, two Google accounts of which one has the claim, tokens of one time unit, clocks one apart, one poll | nothing is published beyond what was proved, at another registry than the token's, later than a token lasts or in a blocked namespace, except by an administrator, and only administrators edit; a key that was found counts; every login ends |
| `validate` | a document that breaks no rule, some 600 that differ in one place (any version, URL, repository, package field), all pairs of packages of four registries, the drafts of `init`; names of which one begins with another | each package of what is accepted was its server's, or of a kind that is taken for it, and can be started with all values that clients have; what keeps to the documentation, and what `init` drafts in a clone from GitHub that copies nothing bad, is not refused without a cause |
| `url_race` | two slots, two servers with their own locks | violated: one URL on two servers |
| `undelete_race` | two slots, one row | violated: a deleted server becomes active |
| `sync_missed` | one slot, one server, two clock readings | violated: a row that `updated_since` never returns |
| `migrate_stopped` | that of `migrate` with two replicas | violated: changes without their record |

The bounds. Two slots are enough for every conflict between statements of two requests,
which is how the races come about; a third is there where a queue matters
(`one_lock`: two waiting while one holds). Five versions contain every pair that
`CompareVersions` tells apart, and more publishes than the limit allows. `MaxNow` bounds
the database's clock; `ClockSkew` lets replicas read times in any order even at one
instant. `MaxServerVersions`, 10000 in the code, is 1 to 3. Slots are symmetric: nothing
compares them. `MaxStarts` is three: both replicas, and one of them again, at any point of
the other's start. Four migrations are one of each kind and, in `OwnCommit`, two in a row.
A page of one row makes every row a page boundary. In
`login`, `MaxNow` is the duration of a token and the skew together, so that a token can
expire by every clock; two texts are a key that fits beside
one that does not, or beside a record that is malformed; `MaxPolls` is the number of polls before the device code's
deadline; and the working directory is not the home, so that a logout leaves its files. Two packages are
enough for one to be looked up before and one after a change at either. In `boot` the limit is
greater than the versions there are, so that an import is not refused for a row that another
replica has imported, and counted as a failure, before it is found to be there. Two nanoseconds
let two requests share one or not.

The violation runs are the findings of `PROJECT.json`. `serial` and `one_lock` are their
counterparts: the same properties hold when requests do not interleave, or when names
share a lock, so the cause is the one named; and pages alone lose nothing, a filter on
`updated_at` does. The race of `undelete_race` also lets an edit commit packages nobody
validated on a server that is active by then (`LiveServersValidated`, which `serial`
checks): whether to validate is decided on a row read before the lock.

Fairness. `SF_vars(Serve(t))`: a goroutine that can go on does, PostgreSQL grants an
advisory lock to its waiters in the order of their arrival, and `pgxpool` its connections
likewise; so a request that keeps finding the lock or the pool free and taken in turn is
not passed over forever. Nothing forces requests to arrive, fail or be cancelled. In
`Installer`, `WF_vars(InstallPackage(c))` and `WF_vars(RunInstallation(c))`: a fetch is
answered or fails, timers expire, goroutines run on. npm may hang (`CommandExits` has no
fairness) and the daemon need not start again. In `Migrator`, which `ReplicaLife` extends:
Kubernetes starts a replica again that has exited, statements end, and a lock that is
released is granted; stops are bounded by `MaxStops`. In `ReplicaLife`, `WF_all(Main(r))` and
`WF_all(Answer(r))`: the import, `Shutdown` and the wait of a query each have an end, by
`main.go`'s limits and PostgreSQL's; the client of a stream is free to stay for ever, and
`ShutdownEnds` holds all the same because of the ten seconds. `EveryReplicaServes` excepts the
states of `migrate_stopped` in which a migration is stranded: its changes are there, its
record is not, and it cannot run again, so that every start fails. Only a stop leads there;
two replicas that fail each other's migrations do not.
In `PublisherCLI`, `WF_vars(LoginStep)`: the command goes on, which assumes that a request
is answered or fails. The code sets no timeout on its HTTP client, so a server that keeps
a connection open without an answer stops a login until the user interrupts it. Nothing
forces the user to authorize, nor a command to be given.

Disagreements that were met and have no run of their own:

* `readRegistryToken` (`cmd/publisher/auth/github-at.go:80-84`) takes the token that an
  earlier login has stored without a look at the registry that issued it, so a login at
  another registry (`docs/reference/cli/commands.md:54-65`) ends with a token which that
  registry refuses.
* `logout` removes the other token files from the home directory
  (`cmd/publisher/commands/logout.go:30`), where login never writes them.
* HTTP authentication grants `com.example/*` only, where `commands.md:177` says
  `com.example.*`.
* A semantic version whose pre-release tag has an x in it, `1.0.0-next.1`, is refused as a
  range (`validators.go:281-283`); the schema (`server.schema.json:453`) asks for semantic
  versions. `Specific` in `Validation` excepts it. Ranges of several comparators, or with a
  wildcard after a comparator, are accepted.
* A remote may have variables in its path: `IsValidRemoteURL` parses the URL as it stands,
  and `url.Parse` minds braces in the host only, where the comment at `validators.go:406`
  says that no templates are allowed. No property is about it.
* A URL with a port and no host, `https://:8080/api`, is accepted for packages and remotes: what
  `url.Parse` calls the host (`utils.go:86`) includes the port. `AcceptedStartable` excepts it.
* A package is accepted without having named its server where `package.go:11-13` says that
  ownership is validated by the name of the server: a bundle only has to be there (`mcpb.go:20`
  ignores the name), an image whose registry limits the rate is believed (`oci.go:105-109`), and
  a page of PyPI or NuGet may have a longer name (`pypi.go:83`, `nuget.go:75`). `TakenForOwned`
  excepts the three.
* `init` in a clone whose image is built from a repository with upper-case letters drafts
  `docker.io/MyServer:1.0.0` (`init.go:316-320,361`), which the registry refuses (`oci.go:72`);
  it copies a description of more than a hundred characters from `package.json`
  (`init.go:201-208`), which the API refuses (`pkg/api/v0/types.go:37`), and the comment behind
  a name in `pyproject.toml` (`init.go:301-310`), which makes an identifier with spaces
  (`validators.go:209`). `Copyable` excepts them.
* The page says "Installation failed" when the answer to POST /install is lost
  (`ui_index.html:532-535`), also when npm runs on and succeeds; `docs/INSTALLER.md:73` says of
  this text "Error occurred (with details)". `OutcomeShown` excepts a failure before the first
  poll.
* A variable as a port is accepted under the name `port` only (`Customary`): any other name
  is replaced by a word, which is no port.
* A start of a replica may leave a server without a latest version (RegistryBoot, above).
* An import may take five minutes (`cmd/registry/main.go:86`) before the server listens, but
  the liveness probe (`deploy/pkg/k8s/registry.go:165-172`: after 30 seconds, with the
  default of three failures ten seconds apart) ends the process after about one, and the next
  start deletes the table again.
* `UnmarkAsLatest` (`postgres.go:705`) leaves `updated_at` as it is, so that a copy kept by
  `updated_since` never sees the row that is no longer the latest, and keeps two.
* `SSEHandler` "streams heartbeat events to the client every 5 seconds" (`sse.go:8`), but waits
  for the end of its context first (`sse.go:21`) and sends none.
* r and s of an ECDSA signature lose their leading zero bytes in
  `cmd/publisher/auth/common.go:130`, and the registry refuses the shorter signature
  (`InProcess`, `VerifySignature`). `FoundKeySuffices` excepts it.
* An account or organization with a name that `isValidGitHubName` refuses gives a token
  without any permission (`GitHubPermissions`), not an error.
* `init` never asks for anything, where `commands.md:36` says "Prompts for missing required
  fields". Without a remote it drafts a repository of placeholders at GitHub, so the name in
  `package.json` counts for other hosts only; the source "git" of other hosts, and SSH URLs of
  hosts other than GitHub, are refused by the validators. `Clone` excepts them.
* `tools/admin/takedown.sh` sends a PUT without a body and, when no VERSION is given, to a
  path that has no handler.
* `scripts/mirror_data/fetch_production_data.go:21` reads `next_cursor`, where the API writes
  `nextCursor`: the mirror stops after one page.

## 4. Proofs

`RegistryProofs`: `CompareAntisymmetric` and `CompareTransitive`, that `CompareVersions` is
antisymmetric and its "not greater" transitive, from `VersioningAssumption` alone
(precedences are numbers); `TypeCorrect` and `Exclusion`. `PublishExclusion` is not
inductive; the strengthening `HolderOwns` says that a transaction past the lock is the
lock's owner.

The second half of `RegistryProofs`: `LatestTheorem`, `LimitTheorem`, `NoConstraintTheorem`.
None of the three is inductive: what a publish has counted, looked up and compared in one
statement must still be so in the statement that relies on it. `IInv` says so: `Established(t)`
lists for each place in the code what t has made sure of, about the committed rows of its
server and its own writes; `WritesOwnServer` and `HolderOwns` say why it stays so, since only a
commit changes the table, only rows of its own server, and only with the lock. `Good` adds to
the three invariants that stored times are as the column holds them, which the comparison with
an unrounded `publishTime` needs (`CompareStored`). The proofs assume `RegistryAssumption` and
`StoredAssumption`: any sets of names, versions, URLs and slots, any hash of names to locks
(collisions included), any order-preserving rounding that is idempotent and never rounds up.
`IInv` was checked by TLC on the instance of `publish` before it was proved. The theorems are
about `Spec`, a registry whose replicas have started: the DELETE of a start falsifies
`LatestIsGreatest`, as said above.

`NoDeadlock` is what `EveryRequestEnds` rests on: while a request is under way, one of those
under way has nothing to wait for. `Waits` lists what the next statement of a request may have
to wait for, a connection of the pool, the advisory lock, a row. The argument goes down the
order in which they are taken: whoever has the lock finds the rows of its server free, so row
locks never make anybody wait (`HolderGoesOn`); whoever waits for the lock waits for its owner
(`ConnectedGoesOn`, from `OwnersHold`); and a pool is empty only when transactions have its
connections (`PoolGoesOn`, from `PoolBounded`). On instances that `publish` and `one_lock` use,
TLC finds `Waits(t)` equal to `~ENABLED Serve(t)` for all requests under way, so it leaves no
reason to wait out; the provers cannot expand ENABLED.

`BootProofs` has what is left when replicas start: `SeedTheorem`, `SeedLatestTheorem` and
`BootNoConstraint`, about `BootSpec`. `TableInv` is about the table: `Decided(t)` lists what a
publish may rely on although rows disappear under it (that its version is not there, that no
latest row is where it inserts one), `RowsSound` that a row which is the greatest of its server
is marked, `UniqueLatest` the unique index. A DELETE keeps all three (`DecidedLocal`,
`FewerRows`), because they only say that rows are not there or what the rows there are like;
`IInv` is lost for the same reason. `BootInv` adds, for each record of the seed, that it is in
the table or that some replica accounts for it: it has failed to import it or will import it
(`Accounted`). A replica that deletes the rows of another will import them itself, which is
why it does not matter in which order they start. `BootExclusion`, `BootLimit` and
`BootNoDeadlock` say that a start disturbs neither the lock nor the limit, and that its DELETE,
which locks rows one by one without an advisory lock, closes no circle with requests: the rows of
a DELETE are committed ones that no transaction has written (`Taken`), so a request that waits
for a DELETE has written none that the DELETE could wait for (`WritersGoOn`). The limit needs
care, because a
publish relies on a count while rows disappear under it and imports bring them back: `Counted`
says that the rows it reads are below the limit until it inserts, since a DELETE only makes them
fewer, and only the lock's owner makes them more. `BootAssumption` says that there is a replica
and that the seed consists of publishes. The invariant was checked by TLC on the instance of
`boot` before it was proved.

`CatalogProofs`: `Refinement`, that `Registry` implements `ServerCatalog`; from it
`LatestForward`, for `LatestNeverGoesBack`; and the exact cause of two violations that the runs
show, below. `CInv` adds to `IInv` what a
transaction has prepared: `Prepared(t)` says at each place that t's writes are exactly one
publish or one edit of the table as it is committed now, and stay so while others commit,
because those that could disturb it need the lock, or the row, that t has. A commit is then
a step of `ServerCatalog`, and every other step a stutter.

Four properties are violated by the code, and a run shows how. Theorems say that there is no
other way, each from the one thing that has to happen:

* `UndeleteOnlyByRace`: `DeletedStaysDeleted` holds as long as no edit that deletes a version is
  under way together with one that gives it another status (`DeletesAlone`).
  `ValidatedUnlessUndeleted`: `LiveServersValidated` holds as long as `DeletedStaysDeleted` does,
  because the only way round the validation of packages is for a deleted version; `LiveValidated`
  combines the two.
* `UrlsOnlyByRace`: `RemoteUrlUnique` holds as long as no two transactions past the lock have a
  remote URL in common (`UrlsApart`), for any `MaxUrlRows`: only rows of other servers decide.
* `SyncMissesOnlyEarlyStamps` (in `ListingProofs`): `SyncMissesNothing` holds as long as every
  commit has a stamp later than the listing that is under way and the last one that ended
  (`StampedLater`); it is stamped before it is committed and by another clock.
* `RecordedUnlessStopped` (in `MigratorProofs`): `AppliedWithRecord` holds as long as no replica
  stops between the COMMIT of a migration that has its own and the record of it (`Between`).

These hypotheses are about behaviours of the code, not about constants, and each is written as
the antecedent of its theorem. Each is satisfied by behaviours in which the requests, edits, syncs
and stops it does not exclude happen.

`ListingProofs`: `ListingTheorem` and `LatestListingTheorem`. `RInv` says of a listing under
way that every row (or server) that was there when it began has been found or is still after
the cursor. Rows never go away and never change places, which settles the first; for the
second the mark may move across the cursor within a server, but a server has a latest version
at all times (`LatestIsGreatest`, from `RegistryProofs`) and its rows are together in the
order of the query (`ReadsAssumption`). `PagesTheorem` adds that a page has new rows only, no
more than asked for, and moves the cursor forward. The lemmas about pages show that the first
`PageSize` rows of a finite set, in the order of `Place`, are followed by a cursor behind which
none of them is.

`InstallerProofs`: `OutcomeTheorem`, `StaysTheorem`, `DisabledTheorem`, `JobsTheorem` and
`TypeCorrect`. `OutcomeShown` is strengthened by `Fresh` (a click without a job has shown no
success and made no poll), `OutcomeKept` (the map agrees with npm for a job with an ID of its
own, `Own`) and `Consistent` (the goroutine, its command and the lock); the step that matters is
`EncodeKeeps`: a status read while it is written is one the job had or is about to have, or a
torn one, which shows nothing. Nothing is assumed of the clock: where another request reads the
same nanosecond, the hypothesis `Own` fails for both. `DisabledTheorem` and `JobsTheorem` are what `ButtonComesBack` and `EveryJobEnds` rest on:
a disabled button has a handler at work that will enable it, whichever of several clicks it came
from, and a job without an outcome has a goroutine that will write one.

`MigratorProofs`: `MigratorSafe`, `NoneSkipped`, `ServedMigrated`, `TypeCorrect` and
`LifeCorrect`, of `LifeSpec`; and of how a replica may stop, `RecordedUnlessStopped`, above,
`OwnCommitOnly`, that no other file than one with a COMMIT is ever applied without its record,
and `NoneStranded`, that no stop leaves a schema on which none can start unless it falls between
the COMMIT of a file that cannot run again (005 and 009) and its record; a stop there of one that
can (008, 010, 011) does no harm. `MigratorsNeverStuck`: of replicas that migrate together at most one
has an open transaction, and while one waits another is past its statement. Each replica works
from a set it read when it started; `OthersApplied` says that what it does not have to apply
stays applied, `ExecutedOwnCommit` that a file with a COMMIT is permanent before its record.
With the lemma that a non-empty set of versions has a least one, the next migration of any
replica has all earlier ones below it. What `ReplicaLife` adds leaves the migrations alone, but
for the end of a replica.

`PublisherProofs`: `PublishingSafe`, `EditingSafe`, `TokensExpire`, `BlockedSafe`,
`FoundKeyCounts`, `LoginTheorem` and `TypeCorrect`. `TokensSound` says of every token there is,
in a file, in a shell or in the command's hands, that unless it is an administrator's it
permits no more than was proved, nothing that is blocked and no edit, and that it expires in
time by the clock that issued it; `AcceptedWithToken` that what was accepted was permitted by
such a token; and `Running` what the command that runs has got so far. The scope lemmas
(`GitHubScope`, `DomainScope`, `AnonymousScope`) relate the patterns that an exchange grants to
what it has looked up (`Covered`). `FoundKeyCounts` rests on `KeysTried`, the invariant of the
loop: up to `turn` no key fits, whatever else is there, so that when none is left to try none of
all that were found does. `LoginTheorem` is what `LoginEnds` rests on: `StepsLeft` is
a natural number that every step of a login makes smaller, and nothing else larger, though
accounts authorize, clocks tick and administrators publish meanwhile.

`ValidationProofs`: `OwnedTheorem`, `StartableTheorem`, `CauseTheorem`, `DraftsTheorem` and
`TypeCorrect`. The invariant says that each package before `next` was its server's or is of a kind
that is taken for it (`PassedShown`) and that the fields have passed. A package once shown stays
so whatever is released (`ShownStays`); what a validator lets pass is `PassedOwned`. That a URL
which is valid with the placeholders is valid with all `Values` is `ValidWithValues`, from
`ValuesSuit`: a variable whose placeholder is a scheme or a port is one for which every client has
a scheme or a port. That the rules refuse nothing that keeps to the documentation is `GoodValid`,
and that a validator of packages does not either without a cause, `RefusedWithCause`.
`DraftsTheorem` follows from the same invariant and `CloneGood`, that what `init` drafts in a
clone from GitHub, and copies nothing bad into, keeps to the documentation.

The assumptions are the named ASSUMEs of the modules (each checked by TLC on its instance)
and the hypotheses that the statements of the theorems above name.

Only model-checked: the liveness properties `EveryRequestEnds`, `ButtonComesBack`,
`EveryJobEnds`, `EveryReplicaServes`, `ShutdownEnds` and `LoginEnds`, since fairness speaks of
ENABLED, which is out of the prover's reach. `NoDeadlock`, `BootNoDeadlock`,
`MigratorsNeverStuck`, `DisabledTheorem`, `JobsTheorem` and `LoginTheorem` prove the safety
that they rest on.

## 5. Plan

Done: the components of section 2 and the theorems of section 4. What would add most from
here:

1. The starts of replicas and the migrations are two modules: one composition in which a replica
   migrates, resets, imports and serves would show that nothing relies on their order but what
   `ReplicaLife` already says.
2. A registry whose database fails over, which the deployment does not yet have.

## 6. Not modelled

* Routing, CORS, the redirect of trailing slashes, metrics and the health endpoint
  (`internal/api/router`, `internal/telemetry`): they are wiring without state of their own.
  The HTTP server is therefore only partly modelled, by its life.
* The deployment (`deploy`): a Pulumi program that declares resources. What it declares, two
  replicas, an update that adds a third, probes and restarts, is in the instances.
* Tools and scripts (`tools`, `scripts`): one-shot programs of one thread that read the API or
  files; where one disagrees with the API it is listed in section 3.
* The SQL migrations' conversions of data, which run once.
* The SQL planner, the network and PostgreSQL itself are assumed to work as documented; what
  the code relies on of them (READ COMMITTED, unique indexes, transaction-scoped advisory
  locks) is modelled and marked external in `PROJECT.json`.
