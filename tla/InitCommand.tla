---------------------------- MODULE InitCommand ----------------------------
(***************************************************************************)
(* mcp-publisher init: the server.json that it drafts from what it finds   *)
(* in the directory, and what becomes of the draft when it is published.   *)
(***************************************************************************)
EXTENDS Validation

CONSTANTS
    Workdirs,          \* directories in which init is run
    OfPlaceholders,    \* io.github.YOUR_USERNAME/YOUR_REPO
    OfUnscoped,        \* io.github.<your-username>/ and the name of an npm package
    UpperCase,         \* names with an upper-case letter after the slash
    None

\* Where a repository is, how its URL is written ("git@host:owner/repo" is scp),
\* and io.github.<owner>/<repo>.
Remote == [host : {"github", "gitlab", "other"}, form : {"https", "git+https", "ssh", "scp"},
           name : Servers \cup BadNames]

\* package.json: scopedName is its name as that of a server, if it has a scope.
PackageJSON == [scopedName : Servers \cup {None}, repository : Remote \cup {None},
                descriptionFits : BOOLEAN]

\* below: the root of the repository is above it; folderName is then
\* io.github.<owner>/<directory>, and clean if its path has usual characters. The line
\* of a Python project's name may have a comment behind it.
Workdir == [origin : Remote \cup {None}, below : BOOLEAN, folderName : Servers \cup BadNames,
            clean : BOOLEAN, packageJSON : PackageJSON \cup {None},
            pythonProject : {"none", "plain", "commented"}, dockerfile : BOOLEAN]

ASSUME InitAssumption ==
    /\ Workdirs \subseteq Workdir
    /\ OfPlaceholders \in Servers
    /\ OfUnscoped \in BadNames
    /\ UpperCase \subseteq Servers \cup BadNames
    /\ None \notin Servers \cup BadNames \cup Remote \cup PackageJSON

-----------------------------------------------------------------------------
Placeholders == [host |-> "github", form |-> "https", name |-> OfPlaceholders]

Rewritten(url, from) == IF url.form = from THEN [url EXCEPT !.form = "https"] ELSE url

\* Slip: a remote is taken as git has it.
AsConfigured(w) == IF w.origin # None THEN w.origin ELSE Placeholders

\* The remote of git, then the repository of package.json. Only one of GitHub is
\* rewritten from scp.
detectRepoURL(w) ==
    CASE w.origin # None ->
             IF w.origin.host = "github" THEN Rewritten(w.origin, "scp") ELSE w.origin
      [] w.origin = None /\ w.packageJSON # None /\ w.packageJSON.repository # None ->
             Rewritten(w.packageJSON.repository, "git+https")
      [] OTHER -> Placeholders

\* None at the root, outside a repository, and if git takes five seconds.
detectSubfolder(w) == IF w.below THEN w.folderName ELSE None

buildGitHubServerName(url, subfolder) == IF subfolder # None THEN subfolder ELSE url.name

getNameFromPackageJSON(json) == IF json.scopedName # None THEN json.scopedName ELSE OfUnscoped

\* The URL of placeholders is one of GitHub, so package.json counts only when
\* the repository is elsewhere.
detectServerName(w) ==
    LET url == detectRepoURL(w)
    IN  CASE url.host = "github" -> buildGitHubServerName(url, detectSubfolder(w))
          [] url.host # "github" /\ w.packageJSON # None -> getNameFromPackageJSON(w.packageJSON)
          [] OTHER -> url.name  \* com.example/<directory>, as good or bad a name

detectPackageType(w) ==
    CASE w.packageJSON # None -> "npm"
      [] w.packageJSON = None /\ w.pythonProject # "none" -> "pypi"
      [] w.packageJSON = None /\ w.pythonProject = "none" /\ w.dockerfile -> "oci"
      [] OTHER -> "npm"

One == [form |-> "single", parts |-> 3, wild |-> FALSE, tag |-> "none", build |-> FALSE]

\* A comment behind a name is taken as part of it; the image has the name of the
\* server after the slash, and references have no upper-case letters.
detectPackageIdentifier(w, type) ==
    CASE type = "pypi" -> IF w.pythonProject = "commented" THEN "spaced" ELSE "good"
      [] type = "oci" -> IF detectServerName(w) \in UpperCase THEN "malformed" ELSE "good"
      [] OTHER -> "good"

\* The reference of an image includes its version. The variable of the environment
\* is in no URL.
DraftPackage(type, identifier) ==
    [type |-> type, base |-> "none", identifier |-> identifier,
     version |-> IF type = "oci" THEN [One EXCEPT !.form = "none"] ELSE One,
     sha |-> FALSE, arguments |-> {}, environment |-> {},
     transport |-> [type |-> "stdio", url |-> NoURL]]

\* "git" is the source of a repository at another host.
DraftRepository(url, w) ==
    [source |-> url.host, site |-> IF url.form = "https" THEN url.host ELSE "other",
     cleanSubfolder |-> detectSubfolder(w) # None => w.clean]

\* That of package.json, whatever its length, or a sentence that fits.
detectDescription(w) == w.packageJSON # None => w.packageJSON.descriptionFits

createServerJSON(w) ==
    LET type == detectPackageType(w)
    IN  [name |-> detectServerName(w), version |-> One, schemaCurrent |-> TRUE,
         descriptionFits |-> detectDescription(w), blankTitle |-> FALSE, extensionsFit |-> TRUE,
         repository |-> DraftRepository(detectRepoURL(w), w), links |-> {},
         packages |-> <<DraftPackage(type, detectPackageIdentifier(w, type))>>, remotes |-> {}]

Drafts == {createServerJSON(w) : w \in Workdirs}

-----------------------------------------------------------------------------
\* A clone from GitHub, by HTTPS or with a key, in a directory of a usual name.
Clone(w) ==
    /\ w.origin # None /\ w.origin.host = "github" /\ w.origin.form \in {"https", "scp"}
    /\ w.origin.name \in Servers
    /\ w.below => w.folderName \in Servers /\ w.clean

\* What init copies unchecked is as the registry wants it: a description of at most
\* a hundred characters in package.json; for a Python project no comment behind its
\* name; for an image a repository, or a directory of it, in lower case.
Copyable(w) ==
    /\ w.packageJSON # None => w.packageJSON.descriptionFits
    /\ w.packageJSON = None => w.pythonProject # "commented"
    /\ w.packageJSON = None /\ w.pythonProject = "none" /\ w.dockerfile =>
           (IF w.below THEN w.folderName ELSE w.origin.name) \notin UpperCase

CloneDrafts == {createServerJSON(w) : w \in {x \in Workdirs : Clone(x) /\ Copyable(x)}}

\* What init has drafted in a clone from GitHub, of which it copies nothing that is
\* against the rules, may be published as it is, once its package is at the package
\* registry and names the server.
DraftsPublishable == pc = "refused" /\ doc \in CloneDrafts => Refuted
=============================================================================
