---------------------------- MODULE MCValidation ----------------------------
(***************************************************************************)
(* Documents for TLC: a document that breaks no rule, those that differ    *)
(* from it in one place, and those of two packages.                        *)
(***************************************************************************)
EXTENDS InitCommand

CONSTANTS server, serverTwo, other, path

Remotes ==
    [host : {"github", "gitlab", "other"}, form : {"https", "git+https", "ssh", "scp"},
     name : {server, path}]

JSONFiles ==
    {None} \cup [scopedName : {None, other},
                repository : {None, [host |-> "other", form |-> "https", name |-> server],
                              [host |-> "github", form |-> "git+https", name |-> server]},
                descriptionFits : BOOLEAN]

MCWorkdirs ==
    [origin : Remotes \cup {None}, below : BOOLEAN, folderName : {serverTwo, path}, clean : {TRUE},
     packageJSON : JSONFiles, pythonProject : {"none"}, dockerfile : {TRUE}] \cup
    [origin : Remotes, below : BOOLEAN, folderName : {serverTwo}, clean : BOOLEAN,
     packageJSON : {None}, pythonProject : {"none", "plain", "commented"}, dockerfile : BOOLEAN]

\* The name serverTwo begins with the name server.
MCExtensions == [n \in Servers |-> IF n = server THEN {server, serverTwo} ELSE {n}]

Single == [form |-> "single", parts |-> 3, wild |-> FALSE, tag |-> "none", build |-> FALSE]
NoVersion == [Single EXCEPT !.form = "none"]

MCVersions ==
    {[Single EXCEPT !.form = f, !.wild = w, !.build = b] :
        f \in {"latest", "comparator", "compound", "free"}, w \in BOOLEAN, b \in BOOLEAN} \cup
    {[Single EXCEPT !.parts = n, !.wild = w, !.tag = t, !.build = b] :
        n \in {1, 3, 4}, w \in BOOLEAN, t \in {"none", "plain", "with x"}, b \in BOOLEAN}

Site == [scheme |-> "https", host |-> "example.com", port |-> "", path |-> "api"]

MCURLs ==
    [scheme : {"http", "https", "{protocol}", "wss"}, host : {"", "example.com", "localhost", "{host}"},
     port : {"", "8080", "{port}", "{base}"}, path : {"api", "{path}"}]

Stdio == [type |-> "stdio", url |-> NoURL]
HTTP(u) == [type |-> "streamable-http", url |-> u]

PackageOf(t) ==
    [type |-> t, base |-> "none", identifier |-> "good",
     version |-> IF t = "oci" THEN NoVersion ELSE Single, sha |-> t = "mcpb",
     arguments |-> {}, environment |-> {}, transport |-> Stdio]

Base(packages) ==
    [name |-> server, version |-> Single, schemaCurrent |-> TRUE, descriptionFits |-> TRUE,
     blankTitle |-> FALSE, extensionsFit |-> TRUE,
     repository |-> [source |-> "github", site |-> "github", cleanSubfolder |-> TRUE],
     links |-> {}, packages |-> packages, remotes |-> {}]

Types == {"npm", "pypi", "nuget", "oci", "mcpb"}

OddPackages ==
    {PackageOf("other")} \cup
    UNION {{[PackageOf(t) EXCEPT !.base = "other"], [PackageOf(t) EXCEPT !.base = "own"],
            [PackageOf(t) EXCEPT !.identifier = "none"], [PackageOf(t) EXCEPT !.sha = ~@],
            [PackageOf(t) EXCEPT !.identifier = "unlisted"],
            [PackageOf(t) EXCEPT !.version.form = IF t = "oci" THEN "single" ELSE "none"]} : t \in Types} \cup
    {[PackageOf("npm") EXCEPT !.identifier = "spaced"]} \cup
    {[PackageOf("npm") EXCEPT !.arguments = {[named |-> n, badName |-> b, startsWithName |-> s,
                                              variables |-> {}]}] :
        n \in BOOLEAN, b \in BOOLEAN, s \in BOOLEAN}

TemplatedPackages ==
    {[PackageOf("npm") EXCEPT !.transport = HTTP(u), !.environment = e,
        !.arguments = {[named |-> TRUE, badName |-> FALSE, startsWithName |-> FALSE,
                        variables |-> {"{path}"}]}] :
        u \in MCURLs, e \in {{"{host}"}, Variables}} \cup
    {[PackageOf("npm") EXCEPT !.transport = t] :
        t \in {HTTP(NoURL), [Stdio EXCEPT !.type = "other"], [Stdio EXCEPT !.url = Site]}}

MCDocuments ==
    Drafts \cup
    {Base(<<>>)} \cup
    {Base(<<PackageOf(t), PackageOf(u)>>) : t \in Types \ {"nuget"}, u \in Types \ {"nuget"}} \cup
    {Base(<<p>>) : p \in OddPackages \cup TemplatedPackages} \cup
    {[Base(<<>>) EXCEPT !.version = v] : v \in MCVersions} \cup
    {[Base(<<>>) EXCEPT !.remotes = {HTTP(Site), HTTP(u)}] : u \in MCURLs} \cup
    {[Base(<<>>) EXCEPT !.remotes = {t}] : t \in {HTTP(NoURL), Stdio}} \cup
    {[Base(<<>>) EXCEPT !.links = {Site, u}] : u \in MCURLs} \cup
    {[Base(<<>>) EXCEPT !.repository = r] : r \in Repository} \cup
    {[Base(<<>>) EXCEPT !.name = path], [Base(<<>>) EXCEPT !.schemaCurrent = FALSE],
     [Base(<<>>) EXCEPT !.descriptionFits = FALSE], [Base(<<>>) EXCEPT !.blankTitle = TRUE],
     [Base(<<>>) EXCEPT !.extensionsFit = FALSE]}
=============================================================================
