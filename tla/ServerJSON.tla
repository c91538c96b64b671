----------------------------- MODULE ServerJSON -----------------------------
(***************************************************************************)
(* The rules for the document that describes a server: its versions, the   *)
(* arguments and transports of its packages, its remotes and its links.    *)
(***************************************************************************)
EXTENDS Naturals, Sequences

-----------------------------------------------------------------------------
\* Versions. "compound" is a range of several comparators (">=1.0.0 <2.0.0");
\* wild is a part that is x or an asterisk; tag is what follows a hyphen, and
\* may have an x in it; build is what follows a plus.
Version == [form : {"none", "latest", "single", "comparator", "hyphen", "or", "compound", "free"},
            parts : 1..4, wild : BOOLEAN, tag : {"none", "plain", "with x"}, build : BOOLEAN]

\* Slip: what follows a hyphen is taken for the second version of a range.
AnyTagIsRange(v) ==
    \/ v.form \in {"comparator", "hyphen", "or"}
    \/ v.form = "single" /\ (v.wild \/ v.tag # "none")

\* The regular expressions for ranges have no build; an x or an asterisk is
\* looked for in all of a version that has two or three parts.
looksLikeVersionRange(v) ==
    \/ v.form \in {"comparator", "hyphen", "or"} /\ ~v.wild /\ ~v.build
    \/ /\ v.form = "single" /\ v.parts \in 2..3 /\ ~v.build
       /\ v.wild \/ v.tag = "with x"

validateVersion(v) == v.form # "latest" /\ ~looksLikeVersionRange(v)

-----------------------------------------------------------------------------
\* URLs. A part is a literal or a variable; variables have their braces here.
Variables == {"{host}", "{port}", "{path}", "{protocol}", "{base}"}
Hosts == {"example.com", "localhost", "127.0.0.1"}
Ports == {"8080", "443"}
Words == {"api", "placeholder"}
Literals == {"", "http", "https", "wss"} \cup Hosts \cup Ports \cup Words
URL == [scheme : Literals \cup Variables, host : Literals \cup Variables,
        port : Literals \cup Variables, path : Literals \cup Variables]

NoURL == [scheme |-> "", host |-> "", port |-> "", path |-> ""]

extractTemplateVariables(u) == Variables \cap {u.scheme, u.host, u.port, u.path}

\* Slip: a number in the place of any other variable is a port as well.
NumericPlaceholder ==
    [v \in Variables |->
        CASE v = "{host}" -> "example.com"
          [] v = "{path}" -> "api"
          [] v = "{protocol}" -> "http"
          [] OTHER -> "8080"]

\* A variable of another name than these becomes the word "placeholder"; "scheme"
\* is another name for "protocol".
Placeholder ==
    [v \in Variables |->
        CASE v = "{host}" -> "example.com"
          [] v = "{port}" -> "8080"
          [] v = "{path}" -> "api"
          [] v = "{protocol}" -> "http"
          [] OTHER -> "placeholder"]

Substitute(u, values) ==
    LET Value(part) == IF part \in Variables THEN values[part] ELSE part
    IN  [scheme |-> Value(u.scheme), host |-> Value(u.host),
         port |-> Value(u.port), path |-> Value(u.path)]

replaceTemplateVariables(u) == Substitute(u, Placeholder)

\* url.Parse: a port is a number, and braces may be in the path only.
Parses(u) ==
    /\ u.scheme \notin Variables
    /\ u.host \notin Variables
    /\ u.port \in {""} \cup Ports

\* What url.Parse calls the host includes the port.
WellFormed(u) ==
    /\ Parses(u)
    /\ u.scheme \in {"http", "https"}
    /\ u.host # "" \/ u.port # ""

IsValidURL(u) == WellFormed(replaceTemplateVariables(u))

Local == {"localhost", "127.0.0.1"}

IsValidRemoteURL(u) ==
    /\ IsValidURL(u)
    /\ Parses(u)
    /\ u.host \notin Local
    /\ u.scheme = "https"

IsValidTemplatedURL(u, available) ==
    IsValidURL(u) /\ extractTemplateVariables(u) \subseteq available

-----------------------------------------------------------------------------
\* Transports. Those of packages may have variables and may be local.
Transport == [type : {"stdio", "streamable-http", "sse", "other"}, url : URL]
OverHTTP == {"streamable-http", "sse"}

validatePackageTransport(t, available) ==
    \/ t.type = "stdio" /\ t.url = NoURL
    \/ t.type \in OverHTTP /\ t.url # NoURL /\ IsValidTemplatedURL(t.url, available)

validateRemoteTransport(t) ==
    t.type \in OverHTTP /\ t.url # NoURL /\ IsValidRemoteURL(t.url)

-----------------------------------------------------------------------------
\* Arguments. badName: no name, or one with a value or a description in it;
\* startsWithName: its value or its default does.
Argument == [named : BOOLEAN, badName : BOOLEAN, startsWithName : BOOLEAN,
             variables : SUBSET Variables]

\* A malformed identifier is not the reference of an image, an unlisted one that of
\* an image at a registry that is not known.
Package == [type : {"npm", "pypi", "nuget", "oci", "mcpb", "other"},
            base : {"none", "own", "other"},
            identifier : {"none", "spaced", "malformed", "good", "unlisted"},
            version : Version, sha : BOOLEAN,
            arguments : SUBSET Argument, environment : SUBSET Variables,
            transport : Transport]

validateArgument(a) == a.named => ~a.badName /\ ~a.startsWithName

\* Names and value hints of arguments, names of environment variables.
collectAvailableVariables(p) == p.environment \cup UNION {a.variables : a \in p.arguments}

validatePackageField(p) ==
    /\ p.identifier # "spaced"
    /\ validateVersion(p.version)
    /\ \A a \in p.arguments : validateArgument(a)
    /\ validatePackageTransport(p.transport, collectAvailableVariables(p))

-----------------------------------------------------------------------------
\* A repository is at the site that is its source, with a clean subfolder.
Repository == [source : {"none", "github", "gitlab", "other"},
               site : {"none", "github", "gitlab", "other"}, cleanSubfolder : BOOLEAN]

IsValidRepositoryURL(r) == r.source \in {"github", "gitlab"} /\ r.site = r.source

validateRepository(r) ==
    \/ r.source = "none" /\ r.site = "none"
    \/ IsValidRepositoryURL(r) /\ r.cleanSubfolder

\* Links are the website and the icons.
validateLinks(links) == \A u \in links : Parses(u) /\ u.scheme = "https"
=============================================================================
