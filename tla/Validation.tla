----------------------------- MODULE Validation -----------------------------
(***************************************************************************)
(* ValidatePublishRequest: the rules for the document, then each package   *)
(* in its turn is looked up at its registry, where it may be released,     *)
(* replaced or withdrawn at any time.                                      *)
(***************************************************************************)
EXTENDS ServerJSON

CONSTANTS
    Servers,     \* well-formed names of servers
    BadNames,    \* names of another form
    Extensions,  \* the names that begin with each name
    Documents    \* what is submitted

Document == [name : Servers \cup BadNames, version : Version, schemaCurrent : BOOLEAN,
             descriptionFits : BOOLEAN, blankTitle : BOOLEAN, extensionsFit : BOOLEAN,
             repository : Repository, links : SUBSET URL, packages : Seq(Package),
             remotes : SUBSET Transport]

ASSUME ValidationAssumption ==
    /\ Extensions \in [Servers -> SUBSET Servers]
    /\ \A n \in Servers : n \in Extensions[n]
    /\ Documents \subseteq Document

VARIABLES
    pc,
    doc,        \* the request's document
    next,       \* the package whose turn it is
    metadata,   \* what each package says at its registry
    shown       \* all it has said, or failed to, since the request arrived

vars == <<pc, doc, next, metadata, shown>>

Metadata == Servers \cup {"unnamed", "missing"}
NoAnswer == {"rate limited", "failed"}

NoDocument ==
    [name |-> "none", packages |-> <<>>]

Running == {"fields", "packages"}
Decided == {"accepted", "refused"}

TypeOK ==
    /\ pc \in {"idle"} \cup Running \cup Decided
    /\ IF pc = "idle" THEN doc = NoDocument ELSE doc \in Document
    /\ next \in 1..(Len(doc.packages) + 1)
    /\ metadata \in [DOMAIN doc.packages -> Metadata]
    /\ shown \in [DOMAIN doc.packages -> SUBSET (Metadata \cup NoAnswer)]

Init ==
    /\ pc = "idle"
    /\ doc = NoDocument
    /\ next = 1
    /\ metadata = <<>>
    /\ shown = <<>>

\* Slip: the answers of the request before are kept.
SubmitAgain(d) ==
    /\ pc = "idle"
    /\ pc' = "fields"
    /\ doc' = d
    /\ \E m \in [DOMAIN d.packages -> Metadata] : metadata' = m
    /\ UNCHANGED <<next, shown>>

Submit(d) ==
    /\ pc = "idle"
    /\ pc' = "fields"
    /\ doc' = d
    /\ \E m \in [DOMAIN d.packages -> Metadata] :
           /\ metadata' = m
           /\ shown' = [i \in DOMAIN m |-> {m[i]}]
    /\ UNCHANGED next

parseServerName(d) == d.name \in Servers

ValidateServerJSON(d) ==
    /\ d.schemaCurrent
    /\ parseServerName(d)
    /\ validateVersion(d.version)
    /\ validateRepository(d.repository)
    /\ ~d.blankTitle
    /\ validateLinks(d.links)
    /\ \A i \in DOMAIN d.packages : validatePackageField(d.packages[i])
    /\ \A r \in d.remotes : validateRemoteTransport(r)

\* The API's schema, which limits the length of a description, comes first.
ValidateFields ==
    /\ pc = "fields"
    /\ pc' = IF doc.descriptionFits /\ doc.extensionsFit /\ ValidateServerJSON(doc)
             THEN "packages" ELSE "refused"
    /\ UNCHANGED <<doc, next, metadata, shown>>

-----------------------------------------------------------------------------
\* The validators of the package registries, given what the look-up answers.

ByNameAndVersion(p) ==
    /\ p.base \in {"none", "own"}
    /\ p.identifier # "none"
    /\ p.version.form # "none"
    /\ ~p.sha

ValidateNPM(p, server, answer) == ByNameAndVersion(p) /\ answer = server

\* The README has the name after "mcp-name: ", and may go on.
ValidatePyPI(p, server, answer) == ByNameAndVersion(p) /\ answer \in Extensions[server]

ValidateNuGet(p, server, answer) == ByNameAndVersion(p) /\ answer \in Extensions[server]

\* An image of a registry that is listed; one that limits the rate is believed.
ValidateOCI(p, server, answer) ==
    /\ p.identifier = "good"
    /\ p.base = "none"
    /\ p.version.form = "none"
    /\ ~p.sha
    /\ answer \in {server, "rate limited"}

\* The asset of a release, under a URL with "mcp" in it, that is there.
ValidateMCPB(p, answer) ==
    /\ p.sha
    /\ p.identifier = "good"
    /\ p.base = "none"
    /\ answer \in Metadata \ {"missing"}

ValidatePackage(p, server, answer) ==
    \/ p.type = "npm" /\ ValidateNPM(p, server, answer)
    \/ p.type = "pypi" /\ ValidatePyPI(p, server, answer)
    \/ p.type = "nuget" /\ ValidateNuGet(p, server, answer)
    \/ p.type = "oci" /\ ValidateOCI(p, server, answer)
    \/ p.type = "mcpb" /\ ValidateMCPB(p, answer)

Answered(answer) ==
    /\ pc = "packages"
    /\ next \in DOMAIN doc.packages
    /\ answer \in {metadata[next]} \cup NoAnswer
    /\ shown' = [shown EXCEPT ![next] = @ \cup {answer}]

\* Slip: a rate limit ends the validation of all packages.
CheckUntilLimited ==
    \E answer \in Metadata \cup NoAnswer :
        /\ Answered(answer)
        /\ \/ /\ ValidatePackage(doc.packages[next], doc.name, answer)
              /\ next' = IF answer \in NoAnswer THEN Len(doc.packages) + 1 ELSE next + 1
              /\ UNCHANGED pc
           \/ /\ ~ValidatePackage(doc.packages[next], doc.name, answer)
              /\ pc' = "refused"
              /\ UNCHANGED next
        /\ UNCHANGED <<doc, metadata>>

\* One round of the loop; a look-up fails at its timeout if not before.
CheckPackage ==
    \E answer \in Metadata \cup NoAnswer :
        /\ Answered(answer)
        /\ \/ /\ ValidatePackage(doc.packages[next], doc.name, answer)
              /\ next' = next + 1
              /\ UNCHANGED pc
           \/ /\ ~ValidatePackage(doc.packages[next], doc.name, answer)
              /\ pc' = "refused"
              /\ UNCHANGED next
        /\ UNCHANGED <<doc, metadata>>

Accept ==
    /\ pc = "packages"
    /\ next \notin DOMAIN doc.packages
    /\ pc' = "accepted"
    /\ UNCHANGED <<doc, next, metadata, shown>>

Respond ==
    /\ pc \in Decided
    /\ pc' = "idle"
    /\ doc' = NoDocument
    /\ next' = 1
    /\ metadata' = <<>>
    /\ shown' = <<>>

\* A version is released or withdrawn; a tag or an asset is also replaced.
Release(i, m) ==
    /\ pc \in Running
    /\ metadata[i] # m
    /\ doc.packages[i].type \in {"oci", "mcpb"} \/ "missing" \in {metadata[i], m}
    /\ metadata' = [metadata EXCEPT ![i] = m]
    /\ shown' = [shown EXCEPT ![i] = @ \cup {m}]
    /\ UNCHANGED <<pc, doc, next>>

Next ==
    \/ \E d \in Documents : Submit(d)
    \/ ValidateFields
    \/ CheckPackage
    \/ Accept
    \/ Respond
    \/ \E i \in DOMAIN doc.packages, m \in Metadata : Release(i, m)

Spec == Init /\ [][Next]_vars

-----------------------------------------------------------------------------
\* The registry of a package has said that its server is this one and no other.
Owned(i) == doc.name \in shown[i]

\* What the validators take for it: a bundle that is there, whatever server it is
\* for; an image whose registry limits the rate; a page with a longer name.
TakenForOwned(i) ==
    LET type == doc.packages[i].type
    IN  \/ type = "mcpb" /\ shown[i] \cap (Metadata \ {"missing"}) # {}
        \/ type = "oci" /\ "rate limited" \in shown[i]
        \/ type \in {"pypi", "nuget"} /\ shown[i] \cap Extensions[doc.name] # {}

\* Every package of an accepted document, each for itself, was owned by the
\* publisher at some time of the request, except for what is taken for it.
AcceptedOwned ==
    pc = "accepted" => \A i \in DOMAIN doc.packages : Owned(i) \/ TakenForOwned(i)

\* Values as clients have them, each for a variable that is named for it.
ValuesOf(host, port, scheme, word) ==
    [v \in Variables |->
        CASE v = "{host}" -> host
          [] v = "{port}" -> port
          [] v = "{protocol}" -> scheme
          [] OTHER -> word]

Values ==
    {ValuesOf(host, port, scheme, word) :
        host \in Hosts, port \in Ports, scheme \in {"http", "https"}, word \in Words}

\* Whatever values a client has, they make a URL with a host, and it is told of all
\* the variables.
Startable(p) ==
    p.transport.type = "stdio" \/
    /\ \A values \in Values :
           LET u == Substitute(p.transport.url, values)
           IN  WellFormed(u) /\ u.host # ""
    /\ extractTemplateVariables(p.transport.url)
           \subseteq p.environment \cup UNION {a.variables : a \in p.arguments}

\* The packages of what has been accepted can be started with any such values,
\* although their URLs were tried with one only; except for a URL of a port
\* without a host, which url.Parse takes for one with a host.
AcceptedStartable ==
    pc = "accepted" =>
        \A i \in DOMAIN doc.packages :
            \/ Startable(doc.packages[i])
            \/ doc.packages[i].transport.url.host = ""

\* A version of numbers, with or without a tag and a build.
Specific(v) == v.form = "single" /\ ~v.wild /\ v.tag # "with x"

\* A variable is in the place that its name says.
Customary(u) ==
    /\ u.scheme \in {"http", "https", "{protocol}"}
    /\ u.host \in {"example.com", "{host}", "{base}"}
    /\ u.port \in {"", "8080", "{port}"}

\* What the documentation asks for.
Good(d) ==
    /\ d.schemaCurrent /\ d.descriptionFits /\ ~d.blankTitle /\ d.extensionsFit
    /\ d.name \in Servers
    /\ Specific(d.version)
    /\ d.repository.source \in {"none", "github", "gitlab"}
    /\ d.repository.site = d.repository.source /\ d.repository.cleanSubfolder
    /\ \A u \in d.links : Customary(u) /\ u.scheme = "https" /\ extractTemplateVariables(u) = {}
    /\ \A r \in d.remotes : /\ r.type \in OverHTTP
                            /\ Customary(r.url) /\ r.url.scheme = "https"
                            /\ extractTemplateVariables(r.url) = {}
    /\ \A i \in DOMAIN d.packages :
           LET p == d.packages[i]
           IN  /\ p.identifier = "good" /\ p.base = "none"
               /\ p.sha = (p.type = "mcpb")
               /\ p.type \in {"npm", "pypi", "nuget", "oci", "mcpb"}
               /\ IF p.type = "oci" THEN p.version.form = "none" ELSE Specific(p.version)
               /\ \A a \in p.arguments : ~a.badName /\ ~a.startsWithName
               /\ \/ p.transport.type = "stdio" /\ p.transport.url = NoURL
                  \/ p.transport.type \in OverHTTP /\ Customary(p.transport.url) /\ Startable(p)

\* What is a cause to refuse a package: that it is another server's or not there, or
\* that its registry does not answer, except by a limit of the rate for images.
Cause(type, server) ==
    CASE type = "npm" -> NoAnswer \cup (Metadata \ {server})
      [] type = "oci" -> {"failed"} \cup (Metadata \ {server})
      [] type = "mcpb" -> NoAnswer \cup {"missing"}
      [] OTHER -> NoAnswer \cup (Metadata \ Extensions[server])

\* The registry of a package has given cause to refuse it.
Refuted == \E i \in DOMAIN doc.packages : shown[i] \cap Cause(doc.packages[i].type, doc.name) # {}

\* A document that keeps to the documentation is not refused unless a registry has
\* given cause while the request was served.
RefusedForCause == pc = "refused" => ~Good(doc) \/ Refuted
=============================================================================
