-------------------------- MODULE ValidationProofs --------------------------
(***************************************************************************)
(* Proofs about Validation: what is accepted was owned by its publisher,   *)
(* and can be started, whatever the package registries do and clients      *)
(* have; what is refused has given cause.                                  *)
(***************************************************************************)
EXTENDS InitCommand, TLAPS

Shown(i) == Owned(i) \/ TakenForOwned(i)

\* The packages before the one whose turn it is have been looked up.
PassedShown == \A i \in DOMAIN doc.packages : i < next => Shown(i)

Inv ==
    /\ TypeOK
    /\ RefusedForCause
    /\ PassedShown
    /\ pc \in {"packages", "accepted"} => ValidateServerJSON(doc)
    /\ pc = "accepted" => next \notin DOMAIN doc.packages

-----------------------------------------------------------------------------
\* The validators of the five registries let pass what names the server only, and
\* the exceptions.
LEMMA PassedOwned ==
    ASSUME NEW p, NEW server, NEW answer, ValidatePackage(p, server, answer)
    PROVE  \/ answer = server
           \/ p.type = "mcpb" /\ answer \in Metadata \ {"missing"}
           \/ p.type = "oci" /\ answer = "rate limited"
           \/ p.type \in {"pypi", "nuget"} /\ answer \in Extensions[server]
<1>1. CASE p.type = "npm" /\ ValidateNPM(p, server, answer)
  BY <1>1 DEF ValidateNPM
<1>2. CASE p.type = "pypi" /\ ValidatePyPI(p, server, answer)
  BY <1>2 DEF ValidatePyPI
<1>3. CASE p.type = "nuget" /\ ValidateNuGet(p, server, answer)
  BY <1>3 DEF ValidateNuGet
<1>4. CASE p.type = "oci" /\ ValidateOCI(p, server, answer)
  BY <1>4 DEF ValidateOCI
<1>5. CASE p.type = "mcpb" /\ ValidateMCPB(p, answer)
  BY <1>5 DEF ValidateMCPB
<1> QED BY <1>1, <1>2, <1>3, <1>4, <1>5 DEF ValidatePackage

\* The parts of a URL whose variables have got values.
LEMMA SubstituteParts ==
    ASSUME NEW u, NEW values
    PROVE  /\ Substitute(u, values).scheme = IF u.scheme \in Variables THEN values[u.scheme] ELSE u.scheme
           /\ Substitute(u, values).host = IF u.host \in Variables THEN values[u.host] ELSE u.host
           /\ Substitute(u, values).port = IF u.port \in Variables THEN values[u.port] ELSE u.port
BY DEF Substitute

\* A variable for which the placeholder is a scheme or a port is one for which every
\* client has a scheme or a port, and no value is a variable or empty.
LEMMA ValuesSuit ==
    ASSUME NEW values \in Values, NEW v \in Variables
    PROVE  /\ Placeholder[v] \in {"http", "https"} => values[v] \in {"http", "https"}
           /\ Placeholder[v] \in {""} \cup Ports => values[v] \in Ports
           /\ values[v] \notin Variables \cup {""}
<1>1. PICK host \in Hosts, port \in Ports, scheme \in {"http", "https"}, word \in Words :
          values = ValuesOf(host, port, scheme, word)
  BY DEF Values
<1> USE DEF ValuesOf
<1>2. CASE v = "{host}"
  BY <1>1, <1>2 DEF Variables, Hosts, Ports, Placeholder
<1>3. CASE v = "{port}"
  BY <1>1, <1>3 DEF Variables, Ports, Placeholder
<1>4. CASE v = "{protocol}"
  BY <1>1, <1>4 DEF Variables, Ports, Placeholder
<1>5. CASE v \in {"{path}", "{base}"}
  BY <1>1, <1>5 DEF Variables, Words, Ports, Placeholder
<1> QED BY <1>2, <1>3, <1>4, <1>5 DEF Variables

\* A URL that is well formed with the placeholders is so with all values.
LEMMA ValidWithValues ==
    ASSUME NEW u, IsValidURL(u), u.host # "", NEW values \in Values
    PROVE  WellFormed(Substitute(u, values)) /\ Substitute(u, values).host # ""
<1> DEFINE r == replaceTemplateVariables(u)
           s == Substitute(u, values)
<1>1. /\ r.scheme = IF u.scheme \in Variables THEN Placeholder[u.scheme] ELSE u.scheme
      /\ r.port = IF u.port \in Variables THEN Placeholder[u.port] ELSE u.port
  BY SubstituteParts DEF replaceTemplateVariables
<1>2. r.scheme \in {"http", "https"} /\ r.port \in {""} \cup Ports
  BY DEF IsValidURL, WellFormed, Parses
<1>3. s.scheme \in {"http", "https"}
  BY <1>1, <1>2, SubstituteParts, ValuesSuit
<1>4. s.port \in {""} \cup Ports
  BY <1>1, <1>2, SubstituteParts, ValuesSuit
<1>5. s.host \notin Variables \cup {""}
  BY SubstituteParts, ValuesSuit
<1>6. s.scheme \notin Variables
  BY <1>3 DEF Variables
<1> HIDE DEF r, s
<1>7. WellFormed(s) /\ s.host # ""
  BY <1>3, <1>4, <1>5, <1>6 DEF WellFormed, Parses
<1> QED BY <1>7 DEF s

\* A transport that is valid has a URL for every client, if it has a host.
LEMMA ValidStartable ==
    ASSUME NEW p, validatePackageField(p), p.transport.url.host # "" PROVE Startable(p)
<1>1. CASE p.transport.type = "stdio"
  BY <1>1 DEF Startable
<1>2. CASE /\ IsValidURL(p.transport.url)
           /\ extractTemplateVariables(p.transport.url) \subseteq collectAvailableVariables(p)
  BY <1>2, ValidWithValues DEF Startable, collectAvailableVariables
<1> QED
  BY <1>1, <1>2 DEF validatePackageField, validatePackageTransport, IsValidTemplatedURL

-----------------------------------------------------------------------------
\* The rules refuse nothing that keeps to the documentation.

LEMMA SpecificPasses == ASSUME NEW v, Specific(v) \/ v.form = "none" PROVE validateVersion(v)
BY DEF Specific, validateVersion, looksLikeVersionRange

LEMMA CustomaryValid == ASSUME NEW u, Customary(u) PROVE IsValidURL(u) /\ u # NoURL
<1> DEFINE r == replaceTemplateVariables(u)
<1>1. /\ r.scheme = IF u.scheme \in Variables THEN Placeholder[u.scheme] ELSE u.scheme
      /\ r.host = IF u.host \in Variables THEN Placeholder[u.host] ELSE u.host
      /\ r.port = IF u.port \in Variables THEN Placeholder[u.port] ELSE u.port
  BY DEF replaceTemplateVariables, Substitute
<1>2. r.scheme \in {"http", "https"}
  BY <1>1 DEF Customary, Placeholder, Variables
<1>3. r.host \in {"example.com", "placeholder"}
  BY <1>1 DEF Customary, Placeholder, Variables
<1>4. r.port \in {"", "8080"}
  BY <1>1 DEF Customary, Placeholder, Variables
<1>5. IsValidURL(u)
  BY <1>2, <1>3, <1>4 DEF IsValidURL, WellFormed, Parses, Variables, Ports
<1>6. u.scheme # "" /\ NoURL.scheme = ""
  BY DEF Customary, NoURL
<1> QED BY <1>5, <1>6

LEMMA CustomaryParses ==
    ASSUME NEW u, Customary(u), u.scheme = "https", extractTemplateVariables(u) = {}
    PROVE  Parses(u) /\ u.host \notin Local
<1>1. u.host \notin Variables /\ u.port \notin Variables
  BY DEF extractTemplateVariables
<1> QED BY <1>1 DEF Customary, Parses, Variables, Local, Ports

LEMMA GoodValid == ASSUME NEW d \in Document, Good(d) PROVE ValidateServerJSON(d)
<1>1. d.schemaCurrent /\ parseServerName(d) /\ validateVersion(d.version) /\ ~d.blankTitle
  BY SpecificPasses DEF Good, parseServerName
<1>2. validateRepository(d.repository)
  BY DEF Good, validateRepository, IsValidRepositoryURL
<1>3. validateLinks(d.links)
  BY CustomaryParses DEF Good, validateLinks
<1>4. \A r \in d.remotes : validateRemoteTransport(r)
  BY CustomaryParses, CustomaryValid DEF Good, validateRemoteTransport, IsValidRemoteURL
<1>5. ASSUME NEW i \in DOMAIN d.packages PROVE validatePackageField(d.packages[i])
  <2> DEFINE p == d.packages[i]
  <2>1. p.identifier = "good" /\ validateVersion(p.version) /\ \A a \in p.arguments : validateArgument(a)
    BY <1>5, SpecificPasses DEF Good, validateArgument
  <2>2. \/ p.transport.type = "stdio" /\ p.transport.url = NoURL
        \/ p.transport.type \in OverHTTP /\ Customary(p.transport.url) /\ Startable(p)
    BY <1>5 DEF Good
  <2>3. validatePackageTransport(p.transport, collectAvailableVariables(p))
    BY <2>2, CustomaryValid
    DEF validatePackageTransport, IsValidTemplatedURL, Startable, OverHTTP, collectAvailableVariables
  <2> QED BY <2>1, <2>3 DEF validatePackageField
<1> QED BY <1>1, <1>2, <1>3, <1>4, <1>5 DEF ValidateServerJSON

\* A validator that refuses such a package has been given cause.
LEMMA RefusedWithCause ==
    ASSUME NEW d \in Document, Good(d), NEW i \in DOMAIN d.packages,
           NEW answer \in Metadata \cup NoAnswer, ~ValidatePackage(d.packages[i], d.name, answer)
    PROVE  answer \in Cause(d.packages[i].type, d.name)
<1> DEFINE p == d.packages[i]
<1>1. /\ p.identifier = "good" /\ p.base = "none" /\ p.sha = (p.type = "mcpb")
      /\ p.type \in {"npm", "pypi", "nuget", "oci", "mcpb"}
      /\ IF p.type = "oci" THEN p.version.form = "none" ELSE Specific(p.version)
  BY DEF Good
<1>2. CASE p.type = "oci"
  BY <1>1, <1>2 DEF ValidatePackage, ValidateOCI, Cause, NoAnswer
<1>3. CASE p.type = "mcpb"
  BY <1>1, <1>3 DEF ValidatePackage, ValidateMCPB, Cause, NoAnswer
<1>4. CASE p.type \in {"npm", "pypi", "nuget"}
  <2>1. ByNameAndVersion(p)
    BY <1>1, <1>4 DEF ByNameAndVersion, Specific
  <2>2. CASE p.type = "npm"
    BY <2>1, <2>2 DEF ValidatePackage, ValidateNPM, Cause
  <2>3. CASE p.type \in {"pypi", "nuget"}
    BY <2>1, <2>3 DEF ValidatePackage, ValidatePyPI, ValidateNuGet, Cause
  <2> QED BY <1>4, <2>2, <2>3
<1> QED BY <1>1, <1>2, <1>3, <1>4

-----------------------------------------------------------------------------
LEMMA InitInv == Init => Inv
BY DEF Init, Inv, RefusedForCause, TypeOK, NoDocument, PassedShown, Running, Decided

LEMMA SubmitInv == ASSUME Inv, NEW d \in Documents, Submit(d) PROVE Inv'
<1>1. PICK m \in [DOMAIN d.packages -> Metadata] :
          metadata' = m /\ shown' = [i \in DOMAIN m |-> {m[i]}]
  BY DEF Submit
<1>2. d \in Document /\ d.packages \in Seq(Package)
  BY ValidationAssumption DEF Document
<1>3. shown' \in [DOMAIN d.packages -> SUBSET (Metadata \cup NoAnswer)]
  BY <1>1
<1>4. next = 1
  BY DEF Submit, Inv, TypeOK, Running, Decided, NoDocument
<1>5. TypeOK'
  BY <1>1, <1>2, <1>3, <1>4 DEF Submit, TypeOK, Running
<1>6. PassedShown'
  BY <1>2, <1>4 DEF PassedShown, Submit
<1> QED BY <1>5, <1>6 DEF Inv, RefusedForCause, Submit

LEMMA ValidateFieldsInv == ASSUME Inv, ValidateFields PROVE Inv'
<1>1. TypeOK' /\ PassedShown'
  BY DEF Inv, TypeOK, PassedShown, Shown, Owned, TakenForOwned, ValidateFields, Running, Decided
<1>2. pc' = "packages" => ValidateServerJSON(doc)
  BY DEF ValidateFields
<1>3. pc' \in {"packages", "refused"} /\ doc' = doc
  BY DEF ValidateFields
<1>4. ValidateServerJSON(doc) => ValidateServerJSON(doc)'
  BY <1>3 DEF ValidateServerJSON
<1>5. RefusedForCause'
  <2>1. SUFFICES ASSUME pc' = "refused", Good(doc) PROVE FALSE
    BY <1>3 DEF RefusedForCause, Good
  <2>2. pc = "fields" /\ doc \in Document
    BY DEF ValidateFields, Inv, TypeOK
  <2>3. doc.descriptionFits /\ doc.extensionsFit /\ ValidateServerJSON(doc)
    BY <2>1, <2>2, GoodValid DEF Good
  <2> QED BY <2>1, <2>3 DEF ValidateFields
<1> QED BY <1>1, <1>2, <1>3, <1>4, <1>5 DEF Inv

\* What has been shown is never taken back.
LEMMA ShownStays ==
    ASSUME Inv, NEW i \in DOMAIN doc.packages, NEW k \in DOMAIN doc.packages, NEW answer,
           shown' = [shown EXCEPT ![k] = @ \cup {answer}], doc' = doc, Shown(i)
    PROVE  Shown(i)'
<1>1. shown[i] \subseteq shown'[i]
  BY DEF Inv, TypeOK
<1> QED BY <1>1 DEF Shown, Owned, TakenForOwned

LEMMA CheckPackageInv == ASSUME Inv, CheckPackage PROVE Inv'
<1>1. PICK answer \in Metadata \cup NoAnswer :
          /\ Answered(answer)
          /\ \/ /\ ValidatePackage(doc.packages[next], doc.name, answer)
                /\ next' = next + 1
                /\ UNCHANGED pc
             \/ /\ ~ValidatePackage(doc.packages[next], doc.name, answer)
                /\ pc' = "refused"
                /\ UNCHANGED next
          /\ UNCHANGED <<doc, metadata>>
  BY DEF CheckPackage
<1>2. /\ pc = "packages" /\ doc' = doc /\ doc \in Document
      /\ next \in DOMAIN doc.packages /\ next \in 1..Len(doc.packages)
      /\ DOMAIN doc.packages = 1..Len(doc.packages) /\ Len(doc.packages) \in Nat
      /\ shown' = [shown EXCEPT ![next] = @ \cup {answer}]
  <2>1. pc = "packages" /\ doc' = doc /\ next \in DOMAIN doc.packages
        /\ shown' = [shown EXCEPT ![next] = @ \cup {answer}]
    BY <1>1 DEF Answered
  <2>2. doc \in Document
    BY <2>1 DEF Inv, TypeOK
  <2>3. doc.packages \in Seq(Package)
    BY <2>2 DEF Document
  <2> QED BY <2>1, <2>2, <2>3
<1>3. shown' \in [DOMAIN doc.packages -> SUBSET (Metadata \cup NoAnswer)]
  BY <1>2 DEF Inv, TypeOK
<1>4. next' \in 1..(Len(doc.packages) + 1) /\ pc' \in {"packages", "refused"}
  BY <1>1, <1>2
<1>5. TypeOK'
  BY <1>1, <1>2, <1>3, <1>4 DEF Inv, TypeOK, Running, Decided
<1>6. PassedShown'
  <2>1. SUFFICES ASSUME NEW i \in DOMAIN doc.packages, i < next' PROVE Shown(i)'
    BY <1>2 DEF PassedShown
  <2>2. CASE i < next
    BY <1>2, <2>2, ShownStays DEF Inv, PassedShown
  <2>3. CASE i = next /\ ValidatePackage(doc.packages[next], doc.name, answer)
    <3>1. answer \in shown'[i]
      BY <1>2, <2>3 DEF Inv, TypeOK
    <3>2. ASSUME NEW p, p = doc.packages[i], ValidatePackage(p, doc.name, answer)
          PROVE  Shown(i)'
      BY <1>2, <3>1, <3>2, PassedOwned DEF Shown, Owned, TakenForOwned
    <3> QED BY <2>3, <3>2
  <2> QED BY <1>1, <1>2, <2>1, <2>2, <2>3
<1>7. ValidateServerJSON(doc)'
  BY <1>2 DEF Inv, ValidateServerJSON
<1>8. RefusedForCause'
  <2>1. SUFFICES ASSUME pc' = "refused", Good(doc)
                 PROVE  answer \in Cause(doc.packages[next].type, doc.name)
    <3>1. answer \in shown'[next]
      BY <1>2 DEF Inv, TypeOK
    <3> QED BY <1>2, <3>1 DEF RefusedForCause, Refuted, Good, Cause
  <2>2. ~ValidatePackage(doc.packages[next], doc.name, answer)
    BY <1>1, <1>2, <2>1
  <2> QED BY <1>2, <2>1, <2>2, RefusedWithCause
<1> QED BY <1>4, <1>5, <1>6, <1>7, <1>8 DEF Inv

LEMMA ReleaseInv ==
    ASSUME Inv, NEW i \in DOMAIN doc.packages, NEW m \in Metadata, Release(i, m) PROVE Inv'
<1>1. /\ shown' = [shown EXCEPT ![i] = @ \cup {m}] /\ metadata' = [metadata EXCEPT ![i] = m]
      /\ UNCHANGED <<pc, doc, next>>
  BY DEF Release
<1>2. TypeOK'
  BY <1>1 DEF Inv, TypeOK
<1>3. PassedShown'
  BY <1>1, ShownStays DEF Inv, PassedShown
<1>4. ValidateServerJSON(doc) => ValidateServerJSON(doc)'
  BY <1>1 DEF ValidateServerJSON
<1>5. RefusedForCause'
  BY <1>1 DEF Release, Running, RefusedForCause
<1> QED BY <1>1, <1>2, <1>3, <1>4, <1>5 DEF Inv

LEMMA NextInv == Inv /\ [Next]_vars => Inv'
<1> SUFFICES ASSUME Inv, [Next]_vars PROVE Inv'
  OBVIOUS
<1>1. CASE \E d \in Documents : Submit(d)
  BY <1>1, SubmitInv
<1>2. CASE ValidateFields
  BY <1>2, ValidateFieldsInv
<1>3. CASE CheckPackage
  BY <1>3, CheckPackageInv
<1>4. CASE Accept \/ UNCHANGED vars
  <2>1. TypeOK' /\ PassedShown'
    BY <1>4 DEF Accept, vars, Inv, TypeOK, PassedShown, Shown, Owned, TakenForOwned, Decided
  <2>2. doc' = doc /\ (pc' = "packages" => pc = "packages") /\ (pc' = "accepted" => pc \in {"packages", "accepted"})
    BY <1>4 DEF Accept, vars
  <2>3. ValidateServerJSON(doc) => ValidateServerJSON(doc)'
    BY <2>2 DEF ValidateServerJSON
  <2>4. pc' = "accepted" => next' \notin DOMAIN doc'.packages
    BY <1>4 DEF Accept, vars, Inv
  <2>5. RefusedForCause'
    <3>1. CASE Accept
      BY <3>1 DEF Accept, RefusedForCause
    <3>2. CASE UNCHANGED vars
      BY <3>2 DEF vars, Inv, RefusedForCause, Refuted, Good, Cause
    <3> QED BY <1>4, <3>1, <3>2
  <2> QED BY <2>1, <2>2, <2>3, <2>4, <2>5 DEF Inv
<1>5. CASE Respond
  BY <1>5 DEF Respond, Inv, RefusedForCause, TypeOK, PassedShown, NoDocument, Running, Decided
<1>6. CASE \E i \in DOMAIN doc.packages, m \in Metadata : Release(i, m)
  BY <1>6, ReleaseInv
<1> QED BY <1>1, <1>2, <1>3, <1>4, <1>5, <1>6 DEF Next

LEMMA InvSafe == Inv => TypeOK /\ AcceptedOwned /\ AcceptedStartable /\ RefusedForCause
<1> SUFFICES ASSUME Inv, pc = "accepted" PROVE AcceptedOwned /\ AcceptedStartable
  BY DEF Inv, RefusedForCause, AcceptedOwned, AcceptedStartable
<1>1. doc.packages \in Seq(Package) /\ next \in 1..(Len(doc.packages) + 1)
  BY DEF Inv, TypeOK, Document
<1>2. \A i \in DOMAIN doc.packages : i < next
  BY <1>1 DEF Inv
<1>3. AcceptedOwned
  BY <1>2 DEF Inv, PassedShown, Shown, AcceptedOwned
<1>4. \A i \in DOMAIN doc.packages : validatePackageField(doc.packages[i])
  BY DEF Inv, ValidateServerJSON
<1>5. AcceptedStartable
  BY <1>4, ValidStartable DEF AcceptedStartable
<1> QED BY <1>3, <1>5

LEMMA Safe == Spec => []Inv
BY InitInv, NextInv, PTL DEF Spec

\* The document, the package whose turn it is and what its registry has said
\* keep their types for any documents.
THEOREM TypeCorrect == Spec => []TypeOK
BY Safe, InvSafe, PTL

\* For any documents, and whatever is released, withdrawn or not answered while
\* a request is served: each package of what is accepted was its server's at some
\* time of the request, but for the exceptions that are named.
THEOREM OwnedTheorem == Spec => []AcceptedOwned
BY Safe, InvSafe, PTL

\* A URL that was tried with placeholders is one for whatever values a client has.
THEOREM StartableTheorem == Spec => []AcceptedStartable
BY Safe, InvSafe, PTL

\* What keeps to the documentation is refused for an answer of a package's
\* registry, or for want of one, and for nothing else.
THEOREM CauseTheorem == Spec => []RefusedForCause
BY Safe, InvSafe, PTL

-----------------------------------------------------------------------------
\* The draft for a clone keeps to the documentation: a remote in the form of scp
\* is rewritten, and the name is that of the repository or of the directory.
LEMMA CloneGood == ASSUME NEW d \in CloneDrafts PROVE Good(d)
<1>1. PICK w \in Workdirs : Clone(w) /\ Copyable(w) /\ d = createServerJSON(w)
  BY DEF CloneDrafts
<1> DEFINE url == detectRepoURL(w)
           type == detectPackageType(w)
           identifier == detectPackageIdentifier(w, type)
           p == DraftPackage(type, identifier)
<1>2. url = Rewritten(w.origin, "scp")
  BY <1>1 DEF Clone, detectRepoURL
<1>3. url.host = "github" /\ url.form = "https" /\ url.name = w.origin.name
  BY <1>1, <1>2, InitAssumption DEF Clone, Rewritten, Workdir, Remote
<1>4. w.folderName # None
  BY <1>1, InitAssumption DEF Workdir
<1>5. detectServerName(w) = IF w.below THEN w.folderName ELSE w.origin.name
  BY <1>3, <1>4 DEF detectServerName, buildGitHubServerName, detectSubfolder
<1>6. detectServerName(w) \in Servers
  BY <1>1, <1>5 DEF Clone
<1>7. /\ DraftRepository(url, w).source = "github" /\ DraftRepository(url, w).site = "github"
      /\ DraftRepository(url, w).cleanSubfolder
  BY <1>1, <1>3 DEF Clone, DraftRepository, detectSubfolder
<1>8. Specific(One)
  BY DEF Specific, One
<1>9. type \in {"npm", "pypi", "oci"} /\ identifier = "good"
  <2>1. w.pythonProject \in {"none", "plain", "commented"} /\ w.dockerfile \in BOOLEAN
    BY <1>1, InitAssumption DEF Workdir
  <2>2. CASE w.packageJSON # None
    BY <2>2 DEF detectPackageType, detectPackageIdentifier
  <2>3. CASE w.packageJSON = None /\ w.pythonProject # "none"
    BY <1>1, <2>3 DEF Copyable, detectPackageType, detectPackageIdentifier
  <2>4. CASE w.packageJSON = None /\ w.pythonProject = "none" /\ w.dockerfile
    BY <1>1, <1>5, <2>4 DEF Copyable, detectPackageType, detectPackageIdentifier
  <2>5. CASE w.packageJSON = None /\ w.pythonProject = "none" /\ ~w.dockerfile
    BY <2>5 DEF detectPackageType, detectPackageIdentifier
  <2> QED BY <2>1, <2>2, <2>3, <2>4, <2>5
<1>10. \A i \in DOMAIN d.packages : d.packages[i] = p
  BY <1>1 DEF createServerJSON
<1>11. /\ p.identifier = "good" /\ p.base = "none" /\ p.sha = (p.type = "mcpb")
       /\ p.type \in {"npm", "pypi", "nuget", "oci", "mcpb"}
       /\ IF p.type = "oci" THEN p.version.form = "none" ELSE Specific(p.version)
       /\ p.arguments = {} /\ p.transport.type = "stdio" /\ p.transport.url = NoURL
  <2> HIDE DEF type, identifier
  <2> QED BY <1>8, <1>9 DEF DraftPackage, One
<1>12. /\ d.schemaCurrent /\ ~d.blankTitle /\ d.extensionsFit /\ d.name \in Servers
       /\ d.version = One /\ d.repository = DraftRepository(url, w)
       /\ d.links = {} /\ d.remotes = {}
  BY <1>1, <1>6 DEF createServerJSON
<1>13. d.descriptionFits
  BY <1>1 DEF createServerJSON, detectDescription, Copyable
<1> HIDE DEF p
<1> QED BY <1>7, <1>8, <1>10, <1>11, <1>12, <1>13 DEF Good

\* Whatever is in the directory of a clone from GitHub, the server.json that init
\* drafts there breaks no rule of the registry, if what it copies breaks none.
THEOREM DraftsTheorem == Spec => []DraftsPublishable
<1>1. RefusedForCause => DraftsPublishable
  BY CloneGood DEF RefusedForCause, DraftsPublishable
<1> QED BY <1>1, CauseTheorem, PTL
=============================================================================
