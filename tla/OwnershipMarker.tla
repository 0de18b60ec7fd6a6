---- MODULE OwnershipMarker ----
(* The ownership marker of an upload: what an upload or an upgrade declares, *)
(* how a declaration is validated, encoded and decoded, in every version     *)
(* this release reads, and what becomes of a directory's marker over reads   *)
(* and rewrites.                                                             *)
EXTENDS BundlePaths, Selections

CONSTANTS
    Inputs,     \* document bundles callers upload
    Members,    \* lists of file names callers upload as collections
    Bodies      \* marker bodies other releases, or other programs, left

Current == 7

VARIABLES
    body,       \* the stored marker body: a function from its field names
    size,       \* "small" fits every version, "large" only the current one
    record,     \* <<>>, or the record a reader last decoded from the body
    written,    \* <<>>, or the record this program last encoded into the body
    stage       \* what happened last

vars == <<body, size, record, written, stage>>

NoBody == [version |-> 0]

(***************************************************************************)
(* Records                                                                 *)
(***************************************************************************)
Object(name, role, bytes, digest) == [name |-> name, role |-> role, bytes |-> bytes, digest |-> digest]

Descriptor(path, page, source, format) ==
    [path |-> path, page |-> page, source |-> source, format |-> format]

\* Lists, as the program's slices are, and lists of descriptors.
IsList(s) == s \in Seq({s[i] : i \in DOMAIN s})
IsPages(s) ==
    /\ IsList(s)
    /\ \A i \in DOMAIN s : s[i] = Descriptor(s[i].path, s[i].page, s[i].source, s[i].format)

ASSUME MarkerAssumption ==
    /\ \A input \in Inputs : IsList(input.pages) /\ IsList(input.assets)
    /\ \A members \in Members : IsList(members)
    /\ \A b \in Bodies :
           /\ "objects" \in DOMAIN b => IsList(b.objects)
           /\ "pages" \in DOMAIN b => IsPages(b.pages)

Blank ==
    [version |-> Current, kind |-> "document", slug |-> "", format |-> "", objects |-> <<>>,
     title |-> "", repo |-> "", producer |-> "", render |-> <<>>, revision |-> <<>>,
     entrypoint |-> NoPath, pages |-> <<>>, page |-> NoPath, pageBytes |-> 0, pageDigest |-> "",
     source |-> NoPath]

NamesOf(objects) == {objects[i].name : i \in DOMAIN objects}
OfRole(objects, role) == Picked(objects, {i \in DOMAIN objects : objects[i].role = role})
Unlike(objects, role) == Picked(objects, {i \in DOMAIN objects : objects[i].role # role})
Named(objects, name) == Picked(objects, {i \in DOMAIN objects : objects[i].name = name})[1]

\* Views for callers that predate version 3.
WithViews(m) ==
    IF m.version >= 6 /\ m.kind = "document"
    THEN LET entry == Named(m.objects, m.entrypoint)
         IN  [m EXCEPT !.page = m.entrypoint, !.pageBytes = entry.bytes, !.pageDigest = entry.digest,
                       !.source = IF m.pages # <<>> THEN m.pages[1].source ELSE NoPath]
    ELSE LET page == OfRole(m.objects, "page")[1]
             sources == OfRole(m.objects, "source")
         IN  [m EXCEPT !.page = page.name, !.pageBytes = page.bytes, !.pageDigest = page.digest,
                       !.source = IF sources # <<>> THEN sources[1].name ELSE NoPath]

\* Versions 1 and 2 declare a page and a source; readers see them as objects.
WithObjects(m) ==
    [m EXCEPT !.kind = "document",
              !.slug = m.page[1][1],
              !.objects = <<Object(m.page, "page", m.pageBytes, "")>>
                  \o (IF m.source = NoPath THEN <<>> ELSE <<Object(m.source, "source", 0, "")>>)]

(***************************************************************************)
(* Validation                                                              *)
(***************************************************************************)
IsPageName(path) ==
    Len(path) = 1 /\ Len(path[1]) = 2 /\ path[1][2] = "html" /\ path[1][1] # "" /\ Lower[path[1][1]] = path[1][1]

TextSource(path, slug) ==
    /\ Len(path) = 1 /\ Len(path[1]) = 2
    /\ path[1][1] = slug /\ path[1][2] \notin {"", "html", "htm"}
    /\ Lower[path[1][2]] = path[1][2]

SourceMatches(m, slug, source) ==
    CASE m.format = "md" -> source = NoPath \/ source = <<<<slug, "md">>>>
      [] m.format = "html" -> source = NoPath
      [] m.format = "txt" -> source = NoPath \/ TextSource(source, slug)
      [] OTHER -> FALSE

ValidLegacy(m) ==
    /\ m.version = 1 => m.pageBytes = 0 /\ m.repo = ""
    /\ m.version = 2 => m.pageBytes > 0
    /\ IsPageName(m.page)
    /\ SourceMatches(m, m.page[1][1], m.source)

ValidObject(m, o) ==
    /\ CASE m.version < 6 -> ValidObjectName(o.name)
         [] m.kind = "collection" /\ o.role = "page" -> ValidObjectName(o.name)
         [] m.kind = "collection" /\ o.role = "file" -> ValidCollectionName(o.name)
         [] m.kind = "collection" -> FALSE
         [] OTHER -> ValidObjectPath(o.name) \/ o.name = DiffName
    /\ m.version >= 4 /\ Reserved(o.name[1]) => o.role = "diff" /\ o.name = DiffName
    /\ o.role = "diff" => o.name = DiffName
    /\ m.version \in 4..5 /\ o.digest # "" => o.role = "page"
    /\ m.version >= 6 \/ (m.version >= 4 /\ o.role = "page") => o.digest # ""
    /\ IF o.role \in {"file", "asset"} THEN o.bytes >= 0 ELSE o.bytes > 0
    /\ o.role = "asset" => m.version >= 6 /\ m.kind = "document"
    /\ o.role \in {"page", "source", "file", "diff", "asset"}

ValidRevision(m) ==
    /\ m.revision # <<>> =>
           /\ m.kind = "document" /\ m.format = "md" /\ OfRole(m.objects, "source") # <<>>
           /\ m.revision[1].number > 0
           /\ (m.revision[1].number = 1) <=> (m.revision[1].previous = "")

\* A generated page records how it was rendered; authored HTML does not.
ValidRender(m) ==
    IF m.kind = "document" /\ m.format = "html" THEN m.render = <<>>
    ELSE /\ m.render # <<>>
         /\ m.render[1].template \in IF m.kind = "document" THEN {"builtin", "custom"}
                                     ELSE {"builtin_collection", "custom_collection"}
         /\ (m.version = 4) <=> (m.render[1].themes = "")

\* A later revision declares its diff, and nothing else does.
ValidDiff(m) ==
    LET diffs == Len(OfRole(m.objects, "diff"))
    IN  IF m.revision # <<>> /\ m.revision[1].number > 1 THEN diffs = 1 ELSE diffs = 0

\* Before version 6 a document is one page and at most one source.
ValidSinglePage(m) ==
    LET sources == OfRole(m.objects, "source")
        page == OfRole(m.objects, "page")[1]
    IN  /\ m.slug # "" /\ page.name = <<<<m.slug, "html">>>>
        /\ OfRole(m.objects, "file") = <<>>
        /\ IF m.version >= 4 THEN ValidDiff(m) ELSE OfRole(m.objects, "diff") = <<>>
        /\ SourceMatches(m, m.slug, IF sources = <<>> THEN NoPath ELSE sources[1].name)

NoCollisions(names) ==
    \A a, b \in names : a # b => Folded(a) # Folded(b) /\ ~Beneath(Folded(a), Folded(b))

ValidDescriptor(m, i) ==
    LET d == m.pages[i]
        declared(name, role) == \E o \in DOMAIN m.objects : m.objects[o].name = name /\ m.objects[o].role = role
    IN  /\ ValidObjectPath(d.path)
        /\ d.format \in {"md", "txt"}
        /\ d.page = (IF i = 1 THEN m.entrypoint ELSE ManagedPageName(d.path, d.format))
        /\ declared(d.page, "page")
        /\ d.source # NoPath =>
               /\ d.source = (IF i = 1 THEN EntrySourceName(m.slug, d.path, d.format) ELSE d.path)
               /\ declared(d.source, "source")

ValidBundle(m) ==
    LET pages == OfRole(m.objects, "page")
        sources == OfRole(m.objects, "source")
        used == {i \in DOMAIN m.pages : m.pages[i].source # NoPath}
    IN  /\ m.slug # "" /\ OfRole(m.objects, "file") = <<>>
        /\ NoCollisions(NamesOf(m.objects))
        /\ m.entrypoint = <<<<m.slug, "html">>>> /\ m.entrypoint \in NamesOf(pages)
        /\ CASE m.format = "html" -> Len(pages) = 1 /\ m.pages = <<>> /\ sources = <<>>
             [] m.format = "txt" -> Len(pages) = 1 /\ Len(m.pages) = 1
             [] m.format = "md" -> Len(pages) = Len(m.pages)
             [] OTHER -> FALSE
        /\ m.format # "html" => m.pages # <<>> /\ m.pages[1].format = m.format
        /\ \A i \in DOMAIN m.pages : ValidDescriptor(m, i)
        /\ \A i, j \in DOMAIN m.pages : i # j =>
               /\ Folded(m.pages[i].path) # Folded(m.pages[j].path)
               /\ m.pages[i].page # m.pages[j].page
               /\ m.pages[i].source = NoPath \/ m.pages[i].source # m.pages[j].source
        /\ Cardinality(used) = Len(sources)
        /\ ValidDiff(m)

ValidCollection(m) ==
    /\ m.slug = "" /\ m.format = ""
    /\ m.entrypoint = NoPath /\ m.pages = <<>>
    /\ OfRole(m.objects, "page")[1].name = IndexName
    /\ OfRole(m.objects, "source") = <<>> /\ OfRole(m.objects, "diff") = <<>>
    /\ OfRole(m.objects, "file") # <<>>

ValidModern(m) ==
    /\ m.version < 6 => m.entrypoint = NoPath /\ m.pages = <<>>
    /\ \A i \in DOMAIN m.objects : ValidObject(m, m.objects[i])
    /\ \A i, j \in DOMAIN m.objects : i # j => m.objects[i].name # m.objects[j].name
    /\ OfRole(m.objects, "page") # <<>>
    /\ Len(OfRole(m.objects, "diff")) <= 1
    /\ m.version < 6 => Len(OfRole(m.objects, "page")) = 1 /\ Len(OfRole(m.objects, "source")) <= 1
    /\ CASE m.kind = "collection" -> Len(OfRole(m.objects, "page")) = 1 /\ ValidCollection(m)
         [] m.kind = "document" -> IF m.version >= 6 THEN ValidBundle(m) ELSE ValidSinglePage(m)
         [] OTHER -> FALSE
    /\ m.version >= 4 => m.producer # "" /\ ValidRevision(m) /\ ValidRender(m)

Valid(m, kind) ==
    /\ m.version \in 1..Current
    /\ IF m.version >= 3 THEN m.kind = kind /\ ValidModern(m) ELSE kind = "document" /\ ValidLegacy(m)

(***************************************************************************)
(* Encoding                                                                *)
(***************************************************************************)
\* Version 3 has no producer, render recipe or digest; version 4 no themes.
Stripped(m) ==
    CASE m.version = 3 ->
             [m EXCEPT !.producer = "", !.render = <<>>,
                       !.objects = [i \in DOMAIN @ |-> [@[i] EXCEPT !.digest = ""]]]
      [] m.version = 4 /\ m.render # <<>> -> [m EXCEPT !.render = <<[@[1] EXCEPT !.themes = ""]>>]
      [] OTHER -> m

Normalized(m) == IF m.version >= 3 THEN WithViews(m) ELSE WithObjects(m)

LegacyFields == {"version", "format", "page", "pageBytes", "source", "title", "repo"}

\* The fields a reader of a version looks at; it ignores every other.
FieldsRead(version) ==
    IF version <= 2 THEN LegacyFields
    ELSE {"version", "kind", "slug", "format", "objects", "title", "repo"}
         \cup (IF version >= 4 THEN {"producer", "render", "revision"} ELSE {})
         \cup (IF version >= 6 THEN {"entrypoint", "pages"} ELSE {})

Required(version) == IF version <= 2 THEN {"version", "format", "page"} ELSE {"version", "kind", "objects"}

\* Empty fields are left out.
MutantEncoded(m) ==
    LET present == {f \in FieldsRead(m.version) :
                        f \in Required(m.version) \/ m[f] # Blank[f]}
    IN  [f \in present \ {"entrypoint"} |-> m[f]]

Encoded(m) ==
    LET present == {f \in FieldsRead(m.version) :
                        f \in Required(m.version) \/ m[f] # Blank[f]}
    IN  [f \in present |-> m[f]]

\* Releases before the current format reject bodies over their own ceiling.
Encodable(m, bytes) == Valid(Stripped(m), m.kind) /\ (bytes = "large" => m.version >= 7)

(***************************************************************************)
(* Decoding                                                                *)
(***************************************************************************)
Read(wire) ==
    LET m == [f \in DOMAIN Blank |->
                  IF f \in DOMAIN wire \cap FieldsRead(wire.version) THEN wire[f] ELSE Blank[f]]
    IN  IF wire.version = 3
        THEN [m EXCEPT !.objects = [i \in DOMAIN @ |-> [@[i] EXCEPT !.digest = ""]]] ELSE m

\* A marker found under the name that stands for `kind` is accepted as one.
Accepted(wire, kind) ==
    /\ "version" \in DOMAIN wire /\ wire.version \in 1..Current
    /\ Required(wire.version) \subseteq DOMAIN wire
    /\ IF wire.version >= 3 THEN wire.objects # <<>> /\ DOMAIN wire \cap {"page", "pageBytes", "source"} = {}
       ELSE kind = "document"
    /\ wire.version = 1 => DOMAIN wire \cap {"pageBytes", "repo"} = {}
    /\ Valid(Read(wire), kind)
    /\ \A f \in {"title", "repo", "slug", "format", "source"} \cap FieldsRead(wire.version) :
           f \in DOMAIN wire => wire[f] # Blank[f]

Decoded(wire) == Normalized(Read(wire))

(***************************************************************************)
(* The marker of one directory                                             *)
(***************************************************************************)
Recipe(template) == [template |-> template, themes |-> "current"]

\* What an upload of a prepared bundle declares: each page with its source,
\* in order, then the assets.
DocumentMarker(input) ==
    LET objects(i) ==
            <<Object(PageName(input, i), "page", 1, "digest")>>
            \o (IF SourceName(input, i) = NoPath THEN <<>>
                ELSE <<Object(SourceName(input, i), "source", 1, "digest")>>)
        managed == input.pages[1].format # "html"
    IN  [Blank EXCEPT !.slug = SlugOf(input), !.format = input.pages[1].format, !.producer = "airplan",
             !.title = "Title", !.entrypoint = PageName(input, 1),
             !.render = IF managed THEN <<Recipe("builtin")>> ELSE <<>>,
             !.objects = FlattenSeq([i \in DOMAIN input.pages |-> objects(i)])
                         \o [i \in DOMAIN input.assets |-> Object(input.assets[i], "asset", 0, "digest")],
             !.pages = IF ~managed THEN <<>>
                       ELSE [i \in DOMAIN input.pages |->
                                 Descriptor(input.pages[i].path, PageName(input, i), SourceName(input, i),
                                            input.pages[i].format)]]

CollectionMarker(members) ==
    [Blank EXCEPT !.kind = "collection", !.producer = "airplan", !.title = "Title",
                  !.render = <<Recipe("builtin_collection")>>,
                  !.objects = <<Object(IndexName, "page", 1, "digest")>>
                      \o [i \in DOMAIN members |-> Object(members[i], "file", 0, "digest")]]

\* Members have safe, distinct basenames.
PreparedMembers(members) ==
    /\ \A i \in DOMAIN members : ValidCollectionName(members[i])
    /\ \A i, j \in DOMAIN members : i # j => members[i] # members[j]

\* A write either replaces the marker by an encodable one or leaves it.
Write(m, failed) ==
    \E bytes \in {"small", "large"} :
        IF Encodable(m, bytes)
        THEN /\ body' = Encoded(Stripped(m)) /\ size' = bytes
             /\ written' = <<Normalized(Stripped(m))>> /\ record' = <<>> /\ stage' = "stored"
        ELSE stage' = failed /\ UNCHANGED <<body, size, record, written>>

\* Two kinds of input pass preparation and are refused as a declaration: a
\* page whose source is named like the page generated from it except for case,
\* and a member that carries the control prefix in another case.
OwnPageInOtherCase(input) ==
    \E i \in DOMAIN input.pages :
        SourceName(input, i) # NoPath /\ Folded(SourceName(input, i)) = Folded(PageName(input, i))

PrefixInOtherCase(members) == \E i \in DOMAIN members : Reserved(members[i][1])

Init ==
    /\ body = NoBody /\ size = "small" /\ record = <<>> /\ written = <<>>
    /\ stage = "none"

UploadDocument ==
    /\ stage = "none"
    /\ \E input \in Inputs : Prepared(input)
           /\ Write(DocumentMarker(input), IF OwnPageInOtherCase(input) THEN "otherCase" ELSE "undeclarable")

UploadFiles ==
    /\ stage = "none"
    /\ \E members \in Members : PreparedMembers(members)
           /\ Write(CollectionMarker(members), IF PrefixInOtherCase(members) THEN "otherCase" ELSE "undeclarable")

\* The directory was written by another release, or by another program.
Foreign ==
    /\ stage = "none"
    /\ body' \in Bodies /\ size' \in {"small", "large"} /\ stage' = "stored"
    /\ UNCHANGED <<record, written>>

\* The marker's name tells its kind before its body is read.
DecodeUploadMarker ==
    /\ stage = "stored"
    /\ \E kind \in {"document", "collection"} :
           IF Accepted(body, kind)
           THEN record' = <<Decoded(body)>> /\ stage' = "read"
           ELSE record' = <<>> /\ stage' = "unreadable"
    /\ UNCHANGED <<body, size, written>>

MarkerPages(m) ==
    IF m.version >= 6 THEN m.pages ELSE <<Descriptor(m.source, m.page, m.source, m.format)>>

SourceBacked(m) == m.kind = "document" /\ m.format = "md" /\ m.source # NoPath

\* The bundle a rewrite renders again from the declared sources.
Rerendered(m) ==
    [pages |-> [i \in DOMAIN MarkerPages(m) |->
                    [path |-> MarkerPages(m)[i].path, format |-> MarkerPages(m)[i].format]],
     assets |-> [i \in DOMAIN OfRole(m.objects, "asset") |-> OfRole(m.objects, "asset")[i].name],
     slug |-> m.slug, sources |-> TRUE]

Redigested(objects) ==
    [i \in DOMAIN objects |-> IF objects[i].role = "page" THEN [objects[i] EXCEPT !.digest = "new"] ELSE objects[i]]

\* The first document of a chain becomes its revision 1: the same marker in
\* the same version, for pages rendered again.
promoteStandaloneRevision ==
    /\ stage = "read"
    /\ LET m == record[1]
       IN  /\ SourceBacked(m) /\ m.revision = <<>> /\ m.render # <<>>
           /\ \A i \in DOMAIN MarkerPages(m) : MarkerPages(m)[i].source # NoPath
           /\ IF /\ Prepared(Rerendered(m))
                 /\ NamesOf(OfRole(m.objects, "page"))
                        \subseteq {PageName(Rerendered(m), i) : i \in DOMAIN MarkerPages(m)}
              THEN Write([m EXCEPT !.revision = <<[number |-> 1, previous |-> ""]>>, !.producer = "airplan",
                                   !.objects = Redigested(@)],
                         "unpromoted")
              ELSE stage' = "unpromoted" /\ UNCHANGED <<body, size, record, written>>

\* An upgrade refuses rather than publish a page under another name.
SameGraph(m, input) ==
    /\ Prepared(input)
    /\ \A i \in DOMAIN MarkerPages(m) :
           /\ PageName(input, i) = MarkerPages(m)[i].page
           /\ SourceName(input, i) = MarkerPages(m)[i].source

\* Only what was rendered again is declared.
MutantUpgradedMarker(m, input) ==
    [DocumentMarker(input) EXCEPT
         !.title = m.title, !.repo = m.repo, !.revision = m.revision,
         !.objects = Redigested(Unlike(@, "asset"))
             \o (IF m.revision # <<>> /\ m.revision[1].number > 1
                 THEN <<Object(DiffName, "diff", 1, "digest")>> ELSE <<>>)]

UpgradedMarker(m, input) ==
    [DocumentMarker(input) EXCEPT
         !.title = m.title, !.repo = m.repo, !.revision = m.revision,
         !.objects = Redigested(Unlike(@, "asset"))
             \o OfRole(m.objects, "asset")
             \o (IF m.revision # <<>> /\ m.revision[1].number > 1
                 THEN <<Object(DiffName, "diff", 1, "digest")>> ELSE <<>>)]

ExecuteDocumentUpgrade ==
    /\ stage = "read"
    /\ LET m == record[1]
       IN  /\ SourceBacked(m)
           /\ \A i \in DOMAIN MarkerPages(m) : MarkerPages(m)[i].source # NoPath
           /\ IF SameGraph(m, Rerendered(m))
              THEN Write(UpgradedMarker(m, Rerendered(m)), "unupgraded")
              ELSE stage' = "unupgraded" /\ UNCHANGED <<body, size, record, written>>

Next ==
    \/ UploadDocument \/ UploadFiles \/ Foreign \/ DecodeUploadMarker
    \/ promoteStandaloneRevision \/ ExecuteDocumentUpgrade

Spec == Init /\ [][Next]_vars

(***************************************************************************)
(* Properties                                                              *)
(***************************************************************************)
TypeOK ==
    /\ size \in {"small", "large"} /\ Len(record) <= 1 /\ Len(written) <= 1
    /\ stage \in {"none", "stored", "read", "unreadable", "otherCase", "undeclarable", "unpromoted", "unupgraded"}
    /\ stage = "read" => Len(record) = 1

\* What this program writes, every reader of its version understands as it was
\* meant: the body is accepted under its kind's name and decodes to the very
\* record that was encoded, over every version a rewrite may preserve.
RoundTrip ==
    written # <<>> =>
        /\ Accepted(body, written[1].kind)
        /\ Decoded(body) = written[1]

\* A deletion removes the names a marker declares, so an accepted marker never
\* declares a control object, nor one name twice; from version 6 on, never two
\* names that one stored object or directory could stand for.
OwnedDistinct ==
    record # <<>> =>
        LET m == record[1] IN
        /\ NamesOf(m.objects) \cap {MarkerName, CollectionMarkerName, ProtectedName} = {}
        /\ Cardinality(NamesOf(m.objects)) = Len(m.objects)
        /\ m.version >= 6 /\ m.kind = "document" => NoCollisions(NamesOf(m.objects))

\* What this release declares it can read back as it was meant, and what it
\* reads declares no name twice, no control object and no two names for one
\* object.
DeclaredNames == RoundTrip /\ OwnedDistinct

\* A bundle that passed the local checks can be declared: neither a document
\* bundle nor a collection is refused once its names were accepted, the two
\* kinds of OwnPageInOtherCase and PrefixInOtherCase aside.
\* Nor does a later release meet a marker it accepts, of a document with all its
\* sources, that it can never upgrade.
PreparedIsDeclarable == stage \notin {"undeclarable", "unupgraded"}

\* An upgrade, however old the marker it replaces, keeps every address: the
\* entry, each page with its source, each asset and each diff are declared
\* under the names and roles they had.
UpgradeKeepsAddresses ==
    [][ExecuteDocumentUpgrade /\ stage' = "stored" =>
           LET was == record[1]
               now == written'[1]
               declared(m) == {<<m.objects[i].name, m.objects[i].role>> : i \in DOMAIN m.objects}
           IN  /\ declared(now) = declared(was)
               /\ now.page = was.page /\ now.source = was.source
               /\ now.pages = MarkerPages(was)]_vars
====
