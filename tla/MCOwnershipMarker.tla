---- MODULE MCOwnershipMarker ----
EXTENDS OwnershipMarker

Parts == {"", "a", "b", "docs", "html", "htm", "md", "txt", "diff", "json", "index", "plan", "airplan",
          "airplan-notes", "airplan-collection", "airplan-protected", "airplan-changes", "airplan-versions", "con"}
Capitals == {"A", "HTML", "Airplan-notes"}
SmallDevices == {"con"}
SmallLower ==
    [p \in Parts \cup Capitals |->
        CASE p = "A" -> "a" [] p = "HTML" -> "html" [] p = "Airplan-notes" -> "airplan-notes" [] OTHER -> p]

Page(path, format) == [path |-> path, format |-> format]
Top(parts) == <<parts>>
Under(parts) == <<<<"docs">>, parts>>

Entries == {Page(Top(<<"a", "md">>), "md"), Page(Top(<<"A", "md">>), "md"), Page(Top(<<"a", "HTML">>), "md"),
            Page(Top(<<"a", "html">>), "html"), Page(Top(<<"a", "txt">>), "txt"), Page(Top(<<"", "md">>), "md")}
Linked == {Page(Top(<<"b", "md">>), "md"), Page(Under(<<"a", "md">>), "md"), Page(Under(<<"a", "txt">>), "txt"),
           Page(Under(<<"A", "txt">>), "txt"), Page(Top(<<"con", "md">>), "md"), Page(Top(<<"a", "md">>), "txt"),
           Page(Under(<<"a", "html">>), "md"), Page(Top(<<"b", "HTML">>), "md")}
Assets == {Top(<<"b", "html">>), Top(<<"docs">>), Under(<<"a", "html">>), Top(<<"", "airplan-changes", "diff">>),
           Top(<<"a", "md">>), Under(<<"b">>)}

SmallInputs ==
    {[pages |-> <<e>> \o ls, assets |-> as, slug |-> slug, sources |-> keep] :
        e \in Entries, ls \in {<<>>} \cup {<<l>> : l \in Linked} \cup {<<l, k>> : l, k \in Linked},
        as \in {<<>>} \cup {<<a>> : a \in Assets}, slug \in {"", "b"}, keep \in BOOLEAN}

Names == {Top(<<"a", "txt">>), Top(<<"A", "txt">>), Top(<<"", "Airplan-notes">>), Top(<<"", "airplan-notes">>),
          Top(<<"index", "html">>), Top(<<"", "airplan", "json">>)}
SmallMembers == {<<a>> : a \in Names} \cup {<<a, b>> : a, b \in Names}

One(version) ==
    [version |-> version, kind |-> "document", slug |-> "a", format |-> "md", title |-> "Title",
     objects |-> <<Object(Top(<<"a", "html">>), "page", 1, IF version >= 4 THEN "digest" ELSE ""),
                   Object(Top(<<"a", "md">>), "source", 1, IF version >= 6 THEN "digest" ELSE "")>>]
Made(version) ==
    [f \in DOMAIN One(version) \cup {"producer", "render"} |->
        CASE f = "producer" -> "airplan"
          [] f = "render" -> <<[template |-> "custom", themes |-> IF version = 4 THEN "" ELSE "old"]>>
          [] OTHER -> One(version)[f]]
Revised(version, number) ==
    [f \in DOMAIN Made(version) \cup {"revision"} |->
        CASE f = "revision" -> <<[number |-> number, previous |-> IF number = 1 THEN "" ELSE "url"]>>
          [] f = "objects" /\ number > 1 -> Append(Made(version)[f], Object(DiffName, "diff", 1, ""))
          [] OTHER -> Made(version)[f]]
Bundle(from, pages, extra) ==
    [f \in DOMAIN from \cup {"entrypoint", "pages"} |->
        CASE f = "entrypoint" -> Top(<<"a", "html">>)
          [] f = "pages" -> pages
          [] f = "objects" -> from[f] \o extra
          [] OTHER -> from[f]]
Entry == Descriptor(Top(<<"a", "md">>), Top(<<"a", "html">>), Top(<<"a", "md">>), "md")
Second(source) == Descriptor(Top(<<"b", "md">>), Top(<<"b", "html">>), source, "md")
Extra(name, role) == Object(name, role, 1, "digest")
Legacy(version) == [version |-> version, format |-> "md", page |-> Top(<<"a", "html">>), title |-> "Title"]
With(wire, field, value) == [f \in DOMAIN wire \cup {field} |-> IF f = field THEN value ELSE wire[f]]

SmallBodies ==
    {[torn |-> TRUE], Legacy(1), With(Legacy(1), "source", Top(<<"a", "md">>)), With(Legacy(1), "repo", "repo"),
     With(Legacy(2), "pageBytes", 1), With(With(Legacy(2), "pageBytes", 1), "source", Top(<<"a", "md">>)),
     With(Legacy(2), "source", Top(<<"a", "md">>)), With(With(Legacy(2), "pageBytes", 1), "repo", "repo"),
     One(3), Made(3), With(One(3), "title", ""), With(One(3), "page", Top(<<"a", "html">>)), One(4), Made(4), Made(5),
     Revised(4, 1), Revised(5, 2), With(Revised(5, 1), "format", "txt"), With(Made(4), "producer", ""),
     With(Made(5), "version", 8), Made(6)}
    \cup {Bundle(Made(v), pages, extra) :
             v \in 6..7, pages \in {<<Entry>>, <<Entry, Second(NoPath)>>, <<Entry, Second(Top(<<"b", "md">>))>>},
             extra \in {<<>>, <<Extra(Top(<<"b", "html">>), "page")>>,
                        <<Extra(Top(<<"b", "html">>), "page"), Extra(Top(<<"b", "md">>), "source")>>,
                        <<Extra(Top(<<"A", "html">>), "asset")>>, <<Extra(Top(<<"a", "md">>), "asset")>>,
                        <<Extra(MarkerName, "asset")>>, <<Extra(ProtectedName, "asset")>>,
                        <<Extra(<<<<"a", "html">>, <<"b">>>>, "asset")>>, <<Extra(Under(<<"a", "md">>), "asset")>>}}
    \cup {Bundle(Revised(6, n), <<Entry>>, extra) : n \in 1..2, extra \in {<<>>, <<Extra(Under(<<"b">>), "asset")>>}}
    \cup {[version |-> v, kind |-> "collection", producer |-> "airplan",
            render |-> <<[template |-> "custom_collection", themes |-> IF v = 4 THEN "" ELSE "old"]>>,
            objects |-> <<Object(IndexName, "page", 1, "digest"), Object(name, "file", 0, IF v >= 6 THEN "digest" ELSE "")>>] :
             v \in 4..7, name \in Names \cup {CollectionMarkerName, ProtectedName}}
====
