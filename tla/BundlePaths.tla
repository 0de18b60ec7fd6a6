---- MODULE BundlePaths ----
(* Names inside an upload directory: which logical paths a document bundle   *)
(* may hold, what its pages and sources are stored as, and which of them     *)
(* collide.  A path is a sequence of segments and a segment the sequence of  *)
(* the parts its dots separate, so `docs/Guide.md` is                        *)
(* <<<<"docs">>, <<"Guide", "md">>>>; a leading or trailing dot is an empty  *)
(* part.                                                                     *)
EXTENDS Integers, Sequences, FiniteSets, SequencesExt

CONSTANTS
    Lower,      \* part -> the part in lower case
    Devices     \* lower-case parts no portable segment may begin with

\* The parts that begin with the control prefix.
AirplanDash == {"airplan-collection", "airplan-protected", "airplan-changes", "airplan-versions", "airplan-notes"}

ASSUME PathAssumption ==
    /\ \A p \in DOMAIN Lower : Lower[p] \in DOMAIN Lower /\ Lower[Lower[p]] = Lower[p]
    /\ \A p \in AirplanDash \cup {"", "html", "htm", "md", "txt", "diff", "json", "index", "plan", "airplan"} :
           p \in DOMAIN Lower /\ Lower[p] = p

NoPath == <<>>
MarkerName == <<<<"", "airplan", "json">>>>
CollectionMarkerName == <<<<"", "airplan-collection", "json">>>>
ProtectedName == <<<<"", "airplan-protected", "json">>>>
DiffName == <<<<"", "airplan-changes", "diff">>>>
IndexName == <<<<"index", "html">>>>

Folded(path) == [i \in DOMAIN path |-> [j \in DOMAIN path[i] |-> Lower[path[i][j]]]]

(***************************************************************************)
(* Segments and paths                                                      *)
(***************************************************************************)
\* Neither empty, "." nor "..", none with a trailing dot, no device name.
PortableSegment(segment) ==
    /\ Last(segment) # ""
    /\ Lower[segment[1]] \notin Devices

Reserved(segment) == Len(segment) > 1 /\ segment[1] = "" /\ Lower[segment[2]] \in AirplanDash

ValidObjectPath(path) ==
    /\ path # NoPath
    /\ \A i \in DOMAIN path :
           /\ PortableSegment(path[i])
           /\ ~Reserved(path[i])
           /\ Folded(path)[i] # MarkerName[1]

\* Object names before marker version 6: one segment, and no control object.
ValidObjectName(path) ==
    /\ Len(path) = 1
    /\ path[1] \notin {<<"">>, <<"", "">>, <<"", "", "">>}
    /\ path \notin {MarkerName, CollectionMarkerName, ProtectedName}

ValidCollectionName(path) ==
    /\ Len(path) = 1
    /\ path[1] \notin {<<"">>, <<"", "">>, <<"", "", "">>}
    /\ ~(Len(path[1]) > 1 /\ path[1][1] = "" /\ path[1][2] \in AirplanDash)
    /\ path \notin {MarkerName, IndexName}

(***************************************************************************)
(* Names of generated objects                                              *)
(***************************************************************************)
Stem(segment) == IF Len(segment) > 1 THEN Front(segment) ELSE segment

\* A slug is one part; an empty one becomes "plan".
SanitizeSlug(part) == IF Lower[part] = "" THEN "plan" ELSE Lower[part]

\* The extension of a text source; never one a page object has.
SourceExt(segment) ==
    IF Len(segment) = 1 \/ Lower[Last(segment)] \in {"", "html", "htm"} THEN "txt"
    ELSE Lower[Last(segment)]

EntrySourceName(slug, path, format) ==
    <<<<slug, IF format = "md" THEN "md" ELSE SourceExt(Last(path))>>>>

\* Text keeps its extension in the name of its page.
ManagedPageName(path, format) ==
    Append(Front(path), Append(IF format = "md" THEN Stem(Last(path)) ELSE Last(path), "html"))

(***************************************************************************)
(* Collisions                                                              *)
(***************************************************************************)
\* One path lies beneath the other as though that were a directory.
Beneath(p, q) == Len(p) > Len(q) /\ SubSeq(p, 1, Len(q)) = q

\* seen maps a folded path to the latest original recorded for it.
DirectoryConflict(seen, fold) ==
    \E other \in DOMAIN seen : Beneath(other, fold) \/ Beneath(fold, other)

Record(seen, path) ==
    [f \in DOMAIN seen \cup {Folded(path)} |-> IF f = Folded(path) THEN path ELSE seen[f]]

\* What a bundle claims a name for: a logical path, or an object generated
\* from the page at a logical path.
Claim(path, from) == [path |-> path, from |-> from]

\* Only a name recorded before with the same case is taken.
MutantMayClaim(seen, claim) ==
    /\ ValidObjectPath(claim.path)
    /\ ~DirectoryConflict(seen, Folded(claim.path))
    /\ \A f \in DOMAIN seen : seen[f] # claim.path

MayClaim(seen, claim) ==
    /\ ValidObjectPath(claim.path)
    /\ ~DirectoryConflict(seen, Folded(claim.path))
    /\ Folded(claim.path) \in DOMAIN seen =>
           /\ claim.from # NoPath
           /\ Folded(seen[Folded(claim.path)]) = Folded(claim.from)

ClaimAll(claims) ==
    FoldLeft(LAMBDA acc, claim :
                 IF acc.ok /\ MayClaim(acc.seen, claim)
                 THEN [acc EXCEPT !.seen = Record(@, claim.path)] ELSE [acc EXCEPT !.ok = FALSE],
             [ok |-> TRUE, seen |-> <<>>], claims)

(***************************************************************************)
(* A bundle                                                                *)
(***************************************************************************)
\* An input is its pages, the entry first, each [path, format]; its assets'
\* paths; the slug asked for, "" for none; and whether sources are kept.
SlugOf(input) == SanitizeSlug(IF input.slug # "" THEN input.slug ELSE Stem(input.pages[1].path[1])[1])

PageName(input, i) ==
    IF i = 1 THEN <<<<SlugOf(input), "html">>>>
    ELSE ManagedPageName(input.pages[i].path, input.pages[i].format)

SourceName(input, i) ==
    IF ~input.sources \/ input.pages[i].format = "html" THEN NoPath
    ELSE IF i = 1 THEN EntrySourceName(SlugOf(input), input.pages[1].path, input.pages[1].format)
    ELSE input.pages[i].path

\* Logical paths, then the names generated from them, then assets.
Claims(input) ==
    LET generated(i) ==
            LET page == input.pages[i].path
                source == SourceName(input, i)
            IN  <<Claim(PageName(input, i), page)>>
                \o (IF source \in {NoPath, page} THEN <<>> ELSE <<Claim(source, page)>>)
    IN  [i \in DOMAIN input.pages |-> Claim(input.pages[i].path, NoPath)]
        \o FlattenSeq([i \in DOMAIN input.pages |-> generated(i)])
        \o [i \in DOMAIN input.assets |-> Claim(input.assets[i], NoPath)]

Prepared(input) ==
    /\ Len(input.pages[1].path) = 1
    /\ Len(input.pages) > 1 => input.pages[1].format = "md"
    /\ \A i \in 2..Len(input.pages) : input.pages[i].format # "html"
    /\ \A i \in DOMAIN input.pages :
           input.pages[i].format # "html" => PageName(input, i) # input.pages[i].path
    /\ ClaimAll(Claims(input)).ok
====
