----------------------------- MODULE MCUploadStream -----------------------------
(* TLC instances of UploadStream.                                           *)
EXTENDS UploadStream

P(name, size, read) == [name |-> name, size |-> size, read |-> read]
Metadata == P("metadata", 1, "whole")
Describe(parts) == [i \in DOMAIN parts |-> [name |-> parts[i].name, size |-> parts[i].size]]

Plan(kind, origin, parts, described) ==
  [kind |-> kind, origin |-> origin, token |-> TRUE, old |-> FALSE,
   sent |-> parts, described |-> described]

Document(first, rest) ==
  Plan("document", "airplan", <<Metadata, first>> \o rest, Describe(rest))
Files(files) == Plan("collection", "airplan", <<Metadata>> \o files, <<>>)

AssetReadings == Readings \ {"fails"}
Entry == P("document", 1, "whole")
Page == P("pages", 1, "whole")

(* This program's uploads: one document, bundles, collections.              *)
Airplan ==
  {Document(P("document", 2, r), <<>>) : r \in {"whole", "fails"}}
  \cup {Document(Entry, <<Page, P("assets", n, r)>>) : n \in {1, 2}, r \in AssetReadings}
  \cup {Document(Entry, <<P("assets", 3, "whole")>>)}
  \cup {Document(Entry, <<P("assets", 2, "whole"), P("assets", 2, r)>>) : r \in {"whole", "long"}}
  \cup {Files(<<P("files", 1, r), P("files", 1, s)>>) : r \in {"whole", "long"}, s \in AssetReadings}
  \cup {Files(<<P("files", 3, "whole")>>)}
  \cup {Files(<<P("files", 2, "whole"), P("files", 2, "whole")>>)}

(* Other clients': parts missing, repeated, out of order, or too many.       *)
Strays ==
  {Plan("document", "foreign", s, Describe(<<Page>>)) :
     s \in {<<Metadata, Entry>>, <<Entry, Metadata, Page>>, <<Metadata, Entry, Page, Page>>,
            <<Metadata, Entry, P("assets", 1, "whole")>>}}
  \cup {Plan("collection", "foreign", s, <<>>) :
     s \in {<<P("files", 1, "whole"), Metadata>>, <<Metadata, Metadata>>, <<Metadata>>,
            <<P("files", 1, "whole")>>,
            <<Metadata, P("files", 1, "whole"), P("files", 1, "whole"), P("files", 1, "whole"),
              P("files", 1, "whole")>>}}

PlanSet ==
  Airplan \cup Strays
  \cup {[Document(Entry, <<Page>>) EXCEPT !.old = TRUE], [Document(Entry, <<>>) EXCEPT !.token = FALSE]}
=============================================================================
