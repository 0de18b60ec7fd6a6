---- MODULE UploadLimits ----
(* The size and count limits an upload meets: those the caller asks for, the *)
(* defaults of the core, the ceilings of a server, and the request envelope  *)
(* the server derives from them and a client checks before it streams.       *)
(* Sizes are in KiB; numbers wrap at the width of the build's integers.      *)
EXTENDS Integers

CONSTANTS
    MaxInt,         \* largest integer of the build, in KiB
    Served,         \* server options tried; 0 leaves one to its default
    Asked,          \* limits tried: 0 takes the default, a negative one disables
    Uploads         \* uploads tried

MiB == 1024
GiB == 1024 * MiB

MetadataLimit == 4 * MiB
PartOverhead == 8
BaseOverhead == 16 * MiB
ClientBase == MiB
InlineAssets == 32 * MiB

LimitNames == {"items", "page", "pageTotal", "asset", "assetTotal"}
OptionNames == LimitNames \cup {"file", "fileTotal", "request"}

Ints == -MaxInt - 1..MaxInt

\* A document of one item has no asset, and a collection has no page.
LimitsAssumption ==
    /\ MaxInt \in Nat /\ MaxInt >= 4 * GiB
    /\ Served \subseteq [OptionNames -> Ints]
    /\ Asked \subseteq [LimitNames -> Ints]
    /\ \A u \in Uploads :
           /\ u.kind \in {"document", "revision", "collection"}
           /\ \A n \in LimitNames \cup {"metadata"} : u[n] \in 0..MaxInt
           /\ u.items > 0
           /\ u.items = 1 /\ u.kind # "collection" =>
                  u.asset = 0 /\ u.assetTotal = 0 /\ u.page = u.pageTotal
           /\ u.kind = "collection" => u.page = 0 /\ u.pageTotal = 0

\* The options the program runs a server with: an operator chooses the number
\* of items, and the collection limits are never above the core's.
Deployed ==
    \A o \in Served :
        /\ o.file <= GiB /\ o.fileTotal <= 2 * GiB
        /\ 4 * GiB + BaseOverhead + o.items * PartOverhead <= MaxInt

VARIABLES
    server,     \* the options a server runs with, or Down
    call,       \* the upload and where it is
    wire        \* bytes of the multipart body the call sends

vars == <<server, call, wire>>

Down == [n \in OptionNames |-> 0]
CoreDefault == [items |-> 1000, page |-> 10 * MiB, pageTotal |-> 100 * MiB,
                asset |-> GiB, assetTotal |-> 2 * GiB]
CollectionDefault == [file |-> GiB, fileTotal |-> 2 * GiB]
Word == 2 * (MaxInt + 1)

\* What an integer of the build holds after an operation that may leave its range.
Wrapped(n) == IF n \in Ints THEN n ELSE ((n + MaxInt + 1) % Word) - (MaxInt + 1)

Larger(a, b) == IF a > b THEN a ELSE b
Smaller(a, b) == IF a < b THEN a ELSE b

(***************************************************************************)
(* The server's options                                                    *)
(***************************************************************************)
\* A request counted without the parts' framing.
MutantRequestBodyOverhead(items) == Wrapped(BaseOverhead + items)

RequestBodyOverhead(items) == Wrapped(BaseOverhead + Wrapped(items * PartOverhead))

LargestPayload(o) == Larger(o.fileTotal, Wrapped(o.pageTotal + o.assetTotal))

WithDefaults(o) ==
    LET filled == [n \in DOMAIN o |->
            IF o[n] # 0 \/ n = "request" THEN o[n]
            ELSE IF n \in LimitNames THEN CoreDefault[n] ELSE CollectionDefault[n]]
    IN  IF filled.request # 0 THEN filled
        ELSE [filled EXCEPT !.request = Wrapped(LargestPayload(filled) + RequestBodyOverhead(filled.items))]

ValidOptions(o) ==
    /\ \A n \in DOMAIN o : o[n] > 0
    /\ o.file <= o.fileTotal
    /\ o.page <= o.pageTotal
    /\ o.asset <= o.assetTotal
    /\ \A n \in LimitNames \ {"items"} : o[n] <= CoreDefault[n]
    /\ o.request >= Wrapped(LargestPayload(o) + RequestBodyOverhead(o.items))

\* A server whose options are refused never serves.
Serve ==
    /\ server = Down /\ call.at = "none"
    /\ \E o \in Served :
           /\ ValidOptions(WithDefaults(o))
           /\ server' = WithDefaults(o)
    /\ UNCHANGED <<call, wire>>

(***************************************************************************)
(* Requests                                                                *)
(***************************************************************************)
Bundled(u) == u.items > 1

\* What a caller's limit means to the core: 0 takes the default, a negative
\* one is no limit.
Over(size, asked, default) == IF asked = 0 THEN size > default ELSE asked > 0 /\ size > asked

TooMany(u, asked) == Over(u.items, asked.items, CoreDefault.items)

DocumentRefuses(u, asked) ==
    \E n \in LimitNames \ {"items"} : Over(u[n], asked[n], CoreDefault[n])

CollectionRefuses(u, asked) ==
    \/ Over(u.asset, asked.asset, CollectionDefault.file)
    \/ Over(u.assetTotal, asked.assetTotal, CollectionDefault.fileTotal)

CoreRefuses(u, asked) ==
    \/ TooMany(u, asked)
    \/ IF u.kind = "collection" THEN CollectionRefuses(u, asked) ELSE DocumentRefuses(u, asked)

Portable(limit) == IF limit < 0 THEN 0 ELSE limit

\* The limits the metadata of a request carries.  A single document is sent in
\* the shape old servers know, which has only the page limit.

WireLimits(u, asked) ==
    [n \in LimitNames |->
        IF n = "items" \/ (u.kind = "document" /\ ~Bundled(u) /\ n # "page") THEN 0
        ELSE Portable(asked[n])]

LowerLimit(ceiling, requested) ==
    IF requested > 0 /\ requested < ceiling THEN requested ELSE ceiling

\* The limits of an inline upload the server's own tools make.
HostedLimits(asked) ==
    [n \in LimitNames |->
        IF n = "items"
        THEN CASE asked.items = 0 -> Smaller(CoreDefault.items, server.items)
               [] asked.items > 0 /\ asked.items < server.items -> asked.items
               [] OTHER -> server.items
        ELSE LowerLimit(CoreDefault[n], asked[n])]

(***************************************************************************)
(* The client's check against the advertised limits                        *)
(***************************************************************************)
Parts(u) == u.items + 1
Payload(u) == u.pageTotal + u.assetTotal + u.metadata

Estimate(u) == Payload(u) + ClientBase + 2 * u.metadata + Parts(u) * PartOverhead

ClientRefuses(u) ==
    IF u.kind = "collection" THEN u.items > server.items
    ELSE /\ Bundled(u) \/ u.kind = "revision"
         /\ \/ \E n \in LimitNames : u[n] > server[n]
            \/ u.metadata > MetadataLimit
            \/ Estimate(u) > MaxInt
            \/ Estimate(u) > server.request

\* The spool keeps the lower of what the caller and the server allow.
SpoolLimit(n, asked) == LowerLimit(server[n], IF asked[n] = 0 THEN CoreDefault[n] ELSE asked[n])

SpoolRefuses(u, asked) ==
    /\ u.kind = "revision" \/ (u.kind = "document" /\ Bundled(u))
    /\ \E n \in {"page", "pageTotal"} : u[n] > SpoolLimit(n, asked)

(***************************************************************************)
(* A call                                                                  *)
(***************************************************************************)
\* A caller of the library, of a server, or of a server's hosted tools.
Begin ==
    /\ call.at = "none"
    /\ \E u \in Uploads, a \in Asked, s \in {"library", "rest", "hosted"} :
           /\ s = "library" <=> server = Down
           /\ s = "hosted" => u.kind # "collection"
           /\ call' = [at |-> "called", surface |-> s, upload |-> u, asked |-> a, limits |-> a]
    /\ UNCHANGED <<server, wire>>

Passed(refused, next) == [call EXCEPT !.at = IF refused THEN "refused" ELSE next]

Library ==
    /\ call.at = "called" /\ call.surface = "library"
    /\ call' = Passed(FALSE, "core")
    /\ UNCHANGED <<server, wire>>

\* The hosted tools decode inline assets, within an aggregate of their own.
Inline ==
    /\ call.at = "called" /\ call.surface = "hosted"
    /\ call' = [Passed(call.upload.assetTotal > InlineAssets, "core") EXCEPT !.limits = HostedLimits(@)]
    /\ UNCHANGED <<server, wire>>

\* The client counts, spools and measures, then streams the body, whose
\* framing is at most what the client estimated.
Send ==
    /\ call.at = "called" /\ call.surface = "rest"
    /\ LET u == call.upload
           refused == \/ TooMany(u, call.asked)
                      \/ (u.kind = "collection" /\ CoreRefuses(u, call.asked))
                      \/ SpoolRefuses(u, call.asked)
                      \/ ClientRefuses(u)
       IN  IF refused
           THEN call' = [call EXCEPT !.at = "refused"] /\ wire' = wire
           ELSE /\ call' = [call EXCEPT !.at = "sent", !.limits = WireLimits(u, @)]
                /\ wire' \in {Payload(u), Estimate(u)}
    /\ UNCHANGED server

\* The server reads no more than the request limit and bounds every part.
Parse ==
    /\ call.at = "sent"
    /\ LET u == call.upload
           limit(n) == LowerLimit(server[n], call.limits[n])
       IN  call' = Passed(
                   \/ wire > server.request
                   \/ u.metadata > MetadataLimit
                   \/ u.items > server.items
                   \/ (u.kind # "collection" /\ \E n \in LimitNames \ {"items"} : u[n] > limit(n))
                   \/ /\ u.kind = "collection"
                      /\ \/ u.asset > LowerLimit(server.file, call.limits.asset)
                         \/ u.assetTotal > LowerLimit(server.fileTotal, call.limits.assetTotal),
                   "core")
    /\ UNCHANGED <<server, wire>>

\* The core applies the limits it is given; a server gives it its item count.
Core ==
    /\ call.at = "core"
    /\ LET limits == IF call.surface = "rest" THEN [call.limits EXCEPT !.items = server.items] ELSE call.limits
       IN  call' = Passed(CoreRefuses(call.upload, limits), "accepted")
    /\ UNCHANGED <<server, wire>>

Init ==
    /\ server = Down
    /\ call = [at |-> "none"]
    /\ wire = 0

Next == Serve \/ Begin \/ Library \/ Inline \/ Send \/ Parse \/ Core

Spec == Init /\ [][Next]_vars

(***************************************************************************)
(* Properties                                                              *)
(***************************************************************************)
TypeOK ==
    /\ server = Down \/ (server \in {WithDefaults(o) : o \in Served} /\ ValidOptions(server))
    /\ call.at \in {"none", "called", "sent", "core", "accepted", "refused"}
    /\ call.at # "none" => call.upload \in Uploads /\ call.asked \in Asked
    /\ wire \in Nat

\* The limit of an upload by a name, as the documentation states it: the
\* caller's, the default where it gave none, and on a server no more than the
\* server's.
Default(n) ==
    IF call.upload.kind = "collection" /\ n # "items"
    THEN CollectionDefault[IF n = "asset" THEN "file" ELSE "fileTotal"]
    ELSE CoreDefault[n]

Ceiling(n) ==
    CASE call.surface = "library" -> MaxInt
      [] call.surface = "hosted" -> IF n = "items" THEN server.items
                                  ELSE IF n = "assetTotal" THEN InlineAssets ELSE Default(n)
      [] call.surface = "rest" /\ call.upload.kind = "collection" /\ n = "asset" -> server.file
      [] call.surface = "rest" /\ call.upload.kind = "collection" /\ n = "assetTotal" -> server.fileTotal
      [] OTHER -> server[n]

Stated(n) ==
    LET asked == call.asked[n]
    IN  Smaller(Ceiling(n), IF asked > 0 THEN asked ELSE IF asked = 0 THEN Default(n) ELSE MaxInt)

Limiting == IF call.upload.kind = "collection" THEN {"items", "asset", "assetTotal"} ELSE LimitNames

\* A single document loses the caller's total on its way to a server; its one
\* page stays within the server's.
Carried(n) ==
    \/ n # "pageTotal" \/ call.surface # "rest" \/ Bundled(call.upload)
    \/ call.upload.kind # "document"

\* No upload is stored above a limit its caller set, above a default the caller
\* left in force, or above a ceiling of the server it went through, whichever
\* of client, transport, request parser and core applies it (SPEC.md:3266).
LimitsHonoured ==
    call.at = "accepted" => \A n \in Limiting : Carried(n) => call.upload[n] <= Stated(n)

\* An upload within every stated limit is accepted on every surface: the
\* client's estimate of the multipart body never exceeds the request limit the
\* server derived from its other limits, at any item count (SPEC.md:3333).
AllowedIsAccepted ==
    call.at = "refused" =>
        \/ call.upload.metadata > MetadataLimit
        \/ \E n \in Limiting : call.upload[n] > Stated(n)
====
