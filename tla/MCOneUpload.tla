----------------------------- MODULE MCOneUpload -----------------------------
(* TLC instance of what one upload meets, one subject per behaviour:        *)
(*   "stream"   UploadStream: the multipart body, from call to return;      *)
(*   "limits"   UploadLimits: the sizes it is held to on its way;           *)
(*   "call"     ServerCall: the surface it comes through, and its answer;   *)
(*   "delete"   UploadDirectory: a forced deletion and a purge of it        *)
(*              overlap, are interrupted and repeated, while someone        *)
(*              protects it and an append links it.                         *)
(* The four share no state.  A behaviour stays with the subject it began   *)
(* with, so the run explores their union and not their product.             *)
EXTENDS MCUploadStream, CallsAndLimits

CONSTANT Subjects

ASSUME SubjectsAssumption == Subjects \subseteq {"stream", "limits", "call", "delete"}

VARIABLES
  subject,
  declared, store, up, upg, del, grd, faults, lost

deleteVars == <<declared, store, up, upg, del, grd, faults, lost>>

-----------------------------------------------------------------------------
(* Sizes, in KiB: a default server, a small one and a large one, and uploads *)
(* at, below and above each limit.                                           *)
MiB == 1024
GiB == 1024 * MiB
WidestInteger == 256 * GiB - 1

AskNothing == [n \in {"items", "page", "pageTotal", "asset", "assetTotal"} |-> 0]
ByDefault == [n \in DOMAIN AskNothing \cup {"file", "fileTotal", "request"} |-> 0]
Narrow == [items |-> 3, page |-> 16, pageTotal |-> 24, asset |-> 64, assetTotal |-> 100,
          file |-> 50, fileTotal |-> 80, request |-> 0]
ServedTried ==
    {ByDefault, Narrow, [Narrow EXCEPT !.items = 5000], [Narrow EXCEPT !.page = 25],
     [Narrow EXCEPT !.request = 16 * MiB + 147], [Narrow EXCEPT !.request = 16 * MiB + 148]}

AskUnlimited == [n \in DOMAIN AskNothing |-> -1]
Ask(n, v) == [AskNothing EXCEPT ![n] = v]
AskedTried ==
    {AskNothing, AskUnlimited, Ask("items", 2), Ask("page", 16), Ask("pageTotal", 20),
     Ask("asset", 40), Ask("assetTotal", 70)}

Sized(items, page, total, asset, assets, metadata) ==
    [items |-> items, page |-> page, pageTotal |-> total, asset |-> asset, assetTotal |-> assets,
     metadata |-> metadata]
DocumentSizes ==
    {Sized(1, page, page, 0, 0, 1) : page \in {1, 16, 17, 21, 10 * MiB, 10 * MiB + 1}}
    \cup {Sized(3, p[1], p[2], a[1], a[2], m) :
              p \in {<<1, 2>>, <<16, 20>>, <<16, 24>>, <<16, 25>>},
              a \in {<<0, 0>>, <<40, 40>>, <<41, 41>>, <<64, 64>>, <<65, 65>>, <<60, 100>>, <<51, 101>>},
              m \in {1, 4 * MiB, 4 * MiB + 1}}
    \cup {Sized(items, 10 * MiB, 100 * MiB, GiB, 2 * GiB, 4 * MiB) : items \in {1000, 1001}}
    \cup {Sized(items, 16, 24, 64, 100, 4 * MiB) : items \in {4, 1000, 5000, 5001}}
CollectionSizes ==
    {Sized(i, 0, 0, f[1], f[2], 1) : i \in {1, 2, 3, 4, 1000, 1001},
        f \in {<<40, 40>>, <<50, 70>>, <<50, 80>>, <<51, 80>>, <<50, 81>>, <<GiB, 2 * GiB>>,
               <<GiB + 1, 2 * GiB>>}}
OfKind(kind, u) == [n \in DOMAIN u \cup {"kind"} |-> IF n = "kind" THEN kind ELSE u[n]]
UploadsTried ==
    {OfKind(kind, u) : kind \in {"document", "revision"}, u \in DocumentSizes}
    \cup {OfKind("collection", u) : u \in CollectionSizes}

-----------------------------------------------------------------------------
(* Calls: every operation through every surface that offers it, every cause *)
(* of a refusal and of a failure.                                           *)
Uploads == {"upload", "collection", "revision"}
Ops ==
  Uploads \cup {"sync", "purge", "bulk", "plan", "upgrade", "planBulk", "inspect", "get", "delete",
                "protect", "unprotect", "list", "storage", "preview"}

Asked(surface, op, bundled, refused) ==
    [surface |-> surface, op |-> op, bundled |-> bundled, refused |-> refused, at |-> "idle"]

Faults(op) ==
    {"no"} \cup (IF op \in Ops \ {"list", "storage", "sync"} THEN {"invalid"} ELSE {})
           \cup (IF op \in Uploads THEN {"tooLarge"} ELSE {})

\* MCP has no tool that downloads; pages and assets matter to documents only.
CallsTried ==
    UNION {{Asked("rest", op, FALSE, f) : f \in Faults(op)} : op \in Ops}
        \cup {Asked("rest", op, TRUE, "no") : op \in {"upload", "revision"}}
        \cup {Asked("direct", op, FALSE, "no") : op \in Ops}
        \cup {Asked(s, op, FALSE, "no") : s \in {"stdio", "hosted"}, op \in Ops \ {"get"}}

ServersTried == {[bundles |-> TRUE, canonical |-> TRUE], [bundles |-> TRUE, canonical |-> FALSE],
                 [bundles |-> FALSE, canonical |-> FALSE]}

Common == {{"canceled"}, {"other"}}
Targeted == Common \cup {{"invalidTarget"}, {"missing"}, {"marker"}}
TooBig == {{"tooLarge"}, {"invalidInput"}, {"tooLarge", "other"}}
Lost == {{"appendConflict", "conflict"}, {"appendConflict", "conflict", "other"}, {"appendConflict", "conflict", "canceled"}}

FailuresTried ==
    [op \in Ops |->
        CASE op \in {"upload", "collection"} -> Common \cup TooBig
          [] op = "revision" -> Targeted \cup TooBig \cup Lost
                                    \cup {{"historyFull"}, {"conflict"}, {"updateMissing"}, {"updateInvalid", "marker"}, {"updateRefused"}}
          [] op \in {"plan", "upgrade"} -> Targeted \cup {{"upgradeMissing"}, {"upgradeInvalid"}, {"ineligible"}, {"conflict"}}
          [] op = "delete" -> Targeted \cup {{"protected"}, {"conflict"}, {"historyFull"}}
          [] op \in {"protect", "unprotect"} -> Targeted \cup {{"badReason"}}
          [] op \in {"inspect", "get"} -> Targeted
          [] OTHER -> Common]

ItemsTried == {"first", "second"}

-----------------------------------------------------------------------------
Deleting == INSTANCE UploadDirectory WITH
  Others <- {"other"}, Sources <- {"source"}, Assets <- {"asset"},
  Kinds <- {"document", "files", "bare"},
  Uploaders <- {}, Upgraders <- {}, Release <- <<>>, Forcing <- {},
  Releases <- {1}, Unordered <- {}, Original <- 1, Generation <- <<1>>, Rendering <- <<1>>,
  Deleters <- {"x", "y"}, Purgers <- {"y"}, Forced <- {"x"}, Guards <- {"g"},
  MaxFaults <- 2, MaxLost <- 1,
  kind <- declared

-----------------------------------------------------------------------------
(* The subjects a behaviour is not about rest in an initial state.          *)
OneInit ==
  /\ Limits!Init /\ Call!Init
  /\ subject \in Subjects
  /\ Init /\ (subject # "stream" => plan = CHOOSE p \in PlanSet : TRUE)
  /\ Deleting!Init /\ (subject # "delete" => declared = "document")

OneNext ==
  \/ subject = "stream" /\ Next /\ UNCHANGED <<subject, limitVars, callVars, deleteVars>>
  \/ subject = "limits" /\ Limits!Next /\ UNCHANGED <<subject, vars, callVars, deleteVars>>
  \/ subject = "call" /\ Call!Next /\ UNCHANGED <<subject, vars, limitVars, deleteVars>>
  \/ subject = "delete" /\ Deleting!Next /\ UNCHANGED <<subject, vars, limitVars, callVars>>

OneSpec == OneInit /\ [][OneNext]_<<subject, vars, limitVars, callVars, deleteVars>>

(* The fairness of UploadStream and of UploadDirectory, for the behaviours  *)
(* that are about them.                                                     *)
Streaming(step) == subject = "stream" /\ step
FairOneSpec ==
  /\ OneSpec
  /\ WF_vars(Streaming(Prepare)) /\ WF_vars(Streaming(Writer)) /\ WF_vars(Streaming(Handler))
  /\ WF_vars(Streaming(EntryReader)) /\ WF_vars(Streaming(Receive)) /\ WF_vars(Streaming(Dropped))
  /\ \A d \in {"x", "y"} : WF_deleteVars(subject = "delete" /\ Deleting!DeleteProgress(d))

-----------------------------------------------------------------------------
(* Every variable has its type.                                             *)
TypesOK == TypeOK /\ Limits!TypeOK /\ Deleting!TypeOK

(* The call returns, the goroutine that writes its body ends, the server's  *)
(* handler ends, and repeated deletions end with a clean directory or with  *)
(* one that joined a history (UploadStream; UploadDirectory, Finished).   *)
AllEnd ==
  <>[](/\ subject = "stream" => StreamEnded
       /\ subject = "delete" => Deleting!Finished)

(* Once an upload's marker is gone nothing of it is left for nobody to own, *)
(* however its deletions overlapped and stopped (UploadDirectory).          *)
GoneIsClean == Deleting!GoneIsClean

(* What the world sees of the directory is the life of a PublishedUpload    *)
(* (UploadDirectory).                                                       *)
LivesOnce == Deleting!LivesOnce

(* A sentinel goes after the payload it protects, and an upload that joined *)
(* a history under the deletion's eyes loses nothing (UploadDirectory,      *)
(* SentinelLast and HistoryKept).                                           *)
DeletionOrder == Deleting!DeletionOrder

=============================================================================
