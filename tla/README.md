# Airplan: a verification development

Airplan uploads documents to S3-compatible storage under unguessable
directories and manages what it uploaded: linked revisions of a document,
deletion, protection, upgrades of old renderings, and a local history. There
is no server that owns the data. Every client, on any machine, works on the
bucket directly, and all coordination is done with conditional PUTs of small
JSON objects and with the order in which objects are written and deleted.
This directory holds TLA+ models of that coordination, the TLC configurations
that check them, and proofs about them that TLAPS checks.

Paths below are relative to the repository; line numbers are those of
`PROJECT.json`, whose `map` gives the source lines of every definition.

## 1. The system

### Components

| Component | Source | State | Operations | Model |
| --- | --- | --- | --- | --- |
| revision index | `airplan/versions.go` | none: contents of `.airplan-versions.json` | decode, compare, extend | `VersionsMetadata` |
| append | `airplan/update.go`, `bundle_revision.go` | one call's locals; marker, payload and index objects | `UpdateDocument`, `CreateDocumentRevision` | `RevisionChain` |
| deletion | `airplan/delete.go` | the same objects; reservations and receipts | `DeleteUpload` | linked: `RevisionChain`; one directory: `UploadDirectory` |
| upload | `airplan/client.go`, `bundle.go`, `collection.go` | one fresh directory | marker, payload, entry page last, record | `UploadDirectory`, `BundlePaths` |
| upgrade | `airplan/upgrade.go` | marker and pages of one directory | plan, conditional execution | `UploadDirectory` |
| bulk upgrade | `airplan/bulk_upgrade.go`, `cli/upgrade.go` | two worker pools | plan all, execute all | `BulkUpgrade` |
| protection | `airplan/protect.go` | the sentinel of a directory | protect, unprotect | `UploadDirectory`, `ManifestSync`, `PurgeSession` |
| purge | `airplan/operations.go`, `cli/purge.go` | a shown plan | plan, confirm, delete each | `PurgeSession` |
| marker codec | `airplan/marker.go` | none | encode, decode, normalize, rewrite | `OwnershipMarker` |
| names and paths | `airplan/bundle.go`, `keygen.go`, `internal/pathrules` | none | claim, generate, refuse | `BundlePaths` |
| manifest | `airplan/manifest.go` | append-only local file, lock file | append, read, reduce | `Manifest` |
| sync, remote list | `airplan/sync.go`, `remote.go` | manifest and bucket | list, inspect, commit | `ManifestSync` |
| upload request | `internal/httpapi/client.go`, `uploads.go`, `lazyio` | pipe, connection, spool files | write, parse, spool, run, answer | `UploadStream` |
| limits | `internal/httpapi/limits.go`, and every layer | options of client and server | lower, send, check | `UploadLimits` |
| surfaces | `airplan/http_transport.go`, `httpapi_adapter.go`, `mcp.go`, `cli/` | one call | every operation, over REST or MCP or directly | `ServerCall` |
| diagrams in the browser | `web/src/mermaid.ts`, `theme*.ts` | page, local storage | render, choose, print, view | `DiagramThemes` |
| storage client | `airplan/storage.go` | the bucket | PUT, conditional PUT, GET, LIST, DELETE | part of every module that writes |
| rendering, diffs, templates | `airplan/render.go`, `diff.go`, ... | none | text to text | not modelled |
| configuration | `airplan/config.go`, `theme.go`, `client.go`, `cli/config.go`, `setup.go`, `root.go` | one command's settings and client | load, infer a profile, show, make a client | `Configuration` |

### How they interact

An upload is a directory with a random name. It holds an ownership marker,
payload objects (pages, sources, diff, assets), perhaps a protection sentinel,
and, once the document has a second revision, an index
`.airplan-versions.json`. The marker is written first and deleted last, so
whoever lists markers finds everything.

* Every live member of a chain carries its own replica of the index.
  Replicas differ in `current_revision` and may lag behind.
* An **append** finds the latest member, uploads a candidate directory, and
  *commits* by replacing the latest member's index under `If-Match` (the first
  append: creates the standalone document's index under `If-None-Match: *`).
  After that it may only go forward: promote the standalone document to
  revision 1, write the candidate's index, propagate to all other members,
  verify. An ambiguous commit is *reconciled*: look at both indexes, and either
  go on, try again, or claim the right to clean up and roll back.
* A **deletion** of a standalone document puts a *reservation* at the same key
  the first append would create. A deletion of a chain member replaces the
  latest member's index by one with a *tombstone*, propagates it to every live
  member, leaves a *receipt* in the target's index and only then removes the
  objects. If no other member is live it puts a *final reservation* instead. A
  member without an index is *classified*: announced, deleted or a candidate
  that lost. In the directory payload goes first, then the sentinel, then the
  marker.
* Every preparation *repairs* what an interrupted append left: a missing
  index, an unfinished promotion, pages that still show a standalone document.
* An **upgrade** reads marker and pages, and replaces them by newer renderings
  under `If-Match`, marker first and entry page last. A **bulk upgrade** does so
  for all documents of one or several profiles with a pool of workers.
* A **purge** shows a plan, from the manifest or from storage, and deletes the
  items that still qualify when their turn comes.
* The **manifest** records what this machine did. Commands append to it when
  they are done with the bucket, without holding its lock meanwhile; **sync**
  reads it, inspects the bucket for as long as that takes, and commits under
  the lock what still follows from both.
* All of it may run behind a **server**. The REST client streams uploads as
  multipart bodies; the server parses, limits and spools them, runs the same
  core, and sends results and problems back; MCP tools call the same adapter.
* Every command first resolves its **configuration**: a file, a profile, variables
  and flags are merged over built-in defaults, `config show` names the source of
  each value, and the client is made from the result. A command on a recorded upload
  may take its profile from the manifest.
* The **page** a reader opens renders its diagrams itself, theme by theme.

### What is hard

Clients share nothing but the bucket. They read an index, work for many
requests, and write conditionally on what they read; any of them stops
anywhere. A commit may succeed without an answer, take effect after its
client gave up, or be answered with a conflict caused by the SDK's own
repetition. A deletion must be repeatable after a stop at any request. Several
decisions are taken from replicas, listings, plans or manifests that lag. A
request body is written while the answer is already on its way. The list with
lines is `hazards` in `PROJECT.json`; what makes the components correct is:

* *index*: the order on indexes is a partial order; every write moves up in it;
* *append*: a number belongs to one upload for ever; an announced revision is
  never rolled back and is complete; an interrupted append is completed by retries;
* *deletion*: no member keeps a link to a removed directory; nothing is left in
  a directory whose marker is gone; an interrupted deletion is completed by retries;
  the high-water mark survives deletions; a final reservation is final;
* *upload and upgrade*: the entry page is there only while all it leads to is;
  nothing goes back to an older generation; retries bring everything to the newest;
* *manifest and sync*: what was recorded meanwhile is never lost by a sync, a
  deletion is never undone by an older record, syncs converge to the bucket;
* *purge and bulk upgrade*: only what was shown is touched, once, and the
  report is true;
* *names and markers*: what is declared can be read back by every later release
  under the same addresses;
* *requests*: all layers agree on the limits, nothing is left behind, what is
  published is what was sent, and the caller is told what happened;
* *configuration*: what is shown of a value is where it came from, and what is used
  is what was shown;
* *page*: what is shown is what the reader chose last.

## 2. The modules

| Module | Contents | Instance |
| --- | --- | --- |
| `VersionsMetadata` | what may stand at a versions key, and the pure functions on it; no state | through `RevisionChain` |
| `RevisionChain` | the revision protocol: bucket, clients, one action per storage request | `MCRevisionChain`, `MCRevisionScenes`, `MCRevisionRetries` |
| `PublishedUpload` | abstract: claimed once, shown only whole, given up only empty | implemented by `UploadDirectory` |
| `UploadDirectory` | the objects of one directory under upload, upgrades, deletions, protection | `MCUploadDirectory`, `MCOneUpload` |
| `Manifest` | records, their validation and reduction, the rechecks of a sync; no state | `MCManifestSync`, `MCCommands` |
| `ManifestSync` | one machine's manifest, commands here and elsewhere, syncs | `MCManifestSync` |
| `PurgeSession` | one purge, from its plan to its summary, while others work | `MCCommands` |
| `BulkUpgrade` | one bulk upgrade: profiles, pools, deadline, report | `MCCommands` |
| `Selections` | sets of numbers taken in order; no state | through the modules that select |
| `BundlePaths` | which names a bundle or a collection may use; no state | through `OwnershipMarker` |
| `OwnershipMarker` | a declaration written, read and rewritten by releases | `MCOwnershipMarker`, `MCCommands` |
| `UploadStream` | one multipart upload, from call to return | `MCUploadStream`, `MCOneUpload` |
| `UploadLimits` | the sizes of an upload through all layers | `MCOneUpload` |
| `ServerCall` | one operation through one surface, and its answer | `MCOneUpload` |
| `CallsAndLimits` | the two before with what is claimed of them; no state of its own | `MCOneUpload` |
| `Configuration` | the settings of one command, their sources, and its client | `MCConfiguration`, `MCCommands` |
| `DiagramThemes` | the diagrams of one open page | `MCDiagramThemes` |
| `RevisionChainProofs` | the order on indexes; the inductive invariant and the theorems of `RevisionChain` | |
| `RacingUpdatesProofs` | what appends that race cannot do, nobody deleting; which of their candidates stay, and what stays of them | |
| `ManifestSyncProofs` | that what a manifest records is true | |
| `CommandsProofs` | that a purge keeps its word, the report of a bulk upgrade is true and a declaration is read back as it was meant | |
| `UploadStreamProofs` | what the server keeps of a request, that what is published is what was sent, that the limits agree, and that answers are true | |
| `UploadDirectoryProofs` | the invariants of one directory, and that it implements `PublishedUpload` | |
| `ConfigurationProofs` | that settings are what they are shown to be | |
| `DiagramThemesProofs` | that a page shows what its reader chose | |

Operators named `Mutant...` are plausible bugs of the definition after them.
`PROJECT.json` pairs each property of a passing run with one of them, with
which TLC finds the property violated in the same instance.

### Correspondence: `RevisionChain`

State of the bucket: `marker[d]` (presence and revision descriptor of the
marker), `payload[d]` (gone, complete and rendered standalone, complete and
rendered as a member), `vers[d]` (nothing, standalone reservation, final
reservation, or an index). `late` holds commit requests their client gave up
on. `used` are the names already drawn (random names do not collide). `pc[c]`
and `mem[c]` are the control point and the local variables of the operation
client `c` runs. `cleaned`, `acked` and `doomed` are history variables that
only properties and no action guard read; `lost` and `claims` count for the bounds.

| Code | Actions |
| --- | --- |
| `prepareRevisionTarget` | `AppendStart`, `Reload`, `RepairPage`, `First`, `Follow`, and `Promote...` |
| `repairMissingRevisionMetadata`, `loadDeletedRevisionMetadataReceipt` | `FixRead`, `FixReceipt`, `FixWitness`, `FixPut` |
| `promoteStandaloneRevision` and the load after it | `PromoteMarker`, `PromotePage`, `PromoteVerify` |
| `updateDocument`, `createBundleRevision` | `PutMarker`, `PutPayload`, `PutPayloadFails`, `Commit...`, `NewIndex`, `PlanUnchanged`, `Rollback...` |
| `reconcileRevisionAppendCommit` | `RecRead`, `RecCand`, `RecRetry`, `RecReread`, `RecClaim` |
| `propagateVersionsMetadata` and the same loop in `tombstoneLinkedRevision` | `PropagateRead`, `PropagatePut`, `PropagateCheck`, `PropagateMember`, `PropagateMake` |
| `verifyRevisionChain` | `VerifyMember` |
| `DeleteUploadWithOptions` | `DeleteStart`, `Reserve`, `RemovePayload`, `RemoveMarker` |
| `tombstoneLinkedRevision` | `ReadTarget`, `FollowForDelete`, `Survivor`, `Tombstone`, `Receipt` |
| `classifyRevisionCandidate` and its helpers | `ClassifyRead`, `ClassifyRefine`, `ClassifyLoad`, `ClassifyClaim` |
| an error return, a cancelled context, a crash | `GiveUp`, or no further step |
| the store executes a request late | `DeliverLate` |

Abstractions:

* Loading a document reads marker, page, source and index in four requests;
  the model reads them in one step. All payload objects of a directory are
  one value, written and deleted in one step (a failed upload leaves it incomplete).
* ETags are contents. Airplan compares ETags of tiny JSON bodies, which S3
  derives from the contents, and the cleanup claim relies on exactly that
  (`delete.go:397`); the boolean `alt` is the field order the claim changes.
* A page URL, a diff URL and a creation time are functions of the directory; a
  tombstone carries the second it was made in, out of `Stamps`.
* The chain identifier, random in the code, is the candidate of the first
  append (also fresh).
* A check that fails returns an error; it has no action, the client then
  takes `GiveUp` or stays where it is.
* Only the commit may be answered wrongly. A lost answer to another request
  is the client stopping after that request, which `GiveUp` covers.
* Rollback in `bundle_revision.go` also follows a failed marker PUT; the
  bucket afterwards is one that `PutPayloadFails` and the rollback produce.
* The renderer upgrade before an append (`update.go:746`), theme and template
  refusals, protection, collections, HTML and text uploads (which have no
  revisions) and manifest records are left out.

### Correspondence of the other modules

**`UploadDirectory`**, with `PublishedUpload`. `store[o]` is 0 or a release: the one
that produced the marker, the first one that renders a page so (`Rendering`), so an ETag
is a content. Releases have the order of their producer versions, except `Unordered` ones
("dev"), and a `Generation`: marker schema and renderer generation in one. Only a newer
generation is refused whatever the command (`Refused`, `upgrade.go:167`). Whether there is
something to do is asked in the code's order (`Upgradeable`, `upgrade.go:355`): an older
generation, a page that is not what its marker declares, `--force`, and only then are the
producer releases compared. So an older release of the same generation that repairs or
forces writes marker and pages back to its own, as `SPEC.md:1305` says, and the properties
speak of generations. The template and theme checks (`upgrade.go:173`), which may make a
document ineligible and which `--force` skips, and the checks of declared sizes and
digests are left out: they end a plan, as `UpgradeStops` may. `up`, `upg`, `del` and `grd`
hold the control points of uploads, upgrades, deletions and protections.

| Code | Actions |
| --- | --- |
| `Upload`, `UploadDocument`, `UploadFiles` | `PutMarkerFirst`, `PutPayload` (concurrent PUTs, in any order), `PutEntryLast`, `UploadStops` |
| `PlanUpgradeDocument`, `UpgradeDocument` | `StartUpgrade`, `ReadForPlan`, `Decide`, `Spool`, `PutPlanned` (marker, other pages, entry), `Verify`, `FinishUpgrade`, `UpgradeStops` |
| `DeleteUploadWithOptions`, `Purge`'s item | `PlanPurge`, `ResolveMarker`, `ListDirectory`, `ReserveStandalone`, `DeletePayload`, `DeleteSentinel`, `DeleteMarker`, `DeleteStops` |
| `ProtectUpload`, `UnprotectUpload` | `StartGuard`, `WriteSentinel` |

`Link` is what an append by another user does to the directory, `LosePage` what
one does who removes a page by hand. The listing of a directory is one step although
it may take several requests. `LivesOnce` is the refinement: with `phase`,
`whole`, `empty` and `entry` read off the store (operator `Lifecycle`), every
behaviour of `UploadDirectory` is one of `PublishedUpload`.

**`Manifest`, `ManifestSync`.** `lines` is the file, `newline` whether it ends
in one: a record appended after a torn one becomes garbage with it. `bucket[d]`
is reduced to what records speak of; what happens inside a directory is the
subject of the other modules. `cl[p]` is a command of this machine between its
storage requests and its record, `sy[s]` a sync with its snapshot, the
directories still to inspect and the records to write. `Foreign` is a whole
command of another machine. Two forms of the reduction are stated: `Reduce` is
the loop of `ManifestUploads`, `HistoryOf` says the same without it; the
assumption `ReductionAssumption` of `MCCommands` compares them on all
histories of up to four records.

**`PurgeSession`.** `bucket`, `recorded`: the uploads and what the manifest says
of them; `session` the process with its plan; `worker` the loop over the
confirmed identifiers, in this process or in a server; `history` what was
shown, protected, linked and removed. `...Elsewhere` are other people. A request
that fails was not executed (`ItemFails`) or was executed and its answer lost, or
overtaken by the deadline (`AnswerLost`); either way the item is an error, so an
upload whose marker this command removed may be told of as failed
(`delete.go:251`). A request executed only after its item was recorded is not
modelled: its upload is one the summary calls failed, too.

**`BulkUpgrade`.** `upgrading` is the command, `pool` the job channel with its workers, used once for
plans and once for executions; `mode` says whether one profile, all profiles
or a server is asked. The loops that filter a sequence (the `seen` sets of
the plan and of the command, the choice of the upgradeable) are one operator, `Picked`.
The command's `seen` set holds bucket and marker key (`Identity`, `cli/upgrade.go:134`);
a document that could not be inspected or has no valid marker has no key
(`bulk_upgrade.go:92`, `upgrade.go:125`). All of these are one item of the merged plan, and
none of them hides the document from another profile that can inspect it; one
a profile found ineligible or current does. The invalid items `--all-profiles` adds for
records of missing or changed profiles (`cli/upgrade.go:142`) are shown and never chosen,
and are left out.

**`BundlePaths`, `OwnershipMarker`.** A path is a sequence of small tokens with
a case folding; what matters of a name is whether segments are portable or
reserved and whether two fold together. A marker is a record of the fields the
validation looks at. `UploadDocument` and `UploadFiles` write one, `Foreign`
puts one of an older or unknown release, `DecodeUploadMarker` reads it and
`ExecuteDocumentUpgrade` rewrites it.

**`UploadStream`.** Three processes: the client's call (`Prepare`, `Receive`,
`Dropped`), the goroutine that writes (`WriteHeader`, `WriteData`, `EndPart`,
`WriteTrailer`, `ClosePipe`, `WriterStops`), the server's handler
(`NextPart`, `SpoolPart`, `PartSpooled`, `EndOfParts`, `BodyTruncated`,
`OperationSucceeds`, `OperationFails`, `Respond`) with the lazy reader of its entry (`ReadEntry`, `EntryOpened`,
`EntryRecorded`, `EntryRead`); and what happens to them (`Disconnect`,
`Shutdown`, `Exit`). Bytes are counted in chunks. What a plan may be is
`PlansAssumption`; `ClientAssumption` is what Airplan's own client prepares: pages
and assets are described in the order they are sent, and a page is read back as
it was measured, since it is read from a spool file of the call's own (documents,
assets and collection files are read from the caller's, which may change).

**`UploadLimits`.** A call goes `Begin`, then `Library`, `Inline` (MCP) or
`Send` and `Parse` (REST), then `Core`; sizes are those of the code, in KiB, with
the integer width as constant `MaxInt`. `LimitsAssumption` is what an upload and
options can be; `Deployed` is what `airplan serve` makes of its options: only the number of
items is the operator's (`server.go:113`), the rest are the defaults.

**`ServerCall`.** Results are sets of facts, errors sets of identities;
`wire...` and `core...` are the two conversions of each result,
`apiOperationError`, `transportError` and `mcpOperationError` the rules for
errors, `Serve...` the adapter, the operations named as in the code the
client side, `...Tool` the MCP tools. `Failures` gives every operation the errors
its core may return. `CallAssumption` asks of an error what the code keeps to
(`Distinguishable`): a caller can test it for one cause at most; a conflict, which only
the storage client and the upgrade's comparison of ETags raise, and a protection, which
wraps nothing, are never joined with another cause that has a rule. Causes nobody tests for may
come together: a refused update wraps what it could not read (`update.go:645`).

**`Configuration`.** `asked` is an invocation with its environment and the files it
may read; `LoadConfig` and `LoadTargetConfig` give it its `config` (values, the
sources, the catalog, the warnings), `inferred` says whether the manifest chose the
profile, `NewClient` and `EnsureStorage` make the `client`. Values (`Merged`,
`resolveTimeout`, `ResolveThemeBundle`) and what is said of them (`WinningSource`,
`profileResolution`, `warnInactiveBackendFields`, `configDisplayFields`) are
computed apart, as in the code, each from the layers and not from the other. Values
are abstract texts: a URL, a prefix or a duration no parser takes is `Malformed`,
`Listed` says what a value of `available_themes` lists, and the spellings of booleans
are left out. So are a profile with an empty name, `config profiles`, and the warning about
readable credentials. Every profile of a file has its own layer, and a recorded
target one profile. A failed `ensureStorage` changes nothing and is not an action.

**`DiagramThemes`.** An action is what JavaScript runs between two awaits.
`queue`, `next`, `config` are the rendering chain, `variants` the cached
drawings, `waiting` and `latest` the requests by theme, `boot` the top level of
the module, `dialog` the viewer.

## 3. The checks

Deadlock is not checked anywhere: commands end, uploads are gone and readers
stop, so every system here may rightly stop.

| Run | Instance | Properties | Distinct states |
| --- | --- | --- | --- |
| `Revisions` | four scenes of three directories (below) | `NumbersNeverReused`, `OnlyLosersLeave`, `FinalIsLast`, `FreshNumber`, `ReplicasOrdered`, `LinksWhole` | 1,061,317 |
| `Mixed` | 3 directories, 2 clients that delete any of them, one of which appends, 1 lost commit, 1 claim | `TypeOK`, `MonotoneReplica` | 402,930 |
| `Retries` | two scenes, clients that repeat | `CommandsSettle` | 12,914 |
| `SyncAlone` | 2 directories, 1 process, 3 commands, 1 sync | `TypeOK`, `InStep` | 372,599 |
| `Converge` | the same, 1 command here, 1 elsewhere, 1 fault, repeated sync | `RecordsSound`, `Convergence` | 185,502 |
| `Upgrade` | documents of 4 kinds of objects, 1 upload by release 2, upgrades by releases 1 (same generation, forced) and 3 (the next), 1 stop | `PagesBehindMarker`, `SuccessHolds`, `PagesForward`, `LivesOnce`, `UpgradesSettle` | 617,799 |
| `Diagrams` | 2 diagrams, 2 themes, 2 events | `TypeOK`, `ReaderSees`, `DrawingsForward`, `Settles` | 1,418,235 |
| `OneUpload` | four subjects (below) | `TypesOK`, `NothingLeft`, `UploadHonest`, `LimitsAgree`, `AnswerTrue`, `BundleUnderstood`, `GoneIsClean`, `DeletionOrder`, `LivesOnce`, `AllEnd` | 314,735 |
| `Commands` | four subjects (below) | `TypesOK`, `DeclaredNames`, `PreparedIsDeclarable`, `PurgeTrue`, `BulkTrue`, `SettingsExplained`, `UpgradeKeepsAddresses`, `CommandsEnd` | 719,964 |
| `Download`, `Truncated`, `HighWater` | one subject or scene each | a counterexample to `GetDeliversObject`, `PublishedWhole`, `FreshNumber` | |

**Scenes and subjects.** `MCRevisionScenes`, `MCRevisionRetries`, `MCOneUpload`
and `MCCommands` choose in the initial state which of several instances a
behaviour is about; the others rest in an initial state for ever, so TLC explores
the union of the instances and not their product. Their modules share no
state, and what they do share in the program is modelled where it matters (an
append and a deletion in `RevisionChain`, a purge's deletion with the
protections and appends of others in `PurgeSession` and `UploadDirectory`).
Each module's own assumptions are repeated as assumptions of these MC modules.

* `Revisions`: "append", two appenders, one of which starts over as often as it
  likes, two lost commits, one cleanup claim; "delete", an appender and a deleter
  of the revision it made, one claim; "any", an appender and a deleter of the
  first upload and of a revision, each as often as it likes; "first", an
  appender and two deleters of the first upload.
* `Retries`: "first", a repeated update and a repeated deletion of the first
  upload; "later", a repeated deletion of a later revision while the appender may
  stop anywhere.
* `OneUpload`: "stream", 34 uploads of up to three parts, whole, refused, short,
  long and failing, by Airplan's client and by others; "limits", six servers, seven
  requests and some hundred sizes at, below and above every limit; "call", every
  operation through every surface, against three generations of servers, with
  every failure; "delete", a forced deletion and a purge of one upload overlap,
  stop twice and are repeated, while someone protects it and an append links it.
* `Commands`: "purge", two uploads, two changes by others; "bulk", two profiles
  with overlapping manifests, one listing a document twice, two workers;
  "marker", declarations of all generations; "config", 4,518 invocations in families,
  in each of which a few fields vary through all layers (flag, variable, profile,
  root value, absent, empty, malformed) while the others are left alone.

### What the properties say

Revisions:

* `NumbersNeverReused`: no two indexes give one number to two uploads, and of
  two first updates that race only one founds a chain.
* `OnlyLosersLeave`: a client that rolls back has a candidate no index
  announces (or one whose deletion is under way), and a directory removed as an
  unannounced candidate is announced nowhere, then or later (proved without
  deletions and claims; section 5 has what claims can do).
* `FreshNumber`: the number an append is about to take is beyond every number
  in any index of the chain, receipts included.
* `ReplicasOrdered`: of any two indexes of a chain, receipts included, one has
  been through the other's state (proved without deletions; two deletions in a
  chain of four can break it, section 5).
* `FinalIsLast`: where a final reservation stands, no other member is left.
* `MonotoneReplica` (action property): no write takes back an entry of an
  index whose revision stays live, moves it to another chain, or replaces it
  by anything but an index or that chain's final reservation. Receipts are
  excepted: with four directories a receipt written after the loss described
  under `HighWater` can be older than what it replaces.
* `LinksWhole`: no member a reader is shown links to a directory whose marker
  is gone; a revision reported successful loads and is listed by every member
  until its deletion is serialized (proved without deletions and claims).
* `CommandsSettle`: an announced revision gets its index, revision 1 is
  promoted, every member lists the new one; a serialized deletion ends with the
  marker gone (of a later revision: of every one but the second).

Manifest:

* `InStep`: while no command is running, a machine that works alone has a
  manifest that lists exactly what is there, as protected and as linked as it
  is there. It is this property the rechecks of `commitSyncManifest` are for.
* `RecordsSound`: every record written is one the reader accepts; a tombstone is
  written only for an upload that is gone; no number is suppressed that a live
  member has.
* `Convergence`: whatever happened elsewhere and whatever records were lost or
  torn, repeated syncs reach and keep a manifest that equals the bucket.

One directory:

* `LivesOnce`: the refinement of `PublishedUpload`.
* `PagesBehindMarker`, `PagesForward`: no page is of a newer generation than its
  marker, and nothing goes back to an older generation, however upgrades overlap,
  repair and force. Within a generation they do go back.
* `SuccessHolds`: an upgrade that reports success leaves a marker of its generation
  or a newer one, although it does not look again: by then an older release of
  the same generation may have repaired or forced the document back to its own.
* `UpgradesSettle`: repeated upgrades by releases of different generations end with
  a marker of the newest one and with the pages it declares. Two releases of
  one generation may alternate for ever, each finding the other's unfinished pages
  in need of repair; TLC shows this without `Apart`.
* `GoneIsClean`, `DeletionOrder`: nothing is left behind a marker that is gone;
  the sentinel outlives the payload; a document that joins a history under a
  deletion's eyes loses nothing to it.

Requests:

* `NothingLeft`: no spool file and no open file outlives a request that ended
  while the server ran. `UploadHonest`: a document's operation runs only on the
  parts its metadata describes, and a caller told of success has published what
  was sent; one refused has published nothing.
* `LimitsAgree`: nothing is stored above a limit in force, and nothing within
  every stated limit is refused, by whichever layer.
* `AnswerTrue`: no surface reports success for what failed, an error keeps its
  identity across the server, the result read is what the core did.
  `BundleUnderstood`: no server gets a body in a shape it does not know.
* `AllEnd`: every call returns, its writer and its handler end, repeated deletions
  end.

Commands:

* `PurgeTrue`: a purge removes nothing outside the plan shown, nothing
  protected since its confirmation or before, and no member of a chain
  unless asked to (`OnlyWhatWasShown`); what it reports of each item is true as far
  as it can know (`SummaryTrue`): what it calls purged is gone, what it removed
  it calls purged or, after a lost answer, failed, and never skipped, and it
  succeeds exactly when nothing failed.
* `BulkTrue`: no document is upgraded twice by one command, whatever its profiles
  record and could inspect; every item is answered, truthfully; success leaves
  nothing old.
* `DeclaredNames`: what is written can be read as it was meant; no name is
  declared twice and none is a control object. `PreparedIsDeclarable`: what
  passes the local checks can be declared, up to two kinds of names that differ
  in case only (`OwnPageInOtherCase`, `PrefixInOtherCase`; `bundle.go:630` and
  `collection.go:363` accept them, the encoding of the marker refuses them
  before anything is written). `UpgradeKeepsAddresses`: an upgrade keeps every name
  and role.
* `SettingsExplained`, in five parts. `ShownTrue`: the layer `config show` names as
  the source of a value is where it came from, and no layer with precedence says
  anything of it; the same for the catalog and for the themes that a forced theme
  replaces. `ProfileSettled`: the profile is the one asked for, or recorded, or
  default, or the only one, what is said to have decided it did, and root values are
  used beside profiles only when they are complete. `NoRedirect`: a profile that only
  the manifest named never sends a command to a server. `InactiveTrue`: a
  warning about an unused field is about one set for this selection.
  `ClientAsShown`: the client has the themes shown and everything its backend
  requires, and no upload to a server has a flag that only the server may set.
* `CommandsEnd`: both end, with no worker waiting.

Page: `ReaderSees` (choice remembered, own palette, print and screen and viewer
show what is meant for them), `DrawingsForward` (no late drawing replaces a newer
choice, nothing is drawn twice or lost), `Settles`.

### Bounds

Three directories are a chain of three, or two candidates racing from one
document: every structural case of the code (no index, revision 1 with
its promotion, revision 2 which repairs revision 1, a later revision, a
historical, a latest and a last member as deletion target) occurs with three.
Two clients make every pair of operations. A deletion that classifies its target
while another one removes the target's predecessor needs three operations at once,
of which one client can do two in turn: that is `Mixed`, where every action of the
module happens except `GiveUp`, which the scenes of `Revisions` have. `MaxLost` =
2 lets both racing commits be ambiguous; `MaxClaims` = 1 suffices for a claim
against one pending commit, and what two claims can do is in section 5. `Stamps` has one second except where the clock is the
question. Deleters are kept apart from some appender behaviours by `Targets`,
because the wider instances run into the divergences of section 5, after which the
properties no longer hold.

`MaxOps`, `MaxForeign`: three commands let a sync be overtaken by an upload, an
append and a deletion; one foreign command makes the bucket differ from every
snapshot. `MaxFaults`: one lost or torn record is enough to make a manifest wrong
and to spoil the next record; two stops interrupt each of two overlapping deletions
once, or one twice. One stop suffices for `Upgrade`: its upload has no fairness and may
stay anywhere for ever, and an upgrade also ends wherever it meets a conflict. `MaxLost` of `UploadDirectory` is the number of
pages other users remove. `MaxVisitors` = 2 lets one upload be protected and
linked, or two uploads change; `MaxChanges` = 1 makes one document of a bulk upgrade
current, newer or gone under the plan. Three releases of two generations are the
least in which a document is taken back by an older release of its generation while
one of the next generation upgrades it. `MaxEvents` = 2: a theme change followed by a print,
a print within which the theme changes, a viewer opened before either.
Two named profiles make each case of the choice among none, one and several; two
config files tell the explicit from the default one; each family of invocations has
all layers of the fields it is about, since a field's value depends on no
other's except for the backend and the themes, which have families of their own.
`MaxPart`, `MaxTotal`, `MaxItems`, `WireCap` are limits of two or three chunks
or parts, with parts at, below and above them.

### Fairness

`Spec` has none anywhere: safety holds whoever stops. Liveness assumes what the
program's own scheduling or its user provides.

* `Retries` (`RetryScenes`; the general form is `RetrySpec` of `RevisionChain`):
  a user repeats a command until it succeeds (the code has no retry loop of
  its own, and its documentation tells users that retries repair): their started
  operations take steps, failed ones end and can be started again on every
  target (strong fairness, since a target may be loadable only now and then),
  and from some point on the network is reliable, i.e. an operation ends early
  only where the code returns an error. The last conjunct allows a `GiveUp` that
  is at the same time a step, since the last step of an operation and an error
  return both leave an idle client. Others may stop for ever.
* `Converge`: a running command of this machine goes on, and sync is run again
  and again. Nothing makes other machines or faults go on; both are bounded.
* `Upgrade`, subject "delete": a started command goes on and one that stopped is
  run again. Stops are bounded by `MaxFaults`, the upload itself has no fairness:
  it may stop for ever.
* Subject "stream": goroutines run (`Writer`, `EntryReader`, the `Handler`, the
  client's call), and a connection that was cut is noticed (`Dropped`). Nothing
  forces a disconnect, a shutdown or a success.
* Subjects "purge" and "bulk": goroutines run, a failed or expired request
  returns, and the person at the prompt answers.
* `Diagrams`: promises resolve or are rejected; nothing forces the reader.

## 4. Where code and documentation differ: runs

* `Download` (`GetDeliversObject`, `api.gen.go:6170`): the error of a storage read
  that fails in the middle of a download is appended, as a problem document, to
  a response that then ends regularly; `airplan get` exits 0 with a damaged file.
* `Truncated` (`PublishedWhole`, `internal/httpapi/client.go:614`): a part that
  fails to be written is followed by the final boundary all the same; the server
  takes the body for a whole one and publishes a truncated collection, though
  the caller's command fails.
* `HighWater` (`FreshNumber`, `delete.go:608`): after two interrupted deletions the
  index of a survivor that is behind becomes canonical; a used number is planned
  again.

## 5. Where code and documentation differ: other instances

Each is a counterexample TLC found, most within two minutes. In `MCRevisionChain`,
with root `r`, appender `a`, no lost commits, no claims and one second except as
stated:

| Property | Line | Instance | What happens |
| --- | --- | --- | --- |
| `AnnouncedNotCleaned` | `delete.go:401` | `Dirs` {r, x, y}, deleter b, `Targets` {r, y}, `MaxClaims` 1 | A cleanup claim stores the same index with another field order; a later propagation writes the canonical order again and, with it, the ETag the pending append waits for. Theorem `ClaimIsUndoable` is the reason. |
| `LaterDeletionsFinish` | `delete.go:716` | {r, x, y}, b, {y}, `Stamps` {1, 2}, `Retriers` {b}, `RetrySpec` | A repeated deletion dates its tombstone again; two times meet and no retry can propagate. |
| `DeletionsFinish` | `delete.go:845` | {r, x}, b, {x}, `Retriers` {b}, `RetrySpec` | Deleting revision 2 while revision 1 is not promoted commits the tombstone and then fails in the verification, for ever. |
| `NothingDangling` | `update.go:569` | {r, x, y}, b, {x, y} | The SDK's repetition turns a successful commit into a conflict; if deletions have tombstoned what it announced by then, the appender rolls the announced revision back. |
| `LaterDeletionsFinish` | `delete.go:608` | {r, x}, b, {r, x}, `Retriers` {b}, `RetrySpec` | Both revisions are deleted, the first deletion was interrupted; its retry needs the other one as a survivor, whose own index no longer decodes as a member's. |
| `AnnouncedNotCleaned` | `delete.go:367` | {r, x, y}, b and c, {r, x} | A candidate is classified from its predecessor's index and then from the predecessor's marker; a commit and a whole deletion fit in between. |
| `AnnouncedNotCleaned` | `update.go:531` | {r, x, y}, b, {r, x}, `MaxLost` 1 | The retried first append meets the reservation of a deletion that followed its own success. |
| `NothingDangling` | `delete.go:212` | {r, x, y}, b and c, {x} | A second deletion takes the tombstone in the predecessor as proof that the first one has finished. |
| `OnlyLosersLeave` | `update.go:577` | {r, x, y, z}, a and b append, no deleters, `MaxLost` 2, `MaxClaims` 2 | Two cleanups claim the same index: the second restores the field order, and the commit the first was to shut out succeeds after its candidate is gone. |
| `OnlyLosersLeave` | `update.go:1450` | {r, v, x, y, z}, three appenders, no deleters, `MaxLost` 1, `MaxClaims` 1 | As above, but the order is restored by an append that propagates its longer index to an older revision. |
| `ReplicasOrdered` | `delete.go:608` | a chain of four, all up to date, nobody appends, two deleters, targets: revisions 2 and 4 | The deletion of revision 4 is interrupted and repeated from the index of revision 3, which the deletion of revision 2 has not reached. |

In other modules:

* `ShutdownClean` of `UploadStream` (instance of `Truncated`): a request that takes
  longer than the ten seconds of a shutdown leaves its spool files.
* `StaleUploadSuppressed` of `ManifestSync` (two processes, no sync, three
  commands): the first upload of a chain, recorded late and as standalone,
  is listed as active after its deletion.
* `UnprotectedOnly` of `UploadDirectory` (one purging deleter, one guard): what is
  protected after the listing is deleted.
* `WholeBarrier` of `UploadDirectory` (one upload, one upgrade, assets): an upgrade
  of an upload that is still running checks pages and sources and puts the entry
  page before the assets are there. Deleting an upload that is still running
  leaves the objects put after the listing; `GoneIsClean` is therefore checked
  without uploads and upgrades.
* `LimitsAgree` without `Carried`: a single document loses the caller's limit on
  the total page size on its way to a server.
* Over REST a conflict of a deletion or a protection is reported with the code of
  an upgrade conflict (`httpapi_adapter.go:1033`), and the plan of a remote purge
  fails as a whole when a listed marker vanishes meanwhile (`operations.go:301`).
  Both are in the models as the code has them.

## 6. The proofs

All theorems hold for every set of directories, appenders, deleters, uploaders,
upgraders, releases, targets, times and bounds, under the named `ASSUME`s of the
modules: `NoDir` is no directory, times are positive, the root is a directory, bounds
are natural numbers, targets and retriers are among directories and clients,
releases are positive, a directory has one upload, limits are positive and a part's
does not exceed the total's, an upload is one of the plans described in section 2, a page
has a diagram and its default themes, and the identifier of a theme is none of the names
the page keeps for itself (`theme.go:119` allows lower-case words only), directories
(random names of a fixed length) and the uploads of a bucket are finitely many, and
there is a profile and a worker, and an error has at most one cause a caller can test for
(section 2, `ServerCall`). Where a theorem needs more
(nobody deletes, nobody uploads), its statement says so.

### One replica: `RevisionChainProofs`

* `InvariantHolds`: `Spec => []Inv`;
* `TypeCorrect`: `Spec => []TypeOK`;
* `ReplicasMonotone`: `Spec => MonotoneReplica`.

`TypeOK` alone is not inductive, because labels are joined from many places
and a step uses what earlier ones have established: `NewIndex` writes for
`cand`, so there must be one; `PropagateRead` visits entry `i` of `meta`, so it
must be live. `Inv` therefore adds `LocalOK`, which says for each control point
what the locals satisfy, in four parts: documents that were loaded decode
(`DocsOK`), where shared procedures return to (`ReturnsOK`), what an append
(`AppendOK`) and what a deletion (`DeleteOK`) carries. It speaks about one
client only: since every write of an index is conditional on what it replaces,
nothing needs to be known about the others, and each action of a client leaves
the facts of the others alone (`StepKeepsInv`). What is left is the request
that arrives after its writer has moved on; `LateOK` says that its body may
replace what it is conditional on. Each action has a lemma `...OK` that it
establishes `StepOK`: the client gets to a label with good locals, the store keeps
its types, and every index is replaced only by one that may replace it
(`Replaces`). `NextInv` collects them; the temporal theorems are one PTL step.

The receipt exception of `MonotoneReplica` is what makes `Replaces` provable
and it is needed (section 3). The key facts about the pure functions come first
in the module: `EntsPrecede` is reflexive, transitive
(`PrecedeTransitive`) and antisymmetric (`PrecedeAntisymmetric`); appending and
tombstoning move up in it; the latest and next live entries are live; the
claim of a cleanup keeps an index semantically and is its own inverse
(`ClaimIsUndoable`).

### All replicas, appends that race: `RacingUpdatesProofs`

Under `Deleters = {}`, and whatever writers crash, retry, lose answers and claim:

* `OneLineHolds`: there is a sequence of directories, the *line*, of which every
  index stored, held in a local variable or in flight is a beginning;
* `NumbersStayAssigned` (`NumbersNeverReused`), `ReplicasInOrder`
  (`ReplicasOrdered`), `NumbersAreFresh` (`FreshNumber`).

`OneLine` says of the line: distinct facts of a store index (`Fits`), of a loaded
document, of the locals at each label (`LocalFits`), of a commit in flight
(`LateFits`: it would extend the beginning it is conditional on by one
directory), and `Passed`: the index of a directory that has a successor on the
line is longer than its own number. `Passed` is what serializes: a commit is
conditional on the index of the last member of what it extends; if that member
has a successor already, the index has changed and the commit fails. So a step
that stores what was in flight either finds the line at the point it extends,
and the line grows by one (`LineGrows`), or it changes nothing. The steps that
can grow it are `CommitApplied`, `CommitEchoed`, `RecRetry` and `DeliverLate`;
all others leave the line as it is (`QuietStep`).

With deletions `FreshNumber` and `ReplicasOrdered` are false in general (run
`HighWater`, section 5), and the runs check the rest on instances.

### What becomes of a candidate: `RacingUpdatesProofs`, second part

Under `Deleters = {}` and as long as no cleanup claim has been won (`claims = 0`):

* `LosersLeave` (`OnlyLosersLeave`): what is rolled back is announced by no index;
* `LinksStayWhole` (`LinksWhole`): what is announced is there, and once reported it
  is complete and listed by every member.

Both hypotheses are needed: section 5 has counterexamples with claims and with
deletions. Claims are won only by a writer that lost an answer, so everything
short of that is covered, lost answers whose commits arrive late included.
The invariant `OneFate` goes on from the line, in three parts:

* `FatesOK` says what a writer may know of its candidate. Before the commit is
  sent nothing can have announced it (`Unsent`); afterwards every request in
  flight that would announce it is the writer's own, conditional on what the
  writer saw (`Open`). A writer that looks at the member it wrote to sees its
  commit or anything later, because the index there only grows (`ToldIsShown`).
  So a conflict, or an index where a retry expected none, is final: each such
  request is conditional on an index that is there no more and will not come
  back (`Spent`, `SpentStays`), the candidate is `Dead`. A claim breaks this last
  step: it changes an index and a second one changes it back.
* `StandsOK` says that each directory of the line has its marker and payload.
  Both are written before the commit (`Backed`, and `Carried` for requests whose
  writer has gone), and taken away only from a dead candidate.
* `AcksOK` says that what the verification has seen stays true: a member that
  lists revision `n` never lists fewer (`KnownStays`). Members that join the line
  later list `n` from the start. This part needs no bound on claims.

### One machine's manifest: `ManifestSyncProofs`

* `RecordedTruth` (`RecordsSound`) and `Types` (`TypeOK` of `ManifestSync`), for any
  number of commands, syncs, other machines, torn and lost records.

What a record says (`Tells`) is chosen so that no later step makes it untrue: its
directory has been drawn, it gives that directory its own chain and number or none,
it announces a revision only when the index lists one, and it reports a deletion only
when the marker has gone. `Inv` says that every record has this
wherever it is: in the file, in a command that has yet to write it, in the snapshot and
the plan of a sync, in its output. What is needed of the bucket is that it only
`Grows`: what was drawn, listed or gone remains so. `StoreOK` adds that a number is
announced once, which is why a tombstone's revision number suppresses no other upload;
it stays so because a first revision is listed only together with a second one. `MergedTells` is
the lemma about a sync's recheck: a merged record takes each of its fields from a
record that tells the truth, or from the storage it has just read.

### One purge, one bulk upgrade, one declaration: `CommandsProofs`

* `PurgeKeepsItsWord` (`PurgeTrue`), for any uploads, either backend, any flags and any
  number of protections, appends, deletions and syncs by others;
* `BulkReportIsTrue` (`BulkTrue`), for any documents, profiles, manifests and number of
  workers, whenever the deadline passes;
* `DeclarationsHold` (`DeclaredNames`), for any bundles, collections and bodies, any
  letter case and devices under `PathAssumption` (the control names are lower case) and
  `MarkerAssumption` (objects, pages, assets and members are lists, as Go slices are, and
  a stored list of pages one of descriptors);
* `UpgradesKeepAddresses` (`UpgradeKeepsAddresses`), under the same assumptions, from
  markers of every version.

`PurgeInv` splits the way the code does. `PromisesSound` is about the others: what is
kept is protected still, what joined a history stays in it unless an `--include-versioned`
purge takes it out. `CurrentSound` is about the one upload the loop is at: once
the listing has shown it unprotected it is not among the kept (a protection after the
prompt promises nothing), and between reservation and marker a source-backed document
holds its own receipt, so no append has linked it. `ItemsSound` is about the uploads
behind the loop and before it (one removed is told of as purged or failed), and needs that no upload is planned twice
(`PlanSound`), which for the storage plan rests on the listing being inspected item
by item. The steps of others leave the loop's facts alone (`OthersLeaveTheLoop`)
because a marker never comes back.

`BulkInv` follows an index through the pool: not handed out, in the hands of one
worker (`PoolSound`), or answered (`AnswersSound`); the end of the pool leaves only
the last. A document is worked on once because each index is handed out once and no
two indices have one document: `DeduplicatedIs`, `MergedPlansIs`, `UpgradeableIs` are
the lemmas about the three selections. The merged plan has one item for each identity
(`OneIdentityEach`), and an upgradeable item's identity is its document. They rest on
`InOrderIs`, that a finite set of numbers can be taken in order, which is proved from
scratch (`OrderExists`, with a smallest counterexample in place of an induction).

`MarkerInv` has a witness for what was written last: a record of version 4 to 7 that is
valid and whose encoding is the body (`Declarable`). A reader of that version looks at
every field the record may have set (`FieldsReadIn`; before version 6 a valid record has
no entry point and no pages), so it reads the record but for its views (`ReadsBack`),
which validation does not look at (`SameIsValid`) and normalization computes again
(`SameViews`): `EncodedIsAccepted`. That what is rewritten is a record at all, with lists
of objects and pages, is the other half of the invariant (`RecordIs`, `UpgradedHasLists`,
`FlattenIsList`). The names are distinct because an accepted record is valid; that none is
a control object needs each of the three grammars of names (`PathsAreNoControls`,
`CollectionNamesAreNoControls`, `ObjectNamesAreNoControls`) and, for versions 1 and 2, that
the derived names have too few parts (`LegacyNames`).

An upgrade makes its declaration anew from the rendered graph, and the code compares only
pages and sources with the old one; that the names agree role by role takes the old
marker's own checks. `UpgradedNames` says what is declared anew, `RecordNames` what was
declared, both in the form of `Declares`: the pages' names, their sources, the assets,
a diff for a later revision, nothing else. From version 6 on the described pages and the
page objects are equally many and no two described pages share a name, so there is no page
or source beside them (`NamesAll`, a pigeonhole argument: `BundleNames`); before version 6
there is one page and one source (`SinglePageNames`); versions 1 and 2 declare nothing
else (`SeenNames`). The diff is there exactly for a later revision (`OtherRoles`), and
version 3, which cannot declare one, cannot declare a revision either.

### One directory: `UploadDirectoryProofs`

`Inv` says what each upgrade knows, at each instruction of its program, of the
marker (`Knows`), in generations: the pages it planned are of no newer one than the
marker was; the marker it read afresh is of no newer one than its own release; once
it has put the marker, the marker stays at its generation or above. The last point
needs the others: an upgrade of an older generation than the marker's must have stopped
before, while one of the same generation may replace the marker by its own.
From it follow

* `MarkerFirst` (`PagesBehindMarker`), `NeverBack` (`PagesForward`) and
  `TypeCorrect`, with any uploads, upgrades, deletions, protections and losses;
* `HistoriesKept`: a document that joins a history loses nothing to a deletion;
* `CleanWhenGone` (`GoneIsClean`) and `DeletionsInOrder` (`DeletionOrder`) where
  nobody uploads or upgrades meanwhile: what is there of the payload was listed
  (`CleanInv`). With uploads `GoneIsClean` is false (section 5, `WholeBarrier`);
* `SuccessIsReal` (`SuccessHolds`) where nobody deletes;
* `Implements` (`LivesOnce`): every step of a directory is a step of
  `PublishedUpload` or a stutter, for uploads and upgrades without deletions
  (`ShowInv`: an upgrade has seen every source and put every page before the entry
  page), and for deletions alone (`CleanInv`).

### One request: `UploadStreamProofs`

* `RequestsLeaveNothing` (`NothingLeft`) and `RequestsAreBounded` (`TypeOK` of
  `UploadStream`) hold whoever is at the other end. `ServerOK` says for each control
  point of the handler which files are there (`Spooled`), which parts of a document
  have been checked (`Describes`) and how many there can be; the refusal of the
  metadata bounds the parts of a document, the count those of a collection.
* `UploadsAreHonest` (`UploadHonest`) and `SentWholeOrNotAtAll` need the client as
  well. A *place* in a body is the part begun last, the chunks of it that have gone
  by, and whether the final boundary has. `Delivery` says that what is in flight is
  a path (`Path`) from the place the server has read to (`ReadTo`) to the place the
  client has written to (`WrittenTo`): writing appends to it (`PathAppend`), reading
  takes from its front (`PathTail`), a cut keeps a beginning (`PathCut`), after which
  nothing is known of its end any more and nothing needs to be, since the pipe is
  closed. A part can be followed by another one only when it is whole, and by the
  final boundary only when it is the last one or some source failed (`MayEnd`);
  therefore the server has what was sent, but for the end of a part that failed
  (`Received`, `Published`). `SentWholeOrNotAtAll` is `PublishedWhole` with that case
  excluded, which the run `Truncated` shows to be real.

The second part of the module is about `UploadLimits`, as the instance `Limits`.

* `LimitsAlwaysAgree` (`LimitsAgree`), for every upload, all limits asked and every
  server under `Deployed`, at any integer width of at least 4 GiB.
* `LimitsAreHonoured` (its first half) and `LimitsTyped` without `Deployed`: whatever
  options `validateOptions` lets pass, also those whose request limit has wrapped.

`LimitsInv` has one fact for each place a call can be (`PassageOK`): which limits it
carries, and what let it through (`ClientPassed`, `ParserPassed`). `StatedIs` splits
what is stated of a name into the ceiling of the surface and the caller's limit or
default. For each layer a lemma says that what it refuses is refused by right
(`CoreRefusesRightly`, `SpoolRefusesRightly`, `ClientRefusesRightly`,
`ParserRefusesRightly`, `ServedCoreRefusesRightly`), and `HostedIsWithin` and
`ServedIsWithin` that what passes all of them is within the limits, although a single
document's limits but one stay behind on its way. The arithmetic is in `RoomEnough`
and `EstimateFits`: an accepted request limit leaves room for the largest payload and
eight KiB for each item, and what the client adds to its estimate is below the
server's fixed overhead. This needs that `MaxFiles` times the framing of a part
does not wrap, which the code does not check.

The third part is about `ServerCall`, as the instance `Call`.

* `AnswersAlwaysTrue` (`AnswerTrue`: `HonestSuccess`, `ErrorIdentity` and
  `AnswerFaithful`), for every operation through every surface, whatever its core
  returns or fails with, for any items, any servers, and any request or answer lost;
* `BundlesAlwaysUnderstood` (`BundleUnderstood`), for the same.

`CallInv` says what each phase leaves. `CoreSound` is what a core may have done: only an
operation on several items has an error beside its result. An answer is one of three
(`RefusedEarly` before the core ran, `RefusedLate` in place of its result,
`ResultSent`), and a finished call `EndsWell`, which is `AnswerTrue` said of one outcome.
The server of a call goes on after its caller has left, so the two have phases of their
own (`ServerPhase`, `CallerPhase`). Three lemmas carry the argument. `CodesTrue`: a problem
that names a cause is made of an error that has it. `CausesNamed`: an error with a
testable cause, not cancelled, meets the rule for that cause before any other,
although the seventeen rules are tried in the order of the code. `FactsTravel`: for each
operation, what `core...` makes of what `wire...` sent is what was sent, but for the
name of the profile and the entry page of a document. For tool calls of a hosted server
`HostedErrors` says that an error stays one and gets no cause it did not have.
`RequestKnown` is the part for `BundlesAlwaysUnderstood`: the shape of a request is chosen
once the capabilities are read and never after.

### One command's settings: `ConfigurationProofs`

* `SettingsAlwaysExplained` (`SettingsExplained`), for any values, profiles, files,
  environments, flags and records, and `SettingsTyped`.

`ConfigInv` says that the configuration is the resolution of what was asked or, where
`inferred`, of the same with the recorded profile, and that a client is one that
`New` makes of it. The rest is about a single resolution. `MergedAsSourced` and
`TimeoutAsSourced` are its heart: the merge, which goes through the layers
from below, and `WinningSource`, which looks for the first one from above, agree on
every field, the exception being the empty texts in a file that mean the default.
`ThemesKept`: resolving the themes of the values shown, as the client does, gives
the same themes and catalog again. `RootsAgree`: the root values looked at for the
choice of a profile agree with those merged later where it matters, although they are
merged over other defaults. Assumed is that `""` and "not set" are distinct from
values and profiles, and that there are finitely many profiles.

### One page: `DiagramThemesProofs`

* `ReaderAlwaysSees` (`ReaderSees`), `DrawingsOnlyForward` (`DrawingsForward`) and
  `DiagramsTyped` (`TypeOK`), for any catalog, any number of diagrams, whatever other
  pages have stored, and any interleaving of choices, printing, the viewer, the import
  and the renderings, failed ones included. How much the reader does is not bounded
  either: the theorems hold for every `MaxEvents`.

`ReaderSees` is not inductive: whether the screen gets rid of a print drawing depends
on who waits for what. `Inv` says in addition

* of the queue (`QueueSound`): a theme has one task; the running task, and no other, has
  drawn something, namely the blocks before `next`; in a theme without a task every block
  has been tried or none; the configuration is the running task's. So a theme is either
  being prepared or prepared, never both (`PreparedNotPreparing`);
* of the stages (`StagesSound`): before the import nothing is queued, drawn or awaited;
  the print drawings are made after the slots' and are complete before the last two
  stages, so they do not change any more while a started page prints;
* `Drawn`: a block shows a drawing it has, hence a failure takes none away;
* of the requests: who waits is waiting for a task or for what is prepared
  (`WorthWaiting`), and on the screen the theme in force is prepared or is that of the
  latest request (`ChosenServed`). A theme the system changes while the page prints is
  not asked for; the end of the printing makes up for it, and `ChosenServed` speaks of
  the screen for that reason.

`Grows` (a drawing stays) and `Onward` (a theme being prepared stays so or becomes
prepared) are what every step does; with them the steps that do not show anything
keep the rest (`ShownStays`, `PageIdle`). `EnqueueGrows` is the lemma about the
queue, `ShowAllSound` the one about showing.

### What is not proved

All liveness properties, since fairness and `ENABLED` are out of the prover's
reach, and what needs induction over data or `RECURSIVE` operators, of which the
modules have none: `PreparedIsDeclarable` is model-checked only, because that the
claims of any bundle leave no collision is an induction over `ClaimAll`'s fold. So are
the invariants of `RevisionChain` that speak of deletions (`FinalIsLast` among them:
it needs what every replica of a chain knows of every deletion under way), `InStep`,
which needs what a whole sync has read of the bucket at each of its steps, and the
invariants of the modules not named above.

## 7. Not modelled

* Rendering, templates, diffs: functions of their input, no
  protocol state. Build and release tooling.
* The bytes of objects, JSON syntax, digests, content types, flags, tables,
  zoom and layout: abstracted as said with each module.
* Composition of `RevisionChain` with `UploadDirectory`: an upgrade of a chain
  member while it is appended to. Both use the same ETags; the product is out of
  TLC's reach at the bounds above, and `Link` stands for the append.
* Authentication, origins, request identifiers; credentials and listing pages of
  the storage client.

## 8. The plan

Done: the inventory of section 1 in models, except for section 7, and the proofs
of section 6. Next, proofs:

1. `ManifestSync`: `InStep` for one machine.

Wider instances (four directories, two targets, more commands) are worth running
by hand after each change of a model; the traces of section 5 were found so.
