---- MODULE ServerCall ----
(* One operation asked of Airplan through one of its surfaces: the command   *)
(* line over storage ("direct"), the command line over a server's REST API   *)
(* ("rest"), the stdio MCP server ("stdio") and the MCP endpoint of a server *)
(* ("hosted").  The operation itself is any outcome its core may have; what  *)
(* is modelled is how that outcome reaches the caller: the server's checks,  *)
(* the problem an error becomes, the fields a result keeps, the items of a   *)
(* partial result, a download that breaks while it streams, requests and     *)
(* replies that are lost, and a caller that gives up.                        *)
EXTENDS Integers

CONSTANTS
    Calls,          \* calls tried: surface, op, bundled, refused
    Servers,        \* servers tried: bundles, canonical
    Failures,       \* the error sets each operation's core can return
    Items           \* the items of a sync, a purge or a bulk upgrade

Surfaces == {"direct", "rest", "stdio", "hosted"}
Uploads == {"upload", "collection", "revision"}
Itemised == {"sync", "purge", "bulk"}
Upgrades == {"plan", "upgrade", "planBulk", "bulk"}
Targets == {"inspect", "get", "delete", "protect", "unprotect"}
Ops == Uploads \cup Itemised \cup Upgrades \cup Targets \cup {"list", "storage", "preview"}

\* What a caller can test an error for.
Testable == {"tooLarge", "historyFull", "conflict", "protected"}

\* An error has at most one testable cause; a conflict or a protection has no
\* other cause that a rule knows, and a lost append is a conflict.
Distinguishable(error) ==
    /\ error # {}
    /\ \A x, y \in error \cap Testable : x = y
    /\ error \cap {"conflict", "protected"} # {} => error \subseteq Testable \cup {"appendConflict", "canceled", "other"}
    /\ "appendConflict" \in error => "conflict" \in error

\* Documents alone have pages and assets of their own.
CallAssumption ==
    /\ Calls \subseteq [surface : Surfaces, op : Ops, bundled : BOOLEAN,
                        refused : {"no", "invalid", "tooLarge"}, at : {"idle"}]
    /\ \A c \in Calls : c.bundled => c.op \in {"upload", "revision"}
    /\ Servers \subseteq [bundles : BOOLEAN, canonical : BOOLEAN]
    /\ DOMAIN Failures = Ops
    /\ \A op \in Ops : \A error \in Failures[op] : Distinguishable(error)

VARIABLES
    call,       \* the call and what the caller is doing
    server,     \* the server it goes to
    request,    \* what was sent: where, and in which shape
    serving,    \* how far the operation is
    core,       \* what the core did
    reply,      \* the server's answer
    outcome     \* what the caller was left with

vars == <<call, server, request, serving, core, reply, outcome>>

NoCall == [surface |-> "none", op |-> "none", bundled |-> FALSE, refused |-> "no", at |-> "idle"]
NoItems == [i \in Items |-> "none"]
NoCore == [ran |-> FALSE, result |-> FALSE, error |-> {}, items |-> NoItems, facts |-> {}, broken |-> FALSE]
NoReply == [status |-> 0, code |-> "none", items |-> NoItems, facts |-> {}, body |-> "none"]
NoRequest == [route |-> "none", shape |-> "none"]
NoOutcome == [ok |-> FALSE, is |-> {}, items |-> NoItems, facts |-> {}, body |-> "none"]

Partial(items) == \E i \in Items : items[i] = "failed"

(***************************************************************************)
(* Results on the wire.  A result is the set of facts it holds; the texts  *)
(* of warnings and errors are replaced by neutral ones.                    *)
(***************************************************************************)
FactsOf(op) ==
    CASE op = "upload" -> {"where", "chain", "pages", "warnings"}
      [] op = "collection" -> {"where", "files", "warnings"}
      [] op = "revision" -> {"where", "chain", "pages", "lineage", "warnings"}
      [] op = "plan" -> {"where", "etags", "profile"}
      [] op = "planBulk" -> {"where", "etags", "profile", "counts", "warnings"}
      [] op = "upgrade" -> {"where", "chain", "state", "warnings"}
      [] op = "inspect" -> {"where", "chain", "objects", "versions", "protection", "warnings"}
      [] op = "list" -> {"where", "chain", "protection", "profile", "warnings"}
      [] op = "delete" -> {"where", "warnings"}
      [] op \in {"protect", "unprotect"} -> {"where", "protection", "warnings"}
      [] op = "storage" -> {"where", "objects", "protection"}
      [] op = "preview" -> {"where", "chain", "objects", "versions", "protection", "counts", "profile", "warnings"}
      [] op = "sync" -> {"where", "warnings"}
      [] OTHER -> {}

wireUploadResult(facts) == facts \cap {"where", "chain", "files", "warnings"}
wireDocumentResult(facts) == wireUploadResult(facts) \cup (facts \cap {"pages"})
wireRevisionResult(facts) == wireDocumentResult(facts) \cup (facts \cap {"lineage"})
wireUpgradePlan(facts) == facts \cap {"where", "etags"}
wireUpgradeResult(facts) == wireUploadResult(facts) \cup (facts \cap {"state"})
wireBulkPlan(facts) == wireUpgradePlan(facts) \cup (facts \cap {"counts", "warnings"})
wireObjects(facts) == facts \cap {"objects"}
wireVersions(facts) == facts \cap {"versions"}
wireManifestRecord(facts) == facts \cap {"where", "chain", "protection", "warnings"}
wireDeleteResult(facts) == facts \cap {"where", "warnings"}
wireProtectionResult(facts) == facts \cap {"where", "protection", "warnings"}
wireStorage(facts) == facts \cap {"where", "objects", "protection"}

wireInspection(facts) ==
    (facts \cap {"where", "chain", "protection", "warnings"}) \cup wireObjects(facts) \cup wireVersions(facts)

wirePreview(facts) == wireManifestRecord(facts) \cup wireInspection(facts) \cup (facts \cap {"counts"})

Wire(op, facts) ==
    CASE op \in {"upload", "collection"} -> wireDocumentResult(facts)
      [] op = "revision" -> wireRevisionResult(facts)
      [] op = "plan" -> wireUpgradePlan(facts)
      [] op = "planBulk" -> wireBulkPlan(facts)
      [] op = "upgrade" -> wireUpgradeResult(facts)
      [] op = "inspect" -> wireInspection(facts)
      [] op \in {"list", "sync"} -> wireManifestRecord(facts)
      [] op = "delete" -> wireDeleteResult(facts)
      [] op \in {"protect", "unprotect"} -> wireProtectionResult(facts)
      [] op = "storage" -> wireStorage(facts)
      [] op = "preview" -> wirePreview(facts)
      [] OTHER -> {}

\* A document a server lists no pages for has its entry as its only page.
coreUploadResult(facts) == facts \cap {"where", "chain", "files", "warnings"}
coreDocumentResult(facts) == coreUploadResult(facts) \cup {"pages"}
coreRevisionResult(facts) == coreDocumentResult(facts) \cup (facts \cap {"lineage"})
coreUpgradePlan(facts) == facts \cap {"where", "etags"}
coreUpgradeResult(facts) == coreUploadResult(facts) \cup (facts \cap {"state"})
coreBulkPlan(facts) == coreUpgradePlan(facts) \cup (facts \cap {"counts", "warnings"})
coreObjects(facts) == facts \cap {"objects"}
coreVersions(facts) == facts \cap {"versions"}
coreInspection(facts) ==
    (facts \cap {"where", "chain", "protection", "warnings"}) \cup coreObjects(facts) \cup coreVersions(facts)
coreManifestRecord(facts) == facts \cap {"where", "chain", "protection", "warnings"}
coreProtectionResult(facts) == facts \cap {"where", "protection", "warnings"}
coreStorage(facts) == facts \cap {"where", "objects", "protection"}
corePreview(facts) == coreManifestRecord(facts) \cup coreInspection(facts) \cup (facts \cap {"counts"})

Unwire(op, facts) ==
    CASE op = "upload" -> coreDocumentResult(facts)
      [] op = "collection" -> coreUploadResult(facts)
      [] op = "revision" -> coreRevisionResult(facts)
      [] op = "plan" -> coreUpgradePlan(facts)
      [] op = "planBulk" -> coreBulkPlan(facts)
      [] op = "upgrade" -> coreUpgradeResult(facts)
      [] op = "inspect" -> coreInspection(facts)
      [] op \in {"list", "sync"} -> coreManifestRecord(facts)
      [] op \in {"protect", "unprotect"} -> coreProtectionResult(facts)
      [] op = "storage" -> coreStorage(facts)
      [] op = "preview" -> corePreview(facts)
      [] OTHER -> facts

\* The error text of an item that did not fail is empty.
MutantItemError(items) == [i \in Items |-> IF items[i] = "failed" THEN "done" ELSE items[i]]

\* The error text of an item is what marks it as failed: it is replaced, and
\* an empty one stays empty.
ItemError(items) == items

(***************************************************************************)
(* Errors                                                                  *)
(***************************************************************************)
Problems ==
    <<[when |-> {"canceled"}, status |-> 408, code |-> "request_timeout"],
      [when |-> {"tooLarge"}, status |-> 413, code |-> "input_too_large"],
      [when |-> {"historyFull"}, status |-> 422, code |-> "revision_history_full"],
      [when |-> {"invalidInput"}, status |-> 422, code |-> "invalid_upload"],
      [when |-> {"invalidTarget"}, status |-> 422, code |-> "invalid_target"],
      [when |-> {"updateMissing"}, status |-> 404, code |-> "upload_not_found"],
      [when |-> {"updateInvalid"}, status |-> 422, code |-> "invalid_upload"],
      [when |-> {"updateRefused"}, status |-> 422, code |-> "invalid_target"],
      [when |-> {"upgradeMissing"}, status |-> 404, code |-> "upload_not_found"],
      [when |-> {"upgradeInvalid"}, status |-> 422, code |-> "invalid_upload"],
      [when |-> {"ineligible"}, status |-> 422, code |-> "invalid_target"],
      [when |-> {"appendConflict"}, status |-> 409, code |-> "revision_conflict"],
      [when |-> {"conflict"}, status |-> 409, code |-> "upgrade_conflict"],
      [when |-> {"badReason"}, status |-> 422, code |-> "invalid_protect_reason"],
      [when |-> {"protected"}, status |-> 409, code |-> "upload_protected"],
      [when |-> {"marker"}, status |-> 422, code |-> "invalid_upload"],
      [when |-> {"missing"}, status |-> 404, code |-> "upload_not_found"]>>

Internal == [status |-> 500, code |-> "internal_server_error"]

\* The first rule an error meets.
apiOperationError(error) ==
    LET matching == {n \in DOMAIN Problems : Problems[n].when \subseteq error}
    IN  IF matching = {} THEN Internal
        ELSE Problems[CHOOSE n \in matching : \A m \in matching : n <= m]

\* What a REST caller can test an error for.
transportError(code) ==
    CASE code \in {"upgrade_conflict", "revision_conflict"} -> {"conflict"}
      [] code \in {"input_too_large", "request_too_large"} -> {"tooLarge"}
      [] code = "revision_history_full" -> {"historyFull"}
      [] OTHER -> {"server"}

\* The errors a tool call of a hosted server names; any other becomes a general one.
HostedNames == {"canceled", "tooLarge", "historyFull", "invalidInput", "updateMissing", "updateInvalid",
                "updateRefused", "protected"}

mcpOperationError(error) ==
    LET named == {n \in DOMAIN Problems : Problems[n].when \subseteq error \cap HostedNames}
    IN  IF error = {} THEN {}
        ELSE IF named = {} THEN {"server"}
        ELSE Problems[CHOOSE n \in named : \A m \in named : n <= m].when

\* The error a partial result comes back with.
Incomplete(items) == IF Partial(items) THEN {"incomplete"} ELSE {}

(***************************************************************************)
(* The caller                                                              *)
(***************************************************************************)
Idle == call.at = "idle"
Finished(o) == /\ call' = [call EXCEPT !.at = "done"]
               /\ outcome' = o
Failed(is) == [NoOutcome EXCEPT !.is = is]

\* The call ends without an answer.
Leave(is) ==
    /\ call' = [call EXCEPT !.at = "left"]
    /\ outcome' = Failed(is)
    /\ UNCHANGED <<server, request, serving, core, reply>>

\* Operations that ask for the server's capabilities first.
Probed(c) == c.op \in {"revision", "collection"} \/ (c.op = "upload" /\ c.bundled)

Begin ==
    /\ Idle
    /\ \E c \in Calls, s \in Servers :
           /\ server' = s
           /\ IF c.surface = "rest"
              THEN /\ call' = [c EXCEPT !.at = IF Probed(c) THEN "probing" ELSE "sending"]
                   /\ request' = IF Probed(c) THEN NoRequest ELSE [route |-> c.op, shape |-> "plain"]
                   /\ UNCHANGED serving
              ELSE /\ call' = [c EXCEPT !.at = "waiting"]
                   /\ serving' = "running"
                   /\ UNCHANGED request
    /\ UNCHANGED <<core, reply, outcome>>

\* A call refused before it is sent.
Refuse ==
    /\ Finished(Failed({"client"}))
    /\ UNCHANGED <<server, request, serving, core, reply>>

Proceed(route, shape) ==
    /\ call' = [call EXCEPT !.at = "sending"]
    /\ request' = [route |-> route, shape |-> shape]
    /\ UNCHANGED <<server, serving, core, reply, outcome>>

\* Managed pages and assets go only to a server that says it has them.
UploadDocument ==
    /\ call.at = "probing" /\ call.op = "upload"
    /\ IF server.bundles THEN Proceed("upload", "bundle") ELSE Refuse

UploadFiles ==
    /\ call.at = "probing" /\ call.op = "collection"
    /\ Proceed("collection", "plain")

\* The server's capabilities are never asked for.
MutantRevisionShape(c, s) == "bundle"

\* The shape of a revision's metadata: servers without bundles know the old one.
RevisionShape(c, s) == IF s.bundles THEN "bundle" ELSE "plain"

CreateDocumentRevision ==
    /\ call.at = "probing" /\ call.op = "revision"
    /\ IF call.bundled /\ ~server.bundles THEN Refuse
       ELSE Proceed(IF server.bundles /\ server.canonical THEN "revision" ELSE "update", RevisionShape(call, server))

\* The capabilities cannot be read.
ProbeFails ==
    /\ call.at = "probing"
    /\ Leave({"server"})

Send ==
    /\ call.at = "sending"
    /\ call' = [call EXCEPT !.at = "waiting"]
    /\ serving' = "arrived"
    /\ UNCHANGED <<server, request, core, reply, outcome>>

\* Nothing comes back: the request, or the answer, or the connection was lost,
\* or what answered was not Airplan.
Lost ==
    /\ call.surface = "rest" /\ call.at \in {"sending", "waiting"}
    /\ Leave({"server"})

\* The caller's context ends.  The operation of a server goes on.
GiveUp ==
    /\ call.surface = "rest" /\ call.at = "waiting"
    /\ Leave({"canceled"})

(***************************************************************************)
(* The server and the core                                                 *)
(***************************************************************************)
Answer(r) ==
    /\ reply' = r
    /\ serving' = "answered"
    /\ UNCHANGED <<call, server, request, core, outcome>>

Problem(status, code) == [NoReply EXCEPT !.status = status, !.code = code]

Invalid == Answer(Problem(400, "invalid_request"))
Arrived(ops, fault) == serving = "arrived" /\ call.op \in ops /\ call.refused = fault

\* Requests the handlers refuse: a multipart body over the limit, one of another
\* media type, a plan, a target or a purge that is not there.
RefuseLarge == Arrived(Uploads, "tooLarge") /\ Answer(Problem(413, "request_too_large"))
RefuseMedia == Arrived(Uploads, "invalid") /\ Invalid
RefuseTarget == Arrived(Targets, "invalid") /\ Invalid
RefusePlan == Arrived(Upgrades, "invalid") /\ Invalid
RefusePreview == Arrived({"preview"}, "invalid") /\ Invalid
RefusePurge == Arrived({"purge"}, "invalid") /\ Invalid

Accept ==
    /\ Arrived(Ops, "no")
    /\ serving' = "running"
    /\ UNCHANGED <<call, server, request, core, reply, outcome>>

Ran(c) ==
    /\ core' = c
    /\ serving' = "ran"
    /\ UNCHANGED <<call, server, request, reply, outcome>>

\* A server without bundles reports no pages.
Known(facts) == IF call.surface = "rest" /\ ~server.bundles THEN facts \ {"pages"} ELSE facts

Succeeded == [NoCore EXCEPT !.ran = TRUE, !.result = TRUE]

\* One outcome for the call, with any one fact missing.
RunPlain ==
    /\ serving = "running" /\ call.op \notin Itemised \cup {"get"}
    /\ \/ \E e \in Failures[call.op] : Ran([NoCore EXCEPT !.ran = TRUE, !.error = e])
       \/ \E f \in {FactsOf(call.op)} \cup {FactsOf(call.op) \ {g} : g \in FactsOf(call.op) \ {"where", "pages"}} :
              Ran([Succeeded EXCEPT !.facts = Known(f)])

RunGet ==
    /\ serving = "running" /\ call.op = "get"
    /\ \/ \E e \in Failures["get"] : Ran([NoCore EXCEPT !.ran = TRUE, !.error = e])
       \/ \E b \in BOOLEAN : Ran([Succeeded EXCEPT !.broken = b])

ItemResults == [Items -> {"done", "skipped", "failed"}]

\* Requests of a sync fail one by one, or the manifest cannot be written.
RunSync ==
    /\ serving = "running" /\ call.op = "sync"
    /\ \/ \E e \in Failures["sync"] : Ran([NoCore EXCEPT !.ran = TRUE, !.error = e])
       \/ \E items \in ItemResults :
              Ran([Succeeded EXCEPT !.facts = FactsOf("sync"), !.items = items, !.error = Incomplete(items)])
       \/ \E items \in [Items -> {"done", "skipped"}], e \in Failures["sync"] :
              Ran([Succeeded EXCEPT !.facts = FactsOf("sync"), !.items = items, !.error = e])

RunPurge ==
    /\ serving = "running" /\ call.op = "purge"
    /\ \/ \E e \in Failures["purge"] : Ran([NoCore EXCEPT !.ran = TRUE, !.error = e])
       \/ \E items \in ItemResults :
              Ran([Succeeded EXCEPT !.items = items, !.error = IF Partial(items) THEN {"incomplete"} ELSE {}])

\* Items a cancelled bulk upgrade did not start have failed.
RunBulk ==
    /\ serving = "running" /\ call.op = "bulk"
    /\ \/ \E e \in Failures["bulk"] : Ran([NoCore EXCEPT !.ran = TRUE, !.error = e])
       \/ \E items \in [Items -> {"done", "failed"}] :
              \/ Ran([Succeeded EXCEPT !.items = items])
              \/ Partial(items) /\ Ran([Succeeded EXCEPT !.items = items, !.error = {"canceled"}])

Refused(error) == Problem(apiOperationError(error).status, apiOperationError(error).code)
Result == [NoReply EXCEPT !.status = 200, !.facts = Wire(call.op, core.facts), !.items = ItemError(core.items)]

Served(op) == serving = "ran" /\ call.surface = "rest" /\ call.op = op

ResultOrProblem(op) == Served(op) /\ Answer(IF core.result THEN Result ELSE Refused(core.error))

ServeDocument == ResultOrProblem("upload")
ServeCollection == ResultOrProblem("collection")
ServeRevision == ResultOrProblem("revision")
ServePlan == ResultOrProblem("plan")
ServeUpgrade == ResultOrProblem("upgrade")
ServeBulkPlan == ResultOrProblem("planBulk")
ServeInspection == ResultOrProblem("inspect")
ServeManifest == ResultOrProblem("list")
ServeStorage == ResultOrProblem("storage")
ServeDelete == ResultOrProblem("delete")
ServeProtect == ResultOrProblem("protect")
ServeUnprotect == ResultOrProblem("unprotect")
ServePreview == ResultOrProblem("preview")

\* Failures travel with the result; any other error takes its place.
ServeSync ==
    /\ Served("sync")
    /\ Answer(IF core.result /\ (Partial(core.items) \/ core.error = {}) THEN Result ELSE Refused(core.error))

\* The error of a purge or of a bulk upgrade that has a result is dropped.
ServePurge == ResultOrProblem("purge")
ServeBulk == ResultOrProblem("bulk")

\* The object follows the status; a read that fails by then adds a problem to the body.
VisitGetUpload(broken) == IF broken THEN "mixed" ELSE "whole"

ServeGet ==
    /\ Served("get")
    /\ Answer(IF core.result THEN [Result EXCEPT !.body = VisitGetUpload(core.broken)] ELSE Refused(core.error))

(***************************************************************************)
(* What the caller is left with                                            *)
(***************************************************************************)
Received(op) == serving = "answered" /\ call.at = "waiting" /\ call.op = op
Keep == UNCHANGED <<server, request, serving, core, reply>>

Delivered(is) ==
    [ok |-> is = {}, is |-> is, items |-> reply.items, facts |-> Unwire(call.op, reply.facts), body |-> "none"]

Undelivered == reply.status >= 400
Receive(op, is) ==
    /\ Received(op)
    /\ Finished(IF Undelivered THEN Failed(transportError(reply.code)) ELSE Delivered(is))
    /\ Keep

ReceiveDocument == Receive("upload", {})
ReceiveCollection == Receive("collection", {})
ReceiveRevision == Receive("revision", {})
PlanUpgradeDocument == Receive("plan", {})
UpgradeDocument == Receive("upgrade", {})
PlanBulkUpgrade == Receive("planBulk", {})
InspectUpload == Receive("inspect", {})
ListManifest == Receive("list", {})
ListRemote == Receive("storage", {})
ProtectUpload == Receive("protect", {})
UnprotectUpload == Receive("unprotect", {})
PlanPurge == Receive("preview", {})

\* The failures are counted again where they arrive.
SyncManifest == Receive("sync", Incomplete(reply.items))
Purge == Receive("purge", Incomplete(reply.items))
ExecuteBulkUpgrade == Receive("bulk", Incomplete(reply.items))

\* A protected upload is told apart, for the hint on --force.
DeleteUpload ==
    /\ Received("delete")
    /\ Finished(IF ~Undelivered THEN Delivered({})
                ELSE Failed(IF reply.code = "upload_protected" THEN {"protected"} ELSE transportError(reply.code)))
    /\ Keep

GetUploadTo ==
    /\ Received("get")
    /\ Finished(IF Undelivered THEN Failed(transportError(reply.code))
                ELSE [Delivered({}) EXCEPT !.body = reply.body])
    /\ Keep

Returned(ops, surfaces) ==
    serving = "ran" /\ call.surface \in surfaces /\ call.op \in ops /\ call.at = "waiting"

Exit(is, body) ==
    /\ Finished([ok |-> is = {}, is |-> is, items |-> core.items, facts |-> core.facts, body |-> body])
    /\ Keep

\* A command over storage exits with the core's error; a bulk upgrade also when
\* an item failed, a download also when the object could not be read to its end.
ExitCommand == Returned(Ops \ {"bulk", "get"}, {"direct"}) /\ Exit(core.error, "none")
ExitBulk == Returned({"bulk"}, {"direct"}) /\ Exit(core.error \cup Incomplete(core.items), "none")
ExitGet ==
    /\ Returned({"get"}, {"direct"})
    /\ IF core.broken THEN Exit({"storage"}, "torn")
       ELSE Exit(core.error, IF core.result THEN "whole" ELSE "none")

ToolError(hosted, op, error) == IF hosted THEN mcpOperationError(error) ELSE error

ToolFacts(hosted, op, facts) ==
    IF hosted /\ op \in {"list", "plan", "planBulk"} THEN facts \ {"profile"} ELSE facts

EndTool(hosted, is, items) ==
    /\ Finished([ok |-> is = {}, is |-> is, items |-> items, facts |-> ToolFacts(hosted, call.op, core.facts), body |-> "none"])
    /\ Keep

Hosted == call.surface = "hosted"
ToolOf(ops) ==
    /\ Returned(ops, {"stdio", "hosted"})
    /\ EndTool(Hosted, ToolError(Hosted, call.op, core.error), ItemError(core.items))

\* Tools return a result or an error; those of an itemised operation keep the
\* result beside the error.
UploadTool == ToolOf(Uploads)
ListTool == ToolOf({"list", "storage"})
InspectTool == ToolOf({"inspect"})
UpgradeTool == ToolOf({"plan", "upgrade"})
BulkUpgradeTool == ToolOf({"planBulk", "bulk"})
DeleteTool == ToolOf({"delete"})
ProtectTool == ToolOf({"protect", "unprotect"})
SyncTool == ToolOf({"sync"})
PreviewTool == ToolOf({"preview"})
PurgeTool == ToolOf({"purge"})

Init ==
    /\ call = NoCall
    /\ server = [bundles |-> TRUE, canonical |-> TRUE]
    /\ request = NoRequest
    /\ serving = "none"
    /\ core = NoCore
    /\ reply = NoReply
    /\ outcome = NoOutcome

Next ==
    \/ Begin \/ UploadDocument \/ UploadFiles \/ CreateDocumentRevision \/ ProbeFails \/ Send \/ Lost \/ GiveUp
    \/ RefuseLarge \/ RefuseMedia \/ RefuseTarget \/ RefusePlan \/ RefusePreview \/ RefusePurge \/ Accept
    \/ RunPlain \/ RunGet \/ RunSync \/ RunPurge \/ RunBulk
    \/ ServeDocument \/ ServeCollection \/ ServeRevision \/ ServePlan \/ ServeUpgrade \/ ServeBulkPlan
    \/ ServeInspection \/ ServeManifest \/ ServeStorage \/ ServeDelete \/ ServeProtect \/ ServeUnprotect
    \/ ServePreview \/ ServeSync \/ ServePurge \/ ServeBulk \/ ServeGet
    \/ ReceiveDocument \/ ReceiveCollection \/ ReceiveRevision \/ PlanUpgradeDocument \/ UpgradeDocument
    \/ PlanBulkUpgrade \/ InspectUpload \/ ListManifest \/ ListRemote \/ ProtectUpload \/ UnprotectUpload
    \/ PlanPurge \/ SyncManifest \/ Purge \/ ExecuteBulkUpgrade \/ DeleteUpload \/ GetUploadTo
    \/ ExitCommand \/ ExitBulk \/ ExitGet
    \/ UploadTool \/ ListTool \/ InspectTool \/ UpgradeTool \/ BulkUpgradeTool \/ DeleteTool \/ ProtectTool
    \/ SyncTool \/ PreviewTool \/ PurgeTool

Spec == Init /\ [][Next]_vars

(***************************************************************************)
(* Properties                                                              *)
(***************************************************************************)
Done == call.at = "done"
Told(op) == {"tooLarge", "historyFull", "conflict"} \cup IF op = "delete" THEN {"protected"} ELSE {}
OnTool == call.surface \in {"stdio", "hosted"}

\* No surface reports success unless the operation ran without an error and no
\* item of it failed (SPEC.md:63, SPEC.md:3464).  A bulk upgrade asked for by a
\* tool call succeeds with its failures listed.  Downloads are GetDeliversObject's.
HonestSuccess ==
    Done /\ outcome.ok /\ call.op # "get" =>
        /\ core.ran /\ core.error = {}
        /\ Partial(core.items) => OnTool /\ call.op = "bulk" /\ outcome.items = core.items

\* An error keeps its identity over a server (SPEC.md:2953-2957, SPEC.md:3326):
\* no caller is told of a cause the operation did not have; one that gets the
\* answer can test it for the size limit, the full history, the conflict or the
\* protection the operation met; and a lost append is told apart from an upload
\* that changed since its plan.  A cancelled operation is reported as that.
ErrorIdentity ==
    /\ outcome.is \cap Told(call.op) \subseteq
           core.error \cup IF call.refused = "tooLarge" THEN {"tooLarge"} ELSE {}
    /\ Done /\ call.surface = "rest" /\ "canceled" \notin core.error =>
           core.error \cap Told(call.op) \subseteq outcome.is
    /\ reply.code = "revision_conflict" => "appendConflict" \in core.error
    /\ serving = "answered" /\ "appendConflict" \in core.error /\ "canceled" \notin core.error
           => reply.code = "revision_conflict"

\* What the caller reads is what the core did: every item with its outcome, every
\* fact of the result except the name of the server's profile, and the entry page
\* of a document even from a server that lists no pages.
AnswerFaithful ==
    Done /\ (outcome.ok \/ outcome.items # NoItems) =>
        /\ outcome.items = core.items
        /\ core.facts \ {"profile"} \subseteq outcome.facts
        /\ outcome.facts \subseteq core.facts \cup {"pages"}
        /\ call.op \in {"upload", "revision"} => "pages" \in outcome.facts

\* Servers of different versions: a server never gets a revision, a page or an
\* asset in a shape or at a route it does not know, so a bundle is stored whole
\* or refused before anything is sent.
BundleUnderstood ==
    serving # "none" /\ call.surface = "rest" =>
        /\ call.bundled => server.bundles /\ request.shape = "bundle"
        /\ request.shape = "bundle" => server.bundles
        /\ request.route = "revision" => server.canonical

\* A download that succeeds wrote the whole object and nothing else
\* (SPEC.md:63-67, SPEC.md:2623-2625).
GetDeliversObject == Done /\ call.op = "get" /\ outcome.ok => outcome.body = "whole"
====
