---- MODULE PurgeSession ----
(* One `airplan purge`: the plan is made from the manifest or from storage,  *)
(* shown, confirmed by a person who may take an hour, and then executed by   *)
(* upload identifier, in this process or by a server that works on while its *)
(* client may stop listening.  Meanwhile other people protect, unprotect,    *)
(* delete, and append revisions to the same uploads.                         *)
EXTENDS Selections, SequencesExt

CONSTANTS
    Uploads,        \* the uploads of the bucket, numbered in the plan's order
    Sourced,        \* those with a stored Markdown source, which may become revisions
    MaxVisitors     \* bound: steps other people take

ASSUME UploadsAssumption ==
    Uploads \subseteq Int /\ IsFiniteSet(Uploads) /\ Sourced \subseteq Uploads /\ MaxVisitors \in Nat

VARIABLES
    bucket,     \* upload -> what its directory holds
    recorded,   \* upload -> what the manifest the plan reads says of it
    options,    \* the command line and the selected backend
    session,    \* the command: where it is, its plan and what it was told
    worker,     \* the deletion loop, wherever it runs
    history,    \* what the properties remember
    visitors    \* steps other people took

purgeVars == <<bucket, recorded, options, session, worker, history, visitors>>

NoStatus == "none"
\* The versions object: none, a chain's metadata, the receipt of a standalone
\* deletion, or the tombstone a deleted revision leaves.
Versions == {"absent", "chain", "receipt", "tombstone"}
Outcomes == {"deleted", "protected", "versioned", "error"}

Directory == [marker : BOOLEAN, payload : BOOLEAN, revision : BOOLEAN, versions : Versions,
              protected : BOOLEAN]
RecordedUpload == [live : BOOLEAN, revision : BOOLEAN, protected : BOOLEAN]

Fresh == [marker |-> TRUE, payload |-> TRUE, revision |-> FALSE, versions |-> "absent",
          protected |-> FALSE]
NoPlan == [candidates |-> <<>>, protected |-> {}, versioned |-> {}]

Live(u) == bucket[u].marker
InHistory(u) == bucket[u].versions = "chain"

PurgeInit ==
    /\ bucket \in [Uploads -> {Fresh, [Fresh EXCEPT !.protected = TRUE],
                               [Fresh EXCEPT !.revision = TRUE, !.versions = "chain"]}]
    /\ \A u \in Uploads \ Sourced : ~bucket[u].revision
    /\ recorded = [u \in Uploads |-> [live |-> TRUE, revision |-> FALSE, protected |-> FALSE]]
    /\ options \in [backend : {"s3", "airplan"}, source : {"manifest", "storage"},
                    includeVersioned : BOOLEAN, dryRun : BOOLEAN, yes : BOOLEAN]
    /\ options.dryRun => ~options.yes
    /\ session = [at |-> "plan", listing |-> <<>>, plan |-> NoPlan,
                  told |-> FALSE, exit |-> NoStatus]
    /\ worker = [at |-> "idle", ids |-> <<>>, next |-> 1, step |-> "inspect", linked |-> FALSE,
                 expired |-> FALSE, items |-> <<>>]
    /\ history = [shown |-> {}, removed |-> {}, kept |-> {}, everLinked |-> {u \in Uploads : InHistory(u)}]
    /\ visitors = 0

(***************************************************************************)
(* Other people                                                            *)
(***************************************************************************)
Other(u) ==
    /\ visitors < MaxVisitors
    /\ Live(u)
    /\ visitors' = visitors + 1
    /\ UNCHANGED <<options, session, worker>>

ProtectElsewhere(u) ==
    /\ Other(u)
    /\ ~bucket[u].protected
    /\ bucket' = [bucket EXCEPT ![u].protected = TRUE]
    /\ history' = IF session.at \in {"plan", "inspect", "confirm"}
                  THEN [history EXCEPT !.kept = @ \cup {u}] ELSE history
    /\ UNCHANGED recorded

UnprotectElsewhere(u) ==
    /\ Other(u)
    /\ bucket[u].protected
    /\ bucket' = [bucket EXCEPT ![u].protected = FALSE]
    /\ history' = [history EXCEPT !.kept = @ \ {u}]
    /\ UNCHANGED recorded

\* An append bootstraps a chain at a standalone document: the versions object
\* is created if absent, and the marker is rewritten afterwards.
LinkElsewhere(u) ==
    /\ u \in Sourced
    /\ Other(u)
    /\ IF bucket[u].versions = "absent"
       THEN /\ bucket' = [bucket EXCEPT ![u].versions = "chain"]
            /\ history' = [history EXCEPT !.everLinked = @ \cup {u}]
       ELSE /\ bucket[u].versions = "chain" /\ ~bucket[u].revision
            /\ bucket' = [bucket EXCEPT ![u].revision = TRUE]
            /\ UNCHANGED history
    /\ UNCHANGED recorded

DeleteElsewhere(u) ==
    /\ Other(u)
    /\ ~bucket[u].protected
    /\ bucket' = [bucket EXCEPT ![u] =
           [marker |-> FALSE, payload |-> FALSE, revision |-> FALSE, protected |-> FALSE,
            versions |-> IF u \notin Sourced THEN "absent"
                         ELSE IF InHistory(u) THEN "tombstone" ELSE "receipt"]]
    /\ recorded' \in {recorded, [recorded EXCEPT ![u].live = FALSE]}
    /\ UNCHANGED history

\* A sync brings the manifest's view of an upload up to date.
SyncElsewhere(u) ==
    /\ Other(u)
    /\ recorded' = [recorded EXCEPT ![u] = [live |-> TRUE, revision |-> bucket[u].revision,
                                        protected |-> bucket[u].protected]]
    /\ recorded' # recorded
    /\ UNCHANGED <<bucket, history>>

(***************************************************************************)
(* PlanPurge                                                               *)
(***************************************************************************)
\* Where a matching upload goes: linked revisions first, protected ones next.
Classified(plan, u, revision, protected) ==
    IF revision /\ ~options.includeVersioned THEN [plan EXCEPT !.versioned = @ \cup {u}]
    ELSE IF protected THEN [plan EXCEPT !.protected = @ \cup {u}]
    ELSE [plan EXCEPT !.candidates = Append(@, u)]

ManifestPlan ==
    LET live == {u \in Uploads : recorded[u].live}
        versioned == {u \in live : recorded[u].revision /\ ~options.includeVersioned}
        protected == {u \in live \ versioned : recorded[u].protected}
    IN  [candidates |-> InOrder(live \ (versioned \cup protected)),
         protected |-> protected, versioned |-> versioned]

Planned(plan) == session' = [session EXCEPT !.at = "confirm", !.plan = plan, !.listing = <<>>]

PlanFromManifest ==
    /\ session.at = "plan" /\ options.source = "manifest"
    /\ Planned(ManifestPlan)
    /\ history' = [history EXCEPT !.kept = @ \cup {u \in Uploads : bucket[u].protected}]
    /\ UNCHANGED <<bucket, recorded, options, worker, visitors>>

\* One LIST of the prefix: protection is what the listing shows.
ListStorage ==
    /\ session.at = "plan" /\ options.source = "storage"
    /\ LET markers == InOrder({u \in Uploads : Live(u)})
       IN  session' = [session EXCEPT !.at = "inspect",
                         !.listing = [i \in DOMAIN markers |->
                             [upload |-> markers[i], protected |-> bucket[markers[i]].protected]]]
    /\ history' = [history EXCEPT !.kept = @ \cup {u \in Uploads : bucket[u].protected}]
    /\ UNCHANGED <<bucket, recorded, options, worker, visitors>>

\* A listed marker that has gone is waited for.
MutantInspectListed ==
    /\ session.at = "inspect" /\ session.listing # <<>>
    /\ LET item == Head(session.listing)
       IN  /\ Live(item.upload)
           /\ session' = [session EXCEPT !.listing = Tail(@),
                            !.plan = Classified(@, item.upload, bucket[item.upload].revision,
                                                item.protected)]
    /\ UNCHANGED <<bucket, recorded, options, worker, history, visitors>>

\* Each listed marker is read afterwards; one that has gone fails the plan.
InspectListed ==
    /\ session.at = "inspect" /\ session.listing # <<>>
    /\ LET item == Head(session.listing)
       IN  session' = IF Live(item.upload)
                      THEN [session EXCEPT !.listing = Tail(@),
                              !.plan = Classified(@, item.upload, bucket[item.upload].revision,
                                                  item.protected)]
                      ELSE [session EXCEPT !.at = "done", !.exit = "failure"]
    /\ UNCHANGED <<bucket, recorded, options, worker, history, visitors>>

PlanFromStorage ==
    /\ session.at = "inspect" /\ session.listing = <<>>
    /\ Planned(session.plan)
    /\ UNCHANGED <<bucket, recorded, options, worker, history, visitors>>

PlanFails ==
    /\ session.at \in {"plan", "inspect"}
    /\ session' = [session EXCEPT !.at = "done", !.exit = "failure"]
    /\ UNCHANGED <<bucket, recorded, options, worker, history, visitors>>

(***************************************************************************)
(* The command: preview, confirmation, request                             *)
(***************************************************************************)
Done(status) == session' = [session EXCEPT !.at = "done", !.exit = status]

Preview ==
    /\ session.at = "confirm"
    /\ options.dryRun \/ session.plan.candidates = <<>>
    /\ Done("success")
    /\ history' = [history EXCEPT !.shown = ToSet(session.plan.candidates)]
    /\ UNCHANGED <<bucket, recorded, options, worker, visitors>>

DeclinePurge ==
    /\ session.at = "confirm"
    /\ ~options.dryRun /\ ~options.yes /\ session.plan.candidates # <<>>
    /\ \E status \in {"success", "failure"} : Done(status)
    /\ history' = [history EXCEPT !.shown = ToSet(session.plan.candidates)]
    /\ UNCHANGED <<bucket, recorded, options, worker, visitors>>

\* The exact identifiers of the plan are executed, never its filters.
Execute ==
    /\ session.at = "confirm"
    /\ ~options.dryRun /\ session.plan.candidates # <<>>
    /\ session' = [session EXCEPT !.at = "wait"]
    /\ worker' = [worker EXCEPT !.at = "run", !.ids = session.plan.candidates]
    /\ history' = [history EXCEPT !.shown = ToSet(session.plan.candidates)]
    /\ UNCHANGED <<bucket, recorded, options, visitors>>

(***************************************************************************)
(* Purge: the identifiers one after the other                              *)
(***************************************************************************)
CurrentId == worker.ids[worker.next]
Running == worker.at = "run" /\ worker.next <= Len(worker.ids)

\* The outcome of the current identifier is recorded and the loop goes on.
ItemEnds(outcome) ==
    worker' = [worker EXCEPT !.items = Append(@, outcome), !.next = @ + 1,
                             !.step = "inspect", !.linked = FALSE]

At(step) == Running /\ worker.step = step /\ ~worker.expired
GoTo(step) == worker' = [worker EXCEPT !.step = step]

\* Any request may fail; once the deadline has passed, every one does.  This
\* one was not executed, or changed nothing.
ItemFails ==
    /\ Running
    /\ ItemEnds("error")
    /\ UNCHANGED <<bucket, recorded, options, session, history, visitors>>

\* Without --include-versioned the marker is read for a revision first; a
\* missing marker is left to the deletion.
Inspect ==
    /\ At("inspect")
    /\ IF ~options.includeVersioned /\ Live(CurrentId) /\ bucket[CurrentId].revision
       THEN ItemEnds("versioned")
       ELSE GoTo("resolve")
    /\ UNCHANGED <<bucket, recorded, options, session, history, visitors>>

\* DeleteUploadWithOptions reads the marker again.  Without one, a manifest
\* record of the upload makes it a deletion completed elsewhere.
Resolve ==
    /\ At("resolve")
    /\ IF ~Live(CurrentId)
       THEN /\ ItemEnds(IF recorded[CurrentId].live THEN "deleted" ELSE "error")
            /\ recorded' = [recorded EXCEPT ![CurrentId].live = FALSE]
       ELSE /\ IF ~options.includeVersioned /\ bucket[CurrentId].revision
               THEN ItemEnds("versioned")
               ELSE worker' = [worker EXCEPT !.step = "list", !.linked = bucket[CurrentId].revision]
            /\ UNCHANGED recorded
    /\ UNCHANGED <<bucket, options, session, history, visitors>>

\* A protected upload is skipped without a word for the summary.
MutantListForDelete ==
    /\ At("list")
    /\ IF bucket[CurrentId].protected THEN ItemEnds("skipped") ELSE GoTo("reserve")
    /\ UNCHANGED <<bucket, recorded, options, session, history, visitors>>

\* The listing is the authority on protection.
ListForDelete ==
    /\ At("list")
    /\ IF bucket[CurrentId].protected THEN ItemEnds("protected") ELSE GoTo("reserve")
    /\ UNCHANGED <<bucket, recorded, options, session, history, visitors>>

\* The reservation overwrites what it finds.
MutantReserve ==
    /\ At("reserve")
    /\ GoTo("remove")
    /\ bucket' = IF CurrentId \in Sourced THEN [bucket EXCEPT ![CurrentId].versions = "receipt"] ELSE bucket
    /\ UNCHANGED <<recorded, options, session, history, visitors>>

\* A source-backed standalone document is reserved against appends by
\* creating its versions object; if a chain was there first, it became a
\* revision.  A linked revision tombstones itself in its chain instead.
Reservable == CurrentId \in Sourced /\ ~worker.linked => bucket[CurrentId].versions \in {"absent", "receipt"}

ReservationMade ==
    \/ worker.linked /\ bucket' = [bucket EXCEPT ![CurrentId].versions = "tombstone"]
    \/ ~worker.linked /\ CurrentId \in Sourced
         /\ bucket' = [bucket EXCEPT ![CurrentId].versions = "receipt"]
    \/ ~worker.linked /\ CurrentId \notin Sourced /\ UNCHANGED bucket

\* What the item is told when the reservation finds a chain, or anything else.
Found == IF InHistory(CurrentId) /\ ~options.includeVersioned THEN "versioned" ELSE "error"

Reserve ==
    /\ At("reserve")
    /\ \/ Reservable /\ ReservationMade /\ GoTo("remove")
       \/ ~Reservable /\ ItemEnds(Found) /\ UNCHANGED bucket
    /\ UNCHANGED <<recorded, options, session, history, visitors>>

PayloadGone == bucket' = [bucket EXCEPT ![CurrentId].payload = FALSE]

RemovePayload ==
    /\ At("remove")
    /\ PayloadGone /\ GoTo("unmark")
    /\ UNCHANGED <<recorded, options, session, history, visitors>>

MarkerGone ==
    /\ bucket' = [bucket EXCEPT ![CurrentId].marker = FALSE]
    /\ history' = [history EXCEPT !.removed = IF Live(CurrentId) THEN @ \cup {CurrentId} ELSE @]

\* The marker goes last; the tombstone in the manifest is best effort.
RemoveMarker ==
    /\ At("unmark")
    /\ MarkerGone /\ ItemEnds("deleted")
    /\ recorded' \in {recorded, [recorded EXCEPT ![CurrentId].live = FALSE]}
    /\ UNCHANGED <<options, session, visitors>>

\* The request was executed and its answer lost, or overtaken by the deadline:
\* the item failed, although its upload may be gone; nothing is recorded.
AnswerLost ==
    /\ \/ At("reserve") /\ Reservable /\ ReservationMade /\ UNCHANGED history
       \/ At("remove") /\ PayloadGone /\ UNCHANGED history
       \/ At("unmark") /\ MarkerGone
    /\ ItemEnds("error")
    /\ UNCHANGED <<recorded, options, session, visitors>>

\* The operation's deadline, or the end of the request it serves.
PurgeExpires ==
    /\ worker.at = "run" /\ ~worker.expired
    /\ worker' = [worker EXCEPT !.expired = TRUE]
    /\ UNCHANGED <<bucket, recorded, options, session, history, visitors>>

WorkEnds ==
    /\ worker.at = "run" /\ worker.next > Len(worker.ids)
    /\ worker' = [worker EXCEPT !.at = "ended"]
    /\ UNCHANGED <<bucket, recorded, options, session, history, visitors>>

(***************************************************************************)
(* The result and the exit status                                          *)
(***************************************************************************)
FailedItems(items) == Cardinality({i \in DOMAIN items : items[i] = "error"})
Tally(items, outcome) == Cardinality({i \in DOMAIN items : items[i] = outcome})

\* Purge fails when an item did.
PurgeError(items) == FailedItems(items) > 0

\* The server answers a failed purge with its items and no error; the client
\* counts the failed items again.
ServerAnswer(items) == [items |-> items, problem |-> FALSE]
ClientError(answer) == answer.problem \/ FailedItems(answer.items) > 0

CommandFails(items) ==
    IF options.backend = "airplan" THEN ClientError(ServerAnswer(items)) ELSE PurgeError(items)

Summarise ==
    /\ session.at = "wait" /\ worker.at = "ended"
    /\ session' = [session EXCEPT !.at = "done", !.told = TRUE,
                     !.exit = IF CommandFails(worker.items) THEN "failure" ELSE "success"]
    /\ UNCHANGED <<bucket, recorded, options, worker, history, visitors>>

\* Over REST the client's own deadline may pass, or the response be lost,
\* while the server works on; its request context ends only some time later.
AbandonPurge ==
    /\ session.at = "wait" /\ options.backend = "airplan"
    /\ Done("failure")
    /\ UNCHANGED <<bucket, recorded, options, worker, history, visitors>>

Session ==
    \/ PlanFromManifest \/ ListStorage \/ InspectListed \/ PlanFromStorage
    \/ Preview \/ Execute \/ Inspect \/ Resolve \/ ListForDelete \/ Reserve
    \/ RemovePayload \/ RemoveMarker \/ WorkEnds \/ Summarise

Trouble == PlanFails \/ DeclinePurge \/ ItemFails \/ AnswerLost \/ PurgeExpires \/ AbandonPurge

PurgeNext ==
    \/ Session \/ Trouble
    \/ \E u \in Uploads : \/ ProtectElsewhere(u) \/ UnprotectElsewhere(u) \/ LinkElsewhere(u)
                          \/ DeleteElsewhere(u) \/ SyncElsewhere(u)

PurgeSpec == PurgeInit /\ [][PurgeNext]_purgeVars

\* The command and the loop run on; a failed or expired request returns; the
\* person answers the prompt one way or the other.
PurgeFairness == WF_purgeVars(Session) /\ WF_purgeVars(ItemFails) /\ WF_purgeVars(DeclinePurge)
FairPurgeSpec == PurgeSpec /\ PurgeFairness

(***************************************************************************)
(* Properties                                                              *)
(***************************************************************************)
PurgeTypeOK ==
    /\ bucket \in [Uploads -> Directory]
    /\ recorded \in [Uploads -> RecordedUpload]
    /\ session.at \in {"plan", "inspect", "confirm", "wait", "done"}
    /\ session.exit \in {NoStatus, "success", "failure"}
    /\ session.told \in BOOLEAN
    /\ worker.at \in {"idle", "run", "ended"}
    /\ worker.step \in {"inspect", "resolve", "list", "reserve", "remove", "unmark"}
    /\ worker.items \in Seq(Outcomes)
    /\ history.removed \subseteq Uploads

\* What is deleted was shown: an upload protected when the plan was confirmed,
\* or by someone who read the prompt, and not unprotected since, survives
\* whatever the manifest said of it; an upload that ever joined a revision
\* chain survives a purge without --include-versioned, at whatever moment of
\* its deletion the append arrived; and nothing outside the shown plan is
\* touched (cli/purge.go runPurge, PlanPurge, Purge, DeleteUploadWithOptions).
OnlyWhatWasShown ==
    /\ history.removed \subseteq history.shown
    /\ history.removed \cap history.kept = {}
    /\ ~options.includeVersioned => history.removed \cap history.everLinked = {}

\* The summary is the truth as far as the loop can know it: an identifier
\* reported as purged is gone; one this command removed is reported as purged
\* or, when the marker's deletion was executed but not answered, as failed, and
\* never as skipped; and the command succeeds exactly when no item failed, so a
\* success leaves every reviewed upload gone or skipped, and every removal told
\* (Purge, the client's recount over REST, and runPurge's summary).
SummaryTrue ==
    session.told =>
        /\ Len(worker.items) = Len(session.plan.candidates)
        /\ \A i \in DOMAIN worker.items :
               LET u == session.plan.candidates[i]
               IN  /\ worker.items[i] = "deleted" => ~Live(u)
                   /\ u \in history.removed => worker.items[i] \in {"deleted", "error"}
        /\ session.exit = "success" <=> Tally(worker.items, "error") = 0

\* A purge deletes nothing but what it showed and nothing it promised to keep,
\* whatever other people did since, and its summary answers for every upload
\* shown: none it removed is told of as skipped, none left as purged.
PurgeTrue == OnlyWhatWasShown /\ SummaryTrue

\* The command ends, whatever fails or expires, and so does the loop.
PurgeEnded == session.at = "done" /\ worker.at \in {"idle", "ended"}
====
