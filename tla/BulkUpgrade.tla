---- MODULE BulkUpgrade ----
(* `airplan upgrade --all`, with one profile, with every profile, or through *)
(* a server: each profile's documents are classified by a pool of workers,   *)
(* the plans are merged, confirmed, and the upgradeable ones executed by     *)
(* another pool.  A dispatcher hands indices to idle workers and, when the   *)
(* deadline passes, answers for the indices it has not handed out.  The      *)
(* documents change under the plan.                                          *)
EXTENDS Selections

CONSTANTS
    Documents,      \* documents of one bucket
    View,           \* profile -> the sequence of documents its manifest records hold
    BulkProfiles,   \* the configured profiles, in order
    Concurrency,    \* workers of a pool
    MaxChanges      \* bound: changes other processes make

ASSUME BulkAssumption ==
    /\ BulkProfiles \in Seq(DOMAIN View) /\ BulkProfiles # <<>>
    /\ \A p \in DOMAIN View : View[p] \in Seq(Documents)
    /\ Concurrency \in Nat \ {0} /\ MaxChanges \in Nat

VARIABLES
    storage,    \* document -> [state, version]: what an inspection would find
    mode,       \* "one" profile, "all" profiles, or a "server"
    upgrading,  \* the command: phase, profile being planned, merged plan, exit status
    pool,       \* the running pool: its jobs, dispatcher, workers and answers
    work,       \* document -> how often this command started upgrading it
    changes

bulkVars == <<storage, mode, upgrading, pool, work, changes>>

Workers == 1..Concurrency
NotYet == "none"
Idle == 0

DocumentState == {"old", "current", "gone"}
\* "invalid" is a document nobody could inspect: its item has no marker key.
PlanState == {"upgradeable", "current", "ineligible", "invalid"}
Answer == {"none", "upgraded", "unchanged", "error"}

NoPool == [phase |-> NotYet, jobs |-> <<>>, next |-> 1, open |-> FALSE, expired |-> FALSE,
           worker |-> [w \in Workers |-> Idle], answers |-> <<>>]

\* A pool over a sequence of jobs; its workers wait on the open channel.
Started(phase, jobs) ==
    [NoPool EXCEPT !.phase = phase, !.jobs = jobs, !.open = TRUE,
                   !.answers = [i \in DOMAIN jobs |-> "none"]]

BulkInit ==
    /\ storage \in [Documents -> {[state |-> s, version |-> 1] : s \in {"old", "current"}}]
    /\ mode \in {"one", "all", "server"}
    /\ upgrading = [at |-> "start", profile |-> 1, plan |-> <<>>, chosen |-> <<>>, exit |-> NotYet,
                  failed |-> 0, upgraded |-> 0]
    /\ pool = NoPool
    /\ work = [d \in Documents |-> 0]
    /\ changes = 0

PlannedProfiles == IF mode = "all" THEN BulkProfiles ELSE <<BulkProfiles[1]>>

(***************************************************************************)
(* Other processes: an upgrade elsewhere, a new revision, a deletion       *)
(***************************************************************************)
ChangeElsewhere(d) ==
    /\ changes < MaxChanges
    /\ storage[d].state # "gone"
    /\ \E s \in {storage[d].state, "current", "gone"} :
           storage' = [storage EXCEPT ![d] = [state |-> s, version |-> @.version + 1]]
    /\ changes' = changes + 1
    /\ UNCHANGED <<mode, upgrading, pool, work>>

(***************************************************************************)
(* Pools                                                                   *)
(***************************************************************************)
Over == \A w \in Workers : pool.worker[w] = Idle
Drained == ~pool.open /\ Over

\* The dispatcher's select: an idle worker takes the next index, ...
Dispatch(w) ==
    /\ pool.open /\ pool.next <= Len(pool.jobs)
    /\ pool.worker[w] = Idle
    /\ pool' = [pool EXCEPT !.worker[w] = pool.next, !.next = @ + 1]
    /\ work' = IF pool.phase = "execute" THEN [work EXCEPT ![pool.jobs[pool.next].document] = @ + 1] ELSE work
    /\ UNCHANGED <<storage, mode, upgrading, changes>>

CloseJobs ==
    /\ pool.open /\ pool.next > Len(pool.jobs)
    /\ pool' = [pool EXCEPT !.open = FALSE]
    /\ UNCHANGED <<storage, mode, upgrading, work, changes>>

\* ... or the deadline is seen first: every index not handed out is answered
\* for, and the channel is closed.
Stop ==
    /\ pool.open /\ pool.expired /\ pool.next <= Len(pool.jobs)
    /\ pool' = [pool EXCEPT !.open = FALSE,
                  !.answers = IF pool.phase = "execute"
                              THEN [i \in DOMAIN @ |-> IF i >= pool.next THEN "error" ELSE @[i]]
                              ELSE @]
    /\ UNCHANGED <<storage, mode, upgrading, work, changes>>

BulkExpires ==
    /\ pool.open \/ ~Over
    /\ ~pool.expired
    /\ pool' = [pool EXCEPT !.expired = TRUE]
    /\ UNCHANGED <<storage, mode, upgrading, work, changes>>

Answered(w, a) == pool' = [pool EXCEPT !.worker[w] = Idle, !.answers[pool.worker[w]] = a]

(***************************************************************************)
(* Planning                                                                *)
(***************************************************************************)
\* Records of one document are planned once.
Deduplicated(documents) ==
    Picked(documents, {i \in DOMAIN documents : \A j \in 1..(i - 1) : documents[j] # documents[i]})

StartPlanning ==
    /\ upgrading.at = "start"
    /\ LET documents == Deduplicated(View[PlannedProfiles[upgrading.profile]])
       IN  pool' = Started("plan", [i \in DOMAIN documents |->
                       [document |-> documents[i], state |-> "invalid", version |-> 0]])
    /\ upgrading' = [upgrading EXCEPT !.at = "plan"]
    /\ UNCHANGED <<storage, mode, work, changes>>

\* A document that cannot be inspected, or has no valid marker, is an invalid
\* item and not a failed plan; one that was read may still be ineligible, by
\* the profile's templates or by what is left of the document.
Verdicts(state) ==
    {"ineligible", "invalid"} \cup
        (IF state = "old" THEN {"upgradeable"} ELSE IF state = "current" THEN {"current"} ELSE {})

PlanItem(w) ==
    /\ pool.phase = "plan" /\ pool.worker[w] # Idle
    /\ LET i == pool.worker[w]
           d == pool.jobs[i].document
       IN  \E verdict \in Verdicts(storage[d].state) :
               pool' = [pool EXCEPT !.worker[w] = Idle,
                   !.jobs[i] = [document |-> d, state |-> verdict, version |-> storage[d].version]]
    /\ UNCHANGED <<storage, mode, upgrading, work, changes>>

\* Each profile is merged as it came.
MutantMergedPlans(plan, items) == plan \o items

\* The plans of the profiles are merged: the first item of every identity,
\* which is the bucket and the marker key.  Invalid items have no key, so they
\* share one identity and hide nothing another profile could inspect.
Identity(item) == IF item.state = "invalid" THEN {} ELSE {item.document}

MergedPlans(plan, items) ==
    LET shown == plan \o items
    IN  Picked(shown, {j \in DOMAIN shown : \A i \in 1..(j - 1) : Identity(shown[i]) # Identity(shown[j])})

Upgradeable(plan) == Picked(plan, {i \in DOMAIN plan : plan[i].state = "upgradeable"})

PlanEnds ==
    /\ pool.phase = "plan" /\ Drained
    /\ pool' = NoPool
    /\ upgrading' =
           IF pool.next <= Len(pool.jobs)
           THEN [upgrading EXCEPT !.at = "done", !.exit = "failure"]
           ELSE IF upgrading.profile < Len(PlannedProfiles)
                THEN [upgrading EXCEPT !.at = "start", !.profile = @ + 1, !.plan = MergedPlans(@, pool.jobs)]
                ELSE [upgrading EXCEPT !.at = "confirm", !.plan = MergedPlans(@, pool.jobs)]
    /\ UNCHANGED <<storage, mode, work, changes>>

(***************************************************************************)
(* Confirmation and execution                                              *)
(***************************************************************************)
\* A dry run, a declined prompt, and an empty selection end here.
DeclineBulk ==
    /\ upgrading.at = "confirm"
    /\ \E status \in {"success", "failure"} : upgrading' = [upgrading EXCEPT !.at = "done", !.exit = status]
    /\ UNCHANGED <<storage, mode, pool, work, changes>>

StartExecution ==
    /\ upgrading.at = "confirm"
    /\ Upgradeable(upgrading.plan) # <<>>
    /\ upgrading' = [upgrading EXCEPT !.at = "execute", !.chosen = Upgradeable(upgrading.plan)]
    /\ pool' = Started("execute", Upgradeable(upgrading.plan))
    /\ UNCHANGED <<storage, mode, work, changes>>

\* UpgradeDocument plans again and holds the document to the plan it was
\* given: a document already current is left as it is, a changed one refused.
UpgradeItem(w) ==
    /\ pool.phase = "execute" /\ pool.worker[w] # Idle
    /\ LET item == pool.jobs[pool.worker[w]]
           found == storage[item.document]
       IN  IF found.state = "current"
           THEN Answered(w, "unchanged") /\ UNCHANGED storage
           ELSE /\ found.state = "old" /\ found.version = item.version /\ ~pool.expired
                /\ Answered(w, "upgraded")
                /\ storage' = [storage EXCEPT ![item.document] =
                                   [state |-> "current", version |-> @.version + 1]]
    /\ UNCHANGED <<mode, upgrading, work, changes>>

\* Refused, failed part of the way, or out of time.
UpgradeFails(w) ==
    /\ pool.phase = "execute" /\ pool.worker[w] # Idle
    /\ Answered(w, "error")
    /\ UNCHANGED <<storage, mode, upgrading, work, changes>>

Count(answer) == Cardinality({i \in DOMAIN pool.answers : pool.answers[i] = answer})

\* The core returns its result together with the deadline's error; the server
\* sends the result alone.
ReportedError(expired) == expired /\ mode = "one"

Fails(expired, failed) == ReportedError(expired) \/ failed > 0

ExecutionEnds ==
    /\ pool.phase = "execute" /\ Drained
    /\ upgrading' = [upgrading EXCEPT !.at = "done", !.failed = Count("error"), !.upgraded = Count("upgraded"),
                     !.exit = IF Fails(pool.next <= Len(pool.jobs), Count("error"))
                              THEN "failure" ELSE "success"]
    /\ pool' = [pool EXCEPT !.phase = NotYet]
    /\ UNCHANGED <<storage, mode, work, changes>>

\* A client may stop listening while its server works on.
AbandonBulk ==
    /\ upgrading.at = "execute" /\ mode = "server"
    /\ pool' = NoPool
    /\ upgrading' = [upgrading EXCEPT !.at = "done", !.exit = "failure"]
    /\ UNCHANGED <<storage, mode, work, changes>>

PoolStep ==
    \/ CloseJobs \/ Stop
    \/ \E w \in Workers : Dispatch(w) \/ PlanItem(w) \/ UpgradeItem(w) \/ UpgradeFails(w)

CommandStep == StartPlanning \/ PlanEnds \/ StartExecution \/ ExecutionEnds

BulkNext ==
    \/ PoolStep \/ CommandStep \/ DeclineBulk \/ BulkExpires \/ AbandonBulk
    \/ \E d \in Documents : ChangeElsewhere(d)

BulkSpec == BulkInit /\ [][BulkNext]_bulkVars

\* Goroutines run, every request returns, and the prompt is answered.
BulkFairness == WF_bulkVars(PoolStep) /\ WF_bulkVars(CommandStep) /\ WF_bulkVars(DeclineBulk)
FairBulkSpec == BulkSpec /\ BulkFairness

(***************************************************************************)
(* Properties                                                              *)
(***************************************************************************)
BulkTypeOK ==
    /\ storage \in [Documents -> [state : DocumentState, version : Nat]]
    /\ upgrading.at \in {"start", "plan", "confirm", "execute", "done"}
    /\ \A i \in DOMAIN upgrading.plan : upgrading.plan[i].state \in PlanState
    /\ pool.worker \in [Workers -> 0..Len(pool.jobs)]
    /\ \A i \in DOMAIN pool.answers : pool.answers[i] \in Answer

\* No document is upgraded twice by one command, whichever profiles record it
\* and however their plans were interleaved (PlanBulkUpgrade's and
\* runBulkUpgrade's seen sets, and the pools that hand out each index once).
UpgradedOnce == \A d \in Documents : work[d] <= 1

\* The report is complete and true: when the execution ended, every chosen
\* document has exactly one answer, one reported as upgraded or unchanged was
\* brought up to date, and a command that succeeds left none of its documents
\* old, whether the pool ran here or on a server that drops the deadline's
\* error (ExecuteBulkUpgrade, executeAllProfileUpgrades, the REST adapter).
ReportTrue ==
    upgrading.at = "done" /\ pool.answers # <<>> =>
        /\ \A i \in DOMAIN upgrading.chosen :
               /\ pool.answers[i] # "none"
               /\ pool.answers[i] # "error" => storage[upgrading.chosen[i].document].state # "old"
        /\ upgrading.exit = "success" =>
               \A i \in DOMAIN upgrading.chosen : storage[upgrading.chosen[i].document].state # "old"

\* A bulk upgrade upgrades no document twice and answers for every one of them,
\* truthfully.
BulkTrue == UpgradedOnce /\ ReportTrue

\* The command ends, with no worker left waiting, whenever the deadline falls.
BulkEnded == upgrading.at = "done" /\ Drained
====
