---------------------------- MODULE UploadDirectory ----------------------------
(***************************************************************************)
(* The objects of one upload directory and the processes that work on it:  *)
(* the upload that creates it (client.go, bundle.go, collection.go),       *)
(* upgrades that rewrite its pages in place (upgrade.go), targeted and     *)
(* purging deletions (delete.go, operations.go), protection (protect.go).  *)
(*                                                                         *)
(* Every request to the store is one step, except that the listing of a    *)
(* directory is atomic.  An object is 0 when it is absent; the marker      *)
(* holds the release that produced it and a page the first release that    *)
(* renders it so, hence equal contents are equal numbers and the ETag of   *)
(* an object is its content.  A process may stop between any two requests, *)
(* with or without its last one applied.                                   *)
(***************************************************************************)
EXTENDS Integers, Sequences, SequencesExt, FiniteSets

CONSTANTS Others,      \* managed pages of a document besides the entry page
          Sources,     \* retained sources
          Assets,      \* assets of a document, members of a collection
          Kinds,       \* the kinds of upload the uploader may make
          Uploaders,   \* the upload of this directory: one process or none
          Upgraders,   \* processes that run upgrade
          Releases,    \* the releases, in the order of their producer versions
          Unordered,   \* those whose version says nothing of the order ("dev")
          Generation,  \* Generation[r]: the marker schema and renderer generation of r
          Rendering,   \* Rendering[r]: the first release to render the pages r does
          Original,    \* the release of the upload
          Release,     \* Release[u]: the release an upgrade runs
          Forcing,     \* the upgraders that run upgrade --force
          Deleters,    \* processes that delete
          Purgers,     \* the deleters that run purge
          Forced,      \* the deleters that run delete --force
          Guards,      \* other users, who protect, unprotect, update and tamper
          MaxFaults,   \* bound on crashes and failed requests
          MaxLost      \* bound on pages other users remove

Objects == {"marker", "entry", "sentinel", "versions"} \cup Others \cup Sources \cup Assets
Pages == {"entry"} \cup Others
Payload == Pages \cup Sources \cup Assets

(* An upload chooses its directory at random; no other upload writes to it. *)
ASSUME UploadersAssumption == \A c, d \in Uploaders : c = d
ASSUME KindsAssumption   == Kinds \subseteq {"page", "bare", "document", "files"} /\ Kinds # {}
ASSUME ReleaseAssumption ==
  /\ Releases \subseteq Nat \ {0} /\ Unordered \subseteq Releases
  /\ Original \in Releases /\ Release \in [Upgraders -> Releases] /\ Forcing \subseteq Upgraders
  /\ Generation \in [Releases -> Nat] /\ Rendering \in [Releases -> Releases]
  /\ \A r \in Releases : Generation[Rendering[r]] = Generation[r]
ASSUME DeletersAssumption == Purgers \subseteq Deleters /\ Forced \subseteq Deleters \ Purgers
ASSUME FaultsAssumption  == MaxFaults \in Nat /\ MaxLost \in Nat
ASSUME ObjectsAssumption ==
  /\ IsFiniteSet(Others) /\ IsFiniteSet(Sources)
  /\ Others \cap Sources = {} /\ Assets \cap (Others \cup Sources) = {}
  /\ {"marker", "entry", "sentinel", "versions"} \cap (Others \cup Sources \cup Assets) = {}

(* Contents of the versions object.                                        *)
Reservation == 1
History == 2

VARIABLES kind,    \* what the marker declares the upload to be
          store,   \* store[o]: content of object o, 0 if absent
          up,      \* up[c]: the state of the upload
          upg,     \* upg[u]: the state of an upgrade
          del,     \* del[x]: the state of a deletion
          grd,     \* grd[g]: the state of a protect or unprotect
          faults, lost   \* how much of each bound is used up

vars == <<kind, store, up, upg, del, grd, faults, lost>>

(* The objects the marker of an upload declares: UploadDocument, UploadFiles *)
(* and Upload, whose source, when it is retained, is its whole pool.        *)
DeclaredByDocument == Payload
DeclaredByFiles == {"entry"} \cup Assets
DeclaredByUpload(source) == {"entry"} \cup (IF source THEN Sources ELSE {})
Declared(k) == CASE k = "document" -> DeclaredByDocument
                 [] k = "files"    -> DeclaredByFiles
                 [] k = "page"     -> DeclaredByUpload(TRUE)
                 [] k = "bare"     -> DeclaredByUpload(FALSE)

SourceBacked == kind \in {"document", "page"}

(* What release r puts in object o, and the generation of a content.       *)
Content(r, o) == CASE o = "marker" -> r
                   [] o \in Pages -> Rendering[r]
                   [] OTHER -> 1
Gen(content) == IF content \in Releases THEN Generation[content] ELSE 0

Set(o, content) == store' = [store EXCEPT ![o] = content]
Fault == faults < MaxFaults /\ faults' = faults + 1 /\ UNCHANGED lost

-----------------------------------------------------------------------------
(* Upload, UploadDocument, UploadFiles: the marker, then everything else   *)
(* (concurrently, where there is more than one), then the entry page.      *)

NoUpload == [step |-> "idle", todo |-> {}]

PutMarkerFirst(c) ==
  /\ up[c].step = "idle"
  /\ Set("marker", Content(Original, "marker"))
  /\ up' = [up EXCEPT ![c] = [step |-> "payload", todo |-> Declared(kind) \ {"entry"}]]
  /\ UNCHANGED <<kind, upg, del, grd, faults, lost>>

PutPayload(c) ==
  /\ up[c].step = "payload"
  /\ \E o \in up[c].todo : Set(o, Content(Original, o)) /\ up' = [up EXCEPT ![c].todo = @ \ {o}]
  /\ UNCHANGED <<kind, upg, del, grd, faults, lost>>

MutantPutEntry(c) ==
  /\ up[c].step = "payload"
  /\ Set("entry", Content(Original, "entry"))
  /\ up' = [up EXCEPT ![c].step = "done"]
  /\ UNCHANGED <<kind, upg, del, grd, faults, lost>>
PutEntryLast(c) ==
  /\ up[c].step = "payload" /\ up[c].todo = {}
  /\ Set("entry", Content(Original, "entry"))
  /\ up' = [up EXCEPT ![c].step = "done"]
  /\ UNCHANGED <<kind, upg, del, grd, faults, lost>>

(* A request fails, the context ends or the process crashes: nothing is    *)
(* cleaned up.                                                             *)
UploadStops(c) ==
  /\ up[c].step = "payload"
  /\ up' = [up EXCEPT ![c].step = "stopped"]
  /\ Fault
  /\ UNCHANGED <<kind, store, upg, del, grd>>

-----------------------------------------------------------------------------
(* PlanUpgradeDocument and UpgradeDocument.  The command first plans, then *)
(* executes: it plans afresh, compares, and goes on with the fresh plan.   *)
(* An instruction is a pass and the object it is about.                    *)

EachIn(pass, objects) == [i \in DOMAIN objects |-> <<pass, objects[i]>>]
OtherPages(k) == SetToSeq(Others \cap Declared(k))
SourceList == SetToSeq(Sources)
Control == <<"sentinel", "versions">>
PlanReads(k) == <<"marker", "entry">> \o SourceList \o OtherPages(k) \o Control

(* "put" is a conditional write, skipped when the planned content is what  *)
(* this release renders; "same" rereads what was planned and "new" what    *)
(* was rendered.                                                           *)
MutantExecution(k) ==
  EachIn("spool", <<"entry">> \o SourceList \o OtherPages(k)) \o EachIn("same", SourceList)
  \o EachIn("put", OtherPages(k)) \o EachIn("new", OtherPages(k))
  \o <<<<"put", "entry">>, <<"new", "entry">>>>
  \o <<<<"put", "marker">>>>
  \o EachIn("same", SourceList) \o EachIn("same", Control)
Execution(k) ==
  EachIn("spool", <<"entry">> \o SourceList \o OtherPages(k)) \o EachIn("same", SourceList)
  \o <<<<"put", "marker">>>>
  \o EachIn("put", OtherPages(k)) \o EachIn("new", OtherPages(k))
  \o <<<<"new", "marker">>>> \o EachIn("new", OtherPages(k))
  \o <<<<"put", "entry">>, <<"new", "entry">>>>
  \o EachIn("same", SourceList) \o EachIn("same", Control)
Programs ==
  [k \in Kinds |-> EachIn("plan", PlanReads(k)) \o EachIn("fresh", PlanReads(k))
                     \o <<<<"decide", "marker">>>> \o Execution(k)]
Program == Programs[kind]

Nothing == [o \in Objects |-> 0]
NoUpgrade == [pc |-> 0, plan |-> Nothing, fresh |-> Nothing]

Doing(u, pass) == upg[u].pc \in DOMAIN Program /\ Program[upg[u].pc][1] = pass
Subject(u) == Program[upg[u].pc][2]
StopUpgrade(u) == upg' = [upg EXCEPT ![u] = NoUpgrade]
Proceed(u) == upg' = [upg EXCEPT ![u].pc = @ + 1]
UpgradeStep == UNCHANGED <<kind, up, del, grd, faults, lost>>

StartUpgrade(u) ==
  /\ upg[u].pc = 0
  /\ upg' = [upg EXCEPT ![u].pc = 1]
  /\ UpgradeStep /\ UNCHANGED store

(* A directory that cannot be planned: no marker or one of a newer schema, *)
(* not a source-backed Markdown document, a newer renderer, a source       *)
(* missing.  A newer release of the same generation is no obstacle here.   *)
Refused(u, o) ==
  \/ o = "marker" /\ (store[o] = 0 \/ ~SourceBacked \/ Gen(store[o]) > Gen(Release[u]))
  \/ o \in Sources /\ store[o] = 0

ReadForPlan(u, pass) ==
  LET o == Subject(u) IN
  /\ Doing(u, pass)
  /\ IF Refused(u, o) THEN StopUpgrade(u)
     ELSE upg' = [upg EXCEPT ![u].pc = @ + 1,
                    ![u].plan  = IF pass = "plan"  THEN [@ EXCEPT ![o] = store[o]] ELSE @,
                    ![u].fresh = IF pass = "fresh" THEN [@ EXCEPT ![o] = store[o]] ELSE @]
  /\ UpgradeStep /\ UNCHANGED store

(* Upgradeable: an older schema or generation, a page that is not what its *)
(* marker declares, a forced upgrade; and only then the producer releases  *)
(* are compared, so an upgrade repairs or forces what a newer release of   *)
(* its own generation produced, and writes the marker back to its release. *)
MutantUpgradeable(u, seen) ==
  \/ Gen(seen["marker"]) < Gen(Release[u])
  \/ u \in Forcing
  \/ {seen["marker"], Release[u]} \cap Unordered = {} /\ seen["marker"] < Release[u]
Upgradeable(u, seen) ==
  \/ Gen(seen["marker"]) < Gen(Release[u])
  \/ \E p \in Pages \cap Declared(kind) : seen[p] # Rendering[seen["marker"]]
  \/ u \in Forcing
  \/ {seen["marker"], Release[u]} \cap Unordered = {} /\ seen["marker"] < Release[u]

(* The submitted plan binds the marker, the pages and the sources.         *)
Decide(u) ==
  LET fresh == upg[u].fresh
      bound == {"marker"} \cup Pages \cup Sources
  IN /\ Doing(u, "decide")
     /\ IF Upgradeable(u, fresh) /\ \A o \in bound : fresh[o] = upg[u].plan[o]
        THEN upg' = [upg EXCEPT ![u].pc = @ + 1, ![u].plan = Nothing]
        ELSE StopUpgrade(u)
     /\ UpgradeStep /\ UNCHANGED store

(* A page the plan found missing is not read.                              *)
Spool(u) ==
  LET planned == upg[u].fresh[Subject(u)] IN
  /\ Doing(u, "spool")
  /\ IF planned = 0 \/ store[Subject(u)] = planned THEN Proceed(u) ELSE StopUpgrade(u)
  /\ UpgradeStep /\ UNCHANGED store

(* If-Match the planned ETag, or If-None-Match for a missing page.         *)
MutantPutPlanned(u) ==
  /\ Doing(u, "put")
  /\ Set(Subject(u), Content(Release[u], Subject(u))) /\ Proceed(u)
  /\ UpgradeStep
PutPlanned(u) ==
  LET o == Subject(u)
      planned == upg[u].fresh[o]
      wanted == Content(Release[u], o)
  IN /\ Doing(u, "put")
     /\ \/ planned = wanted /\ Proceed(u) /\ UNCHANGED store
        \/ planned # wanted /\ store[o] = planned /\ Set(o, wanted) /\ Proceed(u)
        \/ planned # wanted /\ store[o] # planned /\ StopUpgrade(u) /\ UNCHANGED store
     /\ UpgradeStep

Verify(u) ==
  LET o == Subject(u)
      expected == IF Doing(u, "new") THEN Content(Release[u], o) ELSE upg[u].fresh[o]
  IN /\ Doing(u, "new") \/ Doing(u, "same")
     /\ IF store[o] = expected THEN Proceed(u) ELSE StopUpgrade(u)
     /\ UpgradeStep /\ UNCHANGED store

(* The result is recorded and reported.                                    *)
Succeeding(u) == upg[u].pc = Len(Program) + 1
FinishUpgrade(u) ==
  /\ Succeeding(u)
  /\ StopUpgrade(u)
  /\ UpgradeStep /\ UNCHANGED store

UpgradeStops(u) ==
  /\ upg[u].pc > 0
  /\ StopUpgrade(u)
  /\ Fault
  /\ UNCHANGED <<kind, store, up, del, grd>>

-----------------------------------------------------------------------------
(* DeleteUploadWithOptions; for a purger, after a plan the user confirmed. *)

NoDelete == [step |-> "idle", listing |-> {}]
DeleteStep == UNCHANGED <<kind, up, upg, grd, faults, lost>>

(* PlanPurge: neither protected nor versioned when the plan is made.       *)
PlanPurge(x) ==
  /\ x \in Purgers /\ del[x].step = "idle"
  /\ store["marker"] # 0 /\ store["sentinel"] = 0 /\ store["versions"] # History
  /\ del' = [del EXCEPT ![x].step = "planned"]
  /\ DeleteStep /\ UNCHANGED store

ResolveMarker(x) ==
  /\ del[x].step = IF x \in Purgers THEN "planned" ELSE "idle"
  /\ store["marker"] # 0
  /\ del' = [del EXCEPT ![x].step = "list"]
  /\ DeleteStep /\ UNCHANGED store

(* One listing: what will be deleted, and whether the upload is protected. *)
ListDirectory(x) ==
  LET listed == {o \in Objects : store[o] # 0} IN
  /\ del[x].step = "list"
  /\ del' = [del EXCEPT ![x] = IF "sentinel" \in listed /\ x \notin Forced THEN NoDelete
                               ELSE [step |-> IF SourceBacked THEN "reserve" ELSE "payload",
                                     listing |-> listed]]
  /\ DeleteStep /\ UNCHANGED store

(* reserveStandaloneDelete.  A document with a revision history is not     *)
(* standalone any more: purge skips it, and delete takes the linked path   *)
(* the next time (see RevisionChain).                                      *)
ReserveStandalone(x) ==
  /\ del[x].step = "reserve"
  /\ \/ store["versions"] = 0 /\ Set("versions", Reservation)
        /\ del' = [del EXCEPT ![x].step = "payload"]
     \/ store["versions"] = Reservation /\ del' = [del EXCEPT ![x].step = "payload"]
        /\ UNCHANGED store
     \/ store["versions"] = History /\ del' = [del EXCEPT ![x] = NoDelete] /\ UNCHANGED store
  /\ DeleteStep

(* deleteKeys: the listed payload, in any order.  The sentinel only if it  *)
(* was listed, and after every payload object; the marker last.            *)
Remaining(x) == del[x].listing \cap Payload
DeletePayload(x) ==
  /\ del[x].step = "payload"
  /\ \E o \in Remaining(x) :
       Set(o, 0) /\ del' = [del EXCEPT ![x].listing = @ \ {o}]
  /\ DeleteStep

MutantDeleteSentinel(x) ==
  /\ del[x].step = "payload" /\ "sentinel" \in del[x].listing
  /\ Set("sentinel", 0) /\ del' = [del EXCEPT ![x].listing = @ \ {"sentinel"}]
  /\ DeleteStep
DeleteSentinel(x) ==
  /\ del[x].step = "payload" /\ Remaining(x) = {} /\ "sentinel" \in del[x].listing
  /\ Set("sentinel", 0) /\ del' = [del EXCEPT ![x].listing = @ \ {"sentinel"}]
  /\ DeleteStep

MutantDeleteMarker(x) ==
  /\ del[x].step = "payload"
  /\ Set("marker", 0) /\ del' = [del EXCEPT ![x] = NoDelete]
  /\ DeleteStep
DeleteMarker(x) ==
  /\ del[x].step = "payload" /\ Remaining(x) = {} /\ "sentinel" \notin del[x].listing
  /\ Set("marker", 0) /\ del' = [del EXCEPT ![x] = NoDelete]
  /\ DeleteStep

DeleteStops(x) ==
  /\ del[x].step # "idle"
  /\ del' = [del EXCEPT ![x] = NoDelete]
  /\ Fault
  /\ UNCHANGED <<kind, store, up, upg, grd>>

-----------------------------------------------------------------------------
(* ProtectUpload and UnprotectUpload: the marker is resolved, then the     *)
(* sentinel is written or deleted.                                         *)

StartGuard(g, op) ==
  /\ grd[g] = "idle" /\ store["marker"] # 0
  /\ grd' = [grd EXCEPT ![g] = op]
  /\ UNCHANGED <<kind, store, up, upg, del, faults, lost>>
WriteSentinel(g) ==
  /\ grd[g] # "idle"
  /\ Set("sentinel", IF grd[g] = "protect" THEN 1 ELSE 0)
  /\ grd' = [grd EXCEPT ![g] = "idle"]
  /\ UNCHANGED <<kind, up, upg, del, faults, lost>>

(* Another user updates the document: the directory becomes revision 1 of  *)
(* a history (see RevisionChain).                                          *)
Link ==
  /\ SourceBacked /\ store["versions"] = 0
  /\ \A o \in {"marker"} \cup Declared(kind) : store[o] # 0
  /\ Set("versions", History)
  /\ UNCHANGED <<kind, up, upg, del, grd, faults, lost>>

(* Another user removes a page from the bucket: upgrade repairs it.        *)
LosePage ==
  /\ \E p \in Pages : store[p] # 0 /\ Set(p, 0)
  /\ lost < MaxLost /\ lost' = lost + 1
  /\ UNCHANGED <<kind, up, upg, del, grd, faults>>

-----------------------------------------------------------------------------
Init ==
  /\ kind \in Kinds
  /\ store = [o \in Objects |-> IF Uploaders = {} /\ o \in {"marker"} \cup Declared(kind)
                                THEN Content(Original, o) ELSE 0]
  /\ up = [c \in Uploaders |-> NoUpload]
  /\ upg = [u \in Upgraders |-> NoUpgrade]
  /\ del = [x \in Deleters |-> NoDelete]
  /\ grd = [g \in Guards |-> "idle"]
  /\ faults = 0 /\ lost = 0

UploadProgress(c) == PutMarkerFirst(c) \/ PutPayload(c) \/ PutEntryLast(c)
UpgradeProgress(u) ==
  \/ StartUpgrade(u) \/ ReadForPlan(u, "plan") \/ ReadForPlan(u, "fresh") \/ Decide(u)
  \/ Spool(u) \/ PutPlanned(u) \/ Verify(u) \/ FinishUpgrade(u)
DeleteProgress(x) ==
  \/ PlanPurge(x) \/ ResolveMarker(x) \/ ListDirectory(x) \/ ReserveStandalone(x)
  \/ DeletePayload(x) \/ DeleteSentinel(x) \/ DeleteMarker(x)

Next ==
  \/ \E c \in Uploaders : UploadProgress(c) \/ UploadStops(c)
  \/ \E u \in Upgraders : UpgradeProgress(u) \/ UpgradeStops(u)
  \/ \E x \in Deleters : DeleteProgress(x) \/ DeleteStops(x)
  \/ \E g \in Guards : StartGuard(g, "protect") \/ StartGuard(g, "unprotect") \/ WriteSentinel(g)
  \/ \E g \in Guards : Link \/ LosePage

Spec == Init /\ [][Next]_vars

(* A command that was started goes on, and a command that stopped short is *)
(* run again, an unforced delete until it is not refused.                  *)
FairSpec ==
  /\ Spec
  /\ \A u \in Upgraders : WF_vars(UpgradeProgress(u))
  /\ \A x \in Deleters : WF_vars(DeleteProgress(x))

-----------------------------------------------------------------------------
TypeOK ==
  /\ kind \in Kinds /\ faults \in 0..MaxFaults /\ lost \in 0..MaxLost
  /\ store \in [Objects -> Nat] /\ store["versions"] \in {0, Reservation, History}
  /\ \A c \in Uploaders : up[c].todo \subseteq Payload
  /\ \A u \in Upgraders : upg[u].pc \in 0..(Len(Program) + 1)
  /\ \A x \in Deleters : del[x].listing \subseteq Objects
  /\ grd \in [Guards -> {"idle", "protect", "unprotect"}]

(* What a deletion removes it removes for good: once the marker is gone,   *)
(* nothing of the payload is left for nobody to own, whatever crashed and  *)
(* however deletions overlapped (delete.go: the marker last).              *)
Claimed == \A c \in Uploaders : up[c].step # "idle"
Gone == Claimed /\ store["marker"] = 0
GoneIsClean == Gone => \A o \in Payload : store[o] = 0

(* Deletion takes a sentinel away only when every payload is gone, so an   *)
(* interrupted forced deletion leaves what is left protected.              *)
SentinelLast ==
  store["sentinel"] # 0 /\ store'["sentinel"] = 0 /\ grd' = grd
    => \A o \in Payload : store[o] = 0

(* A document that got a revision history, even while a purge or a delete  *)
(* of it was under way, loses nothing to that deletion.                    *)
HistoryKept ==
  store["versions"] = History /\ lost' = lost
    => \A o \in Objects \ {"sentinel"} : store[o] # 0 => store'[o] # 0
DeletionOrder == [][SentinelLast /\ HistoryKept]_vars

(* SPEC.md: purge never deletes a purge-protected upload; only --force     *)
(* deletes one.                                                            *)
UnprotectedOnly ==
  [][ store["sentinel"] # 0 /\ Forced = {} => \A o \in Payload : store[o] # 0 => store'[o] # 0 ]_vars

(* SPEC.md: entry-last creation prevents a reported document from          *)
(* appearing before its declared dependencies, assets among them.          *)
WholeBarrier == store["entry"] # 0 => \A o \in Declared(kind) : store[o] # 0

(* No page is ever of a newer generation than the marker that says what    *)
(* rendered it, so an interrupted upgrade is recognized as one and can be  *)
(* taken up again.                                                         *)
PagesBehindMarker ==
  store["marker"] # 0 => \A p \in Pages : Gen(store[p]) <= Gen(store["marker"])

(* However upgrades of several releases overlap, force and repair, none    *)
(* takes a page or the marker back to an older generation.  (Within a      *)
(* generation a repair or a forced upgrade does take them back.)           *)
PagesForward ==
  [][ up' = up => \A o \in Pages \cup {"marker"} :
                    store'[o] = 0 \/ Gen(store'[o]) >= Gen(store[o]) ]_vars

(* A command that is about to report success leaves a marker of its        *)
(* generation or a newer one, although the marker is not read again after  *)
(* the entry page is put and another release may have rewritten it since.  *)
SuccessHolds ==
  \A u \in Upgraders : Succeeding(u) => store["marker"] # 0 /\ Gen(store["marker"]) >= Gen(Release[u])

(* Upgrades that are retried come to an end, whatever crashed, got lost or *)
(* conflicted: the marker is of the newest generation and every page is    *)
(* what it declares.  Two releases of one generation may rewrite the       *)
(* marker in turn while a page is to be repaired, and need not come to one.*)
Apart == \A u, w \in Upgraders : Gen(Release[u]) = Gen(Release[w]) => Release[u] = Release[w]
Settled == SourceBacked /\ (\A o \in Sources : store[o] # 0)
             => /\ \A u \in Upgraders : Gen(store["marker"]) >= Gen(Release[u])
                /\ \A p \in Pages \cap Declared(kind) : store[p] = Rendering[store["marker"]]
UpgradesSettle == Apart => <>[]Settled

(* A deletion that is retried comes to an end: the directory is clean, or  *)
(* it has become part of a history.                                        *)
Finished == (Gone /\ \A o \in Payload : store[o] = 0) \/ store["versions"] = History

(* What the world sees of the directory is the life of a published upload, *)
(* pages that something else removes set aside.                            *)
Phase == IF ~Claimed THEN "free" ELSE IF store["marker"] = 0 THEN "gone" ELSE "held"
Linked == ((Pages \cup Sources) \cap Declared(kind)) \ {"entry"}
Whole == lost > 0 \/ \A o \in Linked : store[o] # 0
Empty == \A o \in Payload : store[o] = 0
Shown == store["entry"] # 0
Lifecycle == INSTANCE PublishedUpload WITH
  phase <- Phase, whole <- Whole, empty <- Empty, entry <- Shown
LivesOnce == Lifecycle!Spec
=============================================================================
