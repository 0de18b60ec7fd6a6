----------------------------- MODULE ManifestSync -----------------------------
(***************************************************************************)
(* One machine's manifest and the bucket it describes: the commands that   *)
(* change the bucket and then append to the manifest, commands other       *)
(* machines run on the same bucket, and sync, which reconciles             *)
(* (src/airplan/sync.go, manifest.go, protect.go, delete.go, upgrade.go).  *)
(*                                                                         *)
(* Commands do not hold the manifest lock while they talk to the store:    *)
(* an append is one atomic step, a sync reads the file without the lock,   *)
(* inspects the bucket for as long as it takes and commits under the lock. *)
(* A record may be lost (lock timeout, crash) or torn by a crash in the    *)
(* middle of its write.  What goes on inside a directory is the subject of *)
(* other modules: here its payload is complete or not.                     *)
(***************************************************************************)
EXTENDS Manifest, FiniteSets

CONSTANTS Number,      \* Number[d]: the revision d is, once it is in a chain
          Chain,       \* the one chain of the model
          Clients,     \* processes of this machine that change the bucket
          Syncs,       \* processes of this machine that run sync
          Old,         \* uploads an old writer made and recorded without totals
          MaxOps,      \* bound on commands started on this machine
          MaxForeign,  \* bound on commands run on other machines
          MaxFaults    \* bound on records lost or torn, crashes, failed requests

\* The random names of directories have a fixed length.
ASSUME DirsAssumption   == IsFiniteSet(Dirs)
ASSUME ChainAssumption  == Chain \in Chains
ASSUME NumberAssumption == Number \in [Dirs -> Nat \ {0}]
ASSUME OldAssumption    == Old \subseteq Dirs
ASSUME SyncAssumption   == Clients \cap Syncs = {}
ASSUME SyncBoundsAssumption == MaxOps \in Nat /\ MaxForeign \in Nat /\ MaxFaults \in Nat

VARIABLES bucket,    \* bucket[d]: what the store holds under directory d
          drawn,     \* directories some upload has drawn
          lines,     \* the lines of the manifest file
          newline,   \* whether the file ends in a newline
          cl,        \* cl[p]: the command process p is running
          sy,        \* sy[s]: the state of sync process s
          ops, foreign, faults   \* how much of each bound is used up

vars == <<bucket, drawn, lines, newline, cl, sy, ops, foreign, faults>>
file == <<lines, newline>>
bounds == <<ops, foreign, faults>>

(* A directory: its marker, what the marker and the revision index say it  *)
(* is, whether its payload is whole, its protection sentinel, and whether  *)
(* its deletion has been serialized (reservation, tombstone or claim).     *)
Kinds == {"standalone", "candidate", "announced"}
Directories == [present : BOOLEAN, kind : Kinds, payload : BOOLEAN,
                sentinel : BOOLEAN, doomed : BOOLEAN]
NoDirectory == [present |-> FALSE, kind |-> "standalone", payload |-> FALSE,
                sentinel |-> FALSE, doomed |-> FALSE]
OldDirectory == [NoDirectory EXCEPT !.present = TRUE, !.payload = TRUE]

InChain(d) == bucket[d].kind = "announced" /\ ~bucket[d].doomed
Members == {d \in Dirs : bucket[d].present /\ InChain(d)}

(* Result of loading a directory: the projection its record would carry.   *)
Latest(d) == LET later == {Number[e] : e \in Members \cup {d}}
             IN CHOOSE n \in later : \A m \in later : m <= n
Projection(type, d) ==
  IF InChain(d) THEN Upload(type, d, TRUE, Chain, Number[d], Latest(d))
  ELSE IF bucket[d].kind = "standalone" THEN Upload(type, d, TRUE, NoChain, 0, 0)
  ELSE Upload(type, d, TRUE, Chain, Number[d], 0)

NoOp == [op |-> "idle", dir |-> CHOOSE d \in Dirs : TRUE, step |-> "none",
         rec |-> {}, links |-> {}]
Plan == [added |-> {}, enriched |-> {}, tombstones |-> {}, protection |-> {}]
NoSync == [phase |-> "idle", len |-> 0, snap |-> EmptyHistory, listing |-> <<>>,
           todo |-> {}, plan |-> Plan, out |-> <<>>]

Init ==
  /\ bucket = [d \in Dirs |-> IF d \in Old THEN OldDirectory ELSE NoDirectory]
  /\ drawn = Old
  /\ lines = [i \in 1..Cardinality(Old) |-> Upload("upload", SetToSeq(Old)[i], FALSE, NoChain, 0, 0)]
  /\ newline = TRUE
  /\ cl = [p \in Clients |-> NoOp]
  /\ sy = [s \in Syncs |-> NoSync]
  /\ ops = 0 /\ foreign = 0 /\ faults = 0

-----------------------------------------------------------------------------
(* The manifest file.                                                      *)

Locked == \E s \in Syncs : sy[s].phase = "write"

(* A line is appended to whatever the file ends in.                        *)
AppendLine(line, ended) ==
  /\ lines' = IF newline THEN Append(lines, line)
              ELSE [lines EXCEPT ![Len(lines)] = Garbage]
  /\ newline' = ended

History == HistoryOf(lines)

Fault == faults < MaxFaults /\ faults' = faults + 1

-----------------------------------------------------------------------------
(* Commands of this machine.                                               *)

Begin(p, op, d, step) ==
  /\ cl[p].op = "idle"
  /\ ops < MaxOps
  /\ ops' = ops + 1
  /\ cl' = [cl EXCEPT ![p] = [NoOp EXCEPT !.op = op, !.dir = d, !.step = step]]
  /\ UNCHANGED <<file, sy, foreign, faults>>

At(p, op, step) == cl[p].op = op /\ cl[p].step = step
Continue(p, step) == cl' = [cl EXCEPT ![p].step = step]
Finish(p) == cl' = [cl EXCEPT ![p] = NoOp]

(* The command is done with the store; it appends rec and then a link for  *)
(* every directory of links.                                               *)
ToRecord(p, rec, links) ==
  cl' = [cl EXCEPT ![p].step = "record", ![p].rec = {rec}, ![p].links = links]

StoreStep == UNCHANGED <<drawn, file, sy, bounds>>

(* Upload, UploadDocument, UploadFiles: the marker first, then the payload.*)
StartUpload(p, d) ==
  /\ d \notin drawn
  /\ drawn' = drawn \cup {d}
  /\ bucket' = [bucket EXCEPT ![d].present = TRUE]
  /\ Begin(p, "upload", d, "payload")

(* NewRevision: a marker that names the next free number of the chain.     *)
Predecessors == Members \cup {d \in Dirs : /\ bucket[d].present /\ bucket[d].payload
                                           /\ bucket[d].kind = "standalone"
                                           /\ ~bucket[d].doomed /\ Number[d] = 1}
Taken(n) == \E d \in Dirs : bucket[d].kind = "announced" /\ Number[d] = n
StartAppend(p, d) ==
  /\ d \notin drawn /\ Number[d] > 1 /\ ~Taken(Number[d])
  /\ \E e \in Predecessors : Number[e] = Number[d] - 1
  /\ drawn' = drawn \cup {d}
  /\ bucket' = [bucket EXCEPT ![d].present = TRUE, ![d].kind = "candidate"]
  /\ Begin(p, "append", d, "payload")

PutPayload(p) ==
  LET d == cl[p].dir IN
  /\ cl[p].op \in {"upload", "append"} /\ cl[p].step = "payload"
  /\ bucket' = [bucket EXCEPT ![d].payload = bucket[d].present]
  /\ IF cl[p].op = "append" THEN Continue(p, "announce")
     ELSE ToRecord(p, Projection("upload", d), {})
  /\ StoreStep

(* The index is committed if the predecessor still takes a successor; a    *)
(* standalone predecessor becomes revision 1.                              *)
Announce(p) ==
  LET d == cl[p].dir IN
  /\ At(p, "append", "announce")
  /\ bucket[d].present /\ ~bucket[d].doomed /\ ~Taken(Number[d])
  /\ \E e \in Predecessors :
       /\ Number[e] = Number[d] - 1
       /\ bucket' = [bucket EXCEPT ![d].kind = "announced", ![e].kind = "announced"]
       /\ cl' = [cl EXCEPT ![p].step = "record",
                   ![p].rec = {Upload("upload", d, TRUE, Chain, Number[d], Number[d])},
                   ![p].links = Members \cup {e}]
  /\ StoreStep

(* The candidate is removed again and nothing is recorded.                 *)
Rollback(p) ==
  LET d == cl[p].dir IN
  /\ At(p, "append", "announce")
  /\ bucket' = [bucket EXCEPT ![d].present = FALSE, ![d].payload = FALSE, ![d].doomed = TRUE]
  /\ Finish(p)
  /\ StoreStep

(* DeleteUploadWithOptions: the deletion is serialized, the payload goes,  *)
(* then the sentinel if there was one, then the marker.                    *)
StartDelete(p, d) ==
  /\ bucket[d].present
  /\ bucket' = [bucket EXCEPT ![d].doomed = TRUE]
  /\ Begin(p, "delete", d, "payload")
  /\ UNCHANGED drawn

DeletePayload(p) ==
  /\ At(p, "delete", "payload")
  /\ bucket' = [bucket EXCEPT ![cl[p].dir].payload = FALSE, ![cl[p].dir].sentinel = FALSE]
  /\ Continue(p, "marker")
  /\ StoreStep

DeletedNumber(d) == IF bucket[d].kind = "announced" THEN Number[d] ELSE 0
DeletedChain(d) == IF bucket[d].kind = "announced" THEN Chain ELSE NoChain
Surviving(d) == IF bucket[d].kind = "announced" THEN Members ELSE {}

DeleteMarker(p) ==
  LET d == cl[p].dir IN
  /\ At(p, "delete", "marker")
  /\ bucket' = [bucket EXCEPT ![d].present = FALSE]
  /\ ToRecord(p, Tombstone(d, DeletedChain(d), DeletedNumber(d)), Surviving(d))
  /\ StoreStep

(* ensureGoneRecord: the active record of a directory without a marker.    *)
Gone(d) == ~bucket[d].present /\ IsActive(History, d)

(* reconcileMissingMarker: no marker, but this machine lists the upload;   *)
(* its revision is the recorded one or the one of the receipt left behind. *)
StartReconcile(p, d) ==
  LET known == Announced(ActiveRecord(History, d)) IN
  /\ Gone(d)
  /\ cl[p].op = "idle" /\ ops < MaxOps
  /\ ops' = ops + 1
  /\ cl' = [cl EXCEPT ![p] =
       [NoOp EXCEPT !.op = "delete", !.dir = d, !.step = "record",
          !.rec = {Tombstone(d, IF known THEN Chain ELSE DeletedChain(d),
                             IF known THEN Number[d] ELSE DeletedNumber(d))}]]
  /\ UNCHANGED <<bucket, drawn, file, sy, foreign, faults>>

(* ProtectUpload and UnprotectUpload resolve the marker, then write.       *)
StartProtect(p, d, op) ==
  /\ bucket[d].present
  /\ Begin(p, op, d, "sentinel")
  /\ UNCHANGED <<bucket, drawn>>

SetSentinel(p) ==
  LET d == cl[p].dir IN
  /\ cl[p].op \in {"protect", "unprotect"} /\ cl[p].step = "sentinel"
  /\ bucket' = [bucket EXCEPT ![d].sentinel = (cl[p].op = "protect")]
  /\ ToRecord(p, Protection(cl[p].op, d), {})
  /\ StoreStep

(* UpgradeDocument rewrites the pages of a whole directory in place.       *)
StartUpgrade(p, d) ==
  /\ bucket[d].present /\ bucket[d].payload
  /\ cl[p].op = "idle" /\ ops < MaxOps
  /\ ops' = ops + 1
  /\ cl' = [cl EXCEPT ![p] = [NoOp EXCEPT !.op = "upgrade", !.dir = d, !.step = "record",
                                          !.rec = {Projection("upgrade", d)}]]
  /\ UNCHANGED <<bucket, drawn, file, sy, foreign, faults>>

(* recordUpload, recordUpgrade, recordDelete, recordProtection.            *)
AfterRecord(p) ==
  IF cl[p].links = {} THEN Finish(p)
  ELSE cl' = [cl EXCEPT ![p].step = "links", ![p].rec = {}]
Record(p) ==
  /\ cl[p].step = "record" /\ ~Locked
  /\ \E r \in cl[p].rec : AppendLine(r, TRUE)
  /\ AfterRecord(p)
  /\ UNCHANGED <<bucket, drawn, sy, bounds>>

(* recordRevisionAppend and recordSurvivingRevisionLinks: one link record  *)
(* per member, in order, until a member cannot be loaded.                  *)
RecordLink(p) ==
  LET e == CHOOSE d \in cl[p].links : \A f \in cl[p].links : Number[d] <= Number[f] IN
  /\ cl[p].step = "links" /\ cl[p].links # {}
  /\ IF bucket[e].present /\ bucket[e].payload /\ InChain(e)
     THEN /\ ~Locked
          /\ AppendLine(Projection("link", e), TRUE)
          /\ IF cl[p].links = {e} THEN Finish(p) ELSE cl' = [cl EXCEPT ![p].links = @ \ {e}]
     ELSE Finish(p) /\ UNCHANGED file
  /\ UNCHANGED <<bucket, drawn, sy, bounds>>

(* The lock is not had in time: the record is lost, the command goes on.   *)
LoseRecord(p) ==
  /\ cl[p].step = "record"
  /\ AfterRecord(p)
  /\ Fault
  /\ UNCHANGED <<bucket, drawn, file, sy, ops, foreign>>

(* A crash anywhere, or in the middle of a write, which leaves a part of   *)
(* the line or all of it but the newline.                                  *)
Crash(p) ==
  /\ cl[p].op # "idle"
  /\ Finish(p)
  /\ Fault
  /\ UNCHANGED <<bucket, drawn, file, sy, ops, foreign>>

TearRecord(p) ==
  /\ cl[p].step = "record" /\ ~Locked
  /\ \E line \in cl[p].rec \cup {Garbage} : AppendLine(line, FALSE)
  /\ Finish(p)
  /\ Fault
  /\ UNCHANGED <<bucket, drawn, sy, ops, foreign>>

-----------------------------------------------------------------------------
(* Other machines: a whole command each; their manifests are not ours.     *)

Foreign(d) ==
  /\ foreign < MaxForeign
  /\ foreign' = foreign + 1
  /\ \/ /\ d \notin drawn
        /\ drawn' = drawn \cup {d}
        /\ bucket' = [bucket EXCEPT ![d] = OldDirectory]
     \/ /\ bucket[d].present
        /\ bucket' = [bucket EXCEPT ![d].present = FALSE, ![d].payload = FALSE,
                                    ![d].sentinel = FALSE, ![d].doomed = TRUE]
        /\ UNCHANGED drawn
     \/ /\ bucket[d].present
        /\ bucket' = [bucket EXCEPT ![d].sentinel = ~@]
        /\ UNCHANGED drawn
     \/ /\ d \notin drawn /\ ~Taken(Number[d])
        /\ drawn' = drawn \cup {d}
        /\ \E e \in Predecessors :
             /\ Number[e] = Number[d] - 1
             /\ bucket' = [bucket EXCEPT ![d] = [OldDirectory EXCEPT !.kind = "announced"],
                                         ![e].kind = "announced"]
  /\ UNCHANGED <<file, cl, sy, ops, faults>>

-----------------------------------------------------------------------------
(* SyncManifest, with pruning.                                             *)

InPhase(s, phase) == sy[s].phase = phase
SyncStep == UNCHANGED <<bucket, drawn, cl, ops, foreign>>

(* The manifest is read without the lock.                                  *)
SyncRead(s) ==
  /\ InPhase(s, "idle")
  /\ sy' = [sy EXCEPT ![s] = [NoSync EXCEPT !.phase = "list", !.len = Cardinality(Readable(lines)),
                                            !.snap = History]]
  /\ SyncStep /\ UNCHANGED <<file, faults>>

(* ListRemote: one listing; then the jobs and the protection differences.  *)
Imports(h, b) == {d \in Dirs : b[d].present /\ ~IsActive(h, d)}
Enriches(h, b) == {d \in Dirs : /\ b[d].present /\ IsActive(h, d)
                                /\ NeedsInspection(ActiveRecord(h, d))}
Prunes(h, b) == {d \in Dirs : ~b[d].present /\ IsActive(h, d)}
ProtectionDiff(h, b) ==
  {Protection(IF b[d].sentinel THEN "protect" ELSE "unprotect", d) :
     d \in {e \in Dirs : b[e].present /\ IsActive(h, e) /\ b[e].sentinel # IsProtected(h, e)}}
SyncList(s) ==
  LET h == sy[s].snap IN
  /\ InPhase(s, "list")
  /\ sy' = [sy EXCEPT ![s].phase = "work", ![s].listing = bucket,
              ![s].todo = Imports(h, bucket) \cup Enriches(h, bucket) \cup Prunes(h, bucket),
              ![s].plan.protection = ProtectionDiff(h, bucket)]
  /\ SyncStep /\ UNCHANGED <<file, faults>>

(* syncImport: the marker and the index are read now, sizes and sentinel   *)
(* are those of the listing.  A revision this machine knows as deleted is  *)
(* not imported, whatever its index says.                                  *)
Suppressed(d, deleted) ==
  bucket[d].kind # "standalone" /\ RevisionDeleted(deleted, Chain, Number[d])
ImportRecord(d) ==
  IF InChain(d) THEN Projection("upload", d) ELSE Upload("upload", d, TRUE, NoChain, 0, 0)
Importable(s, d) ==
  bucket[d].present /\ sy[s].listing[d].payload /\ ~Suppressed(d, sy[s].snap.deleted)
ImportPlan(s, d) ==
  IF Importable(s, d)
  THEN [sy[s].plan EXCEPT !.added = @ \cup {ImportRecord(d)},
          !.protection = IF sy[s].listing[d].sentinel
                         THEN @ \cup {Protection("protect", d)} ELSE @]
  ELSE sy[s].plan

(* syncEnrich: totals, and the revision another writer made of a           *)
(* standalone upload.                                                      *)
MutantEnrichedRecord(s, d) ==
  [ActiveRecord(sy[s].snap, d) EXCEPT !.totals = TRUE, !.chain = IF InChain(d) THEN Chain ELSE @]
EnrichedRecord(s, d) ==
  LET local == ActiveRecord(sy[s].snap, d) IN
  IF NeedsRevision(local) /\ InChain(d)
  THEN [local EXCEPT !.type = "link", !.totals = TRUE, !.chain = Chain,
                     !.rev = Number[d], !.latest = Latest(d)]
  ELSE [local EXCEPT !.totals = TRUE]
EnrichPlan(s, d) ==
  IF /\ bucket[d].present /\ sy[s].listing[d].payload
     /\ EnrichedRecord(s, d) # ActiveRecord(sy[s].snap, d)
  THEN [sy[s].plan EXCEPT !.enriched = @ \cup {EnrichedRecord(s, d)}]
  ELSE sy[s].plan

(* syncPrune: only a marker that is certainly absent is a deletion.        *)
PrunedRecord(s, d) ==
  LET local == ActiveRecord(sy[s].snap, d) IN
  IF Announced(local) THEN Tombstone(d, local.chain, local.rev) ELSE Tombstone(d, NoChain, 0)
PrunePlan(s, d) ==
  IF bucket[d].present THEN sy[s].plan
  ELSE [sy[s].plan EXCEPT !.tombstones = @ \cup {PrunedRecord(s, d)}]

(* The workers take the jobs in any order.                                 *)
JobPlan(s, d) ==
  IF ~sy[s].listing[d].present THEN PrunePlan(s, d)
  ELSE IF IsActive(sy[s].snap, d) THEN EnrichPlan(s, d) ELSE ImportPlan(s, d)
SyncJob(s, d) ==
  /\ InPhase(s, "work") /\ d \in sy[s].todo
  /\ sy' = [sy EXCEPT ![s].todo = @ \ {d}, ![s].plan = JobPlan(s, d)]
  /\ SyncStep /\ UNCHANGED <<file, faults>>

(* A request of a job fails: nothing is planned for it.                    *)
SyncJobFails(s, d) ==
  /\ InPhase(s, "work") /\ d \in sy[s].todo
  /\ sy' = [sy EXCEPT ![s].todo = @ \ {d}]
  /\ Fault
  /\ SyncStep /\ UNCHANGED file

(* commitSyncManifest, given the records as reread under the lock.         *)
AddedNow(h, s) ==
  {r \in sy[s].plan.added :
     /\ ~IsActive(h, r.dir)
     /\ ~(Announced(r) /\ RevisionDeleted(h.deleted, r.chain, r.rev))
     /\ ~ConcurrentDelete(lines, sy[s].len, r.dir)}
MergedRecord(old, r) ==
  LET adopted == NeedsRevision(old) /\ r.chain # NoChain IN
  [old EXCEPT !.type = IF r.type = "link" THEN "link" ELSE @,
              !.totals = @ \/ r.totals,
              !.chain = IF adopted THEN r.chain ELSE @,
              !.rev = IF adopted THEN r.rev ELSE @,
              !.latest = IF adopted THEN r.latest ELSE @]
Completes(old, r) ==
  (NeedsTotals(old) /\ r.totals) \/ (NeedsRevision(old) /\ r.chain # NoChain)
MutantEnrichedNow(h, s) == sy[s].plan.enriched
EnrichedNow(h, s) ==
  {MergedRecord(ActiveRecord(h, r.dir), r) :
     r \in {e \in sy[s].plan.enriched :
              IsActive(h, e.dir) /\ Completes(ActiveRecord(h, e.dir), e)}}
TombstonesNow(h, s) ==
  {r \in sy[s].plan.tombstones :
     IsActive(h, r.dir) /\ ~ConcurrentUpload(lines, sy[s].len, r.dir)}
ProtectionNow(h, s, added, tombstoned) ==
  {r \in sy[s].plan.protection :
     /\ IsActive(h, r.dir) \/ \E a \in added : a.dir = r.dir
     /\ ~\E t \in tombstoned : t.dir = r.dir
     /\ IsProtected(h, r.dir) # (r.type = "protect")
     /\ ~ConcurrentProtection(lines, sy[s].len, r.dir)}
Committed(s) ==
  LET h == History
      added == AddedNow(h, s)
      tombstoned == TombstonesNow(h, s)
  IN SetToSeq(added) \o SetToSeq(EnrichedNow(h, s)) \o SetToSeq(tombstoned)
       \o SetToSeq(ProtectionNow(h, s, added, tombstoned))

SyncCommit(s) ==
  /\ InPhase(s, "work") /\ sy[s].todo = {} /\ ~Locked
  /\ \E out \in {Committed(s)} :
       sy' = [sy EXCEPT ![s] = IF out = <<>> THEN NoSync
                               ELSE [NoSync EXCEPT !.phase = "write", !.out = out]]
  /\ SyncStep /\ UNCHANGED <<file, faults>>

(* One write per record; the lock is released after the last one.          *)
SyncWrite(s) ==
  /\ InPhase(s, "write")
  /\ AppendLine(Head(sy[s].out), TRUE)
  /\ sy' = [sy EXCEPT ![s] = IF Len(sy[s].out) = 1 THEN NoSync
                               ELSE [sy[s] EXCEPT !.out = Tail(@)]]
  /\ SyncStep /\ UNCHANGED faults

SyncCrash(s) ==
  /\ InPhase(s, "write")
  /\ \/ UNCHANGED file
     \/ \E line \in {Head(sy[s].out), Garbage} : AppendLine(line, FALSE)
  /\ sy' = [sy EXCEPT ![s] = NoSync]
  /\ Fault
  /\ SyncStep

-----------------------------------------------------------------------------
ClientStep(p) ==
  \/ PutPayload(p) \/ Announce(p) \/ Rollback(p)
  \/ DeletePayload(p) \/ DeleteMarker(p) \/ SetSentinel(p)
  \/ Record(p) \/ RecordLink(p)

Command(p) ==
  \E d \in Dirs :
    \/ StartUpload(p, d) \/ StartAppend(p, d) \/ StartDelete(p, d) \/ StartReconcile(p, d)
    \/ StartProtect(p, d, "protect") \/ StartProtect(p, d, "unprotect") \/ StartUpgrade(p, d)

ClientFault(p) == LoseRecord(p) \/ TearRecord(p) \/ Crash(p)

SyncProgress(s) ==
  \/ SyncRead(s) \/ SyncList(s) \/ SyncCommit(s) \/ SyncWrite(s)
  \/ \E d \in Dirs : SyncJob(s, d)

SyncFault(s) == SyncCrash(s) \/ \E d \in Dirs : SyncJobFails(s, d)

Next ==
  \/ \E p \in Clients : Command(p) \/ ClientStep(p) \/ ClientFault(p)
  \/ \E d \in Dirs : Foreign(d)
  \/ \E s \in Syncs : SyncProgress(s) \/ SyncFault(s)

Spec == Init /\ [][Next]_vars

(* A running command goes on, and sync is run again and again.             *)
FairSpec ==
  /\ Spec
  /\ \A p \in Clients : WF_vars(ClientStep(p))
  /\ \A s \in Syncs : WF_vars(SyncProgress(s))

-----------------------------------------------------------------------------
(* Properties.                                                             *)

TypeOK ==
  /\ bucket \in [Dirs -> Directories]
  /\ drawn \subseteq Dirs
  /\ \A i \in DOMAIN lines : lines[i] = Garbage \/ lines[i] \in Records
  /\ newline \in BOOLEAN
  /\ \A p \in Clients : cl[p].rec \subseteq Records /\ cl[p].links \subseteq Dirs
  /\ \A s \in Syncs : sy[s].todo \subseteq Dirs /\ sy[s].snap.deleted \subseteq Chains \X Nat

Whole(d) == bucket[d].present /\ bucket[d].payload
Quiet == ~Locked /\ \A p \in Clients : cl[p].op = "idle"

(* As long as this machine alone uses the bucket, runs one command at a    *)
(* time and loses no record, its manifest describes the bucket whenever no *)
(* command is running: a sync that inspects the bucket meanwhile, however  *)
(* long, brings back nothing a command deleted, undoes no protect or       *)
(* unprotect and loses no revision link.  Only a candidate a sync saw      *)
(* before its rollback may be listed until the next sync.                  *)
InStep ==
  LET h == History IN
  Quiet => \A d \in Dirs : bucket[d].kind # "candidate" =>
    /\ IsActive(h, d) <=> Whole(d)
    /\ Whole(d) => /\ IsProtected(h, d) <=> bucket[d].sentinel
                   /\ InChain(d) <=> Announced(ActiveRecord(h, d))

(* A tombstone is never written for an upload that is still there: the     *)
(* ownership marker is gone before any process records a deletion.         *)
TombstonedIsGone ==
  \A d \in Dirs : (\E i \in DOMAIN lines : lines[i] # Garbage /\ lines[i].type = "delete"
                                            /\ lines[i].dir = d)
                  => ~bucket[d].present

(* What the manifest suppresses for good is dead for good: no revision     *)
(* number it holds deleted is that of a live member, so a number that was  *)
(* only a rolled back candidate's stays usable.                            *)
SuppressedIsDead ==
  \A d \in Members : ~RevisionDeleted(DeletedRevisions(lines), Chain, Number[d])

(* Every record a command or a sync writes is one readManifest accepts.    *)
WritesReadable == \A i \in DOMAIN lines : lines[i] # Garbage => Valid(lines[i])

(* The records a command or a sync leaves behind are readable, and those of *)
(* deletions true.                                                          *)
RecordsSound == WritesReadable /\ TombstonedIsGone /\ SuppressedIsDead

(* SPEC.md: a revision-aware delete tombstone permanently suppresses that  *)
(* revision even if a stale upload event is appended later.                *)
StaleUploadSuppressed ==
  \A d \in Dirs : (\E i \in DOMAIN lines : lines[i] # Garbage /\ lines[i].type = "delete"
                                            /\ lines[i].dir = d /\ lines[i].rev > 0)
                  => ~IsActive(History, d)

(* However commands of several processes and machines interleaved and      *)
(* whatever records were lost or torn: once they stop, repeated syncs make *)
(* the manifest list exactly what the bucket holds, as protected and as    *)
(* linked as it is there, and it stays so.                                 *)
Converged ==
  LET h == History IN
  \A d \in Dirs :
    /\ IsActive(h, d) => bucket[d].present /\ IsProtected(h, d) = bucket[d].sentinel
    /\ Whole(d) /\ bucket[d].kind # "candidate" => IsActive(h, d)
    /\ Whole(d) /\ InChain(d) => Announced(ActiveRecord(h, d))
Convergence == <>[]Converged
=============================================================================
