----------------------------- MODULE RevisionChain -----------------------------
(***************************************************************************)
(* Linked document revisions over an object store: appending a revision    *)
(* (src/airplan/update.go, src/airplan/bundle_revision.go) and deleting an *)
(* upload (src/airplan/delete.go), run by any number of clients that share *)
(* nothing but the bucket.  One action is one storage request, with the    *)
(* local computation that leads to the next one.  Any request may fail and *)
(* any client may crash, between two requests or right after one.          *)
(*                                                                         *)
(* The store offers unconditional PUT and DELETE, PUT If-Match: <ETag> and *)
(* PUT If-None-Match: *.  ETags are derived from contents, so "the ETag is *)
(* the one I read" is "the object equals the one I read"; an object that   *)
(* must not exist is one that must equal Absent.                           *)
(*                                                                         *)
(* Abstractions: loading a document (marker, page, source and versions     *)
(* object of a directory) is one read; the source, diff, assets and pages  *)
(* of a directory are one payload; a check that merely repeats what the    *)
(* type of the model guarantees (JSON shape, URL form, size) is left out.  *)
(***************************************************************************)
EXTENDS VersionsMetadata, FiniteSets

CONSTANTS Root,        \* the directory of the original standalone upload
          Appenders,   \* clients that run new-revision
          Deleters,    \* clients that run delete
          Retriers,    \* clients that start over after an operation failed
          Targets,     \* directories somebody may want deleted
          MaxLost,     \* bound on commit requests that get no answer
          MaxClaims    \* bound on cleanup claims won

ASSUME RootAssumption    == Root \in Dirs
ASSUME TargetsAssumption == Targets \subseteq Dirs
ASSUME BoundsAssumption  == MaxLost \in Nat /\ MaxClaims \in Nat

Clients == Appenders \cup Deleters

ASSUME RetriersAssumption == Retriers \subseteq Clients

VARIABLES marker,   \* marker[d]: the ownership marker of directory d
          payload,  \* payload[d]: its declared payload objects
          vers,     \* vers[d]: its .airplan-versions.json
          late,     \* commit requests given up on that may still take effect
          used,     \* directory names already drawn
          lost,     \* number of commit requests without an answer so far
          claims,   \* number of cleanup claims won so far
          pc, mem,  \* control point and local state of every client
          cleaned,  \* history: directories removed as unannounced candidates
          acked,    \* history: appends reported successful
          doomed    \* history: directories whose deletion was serialized

store == <<marker, payload, vers, late, used, lost, claims>>
vars == <<marker, payload, vers, late, used, lost, claims, pc, mem, cleaned, acked, doomed>>

(* A marker's revision descriptor; num = 0 is a standalone document, and   *)
(* every revision but the first names its predecessor.                     *)
Descriptors == [has : BOOLEAN, chain : Dirs \cup {NoDir}, num : Nat,
                prev : Dirs \cup {NoDir}]
Markers == {k \in Descriptors : k.num >= 2 => k.prev # NoDir}
NoMarker == [has |-> FALSE, chain |-> NoDir, num |-> 0, prev |-> NoDir]
StandaloneMarker == [has |-> TRUE, chain |-> NoDir, num |-> 0, prev |-> NoDir]
(* Mutant: the marker forgets its predecessor.                             *)
MutantRevisionMarker(chain, num, prev) ==
  [has |-> TRUE, chain |-> chain, num |-> num, prev |-> NoDir]
RevisionMarker(chain, num, prev) ==
  [has |-> TRUE, chain |-> chain, num |-> num, prev |-> prev]

(* A payload is complete, its pages rendered as a standalone document or   *)
(* as a chain member, or at least one of its objects is not there.         *)
Payloads == {"gone", "alone", "linked"}
Complete == {"alone", "linked"}

(* revisionDocument: what loading a directory returns, ETags included.     *)
Docs == [dir : Dirs \cup {NoDir}, marker : Markers, page : Payloads, vers : Bodies]
NoDoc == [dir |-> NoDir, marker |-> NoMarker, page |-> "gone", vers |-> Absent]

LatePuts == [dir : Dirs, match : Bodies, body : Bodies]

Labels ==
  {"idle", "reload", "page", "first", "follow", "plan", "payload", "commit",
   "recRead", "recCand", "recRetry", "recReread", "recClaim", "rbPayload", "rbMarker",
   "promMarker", "promPage", "promVerify", "newIndex",
   "fixRead", "fixReceipt", "fixWitness", "fixPut",
   "propRead", "propPut", "propCheck", "propMember", "propMake", "verify",
   "reserve", "read", "survivor", "tombstone", "receipt", "rmPayload", "rmMarker",
   "annRead", "annRefine", "annLoad", "annClaim"}

(* Local state of an operation: the addressed document, the latest member  *)
(* found so far, the document being repaired or promoted, the candidate    *)
(* (of an append, or unannounced and being removed), the metadata being    *)
(* published, where it was serialized, replicas not to visit, an observed  *)
(* index, whether the store reported a conflict, whether the target was    *)
(* already reserved for deletion, a loop index, and the label a shared     *)
(* procedure returns to.                                                   *)
Mems == [op : {"none", "append", "delete"}, tdoc : Docs, ldoc : Docs, rdoc : Docs,
         cand : Dirs \cup {NoDir}, meta : Bodies, ser : Dirs \cup {NoDir},
         skip : SUBSET Dirs, obs : Bodies, conflict : BOOLEAN, reserved : BOOLEAN,
         i : Nat, ret : Labels]
NoMem == [op |-> "none", tdoc |-> NoDoc, ldoc |-> NoDoc, rdoc |-> NoDoc,
          cand |-> NoDir, meta |-> Absent, ser |-> NoDir,
          skip |-> {}, obs |-> Absent, conflict |-> FALSE, reserved |-> FALSE,
          i |-> 0, ret |-> "idle"]

Init ==
  /\ marker = [d \in Dirs |-> IF d = Root THEN StandaloneMarker ELSE NoMarker]
  /\ payload = [d \in Dirs |-> IF d = Root THEN "alone" ELSE "gone"]
  /\ vers = [d \in Dirs |-> Absent]
  /\ late = {}
  /\ used = {Root}
  /\ lost = 0
  /\ claims = 0
  /\ pc = [c \in Clients |-> "idle"]
  /\ mem = [c \in Clients |-> NoMem]
  /\ cleaned = {}
  /\ acked = {}
  /\ doomed = {}

-----------------------------------------------------------------------------
(* Control.  A check that fails has no action of its own: the operation    *)
(* returns an error, which is GiveUp.                                      *)

Goto(c, label, m) ==
  /\ pc' = [pc EXCEPT ![c] = label]
  /\ mem' = [mem EXCEPT ![c] = m]

(* The operation ends and its locals are gone.                             *)
Stop(c) == Goto(c, "idle", NoMem)

Reads == UNCHANGED <<store, cleaned, acked, doomed>>
At(c, label) == pc[c] = label

(* An error return, a cancelled context, a timeout or a crash, between any *)
(* two requests; nothing is undone.  A client that does not come back      *)
(* needs no action for it: it takes no further step.                       *)
GiveUp(c) ==
  /\ pc[c] # "idle"
  /\ Stop(c)
  /\ Reads

(* Mutant: the PUT carries no condition.                                   *)
MutantPutVers(d, match, body) == vers' = [vers EXCEPT ![d] = body]

(* PUT If-Match (or If-None-Match: * when match is Absent) on an index.    *)
PutVers(d, match, body) ==
  /\ vers[d] = match
  /\ vers' = [vers EXCEPT ![d] = body]

-----------------------------------------------------------------------------
(* Loading a document.                                                     *)

Load(d) == [dir |-> d, marker |-> marker[d], page |-> payload[d], vers |-> vers[d]]

(* loadRevisionDocument succeeds: a marker, a complete payload, and either *)
(* no versions object or one that decodes and agrees with the marker.      *)
Loads(d) ==
  /\ marker[d].has
  /\ payload[d] \in Complete
  /\ \/ vers[d] = Absent
     \/ /\ Decodes(vers[d], d)
        /\ IF marker[d].num = 0
           THEN vers[d].cur = 1
           ELSE vers[d].chain = marker[d].chain /\ vers[d].cur = marker[d].num

HasIndex(d) == Loads(d) /\ vers[d] # Absent

NeedsMetadata(doc) == doc.marker.num > 0 /\ doc.vers = Absent
NeedsPromotion(doc) == doc.marker.num = 0 /\ doc.vers # Absent
NeedsPage(doc) == doc.marker.num > 0 /\ doc.page = "alone"
(* Mutant: the addressed member is taken for the latest one.               *)
MutantAtLatest(doc) == TRUE
AtLatest(doc) == doc.vers = Absent \/ LatestOf(doc.vers.ents) = doc.vers.cur

(* repairFirstRevisionPromotionFromMember has something to look at.        *)
ChecksFirst(doc) ==
  doc.marker.num = 2 /\ doc.vers # Absent /\ IsLive(doc.vers.ents, 1)

(* repairMissingRevisionMetadata can give doc a replica of metadata.       *)
Fixable(metadata, doc) ==
  /\ metadata # Absent
  /\ metadata.chain = doc.marker.chain
  /\ IsLive(metadata.ents, doc.marker.num)
  /\ metadata.ents[doc.marker.num].dir = doc.dir

(* Start promoteStandaloneRevision on doc, to continue at ret.             *)
Promote(c, m, doc, ret) ==
  Goto(c, "promMarker", [m EXCEPT !.rdoc = doc, !.ret = ret])

(* The latest member is known: the end of prepareRevisionTarget.           *)
Prepared(c, m) ==
  \/ /\ ~NeedsPromotion(m.tdoc)
     /\ Goto(c, "plan", [NoMem EXCEPT !.op = "append", !.ldoc = m.ldoc])
  \/ /\ NeedsPromotion(m.tdoc)
     /\ m.ldoc.marker.num > 0
     /\ m.ldoc.marker.chain = m.tdoc.vers.chain
     /\ m.ldoc.marker.prev = m.tdoc.dir
     /\ Promote(c, [NoMem EXCEPT !.op = "append", !.ldoc = m.ldoc], m.tdoc, "plan")

(* The addressed document and its first-revision predecessor are in order. *)
Onward(c, m) ==
  \/ m.op = "delete" /\ Goto(c, "read", [NoMem EXCEPT !.op = "delete", !.tdoc = m.tdoc])
  \/ m.op = "append" /\ ~AtLatest(m.ldoc) /\ Goto(c, "follow", m)
  \/ m.op = "append" /\ AtLatest(m.ldoc) /\ Prepared(c, m)

(* The addressed document has just been loaded as doc.  A deletion still   *)
(* removes the payload that its first listing showed.                      *)
Loaded(c, m0, doc) ==
  LET target == IF m0.op = "append" THEN doc ELSE [doc EXCEPT !.page = m0.tdoc.page]
      m == [m0 EXCEPT !.tdoc = target, !.ldoc = doc, !.rdoc = doc, !.ret = "reload"]
      page == m.op = "append" /\ NeedsPage(doc)
  IN  \/ NeedsMetadata(doc) /\ Goto(c, "fixRead", m)
      \/ ~NeedsMetadata(doc) /\ page /\ Goto(c, "page", m)
      \/ ~NeedsMetadata(doc) /\ ~page /\ ChecksFirst(doc) /\ Goto(c, "first", m)
      \/ ~NeedsMetadata(doc) /\ ~page /\ ~ChecksFirst(doc) /\ Onward(c, m)

(* A shared procedure returns.                                             *)
Return(c, m) ==
  IF m.ret = "first" THEN Onward(c, m) ELSE Goto(c, m.ret, m)

(* prepareRevisionTarget; its repairs load the target again.               *)
AppendStart(c, d) ==
  /\ At(c, "idle")
  /\ Loads(d)
  /\ Loaded(c, [NoMem EXCEPT !.op = "append"], Load(d))
  /\ Reads

Reload(c) ==
  /\ At(c, "reload")
  /\ Loads(mem[c].tdoc.dir)
  /\ Loaded(c, mem[c], Load(mem[c].tdoc.dir))
  /\ Reads

(* repairRevisionPage of a promoted member whose pages still are those of  *)
(* the standalone document.                                                *)
RepairPage(c) ==
  LET m == mem[c] IN
  /\ At(c, "page")
  /\ marker[m.rdoc.dir] = m.rdoc.marker
  /\ payload[m.rdoc.dir] = m.rdoc.page
  /\ payload' = [payload EXCEPT ![m.rdoc.dir] = "linked"]
  /\ Goto(c, m.ret, m)
  /\ UNCHANGED <<marker, vers, late, used, lost, claims, cleaned, acked, doomed>>

(* repairFirstRevisionPromotionFromMember: revision 2 finishes what the    *)
(* append that created it may have left undone on revision 1.              *)
First(c) ==
  LET m == mem[c]
      d == m.tdoc.marker.prev
      doc == Load(d)
  IN
  /\ At(c, "first")
  /\ Loads(d)
  /\ \/ /\ doc.marker.num = 0
        /\ NeedsPromotion(doc)
        /\ doc.vers.chain = m.tdoc.vers.chain
        /\ Promote(c, m, doc, "first")
     \/ /\ doc.marker.num = 1
        /\ doc.marker.chain = m.tdoc.vers.chain
        /\ IF NeedsPage(doc)
           THEN Goto(c, "page", [m EXCEPT !.rdoc = doc, !.ret = "first"])
           ELSE Onward(c, m)
  /\ Reads

(* The loop of prepareRevisionTarget towards the latest live member.       *)
Follow(c) ==
  LET m == mem[c]
      latest == LatestOf(m.ldoc.vers.ents)
      doc == Load(m.ldoc.vers.ents[latest].dir)
      next == [m EXCEPT !.ldoc = doc]
  IN
  /\ At(c, "follow") /\ m.op = "append"
  /\ Loads(doc.dir)
  /\ \/ /\ NeedsMetadata(doc)
        /\ Fixable(m.ldoc.vers, doc)
        /\ Goto(c, "fixPut", [m EXCEPT !.rdoc = doc, !.meta = m.ldoc.vers, !.ret = "follow"])
     \/ /\ doc.vers # Absent
        /\ doc.vers.chain = m.ldoc.vers.chain
        /\ doc.vers.cur = latest
        /\ IF NeedsPage(doc)
           THEN Goto(c, "page", [m EXCEPT !.rdoc = doc, !.ret = "follow"])
           ELSE IF AtLatest(doc) THEN Prepared(c, next) ELSE Goto(c, "follow", next)
  /\ Reads

-----------------------------------------------------------------------------
(* repairMissingRevisionMetadata: a member whose index was never written   *)
(* gets one from its predecessor or, when that was deleted, from a live    *)
(* member named by the predecessor's receipt.                              *)

FixRead(c) ==
  LET m == mem[c]
      previous == m.rdoc.marker.prev
  IN
  /\ At(c, "fixRead")
  /\ previous # NoDir
  /\ \/ /\ Loads(previous)
        /\ Fixable(vers[previous], m.rdoc)
        /\ Goto(c, "fixPut", [m EXCEPT !.meta = vers[previous]])
     \/ /\ ~marker[previous].has
        /\ Goto(c, "fixReceipt", m)
  /\ Reads

FixReceipt(c) ==
  LET m == mem[c]
      body == vers[m.rdoc.marker.prev]
      first == NextWitness(body.ents, Len(body.ents) + 1, m.rdoc.marker.num)
  IN
  /\ At(c, "fixReceipt")
  /\ IsReceipt(body)
  /\ first # 0
  /\ Goto(c, "fixWitness", [m EXCEPT !.meta = body, !.i = first])
  /\ Reads

FixWitness(c) ==
  LET m == mem[c]
      d == m.meta.ents[m.i].dir
      next == NextWitness(m.meta.ents, m.i, m.rdoc.marker.num)
      witness == HasIndex(d) /\ vers[d].chain = m.meta.chain
                 /\ IsLive(vers[d].ents, m.rdoc.marker.num)
  IN
  /\ At(c, "fixWitness")
  /\ \/ /\ witness
        /\ Fixable(vers[d], m.rdoc)
        /\ Goto(c, "fixPut", [m EXCEPT !.meta = vers[d]])
     \/ /\ ~witness
        /\ next # 0
        /\ Goto(c, "fixWitness", [m EXCEPT !.i = next])
  /\ Reads

(* Mutant: the repair overwrites an index written in the meantime.         *)
MutantFixPut(c) ==
  LET m == mem[c] IN
  /\ At(c, "fixPut")
  /\ vers' = [vers EXCEPT ![m.rdoc.dir] = IndexBody(m.meta.chain, m.rdoc.marker.num, m.meta.ents)]
  /\ Goto(c, m.ret, m)
  /\ UNCHANGED <<marker, payload, late, used, lost, claims, cleaned, acked, doomed>>

FixPut(c) ==
  LET m == mem[c] IN
  /\ At(c, "fixPut")
  /\ PutVers(m.rdoc.dir, Absent,
             IndexBody(m.meta.chain, m.rdoc.marker.num, m.meta.ents))
  /\ Goto(c, m.ret, m)
  /\ UNCHANGED <<marker, payload, late, used, lost, claims, cleaned, acked, doomed>>

-----------------------------------------------------------------------------
(* promoteStandaloneRevision: the marker and then the pages of revision 1, *)
(* each only if it is still what this client loaded; and the load after it.*)

PromoteMarker(c) ==
  LET m == mem[c] IN
  /\ At(c, "promMarker")
  /\ marker[m.rdoc.dir] = m.rdoc.marker
  /\ marker' = [marker EXCEPT ![m.rdoc.dir] = RevisionMarker(m.rdoc.vers.chain, 1, NoDir)]
  /\ Goto(c, "promPage", m)
  /\ UNCHANGED <<payload, vers, late, used, lost, claims, cleaned, acked, doomed>>

PromotePage(c) ==
  LET m == mem[c] IN
  /\ At(c, "promPage")
  /\ payload[m.rdoc.dir] = m.rdoc.page
  /\ payload' = [payload EXCEPT ![m.rdoc.dir] = "linked"]
  /\ Goto(c, "promVerify", m)
  /\ UNCHANGED <<marker, vers, late, used, lost, claims, cleaned, acked, doomed>>

PromoteVerify(c) ==
  LET m == mem[c]
      d == m.rdoc.dir
  IN
  /\ At(c, "promVerify")
  /\ Loads(d)
  /\ marker[d].num = 1
  /\ marker[d].chain = m.rdoc.vers.chain
  /\ payload[d] = "linked"
  /\ Return(c, m)
  /\ Reads

-----------------------------------------------------------------------------
(* updateDocument and createBundleRevision, once the latest member is      *)
(* known.                                                                  *)

(* The new content is different: write the ownership marker of a fresh     *)
(* directory, without any condition.                                       *)
PutMarker(c, d) ==
  LET m == mem[c]
      latest == m.ldoc
      standalone == latest.vers = Absent
      chain == IF standalone THEN d ELSE latest.vers.chain
      ents == IF standalone THEN <<LiveEntry(latest.dir)>> ELSE latest.vers.ents
      metadata == IndexBody(chain, Len(ents) + 1, AppendEntry(ents, d))
  IN
  /\ At(c, "plan")
  /\ d \notin used
  /\ used' = used \cup {d}
  /\ marker' = [marker EXCEPT ![d] = RevisionMarker(chain, Len(ents) + 1, latest.dir)]
  /\ Goto(c, "payload", [m EXCEPT !.cand = d, !.meta = metadata, !.ser = latest.dir,
                                  !.skip = {latest.dir, d}])
  /\ UNCHANGED <<payload, vers, late, lost, claims, cleaned, acked, doomed>>

PutPayload(c) ==
  LET m == mem[c] IN
  /\ At(c, "payload")
  /\ payload' = [payload EXCEPT ![m.cand] = "linked"]
  /\ Goto(c, "commit", m)
  /\ UNCHANGED <<marker, vers, late, used, lost, claims, cleaned, acked, doomed>>

PutPayloadFails(c) ==
  /\ At(c, "payload")
  /\ Goto(c, "rbPayload", mem[c])
  /\ Reads

(* The serialization point of an append: the index of the latest member,   *)
(* written only if it is still what was loaded.                            *)
CommitBody(m) ==
  IndexBody(m.meta.chain, IF m.ldoc.vers = Absent THEN 1 ELSE m.ldoc.vers.cur, m.meta.ents)

Committed(c, m, metadata) ==
  LET won == [m EXCEPT !.meta = [metadata EXCEPT !.cur = m.meta.cur], !.obs = Absent, !.conflict = FALSE] IN
  IF m.ldoc.vers = Absent
  THEN Promote(c, won, [m.ldoc EXCEPT !.vers = metadata], "newIndex")
  ELSE Goto(c, "newIndex", won)

CommitApplied(c) ==
  LET m == mem[c] IN
  /\ At(c, "commit")
  /\ PutVers(m.ser, m.ldoc.vers, CommitBody(m))
  /\ Committed(c, m, m.meta)
  /\ UNCHANGED <<marker, payload, late, used, lost, claims, cleaned, acked, doomed>>

CommitRefused(c) ==
  LET m == mem[c] IN
  /\ At(c, "commit")
  /\ vers[m.ser] # m.ldoc.vers
  /\ Goto(c, "recRead", [m EXCEPT !.conflict = TRUE])
  /\ Reads

(* The SDK resends a request whose answer was lost: the first one took     *)
(* effect and the second one is told that the ETag does not match.         *)
CommitEchoed(c) ==
  LET m == mem[c] IN
  /\ At(c, "commit")
  /\ PutVers(m.ser, m.ldoc.vers, CommitBody(m))
  /\ Goto(c, "recRead", [m EXCEPT !.conflict = TRUE])
  /\ UNCHANGED <<marker, payload, late, used, lost, claims, cleaned, acked, doomed>>

(* No answer at all: the store may still execute the request later.        *)
CommitUnknown(c) ==
  LET m == mem[c] IN
  /\ At(c, "commit")
  /\ lost < MaxLost
  /\ lost' = lost + 1
  /\ late' = late \cup {[dir |-> m.ser, match |-> m.ldoc.vers, body |-> CommitBody(m)]}
  /\ Goto(c, "recRead", m)
  /\ UNCHANGED <<marker, payload, vers, used, claims, cleaned, acked, doomed>>

DeliverLate(put) ==
  /\ late' = late \ {put}
  /\ vers' = IF vers[put.dir] = put.match
             THEN [vers EXCEPT ![put.dir] = put.body]
             ELSE vers
  /\ UNCHANGED <<marker, payload, used, lost, claims, pc, mem, cleaned, acked, doomed>>

-----------------------------------------------------------------------------
(* reconcileRevisionAppendCommit: did the append happen?                   *)

ShowsCommit(m, body, d) ==
  /\ Decodes(body, d)
  /\ IsLive(body.ents, m.meta.cur)
  /\ body.ents[m.meta.cur].dir = m.cand
  /\ Precedes(m.meta, body)

RecRead(c) ==
  LET m == mem[c]
      body == vers[m.ser]
  IN
  /\ At(c, "recRead")
  /\ IF ShowsCommit(m, body, m.ser)
     THEN Committed(c, m, body)
     ELSE Goto(c, "recCand", [m EXCEPT !.obs = body])
  /\ Reads

RecCand(c) ==
  LET m == mem[c]
      body == vers[m.cand]
      shown == ShowsCommit(m, body, m.cand)
  IN
  /\ At(c, "recCand")
  /\ \/ shown /\ Committed(c, m, body)
     \/ ~shown /\ m.conflict /\ Goto(c, "rbPayload", m)
     \/ /\ ~shown /\ ~m.conflict
        /\ m.obs = Absent
        /\ Goto(c, "recRetry", m)
     \/ /\ ~shown /\ ~m.conflict
        /\ Decodes(m.obs, m.ser)
        /\ Goto(c, "recClaim", m)
  /\ Reads

(* Mutant: a retry that meets an index is not followed by another look.    *)
MutantRecRetry(c) ==
  LET m == mem[c] IN
  /\ At(c, "recRetry")
  /\ IF vers[m.ser] = Absent
     THEN vers' = [vers EXCEPT ![m.ser] = CommitBody(m)] /\ Committed(c, m, m.meta)
     ELSE vers' = vers /\ Goto(c, "rbPayload", m)
  /\ UNCHANGED <<marker, payload, late, used, lost, claims, cleaned, acked, doomed>>

(* A first append may simply be tried again.                               *)
RecRetry(c) ==
  LET m == mem[c] IN
  /\ At(c, "recRetry")
  /\ IF vers[m.ser] = Absent
     THEN vers' = [vers EXCEPT ![m.ser] = CommitBody(m)] /\ Committed(c, m, m.meta)
     ELSE vers' = vers /\ Goto(c, "recReread", m)
  /\ UNCHANGED <<marker, payload, late, used, lost, claims, cleaned, acked, doomed>>

RecReread(c) ==
  LET m == mem[c]
      body == vers[m.ser]
  IN
  /\ At(c, "recReread")
  /\ IF ShowsCommit(m, body, m.ser)
     THEN Committed(c, m, body)
     ELSE Goto(c, "rbPayload", m)
  /\ Reads

(* A later one claims the cleanup: the same index with another ETag makes  *)
(* the pending request fail.                                               *)
RecClaim(c) ==
  LET m == mem[c] IN
  /\ At(c, "recClaim")
  /\ claims < MaxClaims
  /\ claims' = claims + 1
  /\ PutVers(m.ser, m.obs, ClaimBody(m.obs))
  /\ Goto(c, "rbPayload", m)
  /\ UNCHANGED <<marker, payload, late, used, lost, cleaned, acked, doomed>>

(* The rollback of a candidate that was not announced.                     *)
RollbackPayload(c) ==
  LET m == mem[c] IN
  /\ At(c, "rbPayload")
  /\ payload' = [payload EXCEPT ![m.cand] = "gone"]
  /\ cleaned' = cleaned \cup {m.cand}
  /\ Goto(c, "rbMarker", m)
  /\ UNCHANGED <<marker, vers, late, used, lost, claims, acked, doomed>>

RollbackMarker(c) ==
  /\ At(c, "rbMarker")
  /\ marker' = [marker EXCEPT ![mem[c].cand] = NoMarker]
  /\ Stop(c)
  /\ UNCHANGED <<payload, vers, late, used, lost, claims, cleaned, acked, doomed>>

-----------------------------------------------------------------------------
(* Publishing an index to the other members.                               *)

NextReplica(m, n) ==
  LET rest == {k \in LiveNumbers(m.meta.ents) : k > n /\ m.meta.ents[k].dir \notin m.skip}
  IN  IF rest = {} THEN 0 ELSE CHOOSE k \in rest : \A j \in rest : k <= j

(* Visit the replica after number n, or else verify from the first one.    *)
Propagate(c, m, n) ==
  LET next == NextReplica(m, n) IN
  IF next # 0
  THEN Goto(c, "propRead", [m EXCEPT !.i = next, !.obs = IF m.op = "append" THEN Absent ELSE @])
  ELSE Goto(c, "verify", [m EXCEPT !.i = NextLive(m.meta.ents, 0)])

(* The new member's own index; somebody may have repaired it already.      *)
NewIndex(c) ==
  LET m == mem[c]
      body == IndexBody(m.meta.chain, m.meta.cur, m.meta.ents)
  IN
  /\ At(c, "newIndex")
  /\ \/ PutVers(m.cand, Absent, body)
     \/ /\ vers[m.cand] # Absent
        /\ AtLeast(vers[m.cand], body, m.cand)
        /\ vers' = vers
  /\ Propagate(c, m, 0)
  /\ UNCHANGED <<marker, payload, late, used, lost, claims, cleaned, acked, doomed>>

(* The new content equals the latest member's: reconcileRevisionMetadata.  *)
PlanUnchanged(c) ==
  LET m == mem[c] IN
  /\ At(c, "plan")
  /\ m.ldoc.vers # Absent
  /\ Propagate(c, [m EXCEPT !.meta = m.ldoc.vers, !.ser = m.ldoc.dir, !.skip = {m.ldoc.dir}], 0)
  /\ Reads

Target(m) == m.meta.ents[m.i].dir
Expected(m) == IndexBody(m.meta.chain, m.i, m.meta.ents)

(* propagateVersionsMetadata and the equal loop of tombstoneLinkedRevision.*)
PropagateRead(c) ==
  LET m == mem[c]
      current == vers[Target(m)]
  IN
  /\ At(c, "propRead")
  /\ \/ current = Expected(m) /\ Propagate(c, m, m.i)
     \/ /\ current # Expected(m)
        /\ Decodes(current, Target(m))
        /\ Precedes(current, m.meta)
        /\ Goto(c, "propPut", [m EXCEPT !.rdoc = [NoDoc EXCEPT !.vers = current]])
     \/ current = Absent /\ Goto(c, "propCheck", m)
  /\ Reads

PropagatePut(c) ==
  LET m == mem[c] IN
  /\ At(c, "propPut")
  /\ PutVers(Target(m), m.rdoc.vers, Expected(m))
  /\ Propagate(c, [m EXCEPT !.rdoc = NoDoc], m.i)
  /\ UNCHANGED <<marker, payload, late, used, lost, claims, cleaned, acked, doomed>>

(* A member has no index.  It gets one if the object that carries this     *)
(* metadata (the new member's after an append, the serialization point     *)
(* otherwise) still does, and if the member's marker agrees.               *)
PropagateCheck(c) ==
  LET m == mem[c]
      authority == IF m.op = "append" /\ m.cand # NoDir THEN m.cand ELSE m.ser
  IN
  /\ At(c, "propCheck")
  /\ DecodesLoose(vers[authority])
  /\ SameIndex(vers[authority], m.meta)
  /\ Goto(c, "propMember", m)
  /\ Reads

PropagateMember(c) ==
  LET m == mem[c] IN
  /\ At(c, "propMember")
  /\ marker[Target(m)].chain = m.meta.chain /\ marker[Target(m)].num = m.i
  /\ Goto(c, "propMake", m)
  /\ Reads

PropagateMake(c) ==
  LET m == mem[c] IN
  /\ At(c, "propMake")
  /\ PutVers(Target(m), Absent, Expected(m))
  /\ Propagate(c, m, m.i)
  /\ UNCHANGED <<marker, payload, late, used, lost, claims, cleaned, acked, doomed>>

(* verifyRevisionChain, one live member at a time.                         *)
VerifyMember(c) ==
  LET m == mem[c]
      d == Target(m)
      next == NextLive(m.meta.ents, m.i)
  IN
  /\ At(c, "verify")
  /\ AtLeast(vers[d], Expected(m), d)
  /\ marker[d].has /\ marker[d].chain = m.meta.chain /\ marker[d].num = m.i
  /\ IF next # 0
     THEN Goto(c, "verify", [m EXCEPT !.i = next]) /\ acked' = acked
     ELSE IF m.op = "append"
     THEN Stop(c) /\ acked' = acked \cup ({m.cand} \ {NoDir})
     ELSE /\ Goto(c, IF m.reserved \/ m.ser = m.tdoc.dir THEN "rmPayload" ELSE "receipt", m)
          /\ acked' = acked
  /\ UNCHANGED <<store, cleaned, doomed>>

-----------------------------------------------------------------------------
(* DeleteUploadWithOptions.                                                *)

(* Resolve the marker and list the directory.                              *)
DeleteStart(c, d) ==
  /\ At(c, "idle")
  /\ marker[d].has
  /\ Goto(c, IF marker[d].num = 0 THEN "reserve" ELSE "read",
          [NoMem EXCEPT !.op = "delete", !.tdoc = [Load(d) EXCEPT !.vers = Absent]])
  /\ Reads

(* reserveStandaloneDelete: contends with the first append for one key.    *)
Reserve(c) ==
  LET m == mem[c]
      d == m.tdoc.dir
  IN
  /\ At(c, "reserve")
  /\ \/ PutVers(d, Absent, Reserved)
     \/ vers[d] = Reserved /\ vers' = vers
  /\ Goto(c, "rmPayload", m)
  /\ doomed' = doomed \cup {d}
  /\ UNCHANGED <<marker, payload, late, used, lost, claims, cleaned, acked>>

(* tombstoneLinkedRevision reads the target's own index first.             *)
ReadTarget(c) ==
  LET m == mem[c]
      t == m.tdoc
      body == vers[t.dir]
      newest == NextWitness(body.ents, Len(body.ents) + 1, 0)
      latest == [m EXCEPT !.obs = body, !.ldoc = [t EXCEPT !.vers = body]]
  IN
  /\ At(c, "read")
  /\ \/ /\ body = Absent
        /\ t.marker.prev # NoDir
        /\ Goto(c, "annRead", m)
     \/ /\ body.kind = "final"
        /\ body.chain = t.marker.chain /\ body.cur = t.marker.num
        /\ Goto(c, "rmPayload", m)
     \/ /\ body.kind = "index"
        /\ body.chain = t.marker.chain /\ body.cur = t.marker.num
        /\ \/ /\ Decodes(body, t.dir)
              /\ Goto(c, IF AtLatest(latest.ldoc) THEN "tombstone" ELSE "follow", latest)
           \/ /\ ~Decodes(body, t.dir)
              /\ DecodesLoose(body)
              /\ newest # 0
              /\ Goto(c, "survivor",
                      [m EXCEPT !.obs = body, !.meta = body, !.reserved = TRUE, !.i = newest])
  /\ Reads

(* Mutant: a survivor that has the tombstone already does not qualify.     *)
MutantSurvivor(c) ==
  LET m == mem[c]
      d == m.meta.ents[m.i].dir
  IN
  /\ At(c, "survivor")
  /\ HasIndex(d)
  /\ vers[d].chain = m.tdoc.marker.chain
  /\ IsLive(vers[d].ents, m.tdoc.marker.num)
  /\ Goto(c, "tombstone", [m EXCEPT !.ldoc = Load(d)])
  /\ Reads

(* loadCanonicalAfterDeleteReservation: the newest member left.            *)
Survivor(c) ==
  LET m == mem[c]
      d == m.meta.ents[m.i].dir
      next == NextWitness(m.meta.ents, m.i, 0)
  IN
  /\ At(c, "survivor")
  /\ \/ /\ ~marker[d].has
        /\ next # 0
        /\ Goto(c, "survivor", [m EXCEPT !.i = next])
     \/ /\ HasIndex(d)
        /\ vers[d].chain = m.tdoc.marker.chain
        /\ m.tdoc.marker.num \in DOMAIN vers[d].ents
        /\ Goto(c, "tombstone", [m EXCEPT !.ldoc = Load(d)])
  /\ Reads

FollowForDelete(c) ==
  LET m == mem[c]
      doc == Load(m.ldoc.vers.ents[LatestOf(m.ldoc.vers.ents)].dir)
  IN
  /\ At(c, "follow") /\ m.op = "delete"
  /\ HasIndex(doc.dir)
  /\ doc.vers.chain = m.tdoc.marker.chain
  /\ Goto(c, IF AtLatest(doc) THEN "tombstone" ELSE "follow", [m EXCEPT !.ldoc = doc])
  /\ Reads

(* The serialization point of a deletion: the index of the latest member   *)
(* or, when no other revision is live, the target's own key.               *)
Tombstone(c, at) ==
  LET m == mem[c]
      before == m.ldoc.vers
      number == m.tdoc.marker.num
      ents == TombstoneAt(before.ents, number, at)
  IN
  /\ At(c, "tombstone")
  /\ number \in DOMAIN before.ents
  /\ \/ /\ LiveNumbers(ents) = {}
        /\ PutVers(m.tdoc.dir, m.obs, FinalReservation(before.chain, number, before.last))
        /\ Goto(c, "rmPayload", m)
     \/ /\ LiveNumbers(ents) # {}
        /\ IF IsLive(before.ents, number)
           THEN PutVers(m.ldoc.dir, before, IndexBody(before.chain, before.cur, ents))
           ELSE vers' = vers
        /\ Propagate(c, [m EXCEPT !.meta = IndexBody(before.chain, before.cur, ents),
                                  !.ser = m.ldoc.dir, !.ldoc = NoDoc], 0)
  /\ doomed' = doomed \cup {m.tdoc.dir}
  /\ UNCHANGED <<marker, payload, late, used, lost, claims, cleaned, acked>>

(* The target's own index becomes a permanent deletion receipt.            *)
Receipt(c) ==
  LET m == mem[c]
      t == m.tdoc
  IN
  /\ At(c, "receipt")
  /\ PutVers(t.dir, m.obs, IndexBody(m.meta.chain, t.marker.num, m.meta.ents))
  /\ Goto(c, "rmPayload", m)
  /\ UNCHANGED <<marker, payload, late, used, lost, claims, cleaned, acked, doomed>>

(* The objects the listing showed go first, the marker last.               *)
RemovePayload(c) ==
  LET m == mem[c]
      d == m.tdoc.dir
  IN
  /\ At(c, "rmPayload")
  /\ \/ payload' = [payload EXCEPT ![d] = "gone"]
     \/ m.tdoc.page = "gone" /\ payload' = payload
  /\ cleaned' = cleaned \cup ({m.cand} \ {NoDir})
  /\ Goto(c, "rmMarker", m)
  /\ UNCHANGED <<marker, vers, late, used, lost, claims, acked, doomed>>

RemoveMarker(c) ==
  /\ At(c, "rmMarker")
  /\ marker' = [marker EXCEPT ![mem[c].tdoc.dir] = NoMarker]
  /\ Stop(c)
  /\ UNCHANGED <<payload, vers, late, used, lost, claims, cleaned, acked, doomed>>

-----------------------------------------------------------------------------
(* classifyRevisionCandidate: a linked target without an index.            *)

Unannounced(c, m) == Goto(c, "rmPayload", [m EXCEPT !.cand = m.tdoc.dir])

(* revisionCandidateStateFromMetadata on an index that has the number.     *)
Classify(c, m, ents, live) ==
  LET entry == ents[m.tdoc.marker.num] IN
  \/ entry.dir = NoDir /\ Goto(c, "rmPayload", m)
  \/ entry.dir = m.tdoc.dir /\ live
  \/ entry.dir \notin {NoDir, m.tdoc.dir} /\ Unannounced(c, m)

(* repairAndTombstoneAnnouncedRevision loads the target.                   *)
Repair(c, m) ==
  /\ Loads(m.tdoc.dir)
  /\ Loaded(c, m, Load(m.tdoc.dir))

ClassifyRead(c) ==
  LET m == mem[c]
      t == m.tdoc
      body == vers[t.marker.prev]
      known == t.marker.num \in DOMAIN body.ents
      newest == NextWitness(body.ents, Len(body.ents) + 1, t.marker.num)
      refines == IsReceipt(body) /\ newest # 0
  IN
  /\ At(c, "annRead")
  /\ \/ body = Absent /\ Goto(c, "annLoad", m)
     \/ /\ body.kind = "final"
        /\ body.chain = t.marker.chain /\ t.marker.num > body.last
        /\ Unannounced(c, m)
     \/ /\ body = Reserved
        /\ t.marker.num = 2
        /\ Unannounced(c, m)
     \/ /\ DecodesLoose(body) /\ body.chain = t.marker.chain /\ known
        /\ Classify(c, m, body.ents,
             IF refines
             THEN Goto(c, "annRefine", [m EXCEPT !.meta = body, !.i = newest])
             ELSE Repair(c, m))
     \/ /\ DecodesLoose(body) /\ body.chain = t.marker.chain /\ ~known
        /\ IF CurrentDeleted(body) THEN Unannounced(c, m) ELSE Goto(c, "annLoad", m)
  /\ Reads

(* refineRevisionCandidateFromDeleteReceipt: ask the members still there.  *)
ClassifyRefine(c) ==
  LET m == mem[c]
      d == m.meta.ents[m.i].dir
      next == NextWitness(m.meta.ents, m.i, m.tdoc.marker.num)
      witness == HasIndex(d) /\ m.tdoc.marker.num \in DOMAIN vers[d].ents
  IN
  /\ At(c, "annRefine")
  /\ \/ /\ witness
        /\ vers[d].chain = m.tdoc.marker.chain
        /\ Classify(c, m, vers[d].ents, Repair(c, m))
     \/ ~witness /\ next # 0 /\ Goto(c, "annRefine", [m EXCEPT !.i = next])
     \/ ~witness /\ next = 0 /\ Repair(c, m)
  /\ Reads

ClassifyLoad(c) ==
  LET m == mem[c]
      t == m.tdoc
      p == t.marker.prev
  IN
  /\ At(c, "annLoad")
  /\ \/ ~marker[p].has /\ Unannounced(c, m)
     \/ /\ HasIndex(p) /\ vers[p].chain = t.marker.chain
        /\ t.marker.num \in DOMAIN vers[p].ents
        /\ Classify(c, m, vers[p].ents, Repair(c, m))
     \/ /\ HasIndex(p) /\ vers[p].chain = t.marker.chain
        /\ t.marker.num = vers[p].last + 1
        /\ AtLatest(Load(p))
        /\ Goto(c, "annClaim", [m EXCEPT !.ldoc = Load(p)])
  /\ Reads

(* The claim serializes the cleanup against the pending append.            *)
ClassifyClaim(c) ==
  LET m == mem[c] IN
  /\ At(c, "annClaim")
  /\ claims < MaxClaims
  /\ claims' = claims + 1
  /\ PutVers(m.ldoc.dir, m.ldoc.vers, ClaimBody(m.ldoc.vers))
  /\ Unannounced(c, m)
  /\ UNCHANGED <<marker, payload, late, used, lost, cleaned, acked, doomed>>

-----------------------------------------------------------------------------
PrepareStep(c) ==
  \/ Reload(c) \/ RepairPage(c) \/ First(c) \/ Follow(c)
  \/ FixRead(c) \/ FixReceipt(c) \/ FixWitness(c) \/ FixPut(c)
  \/ PromoteMarker(c) \/ PromotePage(c) \/ PromoteVerify(c)

AppendStep(c) ==
  \/ \E d \in Dirs : PutMarker(c, d)
  \/ PutPayload(c) \/ PutPayloadFails(c)
  \/ CommitApplied(c) \/ CommitRefused(c) \/ CommitEchoed(c) \/ CommitUnknown(c)
  \/ RecRead(c) \/ RecCand(c) \/ RecRetry(c) \/ RecReread(c) \/ RecClaim(c)
  \/ RollbackPayload(c) \/ RollbackMarker(c)
  \/ NewIndex(c) \/ PlanUnchanged(c)

PublishStep(c) ==
  \/ PropagateRead(c) \/ PropagatePut(c) \/ VerifyMember(c)
  \/ PropagateCheck(c) \/ PropagateMember(c) \/ PropagateMake(c)

DeleteStep(c) ==
  \/ Reserve(c) \/ ReadTarget(c) \/ Survivor(c) \/ FollowForDelete(c)
  \/ \E at \in Stamps : Tombstone(c, at)
  \/ Receipt(c) \/ RemovePayload(c) \/ RemoveMarker(c)
  \/ ClassifyRead(c) \/ ClassifyRefine(c) \/ ClassifyLoad(c) \/ ClassifyClaim(c)

Start(c) ==
  \/ c \in Appenders /\ \E d \in Dirs : AppendStart(c, d)
  \/ c \in Deleters /\ \E d \in Targets : DeleteStart(c, d)

Step(c) == PrepareStep(c) \/ AppendStep(c) \/ PublishStep(c) \/ DeleteStep(c)

Next ==
  \/ \E c \in Clients : Start(c) \/ Step(c)
  \/ \E c \in Retriers : GiveUp(c)
  \/ \E put \in late : DeliverLate(put)

Spec == Init /\ [][Next]_vars

(* A user repeats a command until it succeeds, on every target, and from   *)
(* some point on the network is reliable: an operation that got started    *)
(* ends early only where the code returns an error.                        *)
Persistent(c) ==
  /\ WF_vars(Step(c))
  /\ WF_vars(GiveUp(c))
  /\ <>[][GiveUp(c) => Step(c) \/ ~ENABLED Step(c)]_vars
  /\ \A d \in Dirs : SF_vars(c \in Appenders /\ AppendStart(c, d))
  /\ \A d \in Targets : SF_vars(c \in Deleters /\ DeleteStart(c, d))

RetrySpec == Spec /\ \A c \in Retriers : Persistent(c)

-----------------------------------------------------------------------------
(* Every variable has its type.                                            *)
TypeOK ==
  /\ marker \in [Dirs -> Markers]
  /\ payload \in [Dirs -> Payloads]
  /\ vers \in [Dirs -> Bodies]
  /\ late \subseteq LatePuts
  /\ used \subseteq Dirs
  /\ lost \in 0..MaxLost
  /\ claims \in 0..MaxClaims
  /\ pc \in [Clients -> Labels]
  /\ mem \in [Clients -> Mems]
  /\ cleaned \subseteq Dirs
  /\ acked \subseteq Dirs
  /\ doomed \subseteq Dirs

(* Indexes that exist, receipts included.                                  *)
Indexes == {d \in Dirs : vers[d].kind = "index"}

(* Members a reader is shown and nobody has decided to delete.             *)
Members == {d \in Dirs : marker[d].has /\ Decodes(vers[d], d)} \ doomed

(* A revision number belongs to one upload for ever, across appends that   *)
(* race, are rolled back or are repaired; of two first updates that race   *)
(* only one founds a chain (update.go, the conditional commit and the      *)
(* reconciliation of an ambiguous one).                                    *)
NumbersNeverReused ==
  \A d, e \in Indexes :
    /\ vers[d].chain = vers[e].chain
    /\ \A n \in DOMAIN vers[d].ents \cap DOMAIN vers[e].ents :
         IsLive(vers[d].ents, n) /\ IsLive(vers[e].ents, n) => vers[d].ents[n] = vers[e].ents[n]

(* Indexes of a chain never diverge: of any two, receipts included, one    *)
(* has been through the other's state (tombstone times apart).             *)
Behind(before, after) ==
  /\ Len(before) <= Len(after)
  /\ \A n \in DOMAIN before : before[n].dir = after[n].dir \/ after[n].dir = NoDir
ReplicasOrdered ==
  \A d, e \in Indexes : vers[d].chain = vers[e].chain =>
    Behind(vers[d].ents, vers[e].ents) \/ Behind(vers[e].ents, vers[d].ents)

(* A writer rolls back only a candidate that no index announces (update.go,*)
(* reconcileRevisionAppendCommit).                                         *)
Announced(d) == \E e \in Indexes : \E n \in DOMAIN vers[e].ents : vers[e].ents[n].dir = d
RollbackOnlyLosers ==
  \A c \in Clients : pc[c] \in {"rbPayload", "rbMarker"} =>
    mem[c].cand \in doomed \/ ~Announced(mem[c].cand)

(* The number an append would assign is new to every index of the chain:   *)
(* the latest member carries the chain's high-water mark.                  *)
FreshNumber ==
  \A c \in Clients :
    LET latest == mem[c].ldoc IN
    pc[c] = "plan" /\ latest.vers # Absent /\ vers[latest.dir] = latest.vers =>
      \A d \in Indexes : vers[d].chain = latest.vers.chain => vers[d].last <= latest.vers.last

(* A directory taken away as an unannounced candidate is announced in no   *)
(* index (delete.go, classifyRevisionCandidate; update.go, rollback).      *)
AnnouncedNotCleaned ==
  \A d \in cleaned \ doomed : ~Announced(d)

(* Nobody takes away a revision that took effect: neither the writer that   *)
(* rolls it back nor the deletion that cleans it up.                        *)
OnlyLosersLeave == RollbackOnlyLosers /\ AnnouncedNotCleaned

(* No member links to a revision that is no longer there: the tombstone    *)
(* reaches every member before the first object goes, and no repair from   *)
(* an older index brings the link back.                                    *)
NothingDangling ==
  \A d \in Members : \A n \in LiveNumbers(vers[d].ents) : marker[vers[d].ents[n].dir].has

(* A final reservation means that no other member is left, so no append    *)
(* can have slipped in before it (delete.go, live == 0).                   *)
FinalIsLast ==
  \A d \in Dirs : vers[d].kind = "final" =>
    \A e \in Members : vers[e].chain # vers[d].chain

(* A revision new-revision reported is complete and listed by every member *)
(* until its deletion is serialized.                                       *)
AckedVisible ==
  \A d \in acked \ doomed :
    /\ Loads(d)
    /\ \A e \in Members : vers[e].chain = marker[d].chain =>
         marker[d].num \in DOMAIN vers[e].ents /\ vers[e].ents[marker[d].num].dir = d

(* The links of the members and what is there agree, both ways.             *)
LinksWhole == NothingDangling /\ AckedVisible

(* No write takes an index back: while its revision is live, entries are   *)
(* only added or tombstoned, a tombstone is neither revived nor re-dated,  *)
(* and an index of a chain is replaced by nothing but an index or the      *)
(* final reservation of that chain (versions.go,                           *)
(* versionsMetadataMonotonicallyPrecedes, and every conditional write).    *)
MonotoneReplica ==
  [][\A d \in Dirs : vers[d].kind = "index" =>
       /\ vers'[d].kind \in {"index", "final"}
       /\ vers'[d].chain = vers[d].chain
       /\ vers'[d].kind = "index" /\ ~CurrentDeleted(vers'[d]) =>
            EntsPrecede(vers[d].ents, vers'[d].ents)]_vars

(* An interrupted append is completed by whoever retries: the new revision *)
(* gets its index, the first revision is promoted (or is on its way out),  *)
(* every member lists the new one (update.go, prepareRevisionTarget and    *)
(* reconcileRevisionMetadata).                                             *)
Settled(d) ==
  /\ HasIndex(d)
  /\ Root \in doomed \/ (marker[Root].num = 1 /\ payload[Root] = "linked")
  /\ \A e \in Members : vers[e].chain = marker[d].chain => marker[d].num \in DOMAIN vers[e].ents
AppendsSettle == \A d \in Dirs : Announced(d) ~> Settled(d)

(* A deletion whose tombstone is committed is completed by whoever retries *)
(* (delete.go, tombstoneLinkedRevision); the second revision apart, which  *)
(* may have to wait for the first one's promotion.                         *)
Leaves(d) == d \in doomed ~> ~marker[d].has
DeletionsFinish == \A d \in Targets : Leaves(d)
LaterDeletionsFinish ==
  \A d \in Targets : (d \in doomed /\ marker[d].num # 2) ~> ~marker[d].has
=============================================================================
