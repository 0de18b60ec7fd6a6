------------------------------- MODULE Manifest -------------------------------
(***************************************************************************)
(* The local upload history (src/airplan/manifest.go): an append-only file *)
(* of one JSON record per line, and its reduction to the uploads that are  *)
(* active.  There is no state here.                                        *)
(*                                                                         *)
(* A directory stands for the pair (bucket, marker key) that identifies a  *)
(* managed upload; its page key, kind, format, title and creation time are *)
(* functions of it, since a random directory is drawn once.  A chain       *)
(* stands for (profile, bucket, revision_chain_id).                        *)
(***************************************************************************)
EXTENDS Integers, Sequences, SequencesExt

CONSTANTS Dirs,      \* upload directories
          Chains,    \* revision chains
          NoChain    \* "no revision_chain_id"

ASSUME NoChainAssumption == NoChain \notin Chains

UploadTypes == {"upload", "upgrade", "link"}
RecordTypes == UploadTypes \cup {"delete", "protect", "unprotect"}

(* ManifestRecord.  managed: the marker version is supported or, on a      *)
(* delete, marker_key and bucket are given; totals: objects and            *)
(* total_bytes are present; rev = 0 and latest = 0 are the omitted fields. *)
Records == [type : RecordTypes, dir : Dirs, managed : BOOLEAN, totals : BOOLEAN,
            chain : Chains \cup {NoChain}, rev : Nat, latest : Nat]

Upload(type, d, totals, chain, rev, latest) ==
  [type |-> type, dir |-> d, managed |-> TRUE, totals |-> totals,
   chain |-> chain, rev |-> rev, latest |-> latest]
Tombstone(d, chain, rev) ==
  [type |-> "delete", dir |-> d, managed |-> TRUE, totals |-> FALSE,
   chain |-> chain, rev |-> rev, latest |-> 0]
Protection(type, d) ==
  [type |-> type, dir |-> d, managed |-> TRUE, totals |-> FALSE,
   chain |-> NoChain, rev |-> 0, latest |-> 0]

(* validateManifestRecord: what a reader accepts.                          *)
Valid(r) ==
  /\ r.type \in {"upgrade", "link"} => r.managed
  /\ r.chain = NoChain => r.rev = 0 /\ r.latest = 0
  /\ r.chain # NoChain => r.rev > 0
  /\ r.type \in UploadTypes /\ r.latest # 0 => r.latest >= r.rev
  /\ r.type = "link" => r.chain # NoChain /\ r.latest >= r.rev
  /\ r.type \in {"protect", "unprotect"} => r.managed

(* A line that does not parse: torn, merged with another one, oversized.   *)
Garbage == [type |-> "garbage"]

(* readManifest skips what it cannot parse or does not accept.  Lines keep  *)
(* their places here: a record is told apart by its line.                  *)
Readable(lines) == {i \in DOMAIN lines : lines[i] # Garbage /\ Valid(lines[i])}
Parsed(lines) == SelectSeq(lines, LAMBDA r : r # Garbage /\ Valid(r))

-----------------------------------------------------------------------------
(* ManifestUploads.                                                        *)

(* manifestRecordIdentity: legacy records are identified by their key.     *)
Identity(r) == <<r.managed, r.dir>>
Identities == BOOLEAN \X Dirs

(* manifestRecordHasAnnouncedRevision.                                     *)
Announced(r) == r.chain # NoChain /\ r.rev > 0 /\ r.latest >= r.rev

(* What a reduction knows: per identity the latest upload, upgrade or link *)
(* (none or one), the protected identities, and the deleted revisions.     *)
EmptyHistory == [active |-> [id \in Identities |-> {}], protected |-> {}, deleted |-> {}]

(* An upload, upgrade or link is dropped when its revision was deleted.    *)
ReduceUpload(h, r) ==
  IF r.rev > 0 /\ <<r.chain, r.rev>> \in h.deleted THEN h
  ELSE [h EXCEPT !.active[Identity(r)] = {r}]

(* A managed tombstone hides its identity, a legacy one every entry with   *)
(* its key; protection goes with the entry, and a revision is remembered.  *)
ReduceDelete(h, r) ==
  LET gone == IF r.managed THEN {Identity(r)}
              ELSE {id \in Identities : id[2] = r.dir /\ h.active[id] # {}}
  IN [active |-> [id \in Identities |-> IF id \in gone THEN {} ELSE h.active[id]],
      protected |-> h.protected \ gone,
      deleted |-> IF r.chain # NoChain /\ r.rev > 0
                  THEN h.deleted \cup {<<r.chain, r.rev>>} ELSE h.deleted]

(* An upload never clears protection.                                      *)
ReduceRecord(h, r) ==
  CASE r.type \in UploadTypes -> ReduceUpload(h, r)
    [] r.type = "delete"      -> ReduceDelete(h, r)
    [] r.type = "protect"     -> [h EXCEPT !.protected = @ \cup {Identity(r)}]
    [] r.type = "unprotect"   -> [h EXCEPT !.protected = @ \ {Identity(r)}]

Reduce(recs) == FoldLeft(ReduceRecord, EmptyHistory, recs)

(***************************************************************************)
(* The same without a loop and over the lines of the file, which is what   *)
(* the other modules use.  An upload counts if no earlier tombstone names  *)
(* its revision, and is active if it is the last that counts and no later  *)
(* tombstone hides it.  (That both agree is an assumption of MCCommands,   *)
(* which TLC evaluates.)                                                   *)
(***************************************************************************)
Names(del, r) == del.type = "delete" /\ del.rev > 0 /\ del.rev = r.rev /\ del.chain = r.chain
Hides(del, id) == del.type = "delete" /\ (IF del.managed THEN Identity(del) = id ELSE del.dir = id[2])
Counts(lines, i) ==
  lines[i].type \in UploadTypes /\ \A j \in Readable(lines) : j < i => ~Names(lines[j], lines[i])
Restated(lines, id) == {i \in Readable(lines) : Identity(lines[i]) = id /\ Counts(lines, i)}
ActiveIndices(lines, id) ==
  {i \in Restated(lines, id) : /\ \A j \in Restated(lines, id) : j <= i
                               /\ \A j \in Readable(lines) : j > i => ~Hides(lines[j], id)}
(* A legacy tombstone lifts the protection of active uploads only.         *)
Lifts(lines, i, id) ==
  \/ lines[i].type = "unprotect" /\ Identity(lines[i]) = id
  \/ /\ Hides(lines[i], id)
     /\ lines[i].managed \/ ActiveIndices(SubSeq(lines, 1, i - 1), id) # {}
ProtectedIn(lines, id) ==
  \E i \in Readable(lines) :
    /\ lines[i].type = "protect" /\ Identity(lines[i]) = id
    /\ \A j \in Readable(lines) : j > i => ~Lifts(lines, j, id)

(* manifestDeletedRevisions.                                               *)
MutantDeletedRevisions(lines) ==
  {<<lines[i].chain, lines[i].rev>> : i \in {j \in Readable(lines) : lines[j].type = "delete"}}
DeletedRevisions(lines) ==
  {<<lines[i].chain, lines[i].rev>> :
     i \in {j \in Readable(lines) : lines[j].type = "delete" /\ lines[j].rev > 0}}

HistoryOf(lines) ==
  [active |-> [id \in Identities |-> {lines[i] : i \in ActiveIndices(lines, id)}],
   protected |-> {id \in Identities : ProtectedIn(lines, id)},
   deleted |-> DeletedRevisions(lines)]

(* ActiveUploads, by marker key.                                           *)
IsActive(h, d) == h.active[<<TRUE, d>>] # {}
ActiveRecord(h, d) == CHOOSE r \in h.active[<<TRUE, d>>] : TRUE
IsProtected(h, d) == IsActive(h, d) /\ <<TRUE, d>> \in h.protected

(* manifestRevisionIdentityWasDeleted.                                     *)
RevisionDeleted(deleted, chain, rev) ==
  chain # NoChain /\ rev > 0 /\ <<chain, rev>> \in deleted

-----------------------------------------------------------------------------
(* The rechecks of a sync (src/airplan/sync.go), over the records appended *)
(* since it began, which are those after the first n.                      *)

MutantSince(lines, n) == Readable(lines)
Since(lines, n) ==
  {i \in Readable(lines) : Cardinality({j \in Readable(lines) : j <= i}) > n}

(* hasConcurrentUpload, hasConcurrentProtection, hasConcurrentDelete.      *)
ConcurrentUpload(lines, n, d) ==
  \E i \in Since(lines, n) :
    lines[i].type \in {"upload", "link"} /\ Identity(lines[i]) = <<TRUE, d>>
ConcurrentProtection(lines, n, d) ==
  \E i \in Since(lines, n) :
    lines[i].type \in {"protect", "unprotect"} /\ Identity(lines[i]) = <<TRUE, d>>
ConcurrentDelete(lines, n, d) ==
  \E i \in Since(lines, n) : lines[i].type = "delete" /\ lines[i].dir = d

(* manifestRecordNeedsTotals and manifestRecordNeedsRevisionProjection,    *)
(* for a source-backed Markdown document of a current marker version.      *)
NeedsTotals(r) == ~r.totals
NeedsRevision(r) == r.chain = NoChain \/ r.rev = 0 \/ r.latest < r.rev
NeedsInspection(r) == NeedsTotals(r) \/ NeedsRevision(r)
=============================================================================
