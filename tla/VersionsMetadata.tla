--------------------------- MODULE VersionsMetadata ---------------------------
(***************************************************************************)
(* The revision index: what may stand at the key ".airplan-versions.json"  *)
(* of an upload directory (src/airplan/versions.go and the two deletion    *)
(* reservations of src/airplan/delete.go), and the pure functions the      *)
(* revision protocol applies to it.  There is no state here.               *)
(*                                                                         *)
(* An upload is named by its random directory: the page URL, the diff URL  *)
(* and the creation time of an index entry are functions of it.  A         *)
(* tombstone names no directory and carries the second it was made in.     *)
(***************************************************************************)
EXTENDS Integers, Sequences

CONSTANTS Dirs,     \* random upload directories
          NoDir,    \* "no directory": the URL field of a tombstone
          Stamps    \* deletion times, to the second, a deleter may read

ASSUME NoDirAssumption  == NoDir \notin Dirs
ASSUME StampsAssumption == Stamps \subseteq Nat \ {0}

Entries == [dir : Dirs \cup {NoDir}, at : Stamps \cup {0}]

LiveEntry(d) == [dir |-> d, at |-> 0]
TombstoneEntry(at) == [dir |-> NoDir, at |-> at]

(***************************************************************************)
(* Everything that may be stored at a versions key.  kind is "absent" (no  *)
(* object), "reserved" (standalone deletion reservation), "final" (final   *)
(* revision deletion reservation) or "index".  last is                     *)
(* last_assigned_revision, cur is current_revision (the revision a final   *)
(* reservation deletes), alt tells which of the two top-level field orders *)
(* the JSON body uses.  Equal values have equal ETags.                     *)
(***************************************************************************)
Bodies == [kind : {"absent", "reserved", "final", "index"},
           chain : Dirs \cup {NoDir}, cur : Nat, last : Nat,
           ents : Seq(Entries), alt : BOOLEAN]

Absent == [kind |-> "absent", chain |-> NoDir, cur |-> 0, last |-> 0,
           ents |-> << >>, alt |-> FALSE]

Reserved == [Absent EXCEPT !.kind = "reserved"]

FinalReservation(chain, num, last) ==
  [kind |-> "final", chain |-> chain, cur |-> num, last |-> last,
   ents |-> << >>, alt |-> FALSE]

IndexBody(chain, cur, ents) ==
  [kind |-> "index", chain |-> chain, cur |-> cur, last |-> Len(ents),
   ents |-> ents, alt |-> FALSE]

-----------------------------------------------------------------------------
(* Entries of an index.                                                    *)

IsLive(ents, n) == n \in DOMAIN ents /\ ents[n].dir # NoDir

LiveNumbers(ents) == {n \in DOMAIN ents : ents[n].dir # NoDir}

(* latest_revision, which validation forces to be the greatest live entry. *)
LatestOf(ents) ==
  IF LiveNumbers(ents) = {} THEN 0
  ELSE CHOOSE n \in LiveNumbers(ents) : \A k \in LiveNumbers(ents) : k <= n

(* The least live number above n, or 0: the order replicas are visited in. *)
NextLive(ents, n) ==
  LET above == {k \in LiveNumbers(ents) : k > n}
  IN  IF above = {} THEN 0 ELSE CHOOSE k \in above : \A j \in above : k <= j

(* The greatest live number below n other than skip, or 0: the order other *)
(* members are tried in as witnesses for the state of skip.                *)
NextWitness(ents, n, skip) ==
  LET below == {k \in LiveNumbers(ents) \ {skip} : k < n}
  IN  IF below = {} THEN 0 ELSE CHOOSE k \in below : \A j \in below : j <= k

-----------------------------------------------------------------------------
(* decodeVersionsMetadata.  d is the containing directory.                 *)

DecodesLoose(b) ==
  /\ b.kind = "index"
  /\ Len(b.ents) >= 2
  /\ b.cur \in DOMAIN b.ents
  /\ LiveNumbers(b.ents) # {}

CurrentDeleted(b) == ~IsLive(b.ents, b.cur)

Decodes(b, d) ==
  /\ DecodesLoose(b)
  /\ ~CurrentDeleted(b)
  /\ b.ents[b.cur].dir = d

(* A deletion receipt: the index of a revision that is itself tombstoned.  *)
IsReceipt(b) == DecodesLoose(b) /\ CurrentDeleted(b)

-----------------------------------------------------------------------------
(* versionsMetadataMonotonicallyPrecedes, sameVersionsMetadata and         *)
(* revisionMetadataAtLeast.                                                *)

(* Mutant: compare the high-water marks only.                              *)
MutantEntsPrecede(before, after) == Len(before) <= Len(after)

EntsPrecede(before, after) ==
  /\ Len(before) <= Len(after)
  /\ \A n \in DOMAIN before :
       \/ before[n] = after[n]
       \/ before[n].dir # NoDir /\ after[n].dir = NoDir

Precedes(observed, canonical) ==
  /\ observed.chain = canonical.chain
  /\ EntsPrecede(observed.ents, canonical.ents)

SameIndex(left, right) ==
  /\ left.chain = right.chain
  /\ left.cur = right.cur
  /\ left.ents = right.ents

AtLeast(actual, expected, d) ==
  Decodes(actual, d) /\ (SameIndex(actual, expected) \/ Precedes(expected, actual))

-----------------------------------------------------------------------------
(* The transitions a writer publishes.                                     *)

(* Mutant: the next number is the number of live revisions plus one.       *)
MutantAppendEntry(ents, cand) ==
  Append(SelectSeq(ents, LAMBDA e : e.dir # NoDir), LiveEntry(cand))

(* nextVersionsMetadata: announce cand as the next integer.                *)
AppendEntry(ents, cand) == Append(ents, LiveEntry(cand))

(* The loop of tombstoneLinkedRevision: a tombstone keeps its first time.  *)
TombstoneAt(ents, n, at) ==
  IF ents[n].dir = NoDir THEN ents ELSE [ents EXCEPT ![n] = TombstoneEntry(at)]

(* revisionCandidateCleanupClaimBody: the other top-level field order.     *)
ClaimBody(b) == [b EXCEPT !.alt = ~b.alt]
=============================================================================
