------------------------- MODULE RevisionChainProofs -------------------------
(***************************************************************************)
(* Type correctness of RevisionChain, and that no write takes an index     *)
(* back (MonotoneReplica), for any number of clients, directories,         *)
(* deletion times, lost requests and cleanup claims.                       *)
(*                                                                         *)
(* Every write of an index is conditional on the contents it replaces, so  *)
(* what is needed of the other clients is nothing: the strengthening       *)
(* relates, at every control point, the local variables of one client to   *)
(* each other (LocalOK), and a commit request that may still arrive to the *)
(* contents it is conditional on (LateOK).                                 *)
(***************************************************************************)
EXTENDS RevisionChain, SequenceTheorems, WellFoundedInduction, TLAPS

-----------------------------------------------------------------------------
(* Least and greatest elements of sets of revision numbers.                *)

NatLess == {ss \in Nat \X Nat : ss[1] < ss[2]}

(* The order of the natural numbers, as a relation, is well-founded.       *)
LEMMA NatLessWellFounded == IsWellFoundedOn(NatLess, Nat)
  BY NatLessThanWellFounded, Zenon DEF OpToRel, NatLess

(* A set of revision numbers has a least element: the CHOOSE of NextLive   *)
(* and NextReplica has something to choose.                                *)
LEMMA LeastExists ==
  ASSUME NEW T, T \subseteq Nat, T # {}
  PROVE  \E x \in T : \A y \in T : x <= y
<1>1. PICK x \in T : \A y \in T : ~ (<<y, x>> \in NatLess)
  BY NatLessWellFounded, WFMin
<1>2. ASSUME NEW y \in T PROVE x <= y
  <2>1. y < x => <<y, x>> \in NatLess
    BY Zenon DEF NatLess
  <2> QED
    BY <1>1, <2>1
<1> QED
  BY <1>2

(* A bounded set of revision numbers has a greatest element: so has that   *)
(* of LatestOf and NextWitness.                                            *)
LEMMA GreatestExists ==
  ASSUME NEW T, T \subseteq Nat, T # {}, NEW bound \in Nat, \A x \in T : x <= bound
  PROVE  \E x \in T : \A y \in T : y <= x
<1> DEFINE S == {bound - x : x \in T}
<1>1. S \subseteq Nat
  <2> SUFFICES ASSUME NEW x \in T PROVE bound - x \in Nat
    BY Zenon
  <2> QED
    OBVIOUS
<1>2. S # {}
  BY Zenon
<1> HIDE DEF S
<1>3. PICK s \in S : \A t \in S : s <= t
  BY <1>1, <1>2, LeastExists
<1>4. PICK x \in T : s = bound - x
  BY DEF S
<1>5. ASSUME NEW y \in T PROVE y <= x
  <2>1. bound - y \in S
    BY Zenon DEF S
  <2> QED
    BY <1>3, <1>4, <2>1
<1> QED
  BY <1>5

-----------------------------------------------------------------------------
(* Entries.                                                                *)

(* An index has one entry for every assigned number, from 1.               *)
LEMMA EntryTypes ==
  ASSUME NEW ents \in Seq(Entries)
  PROVE  /\ Len(ents) \in Nat
         /\ DOMAIN ents = 1..Len(ents)
         /\ LiveNumbers(ents) \subseteq 1..Len(ents)
         /\ \A n \in DOMAIN ents : ents[n] \in Entries
         /\ \A n \in LiveNumbers(ents) : IsLive(ents, n) /\ ents[n].dir \in Dirs
<1>1. Len(ents) \in Nat /\ DOMAIN ents = 1..Len(ents)
  BY LenProperties
<1>2. \A n \in DOMAIN ents : ents[n] \in Entries
  BY <1>1, ElementOfSeq
<1> QED
  BY <1>1, <1>2 DEF LiveNumbers, IsLive, Entries

(* LatestOf is the greatest live number, or 0 when nothing is live.        *)
LEMMA LatestIsLive ==
  ASSUME NEW ents \in Seq(Entries)
  PROVE  /\ LatestOf(ents) \in Nat
         /\ LiveNumbers(ents) # {} =>
              /\ LatestOf(ents) \in LiveNumbers(ents)
              /\ \A n \in LiveNumbers(ents) : n <= LatestOf(ents)
<1>1. CASE LiveNumbers(ents) = {}
  BY <1>1 DEF LatestOf
<1>2. CASE LiveNumbers(ents) # {}
  <2>1. LiveNumbers(ents) \subseteq Nat /\ \A n \in LiveNumbers(ents) : n <= Len(ents)
    BY EntryTypes
  <2>2. \E n \in LiveNumbers(ents) : \A k \in LiveNumbers(ents) : k <= n
    BY <1>2, <2>1, EntryTypes, GreatestExists
  <2>3. /\ LatestOf(ents) \in LiveNumbers(ents)
        /\ \A k \in LiveNumbers(ents) : k <= LatestOf(ents)
    BY <1>2, <2>2 DEF LatestOf
  <2> QED
    BY <2>1, <2>3
<1> QED
  BY <1>1, <1>2

(* NextLive and NextWitness return a live number, or 0 when there is none. *)
LEMMA NextLiveIsLive ==
  ASSUME NEW ents \in Seq(Entries), NEW n \in Nat
  PROVE  /\ NextLive(ents, n) \in Nat
         /\ NextLive(ents, n) # 0 => NextLive(ents, n) \in LiveNumbers(ents)
<1> DEFINE above == {k \in LiveNumbers(ents) : k > n}
<1>1. CASE above = {}
  BY <1>1 DEF NextLive
<1>2. CASE above # {}
  <2>1. above \subseteq Nat
    BY EntryTypes
  <2>2. \E k \in above : \A j \in above : k <= j
    BY <1>2, <2>1, LeastExists
  <2>3. NextLive(ents, n) \in above
    BY <1>2, <2>2 DEF NextLive
  <2> QED
    BY <2>1, <2>3
<1> QED
  BY <1>1, <1>2

LEMMA NextWitnessIsLive ==
  ASSUME NEW ents \in Seq(Entries), NEW n \in Nat, NEW skip
  PROVE  /\ NextWitness(ents, n, skip) \in Nat
         /\ NextWitness(ents, n, skip) # 0 =>
              NextWitness(ents, n, skip) \in LiveNumbers(ents)
<1> DEFINE below == {k \in LiveNumbers(ents) \ {skip} : k < n}
<1>1. CASE below = {}
  BY <1>1 DEF NextWitness
<1>2. CASE below # {}
  <2>1. below \subseteq Nat /\ \A k \in below : k <= n
    BY EntryTypes
  <2>2. \E k \in below : \A j \in below : j <= k
    BY <1>2, <2>1, GreatestExists
  <2>3. NextWitness(ents, n, skip) \in below
    BY <1>2, <2>2 DEF NextWitness
  <2> QED
    BY <2>1, <2>3
<1> QED
  BY <1>1, <1>2

-----------------------------------------------------------------------------
(* versionsMetadataMonotonicallyPrecedes is a partial order on histories,  *)
(* and everything a writer publishes moves up in it.                       *)

(* An index precedes itself: publishing it again takes nothing back.       *)
LEMMA PrecedeReflexive ==
  ASSUME NEW ents \in Seq(Entries)
  PROVE  EntsPrecede(ents, ents)
BY EntryTypes DEF EntsPrecede

(* Catching up in several steps is catching up.                            *)
THEOREM PrecedeTransitive ==
  ASSUME NEW a \in Seq(Entries), NEW b \in Seq(Entries), NEW c \in Seq(Entries),
         EntsPrecede(a, b), EntsPrecede(b, c)
  PROVE  EntsPrecede(a, c)
<1>1. Len(a) <= Len(c) /\ \A n \in DOMAIN a : n \in DOMAIN b /\ n \in DOMAIN c
  BY EntryTypes DEF EntsPrecede
<1>2. ASSUME NEW n \in DOMAIN a
      PROVE  a[n] = c[n] \/ (a[n].dir # NoDir /\ c[n].dir = NoDir)
  <2>1. a[n] = b[n] \/ (a[n].dir # NoDir /\ b[n].dir = NoDir)
    BY DEF EntsPrecede
  <2>2. b[n] = c[n] \/ (b[n].dir # NoDir /\ c[n].dir = NoDir)
    BY <1>1 DEF EntsPrecede
  <2> QED
    BY <2>1, <2>2
<1> QED
  BY <1>1, <1>2 DEF EntsPrecede

(* Two replicas of which each may catch up with the other are equal: a     *)
(* write accepted by the check changes nothing or can never be undone by   *)
(* another one that passes it.                                             *)
THEOREM PrecedeAntisymmetric ==
  ASSUME NEW a \in Seq(Entries), NEW b \in Seq(Entries),
         EntsPrecede(a, b), EntsPrecede(b, a)
  PROVE  a = b
<1>1. Len(a) = Len(b) /\ DOMAIN a = 1..Len(a) /\ DOMAIN b = 1..Len(b)
  BY EntryTypes DEF EntsPrecede
<1>2. \A n \in 1..Len(a) : a[n] = b[n]
  BY <1>1 DEF EntsPrecede
<1> QED
  BY <1>1, <1>2, SeqEqual

(* nextVersionsMetadata: announcing a revision preserves every entry.      *)
LEMMA AppendPrecedes ==
  ASSUME NEW ents \in Seq(Entries), NEW d \in Dirs
  PROVE  /\ AppendEntry(ents, d) \in Seq(Entries)
         /\ Len(AppendEntry(ents, d)) = Len(ents) + 1
         /\ EntsPrecede(ents, AppendEntry(ents, d))
<1>1. LiveEntry(d) \in Entries
  BY DEF LiveEntry, Entries
<1>2. /\ AppendEntry(ents, d) \in Seq(Entries)
      /\ Len(AppendEntry(ents, d)) = Len(ents) + 1
      /\ \A n \in 1..Len(ents) : AppendEntry(ents, d)[n] = ents[n]
  BY <1>1, AppendProperties DEF AppendEntry
<1> QED
  BY <1>2, EntryTypes DEF EntsPrecede

(* A tombstone keeps every other entry and does not re-date an older one.  *)
LEMMA TombstonePrecedes ==
  ASSUME NEW ents \in Seq(Entries), NEW n \in DOMAIN ents, NEW at \in Stamps
  PROVE  /\ TombstoneAt(ents, n, at) \in Seq(Entries)
         /\ EntsPrecede(ents, TombstoneAt(ents, n, at))
         /\ ~IsLive(TombstoneAt(ents, n, at), n)
<1>1. CASE ents[n].dir = NoDir
  BY <1>1, PrecedeReflexive DEF TombstoneAt, IsLive
<1>2. CASE ents[n].dir # NoDir
  <2>1. TombstoneEntry(at) \in Entries
    BY DEF TombstoneEntry, Entries
  <2>2. n \in 1..Len(ents)
    BY EntryTypes
  <2> DEFINE new == [ents EXCEPT ![n] = TombstoneEntry(at)]
  <2>3. /\ new \in Seq(Entries)
        /\ Len(new) = Len(ents)
        /\ \A j \in 1..Len(ents) : new[j] = IF j = n THEN TombstoneEntry(at) ELSE ents[j]
    BY <2>1, <2>2, ExceptSeq
  <2>4. TombstoneAt(ents, n, at) = new
    BY <1>2 DEF TombstoneAt
  <2>5. new[n].dir = NoDir
    BY <2>2, <2>3 DEF TombstoneEntry
  <2> HIDE DEF new
  <2>6. EntsPrecede(ents, new)
    BY <1>2, <2>2, <2>3, <2>5, EntryTypes DEF EntsPrecede
  <2> QED
    BY <2>3, <2>4, <2>5, <2>6 DEF IsLive
<1> QED
  BY <1>1, <1>2

-----------------------------------------------------------------------------
(* Bodies.                                                                 *)

(* What encodeVersionsMetadata and the reservations write is a body.       *)
LEMMA BodyTypes ==
  /\ Absent \in Bodies /\ Absent.kind = "absent"
  /\ Reserved \in Bodies /\ Reserved.kind = "reserved"
  /\ \A chain \in Dirs \cup {NoDir}, n \in Nat, k \in Nat :
        FinalReservation(chain, n, k) \in Bodies
  /\ \A chain \in Dirs \cup {NoDir}, n \in Nat, ents \in Seq(Entries) :
        IndexBody(chain, n, ents) \in Bodies
  /\ \A b \in Bodies : ClaimBody(b) \in Bodies
<1>1. << >> \in Seq(Entries)
  BY EmptySeq
<1>2. Absent \in Bodies /\ Absent.kind = "absent"
  BY <1>1 DEF Absent, Bodies
<1>3. Reserved \in Bodies /\ Reserved.kind = "reserved"
  BY <1>1 DEF Absent, Reserved, Bodies
<1>4. \A chain \in Dirs \cup {NoDir}, n \in Nat, k \in Nat :
        FinalReservation(chain, n, k) \in Bodies
  BY <1>1 DEF FinalReservation, Bodies
<1>5. \A chain \in Dirs \cup {NoDir}, n \in Nat, ents \in Seq(Entries) :
        IndexBody(chain, n, ents) \in Bodies
  BY LenProperties DEF IndexBody, Bodies
<1>6. \A b \in Bodies : ClaimBody(b) \in Bodies
  BY DEF ClaimBody, Bodies
<1> QED
  BY <1>2, <1>3, <1>4, <1>5, <1>6

(* decodeVersionsMetadata accepts only indexes in which the containing     *)
(* directory is live at current_revision; so some revision is.             *)
LEMMA DecodesParts ==
  ASSUME NEW b \in Bodies, NEW d \in Dirs \cup {NoDir}, Decodes(b, d)
  PROVE  /\ d \in Dirs
         /\ b.kind = "index"
         /\ b # Absent
         /\ b.ents \in Seq(Entries)
         /\ IsLive(b.ents, b.cur)
         /\ b.cur \in LiveNumbers(b.ents)
         /\ LatestOf(b.ents) \in LiveNumbers(b.ents)
         /\ b.ents[LatestOf(b.ents)].dir \in Dirs
<1>1. b.ents \in Seq(Entries) /\ b.kind = "index" /\ b.cur \in DOMAIN b.ents
  BY DEF Bodies, Decodes, DecodesLoose
<1>2. b.ents[b.cur].dir # NoDir /\ b.ents[b.cur].dir = d
  BY DEF Decodes, CurrentDeleted, IsLive
<1>3. b.cur \in LiveNumbers(b.ents) /\ IsLive(b.ents, b.cur)
  BY <1>1, <1>2 DEF LiveNumbers, IsLive
<1>4. LatestOf(b.ents) \in LiveNumbers(b.ents)
  BY <1>1, <1>3, LatestIsLive
<1>5. d \in Dirs
  BY <1>2
<1>6. b # Absent
  BY <1>1, BodyTypes
<1> QED
  BY <1>1, <1>3, <1>4, <1>5, <1>6, EntryTypes

(* revisionCandidateCleanupClaimBody: a claim changes the bytes, and with  *)
(* them the ETag, but nothing a reader decodes; and a second claim, like   *)
(* any canonical rewrite, restores the first bytes and the first ETag.     *)
THEOREM ClaimIsUndoable ==
  ASSUME NEW b \in Bodies
  PROVE  /\ ClaimBody(b) # b
         /\ SameIndex(ClaimBody(b), b)
         /\ \A d \in Dirs : Decodes(ClaimBody(b), d) <=> Decodes(b, d)
         /\ ClaimBody(ClaimBody(b)) = b
<1>1. /\ ClaimBody(b) \in Bodies
      /\ ClaimBody(b).alt = ~b.alt
      /\ ClaimBody(b).kind = b.kind /\ ClaimBody(b).chain = b.chain
      /\ ClaimBody(b).cur = b.cur /\ ClaimBody(b).ents = b.ents
  BY DEF ClaimBody, Bodies
<1>2. b.alt \in BOOLEAN
  BY DEF Bodies
<1>3. ClaimBody(b) # b
  BY <1>1, <1>2
<1>4. ClaimBody(ClaimBody(b)) = b
  BY <1>2 DEF ClaimBody, Bodies
<1> QED
  BY <1>1, <1>3, <1>4 DEF SameIndex, Decodes, DecodesLoose, CurrentDeleted

-----------------------------------------------------------------------------
(* The inductive invariant.                                                *)

Preparing  == {"reload", "page", "first", "follow", "fixRead", "fixReceipt", "fixWitness", "fixPut"}
Promoting  == {"promMarker", "promPage", "promVerify"}
Pending    == {"payload", "commit", "recRead", "recCand", "recRetry", "recReread", "recClaim"}
Appending  == Pending \cup {"plan", "rbPayload", "rbMarker", "newIndex"}
Publishing == {"propRead", "propPut", "propCheck", "propMember", "propMake"}
Deleting   == {"reserve", "read", "survivor", "tombstone", "receipt", "rmPayload", "rmMarker",
               "annRead", "annRefine", "annLoad", "annClaim"}

USE DEF Preparing, Promoting, Pending, Appending, Publishing, Deleting

(* A document this client loaded has no index or one that decodes.         *)
DocOK(doc) == doc.vers # Absent => Decodes(doc.vers, doc.dir)

(* The index the target had when its deletion read it belongs to its chain.*)
ObservedOK(m) == m.obs.kind = "index" => m.obs.chain = m.tdoc.marker.chain

(* A deletion that publishes an index in which its target is a tombstone.  *)
TombstonedOK(m) ==
  /\ m.meta.chain = m.tdoc.marker.chain
  /\ ~IsLive(m.meta.ents, m.tdoc.marker.num)

(* Where a client at label p with locals m may be.                         *)
DocsOK(p, m) ==
  /\ DocOK(m.tdoc) /\ DocOK(m.ldoc)
  /\ p \in Preparing => m.tdoc.dir \in Dirs /\ m.ldoc.dir \in Dirs
  /\ p \in Deleting => m.tdoc.dir \in Dirs
  /\ p \in {"annRead", "annRefine", "annLoad"} => m.tdoc.marker.prev # NoDir
  /\ p = "first" => m.tdoc.marker.num = 2
  /\ p = "fixReceipt" => m.rdoc.marker.prev # NoDir
  /\ p \in {"fixWitness", "survivor", "annRefine"} \cup Publishing => IsLive(m.meta.ents, m.i)

ReturnsOK(p, m) ==
  /\ p \in {"fixRead", "fixReceipt", "fixWitness"} => m.ret = "reload"
  /\ p \in {"page", "fixPut"} =>
       /\ m.ret \in {"reload", "first", "follow"}
       /\ m.ret = "first" => m.tdoc.marker.num = 2
       /\ m.ret = "follow" => m.op = "append" /\ m.ldoc.vers # Absent
  /\ p \in Promoting =>
       \/ m.ret = "first" /\ m.tdoc.dir \in Dirs /\ m.ldoc.dir \in Dirs
       \/ m.ret = "plan" /\ m.op = "append" /\ m.ldoc.dir \in Dirs
       \/ m.ret = "newIndex" /\ m.op = "append"

AppendOK(p, m) ==
  /\ p \in Appending => m.op = "append"
  /\ p = "plan" => m.ldoc.dir \in Dirs
  /\ p \in Pending \cup {"rbPayload", "rbMarker"} => m.cand \in Dirs
  /\ p \in Pending => m.ser \in Dirs
  /\ p \in {"payload", "commit"} => (m.ldoc.vers # Absent => Precedes(m.ldoc.vers, m.meta))
  /\ p = "propPut" => Precedes(m.rdoc.vers, m.meta)

DeleteOK(p, m) ==
  /\ p \in {"survivor", "tombstone", "receipt"} => ObservedOK(m)
  /\ p = "follow" => m.ldoc.vers # Absent
  /\ p = "follow" /\ m.op = "delete" => ObservedOK(m) /\ m.ldoc.vers.chain = m.tdoc.marker.chain
  /\ p = "tombstone" => m.ldoc.vers # Absent /\ m.ldoc.vers.chain = m.tdoc.marker.chain
  /\ p = "receipt" => TombstonedOK(m)
  /\ p \in {"read", "survivor", "tombstone"} => m.op = "delete"
  /\ p \in Publishing \cup {"verify"} =>
       \/ m.op = "append"
       \/ m.op = "delete" /\ m.tdoc.dir \in Dirs /\ ObservedOK(m) /\ TombstonedOK(m)

LocalOK(p, m) == DocsOK(p, m) /\ ReturnsOK(p, m) /\ AppendOK(p, m) /\ DeleteOK(p, m)

(* before may be replaced by after.                                        *)
MayReplace(before, after) ==
  before.kind = "index" =>
    /\ after.kind \in {"index", "final"}
    /\ after.chain = before.chain
    /\ after.kind = "index" /\ ~CurrentDeleted(after) => EntsPrecede(before.ents, after.ents)

LateOK == \A put \in late : MayReplace(put.match, put.body)

(* The inductive invariant.                                                *)
Inv ==
  /\ TypeOK
  /\ \A c \in Clients : LocalOK(pc[c], mem[c])
  /\ LateOK

-----------------------------------------------------------------------------
(* What a step of one client has to do.                                    *)

StoreOK ==
  /\ marker \in [Dirs -> Markers]
  /\ payload \in [Dirs -> Payloads]
  /\ vers \in [Dirs -> Bodies]
  /\ late \subseteq LatePuts
  /\ used \subseteq Dirs
  /\ lost \in 0..MaxLost
  /\ claims \in 0..MaxClaims
  /\ cleaned \subseteq Dirs
  /\ acked \subseteq Dirs
  /\ doomed \subseteq Dirs
  /\ LateOK

Moves(c) == \E p \in Labels, m \in Mems : LocalOK(p, m) /\ Goto(c, p, m)
Replaces == \A d \in Dirs : MayReplace(vers[d], vers'[d])
StepOK(c) == Moves(c) /\ StoreOK' /\ Replaces

(* A step that does all that keeps the invariant.                          *)
LEMMA StepKeepsInv ==
  ASSUME Inv, NEW c \in Clients, StepOK(c)
  PROVE  Inv' /\ Replaces
<1>1. PICK p \in Labels, m \in Mems : LocalOK(p, m) /\ Goto(c, p, m)
  BY DEF StepOK, Moves
<1>2. pc \in [Clients -> Labels] /\ mem \in [Clients -> Mems]
  BY DEF Inv, TypeOK
<1>3. pc' \in [Clients -> Labels] /\ mem' \in [Clients -> Mems]
  BY <1>1, <1>2 DEF Goto
<1>4. TypeOK'
  BY <1>3 DEF StepOK, StoreOK, TypeOK
<1>5. ASSUME NEW e \in Clients PROVE LocalOK(pc'[e], mem'[e])
  <2>1. CASE e = c
    <3>1. pc'[c] = p /\ mem'[c] = m
      BY <1>1, <1>2 DEF Goto
    <3> QED
      BY <1>1, <2>1, <3>1
  <2>2. CASE e # c
    <3>1. pc'[e] = pc[e] /\ mem'[e] = mem[e]
      BY <1>1, <1>2, <2>2 DEF Goto
    <3> QED
      BY <3>1 DEF Inv
  <2> QED
    BY <2>1, <2>2
<1> QED
  BY <1>4, <1>5 DEF StepOK, StoreOK, Inv

(* Types of the parts of local variables and of what is loaded.            *)
LEMMA DocFields ==
  ASSUME NEW doc \in Docs
  PROVE  /\ doc.dir \in Dirs \cup {NoDir}
         /\ doc.marker \in Markers
         /\ doc.page \in Payloads
         /\ doc.vers \in Bodies
         /\ doc.marker.chain \in Dirs \cup {NoDir}
         /\ doc.marker.num \in Nat
         /\ doc.marker.prev \in Dirs \cup {NoDir}
         /\ doc.marker.num >= 2 => doc.marker.prev \in Dirs
BY DEF Docs, Markers, Descriptors

LEMMA BodyFields ==
  ASSUME NEW b \in Bodies
  PROVE  /\ b.chain \in Dirs \cup {NoDir}
         /\ b.cur \in Nat
         /\ b.last \in Nat
         /\ b.ents \in Seq(Entries)
BY DEF Bodies

LEMMA MemFields ==
  ASSUME NEW m \in Mems
  PROVE  /\ m.tdoc \in Docs /\ m.ldoc \in Docs /\ m.rdoc \in Docs
         /\ m.cand \in Dirs \cup {NoDir} /\ m.ser \in Dirs \cup {NoDir}
         /\ m.meta \in Bodies /\ m.obs \in Bodies
         /\ m.i \in Nat /\ m.ret \in Labels
         /\ m.op \in {"none", "append", "delete"}
BY DEF Mems

LEMMA NoMemOK ==
  /\ NoMem \in Mems
  /\ NoDoc \in Docs
  /\ DocOK(NoDoc)
  /\ NoMem.tdoc = NoDoc /\ NoMem.ldoc = NoDoc
<1>1. NoMarker \in Markers
  BY DEF NoMarker, Markers, Descriptors
<1>2. NoDoc \in Docs
  BY <1>1, BodyTypes DEF NoDoc, Docs, Payloads
<1>3. NoMem \in Mems
  BY <1>2, BodyTypes DEF NoMem, Mems, Labels
<1> QED
  BY <1>2, <1>3 DEF NoMem, NoDoc, DocOK

(* A client at a label, before it moves.                                   *)
LEMMA Current ==
  ASSUME Inv, NEW c \in Clients, NEW p, At(c, p)
  PROVE  mem[c] \in Mems /\ LocalOK(p, mem[c])
BY DEF Inv, TypeOK, At

(* Loading a directory that loads gives a document that is in order.       *)
LEMMA LoadOK ==
  ASSUME Inv, NEW d \in Dirs
  PROVE  /\ Load(d) \in Docs
         /\ Load(d).dir = d
         /\ Load(d).marker = marker[d]
         /\ Load(d).vers = vers[d]
         /\ vers[d] \in Bodies
         /\ Loads(d) => DocOK(Load(d))
BY DEF Inv, TypeOK, Load, Docs, Loads, DocOK

(* A live entry of an index names a directory.                             *)
LEMMA LiveDir ==
  ASSUME NEW b \in Bodies, NEW n, IsLive(b.ents, n)
  PROVE  b.ents[n].dir \in Dirs /\ n \in LiveNumbers(b.ents) /\ n \in Nat
BY BodyFields, EntryTypes DEF IsLive, LiveNumbers

-----------------------------------------------------------------------------
(* Steps that write nothing, and steps that write one index.               *)

LEMMA ReplaceReflexive ==
  ASSUME NEW b \in Bodies
  PROVE  MayReplace(b, b)
BY BodyFields, PrecedeReflexive DEF MayReplace

LEMMA StoreKept ==
  ASSUME Inv
  PROVE  /\ StoreOK
         /\ vers' = vers => Replaces
<1>1. StoreOK
  BY DEF Inv, TypeOK, StoreOK
<1>2. \A d \in Dirs : vers[d] \in Bodies
  BY DEF Inv, TypeOK
<1> QED
  BY <1>1, <1>2, ReplaceReflexive DEF Replaces

LEMMA ReadStep ==
  ASSUME Inv, NEW c \in Clients, Moves(c), Reads
  PROVE  StepOK(c)
<1>1. StoreOK' /\ vers' = vers
  BY StoreKept DEF Reads, store, StoreOK, LateOK
<1> QED
  BY <1>1, StoreKept DEF StepOK

(* A conditional write that may replace what it is conditional on.         *)
LEMMA PutKeeps ==
  ASSUME Inv, NEW d, NEW match, NEW body \in Bodies, PutVers(d, match, body),
         MayReplace(match, body)
  PROVE  vers' \in [Dirs -> Bodies] /\ Replaces
<1>1. vers \in [Dirs -> Bodies]
  BY DEF Inv, TypeOK
<1>2. vers' \in [Dirs -> Bodies]
  BY <1>1 DEF PutVers
<1>3. ASSUME NEW e \in Dirs PROVE MayReplace(vers[e], vers'[e])
  <2>1. CASE e = d
    BY <1>1, <2>1 DEF PutVers
  <2>2. CASE e # d
    BY <1>1, <2>2, ReplaceReflexive DEF PutVers
  <2> QED
    BY <2>1, <2>2
<1> QED
  BY <1>2, <1>3 DEF Replaces

(* Creating an index that must not exist replaces nothing.                 *)
LEMMA CreateOK ==
  ASSUME NEW body
  PROVE  MayReplace(Absent, body) /\ MayReplace(Reserved, body)
BY BodyTypes DEF MayReplace

(* A step that writes one index and nothing else.                          *)
LEMMA PutStep ==
  ASSUME Inv, NEW c \in Clients, Moves(c), vers' \in [Dirs -> Bodies], Replaces,
         UNCHANGED <<marker, payload, late, used, lost, claims, cleaned, acked, doomed>>
  PROVE  StepOK(c)
BY StoreKept DEF StepOK, StoreOK, LateOK

-----------------------------------------------------------------------------
(* Shared procedures of the preparation.                                   *)

LEMMA GotoMoves ==
  ASSUME NEW c, NEW p \in Labels, NEW m \in Mems, LocalOK(p, m), Goto(c, p, m)
  PROVE  Moves(c)
BY DEF Moves

(* An operation that ends.                                                 *)
LEMMA StopMoves ==
  ASSUME NEW c, Stop(c)
  PROVE  Moves(c)
<1>1. LocalOK("idle", NoMem)
  BY NoMemOK DEF LocalOK, DocsOK, ReturnsOK, AppendOK, DeleteOK
<1> QED
  BY <1>1, NoMemOK, GotoMoves DEF Stop, Labels

LEMMA PreparedMoves ==
  ASSUME NEW c, NEW m \in Mems, DocOK(m.ldoc), m.ldoc.dir \in Dirs, Prepared(c, m)
  PROVE  Moves(c)
<1> DEFINE n == [NoMem EXCEPT !.op = "append", !.ldoc = m.ldoc]
<1>1. /\ n \in Mems
      /\ n.op = "append" /\ n.ldoc = m.ldoc /\ n.tdoc = NoDoc
  BY NoMemOK, MemFields DEF Mems
<1>2. CASE Goto(c, "plan", n)
  <2>1. LocalOK("plan", n)
    BY <1>1, NoMemOK DEF LocalOK, DocsOK, ReturnsOK, AppendOK, DeleteOK
  <2> HIDE DEF n
  <2> QED
    BY <1>1, <1>2, <2>1, GotoMoves DEF Labels
<1>3. CASE Promote(c, n, m.tdoc, "plan")
  <2> DEFINE q == [n EXCEPT !.rdoc = m.tdoc, !.ret = "plan"]
  <2>1. /\ q \in Mems
        /\ q.op = "append" /\ q.ldoc = m.ldoc /\ q.tdoc = NoDoc /\ q.ret = "plan"
    BY <1>1, MemFields DEF Mems, Labels
  <2>2. LocalOK("promMarker", q)
    BY <2>1, NoMemOK DEF LocalOK, DocsOK, ReturnsOK, AppendOK, DeleteOK
  <2>3. Goto(c, "promMarker", q)
    BY <1>3 DEF Promote
  <2> HIDE DEF q
  <2> QED
    BY <2>1, <2>2, <2>3, GotoMoves DEF Labels
<1> QED
  BY <1>2, <1>3 DEF Prepared

LEMMA OnwardMoves ==
  ASSUME NEW c, NEW m \in Mems, DocOK(m.tdoc), DocOK(m.ldoc),
         m.tdoc.dir \in Dirs, m.ldoc.dir \in Dirs, Onward(c, m)
  PROVE  Moves(c)
<1>1. CASE Goto(c, "read", [NoMem EXCEPT !.op = "delete", !.tdoc = m.tdoc])
  <2> DEFINE n == [NoMem EXCEPT !.op = "delete", !.tdoc = m.tdoc]
  <2>1. n \in Mems /\ n.tdoc = m.tdoc /\ n.ldoc = NoDoc /\ n.op = "delete"
    BY NoMemOK, MemFields DEF Mems
  <2>2. LocalOK("read", n)
    BY <2>1, NoMemOK DEF LocalOK, DocsOK, ReturnsOK, AppendOK, DeleteOK
  <2> HIDE DEF n
  <2> QED
    BY <1>1, <2>1, <2>2, GotoMoves DEF Labels, n
<1>2. CASE m.op = "append" /\ ~AtLatest(m.ldoc) /\ Goto(c, "follow", m)
  <2>1. m.ldoc.vers # Absent
    BY <1>2 DEF AtLatest
  <2>2. LocalOK("follow", m)
    BY <1>2, <2>1 DEF LocalOK, DocsOK, ReturnsOK, AppendOK, DeleteOK
  <2> QED
    BY <1>2, <2>2, GotoMoves DEF Labels
<1> QED
  BY <1>1, <1>2, PreparedMoves DEF Onward

LEMMA LoadedMoves ==
  ASSUME NEW c, NEW m0 \in Mems, NEW doc \in Docs, DocOK(doc), doc.dir \in Dirs,
         Loaded(c, m0, doc)
  PROVE  Moves(c)
<1> DEFINE target == IF m0.op = "append" THEN doc ELSE [doc EXCEPT !.page = m0.tdoc.page]
           m == [m0 EXCEPT !.tdoc = target, !.ldoc = doc, !.rdoc = doc, !.ret = "reload"]
<1>0. /\ target \in Docs /\ target.dir = doc.dir /\ target.marker = doc.marker
      /\ target.vers = doc.vers /\ DocOK(target)
  <2>1. m0.tdoc.page \in Payloads
    BY MemFields, DocFields
  <2> QED
    BY <2>1 DEF Docs, DocOK
<1> HIDE DEF target
<1>1. /\ m \in Mems
      /\ m.tdoc = target /\ m.ldoc = doc /\ m.rdoc = doc /\ m.ret = "reload"
  BY <1>0 DEF Mems, Labels
<1>2. /\ LocalOK("fixRead", m)
      /\ LocalOK("page", m)
      /\ ChecksFirst(doc) => LocalOK("first", m)
  BY <1>0, <1>1 DEF LocalOK, DocsOK, ReturnsOK, AppendOK, DeleteOK, ChecksFirst
<1>3. \/ Goto(c, "fixRead", m)
      \/ Goto(c, "page", m)
      \/ ChecksFirst(doc) /\ Goto(c, "first", m)
      \/ Onward(c, m)
  BY DEF Loaded, target
<1> HIDE DEF m
<1> QED
  BY <1>0, <1>1, <1>2, <1>3, GotoMoves, OnwardMoves DEF Labels

-----------------------------------------------------------------------------
(* Preparation: prepareRevisionTarget and its repairs.                     *)

LEMMA AppendStartOK ==
  ASSUME Inv, NEW c \in Clients, NEW d \in Dirs, AppendStart(c, d)
  PROVE  StepOK(c)
<1> DEFINE n == [NoMem EXCEPT !.op = "append"]
<1>1. n \in Mems
  BY NoMemOK DEF Mems
<1>2. /\ Load(d) \in Docs /\ DocOK(Load(d)) /\ Load(d).dir \in Dirs
      /\ Loaded(c, n, Load(d)) /\ Reads
  BY LoadOK DEF AppendStart
<1> HIDE DEF n
<1> QED
  BY <1>1, <1>2, LoadedMoves, ReadStep

LEMMA ReloadOK ==
  ASSUME Inv, NEW c \in Clients, Reload(c)
  PROVE  StepOK(c)
<1>1. mem[c] \in Mems /\ LocalOK("reload", mem[c])
  BY Current DEF Reload
<1>2. mem[c].tdoc.dir \in Dirs
  BY <1>1 DEF LocalOK, DocsOK
<1> DEFINE doc == Load(mem[c].tdoc.dir)
<1>3. /\ doc \in Docs /\ DocOK(doc) /\ doc.dir \in Dirs
      /\ Loaded(c, mem[c], doc) /\ Reads
  BY <1>2, LoadOK DEF Reload
<1> HIDE DEF doc
<1> QED
  BY <1>1, <1>3, LoadedMoves, ReadStep

LEMMA RepairPageOK ==
  ASSUME Inv, NEW c \in Clients, RepairPage(c)
  PROVE  StepOK(c)
<1> DEFINE m == mem[c]
<1>1. m \in Mems /\ LocalOK("page", m)
  BY Current DEF RepairPage
<1>2. m.ret \in {"reload", "first", "follow"} /\ LocalOK(m.ret, m)
  BY <1>1 DEF LocalOK, DocsOK, ReturnsOK, AppendOK, DeleteOK
<1>3. Moves(c)
  BY <1>1, <1>2, GotoMoves DEF RepairPage, Labels
<1>4. payload' \in [Dirs -> Payloads]
  BY DEF RepairPage, Inv, TypeOK, Payloads
<1>5. StoreOK' /\ Replaces
  BY <1>4, StoreKept DEF RepairPage, StoreOK, LateOK
<1> QED
  BY <1>3, <1>5 DEF StepOK

LEMMA FirstOK ==
  ASSUME Inv, NEW c \in Clients, First(c)
  PROVE  StepOK(c)
<1> DEFINE m == mem[c]
           d == m.tdoc.marker.prev
           doc == Load(d)
           q == [m EXCEPT !.rdoc = doc, !.ret = "first"]
<1>1. m \in Mems /\ LocalOK("first", m)
  BY Current DEF First
<1>2. d \in Dirs
  BY <1>1, MemFields, DocFields DEF LocalOK, DocsOK
<1>3. doc \in Docs
  BY <1>2, LoadOK
<1>4. /\ q \in Mems
      /\ q.tdoc = m.tdoc /\ q.ldoc = m.ldoc /\ q.op = m.op /\ q.ret = "first"
  BY <1>1, <1>3 DEF Mems, Labels
<1>5. LocalOK("promMarker", q) /\ LocalOK("page", q)
  BY <1>1, <1>4 DEF LocalOK, DocsOK, ReturnsOK, AppendOK, DeleteOK
<1>6. DocOK(m.tdoc) /\ DocOK(m.ldoc) /\ m.tdoc.dir \in Dirs /\ m.ldoc.dir \in Dirs
  BY <1>1 DEF LocalOK, DocsOK
<1>7. \/ Goto(c, "promMarker", q)
      \/ Goto(c, "page", q)
      \/ Onward(c, m)
  BY DEF First, Promote
<1> HIDE DEF m, q
<1>8. Moves(c)
  BY <1>1, <1>4, <1>5, <1>6, <1>7, GotoMoves, OnwardMoves DEF Labels
<1> QED
  BY <1>8, ReadStep DEF First

LEMMA FollowOK ==
  ASSUME Inv, NEW c \in Clients, Follow(c)
  PROVE  StepOK(c)
<1> DEFINE m == mem[c]
           latest == LatestOf(m.ldoc.vers.ents)
           doc == Load(m.ldoc.vers.ents[latest].dir)
           f == [m EXCEPT !.rdoc = doc, !.meta = m.ldoc.vers, !.ret = "follow"]
           g == [m EXCEPT !.rdoc = doc, !.ret = "follow"]
           next == [m EXCEPT !.ldoc = doc]
<1>1. m \in Mems /\ LocalOK("follow", m) /\ m.op = "append"
  BY Current DEF Follow
<1>2. m.ldoc \in Docs /\ m.ldoc.vers \in Bodies /\ Decodes(m.ldoc.vers, m.ldoc.dir)
  BY <1>1, MemFields, DocFields DEF LocalOK, DocsOK, DocOK, DeleteOK
<1>3. m.ldoc.vers.ents[latest].dir \in Dirs
  BY <1>2, DocFields, DecodesParts
<1>4. doc \in Docs /\ DocOK(doc) /\ doc.dir \in Dirs
  <2>1. Loads(doc.dir) /\ doc.dir = m.ldoc.vers.ents[latest].dir
    BY DEF Follow, Load
  <2> QED
    BY <1>3, <2>1, LoadOK
<1>5. /\ f \in Mems /\ f.tdoc = m.tdoc /\ f.ldoc = m.ldoc /\ f.op = m.op /\ f.ret = "follow"
      /\ g \in Mems /\ g.tdoc = m.tdoc /\ g.ldoc = m.ldoc /\ g.op = m.op /\ g.ret = "follow"
      /\ next \in Mems /\ next.tdoc = m.tdoc /\ next.ldoc = doc /\ next.op = m.op
  BY <1>1, <1>2, <1>4 DEF Mems, Labels
<1>6. \/ Goto(c, "fixPut", f)
      \/ Goto(c, "page", g)
      \/ Prepared(c, next)
      \/ doc.vers # Absent /\ Goto(c, "follow", next)
  BY DEF Follow
<1> HIDE DEF m, doc, f, g, next
<1>7. LocalOK("fixPut", f) /\ LocalOK("page", g)
  BY <1>1, <1>2, <1>5 DEF LocalOK, DocsOK, ReturnsOK, AppendOK, DeleteOK
<1>8. doc.vers # Absent => LocalOK("follow", next)
  BY <1>1, <1>4, <1>5 DEF LocalOK, DocsOK, ReturnsOK, AppendOK, DeleteOK
<1>9. Moves(c)
  BY <1>4, <1>5, <1>6, <1>7, <1>8, GotoMoves, PreparedMoves DEF Labels
<1> QED
  BY <1>9, ReadStep DEF Follow

-----------------------------------------------------------------------------
(* repairMissingRevisionMetadata.                                          *)

LEMMA FixReadOK ==
  ASSUME Inv, NEW c \in Clients, FixRead(c)
  PROVE  StepOK(c)
<1> DEFINE m == mem[c]
           previous == m.rdoc.marker.prev
           f == [m EXCEPT !.meta = vers[previous]]
<1>1. m \in Mems /\ LocalOK("fixRead", m)
  BY Current DEF FixRead
<1>2. previous \in Dirs
  BY <1>1, MemFields, DocFields DEF FixRead
<1>3. f \in Mems /\ f.tdoc = m.tdoc /\ f.ldoc = m.ldoc /\ f.op = m.op /\ f.ret = m.ret
  BY <1>1, <1>2, LoadOK DEF Mems
<1>4. LocalOK("fixPut", f)
  BY <1>1, <1>3 DEF LocalOK, DocsOK, ReturnsOK, AppendOK, DeleteOK
<1>5. LocalOK("fixReceipt", m)
  BY <1>1, <1>2, NoDirAssumption DEF LocalOK, DocsOK, ReturnsOK, AppendOK, DeleteOK
<1>6. Goto(c, "fixPut", f) \/ Goto(c, "fixReceipt", m)
  BY DEF FixRead
<1> HIDE DEF m, f
<1>7. Moves(c)
  BY <1>1, <1>3, <1>4, <1>5, <1>6, GotoMoves DEF Labels
<1> QED
  BY <1>7, ReadStep DEF FixRead

LEMMA FixReceiptOK ==
  ASSUME Inv, NEW c \in Clients, FixReceipt(c)
  PROVE  StepOK(c)
<1> DEFINE m == mem[c]
           body == vers[m.rdoc.marker.prev]
           first == NextWitness(body.ents, Len(body.ents) + 1, m.rdoc.marker.num)
           f == [m EXCEPT !.meta = body, !.i = first]
<1>1. m \in Mems /\ LocalOK("fixReceipt", m)
  BY Current DEF FixReceipt
<1>2. m.rdoc.marker.prev \in Dirs
  BY <1>1, MemFields, DocFields DEF LocalOK, DocsOK
<1>3. body \in Bodies /\ body.ents \in Seq(Entries) /\ Len(body.ents) \in Nat
  BY <1>2, LoadOK, BodyFields, EntryTypes
<1>4. first \in Nat /\ IsLive(body.ents, first)
  <2>1. first # 0
    BY DEF FixReceipt
  <2> HIDE DEF m, body
  <2>2. Len(body.ents) + 1 \in Nat
    BY <1>3
  <2>3. first \in Nat /\ first \in LiveNumbers(body.ents)
    BY <1>3, <2>1, <2>2, NextWitnessIsLive, Zenon
  <2> QED
    BY <1>3, <2>3, EntryTypes
<1>5. /\ f \in Mems /\ f.tdoc = m.tdoc /\ f.ldoc = m.ldoc /\ f.op = m.op /\ f.ret = m.ret
      /\ f.meta = body /\ f.i = first
  BY <1>1, <1>3, <1>4 DEF Mems
<1>6. LocalOK("fixWitness", f)
  BY <1>1, <1>4, <1>5 DEF LocalOK, DocsOK, ReturnsOK, AppendOK, DeleteOK
<1>7. Goto(c, "fixWitness", f)
  BY DEF FixReceipt
<1> HIDE DEF f
<1>8. Moves(c)
  BY <1>5, <1>6, <1>7, GotoMoves DEF Labels
<1> QED
  BY <1>8, ReadStep DEF FixReceipt

LEMMA FixWitnessOK ==
  ASSUME Inv, NEW c \in Clients, FixWitness(c)
  PROVE  StepOK(c)
<1> DEFINE m == mem[c]
           d == m.meta.ents[m.i].dir
           next == NextWitness(m.meta.ents, m.i, m.rdoc.marker.num)
           f == [m EXCEPT !.meta = vers[d]]
           g == [m EXCEPT !.i = next]
<1>1. m \in Mems /\ LocalOK("fixWitness", m) /\ m.meta \in Bodies /\ m.i \in Nat
  BY Current, MemFields DEF FixWitness
<1>2. d \in Dirs
  BY <1>1, LiveDir DEF LocalOK, DocsOK
<1>3. next \in Nat /\ (next # 0 => IsLive(m.meta.ents, next))
  BY <1>1, BodyFields, NextWitnessIsLive, EntryTypes
<1>4. /\ f \in Mems /\ f.tdoc = m.tdoc /\ f.ldoc = m.ldoc /\ f.op = m.op /\ f.ret = m.ret
      /\ g \in Mems /\ g.tdoc = m.tdoc /\ g.ldoc = m.ldoc /\ g.op = m.op /\ g.ret = m.ret
      /\ g.meta = m.meta /\ g.i = next
  BY <1>1, <1>2, <1>3, LoadOK DEF Mems
<1>5. Goto(c, "fixPut", f) \/ (next # 0 /\ Goto(c, "fixWitness", g))
  BY DEF FixWitness
<1> HIDE DEF m, next, f, g
<1>6. LocalOK("fixPut", f)
  BY <1>1, <1>4 DEF LocalOK, DocsOK, ReturnsOK, AppendOK, DeleteOK
<1>7. next # 0 => LocalOK("fixWitness", g)
  BY <1>1, <1>3, <1>4 DEF LocalOK, DocsOK, ReturnsOK, AppendOK, DeleteOK
<1>8. Moves(c)
  BY <1>4, <1>5, <1>6, <1>7, GotoMoves DEF Labels
<1> QED
  BY <1>8, ReadStep DEF FixWitness

LEMMA FixPutOK ==
  ASSUME Inv, NEW c \in Clients, FixPut(c)
  PROVE  StepOK(c)
<1> DEFINE m == mem[c]
           body == IndexBody(m.meta.chain, m.rdoc.marker.num, m.meta.ents)
<1>1. m \in Mems /\ LocalOK("fixPut", m)
  BY Current DEF FixPut
<1>2. body \in Bodies
  BY <1>1, MemFields, DocFields, BodyFields, BodyTypes
<1>3. m.ret \in {"reload", "first", "follow"} /\ LocalOK(m.ret, m)
  BY <1>1 DEF LocalOK, DocsOK, ReturnsOK, AppendOK, DeleteOK
<1>4. PutVers(m.rdoc.dir, Absent, body) /\ Goto(c, m.ret, m)
  BY DEF FixPut
<1> HIDE DEF m, body
<1>5. Moves(c)
  BY <1>1, <1>3, <1>4, GotoMoves DEF Labels
<1>6. vers' \in [Dirs -> Bodies] /\ Replaces
  BY <1>2, <1>4, CreateOK, PutKeeps
<1> QED
  BY <1>5, <1>6, PutStep DEF FixPut

-----------------------------------------------------------------------------
(* promoteStandaloneRevision.                                              *)

LEMMA PromoteMarkerOK ==
  ASSUME Inv, NEW c \in Clients, PromoteMarker(c)
  PROVE  StepOK(c)
<1> DEFINE m == mem[c]
<1>1. m \in Mems /\ LocalOK("promMarker", m)
  BY Current DEF PromoteMarker
<1>2. LocalOK("promPage", m)
  BY <1>1 DEF LocalOK, DocsOK, ReturnsOK, AppendOK, DeleteOK
<1>3. Moves(c)
  BY <1>1, <1>2, GotoMoves DEF PromoteMarker, Labels
<1>4. RevisionMarker(m.rdoc.vers.chain, 1, NoDir) \in Markers
  BY <1>1, MemFields, DocFields, BodyFields DEF RevisionMarker, Markers, Descriptors
<1>5. marker' \in [Dirs -> Markers]
  BY <1>4 DEF PromoteMarker, Inv, TypeOK
<1>6. StoreOK' /\ Replaces
  BY <1>5, StoreKept DEF PromoteMarker, StoreOK, LateOK
<1> QED
  BY <1>3, <1>6 DEF StepOK

LEMMA PromotePageOK ==
  ASSUME Inv, NEW c \in Clients, PromotePage(c)
  PROVE  StepOK(c)
<1> DEFINE m == mem[c]
<1>1. m \in Mems /\ LocalOK("promPage", m)
  BY Current DEF PromotePage
<1>2. LocalOK("promVerify", m)
  BY <1>1 DEF LocalOK, DocsOK, ReturnsOK, AppendOK, DeleteOK
<1>3. Moves(c)
  BY <1>1, <1>2, GotoMoves DEF PromotePage, Labels
<1>4. payload' \in [Dirs -> Payloads]
  BY DEF PromotePage, Inv, TypeOK, Payloads
<1>5. StoreOK' /\ Replaces
  BY <1>4, StoreKept DEF PromotePage, StoreOK, LateOK
<1> QED
  BY <1>3, <1>5 DEF StepOK

LEMMA PromoteVerifyOK ==
  ASSUME Inv, NEW c \in Clients, PromoteVerify(c)
  PROVE  StepOK(c)
<1> DEFINE m == mem[c]
<1>1. m \in Mems /\ LocalOK("promVerify", m) /\ Return(c, m) /\ Reads
  BY Current DEF PromoteVerify
<1>2. CASE m.ret = "first"
  <2>1. DocOK(m.tdoc) /\ DocOK(m.ldoc) /\ m.tdoc.dir \in Dirs /\ m.ldoc.dir \in Dirs
    BY <1>1, <1>2 DEF LocalOK, DocsOK, ReturnsOK
  <2> QED
    BY <1>1, <1>2, <2>1, OnwardMoves, ReadStep DEF Return
<1>3. CASE m.ret # "first"
  <2>1. m.ret \in {"plan", "newIndex"} /\ LocalOK(m.ret, m)
    BY <1>1, <1>3 DEF LocalOK, DocsOK, ReturnsOK, AppendOK, DeleteOK
  <2> QED
    BY <1>1, <1>3, <2>1, GotoMoves, ReadStep DEF Return, Labels
<1> QED
  BY <1>2, <1>3

-----------------------------------------------------------------------------
(* The append itself.                                                      *)

LEMMA PutMarkerOK ==
  ASSUME Inv, NEW c \in Clients, NEW d \in Dirs, PutMarker(c, d)
  PROVE  StepOK(c)
<1> DEFINE m == mem[c]
           latest == m.ldoc
           standalone == latest.vers = Absent
           chain == IF standalone THEN d ELSE latest.vers.chain
           ents == IF standalone THEN <<LiveEntry(latest.dir)>> ELSE latest.vers.ents
           metadata == IndexBody(chain, Len(ents) + 1, AppendEntry(ents, d))
           q == [m EXCEPT !.cand = d, !.meta = metadata, !.ser = latest.dir,
                          !.skip = {latest.dir, d}]
<1>1. m \in Mems /\ LocalOK("plan", m)
  BY Current DEF PutMarker
<1>2. /\ latest \in Docs /\ latest.vers \in Bodies /\ latest.dir \in Dirs
      /\ latest.vers.ents \in Seq(Entries) /\ latest.vers.chain \in Dirs \cup {NoDir}
  BY <1>1, MemFields, DocFields, BodyFields DEF LocalOK, AppendOK
<1>3. ents \in Seq(Entries) /\ chain \in Dirs \cup {NoDir}
  <2>1. LiveEntry(latest.dir) \in Entries
    BY <1>2 DEF LiveEntry, Entries
  <2>2. <<LiveEntry(latest.dir)>> \in Seq(Entries)
    BY <2>1
  <2> QED
    BY <1>2, <2>2
<1>4. Len(ents) \in Nat /\ (standalone => Len(ents) = 1)
  BY <1>3, EntryTypes
<1> HIDE DEF ents, chain
<1>5. AppendEntry(ents, d) \in Seq(Entries) /\ EntsPrecede(ents, AppendEntry(ents, d))
  BY <1>3, AppendPrecedes
<1>6. metadata \in Bodies
  <2>1. Len(ents) + 1 \in Nat
    BY <1>4
  <2> QED
    BY <1>3, <1>5, <2>1, BodyTypes
<1>7. latest.vers # Absent => Precedes(latest.vers, metadata)
  BY <1>5 DEF Precedes, IndexBody, ents, chain
<1>8. /\ q \in Mems
      /\ q.tdoc = m.tdoc /\ q.ldoc = latest /\ q.op = m.op /\ q.cand = d
      /\ q.ser = latest.dir /\ q.meta = metadata
  BY <1>1, <1>2, <1>6 DEF Mems
<1>9. Goto(c, "payload", q)
  BY DEF PutMarker, ents, chain
<1>10. RevisionMarker(chain, Len(ents) + 1, latest.dir) \in Markers
  BY <1>2, <1>3, <1>4, NoDirAssumption DEF RevisionMarker, Markers, Descriptors
<1>11. marker' = [marker EXCEPT ![d] = RevisionMarker(chain, Len(ents) + 1, latest.dir)]
  BY DEF PutMarker, ents, chain
<1>12. /\ used' = used \cup {d}
       /\ UNCHANGED <<payload, vers, late, lost, claims, cleaned, acked, doomed>>
  BY DEF PutMarker
<1> HIDE DEF metadata, q, m
<1>13. LocalOK("payload", q)
  BY <1>1, <1>2, <1>7, <1>8 DEF LocalOK, DocsOK, ReturnsOK, AppendOK, DeleteOK, m
<1>14. Moves(c)
  BY <1>8, <1>9, <1>13, GotoMoves DEF Labels
<1>15. marker' \in [Dirs -> Markers] /\ used' \subseteq Dirs
  BY <1>10, <1>11, <1>12 DEF Inv, TypeOK
<1>16. StoreOK' /\ Replaces
  BY <1>12, <1>15, StoreKept DEF StoreOK, LateOK
<1> QED
  BY <1>14, <1>16 DEF StepOK

LEMMA PutPayloadOK ==
  ASSUME Inv, NEW c \in Clients, PutPayload(c)
  PROVE  StepOK(c)
<1> DEFINE m == mem[c]
<1>1. m \in Mems /\ LocalOK("payload", m)
  BY Current DEF PutPayload
<1>2. LocalOK("commit", m)
  BY <1>1 DEF LocalOK, DocsOK, ReturnsOK, AppendOK, DeleteOK
<1>3. Moves(c)
  BY <1>1, <1>2, GotoMoves DEF PutPayload, Labels
<1>4. payload' \in [Dirs -> Payloads]
  BY DEF PutPayload, Inv, TypeOK, Payloads
<1>5. StoreOK' /\ Replaces
  BY <1>4, StoreKept DEF PutPayload, StoreOK, LateOK
<1> QED
  BY <1>3, <1>5 DEF StepOK

LEMMA PutPayloadFailsOK ==
  ASSUME Inv, NEW c \in Clients, PutPayloadFails(c)
  PROVE  StepOK(c)
<1>1. mem[c] \in Mems /\ LocalOK("payload", mem[c])
  BY Current DEF PutPayloadFails
<1>2. LocalOK("rbPayload", mem[c])
  BY <1>1 DEF LocalOK, DocsOK, ReturnsOK, AppendOK, DeleteOK
<1> QED
  BY <1>1, <1>2, GotoMoves, ReadStep DEF PutPayloadFails, Labels

(* The append is known to be committed.                                    *)
LEMMA CommittedMoves ==
  ASSUME NEW c, NEW m \in Mems, NEW metadata \in Bodies, DocOK(m.tdoc), DocOK(m.ldoc),
         m.op = "append", Committed(c, m, metadata)
  PROVE  Moves(c)
<1> DEFINE new == [metadata EXCEPT !.cur = m.meta.cur]
           won == [m EXCEPT !.meta = new, !.obs = Absent, !.conflict = FALSE]
           doc == [m.ldoc EXCEPT !.vers = metadata]
           q == [won EXCEPT !.rdoc = doc, !.ret = "newIndex"]
<1>1. new \in Bodies
  BY MemFields, BodyFields DEF Bodies
<1>2. won \in Mems /\ won.tdoc = m.tdoc /\ won.ldoc = m.ldoc /\ won.op = m.op
  BY <1>1, BodyTypes DEF Mems
<1>3. doc \in Docs
  BY MemFields DEF Docs
<1> HIDE DEF new, won, doc
<1>4. /\ q \in Mems
      /\ q.tdoc = m.tdoc /\ q.ldoc = m.ldoc /\ q.op = m.op /\ q.ret = "newIndex"
  BY <1>2, <1>3 DEF Mems, Labels
<1>5. LocalOK("newIndex", won)
  BY <1>2 DEF LocalOK, DocsOK, ReturnsOK, AppendOK, DeleteOK
<1> HIDE DEF q
<1>6. LocalOK("promMarker", q)
  BY <1>4 DEF LocalOK, DocsOK, ReturnsOK, AppendOK, DeleteOK
<1>7. Goto(c, "promMarker", q) \/ Goto(c, "newIndex", won)
  BY DEF Committed, Promote, q, won, new, doc
<1> QED
  BY <1>2, <1>4, <1>5, <1>6, <1>7, GotoMoves DEF Labels

(* What a commit request carries may replace what it is conditional on.    *)
LEMMA CommitMayReplace ==
  ASSUME NEW m \in Mems, LocalOK("commit", m)
  PROVE  CommitBody(m) \in Bodies /\ MayReplace(m.ldoc.vers, CommitBody(m))
<1>1. /\ m.meta \in Bodies /\ m.meta.ents \in Seq(Entries) /\ m.meta.chain \in Dirs \cup {NoDir}
      /\ m.ldoc.vers \in Bodies /\ m.ldoc.vers.cur \in Nat
  BY MemFields, DocFields, BodyFields
<1>2. CommitBody(m) \in Bodies
  BY <1>1, BodyTypes DEF CommitBody
<1>3. m.ldoc.vers # Absent => Precedes(m.ldoc.vers, m.meta)
  BY DEF LocalOK, AppendOK
<1>4. MayReplace(m.ldoc.vers, CommitBody(m))
  <2>1. CASE m.ldoc.vers = Absent
    BY <2>1, CreateOK
  <2>2. CASE m.ldoc.vers # Absent
    BY <1>3, <2>2 DEF MayReplace, Precedes, CommitBody, IndexBody
  <2> QED
    BY <2>1, <2>2
<1> QED
  BY <1>2, <1>4

LEMMA CommitAppliedOK ==
  ASSUME Inv, NEW c \in Clients, CommitApplied(c)
  PROVE  StepOK(c)
<1> DEFINE m == mem[c]
<1>1. m \in Mems /\ LocalOK("commit", m)
  BY Current DEF CommitApplied
<1>2. DocOK(m.tdoc) /\ DocOK(m.ldoc) /\ m.op = "append" /\ m.meta \in Bodies
  BY <1>1, MemFields DEF LocalOK, DocsOK, AppendOK
<1>3. Committed(c, m, m.meta) /\ PutVers(m.ser, m.ldoc.vers, CommitBody(m))
  BY DEF CommitApplied
<1> HIDE DEF m
<1>4. Moves(c)
  BY <1>1, <1>2, <1>3, CommittedMoves
<1>5. vers' \in [Dirs -> Bodies] /\ Replaces
  BY <1>1, <1>3, CommitMayReplace, PutKeeps
<1> QED
  BY <1>4, <1>5, PutStep DEF CommitApplied

LEMMA CommitRefusedOK ==
  ASSUME Inv, NEW c \in Clients, CommitRefused(c)
  PROVE  StepOK(c)
<1> DEFINE m == mem[c]
           q == [m EXCEPT !.conflict = TRUE]
<1>1. m \in Mems /\ LocalOK("commit", m)
  BY Current DEF CommitRefused
<1>2. /\ q \in Mems
      /\ q.tdoc = m.tdoc /\ q.ldoc = m.ldoc /\ q.op = m.op /\ q.cand = m.cand /\ q.ser = m.ser
  BY <1>1 DEF Mems
<1>3. Goto(c, "recRead", q)
  BY DEF CommitRefused
<1> HIDE DEF m, q
<1>4. LocalOK("recRead", q)
  BY <1>1, <1>2 DEF LocalOK, DocsOK, ReturnsOK, AppendOK, DeleteOK
<1>5. Moves(c)
  BY <1>2, <1>3, <1>4, GotoMoves DEF Labels
<1> QED
  BY <1>5, ReadStep DEF CommitRefused

LEMMA CommitEchoedOK ==
  ASSUME Inv, NEW c \in Clients, CommitEchoed(c)
  PROVE  StepOK(c)
<1> DEFINE m == mem[c]
           q == [m EXCEPT !.conflict = TRUE]
<1>1. m \in Mems /\ LocalOK("commit", m)
  BY Current DEF CommitEchoed
<1>2. /\ q \in Mems
      /\ q.tdoc = m.tdoc /\ q.ldoc = m.ldoc /\ q.op = m.op /\ q.cand = m.cand /\ q.ser = m.ser
  BY <1>1 DEF Mems
<1>3. Goto(c, "recRead", q) /\ PutVers(m.ser, m.ldoc.vers, CommitBody(m))
  BY DEF CommitEchoed
<1> HIDE DEF m, q
<1>4. LocalOK("recRead", q)
  BY <1>1, <1>2 DEF LocalOK, DocsOK, ReturnsOK, AppendOK, DeleteOK
<1>5. Moves(c)
  BY <1>2, <1>3, <1>4, GotoMoves DEF Labels
<1>6. vers' \in [Dirs -> Bodies] /\ Replaces
  BY <1>1, <1>3, CommitMayReplace, PutKeeps
<1> QED
  BY <1>5, <1>6, PutStep DEF CommitEchoed

LEMMA CommitUnknownOK ==
  ASSUME Inv, NEW c \in Clients, CommitUnknown(c)
  PROVE  StepOK(c)
<1> DEFINE m == mem[c]
           put == [dir |-> m.ser, match |-> m.ldoc.vers, body |-> CommitBody(m)]
<1>1. m \in Mems /\ LocalOK("commit", m)
  BY Current DEF CommitUnknown
<1>2. LocalOK("recRead", m)
  BY <1>1 DEF LocalOK, DocsOK, ReturnsOK, AppendOK, DeleteOK
<1>3. Moves(c)
  BY <1>1, <1>2, GotoMoves DEF CommitUnknown, Labels
<1>4. put \in LatePuts /\ MayReplace(put.match, put.body)
  <2>1. m.ser \in Dirs /\ m.ldoc.vers \in Bodies
    BY <1>1, MemFields, DocFields DEF LocalOK, AppendOK
  <2> QED
    BY <1>1, <2>1, CommitMayReplace DEF LatePuts
<1>5. late' = late \cup {put}
  BY DEF CommitUnknown
<1> HIDE DEF m, put
<1>6. late' \subseteq LatePuts /\ LateOK'
  BY <1>4, <1>5 DEF Inv, TypeOK, LateOK
<1>7. lost' \in 0..MaxLost
  BY BoundsAssumption DEF CommitUnknown, Inv, TypeOK
<1>8. StoreOK' /\ Replaces
  BY <1>6, <1>7, StoreKept DEF CommitUnknown, StoreOK
<1> QED
  BY <1>3, <1>8 DEF StepOK

(* A commit request that arrives after its writer gave up on it.           *)
LEMMA DeliverLateOK ==
  ASSUME Inv, NEW put \in late, DeliverLate(put)
  PROVE  Inv' /\ Replaces
<1>1. put \in LatePuts /\ MayReplace(put.match, put.body) /\ put.body \in Bodies
  BY DEF Inv, TypeOK, LateOK, LatePuts
<1>2. vers' \in [Dirs -> Bodies] /\ Replaces
  <2>1. CASE vers[put.dir] = put.match
    <3>1. PutVers(put.dir, put.match, put.body)
      BY <2>1 DEF DeliverLate, PutVers
    <3> QED
      BY <1>1, <3>1, PutKeeps
  <2>2. CASE vers[put.dir] # put.match
    BY <2>2, StoreKept DEF DeliverLate, StoreOK
  <2> QED
    BY <2>1, <2>2
<1>3. TypeOK' /\ LateOK'
  BY <1>2 DEF DeliverLate, Inv, TypeOK, LateOK
<1>4. \A c \in Clients : LocalOK(pc'[c], mem'[c])
  BY DEF DeliverLate, Inv
<1> QED
  BY <1>2, <1>3, <1>4 DEF Inv

-----------------------------------------------------------------------------
(* reconcileRevisionAppendCommit and the rollback.                         *)

LEMMA RecReadOK ==
  ASSUME Inv, NEW c \in Clients, RecRead(c)
  PROVE  StepOK(c)
<1> DEFINE m == mem[c]
           body == vers[m.ser]
           q == [m EXCEPT !.obs = body]
<1>1. m \in Mems /\ LocalOK("recRead", m)
  BY Current DEF RecRead
<1>2. DocOK(m.tdoc) /\ DocOK(m.ldoc) /\ m.op = "append" /\ m.ser \in Dirs
  BY <1>1 DEF LocalOK, DocsOK, AppendOK
<1>3. body \in Bodies
  BY <1>2, LoadOK
<1>4. /\ q \in Mems
      /\ q.tdoc = m.tdoc /\ q.ldoc = m.ldoc /\ q.op = m.op /\ q.cand = m.cand /\ q.ser = m.ser
  BY <1>1, <1>3 DEF Mems
<1>5. Committed(c, m, body) \/ Goto(c, "recCand", q)
  BY DEF RecRead
<1> HIDE DEF m, body, q
<1>6. LocalOK("recCand", q)
  BY <1>1, <1>4 DEF LocalOK, DocsOK, ReturnsOK, AppendOK, DeleteOK
<1>7. Moves(c)
  BY <1>1, <1>2, <1>3, <1>4, <1>5, <1>6, CommittedMoves, GotoMoves DEF Labels
<1> QED
  BY <1>7, ReadStep DEF RecRead

LEMMA RecCandOK ==
  ASSUME Inv, NEW c \in Clients, RecCand(c)
  PROVE  StepOK(c)
<1> DEFINE m == mem[c]
           body == vers[m.cand]
<1>1. m \in Mems /\ LocalOK("recCand", m)
  BY Current DEF RecCand
<1>2. DocOK(m.tdoc) /\ DocOK(m.ldoc) /\ m.op = "append" /\ m.cand \in Dirs
  BY <1>1 DEF LocalOK, DocsOK, AppendOK
<1>3. body \in Bodies
  BY <1>2, LoadOK
<1>4. \/ Committed(c, m, body)
      \/ Goto(c, "rbPayload", m) \/ Goto(c, "recRetry", m) \/ Goto(c, "recClaim", m)
  BY DEF RecCand
<1> HIDE DEF m, body
<1>5. LocalOK("rbPayload", m) /\ LocalOK("recRetry", m) /\ LocalOK("recClaim", m)
  BY <1>1 DEF LocalOK, DocsOK, ReturnsOK, AppendOK, DeleteOK
<1>6. Moves(c)
  BY <1>1, <1>2, <1>3, <1>4, <1>5, CommittedMoves, GotoMoves DEF Labels
<1> QED
  BY <1>6, ReadStep DEF RecCand

LEMMA RecRetryOK ==
  ASSUME Inv, NEW c \in Clients, RecRetry(c)
  PROVE  StepOK(c)
<1> DEFINE m == mem[c]
<1>1. m \in Mems /\ LocalOK("recRetry", m)
  BY Current DEF RecRetry
<1>2. DocOK(m.tdoc) /\ DocOK(m.ldoc) /\ m.op = "append" /\ m.meta \in Bodies
  BY <1>1, MemFields DEF LocalOK, DocsOK, AppendOK
<1>3. LocalOK("recReread", m)
  BY <1>1 DEF LocalOK, DocsOK, ReturnsOK, AppendOK, DeleteOK
<1>4. CommitBody(m) \in Bodies
  <2>1. /\ m.meta.ents \in Seq(Entries) /\ m.meta.chain \in Dirs \cup {NoDir}
        /\ m.ldoc.vers.cur \in Nat
    BY <1>1, <1>2, MemFields, DocFields, BodyFields
  <2> QED
    BY <2>1, BodyTypes DEF CommitBody
<1>5. \/ PutVers(m.ser, Absent, CommitBody(m)) /\ Committed(c, m, m.meta)
      \/ vers' = vers /\ Goto(c, "recReread", m)
  BY DEF RecRetry, PutVers
<1> HIDE DEF m
<1>6. Moves(c)
  BY <1>1, <1>2, <1>3, <1>5, CommittedMoves, GotoMoves DEF Labels
<1>7. vers' \in [Dirs -> Bodies] /\ Replaces
  BY <1>4, <1>5, CreateOK, PutKeeps, StoreKept DEF StoreOK
<1> QED
  BY <1>6, <1>7, PutStep DEF RecRetry

LEMMA RecRereadOK ==
  ASSUME Inv, NEW c \in Clients, RecReread(c)
  PROVE  StepOK(c)
<1> DEFINE m == mem[c]
           body == vers[m.ser]
<1>1. m \in Mems /\ LocalOK("recReread", m)
  BY Current DEF RecReread
<1>2. DocOK(m.tdoc) /\ DocOK(m.ldoc) /\ m.op = "append" /\ m.ser \in Dirs
  BY <1>1 DEF LocalOK, DocsOK, AppendOK
<1>3. body \in Bodies
  BY <1>2, LoadOK
<1>4. Committed(c, m, body) \/ Goto(c, "rbPayload", m)
  BY DEF RecReread
<1> HIDE DEF m, body
<1>5. LocalOK("rbPayload", m)
  BY <1>1 DEF LocalOK, DocsOK, ReturnsOK, AppendOK, DeleteOK
<1>6. Moves(c)
  BY <1>1, <1>2, <1>3, <1>4, <1>5, CommittedMoves, GotoMoves DEF Labels
<1> QED
  BY <1>6, ReadStep DEF RecReread

(* A claim rewrites an index without changing it.                          *)
LEMMA ClaimMayReplace ==
  ASSUME NEW b \in Bodies
  PROVE  ClaimBody(b) \in Bodies /\ MayReplace(b, ClaimBody(b))
<1>1. /\ ClaimBody(b) \in Bodies
      /\ ClaimBody(b).kind = b.kind /\ ClaimBody(b).chain = b.chain
      /\ ClaimBody(b).ents = b.ents
  BY DEF ClaimBody, Bodies
<1> QED
  BY <1>1, BodyFields, PrecedeReflexive DEF MayReplace

LEMMA RecClaimOK ==
  ASSUME Inv, NEW c \in Clients, RecClaim(c)
  PROVE  StepOK(c)
<1> DEFINE m == mem[c]
<1>1. m \in Mems /\ LocalOK("recClaim", m) /\ m.obs \in Bodies
  BY Current, MemFields DEF RecClaim
<1>2. LocalOK("rbPayload", m)
  BY <1>1 DEF LocalOK, DocsOK, ReturnsOK, AppendOK, DeleteOK
<1>3. Moves(c)
  BY <1>1, <1>2, GotoMoves DEF RecClaim, Labels
<1>4. vers' \in [Dirs -> Bodies] /\ Replaces
  BY <1>1, ClaimMayReplace, PutKeeps DEF RecClaim
<1>5. claims' \in 0..MaxClaims
  BY BoundsAssumption DEF RecClaim, Inv, TypeOK
<1>6. StoreOK'
  BY <1>4, <1>5, StoreKept DEF RecClaim, StoreOK, LateOK
<1> QED
  BY <1>3, <1>4, <1>6 DEF StepOK

LEMMA RollbackPayloadOK ==
  ASSUME Inv, NEW c \in Clients, RollbackPayload(c)
  PROVE  StepOK(c)
<1> DEFINE m == mem[c]
<1>1. m \in Mems /\ LocalOK("rbPayload", m)
  BY Current DEF RollbackPayload
<1>2. LocalOK("rbMarker", m) /\ m.cand \in Dirs
  BY <1>1 DEF LocalOK, DocsOK, ReturnsOK, AppendOK, DeleteOK
<1>3. Moves(c)
  BY <1>1, <1>2, GotoMoves DEF RollbackPayload, Labels
<1>4. payload' \in [Dirs -> Payloads] /\ cleaned' \subseteq Dirs
  BY <1>2 DEF RollbackPayload, Inv, TypeOK, Payloads
<1>5. StoreOK' /\ Replaces
  BY <1>4, StoreKept DEF RollbackPayload, StoreOK, LateOK
<1> QED
  BY <1>3, <1>5 DEF StepOK

LEMMA RollbackMarkerOK ==
  ASSUME Inv, NEW c \in Clients, RollbackMarker(c)
  PROVE  StepOK(c)
<1>1. Moves(c)
  BY StopMoves DEF RollbackMarker
<1>2. NoMarker \in Markers
  BY DEF NoMarker, Markers, Descriptors
<1>3. marker' \in [Dirs -> Markers]
  BY <1>2 DEF RollbackMarker, Inv, TypeOK
<1>4. StoreOK' /\ Replaces
  BY <1>3, StoreKept DEF RollbackMarker, StoreOK, LateOK
<1> QED
  BY <1>1, <1>4 DEF StepOK

-----------------------------------------------------------------------------
(* Publishing: propagateVersionsMetadata and verifyRevisionChain.          *)

(* A client that may go on to the next replica, or to the verification.    *)
PublishOK(m) ==
  /\ DocOK(m.tdoc) /\ DocOK(m.ldoc)
  /\ \/ m.op = "append"
     \/ m.op = "delete" /\ m.tdoc.dir \in Dirs /\ ObservedOK(m) /\ TombstonedOK(m)

LEMMA NextReplicaIsLive ==
  ASSUME NEW m \in Mems, NEW n \in Nat
  PROVE  /\ NextReplica(m, n) \in Nat
         /\ NextReplica(m, n) # 0 => IsLive(m.meta.ents, NextReplica(m, n))
<1> DEFINE rest == {k \in LiveNumbers(m.meta.ents) : k > n /\ m.meta.ents[k].dir \notin m.skip}
<1>1. CASE rest = {}
  BY <1>1 DEF NextReplica
<1>2. CASE rest # {}
  <2>1. m.meta.ents \in Seq(Entries)
    BY MemFields, BodyFields
  <2>2. rest \subseteq Nat
    BY <2>1, EntryTypes
  <2>3. \E k \in rest : \A j \in rest : k <= j
    BY <1>2, <2>2, LeastExists
  <2>4. NextReplica(m, n) \in rest
    BY <1>2, <2>3 DEF NextReplica
  <2> QED
    BY <2>1, <2>2, <2>4, EntryTypes
<1> QED
  BY <1>1, <1>2

LEMMA PropagateMoves ==
  ASSUME NEW c, NEW m \in Mems, NEW n \in Nat, PublishOK(m), Propagate(c, m, n)
  PROVE  Moves(c)
<1> DEFINE next == NextReplica(m, n)
           first == NextLive(m.meta.ents, 0)
           q == [m EXCEPT !.i = next, !.obs = IF m.op = "append" THEN Absent ELSE @]
           v == [m EXCEPT !.i = first]
<1>1. next \in Nat /\ (next # 0 => IsLive(m.meta.ents, next))
  BY NextReplicaIsLive
<1>2. first \in Nat
  BY MemFields, BodyFields, NextLiveIsLive
<1> HIDE DEF next, first
<1>3. /\ q \in Mems
      /\ q.tdoc = m.tdoc /\ q.ldoc = m.ldoc /\ q.op = m.op /\ q.meta = m.meta /\ q.i = next
      /\ m.op = "delete" => q.obs = m.obs
      /\ v \in Mems
      /\ v.tdoc = m.tdoc /\ v.ldoc = m.ldoc /\ v.op = m.op /\ v.meta = m.meta /\ v.obs = m.obs
  BY <1>1, <1>2, BodyTypes DEF Mems
<1>4. (next # 0 /\ Goto(c, "propRead", q)) \/ Goto(c, "verify", v)
  BY DEF Propagate, next, first
<1> HIDE DEF q, v
<1>5. next # 0 => LocalOK("propRead", q)
  BY <1>1, <1>3 DEF PublishOK, ObservedOK, TombstonedOK, LocalOK, DocsOK, ReturnsOK, AppendOK, DeleteOK
<1>6. LocalOK("verify", v)
  BY <1>3 DEF PublishOK, ObservedOK, TombstonedOK, LocalOK, DocsOK, ReturnsOK, AppendOK, DeleteOK
<1> QED
  BY <1>3, <1>4, <1>5, <1>6, GotoMoves DEF Labels

LEMMA NewIndexOK ==
  ASSUME Inv, NEW c \in Clients, NewIndex(c)
  PROVE  StepOK(c)
<1> DEFINE m == mem[c]
           body == IndexBody(m.meta.chain, m.meta.cur, m.meta.ents)
<1>1. m \in Mems /\ LocalOK("newIndex", m)
  BY Current DEF NewIndex
<1>2. PublishOK(m)
  BY <1>1 DEF PublishOK, LocalOK, DocsOK, AppendOK
<1>3. body \in Bodies
  BY <1>1, MemFields, BodyFields, BodyTypes
<1>4. Propagate(c, m, 0) /\ (PutVers(m.cand, Absent, body) \/ vers' = vers)
  BY DEF NewIndex
<1> HIDE DEF m, body
<1>5. Moves(c)
  BY <1>1, <1>2, <1>4, PropagateMoves
<1>6. vers' \in [Dirs -> Bodies] /\ Replaces
  BY <1>3, <1>4, CreateOK, PutKeeps, StoreKept DEF StoreOK
<1> QED
  BY <1>5, <1>6, PutStep DEF NewIndex

LEMMA PlanUnchangedOK ==
  ASSUME Inv, NEW c \in Clients, PlanUnchanged(c)
  PROVE  StepOK(c)
<1> DEFINE m == mem[c]
           q == [m EXCEPT !.meta = m.ldoc.vers, !.ser = m.ldoc.dir, !.skip = {m.ldoc.dir}]
<1>1. m \in Mems /\ LocalOK("plan", m)
  BY Current DEF PlanUnchanged
<1>2. m.ldoc.vers \in Bodies /\ m.ldoc.dir \in Dirs /\ m.op = "append"
  BY <1>1, MemFields, DocFields DEF LocalOK, AppendOK
<1>3. q \in Mems /\ q.tdoc = m.tdoc /\ q.ldoc = m.ldoc /\ q.op = m.op
  BY <1>1, <1>2 DEF Mems
<1>4. Propagate(c, q, 0)
  BY DEF PlanUnchanged
<1> HIDE DEF m, q
<1>5. PublishOK(q)
  BY <1>1, <1>2, <1>3 DEF PublishOK, LocalOK, DocsOK
<1>6. Moves(c)
  BY <1>3, <1>4, <1>5, PropagateMoves
<1> QED
  BY <1>6, ReadStep DEF PlanUnchanged

(* What is published at the replica being visited.                         *)
LEMMA ExpectedOK ==
  ASSUME NEW m \in Mems, IsLive(m.meta.ents, m.i)
  PROVE  /\ Expected(m) \in Bodies
         /\ Target(m) \in Dirs
         /\ \A b \in Bodies : Precedes(b, m.meta) => MayReplace(b, Expected(m))
<1>1. m.meta \in Bodies /\ m.meta.ents \in Seq(Entries) /\ m.meta.chain \in Dirs \cup {NoDir}
  BY MemFields, BodyFields
<1>2. Expected(m) \in Bodies
  BY <1>1, MemFields, BodyTypes DEF Expected
<1>3. Target(m) \in Dirs
  BY <1>1, LiveDir DEF Target
<1>4. \A b \in Bodies : Precedes(b, m.meta) => MayReplace(b, Expected(m))
  BY DEF Precedes, MayReplace, Expected, IndexBody
<1> QED
  BY <1>2, <1>3, <1>4

LEMMA PropagateReadOK ==
  ASSUME Inv, NEW c \in Clients, PropagateRead(c)
  PROVE  StepOK(c)
<1> DEFINE m == mem[c]
           current == vers[Target(m)]
           doc == [NoDoc EXCEPT !.vers = current]
           q == [m EXCEPT !.rdoc = doc]
<1>1. m \in Mems /\ LocalOK("propRead", m)
  BY Current DEF PropagateRead
<1>2. IsLive(m.meta.ents, m.i) /\ PublishOK(m) /\ m.i \in Nat
  BY <1>1, MemFields DEF PublishOK, LocalOK, DocsOK, DeleteOK
<1>3. current \in Bodies
  BY <1>1, <1>2, ExpectedOK, LoadOK
<1>4. doc \in Docs /\ doc.vers = current
  BY <1>3, NoMemOK DEF Docs
<1>5. \/ Propagate(c, m, m.i)
      \/ Precedes(current, m.meta) /\ Goto(c, "propPut", q)
      \/ Goto(c, "propCheck", m)
  BY DEF PropagateRead
<1> HIDE DEF current, doc
<1>6. /\ q \in Mems
      /\ q.tdoc = m.tdoc /\ q.ldoc = m.ldoc /\ q.op = m.op /\ q.meta = m.meta /\ q.i = m.i
      /\ q.obs = m.obs /\ q.rdoc.vers = current
  BY <1>1, <1>4 DEF Mems
<1> HIDE DEF m, q
<1>7. LocalOK("propCheck", m)
  BY <1>1 DEF LocalOK, DocsOK, ReturnsOK, AppendOK, DeleteOK
<1>8. Precedes(current, m.meta) => LocalOK("propPut", q)
  BY <1>1, <1>6 DEF ObservedOK, TombstonedOK, LocalOK, DocsOK, ReturnsOK, AppendOK, DeleteOK
<1>9. Moves(c)
  BY <1>1, <1>2, <1>5, <1>6, <1>7, <1>8, GotoMoves, PropagateMoves DEF Labels
<1> QED
  BY <1>9, ReadStep DEF PropagateRead

LEMMA PropagatePutOK ==
  ASSUME Inv, NEW c \in Clients, PropagatePut(c)
  PROVE  StepOK(c)
<1> DEFINE m == mem[c]
           q == [m EXCEPT !.rdoc = NoDoc]
<1>1. m \in Mems /\ LocalOK("propPut", m)
  BY Current DEF PropagatePut
<1>2. /\ IsLive(m.meta.ents, m.i) /\ PublishOK(m) /\ m.i \in Nat
      /\ m.rdoc.vers \in Bodies /\ Precedes(m.rdoc.vers, m.meta)
  BY <1>1, MemFields, DocFields DEF PublishOK, LocalOK, DocsOK, AppendOK, DeleteOK
<1>3. /\ q \in Mems
      /\ q.tdoc = m.tdoc /\ q.ldoc = m.ldoc /\ q.op = m.op /\ q.meta = m.meta /\ q.obs = m.obs
  BY <1>1, NoMemOK DEF Mems
<1>4. PutVers(Target(m), m.rdoc.vers, Expected(m)) /\ Propagate(c, q, m.i)
  BY DEF PropagatePut
<1> HIDE DEF m, q
<1>5. PublishOK(q)
  BY <1>2, <1>3 DEF PublishOK, ObservedOK, TombstonedOK
<1>6. Moves(c)
  BY <1>2, <1>3, <1>4, <1>5, PropagateMoves
<1>7. vers' \in [Dirs -> Bodies] /\ Replaces
  BY <1>1, <1>2, <1>4, ExpectedOK, PutKeeps
<1> QED
  BY <1>6, <1>7, PutStep DEF PropagatePut

LEMMA PropagateCheckOK ==
  ASSUME Inv, NEW c \in Clients, PropagateCheck(c)
  PROVE  StepOK(c)
<1>1. mem[c] \in Mems /\ LocalOK("propCheck", mem[c])
  BY Current DEF PropagateCheck
<1>2. LocalOK("propMember", mem[c])
  BY <1>1 DEF LocalOK, DocsOK, ReturnsOK, AppendOK, DeleteOK
<1> QED
  BY <1>1, <1>2, GotoMoves, ReadStep DEF PropagateCheck, Labels

LEMMA PropagateMemberOK ==
  ASSUME Inv, NEW c \in Clients, PropagateMember(c)
  PROVE  StepOK(c)
<1>1. mem[c] \in Mems /\ LocalOK("propMember", mem[c])
  BY Current DEF PropagateMember
<1>2. LocalOK("propMake", mem[c])
  BY <1>1 DEF LocalOK, DocsOK, ReturnsOK, AppendOK, DeleteOK
<1> QED
  BY <1>1, <1>2, GotoMoves, ReadStep DEF PropagateMember, Labels

LEMMA PropagateMakeOK ==
  ASSUME Inv, NEW c \in Clients, PropagateMake(c)
  PROVE  StepOK(c)
<1> DEFINE m == mem[c]
<1>1. m \in Mems /\ LocalOK("propMake", m)
  BY Current DEF PropagateMake
<1>2. IsLive(m.meta.ents, m.i) /\ PublishOK(m) /\ m.i \in Nat
  BY <1>1, MemFields DEF PublishOK, LocalOK, DocsOK, DeleteOK
<1>3. PutVers(Target(m), Absent, Expected(m)) /\ Propagate(c, m, m.i)
  BY DEF PropagateMake
<1> HIDE DEF m
<1>4. Moves(c)
  BY <1>1, <1>2, <1>3, PropagateMoves
<1>5. vers' \in [Dirs -> Bodies] /\ Replaces
  BY <1>1, <1>2, <1>3, CreateOK, ExpectedOK, PutKeeps
<1> QED
  BY <1>4, <1>5, PutStep DEF PropagateMake

LEMMA VerifyMemberOK ==
  ASSUME Inv, NEW c \in Clients, VerifyMember(c)
  PROVE  StepOK(c)
<1> DEFINE m == mem[c]
           next == NextLive(m.meta.ents, m.i)
           q == [m EXCEPT !.i = next]
<1>1. m \in Mems /\ LocalOK("verify", m)
  BY Current DEF VerifyMember
<1>2. next \in Nat
  BY <1>1, MemFields, BodyFields, NextLiveIsLive
<1>3. /\ \/ Goto(c, "verify", q)
         \/ Stop(c)
         \/ m.op # "append" /\ Goto(c, "rmPayload", m)
         \/ m.op # "append" /\ Goto(c, "receipt", m)
      /\ acked' = acked \/ acked' = acked \cup ({m.cand} \ {NoDir})
      /\ UNCHANGED <<store, cleaned, doomed>>
  BY DEF VerifyMember
<1>4. m.cand \in Dirs \cup {NoDir} /\ m.op \in {"none", "append", "delete"}
  BY <1>1, MemFields
<1> HIDE DEF next
<1>5. /\ q \in Mems
      /\ q.tdoc = m.tdoc /\ q.ldoc = m.ldoc /\ q.op = m.op /\ q.meta = m.meta /\ q.obs = m.obs
  BY <1>1, <1>2 DEF Mems
<1> HIDE DEF m, q
<1>6. LocalOK("verify", q)
  BY <1>1, <1>5 DEF ObservedOK, TombstonedOK, LocalOK, DocsOK, ReturnsOK, AppendOK, DeleteOK
<1>7. m.op = "delete" => LocalOK("rmPayload", m) /\ LocalOK("receipt", m)
  BY <1>1 DEF LocalOK, DocsOK, ReturnsOK, AppendOK, DeleteOK
<1>8. m.op # "none"
  BY <1>1 DEF LocalOK, DocsOK, ReturnsOK, AppendOK, DeleteOK
<1>9. Moves(c)
  BY <1>1, <1>3, <1>4, <1>5, <1>6, <1>7, <1>8, GotoMoves, StopMoves DEF Labels
<1>10. acked' \subseteq Dirs
  BY <1>3, <1>4 DEF Inv, TypeOK
<1>11. StoreOK' /\ Replaces
  BY <1>3, <1>10, StoreKept DEF StoreOK, LateOK, store
<1> QED
  BY <1>9, <1>11 DEF StepOK

-----------------------------------------------------------------------------
(* DeleteUploadWithOptions.                                                *)

LEMMA DeleteStartOK ==
  ASSUME Inv, NEW c \in Clients, NEW d \in Dirs, DeleteStart(c, d)
  PROVE  StepOK(c)
<1> DEFINE doc == [Load(d) EXCEPT !.vers = Absent]
           q == [NoMem EXCEPT !.op = "delete", !.tdoc = doc]
<1>1. doc \in Docs /\ doc.vers = Absent /\ doc.dir = d
  BY LoadOK, BodyTypes DEF Docs
<1>2. Goto(c, "reserve", q) \/ Goto(c, "read", q)
  BY DEF DeleteStart
<1> HIDE DEF doc
<1>3. q \in Mems /\ q.tdoc = doc /\ q.ldoc = NoDoc /\ q.op = "delete"
  BY <1>1, NoMemOK DEF Mems
<1> HIDE DEF q
<1>4. LocalOK("reserve", q) /\ LocalOK("read", q)
  BY <1>1, <1>3, NoMemOK DEF DocOK, LocalOK, DocsOK, ReturnsOK, AppendOK, DeleteOK
<1>5. Moves(c)
  BY <1>2, <1>3, <1>4, GotoMoves DEF Labels
<1> QED
  BY <1>5, ReadStep DEF DeleteStart

LEMMA ReserveOK ==
  ASSUME Inv, NEW c \in Clients, Reserve(c)
  PROVE  StepOK(c)
<1> DEFINE m == mem[c]
<1>1. m \in Mems /\ LocalOK("reserve", m)
  BY Current DEF Reserve
<1>2. LocalOK("rmPayload", m) /\ m.tdoc.dir \in Dirs
  BY <1>1 DEF LocalOK, DocsOK, ReturnsOK, AppendOK, DeleteOK
<1>3. Moves(c)
  BY <1>1, <1>2, GotoMoves DEF Reserve, Labels
<1>4. PutVers(m.tdoc.dir, Absent, Reserved) \/ vers' = vers
  BY DEF Reserve
<1>5. vers' \in [Dirs -> Bodies] /\ Replaces
  BY <1>4, BodyTypes, CreateOK, PutKeeps, StoreKept DEF StoreOK
<1>6. doomed' \subseteq Dirs
  BY <1>2 DEF Reserve, Inv, TypeOK
<1>7. StoreOK'
  BY <1>5, <1>6, StoreKept DEF Reserve, StoreOK, LateOK
<1> QED
  BY <1>3, <1>5, <1>7 DEF StepOK

LEMMA ReadTargetOK ==
  ASSUME Inv, NEW c \in Clients, ReadTarget(c)
  PROVE  StepOK(c)
<1> DEFINE m == mem[c]
           t == m.tdoc
           body == vers[t.dir]
           newest == NextWitness(body.ents, Len(body.ents) + 1, 0)
           doc == [t EXCEPT !.vers = body]
           latest == [m EXCEPT !.obs = body, !.ldoc = doc]
           q == [m EXCEPT !.obs = body, !.meta = body, !.reserved = TRUE, !.i = newest]
<1>1. m \in Mems /\ LocalOK("read", m)
  BY Current DEF ReadTarget
<1>2. t \in Docs /\ t.dir \in Dirs
  BY <1>1, MemFields DEF LocalOK, DocsOK
<1>3. body \in Bodies /\ body.ents \in Seq(Entries)
  BY <1>2, LoadOK, BodyFields
<1> HIDE DEF m, t, body
<1>4. newest \in Nat /\ (newest # 0 => IsLive(body.ents, newest))
  <2>1. Len(body.ents) + 1 \in Nat
    BY <1>3, EntryTypes
  <2>2. newest \in Nat /\ (newest # 0 => newest \in LiveNumbers(body.ents))
    BY <1>3, <2>1, NextWitnessIsLive, Zenon
  <2> QED
    BY <1>3, <2>2, EntryTypes
<1>5. \/ t.marker.prev # NoDir /\ Goto(c, "annRead", m)
      \/ Goto(c, "rmPayload", m)
      \/ /\ body.chain = t.marker.chain
         /\ Decodes(body, t.dir)
         /\ Goto(c, "tombstone", latest) \/ Goto(c, "follow", latest)
      \/ /\ body.chain = t.marker.chain
         /\ newest # 0
         /\ Goto(c, "survivor", q)
  BY DEF ReadTarget, m, t, body
<1> HIDE DEF newest
<1>6. /\ doc \in Docs /\ doc.dir = t.dir /\ doc.vers = body
  BY <1>2, <1>3 DEF Docs
<1> HIDE DEF doc
<1>7. /\ latest \in Mems /\ latest.tdoc = t /\ latest.ldoc = doc /\ latest.obs = body
      /\ q \in Mems /\ q.tdoc = t /\ q.ldoc = m.ldoc /\ q.obs = body /\ q.meta = body
      /\ q.i = newest /\ latest.op = m.op /\ q.op = m.op
  BY <1>1, <1>3, <1>4, <1>6 DEF Mems, t
<1> HIDE DEF latest, q
<1>8. m.op = "delete"
  BY <1>1 DEF LocalOK, DeleteOK
<1>9. t.marker.prev # NoDir => LocalOK("annRead", m)
  BY <1>1 DEF t, LocalOK, DocsOK, ReturnsOK, AppendOK, DeleteOK
<1>10. LocalOK("rmPayload", m)
  BY <1>1 DEF LocalOK, DocsOK, ReturnsOK, AppendOK, DeleteOK
<1>11. body.chain = t.marker.chain /\ Decodes(body, t.dir) =>
         LocalOK("tombstone", latest) /\ LocalOK("follow", latest)
  <2> SUFFICES ASSUME body.chain = t.marker.chain, Decodes(body, t.dir)
               PROVE  LocalOK("tombstone", latest) /\ LocalOK("follow", latest)
    OBVIOUS
  <2>1. body # Absent
    BY <1>2, <1>3, DecodesParts
  <2>2. DocOK(latest.tdoc) /\ DocOK(latest.ldoc)
    BY <1>1, <1>6, <1>7 DEF DocOK, LocalOK, DocsOK, t
  <2> QED
    BY <1>2, <1>6, <1>7, <1>8, <2>1, <2>2 DEF ObservedOK, LocalOK, DocsOK, ReturnsOK, AppendOK, DeleteOK
<1>12. body.chain = t.marker.chain /\ newest # 0 => LocalOK("survivor", q)
  <2>1. DocOK(q.tdoc) /\ DocOK(q.ldoc)
    BY <1>1, <1>7 DEF LocalOK, DocsOK, t
  <2> QED
    BY <1>2, <1>4, <1>7, <1>8, <2>1 DEF ObservedOK, LocalOK, DocsOK, ReturnsOK, AppendOK, DeleteOK
<1>13. Moves(c)
  BY <1>1, <1>5, <1>7, <1>9, <1>10, <1>11, <1>12, GotoMoves DEF Labels
<1> QED
  BY <1>13, ReadStep DEF ReadTarget

LEMMA SurvivorOK ==
  ASSUME Inv, NEW c \in Clients, Survivor(c)
  PROVE  StepOK(c)
<1> DEFINE m == mem[c]
           d == m.meta.ents[m.i].dir
           next == NextWitness(m.meta.ents, m.i, 0)
           doc == Load(d)
           q == [m EXCEPT !.i = next]
           r == [m EXCEPT !.ldoc = doc]
<1>1. m \in Mems /\ LocalOK("survivor", m) /\ m.meta \in Bodies /\ m.i \in Nat
  BY Current, MemFields DEF Survivor
<1>2. d \in Dirs
  BY <1>1, LiveDir DEF LocalOK, DocsOK
<1>3. next \in Nat /\ (next # 0 => IsLive(m.meta.ents, next))
  BY <1>1, BodyFields, NextWitnessIsLive, EntryTypes
<1>4. /\ doc \in Docs /\ doc.vers = vers[d]
      /\ Loads(d) => DocOK(doc)
  BY <1>2, LoadOK
<1>5. \/ next # 0 /\ Goto(c, "survivor", q)
      \/ /\ Loads(d) /\ doc.vers # Absent /\ doc.vers.chain = m.tdoc.marker.chain
         /\ Goto(c, "tombstone", r)
  BY <1>4 DEF Survivor, HasIndex
<1> HIDE DEF next, doc
<1>6. /\ q \in Mems /\ q.tdoc = m.tdoc /\ q.ldoc = m.ldoc /\ q.obs = m.obs
      /\ q.meta = m.meta /\ q.i = next /\ q.op = m.op
      /\ r \in Mems /\ r.tdoc = m.tdoc /\ r.ldoc = doc /\ r.obs = m.obs /\ r.op = m.op
  BY <1>1, <1>3, <1>4 DEF Mems
<1> HIDE DEF m, d, q, r
<1>7. next # 0 => LocalOK("survivor", q)
  BY <1>1, <1>3, <1>6 DEF ObservedOK, LocalOK, DocsOK, ReturnsOK, AppendOK, DeleteOK
<1>8. DocOK(doc) /\ doc.vers # Absent /\ doc.vers.chain = m.tdoc.marker.chain =>
        LocalOK("tombstone", r)
  BY <1>1, <1>6 DEF ObservedOK, LocalOK, DocsOK, ReturnsOK, AppendOK, DeleteOK
<1>9. Moves(c)
  BY <1>4, <1>5, <1>6, <1>7, <1>8, GotoMoves DEF Labels
<1> QED
  BY <1>9, ReadStep DEF Survivor

LEMMA FollowForDeleteOK ==
  ASSUME Inv, NEW c \in Clients, FollowForDelete(c)
  PROVE  StepOK(c)
<1> DEFINE m == mem[c]
           d == m.ldoc.vers.ents[LatestOf(m.ldoc.vers.ents)].dir
           doc == Load(d)
           q == [m EXCEPT !.ldoc = doc]
<1>1. m \in Mems /\ LocalOK("follow", m) /\ m.op = "delete"
  BY Current DEF FollowForDelete
<1>2. m.ldoc \in Docs /\ m.ldoc.vers \in Bodies /\ Decodes(m.ldoc.vers, m.ldoc.dir)
  BY <1>1, MemFields, DocFields DEF LocalOK, DocsOK, DocOK, DeleteOK
<1>3. d \in Dirs
  BY <1>2, DocFields, DecodesParts
<1>4. /\ doc \in Docs /\ doc.vers = vers[d] /\ doc.dir = d
      /\ Loads(d) => DocOK(doc)
  BY <1>3, LoadOK
<1>5. /\ Loads(d) /\ doc.vers # Absent /\ doc.vers.chain = m.tdoc.marker.chain
      /\ Goto(c, "tombstone", q) \/ Goto(c, "follow", q)
  BY <1>4 DEF FollowForDelete, HasIndex
<1> HIDE DEF doc
<1>6. q \in Mems /\ q.tdoc = m.tdoc /\ q.ldoc = doc /\ q.obs = m.obs /\ q.op = "delete"
  BY <1>1, <1>4 DEF Mems
<1> HIDE DEF m, d, q
<1>7. m.tdoc.dir \in Dirs /\ ObservedOK(m) /\ DocOK(m.tdoc)
  BY <1>1 DEF LocalOK, DocsOK, DeleteOK
<1>8. ObservedOK(q)
  BY <1>6, <1>7 DEF ObservedOK
<1>9. LocalOK("tombstone", q) /\ LocalOK("follow", q)
  BY <1>3, <1>4, <1>5, <1>6, <1>7, <1>8 DEF LocalOK, DocsOK, ReturnsOK, AppendOK, DeleteOK
<1>10. Moves(c)
  BY <1>5, <1>6, <1>9, GotoMoves DEF Labels
<1> QED
  BY <1>10, ReadStep DEF FollowForDelete

LEMMA TombstoneOK ==
  ASSUME Inv, NEW c \in Clients, NEW at \in Stamps, Tombstone(c, at)
  PROVE  StepOK(c)
<1> DEFINE m == mem[c]
           t == m.tdoc
           before == m.ldoc.vers
           number == t.marker.num
           ents == TombstoneAt(before.ents, number, at)
           meta == IndexBody(before.chain, before.cur, ents)
           q == [m EXCEPT !.meta = meta, !.ser = m.ldoc.dir, !.ldoc = NoDoc]
           final == FinalReservation(before.chain, number, before.last)
<1>1. m \in Mems /\ LocalOK("tombstone", m)
  BY Current DEF Tombstone
<1>2. /\ t \in Docs /\ t.dir \in Dirs /\ DocOK(t) /\ number \in Nat
      /\ before \in Bodies /\ before # Absent /\ before.ents \in Seq(Entries)
      /\ before.chain \in Dirs \cup {NoDir} /\ before.cur \in Nat /\ before.last \in Nat
      /\ before.chain = t.marker.chain /\ ObservedOK(m) /\ m.op = "delete"
      /\ m.ldoc.dir \in Dirs \cup {NoDir}
  BY <1>1, MemFields, DocFields, BodyFields DEF LocalOK, DocsOK, DeleteOK
<1>3. number \in DOMAIN before.ents
  BY DEF Tombstone
<1> HIDE DEF number, before
<1>4. ents \in Seq(Entries) /\ EntsPrecede(before.ents, ents) /\ ~IsLive(ents, number)
  BY <1>2, <1>3, TombstonePrecedes
<1> HIDE DEF ents
<1>5. meta \in Bodies /\ final \in Bodies
  BY <1>2, <1>4, BodyTypes
<1>6. MayReplace(before, meta)
  BY <1>4 DEF MayReplace, IndexBody
<1>7. MayReplace(m.obs, final)
  BY <1>2 DEF MayReplace, FinalReservation, ObservedOK, t
<1>8. \/ PutVers(t.dir, m.obs, final) /\ Goto(c, "rmPayload", m)
      \/ /\ PutVers(m.ldoc.dir, before, meta) \/ vers' = vers
         /\ Propagate(c, q, 0)
  BY DEF Tombstone, ents, number, before
<1>9. meta.chain = before.chain /\ meta.ents = ents
  BY DEF IndexBody
<1>10. doomed' \subseteq Dirs
  BY <1>2 DEF Tombstone, Inv, TypeOK
<1> HIDE DEF meta, final
<1>11. /\ q \in Mems /\ q.tdoc = t /\ q.ldoc = NoDoc /\ q.op = m.op /\ q.meta = meta
       /\ q.obs = m.obs
  BY <1>1, <1>2, <1>5, NoMemOK, MemFields DEF Mems
<1> HIDE DEF q
<1>12. LocalOK("rmPayload", m)
  BY <1>1 DEF LocalOK, DocsOK, ReturnsOK, AppendOK, DeleteOK
<1>13. TombstonedOK(q)
  BY <1>2, <1>4, <1>9, <1>11 DEF TombstonedOK, number, t
<1>14. PublishOK(q)
  BY <1>2, <1>11, <1>13, NoMemOK DEF PublishOK, ObservedOK, t
<1>15. Moves(c)
  BY <1>1, <1>8, <1>11, <1>12, <1>14, GotoMoves, PropagateMoves DEF Labels
<1>16. vers' \in [Dirs -> Bodies] /\ Replaces
  BY <1>5, <1>6, <1>7, <1>8, PutKeeps, StoreKept DEF StoreOK
<1>17. StoreOK'
  BY <1>10, <1>16, StoreKept DEF Tombstone, StoreOK, LateOK
<1> QED
  BY <1>15, <1>16, <1>17 DEF StepOK

LEMMA ReceiptOK ==
  ASSUME Inv, NEW c \in Clients, Receipt(c)
  PROVE  StepOK(c)
<1> DEFINE m == mem[c]
           t == m.tdoc
           body == IndexBody(m.meta.chain, t.marker.num, m.meta.ents)
<1>1. m \in Mems /\ LocalOK("receipt", m)
  BY Current DEF Receipt
<1>2. body \in Bodies
  BY <1>1, MemFields, DocFields, BodyFields, BodyTypes
<1>3. LocalOK("rmPayload", m)
  BY <1>1 DEF LocalOK, DocsOK, ReturnsOK, AppendOK, DeleteOK
<1>4. Moves(c)
  BY <1>1, <1>3, GotoMoves DEF Receipt, Labels
<1>5. MayReplace(m.obs, body)
  <2>1. m.obs.kind = "index" => m.obs.chain = m.meta.chain
    BY <1>1 DEF LocalOK, DeleteOK, ObservedOK, TombstonedOK
  <2>2. CurrentDeleted(body)
    BY <1>1 DEF LocalOK, DeleteOK, TombstonedOK, IndexBody, CurrentDeleted
  <2> QED
    BY <2>1, <2>2 DEF MayReplace, IndexBody
<1>6. vers' \in [Dirs -> Bodies] /\ Replaces
  BY <1>2, <1>5, PutKeeps DEF Receipt
<1> QED
  BY <1>4, <1>6, PutStep DEF Receipt

LEMMA RemovePayloadOK ==
  ASSUME Inv, NEW c \in Clients, RemovePayload(c)
  PROVE  StepOK(c)
<1> DEFINE m == mem[c]
<1>1. m \in Mems /\ LocalOK("rmPayload", m) /\ m.cand \in Dirs \cup {NoDir}
  BY Current, MemFields DEF RemovePayload
<1>2. LocalOK("rmMarker", m)
  BY <1>1 DEF LocalOK, DocsOK, ReturnsOK, AppendOK, DeleteOK
<1>3. Moves(c)
  BY <1>1, <1>2, GotoMoves DEF RemovePayload, Labels
<1>4. payload' \in [Dirs -> Payloads] /\ cleaned' \subseteq Dirs
  BY <1>1 DEF RemovePayload, Inv, TypeOK, Payloads
<1>5. StoreOK' /\ Replaces
  BY <1>4, StoreKept DEF RemovePayload, StoreOK, LateOK
<1> QED
  BY <1>3, <1>5 DEF StepOK

LEMMA RemoveMarkerOK ==
  ASSUME Inv, NEW c \in Clients, RemoveMarker(c)
  PROVE  StepOK(c)
<1>1. Moves(c)
  BY StopMoves DEF RemoveMarker
<1>2. NoMarker \in Markers
  BY DEF NoMarker, Markers, Descriptors
<1>3. marker' \in [Dirs -> Markers]
  BY <1>2 DEF RemoveMarker, Inv, TypeOK
<1>4. StoreOK' /\ Replaces
  BY <1>3, StoreKept DEF RemoveMarker, StoreOK, LateOK
<1> QED
  BY <1>1, <1>4 DEF StepOK

-----------------------------------------------------------------------------
(* classifyRevisionCandidate.                                              *)

LEMMA UnannouncedMoves ==
  ASSUME NEW c, NEW m \in Mems, DocOK(m.tdoc), DocOK(m.ldoc), m.tdoc.dir \in Dirs,
         Unannounced(c, m) \/ Goto(c, "rmPayload", m)
  PROVE  Moves(c)
<1> DEFINE q == [m EXCEPT !.cand = m.tdoc.dir]
<1>1. q \in Mems /\ q.tdoc = m.tdoc /\ q.ldoc = m.ldoc
  BY DEF Mems
<1>2. Goto(c, "rmPayload", q) \/ Goto(c, "rmPayload", m)
  BY DEF Unannounced
<1> HIDE DEF q
<1>3. LocalOK("rmPayload", q) /\ LocalOK("rmPayload", m)
  BY <1>1 DEF LocalOK, DocsOK, ReturnsOK, AppendOK, DeleteOK
<1> QED
  BY <1>1, <1>2, <1>3, GotoMoves DEF Labels

LEMMA RepairMoves ==
  ASSUME Inv, NEW c \in Clients, NEW m \in Mems, m.tdoc.dir \in Dirs, Repair(c, m)
  PROVE  Moves(c)
<1>1. Loads(m.tdoc.dir) /\ Loaded(c, m, Load(m.tdoc.dir))
  BY DEF Repair
<1> DEFINE doc == Load(m.tdoc.dir)
<1>2. doc \in Docs /\ DocOK(doc) /\ doc.dir \in Dirs
  BY <1>1, LoadOK
<1> HIDE DEF doc
<1> QED
  BY <1>1, <1>2, LoadedMoves DEF doc

LEMMA ClassifyReadOK ==
  ASSUME Inv, NEW c \in Clients, ClassifyRead(c)
  PROVE  StepOK(c)
<1> DEFINE m == mem[c]
           t == m.tdoc
           body == vers[t.marker.prev]
           newest == NextWitness(body.ents, Len(body.ents) + 1, t.marker.num)
           q == [m EXCEPT !.meta = body, !.i = newest]
<1>1. m \in Mems /\ LocalOK("annRead", m)
  BY Current DEF ClassifyRead
<1>2. /\ DocOK(t) /\ DocOK(m.ldoc) /\ t.dir \in Dirs
      /\ t.marker.prev \in Dirs
  BY <1>1, MemFields, DocFields DEF LocalOK, DocsOK
<1>3. body \in Bodies /\ body.ents \in Seq(Entries)
  BY <1>2, LoadOK, BodyFields
<1> HIDE DEF m, t, body
<1>4. newest \in Nat /\ (newest # 0 => IsLive(body.ents, newest))
  <2>1. Len(body.ents) + 1 \in Nat
    BY <1>3, EntryTypes
  <2>2. newest \in Nat /\ (newest # 0 => newest \in LiveNumbers(body.ents))
    BY <1>3, <2>1, NextWitnessIsLive, Zenon
  <2> QED
    BY <1>3, <2>2, EntryTypes
<1>5. \/ Goto(c, "annLoad", m)
      \/ Unannounced(c, m)
      \/ Goto(c, "rmPayload", m)
      \/ newest # 0 /\ Goto(c, "annRefine", q)
      \/ Repair(c, m)
  BY DEF ClassifyRead, Classify, m, t, body
<1> HIDE DEF newest
<1>6. q \in Mems /\ q.tdoc = t /\ q.ldoc = m.ldoc /\ q.meta = body /\ q.i = newest
  BY <1>1, <1>3, <1>4 DEF Mems, t
<1> HIDE DEF q
<1>7. LocalOK("annLoad", m)
  BY <1>1 DEF LocalOK, DocsOK, ReturnsOK, AppendOK, DeleteOK
<1>8. newest # 0 => LocalOK("annRefine", q)
  BY <1>1, <1>4, <1>6 DEF t, LocalOK, DocsOK, ReturnsOK, AppendOK, DeleteOK
<1>9. Moves(c)
  BY <1>1, <1>2, <1>5, <1>6, <1>7, <1>8, GotoMoves, UnannouncedMoves, RepairMoves DEF Labels, t
<1> QED
  BY <1>9, ReadStep DEF ClassifyRead

LEMMA ClassifyRefineOK ==
  ASSUME Inv, NEW c \in Clients, ClassifyRefine(c)
  PROVE  StepOK(c)
<1> DEFINE m == mem[c]
           next == NextWitness(m.meta.ents, m.i, m.tdoc.marker.num)
           q == [m EXCEPT !.i = next]
<1>1. m \in Mems /\ LocalOK("annRefine", m) /\ m.meta \in Bodies /\ m.i \in Nat
  BY Current, MemFields DEF ClassifyRefine
<1>2. DocOK(m.tdoc) /\ DocOK(m.ldoc) /\ m.tdoc.dir \in Dirs
  BY <1>1 DEF LocalOK, DocsOK
<1>3. next \in Nat /\ (next # 0 => IsLive(m.meta.ents, next))
  BY <1>1, BodyFields, NextWitnessIsLive, EntryTypes
<1>4. \/ Unannounced(c, m)
      \/ Goto(c, "rmPayload", m)
      \/ next # 0 /\ Goto(c, "annRefine", q)
      \/ Repair(c, m)
  BY DEF ClassifyRefine, Classify
<1> HIDE DEF m, next
<1>5. q \in Mems /\ q.tdoc = m.tdoc /\ q.ldoc = m.ldoc /\ q.meta = m.meta /\ q.i = next
  BY <1>1, <1>3 DEF Mems
<1> HIDE DEF q
<1>6. next # 0 => LocalOK("annRefine", q)
  BY <1>1, <1>3, <1>5 DEF LocalOK, DocsOK, ReturnsOK, AppendOK, DeleteOK
<1>7. Moves(c)
  BY <1>1, <1>2, <1>4, <1>5, <1>6, GotoMoves, UnannouncedMoves, RepairMoves DEF Labels
<1> QED
  BY <1>7, ReadStep DEF ClassifyRefine

LEMMA ClassifyLoadOK ==
  ASSUME Inv, NEW c \in Clients, ClassifyLoad(c)
  PROVE  StepOK(c)
<1> DEFINE m == mem[c]
           p == m.tdoc.marker.prev
           doc == Load(p)
           q == [m EXCEPT !.ldoc = doc]
<1>1. m \in Mems /\ LocalOK("annLoad", m)
  BY Current DEF ClassifyLoad
<1>2. DocOK(m.tdoc) /\ DocOK(m.ldoc) /\ m.tdoc.dir \in Dirs /\ p \in Dirs
  BY <1>1, MemFields, DocFields DEF LocalOK, DocsOK
<1>3. doc \in Docs /\ (Loads(p) => DocOK(doc))
  BY <1>2, LoadOK
<1>4. \/ Unannounced(c, m)
      \/ Goto(c, "rmPayload", m)
      \/ Repair(c, m)
      \/ Loads(p) /\ Goto(c, "annClaim", q)
  BY DEF ClassifyLoad, Classify, HasIndex
<1> HIDE DEF m, p, doc
<1>5. q \in Mems /\ q.tdoc = m.tdoc /\ q.ldoc = doc
  BY <1>1, <1>3 DEF Mems
<1> HIDE DEF q
<1>6. Loads(p) => LocalOK("annClaim", q)
  BY <1>2, <1>3, <1>5 DEF LocalOK, DocsOK, ReturnsOK, AppendOK, DeleteOK
<1>7. Moves(c)
  BY <1>1, <1>2, <1>4, <1>5, <1>6, GotoMoves, UnannouncedMoves, RepairMoves DEF Labels
<1> QED
  BY <1>7, ReadStep DEF ClassifyLoad

LEMMA ClassifyClaimOK ==
  ASSUME Inv, NEW c \in Clients, ClassifyClaim(c)
  PROVE  StepOK(c)
<1> DEFINE m == mem[c]
<1>1. m \in Mems /\ LocalOK("annClaim", m) /\ m.ldoc.vers \in Bodies
  BY Current, MemFields, DocFields DEF ClassifyClaim
<1>2. DocOK(m.tdoc) /\ DocOK(m.ldoc) /\ m.tdoc.dir \in Dirs
  BY <1>1 DEF LocalOK, DocsOK
<1>3. Moves(c)
  BY <1>1, <1>2, UnannouncedMoves DEF ClassifyClaim
<1>4. vers' \in [Dirs -> Bodies] /\ Replaces
  BY <1>1, ClaimMayReplace, PutKeeps DEF ClassifyClaim
<1>5. claims' \in 0..MaxClaims
  BY BoundsAssumption DEF ClassifyClaim, Inv, TypeOK
<1>6. StoreOK'
  BY <1>4, <1>5, StoreKept DEF ClassifyClaim, StoreOK, LateOK
<1> QED
  BY <1>3, <1>4, <1>6 DEF StepOK

LEMMA GiveUpOK ==
  ASSUME Inv, NEW c \in Clients, GiveUp(c)
  PROVE  StepOK(c)
BY StopMoves, ReadStep DEF GiveUp

-----------------------------------------------------------------------------
(* The specification.                                                      *)

LEMMA PrepareStepOK ==
  ASSUME Inv, NEW c \in Clients, PrepareStep(c)
  PROVE  StepOK(c)
BY ReloadOK, RepairPageOK, FirstOK, FollowOK, FixReadOK, FixReceiptOK, FixWitnessOK, FixPutOK,
   PromoteMarkerOK, PromotePageOK, PromoteVerifyOK DEF PrepareStep

LEMMA AppendStepOK ==
  ASSUME Inv, NEW c \in Clients, AppendStep(c)
  PROVE  StepOK(c)
BY PutMarkerOK, PutPayloadOK, PutPayloadFailsOK,
   CommitAppliedOK, CommitRefusedOK, CommitEchoedOK, CommitUnknownOK,
   RecReadOK, RecCandOK, RecRetryOK, RecRereadOK, RecClaimOK,
   RollbackPayloadOK, RollbackMarkerOK, NewIndexOK, PlanUnchangedOK DEF AppendStep

LEMMA PublishStepOK ==
  ASSUME Inv, NEW c \in Clients, PublishStep(c)
  PROVE  StepOK(c)
BY PropagateReadOK, PropagatePutOK, VerifyMemberOK,
   PropagateCheckOK, PropagateMemberOK, PropagateMakeOK DEF PublishStep

LEMMA DeleteStepOK ==
  ASSUME Inv, NEW c \in Clients, DeleteStep(c)
  PROVE  StepOK(c)
BY ReserveOK, ReadTargetOK, SurvivorOK, FollowForDeleteOK, TombstoneOK, ReceiptOK,
   RemovePayloadOK, RemoveMarkerOK,
   ClassifyReadOK, ClassifyRefineOK, ClassifyLoadOK, ClassifyClaimOK DEF DeleteStep

LEMMA StartOK ==
  ASSUME Inv, NEW c \in Clients, Start(c)
  PROVE  StepOK(c)
BY AppendStartOK, DeleteStartOK, TargetsAssumption DEF Start

(* The bucket holds one standalone upload and every client is idle.        *)
LEMMA InitInv == Init => Inv
<1> SUFFICES ASSUME Init PROVE Inv
  OBVIOUS
<1>1. NoMarker \in Markers /\ StandaloneMarker \in Markers
  BY DEF NoMarker, StandaloneMarker, Markers, Descriptors
<1>2. TypeOK
  BY <1>1, NoMemOK, BodyTypes, RootAssumption, BoundsAssumption
     DEF Init, TypeOK, Payloads, Labels
<1>3. LocalOK("idle", NoMem)
  BY NoMemOK DEF LocalOK, DocsOK, ReturnsOK, AppendOK, DeleteOK
<1>4. \A c \in Clients : LocalOK(pc[c], mem[c])
  BY <1>3 DEF Init
<1> QED
  BY <1>2, <1>4 DEF Init, Inv, LateOK

(* Every step keeps the invariant and replaces indexes only by later ones. *)
LEMMA NextInv ==
  ASSUME Inv, [Next]_vars
  PROVE  Inv' /\ Replaces
<1>1. CASE UNCHANGED vars
  <2>1. Inv'
    BY <1>1 DEF vars, Inv, TypeOK, LateOK
  <2> QED
    BY <1>1, <2>1, StoreKept DEF vars
<1>2. ASSUME NEW c \in Clients, Start(c) \/ Step(c)
      PROVE  Inv' /\ Replaces
  <2>1. StepOK(c)
    BY <1>2, StartOK, PrepareStepOK, AppendStepOK, PublishStepOK, DeleteStepOK DEF Step
  <2> QED
    BY <2>1, StepKeepsInv
<1>3. ASSUME NEW c \in Retriers, GiveUp(c)
      PROVE  Inv' /\ Replaces
  <2>1. c \in Clients
    BY RetriersAssumption
  <2> QED
    BY <1>3, <2>1, GiveUpOK, StepKeepsInv
<1>4. ASSUME NEW put \in late, DeliverLate(put)
      PROVE  Inv' /\ Replaces
  BY <1>4, DeliverLateOK
<1> QED
  BY <1>1, <1>2, <1>3, <1>4 DEF Next

(* The strengthened invariant: in every reachable state the store, the     *)
(* requests still to arrive and the local state of each operation at its   *)
(* control point are ones the storage calls of update.go and delete.go     *)
(* may go on from.                                                         *)
THEOREM InvariantHolds == Spec => []Inv
<1>1. Inv /\ [Next]_vars => Inv'
  BY NextInv
<1> QED
  BY <1>1, InitInv, PTL DEF Spec

(* Every variable has its type in every reachable state: no operation ever *)
(* stores, keeps or sends anything but well-formed markers and indexes,    *)
(* and none goes on with a directory it does not know.                     *)
THEOREM TypeCorrect == Spec => []TypeOK
<1>1. Inv => TypeOK
  BY DEF Inv
<1> QED
  BY <1>1, InvariantHolds, PTL

(* No step of any client, in any interleaving and with requests that       *)
(* arrive late, takes back an entry of an index whose revision is live.    *)
THEOREM ReplicasMonotone == Spec => MonotoneReplica
<1>1. Inv /\ [Next]_vars =>
        [\A d \in Dirs : vers[d].kind = "index" =>
           /\ vers'[d].kind \in {"index", "final"}
           /\ vers'[d].chain = vers[d].chain
           /\ vers'[d].kind = "index" /\ ~CurrentDeleted(vers'[d]) =>
                EntsPrecede(vers[d].ents, vers'[d].ents)]_vars
  BY NextInv DEF Replaces, MayReplace
<1> QED
  BY <1>1, InvariantHolds, PTL DEF Spec, MonotoneReplica
=============================================================================
