-------------------------- MODULE ManifestSyncProofs --------------------------
(***************************************************************************)
(* What the manifest records is true (RecordsSound), for any number of     *)
(* commands, syncs, directories and foreign changes, and any records lost  *)
(* or torn.                                                                *)
(*                                                                         *)
(* A record outlives what it was made from: it is planned from a listing   *)
(* or a snapshot, waits for its turn in a command or under the lock, and   *)
(* stays in the file.  So one predicate, Tells, says of a record what no   *)
(* later step can make untrue, and Inv says that every record has it,      *)
(* wherever it is.  A process knows nothing of the others but that the     *)
(* store only Grows.                                                       *)
(***************************************************************************)
EXTENDS ManifestSync, FiniteSetTheorems, SequenceTheorems, WellFoundedInduction, TLAPS

(* What every record is, wherever it is: in the file, in a command's hands, *)
(* in a sync's snapshot, plan or output.  It was made for a directory that  *)
(* had been drawn; it names the directory's revision or none; it announces  *)
(* a revision only when the index has, and reports a deletion only when the *)
(* marker has gone.                                                         *)
Tells(r) ==
  /\ r \in Records /\ Valid(r)
  /\ r.dir \in drawn
  /\ r.chain # NoChain => r.chain = Chain /\ r.rev = Number[r.dir]
  /\ Announced(r) => bucket[r.dir].kind = "announced"
  /\ r.type = "delete" =>
       ~bucket[r.dir].present /\ (r.rev > 0 => bucket[r.dir].kind = "announced")

Listed(d) == bucket[d].kind = "announced"

(* A directory not drawn yet is empty; a number is announced once; who is   *)
(* announced as the first revision has a successor.                         *)
StoreOK ==
  /\ bucket \in [Dirs -> Directories]
  /\ drawn \subseteq Dirs
  /\ \A d \in Dirs \ drawn : ~bucket[d].present /\ bucket[d].kind = "standalone"
  /\ \A d, e \in Dirs : Listed(d) /\ Listed(e) /\ Number[d] = Number[e] => d = e
  /\ \A d \in Dirs : Listed(d) /\ Number[d] = 1 => \E e \in Dirs : Listed(e) /\ Number[e] = 2

FileOK ==
  /\ lines \in Seq(Records \cup {Garbage}) /\ newline \in BOOLEAN
  /\ ~newline => lines # <<>>
  /\ \A i \in DOMAIN lines : lines[i] = Garbage \/ Tells(lines[i])

CommandOps == {"idle", "upload", "append", "delete", "protect", "unprotect", "upgrade"}
CommandSteps == {"none", "payload", "announce", "marker", "sentinel", "record", "links"}
Running == [op : CommandOps, dir : {NoOp.dir} \cup Dirs, step : CommandSteps,
            rec : SUBSET Records, links : SUBSET Dirs]

ClientOK(p) ==
  /\ cl[p] \in Running
  /\ cl[p].op # "idle" => cl[p].dir \in drawn
  /\ \A r \in cl[p].rec : Tells(r)

(* The active record of a directory in what a sync has read.                *)
Projects(r, d) == Tells(r) /\ r.type \in UploadTypes /\ r.managed /\ r.dir = d
HistoryOK(h) ==
  /\ \A d \in Dirs : \A r \in h.active[<<TRUE, d>>] : Projects(r, d)
  /\ h.deleted \subseteq Chains \X Nat

Planned == [added : SUBSET Records, enriched : SUBSET Records,
            tombstones : SUBSET Records, protection : SUBSET Records]
PlanOK(plan) ==
  /\ plan \in Planned
  /\ IsFiniteSet(plan.added) /\ IsFiniteSet(plan.enriched)
  /\ IsFiniteSet(plan.tombstones) /\ IsFiniteSet(plan.protection)
  /\ \A r \in plan.added \cup plan.enriched \cup plan.tombstones \cup plan.protection : Tells(r)
  /\ \A r \in plan.enriched : r.type \in UploadTypes

SyncStates == [phase : {"idle", "list", "work", "write"}, len : Nat,
               snap : [active : [Identities -> SUBSET Records], protected : SUBSET Identities,
                       deleted : SUBSET (Chains \X Nat)],
               listing : [Dirs -> Directories] \cup {<<>>}, todo : SUBSET Dirs, plan : Planned,
               out : Seq(Records)]

(* A job without a marker in the listing is about an upload of the snapshot.*)
SyncOK(s) ==
  /\ sy[s] \in SyncStates
  /\ HistoryOK(sy[s].snap)
  /\ PlanOK(sy[s].plan)
  /\ sy[s].phase = "work" =>
       /\ sy[s].listing \in [Dirs -> Directories]
       /\ \A d \in sy[s].todo : sy[s].listing[d].present \/ IsActive(sy[s].snap, d)
  /\ sy[s].phase = "write" => sy[s].out # <<>>
  /\ \A i \in DOMAIN sy[s].out : Tells(sy[s].out[i])

Inv ==
  /\ StoreOK
  /\ FileOK
  /\ cl = [p \in Clients |-> cl[p]] /\ \A p \in Clients : ClientOK(p)
  /\ sy = [s \in Syncs |-> sy[s]] /\ \A s \in Syncs : SyncOK(s)

-----------------------------------------------------------------------------
(* Records stay true: a directory is drawn once, and stays announced.       *)
Grows ==
  /\ drawn \subseteq drawn'
  /\ \A d \in drawn : /\ Listed(d) => Listed(d)'
                      /\ ~bucket[d].present => ~bucket'[d].present

LEMMA TellsStays ==
  ASSUME StoreOK, Grows, NEW r, Tells(r)
  PROVE  Tells(r)'
BY DEF StoreOK, Grows, Tells, Listed, Records, Valid, Announced

LEMMA ProjectsStays ==
  ASSUME StoreOK, Grows, NEW h, HistoryOK(h)
  PROVE  HistoryOK(h)'
BY TellsStays DEF HistoryOK, Projects

LEMMA ClientStays ==
  ASSUME StoreOK, Grows, NEW p, ClientOK(p), cl'[p] = cl[p]
  PROVE  ClientOK(p)'
<1>1. \A r \in cl[p].rec : Tells(r)'
  BY TellsStays DEF ClientOK
<1> QED
  BY <1>1 DEF ClientOK, Grows, Running, NoOp, Records

LEMMA SyncStays ==
  ASSUME StoreOK, Grows, NEW s, SyncOK(s), sy'[s] = sy[s]
  PROVE  SyncOK(s)'
<1>1. \A r : Tells(r) => Tells(r)'
  BY TellsStays
<1>2. HistoryOK(sy[s].snap)' 
  BY <1>1 DEF SyncOK, HistoryOK, Projects
<1>3. PlanOK(sy[s].plan)'
  BY <1>1 DEF SyncOK, PlanOK
<1>4. \A i \in DOMAIN sy[s].out : Tells(sy[s].out[i])'
  BY <1>1 DEF SyncOK
<1> QED
  BY <1>2, <1>3, <1>4 DEF SyncOK, SyncStates, IsActive

LEMMA FileStays ==
  ASSUME StoreOK, Grows, FileOK, UNCHANGED file
  PROVE  FileOK'
BY TellsStays DEF FileOK, file

(* A line is written that tells the truth, or that does not parse.          *)
LEMMA FileGrows ==
  ASSUME StoreOK, Grows, FileOK, NEW line, line = Garbage \/ Tells(line)',
         NEW ended \in BOOLEAN, AppendLine(line, ended)
  PROVE  FileOK'
<1>1. line \in Records \cup {Garbage}
  BY DEF Tells
<1>2. \A r : Tells(r) => Tells(r)'
  BY TellsStays
<1>3. /\ lines' \in Seq(Records \cup {Garbage}) /\ newline' \in BOOLEAN /\ lines' # <<>>
      /\ \A i \in DOMAIN lines' : \/ i \in DOMAIN lines /\ lines'[i] = lines[i]
                                  \/ lines'[i] \in {line, Garbage}
  <2>1. CASE newline
    <3>1. lines' = Append(lines, line) /\ newline' = ended
      BY <2>1 DEF AppendLine
    <3>2. lines' \in Seq(Records \cup {Garbage}) /\ lines' # <<>>
      BY <3>1, <1>1 DEF FileOK
    <3>3. \A i \in DOMAIN lines' : (i \in DOMAIN lines /\ lines'[i] = lines[i]) \/ lines'[i] = line
      BY <3>1, <1>1 DEF FileOK
    <3> QED
      BY <3>1, <3>2, <3>3
  <2>2. CASE ~newline
    <3>1. lines' = [lines EXCEPT ![Len(lines)] = Garbage] /\ newline' = ended
      BY <2>2 DEF AppendLine
    <3>2. Len(lines) \in 1..Len(lines)
      BY <2>2 DEF FileOK
    <3>3. /\ lines' \in Seq(Records \cup {Garbage}) /\ Len(lines') = Len(lines)
          /\ \A i \in 1..Len(lines) : lines'[i] = IF i = Len(lines) THEN Garbage ELSE lines[i]
      BY <3>1, <3>2, ExceptSeq DEF FileOK
    <3>4. \A i \in DOMAIN lines' : i \in DOMAIN lines /\ lines'[i] \in {lines[i], Garbage}
      BY <3>3 DEF FileOK
    <3> QED
      BY <3>1, <3>2, <3>3, <3>4
  <2> QED
    BY <2>1, <2>2
<1>4. ASSUME NEW i \in DOMAIN lines', NEW r, r = lines'[i], r # Garbage
      PROVE  Tells(r)'
  <2>1. CASE i \in DOMAIN lines /\ r = lines[i]
    BY <1>2, <1>4, <2>1 DEF FileOK
  <2>2. CASE r = line
    BY <1>4, <2>2
  <2> QED
    BY <1>3, <1>4, <2>1, <2>2
<1>5. \A i \in DOMAIN lines' : lines'[i] = Garbage \/ Tells(lines[i])'
  BY <1>4 DEF Tells
<1> QED
  BY <1>3, <1>5 DEF FileOK

-----------------------------------------------------------------------------
(* What the manifest lists.                                                 *)

LEMMA ActiveIsReadable ==
  ASSUME NEW d \in Dirs, NEW r \in History.active[<<TRUE, d>>]
  PROVE  \E i \in Readable(lines) :
           r = lines[i] /\ r.type \in UploadTypes /\ Identity(r) = <<TRUE, d>>
<1>1. <<TRUE, d>> \in Identities
  BY DEF Identities
<1>2. History.active[<<TRUE, d>>] = {lines[i] : i \in ActiveIndices(lines, <<TRUE, d>>)}
  BY <1>1 DEF History, HistoryOf
<1> QED
  BY <1>2 DEF ActiveIndices, Restated, Counts

LEMMA HistorySound ==
  ASSUME FileOK
  PROVE  /\ HistoryOK(History)
         /\ History \in [active : [Identities -> SUBSET Records], protected : SUBSET Identities,
                         deleted : SUBSET (Chains \X Nat)]
<1>1. \A i \in Readable(lines) : Tells(lines[i])
  BY DEF FileOK, Readable
<1>2. \A d \in Dirs : \A r \in History.active[<<TRUE, d>>] : Projects(r, d)
  <2> SUFFICES ASSUME NEW d \in Dirs, NEW r \in History.active[<<TRUE, d>>] PROVE Projects(r, d)
    OBVIOUS
  <2>1. PICK i \in Readable(lines) :
          r = lines[i] /\ r.type \in UploadTypes /\ Identity(r) = <<TRUE, d>>
    BY ActiveIsReadable
  <2>2. r.managed = TRUE /\ r.dir = d
    BY <2>1 DEF Identity
  <2> QED
    BY <1>1, <2>1, <2>2 DEF Projects
<1>3. History.deleted \subseteq Chains \X Nat
  <2>1. \A i \in Readable(lines) : lines[i].rev > 0 => lines[i].chain \in Chains /\ lines[i].rev \in Nat
    BY <1>1 DEF Tells, Records, Valid
  <2> QED
    BY <2>1 DEF History, HistoryOf, DeletedRevisions
<1>4. \A id \in Identities : {lines[i] : i \in ActiveIndices(lines, id)} \subseteq Records
  BY <1>1 DEF ActiveIndices, Restated, Tells
<1>5. {id \in Identities : ProtectedIn(lines, id)} \subseteq Identities
  OBVIOUS
<1> QED
  BY <1>2, <1>3, <1>4, <1>5 DEF HistoryOK, History, HistoryOf

LEMMA ActiveProjects ==
  ASSUME NEW h, HistoryOK(h), NEW d \in Dirs, IsActive(h, d)
  PROVE  Projects(ActiveRecord(h, d), d)
BY DEF HistoryOK, IsActive, ActiveRecord

-----------------------------------------------------------------------------
(* Latest: the highest number of the chain.                                 *)

(* A finite set of numbers with an element has a greatest.                  *)
LEMMA GreatestExists ==
  ASSUME NEW S, IsFiniteSet(S), S # {}, S \subseteq Nat
  PROVE  \E n \in S : \A m \in S : m <= n
<1> DEFINE Bad(T) == T # {} /\ T \subseteq Nat /\ IsFiniteSet(T) /\ ~\E n \in T : \A m \in T : m <= n
           Sizes == {Cardinality(T) : T \in {U \in SUBSET Nat : Bad(U)}}
<1> SUFFICES ASSUME Bad(S) PROVE FALSE
  OBVIOUS
<1>1. Sizes \subseteq Nat /\ Sizes # {}
  BY FS_CardinalityType
<1>2. IsWellFoundedOn(OpToRel(<, Nat), Nat)
  BY NatLessThanWellFounded
<1>3. PICK n \in Sizes : \A m \in Sizes : ~(<<m, n>> \in OpToRel(<, Nat))
  BY <1>1, <1>2, WFMin
<1>4. \A m \in Sizes : ~(m < n)
  BY <1>1, <1>3 DEF OpToRel
<1>5. PICK T \in SUBSET Nat : Bad(T) /\ n = Cardinality(T)
  OBVIOUS
<1>6. PICK x \in T : TRUE
  BY <1>5
<1>7. IsFiniteSet(T \ {x}) /\ Cardinality(T \ {x}) = Cardinality(T) - 1
  BY <1>5, <1>6, FS_RemoveElement
<1>8. Cardinality(T) \in Nat /\ Cardinality(T \ {x}) \in Nat
  BY <1>5, <1>7, FS_CardinalityType
<1>9. ~Bad(T \ {x})
  <2> SUFFICES ASSUME Bad(T \ {x}) PROVE FALSE
    OBVIOUS
  <2>1. Cardinality(T \ {x}) \in Sizes
    OBVIOUS
  <2>2. Cardinality(T \ {x}) < n
    BY <1>5, <1>7, <1>8
  <2> QED
    BY <1>4, <2>1, <2>2
<1>10. CASE T \ {x} = {}
  BY <1>5, <1>6, <1>10
<1>11. CASE T \ {x} # {}
  <2>1. PICK k \in T \ {x} : \A m \in T \ {x} : m <= k
    BY <1>9, <1>7, <1>11
  <2> QED
    BY <1>5, <1>6, <2>1
<1> QED
  BY <1>10, <1>11

LEMMA LatestIsGreatest ==
  ASSUME StoreOK, NEW d \in Dirs
  PROVE  Latest(d) \in Nat /\ Latest(d) >= Number[d]
<1> DEFINE later == {Number[e] : e \in Members \cup {d}}
<1>1. Members \cup {d} \subseteq Dirs
  BY DEF Members
<1>2. IsFiniteSet(later)
  <2> DEFINE D == Members \cup {d}
             f == [e \in D |-> Number[e]]
  <2>1. IsFiniteSet(D)
    BY <1>1, DirsAssumption, FS_Subset
  <2>2. f \in Surjection(D, later)
    BY DEF Surjection
  <2> HIDE DEF D, f, later
  <2> QED
    BY <2>1, <2>2, FS_Surjection
<1>3. later # {} /\ later \subseteq Nat
  BY <1>1, NumberAssumption
<1>4. \E n \in later : \A m \in later : m <= n
  <2> HIDE DEF later
  <2> QED BY <1>2, <1>3, GreatestExists
<1>5. Latest(d) = CHOOSE n \in later : \A m \in later : m <= n
  BY DEF Latest
<1>6. Latest(d) \in later /\ \A m \in later : m <= Latest(d)
  BY <1>4, <1>5
<1> QED
  BY <1>3, <1>6

(* A directory with the least number, of those a command has to link.       *)
LEMMA LeastExists ==
  ASSUME NEW L, L \subseteq Dirs, L # {}
  PROVE  (CHOOSE d \in L : \A f \in L : Number[d] <= Number[f]) \in L
<1> DEFINE N == {Number[d] : d \in L}
<1>1. N \subseteq Nat /\ N # {}
  BY NumberAssumption
<1>2. PICK n \in N : \A m \in N : ~(<<m, n>> \in OpToRel(<, Nat))
  BY <1>1, NatLessThanWellFounded, WFMin
<1>3. \A m \in N : ~(m < n)
  <2> HIDE DEF N
  <2> QED BY <1>1, <1>2 DEF OpToRel
<1>4. \A m \in N : n <= m
  <2> HIDE DEF N
  <2> QED BY <1>1, <1>3
<1>5. \E d \in L : \A f \in L : Number[d] <= Number[f]
  BY <1>4
<1> QED
  BY <1>5

-----------------------------------------------------------------------------
(* Records that tell the truth.                                             *)

LEMMA ProjectionTells ==
  ASSUME StoreOK, NEW d \in drawn, NEW type \in UploadTypes, type = "link" => InChain(d)
  PROVE  Tells(Projection(type, d))
<1>1. d \in Dirs /\ Number[d] \in Nat \ {0}
  BY NumberAssumption DEF StoreOK
<1>2. Latest(d) \in Nat /\ Latest(d) >= Number[d]
  BY <1>1, LatestIsGreatest
<1>3. bucket[d].kind \in Kinds
  BY <1>1 DEF StoreOK, Directories
<1> USE <1>1, <1>2, ChainAssumption, NoChainAssumption
      DEF Projection, Upload, Tells, Records, RecordTypes, UploadTypes, Valid, Announced
<1>4. CASE InChain(d)
  BY <1>4 DEF InChain
<1>5. CASE ~InChain(d) /\ bucket[d].kind = "standalone"
  BY <1>5
<1>6. CASE ~InChain(d) /\ bucket[d].kind # "standalone"
  BY <1>6
<1> QED
  BY <1>4, <1>5, <1>6

LEMMA ProtectionTells ==
  ASSUME StoreOK, NEW d \in drawn, NEW type \in {"protect", "unprotect"}
  PROVE  Tells(Protection(type, d))
BY DEF StoreOK, Protection, Tells, Records, RecordTypes, UploadTypes, Valid, Announced

LEMMA TombstoneTells ==
  ASSUME StoreOK, NEW d \in drawn, ~bucket[d].present, NEW chain, NEW rev,
         \/ chain = NoChain /\ rev = 0
         \/ chain = Chain /\ rev = Number[d] /\ Listed(d)
  PROVE  Tells(Tombstone(d, chain, rev))
BY NumberAssumption, ChainAssumption, NoChainAssumption
   DEF StoreOK, Listed, Tombstone, Tells, Records, RecordTypes, UploadTypes, Valid, Announced

-----------------------------------------------------------------------------
(* A step of one process leaves the others alone.                           *)

ClientStepOK(p) ==
  /\ StoreOK' /\ Grows /\ FileOK' /\ sy' = sy
  /\ cl' = [q \in Clients |-> cl'[q]]
  /\ \A q \in Clients \ {p} : cl'[q] = cl[q]
  /\ ClientOK(p)'

SyncStepOK(s) ==
  /\ FileOK' /\ UNCHANGED <<bucket, drawn, cl>>
  /\ sy' = [z \in Syncs |-> sy'[z]]
  /\ \A z \in Syncs \ {s} : sy'[z] = sy[z]
  /\ SyncOK(s)'

LEMMA ClientKeepsInv ==
  ASSUME Inv, NEW p \in Clients, ClientStepOK(p)
  PROVE  Inv'
<1>1. \A q \in Clients : ClientOK(q)'
  BY ClientStays DEF Inv, ClientStepOK
<1>2. \A s \in Syncs : SyncOK(s)'
  BY SyncStays DEF Inv, ClientStepOK
<1> QED
  BY <1>1, <1>2 DEF Inv, ClientStepOK

LEMMA SyncKeepsInv ==
  ASSUME Inv, NEW s \in Syncs, SyncStepOK(s)
  PROVE  Inv'
<1>1. Grows /\ StoreOK'
  BY DEF Inv, SyncStepOK, Grows, StoreOK, Listed
<1>2. \A q \in Clients : ClientOK(q)'
  BY <1>1, ClientStays DEF Inv, SyncStepOK
<1>3. \A z \in Syncs : SyncOK(z)'
  BY <1>1, SyncStays DEF Inv, SyncStepOK
<1> QED
  BY <1>1, <1>2, <1>3 DEF Inv, SyncStepOK

(* What a step does to the store, where it does not announce anything.      *)
LEMMA StoreStays ==
  ASSUME StoreOK, bucket' \in [Dirs -> Directories], drawn \subseteq drawn', drawn' \subseteq Dirs,
         \A d \in Dirs : Listed(d)' <=> Listed(d),
         \A d \in Dirs \ drawn' : bucket'[d] = bucket[d],
         \A d \in drawn : ~bucket[d].present => ~bucket'[d].present
  PROVE  StoreOK' /\ Grows
BY DEF StoreOK, Grows, Listed

LEMMA StoreUnchanged ==
  ASSUME StoreOK, UNCHANGED <<bucket, drawn>>
  PROVE  StoreOK' /\ Grows
BY DEF StoreOK, Grows, Listed

(* One directory of those drawn changes, as StoreStays allows.              *)
LEMMA StoreChange ==
  ASSUME StoreOK, NEW d \in Dirs, NEW D \in Directories, bucket' = [bucket EXCEPT ![d] = D],
         \/ d \in drawn /\ drawn' = drawn /\ (bucket[d].present \/ ~D.present)
         \/ d \notin drawn /\ drawn' = drawn \cup {d},
         D.kind = "announced" <=> Listed(d)
  PROVE  StoreOK' /\ Grows
<1>1. bucket' \in [Dirs -> Directories] /\ drawn \subseteq drawn' /\ drawn' \subseteq Dirs
  BY DEF StoreOK
<1>2. \A e \in Dirs : bucket'[e] = IF e = d THEN D ELSE bucket[e]
  BY DEF StoreOK
<1>3. \A e \in Dirs : Listed(e)' <=> Listed(e)
  BY <1>2 DEF Listed
<1>4. \A e \in Dirs \ drawn' : bucket'[e] = bucket[e]
  BY <1>2
<1>5. \A e \in drawn : ~bucket[e].present => ~bucket'[e].present
  BY <1>2 DEF StoreOK
<1> QED
  BY <1>1, <1>3, <1>4, <1>5, StoreStays

-----------------------------------------------------------------------------
(* Commands.                                                                *)

LEMMA NoOpRuns == NoOp \in Running
BY DEF NoOp, Running, CommandOps, CommandSteps

(* The command of p becomes c.                                              *)
LEMMA BecomesOK ==
  ASSUME Inv, NEW p \in Clients, StoreOK', Grows, FileOK', sy' = sy,
         NEW c \in Running, cl' = [cl EXCEPT ![p] = c],
         c.op # "idle" => c.dir \in drawn',
         \A r \in c.rec : Tells(r)'
  PROVE  ClientStepOK(p)
<1>1. cl'[p] = c /\ cl' = [q \in Clients |-> cl'[q]]
      /\ \A q \in Clients \ {p} : cl'[q] = cl[q]
  BY DEF Inv
<1>2. \A r \in cl'[p].rec : Tells(r)'
  BY <1>1
<1>3. ClientOK(p)'
  BY <1>1, <1>2 DEF ClientOK, Running, NoOp
<1> QED
  BY <1>1, <1>3 DEF ClientStepOK

LEMMA BeginOK ==
  ASSUME Inv, NEW p \in Clients, StoreOK', Grows, NEW op \in CommandOps, NEW step \in CommandSteps,
         NEW d \in Dirs, d \in drawn', Begin(p, op, d, step)
  PROVE  ClientStepOK(p)
<1> DEFINE c == [NoOp EXCEPT !.op = op, !.dir = d, !.step = step]
<1>1. c \in Running /\ c.rec = {} /\ c.dir = d
  BY DEF NoOp, Running
<1>2. FileOK'
  BY FileStays DEF Begin, Inv
<1>3. cl' = [cl EXCEPT ![p] = c] /\ sy' = sy
  BY DEF Begin
<1> HIDE DEF c
<1> QED
  BY <1>1, <1>2, <1>3, BecomesOK

LEMMA ContinueOK ==
  ASSUME Inv, NEW p \in Clients, StoreOK', Grows, FileOK', sy' = sy,
         NEW step \in CommandSteps, Continue(p, step)
  PROVE  ClientStepOK(p)
<1> DEFINE c == [cl[p] EXCEPT !.step = step]
<1>1. ClientOK(p)
  BY DEF Inv
<1>2. c \in Running /\ c.op = cl[p].op /\ c.dir = cl[p].dir /\ c.rec = cl[p].rec
  BY <1>1 DEF ClientOK, Running
<1>3. \A r \in c.rec : Tells(r)'
  BY <1>1, <1>2, TellsStays DEF Inv, ClientOK
<1>4. c.op # "idle" => c.dir \in drawn'
  BY <1>1, <1>2 DEF ClientOK, Grows
<1>5. cl' = [cl EXCEPT ![p] = c]
  BY <1>1 DEF Continue, Inv
<1> HIDE DEF c
<1> QED
  BY <1>2, <1>3, <1>4, <1>5, BecomesOK

LEMMA FinishOK ==
  ASSUME Inv, NEW p \in Clients, StoreOK', Grows, FileOK', sy' = sy, Finish(p)
  PROVE  ClientStepOK(p)
<1>1. NoOp.op = "idle" /\ NoOp.rec = {}
  BY DEF NoOp
<1> QED
  BY <1>1, NoOpRuns, BecomesOK DEF Finish

LEMMA ToRecordOK ==
  ASSUME Inv, NEW p \in Clients, cl[p].op # "idle", StoreOK', Grows, FileOK', sy' = sy,
         NEW rec, Tells(rec)', NEW links \in SUBSET Dirs, ToRecord(p, rec, links)
  PROVE  ClientStepOK(p)
<1> DEFINE c == [cl[p] EXCEPT !.step = "record", !.rec = {rec}, !.links = links]
<1>1. ClientOK(p)
  BY DEF Inv
<1>2. rec \in Records
  BY DEF Tells, Records
<1>3. c \in Running /\ c.op = cl[p].op /\ c.dir = cl[p].dir /\ c.rec = {rec}
  BY <1>1, <1>2 DEF ClientOK, Running, CommandSteps
<1>4. c.op # "idle" => c.dir \in drawn'
  BY <1>1, <1>3 DEF ClientOK, Grows
<1>5. cl' = [cl EXCEPT ![p] = c]
  BY <1>1 DEF ToRecord, Inv
<1> HIDE DEF c
<1> QED
  BY <1>3, <1>4, <1>5, BecomesOK

LEMMA StoreStepOK ==
  ASSUME Inv, StoreOK', Grows, StoreStep
  PROVE  FileOK' /\ sy' = sy /\ drawn' = drawn
BY FileStays DEF Inv, StoreStep

LEMMA StartUploadOK ==
  ASSUME Inv, NEW p \in Clients, NEW d \in Dirs, StartUpload(p, d)
  PROVE  ClientStepOK(p)
<1> DEFINE D == [bucket[d] EXCEPT !.present = TRUE]
<1>1. bucket[d] \in Directories
  BY DEF Inv, StoreOK
<1>2. D \in Directories /\ (D.kind = "announced" <=> Listed(d))
  BY <1>1 DEF Directories, Listed
<1>3. bucket' = [bucket EXCEPT ![d] = D] /\ d \notin drawn /\ drawn' = drawn \cup {d}
  BY <1>1 DEF StartUpload, Inv, StoreOK
<1>4. StoreOK' /\ Grows
  <2> HIDE DEF D
  <2> QED BY <1>2, <1>3, StoreChange DEF Inv
<1> QED
  BY <1>3, <1>4, BeginOK DEF StartUpload, CommandOps, CommandSteps

LEMMA StartAppendOK ==
  ASSUME Inv, NEW p \in Clients, NEW d \in Dirs, StartAppend(p, d)
  PROVE  ClientStepOK(p)
<1> DEFINE D == [bucket[d] EXCEPT !.present = TRUE, !.kind = "candidate"]
<1>1. bucket[d] \in Directories /\ d \notin drawn
  BY DEF Inv, StoreOK, StartAppend
<1>2. D \in Directories /\ D.kind # "announced" /\ ~Listed(d)
  BY <1>1 DEF Directories, Listed, Kinds, Inv, StoreOK
<1>3. bucket' = [bucket EXCEPT ![d] = D] /\ drawn' = drawn \cup {d}
  BY <1>1 DEF StartAppend, Inv, StoreOK
<1>4. StoreOK' /\ Grows
  <2> HIDE DEF D
  <2> QED BY <1>1, <1>2, <1>3, StoreChange DEF Inv
<1> QED
  BY <1>3, <1>4, BeginOK DEF StartAppend, CommandOps, CommandSteps

(* The directory of a running command.                                      *)
LEMMA CommandDir ==
  ASSUME Inv, NEW p \in Clients, cl[p].op # "idle"
  PROVE  cl[p].dir \in drawn /\ cl[p].dir \in Dirs /\ bucket[cl[p].dir] \in Directories
BY DEF Inv, ClientOK, StoreOK

LEMMA PutPayloadOK ==
  ASSUME Inv, NEW p \in Clients, PutPayload(p)
  PROVE  ClientStepOK(p)
<1>0. cl[p].op # "idle"
  BY DEF PutPayload
<1>1. PICK d \in Dirs : d = cl[p].dir /\ d \in drawn /\ bucket[d] \in Directories
  BY <1>0, CommandDir
<1>2. PICK D : D = [bucket[d] EXCEPT !.payload = bucket[d].present]
  OBVIOUS
<1>3. D \in Directories /\ D.present = bucket[d].present /\ (D.kind = "announced" <=> Listed(d))
  BY <1>1, <1>2 DEF Directories, Listed
<1>4. bucket' = [bucket EXCEPT ![d] = D] /\ StoreStep
  BY <1>1, <1>2 DEF PutPayload, Inv, StoreOK
<1>5. drawn' = drawn
  BY <1>4 DEF StoreStep
<1>6. StoreOK' /\ Grows
  BY <1>1, <1>3, <1>4, <1>5, StoreChange DEF Inv
<1>7. FileOK' /\ sy' = sy
  BY <1>4, <1>6, StoreStepOK
<1>8. CASE cl[p].op = "append"
  BY <1>6, <1>7, <1>8, ContinueOK DEF PutPayload, CommandSteps
<1>9. CASE cl[p].op # "append"
  <2>1. PICK rec : rec = Projection("upload", d)
    OBVIOUS
  <2>2. Tells(rec)
    BY <1>1, <2>1, ProjectionTells DEF Inv, UploadTypes
  <2>3. Tells(rec)'
    BY <2>2, <1>6, TellsStays DEF Inv
  <2>4. ToRecord(p, rec, {})
    BY <1>1, <1>9, <2>1 DEF PutPayload
  <2> QED
    BY <1>0, <1>6, <1>7, <2>3, <2>4, ToRecordOK
<1> QED
  BY <1>8, <1>9

(* The index of a predecessor takes one successor: a number is announced    *)
(* once, and a standalone upload becomes revision 1 only with revision 2.   *)
LEMMA AnnounceStore ==
  ASSUME StoreOK, NEW d \in Dirs, NEW D \in Directories, D.kind = "announced",
         \/ d \in drawn /\ drawn' = drawn /\ bucket[d].present
         \/ d \notin drawn /\ drawn' = drawn \cup {d},
         ~Taken(Number[d]), NEW e \in Predecessors, Number[e] = Number[d] - 1,
         bucket' = [bucket EXCEPT ![d] = D, ![e].kind = "announced"]
  PROVE  StoreOK' /\ Grows /\ Listed(d)'
<1>1. e \in Dirs /\ bucket[e].present /\ e # d /\ e \in drawn
  <2>1. e \in Dirs /\ bucket[e].present
    BY DEF Predecessors, Members
  <2>2. Number[e] # Number[d]
    BY NumberAssumption
  <2> QED
    BY <2>1, <2>2 DEF StoreOK
<1>2. Number \in [Dirs -> Nat] /\ \A f \in Dirs : Number[f] > 0
  BY NumberAssumption
<1>3. /\ bucket' \in [Dirs -> Directories]
      /\ bucket'[d] = D
      /\ bucket'[e] = [bucket[e] EXCEPT !.kind = "announced"]
      /\ \A f \in Dirs \ {d, e} : bucket'[f] = bucket[f]
  BY <1>1 DEF StoreOK, Directories, Kinds
<1>4. bucket'[e].kind = "announced" /\ bucket'[e].present
  BY <1>1, <1>3 DEF StoreOK, Directories
<1>5. \A f \in Dirs : Listed(f)' <=> Listed(f) \/ f = d \/ f = e
  BY <1>3, <1>4 DEF Listed
<1>6. \A f \in Dirs : Listed(f) => Number[f] # Number[d]
  BY DEF Taken, Listed
<1>7. ASSUME NEW f \in Dirs, Listed(f), Number[f] = Number[e] PROVE f = e
  <2>1. CASE Listed(e)
    BY <1>1, <1>7, <2>1 DEF StoreOK
  <2>2. CASE ~Listed(e)
    <3>1. Number[e] = 1 /\ Number[d] = 2
      BY <1>1, <1>2, <2>2 DEF Predecessors, Members, InChain, Listed
    <3> QED
      BY <1>6, <1>7, <3>1 DEF StoreOK
  <2> QED
    BY <2>1, <2>2
<1>8. \A f, g \in Dirs : Listed(f)' /\ Listed(g)' /\ Number[f] = Number[g] => f = g
  <2> SUFFICES ASSUME NEW f \in Dirs, NEW g \in Dirs, Listed(f)', Listed(g)', Number[f] = Number[g]
               PROVE  f = g
    OBVIOUS
  <2>1. (Listed(f) \/ f = d \/ f = e) /\ (Listed(g) \/ g = d \/ g = e)
    BY <1>5
  <2>2. CASE Listed(f) /\ Listed(g)
    BY <2>2 DEF StoreOK
  <2>3. CASE f = d
    BY <1>6, <1>1, <1>2, <2>1, <2>3
  <2>4. CASE g = d
    BY <1>6, <1>1, <1>2, <2>1, <2>4
  <2>5. CASE f = e
    BY <1>7, <1>1, <1>2, <2>1, <2>5, <1>6
  <2>6. CASE g = e
    BY <1>7, <1>1, <1>2, <2>1, <2>6, <1>6
  <2> QED
    BY <2>1, <2>2, <2>3, <2>4, <2>5, <2>6
<1>9. \A f \in Dirs : Listed(f)' /\ Number[f] = 1 => \E g \in Dirs : Listed(g)' /\ Number[g] = 2
  <2> SUFFICES ASSUME NEW f \in Dirs, Listed(f)', Number[f] = 1
               PROVE  \E g \in Dirs : Listed(g)' /\ Number[g] = 2
    OBVIOUS
  <2>1. CASE Listed(f)
    <3>1. PICK g \in Dirs : Listed(g) /\ Number[g] = 2
      BY <2>1 DEF StoreOK
    <3> QED
      BY <3>1, <1>5
  <2>2. CASE f = d
    BY <1>1, <1>2, <2>2
  <2>3. CASE f = e
    <3>1. Number[d] = 2 /\ Listed(d)'
      BY <1>2, <1>5, <2>3
    <3> QED
      BY <3>1
  <2> QED
    BY <1>5, <2>1, <2>2, <2>3
<1>10. /\ drawn \subseteq drawn' /\ drawn' \subseteq Dirs
       /\ \A f \in Dirs \ drawn' : f # d /\ f # e /\ f \notin drawn
  BY <1>1 DEF StoreOK
<1>11. \A f \in Dirs \ drawn' : ~bucket'[f].present /\ bucket'[f].kind = "standalone"
  BY <1>3, <1>10 DEF StoreOK
<1>12. StoreOK'
  BY <1>3, <1>8, <1>9, <1>10, <1>11 DEF StoreOK
<1>13. \A f \in drawn : (Listed(f) => Listed(f)') /\ (~bucket[f].present => ~bucket'[f].present)
  BY <1>1, <1>3, <1>5 DEF StoreOK
<1> QED
  BY <1>5, <1>10, <1>12, <1>13 DEF Grows

LEMMA AnnounceOK ==
  ASSUME Inv, NEW p \in Clients, Announce(p)
  PROVE  ClientStepOK(p)
<1>0. cl[p].op # "idle"
  BY DEF Announce, At
<1>1. PICK d \in Dirs : d = cl[p].dir /\ d \in drawn /\ bucket[d] \in Directories
  BY <1>0, CommandDir
<1>2. PICK e \in Predecessors :
        /\ Number[e] = Number[d] - 1
        /\ bucket' = [bucket EXCEPT ![d].kind = "announced", ![e].kind = "announced"]
        /\ cl' = [cl EXCEPT ![p].step = "record",
                    ![p].rec = {Upload("upload", d, TRUE, Chain, Number[d], Number[d])},
                    ![p].links = Members \cup {e}]
  BY <1>1 DEF Announce
<1>3. PICK D : D = [bucket[d] EXCEPT !.kind = "announced"]
  OBVIOUS
<1>4. D \in Directories /\ D.kind = "announced"
  BY <1>1, <1>3 DEF Directories, Kinds
<1>5. bucket' = [bucket EXCEPT ![d] = D, ![e].kind = "announced"]
  BY <1>1, <1>2, <1>3 DEF Inv, StoreOK
<1>6. StoreStep /\ bucket[d].present /\ ~Taken(Number[d])
  BY <1>1 DEF Announce
<1>7. drawn' = drawn
  BY <1>6 DEF StoreStep
<1>8. StoreOK' /\ Grows /\ Listed(d)'
  BY <1>1, <1>2, <1>4, <1>5, <1>6, <1>7, AnnounceStore DEF Inv
<1>9. FileOK' /\ sy' = sy
  BY <1>6, <1>8, StoreStepOK
<1>10. PICK rec : rec = Upload("upload", d, TRUE, Chain, Number[d], Number[d])
  OBVIOUS
<1>11. Tells(rec)'
  BY <1>1, <1>7, <1>8, <1>10, NumberAssumption, ChainAssumption, NoChainAssumption
     DEF Tells, Upload, Records, RecordTypes, UploadTypes, Valid, Announced, Listed
<1>12. PICK links \in SUBSET Dirs : links = Members \cup {e}
  BY DEF Members, Predecessors
<1>13. ToRecord(p, rec, links)
  BY <1>2, <1>10, <1>12 DEF ToRecord
<1> QED
  BY <1>0, <1>8, <1>9, <1>11, <1>13, ToRecordOK

LEMMA RollbackOK ==
  ASSUME Inv, NEW p \in Clients, Rollback(p)
  PROVE  ClientStepOK(p)
<1>0. cl[p].op # "idle"
  BY DEF Rollback, At
<1>1. PICK d \in Dirs : d = cl[p].dir /\ d \in drawn /\ bucket[d] \in Directories
  BY <1>0, CommandDir
<1>2. PICK D : D = [bucket[d] EXCEPT !.present = FALSE, !.payload = FALSE, !.doomed = TRUE]
  OBVIOUS
<1>3. D \in Directories /\ ~D.present /\ (D.kind = "announced" <=> Listed(d))
  BY <1>1, <1>2 DEF Directories, Listed
<1>4. bucket' = [bucket EXCEPT ![d] = D] /\ StoreStep /\ Finish(p)
  BY <1>1, <1>2 DEF Rollback, Inv, StoreOK
<1>5. drawn' = drawn
  BY <1>4 DEF StoreStep
<1>6. StoreOK' /\ Grows
  BY <1>1, <1>3, <1>4, <1>5, StoreChange DEF Inv
<1> QED
  BY <1>4, <1>6, StoreStepOK, FinishOK

LEMMA StartDeleteOK ==
  ASSUME Inv, NEW p \in Clients, NEW d \in Dirs, StartDelete(p, d)
  PROVE  ClientStepOK(p)
<1>1. bucket[d] \in Directories /\ d \in drawn
  BY DEF Inv, StoreOK, StartDelete
<1>2. PICK D : D = [bucket[d] EXCEPT !.doomed = TRUE]
  OBVIOUS
<1>3. D \in Directories /\ D.present = bucket[d].present /\ (D.kind = "announced" <=> Listed(d))
  BY <1>1, <1>2 DEF Directories, Listed
<1>4. bucket' = [bucket EXCEPT ![d] = D] /\ drawn' = drawn
  BY <1>1, <1>2 DEF StartDelete, Inv, StoreOK
<1>5. StoreOK' /\ Grows
  BY <1>1, <1>3, <1>4, StoreChange DEF Inv
<1> QED
  BY <1>1, <1>4, <1>5, BeginOK DEF StartDelete, CommandOps, CommandSteps

LEMMA DeletePayloadOK ==
  ASSUME Inv, NEW p \in Clients, DeletePayload(p)
  PROVE  ClientStepOK(p)
<1>0. cl[p].op # "idle"
  BY DEF DeletePayload, At
<1>1. PICK d \in Dirs : d = cl[p].dir /\ d \in drawn /\ bucket[d] \in Directories
  BY <1>0, CommandDir
<1>2. PICK D : D = [bucket[d] EXCEPT !.payload = FALSE, !.sentinel = FALSE]
  OBVIOUS
<1>3. D \in Directories /\ D.present = bucket[d].present /\ (D.kind = "announced" <=> Listed(d))
  BY <1>1, <1>2 DEF Directories, Listed
<1>4. bucket' = [bucket EXCEPT ![d] = D] /\ StoreStep /\ Continue(p, "marker")
  BY <1>1, <1>2 DEF DeletePayload, Inv, StoreOK
<1>5. drawn' = drawn
  BY <1>4 DEF StoreStep
<1>6. StoreOK' /\ Grows
  BY <1>1, <1>3, <1>4, <1>5, StoreChange DEF Inv
<1> QED
  BY <1>4, <1>6, StoreStepOK, ContinueOK DEF CommandSteps

LEMMA DeleteMarkerOK ==
  ASSUME Inv, NEW p \in Clients, DeleteMarker(p)
  PROVE  ClientStepOK(p)
<1>0. cl[p].op # "idle"
  BY DEF DeleteMarker, At
<1>1. PICK d \in Dirs : d = cl[p].dir /\ d \in drawn /\ bucket[d] \in Directories
  BY <1>0, CommandDir
<1>2. PICK D : D = [bucket[d] EXCEPT !.present = FALSE]
  OBVIOUS
<1>3. D \in Directories /\ ~D.present /\ (D.kind = "announced" <=> Listed(d))
  BY <1>1, <1>2 DEF Directories, Listed
<1>4. bucket' = [bucket EXCEPT ![d] = D] /\ StoreStep
  BY <1>1, <1>2 DEF DeleteMarker, Inv, StoreOK
<1>5. drawn' = drawn
  BY <1>4 DEF StoreStep
<1>6. StoreOK' /\ Grows
  BY <1>1, <1>3, <1>4, <1>5, StoreChange DEF Inv
<1>7. PICK chain, rev : chain = DeletedChain(d) /\ rev = DeletedNumber(d)
  OBVIOUS
<1>8. \/ chain = NoChain /\ rev = 0
      \/ chain = Chain /\ rev = Number[d] /\ Listed(d)
  BY <1>7 DEF DeletedChain, DeletedNumber, Listed
<1>9. PICK rec : rec = Tombstone(d, chain, rev)
  OBVIOUS
<1>10. ~bucket'[d].present /\ d \in drawn' /\ (Listed(d) => Listed(d)')
  BY <1>1, <1>3, <1>4, <1>5 DEF Inv, StoreOK, Listed
<1>11. Tells(rec)'
  BY <1>6, <1>8, <1>9, <1>10, TombstoneTells, NumberAssumption, ChainAssumption, NoChainAssumption
     DEF StoreOK, Listed, Tombstone, Tells, Records, RecordTypes, UploadTypes, Valid, Announced
<1>12. PICK links \in SUBSET Dirs : links = Surviving(d)
  BY DEF Surviving, Members
<1>13. ToRecord(p, rec, links)
  BY <1>1, <1>7, <1>9, <1>12 DEF DeleteMarker
<1> QED
  BY <1>0, <1>4, <1>6, <1>11, <1>13, StoreStepOK, ToRecordOK

(* A command that begins with what it has to record.                        *)
LEMMA RecordOnlyOK ==
  ASSUME Inv, NEW p \in Clients, NEW op \in CommandOps, NEW d \in drawn, NEW rec, Tells(rec),
         cl' = [cl EXCEPT ![p] = [NoOp EXCEPT !.op = op, !.dir = d, !.step = "record", !.rec = {rec}]],
         UNCHANGED <<bucket, drawn, file, sy>>
  PROVE  ClientStepOK(p)
<1> DEFINE c == [NoOp EXCEPT !.op = op, !.dir = d, !.step = "record", !.rec = {rec}]
<1>1. StoreOK' /\ Grows
  BY StoreUnchanged DEF Inv
<1>2. FileOK'
  BY <1>1, FileStays DEF Inv
<1>3. c \in Running /\ c.dir = d /\ c.rec = {rec}
  BY DEF Running, NoOp, CommandSteps, Tells, Inv, StoreOK
<1>4. Tells(rec)'
  BY <1>1, TellsStays DEF Inv
<1>5. sy' = sy /\ d \in drawn' /\ cl' = [cl EXCEPT ![p] = c]
  OBVIOUS
<1> HIDE DEF c
<1> QED
  BY <1>1, <1>2, <1>3, <1>4, <1>5, BecomesOK

LEMMA StartReconcileOK ==
  ASSUME Inv, NEW p \in Clients, NEW d \in Dirs, StartReconcile(p, d)
  PROVE  ClientStepOK(p)
<1>1. ~bucket[d].present /\ IsActive(History, d)
  BY DEF StartReconcile, Gone
<1>2. Projects(ActiveRecord(History, d), d)
  BY <1>1, HistorySound, ActiveProjects DEF Inv
<1>3. d \in drawn /\ (Announced(ActiveRecord(History, d)) => Listed(d))
  BY <1>2 DEF Projects, Tells, Listed
<1>4. PICK known \in BOOLEAN : known <=> Announced(ActiveRecord(History, d))
  BY DEF Announced
<1>5. PICK chain, rev : /\ chain = IF known THEN Chain ELSE DeletedChain(d)
                        /\ rev = IF known THEN Number[d] ELSE DeletedNumber(d)
  OBVIOUS
<1>6. \/ chain = NoChain /\ rev = 0
      \/ chain = Chain /\ rev = Number[d] /\ Listed(d)
  BY <1>3, <1>4, <1>5 DEF DeletedChain, DeletedNumber, Listed
<1>7. PICK rec : rec = Tombstone(d, chain, rev)
  OBVIOUS
<1>8. Tells(rec)
  BY <1>1, <1>3, <1>6, <1>7, TombstoneTells DEF Inv
<1>9. cl' = [cl EXCEPT ![p] = [NoOp EXCEPT !.op = "delete", !.dir = d, !.step = "record", !.rec = {rec}]]
  BY <1>4, <1>5, <1>7 DEF StartReconcile
<1>10. UNCHANGED <<bucket, drawn, file, sy>>
  BY DEF StartReconcile
<1> QED
  BY <1>3, <1>8, <1>9, <1>10, RecordOnlyOK DEF CommandOps

LEMMA StartUpgradeOK ==
  ASSUME Inv, NEW p \in Clients, NEW d \in Dirs, StartUpgrade(p, d)
  PROVE  ClientStepOK(p)
<1>1. d \in drawn
  BY DEF StartUpgrade, Inv, StoreOK
<1>2. PICK rec : rec = Projection("upgrade", d)
  OBVIOUS
<1>3. Tells(rec)
  BY <1>1, <1>2, ProjectionTells DEF Inv, UploadTypes
<1>4. cl' = [cl EXCEPT ![p] = [NoOp EXCEPT !.op = "upgrade", !.dir = d, !.step = "record", !.rec = {rec}]]
      /\ UNCHANGED <<bucket, drawn, file, sy>>
  BY <1>2 DEF StartUpgrade
<1> QED
  BY <1>1, <1>3, <1>4, RecordOnlyOK DEF CommandOps

LEMMA StartProtectOK ==
  ASSUME Inv, NEW p \in Clients, NEW d \in Dirs, NEW op \in {"protect", "unprotect"},
         StartProtect(p, d, op)
  PROVE  ClientStepOK(p)
<1>1. UNCHANGED <<bucket, drawn>> /\ d \in drawn /\ Begin(p, op, d, "sentinel")
  BY DEF StartProtect, Inv, StoreOK
<1>2. StoreOK' /\ Grows
  BY <1>1, StoreUnchanged DEF Inv
<1> QED
  BY <1>1, <1>2, BeginOK DEF CommandOps, CommandSteps

LEMMA SetSentinelOK ==
  ASSUME Inv, NEW p \in Clients, SetSentinel(p)
  PROVE  ClientStepOK(p)
<1>0. cl[p].op # "idle"
  BY DEF SetSentinel
<1>1. PICK d \in Dirs : d = cl[p].dir /\ d \in drawn /\ bucket[d] \in Directories
  BY <1>0, CommandDir
<1>2. PICK type \in {"protect", "unprotect"} : type = cl[p].op
  BY DEF SetSentinel
<1>3. PICK D : D = [bucket[d] EXCEPT !.sentinel = (type = "protect")]
  OBVIOUS
<1>4. D \in Directories /\ D.present = bucket[d].present /\ (D.kind = "announced" <=> Listed(d))
  BY <1>1, <1>3 DEF Directories, Listed
<1>5. bucket' = [bucket EXCEPT ![d] = D] /\ StoreStep
  BY <1>1, <1>2, <1>3 DEF SetSentinel, Inv, StoreOK
<1>6. drawn' = drawn
  BY <1>5 DEF StoreStep
<1>7. StoreOK' /\ Grows
  BY <1>1, <1>4, <1>5, <1>6, StoreChange DEF Inv
<1>8. PICK rec : rec = Protection(type, d)
  OBVIOUS
<1>9. Tells(rec)'
  BY <1>1, <1>7, <1>8, ProtectionTells, TellsStays DEF Inv
<1>10. ToRecord(p, rec, {})
  BY <1>1, <1>2, <1>8 DEF SetSentinel
<1> QED
  BY <1>0, <1>5, <1>7, <1>9, <1>10, StoreStepOK, ToRecordOK

LEMMA AfterRecordOK ==
  ASSUME Inv, NEW p \in Clients, AfterRecord(p), StoreOK', Grows, FileOK', sy' = sy
  PROVE  ClientStepOK(p)
<1>1. CASE cl[p].links = {}
  BY <1>1, FinishOK DEF AfterRecord
<1>2. CASE cl[p].links # {}
  <2> DEFINE c == [cl[p] EXCEPT !.step = "links", !.rec = {}]
  <2>1. ClientOK(p)
    BY DEF Inv
  <2>2. c \in Running /\ c.op = cl[p].op /\ c.dir = cl[p].dir /\ c.rec = {}
    BY <2>1 DEF ClientOK, Running, CommandSteps
  <2>3. c.op # "idle" => c.dir \in drawn'
    BY <2>1, <2>2 DEF ClientOK, Grows
  <2>4. cl' = [cl EXCEPT ![p] = c]
    BY <2>1, <1>2 DEF AfterRecord, Inv
  <2> HIDE DEF c
  <2> QED
    BY <2>2, <2>3, <2>4, BecomesOK
<1> QED
  BY <1>1, <1>2

LEMMA RecordOK ==
  ASSUME Inv, NEW p \in Clients, Record(p)
  PROVE  ClientStepOK(p)
<1>1. StoreOK' /\ Grows /\ sy' = sy
  BY StoreUnchanged DEF Inv, Record
<1>2. PICK r \in cl[p].rec : AppendLine(r, TRUE)
  BY DEF Record
<1>3. Tells(r)'
  BY <1>1, <1>2, TellsStays DEF Inv, ClientOK
<1>4. FileOK'
  BY <1>1, <1>2, <1>3, FileGrows DEF Inv
<1> QED
  BY <1>1, <1>4, AfterRecordOK DEF Record

LEMMA RecordLinkOK ==
  ASSUME Inv, NEW p \in Clients, RecordLink(p)
  PROVE  ClientStepOK(p)
<1>1. StoreOK' /\ Grows /\ sy' = sy
  BY StoreUnchanged DEF Inv, RecordLink
<1>2. ClientOK(p) /\ cl[p].links \subseteq Dirs /\ cl[p].links # {}
  BY DEF Inv, ClientOK, Running, RecordLink
<1>3. PICK e : e = CHOOSE d \in cl[p].links : \A f \in cl[p].links : Number[d] <= Number[f]
  OBVIOUS
<1>4. e \in Dirs
  BY <1>2, <1>3, LeastExists
<1>5. CASE bucket[e].present /\ bucket[e].payload /\ InChain(e)
  <2>1. PICK line : line = Projection("link", e)
    OBVIOUS
  <2>2. AppendLine(line, TRUE)
    BY <1>3, <1>5, <2>1 DEF RecordLink
  <2>3. e \in drawn
    BY <1>4, <1>5 DEF Inv, StoreOK
  <2>4. Tells(line)'
    BY <1>1, <1>5, <2>1, <2>3, ProjectionTells, TellsStays DEF Inv, UploadTypes
  <2>5. FileOK'
    BY <1>1, <2>2, <2>4, FileGrows DEF Inv
  <2>6. CASE cl[p].links = {e}
    BY <1>1, <1>3, <1>5, <2>5, <2>6, FinishOK DEF RecordLink
  <2>7. CASE cl[p].links # {e}
    <3> DEFINE c == [cl[p] EXCEPT !.links = @ \ {e}]
    <3>1. c \in Running /\ c.op = cl[p].op /\ c.dir = cl[p].dir /\ c.rec = cl[p].rec
      BY <1>2 DEF ClientOK, Running
    <3>2. \A r \in c.rec : Tells(r)'
      BY <1>1, <1>2, <3>1, TellsStays DEF Inv, ClientOK
    <3>3. c.op # "idle" => c.dir \in drawn'
      BY <1>1, <1>2, <3>1 DEF ClientOK, Grows
    <3>4. cl' = [cl EXCEPT ![p].links = @ \ {e}]
      BY <1>3, <1>5, <2>7 DEF RecordLink
    <3>5. cl' = [cl EXCEPT ![p] = c]
      BY <1>2, <3>4 DEF Inv, ClientOK, Running
    <3> HIDE DEF c
    <3> QED
      BY <1>1, <2>5, <3>1, <3>2, <3>3, <3>5, BecomesOK
  <2> QED
    BY <2>6, <2>7
<1>6. CASE ~(bucket[e].present /\ bucket[e].payload /\ InChain(e))
  <2>1. Finish(p) /\ UNCHANGED file
    BY <1>3, <1>6 DEF RecordLink
  <2> QED
    BY <1>1, <2>1, FileStays, FinishOK DEF Inv
<1> QED
  BY <1>5, <1>6

LEMMA ClientFaultOK ==
  ASSUME Inv, NEW p \in Clients, ClientFault(p)
  PROVE  ClientStepOK(p)
<1>1. StoreOK' /\ Grows /\ sy' = sy
  BY StoreUnchanged DEF Inv, ClientFault, LoseRecord, TearRecord, Crash
<1>2. CASE LoseRecord(p)
  BY <1>1, <1>2, FileStays, AfterRecordOK DEF LoseRecord, Inv
<1>3. CASE Crash(p)
  BY <1>1, <1>3, FileStays, FinishOK DEF Crash, Inv
<1>4. CASE TearRecord(p)
  <2>1. PICK line \in cl[p].rec \cup {Garbage} : AppendLine(line, FALSE)
    BY <1>4 DEF TearRecord
  <2>2. line = Garbage \/ Tells(line)'
    BY <1>1, <2>1, TellsStays DEF Inv, ClientOK
  <2>3. FileOK'
    BY <1>1, <2>1, <2>2, FileGrows DEF Inv
  <2> QED
    BY <1>1, <1>4, <2>3, FinishOK DEF TearRecord
<1> QED
  BY <1>2, <1>3, <1>4 DEF ClientFault

LEMMA ClientOKs ==
  ASSUME Inv, NEW p \in Clients, Command(p) \/ ClientStep(p) \/ ClientFault(p)
  PROVE  Inv'
<1>1. CASE Command(p)
  BY <1>1, StartUploadOK, StartAppendOK, StartDeleteOK, StartReconcileOK, StartProtectOK,
     StartUpgradeOK, ClientKeepsInv DEF Command
<1>2. CASE ClientStep(p)
  BY <1>2, PutPayloadOK, AnnounceOK, RollbackOK, DeletePayloadOK, DeleteMarkerOK, SetSentinelOK,
     RecordOK, RecordLinkOK, ClientKeepsInv DEF ClientStep
<1>3. CASE ClientFault(p)
  BY <1>3, ClientFaultOK, ClientKeepsInv
<1> QED
  BY <1>1, <1>2, <1>3

(* Other machines change the store and nothing else.                        *)
LEMMA ForeignOK ==
  ASSUME Inv, NEW d \in Dirs, Foreign(d)
  PROVE  Inv'
<1>1. UNCHANGED <<file, cl, sy>>
  BY DEF Foreign
<1>2. bucket[d] \in Directories /\ (d \notin drawn => ~Listed(d)) /\ (bucket[d].present => d \in drawn)
  BY DEF Inv, StoreOK, Listed
<1>3. OldDirectory \in Directories /\ OldDirectory.kind # "announced"
  BY DEF OldDirectory, NoDirectory, Directories, Kinds
<1>4. StoreOK' /\ Grows
  <2>1. CASE /\ d \notin drawn /\ drawn' = drawn \cup {d}
             /\ bucket' = [bucket EXCEPT ![d] = OldDirectory]
    BY <1>2, <1>3, <2>1, StoreChange DEF Inv
  <2>2. CASE /\ bucket[d].present /\ drawn' = drawn
             /\ bucket' = [bucket EXCEPT ![d].present = FALSE, ![d].payload = FALSE,
                                         ![d].sentinel = FALSE, ![d].doomed = TRUE]
    <3>1. PICK D : D = [bucket[d] EXCEPT !.present = FALSE, !.payload = FALSE,
                                         !.sentinel = FALSE, !.doomed = TRUE]
      OBVIOUS
    <3>2. D \in Directories /\ ~D.present /\ (D.kind = "announced" <=> Listed(d))
      BY <1>2, <3>1 DEF Directories, Listed
    <3>3. bucket' = [bucket EXCEPT ![d] = D]
      BY <2>2, <3>1 DEF Inv, StoreOK
    <3> QED
      BY <1>2, <2>2, <3>2, <3>3, StoreChange DEF Inv
  <2>3. CASE /\ bucket[d].present /\ drawn' = drawn
             /\ bucket' = [bucket EXCEPT ![d].sentinel = ~@]
    <3>1. PICK D : D = [bucket[d] EXCEPT !.sentinel = ~@]
      OBVIOUS
    <3>2. D \in Directories /\ D.present /\ (D.kind = "announced" <=> Listed(d))
      BY <1>2, <2>3, <3>1 DEF Directories, Listed
    <3>3. bucket' = [bucket EXCEPT ![d] = D]
      BY <2>3, <3>1 DEF Inv, StoreOK
    <3> QED
      BY <1>2, <2>3, <3>2, <3>3, StoreChange DEF Inv
  <2>4. CASE /\ d \notin drawn /\ ~Taken(Number[d]) /\ drawn' = drawn \cup {d}
             /\ \E e \in Predecessors :
                  /\ Number[e] = Number[d] - 1
                  /\ bucket' = [bucket EXCEPT ![d] = [OldDirectory EXCEPT !.kind = "announced"],
                                              ![e].kind = "announced"]
    <3>1. PICK D : D = [OldDirectory EXCEPT !.kind = "announced"]
      OBVIOUS
    <3>2. D \in Directories /\ D.kind = "announced"
      BY <1>3, <3>1 DEF Directories, Kinds
    <3>3. PICK e \in Predecessors :
            Number[e] = Number[d] - 1 /\ bucket' = [bucket EXCEPT ![d] = D, ![e].kind = "announced"]
      BY <2>4, <3>1
    <3> QED
      BY <2>4, <3>2, <3>3, AnnounceStore DEF Inv
  <2> QED
    BY <2>1, <2>2, <2>3, <2>4 DEF Foreign
<1>5. FileOK'
  BY <1>1, <1>4, FileStays DEF Inv
<1>6. \A p \in Clients : ClientOK(p)'
  BY <1>1, <1>4, ClientStays DEF Inv
<1>7. \A s \in Syncs : SyncOK(s)'
  BY <1>1, <1>4, SyncStays DEF Inv
<1> QED
  BY <1>1, <1>4, <1>5, <1>6, <1>7 DEF Inv

-----------------------------------------------------------------------------
(* Sync.                                                                    *)

(* The sync process s becomes z.                                            *)
LEMMA SyncBecomesOK ==
  ASSUME Inv, NEW s \in Syncs, FileOK', bucket' = bucket, drawn' = drawn, cl' = cl,
         NEW z \in SyncStates, sy' = [sy EXCEPT ![s] = z],
         HistoryOK(z.snap), PlanOK(z.plan),
         z.phase = "work" =>
           /\ z.listing \in [Dirs -> Directories]
           /\ \A d \in z.todo : z.listing[d].present \/ IsActive(z.snap, d),
         z.phase = "write" => z.out # <<>>,
         \A r \in Range(z.out) : Tells(r)
  PROVE  SyncStepOK(s)
<1>1. /\ sy'[s] = z /\ sy' = [x \in Syncs |-> sy'[x]]
      /\ \A x \in Syncs \ {s} : sy'[x] = sy[x]
  BY DEF Inv
<1>2. Grows
  BY DEF Grows, Listed
<1>3. \A r : Tells(r) => Tells(r)'
  BY <1>2, TellsStays DEF Inv
<1>4. HistoryOK(z.snap)'
  BY <1>3 DEF HistoryOK, Projects
<1>5. PlanOK(z.plan)'
  BY <1>3 DEF PlanOK
<1>6. \A i \in DOMAIN z.out : Tells(z.out[i])
  BY DEF Range
<1>7. \A i \in DOMAIN z.out : Tells(z.out[i])'
  BY <1>3, <1>6
<1>8. \A i \in DOMAIN sy'[s].out : Tells(sy[s].out[i])'
  BY <1>1, <1>7
<1>9. SyncOK(s)'
  BY <1>1, <1>4, <1>5, <1>8 DEF SyncOK, SyncStates, IsActive
<1> QED
  BY <1>1, <1>9 DEF SyncStepOK

LEMMA NoSyncOK ==
  /\ NoSync \in SyncStates /\ HistoryOK(NoSync.snap) /\ PlanOK(NoSync.plan)
  /\ NoSync.phase = "idle" /\ NoSync.out = <<>>
<1>1. PlanOK(Plan) /\ Plan \in Planned
  BY FS_EmptySet DEF PlanOK, Plan, Planned
<1>2. HistoryOK(EmptyHistory)
  BY DEF HistoryOK, EmptyHistory, Identities
<1>3. NoSync \in SyncStates
  BY <1>1 DEF NoSync, SyncStates, EmptyHistory
<1> QED
  BY <1>1, <1>2, <1>3 DEF NoSync

LEMMA SyncEndsOK ==
  ASSUME Inv, NEW s \in Syncs, FileOK', bucket' = bucket, drawn' = drawn, cl' = cl,
         sy' = [sy EXCEPT ![s] = NoSync]
  PROVE  SyncStepOK(s)
<1>1. \A r \in Range(NoSync.out) : Tells(r)
  BY NoSyncOK DEF Range
<1> QED
  BY <1>1, NoSyncOK, SyncBecomesOK

LEMMA SyncReadOK ==
  ASSUME Inv, NEW s \in Syncs, SyncRead(s)
  PROVE  SyncStepOK(s)
<1>1. /\ bucket' = bucket /\ drawn' = drawn /\ cl' = cl /\ UNCHANGED file
  BY DEF SyncRead, SyncStep
<1>2. FileOK'
  BY <1>1, StoreUnchanged, FileStays DEF Inv
<1>3. Cardinality(Readable(lines)) \in Nat
  <2>1. DOMAIN lines = 1..Len(lines) /\ Len(lines) \in Nat
    BY DEF Inv, FileOK
  <2>2. IsFiniteSet(DOMAIN lines)
    BY <2>1, FS_Interval
  <2>3. Readable(lines) \subseteq DOMAIN lines
    BY DEF Readable
  <2> QED
    BY <2>2, <2>3, FS_Subset, FS_CardinalityType
<1>4. PICK z : z = [NoSync EXCEPT !.phase = "list", !.len = Cardinality(Readable(lines)),
                                  !.snap = History]
  OBVIOUS
<1>5. /\ z \in SyncStates /\ z.phase = "list" /\ z.snap = History
      /\ z.plan = NoSync.plan /\ z.out = <<>>
  BY <1>3, <1>4, NoSyncOK, HistorySound DEF Inv, SyncStates
<1>6. sy' = [sy EXCEPT ![s] = z]
  BY <1>4 DEF SyncRead
<1>7. \A r \in Range(z.out) : Tells(r)
  BY <1>5 DEF Range
<1> QED
  BY <1>1, <1>2, <1>5, <1>6, <1>7, NoSyncOK, HistorySound, SyncBecomesOK DEF Inv

LEMMA ProtectionDiffOK ==
  ASSUME StoreOK, NEW h
  PROVE  /\ IsFiniteSet(ProtectionDiff(h, bucket))
         /\ \A r \in ProtectionDiff(h, bucket) : Tells(r)
<1> DEFINE D == {e \in Dirs : /\ bucket[e].present /\ IsActive(h, e)
                              /\ bucket[e].sentinel # IsProtected(h, e)}
           f == [d \in D |-> Protection(IF bucket[d].sentinel THEN "protect" ELSE "unprotect", d)]
           P == ProtectionDiff(h, bucket)
<1>1. f \in Surjection(D, P)
  BY DEF ProtectionDiff, Surjection
<1>2. IsFiniteSet(D)
  BY DirsAssumption, FS_Subset
<1>3. \A d \in D : d \in drawn
  BY DEF StoreOK
<1>4. ASSUME NEW r \in P PROVE Tells(r)
  <2>1. PICK d \in D : r = Protection(IF bucket[d].sentinel THEN "protect" ELSE "unprotect", d)
    BY DEF ProtectionDiff
  <2> HIDE DEF D
  <2> QED
    BY <1>3, <2>1, ProtectionTells
<1>5. IsFiniteSet(P)
  <2> HIDE DEF D, f, P
  <2> QED BY <1>1, <1>2, FS_Surjection
<1> QED
  BY <1>4, <1>5

LEMMA SyncListOK ==
  ASSUME Inv, NEW s \in Syncs, SyncList(s)
  PROVE  SyncStepOK(s)
<1>1. /\ bucket' = bucket /\ drawn' = drawn /\ cl' = cl /\ UNCHANGED file
  BY DEF SyncList, SyncStep
<1>2. FileOK'
  BY <1>1, StoreUnchanged, FileStays DEF Inv
<1>3. PICK h : h = sy[s].snap
  OBVIOUS
<1>4. PICK todo : todo = Imports(h, bucket) \cup Enriches(h, bucket) \cup Prunes(h, bucket)
  OBVIOUS
<1>5. todo \subseteq Dirs /\ \A d \in todo : bucket[d].present \/ IsActive(h, d)
  BY <1>4 DEF Imports, Enriches, Prunes
<1>6. PICK diff : diff = ProtectionDiff(h, bucket)
  OBVIOUS
<1>7. IsFiniteSet(diff) /\ \A r \in diff : Tells(r)
  BY <1>6, ProtectionDiffOK DEF Inv
<1>8. PICK z : z = [sy[s] EXCEPT !.phase = "work", !.listing = bucket, !.todo = todo,
                                 !.plan.protection = diff]
  OBVIOUS
<1>9. SyncOK(s) /\ bucket \in [Dirs -> Directories]
  BY DEF Inv, StoreOK
<1>10. PICK plan : plan = [sy[s].plan EXCEPT !.protection = diff]
  OBVIOUS
<1>11. PlanOK(plan)
  <2>1. sy[s].plan \in Planned /\ PlanOK(sy[s].plan) /\ diff \subseteq Records
    BY <1>7, <1>9 DEF SyncOK, SyncStates, Tells
  <2>2. /\ plan \in Planned /\ plan.protection = diff
        /\ plan.added = sy[s].plan.added /\ plan.enriched = sy[s].plan.enriched
        /\ plan.tombstones = sy[s].plan.tombstones
    BY <1>10, <2>1 DEF Planned
  <2> QED
    BY <1>7, <2>1, <2>2 DEF PlanOK
<1>12. /\ z \in SyncStates /\ z.phase = "work" /\ z.snap = h /\ z.listing = bucket
       /\ z.todo = todo /\ z.plan = plan /\ z.out = sy[s].out
  BY <1>3, <1>5, <1>8, <1>9, <1>10, <1>11 DEF SyncOK, SyncStates, PlanOK
<1>13. sy' = [sy EXCEPT ![s] = z]
  <2>1. sy[s] \in SyncStates
    BY <1>9 DEF SyncOK
  <2>2. sy' = [sy EXCEPT ![s].phase = "work", ![s].listing = bucket, ![s].todo = todo,
                         ![s].plan.protection = diff]
    BY <1>3, <1>4, <1>6 DEF SyncList
  <2> QED
    BY <1>8, <2>1, <2>2 DEF Inv, SyncStates
<1>14. HistoryOK(h) /\ \A r \in Range(z.out) : Tells(r)
  BY <1>3, <1>9, <1>12 DEF SyncOK, Range
<1> QED
  BY <1>1, <1>2, <1>5, <1>9, <1>11, <1>12, <1>13, <1>14, SyncBecomesOK

(* What a job of a sync plans.                                              *)

LEMMA PrunePlanOK ==
  ASSUME Inv, NEW s \in Syncs, NEW d \in Dirs, IsActive(sy[s].snap, d)
  PROVE  PlanOK(PrunePlan(s, d))
<1>1. PlanOK(sy[s].plan) /\ sy[s].plan \in Planned /\ HistoryOK(sy[s].snap)
  BY DEF Inv, SyncOK, SyncStates
<1>2. CASE bucket[d].present
  BY <1>1, <1>2 DEF PrunePlan
<1>3. CASE ~bucket[d].present
  <2>1. PICK local : local = ActiveRecord(sy[s].snap, d)
    OBVIOUS
  <2>2. Projects(local, d)
    BY <1>1, <2>1, ActiveProjects
  <2>3. d \in drawn /\ (Announced(local) => /\ local.chain = Chain /\ local.rev = Number[d]
                                           /\ Listed(d))
    BY <2>2 DEF Projects, Tells, Announced, Listed
  <2>4. PICK r : r = PrunedRecord(s, d)
    OBVIOUS
  <2>5. Tells(r)
    <3>1. CASE Announced(local)
      BY <1>3, <2>1, <2>3, <2>4, <3>1, TombstoneTells DEF PrunedRecord, Inv
    <3>2. CASE ~Announced(local)
      BY <1>3, <2>1, <2>3, <2>4, <3>2, TombstoneTells DEF PrunedRecord, Inv
    <3> QED
      BY <3>1, <3>2
  <2>6. r \in Records
    BY <2>5 DEF Tells
  <2>7. PICK plan : plan = PrunePlan(s, d)
    OBVIOUS
  <2>8. /\ plan \in Planned /\ plan.added = sy[s].plan.added
        /\ plan.enriched = sy[s].plan.enriched /\ plan.protection = sy[s].plan.protection
        /\ plan.tombstones = sy[s].plan.tombstones \cup {r}
    BY <1>1, <1>3, <2>4, <2>6, <2>7 DEF PrunePlan, Planned
  <2>9. IsFiniteSet(plan.tombstones)
    BY <1>1, <2>8, FS_AddElement DEF PlanOK
  <2> QED
    BY <1>1, <2>5, <2>7, <2>8, <2>9 DEF PlanOK
<1> QED
  BY <1>2, <1>3

LEMMA EnrichedTells ==
  ASSUME Inv, NEW s \in Syncs, NEW d \in Dirs, IsActive(sy[s].snap, d)
  PROVE  Tells(EnrichedRecord(s, d)) /\ EnrichedRecord(s, d).type \in UploadTypes
<1>1. HistoryOK(sy[s].snap)
  BY DEF Inv, SyncOK
<1>2. PICK local : local = ActiveRecord(sy[s].snap, d)
  OBVIOUS
<1>3. Projects(local, d)
  BY <1>1, <1>2, ActiveProjects
<1>4. d \in drawn /\ local \in Records /\ Valid(local) /\ local.dir = d
  BY <1>3 DEF Projects, Tells
<1>5. PICK r : r = EnrichedRecord(s, d)
  OBVIOUS
<1>6. CASE NeedsRevision(local) /\ InChain(d)
  <2>1. Latest(d) \in Nat /\ Latest(d) >= Number[d]
    BY LatestIsGreatest DEF Inv
  <2>2. PICK n : n = Latest(d)
    OBVIOUS
  <2>3. r = [local EXCEPT !.type = "link", !.totals = TRUE, !.chain = Chain,
                          !.rev = Number[d], !.latest = n]
    BY <1>2, <1>5, <1>6, <2>2 DEF EnrichedRecord
  <2>4. /\ r \in Records /\ r.type = "link" /\ r.chain = Chain /\ r.rev = Number[d]
        /\ r.latest = n /\ r.dir = d /\ r.managed
    BY <1>3, <1>4, <2>1, <2>2, <2>3, ChainAssumption, NumberAssumption
       DEF Records, RecordTypes, UploadTypes, Projects
  <2>5. bucket[d].kind = "announced"
    BY <1>6 DEF InChain
  <2> QED
    BY <1>4, <1>5, <2>1, <2>2, <2>4, <2>5, ChainAssumption, NoChainAssumption, NumberAssumption
       DEF Tells, Valid, UploadTypes
<1>7. CASE ~(NeedsRevision(local) /\ InChain(d))
  <2>1. r = [local EXCEPT !.totals = TRUE]
    BY <1>2, <1>5, <1>7 DEF EnrichedRecord
  <2>2. /\ r \in Records /\ r.type = local.type /\ r.chain = local.chain /\ r.rev = local.rev
        /\ r.latest = local.latest /\ r.dir = local.dir /\ r.managed = local.managed
    BY <1>4, <2>1 DEF Records
  <2> QED
    BY <1>3, <1>5, <2>2 DEF Projects, Tells, Valid, Announced
<1> QED
  BY <1>6, <1>7

LEMMA EnrichPlanOK ==
  ASSUME Inv, NEW s \in Syncs, NEW d \in Dirs, IsActive(sy[s].snap, d)
  PROVE  PlanOK(EnrichPlan(s, d))
<1>1. PlanOK(sy[s].plan) /\ sy[s].plan \in Planned
  BY DEF Inv, SyncOK, SyncStates
<1>2. PICK r : r = EnrichedRecord(s, d)
  OBVIOUS
<1>3. Tells(r) /\ r.type \in UploadTypes /\ r \in Records
  BY <1>2, EnrichedTells DEF Tells
<1>4. PICK plan : plan = [sy[s].plan EXCEPT !.enriched = @ \cup {r}]
  OBVIOUS
<1>5. /\ plan \in Planned /\ plan.added = sy[s].plan.added
      /\ plan.tombstones = sy[s].plan.tombstones /\ plan.protection = sy[s].plan.protection
      /\ plan.enriched = sy[s].plan.enriched \cup {r}
  BY <1>1, <1>3, <1>4 DEF Planned
<1>6. IsFiniteSet(plan.enriched)
  BY <1>1, <1>5, FS_AddElement DEF PlanOK
<1>7. PlanOK(plan)
  BY <1>1, <1>3, <1>5, <1>6 DEF PlanOK
<1>8. EnrichPlan(s, d) \in {plan, sy[s].plan}
  BY <1>2, <1>4 DEF EnrichPlan
<1> QED
  BY <1>1, <1>7, <1>8

LEMMA ImportPlanOK ==
  ASSUME Inv, NEW s \in Syncs, NEW d \in Dirs
  PROVE  PlanOK(ImportPlan(s, d))
<1>1. PlanOK(sy[s].plan) /\ sy[s].plan \in Planned
  BY DEF Inv, SyncOK, SyncStates
<1>2. CASE ~Importable(s, d)
  BY <1>1, <1>2 DEF ImportPlan
<1>3. CASE Importable(s, d)
  <2>1. d \in drawn
    BY <1>3 DEF Importable, Inv, StoreOK
  <2>2. PICK r : r = ImportRecord(d)
    OBVIOUS
  <2>3. Tells(r)
    <3>1. CASE InChain(d)
      BY <2>1, <2>2, <3>1, ProjectionTells DEF ImportRecord, Inv, UploadTypes
    <3>2. CASE ~InChain(d)
      <4>1. r = Upload("upload", d, TRUE, NoChain, 0, 0)
        BY <2>2, <3>2 DEF ImportRecord
      <4> QED
        BY <2>1, <4>1, NoChainAssumption
           DEF Upload, Tells, Records, RecordTypes, UploadTypes, Valid, Announced, Inv, StoreOK
    <3> QED
      BY <3>1, <3>2
  <2>4. PICK q : q = Protection("protect", d)
    OBVIOUS
  <2>5. Tells(q)
    BY <2>1, <2>4, ProtectionTells DEF Inv
  <2>6. r \in Records /\ q \in Records
    BY <2>3, <2>5 DEF Tells
  <2>7. PICK plan : plan = ImportPlan(s, d)
    OBVIOUS
  <2>8. PICK extra \in {{}, {q}} :
          plan = [sy[s].plan EXCEPT !.added = @ \cup {r}, !.protection = @ \cup extra]
    BY <1>3, <2>2, <2>4, <2>7 DEF ImportPlan
  <2>9. /\ plan \in Planned /\ plan.enriched = sy[s].plan.enriched
        /\ plan.tombstones = sy[s].plan.tombstones
        /\ plan.added = sy[s].plan.added \cup {r}
        /\ plan.protection = sy[s].plan.protection \cup extra
    BY <1>1, <2>6, <2>8 DEF Planned
  <2>10. IsFiniteSet(plan.added) /\ IsFiniteSet(plan.protection)
    <3>1. IsFiniteSet(sy[s].plan.protection) /\ IsFiniteSet(sy[s].plan.added)
      BY <1>1 DEF PlanOK
    <3>2. IsFiniteSet(plan.added)
      BY <2>9, <3>1, FS_AddElement
    <3>3. CASE extra = {}
      <4>1. plan.protection = sy[s].plan.protection
        BY <2>9, <3>3
      <4> QED
        BY <3>1, <3>2, <4>1
    <3>4. CASE extra = {q}
      <4>1. PICK P : P = sy[s].plan.protection
        OBVIOUS
      <4>2. IsFiniteSet(P) /\ plan.protection = P \cup {q}
        BY <2>9, <3>1, <3>4, <4>1
      <4>3. IsFiniteSet(P \cup {q})
        BY <4>2, FS_AddElement
      <4> QED
        BY <3>2, <4>2, <4>3
    <3> QED
      BY <2>8, <3>3, <3>4
  <2> QED
    BY <1>1, <2>3, <2>5, <2>7, <2>8, <2>9, <2>10 DEF PlanOK
<1> QED
  BY <1>2, <1>3

LEMMA JobPlanOK ==
  ASSUME Inv, NEW s \in Syncs, NEW d \in Dirs, sy[s].phase = "work", d \in sy[s].todo
  PROVE  PlanOK(JobPlan(s, d))
BY PrunePlanOK, EnrichPlanOK, ImportPlanOK DEF JobPlan, Inv, SyncOK

(* A job is done: its directory leaves the list, and the plan is that.      *)
LEMMA JobDoneOK ==
  ASSUME Inv, NEW s \in Syncs, NEW d \in Dirs, sy[s].phase = "work",
         bucket' = bucket, drawn' = drawn, cl' = cl, UNCHANGED file,
         NEW plan, PlanOK(plan),
         NEW z, z = [sy[s] EXCEPT !.todo = @ \ {d}, !.plan = plan], sy' = [sy EXCEPT ![s] = z]
  PROVE  SyncStepOK(s)
<1>1. FileOK'
  BY StoreUnchanged, FileStays DEF Inv
<1>3. SyncOK(s) /\ sy[s] \in SyncStates
  BY DEF Inv, SyncOK
<1>4. /\ z \in SyncStates /\ z.phase = "work" /\ z.snap = sy[s].snap
      /\ z.listing = sy[s].listing /\ z.todo = sy[s].todo \ {d} /\ z.plan = plan
      /\ z.out = sy[s].out
  BY <1>3 DEF SyncStates, PlanOK
<1>5. \A r \in Range(z.out) : Tells(r)
  BY <1>3, <1>4 DEF SyncOK, Range
<1> QED
  BY <1>1, <1>3, <1>4, <1>5, SyncBecomesOK DEF SyncOK

LEMMA SyncJobOK ==
  ASSUME Inv, NEW s \in Syncs, NEW d \in Dirs, SyncJob(s, d) \/ SyncJobFails(s, d)
  PROVE  SyncStepOK(s)
<1>1. /\ sy[s].phase = "work" /\ d \in sy[s].todo /\ UNCHANGED file
      /\ bucket' = bucket /\ drawn' = drawn /\ cl' = cl
  BY DEF SyncJob, SyncJobFails, SyncStep, InPhase
<1>2. sy[s] \in SyncStates /\ PlanOK(sy[s].plan)
  BY DEF Inv, SyncOK
<1>3. CASE SyncJob(s, d)
  <2>1. PICK plan : plan = JobPlan(s, d)
    OBVIOUS
  <2>2. PlanOK(plan)
    BY <1>1, <2>1, JobPlanOK
  <2>3. PICK z : z = [sy[s] EXCEPT !.todo = @ \ {d}, !.plan = plan]
    OBVIOUS
  <2>4. sy' = [sy EXCEPT ![s].todo = @ \ {d}, ![s].plan = plan]
    BY <1>3, <2>1 DEF SyncJob
  <2>5. sy' = [sy EXCEPT ![s] = z]
    BY <1>2, <2>3, <2>4 DEF SyncStates, Inv
  <2> QED
    BY <1>1, <2>2, <2>3, <2>5, JobDoneOK
<1>4. CASE SyncJobFails(s, d)
  <2>1. PICK plan : plan = sy[s].plan
    OBVIOUS
  <2>2. PICK z : z = [sy[s] EXCEPT !.todo = @ \ {d}, !.plan = plan]
    OBVIOUS
  <2>3. sy' = [sy EXCEPT ![s].todo = @ \ {d}]
    BY <1>4 DEF SyncJobFails
  <2>4. sy' = [sy EXCEPT ![s] = z]
    BY <1>2, <2>1, <2>2, <2>3 DEF SyncStates, Inv
  <2> QED
    BY <1>1, <1>2, <2>1, <2>2, <2>4, JobDoneOK
<1> QED
  BY <1>3, <1>4

(* A set written in some order.                                             *)
LEMMA SetToSeqInSet ==
  ASSUME NEW S, IsFiniteSet(S)
  PROVE  SetToSeq(S) \in Seq(S)
<1>1. Cardinality(S) \in Nat /\ ExistsBijection(1..Cardinality(S), S)
  BY FS_CardinalityType
<1>2. PICK f : f \in Bijection(1..Cardinality(S), S)
  BY <1>1 DEF ExistsBijection
<1>3. f \in [1..Cardinality(S) -> S] /\ IsInjective(f)
  BY <1>2 DEF Bijection, Injection
<1>4. SetToSeq(S) \in [1..Cardinality(S) -> S]
  BY <1>3 DEF SetToSeq
<1> QED
  BY <1>1, <1>4

(* The lines appended meanwhile add to what is listed: the merge of a       *)
(* planned record with the one listed by then.                              *)
LEMMA MergedTells ==
  ASSUME NEW old, NEW r, NEW d, Projects(old, d), Tells(r), r.type \in UploadTypes, r.dir = d
  PROVE  Tells(MergedRecord(old, r))
<1> DEFINE adopted == NeedsRevision(old) /\ r.chain # NoChain
           type == IF r.type = "link" THEN "link" ELSE old.type
           totals == old.totals \/ r.totals
           chain == IF adopted THEN r.chain ELSE old.chain
           rev == IF adopted THEN r.rev ELSE old.rev
           latest == IF adopted THEN r.latest ELSE old.latest
<1>1. old \in Records /\ r \in Records /\ Valid(old) /\ Valid(r) /\ old.dir = d /\ d \in drawn
  BY DEF Projects, Tells
<1>2. PICK m : m = MergedRecord(old, r)
  OBVIOUS
<1>3. m = [old EXCEPT !.type = type, !.totals = totals, !.chain = chain, !.rev = rev,
                      !.latest = latest]
  BY <1>2 DEF MergedRecord
<1>4. /\ type \in UploadTypes /\ type \in RecordTypes /\ totals \in BOOLEAN
      /\ chain \in Chains \cup {NoChain} /\ rev \in Nat /\ latest \in Nat
  BY <1>1 DEF Records, Projects, UploadTypes, RecordTypes
<1>5. type = "link" => ~NeedsRevision(old) \/ r.chain # NoChain
  BY <1>1 DEF Valid, NeedsRevision, Records
<1>6. /\ chain # NoChain => chain = Chain /\ rev = Number[d] /\ rev > 0
      /\ chain = NoChain => rev = 0 /\ latest = 0
      /\ latest # 0 => latest >= rev
      /\ type = "link" => chain # NoChain /\ latest >= rev
      /\ chain # NoChain /\ rev > 0 /\ latest >= rev => bucket[d].kind = "announced"
  <2>1. CASE adopted
    <3>1. chain = r.chain /\ rev = r.rev /\ latest = r.latest /\ r.chain # NoChain
      BY <2>1
    <3>2. r.type = "link" => r.chain # NoChain /\ r.latest >= r.rev
      BY <1>1 DEF Valid
    <3>3. CASE type = "link" /\ r.type # "link"
      <4>1. NeedsRevision(old) /\ old.type = "link"
        BY <2>1, <3>3
      <4>2. old.chain # NoChain /\ old.latest >= old.rev /\ old.rev > 0
        BY <1>1, <4>1 DEF Valid
      <4>3. old.latest \in Nat /\ old.rev \in Nat
        BY <1>1 DEF Records
      <4> QED
        BY <4>1, <4>2, <4>3 DEF NeedsRevision
    <3> HIDE DEF chain, rev, latest
    <3> QED
      BY <1>1, <3>1, <3>2, <3>3 DEF Tells, Valid, Announced, UploadTypes
  <2>2. CASE ~adopted
    <3>1. chain = old.chain /\ rev = old.rev /\ latest = old.latest
      BY <2>2
    <3>2. type = "link" => old.chain # NoChain /\ old.latest >= old.rev
      <4>1. CASE old.type = "link"
        BY <1>1, <4>1 DEF Valid
      <4>2. CASE old.type # "link" /\ type = "link"
        <5>1. ~NeedsRevision(old)
          BY <1>5, <2>2, <4>2
        <5> QED
          BY <1>1, <5>1 DEF NeedsRevision, Records
      <4> QED
        BY <4>1, <4>2
    <3> HIDE DEF chain, rev, latest, type, adopted
    <3> QED
      BY <1>1, <3>1, <3>2 DEF Projects, Tells, Valid, Announced, UploadTypes
  <2> QED
    BY <2>1, <2>2
<1> HIDE DEF adopted, type, totals, chain, rev, latest
<1>7. /\ m \in Records /\ m.type = type /\ m.chain = chain /\ m.rev = rev /\ m.latest = latest
      /\ m.dir = d /\ m.managed = old.managed
  BY <1>1, <1>3, <1>4 DEF Records
<1> QED
  BY <1>1, <1>2, <1>4, <1>6, <1>7 DEF Projects, Tells, Valid, Announced, UploadTypes

LEMMA CommittedOK ==
  ASSUME Inv, NEW s \in Syncs
  PROVE  Committed(s) \in Seq({r \in Records : Tells(r)})
<1> DEFINE Good == {r \in Records : Tells(r)}
<1>1. PlanOK(sy[s].plan)
  BY DEF Inv, SyncOK
<1>2. PICK h : h = History
  OBVIOUS
<1>3. HistoryOK(h)
  BY <1>2, HistorySound DEF Inv
<1>4. \A r \in sy[s].plan.added \cup sy[s].plan.enriched \cup sy[s].plan.tombstones
               \cup sy[s].plan.protection : r \in Good
  BY <1>1 DEF PlanOK, Tells
<1>5. PICK added : added = AddedNow(h, s)
  OBVIOUS
<1>6. added \subseteq Good /\ IsFiniteSet(added)
  <2>1. added \subseteq sy[s].plan.added
    BY <1>5 DEF AddedNow
  <2>2. IsFiniteSet(sy[s].plan.added)
    BY <1>1 DEF PlanOK
  <2> QED
    BY <1>4, <2>1, <2>2, FS_Subset
<1>7. PICK dead : dead = TombstonesNow(h, s)
  OBVIOUS
<1>8. dead \subseteq Good /\ IsFiniteSet(dead)
  <2>1. dead \subseteq sy[s].plan.tombstones
    BY <1>7 DEF TombstonesNow
  <2>2. IsFiniteSet(sy[s].plan.tombstones)
    BY <1>1 DEF PlanOK
  <2> QED
    BY <1>4, <2>1, <2>2, FS_Subset
<1>9. PICK prot : prot = ProtectionNow(h, s, added, dead)
  OBVIOUS
<1>10. prot \subseteq Good /\ IsFiniteSet(prot)
  <2>1. prot \subseteq sy[s].plan.protection
    BY <1>9 DEF ProtectionNow
  <2>2. IsFiniteSet(sy[s].plan.protection)
    BY <1>1 DEF PlanOK
  <2> QED
    BY <1>4, <2>1, <2>2, FS_Subset
<1>11. PICK merged : merged = EnrichedNow(h, s)
  OBVIOUS
<1>12. merged \subseteq Good /\ IsFiniteSet(merged)
  <2> DEFINE E == {e \in sy[s].plan.enriched :
                     IsActive(h, e.dir) /\ Completes(ActiveRecord(h, e.dir), e)}
             f == [e \in E |-> MergedRecord(ActiveRecord(h, e.dir), e)]
  <2>1. IsFiniteSet(sy[s].plan.enriched)
    BY <1>1 DEF PlanOK
  <2>2. IsFiniteSet(E)
    BY <2>1, FS_Subset
  <2>3. merged = {MergedRecord(ActiveRecord(h, e.dir), e) : e \in E}
    BY <1>11 DEF EnrichedNow
  <2>4. f \in Surjection(E, merged)
    BY <2>3 DEF Surjection
  <2>5. ASSUME NEW e \in E PROVE MergedRecord(ActiveRecord(h, e.dir), e) \in Good
    <3>1. /\ e \in sy[s].plan.enriched /\ IsActive(h, e.dir) /\ Tells(e)
          /\ e.type \in UploadTypes /\ e.dir \in Dirs
      BY <1>1 DEF PlanOK, Tells, Records
    <3>2. PICK d \in Dirs : d = e.dir
      BY <3>1
    <3>3. PICK old : old = ActiveRecord(h, d)
      OBVIOUS
    <3>4. Projects(old, d)
      BY <1>3, <3>1, <3>2, <3>3, ActiveProjects
    <3>5. Tells(MergedRecord(old, e))
      BY <3>1, <3>2, <3>4, MergedTells
    <3> QED
      BY <3>2, <3>3, <3>5 DEF Tells
  <2>6. merged \subseteq Good
    <3> HIDE DEF E, Good
    <3> QED BY <2>3, <2>5
  <2> HIDE DEF E, f, Good
  <2> QED
    BY <2>2, <2>4, <2>6, FS_Surjection
<1> HIDE DEF Good
<1>13. \A S : S \subseteq Good /\ IsFiniteSet(S) => SetToSeq(S) \in Seq(Good)
  <2> SUFFICES ASSUME NEW S, S \subseteq Good, IsFiniteSet(S) PROVE SetToSeq(S) \in Seq(Good)
    OBVIOUS
  <2>1. SetToSeq(S) \in Seq(S)
    BY SetToSeqInSet
  <2>2. PICK q : q = SetToSeq(S)
    OBVIOUS
  <2>3. q \in Seq(Good)
    BY <2>1, <2>2
  <2> QED
    BY <2>2, <2>3
<1>14. /\ SetToSeq(added) \in Seq(Good) /\ SetToSeq(merged) \in Seq(Good)
       /\ SetToSeq(dead) \in Seq(Good) /\ SetToSeq(prot) \in Seq(Good)
  BY <1>6, <1>8, <1>10, <1>12, <1>13
<1>15. Committed(s) = SetToSeq(added) \o SetToSeq(merged) \o SetToSeq(dead) \o SetToSeq(prot)
  BY <1>2, <1>5, <1>7, <1>9, <1>11 DEF Committed
<1>16. \A u, v \in Seq(Good) : u \o v \in Seq(Good)
  OBVIOUS
<1>17. Committed(s) \in Seq(Good)
  BY <1>14, <1>15, <1>16
<1> QED
  BY <1>17 DEF Good

LEMMA SyncCommitOK ==
  ASSUME Inv, NEW s \in Syncs, SyncCommit(s)
  PROVE  SyncStepOK(s)
<1>1. /\ bucket' = bucket /\ drawn' = drawn /\ cl' = cl /\ UNCHANGED file
  BY DEF SyncCommit, SyncStep
<1>2. FileOK'
  BY <1>1, StoreUnchanged, FileStays DEF Inv
<1>3. PICK out : out = Committed(s)
  OBVIOUS
<1>4. out \in Seq(Records) /\ \A r \in Range(out) : Tells(r)
  <2> DEFINE Good == {r \in Records : Tells(r)}
  <2>1. out \in Seq(Good)
    BY <1>3, CommittedOK
  <2>2. \A i \in DOMAIN out : out[i] \in Good
    <3> HIDE DEF Good
    <3> QED BY <2>1
  <2>3. out \in Seq(Records)
    BY <2>1
  <2> QED
    BY <2>2, <2>3 DEF Range
<1>5. CASE out = <<>>
  <2>1. sy' = [sy EXCEPT ![s] = NoSync]
    BY <1>3, <1>5 DEF SyncCommit
  <2> QED
    BY <1>1, <1>2, <2>1, SyncEndsOK
<1>6. CASE out # <<>>
  <2>1. PICK z : z = [NoSync EXCEPT !.phase = "write", !.out = out]
    OBVIOUS
  <2>2. /\ z \in SyncStates /\ z.phase = "write" /\ z.snap = NoSync.snap /\ z.plan = NoSync.plan
        /\ z.out = out
    BY <1>4, <2>1, NoSyncOK DEF SyncStates
  <2>3. sy' = [sy EXCEPT ![s] = z]
    BY <1>3, <1>6, <2>1 DEF SyncCommit
  <2> QED
    BY <1>1, <1>2, <1>4, <1>6, <2>2, <2>3, NoSyncOK, SyncBecomesOK
<1> QED
  BY <1>5, <1>6

(* The next record of a sync that is writing.                               *)
LEMMA NextOut ==
  ASSUME Inv, NEW s \in Syncs, sy[s].phase = "write"
  PROVE  /\ sy[s] \in SyncStates /\ sy[s].out \in Seq(Records) /\ sy[s].out # <<>>
         /\ Tells(Head(sy[s].out)) /\ \A r \in Range(sy[s].out) : Tells(r)
<1>1. SyncOK(s) /\ sy[s] \in SyncStates
  BY DEF Inv, SyncOK
<1>2. PICK out : out = sy[s].out
  OBVIOUS
<1>3. out \in Seq(Records) /\ out # <<>>
  BY <1>1, <1>2 DEF SyncOK, SyncStates
<1>4. \A i \in DOMAIN out : Tells(out[i])
  BY <1>1, <1>2 DEF SyncOK
<1>5. 1 \in DOMAIN out /\ Head(out) = out[1]
  BY <1>3
<1> QED
  BY <1>1, <1>2, <1>3, <1>4, <1>5 DEF Range

LEMMA TailStays ==
  ASSUME NEW S, NEW q \in Seq(S), q # <<>>, Len(q) # 1
  PROVE  /\ Tail(q) \in Seq(S) /\ Tail(q) # <<>>
         /\ \A i \in DOMAIN Tail(q) : i + 1 \in DOMAIN q /\ Tail(q)[i] = q[i + 1]
<1>1. /\ Tail(q) \in Seq(S) /\ Len(Tail(q)) = Len(q) - 1
      /\ \A i \in 1..Len(Tail(q)) : Tail(q)[i] = q[i + 1]
  BY HeadTailProperties
<1>2. Len(q) \in Nat /\ Len(q) > 1 /\ DOMAIN q = 1..Len(q)
  BY EmptySeq
<1>3. Len(Tail(q)) > 0 /\ DOMAIN Tail(q) = 1..Len(Tail(q))
  <2>1. Len(Tail(q)) > 0
    BY <1>1, <1>2
  <2>2. DOMAIN Tail(q) = 1..Len(Tail(q))
    BY <1>1
  <2> QED
    BY <2>1, <2>2
<1>4. Tail(q) # <<>>
  <2>1. Len(<<>>) = 0
    OBVIOUS
  <2>2. Len(Tail(q)) # 0
    BY <1>3
  <2> QED
    BY <2>1, <2>2
<1>5. \A i \in 1..Len(Tail(q)) : i + 1 \in 1..Len(q)
  BY <1>1, <1>2
<1> QED
  BY <1>1, <1>2, <1>3, <1>4, <1>5

LEMMA SyncWriteOK ==
  ASSUME Inv, NEW s \in Syncs, SyncWrite(s)
  PROVE  SyncStepOK(s)
<1>1. bucket' = bucket /\ drawn' = drawn /\ cl' = cl /\ sy[s].phase = "write"
  BY DEF SyncWrite, SyncStep, InPhase
<1>2. StoreOK' /\ Grows
  BY <1>1, StoreUnchanged DEF Inv
<1>3. PICK out : out = sy[s].out
  OBVIOUS
<1>4. /\ sy[s] \in SyncStates /\ out \in Seq(Records) /\ out # <<>>
      /\ Tells(Head(out)) /\ \A r \in Range(out) : Tells(r)
  BY <1>1, <1>3, NextOut
<1>5. PICK line : line = Head(out)
  OBVIOUS
<1>6. Tells(line)'
  BY <1>2, <1>4, <1>5, TellsStays DEF Inv
<1>7. FileOK'
  BY <1>2, <1>3, <1>5, <1>6, FileGrows DEF Inv, SyncWrite
<1>8. CASE Len(out) = 1
  <2>1. sy' = [sy EXCEPT ![s] = NoSync]
    BY <1>3, <1>8 DEF SyncWrite, Inv
  <2> QED
    BY <1>1, <1>7, <2>1, SyncEndsOK
<1>9. CASE Len(out) # 1
  <2>1. PICK z : z = [sy[s] EXCEPT !.out = Tail(out)]
    OBVIOUS
  <2>2. /\ Tail(out) \in Seq(Records) /\ Tail(out) # <<>>
        /\ \A i \in DOMAIN Tail(out) : i + 1 \in DOMAIN out /\ Tail(out)[i] = out[i + 1]
    BY <1>4, <1>9, TailStays
  <2>3. \A r \in Range(Tail(out)) : Tells(r)
    BY <1>4, <2>2 DEF Range
  <2>4. /\ z \in SyncStates /\ z.phase = "write" /\ z.snap = sy[s].snap /\ z.plan = sy[s].plan
        /\ z.out = Tail(out)
    BY <1>1, <1>4, <2>1, <2>2 DEF SyncStates
  <2>5. sy' = [sy EXCEPT ![s] = z]
    <3>1. PICK later : later = IF Len(sy[s].out) = 1 THEN NoSync
                               ELSE [sy[s] EXCEPT !.out = Tail(sy[s].out)]
      OBVIOUS
    <3>2. sy' = [sy EXCEPT ![s] = later]
      BY <3>1 DEF SyncWrite, Inv
    <3>3. later = z
      BY <1>3, <1>9, <2>1, <3>1
    <3> QED
      BY <3>2, <3>3
  <2>6. HistoryOK(z.snap) /\ PlanOK(z.plan)
    BY <2>4 DEF Inv, SyncOK
  <2> QED
    BY <1>1, <1>7, <2>2, <2>3, <2>4, <2>5, <2>6, SyncBecomesOK
<1> QED
  BY <1>8, <1>9

LEMMA SyncCrashOK ==
  ASSUME Inv, NEW s \in Syncs, SyncCrash(s)
  PROVE  SyncStepOK(s)
<1>1. /\ bucket' = bucket /\ drawn' = drawn /\ cl' = cl /\ sy[s].phase = "write"
      /\ sy' = [sy EXCEPT ![s] = NoSync]
  BY DEF SyncCrash, SyncStep, InPhase
<1>2. StoreOK' /\ Grows
  BY <1>1, StoreUnchanged DEF Inv
<1>3. FileOK'
  <2>1. CASE UNCHANGED file
    BY <1>2, <2>1, FileStays DEF Inv
  <2>2. CASE \E line \in {Head(sy[s].out), Garbage} : AppendLine(line, FALSE)
    <3>1. PICK line \in {Head(sy[s].out), Garbage} : AppendLine(line, FALSE)
      BY <2>2
    <3>2. line = Garbage \/ Tells(line)'
      BY <1>1, <1>2, <3>1, NextOut, TellsStays DEF Inv
    <3> QED
      BY <1>2, <3>1, <3>2, FileGrows DEF Inv
  <2> QED
    BY <2>1, <2>2 DEF SyncCrash
<1> QED
  BY <1>1, <1>3, SyncEndsOK

LEMMA SyncOKs ==
  ASSUME Inv, NEW s \in Syncs, SyncProgress(s) \/ SyncFault(s)
  PROVE  Inv'
BY SyncReadOK, SyncListOK, SyncJobOK, SyncCommitOK, SyncWriteOK, SyncCrashOK, SyncKeepsInv
   DEF SyncProgress, SyncFault

-----------------------------------------------------------------------------
LEMMA InitInv == Init => Inv
<1> SUFFICES ASSUME Init PROVE Inv
  OBVIOUS
<1>1. /\ bucket = [d \in Dirs |-> IF d \in Old THEN OldDirectory ELSE NoDirectory]
      /\ drawn = Old /\ newline = TRUE
      /\ lines = [i \in 1..Cardinality(Old) |-> Upload("upload", SetToSeq(Old)[i], FALSE, NoChain, 0, 0)]
      /\ cl = [p \in Clients |-> NoOp] /\ sy = [s \in Syncs |-> NoSync]
  BY DEF Init
<1>2. OldDirectory \in Directories /\ NoDirectory \in Directories
      /\ OldDirectory.kind = "standalone" /\ NoDirectory.kind = "standalone" /\ ~NoDirectory.present
  BY DEF OldDirectory, NoDirectory, Directories, Kinds
<1>3. StoreOK
  BY <1>1, <1>2, OldAssumption DEF StoreOK, Listed
<1>4. IsFiniteSet(Old) /\ Cardinality(Old) \in Nat
  BY OldAssumption, DirsAssumption, FS_Subset, FS_CardinalityType
<1>5. PICK q : q = SetToSeq(Old)
  OBVIOUS
<1>6. \A i \in 1..Cardinality(Old) : q[i] \in Old
  <2>1. Cardinality(Old) \in Nat /\ ExistsBijection(1..Cardinality(Old), Old)
    BY <1>4, FS_CardinalityType
  <2>2. PICK f : f \in Bijection(1..Cardinality(Old), Old)
    BY <2>1 DEF ExistsBijection
  <2>3. f \in [1..Cardinality(Old) -> Old] /\ IsInjective(f)
    BY <2>2 DEF Bijection, Injection
  <2>4. q \in [1..Cardinality(Old) -> Old]
    BY <1>5, <2>3 DEF SetToSeq
  <2> QED
    BY <2>4
<1>7. \A d \in Old : Tells(Upload("upload", d, FALSE, NoChain, 0, 0))
  BY <1>1, OldAssumption, NoChainAssumption
     DEF Upload, Tells, Records, RecordTypes, UploadTypes, Valid, Announced
<1>8. \A i \in 1..Cardinality(Old) : Tells(lines[i])
  BY <1>1, <1>5, <1>6, <1>7
<1>9. DOMAIN lines = 1..Cardinality(Old)
  BY <1>1
<1>10. lines \in Seq(Records \cup {Garbage})
  <2>1. \A i \in 1..Cardinality(Old) : lines[i] \in Records
    BY <1>8 DEF Tells
  <2>2. lines \in [1..Cardinality(Old) -> Records \cup {Garbage}]
    BY <1>1, <2>1
  <2> QED
    BY <1>4, <2>2
<1>11. FileOK
  BY <1>1, <1>8, <1>9, <1>10 DEF FileOK
<1>12. cl = [p \in Clients |-> cl[p]] /\ \A p \in Clients : ClientOK(p)
  <2>1. \A p \in Clients : cl[p] = NoOp
    BY <1>1
  <2>2. NoOp.op = "idle" /\ NoOp.rec = {}
    BY DEF NoOp
  <2> QED
    BY <1>1, <2>1, <2>2, NoOpRuns DEF ClientOK
<1>13. sy = [s \in Syncs |-> sy[s]] /\ \A s \in Syncs : SyncOK(s)
  <2>1. \A s \in Syncs : sy[s] = NoSync
    BY <1>1
  <2> QED
    BY <1>1, <2>1, NoSyncOK DEF SyncOK
<1> QED
  BY <1>3, <1>11, <1>12, <1>13 DEF Inv

LEMMA NextInv == Inv /\ [Next]_vars => Inv'
<1> SUFFICES ASSUME Inv, [Next]_vars PROVE Inv'
  OBVIOUS
<1>1. CASE UNCHANGED vars
  <2>1. UNCHANGED <<bucket, drawn, cl, sy, file>>
    BY <1>1 DEF vars, file
  <2>2. StoreOK' /\ Grows
    BY <2>1, StoreUnchanged DEF Inv
  <2>3. FileOK' /\ (\A p \in Clients : ClientOK(p)') /\ (\A s \in Syncs : SyncOK(s)')
    BY <2>1, <2>2, FileStays, ClientStays, SyncStays DEF Inv
  <2> QED
    BY <2>1, <2>2, <2>3 DEF Inv
<1>2. CASE Next
  BY <1>2, ClientOKs, ForeignOK, SyncOKs DEF Next
<1> QED
  BY <1>1, <1>2

LEMMA Invariance == Spec => []Inv
BY InitInv, NextInv, PTL DEF Spec

(* Types: the store holds directories, the file records or lines that do    *)
(* not parse, and what commands and syncs hold are records of directories.  *)
THEOREM Types == Spec => []TypeOK
<1>1. Inv => TypeOK
  <2> SUFFICES ASSUME Inv PROVE TypeOK
    OBVIOUS
  <2>1. \A i \in DOMAIN lines : lines[i] = Garbage \/ lines[i] \in Records
    BY DEF Inv, FileOK, Tells
  <2>2. \A p \in Clients : cl[p].rec \subseteq Records /\ cl[p].links \subseteq Dirs
    BY DEF Inv, ClientOK, Running
  <2>3. \A s \in Syncs : sy[s].todo \subseteq Dirs /\ sy[s].snap.deleted \subseteq Chains \X Nat
    BY DEF Inv, SyncOK, HistoryOK, SyncStates
  <2> QED
    BY <2>1, <2>2, <2>3 DEF Inv, StoreOK, FileOK, TypeOK
<1> QED
  BY <1>1, Invariance, PTL

(* Whatever commands, syncs and other machines do to one bucket in any      *)
(* order, and whichever records are lost or torn: every record in the file  *)
(* is one a reader accepts, a recorded deletion is one that happened, and   *)
(* no revision that is alive is suppressed for good.                        *)
THEOREM RecordedTruth == Spec => []RecordsSound
<1>1. Inv => RecordsSound
  <2> SUFFICES ASSUME Inv PROVE RecordsSound
    OBVIOUS
  <2>1. \A i \in DOMAIN lines : lines[i] # Garbage => Tells(lines[i])
    BY DEF Inv, FileOK
  <2>2. WritesReadable
    BY <2>1 DEF WritesReadable, Tells
  <2>3. TombstonedIsGone
    BY <2>1 DEF TombstonedIsGone, Tells
  <2>4. SuppressedIsDead
    <3> SUFFICES ASSUME NEW d \in Members, RevisionDeleted(DeletedRevisions(lines), Chain, Number[d])
                 PROVE  FALSE
      BY DEF SuppressedIsDead
    <3>1. PICK i \in Readable(lines) : /\ lines[i].type = "delete" /\ lines[i].rev > 0
                                       /\ lines[i].chain = Chain /\ lines[i].rev = Number[d]
      BY DEF RevisionDeleted, DeletedRevisions
    <3>2. Tells(lines[i])
      BY <2>1, <3>1 DEF Readable
    <3>3. PICK e \in Dirs : /\ e = lines[i].dir /\ Listed(e) /\ ~bucket[e].present
                            /\ Number[e] = Number[d]
      BY <3>1, <3>2, ChainAssumption, NoChainAssumption DEF Tells, Records, Listed
    <3>4. d \in Dirs /\ Listed(d) /\ bucket[d].present
      BY DEF Members, InChain, Listed
    <3> QED
      BY <3>3, <3>4 DEF Inv, StoreOK
  <2> QED
    BY <2>2, <2>3, <2>4 DEF RecordsSound
<1> QED
  BY <1>1, Invariance, PTL
=============================================================================
