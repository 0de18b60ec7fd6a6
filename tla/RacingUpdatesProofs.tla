-------------------------- MODULE RacingUpdatesProofs --------------------------
(***************************************************************************)
(* What racing updates of one document cannot do, for any number of        *)
(* writers that append, crash, retry, lose answers and claim cleanups, and *)
(* nobody who deletes (Deleters = {}).                                     *)
(*                                                                         *)
(* The argument: at any time there is one line of directories, one for     *)
(* each revision number, and every index anybody has stored or holds is    *)
(* the beginning of that line.  The line grows only by a commit, a commit  *)
(* goes to the last directory of the index it extends, and the index of a  *)
(* directory that has a successor is already longer than that.             *)
(***************************************************************************)
EXTENDS RevisionChainProofs

Undone      == {"rbPayload", "rbMarker"}
Uncommitted == Pending \cup Undone

USE DEF Preparing, Promoting, Pending, Appending, Publishing, Deleting, Undone, Uncommitted

(* b is no index, or the first numbers of the line.                        *)
Fits(b, line) ==
  b # Absent =>
    /\ b.kind = "index"
    /\ b.chain = line[2]
    /\ b.last = Len(b.ents)
    /\ b.cur \in 1..Len(b.ents)
    /\ Len(b.ents) >= 2 /\ Len(b.ents) <= Len(line)
    /\ \A n \in 1..Len(b.ents) : b.ents[n] = LiveEntry(line[n])

(* b announces x as the successor of the revision in d, whose index is     *)
(* old.                                                                  *)
Extends(d, old, x, b) ==
  /\ b.kind = "index"
  /\ b.last = Len(b.ents)
  /\ b.cur \in 1..Len(b.ents)
  /\ \/ /\ old = Absent /\ d = Root
        /\ b.chain = x
        /\ b.ents = AppendEntry(<<LiveEntry(Root)>>, x)
     \/ /\ old # Absent
        /\ Decodes(old, d) /\ old.cur = Len(old.ents)
        /\ b.chain = old.chain
        /\ b.ents = AppendEntry(old.ents, x)

(* What is known of the latest member when an append is planned.           *)
Ready(doc) ==
  IF doc.vers = Absent THEN doc.dir = Root ELSE doc.vers.cur = Len(doc.vers.ents)

(* The candidate is a member of the index being published.                 *)
Announces(m) ==
  /\ m.meta # Absent
  /\ m.meta.cur \in 1..Len(m.meta.ents)
  /\ m.meta.ents[m.meta.cur].dir = m.cand

(* The local state of an updater, beyond LocalOK.                          *)
UpdaterOK(p, m) ==
  /\ p \notin Deleting \cup {"fixWitness"}
  /\ p # "idle" => m.op = "append"
  /\ p = "first" \/ (p \in Promoting \cup {"page", "fixPut"} /\ m.ret = "first") =>
       m.ldoc.vers # Absent
  /\ p = "plan" \/ (p \in Promoting /\ m.ret = "plan") => Ready(m.ldoc)
  /\ p \in Pending =>
       /\ m.meta \in Bodies /\ Extends(m.ser, m.ldoc.vers, m.cand, m.meta)
       /\ m.meta.cur = Len(m.meta.ents)
  /\ p = "newIndex" \/ (p \in Promoting /\ m.ret = "newIndex") => Announces(m)
  /\ p = "fixPut" => Fixable(m.meta, m.rdoc)
  /\ p \in Publishing \cup {"verify"} => m.meta # Absent
  /\ p = "recClaim" => m.obs # Absent

(* The latest member had an index when it was loaded and still has one.    *)
Seen(m) == m.ldoc.vers # Absent => vers[m.ldoc.dir] # Absent

LocalFits(p, m, line) ==
  /\ Seen(m)
  /\ Fits(m.tdoc.vers, line) /\ Fits(m.ldoc.vers, line) /\ Fits(m.rdoc.vers, line)
  /\ p \notin Uncommitted => Fits(m.meta, line)
  /\ UpdaterOK(p, m)

(* A commit request that may still arrive.                                 *)
LateFits(put, line) ==
  /\ Fits(put.match, line)
  /\ Decodes(put.body, put.dir)
  /\ \E x \in Dirs : Extends(put.dir, put.match, x, put.body)

(* Only the original document is standalone.                               *)
OneStandalone == \A d \in Dirs : marker[d].has /\ marker[d].num = 0 => d = Root

IsLine(line) == line \in Seq(Dirs) /\ Len(line) >= 1 /\ line[1] = Root

(* Every directory of the line but the last has an index that lists its    *)
(* successor.                                                              *)
Passed(line) ==
  \A n \in 1..(Len(line) - 1) :
    vers[line[n]] # Absent /\ Len(vers[line[n]].ents) > n

StoreFits(line) ==
  /\ \A d \in Dirs : Fits(vers[d], line) /\ (vers[d] # Absent => Decodes(vers[d], d))
  /\ \A put \in late : LateFits(put, line)
  /\ OneStandalone

LineOK(line) ==
  /\ IsLine(line)
  /\ Passed(line)
  /\ StoreFits(line)
  /\ \A c \in Clients : LocalFits(pc[c], mem[c], line)

(* The inductive invariant.                                                *)
OneLine == \E line \in Seq(Dirs) : LineOK(line)

-----------------------------------------------------------------------------
(* Indexes that fit a line.                                                *)

LEMMA LineDirs ==
  ASSUME NEW line, IsLine(line), NEW n \in 1..Len(line)
  PROVE  line[n] \in Dirs /\ line[n] # NoDir /\ LiveEntry(line[n]).dir = line[n]
BY NoDirAssumption DEF IsLine, LiveEntry

LEMMA FitsParts ==
  ASSUME NEW line, IsLine(line), NEW b \in Bodies, Fits(b, line), b # Absent
  PROVE  /\ b.ents \in Seq(Entries) /\ Len(b.ents) \in Nat
         /\ DOMAIN b.ents = 1..Len(b.ents)
         /\ b.cur \in 1..Len(b.ents)
         /\ Len(b.ents) >= 2 /\ Len(b.ents) <= Len(line)
         /\ \A n \in 1..Len(b.ents) : b.ents[n].dir = line[n] /\ line[n] \in Dirs
         /\ LiveNumbers(b.ents) = 1..Len(b.ents)
         /\ \A n : IsLive(b.ents, n) <=> n \in 1..Len(b.ents)
         /\ DecodesLoose(b) /\ ~CurrentDeleted(b)
         /\ \A d : Decodes(b, d) <=> d = line[b.cur]
<1>1. b.ents \in Seq(Entries) /\ Len(b.ents) \in Nat /\ DOMAIN b.ents = 1..Len(b.ents)
  BY BodyFields, EntryTypes
<1>2. /\ b.cur \in 1..Len(b.ents)
      /\ Len(b.ents) >= 2 /\ Len(b.ents) <= Len(line)
  BY DEF Fits
<1>3. ASSUME NEW n \in 1..Len(b.ents)
      PROVE  b.ents[n].dir = line[n] /\ line[n] \in Dirs /\ line[n] # NoDir
  <2>1. n \in 1..Len(line)
    BY <1>1, <1>2, <1>3 DEF IsLine
  <2> QED
    BY <2>1, LineDirs DEF Fits
<1>4. LiveNumbers(b.ents) = 1..Len(b.ents)
  BY <1>1, <1>3 DEF LiveNumbers
<1>5. \A n : IsLive(b.ents, n) <=> n \in 1..Len(b.ents)
  BY <1>1, <1>3 DEF IsLive
<1>6. DecodesLoose(b) /\ ~CurrentDeleted(b)
  BY <1>1, <1>2, <1>4, <1>5 DEF Fits, DecodesLoose, CurrentDeleted
<1>7. \A d : Decodes(b, d) <=> d = line[b.cur]
  BY <1>2, <1>3, <1>6 DEF Decodes
<1> QED
  BY <1>1, <1>2, <1>3, <1>4, <1>5, <1>6, <1>7

LEMMA FitsLatest ==
  ASSUME NEW line, IsLine(line), NEW b \in Bodies, Fits(b, line), b # Absent
  PROVE  LatestOf(b.ents) = Len(b.ents)
<1>1. /\ b.ents \in Seq(Entries) /\ Len(b.ents) \in Nat /\ Len(b.ents) >= 2
      /\ LiveNumbers(b.ents) = 1..Len(b.ents)
  BY FitsParts
<1>2. LatestOf(b.ents) \in 1..Len(b.ents) /\ \A n \in 1..Len(b.ents) : n <= LatestOf(b.ents)
  BY <1>1, LatestIsLive
<1> QED
  BY <1>1, <1>2

(* Another index of the same line, for the member with number cur.         *)
LEMMA FitsIndex ==
  ASSUME NEW line, IsLine(line), NEW b \in Bodies, Fits(b, line), b # Absent,
         NEW cur \in 1..Len(b.ents)
  PROVE  /\ IndexBody(b.chain, cur, b.ents) \in Bodies
         /\ Fits(IndexBody(b.chain, cur, b.ents), line)
         /\ IndexBody(b.chain, cur, b.ents) # Absent
         /\ Decodes(IndexBody(b.chain, cur, b.ents), b.ents[cur].dir)
<1> DEFINE body == IndexBody(b.chain, cur, b.ents)
<1>1. cur \in Nat
  BY FitsParts
<1>2. body \in Bodies
  BY <1>1, BodyFields, BodyTypes
<1>3. Fits(body, line) /\ body # Absent /\ body.cur = cur /\ body.ents = b.ents
  BY <1>2, BodyTypes DEF Fits, IndexBody
<1>4. b.ents[cur].dir = line[cur]
  BY FitsParts
<1> HIDE DEF body
<1>5. Decodes(body, line[cur])
  BY <1>2, <1>3, FitsParts
<1> QED
  BY <1>2, <1>3, <1>4, <1>5 DEF body

(* The line goes on: what fitted still does.                               *)
LEMMA FitsLonger ==
  ASSUME NEW line, IsLine(line), NEW x \in Dirs
  PROVE  /\ IsLine(Append(line, x))
         /\ Len(Append(line, x)) = Len(line) + 1
         /\ Append(line, x)[Len(line) + 1] = x
         /\ \A n \in 1..Len(line) : Append(line, x)[n] = line[n]
         /\ \A b \in Bodies : Fits(b, line) => Fits(b, Append(line, x))
<1> DEFINE more == Append(line, x)
<1>1. /\ line \in Seq(Dirs) /\ Len(line) \in Nat /\ Len(line) >= 1
      /\ more \in Seq(Dirs) /\ Len(more) = Len(line) + 1
      /\ more[Len(line) + 1] = x
      /\ \A n \in 1..Len(line) : more[n] = line[n]
  BY DEF IsLine
<1>2. IsLine(more)
  BY <1>1 DEF IsLine
<1>3. ASSUME NEW b \in Bodies, Fits(b, line), b # Absent PROVE Fits(b, more)
  <2>1. Len(b.ents) \in Nat /\ Len(b.ents) >= 2 /\ Len(b.ents) <= Len(line)
    BY <1>3, FitsParts
  <2>2. more[2] = line[2] /\ Len(b.ents) <= Len(more)
    BY <1>1, <2>1
  <2>3. \A n \in 1..Len(b.ents) : more[n] = line[n]
    BY <1>1, <2>1
  <2> HIDE DEF more
  <2> QED
    BY <1>3, <2>1, <2>2, <2>3 DEF Fits
<1>4. \A b \in Bodies : Fits(b, line) => Fits(b, more)
  BY <1>3 DEF Fits
<1> QED
  BY <1>1, <1>2, <1>4

-----------------------------------------------------------------------------
(* Where an updater may go on.                                             *)

Goes(c, line) == \E p \in Labels, m \in Mems : Goto(c, p, m) /\ LocalFits(p, m, line)

LEMMA GotoGoes ==
  ASSUME NEW c, NEW line, NEW p \in Labels, NEW m \in Mems, LocalFits(p, m, line), Goto(c, p, m)
  PROVE  Goes(c, line)
BY DEF Goes

LEMMA AbsentFits ==
  ASSUME NEW line
  PROVE  Fits(Absent, line) /\ NoDoc.vers = Absent /\ NoMem.meta = Absent
BY DEF Fits, NoDoc, NoMem

LEMMA StopGoes ==
  ASSUME NEW c, NEW line, Stop(c)
  PROVE  Goes(c, line)
<1>1. LocalFits("idle", NoMem, line)
  BY AbsentFits, NoMemOK DEF NoMem, Seen, LocalFits, UpdaterOK
<1> QED
  BY <1>1, NoMemOK, GotoGoes DEF Stop, Labels

(* A member that is the latest one is ready to be extended.                *)
LEMMA LatestIsReady ==
  ASSUME NEW line, IsLine(line), NEW doc \in Docs, Fits(doc.vers, line), AtLatest(doc),
         doc.vers = Absent => doc.dir = Root
  PROVE  Ready(doc)
<1>1. CASE doc.vers = Absent
  BY <1>1 DEF Ready
<1>2. CASE doc.vers # Absent
  <2>1. LatestOf(doc.vers.ents) = Len(doc.vers.ents)
    BY <1>2, DocFields, FitsLatest
  <2> QED
    BY <1>2, <2>1 DEF Ready, AtLatest
<1> QED
  BY <1>1, <1>2

LEMMA PreparedGoes ==
  ASSUME NEW c, NEW line, IsLine(line), NEW m \in Mems,
         Fits(m.tdoc.vers, line), Fits(m.ldoc.vers, line), Seen(m), Ready(m.ldoc), Prepared(c, m)
  PROVE  Goes(c, line)
<1> DEFINE n == [NoMem EXCEPT !.op = "append", !.ldoc = m.ldoc]
           q == [n EXCEPT !.rdoc = m.tdoc, !.ret = "plan"]
<1>1. /\ n \in Mems /\ n.op = "append" /\ n.ldoc = m.ldoc /\ n.tdoc = NoDoc
      /\ n.rdoc = NoDoc /\ n.meta = Absent
  BY NoMemOK, MemFields DEF Mems, NoMem
<1>2. Goto(c, "plan", n) \/ Goto(c, "promMarker", q)
  BY DEF Prepared, Promote
<1> HIDE DEF n
<1>3. /\ q \in Mems /\ q.op = "append" /\ q.ldoc = m.ldoc /\ q.tdoc = NoDoc
      /\ q.rdoc = m.tdoc /\ q.meta = Absent /\ q.ret = "plan"
  <2>1. q = [n EXCEPT !.rdoc = m.tdoc, !.ret = "plan"]
    OBVIOUS
  <2>2. m.tdoc \in Docs /\ "plan" \in Labels
    BY MemFields DEF Labels
  <2> HIDE DEF q
  <2> QED
    BY <1>1, <2>1, <2>2 DEF Mems
<1> HIDE DEF q
<1>4. LocalFits("plan", n, line)
  BY <1>1, AbsentFits DEF Seen, LocalFits, UpdaterOK
<1>5. LocalFits("promMarker", q, line)
  BY <1>3, AbsentFits DEF Seen, LocalFits, UpdaterOK
<1> QED
  BY <1>1, <1>2, <1>3, <1>4, <1>5, GotoGoes DEF Labels

(* The documents and the index an operation holds fit the line.            *)
Holds(m, line) ==
  /\ m.op = "append" /\ Seen(m)
  /\ Fits(m.tdoc.vers, line) /\ Fits(m.ldoc.vers, line) /\ Fits(m.rdoc.vers, line)
  /\ Fits(m.meta, line)

LEMMA OnwardGoes ==
  ASSUME NEW c, NEW line, IsLine(line), NEW m \in Mems, Holds(m, line),
         m.ldoc.vers = Absent => m.ldoc.dir = Root,
         Onward(c, m)
  PROVE  Goes(c, line)
<1>1. CASE Goto(c, "follow", m)
  <2>1. LocalFits("follow", m, line)
    BY DEF Holds, LocalFits, UpdaterOK
  <2> QED
    BY <1>1, <2>1, GotoGoes DEF Labels
<1>2. CASE AtLatest(m.ldoc) /\ Prepared(c, m)
  BY <1>2, MemFields, LatestIsReady, PreparedGoes DEF Holds
<1> QED
  BY <1>1, <1>2 DEF Onward, Holds

LEMMA LoadedGoes ==
  ASSUME NEW c, NEW line, IsLine(line), NEW m0 \in Mems, NEW doc \in Docs,
         m0.op = "append", Fits(m0.meta, line), Fits(doc.vers, line),
         doc.marker.num = 0 => doc.dir = Root,
         doc.vers # Absent => vers[doc.dir] # Absent,
         Loaded(c, m0, doc)
  PROVE  Goes(c, line)
<1> DEFINE m == [m0 EXCEPT !.tdoc = doc, !.ldoc = doc, !.rdoc = doc, !.ret = "reload"]
<1>1. /\ m \in Mems /\ m.op = "append" /\ m.meta = m0.meta
      /\ m.tdoc = doc /\ m.ldoc = doc /\ m.rdoc = doc /\ m.ret = "reload"
  BY DEF Mems, Labels
<1>2. \/ Goto(c, "fixRead", m)
      \/ Goto(c, "page", m)
      \/ ChecksFirst(doc) /\ Goto(c, "first", m)
      \/ ~NeedsMetadata(doc) /\ Onward(c, m)
  BY DEF Loaded
<1> HIDE DEF m
<1>3. Holds(m, line)
  BY <1>1 DEF Holds, Seen
<1>4. LocalFits("fixRead", m, line) /\ LocalFits("page", m, line)
  BY <1>1, <1>3 DEF Holds, LocalFits, UpdaterOK
<1>5. ChecksFirst(doc) => LocalFits("first", m, line)
  BY <1>1, <1>3 DEF Holds, LocalFits, UpdaterOK, ChecksFirst
<1>6. ~NeedsMetadata(doc) /\ doc.vers = Absent => doc.dir = Root
  BY DocFields DEF NeedsMetadata
<1> QED
  BY <1>1, <1>2, <1>3, <1>4, <1>5, <1>6, GotoGoes, OnwardGoes DEF Labels

-----------------------------------------------------------------------------
(* Preparation: prepareRevisionTarget and its repairs.                     *)

(* An updater at a label, before it moves.                                 *)
LEMMA UpdaterAt ==
  ASSUME Inv, NEW line, LineOK(line), NEW c \in Clients, NEW p, At(c, p)
  PROVE  mem[c] \in Mems /\ LocalOK(p, mem[c]) /\ LocalFits(p, mem[c], line) /\ IsLine(line)
BY Current DEF LineOK, At

LEMMA LoadFits ==
  ASSUME Inv, NEW line, LineOK(line), NEW d \in Dirs
  PROVE  /\ Load(d) \in Docs /\ Load(d).dir = d /\ Load(d).vers = vers[d]
         /\ Load(d).marker = marker[d]
         /\ vers[d] \in Bodies /\ Fits(vers[d], line)
         /\ Load(d).vers # Absent => vers[Load(d).dir] # Absent
         /\ Loads(d) /\ marker[d].num = 0 => d = Root
BY LoadOK DEF LineOK, StoreFits, OneStandalone, Loads

(* A step that writes no index and no marker.                              *)
LEMMA ReadFits ==
  ASSUME NEW line, LineOK(line), UNCHANGED <<vers, late, marker>>
  PROVE  StoreFits(line)'
BY DEF LineOK, StoreFits, OneStandalone

LEMMA AppendStartFits ==
  ASSUME Inv, NEW line, LineOK(line), NEW c \in Clients, NEW d \in Dirs, AppendStart(c, d)
  PROVE  Goes(c, line)
<1> DEFINE n == [NoMem EXCEPT !.op = "append"]
           doc == Load(d)
<1>1. n \in Mems /\ n.op = "append" /\ n.meta = Absent
  BY NoMemOK DEF Mems, NoMem
<1>2. /\ doc \in Docs /\ Fits(doc.vers, line) /\ (doc.marker.num = 0 => doc.dir = Root)
      /\ (doc.vers # Absent => vers[doc.dir] # Absent)
      /\ Loaded(c, n, doc) /\ IsLine(line)
  BY LoadFits DEF AppendStart, LineOK
<1> HIDE DEF n, doc
<1> QED
  BY <1>1, <1>2, AbsentFits, LoadedGoes

LEMMA ReloadFits ==
  ASSUME Inv, NEW line, LineOK(line), NEW c \in Clients, Reload(c)
  PROVE  Goes(c, line)
<1> DEFINE m == mem[c]
           doc == Load(m.tdoc.dir)
<1>1. m \in Mems /\ LocalOK("reload", m) /\ LocalFits("reload", m, line) /\ IsLine(line)
  BY UpdaterAt DEF Reload
<1>2. m.tdoc.dir \in Dirs /\ m.op = "append" /\ Fits(m.meta, line)
  BY <1>1 DEF LocalOK, DocsOK, LocalFits, UpdaterOK
<1>3. /\ doc \in Docs /\ Fits(doc.vers, line) /\ (doc.marker.num = 0 => doc.dir = Root)
      /\ (doc.vers # Absent => vers[doc.dir] # Absent)
      /\ Loaded(c, m, doc)
  BY <1>2, LoadFits DEF Reload
<1> HIDE DEF m, doc
<1> QED
  BY <1>1, <1>2, <1>3, LoadedGoes

LEMMA RepairPageFits ==
  ASSUME Inv, NEW line, LineOK(line), NEW c \in Clients, RepairPage(c)
  PROVE  Goes(c, line)
<1> DEFINE m == mem[c]
<1>1. m \in Mems /\ LocalOK("page", m) /\ LocalFits("page", m, line)
  BY UpdaterAt DEF RepairPage
<1>2. m.ret \in {"reload", "first", "follow"}
  BY <1>1 DEF LocalOK, ReturnsOK
<1>3. LocalFits(m.ret, m, line)
  BY <1>1, <1>2 DEF Seen, LocalFits, UpdaterOK
<1> QED
  BY <1>1, <1>2, <1>3, GotoGoes DEF RepairPage, Labels

LEMMA FirstFits ==
  ASSUME Inv, NEW line, LineOK(line), NEW c \in Clients, First(c)
  PROVE  Goes(c, line)
<1> DEFINE m == mem[c]
           d == m.tdoc.marker.prev
           doc == Load(d)
           q == [m EXCEPT !.rdoc = doc, !.ret = "first"]
<1>1. m \in Mems /\ LocalOK("first", m) /\ LocalFits("first", m, line) /\ IsLine(line)
  BY UpdaterAt DEF First
<1>2. d \in Dirs
  BY <1>1, MemFields, DocFields DEF LocalOK, DocsOK
<1>3. doc \in Docs /\ Fits(doc.vers, line)
  BY <1>2, LoadFits
<1>4. /\ q \in Mems /\ q.tdoc = m.tdoc /\ q.ldoc = m.ldoc /\ q.rdoc = doc
      /\ q.op = m.op /\ q.ret = "first" /\ q.meta = m.meta
  BY <1>1, <1>3 DEF Mems, Labels
<1>5. \/ Goto(c, "promMarker", q)
      \/ Goto(c, "page", q)
      \/ Onward(c, m)
  BY DEF First, Promote
<1> HIDE DEF m, doc, q
<1>6. LocalFits("promMarker", q, line) /\ LocalFits("page", q, line)
  BY <1>1, <1>3, <1>4 DEF Seen, LocalFits, UpdaterOK
<1>7. Holds(m, line) /\ m.ldoc.vers # Absent
  BY <1>1 DEF Holds, LocalFits, UpdaterOK
<1> QED
  BY <1>1, <1>4, <1>5, <1>6, <1>7, GotoGoes, OnwardGoes DEF Labels

LEMMA FollowFits ==
  ASSUME Inv, NEW line, LineOK(line), NEW c \in Clients, Follow(c)
  PROVE  Goes(c, line)
<1> DEFINE m == mem[c]
           latest == LatestOf(m.ldoc.vers.ents)
           doc == Load(m.ldoc.vers.ents[latest].dir)
           f == [m EXCEPT !.rdoc = doc, !.meta = m.ldoc.vers, !.ret = "follow"]
           g == [m EXCEPT !.rdoc = doc, !.ret = "follow"]
           next == [m EXCEPT !.ldoc = doc]
<1>1. /\ m \in Mems /\ LocalOK("follow", m) /\ LocalFits("follow", m, line) /\ IsLine(line)
      /\ m.op = "append"
  BY UpdaterAt DEF Follow
<1>2. m.ldoc \in Docs /\ m.ldoc.vers \in Bodies /\ Decodes(m.ldoc.vers, m.ldoc.dir)
  BY <1>1, MemFields, DocFields DEF LocalOK, DocsOK, DocOK, DeleteOK
<1>3. m.ldoc.vers.ents[latest].dir \in Dirs
  BY <1>2, DocFields, DecodesParts
<1>4. doc \in Docs /\ Fits(doc.vers, line) /\ (doc.vers # Absent => vers[doc.dir] # Absent)
  BY <1>3, LoadFits
<1>5. /\ f \in Mems /\ f.tdoc = m.tdoc /\ f.ldoc = m.ldoc /\ f.rdoc = doc
      /\ f.op = m.op /\ f.ret = "follow" /\ f.meta = m.ldoc.vers
      /\ g \in Mems /\ g.tdoc = m.tdoc /\ g.ldoc = m.ldoc /\ g.rdoc = doc
      /\ g.op = m.op /\ g.ret = "follow" /\ g.meta = m.meta
      /\ next \in Mems /\ next.tdoc = m.tdoc /\ next.ldoc = doc /\ next.rdoc = m.rdoc
      /\ next.op = m.op /\ next.meta = m.meta
  BY <1>1, <1>2, <1>4 DEF Mems, Labels
<1>6. \/ Fixable(m.ldoc.vers, doc) /\ Goto(c, "fixPut", f)
      \/ Goto(c, "page", g)
      \/ doc.vers # Absent /\ AtLatest(doc) /\ Prepared(c, next)
      \/ Goto(c, "follow", next)
  BY DEF Follow
<1> HIDE DEF m, doc, f, g, next
<1>7. /\ Fixable(m.ldoc.vers, doc) => LocalFits("fixPut", f, line)
      /\ LocalFits("page", g, line)
      /\ LocalFits("follow", next, line)
  BY <1>1, <1>4, <1>5 DEF Seen, LocalFits, UpdaterOK
<1>8. CASE doc.vers # Absent /\ AtLatest(doc) /\ Prepared(c, next)
  <2>1. Ready(doc)
    BY <1>1, <1>4, <1>8, LatestIsReady
  <2>2. Fits(next.tdoc.vers, line) /\ Seen(next)
    BY <1>1, <1>4, <1>5 DEF LocalFits, Seen
  <2> QED
    BY <1>1, <1>4, <1>5, <1>8, <2>1, <2>2, PreparedGoes
<1> QED
  BY <1>5, <1>6, <1>7, <1>8, GotoGoes DEF Labels

LEMMA FixReadFits ==
  ASSUME Inv, NEW line, LineOK(line), NEW c \in Clients, FixRead(c)
  PROVE  Goes(c, line)
<1> DEFINE m == mem[c]
           previous == m.rdoc.marker.prev
           f == [m EXCEPT !.meta = vers[previous]]
<1>1. m \in Mems /\ LocalOK("fixRead", m) /\ LocalFits("fixRead", m, line)
  BY UpdaterAt DEF FixRead
<1>2. previous \in Dirs
  BY <1>1, MemFields, DocFields DEF FixRead
<1>3. vers[previous] \in Bodies /\ Fits(vers[previous], line)
  BY <1>2, LoadFits
<1>4. /\ f \in Mems /\ f.tdoc = m.tdoc /\ f.ldoc = m.ldoc /\ f.rdoc = m.rdoc
      /\ f.op = m.op /\ f.ret = m.ret /\ f.meta = vers[previous]
  BY <1>1, <1>3 DEF Mems
<1>5. (Fixable(f.meta, f.rdoc) /\ Goto(c, "fixPut", f)) \/ Goto(c, "fixReceipt", m)
  BY <1>4 DEF FixRead
<1>6. m.ret = "reload"
  BY <1>1 DEF LocalOK, ReturnsOK
<1> HIDE DEF m, previous, f
<1>7. LocalFits("fixReceipt", m, line)
  BY <1>1 DEF Seen, LocalFits, UpdaterOK
<1>8. Fixable(f.meta, f.rdoc) => LocalFits("fixPut", f, line)
  BY <1>1, <1>3, <1>4, <1>6 DEF Seen, LocalFits, UpdaterOK
<1> QED
  BY <1>1, <1>4, <1>5, <1>7, <1>8, GotoGoes DEF Labels

(* Nobody leaves a receipt, so no repair goes by one.                      *)
LEMMA NoReceipt ==
  ASSUME Inv, NEW line, LineOK(line), NEW c \in Clients
  PROVE  ~FixReceipt(c) /\ ~FixWitness(c)
<1>1. ASSUME FixReceipt(c) PROVE FALSE
  <2>1. mem[c] \in Mems /\ LocalOK("fixReceipt", mem[c])
    BY <1>1, UpdaterAt DEF FixReceipt
  <2>2. mem[c].rdoc.marker.prev \in Dirs
    BY <2>1, MemFields, DocFields DEF LocalOK, DocsOK
  <2> DEFINE b == vers[mem[c].rdoc.marker.prev]
  <2>3. b \in Bodies /\ Fits(b, line) /\ IsLine(line)
    BY <2>2, LoadFits DEF LineOK
  <2>4. IsReceipt(b)
    BY <1>1 DEF FixReceipt
  <2> HIDE DEF b
  <2>5. b # Absent
    BY <2>4, BodyTypes DEF IsReceipt, DecodesLoose
  <2> QED
    BY <2>3, <2>4, <2>5, FitsParts DEF IsReceipt
<1>2. ASSUME FixWitness(c) PROVE FALSE
  BY <1>2, UpdaterAt DEF FixWitness, LocalFits, UpdaterOK
<1> QED
  BY <1>1, <1>2

(* A step that writes an index of the line and no marker.                  *)
LEMMA PutFits ==
  ASSUME Inv, NEW line, LineOK(line), NEW d, NEW old, NEW body, Fits(body, line),
         Decodes(body, d), PutVers(d, old, body), UNCHANGED <<late, marker>>
  PROVE  StoreFits(line)'
<1>1. vers \in [Dirs -> Bodies]
  BY DEF Inv, TypeOK
<1>2. \A e \in Dirs : Fits(vers'[e], line) /\ (vers'[e] # Absent => Decodes(vers'[e], e))
  BY <1>1 DEF PutVers, LineOK, StoreFits
<1> QED
  BY <1>2 DEF LineOK, StoreFits, OneStandalone

LEMMA FixPutFits ==
  ASSUME Inv, NEW line, LineOK(line), NEW c \in Clients, FixPut(c)
  PROVE  Goes(c, line) /\ StoreFits(line)'
<1> DEFINE m == mem[c]
           body == IndexBody(m.meta.chain, m.rdoc.marker.num, m.meta.ents)
<1>1. m \in Mems /\ LocalOK("fixPut", m) /\ LocalFits("fixPut", m, line) /\ IsLine(line)
  BY UpdaterAt DEF FixPut
<1>2. m.ret \in {"reload", "first", "follow"}
  BY <1>1 DEF LocalOK, ReturnsOK
<1>3. PutVers(m.rdoc.dir, Absent, body) /\ Goto(c, m.ret, m) /\ UNCHANGED <<late, marker>>
  BY DEF FixPut
<1>4. m.meta \in Bodies /\ m.meta # Absent /\ IsLive(m.meta.ents, m.rdoc.marker.num)
  BY <1>1, MemFields DEF LocalFits, UpdaterOK, Fixable
<1> HIDE DEF m
<1>5. LocalFits(m.ret, m, line) /\ Fits(m.meta, line)
  BY <1>1, <1>2 DEF LocalFits, UpdaterOK
<1>6. Fits(body, line) /\ Decodes(body, m.rdoc.dir)
  <2>1. m.meta.ents[m.rdoc.marker.num].dir = m.rdoc.dir
    BY <1>1 DEF LocalFits, UpdaterOK, Fixable
  <2>2. m.rdoc.marker.num \in 1..Len(m.meta.ents)
    BY <1>1, <1>4, <1>5, FitsParts
  <2>3. /\ Fits(body, line)
        /\ Decodes(body, m.meta.ents[m.rdoc.marker.num].dir)
    BY ONLY <1>1, <1>4, <1>5, <2>2, FitsIndex
  <2> QED
    BY <2>1, <2>3
<1> HIDE DEF body
<1>7. StoreFits(line)'
  BY <1>3, <1>6, PutFits
<1> QED
  BY <1>1, <1>2, <1>3, <1>5, <1>7, GotoGoes DEF Labels

-----------------------------------------------------------------------------
(* promoteStandaloneRevision.                                              *)

(* A step that makes a marker a revision marker or takes one away.         *)
LEMMA MarkerFits ==
  ASSUME Inv, NEW line, LineOK(line), NEW d, NEW k, marker' = [marker EXCEPT ![d] = k],
         k.has => k.num # 0, UNCHANGED <<vers, late>>
  PROVE  StoreFits(line)'
<1>1. marker \in [Dirs -> Markers]
  BY DEF Inv, TypeOK
<1>2. OneStandalone'
  BY <1>1 DEF LineOK, StoreFits, OneStandalone
<1> QED
  BY <1>2 DEF LineOK, StoreFits

LEMMA PromoteMarkerFits ==
  ASSUME Inv, NEW line, LineOK(line), NEW c \in Clients, PromoteMarker(c)
  PROVE  Goes(c, line) /\ StoreFits(line)'
<1> DEFINE m == mem[c]
<1>1. m \in Mems /\ LocalFits("promMarker", m, line)
  BY UpdaterAt DEF PromoteMarker
<1>2. LocalFits("promPage", m, line)
  BY <1>1 DEF LocalFits, UpdaterOK
<1>3. Goes(c, line)
  BY <1>1, <1>2, GotoGoes DEF PromoteMarker, Labels
<1>4. RevisionMarker(m.rdoc.vers.chain, 1, NoDir).num # 0
  BY DEF RevisionMarker
<1>5. StoreFits(line)'
  BY <1>4, MarkerFits DEF PromoteMarker
<1> QED
  BY <1>3, <1>5

LEMMA PromotePageFits ==
  ASSUME Inv, NEW line, LineOK(line), NEW c \in Clients, PromotePage(c)
  PROVE  Goes(c, line)
<1>1. mem[c] \in Mems /\ LocalFits("promPage", mem[c], line)
  BY UpdaterAt DEF PromotePage
<1>2. LocalFits("promVerify", mem[c], line)
  BY <1>1 DEF LocalFits, UpdaterOK
<1> QED
  BY <1>1, <1>2, GotoGoes DEF PromotePage, Labels

LEMMA PromoteVerifyFits ==
  ASSUME Inv, NEW line, LineOK(line), NEW c \in Clients, PromoteVerify(c)
  PROVE  Goes(c, line)
<1> DEFINE m == mem[c]
<1>1. /\ m \in Mems /\ LocalOK("promVerify", m) /\ LocalFits("promVerify", m, line)
      /\ IsLine(line) /\ Return(c, m)
  BY UpdaterAt DEF PromoteVerify
<1> HIDE DEF m
<1>2. CASE m.ret = "first"
  <2>1. Holds(m, line) /\ m.ldoc.vers # Absent
    BY <1>1, <1>2 DEF Holds, LocalFits, UpdaterOK
  <2> QED
    BY <1>1, <1>2, <2>1, OnwardGoes DEF Return
<1>3. CASE m.ret # "first"
  <2>1. m.ret \in {"plan", "newIndex"}
    BY <1>1, <1>3 DEF LocalOK, ReturnsOK
  <2>2. LocalFits(m.ret, m, line)
    BY <1>1, <1>3, <2>1 DEF LocalFits, UpdaterOK
  <2> QED
    BY <1>1, <1>3, <2>1, <2>2, GotoGoes DEF Return, Labels
<1> QED
  BY <1>2, <1>3

-----------------------------------------------------------------------------
(* The append itself.                                                      *)

LEMMA PutMarkerFits ==
  ASSUME Inv, NEW line, LineOK(line), NEW c \in Clients, NEW d \in Dirs, PutMarker(c, d)
  PROVE  Goes(c, line) /\ StoreFits(line)'
<1> DEFINE m == mem[c]
           latest == m.ldoc
           standalone == latest.vers = Absent
           chain == IF standalone THEN d ELSE latest.vers.chain
           ents == IF standalone THEN <<LiveEntry(latest.dir)>> ELSE latest.vers.ents
           metadata == IndexBody(chain, Len(ents) + 1, AppendEntry(ents, d))
           q == [m EXCEPT !.cand = d, !.meta = metadata, !.ser = latest.dir,
                          !.skip = {latest.dir, d}]
<1>1. m \in Mems /\ LocalOK("plan", m) /\ LocalFits("plan", m, line) /\ IsLine(line)
  BY UpdaterAt DEF PutMarker
<1>2. /\ latest \in Docs /\ latest.vers \in Bodies /\ latest.dir \in Dirs
      /\ latest.vers.ents \in Seq(Entries) /\ latest.vers.chain \in Dirs \cup {NoDir}
      /\ latest.vers # Absent => Decodes(latest.vers, latest.dir)
      /\ Ready(latest)
  BY <1>1, MemFields, DocFields, BodyFields
     DEF LocalOK, DocsOK, DocOK, AppendOK, LocalFits, UpdaterOK
<1>3. ents \in Seq(Entries) /\ chain \in Dirs \cup {NoDir}
  <2>1. LiveEntry(latest.dir) \in Entries
    BY <1>2 DEF LiveEntry, Entries
  <2>2. <<LiveEntry(latest.dir)>> \in Seq(Entries)
    BY <2>1
  <2> QED
    BY <1>2, <2>2
<1>4. Len(ents) \in Nat /\ (standalone => Len(ents) = 1)
  BY <1>3, EntryTypes
<1>5. /\ standalone => ents = <<LiveEntry(latest.dir)>> /\ chain = d
      /\ ~standalone => ents = latest.vers.ents /\ chain = latest.vers.chain
  OBVIOUS
<1>6. /\ Goto(c, "payload", q)
      /\ marker' = [marker EXCEPT ![d] = RevisionMarker(chain, Len(ents) + 1, latest.dir)]
      /\ UNCHANGED <<vers, late>>
  BY DEF PutMarker
<1> HIDE DEF ents, chain
<1>7. AppendEntry(ents, d) \in Seq(Entries) /\ Len(AppendEntry(ents, d)) = Len(ents) + 1
  BY <1>3, AppendPrecedes
<1>8. /\ metadata \in Bodies
      /\ metadata.kind = "index" /\ metadata.chain = chain
      /\ metadata.ents = AppendEntry(ents, d)
      /\ metadata.last = Len(metadata.ents) /\ metadata.cur = Len(metadata.ents)
      /\ metadata.cur \in 1..Len(metadata.ents)
  <2>1. Len(ents) + 1 \in Nat /\ Len(ents) + 1 \in 1..(Len(ents) + 1)
    BY <1>4
  <2>2. metadata \in Bodies
    BY <1>3, <1>7, <2>1, BodyTypes
  <2>3. /\ metadata.kind = "index" /\ metadata.chain = chain
        /\ metadata.ents = AppendEntry(ents, d)
        /\ metadata.last = Len(AppendEntry(ents, d)) /\ metadata.cur = Len(ents) + 1
    BY DEF IndexBody
  <2> HIDE DEF metadata
  <2> QED
    BY <1>7, <2>1, <2>2, <2>3
<1> HIDE DEF metadata
<1>9. Extends(latest.dir, latest.vers, d, metadata)
  <2>1. CASE standalone
    <3>1. latest.dir = Root /\ ents = <<LiveEntry(Root)>> /\ chain = d
      BY <1>2, <1>5, <2>1 DEF Ready
    <3> QED
      BY <1>8, <2>1, <3>1 DEF Extends
  <2>2. CASE ~standalone
    BY <1>2, <1>5, <1>8, <2>2 DEF Extends, Ready
  <2> QED
    BY <2>1, <2>2
<1>10. /\ q \in Mems
       /\ q.tdoc = m.tdoc /\ q.ldoc = latest /\ q.rdoc = m.rdoc /\ q.op = m.op /\ q.cand = d
       /\ q.ser = latest.dir /\ q.meta = metadata
  BY <1>1, <1>2, <1>8 DEF Mems
<1> HIDE DEF q, m
<1>11. LocalFits("payload", q, line)
  BY <1>1, <1>8, <1>9, <1>10 DEF Seen, LocalFits, UpdaterOK, m
<1>12. Goes(c, line)
  BY <1>6, <1>10, <1>11, GotoGoes DEF Labels
<1>13. RevisionMarker(chain, Len(ents) + 1, latest.dir).num # 0
  BY <1>4 DEF RevisionMarker
<1>14. StoreFits(line)'
  BY <1>6, <1>13, MarkerFits
<1> QED
  BY <1>12, <1>14

LEMMA PutPayloadFits ==
  ASSUME Inv, NEW line, LineOK(line), NEW c \in Clients, PutPayload(c) \/ PutPayloadFails(c)
  PROVE  Goes(c, line)
<1>1. mem[c] \in Mems /\ LocalFits("payload", mem[c], line)
  BY UpdaterAt DEF PutPayload, PutPayloadFails
<1>2. LocalFits("commit", mem[c], line) /\ LocalFits("rbPayload", mem[c], line)
  BY <1>1 DEF LocalFits, UpdaterOK
<1> QED
  BY <1>1, <1>2, GotoGoes DEF PutPayload, PutPayloadFails, Labels

(* The append is known to be committed: metadata announces the candidate.  *)
LEMMA CommittedGoes ==
  ASSUME NEW c, NEW line, IsLine(line), NEW m \in Mems, NEW metadata \in Bodies,
         m.op = "append", Seen(m),
         Fits(m.tdoc.vers, line), Fits(m.ldoc.vers, line), Fits(m.rdoc.vers, line),
         Fits(metadata, line), metadata # Absent,
         m.meta.cur \in 1..Len(metadata.ents), metadata.ents[m.meta.cur].dir = m.cand,
         Committed(c, m, metadata)
  PROVE  Goes(c, line)
<1> DEFINE new == [metadata EXCEPT !.cur = m.meta.cur]
           won == [m EXCEPT !.meta = new, !.obs = Absent, !.conflict = FALSE]
           doc == [m.ldoc EXCEPT !.vers = metadata]
           q == [won EXCEPT !.rdoc = doc, !.ret = "newIndex"]
<1>1. /\ new \in Bodies /\ new.kind = metadata.kind /\ new.chain = metadata.chain
      /\ new.ents = metadata.ents /\ new.last = metadata.last /\ new.cur = m.meta.cur
  BY MemFields, BodyFields DEF Bodies
<1>2. Goto(c, "promMarker", q) \/ Goto(c, "newIndex", won)
  BY DEF Committed, Promote
<1>3. doc \in Docs /\ doc.vers = metadata
  BY MemFields DEF Docs
<1> HIDE DEF new, doc
<1>4. /\ won \in Mems /\ won.tdoc = m.tdoc /\ won.ldoc = m.ldoc /\ won.rdoc = m.rdoc
      /\ won.op = m.op /\ won.meta = new /\ won.cand = m.cand
  BY <1>1, BodyTypes DEF Mems
<1> HIDE DEF won
<1>5. /\ q \in Mems
      /\ q.tdoc = m.tdoc /\ q.ldoc = m.ldoc /\ q.rdoc = doc /\ q.op = m.op
      /\ q.meta = new /\ q.cand = m.cand /\ q.ret = "newIndex"
  BY <1>3, <1>4 DEF Mems, Labels
<1> HIDE DEF q
<1>6. Fits(new, line) /\ new # Absent
  BY <1>1, BodyTypes DEF Fits
<1>7. LocalFits("newIndex", won, line)
  BY <1>1, <1>4, <1>6 DEF Seen, LocalFits, UpdaterOK, Announces
<1>8. LocalFits("promMarker", q, line)
  BY <1>1, <1>3, <1>5, <1>6 DEF Seen, LocalFits, UpdaterOK, Announces
<1> QED
  BY <1>2, <1>4, <1>5, <1>7, <1>8, GotoGoes DEF Labels

(* The index of a first append has two entries.                            *)
LEMMA OneMore ==
  ASSUME NEW s \in Seq(Entries), NEW y \in Entries
  PROVE  Len(s) = 1 =>
           /\ Append(s, y) \in Seq(Entries) /\ Len(Append(s, y)) = 2
           /\ Append(s, y)[1] = s[1] /\ Append(s, y)[2] = y
<1>1. /\ Append(s, y) \in Seq(Entries) /\ Len(Append(s, y)) = Len(s) + 1
      /\ \A n \in 1..Len(s) : Append(s, y)[n] = s[n]
      /\ Append(s, y)[Len(s) + 1] = y
  BY AppendProperties
<1>2. Len(s) = 1 => 1 \in 1..Len(s) /\ Len(s) + 1 = 2
  OBVIOUS
<1> QED
  BY <1>1, <1>2

LEMMA TwoEntries ==
  ASSUME NEW e \in Entries, NEW x \in Dirs
  PROVE  /\ AppendEntry(<<e>>, x) \in Seq(Entries)
         /\ Len(AppendEntry(<<e>>, x)) = 2
         /\ AppendEntry(<<e>>, x)[1] = e
         /\ AppendEntry(<<e>>, x)[2] = LiveEntry(x)
<1>1. LiveEntry(x) \in Entries
  BY DEF LiveEntry, Entries
<1>2. <<e>> \in Seq(Entries) /\ Len(<<e>>) = 1 /\ <<e>>[1] = e
  OBVIOUS
<1> QED
  BY <1>1, <1>2, OneMore DEF AppendEntry

(* A commit that takes effect announces the next directory of the line:    *)
(* an index that somebody else has extended is no longer what it was.      *)
LEMMA CommitFits ==
  ASSUME Inv, NEW line \in Seq(Dirs), LineOK(line),
         NEW d \in Dirs, NEW old \in Bodies, Fits(old, line),
         NEW x \in Dirs, NEW b \in Bodies, Extends(d, old, x, b), vers[d] = old
  PROVE  /\ Fits(b, Append(line, x)) /\ b # Absent
         /\ Len(b.ents) = Len(line) + 1
         /\ b.ents[Len(b.ents)].dir = x
         /\ d = line[Len(line)]
<1> DEFINE more == Append(line, x)
           len == Len(line)
<1>1. /\ IsLine(line) /\ Passed(line) /\ len \in Nat /\ len >= 1 /\ line[1] = Root
  BY DEF LineOK, IsLine
<1>2. /\ IsLine(more) /\ Len(more) = len + 1 /\ more[len + 1] = x
      /\ \A n \in 1..len : more[n] = line[n]
  BY <1>1, FitsLonger
<1>3. b # Absent /\ b.kind = "index" /\ b.last = Len(b.ents) /\ b.cur \in 1..Len(b.ents)
  BY BodyTypes DEF Extends
<1>4. LiveEntry(x).dir = x
  BY DEF LiveEntry
<1> HIDE DEF more, len
<1>5. CASE old = Absent
  <2>1. d = Root /\ b.chain = x /\ b.ents = AppendEntry(<<LiveEntry(Root)>>, x)
    BY <1>5 DEF Extends
  <2>2. len = 1
    <3>1. ASSUME len # 1 PROVE FALSE
      <4>1. 1 \in 1..(len - 1)
        BY <1>1, <3>1
      <4>2. vers[line[1]] # Absent
        BY <1>1, <4>1 DEF Passed, len
      <4> QED
        BY <1>1, <1>5, <2>1, <4>2
    <3> QED
      BY <3>1, SMT
  <2>3. Len(b.ents) = 2 /\ b.ents[1] = LiveEntry(Root) /\ b.ents[2] = LiveEntry(x)
    <3>1. LiveEntry(Root) \in Entries
      BY RootAssumption DEF LiveEntry, Entries
    <3> DEFINE two == AppendEntry(<<LiveEntry(Root)>>, x)
    <3>2. Len(two) = 2 /\ two[1] = LiveEntry(Root) /\ two[2] = LiveEntry(x)
      BY <3>1, TwoEntries
    <3>3. b.ents = two
      BY <2>1
    <3> HIDE DEF two
    <3> QED
      BY <3>2, <3>3
  <2>4. more[1] = Root /\ more[2] = x /\ Len(more) = 2
    BY <1>1, <1>2, <2>2
  <2>5. Fits(b, more)
    <3>1. ASSUME NEW n \in 1..2 PROVE b.ents[n] = LiveEntry(more[n])
      <4>1. n = 1 \/ n = 2
        OBVIOUS
      <4> QED
        BY <2>3, <2>4, <4>1, Zenon
    <3>2. \A n \in 1..Len(b.ents) : b.ents[n] = LiveEntry(more[n])
      BY <2>3, <3>1, Zenon
    <3>3. Len(b.ents) >= 2 /\ Len(b.ents) <= Len(more)
      BY <2>3, <2>4
    <3> QED
      BY <1>3, <2>1, <2>4, <3>2, <3>3, Zenon DEF Fits
  <2>6. Len(b.ents) = len + 1
    <3>1. len + 1 = 2
      BY <2>2
    <3> QED
      BY <2>3, <3>1, Zenon
  <2>7. b.ents[Len(b.ents)].dir = x
    BY <1>4, <2>3
  <2>8. d = line[len]
    BY <1>1, <2>1, <2>2
  <2> QED
    BY <1>3, <2>5, <2>6, <2>7, <2>8 DEF more, len
<1>6. CASE old # Absent
  <2> DEFINE k == Len(old.ents)
  <2>1. /\ Decodes(old, d) /\ old.cur = k /\ b.chain = old.chain
        /\ b.ents = AppendEntry(old.ents, x)
    BY <1>6 DEF Extends
  <2>2. /\ old.ents \in Seq(Entries) /\ k \in Nat /\ k >= 2 /\ k <= len
        /\ d = line[k]
    BY <1>1, <1>6, <2>1, FitsParts DEF len
  <2>3. k = len
    <3>1. CASE k < len
      <4>1. k \in 1..(len - 1)
        BY <1>1, <2>2, <3>1
      <4>2. Len(vers[line[k]].ents) > k
        BY <1>1, <4>1 DEF Passed, len
      <4> QED
        BY <2>2, <4>2
    <3> QED
      BY <1>1, <2>2, <3>1
  <2>4. /\ Len(b.ents) = k + 1 /\ b.ents[k + 1] = LiveEntry(x)
        /\ \A n \in 1..k : b.ents[n] = old.ents[n]
    <3>1. LiveEntry(x) \in Entries
      BY DEF LiveEntry, Entries
    <3>2. b.ents = Append(old.ents, LiveEntry(x))
      BY <2>1 DEF AppendEntry
    <3> QED
      BY <2>2, <3>1, <3>2
  <2>5. ASSUME NEW n \in 1..Len(b.ents) PROVE b.ents[n] = LiveEntry(more[n])
    <3>1. CASE n = k + 1
      BY <1>2, <2>3, <2>4, <3>1
    <3>2. CASE n # k + 1
      <4>1. n \in 1..k
        BY <2>2, <2>4, <2>5, <3>2
      <4>2. old.ents[n] = LiveEntry(line[n]) /\ more[n] = line[n]
        BY <1>2, <1>6, <2>3, <4>1 DEF Fits
      <4> QED
        BY <2>4, <4>1, <4>2
    <3> QED
      BY <3>1, <3>2
  <2>6. b.chain = more[2]
    <3>1. old.chain = line[2] /\ 2 \in 1..len
      BY <1>1, <1>6, <2>2 DEF Fits
    <3> QED
      BY <1>2, <2>1, <3>1
  <2>7. Len(b.ents) >= 2 /\ Len(b.ents) <= Len(more)
    BY <1>2, <2>2, <2>3, <2>4
  <2>8. Fits(b, more)
    BY <1>3, <2>5, <2>6, <2>7 DEF Fits
  <2> QED
    BY <1>3, <1>4, <2>2, <2>3, <2>4, <2>8 DEF more, len
<1> QED
  BY <1>5, <1>6

(* The line after a step is the line before it, or one longer by x.        *)
Longer(more, line) == more = line \/ \E x \in Dirs : more = Append(line, x)

LEMMA LongerFits ==
  ASSUME NEW line, IsLine(line), NEW more, Longer(more, line)
  PROVE  /\ IsLine(more)
         /\ \A b \in Bodies : Fits(b, line) => Fits(b, more)
BY FitsLonger DEF Longer

LEMMA LocalLonger ==
  ASSUME NEW line, IsLine(line), NEW more, Longer(more, line),
         NEW p, NEW m \in Mems, LocalFits(p, m, line)
  PROVE  LocalFits(p, m, more)
<1>1. /\ m.tdoc.vers \in Bodies /\ m.ldoc.vers \in Bodies /\ m.rdoc.vers \in Bodies
      /\ m.meta \in Bodies
  BY MemFields, DocFields
<1> QED
  BY <1>1, LongerFits DEF LocalFits

(* No index disappears or gets shorter.                                    *)
LEMMA IndexesGrow ==
  ASSUME Inv, Inv', Replaces, NEW line, LineOK(line), NEW more, IsLine(more), StoreFits(more)',
         NEW d \in Dirs, vers[d] # Absent
  PROVE  vers'[d] # Absent /\ Len(vers'[d].ents) >= Len(vers[d].ents)
<1>1. vers[d] \in Bodies /\ vers'[d] \in Bodies
  BY DEF Inv, TypeOK
<1>2. vers[d].kind = "index"
  BY DEF LineOK, StoreFits, Fits
<1>3. /\ vers'[d].kind \in {"index", "final"}
      /\ vers'[d].kind = "index" /\ ~CurrentDeleted(vers'[d]) =>
           EntsPrecede(vers[d].ents, vers'[d].ents)
  BY <1>2 DEF Replaces, MayReplace
<1>4. vers'[d] # Absent /\ Fits(vers'[d], more)
  BY <1>3, BodyTypes DEF StoreFits
<1>5. vers'[d].kind = "index" /\ ~CurrentDeleted(vers'[d])
  BY <1>1, <1>4, FitsParts DEF DecodesLoose
<1>6. Len(vers[d].ents) \in Nat /\ Len(vers'[d].ents) \in Nat
  BY <1>1, BodyFields, EntryTypes
<1> QED
  BY <1>3, <1>4, <1>5, <1>6 DEF EntsPrecede

LEMMA PassedKept ==
  ASSUME Inv, Inv', Replaces, NEW line, LineOK(line), NEW more, IsLine(more), StoreFits(more)'
  PROVE  Passed(line)'
<1> SUFFICES ASSUME NEW n \in 1..(Len(line) - 1)
             PROVE  vers'[line[n]] # Absent /\ Len(vers'[line[n]].ents) > n
  BY DEF Passed
<1>1. IsLine(line) /\ vers[line[n]] # Absent /\ Len(vers[line[n]].ents) > n
  BY DEF LineOK, Passed
<1>2. n \in Nat /\ line[n] \in Dirs
  BY <1>1 DEF IsLine
<1>3. vers'[line[n]] # Absent /\ Len(vers'[line[n]].ents) >= Len(vers[line[n]].ents)
  BY <1>1, <1>2, IndexesGrow
<1>4. vers[line[n]] \in Bodies /\ vers'[line[n]] \in Bodies
  BY <1>2 DEF Inv, TypeOK
<1>5. Len(vers[line[n]].ents) \in Nat /\ Len(vers'[line[n]].ents) \in Nat
  BY <1>4, BodyFields, EntryTypes
<1> QED
  BY <1>1, <1>2, <1>3, <1>5

(* It is enough that everybody fits the new line before the step.          *)
LEMMA LineKept ==
  ASSUME Inv, Inv', Replaces, NEW line, LineOK(line),
         NEW more \in Seq(Dirs), Longer(more, line), StoreFits(more)', more # line => Passed(more)',
         \A e \in Clients : mem'[e] \in Mems /\ LocalFits(pc'[e], mem'[e], more)
  PROVE  LineOK(more)'
<1>1. IsLine(line) /\ IsLine(more)
  BY LongerFits DEF LineOK
<1>2. Passed(more)'
  BY <1>1, PassedKept
<1>3. ASSUME NEW e \in Clients PROVE LocalFits(pc[e], mem[e], more)'
  <2>1. LocalOK(pc'[e], mem'[e])
    BY DEF Inv
  <2>2. Seen(mem[e])'
    <3>1. CASE mem'[e].ldoc.vers # Absent
      <4>1. DocOK(mem'[e].ldoc) /\ mem'[e].ldoc \in Docs
        BY <2>1, MemFields DEF LocalOK, DocsOK
      <4>2. mem'[e].ldoc.dir \in Dirs
        BY <3>1, <4>1, DocFields, DecodesParts DEF DocOK
      <4>3. vers[mem'[e].ldoc.dir] # Absent
        BY <3>1 DEF LocalFits, Seen
      <4>4. vers'[mem'[e].ldoc.dir] # Absent
        BY <1>1, <4>2, <4>3, IndexesGrow
      <4> QED
        BY <4>4 DEF Seen
    <3>2. CASE mem'[e].ldoc.vers = Absent
      BY <3>2 DEF Seen
    <3> QED
      BY <3>1, <3>2
  <2> QED
    BY <2>2 DEF LocalFits
<1> QED
  BY <1>1, <1>2, <1>3 DEF LineOK

(* A step of one updater, which goes on by the new line.                   *)
LEMMA LineGrows ==
  ASSUME Inv, Inv', Replaces, NEW line, LineOK(line), NEW c \in Clients,
         NEW more \in Seq(Dirs), Longer(more, line), Goes(c, more), StoreFits(more)',
         more # line => Passed(more)'
  PROVE  LineOK(more)'
<1>1. IsLine(line)
  BY DEF LineOK
<1>2. PICK p \in Labels, m \in Mems : Goto(c, p, m) /\ LocalFits(p, m, more)
  BY DEF Goes
<1>3. pc \in [Clients -> Labels] /\ mem \in [Clients -> Mems]
  BY DEF Inv, TypeOK
<1>4. ASSUME NEW e \in Clients PROVE mem'[e] \in Mems /\ LocalFits(pc'[e], mem'[e], more)
  <2>1. CASE e = c
    BY <1>2, <1>3, <2>1 DEF Goto
  <2>2. CASE e # c
    <3>1. pc'[e] = pc[e] /\ mem'[e] = mem[e]
      BY <1>2, <1>3, <2>2 DEF Goto
    <3>2. LocalFits(pc[e], mem[e], line) /\ mem[e] \in Mems
      BY <1>3 DEF LineOK
    <3> QED
      BY <1>1, <3>1, <3>2, LocalLonger
  <2> QED
    BY <2>1, <2>2
<1> QED
  BY <1>4, LineKept

(* A step that adds nothing to the line.                                   *)
LEMMA LineStays ==
  ASSUME Inv, Inv', Replaces, NEW line, LineOK(line), NEW c \in Clients, Goes(c, line),
         StoreFits(line)'
  PROVE  LineOK(line)'
<1>1. line \in Seq(Dirs) /\ Longer(line, line)
  BY DEF LineOK, IsLine, Longer
<1> QED
  BY <1>1, LineGrows

(* A write that adds a directory to the line.                              *)
LEMMA CommitStep ==
  ASSUME Inv, Inv', Replaces, NEW line \in Seq(Dirs), LineOK(line),
         NEW d \in Dirs, NEW old \in Bodies, Fits(old, line),
         NEW x \in Dirs, NEW b \in Bodies, Extends(d, old, x, b), Decodes(b, d),
         PutVers(d, old, b), marker' = marker, late' \subseteq late
  PROVE  /\ StoreFits(Append(line, x))'
         /\ Passed(Append(line, x))'
         /\ IsLine(Append(line, x)) /\ Append(line, x) \in Seq(Dirs)
<1> DEFINE more == Append(line, x)
           len == Len(line)
<1>1. /\ Fits(b, more) /\ Len(b.ents) = len + 1 /\ d = line[len]
      /\ vers' = [vers EXCEPT ![d] = b]
  BY CommitFits DEF PutVers
<1>2. IsLine(line) /\ len \in Nat /\ len >= 1
  BY DEF LineOK, IsLine
<1>3. /\ IsLine(more) /\ Len(more) = len + 1
      /\ \A n \in 1..len : more[n] = line[n]
      /\ \A e \in Bodies : Fits(e, line) => Fits(e, more)
  BY <1>2, FitsLonger
<1>4. vers \in [Dirs -> Bodies] /\ late \subseteq LatePuts
  BY DEF Inv, TypeOK
<1> HIDE DEF more, len
<1>5. ASSUME NEW e \in Dirs
      PROVE  Fits(vers'[e], more) /\ (vers'[e] # Absent => Decodes(vers'[e], e))
  <2>1. Fits(vers[e], more) /\ (vers[e] # Absent => Decodes(vers[e], e))
    BY <1>3, <1>4 DEF LineOK, StoreFits
  <2> QED
    BY <1>1, <1>4, <2>1
<1>6. ASSUME NEW put \in late' PROVE LateFits(put, more)
  <2>1. put.match \in Bodies /\ LateFits(put, line)
    BY <1>4, <1>6 DEF LatePuts, LineOK, StoreFits
  <2> QED
    BY <1>3, <2>1 DEF LateFits
<1>7. StoreFits(more)'
  BY <1>5, <1>6 DEF LineOK, StoreFits, OneStandalone
<1>8. Passed(line)'
  BY <1>3, <1>7, PassedKept
<1>9. ASSUME NEW n \in 1..(Len(more) - 1)
      PROVE  vers'[more[n]] # Absent /\ Len(vers'[more[n]].ents) > n
  <2>1. n \in 1..len /\ more[n] = line[n]
    BY <1>2, <1>3, <1>9
  <2>2. CASE n = len
    <3>1. vers'[more[n]] = b
      BY <1>1, <1>4, <2>1, <2>2
    <3>2. b # Absent
      BY BodyTypes DEF Extends
    <3> QED
      BY <1>1, <1>2, <2>2, <3>1, <3>2
  <2>3. CASE n # len
    <3>1. n \in 1..(len - 1)
      BY <1>2, <2>1, <2>3
    <3> QED
      BY <1>8, <2>1, <3>1 DEF Passed, len
  <2> QED
    BY <2>2, <2>3
<1>10. Passed(more)'
  BY <1>9 DEF Passed
<1>11. more \in Seq(Dirs)
  BY <1>3 DEF IsLine
<1> QED
  BY <1>3, <1>7, <1>10, <1>11 DEF more

(* The commit request of an append announces its candidate.                *)
LEMMA CommitBodyExtends ==
  ASSUME NEW m \in Mems, NEW p \in Pending, NEW line, IsLine(line), LocalFits(p, m, line)
  PROVE  /\ CommitBody(m) \in Bodies
         /\ Extends(m.ser, m.ldoc.vers, m.cand, CommitBody(m))
         /\ m.cand \in Dirs => Decodes(CommitBody(m), m.ser)
<1>1. /\ m.meta \in Bodies /\ m.meta.ents \in Seq(Entries) /\ Len(m.meta.ents) \in Nat
      /\ m.meta.chain \in Dirs \cup {NoDir}
      /\ Extends(m.ser, m.ldoc.vers, m.cand, m.meta)
      /\ m.ldoc.vers \in Bodies /\ m.ldoc.vers.ents \in Seq(Entries)
  BY MemFields, DocFields, BodyFields, EntryTypes DEF LocalFits, UpdaterOK
<1> DEFINE cur == IF m.ldoc.vers = Absent THEN 1 ELSE m.ldoc.vers.cur
<1>2. cur \in 1..Len(m.meta.ents)
  <2>1. CASE m.ldoc.vers = Absent
    <3>1. m.meta.cur \in 1..Len(m.meta.ents)
      BY <1>1 DEF Extends
    <3> QED
      BY <1>1, <2>1, <3>1
  <2>2. CASE m.ldoc.vers # Absent
    <3>1. /\ m.ldoc.vers.cur = Len(m.ldoc.vers.ents)
          /\ m.meta.ents = AppendEntry(m.ldoc.vers.ents, m.cand)
          /\ Decodes(m.ldoc.vers, m.ser)
      BY <1>1, <2>2 DEF Extends
    <3>2. Len(m.ldoc.vers.ents) >= 2 /\ Len(m.ldoc.vers.ents) \in Nat
      BY <1>1, <3>1, EntryTypes DEF Decodes, DecodesLoose
    <3>3. Len(m.meta.ents) = Len(m.ldoc.vers.ents) + 1
      <4> DEFINE s == m.ldoc.vers.ents
      <4>1. s \in Seq(Entries) /\ m.meta.ents = Append(s, LiveEntry(m.cand))
        BY <1>1, <3>1 DEF AppendEntry
      <4> HIDE DEF s
      <4>2. Len(Append(s, LiveEntry(m.cand))) = Len(s) + 1
        BY <4>1
      <4> QED
        BY <4>1, <4>2 DEF s
    <3>4. cur = Len(m.ldoc.vers.ents)
      BY <2>2, <3>1
    <3> DEFINE k == Len(m.ldoc.vers.ents)
               l == Len(m.meta.ents)
    <3>5. k \in Nat /\ k >= 2 /\ l = k + 1 /\ cur = k
      BY <3>2, <3>3, <3>4
    <3> HIDE DEF cur, k, l
    <3>6. cur \in 1..l
      BY <3>5
    <3> QED
      BY <3>6 DEF l
  <2> QED
    BY <2>1, <2>2
<1> HIDE DEF cur
<1>3. CommitBody(m) = IndexBody(m.meta.chain, cur, m.meta.ents)
  BY DEF CommitBody, cur
<1>4. cur \in Nat
  BY <1>1, <1>2
<1>5. CommitBody(m) \in Bodies
  BY <1>1, <1>3, <1>4, BodyTypes
<1>6. /\ CommitBody(m).kind = "index" /\ CommitBody(m).chain = m.meta.chain
      /\ CommitBody(m).ents = m.meta.ents /\ CommitBody(m).last = Len(m.meta.ents)
      /\ CommitBody(m).cur = cur
  BY <1>3 DEF IndexBody
<1>7. Extends(m.ser, m.ldoc.vers, m.cand, CommitBody(m))
  BY <1>1, <1>2, <1>6 DEF Extends
<1>8. ASSUME m.cand \in Dirs PROVE Decodes(CommitBody(m), m.ser)
  <2> DEFINE body == CommitBody(m)
             s == IF m.ldoc.vers = Absent THEN <<LiveEntry(Root)>> ELSE m.ldoc.vers.ents
  <2>1. m.meta.ents = AppendEntry(s, m.cand)
    BY <1>1 DEF Extends
  <2>2. s \in Seq(Entries) /\ Len(s) \in Nat /\ Len(s) >= 1 /\ cur \in 1..Len(s)
        /\ s[cur].dir = m.ser /\ s[cur].dir # NoDir
    <3>1. CASE m.ldoc.vers = Absent
      <4>1. LiveEntry(Root) \in Entries /\ LiveEntry(Root).dir = Root /\ Root # NoDir
        BY RootAssumption, NoDirAssumption DEF LiveEntry, Entries
      <4>2. s = <<LiveEntry(Root)>> /\ cur = 1 /\ m.ser = Root
        BY <1>1, <3>1 DEF Extends, cur
      <4>3. <<LiveEntry(Root)>> \in Seq(Entries)
        BY <4>1
      <4> HIDE DEF s
      <4> QED
        BY <4>1, <4>2, <4>3
    <3>2. CASE m.ldoc.vers # Absent
      <4>1. Decodes(m.ldoc.vers, m.ser) /\ cur = m.ldoc.vers.cur /\ s = m.ldoc.vers.ents
            /\ cur = Len(m.ldoc.vers.ents)
        BY <1>1, <3>2 DEF Extends, cur
      <4>2. s \in Seq(Entries) /\ Len(s) \in Nat /\ Len(s) >= 2
        BY <1>1, <4>1, EntryTypes DEF Decodes, DecodesLoose
      <4> HIDE DEF s
      <4>3. s[cur].dir = m.ser /\ s[cur].dir # NoDir
        BY <4>1 DEF Decodes, CurrentDeleted, IsLive
      <4>4. cur \in 1..Len(s)
        BY <4>1, <4>2
      <4> QED
        BY <4>2, <4>3, <4>4
    <3> QED
      BY <3>1, <3>2
  <2>3. LiveEntry(m.cand) \in Entries /\ LiveEntry(m.cand).dir # NoDir
    BY <1>8, NoDirAssumption DEF LiveEntry, Entries
  <2> HIDE DEF s, body
  <2> DEFINE k == Len(s)
             e == AppendEntry(s, m.cand)
  <2>4. e \in Seq(Entries) /\ Len(e) = k + 1 /\ (\A n \in 1..k : e[n] = s[n])
    BY <2>2, <2>3, AppendProperties DEF AppendEntry
  <2>5. k \in Nat /\ k >= 1 /\ cur \in 1..k
    BY <2>2
  <2>6. DOMAIN e = 1..(k + 1)
    BY <2>4, EntryTypes
  <2> HIDE DEF k, e
  <2>7. cur \in DOMAIN e /\ e[cur].dir = m.ser /\ e[cur].dir # NoDir
    BY <2>2, <2>4, <2>5, <2>6
  <2>8. body.kind = "index" /\ body.ents = e /\ body.cur = cur
    BY <1>6, <2>1 DEF body, e
  <2>9. Len(e) >= 2 /\ LiveNumbers(e) # {}
    BY <2>4, <2>5, <2>7 DEF LiveNumbers
  <2>10. Decodes(body, m.ser)
    BY <2>7, <2>8, <2>9 DEF Decodes, DecodesLoose, CurrentDeleted, IsLive
  <2> QED
    BY <2>10 DEF body
<1> QED
  BY <1>5, <1>7, <1>8

(* What an append that is being committed, or has been, holds.             *)
LEMMA PendingAt ==
  ASSUME Inv, NEW line, LineOK(line), NEW c \in Clients, NEW p \in Pending, At(c, p)
  PROVE  /\ mem[c] \in Mems /\ LocalOK(p, mem[c]) /\ LocalFits(p, mem[c], line) /\ IsLine(line)
         /\ mem[c].op = "append" /\ mem[c].ser \in Dirs /\ mem[c].cand \in Dirs
         /\ mem[c].ldoc.vers \in Bodies /\ Fits(mem[c].ldoc.vers, line)
         /\ Fits(mem[c].tdoc.vers, line) /\ Fits(mem[c].rdoc.vers, line) /\ Seen(mem[c])
<1>1. mem[c] \in Mems /\ LocalOK(p, mem[c]) /\ LocalFits(p, mem[c], line) /\ IsLine(line)
  BY UpdaterAt
<1> QED
  BY <1>1, MemFields, DocFields DEF LocalOK, AppendOK, LocalFits

(* A commit that takes effect.                                             *)
LEMMA CommitGrows ==
  ASSUME Inv, Inv', Replaces, NEW line \in Seq(Dirs), LineOK(line),
         NEW c \in Clients, NEW p \in Pending, At(c, p), NEW m, mem[c] = m,
         PutVers(m.ser, m.ldoc.vers, CommitBody(m)), marker' = marker, late' = late
  PROVE  LET more == Append(line, m.cand) IN
         /\ Longer(more, line) /\ more \in Seq(Dirs) /\ IsLine(more)
         /\ StoreFits(more)' /\ Passed(more)'
         /\ LocalFits(p, m, more)
         /\ Fits(m.meta, more) /\ m.meta # Absent
         /\ m.meta.cur \in 1..Len(m.meta.ents)
         /\ m.meta.ents[m.meta.cur].dir = m.cand
<1> DEFINE more == Append(line, m.cand)
<1>1. /\ m \in Mems /\ LocalFits(p, m, line) /\ IsLine(line)
      /\ m.ser \in Dirs /\ m.cand \in Dirs
      /\ m.ldoc.vers \in Bodies /\ Fits(m.ldoc.vers, line)
  BY PendingAt
<1>2. /\ m.meta \in Bodies /\ Extends(m.ser, m.ldoc.vers, m.cand, m.meta)
      /\ m.meta.cur = Len(m.meta.ents) /\ m.meta.cur \in 1..Len(m.meta.ents)
  BY <1>1 DEF LocalFits, UpdaterOK, Extends
<1>3. PutVers(m.ser, m.ldoc.vers, CommitBody(m)) /\ vers[m.ser] = m.ldoc.vers
  BY DEF PutVers
<1>4. /\ CommitBody(m) \in Bodies /\ Extends(m.ser, m.ldoc.vers, m.cand, CommitBody(m))
      /\ Decodes(CommitBody(m), m.ser)
  BY <1>1, CommitBodyExtends
<1>5. /\ Fits(m.meta, more) /\ m.meta # Absent
      /\ m.meta.ents[Len(m.meta.ents)].dir = m.cand
  BY <1>1, <1>2, <1>3, CommitFits
<1>6. StoreFits(more)' /\ Passed(more)' /\ IsLine(more) /\ more \in Seq(Dirs)
  BY <1>1, <1>3, <1>4, CommitStep
<1>7. Longer(more, line)
  BY <1>1 DEF Longer
<1>8. LocalFits(p, m, more)
  BY <1>1, <1>7, LocalLonger
<1> QED
  BY <1>2, <1>5, <1>6, <1>7, <1>8

LEMMA CommitAppliedFits ==
  ASSUME Inv, Inv', Replaces, NEW line \in Seq(Dirs), LineOK(line),
         NEW c \in Clients, NEW p \in Pending, At(c, p), NEW m, mem[c] = m,
         PutVers(m.ser, m.ldoc.vers, CommitBody(m)), marker' = marker, late' = late,
         Committed(c, m, m.meta)
  PROVE  LineOK(Append(line, m.cand))'
<1> DEFINE more == Append(line, m.cand)
<1>1. /\ Longer(more, line) /\ more \in Seq(Dirs) /\ IsLine(more)
      /\ StoreFits(more)' /\ Passed(more)'
      /\ LocalFits(p, m, more)
      /\ Fits(m.meta, more) /\ m.meta # Absent
      /\ m.meta.cur \in 1..Len(m.meta.ents)
      /\ m.meta.ents[m.meta.cur].dir = m.cand
  BY CommitGrows
<1>2. m \in Mems /\ m.op = "append" /\ m.meta \in Bodies /\ Committed(c, m, m.meta)
  BY PendingAt, MemFields
<1> HIDE DEF more
<1>3. /\ Seen(m) /\ Fits(m.tdoc.vers, more) /\ Fits(m.ldoc.vers, more)
      /\ Fits(m.rdoc.vers, more)
  BY <1>1 DEF LocalFits
<1>4. Goes(c, more)
  BY <1>1, <1>2, <1>3, CommittedGoes
<1> QED
  BY <1>1, <1>4, LineGrows DEF more

(* An append whose fate is open looks for it.                              *)
LEMMA AmbiguousFits ==
  ASSUME NEW m \in Mems, NEW line, LocalFits("commit", m, line), NEW b \in BOOLEAN
  PROVE  LET q == [m EXCEPT !.conflict = b]
         IN  q \in Mems /\ LocalFits("recRead", q, line)
<1> DEFINE q == [m EXCEPT !.conflict = b]
<1>1. /\ q \in Mems /\ q.tdoc = m.tdoc /\ q.ldoc = m.ldoc /\ q.rdoc = m.rdoc /\ q.op = m.op
      /\ q.cand = m.cand /\ q.ser = m.ser /\ q.meta = m.meta
  BY DEF Mems
<1> HIDE DEF q
<1>2. LocalFits("recRead", q, line)
  BY <1>1 DEF Seen, LocalFits, UpdaterOK
<1> QED
  BY <1>1, <1>2 DEF q

LEMMA CommitEchoedFits ==
  ASSUME Inv, Inv', Replaces, NEW line \in Seq(Dirs), LineOK(line),
         NEW c \in Clients, NEW m, mem[c] = m, CommitEchoed(c)
  PROVE  LineOK(Append(line, m.cand))'
<1> DEFINE more == Append(line, m.cand)
           q == [m EXCEPT !.conflict = TRUE]
<1>1. At(c, "commit") /\ Goto(c, "recRead", q)
  BY DEF CommitEchoed
<1>2. /\ Longer(more, line) /\ more \in Seq(Dirs)
      /\ StoreFits(more)' /\ Passed(more)' /\ LocalFits("commit", m, more)
  BY <1>1, CommitGrows DEF CommitEchoed
<1>3. m \in Mems
  BY <1>1, PendingAt
<1>4. q \in Mems /\ LocalFits("recRead", q, more)
  BY <1>2, <1>3, AmbiguousFits
<1> HIDE DEF more, q
<1>5. Goes(c, more)
  BY <1>1, <1>4, GotoGoes DEF Labels
<1> QED
  BY <1>2, <1>5, LineGrows DEF more

LEMMA CommitRefusedFits ==
  ASSUME Inv, NEW line, LineOK(line), NEW c \in Clients, CommitRefused(c)
  PROVE  Goes(c, line)
<1> DEFINE q == [mem[c] EXCEPT !.conflict = TRUE]
<1>1. mem[c] \in Mems /\ LocalFits("commit", mem[c], line)
  BY UpdaterAt DEF CommitRefused
<1>2. q \in Mems /\ LocalFits("recRead", q, line)
  BY <1>1, AmbiguousFits
<1>3. Goto(c, "recRead", q)
  BY DEF CommitRefused
<1> HIDE DEF q
<1> QED
  BY <1>2, <1>3, GotoGoes DEF Labels

LEMMA CommitUnknownFits ==
  ASSUME Inv, NEW line, LineOK(line), NEW c \in Clients, CommitUnknown(c)
  PROVE  Goes(c, line) /\ StoreFits(line)'
<1> DEFINE m == mem[c]
           put == [dir |-> m.ser, match |-> m.ldoc.vers, body |-> CommitBody(m)]
<1>1. At(c, "commit") /\ Goto(c, "recRead", m) /\ late' = late \cup {put}
      /\ UNCHANGED <<vers, marker>>
  BY DEF CommitUnknown
<1>2. /\ m \in Mems /\ LocalFits("commit", m, line) /\ IsLine(line)
      /\ m.cand \in Dirs /\ Fits(m.ldoc.vers, line)
  BY <1>1, PendingAt
<1>3. Extends(m.ser, m.ldoc.vers, m.cand, CommitBody(m)) /\ Decodes(CommitBody(m), m.ser)
  BY <1>2, CommitBodyExtends
<1>4. put.dir = m.ser /\ put.match = m.ldoc.vers /\ put.body = CommitBody(m)
  OBVIOUS
<1> HIDE DEF m, put
<1>5. LateFits(put, line)
  BY <1>2, <1>3, <1>4 DEF LateFits
<1>6. StoreFits(line)'
  BY <1>1, <1>5 DEF LineOK, StoreFits, OneStandalone
<1>7. LocalFits("recRead", m, line)
  BY <1>2 DEF LocalFits, UpdaterOK
<1> QED
  BY <1>1, <1>2, <1>6, <1>7, GotoGoes DEF Labels

(* A commit request that was given up on arrives.                          *)
LEMMA DeliverLateFits ==
  ASSUME Inv, Inv', Replaces, NEW line \in Seq(Dirs), LineOK(line),
         NEW put \in late, DeliverLate(put)
  PROVE  /\ vers[put.dir] # put.match => LineOK(line)'
         /\ \A x \in Dirs : vers[put.dir] = put.match /\ Extends(put.dir, put.match, x, put.body) =>
              LineOK(Append(line, x))'
<1>1. /\ put.dir \in Dirs /\ put.match \in Bodies /\ put.body \in Bodies
      /\ LateFits(put, line)
      /\ pc \in [Clients -> Labels] /\ mem \in [Clients -> Mems]
  BY DEF Inv, TypeOK, LatePuts, LineOK, StoreFits
<1>2. late' \subseteq late /\ marker' = marker /\ pc' = pc /\ mem' = mem
  BY DEF DeliverLate
<1>3. IsLine(line)
  BY DEF LineOK
<1>4. \A e \in Clients : mem'[e] \in Mems /\ LocalFits(pc'[e], mem'[e], line)
  BY <1>1, <1>2 DEF LineOK
<1>5. ASSUME vers[put.dir] = put.match, NEW x \in Dirs, Extends(put.dir, put.match, x, put.body)
      PROVE  LineOK(Append(line, x))'
  <2> DEFINE more == Append(line, x)
  <2>1. PutVers(put.dir, put.match, put.body)
    BY <1>5 DEF DeliverLate, PutVers
  <2>2. StoreFits(more)' /\ Passed(more)' /\ IsLine(more) /\ more \in Seq(Dirs)
    BY <1>1, <1>2, <1>5, <2>1, CommitStep DEF LateFits
  <2>3. Longer(more, line)
    BY DEF Longer
  <2> HIDE DEF more
  <2>4. \A e \in Clients : mem'[e] \in Mems /\ LocalFits(pc'[e], mem'[e], more)
    BY <1>3, <1>4, <2>3, LocalLonger
  <2> QED
    BY <2>2, <2>3, <2>4, LineKept DEF more
<1>6. ASSUME vers[put.dir] # put.match PROVE LineOK(line)'
  <2>1. vers' = vers
    BY <1>6 DEF DeliverLate
  <2>2. StoreFits(line)'
    BY <1>2, <2>1 DEF LineOK, StoreFits, OneStandalone
  <2>3. Longer(line, line)
    BY DEF Longer
  <2> QED
    BY <1>4, <2>2, <2>3, LineKept
<1> QED
  BY <1>5, <1>6

-----------------------------------------------------------------------------
(* reconcileRevisionAppendCommit and the rollback.                         *)

LEMMA ShownGoes ==
  ASSUME Inv, NEW line, LineOK(line), NEW c \in Clients, NEW p \in Pending, At(c, p),
         NEW d \in Dirs, ShowsCommit(mem[c], vers[d], d), Committed(c, mem[c], vers[d])
  PROVE  Goes(c, line)
<1>1. /\ mem[c] \in Mems /\ IsLine(line) /\ mem[c].op = "append"
      /\ Fits(mem[c].ldoc.vers, line) /\ Fits(mem[c].tdoc.vers, line)
      /\ Fits(mem[c].rdoc.vers, line) /\ Seen(mem[c])
  BY PendingAt
<1>2. vers[d] \in Bodies /\ Fits(vers[d], line) /\ vers[d] # Absent
  BY LoadFits, BodyTypes DEF ShowsCommit, Decodes, DecodesLoose
<1>3. /\ mem[c].meta.cur \in 1..Len(vers[d].ents)
      /\ vers[d].ents[mem[c].meta.cur].dir = mem[c].cand
  BY <1>1, <1>2, FitsParts DEF ShowsCommit
<1> QED
  BY <1>1, <1>2, <1>3, CommittedGoes

(* A pending append that goes on with the same locals.                     *)
LEMMA PendingGoes ==
  ASSUME NEW c, NEW line, NEW m \in Mems, NEW p \in Pending, LocalFits(p, m, line),
         NEW q \in (Pending \ {"recClaim"}) \cup Undone, Goto(c, q, m)
  PROVE  Goes(c, line)
<1>1. LocalFits(q, m, line)
  BY DEF LocalFits, UpdaterOK
<1> QED
  BY <1>1, GotoGoes DEF Labels

LEMMA RecReadFits ==
  ASSUME Inv, NEW line, LineOK(line), NEW c \in Clients, RecRead(c)
  PROVE  Goes(c, line)
<1> DEFINE m == mem[c]
           q == [m EXCEPT !.obs = vers[m.ser]]
<1>1. /\ At(c, "recRead") /\ m \in Mems /\ LocalFits("recRead", m, line)
      /\ m.ser \in Dirs
  BY PendingAt DEF RecRead
<1>2. CASE ShowsCommit(m, vers[m.ser], m.ser)
  <2>1. Committed(c, m, vers[m.ser])
    BY <1>2 DEF RecRead
  <2> QED
    BY <1>1, <1>2, <2>1, ShownGoes
<1>3. CASE ~ShowsCommit(m, vers[m.ser], m.ser)
  <2>1. Goto(c, "recCand", q)
    BY <1>3 DEF RecRead
  <2>2. vers[m.ser] \in Bodies
    BY <1>1, LoadFits
  <2>3. /\ q \in Mems /\ q.tdoc = m.tdoc /\ q.ldoc = m.ldoc /\ q.rdoc = m.rdoc /\ q.op = m.op
        /\ q.cand = m.cand /\ q.ser = m.ser /\ q.meta = m.meta
    BY <1>1, <2>2 DEF Mems
  <2> HIDE DEF m, q
  <2>4. LocalFits("recCand", q, line)
    BY <1>1, <2>3 DEF Seen, LocalFits, UpdaterOK
  <2> QED
    BY <2>1, <2>3, <2>4, GotoGoes DEF Labels
<1> QED
  BY <1>2, <1>3

LEMMA RecCandFits ==
  ASSUME Inv, NEW line, LineOK(line), NEW c \in Clients, RecCand(c)
  PROVE  Goes(c, line)
<1> DEFINE m == mem[c]
<1>1. /\ At(c, "recCand") /\ m \in Mems /\ LocalFits("recCand", m, line)
      /\ m.cand \in Dirs
  BY PendingAt DEF RecCand
<1>2. \/ ShowsCommit(m, vers[m.cand], m.cand) /\ Committed(c, m, vers[m.cand])
      \/ Goto(c, "rbPayload", m)
      \/ Goto(c, "recRetry", m)
      \/ Decodes(m.obs, m.ser) /\ Goto(c, "recClaim", m)
  BY DEF RecCand
<1>3. CASE Decodes(m.obs, m.ser) /\ Goto(c, "recClaim", m)
  <2>1. m.obs # Absent
    BY <1>3, BodyTypes DEF Decodes, DecodesLoose
  <2> HIDE DEF m
  <2>2. LocalFits("recClaim", m, line)
    BY <1>1, <2>1 DEF LocalFits, UpdaterOK
  <2> QED
    BY <1>1, <1>3, <2>2, GotoGoes DEF Labels
<1> QED
  BY <1>1, <1>2, <1>3, ShownGoes, PendingGoes

LEMMA RecRereadFits ==
  ASSUME Inv, NEW line, LineOK(line), NEW c \in Clients, RecReread(c)
  PROVE  Goes(c, line)
<1> DEFINE m == mem[c]
<1>1. /\ At(c, "recReread") /\ m \in Mems /\ LocalFits("recReread", m, line)
      /\ m.ser \in Dirs
  BY PendingAt DEF RecReread
<1>2. \/ ShowsCommit(m, vers[m.ser], m.ser) /\ Committed(c, m, vers[m.ser])
      \/ Goto(c, "rbPayload", m)
  BY DEF RecReread
<1> QED
  BY <1>1, <1>2, ShownGoes, PendingGoes

(* Only a first append is tried again, on a document that had no index.    *)
LEMMA RecRetryFits ==
  ASSUME Inv, Inv', Replaces, NEW line \in Seq(Dirs), LineOK(line),
         NEW c \in Clients, NEW m, mem[c] = m, RecRetry(c)
  PROVE  /\ vers[m.ser] = Absent => LineOK(Append(line, m.cand))' /\ m.ldoc.vers = Absent
         /\ vers[m.ser] # Absent => LineOK(line)'
<1>1. /\ At(c, "recRetry") /\ m \in Mems /\ LocalOK("recRetry", m)
      /\ LocalFits("recRetry", m, line)
      /\ m.ser \in Dirs /\ m.ldoc.vers \in Bodies /\ Seen(m)
  BY PendingAt DEF RecRetry
<1>2. late' = late /\ marker' = marker
  BY DEF RecRetry
<1>3. CASE vers[m.ser] = Absent
  <2>1. m.ldoc.vers = Absent
    <3> SUFFICES ASSUME m.ldoc.vers # Absent PROVE FALSE
      OBVIOUS
    <3>1. Decodes(m.ldoc.vers, m.ser)
      BY <1>1 DEF LocalFits, UpdaterOK, Extends
    <3>2. Decodes(m.ldoc.vers, m.ldoc.dir)
      BY <1>1 DEF LocalOK, DocsOK, DocOK
    <3> QED
      BY <1>1, <1>3, <3>1, <3>2 DEF Decodes, Seen
  <2>2. vers' = [vers EXCEPT ![m.ser] = CommitBody(m)] /\ Committed(c, m, m.meta)
    BY <1>3 DEF RecRetry
  <2>3. PutVers(m.ser, m.ldoc.vers, CommitBody(m))
    BY <1>3, <2>1, <2>2 DEF PutVers
  <2> QED
    BY <1>1, <1>2, <1>3, <2>1, <2>2, <2>3, CommitAppliedFits
<1>4. CASE vers[m.ser] # Absent
  <2>1. vers' = vers /\ Goto(c, "recReread", m)
    BY <1>4 DEF RecRetry
  <2>2. Goes(c, line)
    BY <1>1, <2>1, PendingGoes
  <2> QED
    BY <1>2, <1>4, <2>1, <2>2, ReadFits, LineStays
<1> QED
  BY <1>3, <1>4

(* A claim is the same index.                                              *)
LEMMA ClaimFits ==
  ASSUME NEW line, NEW b \in Bodies, Fits(b, line), b # Absent
  PROVE  Fits(ClaimBody(b), line) /\ \A d : Decodes(b, d) => Decodes(ClaimBody(b), d)
<1>1. /\ ClaimBody(b).kind = b.kind /\ ClaimBody(b).chain = b.chain
      /\ ClaimBody(b).ents = b.ents /\ ClaimBody(b).last = b.last /\ ClaimBody(b).cur = b.cur
  BY DEF ClaimBody, Bodies
<1> QED
  BY <1>1 DEF Fits, Decodes, DecodesLoose, CurrentDeleted

LEMMA RecClaimFits ==
  ASSUME Inv, NEW line, LineOK(line), NEW c \in Clients, RecClaim(c)
  PROVE  Goes(c, line) /\ StoreFits(line)'
<1> DEFINE m == mem[c]
<1>1. /\ m \in Mems /\ LocalFits("recClaim", m, line) /\ m.ser \in Dirs
      /\ Goto(c, "rbPayload", m)
      /\ PutVers(m.ser, m.obs, ClaimBody(m.obs)) /\ UNCHANGED <<late, marker>>
  BY PendingAt DEF RecClaim
<1>2. m.obs = vers[m.ser] /\ m.obs \in Bodies /\ Fits(m.obs, line) /\ m.obs # Absent
  BY <1>1, LoadFits DEF PutVers, LocalFits, UpdaterOK
<1>3. Fits(ClaimBody(m.obs), line) /\ Decodes(ClaimBody(m.obs), m.ser)
  BY <1>1, <1>2, ClaimFits DEF LineOK, StoreFits
<1> QED
  BY <1>1, <1>3, PutFits, PendingGoes

LEMMA RollbackFits ==
  ASSUME Inv, NEW line, LineOK(line), NEW c \in Clients, RollbackPayload(c) \/ RollbackMarker(c)
  PROVE  Goes(c, line) /\ StoreFits(line)'
<1>1. CASE RollbackPayload(c)
  <2>1. mem[c] \in Mems /\ LocalFits("rbPayload", mem[c], line)
    BY <1>1, UpdaterAt DEF RollbackPayload
  <2>2. LocalFits("rbMarker", mem[c], line)
    BY <2>1 DEF LocalFits, UpdaterOK
  <2> QED
    BY <1>1, <2>1, <2>2, GotoGoes, ReadFits DEF RollbackPayload, Labels
<1>2. CASE RollbackMarker(c)
  <2>1. NoMarker.has = FALSE
    BY DEF NoMarker
  <2> QED
    BY <1>2, <2>1, StopGoes, MarkerFits DEF RollbackMarker
<1> QED
  BY <1>1, <1>2

-----------------------------------------------------------------------------
(* Publishing an index.                                                    *)

LEMMA PropagateGoes ==
  ASSUME NEW c, NEW line, NEW m \in Mems, NEW n \in Nat, Holds(m, line), m.meta # Absent,
         Propagate(c, m, n)
  PROVE  Goes(c, line)
<1> DEFINE next == NextReplica(m, n)
           q == [m EXCEPT !.i = next, !.obs = Absent]
           v == [m EXCEPT !.i = NextLive(m.meta.ents, 0)]
<1>1. next \in Nat
  BY NextReplicaIsLive
<1>2. NextLive(m.meta.ents, 0) \in Nat
  BY MemFields, BodyFields, NextLiveIsLive
<1>3. Goto(c, "propRead", q) \/ Goto(c, "verify", v)
  <2>1. m.op = "append"
    BY DEF Holds
  <2>2. CASE next # 0
    <3> DEFINE x == [m EXCEPT !.i = next, !.obs = IF m.op = "append" THEN Absent ELSE @]
    <3>1. Goto(c, "propRead", x)
      BY <2>2 DEF Propagate
    <3>2. x = q
      BY <2>1
    <3> QED
      BY <3>1, <3>2
  <2>3. CASE next = 0
    BY <2>3 DEF Propagate
  <2> QED
    BY <2>2, <2>3
<1> HIDE DEF next
<1>4. /\ q \in Mems /\ q.tdoc = m.tdoc /\ q.ldoc = m.ldoc /\ q.rdoc = m.rdoc
      /\ q.op = m.op /\ q.meta = m.meta
  BY <1>1, BodyTypes DEF Mems
<1>5. /\ v \in Mems /\ v.tdoc = m.tdoc /\ v.ldoc = m.ldoc /\ v.rdoc = m.rdoc
      /\ v.op = m.op /\ v.meta = m.meta
  BY <1>2 DEF Mems
<1> HIDE DEF q, v
<1>6. LocalFits("propRead", q, line) /\ LocalFits("verify", v, line)
  BY <1>4, <1>5 DEF Holds, Seen, LocalFits, UpdaterOK
<1> QED
  BY <1>3, <1>4, <1>5, <1>6, GotoGoes DEF Labels

(* A writer that publishes holds an index of the line.                     *)
LEMMA PublisherAt ==
  ASSUME Inv, NEW line, LineOK(line), NEW c \in Clients, NEW p, At(c, p),
         p \in Publishing \cup {"newIndex", "verify"}
  PROVE  /\ mem[c] \in Mems /\ LocalOK(p, mem[c]) /\ LocalFits(p, mem[c], line) /\ IsLine(line)
         /\ Holds(mem[c], line) /\ mem[c].meta # Absent /\ mem[c].meta \in Bodies
<1>1. mem[c] \in Mems /\ LocalOK(p, mem[c]) /\ LocalFits(p, mem[c], line) /\ IsLine(line)
  BY UpdaterAt
<1> QED
  BY <1>1, MemFields DEF Holds, LocalFits, UpdaterOK, Announces

LEMMA NewIndexFits ==
  ASSUME Inv, NEW line, LineOK(line), NEW c \in Clients, NewIndex(c)
  PROVE  Goes(c, line) /\ StoreFits(line)'
<1> DEFINE m == mem[c]
           body == IndexBody(m.meta.chain, m.meta.cur, m.meta.ents)
<1>1. /\ m \in Mems /\ LocalFits("newIndex", m, line) /\ IsLine(line)
      /\ Holds(m, line) /\ m.meta # Absent /\ m.meta \in Bodies
  BY PublisherAt DEF NewIndex
<1>2. Fits(body, line) /\ Decodes(body, m.cand)
  BY <1>1, FitsIndex DEF Holds, LocalFits, UpdaterOK, Announces
<1>3. /\ PutVers(m.cand, Absent, body) \/ vers' = vers
      /\ Propagate(c, m, 0) /\ UNCHANGED <<late, marker>>
  BY DEF NewIndex
<1> HIDE DEF m, body
<1> QED
  BY <1>1, <1>2, <1>3, PropagateGoes, PutFits, ReadFits

LEMMA PlanUnchangedFits ==
  ASSUME Inv, NEW line, LineOK(line), NEW c \in Clients, PlanUnchanged(c)
  PROVE  Goes(c, line)
<1> DEFINE m == mem[c]
           q == [m EXCEPT !.meta = m.ldoc.vers, !.ser = m.ldoc.dir, !.skip = {m.ldoc.dir}]
<1>1. m \in Mems /\ LocalOK("plan", m) /\ LocalFits("plan", m, line) /\ m.ldoc.vers # Absent
      /\ Propagate(c, q, 0)
  BY UpdaterAt DEF PlanUnchanged
<1>2. m.ldoc \in Docs /\ m.ldoc.vers \in Bodies /\ m.ldoc.dir \in Dirs
  BY <1>1, MemFields, DocFields DEF LocalOK, AppendOK
<1>3. /\ q \in Mems /\ q.tdoc = m.tdoc /\ q.ldoc = m.ldoc /\ q.rdoc = m.rdoc
      /\ q.op = m.op /\ q.meta = m.ldoc.vers
  BY <1>1, <1>2 DEF Mems
<1> HIDE DEF m, q
<1>4. Holds(q, line)
  BY <1>1, <1>3 DEF Holds, Seen, LocalFits, UpdaterOK
<1> QED
  BY <1>1, <1>3, <1>4, PropagateGoes

(* What is written to a replica is the same index for that member.         *)
LEMMA ExpectedFits ==
  ASSUME NEW line, IsLine(line), NEW m \in Mems, Fits(m.meta, line), m.meta # Absent,
         IsLive(m.meta.ents, m.i)
  PROVE  Fits(Expected(m), line) /\ Decodes(Expected(m), Target(m))
BY MemFields, FitsParts, FitsIndex DEF Expected, Target

LEMMA PropagateReadFits ==
  ASSUME Inv, NEW line, LineOK(line), NEW c \in Clients, PropagateRead(c)
  PROVE  Goes(c, line)
<1> DEFINE m == mem[c]
           current == vers[Target(m)]
           r == [NoDoc EXCEPT !.vers = current]
           q == [m EXCEPT !.rdoc = r]
<1>1. /\ m \in Mems /\ LocalOK("propRead", m) /\ LocalFits("propRead", m, line)
      /\ Holds(m, line) /\ m.meta # Absent /\ m.meta \in Bodies
  BY PublisherAt DEF PropagateRead
<1>2. IsLive(m.meta.ents, m.i) /\ m.i \in Nat
  BY <1>1, MemFields DEF LocalOK, DocsOK
<1>3. Target(m) \in Dirs
  BY <1>1, <1>2, LiveDir DEF Target
<1>4. current \in Bodies /\ Fits(current, line)
  BY <1>3, LoadFits
<1>5. \/ Propagate(c, m, m.i)
      \/ Goto(c, "propPut", q)
      \/ Goto(c, "propCheck", m)
  BY DEF PropagateRead
<1> HIDE DEF current
<1>6. r \in Docs /\ r.vers = current
  BY <1>4, NoMemOK DEF Docs
<1> HIDE DEF r
<1>7. /\ q \in Mems /\ q.tdoc = m.tdoc /\ q.ldoc = m.ldoc /\ q.rdoc = r
      /\ q.op = m.op /\ q.meta = m.meta
  BY <1>1, <1>6 DEF Mems
<1> HIDE DEF q, m
<1>8. LocalFits("propPut", q, line) /\ LocalFits("propCheck", m, line)
  BY <1>1, <1>4, <1>6, <1>7 DEF Holds, Seen, LocalFits, UpdaterOK
<1> QED
  BY <1>1, <1>2, <1>5, <1>7, <1>8, PropagateGoes, GotoGoes DEF Labels

LEMMA PropagatePutFits ==
  ASSUME Inv, NEW line, LineOK(line), NEW c \in Clients, PropagatePut(c)
  PROVE  Goes(c, line) /\ StoreFits(line)'
<1> DEFINE m == mem[c]
           q == [m EXCEPT !.rdoc = NoDoc]
<1>1. /\ m \in Mems /\ LocalOK("propPut", m) /\ IsLine(line)
      /\ Holds(m, line) /\ m.meta # Absent
  BY PublisherAt DEF PropagatePut
<1>2. IsLive(m.meta.ents, m.i) /\ m.i \in Nat
  BY <1>1, MemFields DEF LocalOK, DocsOK
<1>3. /\ PutVers(Target(m), m.rdoc.vers, Expected(m)) /\ UNCHANGED <<late, marker>>
      /\ Propagate(c, q, m.i)
  BY DEF PropagatePut
<1>4. Fits(Expected(m), line) /\ Decodes(Expected(m), Target(m))
  BY <1>1, <1>2, ExpectedFits DEF Holds
<1>5. /\ q \in Mems /\ q.tdoc = m.tdoc /\ q.ldoc = m.ldoc /\ q.rdoc = NoDoc
      /\ q.op = m.op /\ q.meta = m.meta
  BY <1>1, NoMemOK DEF Mems
<1> HIDE DEF q, m
<1>6. Holds(q, line)
  BY <1>1, <1>5, AbsentFits DEF Holds, Seen
<1> QED
  BY <1>1, <1>2, <1>3, <1>4, <1>5, <1>6, PropagateGoes, PutFits

LEMMA PropagateCheckFits ==
  ASSUME Inv, NEW line, LineOK(line), NEW c \in Clients,
         PropagateCheck(c) \/ PropagateMember(c)
  PROVE  Goes(c, line)
<1> DEFINE m == mem[c]
<1>1. /\ m \in Mems /\ Holds(m, line) /\ m.meta # Absent
      /\ Goto(c, "propMember", m) \/ Goto(c, "propMake", m)
  BY PublisherAt DEF PropagateCheck, PropagateMember
<1> HIDE DEF m
<1>2. LocalFits("propMember", m, line) /\ LocalFits("propMake", m, line)
  BY <1>1 DEF Holds, LocalFits, UpdaterOK
<1> QED
  BY <1>1, <1>2, GotoGoes DEF Labels

LEMMA PropagateMakeFits ==
  ASSUME Inv, NEW line, LineOK(line), NEW c \in Clients, PropagateMake(c)
  PROVE  Goes(c, line) /\ StoreFits(line)'
<1> DEFINE m == mem[c]
<1>1. /\ m \in Mems /\ LocalOK("propMake", m) /\ IsLine(line)
      /\ Holds(m, line) /\ m.meta # Absent
  BY PublisherAt DEF PropagateMake
<1>2. IsLive(m.meta.ents, m.i) /\ m.i \in Nat
  BY <1>1, MemFields DEF LocalOK, DocsOK
<1>3. /\ PutVers(Target(m), Absent, Expected(m)) /\ UNCHANGED <<late, marker>>
      /\ Propagate(c, m, m.i)
  BY DEF PropagateMake
<1>4. Fits(Expected(m), line) /\ Decodes(Expected(m), Target(m))
  BY <1>1, <1>2, ExpectedFits DEF Holds
<1> HIDE DEF m
<1> QED
  BY <1>1, <1>2, <1>3, <1>4, PropagateGoes, PutFits

LEMMA VerifyMemberFits ==
  ASSUME Inv, NEW line, LineOK(line), NEW c \in Clients, VerifyMember(c)
  PROVE  Goes(c, line)
<1> DEFINE m == mem[c]
           next == NextLive(m.meta.ents, m.i)
           v == [m EXCEPT !.i = next]
<1>1. /\ m \in Mems /\ LocalFits("verify", m, line)
      /\ Holds(m, line) /\ m.meta # Absent
  BY PublisherAt DEF VerifyMember
<1>2. Goto(c, "verify", v) \/ Stop(c)
  BY <1>1 DEF VerifyMember, Holds
<1>3. next \in Nat
  BY <1>1, MemFields, BodyFields, NextLiveIsLive
<1> HIDE DEF next
<1>4. /\ v \in Mems /\ v.tdoc = m.tdoc /\ v.ldoc = m.ldoc /\ v.rdoc = m.rdoc
      /\ v.op = m.op /\ v.meta = m.meta
  BY <1>1, <1>3 DEF Mems
<1> HIDE DEF v, m
<1>5. LocalFits("verify", v, line)
  BY <1>1, <1>4 DEF Holds, Seen, LocalFits, UpdaterOK
<1> QED
  BY <1>2, <1>4, <1>5, GotoGoes, StopGoes DEF Labels

-----------------------------------------------------------------------------
(* Every step.                                                             *)

(* Nobody deletes.                                                         *)
LEMMA NoDeletion ==
  ASSUME Inv, NEW line, LineOK(line), NEW c \in Clients
  PROVE  ~DeleteStep(c)
<1>1. ASSUME NEW p \in Deleting, At(c, p) PROVE FALSE
  BY <1>1, UpdaterAt DEF LocalFits, UpdaterOK
<1>2. ASSUME At(c, "follow"), mem[c].op = "delete" PROVE FALSE
  BY <1>2, UpdaterAt DEF LocalFits, UpdaterOK
<1> QED
  BY <1>1, <1>2 DEF DeleteStep, Reserve, ReadTarget, Survivor, FollowForDelete, Tombstone,
     Receipt, RemovePayload, RemoveMarker, ClassifyRead, ClassifyRefine, ClassifyLoad,
     ClassifyClaim

LEMMA PrepareKeeps ==
  ASSUME Inv, Inv', Replaces, NEW line, LineOK(line), NEW c \in Clients, PrepareStep(c)
  PROVE  LineOK(line)'
<1>1. CASE Reload(c)
  BY <1>1, ReloadFits, ReadFits, LineStays DEF Reload, Reads, store
<1>2. CASE RepairPage(c)
  BY <1>2, RepairPageFits, ReadFits, LineStays DEF RepairPage
<1>3. CASE First(c)
  BY <1>3, FirstFits, ReadFits, LineStays DEF First, Reads, store
<1>4. CASE Follow(c)
  BY <1>4, FollowFits, ReadFits, LineStays DEF Follow, Reads, store
<1>5. CASE FixRead(c)
  BY <1>5, FixReadFits, ReadFits, LineStays DEF FixRead, Reads, store
<1>6. CASE FixPut(c)
  BY <1>6, FixPutFits, LineStays
<1>7. CASE PromoteMarker(c)
  BY <1>7, PromoteMarkerFits, LineStays
<1>8. CASE PromotePage(c)
  BY <1>8, PromotePageFits, ReadFits, LineStays DEF PromotePage
<1>9. CASE PromoteVerify(c)
  BY <1>9, PromoteVerifyFits, ReadFits, LineStays DEF PromoteVerify, Reads, store
<1> QED
  BY <1>1, <1>2, <1>3, <1>4, <1>5, <1>6, <1>7, <1>8, <1>9, NoReceipt DEF PrepareStep

(* The steps that put a candidate at the end of the line.                  *)
Announcing(c) ==
  CommitApplied(c) \/ CommitEchoed(c) \/ (RecRetry(c) /\ vers[mem[c].ser] = Absent)

LEMMA AnnouncingGrows ==
  ASSUME Inv, Inv', Replaces, NEW line \in Seq(Dirs), LineOK(line),
         NEW c \in Clients, NEW m, mem[c] = m, Announcing(c)
  PROVE  LineOK(Append(line, m.cand))'
<1>1. CASE CommitApplied(c)
  BY <1>1, CommitAppliedFits DEF CommitApplied
<1>2. CASE CommitEchoed(c)
  BY <1>2, CommitEchoedFits
<1>3. CASE RecRetry(c) /\ vers[mem[c].ser] = Absent
  BY <1>3, RecRetryFits
<1> QED
  BY <1>1, <1>2, <1>3 DEF Announcing

LEMMA AppendKeeps ==
  ASSUME Inv, Inv', Replaces, NEW line \in Seq(Dirs), LineOK(line),
         NEW c \in Clients, AppendStep(c), ~Announcing(c)
  PROVE  LineOK(line)'
<1>1. CASE \E d \in Dirs : PutMarker(c, d)
  BY <1>1, PutMarkerFits, LineStays
<1>2. CASE PutPayload(c)
  BY <1>2, PutPayloadFits, ReadFits, LineStays DEF PutPayload
<1>3. CASE PutPayloadFails(c)
  BY <1>3, PutPayloadFits, ReadFits, LineStays DEF PutPayloadFails, Reads, store
<1>5. CASE CommitRefused(c)
  BY <1>5, CommitRefusedFits, ReadFits, LineStays DEF CommitRefused, Reads, store
<1>7. CASE CommitUnknown(c)
  BY <1>7, CommitUnknownFits, LineStays
<1>8. CASE RecRead(c)
  BY <1>8, RecReadFits, ReadFits, LineStays DEF RecRead, Reads, store
<1>9. CASE RecCand(c)
  BY <1>9, RecCandFits, ReadFits, LineStays DEF RecCand, Reads, store
<1>10. CASE RecRetry(c)
  BY <1>10, RecRetryFits DEF Announcing
<1>11. CASE RecReread(c)
  BY <1>11, RecRereadFits, ReadFits, LineStays DEF RecReread, Reads, store
<1>12. CASE RecClaim(c)
  BY <1>12, RecClaimFits, LineStays
<1>13. CASE RollbackPayload(c) \/ RollbackMarker(c)
  BY <1>13, RollbackFits, LineStays
<1>14. CASE NewIndex(c)
  BY <1>14, NewIndexFits, LineStays
<1>15. CASE PlanUnchanged(c)
  BY <1>15, PlanUnchangedFits, ReadFits, LineStays DEF PlanUnchanged, Reads, store
<1> QED
  BY <1>1, <1>2, <1>3, <1>5, <1>7, <1>8, <1>9, <1>10, <1>11, <1>12, <1>13, <1>14,
     <1>15 DEF AppendStep, Announcing

LEMMA PublishKeeps ==
  ASSUME Inv, Inv', Replaces, NEW line, LineOK(line), NEW c \in Clients, PublishStep(c)
  PROVE  LineOK(line)'
<1>1. CASE PropagateRead(c)
  BY <1>1, PropagateReadFits, ReadFits, LineStays DEF PropagateRead, Reads, store
<1>2. CASE PropagatePut(c)
  BY <1>2, PropagatePutFits, LineStays
<1>3. CASE PropagateCheck(c) \/ PropagateMember(c)
  BY <1>3, PropagateCheckFits, ReadFits, LineStays
     DEF PropagateCheck, PropagateMember, Reads, store
<1>4. CASE PropagateMake(c)
  BY <1>4, PropagateMakeFits, LineStays
<1>5. CASE VerifyMember(c)
  BY <1>5, VerifyMemberFits, ReadFits, LineStays DEF VerifyMember, store
<1> QED
  BY <1>1, <1>2, <1>3, <1>4, <1>5 DEF PublishStep

(* A step of an updater that announces nothing, in the same state.         *)
LEMMA QuietStep ==
  ASSUME Inv, Inv', Replaces, NEW line \in Seq(Dirs), LineOK(line),
         NEW c \in Clients,
         \/ \E d \in Dirs : AppendStart(c, d)
         \/ Step(c) /\ ~Announcing(c)
         \/ GiveUp(c)
  PROVE  LineOK(line)'
<1>1. CASE \E d \in Dirs : AppendStart(c, d)
  BY <1>1, AppendStartFits, ReadFits, LineStays DEF AppendStart, Reads, store
<1>2. CASE Step(c) /\ ~Announcing(c)
  BY <1>2, PrepareKeeps, AppendKeeps, PublishKeeps, NoDeletion DEF Step
<1>3. CASE GiveUp(c)
  BY <1>3, StopGoes, ReadFits, LineStays DEF GiveUp, Reads, store
<1> QED
  BY <1>1, <1>2, <1>3

LEMMA InitOneLine ==
  ASSUME Init
  PROVE  OneLine
<1> DEFINE line == <<Root>>
<1>1. line \in Seq(Dirs) /\ Len(line) = 1 /\ line[1] = Root
  BY RootAssumption
<1> HIDE DEF line
<1>2. IsLine(line) /\ Passed(line)
  BY <1>1 DEF IsLine, Passed
<1>3. StoreFits(line)
  BY AbsentFits DEF Init, StoreFits, OneStandalone, NoMarker
<1>4. ASSUME NEW c \in Clients PROVE LocalFits(pc[c], mem[c], line)
  <2>1. pc[c] = "idle" /\ mem[c] = NoMem
    BY DEF Init
  <2>2. LocalFits("idle", NoMem, line)
    BY AbsentFits, NoMemOK DEF NoMem, Seen, LocalFits, UpdaterOK
  <2> QED
    BY <2>1, <2>2
<1> QED
  BY <1>1, <1>2, <1>3, <1>4 DEF OneLine, LineOK

LEMMA LineUnchanged ==
  ASSUME NEW line, LineOK(line), UNCHANGED vars
  PROVE  LineOK(line)'
<1>1. ASSUME NEW c \in Clients PROVE LocalFits(pc[c], mem[c], line)'
  BY DEF vars, LineOK, LocalFits, Seen
<1> QED
  BY <1>1, ReadFits DEF vars, LineOK, Passed

LEMMA NextOneLine ==
  ASSUME Deleters = {}, Inv, Inv', Replaces, OneLine, [Next]_vars
  PROVE  OneLine'
<1>1. PICK line \in Seq(Dirs) : LineOK(line)
  BY DEF OneLine
<1>2. ASSUME NEW more, LineOK(more)' PROVE OneLine'
  BY <1>2 DEF OneLine, LineOK, IsLine
<1>3. ASSUME NEW c \in Clients, Start(c) \/ Step(c) PROVE OneLine'
  <2>1. PICK m : mem[c] = m
    OBVIOUS
  <2>2. CASE Announcing(c)
    BY <1>1, <1>2, <2>1, <2>2, AnnouncingGrows
  <2>3. CASE ~Announcing(c)
    BY <1>1, <1>2, <1>3, <2>3, QuietStep DEF Start
  <2> QED
    BY <2>2, <2>3
<1>4. ASSUME NEW c \in Retriers, GiveUp(c) PROVE OneLine'
  BY <1>1, <1>2, <1>4, RetriersAssumption, QuietStep
<1>5. ASSUME NEW put \in late, DeliverLate(put) PROVE OneLine'
  <2>1. LateFits(put, line)
    BY <1>1 DEF LineOK, StoreFits
  <2>2. PICK x \in Dirs : Extends(put.dir, put.match, x, put.body)
    BY <2>1 DEF LateFits
  <2> QED
    BY <1>1, <1>2, <1>5, <2>2, DeliverLateFits
<1>6. ASSUME UNCHANGED vars PROVE OneLine'
  BY <1>1, <1>2, <1>6, LineUnchanged
<1> QED
  BY <1>3, <1>4, <1>5, <1>6 DEF Next

(* In every reachable state all indexes of the document, stored, held by a *)
(* writer or on their way, are beginnings of one line of directories.      *)
THEOREM OneLineHolds ==
  ASSUME Deleters = {}
  PROVE  Spec => []OneLine
<1>1. Inv /\ OneLine /\ [Next]_vars => OneLine'
  BY NextInv, NextOneLine
<1> QED
  BY <1>1, InitOneLine, InvariantHolds, PTL DEF Spec

(* However many writers race, a revision number belongs to one upload for  *)
(* ever, and only one of two first updates founds a chain (update.go, the  *)
(* conditional commit and reconcileRevisionAppendCommit).                  *)
THEOREM NumbersStayAssigned ==
  ASSUME Deleters = {}
  PROVE  Spec => []NumbersNeverReused
<1>1. ASSUME Inv, OneLine PROVE NumbersNeverReused
  <2>1. PICK line \in Seq(Dirs) : LineOK(line)
    BY <1>1 DEF OneLine
  <2>2. ASSUME NEW d \in Indexes
        PROVE  /\ vers[d].chain = line[2]
               /\ \A n \in DOMAIN vers[d].ents : vers[d].ents[n] = LiveEntry(line[n])
    <3>1. d \in Dirs /\ vers[d].kind = "index"
      BY DEF Indexes
    <3>2. vers[d] # Absent /\ vers[d] \in Bodies /\ Fits(vers[d], line) /\ IsLine(line)
      BY <1>1, <2>1, <3>1, LoadFits, BodyTypes DEF LineOK
    <3>3. DOMAIN vers[d].ents = 1..Len(vers[d].ents)
      BY <3>2, FitsParts
    <3> QED
      BY <3>2, <3>3 DEF Fits
  <2> QED
    BY <2>2 DEF NumbersNeverReused
<1> QED
  BY <1>1, InvariantHolds, OneLineHolds, PTL

(* However many writers race, of any two indexes of the document one has   *)
(* been through the other's state (SPEC.md, "canonical" index and the      *)
(* conditional writes of propagateVersionsMetadata).                       *)
THEOREM ReplicasInOrder ==
  ASSUME Deleters = {}
  PROVE  Spec => []ReplicasOrdered
<1>1. ASSUME Inv, OneLine PROVE ReplicasOrdered
  <2>1. PICK line \in Seq(Dirs) : LineOK(line)
    BY <1>1 DEF OneLine
  <2>2. ASSUME NEW d \in Indexes
        PROVE  /\ Len(vers[d].ents) \in Nat
               /\ DOMAIN vers[d].ents = 1..Len(vers[d].ents)
               /\ \A n \in 1..Len(vers[d].ents) : vers[d].ents[n].dir = line[n]
    <3>1. d \in Dirs /\ vers[d].kind = "index"
      BY DEF Indexes
    <3>2. vers[d] # Absent /\ vers[d] \in Bodies /\ Fits(vers[d], line) /\ IsLine(line)
      BY <1>1, <2>1, <3>1, LoadFits, BodyTypes DEF LineOK
    <3> QED
      BY <3>2, FitsParts
  <2>3. ASSUME NEW d \in Indexes, NEW e \in Indexes, Len(vers[d].ents) <= Len(vers[e].ents)
        PROVE  Behind(vers[d].ents, vers[e].ents)
    <3>1. ASSUME NEW n \in DOMAIN vers[d].ents PROVE vers[d].ents[n].dir = vers[e].ents[n].dir
      <4>1. n \in 1..Len(vers[d].ents) /\ n \in 1..Len(vers[e].ents)
        BY <2>2, <2>3
      <4> QED
        BY <2>2, <4>1
    <3> QED
      BY <2>3, <3>1 DEF Behind
  <2>4. ASSUME NEW d \in Indexes, NEW e \in Indexes
        PROVE  Len(vers[d].ents) <= Len(vers[e].ents) \/ Len(vers[e].ents) <= Len(vers[d].ents)
    BY <2>2
  <2> QED
    BY <2>3, <2>4 DEF ReplicasOrdered
<1> QED
  BY <1>1, InvariantHolds, OneLineHolds, PTL

(* However many writers race, the number an append is about to assign is   *)
(* new to every index of the chain as long as the member it was read from  *)
(* has not changed (versions.go, nextVersionsMetadata).                    *)
THEOREM NumbersAreFresh ==
  ASSUME Deleters = {}
  PROVE  Spec => []FreshNumber
<1>1. ASSUME Inv, OneLine PROVE FreshNumber
  <2>1. PICK line \in Seq(Dirs) : LineOK(line)
    BY <1>1 DEF OneLine
  <2> SUFFICES ASSUME NEW c \in Clients, pc[c] = "plan", mem[c].ldoc.vers # Absent,
                      vers[mem[c].ldoc.dir] = mem[c].ldoc.vers,
                      NEW d \in Indexes
               PROVE  vers[d].last <= mem[c].ldoc.vers.last
    BY DEF FreshNumber
  <2> DEFINE old == mem[c].ldoc.vers
             at == mem[c].ldoc.dir
  <2>2. mem[c] \in Mems /\ LocalOK("plan", mem[c]) /\ LocalFits("plan", mem[c], line) /\ IsLine(line)
    BY <1>1, <2>1, UpdaterAt DEF At
  <2>3. /\ old \in Bodies /\ old # Absent /\ Fits(old, line) /\ at \in Dirs
        /\ Decodes(old, at) /\ old.cur = Len(old.ents) /\ vers[at] = old
    BY <2>2, MemFields, DocFields
       DEF LocalOK, DocsOK, DocOK, AppendOK, LocalFits, UpdaterOK, Ready
  <2>4. d \in Dirs /\ vers[d] # Absent /\ vers[d] \in Bodies /\ Fits(vers[d], line)
    BY <1>1, <2>1, LoadFits, BodyTypes DEF Indexes
  <2> HIDE DEF old, at
  <2> DEFINE k == Len(old.ents)
             l == Len(vers[d].ents)
             len == Len(line)
  <2>5. k \in Nat /\ k >= 2 /\ k <= len /\ old.last = k /\ at = line[k]
    BY <2>2, <2>3, FitsParts DEF Fits
  <2>6. l \in Nat /\ l <= len /\ vers[d].last = l /\ len \in Nat
    BY <2>2, <2>4, FitsParts DEF Fits, IsLine
  <2> HIDE DEF k, l, len
  <2>7. ASSUME l > k PROVE FALSE
    <3>1. k \in 1..(len - 1)
      BY <2>5, <2>6, <2>7
    <3>2. Len(vers[line[k]].ents) > k
      BY <2>1, <3>1 DEF LineOK, Passed, len
    <3>3. Len(vers[line[k]].ents) = k
      BY <2>3, <2>5 DEF k
    <3> QED
      BY <2>5, <3>2, <3>3
  <2> QED
    BY <2>5, <2>6, <2>7 DEF old
<1> QED
  BY <1>1, InvariantHolds, OneLineHolds, PTL
-----------------------------------------------------------------------------
(***************************************************************************)
(* What becomes of the candidates: as long as no cleanup claim has been    *)
(* won, a candidate that is rolled back is announced by no index, then or  *)
(* later, and a revision that is announced is there, complete, and listed  *)
(* by every member once it has been reported.                              *)
(*                                                                         *)
(* The argument: a writer that looks for its commit at the member it was   *)
(* sent to sees it, or anything later, because the index there only grows. *)
(* What it sees after a conflict, or after its retry met an index, is      *)
(* final: every request that may still announce its candidate is           *)
(* conditional on an index that is no longer there.  Marker and payload    *)
(* are written before the commit and taken back only from such a lost      *)
(* candidate.  What the verification has seen of a member stays true.      *)
(***************************************************************************)

(* x is a revision of the line.                                            *)
Told(x, line) == \E n \in 1..Len(line) : line[n] = x

(* What an index lists last: of a commit request, the candidate.           *)
Ends(b) == b.ents[Len(b.ents)].dir

(* A request that comes too late: the index it is conditional on has grown.*)
Spent(put) ==
  /\ vers[put.dir] # Absent
  /\ put.match # Absent => Len(vers[put.dir].ents) > Len(put.match.ents)

(* Nothing can announce x any more, and nothing has.                       *)
Lost(x) == \A put \in late : Ends(put.body) = x => Spent(put)
Dead(x, line) == ~Told(x, line) /\ Lost(x)

(* What the writer in state m at p knows of its candidate.                 *)
Open(m, line) ==
  /\ Told(m.cand, line) => Fits(m.meta, line)
  /\ \A put \in late :
       Ends(put.body) = m.cand => put.dir = m.ser /\ put.match = m.ldoc.vers
Unsent(m, line) == ~Told(m.cand, line) /\ \A put \in late : Ends(put.body) # m.cand
Planning(p, m) == p \in {"plan", "payload", "commit"} \/ (p \in Promoting /\ m.ret = "plan")

Fate(p, m, line) ==
  /\ Planning(p, m) => ~m.conflict
  /\ p \in {"payload", "commit"} => Unsent(m, line)
  /\ p \in Pending => Open(m, line)
  /\ p = "recRead" /\ m.conflict => Lost(m.cand)
  /\ p = "recCand" /\ m.conflict => Dead(m.cand, line)
  /\ p = "recCand" /\ m.obs = Absent => m.ldoc.vers = Absent
  /\ p \in {"recRetry", "recReread"} => m.ldoc.vers = Absent
  /\ p = "recReread" => vers[m.ser] # Absent
  /\ p \in Undone => Dead(m.cand, line)
  /\ p \in Uncommitted => m.cand \in used

Apart ==
  \A c, e \in Clients :
    c # e /\ pc[c] \in Uncommitted /\ pc[e] \in Uncommitted => mem[c].cand # mem[e].cand

Buried(x, line) ==
  /\ x \in used /\ Dead(x, line)
  /\ \A c \in Clients : pc[c] \in Pending => mem[c].cand # x

FatesOK(line) ==
  /\ \A n \in 1..Len(line) : line[n] \in used
  /\ \A put \in late : Ends(put.body) \in used
  /\ \A c \in Clients : Fate(pc[c], mem[c], line)
  /\ Apart
  /\ \A x \in cleaned : Buried(x, line)

-----------------------------------------------------------------------------
(* What a step leaves as it is.                                            *)

LEMMA LateParts ==
  ASSUME Inv, NEW line, LineOK(line), NEW put \in late
  PROVE  /\ put.dir \in Dirs /\ put.match \in Bodies /\ put.body \in Bodies
         /\ LateFits(put, line)
         /\ put.match # Absent => Len(put.match.ents) \in Nat
<1>1. put.dir \in Dirs /\ put.match \in Bodies /\ put.body \in Bodies /\ LateFits(put, line)
  BY DEF Inv, TypeOK, LatePuts, LineOK, StoreFits
<1> QED
  BY <1>1, BodyFields, EntryTypes

(* A request that has come too late comes too late for ever.               *)
LEMMA SpentStays ==
  ASSUME Inv, Inv', Replaces, NEW line, LineOK(line), NEW more, LineOK(more)',
         NEW put \in late, Spent(put)
  PROVE  Spent(put)'
<1>1. put.dir \in Dirs /\ (put.match # Absent => Len(put.match.ents) \in Nat)
  BY LateParts
<1>2. vers'[put.dir] # Absent /\ Len(vers'[put.dir].ents) >= Len(vers[put.dir].ents)
  BY <1>1, IndexesGrow DEF LineOK, Spent
<1>3. Len(vers[put.dir].ents) \in Nat /\ Len(vers'[put.dir].ents) \in Nat
  <2>1. vers[put.dir] \in Bodies /\ vers'[put.dir] \in Bodies
    BY <1>1 DEF Inv, TypeOK
  <2> QED
    BY <2>1, BodyFields, EntryTypes
<1> QED
  BY <1>1, <1>2, <1>3 DEF Spent

(* If x has been announced just now, then by this request.                 *)
News(x, line, more) ==
  Told(x, more) => Told(x, line) \/ \E put \in late : Ends(put.body) = x /\ ~Spent(put)

(* What a writer knows stays true while others step.                       *)
LEMMA FateStays ==
  ASSUME Inv, Inv', Replaces, NEW line \in Seq(Dirs), LineOK(line),
         NEW more \in Seq(Dirs), LineOK(more)', Longer(more, line), used \subseteq used',
         NEW p, NEW m \in Mems, Fate(p, m, line),
         p \in Pending => m.ser \in Dirs,
         p \in Uncommitted => News(m.cand, line, more),
         p \in Pending => (Told(m.cand, more) => Told(m.cand, line) \/ Fits(m.meta, more)),
         p \in Uncommitted => \A put \in late' : Ends(put.body) = m.cand => put \in late
  PROVE  Fate(p, m, more)'
<1>1. IsLine(line) /\ IsLine(more) /\ m.meta \in Bodies
  BY MemFields DEF LineOK
<1>2. p \in Uncommitted /\ Lost(m.cand) => Lost(m.cand)'
  BY SpentStays DEF Lost
<1>3. p \in Uncommitted /\ Dead(m.cand, line) => Dead(m.cand, more)'
  BY <1>2 DEF Dead, News, Lost, Told
<1>4. p \in {"payload", "commit"} /\ Unsent(m, line) => Unsent(m, more)'
  BY DEF Unsent, News, Told
<1>5. p \in Pending /\ Open(m, line) => Open(m, more)'
  <2>1. Fits(m.meta, line) => Fits(m.meta, more)
    BY <1>1, LongerFits
  <2>2. p \in Pending => (Told(m.cand, more) => Told(m.cand, line) \/ Fits(m.meta, more))
    OBVIOUS
  <2> QED
    BY <2>1, <2>2 DEF Open, Told, Fits
<1>6. p = "recReread" /\ vers[m.ser] # Absent => vers'[m.ser] # Absent
  BY <1>1, IndexesGrow DEF LineOK
<1> QED
  BY <1>2, <1>3, <1>4, <1>5, <1>6 DEF Fate, Planning

-----------------------------------------------------------------------------
(* A step of one writer, from label at and locals old to p and m.          *)

(* Only its own candidate is announced, or put into a request.             *)
Speaks(at, old, line, more) ==
  /\ \A x : Told(x, more) => Told(x, line) \/ (at \in Pending /\ x = old.cand)
  /\ \A put \in late' : put \in late \/ (at \in Pending /\ Ends(put.body) = old.cand)

(* Its candidate is the one it had, or a fresh directory.                  *)
Keeps(at, old, p, m) ==
  p \in Uncommitted =>
    \/ m.cand \notin used
    \/ m.cand = old.cand /\ at \in Uncommitted /\ (p \in Pending => at \in Pending)

(* It takes nothing away but its own candidate.                            *)
Buries(at, old, p) ==
  \/ cleaned' = cleaned
  \/ cleaned' = cleaned \cup {old.cand} /\ at = "rbPayload" /\ p = "rbMarker"

LEMMA OthersFate ==
  ASSUME Inv, Inv', Replaces, NEW line \in Seq(Dirs), LineOK(line), FatesOK(line),
         NEW more \in Seq(Dirs), LineOK(more)', Longer(more, line),
         NEW c \in Clients, NEW at, NEW old, pc[c] = at, mem[c] = old,
         used \subseteq used', Speaks(at, old, line, more),
         NEW e \in Clients, e # c, NEW p, NEW m, pc[e] = p, mem[e] = m
  PROVE  Fate(p, m, more)'
<1>1. m \in Mems /\ (p \in Pending => m.ser \in Dirs)
  BY PendingAt DEF At, Inv, TypeOK
<1>2. Fate(p, m, line)
  BY DEF FatesOK
<1>3. at \in Pending /\ p \in Uncommitted => m.cand # old.cand
  BY DEF FatesOK, Apart
<1>4. p \in Uncommitted => (Told(m.cand, more) => Told(m.cand, line))
  BY <1>3 DEF Speaks
<1>5. p \in Uncommitted => \A put \in late' : Ends(put.body) = m.cand => put \in late
  BY <1>3 DEF Speaks
<1>6. p \in Uncommitted => News(m.cand, line, more)
  BY <1>4 DEF News
<1> QED
  BY <1>1, <1>2, <1>4, <1>5, <1>6, FateStays

(* The step keeps everybody's fate if the writer that makes it knows what  *)
(* becomes of its own candidate.                                           *)
LEMMA MoverKeeps ==
  ASSUME Inv, Inv', Replaces, NEW line \in Seq(Dirs), LineOK(line), FatesOK(line),
         NEW more \in Seq(Dirs), LineOK(more)', Longer(more, line),
         NEW c \in Clients, NEW at, NEW old, pc[c] = at, mem[c] = old,
         NEW p, NEW m, Goto(c, p, m), Fate(p, m, more)',
         used \subseteq used', Speaks(at, old, line, more), Keeps(at, old, p, m),
         Buries(at, old, p)
  PROVE  FatesOK(more)'
<1>1. pc \in [Clients -> Labels] /\ mem \in [Clients -> Mems]
  BY DEF Inv, TypeOK
<1>2. /\ pc'[c] = p /\ mem'[c] = m
      /\ \A e \in Clients : e # c => pc'[e] = pc[e] /\ mem'[e] = mem[e]
  BY <1>1 DEF Goto
<1>3. at \in Uncommitted => old.cand \in used
  BY DEF FatesOK, Fate
<1>4. \A n \in 1..Len(more) : more[n] \in used'
  BY <1>3 DEF FatesOK, Speaks, Told
<1>5. \A put \in late' : Ends(put.body) \in used'
  BY <1>3 DEF FatesOK, Speaks
<1>6. ASSUME NEW e \in Clients PROVE Fate(pc[e], mem[e], more)'
  <2>1. CASE e = c
    BY <1>2, <2>1
  <2>2. CASE e # c
    <3>1. PICK q, n : pc[e] = q /\ mem[e] = n
      OBVIOUS
    <3>2. Fate(q, n, more)'
      BY <2>2, <3>1, OthersFate
    <3> QED
      BY <1>2, <2>2, <3>1, <3>2
  <2> QED
    BY <2>1, <2>2
<1>7. Apart'
  <2>1. ASSUME NEW e \in Clients, e # c, p \in Uncommitted, pc[e] \in Uncommitted
        PROVE  mem[e].cand # m.cand
    <3>1. mem[e].cand \in used
      BY <2>1 DEF FatesOK, Fate
    <3>2. at \in Uncommitted => mem[e].cand # old.cand
      BY <2>1 DEF FatesOK, Apart
    <3> QED
      BY <2>1, <3>1, <3>2 DEF Keeps
  <2>2. \A d, e \in Clients : d # c /\ e # c => (pc'[d] = pc[d] /\ mem'[d] = mem[d] /\ pc'[e] = pc[e] /\ mem'[e] = mem[e])
    BY <1>2
  <2>3. Apart
    BY DEF FatesOK
  <2> QED
    BY <1>2, <2>1, <2>2, <2>3 DEF Apart
<1>8. ASSUME NEW x \in cleaned PROVE Buried(x, more)'
  <2>1. x \in used /\ Dead(x, line) /\ (at \in Pending => old.cand # x)
    BY DEF FatesOK, Buried
  <2>2. Dead(x, more)'
    <3>1. ~Told(x, more)
      BY <2>1 DEF Speaks, Dead
    <3>2. \A put \in late' : Ends(put.body) = x => put \in late
      BY <2>1 DEF Speaks
    <3>3. Lost(x)'
      BY <2>1, <3>2, SpentStays DEF Dead, Lost
    <3> QED
      BY <3>1, <3>3 DEF Dead, Told
  <2>3. ASSUME NEW e \in Clients, pc'[e] \in Pending PROVE mem'[e].cand # x
    <3>1. CASE e = c
      BY <1>2, <2>1, <2>3, <3>1 DEF Keeps
    <3>2. CASE e # c
      BY <1>2, <2>3, <3>2 DEF FatesOK, Buried
    <3> QED
      BY <3>1, <3>2
  <2> QED
    BY <2>1, <2>2, <2>3 DEF Buried
<1>9. ASSUME at = "rbPayload", p = "rbMarker" PROVE Buried(old.cand, more)'
  <2>1. old.cand \in used /\ Dead(old.cand, line)
    BY <1>9 DEF FatesOK, Fate
  <2>2. Dead(old.cand, more)'
    <3>1. ~Told(old.cand, more)
      BY <1>9, <2>1 DEF Speaks, Dead
    <3>2. \A put \in late' : put \in late
      BY <1>9 DEF Speaks
    <3>3. Lost(old.cand)'
      BY <2>1, <3>2, SpentStays DEF Dead, Lost
    <3> QED
      BY <3>1, <3>3 DEF Dead, Told
  <2>3. ASSUME NEW e \in Clients, pc'[e] \in Pending PROVE mem'[e].cand # old.cand
    <3>1. e # c
      BY <1>2, <1>9, <2>3
    <3> QED
      BY <1>2, <1>9, <2>3, <3>1 DEF FatesOK, Apart
  <2> QED
    BY <2>1, <2>2, <2>3 DEF Buried
<1>10. \A x \in cleaned' : Buried(x, more)'
  BY <1>8, <1>9 DEF Buries
<1> QED
  BY <1>4, <1>5, <1>6, <1>7, <1>10 DEF FatesOK

-----------------------------------------------------------------------------
(* Steps to a label where no candidate is at stake.                        *)

Free(p, m) == p \notin Uncommitted /\ (Planning(p, m) => ~m.conflict)
GoesFree(c) == \E p, m : Goto(c, p, m) /\ Free(p, m)

LEMMA FreeGo ==
  ASSUME NEW c, NEW p, NEW m, Goto(c, p, m), Free(p, m)
  PROVE  GoesFree(c)
BY DEF GoesFree

LEMMA FreeMoves ==
  ASSUME Inv, Inv', Replaces, NEW line \in Seq(Dirs), LineOK(line), FatesOK(line), LineOK(line)',
         NEW c \in Clients, GoesFree(c), UNCHANGED <<late, used, cleaned>>
  PROVE  FatesOK(line)'
<1>1. PICK p, m : Goto(c, p, m) /\ Free(p, m)
  BY DEF GoesFree
<1>2. PICK at, old : pc[c] = at /\ mem[c] = old
  OBVIOUS
<1>3. Fate(p, m, line)'
  BY <1>1 DEF Free, Fate, Planning
<1>4. Speaks(at, old, line, line) /\ Keeps(at, old, p, m) /\ Buries(at, old, p)
  BY <1>1 DEF Speaks, Keeps, Buries, Free
<1>5. Longer(line, line) /\ used \subseteq used'
  BY DEF Longer
<1> QED
  BY <1>1, <1>2, <1>3, <1>4, <1>5, MoverKeeps

LEMMA StopFree ==
  ASSUME NEW c, Stop(c)
  PROVE  GoesFree(c)
<1>1. Free("idle", NoMem)
  BY DEF Free, Planning
<1> QED
  BY <1>1, FreeGo DEF Stop

LEMMA PreparedFree ==
  ASSUME NEW c, NEW m, Prepared(c, m)
  PROVE  GoesFree(c)
<1> DEFINE n == [NoMem EXCEPT !.op = "append", !.ldoc = m.ldoc]
           q == [n EXCEPT !.rdoc = m.tdoc, !.ret = "plan"]
<1>1. n.conflict = FALSE /\ q.conflict = FALSE
  BY DEF NoMem
<1>2. Goto(c, "plan", n) \/ Goto(c, "promMarker", q)
  BY DEF Prepared, Promote
<1> HIDE DEF n, q
<1>3. Free("plan", n) /\ Free("promMarker", q)
  BY <1>1 DEF Free
<1> QED
  BY <1>2, <1>3, FreeGo

LEMMA OnwardFree ==
  ASSUME NEW c, NEW m, Onward(c, m)
  PROVE  GoesFree(c)
<1>1. \A p \in {"read", "follow"}, n \in {m, [NoMem EXCEPT !.op = "delete", !.tdoc = m.tdoc]} :
        Free(p, n)
  BY DEF Free, Planning
<1> QED
  BY <1>1, FreeGo, PreparedFree DEF Onward

LEMMA LoadedFree ==
  ASSUME NEW c, NEW m0, NEW doc, Loaded(c, m0, doc)
  PROVE  GoesFree(c)
<1> DEFINE target == IF m0.op = "append" THEN doc ELSE [doc EXCEPT !.page = m0.tdoc.page]
           m == [m0 EXCEPT !.tdoc = target, !.ldoc = doc, !.rdoc = doc, !.ret = "reload"]
<1>1. Goto(c, "fixRead", m) \/ Goto(c, "page", m) \/ Goto(c, "first", m) \/ Onward(c, m)
  BY DEF Loaded
<1> HIDE DEF m
<1>2. Free("fixRead", m) /\ Free("page", m) /\ Free("first", m)
  BY DEF Free, Planning
<1> QED
  BY <1>1, <1>2, FreeGo, OnwardFree

LEMMA PropagateFree ==
  ASSUME NEW c, NEW m, NEW n, Propagate(c, m, n)
  PROVE  GoesFree(c)
<1>1. \E p \in {"propRead", "verify"} : \E q : Goto(c, p, q)
  BY DEF Propagate
<1>2. \A p \in {"propRead", "verify"} : \A q : Free(p, q)
  BY DEF Free, Planning
<1> QED
  BY <1>1, <1>2, FreeGo

(* A writer whose commit took effect has nothing at stake any more.        *)
LEMMA CommittedFree ==
  ASSUME NEW c, NEW m \in Mems, NEW b, Committed(c, m, b)
  PROVE  GoesFree(c)
<1> DEFINE won == [m EXCEPT !.meta = [b EXCEPT !.cur = m.meta.cur], !.obs = Absent, !.conflict = FALSE]
           first == [m.ldoc EXCEPT !.vers = b]
           q == [won EXCEPT !.rdoc = first, !.ret = "newIndex"]
<1>1. Goto(c, "promMarker", q) \/ Goto(c, "newIndex", won)
  BY DEF Committed, Promote
<1>2. q.ret = "newIndex"
  <2> HIDE DEF first
  <2> QED
    BY DEF Mems
<1> HIDE DEF won, q
<1>3. Free("promMarker", q) /\ Free("newIndex", won)
  BY <1>2 DEF Free, Planning
<1> QED
  BY <1>1, <1>3, FreeGo

(* The steps before an append is planned.                                  *)
LEMMA PrepareFree ==
  ASSUME Inv, NEW line, LineOK(line), FatesOK(line), NEW c \in Clients, PrepareStep(c)
  PROVE  GoesFree(c) /\ UNCHANGED <<late, used, cleaned>>
<1> DEFINE m == mem[c]
<1>1. \A p : At(c, p) => LocalOK(p, m) /\ Fate(p, m, line)
  BY UpdaterAt DEF FatesOK, At
<1>2. ASSUME NEW p \in {"page", "fixPut"}, At(c, p), Goto(c, m.ret, m) PROVE GoesFree(c)
  <2>1. m.ret \in {"reload", "first", "follow"}
    BY <1>1, <1>2 DEF LocalOK, ReturnsOK
  <2>2. Free(m.ret, m)
    BY <2>1 DEF Free, Planning
  <2> QED
    BY <1>2, <2>2, FreeGo
<1>3. CASE Reload(c)
  BY <1>3, LoadedFree DEF Reload, Reads, store
<1>4. CASE RepairPage(c)
  BY <1>2, <1>4 DEF RepairPage
<1>5. CASE First(c)
  <2>1. ASSUME NEW q, NEW p \in {"promMarker", "page"}, q.ret = "first", Goto(c, p, q) PROVE GoesFree(c)
    BY <2>1, FreeGo DEF Free, Planning
  <2> DEFINE q(doc) == [m EXCEPT !.rdoc = doc, !.ret = "first"]
             doc == Load(m.tdoc.marker.prev)
  <2>2. q(doc).ret = "first"
    <3>1. m \in Mems
      BY DEF Inv, TypeOK
    <3> HIDE DEF m, doc
    <3> QED
      BY <3>1 DEF Mems
  <2>3. Goto(c, "promMarker", q(doc)) \/ Goto(c, "page", q(doc)) \/ Onward(c, m)
    BY <1>5 DEF First, Promote
  <2> HIDE DEF q, doc
  <2>4. GoesFree(c)
    BY <2>1, <2>2, <2>3, OnwardFree
  <2> QED
    BY <1>5, <2>4 DEF First, Reads, store
<1>6. CASE Follow(c)
  <2>1. ASSUME NEW q, NEW p \in {"fixPut", "page", "follow"}, Goto(c, p, q) PROVE GoesFree(c)
    BY <2>1, FreeGo DEF Free, Planning
  <2> QED
    BY <1>6, <2>1, PreparedFree DEF Follow, Reads, store
<1>7. CASE FixRead(c) \/ FixReceipt(c) \/ FixWitness(c)
  <2>1. ASSUME NEW q, NEW p \in {"fixPut", "fixReceipt", "fixWitness"}, Goto(c, p, q) PROVE GoesFree(c)
    BY <2>1, FreeGo DEF Free, Planning
  <2> QED
    BY <1>7, <2>1 DEF FixRead, FixReceipt, FixWitness, Reads, store
<1>8. CASE FixPut(c)
  BY <1>2, <1>8 DEF FixPut
<1>9. CASE PromoteMarker(c)
  <2>1. Free("promPage", m)
    BY <1>1, <1>9 DEF PromoteMarker, Fate, Free, Planning
  <2> QED
    BY <1>9, <2>1, FreeGo DEF PromoteMarker
<1>10. CASE PromotePage(c)
  <2>1. Free("promVerify", m)
    BY <1>1, <1>10 DEF PromotePage, Fate, Free, Planning
  <2> QED
    BY <1>10, <2>1, FreeGo DEF PromotePage
<1>11. CASE PromoteVerify(c)
  <2>1. m.ret \in {"first", "plan", "newIndex"} /\ (m.ret = "plan" => ~m.conflict)
    BY <1>1, <1>11 DEF PromoteVerify, Fate, Planning, LocalOK, ReturnsOK
  <2>2. m.ret \in {"plan", "newIndex"} => Free(m.ret, m)
    BY <2>1 DEF Free, Planning
  <2> QED
    BY <1>11, <2>1, <2>2, FreeGo, OnwardFree DEF PromoteVerify, Return, Reads, store
<1> QED
  BY <1>3, <1>4, <1>5, <1>6, <1>7, <1>8, <1>9, <1>10, <1>11 DEF PrepareStep

(* The steps that publish an index, and those that end an operation.       *)
LEMMA PublishFree ==
  ASSUME NEW c, \/ PublishStep(c) \/ NewIndex(c) \/ PlanUnchanged(c) \/ GiveUp(c)
                \/ RollbackMarker(c) \/ \E d \in Dirs : AppendStart(c, d)
  PROVE  GoesFree(c) /\ UNCHANGED <<late, used, cleaned>>
<1>1. ASSUME NEW q, NEW p \in {"propPut", "propCheck", "propMember", "propMake", "verify", "rmPayload", "receipt"},
             Goto(c, p, q)
      PROVE  GoesFree(c)
  BY <1>1, FreeGo DEF Free, Planning
<1>2. CASE PropagateRead(c) \/ PropagatePut(c) \/ PropagateCheck(c) \/ PropagateMember(c) \/ PropagateMake(c)
  BY <1>1, <1>2, PropagateFree
     DEF PropagateRead, PropagatePut, PropagateCheck, PropagateMember, PropagateMake, Reads, store
<1>3. CASE VerifyMember(c)
  BY <1>1, <1>3, StopFree DEF VerifyMember, store
<1>4. CASE NewIndex(c) \/ PlanUnchanged(c)
  BY <1>4, PropagateFree DEF NewIndex, PlanUnchanged, Reads, store
<1>5. CASE GiveUp(c) \/ RollbackMarker(c)
  BY <1>5, StopFree DEF GiveUp, RollbackMarker, Reads, store
<1>6. CASE \E d \in Dirs : AppendStart(c, d)
  BY <1>6, LoadedFree DEF AppendStart, Reads, store
<1> QED
  BY <1>2, <1>3, <1>4, <1>5, <1>6 DEF PublishStep

-----------------------------------------------------------------------------
(* Steps of a writer whose candidate is at stake.                          *)

(* What it knows survives its own step too, if that sends no request.      *)
LEMMA OwnStays ==
  ASSUME Inv, Inv', Replaces, NEW line \in Seq(Dirs), LineOK(line), FatesOK(line), LineOK(line)',
         NEW c \in Clients, NEW p, NEW m, pc[c] = p, mem[c] = m, late' = late, used \subseteq used'
  PROVE  Fate(p, m, line)'
<1>1. m \in Mems /\ (p \in Pending => m.ser \in Dirs)
  BY PendingAt DEF At, Inv, TypeOK
<1>2. Fate(p, m, line) /\ Longer(line, line) /\ News(m.cand, line, line)
  BY DEF FatesOK, News, Longer
<1> QED
  BY <1>1, <1>2, FateStays

LEMMA QuietMove ==
  ASSUME Inv, Inv', Replaces, NEW line \in Seq(Dirs), LineOK(line), FatesOK(line), LineOK(line)',
         NEW c \in Clients, NEW p \in Uncommitted, NEW m, pc[c] = p, mem[c] = m,
         NEW q \in Uncommitted, NEW n, Goto(c, q, n), Fate(q, n, line)', n.cand = m.cand,
         q \in Pending => p \in Pending, UNCHANGED <<late, used, cleaned>>
  PROVE  FatesOK(line)'
<1>1. Speaks(p, m, line, line) /\ Keeps(p, m, q, n) /\ Buries(p, m, q) /\ Longer(line, line)
  BY DEF Speaks, Keeps, Buries, Longer
<1> QED
  BY <1>1, MoverKeeps

(* The index a commit is sent to, once it lists the candidate, shows it.   *)
LEMMA ToldIsShown ==
  ASSUME Inv, NEW line \in Seq(Dirs), LineOK(line),
         NEW c \in Clients, NEW p \in Pending, At(c, p), NEW m, mem[c] = m,
         Fits(m.meta, line)
  PROVE  ShowsCommit(m, vers[m.ser], m.ser)
<1> DEFINE k == Len(m.meta.ents)
           body == vers[m.ser]
           old == m.ldoc.vers
<1>1. /\ m \in Mems /\ IsLine(line) /\ m.ser \in Dirs /\ m.cand \in Dirs
      /\ m.meta \in Bodies /\ m.meta # Absent /\ Extends(m.ser, old, m.cand, m.meta)
      /\ m.meta.cur = k /\ old \in Bodies /\ Fits(old, line)
  BY PendingAt, BodyTypes DEF LocalFits, UpdaterOK, Extends
<1>2. /\ k \in Nat /\ k >= 2 /\ k <= Len(line) /\ Len(line) \in Nat
      /\ \A n \in 1..k : m.meta.ents[n] = LiveEntry(line[n])
      /\ m.meta.chain = line[2] /\ DOMAIN m.meta.ents = 1..k
  BY <1>1, FitsParts DEF Fits, IsLine
<1>3. m.ser = line[k - 1] /\ m.meta.ents[k].dir = m.cand
  <2>1. CASE old = Absent
    <3>1. m.ser = Root /\ m.meta.ents = AppendEntry(<<LiveEntry(Root)>>, m.cand)
      BY <1>1, <2>1 DEF Extends
    <3>2. LiveEntry(Root) \in Entries /\ LiveEntry(m.cand).dir = m.cand
      BY <1>1, RootAssumption DEF LiveEntry, Entries
    <3>3. k = 2 /\ m.meta.ents[2] = LiveEntry(m.cand)
      BY <1>1, <3>1, <3>2, TwoEntries
    <3> QED
      BY <1>1, <3>1, <3>2, <3>3 DEF IsLine
  <2>2. CASE old # Absent
    <3>1. /\ Decodes(old, m.ser) /\ old.cur = Len(old.ents)
          /\ m.meta.ents = Append(old.ents, LiveEntry(m.cand))
      BY <1>1, <2>2 DEF Extends, AppendEntry
    <3>2. old.ents \in Seq(Entries) /\ Len(old.ents) \in Nat /\ m.ser = line[old.cur]
      BY <1>1, <2>2, <3>1, FitsParts
    <3>3. LiveEntry(m.cand) \in Entries /\ LiveEntry(m.cand).dir = m.cand
      BY <1>1 DEF LiveEntry, Entries
    <3> DEFINE l == Len(old.ents)
    <3>4. k = l + 1 /\ m.meta.ents[l + 1] = LiveEntry(m.cand)
      BY <3>1, <3>2, <3>3, AppendProperties
    <3>5. l \in Nat /\ old.cur = l
      BY <3>1, <3>2
    <3> HIDE DEF k, l
    <3>6. k - 1 = l
      BY <3>4, <3>5
    <3> QED
      BY <3>2, <3>3, <3>4, <3>5, <3>6
  <2> QED
    BY <2>1, <2>2
<1> HIDE DEF k
<1>4. k - 1 \in 1..(Len(line) - 1)
  BY <1>2
<1>5. body # Absent /\ Len(body.ents) > k - 1
  BY <1>3, <1>4 DEF LineOK, Passed
<1>6. body \in Bodies /\ Fits(body, line) /\ Decodes(body, m.ser)
  BY <1>1, <1>5, LoadFits DEF LineOK, StoreFits
<1> HIDE DEF body
<1>7. /\ Len(body.ents) \in Nat /\ body.chain = line[2]
      /\ \A n \in 1..Len(body.ents) : body.ents[n] = LiveEntry(line[n])
      /\ \A n : IsLive(body.ents, n) <=> n \in 1..Len(body.ents)
  BY <1>1, <1>5, <1>6, FitsParts DEF Fits
<1> DEFINE l == Len(body.ents)
<1>8. l \in Nat /\ l >= k
  BY <1>2, <1>5, <1>7
<1> HIDE DEF l
<1>9. k \in 1..l /\ \A n \in 1..k : n \in 1..l
  BY <1>2, <1>8
<1>10. IsLive(body.ents, k) /\ body.ents[k].dir = m.cand
  <2>1. k \in 1..k
    BY <1>2
  <2>2. body.ents[k] = m.meta.ents[k]
    BY <1>2, <1>7, <1>9, <2>1 DEF l
  <2> QED
    BY <1>3, <1>7, <1>9, <2>2 DEF l
<1>11. Precedes(m.meta, body)
  <2>1. \A n \in 1..k : m.meta.ents[n] = body.ents[n]
    BY <1>2, <1>7, <1>9 DEF l
  <2> QED
    BY <1>2, <1>7, <1>8, <2>1 DEF Precedes, EntsPrecede, k, l
<1> QED
  BY <1>1, <1>6, <1>10, <1>11 DEF ShowsCommit, body

(* The request of an append announces its candidate, at the latest member. *)
LEMMA ExtendsEnds ==
  ASSUME NEW d, NEW old \in Bodies, NEW x \in Dirs, NEW b \in Bodies, Extends(d, old, x, b)
  PROVE  b.ents[Len(b.ents)].dir = x
<1>1. LiveEntry(x) \in Entries /\ LiveEntry(x).dir = x
  BY DEF LiveEntry, Entries
<1>2. CASE old = Absent
  <2>1. LiveEntry(Root) \in Entries
    BY RootAssumption DEF LiveEntry, Entries
  <2> QED
    BY <1>1, <1>2, <2>1, TwoEntries DEF Extends
<1>3. CASE old # Absent
  <2>1. old.ents \in Seq(Entries) /\ b.ents = Append(old.ents, LiveEntry(x))
    BY <1>3, BodyFields, EntryTypes DEF Extends, AppendEntry
  <2>2. Len(b.ents) = Len(old.ents) + 1 /\ b.ents[Len(old.ents) + 1] = LiveEntry(x)
    BY <1>1, <2>1, AppendProperties
  <2> QED
    BY <1>1, <2>2
<1> QED
  BY <1>2, <1>3

LEMMA SerIsLatest ==
  ASSUME Inv, NEW line, LineOK(line), NEW c \in Clients, NEW p \in Pending, At(c, p),
         NEW m, mem[c] = m, m.ldoc.vers # Absent
  PROVE  m.ldoc.dir = m.ser
<1>1. m \in Mems /\ LocalOK(p, m) /\ LocalFits(p, m, line) /\ m.ldoc.vers \in Bodies
  BY PendingAt
<1>2. Decodes(m.ldoc.vers, m.ser)
  BY <1>1 DEF LocalFits, UpdaterOK, Extends
<1>3. Decodes(m.ldoc.vers, m.ldoc.dir)
  BY <1>1 DEF LocalOK, DocsOK, DocOK
<1> QED
  BY <1>2, <1>3 DEF Decodes

LEMMA PutMarkerKeeps ==
  ASSUME Inv, Inv', Replaces, NEW line \in Seq(Dirs), LineOK(line), FatesOK(line), LineOK(line)',
         NEW c \in Clients, NEW d \in Dirs, PutMarker(c, d)
  PROVE  FatesOK(line)'
<1>1. PICK m : mem[c] = m
  OBVIOUS
<1>2. /\ At(c, "plan") /\ m \in Mems /\ d \notin used /\ used' = used \cup {d}
      /\ UNCHANGED <<late, cleaned>>
      /\ \E chain, metadata, ser, skip :
           Goto(c, "payload", [m EXCEPT !.cand = d, !.meta = metadata, !.ser = ser, !.skip = skip])
  BY <1>1, UpdaterAt DEF PutMarker
<1>3. PICK metadata, ser, skip :
        Goto(c, "payload", [m EXCEPT !.cand = d, !.meta = metadata, !.ser = ser, !.skip = skip])
  BY <1>2
<1> DEFINE n == [m EXCEPT !.cand = d, !.meta = metadata, !.ser = ser, !.skip = skip]
<1>4. n.cand = d /\ n.conflict = m.conflict
  BY <1>2 DEF Mems
<1> HIDE DEF n
<1>5. ~m.conflict
  BY <1>1, <1>2 DEF FatesOK, Fate, Planning, At
<1>6. ~Told(d, line) /\ \A put \in late : Ends(put.body) # d
  BY <1>2 DEF FatesOK, Told
<1>7. Fate("payload", n, line)'
  <2>1. Unsent(n, line)' /\ Open(n, line)' /\ n.cand \in used'
    BY <1>2, <1>4, <1>6 DEF Unsent, Open, Told
  <2> QED
    BY <1>4, <1>5, <2>1 DEF Fate
<1>8. /\ Speaks("plan", m, line, line) /\ Keeps("plan", m, "payload", n)
      /\ Buries("plan", m, "payload") /\ Longer(line, line) /\ used \subseteq used'
  BY <1>2, <1>4 DEF Speaks, Keeps, Buries, Longer
<1> QED
  BY <1>1, <1>2, <1>3, <1>7, <1>8, MoverKeeps DEF At, n

LEMMA PutPayloadKeeps ==
  ASSUME Inv, Inv', Replaces, NEW line \in Seq(Dirs), LineOK(line), FatesOK(line), LineOK(line)',
         NEW c \in Clients, PutPayload(c) \/ PutPayloadFails(c)
  PROVE  FatesOK(line)'
<1>1. PICK m : mem[c] = m
  OBVIOUS
<1>2. PICK q \in {"commit", "rbPayload"} : Goto(c, q, m)
  BY <1>1 DEF PutPayload, PutPayloadFails
<1>3. At(c, "payload") /\ UNCHANGED <<late, used, cleaned>>
  BY DEF PutPayload, PutPayloadFails, Reads, store
<1>4. Fate("payload", m, line)'
  BY <1>1, <1>3, OwnStays DEF At
<1>5. Fate(q, m, line)'
  BY <1>4 DEF Fate, Planning, Unsent, Dead, Lost
<1> QED
  BY <1>1, <1>2, <1>3, <1>5, QuietMove DEF At

LEMMA CommitRefusedKeeps ==
  ASSUME Inv, Inv', Replaces, NEW line \in Seq(Dirs), LineOK(line), FatesOK(line), LineOK(line)',
         NEW c \in Clients, CommitRefused(c)
  PROVE  FatesOK(line)'
<1>1. PICK m : mem[c] = m
  OBVIOUS
<1> DEFINE n == [m EXCEPT !.conflict = TRUE]
<1>2. /\ At(c, "commit") /\ m \in Mems /\ Goto(c, "recRead", n) /\ UNCHANGED <<late, used, cleaned>>
  BY <1>1, UpdaterAt DEF CommitRefused, Reads, store
<1>3. n.cand = m.cand /\ n.ser = m.ser /\ n.ldoc = m.ldoc /\ n.meta = m.meta
  BY <1>2 DEF Mems
<1> HIDE DEF n
<1>4. Fate("commit", m, line)'
  BY <1>1, <1>2, OwnStays DEF At
<1>5. Fate("recRead", n, line)'
  BY <1>3, <1>4 DEF Fate, Planning, Unsent, Lost, Open
<1> QED
  BY <1>1, <1>2, <1>3, <1>5, QuietMove DEF At

LEMMA CommitUnknownKeeps ==
  ASSUME Inv, Inv', Replaces, NEW line \in Seq(Dirs), LineOK(line), FatesOK(line), LineOK(line)',
         NEW c \in Clients, CommitUnknown(c)
  PROVE  FatesOK(line)'
<1>1. PICK m : mem[c] = m
  OBVIOUS
<1> DEFINE body == CommitBody(m)
           new == [dir |-> m.ser, match |-> m.ldoc.vers, body |-> body]
<1>2. /\ At(c, "commit") /\ m \in Mems /\ Goto(c, "recRead", m)
      /\ late' = late \cup {new} /\ UNCHANGED <<used, cleaned>>
  BY <1>1, UpdaterAt DEF CommitUnknown
<1>3. Ends(body) = m.cand
  <2>1. /\ LocalFits("commit", m, line) /\ m.meta \in Bodies /\ m.cand \in Dirs
        /\ m.ldoc.vers \in Bodies /\ body.ents = m.meta.ents
    BY <1>1, <1>2, PendingAt, MemFields DEF CommitBody, IndexBody
  <2>2. Extends(m.ser, m.ldoc.vers, m.cand, m.meta)
    BY <2>1 DEF LocalFits, UpdaterOK
  <2> QED
    BY <2>1, <2>2, ExtendsEnds DEF Ends
<1> HIDE DEF body
<1>4. new.dir = m.ser /\ new.match = m.ldoc.vers /\ Ends(new.body) = m.cand
  BY <1>3
<1> HIDE DEF new
<1>5. Fate("commit", m, line)
  BY <1>1, <1>2 DEF FatesOK, At
<1>6. Fate("recRead", m, line)'
  <2>1. ~m.conflict /\ ~Told(m.cand, line) /\ \A put \in late : Ends(put.body) # m.cand
    BY <1>5 DEF Fate, Planning, Unsent
  <2>2. Open(m, line)'
    BY <1>2, <1>4, <2>1 DEF Open, Told
  <2>3. m.cand \in used'
    BY <1>2, <1>5 DEF Fate
  <2> QED
    BY <2>1, <2>2, <2>3 DEF Fate, Planning
<1>7. /\ Speaks("commit", m, line, line) /\ Keeps("commit", m, "recRead", m)
      /\ Buries("commit", m, "recRead") /\ Longer(line, line) /\ used \subseteq used'
  BY <1>2, <1>4 DEF Speaks, Keeps, Buries, Longer
<1> QED
  BY <1>1, <1>2, <1>6, <1>7, MoverKeeps DEF At

(* It sees its commit, or it learns that there is none.                    *)
LEMMA RecReadKeeps ==
  ASSUME Inv, Inv', Replaces, NEW line \in Seq(Dirs), LineOK(line), FatesOK(line), LineOK(line)',
         NEW c \in Clients, RecRead(c)
  PROVE  FatesOK(line)'
<1>1. PICK m : mem[c] = m
  OBVIOUS
<1>0. PICK body : body = vers[m.ser]
  OBVIOUS
<1> DEFINE n == [m EXCEPT !.obs = body]
<1>2. /\ At(c, "recRead") /\ m \in Mems /\ UNCHANGED <<late, used, cleaned, vers>>
      /\ m.ser \in Dirs /\ LocalFits("recRead", m, line) /\ IsLine(line) /\ m.ldoc.vers \in Bodies
  BY <1>1, PendingAt DEF RecRead, Reads, store
<1>3. CASE ShowsCommit(m, body, m.ser)
  BY <1>0, <1>1, <1>2, <1>3, CommittedFree, FreeMoves DEF RecRead
<1>4. CASE ~ShowsCommit(m, body, m.ser)
  <2>1. Goto(c, "recCand", n)
    BY <1>0, <1>1, <1>4 DEF RecRead
  <2>2. n.cand = m.cand /\ n.ser = m.ser /\ n.ldoc = m.ldoc /\ n.meta = m.meta
        /\ n.conflict = m.conflict /\ n.obs = body
    BY <1>2 DEF Mems
  <2>3. body = Absent => m.ldoc.vers = Absent
    <3>1. m.ldoc.vers # Absent => vers[m.ldoc.dir] # Absent /\ m.ldoc.dir = m.ser
      BY <1>1, <1>2, SerIsLatest DEF LocalFits, Seen
    <3> QED
      BY <1>0, <3>1
  <2> HIDE DEF n
  <2>4. ~Told(m.cand, line)
    BY <1>0, <1>1, <1>2, <1>4, ToldIsShown DEF FatesOK, Fate, Open, At
  <2>5. Fate("recRead", m, line)'
    BY <1>1, <1>2, OwnStays DEF At
  <2>6. Fate("recCand", n, line)'
    BY <2>2, <2>3, <2>4, <2>5 DEF Fate, Planning, Open, Dead, Lost, Told
  <2> QED
    BY <1>1, <1>2, <2>1, <2>2, <2>6, QuietMove DEF At
<1> QED
  BY <1>3, <1>4

LEMMA RecCandKeeps ==
  ASSUME Inv, Inv', Replaces, NEW line \in Seq(Dirs), LineOK(line), FatesOK(line), LineOK(line)',
         NEW c \in Clients, RecCand(c)
  PROVE  FatesOK(line)'
<1>1. PICK m : mem[c] = m
  OBVIOUS
<1>2. At(c, "recCand") /\ m \in Mems /\ UNCHANGED <<late, used, cleaned>>
  BY <1>1, UpdaterAt DEF RecCand, Reads, store
<1>3. CASE Committed(c, m, vers[m.cand])
  BY <1>1, <1>2, <1>3, CommittedFree, FreeMoves
<1>4. Fate("recCand", m, line)'
  BY <1>1, <1>2, OwnStays DEF At
<1>5. ASSUME NEW q \in {"rbPayload", "recRetry", "recClaim"}, Goto(c, q, m),
             q = "rbPayload" => m.conflict, q = "recRetry" => m.obs = Absent
      PROVE  FatesOK(line)'
  <2>1. Fate(q, m, line)'
    BY <1>4, <1>5 DEF Fate, Planning
  <2> QED
    BY <1>1, <1>2, <1>5, <2>1, QuietMove DEF At
<1> QED
  BY <1>1, <1>3, <1>5 DEF RecCand

(* A retry that meets an index is no first append any more.                *)
LEMMA RecRetryKeeps ==
  ASSUME Inv, Inv', Replaces, NEW line \in Seq(Dirs), LineOK(line), FatesOK(line), LineOK(line)',
         NEW c \in Clients, RecRetry(c), vers[mem[c].ser] # Absent
  PROVE  FatesOK(line)'
<1>1. PICK m : mem[c] = m
  OBVIOUS
<1>2. /\ At(c, "recRetry") /\ Goto(c, "recReread", m) /\ UNCHANGED <<late, used, cleaned, vers>>
  BY <1>1 DEF RecRetry
<1>3. Fate("recRetry", m, line)'
  BY <1>1, <1>2, OwnStays DEF At
<1>4. Fate("recReread", m, line)'
  BY <1>1, <1>2, <1>3 DEF Fate, Planning
<1> QED
  BY <1>1, <1>2, <1>4, QuietMove DEF At

LEMMA RecRereadKeeps ==
  ASSUME Inv, Inv', Replaces, NEW line \in Seq(Dirs), LineOK(line), FatesOK(line), LineOK(line)',
         NEW c \in Clients, RecReread(c)
  PROVE  FatesOK(line)'
<1>1. PICK m : mem[c] = m
  OBVIOUS
<1>2. At(c, "recReread") /\ m \in Mems /\ UNCHANGED <<late, used, cleaned, vers>>
  BY <1>1, UpdaterAt DEF RecReread, Reads, store
<1>3. CASE ShowsCommit(m, vers[m.ser], m.ser)
  BY <1>1, <1>2, <1>3, CommittedFree, FreeMoves DEF RecReread
<1>4. CASE ~ShowsCommit(m, vers[m.ser], m.ser)
  <2>1. Goto(c, "rbPayload", m)
    BY <1>1, <1>4 DEF RecReread
  <2>2. ~Told(m.cand, line)
    BY <1>1, <1>2, <1>4, ToldIsShown DEF FatesOK, Fate, Open, At
  <2>3. Fate("recReread", m, line)'
    BY <1>1, <1>2, OwnStays DEF At
  <2>4. Lost(m.cand)'
    BY <2>3 DEF Fate, Open, Lost, Spent
  <2>5. Fate("rbPayload", m, line)'
    BY <2>2, <2>3, <2>4 DEF Fate, Planning, Dead, Told
  <2> QED
    BY <1>1, <1>2, <2>1, <2>5, QuietMove DEF At
<1> QED
  BY <1>3, <1>4

LEMMA RollbackPayloadKeeps ==
  ASSUME Inv, Inv', Replaces, NEW line \in Seq(Dirs), LineOK(line), FatesOK(line), LineOK(line)',
         NEW c \in Clients, RollbackPayload(c)
  PROVE  FatesOK(line)'
<1>1. PICK m : mem[c] = m
  OBVIOUS
<1>2. /\ At(c, "rbPayload") /\ Goto(c, "rbMarker", m) /\ UNCHANGED <<late, used>>
      /\ cleaned' = cleaned \cup {m.cand}
  BY <1>1 DEF RollbackPayload
<1>3. Fate("rbPayload", m, line)'
  BY <1>1, <1>2, OwnStays DEF At
<1>4. Fate("rbMarker", m, line)'
  BY <1>3 DEF Fate, Planning
<1>5. /\ Speaks("rbPayload", m, line, line) /\ Keeps("rbPayload", m, "rbMarker", m)
      /\ Buries("rbPayload", m, "rbMarker") /\ Longer(line, line)
  BY <1>2 DEF Speaks, Keeps, Buries, Longer
<1> QED
  BY <1>1, <1>2, <1>4, <1>5, MoverKeeps DEF At

-----------------------------------------------------------------------------
(* Steps that announce a candidate.                                        *)

LEMMA AnnouncingKeeps ==
  ASSUME Inv, Inv', Replaces, NEW line \in Seq(Dirs), LineOK(line), FatesOK(line),
         NEW c \in Clients, NEW m, mem[c] = m, Announcing(c), LineOK(Append(line, m.cand))'
  PROVE  FatesOK(Append(line, m.cand))'
<1> DEFINE more == Append(line, m.cand)
           body == CommitBody(m)
<1>1. PICK at \in {"commit", "recRetry"} :
        /\ At(c, at) /\ PutVers(m.ser, m.ldoc.vers, body) /\ marker' = marker
        /\ UNCHANGED <<late, used, cleaned>>
        /\ \/ Committed(c, m, m.meta)
           \/ at = "commit" /\ Goto(c, "recRead", [m EXCEPT !.conflict = TRUE])
  <2>1. CASE CommitApplied(c) \/ CommitEchoed(c)
    BY <2>1 DEF CommitApplied, CommitEchoed
  <2>2. CASE RecRetry(c) /\ vers[m.ser] = Absent
    <3>1. At(c, "recRetry") /\ m.ldoc.vers = Absent
      BY <2>2 DEF RecRetry, FatesOK, Fate, At
    <3> QED
      BY <2>2, <3>1 DEF RecRetry, PutVers
  <2> QED
    BY <2>1, <2>2 DEF Announcing
<1>2. /\ m \in Mems /\ m.cand \in Dirs /\ IsLine(line)
  BY <1>1, PendingAt
<1>3. Longer(more, line) /\ more \in Seq(Dirs) /\ Fits(m.meta, more)
  BY <1>1, CommitGrows
<1>4. \A x : Told(x, more) => Told(x, line) \/ x = m.cand
  <2>1. /\ Len(line) \in Nat /\ Len(more) = Len(line) + 1 /\ more[Len(line) + 1] = m.cand
        /\ \A n \in 1..Len(line) : more[n] = line[n]
    BY <1>2, FitsLonger DEF IsLine
  <2> HIDE DEF more
  <2>2. \A n \in 1..Len(more) : n \in 1..Len(line) \/ n = Len(line) + 1
    BY <2>1
  <2> QED
    BY <2>1, <2>2 DEF Told
<1> HIDE DEF more, body
<1>5. Speaks(at, m, line, more) /\ Buries(at, m, "none") /\ at \in Uncommitted
  BY <1>1, <1>4 DEF Speaks, Buries
<1>6. CASE Committed(c, m, m.meta)
  <2>1. PICK p, n : Goto(c, p, n) /\ Free(p, n)
    BY <1>2, <1>6, CommittedFree DEF GoesFree
  <2>2. Fate(p, n, more)'
    BY <2>1 DEF Free, Fate, Planning
  <2>3. Keeps(at, m, p, n) /\ Buries(at, m, p)
    BY <1>1, <2>1 DEF Free, Keeps, Buries
  <2> QED
    BY <1>1, <1>3, <1>5, <2>1, <2>2, <2>3, MoverKeeps DEF At, more
<1>7. CASE at = "commit" /\ Goto(c, "recRead", [m EXCEPT !.conflict = TRUE])
  <2> DEFINE n == [m EXCEPT !.conflict = TRUE]
  <2>1. n.cand = m.cand /\ n.ser = m.ser /\ n.ldoc = m.ldoc /\ n.meta = m.meta /\ Goto(c, "recRead", n)
    BY <1>2, <1>7 DEF Mems
  <2> HIDE DEF n
  <2>2. Fate("commit", m, line)
    BY <1>1, <1>7 DEF FatesOK, At
  <2>3. \A put \in late' : Ends(put.body) # m.cand
    BY <1>1, <2>2 DEF Fate, Unsent
  <2>4. Fate("recRead", n, more)'
    BY <1>1, <1>3, <2>1, <2>2, <2>3 DEF Fate, Planning, Open, Lost
  <2>5. Keeps(at, m, "recRead", n) /\ Buries(at, m, "recRead")
    BY <1>1, <1>7, <2>1 DEF Keeps, Buries
  <2> QED
    BY <1>1, <1>3, <1>5, <2>1, <2>4, <2>5, MoverKeeps DEF At, more
<1> QED
  BY <1>1, <1>6, <1>7

(* The other writers' and the delayed requests' view of a longer line.     *)
LEMMA DeliveredKeeps ==
  ASSUME Inv, Inv', Replaces, NEW line \in Seq(Dirs), LineOK(line), FatesOK(line),
         NEW more \in Seq(Dirs), LineOK(more)', Longer(more, line),
         NEW put \in late, DeliverLate(put), NEW x, x = Ends(put.body), x \in used,
         \A y : Told(y, more) => Told(y, line) \/ (y = x /\ ~Spent(put)),
         \A c \in Clients : pc[c] \in Pending /\ mem[c].cand = x =>
           (Told(x, more) => Told(x, line) \/ Fits(mem[c].meta, more))
  PROVE  FatesOK(more)'
<1>1. UNCHANGED <<pc, mem, used, cleaned>> /\ late' \subseteq late
  BY DEF DeliverLate
<1>2. \A n \in 1..Len(more) : more[n] \in used'
  BY <1>1 DEF FatesOK, Told
<1>3. \A r \in late' : Ends(r.body) \in used'
  BY <1>1 DEF FatesOK
<1>4. ASSUME NEW e \in Clients PROVE Fate(pc[e], mem[e], more)'
  <2>1. PICK p, m : pc[e] = p /\ mem[e] = m
    OBVIOUS
  <2>2. m \in Mems /\ (p \in Pending => m.ser \in Dirs)
    BY <2>1, PendingAt DEF At, Inv, TypeOK
  <2>3. Fate(p, m, line)
    BY <2>1 DEF FatesOK
  <2>4. News(m.cand, line, more)
    BY DEF News
  <2>5. p \in Pending => (Told(m.cand, more) => Told(m.cand, line) \/ Fits(m.meta, more))
    BY <2>1
  <2>6. Fate(p, m, more)'
    BY <1>1, <2>2, <2>3, <2>4, <2>5, FateStays
  <2> QED
    BY <1>1, <2>1, <2>6
<1>5. Apart'
  BY <1>1 DEF FatesOK, Apart
<1>6. ASSUME NEW y \in cleaned PROVE Buried(y, more)'
  <2>1. y \in used /\ ~Told(y, line) /\ \A r \in late : Ends(r.body) = y => Spent(r)
    BY DEF FatesOK, Buried, Dead, Lost
  <2>2. ~Told(y, more)
    BY <2>1
  <2>3. Lost(y)'
    BY <1>1, <2>1, SpentStays DEF Lost
  <2> QED
    BY <1>1, <2>1, <2>2, <2>3 DEF FatesOK, Buried, Dead, Told
<1> QED
  BY <1>1, <1>2, <1>3, <1>4, <1>5, <1>6 DEF FatesOK

LEMMA DeliverLateKeeps ==
  ASSUME Inv, Inv', Replaces, NEW line \in Seq(Dirs), LineOK(line), FatesOK(line),
         NEW put \in late, DeliverLate(put)
  PROVE  /\ vers[put.dir] # put.match => FatesOK(line)'
         /\ \A x \in Dirs : vers[put.dir] = put.match /\ Extends(put.dir, put.match, x, put.body) =>
              FatesOK(Append(line, x))'
<1>1. /\ put.dir \in Dirs /\ put.match \in Bodies /\ put.body \in Bodies
      /\ LateFits(put, line) /\ (put.match # Absent => Len(put.match.ents) \in Nat)
      /\ Ends(put.body) \in used /\ IsLine(line)
  BY LateParts DEF FatesOK, LineOK
<1>2. ASSUME vers[put.dir] # put.match PROVE FatesOK(line)'
  <2>1. LineOK(line)'
    BY <1>2, DeliverLateFits
  <2>2. Longer(line, line)
    BY DEF Longer
  <2> QED
    BY <1>1, <2>1, <2>2, DeliveredKeeps
<1>3. ASSUME vers[put.dir] = put.match, NEW x \in Dirs, Extends(put.dir, put.match, x, put.body)
      PROVE  FatesOK(Append(line, x))'
  <2> DEFINE more == Append(line, x)
  <2>2. Ends(put.body) = x
    BY <1>1, <1>3, ExtendsEnds DEF Ends
  <2>3. LineOK(more)' /\ more \in Seq(Dirs) /\ Longer(more, line)
    BY <1>3, DeliverLateFits DEF Longer
  <2>4. ~Spent(put)
    BY <1>1, <1>3 DEF Spent
  <2>5. \A y : Told(y, more) => Told(y, line) \/ y = x
    <3>1. /\ Len(line) \in Nat /\ Len(more) = Len(line) + 1 /\ more[Len(line) + 1] = x
          /\ \A n \in 1..Len(line) : more[n] = line[n]
      BY <1>1, FitsLonger DEF IsLine
    <3> HIDE DEF more
    <3>2. \A n \in 1..Len(more) : n \in 1..Len(line) \/ n = Len(line) + 1
      BY <3>1
    <3> QED
      BY <3>1, <3>2 DEF Told
  <2>6. ASSUME NEW c \in Clients, pc[c] \in Pending, mem[c].cand = x
        PROVE  Fits(mem[c].meta, more)
    <3>1. PICK p \in Pending : pc[c] = p
      BY <2>6
    <3>0. PICK m : mem[c] = m
      OBVIOUS
    <3>2. /\ m \in Mems /\ m.meta \in Bodies /\ m.ldoc.vers \in Bodies /\ m.ser \in Dirs
          /\ LocalFits(p, m, line) /\ Fits(m.ldoc.vers, line)
      BY <3>0, <3>1, PendingAt, MemFields DEF At
    <3>3. Extends(m.ser, m.ldoc.vers, x, m.meta)
      BY <2>6, <3>0, <3>2 DEF LocalFits, UpdaterOK
    <3>4. put.dir = m.ser /\ put.match = m.ldoc.vers
      BY <2>2, <2>6, <3>0, <3>1 DEF FatesOK, Fate, Open, Unsent
    <3> HIDE DEF more
    <3> QED
      BY <1>3, <3>0, <3>2, <3>3, <3>4, CommitFits DEF more
  <2> HIDE DEF more
  <2>7. FatesOK(more)'
    BY <1>1, <2>2, <2>3, <2>4, <2>5, <2>6, DeliveredKeeps
  <2> QED
    BY <2>7 DEF more
<1> QED
  BY <1>2, <1>3

-----------------------------------------------------------------------------
(* What an append reports.  Its verification visits the members of the     *)
(* index it has published one by one; what it has seen of a member stays   *)
(* true, because no index gets shorter.                                    *)

RootDoc(doc) == doc.vers # Absent /\ doc.marker.num = 0 => doc.dir = Root

(* The candidate is not the first member of the index being published.     *)
Named(m) ==
  m.cand # NoDir =>
    m.meta.cur \in 2..Len(m.meta.ents) /\ m.meta.ents[m.meta.cur].dir = m.cand

Planned(p, m)   == p = "plan" \/ (p \in Promoting /\ m.ret = "plan")
Reporting(p, m) == p \in Publishing \cup {"newIndex", "verify"} \/ (p \in Promoting /\ m.ret = "newIndex")

Sound(p, m) ==
  /\ RootDoc(m.tdoc)
  /\ p \in Pending /\ m.ldoc.vers = Absent => m.ldoc.dir = Root
  /\ p = "promMarker" => m.rdoc.dir = Root /\ m.rdoc.vers # Absent
  /\ Planned(p, m) => m.cand = NoDir
  /\ Reporting(p, m) => Named(m)

(* The members of the line from the first to the last but one before n     *)
(* know of revision len.                                                   *)
Known(n, len, line) == \A k \in 1..(n - 1) : Len(vers[line[k]].ents) >= len

Verified(p, m, line) ==
  p = "verify" => m.i \in 1..Len(m.meta.ents) /\ Known(m.i, Len(m.meta.ents), line)

Reported(d, line) == \E n \in 2..Len(line) : line[n] = d /\ Known(n, n, line)

AcksOK(line) ==
  /\ \A c \in Clients : Sound(pc[c], mem[c]) /\ Verified(pc[c], mem[c], line)
  /\ \A d \in acked : Reported(d, line)

(* A step to a label where nothing has been verified yet.                  *)
SoundGo(c) ==
  \E p, m : /\ Goto(c, p, m) /\ Sound(p, m)
            /\ p = "verify" => m.i = 1 /\ 1 \in 1..Len(m.meta.ents)

LEMMA SoundGoes ==
  ASSUME NEW c, NEW p, NEW m, Goto(c, p, m), Sound(p, m), p # "verify"
  PROVE  SoundGo(c)
BY DEF SoundGo

LEMMA NoDocRoot == RootDoc(NoDoc)
BY DEF RootDoc, NoDoc

LEMMA StopSound ==
  ASSUME NEW c, Stop(c)
  PROVE  SoundGo(c)
<1>1. NoMem.tdoc = NoDoc
  BY DEF NoMem
<1>2. Sound("idle", NoMem)
  BY <1>1, NoDocRoot DEF Sound, Planned, Reporting
<1> QED
  BY <1>2, SoundGoes DEF Stop

LEMMA PreparedSound ==
  ASSUME NEW c, NEW m, RootDoc(m.tdoc), Prepared(c, m)
  PROVE  SoundGo(c)
<1> DEFINE n == [NoMem EXCEPT !.op = "append", !.ldoc = m.ldoc]
           q == [n EXCEPT !.rdoc = m.tdoc, !.ret = "plan"]
<1>1. n.tdoc = NoDoc /\ n.cand = NoDir /\ n.ret = "idle"
  BY DEF NoMem
<1>2. q.tdoc = NoDoc /\ q.cand = NoDir /\ q.ret = "plan" /\ q.rdoc = m.tdoc
  BY DEF NoMem
<1>3. Goto(c, "plan", n) \/ (NeedsPromotion(m.tdoc) /\ Goto(c, "promMarker", q))
  BY DEF Prepared, Promote
<1> HIDE DEF n, q
<1>4. Sound("plan", n)
  BY <1>1, NoDocRoot DEF Sound, Planned, Reporting
<1>5. NeedsPromotion(m.tdoc) => Sound("promMarker", q)
  BY <1>2, NoDocRoot DEF NeedsPromotion, RootDoc, Sound, Planned, Reporting
<1> QED
  BY <1>3, <1>4, <1>5, SoundGoes

LEMMA OnwardSound ==
  ASSUME NEW c, NEW m, m.op = "append", RootDoc(m.tdoc), Onward(c, m)
  PROVE  SoundGo(c)
<1>1. Sound("follow", m)
  BY DEF Sound, Planned, Reporting
<1> QED
  BY <1>1, SoundGoes, PreparedSound DEF Onward

LEMMA LoadedSound ==
  ASSUME NEW c, NEW m0 \in Mems, m0.op = "append", NEW doc, RootDoc(doc), Loaded(c, m0, doc)
  PROVE  SoundGo(c)
<1> DEFINE m == [m0 EXCEPT !.tdoc = doc, !.ldoc = doc, !.rdoc = doc, !.ret = "reload"]
<1>1. m.op = "append" /\ m.tdoc = doc /\ m.ret = "reload"
  BY DEF Mems
<1>2. Goto(c, "fixRead", m) \/ Goto(c, "page", m) \/ Goto(c, "first", m) \/ Onward(c, m)
  BY DEF Loaded
<1> HIDE DEF m
<1>3. Sound("fixRead", m) /\ Sound("page", m) /\ Sound("first", m)
  BY <1>1 DEF Sound, Planned, Reporting
<1> QED
  BY <1>1, <1>2, <1>3, SoundGoes, OnwardSound

(* The next member of an index without tombstones.                         *)
LEMMA NextInLine ==
  ASSUME NEW line, IsLine(line), NEW b \in Bodies, Fits(b, line), b # Absent,
         NEW i \in Nat, i <= Len(b.ents)
  PROVE  NextLive(b.ents, i) = IF i < Len(b.ents) THEN i + 1 ELSE 0
<1> DEFINE len == Len(b.ents)
           above == {k \in LiveNumbers(b.ents) : k > i}
<1>1. len \in Nat /\ LiveNumbers(b.ents) = 1..len
  BY FitsParts
<1>4. \A k : k \in above <=> k \in 1..len /\ k > i
  BY <1>1
<1>5. NextLive(b.ents, i) = IF above = {} THEN 0 ELSE CHOOSE k \in above : \A j \in above : k <= j
  BY DEF NextLive
<1> HIDE DEF len, above
<1>2. CASE i < len
  <2>1. i + 1 \in above /\ (\A j \in above : i + 1 <= j) /\ above # {}
    BY <1>1, <1>2, <1>4
  <2>2. \A k \in above : (\A j \in above : k <= j) => k = i + 1
    BY <1>1, <1>2, <1>4, <2>1
  <2>3. (CHOOSE k \in above : \A j \in above : k <= j) = i + 1
    BY <2>1, <2>2
  <2> QED
    BY <1>2, <1>5, <2>1, <2>3 DEF len
<1>3. CASE ~(i < len)
  <2>1. above = {}
    BY <1>1, <1>3, <1>4
  <2> QED
    BY <1>3, <1>5, <2>1 DEF len
<1> QED
  BY <1>2, <1>3

LEMMA PropagateSound ==
  ASSUME NEW c, NEW line, IsLine(line), NEW m \in Mems, NEW n, m.op = "append", RootDoc(m.tdoc), Named(m),
         m.meta # Absent, Fits(m.meta, line), Propagate(c, m, n)
  PROVE  SoundGo(c)
<1> DEFINE next == NextReplica(m, n)
           q == [m EXCEPT !.i = next, !.obs = IF m.op = "append" THEN Absent ELSE @]
           v == [m EXCEPT !.i = NextLive(m.meta.ents, 0)]
<1>1. Goto(c, "propRead", q) \/ Goto(c, "verify", v)
  BY DEF Propagate
<1>2. /\ q.tdoc = m.tdoc /\ q.cand = m.cand /\ q.meta = m.meta
      /\ v.tdoc = m.tdoc /\ v.cand = m.cand /\ v.meta = m.meta
      /\ v.i = NextLive(m.meta.ents, 0)
  BY DEF Mems
<1> HIDE DEF q, v
<1>3. Named(q) /\ Named(v)
  BY <1>2 DEF Named
<1>4. Sound("propRead", q) /\ Sound("verify", v)
  BY <1>2, <1>3 DEF Sound, Planned, Reporting
<1>5. v.i = 1 /\ 1 \in 1..Len(v.meta.ents)
  <2>1. m.meta \in Bodies
    BY MemFields
  <2>2. Len(m.meta.ents) \in Nat /\ Len(m.meta.ents) >= 2
    BY <2>1, FitsParts
  <2>3. NextLive(m.meta.ents, 0) = 1
    BY <2>1, <2>2, NextInLine
  <2> QED
    BY <1>2, <2>2, <2>3
<1> QED
  BY <1>1, <1>4, <1>5 DEF SoundGo

LEMMA CommittedSound ==
  ASSUME NEW c, NEW m \in Mems, NEW b \in Bodies, Committed(c, m, b), RootDoc(m.tdoc),
         m.ldoc.vers = Absent => m.ldoc.dir = Root,
         m.meta.cur \in 2..Len(b.ents), b.ents[m.meta.cur].dir = m.cand
  PROVE  SoundGo(c)
<1> DEFINE new == [b EXCEPT !.cur = m.meta.cur]
           won == [m EXCEPT !.meta = new, !.obs = Absent, !.conflict = FALSE]
           doc == [m.ldoc EXCEPT !.vers = b]
           q == [won EXCEPT !.rdoc = doc, !.ret = "newIndex"]
<1>1. new.ents = b.ents /\ new.cur = m.meta.cur
  BY DEF Bodies
<1>2. \/ m.ldoc.vers = Absent /\ Goto(c, "promMarker", q)
      \/ Goto(c, "newIndex", won)
  BY DEF Committed, Promote
<1>3. doc.dir = m.ldoc.dir /\ doc.vers # Absent
  <2>1. doc.dir = m.ldoc.dir /\ doc.vers = b
    BY MemFields DEF Docs
  <2>2. Len(Absent.ents) = 0
    BY DEF Absent
  <2> QED
    BY <2>1, <2>2
<1> HIDE DEF new, doc
<1>4. won.tdoc = m.tdoc /\ won.meta = new /\ won.cand = m.cand
  BY DEF Mems
<1>5. q.tdoc = m.tdoc /\ q.rdoc = doc /\ q.meta = new /\ q.cand = m.cand /\ q.ret = "newIndex"
  BY DEF Mems
<1> HIDE DEF won, q
<1>6. Named(won) /\ Named(q)
  BY <1>1, <1>4, <1>5 DEF Named
<1>7. Sound("newIndex", won)
  BY <1>4, <1>6 DEF Sound, Planned, Reporting
<1>8. m.ldoc.vers = Absent => Sound("promMarker", q)
  BY <1>3, <1>5, <1>6 DEF Sound, Planned, Reporting
<1> QED
  BY <1>2, <1>7, <1>8, SoundGoes

(* What is loaded.                                                         *)
LEMMA LoadRoot ==
  ASSUME Inv, NEW line, LineOK(line), NEW d \in Dirs, Loads(d)
  PROVE  RootDoc(Load(d))
BY LoadFits DEF RootDoc

-----------------------------------------------------------------------------
(* Every step but the verification's.                                      *)

LEMMA SoundAt ==
  ASSUME Inv, NEW line, LineOK(line), AcksOK(line), NEW c \in Clients, NEW p, At(c, p),
         NEW m, mem[c] = m
  PROVE  /\ m \in Mems /\ LocalOK(p, m) /\ LocalFits(p, m, line) /\ IsLine(line)
         /\ Sound(p, m) /\ Verified(p, m, line)
BY UpdaterAt DEF AcksOK, At

LEMMA PrepareSound ==
  ASSUME Inv, NEW line, LineOK(line), AcksOK(line), NEW c \in Clients, PrepareStep(c)
  PROVE  SoundGo(c) /\ acked' = acked
<1>1. PICK m : mem[c] = m
  OBVIOUS
<1>2. \A p : At(c, p) =>
        /\ LocalOK(p, m) /\ LocalFits(p, m, line) /\ Sound(p, m)
  BY <1>1, SoundAt
<1>3. m \in Mems /\ RootDoc(m.tdoc)
  BY <1>1, SoundAt DEF Sound, At
<1>4. \A p \in Preparing \cup Promoting : At(c, p) => m.op = "append"
  BY <1>2 DEF LocalFits, UpdaterOK
<1>5. ASSUME NEW q \in Preparing \cup {"promPage", "promVerify"}, NEW n, n.tdoc = m.tdoc, Goto(c, q, n),
             q \in Promoting => (At(c, "promMarker") \/ At(c, "promPage")) /\ n = m
      PROVE  SoundGo(c)
  <2>1. Sound(q, n)
    BY <1>2, <1>3, <1>5 DEF Sound, Planned, Reporting
  <2> QED
    BY <1>5, <2>1, SoundGoes
<1>6. ASSUME NEW d \in Dirs, Loads(d), NEW n, n.tdoc = m.tdoc, n.ret = "first",
             n.rdoc = Load(d), NeedsPromotion(Load(d)), Goto(c, "promMarker", n)
      PROVE  SoundGo(c)
  <2>1. RootDoc(Load(d)) /\ Load(d).dir = d
    BY <1>6, LoadRoot, LoadFits
  <2>2. Sound("promMarker", n)
    BY <1>3, <1>6, <2>1 DEF NeedsPromotion, RootDoc, Sound, Planned, Reporting
  <2> QED
    BY <1>6, <2>2, SoundGoes
<1>7. ASSUME NEW p \in {"page", "fixPut"}, At(c, p), Goto(c, m.ret, m) PROVE SoundGo(c)
  <2>1. m.ret \in {"reload", "first", "follow"}
    BY <1>2, <1>7 DEF LocalOK, ReturnsOK
  <2> QED
    BY <1>5, <1>7, <2>1
<1>8. CASE Reload(c)
  <2>1. m.tdoc.dir \in Dirs
    BY <1>2, <1>8 DEF Reload, LocalOK, DocsOK
  <2>2. RootDoc(Load(m.tdoc.dir))
    BY <1>1, <1>8, <2>1, LoadRoot DEF Reload
  <2> QED
    BY <1>1, <1>3, <1>4, <1>8, <2>2, LoadedSound DEF Reload, Reads
<1>9. CASE RepairPage(c)
  BY <1>1, <1>7, <1>9 DEF RepairPage
<1>10. CASE First(c)
  <2> DEFINE d == m.tdoc.marker.prev
             q == [m EXCEPT !.rdoc = Load(d), !.ret = "first"]
  <2>1. d \in Dirs
    BY <1>2, <1>3, <1>10, MemFields, DocFields DEF First, LocalOK, DocsOK
  <2>2. q.tdoc = m.tdoc /\ q.ret = "first" /\ q.rdoc = Load(d)
    BY <1>3 DEF Mems
  <2>3. /\ Loads(d) /\ acked' = acked
        /\ \/ NeedsPromotion(Load(d)) /\ Goto(c, "promMarker", q)
           \/ Goto(c, "page", q)
           \/ Onward(c, m)
    BY <1>1, <1>10 DEF First, Promote, Reads
  <2> HIDE DEF d, q
  <2> QED
    BY <1>3, <1>4, <1>5, <1>6, <1>10, <2>1, <2>2, <2>3, OnwardSound DEF First
<1>11. CASE Follow(c)
  <2> DEFINE doc == Load(m.ldoc.vers.ents[LatestOf(m.ldoc.vers.ents)].dir)
             fix == [m EXCEPT !.rdoc = doc, !.meta = m.ldoc.vers, !.ret = "follow"]
             page == [m EXCEPT !.rdoc = doc, !.ret = "follow"]
             next == [m EXCEPT !.ldoc = doc]
  <2>1. fix.tdoc = m.tdoc /\ page.tdoc = m.tdoc /\ next.tdoc = m.tdoc
    BY <1>3 DEF Mems
  <2>2. /\ acked' = acked
        /\ \/ Goto(c, "fixPut", fix) \/ Goto(c, "page", page)
           \/ Prepared(c, next) \/ Goto(c, "follow", next)
    BY <1>1, <1>11 DEF Follow, Reads
  <2> HIDE DEF doc, fix, page, next
  <2> QED
    BY <1>3, <1>5, <2>1, <2>2, PreparedSound
<1>12. CASE FixRead(c) \/ FixReceipt(c) \/ FixWitness(c)
  <2>1. \A b, i : [m EXCEPT !.meta = b].tdoc = m.tdoc /\ [m EXCEPT !.i = i].tdoc = m.tdoc
                  /\ [m EXCEPT !.meta = b, !.i = i].tdoc = m.tdoc
    BY <1>3 DEF Mems
  <2>2. acked' = acked /\ \E q \in Preparing : \E n : n.tdoc = m.tdoc /\ Goto(c, q, n)
    BY <1>1, <1>12, <2>1 DEF FixRead, FixReceipt, FixWitness, Reads
  <2> QED
    BY <1>5, <2>2
<1>13. CASE FixPut(c)
  BY <1>1, <1>7, <1>13 DEF FixPut
<1>14. CASE PromoteMarker(c) \/ PromotePage(c)
  <2>1. PICK p \in {"promMarker", "promPage"}, q \in {"promPage", "promVerify"} :
          At(c, p) /\ Goto(c, q, m) /\ acked' = acked
    BY <1>1, <1>14 DEF PromoteMarker, PromotePage
  <2> QED
    BY <1>5, <2>1
<1>15. CASE PromoteVerify(c)
  <2>1. At(c, "promVerify") /\ Return(c, m) /\ acked' = acked
    BY <1>1, <1>15 DEF PromoteVerify, Reads
  <2>2. m.ret \in {"first", "plan", "newIndex"} /\ Sound("promVerify", m)
    BY <1>2, <2>1 DEF LocalOK, ReturnsOK
  <2>3. m.ret \in {"plan", "newIndex"} => Sound(m.ret, m)
    BY <2>2 DEF Sound, Planned, Reporting
  <2> QED
    BY <1>3, <1>4, <2>1, <2>2, <2>3, SoundGoes, OnwardSound DEF Return
<1> QED
  BY <1>8, <1>9, <1>10, <1>11, <1>12, <1>13, <1>14, <1>15 DEF PrepareStep, RepairPage, FixPut

LEMMA ExtendsLength ==
  ASSUME NEW d, NEW old \in Bodies, NEW x \in Dirs, NEW b \in Bodies, Extends(d, old, x, b)
  PROVE  Len(b.ents) \in Nat /\ Len(b.ents) >= 2
<1>1. LiveEntry(x) \in Entries
  BY DEF LiveEntry, Entries
<1>2. CASE old = Absent
  <2>1. LiveEntry(Root) \in Entries
    BY RootAssumption DEF LiveEntry, Entries
  <2> QED
    BY <1>1, <1>2, <2>1, TwoEntries DEF Extends
<1>3. CASE old # Absent
  <2>1. old.ents \in Seq(Entries) /\ b.ents = Append(old.ents, LiveEntry(x)) /\ Len(old.ents) >= 2
        /\ Len(old.ents) \in Nat
    BY <1>3, BodyFields, EntryTypes DEF Extends, AppendEntry, Decodes, DecodesLoose
  <2>2. Len(b.ents) = Len(old.ents) + 1
    BY <1>1, <2>1, AppendProperties
  <2> QED
    BY <2>1, <2>2
<1> QED
  BY <1>2, <1>3

(* A writer whose candidate is pending, and what it needs to publish it.   *)
LEMMA PendingSound ==
  ASSUME Inv, NEW line, LineOK(line), AcksOK(line), NEW c \in Clients,
         NEW p \in Pending, At(c, p), NEW m, mem[c] = m
  PROVE  /\ m \in Mems /\ RootDoc(m.tdoc) /\ (m.ldoc.vers = Absent => m.ldoc.dir = Root)
         /\ m.meta \in Bodies /\ m.meta.cur = Len(m.meta.ents)
         /\ Len(m.meta.ents) \in Nat /\ Len(m.meta.ents) >= 2
         /\ m.meta.ents[Len(m.meta.ents)].dir = m.cand /\ m.cand \in Dirs /\ m.ser \in Dirs
<1>1. /\ m \in Mems /\ LocalFits(p, m, line) /\ m.cand \in Dirs /\ m.ser \in Dirs
      /\ m.ldoc.vers \in Bodies /\ m.meta \in Bodies /\ Sound(p, m)
  BY PendingAt, SoundAt, MemFields
<1>2. Extends(m.ser, m.ldoc.vers, m.cand, m.meta) /\ m.meta.cur = Len(m.meta.ents)
  BY <1>1 DEF LocalFits, UpdaterOK
<1> QED
  BY <1>1, <1>2, ExtendsEnds, ExtendsLength DEF Sound

LEMMA WonSound ==
  ASSUME Inv, NEW line, LineOK(line), AcksOK(line), NEW c \in Clients,
         NEW p \in Pending, At(c, p), NEW m, mem[c] = m, Committed(c, m, m.meta)
  PROVE  SoundGo(c)
<1>1. /\ m \in Mems /\ RootDoc(m.tdoc) /\ (m.ldoc.vers = Absent => m.ldoc.dir = Root)
      /\ m.meta \in Bodies /\ m.meta.cur = Len(m.meta.ents)
      /\ Len(m.meta.ents) \in Nat /\ Len(m.meta.ents) >= 2
      /\ m.meta.ents[Len(m.meta.ents)].dir = m.cand
  BY PendingSound
<1>2. m.meta.cur \in 2..Len(m.meta.ents) /\ m.meta.ents[m.meta.cur].dir = m.cand
  BY <1>1
<1> QED
  BY <1>1, <1>2, CommittedSound

LEMMA ShownSound ==
  ASSUME Inv, NEW line, LineOK(line), AcksOK(line), NEW c \in Clients,
         NEW p \in Pending, At(c, p), NEW m, mem[c] = m, NEW d \in Dirs,
         NEW b, b = vers[d], ShowsCommit(m, b, d), Committed(c, m, b)
  PROVE  SoundGo(c)
<1>1. /\ m \in Mems /\ RootDoc(m.tdoc) /\ (m.ldoc.vers = Absent => m.ldoc.dir = Root)
      /\ m.meta.cur = Len(m.meta.ents) /\ Len(m.meta.ents) \in Nat /\ Len(m.meta.ents) >= 2
  BY PendingSound
<1>2. b \in Bodies /\ Fits(b, line) /\ b # Absent /\ IsLine(line)
  BY LoadFits, BodyTypes DEF ShowsCommit, Decodes, DecodesLoose, LineOK
<1>3. m.meta.cur \in 1..Len(b.ents) /\ b.ents[m.meta.cur].dir = m.cand
  BY <1>2, FitsParts DEF ShowsCommit
<1>4. m.meta.cur \in 2..Len(b.ents)
  BY <1>1, <1>3
<1> QED
  BY <1>1, <1>2, <1>3, <1>4, CommittedSound

LEMMA AppendSound ==
  ASSUME Inv, NEW line, LineOK(line), AcksOK(line), NEW c \in Clients, AppendStep(c)
  PROVE  SoundGo(c) /\ acked' = acked
<1>1. PICK m : mem[c] = m
  OBVIOUS
<1>2. \A p : At(c, p) => LocalOK(p, m) /\ LocalFits(p, m, line) /\ Sound(p, m)
  BY <1>1, SoundAt
<1>3. m \in Mems /\ RootDoc(m.tdoc) /\ IsLine(line)
  BY <1>1, SoundAt DEF Sound, At
<1>4. \A p \in Pending : At(c, p) => m.ser \in Dirs /\ m.cand \in Dirs
  BY <1>1, PendingSound
<1>5. ASSUME NEW p \in Pending, At(c, p), NEW q \in Pending \cup Undone, NEW n,
             n.tdoc = m.tdoc, n.ldoc = m.ldoc, Goto(c, q, n)
      PROVE  SoundGo(c)
  <2>1. Sound(q, n)
    BY <1>2, <1>3, <1>5 DEF Sound, Planned, Reporting
  <2> QED
    BY <1>5, <2>1, SoundGoes
<1>6. CASE \E d \in Dirs : PutMarker(c, d)
  <2>0. PICK d \in Dirs : PutMarker(c, d)
    BY <1>6
  <2>1. PICK x, metadata, ser, skip :
          Goto(c, "payload", [m EXCEPT !.cand = x, !.meta = metadata, !.ser = ser, !.skip = skip])
    <3>1. \E metadata :
            Goto(c, "payload", [mem[c] EXCEPT !.cand = d, !.meta = metadata, !.ser = mem[c].ldoc.dir,
                                              !.skip = {mem[c].ldoc.dir, d}])
      BY <2>0, Zenon DEF PutMarker
    <3> QED
      BY <1>1, <3>1
  <2> DEFINE n == [m EXCEPT !.cand = x, !.meta = metadata, !.ser = ser, !.skip = skip]
  <2>2. At(c, "plan") /\ acked' = acked
    BY <2>0 DEF PutMarker
  <2>3. n.tdoc = m.tdoc /\ n.ldoc = m.ldoc
    BY <1>3 DEF Mems
  <2>4. Goto(c, "payload", n)
    BY <2>1
  <2> HIDE DEF n
  <2>5. m.ldoc.vers = Absent => m.ldoc.dir = Root
    BY <1>2, <2>2 DEF LocalFits, UpdaterOK, Ready
  <2>6. Sound("payload", n)
    BY <1>3, <2>3, <2>5 DEF Sound, Planned, Reporting
  <2> QED
    BY <2>2, <2>4, <2>6, SoundGoes
<1>7. CASE PutPayload(c) \/ PutPayloadFails(c) \/ CommitUnknown(c)
  <2>1. PICK p \in Pending, q \in Pending \cup Undone : At(c, p) /\ Goto(c, q, m) /\ acked' = acked
    BY <1>1, <1>7 DEF PutPayload, PutPayloadFails, CommitUnknown, Reads
  <2> QED
    BY <1>5, <2>1
<1>8. CASE CommitApplied(c)
  BY <1>1, <1>8, WonSound DEF CommitApplied
<1>9. CASE CommitRefused(c) \/ CommitEchoed(c)
  <2> DEFINE n == [m EXCEPT !.conflict = TRUE]
  <2>1. At(c, "commit") /\ Goto(c, "recRead", n) /\ acked' = acked
    BY <1>1, <1>9 DEF CommitRefused, CommitEchoed, Reads
  <2>2. n.tdoc = m.tdoc /\ n.ldoc = m.ldoc
    BY <1>3 DEF Mems
  <2> HIDE DEF n
  <2> QED
    BY <1>5, <2>1, <2>2
<1>10. CASE RecRead(c)
  <2>1. PICK b : b = vers[m.ser]
    OBVIOUS
  <2> DEFINE n == [m EXCEPT !.obs = b]
  <2>2. /\ At(c, "recRead") /\ acked' = acked
        /\ \/ ShowsCommit(m, b, m.ser) /\ Committed(c, m, b)
           \/ Goto(c, "recCand", n)
    BY <1>1, <1>10, <2>1 DEF RecRead, Reads
  <2>3. n.tdoc = m.tdoc /\ n.ldoc = m.ldoc
    BY <1>3 DEF Mems
  <2> HIDE DEF n
  <2> QED
    BY <1>1, <1>4, <1>5, <2>1, <2>2, <2>3, ShownSound
<1>11. CASE RecCand(c)
  <2>1. PICK b : b = vers[m.cand]
    OBVIOUS
  <2>2. /\ At(c, "recCand") /\ acked' = acked
        /\ \/ ShowsCommit(m, b, m.cand) /\ Committed(c, m, b)
           \/ \E q \in Pending \cup Undone : Goto(c, q, m)
    BY <1>1, <1>11, <2>1 DEF RecCand, Reads
  <2> QED
    BY <1>1, <1>4, <1>5, <2>1, <2>2, ShownSound
<1>12. CASE RecRetry(c)
  <2>1. /\ At(c, "recRetry") /\ acked' = acked
        /\ Committed(c, m, m.meta) \/ Goto(c, "recReread", m)
    BY <1>1, <1>12 DEF RecRetry
  <2> QED
    BY <1>1, <1>5, <2>1, WonSound
<1>13. CASE RecReread(c)
  <2>1. PICK b : b = vers[m.ser]
    OBVIOUS
  <2>2. /\ At(c, "recReread") /\ acked' = acked
        /\ \/ ShowsCommit(m, b, m.ser) /\ Committed(c, m, b)
           \/ Goto(c, "rbPayload", m)
    BY <1>1, <1>13, <2>1 DEF RecReread, Reads
  <2> QED
    BY <1>1, <1>4, <1>5, <2>1, <2>2, ShownSound
<1>14. CASE RecClaim(c)
  BY <1>1, <1>5, <1>14 DEF RecClaim
<1>15. CASE RollbackPayload(c)
  <2>1. Sound("rbMarker", m)
    BY <1>3 DEF Sound, Planned, Reporting
  <2> QED
    BY <1>1, <1>15, <2>1, SoundGoes DEF RollbackPayload
<1>16. CASE RollbackMarker(c)
  BY <1>16, StopSound DEF RollbackMarker
<1>17. CASE NewIndex(c)
  <2>1. At(c, "newIndex") /\ Propagate(c, m, 0) /\ acked' = acked
    BY <1>1, <1>17 DEF NewIndex
  <2>2. m.op = "append" /\ Named(m) /\ m.meta # Absent /\ Fits(m.meta, line)
    BY <1>1, <1>2, <2>1, PublisherAt DEF Sound, Reporting, Holds
  <2> QED
    BY <1>3, <2>1, <2>2, PropagateSound
<1>18. CASE PlanUnchanged(c)
  <2> DEFINE n == [m EXCEPT !.meta = m.ldoc.vers, !.ser = m.ldoc.dir, !.skip = {m.ldoc.dir}]
  <2>1. At(c, "plan") /\ Propagate(c, n, 0) /\ acked' = acked /\ m.ldoc.vers # Absent
    BY <1>1, <1>18 DEF PlanUnchanged, Reads
  <2>2. m.op = "append" /\ m.cand = NoDir /\ Fits(m.ldoc.vers, line) /\ m.ldoc.dir \in Dirs
    BY <1>2, <2>1 DEF LocalFits, UpdaterOK, Sound, Planned, LocalOK, AppendOK
  <2>3. m.ldoc.vers \in Bodies
    BY <1>3, MemFields, DocFields
  <2>4. n \in Mems /\ n.op = "append" /\ n.tdoc = m.tdoc /\ n.cand = NoDir /\ n.meta = m.ldoc.vers
    BY <1>3, <2>2, <2>3 DEF Mems
  <2> HIDE DEF n
  <2>5. Named(n)
    BY <2>4 DEF Named
  <2> QED
    BY <1>3, <2>1, <2>2, <2>4, <2>5, PropagateSound
<1> QED
  BY <1>6, <1>7, <1>8, <1>9, <1>10, <1>11, <1>12, <1>13, <1>14, <1>15, <1>16, <1>17, <1>18
     DEF AppendStep, CommitApplied, RecClaim, RollbackPayload, RollbackMarker

LEMMA PublishSound ==
  ASSUME Inv, NEW line, LineOK(line), AcksOK(line), NEW c \in Clients, PublishStep(c), ~VerifyMember(c)
  PROVE  SoundGo(c) /\ acked' = acked
<1>1. PICK m : mem[c] = m
  OBVIOUS
<1>2. PICK p \in Publishing : At(c, p)
  BY DEF PublishStep, PropagateRead, PropagatePut, PropagateCheck, PropagateMember, PropagateMake
<1>3. /\ m \in Mems /\ Holds(m, line) /\ m.meta # Absent /\ Fits(m.meta, line) /\ IsLine(line)
      /\ Sound(p, m)
  BY <1>1, <1>2, PublisherAt, SoundAt DEF Holds
<1>4. m.op = "append" /\ RootDoc(m.tdoc) /\ Named(m)
  BY <1>3 DEF Holds, Sound, Reporting
<1>5. \A b : [m EXCEPT !.rdoc = b].tdoc = m.tdoc /\ [m EXCEPT !.rdoc = b].cand = m.cand
             /\ [m EXCEPT !.rdoc = b].meta = m.meta /\ [m EXCEPT !.rdoc = b].op = m.op
  BY <1>3 DEF Mems
<1>6. ASSUME NEW q \in Publishing, NEW n, n.tdoc = m.tdoc, n.cand = m.cand, n.meta = m.meta, Goto(c, q, n)
      PROVE  SoundGo(c)
  <2>1. Named(n)
    BY <1>4, <1>6 DEF Named
  <2>2. Sound(q, n)
    BY <1>4, <1>6, <2>1 DEF Sound, Planned, Reporting
  <2> QED
    BY <1>6, <2>2, SoundGoes
<1>7. ASSUME NEW n, Propagate(c, m, n) PROVE SoundGo(c)
  BY <1>3, <1>4, <1>7, PropagateSound
<1>8. CASE PropagateRead(c)
  <2>1. /\ acked' = acked
        /\ \/ Propagate(c, m, m.i)
           \/ \E b : Goto(c, "propPut", [m EXCEPT !.rdoc = b])
           \/ Goto(c, "propCheck", m)
    BY <1>1, <1>8 DEF PropagateRead, Reads
  <2> QED
    BY <1>5, <1>6, <1>7, <2>1
<1>9. CASE PropagatePut(c)
  <2> DEFINE n == [m EXCEPT !.rdoc = NoDoc]
  <2>1. acked' = acked /\ Propagate(c, n, m.i)
    BY <1>1, <1>9 DEF PropagatePut
  <2>2. n \in Mems
    BY <1>3, NoMemOK DEF Mems
  <2>3. n.tdoc = m.tdoc /\ n.cand = m.cand /\ n.meta = m.meta /\ n.op = m.op
    BY <1>5
  <2> HIDE DEF n
  <2>4. Named(n)
    BY <1>4, <2>3 DEF Named
  <2> QED
    BY <1>3, <1>4, <2>1, <2>2, <2>3, <2>4, PropagateSound
<1>10. CASE PropagateCheck(c) \/ PropagateMember(c)
  <2>1. acked' = acked /\ \E q \in Publishing : Goto(c, q, m)
    BY <1>1, <1>10 DEF PropagateCheck, PropagateMember, Reads
  <2> QED
    BY <1>6, <2>1
<1>11. CASE PropagateMake(c)
  BY <1>1, <1>7, <1>11 DEF PropagateMake
<1> QED
  BY <1>8, <1>9, <1>10, <1>11 DEF PublishStep, PropagateMake

(* A member that knows of a revision never forgets it.                     *)
LEMMA KnownStays ==
  ASSUME Inv, Inv', Replaces, NEW line, LineOK(line), NEW more, LineOK(more)', Longer(more, line),
         NEW n \in Nat, n <= Len(line), NEW len \in Nat, Known(n, len, line)
  PROVE  Known(n, len, more)'
<1>1. IsLine(line) /\ Passed(line) /\ IsLine(more) /\ StoreFits(more)' /\ Len(line) \in Nat
  BY DEF LineOK, IsLine
<1>2. \A k \in 1..Len(line) : more[k] = line[k]
  BY <1>1, FitsLonger DEF Longer
<1> SUFFICES ASSUME NEW k \in 1..(n - 1) PROVE Len(vers'[more[k]].ents) >= len
  BY DEF Known
<1>3. k \in 1..Len(line) /\ k \in 1..(Len(line) - 1)
  BY <1>1
<1> DEFINE d == line[k]
<1>4. d \in Dirs /\ more[k] = d /\ vers[d] # Absent /\ Len(vers[d].ents) >= len
  BY <1>1, <1>2, <1>3, LineDirs DEF Passed, Known
<1> HIDE DEF d
<1>5. Len(vers'[d].ents) >= Len(vers[d].ents)
  BY <1>1, <1>4, IndexesGrow
<1>6. vers[d] \in Bodies /\ vers'[d] \in Bodies
  BY <1>4 DEF Inv, TypeOK
<1>7. Len(vers[d].ents) \in Nat /\ Len(vers'[d].ents) \in Nat
  BY <1>6, BodyFields, EntryTypes
<1> QED
  BY <1>4, <1>5, <1>7

LEMMA VerifiedStays ==
  ASSUME Inv, Inv', Replaces, NEW line, LineOK(line), NEW more, LineOK(more)', Longer(more, line),
         NEW c \in Clients, NEW p, NEW m, pc[c] = p, mem[c] = m, Verified(p, m, line)
  PROVE  Verified(p, m, more)'
<1> SUFFICES ASSUME p = "verify"
             PROVE  m.i \in 1..Len(m.meta.ents) /\ Known(m.i, Len(m.meta.ents), more)'
  BY DEF Verified
<1>1. m.i \in 1..Len(m.meta.ents) /\ Known(m.i, Len(m.meta.ents), line)
  BY DEF Verified
<1>2. Holds(m, line) /\ m.meta # Absent /\ m.meta \in Bodies /\ IsLine(line)
  BY PublisherAt DEF At
<1> DEFINE len == Len(m.meta.ents)
<1>3. len \in Nat /\ len <= Len(line) /\ Len(line) \in Nat
  BY <1>2, FitsParts DEF Holds, IsLine
<1> HIDE DEF len
<1>4. m.i \in Nat /\ m.i <= Len(line) /\ Known(m.i, len, line)
  BY <1>1, <1>3 DEF len
<1>5. Known(m.i, len, more)'
  BY <1>3, <1>4, KnownStays
<1> QED
  BY <1>1, <1>5 DEF len

LEMMA ReportedStays ==
  ASSUME Inv, Inv', Replaces, NEW line, LineOK(line), NEW more, LineOK(more)', Longer(more, line),
         NEW d, Reported(d, line)
  PROVE  Reported(d, more)'
<1>1. IsLine(line) /\ Len(line) \in Nat
  BY DEF LineOK, IsLine
<1>2. PICK n \in 2..Len(line) : line[n] = d /\ Known(n, n, line)
  BY DEF Reported
<1>3. n \in Nat /\ n <= Len(line) /\ n \in 1..Len(line)
  BY <1>1
<1>4. Known(n, n, more)'
  BY <1>2, <1>3, KnownStays
<1>5. more[n] = line[n] /\ n \in 2..Len(more)
  <2>1. CASE more = line
    BY <1>2, <2>1
  <2>2. CASE \E x \in Dirs : more = Append(line, x)
    BY <1>1, <1>3, <2>2, FitsLonger
  <2> QED
    BY <2>1, <2>2 DEF Longer
<1> QED
  BY <1>2, <1>4, <1>5 DEF Reported

(* A step of one writer, and a step of none.                               *)
LEMMA AcksKept ==
  ASSUME Inv, Inv', Replaces, NEW line, LineOK(line), NEW more, LineOK(more)', Longer(more, line),
         AcksOK(line),
         \A e \in Clients : \/ pc'[e] = pc[e] /\ mem'[e] = mem[e]
                            \/ Sound(pc'[e], mem'[e]) /\ Verified(pc[e], mem[e], more)',
         \A d \in acked' : d \in acked \/ Reported(d, more)'
  PROVE  AcksOK(more)'
<1>1. ASSUME NEW e \in Clients PROVE Sound(pc'[e], mem'[e]) /\ Verified(pc[e], mem[e], more)'
  <2>1. CASE pc'[e] = pc[e] /\ mem'[e] = mem[e]
    <3>1. PICK p, m : pc[e] = p /\ mem[e] = m
      OBVIOUS
    <3>2. Sound(p, m) /\ Verified(p, m, line)
      BY <3>1 DEF AcksOK
    <3>3. Verified(p, m, more)'
      BY <3>1, <3>2, VerifiedStays
    <3> QED
      BY <2>1, <3>1, <3>2, <3>3
  <2> QED
    BY <2>1
<1>2. \A d \in acked' : Reported(d, more)'
  BY ReportedStays DEF AcksOK
<1> QED
  BY <1>1, <1>2 DEF AcksOK

LEMMA SoundKeeps ==
  ASSUME Inv, Inv', Replaces, NEW line, LineOK(line), NEW more, LineOK(more)', Longer(more, line),
         AcksOK(line), NEW c \in Clients, SoundGo(c), acked' = acked
  PROVE  AcksOK(more)'
<1>1. PICK p, m : /\ Goto(c, p, m) /\ Sound(p, m)
                  /\ p = "verify" => m.i = 1 /\ 1 \in 1..Len(m.meta.ents)
  BY DEF SoundGo
<1>2. pc \in [Clients -> Labels] /\ mem \in [Clients -> Mems]
  BY DEF Inv, TypeOK
<1>3. Verified(p, m, more)'
  BY <1>1 DEF Verified, Known
<1>4. /\ pc'[c] = p /\ mem'[c] = m
      /\ \A e \in Clients : e # c => pc'[e] = pc[e] /\ mem'[e] = mem[e]
  BY <1>1, <1>2 DEF Goto
<1>5. Verified(pc[c], mem[c], more)'
  BY <1>3, <1>4
<1> QED
  BY <1>1, <1>4, <1>5, AcksKept

LEMMA VerifyKeeps ==
  ASSUME Inv, Inv', Replaces, NEW line, LineOK(line), LineOK(line)', AcksOK(line),
         NEW c \in Clients, VerifyMember(c)
  PROVE  AcksOK(line)'
<1>1. PICK m : mem[c] = m
  OBVIOUS
<1>2. At(c, "verify") /\ vers' = vers
  BY DEF VerifyMember, store
<1>3. /\ m \in Mems /\ Holds(m, line) /\ m.meta # Absent /\ m.meta \in Bodies /\ IsLine(line)
      /\ Sound("verify", m) /\ m.i \in 1..Len(m.meta.ents) /\ Known(m.i, Len(m.meta.ents), line)
  BY <1>1, <1>2, PublisherAt, SoundAt DEF Verified
<1>4. m.op = "append" /\ Named(m) /\ Fits(m.meta, line)
  BY <1>3 DEF Holds, Sound, Reporting
<1> DEFINE len == Len(m.meta.ents)
           next == NextLive(m.meta.ents, m.i)
           v == [m EXCEPT !.i = next]
<1>5. /\ len \in Nat /\ len <= Len(line) /\ Len(line) \in Nat
      /\ \A n \in 1..len : m.meta.ents[n].dir = line[n] /\ line[n] \in Dirs
  BY <1>3, <1>4, FitsParts DEF IsLine
<1>6. m.i \in 1..len /\ Known(m.i, len, line)
  BY <1>3
<1>7. Len(vers[line[m.i]].ents) >= len
  <2>1. PICK d : d = line[m.i]
    OBVIOUS
  <2>2. d = Target(m) /\ AtLeast(vers[d], Expected(m), d) /\ d \in Dirs
    BY <1>1, <1>5, <1>6, <2>1 DEF VerifyMember, Target
  <2>3. Expected(m).ents = m.meta.ents
    BY DEF Expected, IndexBody
  <2>4. vers[d].ents = m.meta.ents \/ len <= Len(vers[d].ents)
    BY <2>2, <2>3 DEF AtLeast, SameIndex, Precedes, EntsPrecede
  <2>5. Len(vers[d].ents) \in Nat
    <3>1. vers[d] \in Bodies
      BY <2>2 DEF Inv, TypeOK
    <3> QED
      BY <3>1, BodyFields, EntryTypes
  <2> QED
    BY <1>5, <2>1, <2>4, <2>5
<1>8. next = IF m.i < len THEN m.i + 1 ELSE 0
  BY <1>3, <1>4, <1>5, <1>6, NextInLine
<1>9. v.tdoc = m.tdoc /\ v.cand = m.cand /\ v.meta = m.meta /\ v.i = next
  BY <1>3 DEF Mems
<1>10. \/ next # 0 /\ Goto(c, "verify", v) /\ acked' = acked
       \/ next = 0 /\ Stop(c) /\ acked' = acked \cup ({m.cand} \ {NoDir})
  BY <1>1, <1>4 DEF VerifyMember
<1> HIDE DEF v, next
<1>11. \A k \in 1..m.i : Len(vers[line[k]].ents) >= len
  <2>1. \A k \in 1..m.i : k \in 1..(m.i - 1) \/ k = m.i
    BY <1>5, <1>6
  <2> QED
    BY <1>6, <1>7, <2>1 DEF Known
<1>12. pc \in [Clients -> Labels] /\ mem \in [Clients -> Mems] /\ Longer(line, line)
  BY DEF Inv, TypeOK, Longer
<1>13. CASE next # 0 /\ Goto(c, "verify", v) /\ acked' = acked
  <2>1. next = m.i + 1 /\ next \in 1..len
    BY <1>5, <1>6, <1>8, <1>13
  <2>2. Known(next, len, line)'
    BY <1>2, <1>5, <1>6, <1>11, <2>1 DEF Known
  <2>3. Named(v)
    BY <1>4, <1>9 DEF Named
  <2>4. Sound("verify", v) /\ Verified("verify", v, line)'
    BY <1>3, <1>9, <2>1, <2>2, <2>3 DEF Sound, Planned, Reporting, Verified
  <2>5. /\ pc'[c] = "verify" /\ mem'[c] = v
        /\ \A e \in Clients : e # c => pc'[e] = pc[e] /\ mem'[e] = mem[e]
    BY <1>12, <1>13 DEF Goto
  <2>6. Verified(pc[c], mem[c], line)'
    BY <2>4, <2>5
  <2> QED
    BY <1>12, <1>13, <2>4, <2>5, <2>6, AcksKept
<1>14. CASE next = 0 /\ Stop(c) /\ acked' = acked \cup ({m.cand} \ {NoDir})
  <2>1. m.i = len
    BY <1>5, <1>6, <1>8, <1>14
  <2>2. m.cand # NoDir => Reported(m.cand, line)'
    <3> SUFFICES ASSUME m.cand # NoDir PROVE Reported(m.cand, line)'
      OBVIOUS
    <3> DEFINE n == m.meta.cur
    <3>1. n \in 2..len /\ m.meta.ents[n].dir = m.cand
      BY <1>4 DEF Named
    <3> HIDE DEF n
    <3>2. n \in 2..Len(line) /\ line[n] = m.cand
      BY <1>5, <3>1
    <3>3. ASSUME NEW k \in 1..(n - 1) PROVE Len(vers'[line[k]].ents) >= n
      <4>1. k \in 1..m.i /\ line[k] \in Dirs
        BY <1>5, <2>1, <3>1
      <4>2. Len(vers[line[k]].ents) >= len
        BY <1>11, <4>1
      <4>3. vers[line[k]] \in Bodies
        BY <4>1 DEF Inv, TypeOK
      <4>4. Len(vers[line[k]].ents) \in Nat
        BY <4>3, BodyFields, EntryTypes
      <4> QED
        BY <1>2, <1>5, <3>1, <4>2, <4>4
    <3> QED
      BY <3>2, <3>3 DEF Reported, Known
  <2>3. NoMem.tdoc = NoDoc
    BY DEF NoMem
  <2>4. Sound("idle", NoMem) /\ Verified("idle", NoMem, line)'
    BY <2>3, NoDocRoot DEF Sound, Planned, Reporting, Verified
  <2>5. /\ pc'[c] = "idle" /\ mem'[c] = NoMem
        /\ \A e \in Clients : e # c => pc'[e] = pc[e] /\ mem'[e] = mem[e]
    BY <1>12, <1>14 DEF Stop, Goto
  <2>6. Verified(pc[c], mem[c], line)'
    BY <2>4, <2>5
  <2> QED
    BY <1>12, <1>14, <2>2, <2>4, <2>5, <2>6, AcksKept
<1> QED
  BY <1>10, <1>13, <1>14

-----------------------------------------------------------------------------
(* What is there of the revisions of the line: the marker with its number  *)
(* and chain, and the payload.  A writer puts both there before it sends   *)
(* the commit, and takes them away only from a candidate that is lost.     *)

Whole(x) == payload[x] \in Complete
Marked(x, b) == marker[x].has /\ marker[x].num = Len(b.ents) /\ marker[x].chain = b.chain

Stands(n, line) ==
  LET d == line[n] IN
  /\ marker[d].has /\ Whole(d)
  /\ IF n = 1
     THEN \/ marker[d].num = 0
          \/ marker[d].num = 1 /\ Len(line) >= 2 /\ marker[d].chain = line[2]
     ELSE marker[d].num = n /\ marker[d].chain = line[2]

Backed(p, m) == p \in Pending => Marked(m.cand, m.meta) /\ (p # "payload" => Whole(m.cand))
Carried(put) == ~Spent(put) => Marked(Ends(put.body), put.body) /\ Whole(Ends(put.body))

StandsOK(line) ==
  /\ \A n \in 1..Len(line) : Stands(n, line)
  /\ \A c \in Clients : Backed(pc[c], mem[c])
  /\ \A put \in late : Carried(put)

(* A step leaves of x what is there.                                       *)
Spares(x) == marker'[x] = marker[x] /\ (Whole(x) => payload'[x] \in Complete)

LEMMA MarkedStays ==
  ASSUME NEW x, Spares(x), NEW b
  PROVE  /\ Marked(x, b) => Marked(x, b)'
         /\ Whole(x) => Whole(x)'
BY DEF Spares, Marked, Whole

LEMMA StandsStays ==
  ASSUME NEW line, NEW n, Spares(line[n]), Stands(n, line)
  PROVE  Stands(n, line)'
BY DEF Spares, Stands, Whole

LEMMA CarriedStays ==
  ASSUME Inv, Inv', Replaces, NEW line, LineOK(line), NEW more, LineOK(more)',
         NEW put \in late, Carried(put), ~Spent(put) => Spares(Ends(put.body))
  PROVE  Carried(put)'
<1> SUFFICES ASSUME ~Spent(put)'
             PROVE  Marked(Ends(put.body), put.body)' /\ Whole(Ends(put.body))'
  BY DEF Carried
<1>1. ~Spent(put)
  BY SpentStays
<1>2. PICK x : x = Ends(put.body)
  OBVIOUS
<1>3. Marked(x, put.body)' /\ Whole(x)'
  BY <1>1, <1>2, MarkedStays DEF Carried
<1> QED
  BY <1>2, <1>3 DEF Ends

(* A step of one writer that spares everything used but bad.               *)
LEMMA StandsKept ==
  ASSUME Inv, Inv', Replaces, NEW line, LineOK(line), LineOK(line)', FatesOK(line), StandsOK(line),
         NEW c \in Clients, NEW p, NEW m, Goto(c, p, m), Backed(p, m)',
         NEW bad, \A x \in used : x # bad => Spares(x),
         \A n \in 1..Len(line) : line[n] = bad => Stands(n, line)',
         \A e \in Clients : e # c /\ pc[e] \in Pending => mem[e].cand # bad,
         \A put \in late : Ends(put.body) = bad => Spent(put),
         \A put \in late' : put \in late \/ Carried(put)'
  PROVE  StandsOK(line)'
<1>1. ASSUME NEW n \in 1..Len(line) PROVE Stands(n, line)'
  BY StandsStays DEF FatesOK, StandsOK
<1>2. ASSUME NEW put \in late' PROVE Carried(put)'
  <2>1. CASE put \in late
    <3>1. ~Spent(put) => Spares(Ends(put.body))
      BY <2>1 DEF FatesOK
    <3> QED
      BY <2>1, <3>1, CarriedStays DEF StandsOK
  <2>2. CASE Carried(put)'
    BY <2>2
  <2> QED
    BY <2>1, <2>2
<1>3. pc \in [Clients -> Labels] /\ mem \in [Clients -> Mems]
  BY DEF Inv, TypeOK
<1>4. /\ pc'[c] = p /\ mem'[c] = m
      /\ \A e \in Clients : e # c => pc'[e] = pc[e] /\ mem'[e] = mem[e]
  BY <1>3 DEF Goto
<1>5. ASSUME NEW e \in Clients PROVE Backed(pc[e], mem[e])'
  <2>1. CASE e = c
    BY <1>4, <2>1
  <2>2. CASE e # c
    <3>1. PICK q, n : pc[e] = q /\ mem[e] = n
      OBVIOUS
    <3>2. Backed(q, n) /\ (q \in Pending => n.cand \in used /\ n.cand # bad)
      BY <2>2, <3>1 DEF StandsOK, FatesOK, Fate
    <3>3. Backed(q, n)'
      BY <3>2, MarkedStays DEF Backed
    <3> QED
      BY <1>4, <2>2, <3>1, <3>3
  <2> QED
    BY <2>1, <2>2
<1> QED
  BY <1>1, <1>2, <1>5 DEF StandsOK

(* A step that takes nothing away at all.                                  *)
LEMMA StandsMoved ==
  ASSUME Inv, Inv', Replaces, NEW line \in Seq(Dirs), LineOK(line), LineOK(line)', FatesOK(line), StandsOK(line),
         NEW c \in Clients, NEW p, NEW m, Goto(c, p, m), Backed(p, m)',
         \A x \in used : Spares(x),
         \A put \in late' : put \in late \/ Carried(put)'
  PROVE  StandsOK(line)'
<1>1. NoDir \notin used
  BY NoDirAssumption DEF Inv, TypeOK
<1>2. \A n \in 1..Len(line) : line[n] # NoDir
  BY <1>1 DEF FatesOK
<1>3. \A e \in Clients : pc[e] \in Pending => mem[e].cand # NoDir
  BY <1>1 DEF FatesOK, Fate
<1>4. \A put \in late : Ends(put.body) # NoDir
  BY <1>1 DEF FatesOK
<1> QED
  BY <1>1, <1>2, <1>3, <1>4, StandsKept

LEMMA FreeStands ==
  ASSUME Inv, Inv', Replaces, NEW line \in Seq(Dirs), LineOK(line), LineOK(line)', FatesOK(line), StandsOK(line),
         NEW c \in Clients, GoesFree(c), late' = late, \A x \in used : Spares(x)
  PROVE  StandsOK(line)'
<1>1. PICK p, m : Goto(c, p, m) /\ Free(p, m)
  BY DEF GoesFree
<1>2. Backed(p, m)'
  BY <1>1 DEF Free, Backed
<1> QED
  BY <1>1, <1>2, StandsMoved

(* A pending append goes on with the same candidate.                       *)
LEMMA PendingStands ==
  ASSUME Inv, Inv', Replaces, NEW line \in Seq(Dirs), LineOK(line), LineOK(line)', FatesOK(line), StandsOK(line),
         NEW c \in Clients, NEW p \in Pending, At(c, p), NEW m, mem[c] = m,
         NEW q, NEW n, Goto(c, q, n),
         q \in Pending => n.cand = m.cand /\ n.meta = m.meta /\ p # "payload",
         UNCHANGED <<marker, payload, late>>
  PROVE  StandsOK(line)'
<1>1. Backed(p, m)
  BY DEF StandsOK, At
<1>2. Backed(q, n)'
  BY <1>1 DEF Backed, Marked, Whole
<1>3. \A x \in used : Spares(x)
  BY DEF Spares, Whole
<1> QED
  BY <1>2, <1>3, StandsMoved

(* The first revision is marked by its promotion.                          *)
LEMMA PromoteMarkerStands ==
  ASSUME Inv, Inv', Replaces, NEW line \in Seq(Dirs), LineOK(line), LineOK(line)', FatesOK(line), StandsOK(line),
         AcksOK(line), NEW c \in Clients, PromoteMarker(c)
  PROVE  StandsOK(line)'
<1>1. PICK m : mem[c] = m
  OBVIOUS
<1>2. /\ At(c, "promMarker") /\ Goto(c, "promPage", m) /\ UNCHANGED <<payload, late>>
      /\ marker' = [marker EXCEPT ![m.rdoc.dir] = RevisionMarker(m.rdoc.vers.chain, 1, NoDir)]
  BY <1>1 DEF PromoteMarker
<1>3. m \in Mems /\ Fits(m.rdoc.vers, line) /\ IsLine(line) /\ Sound("promMarker", m)
  BY <1>1, <1>2, SoundAt DEF LocalFits
<1>4. m.rdoc.dir = Root /\ m.rdoc.vers # Absent /\ m.rdoc.vers \in Bodies
  BY <1>3, MemFields, DocFields DEF Sound
<1>5. Len(line) >= 2 /\ m.rdoc.vers.chain = line[2] /\ line[1] = Root /\ Len(line) \in Nat
  <2>1. Len(m.rdoc.vers.ents) \in Nat
    BY <1>4, BodyFields, EntryTypes
  <2> QED
    BY <1>3, <1>4, <2>1 DEF Fits, IsLine
<1>6. marker \in [Dirs -> Markers]
  BY DEF Inv, TypeOK
<1>7. /\ marker'[Root].has /\ marker'[Root].num = 1 /\ marker'[Root].chain = line[2]
      /\ \A x \in Dirs : x # Root => marker'[x] = marker[x]
  BY <1>2, <1>4, <1>5, <1>6, RootAssumption DEF RevisionMarker
<1>8. \A x \in used : x # Root => Spares(x)
  <2>1. used \subseteq Dirs
    BY DEF Inv, TypeOK
  <2> QED
    BY <1>2, <1>7, <2>1 DEF Spares, Whole
<1>9. marker[Root].num \in {0, 1} /\ Whole(Root)
  <2>1. Stands(1, line)
    BY <1>5 DEF StandsOK
  <2> QED
    BY <1>5, <2>1 DEF Stands
<1>10. ASSUME NEW n \in 1..Len(line), line[n] = Root PROVE Stands(n, line)'
  <2>1. Stands(n, line)
    BY DEF StandsOK
  <2>2. n = 1
    BY <1>9, <1>10, <2>1 DEF Stands
  <2> QED
    BY <1>2, <1>5, <1>7, <1>9, <2>2 DEF Stands, Whole
<1>11. ASSUME NEW e \in Clients, pc[e] \in Pending PROVE mem[e].cand # Root
  <2>1. PICK q, n : pc[e] = q /\ mem[e] = n
    OBVIOUS
  <2>2. Len(n.meta.ents) \in Nat /\ Len(n.meta.ents) >= 2
    BY <1>11, <2>1, PendingSound DEF At
  <2>3. Marked(n.cand, n.meta)
    BY <1>11, <2>1 DEF StandsOK, Backed
  <2> QED
    BY <1>9, <2>1, <2>2, <2>3 DEF Marked
<1>12. ASSUME NEW put \in late, Ends(put.body) = Root PROVE Spent(put)
  <2>1. put.match \in Bodies /\ put.body \in Bodies /\ LateFits(put, line)
    BY LateParts
  <2>2. Len(put.body.ents) \in Nat /\ Len(put.body.ents) >= 2
    BY <2>1, ExtendsLength DEF LateFits
  <2>3. ~Spent(put) => Marked(Root, put.body)
    BY <1>12 DEF StandsOK, Carried
  <2> QED
    BY <1>9, <2>2, <2>3 DEF Marked
<1>13. Backed("promPage", m)'
  BY DEF Backed
<1> QED
  BY <1>2, <1>8, <1>10, <1>11, <1>12, <1>13, StandsKept

LEMMA PrepareStands ==
  ASSUME Inv, Inv', Replaces, NEW line \in Seq(Dirs), LineOK(line), LineOK(line)', FatesOK(line), StandsOK(line),
         AcksOK(line), NEW c \in Clients, PrepareStep(c)
  PROVE  StandsOK(line)'
<1>1. CASE PromoteMarker(c)
  BY <1>1, PromoteMarkerStands
<1>2. CASE RepairPage(c) \/ PromotePage(c)
  <2>1. PICK x : payload' = [payload EXCEPT ![x] = "linked"] /\ marker' = marker
    BY <1>2 DEF RepairPage, PromotePage
  <2>2. payload \in [Dirs -> Payloads] /\ used \subseteq Dirs
    BY DEF Inv, TypeOK
  <2>3. \A y \in used : Spares(y)
    BY <2>1, <2>2 DEF Spares, Whole, Complete
  <2> QED
    BY <2>3, PrepareFree, FreeStands
<1>3. CASE /\ ~PromoteMarker(c) /\ ~RepairPage(c) /\ ~PromotePage(c)
  <2>1. marker' = marker /\ payload' = payload
    BY <1>3 DEF PrepareStep, Reload, First, Follow, FixRead, FixPut, FixReceipt,
       FixWitness, PromoteVerify, Reads, store
  <2>2. \A y \in used : Spares(y)
    BY <2>1 DEF Spares, Whole
  <2> QED
    BY <2>2, PrepareFree, FreeStands
<1> QED
  BY <1>1, <1>2, <1>3

LEMMA PublishStands ==
  ASSUME Inv, Inv', Replaces, NEW line \in Seq(Dirs), LineOK(line), LineOK(line)', FatesOK(line), StandsOK(line),
         NEW c \in Clients,
         \/ PublishStep(c) \/ NewIndex(c) \/ PlanUnchanged(c) \/ GiveUp(c)
         \/ \E d \in Dirs : AppendStart(c, d)
  PROVE  StandsOK(line)'
<1>1. marker' = marker /\ payload' = payload
  BY DEF PublishStep, PropagateRead, PropagatePut, PropagateCheck, PropagateMember,
     PropagateMake, VerifyMember, NewIndex, PlanUnchanged, GiveUp, AppendStart, Reads, store
<1>2. \A y \in used : Spares(y)
  BY <1>1 DEF Spares, Whole
<1> QED
  BY <1>2, PublishFree, FreeStands

(* The marker of a candidate carries the number and the chain of its       *)
(* metadata.                                                               *)
LEMMA PutMarkerStands ==
  ASSUME Inv, Inv', Replaces, NEW line \in Seq(Dirs), LineOK(line), LineOK(line)', FatesOK(line), StandsOK(line),
         NEW c \in Clients, NEW d \in Dirs, PutMarker(c, d)
  PROVE  StandsOK(line)'
<1>1. PICK m : mem[c] = m
  OBVIOUS
<1>2. PICK chain, num, prev, ents, ser, skip :
        /\ marker' = [marker EXCEPT ![d] = RevisionMarker(chain, num, prev)]
        /\ Goto(c, "payload", [m EXCEPT !.cand = d, !.meta = IndexBody(chain, num, ents),
                                        !.ser = ser, !.skip = skip])
  BY <1>1 DEF PutMarker
<1>3. m \in Mems /\ d \notin used /\ UNCHANGED <<payload, late>>
  BY <1>1, UpdaterAt DEF PutMarker
<1> DEFINE q == [m EXCEPT !.cand = d, !.meta = IndexBody(chain, num, ents), !.ser = ser, !.skip = skip]
<1>4. q.cand = d /\ q.meta = IndexBody(chain, num, ents)
  BY <1>3 DEF Mems
<1>5. Goto(c, "payload", q)
  BY <1>2
<1> HIDE DEF q
<1>6. pc'[c] = "payload" /\ mem'[c] = q
  BY <1>5 DEF Inv, TypeOK, Goto
<1>7. UpdaterOK("payload", q)
  BY <1>6 DEF LineOK, LocalFits
<1>8. q.meta.cur = Len(q.meta.ents) /\ q.meta.cur = num /\ q.meta.chain = chain
  BY <1>4, <1>7 DEF UpdaterOK, IndexBody
<1>9. marker \in [Dirs -> Markers]
  BY DEF Inv, TypeOK
<1>10. Backed("payload", q)'
  BY <1>2, <1>4, <1>8, <1>9 DEF Backed, Marked, RevisionMarker
<1>11. \A x \in used : Spares(x)
  <2>1. used \subseteq Dirs
    BY DEF Inv, TypeOK
  <2> QED
    BY <1>2, <1>3, <1>9, <2>1 DEF Spares, Whole
<1> QED
  BY <1>3, <1>5, <1>10, <1>11, StandsMoved

LEMMA PutPayloadStands ==
  ASSUME Inv, Inv', Replaces, NEW line \in Seq(Dirs), LineOK(line), LineOK(line)', FatesOK(line), StandsOK(line),
         NEW c \in Clients, PutPayload(c)
  PROVE  StandsOK(line)'
<1>1. PICK m : mem[c] = m
  OBVIOUS
<1>2. /\ At(c, "payload") /\ Goto(c, "commit", m) /\ UNCHANGED <<marker, late>>
      /\ payload' = [payload EXCEPT ![m.cand] = "linked"]
  BY <1>1 DEF PutPayload
<1>3. m.cand \in Dirs /\ payload \in [Dirs -> Payloads] /\ used \subseteq Dirs
  BY <1>1, <1>2, PendingAt DEF Inv, TypeOK
<1>4. Marked(m.cand, m.meta)
  BY <1>1, <1>2 DEF StandsOK, Backed, At
<1>5. Backed("commit", m)'
  BY <1>2, <1>3, <1>4 DEF Backed, Marked, Whole, Complete
<1>6. \A x \in used : Spares(x)
  BY <1>2, <1>3 DEF Spares, Whole, Complete
<1> QED
  BY <1>2, <1>5, <1>6, StandsMoved

(* A request that may still arrive announces a revision that is all there. *)
LEMMA CommitUnknownStands ==
  ASSUME Inv, Inv', Replaces, NEW line \in Seq(Dirs), LineOK(line), LineOK(line)', FatesOK(line), StandsOK(line),
         NEW c \in Clients, CommitUnknown(c)
  PROVE  StandsOK(line)'
<1>1. PICK m : mem[c] = m
  OBVIOUS
<1>2. PICK body : body = CommitBody(m)
  OBVIOUS
<1> DEFINE new == [dir |-> m.ser, match |-> m.ldoc.vers, body |-> body]
<1>3. /\ At(c, "commit") /\ Goto(c, "recRead", m) /\ late' = late \cup {new}
      /\ UNCHANGED <<marker, payload>>
  BY <1>1, <1>2 DEF CommitUnknown
<1>4. /\ LocalFits("commit", m, line) /\ m \in Mems /\ m.meta \in Bodies /\ m.cand \in Dirs
      /\ m.ldoc.vers \in Bodies
  BY <1>1, <1>3, PendingAt, MemFields
<1>5. body.ents = m.meta.ents /\ body.chain = m.meta.chain
  BY <1>2 DEF CommitBody, IndexBody
<1>6. Ends(body) = m.cand
  <2>1. Extends(m.ser, m.ldoc.vers, m.cand, m.meta)
    BY <1>4 DEF LocalFits, UpdaterOK
  <2> QED
    BY <1>4, <1>5, <2>1, ExtendsEnds DEF Ends
<1>7. Marked(m.cand, m.meta) /\ Whole(m.cand)
  BY <1>1, <1>3 DEF StandsOK, Backed, At
<1>8. Backed("recRead", m)' /\ Marked(m.cand, body)' /\ Whole(m.cand)'
  BY <1>3, <1>5, <1>7 DEF Backed, Marked, Whole
<1>9. new.body = body
  OBVIOUS
<1> HIDE DEF new
<1>10. Carried(new)'
  <2>1. Ends(new.body) = m.cand
    BY <1>6, <1>9
  <2> QED
    BY <1>8, <1>9, <2>1 DEF Carried
<1>11. \A x \in used : Spares(x)
  BY <1>3 DEF Spares, Whole
<1> QED
  BY <1>3, <1>8, <1>10, <1>11, StandsMoved

(* A step that spares everything but a lost candidate.                     *)
LEMMA StandsLose ==
  ASSUME Inv, Inv', Replaces, NEW line \in Seq(Dirs), LineOK(line), LineOK(line)', FatesOK(line), StandsOK(line),
         NEW c \in Clients, NEW q, NEW n, Goto(c, q, n), Backed(q, n)', late' = late,
         NEW bad, Dead(bad, line), \A x \in used : x # bad => Spares(x),
         \A e \in Clients : e # c /\ pc[e] \in Pending => mem[e].cand # bad
  PROVE  StandsOK(line)'
<1>1. \A i \in 1..Len(line) : line[i] = bad => Stands(i, line)'
  BY DEF Dead, Told
<1>2. \A put \in late : Ends(put.body) = bad => Spent(put)
  BY DEF Dead, Lost
<1> QED
  BY <1>1, <1>2, StandsKept

(* The rollback takes away what nobody can announce any more.              *)
LEMMA RollbackStands ==
  ASSUME Inv, Inv', Replaces, NEW line \in Seq(Dirs), LineOK(line), LineOK(line)', FatesOK(line), StandsOK(line),
         NEW c \in Clients, RollbackPayload(c) \/ RollbackMarker(c)
  PROVE  StandsOK(line)'
<1>1. PICK m : mem[c] = m
  OBVIOUS
<1>2. PICK p \in Undone : At(c, p)
  BY DEF RollbackPayload, RollbackMarker
<1>3. PICK q \in {"idle", "rbMarker"}, n \in {m, NoMem} : Goto(c, q, n)
  BY <1>1 DEF RollbackPayload, RollbackMarker, Stop
<1>4. late' = late /\ \A x \in used : x # m.cand => Spares(x)
  <2>1. used \subseteq Dirs /\ marker \in [Dirs -> Markers] /\ payload \in [Dirs -> Payloads]
    BY DEF Inv, TypeOK
  <2> QED
    BY <1>1, <2>1 DEF RollbackPayload, RollbackMarker, Spares, Whole
<1>5. Dead(m.cand, line)
  BY <1>1, <1>2 DEF FatesOK, Fate, At
<1>6. \A e \in Clients : e # c /\ pc[e] \in Pending => mem[e].cand # m.cand
  BY <1>1, <1>2 DEF FatesOK, Apart, At
<1>7. Backed(q, n)'
  BY DEF Backed
<1> QED
  BY <1>3, <1>4, <1>5, <1>6, <1>7, StandsLose

(* A step of a pending append that announces and claims nothing.           *)
LEMMA ReconcileStands ==
  ASSUME Inv, Inv', Replaces, NEW line \in Seq(Dirs), LineOK(line), LineOK(line)', FatesOK(line), StandsOK(line),
         NEW c \in Clients,
         \/ PutPayloadFails(c) \/ CommitRefused(c) \/ RecRead(c) \/ RecCand(c) \/ RecReread(c)
         \/ RecRetry(c) /\ vers[mem[c].ser] # Absent
  PROVE  StandsOK(line)'
<1>1. PICK m : mem[c] = m
  OBVIOUS
<1>2. UNCHANGED <<marker, payload, late>>
  BY DEF PutPayloadFails, CommitRefused, RecRead, RecCand, RecReread, RecRetry, Reads, store
<1>3. PICK p \in Pending : At(c, p)
  BY DEF PutPayloadFails, CommitRefused, RecRead, RecCand, RecReread, RecRetry
<1>4. m \in Mems
  BY <1>1, <1>3, PendingAt
<1>5. ASSUME NEW b, Committed(c, m, b) PROVE StandsOK(line)'
  <2>1. \A x \in used : Spares(x)
    BY <1>2 DEF Spares, Whole
  <2> QED
    BY <1>2, <1>4, <1>5, <2>1, CommittedFree, FreeStands
<1>6. ASSUME NEW q, NEW n, Goto(c, q, n), n.cand = m.cand /\ n.meta = m.meta,
             q \in Pending => p # "payload"
      PROVE  StandsOK(line)'
  BY <1>1, <1>2, <1>3, <1>6, PendingStands
<1>7. \A b : /\ [m EXCEPT !.obs = b].cand = m.cand /\ [m EXCEPT !.obs = b].meta = m.meta
             /\ [m EXCEPT !.conflict = b].cand = m.cand /\ [m EXCEPT !.conflict = b].meta = m.meta
  BY <1>4 DEF Mems
<1>8. CASE PutPayloadFails(c)
  BY <1>1, <1>6, <1>8 DEF PutPayloadFails
<1>9. CASE CommitRefused(c)
  <2>1. At(c, "commit") /\ Goto(c, "recRead", [m EXCEPT !.conflict = TRUE])
    BY <1>1, <1>9 DEF CommitRefused
  <2> QED
    BY <1>3, <1>6, <1>7, <2>1 DEF At
<1>10. CASE RecRead(c)
  <2>1. At(c, "recRead") /\ \E b : Committed(c, m, b) \/ Goto(c, "recCand", [m EXCEPT !.obs = b])
    BY <1>1, <1>10 DEF RecRead
  <2> QED
    BY <1>3, <1>5, <1>6, <1>7, <2>1 DEF At
<1>11. CASE RecCand(c)
  <2>1. At(c, "recCand") /\ ((\E b : Committed(c, m, b)) \/ \E q : Goto(c, q, m))
    BY <1>1, <1>11 DEF RecCand
  <2> QED
    BY <1>3, <1>5, <1>6, <2>1 DEF At
<1>12. CASE RecReread(c)
  <2>1. At(c, "recReread") /\ ((\E b : Committed(c, m, b)) \/ \E q : Goto(c, q, m))
    BY <1>1, <1>12 DEF RecReread
  <2> QED
    BY <1>3, <1>5, <1>6, <2>1 DEF At
<1>13. CASE RecRetry(c) /\ vers[mem[c].ser] # Absent
  <2>1. At(c, "recRetry") /\ Goto(c, "recReread", m)
    BY <1>1, <1>13 DEF RecRetry
  <2> QED
    BY <1>3, <1>6, <2>1 DEF At
<1> QED
  BY <1>8, <1>9, <1>10, <1>11, <1>12, <1>13

LEMMA QuietStands ==
  ASSUME Inv, Inv', Replaces, NEW line \in Seq(Dirs), LineOK(line), LineOK(line)', FatesOK(line), StandsOK(line),
         AcksOK(line), NEW c \in Clients,
         \/ \E d \in Dirs : AppendStart(c, d)
         \/ Step(c) /\ ~Announcing(c) /\ ~RecClaim(c)
         \/ GiveUp(c)
  PROVE  StandsOK(line)'
<1>1. CASE (\E d \in Dirs : AppendStart(c, d)) \/ GiveUp(c) \/ PublishStep(c)
  BY <1>1, PublishStands
<1>2. CASE PrepareStep(c)
  BY <1>2, PrepareStands
<1>3. CASE AppendStep(c) /\ ~Announcing(c) /\ ~RecClaim(c)
  <2>1. CASE \E d \in Dirs : PutMarker(c, d)
    BY <2>1, PutMarkerStands
  <2>2. CASE PutPayload(c)
    BY <2>2, PutPayloadStands
  <2>3. CASE CommitUnknown(c)
    BY <2>3, CommitUnknownStands
  <2>4. CASE PutPayloadFails(c) \/ CommitRefused(c) \/ RecRead(c) \/ RecCand(c) \/ RecReread(c)
    BY <2>4, ReconcileStands
  <2>5. CASE RecRetry(c)
    BY <1>3, <2>5, ReconcileStands DEF Announcing
  <2>6. CASE RollbackPayload(c) \/ RollbackMarker(c)
    BY <2>6, RollbackStands
  <2>7. CASE NewIndex(c) \/ PlanUnchanged(c)
    BY <2>7, PublishStands
  <2> QED
    BY <1>3, <2>1, <2>2, <2>3, <2>4, <2>5, <2>6, <2>7 DEF AppendStep, Announcing
<1> QED
  BY <1>1, <1>2, <1>3, NoDeletion DEF Step

-----------------------------------------------------------------------------
(* An announcement.                                                        *)

(* Whoever announces x puts a revision that is all there on the line.      *)
LEMMA StandsGrow ==
  ASSUME Inv, Inv', Replaces, NEW line \in Seq(Dirs), LineOK(line), FatesOK(line), StandsOK(line),
         NEW x \in Dirs, LineOK(Append(line, x))', NEW b \in Bodies, b # Absent,
         Fits(b, Append(line, x)), Len(b.ents) = Len(line) + 1,
         Marked(x, b), Whole(x), UNCHANGED <<marker, payload>>, late' \subseteq late,
         \A e \in Clients : Backed(pc[e], mem[e])'
  PROVE  StandsOK(Append(line, x))'
<1> DEFINE more == Append(line, x)
           len == Len(line)
<1>1. /\ IsLine(line) /\ len \in Nat /\ len >= 1 /\ Len(more) = len + 1 /\ more[len + 1] = x
      /\ \A n \in 1..len : more[n] = line[n]
  BY FitsLonger DEF LineOK, IsLine
<1>2. b.chain = more[2] /\ Len(more) >= 2
  BY <1>1 DEF Fits
<1> HIDE DEF more
<1>3. \A y : Spares(y)
  BY DEF Spares, Whole
<1>4. ASSUME NEW n \in 1..Len(more) PROVE Stands(n, more)'
  <2>1. CASE n = len + 1
    <3>1. more[n] = x /\ n # 1
      BY <1>1, <2>1
    <3>2. marker[x].has /\ marker[x].num = n /\ marker[x].chain = more[2] /\ Whole(x)
      BY <1>2, <2>1 DEF Marked, len
    <3> QED
      BY <3>1, <3>2 DEF Stands, Whole
  <2>2. CASE n # len + 1
    <3>1. n \in 1..len /\ more[n] = line[n]
      BY <1>1, <2>2
    <3>2. Stands(n, line)
      BY <3>1 DEF StandsOK, len
    <3>3. len >= 2 => more[2] = line[2]
      BY <1>1
    <3>4. n # 1 => len >= 2
      BY <1>1, <3>1
    <3> QED
      BY <1>2, <3>1, <3>2, <3>3, <3>4 DEF Stands, Whole, len
  <2> QED
    BY <2>1, <2>2
<1>5. ASSUME NEW put \in late' PROVE Carried(put)'
  <2>1. put \in late /\ Carried(put)
    BY DEF StandsOK
  <2> QED
    BY <1>3, <2>1, CarriedStays
<1> QED
  BY <1>4, <1>5 DEF StandsOK, more

LEMMA AnnouncingStands ==
  ASSUME Inv, Inv', Replaces, NEW line \in Seq(Dirs), LineOK(line), FatesOK(line), StandsOK(line),
         NEW c \in Clients, NEW m, mem[c] = m, Announcing(c), LineOK(Append(line, m.cand))'
  PROVE  StandsOK(Append(line, m.cand))'
<1> DEFINE more == Append(line, m.cand)
<1>1. PICK at \in {"commit", "recRetry"} :
        /\ At(c, at) /\ PutVers(m.ser, m.ldoc.vers, CommitBody(m))
        /\ UNCHANGED <<marker, payload, late>>
        /\ \/ Committed(c, m, m.meta)
           \/ Goto(c, "recRead", [m EXCEPT !.conflict = TRUE])
  <2>1. CASE CommitApplied(c) \/ CommitEchoed(c)
    BY <2>1 DEF CommitApplied, CommitEchoed
  <2>2. CASE RecRetry(c) /\ vers[m.ser] = Absent
    <3>1. At(c, "recRetry") /\ m.ldoc.vers = Absent
      BY <2>2 DEF RecRetry, FatesOK, Fate, At
    <3> QED
      BY <2>2, <3>1 DEF RecRetry, PutVers
  <2> QED
    BY <2>1, <2>2 DEF Announcing
<1>2. /\ m \in Mems /\ m.cand \in Dirs /\ IsLine(line) /\ LocalFits(at, m, line) /\ m.meta \in Bodies
      /\ m.ser \in Dirs /\ m.ldoc.vers \in Bodies /\ Fits(m.ldoc.vers, line)
  BY <1>1, PendingAt, MemFields
<1>3. Fits(m.meta, more) /\ m.meta # Absent /\ Len(m.meta.ents) = Len(line) + 1
  <2>1. Extends(m.ser, m.ldoc.vers, m.cand, m.meta) /\ vers[m.ser] = m.ldoc.vers
    BY <1>1, <1>2 DEF LocalFits, UpdaterOK, PutVers
  <2> QED
    BY <1>2, <2>1, CommitFits
<1> HIDE DEF more
<1>4. Backed(at, m)
  BY <1>1 DEF StandsOK, At
<1>5. Marked(m.cand, m.meta) /\ Whole(m.cand)
  BY <1>1, <1>4 DEF Backed
<1>6. \A p, n : Backed(p, n) => Backed(p, n)'
  BY <1>1 DEF Backed, Marked, Whole
<1>7. PICK q, n : Goto(c, q, n) /\ Backed(q, n)'
  <2>1. CASE Committed(c, m, m.meta)
    <3>1. PICK p, n : Goto(c, p, n) /\ Free(p, n)
      BY <1>2, <2>1, CommittedFree DEF GoesFree
    <3> QED
      BY <3>1 DEF Free, Backed
  <2>2. CASE Goto(c, "recRead", [m EXCEPT !.conflict = TRUE])
    <3> DEFINE n == [m EXCEPT !.conflict = TRUE]
    <3>1. n.cand = m.cand /\ n.meta = m.meta /\ Goto(c, "recRead", n)
      BY <1>2, <2>2 DEF Mems
    <3> HIDE DEF n
    <3>2. Backed("recRead", n)'
      BY <1>1, <1>5, <3>1 DEF Backed, Marked, Whole
    <3> QED
      BY <3>1, <3>2
  <2> QED
    BY <1>1, <2>1, <2>2
<1>8. ASSUME NEW e \in Clients PROVE Backed(pc[e], mem[e])'
  <2>1. /\ pc'[c] = q /\ mem'[c] = n
        /\ \A d \in Clients : d # c => pc'[d] = pc[d] /\ mem'[d] = mem[d]
    BY <1>7 DEF Inv, TypeOK, Goto
  <2>2. CASE e = c
    BY <1>7, <2>1, <2>2
  <2>3. CASE e # c
    <3>1. PICK p, k : pc[e] = p /\ mem[e] = k
      OBVIOUS
    <3>2. Backed(p, k)'
      BY <1>6, <3>1 DEF StandsOK
    <3> QED
      BY <2>1, <2>3, <3>1, <3>2
  <2> QED
    BY <2>2, <2>3
<1> QED
  BY <1>1, <1>2, <1>3, <1>5, <1>8, StandsGrow DEF more

LEMMA DeliverStands ==
  ASSUME Inv, Inv', Replaces, NEW line \in Seq(Dirs), LineOK(line), FatesOK(line), StandsOK(line),
         NEW put \in late, DeliverLate(put), vers[put.dir] = put.match,
         NEW x \in Dirs, Extends(put.dir, put.match, x, put.body), LineOK(Append(line, x))'
  PROVE  StandsOK(Append(line, x))'
<1>1. /\ put.dir \in Dirs /\ put.match \in Bodies /\ put.body \in Bodies
      /\ LateFits(put, line) /\ (put.match # Absent => Len(put.match.ents) \in Nat)
  BY LateParts
<1>2. Ends(put.body) = x
  BY <1>1, ExtendsEnds DEF Ends
<1>3. ~Spent(put)
  BY <1>1 DEF Spent
<1>4. Marked(x, put.body) /\ Whole(x)
  BY <1>2, <1>3 DEF StandsOK, Carried
<1>5. Fits(put.body, Append(line, x)) /\ put.body # Absent /\ Len(put.body.ents) = Len(line) + 1
  BY <1>1, CommitFits DEF LateFits
<1>6. UNCHANGED <<marker, payload, pc, mem>> /\ late' \subseteq late
  BY DEF DeliverLate
<1>7. ASSUME NEW e \in Clients PROVE Backed(pc[e], mem[e])'
  <2>1. PICK p, k : pc[e] = p /\ mem[e] = k
    OBVIOUS
  <2>2. Backed(p, k)'
    BY <1>6, <2>1 DEF StandsOK, Backed, Marked, Whole
  <2> QED
    BY <1>6, <2>1, <2>2
<1> QED
  BY <1>1, <1>4, <1>5, <1>6, <1>7, StandsGrow

LEMMA LateStands ==
  ASSUME Inv, Inv', Replaces, NEW line \in Seq(Dirs), LineOK(line), LineOK(line)', StandsOK(line),
         NEW put \in late, DeliverLate(put)
  PROVE  StandsOK(line)'
<1>1. UNCHANGED <<marker, payload, pc, mem>> /\ late' \subseteq late
  BY DEF DeliverLate
<1>2. \A y : Spares(y)
  BY <1>1 DEF Spares, Whole
<1>3. ASSUME NEW n \in 1..Len(line) PROVE Stands(n, line)'
  BY <1>2, StandsStays DEF StandsOK
<1>4. ASSUME NEW e \in Clients PROVE Backed(pc[e], mem[e])'
  <2>1. PICK p, k : pc[e] = p /\ mem[e] = k
    OBVIOUS
  <2>2. Backed(p, k)'
    BY <1>1, <2>1 DEF StandsOK, Backed, Marked, Whole
  <2> QED
    BY <1>1, <2>1, <2>2
<1>5. ASSUME NEW r \in late' PROVE Carried(r)'
  <2>1. r \in late /\ Carried(r)
    BY <1>1 DEF StandsOK
  <2> QED
    BY <1>2, <2>1, CarriedStays
<1> QED
  BY <1>3, <1>4, <1>5 DEF StandsOK

(* What is reported and verified, in a step that announces nothing.        *)
LEMMA QuietAcks ==
  ASSUME Inv, Inv', Replaces, NEW line \in Seq(Dirs), LineOK(line), NEW more, LineOK(more)', Longer(more, line),
         AcksOK(line), NEW c \in Clients,
         \/ \E d \in Dirs : AppendStart(c, d)
         \/ Step(c) /\ (VerifyMember(c) => more = line)
         \/ GiveUp(c)
  PROVE  AcksOK(more)'
<1>1. ASSUME SoundGo(c), acked' = acked PROVE AcksOK(more)'
  BY <1>1, SoundKeeps
<1>2. CASE \E d \in Dirs : AppendStart(c, d)
  <2>1. PICK d \in Dirs : AppendStart(c, d)
    BY <1>2
  <2> DEFINE n == [NoMem EXCEPT !.op = "append"]
  <2>2. n \in Mems /\ n.op = "append"
    BY NoMemOK DEF Mems
  <2>3. Loads(d) /\ Loaded(c, n, Load(d)) /\ acked' = acked
    BY <2>1 DEF AppendStart, Reads
  <2> HIDE DEF n
  <2> QED
    BY <1>1, <2>2, <2>3, LoadRoot, LoadedSound
<1>3. CASE GiveUp(c)
  BY <1>1, <1>3, StopSound DEF GiveUp, Reads
<1>4. CASE PrepareStep(c)
  BY <1>1, <1>4, PrepareSound
<1>5. CASE AppendStep(c)
  BY <1>1, <1>5, AppendSound
<1>6. CASE PublishStep(c) /\ ~VerifyMember(c)
  BY <1>1, <1>6, PublishSound
<1>7. CASE VerifyMember(c) /\ more = line
  BY <1>7, VerifyKeeps
<1> QED
  BY <1>2, <1>3, <1>4, <1>5, <1>6, <1>7, NoDeletion DEF Step

LEMMA LateAcks ==
  ASSUME Inv, Inv', Replaces, NEW line, LineOK(line), NEW more, LineOK(more)', Longer(more, line),
         AcksOK(line), NEW put \in late, DeliverLate(put)
  PROVE  AcksOK(more)'
<1>1. pc' = pc /\ mem' = mem /\ acked' = acked
  BY DEF DeliverLate
<1> QED
  BY <1>1, AcksKept

-----------------------------------------------------------------------------
(* Every step.                                                             *)

(* The inductive invariant.                                                *)
OneFate ==
  \E line \in Seq(Dirs) :
    /\ LineOK(line) /\ AcksOK(line)
    /\ claims = 0 => FatesOK(line) /\ StandsOK(line)

LEMMA InitOneFate ==
  ASSUME Init
  PROVE  OneFate
<1>1. PICK line \in Seq(Dirs) : LineOK(line)
  BY InitOneLine DEF OneLine
<1>2. /\ late = {} /\ cleaned = {} /\ acked = {} /\ Root \in used
      /\ \A c \in Clients : pc[c] = "idle" /\ mem[c] = NoMem
      /\ \A d \in Dirs : vers[d] = Absent
  BY DEF Init
<1>3. Len(line) = 1 /\ line[1] = Root
  <2>1. IsLine(line) /\ Passed(line) /\ Len(line) \in Nat
    BY <1>1 DEF LineOK, IsLine
  <2>2. Len(line) >= 1 /\ line[1] = Root
    BY <2>1 DEF IsLine
  <2>3. \A n \in 1..(Len(line) - 1) : vers[line[n]] # Absent
    BY <2>1 DEF Passed
  <2>4. ~(1 \in 1..(Len(line) - 1))
    BY <1>2, <2>2, <2>3, RootAssumption
  <2> DEFINE len == Len(line)
  <2>5. len \in Nat /\ len >= 1 /\ ~(1 \in 1..(len - 1))
    BY <2>1, <2>2, <2>4
  <2> HIDE DEF len
  <2>6. len = 1
    BY <2>5
  <2> QED
    BY <2>2, <2>6 DEF len
<1>4. \A n \in 1..Len(line) : line[n] \in used
  BY <1>2, <1>3
<1>5. \A c \in Clients : Fate(pc[c], mem[c], line)
  BY <1>2 DEF Fate, Planning
<1>6. Apart
  BY <1>2 DEF Apart
<1>7. FatesOK(line)
  BY <1>2, <1>4, <1>5, <1>6 DEF FatesOK
<1>8. AcksOK(line)
  <2>1. NoMem.tdoc = NoDoc
    BY DEF NoMem
  <2>2. Sound("idle", NoMem) /\ Verified("idle", NoMem, line)
    BY <2>1, NoDocRoot DEF Sound, Planned, Reporting, Verified
  <2> QED
    BY <1>2, <2>2 DEF AcksOK
<1>9. StandsOK(line)
  <2>1. marker[Root] = StandaloneMarker /\ payload[Root] = "alone"
    BY RootAssumption DEF Init
  <2>2. Stands(1, line)
    BY <1>3, <2>1 DEF Stands, Whole, StandaloneMarker, Complete
  <2>3. \A n \in 1..Len(line) : n = 1
    BY <1>3
  <2>4. \A c \in Clients : Backed(pc[c], mem[c])
    BY <1>2 DEF Backed
  <2> QED
    BY <1>2, <2>2, <2>3, <2>4 DEF StandsOK
<1> QED
  BY <1>1, <1>7, <1>8, <1>9 DEF OneFate

LEMMA FatesUnchanged ==
  ASSUME NEW line, FatesOK(line), UNCHANGED vars
  PROVE  FatesOK(line)'
<1>1. \A put \in late : Spent(put)' <=> Spent(put)
  BY DEF vars, Spent
<1>2. ASSUME NEW x PROVE Lost(x)' <=> Lost(x)
  BY <1>1 DEF vars, Lost
<1>3. ASSUME NEW c \in Clients PROVE Fate(pc[c], mem[c], line)'
  <2>1. PICK p, m : pc[c] = p /\ mem[c] = m
    OBVIOUS
  <2>2. Fate(p, m, line)
    BY <2>1 DEF FatesOK
  <2>3. Fate(p, m, line)'
    BY <1>2, <2>2 DEF vars, Fate, Open, Unsent, Dead, Told
  <2> QED
    BY <2>1, <2>3 DEF vars
<1>4. Apart'
  BY DEF vars, FatesOK, Apart
<1>5. ASSUME NEW x \in cleaned PROVE Buried(x, line)'
  BY <1>2 DEF vars, FatesOK, Buried, Dead
<1> QED
  BY <1>3, <1>4, <1>5 DEF vars, FatesOK

LEMMA AcksUnchanged ==
  ASSUME NEW line, UNCHANGED vars
  PROVE  /\ AcksOK(line) => AcksOK(line)'
         /\ StandsOK(line) => StandsOK(line)'
<1>1. AcksOK(line) => AcksOK(line)'
  BY DEF vars, AcksOK, Verified, Reported, Known
<1>2. StandsOK(line) => StandsOK(line)'
  <2>1. \A n : Stands(n, line) => Stands(n, line)'
    BY DEF vars, Stands, Whole
  <2>2. \A c \in Clients : Backed(pc[c], mem[c]) => Backed(pc[c], mem[c])'
    BY DEF vars, Backed, Marked, Whole
  <2>3. \A put : Carried(put) => Carried(put)'
    BY DEF vars, Carried, Spent, Marked, Whole, Ends
  <2> QED
    BY <2>1, <2>2, <2>3 DEF vars, StandsOK
<1> QED
  BY <1>1, <1>2

(* A step that neither announces a candidate nor claims one.               *)
LEMMA QuietKeeps ==
  ASSUME Inv, Inv', Replaces, NEW line \in Seq(Dirs), LineOK(line), FatesOK(line), LineOK(line)',
         NEW c \in Clients,
         \/ \E d \in Dirs : AppendStart(c, d)
         \/ Step(c) /\ ~Announcing(c) /\ ~RecClaim(c)
         \/ GiveUp(c)
  PROVE  FatesOK(line)'
<1>1. CASE (\E d \in Dirs : AppendStart(c, d)) \/ GiveUp(c) \/ PublishStep(c)
  BY <1>1, PublishFree, FreeMoves
<1>2. CASE PrepareStep(c)
  BY <1>2, PrepareFree, FreeMoves
<1>3. CASE AppendStep(c) /\ ~Announcing(c) /\ ~RecClaim(c)
  <2>1. CASE \E d \in Dirs : PutMarker(c, d)
    BY <2>1, PutMarkerKeeps
  <2>2. CASE PutPayload(c) \/ PutPayloadFails(c)
    BY <2>2, PutPayloadKeeps
  <2>3. CASE CommitRefused(c)
    BY <2>3, CommitRefusedKeeps
  <2>4. CASE CommitUnknown(c)
    BY <2>4, CommitUnknownKeeps
  <2>5. CASE RecRead(c)
    BY <2>5, RecReadKeeps
  <2>6. CASE RecCand(c)
    BY <2>6, RecCandKeeps
  <2>7. CASE RecRetry(c)
    BY <1>3, <2>7, RecRetryKeeps DEF Announcing
  <2>8. CASE RecReread(c)
    BY <2>8, RecRereadKeeps
  <2>9. CASE RollbackPayload(c)
    BY <2>9, RollbackPayloadKeeps
  <2>10. CASE RollbackMarker(c) \/ NewIndex(c) \/ PlanUnchanged(c)
    BY <2>10, PublishFree, FreeMoves
  <2> QED
    BY <1>3, <2>1, <2>2, <2>3, <2>4, <2>5, <2>6, <2>7, <2>8, <2>9, <2>10
       DEF AppendStep, Announcing
<1> QED
  BY <1>1, <1>2, <1>3, NoDeletion DEF Step

(* The only claims without a deletion are those of reconciling writers.    *)
LEMMA ClaimsCounted ==
  ASSUME Inv, NEW line, LineOK(line), NEW c \in Clients,
         \/ \E d \in Dirs : AppendStart(c, d)
         \/ Step(c)
         \/ GiveUp(c)
  PROVE  claims' = claims \/ (RecClaim(c) /\ claims' = claims + 1)
<1>1. CASE (\E d \in Dirs : AppendStart(c, d)) \/ GiveUp(c)
  BY <1>1 DEF AppendStart, GiveUp, Reads, store
<1>2. CASE PrepareStep(c)
  BY <1>2 DEF PrepareStep, Reload, RepairPage, First, Follow, FixRead, FixPut, FixReceipt,
     FixWitness, PromoteMarker, PromotePage, PromoteVerify, Reads, store
<1>3. CASE AppendStep(c)
  <2>1. CASE \E d \in Dirs : PutMarker(c, d)
    BY <2>1 DEF PutMarker
  <2>2. CASE CommitApplied(c) \/ CommitEchoed(c) \/ CommitRefused(c) \/ CommitUnknown(c)
    BY <2>2 DEF CommitApplied, CommitEchoed, CommitRefused, CommitUnknown, Reads, store
  <2>3. CASE PutPayload(c) \/ PutPayloadFails(c) \/ RecRead(c) \/ RecCand(c) \/ RecRetry(c) \/ RecReread(c)
    BY <2>3 DEF PutPayload, PutPayloadFails, RecRead, RecCand, RecRetry, RecReread, Reads, store
  <2>4. CASE RecClaim(c)
    BY <2>4 DEF RecClaim
  <2>5. CASE RollbackPayload(c) \/ RollbackMarker(c) \/ NewIndex(c) \/ PlanUnchanged(c)
    BY <2>5 DEF RollbackPayload, RollbackMarker, NewIndex, PlanUnchanged, Reads, store
  <2> QED
    BY <1>3, <2>1, <2>2, <2>3, <2>4, <2>5 DEF AppendStep
<1>4. CASE PublishStep(c)
  BY <1>4 DEF PublishStep, PropagateRead, PropagatePut, PropagateCheck, PropagateMember,
     PropagateMake, VerifyMember, Reads, store
<1> QED
  BY <1>1, <1>2, <1>3, <1>4, NoDeletion DEF Step

LEMMA NextOneFate ==
  ASSUME Deleters = {}, Inv, Inv', Replaces, OneFate, [Next]_vars
  PROVE  OneFate'
<1>1. PICK line \in Seq(Dirs) :
        /\ LineOK(line) /\ AcksOK(line)
        /\ claims = 0 => FatesOK(line) /\ StandsOK(line)
  BY DEF OneFate
<1>2. ASSUME NEW more \in Seq(Dirs), LineOK(more)', AcksOK(more)',
             claims' = 0 => FatesOK(more)' /\ StandsOK(more)'
      PROVE  OneFate'
  BY <1>2 DEF OneFate
<1>3. claims \in Nat /\ Longer(line, line)
  BY DEF Inv, TypeOK, Longer
<1>4. ASSUME NEW c \in Clients, Start(c) \/ Step(c) PROVE OneFate'
  <2>1. PICK m : mem[c] = m
    OBVIOUS
  <2>2. (\E d \in Dirs : AppendStart(c, d)) \/ Step(c)
    BY <1>4 DEF Start
  <2>3. claims' = claims \/ (RecClaim(c) /\ claims' = claims + 1)
    BY <1>1, <2>2, ClaimsCounted
  <2>4. CASE Announcing(c)
    <3> DEFINE more == Append(line, m.cand)
    <3>1. claims' = 0 => claims = 0
      BY <1>3, <2>3
    <3>2. PICK p \in {"commit", "recRetry"} : At(c, p)
      BY <2>4 DEF Announcing, CommitApplied, CommitEchoed, RecRetry
    <3>3. Longer(more, line) /\ more \in Seq(Dirs) /\ ~VerifyMember(c)
      BY <1>1, <2>1, <3>2, PendingAt DEF Longer, VerifyMember, At
    <3>4. LineOK(more)'
      BY <1>1, <2>1, <2>4, AnnouncingGrows
    <3>5. claims' = 0 => FatesOK(more)' /\ StandsOK(more)'
      BY <1>1, <2>1, <2>4, <3>1, <3>4, AnnouncingKeeps, AnnouncingStands
    <3> HIDE DEF more
    <3>6. AcksOK(more)'
      BY <1>1, <2>2, <3>3, <3>4, QuietAcks
    <3> QED
      BY <1>2, <3>3, <3>4, <3>5, <3>6
  <2>5. CASE ~Announcing(c)
    <3>1. claims' = 0 => claims = 0 /\ ~RecClaim(c)
      BY <1>3, <2>3 DEF RecClaim
    <3>2. LineOK(line)'
      BY <1>1, <2>2, <2>5, QuietStep
    <3>3. claims' = 0 => FatesOK(line)' /\ StandsOK(line)'
      BY <1>1, <2>2, <2>5, <3>1, <3>2, QuietKeeps, QuietStands
    <3>4. AcksOK(line)'
      BY <1>1, <1>3, <2>2, <3>2, QuietAcks
    <3> QED
      BY <1>2, <3>2, <3>3, <3>4
  <2> QED
    BY <2>4, <2>5
<1>5. ASSUME NEW c \in Retriers, GiveUp(c) PROVE OneFate'
  <2>1. c \in Clients /\ claims' = claims
    BY <1>5, RetriersAssumption DEF GiveUp, Reads, store
  <2>2. LineOK(line)'
    BY <1>1, <1>5, <2>1, QuietStep
  <2>3. claims' = 0 => FatesOK(line)' /\ StandsOK(line)'
    BY <1>1, <1>5, <2>1, <2>2, QuietKeeps, QuietStands
  <2>4. AcksOK(line)'
    BY <1>1, <1>3, <1>5, <2>1, <2>2, QuietAcks
  <2> QED
    BY <1>2, <2>2, <2>3, <2>4
<1>6. ASSUME NEW put \in late, DeliverLate(put) PROVE OneFate'
  <2>1. claims' = claims
    BY <1>6 DEF DeliverLate
  <2>2. CASE vers[put.dir] # put.match
    <3>1. LineOK(line)'
      BY <1>1, <1>6, <2>2, DeliverLateFits
    <3>2. claims' = 0 => FatesOK(line)' /\ StandsOK(line)'
      BY <1>1, <1>6, <2>1, <2>2, <3>1, DeliverLateKeeps, LateStands
    <3>3. AcksOK(line)'
      BY <1>1, <1>3, <1>6, <3>1, LateAcks
    <3> QED
      BY <1>2, <3>1, <3>2, <3>3
  <2>3. CASE vers[put.dir] = put.match
    <3>1. LateFits(put, line)
      BY <1>1 DEF LineOK, StoreFits
    <3>2. PICK x \in Dirs : Extends(put.dir, put.match, x, put.body)
      BY <3>1 DEF LateFits
    <3> DEFINE more == Append(line, x)
    <3>3. Longer(more, line) /\ more \in Seq(Dirs)
      BY DEF Longer
    <3>4. LineOK(more)'
      BY <1>1, <1>6, <2>3, <3>2, DeliverLateFits
    <3>5. claims' = 0 => FatesOK(more)' /\ StandsOK(more)'
      BY <1>1, <1>6, <2>1, <2>3, <3>2, <3>4, DeliverLateKeeps, DeliverStands
    <3> HIDE DEF more
    <3>6. AcksOK(more)'
      BY <1>1, <1>6, <3>3, <3>4, LateAcks
    <3> QED
      BY <1>2, <3>3, <3>4, <3>5, <3>6
  <2> QED
    BY <2>2, <2>3
<1>7. ASSUME UNCHANGED vars PROVE OneFate'
  BY <1>1, <1>2, <1>7, LineUnchanged, FatesUnchanged, AcksUnchanged DEF vars
<1> QED
  BY <1>4, <1>5, <1>6, <1>7 DEF Next

LEMMA OneFateHolds ==
  ASSUME Deleters = {}
  PROVE  Spec => [](Inv /\ OneFate)
<1>1. Inv /\ OneFate /\ [Next]_vars => OneFate'
  BY NextInv, NextOneFate
<1> QED
  BY <1>1, InitOneFate, InvariantHolds, PTL DEF Spec

(* However many writers race, crash, retry and lose answers, a revision    *)
(* that a writer takes back, or has taken back, is announced by no index,  *)
(* as long as no cleanup claim was won (update.go,                         *)
(* reconcileRevisionAppendCommit and rollbackRevisionAppend).              *)
THEOREM LosersLeave ==
  ASSUME Deleters = {}
  PROVE  Spec => [](claims = 0 => OnlyLosersLeave)
<1>1. ASSUME Inv, OneFate, claims = 0 PROVE OnlyLosersLeave
  <2>1. PICK line \in Seq(Dirs) : LineOK(line) /\ FatesOK(line)
    BY <1>1 DEF OneFate
  <2>2. ASSUME NEW d, Announced(d) PROVE Told(d, line)
    <3>1. PICK e \in Indexes : \E n \in DOMAIN vers[e].ents : vers[e].ents[n].dir = d
      BY <2>2 DEF Announced
    <3>2. e \in Dirs /\ vers[e] # Absent /\ vers[e] \in Bodies /\ Fits(vers[e], line) /\ IsLine(line)
      BY <1>1, <2>1, <3>1, LoadFits, BodyTypes DEF Indexes, LineOK
    <3>3. /\ DOMAIN vers[e].ents = 1..Len(vers[e].ents) /\ Len(vers[e].ents) \in Nat
          /\ Len(vers[e].ents) <= Len(line) /\ Len(line) \in Nat
          /\ \A n \in 1..Len(vers[e].ents) : vers[e].ents[n].dir = line[n]
      BY <3>2, FitsParts DEF IsLine
    <3> QED
      BY <3>1, <3>3 DEF Told
  <2>3. ASSUME NEW c \in Clients, pc[c] \in Undone PROVE ~Told(mem[c].cand, line)
    BY <2>1, <2>3 DEF FatesOK, Fate, Dead
  <2>4. ASSUME NEW d \in cleaned PROVE ~Told(d, line)
    BY <2>1, <2>4 DEF FatesOK, Buried, Dead
  <2> QED
    BY <2>2, <2>3, <2>4 DEF OnlyLosersLeave, RollbackOnlyLosers, AnnouncedNotCleaned
<1> QED
  BY <1>1, OneFateHolds, PTL

(* However many writers race, crash, retry and lose answers, every entry   *)
(* of a member leads to a revision that is there, and a revision that      *)
(* new-revision reported is complete and listed by every member, as long   *)
(* as no cleanup claim was won (update.go, verifyRevisionChain and what    *)
(* leads to it).                                                           *)
THEOREM LinksStayWhole ==
  ASSUME Deleters = {}
  PROVE  Spec => [](claims = 0 => LinksWhole)
<1>1. ASSUME Inv, OneFate, claims = 0 PROVE LinksWhole
  <2>1. PICK line \in Seq(Dirs) : LineOK(line) /\ AcksOK(line) /\ StandsOK(line)
    BY <1>1 DEF OneFate
  <2>2. IsLine(line) /\ Len(line) \in Nat
    BY <2>1 DEF LineOK, IsLine
  <2>3. ASSUME NEW e \in Dirs, vers[e] # Absent
        PROVE  /\ Decodes(vers[e], e) /\ vers[e].chain = line[2]
               /\ DOMAIN vers[e].ents = 1..Len(vers[e].ents) /\ Len(vers[e].ents) \in Nat
               /\ LiveNumbers(vers[e].ents) = 1..Len(vers[e].ents)
               /\ Len(vers[e].ents) <= Len(line)
               /\ \A n \in 1..Len(vers[e].ents) : vers[e].ents[n].dir = line[n]
               /\ vers[e].cur \in 1..Len(vers[e].ents) /\ e = line[vers[e].cur]
    <3>1. vers[e] \in Bodies /\ Fits(vers[e], line) /\ Decodes(vers[e], e)
      BY <1>1, <2>1, <2>3, LoadFits DEF LineOK, StoreFits
    <3>2. vers[e].chain = line[2]
      BY <2>3, <3>1 DEF Fits
    <3>3. e = line[vers[e].cur]
      BY <2>2, <2>3, <3>1, FitsParts
    <3> QED
      BY <2>2, <2>3, <3>1, <3>2, <3>3, FitsParts
  <2>4. \A e \in Members : e \in Dirs /\ vers[e] # Absent
    BY BodyTypes DEF Members, Decodes, DecodesLoose
  <2>5. NothingDangling
    <3> SUFFICES ASSUME NEW e \in Members, NEW n \in LiveNumbers(vers[e].ents)
                 PROVE  marker[vers[e].ents[n].dir].has
      BY DEF NothingDangling
    <3>1. n \in 1..Len(line) /\ vers[e].ents[n].dir = line[n]
      BY <2>2, <2>3, <2>4
    <3>2. Stands(n, line)
      BY <2>1, <3>1 DEF StandsOK
    <3> QED
      BY <3>1, <3>2 DEF Stands
  <2>6. ASSUME NEW d \in acked
        PROVE  /\ Loads(d)
               /\ \A e \in Members : vers[e].chain = marker[d].chain =>
                    marker[d].num \in DOMAIN vers[e].ents /\ vers[e].ents[marker[d].num].dir = d
    <3>1. PICK n \in 2..Len(line) : line[n] = d /\ Known(n, n, line)
      BY <2>1 DEF AcksOK, Reported
    <3>2. n \in Nat /\ n >= 2 /\ n \in 1..Len(line) /\ d \in Dirs
      BY <2>2, <3>1, LineDirs
    <3>3. Stands(n, line)
      BY <2>1, <3>2 DEF StandsOK
    <3>4. marker[d].has /\ payload[d] \in Complete /\ marker[d].num = n /\ marker[d].chain = line[2]
      BY <3>1, <3>2, <3>3 DEF Stands, Whole
    <3>5. vers[d] # Absent => vers[d].cur = n
      <4> SUFFICES ASSUME vers[d] # Absent PROVE vers[d].cur = n
        OBVIOUS
      <4>1. PICK k : k = vers[d].cur
        OBVIOUS
      <4>2. k \in 1..Len(line) /\ d = line[k]
        BY <2>2, <2>3, <3>2, <4>1
      <4>3. Stands(k, line)
        BY <2>1, <4>2 DEF StandsOK
      <4>4. k # 1 => marker[d].num = k
        BY <4>2, <4>3 DEF Stands
      <4>5. k = 1 => marker[d].num \in {0, 1}
        BY <4>2, <4>3 DEF Stands
      <4> QED
        BY <3>2, <3>4, <4>1, <4>4, <4>5
    <3>6. Loads(d)
      BY <2>3, <3>2, <3>4, <3>5 DEF Loads
    <3>7. ASSUME NEW e \in Members PROVE n \in DOMAIN vers[e].ents /\ vers[e].ents[n].dir = d
      <4>1. PICK k : k = vers[e].cur
        OBVIOUS
      <4> DEFINE len == Len(vers[e].ents)
      <4>2. /\ len \in Nat /\ k \in 1..len /\ e = line[k] /\ DOMAIN vers[e].ents = 1..len
            /\ \A i \in 1..len : vers[e].ents[i].dir = line[i]
        BY <2>3, <2>4, <4>1
      <4>3. k \in 1..(n - 1) => Len(vers[line[k]].ents) >= n
        BY <3>1 DEF Known
      <4>4. k \in 1..(n - 1) => len >= n
        BY <4>2, <4>3
      <4> HIDE DEF len
      <4>5. n \in 1..len
        BY <3>2, <4>2, <4>4
      <4> QED
        BY <3>1, <4>2, <4>5
    <3> QED
      BY <3>4, <3>6, <3>7
  <2> QED
    BY <2>5, <2>6 DEF LinksWhole, AckedVisible
<1> QED
  BY <1>1, OneFateHolds, PTL
=============================================================================
