-------------------------- MODULE UploadStreamProofs --------------------------
(***************************************************************************)
(* What holds of UploadStream for every upload, every limit and every      *)
(* amount of body in flight.                                               *)
(*                                                                         *)
(* What the server keeps, ServerOK, follows from where its handler is,     *)
(* whoever sends the body.  That a caller told of success has sent what is *)
(* published needs the connection as well: what is in flight leads, part   *)
(* by part and chunk by chunk, from what the server has read to what the   *)
(* client has written (Delivery).                                          *)
(*                                                                         *)
(* The last parts are about the limits an upload meets on its way, a       *)
(* machine of their own (UploadLimits): what each layer let through,       *)
(* PassageOK, makes what it refuses and what the core accepts agree; and   *)
(* about the way an answer takes back to its caller (ServerCall), whatever *)
(* the core did and whatever is lost: CallInv says what each phase of a    *)
(* call leaves, EndsWell what a finished one may have told.                *)
(***************************************************************************)
EXTENDS UploadStream, CallsAndLimits, SequenceTheorems, TLAPS

-----------------------------------------------------------------------------
(* Types, and what every process knows of the others.                      *)

Names == STRING \cup {""}
Parts == Seq([name : Names, size : Nat])
Items == {"part", "data", "trailer"} \X Names
Idle == [rd |-> "idle", open |-> FALSE, closed |-> FALSE, eof |-> FALSE]

CallTyped == /\ call \in {"preparing", "streaming", "created", "problem", "error"}
             /\ pages \in BOOLEAN /\ pipe \in BOOLEAN
Writers(n) == [pc : {"idle", "part", "data", "trailer", "close", "done"},
               part : 1..n, off : Nat, err : BOOLEAN]
WriterTyped == writer \in Writers(Len(plan.sent))
Flight == {w \in Seq(Items) : Len(w) <= WireCap}
WireTyped == wire \in Flight
LinkTyped == conn \in {"open", "ended", "cut"} /\ host \in {"up", "stopping", "down"}
Handlers == [pc : {"idle", "next", "body", "operation", "returning", "done", "killed"},
             got : Parts, meta : BOOLEAN, name : Names, size : Nat,
             result : {"", "refused", "created", "failed", "panicked"}]
HandlerTyped == srv \in Handlers
FilesTyped == /\ tmp \in SUBSET Nat
              /\ entry \in [rd : {"idle", "opening", "opened", "reading", "read", "failed"},
                            open : BOOLEAN, closed : BOOLEAN, eof : BOOLEAN]
AnswerTyped == reply \in {"", "created", "problem"} /\ applied \in Parts

Typed == /\ plan \in Plans
         /\ CallTyped /\ WriterTyped /\ WireTyped /\ LinkTyped
         /\ HandlerTyped /\ FilesTyped /\ AnswerTyped

(* The parts but the metadata are files.                                   *)
Spooled(got) == {i \in DOMAIN got : got[i].name # "metadata"}

Reading == srv.pc \in {"idle", "next", "body"}

(* The handler, from the first part to its end.                            *)
HandlerOK ==
  /\ srv.pc = "idle" => srv.got = <<>> /\ tmp = {} /\ ~srv.meta
  /\ Reading => applied = Nothing /\ srv.result = "" /\ reply = "" /\ entry = Idle
  /\ srv.pc \in {"next", "operation", "returning"} => tmp = Spooled(srv.got)
  /\ srv.pc = "body" => tmp = Spooled(srv.got) \cup (IF srv.name = "metadata" THEN {} ELSE {Position})
  /\ srv.pc \in {"operation", "returning"} => srv.got # <<>>
  /\ srv.pc = "operation" => srv.result = "" /\ reply = ""
  /\ srv.pc = "returning" => reply = "" /\ srv.result \in {"created", "failed", "panicked"}
  /\ srv.pc = "done" => tmp = {} /\ ~entry.open /\ (entry.closed \/ entry = Idle)
  /\ srv.result = "refused" => applied = Nothing /\ srv.pc = "done" /\ reply # "created"
  /\ srv.pc \in {"returning", "done"} /\ srv.result = "created" => applied = srv.got /\ applied # Nothing
  /\ reply = "created" => srv.result = "created" /\ srv.pc = "done"
  /\ reply # "" => srv.pc = "done"
  /\ call = "created" => srv.result = "created" /\ srv.pc = "done"

(* A part read so far is what the metadata of a document describes at its  *)
(* place.                                                                  *)
Describes(got) ==
  /\ Len(got) <= Len(Expected)
  /\ \A i \in DOMAIN got :
       /\ got[i].name = Expected[i]
       /\ got[i].name = "assets" => got[i].size = Descriptor(i).size
DocumentOK ==
  ~Collection =>
    /\ Describes(srv.got)
    /\ srv.pc = "body" => Position <= Len(Expected) /\ srv.name = Expected[Position]
    /\ srv.pc = "operation" => Len(srv.got) = Len(Expected)

(* What a request may hold.                                                *)
BoundsOK ==
  /\ ~Collection /\ srv.got # <<>> => Described
  /\ Len(srv.got) <= MaxItems + 1
  /\ srv.pc = "body" => Len(srv.got) < MaxItems + 1
  /\ Collection /\ srv.pc = "body" => srv.name \in {"metadata", "files"}
  /\ srv.size <= MaxPart
  /\ tmp \subseteq 1..(MaxItems + 1)

ServerOK == HandlerOK /\ DocumentOK /\ BoundsOK

-----------------------------------------------------------------------------
(* The way of the body.  A place in it is the part begun last, how much of *)
(* it has gone by, and whether the body has ended.                         *)
Places == [n : Nat, k : Nat, end : BOOLEAN]
At(n, k) == [n |-> n, k |-> k, end |-> FALSE]

SizeOf(p, n) == IF n = 0 THEN 0 ELSE p.sent[n].size
Whole(p, i) == p.sent[i].read = "whole"

(* The final boundary follows the last part, or a part that failed.        *)
MayEnd(p, a) ==
  /\ a.n \in 0..Len(p.sent)
  /\ a.k = SizeOf(p, a.n) \/ (a.n > 0 /\ ~Whole(p, a.n))
  /\ a.n = Len(p.sent) \/ \E i \in DOMAIN p.sent : ~Whole(p, i)

Follows(p, a, item, b) ==
  /\ ~a.end
  /\ \/ /\ item[1] = "part" /\ a.n + 1 \in DOMAIN p.sent /\ item[2] = p.sent[a.n + 1].name
        /\ a.k = SizeOf(p, a.n) /\ b = At(a.n + 1, 0)
     \/ item[1] = "data" /\ a.n > 0 /\ b = At(a.n, a.k + 1)
     \/ item[1] = "trailer" /\ MayEnd(p, a) /\ b = [a EXCEPT !.end = TRUE]

(* The items of w lead from one place to the next.                         *)
Path(p, st, w) ==
  /\ st \in [0..Len(w) -> Places]
  /\ \A j \in 1..Len(w) : Follows(p, st[j - 1], w[j], st[j])

(* How far the server has read.                                            *)
ReadTo ==
  CASE srv.pc = "idle" -> At(0, 0)
    [] srv.pc = "body" -> At(Position, srv.size)
    [] OTHER -> At(Len(srv.got), IF srv.got = <<>> THEN 0 ELSE srv.got[Len(srv.got)].size)

(* How far the client has written.                                         *)
WrittenTo(e) ==
  CASE writer.pc = "idle" -> e = At(0, 0)
    [] writer.pc = "part" -> e = At(writer.part - 1, SizeOf(plan, writer.part - 1))
    [] writer.pc = "data" -> e = At(writer.part, writer.off)
    [] writer.pc = "trailer" -> ~e.end /\ MayEnd(plan, e)
    [] OTHER -> e.end

Delivery ==
  ~Foreign /\ Reading =>
    \E st : /\ Path(plan, st, wire) /\ st[0] = ReadTo
            /\ pipe => WrittenTo(st[Len(wire)])

(* The client has not returned while it writes, and keeps its pages.       *)
ClientOK ==
  /\ pipe <=> call \in {"preparing", "streaming"}
  /\ call = "preparing" => writer.pc = "idle"
  /\ call = "streaming" /\ Bundle /\ ~Foreign => pages
  /\ writer.pc = "idle" => writer.part = 1

(* What the server has of this program's upload is what was sent, but for  *)
(* the end of a part that failed.                                          *)
Received ==
  ~Foreign /\ srv.pc \notin {"done", "killed"} =>
    /\ Len(srv.got) <= Len(plan.sent)
    /\ \A i \in DOMAIN srv.got :
         /\ srv.got[i].name = plan.sent[i].name
         /\ srv.got[i].size = plan.sent[i].size \/ ~Whole(plan, i)
    /\ srv.pc = "body" => Position <= Len(plan.sent) /\ srv.name = plan.sent[Position].name
    /\ srv.pc \in {"operation", "returning"} =>
         Len(srv.got) = Len(plan.sent) \/ \E i \in DOMAIN plan.sent : ~Whole(plan, i)

Published ==
  ~Foreign /\ applied # Nothing =>
    /\ \A i \in DOMAIN applied :
         /\ i \in DOMAIN plan.sent
         /\ applied[i].name = plan.sent[i].name
         /\ applied[i].size = plan.sent[i].size \/ ~Whole(plan, i)
    /\ Len(applied) = Len(plan.sent) \/ \E i \in DOMAIN plan.sent : ~Whole(plan, i)

StreamOK == ClientOK /\ Delivery /\ Received /\ Published

-----------------------------------------------------------------------------
(* Types.                                                                  *)

(* What a plan is.                                                         *)
LEMMA PlanTyped ==
  ASSUME NEW p \in Plans
  PROVE  /\ p.kind \in {"document", "collection"} /\ p.origin \in {"airplan", "foreign"}
         /\ p.sent \in Seq([name : STRING, size : Nat, read : Readings])
         /\ Len(p.sent) \in Nat \ {0} /\ DOMAIN p.sent = 1..Len(p.sent)
         /\ \A i \in DOMAIN p.sent : /\ p.sent[i].name \in STRING /\ p.sent[i].size \in Nat
                                     /\ p.sent[i].read \in Readings
                                     /\ p.sent[i].read \in {"short", "fails"} => p.sent[i].size > 0
         /\ p.described \in Seq([name : {"pages", "assets"}, size : Nat])
         /\ Len(p.described) \in Nat /\ DOMAIN p.described = 1..Len(p.described)
         /\ \A i \in DOMAIN p.described : /\ p.described[i].name \in {"pages", "assets"}
                                          /\ p.described[i].size \in Nat
<1> DEFINE SP == [name : STRING, size : Nat, read : Readings]
           SD == [name : {"pages", "assets"}, size : Nat]
<1>1. /\ p.kind \in {"document", "collection"} /\ p.origin \in {"airplan", "foreign"}
      /\ p.sent \in Seq(SP) /\ p.sent # <<>>
      /\ \A i \in DOMAIN p.sent : p.sent[i].read \in {"short", "fails"} => p.sent[i].size > 0
      /\ p.described \in Seq(SD)
  BY PlansAssumption
<1>2. /\ Len(p.sent) \in Nat \ {0} /\ p.sent \in [1..Len(p.sent) -> SP] /\ DOMAIN p.sent = 1..Len(p.sent)
  <2> HIDE DEF SP
  <2> QED
    BY <1>1, LenProperties, EmptySeq
<1>3. /\ Len(p.described) \in Nat /\ p.described \in [1..Len(p.described) -> SD]
      /\ DOMAIN p.described = 1..Len(p.described)
  <2> HIDE DEF SD
  <2> QED
    BY <1>1, LenProperties
<1>4. \A i \in DOMAIN p.sent : p.sent[i] \in SP
  BY <1>2
<1>5. \A i \in DOMAIN p.described : p.described[i] \in SD
  BY <1>3
<1> QED
  BY <1>1, <1>2, <1>3, <1>4, <1>5

(* What becomes of a writer and of a handler.                              *)
LEMMA WriterSteps ==
  ASSUME NEW n \in Nat, NEW w \in Writers(n)
  PROVE  /\ w.part \in 1..n /\ w.off \in Nat /\ w.err \in BOOLEAN
         /\ w.pc \in {"idle", "part", "data", "trailer", "close", "done"}
         /\ [w EXCEPT !.pc = "part"] \in Writers(n)
         /\ [w EXCEPT !.pc = "data", !.off = 0] \in Writers(n)
         /\ [w EXCEPT !.off = @ + 1] \in Writers(n)
         /\ w.part < n => [w EXCEPT !.pc = "part", !.part = @ + 1] \in Writers(n)
         /\ [w EXCEPT !.pc = "trailer"] \in Writers(n)
         /\ [w EXCEPT !.pc = "close"] \in Writers(n)
         /\ [w EXCEPT !.pc = "done"] \in Writers(n)
         /\ [w EXCEPT !.pc = "trailer", !.err = TRUE] \in Writers(n)
         /\ [w EXCEPT !.pc = "done", !.err = TRUE] \in Writers(n)
<1>1. ASSUME NEW part \in 1..n
      PROVE  [w EXCEPT !.pc = "part", !.part = part] \in Writers(n)
  BY DEF Writers
<1>2. w.part \in 1..n /\ w.off + 1 \in Nat /\ (w.part < n => w.part + 1 \in 1..n)
  BY DEF Writers
<1>3. w.part < n => [w EXCEPT !.pc = "part", !.part = @ + 1] \in Writers(n)
  BY <1>1, <1>2
<1>4. [w EXCEPT !.off = @ + 1] \in Writers(n)
  BY <1>2 DEF Writers
<1> QED
  BY <1>2, <1>3, <1>4 DEF Writers

LEMMA HandlerSteps ==
  ASSUME NEW s \in Handlers
  PROVE  /\ s.got \in Parts /\ s.meta \in BOOLEAN /\ s.name \in Names /\ s.size \in Nat
         /\ s.pc \in {"idle", "next", "body", "operation", "returning", "done", "killed"}
         /\ s.result \in {"", "refused", "created", "failed", "panicked"}
         /\ \A pc \in {"next", "operation", "done", "killed"} : [s EXCEPT !.pc = pc] \in Handlers
         /\ \A result \in {"created", "failed", "panicked"} :
              [s EXCEPT !.pc = "returning", !.result = result] \in Handlers
         /\ [s EXCEPT !.pc = "done", !.result = "refused"] \in Handlers
         /\ \A name \in Names : [s EXCEPT !.pc = "body", !.name = name, !.size = 0] \in Handlers
         /\ [s EXCEPT !.size = @ + 1] \in Handlers
         /\ \A got \in Parts, meta \in BOOLEAN :
              [s EXCEPT !.pc = "next", !.got = got, !.meta = meta] \in Handlers
<1>1. [s EXCEPT !.size = @ + 1] \in Handlers
  <2>1. s.size \in Nat
    BY DEF Handlers
  <2>2. s.size + 1 \in Nat
    BY <2>1
  <2> QED
    BY <2>2 DEF Handlers
<1>2. \A pc \in {"next", "operation", "done", "killed"} : [s EXCEPT !.pc = pc] \in Handlers
  BY DEF Handlers
<1>3. \A result \in {"created", "failed", "panicked"} :
         [s EXCEPT !.pc = "returning", !.result = result] \in Handlers
  BY DEF Handlers
<1>4. [s EXCEPT !.pc = "done", !.result = "refused"] \in Handlers
  BY DEF Handlers
<1>5. \A name \in Names : [s EXCEPT !.pc = "body", !.name = name, !.size = 0] \in Handlers
  BY DEF Handlers
<1>6. \A got \in Parts, meta \in BOOLEAN :
         [s EXCEPT !.pc = "next", !.got = got, !.meta = meta] \in Handlers
  BY DEF Handlers
<1>7. /\ s.got \in Parts /\ s.meta \in BOOLEAN /\ s.name \in Names /\ s.size \in Nat
      /\ s.pc \in {"idle", "next", "body", "operation", "returning", "done", "killed"}
      /\ s.result \in {"", "refused", "created", "failed", "panicked"}
  BY DEF Handlers
<1> QED
  BY <1>1, <1>2, <1>3, <1>4, <1>5, <1>6, <1>7

LEMMA WireSteps ==
  ASSUME NEW w \in Flight
  PROVE  /\ w \in Seq(Items) /\ Len(w) \in Nat
         /\ \A item \in Items : Len(w) < WireCap => Append(w, item) \in Flight
         /\ w # <<>> => Head(w) \in Items /\ Head(w)[2] \in Names /\ Tail(w) \in Flight
         /\ \A n \in 0..Len(w) : SubSeq(w, 1, n) \in Flight
         /\ <<>> \in Flight
<1> DEFINE len == Len(w)
<1>1. w \in Seq(Items) /\ len \in Nat /\ len <= WireCap /\ WireCap \in Nat
  BY LenProperties, LimitsAssumption DEF Flight
<1>2. \A item \in Items : Append(w, item) \in Seq(Items) /\ Len(Append(w, item)) = len + 1
  BY <1>1, AppendProperties
<1>3. w # <<>> => Head(w) \in Items /\ Tail(w) \in Seq(Items) /\ Len(Tail(w)) = len - 1
  BY <1>1, HeadTailProperties
<1>4. \A n \in 0..len : SubSeq(w, 1, n) \in Seq(Items) /\ Len(SubSeq(w, 1, n)) = n
  <2> SUFFICES ASSUME NEW n \in 0..len
               PROVE  SubSeq(w, 1, n) \in Seq(Items) /\ Len(SubSeq(w, 1, n)) = n
    OBVIOUS
  <2>1. \A i \in 1..n : w[i] \in Items
    BY <1>1, LenProperties
  <2> QED
    BY <2>1, <1>1, SubSeqProperties
<1>5. <<>> \in Seq(Items) /\ Len(<<>>) = 0
  BY EmptySeq
<1>6. w # <<>> => Head(w)[2] \in Names
  BY <1>3 DEF Items
<1> HIDE DEF len
<1> QED
  BY <1>1, <1>2, <1>3, <1>4, <1>5, <1>6 DEF Flight, len

LEMMA TypedInit == Init => Typed
<1> SUFFICES ASSUME Init PROVE Typed
  OBVIOUS
<1>1. plan \in Plans /\ Len(plan.sent) \in Nat \ {0}
  BY PlanTyped DEF Init
<1>2. <<>> \in Seq(Items) /\ Len(<<>>) = 0 /\ 0 <= WireCap /\ <<>> \in Parts
  BY EmptySeq, LimitsAssumption DEF Parts
<1>3. CallTyped /\ WireTyped /\ LinkTyped
  BY <1>2 DEF Init, CallTyped, WireTyped, LinkTyped, Flight
<1>4. WriterTyped
  <2>1. 1 \in 1..Len(plan.sent)
    BY <1>1
  <2> QED
    BY <2>1 DEF Init, WriterTyped, Writers
<1>5. HandlerTyped
  BY <1>2 DEF Init, HandlerTyped, Handlers, Names
<1>6. FilesTyped /\ AnswerTyped
  BY <1>2 DEF Init, FilesTyped, AnswerTyped, Nothing
<1> QED
  BY <1>1, <1>3, <1>4, <1>5, <1>6 DEF Typed

LEMMA TypedStep == Typed /\ [Next]_vars => Typed'
<1> SUFFICES ASSUME Typed, [Next]_vars
             PROVE  Typed'
  OBVIOUS
<1>p. /\ plan \in Plans /\ Len(plan.sent) \in Nat \ {0}
      /\ writer.part \in 1..Len(plan.sent)
      /\ \A i \in 1..Len(plan.sent) : plan.sent[i].name \in STRING
  BY PlanTyped DEF Typed, WriterTyped, Writers
<1>w. wire \in Flight
  BY DEF Typed, WireTyped
<1>g. /\ \A part \in [name : Names, size : Nat] : Append(srv.got, part) \in Parts
      /\ Len(srv.got) \in Nat /\ srv.got \in Parts
  BY AppendProperties, LenProperties DEF Typed, HandlerTyped, Handlers, Parts
<1>e. <<>> \in Parts
  BY EmptySeq DEF Parts
<1>x. writer \in Writers(Len(plan.sent)) /\ Len(plan.sent) \in Nat
  BY <1>p DEF Typed, WriterTyped
<1>y. srv \in Handlers
  BY DEF Typed, HandlerTyped
<1>C. UNCHANGED <<call, pages, pipe>> => CallTyped'
  BY DEF Typed, CallTyped
<1>W. UNCHANGED <<plan, writer>> => WriterTyped'
  BY DEF Typed, WriterTyped
<1>Q. UNCHANGED wire => WireTyped'
  BY DEF Typed, WireTyped
<1>L. UNCHANGED <<conn, host>> => LinkTyped'
  BY DEF Typed, LinkTyped
<1>S. UNCHANGED srv => HandlerTyped'
  BY DEF Typed, HandlerTyped
<1>T. UNCHANGED <<tmp, entry>> => FilesTyped'
  BY DEF Typed, FilesTyped
<1>A. UNCHANGED <<reply, applied>> => AnswerTyped'
  BY DEF Typed, AnswerTyped
<1>Prepare. CASE Prepare
  <2>1. CallTyped'
    BY <1>Prepare DEF Typed, CallTyped, AnswerTyped, Prepare, Return, StartStreaming
  <2>2. WriterTyped'
    BY <1>Prepare, <1>x, WriterSteps DEF Typed, WriterTyped, Prepare, Return, StartStreaming
  <2>3. UNCHANGED <<plan, wire, conn, host, srv, tmp, entry, reply, applied>>
    BY <1>Prepare DEF Prepare, Return, StartStreaming, client, server
  <2> QED
    BY <2>1, <2>2, <2>3, <1>Q, <1>L, <1>S, <1>T, <1>A DEF Typed
<1>PrepareFails. CASE PrepareFails
  <2>1. CallTyped'
    BY <1>PrepareFails DEF Typed, CallTyped, AnswerTyped, PrepareFails, Return
  <2>2. UNCHANGED <<plan, writer, wire, conn, host, srv, tmp, entry, reply, applied>>
    BY <1>PrepareFails DEF PrepareFails, Return, client, server
  <2> QED
    BY <2>1, <2>2, <1>W, <1>Q, <1>L, <1>S, <1>T, <1>A DEF Typed
<1>WriteHeader. CASE WriteHeader
  <2>1. /\ plan' = plan
        /\ \/ writer' = [writer EXCEPT !.pc = "trailer", !.err = TRUE]
           \/ writer' = [writer EXCEPT !.pc = "data", !.off = 0]
    BY <1>WriteHeader DEF WriteHeader, Write, WriterFails, Part
  <2>2. WriterTyped'
    BY <2>1, <1>x, WriterSteps DEF WriterTyped
  <2>3. \/ wire' = wire
        \/ Len(wire) < WireCap /\ wire' = Append(wire, <<"part", plan.sent[writer.part].name>>)
    BY <1>WriteHeader DEF WriteHeader, Write, WriterFails, Part
  <2>4. <<"part", plan.sent[writer.part].name>> \in Items
    BY <1>p DEF Items, Names
  <2>5. WireTyped'
    BY <2>3, <2>4, <1>w, WireSteps DEF WireTyped
  <2>6. UNCHANGED <<plan, call, pages, pipe, conn, host, srv, tmp, entry, reply, applied>>
    BY <1>WriteHeader DEF WriteHeader, Write, WriterFails, Part, client, server
  <2> QED
    BY <2>2, <2>5, <2>6, <1>C, <1>L, <1>S, <1>T, <1>A DEF Typed
<1>WriteData. CASE WriteData
  <2>1. /\ plan' = plan
        /\ \/ writer' = [writer EXCEPT !.pc = "trailer", !.err = TRUE]
           \/ writer' = [writer EXCEPT !.off = @ + 1]
    BY <1>WriteData DEF WriteData, Write, WriterFails, Part
  <2>2. WriterTyped'
    BY <2>1, <1>x, WriterSteps DEF WriterTyped
  <2>3. \/ wire' = wire
        \/ Len(wire) < WireCap /\ wire' = Append(wire, <<"data", plan.sent[writer.part].name>>)
    BY <1>WriteData DEF WriteData, Write, WriterFails, Part
  <2>4. <<"data", plan.sent[writer.part].name>> \in Items
    BY <1>p DEF Items, Names
  <2>5. WireTyped'
    BY <2>3, <2>4, <1>w, WireSteps DEF WireTyped
  <2>6. UNCHANGED <<plan, call, pages, pipe, conn, host, srv, tmp, entry, reply, applied>>
    BY <1>WriteData DEF WriteData, Write, WriterFails, Part, client, server
  <2> QED
    BY <2>2, <2>5, <2>6, <1>C, <1>L, <1>S, <1>T, <1>A DEF Typed
<1>EndPart. CASE EndPart
  <2>1. /\ plan' = plan
        /\ \/ writer' = [writer EXCEPT !.pc = "trailer", !.err = TRUE]
           \/ writer' = [writer EXCEPT !.pc = "trailer"]
           \/ /\ writer.part < Len(plan.sent)
              /\ writer' = [writer EXCEPT !.pc = "part", !.part = @ + 1]
    BY <1>EndPart DEF EndPart, WriterFails
  <2>2. WriterTyped'
    BY <2>1, <1>x, WriterSteps DEF WriterTyped
  <2>3. UNCHANGED <<plan, call, pages, pipe, wire, conn, host, srv, tmp, entry, reply, applied>>
    BY <1>EndPart DEF EndPart, WriterFails, client, server
  <2> QED
    BY <2>2, <2>3, <1>C, <1>Q, <1>L, <1>S, <1>T, <1>A DEF Typed
<1>WriteTrailer. CASE WriteTrailer
  <2>1. /\ plan' = plan
        /\ writer' = [writer EXCEPT !.pc = "close"]
    BY <1>WriteTrailer DEF WriteTrailer, Write
  <2>2. WriterTyped'
    BY <2>1, <1>x, WriterSteps DEF WriterTyped
  <2>3. \/ wire' = wire
        \/ Len(wire) < WireCap /\ wire' = Append(wire, <<"trailer", "">>)
    BY <1>WriteTrailer DEF WriteTrailer, Write
  <2>4. <<"trailer", "">> \in Items
    BY <1>p DEF Items, Names
  <2>5. WireTyped'
    BY <2>3, <2>4, <1>w, WireSteps DEF WireTyped
  <2>6. UNCHANGED <<plan, call, pages, pipe, conn, host, srv, tmp, entry, reply, applied>>
    BY <1>WriteTrailer DEF WriteTrailer, Write, client, server
  <2> QED
    BY <2>2, <2>5, <2>6, <1>C, <1>L, <1>S, <1>T, <1>A DEF Typed
<1>ClosePipe. CASE ClosePipe
  <2>1. CallTyped'
    BY <1>ClosePipe DEF Typed, CallTyped, AnswerTyped, ClosePipe, Return
  <2>2. WriterTyped'
    BY <1>ClosePipe, <1>x, WriterSteps DEF Typed, WriterTyped, ClosePipe, Return
  <2>3. LinkTyped'
    BY <1>ClosePipe DEF Typed, LinkTyped, ClosePipe, Return
  <2>4. UNCHANGED <<plan, wire, srv, tmp, entry, reply, applied>>
    BY <1>ClosePipe DEF ClosePipe, Return, client, server
  <2> QED
    BY <2>1, <2>2, <2>3, <2>4, <1>Q, <1>S, <1>T, <1>A DEF Typed
<1>WriterStops. CASE WriterStops
  <2>1. /\ plan' = plan
        /\ writer' = [writer EXCEPT !.pc = "done", !.err = TRUE]
    BY <1>WriterStops DEF WriterStops
  <2>2. WriterTyped'
    BY <2>1, <1>x, WriterSteps DEF WriterTyped
  <2>3. UNCHANGED <<plan, call, pages, pipe, wire, conn, host, srv, tmp, entry, reply, applied>>
    BY <1>WriterStops DEF WriterStops, client, server
  <2> QED
    BY <2>2, <2>3, <1>C, <1>Q, <1>L, <1>S, <1>T, <1>A DEF Typed
<1>Accept. CASE Accept
  <2>1. HandlerTyped'
    BY <1>Accept, <1>y, HandlerSteps DEF Typed, HandlerTyped, Accept, Await, Refuse
  <2>2. FilesTyped'
    BY <1>Accept, <1>g DEF Typed, FilesTyped, Accept, Await, Refuse
  <2>3. AnswerTyped'
    BY <1>Accept, <1>e, <1>g DEF Typed, AnswerTyped, Nothing, Accept, Await, Refuse
  <2>4. UNCHANGED <<plan, call, pages, pipe, writer, wire, conn, host>>
    BY <1>Accept DEF Accept, Await, Refuse, client, server
  <2> QED
    BY <2>1, <2>2, <2>3, <2>4, <1>C, <1>W, <1>Q, <1>L DEF Typed
<1>NextPart. CASE NextPart
  <2>1. WireTyped'
    BY <1>NextPart, <1>w, WireSteps DEF Typed, WireTyped, NextPart, Refuse, Position
  <2>2. /\ wire # <<>>
     /\ \/ srv' = [srv EXCEPT !.pc = "done", !.result = "refused"]
        \/ srv' = [srv EXCEPT !.pc = "body", !.name = Head(wire)[2], !.size = 0]
    BY <1>NextPart DEF NextPart, Refuse, Position
  <2>3. HandlerTyped'
    <3>1. Head(wire)[2] \in Names
      BY <2>2, <1>w, WireSteps
    <3> QED
      BY <3>1, <2>2, <1>y, HandlerSteps DEF HandlerTyped
  <2>4. /\ tmp' = {} \/ tmp' = tmp \/ tmp' = tmp \cup {Len(srv.got) + 1}
        /\ entry' = entry
    BY <1>NextPart DEF NextPart, Refuse, Position
  <2>5. tmp \in SUBSET Nat /\ Len(srv.got) + 1 \in Nat
    BY <1>g DEF Typed, FilesTyped
  <2>6. FilesTyped'
    BY <2>5, <2>4 DEF Typed, FilesTyped
  <2>7. AnswerTyped'
    BY <1>NextPart, <1>e, <1>g DEF Typed, AnswerTyped, Nothing, NextPart, Refuse, Position
  <2>8. UNCHANGED <<plan, call, pages, pipe, writer, conn, host>>
    BY <1>NextPart DEF NextPart, Refuse, Position, client, server
  <2> QED
    BY <2>1, <2>3, <2>6, <2>7, <2>8, <1>C, <1>W, <1>L DEF Typed
<1>SpoolPart. CASE SpoolPart
  <2>1. WireTyped'
    BY <1>SpoolPart, <1>w, WireSteps DEF Typed, WireTyped, SpoolPart, Refuse
  <2>2. \/ srv' = [srv EXCEPT !.pc = "done", !.result = "refused"]
        \/ srv' = [srv EXCEPT !.size = @ + 1]
    BY <1>SpoolPart DEF SpoolPart, Refuse
  <2>3. HandlerTyped'
    BY <2>2, <1>g, <1>w, WireSteps, <1>y, HandlerSteps DEF HandlerTyped
  <2>4. FilesTyped'
    BY <1>SpoolPart, <1>g DEF Typed, FilesTyped, SpoolPart, Refuse
  <2>5. AnswerTyped'
    BY <1>SpoolPart, <1>e, <1>g DEF Typed, AnswerTyped, Nothing, SpoolPart, Refuse
  <2>6. UNCHANGED <<plan, call, pages, pipe, writer, conn, host>>
    BY <1>SpoolPart DEF SpoolPart, Refuse, client, server
  <2> QED
    BY <2>1, <2>3, <2>4, <2>5, <2>6, <1>C, <1>W, <1>L DEF Typed
<1>PartSpooled. CASE PartSpooled
  <2>1. \/ srv' = [srv EXCEPT !.pc = "done", !.result = "refused"]
        \/ srv' = [srv EXCEPT !.pc = "next", !.got = Append(@, [name |-> srv.name, size |-> srv.size]),
                              !.meta = @ \/ srv.name = "metadata"]
    BY <1>PartSpooled DEF PartSpooled, Refuse
  <2>2. /\ Append(srv.got, [name |-> srv.name, size |-> srv.size]) \in Parts
        /\ (srv.meta \/ srv.name = "metadata") \in BOOLEAN
    BY <1>g, <1>y, HandlerSteps
  <2>3. HandlerTyped'
    BY <2>2, <2>1, <1>y, HandlerSteps DEF HandlerTyped
  <2>4. FilesTyped'
    BY <1>PartSpooled, <1>g DEF Typed, FilesTyped, PartSpooled, Refuse
  <2>5. AnswerTyped'
    BY <1>PartSpooled, <1>e, <1>g DEF Typed, AnswerTyped, Nothing, PartSpooled, Refuse
  <2>6. UNCHANGED <<plan, call, pages, pipe, writer, wire, conn, host>>
    BY <1>PartSpooled DEF PartSpooled, Refuse, client, server
  <2> QED
    BY <2>3, <2>4, <2>5, <2>6, <1>C, <1>W, <1>Q, <1>L DEF Typed
<1>EndOfParts. CASE EndOfParts
  <2>1. WireTyped'
    BY <1>EndOfParts, <1>w, WireSteps DEF Typed, WireTyped, EndOfParts, Refuse
  <2>2. HandlerTyped'
    <3>1. \/ srv' = [srv EXCEPT !.pc = "operation"]
          \/ srv' = [srv EXCEPT !.pc = "done", !.result = "refused"]
      BY <1>EndOfParts DEF EndOfParts, Refuse
    <3> QED
      BY <3>1, <1>y, HandlerSteps DEF HandlerTyped
  <2>3. FilesTyped'
    BY <1>EndOfParts, <1>g DEF Typed, FilesTyped, EndOfParts, Refuse
  <2>4. AnswerTyped'
    BY <1>EndOfParts, <1>e, <1>g DEF Typed, AnswerTyped, Nothing, EndOfParts, Refuse
  <2>5. UNCHANGED <<plan, call, pages, pipe, writer, conn, host>>
    BY <1>EndOfParts DEF EndOfParts, Refuse, client, server
  <2> QED
    BY <2>1, <2>2, <2>3, <2>4, <2>5, <1>C, <1>W, <1>L DEF Typed
<1>BodyTruncated. CASE BodyTruncated
  <2>1. HandlerTyped'
    <3>1. srv' = [srv EXCEPT !.pc = "done", !.result = "refused"]
      BY <1>BodyTruncated DEF BodyTruncated, Refuse
    <3> QED
      BY <3>1, <1>y, HandlerSteps DEF HandlerTyped
  <2>2. FilesTyped'
    BY <1>BodyTruncated, <1>g DEF Typed, FilesTyped, BodyTruncated, Refuse
  <2>3. AnswerTyped'
    BY <1>BodyTruncated, <1>e, <1>g DEF Typed, AnswerTyped, Nothing, BodyTruncated, Refuse
  <2>4. UNCHANGED <<plan, call, pages, pipe, writer, wire, conn, host>>
    BY <1>BodyTruncated DEF BodyTruncated, Refuse, client, server
  <2> QED
    BY <2>1, <2>2, <2>3, <2>4, <1>C, <1>W, <1>Q, <1>L DEF Typed
<1>ReadEntry. CASE ReadEntry
  <2>1. FilesTyped'
    BY <1>ReadEntry, <1>g DEF Typed, FilesTyped, ReadEntry
  <2>2. UNCHANGED <<plan, call, pages, pipe, writer, wire, conn, host, srv, reply, applied>>
    BY <1>ReadEntry DEF ReadEntry, client, server
  <2> QED
    BY <2>1, <2>2, <1>C, <1>W, <1>Q, <1>L, <1>S, <1>A DEF Typed
<1>EntryOpened. CASE EntryOpened
  <2>1. FilesTyped'
    BY <1>EntryOpened, <1>g DEF Typed, FilesTyped, EntryOpened
  <2>2. UNCHANGED <<plan, call, pages, pipe, writer, wire, conn, host, srv, reply, applied>>
    BY <1>EntryOpened DEF EntryOpened, client, server
  <2> QED
    BY <2>1, <2>2, <1>C, <1>W, <1>Q, <1>L, <1>S, <1>A DEF Typed
<1>EntryRecorded. CASE EntryRecorded
  <2>1. FilesTyped'
    BY <1>EntryRecorded, <1>g DEF Typed, FilesTyped, EntryRecorded
  <2>2. UNCHANGED <<plan, call, pages, pipe, writer, wire, conn, host, srv, reply, applied>>
    BY <1>EntryRecorded DEF EntryRecorded, client, server
  <2> QED
    BY <2>1, <2>2, <1>C, <1>W, <1>Q, <1>L, <1>S, <1>A DEF Typed
<1>EntryRead. CASE EntryRead
  <2>1. FilesTyped'
    BY <1>EntryRead, <1>g DEF Typed, FilesTyped, EntryRead
  <2>2. UNCHANGED <<plan, call, pages, pipe, writer, wire, conn, host, srv, reply, applied>>
    BY <1>EntryRead DEF EntryRead, client, server
  <2> QED
    BY <2>1, <2>2, <1>C, <1>W, <1>Q, <1>L, <1>S, <1>A DEF Typed
<1>OperationSucceeds. CASE OperationSucceeds
  <2>1. HandlerTyped'
    <3>1. srv' = [srv EXCEPT !.pc = "returning", !.result = "created"]
      BY <1>OperationSucceeds DEF OperationSucceeds, Operates
    <3> QED
      BY <3>1, <1>y, HandlerSteps DEF HandlerTyped
  <2>2. AnswerTyped'
    BY <1>OperationSucceeds, <1>e, <1>g DEF Typed, AnswerTyped, Nothing, OperationSucceeds, Operates
  <2>3. UNCHANGED <<plan, call, pages, pipe, writer, wire, conn, host, tmp, entry>>
    BY <1>OperationSucceeds DEF OperationSucceeds, Operates, client, server
  <2> QED
    BY <2>1, <2>2, <2>3, <1>C, <1>W, <1>Q, <1>L, <1>T DEF Typed
<1>OperationFails. CASE OperationFails
  <2>1. HandlerTyped'
    <3>1. \E result \in {"failed", "panicked"} :
            srv' = [srv EXCEPT !.pc = "returning", !.result = result]
      BY <1>OperationFails DEF OperationFails, Operates
    <3> QED
      BY <3>1, <1>y, HandlerSteps DEF HandlerTyped
  <2>2. AnswerTyped'
    BY <1>OperationFails, <1>e, <1>g DEF Typed, AnswerTyped, Nothing, OperationFails, Operates
  <2>3. UNCHANGED <<plan, call, pages, pipe, writer, wire, conn, host, tmp, entry>>
    BY <1>OperationFails DEF OperationFails, Operates, client, server
  <2> QED
    BY <2>1, <2>2, <2>3, <1>C, <1>W, <1>Q, <1>L, <1>T DEF Typed
<1>Respond. CASE Respond
  <2>1. HandlerTyped'
    <3>1. srv' = [srv EXCEPT !.pc = "done"]
      BY <1>Respond DEF Respond, CloseEntry
    <3> QED
      BY <3>1, <1>y, HandlerSteps DEF HandlerTyped
  <2>2. FilesTyped'
    BY <1>Respond, <1>g DEF Typed, FilesTyped, Respond, CloseEntry
  <2>3. AnswerTyped'
    BY <1>Respond, <1>e, <1>g DEF Typed, AnswerTyped, Nothing, Respond, CloseEntry
  <2>4. LinkTyped'
    BY <1>Respond DEF Typed, LinkTyped, Respond, CloseEntry
  <2>5. UNCHANGED <<plan, call, pages, pipe, writer, wire>>
    BY <1>Respond DEF Respond, CloseEntry, client, server
  <2> QED
    BY <2>1, <2>2, <2>3, <2>4, <2>5, <1>C, <1>W, <1>Q DEF Typed
<1>Receive. CASE Receive
  <2>1. CallTyped'
    BY <1>Receive DEF Typed, CallTyped, AnswerTyped, Receive, Return
  <2>2. AnswerTyped'
    BY <1>Receive, <1>e, <1>g DEF Typed, AnswerTyped, Nothing, Receive, Return
  <2>3. UNCHANGED <<plan, writer, wire, conn, host, srv, tmp, entry>>
    BY <1>Receive DEF Receive, Return, client, server
  <2> QED
    BY <2>1, <2>2, <2>3, <1>W, <1>Q, <1>L, <1>S, <1>T DEF Typed
<1>Disconnect. CASE Disconnect
  <2>1. CallTyped'
    BY <1>Disconnect DEF Typed, CallTyped, AnswerTyped, Disconnect, Return
  <2>2. LinkTyped'
    BY <1>Disconnect DEF Typed, LinkTyped, Disconnect, Return
  <2>3. PICK n \in 0..Len(wire) : wire' = SubSeq(wire, 1, n)
    BY <1>Disconnect DEF Disconnect, Return
  <2>4. WireTyped'
    BY <2>3, <1>w, WireSteps DEF WireTyped
  <2>5. AnswerTyped'
    BY <1>Disconnect, <1>e, <1>g DEF Typed, AnswerTyped, Nothing, Disconnect, Return
  <2>6. UNCHANGED <<plan, writer, srv, tmp, entry>>
    BY <1>Disconnect DEF Disconnect, Return, client, server
  <2> QED
    BY <2>1, <2>2, <2>4, <2>5, <2>6, <1>W, <1>S, <1>T DEF Typed
<1>Dropped. CASE Dropped
  <2>1. CallTyped'
    BY <1>Dropped DEF Typed, CallTyped, AnswerTyped, Dropped, Return
  <2>2. UNCHANGED <<plan, writer, wire, conn, host, srv, tmp, entry, reply, applied>>
    BY <1>Dropped DEF Dropped, Return, client, server
  <2> QED
    BY <2>1, <2>2, <1>W, <1>Q, <1>L, <1>S, <1>T, <1>A DEF Typed
<1>Shutdown. CASE Shutdown
  <2>1. CallTyped'
    BY <1>Shutdown DEF Typed, CallTyped, AnswerTyped, Shutdown, Return
  <2>2. LinkTyped'
    BY <1>Shutdown DEF Typed, LinkTyped, Shutdown, Return
  <2>3. WireTyped'
    BY <1>Shutdown, <1>w, WireSteps DEF Typed, WireTyped, Shutdown, Return
  <2>4. UNCHANGED <<plan, writer, srv, tmp, entry, reply, applied>>
    BY <1>Shutdown DEF Shutdown, Return, client, server
  <2> QED
    BY <2>1, <2>2, <2>3, <2>4, <1>W, <1>S, <1>T, <1>A DEF Typed
<1>Exit. CASE Exit
  <2>1. LinkTyped'
    BY <1>Exit DEF Typed, LinkTyped, Exit
  <2>2. HandlerTyped'
    BY <1>Exit, <1>y, HandlerSteps DEF Typed, HandlerTyped, Exit
  <2>3. FilesTyped'
    BY <1>Exit, <1>g DEF Typed, FilesTyped, Exit
  <2>4. WireTyped'
    BY <1>Exit, <1>w, WireSteps DEF Typed, WireTyped, Exit
  <2>5. UNCHANGED <<plan, call, pages, pipe, writer, reply, applied>>
    BY <1>Exit DEF Exit, client, server
  <2> QED
    BY <2>1, <2>2, <2>3, <2>4, <2>5, <1>C, <1>W, <1>A DEF Typed
<1>s. CASE UNCHANGED vars
  BY <1>s, <1>C, <1>W, <1>Q, <1>L, <1>S, <1>T, <1>A DEF Typed, vars
<1> QED
  BY <1>Prepare, <1>PrepareFails, <1>WriteHeader, <1>WriteData, <1>EndPart, <1>WriteTrailer, <1>ClosePipe, <1>WriterStops, <1>Accept, <1>NextPart, <1>SpoolPart, <1>PartSpooled, <1>EndOfParts, <1>BodyTruncated, <1>ReadEntry, <1>EntryOpened, <1>EntryRecorded, <1>EntryRead, <1>OperationSucceeds, <1>OperationFails, <1>Respond, <1>Receive, <1>Disconnect, <1>Dropped, <1>Shutdown, <1>Exit, <1>s DEF Next

-----------------------------------------------------------------------------
(* The server.                                                             *)

(* The upload stays the same, and with it what is said of it.              *)
LEMMA PlanStays ==
  ASSUME plan' = plan
  PROVE  /\ Expected' = Expected /\ (Collection' <=> Collection) /\ (Foreign' <=> Foreign)
         /\ (Described' <=> Described) /\ (Bundle' <=> Bundle)
         /\ \A i : Descriptor(i)' = Descriptor(i)
BY DEF Expected, Collection, Foreign, Described, Bundle, Descriptor

LEMMA ExpectedIs ==
  ASSUME plan \in Plans
  PROVE  /\ Expected \in Seq({"metadata", "document", "pages", "assets"}) /\ Len(Expected) = Len(plan.described) + 2
         /\ Len(plan.described) \in Nat /\ Len(Expected) \in Nat
         /\ Expected[1] = "metadata" /\ Expected[2] = "document"
         /\ \A i \in 1..Len(Expected) : Expected[i] \in {"pages", "assets"} =>
              /\ i - 2 \in DOMAIN plan.described
              /\ Descriptor(i).size \in Nat
<1> DEFINE d == plan.described
           rest == [i \in DOMAIN d |-> d[i].name]
           first == <<"metadata", "document">>
           Labels == {"metadata", "document", "pages", "assets"}
           n == Len(plan.described)
<1>1. /\ n \in Nat /\ DOMAIN d = 1..n
      /\ \A i \in 1..n : d[i].name \in {"pages", "assets"} /\ d[i].size \in Nat
  BY PlanTyped
<1> HIDE DEF n, d
<1>2. rest \in Seq(Labels) /\ Len(rest) = n /\ \A i \in 1..n : rest[i] = d[i].name
  <2>1. rest = [i \in 1..n |-> d[i].name] /\ \A i \in 1..n : d[i].name \in Labels
    BY <1>1
  <2> QED
    BY <2>1, <1>1
<1>3. first \in Seq(Labels) /\ Len(first) = 2 /\ first[1] = "metadata" /\ first[2] = "document"
  OBVIOUS
<1>4. Expected = first \o rest
  BY DEF Expected, d
<1> HIDE DEF rest, first, Labels
<1>5. /\ Expected \in Seq(Labels) /\ Len(Expected) = 2 + n
      /\ \A i \in 1..(2 + n) : Expected[i] = IF i <= 2 THEN first[i] ELSE rest[i - 2]
  <2>1. /\ first \o rest \in Seq(Labels)
        /\ Len(first \o rest) = Len(first) + Len(rest)
        /\ \A i \in 1..(Len(first) + Len(rest)) :
             (first \o rest)[i] = IF i <= Len(first) THEN first[i] ELSE rest[i - Len(first)]
    BY <1>2, <1>3, ConcatProperties
  <2> QED
    BY <2>1, <1>2, <1>3, <1>4
<1>6. Expected[1] = "metadata" /\ Expected[2] = "document"
  BY <1>1, <1>3, <1>5
<1>7. ASSUME NEW i \in 1..Len(Expected), Expected[i] \in {"pages", "assets"}
      PROVE  i - 2 \in DOMAIN d /\ d[i - 2].size \in Nat
  BY <1>1, <1>3, <1>5, <1>7
<1>8. Len(Expected) \in Nat
  BY <1>1, <1>5
<1> QED
  BY <1>1, <1>5, <1>6, <1>7, <1>8 DEF Descriptor, d, n, Labels

(* What a part that is appended adds.                                      *)
LEMMA GotGrows ==
  ASSUME NEW got \in Parts, NEW part \in [name : Names, size : Nat]
  PROVE  /\ Append(got, part) \in Parts /\ Append(got, part) # <<>>
         /\ Len(got) \in Nat /\ DOMAIN got = 1..Len(got)
         /\ Len(Append(got, part)) = Len(got) + 1
         /\ DOMAIN Append(got, part) = 1..(Len(got) + 1)
         /\ \A i \in 1..Len(got) : Append(got, part)[i] = got[i]
         /\ Append(got, part)[Len(got) + 1] = part
         /\ Spooled(Append(got, part)) =
              Spooled(got) \cup (IF part.name = "metadata" THEN {} ELSE {Len(got) + 1})
<1> DEFINE new == Append(got, part)
           len == Len(got)
<1>1. /\ new \in Parts /\ len \in Nat /\ DOMAIN got = 1..len
      /\ Len(new) = len + 1 /\ DOMAIN new = 1..(len + 1)
  BY AppendProperties, LenProperties DEF Parts
<1>2. (\A i \in 1..len : new[i] = got[i]) /\ new[len + 1] = part
  BY AppendProperties DEF Parts
<1>3. new # <<>>
  BY <1>1, EmptySeq DEF Parts
<1> HIDE DEF new, len
<1>4. Spooled(new) = Spooled(got) \cup (IF part.name = "metadata" THEN {} ELSE {len + 1})
  BY <1>1, <1>2 DEF Spooled
<1> QED
  BY <1>1, <1>2, <1>3, <1>4 DEF new, len

LEMMA ServerInit == Init => ServerOK
<1> SUFFICES ASSUME Init PROVE ServerOK
  OBVIOUS
<1>1. /\ srv.pc = "idle" /\ srv.got = <<>> /\ srv.meta = FALSE /\ srv.size = 0 /\ srv.result = ""
      /\ tmp = {} /\ entry = Idle /\ reply = "" /\ applied = Nothing /\ call = "preparing"
      /\ plan \in Plans
  BY DEF Init, Idle
<1>2. Len(srv.got) = 0 /\ DOMAIN srv.got = {}
  <2>1. srv.got \in Seq(Names) /\ Len(srv.got) = 0
    BY <1>1, EmptySeq
  <2> QED
    BY <2>1, LenProperties
<1>3. MaxItems \in Nat /\ MaxPart \in Nat
  BY LimitsAssumption
<1>4. HandlerOK
  BY <1>1 DEF HandlerOK, Reading
<1>5. DocumentOK
  <2>1. Len(Expected) \in Nat
    BY <1>1, ExpectedIs
  <2>2. Describes(srv.got)
    BY <2>1, <1>2 DEF Describes
  <2> QED
    BY <2>2, <1>1 DEF DocumentOK
<1>6. BoundsOK
  <2>1. /\ 0 <= MaxItems + 1 /\ 0 <= MaxPart
    BY <1>3
  <2> QED
    BY <2>1, <1>1, <1>2 DEF BoundsOK
<1> QED
  BY <1>4, <1>5, <1>6 DEF ServerOK

(* A request that is refused, at whatever part.                            *)
LEMMA RefuseKeeps ==
  ASSUME Typed, ServerOK, Reading, Refuse, plan' = plan, call' = call
  PROVE  ServerOK'
<1>0. srv \in Handlers /\ srv' = [srv EXCEPT !.pc = "done", !.result = "refused"]
  BY DEF Refuse, Typed, HandlerTyped
<1>1. /\ srv'.pc = "done" /\ srv'.result = "refused"
      /\ srv'.got = srv.got /\ srv'.size = srv.size
      /\ tmp' = {} /\ reply' = "problem" /\ entry' = entry /\ applied' = applied
  BY <1>0 DEF Refuse, Handlers
<1>2. entry = Idle /\ applied = Nothing /\ call # "created"
  BY DEF ServerOK, HandlerOK, Reading
<1>3. HandlerOK'
  BY <1>1, <1>2 DEF HandlerOK, Reading, Idle
<1>4. DocumentOK'
  BY <1>1, PlanStays DEF ServerOK, DocumentOK, Describes
<1>5. BoundsOK'
  BY <1>1, PlanStays DEF ServerOK, BoundsOK
<1> QED
  BY <1>3, <1>4, <1>5 DEF ServerOK

(* What the client does, and the connection, is no news to the server.     *)
LEMMA QuietKeeps ==
  ASSUME ServerOK, UNCHANGED <<plan, srv, tmp, entry, applied>>,
         reply' = reply \/ reply' = "",
         \/ call' = call \/ call' # "created"
         \/ call' = reply /\ reply # ""
  PROVE  ServerOK'
<1>0. Position' = Position /\ Spooled(srv.got)' = Spooled(srv.got)
  BY DEF Position
<1>1. HandlerOK'
  <2>1. UNCHANGED <<srv, tmp, entry, applied>>
    OBVIOUS
  <2>2. HandlerOK
    BY DEF ServerOK
  <2>3. CASE reply' = reply /\ (call' = call \/ call' # "created")
    BY <1>0, <2>1, <2>2, <2>3 DEF HandlerOK, Reading
  <2>4. CASE reply' = "" /\ (call' = call \/ call' # "created")
    BY <1>0, <2>1, <2>2, <2>4 DEF HandlerOK, Reading
  <2>5. CASE call' = reply /\ reply # ""
    BY <1>0, <2>1, <2>2, <2>5 DEF HandlerOK, Reading
  <2> QED
    BY <2>3, <2>4, <2>5
<1>2. DocumentOK'
  BY <1>0, PlanStays DEF ServerOK, DocumentOK, Describes
<1>3. BoundsOK'
  BY PlanStays DEF ServerOK, BoundsOK
<1> QED
  BY <1>1, <1>2, <1>3 DEF ServerOK

(* What the handler's part and its place in the body are.                  *)
LEMMA HandlerTypes ==
  ASSUME Typed
  PROVE  /\ srv \in Handlers /\ srv.got \in Parts /\ Len(srv.got) \in Nat /\ DOMAIN srv.got = 1..Len(srv.got)
         /\ Position = Len(srv.got) + 1 /\ Position \in Nat
         /\ srv.name \in Names /\ srv.size \in Nat /\ srv.meta \in BOOLEAN
         /\ plan \in Plans /\ tmp \in SUBSET Nat
<1>1. srv \in Handlers /\ plan \in Plans /\ tmp \in SUBSET Nat
  BY DEF Typed, HandlerTyped, FilesTyped
<1>2. srv.got \in Parts /\ srv.name \in Names /\ srv.size \in Nat /\ srv.meta \in BOOLEAN
  BY <1>1, HandlerSteps
<1>3. Len(srv.got) \in Nat /\ DOMAIN srv.got = 1..Len(srv.got)
  BY <1>2, LenProperties DEF Parts
<1> QED
  BY <1>1, <1>2, <1>3 DEF Position

LEMMA NextPartKeeps ==
  ASSUME Typed, ServerOK, NextPart
  PROVE  ServerOK'
<1> DEFINE name == Head(wire)[2]
           len == Len(srv.got)
<1>0. srv.pc = "next" /\ plan' = plan /\ call' = call /\ name = Head(wire)[2]
  BY DEF NextPart, client
<1>1. CASE ~Admissible(name)
  <2>1. Refuse
    BY <1>1 DEF NextPart
  <2> QED
    BY <2>1, <1>0, RefuseKeeps DEF Reading
<1>2. CASE Admissible(name)
  <2>1. /\ srv' = [srv EXCEPT !.pc = "body", !.name = name, !.size = 0]
        /\ tmp' = IF name = "metadata" THEN tmp ELSE tmp \cup {Position}
        /\ UNCHANGED <<entry, reply, applied>>
    BY <1>2 DEF NextPart
  <2> HIDE DEF name
  <2>2. /\ srv'.pc = "body" /\ srv'.name = name /\ srv'.size = 0 /\ srv'.got = srv.got
        /\ srv'.result = srv.result /\ srv'.meta = srv.meta
    BY <2>1, HandlerTypes DEF Handlers
  <2>3. Position' = Position /\ Spooled(srv.got)' = Spooled(srv.got) /\ Position = len + 1 /\ len \in Nat
    BY <2>2, HandlerTypes DEF Position
  <2>4. HandlerOK'
    <3>1. HandlerOK
      BY DEF ServerOK
    <3> QED
      BY <3>1, <2>1, <2>2, <2>3, <1>0 DEF HandlerOK, Reading
  <2>5. DocumentOK'
    BY <2>2, <2>3, <1>2, PlanStays, <1>0 DEF ServerOK, DocumentOK, Describes, Admissible
  <2>6. BoundsOK'
    <3>1. BoundsOK /\ MaxItems \in Nat /\ MaxItems > 0 /\ MaxPart \in Nat
      BY LimitsAssumption DEF ServerOK
    <3>2. len < MaxItems + 1
      <4>1. CASE Collection
        BY <4>1, <1>2 DEF Admissible
      <4>2. CASE ~Collection /\ srv.got = <<>>
        BY <4>2, <3>1, EmptySeq
      <4>3. CASE ~Collection /\ srv.got # <<>>
        <5>1. Position <= Len(Expected) /\ Described /\ Len(plan.described) + 1 <= MaxItems
          BY <4>3, <1>2, <3>1 DEF Admissible, BoundsOK, Described
        <5>2. Len(Expected) = Len(plan.described) + 2 /\ Len(plan.described) \in Nat
          BY ExpectedIs, HandlerTypes
        <5> QED
          BY <5>1, <5>2, <3>1, <2>3
      <4> QED
        BY <4>1, <4>2, <4>3
    <3>3. Position \in 1..(MaxItems + 1)
      BY <3>1, <3>2, <2>3
    <3>4. Collection => name \in {"metadata", "files"}
      BY <1>2 DEF Admissible
    <3> HIDE DEF len
    <3> QED
      BY <3>1, <3>2, <3>3, <3>4, <2>1, <2>2, <1>0, PlanStays DEF BoundsOK, len
  <2> QED
    BY <2>4, <2>5, <2>6 DEF ServerOK
<1> QED
  BY <1>1, <1>2

LEMMA SpoolPartKeeps ==
  ASSUME Typed, ServerOK, SpoolPart
  PROVE  ServerOK'
<1>0. srv.pc = "body" /\ plan' = plan /\ call' = call
  BY DEF SpoolPart, client
<1>1. CASE srv.size + 1 > PartLimit
  <2>1. Refuse
    BY <1>1 DEF SpoolPart
  <2> QED
    BY <2>1, <1>0, RefuseKeeps DEF Reading
<1>2. CASE ~(srv.size + 1 > PartLimit)
  <2>1. srv' = [srv EXCEPT !.size = @ + 1] /\ UNCHANGED <<tmp, entry, reply, applied>>
    BY <1>2 DEF SpoolPart
  <2>2. /\ srv'.pc = "body" /\ srv'.name = srv.name /\ srv'.size = srv.size + 1 /\ srv'.got = srv.got
        /\ srv'.result = srv.result /\ srv'.meta = srv.meta
    BY <2>1, <1>0, HandlerTypes DEF Handlers
  <2>3. Position' = Position /\ Spooled(srv.got)' = Spooled(srv.got)
    BY <2>2 DEF Position
  <2>4. HandlerOK'
    <3>1. HandlerOK
      BY DEF ServerOK
    <3> QED
      BY <3>1, <2>1, <2>2, <2>3, <1>0 DEF HandlerOK, Reading
  <2>5. DocumentOK'
    BY <2>2, <2>3, PlanStays, <1>0 DEF ServerOK, DocumentOK, Describes
  <2>6. srv.size + 1 <= MaxPart
    <3>1. MaxPart \in Nat /\ srv.size \in Nat /\ Position \in Nat /\ Position > 0
      BY LimitsAssumption, HandlerTypes
    <3>2. ASSUME srv.name = "assets"
          PROVE  Descriptor(Position).size \in Nat
      <4>1. Position <= Len(Expected) /\ Expected[Position] = "assets" /\ Len(Expected) \in Nat
        BY <3>2, <1>0, ExpectedIs, HandlerTypes DEF ServerOK, BoundsOK, DocumentOK
      <4> QED
        BY <4>1, <3>1, ExpectedIs, HandlerTypes
    <3> QED
      BY <1>2, <3>1, <3>2 DEF PartLimit
  <2>7. BoundsOK'
    BY <2>1, <2>2, <2>6, <1>0, PlanStays DEF ServerOK, BoundsOK
  <2> QED
    BY <2>4, <2>5, <2>7 DEF ServerOK
<1> QED
  BY <1>1, <1>2

LEMMA PartSpooledKeeps ==
  ASSUME Typed, ServerOK, PartSpooled
  PROVE  ServerOK'
<1> DEFINE part == [name |-> srv.name, size |-> srv.size]
           got == Append(srv.got, part)
           len == Len(srv.got)
<1>0. srv.pc = "body" /\ plan' = plan /\ call' = call
  BY DEF PartSpooled, client
<1>1. CASE ~PartFits(got)
  <2>1. Refuse
    BY <1>1 DEF PartSpooled
  <2> QED
    BY <2>1, <1>0, RefuseKeeps DEF Reading
<1>2. CASE PartFits(got)
  <2>1. /\ srv' = [srv EXCEPT !.pc = "next", !.got = got, !.meta = @ \/ srv.name = "metadata"]
        /\ UNCHANGED <<tmp, entry, reply, applied>>
    BY <1>2 DEF PartSpooled
  <2>2. /\ got \in Parts /\ got # <<>> /\ len \in Nat /\ Len(got) = len + 1
        /\ DOMAIN got = 1..(len + 1) /\ \A i \in 1..len : got[i] = srv.got[i]
        /\ got[len + 1] = part /\ Position = len + 1
        /\ DOMAIN srv.got = 1..len
        /\ Spooled(got) = Spooled(srv.got) \cup (IF srv.name = "metadata" THEN {} ELSE {len + 1})
    <3>1. srv.got \in Parts /\ part \in [name : Names, size : Nat] /\ part.name = srv.name
      BY HandlerTypes
    <3> HIDE DEF part
    <3> QED
      BY <3>1, GotGrows, HandlerTypes
  <2> HIDE DEF got
  <2>3. /\ srv'.pc = "next" /\ srv'.size = srv.size /\ srv'.got = got /\ srv'.result = srv.result
    BY <2>1, HandlerTypes DEF Handlers
  <2>4. HandlerOK'
    <3>1. HandlerOK
      BY DEF ServerOK
    <3>2. tmp' = Spooled(got)
      BY <3>1, <2>1, <2>2, <1>0 DEF HandlerOK
    <3>3. Spooled(srv.got)' = Spooled(got)
      BY <2>3
    <3> QED
      BY <3>1, <3>2, <3>3, <2>1, <2>2, <2>3, <1>0 DEF HandlerOK, Reading
  <2>5. ASSUME ~Collection
        PROVE  Describes(got)
    <3>1. /\ Describes(srv.got) /\ Position <= Len(Expected) /\ srv.name = Expected[Position]
      BY <2>5, <1>0 DEF ServerOK, DocumentOK
    <3>2. srv.name = "assets" => srv.size = Descriptor(Position).size
      BY <1>2 DEF PartFits
    <3>3. part.name = srv.name /\ part.size = srv.size
      OBVIOUS
    <3> HIDE DEF len, part
    <3>4. ASSUME NEW i \in DOMAIN got
          PROVE  /\ got[i].name = Expected[i]
                 /\ got[i].name = "assets" => got[i].size = Descriptor(i).size
      <4>1. CASE i \in 1..len
        BY <4>1, <3>1, <2>2 DEF Describes
      <4>2. CASE i = len + 1
        BY <4>2, <3>1, <3>2, <3>3, <2>2
      <4> QED
        BY <4>1, <4>2, <2>2
    <3> QED
      BY <3>1, <3>4, <2>2 DEF Describes
  <2>6. DocumentOK'
    BY <2>3, <2>5, PlanStays, <1>0 DEF DocumentOK, Describes
  <2>7. BoundsOK'
    <3>1. BoundsOK /\ MaxItems \in Nat
      BY LimitsAssumption DEF ServerOK
    <3>2. ASSUME ~Collection
          PROVE  Described
      <4>1. CASE srv.got # <<>>
        BY <4>1, <3>1, <3>2 DEF BoundsOK
      <4>2. CASE srv.got = <<>>
        <5>1. Position = 1
          BY <4>2, EmptySeq DEF Position
        <5>2. srv.name = "metadata"
          BY <5>1, <3>2, <1>0, ExpectedIs, HandlerTypes DEF ServerOK, DocumentOK
        <5> QED
          BY <5>2, <1>2 DEF PartFits
      <4> QED
        BY <4>1, <4>2
    <3>3. len < MaxItems + 1
      BY <3>1, <1>0 DEF BoundsOK
    <3>4. len + 1 <= MaxItems + 1
      BY <3>1, <3>3, <2>2
    <3> QED
      BY <3>1, <3>2, <3>4, <2>1, <2>2, <2>3, <1>0, PlanStays DEF BoundsOK
  <2> QED
    BY <2>4, <2>6, <2>7 DEF ServerOK
<1> QED
  BY <1>1, <1>2

LEMMA EndOfPartsKeeps ==
  ASSUME Typed, ServerOK, EndOfParts
  PROVE  ServerOK'
<1>0. srv.pc = "next" /\ plan' = plan /\ call' = call
  BY DEF EndOfParts, client
<1>1. CASE ~Complete
  <2>1. Refuse
    BY <1>1 DEF EndOfParts
  <2> QED
    BY <2>1, <1>0, RefuseKeeps DEF Reading
<1>2. CASE Complete
  <2>1. srv' = [srv EXCEPT !.pc = "operation"] /\ UNCHANGED <<tmp, entry, reply, applied>>
    BY <1>2 DEF EndOfParts
  <2>2. /\ srv'.pc = "operation" /\ srv'.size = srv.size /\ srv'.got = srv.got
        /\ srv'.result = srv.result /\ srv'.name = srv.name
    BY <2>1, <1>0, HandlerTypes DEF Handlers
  <2>3. Spooled(srv.got)' = Spooled(srv.got)
    BY <2>2
  <2>4. srv.got # <<>>
    <3>1. CASE Collection
      BY <3>1, <1>2, EmptySeq DEF Complete
    <3>2. CASE ~Collection
      <4>1. Position > Len(Expected) /\ Len(Expected) >= 2 /\ Len(Expected) \in Nat
        BY <3>2, <1>2, ExpectedIs, HandlerTypes DEF Complete
      <4> QED
        BY <4>1, EmptySeq, HandlerTypes
    <3> QED
      BY <3>1, <3>2
  <2>5. HandlerOK'
    <3>1. HandlerOK
      BY DEF ServerOK
    <3> QED
      BY <3>1, <2>1, <2>2, <2>3, <2>4, <1>0 DEF HandlerOK, Reading
  <2>6. ~Collection => Len(srv.got) = Len(Expected) /\ Describes(srv.got)
    BY <1>2, ExpectedIs, HandlerTypes DEF Complete, ServerOK, DocumentOK, Describes
  <2>7. DocumentOK'
    BY <2>2, <2>6, PlanStays, <1>0 DEF DocumentOK, Describes
  <2>8. BoundsOK'
    BY <2>1, <2>2, <1>0, PlanStays DEF ServerOK, BoundsOK
  <2> QED
    BY <2>5, <2>7, <2>8 DEF ServerOK
<1> QED
  BY <1>1, <1>2

(* The operation and its end.                                              *)
LEMMA OperationKeeps ==
  ASSUME Typed, ServerOK, OperationSucceeds \/ OperationFails
  PROVE  ServerOK'
<1>1. PICK result \in {"created", "failed", "panicked"} :
         /\ srv.pc = "operation" /\ plan' = plan /\ call' = call
         /\ srv' = [srv EXCEPT !.pc = "returning", !.result = result]
         /\ result = "created" => applied' = srv.got
         /\ UNCHANGED <<tmp, entry, reply>>
  <2>1. CASE OperationSucceeds
    BY <2>1 DEF OperationSucceeds, Operates, client
  <2>2. CASE OperationFails
    BY <2>2 DEF OperationFails, Operates, client
  <2> QED
    BY <2>1, <2>2
<1>2. /\ srv'.pc = "returning" /\ srv'.size = srv.size /\ srv'.got = srv.got
      /\ srv'.result = result /\ srv'.name = srv.name
  BY <1>1, HandlerTypes DEF Handlers
<1>3. Spooled(srv.got)' = Spooled(srv.got)
  BY <1>2
<1>4. HandlerOK'
  <2>1. HandlerOK
    BY DEF ServerOK
  <2> QED
    BY <2>1, <1>1, <1>2, <1>3 DEF HandlerOK, Reading, Nothing
<1>5. DocumentOK'
  BY <1>1, <1>2, PlanStays DEF ServerOK, DocumentOK, Describes
<1>6. BoundsOK'
  BY <1>1, <1>2, PlanStays DEF ServerOK, BoundsOK
<1> QED
  BY <1>4, <1>5, <1>6 DEF ServerOK

LEMMA RespondKeeps ==
  ASSUME Typed, ServerOK, Respond
  PROVE  ServerOK'
<1>1. /\ srv.pc = "returning" /\ plan' = plan /\ call' = call
      /\ srv' = [srv EXCEPT !.pc = "done"]
      /\ tmp' = {} /\ applied' = applied
      /\ entry' = [entry EXCEPT !.open = FALSE, !.closed = TRUE]
      /\ reply' = CASE srv.result = "created" -> "created" [] srv.result = "failed" -> "problem" [] OTHER -> ""
  BY DEF Respond, CloseEntry, client
<1>2. /\ srv'.pc = "done" /\ srv'.size = srv.size /\ srv'.got = srv.got
      /\ srv'.result = srv.result /\ srv'.name = srv.name
  BY <1>1, HandlerTypes DEF Handlers
<1>3. ~entry'.open /\ entry'.closed
  BY <1>1 DEF Typed, FilesTyped
<1>4. HandlerOK'
  <2>1. HandlerOK
    BY DEF ServerOK
  <2>2. reply' = "created" => srv.result = "created"
    BY <1>1
  <2>3. srv.result \in {"created", "failed", "panicked"} /\ call # "created"
    BY <2>1, <1>1 DEF HandlerOK
  <2> QED
    BY <2>1, <2>2, <2>3, <1>1, <1>2, <1>3 DEF HandlerOK, Reading
<1>5. DocumentOK'
  <2>1. plan' = plan /\ srv'.pc = "done" /\ srv'.got = srv.got /\ DocumentOK
    BY <1>1, <1>2 DEF ServerOK
  <2> QED
    BY ONLY <2>1, PlanStays DEF DocumentOK, Describes
<1>6. BoundsOK'
  BY <1>1, <1>2, PlanStays DEF ServerOK, BoundsOK
<1> QED
  BY <1>4, <1>5, <1>6 DEF ServerOK

LEMMA EntryKeeps ==
  ASSUME Typed, ServerOK, ReadEntry \/ EntryOpened \/ EntryRecorded \/ EntryRead
  PROVE  ServerOK'
<1>1. UNCHANGED <<plan, call, srv, tmp, reply, applied>>
  BY DEF ReadEntry, EntryOpened, EntryRecorded, EntryRead, client
<1>2. HandlerOK /\ Position' = Position
  BY <1>1 DEF ServerOK, Position
<1>3. /\ srv.pc = "operation" \/ entry.rd # "idle"
      /\ srv.pc \notin {"idle", "next", "body"}
  <2>1. srv.pc = "operation" \/ entry.rd # "idle"
    BY DEF ReadEntry, EntryOpened, EntryRecorded, EntryRead
  <2>2. Idle.rd = "idle"
    BY DEF Idle
  <2> QED
    BY <2>1, <2>2, <1>2 DEF HandlerOK, Reading
<1>4. srv.pc = "done" => ~entry'.open /\ entry'.closed
  <2>1. SUFFICES ASSUME srv.pc = "done"
                 PROVE  ~entry'.open /\ entry'.closed
    OBVIOUS
  <2>2. entry.rd # "idle" /\ ~entry.open /\ entry.closed
    <3>1. Idle.rd = "idle"
      BY DEF Idle
    <3> QED
      BY <3>1, <2>1, <1>2, <1>3 DEF HandlerOK
  <2> QED
    BY <2>1, <2>2 DEF Typed, FilesTyped, ReadEntry, EntryOpened, EntryRecorded, EntryRead
<1>5. HandlerOK'
  BY <1>1, <1>2, <1>3, <1>4 DEF HandlerOK, Reading
<1>6. DocumentOK'
  BY <1>1, <1>2, PlanStays DEF ServerOK, DocumentOK, Describes
<1>7. BoundsOK'
  BY <1>1, PlanStays DEF ServerOK, BoundsOK
<1> QED
  BY <1>5, <1>6, <1>7 DEF ServerOK

(* The process ends, and with it a handler that was still at work.          *)
LEMMA ExitKeeps ==
  ASSUME Typed, ServerOK, Exit
  PROVE  ServerOK'
<1>1. UNCHANGED <<plan, call, tmp, reply, applied>>
  BY DEF Exit, client
<1>2. CASE InFlight
  <2>1. srv' = [srv EXCEPT !.pc = "killed"]
    BY <1>2 DEF Exit
  <2>2. /\ srv'.pc = "killed" /\ srv'.size = srv.size /\ srv'.got = srv.got
        /\ srv'.result = srv.result /\ srv'.name = srv.name
    BY <2>1, HandlerTypes DEF Handlers
  <2>3. srv.pc # "done"
    BY <1>2 DEF InFlight
  <2>4. HandlerOK'
    <3>1. HandlerOK
      BY DEF ServerOK
    <3> QED
      BY <3>1, <2>2, <2>3, <1>1 DEF HandlerOK, Reading
  <2>5. DocumentOK'
    BY <1>1, <2>2, PlanStays DEF ServerOK, DocumentOK, Describes
  <2>6. BoundsOK'
    BY <1>1, <2>2, PlanStays DEF ServerOK, BoundsOK
  <2> QED
    BY <2>4, <2>5, <2>6 DEF ServerOK
<1>3. CASE ~InFlight
  <2>1. UNCHANGED <<plan, srv, tmp, entry, applied, reply, call>>
    BY <1>1, <1>3 DEF Exit
  <2> QED
    BY <2>1, QuietKeeps
<1> QED
  BY <1>2, <1>3

LEMMA ServerStep == Typed /\ ServerOK /\ [Next]_vars => ServerOK'
<1> SUFFICES ASSUME Typed, ServerOK, [Next]_vars
             PROVE  ServerOK'
  OBVIOUS
<1>1. CASE Prepare
  BY <1>1, QuietKeeps DEF Prepare, Return, StartStreaming, server
<1>2. CASE PrepareFails \/ Dropped
  BY <1>2, QuietKeeps DEF PrepareFails, Dropped, Return, server
<1>3. CASE WriteHeader \/ WriteData \/ EndPart \/ WriteTrailer \/ WriterStops
  BY <1>3, QuietKeeps DEF WriteHeader, WriteData, EndPart, WriteTrailer, WriterStops, server
<1>4. CASE ClosePipe
  BY <1>4, QuietKeeps DEF ClosePipe, Return, server
<1>5. CASE Shutdown
  BY <1>5, QuietKeeps DEF Shutdown, Return, server
<1>6. CASE Disconnect
  BY <1>6, QuietKeeps DEF Disconnect, Return
<1>7. CASE Receive
  BY <1>7, QuietKeeps DEF Receive, Return
<1>8. CASE Accept
  <2>0. srv.pc = "idle" /\ plan' = plan /\ call' = call
    BY <1>8 DEF Accept, client
  <2>1. CASE ~plan.token
    BY <2>0, <2>1, <1>8, RefuseKeeps DEF Accept, Reading
  <2>2. CASE plan.token
    <3>1. srv' = [srv EXCEPT !.pc = "next"] /\ UNCHANGED <<tmp, entry, reply, applied>>
      BY <2>2, <1>8 DEF Accept, Await
    <3>2. /\ srv'.pc = "next" /\ srv'.size = srv.size /\ srv'.got = srv.got
          /\ srv'.result = srv.result /\ srv'.name = srv.name
      BY <3>1, HandlerTypes DEF Handlers
    <3>3. Spooled(<<>>) = {} /\ HandlerOK
      BY DEF Spooled, ServerOK
    <3>4. HandlerOK'
      BY <3>1, <3>2, <3>3, <2>0 DEF HandlerOK, Reading
    <3>5. DocumentOK'
      BY <2>0, <3>2, PlanStays DEF ServerOK, DocumentOK, Describes
    <3>6. BoundsOK'
      BY <2>0, <3>1, <3>2, PlanStays DEF ServerOK, BoundsOK
    <3> QED
      BY <3>4, <3>5, <3>6 DEF ServerOK
  <2> QED
    BY <2>1, <2>2, HandlerTypes
<1>9. CASE BodyTruncated
  BY <1>9, RefuseKeeps DEF BodyTruncated, Reading, client
<1>s. CASE UNCHANGED vars
  BY <1>s, QuietKeeps DEF vars
<1> QED
  BY <1>1, <1>2, <1>3, <1>4, <1>5, <1>6, <1>7, <1>8, <1>9, <1>s, NextPartKeeps, SpoolPartKeeps,
     PartSpooledKeeps, EndOfPartsKeeps, OperationKeeps, RespondKeeps, EntryKeeps, ExitKeeps DEF Next

(* Nothing of a request that ended is left behind, whoever sends whatever   *)
(* (parseDocumentMultipart and its cleanup, lazyio.Reader).                 *)
THEOREM RequestsLeaveNothing == Spec => []NothingLeft
<1>1. Init => Typed /\ ServerOK
  BY TypedInit, ServerInit
<1>2. Typed /\ ServerOK /\ [Next]_vars => Typed' /\ ServerOK'
  BY TypedStep, ServerStep
<1>3. ServerOK => NothingLeft
  BY DEF ServerOK, HandlerOK, NothingLeft, TempFilesRemoved, NoHandleLeaked, Spooled
<1> QED
  BY <1>1, <1>2, <1>3, PTL DEF Spec

(* No client makes the server hold more parts, or a larger one, than its    *)
(* limits allow, and every variable keeps its type.                         *)
THEOREM RequestsAreBounded == Spec => []TypeOK
<1>1. Init => Typed /\ ServerOK
  BY TypedInit, ServerInit
<1>2. Typed /\ ServerOK /\ [Next]_vars => Typed' /\ ServerOK'
  BY TypedStep, ServerStep
<1>3. Typed /\ ServerOK => TypeOK
  BY HandlerSteps, PlanTyped
     DEF ServerOK, BoundsOK, TypeOK, Typed, CallTyped, WriterTyped, Writers, WireTyped, Flight,
         LinkTyped, HandlerTyped, AnswerTyped
<1> QED
  BY <1>1, <1>2, <1>3, PTL DEF Spec

-----------------------------------------------------------------------------
(* Ways of the body: nothing, one item more, the first item gone, and the   *)
(* rest lost.                                                               *)

LEMMA PathEmpty ==
  ASSUME NEW p, NEW a \in Places
  PROVE  Path(p, [j \in 0..0 |-> a], <<>>) /\ [j \in 0..0 |-> a][0] = a /\ Len(<<>>) = 0
<1>1. Len(<<>>) = 0
  BY EmptySeq
<1>2. 1..0 = {} /\ 0 \in 0..0
  OBVIOUS
<1> QED
  BY <1>1, <1>2 DEF Path

LEMMA PathAppend ==
  ASSUME NEW p, NEW w \in Seq(Items), NEW st, Path(p, st, w), NEW item \in Items,
         NEW b \in Places, Follows(p, st[Len(w)], item, b)
  PROVE  \E st2 : /\ Path(p, st2, Append(w, item)) /\ st2[0] = st[0]
                  /\ st2[Len(Append(w, item))] = b
<1> DEFINE len == Len(w)
           new == Append(w, item)
           st2 == [j \in 0..(len + 1) |-> IF j <= len THEN st[j] ELSE b]
<1>1. /\ len \in Nat /\ Len(new) = len + 1
      /\ (\A j \in 1..len : new[j] = w[j]) /\ new[len + 1] = item
  BY AppendProperties, LenProperties
<1>2. /\ st \in [0..len -> Places]
      /\ \A j \in 1..len : Follows(p, st[j - 1], w[j], st[j])
      /\ Follows(p, st[len], item, b)
  BY DEF Path
<1> HIDE DEF len, new
<1>3. st2 \in [0..(len + 1) -> Places]
  BY <1>1, <1>2
<1>4. /\ \A j \in 0..len : st2[j] = st[j]
      /\ st2[len + 1] = b
  BY <1>1
<1> HIDE DEF st2
<1>5. ASSUME NEW j \in 1..(len + 1)
      PROVE  Follows(p, st2[j - 1], new[j], st2[j])
  <2>1. CASE j \in 1..len
    <3>1. j \in 0..len /\ j - 1 \in 0..len
      BY <2>1, <1>1
    <3> QED
      BY <3>1, <2>1, <1>1, <1>2, <1>4
  <2>2. CASE j = len + 1
    <3>1. j - 1 = len /\ len \in 0..len
      BY <2>2, <1>1
    <3> QED
      BY <3>1, <2>2, <1>1, <1>2, <1>4
  <2> QED
    BY <2>1, <2>2, <1>1
<1>6. Path(p, st2, new)
  BY <1>1, <1>3, <1>5 DEF Path
<1>7. st2[0] = st[0] /\ st2[Len(new)] = b
  BY <1>1, <1>4
<1> QED
  BY <1>6, <1>7 DEF new

LEMMA PathTail ==
  ASSUME NEW p, NEW w \in Seq(Items), w # <<>>, NEW st, Path(p, st, w)
  PROVE  /\ st[1] \in Places /\ Follows(p, st[0], Head(w), st[1])
         /\ \E st2 : /\ Path(p, st2, Tail(w)) /\ st2[0] = st[1]
                     /\ st2[Len(Tail(w))] = st[Len(w)]
<1> DEFINE len == Len(w)
           new == Tail(w)
           st2 == [j \in 0..(len - 1) |-> st[j + 1]]
<1>1. /\ len \in Nat /\ len > 0 /\ Len(new) = len - 1
      /\ (\A j \in 1..(len - 1) : new[j] = w[j + 1]) /\ Head(w) = w[1]
  <2>1. len \in Nat \ {0}
    BY EmptySeq
  <2>2. Len(new) = len - 1 /\ \A j \in 1..Len(new) : new[j] = w[j + 1]
    BY HeadTailProperties
  <2>3. Head(w) = w[1]
    OBVIOUS
  <2> HIDE DEF len, new
  <2> QED
    BY <2>1, <2>2, <2>3
<1>2. /\ st \in [0..len -> Places]
      /\ \A j \in 1..len : Follows(p, st[j - 1], w[j], st[j])
  BY DEF Path
<1> HIDE DEF len, new
<1>3. st2 \in [0..(len - 1) -> Places] /\ \A j \in 0..(len - 1) : st2[j] = st[j + 1]
  BY <1>1, <1>2
<1> HIDE DEF st2
<1>4. ASSUME NEW j \in 1..(len - 1)
      PROVE  Follows(p, st2[j - 1], new[j], st2[j])
  <2>1. /\ j - 1 \in 0..(len - 1) /\ j \in 0..(len - 1) /\ j + 1 \in 1..len
        /\ (j - 1) + 1 = j /\ (j + 1) - 1 = j
    BY <1>1
  <2>2. st2[j - 1] = st[j] /\ st2[j] = st[j + 1] /\ new[j] = w[j + 1]
    BY <2>1, <1>1, <1>3
  <2>3. Follows(p, st[(j + 1) - 1], w[j + 1], st[j + 1])
    BY <2>1, <1>2
  <2> QED
    BY <2>1, <2>2, <2>3
<1>5. Path(p, st2, new)
  BY <1>1, <1>3, <1>4 DEF Path
<1>6. /\ st2[0] = st[1] /\ st2[Len(new)] = st[len]
      /\ st[1] \in Places
  <2>1. 0 \in 0..(len - 1) /\ len - 1 \in 0..(len - 1) /\ 1 \in 0..len /\ (len - 1) + 1 = len
    BY <1>1
  <2> QED
    BY <2>1, <1>1, <1>2, <1>3
<1>7. Follows(p, st[0], Head(w), st[1])
  <2>1. 1 \in 1..len /\ 1 - 1 = 0
    BY <1>1
  <2> QED
    BY <2>1, <1>1, <1>2
<1> QED
  BY <1>5, <1>6, <1>7 DEF new, len

LEMMA PathCut ==
  ASSUME NEW p, NEW w \in Seq(Items), NEW st, Path(p, st, w), NEW n \in 0..Len(w)
  PROVE  \E st2 : Path(p, st2, SubSeq(w, 1, n)) /\ st2[0] = st[0]
<1> DEFINE len == Len(w)
           new == SubSeq(w, 1, n)
           st2 == [j \in 0..n |-> st[j]]
<1>1. /\ len \in Nat /\ n \in Nat /\ n <= len /\ Len(new) = n
      /\ \A j \in 1..n : new[j] = w[j]
  <2>1. len \in Nat /\ \A i \in 1..n : w[i] \in Items
    BY LenProperties
  <2>2. n \in Nat /\ n <= len
    BY <2>1
  <2>3. /\ Len(new) = IF 1 <= n THEN n - 1 + 1 ELSE 0
        /\ \A i \in 1..(n - 1 + 1) : new[i] = w[1 + i - 1]
    BY <2>1, <2>2, SubSeqProperties
  <2> HIDE DEF len, new
  <2> QED
    BY <2>1, <2>2, <2>3
<1>2. /\ st \in [0..len -> Places]
      /\ \A j \in 1..len : Follows(p, st[j - 1], w[j], st[j])
  BY DEF Path
<1> HIDE DEF len, new
<1>3. st2 \in [0..n -> Places] /\ \A j \in 0..n : st2[j] = st[j]
  BY <1>1, <1>2
<1> HIDE DEF st2
<1>4. ASSUME NEW j \in 1..n
      PROVE  Follows(p, st2[j - 1], new[j], st2[j])
  <2>1. j \in 1..len /\ j - 1 \in 0..n /\ j \in 0..n
    BY <1>1
  <2> QED
    BY <2>1, <1>1, <1>2, <1>3
<1>5. Path(p, st2, new) /\ st2[0] = st[0]
  BY <1>1, <1>3, <1>4 DEF Path
<1> QED
  BY <1>5 DEF new

-----------------------------------------------------------------------------
(* The client.                                                             *)

LEMMA WriterTypes ==
  ASSUME Typed
  PROVE  /\ plan \in Plans /\ wire \in Seq(Items) /\ Len(wire) \in Nat
         /\ Len(plan.sent) \in Nat /\ DOMAIN plan.sent = 1..Len(plan.sent)
         /\ writer \in Writers(Len(plan.sent))
         /\ writer.part \in 1..Len(plan.sent) /\ writer.off \in Nat
         /\ writer.pc \in {"idle", "part", "data", "trailer", "close", "done"}
         /\ \A i \in 1..Len(plan.sent) :
              plan.sent[i].size \in Nat /\ plan.sent[i].read \in Readings
              /\ (plan.sent[i].read \in {"short", "fails"} => plan.sent[i].size > 0)
<1>1. plan \in Plans /\ wire \in Flight /\ writer \in Writers(Len(plan.sent))
  BY DEF Typed, WireTyped, WriterTyped
<1>2. wire \in Seq(Items) /\ Len(wire) \in Nat
  BY <1>1, WireSteps
<1>3. /\ Len(plan.sent) \in Nat /\ DOMAIN plan.sent = 1..Len(plan.sent)
      /\ \A i \in 1..Len(plan.sent) :
              plan.sent[i].size \in Nat /\ plan.sent[i].read \in Readings
              /\ (plan.sent[i].read \in {"short", "fails"} => plan.sent[i].size > 0)
  BY <1>1, PlanTyped
<1>4. /\ writer.part \in 1..Len(plan.sent) /\ writer.off \in Nat
      /\ writer.pc \in {"idle", "part", "data", "trailer", "close", "done"}
  BY <1>1, <1>3, WriterSteps
<1> QED
  BY <1>1, <1>2, <1>3, <1>4

LEMMA ClientInit == Init => ClientOK
<1> SUFFICES ASSUME Init PROVE ClientOK
  OBVIOUS
<1>1. writer = [pc |-> "idle", part |-> 1, off |-> 0, err |-> FALSE]
  BY DEF Init
<1>2. writer.part = 1
  BY <1>1
<1>3. pipe /\ call = "preparing"
  BY DEF Init
<1>4. writer.pc = "idle"
  BY <1>1
<1> QED
  BY <1>2, <1>3, <1>4 DEF ClientOK

LEMMA ClientStep == Typed /\ ClientOK /\ [Next]_vars => ClientOK'
<1> SUFFICES ASSUME Typed, ClientOK, [Next]_vars
             PROVE  ClientOK'
  OBVIOUS
<1>0. plan' = plan => (Bundle' <=> Bundle) /\ (Foreign' <=> Foreign)
  BY PlanStays
<1>w. writer \in Writers(Len(plan.sent))
  BY WriterTypes
<1>1. CASE Prepare
  <2>1. CASE writer' = writer /\ call' = "error" /\ pipe' = FALSE
    BY <2>1, <1>1 DEF Prepare, ClientOK
  <2>2. CASE /\ writer' = [writer EXCEPT !.pc = "part"] /\ call' = "streaming" /\ pipe' = pipe
             /\ Bundle /\ ~Foreign => pages' = TRUE
    <3>1. writer'.pc = "part"
      BY <2>2, <1>w DEF Writers
    <3> QED
      BY <3>1, <2>2, <1>1, <1>0 DEF Prepare, ClientOK
  <2> QED
    BY <2>1, <2>2, <1>1 DEF Prepare, Return, StartStreaming
<1>2. CASE PrepareFails \/ Dropped
  BY <1>2 DEF PrepareFails, Dropped, Return, ClientOK
<1>3. CASE WriteHeader \/ WriteData \/ EndPart \/ WriteTrailer \/ WriterStops
  <2>1. UNCHANGED <<plan, call, pages, pipe>> /\ writer.pc # "idle"
    BY <1>3 DEF WriteHeader, WriteData, EndPart, WriteTrailer, WriterStops
  <2>2. writer'.pc # "idle"
    BY <1>3, <1>w DEF WriteHeader, WriteData, EndPart, WriteTrailer, WriterStops, WriterFails, Writers
  <2> QED
    BY <2>1, <2>2, <1>0 DEF ClientOK
<1>4. CASE ClosePipe
  <2>1. plan' = plan /\ writer.pc = "close" /\ writer'.pc = "done"
    BY <1>4, <1>w DEF ClosePipe, Writers
  <2>2. \/ UNCHANGED <<call, pages, pipe>>
        \/ call' = "error" /\ pipe' = FALSE
    BY <1>4 DEF ClosePipe, Return
  <2> QED
    BY <2>1, <2>2, <1>0 DEF ClientOK
<1>5. CASE Shutdown
  <2>1. /\ UNCHANGED <<plan, writer>>
        /\ UNCHANGED <<call, pages, pipe>> \/ (call' = "error" /\ pipe' = FALSE)
    BY <1>5 DEF Shutdown, Return
  <2> QED
    BY <2>1, <1>0 DEF ClientOK
<1>6. CASE Disconnect
  BY <1>6 DEF Disconnect, Return, ClientOK
<1>7. CASE Receive
  <2>1. reply \in {"created", "problem"}
    BY <1>7 DEF Receive, Typed, AnswerTyped
  <2> QED
    BY <2>1, <1>7 DEF Receive, Return, ClientOK
<1>8. CASE UNCHANGED <<plan, client>>
  BY <1>8, <1>0 DEF client, ClientOK
<1>9. ASSUME \/ Accept \/ NextPart \/ SpoolPart \/ PartSpooled \/ EndOfParts \/ BodyTruncated
             \/ ReadEntry \/ EntryOpened \/ EntryRecorded \/ EntryRead
             \/ OperationSucceeds \/ OperationFails \/ Respond \/ Exit \/ UNCHANGED vars
      PROVE  UNCHANGED <<plan, client>>
  BY <1>9 DEF Accept, NextPart, SpoolPart, PartSpooled, EndOfParts, BodyTruncated, ReadEntry, EntryOpened,
     EntryRecorded, EntryRead, OperationSucceeds, OperationFails, Respond, Exit, vars, client
<1> QED
  BY <1>1, <1>2, <1>3, <1>4, <1>5, <1>6, <1>7, <1>8, <1>9 DEF Next

(* A client that still writes has its pages.                               *)
LEMMA PagesReadable ==
  ASSUME Typed, ClientOK, pipe, ~Foreign, writer.pc = "data"
  PROVE  Readable(Part)
<1>1. SUFFICES ASSUME Part.name = "pages" PROVE pages
  BY DEF Readable
<1>2. plan \in Plans /\ plan.origin = "airplan" /\ writer.part \in DOMAIN plan.sent
  BY WriterTypes, PlanTyped DEF Foreign
<1>3. plan.kind = "document" /\ writer.part - 2 \in DOMAIN plan.described
  BY <1>1, <1>2, ClientAssumption DEF Part
<1>4. Len(plan.described) > 0
  BY <1>2, <1>3, PlanTyped
<1> QED
  BY <1>3, <1>4 DEF ClientOK, Bundle, Collection

-----------------------------------------------------------------------------
(* The way of the body, step by step.                                      *)

LEMMA DeliveryQuiet ==
  ASSUME Delivery, UNCHANGED <<plan, wire>>, pipe' => pipe,
         ~Foreign /\ Reading' => Reading /\ ReadTo' = ReadTo,
         \A e \in Places : pipe' /\ WrittenTo(e) => WrittenTo(e)',
         Len(wire) \in Nat
  PROVE  Delivery'
<1>1. Foreign' <=> Foreign
  BY PlanStays
<1> SUFFICES ASSUME ~Foreign, Reading'
             PROVE  Delivery'
  BY <1>1 DEF Delivery
<1>2. PICK st : Path(plan, st, wire) /\ st[0] = ReadTo /\ (pipe => WrittenTo(st[Len(wire)]))
  BY DEF Delivery
<1>3. st[Len(wire)] \in Places
  BY <1>2 DEF Path
<1>4. pipe' => WrittenTo(st[Len(wire)])'
  BY <1>2, <1>3
<1> QED
  BY <1>1, <1>2, <1>4 DEF Delivery

LEMMA DeliveryWrites ==
  ASSUME Typed, Delivery, UNCHANGED <<plan, srv, pipe>>, pipe,
         NEW item \in Items, wire' = Append(wire, item),
         \A e \in Places : ~Foreign /\ WrittenTo(e) =>
            \E b \in Places : Follows(plan, e, item, b) /\ WrittenTo(b)'
  PROVE  Delivery'
<1>1. (Foreign' <=> Foreign) /\ (Reading' <=> Reading) /\ ReadTo' = ReadTo
  BY PlanStays DEF Reading, ReadTo, Position
<1> SUFFICES ASSUME ~Foreign, Reading
             PROVE  Delivery'
  BY <1>1 DEF Delivery
<1>0. wire \in Seq(Items) /\ Len(wire) \in Nat
  BY WriterTypes
<1>2. PICK st : Path(plan, st, wire) /\ st[0] = ReadTo /\ WrittenTo(st[Len(wire)])
  BY DEF Delivery
<1>3. st[Len(wire)] \in Places
  BY <1>0, <1>2 DEF Path
<1>4. PICK b \in Places : Follows(plan, st[Len(wire)], item, b) /\ WrittenTo(b)'
  BY <1>2, <1>3
<1>5. PICK st2 : /\ Path(plan, st2, Append(wire, item)) /\ st2[0] = st[0]
                 /\ st2[Len(Append(wire, item))] = b
  BY <1>0, <1>2, <1>4, PathAppend
<1>6. Path(plan', st2, wire') /\ st2[0] = ReadTo' /\ st2[Len(wire')] = b
  BY <1>1, <1>2, <1>5
<1> QED
  BY <1>1, <1>4, <1>6 DEF Delivery

(* What arrives.                                                           *)
LEMMA Arrives ==
  ASSUME Typed, Delivery, ~Foreign, Reading, wire # <<>>
  PROVE  \E a \in Places :
           /\ Follows(plan, ReadTo, Head(wire), a)
           /\ \E st : /\ Path(plan, st, Tail(wire)) /\ st[0] = a
                      /\ pipe => WrittenTo(st[Len(Tail(wire))])
<1>0. wire \in Seq(Items)
  BY WriterTypes
<1>1. PICK st : Path(plan, st, wire) /\ st[0] = ReadTo /\ (pipe => WrittenTo(st[Len(wire)]))
  BY DEF Delivery
<1>2. /\ st[1] \in Places /\ Follows(plan, st[0], Head(wire), st[1])
      /\ \E st2 : /\ Path(plan, st2, Tail(wire)) /\ st2[0] = st[1]
                  /\ st2[Len(Tail(wire))] = st[Len(wire)]
  BY <1>0, <1>1, PathTail
<1> QED
  BY <1>1, <1>2

LEMMA DeliveryReads ==
  ASSUME Typed, Delivery, Reading, wire # <<>>, wire' = Tail(wire), UNCHANGED <<plan, writer, pipe>>,
         \A a \in Places : ~Foreign /\ Reading' /\ Follows(plan, ReadTo, Head(wire), a) => ReadTo' = a
  PROVE  Delivery'
<1>1. Foreign' <=> Foreign
  BY PlanStays
<1> SUFFICES ASSUME ~Foreign, Reading'
             PROVE  Delivery'
  BY <1>1 DEF Delivery
<1>2. PICK a \in Places :
           /\ Follows(plan, ReadTo, Head(wire), a)
           /\ \E st : /\ Path(plan, st, Tail(wire)) /\ st[0] = a
                      /\ pipe => WrittenTo(st[Len(Tail(wire))])
  BY Arrives
<1>3. PICK st : /\ Path(plan, st, Tail(wire)) /\ st[0] = a
                /\ pipe => WrittenTo(st[Len(Tail(wire))])
  BY <1>2
<1>4. ReadTo' = a
  BY <1>2 DEF Reading
<1>5. ASSUME NEW e, WrittenTo(e)
      PROVE  WrittenTo(e)'
  BY <1>5 DEF WrittenTo
<1>6. Path(plan', st, wire') /\ st[0] = ReadTo'
  BY <1>3, <1>4
<1>7. pipe' => WrittenTo(st[Len(wire)])'
  <2>1. PICK e : e = st[Len(Tail(wire))]
    OBVIOUS
  <2>2. st[Len(wire')] = e
    BY <2>1
  <2>3. pipe => WrittenTo(e)
    BY <1>3, <2>1
  <2>4. pipe' => WrittenTo(e)'
    BY <2>3, <1>5
  <2> QED
    BY <2>2, <2>4 DEF WrittenTo
<1> QED
  BY <1>6, <1>7 DEF Delivery

LEMMA DeliveryCut ==
  ASSUME Typed, Delivery, UNCHANGED <<plan, srv>>, ~pipe', NEW n \in 0..Len(wire),
         wire' = SubSeq(wire, 1, n)
  PROVE  Delivery'
<1>1. (Foreign' <=> Foreign) /\ (Reading' <=> Reading) /\ ReadTo' = ReadTo
  BY PlanStays DEF Reading, ReadTo, Position
<1> SUFFICES ASSUME ~Foreign, Reading
             PROVE  Delivery'
  BY <1>1 DEF Delivery
<1>2. PICK st : Path(plan, st, wire) /\ st[0] = ReadTo
  BY DEF Delivery
<1>3. PICK st2 : Path(plan, st2, SubSeq(wire, 1, n)) /\ st2[0] = st[0]
  BY <1>2, WriterTypes, PathCut
<1> QED
  BY <1>1, <1>2, <1>3 DEF Delivery

(* Steps that leave the writer alone, or end the reading.                  *)
LEMMA DeliveryStays ==
  ASSUME Typed, Delivery, UNCHANGED <<plan, wire, writer>>, pipe' => pipe,
         ~Foreign /\ Reading' => Reading /\ ReadTo' = ReadTo
  PROVE  Delivery'
<1>1. \A e \in Places : WrittenTo(e) => WrittenTo(e)'
  BY DEF WrittenTo
<1>2. Len(wire) \in Nat
  BY WriterTypes
<1> QED
  BY <1>1, <1>2, DeliveryQuiet

LEMMA SameReading == UNCHANGED srv => (Reading' <=> Reading) /\ ReadTo' = ReadTo
BY DEF Reading, ReadTo, Position

LEMMA DeliveryOfHeader ==
  ASSUME Typed, Delivery, WriteHeader
  PROVE  Delivery'
<1>t. /\ writer \in Writers(Len(plan.sent)) /\ Len(wire) \in Nat
      /\ Len(plan.sent) \in Nat /\ DOMAIN plan.sent = 1..Len(plan.sent)
      /\ writer.part \in 1..Len(plan.sent)
      /\ \A i \in 1..Len(plan.sent) : plan.sent[i].size \in Nat /\ plan.sent[i].name \in STRING
  BY WriterTypes, PlanTyped
<1>u. UNCHANGED <<plan, srv, pipe>> /\ pipe /\ writer.pc = "part"
  BY DEF WriteHeader, server
<1>1. CASE Part.read = "refused"
  <2>1. wire' = wire /\ writer' = [writer EXCEPT !.pc = "trailer", !.err = TRUE]
    BY <1>1 DEF WriteHeader, WriterFails
  <2>2. writer'.pc = "trailer"
    BY <2>1, <1>t DEF Writers
  <2>3. ~Whole(plan, writer.part)
    BY <1>1 DEF Whole, Part
  <2>4. ASSUME NEW e \in Places, WrittenTo(e)
        PROVE  WrittenTo(e)'
    <3>1. e = At(writer.part - 1, SizeOf(plan, writer.part - 1))
      BY <2>4, <1>u DEF WrittenTo
    <3>2. /\ e.n = writer.part - 1 /\ e.k = SizeOf(plan, e.n) /\ ~e.end
          /\ e.n \in 0..Len(plan.sent)
      BY <3>1, <1>t DEF At
    <3>3. MayEnd(plan, e)
      BY <3>2, <2>3, <1>t DEF MayEnd
    <3> QED
      BY <3>2, <3>3, <2>2, <1>u DEF WrittenTo
  <2> QED
    BY <2>1, <2>4, <1>t, <1>u, SameReading, DeliveryQuiet
<1>2. CASE Part.read # "refused"
  <2> DEFINE item == <<"part", plan.sent[writer.part].name>>
             b == At(writer.part, 0)
  <2>1. wire' = Append(wire, item) /\ writer' = [writer EXCEPT !.pc = "data", !.off = 0]
    BY <1>2 DEF WriteHeader, Write, Part
  <2>2. writer'.pc = "data" /\ writer'.part = writer.part /\ writer'.off = 0
    BY <2>1, <1>t DEF Writers
  <2>3. item \in Items /\ b \in Places
    <3>1. item \in Items
      BY <1>t DEF Items, Names
    <3>2. b \in Places
      BY <1>t DEF Places, At
    <3> QED
      BY <3>1, <3>2
  <2>4. ASSUME NEW e \in Places, WrittenTo(e)
        PROVE  Follows(plan, e, item, b)
    <3>1. e = At(writer.part - 1, SizeOf(plan, writer.part - 1))
      BY <2>4, <1>u DEF WrittenTo
    <3>2. e.n = writer.part - 1 /\ e.k = SizeOf(plan, e.n) /\ ~e.end /\ e.n + 1 = writer.part
      BY <3>1, <1>t DEF At
    <3> QED
      BY <3>2, <1>t DEF Follows
  <2>5. PICK c : c = b
    OBVIOUS
  <2>6. WrittenTo(c)'
    BY <2>2, <2>5 DEF WrittenTo
  <2>7. PICK i : i = item
    OBVIOUS
  <2>8. wire' = Append(wire, i) /\ i \in Items /\ c \in Places
    BY <2>1, <2>3, <2>5, <2>7
  <2>9. \A e \in Places : ~Foreign /\ WrittenTo(e) =>
            \E d \in Places : Follows(plan, e, i, d) /\ WrittenTo(d)'
    BY <2>4, <2>5, <2>6, <2>7, <2>8
  <2> HIDE DEF item, b
  <2> QED
    BY <2>8, <2>9, <1>u, DeliveryWrites
<1> QED
  BY <1>1, <1>2

LEMMA DeliveryOfData ==
  ASSUME Typed, ClientOK, Delivery, WriteData
  PROVE  Delivery'
<1>t. /\ writer \in Writers(Len(plan.sent)) /\ writer.part \in 1..Len(plan.sent) /\ writer.off \in Nat
      /\ \A i \in 1..Len(plan.sent) : plan.sent[i].name \in STRING
  BY WriterTypes, PlanTyped
<1>u. UNCHANGED <<plan, srv, pipe>> /\ pipe /\ writer.pc = "data"
  BY DEF WriteData, server
<1>r. Readable(Part)
  BY <1>u, PagesReadable DEF Readable
<1> DEFINE item == <<"data", plan.sent[writer.part].name>>
           b == At(writer.part, writer.off + 1)
<1>1. wire' = Append(wire, item) /\ writer' = [writer EXCEPT !.off = @ + 1]
  BY <1>r DEF WriteData, Write, Part
<1>2. writer'.pc = "data" /\ writer'.part = writer.part /\ writer'.off = writer.off + 1
  BY <1>1, <1>t, <1>u DEF Writers
<1>3. item \in Items /\ b \in Places
  <2>1. item \in Items
    BY <1>t DEF Items, Names
  <2>2. b \in Places
    BY <1>t DEF Places, At
  <2> QED
    BY <2>1, <2>2
<1>4. ASSUME NEW e \in Places, WrittenTo(e)
      PROVE  Follows(plan, e, item, b)
  <2>1. e = At(writer.part, writer.off)
    BY <1>4, <1>u DEF WrittenTo
  <2>2. e.n = writer.part /\ e.k = writer.off /\ ~e.end /\ e.n > 0
    BY <2>1, <1>t DEF At
  <2> QED
    BY <2>2 DEF Follows
<1>5. PICK c : c = b
  OBVIOUS
<1>6. WrittenTo(c)'
  BY <1>2, <1>5 DEF WrittenTo
<1>7. PICK i : i = item
  OBVIOUS
<1>8. wire' = Append(wire, i) /\ i \in Items /\ c \in Places
  BY <1>1, <1>3, <1>5, <1>7
<1>9. \A e \in Places : ~Foreign /\ WrittenTo(e) =>
          \E d \in Places : Follows(plan, e, i, d) /\ WrittenTo(d)'
  BY <1>4, <1>5, <1>6, <1>7, <1>8
<1> HIDE DEF item, b
<1> QED
  BY <1>8, <1>9, <1>u, DeliveryWrites

LEMMA DeliveryOfEnd ==
  ASSUME Typed, Delivery, EndPart
  PROVE  Delivery'
<1>t. /\ writer \in Writers(Len(plan.sent)) /\ Len(wire) \in Nat
      /\ Len(plan.sent) \in Nat /\ DOMAIN plan.sent = 1..Len(plan.sent)
      /\ writer.part \in 1..Len(plan.sent) /\ writer.off \in Nat
  BY WriterTypes
<1>u. /\ UNCHANGED <<plan, wire, srv, pipe>> /\ pipe /\ writer.pc = "data"
      /\ writer.off = Yield(Part)
  BY DEF EndPart, server
<1>e. ASSUME NEW e \in Places, WrittenTo(e)
      PROVE  /\ e = At(writer.part, writer.off) /\ e.n = writer.part /\ e.k = writer.off /\ ~e.end
             /\ e.n \in 0..Len(plan.sent) /\ e.n > 0
  <2>1. e = At(writer.part, writer.off)
    BY <1>e, <1>u DEF WrittenTo
  <2> QED
    BY <2>1, <1>t DEF At
<1>1. CASE Part.read # "whole"
  <2>1. writer' = [writer EXCEPT !.pc = "trailer", !.err = TRUE]
    BY <1>1 DEF EndPart, WriterFails
  <2>2. writer'.pc = "trailer"
    BY <2>1, <1>t DEF Writers
  <2>3. ~Whole(plan, writer.part)
    BY <1>1 DEF Whole, Part
  <2>4. ASSUME NEW e \in Places, WrittenTo(e)
        PROVE  WrittenTo(e)'
    <3>1. MayEnd(plan, e)
      BY <2>3, <2>4, <1>e, <1>t DEF MayEnd
    <3> QED
      BY <3>1, <2>2, <2>4, <1>e, <1>u DEF WrittenTo
  <2> QED
    BY <2>4, <1>t, <1>u, SameReading, DeliveryQuiet
<1>2. CASE Part.read = "whole"
  <2>1. writer.off = plan.sent[writer.part].size
    BY <1>2, <1>u DEF Yield, Part
  <2>2. CASE writer.part < Len(plan.sent)
    <3>1. writer' = [writer EXCEPT !.pc = "part", !.part = writer.part + 1]
      BY <1>2, <2>2 DEF EndPart
    <3>2. writer'.pc = "part" /\ writer'.part = writer.part + 1
      BY <3>1, <1>t DEF Writers
    <3>3. ASSUME NEW e \in Places, WrittenTo(e)
          PROVE  WrittenTo(e)'
      <4>1. e = At(writer.part, SizeOf(plan, writer.part))
        BY <3>3, <2>1, <1>e, <1>t DEF SizeOf
      <4>2. writer'.part - 1 = writer.part /\ plan' = plan
        BY <3>2, <1>t, <1>u
      <4> QED
        BY <4>1, <4>2, <3>2 DEF WrittenTo
    <3> QED
      BY <3>3, <1>t, <1>u, SameReading, DeliveryQuiet
  <2>3. CASE ~(writer.part < Len(plan.sent))
    <3>1. writer' = [writer EXCEPT !.pc = "trailer", !.part = writer.part]
      BY <1>2, <2>3 DEF EndPart
    <3>2. writer'.pc = "trailer"
      BY <3>1, <1>t DEF Writers
    <3>3. ASSUME NEW e \in Places, WrittenTo(e)
          PROVE  WrittenTo(e)'
      <4>1. MayEnd(plan, e)
        BY <2>1, <2>3, <3>3, <1>e, <1>t DEF MayEnd, SizeOf
      <4> QED
        BY <4>1, <3>2, <3>3, <1>e, <1>u DEF WrittenTo
    <3> QED
      BY <3>3, <1>t, <1>u, SameReading, DeliveryQuiet
  <2> QED
    BY <2>2, <2>3
<1> QED
  BY <1>1, <1>2

LEMMA DeliveryOfTrailer ==
  ASSUME Typed, Delivery, WriteTrailer
  PROVE  Delivery'
<1>t. writer \in Writers(Len(plan.sent))
  BY WriterTypes
<1>u. UNCHANGED <<plan, srv, pipe>> /\ pipe /\ writer.pc = "trailer"
  BY DEF WriteTrailer, server
<1>1. wire' = Append(wire, <<"trailer", "">>) /\ writer' = [writer EXCEPT !.pc = "close"]
  BY DEF WriteTrailer, Write
<1>2. writer'.pc = "close"
  BY <1>1, <1>t DEF Writers
<1>3. <<"trailer", "">> \in Items
  BY DEF Items, Names
<1>4. ASSUME NEW e \in Places, WrittenTo(e)
      PROVE  \E b \in Places : Follows(plan, e, <<"trailer", "">>, b) /\ WrittenTo(b)'
  <2> DEFINE b == [e EXCEPT !.end = TRUE]
  <2>1. b \in Places /\ b.end
    BY DEF Places
  <2>2. ~e.end /\ MayEnd(plan, e)
    BY <1>4, <1>u DEF WrittenTo
  <2>3. Follows(plan, e, <<"trailer", "">>, b)
    BY <2>2 DEF Follows
  <2>4. WrittenTo(b)'
    BY <2>1, <1>2 DEF WrittenTo
  <2> QED
    BY <2>1, <2>3, <2>4
<1> QED
  BY <1>1, <1>3, <1>4, <1>u, DeliveryWrites

(* What the handler has read after a part header, a chunk, a whole part.   *)
LEMMA HeaderRead ==
  ASSUME Typed, NextPart
  PROVE  /\ UNCHANGED <<plan, writer, pipe>> /\ wire # <<>> /\ wire' = Tail(wire) /\ srv.pc = "next"
         /\ Head(wire)[1] = "part"
         /\ \/ srv'.pc = "done" /\ srv'.got = srv.got
            \/ /\ srv'.pc = "body" /\ srv'.got = srv.got /\ srv'.size = 0
               /\ srv'.name = Head(wire)[2]
         /\ \A a \in Places : Reading' /\ Follows(plan, ReadTo, Head(wire), a) => ReadTo' = a
<1>1. UNCHANGED <<plan, writer, pipe>> /\ wire # <<>> /\ wire' = Tail(wire) /\ srv.pc = "next"
  BY DEF NextPart, client
<1>2. \/ srv' = [srv EXCEPT !.pc = "done", !.result = "refused"]
      \/ srv' = [srv EXCEPT !.pc = "body", !.name = Head(wire)[2], !.size = 0]
  BY DEF NextPart, Refuse
<1>3. \/ srv'.pc = "done" /\ srv'.got = srv.got
      \/ srv'.pc = "body" /\ srv'.got = srv.got /\ srv'.size = 0 /\ srv'.name = Head(wire)[2]
  BY <1>2, HandlerTypes DEF Handlers
<1>4. Head(wire)[1] = "part"
  BY DEF NextPart
<1>5. ASSUME NEW a \in Places, Reading', Follows(plan, ReadTo, Head(wire), a)
      PROVE  ReadTo' = a
  <2>1. srv'.pc = "body" /\ srv'.size = 0 /\ srv'.got = srv.got
    BY <1>3, <1>5 DEF Reading
  <2>2. a = At(ReadTo.n + 1, 0)
    BY <1>4, <1>5 DEF Follows
  <2>3. ReadTo.n = Len(srv.got)
    BY <1>1 DEF ReadTo, At
  <2>4. ReadTo' = At(Len(srv'.got) + 1, 0)
    BY <2>1 DEF ReadTo, Position
  <2> QED
    BY <2>1, <2>2, <2>3, <2>4
<1> QED
  BY <1>1, <1>3, <1>4, <1>5

LEMMA ChunkRead ==
  ASSUME Typed, SpoolPart
  PROVE  /\ UNCHANGED <<plan, writer, pipe>> /\ wire # <<>> /\ wire' = Tail(wire) /\ srv.pc = "body"
         /\ \/ srv'.pc = "done" /\ srv'.got = srv.got
            \/ /\ srv'.pc = "body" /\ srv'.got = srv.got /\ srv'.size = srv.size + 1
               /\ srv'.name = srv.name
         /\ \A a \in Places : Reading' /\ Follows(plan, ReadTo, Head(wire), a) => ReadTo' = a
<1>1. UNCHANGED <<plan, writer, pipe>> /\ wire # <<>> /\ wire' = Tail(wire) /\ srv.pc = "body"
  BY DEF SpoolPart, client
<1>2. \/ srv' = [srv EXCEPT !.pc = "done", !.result = "refused"]
      \/ srv' = [srv EXCEPT !.size = @ + 1]
  BY DEF SpoolPart, Refuse
<1>3. \/ srv'.pc = "done" /\ srv'.got = srv.got
      \/ srv'.pc = "body" /\ srv'.got = srv.got /\ srv'.size = srv.size + 1 /\ srv'.name = srv.name
  BY <1>1, <1>2, HandlerTypes DEF Handlers
<1>4. Head(wire)[1] = "data"
  BY DEF SpoolPart
<1>5. ASSUME NEW a \in Places, Reading', Follows(plan, ReadTo, Head(wire), a)
      PROVE  ReadTo' = a
  <2>1. srv'.pc = "body" /\ srv'.size = srv.size + 1 /\ srv'.got = srv.got
    BY <1>3, <1>5 DEF Reading
  <2>2. a = At(ReadTo.n, ReadTo.k + 1)
    BY <1>4, <1>5 DEF Follows
  <2>3. ReadTo.n = Len(srv.got) + 1 /\ ReadTo.k = srv.size
    BY <1>1 DEF ReadTo, At, Position
  <2>4. ReadTo' = At(Len(srv'.got) + 1, srv'.size)
    BY <2>1 DEF ReadTo, Position
  <2> QED
    BY <2>1, <2>2, <2>3, <2>4
<1> QED
  BY <1>1, <1>3, <1>5

LEMMA PartRead ==
  ASSUME Typed, PartSpooled
  PROVE  /\ UNCHANGED <<plan, writer, pipe, wire>> /\ wire # <<>> /\ srv.pc = "body"
         /\ Head(wire)[1] \in {"part", "trailer"}
         /\ \/ srv'.pc = "done" /\ srv'.got = srv.got
            \/ /\ srv'.pc = "next"
               /\ srv'.got = Append(srv.got, [name |-> srv.name, size |-> srv.size])
               /\ DOMAIN srv'.got = 1..(Len(srv.got) + 1) /\ Len(srv'.got) = Len(srv.got) + 1
               /\ \A i \in 1..Len(srv.got) : srv'.got[i] = srv.got[i]
               /\ srv'.got[Len(srv.got) + 1] = [name |-> srv.name, size |-> srv.size]
         /\ Reading' => ReadTo' = ReadTo
<1> DEFINE part == [name |-> srv.name, size |-> srv.size]
           got == Append(srv.got, part)
<1>1. UNCHANGED <<plan, writer, pipe, wire>> /\ wire # <<>> /\ srv.pc = "body"
  BY DEF PartSpooled, client
<1>2. \/ srv' = [srv EXCEPT !.pc = "done", !.result = "refused"]
      \/ srv' = [srv EXCEPT !.pc = "next", !.got = got, !.meta = @ \/ srv.name = "metadata"]
  BY DEF PartSpooled, Refuse
<1>p. srv.got \in Parts /\ part \in [name : Names, size : Nat] /\ part.size = srv.size
  BY HandlerTypes
<1> HIDE DEF part
<1>g. /\ DOMAIN got = 1..(Len(srv.got) + 1) /\ Len(got) = Len(srv.got) + 1 /\ got # <<>>
      /\ \A i \in 1..Len(srv.got) : got[i] = srv.got[i]
      /\ got[Len(srv.got) + 1] = part
  BY <1>p, GotGrows
<1> HIDE DEF got
<1>3. \/ srv'.pc = "done" /\ srv'.got = srv.got
      \/ srv'.pc = "next" /\ srv'.got = got
  BY <1>2, HandlerTypes DEF Handlers
<1>4. Head(wire)[1] \in {"part", "trailer"}
  BY DEF PartSpooled
<1>5. ASSUME Reading'
      PROVE  ReadTo' = ReadTo
  <2>1. srv'.pc = "next" /\ srv'.got = got
    BY <1>3, <1>5 DEF Reading
  <2>2. ReadTo' = At(Len(got), got[Len(got)].size)
    BY <2>1, <1>g DEF ReadTo
  <2>3. ReadTo = At(Len(srv.got) + 1, srv.size)
    BY <1>1 DEF ReadTo, Position
  <2> QED
    BY <2>2, <2>3, <1>g, <1>p
<1> QED
  BY <1>1, <1>3, <1>4, <1>5, <1>g DEF got, part

LEMMA DeliveryStep == Typed /\ ServerOK /\ ClientOK /\ Delivery /\ [Next]_vars => Delivery'
<1> SUFFICES ASSUME Typed, ServerOK, ClientOK, Delivery, [Next]_vars
             PROVE  Delivery'
  OBVIOUS
<1>n. ~Reading' => Delivery'
  BY DEF Delivery
<1>w. writer \in Writers(Len(plan.sent)) /\ Len(wire) \in Nat
  BY WriterTypes
<1>h. srv \in Handlers
  BY HandlerTypes
<1>1. CASE Prepare
  <2>1. UNCHANGED <<plan, wire, srv>> /\ writer.pc = "idle" /\ writer.part = 1 /\ pipe
    BY <1>1 DEF Prepare, server, ClientOK
  <2>2. CASE ~pipe'
    <3>1. \A e \in Places : pipe' /\ WrittenTo(e) => WrittenTo(e)'
      BY <2>2
    <3> QED
      BY <3>1, <2>1, <2>2, <1>w, SameReading, DeliveryQuiet
  <2>3. CASE writer' = [writer EXCEPT !.pc = "part"]
    <3>1. writer'.pc = "part" /\ writer'.part = 1
      BY <2>1, <2>3, <1>w DEF Writers
    <3>2. ASSUME NEW e \in Places, WrittenTo(e)
          PROVE  WrittenTo(e)'
      <4>1. e = At(0, 0)
        BY <3>2, <2>1 DEF WrittenTo
      <4>2. SizeOf(plan', writer'.part - 1) = 0 /\ writer'.part - 1 = 0
        BY <3>1 DEF SizeOf
      <4> QED
        BY <4>1, <4>2, <3>1 DEF WrittenTo
    <3> QED
      BY <3>2, <2>1, <1>w, SameReading, DeliveryQuiet
  <2> QED
    BY <2>2, <2>3, <1>1 DEF Prepare, Return, StartStreaming
<1>2. CASE PrepareFails \/ Dropped \/ Receive
  <2>1. UNCHANGED <<plan, wire, srv, writer>> /\ ~pipe'
    BY <1>2 DEF PrepareFails, Dropped, Receive, Return, server
  <2> QED
    BY <2>1, SameReading, DeliveryStays
<1>3. CASE ClosePipe
  <2>1. UNCHANGED <<plan, wire, srv>> /\ writer.pc = "close" /\ writer'.pc = "done" /\ (pipe' => pipe)
    BY <1>3, <1>w DEF ClosePipe, Return, server, Writers
  <2>2. \A e \in Places : WrittenTo(e) => WrittenTo(e)'
    BY <2>1 DEF WrittenTo
  <2> QED
    BY <2>1, <2>2, <1>w, SameReading, DeliveryQuiet
<1>4. CASE WriterStops
  <2>1. UNCHANGED <<plan, wire, srv, pipe>> /\ ~pipe
    BY <1>4 DEF WriterStops, server
  <2> QED
    BY <2>1, <1>w, SameReading, DeliveryQuiet
<1>5. CASE Accept
  <2>1. UNCHANGED <<plan, wire, writer, pipe>> /\ srv.pc = "idle"
    BY <1>5 DEF Accept, client
  <2>2. \/ srv' = [srv EXCEPT !.pc = "done", !.result = "refused"]
        \/ srv' = [srv EXCEPT !.pc = "next"]
    BY <1>5 DEF Accept, Await, Refuse
  <2>3. srv.got = <<>>
    BY <2>1 DEF ServerOK, HandlerOK
  <2>4. \/ srv'.pc = "done"
        \/ srv'.pc = "next" /\ srv'.got = <<>>
    BY <2>2, <2>3, <1>h DEF Handlers
  <2>5. Reading' => ReadTo' = ReadTo /\ Reading
    BY <2>1, <2>4, EmptySeq DEF Reading, ReadTo
  <2> QED
    BY <2>1, <2>5, DeliveryStays
<1>6. CASE NextPart
  <2>1. Reading
    BY <1>6, HeaderRead DEF Reading
  <2> QED
    BY <2>1, <1>6, HeaderRead, DeliveryReads
<1>7. CASE SpoolPart
  <2>1. Reading
    BY <1>7, ChunkRead DEF Reading
  <2> QED
    BY <2>1, <1>7, ChunkRead, DeliveryReads
<1>8. CASE PartSpooled
  <2>1. Reading
    BY <1>8, PartRead DEF Reading
  <2> QED
    BY <2>1, <1>8, PartRead, DeliveryStays
<1>9. CASE EndOfParts \/ BodyTruncated \/ OperationSucceeds \/ OperationFails \/ Respond
  <2>1. \/ srv' = [srv EXCEPT !.pc = "operation"]
        \/ srv' = [srv EXCEPT !.pc = "done", !.result = "refused"]
        \/ srv' = [srv EXCEPT !.pc = "done"]
        \/ \E r : srv' = [srv EXCEPT !.pc = "returning", !.result = r]
    BY <1>9 DEF EndOfParts, BodyTruncated, OperationSucceeds, OperationFails, Respond, Refuse, Operates
  <2>2. srv'.pc \in {"operation", "done", "returning"}
    BY <2>1, <1>h DEF Handlers
  <2> QED
    BY <2>2, <1>n DEF Reading
<1>10. CASE ReadEntry \/ EntryOpened \/ EntryRecorded \/ EntryRead
  <2>1. UNCHANGED <<plan, wire, srv, writer, pipe>>
    BY <1>10 DEF ReadEntry, EntryOpened, EntryRecorded, EntryRead, client
  <2> QED
    BY <2>1, SameReading, DeliveryStays
<1>11. CASE Disconnect
  <2>1. UNCHANGED <<plan, srv>> /\ ~pipe' /\ \E n \in 0..Len(wire) : wire' = SubSeq(wire, 1, n)
    BY <1>11 DEF Disconnect, Return
  <2> QED
    BY <2>1, DeliveryCut
<1>12. CASE Shutdown
  <2>1. UNCHANGED <<plan, writer, srv>>
    BY <1>12 DEF Shutdown, server
  <2>2. CASE wire' = <<>> /\ ~pipe'
    <3>1. wire' = SubSeq(wire, 1, 0) /\ 0 \in 0..Len(wire)
      BY <2>2, <1>w, WriterTypes, SubSeqEmpty
    <3> QED
      BY <3>1, <2>1, <2>2, DeliveryCut
  <2>3. CASE UNCHANGED <<wire, pipe>>
    BY <2>1, <2>3, SameReading, DeliveryStays
  <2> QED
    BY <2>2, <2>3, <1>12 DEF Shutdown, Return
<1>13. CASE Exit
  <2>1. CASE InFlight
    <3>1. srv' = [srv EXCEPT !.pc = "killed"]
      BY <1>13, <2>1 DEF Exit
    <3>2. srv'.pc = "killed"
      BY <3>1, <1>h DEF Handlers
    <3> QED
      BY <3>2, <1>n DEF Reading
  <2>2. CASE ~InFlight
    <3>1. UNCHANGED <<plan, wire, srv, writer, pipe>>
      BY <1>13, <2>2 DEF Exit, client
    <3> QED
      BY <3>1, SameReading, DeliveryStays
  <2> QED
    BY <2>1, <2>2
<1>14. CASE UNCHANGED vars
  <2>1. UNCHANGED <<plan, wire, srv, writer, pipe>>
    BY <1>14 DEF vars
  <2> QED
    BY <2>1, SameReading, DeliveryStays
<1> QED
  BY <1>1, <1>2, <1>3, <1>4, <1>5, <1>6, <1>7, <1>8, <1>9, <1>10, <1>11, <1>12, <1>13, <1>14,
     DeliveryOfHeader, DeliveryOfData, DeliveryOfEnd, DeliveryOfTrailer DEF Next

-----------------------------------------------------------------------------
(* What has been received, and published, is what was sent.                *)

LEMMA ReceivedStays ==
  ASSUME Received, UNCHANGED plan, srv'.got = srv.got, srv.pc \notin {"done", "killed"},
         srv'.pc = "body" => srv.pc = "body" /\ srv'.name = srv.name,
         srv'.pc \in {"operation", "returning"} => srv.pc \in {"operation", "returning"}
  PROVE  Received'
<1>1. (Foreign' <=> Foreign) /\ Position' = Position
  BY PlanStays DEF Position
<1>2. ASSUME ~Foreign, srv'.pc \notin {"done", "killed"}
      PROVE  /\ Len(srv'.got) <= Len(plan'.sent)
             /\ \A i \in DOMAIN srv'.got :
                  /\ srv'.got[i].name = plan'.sent[i].name
                  /\ srv'.got[i].size = plan'.sent[i].size \/ ~Whole(plan', i)
             /\ srv'.pc = "body" =>
                  Position' <= Len(plan'.sent) /\ srv'.name = plan'.sent[Position'].name
             /\ srv'.pc \in {"operation", "returning"} =>
                  Len(srv'.got) = Len(plan'.sent) \/ \E i \in DOMAIN plan'.sent : ~Whole(plan', i)
  BY <1>1, <1>2 DEF Received
<1> QED
  BY <1>1, <1>2 DEF Received

LEMMA ReceivedStep == Typed /\ ServerOK /\ Delivery /\ Received /\ [Next]_vars => Received'
<1> SUFFICES ASSUME Typed, ServerOK, Delivery, Received, [Next]_vars
             PROVE  Received'
  OBVIOUS
<1>d. srv'.pc \in {"done", "killed"} => Received'
  BY DEF Received
<1>h. srv \in Handlers
  BY HandlerTypes
<1>p. /\ Len(srv.got) \in Nat /\ Position = Len(srv.got) + 1 /\ DOMAIN srv.got = 1..Len(srv.got)
      /\ srv.size \in Nat
      /\ Len(plan.sent) \in Nat /\ DOMAIN plan.sent = 1..Len(plan.sent)
  BY HandlerTypes, WriterTypes
<1>1. CASE NextPart
  <2>1. /\ plan' = plan /\ wire # <<>> /\ srv.pc = "next" /\ Head(wire)[1] = "part"
        /\ \/ srv'.pc = "done" /\ srv'.got = srv.got
           \/ srv'.pc = "body" /\ srv'.got = srv.got /\ srv'.name = Head(wire)[2]
    BY <1>1, HeaderRead
  <2>2. SUFFICES ASSUME ~Foreign, srv'.pc = "body", srv'.got = srv.got, srv'.name = Head(wire)[2]
                 PROVE  Received'
    BY <2>1, <1>d, PlanStays DEF Received
  <2>3. PICK a \in Places : Follows(plan, ReadTo, Head(wire), a)
    BY <2>1, <2>2, Arrives DEF Reading
  <2>4. ReadTo.n = Len(srv.got)
    BY <2>1 DEF ReadTo, At
  <2>5. Position \in 1..Len(plan.sent) /\ srv'.name = plan.sent[Position].name
    BY <2>1, <2>2, <2>3, <2>4, <1>p DEF Follows
  <2>6. Position' = Position
    BY <2>2 DEF Position
  <2>7. /\ Len(srv.got) <= Len(plan.sent)
        /\ \A i \in DOMAIN srv.got :
             /\ srv.got[i].name = plan.sent[i].name
             /\ srv.got[i].size = plan.sent[i].size \/ ~Whole(plan, i)
    BY <2>1, <2>2 DEF Received
  <2> QED
    BY <2>1, <2>2, <2>5, <2>6, <2>7, <1>p DEF Received
<1>2. CASE SpoolPart
  <2>1. /\ plan' = plan /\ srv.pc = "body"
        /\ \/ srv'.pc = "done"
           \/ srv'.pc = "body" /\ srv'.got = srv.got /\ srv'.name = srv.name
    BY <1>2, ChunkRead
  <2> QED
    BY <2>1, <1>d, ReceivedStays
<1>3. CASE PartSpooled
  <2> DEFINE len == Len(srv.got)
             part == [name |-> srv.name, size |-> srv.size]
  <2>1. /\ plan' = plan /\ wire # <<>> /\ srv.pc = "body" /\ Head(wire)[1] \in {"part", "trailer"}
        /\ \/ srv'.pc = "done"
           \/ /\ srv'.pc = "next"
              /\ DOMAIN srv'.got = 1..(len + 1) /\ Len(srv'.got) = len + 1
              /\ \A i \in 1..len : srv'.got[i] = srv.got[i]
              /\ srv'.got[len + 1] = part
    BY <1>3, PartRead
  <2>p. part.name = srv.name /\ part.size = srv.size
    OBVIOUS
  <2> HIDE DEF part
  <2>2. SUFFICES ASSUME ~Foreign, srv'.pc = "next",
                        DOMAIN srv'.got = 1..(len + 1), Len(srv'.got) = len + 1,
                        \A i \in 1..len : srv'.got[i] = srv.got[i],
                        srv'.got[len + 1] = part
                 PROVE  Received'
    BY <2>1, <1>d, PlanStays DEF Received
  <2>3. PICK a \in Places : Follows(plan, ReadTo, Head(wire), a)
    BY <2>1, Arrives, <2>2 DEF Reading
  <2>4. ReadTo.n = len + 1 /\ ReadTo.k = srv.size
    BY <2>1 DEF ReadTo, At, Position
  <2>5. srv.size = SizeOf(plan, len + 1) \/ ~Whole(plan, len + 1)
    <3>1. CASE Head(wire)[1] = "part"
      BY <3>1, <2>3, <2>4 DEF Follows
    <3>2. CASE Head(wire)[1] = "trailer"
      BY <3>2, <2>3, <2>4 DEF Follows, MayEnd
    <3> QED
      BY <2>1, <3>1, <3>2
  <2>6. SizeOf(plan, len + 1) = plan.sent[len + 1].size
    BY <1>p DEF SizeOf
  <2>7. /\ len + 1 <= Len(plan.sent) /\ srv.name = plan.sent[len + 1].name
        /\ \A i \in 1..len :
             /\ srv.got[i].name = plan.sent[i].name
             /\ srv.got[i].size = plan.sent[i].size \/ ~Whole(plan, i)
    BY <2>1, <2>2, <1>p DEF Received
  <2>8. ASSUME NEW i \in 1..(len + 1)
        PROVE  /\ srv'.got[i].name = plan.sent[i].name
               /\ srv'.got[i].size = plan.sent[i].size \/ ~Whole(plan, i)
    <3>1. CASE i \in 1..len
      BY <3>1, <2>2, <2>7
    <3>2. CASE i = len + 1
      BY <3>2, <2>2, <2>5, <2>6, <2>7, <2>p
    <3> QED
      BY <3>1, <3>2, <1>p
  <2> HIDE DEF len
  <2> QED
    BY <2>1, <2>2, <2>7, <2>8 DEF Received
<1>4. CASE EndOfParts
  <2>1. /\ plan' = plan /\ srv.pc = "next" /\ wire # <<>> /\ Head(wire)[1] = "trailer"
        /\ \/ srv' = [srv EXCEPT !.pc = "done", !.result = "refused"]
           \/ srv' = [srv EXCEPT !.pc = "operation"]
    BY <1>4 DEF EndOfParts, Refuse
  <2>2. \/ srv'.pc = "done"
        \/ srv'.pc = "operation" /\ srv'.got = srv.got
    BY <2>1, <1>h DEF Handlers
  <2>3. SUFFICES ASSUME ~Foreign, srv'.pc = "operation", srv'.got = srv.got
                 PROVE  Received'
    BY <2>1, <2>2, <1>d, PlanStays DEF Received
  <2>4. PICK a \in Places : Follows(plan, ReadTo, Head(wire), a)
    BY <2>1, <2>3, Arrives DEF Reading
  <2>5. ReadTo.n = Len(srv.got)
    BY <2>1 DEF ReadTo, At
  <2>6. Len(srv.got) = Len(plan.sent) \/ \E i \in DOMAIN plan.sent : ~Whole(plan, i)
    BY <2>1, <2>4, <2>5 DEF Follows, MayEnd
  <2>7. /\ Len(srv.got) <= Len(plan.sent)
        /\ \A i \in DOMAIN srv.got :
             /\ srv.got[i].name = plan.sent[i].name
             /\ srv.got[i].size = plan.sent[i].size \/ ~Whole(plan, i)
    BY <2>1, <2>3 DEF Received
  <2> QED
    BY <2>1, <2>3, <2>6, <2>7 DEF Received
<1>5. CASE Accept
  <2>1. /\ plan' = plan /\ srv.pc = "idle"
        /\ \/ srv' = [srv EXCEPT !.pc = "done", !.result = "refused"]
           \/ srv' = [srv EXCEPT !.pc = "next"]
    BY <1>5 DEF Accept, Await, Refuse
  <2>2. srv'.pc = "done" \/ (srv'.pc = "next" /\ srv'.got = srv.got)
    BY <2>1, <1>h DEF Handlers
  <2> QED
    BY <2>1, <2>2, <1>d, ReceivedStays
<1>6. CASE OperationSucceeds \/ OperationFails
  <2>1. /\ plan' = plan /\ srv.pc = "operation"
        /\ \E r : srv' = [srv EXCEPT !.pc = "returning", !.result = r]
    BY <1>6 DEF OperationSucceeds, OperationFails, Operates
  <2>2. srv'.pc = "returning" /\ srv'.got = srv.got
    BY <2>1, <1>h DEF Handlers
  <2> QED
    BY <2>1, <2>2, ReceivedStays
<1>7. CASE BodyTruncated \/ Respond
  <2>1. \/ srv' = [srv EXCEPT !.pc = "done", !.result = "refused"]
        \/ srv' = [srv EXCEPT !.pc = "done"]
    BY <1>7 DEF BodyTruncated, Respond, Refuse
  <2>2. srv'.pc = "done"
    BY <2>1, <1>h DEF Handlers
  <2> QED
    BY <2>2, <1>d
<1>8. CASE Exit
  <2>1. plan' = plan /\ (srv' = srv \/ srv' = [srv EXCEPT !.pc = "killed"])
    BY <1>8 DEF Exit
  <2>2. srv' = srv \/ srv'.pc = "killed"
    BY <2>1, <1>h DEF Handlers
  <2> QED
    BY <2>1, <2>2, <1>d, ReceivedStays
<1>9. ASSUME UNCHANGED <<plan, srv>>
      PROVE  Received'
  BY <1>9, <1>d, ReceivedStays
<1>10. ASSUME \/ Prepare \/ PrepareFails \/ WriteHeader \/ WriteData \/ EndPart \/ WriteTrailer
              \/ ClosePipe \/ WriterStops \/ ReadEntry \/ EntryOpened \/ EntryRecorded \/ EntryRead
              \/ Receive \/ Disconnect \/ Dropped \/ Shutdown \/ UNCHANGED vars
       PROVE  UNCHANGED <<plan, srv>>
  BY <1>10 DEF Prepare, PrepareFails, WriteHeader, WriteData, EndPart, WriteTrailer, ClosePipe, WriterStops,
     ReadEntry, EntryOpened, EntryRecorded, EntryRead, Receive, Disconnect, Dropped, Shutdown, vars, server
<1> QED
  BY <1>1, <1>2, <1>3, <1>4, <1>5, <1>6, <1>7, <1>8, <1>9, <1>10 DEF Next

LEMMA PublishedStep == Typed /\ Received /\ Published /\ [Next]_vars => Published'
<1> SUFFICES ASSUME Typed, Received, Published, [Next]_vars
             PROVE  Published'
  OBVIOUS
<1>1. CASE OperationSucceeds \/ OperationFails
  <2>1. plan' = plan /\ srv.pc = "operation" /\ applied' \in {Nothing, srv.got}
    BY <1>1 DEF OperationSucceeds, OperationFails
  <2>2. SUFFICES ASSUME ~Foreign, applied' = srv.got
                 PROVE  Published'
    BY <2>1, PlanStays DEF Published
  <2>3. /\ Len(srv.got) <= Len(plan.sent)
        /\ \A i \in DOMAIN srv.got :
             /\ srv.got[i].name = plan.sent[i].name
             /\ srv.got[i].size = plan.sent[i].size \/ ~Whole(plan, i)
        /\ Len(srv.got) = Len(plan.sent) \/ \E i \in DOMAIN plan.sent : ~Whole(plan, i)
    BY <2>1, <2>2 DEF Received
  <2>4. /\ Len(srv.got) \in Nat /\ DOMAIN srv.got = 1..Len(srv.got)
        /\ Len(plan.sent) \in Nat /\ DOMAIN plan.sent = 1..Len(plan.sent)
    BY HandlerTypes, WriterTypes
  <2>5. \A i \in DOMAIN srv.got : i \in DOMAIN plan.sent
    BY <2>3, <2>4
  <2> QED
    BY <2>1, <2>2, <2>3, <2>5 DEF Published
<1>2. ASSUME UNCHANGED <<plan, applied>>
      PROVE  Published'
  BY <1>2, PlanStays DEF Published
<1>3. ASSUME \/ Prepare \/ PrepareFails \/ WriteHeader \/ WriteData \/ EndPart \/ WriteTrailer
             \/ ClosePipe \/ WriterStops \/ Accept \/ NextPart \/ SpoolPart \/ PartSpooled
             \/ EndOfParts \/ BodyTruncated \/ ReadEntry \/ EntryOpened \/ EntryRecorded \/ EntryRead
             \/ Respond \/ Receive \/ Disconnect \/ Dropped \/ Shutdown \/ Exit \/ UNCHANGED vars
      PROVE  UNCHANGED <<plan, applied>>
  BY <1>3 DEF Prepare, PrepareFails, WriteHeader, WriteData, EndPart, WriteTrailer, ClosePipe, WriterStops,
     Accept, NextPart, SpoolPart, PartSpooled, EndOfParts, BodyTruncated, Refuse, Respond, Exit,
     ReadEntry, EntryOpened, EntryRecorded, EntryRead, Receive, Disconnect, Dropped, Shutdown, vars, server
<1> QED
  BY <1>1, <1>2, <1>3 DEF Next

LEMMA StreamInit == Init => StreamOK
<1> SUFFICES ASSUME Init PROVE StreamOK
  OBVIOUS
<1>1. ClientOK
  BY ClientInit
<1>2. /\ srv = [pc |-> "idle", got |-> <<>>, meta |-> FALSE, name |-> "", size |-> 0, result |-> ""]
      /\ writer = [pc |-> "idle", part |-> 1, off |-> 0, err |-> FALSE]
      /\ wire = <<>> /\ applied = Nothing /\ plan \in Plans
  BY DEF Init
<1>3. srv.pc = "idle" /\ srv.got = <<>> /\ writer.pc = "idle" /\ Len(<<>>) = 0
  BY <1>2, EmptySeq
<1>4. Delivery
  <2> DEFINE a == At(0, 0)
             st == [j \in 0..0 |-> a]
  <2>1. a \in Places
    BY DEF Places, At
  <2>2. WrittenTo(a) /\ ReadTo = a
    BY <1>3 DEF WrittenTo, ReadTo
  <2> HIDE DEF a
  <2>3. Path(plan, st, wire) /\ st[0] = a /\ Len(wire) = 0
    BY <2>1, <1>2, PathEmpty
  <2>4. PICK s : s = st
    OBVIOUS
  <2> HIDE DEF st
  <2>5. Path(plan, s, wire) /\ s[0] = ReadTo /\ WrittenTo(s[Len(wire)])
    BY <2>2, <2>3, <2>4
  <2> QED
    BY <2>5 DEF Delivery
<1>5. Received
  <2>0. Len(plan.sent) \in Nat \ {0}
    BY ONLY <1>2, PlanTyped
  <2>1. Len(plan.sent) \in Nat /\ Len(plan.sent) >= 0
    BY <2>0
  <2>2. Len(srv.got) = 0 /\ DOMAIN srv.got = {}
    BY <1>3
  <2> QED
    BY <2>1, <2>2, <1>3 DEF Received
<1>6. Published
  BY <1>2 DEF Published
<1> QED
  BY <1>1, <1>4, <1>5, <1>6 DEF StreamOK

LEMMA StreamStep == Typed /\ ServerOK /\ StreamOK /\ [Next]_vars => StreamOK'
BY ClientStep, DeliveryStep, ReceivedStep, PublishedStep DEF StreamOK

-----------------------------------------------------------------------------
(* What follows for the caller.                                            *)

LEMMA DocumentsAreComplete ==
  ASSUME Typed, ServerOK
  PROVE  DocumentsComplete
<1> SUFFICES ASSUME srv.pc = "operation", ~Collection
             PROVE  /\ [i \in DOMAIN srv.got |-> srv.got[i].name] = Expected
                    /\ \A i \in DOMAIN srv.got :
                         srv.got[i].name = "assets" => srv.got[i].size = Descriptor(i).size
  BY DEF DocumentsComplete
<1> DEFINE Labels == {"metadata", "document", "pages", "assets"}
           n == Len(Expected)
<1>1. Describes(srv.got) /\ Len(srv.got) = n
  BY DEF ServerOK, DocumentOK
<1>2. n \in Nat /\ Expected \in Seq(Labels) /\ DOMAIN srv.got = 1..n
  BY <1>1, ExpectedIs, HandlerTypes
<1> HIDE DEF Labels
<1>3. Expected \in [1..n -> Labels]
  BY <1>2, LenProperties
<1>4. \A i \in 1..n : srv.got[i].name = Expected[i]
  BY <1>1, <1>2 DEF Describes
<1>5. [i \in 1..n |-> srv.got[i].name] = Expected
  <2> PICK e : e = Expected
    OBVIOUS
  <2> HIDE DEF n
  <2> QED
    BY <1>3, <1>4
<1> QED
  BY <1>1, <1>2, <1>5 DEF Describes

LEMMA OutcomesAreHonest ==
  ASSUME Typed, ServerOK, Published
  PROVE  OutcomeHonest
<1>1. /\ call = "created" => (applied # Nothing /\ applied = srv.got)
      /\ srv.result = "refused" => applied = Nothing
  BY DEF ServerOK, HandlerOK
<1>2. ASSUME call = "created", ~Collection, ~Foreign,
             NEW i \in DOMAIN applied, applied[i].name \in {"pages", "assets"}
      PROVE  applied[i].size = Descriptor(i).size
  <2>1. applied = srv.got /\ applied # Nothing /\ Describes(srv.got)
    BY <1>1, <1>2 DEF ServerOK, DocumentOK
  <2>2. CASE applied[i].name = "assets"
    BY <2>1, <2>2, <1>2 DEF Describes
  <2>3. CASE applied[i].name = "pages"
    <3>1. /\ i \in DOMAIN plan.sent /\ plan.sent[i].name = "pages"
          /\ applied[i].size = plan.sent[i].size \/ ~Whole(plan, i)
      BY <2>1, <2>3, <1>2 DEF Published
    <3>2. plan \in Plans /\ plan.origin = "airplan"
      BY <1>2, PlanTyped DEF Typed, Foreign
    <3>3. /\ plan.described[i - 2] = [name |-> plan.sent[i].name, size |-> plan.sent[i].size]
          /\ plan.sent[i].read = "whole"
      BY <3>1, <3>2, ClientAssumption
    <3> QED
      BY <3>1, <3>3 DEF Descriptor, Whole
  <2> QED
    BY <2>2, <2>3, <1>2
<1> QED
  BY <1>1, <1>2 DEF OutcomeHonest

(* Whatever is refused, cut, retried against the limits or lost on the way: *)
(* a document is published only with all the parts its metadata describes,  *)
(* a caller told of success has its upload published, page for page and     *)
(* asset for asset, and one the parser refuses has published nothing        *)
(* (parseDocumentMultipart, validateMultipartParts, writeExactPart).        *)
THEOREM UploadsAreHonest == Spec => []UploadHonest
<1>1. Init => Typed /\ ServerOK /\ StreamOK
  BY TypedInit, ServerInit, StreamInit
<1>2. Typed /\ ServerOK /\ StreamOK /\ [Next]_vars => Typed' /\ ServerOK' /\ StreamOK'
  BY TypedStep, ServerStep, StreamStep
<1>3. Typed /\ ServerOK /\ StreamOK => UploadHonest
  BY DocumentsAreComplete, OutcomesAreHonest DEF StreamOK, UploadHonest
<1> QED
  BY <1>1, <1>2, <1>3, PTL DEF Spec

(* What is published of this program's upload is what was sent, all of it,  *)
(* part for part and chunk for chunk, wherever the connection breaks, as    *)
(* long as its sources are what they were measured to be.  (When one is     *)
(* not, PublishedWhole fails: the final boundary follows it all the same.)  *)
WholeOrNothing ==
  applied # Nothing /\ ~Foreign /\ (\A i \in DOMAIN plan.sent : Whole(plan, i)) =>
    applied = [i \in DOMAIN plan.sent |-> [name |-> plan.sent[i].name, size |-> plan.sent[i].size]]

LEMMA PublishedInFull ==
  ASSUME Typed, Published
  PROVE  WholeOrNothing
<1> SUFFICES ASSUME applied # Nothing, ~Foreign, \A i \in DOMAIN plan.sent : Whole(plan, i)
             PROVE  applied = [i \in DOMAIN plan.sent |->
                                [name |-> plan.sent[i].name, size |-> plan.sent[i].size]]
  BY DEF WholeOrNothing
<1> DEFINE n == Len(plan.sent)
<1>1. /\ n \in Nat /\ DOMAIN plan.sent = 1..n /\ Len(applied) = n
      /\ \A i \in DOMAIN applied : /\ applied[i].name = plan.sent[i].name
                                   /\ applied[i].size = plan.sent[i].size
  BY WriterTypes DEF Published
<1> DEFINE Records == [name : Names, size : Nat]
<1>2. applied \in Seq(Records)
  BY DEF Typed, AnswerTyped, Parts
<1>3. applied \in [1..n -> Records]
  <2> HIDE DEF Records, n
  <2> QED
    BY <1>1, <1>2, LenProperties
<1>4. ASSUME NEW i \in 1..n
      PROVE  applied[i] = [name |-> plan.sent[i].name, size |-> plan.sent[i].size]
  <2>1. applied[i] \in Records
    BY <1>3
  <2>2. applied[i] = [name |-> applied[i].name, size |-> applied[i].size]
    BY <2>1
  <2> QED
    BY <2>2, <1>1, <1>3
<1> HIDE DEF n, Records
<1> QED
  BY <1>1, <1>3, <1>4

THEOREM SentWholeOrNotAtAll == Spec => []WholeOrNothing
<1>1. Init => Typed /\ ServerOK /\ StreamOK
  BY TypedInit, ServerInit, StreamInit
<1>2. Typed /\ ServerOK /\ StreamOK /\ [Next]_vars => Typed' /\ ServerOK' /\ StreamOK'
  BY TypedStep, ServerStep, StreamStep
<1>3. Typed /\ StreamOK => WholeOrNothing
  BY PublishedInFull DEF StreamOK
<1> QED
  BY <1>1, <1>2, <1>3, PTL DEF Spec

-----------------------------------------------------------------------------
(* What an upload is held to: UploadLimits.                                *)

(* The word keeps every integer.                                           *)
LEMMA WrapsIn == ASSUME LargestInteger \in Nat, NEW n \in Int PROVE Limits!Wrapped(n) \in Limits!Ints
<1>1. (n + LargestInteger + 1) % (2 * (LargestInteger + 1)) \in 0..(2 * (LargestInteger + 1) - 1)
  OBVIOUS
<1> QED
  BY <1>1 DEF Limits!Wrapped, Limits!Ints, Limits!Word

LEMMA Sizes == Limits!MiB = 1024 /\ Limits!GiB = 1024 * Limits!MiB /\ Limits!BaseOverhead = 16 * Limits!MiB
BY DEF Limits!MiB, Limits!GiB, Limits!BaseOverhead

(* The options of a server that runs.                                      *)
Options == [Limits!OptionNames -> Limits!Ints]
Serving == limitServer \in Options /\ Limits!ValidOptions(limitServer)

LEMMA NamesOfLimits ==
  /\ \A n : n \in Limits!LimitNames <=> n \in {"items", "page", "pageTotal", "asset", "assetTotal"}
  /\ \A n : n \in Limits!OptionNames <=> n \in Limits!LimitNames \/ n \in {"file", "fileTotal", "request"}
BY DEF Limits!OptionNames, Limits!LimitNames

LEMMA DefaultsTyped ==
  ASSUME Limits!LimitsAssumption, NEW o \in ServerOptions
  PROVE  Limits!WithDefaults(o) \in Options
<1> DEFINE F == [n \in DOMAIN o |->
            IF o[n] # 0 \/ n = "request" THEN o[n]
            ELSE IF n \in Limits!LimitNames THEN Limits!CoreDefault[n] ELSE Limits!CollectionDefault[n]]
<1>1. o \in [Limits!OptionNames -> Limits!Ints] /\ LargestInteger \in Nat /\ LargestInteger >= 4 * Limits!GiB
  BY DEF Limits!LimitsAssumption
<1>2. \A n \in Limits!LimitNames : Limits!CoreDefault[n] \in Limits!Ints
  BY <1>1, NamesOfLimits DEF Limits!CoreDefault, Limits!Ints, Limits!GiB, Limits!MiB
<1>3. Limits!CollectionDefault["file"] \in Limits!Ints /\ Limits!CollectionDefault["fileTotal"] \in Limits!Ints
  BY <1>1 DEF Limits!CollectionDefault, Limits!Ints, Limits!GiB, Limits!MiB
<1>4. F \in Options
  BY <1>1, <1>2, <1>3, NamesOfLimits DEF Options
<1> HIDE DEF F
<1>5. F.items \in Int /\ F.fileTotal \in Int /\ F.pageTotal \in Int /\ F.assetTotal \in Int
  BY <1>1, <1>4, NamesOfLimits DEF Options, Limits!Ints
<1>6. Limits!RequestBodyOverhead(F.items) \in Int /\ Limits!LargestPayload(F) \in Int
  BY <1>1, <1>5, WrapsIn DEF Limits!RequestBodyOverhead, Limits!LargestPayload, Limits!Larger, Limits!Ints,
     Limits!BaseOverhead, Limits!PartOverhead, Limits!MiB
<1>7. [F EXCEPT !.request = Limits!Wrapped(Limits!LargestPayload(F) + Limits!RequestBodyOverhead(F.items))] \in Options
  BY <1>1, <1>4, <1>6, WrapsIn DEF Options
<1> QED
  BY <1>4, <1>7 DEF F, Limits!WithDefaults

(* A request limit that validateOptions accepts holds all a request may    *)
(* carry, at any number of items that does not overflow it.                *)
LEMMA RoomEnough ==
  ASSUME Limits!LimitsAssumption, Limits!Deployed, NEW o \in ServerOptions,
         limitServer = Limits!WithDefaults(o), Serving
  PROVE  LET s == limitServer
             room == s.request - Limits!BaseOverhead - 8 * s.items
         IN  /\ s.pageTotal + s.assetTotal <= room /\ s.fileTotal <= room
             /\ s.file <= Limits!GiB /\ s.fileTotal <= 2 * Limits!GiB
<1> DEFINE s == limitServer
           F == [n \in DOMAIN o |->
            IF o[n] # 0 \/ n = "request" THEN o[n]
            ELSE IF n \in Limits!LimitNames THEN Limits!CoreDefault[n] ELSE Limits!CollectionDefault[n]]
<1>1. o \in [Limits!OptionNames -> Limits!Ints] /\ LargestInteger \in Nat /\ LargestInteger >= 4 * Limits!GiB
  BY DEF Limits!LimitsAssumption
<1>2. F \in [Limits!OptionNames -> Int]
  <2>1. \A n \in Limits!LimitNames : Limits!CoreDefault[n] \in Int
    BY NamesOfLimits DEF Limits!CoreDefault, Limits!GiB, Limits!MiB
  <2>2. Limits!CollectionDefault["file"] \in Int /\ Limits!CollectionDefault["fileTotal"] \in Int
    BY DEF Limits!CollectionDefault, Limits!GiB, Limits!MiB
  <2> QED
    BY <1>1, <2>1, <2>2, NamesOfLimits DEF Limits!Ints
<1>3. \A n \in Limits!OptionNames \ {"request"} : s[n] = F[n]
  BY <1>2 DEF Limits!WithDefaults
<1>4. /\ F.items = IF o.items = 0 THEN 1000 ELSE o.items
      /\ F.file = IF o.file = 0 THEN Limits!GiB ELSE o.file
      /\ F.fileTotal = IF o.fileTotal = 0 THEN 2 * Limits!GiB ELSE o.fileTotal
  BY <1>1, NamesOfLimits DEF Limits!CoreDefault, Limits!CollectionDefault
<1> HIDE DEF F
<1>5. /\ s.items = F.items /\ s.file = F.file /\ s.fileTotal = F.fileTotal
      /\ s.items \in Int /\ s.items > 0 /\ o.items \in Int /\ o.items >= 0
      /\ s.file \in Int /\ s.fileTotal \in Int /\ o.file \in Int /\ o.fileTotal \in Int
      /\ s.fileTotal >= s.file /\ s.file > 0
  <2>1. s.items = F.items /\ s.file = F.file /\ s.fileTotal = F.fileTotal
    BY <1>3, NamesOfLimits
  <2>2. s.items \in Int /\ s.file \in Int /\ s.fileTotal \in Int
    BY <1>2, <2>1, NamesOfLimits
  <2>3. s.items > 0 /\ s.file > 0 /\ s.fileTotal >= s.file
    BY NamesOfLimits DEF Serving, Options, Limits!ValidOptions
  <2>4. o.items \in Int /\ o.file \in Int /\ o.fileTotal \in Int
    BY <1>1, NamesOfLimits DEF Limits!Ints
  <2> QED
    BY <2>1, <2>2, <2>3, <2>4, <1>4
<1>6. /\ o.file <= Limits!GiB /\ o.fileTotal <= 2 * Limits!GiB
      /\ 4 * Limits!GiB + Limits!BaseOverhead + o.items * 8 <= LargestInteger
  BY DEF Limits!Deployed, Limits!PartOverhead
<1>7. s.file <= Limits!GiB /\ s.fileTotal <= 2 * Limits!GiB
  BY <1>4, <1>5, <1>6 DEF Limits!GiB, Limits!MiB
<1>8. 3 * Limits!GiB + Limits!BaseOverhead + s.items * 8 <= LargestInteger
  BY <1>1, <1>4, <1>5, <1>6 DEF Limits!GiB, Limits!MiB, Limits!BaseOverhead
<1>9. s.pageTotal \in Int /\ s.pageTotal > 0 /\ s.pageTotal <= 100 * Limits!MiB
      /\ s.assetTotal \in Int /\ s.assetTotal > 0 /\ s.assetTotal <= 2 * Limits!GiB
      /\ s.request \in Int
  <2>1. s.pageTotal \in Int /\ s.assetTotal \in Int /\ s.request \in Int
    BY NamesOfLimits DEF Serving, Options, Limits!Ints
  <2>2. s.pageTotal > 0 /\ s.assetTotal > 0
    BY NamesOfLimits DEF Serving, Options, Limits!ValidOptions
  <2>3. s.pageTotal <= Limits!CoreDefault["pageTotal"] /\ s.assetTotal <= Limits!CoreDefault["assetTotal"]
    BY NamesOfLimits DEF Serving, Options, Limits!ValidOptions
  <2>4. Limits!CoreDefault["pageTotal"] = 100 * Limits!MiB /\ Limits!CoreDefault["assetTotal"] = 2 * Limits!GiB
    BY DEF Limits!CoreDefault
  <2> QED
    BY <2>1, <2>2, <2>3, <2>4
<1>10. Limits!RequestBodyOverhead(s.items) = Limits!BaseOverhead + s.items * 8
  <2>1. s.items * 8 \in Limits!Ints
    BY <1>1, <1>5, <1>8 DEF Limits!Ints, Limits!GiB, Limits!MiB, Limits!BaseOverhead
  <2>2. Limits!BaseOverhead + s.items * 8 \in Limits!Ints
    BY <1>1, <1>5, <1>8 DEF Limits!Ints, Limits!GiB, Limits!MiB, Limits!BaseOverhead
  <2> QED
    BY <2>1, <2>2 DEF Limits!RequestBodyOverhead, Limits!Wrapped, Limits!PartOverhead
<1>11. Limits!LargestPayload(s) = Limits!Larger(s.fileTotal, s.pageTotal + s.assetTotal)
  <2>1. s.pageTotal + s.assetTotal \in Limits!Ints
    BY <1>1, <1>9 DEF Limits!Ints, Limits!GiB, Limits!MiB
  <2> QED
    BY <2>1 DEF Limits!LargestPayload, Limits!Wrapped
<1>12. PICK L \in Int : /\ L = Limits!Larger(s.fileTotal, s.pageTotal + s.assetTotal)
                        /\ L >= 0 /\ L <= 3 * Limits!GiB
  BY <1>5, <1>7, <1>9 DEF Limits!Larger, Limits!GiB, Limits!MiB
<1>13. s.request >= Limits!Larger(s.fileTotal, s.pageTotal + s.assetTotal) + (Limits!BaseOverhead + s.items * 8)
  <2>1. s.request >= Limits!Wrapped(Limits!LargestPayload(s) + Limits!RequestBodyOverhead(s.items))
    BY DEF Serving, Limits!ValidOptions
  <2>2. Limits!LargestPayload(s) + Limits!RequestBodyOverhead(s.items) \in Limits!Ints
    <3>2. PICK i \in Int : i = s.items /\ i > 0
      BY <1>5
    <3>3. L + (Limits!BaseOverhead + i * 8) \in Limits!Ints
      BY <1>1, <1>8, <1>12, <3>2, Sizes DEF Limits!Ints
    <3> QED
      BY <1>10, <1>11, <1>12, <3>2, <3>3
  <2> QED
    BY <2>1, <2>2, <1>10, <1>11 DEF Limits!Wrapped
<1> QED
  BY <1>5, <1>7, <1>9, <1>13 DEF Limits!Larger, Limits!BaseOverhead, Limits!MiB

(* The call, what it has passed and what is left of its limits.            *)
Requested == [at : {"called", "sent", "core", "accepted", "refused"}, surface : {"library", "rest", "hosted"},
              upload : UploadSizes, asked : CallerLimits, limits : [Limits!LimitNames -> Int]]

ClientPassed(u, a) ==
  /\ ~Limits!TooMany(u, a)
  /\ u.kind = "collection" => ~Limits!CoreRefuses(u, a)

ParserPassed(u, limits) ==
  /\ u.items <= limitServer.items
  /\ u.kind # "collection" =>
       \A n \in Limits!LimitNames \ {"items"} : u[n] <= Limits!LowerLimit(limitServer[n], limits[n])
  /\ u.kind = "collection" =>
       /\ u.asset <= Limits!LowerLimit(limitServer.file, limits.asset)
       /\ u.assetTotal <= Limits!LowerLimit(limitServer.fileTotal, limits.assetTotal)

SurfaceOK ==
  /\ limitCall.surface = "library" <=> limitServer = Limits!Down
  /\ limitCall.surface = "hosted" => limitCall.upload.kind # "collection"

PassageOK ==
  LET u == limitCall.upload
      a == limitCall.asked
  IN  /\ limitCall.at = "called" => limitCall.limits = a
      /\ limitCall.at = "sent" =>
           /\ limitCall.surface = "rest" /\ limitCall.limits = Limits!WireLimits(u, a) /\ ClientPassed(u, a)
           /\ limitWire \in {Limits!Payload(u), Limits!Estimate(u)}
      /\ limitCall.at = "core" /\ limitCall.surface = "library" => limitCall.limits = a
      /\ limitCall.at = "core" /\ limitCall.surface = "hosted" =>
           limitCall.limits = Limits!HostedLimits(a) /\ u.assetTotal <= Limits!InlineAssets
      /\ limitCall.at = "core" /\ limitCall.surface = "rest" =>
           limitCall.limits = Limits!WireLimits(u, a) /\ ClientPassed(u, a) /\ ParserPassed(u, limitCall.limits)

LimitsInv ==
  /\ limitWire \in Nat
  /\ \/ limitServer = Limits!Down
     \/ Serving /\ limitServer \in {Limits!WithDefaults(o) : o \in ServerOptions}
  /\ limitCall = [at |-> "none"] \/ (limitCall \in Requested /\ SurfaceOK /\ PassageOK)

Within(n) == limitCall.upload[n] <= Limits!Stated(n)

LEMMA UploadTyped ==
  ASSUME Limits!LimitsAssumption, NEW u \in UploadSizes
  PROVE  /\ \A n \in Limits!LimitNames : u[n] \in Int /\ u[n] >= 0 /\ u[n] <= LargestInteger
         /\ u.items \in Int /\ u.items > 0 /\ u.metadata \in Int /\ u.metadata >= 0
         /\ u.page \in Int /\ u.pageTotal \in Int /\ u.asset \in Int /\ u.assetTotal \in Int
         /\ u.pageTotal >= 0 /\ u.assetTotal >= 0
BY NamesOfLimits DEF Limits!LimitsAssumption

LEMMA DefaultTyped ==
  ASSUME Limits!LimitsAssumption, NEW n \in Limits!Limiting
  PROVE  n \in Limits!LimitNames /\ Limits!Default(n) \in Int /\ Limits!Default(n) > 0
BY NamesOfLimits DEF Limits!Limiting, Limits!Default, Limits!CollectionDefault, Limits!CoreDefault, Limits!GiB, Limits!MiB

LEMMA ServerTyped ==
  ASSUME Serving
  PROVE  /\ \A n \in Limits!OptionNames : limitServer[n] \in Int /\ limitServer[n] > 0
         /\ limitServer.items \in Int /\ limitServer.file \in Int /\ limitServer.fileTotal \in Int
         /\ limitServer.items > 0 /\ limitServer.file > 0 /\ limitServer.fileTotal > 0
         /\ \A n \in Limits!LimitNames \ {"items"} : limitServer[n] <= Limits!CoreDefault[n]
BY NamesOfLimits DEF Serving, Options, Limits!ValidOptions, Limits!Ints

LEMMA StatedIs ==
  ASSUME Limits!LimitsAssumption, LimitsInv, limitCall.at # "none", NEW n \in Limits!Limiting
  PROVE  /\ Within(n) <=> limitCall.upload[n] <= Limits!Ceiling(n)
                             /\ ~Limits!Over(limitCall.upload[n], limitCall.asked[n], Limits!Default(n))
         /\ limitCall.upload[n] \in Int /\ Limits!Stated(n) \in Int
<1>1. /\ limitCall \in Requested /\ SurfaceOK
      /\ limitCall.upload \in UploadSizes /\ limitCall.asked \in CallerLimits
      /\ limitCall.surface \in {"library", "rest", "hosted"}
  BY DEF LimitsInv, Requested
<1>2. PICK x \in Int : x = limitCall.upload[n] /\ x >= 0 /\ x <= LargestInteger
  BY <1>1, UploadTyped, DefaultTyped
<1>3. PICK d \in Int : d = Limits!Default(n) /\ d > 0
  BY DefaultTyped
<1>4. PICK a \in Int : a = limitCall.asked[n]
  BY <1>1, DefaultTyped DEF Limits!LimitsAssumption, Limits!Ints
<1>5. limitCall.surface # "library" => Serving
  BY <1>1 DEF LimitsInv, SurfaceOK
<1>6. Limits!Ceiling(n) \in Int
  <2>1. CASE limitCall.surface = "library"
    BY <2>1 DEF Limits!Ceiling, Limits!LimitsAssumption
  <2>2. CASE limitCall.surface = "hosted"
    BY <2>2, <1>3, <1>5, ServerTyped DEF Limits!Ceiling, Limits!InlineAssets, Limits!MiB
  <2>3. CASE limitCall.surface = "rest"
    BY <2>3, <1>5, ServerTyped, DefaultTyped, NamesOfLimits DEF Limits!Ceiling
  <2> QED
    BY <1>1, <2>1, <2>2, <2>3
<1>7. PICK c \in Int : c = Limits!Ceiling(n)
  BY <1>6
<1>8. Limits!Stated(n) = Limits!Smaller(c, IF a > 0 THEN a ELSE IF a = 0 THEN d ELSE LargestInteger)
  BY <1>3, <1>4, <1>7 DEF Limits!Stated
<1>9. x <= Limits!Smaller(c, IF a > 0 THEN a ELSE IF a = 0 THEN d ELSE LargestInteger)
        <=> x <= c /\ ~Limits!Over(x, a, d)
  BY <1>2, <1>3, <1>4, <1>7 DEF Limits!Smaller, Limits!Over, Limits!LimitsAssumption
<1>10. Limits!Smaller(c, IF a > 0 THEN a ELSE IF a = 0 THEN d ELSE LargestInteger) \in Int
  BY <1>3, <1>4, <1>7 DEF Limits!Smaller, Limits!LimitsAssumption
<1> QED
  BY <1>2, <1>3, <1>4, <1>7, <1>8, <1>9, <1>10 DEF Within

(* A name the ceiling and the caller allow is within what is stated, and   *)
(* one that either forbids is not.                                         *)
Refusable ==
  \/ limitCall.upload.metadata > Limits!MetadataLimit
  \/ \E n \in Limits!Limiting : ~Within(n)

LEMMA LimitingIs ==
  /\ limitCall.upload.kind = "collection" => Limits!Limiting = {"items", "asset", "assetTotal"}
  /\ limitCall.upload.kind # "collection" => Limits!Limiting = Limits!LimitNames
BY DEF Limits!Limiting

LEMMA CoreRefusesRightly ==
  ASSUME Limits!LimitsAssumption, LimitsInv, limitCall.at # "none",
         Limits!CoreRefuses(limitCall.upload, limitCall.asked)
  PROVE  Refusable
<1> DEFINE u == limitCall.upload
           a == limitCall.asked
<1>1. ASSUME NEW n \in Limits!Limiting, Limits!Over(u[n], a[n], Limits!Default(n)) PROVE Refusable
  BY <1>1, StatedIs DEF Refusable
<1>2. CASE Limits!TooMany(u, a)
  BY <1>1, <1>2, LimitingIs, NamesOfLimits DEF Limits!TooMany, Limits!Default
<1>3. CASE u.kind = "collection" /\ Limits!CollectionRefuses(u, a)
  BY <1>1, <1>3, LimitingIs DEF Limits!CollectionRefuses, Limits!Default
<1>4. CASE u.kind # "collection" /\ Limits!DocumentRefuses(u, a)
  BY <1>1, <1>4, LimitingIs, NamesOfLimits DEF Limits!DocumentRefuses, Limits!Default
<1> QED
  BY <1>2, <1>3, <1>4 DEF Limits!CoreRefuses

(* The estimate of an upload within its limits fits the request limit.     *)
LEMMA EstimateFits ==
  ASSUME Limits!LimitsAssumption, Limits!Deployed, LimitsInv, limitCall.at # "none", ~Refusable,
         limitCall.surface = "rest"
  PROVE  /\ Limits!Payload(limitCall.upload) <= limitServer.request
         /\ Limits!Estimate(limitCall.upload) <= limitServer.request
         /\ Limits!Estimate(limitCall.upload) <= LargestInteger
<1> DEFINE u == limitCall.upload
           s == limitServer
<1>1. Serving /\ u \in UploadSizes /\ s \in {Limits!WithDefaults(o) : o \in ServerOptions}
  BY DEF LimitsInv, SurfaceOK, Requested
<1>2. PICK o \in ServerOptions : s = Limits!WithDefaults(o)
  BY <1>1
<1>3. /\ u.items \in Int /\ u.items > 0 /\ u.metadata \in Int /\ u.metadata >= 0
      /\ u.pageTotal \in Int /\ u.assetTotal \in Int /\ u.pageTotal >= 0 /\ u.assetTotal >= 0
  BY <1>1, UploadTyped
<1>4. s.items \in Int /\ s.pageTotal \in Int /\ s.assetTotal \in Int /\ s.fileTotal \in Int
      /\ s.request \in Int /\ s.request <= LargestInteger
  BY <1>1, NamesOfLimits DEF Serving, Options, Limits!Ints, Limits!LimitsAssumption
<1>5. u.metadata <= 4 * 1024
  BY <1>3 DEF Refusable, Limits!MetadataLimit, Limits!MiB
<1>6. \A n \in Limits!Limiting : u[n] <= Limits!Ceiling(n)
  BY StatedIs DEF Refusable
<1>7. u.items <= s.items
  <2>1. "items" \in Limits!Limiting /\ Limits!Ceiling("items") = s.items
    BY LimitingIs, NamesOfLimits DEF Limits!Ceiling
  <2> QED
    BY <1>6, <2>1
<1>8. s.pageTotal + s.assetTotal + 16 * 1024 + 8 * s.items <= s.request
      /\ s.fileTotal + 16 * 1024 + 8 * s.items <= s.request
  BY <1>1, <1>2, <1>4, RoomEnough DEF Limits!BaseOverhead, Limits!MiB
<1>9. u.pageTotal + u.assetTotal + 16 * 1024 + 8 * s.items <= s.request
  <2>1. CASE u.kind = "collection"
    <3>1. u.pageTotal = 0
      BY <1>1, <2>1 DEF Limits!LimitsAssumption
    <3>2. u.assetTotal <= s.fileTotal
      <4>1. "assetTotal" \in Limits!Limiting /\ Limits!Ceiling("assetTotal") = s.fileTotal
        BY <2>1, LimitingIs DEF Limits!Ceiling
      <4> QED
        BY <1>6, <4>1
    <3> QED
      BY <1>3, <1>4, <1>8, <3>1, <3>2
  <2>2. CASE u.kind # "collection"
    <3>1. /\ "assetTotal" \in Limits!Limiting /\ Limits!Ceiling("assetTotal") = s.assetTotal
          /\ "pageTotal" \in Limits!Limiting /\ Limits!Ceiling("pageTotal") = s.pageTotal
      BY <2>2, LimitingIs, NamesOfLimits DEF Limits!Ceiling
    <3>2. u.assetTotal <= s.assetTotal /\ u.pageTotal <= s.pageTotal
      BY <1>6, <3>1
    <3> QED
      BY <1>3, <1>4, <1>8, <3>2
  <2> QED
    BY <2>1, <2>2
<1>10. ASSUME NEW p \in Int, NEW m \in Int, NEW i \in Int, NEW r \in Int, NEW k \in Int,
              m >= 0, m <= 4 * 1024, i <= k, p + 16 * 1024 + 8 * k <= r, i > 0
       PROVE  p + m <= r /\ p + m + 1024 + 2 * m + (i + 1) * 8 <= r
  BY <1>10
<1>11. PICK p \in Int : p = u.pageTotal + u.assetTotal
  BY <1>3
<1>12. p + u.metadata <= s.request /\ p + u.metadata + 1024 + 2 * u.metadata + (u.items + 1) * 8 <= s.request
  BY <1>3, <1>4, <1>5, <1>7, <1>9, <1>10, <1>11
<1>13. /\ Limits!Payload(u) = p + u.metadata
       /\ Limits!Estimate(u) = p + u.metadata + 1024 + 2 * u.metadata + (u.items + 1) * 8
  BY <1>11 DEF Limits!Payload, Limits!Estimate, Limits!ClientBase, Limits!Parts, Limits!PartOverhead, Limits!MiB
<1>14. PICK e \in Int : e = p + u.metadata + 1024 + 2 * u.metadata + (u.items + 1) * 8
  BY <1>3, <1>11
<1>15. e <= LargestInteger
  BY <1>4, <1>12, <1>14 DEF Limits!LimitsAssumption
<1> QED
  BY <1>12, <1>13, <1>14, <1>15

(* What the client, the parser and the inline tools refuse.                *)
LEMMA SpoolRefusesRightly ==
  ASSUME Limits!LimitsAssumption, LimitsInv, limitCall.at # "none", limitCall.surface = "rest",
         Limits!SpoolRefuses(limitCall.upload, limitCall.asked)
  PROVE  Refusable
<1> DEFINE u == limitCall.upload
           a == limitCall.asked
<1>1. PICK n \in {"page", "pageTotal"} : u[n] > Limits!SpoolLimit(n, a)
  BY DEF Limits!SpoolRefuses
<1>2. u.kind # "collection" /\ u \in UploadSizes /\ a \in CallerLimits /\ Serving
  BY DEF Limits!SpoolRefuses, LimitsInv, SurfaceOK, Requested
<1>3. n \in Limits!Limiting /\ n \in Limits!LimitNames /\ n # "items" /\ n \in Limits!OptionNames
  BY <1>1, <1>2, LimitingIs, NamesOfLimits
<1>4. Limits!Ceiling(n) = limitServer[n] /\ Limits!Default(n) = Limits!CoreDefault[n]
  BY <1>1, <1>2 DEF Limits!Ceiling, Limits!Default
<1>5. u[n] \in Int /\ a[n] \in Int /\ limitServer[n] \in Int /\ limitServer[n] <= Limits!CoreDefault[n]
      /\ Limits!CoreDefault[n] \in Int
  <2>1. a[n] \in Int
    BY <1>2, <1>3 DEF Limits!LimitsAssumption, Limits!Ints
  <2>2. Limits!CoreDefault[n] \in Int
    BY <1>3, <1>4, DefaultTyped
  <2> QED
    BY <1>2, <1>3, <2>1, <2>2, UploadTyped, ServerTyped
<1>6. ~(u[n] <= limitServer[n] /\ ~Limits!Over(u[n], a[n], Limits!CoreDefault[n]))
  BY <1>1, <1>5 DEF Limits!SpoolLimit, Limits!LowerLimit, Limits!Over
<1> QED
  BY <1>3, <1>4, <1>6, StatedIs DEF Refusable

LEMMA ClientRefusesRightly ==
  ASSUME Limits!LimitsAssumption, Limits!Deployed, LimitsInv, limitCall.at # "none",
         limitCall.surface = "rest", Limits!ClientRefuses(limitCall.upload)
  PROVE  Refusable
<1> DEFINE u == limitCall.upload
<1> SUFFICES ASSUME ~Refusable PROVE FALSE
  OBVIOUS
<1>1. u \in UploadSizes /\ Serving
  BY DEF LimitsInv, SurfaceOK, Requested
<1>2. \A n \in Limits!Limiting : u[n] <= Limits!Ceiling(n)
  BY StatedIs DEF Refusable
<1>3. u.metadata <= Limits!MetadataLimit
  BY <1>1, UploadTyped DEF Refusable, Limits!MetadataLimit, Limits!MiB
<1>4. ~(Limits!Estimate(u) > limitServer.request) /\ ~(Limits!Estimate(u) > LargestInteger)
  <2>1. Limits!Estimate(u) \in Int
    BY <1>1, UploadTyped DEF Limits!Payload, Limits!Estimate, Limits!ClientBase, Limits!Parts, Limits!PartOverhead, Limits!MiB
  <2>2. limitServer.request \in Int
    BY <1>1, NamesOfLimits DEF Serving, Options, Limits!Ints
  <2> QED
    BY <2>1, <2>2, EstimateFits DEF Limits!LimitsAssumption
<1>5. \A n \in Limits!LimitNames : u[n] \in Int /\ limitServer[n] \in Int
  BY <1>1, UploadTyped, ServerTyped, NamesOfLimits
<1>6. CASE u.kind = "collection"
  <2>1. "items" \in Limits!Limiting /\ Limits!Ceiling("items") = limitServer.items /\ "items" \in Limits!LimitNames
    BY LimitingIs, NamesOfLimits DEF Limits!Ceiling
  <2> QED
    BY <1>2, <1>5, <1>6, <2>1 DEF Limits!ClientRefuses
<1>7. CASE u.kind # "collection"
  <2>1. PICK n \in Limits!LimitNames : u[n] > limitServer[n]
    BY <1>1, <1>3, <1>4, <1>7, UploadTyped DEF Limits!ClientRefuses, Limits!MetadataLimit, Limits!MiB
  <2>2. n \in Limits!Limiting /\ Limits!Ceiling(n) = limitServer[n]
    BY <1>7, LimitingIs DEF Limits!Ceiling
  <2> QED
    BY <1>2, <1>5, <2>1, <2>2
<1> QED
  BY <1>6, <1>7

(* The limits on the wire are the caller's, or none.                       *)
LEMMA WireIs ==
  ASSUME Limits!LimitsAssumption, NEW u \in UploadSizes, NEW a \in CallerLimits, NEW n \in Limits!LimitNames
  PROVE  LET w == Limits!WireLimits(u, a)[n]
         IN  /\ w \in Int /\ a[n] \in Int
             /\ w = 0 \/ (w = a[n] /\ a[n] > 0)
             /\ n # "items" /\ a[n] > 0 /\ (u.kind # "document" \/ Limits!Bundled(u) \/ n = "page") => w = a[n]
<1>1. a[n] \in Int
  BY DEF Limits!LimitsAssumption, Limits!Ints
<1>2. Limits!Portable(a[n]) \in Int /\ (Limits!Portable(a[n]) = 0 \/ (Limits!Portable(a[n]) = a[n] /\ a[n] > 0))
      /\ (a[n] > 0 => Limits!Portable(a[n]) = a[n])
  BY <1>1 DEF Limits!Portable
<1>3. Limits!WireLimits(u, a)[n] =
        IF n = "items" \/ (u.kind = "document" /\ ~Limits!Bundled(u) /\ n # "page") THEN 0
        ELSE Limits!Portable(a[n])
  BY DEF Limits!WireLimits
<1> QED
  BY <1>1, <1>2, <1>3

LEMMA ParserRefusesRightly ==
  ASSUME Limits!LimitsAssumption, Limits!Deployed, LimitsInv, limitCall.at = "sent",
         ~ParserPassed(limitCall.upload, limitCall.limits) \/ limitWire > limitServer.request
  PROVE  Refusable
<1> DEFINE u == limitCall.upload
           a == limitCall.asked
           w == limitCall.limits
<1> SUFFICES ASSUME ~Refusable PROVE FALSE
  OBVIOUS
<1>1. /\ u \in UploadSizes /\ a \in CallerLimits /\ Serving /\ limitCall.surface = "rest"
      /\ w = Limits!WireLimits(u, a)
      /\ limitWire \in {Limits!Payload(u), Limits!Estimate(u)} /\ limitWire \in Nat
  BY DEF LimitsInv, SurfaceOK, PassageOK, Requested
<1> HIDE DEF u, a, w
<1>2. ~(limitWire > limitServer.request)
  <2>1. limitServer.request \in Int
    BY <1>1, NamesOfLimits DEF Serving, Options, Limits!Ints
  <2> QED
    BY <1>1, <2>1, EstimateFits DEF u
<1>3. \A n \in Limits!Limiting : /\ u[n] <= Limits!Ceiling(n) /\ ~Limits!Over(u[n], a[n], Limits!Default(n))
                                 /\ u[n] \in Int
  BY StatedIs DEF Refusable, u, a
<1>4. u.items <= limitServer.items
  BY <1>1, <1>3, LimitingIs, NamesOfLimits DEF Limits!Ceiling, u
<1>5. ASSUME u.kind # "collection", NEW n \in Limits!LimitNames \ {"items"}
      PROVE  u[n] <= Limits!LowerLimit(limitServer[n], w[n])
  <2>1. n \in Limits!Limiting /\ Limits!Ceiling(n) = limitServer[n] /\ n \in Limits!OptionNames
    BY <1>1, <1>5, LimitingIs, NamesOfLimits DEF Limits!Ceiling, u
  <2>2. u[n] <= limitServer[n] /\ ~Limits!Over(u[n], a[n], Limits!Default(n)) /\ u[n] \in Int
    BY <1>3, <2>1
  <2>3. limitServer[n] \in Int
    BY <1>1, <2>1, ServerTyped
  <2>4. w[n] \in Int /\ a[n] \in Int /\ (w[n] = 0 \/ (w[n] = a[n] /\ a[n] > 0))
    BY <1>1, WireIs
  <2> QED
    BY <2>2, <2>3, <2>4 DEF Limits!LowerLimit, Limits!Over
<1>6. ASSUME u.kind = "collection"
      PROVE  /\ u.asset <= Limits!LowerLimit(limitServer.file, w.asset)
             /\ u.assetTotal <= Limits!LowerLimit(limitServer.fileTotal, w.assetTotal)
  <2>1. /\ "asset" \in Limits!Limiting /\ Limits!Ceiling("asset") = limitServer.file
        /\ "assetTotal" \in Limits!Limiting /\ Limits!Ceiling("assetTotal") = limitServer.fileTotal
    BY <1>1, <1>6, LimitingIs DEF Limits!Ceiling, u
  <2>2. limitServer.file \in Int /\ limitServer.fileTotal \in Int
    BY <1>1, ServerTyped
  <2>3. /\ u.asset <= limitServer.file /\ ~Limits!Over(u.asset, a.asset, Limits!Default("asset")) /\ u.asset \in Int
        /\ u.assetTotal <= limitServer.fileTotal /\ ~Limits!Over(u.assetTotal, a.assetTotal, Limits!Default("assetTotal"))
        /\ u.assetTotal \in Int
    BY <1>3, <2>1
  <2>4. /\ w.asset \in Int /\ a.asset \in Int /\ (w.asset = 0 \/ (w.asset = a.asset /\ a.asset > 0))
        /\ w.assetTotal \in Int /\ a.assetTotal \in Int
        /\ (w.assetTotal = 0 \/ (w.assetTotal = a.assetTotal /\ a.assetTotal > 0))
    BY <1>1, WireIs, NamesOfLimits
  <2>5. u.asset <= Limits!LowerLimit(limitServer.file, w.asset)
    BY <2>2, <2>3, <2>4 DEF Limits!LowerLimit, Limits!Over
  <2>6. u.assetTotal <= Limits!LowerLimit(limitServer.fileTotal, w.assetTotal)
    BY <2>2, <2>3, <2>4 DEF Limits!LowerLimit, Limits!Over
  <2> QED
    BY <2>5, <2>6
<1> QED
  BY <1>2, <1>4, <1>5, <1>6 DEF ParserPassed, u, w

(* The limits of an inline upload refuse exactly what is not within.       *)
LEMMA HostedIsWithin ==
  ASSUME Limits!LimitsAssumption, LimitsInv, limitCall.at # "none", limitCall.surface = "hosted",
         limitCall.upload.assetTotal <= Limits!InlineAssets
  PROVE  Limits!CoreRefuses(limitCall.upload, Limits!HostedLimits(limitCall.asked))
           <=> \E n \in Limits!Limiting : ~Within(n)
<1> DEFINE u == limitCall.upload
           a == limitCall.asked
           h == Limits!HostedLimits(a)
<1>1. /\ u \in UploadSizes /\ a \in CallerLimits /\ Serving /\ u.kind # "collection" /\ limitCall.surface = "hosted"
      /\ Limits!Limiting = Limits!LimitNames /\ u.assetTotal <= Limits!InlineAssets
  BY LimitingIs DEF LimitsInv, SurfaceOK, Requested
<1>2. limitServer.items \in Int /\ limitServer.items > 0
  BY <1>1, ServerTyped
<1> HIDE DEF u, a, h
<1>3. ASSUME NEW n \in Limits!LimitNames
      PROVE  /\ u[n] \in Int /\ a[n] \in Int /\ Limits!CoreDefault[n] \in Int /\ Limits!CoreDefault[n] > 0
             /\ Limits!Default(n) = Limits!CoreDefault[n]
             /\ Within(n) <=> u[n] <= Limits!Ceiling(n) /\ ~Limits!Over(u[n], a[n], Limits!CoreDefault[n])
  <2>1. Limits!Default(n) = Limits!CoreDefault[n]
    BY <1>1 DEF Limits!Default, u
  <2>2. a[n] \in Int
    BY <1>1 DEF Limits!LimitsAssumption, Limits!Ints
  <2> QED
    BY <1>1, <2>1, <2>2, DefaultTyped, UploadTyped, StatedIs DEF u, a
<1>4. Limits!Over(u.items, h.items, Limits!CoreDefault.items) <=> ~Within("items")
  <2>1. h.items = CASE a.items = 0 -> Limits!Smaller(Limits!CoreDefault.items, limitServer.items)
                    [] a.items > 0 /\ a.items < limitServer.items -> a.items
                    [] OTHER -> limitServer.items
    BY NamesOfLimits DEF h, Limits!HostedLimits
  <2>2. Limits!Ceiling("items") = limitServer.items
    BY <1>1 DEF Limits!Ceiling, u
  <2>3. u.items \in Int /\ a.items \in Int /\ Limits!CoreDefault.items \in Int /\ Limits!CoreDefault.items > 0
        /\ (Within("items") <=> u.items <= limitServer.items /\ ~Limits!Over(u.items, a.items, Limits!CoreDefault.items))
    BY <1>3, <2>2, NamesOfLimits
  <2>4. CASE a.items = 0
    BY <1>2, <2>1, <2>3, <2>4 DEF Limits!Over, Limits!Smaller
  <2>5. CASE a.items > 0 /\ a.items < limitServer.items
    BY <1>2, <2>1, <2>3, <2>5 DEF Limits!Over, Limits!Smaller
  <2>6. CASE ~(a.items = 0) /\ ~(a.items > 0 /\ a.items < limitServer.items)
    BY <1>2, <2>1, <2>3, <2>6 DEF Limits!Over, Limits!Smaller
  <2> QED
    BY <2>4, <2>5, <2>6
<1>5. ASSUME NEW n \in Limits!LimitNames \ {"items"}
      PROVE  Limits!Over(u[n], h[n], Limits!CoreDefault[n]) <=> ~Within(n)
  <2>1. h[n] = Limits!LowerLimit(Limits!CoreDefault[n], a[n])
    BY <1>5 DEF h, Limits!HostedLimits
  <2>2. Limits!Ceiling(n) = IF n = "assetTotal" THEN Limits!InlineAssets ELSE Limits!CoreDefault[n]
    BY <1>1, <1>3, <1>5 DEF Limits!Ceiling, u
  <2>3. Limits!InlineAssets <= Limits!CoreDefault["assetTotal"]
    BY DEF Limits!InlineAssets, Limits!CoreDefault, Limits!GiB, Limits!MiB
  <2>4. u[n] <= Limits!Ceiling(n) \/ Limits!Ceiling(n) = Limits!CoreDefault[n]
    BY <1>1, <2>2
  <2>5. u[n] <= Limits!Ceiling(n) => u[n] <= Limits!CoreDefault[n]
    BY <1>3, <2>2, <2>3 DEF Limits!InlineAssets, Limits!MiB
  <2> QED
    BY <1>3, <2>1, <2>4, <2>5 DEF Limits!Over, Limits!LowerLimit
<1>6. Limits!CoreRefuses(u, h) <=> \E n \in Limits!LimitNames : Limits!Over(u[n], h[n], Limits!CoreDefault[n])
  BY <1>1, NamesOfLimits DEF Limits!CoreRefuses, Limits!TooMany, Limits!DocumentRefuses
<1> QED
  BY <1>1, <1>4, <1>5, <1>6, NamesOfLimits DEF u, a, h

(* The core behind a server's parser.                                      *)
CoreLimits == [Limits!WireLimits(limitCall.upload, limitCall.asked) EXCEPT !.items = limitServer.items]

LEMMA ServedCoreRefusesRightly ==
  ASSUME Limits!LimitsAssumption, Limits!Deployed, LimitsInv, limitCall.at # "none",
         limitCall.surface = "rest", Limits!CoreRefuses(limitCall.upload, CoreLimits)
  PROVE  Refusable
<1> DEFINE u == limitCall.upload
           a == limitCall.asked
           w == Limits!WireLimits(u, a)
<1> SUFFICES ASSUME ~Refusable PROVE FALSE
  OBVIOUS
<1>1. /\ u \in UploadSizes /\ a \in CallerLimits /\ Serving /\ limitCall.surface = "rest"
      /\ limitServer \in {Limits!WithDefaults(o) : o \in ServerOptions}
  BY DEF LimitsInv, SurfaceOK, Requested
<1>2. /\ CoreLimits.items = limitServer.items
      /\ \A n \in Limits!LimitNames \ {"items"} : CoreLimits[n] = w[n]
  BY NamesOfLimits DEF CoreLimits, Limits!WireLimits
<1> HIDE DEF u, a, w
<1>3. \A n \in Limits!Limiting : /\ u[n] <= Limits!Ceiling(n) /\ ~Limits!Over(u[n], a[n], Limits!Default(n))
                                 /\ u[n] \in Int
  BY StatedIs DEF Refusable, u, a
<1>4. \A n \in Limits!LimitNames : w[n] \in Int /\ a[n] \in Int /\ (w[n] = 0 \/ (w[n] = a[n] /\ a[n] > 0))
  BY <1>1, WireIs DEF w
<1>5. ~Limits!TooMany(u, CoreLimits)
  <2>1. "items" \in Limits!Limiting /\ Limits!Ceiling("items") = limitServer.items
    BY <1>1, LimitingIs, NamesOfLimits DEF Limits!Ceiling, u
  <2>2. limitServer.items \in Int /\ limitServer.items > 0
    BY <1>1, ServerTyped
  <2>3. u.items \in Int /\ u.items <= limitServer.items
    BY <1>3, <2>1
  <2> QED
    BY <1>2, <2>2, <2>3 DEF Limits!TooMany, Limits!Over
<1>6. CASE u.kind # "collection"
  <2>1. PICK n \in Limits!LimitNames \ {"items"} : Limits!Over(u[n], w[n], Limits!CoreDefault[n])
    BY <1>2, <1>5, <1>6 DEF Limits!CoreRefuses, Limits!DocumentRefuses, u
  <2>2. n \in Limits!Limiting /\ Limits!Ceiling(n) = limitServer[n] /\ Limits!Default(n) = Limits!CoreDefault[n]
        /\ n \in Limits!OptionNames
    BY <1>1, <1>6, <2>1, LimitingIs, NamesOfLimits DEF Limits!Ceiling, Limits!Default, u
  <2>3. limitServer[n] \in Int /\ limitServer[n] <= Limits!CoreDefault[n] /\ Limits!CoreDefault[n] \in Int
    BY <1>1, <2>1, <2>2, ServerTyped, DefaultTyped
  <2>4. u[n] \in Int /\ u[n] <= limitServer[n] /\ ~Limits!Over(u[n], a[n], Limits!CoreDefault[n])
    BY <1>3, <2>2
  <2>5. w[n] \in Int /\ a[n] \in Int /\ (w[n] = 0 \/ (w[n] = a[n] /\ a[n] > 0))
    BY <1>4, <2>1
  <2> QED
    BY <2>1, <2>3, <2>4, <2>5 DEF Limits!Over
<1>7. CASE u.kind = "collection"
  <2>1. /\ "asset" \in Limits!Limiting /\ Limits!Ceiling("asset") = limitServer.file
        /\ "assetTotal" \in Limits!Limiting /\ Limits!Ceiling("assetTotal") = limitServer.fileTotal
        /\ Limits!Default("asset") = Limits!GiB /\ Limits!Default("assetTotal") = 2 * Limits!GiB
    BY <1>1, <1>7, LimitingIs DEF Limits!Ceiling, Limits!Default, Limits!CollectionDefault, u
  <2>2. /\ limitServer.file \in Int /\ limitServer.fileTotal \in Int
        /\ limitServer.file <= Limits!GiB /\ limitServer.fileTotal <= 2 * Limits!GiB
    <3>1. PICK o \in ServerOptions : limitServer = Limits!WithDefaults(o)
      BY <1>1
    <3> QED
      BY <1>1, <3>1, ServerTyped, RoomEnough
  <2>3. /\ u.asset \in Int /\ u.asset <= limitServer.file /\ ~Limits!Over(u.asset, a.asset, Limits!GiB)
        /\ u.assetTotal \in Int /\ u.assetTotal <= limitServer.fileTotal
        /\ ~Limits!Over(u.assetTotal, a.assetTotal, 2 * Limits!GiB)
    BY <1>3, <2>1
  <2>4. /\ w.asset \in Int /\ a.asset \in Int /\ (w.asset = 0 \/ (w.asset = a.asset /\ a.asset > 0))
        /\ w.assetTotal \in Int /\ a.assetTotal \in Int
        /\ (w.assetTotal = 0 \/ (w.assetTotal = a.assetTotal /\ a.assetTotal > 0))
    BY <1>4, NamesOfLimits
  <2>5. CoreLimits.asset = w.asset /\ CoreLimits.assetTotal = w.assetTotal
    BY <1>2, NamesOfLimits
  <2>6. ~Limits!Over(u.asset, w.asset, Limits!GiB)
    BY <2>2, <2>3, <2>4 DEF Limits!Over, Limits!GiB, Limits!MiB
  <2>7. ~Limits!Over(u.assetTotal, w.assetTotal, 2 * Limits!GiB)
    BY <2>2, <2>3, <2>4 DEF Limits!Over, Limits!GiB, Limits!MiB
  <2> QED
    BY <1>5, <1>7, <2>5, <2>6, <2>7
       DEF Limits!CoreRefuses, Limits!CollectionRefuses, Limits!CollectionDefault, u
<1> QED
  BY <1>6, <1>7

(* What passes client, parser and core is within every limit that is       *)
(* carried.                                                                *)
LEMMA ServedIsWithin ==
  ASSUME Limits!LimitsAssumption, LimitsInv, limitCall.at = "core", limitCall.surface = "rest"
  PROVE  \A n \in Limits!Limiting : Limits!Carried(n) => Within(n)
<1> DEFINE u == limitCall.upload
           a == limitCall.asked
           w == limitCall.limits
<1>1. /\ u \in UploadSizes /\ a \in CallerLimits /\ Serving /\ limitCall.surface = "rest"
      /\ w = Limits!WireLimits(u, a) /\ ClientPassed(u, a) /\ ParserPassed(u, w)
  BY DEF LimitsInv, SurfaceOK, PassageOK, Requested
<1> HIDE DEF u, a, w
<1> SUFFICES ASSUME NEW n \in Limits!Limiting, Limits!Carried(n) PROVE Within(n)
  OBVIOUS
<1>2. /\ n \in Limits!LimitNames /\ n \in Limits!OptionNames
      /\ u[n] \in Int /\ u[n] >= 0 /\ a[n] \in Int /\ Limits!Default(n) \in Int /\ Limits!Default(n) > 0
      /\ limitServer[n] \in Int
  <2>1. n \in Limits!LimitNames
    BY DefaultTyped
  <2>2. a[n] \in Int
    BY <1>1, <2>1 DEF Limits!LimitsAssumption, Limits!Ints
  <2> QED
    BY <1>1, <2>1, <2>2, DefaultTyped, UploadTyped, ServerTyped, NamesOfLimits
<1>3. SUFFICES u[n] <= Limits!Ceiling(n) /\ ~Limits!Over(u[n], a[n], Limits!Default(n))
  BY StatedIs DEF u, a
<1>4. CASE n = "items"
  <2>1. Limits!Ceiling(n) = limitServer.items /\ Limits!Default(n) = Limits!CoreDefault.items
    BY <1>1, <1>4 DEF Limits!Ceiling, Limits!Default
  <2> QED
    BY <1>1, <1>4, <2>1 DEF ClientPassed, ParserPassed, Limits!TooMany
<1>5. CASE n # "items" /\ u.kind = "collection"
  <2>1. n \in {"asset", "assetTotal"}
    BY <1>5, LimitingIs DEF u
  <2>2. ~Limits!CollectionRefuses(u, a)
    BY <1>1, <1>5 DEF ClientPassed, Limits!CoreRefuses
  <2>3. limitServer.file \in Int /\ limitServer.fileTotal \in Int
    BY <1>1, ServerTyped
  <2>4. CASE n = "asset"
    <3>1. Limits!Ceiling(n) = limitServer.file /\ Limits!Default(n) = Limits!CollectionDefault.file
      BY <1>1, <1>5, <2>4 DEF Limits!Ceiling, Limits!Default, u
    <3>2. u.asset <= Limits!LowerLimit(limitServer.file, w.asset) /\ w.asset \in Int
      BY <1>1, <1>2, <1>5, <2>4, WireIs DEF ParserPassed
    <3>3. u.asset <= limitServer.file
      BY <1>2, <2>3, <2>4, <3>2 DEF Limits!LowerLimit
    <3> QED
      BY <2>2, <2>4, <3>1, <3>3 DEF Limits!CollectionRefuses
  <2>5. CASE n = "assetTotal"
    <3>1. Limits!Ceiling(n) = limitServer.fileTotal /\ Limits!Default(n) = Limits!CollectionDefault.fileTotal
      BY <1>1, <1>5, <2>5 DEF Limits!Ceiling, Limits!Default, u
    <3>2. u.assetTotal <= Limits!LowerLimit(limitServer.fileTotal, w.assetTotal) /\ w.assetTotal \in Int
      BY <1>1, <1>2, <1>5, <2>5, WireIs DEF ParserPassed
    <3>3. u.assetTotal <= limitServer.fileTotal
      BY <1>2, <2>3, <2>5, <3>2 DEF Limits!LowerLimit
    <3> QED
      BY <2>2, <2>5, <3>1, <3>3 DEF Limits!CollectionRefuses
  <2> QED
    BY <2>1, <2>4, <2>5
<1>6. CASE n # "items" /\ u.kind # "collection"
  <2>1. Limits!Ceiling(n) = limitServer[n] /\ Limits!Default(n) = Limits!CoreDefault[n]
    BY <1>1, <1>6 DEF Limits!Ceiling, Limits!Default, u
  <2>2. u[n] <= Limits!LowerLimit(limitServer[n], w[n])
    BY <1>1, <1>2, <1>6 DEF ParserPassed
  <2>3. w[n] \in Int /\ (w[n] = 0 \/ (w[n] = a[n] /\ a[n] > 0))
        /\ (a[n] > 0 /\ (u.kind # "document" \/ Limits!Bundled(u) \/ n = "page") => w[n] = a[n])
    BY <1>1, <1>2, <1>6, WireIs
  <2>4. u[n] <= limitServer[n] /\ limitServer[n] <= Limits!CoreDefault[n]
    BY <1>1, <1>2, <1>6, <2>1, <2>2, <2>3, ServerTyped DEF Limits!LowerLimit
  <2>5. CASE u.kind # "document" \/ Limits!Bundled(u) \/ n = "page"
    BY <1>2, <2>1, <2>2, <2>3, <2>4, <2>5 DEF Limits!Over, Limits!LowerLimit
  <2>6. CASE u.kind = "document" /\ ~Limits!Bundled(u) /\ n # "page"
    <3>1. n \in {"asset", "assetTotal"}
      BY <1>1, <1>2, <1>6, <2>6, NamesOfLimits DEF Limits!Carried, u
    <3>2. u.items = 1
      BY <1>1, <2>6, UploadTyped DEF Limits!Bundled
    <3>3. u[n] = 0
      BY <1>1, <2>6, <3>1, <3>2 DEF Limits!LimitsAssumption
    <3> QED
      BY <1>2, <2>1, <2>4, <3>3 DEF Limits!Over
  <2> QED
    BY <2>5, <2>6
<1> QED
  BY <1>4, <1>5, <1>6

(* A call that ended did so as stated; one is refused by right when the     *)
(* server is one the program runs.                                         *)
Settled ==
  /\ Limits!LimitsHonoured
  /\ Limits!Deployed /\ limitCall.at = "refused" => Refusable

(* What is stated of a call does not change under way.                     *)
LEMMA StatedStays ==
  ASSUME limitServer' = limitServer, limitCall'.upload = limitCall.upload,
         limitCall'.asked = limitCall.asked, limitCall'.surface = limitCall.surface
  PROVE  /\ Refusable => Refusable'
         /\ (\A n \in Limits!Limiting : Limits!Carried(n) => Within(n)) => Limits!LimitsHonoured'
<1>1. \A n : Limits!Default(n)' = Limits!Default(n)
  BY DEF Limits!Default
<1>2. \A n : Limits!Ceiling(n)' = Limits!Ceiling(n)
  BY <1>1 DEF Limits!Ceiling
<1>3. \A n : Limits!Stated(n)' = Limits!Stated(n)
  BY <1>1, <1>2 DEF Limits!Stated
<1>4. Limits!Limiting' = Limits!Limiting /\ \A n : Limits!Carried(n)' <=> Limits!Carried(n)
  BY DEF Limits!Limiting, Limits!Carried
<1> QED
  BY <1>3, <1>4 DEF Refusable, Within, Limits!LimitsHonoured

LEMMA LimitsInit == Limits!Init => LimitsInv /\ Settled
BY DEF Limits!Init, LimitsInv, Settled, Limits!LimitsHonoured

(* A step that only moves the call on.                                     *)
LEMMA CallMoves ==
  ASSUME LimitsInv, limitCall.at # "none", NEW x \in {"called", "sent", "core", "accepted", "refused"},
         NEW w \in [Limits!LimitNames -> Int], UNCHANGED limitServer, limitWire' \in Nat,
         limitCall' = [[limitCall EXCEPT !.at = x] EXCEPT !.limits = w], PassageOK'
  PROVE  /\ LimitsInv'
         /\ limitCall'.upload = limitCall.upload /\ limitCall'.asked = limitCall.asked
         /\ limitCall'.surface = limitCall.surface /\ limitCall'.at = x
<1>1. limitCall \in Requested /\ SurfaceOK
  BY DEF LimitsInv
<1>2. limitCall' \in Requested
  BY <1>1 DEF Requested
<1>3. /\ limitCall'.upload = limitCall.upload /\ limitCall'.asked = limitCall.asked
      /\ limitCall'.surface = limitCall.surface /\ limitCall'.at = x
  BY <1>1 DEF Requested
<1>4. SurfaceOK'
  BY <1>1, <1>3 DEF SurfaceOK
<1> QED
  BY <1>2, <1>3, <1>4 DEF LimitsInv, Serving, Limits!ValidOptions

LEMMA ServeKeeps ==
  ASSUME Limits!LimitsAssumption, LimitsInv, Settled, Limits!Serve
  PROVE  LimitsInv' /\ Settled'
<1>1. PICK o \in ServerOptions : Limits!ValidOptions(Limits!WithDefaults(o)) /\ limitServer' = Limits!WithDefaults(o)
  BY DEF Limits!Serve
<1>2. UNCHANGED <<limitCall, limitWire>> /\ limitCall.at = "none"
  BY DEF Limits!Serve
<1>3. limitCall = [at |-> "none"]
  BY <1>2 DEF LimitsInv, Requested
<1>4. Serving' /\ limitServer' \in {Limits!WithDefaults(i) : i \in ServerOptions}
  BY <1>1, DefaultsTyped DEF Serving, Limits!ValidOptions
<1> QED
  BY <1>2, <1>3, <1>4 DEF LimitsInv, Settled, Limits!LimitsHonoured, Limits!Deployed

LEMMA BeginKeeps ==
  ASSUME Limits!LimitsAssumption, LimitsInv, Settled, Limits!Begin
  PROVE  LimitsInv' /\ Settled'
<1>1. PICK u \in UploadSizes, a \in CallerLimits, s \in {"library", "rest", "hosted"} :
        /\ s = "library" <=> limitServer = Limits!Down
        /\ s = "hosted" => u.kind # "collection"
        /\ limitCall' = [at |-> "called", surface |-> s, upload |-> u, asked |-> a, limits |-> a]
  BY DEF Limits!Begin
<1>2. UNCHANGED <<limitServer, limitWire>>
  BY DEF Limits!Begin
<1>3. a \in [Limits!LimitNames -> Int]
  BY DEF Limits!LimitsAssumption, Limits!Ints
<1>4. limitCall' \in Requested /\ limitCall'.at = "called"
  BY <1>1, <1>3 DEF Requested
<1>5. SurfaceOK' /\ PassageOK'
  BY <1>1, <1>2 DEF SurfaceOK, PassageOK
<1> QED
  BY <1>2, <1>4, <1>5 DEF LimitsInv, Settled, Limits!LimitsHonoured, Limits!Deployed, Serving, Limits!ValidOptions

LEMMA SendKeeps ==
  ASSUME Limits!LimitsAssumption, LimitsInv, Settled, Limits!Send
  PROVE  LimitsInv' /\ Settled'
<1> DEFINE u == limitCall.upload
           a == limitCall.asked
           refused == \/ Limits!TooMany(u, a)
                      \/ (u.kind = "collection" /\ Limits!CoreRefuses(u, a))
                      \/ Limits!SpoolRefuses(u, a)
                      \/ Limits!ClientRefuses(u)
<1>1. /\ limitCall.at = "called" /\ limitCall.surface = "rest" /\ UNCHANGED limitServer
      /\ limitCall \in Requested /\ limitCall.limits = a /\ u \in UploadSizes /\ a \in CallerLimits
  BY DEF Limits!Send, LimitsInv, PassageOK, Requested
<1>2. CASE refused
  <2>1. limitCall' = [[limitCall EXCEPT !.at = "refused"] EXCEPT !.limits = limitCall.limits] /\ limitWire' = limitWire
    BY <1>1, <1>2 DEF Limits!Send, Requested
  <2>2. limitCall'.at = "refused"
    BY <1>1, <2>1 DEF Requested
  <2>3. PassageOK'
    BY <2>2 DEF PassageOK
  <2>4. LimitsInv' /\ limitCall'.upload = u /\ limitCall'.asked = a /\ limitCall'.surface = limitCall.surface
    BY <1>1, <2>1, <2>3, CallMoves DEF LimitsInv, Requested
  <2>5. Limits!Deployed => Refusable
    BY <1>1, <1>2, CoreRefusesRightly, SpoolRefusesRightly, ClientRefusesRightly DEF Limits!CoreRefuses
  <2> QED
    BY <1>1, <2>2, <2>4, <2>5, StatedStays DEF Settled, Limits!LimitsHonoured, Limits!Deployed
<1>3. CASE ~refused
  <2> DEFINE w == Limits!WireLimits(u, a)
  <2>1. limitCall' = [[limitCall EXCEPT !.at = "sent"] EXCEPT !.limits = w]
        /\ limitWire' \in {Limits!Payload(u), Limits!Estimate(u)}
    BY <1>1, <1>3 DEF Limits!Send, Requested
  <2>2. w \in [Limits!LimitNames -> Int]
    <3>1. \A n \in Limits!LimitNames : Limits!WireLimits(u, a)[n] \in Int
      BY <1>1, WireIs
    <3> QED
      BY <3>1 DEF Limits!WireLimits
  <2>3. Limits!Payload(u) \in Nat /\ Limits!Estimate(u) \in Nat
    BY <1>1, UploadTyped DEF Limits!Payload, Limits!Estimate, Limits!ClientBase, Limits!Parts,
       Limits!PartOverhead, Limits!MiB
  <2> HIDE DEF w
  <2>4. limitCall'.at = "sent" /\ limitCall'.limits = w /\ limitCall'.upload = u /\ limitCall'.asked = a
        /\ limitCall'.surface = "rest"
    BY <1>1, <2>1 DEF Requested
  <2>5. ClientPassed(u, a)
    BY <1>3 DEF ClientPassed
  <2>6. PassageOK'
    BY <2>1, <2>4, <2>5 DEF PassageOK, w
  <2>7. limitWire' \in Nat
    BY <2>1, <2>3
  <2>8. LimitsInv'
    BY <1>1, <2>1, <2>2, <2>6, <2>7, CallMoves
  <2> QED
    BY <2>4, <2>8 DEF Settled, Limits!LimitsHonoured, Limits!Deployed
<1> QED
  BY <1>2, <1>3

LEMMA PassKeeps ==
  ASSUME Limits!LimitsAssumption, LimitsInv, Settled, Limits!Library \/ Limits!Inline \/ Limits!Parse \/ Limits!Core
  PROVE  LimitsInv' /\ Settled'
<1> DEFINE u == limitCall.upload
           a == limitCall.asked
<1>1. /\ limitCall.at \in {"called", "sent", "core"} /\ UNCHANGED <<limitServer, limitWire>> /\ limitWire \in Nat
      /\ limitCall \in Requested /\ SurfaceOK /\ PassageOK /\ u \in UploadSizes /\ a \in CallerLimits
      /\ limitCall.limits \in [Limits!LimitNames -> Int]
  <2>1. limitCall.at \in {"called", "sent", "core"} /\ UNCHANGED <<limitServer, limitWire>>
    <3>1. CASE Limits!Library
      BY <3>1 DEF Limits!Library
    <3>2. CASE Limits!Inline
      BY <3>2 DEF Limits!Inline
    <3>3. CASE Limits!Parse
      BY <3>3 DEF Limits!Parse
    <3>4. CASE Limits!Core
      BY <3>4 DEF Limits!Core
    <3> QED
      BY <3>1, <3>2, <3>3, <3>4
  <2>2. limitWire \in Nat /\ limitCall \in Requested /\ SurfaceOK /\ PassageOK
    BY <2>1 DEF LimitsInv
  <2>3. u \in UploadSizes /\ a \in CallerLimits /\ limitCall.limits \in [Limits!LimitNames -> Int]
    BY <2>2 DEF Requested
  <2> QED
    BY <2>1, <2>2, <2>3
<1> HIDE DEF u, a
<1>2. ASSUME NEW x \in {"core", "accepted", "refused"}, NEW w \in [Limits!LimitNames -> Int],
             limitCall' = [[limitCall EXCEPT !.at = x] EXCEPT !.limits = w],
             x = "core" => PassageOK'
      PROVE  /\ LimitsInv' /\ limitCall'.at = x
             /\ Refusable => Refusable'
             /\ (\A n \in Limits!Limiting : Limits!Carried(n) => Within(n)) => Limits!LimitsHonoured'
  <2>1. limitCall'.at = x
    BY <1>1, <1>2 DEF Requested
  <2>2. PassageOK'
    BY <1>2, <2>1 DEF PassageOK
  <2>3. /\ LimitsInv' /\ limitCall'.upload = limitCall.upload /\ limitCall'.asked = limitCall.asked
        /\ limitCall'.surface = limitCall.surface
    BY <1>1, <1>2, <2>2, CallMoves
  <2> QED
    BY <1>1, <2>1, <2>3, StatedStays
<1>3. ASSUME NEW x \in {"core", "accepted", "refused"}, limitCall' = [limitCall EXCEPT !.at = x]
      PROVE  limitCall' = [[limitCall EXCEPT !.at = x] EXCEPT !.limits = limitCall.limits]
             /\ limitCall'.at = x /\ limitCall'.limits = limitCall.limits /\ limitCall'.upload = u
             /\ limitCall'.asked = a /\ limitCall'.surface = limitCall.surface
  BY <1>1, <1>3 DEF Requested, u, a
<1>4. CASE Limits!Library
  <2>1. limitCall' = [limitCall EXCEPT !.at = "core"] /\ limitCall.surface = "library" /\ limitCall.limits = a
    BY <1>1, <1>4 DEF Limits!Library, Limits!Passed, PassageOK, a
  <2>2. PassageOK'
    BY <1>3, <2>1 DEF PassageOK, a
  <2> QED
    BY <1>1, <1>2, <1>3, <2>1, <2>2 DEF Settled, Limits!LimitsHonoured, Limits!Deployed
<1>5. CASE Limits!Inline
  <2> DEFINE h == Limits!HostedLimits(a)
  <2>1. limitCall.surface = "hosted" /\ limitCall.at = "called" /\ limitCall.limits = a /\ Serving
    BY <1>1, <1>5 DEF Limits!Inline, PassageOK, SurfaceOK, LimitsInv, a
  <2>2. h \in [Limits!LimitNames -> Int]
    <3>1. limitServer.items \in Int
      BY <2>1, ServerTyped
    <3>2. \A n \in Limits!LimitNames : Limits!CoreDefault[n] \in Int /\ a[n] \in Int
      BY <1>1, NamesOfLimits DEF Limits!CoreDefault, Limits!GiB, Limits!MiB, Limits!LimitsAssumption, Limits!Ints
    <3>3. ASSUME NEW n \in Limits!LimitNames \ {"items"} PROVE h[n] \in Int
      BY <3>2 DEF Limits!HostedLimits, Limits!LowerLimit
    <3>4. Limits!CoreDefault.items \in Int /\ a.items \in Int /\ "items" \in Limits!LimitNames
      BY <3>2, NamesOfLimits
    <3>5. h["items"] \in Int
      BY <3>1, <3>4 DEF Limits!HostedLimits, Limits!Smaller
    <3>6. h = [n \in Limits!LimitNames |-> h[n]]
      BY DEF Limits!HostedLimits
    <3> QED
      BY <3>3, <3>5, <3>6
  <2>3. CASE u.assetTotal > Limits!InlineAssets
    <3>1. limitCall' = [[limitCall EXCEPT !.at = "refused"] EXCEPT !.limits = h]
      BY <1>1, <1>5, <2>1, <2>3 DEF Limits!Inline, Limits!Passed, Requested, u, a
    <3>2. Refusable
      <4>1. "assetTotal" \in Limits!Limiting /\ Limits!Ceiling("assetTotal") = Limits!InlineAssets
        BY <1>1, <2>1, LimitingIs, NamesOfLimits DEF Limits!Ceiling, SurfaceOK, u
      <4>2. u.assetTotal \in Int
        BY <1>1, UploadTyped
      <4>3. ~Within("assetTotal")
        BY <1>1, <2>3, <4>1, <4>2, StatedIs DEF u, Limits!InlineAssets, Limits!MiB
      <4> QED
        BY <4>1, <4>3 DEF Refusable
    <3> HIDE DEF h
    <3> QED
      BY <1>2, <2>2, <3>1, <3>2 DEF Settled, Limits!LimitsHonoured, Limits!Deployed
  <2>4. CASE ~(u.assetTotal > Limits!InlineAssets)
    <3>1. limitCall' = [[limitCall EXCEPT !.at = "core"] EXCEPT !.limits = h]
      BY <1>1, <1>5, <2>1, <2>4 DEF Limits!Inline, Limits!Passed, Requested, u, a
    <3>2. u.assetTotal <= Limits!InlineAssets
      BY <1>1, <2>4, UploadTyped DEF Limits!InlineAssets, Limits!MiB
    <3>3. limitCall'.at = "core" /\ limitCall'.limits = Limits!HostedLimits(a)' /\ limitCall'.upload = u
          /\ limitCall'.asked = a /\ limitCall'.surface = "hosted"
      BY <1>1, <2>1, <3>1 DEF Requested, Limits!HostedLimits, u, a
    <3>4. limitCall'.limits = Limits!HostedLimits(limitCall.asked)'
      BY <3>3 DEF Limits!HostedLimits, a
    <3>5. PassageOK'
      BY <3>2, <3>3, <3>4 DEF PassageOK
    <3> HIDE DEF h
    <3> QED
      BY <1>2, <2>2, <3>1, <3>3, <3>5 DEF Settled, Limits!LimitsHonoured, Limits!Deployed
  <2> QED
    BY <2>3, <2>4
<1>6. CASE Limits!Parse
  <2>1. limitCall.at = "sent" /\ limitCall.surface = "rest" /\ ClientPassed(u, a)
        /\ limitCall.limits = Limits!WireLimits(u, a)
    BY <1>1, <1>6 DEF Limits!Parse, PassageOK, u, a
  <2>2. PICK x \in {"core", "refused"} :
          /\ limitCall' = [limitCall EXCEPT !.at = x]
          /\ x = "refused" <=> \/ limitWire > limitServer.request
                               \/ u.metadata > Limits!MetadataLimit
                               \/ ~ParserPassed(u, limitCall.limits)
    <3>1. /\ \A n \in Limits!LimitNames \ {"items"} :
               limitServer[n] \in Int /\ limitCall.limits[n] \in Int /\ u[n] \in Int
          /\ limitServer.items \in Int /\ limitServer.file \in Int /\ limitServer.fileTotal \in Int
          /\ u.items \in Int /\ u.asset \in Int /\ u.assetTotal \in Int
          /\ limitCall.limits.asset \in Int /\ limitCall.limits.assetTotal \in Int
      BY <1>1, <2>1, UploadTyped, ServerTyped, NamesOfLimits DEF SurfaceOK, LimitsInv
    <3>2. ParserPassed(u, limitCall.limits) <=>
            ~(\/ u.items > limitServer.items
              \/ /\ u.kind # "collection"
                 /\ \E n \in Limits!LimitNames \ {"items"} :
                       u[n] > Limits!LowerLimit(limitServer[n], limitCall.limits[n])
              \/ /\ u.kind = "collection"
                 /\ \/ u.asset > Limits!LowerLimit(limitServer.file, limitCall.limits.asset)
                    \/ u.assetTotal > Limits!LowerLimit(limitServer.fileTotal, limitCall.limits.assetTotal))
      BY <3>1 DEF ParserPassed, Limits!LowerLimit
    <3> QED
      BY <1>6, <3>2 DEF Limits!Parse, Limits!Passed, u
  <2>3. CASE x = "refused"
    <3>1. Limits!Deployed => Refusable
      BY <1>1, <2>1, <2>2, <2>3, ParserRefusesRightly DEF Refusable, u
    <3> QED
      BY <1>1, <1>2, <1>3, <2>2, <2>3, <3>1 DEF Settled, Limits!LimitsHonoured, Limits!Deployed
  <2>4. CASE x = "core"
    <3>1. ParserPassed(u, limitCall.limits)
      BY <2>2, <2>4
    <3>2. limitCall'.at = "core" /\ limitCall'.limits = limitCall.limits /\ limitCall'.upload = u
          /\ limitCall'.asked = a /\ limitCall'.surface = "rest"
      BY <1>3, <2>1, <2>2, <2>4
    <3>3. ParserPassed(u, limitCall.limits)' /\ ClientPassed(u, a)'
      BY <1>1, <2>1, <3>1, <3>2 DEF ParserPassed, ClientPassed, u, a
    <3>4. PassageOK'
      BY <2>1, <3>2, <3>3 DEF PassageOK, u, a
    <3> QED
      BY <1>1, <1>2, <1>3, <2>2, <2>4, <3>4 DEF Settled, Limits!LimitsHonoured, Limits!Deployed
  <2> QED
    BY <2>3, <2>4
<1>7. CASE Limits!Core
  <2> DEFINE L == IF limitCall.surface = "rest" THEN [limitCall.limits EXCEPT !.items = limitServer.items]
                  ELSE limitCall.limits
  <2>1. PICK x \in {"accepted", "refused"} :
          limitCall' = [limitCall EXCEPT !.at = x] /\ (x = "refused" <=> Limits!CoreRefuses(u, L))
    BY <1>7 DEF Limits!Core, Limits!Passed, u
  <2>2. limitCall.at = "core" /\ limitCall.surface \in {"library", "hosted", "rest"}
    BY <1>1, <1>7 DEF Limits!Core, Requested
  <2>3. x = "refused" /\ Limits!Deployed => Refusable
    <3> SUFFICES ASSUME Limits!CoreRefuses(u, L), Limits!Deployed PROVE Refusable
      BY <2>1
    <3>1. CASE limitCall.surface = "library"
      BY <1>1, <2>2, <3>1, CoreRefusesRightly DEF PassageOK, u, a
    <3>2. CASE limitCall.surface = "hosted"
      BY <1>1, <2>2, <3>2, HostedIsWithin DEF PassageOK, Refusable, u, a
    <3>3. CASE limitCall.surface = "rest"
      <4>1. L = CoreLimits
        BY <1>1, <2>2, <3>3 DEF PassageOK, CoreLimits, u, a
      <4> QED
        BY <2>2, <3>3, <4>1, ServedCoreRefusesRightly DEF u
    <3> QED
      BY <2>2, <3>1, <3>2, <3>3
  <2>4. x = "accepted" => \A n \in Limits!Limiting : Limits!Carried(n) => Within(n)
    <3> SUFFICES ASSUME ~Limits!CoreRefuses(u, L) PROVE \A n \in Limits!Limiting : Limits!Carried(n) => Within(n)
      BY <2>1
    <3>1. CASE limitCall.surface = "library"
      <4> SUFFICES ASSUME NEW n \in Limits!Limiting PROVE Within(n)
        OBVIOUS
      <4>1. L = a
        BY <1>1, <2>2, <3>1 DEF PassageOK, a
      <4>2. Limits!Ceiling(n) = LargestInteger
        BY <3>1 DEF Limits!Ceiling
      <4>3. u[n] <= LargestInteger
        BY <1>1, UploadTyped, DefaultTyped
      <4>4. ~Limits!Over(u[n], a[n], Limits!Default(n))
        <5>1. ~Limits!CoreRefuses(u, a)
          BY <4>1
        <5>2. CASE n = "items"
          BY <5>1, <5>2 DEF Limits!CoreRefuses, Limits!TooMany, Limits!Default
        <5>3. CASE n # "items" /\ u.kind = "collection"
          <6>1. n = "asset" \/ n = "assetTotal"
            BY <5>3, LimitingIs DEF u
          <6> QED
            BY <5>1, <5>3, <6>1 DEF Limits!CoreRefuses, Limits!CollectionRefuses, Limits!Default, u
        <5>4. CASE n # "items" /\ u.kind # "collection"
          BY <5>1, <5>4, DefaultTyped DEF Limits!CoreRefuses, Limits!DocumentRefuses, Limits!Default, u
        <5> QED
          BY <5>2, <5>3, <5>4
      <4> QED
        BY <2>2, <4>2, <4>3, <4>4, StatedIs DEF u, a
    <3>2. CASE limitCall.surface = "hosted"
      BY <1>1, <2>2, <3>2, HostedIsWithin DEF PassageOK, u, a
    <3>3. CASE limitCall.surface = "rest"
      BY <2>2, <3>3, ServedIsWithin
    <3> QED
      BY <2>2, <3>1, <3>2, <3>3
  <2> HIDE DEF L
  <2> QED
    BY <1>1, <1>2, <1>3, <2>1, <2>3, <2>4 DEF Settled, Limits!LimitsHonoured, Limits!Deployed
<1> QED
  BY <1>4, <1>5, <1>6, <1>7

LEMMA LimitsStep ==
  ASSUME Limits!LimitsAssumption, LimitsInv, Settled, [Limits!Next]_limitVars
  PROVE  LimitsInv' /\ Settled'
<1>1. CASE Limits!Serve
  BY <1>1, ServeKeeps
<1>2. CASE Limits!Begin
  BY <1>2, BeginKeeps
<1>3. CASE Limits!Send
  BY <1>3, SendKeeps
<1>4. CASE Limits!Library \/ Limits!Inline \/ Limits!Parse \/ Limits!Core
  BY <1>4, PassKeeps
<1>5. CASE UNCHANGED limitVars
  <2>1. UNCHANGED <<limitServer, limitCall, limitWire>>
    BY <1>5 DEF limitVars
  <2>2. PassageOK => PassageOK'
    BY <2>1 DEF PassageOK, ClientPassed, ParserPassed, Limits!HostedLimits
  <2>3. LimitsInv'
    BY <2>1, <2>2 DEF LimitsInv, Serving, Limits!ValidOptions, SurfaceOK, Requested
  <2>4. Settled'
    BY <2>1, StatedStays DEF Settled, Limits!Deployed, Limits!LimitsHonoured, Within
  <2> QED
    BY <2>3, <2>4
<1> QED
  BY <1>1, <1>2, <1>3, <1>4, <1>5 DEF Limits!Next

(* A server that runs has valid options, and a call is about an upload and *)
(* limits that were asked (src/internal/httpapi/server.go).                *)
THEOREM LimitsTyped == Limits!Spec => []Limits!TypeOK
<1>1. Limits!Init => LimitsInv /\ Settled
  BY LimitsInit
<1>2. LimitsInv /\ Settled /\ [Limits!Next]_limitVars => LimitsInv' /\ Settled'
  BY SizesAssumption, LimitsStep
<1>3. LimitsInv => Limits!TypeOK
  BY DEF LimitsInv, Serving, Requested, Limits!TypeOK
<1> QED
  BY <1>1, <1>2, <1>3, PTL DEF Limits!Spec, Limits!vars, limitVars

(* On every server whose options are accepted, whatever its limits are and *)
(* wherever they wrap, no upload is stored above a limit its caller set, a *)
(* default left in force or a ceiling of the server, on any surface        *)
(* (src/internal/httpapi/limits.go, src/internal/httpapi/server.go).       *)
THEOREM LimitsAreHonoured ==
  Limits!Spec => []Limits!LimitsHonoured
<1>1. Limits!Init => LimitsInv /\ Settled
  BY LimitsInit
<1>2. LimitsInv /\ Settled /\ [Limits!Next]_limitVars => LimitsInv' /\ Settled'
  BY SizesAssumption, LimitsStep
<1>3. Settled => Limits!LimitsHonoured
  BY DEF Settled
<1> QED
  BY <1>1, <1>2, <1>3, PTL DEF Limits!Spec, Limits!vars, limitVars

(* With the options the program serves with, client, transport, parser and *)
(* core agree: an upload is stored only within every stated limit, and one *)
(* within all of them is refused nowhere.                                  *)
THEOREM LimitsAlwaysAgree ==
  Limits!Spec => []LimitsAgree
<1>1. Limits!Init => LimitsInv /\ Settled
  BY LimitsInit
<1>2. LimitsInv /\ Settled /\ [Limits!Next]_limitVars => LimitsInv' /\ Settled'
  BY SizesAssumption, LimitsStep
<1>3. LimitsInv /\ Settled => LimitsAgree
  <2> SUFFICES ASSUME LimitsInv, Settled, limitCall.at = "refused"
               PROVE  \/ limitCall.upload.metadata > Limits!MetadataLimit
                      \/ \E n \in Limits!Limiting : limitCall.upload[n] > Limits!Stated(n)
    BY DEF Settled, LimitsAgree, Limits!AllowedIsAccepted
  <2>1. CASE limitCall.upload.metadata > Limits!MetadataLimit
    BY <2>1
  <2>2. ASSUME NEW n \in Limits!Limiting, ~Within(n)
        PROVE  limitCall.upload[n] > Limits!Stated(n)
    <3>1. PICK x \in Int, s \in Int : x = limitCall.upload[n] /\ s = Limits!Stated(n)
      BY SizesAssumption, StatedIs
    <3> QED
      BY <2>2, <3>1 DEF Within
  <2> QED
    BY DeployedAssumption, <2>1, <2>2 DEF Settled, Refusable
<1> QED
  BY <1>1, <1>2, <1>3, PTL DEF Limits!Spec, Limits!vars, limitVars

-----------------------------------------------------------------------------
(* How an answer reaches its caller: ServerCall.                           *)

Askings == [surface : Call!Surfaces, op : Call!Ops, bundled : BOOLEAN,
            refused : {"no", "invalid", "tooLarge"},
            at : {"probing", "sending", "waiting", "done", "left"}]

CallingTyped ==
  \/ calling = Call!NoCall
  \/ /\ calling \in Askings /\ called \in ServerReleases
     /\ calling.bundled => calling.op \in {"upload", "revision"}

(* What the core may have done.                                            *)
CoreSound ==
  /\ core.ran /\ core.result \in BOOLEAN
  /\ ~core.result =>
       core.facts = {} /\ core.items = Call!NoItems /\ core.error \in CoreFailures[calling.op]
  /\ core.result =>
       /\ core.facts \subseteq Call!FactsOf(calling.op)
       /\ calling.op \notin Call!Itemised => core.items = Call!NoItems /\ core.error = {}
       /\ calling.op = "sync" =>
            \/ core.error = Call!Incomplete(core.items)
            \/ ~Call!Partial(core.items) /\ core.error \in CoreFailures["sync"]
       /\ calling.op = "purge" => core.error = Call!Incomplete(core.items)
       /\ calling.op = "bulk" =>
            core.error = {} \/ (Call!Partial(core.items) /\ core.error = {"canceled"})
       /\ calling.op \in {"upload", "revision"} /\ calling.surface # "rest" => "pages" \in core.facts

(* What a server may have answered.                                        *)
RefusedEarly ==
  /\ core = Call!NoCore
  /\ \/ answer = Call!Problem(400, "invalid_request")
     \/ answer = Call!Problem(413, "request_too_large") /\ calling.refused = "tooLarge"

RefusedLate ==
  /\ CoreSound /\ core.error # {} /\ answer = Call!Refused(core.error)
  /\ core.result => calling.op = "sync" /\ ~Call!Partial(core.items)

ResultSent ==
  /\ CoreSound /\ core.result
  /\ answer.status = 200 /\ answer.code = "none" /\ answer.items = core.items
  /\ answer.facts = Call!Wire(calling.op, core.facts)
  /\ calling.op = "sync" => Call!Partial(core.items) \/ core.error = {}

ServerPhase ==
  /\ serving \in {"none", "arrived", "running", "ran", "answered"}
  /\ serving \in {"none", "arrived", "running"} => core = Call!NoCore /\ answer = Call!NoReply
  /\ serving = "arrived" => calling.surface = "rest"
  /\ serving = "ran" => answer = Call!NoReply /\ CoreSound
  /\ serving = "answered" => calling.surface = "rest" /\ (RefusedEarly \/ RefusedLate \/ ResultSent)

(* What a caller may be left with when its call is done.                   *)
EndsWell(ok, is, items, facts) ==
  /\ ok /\ calling.op # "get" =>
       /\ core.ran /\ core.error = {}
       /\ Call!Partial(core.items) => Call!OnTool /\ calling.op = "bulk" /\ items = core.items
  /\ is \cap Call!Told(calling.op) \subseteq
       core.error \cup IF calling.refused = "tooLarge" THEN {"tooLarge"} ELSE {}
  /\ calling.surface = "rest" /\ "canceled" \notin core.error =>
       core.error \cap Call!Told(calling.op) \subseteq is
  /\ ok \/ items # Call!NoItems =>
       /\ items = core.items
       /\ core.facts \ {"profile"} \subseteq facts
       /\ facts \subseteq core.facts \cup {"pages"}
       /\ calling.op \in {"upload", "revision"} => "pages" \in facts

CallerPhase ==
  /\ calling.at = "idle" => calling = Call!NoCall /\ serving = "none"
  /\ calling.at \in {"idle", "probing", "sending", "waiting"} => outcome = Call!NoOutcome
  /\ calling.at \in {"probing", "sending"} => serving = "none" /\ calling.surface = "rest"
  /\ calling.at = "waiting" => serving # "none"
  /\ calling.at = "left" =>
       calling.surface = "rest" /\ outcome \in {Call!Failed({"server"}), Call!Failed({"canceled"})}
  /\ calling.at = "done" =>
       /\ EndsWell(outcome.ok, outcome.is, outcome.items, outcome.facts)
       /\ serving \in {"none", "answered"} \/ (serving = "ran" /\ calling.surface # "rest")

RequestKnown ==
  calling.surface = "rest" /\ (calling.at = "sending" \/ serving # "none") =>
    /\ calling.bundled => called.bundles /\ request.shape = "bundle"
    /\ request.shape = "bundle" => called.bundles
    /\ request.route = "revision" => called.canonical

CallInv == CallingTyped /\ ServerPhase /\ CallerPhase /\ RequestKnown

(* The rules for errors, one by one.                                       *)
LEMMA RulesAre ==
  /\ DOMAIN Call!Problems = 1..17
  /\ \A n \in 1..17 : Call!Problems[n].status >= 400
  /\ \A n \in 1..17 :
       /\ Call!Problems[n].code # "request_too_large"
       /\ Call!Problems[n].code = "revision_conflict" => n = 12
       /\ Call!Problems[n].code = "upgrade_conflict" => n = 13
       /\ Call!Problems[n].code = "input_too_large" => n = 2
       /\ Call!Problems[n].code = "revision_history_full" => n = 3
       /\ Call!Problems[n].code = "upload_protected" => n = 15
  /\ \A n \in 1..17 : \E x \in Call!Problems[n].when :
       /\ Call!Problems[n].when = {x}
       /\ x # "other"
       /\ x = "tooLarge" <=> n = 2
       /\ x = "historyFull" <=> n = 3
       /\ x = "appendConflict" <=> n = 12
       /\ x = "conflict" <=> n = 13
       /\ x = "protected" <=> n = 15
       /\ x = "canceled" <=> n = 1
  /\ Call!Problems[2].code = "input_too_large"
  /\ Call!Problems[3].code = "revision_history_full"
  /\ Call!Problems[12].code = "revision_conflict"
  /\ Call!Problems[13].code = "upgrade_conflict"
  /\ Call!Problems[15].code = "upload_protected"
BY DEF Call!Problems

LEMMA LeastRule ==
  ASSUME NEW S \in SUBSET (1..17), S # {}
  PROVE  \E n \in S : \A m \in S : n <= m
<1>1. PICK k \in S : TRUE
  OBVIOUS
<1>2. k \in 1..17
  BY <1>1
<1> QED
  BY <1>1, <1>2

(* The rule an error meets.                                                *)
LEMMA RuleOf ==
  ASSUME NEW error
  PROVE  \/ /\ Call!apiOperationError(error) = Call!Internal
            /\ \A n \in 1..17 : ~(Call!Problems[n].when \subseteq error)
         \/ \E n \in 1..17 :
              /\ Call!apiOperationError(error) = Call!Problems[n]
              /\ Call!Problems[n].when \subseteq error
              /\ \A m \in 1..17 : Call!Problems[m].when \subseteq error => n <= m
<1> DEFINE matching == {n \in DOMAIN Call!Problems : Call!Problems[n].when \subseteq error}
<1>1. matching \in SUBSET (1..17) /\ \A n : n \in matching <=> n \in 1..17 /\ Call!Problems[n].when \subseteq error
  BY RulesAre
<1>2. Call!apiOperationError(error) = IF matching = {} THEN Call!Internal
        ELSE Call!Problems[CHOOSE n \in matching : \A m \in matching : n <= m]
  BY DEF Call!apiOperationError
<1> HIDE DEF matching
<1>3. CASE matching = {}
  BY <1>1, <1>2, <1>3
<1>4. CASE matching # {}
  <2>1. \E n \in matching : \A m \in matching : n <= m
    BY <1>1, <1>4, LeastRule
  <2>2. PICK n \in matching : n = CHOOSE k \in matching : \A m \in matching : k <= m
    BY <2>1
  <2>3. \A m \in matching : n <= m
    BY <2>1, <2>2
  <2> QED
    BY <1>1, <1>2, <1>4, <2>2, <2>3
<1> QED
  BY <1>3, <1>4

LEMMA TransportIs ==
  ASSUME NEW code
  PROVE  /\ code \in {"upgrade_conflict", "revision_conflict"} => Call!transportError(code) = {"conflict"}
         /\ code \in {"input_too_large", "request_too_large"} => Call!transportError(code) = {"tooLarge"}
         /\ code = "revision_history_full" => Call!transportError(code) = {"historyFull"}
         /\ code \notin {"upgrade_conflict", "revision_conflict", "input_too_large", "request_too_large",
                        "revision_history_full"} => Call!transportError(code) = {"server"}
         /\ Call!transportError(code) # {}
BY DEF Call!transportError

(* An answer that names a cause is about an error that has it.             *)
LEMMA CodesTrue ==
  ASSUME NEW error, Call!Distinguishable(error)
  PROVE  LET r == Call!apiOperationError(error)
         IN  /\ r.status >= 400 /\ r.code # "request_too_large"
             /\ r.code = "input_too_large" => "tooLarge" \in error
             /\ r.code = "revision_history_full" => "historyFull" \in error
             /\ r.code = "upload_protected" => "protected" \in error
             /\ r.code = "revision_conflict" => "appendConflict" \in error /\ "conflict" \in error
             /\ r.code = "upgrade_conflict" => "conflict" \in error
<1> DEFINE r == Call!apiOperationError(error)
<1>1. CASE r = Call!Internal
  BY <1>1 DEF Call!Internal
<1>2. ASSUME NEW n \in 1..17, r = Call!Problems[n], Call!Problems[n].when \subseteq error
      PROVE  /\ r.status >= 400 /\ r.code # "request_too_large"
             /\ r.code = "input_too_large" => "tooLarge" \in error
             /\ r.code = "revision_history_full" => "historyFull" \in error
             /\ r.code = "upload_protected" => "protected" \in error
             /\ r.code = "revision_conflict" => "appendConflict" \in error
             /\ r.code = "upgrade_conflict" => "conflict" \in error
  <2>1. PICK x \in Call!Problems[n].when :
          /\ x \in error
          /\ (n = 2 => x = "tooLarge") /\ (n = 3 => x = "historyFull") /\ (n = 12 => x = "appendConflict")
          /\ (n = 13 => x = "conflict") /\ (n = 15 => x = "protected")
    BY <1>2, RulesAre
  <2>2. /\ r.status >= 400 /\ r.code # "request_too_large"
        /\ r.code = "revision_conflict" => n = 12
        /\ r.code = "upgrade_conflict" => n = 13
        /\ r.code = "input_too_large" => n = 2
        /\ r.code = "revision_history_full" => n = 3
        /\ r.code = "upload_protected" => n = 15
    BY <1>2, RulesAre
  <2> QED
    BY <2>1, <2>2
<1>3. "appendConflict" \in error => "conflict" \in error
  BY DEF Call!Distinguishable
<1> HIDE DEF r
<1>4. r = Call!Internal \/ \E n \in 1..17 : r = Call!Problems[n] /\ Call!Problems[n].when \subseteq error
  BY RuleOf DEF r
<1>5. CASE \E n \in 1..17 : r = Call!Problems[n] /\ Call!Problems[n].when \subseteq error
  <2>1. PICK n \in 1..17 : r = Call!Problems[n] /\ Call!Problems[n].when \subseteq error
    BY <1>5
  <2>2. /\ r.status >= 400 /\ r.code # "request_too_large"
        /\ r.code = "input_too_large" => "tooLarge" \in error
        /\ r.code = "revision_history_full" => "historyFull" \in error
        /\ r.code = "upload_protected" => "protected" \in error
        /\ r.code = "revision_conflict" => "appendConflict" \in error
        /\ r.code = "upgrade_conflict" => "conflict" \in error
    BY <1>2, <2>1
  <2> QED
    BY <1>3, <2>2 DEF r
<1> QED
  BY <1>1, <1>4, <1>5

(* An error that has a cause the caller can test for is answered by it.    *)
LEMMA CausesNamed ==
  ASSUME NEW error, Call!Distinguishable(error), "canceled" \notin error
  PROVE  LET r == Call!apiOperationError(error)
         IN  /\ "tooLarge" \in error => r.code = "input_too_large"
             /\ "historyFull" \in error => r.code = "revision_history_full"
             /\ "protected" \in error => r.code = "upload_protected"
             /\ "appendConflict" \in error => r.code = "revision_conflict"
             /\ "conflict" \in error /\ "appendConflict" \notin error => r.code = "upgrade_conflict"
<1> DEFINE r == Call!apiOperationError(error)
<1>1. /\ "historyFull" \in error => "tooLarge" \notin error
      /\ "protected" \in error => error \subseteq {"protected", "other"}
      /\ "conflict" \in error => error \subseteq {"appendConflict", "conflict", "other"}
      /\ "appendConflict" \in error => "conflict" \in error
  BY DEF Call!Distinguishable, Call!Testable
<1>2. ASSUME NEW k \in 1..17, Call!Problems[k].when \subseteq error,
             \A n \in 1..17 : Call!Problems[n].when \subseteq error => k <= n
      PROVE  r = Call!Problems[k]
  BY <1>2, RuleOf DEF r
<1>3. ASSUME NEW n \in 1..17, Call!Problems[n].when \subseteq error
      PROVE  /\ n # 1
             /\ "historyFull" \in error => n # 2
             /\ "protected" \in error => n = 15
             /\ "conflict" \in error => n \in {12, 13}
             /\ "conflict" \in error /\ "appendConflict" \notin error => n = 13
  <2>1. PICK x \in Call!Problems[n].when :
          /\ x # "other" /\ (x = "tooLarge" <=> n = 2) /\ (x = "protected" => n = 15)
          /\ (x = "appendConflict" => n = 12) /\ (x = "conflict" => n = 13) /\ (x = "canceled" <=> n = 1)
    BY RulesAre
  <2>2. x \in error
    BY <1>3, <2>1
  <2> QED
    BY <1>1, <2>1, <2>2
<1>4. /\ Call!Problems[2].when = {"tooLarge"} /\ Call!Problems[3].when = {"historyFull"}
      /\ Call!Problems[15].when = {"protected"} /\ Call!Problems[13].when = {"conflict"}
      /\ Call!Problems[12].when = {"appendConflict"}
  BY RulesAre
<1> HIDE DEF r
<1>5. "tooLarge" \in error => r = Call!Problems[2]
  BY <1>2, <1>3, <1>4
<1>6. "historyFull" \in error => r = Call!Problems[3]
  BY <1>2, <1>3, <1>4
<1>7. "protected" \in error => r = Call!Problems[15]
  BY <1>2, <1>3, <1>4
<1>8. "conflict" \in error /\ "appendConflict" \notin error => r = Call!Problems[13]
  BY <1>2, <1>3, <1>4
<1>9. "appendConflict" \in error => r = Call!Problems[12]
  BY <1>1, <1>2, <1>3, <1>4
<1> QED
  BY <1>5, <1>6, <1>7, <1>8, <1>9, RulesAre DEF r

(* A result read from the wire is the result that was sent.                *)
LEMMA FactsTravel ==
  ASSUME NEW op \in Call!Ops, NEW facts \in SUBSET Call!FactsOf(op)
  PROVE  LET got == Call!Unwire(op, Call!Wire(op, facts))
         IN  /\ facts \ {"profile"} \subseteq got
             /\ got \subseteq facts \cup {"pages"}
             /\ op \in {"upload", "revision"} => "pages" \in got
<1>1. CASE op = "upload"
  BY <1>1 DEF Call!FactsOf, Call!Wire, Call!Unwire,
     Call!wireDocumentResult, Call!wireUploadResult, Call!coreDocumentResult, Call!coreUploadResult
<1>2. CASE op = "collection"
  BY <1>2 DEF Call!FactsOf, Call!Wire, Call!Unwire,
     Call!wireDocumentResult, Call!wireUploadResult, Call!coreUploadResult
<1>3. CASE op = "revision"
  BY <1>3 DEF Call!FactsOf, Call!Wire, Call!Unwire,
     Call!wireRevisionResult, Call!wireDocumentResult, Call!wireUploadResult, Call!coreRevisionResult, Call!coreDocumentResult, Call!coreUploadResult
<1>4. CASE op = "plan"
  BY <1>4 DEF Call!FactsOf, Call!Wire, Call!Unwire,
     Call!wireUpgradePlan, Call!coreUpgradePlan
<1>5. CASE op = "planBulk"
  BY <1>5 DEF Call!FactsOf, Call!Wire, Call!Unwire,
     Call!wireBulkPlan, Call!wireUpgradePlan, Call!coreBulkPlan, Call!coreUpgradePlan
<1>6. CASE op = "upgrade"
  BY <1>6 DEF Call!FactsOf, Call!Wire, Call!Unwire,
     Call!wireUpgradeResult, Call!wireUploadResult, Call!coreUpgradeResult, Call!coreUploadResult
<1>7. CASE op = "inspect"
  BY <1>7 DEF Call!FactsOf, Call!Wire, Call!Unwire,
     Call!wireInspection, Call!wireObjects, Call!wireVersions, Call!coreInspection, Call!coreObjects, Call!coreVersions
<1>8. CASE op = "list"
  BY <1>8 DEF Call!FactsOf, Call!Wire, Call!Unwire,
     Call!wireManifestRecord, Call!coreManifestRecord
<1>9. CASE op = "sync"
  BY <1>9 DEF Call!FactsOf, Call!Wire, Call!Unwire,
     Call!wireManifestRecord, Call!coreManifestRecord
<1>10. CASE op = "delete"
  BY <1>10 DEF Call!FactsOf, Call!Wire, Call!Unwire,
     Call!wireDeleteResult
<1>11. CASE op = "protect"
  BY <1>11 DEF Call!FactsOf, Call!Wire, Call!Unwire,
     Call!wireProtectionResult, Call!coreProtectionResult
<1>12. CASE op = "unprotect"
  BY <1>12 DEF Call!FactsOf, Call!Wire, Call!Unwire,
     Call!wireProtectionResult, Call!coreProtectionResult
<1>13. CASE op = "storage"
  BY <1>13 DEF Call!FactsOf, Call!Wire, Call!Unwire,
     Call!wireStorage, Call!coreStorage
<1>14. CASE op = "preview"
  BY <1>14 DEF Call!FactsOf, Call!Wire, Call!Unwire,
     Call!wirePreview, Call!wireManifestRecord, Call!wireInspection, Call!wireObjects, Call!wireVersions, Call!corePreview, Call!coreManifestRecord, Call!coreInspection, Call!coreObjects, Call!coreVersions
<1>15. CASE op \in {"purge", "bulk", "get"}
  BY <1>15 DEF Call!FactsOf, Call!Wire, Call!Unwire
<1> QED
  BY <1>1, <1>2, <1>3, <1>4, <1>5, <1>6, <1>7, <1>8, <1>9, <1>10, <1>11, <1>12, <1>13, <1>14, <1>15 DEF Call!Ops, Call!Uploads, Call!Itemised, Call!Upgrades, Call!Targets

LEMMA ErrorsHaveCause ==
  ASSUME Call!CallAssumption, calling \in Askings, CoreSound, core.error # {}, core.error # {"canceled"},
         core.error # {"incomplete"}
  PROVE  Call!Distinguishable(core.error)
<1>1. /\ calling.op \in Call!Ops /\ "sync" \in Call!Ops
      /\ \A op \in Call!Ops : \A error \in CoreFailures[op] : Call!Distinguishable(error)
  BY DEF Askings, Call!CallAssumption, Call!Ops, Call!Itemised
<1>2. CASE ~core.result
  BY <1>1, <1>2 DEF CoreSound
<1>3. CASE core.result
  <2>1. calling.op \in {"sync", "purge", "bulk"}
    BY <1>3 DEF CoreSound, Call!Itemised
  <2>2. core.error \in CoreFailures["sync"]
    BY <1>3, <2>1 DEF CoreSound, Call!Incomplete
  <2> QED
    BY <1>1, <2>2
<1> QED
  BY <1>2, <1>3 DEF CoreSound

LEMMA NothingFails == ~Call!Partial(Call!NoItems)
BY DEF Call!Partial, Call!NoItems

(* What a refusal becomes.                                                 *)
LEMMA RefusalEnds ==
  ASSUME Call!CallAssumption, CallInv, calling.at = "waiting", serving = "answered", answer.status >= 400,
         NEW is,
         is = IF calling.op = "delete" /\ answer.code = "upload_protected" THEN {"protected"}
              ELSE Call!transportError(answer.code)
  PROVE  EndsWell(FALSE, is, Call!NoItems, {}) /\ is # {}
<1>1. calling \in Askings /\ calling.surface = "rest" /\ (RefusedEarly \/ RefusedLate \/ ResultSent)
  BY DEF CallInv, CallingTyped, ServerPhase, Call!NoCall
<1>2. is # {}
  BY TransportIs
<1>3. Call!Told(calling.op) = {"tooLarge", "historyFull", "conflict"}
                                \cup IF calling.op = "delete" THEN {"protected"} ELSE {}
  BY DEF Call!Told
<1>4. CASE RefusedEarly
  <2>1. core.error = {}
    BY <1>4 DEF RefusedEarly, Call!NoCore
  <2>2. answer.code = "invalid_request" \/ (answer.code = "request_too_large" /\ calling.refused = "tooLarge")
    BY <1>4 DEF RefusedEarly, Call!Problem, Call!NoReply
  <2>3. is = {"server"} \/ (is = {"tooLarge"} /\ calling.refused = "tooLarge")
    BY <2>2, TransportIs
  <2> QED
    BY <1>2, <1>3, <2>1, <2>3 DEF EndsWell
<1>5. CASE RefusedLate
  <2> DEFINE code == Call!apiOperationError(core.error).code
  <2>1. answer.code = code /\ core.error # {}
    BY <1>5 DEF RefusedLate, Call!Refused, Call!Problem, Call!NoReply
  <2>2. CASE core.error \in {{"canceled"}, {"incomplete"}}
    <3>1. Call!Distinguishable(core.error)
      BY <2>2 DEF Call!Distinguishable
    <3>2. is = {"server"}
      BY <2>1, <2>2, <3>1, CodesTrue, TransportIs
    <3> QED
      BY <1>2, <1>3, <2>2, <3>2 DEF EndsWell
  <2>3. CASE core.error \notin {{"canceled"}, {"incomplete"}}
    <3>1. Call!Distinguishable(core.error)
      BY <1>1, <1>5, <2>1, <2>3, ErrorsHaveCause DEF RefusedLate
    <3>2. is \cap Call!Told(calling.op) \subseteq core.error
      BY <1>3, <2>1, <3>1, CodesTrue, TransportIs
    <3>3. "canceled" \notin core.error => core.error \cap Call!Told(calling.op) \subseteq is
      <4> SUFFICES ASSUME "canceled" \notin core.error, NEW x \in core.error, x \in Call!Told(calling.op)
                   PROVE  x \in is
        OBVIOUS
      <4>1. x = "tooLarge" => code = "input_too_large"
        BY <3>1, CausesNamed
      <4>2. x = "historyFull" => code = "revision_history_full"
        BY <3>1, CausesNamed
      <4>3. x = "conflict" => code \in {"revision_conflict", "upgrade_conflict"}
        BY <3>1, CausesNamed
      <4>4. x = "protected" => code = "upload_protected" /\ calling.op = "delete"
        BY <1>3, <3>1, CausesNamed
      <4> HIDE DEF code
      <4> QED
        BY <1>3, <2>1, <4>1, <4>2, <4>3, <4>4, TransportIs
    <3> QED
      BY <1>2, <3>2, <3>3 DEF EndsWell
  <2> QED
    BY <2>2, <2>3
<1>6. CASE ResultSent
  BY <1>6 DEF ResultSent
<1> QED
  BY <1>1, <1>4, <1>5, <1>6

(* What a result becomes.                                                  *)
LEMMA ResultEnds ==
  ASSUME Call!CallAssumption, CallInv, calling.at = "waiting", serving = "answered", ~(answer.status >= 400),
         NEW is, is = IF calling.op \in Call!Itemised THEN Call!Incomplete(answer.items) ELSE {}
  PROVE  EndsWell(is = {}, is, answer.items, Call!Unwire(calling.op, answer.facts))
<1>1. calling \in Askings /\ calling.surface = "rest" /\ (RefusedEarly \/ RefusedLate \/ ResultSent)
  BY DEF CallInv, CallingTyped, ServerPhase, Call!NoCall
<1>2. ~RefusedEarly
  <2>1. Call!Problem(400, "invalid_request").status = 400 /\ Call!Problem(413, "request_too_large").status = 413
    BY DEF Call!Problem, Call!NoReply
  <2>2. 400 >= 400 /\ 413 >= 400
    OBVIOUS
  <2> QED
    BY <2>1, <2>2 DEF RefusedEarly
<1>3. ~RefusedLate
  <2>1. Call!apiOperationError(core.error).status >= 400
    <3>1. Call!Internal.status >= 400
      BY DEF Call!Internal
    <3> QED
      BY <3>1, RuleOf, RulesAre
  <2> QED
    BY <2>1 DEF RefusedLate, Call!Refused, Call!Problem, Call!NoReply
<1>4. ResultSent
  BY <1>1, <1>2, <1>3
<1>5. /\ CoreSound /\ core.result /\ answer.items = core.items
      /\ answer.facts = Call!Wire(calling.op, core.facts) /\ calling.op \in Call!Ops
      /\ core.facts \in SUBSET Call!FactsOf(calling.op)
  BY <1>1, <1>4 DEF ResultSent, CoreSound, Askings
<1>6. \/ core.error = {}
      \/ core.error = {"canceled"} /\ is # {}
      \/ core.error = {"incomplete"} /\ is # {}
  <2>1. CASE calling.op \notin Call!Itemised
    BY <1>5, <2>1 DEF CoreSound
  <2>2. CASE calling.op = "sync"
    BY <1>4, <1>5, <2>2 DEF CoreSound, ResultSent, Call!Incomplete, Call!Itemised
  <2>3. CASE calling.op = "purge"
    BY <1>5, <2>3 DEF CoreSound, Call!Incomplete, Call!Itemised
  <2>4. CASE calling.op = "bulk"
    BY <1>5, <2>4 DEF CoreSound, Call!Incomplete, Call!Itemised
  <2> QED
    BY <2>1, <2>2, <2>3, <2>4 DEF Call!Itemised
<1>7. is = {} => ~Call!Partial(core.items)
  BY <1>5, NothingFails DEF CoreSound, Call!Incomplete
<1>8. is \subseteq {"incomplete"}
  BY DEF Call!Incomplete
<1>9. core.facts \ {"profile"} \subseteq Call!Unwire(calling.op, answer.facts)
      /\ Call!Unwire(calling.op, answer.facts) \subseteq core.facts \cup {"pages"}
      /\ (calling.op \in {"upload", "revision"} => "pages" \in Call!Unwire(calling.op, answer.facts))
  BY <1>5, FactsTravel
<1>10. core.ran
  BY <1>5 DEF CoreSound
<1>11. "incomplete" \notin Call!Told(calling.op) /\ "canceled" \notin Call!Told(calling.op)
  BY DEF Call!Told
<1> QED
  BY <1>5, <1>6, <1>7, <1>8, <1>9, <1>10, <1>11 DEF EndsWell

(* What a command or a tool on the spot makes of the core's outcome.       *)
LEMMA LocalEnds ==
  ASSUME Call!CallAssumption, calling \in Askings, calling.surface # "rest", CoreSound,
         NEW is, NEW facts,
         is = {} => core.error = {}, is \cap Call!Told(calling.op) \subseteq core.error,
         is = {} /\ calling.op # "get" /\ Call!Partial(core.items) => Call!OnTool /\ calling.op = "bulk",
         core.facts \ {"profile"} \subseteq facts, facts \subseteq core.facts
  PROVE  EndsWell(is = {}, is, core.items, facts)
<1>1. core.error = {} => core.result
  BY DEF CoreSound, Call!CallAssumption, Askings, Call!Distinguishable
<1>2. calling.op \in {"upload", "revision"} /\ (is = {} \/ core.items # Call!NoItems) => "pages" \in facts
  <2>1. calling.op \in {"upload", "revision"} => calling.op \notin Call!Itemised
    BY DEF Call!Itemised
  <2>2. calling.op \in {"upload", "revision"} /\ (is = {} \/ core.items # Call!NoItems) => core.result
    BY <1>1, <2>1 DEF CoreSound
  <2> QED
    BY <2>2 DEF CoreSound
<1> QED
  BY <1>2 DEF EndsWell, CoreSound

LEMMA HostedErrors ==
  ASSUME NEW error
  PROVE  /\ Call!mcpOperationError(error) = {} <=> error = {}
         /\ Call!mcpOperationError(error) \subseteq error \cup {"server"}
<1> DEFINE named == {n \in DOMAIN Call!Problems : Call!Problems[n].when \subseteq error \cap Call!HostedNames}
<1>1. named \in SUBSET (1..17) /\ \A n \in named : Call!Problems[n].when \subseteq error /\ Call!Problems[n].when # {}
  BY RulesAre
<1>2. Call!mcpOperationError(error) =
        IF error = {} THEN {}
        ELSE IF named = {} THEN {"server"}
        ELSE Call!Problems[CHOOSE n \in named : \A m \in named : n <= m].when
  BY DEF Call!mcpOperationError
<1> HIDE DEF named
<1>3. CASE named = {} \/ error = {}
  BY <1>1, <1>2, <1>3
<1>4. CASE named # {} /\ error # {}
  <2>1. \E n \in named : \A m \in named : n <= m
    BY <1>1, <1>4, LeastRule
  <2>2. PICK n \in named : n = CHOOSE k \in named : \A m \in named : k <= m
    BY <2>1
  <2> QED
    BY <1>1, <1>2, <1>4, <2>2
<1> QED
  BY <1>3, <1>4

(* The call ends with an answer.                                           *)
LEMMA CallEnds ==
  ASSUME CallInv, calling.at = "waiting",
         serving = "answered" \/ (serving = "ran" /\ calling.surface # "rest"),
         NEW o, Call!Finished(o), Call!Keep, EndsWell(o.ok, o.is, o.items, o.facts)
  PROVE  CallInv'
<1>1. /\ calling' = [calling EXCEPT !.at = "done"] /\ outcome' = o
      /\ UNCHANGED <<called, request, serving, core, answer>>
  BY DEF Call!Finished, Call!Keep
<1>2. calling \in Askings /\ called \in ServerReleases /\ (calling.bundled => calling.op \in {"upload", "revision"})
  BY DEF CallInv, CallingTyped, Call!NoCall
<1>3. /\ calling' \in Askings /\ calling'.at = "done" /\ calling'.op = calling.op
      /\ calling'.surface = calling.surface /\ calling'.bundled = calling.bundled
      /\ calling'.refused = calling.refused
  BY <1>1, <1>2 DEF Askings
<1>4. CallingTyped'
  BY <1>1, <1>2, <1>3 DEF CallingTyped
<1>5. ServerPhase'
  BY <1>1, <1>3 DEF CallInv, ServerPhase, RefusedEarly, RefusedLate, ResultSent, CoreSound
<1>6. EndsWell(o.ok, o.is, o.items, o.facts)'
  BY <1>1, <1>3 DEF EndsWell, Call!OnTool
<1>7. CallerPhase'
  BY <1>1, <1>3, <1>6 DEF CallerPhase
<1>8. RequestKnown'
  BY <1>1, <1>3 DEF CallInv, RequestKnown
<1> QED
  BY <1>4, <1>5, <1>7, <1>8 DEF CallInv

(* What a client reads from a server.                                      *)
ReadFromServer ==
  \/ Call!ReceiveDocument \/ Call!ReceiveCollection \/ Call!ReceiveRevision \/ Call!PlanUpgradeDocument
  \/ Call!UpgradeDocument \/ Call!PlanBulkUpgrade \/ Call!InspectUpload \/ Call!ListManifest
  \/ Call!ListRemote \/ Call!ProtectUpload \/ Call!UnprotectUpload \/ Call!PlanPurge
  \/ Call!SyncManifest \/ Call!Purge \/ Call!ExecuteBulkUpgrade \/ Call!DeleteUpload \/ Call!GetUploadTo

LEMMA FailedIs ==
  ASSUME NEW is
  PROVE  LET o == Call!Failed(is)
         IN  o.ok = FALSE /\ o.is = is /\ o.items = Call!NoItems /\ o.facts = {}
BY DEF Call!Failed, Call!NoOutcome

LEMMA ReceiveKeeps ==
  ASSUME Call!CallAssumption, CallInv, NEW op, NEW is, Call!Receive(op, is), op # "delete",
         is = IF op \in Call!Itemised THEN Call!Incomplete(answer.items) ELSE {}
  PROVE  CallInv'
<1>1. /\ serving = "answered" /\ calling.at = "waiting" /\ calling.op = op /\ Call!Keep
      /\ Call!Finished(IF Call!Undelivered THEN Call!Failed(Call!transportError(answer.code)) ELSE Call!Delivered(is))
  BY DEF Call!Receive, Call!Received
<1>2. CASE answer.status >= 400
  <2>1. Call!Finished(Call!Failed(Call!transportError(answer.code)))
    BY <1>1, <1>2 DEF Call!Undelivered
  <2>2. EndsWell(FALSE, Call!transportError(answer.code), Call!NoItems, {})
    BY <1>1, <1>2, RefusalEnds
  <2> DEFINE o == Call!Failed(Call!transportError(answer.code))
  <2>3. EndsWell(o.ok, o.is, o.items, o.facts)
    BY <2>2, FailedIs
  <2> QED
    BY <1>1, <2>1, <2>3, CallEnds
<1>3. CASE ~(answer.status >= 400)
  <2> DEFINE o == Call!Delivered(is)
  <2>1. Call!Finished(o)
    BY <1>1, <1>3 DEF Call!Undelivered
  <2>2. EndsWell(is = {}, is, answer.items, Call!Unwire(calling.op, answer.facts))
    BY <1>1, <1>3, ResultEnds
  <2>3. o.ok = (is = {}) /\ o.is = is /\ o.items = answer.items /\ o.facts = Call!Unwire(calling.op, answer.facts)
    BY DEF Call!Delivered
  <2>4. EndsWell(o.ok, o.is, o.items, o.facts)
    BY <2>2, <2>3
  <2> HIDE DEF o
  <2> QED
    BY <1>1, <2>1, <2>4, CallEnds
<1> QED
  BY <1>2, <1>3

LEMMA DeleteKeeps ==
  ASSUME Call!CallAssumption, CallInv, Call!DeleteUpload
  PROVE  CallInv'
<1> DEFINE is == IF answer.code = "upload_protected" THEN {"protected"} ELSE Call!transportError(answer.code)
           o == IF ~Call!Undelivered THEN Call!Delivered({}) ELSE Call!Failed(is)
<1>1. /\ serving = "answered" /\ calling.at = "waiting" /\ calling.op = "delete" /\ Call!Keep /\ Call!Finished(o)
  BY DEF Call!DeleteUpload, Call!Received
<1>2. CASE answer.status >= 400
  <2>1. o = Call!Failed(is)
    BY <1>2 DEF Call!Undelivered
  <2>2. EndsWell(FALSE, is, Call!NoItems, {})
    BY <1>1, <1>2, RefusalEnds
  <2> HIDE DEF is
  <2>4. o.ok = FALSE /\ o.is = is /\ o.items = Call!NoItems /\ o.facts = {}
    BY <2>1, FailedIs
  <2> HIDE DEF o
  <2>3. EndsWell(o.ok, o.is, o.items, o.facts)
    BY <2>2, <2>4
  <2> QED
    BY <1>1, <2>3, CallEnds
<1>3. CASE ~(answer.status >= 400)
  <2>1. o = Call!Delivered({})
    BY <1>3 DEF Call!Undelivered
  <2>2. "delete" \notin Call!Itemised
    BY DEF Call!Itemised
  <2> HIDE DEF o, is
  <2>6. {} = IF calling.op \in Call!Itemised THEN Call!Incomplete(answer.items) ELSE {}
    BY <1>1, <2>2
  <2>3. EndsWell(TRUE, {}, answer.items, Call!Unwire(calling.op, answer.facts))
    BY <1>1, <1>3, <2>6, ResultEnds
  <2>4. o.ok = TRUE /\ o.is = {} /\ o.items = answer.items /\ o.facts = Call!Unwire(calling.op, answer.facts)
    BY <2>1 DEF Call!Delivered
  <2>5. EndsWell(o.ok, o.is, o.items, o.facts)
    BY <2>3, <2>4
  <2> QED
    BY <1>1, <2>5, CallEnds
<1> QED
  BY <1>2, <1>3

LEMMA GetKeeps ==
  ASSUME Call!CallAssumption, CallInv, Call!GetUploadTo
  PROVE  CallInv'
<1> DEFINE o == IF Call!Undelivered THEN Call!Failed(Call!transportError(answer.code))
                ELSE [Call!Delivered({}) EXCEPT !.body = answer.body]
<1>1. /\ serving = "answered" /\ calling.at = "waiting" /\ calling.op = "get" /\ Call!Keep /\ Call!Finished(o)
  BY DEF Call!GetUploadTo, Call!Received
<1>2. CASE answer.status >= 400
  <2>1. o = Call!Failed(Call!transportError(answer.code))
    BY <1>2 DEF Call!Undelivered
  <2>2. EndsWell(FALSE, Call!transportError(answer.code), Call!NoItems, {})
    BY <1>1, <1>2, RefusalEnds
  <2>3. EndsWell(o.ok, o.is, o.items, o.facts)
    BY <2>1, <2>2, FailedIs
  <2> HIDE DEF o
  <2> QED
    BY <1>1, <2>3, CallEnds
<1>3. CASE ~(answer.status >= 400)
  <2>1. o = [Call!Delivered({}) EXCEPT !.body = answer.body]
    BY <1>3 DEF Call!Undelivered
  <2>2. "get" \notin Call!Itemised
    BY DEF Call!Itemised
  <2>3. EndsWell(TRUE, {}, answer.items, Call!Unwire(calling.op, answer.facts))
    BY <1>1, <1>3, <2>2, ResultEnds
  <2>4. o.ok = TRUE /\ o.is = {} /\ o.items = answer.items /\ o.facts = Call!Unwire(calling.op, answer.facts)
    BY <2>1 DEF Call!Delivered
  <2>5. EndsWell(o.ok, o.is, o.items, o.facts)
    BY <2>3, <2>4
  <2> HIDE DEF o
  <2> QED
    BY <1>1, <2>5, CallEnds
<1> QED
  BY <1>2, <1>3

LEMMA ReadKeeps ==
  ASSUME Call!CallAssumption, CallInv, ReadFromServer
  PROVE  CallInv'
<1>1. CASE Call!DeleteUpload \/ Call!GetUploadTo
  BY <1>1, DeleteKeeps, GetKeeps
<1>2. CASE Call!SyncManifest \/ Call!Purge \/ Call!ExecuteBulkUpgrade
  <2>1. PICK op \in {"sync", "purge", "bulk"} : Call!Receive(op, Call!Incomplete(answer.items))
    BY <1>2 DEF Call!SyncManifest, Call!Purge, Call!ExecuteBulkUpgrade
  <2> QED
    BY <2>1, ReceiveKeeps DEF Call!Itemised
<1>3. ASSUME ReadFromServer,
             ~(Call!DeleteUpload \/ Call!GetUploadTo \/ Call!SyncManifest \/ Call!Purge \/ Call!ExecuteBulkUpgrade)
      PROVE  CallInv'
  <2>1. PICK op : op # "delete" /\ op \notin {"sync", "purge", "bulk"} /\ Call!Receive(op, {})
    BY <1>3 DEF ReadFromServer, Call!ReceiveDocument, Call!ReceiveCollection, Call!ReceiveRevision,
       Call!PlanUpgradeDocument, Call!UpgradeDocument, Call!PlanBulkUpgrade, Call!InspectUpload,
       Call!ListManifest, Call!ListRemote, Call!ProtectUpload, Call!UnprotectUpload, Call!PlanPurge
  <2> QED
    BY <2>1, ReceiveKeeps DEF Call!Itemised
<1> QED
  BY <1>1, <1>2, <1>3

(* What a command over storage or a tool returns.                          *)
ReturnedOnTheSpot ==
  \/ Call!ExitCommand \/ Call!ExitBulk \/ Call!ExitGet
  \/ Call!UploadTool \/ Call!ListTool \/ Call!InspectTool \/ Call!UpgradeTool \/ Call!BulkUpgradeTool
  \/ Call!DeleteTool \/ Call!ProtectTool \/ Call!SyncTool \/ Call!PreviewTool \/ Call!PurgeTool

LEMMA ReturnsSound ==
  ASSUME CallInv, NEW ops, NEW surfaces, Call!Returned(ops, surfaces), "rest" \notin surfaces
  PROVE  /\ serving = "ran" /\ calling.at = "waiting" /\ calling.op \in ops /\ calling.surface \in surfaces
         /\ calling.surface # "rest" /\ calling \in Askings /\ CoreSound
         /\ core.facts \ {"profile"} \subseteq core.facts
BY DEF Call!Returned, CallInv, CallingTyped, ServerPhase, Call!NoCall

(* An item fails only in an operation on several, and only a bulk upgrade  *)
(* has such an outcome without an error.                                   *)
LEMMA PartialIs ==
  ASSUME Call!CallAssumption, calling \in Askings, CoreSound, core.error = {}, Call!Partial(core.items)
  PROVE  calling.op = "bulk"
<1>1. core.result /\ calling.op \in Call!Itemised
  BY NothingFails DEF CoreSound, Call!CallAssumption, Askings, Call!Distinguishable
<1>2. calling.op = "sync" \/ calling.op = "purge" => core.error = Call!Incomplete(core.items)
  BY <1>1 DEF CoreSound
<1> QED
  BY <1>1, <1>2 DEF Call!Itemised, Call!Incomplete

LEMMA ExitCallKeeps ==
  ASSUME Call!CallAssumption, CallInv, NEW ops, Call!Returned(ops, {"direct"}),
         NEW is, NEW body, Call!Exit(is, body),
         is = {} => core.error = {}, is \cap Call!Told(calling.op) \subseteq core.error,
         is = {} /\ calling.op # "get" => ~Call!Partial(core.items)
  PROVE  CallInv'
<1> DEFINE o == [ok |-> is = {}, is |-> is, items |-> core.items, facts |-> core.facts, body |-> body]
<1>1. Call!Finished(o) /\ Call!Keep
  BY DEF Call!Exit
<1>2. /\ serving = "ran" /\ calling.at = "waiting" /\ calling.surface # "rest" /\ calling \in Askings /\ CoreSound
      /\ core.facts \ {"profile"} \subseteq core.facts
  BY ReturnsSound
<1>3. EndsWell(is = {}, is, core.items, core.facts)
  BY <1>2, LocalEnds
<1>4. o.ok = (is = {}) /\ o.is = is /\ o.items = core.items /\ o.facts = core.facts
  OBVIOUS
<1>5. EndsWell(o.ok, o.is, o.items, o.facts)
  BY <1>3, <1>4
<1> HIDE DEF o
<1> QED
  BY <1>1, <1>2, <1>5, CallEnds

LEMMA CommandKeeps ==
  ASSUME Call!CallAssumption, CallInv, Call!ExitCommand \/ Call!ExitBulk \/ Call!ExitGet
  PROVE  CallInv'
<1>1. CASE Call!ExitCommand
  <2>1. Call!Returned(Call!Ops \ {"bulk", "get"}, {"direct"}) /\ Call!Exit(core.error, "none")
    BY <1>1 DEF Call!ExitCommand
  <2>2. calling.op \in Call!Ops \ {"bulk", "get"} /\ calling \in Askings /\ CoreSound
    BY <2>1, ReturnsSound
  <2>3. core.error = {} => ~Call!Partial(core.items)
    BY <2>2, PartialIs
  <2> QED
    BY <2>1, <2>3, ExitCallKeeps
<1>2. CASE Call!ExitBulk
  <2> DEFINE is == core.error \cup Call!Incomplete(core.items)
  <2>1. Call!Returned({"bulk"}, {"direct"}) /\ Call!Exit(is, "none")
    BY <1>2 DEF Call!ExitBulk
  <2>2. is = {} => core.error = {}
    OBVIOUS
  <2>3. is = {} => ~Call!Partial(core.items)
    BY DEF Call!Incomplete
  <2>4. is \cap Call!Told(calling.op) \subseteq core.error
    BY DEF Call!Incomplete, Call!Told
  <2> HIDE DEF is
  <2> QED
    BY <2>1, <2>2, <2>3, <2>4, ExitCallKeeps
<1>3. CASE Call!ExitGet
  <2>1. Call!Returned({"get"}, {"direct"}) /\ calling.op = "get"
    BY <1>3 DEF Call!ExitGet, Call!Returned
  <2>2. CASE core.broken
    <3>1. Call!Exit({"storage"}, "torn")
      BY <1>3, <2>2 DEF Call!ExitGet
    <3>2. {"storage"} \cap Call!Told(calling.op) \subseteq core.error
      BY DEF Call!Told
    <3> QED
      BY <2>1, <3>1, <3>2, ExitCallKeeps
  <2>3. CASE ~core.broken
    <3>1. Call!Exit(core.error, IF core.result THEN "whole" ELSE "none")
      BY <1>3, <2>3 DEF Call!ExitGet
    <3> QED
      BY <2>1, <3>1, ExitCallKeeps
  <2> QED
    BY <2>2, <2>3
<1> QED
  BY <1>1, <1>2, <1>3

LEMMA ToolKeeps ==
  ASSUME Call!CallAssumption, CallInv, NEW ops, Call!ToolOf(ops)
  PROVE  CallInv'
<1> DEFINE is == Call!ToolError(Call!Hosted, calling.op, core.error)
           facts == Call!ToolFacts(Call!Hosted, calling.op, core.facts)
           o == [ok |-> is = {}, is |-> is, items |-> core.items, facts |-> facts, body |-> "none"]
<1>1. Call!Returned(ops, {"stdio", "hosted"}) /\ Call!Finished(o) /\ Call!Keep
  BY DEF Call!ToolOf, Call!EndTool, Call!ItemError
<1>2. /\ serving = "ran" /\ calling.at = "waiting" /\ calling.surface # "rest" /\ calling \in Askings /\ CoreSound
      /\ calling.surface \in {"stdio", "hosted"}
  BY <1>1, ReturnsSound
<1>3. (is = {} => core.error = {}) /\ is \subseteq core.error \cup {"server"}
  BY HostedErrors DEF Call!ToolError
<1>4. core.facts \ {"profile"} \subseteq facts /\ facts \subseteq core.facts
  BY DEF Call!ToolFacts
<1> HIDE DEF is, facts
<1>5. is \cap Call!Told(calling.op) \subseteq core.error
  BY <1>3 DEF Call!Told
<1>6. is = {} /\ calling.op # "get" /\ Call!Partial(core.items) => Call!OnTool /\ calling.op = "bulk"
  BY <1>2, <1>3, PartialIs DEF Call!OnTool
<1>7. EndsWell(is = {}, is, core.items, facts)
  BY <1>2, <1>3, <1>4, <1>5, <1>6, LocalEnds
<1>8. o.ok = (is = {}) /\ o.is = is /\ o.items = core.items /\ o.facts = facts
  OBVIOUS
<1>9. EndsWell(o.ok, o.is, o.items, o.facts)
  BY <1>7, <1>8
<1> HIDE DEF o
<1> QED
  BY <1>1, <1>2, <1>9, CallEnds

LEMMA ReturnKeeps ==
  ASSUME Call!CallAssumption, CallInv, ReturnedOnTheSpot
  PROVE  CallInv'
<1>1. CASE Call!ExitCommand \/ Call!ExitBulk \/ Call!ExitGet
  BY <1>1, CommandKeeps
<1>2. CASE ~(Call!ExitCommand \/ Call!ExitBulk \/ Call!ExitGet)
  <2>1. PICK ops : Call!ToolOf(ops)
    BY <1>2 DEF ReturnedOnTheSpot, Call!UploadTool, Call!ListTool, Call!InspectTool, Call!UpgradeTool,
       Call!BulkUpgradeTool, Call!DeleteTool, Call!ProtectTool, Call!SyncTool, Call!PreviewTool, Call!PurgeTool
  <2> QED
    BY <2>1, ToolKeeps
<1> QED
  BY <1>1, <1>2

(* The caller moves on; the server does not.                               *)
LEMMA CallerMoves ==
  ASSUME CallInv, calling \in Askings, NEW x \in {"sending", "waiting", "done", "left"},
         calling' = [calling EXCEPT !.at = x], UNCHANGED <<called, serving, core, answer>>
  PROVE  /\ CallingTyped' /\ ServerPhase' /\ calling'.at = x
         /\ calling'.surface = calling.surface /\ calling'.op = calling.op
         /\ calling'.bundled = calling.bundled /\ calling'.refused = calling.refused
<1>1. /\ calling' \in Askings /\ calling'.at = x /\ calling'.op = calling.op
      /\ calling'.surface = calling.surface /\ calling'.bundled = calling.bundled
      /\ calling'.refused = calling.refused
  BY DEF Askings
<1>2. called \in ServerReleases /\ (calling.bundled => calling.op \in {"upload", "revision"})
  BY DEF CallInv, CallingTyped, Askings, Call!NoCall
<1>3. CallingTyped'
  BY <1>1, <1>2 DEF CallingTyped
<1>4. ServerPhase'
  BY <1>1 DEF CallInv, ServerPhase, RefusedEarly, RefusedLate, ResultSent, CoreSound
<1> QED
  BY <1>1, <1>3, <1>4

LEMMA BeginCallKeeps ==
  ASSUME Call!CallAssumption, CallInv, Call!Begin
  PROVE  CallInv'
<1>1. PICK c \in CallRequests, s \in ServerReleases :
        /\ called' = s
        /\ IF c.surface = "rest"
           THEN /\ calling' = [c EXCEPT !.at = IF Call!Probed(c) THEN "probing" ELSE "sending"]
                /\ request' = IF Call!Probed(c) THEN Call!NoRequest ELSE [route |-> c.op, shape |-> "plain"]
                /\ UNCHANGED serving
           ELSE /\ calling' = [c EXCEPT !.at = "waiting"]
                /\ serving' = "running"
                /\ UNCHANGED request
  BY DEF Call!Begin
<1>2. calling.at = "idle" /\ UNCHANGED <<core, answer, outcome>>
  BY DEF Call!Begin, Call!Idle
<1>3. serving = "none" /\ core = Call!NoCore /\ answer = Call!NoReply /\ outcome = Call!NoOutcome
  BY <1>2 DEF CallInv, CallerPhase, ServerPhase
<1>4. /\ c \in [surface : Call!Surfaces, op : Call!Ops, bundled : BOOLEAN,
                refused : {"no", "invalid", "tooLarge"}, at : {"idle"}]
      /\ c.bundled => c.op \in {"upload", "revision"}
  BY DEF Call!CallAssumption
<1>5. CASE c.surface = "rest"
  <2>1. PICK x \in {"probing", "sending"} : calling' = [c EXCEPT !.at = x] /\ (x = "sending" <=> ~Call!Probed(c))
    BY <1>1, <1>5
  <2>2. /\ calling' \in Askings /\ calling'.at = x /\ calling'.surface = "rest" /\ calling'.op = c.op
        /\ calling'.bundled = c.bundled
    BY <1>4, <1>5, <2>1 DEF Askings
  <2>3. serving' = "none"
    BY <1>1, <1>3, <1>5
  <2>4. CallingTyped' /\ ServerPhase' /\ CallerPhase'
    BY <1>1, <1>2, <1>3, <1>4, <2>2, <2>3 DEF CallingTyped, ServerPhase, CallerPhase
  <2>5. x = "sending" => request' = [route |-> c.op, shape |-> "plain"] /\ c.op # "revision" /\ ~c.bundled
    BY <1>1, <1>4, <1>5, <2>1 DEF Call!Probed
  <2>6. RequestKnown'
    BY <2>2, <2>3, <2>5 DEF RequestKnown
  <2> QED
    BY <2>4, <2>6 DEF CallInv
<1>6. CASE c.surface # "rest"
  <2>1. calling' = [c EXCEPT !.at = "waiting"] /\ serving' = "running"
    BY <1>1, <1>6
  <2>2. /\ calling' \in Askings /\ calling'.at = "waiting" /\ calling'.surface # "rest" /\ calling'.op = c.op
        /\ calling'.bundled = c.bundled
    BY <1>4, <1>6, <2>1 DEF Askings
  <2>3. CallingTyped' /\ ServerPhase' /\ CallerPhase' /\ RequestKnown'
    BY <1>1, <1>2, <1>3, <1>4, <2>1, <2>2 DEF CallingTyped, ServerPhase, CallerPhase, RequestKnown
  <2> QED
    BY <2>3 DEF CallInv
<1> QED
  BY <1>5, <1>6

LEMMA RefuseCallKeeps ==
  ASSUME CallInv, calling.at = "probing", Call!Refuse
  PROVE  CallInv'
<1>1. /\ calling' = [calling EXCEPT !.at = "done"] /\ outcome' = Call!Failed({"client"})
      /\ UNCHANGED <<called, request, serving, core, answer>>
  BY DEF Call!Refuse, Call!Finished
<1>2. calling \in Askings /\ serving = "none" /\ calling.surface = "rest" /\ core = Call!NoCore
  BY DEF CallInv, CallingTyped, CallerPhase, ServerPhase, Call!NoCall
<1>3. /\ CallingTyped' /\ ServerPhase' /\ calling'.at = "done"
      /\ calling'.surface = calling.surface /\ calling'.op = calling.op
      /\ calling'.bundled = calling.bundled /\ calling'.refused = calling.refused
  BY <1>1, <1>2, CallerMoves
<1>4. outcome'.ok = FALSE /\ outcome'.is = {"client"} /\ outcome'.items = Call!NoItems /\ outcome'.facts = {}
  BY <1>1, FailedIs
<1>5. core'.error = {}
  BY <1>1, <1>2 DEF Call!NoCore
<1>6. EndsWell(FALSE, {"client"}, Call!NoItems, {})'
  BY <1>3, <1>5 DEF EndsWell, Call!Told
<1>7. EndsWell(outcome.ok, outcome.is, outcome.items, outcome.facts)'
  BY <1>4, <1>6
<1>8. CallerPhase'
  BY <1>1, <1>2, <1>3, <1>7 DEF CallerPhase
<1>9. RequestKnown'
  BY <1>1, <1>2, <1>3 DEF RequestKnown
<1> QED
  BY <1>3, <1>8, <1>9 DEF CallInv

LEMMA ProceedKeeps ==
  ASSUME CallInv, calling.at = "probing", NEW route, NEW shape, Call!Proceed(route, shape),
         calling.bundled => called.bundles /\ shape = "bundle",
         shape = "bundle" => called.bundles, route = "revision" => called.canonical
  PROVE  CallInv'
<1>1. /\ calling' = [calling EXCEPT !.at = "sending"] /\ request' = [route |-> route, shape |-> shape]
      /\ UNCHANGED <<called, serving, core, answer, outcome>>
  BY DEF Call!Proceed
<1>2. calling \in Askings /\ serving = "none" /\ calling.surface = "rest" /\ outcome = Call!NoOutcome
  BY DEF CallInv, CallingTyped, CallerPhase, Call!NoCall
<1>3. /\ CallingTyped' /\ ServerPhase' /\ calling'.at = "sending"
      /\ calling'.surface = calling.surface /\ calling'.bundled = calling.bundled
  BY <1>1, <1>2, CallerMoves
<1>4. CallerPhase' /\ RequestKnown'
  BY <1>1, <1>2, <1>3 DEF CallerPhase, RequestKnown
<1> QED
  BY <1>3, <1>4 DEF CallInv

LEMMA ProbedKeeps ==
  ASSUME CallInv, Call!UploadDocument \/ Call!UploadFiles \/ Call!CreateDocumentRevision
  PROVE  CallInv'
<1>1. CASE Call!UploadDocument
  <2>1. calling.at = "probing"
    BY <1>1 DEF Call!UploadDocument
  <2>2. CASE called.bundles
    BY <1>1, <2>1, <2>2, ProceedKeeps DEF Call!UploadDocument
  <2>3. CASE ~called.bundles
    BY <1>1, <2>1, <2>3, RefuseCallKeeps DEF Call!UploadDocument
  <2> QED
    BY <2>2, <2>3
<1>2. CASE Call!UploadFiles
  <2>1. calling.at = "probing" /\ calling.op = "collection" /\ Call!Proceed("collection", "plain")
    BY <1>2 DEF Call!UploadFiles
  <2>2. ~calling.bundled
    BY <2>1 DEF CallInv, CallingTyped, Call!NoCall
  <2> QED
    BY <2>1, <2>2, ProceedKeeps
<1>3. CASE Call!CreateDocumentRevision
  <2>1. calling.at = "probing"
    BY <1>3 DEF Call!CreateDocumentRevision
  <2>2. CASE calling.bundled /\ ~called.bundles
    BY <1>3, <2>1, <2>2, RefuseCallKeeps DEF Call!CreateDocumentRevision
  <2>3. CASE ~(calling.bundled /\ ~called.bundles)
    <3> DEFINE route == IF called.bundles /\ called.canonical THEN "revision" ELSE "update"
               shape == IF called.bundles THEN "bundle" ELSE "plain"
    <3>1. Call!Proceed(route, shape)
      BY <1>3, <2>3 DEF Call!CreateDocumentRevision, Call!RevisionShape
    <3>2. /\ calling.bundled => called.bundles /\ shape = "bundle"
          /\ shape = "bundle" => called.bundles
          /\ route = "revision" => called.canonical
      BY <2>3
    <3> HIDE DEF route, shape
    <3> QED
      BY <2>1, <3>1, <3>2, ProceedKeeps
  <2> QED
    BY <2>2, <2>3
<1> QED
  BY <1>1, <1>2, <1>3

LEMMA LeaveKeeps ==
  ASSUME CallInv, calling.surface = "rest", calling.at \in {"probing", "sending", "waiting"},
         NEW is \in {{"server"}, {"canceled"}}, Call!Leave(is)
  PROVE  CallInv'
<1>1. /\ calling' = [calling EXCEPT !.at = "left"] /\ outcome' = Call!Failed(is)
      /\ UNCHANGED <<called, request, serving, core, answer>>
  BY DEF Call!Leave
<1>2. calling \in Askings
  BY DEF CallInv, CallingTyped, Call!NoCall
<1>3. /\ CallingTyped' /\ ServerPhase' /\ calling'.at = "left"
      /\ calling'.surface = "rest" /\ calling'.bundled = calling.bundled
  BY <1>1, <1>2, CallerMoves
<1>4. CallerPhase' /\ RequestKnown'
  BY <1>1, <1>2, <1>3 DEF CallInv, CallerPhase, RequestKnown
<1> QED
  BY <1>3, <1>4 DEF CallInv

LEMMA LeavesKeep ==
  ASSUME CallInv, Call!ProbeFails \/ Call!Lost \/ Call!GiveUp
  PROVE  CallInv'
<1>1. CASE Call!ProbeFails
  <2>1. calling.at = "probing" /\ Call!Leave({"server"})
    BY <1>1 DEF Call!ProbeFails
  <2>2. calling.surface = "rest"
    BY <2>1 DEF CallInv, CallerPhase
  <2> QED
    BY <2>1, <2>2, LeaveKeeps
<1>2. CASE Call!Lost
  BY <1>2, LeaveKeeps DEF Call!Lost
<1>3. CASE Call!GiveUp
  BY <1>3, LeaveKeeps DEF Call!GiveUp
<1> QED
  BY <1>1, <1>2, <1>3

LEMMA SendCallKeeps ==
  ASSUME CallInv, Call!Send
  PROVE  CallInv'
<1>1. /\ calling.at = "sending" /\ calling' = [calling EXCEPT !.at = "waiting"] /\ serving' = "arrived"
      /\ UNCHANGED <<called, request, core, answer, outcome>>
  BY DEF Call!Send
<1>2. /\ calling \in Askings /\ serving = "none" /\ calling.surface = "rest"
      /\ core = Call!NoCore /\ answer = Call!NoReply /\ outcome = Call!NoOutcome
      /\ called \in ServerReleases /\ (calling.bundled => calling.op \in {"upload", "revision"})
  BY <1>1 DEF CallInv, CallingTyped, CallerPhase, ServerPhase, Call!NoCall
<1>3. /\ calling' \in Askings /\ calling'.at = "waiting" /\ calling'.surface = "rest" /\ calling'.op = calling.op
      /\ calling'.bundled = calling.bundled
  BY <1>1, <1>2 DEF Askings
<1>4. CallingTyped' /\ ServerPhase' /\ CallerPhase'
  BY <1>1, <1>2, <1>3 DEF CallingTyped, ServerPhase, CallerPhase
<1>5. RequestKnown'
  BY <1>1, <1>2, <1>3 DEF CallInv, RequestKnown
<1> QED
  BY <1>4, <1>5 DEF CallInv

(* The server moves on; the caller does not.                               *)
LEMMA AnswerKeeps ==
  ASSUME CallInv, serving \in {"arrived", "ran"}, calling.surface = "rest", NEW r, Call!Answer(r),
         (RefusedEarly \/ RefusedLate \/ ResultSent)'
  PROVE  CallInv'
<1>1. serving' = "answered" /\ UNCHANGED <<calling, called, request, core, outcome>>
  BY DEF Call!Answer
<1>2. calling.at \in {"waiting", "left"} /\ calling \in Askings
  BY DEF CallInv, CallingTyped, CallerPhase, Askings, Call!NoCall
<1>3. ServerPhase'
  BY <1>1 DEF ServerPhase
<1>4. CallingTyped' /\ CallerPhase' /\ RequestKnown'
  BY <1>1, <1>2 DEF CallInv, CallingTyped, CallerPhase, RequestKnown
<1> QED
  BY <1>3, <1>4 DEF CallInv

LEMMA EarlyKeeps ==
  ASSUME CallInv,
         \/ Call!RefuseLarge \/ Call!RefuseMedia \/ Call!RefuseTarget \/ Call!RefusePlan
         \/ Call!RefusePreview \/ Call!RefusePurge
  PROVE  CallInv'
<1>1. /\ serving = "arrived"
      /\ \/ Call!Answer(Call!Problem(400, "invalid_request"))
         \/ Call!Answer(Call!Problem(413, "request_too_large")) /\ calling.refused = "tooLarge"
  BY DEF Call!RefuseLarge, Call!RefuseMedia, Call!RefuseTarget, Call!RefusePlan, Call!RefusePreview,
     Call!RefusePurge, Call!Arrived, Call!Invalid
<1>2. core = Call!NoCore /\ calling.surface = "rest"
  BY <1>1 DEF CallInv, ServerPhase
<1>3. CASE Call!Answer(Call!Problem(400, "invalid_request"))
  <2>1. RefusedEarly'
    BY <1>2, <1>3 DEF RefusedEarly, Call!Answer
  <2> QED
    BY <1>1, <1>2, <1>3, <2>1, AnswerKeeps
<1>4. CASE Call!Answer(Call!Problem(413, "request_too_large")) /\ calling.refused = "tooLarge"
  <2>1. RefusedEarly'
    BY <1>2, <1>4 DEF RefusedEarly, Call!Answer
  <2> QED
    BY <1>1, <1>2, <1>4, <2>1, AnswerKeeps
<1> QED
  BY <1>1, <1>3, <1>4

LEMMA AcceptKeeps ==
  ASSUME CallInv, Call!Accept
  PROVE  CallInv'
<1>1. serving = "arrived" /\ serving' = "running" /\ UNCHANGED <<calling, called, request, core, answer, outcome>>
  BY DEF Call!Accept, Call!Arrived
<1>2. calling.at \in {"waiting", "left"} /\ calling \in Askings
  BY <1>1 DEF CallInv, CallingTyped, CallerPhase, Askings, Call!NoCall
<1>3. ServerPhase'
  BY <1>1 DEF CallInv, ServerPhase
<1>4. CallingTyped' /\ CallerPhase' /\ RequestKnown'
  BY <1>1, <1>2 DEF CallInv, CallingTyped, CallerPhase, RequestKnown
<1> QED
  BY <1>3, <1>4 DEF CallInv

LEMMA RanKeeps ==
  ASSUME CallInv, serving = "running", NEW c, Call!Ran(c), CoreSound'
  PROVE  CallInv'
<1>1. serving' = "ran" /\ core' = c /\ UNCHANGED <<calling, called, request, answer, outcome>>
  BY DEF Call!Ran
<1>2. calling.at \in {"waiting", "left"} /\ calling \in Askings /\ answer = Call!NoReply
  BY DEF CallInv, CallingTyped, CallerPhase, ServerPhase, Askings, Call!NoCall
<1>3. ServerPhase'
  BY <1>1, <1>2 DEF ServerPhase
<1>4. CallingTyped' /\ CallerPhase' /\ RequestKnown'
  BY <1>1, <1>2 DEF CallInv, CallingTyped, CallerPhase, RequestKnown
<1> QED
  BY <1>3, <1>4 DEF CallInv

(* The core fails before it has a result.                                  *)
LEMMA RanWithoutResult ==
  ASSUME CallInv, serving = "running", NEW e \in CoreFailures[calling.op],
         Call!Ran([Call!NoCore EXCEPT !.ran = TRUE, !.error = e])
  PROVE  CallInv'
<1> DEFINE c == [Call!NoCore EXCEPT !.ran = TRUE, !.error = e]
<1>1. c.ran = TRUE /\ c.result = FALSE /\ c.facts = {} /\ c.items = Call!NoItems /\ c.error = e
  BY DEF Call!NoCore
<1> HIDE DEF c
<1>2. core' = c /\ UNCHANGED <<calling, called>>
  BY DEF Call!Ran, c
<1>3. CoreSound'
  BY <1>1, <1>2 DEF CoreSound
<1> QED
  BY <1>3, RanKeeps

LEMMA RunPlainKeeps ==
  ASSUME CallInv, Call!RunPlain
  PROVE  CallInv'
<1>1. serving = "running" /\ calling.op \notin Call!Itemised /\ calling.op # "get"
  BY DEF Call!RunPlain
<1>2. CASE \E e \in CoreFailures[calling.op] : Call!Ran([Call!NoCore EXCEPT !.ran = TRUE, !.error = e])
  BY <1>1, <1>2, RanWithoutResult
<1>3. ASSUME NEW f \in {Call!FactsOf(calling.op)} \cup
                {Call!FactsOf(calling.op) \ {g} : g \in Call!FactsOf(calling.op) \ {"where", "pages"}},
             Call!Ran([Call!Succeeded EXCEPT !.facts = Call!Known(f)])
      PROVE  CallInv'
  <2> DEFINE c == [Call!Succeeded EXCEPT !.facts = Call!Known(f)]
  <2>1. c.ran = TRUE /\ c.result = TRUE /\ c.facts = Call!Known(f) /\ c.items = Call!NoItems /\ c.error = {}
    BY DEF Call!Succeeded, Call!NoCore
  <2>2. core' = c /\ UNCHANGED <<calling, called>>
    BY <1>3 DEF Call!Ran
  <2>3. Call!Known(f) \subseteq Call!FactsOf(calling.op)
    BY <1>3 DEF Call!Known
  <2>4. calling.op \in {"upload", "revision"} => "pages" \in Call!FactsOf(calling.op)
    BY DEF Call!FactsOf
  <2>5. calling.op \in {"upload", "revision"} /\ calling.surface # "rest" => "pages" \in Call!Known(f)
    BY <1>3, <2>4 DEF Call!Known
  <2> HIDE DEF c
  <2>6. CoreSound'
    <3>1. core'.ran = TRUE /\ core'.result = TRUE /\ core'.facts = Call!Known(f) /\ core'.items = Call!NoItems /\ core'.error = {}
      BY <2>1, <2>2
    <3>2. calling.op \notin {"sync", "purge", "bulk"}
      BY <1>1 DEF Call!Itemised
    <3> QED
      BY <2>2, <2>3, <2>5, <3>1, <3>2 DEF CoreSound
  <2> QED
    BY <1>1, <1>3, <2>6, RanKeeps
<1> QED
  BY <1>2, <1>3 DEF Call!RunPlain

LEMMA RunGetKeeps ==
  ASSUME CallInv, Call!RunGet
  PROVE  CallInv'
<1>1. serving = "running" /\ calling.op = "get"
  BY DEF Call!RunGet
<1>2. CASE \E e \in CoreFailures["get"] : Call!Ran([Call!NoCore EXCEPT !.ran = TRUE, !.error = e])
  BY <1>1, <1>2, RanWithoutResult
<1>3. ASSUME NEW b \in BOOLEAN, Call!Ran([Call!Succeeded EXCEPT !.broken = b]) PROVE CallInv'
  <2>1. /\ core'.ran = TRUE /\ core'.result = TRUE /\ core'.facts = {} /\ core'.items = Call!NoItems /\ core'.error = {}
        /\ UNCHANGED <<calling, called>>
    BY <1>3 DEF Call!Ran, Call!Succeeded, Call!NoCore
  <2>2. CoreSound'
    BY <1>1, <2>1 DEF CoreSound
  <2> QED
    BY <1>1, <1>3, <2>2, RanKeeps
<1> QED
  BY <1>2, <1>3 DEF Call!RunGet

(* An operation on several items has a result.                             *)
LEMMA ItemsRan ==
  ASSUME CallInv, serving = "running", calling.op \in Call!Itemised,
         NEW facts, NEW items, NEW e, facts \subseteq Call!FactsOf(calling.op),
         calling.op = "sync" =>
            e = Call!Incomplete(items) \/ (~Call!Partial(items) /\ e \in CoreFailures["sync"]),
         calling.op = "purge" => e = Call!Incomplete(items),
         calling.op = "bulk" => e = {} \/ (Call!Partial(items) /\ e = {"canceled"}),
         NEW c, Call!Ran(c), c.ran = TRUE, c.result = TRUE, c.facts = facts, c.items = items, c.error = e
  PROVE  CallInv'
<1>1. core' = c /\ UNCHANGED <<calling, called>>
  BY DEF Call!Ran
<1>2. calling.op \in Call!Itemised => calling.op \notin {"upload", "revision"}
  BY DEF Call!Itemised
<1>3. CoreSound'
  BY <1>1, <1>2 DEF CoreSound
<1> QED
  BY <1>3, RanKeeps

LEMMA RunSyncKeeps ==
  ASSUME CallInv, Call!RunSync
  PROVE  CallInv'
<1>1. serving = "running" /\ calling.op = "sync" /\ calling.op \in Call!Itemised
  BY DEF Call!RunSync, Call!Itemised
<1>2. CASE \E e \in CoreFailures["sync"] : Call!Ran([Call!NoCore EXCEPT !.ran = TRUE, !.error = e])
  BY <1>1, <1>2, RanWithoutResult
<1>3. ASSUME NEW items, NEW e, e = Call!Incomplete(items) \/ (~Call!Partial(items) /\ e \in CoreFailures["sync"]),
             Call!Ran([Call!Succeeded EXCEPT !.facts = Call!FactsOf("sync"), !.items = items, !.error = e])
      PROVE  CallInv'
  <2> DEFINE c == [Call!Succeeded EXCEPT !.facts = Call!FactsOf("sync"), !.items = items, !.error = e]
  <2>1. c.ran = TRUE /\ c.result = TRUE /\ c.facts = Call!FactsOf("sync") /\ c.items = items /\ c.error = e
    BY DEF Call!Succeeded, Call!NoCore
  <2> HIDE DEF c
  <2>2. Call!Ran(c)
    BY <1>3 DEF c
  <2> QED
    BY <1>1, <1>3, <2>1, <2>2, ItemsRan
<1>4. CASE \E items \in Call!ItemResults :
              Call!Ran([Call!Succeeded EXCEPT !.facts = Call!FactsOf("sync"), !.items = items,
                                              !.error = Call!Incomplete(items)])
  BY <1>3, <1>4
<1>5. CASE \E items \in [ResultItems -> {"done", "skipped"}], e \in CoreFailures["sync"] :
              Call!Ran([Call!Succeeded EXCEPT !.facts = Call!FactsOf("sync"), !.items = items, !.error = e])
  <2>1. PICK items \in [ResultItems -> {"done", "skipped"}], e \in CoreFailures["sync"] :
              Call!Ran([Call!Succeeded EXCEPT !.facts = Call!FactsOf("sync"), !.items = items, !.error = e])
    BY <1>5
  <2>2. ~Call!Partial(items)
    BY DEF Call!Partial
  <2> QED
    BY <1>3, <2>1, <2>2
<1> QED
  BY <1>2, <1>4, <1>5 DEF Call!RunSync

LEMMA RunPurgeKeeps ==
  ASSUME CallInv, Call!RunPurge
  PROVE  CallInv'
<1>1. serving = "running" /\ calling.op = "purge" /\ calling.op \in Call!Itemised
  BY DEF Call!RunPurge, Call!Itemised
<1>2. CASE \E e \in CoreFailures["purge"] : Call!Ran([Call!NoCore EXCEPT !.ran = TRUE, !.error = e])
  BY <1>1, <1>2, RanWithoutResult
<1>3. ASSUME NEW items \in Call!ItemResults,
             Call!Ran([Call!Succeeded EXCEPT !.items = items,
                       !.error = IF Call!Partial(items) THEN {"incomplete"} ELSE {}])
      PROVE  CallInv'
  <2> DEFINE c == [Call!Succeeded EXCEPT !.items = items, !.error = IF Call!Partial(items) THEN {"incomplete"} ELSE {}]
  <2>1. c.ran = TRUE /\ c.result = TRUE /\ c.facts = {} /\ c.items = items /\ c.error = Call!Incomplete(items)
    BY DEF Call!Succeeded, Call!NoCore, Call!Incomplete
  <2> HIDE DEF c
  <2>2. Call!Ran(c)
    BY <1>3 DEF c
  <2> QED
    BY <1>1, <2>1, <2>2, ItemsRan
<1> QED
  BY <1>2, <1>3 DEF Call!RunPurge

LEMMA RunBulkKeeps ==
  ASSUME CallInv, Call!RunBulk
  PROVE  CallInv'
<1>1. serving = "running" /\ calling.op = "bulk" /\ calling.op \in Call!Itemised
  BY DEF Call!RunBulk, Call!Itemised
<1>2. CASE \E e \in CoreFailures["bulk"] : Call!Ran([Call!NoCore EXCEPT !.ran = TRUE, !.error = e])
  BY <1>1, <1>2, RanWithoutResult
<1>3. ASSUME NEW items, Call!Ran([Call!Succeeded EXCEPT !.items = items]) PROVE CallInv'
  <2> DEFINE c == [Call!Succeeded EXCEPT !.items = items]
  <2>1. c.ran = TRUE /\ c.result = TRUE /\ c.facts = {} /\ c.items = items /\ c.error = {}
    BY DEF Call!Succeeded, Call!NoCore
  <2> HIDE DEF c
  <2>2. Call!Ran(c)
    BY <1>3 DEF c
  <2> QED
    BY <1>1, <2>1, <2>2, ItemsRan
<1>4. ASSUME NEW items, Call!Partial(items),
             Call!Ran([Call!Succeeded EXCEPT !.items = items, !.error = {"canceled"}])
      PROVE  CallInv'
  <2> DEFINE c == [Call!Succeeded EXCEPT !.items = items, !.error = {"canceled"}]
  <2>1. c.ran = TRUE /\ c.result = TRUE /\ c.facts = {} /\ c.items = items /\ c.error = {"canceled"}
    BY DEF Call!Succeeded, Call!NoCore
  <2> HIDE DEF c
  <2>2. Call!Ran(c)
    BY <1>4 DEF c
  <2> QED
    BY <1>1, <1>4, <2>1, <2>2, ItemsRan
<1> QED
  BY <1>2, <1>3, <1>4 DEF Call!RunBulk

(* What the server makes of the core's outcome.                            *)
AnsweredOverREST ==
  \/ Call!ServeDocument \/ Call!ServeCollection \/ Call!ServeRevision \/ Call!ServePlan \/ Call!ServeUpgrade
  \/ Call!ServeBulkPlan \/ Call!ServeInspection \/ Call!ServeManifest \/ Call!ServeStorage \/ Call!ServeDelete
  \/ Call!ServeProtect \/ Call!ServeUnprotect \/ Call!ServePreview \/ Call!ServePurge \/ Call!ServeBulk
  \/ Call!ServeSync \/ Call!ServeGet

LEMMA ServesResult ==
  ASSUME CallInv, serving = "ran", calling.surface = "rest", NEW r, Call!Answer(r), core.result,
         r.status = 200, r.code = "none", r.items = core.items, r.facts = Call!Wire(calling.op, core.facts),
         calling.op = "sync" => Call!Partial(core.items) \/ core.error = {}
  PROVE  CallInv'
<1>1. answer' = r /\ UNCHANGED <<calling, called, core>> /\ CoreSound
  BY DEF Call!Answer, CallInv, ServerPhase
<1>2. ResultSent'
  BY <1>1 DEF ResultSent, CoreSound
<1> QED
  BY <1>2, AnswerKeeps

LEMMA ServesProblem ==
  ASSUME CallInv, serving = "ran", calling.surface = "rest", Call!Answer(Call!Refused(core.error)),
         core.error # {}, core.result => calling.op = "sync" /\ ~Call!Partial(core.items)
  PROVE  CallInv'
<1>1. answer' = Call!Refused(core.error) /\ UNCHANGED <<calling, called, core>> /\ CoreSound
  BY DEF Call!Answer, CallInv, ServerPhase
<1>2. RefusedLate'
  BY <1>1 DEF RefusedLate, CoreSound
<1> QED
  BY <1>2, AnswerKeeps

LEMMA ResultIs ==
  /\ Call!Result.status = 200 /\ Call!Result.code = "none" /\ Call!Result.items = core.items
  /\ Call!Result.facts = Call!Wire(calling.op, core.facts)
BY DEF Call!Result, Call!NoReply, Call!ItemError

LEMMA ServeCallKeeps ==
  ASSUME Call!CallAssumption, CallInv, AnsweredOverREST
  PROVE  CallInv'
<1>1. serving = "ran" /\ calling.surface = "rest"
  BY DEF AnsweredOverREST, Call!ServeDocument, Call!ServeCollection, Call!ServeRevision, Call!ServePlan,
     Call!ServeUpgrade, Call!ServeBulkPlan, Call!ServeInspection, Call!ServeManifest, Call!ServeStorage,
     Call!ServeDelete, Call!ServeProtect, Call!ServeUnprotect, Call!ServePreview, Call!ServePurge,
     Call!ServeBulk, Call!ServeSync, Call!ServeGet, Call!ResultOrProblem, Call!Served
<1>2. CoreSound /\ calling \in Askings /\ core.result \in BOOLEAN
  BY <1>1 DEF CallInv, CallingTyped, ServerPhase, CoreSound, Call!NoCall
<1>3. ~core.result => core.error # {}
  BY <1>2 DEF CoreSound, Askings, Call!CallAssumption, Call!Distinguishable
<1>4. CASE Call!ServeSync
  <2>1. Call!Answer(IF core.result /\ (Call!Partial(core.items) \/ core.error = {}) THEN Call!Result
                    ELSE Call!Refused(core.error)) /\ calling.op = "sync"
    BY <1>4 DEF Call!ServeSync, Call!Served
  <2>2. CASE core.result /\ (Call!Partial(core.items) \/ core.error = {})
    BY <1>1, <2>1, <2>2, ResultIs, ServesResult
  <2>3. CASE ~(core.result /\ (Call!Partial(core.items) \/ core.error = {}))
    BY <1>1, <1>3, <2>1, <2>3, ServesProblem
  <2> QED
    BY <2>2, <2>3
<1>5. CASE Call!ServeGet
  <2> DEFINE r == [Call!Result EXCEPT !.body = Call!VisitGetUpload(core.broken)]
  <2>1. Call!Answer(IF core.result THEN r ELSE Call!Refused(core.error)) /\ calling.op = "get"
    BY <1>5 DEF Call!ServeGet, Call!Served
  <2>2. r.status = 200 /\ r.code = "none" /\ r.items = core.items /\ r.facts = Call!Wire(calling.op, core.facts)
    BY DEF Call!Result, Call!NoReply, Call!ItemError
  <2> HIDE DEF r
  <2>3. CASE core.result
    BY <1>1, <2>1, <2>2, <2>3, ServesResult
  <2>4. CASE ~core.result
    BY <1>1, <1>3, <2>1, <2>4, ServesProblem
  <2> QED
    BY <2>3, <2>4
<1>6. CASE ~Call!ServeSync /\ ~Call!ServeGet
  <2>1. PICK op : op # "sync" /\ Call!ResultOrProblem(op)
    BY <1>6 DEF AnsweredOverREST, Call!ServeDocument, Call!ServeCollection, Call!ServeRevision, Call!ServePlan,
       Call!ServeUpgrade, Call!ServeBulkPlan, Call!ServeInspection, Call!ServeManifest, Call!ServeStorage,
       Call!ServeDelete, Call!ServeProtect, Call!ServeUnprotect, Call!ServePreview, Call!ServePurge,
       Call!ServeBulk
  <2>2. calling.op # "sync" /\ Call!Answer(IF core.result THEN Call!Result ELSE Call!Refused(core.error))
    BY <2>1 DEF Call!ResultOrProblem, Call!Served
  <2>3. CASE core.result
    BY <1>1, <2>2, <2>3, ResultIs, ServesResult
  <2>4. CASE ~core.result
    BY <1>1, <1>3, <2>2, <2>4, ServesProblem
  <2> QED
    BY <2>3, <2>4
<1> QED
  BY <1>4, <1>5, <1>6

LEMMA CallInit == Call!Init => CallInv
<1> SUFFICES ASSUME Call!Init PROVE CallInv
  OBVIOUS
<1>1. /\ calling = Call!NoCall /\ serving = "none" /\ core = Call!NoCore /\ answer = Call!NoReply
      /\ outcome = Call!NoOutcome
  BY DEF Call!Init
<1>2. calling.at = "idle" /\ calling.surface = "none"
  BY <1>1 DEF Call!NoCall
<1> QED
  BY <1>1, <1>2 DEF CallInv, CallingTyped, ServerPhase, CallerPhase, RequestKnown

LEMMA CallStands ==
  ASSUME CallInv, UNCHANGED callVars
  PROVE  CallInv'
<1>1. UNCHANGED <<calling, called, request, serving, core, answer, outcome>>
  BY DEF callVars
<1>2. CallingTyped' /\ RequestKnown'
  BY <1>1 DEF CallInv, CallingTyped, RequestKnown
<1>3. ServerPhase'
  BY <1>1 DEF CallInv, ServerPhase, RefusedEarly, RefusedLate, ResultSent, CoreSound
<1>4. CallerPhase'
  BY <1>1 DEF CallInv, CallerPhase, EndsWell, Call!OnTool
<1> QED
  BY <1>2, <1>3, <1>4 DEF CallInv

LEMMA CallStep ==
  ASSUME Call!CallAssumption, CallInv, [Call!Next]_callVars
  PROVE  CallInv'
<1>1. CASE Call!Begin
  BY <1>1, BeginCallKeeps
<1>2. CASE Call!UploadDocument \/ Call!UploadFiles \/ Call!CreateDocumentRevision
  BY <1>2, ProbedKeeps
<1>3. CASE Call!ProbeFails \/ Call!Lost \/ Call!GiveUp
  BY <1>3, LeavesKeep
<1>4. CASE Call!Send
  BY <1>4, SendCallKeeps
<1>5. CASE \/ Call!RefuseLarge \/ Call!RefuseMedia \/ Call!RefuseTarget \/ Call!RefusePlan
           \/ Call!RefusePreview \/ Call!RefusePurge
  BY <1>5, EarlyKeeps
<1>6. CASE Call!Accept
  BY <1>6, AcceptKeeps
<1>7. CASE Call!RunPlain
  BY <1>7, RunPlainKeeps
<1>8. CASE Call!RunGet
  BY <1>8, RunGetKeeps
<1>9. CASE Call!RunSync
  BY <1>9, RunSyncKeeps
<1>10. CASE Call!RunPurge
  BY <1>10, RunPurgeKeeps
<1>11. CASE Call!RunBulk
  BY <1>11, RunBulkKeeps
<1>12. CASE AnsweredOverREST
  BY <1>12, ServeCallKeeps
<1>13. CASE ReadFromServer
  BY <1>13, ReadKeeps
<1>14. CASE ReturnedOnTheSpot
  BY <1>14, ReturnKeeps
<1>15. CASE UNCHANGED callVars
  BY <1>15, CallStands
<1> QED
  BY <1>1, <1>2, <1>3, <1>4, <1>5, <1>6, <1>7, <1>8, <1>9, <1>10, <1>11, <1>12, <1>13, <1>14, <1>15
  DEF Call!Next, AnsweredOverREST, ReadFromServer, ReturnedOnTheSpot

(* The answer names the cause the core had.                                *)
LEMMA CodeIsCause ==
  ASSUME Call!CallAssumption, CallInv
  PROVE  /\ answer.code = "revision_conflict" => "appendConflict" \in core.error
         /\ serving = "answered" /\ "appendConflict" \in core.error /\ "canceled" \notin core.error
              => answer.code = "revision_conflict"
<1>1. CASE serving # "answered"
  <2>1. answer = Call!NoReply
    BY <1>1 DEF CallInv, ServerPhase
  <2>2. answer.code = "none"
    BY <2>1 DEF Call!NoReply
  <2> QED
    BY <1>1, <2>2
<1>2. CASE serving = "answered" /\ RefusedEarly
  <2>1. core.error = {}
    BY <1>2 DEF RefusedEarly, Call!NoCore
  <2>2. answer.code \in {"invalid_request", "request_too_large"}
    BY <1>2 DEF RefusedEarly, Call!Problem, Call!NoReply
  <2> QED
    BY <2>1, <2>2
<1>3. CASE serving = "answered" /\ RefusedLate
  <2>1. calling \in Askings
    BY <1>3 DEF CallInv, CallingTyped, ServerPhase, Call!NoCall
  <2>2. Call!Distinguishable(core.error)
    <3>1. CASE core.error \in {{"canceled"}, {"incomplete"}}
      BY <3>1 DEF Call!Distinguishable
    <3>2. CASE core.error \notin {{"canceled"}, {"incomplete"}}
      BY <1>3, <2>1, <3>2, ErrorsHaveCause DEF RefusedLate
    <3> QED
      BY <3>1, <3>2
  <2>3. answer.code = Call!apiOperationError(core.error).code
    BY <1>3 DEF RefusedLate, Call!Refused, Call!Problem, Call!NoReply
  <2>4. answer.code = "revision_conflict" => "appendConflict" \in core.error
    BY <2>2, <2>3, CodesTrue
  <2>5. "appendConflict" \in core.error /\ "canceled" \notin core.error => answer.code = "revision_conflict"
    BY <2>2, <2>3, CausesNamed
  <2> QED
    BY <2>4, <2>5
<1>4. CASE serving = "answered" /\ ResultSent
  <2>1. answer.code = "none" /\ core.result /\ CoreSound
        /\ (calling.op = "sync" => Call!Partial(core.items) \/ core.error = {})
    BY <1>4 DEF ResultSent
  <2>2. core.error \in {{}, {"canceled"}, {"incomplete"}}
    BY <2>1 DEF CoreSound, Call!Itemised, Call!Incomplete
  <2> QED
    BY <2>1, <2>2
<1> QED
  BY <1>1, <1>2, <1>3, <1>4 DEF CallInv, ServerPhase

LEMMA CallInvTells ==
  ASSUME Call!CallAssumption, CallInv
  PROVE  AnswerTrue
<1>1. calling.at \in {"idle", "probing", "sending", "waiting", "done", "left"}
  BY DEF CallInv, CallingTyped, Askings, Call!NoCall
<1>2. CASE calling.at = "done"
  <2>1. EndsWell(outcome.ok, outcome.is, outcome.items, outcome.facts)
    BY <1>2 DEF CallInv, CallerPhase
  <2>2. Call!HonestSuccess
    BY <2>1 DEF EndsWell, Call!HonestSuccess
  <2>3. Call!ErrorIdentity
    BY <2>1, CodeIsCause DEF EndsWell, Call!ErrorIdentity
  <2>4. Call!AnswerFaithful
    BY <2>1 DEF EndsWell, Call!AnswerFaithful
  <2> QED
    BY <2>2, <2>3, <2>4 DEF AnswerTrue
<1>3. CASE calling.at # "done"
  <2>1. outcome.is \in {{}, {"server"}, {"canceled"}}
    <3>1. outcome = Call!NoOutcome \/ outcome = Call!Failed({"server"}) \/ outcome = Call!Failed({"canceled"})
      BY <1>1, <1>3 DEF CallInv, CallerPhase
    <3>2. Call!NoOutcome.is = {}
      BY DEF Call!NoOutcome
    <3>3. Call!Failed({"server"}).is = {"server"} /\ Call!Failed({"canceled"}).is = {"canceled"}
      BY FailedIs
    <3> QED
      BY <3>1, <3>2, <3>3
  <2>2. outcome.is \cap Call!Told(calling.op) = {}
    BY <2>1 DEF Call!Told
  <2> QED
    BY <1>3, <2>2, CodeIsCause DEF AnswerTrue, Call!HonestSuccess, Call!ErrorIdentity, Call!AnswerFaithful, Call!Done
<1> QED
  BY <1>2, <1>3

(* Whatever the core of an operation does, and whatever is lost on the way, *)
(* no surface reports a success the operation did not have, an error keeps  *)
(* its cause through the problem a server makes of it and the error a       *)
(* client makes of that, and the result a caller reads is the core's        *)
(* (src/airplan/http_transport.go, src/internal/httpapi/server.go,          *)
(* src/airplan/mcp.go).                                                     *)
THEOREM AnswersAlwaysTrue == Call!Spec => []AnswerTrue
<1>1. Call!Init => CallInv
  BY CallInit
<1>2. CallInv /\ [Call!Next]_callVars => CallInv'
  BY CallStep, CallsAssumption
<1>3. CallInv => AnswerTrue
  BY CallInvTells, CallsAssumption
<1> QED
  BY <1>1, <1>2, <1>3, PTL DEF Call!Spec, Call!vars, callVars

(* A client of one release never sends a server of another a revision, a    *)
(* page or an asset in a shape or at a route that server does not know,     *)
(* whichever answers are lost (src/airplan/http_transport.go).              *)
THEOREM BundlesAlwaysUnderstood == Call!Spec => []BundleUnderstood
<1>1. Call!Init => CallInv
  BY CallInit
<1>2. CallInv /\ [Call!Next]_callVars => CallInv'
  BY CallStep, CallsAssumption
<1>3. CallInv => BundleUnderstood
  BY DEF CallInv, RequestKnown, BundleUnderstood, Call!BundleUnderstood
<1> QED
  BY <1>1, <1>2, <1>3, PTL DEF Call!Spec, Call!vars, callVars
=============================================================================
