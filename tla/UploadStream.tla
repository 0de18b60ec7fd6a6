------------------------------ MODULE UploadStream ------------------------------
(***************************************************************************)
(* One upload through the REST API, from the client's call to its return:  *)
(* the client's preparation (http_transport.go), the goroutine that writes *)
(* the multipart body into a pipe (httpapi/client.go), the connection, the *)
(* server's bounded streaming parser (httpapi/uploads.go), the operation   *)
(* it invokes (httpapi/server.go) reading its spooled entry lazily         *)
(* (lazyio.go), and the server process stopping (cli/server.go).           *)
(*                                                                         *)
(* Bytes are counted in chunks.  A plan fixes what the client means to     *)
(* send and what its sources turn out to hold when they are read:          *)
(* "whole", "short" and "long" against the declared size, "fails" for an   *)
(* error in the middle, "refused" for a source that cannot be opened, or   *)
(* is not the file it was when it was measured.  A "foreign" client is     *)
(* not this program: it sends any parts in any order.                      *)
(***************************************************************************)
EXTENDS Integers, Sequences, SequencesExt, FiniteSets

CONSTANTS Plans,     \* the uploads tried
          MaxPart,   \* server limit on one part, in chunks
          MaxTotal,  \* server limit on the parts of one kind together
          MaxItems,  \* server limit on document items, on collection files
          WireCap    \* bound on what is in flight

ASSUME LimitsAssumption == /\ {MaxPart, MaxTotal, MaxItems, WireCap} \subseteq Nat \ {0}
                           /\ MaxPart <= MaxTotal

(* An upload: parts are named and measured, and may be read as said above.  *)
Readings == {"whole", "short", "long", "fails", "refused"}
ASSUME PlansAssumption ==
  \A p \in Plans :
    /\ p.kind \in {"document", "collection"} /\ p.origin \in {"airplan", "foreign"}
    /\ p.token \in BOOLEAN /\ p.old \in BOOLEAN
    /\ p.sent \in Seq([name : STRING, size : Nat, read : Readings]) /\ p.sent # <<>>
    /\ \A i \in DOMAIN p.sent : p.sent[i].read \in {"short", "fails"} => p.sent[i].size > 0
    /\ p.described \in Seq([name : {"pages", "assets"}, size : Nat])

(* This program describes the pages and assets it sends, after metadata and *)
(* entry; a page is read back from the file of its own it was measured in.  *)
ASSUME ClientAssumption ==
  \A p \in Plans : p.origin = "airplan" =>
    \A i \in DOMAIN p.sent : p.sent[i].name \in {"pages", "assets"} =>
      /\ p.kind = "document" /\ i - 2 \in DOMAIN p.described
      /\ p.described[i - 2] = [name |-> p.sent[i].name, size |-> p.sent[i].size]
      /\ p.sent[i].name = "pages" => p.sent[i].read = "whole"

VARIABLES plan,    \* the upload: a member of Plans
          call,    \* the client's call
          pages,   \* whether the client's spooled pages are on its disk
          writer,  \* the goroutine that writes the body
          pipe,    \* whether the transport still reads the pipe
          wire,    \* the part of the body in flight
          conn,    \* the body: "open", "ended" by its writer, or "cut"
          srv,     \* the server's handler
          tmp,     \* parts in the server's temporary directory
          entry,   \* the lazy reader of the spooled entry
          reply,   \* the response in flight
          applied, \* what the operation published
          host     \* the server process

vars == <<plan, call, pages, writer, pipe, wire, conn, srv, tmp, entry, reply, applied, host>>
client == <<call, pages, writer, pipe>>
server == <<srv, tmp, entry, reply, applied>>

Nothing == <<>>
Foreign == plan.origin = "foreign"
Collection == plan.kind = "collection"
Bundle == ~Collection /\ Len(plan.described) > 0
InFlight == srv.pc \notin {"idle", "done", "killed"}
Returned == call \in {"created", "problem", "error"}

Init ==
  /\ plan \in Plans
  /\ call = "preparing" /\ pages = FALSE /\ pipe = TRUE
  /\ writer = [pc |-> "idle", part |-> 1, off |-> 0, err |-> FALSE]
  /\ wire = <<>> /\ conn = "open"
  /\ srv = [pc |-> "idle", got |-> <<>>, meta |-> FALSE, name |-> "", size |-> 0, result |-> ""]
  /\ tmp = {} /\ entry = [rd |-> "idle", open |-> FALSE, closed |-> FALSE, eof |-> FALSE]
  /\ reply = "" /\ applied = Nothing /\ host = "up"

-----------------------------------------------------------------------------
(* The client's call.  A bundle asks for the server's capabilities first   *)
(* and spools its pages; nothing is streamed to a server without support.  *)

Return(outcome) ==
  /\ call' = outcome /\ pages' = FALSE /\ pipe' = FALSE

StartStreaming ==
  /\ writer' = [writer EXCEPT !.pc = "part"]
  /\ call' = "streaming" /\ UNCHANGED pipe

Prepare ==
  /\ call = "preparing" /\ host = "up"
  /\ IF Bundle /\ ~Foreign
     THEN IF plan.old THEN Return("error") /\ UNCHANGED writer
                      ELSE StartStreaming /\ pages' = TRUE
     ELSE StartStreaming /\ UNCHANGED pages
  /\ UNCHANGED <<plan, wire, conn, server, host>>

(* A page, or the total, exceeds the server's limit; or a source fails.     *)
PrepareFails ==
  /\ call = "preparing"
  /\ Return("error")
  /\ UNCHANGED <<plan, writer, wire, conn, server, host>>

-----------------------------------------------------------------------------
(* multipartBody and the functions it runs in a goroutine of its own.      *)

Part == plan.sent[writer.part]

(* What the source of a part yields before its end or its error.           *)
Yield(p) == CASE p.read = "refused" -> 0
              [] p.read \in {"short", "fails"} -> p.size - 1
              [] OTHER -> p.size

(* Pages are read back from the spool, which the call removes on return.    *)
Readable(p) == p.name \in {"pages"} => pages \/ Foreign

Write(item) == wire' = Append(wire, item) /\ Len(wire) < WireCap

WriterFails == writer' = [writer EXCEPT !.pc = "trailer", !.err = TRUE]

(* writeExactPart opens and seeks before it creates the part.               *)
WriteHeader ==
  /\ writer.pc = "part" /\ pipe
  /\ IF Part.read = "refused"
     THEN WriterFails /\ UNCHANGED wire
     ELSE Write(<<"part", Part.name>>) /\ writer' = [writer EXCEPT !.pc = "data", !.off = 0]
  /\ UNCHANGED <<plan, call, pages, pipe, conn, server, host>>

WriteData ==
  /\ writer.pc = "data" /\ pipe /\ writer.off < Yield(Part)
  /\ IF Readable(Part)
     THEN Write(<<"data", Part.name>>) /\ writer' = [writer EXCEPT !.off = @ + 1]
     ELSE WriterFails /\ UNCHANGED wire
  /\ UNCHANGED <<plan, call, pages, pipe, conn, server, host>>

(* The source must end exactly at the declared size.                        *)
EndPart ==
  /\ writer.pc = "data" /\ pipe /\ writer.off = Yield(Part)
  /\ IF Part.read # "whole" THEN WriterFails
     ELSE writer' = [writer EXCEPT !.pc = IF writer.part < Len(plan.sent) THEN "part" ELSE "trailer",
                                   !.part = IF writer.part < Len(plan.sent) THEN @ + 1 ELSE @]
  /\ UNCHANGED <<plan, call, pages, pipe, wire, conn, server, host>>

(* The multipart writer is closed, which ends the body, even after an error. *)
MutantWriteTrailer ==
  /\ writer.pc = "trailer" /\ pipe
  /\ IF writer.err THEN UNCHANGED wire ELSE Write(<<"trailer", "">>)
  /\ writer' = [writer EXCEPT !.pc = IF writer.err THEN "done" ELSE "close"]
  /\ UNCHANGED <<plan, call, pages, pipe, conn, server, host>>
WriteTrailer ==
  /\ writer.pc = "trailer" /\ pipe
  /\ Write(<<"trailer", "">>)
  /\ writer' = [writer EXCEPT !.pc = "close"]
  /\ UNCHANGED <<plan, call, pages, pipe, conn, server, host>>

(* CloseWithError: the transport sees the error and drops the connection.   *)
ClosePipe ==
  /\ writer.pc = "close"
  /\ writer' = [writer EXCEPT !.pc = "done"]
  /\ IF writer.err
     THEN /\ conn' = "cut"
          /\ IF call = "streaming" THEN Return("error") ELSE UNCHANGED <<call, pages, pipe>>
     ELSE conn' = (IF conn = "open" THEN "ended" ELSE conn) /\ UNCHANGED <<call, pages, pipe>>
  /\ UNCHANGED <<plan, wire, server, host>>

(* A write to a pipe nobody reads fails, and so does every later one.       *)
WriterStops ==
  /\ writer.pc \in {"part", "data", "trailer"} /\ ~pipe
  /\ writer' = [writer EXCEPT !.pc = "done", !.err = TRUE]
  /\ UNCHANGED <<plan, call, pages, pipe, wire, conn, server, host>>

Writer == WriteHeader \/ WriteData \/ EndPart \/ WriteTrailer \/ ClosePipe \/ WriterStops

-----------------------------------------------------------------------------
(* The server.  Authentication precedes the body; then parts are read in   *)
(* order and spooled one by one, every failure removing all of them.       *)

(* The names a document must consist of; a collection takes any order.      *)
Expected == <<"metadata", "document">> \o [i \in DOMAIN plan.described |-> plan.described[i].name]
Position == Len(srv.got) + 1
Descriptor(pos) == plan.described[pos - 2]
Named(parts, name) == SelectSeq(parts, LAMBDA p : p.name = name)
Total(parts) == FoldLeft(LAMBDA sum, p : sum + p.size, 0, parts)
Pages(parts) == SelectSeq(parts, LAMBDA p : p.name \in {"document", "pages"})

MutantRefuse ==
  /\ tmp' = tmp \ {Position}
  /\ srv' = [srv EXCEPT !.pc = "done", !.result = "refused"] /\ reply' = "problem"
  /\ UNCHANGED <<entry, applied>>
Refuse ==
  /\ tmp' = {}
  /\ srv' = [srv EXCEPT !.pc = "done", !.result = "refused"] /\ reply' = "problem"
  /\ UNCHANGED <<entry, applied>>

Await == srv' = [srv EXCEPT !.pc = "next"]

Accept ==
  /\ srv.pc = "idle" /\ call = "streaming" /\ host = "up" /\ wire # <<>>
  /\ IF plan.token THEN Await /\ UNCHANGED <<tmp, entry, reply, applied>> ELSE Refuse
  /\ UNCHANGED <<plan, client, wire, conn, host>>

(* nextRequiredPart, or the switch on the form name of a collection part.    *)
MutantAdmissible(name) ==
  IF Collection
  THEN Len(srv.got) <= MaxItems + 1 /\ (name = "files" \/ (name = "metadata" /\ ~srv.meta))
  ELSE Position <= Len(Expected) /\ name = Expected[Position]
Admissible(name) ==
  IF Collection
  THEN Len(srv.got) < MaxItems + 1 /\ (name = "files" \/ (name = "metadata" /\ ~srv.meta))
  ELSE Position <= Len(Expected) /\ name = Expected[Position]

NextPart ==
  /\ srv.pc = "next" /\ wire # <<>> /\ Head(wire)[1] = "part"
  /\ wire' = Tail(wire)
  /\ LET name == Head(wire)[2] IN
     IF ~Admissible(name) THEN Refuse
     ELSE /\ srv' = [srv EXCEPT !.pc = "body", !.name = name, !.size = 0]
          /\ tmp' = IF name = "metadata" THEN tmp ELSE tmp \cup {Position}
          /\ UNCHANGED <<entry, reply, applied>>
  /\ UNCHANGED <<plan, client, conn, host>>

(* The limit of the part at hand: an asset's is its declared size.           *)
PartLimit ==
  IF srv.name = "assets" /\ Descriptor(Position).size < MaxPart
  THEN Descriptor(Position).size ELSE MaxPart

SpoolPart ==
  /\ srv.pc = "body" /\ wire # <<>> /\ Head(wire)[1] = "data"
  /\ wire' = Tail(wire)
  /\ IF srv.size + 1 > PartLimit THEN Refuse
     ELSE srv' = [srv EXCEPT !.size = @ + 1] /\ UNCHANGED <<tmp, entry, reply, applied>>
  /\ UNCHANGED <<plan, client, conn, host>>

(* validateDocumentDescriptors and the declared sizes of the assets.         *)
Described ==
  Collection \/ (/\ Len(plan.described) + 1 <= MaxItems
                 /\ \A i \in DOMAIN plan.described :
                      plan.described[i].name = "assets" => plan.described[i].size <= MaxPart
                 /\ Total(Named(plan.described, "assets")) <= MaxTotal)

(* What is checked of a part once it is spooled.                             *)
MutantPartFits(got) ==
  CASE srv.name = "metadata" -> Described
    [] srv.name = "files"    -> Total(Named(got, "files")) <= MaxTotal
    [] srv.name = "assets"   -> Total(Named(got, "assets")) <= MaxTotal
    [] OTHER                 -> Total(Pages(got)) <= MaxTotal
PartFits(got) ==
  CASE srv.name = "metadata" -> Described
    [] srv.name = "files"    -> Total(Named(got, "files")) <= MaxTotal
    [] srv.name = "assets"   -> /\ srv.size = Descriptor(Position).size
                                /\ Total(Named(got, "assets")) <= MaxTotal
    [] OTHER                 -> Total(Pages(got)) <= MaxTotal

PartSpooled ==
  /\ srv.pc = "body" /\ wire # <<>> /\ Head(wire)[1] \in {"part", "trailer"}
  /\ LET got == Append(srv.got, [name |-> srv.name, size |-> srv.size]) IN
     IF ~PartFits(got) THEN Refuse
     ELSE /\ srv' = [srv EXCEPT !.pc = "next", !.got = got, !.meta = @ \/ srv.name = "metadata"]
          /\ UNCHANGED <<tmp, entry, reply, applied>>
  /\ UNCHANGED <<plan, client, wire, conn, host>>

(* The final boundary: whatever follows it on the connection is not read.    *)
Complete == IF Collection THEN srv.meta /\ Len(srv.got) > 1 ELSE Position > Len(Expected)

EndOfParts ==
  /\ srv.pc = "next" /\ wire # <<>> /\ Head(wire)[1] = "trailer"
  /\ wire' = Tail(wire)
  /\ IF Complete THEN srv' = [srv EXCEPT !.pc = "operation"] /\ UNCHANGED <<tmp, entry, reply, applied>>
                 ELSE Refuse
  /\ UNCHANGED <<plan, client, conn, host>>

(* The body ends, or the connection, before the final boundary.              *)
BodyTruncated ==
  /\ srv.pc \in {"next", "body"} /\ wire = <<>> /\ conn # "open"
  /\ Refuse
  /\ UNCHANGED <<plan, client, wire, conn, host>>

-----------------------------------------------------------------------------
(* The operation reads the entry through a lazyio.Reader, in a goroutine it *)
(* may abandon when it is cancelled; the handler's cleanup closes it.       *)

ReadEntry ==
  /\ srv.pc = "operation" /\ entry.rd = "idle" /\ ~entry.closed
  /\ entry' = [entry EXCEPT !.rd = "opening"]
  /\ UNCHANGED <<plan, client, wire, conn, srv, tmp, reply, applied, host>>

(* The file is open but not yet recorded, and Close may come in between.     *)
EntryOpened ==
  /\ entry.rd = "opening"
  /\ entry' = [entry EXCEPT !.rd = IF Cardinality(tmp) > 0 THEN "opened" ELSE "failed"]
  /\ UNCHANGED <<plan, client, wire, conn, srv, tmp, reply, applied, host>>

EntryRecorded ==
  /\ entry.rd = "opened"
  /\ entry' = IF entry.closed THEN [entry EXCEPT !.rd = "failed"]
                              ELSE [entry EXCEPT !.rd = "reading", !.open = TRUE]
  /\ UNCHANGED <<plan, client, wire, conn, srv, tmp, reply, applied, host>>

(* release(true) at the end of the file; a source closed under it fails.     *)
EntryRead ==
  /\ entry.rd = "reading"
  /\ entry' = IF entry.closed THEN [entry EXCEPT !.rd = "failed"]
              ELSE [rd |-> "read", open |-> FALSE, closed |-> TRUE, eof |-> TRUE]
  /\ UNCHANGED <<plan, client, wire, conn, srv, tmp, reply, applied, host>>

Operates(result) == srv' = [srv EXCEPT !.pc = "returning", !.result = result]

OperationSucceeds ==
  /\ srv.pc = "operation" /\ (Collection \/ entry.rd = "read")
  /\ Operates("created") /\ applied' = srv.got
  /\ UNCHANGED <<plan, client, wire, conn, tmp, entry, reply, host>>

(* An error before or after it published, a cancellation, a panic.           *)
OperationFails ==
  /\ srv.pc = "operation"
  /\ \E result \in {"failed", "panicked"} : Operates(result)
  /\ applied' \in {Nothing, srv.got}
  /\ UNCHANGED <<plan, client, wire, conn, tmp, entry, reply, host>>

(* cleanup: the lazy reader is closed and every file is removed, then the    *)
(* response is written.                                                      *)
CloseEntry == entry' = [entry EXCEPT !.open = FALSE, !.closed = TRUE]
Respond ==
  /\ srv.pc = "returning"
  /\ tmp' = {} /\ CloseEntry
  /\ srv' = [srv EXCEPT !.pc = "done"]
  /\ reply' = CASE srv.result = "created" -> "created" [] srv.result = "failed" -> "problem" [] OTHER -> ""
  /\ conn' = IF srv.result = "panicked" THEN "cut" ELSE conn
  /\ UNCHANGED <<plan, client, wire, applied, host>>

Handler ==
  \/ Accept \/ NextPart \/ SpoolPart \/ PartSpooled \/ EndOfParts \/ BodyTruncated
  \/ OperationSucceeds \/ OperationFails \/ Respond
EntryReader == ReadEntry \/ EntryOpened \/ EntryRecorded \/ EntryRead

-----------------------------------------------------------------------------
(* The connection, the caller's context and the server process.             *)

(* decodeResponse and responseProblem: the transport stops sending.           *)
Receive ==
  /\ call = "streaming" /\ reply # "" /\ conn # "cut"
  /\ Return(reply) /\ reply' = ""
  /\ UNCHANGED <<plan, writer, wire, conn, srv, tmp, entry, applied, host>>

(* The connection breaks or the caller's context ends: part of what is in     *)
(* flight, and any response, is lost.                                         *)
Disconnect ==
  /\ call = "streaming" /\ conn # "cut"
  /\ conn' = "cut" /\ Return("error") /\ reply' = ""
  /\ \E n \in 0..Len(wire) : wire' = SubSeq(wire, 1, n)
  /\ UNCHANGED <<plan, writer, srv, tmp, entry, applied, host>>

(* The client notices that the server dropped the connection.                 *)
Dropped ==
  /\ call = "streaming" /\ conn = "cut"
  /\ Return("error")
  /\ UNCHANGED <<plan, writer, wire, conn, server, host>>

(* A signal: the listener closes and Shutdown waits for the handlers.         *)
Shutdown ==
  /\ host = "up" /\ host' = "stopping"
  /\ IF srv.pc = "idle" /\ call \in {"preparing", "streaming"}
     THEN conn' = "cut" /\ Return("error") /\ wire' = <<>>
     ELSE UNCHANGED <<conn, wire, call, pages, pipe>>
  /\ UNCHANGED <<plan, writer, server>>

(* Shutdown returns when they are done, or after its deadline; runServe       *)
(* returns either way and the process exits.                                  *)
Exit ==
  /\ host = "stopping" /\ host' = "down"
  /\ srv' = IF InFlight THEN [srv EXCEPT !.pc = "killed"] ELSE srv
  /\ conn' = IF InFlight THEN "cut" ELSE conn
  /\ wire' = IF InFlight THEN <<>> ELSE wire
  /\ entry' = IF InFlight THEN [entry EXCEPT !.rd = "failed", !.open = FALSE] ELSE entry
  /\ UNCHANGED <<plan, client, tmp, reply, applied>>

Next ==
  \/ Prepare \/ PrepareFails
  \/ WriteHeader \/ WriteData \/ EndPart \/ WriteTrailer \/ ClosePipe \/ WriterStops
  \/ Accept \/ NextPart \/ SpoolPart \/ PartSpooled \/ EndOfParts \/ BodyTruncated
  \/ ReadEntry \/ EntryOpened \/ EntryRecorded \/ EntryRead
  \/ OperationSucceeds \/ OperationFails \/ Respond
  \/ Receive \/ Disconnect \/ Dropped \/ Shutdown \/ Exit

Spec == Init /\ [][Next]_vars

(* The goroutines and the two ends of the connection make progress; nothing   *)
(* else is promised.                                                          *)
FairSpec == Spec /\ WF_vars(Prepare) /\ WF_vars(Writer) /\ WF_vars(Handler)
                 /\ WF_vars(EntryReader) /\ WF_vars(Receive) /\ WF_vars(Dropped)

-----------------------------------------------------------------------------
TypeOK ==
  /\ call \in {"preparing", "streaming", "created", "problem", "error"}
  /\ pages \in BOOLEAN /\ pipe \in BOOLEAN
  /\ writer.pc \in {"idle", "part", "data", "trailer", "close", "done"}
  /\ writer.part \in DOMAIN plan.sent /\ Len(wire) <= WireCap
  /\ conn \in {"open", "ended", "cut"} /\ host \in {"up", "stopping", "down"}
  /\ srv.pc \in {"idle", "next", "body", "operation", "returning", "done", "killed"}
  /\ srv.size <= MaxPart /\ Len(srv.got) <= MaxItems + 1
  /\ tmp \subseteq 1..(MaxItems + 1)
  /\ reply \in {"", "created", "problem"}

(* However a request ends while the server runs - refused at any part, cut    *)
(* off, failed, panicked or answered - nothing of it stays in the temporary   *)
(* directory, and the operation finds there every part the parser accepted,   *)
(* but the metadata, and nothing else.                                        *)
TempFilesRemoved ==
  /\ srv.pc = "done" => tmp = {}
  /\ srv.pc \in {"operation", "returning"} =>
       tmp = {i \in DOMAIN srv.got : srv.got[i].name # "metadata"}

(* The entry's file is not left open: once its reader is closed, what the     *)
(* abandoned goroutine has opened it closes itself (lazyio.Reader).           *)
NoHandleLeaked == srv.pc = "done" => ~entry.open

(* Nothing of a request that ended is left behind.                            *)
NothingLeft == TempFilesRemoved /\ NoHandleLeaked

(* The operation of a document runs only on the parts its metadata            *)
(* describes, all of them, in that order, each asset of its declared size.    *)
DocumentsComplete ==
  srv.pc = "operation" /\ ~Collection =>
    /\ [i \in DOMAIN srv.got |-> srv.got[i].name] = Expected
    /\ \A i \in DOMAIN srv.got : srv.got[i].name = "assets" => srv.got[i].size = Descriptor(i).size

(* A caller that is told of success has published something, and a document   *)
(* with exactly the parts it described; one that is refused by the parser     *)
(* has published nothing.                                                     *)
OutcomeHonest ==
  /\ call = "created" => (applied # Nothing /\ applied = srv.got)
  /\ srv.result = "refused" => applied = Nothing
  /\ call = "created" /\ ~Collection /\ ~Foreign =>
       \A i \in DOMAIN applied : applied[i].name \in {"pages", "assets"} =>
          applied[i].size = Descriptor(i).size

(* What a request leads to is what was sent, and its caller is told so.       *)
UploadHonest == DocumentsComplete /\ OutcomeHonest

(* The promise a client relies on: what is published is what its caller       *)
(* handed over, whole.                                                        *)
PublishedWhole ==
  applied # Nothing /\ ~Foreign =>
    applied = [i \in DOMAIN plan.sent |-> [name |-> plan.sent[i].name, size |-> plan.sent[i].size]]

(* No temporary file outlives the server process.                             *)
ShutdownClean == host = "down" => tmp = {}

(* The call returns, the goroutine that writes the body ends even when the    *)
(* server answers before it has read everything, and the handler ends.        *)
StreamEnded == Returned /\ writer.pc \in {"idle", "done"} /\ ~InFlight
=============================================================================
