-------------------------------- MODULE Krpc --------------------------------
(***************************************************************************)
(* One K-RPC call over HTTP: the server's goroutine that handles the       *)
(* request (util/rpc/server/endpoint.go, handleRequest), the method it     *)
(* invokes, the goroutine that writes a streaming method's results         *)
(* (service.go, Invoke), and the client that reads the response            *)
(* (util/rpc/client/client.go, Call and Reader.NextResult).                *)
(*                                                                         *)
(* The connection may break, or the server go down, at any moment: the     *)
(* client then reads some of what was written and an error.  Two           *)
(* goroutines that encode at once, which is undefined, may garble the      *)
(* response: for the client that is the same.                              *)
(***************************************************************************)
EXTENDS Naturals, Sequences

CONSTANTS
  Workload,    \* the requests that arrive
  MaxResults   \* bound: how many results a streaming method sends

Version2          == "2.0"
Version2Streaming == "2.0 streaming"

\* The body of the request as the decoder and the checks tell it apart; an id
\* that is missing is invalid too.
Request ==
  [body : {"json", "malformed", "empty"}, id : {"valid", "invalid"},
   version : {Version2, Version2Streaming, "other"},
   method : {"misformatted", "unknown", "/ServerInfo/List", "/ServerInfo/Other",
             "single", "stream"},
   params : {"valid", "invalid"}]

\* A response copies the version of its request.
Response(kind, v, value) == [kind |-> kind, version |-> v, value |-> value]

\* The k-th result of a method is k.
Result == 1 .. MaxResults
Responses == [kind : {"result", "error", "success"},
              version : {Version2, Version2Streaming, "other"}, value : Seq(Result)]

ASSUME WorkloadTyped == Workload \subseteq Request
ASSUME SomeResult == MaxResults \in Nat \ {0}

VARIABLES
  req,       \* the request
  version,   \* req.Version, which the server may downgrade
  pc,        \* handleRequest
  method,    \* the method's own code: not called, running, sending or ended
  closed,    \* whether the output channel has been closed
  writer,    \* Invoke's goroutine
  item,      \* the result it holds
  results,   \* what it collects for a request that does not stream
  outErr,    \* whether a write of it failed
  answer,    \* the response handleRequest ends with
  finished,  \* responseWriter.finished
  wire,      \* the responses written
  cut,       \* whether the connection is broken
  reach,     \* how many responses got through before
  client,    \* the reader: open, eof, error, discarding or closed
  taken,     \* how many responses it has read
  got,       \* the results it returned
  sent       \* history: the results the method produced

server == <<version, pc, answer, finished>>
invoke == <<method, closed, item, results, outErr, sent>>
net    == <<cut, reach>>
reader == <<client, taken, got>>
vars   == <<req, server, invoke, writer, wire, net, reader>>

NoAnswer == [kind |-> "none"]

Init ==
  /\ req \in Workload
  /\ version = req.version
  /\ pc = "start"
  /\ method = "none"
  /\ closed = FALSE
  /\ writer = "off"
  /\ item = 1
  /\ results = <<>>
  /\ outErr = FALSE
  /\ answer = NoAnswer
  /\ finished = FALSE
  /\ wire = <<>>
  /\ cut = FALSE
  /\ reach = 0
  /\ client = "open"
  /\ taken = 0
  /\ got = <<>>
  /\ sent = <<>>

-----------------------------------------------------------------------------
(* handleRequest up to the invocation.                                     *)

\* Mutant: the end of the input is not a case of its own.
EmptyBodyAnswered ==
  /\ pc = "start" /\ req.body = "empty"
  /\ pc' = "reply"
  /\ UNCHANGED <<req, version, answer, finished, invoke, writer, wire, net, reader>>

\* No request at all: nothing is written.
EmptyBody ==
  /\ pc = "start" /\ req.body = "empty"
  /\ pc' = "done"
  /\ UNCHANGED <<req, version, answer, finished, invoke, writer, wire, net, reader>>

Acceptable(q) ==
  q.body = "json" /\ q.id = "valid" /\ q.version \in {Version2, Version2Streaming}

\* What follows if v is the version from here on and r the last response.
ReplyWith(v, r) ==
  /\ version' = v
  /\ answer' = r
  /\ pc' = "reply"

\* Undecodable, invalid, of an unknown version or method.  The version is
\* only there to answer with once the body has been decoded.
Reject ==
  /\ pc = "start" /\ req.body # "empty"
  /\ ~Acceptable(req) \/ req.method \in {"misformatted", "unknown", "/ServerInfo/Other"}
  /\ LET v == IF req.body # "json" THEN "other"
              ELSE IF Acceptable(req) /\ req.method = "/ServerInfo/Other" THEN Version2
              ELSE req.version
     IN ReplyWith(v, Response("error", v, <<>>))
  /\ UNCHANGED <<req, finished, invoke, writer, wire, net, reader>>

\* Mutant: the version is not downgraded for the built-in service.
ListStreaming ==
  /\ pc = "start" /\ Acceptable(req) /\ req.method = "/ServerInfo/List"
  /\ method' = "ok"
  /\ sent' = <<1>>
  /\ ReplyWith(req.version, Response("result", req.version, <<1>>))
  /\ UNCHANGED <<req, finished, closed, item, results, outErr, writer, wire, net, reader>>

\* The built-in service answers by itself, never as a stream.
List ==
  /\ pc = "start" /\ Acceptable(req) /\ req.method = "/ServerInfo/List"
  /\ method' = "ok"
  /\ sent' = <<1>>
  /\ ReplyWith(Version2, Response("result", Version2, <<1>>))
  /\ UNCHANGED <<req, finished, closed, item, results, outErr, writer, wire, net, reader>>

ResolvedVersion(q) == IF q.method = "stream" THEN q.version ELSE Version2

InvalidParams ==
  /\ pc = "start" /\ Acceptable(req) /\ req.method \in {"single", "stream"}
  /\ req.params = "invalid"
  /\ ReplyWith(ResolvedVersion(req), Response("error", ResolvedVersion(req), <<>>))
  /\ UNCHANGED <<req, finished, invoke, writer, wire, net, reader>>

Invoke ==
  /\ pc = "start" /\ Acceptable(req) /\ req.method \in {"single", "stream"}
  /\ req.params = "valid"
  /\ version' = ResolvedVersion(req)
  /\ pc' = "method"
  /\ method' = "running"
  /\ writer' = IF req.method = "stream" THEN "receive" ELSE "off"
  /\ UNCHANGED <<req, answer, finished, closed, item, results, outErr, sent, wire, net, reader>>

-----------------------------------------------------------------------------
(* The method, on handleRequest's goroutine, and the writer of its results.*)

\* The method wants to send: the channel has no buffer.
StartSend ==
  /\ method = "running" /\ req.method = "stream" /\ Len(sent) < MaxResults
  /\ method' = "sending"
  /\ UNCHANGED <<req, server, closed, item, results, outErr, sent, writer, wire, net, reader>>

Receive ==
  /\ method = "sending" /\ writer = "receive"
  /\ method' = "running"
  /\ writer' = "out"
  /\ item' = Len(sent) + 1
  /\ sent' = Append(sent, Len(sent) + 1)
  /\ UNCHANGED <<req, server, closed, results, outErr, wire, net, reader>>

\* responseWriter.write lets nothing follow the end, nor a second response
\* when not streaming.
MayWrite == ~finished /\ (wire = <<>> \/ version = Version2Streaming)

Collect ==
  /\ writer = "out" /\ version = Version2
  /\ results' = Append(results, item)
  /\ writer' = "receive"
  /\ UNCHANGED <<req, server, method, closed, item, outErr, sent, wire, net, reader>>

\* After a failed write the results are taken from the channel and dropped.
Drop ==
  /\ writer = "out" /\ version = Version2Streaming
  /\ outErr \/ ~MayWrite
  /\ outErr' = TRUE
  /\ writer' = "receive"
  /\ UNCHANGED <<req, server, method, closed, item, results, sent, wire, net, reader>>

StartWrite ==
  /\ writer = "out" /\ version = Version2Streaming /\ ~outErr /\ MayWrite
  /\ writer' = "encode"
  /\ UNCHANGED <<req, server, invoke, wire, net, reader>>

WriteResult ==
  /\ writer = "encode" /\ pc # "done"
  /\ wire' = Append(wire, Response("result", version, <<item>>))
  /\ writer' = "receive"
  /\ UNCHANGED <<req, server, invoke, net, reader>>

\* Mutant: the goroutine ends with the first failed write.
WriteFailsAndStops ==
  /\ writer = "encode"
  /\ cut \/ pc = "done"
  /\ outErr' = TRUE
  /\ writer' = "off"
  /\ UNCHANGED <<req, server, method, closed, item, results, sent, wire, net, reader>>

\* Nothing can be written once the connection is broken or the response over.
WriteFails ==
  /\ writer = "encode"
  /\ cut \/ pc = "done"
  /\ outErr' = TRUE
  /\ writer' = "receive"
  /\ UNCHANGED <<req, server, method, closed, item, results, sent, wire, net, reader>>

WriterStops ==
  /\ writer = "receive" /\ closed
  /\ writer' = "off"
  /\ UNCHANGED <<req, server, invoke, wire, net, reader>>

\* Mutant: the channel stays open when the method returns.
ReturnStreamUnclosed ==
  /\ method = "running" /\ req.method = "stream"
  /\ method' \in {"ok", "error"}
  /\ pc' = "wait"
  /\ UNCHANGED <<req, version, answer, finished, closed, item, results, outErr, sent,
                 writer, wire, net, reader>>

\* A streaming method returns: the channel is closed and the writer awaited.
ReturnStream ==
  /\ method = "running" /\ req.method = "stream"
  /\ method' \in {"ok", "error"}
  /\ closed' = TRUE
  /\ pc' = "wait"
  /\ UNCHANGED <<req, version, answer, finished, item, results, outErr, sent,
                 writer, wire, net, reader>>

\* Mutant: the goroutine is not waited for.
AwaitNothing ==
  /\ pc = "wait"
  /\ ReplyWith(version,
       IF outErr \/ method = "error" THEN Response("error", version, <<>>)
       ELSE IF version = Version2 THEN Response("result", version, results)
       ELSE Response("success", version, <<>>))
  /\ UNCHANGED <<req, finished, invoke, writer, wire, net, reader>>

\* A failed write panics here, which ends in an error response like others.
Await ==
  /\ pc = "wait" /\ writer = "off"
  /\ ReplyWith(version,
       IF outErr \/ method = "error" THEN Response("error", version, <<>>)
       ELSE IF version = Version2 THEN Response("result", version, results)
       ELSE Response("success", version, <<>>))
  /\ UNCHANGED <<req, finished, invoke, writer, wire, net, reader>>

ReturnSingle ==
  /\ method = "running" /\ req.method = "single"
  /\ \/ /\ method' = "ok"
        /\ sent' = <<1>> /\ results' = <<1>>
        /\ ReplyWith(version, Response("result", version, <<1>>))
     \/ /\ method' = "error"
        /\ UNCHANGED <<sent, results>>
        /\ ReplyWith(version, Response("error", version, <<>>))
  /\ UNCHANGED <<req, finished, closed, item, outErr, writer, wire, net, reader>>

\* Mutant: the panic is logged and not answered.
PanicSwallowed ==
  /\ method = "running"
  /\ method' = "panicked"
  /\ pc' = "done"
  /\ UNCHANGED <<req, version, answer, finished, closed, item, results, outErr, sent,
                 writer, wire, net, reader>>

\* The method panics.  The recover is handleRequest's, outside Invoke: the
\* channel is not closed and the writer not awaited.
Panic ==
  /\ method = "running"
  /\ method' = "panicked"
  /\ ReplyWith(version, Response("error", version, <<>>))
  /\ UNCHANGED <<req, finished, closed, item, results, outErr, sent, writer, wire, net, reader>>

-----------------------------------------------------------------------------
(* The last response.                                                      *)

StartReply ==
  /\ pc = "reply"
  /\ pc' = IF MayWrite THEN "encode" ELSE "done"
  /\ UNCHANGED <<req, version, answer, finished, invoke, writer, wire, net, reader>>

Reply ==
  /\ pc = "encode"
  /\ wire' = Append(wire, answer)
  /\ pc' = "replied"
  /\ UNCHANGED <<req, version, answer, finished, invoke, writer, net, reader>>

\* Only now is the end noted, and the response closed.
Finish ==
  /\ pc = "replied"
  /\ finished' = (answer.kind # "result")
  /\ pc' = "done"
  /\ UNCHANGED <<req, version, answer, invoke, writer, wire, net, reader>>

ReplyFails ==
  /\ pc = "encode" /\ cut
  /\ pc' = "done"
  /\ UNCHANGED <<req, version, answer, finished, invoke, writer, wire, net, reader>>

-----------------------------------------------------------------------------
(* The connection and the client.                                          *)

Cut ==
  /\ ~cut /\ cut' = TRUE
  /\ reach' \in taken .. Len(wire)
  /\ UNCHANGED <<req, server, invoke, writer, wire, reader>>

Readable == IF cut THEN reach ELSE Len(wire)

Reading == client = "open" /\ taken < Readable

ReadError ==
  /\ Reading /\ wire[taken + 1].kind = "error"
  /\ taken' = taken + 1
  /\ client' = "error"
  /\ UNCHANGED <<req, server, invoke, writer, wire, net, got>>

\* A response of version 2 is the only one.
ReadResult ==
  /\ Reading /\ wire[taken + 1].kind = "result"
  /\ taken' = taken + 1
  /\ got' = got \o wire[taken + 1].value
  /\ client' = IF wire[taken + 1].version = Version2 THEN "eof" ELSE "open"
  /\ UNCHANGED <<req, server, invoke, writer, wire, net>>

ReadSuccess ==
  /\ Reading /\ wire[taken + 1].kind = "success"
  /\ taken' = taken + 1
  /\ client' = "eof"
  /\ UNCHANGED <<req, server, invoke, writer, wire, net, got>>

\* Nothing more will come.
Drained == taken = Readable /\ (cut \/ pc = "done")

\* Mutant: the end of the body is passed on as the end of the results.
ReadEndClean ==
  /\ client = "open" /\ Drained
  /\ client' = "eof"
  /\ UNCHANGED <<req, server, invoke, writer, wire, net, taken, got>>

\* The end of the body without an end of the results is an error.
ReadEnd ==
  /\ client = "open" /\ Drained
  /\ client' = "error"
  /\ UNCHANGED <<req, server, invoke, writer, wire, net, taken, got>>

\* The reader is closed early: it discards what is still to come.
Close ==
  /\ client = "open"
  /\ client' = "discarding"
  /\ UNCHANGED <<req, server, invoke, writer, wire, net, taken, got>>

Discarded ==
  /\ client = "discarding" /\ (cut \/ pc = "done")
  /\ client' = "closed"
  /\ UNCHANGED <<req, server, invoke, writer, wire, net, taken, got>>

-----------------------------------------------------------------------------

\* handleRequest's goroutine, in which the method runs.
HandleRequest ==
  \/ EmptyBody \/ Reject \/ List \/ InvalidParams \/ Invoke
  \/ StartSend \/ ReturnStream \/ ReturnSingle \/ Panic
  \/ Await \/ StartReply \/ Reply \/ Finish \/ ReplyFails

\* Invoke's goroutine.
Writer ==
  \/ Receive \/ Collect \/ Drop \/ StartWrite \/ WriteResult \/ WriteFails
  \/ WriterStops

NextResult == ReadError \/ ReadResult \/ ReadSuccess \/ ReadEnd \/ Discarded

Next == HandleRequest \/ Writer \/ NextResult \/ Close \/ Cut

Spec == Init /\ [][Next]_vars

\* Every goroutine that can run does, and a method sends finitely often.
FairSpec ==
  Spec /\ WF_vars(HandleRequest) /\ WF_vars(Writer) /\ WF_vars(NextResult)

-----------------------------------------------------------------------------
(* Properties.                                                             *)

TypeOK ==
  /\ req \in Workload
  /\ version \in {Version2, Version2Streaming, "other"}
  /\ pc \in {"start", "method", "wait", "reply", "encode", "replied", "done"}
  /\ method \in {"none", "running", "sending", "ok", "error", "panicked"}
  /\ closed \in BOOLEAN /\ outErr \in BOOLEAN /\ finished \in BOOLEAN /\ cut \in BOOLEAN
  /\ writer \in {"off", "receive", "out", "encode"}
  /\ item \in Result
  /\ results \in Seq(Result)
  /\ answer \in Responses \cup {NoAnswer}
  /\ wire \in Seq(Responses)
  /\ reach \in Nat /\ taken \in Nat
  /\ client \in {"open", "eof", "error", "discarding", "closed"}
  /\ got \in Seq(Result)
  /\ sent \in Seq(Result)

\* A caller that is told the results have ended has every result the method
\* produced, in order, and the method returned without an error (client.go:244,
\* "io.EOF is returned if there are no further results").
CleanEnd == client = "eof" => got = sent /\ method = "ok"

\* A method that succeeds is not reported as failed unless the connection broke:
\* client and server agree on how each kind of response ends.
NoFalseAlarm == client = "error" /\ method = "ok" => cut

Ends == {i \in 1 .. Len(wire) : wire[i].kind # "result" \/ wire[i].version = Version2}

\* A request that was handled has been told so exactly once, whatever the
\* method did, unless the connection broke (endpoint.go:155, "On a panic, write
\* error response").
OneEnd ==
  pc = "done" /\ ~cut /\ req.body # "empty" =>
    \E i \in Ends : Ends = {i}

\* A caller learns how its call ended.
CallerReturns == client = "open" ~> client # "open"

\* A method is never stuck on a result nobody takes, even when the caller is
\* gone (endpoint.go:232, the results after a failed write are dropped).
SendsComplete == method = "sending" ~> method # "sending"
=============================================================================
