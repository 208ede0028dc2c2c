----------------------------- MODULE KrpcProofs -----------------------------
(***************************************************************************)
(* Theorems about Krpc and its reading as a result stream, for every set   *)
(* of requests and every number of results.                                *)
(***************************************************************************)
EXTENDS KrpcStream, SequenceTheorems, TLAPS

LEMMA ResponseType ==
  ASSUME NEW kind \in {"result", "error", "success"},
         NEW v \in {Version2, Version2Streaming, "other"}, NEW value \in Seq(Result)
  PROVE  Response(kind, v, value) \in Responses
BY DEF Response, Responses

LEMMA OneResult == 1 \in Result /\ <<1>> \in Seq(Result) /\ <<>> \in Seq(Result)
BY SomeResult DEF Result

(***************************************************************************)
(* Type correctness.  What a method is about to send is within the bound,  *)
(* and nothing has happened before the request is read.                    *)
(***************************************************************************)

Early ==
  /\ method = "sending" => Len(sent) < MaxResults
  /\ method \in {"running", "sending"} <=> pc = "method"
  /\ pc = "start" => method = "none" /\ sent = <<>> /\ wire = <<>>
  /\ pc = "start" => writer = "off" /\ outErr = FALSE /\ version = req.version
  /\ pc \in {"reply", "encode", "replied"} => answer \in Responses
  /\ reach <= Len(wire)

LEMMA InitType == Init => TypeOK /\ Early
<1> SUFFICES ASSUME Init
             PROVE  TypeOK /\ Early
  OBVIOUS
<1>1. req \in Workload /\ version \in {Version2, Version2Streaming, "other"}
  BY WorkloadTyped DEF Init, Request
<1>2. item \in Result /\ results \in Seq(Result) /\ got \in Seq(Result) /\ sent \in Seq(Result)
  BY OneResult DEF Init
<1>3. wire \in Seq(Responses)
  BY DEF Init
<1>4. Early
  BY DEF Init, Early
<1> QED BY <1>1, <1>2, <1>3, <1>4 DEF Init, TypeOK

LEMMA StepType == TypeOK /\ Early /\ [Next]_vars => TypeOK' /\ Early'
<1> SUFFICES ASSUME TypeOK, Early, [Next]_vars
             PROVE  TypeOK' /\ Early'
  OBVIOUS
<1> req \in Request
  BY WorkloadTyped DEF TypeOK
<1>1. CASE EmptyBody
  BY <1>1 DEF EmptyBody, TypeOK, Early, invoke, net, reader
<1>2. CASE Reject
  <2> DEFINE v == IF req.body # "json" THEN "other"
                  ELSE IF Acceptable(req) /\ req.method = "/ServerInfo/Other" THEN Version2
                  ELSE req.version
  <2>1. v \in {Version2, Version2Streaming, "other"}
    BY DEF Request
  <2>2. Response("error", v, <<>>) \in Responses
    BY <2>1, ResponseType, OneResult
  <2> QED BY <1>2, <2>1, <2>2 DEF Reject, ReplyWith, TypeOK, Early, invoke, net, reader
<1>3. CASE List
  <2>1. Response("result", Version2, <<1>>) \in Responses
    BY ResponseType, OneResult
  <2> QED BY <1>3, <2>1, OneResult DEF List, ReplyWith, TypeOK, Early, net, reader
<1>4. ResolvedVersion(req) \in {Version2, Version2Streaming, "other"}
  BY DEF ResolvedVersion, Request
<1>5. CASE InvalidParams
  <2>1. Response("error", ResolvedVersion(req), <<>>) \in Responses
    BY <1>4, ResponseType, OneResult
  <2> QED BY <1>4, <1>5, <2>1 DEF InvalidParams, ReplyWith, TypeOK, Early, invoke, net, reader
<1>6. CASE Invoke
  BY <1>4, <1>6 DEF Invoke, TypeOK, Early, net, reader
<1>7. CASE StartSend
  BY <1>7 DEF StartSend, TypeOK, Early, server, net, reader
<1>8. CASE ReturnStream
  BY <1>8 DEF ReturnStream, TypeOK, Early, net, reader
<1>9. CASE ReturnSingle
  <2>1. /\ Response("result", version, <<1>>) \in Responses
        /\ Response("error", version, <<>>) \in Responses
    BY ResponseType, OneResult DEF TypeOK
  <2> QED BY <1>9, <2>1, OneResult DEF ReturnSingle, ReplyWith, TypeOK, Early, net, reader
<1>10. CASE Panic
  <2>1. Response("error", version, <<>>) \in Responses
    BY ResponseType, OneResult DEF TypeOK
  <2> QED BY <1>10, <2>1 DEF Panic, ReplyWith, TypeOK, Early, net, reader
<1>11. CASE Await
  <2>1. /\ Response("error", version, <<>>) \in Responses
        /\ Response("result", version, results) \in Responses
        /\ Response("success", version, <<>>) \in Responses
    BY ResponseType, OneResult DEF TypeOK
  <2> QED BY <1>11, <2>1 DEF Await, ReplyWith, TypeOK, Early, invoke, net, reader
<1>12. CASE StartReply
  <2>1. pc' \in {"encode", "done"}
    BY <1>12 DEF StartReply
  <2> QED BY <1>12, <2>1 DEF StartReply, TypeOK, Early, invoke, net, reader
<1>13. CASE Reply
  <2>1. wire' \in Seq(Responses)
    BY <1>13 DEF Reply, TypeOK, Early
  <2> QED BY <1>13, <2>1 DEF Reply, TypeOK, Early, invoke, net, reader
<1>14. CASE Finish
  <2>1. finished' \in BOOLEAN
    BY <1>14, Zenon DEF Finish
  <2>2. TypeOK'
    BY <1>14, <2>1 DEF Finish, TypeOK, invoke, net, reader
  <2>3. Early'
    BY <1>14 DEF Finish, Early, invoke, net
  <2> QED BY <2>2, <2>3
<1>15. CASE ReplyFails
  BY <1>15 DEF ReplyFails, TypeOK, Early, invoke, net, reader
<1>16. CASE Receive
  <2>1. Len(sent) + 1 \in Result /\ sent' \in Seq(Result)
    BY <1>16, SomeResult DEF Receive, TypeOK, Early, Result
  <2> QED BY <1>16, <2>1 DEF Receive, TypeOK, Early, server, net, reader
<1>17. CASE Collect
  <2>1. results' \in Seq(Result)
    BY <1>17 DEF Collect, TypeOK
  <2> QED BY <1>17, <2>1 DEF Collect, TypeOK, Early, server, net, reader
<1>18. CASE Drop
  BY <1>18 DEF Drop, TypeOK, Early, server, net, reader
<1>19. CASE StartWrite
  BY <1>19 DEF StartWrite, TypeOK, Early, server, invoke, net, reader
<1>20. CASE WriteResult
  <2>1. Response("result", version, <<item>>) \in Responses
    <3>1. <<item>> \in Seq(Result)
      BY DEF TypeOK
    <3>2. version \in {Version2, Version2Streaming, "other"}
      BY DEF TypeOK
    <3> QED BY <3>1, <3>2, ResponseType
  <2> QED BY <1>20, <2>1 DEF WriteResult, TypeOK, Early, server, invoke, net, reader
<1>21. CASE WriteFails
  BY <1>21 DEF WriteFails, TypeOK, Early, server, net, reader
<1>22. CASE WriterStops
  BY <1>22 DEF WriterStops, TypeOK, Early, server, invoke, net, reader
<1>23. CASE ReadError
  BY <1>23 DEF ReadError, TypeOK, Early, server, invoke, net
<1>24. CASE ReadResult
  <2>1. wire[taken + 1].value \in Seq(Result)
    <3>1. taken + 1 \in 1 .. Len(wire)
      BY <1>24 DEF ReadResult, Reading, Readable, TypeOK, Early
    <3>2. wire[taken + 1] \in Responses
      BY <3>1, ElementOfSeq DEF TypeOK
    <3> QED BY <3>2 DEF Responses
  <2>2. got' \in Seq(Result)
    <3>1. got \in Seq(Result) /\ got' = got \o wire[taken + 1].value
      BY <1>24 DEF ReadResult, TypeOK
    <3> QED BY <2>1, <3>1, ConcatProperties
  <2>3. client' \in {"eof", "open"}
    BY <1>24 DEF ReadResult
  <2> QED BY <1>24, <2>2, <2>3 DEF ReadResult, TypeOK, Early, server, invoke, net
<1>25. CASE ReadSuccess
  BY <1>25 DEF ReadSuccess, TypeOK, Early, server, invoke, net
<1>26. CASE ReadEnd
  BY <1>26 DEF ReadEnd, TypeOK, Early, server, invoke, net
<1>27. CASE Discarded
  BY <1>27 DEF Discarded, TypeOK, Early, server, invoke, net
<1>28. CASE Close
  BY <1>28 DEF Close, TypeOK, Early, server, invoke, net
<1>29. CASE Cut
  <2>1. reach' \in Nat
    BY <1>29 DEF Cut, TypeOK
  <2> QED BY <1>29, <2>1 DEF Cut, TypeOK, Early, server, invoke, reader
<1>30. CASE UNCHANGED vars
  BY <1>30 DEF vars, TypeOK, Early, server, invoke, net, reader
<1> QED
  BY <1>1, <1>2, <1>3, <1>5, <1>6, <1>7, <1>8, <1>9, <1>10, <1>11, <1>12, <1>13, <1>14,
     <1>15, <1>16, <1>17, <1>18, <1>19, <1>20, <1>21, <1>22, <1>23, <1>24, <1>25, <1>26,
     <1>27, <1>28, <1>29, <1>30
  DEF Next, HandleRequest, Writer, NextResult

\* The variables of a call always hold what they are declared for.
THEOREM TypeCorrect == Spec => []TypeOK
<1>1. Init => TypeOK /\ Early
  BY InitType
<1>2. TypeOK /\ Early /\ [Next]_vars => (TypeOK /\ Early)'
  BY StepType
<1> QED BY <1>1, <1>2, PTL DEF Spec

(***************************************************************************)
(* A clean end.  A streamed response is the method's results one by one,   *)
(* short of the one the writer holds, as long as nothing else was written; *)
(* the end of the stream and the one result of version 2 are only written  *)
(* when the method has returned and everything before is there.            *)
(***************************************************************************)

Numbered(s) == \A i \in 1 .. Len(s) : s[i] = i

Holding == writer \in {"out", "encode"}

\* The first n responses are results of a stream.
Streamed(n) ==
  \A i \in 1 .. n : wire[i].kind = "result" /\ wire[i].version = Version2Streaming

\* The method and the writer of its results.
Sending ==
  /\ Numbered(sent)
  /\ Holding => item = Len(sent)
  /\ writer # "off" => req.method = "stream" /\ method # "none"
  /\ writer = "encode" => version = Version2Streaming /\ ~outErr
  /\ pc = "wait" => method \in {"ok", "error"} /\ req.method = "stream"
  /\ method # "none" => version \in {Version2, Version2Streaming}
  /\ method # "none" /\ req.method # "stream" => version = Version2
  /\ req.method = "stream" /\ version = Version2 =>
       sent = IF Holding THEN Append(results, item) ELSE results

\* The last response, before it is written.
Answering ==
  pc \in {"reply", "encode"} =>
    /\ answer.kind = "result" =>
         /\ version = Version2 /\ answer.version = Version2
         /\ answer.value = sent /\ method = "ok"
         /\ pc = "encode" => wire = <<>>
    /\ answer.kind = "success" =>
         /\ req.method = "stream" /\ version = Version2Streaming /\ method = "ok"
         /\ writer = "off" /\ ~outErr

StreamSoFar ==
  req.method = "stream" /\ version = Version2Streaming /\ ~outErr /\ Streamed(Len(wire)) =>
    Len(sent) = Len(wire) + IF Holding THEN 1 ELSE 0

\* What response i, once written, says of the method.
Truthful(i) ==
  /\ Streamed(i) => wire[i].value = <<i>>
  /\ wire[i].kind = "result" => wire[i].version \in {Version2, Version2Streaming}
  /\ wire[i].kind = "result" /\ wire[i].version = Version2 =>
       i = 1 /\ wire[i].value = sent /\ method = "ok"
  /\ wire[i].kind = "success" =>
       method = "ok" /\ (Streamed(i - 1) => Len(sent) = i - 1)

Written == StreamSoFar /\ \A i \in 1 .. Len(wire) : Truthful(i)

Received ==
  /\ client = "open" =>
       Streamed(taken) /\ taken <= Len(wire) /\ Len(got) = taken /\ Numbered(got)
  /\ client = "eof" => got = sent /\ method = "ok"

LEMMA NumberedAppend ==
  ASSUME NEW s \in Seq(Result), Numbered(s)
  PROVE  Numbered(Append(s, Len(s) + 1))
BY DEF Numbered, Result

LEMMA NumberedEqual ==
  ASSUME NEW s \in Seq(Result), NEW t \in Seq(Result), Numbered(s), Numbered(t),
         Len(s) = Len(t)
  PROVE  s = t
BY DEF Numbered

LEMMA SendingStep ==
  ASSUME TypeOK, Early, Sending, [Next]_vars
  PROVE  Sending'
<1>1. CASE Receive
  <2>1. Numbered(sent')
    BY <1>1, NumberedAppend DEF Receive, Sending, TypeOK
  <2>2. Len(sent') = Len(sent) + 1
    BY <1>1 DEF Receive, TypeOK
  <2> QED BY <1>1, <2>1, <2>2 DEF Receive, Sending, Holding, server, TypeOK
<1>2. CASE List \/ ReturnSingle
  <2>1. Numbered(<<1>>)
    BY DEF Numbered
  <2>2. CASE List
    BY <2>1, <2>2 DEF List, ReplyWith, Sending, Early, Holding
  <2>3. CASE ReturnSingle
    BY <2>1, <2>3 DEF ReturnSingle, ReplyWith, Sending, Early, Holding
  <2> QED BY <1>2, <2>2, <2>3
<1>3. CASE EmptyBody \/ Reject \/ InvalidParams \/ Invoke
  <2>1. CASE EmptyBody
    BY <2>1 DEF EmptyBody, Sending, invoke, Holding
  <2>2. CASE Reject
    <3>1. req.method = "stream" => version' \in {version, "other"}
      BY <2>2 DEF Reject, ReplyWith, Early
    <3>2. /\ UNCHANGED <<req, method, sent, results, item, writer>>
          /\ method = "none" /\ writer = "off" /\ pc' = "reply"
      BY <2>2 DEF Reject, ReplyWith, invoke, Early
    <3> QED BY <3>1, <3>2 DEF Version2, Version2Streaming, Sending, Holding
  <2>3. CASE InvalidParams
    <3>1. req.method = "stream" => version' = version
      BY <2>3 DEF InvalidParams, ReplyWith, ResolvedVersion, Early
    <3>2. /\ UNCHANGED <<req, method, sent, results, item, writer>>
          /\ method = "none" /\ writer = "off" /\ pc' = "reply"
      BY <2>3 DEF InvalidParams, ReplyWith, invoke, Early
    <3> QED BY <3>1, <3>2 DEF Sending, Holding
  <2>4. CASE Invoke
    <3>1. /\ version' \in {Version2, Version2Streaming}
          /\ IF req.method = "stream" THEN version' = version ELSE version' = Version2
      BY <2>4 DEF Invoke, ResolvedVersion, Acceptable, Early
    <3>2. /\ UNCHANGED <<req, sent, results, item>>
          /\ method' = "running" /\ writer = "off" /\ pc' = "method"
          /\ IF req.method = "stream" THEN writer' = "receive" ELSE writer' = "off"
      BY <2>4 DEF Invoke, Early
    <3> QED BY <3>1, <3>2 DEF Sending, Holding
  <2> QED BY <1>3, <2>1, <2>2, <2>3, <2>4
<1>4. CASE StartSend \/ ReturnStream \/ Panic
  BY <1>4 DEF StartSend, ReturnStream, Panic, ReplyWith, Sending, Early, server, Holding
<1>5. CASE Await \/ StartReply \/ Reply \/ Finish \/ ReplyFails
  BY <1>5 DEF Await, ReplyWith, StartReply, Reply, Finish, ReplyFails, Sending, invoke, Holding
<1>6. CASE Collect
  BY <1>6 DEF Collect, Sending, server, Holding
<1>7. CASE Drop
  <2>1. version = Version2Streaming /\ writer = "out" /\ writer' = "receive"
    BY <1>7 DEF Drop
  <2>2. UNCHANGED <<req, version, pc, method, item, results, sent>>
    BY <1>7 DEF Drop, server
  <2> QED BY <2>1, <2>2 DEF Version2, Version2Streaming, Sending, Holding
<1>8. CASE StartWrite
  BY <1>8 DEF Version2, Version2Streaming, StartWrite, Sending, server, invoke, Holding
<1>9. CASE WriteResult \/ WriteFails \/ WriterStops
  <2>1. UNCHANGED <<req, version, pc, method, item, results, sent>>
    BY <1>9 DEF WriteResult, WriteFails, WriterStops, server, invoke
  <2>2. writer' \in {"receive", "off"} /\ (writer' = "receive" => writer # "off")
    BY <1>9 DEF WriteResult, WriteFails, WriterStops
  <2>3. writer = "encode" \/ writer = "receive"
    BY <1>9 DEF WriteResult, WriteFails, WriterStops
  <2> QED BY <2>1, <2>2, <2>3 DEF Version2, Version2Streaming, Sending, Holding
<1>10. CASE NextResult \/ Close \/ Cut \/ UNCHANGED vars
  BY <1>10 DEF NextResult, ReadError, ReadResult, ReadSuccess, ReadEnd, Discarded, Close, Cut,
              vars, Sending, server, invoke, Holding
<1> QED
  BY <1>1, <1>2, <1>3, <1>4, <1>5, <1>6, <1>7, <1>8, <1>9, <1>10
  DEF Next, HandleRequest, Writer

LEMMA AnsweringStep ==
  ASSUME TypeOK, Early, Sending, Answering, [Next]_vars
  PROVE  Answering'
<1>1. CASE pc' \notin {"reply", "encode"}
  BY <1>1 DEF Answering
<1>2. CASE Reject \/ InvalidParams \/ Panic
  <2>1. answer'.kind = "error"
    BY <1>2 DEF Reject, InvalidParams, Panic, ReplyWith, Response
  <2> QED BY <2>1 DEF Answering
<1>3. CASE List \/ ReturnSingle
  <2>1. pc' = "reply" /\ answer'.kind # "success"
    BY <1>3 DEF List, ReturnSingle, ReplyWith, Response
  <2>2. ASSUME answer'.kind = "result"
        PROVE  /\ version' = Version2 /\ answer'.version = Version2
               /\ answer'.value = sent' /\ method' = "ok"
    <3>1. CASE List
      BY <3>1 DEF List, ReplyWith, Response
    <3>2. CASE ReturnSingle
      BY <2>2, <3>2 DEF ReturnSingle, ReplyWith, Response, Sending
    <3> QED BY <1>3, <3>1, <3>2
  <2> QED BY <2>1, <2>2 DEF Answering
<1>4. CASE Await
  <2>1. /\ pc' = "reply" /\ version' = version
        /\ UNCHANGED <<req, sent, method, writer, outErr>>
        /\ pc = "wait" /\ writer = "off"
    BY <1>4 DEF Await, ReplyWith, invoke
  <2>2. answer'.kind = "result" => /\ version = Version2 /\ method # "error"
                                   /\ answer' = Response("result", version, results)
    BY <1>4 DEF Await, ReplyWith, Response
  <2>3. answer'.kind = "success" => version # Version2 /\ method # "error" /\ ~outErr
    BY <1>4 DEF Await, ReplyWith, Response
  <2>4. answer'.kind = "result" => sent = results
    BY <2>1, <2>2 DEF Sending, Holding
  <2>5. answer'.kind = "result" =>
          /\ version' = Version2 /\ answer'.version = Version2
          /\ answer'.value = sent' /\ method' = "ok"
    BY <2>1, <2>2, <2>4 DEF Sending, Response
  <2>6. answer'.kind = "success" =>
         /\ req'.method = "stream" /\ version' = Version2Streaming /\ method' = "ok"
         /\ writer' = "off" /\ ~outErr'
    BY <2>1, <2>3 DEF Sending
  <2> QED BY <2>1, <2>5, <2>6 DEF Answering
<1>5. CASE StartReply
  <2>1. answer.kind = "result" /\ pc' = "encode" => wire = <<>>
    BY <1>5 DEF StartReply, MayWrite, Answering, Version2, Version2Streaming
  <2> QED BY <1>5, <2>1 DEF StartReply, Answering, invoke
<1>6. CASE WriteResult
  <2>1. answer.kind # "result" \/ pc \notin {"reply", "encode"}
    BY <1>6 DEF WriteResult, Sending, Answering, Version2, Version2Streaming
  <2>2. answer.kind # "success" \/ pc \notin {"reply", "encode"}
    BY <1>6 DEF WriteResult, Answering
  <2> QED BY <1>6, <2>1, <2>2 DEF WriteResult, Answering, server, invoke
<1>7. CASE Writer /\ ~WriteResult
  <2>1. UNCHANGED <<req, pc, version, answer, wire>> /\ writer # "off"
    BY <1>7 DEF Writer, Receive, Collect, Drop, StartWrite, WriteFails, WriterStops, server
  <2>2. sent' = sent \/ method = "sending"
    BY <1>7 DEF Writer, Receive, Collect, Drop, StartWrite, WriteFails, WriterStops, invoke
  <2>3. method' = method \/ method = "sending"
    BY <1>7 DEF Writer, Receive, Collect, Drop, StartWrite, WriteFails, WriterStops, invoke
  <2> QED BY <2>1, <2>2, <2>3 DEF Answering
<1>8. CASE NextResult \/ Close \/ Cut \/ UNCHANGED vars
  BY <1>8 DEF NextResult, ReadError, ReadResult, ReadSuccess, ReadEnd, Discarded, Close, Cut,
              vars, Answering, server, invoke
<1>9. CASE EmptyBody \/ Invoke \/ StartSend \/ ReturnStream \/ Reply \/ Finish \/ ReplyFails
  <2>1. pc' \notin {"reply", "encode"}
    BY <1>9 DEF EmptyBody, Invoke, StartSend, ReturnStream, Reply, Finish, ReplyFails,
           Early, server
  <2> QED BY <1>1, <2>1
<1> QED
  BY <1>2, <1>3, <1>4, <1>5, <1>6, <1>7, <1>8, <1>9 DEF Next, HandleRequest

\* What is written stays.
LEMMA WireGrows ==
  ASSUME TypeOK, Early, [Next]_vars
  PROVE  /\ wire' \in Seq(Responses) /\ Len(wire') >= Len(wire)
         /\ \A k \in 1 .. Len(wire) : wire'[k] = wire[k]
         /\ \A n \in 0 .. Len(wire) : Streamed(n)' = Streamed(n)
<1>1. wire' = wire \/ \E r \in Responses : wire' = Append(wire, r)
  <2>1. CASE Reply
    BY <2>1 DEF Reply, Early
  <2>2. CASE WriteResult
    <3>1. <<item>> \in Seq(Result) /\ version \in {Version2, Version2Streaming, "other"}
      BY DEF TypeOK
    <3>2. Response("result", version, <<item>>) \in Responses
      BY <3>1, ResponseType
    <3> QED BY <2>2, <3>2 DEF WriteResult
  <2>3. CASE ~Reply /\ ~WriteResult
    BY <2>3 DEF Next, HandleRequest, Writer, NextResult, EmptyBody, Reject, List, InvalidParams,
      Invoke, StartSend, ReturnStream, ReturnSingle, Panic, Await, StartReply, Finish, ReplyFails,
      Receive, Collect, Drop, StartWrite, WriteFails, WriterStops, ReadError, ReadResult,
      ReadSuccess, ReadEnd, Discarded, Close, Cut, vars
  <2> QED BY <2>1, <2>2, <2>3
<1>2. wire \in Seq(Responses)
  BY DEF TypeOK
<1>3. /\ wire' \in Seq(Responses) /\ Len(wire') >= Len(wire)
      /\ \A k \in 1 .. Len(wire) : wire'[k] = wire[k]
  BY <1>1, <1>2
<1>4. \A n \in 0 .. Len(wire) : Streamed(n)' = Streamed(n)
  BY <1>2, <1>3 DEF Streamed
<1> QED BY <1>3, <1>4

\* A method that has succeeded produces nothing more.
LEMMA OutcomeFinal ==
  ASSUME Early, [Next]_vars, method = "ok"
  PROVE  UNCHANGED <<method, sent>>
BY DEF Next, HandleRequest, Writer, NextResult, EmptyBody, Reject, List, InvalidParams,
     Invoke, StartSend, ReturnStream, ReturnSingle, Panic, Await, StartReply, Finish, ReplyFails,
     Receive, Collect, Drop, StartWrite, WriteFails, WriterStops, ReadError, ReadResult,
     ReadSuccess, ReadEnd, Discarded, Close, Cut, vars, invoke, Early, Reply, WriteResult

\* What a response says is over when it is written.
LEMMA TruthKept ==
  ASSUME TypeOK, Early, [Next]_vars, NEW i \in 1 .. Len(wire), Truthful(i)
  PROVE  Truthful(i)'
<1>1. method = "ok" => UNCHANGED <<method, sent>>
  BY OutcomeFinal
<1>2. Len(wire) \in Nat
  BY DEF TypeOK
<1>3. wire'[i] = wire[i] /\ Streamed(i)' = Streamed(i) /\ Streamed(i - 1)' = Streamed(i - 1)
  BY <1>2, WireGrows
<1> QED BY <1>1, <1>3 DEF Truthful

\* A stream keeps pace with the method, until a write fails or something ends it.
LEMMA StreamSoFarStep ==
  ASSUME TypeOK, Early, Sending, Answering, StreamSoFar, [Next]_vars
  PROVE  StreamSoFar'
<1> req \in Request /\ wire \in Seq(Responses) /\ sent \in Seq(Result)
  BY WorkloadTyped DEF TypeOK
<1>1. CASE Receive
  <2>1. Len(sent') = Len(sent) + 1 /\ Holding' /\ ~Holding
    BY <1>1 DEF Receive, Holding
  <2>2. UNCHANGED <<req, version, outErr, wire>>
    BY <1>1 DEF Receive, server
  <2> QED BY <2>1, <2>2 DEF StreamSoFar, Streamed
<1>2. CASE WriteResult
  <2>1. Len(wire') = Len(wire) + 1 /\ \A k \in 1 .. Len(wire) : wire'[k] = wire[k]
    BY <1>2 DEF WriteResult
  <2>2. Streamed(Len(wire))' => Streamed(Len(wire))
    BY <2>1 DEF Streamed
  <2>3. Holding /\ ~Holding' /\ UNCHANGED <<req, version, outErr, sent>>
    BY <1>2 DEF WriteResult, Holding, server, invoke
  <2> QED BY <2>1, <2>2, <2>3 DEF StreamSoFar
<1>3. CASE Reply
  <2>1. Len(wire') = Len(wire) + 1 /\ wire'[Len(wire')] = answer
    BY <1>3 DEF Reply, Early
  <2>2. CASE version # Version2Streaming
    BY <1>3, <2>2 DEF Reply, StreamSoFar, invoke
  <2>3. CASE version = Version2Streaming
    <3>1. answer.kind # "result"
      BY <1>3, <2>3 DEF Reply, Answering, Version2, Version2Streaming
    <3> QED BY <2>1, <3>1 DEF StreamSoFar, Streamed
  <2> QED BY <2>2, <2>3
<1>4. CASE List \/ ReturnSingle
  <2>1. req'.method # "stream"
    BY <1>4 DEF List, ReturnSingle
  <2> QED BY <2>1 DEF StreamSoFar
<1>5. CASE Reject \/ InvalidParams \/ Invoke
  <2>1. sent' = <<>> /\ wire' = <<>>
    BY <1>5 DEF Reject, InvalidParams, Invoke, Early, invoke
  <2>2. writer' \in {"off", "receive"}
    BY <1>5 DEF Reject, InvalidParams, Invoke, Early
  <2> QED BY <2>1, <2>2 DEF StreamSoFar, Holding
<1>6. CASE Drop \/ WriteFails
  BY <1>6 DEF Drop, WriteFails, StreamSoFar
<1>7. CASE Collect
  <2>1. version' = Version2
    BY <1>7 DEF Collect, server
  <2> QED BY <2>1 DEF StreamSoFar, Version2, Version2Streaming
<1>8. CASE StartWrite \/ WriterStops
  <2>1. UNCHANGED <<req, version, outErr, wire, sent>> /\ Holding' = Holding
    BY <1>8 DEF StartWrite, WriterStops, server, invoke, Holding
  <2> QED BY <2>1 DEF StreamSoFar, Streamed
<1>9. CASE \/ EmptyBody \/ StartSend \/ ReturnStream \/ Panic \/ Await \/ StartReply \/ Finish
           \/ ReplyFails \/ NextResult \/ Close \/ Cut \/ UNCHANGED vars
  <2>1. UNCHANGED <<req, version, outErr, wire, sent, writer>>
    BY <1>9 DEF EmptyBody, StartSend, ReturnStream, Panic, Await, ReplyWith, StartReply, Finish,
      ReplyFails, NextResult, ReadError, ReadResult, ReadSuccess, ReadEnd, Discarded, Close, Cut,
      vars, server, invoke
  <2> QED BY <2>1 DEF StreamSoFar, Streamed, Holding
<1> QED
  BY <1>1, <1>2, <1>3, <1>4, <1>5, <1>6, <1>7, <1>8, <1>9 DEF Next, HandleRequest, Writer

LEMMA WrittenStep ==
  ASSUME TypeOK, Early, Sending, Answering, Written, [Next]_vars
  PROVE  Written'
<1> wire \in Seq(Responses) /\ sent \in Seq(Result)
  BY DEF TypeOK
<1>1. StreamSoFar'
  BY StreamSoFarStep DEF Written
<1>2. \A i \in 1 .. Len(wire) : Truthful(i)'
  BY TruthKept DEF Written
<1>3. CASE wire' = wire
  BY <1>1, <1>2, <1>3 DEF Written
<1> PICK n \in Nat : n = Len(wire) + 1
  OBVIOUS
<1>4. ASSUME wire' = Append(wire, wire'[n]), Truthful(n)'
      PROVE  Written'
  <2>1. Len(wire') = n
    BY <1>4
  <2>2. \A i \in 1 .. n : i \in 1 .. Len(wire) \/ i = n
    OBVIOUS
  <2> QED BY <1>1, <1>2, <1>4, <2>1, <2>2 DEF Written
<1>5. CASE WriteResult
  <2>1. wire' = Append(wire, wire'[n]) /\ wire'[n] = Response("result", version, <<item>>)
    BY <1>5 DEF WriteResult
  <2>2. wire'[n].kind = "result" /\ wire'[n].version = version /\ wire'[n].value = <<item>>
    BY <2>1 DEF Response
  <2>3. Streamed(n)' => Streamed(Len(wire))
    BY <2>1 DEF Streamed
  <2>4. Streamed(Len(wire)) => item = n
    BY <1>5 DEF WriteResult, Sending, Holding, Written, StreamSoFar
  <2>5. version = Version2Streaming
    BY <1>5 DEF WriteResult, Sending
  <2>6. Truthful(n)'
    BY <2>2, <2>3, <2>4, <2>5 DEF Truthful, Version2, Version2Streaming
  <2> QED BY <1>4, <2>1, <2>6
<1>6. CASE Reply
  <2>1. wire' = Append(wire, wire'[n]) /\ wire'[n] = answer
    BY <1>6 DEF Reply
  <2>2. UNCHANGED <<version, method, sent>> /\ pc = "encode"
    BY <1>6 DEF Reply, invoke
  <2>3. Streamed(n - 1)' => Streamed(Len(wire))
    BY <2>1 DEF Streamed
  <2>4. Streamed(n)' => answer.kind = "result" /\ answer.version = Version2Streaming
    BY <2>1 DEF Streamed
  <2>5. answer.kind = "result" => /\ wire = <<>> /\ method = "ok" /\ answer.value = sent
                                  /\ answer.version = Version2
    BY <2>2 DEF Answering
  <2>6. answer.kind = "success" => method = "ok" /\ (Streamed(Len(wire)) => Len(sent) = Len(wire))
    BY <2>2 DEF Answering, Written, StreamSoFar, Holding
  <2>7. ~Streamed(n)'
    BY <2>4, <2>5 DEF Version2, Version2Streaming
  <2>8. Truthful(n)'
    BY <2>1, <2>2, <2>3, <2>5, <2>6, <2>7 DEF Truthful
  <2> QED BY <1>4, <2>1, <2>8
<1>7. CASE ~Reply /\ ~WriteResult
  <2>1. wire' = wire
    BY <1>7 DEF Next, HandleRequest, Writer, NextResult, EmptyBody, Reject, List, InvalidParams,
      Invoke, StartSend, ReturnStream, ReturnSingle, Panic, Await, StartReply, Finish, ReplyFails,
      Receive, Collect, Drop, StartWrite, WriteFails, WriterStops, ReadError, ReadResult,
      ReadSuccess, ReadEnd, Discarded, Close, Cut, vars
  <2> QED BY <1>3, <2>1
<1> QED BY <1>5, <1>6, <1>7

LEMMA ReceivedStep ==
  ASSUME TypeOK, Early, Sending, Answering, Written, Received, [Next]_vars
  PROVE  Received'
<1> wire \in Seq(Responses) /\ sent \in Seq(Result) /\ got \in Seq(Result)
  BY DEF TypeOK
<1> taken \in Nat /\ reach \in Nat
  BY DEF TypeOK
<1> USE DEF Received
<1>1. ASSUME Reading
      PROVE  taken + 1 \in 1 .. Len(wire) /\ Truthful(taken + 1) /\ wire[taken + 1] \in Responses
  BY <1>1 DEF Reading, Readable, Early, Written
<1>2. CASE ReadSuccess
  <2>1. Streamed(taken) /\ Truthful(taken + 1) /\ wire[taken + 1].kind = "success"
    BY <1>1, <1>2 DEF ReadSuccess, Reading
  <2>2. Len(sent) = taken /\ method = "ok"
    BY <2>1 DEF Truthful
  <2>3. got = sent
    BY <1>2, <2>2, NumberedEqual DEF ReadSuccess, Reading, Sending
  <2> QED BY <1>2, <2>2, <2>3 DEF ReadSuccess, invoke
<1>3. CASE ReadResult
  <2> DEFINE r == wire[taken + 1]
  <2>1. /\ Streamed(taken) /\ Truthful(taken + 1) /\ r.kind = "result" /\ r \in Responses
        /\ Len(got) = taken /\ Numbered(got) /\ taken + 1 \in 1 .. Len(wire)
    BY <1>1, <1>3 DEF ReadResult, Reading
  <2>2. UNCHANGED <<wire, sent, method>> /\ got' = got \o r.value /\ taken' = taken + 1
    BY <1>3 DEF ReadResult, invoke
  <2>3. CASE r.version = Version2
    <3>1. taken + 1 = 1 /\ r.value = sent /\ method = "ok"
      BY <2>1, <2>3 DEF Truthful
    <3>2. got = <<>>
      BY <2>1, <3>1
    <3>3. got' = sent
      BY <2>2, <3>1, <3>2
    <3> QED BY <1>3, <2>2, <2>3, <3>1, <3>3 DEF ReadResult
  <2>4. CASE r.version = Version2Streaming
    <3>1. Streamed(taken + 1)
      BY <2>1, <2>4 DEF Streamed
    <3>2. r.value = <<Len(got) + 1>>
      BY <2>1, <3>1 DEF Truthful
    <3>3. got' = Append(got, Len(got) + 1)
      <4>1. r.value \in Seq(Result)
        BY <2>1 DEF Responses
      <4>2. Len(got) + 1 \in Result
        BY <3>2, <4>1
      <4> QED BY <2>2, <3>2, <4>2, AppendIsConcat
    <3>4. Numbered(got')
      BY <2>1, <3>3, NumberedAppend
    <3>5. Streamed(taken)'
      BY <2>2, <3>1 DEF Streamed
    <3>6. client' = "open"
      BY <1>3, <2>4 DEF ReadResult, Version2, Version2Streaming
    <3>7. taken' <= Len(wire') /\ Len(got') = taken'
      <4>1. Len(got') = Len(got) + 1
        BY <3>3
      <4> QED BY <2>1, <2>2, <4>1
    <3> QED BY <3>4, <3>5, <3>6, <3>7
  <2> QED BY <2>1, <2>3, <2>4 DEF Truthful
<1>4. CASE ReadError \/ ReadEnd \/ Discarded \/ Close
  BY <1>4 DEF ReadError, ReadEnd, Discarded, Close, invoke
<1>5. CASE HandleRequest \/ Writer \/ Cut \/ UNCHANGED vars
  <2>1. UNCHANGED reader
    BY <1>5 DEF HandleRequest, Writer, EmptyBody, Reject, List, InvalidParams,
      Invoke, StartSend, ReturnStream, ReturnSingle, Panic, Await, StartReply, Reply, Finish,
      ReplyFails, Receive, Collect, Drop, StartWrite, WriteResult, WriteFails, WriterStops, Cut,
      vars
  <2>2. CASE client = "open"
    <3>1. taken <= Len(wire) /\ Streamed(taken) /\ taken' = taken
      BY <2>1, <2>2 DEF reader
    <3>2. /\ Len(wire) <= Len(wire') /\ Len(wire) \in Nat /\ Len(wire') \in Nat
          /\ \A k \in 1 .. Len(wire) : wire'[k] = wire[k]
      BY WireGrows
    <3>3. taken' <= Len(wire') /\ Streamed(taken)'
      BY <3>1, <3>2 DEF Streamed
    <3>4. UNCHANGED <<client, got>>
      BY <2>1 DEF reader
    <3> QED BY <2>2, <3>1, <3>3, <3>4
  <2>3. CASE client # "open"
    <3>1. UNCHANGED <<client, got>>
      BY <2>1 DEF reader
    <3>2. method = "ok" => UNCHANGED <<method, sent>>
      BY <1>5, OutcomeFinal
    <3> QED BY <2>3, <3>1, <3>2
  <2> QED BY <2>2, <2>3
<1> QED BY <1>2, <1>3, <1>4, <1>5 DEF Next, NextResult

(***************************************************************************)
(* How a call ends.                                                        *)
(***************************************************************************)

Over == pc \in {"replied", "done"}

\* A response ends the others once handleRequest has written its own, and only
\* then; an error that is not the method's is a broken connection's.
Ended ==
  /\ finished => pc = "done"
  /\ method # "none" => req.body = "json"
  /\ outErr => cut \/ pc = "done"
  /\ ~Over => Ends = {} /\ (version # Version2Streaming => wire = <<>>)
  /\ pc \in {"reply", "encode"} /\ answer.kind = "error" /\ method = "ok" => cut
  /\ \A i \in 1 .. Len(wire) : wire[i].kind = "error" /\ method = "ok" => cut
  /\ pc = "replied" \/ (pc = "done" /\ ~cut /\ req.body # "empty") => \E i \in Ends : Ends = {i}

\* A caller is only told of a failure once a last response is written, or the
\* connection is broken.
Alarmed ==
  client = "error" => Over \/ cut

LEMMA EndsAppend ==
  ASSUME TypeOK, NEW r, wire' = Append(wire, r)
  PROVE  Ends' = IF r.kind # "result" \/ r.version = Version2
                 THEN Ends \cup {Len(wire) + 1} ELSE Ends
<1> DEFINE n == Len(wire) + 1
<1>1. /\ wire \in Seq(Responses) /\ Len(wire') = n
      /\ \A k \in 1 .. Len(wire) : wire'[k] = wire[k]
      /\ wire'[n] = r
  BY DEF TypeOK
<1>2. \A k : k \in 1 .. n <=> k \in 1 .. Len(wire) \/ k = n
  BY <1>1
<1>3. n \notin 1 .. Len(wire)
  BY <1>1
<1> QED BY <1>1, <1>2, <1>3 DEF Ends

LEMMA EndsKept ==
  ASSUME UNCHANGED wire
  PROVE  Ends' = Ends
BY DEF Ends

\* A method that has returned, or was not called, is over.
LEMMA MethodOver ==
  ASSUME Early, [Next]_vars, pc \notin {"start", "method"}
  PROVE  UNCHANGED <<method, sent>>
BY DEF Next, HandleRequest, Writer, NextResult, EmptyBody, Reject, List, InvalidParams,
     Invoke, StartSend, ReturnStream, ReturnSingle, Panic, Await, StartReply, Finish, ReplyFails,
     Receive, Collect, Drop, StartWrite, WriteFails, WriterStops, ReadError, ReadResult,
     ReadSuccess, ReadEnd, Discarded, Close, Cut, vars, invoke, Early, Reply, WriteResult

LEMMA EndedStep ==
  ASSUME TypeOK, Early, Sending, Answering, Ended, [Next]_vars
  PROVE  Ended'
<1> req \in Request /\ wire \in Seq(Responses)
  BY WorkloadTyped DEF TypeOK
<1> USE DEF Over
<1>1. CASE EmptyBody
  <2>1. pc' = "done" /\ wire' = <<>> /\ method' = "none" /\ req'.body = "empty" /\ outErr' = FALSE
    BY <1>1 DEF EmptyBody, invoke, Early
  <2>2. UNCHANGED <<finished, wire>>
    BY <1>1 DEF EmptyBody, invoke, Early
  <2> QED BY <2>1, <2>2 DEF Ended
<1>2. CASE Reject \/ List \/ InvalidParams
  <2>1. /\ pc = "start" /\ pc' = "reply" /\ wire' = <<>> /\ outErr' = FALSE
        /\ UNCHANGED <<finished, wire>> /\ (method' # "none" => req'.body = "json")
    BY <1>2 DEF Acceptable, Reject, List, InvalidParams, ReplyWith, invoke, Early
  <2>2. answer'.kind # "error" \/ method' # "ok"
    BY <1>2 DEF Reject, List, InvalidParams, ReplyWith, Response, invoke, Early
  <2>3. Ends' = {}
    BY <2>1 DEF Ends
  <2> QED BY <2>1, <2>2, <2>3 DEF Ended
<1>3. CASE Invoke
  <2>1. /\ pc = "start" /\ pc' = "method" /\ wire' = <<>> /\ outErr' = FALSE
        /\ UNCHANGED <<finished, wire>> /\ req'.body = "json"
    BY <1>3 DEF Acceptable, Invoke, Early
  <2>3. Ends' = {}
    BY <2>1 DEF Ends
  <2> QED BY <2>1, <2>3 DEF Ended
<1>4. CASE StartSend \/ ReturnStream \/ ReturnSingle \/ Panic \/ Await \/ Receive
  <2>1. /\ pc \in {"method", "wait"} /\ pc' \in {"method", "wait", "reply"}
        /\ UNCHANGED <<req, version, wire, cut, finished, outErr>> /\ method # "none"
    BY <1>4 DEF Sending, StartSend, ReturnStream, ReturnSingle, Panic, Await, Receive, ReplyWith, server,
       invoke, net, Early
  <2>2. pc' = "reply" /\ answer'.kind = "error" /\ method' = "ok" => outErr
    <3>1. CASE Await
      BY <3>1 DEF Await, ReplyWith, Response, invoke
    <3>2. CASE ReturnSingle \/ Panic
      BY <3>2 DEF ReturnSingle, Panic, ReplyWith, Response
    <3>3. CASE StartSend \/ ReturnStream \/ Receive
      BY <3>3, <2>1 DEF StartSend, ReturnStream, Receive, server
    <3> QED BY <1>4, <3>1, <3>2, <3>3
  <2>3. \A i \in 1 .. Len(wire) : wire[i].kind # "error"
    BY <2>1 DEF Ended, Ends
  <2>4. Ends' = {}
    BY <2>1, EndsKept DEF Ended
  <2> QED BY <2>1, <2>2, <2>3, <2>4 DEF Ended
<1>5. CASE StartReply
  <2>1. /\ pc = "reply" /\ UNCHANGED <<req, version, wire, cut, finished, outErr, answer, method>>
    BY <1>5 DEF StartReply, net, invoke
  <2>2. pc' = "encode"
    BY <1>5 DEF StartReply, MayWrite, Ended
  <2> QED BY <2>1, <2>2, EndsKept DEF Ended
<1>6. CASE Reply
  <2>1. /\ pc = "encode" /\ pc' = "replied" /\ wire' = Append(wire, answer) /\ answer \in Responses
        /\ UNCHANGED <<req, version, cut, finished, outErr, answer, method>>
    BY <1>6 DEF Reply, net, invoke, Early
  <2>2. answer.kind # "result" \/ answer.version = Version2
    BY <2>1 DEF Answering
  <2>3. Ends' = {Len(wire) + 1}
    BY <2>1, <2>2, EndsAppend DEF Ended
  <2>4. \A i \in 1 .. Len(wire') : wire'[i] = answer \/ (i \in 1 .. Len(wire) /\ wire'[i] = wire[i])
    BY <2>1
  <2> QED BY <2>1, <2>3, <2>4 DEF Ended
<1>7. CASE Finish \/ ReplyFails
  <2>1. /\ pc \in {"encode", "replied"} /\ pc' = "done" /\ (pc = "encode" => cut)
        /\ UNCHANGED <<req, wire, cut, outErr, method>>
    BY <1>7 DEF Finish, ReplyFails, net, invoke
  <2> QED BY <2>1, EndsKept DEF Ended
<1>8. CASE Drop \/ WriteFails
  <2>1. UNCHANGED <<req, version, pc, answer, finished, wire, cut, method>>
    BY <1>8 DEF Drop, WriteFails, server, net
  <2>2. cut \/ pc = "done"
    BY <1>8 DEF Drop, WriteFails, MayWrite, Ended
  <2> QED BY <2>1, <2>2, EndsKept DEF Ended
<1>9. CASE WriteResult
  <2>1. /\ wire' = Append(wire, Response("result", version, <<item>>)) /\ pc # "done"
        /\ version = Version2Streaming
        /\ UNCHANGED <<req, version, pc, answer, finished, outErr, cut, method>>
    BY <1>9 DEF WriteResult, Sending, server, net, invoke
  <2>2. Ends' = Ends
    <3>1. PICK r : wire' = Append(wire, r) /\ r.kind = "result" /\ r.version = version
      BY <2>1 DEF Response
    <3> QED BY <2>1, <3>1, EndsAppend DEF Version2, Version2Streaming
  <2>3. \A i \in 1 .. Len(wire') :
          wire'[i].kind = "result" \/ (i \in 1 .. Len(wire) /\ wire'[i] = wire[i])
    BY <2>1 DEF Response
  <2> QED BY <2>1, <2>2, <2>3 DEF Ended
<1>10. CASE Collect \/ StartWrite \/ WriterStops \/ NextResult \/ Close \/ UNCHANGED vars
  <2>1. UNCHANGED <<req, version, pc, answer, finished, wire, cut, method, outErr>>
    BY <1>10 DEF Collect, StartWrite, WriterStops, NextResult, ReadError, ReadResult, ReadSuccess,
       ReadEnd, Discarded, Close, vars, server, net, invoke
  <2> QED BY <2>1, EndsKept DEF Ended
<1>11. CASE Cut
  <2>1. UNCHANGED <<req, version, pc, answer, finished, wire, method, outErr>> /\ cut' = TRUE
    BY <1>11 DEF Cut, server, invoke
  <2> QED BY <2>1, EndsKept DEF Ended
<1> QED
  BY <1>1, <1>2, <1>3, <1>4, <1>5, <1>6, <1>7, <1>8, <1>9, <1>10, <1>11
  DEF Next, HandleRequest, Writer

LEMMA AlarmStep ==
  ASSUME TypeOK, Early, Sending, Answering, Received, Ended, Alarmed, NoFalseAlarm, [Next]_vars
  PROVE  Alarmed' /\ NoFalseAlarm'
<1> wire \in Seq(Responses) /\ taken \in Nat /\ reach \in Nat
  BY DEF TypeOK
<1>1. ASSUME Over PROVE Over' /\ UNCHANGED method
  <2>1. UNCHANGED method
    BY <1>1, MethodOver DEF Over
  <2>2. Over'
    BY <1>1 DEF Over, Next, HandleRequest, Writer, NextResult, EmptyBody, Reject, List,
     InvalidParams, Invoke, StartSend, ReturnStream, ReturnSingle, Panic, Await, StartReply, Finish,
     ReplyFails, Receive, Collect, Drop, StartWrite, WriteFails, WriterStops, ReadError, ReadResult,
     ReadSuccess, ReadEnd, Discarded, Close, Cut, vars, server, Early, Reply, WriteResult
  <2> QED BY <2>1, <2>2
<1>2. cut => cut'
  BY DEF Next, HandleRequest, Writer, NextResult, EmptyBody, Reject, List,
     InvalidParams, Invoke, StartSend, ReturnStream, ReturnSingle, Panic, Await, StartReply, Finish,
     ReplyFails, Receive, Collect, Drop, StartWrite, WriteFails, WriterStops, ReadError, ReadResult,
     ReadSuccess, ReadEnd, Discarded, Close, Cut, vars, net, Reply, WriteResult
<1>3. CASE client = "error"
  BY <1>1, <1>2, <1>3 DEF Alarmed, NoFalseAlarm
<1>4. CASE ReadError
  <2>1. /\ taken + 1 \in 1 .. Len(wire) /\ wire[taken + 1].kind = "error"
        /\ UNCHANGED <<pc, method, cut>>
    BY <1>4 DEF ReadError, Reading, Readable, Early, server, invoke, net
  <2>2. Over
    BY <2>1 DEF Ended, Ends
  <2>3. method = "ok" => cut
    BY <2>1 DEF Ended
  <2> QED BY <2>1, <2>2, <2>3 DEF Alarmed, NoFalseAlarm, Over
<1>5. CASE ReadEnd
  <2>1. Drained /\ client = "open" /\ UNCHANGED <<pc, method, cut>>
    BY <1>5 DEF ReadEnd, server, invoke, net
  <2>2. Over \/ cut
    BY <2>1 DEF Drained, Over
  <2>3. ASSUME method = "ok", ~cut
        PROVE  FALSE
    <3>1. taken = Len(wire) /\ pc = "done"
      BY <2>1, <2>3 DEF Drained, Readable
    <3>2. Ends = {}
      BY <2>1, <3>1 DEF Received, Streamed, Ends, Version2, Version2Streaming
    <3>3. req.body = "empty"
      BY <2>3, <3>1, <3>2 DEF Ended
    <3> QED BY <2>3, <3>3 DEF Ended
  <2> QED BY <2>1, <2>2, <2>3 DEF Alarmed, NoFalseAlarm, Over
<1>6. CASE client # "error" /\ ~ReadError /\ ~ReadEnd
  <2>1. client' # "error"
    BY <1>6 DEF Next, HandleRequest, Writer, NextResult, EmptyBody, Reject, List,
     InvalidParams, Invoke, StartSend, ReturnStream, ReturnSingle, Panic, Await, StartReply, Finish,
     ReplyFails, Receive, Collect, Drop, StartWrite, WriteFails, WriterStops, ReadResult,
     ReadSuccess, Discarded, Close, Cut, vars, reader, Reply, WriteResult
  <2> QED BY <2>1 DEF Alarmed, NoFalseAlarm
<1> QED BY <1>3, <1>4, <1>5, <1>6

\* Every result a streamed response holds was sent, and what returns one result
\* sends none before.
Backed ==
  /\ \A i \in 1 .. Len(wire) : Streamed(i) => i <= Len(sent)
  /\ method = "running" /\ req.method # "stream" => sent = <<>>

LEMMA BackedStep ==
  ASSUME TypeOK, Early, Sending, Answering, Written, Backed, [Next]_vars
  PROVE  Backed'
<1> req \in Request /\ wire \in Seq(Responses) /\ sent \in Seq(Result)
  BY WorkloadTyped DEF TypeOK
<1>1. Len(sent') >= Len(sent) /\ Len(sent) \in Nat /\ Len(sent') \in Nat
  BY DEF Next, HandleRequest, Writer, NextResult, EmptyBody, Reject, List,
     InvalidParams, Invoke, StartSend, ReturnStream, ReturnSingle, Panic, Await, StartReply, Finish,
     ReplyFails, Receive, Collect, Drop, StartWrite, WriteFails, WriterStops, ReadError, ReadResult,
     ReadSuccess, ReadEnd, Discarded, Close, Cut, vars, invoke, Reply, WriteResult, Early, Backed
<1>2. method' = "running" /\ req'.method # "stream" => sent' = <<>>
  <2>1. CASE Invoke
    BY <2>1 DEF Invoke, Early
  <2>2. CASE Receive
    BY <2>2 DEF Receive, Sending
  <2>3. CASE ~Invoke /\ ~Receive
    <3>1. method' = "running" => UNCHANGED <<req, method, sent>>
      BY <2>3 DEF Next, HandleRequest, Writer, NextResult, EmptyBody, Reject, List,
       InvalidParams, StartSend, ReturnStream, ReturnSingle, Panic, Await, StartReply, Finish,
       ReplyFails, Collect, Drop, StartWrite, WriteFails, WriterStops, ReadError, ReadResult,
       ReadSuccess, ReadEnd, Discarded, Close, Cut, vars, invoke, Reply, WriteResult
    <3> QED BY <3>1 DEF Backed
  <2> QED BY <2>1, <2>2, <2>3
<1>3. \A i \in 1 .. Len(wire) : Streamed(i)' => i <= Len(sent')
  BY <1>1, WireGrows DEF Backed
<1>4. CASE wire' = wire
  BY <1>2, <1>3, <1>4 DEF Backed
<1> PICK n \in Nat : n = Len(wire) + 1
  OBVIOUS
<1>5. ASSUME Len(wire') = n, Streamed(n)' => n <= Len(sent')
      PROVE  Backed'
  <2>1. \A i \in 1 .. n : i \in 1 .. Len(wire) \/ i = n
    OBVIOUS
  <2> QED BY <1>2, <1>3, <1>5, <2>1 DEF Backed
<1>6. CASE WriteResult
  <2>1. Len(wire') = n /\ \A k \in 1 .. Len(wire) : wire'[k] = wire[k]
    BY <1>6 DEF WriteResult
  <2>2. Streamed(n)' => Streamed(Len(wire))
    BY <2>1 DEF Streamed
  <2>3. Streamed(Len(wire)) => Len(sent) = n
    BY <1>6 DEF WriteResult, Sending, Holding, Written, StreamSoFar
  <2>4. Streamed(n)' => n <= Len(sent')
    BY <1>1, <2>2, <2>3
  <2> QED BY <1>5, <2>1, <2>4
<1>7. CASE Reply
  <2>1. Len(wire') = n /\ wire'[n] = answer /\ pc = "encode"
    BY <1>7 DEF Reply
  <2>2. Streamed(n)' => wire'[n].kind = "result" /\ wire'[n].version = Version2Streaming
    BY DEF Streamed
  <2>3. answer.kind = "result" => answer.version = Version2
    BY <2>1 DEF Answering
  <2>4. ~Streamed(n)'
    BY <2>1, <2>2, <2>3 DEF Version2, Version2Streaming
  <2> QED BY <1>5, <2>1, <2>4
<1>8. CASE ~Reply /\ ~WriteResult
  <2>1. wire' = wire
    BY <1>8 DEF Next, HandleRequest, Writer, NextResult, EmptyBody, Reject, List, InvalidParams,
      Invoke, StartSend, ReturnStream, ReturnSingle, Panic, Await, StartReply, Finish, ReplyFails,
      Receive, Collect, Drop, StartWrite, WriteFails, WriterStops, ReadError, ReadResult,
      ReadSuccess, ReadEnd, Discarded, Close, Cut, vars
  <2> QED BY <1>4, <2>1
<1> QED BY <1>6, <1>7, <1>8

\* The inductive invariant: what a response says is true when it is written, and
\* what the caller has read is what was written.
CallInv ==
  /\ TypeOK /\ Early /\ Sending /\ Answering /\ Written /\ Received
  /\ Ended /\ Alarmed /\ NoFalseAlarm /\ Backed

LEMMA InitCall == Init => CallInv
<1> SUFFICES ASSUME Init
             PROVE  CallInv
  OBVIOUS
<1>1. Sending /\ Answering
  BY DEF Init, Sending, Answering, Numbered, Holding
<1>2. Written
  BY DEF Init, Written, StreamSoFar, Holding
<1>3. Received
  BY DEF Init, Received, Streamed, Numbered
<1>4. Ends = {}
  BY DEF Init, Ends
<1>5. Ended /\ Alarmed /\ NoFalseAlarm
  BY <1>4 DEF Init, Ended, Over, Alarmed, NoFalseAlarm
<1>6. Backed
  BY DEF Init, Backed
<1> QED BY InitType, <1>1, <1>2, <1>3, <1>5, <1>6 DEF CallInv

LEMMA StepCall == CallInv /\ [Next]_vars => CallInv'
BY StepType, SendingStep, AnsweringStep, WrittenStep, ReceivedStep, EndedStep, AlarmStep, BackedStep
DEF CallInv

\* A caller that is told the results have ended has every result the method
\* produced, in order, and the method returned without an error.
THEOREM CleanEndCorrect == Spec => []CleanEnd
<1>1. CallInv => CleanEnd
  BY DEF CallInv, Received, CleanEnd
<1> QED BY <1>1, InitCall, StepCall, PTL DEF Spec

\* A method that succeeds is not reported as failed unless the connection broke.
THEOREM NoFalseAlarmCorrect == Spec => []NoFalseAlarm
<1>1. CallInv => NoFalseAlarm
  BY DEF CallInv
<1> QED BY <1>1, InitCall, StepCall, PTL DEF Spec

\* A request that was handled has been told so exactly once, whatever the
\* method did, unless the connection broke.
THEOREM OneEndCorrect == Spec => []OneEnd
<1>1. CallInv => OneEnd
  BY DEF CallInv, Ended, OneEnd
<1> QED BY <1>1, InitCall, StepCall, PTL DEF Spec

(***************************************************************************)
(* The call as a result stream.                                            *)
(***************************************************************************)

LEMMA InitStream == Init => Stream!Init
BY DEF Init, Stream!Init, outcomeOf, statusOf

\* Handling the request and writing its responses, seen as a stream: the method
\* produces, ends, or nothing happens.
LEMMA ServerStream ==
  ASSUME CallInv, HandleRequest \/ Writer
  PROVE  [Stream!Next]_(Stream!vars)
<1> TypeOK /\ Early /\ Sending /\ Backed
  BY DEF CallInv
<1> sent \in Seq(Result) /\ MaxResults \in Nat \ {0}
  BY SomeResult DEF TypeOK
<1>1. UNCHANGED <<got, client>>
  BY DEF HandleRequest, Writer, EmptyBody, Reject, List, InvalidParams,
    Invoke, StartSend, ReturnStream, ReturnSingle, Panic, Await, StartReply, Reply, Finish,
    ReplyFails, Receive, Collect, Drop, StartWrite, WriteResult, WriteFails, WriterStops, reader
<1>2. UNCHANGED <<got, statusOf>>
  BY <1>1 DEF statusOf
<1>3. CASE EmptyBody \/ Reject \/ InvalidParams \/ Panic
  <2>1. outcomeOf = "open" /\ outcomeOf' = "failed" /\ UNCHANGED sent
    BY <1>3 DEF EmptyBody, Reject, InvalidParams, Panic, ReplyWith, invoke, Early, outcomeOf
  <2> QED BY <1>2, <2>1 DEF Stream!Next, Stream!Finish
<1>4. CASE List
  <2>1. outcomeOf = "open" /\ outcomeOf' = "ok" /\ sent = <<>> /\ sent' = <<1>>
    BY <1>4 DEF List, ReplyWith, Early, outcomeOf
  <2> QED BY <1>2, <2>1 DEF Stream!Next, Stream!Finish, Stream!Produced
<1>5. CASE ReturnSingle
  <2>1. outcomeOf = "open" /\ sent = <<>>
    BY <1>5 DEF ReturnSingle, Backed, outcomeOf
  <2>2. \/ outcomeOf' = "ok" /\ sent' = <<1>>
        \/ outcomeOf' = "failed" /\ UNCHANGED sent
    BY <1>5 DEF ReturnSingle, outcomeOf
  <2> QED BY <1>2, <2>1, <2>2 DEF Stream!Next, Stream!Finish, Stream!Produced
<1>6. CASE ReturnStream
  <2>1. outcomeOf = "open" /\ outcomeOf' \in {"ok", "failed"} /\ UNCHANGED sent
    BY <1>6 DEF ReturnStream, outcomeOf
  <2> QED BY <1>2, <2>1 DEF Stream!Next, Stream!Finish
<1>7. CASE Receive
  <2>1. outcomeOf = "open" /\ UNCHANGED outcomeOf
    BY <1>7 DEF Receive, outcomeOf
  <2>2. Len(sent) < MaxResults /\ sent' = Append(sent, Len(sent) + 1)
    BY <1>7 DEF Receive, Early
  <2> QED BY <1>2, <2>1, <2>2 DEF Stream!Next, Stream!Produce, Stream!Produced
<1>8. CASE Invoke \/ StartSend
  <2>1. UNCHANGED <<outcomeOf, sent>>
    BY <1>8 DEF Invoke, StartSend, Early, outcomeOf
  <2> QED BY <1>2, <2>1 DEF Stream!vars
<1>9. CASE Await \/ StartReply \/ Reply \/ Finish \/ ReplyFails
  <2>1. UNCHANGED <<outcomeOf, sent>>
    BY <1>9 DEF Await, ReplyWith, StartReply, Reply, Finish, ReplyFails, invoke, outcomeOf
  <2> QED BY <1>2, <2>1 DEF Stream!vars
<1>10. CASE Collect \/ Drop \/ StartWrite \/ WriteResult \/ WriteFails \/ WriterStops
  <2>1. UNCHANGED <<outcomeOf, sent>>
    BY <1>10 DEF Collect, Drop, StartWrite, WriteResult, WriteFails, WriterStops, server, invoke,
       outcomeOf
  <2> QED BY <1>2, <2>1 DEF Stream!vars
<1> QED
  BY <1>3, <1>4, <1>5, <1>6, <1>7, <1>8, <1>9, <1>10 DEF HandleRequest, Writer

\* Reading the response, seen as a stream: the caller observes what was
\* produced, or learns how it ended.
LEMMA ReaderStream ==
  ASSUME CallInv, Next, NextResult \/ Close \/ Cut
  PROVE  [Stream!Next]_(Stream!vars)
<1> TypeOK /\ Early /\ Sending /\ Received /\ Backed /\ Received'
  BY StepCall DEF CallInv
<1> /\ sent \in Seq(Result) /\ got \in Seq(Result) /\ got' \in Seq(Result)
    /\ wire \in Seq(Responses) /\ taken \in Nat /\ taken' \in Nat /\ reach \in Nat
  BY StepCall DEF CallInv, TypeOK
<1>1. UNCHANGED <<req, pc, wire, method, sent>>
  BY DEF NextResult, ReadError, ReadResult, ReadSuccess, ReadEnd, Discarded, Close, Cut, server,
     invoke
<1>2. UNCHANGED <<sent, outcomeOf>>
  BY <1>1 DEF outcomeOf
<1>3. CASE ReadError \/ ReadEnd \/ Close
  <2>1. statusOf = "open" /\ statusOf' = "failed" /\ UNCHANGED got
    BY <1>3 DEF ReadError, ReadEnd, Close, Reading, statusOf
  <2> QED BY <1>2, <2>1 DEF Stream!Next, Stream!Fail
<1>4. CASE client = "open" /\ client' = "eof"
  <2>1. outcomeOf = "ok" /\ got' = sent
    BY <1>1, <1>4 DEF Received, outcomeOf
  <2>2. statusOf = "open" /\ statusOf' = "complete"
    BY <1>4 DEF statusOf
  <2> QED BY <1>2, <2>1, <2>2 DEF Stream!Next, Stream!Complete
<1>5. CASE ReadResult /\ client' = "open"
  <2>1. statusOf = "open" /\ UNCHANGED statusOf
    BY <1>5 DEF ReadResult, Reading, statusOf
  <2>2. /\ taken + 1 \in 1 .. Len(wire) /\ taken' = taken + 1
        /\ Len(got) = taken
    BY <1>5 DEF ReadResult, Reading, Readable, Early, Received
  <2>3. Streamed(taken + 1) /\ Len(got') = taken + 1 /\ Numbered(got')
    BY <1>1, <1>5, <2>2 DEF Received, Streamed
  <2>4. taken + 1 <= Len(sent)
    BY <2>2, <2>3 DEF Backed
  <2>5. got' = SubSeq(sent, 1, taken + 1)
    <3>1. SubSeq(sent, 1, taken + 1) \in Seq(Result) /\ Len(SubSeq(sent, 1, taken + 1)) = taken + 1
      BY <2>4
    <3>2. Numbered(SubSeq(sent, 1, taken + 1))
      BY <2>4, <3>1 DEF Sending, Numbered
    <3> QED BY <2>3, <3>1, <3>2, NumberedEqual
  <2> QED BY <1>2, <2>1, <2>2, <2>4, <2>5 DEF Stream!Next, Stream!Observe
<1>6. CASE Discarded \/ Cut
  <2>1. UNCHANGED <<got, statusOf>>
    BY <1>6 DEF Discarded, Cut, reader, statusOf
  <2> QED BY <1>2, <2>1 DEF Stream!vars
<1>7. CASE ReadSuccess
  BY <1>4, <1>7 DEF ReadSuccess, Reading
<1>8. CASE ReadResult
  <2>1. client = "open" /\ client' \in {"open", "eof"}
    BY <1>8 DEF ReadResult, Reading
  <2> QED BY <1>4, <1>5, <1>8, <2>1
<1> QED BY <1>3, <1>6, <1>7, <1>8 DEF NextResult

\* Every call is a result stream: the caller sees what the method produced, in
\* order and without gaps, and is told of a clean end only when the method has
\* succeeded and everything was seen.
THEOREM StreamImplemented == Spec => ImplementsStream
<1>1. CallInv /\ [Next]_vars => [Stream!Next]_(Stream!vars)
  <2> SUFFICES ASSUME CallInv, [Next]_vars
               PROVE  [Stream!Next]_(Stream!vars)
    OBVIOUS
  <2>1. CASE UNCHANGED vars
    BY <2>1 DEF vars, invoke, server, reader, Stream!vars, outcomeOf, statusOf
  <2>2. CASE HandleRequest \/ Writer
    BY <2>2, ServerStream
  <2>3. CASE Next /\ (NextResult \/ Close \/ Cut)
    BY <2>3, ReaderStream
  <2> QED BY <2>1, <2>2, <2>3 DEF Next
<1> QED BY <1>1, InitCall, StepCall, InitStream, PTL DEF Spec, ImplementsStream, Stream!Spec
=============================================================================
