------------------------------ MODULE Records ------------------------------
(***************************************************************************)
(* Streams of length-delimited records (util/delimited/delimited.go): a    *)
(* Writer puts records into a pipe or a file, each as a varint length      *)
(* followed by its bytes, in two writes; a Reader takes them out.  The     *)
(* writer may be stopped, or its underlying writer may fail or write       *)
(* short, at every byte; a caller that goes on after an error leaves the   *)
(* reader with no way to find the next record.                             *)
(*                                                                         *)
(* Bytes are small: a varint byte carries one digit of base Base instead   *)
(* of 128, so that lengths of several bytes occur in short records.        *)
(***************************************************************************)
EXTENDS Naturals, Sequences, SequencesExt

CONSTANTS
    Base,          \* the base of the varint digits
    RecordSet,     \* the records the callers of Put write
    MaxPuts        \* bound: calls of Put

ASSUME BaseAssumption == Base \in Nat \ {0, 1}
ASSUME PutsAssumption == MaxPuts \in Nat

Byte == 0 .. 2 * Base - 1      \* the upper half has the continuation bit

ASSUME RecordsAssumption == RecordSet \subseteq Seq(Byte)

VARIABLES
    sink,      \* the bytes that reached the pipe
    wpc,       \* where the writer is: "idle", "length", "data", "closed"
    record,    \* the argument of the current Put
    result,    \* the results of the calls of Put, [record, n, ok]
    pos,       \* how many bytes the reader has taken
    data,      \* the array behind Reader.data; its length is its capacity
    got,       \* the records Next has returned
    rpc        \* "reading", or how Next ended: "EOF", "ErrUnexpectedEOF"

writer == <<sink, wpc, record, result>>
reader == <<pos, data, got, rpc>>
vars == <<writer, reader>>

Uvarint[n \in Nat] ==
    IF n < Base THEN <<n>> ELSE <<Base + (n % Base)>> \o Uvarint[n \div Base]

\* binary.ReadUvarint: the bytes with the continuation bit and one without.
Length(s) == SelectInSeq(s, LAMBDA b : b < Base)
Value(s) ==
    LET from[i \in 1 .. Len(s) + 1] ==
            IF i > Len(s) THEN 0 ELSE (s[i] % Base) + Base * from[i + 1]
    IN  from[1]

Init ==
    /\ sink = <<>>
    /\ wpc = "idle"
    /\ record = <<>>
    /\ result = <<>>
    /\ pos = 0
    /\ data = <<>>
    /\ got = <<>>
    /\ rpc = "reading"

Put ==
    /\ wpc = "idle"
    /\ Len(result) < MaxPuts
    /\ record' \in RecordSet
    /\ wpc' = "length"
    /\ UNCHANGED <<sink, result, reader>>

Returned(n, ok) ==
    /\ result' = Append(result, [record |-> record, n |-> n, ok |-> ok])
    /\ wpc' = "idle"

WriteLength ==
    /\ wpc = "length"
    /\ sink' = sink \o Uvarint[Len(record)]
    /\ wpc' = "data"
    /\ UNCHANGED <<record, result, reader>>

WriteData ==
    /\ wpc = "data"
    /\ sink' = sink \o record
    /\ Returned(Len(Uvarint[Len(record)]) + Len(record), TRUE)
    /\ UNCHANGED <<record, reader>>

\* io.Writer.Write with an error: fewer bytes than asked reached the pipe.
ShortOf(bytes) == {SubSeq(bytes, 1, k) : k \in 0 .. Len(bytes) - 1}

LengthFails ==
    /\ wpc = "length"
    /\ \E part \in ShortOf(Uvarint[Len(record)]) : sink' = sink \o part
    /\ Returned(0, FALSE)
    /\ UNCHANGED <<record, reader>>

DataFails ==
    /\ wpc = "data"
    /\ \E part \in ShortOf(record) : sink' = sink \o part
    /\ Returned(Len(Uvarint[Len(record)]), FALSE)
    /\ UNCHANGED <<record, reader>>

\* The writing process closes the pipe, or dies at any of its steps.
Close ==
    /\ wpc # "closed"
    /\ wpc' = "closed"
    /\ UNCHANGED <<sink, record, result, reader>>

Rest == SubSeq(sink, pos + 1, Len(sink))
Ended == wpc = "closed"

End(err) ==
    /\ rpc' = err
    /\ UNCHANGED <<got, writer>>

\* A reader that does not wait for the writer takes a pause for the end.
NothingYet == Length(Rest) = 0

Exhausted == Ended /\ Length(Rest) = 0

\* The pipe ends within a length, or where a length would begin.  Go up to
\* 1.16 answers io.EOF for both, later ones tell the first from the second.
NoLength ==
    /\ rpc = "reading"
    /\ Exhausted
    /\ \E err \in {"EOF", "ErrUnexpectedEOF"} :
        /\ Rest = <<>> => err = "EOF"
        /\ End(err)
    /\ pos' = Len(sink)
    /\ UNCHANGED data

\* if cap(r.data) < int(size) { make } else { r.data[:size] }
Resized(size) ==
    IF Len(data) < size THEN [i \in 1 .. size |-> 0] ELSE data

\* The slice Next returns; returning the array shows bytes of earlier records.
WholeArray(array, size) == array
Slice(array, size) == SubSeq(array, 1, size)

\* io.ReadFull waits for size bytes or the end of the pipe.
OnlyWhole(size, body) == Len(body) >= size
Available(size, body) == Len(body) >= size \/ Ended

\* io.ReadFull with have of the bytes it wanted.
AlwaysEOF(have) == "EOF"
ReadFullError(have) == IF have = 0 THEN "EOF" ELSE "ErrUnexpectedEOF"

\* Reader.Next with the length read.
NextRecord ==
    /\ rpc = "reading"
    /\ LET head == Length(Rest)
           size == Value(SubSeq(Rest, 1, head))
           body == SubSeq(Rest, head + 1, Len(Rest))
           have == IF Len(body) < size THEN Len(body) ELSE size
       IN  /\ head > 0
           /\ Available(size, body)
           /\ pos' = pos + head + have
           /\ data' = SubSeq(body, 1, have)
                        \o SubSeq(Resized(size), have + 1, Len(Resized(size)))
           /\ \/ /\ have = size
                 /\ got' = Append(got, Slice(data', size))
                 /\ UNCHANGED <<rpc, writer>>
              \/ /\ have < size
                 /\ End(ReadFullError(have))

WriterStep == Put \/ WriteLength \/ WriteData \/ LengthFails \/ DataFails
ReaderStep == NoLength \/ NextRecord

Next == WriterStep \/ Close \/ ReaderStep

Spec == Init /\ [][Next]_vars

\* The reader calls Next until it fails, as delimited.go:36-46 shows; no
\* fairness of the writer is assumed beyond its ending.
FairSpec == Spec /\ WF_vars(ReaderStep) /\ WF_vars(Close)

-----------------------------------------------------------------------------
AllComplete == \A i \in DOMAIN result : result[i].ok

\* The calls of Put before the first one that failed.
Sound == {i \in DOMAIN result : \A j \in 1 .. i : result[j].ok}

\* The n-th record read is the n-th one put, whatever the writer's process,
\* its underlying writer and the records before did, up to the first Put
\* that failed; in particular no byte of an earlier, longer record shows
\* through the array that Next uses again (delimited.go:65-69).
Intact == \A i \in Sound \cap DOMAIN got : got[i] = result[i].record

\* A reader that ends has read every record put, when no Put failed, though
\* the writer died between the two writes of one more: an empty record is
\* whole as soon as its length is there.
NothingLost ==
    rpc # "reading" /\ AllComplete =>
        \/ Len(got) = Len(result)
        \/ Len(got) = Len(result) + 1 /\ record = <<>> /\ Last(got) = <<>>

Encoded(r) == Uvarint[Len(r)] \o r

\* How many bytes of the pipe the records s take.
Size(s) ==
    LET upTo[i \in 0 .. Len(s)] ==
            IF i = 0 THEN 0 ELSE upTo[i - 1] + Len(Encoded(s[i]))
    IN  upTo[Len(s)]

Stopped == \A i \in DOMAIN result : result[i].ok \/ i = Len(result)

\* "Returns io.ErrUnexpectedEOF if a short record is found, with a length of
\* n but fewer than n bytes of data" (delimited.go:53-55), as far as the code
\* goes: a clean io.EOF from a writer that stopped at its first failure means
\* that not one byte of a record is lost, a length at the most: after a
\* length and none of its bytes Next answers io.EOF too (delimited.go:71).
ShortReported ==
    rpc = "EOF" /\ Stopped =>
        LET left == SubSeq(sink, Size(got) + 1, Len(sink))
        IN  Length(left) \in {0, Len(left)}

\* A reader is never left waiting by a writer that has gone, wherever in a
\* record it stopped.
ReaderEnds == <>(rpc # "reading")
=============================================================================
