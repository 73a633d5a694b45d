--------------------------- MODULE HttpConnection ---------------------------
(***************************************************************************)
(* struct http_connection of pset6/pong61.cc: one connection after the     *)
(* other, one request sent and one response received on each, over a       *)
(* socket that delivers the response in pieces of any size, or breaks at   *)
(* any point.                                                              *)
(*                                                                         *)
(* A response is a sequence of units: the text of a line, the end of a     *)
(* line, or a byte of the body. A read may end between any two of them.    *)
(***************************************************************************)
EXTENDS Integers, Sequences

CONSTANTS
    Responses,      \* what the server may send, from first unit to last
    RequestSize     \* reqsz

Kinds == {"status", "header", "length", "eol", "byte"}
Unit == [kind : Kinds, n : Nat]
EndOfLine(u) == u.kind = "eol"
CStates == {"idle", "waiting", "headers", "body", "closed", "broken"}
Negative(c) == c \in {"closed", "broken"}       \* cstate_ < 0

ASSUME ConnectionAssumption ==
    /\ \A r \in Responses : r \in Seq(Unit)
    /\ RequestSize \in Nat /\ RequestSize >= 1

\* A unit of text is the whole text of its line: it begins the line.
ASSUME TextAssumption ==
    \A r \in Responses : \A i \in 2 .. Len(r) :
        r[i].kind \in {"status", "header", "length"} => EndOfLine(r[i - 1])

VARIABLES
    pc,             \* where the caller is in send / receive; "none": no connection
    pos,            \* send_request()'s pos
    cstate,         \* cstate_
    status,         \* status_code_
    contentLength,  \* content_length_
    hasLength,      \* has_content_length_
    eof,            \* eof_
    buf,            \* buf_[0 .. len_ - 1]
    response,       \* the server's whole response
    keepAlive,      \* the server keeps the connection open, and nothing breaks it
    stream          \* what of the response has not been read yet

request == <<pos, response, keepAlive>>
parsed == <<status, contentLength, hasLength>>
hvars == <<pc, request, cstate, parsed, eof, buf, stream>>

Goto(l) == pc' = l

-----------------------------------------------------------------------------
(* A reference: what a response says, read as a whole.                     *)

HeaderEnd(r) ==     \* position of the end of the empty line, 0 if there is none
    LET ends == {i \in 2 .. Len(r) : EndOfLine(r[i]) /\ EndOfLine(r[i - 1])}
    IN  IF ends = {} THEN 0 ELSE CHOOSE i \in ends : \A j \in ends : i <= j
Fields(r) == {i \in 1 .. HeaderEnd(r) : r[i].kind = "length"}
LengthOf(r) ==
    IF Fields(r) = {} THEN 0 ELSE r[CHOOSE i \in Fields(r) : \A j \in Fields(r) : j <= i].n
WellFormed(r) == r # <<>> /\ r[1].kind = "status" /\ HeaderEnd(r) > 0
BodyOf(r) == SubSeq(r, HeaderEnd(r) + 1, Len(r))
\* What a server sends that means to keep the connection open.
Whole(r) ==
    WellFormed(r) /\ Fields(r) # {} /\ Len(BodyOf(r)) >= LengthOf(r)
Delivered == SubSeq(response, 1, Len(response) - Len(stream))

-----------------------------------------------------------------------------
HInit ==
    /\ pc = "none" /\ pos = 0 /\ cstate = "idle"
    /\ status = -1 /\ contentLength = 0 /\ hasLength = FALSE /\ eof = FALSE
    /\ buf = <<>> /\ response = <<>> /\ stream = <<>> /\ keepAlive = FALSE

\* http_connect(): a new object, on a socket of its own.
Connect ==
    /\ pc = "none" /\ Goto("send")
    /\ response' \in Responses /\ stream' = response'
    /\ keepAlive' \in BOOLEAN /\ (keepAlive' => Whole(response'))
    /\ UNCHANGED <<pos, cstate, parsed, eof, buf>>

\* http_close(): the object is gone with all it held.
Close ==
    /\ pc = "done" /\ Goto("none")
    /\ pos' = 0 /\ cstate' = "idle"
    /\ status' = -1 /\ contentLength' = 0 /\ hasLength' = FALSE /\ eof' = FALSE
    /\ buf' = <<>> /\ response' = <<>> /\ stream' = <<>> /\ keepAlive' = FALSE

(* send_request()                                                          *)

\* write() takes some of the request; one that is interrupted takes nothing.
Write(k) ==
    /\ pc = "send" /\ pos < RequestSize
    /\ k \in 1 .. RequestSize - pos
    /\ pos' = pos + k
    /\ UNCHANGED <<pc, response, keepAlive, cstate, parsed, eof, buf, stream>>

ExitAt(l) ==
    /\ pc = l /\ Goto("exited")
    /\ UNCHANGED <<request, cstate, parsed, eof, buf, stream>>

\* write() fails or returns 0: the program ends.
WriteFails == pos < RequestSize /\ ExitAt("send")

Sent ==
    /\ pc = "send" /\ pos = RequestSize
    /\ Goto("parse") /\ cstate' = "waiting"
    /\ status' = -1 /\ contentLength' = 0 /\ hasLength' = FALSE
    /\ buf' = <<>>
    /\ UNCHANGED <<request, eof, stream>>

-----------------------------------------------------------------------------
(* receive_response_headers()                                              *)

ReadingHeaders == cstate \in {"waiting", "headers"}
HasLine == \E i \in DOMAIN buf : EndOfLine(buf[i])
FirstEnd == CHOOSE i \in DOMAIN buf :
                EndOfLine(buf[i]) /\ \A j \in 1 .. i - 1 : ~EndOfLine(buf[j])

\* What the memmove() of a consumed line leaves.
Rest(i) == SubSeq(buf, i + 1, Len(buf))

IsStatusLine(i) == i > 1 /\ buf[1].kind = "status"
IsLengthLine(i) == i > 1 /\ buf[1].kind = "length"

\* process_response_headers(), one turn of its loop that finds a line.
ParseLine ==
    /\ pc = "parse" /\ ReadingHeaders /\ HasLine
    /\ LET i == FirstEnd
       IN  /\ IF cstate = "waiting"
              THEN /\ cstate' = IF IsStatusLine(i) THEN "headers" ELSE "broken"
                   /\ status' = IF IsStatusLine(i) THEN buf[1].n ELSE status
                   /\ UNCHANGED <<contentLength, hasLength>>
              ELSE /\ cstate' = IF i = 1 THEN "body" ELSE cstate
                   /\ contentLength' = IF IsLengthLine(i) THEN buf[1].n
                                       ELSE contentLength
                   /\ hasLength' = (hasLength \/ IsLengthLine(i))
                   /\ UNCHANGED status
           /\ buf' = Rest(i)
    /\ UNCHANGED <<pc, request, eof, stream>>

\* Mutant: the end of the connection is not looked at.
StateAfterLines_NoEof == cstate

StateAfterLines == IF eof THEN "broken" ELSE cstate

\* The end of process_response_headers(): more to read, or all there is.
\* Status codes from 500 on end the program.
ParseEnd ==
    /\ pc = "parse" /\ ~(ReadingHeaders /\ HasLine)
    /\ cstate' = StateAfterLines
    /\ Goto(IF cstate' \in {"waiting", "headers"} THEN "readHeaders"
            ELSE IF status >= 500 THEN "exited" ELSE "gotHeaders")
    /\ UNCHANGED <<request, parsed, eof, buf, stream>>

\* read(): any non-empty piece, the end of the connection, or an error.
Read(at, next) ==
    /\ pc = at
    /\ \/ \E k \in 1 .. Len(stream) :
             /\ buf' = buf \o SubSeq(stream, 1, k)
             /\ stream' = SubSeq(stream, k + 1, Len(stream))
             /\ UNCHANGED eof
       \/ ~keepAlive /\ eof' = TRUE /\ UNCHANGED <<buf, stream>>
    /\ Goto(next)
    /\ UNCHANGED <<request, cstate, parsed>>

ReadHeaders == Read("readHeaders", "parse")
ReadFails == ~keepAlive /\ (ExitAt("readHeaders") \/ ExitAt("readBody"))

-----------------------------------------------------------------------------
(* receive_response_body()                                                 *)

\* It asserts cstate_ < 0 || cstate_ == cstate_body.
ReceiveBody ==
    /\ pc = "gotHeaders"
    /\ Goto(IF Negative(cstate) THEN "done" ELSE "checkBody")
    /\ UNCHANGED <<request, cstate, parsed, eof, buf, stream>>

\* Mutant: one byte short.
BodyComplete_Short == (hasLength \/ eof) /\ Len(buf) + 1 >= contentLength
\* Mutant: a body behind the headers is not counted.
BodyComplete_Exact == (hasLength \/ eof) /\ Len(buf) = contentLength

BodyComplete == (hasLength \/ eof) /\ Len(buf) >= contentLength

\* check_response_body()
CheckBody ==
    /\ pc = "checkBody"
    /\ cstate' = IF eof THEN (IF BodyComplete THEN "closed" ELSE "broken")
                 ELSE IF BodyComplete THEN "idle" ELSE "body"
    /\ Goto(IF cstate' = "body" THEN "readBody" ELSE "done")
    /\ UNCHANGED <<request, parsed, eof, buf, stream>>

ReadBody == Read("readBody", "checkBody")

-----------------------------------------------------------------------------
Work ==
    \/ \E k \in 1 .. RequestSize : Write(k)
    \/ Sent \/ ParseLine \/ ParseEnd \/ ReadHeaders
    \/ ReceiveBody \/ CheckBody \/ ReadBody

Fails == WriteFails \/ ReadFails

HNext == Connect \/ Work \/ Fails \/ Close

HSpec == HInit /\ [][HNext]_hvars

-----------------------------------------------------------------------------
(* Properties.                                                             *)

\* "On return, `buf_` holds the response body": however the response was cut
\* into reads, a connection that ends well holds the status of the response and
\* just the bytes that came after its empty line, as many as it announced.
BodyExact ==
    pc = "done" /\ cstate \in {"idle", "closed"} =>
        /\ WellFormed(Delivered)
        /\ status = response[1].n
        /\ buf = BodyOf(Delivered)
        /\ Len(buf) >= LengthOf(Delivered)

\* A connection is declared broken only if it was: the end came before the
\* whole of a well-formed response did, whatever pieces it came in.
BrokenMeansCut ==
    pc = "done" /\ cstate = "broken" /\ WellFormed(response) =>
        /\ eof
        /\ \/ ~WellFormed(Delivered)
           \/ Len(BodyOf(Delivered)) < LengthOf(response)

\* receive_response_headers() says: "If the connection terminates prematurely,
\* `status_code_` is set to -1."
PrematureIsMinusOne == pc = "gotHeaders" /\ eof => status = -1
=============================================================================
