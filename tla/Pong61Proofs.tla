---------------------------- MODULE Pong61Proofs ----------------------------
(* Theorems about the pong client's connection, for any responses and any way *)
(* of cutting them into reads: the incremental parser agrees with a reading   *)
(* of the response as a whole.                                                *)
(*                                                                            *)
(* Then about the board that both pong programs move on, and about the client *)
(* itself: the hand-over between main() and its threads, for any board, any   *)
(* responses and any number of threads the system may allow.  The flag keeps  *)
(* them in step, and the server hears of every position in order.             *)
EXTENDS Pong61, SequenceTheorems, WellFoundedInduction, TLAPS

-----------------------------------------------------------------------------
(* The connection.                                                         *)

\* Units that have been read from the socket, and that the parser has consumed.
Got == Len(response) - Len(stream)
Consumed == Got - Len(buf)

\* The unit at i ends an empty line; none of the first h units does.
EmptyLineAt(r, i) == EndOfLine(r[i]) /\ EndOfLine(r[i - 1])
NoEmptyLine(r, h) == \A i \in 2 .. h : ~EmptyLineAt(r, i)

\* What the first h units of r say about the length: nothing, or the last of
\* their announcements.
LengthRead(r, h, len, has) ==
    \/ ~has /\ len = 0 /\ \A i \in 1 .. h : r[i].kind # "length"
    \/ has /\ \E i \in 1 .. h : /\ r[i].kind = "length" /\ len = r[i].n
                                /\ \A j \in i + 1 .. h : r[j].kind # "length"

\* Every variable that the parser looks at has its type.
HTypeOK ==
    /\ response \in Responses \cup {<<>>}
    /\ stream \in Seq(Unit) /\ buf \in Seq(Unit)
    /\ cstate \in CStates /\ contentLength \in Nat
    /\ hasLength \in BOOLEAN /\ eof \in BOOLEAN

\* The response is what was consumed, the buffer and what is still to be read,
\* in this order.
Pieces ==
    /\ Consumed >= 0
    /\ \A j \in 1 .. Len(buf) : buf[j] = response[Consumed + j]
    /\ \A j \in 1 .. Len(stream) : stream[j] = response[Got + j]

\* Where the caller is, and the states the connection can be in there.
Control ==
    /\ pc \in {"none", "send"} =>
          cstate = "idle" /\ buf = <<>> /\ stream = response /\ ~eof
    /\ pc = "parse" => /\ cstate \in {"waiting", "headers", "body", "broken"}
                       /\ eof => ReadingHeaders /\ ~HasLine
    /\ pc = "readHeaders" => ReadingHeaders /\ ~HasLine /\ ~eof
    /\ pc = "gotHeaders" => cstate \in {"body", "broken"} /\ (eof => cstate = "broken")
    /\ pc \in {"checkBody", "readBody"} => cstate = "body"
    /\ pc = "done" => cstate \in {"idle", "closed", "broken"}

\* What has been parsed of the header lines consumed so far.
Parsed ==
    /\ response # <<>> /\ response[1].kind = "status" /\ status = response[1].n
    /\ Consumed >= 2 /\ LengthRead(response, Consumed, contentLength, hasLength)

\* The headers ended with the unit consumed last.
AtBody == Parsed /\ EmptyLineAt(response, Consumed) /\ NoEmptyLine(response, Consumed - 1)

\* The connection ended before the whole of a well-formed response had come.
Cut ==
    WellFormed(response) =>
        /\ eof
        /\ ~WellFormed(Delivered) \/ Len(BodyOf(Delivered)) < LengthOf(response)

\* What the states of the connection mean.
Content ==
    /\ cstate = "waiting" => Consumed = 0 /\ contentLength = 0 /\ ~hasLength
    /\ cstate = "headers" =>
          Parsed /\ EndOfLine(response[Consumed]) /\ NoEmptyLine(response, Consumed)
    /\ cstate = "body" => AtBody
    /\ pc = "done" /\ cstate \in {"idle", "closed"} => AtBody /\ Len(buf) >= contentLength
    /\ cstate = "broken" => Cut

\* The strengthening of BodyExact and BrokenMeansCut that every step preserves.
HttpInv == HTypeOK /\ Pieces /\ Control /\ Content

-----------------------------------------------------------------------------
(* Reading a response as a whole.                                          *)

\* The first empty line ends the headers.
LEMMA HeaderEndAt ==
    ASSUME NEW r, NEW e \in 2 .. Len(r), Len(r) \in Nat,
           EmptyLineAt(r, e), NoEmptyLine(r, e - 1)
    PROVE  HeaderEnd(r) = e
<1> DEFINE ends == {i \in 2 .. Len(r) : EndOfLine(r[i]) /\ EndOfLine(r[i - 1])}
<1>1. e \in ends
  BY DEF EmptyLineAt
<1>2. \A j \in ends : e <= j /\ j \in Int
  BY DEF EmptyLineAt, NoEmptyLine
<1>3. HeaderEnd(r) = IF ends = {} THEN 0 ELSE CHOOSE i \in ends : \A j \in ends : i <= j
  BY DEF HeaderEnd
<1> HIDE DEF ends
<1>4. \A i \in ends : (\A j \in ends : i <= j) => i = e
  BY <1>1, <1>2
<1> QED
  BY <1>1, <1>2, <1>3, <1>4

\* A response without one is not well-formed.
LEMMA HeaderEndNone ==
    ASSUME NEW r, NoEmptyLine(r, Len(r))
    PROVE  ~WellFormed(r)
BY DEF HeaderEnd, WellFormed, NoEmptyLine, EmptyLineAt

\* The last announcement in the headers is the length of the body.
LEMMA LengthOfIs ==
    ASSUME NEW r, NEW e \in Nat, HeaderEnd(r) = e,
           NEW len, NEW has, LengthRead(r, e, len, has)
    PROVE  LengthOf(r) = len
<1>1. Fields(r) = {i \in 1 .. e : r[i].kind = "length"}
  BY DEF Fields
<1>2. LengthOf(r) = IF Fields(r) = {} THEN 0
                    ELSE r[CHOOSE i \in Fields(r) : \A j \in Fields(r) : j <= i].n
  BY DEF LengthOf
<1>3. CASE \A i \in 1 .. e : r[i].kind # "length"
  BY <1>1, <1>2, <1>3 DEF LengthRead
<1>4. CASE \E i \in 1 .. e : r[i].kind = "length"
  <2>1. PICK i \in 1 .. e : /\ r[i].kind = "length" /\ len = r[i].n
                            /\ \A j \in i + 1 .. e : r[j].kind # "length"
    BY <1>4 DEF LengthRead
  <2>2. i \in Fields(r) /\ \A j \in Fields(r) : j <= i /\ j \in Int
    BY <1>1, <2>1
  <2>3. \A k \in Fields(r) : (\A j \in Fields(r) : j <= k) => k = i
    BY <2>2
  <2>4. (CHOOSE k \in Fields(r) : \A j \in Fields(r) : j <= k) = i
    BY <2>2, <2>3
  <2> QED
    BY <1>2, <2>1, <2>2, <2>4
<1> QED
  BY <1>3, <1>4

\* The part of a response that was delivered says the same as the whole once
\* its headers are complete.
LEMMA DeliveredHeaders ==
    ASSUME NEW r \in Seq(Unit), NEW g \in 0 .. Len(r), NEW e \in 2 .. g,
           EmptyLineAt(r, e), NoEmptyLine(r, e - 1), r[1].kind = "status",
           NEW len, NEW has, LengthRead(r, e, len, has)
    PROVE  /\ LengthOf(r) = len
           /\ WellFormed(SubSeq(r, 1, g))
           /\ LengthOf(SubSeq(r, 1, g)) = len
           /\ BodyOf(SubSeq(r, 1, g)) \in Seq(Unit)
           /\ Len(BodyOf(SubSeq(r, 1, g))) = g - e
           /\ \A j \in 1 .. g - e : BodyOf(SubSeq(r, 1, g))[j] = r[e + j]
<1>1. PICK d : d = SubSeq(r, 1, g)
  OBVIOUS
<1>2. /\ d \in Seq(Unit) /\ Len(d) = g /\ \A i \in 1 .. g : d[i] = r[i]
      /\ Len(r) \in Nat /\ g \in Nat /\ e \in Nat
  BY <1>1
<1>3. EmptyLineAt(d, e) /\ NoEmptyLine(d, e - 1)
  <2>1. \A i \in 2 .. e : d[i] = r[i] /\ d[i - 1] = r[i - 1]
    BY <1>2
  <2>2. e \in 2 .. e /\ \A i \in 2 .. e - 1 : i \in 2 .. e
    BY <1>2
  <2> QED
    BY <2>1, <2>2 DEF EmptyLineAt, NoEmptyLine
<1>4. HeaderEnd(r) = e /\ HeaderEnd(d) = e
  BY <1>2, <1>3, HeaderEndAt
<1>5. LengthRead(d, e, len, has)
  BY <1>2 DEF LengthRead
<1>6. LengthOf(r) = len /\ LengthOf(d) = len
  BY <1>2, <1>4, <1>5, LengthOfIs
<1>7. WellFormed(d)
  BY <1>2, <1>4 DEF WellFormed
<1>8. BodyOf(d) = SubSeq(d, e + 1, g)
  BY <1>2, <1>4 DEF BodyOf
<1>9. /\ BodyOf(d) \in Seq(Unit) /\ Len(BodyOf(d)) = g - e
      /\ \A j \in 1 .. g - e : BodyOf(d)[j] = r[e + j]
  <2>1. \A j \in e + 1 .. g : d[j] \in Unit
    BY <1>2
  <2>2. /\ SubSeq(d, e + 1, g) \in Seq(Unit) /\ Len(SubSeq(d, e + 1, g)) = g - e
        /\ \A j \in 1 .. g - e : SubSeq(d, e + 1, g)[j] = d[e + j]
    BY SMTT(30), <1>2, <2>1, SubSeqProperties
  <2> QED
    BY <1>2, <1>8, <2>2
<1> QED
  BY <1>1, <1>6, <1>7, <1>9

\* A line of i units, read behind the first h: no text but at its beginning, and
\* an empty line only if it has nothing but its end.
LEMMA LineRead ==
    ASSUME NEW r \in Responses, NEW h \in Nat, NEW i \in Nat, i >= 1, h + i <= Len(r),
           EndOfLine(r[h + i]), \A j \in 1 .. i - 1 : ~EndOfLine(r[h + j])
    PROVE  /\ \A k \in h + 2 .. h + i : r[k].kind # "length"
           /\ i > 1 /\ NoEmptyLine(r, h) => NoEmptyLine(r, h + i)
           /\ \A len \in Nat, has \in BOOLEAN : LengthRead(r, h, len, has) =>
                 LengthRead(r, h + i,
                            IF i > 1 /\ r[h + 1].kind = "length" THEN r[h + 1].n ELSE len,
                            has \/ (i > 1 /\ r[h + 1].kind = "length"))
<1>1. \A k \in h + 1 .. h + i - 1 : ~EndOfLine(r[k])
  <2> SUFFICES ASSUME NEW k \in h + 1 .. h + i - 1 PROVE ~EndOfLine(r[k])
    OBVIOUS
  <2>1. k - h \in 1 .. i - 1 /\ h + (k - h) = k
    OBVIOUS
  <2> QED
    BY <2>1
<1>2. r \in Seq(Unit) /\ Len(r) \in Nat
  BY ConnectionAssumption
<1>3. ASSUME NEW k \in h + 2 .. h + i PROVE r[k].kind # "length"
  <2>1. k \in 2 .. Len(r) /\ k - 1 \in h + 1 .. h + i - 1
    BY <1>2
  <2> QED
    BY <1>1, <2>1, TextAssumption
<1>4. ASSUME i > 1, NoEmptyLine(r, h) PROVE NoEmptyLine(r, h + i)
  <2> SUFFICES ASSUME NEW k \in 2 .. h + i PROVE ~EmptyLineAt(r, k)
    BY DEF NoEmptyLine
  <2>1. CASE k <= h
    BY <1>4, <2>1 DEF NoEmptyLine
  <2>2. CASE k \in h + 1 .. h + i - 1
    BY <1>1, <2>2 DEF EmptyLineAt
  <2>3. CASE k = h + i
    <3>1. k - 1 \in h + 1 .. h + i - 1
      BY <1>4, <2>3
    <3> QED
      BY <1>1, <3>1 DEF EmptyLineAt
  <2> QED
    BY <2>1, <2>2, <2>3
<1>5. ASSUME NEW len \in Nat, NEW has \in BOOLEAN, LengthRead(r, h, len, has)
      PROVE  LengthRead(r, h + i,
                        IF i > 1 /\ r[h + 1].kind = "length" THEN r[h + 1].n ELSE len,
                        has \/ (i > 1 /\ r[h + 1].kind = "length"))
  <2>1. CASE i > 1 /\ r[h + 1].kind = "length"
    <3>1. h + 1 \in 1 .. h + i /\ \A j \in (h + 1) + 1 .. h + i : r[j].kind # "length"
      BY <1>3
    <3> QED
      BY <2>1, <3>1 DEF LengthRead
  <2>2. CASE ~(i > 1 /\ r[h + 1].kind = "length")
    <3>1. r[h + 1].kind # "length"
      BY <2>2 DEF EndOfLine
    <3>2. \A k \in h + 1 .. h + i : r[k].kind # "length"
      BY <1>3, <3>1
    <3>4. ASSUME has, NEW m \in 1 .. h, r[m].kind = "length", len = r[m].n,
                 \A j \in m + 1 .. h : r[j].kind # "length"
          PROVE  LengthRead(r, h + i, len, has)
      <4>1. m \in 1 .. h + i /\ \A j \in m + 1 .. h + i : r[j].kind # "length"
        BY <3>2, <3>4
      <4>2. \E k \in 1 .. h + i : /\ r[k].kind = "length" /\ len = r[k].n
                                  /\ \A j \in k + 1 .. h + i : r[j].kind # "length"
        BY <3>4, <4>1
      <4> QED
        BY <3>4, <4>2, Zenon DEF LengthRead
    <3>5. LengthRead(r, h + i, len, has)
      <4>1. CASE has
        <5>1. PICK m \in 1 .. h : /\ r[m].kind = "length" /\ len = r[m].n
                                 /\ \A j \in m + 1 .. h : r[j].kind # "length"
          BY <1>5, <4>1, Zenon DEF LengthRead
        <5> QED
          BY <3>4, <4>1, <5>1, Zenon
      <4>2. CASE ~has
        <5>1. ~has /\ len = 0 /\ \A k \in 1 .. h : r[k].kind # "length"
          BY <1>5, <4>2, Zenon DEF LengthRead
        <5>2. \A k \in 1 .. h + i : r[k].kind # "length"
          BY <3>2, <5>1
        <5> QED
          BY <5>1, <5>2, Zenon DEF LengthRead
      <4> QED
        BY <4>1, <4>2
    <3>6. /\ (IF i > 1 /\ r[h + 1].kind = "length" THEN r[h + 1].n ELSE len) = len
          /\ (has \/ (i > 1 /\ r[h + 1].kind = "length")) = has
      BY <2>2
    <3> QED
      BY <3>5, <3>6
  <2> QED
    BY <2>1, <2>2
<1> QED
  BY <1>3, <1>4, <1>5
-----------------------------------------------------------------------------
(* Each step of a connection keeps the invariant.                          *)

\* No connection yet: nothing has been received.
LEMMA HttpInit == HInit => HttpInv
<1> SUFFICES ASSUME HInit PROVE HttpInv
  OBVIOUS
<1>1. << >> \in Seq(Unit) /\ Len(<< >>) = 0
  OBVIOUS
<1>2. /\ response = << >> /\ stream = << >> /\ buf = << >> /\ cstate = "idle" /\ pc = "none"
      /\ contentLength = 0 /\ hasLength = FALSE /\ eof = FALSE
  BY DEF HInit
<1>3. HTypeOK
  BY <1>1, <1>2 DEF HTypeOK, CStates
<1>4. Pieces
  BY <1>1, <1>2 DEF Pieces, Consumed, Got
<1> QED
  BY <1>2, <1>3, <1>4 DEF HttpInv, Control, Content

\* The lengths and the pieces are numbers and units of the response.
LEMMA LengthsKnown ==
    ASSUME HttpInv
    PROVE  /\ response \in Seq(Unit) /\ Len(response) \in Nat
           /\ Len(stream) \in Nat /\ Len(buf) \in Nat
           /\ Consumed \in Nat /\ Got \in 0 .. Len(response) /\ Got = Consumed + Len(buf)
<1>1. response \in Seq(Unit) /\ stream \in Seq(Unit) /\ buf \in Seq(Unit)
  BY ConnectionAssumption, EmptySeq DEF HttpInv, HTypeOK
<1>2. Len(response) \in Nat /\ Len(stream) \in Nat /\ Len(buf) \in Nat
  BY <1>1
<1> QED
  BY <1>1, <1>2 DEF HttpInv, Pieces, Consumed, Got

\* A step that leaves what was received alone and does not end anything.
LEMMA Frame ==
    ASSUME HttpInv, UNCHANGED <<response, stream, buf, cstate, parsed, eof>>, Control',
           pc' = "done" /\ cstate \in {"idle", "closed"} => AtBody /\ Len(buf) >= contentLength
    PROVE  HttpInv'
<1>1. HTypeOK' /\ Pieces'
  BY DEF HttpInv, HTypeOK, Pieces, parsed, Consumed, Got
<1>2. /\ Consumed' = Consumed /\ Parsed' = Parsed /\ AtBody' = AtBody /\ Cut' = Cut
  BY DEF parsed, Consumed, Got, Parsed, AtBody, Cut, Delivered
<1>3. Content'
  BY <1>2 DEF HttpInv, Content, parsed
<1> QED
  BY <1>1, <1>3 DEF HttpInv

\* A new connection: nothing of its response has been read.
LEMMA ConnectGood == ASSUME HttpInv, Connect PROVE HttpInv'
<1>1. /\ response' \in Responses /\ stream' = response' /\ buf' = << >> /\ buf = << >>
      /\ cstate' = "idle" /\ pc' = "send" /\ ~eof' /\ UNCHANGED <<cstate, eof, contentLength, hasLength>>
  BY DEF Connect, HttpInv, Control, parsed, Goto
<1>2. response' \in Seq(Unit) /\ Len(response') \in Nat /\ Len(buf') = 0
  BY <1>1, ConnectionAssumption
<1>3. HTypeOK'
  <2>1. buf' \in Seq(Unit) /\ stream' \in Seq(Unit)
    BY <1>1, <1>2, EmptySeq
  <2>2. cstate' \in CStates /\ contentLength' \in Nat
    BY <1>1 DEF HttpInv, HTypeOK
  <2>3. hasLength' \in BOOLEAN /\ eof' \in BOOLEAN
    BY <1>1, Zenon DEF HttpInv, HTypeOK
  <2>4. response' \in Responses \cup {<<>>}
    BY <1>1
  <2> QED
    BY <2>1, <2>2, <2>3, <2>4 DEF HTypeOK
<1>4. Got' = 0 /\ Consumed' = 0
  <2>1. Len(stream') = Len(response')
    BY <1>1
  <2> QED
    BY <1>2, <2>1 DEF Got, Consumed
<1>5. Pieces'
  BY <1>1, <1>2, <1>4 DEF Pieces
<1> QED
  BY <1>1, <1>3, <1>5 DEF HttpInv, Control, Content

\* The end of a connection.
LEMMA CloseGood == ASSUME HttpInv, Close PROVE HttpInv'
<1>1. << >> \in Seq(Unit) /\ Len(<< >>) = 0
  OBVIOUS
<1>2. /\ response' = << >> /\ stream' = << >> /\ buf' = << >> /\ cstate' = "idle" /\ pc' = "none"
      /\ contentLength' = 0 /\ hasLength' = FALSE /\ eof' = FALSE
  BY DEF Close, Goto
<1>3. HTypeOK'
  BY <1>1, <1>2 DEF HTypeOK, CStates
<1>4. Pieces'
  BY <1>1, <1>2 DEF Pieces, Consumed, Got
<1> QED
  BY <1>2, <1>3, <1>4 DEF HttpInv, Control, Content

\* A read of k units, behind those in the buffer.
LEMMA PieceGood ==
    ASSUME HttpInv, NEW k \in 1 .. Len(stream),
           buf' = buf \o SubSeq(stream, 1, k), stream' = SubSeq(stream, k + 1, Len(stream)),
           UNCHANGED <<response, cstate, parsed, eof>>,
           pc' \in {"parse", "checkBody"}, Control', cstate # "broken"
    PROVE  HttpInv'
<1>1. /\ stream \in Seq(Unit) /\ buf \in Seq(Unit) /\ Len(stream) \in Nat /\ Len(buf) \in Nat
      /\ Len(response) \in Nat /\ Consumed \in Nat /\ Got \in 0 .. Len(response)
      /\ Got = Consumed + Len(buf)
  BY LengthsKnown DEF HttpInv, HTypeOK
<1>2. PICK p : p = SubSeq(stream, 1, k)
  OBVIOUS
<1>3. p \in Seq(Unit) /\ Len(p) = k /\ \A j \in 1 .. k : p[j] = stream[j]
  BY <1>1, <1>2
<1>4. /\ stream' \in Seq(Unit) /\ Len(stream') = Len(stream) - k
      /\ \A j \in 1 .. Len(stream) - k : stream'[j] = stream[k + j]
  <2>1. \A j \in k + 1 .. Len(stream) : stream[j] \in Unit
    BY <1>1
  <2>2. /\ stream' \in Seq(Unit)
        /\ Len(stream') = IF k + 1 <= Len(stream) THEN Len(stream) - (k + 1) + 1 ELSE 0
        /\ \A j \in 1 .. Len(stream) - (k + 1) + 1 : stream'[j] = stream[(k + 1) + j - 1]
    BY <1>1, <2>1, SubSeqProperties
  <2> QED
    BY SMTT(30), <1>1, <2>2
<1>5. /\ buf' \in Seq(Unit) /\ Len(buf') = Len(buf) + k
      /\ \A j \in 1 .. Len(buf) : buf'[j] = buf[j]
      /\ \A j \in 1 .. k : buf'[Len(buf) + j] = stream[j]
  BY <1>1, <1>2, <1>3
<1>6. Got' = Got + k /\ Consumed' = Consumed
  <2>1. PICK n \in Nat, m \in Nat, h \in Nat :
            n = Len(response) /\ m = Len(stream) /\ h = Len(buf)
    BY <1>1
  <2>2. Len(response') = n /\ Len(stream') = m - k /\ Len(buf') = h + k /\ k \in Nat
    BY <1>1, <1>4, <1>5, <2>1
  <2>3. Got = n - m /\ Got' = n - (m - k)
    BY <2>1, <2>2 DEF Got
  <2>4. Consumed = (n - m) - h /\ Consumed' = (n - (m - k)) - (h + k)
    BY <2>1, <2>2, <2>3 DEF Consumed
  <2> QED
    BY <2>2, <2>3, <2>4
<1>7. HTypeOK'
  BY <1>4, <1>5 DEF HttpInv, HTypeOK, parsed
<1>8. Pieces'
  <2>1. ASSUME NEW j \in 1 .. Len(buf') PROVE buf'[j] = response'[Consumed' + j]
    <3>1. CASE j <= Len(buf)
      BY <1>1, <1>5, <1>6, <2>1, <3>1 DEF HttpInv, Pieces
    <3>2. CASE j > Len(buf)
      <4>1. PICK i \in 1 .. k : j = Len(buf) + i
        <5>1. j - Len(buf) \in 1 .. k /\ j = Len(buf) + (j - Len(buf))
          BY <1>1, <1>5, <2>1, <3>2
        <5> QED
          BY <5>1
      <4>2. i \in 1 .. Len(stream) /\ Got + i = Consumed + j
        BY <1>1, <4>1
      <4>3. buf'[j] = stream[i] /\ stream[i] = response[Got + i]
        BY <1>5, <4>1, <4>2 DEF HttpInv, Pieces
      <4> QED
        BY <1>6, <4>2, <4>3
    <3>3. j \in Int
      OBVIOUS
    <3> QED
      BY <1>1, <3>1, <3>2, <3>3
  <2>2. ASSUME NEW j \in 1 .. Len(stream') PROVE stream'[j] = response'[Got' + j]
    <3>1. j \in 1 .. Len(stream) - k
      BY <1>4, <2>2
    <3>2. k + j \in 1 .. Len(stream) /\ Got + (k + j) = Got' + j
      BY <1>1, <1>6, <3>1
    <3> QED
      BY <1>4, <3>1, <3>2 DEF HttpInv, Pieces
  <2> QED
    <3>1. Consumed' >= 0
      BY <1>1, <1>6
    <3> QED
      BY <2>1, <2>2, <3>1 DEF Pieces
<1>9. Content'
  BY <1>6 DEF HttpInv, Content, parsed, Parsed, AtBody
<1> QED
  BY <1>7, <1>8, <1>9 DEF HttpInv

\* A read that finds the end of the connection.
LEMMA EofGood ==
    ASSUME HttpInv, eof' = TRUE, UNCHANGED <<response, buf, stream, cstate, parsed>>,
           pc' \in {"parse", "checkBody"}, Control', cstate # "broken"
    PROVE  HttpInv'
<1>1. HTypeOK' /\ Pieces' /\ Consumed' = Consumed
  BY DEF HttpInv, HTypeOK, Pieces, parsed, Consumed, Got
<1>2. Content'
  BY <1>1 DEF HttpInv, Content, parsed, Parsed, AtBody
<1> QED
  BY <1>1, <1>2 DEF HttpInv

\* read() at either place.
LEMMA ReadGood ==
    ASSUME HttpInv, ReadHeaders \/ ReadBody
    PROVE  HttpInv'
<1>1. /\ <<pc, pc'>> \in {<<"readHeaders", "parse">>, <<"readBody", "checkBody">>}
      /\ UNCHANGED <<response, cstate, parsed>>
      /\ \/ \E k \in 1 .. Len(stream) :
               /\ buf' = buf \o SubSeq(stream, 1, k)
               /\ stream' = SubSeq(stream, k + 1, Len(stream))
               /\ UNCHANGED eof
         \/ eof' = TRUE /\ UNCHANGED <<buf, stream>>
  BY DEF ReadHeaders, ReadBody, Read, Goto, request
<1>2. /\ cstate # "broken"
      /\ pc' = "parse" => ReadingHeaders /\ ~HasLine /\ ~eof
      /\ pc' = "checkBody" => cstate = "body"
  BY <1>1 DEF HttpInv, Control, ReadingHeaders
<1>3. pc' = "parse" /\ eof' => UNCHANGED <<buf, cstate>>
  BY <1>1, <1>2
<1>4. Control'
  BY <1>1, <1>2, <1>3 DEF Control, ReadingHeaders, HasLine
<1> QED
  BY <1>1, <1>2, <1>4, PieceGood, EofGood

\* A line in the buffer has a first end.
LEMMA FirstEndIs ==
    ASSUME buf \in Seq(Unit), HasLine
    PROVE  /\ FirstEnd \in 1 .. Len(buf) /\ EndOfLine(buf[FirstEnd])
           /\ \A j \in 1 .. FirstEnd - 1 : ~EndOfLine(buf[j])
<1> DEFINE S == {i \in 1 .. Len(buf) : EndOfLine(buf[i])}
<1>1. DOMAIN buf = 1 .. Len(buf) /\ Len(buf) \in Nat
  OBVIOUS
<1>2. S \in SUBSET Nat /\ S # {}
  BY <1>1 DEF HasLine
<1>3. PICK i \in S : \A k \in S : ~(<<k, i>> \in OpToRel(<, Nat))
  <2> HIDE DEF S
  <2>1. IsWellFoundedOn(OpToRel(<, Nat), Nat)
    BY NatLessThanWellFounded
  <2> QED
    BY <1>2, <2>1, WFMin, Zenon
<1>4. \A k \in S : ~(k < i)
  BY <1>2, <1>3 DEF OpToRel
<1>5. \A j \in 1 .. i - 1 : ~EndOfLine(buf[j])
  <2> SUFFICES ASSUME NEW j \in 1 .. i - 1, EndOfLine(buf[j]) PROVE FALSE
    OBVIOUS
  <2>1. i \in 1 .. Len(buf)
    BY <1>3
  <2>2. j \in 1 .. Len(buf) /\ j < i
    BY <1>1, <2>1
  <2> QED
    BY <1>4, <2>2
<1>6. i \in DOMAIN buf /\ EndOfLine(buf[i])
  BY <1>1, <1>3
<1>7. FirstEnd \in DOMAIN buf /\ EndOfLine(buf[FirstEnd])
      /\ \A j \in 1 .. FirstEnd - 1 : ~EndOfLine(buf[j])
  BY <1>5, <1>6 DEF FirstEnd
<1> QED
  BY <1>1, <1>7

\* What the parser leaves of the buffer, and that this is the response still.
LEMMA RestIs ==
    ASSUME HttpInv, NEW i \in 1 .. Len(buf), buf' = Rest(i), UNCHANGED <<response, stream>>
    PROVE  /\ buf' \in Seq(Unit) /\ Len(buf') = Len(buf) - i
           /\ Got' = Got /\ Consumed' = Consumed + i /\ Consumed + i <= Len(response)
           /\ Pieces'
<1>1. /\ buf \in Seq(Unit) /\ Len(buf) \in Nat /\ Len(response) \in Nat
      /\ Consumed \in Nat /\ Got \in 0 .. Len(response) /\ Got = Consumed + Len(buf)
  BY LengthsKnown DEF HttpInv, HTypeOK
<1>2. /\ buf' \in Seq(Unit) /\ Len(buf') = Len(buf) - i
      /\ \A j \in 1 .. Len(buf) - i : buf'[j] = buf[i + j]
  <2>1. \A j \in i + 1 .. Len(buf) : buf[j] \in Unit
    BY <1>1
  <2>2. /\ buf' \in Seq(Unit)
        /\ Len(buf') = IF i + 1 <= Len(buf) THEN Len(buf) - (i + 1) + 1 ELSE 0
        /\ \A j \in 1 .. Len(buf) - (i + 1) + 1 : buf'[j] = buf[(i + 1) + j - 1]
    BY <1>1, <2>1, SubSeqProperties DEF Rest
  <2> QED
    BY SMTT(30), <1>1, <2>2
<1>3. Got' = Got
  BY DEF Got
<1>4. Consumed' = Consumed + i
  BY <1>1, <1>2, <1>3 DEF Consumed
<1>5. \A j \in 1 .. Len(buf') : buf'[j] = response'[Consumed' + j]
  <2> SUFFICES ASSUME NEW j \in 1 .. Len(buf') PROVE buf'[j] = response[Consumed + i + j]
    BY <1>4
  <2>1. i + j \in 1 .. Len(buf) /\ Consumed + (i + j) = Consumed + i + j
    BY <1>1, <1>2
  <2> QED
    BY <1>2, <2>1 DEF HttpInv, Pieces
<1>6. Pieces'
  BY <1>1, <1>3, <1>4, <1>5 DEF HttpInv, Pieces
<1> QED
  BY <1>1, <1>2, <1>3, <1>4, <1>6

\* A line of the headers is parsed.
LEMMA ParseLineGood == ASSUME HttpInv, ParseLine PROVE HttpInv'
<1>1. /\ buf \in Seq(Unit) /\ Len(buf) \in Nat /\ Len(response) \in Nat /\ response \in Seq(Unit)
      /\ Consumed \in Nat /\ Got \in 0 .. Len(response) /\ Got = Consumed + Len(buf)
      /\ contentLength \in Nat /\ hasLength \in BOOLEAN
  BY LengthsKnown DEF HttpInv, HTypeOK
<1>2. PICK i : i = FirstEnd
  OBVIOUS
<1>3. /\ i \in 1 .. Len(buf) /\ EndOfLine(buf[i])
      /\ \A j \in 1 .. i - 1 : ~EndOfLine(buf[j])
  BY <1>1, <1>2, FirstEndIs DEF ParseLine
<1>4. /\ pc = "parse" /\ pc' = "parse" /\ ReadingHeaders /\ HasLine /\ buf' = Rest(i)
      /\ UNCHANGED <<response, stream, eof>>
  BY <1>2 DEF ParseLine, request
<1>5. ~eof
  BY <1>4 DEF HttpInv, Control
<1>6. /\ buf' \in Seq(Unit) /\ Consumed' = Consumed + i /\ Consumed + i <= Len(response) /\ Pieces'
  BY <1>3, <1>4, RestIs
<1>7. PICK r, h : r = response /\ h = Consumed
  OBVIOUS
<1>8. r \in Responses /\ h \in Nat /\ i \in Nat /\ i >= 1 /\ h + i <= Len(r)
  <2>1. r # << >>
    BY <1>1, <1>3, <1>6, <1>7
  <2> QED
    BY <1>1, <1>3, <1>6, <1>7, <2>1 DEF HttpInv, HTypeOK
<1>9. \A j \in 1 .. i : buf[j] = r[h + j]
  <2>1. \A j \in 1 .. Len(buf) : buf[j] = r[h + j]
    BY <1>7 DEF HttpInv, Pieces
  <2>2. \A j \in 1 .. i : j \in 1 .. Len(buf)
    BY <1>1, <1>3
  <2> QED
    BY <2>1, <2>2
<1>10. EndOfLine(r[h + i]) /\ \A j \in 1 .. i - 1 : ~EndOfLine(r[h + j])
  BY <1>3, <1>9
<1>11. buf[1] = r[h + 1] /\ r[h + 1] \in Unit
  <2>1. 1 \in 1 .. i /\ h + 1 \in 1 .. Len(r) /\ r \in Seq(Unit)
    BY <1>1, <1>7, <1>8
  <2> QED
    BY <1>9, <2>1
<1>12. /\ i > 1 /\ NoEmptyLine(r, h) => NoEmptyLine(r, h + i)
       /\ \A len \in Nat, has \in BOOLEAN : LengthRead(r, h, len, has) =>
             LengthRead(r, h + i,
                        IF i > 1 /\ r[h + 1].kind = "length" THEN r[h + 1].n ELSE len,
                        has \/ (i > 1 /\ r[h + 1].kind = "length"))
  BY <1>8, <1>10, LineRead
<1>13. CASE cstate = "waiting"
  <2>1. /\ h = 0 /\ contentLength = 0 /\ hasLength = FALSE
        /\ contentLength' = 0 /\ hasLength' = FALSE
    BY <1>1, <1>7, <1>13 DEF HttpInv, Content, ParseLine
  <2>2. CASE IsStatusLine(i)
    <3>1. /\ cstate' = "headers" /\ status' = buf[1].n /\ i > 1 /\ buf[1].kind = "status"
      BY <1>2, <1>13, <2>2 DEF ParseLine, IsStatusLine
    <3>0. h + i = i
      BY <1>8, <2>1
    <3>2. NoEmptyLine(r, i)
      <4>1. NoEmptyLine(r, 0)
        BY DEF NoEmptyLine
      <4>2. NoEmptyLine(r, h + i)
        BY <1>12, <2>1, <3>1, <4>1
      <4> QED
        BY <3>0, <4>2
    <3>3. LengthRead(r, 0, 0, FALSE)
      BY DEF LengthRead
    <3>4. LengthRead(r, i, 0, FALSE)
      <4>1. r[h + 1].kind # "length"
        BY <1>11, <3>1
      <4>2. LengthRead(r, h, 0, FALSE)
        BY <2>1, <3>3
      <4>3. LengthRead(r, h + i,
                       IF i > 1 /\ r[h + 1].kind = "length" THEN r[h + 1].n ELSE 0,
                       FALSE \/ (i > 1 /\ r[h + 1].kind = "length"))
        BY <1>12, <4>2
      <4>4. /\ (IF i > 1 /\ r[h + 1].kind = "length" THEN r[h + 1].n ELSE 0) = 0
            /\ (FALSE \/ (i > 1 /\ r[h + 1].kind = "length")) = FALSE
        BY <4>1
      <4> QED
        BY <3>0, <4>3, <4>4
    <3>5. Consumed' = i /\ response' = r
      BY <1>4, <1>6, <1>7, <1>8, <2>1
    <3>6. Parsed'
      <4>1. r # << >> /\ r[1].kind = "status" /\ status' = r[1].n /\ i >= 2
        BY <1>8, <1>11, <2>1, <3>1
      <4>2. LengthRead(r, i, contentLength', hasLength')
        BY <2>1, <3>4
      <4> QED
        BY <3>5, <4>1, <4>2 DEF Parsed
    <3>7. EndOfLine(response'[Consumed']) /\ NoEmptyLine(response', Consumed')
      BY <1>8, <1>10, <2>1, <3>2, <3>5
    <3>8. Content'
      BY <1>4, <3>1, <3>6, <3>7 DEF Content
    <3>9. HTypeOK'
      BY <1>4, <1>6, <2>1, <3>1 DEF HttpInv, HTypeOK, CStates
    <3>10. Control'
      BY <1>4, <1>5, <3>1 DEF Control
    <3> QED
      BY <1>6, <3>8, <3>9, <3>10 DEF HttpInv
  <2>3. CASE ~IsStatusLine(i)
    <3>1. cstate' = "broken"
      BY <1>2, <1>13, <2>3 DEF ParseLine
    <3>2. r[1].kind # "status"
      BY <1>3, <1>8, <1>11, <2>1, <2>3 DEF IsStatusLine, EndOfLine
    <3>3. Cut'
      BY <1>4, <1>7, <3>2 DEF Cut, WellFormed
    <3>4. Content'
      BY <1>4, <3>1, <3>3 DEF Content
    <3>5. HTypeOK'
      BY <1>4, <1>6, <2>1, <3>1 DEF HttpInv, HTypeOK, CStates
    <3>6. Control'
      BY <1>4, <1>5, <3>1 DEF Control
    <3> QED
      BY <1>6, <3>4, <3>5, <3>6 DEF HttpInv
  <2> QED
    BY <2>2, <2>3
<1>14. CASE cstate = "headers"
  <2>1. /\ r # << >> /\ r[1].kind = "status" /\ status = r[1].n /\ h >= 2
        /\ LengthRead(r, h, contentLength, hasLength)
        /\ EndOfLine(r[h]) /\ NoEmptyLine(r, h)
    BY <1>7, <1>14 DEF HttpInv, Content, Parsed
  <2>2. /\ cstate' = IF i = 1 THEN "body" ELSE "headers"
        /\ contentLength' = IF i > 1 /\ r[h + 1].kind = "length" THEN r[h + 1].n ELSE contentLength
        /\ hasLength' = (hasLength \/ (i > 1 /\ r[h + 1].kind = "length"))
        /\ status' = status
    BY <1>2, <1>11, <1>14 DEF ParseLine, IsLengthLine
  <2>3. LengthRead(r, h + i, contentLength', hasLength')
    BY <1>1, <1>12, <2>1, <2>2
  <2>4. Consumed' = h + i /\ response' = r
    BY <1>4, <1>6, <1>7
  <2>5. Parsed'
    BY <1>8, <2>1, <2>2, <2>3, <2>4 DEF Parsed
  <2>6. HTypeOK'
    <3>1. contentLength' \in Nat /\ hasLength' \in BOOLEAN
      BY <1>1, <1>11, <2>2 DEF Unit
    <3>2. cstate' \in CStates
      BY <2>2 DEF CStates
    <3> QED
      BY <1>4, <1>6, <3>1, <3>2 DEF HttpInv, HTypeOK
  <2>7. Control'
    BY <1>4, <1>5, <2>2 DEF Control
  <2>8. CASE i = 1
    <3>1. EmptyLineAt(r, h + 1) /\ NoEmptyLine(r, (h + 1) - 1)
      BY <1>8, <1>10, <2>1, <2>8 DEF EmptyLineAt
    <3>2. AtBody'
      BY <2>4, <2>5, <2>8, <3>1 DEF AtBody
    <3>3. Content'
      BY <1>4, <2>2, <2>8, <3>2 DEF Content
    <3> QED
      BY <1>6, <2>6, <2>7, <3>3 DEF HttpInv
  <2>9. CASE i > 1
    <3>1. NoEmptyLine(r, h + i) /\ EndOfLine(r[h + i])
      BY <1>10, <1>12, <2>1, <2>9
    <3>2. Content'
      BY <1>4, <2>2, <2>4, <2>5, <2>9, <3>1 DEF Content
    <3> QED
      BY <1>6, <2>6, <2>7, <3>2 DEF HttpInv
  <2> QED
    BY <1>8, <2>8, <2>9
<1> QED
  BY <1>4, <1>13, <1>14 DEF ReadingHeaders

\* send_request(): writing, the end of it, and what makes the program give up.
LEMMA SendGood ==
    ASSUME HttpInv, (\E k \in 1 .. RequestSize : Write(k)) \/ Sent \/ Fails
    PROVE  HttpInv'
<1>1. CASE \E k \in 1 .. RequestSize : Write(k)
  <2>1. UNCHANGED <<pc, response, stream, buf, cstate, parsed, eof>> /\ pc = "send"
    BY <1>1 DEF Write
  <2>2. Control'
    BY <2>1 DEF HttpInv, Control, HasLine, ReadingHeaders
  <2> QED
    BY <2>1, <2>2, Frame
<1>2. CASE Fails
  <2>1. UNCHANGED <<response, stream, buf, cstate, parsed, eof>> /\ pc' = "exited"
    BY <1>2 DEF Fails, WriteFails, ReadFails, ExitAt, Goto, request
  <2>2. Control'
    BY <2>1 DEF Control
  <2> QED
    BY <2>1, <2>2, Frame
<1>3. CASE Sent
  <2>1. /\ pc = "send" /\ pc' = "parse" /\ cstate' = "waiting" /\ buf' = << >>
        /\ contentLength' = 0 /\ hasLength' = FALSE /\ UNCHANGED <<response, stream, eof>>
    BY <1>3 DEF Sent, request, Goto
  <2>2. /\ stream = response /\ ~eof /\ << >> \in Seq(Unit) /\ Len(<< >>) = 0
        /\ Len(response) \in Nat
    BY <2>1, LengthsKnown, EmptySeq DEF HttpInv, Control
  <2>3. HTypeOK'
    BY <2>1, <2>2 DEF HttpInv, HTypeOK, CStates
  <2>4. Got' = 0 /\ Consumed' = 0
    <3>1. Len(stream') = Len(response') /\ Len(response') \in Nat /\ Len(buf') = 0
      BY <2>1, <2>2
    <3> QED
      BY <3>1 DEF Got, Consumed
  <2>5. Pieces'
    <3>1. \A j \in 1 .. Len(stream') : stream'[j] = response'[Got' + j]
      BY <2>1, <2>2, <2>4
    <3> QED
      BY <2>1, <2>2, <2>4, <3>1 DEF Pieces
  <2>6. Control'
    BY <2>1, <2>2 DEF Control
  <2>7. Content'
    BY <2>1, <2>4 DEF Content
  <2> QED
    BY <2>3, <2>5, <2>6, <2>7 DEF HttpInv
<1> QED
  BY <1>1, <1>2, <1>3

\* Headers that do not end in what was delivered, when there is no line left.
LEMMA HeadersCut ==
    ASSUME HttpInv, ReadingHeaders, ~HasLine
    PROVE  ~WellFormed(Delivered)
<1>1. /\ buf \in Seq(Unit) /\ Len(buf) \in Nat /\ Len(response) \in Nat /\ response \in Seq(Unit)
      /\ Consumed \in Nat /\ Got \in 0 .. Len(response) /\ Got = Consumed + Len(buf)
  BY LengthsKnown DEF HttpInv, HTypeOK
<1>2. NoEmptyLine(response, Consumed)
  <2>1. CASE cstate = "waiting"
    BY <2>1 DEF HttpInv, Content, NoEmptyLine
  <2>2. CASE cstate = "headers"
    BY <2>2 DEF HttpInv, Content
  <2> QED
    BY <2>1, <2>2 DEF ReadingHeaders
<1>3. \A k \in Consumed + 1 .. Got : ~EndOfLine(response[k])
  <2> SUFFICES ASSUME NEW k \in Consumed + 1 .. Got PROVE ~EndOfLine(response[k])
    OBVIOUS
  <2>1. k - Consumed \in 1 .. Len(buf) /\ Consumed + (k - Consumed) = k
    BY <1>1
  <2>2. buf[k - Consumed] = response[k]
    BY <2>1 DEF HttpInv, Pieces
  <2>3. ~EndOfLine(buf[k - Consumed])
    <3>1. DOMAIN buf = 1 .. Len(buf)
      BY <1>1
    <3> QED
      BY <2>1, <3>1 DEF HasLine
  <2> QED
    BY <2>2, <2>3
<1>4. NoEmptyLine(response, Got)
  <2> SUFFICES ASSUME NEW k \in 2 .. Got PROVE ~EmptyLineAt(response, k)
    BY DEF NoEmptyLine
  <2>1. CASE k <= Consumed
    BY <1>1, <1>2, <2>1 DEF NoEmptyLine
  <2>2. CASE k > Consumed
    BY <1>1, <1>3, <2>2 DEF EmptyLineAt
  <2> QED
    BY <1>1, <2>1, <2>2
<1>5. PICK d, g : d = Delivered /\ g = Got
  OBVIOUS
<1>6. Len(d) = g /\ \A j \in 1 .. g : d[j] = response[j]
  <2>1. d = SubSeq(response, 1, g)
    BY <1>5 DEF Delivered, Got
  <2> QED
    BY <1>1, <1>5, <2>1
<1>7. NoEmptyLine(d, g)
  <2> SUFFICES ASSUME NEW k \in 2 .. g PROVE ~EmptyLineAt(d, k)
    BY DEF NoEmptyLine
  <2>1. d[k] = response[k] /\ d[k - 1] = response[k - 1]
    BY <1>1, <1>5, <1>6
  <2> QED
    BY <1>4, <1>5, <2>1 DEF NoEmptyLine, EmptyLineAt
<1> QED
  BY <1>5, <1>6, <1>7, HeaderEndNone

\* The end of process_response_headers().
LEMMA ParseEndGood == ASSUME HttpInv, ParseEnd PROVE HttpInv'
<1>1. /\ pc = "parse" /\ UNCHANGED <<response, stream, buf, eof, status, contentLength, hasLength>>
      /\ UNCHANGED parsed /\ ~(ReadingHeaders /\ HasLine)
      /\ cstate' = IF eof THEN "broken" ELSE cstate
      /\ pc' = IF cstate' \in {"waiting", "headers"} THEN "readHeaders"
               ELSE IF status >= 500 THEN "exited" ELSE "gotHeaders"
  BY DEF ParseEnd, StateAfterLines, Goto, request, parsed
<1>2. CASE eof
  <2>1. cstate' = "broken" /\ pc' \in {"exited", "gotHeaders"} /\ eof'
    BY <1>1, <1>2
  <2>2. ~WellFormed(Delivered)
    BY <1>1, <1>2, HeadersCut DEF HttpInv, Control
  <2>3. Cut'
    BY <1>1, <2>1, <2>2 DEF Cut, Delivered
  <2>4. Content'
    BY <2>1, <2>3 DEF Content
  <2>5. HTypeOK'
    BY <1>1, <2>1 DEF HttpInv, HTypeOK, CStates
  <2>6. Pieces'
    BY <1>1 DEF HttpInv, Pieces, Consumed, Got
  <2>7. Control'
    BY <2>1 DEF Control
  <2> QED
    BY <2>4, <2>5, <2>6, <2>7 DEF HttpInv
<1>3. CASE ~eof
  <2>1. cstate' = cstate /\ ~eof'
    BY <1>1, <1>3
  <2>2. cstate \in {"waiting", "headers", "body", "broken"}
    BY <1>1 DEF HttpInv, Control
  <2>3. Control'
    BY <1>1, <2>1, <2>2 DEF Control, ReadingHeaders, HasLine
  <2>4. pc' # "done"
    BY <1>1
  <2> QED
    BY <1>1, <2>1, <2>3, <2>4, Frame
<1> QED
  BY <1>2, <1>3

\* receive_response_body() begins.
LEMMA ReceiveBodyGood == ASSUME HttpInv, ReceiveBody PROVE HttpInv'
<1>1. /\ pc = "gotHeaders" /\ UNCHANGED <<response, stream, buf, cstate, parsed, eof>>
      /\ pc' = IF cstate \in {"closed", "broken"} THEN "done" ELSE "checkBody"
  BY DEF ReceiveBody, Goto, request, Negative
<1>2. cstate \in {"body", "broken"}
  BY <1>1 DEF HttpInv, Control
<1>3. Control'
  BY <1>1, <1>2 DEF Control
<1> QED
  BY <1>1, <1>2, <1>3, Frame

\* Behind the headers, the buffer holds the body of what was delivered.
LEMMA BodyIsBuffer ==
    ASSUME HttpInv, AtBody
    PROVE  /\ LengthOf(response) = contentLength /\ LengthOf(Delivered) = contentLength
           /\ WellFormed(Delivered) /\ BodyOf(Delivered) = buf
<1>1. /\ buf \in Seq(Unit) /\ Len(buf) \in Nat /\ Len(response) \in Nat /\ response \in Seq(Unit)
      /\ Consumed \in Nat /\ Got \in 0 .. Len(response) /\ Got = Consumed + Len(buf)
  BY LengthsKnown DEF HttpInv, HTypeOK
<1>2. PICK r, g, e, len, has :
        r = response /\ g = Got /\ e = Consumed /\ len = contentLength /\ has = hasLength
  OBVIOUS
<1>3. /\ r \in Seq(Unit) /\ g \in 0 .. Len(r) /\ e \in 2 .. g /\ EmptyLineAt(r, e)
      /\ NoEmptyLine(r, e - 1) /\ r[1].kind = "status" /\ LengthRead(r, e, len, has)
  BY <1>1, <1>2 DEF AtBody, Parsed
<1>4. /\ LengthOf(r) = len /\ WellFormed(SubSeq(r, 1, g)) /\ LengthOf(SubSeq(r, 1, g)) = len
      /\ BodyOf(SubSeq(r, 1, g)) \in Seq(Unit) /\ Len(BodyOf(SubSeq(r, 1, g))) = g - e
      /\ \A j \in 1 .. g - e : BodyOf(SubSeq(r, 1, g))[j] = r[e + j]
  BY <1>3, DeliveredHeaders
<1>5. SubSeq(r, 1, g) = Delivered
  BY <1>2 DEF Delivered, Got
<1>6. PICK b : b = BodyOf(Delivered)
  OBVIOUS
<1>7. b \in Seq(Unit) /\ Len(b) = Len(buf) /\ \A j \in 1 .. Len(buf) : b[j] = buf[j]
  <2>1. g - e = Len(buf)
    BY <1>1, <1>2
  <2>2. \A j \in 1 .. Len(buf) : buf[j] = r[e + j]
    BY <1>2 DEF HttpInv, Pieces
  <2> QED
    BY <1>4, <1>5, <1>6, <2>1, <2>2
<1>8. b = buf
  BY <1>1, <1>7, SeqEqual
<1> QED
  BY <1>2, <1>4, <1>5, <1>6, <1>8

\* check_response_body().
LEMMA CheckBodyGood == ASSUME HttpInv, CheckBody PROVE HttpInv'
<1>1. /\ pc = "checkBody" /\ UNCHANGED <<response, stream, buf, eof, parsed>>
      /\ cstate' = IF eof THEN (IF BodyComplete THEN "closed" ELSE "broken")
                   ELSE IF BodyComplete THEN "idle" ELSE "body"
      /\ pc' = IF cstate' = "body" THEN "readBody" ELSE "done"
  BY DEF CheckBody, Goto, request
<1>2. cstate = "body" /\ AtBody /\ Len(buf) \in Nat /\ contentLength \in Nat
  BY <1>1, LengthsKnown DEF HttpInv, Control, Content, HTypeOK
<1>3. HTypeOK' /\ Pieces'
  BY <1>1 DEF HttpInv, HTypeOK, Pieces, Consumed, Got, parsed, CStates
<1>4. Control'
  BY <1>1 DEF Control
<1>5. AtBody' /\ Len(buf') = Len(buf) /\ contentLength' = contentLength
  BY <1>1, <1>2 DEF AtBody, Parsed, parsed, Consumed, Got
<1>6. CASE cstate' \in {"idle", "closed"}
  <2>1. Len(buf) >= contentLength
    BY <1>1, <1>6 DEF BodyComplete
  <2> QED
    BY <1>3, <1>4, <1>5, <1>6, <2>1 DEF HttpInv, Content
<1>7. CASE cstate' = "broken"
  <2>1. eof /\ ~(Len(buf) >= contentLength)
    BY <1>1, <1>7 DEF BodyComplete
  <2>2. Len(BodyOf(Delivered)) < LengthOf(response)
    BY <1>2, <2>1, BodyIsBuffer
  <2>3. Cut'
    BY <1>1, <2>1, <2>2 DEF Cut, Delivered
  <2> QED
    BY <1>3, <1>4, <1>7, <2>3 DEF HttpInv, Content
<1>8. CASE cstate' = "body"
  BY <1>3, <1>4, <1>5, <1>8 DEF HttpInv, Content
<1> QED
  BY <1>1, <1>6, <1>7, <1>8

\* Every step of a connection.
LEMMA HttpNext == ASSUME HttpInv, [HNext]_hvars PROVE HttpInv'
<1>1. CASE UNCHANGED hvars
  <2>1. UNCHANGED <<pc, response, stream, buf, cstate, parsed, eof>>
    BY <1>1 DEF hvars, request
  <2>2. Control'
    BY <2>1 DEF HttpInv, Control, HasLine, ReadingHeaders
  <2>3. pc' = "done" /\ cstate \in {"idle", "closed"} => AtBody /\ Len(buf) >= contentLength
    BY <2>1 DEF HttpInv, Content
  <2> QED
    BY <2>1, <2>2, <2>3, Frame
<1>2. CASE Connect
  BY <1>2, ConnectGood
<1>3. CASE Close
  BY <1>3, CloseGood
<1>4. CASE (\E k \in 1 .. RequestSize : Write(k)) \/ Sent \/ Fails
  BY <1>4, SendGood
<1>5. CASE ParseLine
  BY <1>5, ParseLineGood
<1>6. CASE ParseEnd
  BY <1>6, ParseEndGood
<1>7. CASE ReadHeaders \/ ReadBody
  BY <1>7, ReadGood
<1>8. CASE ReceiveBody
  BY <1>8, ReceiveBodyGood
<1>9. CASE CheckBody
  BY <1>9, CheckBodyGood
<1> QED
  BY <1>1, <1>2, <1>3, <1>4, <1>5, <1>6, <1>7, <1>8, <1>9 DEF HNext, Work

\* The invariant holds in every state of a connection.
LEMMA HttpInvHolds == HSpec => []HttpInv
<1> QED
  BY HttpInit, HttpNext, PTL DEF HSpec

-----------------------------------------------------------------------------
(* What the caller can rely on.                                            *)

\* A connection that ends well holds the status and exactly the body of what
\* the server sent, however it was cut into reads (BodyExact): the contract of
\* receive_response_headers() and receive_response_body().
THEOREM BodiesAreExact == HSpec => []BodyExact
<1>1. ASSUME HttpInv PROVE BodyExact
  <2> SUFFICES ASSUME pc = "done", cstate \in {"idle", "closed"}
               PROVE  /\ WellFormed(Delivered) /\ status = response[1].n
                      /\ buf = BodyOf(Delivered) /\ Len(buf) >= LengthOf(Delivered)
    BY DEF BodyExact
  <2>1. AtBody /\ Len(buf) >= contentLength
    BY <1>1 DEF HttpInv, Content
  <2> QED
    BY <1>1, <2>1, BodyIsBuffer DEF AtBody, Parsed
<1> QED
  BY <1>1, HttpInvHolds, PTL

\* A well-formed response is given up only if its connection ended before its
\* headers or the length they announce were complete (BrokenMeansCut).
THEOREM OnlyCutsBreak == HSpec => []BrokenMeansCut
<1>1. ASSUME HttpInv PROVE BrokenMeansCut
  BY <1>1 DEF HttpInv, Content, Cut, BrokenMeansCut
<1> QED
  BY <1>1, HttpInvHolds, PTL

-----------------------------------------------------------------------------
(* The board, for every size, number of balls and sticky cells, and any     *)
(* order of the calls.                                                     *)

\* The size of the board does not change, so nor do its cells.
LEMMA SizeKeeps ==
    ASSUME UNCHANGED size
    PROVE  Xs' = Xs /\ Ys' = Ys /\ Cells' = Cells /\ width' = width /\ height' = height
BY DEF size, Xs, Ys, Cells

\* Every board has a row and a column.
LEMMA SizePositive ==
    ASSUME size \in Sizes
    PROVE  width \in Nat \ {0} /\ height \in Nat \ {0}
BY BoardAssumption DEF size

\* A moving ball still moves along both axes after it has looked at the edges.
LEMMA BounceMoving ==
    ASSUME BoardInv, NEW b \in balls, ~Stopped(b)
    PROVE  BounceX(b) \in {-1, 1} /\ BounceY(b) \in {-1, 1}
<1>1. dx[b] \in -1 .. 1 /\ dy[b] \in -1 .. 1
  BY DEF BoardInv, BoardTypeOK
<1>2. dx[b] # 0 /\ dy[b] # 0
  BY DEF BoardInv, StoppedOnSticky, Stopped
<1>3. dx[b] \in {-1, 1} /\ dy[b] \in {-1, 1}
  BY <1>1, <1>2
<1> QED BY <1>3 DEF BounceX, BounceY

\* Creating a cell, a ball: everything keeps its type and its place.
LEMMA MakeStickyKeeps ==
    ASSUME BoardInv, NEW c \in Cells, MakeSticky(c[1], c[2])
    PROVE  BoardInv'
<1>1. <<c[1], c[2]>> \in Cells
  BY DEF Cells
<1>2. UNCHANGED size /\ Xs' = Xs /\ Ys' = Ys /\ Cells' = Cells
  BY SizeKeeps DEF MakeSticky
<1> QED
  BY <1>1, <1>2 DEF BoardInv, BoardTypeOK, Stored, StoppedOnSticky, Stopped, MakeSticky

LEMMA NewBallKeeps ==
    ASSUME BoardInv, NEW b \in Balls, NEW c \in Cells,
           NEW di \in {-1, 1}, NEW dj \in {-1, 1}, NewBall(b, c[1], c[2], di, dj)
    PROVE  BoardInv'
<1> DEFINE i == c[1]  j == c[2]
<1>1. i \in Xs /\ j \in Ys /\ <<i, j>> \in Cells /\ b \notin balls /\ ballAt[<<i, j>>] = NoBall
  BY DEF Cells, NewBall, BallIn, OnBoard
<1>2. /\ balls' = balls \cup {b} /\ sticky' = sticky /\ size' = size
      /\ x' = [x EXCEPT ![b] = i] /\ y' = [y EXCEPT ![b] = j]
      /\ dx' = [dx EXCEPT ![b] = di] /\ dy' = [dy EXCEPT ![b] = dj]
      /\ ballAt' = [ballAt EXCEPT ![<<i, j>>] = b]
  BY DEF NewBall
<1>cells. Xs' = Xs /\ Ys' = Ys /\ Cells' = Cells
  BY <1>2, SizeKeeps
<1> HIDE DEF i, j
<1>3. BoardTypeOK'
  BY <1>1, <1>2, <1>cells DEF BoardInv, BoardTypeOK
<1>4. Stored'
  BY <1>1, <1>2, <1>cells DEF BoardInv, BoardTypeOK, Stored, Balls, NoBall
<1>5. StoppedOnSticky'
  BY <1>1, <1>2 DEF BoardInv, BoardTypeOK, StoppedOnSticky, Stopped
<1> QED BY <1>3, <1>4, <1>5 DEF BoardInv

\* A collision: the other ball is not the one that moves, and both end up with
\* both components zero or neither.
LEMMA CollideKeeps ==
    ASSUME BoardInv, NEW b \in balls, ~Stopped(b),
           BallIn(NextX(b), NextY(b)) # NoBall,
           Collide(b, BallIn(NextX(b), NextY(b))),
           UNCHANGED <<size, sticky, balls>>
    PROVE  BoardInv'
<1> DEFINE c == BallIn(NextX(b), NextY(b))
           mx == BounceX(b)
           my == BounceY(b)
<1>1. /\ mx \in {-1, 1} /\ my \in {-1, 1}
  BY BounceMoving
<1>2. /\ <<NextX(b), NextY(b)>> \in Cells
      /\ c \in balls
      /\ NextX(b) = x[c]
  BY DEF BallIn, OnBoard, BoardInv, Stored
<1>3. c # b
  <2>1. NextX(b) = x[b] + mx /\ x[b] \in Xs
    BY DEF NextX, BoardInv, BoardTypeOK
  <2> QED BY <1>1, <1>2, <2>1 DEF Xs
<1>4. /\ dx' = Exchanged(dx, b, c, mx) /\ dy' = Exchanged(dy, b, c, my)
      /\ UNCHANGED <<ballAt, x, y, sticky, balls>>
  BY DEF Collide
<1>5. /\ b \in Balls /\ c \in Balls /\ balls \subseteq Balls
      /\ dx \in [Balls -> -1 .. 1] /\ dy \in [Balls -> -1 .. 1]
  BY <1>2 DEF BoardInv, BoardTypeOK
<1> HIDE DEF c, mx, my
<1>6. /\ dx' \in [Balls -> -1 .. 1] /\ dy' \in [Balls -> -1 .. 1]
  BY <1>1, <1>4, <1>5 DEF Exchanged
<1>7. /\ dx'[b] # 0 /\ dy'[b] # 0 /\ dx'[c] # 0 /\ dy'[c] # 0
      /\ \A a \in balls \ {b, c} : dx'[a] = dx[a] /\ dy'[a] = dy[a]
  BY <1>1, <1>3, <1>4, <1>5 DEF Exchanged
<1>cells. size' = size /\ Xs' = Xs /\ Ys' = Ys /\ Cells' = Cells
  BY SizeKeeps
<1>8. BoardTypeOK' /\ Stored'
  BY <1>4, <1>6, <1>cells DEF BoardInv, BoardTypeOK, Stored
<1>9. StoppedOnSticky'
  BY <1>4, <1>7 DEF BoardInv, StoppedOnSticky, Stopped
<1> QED BY <1>8, <1>9 DEF BoardInv

\* Turning back: only the ball's own direction changes.
LEMMA ReverseKeeps ==
    ASSUME BoardInv, NEW b \in balls, ~Stopped(b), Reverse(b),
           UNCHANGED <<size, sticky, balls>>
    PROVE  BoardInv'
<1>1. /\ BounceX(b) \in {-1, 1} /\ BounceY(b) \in {-1, 1}
  BY BounceMoving
<1>2. b \in Balls /\ balls \subseteq Balls
  BY DEF BoardInv, BoardTypeOK
<1>cells. size' = size /\ Xs' = Xs /\ Ys' = Ys /\ Cells' = Cells
  BY SizeKeeps
<1> HIDE DEF BounceX, BounceY
<1>3. BoardTypeOK' /\ Stored'
  BY <1>1, <1>2, <1>cells DEF BoardInv, BoardTypeOK, Stored, Reverse
<1>4. StoppedOnSticky'
  BY <1>1, <1>2 DEF BoardInv, BoardTypeOK, StoppedOnSticky, Stopped, Reverse
<1> QED BY <1>3, <1>4 DEF BoardInv

\* Moving: the old cell is emptied, the new one, which was empty, is taken.
LEMMA AdvanceKeeps ==
    ASSUME BoardInv, NEW b \in balls, ~Stopped(b), NEW i, NEW j,
           OnBoard(i, j), BallIn(i, j) = NoBall, Advance(b, i, j),
           UNCHANGED <<size, sticky, balls>>
    PROVE  BoardInv'
<1>1. /\ BounceX(b) \in {-1, 1} /\ BounceY(b) \in {-1, 1}
  BY BounceMoving
<1>2. /\ b \in Balls /\ b # NoBall /\ balls \subseteq Balls
      /\ <<i, j>> \in Cells /\ i \in Xs /\ j \in Ys /\ ballAt[<<i, j>>] = NoBall
      /\ <<x[b], y[b]>> \in Cells
  BY DEF BoardInv, BoardTypeOK, OnBoard, BallIn, Cells, Balls, NoBall
<1>cells. size' = size /\ Xs' = Xs /\ Ys' = Ys /\ Cells' = Cells
  BY SizeKeeps
<1> HIDE DEF BounceX, BounceY
<1>3. BoardTypeOK'
  BY <1>1, <1>2, <1>cells DEF BoardInv, BoardTypeOK, Advance, BoardAfter
<1>4. Stored'
  <2>1. /\ x' = [x EXCEPT ![b] = i] /\ y' = [y EXCEPT ![b] = j] /\ balls' = balls
        /\ ballAt' = [ballAt EXCEPT ![<<x[b], y[b]>>] = NoBall, ![<<i, j>>] = b]
    BY DEF Advance, BoardAfter
  <2>2. /\ x \in [Balls -> Xs] /\ y \in [Balls -> Ys]
        /\ ballAt \in [Cells -> Balls \cup {NoBall}] /\ Stored
    BY DEF BoardInv, BoardTypeOK
  <2>3. \A a \in balls : (ballAt[<<x[a], y[a]>>] = a /\ <<x[a], y[a]>> \in Cells)'
    <3> SUFFICES ASSUME NEW a \in balls
                 PROVE  (ballAt[<<x[a], y[a]>>] = a /\ <<x[a], y[a]>> \in Cells)'
      OBVIOUS
    <3>1. CASE a = b
      BY <3>1, <1>2, <1>cells, <2>1, <2>2
    <3>2. CASE a # b
      <4>1. x'[a] = x[a] /\ y'[a] = y[a] /\ <<x[a], y[a]>> \in Cells
        BY <3>2, <1>2, <2>1, <2>2 DEF Cells
      <4>2. a \in Balls
        BY <1>2
      <4>3. NoBall \notin Balls
        BY DEF Balls, NoBall
      <4>4. ballAt[<<x[a], y[a]>>] = a /\ a # NoBall
        BY <2>2, <4>2, <4>3 DEF Stored
      <4>5. <<x[a], y[a]>> # <<i, j>> /\ <<x[a], y[a]>> # <<x[b], y[b]>>
        BY <4>4, <1>2, <2>2, <3>2 DEF Stored
      <4> QED BY <4>1, <4>4, <4>5, <2>1, <2>2, <1>2, <1>cells
    <3> QED BY <3>1, <3>2
  <2>4. \A c \in Cells : ballAt'[c] # NoBall =>
            ballAt'[c] \in balls /\ c = <<x'[ballAt'[c]], y'[ballAt'[c]]>>
    <3> SUFFICES ASSUME NEW c \in Cells, ballAt'[c] # NoBall
                 PROVE  ballAt'[c] \in balls /\ c = <<x'[ballAt'[c]], y'[ballAt'[c]]>>
      OBVIOUS
    <3>1. CASE c = <<i, j>>
      BY <3>1, <1>2, <2>1, <2>2
    <3>2. CASE c # <<i, j>>
      <4>1. c # <<x[b], y[b]>> /\ ballAt'[c] = ballAt[c]
        BY <3>2, <1>2, <2>1, <2>2
      <4>2. ballAt[c] \in balls /\ c = <<x[ballAt[c]], y[ballAt[c]]>>
        BY <4>1, <2>2 DEF Stored
      <4>3. ballAt[c] # b
        BY <4>1, <4>2
      <4> QED BY <4>1, <4>2, <4>3, <2>1, <2>2, <1>2
    <3> QED BY <3>1, <3>2
  <2> QED BY <2>1, <2>3, <2>4, <1>cells DEF Stored
<1>5. StoppedOnSticky'
  BY <1>1, <1>2 DEF BoardInv, BoardTypeOK, StoppedOnSticky, Stopped, Advance
<1> QED BY <1>3, <1>4, <1>5 DEF BoardInv

\* The whole of move().
LEMMA MoveKeeps ==
    ASSUME BoardInv, NEW b \in Balls, Move(b)
    PROVE  BoardInv'
<1>1. b \in balls /\ ~Stopped(b) /\ Turn(b) /\ UNCHANGED <<size, sticky, balls>>
  BY DEF Move
<1> DEFINE i == NextX(b)  j == NextY(b)
<1>2. CASE BallIn(i, j) # NoBall /\ Collide(b, BallIn(i, j))
  BY <1>1, <1>2, CollideKeeps
<1>3. CASE Reverse(b)
  BY <1>1, <1>3, ReverseKeeps
<1>4. CASE OnBoard(i, j) /\ BallIn(i, j) = NoBall /\ Advance(b, i, j)
  BY <1>1, <1>4, AdvanceKeeps
<1> QED BY <1>1, <1>2, <1>3, <1>4 DEF Turn

\* The board is empty and in order at the start.
LEMMA BoardInvInit == BoardInit => BoardInv
<1> SUFFICES ASSUME BoardInit PROVE BoardInv
  OBVIOUS
<1>1. PICK s \in Sizes : width = s[1] /\ height = s[2]
  BY DEF BoardInit
<1>2. width \in Nat \ {0} /\ height \in Nat \ {0}
  BY <1>1, BoardAssumption
<1>3. size \in Sizes
  BY <1>1, BoardAssumption DEF size
<1>4. 0 \in Xs /\ 0 \in Ys
  BY <1>2 DEF Xs, Ys
<1> QED
  BY <1>3, <1>4 DEF BoardInit, BoardInv, BoardTypeOK, Stored, StoppedOnSticky,
     Stopped, NoBall

\* The inductive invariant: types, places and motions of all balls agree.
THEOREM BoardInvariant == BoardSpec => []BoardInv
<1>1. BoardInit => BoardInv
  BY BoardInvInit
<1>2. BoardInv /\ [BoardNext]_boardVars => BoardInv'
  <2> SUFFICES ASSUME BoardInv, [BoardNext]_boardVars PROVE BoardInv'
    OBVIOUS
  <2>1. ASSUME NEW c \in Cells, MakeSticky(c[1], c[2]) PROVE BoardInv'
    BY <2>1, MakeStickyKeeps
  <2>2. ASSUME NEW b \in Balls, NEW c \in Cells, NEW di \in {-1, 1}, NEW dj \in {-1, 1},
               NewBall(b, c[1], c[2], di, dj)
        PROVE  BoardInv'
    BY <2>2, NewBallKeeps
  <2>3. ASSUME NEW b \in Balls, Move(b) PROVE BoardInv'
    BY <2>3, MoveKeeps
  <2>4. CASE UNCHANGED boardVars
    <3>1. size' = size /\ Xs' = Xs /\ Ys' = Ys /\ Cells' = Cells
      BY <2>4, SizeKeeps DEF boardVars
    <3> QED
      BY <2>4, <3>1 DEF boardVars, BoardInv, BoardTypeOK, Stored, StoppedOnSticky, Stopped
  <2> QED BY <2>1, <2>2, <2>3, <2>4 DEF BoardNext
<1> QED BY <1>1, <1>2, PTL DEF BoardSpec

\* move()'s assertion never fails: each ball is where the board says it is, and
\* the board names no ball that is elsewhere.
THEOREM BallsAreStored == BoardSpec => []Stored
<1>1. BoardInv => Stored
  BY DEF BoardInv
<1> QED BY <1>1, BoardInvariant, PTL

\* A ball rests only on a sticky cell, and never moves along one axis only.
THEOREM RestsOnSticky == BoardSpec => []StoppedOnSticky
<1>1. BoardInv => StoppedOnSticky
  BY DEF BoardInv
<1> QED BY <1>1, BoardInvariant, PTL

\* On a board of two columns and rows or more, the cell a ball turns to is on
\* the board: the branch of move() for obstacles is dead code there.
THEOREM NextCellExists == BoardSpec => []NeverBlocked
<1>1. BoardInv => NeverBlocked
  <2> SUFFICES ASSUME BoardInv, width >= 2, height >= 2, NEW b \in balls
               PROVE  OnBoard(NextX(b), NextY(b))
    BY DEF NeverBlocked
  <2>1. /\ x[b] \in Xs /\ y[b] \in Ys /\ dx[b] \in -1 .. 1 /\ dy[b] \in -1 .. 1
        /\ width \in Nat /\ height \in Nat
    BY SizePositive DEF BoardInv, BoardTypeOK
  <2>2. NextX(b) \in Xs
    BY <2>1 DEF NextX, BounceX, OnBoard, Cells, Xs
  <2>3. NextY(b) \in Ys
    BY <2>1 DEF NextY, BounceY, OnBoard, Cells, Ys
  <2> QED BY <2>2, <2>3 DEF OnBoard, Cells
<1> QED BY <1>1, BoardInvariant, PTL

\* What a call of move() does to the places of the balls: the ball that is
\* called moves to the next cell, or none does.
LEMMA MoveOrStay ==
    ASSUME BoardInv, NEW b \in Balls, Move(b)
    PROVE  \/ UNCHANGED <<x, y>>
           \/ /\ OnBoard(NextX(b), NextY(b))
              /\ x' = [x EXCEPT ![b] = NextX(b)]
              /\ y' = [y EXCEPT ![b] = NextY(b)]
<1>1. CASE Collide(b, BallIn(NextX(b), NextY(b)))
  BY <1>1 DEF Collide
<1>2. CASE Reverse(b)
  BY <1>2 DEF Reverse
<1>3. CASE OnBoard(NextX(b), NextY(b)) /\ Advance(b, NextX(b), NextY(b))
  BY <1>3 DEF Advance
<1> QED BY <1>1, <1>2, <1>3 DEF Move, Turn

\* One step along both axes keeps a cell's colour.
LEMMA DiagonalColour ==
    ASSUME NEW i \in Int, NEW j \in Int, NEW k \in {-1, 1}, NEW l \in {-1, 1}
    PROVE  ((i + k) + (j + l)) % 2 = (i + j) % 2
OBVIOUS

\* A ball never leaves the colour it was placed on.
THEOREM ColoursAreKept == BoardSpec => SameColour
<1> DEFINE Kept == \A b \in balls : (x'[b] + y'[b]) % 2 = (x[b] + y[b]) % 2
<1>1. BoardInv /\ [BoardNext]_boardVars => [Kept]_boardVars
  <2> SUFFICES ASSUME BoardInv, BoardNext, NEW a \in balls
               PROVE  (x'[a] + y'[a]) % 2 = (x[a] + y[a]) % 2
    OBVIOUS
  <2>1. /\ a \in Balls /\ balls \subseteq Balls
        /\ x \in [Balls -> Xs] /\ y \in [Balls -> Ys]
    BY DEF BoardInv, BoardTypeOK
  <2>2. ASSUME NEW c \in Cells, MakeSticky(c[1], c[2])
        PROVE  x' = x /\ y' = y
    BY <2>2 DEF MakeSticky
  <2>3. ASSUME NEW b \in Balls, NEW c \in Cells, NEW di \in {-1, 1}, NEW dj \in {-1, 1},
               NewBall(b, c[1], c[2], di, dj)
        PROVE  x'[a] = x[a] /\ y'[a] = y[a]
    BY <2>1, <2>3 DEF NewBall
  <2>4. ASSUME NEW b \in Balls, Move(b)
        PROVE  (x'[a] + y'[a]) % 2 = (x[a] + y[a]) % 2
    <3>1. CASE UNCHANGED <<x, y>>
      BY <3>1
    <3>2. CASE /\ x' = [x EXCEPT ![b] = NextX(b)]
               /\ y' = [y EXCEPT ![b] = NextY(b)]
      <4>1. CASE a # b
        BY <4>1, <3>2, <2>1
      <4>2. CASE a = b
        <5>1. BounceX(b) \in {-1, 1} /\ BounceY(b) \in {-1, 1}
          BY <2>4, BounceMoving DEF Move
        <5>2. x[a] \in Int /\ y[a] \in Int
          BY <2>1 DEF Xs, Ys
        <5>3. x'[a] = x[a] + BounceX(b) /\ y'[a] = y[a] + BounceY(b)
          BY <4>2, <3>2, <2>1 DEF NextX, NextY
        <5> QED BY <5>1, <5>2, <5>3, DiagonalColour
      <4> QED BY <4>1, <4>2
    <3> QED BY <2>4, <3>1, <3>2, MoveOrStay
  <2> QED BY <2>2, <2>3, <2>4 DEF BoardNext
<1> QED BY <1>1, BoardInvariant, PTL DEF BoardSpec, SameColour

\* On a board one cell wide or high a ball turns from one edge to the other:
\* no ball ever moves.
THEOREM NarrowBoardsAreStuck == BoardSpec => NarrowStuck
<1> DEFINE Stay == width = 1 \/ height = 1 =>
                     \A b \in balls : x'[b] = x[b] /\ y'[b] = y[b]
<1>1. BoardInv /\ [BoardNext]_boardVars => [Stay]_boardVars
  <2> SUFFICES ASSUME BoardInv, BoardNext, width = 1 \/ height = 1, NEW a \in balls
               PROVE  x'[a] = x[a] /\ y'[a] = y[a]
    OBVIOUS
  <2>1. /\ a \in Balls /\ balls \subseteq Balls
        /\ x \in [Balls -> Xs] /\ y \in [Balls -> Ys]
    BY DEF BoardInv, BoardTypeOK
  <2>2. ASSUME NEW c \in Cells, MakeSticky(c[1], c[2])
        PROVE  x'[a] = x[a] /\ y'[a] = y[a]
    BY <2>2 DEF MakeSticky
  <2>3. ASSUME NEW b \in Balls, NEW c \in Cells, NEW di \in {-1, 1}, NEW dj \in {-1, 1},
               NewBall(b, c[1], c[2], di, dj)
        PROVE  x'[a] = x[a] /\ y'[a] = y[a]
    BY <2>1, <2>3 DEF NewBall
  <2>4. ASSUME NEW b \in Balls, Move(b)
        PROVE  x'[a] = x[a] /\ y'[a] = y[a]
    <3>1. b \in balls /\ BounceX(b) \in {-1, 1} /\ BounceY(b) \in {-1, 1}
      BY <2>4, BounceMoving DEF Move
    <3>2. x[b] \in Xs /\ y[b] \in Ys
      BY <2>1
    <3>3. ~(NextX(b) \in Xs /\ NextY(b) \in Ys)
      BY <3>1, <3>2 DEF NextX, NextY, Xs, Ys
    <3>4. ~OnBoard(NextX(b), NextY(b))
      BY <3>3 DEF OnBoard, Cells
    <3> QED BY <2>4, <3>4, MoveOrStay
  <2> QED BY <2>2, <2>3, <2>4 DEF BoardNext
<1> QED BY <1>1, BoardInvariant, PTL DEF BoardSpec, NarrowStuck

\* Only a sticky cell takes a ball's motion away, only the motion of the ball
\* that moves onto it, and only in the call that moves it there.
THEOREM MotionIsKept == BoardSpec => MotionKept
<1> DEFINE Kept == \A b \in balls : ~Stopped(b) /\ Stopped(b)' =>
          /\ <<x'[b], y'[b]>> \in sticky
          /\ <<x'[b], y'[b]>> # <<x[b], y[b]>>
          /\ \A c \in balls \ {b} : x'[c] = x[c] /\ y'[c] = y[c]
<1>1. BoardInv /\ [BoardNext]_boardVars => [Kept]_boardVars
  <2> SUFFICES ASSUME BoardInv, BoardNext, NEW b \in balls, ~Stopped(b), Stopped(b)'
               PROVE  /\ <<x'[b], y'[b]>> \in sticky
                      /\ <<x'[b], y'[b]>> # <<x[b], y[b]>>
                      /\ \A c \in balls \ {b} : x'[c] = x[c] /\ y'[c] = y[c]
    OBVIOUS
  <2>1. /\ b \in Balls /\ balls \subseteq Balls
        /\ x \in [Balls -> Xs] /\ y \in [Balls -> Ys]
        /\ dx \in [Balls -> -1 .. 1] /\ dy \in [Balls -> -1 .. 1]
    BY DEF BoardInv, BoardTypeOK
  <2>2. dx[b] # 0 /\ dx'[b] = 0
    BY DEF Stopped, BoardInv, StoppedOnSticky
  <2>3. ASSUME NEW c \in Cells, MakeSticky(c[1], c[2])
        PROVE  FALSE
    BY <2>2, <2>3 DEF MakeSticky
  <2>4. ASSUME NEW a \in Balls, NEW c \in Cells, NEW di \in {-1, 1}, NEW dj \in {-1, 1},
               NewBall(a, c[1], c[2], di, dj)
        PROVE  FALSE
    BY <2>1, <2>2, <2>4 DEF NewBall
  <2>5. PICK a \in Balls : Move(a)
    BY <2>3, <2>4 DEF BoardNext
  <2>6. a \in balls /\ BounceX(a) \in {-1, 1} /\ BounceY(a) \in {-1, 1}
    BY <2>5, BounceMoving DEF Move
  <2> DEFINE i == NextX(a)  j == NextY(a)
  <2>7. CASE BallIn(i, j) # NoBall /\ Collide(a, BallIn(i, j))
    <3> DEFINE c == BallIn(i, j)  m == BounceX(a)
    <3>1. dx' = Exchanged(dx, a, c, m) /\ m \in {-1, 1}
      BY <2>6, <2>7 DEF Collide
    <3> HIDE DEF c, m
    <3> QED BY <2>1, <2>2, <2>6, <3>1 DEF Exchanged
  <2>8. CASE Reverse(a)
    BY <2>1, <2>2, <2>6, <2>8 DEF Reverse
  <2>9. CASE Advance(a, i, j)
    <3>1. dx' = [dx EXCEPT ![a] = IF <<i, j>> \in sticky THEN 0 ELSE BounceX(a)]
      BY <2>9 DEF Advance
    <3>2. a = b /\ <<i, j>> \in sticky
      BY <2>1, <2>2, <2>6, <3>1
    <3>3. /\ x' = [x EXCEPT ![b] = i] /\ y' = [y EXCEPT ![b] = j]
          /\ i = x[b] + BounceX(b) /\ x[b] \in Int
      BY <2>1, <2>9, <3>2 DEF Advance, NextX, Xs
    <3> QED BY <2>1, <2>6, <3>2, <3>3
  <2> QED BY <2>5, <2>7, <2>8, <2>9 DEF Move, Turn
<1> QED BY <1>1, BoardInvariant, PTL DEF BoardSpec, MotionKept

-----------------------------------------------------------------------------
(* The program.                                                            *)

\* The server has heard of the ball's position, or only of the one before it.
Told == served = Position
Fresh ==
    \/ served = <<>> /\ Position = <<0, 0>>
    \/ /\ served # <<>>
       /\ Apart(Position[1], served[1]) /\ Apart(Position[2], served[2])

\* Who may do what: InStep, thread by thread, and the flag is up only between
\* the end of a thread and main()'s answer to it.
HandOver ==
    /\ thr \in [Threads -> {"none", "connect", "exchange", "signal"}]
    /\ DOMAIN arg = Threads
    /\ \A t, u \in Threads : thr[t] # "none" /\ thr[u] # "none" => t = u
    /\ \A t \in Threads : thr[t] # "none" =>
          main = "poll" /\ ~moveDone /\ arg[t] = Position
    /\ moveDone => main \in {"poll", "clear"}

\* What the server knows at each place of main() and of a thread.
Journey ==
    /\ sticky = {}
    /\ main \in {"connect", "reset"} => served = <<>>
    /\ main = "create" => Fresh
    /\ main \in {"clear", "move"} \/ moveDone => Told
    /\ \A t \in Threads :
          /\ thr[t] = "connect" \/ (thr[t] = "exchange" /\ pc = "send") => Fresh
          /\ thr[t] = "exchange" /\ pc \notin {"send", "exited"} => Told
          /\ thr[t] = "signal" => Told

PongInv == BoardInv /\ HandOver /\ Journey

\* The connection comes from sending to parsing and never back.
LEMMA WorkMoves ==
    ASSUME Work
    PROVE  \/ pc = "send" /\ pc' = "send"
           \/ pc = "send" /\ pc' = "parse"
           \/ pc \notin {"send", "exited"} /\ pc' # "send"
<1>1. ASSUME NEW k \in 1 .. RequestSize, Write(k) PROVE pc = "send" /\ pc' = "send"
  BY <1>1 DEF Write
<1>2. CASE Sent
  BY <1>2 DEF Sent, Goto
<1>3. CASE ParseLine \/ ParseEnd
  BY <1>3 DEF ParseLine, ParseEnd, Goto
<1>4. CASE ReadHeaders \/ ReadBody
  BY <1>4 DEF ReadHeaders, ReadBody, Read, Goto
<1>5. CASE ReceiveBody \/ CheckBody
  BY <1>5 DEF ReceiveBody, CheckBody, Goto
<1> QED BY <1>1, <1>2, <1>3, <1>4, <1>5 DEF Work

\* A failure leaves the connection where only the end of the program follows.
LEMMA FailsMoves ==
    ASSUME Fails
    PROVE  pc' = "exited"
BY DEF Fails, WriteFails, ReadFails, ExitAt, Goto

\* A step that leaves the board alone leaves the ball alone.
LEMMA BoardStays ==
    ASSUME BoardInv, UNCHANGED boardVars
    PROVE  BoardInv' /\ Position' = Position /\ sticky' = sticky
<1>1. UNCHANGED <<width, height, sticky, balls, ballAt, x, y, dx, dy>> /\ UNCHANGED size
  BY DEF boardVars, size
<1>2. Xs' = Xs /\ Ys' = Ys /\ Cells' = Cells
  BY <1>1, SizeKeeps
<1>3. BoardTypeOK' /\ Stored' /\ StoppedOnSticky'
  BY <1>1, <1>2 DEF BoardInv, BoardTypeOK, Stored, StoppedOnSticky, Stopped
<1> QED BY <1>1, <1>3 DEF BoardInv, Position

\* A move of the ball that succeeds takes it one cell along each axis.
LEMMA BallMoves ==
    ASSUME BoardInv, sticky = {}, Move(Ball)
    PROVE  /\ BoardInv' /\ sticky' = {}
           /\ \/ UNCHANGED <<x, y>> /\ Position' = Position
              \/ /\ ~UNCHANGED <<x, y>>
                 /\ Apart(Position'[1], Position[1]) /\ Apart(Position'[2], Position[2])
<1>1. Ball \in Balls /\ Ball \in balls /\ ~Stopped(Ball) /\ sticky' = {}
  BY DEF Move, BoardInv, BoardTypeOK
<1>2. BoardInv'
  BY <1>1, MoveKeeps
<1>3. BounceX(Ball) \in {-1, 1} /\ BounceY(Ball) \in {-1, 1}
  BY <1>1, BounceMoving
<1>4. x \in [Balls -> Int] /\ y \in [Balls -> Int]
  BY SizePositive DEF BoardInv, BoardTypeOK, Xs, Ys
<1>5. CASE UNCHANGED <<x, y>>
  BY <1>1, <1>2, <1>5 DEF Position
<1>6. CASE /\ x' = [x EXCEPT ![Ball] = NextX(Ball)]
           /\ y' = [y EXCEPT ![Ball] = NextY(Ball)]
  <2>1. x'[Ball] = x[Ball] + BounceX(Ball) /\ y'[Ball] = y[Ball] + BounceY(Ball)
    BY <1>1, <1>4, <1>6 DEF NextX, NextY
  <2>2. Apart(x'[Ball], x[Ball]) /\ Apart(y'[Ball], y[Ball]) /\ x'[Ball] # x[Ball]
    BY <1>1, <1>3, <1>4, <2>1 DEF Apart
  <2> QED BY <1>1, <1>2, <2>2 DEF Position
<1> QED BY <1>1, <1>5, <1>6, MoveOrStay

\* The first ball starts in the corner.
LEMMA BallStarts ==
    ASSUME BoardInv, NewBall(Ball, 0, 0, 1, 1)
    PROVE  BoardInv' /\ Position' = <<0, 0>> /\ sticky' = sticky
<1> DEFINE c == <<0, 0>>
<1>1. c \in Cells /\ Ball \in Balls /\ c[1] = 0 /\ c[2] = 0
  BY DEF NewBall, OnBoard
<1>2. BoardInv'
  BY <1>1, NewBallKeeps
<1>3. x' = [x EXCEPT ![Ball] = 0] /\ y' = [y EXCEPT ![Ball] = 0] /\ sticky' = sticky
  BY DEF NewBall
<1>4. x'[Ball] = 0 /\ y'[Ball] = 0
  BY <1>1, <1>3 DEF BoardInv, BoardTypeOK
<1> QED BY <1>2, <1>3, <1>4 DEF Position

\* The strengthened invariant holds at the start.
LEMMA PongInvInit == PInit => PongInv
<1> SUFFICES ASSUME PInit PROVE PongInv
  OBVIOUS
<1>1. BoardInv
  BY BoardInvInit DEF PInit
<1>2. HandOver
  BY DEF PInit, HandOver
<1>3. Journey
  BY DEF PInit, BoardInit, Journey
<1> QED BY <1>1, <1>2, <1>3 DEF PongInv

\* Every step of main() keeps it.
LEMMA MainKeeps ==
    ASSUME PongInv, MainStep \/ ResetFails \/ CreateFails
    PROVE  PongInv'
<1> USE DEF PongInv, threadVars, heard
<1>1. CASE Reset \/ ResetExchange \/ ResetRefused \/ ResetFails \/ CreateFails
  <2>1. BoardInv' /\ Position' = Position /\ sticky' = sticky
    BY <1>1, BoardStays DEF Reset, ResetExchange, ResetRefused, ResetFails, CreateFails
  <2>2. UNCHANGED <<moveDone, thr, arg, served>>
    BY <1>1 DEF Reset, ResetExchange, ResetRefused, ResetFails, CreateFails
  <2>3. main \in {"connect", "reset", "create"} /\ (main' = main \/ main' = "reset")
    BY <1>1 DEF Reset, ResetExchange, ResetRefused, ResetFails, CreateFails
  <2>4. main # "create" \/ main' = main
    BY <1>1 DEF Reset, ResetExchange, ResetRefused, ResetFails, CreateFails
  <2>5. HandOver'
    BY <2>1, <2>2, <2>3 DEF HandOver
  <2>6. Journey'
    BY <2>1, <2>2, <2>3, <2>4 DEF HandOver, Journey, Fresh, Told
  <2> QED BY <2>1, <2>5, <2>6
<1>2. CASE ResetDone
  <2>1. BoardInv' /\ Position' = <<0, 0>> /\ sticky' = sticky
    BY <1>2, BallStarts DEF ResetDone
  <2>2. UNCHANGED <<moveDone, thr, arg, served>> /\ main = "reset" /\ main' = "create"
    BY <1>2 DEF ResetDone
  <2>3. HandOver'
    BY <2>1, <2>2 DEF HandOver
  <2>4. Journey'
    BY <2>1, <2>2 DEF HandOver, Journey, Fresh, Told
  <2> QED BY <2>1, <2>3, <2>4
<1>3. ASSUME NEW t \in Threads, Create(t) PROVE PongInv'
  <2>1. BoardInv' /\ Position' = Position /\ sticky' = sticky
    BY <1>3, BoardStays DEF Create
  <2>2. /\ thr' = [thr EXCEPT ![t] = "connect"] /\ arg' = [arg EXCEPT ![t] = Position]
        /\ main = "create" /\ main' = "poll" /\ UNCHANGED <<moveDone, served>>
    BY <1>3 DEF Create
  <2>3. HandOver'
    BY <2>1, <2>2 DEF HandOver
  <2>4. Journey'
    BY <2>1, <2>2 DEF HandOver, Journey, Fresh, Told
  <2> QED BY <2>1, <2>3, <2>4
<1>4. CASE Poll \/ Clear
  <2>1. BoardInv' /\ Position' = Position /\ sticky' = sticky
    BY <1>4, BoardStays DEF Poll, Clear
  <2>2. /\ UNCHANGED <<thr, arg, served>>
        /\ \/ main = "poll" /\ moveDone /\ main' = "clear" /\ moveDone' = moveDone
           \/ main = "clear" /\ main' = "move" /\ moveDone' = FALSE
    BY <1>4 DEF Poll, Clear
  <2>3. HandOver'
    BY <2>1, <2>2 DEF HandOver
  <2>4. Journey'
    BY <2>1, <2>2 DEF HandOver, Journey, Fresh, Told
  <2> QED BY <2>1, <2>3, <2>4
<1>5. CASE MoveBall
  <2>1. /\ BoardInv' /\ sticky' = {}
        /\ \/ UNCHANGED <<x, y>> /\ Position' = Position
           \/ /\ ~UNCHANGED <<x, y>>
              /\ Apart(Position'[1], Position[1]) /\ Apart(Position'[2], Position[2])
    BY <1>5, BallMoves DEF MoveBall, Journey
  <2>2. /\ UNCHANGED <<moveDone, thr, arg, served>> /\ main = "move"
        /\ main' = IF UNCHANGED <<x, y>> THEN "move" ELSE "create"
    BY <1>5 DEF MoveBall
  <2>3. HandOver'
    BY <2>1, <2>2 DEF HandOver
  <2>4. Told /\ served # <<>>
    BY <2>2 DEF Journey, Told, Position
  <2>5. Journey'
    BY <2>1, <2>2, <2>4 DEF HandOver, Journey, Fresh, Told
  <2> QED BY <2>1, <2>3, <2>5
<1> QED BY <1>1, <1>2, <1>3, <1>4, <1>5 DEF MainStep

\* Every step of a thread keeps it.
LEMMA ThreadKeeps ==
    ASSUME PongInv, NEW t \in Threads, ThreadStep(t) \/ ThreadFails(t)
    PROVE  PongInv'
<1> USE DEF PongInv, AtThread, Next, MainUnchanged, heard
<1>0. BoardInv' /\ Position' = Position /\ sticky' = sticky
  BY BoardStays DEF ThreadStep, ThreadFails, Request, ThreadExchange, ThreadClose,
                    ThreadRefused, Signal
<1>1. CASE Request(t)
  <2>1. /\ thr[t] = "connect" /\ thr' = [thr EXCEPT ![t] = "exchange"] /\ pc' = "send"
        /\ UNCHANGED <<main, arg, moveDone, served>>
    BY <1>1 DEF Request, Connect, Goto
  <2>2. HandOver'
    BY <1>0, <2>1 DEF HandOver
  <2>3. Journey'
    BY <1>0, <2>1 DEF HandOver, Journey, Fresh, Told
  <2> QED BY <1>0, <2>2, <2>3
<1>2. CASE ThreadExchange(t)
  <2>1. /\ thr[t] = "exchange" /\ UNCHANGED <<main, arg, moveDone, thr>>
        /\ served' = IF pc = "send" /\ pc' # pc THEN arg[t] ELSE served
    BY <1>2 DEF ThreadExchange
  <2>2. \/ pc = "send" /\ pc' = "send"
        \/ pc = "send" /\ pc' = "parse"
        \/ pc \notin {"send", "exited"} /\ pc' # "send"
    BY <1>2, WorkMoves DEF ThreadExchange, Exchange
  <2>3. HandOver'
    BY <1>0, <2>1 DEF HandOver
  <2>4. Journey'
    BY <1>0, <2>1, <2>2 DEF HandOver, Journey, Fresh, Told
  <2> QED BY <1>0, <2>3, <2>4
<1>3. CASE ThreadClose(t)
  <2>1. /\ thr[t] = "exchange" /\ thr' = [thr EXCEPT ![t] = "signal"] /\ pc = "done"
        /\ UNCHANGED <<main, arg, moveDone, served>>
    BY <1>3 DEF ThreadClose, Close
  <2>2. HandOver'
    BY <1>0, <2>1 DEF HandOver
  <2>3. Journey'
    BY <1>0, <2>1 DEF HandOver, Journey, Fresh, Told
  <2> QED BY <1>0, <2>2, <2>3
<1>4. CASE ThreadRefused(t) \/ ThreadFails(t)
  <2>1. UNCHANGED <<main, arg, moveDone, thr, served>> /\ (pc' = pc \/ pc' = "exited")
    BY <1>4, FailsMoves DEF ThreadRefused, ThreadFails, hvars
  <2>2. HandOver'
    BY <1>0, <2>1 DEF HandOver
  <2>3. Journey'
    BY <1>0, <2>1 DEF HandOver, Journey, Fresh, Told
  <2> QED BY <1>0, <2>2, <2>3
<1>5. CASE Signal(t)
  <2>1. /\ thr[t] = "signal" /\ thr' = [thr EXCEPT ![t] = "none"] /\ moveDone' = TRUE
        /\ UNCHANGED <<main, arg, served, pc>>
    BY <1>5 DEF Signal, hvars
  <2>2. HandOver'
    BY <1>0, <2>1 DEF HandOver
  <2>3. Journey'
    BY <1>0, <2>1 DEF HandOver, Journey, Fresh, Told
  <2> QED BY <1>0, <2>2, <2>3
<1> QED BY <1>1, <1>2, <1>3, <1>4, <1>5 DEF ThreadStep

\* So every step does.
LEMMA PongInvNext == ASSUME PongInv, [PNext]_pvars PROVE PongInv'
<1>1. CASE UNCHANGED pvars
  <2>1. /\ BoardInv' /\ Position' = Position /\ sticky' = sticky
        /\ UNCHANGED <<main, thr, arg, moveDone, served, pc>>
    BY <1>1, BoardStays DEF PongInv, pvars, threadVars, heard, hvars
  <2> QED BY <2>1 DEF PongInv, HandOver, Journey, Fresh, Told
<1>2. CASE Exited
  BY <1>1, <1>2 DEF Exited
<1> QED BY <1>1, <1>2, MainKeeps, ThreadKeeps DEF PNext

\* The invariant of the client holds in every reachable state.
THEOREM PongInvariant == PSpec => []PongInv
<1>1. PongInv /\ [PNext]_pvars => PongInv'
  BY PongInvNext
<1> QED BY <1>1, PongInvInit, PTL DEF PSpec

\* A thread is there only while main() waits for it, alone, and reports the
\* position the ball has (module Pong61, InStep).
THEOREM ThreadsInStep == PSpec => []InStep
<1>1. PongInv => InStep
  BY DEF PongInv, HandOver, InStep, Active
<1> QED BY <1>1, PongInvariant, PTL

\* The server hears of each position once, in the order the ball takes them: each
\* request is for the ball's position, which is one cell along each axis from the
\* last request's, and the ball leaves no position the server has not heard of
\* (module Pong61, ServerSeesPath).
THEOREM ServerIsToldThePath == PSpec => ServerSeesPath
<1> DEFINE Once == requests' # requests =>
                     /\ served' = Position
                     /\ IF served = <<>> THEN Position = <<0, 0>>
                        ELSE /\ Apart(Position[1], served[1])
                             /\ Apart(Position[2], served[2])
           All == main = "move" /\ Position' # Position => served = Position
<1>1. ASSUME PongInv, PNext, requests' # requests PROVE Once
  <2>1. PICK t \in Threads : ThreadExchange(t)
    BY <1>1 DEF PNext, MainStep, ThreadStep, Reset, ResetExchange, ResetDone, ResetRefused,
           ResetFails, Create, CreateFails, Poll, Clear, MoveBall, Request, ThreadClose,
           ThreadRefused, ThreadFails, Signal, Exited, pvars, threadVars, heard
  <2>2. thr[t] = "exchange" /\ pc = "send" /\ served' = arg[t]
    BY <1>1, <2>1 DEF ThreadExchange, AtThread, heard
  <2>3. served' = Position /\ Fresh
    BY <1>1, <2>2 DEF PongInv, HandOver, Journey
  <2> QED BY <2>3 DEF Fresh
<1>2. ASSUME PongInv PROVE All
  BY <1>2 DEF PongInv, Journey, Told
<1>3. PongInv /\ [PNext]_pvars => [Once /\ All]_pvars
  BY <1>1, <1>2
<1> QED BY <1>3, PongInvariant, PTL DEF PSpec, ServerSeesPath

-----------------------------------------------------------------------------
(* The program's connections.                                              *)

\* Whoever it is that uses the connection, main() or a thread, it does so as
\* HttpConnection says: send, then receive, then close.
THEOREM ProgramUsesConnection == PSpec => HSpec
<1>1. PInit => HInit
  BY DEF PInit
<1>2. ASSUME [PNext]_pvars PROVE [HNext]_hvars
  <2>1. CASE UNCHANGED pvars \/ Exited
    BY <2>1 DEF pvars, Exited
  <2>2. CASE MainStep \/ ResetFails \/ CreateFails
    <3>1. CASE Reset \/ ResetExchange \/ ResetDone \/ ResetRefused
      BY <3>1 DEF Reset, ResetExchange, ResetDone, ResetRefused, Exchange, HNext
    <3>2. CASE ResetFails \/ CreateFails
      BY <3>2 DEF ResetFails, CreateFails, HNext
    <3>3. CASE (\E t \in Threads : Create(t)) \/ Poll \/ Clear \/ MoveBall
      BY <3>3 DEF Create, Poll, Clear, MoveBall
    <3> QED
      BY <2>2, <3>1, <3>2, <3>3 DEF MainStep
  <2>3. ASSUME NEW t \in Threads, ThreadStep(t) \/ ThreadFails(t) PROVE [HNext]_hvars
    <3>1. CASE Request(t) \/ ThreadExchange(t) \/ ThreadClose(t)
      BY <3>1 DEF Request, ThreadExchange, ThreadClose, Exchange, HNext
    <3>2. CASE ThreadRefused(t) \/ Signal(t)
      BY <3>2 DEF ThreadRefused, Signal
    <3>3. CASE ThreadFails(t)
      BY <3>3 DEF ThreadFails, HNext
    <3> QED
      BY <2>3, <3>1, <3>2, <3>3 DEF ThreadStep
  <2> QED
    BY <1>2, <2>1, <2>2, <2>3 DEF PNext
<1> QED
  BY <1>1, <1>2, PTL DEF PSpec, HSpec

\* So the bodies main() and the threads look at are exact (BodyExact), and what
\* they take for a broken connection was one (BrokenMeansCut).
THEOREM ProgramReadsExactBodies == PSpec => [](BodyExact /\ BrokenMeansCut)
BY ProgramUsesConnection, BodiesAreExact, OnlyCutsBreak, PTL
=============================================================================
